CONSTANTS
    Esp = esp
    Audio = audio
    Mgmt = mgmt
    Button = button
    Nobody = nobody
    MaxChanges = 1
    MaxDisturbances = 1
    MaxCommands = 2
    MaxQueue = 1
SPECIFICATION FairSpec
PROPERTIES
    TimeoutRestartsScan
CHECK_DEADLOCK FALSE
