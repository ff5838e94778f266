CONSTANTS
    Esp = esp
    Audio = audio
    Mgmt = mgmt
    Button = button
    Nobody = nobody
    MaxChanges = 2
    MaxDisturbances = 0
    MaxCommands = 2
    MaxQueue = 1
SPECIFICATION Spec
INVARIANTS
    MonitorScans
CHECK_DEADLOCK FALSE
