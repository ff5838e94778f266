CONSTANTS
    Esp = esp
    Audio = audio
    Mgmt = mgmt
    Button = button
    Nobody = nobody
    MaxChanges = 2
    MaxDisturbances = 1
    MaxCommands = 2
    MaxQueue = 1
SPECIFICATION FairSpec
INVARIANTS
    TypeOK
    ModeIsAcknowledged
    PendingIsWatched
    ActiveIsHeard
PROPERTIES
    CommandIsAnswered
CHECK_DEADLOCK FALSE
