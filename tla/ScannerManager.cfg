CONSTANTS
    Units = {u1, u2}
    WireTapUnits = {u1}
    Devices = {d1}
    Callers = {c1, c2}
    Workers = {w1, w2, w3}
    NoWorker = NoWorker
    Free = Free
    MaxSeen = 2
    MaxChunk = 2
SPECIFICATION FairSpec
INVARIANTS
    TypeOK
    NotScanningMeansQuiet
    OnePortUser
    NoEventForUnboundUnit
    CountsMatchEvents
    TapFollowsWorker
PROPERTIES
    JoinReturnsOrDeadlocks
    ImplementsScanSession
CHECK_DEADLOCK FALSE
