CONSTANTS
    h1 = h1
    h2 = h2
    Addrs = {h1, h2}
    NoAddr = NoAddr
    MaxServers = 2
    MaxEps = 2
    MaxCaps = 2
    PreferredRate = 48
    Profile <- Sinks
    Bidirectional = FALSE
    GroupMax = 4
    MaxWaiting = 4
    MaxConn = 2
    MaxPaired = 2
    SetOf <- OneSet
    NoSet = "none"
    SetSize = 2
    MaxMessages = 2
    MaxDisturbances = 6
    MaxPresses = 2
SPECIFICATION Spec
INVARIANTS TypeOK StoreMirrorsLinks ProceduresExclusive GroupHoldsWhatRuns AudioFollowsStreams MissingIsSought
CHECK_DEADLOCK FALSE
