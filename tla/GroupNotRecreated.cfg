CONSTANTS
    h1 = h1
    h2 = h2
    Addrs = {h1, h2}
    NoAddr = NoAddr
    MaxServers = 2
    MaxEps = 2
    MaxCaps = 2
    PreferredRate = 48
    Profile <- MicrophoneToo
    Bidirectional = TRUE
    GroupMax = 4
    MaxWaiting = 4
    MaxConn = 2
    MaxPaired = 2
    SetOf <- OneSet
    NoSet = "none"
    SetSize = 2
    MaxMessages = 2
    MaxDisturbances = 0
    MaxPresses = 0
SPECIFICATION Spec
INVARIANTS NewGroupFollows
CHECK_DEADLOCK FALSE
