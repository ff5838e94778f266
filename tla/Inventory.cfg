CONSTANTS
    Candidates = {s1, b1}
    Serial = {s1}
    HostBt = {b1}
    Threads = {serial, hostbt, reprobe}
    SerialThread = serial
    HostBtThread = hostbt
    ReprobeThread = reprobe
    MaxChanges = 3
SPECIFICATION FairSpec
INVARIANTS
    TypeOK
    SettledAgree
PROPERTIES
    AttachedIsServed
CHECK_DEADLOCK FALSE
