CONSTANTS
    Candidates = {m1, m2}
    Threads = {monitor, ping}
    MonitorThread = monitor
    PingThread = ping
    Free = Free
    NoAnswer = NoAnswer
    PingFailuresBeforeGone = 3
    MaxChanges = 5
SPECIFICATION FairSpec
INVARIANTS
    TypeOK
    DepartedLeavesNothing
    NeverOvertaken
PROPERTIES
    SilentIsGone
    AnsweringIsPresent
CHECK_DEADLOCK FALSE
