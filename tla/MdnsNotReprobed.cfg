CONSTANTS
    Candidates = {m1, m2}
    Threads = {monitor, ping}
    MonitorThread = monitor
    PingThread = ping
    Free = Free
    NoAnswer = NoAnswer
    PingFailuresBeforeGone = 3
    MaxChanges = 2
SPECIFICATION FairSpec
PROPERTIES
    AnsweringAgentIsServed
CHECK_DEADLOCK FALSE
