SPECIFICATION Spec
CONSTANTS
    Sinks = 1
    Sources = 1
    FrameBlocks = 2
    HsMessages = 1
    RxPackets = 2
    FifoBlks = 8
    BlksInFrame = 2
    PresDelays = {2, 4}
    DataPts = 2
    Peers = {p1, p2}
    AdvSets = 1
    Bises = {0, 1}
    IsoBufPerChan = 2
    Players = {p1, p2, p3}
    MediaConns = 2
    Plays = 2
    FileFrames = 3
    RingFrames = 1
    Lc3Streams = 2
    Lc3Frames = 2
    RxLineQueueDepth = 1
    TapNames = {adv, sync}
    Networks = {n1, n2}
    MaxStaRetries = 2
    WifiEvents = 2
    ChunkDepth = 2
CHECK_DEADLOCK FALSE
INVARIANTS
    TypeOK
    QuietWithoutStreams
    RxQueueNeverRefuses
    MergedFramesPlayRight
    AltBuffersSuffice
    InTimeWhenLocked
    FoundWhenAlone
    CountsTheBuffers
    SourceStateFollows
    SlotsMirrorPlayers
    PlaysTheFileInOrder
    FramesAreGivenInOrder
    LinksHold
