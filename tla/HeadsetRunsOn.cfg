SPECIFICATION HeadsetSpec
CONSTANTS
    Sinks = 1
    Sources = 1
    FrameBlocks = 2
    HsMessages = 1
INVARIANT HeadsetRunsOn
