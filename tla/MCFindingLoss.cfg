\* A keyframe asked for is refused by the decoder, and its loss reported.
SPECIFICATION Spec
CONSTANTS
    SeqMod = 16
    Depth = 2
    Track = 3
    Index = {p0}
    FrameSlots = 2
    PoolSlots = 2
    AbandonLog = 1
    MaxQueued = 1
    MaxFrames = 4
    MaxSent = 4
    MaxBuilds = 1
    MaxRefusals = 1
    MaxLag = 1
    MaxReportLag = 4
    Modes = {TRUE}
PROPERTY EveryLossIsAvoided
CHECK_DEADLOCK FALSE
