\* Nothing is lost, refused or rebuilt; the frame numbers pass half their space.
SPECIFICATION Spec
CONSTANTS
    SeqMod = 4
    Depth = 2
    Track = 3
    Index = {p0}
    FrameSlots = 2
    PoolSlots = 2
    AbandonLog = 1
    MaxQueued = 1
    MaxFrames = 4
    MaxSent = 4
    MaxBuilds = 1
    MaxRefusals = 0
    MaxLag = 1
    MaxReportLag = 0
    Modes = {FALSE}
INVARIANT OwnFramesPass
CHECK_DEADLOCK FALSE
