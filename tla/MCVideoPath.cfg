\* Both recoveries, one rebuild, one refusal.
SPECIFICATION Spec
CONSTANTS
    SeqMod = 16
    Depth = 2
    Track = 3
    Index = {p0, p1}
    FrameSlots = 2
    PoolSlots = 3
    AbandonLog = 1
    MaxQueued = 1
    MaxFrames = 4
    MaxSent = 3
    MaxBuilds = 2
    MaxRefusals = 1
    MaxLag = 2
    MaxReportLag = 2
    Modes = {TRUE, FALSE}
INVARIANTS TypeOK FedIsDecodable FedInOrder NoSilentGap
PROPERTIES OldestLossIsAvoided
SYMMETRY Symmetry
CHECK_DEADLOCK FALSE
