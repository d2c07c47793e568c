SPECIFICATION MCSpec
CONSTANTS
    Codec = {"hevc", "h264"}
    Sizes = {1, 2}
    CaptureFrames = 3
    MaxChanges = 2
    MaxFailures = 1
    Tiles = 2
    Assumed = {1, 2, 4}
    StaleGroups = 2
    IdleLimit = 2
    Rounds = 12
    Surfaces = {"a", "b"}
    Malformed = FALSE
    MaxPictures = 2
    DriverFailures = 1
    ClientInterval = 20
    IdleGap = 100
    FlushSlack = 1
    Gap = {3, 8, 17, 24, 130}
    HoldModes = {TRUE, FALSE}
    LoopFrames = 5
    MaxBreaks = 1
    LoopAsks = 1
    Shapes <- TwoShapes
    RingSize = 2
    CacheSlots = 3
    FrameTable = 1
    FrameIds = 3
    MaxBatch = 2
    MaxFrames = 4
    MaxUnsent = 1
    MaxAsks = 1
    Asks <- ThreeAsks
    Floor = 10000
    Gradients = {0, 50}
    Steep = 5
    Flat = 1
    HoldTime = 2
    ClimbInterval = 1
    ProbeInterval = 5
    LossWindow = 2
    CounterWrap = 1000
    Frames <- TwoCounts
    Late = FALSE
    MaxTime = 9
    Targets = {1, 4}
    Starts = {2}
    Batches = {1, 3}
    Burst = 2
    Second = 8
    MaxIdle = 5
    MaxSends = 3
    RingSlots = 2
    IndexWrap = 4
    Batch = 2
    MaxItems = 7
    SlotPackets = 5
    MaxTargets = 5
    Reask = 2
    NackTime = 3
    MaxLosses = 2
    FrameSizes = {5, 20}
    EnginePeriod = 10
    Grace = 30
    PollGaps = {5, 6, 16}
    MaxTurns = 2
    FailedPolls = 1
    SoundTime = 60
    AudioIds = 8
    WINDOW = 2
    MAX_CONCEALED = 1
    RESYNC_AHEAD = 3
    MaxNumbered = 10
    MaxCopies = 1
    MaxLag = 3
    AudioFrame = 2
    AudioBurst = 2
    Channels = 1
    MaxPeakFrames = 2
    SlackFrames = 1
    TrimFrames = 0
    Windows = 1
    AudioCapacity = 14
    MaxChunks = 1
    MaxGap = 5
    MaxUnderruns = 2
INVARIANTS SentAsTold PictureIsExact NewestIsShownOrHeld StreamIsWhole RatesAreKept
    SoundKeepsTime
PROPERTIES ShownAndAskedInTime
\* Every bound reached is an end.
CHECK_DEADLOCK FALSE
