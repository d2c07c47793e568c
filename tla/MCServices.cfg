SPECIFICATION MCSpec
CONSTANTS
    Attempt = {a1, a2}
    MaxPinTries = 2
    MaxArmings = 2
    MaxFaults = 1
    MaxRequests = 2
    Worker = {w1, w2}
    MaxCreates = 3
    MaxWriteFails = 1
    MaxRestarts = 1
    Server = {s1}
    Settings <- FourSettings
    Entries <- ThreeEntries
    Tokens = {"minted", "lan"}
    WebCreates = 1
    MaxSaves = 2
    MaxFailures = 1
    HostApp = {"exe", "handoff", "uri"}
    Uri = {"uri"}
    Waits = {"handoff"}
    Prep <- TwoEach
    MaxLaunches = 2
    MaxStarts = 1
    Web = {}
    MaxSessions = 2
    MaxMeddling = 1
    Apps = 2
    Images = {"i1", "i2"}
    Chunks = 2
    PageSize = 1
    NoArt = NoArt
    MaxEdits = 1
    MaxBatches = 1
    MaxRuns = 1
    Thread = {"t1", "t2"}
    Collector = {"c1", "c2"}
    Places = 1
    Capacity = 2
    MaxSamples = 2
    MaxDrains = 2
    Nobody = Nobody
    OutRing = 2
    EffectWrap = 4
    MaxEffects = 5
    MaxSubmits = 2
    MaxKills = 1
    MaxPlugs = 2
    DeviceFailures = 1
    DeviceKills = 1
    Pads = {0, 1}
    MaxHeadsets = 1
    MaxQueued = 2
    MaxBridges = 2
    MaxStreams = 2
    BridgeChanges = 4
INVARIANTS PairedOnceAndTold ClientsAreAsSaved ActsOnWhatIsSaved HostIsAsFound
     DevicesAreWhole HeadsetsAreCapped MeasuresAreTrue
PROPERTY EffectsGoForward
SYMMETRY Symmetry
\* Every attempt over and every bound reached is an end.
CHECK_DEADLOCK FALSE
