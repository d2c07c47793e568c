\* Streams that end: a Bye, a disconnect, a dead pipeline, a silent client.
SPECIFICATION Spec
CONSTANTS
    SeqMod = 8
    Window = 1
    MaxAttempts = 1
    MaxIncarnations = 2
    MaxChannels = 1
    MaxKeepAlives = 1
    MaxInputs = 0
    MaxEnds = 1
    MaxServerCrashes = 1
    MaxWire = 2
INVARIANTS StreamServesItsPeer OnlyEndedByItsOwn AcksAreOfThisPeer
\* Every client may be gone and nothing left to do.
CHECK_DEADLOCK FALSE
