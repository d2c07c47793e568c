\* A Hello delivered again to a server that has forgotten the client.
SPECIFICATION Spec
CONSTANTS
    SeqMod = 8
    Window = 1
    MaxAttempts = 1
    MaxIncarnations = 1
    MaxChannels = 2
    MaxKeepAlives = 0
    MaxInputs = 0
    MaxEnds = 0
    MaxServerCrashes = 0
    MaxWire = 2
INVARIANTS KeysAlwaysAgree
\* Every client may be gone and nothing left to do.
CHECK_DEADLOCK FALSE
