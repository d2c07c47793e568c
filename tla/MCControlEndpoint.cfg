\* Two incarnations of the client; the server forgets it and takes it back.
SPECIFICATION Spec
CONSTANTS
    SeqMod = 8
    Window = 1
    MaxAttempts = 1
    MaxIncarnations = 2
    MaxChannels = 2
    MaxKeepAlives = 0
    MaxInputs = 1
    MaxEnds = 0
    MaxServerCrashes = 0
    MaxWire = 2
INVARIANTS TypeOK KeysAgree InputAppliedOnce
PROPERTIES AddressMovesForward
\* Every client may be gone and nothing left to do.
CHECK_DEADLOCK FALSE
