\* A server that has forgotten a client half the sequence space into its stream.
SPECIFICATION Spec
CONSTANTS
    SeqMod = 8
    Window = 1
    MaxAttempts = 1
    MaxIncarnations = 1
    MaxChannels = 2
    MaxKeepAlives = 3
    MaxInputs = 0
    MaxEnds = 0
    MaxServerCrashes = 0
    MaxWire = 2
INVARIANTS NothingReceivedRetiresNothing
\* Every client may be gone and nothing left to do.
CHECK_DEADLOCK FALSE
