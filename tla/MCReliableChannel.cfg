\* Nine messages one way through a space of six numbers, one the other way.
SPECIFICATION Spec
CONSTANTS
    SeqMod = 6
    Window = 2
    MaxAttempts = 2
    MaxLag = 2
    MaxFromClient = 9
    MaxFromServer = 1
INVARIANTS IndInv InOrderOnce RetiredWasDelivered EarlyIsAhead
PROPERTIES SendOverwritesNothing ImplementsOrderedDelivery
\* Everything sent and acknowledged, or both ends gone, is a legitimate end.
CHECK_DEADLOCK FALSE
