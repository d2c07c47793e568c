\* Liveness, with only the timers and the loops of each part fair.  The
\* constants are the endpoint's: a client that starts twice.
SPECIFICATION LiveSpec
CONSTANTS
    SeqMod = 8
    Window = 1
    MaxAttempts = 1
    MaxIncarnations = 2
    MaxChannels = 1
    MaxKeepAlives = 1
    MaxInputs = 0
    MaxEnds = 0
    MaxServerCrashes = 0
    MaxWire = 2
PROPERTIES DeliveredOrGone NoGhostStream WhatWasBegunIsEnded
\* Everything sent, ended or undone is a legitimate end.
CHECK_DEADLOCK FALSE
