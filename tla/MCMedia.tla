------------------------------ MODULE MCMedia -------------------------------
(***************************************************************************)
(* What a stream is made by, for TLC: the capture and its encoder, the     *)
(* sub-frame drain, the frame loop with its governor, the send path with   *)
(* its retransmit cache and the rings between its threads, the pacer, rate *)
(* control and the NACKs for the holes of a frame; and its sound.          *)
(* VideoPath checks frames from the encoder to the decoder; here is what   *)
(* each stage keeps for itself.  One run checks them side by side: a       *)
(* behaviour is a behaviour of one part, and the parts take turns with the *)
(* same variables, numbered.                                               *)
(***************************************************************************)
EXTENDS Naturals

CONSTANTS
    Codec, Sizes, CaptureFrames, MaxChanges, MaxFailures,             \* CapturePath
    Tiles, Assumed, StaleGroups, IdleLimit, Rounds, Surfaces,         \* SubframeDrain
    Malformed, MaxPictures, DriverFailures,
    ClientInterval, IdleGap, FlushSlack, Gap, HoldModes, LoopFrames,  \* FrameLoop
    MaxBreaks, LoopAsks,
    Shapes, RingSize, CacheSlots, FrameTable, FrameIds, MaxBatch, MaxUnsent, \* SendPath
    MaxFrames, MaxAsks,
    Asks, Floor, Gradients, Steep, Flat, HoldTime, ClimbInterval,     \* RateControl
    ProbeInterval, LossWindow, CounterWrap, Frames, Late, MaxTime,
    Targets, Starts, Batches, Burst, Second, MaxIdle, MaxSends,       \* Pacer
    RingSlots, IndexWrap, Batch, MaxItems,                            \* Rings
    SlotPackets, MaxTargets, Reask, NackTime, MaxLosses,              \* HoleNacks
    FrameSizes, EnginePeriod, Grace, PollGaps, MaxTurns, FailedPolls, \* AudioSend
    SoundTime,
    AudioIds, WINDOW, MAX_CONCEALED, RESYNC_AHEAD, MaxNumbered,       \* AudioReorder
    MaxCopies, MaxLag,
    AudioFrame, AudioBurst, Channels, MaxPeakFrames, SlackFrames,     \* Playout
    TrimFrames, Windows, AudioCapacity, MaxChunks, MaxGap, MaxUnderruns

VARIABLES
    part,
    v1, v2, v3, v4, v5, v6, v7, v8, v9, v10, v11, v12, v13, v14, v15, v16

vars == <<part, v1, v2, v3, v4, v5, v6, v7, v8, v9, v10, v11, v12, v13, v14, v15,
            v16>>

\* The variables from the nth on, which no machine with fewer has.
Unused16 == v16 = 0
Unused15 == v15 = 0 /\ Unused16
Unused14 == v14 = 0 /\ Unused15
Unused13 == v13 = 0 /\ Unused14
Unused11 == v11 = 0 /\ v12 = 0 /\ Unused13
Unused9 == v9 = 0 /\ v10 = 0 /\ Unused11
Unused8 == v8 = 0 /\ Unused9
Rest15 == <<v15, v16>>
Rest14 == <<v14, v15, v16>>
Rest13 == <<v13, v14, v15, v16>>
Rest11 == <<v11, v12, v13, v14, v15, v16>>
Rest9 == <<v9, v10, v11, v12, v13, v14, v15, v16>>
Rest8 == <<v8, v9, v10, v11, v12, v13, v14, v15, v16>>

\* Values for the constants that are tuples or records: the asks of RateControl,
\* what a report of it may count, and the packets of a frame of SendPath.
Ask(ceiling, aim, min, max, hint, client) ==
    [ceiling |-> ceiling, target |-> aim, min |-> min, max |-> max, hint |-> hint,
     client |-> client]
ThreeAsks == {Ask(150000, 40000, 5000, 90000, 60000, 41000),
              Ask(100000, 30000, 12000, 80000, 60000, 0),
              Ask(100000, 30000, 12000, 80000, 60000, 6000)}
TwoCounts == {<<20, 0>>, <<18, 2>>}
TwoShapes == {<<2, 1>>, <<2, 2>>}

-----------------------------------------------------------------------------
(* The machines.                                                           *)

Cap == INSTANCE CapturePath WITH
    Size <- Sizes, MaxFrames <- CaptureFrames, session <- v1, desktop <- v2, capture <- v3,
    spine <- v4, color <- v5, state <- v6, reading <- v7, contexts <- v8,
    encoding <- v9, told <- v10, sent <- v11, changes <- v12, failures <- v13,
    builds <- v14

Drain == INSTANCE SubframeDrain WITH
    Stale <- StaleGroups, MaxFailures <- DriverFailures, subframe <- v1, assumed <- v2, at <- v3,
    surface <- v4, registered <- v5, mapped <- v6, picture <- v7, real <- v8,
    size <- v9, consumed <- v10, idle <- v11, groups <- v12, rounds <- v13,
    ended <- v14, pictures <- v15, failures <- v16

Loop == INSTANCE FrameLoop WITH
    Interval <- ClientInterval, MaxFrames <- LoopFrames, MaxAsks <- LoopAsks,
    holds <- v1, now <- v2, governor <- v3, held <- v4, last <- v5, owed <- v6,
    secure <- v7, captured <- v8, encoded <- v9, lostTo <- v10, times <- v11,
    breaks <- v12, asks <- v13

Send == INSTANCE SendPath WITH
    left <- v1, made <- v2, ring <- v3, cache <- v4, batch <- v5, offload <- v6,
    popped <- v7, out <- v8, asked <- v9, wrong <- v10, missed <- v11,
    thread <- v12, dropped <- v13, asks <- v14

Rate == INSTANCE RateControl WITH
    Hold <- HoldTime, Interval <- ClimbInterval, Wrap <- CounterWrap, now <- v1,
    counted <- v2, reports <- v3, ask <- v4, target <- v5, ceiling <- v6,
    last <- v7, seen <- v8, window <- v9, limit <- v10, crossed <- v11,
    hasty <- v12, unearned <- v13

Pace == INSTANCE Pacer WITH
    now <- v1, initial <- v2, asked <- v3, paced <- v4, available <- v5, sent <- v6,
    spent <- v7

Ring == INSTANCE Rings WITH
    Slots <- RingSlots, Wrap <- IndexWrap, tail <- v1, head <- v2, slots <- v3,
    producer <- v4, consumer <- v5, offered <- v6, accepted <- v7, taken <- v8

Hole == INSTANCE HoleNacks WITH
    Packets <- SlotPackets, MaxTime <- NackTime, slot <- v1, newer <- v2, now <- v3, video <- v4,
    nacks <- v5, losses <- v6, last <- v7

Source == INSTANCE AudioSend WITH
    Period <- EnginePeriod, MaxFailures <- FailedPolls, MaxTime <- SoundTime,
    now <- v1, frame <- v2, playing <- v3, due <- v4, waiting <- v5, acc <- v6,
    silence <- v7, real <- v8, still <- v9, lastSent <- v10, turns <- v11,
    failures <- v12

Reorder == INSTANCE AudioReorder WITH
    Ids <- AudioIds, MaxSent <- MaxNumbered, sent <- v1, flying <- v2, next <- v3,
    held <- v4, place <- v5, first <- v6, played <- v7, arrived <- v8,
    early <- v9, copies <- v10

Sound == INSTANCE Playout WITH
    Frame <- AudioFrame, Burst <- AudioBurst, Capacity <- AudioCapacity,
    jitter <- v1, target <- v2, lowest <- v3, underruns <- v4, taken <- v5,
    arrived <- v6, chunks <- v7, level <- v8, primed <- v9, cut <- v10

ASSUME CaptureAssumption == Cap!PathBounds
ASSUME DrainAssumption == Drain!DrainBounds
ASSUME LoopAssumption == Loop!LoopBounds
ASSUME SendAssumption == Send!SendBounds
ASSUME RateAssumption == Rate!RateBounds
ASSUME PaceAssumption == Pace!PaceBounds
ASSUME RingAssumption == Ring!RingBounds
ASSUME NackAssumption == Hole!NackBounds
ASSUME SourceAssumption == Source!SendBounds
ASSUME ReorderAssumption == Reorder!ReorderBounds
ASSUME SoundAssumption == Sound!PlayoutBounds

-----------------------------------------------------------------------------

MCInit ==
    \/ part = "capture" /\ Cap!Init /\ Unused15
    \/ part = "drain" /\ Drain!Init
    \/ part = "frames" /\ Loop!Init /\ Unused14
    \/ part = "send" /\ Send!Init /\ Unused15
    \/ part = "rate" /\ Rate!Init /\ Unused14
    \/ part = "pace" /\ Pace!Init /\ Unused8
    \/ part = "rings" /\ Ring!Init /\ Unused9
    \/ part = "nacks" /\ Hole!Init /\ Unused8
    \/ part = "sound" /\ Source!Init /\ Unused13
    \/ part = "reorder" /\ Reorder!Init /\ Unused11
    \/ part = "playout" /\ Sound!Init /\ Unused11

MCNext ==
    /\ UNCHANGED part
    /\ \/ part = "capture" /\ Cap!Next /\ UNCHANGED Rest15
       \/ part = "drain" /\ Drain!Next
       \/ part = "frames" /\ Loop!Next /\ UNCHANGED Rest14
       \/ part = "send" /\ Send!Next /\ UNCHANGED Rest15
       \/ part = "rate" /\ Rate!Next /\ UNCHANGED Rest14
       \/ part = "pace" /\ Pace!Next /\ UNCHANGED Rest8
       \/ part = "rings" /\ Ring!Next /\ UNCHANGED Rest9
       \/ part = "nacks" /\ Hole!Next /\ UNCHANGED Rest8
       \/ part = "sound" /\ Source!Next /\ UNCHANGED Rest13
       \/ part = "reorder" /\ Reorder!Next /\ UNCHANGED Rest11
       \/ part = "playout" /\ Sound!Next /\ UNCHANGED Rest11

MCSpec == MCInit /\ [][MCNext]_vars

-----------------------------------------------------------------------------
(* Properties.  Each is said of one part, and defined with its machine.    *)

\* Every access unit sent is of the session, the size and the colour the TV was
\* last told, or is owed an IDR; no buffer is read once its capture is gone; and
\* the calls that bind NvFBC's context are paired (server/pipeline.rs,
\* capture/dda.rs, encode/encoder.rs).
SentAsTold == part = "capture" =>
    Cap!SentAsTold /\ Cap!NoReadAfterRelease /\ Cap!ContextsAreBalanced

\* A picture read while it is being encoded is the picture: every tile once, in
\* order, none of the picture before it, and its end told with its last byte
\* (encode/encoder.rs, encode/bitstream.rs).
PictureIsExact == part = "drain" => Drain!PictureIsExact

\* The newest frame captured is on the screen, lost with the desktop, or held
\* with a deadline to send it (net/governor.rs, server/pipeline.rs).
NewestIsShownOrHeld == part = "frames" => Loop!NewestIsShownOrHeld

\* No entry of a ring is torn, lost or handed over twice.  A datagram of the stream is
\* a packet of it, whole and in its place, or one the socket did not take; and a
\* retransmit is of the packet asked for, never of one that took its slot
\* (net/spsc.rs, server/pipeline.rs, net/send/windows.rs, net/retransmit.rs).
StreamIsWhole ==
    /\ part = "rings" => Ring!NothingTornOrLost
    /\ part = "send" => Send!StreamIsWhole /\ Send!RetransmitsAreRight

\* The rate stays where the settings and the client allow it and is raised no
\* oftener than the probe interval; and what is sent keeps to the pace it is set
\* to, over every change of it (net/rate.rs, net/send.rs).
RatesAreKept ==
    /\ part = "rate" => Rate!TargetIsAllowed /\ Rate!ProbesAreSlow
    /\ part = "pace" => Pace!PaceIsKept

\* The governor lets no three frames through within half an interval.  A packet
\* that opens a gap below itself has the gap asked for at once, and no NACK asks
\* within NACK_REASK_MS for nothing more than the one before did
\* (net/governor.rs, net/video.rs).
ShownAndAskedInTime ==
    [][/\ part = "frames" => Loop!IsNoBurst
       /\ part = "nacks" => Hole!AsksForMore /\ Hole!AsksAtOnce]_vars

\* Sound keeps the time it is captured at; a packet is played in its own place or
\* not at all; and the delay the player holds stays under its bound
\* (audio/pcm.rs, android/plc.rs, android/playout.rs, android/audio.rs).
SoundKeepsTime ==
    /\ part = "sound" => Source!StreamKeepsTime
    /\ part = "reorder" => Reorder!PlayedInItsPlace
    /\ part = "playout" => Sound!DelayIsBounded

=============================================================================
