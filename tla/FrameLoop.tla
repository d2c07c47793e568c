------------------------------ MODULE FrameLoop ------------------------------
(***************************************************************************)
(* The capture side of the GPU thread: which captured frame is encoded,    *)
(* and when (gpu_loop of sunburst-server/src/pipeline.rs with the          *)
(* FrameGovernor of sunburst-net/src/governor.rs).  What encoding does     *)
(* with the frame is VideoPath.                                            *)
(*                                                                         *)
(* A frame is the number of its capture.  Time is a clock that moves by    *)
(* the gaps of Gap; capture and encoding take none of it.                  *)
(***************************************************************************)
EXTENDS Naturals, Sequences

CONSTANTS
    Interval,   \* the client's frame interval
    IdleGap,    \* IDLE_GAP_NS
    FlushSlack, \* FLUSH_SLACK_NS
    Gap,        \* by how much the clock moves
    HoldModes,  \* whether the backend honors its timeout: the cases to try
    MaxFrames,  \* bound: frames captured
    MaxBreaks,  \* bound: captures lost and desktops made secure
    MaxAsks     \* bound: keyframes asked for

LoopBounds ==
    /\ {Interval, IdleGap, FlushSlack, MaxFrames} \subseteq Nat \ {0}
    /\ Gap \subseteq Nat \ {0} /\ HoldModes \subseteq BOOLEAN
    /\ {MaxBreaks, MaxAsks} \subseteq Nat

VARIABLES
    holds,    \* hold_enabled
    now,      \* the clock, counted from the governor's making
    governor, \* FrameGovernor
    held,     \* the converted frame the governor holds, 0 for none
    last,     \* the newest converted frame the converter still has, 0 for none
    owed,     \* a keyframe is owed: need_keyframe, request_idr or an abandon
    secure,   \* StreamShared.secure
    captured, \* frames captured so far
    encoded,  \* the newest frame encoded
    lostTo,   \* frames captured before the capture was last lost or refused
    times,    \* when the last two frames were admitted or flushed
    breaks, asks

vars == <<holds, now, governor, held, last, owed, secure, captured, encoded,
          lostTo, times, breaks, asks>>

Max2(a, b) == IF a > b THEN a ELSE b

None == 0
NoDeadline == 0
Never == 0

NewGovernor == [slot |-> 0, started |-> FALSE, gap |-> Interval,
                arrival |-> Never, deadline |-> NoDeadline, grid |-> FALSE]

Init ==
    /\ holds \in HoldModes
    /\ now = 1 /\ governor = NewGovernor
    /\ held = None /\ last = None
    /\ owed = TRUE /\ secure = FALSE
    /\ captured = 0 /\ encoded = 0 /\ lostTo = 0
    /\ times = <<>>
    /\ breaks = 0 /\ asks = 0

-----------------------------------------------------------------------------
(* The governor.                                                           *)

\* The moving average of the gaps between arrivals, idle ones left out.
Cadence(g, t) ==
    IF g.arrival = Never \/ t - g.arrival >= IdleGap THEN g.gap
    ELSE g.gap - g.gap \div 5 + (t - g.arrival) \div 5

\* Content much faster than the client is put on a grid, with hysteresis.
OnGrid(g) == IF g.grid THEN g.gap * 20 <= Interval * 17 ELSE g.gap * 10 < Interval * 7

Freed(g) == [g EXCEPT !.deadline = NoDeadline]

SlotIsNow(g, t) == [Freed(g) EXCEPT !.slot = t, !.started = TRUE]

\* admit: the next slot is an interval on, and not in the past.
AdmittedAt(g, t) ==
    [Freed(g) EXCEPT !.slot = IF g.started THEN Max2(g.slot + Interval, t) ELSE t,
                     !.started = TRUE]

\* catch_up: whole slots that passed with no frame are stepped over.
CaughtUp(g, t) ==
    IF t >= g.slot + Interval
      THEN [g EXCEPT !.slot = @ + ((t - g.slot) \div Interval) * Interval]
      ELSE g

NextOfGrid(g) == [Freed(g) EXCEPT !.slot = @ + Interval]

\* on_frame, up to the verdict: the cadence, the mode and the slot.
Arrived(g, t) ==
    LET seen == [g EXCEPT !.gap = Cadence(g, t), !.arrival = t]
        mode == [seen EXCEPT !.grid = OnGrid(seen)]
    IN  IF ~g.started THEN seen ELSE IF mode.grid THEN CaughtUp(mode, t) ELSE mode

IsAdmitted(g, t) ==
    ~g.started \/ (IF g.grid THEN t + g.gap \div 2 >= g.slot ELSE t >= g.slot)

AfterAdmission(g, t) == IF g.started /\ g.grid THEN NextOfGrid(g) ELSE AdmittedAt(g, t)

\* How long a held frame waits for a newer one, and until when.
Wait(g) == Max2(Interval, 2 * g.gap + FlushSlack)
AfterHold(g, t) == [g EXCEPT !.deadline = Max2(g.slot, t + Wait(g))]

\* on_flush.
AfterFlush(g, t) == IF g.grid THEN NextOfGrid(CaughtUp(g, t)) ELSE AdmittedAt(g, t)

-----------------------------------------------------------------------------
(* gpu_loop.                                                               *)

\* When the last two frames were admitted or flushed.
Timed(t) == times' = IF times = <<>> THEN <<t>> ELSE <<times[Len(times)], t>>

\* The frame is encoded at once.  A frame that makes the spine anew owes a
\* keyframe, and encoding answers whatever is owed.
Admit(g, frame) ==
    /\ governor' = AfterAdmission(g, now')
    /\ held' = None /\ last' = frame
    /\ encoded' = frame /\ owed' = FALSE
    /\ Timed(now')

\* It is early: converted, and kept in place of the one held before.
Hold(g, frame, rebuilt) ==
    /\ governor' = AfterHold(g, now')
    /\ held' = frame /\ last' = frame
    /\ owed' = (owed \/ rebuilt)
    /\ UNCHANGED <<encoded, times>>

\* It is early, and the backend could not be woken to flush it.
Skip(g) ==
    /\ governor' = g
    /\ UNCHANGED <<held, last, owed, encoded, times>>

\* acquire gives a frame, gap after whatever happened last.
Acquire(gap) ==
    /\ captured < MaxFrames
    /\ now' = now + gap
    /\ captured' = captured + 1
    /\ secure' = FALSE
    /\ LET g == Arrived(governor, now') IN
        IF IsAdmitted(g, now') THEN Admit(g, captured')
        ELSE IF holds THEN \E rebuilt \in BOOLEAN : Hold(g, captured', rebuilt)
        ELSE Skip(g)
    /\ UNCHANGED <<holds, lostTo, breaks, asks>>

\* Motion stopped with a frame held.
Flush ==
    /\ held # None /\ governor.deadline # NoDeadline
    /\ now' = Max2(now, governor.deadline)
    /\ governor' = AfterFlush(governor, now')
    /\ held' = None
    /\ encoded' = held /\ owed' = FALSE
    /\ Timed(now')
    /\ UNCHANGED <<holds, last, secure, captured, lostTo, breaks, asks>>

\* acquire gives nothing: the screen is still, and a keyframe is owed.
EncodeAgain ==
    /\ held = None /\ last # None /\ owed
    /\ encoded' = last /\ owed' = FALSE
    /\ UNCHANGED <<holds, now, governor, held, last, secure, captured, lostTo,
                   times, breaks, asks>>

\* Nothing held or kept goes past a break, and what follows opens on a keyframe.
KeptOver(frame) == frame
Dropped(frame) == None

Broken ==
    /\ breaks < MaxBreaks /\ breaks' = breaks + 1
    /\ held' = Dropped(held) /\ last' = Dropped(last)
    /\ governor' = NewGovernor
    /\ owed' = TRUE
    /\ lostTo' = captured /\ times' = <<>>
    /\ UNCHANGED <<now, captured, encoded, asks>>

\* The capture is built again, on a backend that may be another.
AccessLost ==
    /\ Broken
    /\ holds' \in HoldModes
    /\ UNCHANGED secure

\* The desktop is secure or protected.
Unavailable ==
    /\ Broken
    /\ secure' = TRUE
    /\ UNCHANGED holds

\* The control thread raises request_idr, or notes an abandoned frame.
AskKeyframe ==
    /\ asks < MaxAsks /\ asks' = asks + 1
    /\ owed' = TRUE
    /\ UNCHANGED <<holds, now, governor, held, last, secure, captured, encoded,
                   lostTo, times, breaks>>

Next ==
    \/ \E gap \in Gap : Acquire(gap)
    \/ Flush \/ EncodeAgain \/ AccessLost \/ Unavailable \/ AskKeyframe

Spec == Init /\ [][Next]_vars

-----------------------------------------------------------------------------

\* On a backend that can wait, the newest frame of a motion is on the TV or
\* held with a deadline to put it there, and nothing captured before the
\* desktop was secure or the capture lost is left to be sent after it
\* (governor.rs: "without ever losing the last frame of a motion";
\* pipeline.rs: "nothing held or kept over from before").
NewestIsShownOrHeld ==
    /\ holds => captured \in {encoded, held, lostTo}
    /\ held # None => held > lostTo /\ governor.deadline # NoDeadline
    /\ last # None => last > lostTo

\* The governor lets no three frames through within half a client interval,
\* whatever the cadence, the mode and the flushes between them: next_slot may
\* lag the clock by one frame and no more.
IsNoBurst ==
    Len(times) = 2 /\ times' # times /\ times' # <<>>
        => times'[2] - times[1] > Interval \div 2

\* The inductive invariant.  The slot is no older than the last frame let through,
\* and an interval past the one before it; a frame held is the newest captured, and
\* waits for the slot at least; and what the converter keeps is the newest too,
\* where the backend can wait.
Governor == [slot : Nat, started : BOOLEAN, gap : Nat, arrival : Nat, deadline : Nat,
             grid : BOOLEAN]

LoopInv ==
    /\ holds \in BOOLEAN /\ now \in Nat \ {0} /\ governor \in Governor
    /\ {held, last, captured, encoded, lostTo} \subseteq Nat
    /\ lostTo <= captured /\ governor.arrival <= now
    /\ ~governor.started => ~governor.grid /\ times = <<>>
    /\ times \in Seq(Nat) /\ Len(times) <= 2
    /\ times # <<>> => times[Len(times)] <= governor.slot
    /\ Len(times) = 2 => times[1] + Interval <= governor.slot
    /\ held # None => /\ holds /\ held = captured /\ lostTo < captured
                      /\ governor.started /\ governor.slot <= governor.deadline
                      /\ governor.deadline # NoDeadline
    /\ last # None => lostTo < last
    /\ holds => captured \in {last, lostTo} /\ captured \in {encoded, held, lostTo}
=============================================================================
