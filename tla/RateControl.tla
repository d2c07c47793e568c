------------------------------ MODULE RateControl ------------------------------
(***************************************************************************)
(* A session's bitrate (net/rate.rs): the range session_bitrate allows it, *)
(* and the controller that moves the target in it on the client's feedback *)
(* reports (android/client.rs sends them, endpoint.rs hands each on as it  *)
(* comes).  A report is a datagram: it may be lost, late, or come twice.   *)
(*                                                                         *)
(* Rates are kbit/s, gradients thousandths of overload, time the interval  *)
(* between two reports.  The f64 products are truncated as the casts do.   *)
(***************************************************************************)
EXTENDS Integers, FiniteSets

CONSTANTS
    Asks,            \* BitrateAsk: the sessions to try
    Floor,           \* SESSION_FLOOR_KBPS
    Gradients,       \* gradients a report may carry: the cases to try
    Steep, Flat,     \* GRADIENT_DOWN_US_PER_S, GRADIENT_FLAT_US_PER_S
    Hold,            \* HOLD_AFTER_DECREASE_MS
    Interval,        \* INCREASE_INTERVAL_MS
    ProbeInterval,   \* PROBE_INTERVAL_MS
    LossWindow,      \* LOSS_WINDOW_MS
    Wrap,            \* values of the u32 counters
    Frames,          \* frames received and lost between two reports: the cases to try
    Late,            \* reports may come late, or twice
    MaxTime          \* bound: reports sent

RateBounds ==
    /\ Asks \subseteq [ceiling : Nat, target : Nat, min : Nat, max : Nat, hint : Nat, client : Nat]
    /\ {Floor, Hold, Interval, ProbeInterval, LossWindow, Wrap} \subseteq Nat \ {0}
    /\ Gradients \subseteq Int /\ {Flat, Steep} \subseteq Nat /\ Flat <= Steep
    /\ Frames \subseteq Nat \X Nat
    /\ Late \in BOOLEAN /\ MaxTime \in Nat

Never == -1
NoCeiling == -1

VARIABLES
    now,     \* reports sent, the time on both sides
    counted, \* the client's frames_received and frames_dropped
    reports, \* reports on the way, and those that may still come again
    ask,     \* what the session was asked for
    target,  \* target_kbps
    ceiling, \* ceiling_kbps
    last,    \* last_decrease_ms, last_increase_ms, last_probe_ms, last_loss_ms
    seen,    \* last_received, last_dropped: <<>> before the first report
    window,  \* the loss window
    limit,   \* the margin under the last ceiling learned
    crossed, \* the probe by which the target last climbed past it
    hasty,   \* it did so by no probe, or by one too soon after the one before
    unearned \* a cut for loss, without the loss

control == <<target, ceiling, last, seen, window, limit, crossed, hasty, unearned>>
vars == <<now, counted, reports, ask, control>>

LeastOf(a, b) == IF a < b THEN a ELSE b
MostOf(a, b) == IF a < b THEN b ELSE a
Clamped(x, lo, hi) == MostOf(lo, LeastOf(x, hi))

-----------------------------------------------------------------------------
(* session_bitrate.                                                        *)

Cap(a) ==
    LET cap == LeastOf(a.ceiling, a.hint)
    IN  IF a.client > 0 THEN LeastOf(cap, a.client) ELSE cap
Initial(a) == MostOf(LeastOf(a.target, Cap(a)), Floor)

MostAsConfigured(a) == IF a.max > 0 THEN MostOf(a.max, Initial(a)) ELSE Initial(a)
Most(a) == IF a.max > 0 THEN MostOf(LeastOf(a.max, Cap(a)), Initial(a)) ELSE Initial(a)
Least(a) == Clamped(a.min, 1, Initial(a))

Init ==
    /\ now = 0 /\ counted = [received |-> 0, dropped |-> 0] /\ reports = {}
    /\ ask \in Asks
    /\ target = Clamped(Initial(ask), LeastOf(Least(ask), Most(ask)), Most(ask))
    /\ ceiling = NoCeiling
    /\ last = [decrease |-> Never, increase |-> Never, probe |-> Never, loss |-> Never]
    /\ seen = <<>>
    /\ window = [start |-> Never, received |-> 0, dropped |-> 0]
    /\ limit = NoCeiling /\ crossed = Never /\ hasty = FALSE /\ unearned = FALSE

-----------------------------------------------------------------------------
(* The client: a report every interval, its counters cumulative.           *)

Report ==
    /\ now < MaxTime /\ (Late \/ reports = {})
    /\ now' = now + 1
    /\ \E f \in Frames, g \in Gradients :
        /\ counted' = [received |-> counted.received + f[1], dropped |-> counted.dropped + f[2]]
        /\ reports' = reports \cup {[received |-> counted'.received, dropped |-> counted'.dropped,
                                     gradient |-> g, sent |-> now']}
    /\ UNCHANGED <<ask, control>>

Lose ==
    /\ \E r \in reports : reports' = reports \ {r}
    /\ UNCHANGED <<now, counted, ask, control>>

-----------------------------------------------------------------------------
(* lossy_window.  The counters wrap, and the window's sums saturate.       *)

Since(new, old) == (new - old) % Wrap
Saturated(x) == LeastOf(x, Wrap - 1)

Summed(r) ==
    [start    |-> IF window.start = Never THEN now ELSE window.start,
     received |-> IF seen = <<>> THEN window.received
                  ELSE Saturated(window.received + Since(r.received, seen[1])),
     dropped  |-> IF seen = <<>> THEN window.dropped
                  ELSE Saturated(window.dropped + Since(r.dropped, seen[2]))]

Closes(w) == now - w.start >= LossWindow
IsLossy(w) == Closes(w) /\ w.dropped > 0 /\ 20 * w.dropped >= w.received + w.dropped
Emptied(w) == IF Closes(w) THEN [start |-> now, received |-> 0, dropped |-> 0] ELSE w

-----------------------------------------------------------------------------
(* set, and the two ways down.                                             *)

\* The step, kept inside the range; a step that changes nothing is not counted.
SetTo(kbps, which, l) ==
    LET next == Clamped(kbps, Least(ask), Most(ask)) IN
    /\ target' = next
    /\ last' = IF next = target THEN l ELSE [l EXCEPT ![which] = now]

\* What the queue's growth says the path carries, and nine tenths of it.
Estimate(g) == (target * 1000) \div (1000 + g)
UnderEstimate(g) == (target * 900) \div (1000 + g)

BackOff(g, l) ==
    /\ ceiling' = LeastOf(target, Estimate(g))
    /\ SetTo(UnderEstimate(g), "decrease", l)
CutForLoss(l) ==
    /\ ceiling' = target
    /\ SetTo((target * 85) \div 100, "decrease", l)

\* maybe_increase.
Before(t, span) == t # Never /\ now - t < span
MayClimb(l) ==
    /\ ~Before(l.decrease, Hold) /\ ~Before(l.loss, Hold)
    /\ ~Before(l.increase, Interval)

StepUp == (target * 105) \div 100
IsUnder == target * 105 <= ceiling * 95

ProbeIsAlwaysDue(l) == TRUE
ProbeIsDue(l) == ~Before(l.probe, ProbeInterval)

Climb(l) ==
    IF ~MayClimb(l) THEN ceiling' = ceiling /\ target' = target /\ last' = l
    ELSE IF ceiling = NoCeiling \/ IsUnder
      THEN ceiling' = ceiling /\ SetTo(StepUp, "increase", l)
    ELSE IF ProbeIsDue(l)
      THEN ceiling' = NoCeiling /\ SetTo(StepUp, "increase", [l EXCEPT !.probe = now])
    ELSE ceiling' = ceiling /\ target' = target /\ last' = l

\* on_feedback.  The first report starts the clock of the increases.
Feed(r) ==
    LET w == Summed(r)
        l0 == IF last.increase = Never THEN [last EXCEPT !.increase = now] ELSE last
        l == IF IsLossy(w) THEN [l0 EXCEPT !.loss = now] ELSE l0
    IN  /\ seen' = <<r.received, r.dropped>>
        /\ window' = Emptied(w)
        /\ CASE r.gradient > Steep                -> BackOff(r.gradient, l)
             [] r.gradient <= Steep /\ IsLossy(w) -> CutForLoss(l)
             [] r.gradient < Flat /\ ~IsLossy(w)  -> Climb(l)
             [] OTHER -> UNCHANGED <<target, ceiling>> /\ last' = l
        /\ unearned' = (unearned \/ (/\ r.gradient <= Steep /\ target' < target
                                     /\ 20 * counted.dropped < counted.received + counted.dropped))

\* A climb past the last limit, and the probe it is put down to, for the property.
Margin(c) == (c * 95) \div 100
Passed == limit # NoCeiling /\ target <= limit /\ target' > limit
Noted ==
    /\ limit' = IF ceiling' = NoCeiling THEN limit ELSE Margin(ceiling')
    /\ crossed' = IF Passed THEN last'.probe ELSE crossed
    /\ hasty' = (hasty \/ (Passed /\ (\/ last'.probe = Never
                                      \/ crossed # Never /\ last'.probe - crossed < ProbeInterval)))

Receive ==
    /\ \E r \in reports :
        /\ Feed(r)
        /\ reports' \in IF Late THEN {reports, reports \ {r}} ELSE {reports \ {r}}
    /\ Noted
    /\ UNCHANGED <<now, counted, ask>>

Next == Report \/ Lose \/ Receive

Spec == Init /\ [][Next]_vars

-----------------------------------------------------------------------------

\* Whatever was configured and whatever the reports say, the target keeps to the
\* decoder's hint, the codec's ceiling and what the client asked for, all but
\* for the floor, and inside the session's own range (rate.rs session_bitrate:
\* "that has to hold for where the controller may climb to").
TargetIsAllowed ==
    /\ target <= MostOf(Cap(ask), Floor)
    /\ target \in Least(ask) .. Most(ask)

\* Past the margin under the rate that last queued, the target climbs only by a
\* probe of its own, and these probes are an interval apart, however often it is
\* cut and climbs back (rate.rs: "that is what keeps the controller from
\* sawtoothing around the bottleneck").
ProbesAreSlow == ~hasty

\* What rate.rs:109 says of loss: "Loss-only decreases need at least this fraction
\* of a window's frames lost."  A report that comes late counts backwards.
LossCutsAreEarned == ~unearned

\* The inductive invariant of the two.  While a ceiling is known, the limit is the
\* margin under it; and once a probe has dropped the ceiling, the target climbs back
\* past the limit on the account of that probe, which is an interval later than the
\* one it last did so by.
Time == Nat \cup {Never}
Kbps == Nat \cup {NoCeiling}

RateInv ==
    /\ now \in Nat /\ ask \in Asks /\ \A r \in reports : r.gradient \in Int
    /\ ceiling \in Kbps /\ limit \in Kbps /\ crossed \in Time
    /\ last \in [decrease : Time, increase : Time, probe : Time, loss : Time]
    /\ target \in Least(ask) .. Most(ask)
    /\ ceiling # NoCeiling => limit = Margin(ceiling)
    /\ crossed # Never => last.probe # Never /\ crossed <= last.probe
    /\ (ceiling = NoCeiling /\ limit # NoCeiling /\ target <= limit) =>
          /\ last.probe # Never
          /\ crossed # Never => last.probe - crossed >= ProbeInterval
    /\ ~hasty
=============================================================================
