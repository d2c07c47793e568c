--------------------------------- MODULE Pacer ---------------------------------
(***************************************************************************)
(* The pace of the send thread (Pacer and video_pace_bps of net/send.rs,   *)
(* flush and the head of send_loop in server/pipeline.rs): the target the  *)
(* rate controller stores, read once a round, and each batch held back     *)
(* until the link is free of the last.                                     *)
(*                                                                         *)
(* Time and bytes are small units; a rate is bytes of a batch per tick.    *)
(***************************************************************************)
EXTENDS Integers, Sequences

CONSTANTS
    Targets, \* what the controller may ask for, kbit/s: the cases to try
    Starts,  \* the session's initial target
    Batches, \* bytes in a batch: the cases to try
    Burst,   \* burst_ns
    Second,  \* ticks a byte takes at one unit of rate
    MaxIdle, \* bound: ticks between two batches
    MaxSends \* bound: batches sent

PaceBounds ==
    /\ Starts \cup Targets \cup Batches \subseteq Nat \ {0}
    /\ {Burst, Second, MaxIdle, MaxSends} \subseteq Nat

VARIABLES
    now,
    initial,   \* initial_kbps
    asked,     \* StreamShared.target_kbps
    paced,     \* paced_kbps, and the pacer's rate of it
    available, \* available_ns
    sent,      \* every batch: when it left, and what those before it cost the link
    spent      \* what they all cost

vars == <<now, initial, asked, paced, available, sent, spent>>

MostOf(a, b) == IF a < b THEN b ELSE a

\* video_pace_bps: twice the higher of the two.
Pace(target) == 2 * MostOf(initial, target)

Init ==
    /\ now = 0 /\ available = 0 /\ sent = <<>> /\ spent = 0
    /\ initial \in Starts /\ asked = initial /\ paced = initial

\* on_feedback, on the endpoint's thread.
Retarget ==
    /\ \E kbps \in Targets \ {asked} : asked' = kbps
    /\ UNCHANGED <<now, initial, paced, available, sent, spent>>

\* The top of the loop.
Follow ==
    /\ asked # paced
    /\ paced' = asked
    /\ UNCHANGED <<now, initial, asked, available, sent, spent>>

Cost(bytes) == (bytes * Second) \div Pace(paced)

\* record: time the link stood idle counts for no more than the burst.
FreeAgain(at, bytes) == MostOf(available, IF at > Burst THEN at - Burst ELSE 0) + Cost(bytes)
FreeFromTheLast(at, bytes) == available + Cost(bytes)
Recorded(at, bytes) == FreeAgain(at, bytes)

\* flush, whenever the encoder has something: sleep until the link is free, send,
\* record.
Flush ==
    /\ Len(sent) < MaxSends
    /\ \E idle \in 0 .. MaxIdle : now' = MostOf(now + idle, available)
    /\ \E bytes \in Batches :
        /\ sent' = Append(sent, [at |-> now', before |-> spent])
        /\ spent' = spent + Cost(bytes)
        /\ available' = Recorded(now', bytes)
    /\ UNCHANGED <<initial, asked, paced>>

Next == Retarget \/ Follow \/ Flush

Spec == Init /\ [][Next]_vars

-----------------------------------------------------------------------------

\* However long the stream paused and whichever way the target moved, between
\* any two batches the link had the time to carry what left in between, but for
\* one burst (send.rs: "a burst cannot overrun a switch's buffer").
CostBetween(i, j) == sent[j].before - sent[i].before
PaceIsKept ==
    \A i, j \in DOMAIN sent : i < j => CostBetween(i, j) <= (sent[j].at - sent[i].at) + Burst

\* The inductive invariant.  What left from any batch on, the last one's cost too,
\* is paid for by the time the link is free again, but for the burst.
PaidFor(s, total, free) ==
    \A i \in DOMAIN s : s[i].at + (total - s[i].before) <= free + Burst
PaceInv ==
    /\ {now, available, spent} \subseteq Nat /\ {initial, asked, paced} \subseteq Nat \ {0}
    /\ sent \in Seq([at : Nat, before : Nat])
    /\ PaidFor(sent, spent, available)
    /\ PaceIsKept
=============================================================================
