------------------------------ MODULE HoleNacks ------------------------------
(***************************************************************************)
(* The NACKs of one frame: which holes a client asks for and when          *)
(* (net/video.rs missing, nack_targets, nack_due; android/client.rs), over *)
(* a network that loses and reorders packets, NACKs and retransmits, and a *)
(* server that answers each NACK from its cache.                           *)
(***************************************************************************)
EXTENDS Integers, FiniteSets, FiniteSetsExt

CONSTANTS
    Packets,    \* packets of the frame, the last one its terminator
    MaxTargets, \* room for one NACK's targets
    Reask,      \* NACK_REASK_MS
    MaxTime,    \* bound: the clock
    MaxLosses   \* bound: packets and NACKs lost

NackBounds ==
    /\ {Packets, MaxTargets, Reask} \subseteq Nat \ {0}
    /\ {MaxTime, MaxLosses} \subseteq Nat

VARIABLES
    slot,   \* the frame's slot in the reassembler
    newer,  \* whether a newer frame has begun to arrive
    now,    \* the clock
    video,  \* packets of the frame on their way, from the sender or its cache
    nacks,  \* NACKs on their way
    losses, \* losses so far
    last    \* history: the targets nack_due was last asked about, and its answer

vars == <<slot, newer, now, video, nacks, losses, last>>

Index == 0 .. Packets - 1
Terminator == Packets - 1
Never == -1

Empty == [got |-> {}, nackedAt |-> Never, nackedHoles |-> 0]
NoCall == [targets |-> {}, sent |-> FALSE]

Init ==
    /\ slot = Empty
    /\ newer = FALSE
    /\ now = 0
    /\ video = Index
    /\ nacks = {}
    /\ losses = 0
    /\ last = NoCall

HighWater(s) == IF s.got = {} THEN 0 ELSE Max(s.got) + 1
CountKnown(s) == Terminator \in s.got

\* The lowest ones, when there are more than the NACK has room for.
Fit(holes, room) == {i \in holes : Cardinality({j \in holes : j < i}) < room}

\* Before the terminator, the holes below what was seen.
missing(s) ==
    LET upper == IF CountKnown(s) THEN Packets ELSE HighWater(s)
    IN  Fit((0 .. upper - 1) \ s.got, MaxTargets)

\* The terminator may be what was lost: the index after the last one seen too.
nack_targets(s) ==
    Fit(missing(s) \cup (IF newer /\ ~CountKnown(s) THEN {HighWater(s)} ELSE {}),
        MaxTargets)

\* Mutant: every packet of a frame with a hole asks again.
DueEveryTime(s, holes) == holes > 0

\* nack_due: the first holes, more of them, or the same ones long enough after.
Due(s, holes) ==
    /\ holes > 0
    /\ \/ s.nackedAt = Never
       \/ holes > s.nackedHoles
       \/ now - s.nackedAt >= Reask

\* Mutant: a retransmit that fills a hole leaves the bar where it was.
BarKept(s, holes) == s.nackedHoles

\* What a fill leaves of the bar that new holes must pass.
Bar(s, holes) == IF s.nackedHoles < holes THEN s.nackedHoles ELSE holes

AfterDue(s, holes) ==
    IF holes = 0 THEN s
    ELSE IF Due(s, holes) THEN [s EXCEPT !.nackedAt = now, !.nackedHoles = holes]
    ELSE [s EXCEPT !.nackedHoles = Bar(s, holes)]

\* A packet arrives: the frame is complete, or its holes are looked at, once
\* the terminator or a newer frame says that there can be any.
Receive ==
    \E i \in video :
      LET s == [slot EXCEPT !.got = @ \cup {i}]
          targets == nack_targets(s)
          holes == Cardinality(targets)
          looks == s.got # Index /\ (newer \/ CountKnown(s))
      IN /\ slot.got # Index
         /\ video' = video \ {i}
         /\ IF ~looks THEN slot' = s /\ UNCHANGED <<nacks, last>>
            ELSE /\ slot' = AfterDue(s, holes)
                 /\ nacks' = IF Due(s, holes) THEN nacks \cup {targets} ELSE nacks
                 /\ last' = [targets |-> targets, sent |-> Due(s, holes)]
         /\ UNCHANGED <<newer, now, losses>>

\* The first packet of a newer frame overtakes what is left of this one.
NewerFrame ==
    /\ ~newer /\ newer' = TRUE
    /\ UNCHANGED <<slot, now, video, nacks, losses, last>>

\* The server's cache answers all a NACK names that there is.
Answer ==
    \E n \in nacks :
      /\ nacks' = nacks \ {n}
      /\ video' = video \cup (n \cap Index)
      /\ UNCHANGED <<slot, newer, now, losses, last>>

Lose ==
    /\ losses < MaxLosses /\ losses' = losses + 1
    /\ \/ \E i \in video : video' = video \ {i} /\ UNCHANGED nacks
       \/ \E n \in nacks : nacks' = nacks \ {n} /\ UNCHANGED video
    /\ UNCHANGED <<slot, newer, now, last>>

Tick ==
    /\ now < MaxTime /\ now' = now + 1
    /\ UNCHANGED <<slot, newer, video, nacks, losses, last>>

Next == Receive \/ NewerFrame \/ Answer \/ Lose \/ Tick

Spec == Init /\ [][Next]_vars

(***************************************************************************)
(* A packet that opens a gap below itself has the gap asked for at once,   *)
(* whatever the retransmits before it have filled (video.rs, nack_due,     *)
(* "retransmits filling holes lower the bar").  Left out is the hole that  *)
(* takes the place of the packet just filled: the index after the last one *)
(* seen.                                                                   *)
(***************************************************************************)
AsksAtOnce == Cardinality(last'.targets) > Cardinality(last.targets) => last'.sent

(***************************************************************************)
(* The same holes are not asked for twice within NACK_REASK_MS: a NACK that*)
(* soon after another one names a hole the earlier ones did not (video.rs, *)
(* nack_due: asking again with every packet multiplies what is lost).      *)
(***************************************************************************)
AsksForMore ==
    (last' # last /\ last'.sent /\ slot.nackedAt # Never /\ now - slot.nackedAt < Reask)
      => ~ (last'.targets \subseteq last.targets)

(***************************************************************************)
(* Stated by video.rs:272-276 ("so a lost retransmit is asked for again    *)
(* before the jitter buffer gives up on the frame"): a frame whose holes   *)
(* were asked for that long ago, with nothing on its way, is asked about   *)
(* again.                                                                  *)
(***************************************************************************)
LostRetransmitIsAskedAgain ==
    (slot.nackedAt # Never /\ slot.got # Index /\ now - slot.nackedAt > Reask)
      => video # {} \/ nacks # {}

(***************************************************************************)
(* The inductive invariant: the bar that new holes must pass is what the   *)
(* slot was last looked at for, once it has been asked for at all.         *)
(***************************************************************************)
Slot == [got : SUBSET Index, nackedAt : Nat \cup {Never}, nackedHoles : Nat]

NackInv ==
    /\ slot \in Slot /\ now \in Nat /\ video \subseteq Index
    /\ last.targets \subseteq 0 .. Packets
    /\ slot.nackedAt # Never => slot.nackedHoles = Cardinality(last.targets)
=============================================================================
