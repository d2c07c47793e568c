------------------------------ MODULE PadOutput ------------------------------
(***************************************************************************)
(* A game's rumble on its way back to the pad: the driver's ring of output *)
(* reports, the injector's drain and repeat of the newest effect           *)
(* (input/inject.rs, input/pad/shmem.rs, outpolicy.rs), the unreliable     *)
(* datagrams, and the client's latest-wins router (android/pad.rs).  One   *)
(* pad, plugged in throughout.                                             *)
(*                                                                         *)
(* A report is its number; kind says what it commands.  The driver is not  *)
(* part of the sources: it puts report n at position (n-1) mod the ring's  *)
(* size (tools/probe-windows/src/hidmaestro.rs:299-307).                   *)
(***************************************************************************)
EXTENDS Naturals, FiniteSets, FiniteSetsExt

CONSTANTS
    RingSlots,  \* OUT_RING_SLOTS
    SeqMod,     \* values of the wire's sequence, 256
    MaxReports  \* bound: reports the driver writes

PadBounds ==
    /\ {RingSlots, MaxReports} \subseteq Nat \ {0}
    /\ SeqMod \in Nat /\ SeqMod % 2 = 0 /\ SeqMod > 2

VARIABLES
    written, \* reports the driver has written
    kind,    \* what each report commands
    ring,    \* the report at each position of the ring, 0 for none
    seen,    \* out_seen: the highest report drained
    policy,  \* RepeatPolicy: the sequence, and whether the effect is active
    effect,  \* last_effect: the report it was made of, 0 before the first
    wire,    \* datagrams on their way
    router,  \* the client's out_seq, and the report its motors follow
    motors   \* whether the pad in the hand is rumbling

vars == <<written, kind, ring, seen, policy, effect, wire, router, motors>>

Report == 1 .. MaxReports
Position == 0 .. RingSlots - 1
Kind == {"on", "off", "undecodable"}

Init ==
    /\ written = 0 /\ kind = [r \in Report |-> "off"]
    /\ ring = [p \in Position |-> 0]
    /\ seen = 0
    /\ policy = [seq |-> 0, active |-> FALSE]
    /\ effect = 0
    /\ wire = {}
    /\ router = [heard |-> FALSE, seq |-> 0, report |-> 0]
    /\ motors = FALSE

\* The driver: a report the game sent, over the oldest one when the ring is full.
Write ==
    /\ written < MaxReports
    /\ written' = written + 1
    /\ \E k \in Kind : kind' = [kind EXCEPT ![written'] = k]
    /\ ring' = [ring EXCEPT ![written % RingSlots] = written']
    /\ UNCHANGED <<seen, policy, effect, wire, router, motors>>

\* drain_output: the positions that hold a report not seen, in their order; and
\* drain_pads takes the last of them, which once the ring has gone round need not
\* be the newest.
New == {p \in Position : ring[p] > seen}
LastDrained == ring[Max(New)]

\* The datagram of the effect as the policy stamps it.
Stamp(seq, report) == [seq |-> seq, report |-> report]

\* The network delivers in any order, but nothing older than half the
\* sequence space: at one effect every 8 ms, half of 256 is a second old.
NotTooOld(packets, seq) == {d \in packets : (seq + SeqMod - d.seq) % SeqMod < SeqMod \div 2}

\* drain_pads with something new: all of it counts as seen, and one report goes on.
DrainNew ==
    /\ New # {}
    /\ seen' = Max({ring[p] : p \in New})
    /\ IF kind[LastDrained] = "undecodable"
         THEN UNCHANGED <<policy, effect, wire>>
         ELSE LET seq == (policy.seq + 1) % SeqMod IN
              /\ policy' = [seq |-> seq, active |-> kind[LastDrained] = "on"]
              /\ effect' = LastDrained
              /\ wire' = NotTooOld(wire \cup {Stamp(seq, LastDrained)}, seq)
    /\ UNCHANGED <<written, kind, ring, router, motors>>

\* repeat_due: an active effect goes out again under the sequence it had.
RepeatEffect ==
    /\ policy.active
    /\ wire' = wire \cup {Stamp(policy.seq, effect)}
    /\ UNCHANGED <<written, kind, ring, seen, policy, effect, router, motors>>

Lose ==
    /\ \E d \in wire : wire' = wire \ {d}
    /\ UNCHANGED <<written, kind, ring, seen, policy, effect, router, motors>>

\* on_pad_output's modular comparison with the sequence applied last.
NotARepeat(seq) == ~router.heard \/ seq # router.seq
Forward(seq) ==
    \/ ~router.heard
    \/ (seq + SeqMod - router.seq) % SeqMod \in 1 .. SeqMod \div 2 - 1

Receive ==
    /\ \E d \in wire :
        /\ wire' = wire \ {d}
        /\ IF Forward(d.seq)
             THEN /\ router' = [heard |-> TRUE, seq |-> d.seq, report |-> d.report]
                  /\ motors' = (kind[d.report] = "on")
             ELSE UNCHANGED <<router, motors>>
    /\ UNCHANGED <<written, kind, ring, seen, policy, effect>>

\* PadOutputRouter::tick stops the motors the RumbleTracker has not heard of;
\* on_pad_output does not tell the tracker, so it never has anything to stop.

Next == Write \/ DrainNew \/ RepeatEffect \/ Lose \/ Receive

Spec == Init /\ [][Next]_vars

-----------------------------------------------------------------------------

\* The pad never goes back to an effect of an earlier report than the one it
\* follows, over any order of delivery, any loss, any repeat and the wrap of the
\* sequence (pad.rs on_pad_output, outpolicy.rs).
GoesForward == router'.report >= router.report
EffectsGoForward == [][GoesForward]_vars

\* pad.rs: "a lost final zero-level packet cannot leave a controller buzzing":
\* with everything drained and delivered or lost, the motors run only if the
\* last effect sent runs them.
MotorsDoNotRunOn ==
    New = {} /\ wire = {} /\ ~policy.active => ~motors

\* "Latest-wins: only the newest report matters" (inject.rs:407): of the reports
\* seen it is the newest that was made into an effect, if it is one.  But the last
\* by position is not the newest when a drain spans the end of the ring: then an
\* older report goes on, is repeated, and the newest, an "off" it may be, is never
\* looked at again.
LatestWins == seen > 0 /\ kind[seen] # "undecodable" => effect = seen

-----------------------------------------------------------------------------

\* The inductive invariant.  How far a sequence number is behind the policy's tells
\* how far the effect it was given to is behind the newest: among the datagrams
\* on their way, none of which is half the space behind, and between each of them
\* and the one the router applied, however far that one is behind by now.
Sequence == 0 .. SeqMod - 1
Age(seq) == (policy.seq + SeqMod - seq) % SeqMod

IsBehind(age, report) == age \in 0 .. effect /\ (age = 0 <=> report = effect)

WireAgesWithReports ==
    \A d \in wire :
        /\ Age(d.seq) < SeqMod \div 2 /\ IsBehind(Age(d.seq), d.report)
        /\ \A e \in wire : Age(d.seq) < Age(e.seq) <=> d.report > e.report

RouterAgesWithReports ==
    \E n \in 0 .. effect :
        /\ Age(router.seq) = n % SeqMod /\ IsBehind(n, router.report)
        /\ \A d \in wire : /\ Age(d.seq) < n <=> d.report > router.report
                           /\ Age(d.seq) > n <=> d.report < router.report

EffectInv ==
    /\ written \in Nat /\ ring \in [Position -> 0 .. written]
    /\ seen \in Nat /\ effect \in 0 .. seen
    /\ policy \in [seq : Sequence, active : BOOLEAN]
    /\ wire \subseteq [seq : Sequence, report : 0 .. effect]
    /\ router \in [heard : BOOLEAN, seq : Sequence, report : 0 .. effect]
    /\ ~router.heard => router.report = 0
    /\ WireAgesWithReports
    /\ router.heard => RouterAgesWithReports
=============================================================================
