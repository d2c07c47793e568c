-------------------------- MODULE OrderedDelivery ---------------------------
(***************************************************************************)
(* What the reliable control channel promises, with no frames, sequence    *)
(* numbers or acks in sight: each end submits messages, the other end      *)
(* receives them in order, none twice and none skipped, a message is       *)
(* released by its sender only once it has been received, and at most      *)
(* Window of them are unreleased.  An end may give up at any time; giving  *)
(* up takes nothing back.                                                  *)
(***************************************************************************)
EXTENDS Integers

CONSTANTS Peer,       \* the two ends
          Window      \* submitted and not yet released, at most

VARIABLES sent,       \* sent[p]: messages p has submitted
          received,   \* received[p]: messages of p the other end has been given
          released,   \* released[p]: messages of p that p no longer keeps
          gone        \* gone[p]: p has given the other end up

vars == <<sent, received, released, gone>>

Init ==
    /\ sent = [p \in Peer |-> 0]
    /\ received = [p \in Peer |-> 0]
    /\ released = [p \in Peer |-> 0]
    /\ gone = [p \in Peer |-> FALSE]

Submit(p) ==
    /\ ~gone[p]
    /\ sent[p] - released[p] < Window
    /\ sent' = [sent EXCEPT ![p] = @ + 1]
    /\ UNCHANGED <<received, released, gone>>

\* What one arrival at the other end of p's stream does: it may hand over the
\* next messages of p, and release messages of its own that p has received.
Arrive(p, q) ==
    /\ ~gone[q]
    /\ \E n \in received[p] .. sent[p] : received' = [received EXCEPT ![p] = n]
    /\ \E n \in released[q] .. received[q] : released' = [released EXCEPT ![q] = n]
    /\ UNCHANGED <<sent, gone>>

GiveUp(p) ==
    /\ ~gone[p]
    /\ released[p] < sent[p]
    /\ gone' = [gone EXCEPT ![p] = TRUE]
    /\ UNCHANGED <<sent, received, released>>

Next ==
    \/ \E p \in Peer : Submit(p) \/ GiveUp(p)
    \/ \E p, q \in Peer : p # q /\ Arrive(p, q)

Spec == Init /\ [][Next]_vars

=============================================================================
