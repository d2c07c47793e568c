-------------------------- MODULE ReliableChannel ---------------------------
(***************************************************************************)
(* Two ends of the reliable control channel over UDP: any datagram may be  *)
(* lost, duplicated, delayed or overtaken.  Each end runs the operators of *)
(* ReliableOps.  Neither end restarts here (ControlEndpoint models the     *)
(* restarts), so each keeps one epoch throughout.                          *)
(*                                                                         *)
(* The n-th message an end submits is the number n, counting from 0: which *)
(* message a payload is, is all the properties need to know of it.         *)
(***************************************************************************)
EXTENDS ReliableOps

CONSTANTS MaxFromClient,  \* bound: messages submitted by the client
          MaxFromServer,  \* bound: messages submitted by the server
          MaxLag          \* bound on how stale a datagram can arrive, in messages

Peer == {"client", "server"}

Other(p) == IF p = "client" THEN "server" ELSE "client"

Epoch(p) == IF p = "client" THEN 1 ELSE 2

MaxSent == [p \in Peer |-> IF p = "client" THEN MaxFromClient ELSE MaxFromServer]

\* UDP delays a datagram by seconds; half the 16-bit space is hours of control
\* traffic.  A datagram is gone before that much has been sent past it.
ASSUME BoundAssumption == /\ MaxSent \in [Peer -> Nat]
                          /\ MaxLag \in Nat
                          /\ Window <= MaxLag
                          /\ MaxLag < Half

VARIABLES
    chan,        \* chan[p]: the channel record of p
    gone,        \* gone[p]: p's tick answered PeerGone and p dropped its channel
    net,         \* datagrams on the wire
    sent,        \* history: how many messages p has submitted
    delivered    \* history: the messages on_frame handed to p, in order

vars == <<chan, gone, net, sent, delivered>>

-----------------------------------------------------------------------------
(* The network.  A datagram stays on the wire after it is delivered, so it *)
(* may arrive again; nothing obliges it to arrive, so it may be lost.      *)

\* got is a history field: how many messages the sender had received.
Datagram(p, f) == [from |-> p, frame |-> f, got |-> Len(delivered[p])]

\* How far the streams have moved on past what a datagram carries and acks.
Alive(d, count) ==
    /\ d.frame.hasPayload => count[d.from] - d.frame.payload <= MaxLag
    /\ count[Other(d.from)] - d.got <= MaxLag

OnWire(datagrams, count) == {d \in datagrams : Alive(d, count)}

-----------------------------------------------------------------------------

Init ==
    /\ chan = [p \in Peer |-> NewChannel(Epoch(p))]
    /\ gone = [p \in Peer |-> FALSE]
    /\ net = {}
    /\ sent = [p \in Peer |-> 0]
    /\ delivered = [p \in Peer |-> << >>]

\* Reliable::send and the owner's transmit.
Send(p) ==
    /\ ~gone[p]
    /\ sent[p] < MaxSent[p]
    /\ CanSend(chan[p])
    /\ chan' = [chan EXCEPT ![p] = AfterSend(chan[p], sent[p])]
    /\ sent' = [sent EXCEPT ![p] = @ + 1]
    /\ net' = OnWire(net \cup {Datagram(p, SendFrame(chan[p], sent[p]))}, sent')
    /\ UNCHANGED <<gone, delivered>>

\* Reliable::on_frame on a datagram off the wire.
Receive(p, d) ==
    /\ ~gone[p]
    /\ d.from = Other(p)
    /\ chan' = [chan EXCEPT ![p] = AfterFrame(chan[p], d.frame)]
    /\ delivered' = [delivered EXCEPT ![p] = @ \o Delivers(chan[p], d.frame)]
    /\ UNCHANGED <<gone, net, sent>>

\* Reliable::tick, with due the messages that have waited RETRANSMIT_MS.
Tick(p, due) ==
    /\ ~gone[p]
    /\ ~GivesUp(chan[p], due)
    /\ chan' = [chan EXCEPT ![p] = AfterTick(chan[p], due)]
    /\ net' = net \cup {Datagram(p, f) : f \in TickFrames(chan[p], due)}
    /\ UNCHANGED <<gone, sent, delivered>>

\* Reliable::tick answering Err(PeerGone): nothing it rebuilt is transmitted.
GiveUp(p, due) ==
    /\ ~gone[p]
    /\ GivesUp(chan[p], due)
    /\ gone' = [gone EXCEPT ![p] = TRUE]
    /\ UNCHANGED <<chan, net, sent, delivered>>

\* One pass of p's loop over its timer; every unacknowledged message that is
\* old enough is due, and the passes come faster than RETRANSMIT_MS.
Timer(p) == \E due \in SUBSET DOMAIN chan[p].unacked : Tick(p, due) \/ GiveUp(p, due)

\* All of what is outstanding is old enough: the pass a waiting sender comes to.
TimerAllDue(p) == LET due == DOMAIN chan[p].unacked IN
                  due # {} /\ (Tick(p, due) \/ GiveUp(p, due))

Next ==
    \E p \in Peer :
        \/ Send(p)
        \/ \E d \in net : Receive(p, d)
        \/ Timer(p)

Spec == Init /\ [][Next]_vars

\* Both loops tick every few milliseconds for as long as they hold a channel
\* (endpoint.rs, poll_once and tick; client.rs, the receive loop), so what is
\* outstanding comes due again and again.  Nothing is assumed of the network.
FairSpec == Spec /\ \A p \in Peer : WF_vars(TimerAllDue(p))

-----------------------------------------------------------------------------
(* Properties *)

Outstanding(p) == DOMAIN chan[p].unacked

\* p has released this many messages: what it has sent less what it keeps.
Released(p) == sent[p] - Cardinality(Outstanding(p))

TypeOK ==
    /\ DOMAIN chan = Peer
    /\ \A p \in Peer : /\ IsChannel(chan[p], Nat)
                       /\ chan[p].epoch = Epoch(p)
                       /\ chan[p].peerEpoch \in {None, Epoch(Other(p))}
    /\ gone \in [Peer -> BOOLEAN]
    /\ net \subseteq [from : Peer, frame : Frame(Nat), got : Nat]
    /\ sent \in [Peer -> Nat]
    /\ \A p \in Peer : sent[p] <= MaxSent[p]
    /\ delivered \in [Peer -> Seq(Nat)]

\* "Delivery is in order, deliberately": whatever the network does, what an end
\* has been given is the first messages the other submitted, in order, each
\* once.  The wrap of the sequence numbers is no exception.
InOrderOnce ==
    \A p \in Peer :
        /\ Len(delivered[p]) <= sent[Other(p)]
        /\ \A i \in 1 .. Len(delivered[p]) : delivered[p][i] = i - 1

\* A message leaves the sender's map only once the other end has been given it:
\* no ack, however late, duplicated or wrapped, retires one still undelivered.
RetiredWasDelivered ==
    \A p \in Peer : \A n \in 0 .. sent[p] - 1 :
        n >= Len(delivered[Other(p)]) =>
            \E s \in Outstanding(p) : chan[p].unacked[s].payload = n

\* The holding area never has room for more than the window ahead of the next
\* message wanted, and only holds messages the sender is still keeping.
EarlyIsAhead ==
    \A p \in Peer : \A s \in DOMAIN chan[p].early :
        /\ chan[p].early[s] > Len(delivered[p])
        /\ chan[p].early[s] < Len(delivered[p]) + Window
        /\ \E t \in Outstanding(Other(p)) :
              chan[Other(p)].unacked[t].payload = chan[p].early[s]

\* The inductive invariant, for the stream one end (with channel c) submits and
\* the other (with channel e) is given, in messages counted from 0.  Of the last
\* ones submitted, c keeps exactly those from first on, under their numbers
\* modulo SeqMod; e acks the last one given and holds only some beyond the gap.
InStep(c, e, first, given, last) ==
    /\ first \in 0 .. Len(given)
    /\ Len(given) <= last
    /\ last - first <= Window
    /\ c.nextSeq = last % SeqMod
    /\ DOMAIN c.unacked = Slots(first, last)
    /\ \A n \in first .. last - 1 : c.unacked[n % SeqMod].payload = n
    /\ e.ack = IF Len(given) = 0 THEN None ELSE (Len(given) - 1) % SeqMod
    /\ \A s \in DOMAIN e.early : /\ e.early[s] \in Len(given) + 1 .. last - 1
                                 /\ s = e.early[s] % SeqMod
    /\ \A i \in 1 .. Len(given) : given[i] = i - 1

StreamOK(p, q) == InStep(chan[p], chan[q], Released(p), delivered[q], sent[p])

\* What a datagram on the wire says was true when it was sent, and is still
\* within half the space of where the two streams are now.
DatagramOK(d) ==
    /\ d.frame.epoch = Epoch(d.from)
    /\ Alive(d, sent)
    /\ d.got <= Len(delivered[d.from])
    /\ d.frame.ack = (d.got - 1) % SeqMod
    /\ d.frame.hasPayload => /\ d.frame.payload \in 0 .. sent[d.from] - 1
                             /\ d.frame.seq = d.frame.payload % SeqMod

IndInv ==
    /\ TypeOK
    /\ \A p \in Peer : StreamOK(p, Other(p))
    /\ \A d \in net : DatagramOK(d)

\* A number is never handed out while an older message still holds it, so the
\* insert into unacked overwrites nothing.
SendOverwritesNothing ==
    [][\A p \in Peer : sent'[p] > sent[p] => chan[p].nextSeq \notin Outstanding(p)]_vars

\* The detailed channel implements ordered delivery.
Promise == INSTANCE OrderedDelivery
              WITH received <- [p \in Peer |-> Len(delivered[Other(p)])],
                   released <- [p \in Peer |-> Released(p)]

ImplementsOrderedDelivery == Promise!Spec

\* Nothing stays in limbo: a submitted message is delivered, or its sender
\* learns that the peer is gone.
DeliveredOrGone ==
    \A p \in Peer : \A n \in 0 .. MaxSent[p] - 1 :
        (sent[p] > n) ~> (Len(delivered[Other(p)]) > n \/ gone[p])

=============================================================================
