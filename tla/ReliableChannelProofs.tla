----------------------- MODULE ReliableChannelProofs ------------------------
(***************************************************************************)
(* Proofs about ReliableChannel, for every sequence space, window, number  *)
(* of attempts, and number of messages.  IndInv ties the wrapped numbers   *)
(* in the channels and on the wire to counts of messages; the lemmas of    *)
(* ReliableOps turn each comparison the code makes into one between        *)
(* counts.                                                                 *)
(***************************************************************************)
EXTENDS ReliableChannel

\* The two ends are distinct, each is the other of the other, and their epochs
\* are distinct natural numbers.
LEMMA Peers ==
    /\ \A p \in Peer : Other(p) \in Peer /\ Other(p) # p /\ Other(Other(p)) = p
    /\ \A p, q \in Peer : q = p \/ q = Other(p)
    /\ \A p \in Peer : Epoch(p) \in Nat /\ Epoch(p) # None
BY DEF Peer, Other, Epoch, None

\* "Nothing received" is told apart from every sequence number.
LEMMA NoneIsNoNumber == None \notin SeqNum
BY SeqModAssumption DEF None, SeqNum

\* Two fresh channels and an empty wire are in step.
LEMMA InitInv == Init => IndInv
<1>. SUFFICES ASSUME Init PROVE IndInv
  OBVIOUS
<1>. USE DEF Init
<1>1. TypeOK
  <2>1. \A p \in Peer : /\ IsChannel(chan[p], Nat)
                        /\ chan[p].epoch = Epoch(p)
                        /\ chan[p].peerEpoch = None
    BY Peers, NewChannelFields DEF NewChannel
  <2>2. \A p \in Peer : sent[p] <= MaxSent[p]
    BY BoundAssumption
  <2>3. delivered \in [Peer -> Seq(Nat)]
    OBVIOUS
  <2>. QED BY <2>1, <2>2, <2>3 DEF TypeOK
<1>2. ASSUME NEW p \in Peer PROVE StreamOK(p, Other(p))
  <2>1. Outstanding(p) = {} /\ Slots(0, 0) = {} /\ Released(p) = 0
    <3>1. Cardinality({}) = 0
      BY FS_EmptySet
    <3>. QED BY <3>1 DEF Outstanding, Released, Slots, NewChannel, NoEntries
  <2>2. chan[p].nextSeq = 0 /\ 0 % SeqMod = 0
    BY SeqModAssumption DEF NewChannel
  <2>3. chan[Other(p)].ack = None /\ chan[Other(p)].early = NoEntries
    BY Peers DEF NewChannel
  <2>4. DOMAIN chan[p].unacked = {} /\ DOMAIN chan[Other(p)].early = {}
    BY <2>1, <2>3 DEF Outstanding, NoEntries
  <2>5. InStep(chan[p], chan[Other(p)], 0, << >>, 0)
    <3>. HIDE DEF Init
    <3>. QED BY <2>1, <2>2, <2>3, <2>4, WindowAssumption DEF InStep
  <2>6. delivered[Other(p)] = << >> /\ sent[p] = 0
    BY Peers
  <2>. QED BY <2>1, <2>5, <2>6 DEF StreamOK
<1>. QED BY <1>1, <1>2 DEF IndInv

\* p's release count follows from the stretch of the stream it keeps.
LEMMA ReleasedIs ==
    ASSUME TypeOK, NEW p \in Peer, NEW a \in 0 .. sent[p], sent[p] - a <= SeqMod,
           Outstanding(p) = Slots(a, sent[p])
    PROVE  Released(p) = a
<1>1. sent[p] \in Nat
  BY DEF TypeOK
<1>2. Cardinality(Slots(a, sent[p])) = sent[p] - a
  BY <1>1, SlotsCount
<1>. QED BY <1>1, <1>2 DEF Released

\* The ack on the wire stands for the last message received, or for none.
LEMMA WireAckIs ==
    ASSUME IndInv, NEW p \in Peer
    PROVE  /\ WireAck(chan[p]) = (Len(delivered[p]) - 1) % SeqMod
           /\ WireAck(chan[p]) \in SeqNum
<1>1. StreamOK(Other(p), p)
  BY Peers DEF IndInv
<1>2. (0 - 1) % SeqMod = SeqMod - 1
  <2>1. PICK k \in Int : 0 - 1 = SeqMod * k + ((0 - 1) % SeqMod)
    BY Remainder
  <2>2. SeqMod * (0 - 1) + (SeqMod - 1) = SeqMod * k + ((0 - 1) % SeqMod)
    BY <2>1, SeqModAssumption
  <2>3. SeqMod - 1 \in SeqNum /\ (0 - 1) % SeqMod \in SeqNum
    BY Remainder, SeqModAssumption DEF SeqNum
  <2>. QED BY <2>2, <2>3, OneRemainder
<1>3. Len(delivered[p]) \in Nat
  BY DEF IndInv, TypeOK
<1>4. (Len(delivered[p]) - 1) % SeqMod \in SeqNum
  BY <1>3, Remainder
<1>5. (Len(delivered[p]) - 1) % SeqMod # None
  BY <1>4, NoneIsNoNumber
<1>. QED BY <1>1, <1>2, <1>3, <1>4, <1>5 DEF StreamOK, InStep, WireAck

\* Everything p keeps is within the window, and p keeps all its peer lacks.
LEMMA Counts ==
    ASSUME IndInv, NEW p \in Peer
    PROVE  /\ sent[p] \in Nat /\ Len(delivered[Other(p)]) \in Nat
           /\ Released(p) \in 0 .. Len(delivered[Other(p)])
           /\ Len(delivered[Other(p)]) <= sent[p]
           /\ sent[p] - Released(p) <= Window
           /\ Window \in Nat /\ MaxLag \in Nat /\ Window <= MaxLag
           /\ Half \in Nat /\ MaxLag < Half /\ Half + Half = SeqMod
<1>1. Other(p) \in Peer /\ StreamOK(p, Other(p))
  BY Peers DEF IndInv
<1>2. sent[p] \in Nat /\ delivered[Other(p)] \in Seq(Nat)
  BY <1>1 DEF IndInv, TypeOK
<1>. QED BY <1>1, <1>2, WindowAssumption, BoundAssumption, HalfOfSpace
         DEF StreamOK, InStep

-----------------------------------------------------------------------------
(* Submitting *)

\* Reliable::send keeps the streams in step: the number it hands out is free,
\* and every datagram still on the wire stays within half the space.
LEMMA SendStep ==
    ASSUME IndInv, NEW p \in Peer, Send(p)
    PROVE  IndInv'
<1>. DEFINE q == Other(p)
            n == sent[p]
            c == chan[p]
            a == Released(p)
            new == Datagram(p, SendFrame(c, n))
<1>1. /\ IsChannel(c, Nat) /\ n \in Nat /\ q \in Peer /\ q # p /\ Other(q) = p
      /\ \A r \in Peer : r = p \/ r = q
      /\ chan' = [chan EXCEPT ![p] = AfterSend(c, n)]
      /\ sent' = [sent EXCEPT ![p] = n + 1]
      /\ DOMAIN chan = Peer /\ sent \in [Peer -> Nat]
      /\ delivered' = delivered /\ gone' = gone
      /\ CanSend(c) /\ n < MaxSent[p]
  BY Peers DEF IndInv, TypeOK, Send
<1>2. /\ chan'[p] = AfterSend(c, n) /\ chan'[q] = chan[q]
      /\ sent'[p] = n + 1 /\ sent'[q] = sent[q]
  BY <1>1
<1>3. StreamOK(p, q) /\ StreamOK(q, p)
  BY <1>1 DEF IndInv
<1>4. a \in Nat /\ a <= n /\ n - a < Window /\ Len(delivered[q]) \in Nat
  <2>1. a \in Nat /\ a <= n /\ n - a <= SeqMod /\ Len(delivered[q]) \in Nat
    BY <1>1, Counts
  <2>2. Cardinality(Slots(a, n)) = n - a
    BY <1>1, <2>1, SlotsCount
  <2>. QED BY <1>1, <1>3, <2>1, <2>2 DEF StreamOK, InStep, Outstanding, CanSend
<1>. DEFINE d == AfterSend(c, n)
<1>5. /\ IsChannel(d, Nat)
      /\ d.nextSeq = NextSeq(c.nextSeq)
      /\ d.ack = c.ack /\ d.early = c.early
      /\ d.epoch = c.epoch /\ d.peerEpoch = c.peerEpoch
      /\ DOMAIN d.unacked = DOMAIN c.unacked \cup {c.nextSeq}
      /\ \A s \in DOMAIN c.unacked : s # c.nextSeq => d.unacked[s] = c.unacked[s]
      /\ d.unacked[c.nextSeq].payload = n
  BY <1>1, AfterSendFields
<1>6. c.nextSeq = n % SeqMod
  BY <1>3 DEF StreamOK, InStep
<1>. HIDE DEF d
<1>7. StreamOK(p, q)'
  <2>1. Outstanding(p)' = Slots(a, n + 1)
    <3>1. DOMAIN c.unacked = Slots(a, n)
      BY <1>3 DEF StreamOK, InStep, Outstanding
    <3>2. Slots(a, n + 1) = Slots(a, n) \cup {n % SeqMod}
      BY <1>1, <1>4 DEF Slots
    <3>. QED BY <1>2, <1>5, <1>6, <3>1, <3>2 DEF Outstanding, d
  <2>2. Cardinality(Slots(a, n + 1)) = n + 1 - a
    BY <1>1, <1>4, SlotsCount, Counts
  <2>3. Released(p)' = a
    BY <1>1, <1>2, <1>4, <2>1, <2>2 DEF Released
  <2>4. NextSeq(n % SeqMod) = (n + 1) % SeqMod
    BY <1>1, PlusOfCounts, SeqModAssumption DEF NextSeq
  <2>5. ASSUME NEW m \in a .. n
        PROVE  d.unacked[m % SeqMod].payload = m
    <3>1. CASE m = n
      BY <3>1, <1>5, <1>6
    <3>2. CASE m # n
      <4>1. m % SeqMod # n % SeqMod
        <5>1. m - n < SeqMod /\ n - m < SeqMod
          BY <1>1, <1>4, Counts
        <5>. QED BY <3>2, <5>1, <1>1, <1>4, SameNumber
      <4>2. m \in a .. n - 1 /\ m % SeqMod \in DOMAIN c.unacked
        BY <3>2, <1>1, <1>3, <1>4 DEF StreamOK, InStep, Outstanding, Slots
      <4>3. d.unacked[m % SeqMod] = c.unacked[m % SeqMod]
        BY <4>1, <4>2, <1>5, <1>6
      <4>. QED BY <4>2, <4>3, <1>3 DEF StreamOK, InStep
    <3>. QED BY <3>1, <3>2
  <2>6. Len(delivered[q]) <= n /\ a \in 0 .. Len(delivered[q])
    BY <1>1, Counts
  <2>7. chan'[p].nextSeq = (n + 1) % SeqMod
    BY <1>2, <1>5, <1>6, <2>4 DEF d
  <2>8. \A m \in a .. n + 1 - 1 : chan'[p].unacked[m % SeqMod].payload = m
    BY <1>1, <1>2, <1>4, <2>5 DEF d
  <2>9. \A s \in DOMAIN chan'[q].early :
             /\ chan'[q].early[s] \in Len(delivered[q]) + 1 .. n + 1 - 1
             /\ s = chan'[q].early[s] % SeqMod
    BY <1>1, <1>2, <1>3, <1>4 DEF StreamOK, InStep
  <2>10. /\ chan[q].ack = IF Len(delivered[q]) = 0 THEN None
                          ELSE (Len(delivered[q]) - 1) % SeqMod
         /\ \A i \in 1 .. Len(delivered[q]) : delivered[q][i] = i - 1
    BY <1>3 DEF StreamOK, InStep
  <2>11. Len(delivered[q]) <= n + 1 /\ n + 1 - a <= Window
    BY <1>1, <1>4, <2>6, Counts
  <2>12. delivered'[q] = delivered[q] /\ chan'[q] = chan[q] /\ sent'[p] = n + 1
         /\ DOMAIN chan'[p].unacked = Slots(a, n + 1)
    BY <1>1, <1>2, <2>1 DEF Outstanding
  <2>. HIDE DEF q, n, a
  <2>13. InStep(chan'[p], chan[q], a, delivered[q], n + 1)
    BY <1>1, <1>4, <2>6, <2>7, <2>8, <2>9, <2>10, <2>11, <2>12 DEF InStep
  <2>. QED BY <2>3, <2>12, <2>13 DEF StreamOK
<1>8. StreamOK(q, p)'
  <2>1. Outstanding(q)' = Outstanding(q) /\ Released(q)' = Released(q)
    BY <1>2 DEF Outstanding, Released
  <2>. QED BY <1>1, <1>2, <1>3, <1>5, <2>1 DEF StreamOK, InStep, d
<1>9. net' \subseteq {x \in net \cup {new} : Alive(x, sent')}
  BY <1>1 DEF Send, OnWire
<1>10. ASSUME NEW x \in net' PROVE DatagramOK(x)'
  <2>1. Alive(x, sent')
    BY <1>9
  <2>2. CASE x \in net
    <3>1. DatagramOK(x) /\ x.from \in Peer
      BY <2>2 DEF IndInv, TypeOK
    <3>2. sent[x.from] \in Nat /\ sent'[x.from] \in Nat /\ sent[x.from] <= sent'[x.from]
      BY <1>1, <1>2, <3>1
    <3>. QED BY <1>1, <2>1, <3>1, <3>2 DEF DatagramOK
  <2>3. CASE x = new
    <3>1. /\ x.from = p /\ x.got = Len(delivered[p])
          /\ x.frame.epoch = c.epoch /\ x.frame.ack = WireAck(c)
          /\ x.frame.seq = c.nextSeq /\ x.frame.payload = n
      BY <2>3 DEF Datagram, SendFrame, DataFrame
    <3>2. c.epoch = Epoch(p) /\ Len(delivered[p]) \in Nat
      BY DEF IndInv, TypeOK
    <3>. QED BY <1>1, <1>2, <1>6, <2>1, <3>1, <3>2, WireAckIs DEF DatagramOK
  <2>. QED BY <1>9, <2>2, <2>3
<1>11. TypeOK'
  <2>1. new \in [from : Peer, frame : Frame(Nat), got : Nat]
    <3>1. WireAck(c) \in SeqNum /\ Len(delivered[p]) \in Nat
      BY <1>1, WireAckIs, Counts
    <3>2. c.nextSeq \in SeqNum /\ c.epoch \in Nat
      BY <1>1 DEF IsChannel
    <3>. QED BY <1>1, <3>1, <3>2 DEF Datagram, SendFrame, DataFrame, Frame
  <2>2. net' \subseteq [from : Peer, frame : Frame(Nat), got : Nat]
    BY <1>9, <2>1 DEF IndInv, TypeOK
  <2>3. ASSUME NEW r \in Peer
        PROVE  /\ IsChannel(chan'[r], Nat) /\ chan'[r].epoch = Epoch(r)
               /\ chan'[r].peerEpoch \in {None, Epoch(Other(r))}
               /\ sent'[r] <= MaxSent[r]
    <3>1. /\ chan[r].epoch = Epoch(r) /\ IsChannel(chan[r], Nat)
          /\ chan[r].peerEpoch \in {None, Epoch(Other(r))}
          /\ sent[r] <= MaxSent[r] /\ MaxSent[r] \in Nat
      BY BoundAssumption DEF IndInv, TypeOK
    <3>2. CASE r = p
      BY <3>1, <3>2, <1>1, <1>2, <1>5 DEF d
    <3>3. CASE r = q
      BY <3>1, <3>3, <1>2
    <3>. QED BY <3>2, <3>3, <1>1
  <2>4. /\ DOMAIN chan' = Peer
        /\ sent' \in [Peer -> Nat]
        /\ gone' \in [Peer -> BOOLEAN] /\ delivered' \in [Peer -> Seq(Nat)]
    BY <1>1 DEF IndInv, TypeOK
  <2>. QED BY <2>2, <2>3, <2>4 DEF TypeOK
<1>. QED BY <1>1, <1>7, <1>8, <1>10, <1>11 DEF IndInv

-----------------------------------------------------------------------------
(* The timer *)

\* Reliable::tick rebuilds only frames that are true when they are sent.
LEMMA TickStep ==
    ASSUME IndInv, NEW p \in Peer, NEW due \in SUBSET DOMAIN chan[p].unacked,
           Tick(p, due)
    PROVE  IndInv'
<1>. DEFINE q == Other(p)
            c == chan[p]
            d == AfterTick(c, due)
<1>1. /\ IsChannel(c, Nat) /\ q \in Peer /\ q # p /\ Other(q) = p
      /\ \A r \in Peer : r = p \/ r = q
      /\ chan' = [chan EXCEPT ![p] = d] /\ DOMAIN chan = Peer
      /\ net' = net \cup {Datagram(p, f) : f \in TickFrames(c, due)}
      /\ sent' = sent /\ delivered' = delivered /\ gone' = gone
      /\ ~GivesUp(c, due)
  BY Peers DEF IndInv, TypeOK, Tick
<1>2. chan'[p] = d /\ chan'[q] = chan[q]
  BY <1>1
<1>3. StreamOK(p, q) /\ StreamOK(q, p)
  BY <1>1 DEF IndInv
<1>4. /\ IsChannel(d, Nat)
      /\ d.nextSeq = c.nextSeq
      /\ d.ack = c.ack /\ d.early = c.early
      /\ d.epoch = c.epoch /\ d.peerEpoch = c.peerEpoch
      /\ DOMAIN d.unacked = DOMAIN c.unacked
      /\ \A s \in DOMAIN c.unacked : d.unacked[s].payload = c.unacked[s].payload
  BY <1>1, AfterTickFields
<1>. HIDE DEF d
<1>5. StreamOK(p, q)' /\ StreamOK(q, p)'
  <2>1. /\ Outstanding(p)' = Outstanding(p) /\ Outstanding(q)' = Outstanding(q)
        /\ Released(p)' = Released(p) /\ Released(q)' = Released(q)
    BY <1>1, <1>2, <1>4 DEF Outstanding, Released
  <2>2. StreamOK(p, q)'
    <3>1. InStep(c, chan[q], Released(p), delivered[q], sent[p])
      BY <1>3 DEF StreamOK
    <3>2. \A n \in Released(p) .. sent[p] - 1 : n % SeqMod \in DOMAIN c.unacked
      BY <3>1 DEF InStep, Slots
    <3>3. InStep(d, chan[q], Released(p), delivered[q], sent[p])
      BY <1>4, <3>1, <3>2 DEF InStep
    <3>. QED BY <1>1, <1>2, <2>1, <3>3 DEF StreamOK
  <2>3. StreamOK(q, p)'
    <3>1. InStep(chan[q], c, Released(q), delivered[p], sent[q])
      BY <1>3 DEF StreamOK
    <3>2. InStep(chan[q], d, Released(q), delivered[p], sent[q])
      BY <1>4, <3>1 DEF InStep
    <3>. QED BY <1>1, <1>2, <2>1, <3>2 DEF StreamOK
  <2>. QED BY <2>2, <2>3
<1>6. /\ Len(delivered[p]) \in Nat /\ sent[p] \in Nat /\ sent[q] \in Nat
      /\ sent[q] - Len(delivered[p]) <= MaxLag
      /\ \A n \in Released(p) .. sent[p] - 1 : n \in 0 .. sent[p] - 1 /\ sent[p] - n <= MaxLag
  BY <1>1, Counts
<1>7. /\ WireAck(c) = (Len(delivered[p]) - 1) % SeqMod /\ WireAck(c) \in SeqNum
      /\ c.epoch = Epoch(p) /\ c.epoch \in Nat /\ c.nextSeq \in SeqNum
      /\ DOMAIN c.unacked \subseteq SeqNum
      /\ DOMAIN c.unacked = Slots(Released(p), sent[p])
      /\ \A n \in Released(p) .. sent[p] - 1 : c.unacked[n % SeqMod].payload = n
  <2>1. WireAck(c) = (Len(delivered[p]) - 1) % SeqMod /\ WireAck(c) \in SeqNum
    BY WireAckIs
  <2>2. c.epoch = Epoch(p)
    BY DEF IndInv, TypeOK
  <2>3. c.epoch \in Nat /\ c.nextSeq \in SeqNum /\ DOMAIN c.unacked \subseteq SeqNum
    BY <1>1 DEF IsChannel, IsEntries
  <2>. QED BY <1>3, <2>1, <2>2, <2>3 DEF StreamOK, InStep
<1>8. ASSUME NEW f \in TickFrames(c, due), NEW x, x = Datagram(p, f)
      PROVE  DatagramOK(x)' /\ x \in [from : Peer, frame : Frame(Nat), got : Nat]
  <2>1. /\ x.from = p /\ x.frame = f /\ x.got = Len(delivered[p])
        /\ x = [from |-> p, frame |-> f, got |-> Len(delivered[p])]
    BY <1>8 DEF Datagram
  <2>2. CASE f = BareAck(c)
    <3>1. /\ f.hasPayload = FALSE /\ f.epoch = c.epoch /\ f.ack = WireAck(c)
          /\ f \in Frame(Nat)
      BY <1>7, <2>2 DEF BareAck, Frame
    <3>2. DatagramOK(x)
      BY <1>1, <1>6, <1>7, <2>1, <3>1 DEF DatagramOK, Alive
    <3>. QED BY <1>1, <1>6, <2>1, <3>1, <3>2 DEF DatagramOK, Alive
  <2>3. ASSUME NEW s \in due, f = DataFrame(c, s, c.unacked[s].payload)
        PROVE  DatagramOK(x)' /\ x \in [from : Peer, frame : Frame(Nat), got : Nat]
    <3>1. PICK n \in Released(p) .. sent[p] - 1 : s = n % SeqMod
      BY <1>7 DEF Slots
    <3>2. /\ f.hasPayload = TRUE /\ f.epoch = c.epoch /\ f.ack = WireAck(c)
          /\ f.seq = n % SeqMod /\ f.payload = n
      BY <1>7, <2>3, <3>1 DEF DataFrame
    <3>3. f \in Frame(Nat)
      BY <1>6, <1>7, <2>3, <3>1, <3>2 DEF DataFrame, Frame
    <3>4. DatagramOK(x)
      BY <1>1, <1>6, <1>7, <2>1, <3>2 DEF DatagramOK, Alive
    <3>. QED BY <1>1, <1>6, <2>1, <3>3, <3>4 DEF DatagramOK, Alive
  <2>. QED BY <2>2, <2>3 DEF TickFrames
<1>9. ASSUME NEW x \in net' PROVE DatagramOK(x)'
  <2>1. CASE x \in net
    BY <1>1, <2>1 DEF IndInv, DatagramOK, Alive
  <2>2. CASE x \notin net
    BY <1>1, <1>8, <2>2
  <2>. QED BY <2>1, <2>2
<1>10. TypeOK'
  <2>1. net' \subseteq [from : Peer, frame : Frame(Nat), got : Nat]
    <3>1. net \subseteq [from : Peer, frame : Frame(Nat), got : Nat]
      BY DEF IndInv, TypeOK
    <3>2. \A f \in TickFrames(c, due) :
             Datagram(p, f) \in [from : Peer, frame : Frame(Nat), got : Nat]
      BY <1>8
    <3>. QED BY <1>1, <3>1, <3>2
  <2>2. ASSUME NEW r \in Peer
        PROVE  /\ IsChannel(chan'[r], Nat) /\ chan'[r].epoch = Epoch(r)
               /\ chan'[r].peerEpoch \in {None, Epoch(Other(r))}
               /\ sent'[r] <= MaxSent[r]
    <3>1. /\ chan[r].epoch = Epoch(r) /\ IsChannel(chan[r], Nat)
          /\ chan[r].peerEpoch \in {None, Epoch(Other(r))}
          /\ sent[r] <= MaxSent[r]
      BY DEF IndInv, TypeOK
    <3>2. CASE r = p
      BY <3>1, <3>2, <1>1, <1>2, <1>4
    <3>3. CASE r = q
      BY <3>1, <3>3, <1>1, <1>2
    <3>. QED BY <3>2, <3>3, <1>1
  <2>3. /\ DOMAIN chan' = Peer /\ sent' \in [Peer -> Nat]
        /\ gone' \in [Peer -> BOOLEAN] /\ delivered' \in [Peer -> Seq(Nat)]
    BY <1>1 DEF IndInv, TypeOK
  <2>. QED BY <2>1, <2>2, <2>3 DEF TypeOK
<1>. QED BY <1>1, <1>5, <1>9, <1>10 DEF IndInv

-----------------------------------------------------------------------------
(* Receiving *)

\* The ack on a datagram retires messages the peer has been given, and of
\* those it says it has been given keeps none.
LEMMA AckRetires ==
    ASSUME IndInv, NEW p \in Peer, NEW d \in net, d.from = Other(p)
    PROVE  \E a \in Released(p) .. Len(delivered[Other(p)]) :
              Retained(chan[p], d.frame) = Slots(a, sent[p])
<1>. DEFINE q == Other(p)
            c == chan[p]
            a0 == Released(p)
            a == IF d.got > a0 THEN d.got ELSE a0
<1>1. /\ q \in Peer /\ q # p /\ Other(q) = p
      /\ DatagramOK(d) /\ d.got \in Nat
      /\ StreamOK(p, q)
  BY Peers DEF IndInv, TypeOK
<1>2. /\ d.got <= Len(delivered[q]) /\ sent[p] - d.got <= MaxLag
      /\ d.frame.ack = (d.got - 1) % SeqMod
  BY <1>1 DEF DatagramOK, Alive
<1>3. DOMAIN c.unacked = Slots(a0, sent[p])
  BY <1>1 DEF StreamOK, InStep
<1>4. a \in a0 .. Len(delivered[q]) /\ sent[p] \in Nat /\ a0 \in Nat
  BY <1>1, <1>2, Counts
<1>5. ASSUME NEW n \in a0 .. sent[p] - 1
      PROVE  IsNewerThan(n % SeqMod, d.frame.ack) <=> a <= n
  <2>1. n \in Int /\ d.got - 1 \in Int
    BY <1>1, <1>4
  <2>2. n - (d.got - 1) < Half /\ (d.got - 1) - n < Half
    <3>1. /\ sent[p] - a0 <= Window /\ Window <= MaxLag /\ MaxLag < Half
          /\ Window \in Nat /\ MaxLag \in Nat /\ Half \in Nat
          /\ Len(delivered[q]) \in Nat /\ Len(delivered[q]) <= sent[p]
      BY Counts
    <3>2. /\ d.got \in Nat /\ d.got <= Len(delivered[q]) /\ sent[p] - d.got <= MaxLag
          /\ a0 \in Nat /\ sent[p] \in Nat
      BY <1>1, <1>2, <1>4
    <3>. HIDE DEF a, a0
    <3>. QED BY SMTT(40), <3>1, <3>2
  <2>3. IsNewerThan(n % SeqMod, (d.got - 1) % SeqMod) <=> d.got - 1 < n
    BY <2>1, <2>2, NewerOfCounts
  <2>. QED BY <1>1, <1>2, <1>4, <2>3
<1>6. Retained(c, d.frame) = Slots(a, sent[p])
  <2>. HIDE DEF a
  <2>. QED BY <1>3, <1>4, <1>5 DEF Retained, Slots
<1>. QED BY <1>4, <1>6

\* on_frame with a payload hands over the next messages of the stream, and
\* keeps holding only messages beyond a gap.  b is the channel as the frame's
\* ack has left it.
LEMMA DeliversInOrder ==
    ASSUME IndInv, NEW p \in Peer, NEW d \in net, d.from = Other(p),
           d.frame.hasPayload = TRUE,
           NEW b, IsChannel(b, Nat), b.ack = chan[p].ack, b.early = chan[p].early,
           Hears(b, d.frame)
    PROVE  LET next == Len(delivered[p])
               run  == Delivers(b, d.frame)
               e    == Accepted(b, d.frame)
           IN /\ run \in Seq(Nat)
              /\ next + Len(run) <= sent[Other(p)]
              /\ Len(run) \in 0 .. SeqMod - 1
              /\ \A i \in 1 .. Len(run) : run[i] = next + i - 1
              /\ e.ack = IF next + Len(run) = 0 THEN None
                         ELSE (next + Len(run) - 1) % SeqMod
              /\ \A s \in DOMAIN e.early :
                    /\ e.early[s] \in next + Len(run) + 1 .. sent[Other(p)] - 1
                    /\ s = e.early[s] % SeqMod
<1>. DEFINE q == Other(p)
            f == d.frame
            N == sent[q]
            D == Len(delivered[p])
            h == Held(b, f)
            w == Wanted(b)
<1>1. /\ q \in Peer /\ q # p /\ Other(q) = p
      /\ DatagramOK(d) /\ d \in [from : Peer, frame : Frame(Nat), got : Nat]
      /\ InStep(chan[q], chan[p], Released(q), delivered[p], N)
  BY Peers DEF IndInv, TypeOK, StreamOK
<1>2. /\ f.payload \in Nat /\ f.payload < N /\ f.seq = f.payload % SeqMod
      /\ f.seq \in SeqNum /\ N - f.payload <= MaxLag
  <2>1. f \in Frame(Nat) /\ d.from = q /\ sent[q] \in Nat
    BY <1>1, Counts
  <2>2. f.seq \in SeqNum
    BY <2>1 DEF Frame
  <2>. QED BY <1>1, <2>1, <2>2 DEF DatagramOK, Alive
<1>3. /\ N \in Nat /\ D \in Nat /\ D <= N /\ N - D <= Window
      /\ Window \in Nat /\ MaxLag \in Nat /\ Window <= MaxLag
      /\ Half \in Nat /\ MaxLag < Half /\ Half + Half = SeqMod
  <2>1. /\ N \in Nat /\ D \in Nat /\ Released(q) \in 0 .. D /\ D <= N
        /\ N - Released(q) <= Window
    BY <1>1, Counts
  <2>. QED BY <1>1, <2>1, Counts
<1>4. b.ack = IF D = 0 THEN None ELSE (D - 1) % SeqMod
  BY <1>1 DEF InStep
<1>5. \A s \in DOMAIN b.early : b.early[s] \in D + 1 .. N - 1 /\ s = b.early[s] % SeqMod
  BY <1>1 DEF InStep
<1>6. w = D % SeqMod /\ w \in SeqNum
  <2>1. CASE D = 0
    BY <1>4, <2>1, SeqModAssumption DEF Wanted, SeqNum
  <2>2. CASE D # 0
    <3>1. D \in Int /\ D - 1 \in Int /\ D - 1 + 1 = D
      BY <1>3
    <3>2. b.ack = (D - 1) % SeqMod /\ (D - 1) % SeqMod \in SeqNum
      BY <1>4, <2>2, <3>1, Remainder
    <3>3. 1 \in 0 .. SeqMod
      BY SeqModAssumption
    <3>4. Plus((D - 1) % SeqMod, 1) = D % SeqMod
      BY <3>1, <3>3, PlusOfCounts
    <3>5. b.ack # None
      BY <3>2, NoneIsNoNumber
    <3>6. D % SeqMod \in SeqNum
      BY <3>1, Remainder
    <3>. QED BY <3>2, <3>4, <3>5, <3>6 DEF Wanted, NextSeq
  <2>. QED BY <2>1, <2>2
<1>. HIDE DEF w, f, N, D
<1>7. Admits(b, f) => D <= f.payload
  <2>1. CASE D = 0
    BY <1>2, <2>1
  <2>2. CASE D # 0
    <3>1. b.ack # None /\ b.ack = (D - 1) % SeqMod
      <4>1. (D - 1) % SeqMod \in SeqNum
        BY <1>3, Remainder
      <4>. QED BY <1>4, <2>2, <4>1, NoneIsNoNumber
    <3>2. f.payload - (D - 1) < Half /\ (D - 1) - f.payload < Half
      BY <1>2, <1>3
    <3>3. IsNewerThan(f.payload % SeqMod, (D - 1) % SeqMod) <=> D - 1 < f.payload
      BY <1>2, <1>3, <3>2, NewerOfCounts
    <3>. QED BY <1>2, <1>3, <3>1, <3>3 DEF Admits
  <2>. QED BY <2>1, <2>2
<1>8. /\ IsEntries(h, Nat)
      /\ \A s \in DOMAIN h : h[s] \in D .. N - 1 /\ s = h[s] % SeqMod
      /\ ~Admits(b, f) => D % SeqMod \notin DOMAIN h
  <2>1. /\ IsEntries(h, Nat)
        /\ \A s \in DOMAIN h :
             \/ s \in DOMAIN b.early /\ h[s] = b.early[s]
             \/ Admits(b, f) /\ s = f.seq /\ h[s] = f.payload
    BY <1>2, HeldFields
  <2>. HIDE DEF h
  <2>2. ASSUME NEW s \in DOMAIN h
        PROVE  h[s] \in D .. N - 1 /\ s = h[s] % SeqMod
    BY <1>2, <1>3, <1>5, <1>7, <2>1
  <2>3. ASSUME ~Admits(b, f) PROVE D % SeqMod \notin DOMAIN h
    <3>1. ASSUME D % SeqMod \in DOMAIN h PROVE FALSE
      <4>1. PICK m \in D + 1 .. N - 1 : D % SeqMod = m % SeqMod
        BY <1>5, <2>1, <2>3, <3>1
      <4>2. m - D < SeqMod /\ D - m < SeqMod
        BY <1>3
      <4>. QED BY <1>3, <4>1, <4>2, SameNumber
    <3>. QED BY <3>1
  <2>. QED BY <2>1, <2>2, <2>3
<1>. HIDE DEF h
<1>. DEFINE k == RunLength(h, w)
<1>9. \A i \in 0 .. SeqMod - 1 : Plus(w, i) = (D + i) % SeqMod
  BY <1>3, <1>6, PlusOfCounts
<1>10. /\ k \in 0 .. SeqMod - 1
       /\ \A i \in 0 .. k - 1 : (D + i) % SeqMod \in DOMAIN h
       /\ (D + k) % SeqMod \notin DOMAIN h
  <2>1. (D + Window) % SeqMod \notin DOMAIN h
    <3>1. ASSUME (D + Window) % SeqMod \in DOMAIN h PROVE FALSE
      <4>1. PICK m \in D .. N - 1 : (D + Window) % SeqMod = m % SeqMod
        BY <1>8, <3>1
      <4>2. m - (D + Window) < SeqMod /\ (D + Window) - m < SeqMod
        BY <1>3
      <4>3. m = D + Window
        BY <1>3, <4>1, <4>2, SameNumber
      <4>. QED BY <1>3, <4>3
    <3>. QED BY <3>1
  <2>2. Window \in 0 .. SeqMod - 1 /\ Plus(w, Window) \notin DOMAIN h
    BY <1>3, <1>9, <2>1
  <2>3. /\ k \in 0 .. SeqMod - 1
        /\ \A i \in 0 .. k - 1 : Plus(w, i) \in DOMAIN h
        /\ Plus(w, k) \notin DOMAIN h
    BY <1>6, <2>2, RunLengthSpec
  <2>. HIDE DEF k
  <2>. QED BY <1>9, <2>3, SeqModAssumption
<1>. HIDE DEF k
<1>11. ASSUME NEW i \in 0 .. k - 1 PROVE h[(D + i) % SeqMod] = D + i /\ D + i < N
  <2>1. PICK m \in D .. N - 1 : h[(D + i) % SeqMod] = m /\ (D + i) % SeqMod = m % SeqMod
    BY <1>8, <1>10
  <2>2. m - (D + i) < SeqMod /\ (D + i) - m < SeqMod
    BY <1>3, <1>10
  <2>3. m = D + i
    BY <1>3, <1>10, <2>1, <2>2, SameNumber
  <2>. QED BY <1>3, <2>1, <2>3
<1>12. Delivers(b, f) = [i \in 1 .. k |-> D + i - 1]
  <2>1. CASE Admits(b, f)
    <3>1. Delivers(b, f) = [i \in 1 .. k |-> h[Plus(w, i - 1)]]
      BY <2>1 DEF Delivers, Run, f, k, h, w
    <3>2. \A i \in 1 .. k : h[Plus(w, i - 1)] = D + i - 1
      <4>1. ASSUME NEW i \in 1 .. k PROVE h[Plus(w, i - 1)] = D + i - 1
        <5>1. i - 1 \in 0 .. k - 1 /\ i - 1 \in 0 .. SeqMod - 1
          BY <1>10, SeqModAssumption
        <5>. QED BY <1>3, <1>9, <1>11, <5>1
      <4>. QED BY <4>1
    <3>. QED BY <3>1, <3>2
  <2>2. CASE ~Admits(b, f)
    <3>1. k = 0
      <4>1. ASSUME k # 0 PROVE FALSE
        <5>1. 0 \in 0 .. k - 1 /\ D + 0 = D
          BY <1>3, <1>10, <4>1
        <5>. QED BY <1>8, <1>10, <2>2, <5>1
      <4>. QED BY <4>1
    <3>2. Delivers(b, f) = << >>
      BY <2>2 DEF Delivers
    <3>. QED BY <3>1, <3>2
  <2>. QED BY <2>1, <2>2
<1>. DEFINE run == Delivers(b, f)
            e == Accepted(b, f)
<1>13. run \in Seq(Nat) /\ Len(run) = k /\ \A i \in 1 .. k : run[i] = D + i - 1
  <2>1. \A i \in 1 .. k : D + i - 1 \in Nat
    BY <1>3
  <2>2. k \in Nat
    BY <1>10, SeqModAssumption
  <2>. QED BY <1>12, <2>1, <2>2
<1>14. /\ e.ack = IF k = 0 THEN b.ack ELSE Plus(w, k - 1)
       /\ DOMAIN e.early = DOMAIN h \ {Plus(w, i) : i \in 0 .. k - 1}
       /\ \A s \in DOMAIN e.early : e.early[s] = h[s]
  <2>1. /\ f.seq \in SeqNum /\ f.payload \in Nat /\ k \in 0 .. SeqMod - 1
        /\ k = Len(Delivers(b, f))
    BY <1>2, <1>10, <1>13
  <2>2. h = Held(b, f) /\ w = Wanted(b)
    BY DEF h, w
  <2>. QED BY <2>1, <2>2, AcceptedFields, SMTT(30)
<1>. HIDE DEF run, e
<1>15. D + k <= N
  <2>1. CASE k = 0
    BY <1>3, <2>1
  <2>2. CASE k # 0
    <3>1. k - 1 \in 0 .. k - 1
      BY <1>10, <2>2
    <3>. QED BY <1>3, <1>10, <1>11, <3>1
  <2>. QED BY <2>1, <2>2
<1>16. e.ack = IF D + k = 0 THEN None ELSE (D + k - 1) % SeqMod
  <2>1. CASE k = 0
    BY <1>3, <1>4, <1>14, <2>1
  <2>2. CASE k # 0
    <3>1. k - 1 \in 0 .. SeqMod - 1
      BY <1>10, <2>2, SeqModAssumption
    <3>. QED BY <1>3, <1>9, <1>10, <1>14, <2>2, <3>1
  <2>. QED BY <2>1, <2>2
<1>17. ASSUME NEW s \in DOMAIN e.early
       PROVE  e.early[s] \in D + k + 1 .. N - 1 /\ s = e.early[s] % SeqMod
  <2>1. s \in DOMAIN h /\ e.early[s] = h[s] /\ h[s] \in D .. N - 1 /\ s = h[s] % SeqMod
    BY <1>8, <1>14
  <2>2. ASSUME h[s] < D + k PROVE FALSE
    <3>1. h[s] - D \in 0 .. k - 1 /\ h[s] - D \in 0 .. SeqMod - 1
      BY <1>3, <1>10, <2>1, <2>2
    <3>2. Plus(w, h[s] - D) = (D + (h[s] - D)) % SeqMod
      BY <1>9, <3>1
    <3>3. D + (h[s] - D) = h[s]
      BY <1>3, <2>1
    <3>. QED BY <1>14, <2>1, <3>1, <3>2, <3>3
  <2>3. h[s] # D + k
    BY <1>10, <2>1
  <2>4. k \in Nat /\ D \in Nat /\ N \in Nat /\ h[s] \in Int
    BY <1>3, <1>10, <2>1, SeqModAssumption
  <2>5. h[s] \in D + k + 1 .. N - 1
    BY <2>1, <2>2, <2>3, <2>4
  <2>. QED BY <2>1, <2>5
<1>. QED BY <1>10, <1>13, <1>15, <1>16, <1>17 DEF run, e, f, N, D

\* Reliable::on_frame keeps both streams in step, whichever datagram off the
\* wire it is given, however late or however often.
LEMMA ReceiveStep ==
    ASSUME IndInv, NEW p \in Peer, NEW d \in net, Receive(p, d)
    PROVE  IndInv' /\ Len(delivered[p]) <= Len(delivered'[p])
<1>. DEFINE q == Other(p)
            c == chan[p]
            f == d.frame
            b == Acknowledged(c, f)
            e == Accepted(b, f)
            x == AfterFrame(c, f)
            run == Delivers(c, f)
<1>1. /\ IsChannel(c, Nat) /\ q \in Peer /\ q # p /\ Other(q) = p
      /\ \A r \in Peer : r = p \/ r = q
      /\ d.from = q /\ DatagramOK(d) /\ f \in Frame(Nat)
      /\ c.epoch = Epoch(p) /\ c.peerEpoch \in {None, Epoch(q)}
      /\ DOMAIN chan = Peer /\ delivered \in [Peer -> Seq(Nat)]
      /\ chan' = [chan EXCEPT ![p] = x]
      /\ delivered' = [delivered EXCEPT ![p] = @ \o run]
      /\ gone' = gone /\ net' = net /\ sent' = sent
  BY Peers DEF IndInv, TypeOK, Receive
<1>2. /\ chan'[p] = x /\ chan'[q] = chan[q]
      /\ delivered'[p] = delivered[p] \o run /\ delivered'[q] = delivered[q]
  BY <1>1
<1>3. f.epoch = Epoch(q) /\ f.epoch \in Nat /\ f.hasPayload \in BOOLEAN
  BY <1>1, Peers DEF DatagramOK, Frame
<1>4. Hears(c, f)
  BY <1>1, <1>3 DEF Hears, Incarnation
<1>5. /\ IsChannel(b, Nat)
      /\ b.nextSeq = c.nextSeq
      /\ b.ack = c.ack /\ b.early = c.early /\ b.epoch = c.epoch
      /\ b.peerEpoch = Epoch(q)
      /\ DOMAIN b.unacked = Retained(c, f)
      /\ \A s \in Retained(c, f) : b.unacked[s] = c.unacked[s]
  BY <1>1, <1>3, AcknowledgedFields
<1>. HIDE DEF b
<1>6. Hears(b, f) /\ Delivers(b, f) = run
  <2>1. Hears(b, f)
    BY <1>3, <1>5, Peers DEF Hears, Incarnation
  <2>2. Held(b, f) = Held(c, f) /\ Wanted(b) = Wanted(c) /\ (Admits(b, f) <=> Admits(c, f))
    BY <1>5 DEF Held, Wanted, Admits
  <2>. QED BY <1>4, <2>1, <2>2 DEF Delivers
<1>7. x = IF f.hasPayload THEN e ELSE b
  BY <1>3, <1>4 DEF AfterFrame, b
<1>8. ~f.hasPayload => run = << >>
  BY DEF Delivers
<1>. HIDE DEF x, run, f
<1>9. f.hasPayload =>
         /\ run \in Seq(Nat)
         /\ Len(delivered[p]) + Len(run) <= sent[q]
         /\ Len(run) \in 0 .. SeqMod - 1
         /\ \A i \in 1 .. Len(run) : run[i] = Len(delivered[p]) + i - 1
         /\ e.ack = IF Len(delivered[p]) + Len(run) = 0 THEN None
                    ELSE (Len(delivered[p]) + Len(run) - 1) % SeqMod
         /\ \A s \in DOMAIN e.early :
               /\ e.early[s] \in Len(delivered[p]) + Len(run) + 1 .. sent[q] - 1
               /\ s = e.early[s] % SeqMod
  <2>1. ASSUME f.hasPayload
        PROVE  LET next == Len(delivered[p])
                   dlvd == Delivers(b, d.frame)
                   acc  == Accepted(b, d.frame)
               IN /\ dlvd \in Seq(Nat)
                  /\ next + Len(dlvd) <= sent[Other(p)]
                  /\ Len(dlvd) \in 0 .. SeqMod - 1
                  /\ \A i \in 1 .. Len(dlvd) : dlvd[i] = next + i - 1
                  /\ acc.ack = IF next + Len(dlvd) = 0 THEN None
                               ELSE (next + Len(dlvd) - 1) % SeqMod
                  /\ \A s \in DOMAIN acc.early :
                        /\ acc.early[s] \in next + Len(dlvd) + 1 .. sent[Other(p)] - 1
                        /\ s = acc.early[s] % SeqMod
    <3>1. d.from = Other(p) /\ d.frame.hasPayload = TRUE /\ Hears(b, d.frame)
      BY <1>1, <1>3, <1>6, <2>1 DEF f
    <3>2. IsChannel(b, Nat) /\ b.ack = chan[p].ack /\ b.early = chan[p].early
      BY <1>5
    <3>. HIDE DEF c, q
    <3>. QED BY <3>1, <3>2, DeliversInOrder
  <2>2. Delivers(b, d.frame) = run /\ Accepted(b, d.frame) = e
    BY <1>6 DEF f
  <2>. HIDE DEF e
  <2>. QED BY <2>1, <2>2
<1>10. f.hasPayload =>
          /\ IsChannel(e, Nat)
          /\ e.nextSeq = b.nextSeq /\ e.unacked = b.unacked
          /\ e.epoch = b.epoch /\ e.peerEpoch = b.peerEpoch
  <2>1. SUFFICES ASSUME f.hasPayload
                 PROVE  /\ IsChannel(e, Nat)
                        /\ e.nextSeq = b.nextSeq /\ e.unacked = b.unacked
                        /\ e.epoch = b.epoch /\ e.peerEpoch = b.peerEpoch
    OBVIOUS
  <2>2. f.seq \in SeqNum /\ f.payload \in Nat
    BY <1>1, <2>1, Counts DEF DatagramOK, Frame, f
  <2>3. Len(run) \in 0 .. SeqMod - 1 /\ Len(run) = Len(Delivers(b, f))
    BY <1>6, <1>9, <2>1
  <2>. QED BY <1>5, <2>2, <2>3, AcceptedFields
<1>11. /\ IsChannel(x, Nat)
       /\ x.nextSeq = c.nextSeq /\ x.unacked = b.unacked
       /\ x.epoch = c.epoch /\ x.peerEpoch = Epoch(q)
  BY <1>5, <1>7, <1>10
<1>12. InStep(c, chan[q], Released(p), delivered[q], sent[p])
       /\ InStep(chan[q], c, Released(q), delivered[p], sent[q])
  BY <1>1 DEF IndInv, StreamOK
<1>13. StreamOK(p, q)'
  <2>1. PICK a \in Released(p) .. Len(delivered[q]) : Retained(c, f) = Slots(a, sent[p])
    BY <1>1, AckRetires DEF f
  <2>2. /\ Released(p) \in 0 .. Len(delivered[q]) /\ Len(delivered[q]) \in Nat
        /\ Len(delivered[q]) <= sent[p] /\ sent[p] \in Nat
        /\ sent[p] - Released(p) <= Window /\ Window \in Nat /\ Window <= SeqMod
        /\ SeqMod \in Nat
    <3>1. /\ Window <= MaxLag /\ MaxLag < Half /\ Half + Half = SeqMod
          /\ Window \in Nat /\ MaxLag \in Nat /\ Half \in Nat
      BY Counts
    <3>. QED BY <3>1, SeqModAssumption, Counts
  <2>3. a \in 0 .. Len(delivered[q]) /\ sent[p] - a <= Window /\ a <= sent[p]
    BY <2>1, <2>2
  <2>4. DOMAIN x.unacked = Slots(a, sent[p])
    BY <1>5, <1>11, <2>1
  <2>5. Cardinality(Slots(a, sent[p])) = sent[p] - a
    BY <2>2, <2>3, SlotsCount
  <2>6. Released(p)' = a
    BY <1>1, <1>2, <2>2, <2>3, <2>4, <2>5 DEF Released, Outstanding
  <2>7. ASSUME NEW n \in a .. sent[p] - 1
        PROVE  x.unacked[n % SeqMod].payload = n
    <3>1. n % SeqMod \in Retained(c, f) /\ n \in Released(p) .. sent[p] - 1
      BY <2>1, <2>2 DEF Slots
    <3>. QED BY <1>5, <1>11, <1>12, <3>1 DEF InStep
  <2>8. InStep(x, chan[q], a, delivered[q], sent[p])
    BY <1>11, <1>12, <2>2, <2>3, <2>4, <2>7 DEF InStep
  <2>. QED BY <1>1, <1>2, <2>6, <2>8 DEF StreamOK
<1>14. StreamOK(q, p)' /\ delivered'[p] \in Seq(Nat)
                      /\ Len(delivered[p]) <= Len(delivered'[p])
  <2>. DEFINE given == delivered[p]
  <2>1. given \in Seq(Nat) /\ Len(given) \in Nat /\ sent[q] \in Nat
    BY <1>1, Counts
  <2>2. CASE f.hasPayload
    <3>. DEFINE more == given \o run
    <3>1. /\ more \in Seq(Nat) /\ Len(more) = Len(given) + Len(run)
          /\ Len(run) \in Nat
          /\ \A i \in 1 .. Len(more) :
                more[i] = IF i <= Len(given) THEN given[i] ELSE run[i - Len(given)]
      BY <1>9, <2>1, <2>2
    <3>2. \A i \in 1 .. Len(given) : given[i] = i - 1
      BY <1>12 DEF InStep
    <3>3. Released(q) \in 0 .. Len(given)
      BY <1>12 DEF InStep
    <3>. HIDE DEF given, more
    <3>4. \A i \in 1 .. Len(more) : more[i] = i - 1
      <4>1. ASSUME NEW i \in 1 .. Len(more) PROVE more[i] = i - 1
        <5>1. CASE i <= Len(given)
          <6>1. i \in 1 .. Len(given) /\ more[i] = given[i]
            BY <2>1, <3>1, <5>1
          <6>. QED BY <3>2, <6>1
        <5>2. CASE i > Len(given)
          <6>1. i - Len(given) \in 1 .. Len(run) /\ i \in Int
            BY <2>1, <3>1, <5>2
          <6>2. run[i - Len(given)] = Len(given) + (i - Len(given)) - 1
            BY <1>9, <2>2, <6>1 DEF given
          <6>3. more[i] = run[i - Len(given)]
            BY <2>1, <3>1, <5>2, <6>1
          <6>. QED BY <2>1, <6>1, <6>2, <6>3
        <5>. QED BY <2>1, <3>1, <5>1, <5>2
      <4>. QED BY <4>1
    <3>5. InStep(chan[q], x, Released(q), more, sent[q])
      <4>1. Released(q) \in 0 .. Len(more) /\ Len(more) <= sent[q]
        BY <1>9, <2>1, <2>2, <3>1, <3>3 DEF given
      <4>2. x = e
        BY <1>7, <2>2
      <4>3. x.ack = IF Len(more) = 0 THEN None ELSE (Len(more) - 1) % SeqMod
        BY <1>9, <2>2, <3>1, <4>2 DEF given
      <4>4. \A s \in DOMAIN x.early : /\ x.early[s] \in Len(more) + 1 .. sent[q] - 1
                                      /\ s = x.early[s] % SeqMod
        BY <1>9, <2>2, <3>1, <4>2 DEF given
      <4>. QED BY <1>12, <3>4, <4>1, <4>3, <4>4 DEF InStep
    <3>6. Released(q)' = Released(q)
      BY <1>1, <1>2 DEF Released, Outstanding
    <3>. QED BY <1>1, <1>2, <2>1, <3>1, <3>5, <3>6 DEF StreamOK, given, more
  <2>3. CASE ~f.hasPayload
    <3>1. given \o run = given
      BY <1>8, <2>1, <2>3
    <3>2. InStep(chan[q], x, Released(q), given, sent[q])
      BY <1>5, <1>7, <1>12, <2>3 DEF InStep
    <3>3. Released(q)' = Released(q)
      BY <1>1, <1>2 DEF Released, Outstanding
    <3>. QED BY <1>1, <1>2, <2>1, <3>1, <3>2, <3>3 DEF StreamOK
  <2>. QED BY <2>2, <2>3, <1>3 DEF f
<1>15. ASSUME NEW y \in net' PROVE DatagramOK(y)'
  <2>1. DatagramOK(y) /\ y.from \in Peer /\ y.got \in Nat
    BY <1>1 DEF IndInv, TypeOK
  <2>2. Len(delivered[y.from]) <= Len(delivered'[y.from])
        /\ Len(delivered[y.from]) \in Nat /\ Len(delivered'[y.from]) \in Nat
    <3>1. CASE y.from = p
      BY <1>1, <1>14, <3>1
    <3>2. CASE y.from = q
      BY <1>1, <1>2, <3>2
    <3>. QED BY <1>1, <2>1, <3>1, <3>2
  <2>3. y.got <= Len(delivered'[y.from])
    BY <2>1, <2>2 DEF DatagramOK
  <2>. QED BY <1>1, <2>1, <2>3 DEF DatagramOK, Alive
<1>16. TypeOK'
  <2>1. ASSUME NEW r \in Peer
        PROVE  /\ IsChannel(chan'[r], Nat) /\ chan'[r].epoch = Epoch(r)
               /\ chan'[r].peerEpoch \in {None, Epoch(Other(r))}
               /\ sent'[r] <= MaxSent[r]
    <3>1. /\ chan[r].epoch = Epoch(r) /\ IsChannel(chan[r], Nat)
          /\ chan[r].peerEpoch \in {None, Epoch(Other(r))}
          /\ sent[r] <= MaxSent[r]
      BY DEF IndInv, TypeOK
    <3>2. CASE r = p
      BY <3>1, <3>2, <1>1, <1>2, <1>11
    <3>3. CASE r = q
      BY <3>1, <3>3, <1>1, <1>2
    <3>. QED BY <3>2, <3>3, <1>1
  <2>2. DOMAIN chan' = Peer
    BY <1>1
  <2>3. delivered' \in [Peer -> Seq(Nat)]
    BY <1>1, <1>2, <1>14
  <2>4. gone' \in [Peer -> BOOLEAN] /\ sent' \in [Peer -> Nat]
        /\ net' \subseteq [from : Peer, frame : Frame(Nat), got : Nat]
    BY <1>1 DEF IndInv, TypeOK
  <2>. QED BY <2>1, <2>2, <2>3, <2>4 DEF TypeOK
<1>. QED BY <1>1, <1>13, <1>14, <1>15, <1>16 DEF IndInv

-----------------------------------------------------------------------------
(* The invariant, and what follows from it *)

\* Every step of the two ends keeps the invariant.
LEMMA StepInv == IndInv /\ [Next]_vars => IndInv'
<1>. SUFFICES ASSUME IndInv, [Next]_vars PROVE IndInv'
  OBVIOUS
<1>1. ASSUME NEW p \in Peer, Send(p) PROVE IndInv'
  BY <1>1, SendStep
<1>2. ASSUME NEW p \in Peer, NEW d \in net, Receive(p, d) PROVE IndInv'
  BY <1>2, ReceiveStep
<1>3. ASSUME NEW p \in Peer, NEW due \in SUBSET DOMAIN chan[p].unacked, Tick(p, due)
      PROVE  IndInv'
  BY <1>3, TickStep
<1>4. ASSUME UNCHANGED <<chan, net, sent, delivered>>, gone' \in [Peer -> BOOLEAN]
      PROVE  IndInv'
  BY <1>4 DEF IndInv, TypeOK, StreamOK, DatagramOK, Alive, Released, Outstanding
<1>5. ASSUME NEW p \in Peer, NEW due \in SUBSET DOMAIN chan[p].unacked, GiveUp(p, due)
      PROVE  IndInv'
  <2>1. gone' \in [Peer -> BOOLEAN]
    BY <1>5 DEF GiveUp, IndInv, TypeOK
  <2>. QED BY <1>4, <1>5, <2>1 DEF GiveUp
<1>6. CASE UNCHANGED vars
  <2>1. gone' \in [Peer -> BOOLEAN]
    BY <1>6 DEF vars, IndInv, TypeOK
  <2>. QED BY <1>4, <1>6, <2>1 DEF vars
<1>. QED BY <1>1, <1>2, <1>3, <1>5, <1>6 DEF Next, Timer

\* The channels, the wire and the two histories stay in step.
THEOREM Invariance == Spec => []IndInv
BY InitInv, StepInv, PTL DEF Spec

\* Every value stays in its type, for every choice of the constants.
THEOREM TypeCorrect == Spec => []TypeOK
<1>1. IndInv => TypeOK
  BY DEF IndInv
<1>. QED BY <1>1, Invariance, PTL

\* Delivery is in order and exactly once, whatever the network does.
THEOREM DeliveryInOrderOnce == Spec => []InOrderOnce
<1>1. IndInv => InOrderOnce
  <2>1. SUFFICES ASSUME IndInv, NEW p \in Peer
                 PROVE  /\ Len(delivered[p]) <= sent[Other(p)]
                        /\ \A i \in 1 .. Len(delivered[p]) : delivered[p][i] = i - 1
    BY DEF InOrderOnce
  <2>2. StreamOK(Other(p), p)
    BY <2>1, Peers DEF IndInv
  <2>. QED BY <2>2 DEF StreamOK, InStep
<1>. QED BY <1>1, Invariance, PTL

\* No ack retires a message the other end has not been given.
THEOREM NothingUndeliveredIsRetired == Spec => []RetiredWasDelivered
<1>1. IndInv => RetiredWasDelivered
  <2>1. SUFFICES ASSUME IndInv, NEW p \in Peer, NEW n \in 0 .. sent[p] - 1,
                        n >= Len(delivered[Other(p)])
                 PROVE  \E s \in Outstanding(p) : chan[p].unacked[s].payload = n
    BY DEF RetiredWasDelivered
  <2>2. InStep(chan[p], chan[Other(p)], Released(p), delivered[Other(p)], sent[p])
    BY <2>1 DEF IndInv, StreamOK
  <2>3. n \in Released(p) .. sent[p] - 1
    BY <2>1, Counts
  <2>4. n % SeqMod \in Outstanding(p) /\ chan[p].unacked[n % SeqMod].payload = n
    BY <2>2, <2>3 DEF InStep, Slots, Outstanding
  <2>. QED BY <2>4
<1>. QED BY <1>1, Invariance, PTL

\* The holding area is bounded by the window, and holds nothing its sender has
\* dropped.
THEOREM HoldingAreaBounded == Spec => []EarlyIsAhead
<1>1. IndInv => EarlyIsAhead
  <2>1. SUFFICES ASSUME IndInv, NEW p \in Peer, NEW s \in DOMAIN chan[p].early
                 PROVE  /\ chan[p].early[s] > Len(delivered[p])
                        /\ chan[p].early[s] < Len(delivered[p]) + Window
                        /\ \E t \in Outstanding(Other(p)) :
                              chan[Other(p)].unacked[t].payload = chan[p].early[s]
    BY DEF EarlyIsAhead
  <2>. DEFINE q == Other(p)
  <2>2. q \in Peer /\ Other(q) = p
    BY Peers
  <2>3. InStep(chan[q], chan[p], Released(q), delivered[p], sent[q])
    BY <2>1, <2>2 DEF IndInv, StreamOK
  <2>4. PICK n \in Len(delivered[p]) + 1 .. sent[q] - 1 : chan[p].early[s] = n
    BY <2>1, <2>3 DEF InStep
  <2>5. /\ n \in Released(q) .. sent[q] - 1 /\ n > Len(delivered[p])
        /\ n < Len(delivered[p]) + Window
    <3>1. /\ sent[q] \in Nat /\ Len(delivered[p]) \in Nat
          /\ Released(q) \in 0 .. Len(delivered[p])
          /\ sent[q] - Released(q) <= Window /\ Window \in Nat
      BY <2>1, <2>2, Counts
    <3>. QED BY <2>4, <3>1
  <2>6. n % SeqMod \in Outstanding(q) /\ chan[q].unacked[n % SeqMod].payload = n
    BY <2>3, <2>5 DEF InStep, Slots, Outstanding
  <2>. QED BY <2>4, <2>5, <2>6
<1>. QED BY <1>1, Invariance, PTL

\* No number is handed out while an older message is still kept under it: the
\* window is far smaller than the space.
THEOREM NumbersAreFree == Spec => SendOverwritesNothing
<1>1. ASSUME IndInv, NEW p \in Peer PROVE chan[p].nextSeq \notin Outstanding(p)
  <2>. DEFINE a == Released(p)
              n == sent[p]
  <2>1. /\ chan[p].nextSeq = n % SeqMod
        /\ Outstanding(p) = Slots(a, n)
    BY <1>1, Peers DEF IndInv, StreamOK, InStep, Outstanding
  <2>2. a \in Int /\ n \in Int /\ n - a < SeqMod
    <3>1. /\ n \in Nat /\ a \in Nat /\ n - a <= Window /\ Window \in Nat
      BY <1>1, Counts, Peers
    <3>. QED BY <3>1, WindowAssumption, HalfOfSpace
  <2>3. ASSUME NEW m \in a .. n - 1, n % SeqMod = m % SeqMod PROVE FALSE
    <3>1. n - m < SeqMod /\ m - n < SeqMod /\ m # n /\ m \in Int
      BY <2>2, <2>3, SeqModAssumption
    <3>. QED BY <2>2, <2>3, <3>1, SameNumber
  <2>. QED BY <2>1, <2>3 DEF Slots
<1>2. IndInv /\ [Next]_vars =>
        [\A p \in Peer : sent'[p] > sent[p] => chan[p].nextSeq \notin Outstanding(p)]_vars
  BY <1>1
<1>. QED BY <1>2, Invariance, PTL DEF Spec, SendOverwritesNothing

-----------------------------------------------------------------------------
(* The channel implements ordered delivery *)

Received == [p \in Peer |-> Len(delivered[Other(p)])]
Releases == [p \in Peer |-> Released(p)]

\* A send is a submission of the abstract channel.
LEMMA SubmitStep ==
    ASSUME IndInv, IndInv', NEW p \in Peer, Send(p)
    PROVE  Promise!Next
<1>. DEFINE q == Other(p)
            n == sent[p]
            c == chan[p]
<1>1. /\ IsChannel(c, Nat) /\ n \in Nat /\ q \in Peer /\ q # p /\ Other(q) = p
      /\ \A r \in Peer : r = p \/ r = q
      /\ DOMAIN chan = Peer /\ sent \in [Peer -> Nat]
      /\ chan' = [chan EXCEPT ![p] = AfterSend(c, n)]
      /\ sent' = [sent EXCEPT ![p] = n + 1]
      /\ delivered' = delivered /\ gone' = gone /\ ~gone[p]
      /\ CanSend(c)
  BY Peers DEF IndInv, TypeOK, Send
<1>2. Cardinality(DOMAIN c.unacked) = n - Released(p) /\ Released(p) \in Nat
  <2>1. DOMAIN c.unacked = Slots(Released(p), n)
    BY <1>1 DEF IndInv, StreamOK, InStep
  <2>2. Released(p) \in Int /\ Released(p) <= n /\ n - Released(p) <= SeqMod
        /\ Released(p) \in Nat
    BY <1>1, Counts
  <2>. QED BY <1>1, <2>1, <2>2, SlotsCount
<1>3. n - Released(p) < Window
  BY <1>2, <1>1 DEF CanSend
<1>4. Released(q)' = Released(q)
  BY <1>1 DEF Released, Outstanding
<1>5. Released(p)' = Released(p)
  <2>1. DOMAIN chan'[p].unacked = DOMAIN c.unacked \cup {c.nextSeq}
    BY <1>1, AfterSendFields
  <2>2. InStep(c, chan[q], Released(p), delivered[q], n)
    BY <1>1 DEF IndInv, StreamOK
  <2>3. DOMAIN chan'[p].unacked = Slots(Released(p), n + 1)
    <3>1. Slots(Released(p), n + 1) = Slots(Released(p), n) \cup {n % SeqMod}
      <4>1. Released(p) <= n
        BY Counts
      <4>. QED BY <1>1, <1>2, <4>1 DEF Slots
    <3>. QED BY <2>1, <2>2, <3>1 DEF InStep
  <2>4. Cardinality(Slots(Released(p), n + 1)) = n + 1 - Released(p)
    <3>1. /\ Released(p) \in Int /\ n + 1 \in Int /\ Released(p) <= n + 1
          /\ n + 1 - Released(p) <= SeqMod
      <4>1. /\ Window \in Nat /\ Window <= MaxLag /\ MaxLag \in Nat /\ MaxLag < Half
            /\ Half \in Nat /\ Half + Half = SeqMod /\ Released(p) <= n
        BY Counts
      <4>. QED BY <1>1, <1>2, <1>3, <4>1
    <3>. DEFINE m == n + 1
                a == Released(p)
    <3>. HIDE DEF m, a
    <3>2. /\ a \in Int /\ m \in Int /\ a <= m /\ m - a <= SeqMod
          /\ m - a = n + 1 - Released(p)
      BY <1>1, <1>2, <3>1 DEF m, a
    <3>3. Cardinality(Slots(a, m)) = m - a
      BY <3>2, SlotsCount
    <3>. QED BY <3>2, <3>3 DEF m, a
  <2>. QED BY <1>1, <1>2, <2>3, <2>4 DEF Released, Outstanding
<1>6. Received' = Received /\ Releases' = Releases
  BY <1>1, <1>4, <1>5 DEF Received, Releases
<1>7. Promise!Submit(p)
  BY <1>1, <1>3, <1>6 DEF Promise!Submit, Received, Releases
<1>. QED BY <1>7 DEF Promise!Next

\* A received datagram is an arrival of the abstract channel, or changes nothing
\* of it.
LEMMA ArriveStep ==
    ASSUME IndInv, IndInv', NEW p \in Peer, NEW d \in net, Receive(p, d)
    PROVE  Promise!Next
<1>. DEFINE q == Other(p)
            c == chan[p]
            x == AfterFrame(c, d.frame)
            run == Delivers(c, d.frame)
<1>1. /\ IsChannel(c, Nat) /\ q \in Peer /\ q # p /\ Other(q) = p
      /\ \A r \in Peer : r = p \/ r = q
      /\ DOMAIN chan = Peer /\ delivered \in [Peer -> Seq(Nat)]
      /\ delivered' \in [Peer -> Seq(Nat)]
      /\ chan' = [chan EXCEPT ![p] = x]
      /\ delivered' = [delivered EXCEPT ![p] = @ \o run]
      /\ gone' = gone /\ ~gone[p] /\ sent' = sent
  BY Peers DEF IndInv, TypeOK, Receive
<1>2. DOMAIN x.unacked \subseteq DOMAIN c.unacked
  <2>1. DOMAIN Acknowledged(c, d.frame).unacked \subseteq DOMAIN c.unacked
    <3>1. d.frame.epoch \in Nat
      BY DEF IndInv, TypeOK, Frame
    <3>. QED BY <1>1, <3>1, AcknowledgedFields DEF Retained
  <2>2. /\ \/ x = c
           \/ x = Acknowledged(c, d.frame)
           \/ x = Accepted(Acknowledged(c, d.frame), d.frame)
    <3>1. d.frame.hasPayload \in BOOLEAN
      BY DEF IndInv, TypeOK, Frame
    <3>. QED BY <3>1 DEF AfterFrame
  <2>3. Accepted(Acknowledged(c, d.frame), d.frame).unacked
          = Acknowledged(c, d.frame).unacked
    <3>1. IsChannel(Acknowledged(c, d.frame), Nat)
      <4>1. d.frame.epoch \in Nat
        BY DEF IndInv, TypeOK, Frame
      <4>. QED BY <1>1, <4>1, AcknowledgedFields
    <3>. QED BY <3>1 DEF Accepted, IsChannel
  <2>. QED BY <2>1, <2>2, <2>3
<1>3. /\ Released(p)' \in Released(p) .. Len(delivered[q])
      /\ Released(q)' = Released(q)
  <2>1. Cardinality(DOMAIN x.unacked) <= Cardinality(DOMAIN c.unacked)
        /\ Cardinality(DOMAIN x.unacked) \in Nat /\ Cardinality(DOMAIN c.unacked) \in Nat
    <3>1. IsFiniteSet(DOMAIN c.unacked)
      <4>1. DOMAIN c.unacked = Slots(Released(p), sent[p])
        BY DEF IndInv, StreamOK, InStep
      <4>2. /\ Released(p) \in Int /\ sent[p] \in Int /\ Released(p) <= sent[p]
            /\ sent[p] - Released(p) <= SeqMod
        BY Counts
      <4>. QED BY <4>1, <4>2, SlotsCount
    <3>. QED BY <1>2, <3>1, FS_Subset, FS_CardinalityType
  <2>2. Released(p)' \in 0 .. Len(delivered[q]) /\ sent[p] \in Nat
    <3>1. StreamOK(p, q)' /\ delivered'[q] = delivered[q]
      BY <1>1 DEF IndInv
    <3>. QED BY <3>1, Counts DEF StreamOK, InStep
  <2>. QED BY <1>1, <2>1, <2>2 DEF Released, Outstanding
<1>4. Len(delivered'[p]) \in Len(delivered[p]) .. sent[q]
  <2>1. Len(delivered[p]) <= Len(delivered'[p])
    BY ReceiveStep
  <2>2. InStep(chan'[q], chan'[p], Released(q)', delivered'[p], sent'[q])
    BY <1>1 DEF IndInv, StreamOK
  <2>3. Len(delivered'[p]) <= sent[q]
    BY <1>1, <2>2 DEF InStep
  <2>4. /\ Len(delivered[p]) \in Nat /\ Len(delivered'[p]) \in Nat /\ sent[q] \in Nat
    BY <1>1, Counts
  <2>. QED BY <2>1, <2>3, <2>4
<1>5. delivered'[q] = delivered[q]
  BY <1>1
<1>6. Received' = [Received EXCEPT ![q] = Len(delivered'[p])]
  BY <1>1, <1>5 DEF Received
<1>7. Releases' = [Releases EXCEPT ![p] = Released(p)']
  BY <1>1, <1>3 DEF Releases
<1>8. /\ Received[q] = Len(delivered[p]) /\ Received[p] = Len(delivered[q])
      /\ Releases[p] = Released(p)
  BY <1>1 DEF Received, Releases
<1>9. Promise!Arrive(q, p)
  BY <1>1, <1>3, <1>4, <1>6, <1>7, <1>8 DEF Promise!Arrive, Received, Releases
<1>. QED BY <1>1, <1>9 DEF Promise!Next

\* A timer pass that does not give up is invisible in the abstract channel.
LEMMA TickStutters ==
    ASSUME IndInv, NEW p \in Peer, NEW due \in SUBSET DOMAIN chan[p].unacked,
           Tick(p, due)
    PROVE  UNCHANGED Promise!vars
<1>1. /\ IsChannel(chan[p], Nat) /\ ~GivesUp(chan[p], due)
      /\ DOMAIN chan = Peer
      /\ chan' = [chan EXCEPT ![p] = AfterTick(chan[p], due)]
      /\ sent' = sent /\ delivered' = delivered /\ gone' = gone
  BY DEF IndInv, TypeOK, Tick
<1>2. \A r \in Peer : DOMAIN chan'[r].unacked = DOMAIN chan[r].unacked
  BY <1>1, AfterTickFields
<1>3. Received' = Received /\ Releases' = Releases
  BY <1>1, <1>2 DEF Received, Releases, Released, Outstanding
<1>. QED BY <1>1, <1>3 DEF Promise!vars, Received, Releases

\* PeerGone is the abstract giving up: there is something unreleased.
LEMMA GiveUpStep ==
    ASSUME IndInv, NEW p \in Peer, NEW due \in SUBSET DOMAIN chan[p].unacked,
           GiveUp(p, due)
    PROVE  Promise!Next
<1>1. /\ gone' = [gone EXCEPT ![p] = TRUE] /\ ~gone[p]
      /\ UNCHANGED <<chan, sent, delivered>>
  BY DEF GiveUp
<1>2. Released(p) < sent[p]
  <2>1. Outstanding(p) # {}
    BY DEF GiveUp, GivesUp, Outstanding
  <2>2. Outstanding(p) = Slots(Released(p), sent[p])
    BY DEF IndInv, StreamOK, InStep, Outstanding
  <2>3. Released(p) <= sent[p] /\ Released(p) \in Int /\ sent[p] \in Int
    BY Counts
  <2>4. Released(p) # sent[p]
    BY <2>1, <2>2, <2>3 DEF Slots
  <2>. QED BY <2>3, <2>4
<1>3. Received' = Received /\ Releases' = Releases
  BY <1>1 DEF Received, Releases, Released, Outstanding
<1>4. Promise!GiveUp(p)
  BY <1>1, <1>2, <1>3 DEF Promise!GiveUp, Received, Releases
<1>. QED BY <1>4 DEF Promise!Next

\* Every behaviour of the channel over the lossy network is one of ordered,
\* exactly-once delivery with a bounded number of messages in hand.
THEOREM Refinement == Spec => ImplementsOrderedDelivery
<1>1. Init => Promise!Init
  <2>1. SUFFICES ASSUME Init PROVE Promise!Init
    OBVIOUS
  <2>2. ASSUME NEW p \in Peer PROVE Outstanding(p) = {} /\ Cardinality({}) = 0
    <3>1. Cardinality({}) = 0
      BY FS_EmptySet
    <3>2. Outstanding(p) = {}
      BY <2>1 DEF Init, Outstanding, NewChannel, NoEntries
    <3>. QED BY <3>1, <3>2
  <2>3. \A p \in Peer : Released(p) = 0
    <3>1. \A p \in Peer : sent[p] = 0
      BY <2>1 DEF Init
    <3>. QED BY <2>2, <3>1 DEF Released
  <2>4. \A p \in Peer : Len(delivered[Other(p)]) = 0
    BY <2>1, Peers DEF Init
  <2>. QED BY <2>1, <2>3, <2>4 DEF Init, Promise!Init
<1>2. IndInv /\ IndInv' /\ [Next]_vars => [Promise!Next]_Promise!vars
  <2>1. SUFFICES ASSUME IndInv, IndInv', [Next]_vars
                 PROVE  [Promise!Next]_Promise!vars
    OBVIOUS
  <2>2. ASSUME NEW p \in Peer, Send(p) PROVE Promise!Next
    BY <2>1, <2>2, SubmitStep
  <2>3. ASSUME NEW p \in Peer, NEW d \in net, Receive(p, d) PROVE Promise!Next
    BY <2>1, <2>3, ArriveStep
  <2>4. ASSUME NEW p \in Peer, NEW due \in SUBSET DOMAIN chan[p].unacked, Tick(p, due)
        PROVE  UNCHANGED Promise!vars
    BY <2>1, <2>4, TickStutters
  <2>5. ASSUME NEW p \in Peer, NEW due \in SUBSET DOMAIN chan[p].unacked, GiveUp(p, due)
        PROVE  Promise!Next
    BY <2>1, <2>5, GiveUpStep
  <2>6. CASE UNCHANGED vars
    BY <2>6 DEF vars, Promise!vars, Released, Outstanding
  <2>. QED BY <2>1, <2>2, <2>3, <2>4, <2>5, <2>6 DEF Next, Timer
<1>. QED BY <1>1, <1>2, Invariance, PTL
         DEF Spec, ImplementsOrderedDelivery, Promise!Spec

=============================================================================
