----------------------- MODULE ControlEndpointProofs ------------------------
(***************************************************************************)
(* Proofs about ControlEndpoint, for every number of incarnations, server  *)
(* crashes, sessions, inputs and copies of datagrams.  IndInv relates the  *)
(* server, every incarnation of the client, and what is on the wire: what  *)
(* a datagram says is about the session or the incarnation it was sent     *)
(* from, and of that one it says what was true.  A call of the code is an  *)
(* operator here, and one lemma says what it preserves; its loops are      *)
(* folds, and the lemmas about them instances of LeftFolds.                *)
(***************************************************************************)
EXTENDS ControlEndpoint

\* A server record, the type of its fields apart from its session's, its
\* stream's and what it transmits.
IsServer(s) ==
    s \in [sess : {s.sess}, byAddr : {s.byAddr}, stream : {s.stream}, disconnect : Nat,
           channels : Nat, nonces : Nat, startable : BOOLEAN, out : {s.out}]

IsSession(x) ==
    /\ x \in [addr : Incarnations, key : [client : Nat, server : Nat], nonce : Nat,
              chan : {x.chan}, seen : {x.seen}, pendingOut : Seq({CodecPrivate, Bye})]
    /\ IsChannel(x.chan, Nat)

\* What an offer of the n-th nonce, made to address to in the session of that
\* epoch or a later one, says of the session there is now: while it is that
\* session, and that address's, it has the key made of the nonce.
Agrees(s, to, epoch, n) ==
    /\ n \in 1 .. s.nonces
    /\ epoch \in 1 .. s.channels
    /\ HasSession(s) /\ epoch = s.sess.chan.epoch =>
          /\ to <= s.sess.addr
          /\ to = s.sess.addr => s.sess.key = Derive(to, n)

\* A packet signed with this key and of this number is accepted no more.
UsedUp(s, key, seq) ==
    /\ key # Pairing
    /\ key.server <= s.nonces
    /\ HasSession(s) /\ key = s.sess.key => seq \in s.sess.seen

\* Messages a conversation of the server's may still number: the SessionConfig, the
\* CodecPrivate and the Bye of its one stream.
Budget(s) == IF ~HasStream(s) THEN 3 ELSE IF s.stream.headersSent THEN 2 ELSE 1

\* One conversation: the session is the newest ever made, its peer is the
\* incarnation it sends to, and until that one's Hello is taken nothing has
\* been sent.
SessionOK(s) ==
    LET x == s.sess IN
    /\ IsSession(x)
    /\ x.chan.epoch = s.channels
    /\ s.channels # 0
    /\ x.chan.peerEpoch \in {None, x.addr}
    /\ x.key = Pairing \/ \E n \in 1 .. s.nonces : x.key = Derive(x.addr, n)
    /\ x.nonce \in {0, x.addr}
    /\ x.nonce = 0 => /\ x.key = Pairing /\ ~HasStream(s)
                      /\ x.chan.nextSeq = 0 /\ DOMAIN x.chan.unacked = {}
                      /\ x.pendingOut = << >>
    /\ x.chan.nextSeq + Len(x.pendingOut) <= Budget(s)
    /\ \A i \in DOMAIN x.chan.unacked :
          /\ i < x.chan.nextSeq
          /\ LET m == x.chan.unacked[i].payload IN m > Bye => x.key = Derive(x.addr, m - 1)

StreamOK(s) ==
    /\ s.stream \in [id : 1 .. s.nonces, addr : Nat, headersSent : BOOLEAN, finished : BOOLEAN]
    /\ HasSession(s)
    /\ s.stream.addr = s.sess.addr
    /\ s.sess.key = Derive(s.sess.addr, s.stream.id)
    /\ s.stream.finished => s.stream.id \in ended

\* A datagram to a client.
DownOK(s, d) ==
    /\ d = Control(Server, d.to, d.frame)
    /\ d.to \in Incarnations
    /\ d.frame \in Frame(Nat)
    /\ d.frame.epoch \in 1 .. s.channels
    /\ d.frame.hasPayload => d.frame.payload \in Nat /\ d.frame.seq \in 0 .. 2
    /\ d.frame.payload > Bye => Agrees(s, d.to, d.frame.epoch, d.frame.payload - 1)

Sound(s) ==
    /\ IsServer(s)
    /\ s.byAddr = IF HasSession(s) THEN {s.sess.addr} ELSE {}
    /\ HasSession(s) => SessionOK(s)
    /\ HasStream(s) => StreamOK(s)
    /\ s.disconnect \in 0 .. s.nonces
    /\ s.disconnect # 0 => s.disconnect \in ended
    /\ HasSession(s) /\ s.sess.key # Pairing /\ ~HasStream(s) => s.sess.key.server \in ended
    /\ \A d \in s.out : DownOK(s, d)

\* The Hello is the first message, and is taken when anything is.
HelloFirst(s) == HasSession(s) => (s.sess.nonce = 0 <=> s.sess.chan.ack = None)

\* Once a frame has been taken in, the peer is the incarnation sent to.
PeerKnown(s) == HasSession(s) => s.sess.chan.peerEpoch = s.sess.addr

\* What incarnation e, with next numbers to give out, has put under number i:
\* its Hello, and nothing else, is number 0.
SaidBy(e, next, i, m) ==
    /\ i < next
    /\ m \in Nat
    /\ i = 0 => m = Hello(e)
    /\ i # 0 => m \in {KeepAlive, Bye}

Said(e, i, m) == SaidBy(e, client[e].chan.nextSeq, i, m)

\* A datagram to the server, of incarnation e as it is now, under a key made of
\* one of the nonces there have been.
SentBy(e, c, nonces, d) ==
    \/ /\ d.kind = "control" /\ d = Control(e, Server, d.frame)
       /\ d.frame \in Frame(Nat)
       /\ d.frame.epoch = e
       /\ d.frame.hasPayload => SaidBy(e, c.chan.nextSeq, d.frame.seq, d.frame.payload)
    \/ /\ d.kind = "input" /\ d = Input(e, d.key, d.seq)
       /\ d.key \in [client : Nat, server : Nat] /\ d.seq \in Nat
       /\ d.key # Pairing /\ d.key.server <= nonces

UpOK(d) ==
    /\ d.from \in Incarnations /\ client[d.from] # Absent
    /\ SentBy(d.from, client[d.from], server.nonces, d)

\* Incarnation e, once started, of a server that has come to s.
ClientIs(s, e, c) ==
    /\ c \in [state : {"negotiating", "streaming", "leaving", "gone"}, chan : {c.chan},
              key : {c.key}, csd : BOOLEAN, keepAlives : 0 .. MaxKeepAlives, inputs : Nat]
    /\ IsChannel(c.chan, Nat)
    /\ c.chan.epoch = e
    /\ c.chan.peerEpoch \in {None} \cup 1 .. s.channels
    /\ c.chan.nextSeq # 0
    /\ c.chan.nextSeq <= c.keepAlives + (IF c.state \in {"leaving", "gone"} THEN 2 ELSE 1)
    /\ \A i \in DOMAIN c.chan.unacked :
          SaidBy(e, c.chan.nextSeq, i, c.chan.unacked[i].payload)
    /\ c.chan.ack \in {None} \cup 0 .. 2
    /\ \A i \in DOMAIN c.chan.early :
          /\ i \in 0 .. 2
          /\ c.chan.early[i] > Bye => Agrees(s, e, c.chan.peerEpoch, c.chan.early[i] - 1)
    /\ c.key # Pairing =>
          \E n \in 1 .. s.nonces :
              c.key = Derive(e, n) /\ Agrees(s, e, c.chan.peerEpoch, n)
    /\ c.state \in {"streaming", "leaving"} => c.key # Pairing

\* What the session has of its client's stream is what that client said.
PeerOK(s) ==
    HasSession(s) =>
        LET x == s.sess
            c == client[x.addr]
        IN  /\ c # Absent
            /\ x.chan.ack # None => x.chan.ack < c.chan.nextSeq
            /\ \A i \in DOMAIN x.chan.early : Said(x.addr, i, x.chan.early[i])

AppliedOK ==
    /\ applied \in Seq([key : [client : Nat, server : Nat], seq : Nat])
    /\ \A i \in 1 .. Len(applied) : UsedUp(server, applied[i].key, applied[i].seq)
    /\ InputAppliedOnce

IndInv ==
    /\ DOMAIN client = Incarnations
    /\ \A e \in Incarnations : client[e] # Absent => ClientIs(server, e, client[e])
    /\ Sound(server) /\ HelloFirst(server) /\ PeerKnown(server)
    /\ server.out = {} /\ server.channels <= MaxChannels
    /\ \A d \in net : IF d.to = Server THEN UpOK(d) ELSE DownOK(server, d)
    /\ PeerOK(server)
    /\ AppliedOK

\* From one server record to a later one of the same poll, once what was
\* received has been taken in: the session is the same and has heard the same,
\* or is gone; a key is made only where there was none, of a new nonce.
Leads(s, t) ==
    /\ t.channels = s.channels
    /\ t.nonces \in Nat /\ t.nonces >= s.nonces
    /\ HasSession(t) =>
          /\ HasSession(s)
          /\ t.sess.addr = s.sess.addr
          /\ t.sess.chan.epoch = s.sess.chan.epoch
          /\ t.sess.chan.peerEpoch = s.sess.chan.peerEpoch
          /\ t.sess.chan.ack = s.sess.chan.ack
          /\ t.sess.chan.early = s.sess.chan.early
          /\ \/ t.sess.key = s.sess.key /\ t.sess.seen = s.sess.seen
             \/ /\ s.sess.key = Pairing
                /\ \E n \in s.nonces + 1 .. t.nonces : t.sess.key = Derive(t.sess.addr, n)

-----------------------------------------------------------------------------

\* Nonces and incarnations are numbered from one, so no session key is the
\* pairing key, and it tells the nonce it is made of.
LEMMA Keys ==
    /\ \A e, n \in Nat : Derive(e, n) \in [client : Nat, server : Nat]
    /\ \A e, n : Derive(e, n).server = n /\ Derive(e, n).client = e
    /\ \A e, n \in Nat : n # 0 => Derive(e, n) # Pairing
    /\ \A e, n, m \in Nat : Derive(e, n) = Derive(e, m) => n = m
    /\ Incarnations \subseteq Nat \ {0}
    /\ Server \notin Incarnations
<1>1. /\ \A e, n \in Nat : Derive(e, n) \in [client : Nat, server : Nat]
      /\ \A e, n : Derive(e, n).server = n /\ Derive(e, n).client = e
  BY DEF Derive
<1>2. Pairing.server = 0
  BY <1>1 DEF Pairing
<1>3. \A e, n \in Nat : n # 0 => Derive(e, n) # Pairing
  BY <1>1, <1>2
<1>4. \A e, n, m \in Nat : Derive(e, n) = Derive(e, m) => n = m
  BY <1>1
<1>5. Incarnations \subseteq Nat \ {0} /\ Server \notin Incarnations
  BY EndpointBounds DEF Incarnations, Server
<1>. QED BY <1>1, <1>3, <1>4, <1>5

\* The space has room for the three messages of a conversation of the server's.
LEMMA SpaceForThree == SeqMod \in Nat /\ SeqMod > 3 /\ Window \in Nat \ {0}
BY HalfOfSpace, WindowAssumption, SeqModAssumption

LEMMA LeadsRefl ==
    ASSUME NEW s, s.nonces \in Nat PROVE Leads(s, s)
BY DEF Leads

LEMMA LeadsTrans ==
    ASSUME NEW r, NEW s, NEW t, r.nonces \in Nat, Leads(r, s), Leads(s, t)
    PROVE  Leads(r, t)
<1>1. /\ s.nonces \in Nat /\ s.nonces >= r.nonces /\ t.nonces \in Nat /\ t.nonces >= s.nonces
      /\ t.channels = r.channels
  BY DEF Leads
<1>. SUFFICES ASSUME HasSession(t)
     PROVE  /\ HasSession(r)
            /\ t.sess.addr = r.sess.addr
            /\ t.sess.chan.epoch = r.sess.chan.epoch
            /\ t.sess.chan.peerEpoch = r.sess.chan.peerEpoch
            /\ t.sess.chan.ack = r.sess.chan.ack
            /\ t.sess.chan.early = r.sess.chan.early
            /\ \/ t.sess.key = r.sess.key /\ t.sess.seen = r.sess.seen
               \/ /\ r.sess.key = Pairing
                  /\ \E n \in r.nonces + 1 .. t.nonces : t.sess.key = Derive(t.sess.addr, n)
  BY <1>1 DEF Leads
<1>2. HasSession(s) /\ HasSession(r) /\ t.sess.addr = s.sess.addr /\ s.sess.addr = r.sess.addr
  BY DEF Leads
<1>3. \/ t.sess.key = s.sess.key /\ t.sess.seen = s.sess.seen
      \/ /\ s.sess.key = Pairing
         /\ \E n \in s.nonces + 1 .. t.nonces : t.sess.key = Derive(t.sess.addr, n)
  BY DEF Leads
<1>4. \/ s.sess.key = r.sess.key /\ s.sess.seen = r.sess.seen
      \/ /\ r.sess.key = Pairing
         /\ \E n \in r.nonces + 1 .. s.nonces : s.sess.key = Derive(s.sess.addr, n)
  BY <1>2 DEF Leads
<1>5. \A n : Derive(s.sess.addr, n) = Pairing => n = 0
  BY DEF Pairing, Derive
<1>6. \/ t.sess.key = r.sess.key /\ t.sess.seen = r.sess.seen
      \/ /\ r.sess.key = Pairing
         /\ \E n \in r.nonces + 1 .. t.nonces : t.sess.key = Derive(t.sess.addr, n)
  <2>1. CASE s.sess.key = r.sess.key /\ s.sess.seen = r.sess.seen
    BY <2>1, <1>1, <1>2, <1>3
  <2>2. CASE /\ r.sess.key = Pairing
             /\ \E n \in r.nonces + 1 .. s.nonces : s.sess.key = Derive(s.sess.addr, n)
    <3>1. s.sess.key # Pairing
      BY <2>2, <1>1, <1>5
    <3>. QED BY <2>2, <3>1, <1>1, <1>2, <1>3
  <2>. QED BY <1>4, <2>1, <2>2
<1>. QED BY <1>2, <1>6 DEF Leads

\* What was offered stays true, and what was used up stays so.
LEMMA LeadsAgrees ==
    ASSUME NEW s, NEW t, Leads(s, t), s.nonces \in Nat, NEW to \in Nat, NEW epoch, NEW n,
           Agrees(s, to, epoch, n)
    PROVE  Agrees(t, to, epoch, n)
<1>1. n \in 1 .. t.nonces /\ epoch \in 1 .. t.channels
  BY DEF Agrees, Leads
<1>. SUFFICES ASSUME HasSession(t), epoch = t.sess.chan.epoch
              PROVE  to <= t.sess.addr /\ (to = t.sess.addr => t.sess.key = Derive(to, n))
  BY <1>1 DEF Agrees
<1>2. /\ HasSession(s) /\ t.sess.addr = s.sess.addr /\ epoch = s.sess.chan.epoch
      /\ \/ t.sess.key = s.sess.key
         \/ s.sess.key = Pairing
  BY DEF Leads
<1>3. to <= s.sess.addr /\ (to = s.sess.addr => s.sess.key = Derive(to, n))
  BY <1>2 DEF Agrees
<1>4. n \in Nat /\ n # 0
  BY DEF Agrees
<1>5. Derive(to, n) # Pairing
  BY <1>4, Keys
<1>. QED BY <1>2, <1>3, <1>5

LEMMA LeadsUsedUp ==
    ASSUME NEW s, NEW t, Leads(s, t), s.nonces \in Nat,
           NEW key \in [client : Nat, server : Nat], NEW seq,
           UsedUp(s, key, seq)
    PROVE  UsedUp(t, key, seq)
<1>1. key # Pairing /\ key.server <= t.nonces /\ key.server \in Nat
  BY DEF UsedUp, Leads
<1>. SUFFICES ASSUME HasSession(t), key = t.sess.key PROVE seq \in t.sess.seen
  BY <1>1 DEF UsedUp
<1>2. HasSession(s)
  BY DEF Leads
<1>3. CASE t.sess.key = s.sess.key /\ t.sess.seen = s.sess.seen
  BY <1>2, <1>3 DEF UsedUp
<1>4. CASE \E n \in s.nonces + 1 .. t.nonces : t.sess.key = Derive(t.sess.addr, n)
  <2>1. PICK n \in s.nonces + 1 .. t.nonces : key = Derive(t.sess.addr, n)
    BY <1>4
  <2>2. key.server = n
    BY <2>1, Keys
  <2>3. key.server <= s.nonces
    BY DEF UsedUp
  <2>. QED BY <2>1, <2>2, <2>3 DEF Leads
<1>. QED BY <1>3, <1>4 DEF Leads

\* From one server record to any later one: what was offered stays true, and
\* what was used up stays so.
Preserves(s, t) ==
    /\ s.channels \in Nat /\ t.channels \in Nat /\ s.channels <= t.channels
    /\ s.nonces \in Nat /\ t.nonces \in Nat /\ s.nonces <= t.nonces
    /\ \A to \in Nat : \A epoch, n : Agrees(s, to, epoch, n) => Agrees(t, to, epoch, n)
    /\ \A key \in [client : Nat, server : Nat] :
          \A seq : UsedUp(s, key, seq) => UsedUp(t, key, seq)

LEMMA LeadsPreserves ==
    ASSUME NEW s, NEW t, Leads(s, t), s.nonces \in Nat, s.channels \in Nat
    PROVE  Preserves(s, t)
<1>1. \A to \in Nat : \A epoch, n : Agrees(s, to, epoch, n) => Agrees(t, to, epoch, n)
  BY LeadsAgrees
<1>2. \A key \in [client : Nat, server : Nat] :
         \A seq : UsedUp(s, key, seq) => UsedUp(t, key, seq)
  BY LeadsUsedUp
<1>3. /\ t.channels \in Nat /\ s.channels <= t.channels
      /\ t.nonces \in Nat /\ s.nonces <= t.nonces
  BY DEF Leads
<1>. QED BY <1>1, <1>2, <1>3 DEF Preserves

LEMMA PreservesTrans ==
    ASSUME NEW r, NEW s, NEW t, Preserves(r, s), Preserves(s, t)
    PROVE  Preserves(r, t)
BY DEF Preserves

LEMMA DownStays ==
    ASSUME NEW s, NEW t, Preserves(s, t), NEW d, DownOK(s, d)
    PROVE  DownOK(t, d)
<1>1. d.to \in Nat
  BY Keys DEF DownOK
<1>2. d.frame.epoch \in 1 .. t.channels
  BY DEF DownOK, Preserves
<1>3. d.frame.payload > Bye => Agrees(t, d.to, d.frame.epoch, d.frame.payload - 1)
  BY <1>1 DEF DownOK, Preserves
<1>. QED BY <1>2, <1>3 DEF DownOK

LEMMA LeadsDown ==
    ASSUME NEW s, NEW t, Leads(s, t), s.nonces \in Nat, s.channels \in Nat,
           NEW d, DownOK(s, d)
    PROVE  DownOK(t, d)
BY LeadsPreserves, DownStays

\* The session and the stream there may be are told from their absence.
LEMMA HasOne ==
    /\ \A s : s.sess.addr \in Incarnations => HasSession(s)
    /\ \A s : s.stream.id # 0 => HasStream(s)
BY Keys DEF HasSession, HasStream, NoSession, NoStream, Server

-----------------------------------------------------------------------------
(* One poll, after what was received has been taken in.                    *)

\* What a step of a poll keeps: nothing of the conversation is undone.
Keeps(s, t) ==
    /\ Sound(t)
    /\ Leads(s, t)
    /\ HasSession(t) => t.sess.nonce = s.sess.nonce

LEMMA KeepsRefl == ASSUME NEW s, Sound(s) PROVE Keeps(s, s)
BY LeadsRefl DEF Keeps, Sound, IsServer

LEMMA KeepsTrans ==
    ASSUME NEW r, NEW s, NEW t, Sound(r), Keeps(r, s), Keeps(s, t)
    PROVE  Keeps(r, t)
<1>1. r.nonces \in Nat
  BY DEF Sound, IsServer
<1>2. Leads(r, t)
  BY <1>1, LeadsTrans DEF Keeps
<1>3. HasSession(t) => HasSession(s)
  BY DEF Keeps, Leads
<1>. QED BY <1>2, <1>3 DEF Keeps

\* What a step transmits is the only thing to look at besides what it leaves.
LEMMA SoundLater ==
    ASSUME NEW s, Sound(s), NEW t, Preserves(s, t), IsServer(t),
           t.byAddr = IF HasSession(t) THEN {t.sess.addr} ELSE {},
           HasSession(t) => SessionOK(t),
           HasStream(t) => StreamOK(t),
           t.disconnect \in {0, s.disconnect},
           HasSession(t) /\ t.sess.key # Pairing /\ ~HasStream(t) => t.sess.key.server \in ended,
           \A d \in t.out : d \in s.out \/ DownOK(t, d)
    PROVE  Sound(t)
<1>1. s.nonces \in Nat /\ t.nonces \in Nat /\ s.nonces <= t.nonces
  BY DEF Preserves
<1>2. \A d \in t.out : DownOK(t, d)
  BY <1>1, DownStays DEF Sound
<1>3. /\ t.disconnect \in 0 .. t.nonces
      /\ t.disconnect # 0 => t.disconnect \in ended
  BY <1>1 DEF Sound
<1>. QED BY <1>2, <1>3 DEF Sound

LEMMA SoundAgain ==
    ASSUME NEW s, Sound(s), NEW t, Leads(s, t), IsServer(t),
           t.byAddr = IF HasSession(t) THEN {t.sess.addr} ELSE {},
           HasSession(t) => SessionOK(t),
           HasStream(t) => StreamOK(t),
           t.disconnect \in {0, s.disconnect},
           HasSession(t) /\ t.sess.key # Pairing /\ ~HasStream(t) => t.sess.key.server \in ended,
           \A d \in t.out : d \in s.out \/ DownOK(t, d)
    PROVE  Sound(t)
<1>1. s.nonces \in Nat /\ s.channels \in Nat
  BY DEF Sound, IsServer
<1>2. Preserves(s, t)
  BY <1>1, LeadsPreserves
<1>. QED BY <1>2, SoundLater

LEMMA FlushOneKeeps ==
    ASSUME NEW s, Sound(s), Flushable(s)
    PROVE  Keeps(s, FlushOne(s))
<1>. DEFINE x   == s.sess
            msg == Head(x.pendingOut)
            c   == AfterSend(x.chan, msg)
            p   == Tail(x.pendingOut)
            f   == SendFrame(x.chan, msg)
            y   == [x EXCEPT !.chan = c, !.pendingOut = p]
            d   == Control(Server, x.addr, f)
            o   == s.out \cup {d}
            t   == FlushOne(s)
<1>1. IsServer(s) /\ HasSession(s) /\ SessionOK(s) /\ IsSession(x) /\ x.pendingOut # << >>
  BY DEF Sound, Flushable, SessionOK
<1>2. /\ msg \in {CodecPrivate, Bye} /\ p \in Seq({CodecPrivate, Bye})
      /\ Len(x.pendingOut) \in Nat /\ Len(p) = Len(x.pendingOut) - 1
  BY <1>1 DEF IsSession
<1>3. IsChannel(x.chan, Nat) /\ x.chan.nextSeq \in 0 .. 2
  <2>1. Budget(s) \in 0 .. 3
    BY DEF Budget
  <2>2. x.chan.nextSeq \in Nat /\ IsChannel(x.chan, Nat)
    BY <1>1, SpaceForThree DEF IsSession, IsChannel, SeqNum
  <2>3. Len(p) \in Nat
    BY <1>2
  <2>. QED BY <1>1, <1>2, <2>1, <2>2, <2>3 DEF SessionOK
<1>4. msg \in Nat /\ ~(msg > Bye)
  BY <1>2 DEF CodecPrivate, Bye
<1>5. /\ IsChannel(c, Nat)
      /\ c.nextSeq = x.chan.nextSeq + 1
      /\ c.ack = x.chan.ack /\ c.early = x.chan.early
      /\ c.epoch = x.chan.epoch /\ c.peerEpoch = x.chan.peerEpoch
      /\ DOMAIN c.unacked = DOMAIN x.chan.unacked \cup {x.chan.nextSeq}
      /\ \A i \in DOMAIN x.chan.unacked :
            i # x.chan.nextSeq => c.unacked[i] = x.chan.unacked[i]
      /\ c.unacked[x.chan.nextSeq].payload = msg
  <2>1. NextSeq(x.chan.nextSeq) = x.chan.nextSeq + 1
    BY <1>3, SpaceForThree DEF NextSeq, Plus
  <2>. QED BY <1>3, <1>4, <2>1, AfterSendFields
<1>6. /\ f \in Frame(Nat) /\ f.epoch = x.chan.epoch
      /\ f.payload = msg /\ f.seq = x.chan.nextSeq
  BY <1>3, <1>4, SpaceForThree DEF SendFrame, DataFrame, Frame, WireAck, IsChannel, SeqNum
<1>. HIDE DEF c, p, f, msg
<1>7. /\ y.addr = x.addr /\ y.key = x.key /\ y.nonce = x.nonce /\ y.chan = c
      /\ y.seen = x.seen /\ y.pendingOut = p
      /\ IsSession(y)
  BY <1>1, <1>2, <1>5 DEF IsSession
<1>8. t = [s EXCEPT !.sess = y, !.out = o]
  BY <1>1 DEF FlushOne, Transmit, IsServer, c, p, f, msg
<1>. HIDE DEF y, o, d, t
<1>9. /\ IsServer(t) /\ t.sess = y /\ t.byAddr = s.byAddr /\ t.stream = s.stream
      /\ t.disconnect = s.disconnect /\ t.channels = s.channels /\ t.nonces = s.nonces
      /\ t.out = o
  BY <1>1, <1>8 DEF IsServer
<1>10. HasSession(t) /\ (HasStream(t) <=> HasStream(s)) /\ Budget(t) = Budget(s)
  BY <1>1, <1>7, <1>9, HasOne DEF HasStream, Budget, IsSession
<1>11. Leads(s, t)
  BY <1>1, <1>5, <1>7, <1>9 DEF Leads, IsServer
<1>12. SessionOK(t)
  <2>1. x.nonce # 0
    BY <1>1 DEF SessionOK
  <2>2. c.nextSeq + Len(p) <= Budget(t)
    BY <1>1, <1>2, <1>3, <1>5, <1>10 DEF SessionOK
  <2>3. \A i \in DOMAIN c.unacked :
          /\ i < c.nextSeq
          /\ c.unacked[i].payload > Bye => x.key = Derive(x.addr, c.unacked[i].payload - 1)
    <3>1. \A i \in DOMAIN x.chan.unacked : i \in Nat /\ i < x.chan.nextSeq
      BY <1>1, SpaceForThree DEF SessionOK, IsSession, IsChannel, IsEntries, SeqNum
    <3>. QED BY <1>1, <1>3, <1>4, <1>5, <3>1 DEF SessionOK
  <2>. QED BY <1>1, <1>5, <1>7, <1>9, <2>1, <2>2, <2>3 DEF SessionOK
<1>13. HasStream(t) => StreamOK(t)
  BY <1>7, <1>9, <1>10 DEF StreamOK, Sound
<1>14. DownOK(t, d)
  BY <1>1, <1>3, <1>4, <1>6, <1>9, Keys DEF DownOK, SessionOK, IsSession, Control, d, IsServer
<1>15. Sound(t)
  <2>1. t.byAddr = IF HasSession(t) THEN {t.sess.addr} ELSE {}
    BY <1>1, <1>7, <1>9, <1>10 DEF Sound
  <2>2. HasSession(t) /\ t.sess.key # Pairing /\ ~HasStream(t) => t.sess.key.server \in ended
    BY <1>1, <1>7, <1>9, <1>10 DEF Sound
  <2>3. \A e \in t.out : e \in s.out \/ DownOK(t, e)
    BY <1>9, <1>14 DEF o
  <2>. QED BY <1>9, <1>11, <1>12, <1>13, <2>1, <2>2, <2>3, SoundAgain
<1>. QED BY <1>7, <1>9, <1>11, <1>15 DEF Keeps, t

\* flush_control's loop, as FoldKeeps sees it.
FlushStep(s, t, i) == IF Flushable(t) THEN FlushOne(t) ELSE t
KeepsSoFar(s, i, t) == Sound(s) /\ Keeps(s, t)

Flushes == INSTANCE LeftFolds WITH Step <- FlushStep, Good <- KeepsSoFar

LEMMA FlushKeeps == ASSUME NEW s, Sound(s) PROVE Keeps(s, Flush(s))
<1>. DEFINE q == [i \in 1 .. Window |-> i]
<1>1. q \in Seq(Nat)
  BY SpaceForThree
<1>2. Flush(s) = Flushes!Fold(s, s, q)
  BY Zenon DEF Flush, FlushStep, Flushes!Fold, SX!FoldLeft, Flushes!SX!FoldLeft,
     SX!MapThenFoldSet, Flushes!SX!MapThenFoldSet, SX!Max, Flushes!SX!Max
<1>. HIDE DEF q
<1>3. KeepsSoFar(s, 0, s)
  BY KeepsRefl DEF KeepsSoFar
<1>4. ASSUME NEW i \in 1 .. Len(q), NEW t, KeepsSoFar(s, i - 1, t)
      PROVE  KeepsSoFar(s, i, FlushStep(s, t, q[i]))
  <2>1. Sound(s) /\ Sound(t) /\ Keeps(s, t)
    BY <1>4 DEF KeepsSoFar, Keeps
  <2>2. CASE Flushable(t)
    BY <2>1, <2>2, FlushOneKeeps, KeepsTrans DEF KeepsSoFar, FlushStep
  <2>3. CASE ~Flushable(t)
    BY <2>1, <2>3 DEF KeepsSoFar, FlushStep
  <2>. QED BY <2>2, <2>3
<1>5. KeepsSoFar(s, Len(q), Flushes!Fold(s, s, q))
  BY <1>1, <1>3, <1>4, Flushes!FoldKeeps
<1>. QED BY <1>2, <1>5 DEF KeepsSoFar

\* The session there is, with another channel record and queue of the same
\* conversation, and what that transmits.
Changed(s, c, p, o) ==
    [s EXCEPT !.sess = [s.sess EXCEPT !.chan = c, !.pendingOut = p], !.out = o]

LEMMA ChangedSound ==
    ASSUME NEW s, Sound(s), HasSession(s),
           NEW c, IsChannel(c, Nat), NEW p \in Seq({CodecPrivate, Bye}), NEW o,
           c.epoch = s.sess.chan.epoch, c.peerEpoch \in {None, s.sess.addr},
           s.sess.nonce = 0 => c.nextSeq = 0 /\ DOMAIN c.unacked = {} /\ p = << >>,
           c.nextSeq + Len(p) <= Budget(s),
           \A i \in DOMAIN c.unacked :
              /\ i < c.nextSeq
              /\ LET m == c.unacked[i].payload
                 IN m > Bye => s.sess.key = Derive(s.sess.addr, m - 1),
           \A d \in o : d \in s.out \/ DownOK(s, d)
    PROVE  LET t == Changed(s, c, p, o) IN
           /\ Sound(t) /\ Preserves(s, t) /\ HasSession(t)
           /\ t.channels = s.channels /\ t.nonces = s.nonces
           /\ t.sess.addr = s.sess.addr /\ t.sess.nonce = s.sess.nonce /\ t.sess.chan = c
           /\ t.sess.key = s.sess.key /\ t.sess.seen = s.sess.seen
<1>. DEFINE x == s.sess
            y == [x EXCEPT !.chan = c, !.pendingOut = p]
            t == Changed(s, c, p, o)
<1>1. IsServer(s) /\ SessionOK(s) /\ IsSession(x)
  BY DEF Sound, SessionOK
<1>2. /\ y.addr = x.addr /\ y.key = x.key /\ y.nonce = x.nonce /\ y.chan = c
      /\ y.seen = x.seen /\ y.pendingOut = p
      /\ IsSession(y)
  BY <1>1 DEF IsSession
<1>3. t = [s EXCEPT !.sess = y, !.out = o]
  BY DEF Changed
<1>. HIDE DEF y, t
<1>4. /\ IsServer(t) /\ t.sess = y /\ t.byAddr = s.byAddr /\ t.stream = s.stream
      /\ t.disconnect = s.disconnect /\ t.channels = s.channels /\ t.nonces = s.nonces
      /\ t.out = o
  BY <1>1, <1>3 DEF IsServer
<1>5. HasSession(t) /\ (HasStream(t) <=> HasStream(s)) /\ Budget(t) = Budget(s)
  BY <1>1, <1>2, <1>4, HasOne DEF HasStream, Budget, IsSession
<1>6. Preserves(s, t)
  <2>1. \A to \in Nat : \A epoch, n : Agrees(s, to, epoch, n) => Agrees(t, to, epoch, n)
    BY <1>2, <1>4, <1>5 DEF Agrees
  <2>2. \A key \in [client : Nat, server : Nat] :
           \A seq : UsedUp(s, key, seq) => UsedUp(t, key, seq)
    BY <1>2, <1>4, <1>5 DEF UsedUp
  <2>. QED BY <1>1, <1>4, <2>1, <2>2 DEF Preserves, IsServer
<1>7. SessionOK(t)
  BY <1>1, <1>2, <1>4, <1>5 DEF SessionOK
<1>8. HasStream(t) => StreamOK(t)
  BY <1>2, <1>4, <1>5 DEF StreamOK, Sound
<1>9. Sound(t)
  <2>1. t.byAddr = IF HasSession(t) THEN {t.sess.addr} ELSE {}
    BY <1>2, <1>4, <1>5 DEF Sound
  <2>2. HasSession(t) /\ t.sess.key # Pairing /\ ~HasStream(t) => t.sess.key.server \in ended
    BY <1>2, <1>4, <1>5 DEF Sound
  <2>3. \A d \in t.out : d \in s.out \/ DownOK(t, d)
    BY <1>4, <1>6, DownStays
  <2>. QED BY <1>4, <1>6, <1>7, <1>8, <2>1, <2>2, <2>3, SoundLater
<1>. QED BY <1>2, <1>4, <1>5, <1>6, <1>9 DEF t

LEMMA ChangedKeeps ==
    ASSUME NEW s, Sound(s), HasSession(s),
           NEW c, IsChannel(c, Nat), NEW p \in Seq({CodecPrivate, Bye}), NEW o,
           c.ack = s.sess.chan.ack, c.early = s.sess.chan.early,
           c.epoch = s.sess.chan.epoch, c.peerEpoch = s.sess.chan.peerEpoch,
           s.sess.nonce = 0 => c.nextSeq = 0 /\ DOMAIN c.unacked = {} /\ p = << >>,
           c.nextSeq + Len(p) <= Budget(s),
           \A i \in DOMAIN c.unacked :
              /\ i < c.nextSeq
              /\ LET m == c.unacked[i].payload
                 IN m > Bye => s.sess.key = Derive(s.sess.addr, m - 1),
           \A d \in o : d \in s.out \/ DownOK(s, d)
    PROVE  Keeps(s, Changed(s, c, p, o))
<1>. DEFINE t == Changed(s, c, p, o)
<1>1. s.nonces \in Nat /\ c.peerEpoch \in {None, s.sess.addr}
  BY DEF Sound, IsServer, SessionOK
<1>2. /\ Sound(t) /\ HasSession(t)
      /\ t.channels = s.channels /\ t.nonces = s.nonces
      /\ t.sess.addr = s.sess.addr /\ t.sess.nonce = s.sess.nonce /\ t.sess.chan = c
      /\ t.sess.key = s.sess.key /\ t.sess.seen = s.sess.seen
  BY <1>1, ChangedSound
<1>. HIDE DEF t
<1>3. Leads(s, t)
  BY <1>1, <1>2 DEF Leads
<1>. QED BY <1>2, <1>3 DEF Keeps, t

\* send_to_client, of a message the conversation still has a number for.
LEMMA QueueKeeps ==
    ASSUME NEW s, Sound(s), NEW msg \in {CodecPrivate, Bye},
           HasSession(s) => /\ s.sess.nonce # 0
                            /\ s.sess.chan.nextSeq + Len(s.sess.pendingOut) < Budget(s)
    PROVE  Keeps(s, Queue(s, msg))
<1>1. CASE ~HasSession(s)
  BY <1>1, KeepsRefl DEF Queue
<1>2. CASE HasSession(s)
  <2>. DEFINE x == s.sess
              p == Append(x.pendingOut, msg)
              t == Changed(s, x.chan, p, s.out)
  <2>1. IsServer(s) /\ SessionOK(s) /\ IsSession(x)
    BY <1>2 DEF Sound, SessionOK
  <2>2. /\ p \in Seq({CodecPrivate, Bye}) /\ Len(x.pendingOut) \in Nat
        /\ Len(p) = Len(x.pendingOut) + 1
    BY <2>1 DEF IsSession
  <2>3. IsChannel(x.chan, Nat) /\ x.chan.nextSeq \in Nat /\ Budget(s) \in Nat
    BY <2>1, SpaceForThree DEF IsSession, IsChannel, SeqNum, Budget
  <2>4. x.chan.nextSeq + Len(p) <= Budget(s)
    BY <1>2, <2>2, <2>3
  <2>5. [s EXCEPT !.sess.pendingOut = p] = t
    BY <2>1 DEF Changed, IsServer, IsSession
  <2>. HIDE DEF p
  <2>6. Keeps(s, t)
    BY <1>2, <2>1, <2>2, <2>3, <2>4, ChangedKeeps DEF SessionOK
  <2>7. Queue(s, msg) = Flush(t)
    BY <1>2, <2>5 DEF Queue, p
  <2>8. Sound(t)
    BY <2>6 DEF Keeps
  <2>. HIDE DEF t
  <2>. QED BY <2>6, <2>7, <2>8, FlushKeeps, KeepsTrans
<1>. QED BY <1>1, <1>2

\* Endpoint::forget leaves neither session nor stream.
LEMMA ForgetKeeps ==
    ASSUME NEW s, Sound(s)
    PROVE  /\ Keeps(s, Forget(s))
           /\ ~HasSession(Forget(s))
<1>. DEFINE t == Forget(s)
<1>1. IsServer(s) /\ (HasStream(s) => HasSession(s))
  BY DEF Sound, StreamOK
<1>2. /\ IsServer(t) /\ t.sess = NoSession /\ t.stream = NoStream /\ t.byAddr = {}
      /\ t.disconnect = s.disconnect /\ t.channels = s.channels /\ t.nonces = s.nonces
      /\ t.out = s.out
  <2>1. CASE HasSession(s)
    <3>1. t = [s EXCEPT !.stream = NoStream, !.byAddr = @ \ {s.sess.addr}, !.sess = NoSession]
      BY <1>1, <2>1 DEF Forget, StopStream, IsServer
    <3>2. s.byAddr = {s.sess.addr}
      BY <2>1 DEF Sound
    <3>. QED BY <1>1, <3>1, <3>2 DEF IsServer
  <2>2. CASE ~HasSession(s)
    <3>1. t = [s EXCEPT !.stream = NoStream] /\ s.sess = NoSession /\ s.byAddr = {}
      BY <2>2 DEF Forget, StopStream, HasSession, Sound
    <3>. QED BY <1>1, <3>1 DEF IsServer
  <2>. QED BY <2>1, <2>2
<1>. HIDE DEF t
<1>3. ~HasSession(t) /\ ~HasStream(t)
  BY <1>2 DEF HasSession, HasStream
<1>4. Leads(s, t)
  BY <1>1, <1>2, <1>3 DEF Leads, IsServer
<1>5. Sound(t)
  BY <1>2, <1>3, <1>4, SoundAgain
<1>. QED BY <1>3, <1>4, <1>5 DEF Keeps, t

\* What the session transmits to its client, in its own epoch.
LEMMA SessionsFrame ==
    ASSUME NEW s, Sound(s), HasSession(s), NEW f \in Frame(Nat),
           f.epoch = s.sess.chan.epoch,
           f.hasPayload => f.payload \in Nat /\ f.seq \in 0 .. 2,
           f.payload > Bye => s.sess.key = Derive(s.sess.addr, f.payload - 1)
    PROVE  DownOK(s, Control(Server, s.sess.addr, f))
<1>. DEFINE d == Control(Server, s.sess.addr, f)
<1>1. /\ IsServer(s) /\ SessionOK(s) /\ IsSession(s.sess)
      /\ s.sess.addr \in Incarnations /\ s.sess.addr \in Nat
  BY Keys DEF Sound, SessionOK, IsSession
<1>2. d.to = s.sess.addr /\ d.frame = f /\ d = Control(Server, d.to, d.frame)
  BY DEF Control
<1>3. f.epoch \in 1 .. s.channels
  BY <1>1 DEF SessionOK, IsServer
<1>4. ASSUME f.payload > Bye
      PROVE  Agrees(s, s.sess.addr, f.epoch, f.payload - 1)
  <2>1. s.sess.key = Derive(s.sess.addr, f.payload - 1) /\ f.payload \in Nat
    BY <1>4 DEF Frame, Bye, None
  <2>2. f.payload - 1 \in Nat /\ f.payload - 1 # 0
    BY <1>4, <2>1 DEF Bye
  <2>3. PICK n \in 1 .. s.nonces : s.sess.key = Derive(s.sess.addr, n)
    <3>1. s.sess.key # Pairing
      BY <1>1, <2>1, <2>2, Keys
    <3>. QED BY <1>1, <3>1 DEF SessionOK
  <2>4. n \in Nat /\ n = f.payload - 1
    BY <1>1, <2>1, <2>2, <2>3, Keys DEF IsServer
  <2>. QED BY <1>1, <1>3, <2>1, <2>3, <2>4 DEF Agrees
<1>. HIDE DEF d
<1>. QED BY <1>1, <1>2, <1>3, <1>4 DEF DownOK, d

\* drain_outbound: a Bye, or the codec headers, is queued at most once in a
\* conversation that has room for it.
LEMMA DrainedKeeps ==
    ASSUME NEW s, Sound(s), NEW headersReady
    PROVE  Keeps(s, Drained(s, headersReady))
<1>. DEFINE taken == [s EXCEPT !.disconnect = 0]
            stopped == StopStream(taken)
            sent == [taken EXCEPT !.stream.headersSent = TRUE]
            x == s.sess
<1>1. IsServer(s) /\ s.nonces \in Nat
  BY DEF Sound, IsServer
<1>2. /\ IsServer(taken) /\ taken.sess = x /\ taken.byAddr = s.byAddr
      /\ taken.stream = s.stream /\ taken.disconnect = 0 /\ taken.channels = s.channels
      /\ taken.nonces = s.nonces /\ taken.out = s.out
  BY <1>1 DEF IsServer
<1>. HIDE DEF taken
<1>3. /\ HasSession(taken) <=> HasSession(s)
      /\ HasStream(taken) <=> HasStream(s)
      /\ Budget(taken) = Budget(s)
  BY <1>2 DEF HasSession, HasStream, Budget
<1>4. Keeps(s, taken)
  <2>1. Leads(s, taken)
    BY <1>1, <1>2, <1>3 DEF Leads
  <2>2. HasSession(taken) => SessionOK(taken)
    BY <1>2, <1>3 DEF Sound, SessionOK
  <2>3. HasStream(taken) => StreamOK(taken)
    BY <1>2, <1>3 DEF Sound, StreamOK
  <2>4. taken.byAddr = IF HasSession(taken) THEN {taken.sess.addr} ELSE {}
    BY <1>2, <1>3 DEF Sound
  <2>5. HasSession(taken) /\ taken.sess.key # Pairing /\ ~HasStream(taken) =>
          taken.sess.key.server \in ended
    BY <1>2, <1>3 DEF Sound
  <2>6. Sound(taken)
    BY <1>2, <2>1, <2>2, <2>3, <2>4, <2>5, SoundAgain
  <2>. QED BY <1>2, <2>1, <2>6 DEF Keeps
<1>5. Sound(taken)
  BY <1>4 DEF Keeps
<1>6. ASSUME HasStream(s)
      PROVE  /\ StreamOK(s) /\ HasSession(s) /\ SessionOK(s) /\ x.nonce # 0
             /\ x.chan.nextSeq + Len(x.pendingOut) \in Nat
             /\ s.stream.headersSent \in BOOLEAN
             /\ x.chan.nextSeq + Len(x.pendingOut) <= IF s.stream.headersSent THEN 2 ELSE 1
  <2>1. StreamOK(s) /\ HasSession(s) /\ SessionOK(s)
    BY <1>6 DEF Sound, StreamOK
  <2>2. x.chan.nextSeq \in Nat /\ Len(x.pendingOut) \in Nat
    BY <2>1, SpaceForThree DEF SessionOK, IsSession, IsChannel, SeqNum
  <2>. QED BY <1>6, <2>1, <2>2 DEF SessionOK, Budget, StreamOK
<1>7. CASE HasStream(s) /\ (DisconnectsNow(s) \/ s.stream.finished)
  <2>1. /\ IsServer(stopped) /\ stopped.sess = x /\ stopped.byAddr = s.byAddr
        /\ stopped.stream = NoStream /\ stopped.disconnect = 0
        /\ stopped.channels = s.channels /\ stopped.nonces = s.nonces /\ stopped.out = s.out
    BY <1>2 DEF StopStream, IsServer
  <2>. HIDE DEF stopped
  <2>2. HasSession(stopped) /\ ~HasStream(stopped) /\ Budget(stopped) = 3
    BY <1>6, <1>7, <2>1 DEF HasSession, HasStream, Budget
  <2>3. Leads(taken, stopped)
    BY <1>1, <1>2, <1>3, <2>1, <2>2 DEF Leads, HasSession
  <2>4. SessionOK(stopped)
    BY <1>6, <1>7, <2>1, <2>2 DEF SessionOK
  <2>5. stopped.sess.key.server \in ended
    <3>1. s.stream.id \in ended
      <4>1. CASE DisconnectsNow(s)
        BY <1>6, <1>7, <4>1 DEF Sound, DisconnectsNow, StreamOK
      <4>2. CASE s.stream.finished
        BY <1>6, <1>7, <4>2 DEF StreamOK
      <4>. QED BY <1>7, <4>1, <4>2
    <3>2. stopped.sess.key = Derive(x.addr, s.stream.id)
      BY <1>6, <1>7, <2>1 DEF StreamOK
    <3>. QED BY <3>1, <3>2, Keys
  <2>6. stopped.byAddr = IF HasSession(stopped) THEN {stopped.sess.addr} ELSE {}
    BY <1>6, <1>7, <2>1, <2>2 DEF Sound
  <2>7. Sound(stopped)
    BY <1>2, <1>5, <2>1, <2>2, <2>3, <2>4, <2>5, <2>6, SoundAgain
  <2>8. Keeps(taken, stopped)
    BY <1>2, <2>1, <2>3, <2>7 DEF Keeps
  <2>9. Keeps(stopped, Queue(stopped, Bye))
    BY <1>6, <1>7, <2>1, <2>2, <2>7, QueueKeeps
  <2>10. Drained(s, headersReady) = Queue(stopped, Bye)
    BY <1>7, Zenon DEF Drained, stopped, taken
  <2>. QED BY <1>4, <1>5, <2>7, <2>8, <2>9, <2>10, KeepsTrans
<1>8. CASE /\ HasStream(s) /\ ~DisconnectsNow(s) /\ ~s.stream.finished
           /\ headersReady /\ ~s.stream.headersSent
  <2>. DEFINE v == [s.stream EXCEPT !.headersSent = TRUE]
  <2>1. /\ v \in [id : 1 .. s.nonces, addr : Nat, headersSent : BOOLEAN, finished : BOOLEAN]
        /\ v.id = s.stream.id /\ v.addr = s.stream.addr /\ v.headersSent
        /\ v.finished = s.stream.finished
    BY <1>6, <1>8 DEF StreamOK
  <2>2. sent = [taken EXCEPT !.stream = v]
    BY <1>2
  <2>. HIDE DEF v
  <2>3. /\ IsServer(sent) /\ sent.sess = x /\ sent.byAddr = s.byAddr
        /\ sent.stream = v /\ sent.disconnect = 0
        /\ sent.channels = s.channels /\ sent.nonces = s.nonces /\ sent.out = s.out
    BY <1>2, <2>2 DEF IsServer
  <2>. HIDE DEF sent
  <2>4. HasSession(sent) /\ HasStream(sent) /\ Budget(sent) = 2
    BY <1>1, <1>6, <1>8, <2>1, <2>3, HasOne DEF HasSession, Budget
  <2>5. Leads(taken, sent)
    BY <1>1, <1>2, <1>3, <2>3, <2>4 DEF Leads, HasSession
  <2>6. SessionOK(sent)
    BY <1>6, <1>8, <2>3, <2>4 DEF SessionOK
  <2>7. StreamOK(sent)
    BY <1>6, <1>8, <2>1, <2>3, <2>4 DEF StreamOK
  <2>8. sent.byAddr = IF HasSession(sent) THEN {sent.sess.addr} ELSE {}
    BY <1>6, <1>8, <2>3, <2>4 DEF Sound
  <2>9. Sound(sent)
    BY <1>2, <1>5, <2>3, <2>4, <2>5, <2>6, <2>7, <2>8, SoundAgain
  <2>10. Keeps(taken, sent)
    BY <1>2, <2>3, <2>5, <2>9 DEF Keeps
  <2>11. Keeps(sent, Queue(sent, CodecPrivate))
    BY <1>6, <1>8, <2>3, <2>4, <2>9, QueueKeeps
  <2>12. Drained(s, headersReady) = Queue(sent, CodecPrivate)
    BY <1>8, Zenon DEF Drained, sent, taken
  <2>. QED BY <1>4, <1>5, <2>9, <2>10, <2>11, <2>12, KeepsTrans
<1>9. CASE /\ ~(HasStream(s) /\ (DisconnectsNow(s) \/ s.stream.finished))
           /\ ~(/\ HasStream(s) /\ ~DisconnectsNow(s) /\ ~s.stream.finished
                /\ headersReady /\ ~s.stream.headersSent)
  <2>1. Drained(s, headersReady) = taken
    BY <1>9, Zenon DEF Drained, taken
  <2>. QED BY <1>4, <2>1
<1>. QED BY <1>7, <1>8, <1>9

\* Endpoint::tick
LEMMA TickedKeeps ==
    ASSUME NEW s, Sound(s), NEW due, HasSession(s) => due \subseteq DOMAIN s.sess.chan.unacked,
           NEW idle
    PROVE  Keeps(s, Ticked(s, due, idle))
<1>1. CASE ~HasSession(s)
  <2>1. Ticked(s, due, idle) = s
    BY <1>1, Zenon DEF Ticked
  <2>. QED BY <2>1, KeepsRefl
<1>2. CASE HasSession(s) /\ (idle \/ GivesUp(s.sess.chan, due))
  <2>1. Ticked(s, due, idle) = Forget(Flush(s))
    BY <1>2, Zenon DEF Ticked
  <2>2. Keeps(s, Flush(s)) /\ Sound(Flush(s))
    BY FlushKeeps DEF Keeps
  <2>. QED BY <2>1, <2>2, ForgetKeeps, KeepsTrans
<1>3. CASE HasSession(s) /\ ~idle /\ ~GivesUp(s.sess.chan, due)
  <2>. DEFINE x == s.sess
              c == AfterTick(x.chan, due)
              frames == TickFrames(x.chan, due)
              o == s.out \cup {Control(Server, x.addr, f) : f \in frames}
              t == Changed(s, c, x.pendingOut, o)
  <2>1. IsServer(s) /\ SessionOK(s) /\ IsSession(x) /\ IsChannel(x.chan, Nat)
    BY <1>3 DEF Sound, SessionOK, IsSession
  <2>2. /\ IsChannel(c, Nat)
        /\ c.nextSeq = x.chan.nextSeq
        /\ c.ack = x.chan.ack /\ c.early = x.chan.early
        /\ c.epoch = x.chan.epoch /\ c.peerEpoch = x.chan.peerEpoch
        /\ DOMAIN c.unacked = DOMAIN x.chan.unacked
        /\ \A i \in DOMAIN x.chan.unacked : c.unacked[i].payload = x.chan.unacked[i].payload
    BY <1>3, <2>1, AfterTickFields
  <2>3. ASSUME NEW f \in frames
        PROVE  DownOK(s, Control(Server, x.addr, f))
    <3>1. /\ x.chan.nextSeq \in Nat /\ x.chan.nextSeq <= 3
          /\ x.chan.epoch \in Nat /\ WireAck(x.chan) \in SeqNum /\ x.chan.nextSeq \in SeqNum
      <4>1. /\ x.chan.nextSeq \in Nat /\ x.chan.epoch \in Nat /\ WireAck(x.chan) \in SeqNum
            /\ x.chan.nextSeq \in SeqNum
        BY <2>1, SpaceForThree DEF IsChannel, SeqNum, WireAck
      <4>2. Budget(s) \in 0 .. 3 /\ Len(x.pendingOut) \in Nat
        BY <2>1 DEF Budget, IsSession
      <4>. QED BY <2>1, <4>1, <4>2 DEF SessionOK
    <3>2. CASE f \in {DataFrame(x.chan, i, x.chan.unacked[i].payload) : i \in due}
      <4>1. PICK i \in due : f = DataFrame(x.chan, i, x.chan.unacked[i].payload)
        BY <3>2
      <4>2. i \in DOMAIN x.chan.unacked /\ i \in SeqNum /\ x.chan.unacked[i].payload \in Nat
        BY <1>3, <2>1 DEF IsChannel, IsEntries
      <4>3. i \in 0 .. 2
        BY <2>1, <3>1, <4>2, SpaceForThree DEF SessionOK, SeqNum
      <4>4. /\ f \in Frame(Nat) /\ f.epoch = x.chan.epoch /\ f.seq = i
            /\ f.payload = x.chan.unacked[i].payload
        BY <3>1, <4>1, <4>2 DEF DataFrame, Frame
      <4>5. f.payload > Bye => x.key = Derive(x.addr, f.payload - 1)
        BY <2>1, <4>2, <4>4 DEF SessionOK
      <4>. QED BY <1>3, <4>2, <4>3, <4>4, <4>5, SessionsFrame
    <3>3. CASE f = BareAck(x.chan)
      <4>1. /\ f \in Frame(Nat) /\ f.epoch = x.chan.epoch /\ ~f.hasPayload
            /\ ~(f.payload > Bye)
        BY <3>1, <3>3 DEF BareAck, Frame, None, Bye
      <4>. QED BY <1>3, <4>1, SessionsFrame
    <3>. QED BY <3>2, <3>3 DEF TickFrames
  <2>4. [Transmit(s, x.addr, frames) EXCEPT !.sess.chan = AfterTick(@, due)] = t
    BY <2>1 DEF Transmit, Changed, IsServer, IsSession
  <2>5. Ticked(s, due, idle) = Flush(t)
    <3>1. Ticked(s, due, idle) =
             Flush([Transmit(s, s.sess.addr, TickFrames(s.sess.chan, due))
                     EXCEPT !.sess.chan = AfterTick(@, due)])
      BY <1>3, Zenon DEF Ticked
    <3>. QED BY <2>4, <3>1
  <2>6. \A d \in o : d \in s.out \/ DownOK(s, d)
    BY <2>3
  <2>. HIDE DEF c, o
  <2>7. Keeps(s, t)
    <3>1. x.pendingOut \in Seq({CodecPrivate, Bye})
      BY <2>1 DEF IsSession
    <3>. QED BY <1>3, <2>1, <2>2, <2>6, <3>1, ChangedKeeps DEF SessionOK
  <2>. HIDE DEF t
  <2>. QED BY <2>5, <2>7, FlushKeeps, KeepsTrans DEF Keeps
<1>. QED BY <1>1, <1>2, <1>3

-----------------------------------------------------------------------------
(* What was received.                                                      *)

\* The first message of an incarnation that is heard: its nonce, and the only
\* offer its conversation will have.
LEMMA OnHelloKeeps ==
    ASSUME NEW s, Sound(s), HasSession(s), s.sess.nonce = 0
    PROVE  LET t == OnHello(s, s.sess.addr) IN
           /\ Sound(t) /\ Leads(s, t)
           /\ HasSession(t) => t.sess.nonce # 0
<1>. DEFINE x == s.sess
            e == s.sess.addr
            t == OnHello(s, e)
            named == [s EXCEPT !.sess.nonce = e]
            y == [x EXCEPT !.nonce = e]
<1>1. /\ IsServer(s) /\ SessionOK(s) /\ IsSession(x) /\ IsChannel(x.chan, Nat)
      /\ x.key = Pairing /\ ~HasStream(s) /\ x.chan.nextSeq = 0
      /\ DOMAIN x.chan.unacked = {} /\ x.pendingOut = << >>
      /\ e \in Incarnations /\ e \in Nat /\ e # 0
      /\ s.nonces \in Nat /\ s.byAddr = {e} /\ s.stream = NoStream
  BY Keys DEF Sound, SessionOK, IsSession, IsServer, HasStream
<1>2. /\ y.addr = e /\ y.key = x.key /\ y.nonce = e /\ y.chan = x.chan /\ y.seen = x.seen
      /\ y.pendingOut = x.pendingOut /\ IsSession(y)
  BY <1>1 DEF IsSession
<1>3. named = [s EXCEPT !.sess = y]
  BY <1>1 DEF IsServer, IsSession
<1>. HIDE DEF y, named
<1>4. /\ IsServer(named) /\ named.sess = y /\ named.byAddr = s.byAddr
      /\ named.stream = s.stream /\ named.disconnect = s.disconnect
      /\ named.channels = s.channels /\ named.nonces = s.nonces
      /\ named.startable = s.startable /\ named.out = s.out
  BY <1>1, <1>3 DEF IsServer
<1>5. HasSession(named) /\ ~HasStream(named) /\ Budget(named) = 3
  BY <1>1, <1>2, <1>4, HasOne DEF HasStream, Budget
<1>6. CASE ~s.startable
  <2>1. t = named
    BY <1>6 DEF OnHello, named
  <2>2. Leads(s, named)
    BY <1>1, <1>2, <1>4 DEF Leads
  <2>3. SessionOK(named)
    <3>1. Len(named.sess.pendingOut) = 0 /\ named.sess.chan.nextSeq = 0
      BY <1>1, <1>2, <1>4
    <3>2. named.sess.nonce # 0
      BY <1>1, <1>2, <1>4
    <3>. QED BY <1>1, <1>2, <1>4, <1>5, <3>1, <3>2 DEF SessionOK
  <2>4. Sound(named)
    BY <1>1, <1>2, <1>4, <1>5, <2>2, <2>3, SoundAgain
  <2>. QED BY <1>1, <1>2, <1>4, <2>1, <2>2, <2>4
<1>7. CASE s.startable
  <2>. DEFINE n == s.nonces + 1
              v == [id |-> n, addr |-> e, headersSent |-> FALSE, finished |-> FALSE]
              c == AfterSend(x.chan, SessionConfig(n))
              f == SendFrame(x.chan, SessionConfig(n))
              z == [y EXCEPT !.chan = c, !.key = Derive(e, n), !.seen = {}]
              d == Control(Server, e, f)
              o == s.out \cup {d}
  <2>1. StartStream(named) = [named EXCEPT !.nonces = n, !.stream = v]
    BY <1>2, <1>4 DEF StartStream, IsServer
  <2>2. CanSend(x.chan)
    BY <1>1, SpaceForThree, FS_EmptySet DEF CanSend
  <2>3. t = Offered(StartStream(named), n)
    BY <1>1, <1>4, <1>7 DEF OnHello, named
  <2>. DEFINE w == StartStream(named)
              q == Transmit(w, e, {f})
  <2>4. t = [q EXCEPT !.sess = z]
    <3>1. w.sess = y /\ q.sess = y /\ CanSend(w.sess.chan)
      BY <1>2, <1>4, <2>1, <2>2 DEF Transmit, IsServer
    <3>2. t = [q EXCEPT !.sess.chan = AfterSend(@, SessionConfig(n)),
                        !.sess.key = Derive(e, n), !.sess.seen = {}]
      BY ZenonT(40), <1>2, <2>3, <3>1 DEF Offered
    <3>. HIDE DEF q, w, n
    <3>3. t = [q EXCEPT !.sess = [y EXCEPT !.chan = AfterSend(@, SessionConfig(n)),
                                           !.key = Derive(e, n), !.seen = {}]]
      BY <3>1, <3>2, Zenon
    <3>. QED BY <1>2, <3>3
  <2>. HIDE DEF v, f
  <2>5. /\ q \in [sess : {y}, byAddr : {s.byAddr}, stream : {v}, disconnect : Nat,
                   channels : Nat, nonces : {n}, startable : BOOLEAN, out : {o}]
        /\ q.disconnect = s.disconnect /\ q.channels = s.channels
    <3>1. q = [w EXCEPT !.out = o]
      <4>1. {Control(Server, e, g) : g \in {f}} = {d}
        OBVIOUS
      <4>2. w.out = s.out
        BY <1>4, <2>1 DEF IsServer
      <4>. HIDE DEF w
      <4>. QED BY <4>1, <4>2 DEF Transmit
    <3>. HIDE DEF q, o
    <3>. QED BY <1>4, <2>1, <3>1 DEF IsServer
  <2>. HIDE DEF q
  <2>. USE DEF f, v
  <2>6. /\ n \in Nat /\ n # 0 /\ n \in 1 .. n
        /\ SessionConfig(n) \in Nat /\ SessionConfig(n) > Bye /\ SessionConfig(n) - 1 = n
    BY <1>1 DEF SessionConfig, Bye
  <2>7. /\ IsChannel(c, Nat)
        /\ c.nextSeq = 1
        /\ c.ack = x.chan.ack /\ c.early = x.chan.early
        /\ c.epoch = x.chan.epoch /\ c.peerEpoch = x.chan.peerEpoch
        /\ DOMAIN c.unacked = {0}
        /\ c.unacked[0].payload = SessionConfig(n)
    <3>1. NextSeq(0) = 1
      BY SpaceForThree DEF NextSeq, Plus
    <3>2. /\ IsChannel(c, Nat)
          /\ c.nextSeq = NextSeq(x.chan.nextSeq)
          /\ c.ack = x.chan.ack /\ c.early = x.chan.early
          /\ c.epoch = x.chan.epoch /\ c.peerEpoch = x.chan.peerEpoch
          /\ DOMAIN c.unacked = DOMAIN x.chan.unacked \cup {x.chan.nextSeq}
          /\ c.unacked[x.chan.nextSeq].payload = SessionConfig(n)
      <4>. HIDE DEF n
      <4>. QED BY ZenonT(40), <1>1, <2>6, AfterSendFields
    <3>. HIDE DEF c, n
    <3>. QED BY <1>1, <3>1, <3>2
  <2>8. /\ f \in Frame(Nat) /\ f.epoch = x.chan.epoch
        /\ f.payload = SessionConfig(n) /\ f.seq = 0
    BY <1>1, <2>6, SpaceForThree DEF SendFrame, DataFrame, Frame, WireAck, IsChannel, SeqNum
  <2>9. /\ v.id = n /\ v.addr = e /\ ~v.headersSent /\ ~v.finished
        /\ v \in [id : 1 .. n, addr : Nat, headersSent : BOOLEAN, finished : BOOLEAN]
    BY <1>1, <2>6
  <2>10. Derive(e, n) \in [client : Nat, server : Nat] /\ Derive(e, n) # Pairing
    BY <1>1, <2>6, Keys
  <2>. HIDE DEF c, f, v
  <2>11. /\ z.addr = e /\ z.key = Derive(e, n) /\ z.nonce = e /\ z.chan = c
         /\ z.seen = {} /\ z.pendingOut = << >> /\ IsSession(z)
    BY <1>1, <1>2, <2>7, <2>10 DEF IsSession
  <2>. HIDE DEF z, o, d
  <2>12. /\ IsServer(t) /\ t.sess = z /\ t.byAddr = s.byAddr /\ t.stream = v
         /\ t.disconnect = s.disconnect /\ t.channels = s.channels
         /\ t.nonces = n /\ t.out = o
    BY <1>4, <2>4, <2>5, <2>6 DEF IsServer
  <2>. HIDE DEF t
  <2>13. HasSession(t) /\ HasStream(t) /\ Budget(t) = 1
    BY <1>1, <2>6, <2>9, <2>11, <2>12, HasOne DEF Budget
  <2>14. Leads(s, t)
    <3>1. \E k \in s.nonces + 1 .. t.nonces : t.sess.key = Derive(t.sess.addr, k)
      BY <1>1, <2>11, <2>12
    <3>. QED BY <1>1, <2>6, <2>7, <2>11, <2>12, <3>1 DEF Leads
  <2>15. SessionOK(t)
    <3>1. \E k \in 1 .. t.nonces : t.sess.key = Derive(t.sess.addr, k)
      BY <2>6, <2>11, <2>12
    <3>2. Len(z.pendingOut) = 0
      BY <2>11
    <3>3. \A i \in DOMAIN c.unacked :
             /\ i < c.nextSeq
             /\ c.unacked[i].payload > Bye => z.key = Derive(z.addr, c.unacked[i].payload - 1)
      BY <2>6, <2>7, <2>11
    <3>. QED BY <1>1, <2>7, <2>11, <2>12, <2>13, <3>1, <3>2, <3>3 DEF SessionOK
  <2>16. StreamOK(t)
    BY <2>9, <2>11, <2>12, <2>13 DEF StreamOK
  <2>17. DownOK(t, d)
    <3>1. x.chan.epoch \in 1 .. t.channels
      BY <1>1, <2>12 DEF SessionOK, IsServer
    <3>2. Agrees(t, e, x.chan.epoch, n)
      BY <1>1, <2>6, <2>11, <2>12, <3>1 DEF Agrees
    <3>3. d.to = e /\ d.frame = f /\ d = Control(Server, d.to, d.frame)
      BY DEF d, Control
    <3>. QED BY <1>1, <2>6, <2>8, <3>1, <3>2, <3>3 DEF DownOK
  <2>18. Sound(t)
    <3>1. t.byAddr = IF HasSession(t) THEN {t.sess.addr} ELSE {}
      BY <1>1, <2>11, <2>12, <2>13
    <3>2. \A k \in t.out : k \in s.out \/ DownOK(t, k)
      BY <2>12, <2>17 DEF o
    <3>. QED BY <2>12, <2>13, <2>14, <2>15, <2>16, <3>1, <3>2, SoundAgain
  <2>. QED BY <1>1, <2>11, <2>12, <2>14, <2>18 DEF t
<1>8. s.startable \in BOOLEAN
  BY <1>1 DEF IsServer
<1>. QED BY <1>6, <1>7, <1>8

\* A Bye ends the session and the stream with it.
LEMMA OnByeKeeps ==
    ASSUME NEW s, Sound(s), HasSession(s)
    PROVE  Sound(OnBye(s)) /\ Leads(s, OnBye(s)) /\ ~HasSession(OnBye(s))
<1>. DEFINE x == s.sess
            frames == TakeAckFrames(x.chan)
            o == s.out \cup {Control(Server, x.addr, f) : f \in frames}
            t == OnBye(s)
<1>1. /\ IsServer(s) /\ SessionOK(s) /\ IsSession(x) /\ IsChannel(x.chan, Nat)
      /\ s.byAddr = {x.addr}
  BY DEF Sound, SessionOK, IsSession
<1>2. t = [s EXCEPT !.stream = NoStream, !.out = o, !.byAddr = @ \ {x.addr}, !.sess = NoSession]
  <2>1. Transmit(StopStream(s), x.addr, frames) = [s EXCEPT !.stream = NoStream, !.out = o]
    BY <1>1 DEF Transmit, StopStream, IsServer
  <2>2. HasSession([s EXCEPT !.stream = NoStream, !.out = o])
    BY <1>1 DEF HasSession, IsServer
  <2>. HIDE DEF o, frames
  <2>3. t = Forget([s EXCEPT !.stream = NoStream, !.out = o])
    BY <2>1 DEF OnBye, frames
  <2>. QED BY <1>1, <2>2, <2>3 DEF Forget, StopStream, IsServer
<1>3. ASSUME NEW f \in frames PROVE DownOK(s, Control(Server, x.addr, f))
  <2>1. f = BareAck(x.chan)
    BY DEF TakeAckFrames
  <2>2. /\ f \in Frame(Nat) /\ f.epoch = x.chan.epoch /\ ~f.hasPayload /\ ~(f.payload > Bye)
    BY <1>1, <2>1, SpaceForThree DEF BareAck, Frame, None, Bye, IsChannel, WireAck, SeqNum
  <2>. QED BY <2>2, SessionsFrame
<1>4. \A d \in o : d \in s.out \/ DownOK(s, d)
  BY <1>3
<1>. HIDE DEF o, t
<1>5. /\ IsServer(t) /\ t.sess = NoSession /\ t.stream = NoStream /\ t.byAddr = {}
      /\ t.disconnect = s.disconnect /\ t.channels = s.channels /\ t.nonces = s.nonces
      /\ t.out = o /\ s.nonces \in Nat /\ s.channels \in Nat
  BY <1>1, <1>2 DEF IsServer
<1>6. ~HasSession(t) /\ ~HasStream(t)
  BY <1>5 DEF HasSession, HasStream
<1>7. Leads(s, t)
  BY <1>5, <1>6 DEF Leads
<1>8. Sound(t)
  <2>1. \A d \in t.out : d \in s.out \/ DownOK(t, d)
    BY <1>4, <1>5, <1>7, LeadsDown
  <2>. QED BY <1>5, <1>6, <1>7, <2>1, SoundAgain
<1>. QED BY <1>6, <1>7, <1>8 DEF t

\* on_authenticated's loop over what a frame delivers.
MessageStep(ctx, t, msg) == OnMessage(t, msg)
MessagesSoFar(ctx, i, t) ==
    /\ Sound(t) /\ Leads(ctx.from, t)
    /\ HasSession(t) => (t.sess.nonce = 0 <=> ctx.first /\ i = 0)

Messages == INSTANCE LeftFolds WITH Step <- MessageStep, Good <- MessagesSoFar

LEMMA MessagesKeep ==
    ASSUME NEW s, Sound(s), HasSession(s), NEW first \in BOOLEAN, s.sess.nonce = 0 <=> first,
           NEW m \in Seq(Nat),
           \A i \in 1 .. Len(m) :
              IF first /\ i = 1 THEN m[i] = Hello(s.sess.addr) ELSE m[i] \in {KeepAlive, Bye}
    PROVE  LET t == SX!FoldLeft(OnMessage, s, m) IN
           /\ Sound(t) /\ Leads(s, t)
           /\ HasSession(t) => (t.sess.nonce = 0 <=> first /\ Len(m) = 0)
<1>. DEFINE ctx == [from |-> s, first |-> first]
<1>1. ctx.from = s /\ ctx.first = first
  OBVIOUS
<1>2. SX!FoldLeft(OnMessage, s, m) = Messages!Fold(ctx, s, m)
  BY Zenon DEF MessageStep, Messages!Fold, SX!FoldLeft, Messages!SX!FoldLeft,
     SX!MapThenFoldSet, Messages!SX!MapThenFoldSet, SX!Max, Messages!SX!Max
<1>. HIDE DEF ctx
<1>3. s.nonces \in Nat /\ s.sess.addr \in Nat \ {0}
  BY Keys DEF Sound, IsServer, SessionOK, IsSession
<1>4. MessagesSoFar(ctx, 0, s)
  BY <1>1, <1>3, LeadsRefl DEF MessagesSoFar
<1>5. ASSUME NEW i \in 1 .. Len(m), NEW t, MessagesSoFar(ctx, i - 1, t)
      PROVE  MessagesSoFar(ctx, i, MessageStep(ctx, t, m[i]))
  <2>. DEFINE u == OnMessage(t, m[i])
  <2>1. /\ Sound(t) /\ Leads(s, t)
        /\ HasSession(t) => (t.sess.nonce = 0 <=> first /\ i = 1)
        /\ i # 0 /\ MessageStep(ctx, t, m[i]) = u
    BY <1>1, <1>5 DEF MessagesSoFar, MessageStep
  <2>2. SUFFICES Sound(u) /\ Leads(t, u) /\ (HasSession(u) => u.sess.nonce # 0)
    BY <1>1, <1>3, <2>1, LeadsTrans DEF MessagesSoFar
  <2>3. CASE ~HasSession(t)
    <3>1. u = t
      BY <2>3, Zenon DEF OnMessage
    <3>2. t.nonces \in Nat
      BY <2>1 DEF Sound, IsServer
    <3>. QED BY <2>1, <2>3, <3>1, <3>2, LeadsRefl
  <2>4. CASE HasSession(t) /\ m[i] = KeepAlive
    <3>1. u = t
      <4>1. m[i] # Bye /\ ~(m[i] > Bye)
        BY <2>4 DEF Bye, KeepAlive
      <4>. QED BY <2>4, <4>1, Zenon DEF OnMessage
    <3>2. t.nonces \in Nat
      BY <2>1 DEF Sound, IsServer
    <3>3. ~(first /\ i = 1)
      BY <1>3, <2>4 DEF KeepAlive, Hello
    <3>. QED BY <2>1, <2>4, <3>1, <3>2, <3>3, LeadsRefl
  <2>5. CASE HasSession(t) /\ m[i] = Bye
    <3>1. m[i] # KeepAlive /\ ~(m[i] > Bye)
      BY <2>5 DEF Bye, KeepAlive
    <3>2. u = OnBye(t)
      BY <2>5, <3>1, Zenon DEF OnMessage
    <3>. QED BY <2>1, <2>5, <3>2, OnByeKeeps
  <2>6. CASE HasSession(t) /\ m[i] # KeepAlive /\ m[i] # Bye
    <3>1. first /\ i = 1 /\ m[i] = Hello(s.sess.addr) /\ t.sess.addr = s.sess.addr
      BY <2>1, <2>6 DEF Leads
    <3>2. m[i] > Bye /\ m[i] - 1 = t.sess.addr
      BY <1>3, <3>1 DEF Hello, Bye
    <3>3. u = OnHello(t, t.sess.addr)
      BY <2>6, <3>2, Zenon DEF OnMessage
    <3>4. t.sess.nonce = 0
      BY <2>1, <2>6, <3>1
    <3>. QED BY <2>1, <2>6, <3>3, <3>4, OnHelloKeeps
  <2>. QED BY <2>3, <2>4, <2>5, <2>6
<1>6. MessagesSoFar(ctx, Len(m), Messages!Fold(ctx, s, m))
  BY <1>4, <1>5, Messages!FoldKeeps
<1>. QED BY <1>1, <1>2, <1>6 DEF MessagesSoFar

\* authenticate, and what a newer incarnation resets: the session is now that of
\* the frame's sender, and has nothing that another client said.
LEMMA HeardFrom ==
    ASSUME NEW s, Sound(s), HelloFirst(s), PeerKnown(s), PeerOK(s),
           NEW from \in Incarnations, client[from] # Absent,
           NEW f, f.epoch = from, ~RefusesControl(s, from, f)
    PROVE  LET h == Renewed(Authenticated(s, from), f) IN
           /\ Sound(h) /\ Preserves(s, h) /\ HelloFirst(h) /\ PeerOK(h)
           /\ HasSession(h) /\ h.sess.addr = from
           /\ Hears(h.sess.chan, f)
           /\ HasSession(s) => s.sess.addr <= from
           /\ h.nonces = s.nonces /\ s.channels <= h.channels
<1>. DEFINE h == Renewed(Authenticated(s, from), f)
            x == s.sess
<1>1. /\ IsServer(s) /\ s.nonces \in Nat /\ s.channels \in Nat
      /\ from \in Nat /\ from # 0
      /\ s.byAddr = IF HasSession(s) THEN {x.addr} ELSE {}
  BY Keys DEF Sound, IsServer
<1>2. ASSUME HasSession(s)
      PROVE  /\ SessionOK(s) /\ IsSession(x) /\ IsChannel(x.chan, Nat)
             /\ x.addr \in Incarnations /\ x.addr \in Nat /\ x.addr # 0
             /\ x.chan.peerEpoch = x.addr /\ x.chan.peerEpoch # None
             /\ x.chan.epoch = s.channels
  <2>1. SessionOK(s) /\ x.chan.peerEpoch = x.addr
    BY <1>2 DEF Sound, PeerKnown
  <2>2. /\ IsSession(x) /\ IsChannel(x.chan, Nat) /\ x.addr \in Incarnations
        /\ x.chan.epoch = s.channels
    BY <2>1 DEF SessionOK, IsSession
  <2>3. x.addr \in Nat /\ x.addr # 0
    BY <2>2, Keys
  <2>. QED BY <2>1, <2>2, <2>3 DEF None
<1>3. Preserves(s, s)
  BY <1>1 DEF Preserves
<1>4. CASE KnownAddress(s, from)
  <2>1. HasSession(s) /\ from = x.addr
    BY <1>1, <1>4 DEF KnownAddress
  <2>2. Authenticated(s, from) = s
    BY <1>4, <2>1, Zenon DEF Authenticated
  <2>3. Incarnation(x.chan, f) = "Same"
    BY <1>2, <2>1 DEF Incarnation
  <2>4. h = s
    BY <2>2, <2>3 DEF Renewed
  <2>5. Hears(x.chan, f)
    BY <2>3 DEF Hears
  <2>. HIDE DEF h
  <2>. QED BY <1>1, <1>3, <2>1, <2>4, <2>5 DEF h
<1>5. CASE HasSession(s) /\ ~KnownAddress(s, from)
  <2>1. from # x.addr /\ MovesTo(s, f)
    BY <1>1, <1>5 DEF KnownAddress, RefusesControl
  <2>2. from > x.addr /\ Incarnation(x.chan, f) = "Newer"
    BY <1>1, <1>2, <1>5, <2>1 DEF MovesTo, Incarnation
  <2>. DEFINE c == Restart(x.chan, from)
              z == [x EXCEPT !.addr = from, !.key = Pairing, !.chan = c,
                             !.pendingOut = << >>, !.nonce = 0]
              b == (s.byAddr \ {x.addr}) \cup {from}
  <2>3. Authenticated(s, from) = Moved(s, from)
    BY <1>5, Zenon DEF Authenticated
  <2>4. h = [s EXCEPT !.byAddr = b, !.stream = NoStream, !.sess = z]
    <3>. DEFINE a == Moved(s, from)
                w == [x EXCEPT !.addr = from, !.key = Pairing]
    <3>1. a = [s EXCEPT !.byAddr = b, !.sess = w]
      BY <1>1, <1>2, <1>5 DEF Moved, IsServer, IsSession
    <3>2. w.chan = x.chan
      BY <1>2, <1>5 DEF IsSession
    <3>. HIDE DEF w, b
    <3>3. a.sess = w
      BY <1>1, <3>1 DEF IsServer
    <3>. HIDE DEF a
    <3>4. h = [StopStream(a) EXCEPT !.sess.chan = Restart(@, f.epoch),
                                    !.sess.pendingOut = << >>,
                                    !.sess.key = Pairing, !.sess.nonce = 0]
      BY <2>2, <2>3, <3>2, <3>3 DEF Renewed, a
    <3>5. StopStream(a) = [s EXCEPT !.byAddr = b, !.stream = NoStream, !.sess = w]
      BY <1>1, <3>1 DEF StopStream, IsServer
    <3>6. h = [s EXCEPT !.byAddr = b, !.stream = NoStream,
                        !.sess = [w EXCEPT !.chan = Restart(@, f.epoch),
                                           !.pendingOut = << >>,
                                           !.key = Pairing, !.nonce = 0]]
      BY ZenonT(40), <1>1, <3>4, <3>5 DEF IsServer
    <3>7. [w EXCEPT !.chan = Restart(@, f.epoch), !.pendingOut = << >>,
                    !.key = Pairing, !.nonce = 0] = z
      BY <1>2, <1>5, <3>2 DEF w, IsSession
    <3>. HIDE DEF h, z
    <3>. QED BY <3>6, <3>7
  <2>5. /\ IsChannel(c, Nat) /\ c.nextSeq = 0 /\ DOMAIN c.unacked = {} /\ c.ack = None
        /\ DOMAIN c.early = {} /\ c.epoch = s.channels /\ c.peerEpoch = from
    <3>1. IsChannel(NewChannel(x.chan.epoch), Nat)
      BY <1>1, <1>2, <1>5, NewChannelFields
    <3>. QED BY <1>1, <1>2, <1>5, <3>1 DEF Restart, NewChannel, IsChannel, NoEntries
  <2>6. Pairing \in [client : Nat, server : Nat]
    BY Keys DEF Pairing
  <2>. HIDE DEF c
  <2>7. /\ z.addr = from /\ z.key = Pairing /\ z.nonce = 0 /\ z.chan = c
        /\ z.seen = x.seen /\ z.pendingOut = << >> /\ IsSession(z)
    <3>1. << >> \in Seq({CodecPrivate, Bye}) /\ 0 \in Nat
      OBVIOUS
    <3>. QED BY <1>2, <1>5, <2>5, <2>6, <3>1 DEF IsSession
  <2>8. b = {from}
    BY <1>1, <1>5
  <2>. HIDE DEF h, z, b
  <2>9. /\ IsServer(h) /\ h.sess = z /\ h.byAddr = {from} /\ h.stream = NoStream
        /\ h.disconnect = s.disconnect /\ h.channels = s.channels /\ h.nonces = s.nonces
        /\ h.out = s.out
    BY <1>1, <2>4, <2>8 DEF IsServer
  <2>10. HasSession(h) /\ ~HasStream(h) /\ Budget(h) = 3
    BY <2>7, <2>9, HasOne DEF HasStream, Budget
  <2>11. Preserves(s, h)
    <3>1. ASSUME NEW to \in Nat, NEW epoch, NEW n, Agrees(s, to, epoch, n)
          PROVE  Agrees(h, to, epoch, n)
      BY <1>1, <1>2, <1>5, <2>2, <2>5, <2>7, <2>9, <3>1 DEF Agrees
    <3>2. ASSUME NEW key \in [client : Nat, server : Nat], NEW seq, UsedUp(s, key, seq)
          PROVE  UsedUp(h, key, seq)
      BY <2>7, <2>9, <3>2 DEF UsedUp
    <3>. QED BY <1>1, <2>9, <3>1, <3>2 DEF Preserves
  <2>12. SessionOK(h)
    <3>1. s.channels # 0
      BY <1>2, <1>5 DEF SessionOK
    <3>2. Len(z.pendingOut) = 0
      BY <2>7
    <3>. QED BY <2>5, <2>7, <2>9, <2>10, <3>1, <3>2 DEF SessionOK
  <2>13. Sound(h)
    <3>1. \A d \in h.out : d \in s.out \/ DownOK(h, d)
      BY <2>9
    <3>. QED BY <2>7, <2>9, <2>10, <2>11, <2>12, <3>1, SoundLater
  <2>14. HelloFirst(h) /\ PeerOK(h)
    BY <2>5, <2>7, <2>9 DEF HelloFirst, PeerOK
  <2>15. Hears(h.sess.chan, f)
    BY <2>5, <2>7, <2>9 DEF Hears, Incarnation, None
  <2>. QED BY <1>1, <1>2, <1>5, <2>2, <2>7, <2>9, <2>10, <2>11, <2>13, <2>14, <2>15 DEF h
<1>6. CASE ~HasSession(s)
  <2>. DEFINE e == s.channels + 1
              c == NewChannel(e)
              z == NewSession(from, e)
              b == s.byAddr \cup {from}
  <2>1. ~KnownAddress(s, from)
    BY <1>6 DEF KnownAddress
  <2>2. Authenticated(s, from) = Created(s, from)
    BY <1>6, <2>1, Zenon DEF Authenticated
  <2>3. /\ IsChannel(c, Nat) /\ c.nextSeq = 0 /\ DOMAIN c.unacked = {} /\ c.ack = None
        /\ DOMAIN c.early = {} /\ c.epoch = e /\ c.peerEpoch = None
    BY <1>1, NewChannelFields DEF NewChannel, NoEntries
  <2>4. Pairing \in [client : Nat, server : Nat]
    BY Keys DEF Pairing
  <2>. HIDE DEF c
  <2>5. z = [addr |-> from, key |-> Pairing, nonce |-> 0, chan |-> c,
          seen |-> {}, pendingOut |-> << >>]
    BY DEF NewSession, c
  <2>6. /\ z.addr = from /\ z.key = Pairing /\ z.nonce = 0 /\ z.chan = c
        /\ z.seen = {} /\ z.pendingOut = << >> /\ IsSession(z)
    <3>. HIDE DEF z
    <3>. QED BY <1>1, <2>3, <2>4, <2>5 DEF IsSession
  <2>7. b = {from}
    BY <1>1, <1>6
  <2>8. Created(s, from) = [s EXCEPT !.byAddr = b, !.channels = e, !.sess = z]
    BY <1>1 DEF Created, IsServer
  <2>. HIDE DEF z, b, e
  <2>9. Incarnation(Created(s, from).sess.chan, f) = "First"
    <3>1. Created(s, from).sess = z
      BY <1>1, <2>8 DEF IsServer
    <3>. QED BY <1>1, <2>3, <2>6, <3>1 DEF Incarnation, None
  <2>10. h = [s EXCEPT !.byAddr = b, !.channels = e, !.sess = z]
    BY <2>2, <2>8, <2>9 DEF Renewed
  <2>. HIDE DEF h
  <2>11. s.stream = NoStream
    BY <1>6 DEF Sound, StreamOK, HasStream
  <2>12. /\ IsServer(h) /\ h.sess = z /\ h.byAddr = {from} /\ h.stream = NoStream
         /\ h.disconnect = s.disconnect /\ h.channels = e /\ h.nonces = s.nonces
         /\ h.out = s.out
    <3>1. e \in Nat
      BY <1>1 DEF e
    <3>. QED BY <1>1, <2>7, <2>10, <2>11, <3>1 DEF IsServer
  <2>13. HasSession(h) /\ ~HasStream(h) /\ Budget(h) = 3
    BY <2>6, <2>12, HasOne DEF HasStream, Budget
  <2>14. Preserves(s, h)
    <3>1. ASSUME NEW to \in Nat, NEW epoch, NEW n, Agrees(s, to, epoch, n)
          PROVE  Agrees(h, to, epoch, n)
      BY <1>1, <2>3, <2>6, <2>12, <3>1 DEF Agrees, e
    <3>2. ASSUME NEW key \in [client : Nat, server : Nat], NEW seq, UsedUp(s, key, seq)
          PROVE  UsedUp(h, key, seq)
      BY <2>6, <2>12, <3>2 DEF UsedUp
    <3>. QED BY <1>1, <2>12, <3>1, <3>2 DEF Preserves, e
  <2>15. SessionOK(h)
    <3>1. e # 0
      BY <1>1 DEF e
    <3>2. Len(z.pendingOut) = 0
      BY <2>6
    <3>. QED BY <2>3, <2>6, <2>12, <2>13, <3>1, <3>2 DEF SessionOK
  <2>16. Sound(h)
    <3>1. \A d \in h.out : d \in s.out \/ DownOK(h, d)
      BY <2>12
    <3>. QED BY <2>6, <2>12, <2>13, <2>14, <2>15, <3>1, SoundLater
  <2>17. HelloFirst(h) /\ PeerOK(h)
    BY <2>3, <2>6, <2>12 DEF HelloFirst, PeerOK
  <2>18. Hears(h.sess.chan, f)
    BY <2>3, <2>6, <2>12 DEF Hears, Incarnation
  <2>. QED BY <1>1, <1>6, <2>6, <2>12, <2>13, <2>14, <2>16, <2>17, <2>18 DEF h, e
<1>. QED BY <1>4, <1>5, <1>6

\* on_control: whatever is taken in, the session has of its client's stream only
\* what that client said, its Hello before anything else.
LEMMA OnControlKeeps ==
    ASSUME NEW s, Sound(s), HelloFirst(s), PeerKnown(s), PeerOK(s),
           NEW from \in Incarnations, client[from] # Absent,
           client[from].chan.nextSeq \in 1 .. SeqMod - 1,
           NEW f \in Frame(Nat), f.epoch = from,
           f.hasPayload => Said(from, f.seq, f.payload)
    PROVE  LET t == OnControl(s, from, f) IN
           /\ Sound(t) /\ Preserves(s, t)
           /\ HelloFirst(t) /\ PeerKnown(t) /\ PeerOK(t)
           /\ HasSession(s) /\ HasSession(t) => s.sess.addr <= t.sess.addr
<1>. DEFINE t == OnControl(s, from, f)
            h == Renewed(Authenticated(s, from), f)
            x == h.sess
            m == Delivers(x.chan, f)
            c == AfterFrame(x.chan, f)
            n == client[from].chan.nextSeq
            g == Changed(h, c, x.pendingOut, h.out)
            first == x.chan.ack = None
<1>1. CASE RefusesControl(s, from, f)
  <2>1. t = s
    BY <1>1 DEF OnControl
  <2>2. HasSession(s) => s.sess.addr \in Nat
    BY Keys DEF Sound, SessionOK, IsSession
  <2>3. Preserves(s, s)
    BY DEF Preserves, Sound, IsServer
  <2>. HIDE DEF t
  <2>. QED BY <2>1, <2>2, <2>3 DEF t
<1>2. CASE ~RefusesControl(s, from, f)
  <2>1. /\ Sound(h) /\ Preserves(s, h) /\ HelloFirst(h) /\ PeerOK(h)
        /\ HasSession(h) /\ x.addr = from
        /\ Hears(x.chan, f)
        /\ HasSession(s) => s.sess.addr <= from
    BY <1>2, HeardFrom
  <2>2. t = SX!FoldLeft(OnMessage, [h EXCEPT !.sess.chan = c], m)
    BY <1>2, Zenon DEF OnControl, h, c, m
  <2>. HIDE DEF h, t
  <2>3. /\ IsServer(h) /\ SessionOK(h) /\ IsSession(x) /\ IsChannel(x.chan, Nat)
        /\ x.pendingOut \in Seq({CodecPrivate, Bye})
        /\ x.chan.peerEpoch \in {None, from}
    BY <2>1 DEF Sound, SessionOK, IsSession
  <2>4. /\ n \in 0 .. SeqMod - 1 /\ n \in Nat /\ SeqMod \in Nat
        /\ from \in Nat /\ from # None /\ x.chan.ack \in SeqNum \cup {None}
    <3>1. n \in 1 .. SeqMod - 1 /\ SeqMod \in Nat
      BY SpaceForThree
    <3>2. from \in Nat /\ from # None
      BY Keys DEF None
    <3>3. x.chan.ack \in SeqNum \cup {None}
      BY <2>3 DEF IsChannel
    <3>. HIDE DEF n
    <3>. QED BY <3>1, <3>2, <3>3
  <2>5. /\ \A i \in DOMAIN x.chan.early : Said(from, i, x.chan.early[i])
        /\ DOMAIN x.chan.early \subseteq 0 .. n - 1
        /\ x.chan.ack # None => x.chan.ack < n
    <3>1. /\ \A i \in DOMAIN x.chan.early : Said(from, i, x.chan.early[i])
          /\ x.chan.ack # None => x.chan.ack < n
      BY <2>1 DEF PeerOK
    <3>2. \A i \in DOMAIN x.chan.early : i \in SeqNum
      BY <2>3 DEF IsChannel, IsEntries
    <3>3. \A i \in DOMAIN x.chan.early : i \in 0 .. n - 1
      BY <2>4, <3>1, <3>2 DEF Said, SaidBy, SeqNum
    <3>. QED BY <3>1, <3>3
  <2>6. f.hasPayload => f.seq \in 0 .. n - 1 /\ f.payload \in Nat
    BY <2>4 DEF Said, SaidBy, Frame, SeqNum
  <2>. DEFINE Came(i, v) == \/ i \in DOMAIN x.chan.early /\ v = x.chan.early[i]
                            \/ Hears(x.chan, f) /\ f.hasPayload /\ i = f.seq /\ v = f.payload
  <2>7. /\ IsChannel(c, Nat)
        /\ c.nextSeq = x.chan.nextSeq /\ c.epoch = x.chan.epoch
        /\ c.peerEpoch = IF x.chan.peerEpoch = None THEN f.epoch ELSE x.chan.peerEpoch
        /\ DOMAIN c.unacked \subseteq DOMAIN x.chan.unacked
        /\ \A i \in DOMAIN c.unacked : c.unacked[i] = x.chan.unacked[i]
        /\ Wanted(x.chan) \in 0 .. n
        /\ m \in Seq(Nat) /\ Wanted(x.chan) + Len(m) <= n
        /\ c.ack = IF Len(m) = 0 THEN x.chan.ack ELSE Wanted(x.chan) + Len(m) - 1
        /\ \A i \in DOMAIN c.early : Came(i, c.early[i])
        /\ \A i \in 1 .. Len(m) : Came(Wanted(x.chan) + i - 1, m[i])
    <3>1. /\ f.hasPayload => f.payload \in Nat
          /\ f.hasPayload => f.seq \in 0 .. n - 1
      BY <2>6
    <3>. HIDE DEF n
    <3>2. IsChannel(c, Nat) /\ c.nextSeq = x.chan.nextSeq /\ c.epoch = x.chan.epoch
      BY <2>3, <2>4, <2>5, <3>1, AfterFrameFields
    <3>3. c.peerEpoch = IF x.chan.peerEpoch = None THEN f.epoch ELSE x.chan.peerEpoch
      BY <2>3, <2>4, <2>5, <3>1, AfterFrameFields
    <3>4. /\ DOMAIN c.unacked \subseteq DOMAIN x.chan.unacked
          /\ \A i \in DOMAIN c.unacked : c.unacked[i] = x.chan.unacked[i]
      BY <2>3, <2>4, <2>5, <3>1, AfterFrameFields
    <3>5. /\ Wanted(x.chan) \in 0 .. n
          /\ m \in Seq(Nat) /\ Wanted(x.chan) + Len(m) <= n
      BY <2>3, <2>4, <2>5, <3>1, AfterFrameFields
    <3>6. c.ack = IF Len(m) = 0 THEN x.chan.ack ELSE Wanted(x.chan) + Len(m) - 1
      BY <2>3, <2>4, <2>5, <3>1, AfterFrameFields
    <3>7. \A i \in DOMAIN c.early : Came(i, c.early[i])
      BY ZenonT(40), <2>3, <2>4, <2>5, <3>1, AfterFrameFields
    <3>8. \A i \in 1 .. Len(m) : Came(Wanted(x.chan) + i - 1, m[i])
      BY <2>3, <2>4, <2>5, <3>1, AfterFrameFields, SMTT(60)
    <3>. QED BY <3>2, <3>3, <3>4, <3>5, <3>6, <3>7, <3>8
  <2>8. \A i, v : Came(i, v) => Said(from, i, v)
    BY <2>5
  <2>. HIDE DEF Came
  <2>9. /\ \A i \in DOMAIN c.early : Said(from, i, c.early[i])
        /\ \A i \in 1 .. Len(m) : Said(from, Wanted(x.chan) + i - 1, m[i])
    BY <2>7, <2>8
  <2>10. c.peerEpoch = from
    BY <2>3, <2>7
  <2>. HIDE DEF c, m
  <2>11. c.ack # None => c.ack < n
    <3>1. Len(m) \in Nat
      BY <2>7
    <3>. QED BY <2>4, <2>5, <2>7, <3>1
  <2>12. first \/ Wanted(x.chan) # 0
    BY <2>4, <2>5, SpaceForThree DEF Wanted, NextSeq, Plus, SeqNum
  <2>13. first => Wanted(x.chan) = 0
    BY DEF Wanted
  <2>14. [h EXCEPT !.sess.chan = c] = g
    BY <2>3 DEF Changed, IsServer, IsSession
  <2>15. x.nonce = 0 <=> first
    BY <2>1 DEF HelloFirst
  <2>16. /\ Sound(g) /\ Preserves(h, g) /\ HasSession(g)
         /\ g.channels = h.channels /\ g.nonces = h.nonces
         /\ g.sess.addr = from /\ g.sess.nonce = x.nonce /\ g.sess.chan = c
    <3>1. x.nonce = 0 => c.nextSeq = 0 /\ DOMAIN c.unacked = {} /\ x.pendingOut = << >>
      BY <2>3, <2>7 DEF SessionOK
    <3>2. c.nextSeq + Len(x.pendingOut) <= Budget(h)
      BY <2>3, <2>7 DEF SessionOK
    <3>3. \A i \in DOMAIN c.unacked :
             /\ i < c.nextSeq
             /\ LET k == c.unacked[i].payload IN k > Bye => x.key = Derive(x.addr, k - 1)
      BY <2>3, <2>7 DEF SessionOK
    <3>4. c.peerEpoch \in {None, x.addr}
      BY <2>1, <2>10
    <3>. HIDE DEF g
    <3>5. LET r == Changed(h, c, x.pendingOut, h.out) IN
          /\ Sound(r) /\ Preserves(h, r) /\ HasSession(r)
          /\ r.channels = h.channels /\ r.nonces = h.nonces
          /\ r.sess.addr = x.addr /\ r.sess.nonce = x.nonce /\ r.sess.chan = c
      BY SMTT(40), <2>1, <2>3, <2>7, <3>1, <3>2, <3>3, <3>4, ChangedSound
    <3>. QED BY <2>1, <3>5 DEF g
  <2>. HIDE DEF g, x, first, n
  <2>17. \A i \in 1 .. Len(m) :
            IF first /\ i = 1 THEN m[i] = Hello(g.sess.addr) ELSE m[i] \in {KeepAlive, Bye}
    <3>1. ASSUME NEW i \in 1 .. Len(m)
          PROVE  Wanted(x.chan) + i - 1 = 0 <=> first /\ i = 1
      <4>1. Len(m) \in Nat /\ Wanted(x.chan) \in Nat
        BY <2>4, <2>7
      <4>. QED BY <2>12, <2>13, <4>1
    <3>. QED BY <2>9, <2>16, <3>1 DEF Said, SaidBy
  <2>18. /\ Sound(t) /\ Leads(g, t)
         /\ HasSession(t) => (t.sess.nonce = 0 <=> first /\ Len(m) = 0)
    <3>1. first \in BOOLEAN /\ (g.sess.nonce = 0 <=> first)
      BY <2>15, <2>16 DEF first
    <3>. QED BY <2>2, <2>7, <2>14, <2>16, <2>17, <3>1, MessagesKeep
  <2>19. g.nonces \in Nat /\ g.channels \in Nat
    BY <2>16 DEF Sound, IsServer
  <2>20. Preserves(s, t)
    BY <2>1, <2>16, <2>18, <2>19, LeadsPreserves, PreservesTrans
  <2>21. ASSUME HasSession(t)
         PROVE  /\ t.sess.addr = from /\ t.sess.chan.peerEpoch = from
                /\ t.sess.chan.ack = c.ack /\ t.sess.chan.early = c.early
    BY <2>10, <2>16, <2>18, <2>21 DEF Leads
  <2>22. HelloFirst(t)
    <3>1. c.ack = None <=> first /\ Len(m) = 0
      <4>1. Len(m) \in Nat /\ Wanted(x.chan) \in Nat
        BY <2>4, <2>7
      <4>. QED BY <2>7, <4>1 DEF first, None
    <3>. QED BY <2>18, <2>21, <3>1 DEF HelloFirst
  <2>23. PeerKnown(t) /\ PeerOK(t)
    BY <2>9, <2>11, <2>21 DEF PeerKnown, PeerOK, n
  <2>. QED BY <2>1, <2>18, <2>20, <2>21, <2>22, <2>23 DEF t
<1>. QED BY <1>1, <1>2

-----------------------------------------------------------------------------
(* The server's steps.                                                     *)

\* What the server is like between two polls.
Settled(s) == Sound(s) /\ HelloFirst(s) /\ PeerKnown(s) /\ PeerOK(s)

LEMMA SettledKept ==
    ASSUME NEW s, Settled(s), NEW t, Keeps(s, t)
    PROVE  Settled(t)
<1>1. Sound(t) /\ Leads(s, t) /\ (HasSession(t) => t.sess.nonce = s.sess.nonce)
  BY DEF Keeps
<1>2. HasSession(t) => /\ HasSession(s) /\ t.sess.addr = s.sess.addr
                       /\ t.sess.chan.peerEpoch = s.sess.chan.peerEpoch
                       /\ t.sess.chan.ack = s.sess.chan.ack
                       /\ t.sess.chan.early = s.sess.chan.early
  BY <1>1 DEF Leads
<1>. QED BY <1>1, <1>2 DEF Settled, HelloFirst, PeerKnown, PeerOK

\* The same server but for the flags of the poll it is in.
LEMMA Reset ==
    ASSUME NEW s, Settled(s), NEW b \in BOOLEAN, NEW o \in {{}, s.out}
    PROVE  LET t == [s EXCEPT !.out = o, !.startable = b] IN
           /\ Settled(t) /\ Keeps(s, t) /\ IsServer(t) /\ t.out = o /\ t.sess = s.sess
           /\ t.stream = s.stream /\ t.channels = s.channels /\ t.nonces = s.nonces
<1>. DEFINE t == [s EXCEPT !.out = o, !.startable = b]
<1>1. Sound(s) /\ IsServer(s)
  BY DEF Settled, Sound
<1>2. /\ IsServer(t) /\ t.sess = s.sess /\ t.byAddr = s.byAddr /\ t.stream = s.stream
      /\ t.disconnect = s.disconnect /\ t.channels = s.channels /\ t.nonces = s.nonces
      /\ t.out = o
  BY <1>1 DEF IsServer
<1>. HIDE DEF t
<1>3. (HasSession(t) <=> HasSession(s)) /\ (HasStream(t) <=> HasStream(s)) /\ Budget(t) = Budget(s)
  BY <1>2 DEF HasSession, HasStream, Budget
<1>4. Leads(s, t)
  BY <1>1, <1>2, <1>3 DEF Leads, IsServer
<1>5. Sound(t)
  <2>1. HasSession(t) => SessionOK(t)
    BY <1>1, <1>2, <1>3 DEF Sound, SessionOK
  <2>2. HasStream(t) => StreamOK(t)
    BY <1>1, <1>2, <1>3 DEF Sound, StreamOK
  <2>3. t.byAddr = IF HasSession(t) THEN {t.sess.addr} ELSE {}
    BY <1>1, <1>2, <1>3 DEF Sound
  <2>4. HasSession(t) /\ t.sess.key # Pairing /\ ~HasStream(t) => t.sess.key.server \in ended
    BY <1>1, <1>2, <1>3 DEF Sound
  <2>5. \A d \in t.out : d \in s.out \/ DownOK(t, d)
    BY <1>2
  <2>. QED BY <1>1, <1>2, <1>4, <2>1, <2>2, <2>3, <2>4, <2>5, SoundAgain
<1>6. Keeps(s, t)
  BY <1>2, <1>4, <1>5 DEF Keeps
<1>. QED BY <1>2, <1>6, SettledKept DEF t

\* The rest of a poll, from what has been taken in to what it leaves.
Polled(h, headersReady, due, idle) == Ticked(Drained(h, headersReady), due, idle)
Closed(s) == [s EXCEPT !.out = {}, !.startable = TRUE]

PollIsSound(h, polled) ==
    /\ Settled(Closed(polled)) /\ Leads(h, Closed(polled)) /\ Closed(polled).out = {}
    /\ Closed(polled).channels = polled.channels
    /\ \A d \in polled.out : DownOK(Closed(polled), d)

LEMMA PollKeeps ==
    ASSUME NEW h, Settled(h), NEW headersReady, NEW idle,
           NEW due \in {{}, Waiting(server, Drained(h, headersReady))}
    PROVE  PollIsSound(h, Polled(h, headersReady, due, idle))
<1>. DEFINE drained == Drained(h, headersReady)
            polled == Polled(h, headersReady, due, idle)
            q == Closed(polled)
<1>1. Sound(h) /\ h.nonces \in Nat /\ h.channels \in Nat
  BY DEF Settled, Sound, IsServer
<1>2. Keeps(h, drained) /\ Sound(drained)
  BY <1>1, DrainedKeeps DEF Keeps
<1>3. HasSession(drained) => due \subseteq DOMAIN drained.sess.chan.unacked
  BY DEF Waiting
<1>. HIDE DEF drained
<1>4. Keeps(drained, polled)
  BY <1>2, <1>3, TickedKeeps DEF Polled, drained
<1>. HIDE DEF polled
<1>5. Keeps(h, polled) /\ Sound(polled)
  BY <1>1, <1>2, <1>4, KeepsTrans DEF Keeps
<1>6. Settled(polled)
  BY <1>5, SettledKept
<1>7. /\ Settled(q) /\ Keeps(polled, q) /\ q.out = {} /\ q.channels = polled.channels
  BY <1>6, Reset DEF Closed
<1>. HIDE DEF q
<1>8. Leads(h, q)
  BY <1>1, <1>5, <1>7, LeadsTrans DEF Keeps
<1>9. polled.nonces \in Nat /\ polled.channels \in Nat /\ Leads(polled, q)
  BY <1>5, <1>7 DEF Sound, IsServer, Keeps
<1>10. \A d \in polled.out : DownOK(q, d)
  BY <1>5, <1>9, LeadsDown DEF Sound
<1>. QED BY <1>7, <1>8, <1>10 DEF PollIsSound, q, polled

\* The replay window takes a number once.
LEMMA OnInputKeeps ==
    ASSUME NEW s, Settled(s), NEW d
    PROVE  LET t == OnInput(s, d) IN
           /\ Settled(t) /\ Preserves(s, t)
           /\ HasSession(t) <=> HasSession(s)
           /\ HasSession(s) => t.sess.addr = s.sess.addr
           /\ Accepts(s, d) => HasSession(t) /\ d.key = t.sess.key /\ d.seq \in t.sess.seen
<1>1. /\ Sound(s) /\ IsServer(s) /\ s.nonces \in Nat /\ s.channels \in Nat
  BY DEF Settled, Sound, IsServer
<1>2. CASE ~Accepts(s, d)
  <2>1. OnInput(s, d) = s
    BY <1>2 DEF OnInput
  <2>2. Preserves(s, s)
    BY <1>1 DEF Preserves
  <2>. QED BY <1>2, <2>1, <2>2
<1>3. CASE Accepts(s, d)
  <2>. DEFINE x == s.sess
              e == x.seen \cup {d.seq}
              y == [x EXCEPT !.seen = e]
              t == OnInput(s, d)
  <2>1. /\ HasSession(s) /\ SessionOK(s) /\ IsSession(x) /\ d.key = x.key
    BY <1>1, <1>3 DEF Accepts, KnownAddress, Sound, SessionOK
  <2>2. /\ y.addr = x.addr /\ y.key = x.key /\ y.nonce = x.nonce /\ y.chan = x.chan
        /\ y.seen = e /\ y.pendingOut = x.pendingOut /\ IsSession(y)
    BY <2>1 DEF IsSession
  <2>3. t = [s EXCEPT !.sess = y]
    BY <1>1, <1>3, <2>1 DEF OnInput, IsServer, IsSession
  <2>. HIDE DEF y, t
  <2>4. /\ IsServer(t) /\ t.sess = y /\ t.byAddr = s.byAddr /\ t.stream = s.stream
        /\ t.disconnect = s.disconnect /\ t.channels = s.channels /\ t.nonces = s.nonces
        /\ t.out = s.out
    BY <1>1, <2>3 DEF IsServer
  <2>5. HasSession(t) /\ (HasStream(t) <=> HasStream(s)) /\ Budget(t) = Budget(s)
    BY <2>1, <2>2, <2>4, HasOne DEF HasStream, Budget, IsSession
  <2>6. Preserves(s, t)
    <3>1. \A to \in Nat : \A epoch, n : Agrees(s, to, epoch, n) => Agrees(t, to, epoch, n)
      BY <2>1, <2>2, <2>4, <2>5 DEF Agrees
    <3>2. \A key \in [client : Nat, server : Nat] :
             \A seq : UsedUp(s, key, seq) => UsedUp(t, key, seq)
      BY <2>1, <2>2, <2>4, <2>5 DEF UsedUp
    <3>. QED BY <1>1, <2>4, <3>1, <3>2 DEF Preserves
  <2>7. Sound(t)
    <3>1. SessionOK(t)
      BY <2>1, <2>2, <2>4, <2>5 DEF SessionOK
    <3>2. HasStream(t) => StreamOK(t)
      BY <1>1, <2>2, <2>4, <2>5 DEF Sound, StreamOK
    <3>3. t.byAddr = IF HasSession(t) THEN {t.sess.addr} ELSE {}
      BY <1>1, <2>1, <2>2, <2>4, <2>5 DEF Sound
    <3>4. HasSession(t) /\ t.sess.key # Pairing /\ ~HasStream(t) => t.sess.key.server \in ended
      BY <1>1, <2>1, <2>2, <2>4, <2>5 DEF Sound
    <3>5. \A k \in t.out : k \in s.out \/ DownOK(t, k)
      BY <2>4
    <3>. QED BY <1>1, <2>4, <2>5, <2>6, <3>1, <3>2, <3>3, <3>4, <3>5, SoundLater
  <2>8. HelloFirst(t) /\ PeerKnown(t) /\ PeerOK(t)
    BY <2>1, <2>2, <2>4 DEF Settled, HelloFirst, PeerKnown, PeerOK
  <2>. QED BY <2>1, <2>2, <2>4, <2>5, <2>6, <2>7, <2>8 DEF Settled, t
<1>. QED BY <1>2, <1>3

\* One datagram at the server.
LEMMA OnDatagramKeeps ==
    ASSUME IndInv, NEW d \in net, d.to = Server, NEW b \in BOOLEAN
    PROVE  LET h == OnDatagram([server EXCEPT !.startable = b], d) IN
           /\ Settled(h) /\ Preserves(server, h)
           /\ HasSession(server) /\ HasSession(h) => server.sess.addr <= h.sess.addr
           /\ d.kind = "input" /\ Accepts(server, d) =>
                 HasSession(h) /\ d.key = h.sess.key /\ d.seq \in h.sess.seen
<1>. DEFINE s == [server EXCEPT !.out = {}, !.startable = b]
            h == OnDatagram(s, d)
<1>1. /\ Settled(server) /\ UpOK(d) /\ IsServer(server) /\ server.out = {}
      /\ server.nonces \in Nat /\ server.channels \in Nat
  BY DEF IndInv, Settled, Sound, IsServer
<1>2. [server EXCEPT !.startable = b] = s
  BY <1>1 DEF IsServer
<1>3. Settled(s) /\ Keeps(server, s) /\ s.sess = server.sess
  BY <1>1, Reset
<1>4. Preserves(server, s)
  BY <1>1, <1>3, LeadsPreserves DEF Keeps
<1>5. (HasSession(s) <=> HasSession(server)) /\ (Accepts(s, d) <=> Accepts(server, d))
  <2>1. s.byAddr = server.byAddr
    BY <1>1 DEF IsServer
  <2>. HIDE DEF s
  <2>. QED BY <1>3, <2>1 DEF HasSession, Accepts, KnownAddress
<1>. HIDE DEF s
<1>6. CASE d.kind = "control"
  <2>1. /\ d.from \in Incarnations /\ client[d.from] # Absent
        /\ d.frame \in Frame(Nat) /\ d.frame.epoch = d.from
        /\ d.frame.hasPayload => Said(d.from, d.frame.seq, d.frame.payload)
    <3>1. d.kind # "input"
      BY <1>6
    <3>. QED BY <1>1, <3>1 DEF UpOK, SentBy, Said
  <2>2. client[d.from].chan.nextSeq \in 1 .. SeqMod - 1
    <3>1. ClientIs(server, d.from, client[d.from])
      BY <2>1 DEF IndInv
    <3>2. /\ client[d.from].chan.nextSeq \in Nat /\ client[d.from].chan.nextSeq # 0
          /\ client[d.from].keepAlives \in 0 .. MaxKeepAlives
          /\ client[d.from].chan.nextSeq <= client[d.from].keepAlives + 2
      BY <3>1, SpaceForThree DEF ClientIs, IsChannel, SeqNum
    <3>3. MaxKeepAlives \in Nat /\ SeqMod \in Nat
      BY EndpointBounds, SpaceForThree
    <3>. QED BY <3>2, <3>3, NumbersSuffice
  <2>3. h = OnControl(s, d.from, d.frame)
    BY <1>6 DEF OnDatagram
  <2>. HIDE DEF h
  <2>4. /\ Sound(h) /\ Preserves(s, h)
        /\ HelloFirst(h) /\ PeerKnown(h) /\ PeerOK(h)
        /\ HasSession(s) /\ HasSession(h) => s.sess.addr <= h.sess.addr
    BY <1>3, <2>1, <2>2, <2>3, OnControlKeeps DEF Settled
  <2>. QED BY <1>2, <1>3, <1>4, <1>5, <1>6, <2>4, PreservesTrans DEF Settled, h
<1>7. CASE d.kind # "control"
  <2>1. h = OnInput(s, d)
    BY <1>7 DEF OnDatagram
  <2>. HIDE DEF h
  <2>2. /\ Settled(h) /\ Preserves(s, h)
        /\ HasSession(h) <=> HasSession(s)
        /\ HasSession(s) => h.sess.addr = s.sess.addr
        /\ Accepts(s, d) => HasSession(h) /\ d.key = h.sess.key /\ d.seq \in h.sess.seen
    BY <1>3, <2>1, OnInputKeeps
  <2>3. HasSession(server) => server.sess.addr \in Nat
    BY <1>1, Keys DEF Settled, Sound, SessionOK, IsSession
  <2>. QED BY <1>2, <1>3, <1>4, <1>5, <2>2, <2>3, PreservesTrans DEF h
<1>. QED BY <1>6, <1>7

\* What stays on the wire was there, or was just sent.
LEMMA WiresKeep ==
    ASSUME NEW D, NEW cl, NEW N \in Wires(D, cl)
    PROVE  N \subseteq D
<1>1. Reachable(D, cl) \subseteq D
  BY DEF Reachable
<1>2. N \subseteq Reachable(D, cl)
  BY DEF Wires, FSX!kSubset
<1>. QED BY <1>1, <1>2

\* A client is as sound to a later server.
LEMMA ClientLater ==
    ASSUME NEW s, NEW t, Preserves(s, t), NEW e \in Incarnations, NEW c, ClientIs(s, e, c)
    PROVE  ClientIs(t, e, c)
<1>1. /\ e \in Nat
      /\ s.channels <= t.channels /\ s.nonces <= t.nonces
      /\ s.channels \in Nat /\ t.channels \in Nat /\ s.nonces \in Nat /\ t.nonces \in Nat
      /\ \A epoch, n : Agrees(s, e, epoch, n) => Agrees(t, e, epoch, n)
  BY Keys DEF Preserves
<1>2. c.chan.peerEpoch \in {None} \cup 1 .. t.channels
  BY <1>1 DEF ClientIs
<1>3. \A i \in DOMAIN c.chan.early :
         c.chan.early[i] > Bye => Agrees(t, e, c.chan.peerEpoch, c.chan.early[i] - 1)
  BY <1>1 DEF ClientIs
<1>4. c.key # Pairing =>
         \E n \in 1 .. t.nonces : c.key = Derive(e, n) /\ Agrees(t, e, c.chan.peerEpoch, n)
  <2>1. \A n \in 1 .. s.nonces : n \in 1 .. t.nonces
    BY <1>1
  <2>. QED BY <1>1, <2>1 DEF ClientIs
<1>. QED BY <1>2, <1>3, <1>4 DEF ClientIs

\* A step of the server's keeps the invariant if it leaves it settled.
LEMMA ServerStep ==
    ASSUME IndInv, Settled(server)', Preserves(server, server'), server'.out = {},
           server'.channels <= MaxChannels, client' = client,
           NEW O, net' \subseteq net \cup O, \A d \in O : DownOK(server', d),
           AppliedOK'
    PROVE  IndInv'
<1>1. Sound(server)' /\ HelloFirst(server)' /\ PeerKnown(server)' /\ PeerOK(server)'
  BY DEF Settled
<1>2. DOMAIN client' = Incarnations
  BY DEF IndInv
<1>3. \A e \in Incarnations : client'[e] # Absent => ClientIs(server', e, client'[e])
  BY ClientLater DEF IndInv
<1>4. ASSUME NEW d \in net'
      PROVE  IF d.to = Server THEN UpOK(d)' ELSE DownOK(server', d)
  <2>1. CASE d \in net /\ d.to = Server
    <3>1. UpOK(d)
      BY <2>1 DEF IndInv
    <3>2. server.nonces \in Nat /\ server'.nonces \in Nat /\ server.nonces <= server'.nonces
      BY DEF Preserves
    <3>3. SentBy(d.from, client[d.from], server'.nonces, d)
      BY <3>1, <3>2 DEF UpOK, SentBy
    <3>4. UpOK(d)'
      BY <3>1, <3>3 DEF UpOK
    <3>. QED BY <2>1, <3>4
  <2>2. CASE d \in net /\ d.to # Server
    BY <2>2, DownStays DEF IndInv
  <2>3. CASE d \in O
    BY <2>3, Keys DEF DownOK
  <2>. QED BY <2>1, <2>2, <2>3
<1>. QED BY <1>1, <1>2, <1>3, <1>4 DEF IndInv

LEMMA ElementIn ==
    ASSUME NEW S, NEW seq \in Seq(S), NEW i \in 1 .. Len(seq)
    PROVE  seq[i] \in S
OBVIOUS

\* While no stream ends and no client moves, that is a matter of the server alone.
LEMMA SettledNext ==
    ASSUME NEW q, Settled(q), server' = q, client' = client, ended' = ended
    PROVE  Settled(server)'
<1>1. Sound(server)'
  BY DEF Settled, Sound, StreamOK
<1>2. HelloFirst(server)' /\ PeerKnown(server)'
  BY DEF Settled, HelloFirst, PeerKnown
<1>3. PeerOK(server)'
  BY DEF Settled, PeerOK, Said
<1>. QED BY <1>1, <1>2, <1>3 DEF Settled

\* What was applied stays so.
LEMMA AppliedStays ==
    ASSUME AppliedOK, Preserves(server, server'), applied' = applied
    PROVE  AppliedOK'
<1>1. \A i \in 1 .. Len(applied) : applied[i].key \in [client : Nat, server : Nat]
  <2>1. \A i \in 1 .. Len(applied) : applied[i] \in [key : [client : Nat, server : Nat], seq : Nat]
    BY ElementIn DEF AppliedOK
  <2>. QED BY <2>1
<1>2. \A i \in 1 .. Len(applied) : UsedUp(server', applied[i].key, applied[i].seq)
  BY <1>1 DEF AppliedOK, Preserves
<1>. QED BY <1>2 DEF AppliedOK, InputAppliedOnce

\* A number the replay window took is new under its key, and used up.
LEMMA AppliedOnce ==
    ASSUME AppliedOK, NEW d, Accepts(server, d),
           d.key \in [client : Nat, server : Nat], d.seq \in Nat,
           Preserves(server, server'), UsedUp(server', d.key, d.seq),
           applied' = Append(applied, [key |-> d.key, seq |-> d.seq])
    PROVE  AppliedOK'
<1>. DEFINE n == Len(applied)
            p == [key |-> d.key, seq |-> d.seq]
<1>1. /\ applied \in Seq([key : [client : Nat, server : Nat], seq : Nat])
      /\ n \in Nat
      /\ \A i \in 1 .. n : UsedUp(server, applied[i].key, applied[i].seq)
      /\ \A i, j \in 1 .. n : applied[i] = applied[j] => i = j
  BY DEF AppliedOK, InputAppliedOnce
<1>2. p.key = d.key /\ p.seq = d.seq /\ p \in [key : [client : Nat, server : Nat], seq : Nat]
  OBVIOUS
<1>. HIDE DEF p
<1>3. /\ applied' \in Seq([key : [client : Nat, server : Nat], seq : Nat])
      /\ Len(applied') = n + 1
      /\ applied'[n + 1] = p
      /\ \A i \in 1 .. n : applied'[i] = applied[i]
  BY <1>1, <1>2 DEF p
<1>. HIDE DEF n
<1>4. \A i \in 1 .. n : applied[i] # p
  <2>1. HasSession(server) /\ d.key = server.sess.key /\ d.seq \notin server.sess.seen
    BY DEF Accepts, KnownAddress
  <2>. QED BY <1>1, <1>2, <2>1 DEF UsedUp
<1>5. \A i \in 1 .. n + 1 : UsedUp(server', applied'[i].key, applied'[i].seq)
  <2>1. \A i \in 1 .. n : UsedUp(server', applied[i].key, applied[i].seq)
    <3>1. \A i \in 1 .. n : applied[i] \in [key : [client : Nat, server : Nat], seq : Nat]
      BY <1>1, ElementIn DEF n
    <3>. QED BY <1>1, <3>1 DEF Preserves
  <2>2. \A i \in 1 .. n + 1 : i \in 1 .. n \/ i = n + 1
    BY <1>1
  <2>. QED BY <1>2, <1>3, <2>1, <2>2
<1>6. \A i, j \in 1 .. n + 1 : applied'[i] = applied'[j] => i = j
  <2>1. \A i \in 1 .. n + 1 : i \in 1 .. n \/ i = n + 1
    BY <1>1
  <2>. QED BY ZenonT(40), <1>1, <1>3, <1>4, <2>1
<1>. QED BY <1>3, <1>5, <1>6 DEF AppliedOK, InputAppliedOnce

\* What a poll leaves, from what it took in.
LEMMA PollStep ==
    ASSUME IndInv, NEW h, Settled(h), Preserves(server, h), NEW idle, Poll(h, idle)
    PROVE  \E q, O :
              /\ Settled(q) /\ Preserves(server, q) /\ Leads(h, q) /\ q.out = {}
              /\ q.channels <= MaxChannels
              /\ server' = q /\ client' = client /\ ended' = ended
              /\ net' \subseteq net \cup O /\ \A d \in O : DownOK(q, d)
<1>1. PICK headersReady : \E due \in {{}, Waiting(server, Drained(h, headersReady))} :
                             TickAfter(Drained(h, headersReady), due, idle)
  BY DEF Poll
<1>. DEFINE drained == Drained(h, headersReady)
<1>2. PICK due \in {{}, Waiting(server, drained)} : TickAfter(drained, due, idle)
  BY <1>1
<1>. DEFINE polled == Polled(h, headersReady, due, idle)
            q == Closed(polled)
<1>3. /\ Settled(q) /\ Leads(h, q) /\ q.out = {} /\ q.channels = polled.channels
      /\ \A d \in polled.out : DownOK(q, d)
  <2>1. PollIsSound(h, polled)
    BY PollKeeps
  <2>. QED BY <2>1 DEF PollIsSound
<1>4. /\ polled.channels <= MaxChannels /\ server' = q
      /\ net' \subseteq net \cup polled.out
      /\ client' = client /\ ended' = ended
  <2>. HIDE DEF drained
  <2>. QED BY <1>2, WiresKeep DEF TickAfter, Polled, Closed, drained
<1>. HIDE DEF q, polled
<1>5. h.nonces \in Nat /\ h.channels \in Nat
  BY DEF Settled, Sound, IsServer
<1>6. Preserves(server, q)
  BY <1>3, <1>5, LeadsPreserves, PreservesTrans
<1>. QED BY <1>3, <1>4, <1>6

LEMMA ServerReceivesKeeps ==
    ASSUME IndInv, NEW d \in net, ServerReceives(d)
    PROVE  IndInv'
<1>1. PICK b \in BOOLEAN : Poll(OnDatagram([server EXCEPT !.startable = b], d), FALSE)
  <2>1. (d.kind = "input") \in BOOLEAN
    OBVIOUS
  <2>. QED BY <2>1 DEF ServerReceives
<1>. DEFINE h == OnDatagram([server EXCEPT !.startable = b], d)
<1>2. d.to = Server
  BY DEF ServerReceives
<1>3. /\ Settled(h) /\ Preserves(server, h)
      /\ d.kind = "input" /\ Accepts(server, d) =>
            HasSession(h) /\ d.key = h.sess.key /\ d.seq \in h.sess.seen
  BY <1>2, OnDatagramKeeps
<1>. HIDE DEF h
<1>4. PICK q, O :
         /\ Settled(q) /\ Preserves(server, q) /\ Leads(h, q) /\ q.out = {}
         /\ q.channels <= MaxChannels
         /\ server' = q /\ client' = client /\ ended' = ended
         /\ net' \subseteq net \cup O /\ \A k \in O : DownOK(q, k)
  BY <1>1, <1>3, PollStep DEF h
<1>5. AppliedOK'
  <2>1. AppliedOK
    BY DEF IndInv
  <2>2. CASE d.kind = "input" /\ Accepts(server, d)
    <3>1. /\ d.key \in [client : Nat, server : Nat] /\ d.key # Pairing
          /\ d.key.server <= server.nonces /\ d.seq \in Nat
      <4>1. UpOK(d) /\ d.kind # "control"
        BY <1>2, <2>2 DEF IndInv
      <4>. QED BY <4>1 DEF UpOK, SentBy
    <3>2. UsedUp(h, d.key, d.seq)
      <4>1. /\ h.nonces \in Nat /\ server.nonces \in Nat /\ server.nonces <= h.nonces
            /\ d.key.server \in Nat
        BY <1>3, <3>1 DEF Preserves
      <4>. QED BY <1>3, <2>2, <3>1, <4>1 DEF UsedUp
    <3>3. UsedUp(q, d.key, d.seq)
      <4>1. h.nonces \in Nat
        BY <1>3 DEF Preserves
      <4>. QED BY <1>4, <3>1, <3>2, <4>1, LeadsUsedUp
    <3>4. applied' = Append(applied, [key |-> d.key, seq |-> d.seq])
      BY <2>2 DEF ServerReceives
    <3>. QED BY <1>4, <2>1, <2>2, <3>1, <3>3, <3>4, AppliedOnce
  <2>3. CASE ~(d.kind = "input" /\ Accepts(server, d))
    <3>1. applied' = applied
      BY <2>3 DEF ServerReceives
    <3>. QED BY <1>4, <2>1, <3>1, AppliedStays
  <2>. QED BY <2>2, <2>3
<1>6. Settled(server)'
  BY <1>4, SettledNext
<1>. QED BY <1>4, <1>5, <1>6, ServerStep

LEMMA ServerTimesOutKeeps == ASSUME IndInv, ServerTimesOut PROVE IndInv'
<1>1. PICK idle : Poll(server, idle)
  BY DEF ServerTimesOut
<1>2. Settled(server) /\ Preserves(server, server)
  BY DEF IndInv, Settled, Preserves, Sound, IsServer
<1>3. PICK q, O :
         /\ Settled(q) /\ Preserves(server, q) /\ Leads(server, q) /\ q.out = {}
         /\ q.channels <= MaxChannels
         /\ server' = q /\ client' = client /\ ended' = ended
         /\ net' \subseteq net \cup O /\ \A k \in O : DownOK(q, k)
  BY <1>1, <1>2, PollStep
<1>4. AppliedOK'
  <2>1. AppliedOK /\ applied' = applied
    BY DEF IndInv, ServerTimesOut
  <2>. QED BY <1>3, <2>1, AppliedStays
<1>5. Settled(server)'
  BY <1>3, SettledNext
<1>. QED BY <1>3, <1>4, <1>5, ServerStep

\* A stream that is to end is noted in ended, whoever ends it.
LEMMA StreamEndsKeeps ==
    ASSUME IndInv, HasStream(server), ended' = ended \cup {server.stream.id},
           UNCHANGED <<client, net, applied>>,
           \/ server' = [server EXCEPT !.disconnect = server.stream.id]
           \/ server' = [server EXCEPT !.stream.finished = TRUE]
    PROVE  IndInv'
<1>. DEFINE s == server
<1>1. /\ Sound(s) /\ IsServer(s) /\ StreamOK(s) /\ HasSession(s) /\ SessionOK(s)
      /\ s.nonces \in Nat /\ s.channels \in Nat /\ s.channels <= MaxChannels /\ s.out = {}
      /\ s.stream \in [id : 1 .. s.nonces, addr : Nat, headersSent : BOOLEAN, finished : BOOLEAN]
  BY DEF IndInv, Sound, IsServer, StreamOK
<1>2. /\ IsServer(s') /\ s'.sess = s.sess /\ s'.byAddr = s.byAddr
      /\ s'.channels = s.channels /\ s'.nonces = s.nonces /\ s'.out = s.out
      /\ s'.disconnect \in {s.disconnect, s.stream.id}
      /\ s'.stream.id = s.stream.id /\ s'.stream.addr = s.stream.addr
      /\ s'.stream.headersSent = s.stream.headersSent
      /\ s'.stream \in [id : 1 .. s.nonces, addr : Nat, headersSent : BOOLEAN,
                        finished : BOOLEAN]
  <2>1. CASE s' = [s EXCEPT !.disconnect = s.stream.id]
    BY <1>1, <2>1 DEF IsServer
  <2>2. CASE s' = [s EXCEPT !.stream.finished = TRUE]
    <3>. DEFINE v == [s.stream EXCEPT !.finished = TRUE]
    <3>1. /\ v.id = s.stream.id /\ v.addr = s.stream.addr
          /\ v.headersSent = s.stream.headersSent
          /\ v \in [id : 1 .. s.nonces, addr : Nat, headersSent : BOOLEAN, finished : BOOLEAN]
      BY <1>1
    <3>2. s' = [s EXCEPT !.stream = v]
      BY <2>2
    <3>. HIDE DEF v
    <3>3. /\ IsServer(s') /\ s'.sess = s.sess /\ s'.byAddr = s.byAddr
          /\ s'.channels = s.channels /\ s'.nonces = s.nonces /\ s'.out = s.out
          /\ s'.disconnect = s.disconnect /\ s'.stream = v
      BY <1>1, <3>2 DEF IsServer
    <3>. QED BY <3>1, <3>3
  <2>. QED BY <2>1, <2>2
<1>3. HasSession(s') /\ HasStream(s') /\ Budget(s') = Budget(s)
  BY <1>1, <1>2, HasOne DEF HasSession, Budget
<1>4. Preserves(s, s')
  <2>1. \A to \in Nat : \A epoch, n : Agrees(s, to, epoch, n) => Agrees(s', to, epoch, n)
    BY <1>1, <1>2, <1>3 DEF Agrees
  <2>2. \A key \in [client : Nat, server : Nat] :
           \A seq : UsedUp(s, key, seq) => UsedUp(s', key, seq)
    BY <1>1, <1>2, <1>3 DEF UsedUp
  <2>. QED BY <1>1, <1>2, <2>1, <2>2 DEF Preserves
<1>5. Sound(s)'
  <2>1. SessionOK(s')
    BY <1>1, <1>2, <1>3 DEF SessionOK
  <2>2. StreamOK(s)'
    BY <1>1, <1>2, <1>3 DEF StreamOK
  <2>3. s'.byAddr = IF HasSession(s') THEN {s'.sess.addr} ELSE {}
    BY <1>1, <1>2, <1>3 DEF Sound
  <2>4. s'.disconnect \in 0 .. s'.nonces /\ (s'.disconnect # 0 => s'.disconnect \in ended')
    BY <1>1, <1>2 DEF Sound
  <2>5. \A d \in s'.out : DownOK(s', d)
    BY <1>1, <1>2
  <2>. QED BY <1>2, <1>3, <2>1, <2>2, <2>3, <2>4, <2>5 DEF Sound
<1>6. Settled(s)'
  <2>1. HelloFirst(s)' /\ PeerKnown(s)'
    BY <1>1, <1>2 DEF IndInv, HelloFirst, PeerKnown, HasSession
  <2>2. PeerOK(s)'
    BY <1>1, <1>2 DEF IndInv, PeerOK, HasSession, Said
  <2>. QED BY <1>5, <2>1, <2>2 DEF Settled
<1>7. AppliedOK'
  BY <1>4, AppliedStays DEF IndInv
<1>8. net' \subseteq net \cup {} /\ \A d \in {} : DownOK(server', d)
  OBVIOUS
<1>. QED BY <1>1, <1>2, <1>4, <1>6, <1>7, <1>8, ServerStep

LEMMA ServerCrashesKeeps == ASSUME IndInv, ServerCrashes PROVE IndInv'
<1>. DEFINE s == server
<1>1. /\ s.nonces \in Nat /\ s.channels \in Nat /\ s.channels <= MaxChannels
      /\ s' = Started(s.channels, s.nonces)
      /\ UNCHANGED <<client, net, applied, ended>>
  BY DEF IndInv, Sound, IsServer, ServerCrashes
<1>2. /\ IsServer(s') /\ s'.sess = NoSession /\ s'.stream = NoStream /\ s'.byAddr = {}
      /\ s'.disconnect = 0 /\ s'.channels = s.channels /\ s'.nonces = s.nonces
      /\ s'.out = {}
  BY <1>1 DEF IsServer, Started
<1>3. ~HasSession(s') /\ ~HasStream(s')
  BY <1>2 DEF HasSession, HasStream
<1>4. Preserves(s, s')
  BY <1>1, <1>2, <1>3 DEF Preserves, Agrees, UsedUp
<1>5. Settled(s)'
  <2>1. Sound(s)'
    BY <1>1, <1>2, <1>3 DEF Sound
  <2>. QED BY <1>3, <2>1 DEF Settled, HelloFirst, PeerKnown, PeerOK
<1>6. AppliedOK'
  BY <1>1, <1>4, AppliedStays DEF IndInv
<1>7. net' \subseteq net \cup {} /\ \A d \in {} : DownOK(server', d)
  BY <1>1
<1>. QED BY <1>1, <1>2, <1>4, <1>5, <1>6, <1>7, ServerStep

-----------------------------------------------------------------------------
(* The client's steps.                                                     *)

\* A step of one incarnation keeps the invariant if that incarnation is sound,
\* gives out no number twice, and sends what it may.
LEMMA ClientStep ==
    ASSUME IndInv, NEW e \in Incarnations, NEW c, ClientIs(server, e, c),
           client' = [client EXCEPT ![e] = c],
           client[e] # Absent => client[e].chan.nextSeq <= c.chan.nextSeq,
           UNCHANGED <<server, applied, ended>>,
           NEW O, net' \subseteq net \cup O,
           \A d \in O : d.from = e /\ d.to = Server /\ SentBy(e, c, server.nonces, d)
    PROVE  IndInv'
<1>1. c # Absent /\ c.chan.nextSeq \in Nat
  BY SpaceForThree DEF ClientIs, Absent, IsChannel, SeqNum
<1>2. /\ DOMAIN client = Incarnations /\ DOMAIN client' = Incarnations
      /\ client'[e] = c /\ \A k \in Incarnations : k # e => client'[k] = client[k]
  BY DEF IndInv
<1>3. \A k \in Incarnations : client[k] # Absent => client'[k] # Absent
  BY <1>1, <1>2
<1>4. \A k \in Incarnations : client'[k] # Absent => ClientIs(server', k, client'[k])
  BY <1>2 DEF IndInv
<1>5. \A k \in Incarnations : client[k] # Absent =>
         \A i \in Nat : \A m : Said(k, i, m) => SaidBy(k, client'[k].chan.nextSeq, i, m)
  <2>1. ASSUME NEW k \in Incarnations, client[k] # Absent, NEW i \in Nat, NEW m, Said(k, i, m)
        PROVE  SaidBy(k, client'[k].chan.nextSeq, i, m)
    <3>1. CASE k = e
      <4>1. client[k].chan.nextSeq \in Nat /\ client[k].chan.nextSeq <= c.chan.nextSeq
        BY <2>1, <3>1, SpaceForThree DEF IndInv, ClientIs, IsChannel, SeqNum
      <4>. QED BY <1>1, <1>2, <2>1, <3>1, <4>1 DEF Said, SaidBy
    <3>2. CASE k # e
      BY <1>2, <2>1, <3>2 DEF Said
    <3>. QED BY <3>1, <3>2
  <2>. QED BY <2>1
<1>6. Sound(server)' /\ HelloFirst(server)' /\ PeerKnown(server)'
  BY DEF IndInv, Sound, StreamOK, HelloFirst, PeerKnown
<1>7. PeerOK(server)'
  <2>. SUFFICES ASSUME HasSession(server)
       PROVE  LET x == server.sess
                  k == client'[x.addr]
              IN  /\ k # Absent
                  /\ x.chan.ack # None => x.chan.ack < k.chan.nextSeq
                  /\ \A i \in DOMAIN x.chan.early :
                        SaidBy(x.addr, k.chan.nextSeq, i, x.chan.early[i])
    BY DEF PeerOK, Said
  <2>. DEFINE x == server.sess
              a == x.addr
  <2>1. /\ a \in Incarnations /\ client[a] # Absent /\ IsChannel(x.chan, Nat)
        /\ x.chan.ack # None => x.chan.ack < client[a].chan.nextSeq
        /\ \A i \in DOMAIN x.chan.early : Said(a, i, x.chan.early[i])
    BY DEF IndInv, Sound, SessionOK, IsSession, PeerOK
  <2>2. \A i \in DOMAIN x.chan.early : i \in Nat
    BY <2>1, SpaceForThree DEF IsChannel, IsEntries, SeqNum
  <2>3. \A i \in DOMAIN x.chan.early :
           SaidBy(a, client'[a].chan.nextSeq, i, x.chan.early[i])
    BY <1>5, <2>1, <2>2
  <2>4. x.chan.ack # None => x.chan.ack < client'[a].chan.nextSeq
    <3>1. CASE a = e
      <4>1. /\ client[a].chan.nextSeq \in Nat /\ client[a].chan.nextSeq <= c.chan.nextSeq
            /\ x.chan.ack \in Nat \cup {None}
        BY <2>1, <3>1, SpaceForThree DEF IndInv, ClientIs, IsChannel, SeqNum
      <4>. QED BY <1>1, <1>2, <2>1, <3>1, <4>1
    <3>2. CASE a # e
      BY <1>2, <2>1, <3>2
    <3>. QED BY <3>1, <3>2
  <2>. QED BY <1>3, <2>1, <2>3, <2>4
<1>8. AppliedOK'
  BY DEF IndInv, AppliedOK, InputAppliedOnce
<1>9. ASSUME NEW d \in net'
      PROVE  IF d.to = Server THEN UpOK(d)' ELSE DownOK(server', d)
  <2>1. CASE d \in net /\ d.to = Server
    <3>1. UpOK(d)
      BY <2>1 DEF IndInv
    <3>2. SentBy(d.from, client'[d.from], server.nonces, d)
      <4>1. CASE d.kind = "control"
        <5>1. /\ d.kind # "input" /\ d.frame \in Frame(Nat) /\ d.frame.seq \in Nat
              /\ d = Control(d.from, Server, d.frame) /\ d.frame.epoch = d.from
              /\ d.frame.hasPayload => Said(d.from, d.frame.seq, d.frame.payload)
              /\ d.from \in Incarnations /\ client[d.from] # Absent
          BY <3>1, <4>1, SpaceForThree DEF UpOK, SentBy, Said, Frame, SeqNum
        <5>2. d.frame.hasPayload =>
                 SaidBy(d.from, client'[d.from].chan.nextSeq, d.frame.seq, d.frame.payload)
          BY <1>5, <5>1
        <5>. QED BY <4>1, <5>1, <5>2 DEF SentBy
      <4>2. CASE d.kind # "control"
        BY <3>1, <4>2 DEF UpOK, SentBy
      <4>. QED BY <4>1, <4>2
    <3>3. UpOK(d)'
      BY <1>3, <3>1, <3>2 DEF UpOK
    <3>. QED BY <2>1, <3>3
  <2>2. CASE d \in net /\ d.to # Server
    BY <2>2 DEF IndInv
  <2>3. CASE d \in O
    BY <1>1, <1>2, <2>3 DEF UpOK
  <2>. QED BY <2>1, <2>2, <2>3
<1>. QED BY <1>2, <1>4, <1>6, <1>7, <1>8, <1>9 DEF IndInv

\* A frame of the client's own.
LEMMA ClientsFrame ==
    ASSUME NEW e \in Incarnations, NEW c, NEW nonces, NEW f \in Frame(Nat), f.epoch = e,
           f.hasPayload => SaidBy(e, c.chan.nextSeq, f.seq, f.payload)
    PROVE  LET d == Control(e, Server, f) IN
           d.from = e /\ d.to = Server /\ SentBy(e, c, nonces, d)
BY DEF Control, SentBy

\* A client with another message sent, in state st with k KeepAlives.
Having(c, msg, st, k) ==
    [c EXCEPT !.state = st, !.chan = AfterSend(c.chan, msg), !.keepAlives = k]

\* Another message: one number more, and what it may hold.
LEMMA ClientSends ==
    ASSUME NEW s, NEW e \in Incarnations, NEW c, ClientIs(s, e, c), c.state = "streaming",
           NEW msg \in {KeepAlive, Bye},
           NEW st \in {"streaming", "leaving"}, NEW k \in 0 .. MaxKeepAlives,
           c.chan.nextSeq + 1 <= k + 2, st = "streaming" => c.chan.nextSeq + 1 <= k + 1
    PROVE  /\ ClientIs(s, e, Having(c, msg, st, k))
           /\ c.chan.nextSeq <= Having(c, msg, st, k).chan.nextSeq
           /\ SentBy(e, Having(c, msg, st, k), s.nonces,
                     Control(e, Server, SendFrame(c.chan, msg)))
<1>. DEFINE b == AfterSend(c.chan, msg)
            t == Having(c, msg, st, k)
            f == SendFrame(c.chan, msg)
            n == c.chan.nextSeq
<1>0. t = [c EXCEPT !.state = st, !.chan = b, !.keepAlives = k]
  BY DEF Having
<1>1. /\ IsChannel(c.chan, Nat) /\ n \in Nat /\ n # 0 /\ msg \in Nat
      /\ MaxKeepAlives \in Nat /\ SeqMod \in Nat /\ n + 1 < SeqMod
  <2>1. IsChannel(c.chan, Nat) /\ n \in Nat /\ n # 0 /\ msg \in Nat
    BY SpaceForThree DEF ClientIs, IsChannel, SeqNum, KeepAlive, Bye
  <2>2. MaxKeepAlives \in Nat /\ SeqMod \in Nat
    BY EndpointBounds, SpaceForThree
  <2>. QED BY <2>1, <2>2, NumbersSuffice
<1>2. /\ IsChannel(b, Nat)
      /\ b.nextSeq = n + 1
      /\ b.ack = c.chan.ack /\ b.early = c.chan.early
      /\ b.epoch = c.chan.epoch /\ b.peerEpoch = c.chan.peerEpoch
      /\ DOMAIN b.unacked = DOMAIN c.chan.unacked \cup {n}
      /\ \A i \in DOMAIN c.chan.unacked : i # n => b.unacked[i] = c.chan.unacked[i]
      /\ b.unacked[n].payload = msg
  <2>1. NextSeq(n) = n + 1
    BY <1>1 DEF NextSeq, Plus
  <2>. QED BY ZenonT(40), <1>1, <2>1, AfterSendFields
<1>3. f \in Frame(Nat) /\ f.epoch = e /\ f.payload = msg /\ f.seq = n
  BY <1>1, SpaceForThree DEF SendFrame, DataFrame, Frame, WireAck, IsChannel, SeqNum, ClientIs
<1>. HIDE DEF b, f, t
<1>4. /\ t \in [state : {"negotiating", "streaming", "leaving", "gone"}, chan : {b},
                key : {c.key}, csd : BOOLEAN, keepAlives : 0 .. MaxKeepAlives, inputs : Nat]
      /\ t.chan = b /\ t.key = c.key /\ t.state = st /\ t.keepAlives = k
  BY <1>0 DEF ClientIs
<1>5. SaidBy(e, n + 1, n, msg)
  BY <1>1 DEF SaidBy
<1>6. \A i \in DOMAIN b.unacked : SaidBy(e, n + 1, i, b.unacked[i].payload)
  <2>1. \A i \in DOMAIN c.chan.unacked : i \in Nat /\ SaidBy(e, n, i, c.chan.unacked[i].payload)
    BY <1>1, SpaceForThree DEF ClientIs, IsChannel, IsEntries, SeqNum
  <2>2. \A i \in DOMAIN c.chan.unacked : i # n /\ SaidBy(e, n + 1, i, c.chan.unacked[i].payload)
    BY <1>1, <2>1 DEF SaidBy
  <2>. QED BY <1>2, <1>5, <2>2
<1>7. ClientIs(s, e, t)
  <2>1. b.nextSeq # 0 /\
          b.nextSeq <= t.keepAlives + (IF t.state \in {"leaving", "gone"} THEN 2 ELSE 1)
    BY <1>1, <1>2, <1>4
  <2>2. t.key # Pairing
    BY <1>4 DEF ClientIs
  <2>. QED BY <1>2, <1>4, <1>6, <2>1, <2>2 DEF ClientIs
<1>8. SentBy(e, t, s.nonces, Control(e, Server, f))
  BY <1>2, <1>3, <1>4, <1>5, ClientsFrame
<1>. QED BY <1>1, <1>2, <1>4, <1>7, <1>8 DEF t, b, f

LEMMA ClientStartsKeeps ==
    ASSUME IndInv, NEW e \in Incarnations, ClientStarts(e)
    PROVE  IndInv'
<1>. DEFINE new == NewChannel(e)
            b == AfterSend(new, Hello(e))
            c == NewClient(e)
            f == SendFrame(new, Hello(e))
            O == Sends(e, {f})
<1>1. /\ e \in Nat /\ e # 0 /\ Hello(e) \in Nat /\ MaxKeepAlives \in Nat
  BY Keys, EndpointBounds DEF Hello
<1>2. /\ IsChannel(new, Nat) /\ new.nextSeq = 0 /\ new.epoch = e /\ new.ack = None
      /\ new.peerEpoch = None /\ DOMAIN new.unacked = {} /\ DOMAIN new.early = {}
  BY <1>1, NewChannelFields DEF NewChannel, NoEntries
<1>. HIDE DEF new
<1>3. /\ IsChannel(b, Nat)
      /\ b.nextSeq = NextSeq(new.nextSeq)
      /\ b.ack = new.ack /\ b.early = new.early
      /\ b.epoch = new.epoch /\ b.peerEpoch = new.peerEpoch
      /\ DOMAIN b.unacked = DOMAIN new.unacked \cup {new.nextSeq}
      /\ b.unacked[new.nextSeq].payload = Hello(e)
  BY <1>1, <1>2, AfterSendFields
<1>4. NextSeq(0) = 1
  BY SpaceForThree DEF NextSeq, Plus
<1>5. f \in Frame(Nat) /\ f.epoch = e /\ f.payload = Hello(e) /\ f.seq = 0
  BY <1>1, <1>2, SpaceForThree DEF SendFrame, DataFrame, Frame, WireAck, SeqNum
<1>. HIDE DEF b, f
<1>6. c = [state |-> "negotiating", chan |-> b, key |-> Pairing, csd |-> FALSE,
           keepAlives |-> 0, inputs |-> 0]
  BY DEF NewClient, b, new
<1>7. /\ c \in [state : {"negotiating", "streaming", "leaving", "gone"}, chan : {b},
                key : {Pairing}, csd : BOOLEAN, keepAlives : 0 .. MaxKeepAlives, inputs : Nat]
      /\ c.chan = b /\ c.key = Pairing /\ c.state = "negotiating" /\ c.keepAlives = 0
  BY <1>1, <1>6
<1>. HIDE DEF c
<1>8. SaidBy(e, 1, 0, Hello(e))
  BY <1>1 DEF SaidBy
<1>9. ClientIs(server, e, c)
  <2>1. \A i \in DOMAIN b.unacked : SaidBy(e, b.nextSeq, i, b.unacked[i].payload)
    BY <1>2, <1>3, <1>4, <1>8
  <2>. QED BY <1>2, <1>3, <1>4, <1>7, <2>1 DEF ClientIs
<1>10. client[e] = Absent /\ client' = [client EXCEPT ![e] = c]
  BY DEF ClientStarts, c
<1>11. net' \subseteq net \cup O /\ UNCHANGED <<server, applied, ended>>
  BY WiresKeep DEF ClientStarts, f, new
<1>12. \A d \in O : d.from = e /\ d.to = Server /\ SentBy(e, c, server.nonces, d)
  BY SMTT(40), <1>2, <1>3, <1>4, <1>5, <1>7, <1>8, ClientsFrame DEF Sends
<1>. HIDE DEF O
<1>. QED BY <1>9, <1>10, <1>11, <1>12, ClientStep

\* An incarnation that has started is as ClientIs has it.
LEMMA ClientIsSound ==
    ASSUME IndInv, NEW e \in Incarnations, client[e] # Absent
    PROVE  ClientIs(server, e, client[e]) /\ client[e].chan.nextSeq \in Nat
<1>1. ClientIs(server, e, client[e])
  BY DEF IndInv
<1>2. client[e].chan.nextSeq \in SeqNum
  BY <1>1 DEF ClientIs, IsChannel
<1>. QED BY <1>1, <1>2, SpaceForThree DEF SeqNum

\* Whatever ends an incarnation.
LEMMA ClientEnds ==
    ASSUME IndInv, NEW e \in Incarnations, client[e] # Absent,
           client' = [client EXCEPT ![e].state = "gone"],
           UNCHANGED <<server, applied, ended>>, net' \subseteq net
    PROVE  IndInv'
<1>. DEFINE c == client[e]
            t == [c EXCEPT !.state = "gone"]
<1>1. ClientIs(server, e, c) /\ c.chan.nextSeq \in Nat /\ MaxKeepAlives \in Nat
  BY ClientIsSound, EndpointBounds
<1>2. /\ t \in [state : {"negotiating", "streaming", "leaving", "gone"}, chan : {c.chan},
                key : {c.key}, csd : BOOLEAN, keepAlives : 0 .. MaxKeepAlives, inputs : Nat]
      /\ t.chan = c.chan /\ t.key = c.key /\ t.state = "gone" /\ t.keepAlives = c.keepAlives
      /\ c.keepAlives \in Nat
  BY <1>1 DEF ClientIs
<1>3. client' = [client EXCEPT ![e] = t]
  OBVIOUS
<1>. HIDE DEF t
<1>4. ClientIs(server, e, t)
  <2>1. t.chan.nextSeq <= t.keepAlives + 2
    <3>1. c.chan.nextSeq <= c.keepAlives + (IF c.state \in {"leaving", "gone"} THEN 2 ELSE 1)
      BY <1>1 DEF ClientIs
    <3>. QED BY <1>1, <1>2, <3>1
  <2>. QED BY <1>1, <1>2, <2>1 DEF ClientIs
<1>5. c.chan.nextSeq <= t.chan.nextSeq
  BY <1>1, <1>2
<1>. DEFINE O == {}
<1>6. /\ net' \subseteq net \cup O
      /\ \A d \in O : d.from = e /\ d.to = Server /\ SentBy(e, t, server.nonces, d)
  OBVIOUS
<1>. HIDE DEF O
<1>7. UNCHANGED <<server, applied, ended>> /\
        (client[e] # Absent => c.chan.nextSeq <= t.chan.nextSeq)
  BY <1>5
<1>. QED BY <1>3, <1>4, <1>6, <1>7, ClientStep

LEMMA ClientKeepAliveKeeps ==
    ASSUME IndInv, NEW e \in Incarnations, ClientKeepAlive(e)
    PROVE  IndInv'
<1>. DEFINE c == client[e]
            t == Having(c, KeepAlive, "streaming", c.keepAlives + 1)
            O == {Control(e, Server, SendFrame(c.chan, KeepAlive))}
<1>1. /\ c.state = "streaming" /\ c # Absent
      /\ ClientIs(server, e, c) /\ c.chan.nextSeq \in Nat
      /\ c.keepAlives + 1 \in 0 .. MaxKeepAlives
  <2>1. c.state = "streaming" /\ c # Absent /\ c.keepAlives < MaxKeepAlives
    BY DEF ClientKeepAlive, Absent
  <2>2. ClientIs(server, e, c) /\ c.chan.nextSeq \in Nat
    BY <2>1, ClientIsSound
  <2>3. c.keepAlives \in 0 .. MaxKeepAlives /\ MaxKeepAlives \in Nat
    BY <2>2, EndpointBounds DEF ClientIs
  <2>. QED BY <2>1, <2>2, <2>3
<1>2. /\ c.chan.nextSeq + 1 <= (c.keepAlives + 1) + 2
      /\ "streaming" = "streaming" => c.chan.nextSeq + 1 <= (c.keepAlives + 1) + 1
  <2>1. c.chan.nextSeq <= c.keepAlives + 1 /\ c.keepAlives \in 0 .. MaxKeepAlives
    BY <1>1 DEF ClientIs
  <2>2. MaxKeepAlives \in Nat
    BY EndpointBounds
  <2>. QED BY <1>1, <2>1, <2>2
<1>3. /\ ClientIs(server, e, t)
      /\ c.chan.nextSeq <= t.chan.nextSeq
      /\ \A d \in O : d.from = e /\ d.to = Server /\ SentBy(e, t, server.nonces, d)
  <2>1. "streaming" \in {"streaming", "leaving"} /\ KeepAlive \in {KeepAlive, Bye} /\
          c.keepAlives + 1 \in 0 .. MaxKeepAlives
    BY <1>1
  <2>2. /\ ClientIs(server, e, t)
        /\ c.chan.nextSeq <= t.chan.nextSeq
        /\ SentBy(e, t, server.nonces, Control(e, Server, SendFrame(c.chan, KeepAlive)))
    BY <1>1, <1>2, <2>1, ClientSends, Zenon
  <2>3. \A f : Control(e, Server, f).from = e /\ Control(e, Server, f).to = Server
    BY DEF Control
  <2>. HIDE DEF t
  <2>. QED BY <2>2, <2>3
<1>4. client' = [client EXCEPT ![e] = t]
  <2>1. t = [c EXCEPT !.chan = AfterSend(@, KeepAlive), !.keepAlives = @ + 1]
    BY <1>1 DEF ClientIs, Having
  <2>. HIDE DEF t
  <2>. QED BY <2>1 DEF ClientKeepAlive
<1>5. net' \subseteq net \cup O /\ UNCHANGED <<server, applied, ended>>
  BY WiresKeep DEF ClientKeepAlive, Sends
<1>. HIDE DEF t, O
<1>. QED BY <1>3, <1>4, <1>5, ClientStep

LEMMA ClientLeavesKeeps ==
    ASSUME IndInv, NEW e \in Incarnations, ClientLeaves(e)
    PROVE  IndInv'
<1>. DEFINE c == client[e]
            t == Having(c, Bye, "leaving", c.keepAlives)
            O == {Control(e, Server, SendFrame(c.chan, Bye))}
<1>1. /\ c.state = "streaming" /\ c # Absent
      /\ ClientIs(server, e, c) /\ c.chan.nextSeq \in Nat
      /\ c.keepAlives \in 0 .. MaxKeepAlives
  <2>1. c.state = "streaming" /\ c # Absent
    BY DEF ClientLeaves, Absent
  <2>2. ClientIs(server, e, c) /\ c.chan.nextSeq \in Nat
    BY <2>1, ClientIsSound
  <2>. QED BY <2>1, <2>2 DEF ClientIs
<1>2. c.chan.nextSeq + 1 <= c.keepAlives + 2 /\
        ("leaving" = "streaming" => c.chan.nextSeq + 1 <= c.keepAlives + 1)
  <2>1. c.chan.nextSeq <= c.keepAlives + 1
    BY <1>1 DEF ClientIs
  <2>2. MaxKeepAlives \in Nat
    BY EndpointBounds
  <2>. QED BY <1>1, <2>1, <2>2
<1>3. /\ ClientIs(server, e, t)
      /\ c.chan.nextSeq <= t.chan.nextSeq
      /\ \A d \in O : d.from = e /\ d.to = Server /\ SentBy(e, t, server.nonces, d)
  <2>1. "leaving" \in {"streaming", "leaving"} /\ Bye \in {KeepAlive, Bye} /\
          c.keepAlives \in 0 .. MaxKeepAlives
    BY <1>1
  <2>2. /\ ClientIs(server, e, t)
        /\ c.chan.nextSeq <= t.chan.nextSeq
        /\ SentBy(e, t, server.nonces, Control(e, Server, SendFrame(c.chan, Bye)))
    BY <1>1, <1>2, <2>1, ClientSends, Zenon
  <2>3. \A f : Control(e, Server, f).from = e /\ Control(e, Server, f).to = Server
    BY DEF Control
  <2>. HIDE DEF t
  <2>. QED BY <2>2, <2>3
<1>4. client' = [client EXCEPT ![e] = t]
  <2>1. t = [c EXCEPT !.state = "leaving", !.chan = AfterSend(@, Bye)]
    BY <1>1 DEF ClientIs, Having
  <2>. HIDE DEF t
  <2>. QED BY <2>1 DEF ClientLeaves
<1>5. net' \subseteq net \cup O /\ UNCHANGED <<server, applied, ended>>
  BY WiresKeep DEF ClientLeaves, Sends
<1>. HIDE DEF t, O
<1>. QED BY <1>3, <1>4, <1>5, ClientStep

LEMMA ClientInputKeeps ==
    ASSUME IndInv, NEW e \in Incarnations, ClientInput(e)
    PROVE  IndInv'
<1>. DEFINE c == client[e]
            t == [c EXCEPT !.inputs = c.inputs + 1]
            O == {Input(e, c.key, c.inputs + 1)}
<1>1. c.state = "streaming" /\ c # Absent /\ ClientIs(server, e, c) /\ c.chan.nextSeq \in Nat
  <2>1. c.state = "streaming" /\ c # Absent
    BY DEF ClientInput, Absent
  <2>. QED BY <2>1, ClientIsSound
<1>2. /\ t \in [state : {"negotiating", "streaming", "leaving", "gone"}, chan : {c.chan},
                key : {c.key}, csd : BOOLEAN, keepAlives : 0 .. MaxKeepAlives, inputs : Nat]
      /\ t.chan = c.chan /\ t.key = c.key /\ t.state = c.state /\ t.keepAlives = c.keepAlives
      /\ c.inputs + 1 \in Nat
  BY <1>1 DEF ClientIs
<1>3. client' = [client EXCEPT ![e] = t]
  BY DEF ClientInput
<1>. HIDE DEF t
<1>4. ClientIs(server, e, t) /\ c.chan.nextSeq <= t.chan.nextSeq
  BY <1>1, <1>2 DEF ClientIs
<1>5. \A d \in O : d.from = e /\ d.to = Server /\ SentBy(e, t, server.nonces, d)
  <2>1. c.key # Pairing
    BY <1>1 DEF ClientIs
  <2>2. PICK n \in 1 .. server.nonces : c.key = Derive(e, n)
    BY <1>1, <2>1 DEF ClientIs
  <2>3. server.nonces \in Nat
    BY DEF IndInv, Sound, IsServer
  <2>4. c.key \in [client : Nat, server : Nat] /\ c.key.server <= server.nonces
    BY <2>2, <2>3, Keys
  <2>. QED BY <1>2, <2>1, <2>4 DEF Input, SentBy
<1>6. net' \subseteq net \cup O /\ UNCHANGED <<server, applied, ended>>
  BY WiresKeep DEF ClientInput
<1>. HIDE DEF O
<1>. QED BY <1>3, <1>4, <1>5, <1>6, ClientStep

LEMMA ClientTicksKeeps ==
    ASSUME IndInv, NEW e \in Incarnations, Alive(e),
           NEW due \in SUBSET DOMAIN client[e].chan.unacked, ClientTicks(e, due)
    PROVE  IndInv'
<1>. DEFINE c == client[e]
<1>1. c # Absent /\ ClientIs(server, e, c) /\ c.chan.nextSeq \in Nat
  <2>1. c # Absent
    BY DEF Alive, Absent
  <2>. QED BY <2>1, ClientIsSound
<1>2. CASE GivesUp(c.chan, due)
  <2>1. net' \subseteq net
    <3>1. net' \in Wires(net \cup {}, client')
      BY <1>2 DEF ClientTicks
    <3>. QED BY <3>1, WiresKeep
  <2>2. client' = [client EXCEPT ![e].state = "gone"] /\ UNCHANGED <<server, applied, ended>>
    BY <1>2 DEF ClientTicks
  <2>. QED BY <1>1, <2>1, <2>2, ClientEnds
<1>3. CASE ~GivesUp(c.chan, due)
  <2>. DEFINE b == AfterTick(c.chan, due)
              t == [c EXCEPT !.chan = b]
              O == Sends(e, TickFrames(c.chan, due))
  <2>1. IsChannel(c.chan, Nat) /\ c.chan.epoch = e
    BY <1>1 DEF ClientIs
  <2>2. /\ IsChannel(b, Nat)
        /\ b.nextSeq = c.chan.nextSeq
        /\ b.ack = c.chan.ack /\ b.early = c.chan.early
        /\ b.epoch = c.chan.epoch /\ b.peerEpoch = c.chan.peerEpoch
        /\ DOMAIN b.unacked = DOMAIN c.chan.unacked
        /\ \A i \in DOMAIN c.chan.unacked : b.unacked[i].payload = c.chan.unacked[i].payload
    BY <1>3, <2>1, AfterTickFields
  <2>3. client' = [client EXCEPT ![e] = t]
    BY <1>3 DEF ClientTicks
  <2>4. net' \subseteq net \cup O /\ UNCHANGED <<server, applied, ended>>
    BY <1>3, WiresKeep DEF ClientTicks
  <2>. HIDE DEF b
  <2>5. /\ t \in [state : {"negotiating", "streaming", "leaving", "gone"}, chan : {b},
                  key : {c.key}, csd : BOOLEAN, keepAlives : 0 .. MaxKeepAlives, inputs : Nat]
        /\ t.chan = b /\ t.key = c.key /\ t.state = c.state /\ t.keepAlives = c.keepAlives
    BY <1>1 DEF ClientIs
  <2>. HIDE DEF t
  <2>6. ClientIs(server, e, t) /\ c.chan.nextSeq <= t.chan.nextSeq
    BY <1>1, <2>2, <2>5 DEF ClientIs
  <2>7. ASSUME NEW f \in TickFrames(c.chan, due)
        PROVE  LET d == Control(e, Server, f)
               IN d.from = e /\ d.to = Server /\ SentBy(e, t, server.nonces, d)
    <3>1. /\ c.chan.nextSeq \in SeqNum /\ WireAck(c.chan) \in SeqNum /\ e \in Nat
      <4>1. c.chan.nextSeq \in SeqNum /\ c.chan.ack \in SeqNum \cup {None}
        BY <2>1 DEF IsChannel
      <4>2. WireAck(c.chan) \in SeqNum
        BY <4>1, SpaceForThree DEF WireAck, SeqNum
      <4>. QED BY <4>1, <4>2, Keys
    <3>2. CASE f \in {DataFrame(c.chan, i, c.chan.unacked[i].payload) : i \in due}
      <4>1. PICK i \in due : f = DataFrame(c.chan, i, c.chan.unacked[i].payload)
        BY <3>2
      <4>2. i \in SeqNum /\ c.chan.unacked[i].payload \in Nat
        BY <2>1 DEF IsChannel, IsEntries
      <4>3. /\ f \in Frame(Nat) /\ f.epoch = e /\ f.seq = i
            /\ f.payload = c.chan.unacked[i].payload
        BY <2>1, <3>1, <4>1, <4>2 DEF DataFrame, Frame
      <4>4. SaidBy(e, t.chan.nextSeq, f.seq, f.payload)
        BY <1>1, <2>2, <2>5, <4>3 DEF ClientIs
      <4>. QED BY <4>3, <4>4, ClientsFrame
    <3>3. CASE f = BareAck(c.chan)
      <4>1. f \in Frame(Nat) /\ f.epoch = e /\ ~f.hasPayload
        BY <2>1, <3>1, <3>3 DEF BareAck, Frame, None
      <4>. QED BY <4>1, ClientsFrame
    <3>. QED BY <3>2, <3>3 DEF TickFrames
  <2>8. \A d \in O : d.from = e /\ d.to = Server /\ SentBy(e, t, server.nonces, d)
    BY <2>7 DEF Sends
  <2>. HIDE DEF O
  <2>. QED BY <2>3, <2>4, <2>6, <2>8, ClientStep
<1>. QED BY <1>2, <1>3

\* An offer made in a later session agrees with the session there is now as one
\* made in an earlier session would.
LEMMA EarlierAgrees ==
    ASSUME NEW s, Sound(s), NEW to, NEW n, NEW later, Agrees(s, to, later, n),
           NEW epoch \in 1 .. s.channels, epoch < later
    PROVE  Agrees(s, to, epoch, n)
<1>1. HasSession(s) => s.sess.chan.epoch = s.channels
  BY DEF Sound, SessionOK
<1>2. later \in 1 .. s.channels /\ n \in 1 .. s.nonces /\ s.channels \in Nat
  BY DEF Agrees, Sound, IsServer
<1>3. HasSession(s) => epoch # s.sess.chan.epoch
  BY <1>1, <1>2
<1>. QED BY <1>2, <1>3 DEF Agrees

\* HeardAll's loop over what a frame delivers.
HeardStep(ctx, c, msg) == Negotiated(Heard(ctx.e, c, msg))
HeardSoFar(ctx, i, c) == c.chan = ctx.chan /\ ClientIs(ctx.s, ctx.e, c)

Hearing == INSTANCE LeftFolds WITH Step <- HeardStep, Good <- HeardSoFar

LEMMA HeardAllKeeps ==
    ASSUME NEW s, NEW e \in Incarnations, NEW c, ClientIs(s, e, c),
           NEW m \in Seq(Nat),
           \A i \in 1 .. Len(m) : m[i] > Bye => Agrees(s, e, c.chan.peerEpoch, m[i] - 1)
    PROVE  HeardAll(e, c, m).chan = c.chan /\ ClientIs(s, e, HeardAll(e, c, m))
<1>. DEFINE ctx == [s |-> s, e |-> e, chan |-> c.chan]
<1>1. ctx.s = s /\ ctx.e = e /\ ctx.chan = c.chan
  OBVIOUS
<1>2. HeardAll(e, c, m) = Hearing!Fold(ctx, c, m)
  BY <1>1, Zenon DEF HeardAll, HeardStep, Hearing!Fold, SX!FoldLeft, Hearing!SX!FoldLeft,
     SX!MapThenFoldSet, Hearing!SX!MapThenFoldSet, SX!Max, Hearing!SX!Max
<1>. HIDE DEF ctx
<1>3. HeardSoFar(ctx, 0, c)
  BY <1>1 DEF HeardSoFar
<1>4. ASSUME NEW i \in 1 .. Len(m), NEW x, HeardSoFar(ctx, i - 1, x)
      PROVE  HeardSoFar(ctx, i, HeardStep(ctx, x, m[i]))
  <2>. DEFINE y == Heard(e, x, m[i])
              z == Negotiated(y)
  <2>1. x.chan = c.chan /\ ClientIs(s, e, x) /\ HeardStep(ctx, x, m[i]) = z
    BY <1>1, <1>4 DEF HeardSoFar, HeardStep
  <2>2. m[i] \in Nat
    BY ElementIn
  <2>3. y.chan = x.chan /\ ClientIs(s, e, y)
    <3>1. x \in [state : {"negotiating", "streaming", "leaving", "gone"}, chan : {x.chan},
                 key : {x.key}, csd : BOOLEAN, keepAlives : 0 .. MaxKeepAlives, inputs : Nat]
      BY <2>1 DEF ClientIs
    <3>2. CASE m[i] = CodecPrivate
      <4>1. y = [x EXCEPT !.csd = TRUE]
        <5>1. m[i] # Bye /\ ~(m[i] > Bye)
          BY <3>2 DEF CodecPrivate, Bye
        <5>. QED BY <3>2, <5>1, Zenon DEF Heard
      <4>2. /\ y \in [state : {"negotiating", "streaming", "leaving", "gone"}, chan : {x.chan},
                      key : {x.key}, csd : BOOLEAN, keepAlives : 0 .. MaxKeepAlives,
                      inputs : Nat]
            /\ y.chan = x.chan /\ y.key = x.key /\ y.state = x.state
            /\ y.keepAlives = x.keepAlives
        BY <3>1, <4>1
      <4>. HIDE DEF y
      <4>. QED BY <2>1, <4>2 DEF ClientIs
    <3>3. CASE m[i] > Bye
      <4>. DEFINE n == m[i] - 1
      <4>1. y = [x EXCEPT !.key = Derive(e, n)]
        <5>1. m[i] # Bye /\ m[i] # CodecPrivate
          BY <2>2, <3>3 DEF CodecPrivate, Bye
        <5>. QED BY <3>3, <5>1, Zenon DEF Heard
      <4>2. /\ y \in [state : {"negotiating", "streaming", "leaving", "gone"}, chan : {x.chan},
                      key : {Derive(e, n)}, csd : BOOLEAN, keepAlives : 0 .. MaxKeepAlives,
                      inputs : Nat]
            /\ y.chan = x.chan /\ y.key = Derive(e, n) /\ y.state = x.state
            /\ y.keepAlives = x.keepAlives
        BY <3>1, <4>1
      <4>3. Agrees(s, e, x.chan.peerEpoch, n)
        BY <2>1, <3>3
      <4>4. n \in 1 .. s.nonces /\ Derive(e, n) # Pairing
        <5>1. n \in 1 .. s.nonces
          BY <4>3 DEF Agrees
        <5>2. n \in Nat /\ n # 0 /\ e \in Nat
          <6>1. n \in Nat /\ n # 0
            BY <2>2, <3>3 DEF Bye
          <6>. QED BY <6>1, Keys
        <5>. HIDE DEF n
        <5>. QED BY <5>1, <5>2, Keys
      <4>. HIDE DEF y, n
      <4>. QED BY <2>1, <4>2, <4>3, <4>4 DEF ClientIs
    <3>4. CASE m[i] = Bye
      <4>1. y = [x EXCEPT !.state = IF @ = "streaming" THEN "gone" ELSE @]
        <5>1. m[i] # CodecPrivate /\ ~(m[i] > Bye)
          BY <3>4 DEF CodecPrivate, Bye
        <5>. QED BY <3>4, <5>1, Zenon DEF Heard
      <4>2. /\ y \in [state : {"negotiating", "streaming", "leaving", "gone"}, chan : {x.chan},
                      key : {x.key}, csd : BOOLEAN, keepAlives : 0 .. MaxKeepAlives,
                      inputs : Nat]
            /\ y.chan = x.chan /\ y.key = x.key
            /\ y.state = IF x.state = "streaming" THEN "gone" ELSE x.state
            /\ y.keepAlives = x.keepAlives
        BY <3>1, <4>1
      <4>. HIDE DEF y
      <4>3. y.chan.nextSeq <= y.keepAlives + (IF y.state \in {"leaving", "gone"} THEN 2 ELSE 1)
        <5>1. x.chan.nextSeq <= x.keepAlives + (IF x.state \in {"leaving", "gone"} THEN 2 ELSE 1)
          BY <2>1 DEF ClientIs
        <5>2. x.chan.nextSeq \in SeqNum
          BY <2>1 DEF ClientIs, IsChannel
        <5>3. x.keepAlives \in 0 .. MaxKeepAlives /\ MaxKeepAlives \in Nat /\ SeqMod \in Nat
          BY <3>1, EndpointBounds, SpaceForThree
        <5>. QED BY <4>2, <5>1, <5>2, <5>3 DEF SeqNum
      <4>4. y.state \in {"streaming", "leaving"} => y.key # Pairing
        BY <2>1, <4>2 DEF ClientIs
      <4>. QED BY <2>1, <4>2, <4>3, <4>4 DEF ClientIs
    <3>5. m[i] = CodecPrivate \/ m[i] = Bye \/ m[i] > Bye
      BY <2>2 DEF CodecPrivate, Bye
    <3>. QED BY <3>2, <3>3, <3>4, <3>5
  <2>. HIDE DEF y
  <2>4. z.chan = y.chan /\ ClientIs(s, e, z)
    <3>1. CASE y.state = "negotiating" /\ y.csd /\ y.key # Pairing
      <4>1. z = [y EXCEPT !.state = "streaming"]
        BY <3>1 DEF Negotiated
      <4>2. /\ z \in [state : {"negotiating", "streaming", "leaving", "gone"}, chan : {y.chan},
                      key : {y.key}, csd : BOOLEAN, keepAlives : 0 .. MaxKeepAlives,
                      inputs : Nat]
            /\ z.chan = y.chan /\ z.key = y.key /\ z.state = "streaming"
            /\ z.keepAlives = y.keepAlives
        BY <2>3, <4>1 DEF ClientIs
      <4>. HIDE DEF z
      <4>3. z.chan.nextSeq <= z.keepAlives + (IF z.state \in {"leaving", "gone"} THEN 2 ELSE 1)
        BY <2>3, <3>1, <4>2 DEF ClientIs
      <4>. QED BY <2>3, <3>1, <4>2, <4>3 DEF ClientIs
    <3>2. CASE ~(y.state = "negotiating" /\ y.csd /\ y.key # Pairing)
      BY <2>3, <3>2 DEF Negotiated
    <3>. QED BY <3>1, <3>2
  <2>. QED BY <1>1, <2>1, <2>3, <2>4 DEF HeardSoFar
<1>5. HeardSoFar(ctx, Len(m), Hearing!Fold(ctx, c, m))
  BY <1>3, <1>4, Hearing!FoldKeeps
<1>. QED BY <1>1, <1>2, <1>5 DEF HeardSoFar

LEMMA ClientReceivesKeeps ==
    ASSUME IndInv, NEW e \in Incarnations, NEW d \in net, ClientReceives(e, d)
    PROVE  IndInv'
<1>. DEFINE c == client[e]
            f == d.frame
            b == AfterFrame(c.chan, f)
            m == Delivers(c.chan, f)
            h == [c EXCEPT !.chan = b]
            t == HeardAll(e, h, m)
            p == c.chan.peerEpoch
            top == 3
<1>1. /\ c # Absent /\ ClientIs(server, e, c) /\ c.chan.nextSeq \in Nat
      /\ d.to = e /\ Sound(server) /\ server.channels \in Nat
  <2>1. c # Absent /\ d.to = e
    BY DEF ClientReceives, Alive, Absent
  <2>. QED BY <2>1, ClientIsSound DEF IndInv, Sound, IsServer
<1>2. /\ f \in Frame(Nat) /\ f.epoch \in 1 .. server.channels
      /\ f.hasPayload => f.payload \in Nat /\ f.seq \in 0 .. top - 1
      /\ f.payload > Bye => Agrees(server, e, f.epoch, f.payload - 1)
  <2>1. DownOK(server, d)
    BY <1>1, Keys DEF IndInv
  <2>. QED BY <1>1, <2>1 DEF DownOK
<1>3. /\ IsChannel(c.chan, Nat) /\ p \in {None} \cup 1 .. server.channels
      /\ DOMAIN c.chan.early \subseteq 0 .. top - 1
      /\ \A i \in DOMAIN c.chan.early :
            c.chan.early[i] > Bye => Agrees(server, e, p, c.chan.early[i] - 1)
      /\ c.chan.ack # None => c.chan.ack < top
      /\ c.chan.ack \in {None} \cup 0 .. 2
  BY <1>1 DEF ClientIs
<1>4. top \in 0 .. SeqMod - 1
  BY SpaceForThree
<1>. DEFINE Came(i, v) == \/ i \in DOMAIN c.chan.early /\ v = c.chan.early[i]
                          \/ Hears(c.chan, f) /\ f.hasPayload /\ i = f.seq /\ v = f.payload
<1>5. /\ IsChannel(b, Nat)
      /\ b.nextSeq = c.chan.nextSeq /\ b.epoch = c.chan.epoch
      /\ b.peerEpoch = IF p = None THEN f.epoch ELSE p
      /\ DOMAIN b.unacked \subseteq DOMAIN c.chan.unacked
      /\ \A i \in DOMAIN b.unacked : b.unacked[i] = c.chan.unacked[i]
      /\ Wanted(c.chan) \in 0 .. top
      /\ m \in Seq(Nat) /\ Wanted(c.chan) + Len(m) <= top
      /\ b.ack = IF Len(m) = 0 THEN c.chan.ack ELSE Wanted(c.chan) + Len(m) - 1
      /\ \A i \in DOMAIN b.early : Came(i, b.early[i])
      /\ \A i \in 1 .. Len(m) : Came(Wanted(c.chan) + i - 1, m[i])
  <2>1. /\ f.hasPayload => f.payload \in Nat
        /\ f.hasPayload => f.seq \in 0 .. top - 1
    BY <1>2
  <2>. HIDE DEF top, c, f
  <2>. QED BY ZenonT(40), <1>2, <1>3, <1>4, <2>1, AfterFrameFields
<1>6. client' = [client EXCEPT ![e] = t] /\ UNCHANGED <<server, applied, ended>>
  BY DEF ClientReceives
<1>7. net' \subseteq net
  BY WiresKeep DEF ClientReceives
<1>. HIDE DEF b, m
<1>8. \A i, v : Came(i, v) /\ v > Bye => Agrees(server, e, b.peerEpoch, v - 1)
  <2>1. ASSUME NEW i, NEW v, v > Bye, i \in DOMAIN c.chan.early, v = c.chan.early[i]
        PROVE  Agrees(server, e, b.peerEpoch, v - 1)
    <3>1. Agrees(server, e, p, v - 1)
      BY <1>3, <2>1
    <3>2. p # None
      BY <3>1 DEF Agrees, None
    <3>. QED BY <1>5, <3>1, <3>2
  <2>2. ASSUME NEW v, v > Bye, Hears(c.chan, f), v = f.payload
        PROVE  Agrees(server, e, b.peerEpoch, v - 1)
    <3>1. Agrees(server, e, f.epoch, v - 1)
      BY <1>2, <2>2
    <3>2. CASE p = None \/ p = f.epoch
      BY <1>5, <3>1, <3>2
    <3>3. CASE p # None /\ p # f.epoch
      <4>1. f.epoch > p
        BY <2>2, <3>3, Zenon DEF Hears, Incarnation
      <4>2. p \in 1 .. server.channels /\ p < f.epoch
        BY <1>1, <1>2, <1>3, <3>3, <4>1
      <4>3. Agrees(server, e, p, v - 1)
        BY <1>1, <3>1, <4>2, EarlierAgrees
      <4>. QED BY <1>5, <3>3, <4>3
    <3>. QED BY <3>2, <3>3
  <2>. QED BY <2>1, <2>2
<1>9. /\ h \in [state : {"negotiating", "streaming", "leaving", "gone"}, chan : {b},
                key : {c.key}, csd : BOOLEAN, keepAlives : 0 .. MaxKeepAlives, inputs : Nat]
      /\ h.chan = b /\ h.key = c.key /\ h.state = c.state /\ h.keepAlives = c.keepAlives
  BY <1>1 DEF ClientIs
<1>. HIDE DEF h
<1>10. ClientIs(server, e, h)
  <2>1. b.peerEpoch \in {None} \cup 1 .. server.channels
    BY <1>2, <1>3, <1>5
  <2>2. b.nextSeq # 0 /\ b.epoch = e
        /\ b.nextSeq <= h.keepAlives + (IF h.state \in {"leaving", "gone"} THEN 2 ELSE 1)
    BY <1>1, <1>5, <1>9 DEF ClientIs
  <2>3. \A i \in DOMAIN b.unacked : SaidBy(e, b.nextSeq, i, b.unacked[i].payload)
    BY <1>1, <1>5 DEF ClientIs
  <2>4. b.ack \in {None} \cup 0 .. 2
    <3>1. Len(m) \in Nat
      BY <1>5
    <3>. QED BY <1>3, <1>5, <3>1
  <2>5. \A i \in DOMAIN b.early :
           /\ i \in 0 .. 2
           /\ b.early[i] > Bye => Agrees(server, e, b.peerEpoch, b.early[i] - 1)
    <3>1. \A i \in DOMAIN b.early : i \in 0 .. 2
      BY <1>2, <1>3, <1>5
    <3>2. \A i \in DOMAIN b.early : Came(i, b.early[i])
      BY <1>5
    <3>. HIDE DEF Came
    <3>. QED BY <1>8, <3>1, <3>2
  <2>6. h.key # Pairing =>
           \E n \in 1 .. server.nonces :
              h.key = Derive(e, n) /\ Agrees(server, e, b.peerEpoch, n)
    <3>. SUFFICES ASSUME c.key # Pairing
         PROVE  \E n \in 1 .. server.nonces :
                   c.key = Derive(e, n) /\ Agrees(server, e, b.peerEpoch, n)
      BY <1>9
    <3>1. PICK n \in 1 .. server.nonces : c.key = Derive(e, n) /\ Agrees(server, e, p, n)
      BY <1>1 DEF ClientIs
    <3>2. p # None
      BY <3>1 DEF Agrees, None
    <3>. QED BY <1>5, <3>1, <3>2
  <2>7. h.state \in {"streaming", "leaving"} => h.key # Pairing
    BY <1>1, <1>9 DEF ClientIs
  <2>. QED BY <1>5, <1>9, <2>1, <2>2, <2>3, <2>4, <2>5, <2>6, <2>7 DEF ClientIs
<1>11. \A i \in 1 .. Len(m) : m[i] > Bye => Agrees(server, e, h.chan.peerEpoch, m[i] - 1)
  BY ZenonT(40), <1>5, <1>8, <1>9
<1>12. t.chan = h.chan /\ ClientIs(server, e, t)
  BY <1>5, <1>10, <1>11, HeardAllKeeps
<1>. HIDE DEF t
<1>13. c.chan.nextSeq <= t.chan.nextSeq
  BY <1>1, <1>5, <1>9, <1>12
<1>. DEFINE O == {}
<1>14. /\ net' \subseteq net \cup O
       /\ \A k \in O : k.from = e /\ k.to = Server /\ SentBy(e, t, server.nonces, k)
  BY <1>7
<1>. HIDE DEF O
<1>15. client[e] # Absent => client[e].chan.nextSeq <= t.chan.nextSeq
  BY <1>13
<1>. QED BY <1>6, <1>12, <1>14, <1>15, ClientStep

LEMMA ClientIsOverKeeps ==
    ASSUME IndInv, NEW e \in Incarnations, ClientDies(e) \/ ClientIsGone(e)
    PROVE  IndInv'
<1>1. client[e] # Absent
  BY DEF ClientDies, ClientIsGone, Alive, Absent
<1>2. client' = [client EXCEPT ![e].state = "gone"] /\ UNCHANGED <<server, applied, ended>>
  BY DEF ClientDies, ClientIsGone
<1>3. net' \subseteq net
  BY WiresKeep DEF ClientDies, ClientIsGone
<1>. QED BY <1>1, <1>2, <1>3, ClientEnds

-----------------------------------------------------------------------------
(* The invariant.                                                          *)

\* Nothing has been started and nothing sent: the invariant holds at the start.
THEOREM EndpointInit == Init => IndInv
<1>. SUFFICES ASSUME Init PROVE IndInv
  OBVIOUS
<1>. DEFINE s == server
<1>1. /\ s.sess = NoSession /\ s.byAddr = {} /\ s.stream = NoStream /\ s.disconnect = 0
      /\ s.channels = 0 /\ s.nonces = 0 /\ s.out = {} /\ IsServer(s)
  BY DEF Init, Started, IsServer
<1>2. ~HasSession(s) /\ ~HasStream(s)
  BY <1>1 DEF HasSession, HasStream
<1>3. /\ DOMAIN client = Incarnations /\ \A e \in Incarnations : client[e] = Absent
      /\ net = {} /\ applied = << >>
  BY DEF Init
<1>4. Sound(s) /\ HelloFirst(s) /\ PeerKnown(s) /\ PeerOK(s)
  BY <1>1, <1>2 DEF Sound, HelloFirst, PeerKnown, PeerOK
<1>5. AppliedOK
  BY <1>3 DEF AppliedOK, InputAppliedOnce
<1>6. s.channels <= MaxChannels
  BY <1>1, EndpointBounds
<1>. QED BY <1>1, <1>3, <1>4, <1>5, <1>6 DEF IndInv

\* Every step of a client, of the server and of the wire between them keeps the
\* invariant.
THEOREM EndpointStep == IndInv /\ [Next]_vars => IndInv'
<1>. SUFFICES ASSUME IndInv, [Next]_vars PROVE IndInv'
  OBVIOUS
<1>1. CASE ServerNext
  <2>1. ASSUME NEW d \in net, ServerReceives(d) PROVE IndInv'
    BY <2>1, ServerReceivesKeeps
  <2>2. CASE ServerTimesOut
    BY <2>2, ServerTimesOutKeeps
  <2>3. CASE RequestDisconnect
    BY <2>3, StreamEndsKeeps DEF RequestDisconnect
  <2>4. CASE PipelineDies
    BY <2>4, StreamEndsKeeps DEF PipelineDies
  <2>5. CASE ServerCrashes
    BY <2>5, ServerCrashesKeeps
  <2>. QED BY <1>1, <2>1, <2>2, <2>3, <2>4, <2>5 DEF ServerNext
<1>2. ASSUME NEW e \in Incarnations, ClientNext(e) PROVE IndInv'
  <2>1. CASE ClientStarts(e)
    BY <2>1, ClientStartsKeeps
  <2>2. CASE ClientDies(e) \/ ClientIsGone(e)
    BY <2>2, ClientIsOverKeeps
  <2>3. CASE ClientKeepAlive(e)
    BY <2>3, ClientKeepAliveKeeps
  <2>4. CASE ClientInput(e)
    BY <2>4, ClientInputKeeps
  <2>5. CASE ClientLeaves(e)
    BY <2>5, ClientLeavesKeeps
  <2>6. ASSUME NEW d \in net, ClientReceives(e, d) PROVE IndInv'
    BY <2>6, ClientReceivesKeeps
  <2>7. ASSUME Alive(e), NEW due \in {{}, DOMAIN client[e].chan.unacked}, ClientTicks(e, due)
        PROVE  IndInv'
    BY <2>7, ClientTicksKeeps
  <2>. QED BY <1>2, <2>1, <2>2, <2>3, <2>4, <2>5, <2>6, <2>7 DEF ClientNext
<1>3. CASE UNCHANGED vars
  BY <1>3 DEF vars, IndInv, Sound, StreamOK, HelloFirst, PeerKnown, PeerOK, Said, UpOK,
     AppliedOK, InputAppliedOnce
<1>. QED BY <1>1, <1>2, <1>3 DEF Next

\* The endpoint and its clients keep the invariant for ever.
THEOREM EndpointInvariance == Spec => []IndInv
BY EndpointInit, EndpointStep, PTL DEF Spec

-----------------------------------------------------------------------------
(* What follows from it.                                                   *)

\* ControlEndpoint's types: above all, the address book of endpoint.rs is
\* exactly the session's return address.
THEOREM EndpointTypes == Spec => []TypeOK
<1>1. IndInv => TypeOK
  <2>. SUFFICES ASSUME IndInv PROVE TypeOK
    OBVIOUS
  <2>1. ASSUME NEW e \in Incarnations, client[e] # Absent
        PROVE  /\ client[e].state \in {"negotiating", "streaming", "leaving", "gone"}
               /\ IsChannel(client[e].chan, Nat)
               /\ client[e].key \in {Pairing} \cup {Derive(e, n) : n \in 1 .. server.nonces}
    BY <2>1 DEF IndInv, ClientIs
  <2>2. /\ server.channels \in 0 .. MaxChannels /\ server.disconnect \in 0 .. server.nonces
        /\ server.byAddr = IF HasSession(server) THEN {Sess.addr} ELSE {}
    BY EndpointBounds DEF IndInv, Sound, IsServer, Sess
  <2>3. ASSUME HasSession(server)
        PROVE  /\ Sess.addr \in Incarnations
               /\ IsChannel(Sess.chan, Nat)
               /\ Sess.chan.epoch \in 1 .. server.channels
               /\ Sess.pendingOut \in Seq(Nat)
    <3>1. SessionOK(server) /\ IsSession(Sess) /\ server.channels \in Nat
      BY <2>3 DEF IndInv, Sound, SessionOK, IsServer, Sess
    <3>2. Sess.pendingOut \in Seq({CodecPrivate, Bye}) /\ {CodecPrivate, Bye} \subseteq Nat
      BY <3>1 DEF IsSession, CodecPrivate, Bye
    <3>. QED BY <3>1, <3>2 DEF SessionOK, IsSession, Sess
  <2>4. HasStream(server) => Stream.id \in 1 .. server.nonces
    BY DEF IndInv, Sound, StreamOK, Stream
  <2>5. ASSUME NEW d \in net, d.kind = "control" PROVE d.frame \in Frame(Nat)
    BY <2>5 DEF IndInv, UpOK, SentBy, DownOK
  <2>. QED BY <2>1, <2>2, <2>3, <2>4, <2>5 DEF TypeOK
<1>. QED BY <1>1, EndpointInvariance, PTL

\* A stream runs only for the incarnation its session now belongs to.
THEOREM StreamsServeTheirPeer == Spec => []StreamServesItsPeer
<1>1. IndInv => StreamServesItsPeer
  BY DEF IndInv, Sound, StreamOK, PeerKnown, StreamServesItsPeer, Sess, Stream
<1>. QED BY <1>1, EndpointInvariance, PTL

\* A keyed session without a stream lost it to what was asked of that stream.
THEOREM StreamsEndByTheirOwn == Spec => []OnlyEndedByItsOwn
<1>1. IndInv => OnlyEndedByItsOwn
  BY DEF IndInv, Sound, OnlyEndedByItsOwn, Sess
<1>. QED BY <1>1, EndpointInvariance, PTL

\* The two ends of a session that the client knew from its start agree on the key.
THEOREM EndsAgreeOnKey == Spec => []KeysAgree
<1>1. IndInv => KeysAgree
  <2>. SUFFICES ASSUME IndInv, HasSession(server),
                       client[Sess.addr].state \in {"streaming", "leaving"},
                       client[Sess.addr].chan.peerEpoch = Sess.chan.epoch
                PROVE  client[Sess.addr].key = Sess.key
    BY DEF KeysAgree
  <2>. DEFINE a == Sess.addr
              c == client[a]
  <2>1. a \in Incarnations /\ c # Absent
    BY DEF IndInv, Sound, SessionOK, IsSession, PeerOK, Sess
  <2>2. ClientIs(server, a, c)
    BY <2>1 DEF IndInv
  <2>3. PICK n \in 1 .. server.nonces :
          c.key = Derive(a, n) /\ Agrees(server, a, c.chan.peerEpoch, n)
    BY <2>2 DEF ClientIs
  <2>. QED BY <2>3 DEF Agrees, Sess
<1>. QED BY <1>1, EndpointInvariance, PTL

\* No input packet is applied twice, whatever is replayed to whom.
THEOREM InputIsAppliedOnce == Spec => []InputAppliedOnce
<1>1. IndInv => InputAppliedOnce
  BY DEF IndInv, AppliedOK
<1>. QED BY <1>1, EndpointInvariance, PTL

\* What the server has been given is a prefix of what that incarnation sent.
THEOREM AcksAreOfThePeer == Spec => []AcksAreOfThisPeer
<1>1. IndInv => AcksAreOfThisPeer
  <2>. SUFFICES ASSUME IndInv, HasSession(server) PROVE AcksAreOfThisPeer
    BY DEF AcksAreOfThisPeer
  <2>. DEFINE a == Sess.addr
              c == client[a]
              k == Sess.chan.ack
              n == c.chan.nextSeq
  <2>1. /\ a \in Incarnations /\ c # Absent /\ Sess.chan.peerEpoch = a
        /\ IsChannel(Sess.chan, Nat)
        /\ k # None => k < n
        /\ \A i \in DOMAIN Sess.chan.early : Said(a, i, Sess.chan.early[i])
    BY DEF IndInv, Sound, SessionOK, IsSession, PeerOK, PeerKnown, Sess
  <2>2. n \in Nat /\ n < SeqMod /\ SeqMod \in Nat
    <3>1. ClientIs(server, a, c)
      BY <2>1 DEF IndInv
    <3>2. n \in SeqNum
      BY <3>1 DEF ClientIs, IsChannel
    <3>. QED BY <3>2, SpaceForThree DEF SeqNum
  <2>3. k \in SeqNum \cup {None}
    BY <2>1 DEF IsChannel
  <2>. HIDE DEF n
  <2>4. Wanted(Sess.chan) <= n
    BY <2>1, <2>2, <2>3 DEF Wanted, NextSeq, Plus, SeqNum
  <2>5. \A i \in DOMAIN Sess.chan.early : i < n
    BY <2>1 DEF Said, SaidBy, n
  <2>. QED BY <2>1, <2>4, <2>5 DEF AcksAreOfThisPeer, n
<1>. QED BY <1>1, EndpointInvariance, PTL

\* The step of AddressMovesForward: two sessions of one run of channels have
\* their addresses in order.
Forwards ==
    HasSession(server) /\ HasSession(server)' /\ server'.channels = server.channels =>
        /\ server'.sess.addr >= Sess.addr
        /\ server'.sess.chan.peerEpoch >= Sess.chan.peerEpoch

\* The return address of a session only moves on, to a newer incarnation.
THEOREM AddressesMoveForward == Spec => AddressMovesForward
<1>1. IndInv /\ IndInv' /\ [Next]_vars => [Forwards]_vars
  <2>. SUFFICES ASSUME IndInv, IndInv', Next, HasSession(server), HasSession(server)'
                PROVE  server'.sess.addr >= server.sess.addr
    <3>1. ASSUME HasSession(server), HasSession(server)', server'.sess.addr >= server.sess.addr,
                 IndInv, IndInv'
          PROVE  Forwards
      BY <3>1 DEF IndInv, PeerKnown, Forwards, Sess
    <3>. QED BY <3>1 DEF Forwards
  <2>1. server.sess.addr \in Nat /\ Settled(server)
    BY Keys DEF IndInv, Sound, SessionOK, IsSession, Settled
  <2>2. ASSUME NEW h, Settled(h), Preserves(server, h), NEW idle, Poll(h, idle)
        PROVE  HasSession(h) /\ server'.sess.addr = h.sess.addr
    <3>1. PICK q, O : Leads(h, q) /\ server' = q
      BY <2>2, PollStep
    <3>. QED BY <3>1 DEF Leads
  <2>3. ASSUME NEW d \in net, ServerReceives(d) PROVE server'.sess.addr >= server.sess.addr
    <3>1. d.to = Server
      BY <2>3 DEF ServerReceives
    <3>2. PICK b \in BOOLEAN : Poll(OnDatagram([server EXCEPT !.startable = b], d), FALSE)
      BY <2>3 DEF ServerReceives
    <3>. DEFINE h == OnDatagram([server EXCEPT !.startable = b], d)
    <3>3. /\ Settled(h) /\ Preserves(server, h)
          /\ HasSession(server) /\ HasSession(h) => server.sess.addr <= h.sess.addr
      BY <3>1, OnDatagramKeeps
    <3>4. HasSession(h) /\ server'.sess.addr = h.sess.addr
      BY <2>2, <3>2, <3>3
    <3>5. h.sess.addr \in Nat
      BY <3>3, <3>4, Keys DEF Settled, Sound, SessionOK, IsSession
    <3>. HIDE DEF h
    <3>. QED BY <2>1, <3>3, <3>4, <3>5
  <2>4. CASE ServerTimesOut
    <3>1. PICK idle : Poll(server, idle)
      BY <2>4 DEF ServerTimesOut
    <3>2. Preserves(server, server)
      BY <2>1 DEF Preserves, Settled, Sound, IsServer
    <3>3. server'.sess.addr = server.sess.addr
      BY <2>1, <2>2, <3>1, <3>2
    <3>. QED BY <2>1, <3>3
  <2>5. CASE RequestDisconnect \/ PipelineDies
    <3>1. IsServer(server)
      BY <2>1 DEF Settled, Sound
    <3>2. server'.sess = server.sess
      BY <2>5, <3>1 DEF RequestDisconnect, PipelineDies, IsServer
    <3>. QED BY <2>1, <3>2
  <2>6. CASE ServerCrashes
    BY <2>6 DEF ServerCrashes, Started, HasSession
  <2>7. ASSUME NEW e \in Incarnations, ClientNext(e)
        PROVE  server'.sess.addr >= server.sess.addr
    <3>1. server' = server
      BY <2>7 DEF ClientNext, ClientStarts, ClientDies, ClientKeepAlive, ClientInput,
         ClientLeaves, ClientIsGone, ClientReceives, ClientTicks
    <3>. QED BY <2>1, <3>1
  <2>. QED BY <2>3, <2>4, <2>5, <2>6, <2>7 DEF Next, ServerNext
<1>2. AddressMovesForward <=> [][Forwards]_vars
  BY PTL DEF AddressMovesForward, Forwards
<1>. QED BY <1>1, <1>2, EndpointInvariance, PTL DEF Spec
=============================================================================
