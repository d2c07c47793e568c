-------------------------- MODULE ControlEndpoint ---------------------------
(***************************************************************************)
(* The server's UDP endpoint (sunburst-net/src/endpoint.rs) with the one   *)
(* stream it feeds (sunburst-server/src/session.rs), and a paired client   *)
(* that crashes, restarts and says goodbye (ClientEndpoint, and the loop   *)
(* of sunburst-android/src/client.rs).  Datagrams are lost, duplicated,    *)
(* delayed and reordered; the server process may crash and come back.      *)
(*                                                                         *)
(* The client's e-th incarnation has epoch e, nonce e and its own source   *)
(* port, also written e.  The n-th stream started has id n, and its        *)
(* SessionConfig carries the n-th server nonce.  Every client frame is     *)
(* signed with the one pairing key and so verifies; a data packet names    *)
(* the key it is signed with.  The MAC itself is not modelled.             *)
(***************************************************************************)
EXTENDS ReliableOps

SX == INSTANCE SequencesExt
FSX == INSTANCE FiniteSetsExt

CONSTANTS MaxIncarnations,   \* bound: times the client starts
          MaxChannels,       \* bound: server sessions created, over all its lives
          MaxKeepAlives,     \* bound: KeepAlives sent by an incarnation
          MaxInputs,         \* bound: input packets sent by an incarnation
          MaxEnds,           \* bound: streams the UI disconnects, or whose pipeline dies
          MaxServerCrashes,  \* bound
          MaxWire            \* bound: datagrams the wire holds; others are lost

ASSUME EndpointBounds ==
    {MaxIncarnations, MaxChannels, MaxKeepAlives, MaxInputs, MaxEnds, MaxServerCrashes,
     MaxWire} \subseteq Nat

\* An incarnation's Hello, KeepAlives and Bye do not come round the sequence
\* space: at a KeepAlive a second, 18 hours of one stream.
ASSUME NumbersSuffice == MaxKeepAlives + 2 < SeqMod

Incarnations == 1 .. MaxIncarnations

\* Control messages, as numbers.  ClientControl:
KeepAlive == 0
Bye       == 1      \* ClientControl::Bye, and ServerControl::Bye
Hello(e)  == 1 + e  \* carries the nonce of incarnation e
\* and ServerControl:
CodecPrivate     == 0
SessionConfig(n) == 1 + n

\* SessionKey::derive; the pairing key signs whatever no session key does.
Derive(e, n) == [client |-> e, server |-> n]
Pairing == Derive(0, 0)

VARIABLES
    client,      \* client[e]: incarnation e, see NewClient
    server,      \* the server process, see Started
    net,         \* datagrams on the wire
    applied,     \* history: the input packets handed to the injector, in order
    ended,       \* history: streams asked to disconnect, or whose pipeline died
    crashes      \* times the server process has crashed

vars == <<client, server, net, applied, ended, crashes>>

-----------------------------------------------------------------------------
(* Datagrams *)

Server == 0     \* the server's address; a client's is its incarnation

Control(from, to, f) == [kind |-> "control", from |-> from, to |-> to, frame |-> f]
Input(e, key, n) == [kind |-> "input", from |-> e, to |-> Server, key |-> key, seq |-> n]

\* What is addressed to a socket that no longer exists reaches nobody.
Reachable(datagrams, clients) ==
    {d \in datagrams : d.to # Server => clients[d.to].state # "gone"}

\* What may be on the wire next: everything, or, beyond MaxWire datagrams, all
\* but some that are lost.  One that stays can arrive any number of times.
Wires(datagrams, clients) ==
    LET all == Reachable(datagrams, clients) IN
    IF Cardinality(all) <= MaxWire THEN {all} ELSE FSX!kSubset(MaxWire, all)

-----------------------------------------------------------------------------
(* The server's state, and its helpers on it.  Each yields the server with *)
(* the datagrams it transmits added to out.                                *)

NoSession == [addr |-> 0]
NoStream  == [id |-> 0]

\* Endpoint::sessions has at most the one client's Session.  seen is what its
\* replay window has accepted.
NewSession(from, epoch) ==
    [addr |-> from, key |-> Pairing, nonce |-> 0, chan |-> NewChannel(epoch),
     seen |-> {}, pendingOut |-> << >>]

\* disconnect is what the web UI asked for, 0 for nothing.  channels counts the
\* epochs handed out: wall-clock time, so a restart does not set it back, nor
\* does it repeat a nonce, drawn at random.  startable is whether a stream can
\* start in this poll, out what the poll transmits.
Started(channels, nonces) ==
    [sess |-> NoSession, byAddr |-> {}, stream |-> NoStream, disconnect |-> 0,
     channels |-> channels, nonces |-> nonces, startable |-> TRUE, out |-> {}]

HasSession(s) == s.sess # NoSession
HasStream(s) == s.stream # NoStream

Transmit(s, to, frames) ==
    [s EXCEPT !.out = @ \cup {Control(Server, to, f) : f \in frames}]

\* SessionManager::session_stop, by way of WebHandler.
StopStream(s) == [s EXCEPT !.stream = NoStream]

\* Endpoint::forget
Forget(s) ==
    IF HasSession(s)
      THEN [StopStream(s) EXCEPT !.byAddr = @ \ {s.sess.addr}, !.sess = NoSession]
      ELSE StopStream(s)

\* flush_control: queued messages in order, as far as the window lets them.
FlushOne(s) ==
    LET msg == Head(s.sess.pendingOut) IN
    [Transmit(s, s.sess.addr, {SendFrame(s.sess.chan, msg)})
        EXCEPT !.sess.chan = AfterSend(@, msg), !.sess.pendingOut = Tail(@)]

Flushable(s) == HasSession(s) /\ s.sess.pendingOut # << >> /\ CanSend(s.sess.chan)

Flush(s) == SX!FoldLeft(LAMBDA t, i : IF Flushable(t) THEN FlushOne(t) ELSE t,
                     s, [i \in 1 .. Window |-> i])

\* send_to_client
Queue(s, msg) ==
    IF HasSession(s) THEN Flush([s EXCEPT !.sess.pendingOut = Append(@, msg)]) ELSE s

-----------------------------------------------------------------------------
(* Receiving at the server *)

\* Mutant of MovesTo: any control frame moves the return address.
AnyFrameMoves(s, f) == TRUE

\* A control frame from another address is followed there only if it is of a
\* newer incarnation, or the client's first.
MovesTo(s, f) == Incarnation(s.sess.chan, f) \in {"First", "Newer"}

\* Mutant of Moved: the old address stays in the book.
MovedLeavingAddress(s, from) ==
    [s EXCEPT !.byAddr = @ \cup {from}, !.sess.addr = from, !.sess.key = Pairing]

Moved(s, from) ==
    [s EXCEPT !.byAddr = (@ \ {s.sess.addr}) \cup {from},
              !.sess.addr = from, !.sess.key = Pairing]

Created(s, from) ==
    [s EXCEPT !.byAddr = @ \cup {from}, !.channels = @ + 1,
              !.sess = NewSession(from, s.channels + 1)]

\* authenticate on the control channel: known address, move, or new session.
KnownAddress(s, from) == HasSession(s) /\ from \in s.byAddr

RefusesControl(s, from, f) == HasSession(s) /\ ~KnownAddress(s, from) /\ ~MovesTo(s, f)

Authenticated(s, from) ==
    CASE KnownAddress(s, from) -> s
      [] HasSession(s) /\ ~KnownAddress(s, from) -> Moved(s, from)
      [] ~HasSession(s) -> Created(s, from)

\* Mutants of Renewed: the old incarnation's stream is left running; its
\* channel state is kept.
RenewedKeepingStream(s, f) ==
    IF Incarnation(s.sess.chan, f) = "Newer"
      THEN [s EXCEPT !.sess.chan = Restart(@, f.epoch), !.sess.pendingOut = << >>,
                     !.sess.key = Pairing, !.sess.nonce = 0]
      ELSE s

RenewedKeepingChannel(s, f) ==
    IF Incarnation(s.sess.chan, f) = "Newer"
      THEN [StopStream(s) EXCEPT !.sess.chan.peerEpoch = f.epoch,
                                 !.sess.pendingOut = << >>,
                                 !.sess.key = Pairing, !.sess.nonce = 0]
      ELSE s

\* A newer incarnation: nothing of the old one's channel, queue, key or stream
\* carries over.
Renewed(s, f) ==
    IF Incarnation(s.sess.chan, f) = "Newer"
      THEN [StopStream(s) EXCEPT !.sess.chan = Restart(@, f.epoch),
                                 !.sess.pendingOut = << >>,
                                 !.sess.key = Pairing, !.sess.nonce = 0]
      ELSE s

\* try_offer_session: send the SessionConfig and install the key it makes.
Offered(s, n) ==
    IF CanSend(s.sess.chan)
      THEN [Transmit(s, s.sess.addr, {SendFrame(s.sess.chan, SessionConfig(n))})
              EXCEPT !.sess.chan = AfterSend(@, SessionConfig(n)),
                     !.sess.key = Derive(s.sess.nonce, n), !.sess.seen = {}]
      ELSE s

\* SessionManager::session_start, one stream at a time, when it can start one
\* at all: a codec in common, a display, an encoder.
StartStream(s) ==
    [s EXCEPT !.nonces = @ + 1,
              !.stream = [id |-> s.nonces + 1, addr |-> s.sess.addr,
                          headersSent |-> FALSE, finished |-> FALSE]]

\* Mutant of OnHello: the nonce is put away after the session is offered.
OnHelloOfferingFirst(s, e) ==
    IF HasStream(s) \/ ~s.startable THEN [s EXCEPT !.sess.nonce = e]
    ELSE [Offered(StartStream(s), s.nonces + 1) EXCEPT !.sess.nonce = e]

\* The client's nonce is put away before the session is offered.
OnHello(s, e) ==
    LET named == [s EXCEPT !.sess.nonce = e] IN
    IF HasStream(s) \/ ~s.startable THEN named
    ELSE Offered(StartStream(named), s.nonces + 1)

\* The stream stops, the Bye is acked, and the client is forgotten.
OnBye(s) == Forget(Transmit(StopStream(s), s.sess.addr, TakeAckFrames(s.sess.chan)))

\* on_authenticated.  A message behind a Bye has no session to land in; none
\* is ever sent.
OnMessage(s, msg) ==
    CASE ~HasSession(s)                     -> s
      [] HasSession(s) /\ msg = KeepAlive   -> s
      [] HasSession(s) /\ msg = Bye         -> OnBye(s)
      [] HasSession(s) /\ msg > Bye         -> OnHello(s, msg - 1)

\* on_control, on a frame that authenticates.
OnControl(s, from, f) ==
    IF RefusesControl(s, from, f) THEN s
    ELSE LET heard    == Renewed(Authenticated(s, from), f)
             messages == Delivers(heard.sess.chan, f)
         IN SX!FoldLeft(OnMessage, [heard EXCEPT !.sess.chan = AfterFrame(@, f)], messages)

\* Mutant of Accepts: the replay window is not consulted.
AcceptsReplays(s, d) == KnownAddress(s, d.from) /\ d.key = s.sess.key

\* authenticate on the data channel, and the replay window.  A packet signed
\* with a session key verifies under that key alone, and a scan of the pairing
\* keys finds it no other session.
Accepts(s, d) ==
    /\ KnownAddress(s, d.from)
    /\ d.key = s.sess.key
    /\ d.seq \notin s.sess.seen

OnInput(s, d) == IF Accepts(s, d) THEN [s EXCEPT !.sess.seen = @ \cup {d.seq}] ELSE s

OnDatagram(s, d) ==
    IF d.kind = "control" THEN OnControl(s, d.from, d.frame) ELSE OnInput(s, d)

-----------------------------------------------------------------------------
(* The server's tick *)

\* Mutant of DisconnectsNow: the id asked for is not compared.
DisconnectsAny(s) == HasStream(s) /\ s.disconnect # 0

DisconnectsNow(s) == HasStream(s) /\ s.disconnect = s.stream.id

\* SessionManager::drain_outbound: a stream the UI disconnected, or that ended
\* by itself, is stopped with a Bye; otherwise the codec headers go out once the
\* encoder has them (the headers of a rebuilt encoder are left out: at most one
\* set a stream).  The request to disconnect is used up either way.
Drained(s, headersReady) ==
    LET taken == [s EXCEPT !.disconnect = 0] IN
    CASE HasStream(s) /\ (DisconnectsNow(s) \/ s.stream.finished) ->
            Queue(StopStream(taken), Bye)
      [] HasStream(s) /\ ~DisconnectsNow(s) /\ ~s.stream.finished
            /\ headersReady /\ ~s.stream.headersSent ->
            Queue([taken EXCEPT !.stream.headersSent = TRUE], CodecPrivate)
      [] OTHER -> taken

\* Mutant of Ticked: silence is not noticed.
TickedNeverIdle(s, due, idle) ==
    CASE ~HasSession(s) -> s
      [] HasSession(s) /\ GivesUp(s.sess.chan, due) -> Forget(Flush(s))
      [] HasSession(s) /\ ~GivesUp(s.sess.chan, due) ->
            Flush([Transmit(s, s.sess.addr, TickFrames(s.sess.chan, due))
                     EXCEPT !.sess.chan = AfterTick(@, due)])

\* Endpoint::tick after drain_outbound: the session is dropped if nothing has
\* been heard of it for IDLE_SECS or its channel gives the client up; the queue
\* is flushed once more either way.
Ticked(s, due, idle) ==
    CASE ~HasSession(s) -> s
      [] HasSession(s) /\ (idle \/ GivesUp(s.sess.chan, due)) -> Forget(Flush(s))
      [] HasSession(s) /\ ~idle /\ ~GivesUp(s.sess.chan, due) ->
            Flush([Transmit(s, s.sess.addr, TickFrames(s.sess.chan, due))
                     EXCEPT !.sess.chan = AfterTick(@, due)])

\* What may have waited RETRANSMIT_MS: what was outstanding before this poll,
\* unless a new channel has since taken the place of the old.
SameChannel(s, t) ==
    /\ HasSession(s) /\ HasSession(t)
    /\ s.sess.chan.epoch = t.sess.chan.epoch
    /\ s.sess.chan.peerEpoch = t.sess.chan.peerEpoch

Waiting(s, t) ==
    IF SameChannel(s, t) THEN DOMAIN s.sess.chan.unacked \cap DOMAIN t.sess.chan.unacked
                         ELSE {}

-----------------------------------------------------------------------------
(* The client's incarnations.  state: "absent", "negotiating" until both   *)
(* SessionConfig and CodecPrivate have come, "streaming", "leaving" while  *)
(* bye waits for its ack, "gone".                                          *)

Absent == [state |-> "absent"]

NewClient(e) ==
    [state |-> "negotiating", chan |-> AfterSend(NewChannel(e), Hello(e)), key |-> Pairing,
     csd |-> FALSE, keepAlives |-> 0, inputs |-> 0]

Alive(e) == client[e].state \notin {"absent", "gone"}

Sends(e, frames) == {Control(e, Server, f) : f \in frames}

\* ClientEndpoint::recv and its loop, on one ServerControl message: the session
\* key is derived whenever a SessionConfig is delivered; a Bye ends the client
\* on the spot, once the negotiation is over.
Heard(e, c, msg) ==
    CASE msg = CodecPrivate -> [c EXCEPT !.csd = TRUE]
      [] msg > Bye -> [c EXCEPT !.key = Derive(e, msg - 1)]
      [] msg = Bye -> [c EXCEPT !.state = IF @ = "streaming" THEN "gone" ELSE @]

Negotiated(c) ==
    IF c.state = "negotiating" /\ c.csd /\ c.key # Pairing
      THEN [c EXCEPT !.state = "streaming"]
      ELSE c

HeardAll(e, c, msgs) ==
    SX!FoldLeft(LAMBDA x, m : Negotiated(Heard(e, x, m)), c, msgs)

-----------------------------------------------------------------------------

Init ==
    /\ client = [e \in Incarnations |-> Absent]
    /\ server = Started(0, 0)
    /\ net = {}
    /\ applied = << >>
    /\ ended = {}
    /\ crashes = 0

\* The app starts: a new endpoint on a new port, whose first message is Hello.
\* There is one stream screen, so the last incarnation is over.
ClientStarts(e) ==
    /\ client[e] = Absent
    /\ e > 1 => client[e - 1].state = "gone"
    /\ client' = [client EXCEPT ![e] = NewClient(e)]
    /\ net' \in Wires(net \cup Sends(e, {SendFrame(NewChannel(e), Hello(e))}), client')
    /\ UNCHANGED <<server, applied, ended, crashes>>

\* The app is killed, leaves with its window full, or its five seconds of negotiation run out.
ClientDies(e) ==
    /\ Alive(e)
    /\ client' = [client EXCEPT ![e].state = "gone"]
    /\ net' \in Wires(net, client')
    /\ UNCHANGED <<server, applied, ended, crashes>>

ClientKeepAlive(e) ==
    /\ client[e].state = "streaming"
    /\ client[e].keepAlives < MaxKeepAlives
    /\ CanSend(client[e].chan)
    /\ client' = [client EXCEPT ![e].chan = AfterSend(@, KeepAlive), ![e].keepAlives = @ + 1]
    /\ net' \in Wires(net \cup Sends(e, {SendFrame(client[e].chan, KeepAlive)}), client')
    /\ UNCHANGED <<server, applied, ended, crashes>>

\* The shipped client sends input only once it streams, so never under the
\* pairing key; its sequence starts at 1 with each incarnation.
ClientInput(e) ==
    /\ client[e].state = "streaming"
    /\ client[e].inputs < MaxInputs
    /\ client' = [client EXCEPT ![e].inputs = @ + 1]
    /\ net' \in Wires(net \cup {Input(e, client[e].key, client[e].inputs + 1)}, client')
    /\ UNCHANGED <<server, applied, ended, crashes>>

\* The user leaves the stream: ClientEndpoint::bye.  With the window full there
\* is no Bye, and the client is gone as if it had died.
ClientLeaves(e) ==
    /\ client[e].state = "streaming"
    /\ CanSend(client[e].chan)
    /\ client' = [client EXCEPT ![e].state = "leaving", ![e].chan = AfterSend(@, Bye)]
    /\ net' \in Wires(net \cup Sends(e, {SendFrame(client[e].chan, Bye)}), client')
    /\ UNCHANGED <<server, applied, ended, crashes>>

\* One datagram at the client.
ClientReceives(e, d) ==
    /\ Alive(e)
    /\ d.to = e
    /\ LET heard == [client[e] EXCEPT !.chan = AfterFrame(@, d.frame)]
       IN client' = [client EXCEPT ![e] =
                        HeardAll(e, heard, Delivers(client[e].chan, d.frame))]
    /\ net' \in Wires(net, client')
    /\ UNCHANGED <<server, applied, ended, crashes>>

\* ClientEndpoint::tick; PeerGone ends the client wherever it is.
ClientTicks(e, due) ==
    /\ Alive(e)
    /\ LET c == client[e] IN
       IF GivesUp(c.chan, due)
         THEN client' = [client EXCEPT ![e].state = "gone"]
         ELSE client' = [client EXCEPT ![e].chan = AfterTick(@, due)]
    /\ net' \in Wires(net \cup (IF GivesUp(client[e].chan, due) THEN {}
                                 ELSE Sends(e, TickFrames(client[e].chan, due))), client')
    /\ UNCHANGED <<server, applied, ended, crashes>>

\* bye is over: the Bye is acknowledged, or its 300 ms have passed.
ClientIsGone(e) ==
    /\ client[e].state = "leaving"
    /\ client' = [client EXCEPT ![e].state = "gone"]
    /\ net' \in Wires(net, client')
    /\ UNCHANGED <<server, applied, ended, crashes>>

-----------------------------------------------------------------------------

\* Nothing has been heard for IDLE_SECS, which outlasts every timeout of a
\* client that is still there.
Idle(s) == HasSession(s) /\ ~Alive(s.sess.addr)

\* poll_once: what arrived, if anything, and then always a tick.  All or none
\* of what waits is due; ReliableChannel tells the subsets apart.
TickAfter(drained, due, idle) ==
    LET polled == Ticked(drained, due, idle) IN
    /\ polled.channels <= MaxChannels
    /\ server' = [polled EXCEPT !.out = {}, !.startable = TRUE]
    /\ net' \in Wires(net \cup polled.out, client)
    /\ UNCHANGED <<client, ended, crashes>>

Poll(heard, idle) ==
    \E headersReady \in {FALSE, HasStream(heard)} :
        LET drained == Drained(heard, headersReady) IN
        \E due \in {{}, Waiting(server, drained)} : TickAfter(drained, due, idle)

ServerReceives(d) ==
    /\ d.to = Server
    /\ \E startable \in {TRUE, d.kind = "input"} :
          LET heard == OnDatagram([server EXCEPT !.startable = startable], d) IN
          /\ ~startable => ~HasStream(heard)
          /\ Poll(heard, FALSE)
    /\ applied' = IF d.kind = "input" /\ Accepts(server, d)
                    THEN Append(applied, [key |-> d.key, seq |-> d.seq])
                    ELSE applied

ServerTimesOut ==
    /\ \E idle \in {FALSE, Idle(server)} : Poll(server, idle)
    /\ UNCHANGED applied

\* Sessions::request_disconnect, from the web UI's thread.
RequestDisconnect ==
    /\ HasStream(server)
    /\ Cardinality(ended) < MaxEnds
    /\ server' = [server EXCEPT !.disconnect = server.stream.id]
    /\ ended' = ended \cup {server.stream.id}
    /\ UNCHANGED <<client, net, applied, crashes>>

\* The pipeline's threads end by themselves: a capture or encode error.
PipelineDies ==
    /\ HasStream(server)
    /\ Cardinality(ended) < MaxEnds
    /\ server' = [server EXCEPT !.stream.finished = TRUE]
    /\ ended' = ended \cup {server.stream.id}
    /\ UNCHANGED <<client, net, applied, crashes>>

\* Nothing of the server's session state is on disk.
ServerCrashes ==
    /\ crashes < MaxServerCrashes
    /\ server' = Started(server.channels, server.nonces)
    /\ crashes' = crashes + 1
    /\ UNCHANGED <<client, net, applied, ended>>

Sess == server.sess
Stream == server.stream

ClientNext(e) ==
    \/ ClientStarts(e) \/ ClientDies(e) \/ ClientKeepAlive(e) \/ ClientInput(e)
    \/ ClientLeaves(e) \/ ClientIsGone(e)
    \/ \E d \in net : ClientReceives(e, d)
    \/ Alive(e) /\ \E due \in {{}, DOMAIN client[e].chan.unacked} : ClientTicks(e, due)

ServerNext ==
    \/ \E d \in net : ServerReceives(d)
    \/ ServerTimesOut
    \/ RequestDisconnect \/ PipelineDies \/ ServerCrashes

Next == ServerNext \/ \E e \in Incarnations : ClientNext(e)

Spec == Init /\ [][Next]_vars

\* The endpoint's thread polls every POLL_INTERVAL whatever arrives, so what
\* waits to be retransmitted comes due, and silence comes to IDLE_SECS.
Waited == LET drained == Drained(server, FALSE)
              due     == Waiting(server, drained)
          IN due # {} /\ TickAfter(drained, due, FALSE) /\ UNCHANGED applied

Silent == Idle(server) /\ TickAfter(Drained(server, FALSE), {}, TRUE) /\ UNCHANGED applied

FairSpec == Spec /\ WF_vars(Waited) /\ WF_vars(Silent)

-----------------------------------------------------------------------------
(* Properties *)

\* The client's address book holds exactly its session's return address, and a
\* request to disconnect names a stream that was started.
TypeOK ==
    /\ \A e \in Incarnations : client[e] # Absent =>
          /\ client[e].state \in {"negotiating", "streaming", "leaving", "gone"}
          /\ IsChannel(client[e].chan, Nat)
          /\ client[e].key \in {Pairing} \cup {Derive(e, n) : n \in 1 .. server.nonces}
    /\ server.channels \in 0 .. MaxChannels
    /\ server.disconnect \in 0 .. server.nonces
    /\ server.byAddr = IF HasSession(server) THEN {Sess.addr} ELSE {}
    /\ HasSession(server) =>
          /\ Sess.addr \in Incarnations
          /\ IsChannel(Sess.chan, Nat)
          /\ Sess.chan.epoch \in 1 .. server.channels
          /\ Sess.pendingOut \in Seq(Nat)
    /\ HasStream(server) => Stream.id \in 1 .. server.nonces
    /\ \A d \in net : d.kind = "control" => d.frame \in Frame(Nat)

\* A stream runs only for the incarnation the session now belongs to: it is
\* sent where that session's frames go, and its input is under the key of that
\* very stream.  A restart, a Bye or a timeout leaves no stream behind.
StreamServesItsPeer ==
    HasStream(server) =>
        /\ HasSession(server)
        /\ Stream.addr = Sess.addr
        /\ Sess.chan.peerEpoch = Sess.addr
        /\ Sess.key = Derive(Sess.addr, Stream.id)

\* A session with a key and no stream lost that stream to a request that named
\* it, or to the end of its own pipeline: never to a request for another.
OnlyEndedByItsOwn ==
    HasSession(server) /\ Sess.key # Pairing /\ ~HasStream(server) =>
        Sess.key.server \in ended

\* The two ends sign with the same key once both hold a session key, if the
\* client first heard of the server through the session that is there now.
KeysAgree ==
    HasSession(server) =>
        LET c == client[Sess.addr] IN
        (/\ c.state \in {"streaming", "leaving"}
         /\ c.chan.peerEpoch = Sess.chan.epoch
         /\ Sess.key # Pairing) => c.key = Sess.key

\* No input packet is applied twice, whatever is replayed to whichever session,
\* before or after a restart of either end.
InputAppliedOnce ==
    \A i, j \in 1 .. Len(applied) : applied[i] = applied[j] => i = j

\* What the server has been given by the incarnation it is talking to is what
\* that incarnation sent, from its first message on: nothing of an older one is
\* mixed in.  Acks the client has had of this session are of that prefix.
AcksAreOfThisPeer ==
    HasSession(server) /\ Sess.chan.peerEpoch # None =>
        LET c == client[Sess.chan.peerEpoch] IN
        /\ Sess.chan.peerEpoch = Sess.addr
        /\ Wanted(Sess.chan) <= c.chan.nextSeq
        /\ \A s \in DOMAIN Sess.chan.early : s < c.chan.nextSeq

\* While a session lasts its return address only ever moves on, to a newer
\* incarnation; a datagram left over from an older one does not take it back.
AddressMovesForward ==
    [][HasSession(server) /\ HasSession(server)' /\ server'.channels = server.channels =>
          /\ server'.sess.addr >= Sess.addr
          /\ server'.sess.chan.peerEpoch >= Sess.chan.peerEpoch]_vars

\* "Both ends switch once it has crossed": the keys of a streaming client and of
\* its session agree, with no condition on how the session came to be.
KeysAlwaysAgree ==
    HasSession(server) =>
        LET c == client[Sess.addr] IN
        (c.state = "streaming" /\ Sess.key # Pairing) => c.key = Sess.key

\* "Modular comparison makes that 'I have nothing'": as long as the session has
\* received nothing from the client, the ack it advertises retires nothing.
NothingReceivedRetiresNothing ==
    HasSession(server) /\ Sess.chan.ack = None /\ Alive(Sess.addr) =>
        LET c == client[Sess.addr].chan IN Retained(c, BareAck(Sess.chan)) = DOMAIN c.unacked

\* No stream outlives its client for good: when the incarnation it is sent to
\* is gone without a Bye, the stream stops or serves a newer one.
NoGhostStream ==
    \A e \in Incarnations :
        (HasStream(server) /\ Stream.addr = e /\ client[e].state = "gone")
            ~> (~HasStream(server) \/ Stream.addr # e)

=============================================================================
