------------------------------ MODULE VideoPath ------------------------------
(***************************************************************************)
(* A frame's way from the encoder to the decoder, and the recovery of what *)
(* is lost on it: the GPU thread and the shared signals of                 *)
(* sunburst-server/src/pipeline.rs, the network, the client's two receive  *)
(* stages in sunburst-net/src/video.rs, and its frame loop in              *)
(* sunburst-android/src/client.rs with the KeyframeGate of reconfig.rs.    *)
(*                                                                         *)
(* A packet of an encoded frame arrives any number of times, in any order, *)
(* or never; a retransmit is one more arrival.  What the client reports    *)
(* lost may reach the server late, twice or not at all, while RequestIdr   *)
(* and CodecPrivate go over the reliable channel.  The encoder itself is   *)
(* external: it predicts a frame from the newest reference it may still    *)
(* use.                                                                    *)
(*                                                                         *)
(* Frames are named by how many were encoded before them; the code sees    *)
(* that number modulo SeqMod, and every comparison of two frames is made   *)
(* on that.  Whether a frame is held is asked by its name, which is the    *)
(* same as long as no two frames of one number are held.                   *)
(***************************************************************************)
EXTENDS SeqArith, Sequences, FiniteSetsExt, TLC

Seqs == INSTANCE SequencesExt

CONSTANTS Index,        \* the packets of a frame, terminator included
          FrameSlots,   \* MAX_FRAMES_IN_FLIGHT
          PoolSlots,    \* DEFAULT_POOL_SLOTS
          AbandonLog,   \* ABANDON_LOG
          MaxQueued,    \* MAX_QUEUED
          Depth,        \* frames the encoder keeps as references (at least 2; 8 for AV1)
          Track,        \* frames remembered with their timestamps, 64 in the code
          Modes,        \* the values of SessionConfig.ref_invalidation to try
          MaxFrames,    \* bound: frames encoded
          MaxSent,      \* bound: frames any packet of which arrives
          MaxBuilds,    \* bound: encoders built
          MaxRefusals,  \* bound: frames the decoder does not take
          MaxLag,       \* bound: how many frames late a packet may arrive
          MaxReportLag  \* bound: the same for a report of a loss

ASSUME FrameAssemblyAssumption ==
    /\ IsFiniteSet(Index) /\ Index # {}
    /\ FrameSlots \in Nat /\ FrameSlots >= 2
    /\ PoolSlots \in Nat \ {0}
    /\ AbandonLog \in Nat \ {0}
    /\ MaxQueued \in Nat

ASSUME RefWindowAssumption == /\ Depth \in Nat /\ Depth >= 2
                              /\ Track \in Nat /\ Track > Depth

ASSUME VideoBounds ==
    /\ Modes \subseteq BOOLEAN
    /\ {MaxFrames, MaxSent, MaxRefusals, MaxLag, MaxReportLag} \subseteq Nat
    /\ MaxBuilds \in Nat \ {0}

\* What arrives is less than half the space of frame numbers late, which is
\* nine minutes at 60 frames a second.
ASSUME LagAssumption == MaxLag < Half /\ MaxReportLag < Half

VARIABLES
    refInvalidation,  \* SessionConfig.ref_invalidation, both ends have it
    log,              \* every frame encoded: keyframe, reference, build
    builds,           \* every encoder built: its first frame, what it looks like
    server,           \* Encoding and StreamShared
    client,           \* the locals of run_inner
    decoder,          \* what it is configured for, and has been fed since
    lost,             \* every frame the client has reported lost
    asking,           \* a RequestIdr is on its way
    noted,            \* losses that reached the server since the last encode
    refusals          \* frames the decoder did not take

serverVars == <<log, builds, server, noted>>
clientVars == <<client, decoder, lost, refusals>>
vars == <<refInvalidation, serverVars, clientVars, asking>>

Encoded == Len(log)
IsKey(f) == log[f + 1].key
BuildOf(f) == log[f + 1].build

None == -1

Id(f) == f % SeqMod
Newer(f, g) == IsNewerThan(Id(f), Id(g))

\* The packets of a frame are interchangeable.
Symmetry == Permutations(Index)

(************************ the receive stages *******************************)
(* The Reassembler, which collects packets into frames, and the            *)
(* JitterBuffer, which releases complete frames in order, as operators on  *)
(* one record:                                                             *)
(*   partial    the frames in assembly, and the packets held of each       *)
(*   completed  the newest frame completed (newest_completed)              *)
(*   abandoned  evicted frames not yet reported                            *)
(*   queue      complete frames the jitter buffer holds                    *)
(*   expected   the next frame to release (next_expected)                  *)
(* Every frame has the same packets, one of them the terminator with the   *)
(* count, so a frame is complete when it has them all.  It then keeps its  *)
(* storage until it leaves the queue: the code's Held slots are the queue. *)
(* When a NACK asks for the packets still missing is left out: it tells    *)
(* the network to deliver what it may deliver anyway.                      *)

Packets == Cardinality(Index)

NewAssembly == [partial |-> <<>>, completed |-> None, abandoned |-> <<>>,
                queue |-> {}, expected |-> None]

\* The frame of a set that no other is older than; or, if their numbers are
\* spread so far that every one is newer than another, some frame of it.
Oldest(S) ==
    LET first == {f \in S : \A g \in S : ~Newer(f, g)}
    IN  CHOOSE f \in S : f \in first \/ first = {}

Drop(fn, S) == [f \in DOMAIN fn \ S |-> fn[f]]

(* The reassembler. *)

\* The packets stored of frames in assembly.
Loose(r) == UNION {{f} \X r.partial[f] : f \in DOMAIN r.partial}

PoolUsed(r) == Packets * Cardinality(r.queue) + Cardinality(Loose(r))

\* Mutant: one packet more than there is storage for.
PoolFullLate(r) == PoolUsed(r) > PoolSlots

PoolFull(r) == PoolUsed(r) >= PoolSlots

SlotsFull(r) == Cardinality(DOMAIN r.partial) + Cardinality(r.queue) >= FrameSlots

\* evict_oldest_partial, which spares the frames of keep, and log_abandoned.
CanEvict(r, keep) == DOMAIN r.partial \ keep # {}

Evicted(r, keep) ==
    LET f == Oldest(DOMAIN r.partial \ keep)
    IN  [r EXCEPT !.partial = Drop(@, {f}),
                  !.abandoned = IF Len(@) < AbandonLog THEN Append(@, f) ELSE @]

\* slot_for: without a slot for f when every slot is held by the caller.
WithSlot(r, f) ==
    LET open(q) == [q EXCEPT !.partial = [g \in DOMAIN @ \cup {f} |->
                                             IF g = f THEN {} ELSE @[g]]]
    IN  IF f \in DOMAIN r.partial THEN r
        ELSE IF ~SlotsFull(r) THEN open(r)
        ELSE IF CanEvict(r, {}) THEN open(Evicted(r, {}))
        ELSE r

\* Storage for one more packet of f, at the price of another frame if need be.
WithRoom(r, f) ==
    IF PoolFull(r) /\ CanEvict(r, {f}) THEN Evicted(r, {f}) ELSE r

\* Anything at or behind the last completed frame is noise.
Stale(r, f) == r.completed # None /\ ~Newer(f, r.completed)

\* push, up to the completion of the frame: the first writer of an index wins,
\* and a packet there is no storage for is dropped.
Stored(r, f, p) ==
    LET s == WithSlot(r, f)
        t == WithRoom(s, f)
    IN  IF f \notin DOMAIN s.partial \/ p \in s.partial[f] THEN s
        ELSE IF PoolFull(t) THEN t
        ELSE [t EXCEPT !.partial[f] = @ \cup {p}]

IsComplete(r, f) == f \in DOMAIN r.partial /\ r.partial[f] = Index

Completed(r, f) ==
    [r EXCEPT !.partial = Drop(@, {f}),
              !.completed = IF @ # None /\ Newer(@, f) THEN @ ELSE f]

(* The jitter buffer. *)

\* JitterBuffer::push hands back a late frame, a duplicate, or one too many.
Refuses(r, f) == \/ r.expected # None /\ Newer(r.expected, f)
                 \/ f \in r.queue
                 \/ Cardinality(r.queue) > MaxQueued

Enqueued(r, f) == IF Refuses(r, f) THEN r ELSE [r EXCEPT !.queue = @ \cup {f}]

\* How many frames one round of pops may release: all that are due, which is
\* any number as time goes, and every one above MaxQueued whether due or not.
Releasable(r) ==
    {k \in 0 .. Cardinality(r.queue) : Cardinality(r.queue) - k <= MaxQueued}

StepsOver(r, f) == r.expected # None /\ Newer(f, r.expected)

\* The lost frames between the one expected and the one released.
SteppedOver(r, f) == IF StepsOver(r, f) THEN r.expected .. f - 1 ELSE {}

\* pop, and the discards with which its caller forgets the lost frames.
Popped(r, f) == [r EXCEPT !.queue = @ \ {f}, !.expected = f + 1,
                          !.partial = Drop(@, SteppedOver(r, f))]

(************************ the reference window *****************************)
(* Which recovery the server chooses when the client gives a frame up: the *)
(* Window of sunburst-net/src/refinval.rs, which the HEVC, H.264 and AV1   *)
(* machines share and differ only in the depth they pass.                  *)

\* newest: the last frame encoded.  through: frames at or before this one
\* have been dealt with.
NewWindow == [newest |-> None, through |-> None]

OnEncoded(w, f, key) ==
    [newest |-> f, through |-> IF key THEN f ELSE w.through]

\* timestamp_of finds an entry.  Frames are encoded in succession, so the
\* ring holds the last Track of them.
Tracked(w, f) == Forward(Id(w.newest), Id(f)) < Track /\ f <= w.newest

\* The frame before f is still a reference of the next frame.
PredecessorKept(w, f) ==
    LET since == DistanceFrom(Id(w.newest), Id(f))
    IN  since >= 0 /\ since + 1 < Depth

OldNews(w, f) == \/ w.newest = None
                 \/ w.through # None /\ ~Newer(f, w.through)

Verdict(w, f) == IF OldNews(w, f) THEN "nothing"
                 ELSE IF Tracked(w, f) /\ PredecessorKept(w, f) THEN "invalidate"
                 ELSE "idr"

AfterAbandon(w, f) ==
    IF OldNews(w, f) THEN w ELSE [w EXCEPT !.through = w.newest]

\* The frames a verdict of "invalidate" names, from f through the newest.
InvalidatedBy(w, f) == f .. w.newest

(************************** the keyframe gate ******************************)

\* asks: the time to ask has come already; otherwise it is IDR_RETRY_MS away.
NewGate(first) == [first |-> first, open |-> FALSE, asks |-> TRUE]

\* close: the build's keyframe was spent on the old configuration, so ask now.
ClosedGate(first, lastFed) ==
    [first |-> first, open |-> FALSE,
     asks |-> lastFed # None /\ ~Newer(first, lastFed)]

\* Mutant: frames of the previous build pass.
AdmitsAnyBuild(gate, f) == gate.open \/ IsKey(f)

Admits(gate, f) == ~Newer(gate.first, f) /\ (gate.open \/ IsKey(f))

OnFed(gate, f) == IF IsKey(f) THEN [gate EXCEPT !.open = TRUE] ELSE gate

OnLoss(gate) ==
    IF gate.open THEN [gate EXCEPT !.open = FALSE, !.asks = FALSE] ELSE gate

\* Mutant: the gate stays open through a loss.
OnLossIgnored(lossy, gate) == gate

\* Only a client whose server does not invalidate references holds frames back.
OnLossIf(lossy, gate) == IF lossy /\ ~refInvalidation THEN OnLoss(gate) ELSE gate

AsksForIdr(gate, elapsed) == ~gate.open /\ (gate.asks \/ elapsed)

-----------------------------------------------------------------------------
(* The server *)

NewServer == [need |-> TRUE, idr |-> FALSE, abandon |-> None,
              window |-> NewWindow, refs |-> {}]

\* Mutant: the last to arrive wins.
NoteLatest(pending, f) == f

\* note_abandon keeps the oldest of what is pending.
NoteAbandon(pending, f) ==
    IF pending = None \/ Newer(pending, f) THEN f ELSE pending

\* What the pending abandon asks of the next frame.
Recovery(s) == IF s.abandon = None THEN "nothing"
               ELSE IF refInvalidation THEN Verdict(s.window, s.abandon)
               ELSE "idr"

\* The references NVENC may use once the abandon is dealt with, and the frame
\* it then makes: an IDR when told to or when no reference is left.
UsableRefs(s) == IF Recovery(s) = "invalidate"
                   THEN s.refs \ InvalidatedBy(s.window, s.abandon) ELSE s.refs

ForcesIdr(s) == s.need \/ s.idr \/ Recovery(s) = "idr"

Coded(s) == IF ForcesIdr(s) \/ UsableRefs(s) = {}
              THEN [key |-> TRUE, ref |-> None, build |-> Len(builds)]
              ELSE [key |-> FALSE, ref |-> Max(UsableRefs(s)), build |-> Len(builds)]

\* Encoding::encode.  The keyframe the encoder owes leaves a RequestIdr pending:
\* the flag is swapped only when need_keyframe is not already set.
AfterEncode(s, f, key) ==
    [need    |-> FALSE,
     idr     |-> s.need /\ s.idr,
     abandon |-> None,
     window  |-> LET w == IF refInvalidation /\ s.abandon # None
                            THEN AfterAbandon(s.window, s.abandon) ELSE s.window
                 IN  OnEncoded(w, f, key),
     refs    |-> IF key THEN {f} ELSE {g \in UsableRefs(s) \cup {f} : g > f - Depth}]

Encode ==
    /\ Encoded < MaxFrames
    /\ log' = Append(log, Coded(server))
    /\ server' = AfterEncode(server, Encoded, Coded(server).key)
    /\ noted' = {}
    /\ UNCHANGED <<refInvalidation, builds, clientVars, asking>>

\* AccessLost, or a colour path that changed: the old encoder goes with its
\* references, and the headers announce the next frame as the build's first.
AfterRebuild(s) == [s EXCEPT !.need = TRUE, !.refs = {}]

Rebuild(look) ==
    /\ Len(builds) < MaxBuilds
    /\ server' = AfterRebuild(server)
    /\ builds' = Append(builds, [first |-> Encoded, look |-> look])
    /\ UNCHANGED <<refInvalidation, log, noted, clientVars, asking>>

\* on_nack with an empty list: the frame was given up.
AbandonArrives(f) ==
    /\ f >= Encoded - MaxReportLag
    /\ server' = [server EXCEPT !.abandon = NoteAbandon(@, f)]
    /\ noted' = noted \cup {f}
    /\ UNCHANGED <<refInvalidation, log, builds, clientVars, asking>>

\* on_request_idr.
RequestIdrArrives ==
    /\ asking
    /\ asking' = FALSE
    /\ server' = [server EXCEPT !.idr = TRUE]
    /\ UNCHANGED <<refInvalidation, log, builds, noted, clientVars>>

-----------------------------------------------------------------------------
(* The client *)

NewClient == [rx |-> NewAssembly, gate |-> NewGate(0), build |-> 1,
              lastFed |-> None]

\* The frame loop's receive of one packet.  What becomes complete goes straight
\* to the jitter buffer, and what that refuses is released.
Heard(r, f, p) ==
    LET got == Stored(r, f, p)
    IN  IF Stale(r, f) THEN r
        ELSE IF IsComplete(got, f) THEN Enqueued(Completed(got, f), f)
        ELSE got

Receive(f, p) ==
    /\ f >= Encoded - MaxLag /\ f < MaxSent
    /\ client' = [client EXCEPT !.rx = Heard(@, f, p)]
    /\ UNCHANGED <<refInvalidation, serverVars, decoder, lost, asking, refusals>>

\* A CodecPrivate, in order.  One that changes what the decoder sees
\* reconfigures it and closes the gate until a keyframe of the new build.
HeadersArrive ==
    /\ client.build < Len(builds)
    /\ LET b == client.build + 1
           reconfigures == builds[b].look # builds[client.build].look
       IN  /\ client' = [client EXCEPT !.build = b,
                            !.gate = IF reconfigures
                                       THEN ClosedGate(builds[b].first, client.lastFed) ELSE @]
           /\ decoder' = IF reconfigures THEN [build |-> b, fed |-> <<>>] ELSE decoder
    /\ UNCHANGED <<refInvalidation, serverVars, lost, asking, refusals>>

\* Mutant: a frame the decoder would not take is not reported.
ReportedSteps(rx, f, refused) == IF StepsOver(rx, f) THEN {rx.expected} ELSE {}

\* The abandons sent when f is released: frames stepped over are reported by
\* the first of them, and a frame the decoder would not take by its own number.
Reported(rx, f, refused) ==
    (IF StepsOver(rx, f) THEN {rx.expected} ELSE {}) \cup (IF refused THEN {f} ELSE {})

\* One frame out of the jitter buffer and, if the gate lets it, into the
\* decoder.
Released(st, taken) ==
    LET rx       == st.client.rx
        f        == Oldest(rx.queue)
        gate     == OnLossIf(StepsOver(rx, f), st.client.gate)
        admitted == Admits(gate, f)
        fed      == admitted /\ taken
        refused  == admitted /\ ~taken
    IN  [client   |-> [st.client EXCEPT
                         !.rx = Popped(rx, f),
                         !.gate = IF fed THEN OnFed(gate, f) ELSE OnLossIf(refused, gate),
                         !.lastFed = IF fed THEN f ELSE @],
         decoder  |-> IF fed THEN [st.decoder EXCEPT !.fed = Append(@, f)] ELSE st.decoder,
         lost     |-> st.lost \cup Reported(rx, f, refused),
         refusals |-> st.refusals + (IF refused THEN 1 ELSE 0)]

\* The rest of a pass, after its batch: release what is due, ask for a
\* keyframe while the gate waits for one, report what the reassembler evicted.
Pass(taken, elapsed) ==
    LET st      == Seqs!FoldLeft(Released, [client |-> client, decoder |-> decoder,
                                       lost |-> lost, refusals |-> refusals], taken)
        asks    == AsksForIdr(st.client.gate, elapsed)
        ticked  == IF asks THEN [st.client.gate EXCEPT !.asks = FALSE] ELSE st.client.gate
        evicted == Seqs!ToSet(st.client.rx.abandoned)
        gate    == OnLossIf(evicted # {}, ticked)
    IN  /\ Len(taken) \in Releasable(client.rx)
        /\ st.refusals <= MaxRefusals
        /\ client' = [st.client EXCEPT !.gate = gate, !.rx.abandoned = <<>>]
        /\ decoder' = st.decoder
        /\ lost' = st.lost \cup evicted
        /\ refusals' = st.refusals
        /\ asking' = (asking \/ asks)
        /\ UNCHANGED <<refInvalidation, serverVars>>

-----------------------------------------------------------------------------

Init ==
    /\ refInvalidation \in Modes
    /\ log = <<>>
    /\ builds = <<[first |-> 0, look |-> 1]>>
    /\ server = NewServer
    /\ client = NewClient
    /\ decoder = [build |-> 1, fed |-> <<>>]
    /\ lost = {} /\ asking = FALSE /\ noted = {} /\ refusals = 0

ServerNext ==
    \/ Encode
    \/ \E look \in {1, 2} : Rebuild(look)
    \/ \E f \in lost : AbandonArrives(f)
    \/ RequestIdrArrives

ClientNext ==
    \/ \E f \in 0 .. Encoded - 1, p \in Index : Receive(f, p)
    \/ HeadersArrive
    \/ \E k \in Releasable(client.rx), elapsed \in BOOLEAN :
          \E taken \in [1 .. k -> BOOLEAN] : Pass(taken, elapsed)

Next == ServerNext \/ ClientNext

Spec == Init /\ [][Next]_vars

-----------------------------------------------------------------------------
(* Properties *)

Frames == 0 .. MaxFrames - 1
FrameOrNone == Frames \cup {None}
Gate == [first : 0 .. MaxFrames, open : BOOLEAN, asks : BOOLEAN]

\* Every variable has its type, and what the two receive stages hold stays
\* within the packet pool and the frame slots they share.
TypeOK ==
    /\ log \in Seq([key : BOOLEAN, ref : FrameOrNone, build : 1 .. MaxBuilds])
    /\ server.abandon \in FrameOrNone /\ server.refs \subseteq Frames
    /\ client.gate \in Gate
    /\ client.rx.queue \subseteq Frames
    /\ client.rx.expected \in 0 .. MaxFrames \cup {None}
    /\ DOMAIN client.rx.partial \subseteq Frames
    /\ PoolUsed(client.rx) <= PoolSlots
    /\ Cardinality(DOMAIN client.rx.partial) + Cardinality(client.rx.queue) <= FrameSlots
    /\ decoder.fed \in Seq(Frames)
    /\ lost \subseteq Frames /\ noted \subseteq lost

Fed(i) == decoder.fed[i]
SameLook(f) == builds[BuildOf(f)].look = builds[decoder.build].look

\* Without reference invalidation, a frame the decoder is given predicts from
\* one it has been given since it was configured.  (A frame of the next build
\* that outruns its CodecPrivate is exempt: the decoder is not configured for
\* it, and starts over when it is.)
FedIsDecodable ==
    ~refInvalidation =>
        \A i \in DOMAIN decoder.fed :
            SameLook(Fed(i)) =>
                \/ IsKey(Fed(i))
                \/ log[Fed(i) + 1].ref \in {Fed(j) : j \in 1 .. i - 1}

\* The decoder is given frames in order, none twice, and after a
\* reconfiguration starts on a keyframe that is not the old build's.
FedInOrder ==
    /\ \A i, j \in DOMAIN decoder.fed : i < j => Fed(i) < Fed(j)
    /\ decoder.fed # <<>> => /\ IsKey(Fed(1))
                             /\ BuildOf(Fed(1)) >= decoder.build

\* What the decoder did not get between two frames it did was reported lost,
\* by its own number or by that of an earlier frame of the same gap, unless the
\* second is a keyframe.
NoSilentGap ==
    \A i \in 2 .. Len(decoder.fed) :
        IsKey(Fed(i)) \/
            \A g \in Fed(i - 1) + 1 .. Fed(i) - 1 :
                \E h \in lost : Fed(i - 1) < h /\ h <= g

\* Everything f is predicted from, itself included.
Ancestry(l, f) ==
    LET upTo[g \in 0 .. f] ==
            {g} \cup (IF l[g + 1].key THEN {} ELSE upTo[l[g + 1].ref])
    IN  upTo[f]

\* The oldest loss the server learned of since the last encode, unless it is
\* taken for old news, is no ancestor of the next frame.
OldestLossIsAvoided ==
    [][Len(log') > Len(log) =>
         \A f \in noted : \/ \E g \in noted : Newer(f, g)
                          \/ OldNews(server.window, f)
                          \/ f \notin Ancestry(log', Encoded)]_vars

\* Every loss the server has learned of is avoided by the next frame, as long
\* as the client shows what it gets and does not wait for a keyframe.
EveryLossIsAvoided ==
    [][Len(log') > Len(log) /\ client.gate.open =>
         \A f \in noted : f \notin Ancestry(log', Encoded)]_vars

\* With the gate open, a frame of the current build passes it.
OwnFramesPass ==
    client.gate.open =>
        \A f \in client.rx.queue : f >= client.gate.first => Admits(client.gate, f)

=============================================================================
