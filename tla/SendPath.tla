------------------------------- MODULE SendPath -------------------------------
(***************************************************************************)
(* The send thread (send_loop of sunburst-server/src/pipeline.rs): packets *)
(* out of the ring into the retransmit cache (net/retransmit.rs) and into  *)
(* batches the kernel splits into datagrams (net/send.rs and               *)
(* send/windows.rs), and NACKs answered from the cache between drains.     *)
(* The ring itself is Rings, the pace is RateControl.                      *)
(*                                                                         *)
(* A packet is its frame, its index in it and its length; a frame's        *)
(* packets are as long as the first but for the last.  Bytes are numbered, *)
(* so that a datagram cut in the wrong place is seen.                      *)
(***************************************************************************)
EXTENDS Naturals, Sequences, FiniteSets

CONSTANTS
    Shapes,     \* the lengths of a frame's packets, in order: the cases to try
    RingSize,   \* the packet ring's capacity
    CacheSlots, \* DEFAULT_SLOTS
    FrameTable, \* FRAME_TABLE
    FrameIds,   \* values of a frame id on the wire
    MaxBatch,   \* MAX_BATCH
    MaxFrames,  \* bound: frames packetized
    MaxUnsent,  \* bound: datagrams the socket refuses, or that are behind such a one
    MaxAsks     \* bound: packets asked for again

SendBounds ==
    /\ Shapes \subseteq Seq(Nat \ {0})
    /\ {RingSize, CacheSlots, FrameTable, FrameIds, MaxBatch, MaxFrames} \subseteq Nat \ {0}
    /\ FrameIds % FrameTable = 0 /\ {MaxUnsent, MaxAsks} \subseteq Nat

VARIABLES
    left,    \* packets of the frame in the making not yet pushed
    made,    \* frames begun
    ring,    \* packets on their way to the send thread
    cache,   \* RetransmitCache: the slots, where to write, the frame table
    batch,   \* Batch: its bytes, how many packets they are, the segment size, and
             \* whether a shorter packet has closed it
    offload, \* uso_ok
    popped,  \* every packet the send thread took
    out,     \* what a receiver makes of every datagram of the stream, in order, or
             \* that it never left
    asked,   \* NACKs waiting for the send thread
    wrong,   \* answers that are not the packet asked for
    missed,  \* packets still held that were not found
    thread,  \* the send thread: it "serves" NACKs, "drains" the ring, and once its
             \* stream is over "stops" by draining it once more, and is "gone"
    dropped, \* packets the full ring refused
    asks

vars == <<left, made, ring, cache, batch, offload, popped, out, asked, thread,
          wrong, missed, dropped, asks>>

Packet(frame, idx, len) == [frame |-> frame, idx |-> idx, len |-> len]
NoPacket == Packet(0, 0, 0)
Unsent == Packet(0, 1, 0)
Id(frame) == frame % FrameIds

NewCache == [slots |-> [i \in 0 .. CacheSlots - 1 |-> NoPacket], write |-> 0,
             frames |-> [i \in 0 .. FrameTable - 1 |->
                           [valid |-> FALSE, id |-> 0, first |-> 0, count |-> 0]]]

NewBatch == [bytes |-> <<>>, count |-> 0, size |-> 0, closed |-> FALSE]

Init ==
    /\ left = <<>> /\ made = 0 /\ ring = <<>>
    /\ cache = NewCache
    /\ batch = NewBatch /\ offload \in BOOLEAN
    /\ popped = <<>> /\ out = <<>>
    /\ asked = {} /\ thread = "serves"
    /\ wrong = {} /\ missed = {} /\ dropped = {} /\ asks = 0

-----------------------------------------------------------------------------
(* The GPU thread.                                                         *)

\* bound: an id comes round only when nothing is left of the frame that had it
\* (65,536 ids against 4,096 slots and 64 entries).
IdIsFree(frame) ==
    /\ \A i \in DOMAIN cache.frames : cache.frames[i].valid => cache.frames[i].id # Id(frame)
    /\ \A i \in DOMAIN cache.slots : cache.slots[i] # NoPacket => Id(cache.slots[i].frame) # Id(frame)
    /\ \A p \in asked : Id(p.frame) # Id(frame)
    /\ \A k \in DOMAIN ring : Id(ring[k].frame) # Id(frame)

BeginFrame ==
    /\ left = <<>> /\ made < MaxFrames /\ IdIsFree(made + 1)
    /\ made' = made + 1
    /\ \E shape \in Shapes :
        left' = [i \in 1 .. Len(shape) |-> Packet(made', i - 1, shape[i])]
    /\ UNCHANGED <<ring, cache, batch, offload, popped, out, asked, thread,
                   wrong, missed, dropped, asks>>

\* A full ring refuses the packet, and the frame goes on without it.
Push ==
    /\ left # <<>>
    /\ left' = Tail(left)
    /\ IF Len(ring) < RingSize
         THEN ring' = Append(ring, Head(left)) /\ UNCHANGED dropped
         ELSE dropped' = dropped \cup {Head(left)} /\ UNCHANGED ring
    /\ UNCHANGED <<made, cache, batch, offload, popped, out, asked, thread,
                   wrong, missed, asks>>

-----------------------------------------------------------------------------
(* The retransmit cache.                                                   *)

Place(frame) == Id(frame) % FrameTable

\* The table's entry of the frame, made anew when it is another's.
Entry(c, frame) ==
    LET e == c.frames[Place(frame)] IN
    IF e.valid /\ e.id = Id(frame) THEN e
    ELSE [valid |-> TRUE, id |-> Id(frame), first |-> c.write, count |-> 0]

CountWith(count, idx) == IF count > idx + 1 THEN count ELSE idx + 1

\* store.
Stored(c, p) ==
    [slots  |-> [c.slots EXCEPT ![c.write] = p],
     write  |-> (c.write + 1) % CacheSlots,
     frames |-> [c.frames EXCEPT ![Place(p.frame)] =
                   [Entry(c, p.frame) EXCEPT !.count = CountWith(@, p.idx)]]]

\* get: where the packet would be, and what the slot's own header must say.
SlotOf(frame, idx) ==
    cache.slots[(cache.frames[Place(frame)].first + idx) % CacheSlots]
IsListed(frame, idx) ==
    LET e == cache.frames[Place(frame)] IN e.valid /\ e.id = Id(frame) /\ idx < e.count
HeaderSkipped(p, frame, idx) == TRUE
HeaderMatches(p, frame, idx) == p # NoPacket /\ Id(p.frame) = Id(frame) /\ p.idx = idx

Found(frame, idx) ==
    IsListed(frame, idx) /\ HeaderMatches(SlotOf(frame, idx), frame, idx)

\* A packet that is still in a slot, in a frame that lost none to the ring and
\* whose place in the table no newer frame has taken.
Kept(frame, idx) ==
    /\ \E i \in DOMAIN cache.slots :
         cache.slots[i].frame = frame /\ cache.slots[i].idx = idx
    /\ \A p \in dropped : p.frame # frame
    /\ \A k \in DOMAIN popped : popped[k].frame < frame + FrameTable

-----------------------------------------------------------------------------
(* Batches.                                                                *)

BytesOf(p) == [k \in 1 .. p.len |-> <<p, k>>]

\* try_add: nothing longer than the first packet, nothing after a shorter one.
FitsAnyLength(b, p) == b.count < MaxBatch
Fits(b, p) == b.count = 0 \/ (~b.closed /\ b.count < MaxBatch /\ p.len <= b.size)

SizeWith(b, p) == IF b.count = 0 THEN p.len ELSE b.size
Added(b, p) ==
    [bytes  |-> b.bytes \o BytesOf(p),
     count  |-> b.count + 1,
     size   |-> SizeWith(b, p),
     closed |-> b.closed \/ p.len < SizeWith(b, p)]

\* The datagrams the batch is cut into: a run of the segment size, and what is
\* left.
Ends(n, b) == IF n * b.size < Len(b.bytes) THEN n * b.size ELSE Len(b.bytes)
Segments(b) ==
    [n \in 1 .. (Len(b.bytes) + b.size - 1) \div b.size |->
        SubSeq(b.bytes, (n - 1) * b.size + 1, Ends(n, b))]

\* The packet a receiver makes of a datagram, if it is one.
Received(datagram) ==
    LET p == datagram[1][1] IN IF datagram = BytesOf(p) THEN p ELSE NoPacket

\* What the batch is to a receiver when all of it leaves, and when only the first k
\* datagrams do: send_plain returns at the first that the socket refuses.
Sent(b) ==
    IF b.count = 0 THEN <<>> ELSE [n \in DOMAIN Segments(b) |-> Received(Segments(b)[n])]
Leaving(b, k) == [n \in DOMAIN Sent(b) |-> IF n <= k THEN Sent(b)[n] ELSE Unsent]

\* flush, send_batch: more than one datagram is the kernel's to cut; when it refuses,
\* it is not asked again, and they are sent one by one.  flush drops the error, and
\* with the batch what was behind it.
Flush(b) ==
    \E k \in 0 .. Len(Sent(b)) :
        /\ IF offload /\ b.count > 1
             THEN offload' = FALSE \/ (k = Len(Sent(b)) /\ UNCHANGED offload)
             ELSE UNCHANGED offload
        /\ out' = out \o Leaving(b, k)
        /\ Cardinality({n \in DOMAIN out' : out'[n] = Unsent}) <= MaxUnsent

-----------------------------------------------------------------------------
(* The send thread.                                                        *)

\* service_retransmit: at the top of the loop, before the stream.
Serve ==
    /\ thread = "serves"
    /\ \E q \in asked :
        /\ asked' = asked \ {q}
        /\ wrong' = IF /\ Found(q.frame, q.idx)
                       /\ LET p == SlotOf(q.frame, q.idx) IN
                             p.frame # q.frame \/ p.idx # q.idx
                      THEN wrong \cup {q} ELSE wrong
        /\ missed' = IF Kept(q.frame, q.idx) /\ ~Found(q.frame, q.idx)
                       THEN missed \cup {q} ELSE missed
    /\ UNCHANGED <<left, made, ring, cache, batch, offload, popped, out, thread, dropped, asks>>

BeginDrain ==
    /\ thread = "serves" /\ asked = {} /\ ring # <<>>
    /\ thread' = "drains"
    /\ UNCHANGED <<left, made, ring, cache, batch, offload, popped, out, asked,
                   wrong, missed, dropped, asks>>

\* A packet out of the ring; once the stream is over no NACK will ask for it, and
\* the cache does not get it.
Take ==
    /\ thread \in {"drains", "stops"} /\ ring # <<>>
    /\ LET p == Head(ring) IN
        /\ cache' = IF thread = "drains" THEN Stored(cache, p) ELSE cache
        /\ popped' = Append(popped, p)
        /\ IF Fits(batch, p)
             THEN batch' = Added(batch, p) /\ UNCHANGED <<out, offload>>
             ELSE batch' = Added(NewBatch, p) /\ Flush(batch)
    /\ ring' = Tail(ring)
    /\ UNCHANGED <<left, made, asked, thread, wrong, missed, dropped, asks>>

EndDrain ==
    /\ ring = <<>>
    /\ \/ thread = "drains" /\ thread' = "serves"
       \/ thread = "stops" /\ thread' = "gone"
    /\ batch' = NewBatch /\ Flush(batch)
    /\ UNCHANGED <<left, made, ring, cache, popped, asked, wrong, missed, dropped, asks>>

\* The stream's stop flag, which the loop looks at between two drains.
Stop ==
    /\ thread = "serves"
    /\ thread' = "stops"
    /\ UNCHANGED <<left, made, ring, cache, batch, offload, popped, out, asked,
                   wrong, missed, dropped, asks>>

\* A NACK reaches the retransmit ring: for any packet of a frame of which one
\* was sent, and which is not so old that its id is another's by now.
Ask ==
    /\ asks < MaxAsks /\ asks' = asks + 1
    /\ \E k \in DOMAIN popped, shape \in Shapes : \E i \in DOMAIN shape :
        /\ popped[k].frame + FrameIds > made
        /\ asked' = asked \cup {[frame |-> popped[k].frame, idx |-> i - 1]}
    /\ UNCHANGED <<left, made, ring, cache, batch, offload, popped, out, thread,
                   wrong, missed, dropped>>

Next == BeginFrame \/ Push \/ Serve \/ BeginDrain \/ Take \/ EndDrain \/ Stop \/ Ask

Spec == Init /\ [][Next]_vars

-----------------------------------------------------------------------------

\* However the kernel cuts the batches (send.rs Batch: "every datagram the same size
\* except the last"), each datagram of the stream is one packet the GPU thread made,
\* in its place, or was not sent at all because the socket refused it or one before
\* it in its batch; and what waits in the batch is the packets taken since, whole.
StreamIsWhole ==
    /\ Len(popped) = Len(out) + Len(Sent(batch))
    /\ \A n \in DOMAIN out : out[n] \in {popped[n], Unsent}
    /\ \A n \in DOMAIN Sent(batch) : Sent(batch)[n] = popped[Len(out) + n]

\* A NACK is answered with the packet it names or not at all, and a packet still held
\* is found, whether the socket ever took it or not, over the wrap of frame ids, of
\* the cache and of its table (retransmit.rs: "a miss, never a wrong packet").
RetransmitsAreRight == wrong = {} /\ missed = {}

-----------------------------------------------------------------------------
(* The inductive invariant.                                                *)

Packets == [frame : Nat, idx : Nat, len : Nat]

TypeOK ==
    /\ made \in Nat
    /\ left \in Seq(Packets) /\ ring \in Seq(Packets)
    /\ popped \in Seq(Packets) /\ out \in Seq(Packets)
    /\ cache \in [slots  : [0 .. CacheSlots - 1 -> Packets], write : Nat,
                  frames : [0 .. FrameTable - 1 ->
                              [valid : BOOLEAN, id : Nat, first : Nat, count : Nat]]]
    /\ batch \in [bytes : Seq(Packets \X Nat), count : Nat, size : Nat, closed : BOOLEAN]
    /\ \A q \in asked : q.frame \in Nat /\ q.idx \in Nat

\* What was pushed, whether it has been taken or not.
Line == popped \o ring

Before(p, q) == p.frame < q.frame \/ (p.frame = q.frame /\ p.idx < q.idx)
IsWhole(frame) == \A p \in dropped : p.frame # frame

\* Packets come frame by frame and index by index; one of a frame that lost none is
\* as many places after the frame's first as its index says.
InOrder ==
    /\ \A a \in 1 .. Len(Line) : Line[a].frame \in 1 .. made /\ Line[a].len > 0
    /\ \A a, b \in 1 .. Len(Line) : a < b => Before(Line[a], Line[b])
    /\ \A a \in 1 .. Len(Line) : IsWhole(Line[a].frame) =>
         /\ Line[a].idx < a
         /\ Line[a - Line[a].idx].frame = Line[a].frame
         /\ Line[a - Line[a].idx].idx = 0
LeftIsNext ==
    /\ \A b \in 1 .. Len(left) :
         left[b].frame = made /\ left[b].idx = left[1].idx + (b - 1) /\ left[b].len > 0
    /\ left # <<>> =>
         /\ made > 0
         /\ \A a \in 1 .. Len(Line) : Before(Line[a], left[1])
         /\ left[1].idx > 0 /\ IsWhole(made) =>
              /\ Line # <<>> /\ Line[Len(Line)].frame = made
              /\ Line[Len(Line)].idx = left[1].idx - 1

\* No id is still in use when it comes round.
Lives(frame) == made < frame + FrameIds
IdsLive ==
    /\ \A k \in 1 .. Len(ring) : Lives(ring[k].frame)
    /\ \A i \in 0 .. CacheSlots - 1 : cache.slots[i] # NoPacket => Lives(cache.slots[i].frame)
    /\ \A q \in asked : q.frame \in 1 .. made /\ Lives(q.frame)
    /\ \A i \in 0 .. FrameTable - 1 : cache.frames[i].valid =>
         \E k \in 1 .. Len(popped) :
            Lives(popped[k].frame) /\ Id(popped[k].frame) = cache.frames[i].id

\* The slots hold the last packets taken, each in its turn.
SlotsHold ==
    /\ cache.write = Len(popped) % CacheSlots
    /\ \A k \in 1 .. Len(popped) : Len(popped) < k + CacheSlots =>
         cache.slots[(k - 1) % CacheSlots] = popped[k]
    /\ \A i \in 0 .. CacheSlots - 1 : cache.slots[i] = NoPacket \/
         \E k \in 1 .. Len(popped) : Len(popped) < k + CacheSlots /\ i = (k - 1) % CacheSlots

\* The entry of the newest frame of its place says where the first of its packets is,
\* and how many there are.
FirstOf(m, frame) ==
    popped[m].frame = frame /\ \A j \in 1 .. m - 1 : popped[j].frame # frame
IsNewest(frame) ==
    \A j \in 1 .. Len(popped) :
        Place(popped[j].frame) = Place(frame) => popped[j].frame <= frame
Leads(e, k) ==
    /\ e.valid /\ e.id = Id(popped[k].frame) /\ popped[k].idx < e.count
    /\ \E m \in 1 .. k : FirstOf(m, popped[k].frame) /\ e.first = (m - 1) % CacheSlots
EntriesLead ==
    \A k \in 1 .. Len(popped) :
        IsNewest(popped[k].frame) => Leads(cache.frames[Place(popped[k].frame)], k)

\* Only while NACKs may still be served.
CacheHolds == thread \in {"serves", "drains"} => SlotsHold /\ EntriesLead

\* The batch is the packets taken and not yet sent, all as long as the first but for
\* the last.
Whole(p, i) == \A k \in 1 .. p.len : batch.bytes[i + k] = <<p, k>>
BatchHolds ==
    LET m == Len(out)
        n == Len(popped)
    IN  /\ n = m + batch.count
        /\ \A i \in 1 .. m : out[i] \in {popped[i], Unsent}
        /\ batch.count = 0 => batch = NewBatch
        /\ batch.count > 0 =>
             /\ batch.size > 0 /\ \A i \in m + 1 .. n - 1 : popped[i].len = batch.size
             /\ popped[n].len <= batch.size
             /\ batch.closed <=> popped[n].len < batch.size
             /\ Len(batch.bytes) = (batch.count - 1) * batch.size + popped[n].len
             /\ \A i \in 1 .. batch.count : Whole(popped[m + i], (i - 1) * batch.size)

SendInv ==
    /\ TypeOK /\ InOrder /\ LeftIsNext /\ IdsLive /\ CacheHolds /\ BatchHolds
    /\ RetransmitsAreRight
=============================================================================
