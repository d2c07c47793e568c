---------------------------- MODULE CursorShape ----------------------------
(***************************************************************************)
(* The pointer's bitmap, from the server's poll of the system cursor       *)
(* (sunburst-server cursor.rs, session.rs), cut into chunks, through the   *)
(* queue in front of the reliable window (endpoint.rs), to the client that *)
(* puts the chunks together and draws the pointer (client.rs).             *)
(*                                                                         *)
(* The reliable channel between them delivers in order (ReliableChannel):  *)
(* here it is the frames in flight, at most Window of them.  A cursor is   *)
(* one of Shapes, each with its number of chunks; a monochrome one has no  *)
(* bitmap to read.                                                         *)
(***************************************************************************)
EXTENDS Integers, Sequences, FiniteSets

CONSTANTS
    Shapes,         \* coloured system cursors
    Mono,           \* a monochrome one
    ChunksOf,       \* [Shapes -> chunks of its bitmap]
    Window,         \* frames the reliable channel has in flight at most
    MaxChanges,     \* bound: changes of the system cursor
    MaxFailures     \* bound: bitmaps that could not be read

VARIABLES
    cursor,     \* the system's: a shape, or Hidden
    last,       \* CursorPoller.last_cursor
    hiddenSent, \* CursorPoller.hidden_sent
    shapeId,    \* CursorPoller.shape_id
    captured,   \* history: what the newest poll that sent something captured
    pendingOut, \* Session.pending_out
    inFlight,   \* sent and not yet acknowledged
    id, of, got,\* CursorReassembler: the shape being put together, whose
                \* bitmap it announced, and the chunks of it there are
    drawn,      \* history: what the client draws: shape and chunks drawn
    changes, failures

vars == <<cursor, last, hiddenSent, shapeId, captured, pendingOut, inFlight,
          id, of, got, drawn, changes, failures>>
poller == <<last, hiddenSent, shapeId, captured>>
reassembler == <<id, of, got, drawn>>

Hidden == "hidden"
Nothing == "nothing"

ShapeBounds ==
    /\ {Hidden, Nothing} \cap (Shapes \cup {Mono}) = {} /\ Mono \notin Shapes
    /\ ChunksOf \in [Shapes -> Nat \ {0}]
    /\ Window \in Nat \ {0}
    /\ {MaxChanges, MaxFailures} \subseteq Nat

Init ==
    /\ cursor \in Shapes \cup {Mono, Hidden}
    /\ last = Nothing /\ hiddenSent = FALSE /\ shapeId = 0
    /\ captured = Nothing
    /\ pendingOut = <<>> /\ inFlight = <<>>
    /\ id = 0 /\ of = Nothing /\ got = {}
    /\ drawn = [shape |-> Nothing, chunks |-> {}]
    /\ changes = 0 /\ failures = 0

SystemChanges(c) ==
    /\ changes < MaxChanges
    /\ c # cursor
    /\ changes' = changes + 1
    /\ cursor' = c
    /\ UNCHANGED <<poller, pendingOut, inFlight, reassembler, failures>>

----------------------------------------------------------------------------
(* chunk_shape: every chunk repeats the head.                              *)
Chunked(n, s) ==
    [i \in 1..ChunksOf[s] |-> [id |-> n, of |-> s, offset |-> i - 1]]
HiddenChunk(n) == <<[id |-> n, of |-> Hidden, offset |-> 0]>>

(* flush_control: as many as the window has room for, in order, and the    *)
(* rest wait their turn.                                                   *)
RestDropped(queue, room) == <<>>
RestWaits(queue, room) == SubSeq(queue, room + 1, Len(queue))
Flushed(queue) ==
    LET room == Window - Len(inFlight)
    IN  /\ inFlight' = inFlight \o SubSeq(queue, 1, IF Len(queue) < room THEN Len(queue) ELSE room)
        /\ pendingOut' = IF Len(queue) <= room THEN <<>> ELSE RestWaits(queue, room)

(* CursorPoller::poll, and its chunks queued: a cursor is captured when it *)
(* differs from the last one, a hidden one is announced once.  A bitmap    *)
(* that is not there, or could not be read, sends nothing.                 *)
IsNew == cursor # Hidden /\ cursor # last

(* capture_shape: a cursor with a colour bitmap.                           *)
Readable(c) == c \in Shapes

Poll(reads) ==
    /\ reads \/ (IsNew /\ Readable(cursor) /\ failures < MaxFailures)
    /\ failures' = IF reads THEN failures ELSE failures + 1
    /\ IsNew \/ (cursor = Hidden /\ ~hiddenSent)
    /\ last' = IF IsNew THEN cursor ELSE Nothing
    /\ hiddenSent' = ~IsNew
    /\ IF IsNew /\ (~reads \/ ~Readable(cursor))
       THEN /\ captured' = captured /\ shapeId' = shapeId
            /\ Flushed(pendingOut)
       ELSE /\ captured' = cursor /\ shapeId' = shapeId + 1
            /\ Flushed(pendingOut \o (IF IsNew THEN Chunked(shapeId + 1, cursor)
                                      ELSE HiddenChunk(shapeId + 1)))
    /\ UNCHANGED <<cursor, reassembler, changes>>

(* The endpoint's tick.                                                    *)
Tick ==
    /\ pendingOut # <<>> /\ Len(inFlight) < Window
    /\ Flushed(pendingOut)
    /\ UNCHANGED <<cursor, poller, reassembler, changes, failures>>

----------------------------------------------------------------------------
(* CursorReassembler::push: a chunk of another shape, or a first chunk,    *)
(* starts a shape afresh.                                                  *)
Afresh(c) == c.id # id \/ c.offset = 0

Deliver ==
    /\ inFlight # <<>>
    /\ inFlight' = Tail(inFlight)
    /\ LET c == Head(inFlight)
           all == (IF Afresh(c) THEN {} ELSE got) \cup {<<c.of, c.offset>>}
       IN  /\ id' = IF Afresh(c) THEN c.id ELSE id
           /\ of' = IF Afresh(c) THEN c.of ELSE of
           /\ IF c.of = Hidden
              THEN got' = {} /\ drawn' = [shape |-> Hidden, chunks |-> {}]
              ELSE IF Cardinality(all) >= ChunksOf[of']
              THEN got' = {} /\ drawn' = [shape |-> of', chunks |-> all]
              ELSE got' = all /\ drawn' = drawn
    /\ UNCHANGED <<cursor, poller, pendingOut, changes, failures>>

Next ==
    \/ \E c \in Shapes \cup {Mono, Hidden} : SystemChanges(c)
    \/ \E reads \in BOOLEAN : Poll(reads)
    \/ Tick
    \/ Deliver

Spec == Init /\ [][Next]_vars

----------------------------------------------------------------------------
(* "A burst can exceed the window, and dropping a chunk would corrupt the  *)
(* shape - the queue is what makes reliable delivery hold under a burst"   *)
(* (endpoint.rs:136-139): however fast the cursor changes, a drawn bitmap  *)
(* is whole and all of one shape, and once nothing is on its way the       *)
(* client draws the last shape the server captured.                        *)
DrawnIsCaptured ==
    /\ drawn.shape \in Shapes =>
           drawn.chunks = {<<drawn.shape, i>> : i \in 0..(ChunksOf[drawn.shape] - 1)}
    /\ (pendingOut = <<>> /\ inFlight = <<>>) => drawn.shape = captured
=============================================================================
