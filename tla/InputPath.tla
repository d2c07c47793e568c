------------------------------ MODULE InputPath ------------------------------
(***************************************************************************)
(* A key and a mouse from the TV to the server's desktop and the pointer's *)
(* position back: the UI thread, which numbers its moves and draws the     *)
(* cursor where it predicts it (android/input.rs, cursor_predict.rs), the  *)
(* client thread that maps and sends (android/input_map.rs, client.rs),    *)
(* unreliable datagrams, the injector's queue and thread (input/inject.rs, *)
(* input/keymap.rs) and the position reports (server/session.rs,           *)
(* net/cursor.rs).  The injector lives as long as the server, a stream as  *)
(* long as its client: what the one keeps from the other is in here.       *)
(*                                                                         *)
(* One axis; a distance of 1 stands for anything between IDLE_SNAP_PX and  *)
(* MOVING_SNAP_PX, at a gain of one pixel a count.                         *)
(***************************************************************************)
EXTENDS Integers, SequencesExt

CONSTANTS
    Modifier,     \* Ctrl, Shift ...
    Letter,       \* keys that are not modifiers
    Extent,       \* the pointer's range is 0 .. Extent
    Ring,         \* moves the predictor remembers (RING)
    QueueDepth,   \* QUEUE_DEPTH
    MaxSessions,  \* bound: streams
    MaxEvents,    \* bound: moves and key events
    MaxReports,   \* bound: positions on the reliable channel at once
    MaxFaults     \* bound: datagrams lost, pointers warped, secure desktops

VARIABLES
    streaming, sessions,   \* a stream is up, and how many there have been
    events,      \* history: moves and key events made
    phys,        \* the keys held at the client
    nextSeq,     \* CursorShared::next_seq
    drawn,       \* the predictor: where the overlay is drawn, and why
    raw,         \* the channel from the UI thread to the client thread
    wire,        \* datagrams in flight, any of which may be next
    injq,        \* the injector's queue
    believed,    \* Modifiers::down
    held,        \* the keys the desktop takes to be down
    pointer,     \* where the server's pointer is
    mouseSeq,    \* Stats::mouse_seq, 0 for none
    secure,      \* a secure desktop is up: SendInput goes nowhere
    sampled,     \* the input_seq the endpoint has read and not yet reported, and
                 \* (history) where the pointer was then
    throttle,    \* PositionThrottle
    reports,     \* positions on the reliable channel
    mailbox,     \* CursorShared::report
    chord,       \* history: what the last letter pressed was meant with, and met
    disturbed,   \* history: something the client cannot know moved the pointer
    refused,     \* history: a SendInput went nowhere
    faults       \* count, for the bound

clientVars == <<events, phys, nextSeq, drawn, raw>>
serverVars == <<injq, believed, held, pointer, mouseSeq, chord, refused>>
reportVars == <<sampled, throttle, reports, mailbox>>
vars == <<streaming, sessions, clientVars, wire, serverVars, secure, reportVars, disturbed, faults>>

None == -1
Unread == [seq |-> None, x |-> None]
Key == Modifier \cup Letter

Fault == faults < MaxFaults /\ faults' = faults + 1

\* The last two are history: the prediction has met the edge of the output or
\* started over from a ring that had forgotten moves, and how far the moves
\* went that a report's position had and its input_seq had not.
Predictor == [x |-> 0, anchored |-> FALSE, ring |-> <<>>, overflowed |-> FALSE,
              moving |-> FALSE, guessed |-> FALSE, twice |-> {0}]

\* A throttle with nothing sent: the next position goes out whatever it is.
Throttle == [last |-> None, due |-> TRUE]

Init ==
    /\ streaming = FALSE /\ sessions = 0
    /\ events = 0 /\ phys = {} /\ nextSeq = 1 /\ drawn = Predictor
    /\ raw = <<>> /\ wire = <<>> /\ injq = <<>>
    /\ believed = {} /\ held = {} /\ pointer = Extent \div 2 /\ mouseSeq = 0
    /\ secure = FALSE /\ sampled = Unread /\ throttle = Throttle
    /\ reports = <<>> /\ mailbox = <<>>
    /\ chord = [meant |-> {}, met |-> {}]
    /\ disturbed = FALSE /\ refused = FALSE /\ faults = 0

-----------------------------------------------------------------------------
(* Helpers.                                                                *)

Clamp(x) == IF x < 0 THEN 0 ELSE IF x > Extent THEN Extent ELSE x

\* The moves among a sequence of events, and how far some moves go.
MovesIn(s) == SelectSeq(s, LAMBDA e : e.kind = "move")
Distance(ms) == FoldLeft(LAMBDA sum, m : sum + m.d, 0, ms)

-----------------------------------------------------------------------------
(* The predictor.                                                          *)

\* acked(): a move the report's position already includes.
Acked(seq, ack) == seq <= ack

\* on_local_move
Moved(p, seq, d) ==
    LET kept == IF Len(p.ring) = Ring THEN Tail(p.ring) ELSE p.ring IN
    [p EXCEPT !.x = Clamp(@ + d),
              !.ring = Append(kept, [seq |-> seq, d |-> d]),
              !.overflowed = @ \/ Len(p.ring) = Ring,
              !.moving = TRUE,
              !.guessed = @ \/ (p.anchored /\ p.x + d # Clamp(p.x + d))]

\* on_server: what the report says plus what was sent since is the truth, and
\* the overlay goes there if it is not within what is tolerated.
Reconciled(p, report) ==
    LET ring == SelectSeq(p.ring, LAMBDA m : ~Acked(m.seq, report.seq))
        truth == report.x + Distance(ring)
        off == IF truth > p.x THEN truth - p.x ELSE p.x - truth
        corrects == ~p.anchored \/ off > (IF p.moving THEN 1 ELSE 0)
    IN IF p.moving /\ p.overflowed
         THEN [p EXCEPT !.ring = ring]
         ELSE [p EXCEPT !.ring = ring, !.overflowed = @ /\ p.moving,
                        !.x = IF corrects THEN Clamp(truth) ELSE @,
                        !.anchored = TRUE,
                        !.guessed = @ \/ truth # Clamp(truth) \/ p.overflowed,
                        !.twice = @ \cup {report.twice}]

\* CursorShared::sync: take what is in the mailbox, if anything.
Synced == IF mailbox = <<>> THEN drawn ELSE Reconciled(drawn, mailbox[1])

-----------------------------------------------------------------------------
(* The UI thread.                                                          *)

\* nativeMouseMove
MouseMove(d) ==
    /\ streaming /\ events < MaxEvents
    /\ events' = events + 1
    /\ nextSeq' = nextSeq + 1
    /\ drawn' = Moved(Synced, nextSeq, d)
    /\ mailbox' = <<>>
    /\ raw' = Append(raw, [kind |-> "move", seq |-> nextSeq, d |-> d])
    /\ UNCHANGED <<streaming, sessions, phys, wire, serverVars, secure,
                   sampled, throttle, reports, disturbed, faults>>

\* nativeKey.  The meta state is what is held once the event has happened.
KeyEvent(k) ==
    /\ streaming /\ events < MaxEvents
    /\ events' = events + 1
    /\ phys' = IF k \in phys THEN phys \ {k} ELSE phys \cup {k}
    /\ raw' = Append(raw, [kind |-> "key", key |-> k, down |-> k \notin phys,
                           asserted |-> phys' \cap Modifier])
    /\ UNCHANGED <<streaming, sessions, nextSeq, drawn, wire, serverVars, secure,
                   reportVars, disturbed, faults>>

\* nativeCursorSync, the upcall a report causes.
CursorSync ==
    /\ mailbox # <<>>
    /\ drawn' = Synced /\ mailbox' = <<>>
    /\ UNCHANGED <<streaming, sessions, events, phys, nextSeq, raw, wire, serverVars,
                   secure, sampled, throttle, reports, disturbed, faults>>

\* MOVING_WINDOW_MS since the last move.
HandRests ==
    /\ drawn.moving
    /\ drawn' = [drawn EXCEPT !.moving = FALSE]
    /\ UNCHANGED <<streaming, sessions, events, phys, nextSeq, raw, wire, serverVars,
                   secure, reportVars, disturbed, faults>>

-----------------------------------------------------------------------------
(* The client thread and the network.                                      *)

\* The drain in run_client: a move has its number, a key gets its now.
Send ==
    /\ raw # <<>>
    /\ raw' = Tail(raw)
    /\ IF Head(raw).kind = "move"
         THEN wire' = Append(wire, Head(raw)) /\ UNCHANGED nextSeq
         ELSE wire' = Append(wire, Head(raw)) /\ nextSeq' = nextSeq + 1
    /\ UNCHANGED <<streaming, sessions, events, phys, drawn, serverVars, secure,
                   reportVars, disturbed, faults>>

Lose(i) ==
    /\ Fault
    /\ wire' = RemoveAt(wire, i)
    /\ disturbed' = (disturbed \/ wire[i].kind = "move")
    /\ UNCHANGED <<streaming, sessions, clientVars, serverVars, secure, reportVars>>

\* Injector::send never blocks: what finds the queue full is dropped.
Enqueued(e) == IF Len(injq) < QueueDepth THEN Append(injq, e) ELSE injq

\* The endpoint takes the datagram and hands it to the injector.
Arrive(i) ==
    /\ wire' = RemoveAt(wire, i)
    /\ injq' = Enqueued(wire[i])
    /\ disturbed' = (disturbed \/ (wire[i].kind = "move"
                                   /\ (injq' = injq \/ MovesIn(SubSeq(wire, 1, i - 1)) # <<>>)))
    /\ UNCHANGED <<streaming, sessions, clientVars, believed, held, pointer, mouseSeq, chord,
                   refused, secure, reportVars, faults>>

\* The client thread takes a position off the reliable channel.
Publish ==
    /\ reports # <<>>
    /\ reports' = Tail(reports)
    /\ mailbox' = <<Head(reports)>>
    /\ UNCHANGED <<streaming, sessions, clientVars, wire, serverVars, secure, sampled, throttle,
                   disturbed, faults>>

-----------------------------------------------------------------------------
(* The injector.                                                           *)

\* Mutant: only what is missing is pressed.
ReconcileUp(k, asserted) ==
    [press |-> IF k \in Modifier THEN {} ELSE asserted \ believed, release |-> {}]

\* Modifiers::resolve: the keys to press and to release before an event's own
\* key.  A modifier's own event reconciles nothing.
Reconcile(k, asserted) ==
    IF k \in Modifier THEN [press |-> {}, release |-> {}]
    ELSE [press |-> asserted \ believed, release |-> believed \ asserted]

Pressed(keys_, k, down) == IF down THEN keys_ \cup {k} ELSE keys_ \ {k}

ApplyKey(e) ==
    LET first == Reconcile(e.key, e.asserted)
        before == (held \cup first.press) \ first.release
    IN /\ believed' = IF e.key \in Modifier THEN Pressed(believed, e.key, e.down) ELSE e.asserted
       /\ IF secure
            THEN refused' = TRUE /\ UNCHANGED <<held, chord>>
            ELSE /\ held' = Pressed(before, e.key, e.down)
                 /\ chord' = IF e.key \in Letter /\ e.down
                               THEN [meant |-> e.asserted, met |-> before \cap Modifier]
                               ELSE chord
                 /\ UNCHANGED refused
       /\ UNCHANGED <<pointer, mouseSeq, disturbed>>

ApplyMove(e) ==
    /\ mouseSeq' = IF e.seq > mouseSeq THEN e.seq ELSE mouseSeq
    /\ IF secure
         THEN refused' = TRUE /\ disturbed' = TRUE /\ UNCHANGED pointer
         ELSE /\ pointer' = Clamp(pointer + e.d)
              /\ disturbed' = (disturbed \/ pointer' # pointer + e.d)
              /\ UNCHANGED refused
    /\ UNCHANGED <<believed, held, chord>>

\* One pass of the injector's loop.
Inject ==
    /\ injq # <<>>
    /\ injq' = Tail(injq)
    /\ IF Head(injq).kind = "move" THEN ApplyMove(Head(injq)) ELSE ApplyKey(Head(injq))
    /\ UNCHANGED <<streaming, sessions, clientVars, wire, secure, reportVars, faults>>

-----------------------------------------------------------------------------
(* The reports, from the endpoint's thread.                                *)

\* drain_outbound reads mouse_seq before it samples the pointer ...
ReadSeq ==
    /\ streaming /\ sampled = Unread /\ Len(reports) < MaxReports
    /\ sampled' = [seq |-> mouseSeq, x |-> pointer]
    /\ UNCHANGED <<streaming, sessions, clientVars, wire, serverVars, secure, throttle, reports,
                   mailbox, disturbed, faults>>

\* PositionThrottle::offer
Due == throttle.last = None \/ (throttle.last # pointer /\ throttle.due)

\* Mutant: the position is sampled before input_seq is read.
ReportedLate == [x |-> sampled.x, seq |-> mouseSeq, twice |-> 0]

\* The position sampled now, and the input_seq read before it.
Reported == [x |-> pointer, seq |-> sampled.seq, twice |-> pointer - sampled.x]

\* ... while the injector goes on.
Report ==
    /\ sampled # Unread
    /\ sampled' = Unread
    /\ IF Due
         THEN /\ reports' = Append(reports, Reported)
              /\ throttle' = [last |-> pointer, due |-> FALSE]
         ELSE UNCHANGED <<reports, throttle>>
    /\ UNCHANGED <<streaming, sessions, clientVars, wire, serverVars, secure, mailbox,
                   disturbed, faults>>

IntervalPasses ==
    /\ ~throttle.due
    /\ throttle' = [throttle EXCEPT !.due = TRUE]
    /\ UNCHANGED <<streaming, sessions, clientVars, wire, serverVars, secure, sampled, reports,
                   mailbox, disturbed, faults>>

-----------------------------------------------------------------------------
(* Streams, and the desktop's own life.                                    *)

\* session_start resets mouse_seq; the injector's queue and what it holds down
\* are left as they are.
SessionStarts ==
    /\ ~streaming /\ sessions < MaxSessions
    /\ streaming' = TRUE /\ sessions' = sessions + 1
    /\ phys' = {} /\ nextSeq' = 1 /\ drawn' = Predictor /\ raw' = <<>>
    /\ mouseSeq' = 0
    /\ throttle' = Throttle /\ sampled' = Unread /\ reports' = <<>> /\ mailbox' = <<>>
    /\ disturbed' = (MovesIn(injq) # <<>>)
    /\ UNCHANGED <<events, wire, injq, believed, held, pointer, chord, refused, secure, faults>>

\* session_stop, by Bye or because the client is gone.  What is still in
\* flight is under a key that is no longer taken.
SessionEnds ==
    /\ streaming
    /\ streaming' = FALSE
    /\ raw' = <<>> /\ wire' = <<>> /\ reports' = <<>> /\ mailbox' = <<>> /\ sampled' = Unread
    /\ UNCHANGED <<sessions, events, phys, nextSeq, drawn, serverVars, secure, throttle,
                   disturbed, faults>>

\* A game puts the pointer somewhere else.
Warp ==
    /\ Fault
    /\ \E x \in {Clamp(pointer - 1), Clamp(pointer + 1)} : pointer' = x
    /\ disturbed' = TRUE
    /\ UNCHANGED <<streaming, sessions, clientVars, wire, injq, believed, held, mouseSeq, chord,
                   refused, secure, reportVars>>

\* UAC or the lock screen comes up, or goes.
SwitchDesktop ==
    /\ IF secure THEN UNCHANGED faults ELSE Fault
    /\ secure' = ~secure
    /\ UNCHANGED <<streaming, sessions, clientVars, wire, serverVars, reportVars, disturbed>>

Next ==
    \/ \E d \in {-1, 1} : MouseMove(d)
    \/ \E k \in Key : KeyEvent(k)
    \/ CursorSync \/ HandRests \/ Send \/ Publish \/ Inject
    \/ \E i \in 1 .. Len(wire) : Arrive(i) \/ Lose(i)
    \/ ReadSeq \/ Report \/ IntervalPasses
    \/ SessionStarts \/ SessionEnds \/ Warp \/ SwitchDesktop

Spec == Init /\ [][Next]_vars

-----------------------------------------------------------------------------
(* Properties.                                                             *)

\* As long as every move arrives in order and nobody else moves the pointer,
\* the overlay is where the pointer will be once the moves on their way have
\* landed, or ahead of it by moves that one report counted twice; no move is
\* lost from it (cursor_predict.rs on_server; session.rs reads mouse_seq
\* before it samples the pointer).
OverlayIsAhead ==
    streaming /\ drawn.anchored /\ ~drawn.guessed /\ ~disturbed =>
        LET truth == pointer + Distance(MovesIn(raw)) + Distance(MovesIn(wire))
                             + Distance(MovesIn(injq))
        IN drawn.x - truth \in drawn.twice

\* Whatever modifier events were lost, dropped or left over by an earlier
\* stream, a letter is pressed with exactly the modifiers the client asserted
\* for it, unless a SendInput went nowhere (keymap.rs Modifiers::resolve).
ChordLandsWhole == refused \/ chord.met = chord.meant

Quiet == raw = <<>> /\ wire = <<>> /\ injq = <<>> /\ reports = <<>> /\ mailbox = <<>>

\* cursor_predict.rs:16-18 says that once the mouse has stopped, the resting
\* position is always exactly the server's.
RestIsTheServers ==
    streaming /\ drawn.anchored /\ ~drawn.moving /\ Quiet /\ throttle.last = pointer
        => drawn.x = pointer

\* inject.rs:299-300 says that a disconnect mid-chord does not leave Ctrl down.
NothingLeftHeld == ~streaming /\ Quiet /\ ~refused => held \cap Modifier = {}
=============================================================================
