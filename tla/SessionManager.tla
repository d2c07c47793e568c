---------------------------- MODULE SessionManager ----------------------------
(***************************************************************************)
(* What a stream does to the desktop and puts back (server/session.rs,     *)
(* server/display.rs): HDR on every output, the display mode, the virtual  *)
(* display, the pointer's acceleration and speed, each undone by a guard   *)
(* when the stream is dropped; and the view of the stream the web UI's     *)
(* threads have, with the disconnect they may ask for (Sessions).          *)
(*                                                                         *)
(* The endpoint's thread starts and stops streams; the web threads, the    *)
(* pipeline's own threads and whoever sits at the machine go on meanwhile. *)
(***************************************************************************)
EXTENDS Naturals, Sequences

CONSTANTS
    Web,          \* threads of the web UI
    MaxSessions,  \* bound: streams
    MaxMeddling,  \* bound: settings changed by others
    MaxRestarts   \* bound: restarts of the server

VARIABLES
    desktop,     \* for each setting, whether it is as a stream wants it
    active,      \* SessionManager::active
    stopping,    \* the stream stop_active is tearing down, and how far it is
    summary,     \* Sessions::active, the id
    disconnect,  \* Sessions::disconnect
    nextId,      \* next_session_id
    page,        \* the stream each web thread has been asked to disconnect
    accepted,    \* history: the disconnects answered with true
    found,       \* history: the settings as others left them
    lost,        \* history: settings nobody can be expected to put back
    meddling, restarts   \* counts, for the bounds

webVars == <<summary, disconnect, page, accepted>>
vars == <<desktop, found, lost, active, stopping, webVars, nextId, meddling, restarts>>

NoId == 0
Nothing == [id |-> NoId]

\* HDR of the machine's output and of the virtual display's, the mode, the
\* virtual display, acceleration and speed of the pointer.
Setting == {"hdr", "virtualHdr", "mode", "vdd", "accel", "speed"}

Init ==
    /\ desktop = [s \in Setting |-> FALSE]
    /\ found = desktop /\ lost = {}
    /\ active = Nothing /\ stopping = Nothing
    /\ summary = NoId /\ disconnect = NoId /\ nextId = 1
    /\ page = [w \in Web |-> NoId] /\ accepted = {}
    /\ meddling = 0 /\ restarts = 0

-----------------------------------------------------------------------------
(* The guards.  One holds what some settings were.                         *)

Snapshot(d, ss) == [s \in ss |-> d[s]]
Changed(d, ss) == [s \in Setting |-> s \in ss \/ d[s]]

\* An output that is not there cannot be set.
PutBack(d, guard) ==
    [s \in Setting |-> IF s \in DOMAIN guard /\ (s = "virtualHdr" => d["vdd"])
                         THEN guard[s] ELSE d[s]]

\* Mutant: the virtual display goes before what was set on it is put back.
VddFirst == <<"vdd", "display", "epp">>

\* The fields of Active in their order, in which they are dropped, and the
\* locals of session_start, which are dropped in the reverse of theirs.
FieldOrder == <<"display", "vdd", "epp">>
LocalOrder == <<"epp", "display", "vdd">>

\* Drop for DisplayGuard, VirtualDisplay or EppGuard, whichever the k-th is.
Dropped(d, guards, order, k) == PutBack(d, guards[order[k]])

-----------------------------------------------------------------------------
(* The endpoint's thread.                                                  *)

\* The outputs whose HDR a start turns on, if it can: the virtual display's
\* may be among them once it is enabled.
Dark(ask) == {s \in {"hdr", "virtualHdr"} :
                /\ ask.hdr /\ ~desktop[s]
                /\ s = "virtualHdr" => ask.virtual \/ desktop["vdd"]}

\* DisplayGuard::apply, VirtualDisplay::enable and EppGuard::disable.  done is
\* what took effect of HDR and the mode, and modeRead whether the mode could be
\* read before: if not, nothing of it is kept.
SetUp(ask, done, modeRead) ==
    LET withVdd == IF ask.virtual THEN Changed(desktop, {"vdd"}) ELSE desktop
        pointer == IF ask.epp THEN {s \in {"accel", "speed"} : ~desktop[s]} ELSE {}
        kept == IF modeRead THEN done ELSE done \ {"mode"}
    IN [desktop |-> Changed(withVdd, done \cup pointer),
        guards |-> [display |-> Snapshot(withVdd, kept),
                    vdd |-> IF ask.virtual THEN [s \in {"vdd"} |-> FALSE] ELSE <<>>,
                    epp |-> Snapshot(withVdd, pointer)]]

\* session_start for a Hello, with no stream up: the guards are made before the
\* socket, the pipeline and the nonce, any of which may fail.
SessionStart ==
    /\ active = Nothing /\ stopping = Nothing /\ nextId <= MaxSessions
    /\ \E ask \in [hdr : BOOLEAN, virtual : BOOLEAN, match : BOOLEAN, epp : BOOLEAN] :
       \E done \in SUBSET (Dark(ask) \cup {"mode"}) :
       \E modeRead, fails \in BOOLEAN :
         LET up == SetUp(ask, done, modeRead)
             Undone(d, k) == Dropped(d, up.guards, LocalOrder, k)
         IN /\ "mode" \in done => ask.match /\ ~ask.virtual
            /\ ~modeRead => "mode" \in done
            /\ lost' = IF modeRead THEN lost ELSE lost \cup {"mode"}
            /\ nextId' = nextId + 1
            /\ IF fails
                 THEN /\ desktop' = Undone(Undone(Undone(up.desktop, 1), 2), 3)
                      /\ UNCHANGED <<active, summary>>
                 ELSE /\ desktop' = up.desktop
                      /\ active' = [id |-> nextId, guards |-> up.guards, finished |-> FALSE]
                      /\ summary' = nextId
    /\ UNCHANGED <<found, stopping, disconnect, page, accepted, meddling, restarts>>

\* stop_active takes the stream ...
Take == /\ stopping' = [id |-> active.id, guards |-> active.guards, dropped |-> 0]
        /\ active' = Nothing

\* session_stop, for a Bye, a restart, idleness or PeerGone.
SessionStop ==
    /\ active # Nothing
    /\ Take
    /\ UNCHANGED <<desktop, found, lost, webVars, nextId, meddling, restarts>>

\* take_disconnect and is_finished.
DisconnectIsFor(id) == disconnect # NoId /\ disconnect = id

\* Mutant: the request is taken, and only a dead pipeline looked at.
EndsDead == active # Nothing /\ active.finished

EndsItself == active # Nothing /\ (DisconnectIsFor(active.id) \/ active.finished)

\* The head of drain_outbound: the request is taken, whoever it is for.
Drain ==
    /\ stopping = Nothing
    /\ disconnect # NoId \/ EndsItself
    /\ disconnect' = NoId
    /\ IF EndsItself THEN Take ELSE UNCHANGED <<active, stopping>>
    /\ UNCHANGED <<desktop, found, lost, summary, page, accepted, nextId, meddling, restarts>>

\* ... stops its pipelines, forgets its summary and drops it, guard by guard.
StopStep ==
    /\ stopping # Nothing
    /\ summary' = NoId
    /\ IF stopping.dropped = Len(FieldOrder)
         THEN stopping' = Nothing /\ UNCHANGED desktop
         ELSE /\ stopping' = [stopping EXCEPT !.dropped = @ + 1]
              /\ desktop' = Dropped(desktop, stopping.guards, FieldOrder, stopping.dropped + 1)
    /\ UNCHANGED <<found, lost, active, disconnect, page, accepted, nextId, meddling, restarts>>

\* A fatal error of capture or encoder, or a panic in the pipeline.
PipelineDies ==
    /\ active # Nothing /\ ~active.finished
    /\ active' = [active EXCEPT !.finished = TRUE]
    /\ UNCHANGED <<desktop, found, lost, stopping, webVars, nextId, meddling, restarts>>

-----------------------------------------------------------------------------
(* The web UI, the machine and the process.                                *)

\* GET /api/sessions, on some page.
List(w) ==
    /\ summary # NoId /\ page[w] # summary
    /\ page' = [page EXCEPT ![w] = summary]
    /\ UNCHANGED <<desktop, found, lost, active, stopping, summary, disconnect, accepted, nextId,
                   meddling, restarts>>

\* request_disconnect, whenever somebody presses the button on it.
RequestDisconnect(w) ==
    /\ page[w] # NoId
    /\ page' = [page EXCEPT ![w] = NoId]
    /\ IF summary = page[w]
         THEN disconnect' = page[w] /\ accepted' = accepted \cup {page[w]}
         ELSE UNCHANGED <<disconnect, accepted>>
    /\ UNCHANGED <<desktop, found, lost, active, stopping, summary, nextId, meddling, restarts>>

\* Somebody changes a setting.  What is changed while a stream is up is changed
\* again when it ends.
Meddle(s) ==
    /\ meddling < MaxMeddling
    /\ meddling' = meddling + 1
    /\ desktop' = [desktop EXCEPT ![s] = ~@]
    /\ IF active = Nothing /\ stopping = Nothing
         THEN found' = [found EXCEPT ![s] = desktop'[s]] /\ lost' = lost \ {s}
         ELSE /\ lost' = lost \cup {s} \cup (IF s = "vdd" THEN {"virtualHdr"} ELSE {})
              /\ UNCHANGED found
    /\ UNCHANGED <<active, stopping, webVars, nextId, restarts>>

\* What the guards of a stream hold.
Guarded(stream) ==
    IF stream = Nothing THEN {} ELSE UNION {DOMAIN stream.guards[g] : g \in DOMAIN stream.guards}

\* restart_self and a crash alike run no drop.
Restart ==
    /\ restarts < MaxRestarts
    /\ restarts' = restarts + 1
    /\ lost' = lost \cup Guarded(active) \cup Guarded(stopping)
    /\ active' = Nothing /\ stopping' = Nothing
    /\ summary' = NoId /\ disconnect' = NoId /\ nextId' = 1
    /\ accepted' = {}
    /\ UNCHANGED <<desktop, found, page, meddling>>

Next ==
    \/ SessionStart \/ SessionStop \/ Drain \/ StopStep \/ PipelineDies \/ Restart
    \/ \E w \in Web : List(w) \/ RequestDisconnect(w)
    \/ \E s \in Setting : Meddle(s)

Spec == Init /\ [][Next]_vars

\* The endpoint polls, and gets on with what it stops.
Fairness == WF_vars(Drain) /\ WF_vars(StopStep)

FairSpec == Spec /\ Fairness

-----------------------------------------------------------------------------
(* Properties.                                                             *)

\* A value a setting may be left with.
AsFound(s, value) == value = found[s] \/ (s = "vdd" /\ ~value)

\* Whatever way a stream ended, and if its start failed, every setting is as
\* others left it, the virtual display disabled in any case (display.rs: "puts
\* the desktop back exactly as found"): the guards hold enough, and are dropped
\* while what they set is still there.  Settings changed by hand meanwhile, a
\* mode that could not be read and a process that ended first are excepted.
DesktopAsFound ==
    active = Nothing /\ stopping = Nothing =>
        \A s \in Setting \ lost : AsFound(s, desktop[s])

(***************************************************************************)
(* What makes it inductive: while a stream is up or being taken down, the  *)
(* guards not yet dropped hold what was found, and what they do not hold   *)
(* is as it was found; and the virtual display is there for as long as one *)
(* of them is to put back what was set on it.                              *)
(***************************************************************************)
GuardOf(s) == CASE s \in {"hdr", "virtualHdr", "mode"} -> "display"
                [] s = "vdd" -> "vdd"
                [] OTHER -> "epp"

\* The place of a setting's guard in the order of the fields.
Turn(s) == CHOOSE k \in 1 .. Len(FieldOrder) : FieldOrder[k] = GuardOf(s)

WillBeFound(guards, dropped) ==
    \A s \in Setting \ lost :
        IF Turn(s) > dropped /\ s \in DOMAIN guards[GuardOf(s)]
          THEN AsFound(s, guards[GuardOf(s)][s]) /\ (s = "virtualHdr" => desktop["vdd"])
          ELSE AsFound(s, desktop[s])

Guards == [display : UNION {[ss -> BOOLEAN] : ss \in SUBSET {"hdr", "virtualHdr", "mode"}},
           vdd : UNION {[ss -> BOOLEAN] : ss \in SUBSET {"vdd"}},
           epp : UNION {[ss -> BOOLEAN] : ss \in SUBSET {"accel", "speed"}}]

DesktopInv ==
    /\ desktop \in [Setting -> BOOLEAN] /\ found \in [Setting -> BOOLEAN]
    /\ nextId \in Nat \ {0}
    /\ active \in {Nothing} \cup [id : Nat \ {0}, guards : Guards, finished : BOOLEAN]
    /\ stopping \in {Nothing} \cup [id : Nat \ {0}, guards : Guards, dropped : 0 .. 3]
    /\ active = Nothing \/ stopping = Nothing
    /\ active # Nothing => WillBeFound(active.guards, 0)
    /\ stopping # Nothing => WillBeFound(stopping.guards, stopping.dropped)
    /\ DesktopAsFound

\* A disconnect the web UI was told had been accepted ends that stream, though
\* it may cross its end and the start of another (session.rs Sessions).
DisconnectsHappen ==
    \A id \in 1 .. MaxSessions : id \in accepted ~> active.id # id \/ id \notin accepted
===============================================================================
