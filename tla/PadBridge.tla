----------------------------- MODULE PadBridge -----------------------------
(***************************************************************************)
(* Xbox pads on the client: the driver's bridge, swapped by USB attach and *)
(* detach (usb.rs), the bounded queue of pad events its read thread fills  *)
(* and the stream loop drains (vendor/shim/sb_gip_shim.cpp, client.rs),    *)
(* and the pads' headsets behind one cap (headset.rs, PadHeadsets of       *)
(* audio.rs, mic.rs).                                                      *)
(*                                                                         *)
(* A pad's state is whether anything on it is held.  What reaches the      *)
(* server is what was last sent for the pad.  The driver thread and the    *)
(* UI thread step between any two calls of the loop into the bridge.  The  *)
(* shim ignores the driver's notice that a headset was removed, so a pad's *)
(* headset goes only with the pad.                                         *)
(***************************************************************************)
EXTENDS Integers, Sequences, FiniteSets

CONSTANTS
    Pads,           \* 0..(MAX_PADS - 1)
    MaxHeadsets,    \* MAX_HEADSETS
    MaxQueued,      \* MAX_QUEUED
    MaxBridges,     \* bound: USB attaches
    MaxStreams,     \* bound: streams run while the activity lives
    MaxChanges      \* bound: what pads and headsets do

VARIABLES
    bridge,     \* the attached bridge's number, or None
    attached,   \* attaches so far
    held,       \* [Pads -> {Absent, Idle, Down}]: what each pad shows
    headset,    \* [Pads -> SUBSET {"speaker", "mic"}]
    on,         \* pads whose audio sub-device is enabled
    queue,      \* the shim's events: [pad, held]
    told,       \* [Pads -> BOOLEAN]: what the server was last sent
    latest,     \* history: the pad that reported or left last, if nothing
                \* came after; or NoPad
    gate,       \* HeadsetGate.enabled, as a set
    active,     \* HeadsetGate.active
    framers,    \* pads with a microphone encoder
    opened,     \* history: pads this stream enabled that still are
    call,       \* the play or capture under way: [what, of, pad], or NoCall
    streams,    \* streams begun
    changes

vars == <<bridge, attached, held, headset, on, queue, told, latest,
          gate, active, framers, opened, call, streams, changes>>
hardware == <<held, headset, on>>
client == <<gate, active, framers, opened, call>>

None == 0
NoPad == -1
Absent == "absent"
Idle == "idle"
Down == "down"
NoCall == [what |-> "none", of |-> None, pad |-> 0]
Sides == {"speaker", "mic"}
Plays == "play"
Captures == "capture"

BridgeBounds ==
    /\ IsFiniteSet(Pads) /\ Pads # {} /\ Pads = 0..(Cardinality(Pads) - 1)
    /\ MaxHeadsets \in 1..Cardinality(Pads)
    /\ {MaxQueued, MaxStreams} \subseteq Nat \ {0}
    /\ {MaxBridges, MaxChanges} \subseteq Nat

Init ==
    /\ bridge = None /\ attached = 0
    /\ held = [p \in Pads |-> Absent]
    /\ headset = [p \in Pads |-> {}]
    /\ on = {}
    /\ queue = <<>>
    /\ told = [p \in Pads |-> FALSE]
    /\ latest = NoPad
    /\ gate = {} /\ active = 0
    /\ framers = {}
    /\ opened = {}
    /\ call = NoCall
    /\ streams = 1
    /\ changes = 0

----------------------------------------------------------------------------
(* The UI thread                                                           *)

(* nativeUsbAttach: a bridge opened takes the place of the one before it.  *)
Attach ==
    /\ bridge = None
    /\ attached < MaxBridges
    /\ attached' = attached + 1
    /\ bridge' = attached + 1
    /\ UNCHANGED <<hardware, queue, told, latest, client, streams, changes>>

(* nativeUsbDetach: the bridge goes, and with it what it had queued, the   *)
(* pads it drove and their headsets' sub-devices.                          *)
Detach ==
    /\ bridge # None
    /\ bridge' = None
    /\ held' = [p \in Pads |-> Absent]
    /\ headset' = [p \in Pads |-> {}]
    /\ on' = {}
    /\ queue' = <<>>
    /\ latest' = NoPad
    /\ opened' = {}
    /\ UNCHANGED <<attached, told, gate, active, framers, call, streams, changes>>

----------------------------------------------------------------------------
(* The driver's read thread, through the shim                              *)

(* ShimSink::push: past the bound the oldest event goes.                   *)
DropNewest(q, e) == IF Len(q) < MaxQueued THEN Append(q, e) ELSE q
Pushed(q, e) ==
    LET all == Append(q, e)
    IN  IF Len(all) > MaxQueued THEN Tail(all) ELSE all

Changing == /\ bridge # None
            /\ changes < MaxChanges
            /\ changes' = changes + 1
            /\ UNCHANGED <<bridge, attached, told, gate, active, framers, call, streams>>

(* onControllerAdd: the lowest free pad; the event it queues is only       *)
(* logged by the loop, but takes its place in the queue.                   *)
Free == {p \in Pads : held[p] = Absent}
PadComes ==
    /\ Free # {}
    /\ LET p == CHOOSE q \in Free : \A r \in Free : q <= r
       IN  /\ held' = [held EXCEPT ![p] = Idle]
           /\ queue' = Pushed(queue, [pad |-> p, held |-> Absent])
    /\ latest' = NoPad
    /\ UNCHANGED <<headset, on, opened>>
    /\ Changing

PadGoes(p) ==
    /\ held[p] # Absent
    /\ held' = [held EXCEPT ![p] = Absent]
    /\ headset' = [headset EXCEPT ![p] = {}]
    /\ on' = on \ {p}
    /\ opened' = opened \ {p}
    /\ queue' = Pushed(queue, [pad |-> p, held |-> Idle])
    /\ latest' = p
    /\ Changing

(* onInput.                                                                *)
PadReports(p, h) ==
    /\ held[p] # Absent
    /\ held' = [held EXCEPT ![p] = h]
    /\ queue' = Pushed(queue, [pad |-> p, held |-> h])
    /\ latest' = p
    /\ UNCHANGED <<headset, on, opened>>
    /\ Changing

(* A headset appears once the security handshake is done.                  *)
HeadsetComes(p, sides) ==
    /\ held[p] # Absent
    /\ headset[p] = {}
    /\ headset' = [headset EXCEPT ![p] = sides]
    /\ UNCHANGED <<held, on, opened, queue, latest>>
    /\ Changing

----------------------------------------------------------------------------
(* The stream loop                                                         *)

(* One event drained: a report, or the neutral state of a pad that left,   *)
(* goes to the server.                                                     *)
Poll ==
    /\ call = NoCall /\ bridge # None
    /\ queue # <<>>
    /\ queue' = Tail(queue)
    /\ told' = IF Head(queue).held = Absent THEN told
               ELSE [told EXCEPT ![Head(queue).pad] = (Head(queue).held = Down)]
    /\ UNCHANGED <<bridge, attached, hardware, latest, client, streams, changes>>

(* PadHeadsets::play and ::capture take the bridge of the moment and go    *)
(* through the pads.                                                       *)
Begin(what) ==
    /\ call = NoCall
    /\ bridge # None
    /\ call' = [what |-> what, of |-> bridge, pad |-> 0]
    /\ UNCHANGED <<bridge, attached, hardware, queue, told, latest, gate, active,
                   framers, opened, streams, changes>>

Advance == call' = IF call.pad + 1 \in Pads THEN [call EXCEPT !.pad = @ + 1] ELSE NoCall

(* HeadsetGate::forget, and the encoder with it: only a pad that held a    *)
(* slot gives one back.                                                    *)
GivenBackAnyway(p) == active - 1
GivenBack(p) == IF p \in gate THEN active - 1 ELSE active
Forget(p) ==
    /\ gate' = gate \ {p}
    /\ active' = GivenBack(p)

(* HeadsetGate::reserve.                                                   *)
HasRoom == active < MaxHeadsets
Reserve(p) ==
    /\ gate' = gate \cup {p}
    /\ active' = active + 1

Wants(p) == IF call.what = Plays THEN "speaker" ELSE "mic"

(* One pad of the call, as the held bridge shows it: "gone", "without" the *)
(* side the call is about, or "with" it.  A bridge detached since is still *)
(* open, and may show and answer anything.                                 *)
Shows(p, what) ==
    \/ call.of # bridge
    \/ what = IF headset[p] = {} THEN "gone"
              ELSE IF Wants(p) \in headset[p] THEN "with" ELSE "without"

(* ensure_enabled: a pad already marked, one over the cap, one whose       *)
(* enable did not take (its slot is released at once) and one enabled.     *)
Step(what, takes) ==
    /\ call # NoCall
    /\ Advance
    /\ LET p == call.pad
           fresh == what = "with" /\ p \notin gate /\ HasRoom
           enabled == fresh /\ takes
       IN  /\ Shows(p, what)
           /\ IF what = "gone" THEN Forget(p)
              ELSE IF enabled THEN Reserve(p) ELSE UNCHANGED <<gate, active>>
           /\ IF enabled /\ call.of = bridge
              THEN on' = on \cup {p} /\ opened' = opened \cup {p}
              ELSE UNCHANGED <<on, opened>>
           /\ framers' = IF what = "gone" THEN framers \ {p}
                         ELSE IF /\ what = "with"
                                 /\ call.what = Captures
                                 /\ (p \in gate \/ enabled)
                         THEN framers \cup {p} ELSE framers
    /\ UNCHANGED <<bridge, attached, held, headset, queue, told, latest, streams, changes>>

(* A stream ends and another begins while the activity, and so the bridge, *)
(* lives on: its PadHeadsets starts empty.                                 *)
NewStream ==
    /\ call = NoCall
    /\ streams < MaxStreams
    /\ streams' = streams + 1
    /\ gate' = {} /\ active' = 0
    /\ framers' = {}
    /\ opened' = {}
    /\ UNCHANGED <<bridge, attached, hardware, queue, told, latest, call, changes>>

Next ==
    \/ Attach \/ Detach
    \/ PadComes
    \/ \E p \in Pads : PadGoes(p)
    \/ \E p \in Pads, h \in {Idle, Down} : PadReports(p, h)
    \/ \E p \in Pads, sides \in (SUBSET Sides) \ {{}} : HeadsetComes(p, sides)
    \/ Poll
    \/ \E what \in {Plays, Captures} : Begin(what)
    \/ \E what \in {"gone", "without", "with"}, takes \in BOOLEAN : Step(what, takes)
    \/ NewStream

Spec == Init /\ [][Next]_vars

----------------------------------------------------------------------------
(* "Both the playback fork and the mic capture must therefore consult one  *)
(* gate; two separate caps could enable four" (headset.rs:5-10), and "the  *)
(* cap is intact - no phantom free slot" (its test): through failed        *)
(* enables, pads that come and go between the calls and a bridge swapped   *)
(* under them, no stream has enabled more sub-devices that are still on    *)
(* than the cap.  The activity's first stream has enabled all that are on, *)
(* so while it lasts the cap holds of the adapter too; what becomes of it  *)
(* after that is CapOutlivesTheStream.                                     *)
HeadsetsAreCapped ==
    /\ Cardinality(opened) <= MaxHeadsets
    /\ streams = 1 => Cardinality(on) <= MaxHeadsets

(* The queue drops the oldest of what a slow loop did not drain, as "a     *)
(* superseded one is worthless" (sb_gip_shim.cpp:35-36): it never drops    *)
(* the last word.  Once it is drained, the pad that reported or left last  *)
(* is told as it is, one that left as holding nothing.                     *)
LastWordIsTold ==
    (bridge # None /\ queue = <<>> /\ latest # NoPad) =>
        told[latest] = (held[latest] = Down)

(* The inductive invariant.  The gate counts the pads it holds, and holds  *)
(* all whose headset is on by this stream; those are of the attached       *)
(* bridge, so a call under way on one detached since has nothing open to   *)
(* forget, and finds a headset wherever one is open.  Until a stream has   *)
(* been and gone, nothing else is on.  The queue's newest event is what    *)
(* the pad that reported or left last shows.                               *)
Event == [pad : Pads, held : {Absent, Idle, Down}]

GateCountsTheOpen ==
    /\ gate \subseteq Pads /\ opened \subseteq gate
    /\ active = Cardinality(gate) /\ active <= MaxHeadsets
    /\ \A p \in opened : headset[p] # {}
    /\ bridge = None => opened = {}
    /\ call # NoCall /\ call.of # bridge => opened = {}

FirstEnabledAll == streams \in Nat \ {0} /\ (streams = 1 => on = opened)

NewestIsQueued ==
    /\ bridge = None => latest = NoPad
    /\ queue # <<>> /\ latest # NoPad =>
         LET e == queue[Len(queue)]
         IN  e.pad = latest /\ e.held # Absent /\ (e.held = Down <=> held[latest] = Down)

BridgeInv ==
    /\ attached \in Nat /\ bridge \in 0..attached
    /\ call = NoCall \/ call \in [what : {Plays, Captures}, of : 1..attached, pad : Pads]
    /\ held \in [Pads -> {Absent, Idle, Down}] /\ headset \in [Pads -> SUBSET Sides]
    /\ told \in [Pads -> BOOLEAN] /\ latest \in Pads \cup {NoPad}
    /\ queue \in Seq(Event)
    /\ GateCountsTheOpen
    /\ FirstEnabledAll
    /\ NewestIsQueued
    /\ LastWordIsTold

(* "Concurrent enabled headsets, capped by the shared adapter's iso        *)
(* bandwidth" (headset.rs:18): but the gate is the stream's and the        *)
(* sub-devices are the bridge's.  Nothing disables them when a stream      *)
(* ends, so a stream begun later counts from none, and enables more beside *)
(* them.                                                                   *)
CapOutlivesTheStream == Cardinality(on) <= MaxHeadsets

(* "A neutral state so the server releases held buttons/sticks"            *)
(* (client.rs:584): with the adapter gone no pad of its is held down.      *)
UnpluggedIsReleased == bridge = None => \A p \in Pads : ~told[p]
=============================================================================
