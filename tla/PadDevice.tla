------------------------------ MODULE PadDevice ------------------------------
(***************************************************************************)
(* The device node of an emulated pad: how the injector plugs a pad at one *)
(* index (input/inject.rs connect_pad, input/pad/registry.rs), creates its *)
(* node and the companion of the Xbox families, undoes a create that fails *)
(* and removes a pad (input/pad/device.rs), after staging the driver       *)
(* (input/pad/install.rs).                                                 *)
(*                                                                         *)
(* Windows is not part of the sources.  It keeps a root device until it is *)
(* removed, a software device while its handle is open, calls back when it *)
(* has created one, late if it must, and either refuses to create an       *)
(* instance that exists or opens it (the sources do not say which).        *)
(***************************************************************************)
EXTENDS Naturals, Sequences

CONSTANTS
    MaxPlugs,    \* bound: times a pad is plugged
    MaxFailures, \* bound: calls to Windows that fail
    MaxRestarts  \* bound: times the server is killed

DeviceBounds == MaxPlugs \in Nat \ {0} /\ {MaxFailures, MaxRestarts} \subseteq Nat

Kind == {"PlainHid", "Xinputhid", "XboxLegacy"}
PadType == {"Xbox360", "XboxSeriesXS", "DualShock4", "DualSense", "SwitchPro"}
Create == 1 .. MaxPlugs

VARIABLES
    staged,   \* the driver packages in the store
    slot,     \* the injector's pad, or NoPad
    making,   \* the create in progress, or NoMaking
    plugs,    \* creates begun
    failures, \* calls that failed
    restarts, \* times the server was killed
    nodes,    \* Windows: the device of each instance id, or NoNode
    swd,      \* Windows: the companions whose handle is open
    ctx,      \* the context each create handed to Windows
    kept      \* history: nodes a kill or a failed removal left with Windows

vars == <<staged, slot, making, plugs, failures, restarts, nodes, swd, ctx, kept>>

NoPad == [type |-> "none"]
NoMaking == [at |-> "none"]
NoNode == [at |-> "none"]

\* Nothing was handed to Windows; the callback has nothing to write to.
NoCtx == [box |-> "none", event |-> "none", callback |-> "none", type |-> "none"]

(* registry.rs and the profiles' flags: which way a family goes.           *)
profile_for(type) ==
    CASE type = "Xbox360" -> "XboxLegacy"
      [] type = "XboxSeriesXS" -> "Xinputhid"
      [] OTHER -> "PlainHid"

\* The node's instance id is its enumerator's and the index's: the same for
\* every pad of a plain HID family at this index.
instance_id(type) ==
    IF profile_for(type) = "PlainHid" THEN "HIDClass" ELSE type

InstanceIds == {instance_id(t) : t \in PadType}

\* What a family's node must carry when it is first registered.
Needed(type) ==
    {"hardware ids"} \cup (CASE profile_for(type) = "Xinputhid" -> {"upper filters"}
                             [] profile_for(type) = "XboxLegacy" -> {"compatible ids"}
                             [] OTHER -> {})

Init ==
    /\ staged \in SUBSET {"main", "xusb"}   \* ensure_installed's two outcomes
    /\ slot = NoPad /\ making = NoMaking
    /\ plugs = 0 /\ failures = 0 /\ restarts = 0
    /\ nodes = [i \in InstanceIds |-> NoNode]
    /\ swd = {}
    /\ ctx = [c \in Create |-> NoCtx]
    /\ kept = {}

\* A plausible slip: the family's identifiers follow the registration.
OrderRegisterFirst ==
    <<"info", "hardware ids", "register", "family ids", "index", "bind", "companion">>

\* The order of the create's calls.
Order ==
    <<"info", "hardware ids", "family ids", "register", "index", "bind", "companion">>

After(step) ==
    LET n == CHOOSE i \in DOMAIN Order : Order[i] = step IN Order[n + 1]

MainId == instance_id(making.type)

\* connect_pad, up to its first call.  The slot still holds the pad before this.
connect_pad ==
    /\ making = NoMaking /\ plugs < MaxPlugs
    /\ plugs' = plugs + 1
    /\ \E t \in PadType :
         making' = [at |-> "info", type |-> t, props |-> {}, opened |-> FALSE]
    /\ UNCHANGED <<staged, slot, failures, restarts, nodes, swd, ctx, kept>>

\* remove: the companion's handle is closed, and the node goes, if it can.
Removed(type, companion) ==
    /\ swd' = swd \ companion
    /\ \/ /\ nodes' = [nodes EXCEPT ![instance_id(type)] = NoNode]
          /\ failures' = failures
          /\ kept' = kept
       \/ /\ failures < MaxFailures /\ failures' = failures + 1
          /\ kept' = kept \cup {instance_id(type)}
          /\ UNCHANGED nodes

\* The pad takes the slot, with the node if there is one; the pad the slot held
\* is dropped, and with it its node.
Plugged(node, companion) ==
    /\ slot' = [type |-> making.type, node |-> node, companion |-> companion]
    /\ making' = NoMaking
    /\ IF slot # NoPad /\ slot.node THEN Removed(slot.type, slot.companion)
       ELSE UNCHANGED <<nodes, swd, failures, kept>>

\* A call of the create fails before the node is registered: the node's Drop
\* removes what is not there, and the pad is plugged without one.
FailsEarly ==
    /\ making.at \in {"info", "hardware ids", "family ids", "register"}
    /\ failures < MaxFailures
    /\ failures' = failures + 1
    /\ making' = [making EXCEPT !.at = IF @ = "info" THEN "refused" ELSE "undo"]
    /\ UNCHANGED <<staged, slot, plugs, restarts, nodes, swd, ctx, kept>>

\* An instance that exists is refused, or opened.
create_info ==
    /\ making.at = "info"
    /\ \/ /\ nodes[MainId] = NoNode
          /\ making' = [making EXCEPT !.at = After("info")]
       \/ /\ nodes[MainId] # NoNode
          /\ making' = [making EXCEPT !.at = "refused"]
       \/ /\ nodes[MainId] # NoNode
          /\ making' = [making EXCEPT !.at = After("info"), !.opened = TRUE]
    /\ UNCHANGED <<staged, slot, plugs, failures, restarts, nodes, swd, ctx, kept>>

set_property ==
    /\ making.at \in {"hardware ids", "family ids"}
    /\ making' = [making EXCEPT
         !.at = After(@),
         !.props = @ \cup (IF making.at = "hardware ids" THEN {"hardware ids"}
                           ELSE Needed(making.type) \ {"hardware ids"})]
    /\ UNCHANGED <<staged, slot, plugs, failures, restarts, nodes, swd, ctx, kept>>

\* DIF_REGISTERDEVICE: the node is there, with what was set so far.
register ==
    /\ making.at = "register"
    /\ making' = [making EXCEPT !.at = After(@)]
    /\ nodes' = [nodes EXCEPT ![MainId] =
         IF making.opened THEN nodes[MainId]
         ELSE [at |-> "registered", props |-> making.props, type |-> making.type,
               index |-> FALSE, driver |-> "none"]]
    /\ UNCHANGED <<staged, slot, plugs, failures, restarts, swd, ctx, kept>>

write_controller_index ==
    /\ making.at = "index"
    /\ making' = [making EXCEPT !.at = After(@)]
    /\ nodes' = [nodes EXCEPT ![MainId].index = TRUE]
    /\ UNCHANGED <<staged, slot, plugs, failures, restarts, swd, ctx, kept>>

\* The driver starts on the node, and reads the index then or not at all.
bind_driver ==
    /\ making.at = "bind"
    /\ "main" \in staged
    /\ making' = [making EXCEPT !.at = After(@)]
    /\ nodes' = [nodes EXCEPT ![MainId].driver =
         IF nodes[MainId].index THEN "serving" ELSE "astray"]
    /\ UNCHANGED <<staged, slot, plugs, failures, restarts, swd, ctx, kept>>

\* A call fails after the registration, for want of a driver or of its own.
FailsLate ==
    /\ making.at \in {"index", "bind", "companion"}
    /\ \/ making.at = "bind" /\ "main" \notin staged /\ failures' = failures
       \/ failures < MaxFailures /\ failures' = failures + 1
    /\ making' = [making EXCEPT !.at = "undo"]
    /\ UNCHANGED <<staged, slot, plugs, restarts, nodes, swd, ctx, kept>>

\* A plain HID pad has no companion: its node is done.
NoCompanion ==
    /\ making.at = "companion" /\ profile_for(making.type) = "PlainHid"
    /\ Plugged(TRUE, {})
    /\ UNCHANGED <<staged, plugs, restarts, ctx>>

\* companion: the event and the boxed context are made, and Windows has them.
SwDeviceCreate ==
    /\ making.at = "companion" /\ profile_for(making.type) # "PlainHid"
    /\ making' = [making EXCEPT !.at = "wait"]
    /\ ctx' = [ctx EXCEPT ![plugs] =
         [box |-> "live", event |-> "open", callback |-> "owed", type |-> making.type]]
    /\ swd' = swd \cup {plugs}
    /\ UNCHANGED <<staged, slot, plugs, failures, restarts, nodes, kept>>

\* The companion's driver binds before Windows calls back; the Xbox 360's comes
\* with the second package.
Binds(type) == profile_for(type) = "Xinputhid" \/ "xusb" \in staged

\* companion_callback: the result is written to the context, the event is set.
companion_callback ==
    \E c \in Create :
      /\ ctx[c].callback = "owed"
      /\ \/ /\ Binds(ctx[c].type)
            /\ ctx' = [ctx EXCEPT ![c].callback = "ok"]
            /\ UNCHANGED failures
         \/ /\ \/ failures < MaxFailures /\ failures' = failures + 1
               \/ ~ Binds(ctx[c].type) /\ failures' = failures
            /\ ctx' = [ctx EXCEPT ![c].callback = "err"]
      /\ UNCHANGED <<staged, slot, making, plugs, restarts, nodes, swd, kept>>

\* A plausible slip: the context is freed on every way out.
AbandonedFreed(c) == [c EXCEPT !.event = "closed", !.box = "reclaimed"]

\* The wait is over 15 s: the context is leaked, the handle and the event closed.
Abandoned(c) == [c EXCEPT !.event = "closed"]
Reclaimed(c) == [c EXCEPT !.event = "closed", !.box = "reclaimed"]

companion_times_out ==
    /\ making.at = "wait" /\ ctx[plugs].callback = "owed"
    /\ failures < MaxFailures /\ failures' = failures + 1
    /\ ctx' = [ctx EXCEPT ![plugs] = Abandoned(@)]
    /\ swd' = swd \ {plugs}
    /\ making' = [making EXCEPT !.at = "undo"]
    /\ UNCHANGED <<staged, slot, plugs, restarts, nodes, kept>>

\* Signalled: the context is this thread's again.
companion_signalled ==
    /\ making.at = "wait" /\ ctx[plugs].callback \in {"ok", "err"}
    /\ ctx' = [ctx EXCEPT ![plugs] = Reclaimed(@)]
    /\ IF ctx[plugs].callback = "ok"
       THEN Plugged(TRUE, {plugs})
       ELSE /\ swd' = swd \ {plugs}
            /\ making' = [making EXCEPT !.at = "undo"]
            /\ UNCHANGED <<slot, nodes, failures, kept>>
    /\ UNCHANGED <<staged, plugs, restarts>>

\* A plausible slip: the error is returned with the node forgotten.
UndoneNot == UNCHANGED <<nodes, swd, failures, kept>>

\* The node's Drop on the error's way out: DIF_REMOVE, of whatever is there.
Undone == Removed(making.type, {})

undo ==
    /\ making.at = "undo"
    /\ Undone
    /\ making' = [making EXCEPT !.at = "no node"]
    /\ UNCHANGED <<staged, slot, plugs, restarts, ctx>>

\* SetupDiCreateDeviceInfoW failed: no device is in this list, and the Drop's
\* DIF_REMOVE removes nothing.
refused ==
    /\ making.at = "refused"
    /\ making' = [making EXCEPT !.at = "no node"]
    /\ UNCHANGED <<staged, slot, plugs, failures, restarts, nodes, swd, ctx, kept>>

\* A pad whose node was not created is plugged all the same, unenumerated.
PluggedBare ==
    /\ making.at = "no node"
    /\ Plugged(FALSE, {})
    /\ UNCHANGED <<staged, plugs, restarts, ctx>>

\* PadDisconnected clears the slot: the node's Drop removes the pad.
pad_disconnected ==
    /\ making = NoMaking /\ slot # NoPad
    /\ slot' = NoPad
    /\ IF slot.node THEN Removed(slot.type, slot.companion)
       ELSE UNCHANGED <<nodes, swd, failures, kept>>
    /\ UNCHANGED <<staged, making, plugs, restarts, ctx>>

\* The server is killed: no Drop runs.  The handles close, and no callback is
\* owed to a process that is gone; the root nodes stay.
Killed ==
    /\ restarts < MaxRestarts /\ restarts' = restarts + 1
    /\ slot' = NoPad /\ making' = NoMaking
    /\ swd' = {}
    /\ ctx' = [c \in Create |-> NoCtx]
    /\ kept' = {i \in InstanceIds : nodes[i] # NoNode}
    /\ UNCHANGED <<staged, plugs, failures, nodes>>

Next ==
    \/ connect_pad \/ pad_disconnected \/ Killed
    \/ create_info \/ set_property \/ register \/ write_controller_index \/ bind_driver
    \/ NoCompanion \/ SwDeviceCreate \/ companion_callback
    \/ companion_times_out \/ companion_signalled
    \/ FailsEarly \/ FailsLate \/ undo \/ refused \/ PluggedBare

Spec == Init /\ [][Next]_vars

(***************************************************************************)
(* Windows never calls back into a context that was freed: it is freed     *)
(* only once the callback has run, and leaked when the wait gave up on it  *)
(* (device.rs:316-318).                                                    *)
(***************************************************************************)
LateCallbackIsHarmless ==
    \A c \in Create : ctx[c].callback = "owed" => ctx[c].box = "live"

(***************************************************************************)
(* Every device Windows has is the plugged pad's or the one being made,    *)
(* unless Windows refused to remove it or the server was killed: a create  *)
(* that fails at any call, a companion that never binds, a pad replaced in *)
(* its slot leave no controller behind (device.rs:275-276).                *)
(***************************************************************************)
NothingLeftBehind ==
    /\ \A i \in InstanceIds \ kept : nodes[i] # NoNode =>
         \/ slot # NoPad /\ slot.node /\ instance_id(slot.type) = i
         \/ making # NoMaking /\ MainId = i
    /\ swd \subseteq (IF slot = NoPad THEN {} ELSE slot.companion)
                     \cup (IF making.at = "wait" THEN {plugs} ELSE {})

(***************************************************************************)
(* A node is registered with everything its family's driver looks for only *)
(* then, and a driver never starts on a node that does not say which       *)
(* section is its own: neither could be put right later (device.rs:246-248)*)
(***************************************************************************)
BoundAsItsFamily ==
    \A i \in InstanceIds : nodes[i] # NoNode =>
      nodes[i].props = Needed(nodes[i].type) /\ nodes[i].driver # "astray"

(***************************************************************************)
(* Stated by inject.rs:308-309 ("when a driver is available - create the   *)
(* virtual device node so a game enumerates it"): a plugged pad has its    *)
(* device, when the driver is staged and no call fails of its own.         *)
(***************************************************************************)
PluggedIsEnumerated ==
    (slot # NoPad /\ staged = {"main", "xusb"}) =>
      nodes[instance_id(slot.type)] # NoNode

(***************************************************************************)
(* Stated by device.rs:346 ("`ctx.event` is a live manual-reset event"):   *)
(* the event the callback sets is open whenever it can still run.          *)
(***************************************************************************)
EventIsLive ==
    \A c \in Create : ctx[c].callback = "owed" => ctx[c].event = "open"

(***************************************************************************)
(* The inductive invariant.  What a create has set so far is what its      *)
(* step needs, and from the registration on its node is there; before it,  *)
(* and once nothing is left of it, a node of its instance is the one in    *)
(* the slot, which the new pad is about to replace.                        *)
(***************************************************************************)
Identifier == {"hardware ids", "upper filters", "compatible ids"}
Node == [at : {"registered"}, props : SUBSET Identifier, type : PadType,
         index : BOOLEAN, driver : {"none", "serving", "astray"}]
Making == [at : {"info", "hardware ids", "family ids", "register", "index", "bind",
                 "companion", "wait", "undo", "refused", "no node"},
           type : PadType, props : SUBSET Identifier, opened : BOOLEAN]
Pad == [type : PadType, node : BOOLEAN, companion : SUBSET Create]
Context == [box : {"none", "live", "reclaimed"}, event : {"none", "open", "closed"},
            callback : {"none", "owed", "ok", "err"}, type : PadType \cup {"none"}]

TypeOK ==
    /\ ctx \in [Create -> Context]
    /\ slot = NoPad \/ slot \in Pad
    /\ making = NoMaking \/ making \in Making
    /\ nodes \in [InstanceIds -> Node \cup {NoNode}]
    /\ plugs \in Nat /\ (making # NoMaking => plugs \in Create)

SetSoFar ==
    /\ making.at \in {"info", "hardware ids"} => making.props = {}
    /\ making.at = "info" => ~making.opened
    /\ making.at = "family ids" => making.props = {"hardware ids"}
    /\ making.at = "register" => making.props = Needed(making.type)

RegisteredSoFar ==
    /\ (/\ making.at \in {"hardware ids", "family ids", "register"} /\ making.opened
        \/ making.at \in {"index", "bind", "companion", "wait"}) => nodes[MainId] # NoNode
    /\ making.at = "bind" => nodes[MainId].index

OthersIsInTheSlot ==
    making.at \in {"info", "refused", "no node"} =>
        \/ nodes[MainId] = NoNode \/ MainId \in kept
        \/ slot # NoPad /\ slot.node /\ instance_id(slot.type) = MainId

DeviceInv ==
    /\ TypeOK
    /\ slot # NoPad /\ ~slot.node => slot.companion = {}
    /\ SetSoFar /\ RegisteredSoFar /\ OthersIsInTheSlot
    /\ LateCallbackIsHarmless /\ NothingLeftBehind /\ BoundAsItsFamily
=============================================================================
