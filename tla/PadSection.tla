----------------------------- MODULE PadSection -----------------------------
(***************************************************************************)
(* A gamepad frame on its way to the emulated pad's driver: the input      *)
(* section both processes map, written under a sequence lock               *)
(* (input/pad/shmem.rs, input/inject.rs submit_gamepad).  The injector can *)
(* be killed in the middle of a write; the driver keeps the section, and   *)
(* the next injector opens it as it was left.                              *)
(*                                                                         *)
(* A report is the number of the frame it was made of, 0 for an area of    *)
(* size 0.  The driver is not part of the sources: it reads as a reader of *)
(* a sequence lock does, and rereads what was written meanwhile.           *)
(***************************************************************************)
EXTENDS Naturals

CONSTANTS
    MaxFrames,  \* bound: frames the client sends
    MaxRestarts \* bound: times the injector is killed

SectionBounds == MaxFrames \in Nat \ {0} /\ MaxRestarts \in Nat

VARIABLES
    family,   \* how the plugged pad is fed, "none" when there is none
    frame,    \* frames sent so far
    restarts, \* times the injector was killed
    section,  \* the sequence counter and the three areas
    writer,   \* the injector in submit: what is next, and where it started
    bell,     \* the doorbell: an event the driver's worker waits on
    reader,   \* the driver's worker: what is next, and what it has read
    shown,    \* the areas of the last frame the game was shown
    settled   \* history: the areas as each finished write left them

vars == <<family, frame, restarts, section, writer, bell, reader, shown, settled>>

Area == {"main", "gip", "ext"}
Empty == [a \in Area |-> 0]
Fresh == [seq |-> 0, areas |-> Empty]
Idle == [at |-> "idle", start |-> 0]
Waiting == [at |-> "waiting", seq |-> 0, areas |-> Empty]

Init ==
    /\ family = "none" /\ frame = 0 /\ restarts = 0
    /\ section = Fresh
    /\ writer = Idle
    /\ bell = FALSE
    /\ reader = Waiting
    /\ shown = Empty
    /\ settled = {Empty}

\* connect_pad's sections.  One that some process still maps is opened with what
\* it holds; otherwise it is new, and full of zeroes.
CreateSections ==
    /\ family = "none"
    /\ family' \in {"descriptor", "extended", "xbox"}
    /\ \/ UNCHANGED <<section, bell, reader, settled>>
       \/ /\ section' = Fresh /\ bell' = FALSE
          /\ reader' = Waiting /\ settled' = settled \cup {Empty}
    /\ UNCHANGED <<frame, restarts, writer, shown>>

Unplug ==
    /\ family # "none" /\ writer.at = "idle"
    /\ family' = "none"
    /\ UNCHANGED <<frame, restarts, section, writer, bell, reader, shown, settled>>

\* A counter computed from what was read, the bug of the first version: the
\* writer of an odd counter works under an even one.
seqlock_startAsRead(base) == base

\* A write in progress is odd: the next one starts from the even value above it.
seqlock_start(base) == IF base % 2 = 0 THEN base ELSE base + 1

\* submit begins: the counter turns odd.
Begin ==
    /\ family # "none" /\ writer.at = "idle" /\ frame < MaxFrames
    /\ frame' = frame + 1
    /\ LET start == seqlock_start(section.seq) IN
       /\ writer' = [at |-> "main", start |-> start]
       /\ section' = [section EXCEPT !.seq = start + 1]
    /\ UNCHANGED <<family, restarts, bell, reader, shown, settled>>

\* The armed vendor report takes the place of the main one; only an Xbox pad has
\* the XUSB buffer, and another pad leaves what is there.
Content(area) ==
    CASE area = "main" -> IF family = "extended" THEN 0 ELSE frame
      [] area = "gip"  -> IF family = "xbox" THEN frame ELSE section.areas["gip"]
      [] area = "ext"  -> IF family = "extended" THEN frame ELSE 0

After == [main |-> "gip", gip |-> "ext", ext |-> "settle"]

WriteArea ==
    /\ writer.at \in Area
    /\ section' = [section EXCEPT !.areas[writer.at] = Content(writer.at)]
    /\ writer' = [writer EXCEPT !.at = After[writer.at]]
    /\ UNCHANGED <<family, frame, restarts, bell, reader, shown, settled>>

\* submit ends: the counter turns even, and the driver's worker is woken.
Settle ==
    /\ writer.at = "settle"
    /\ section' = [section EXCEPT !.seq = writer.start + 2]
    /\ settled' = settled \cup {section.areas}
    /\ bell' = TRUE
    /\ writer' = Idle
    /\ UNCHANGED <<family, frame, restarts, reader, shown>>

\* The injector is killed, in the middle of a write or not.
Killed ==
    /\ family # "none" /\ restarts < MaxRestarts
    /\ restarts' = restarts + 1
    /\ family' = "none"
    /\ writer' = Idle
    /\ UNCHANGED <<frame, section, bell, reader, shown, settled>>

(* The driver. *)

\* The worker is woken, or looks again of its own accord; it waits for an even
\* counter.
Look ==
    /\ reader.at = "waiting"
    /\ section.seq % 2 = 0
    /\ reader' = [at |-> "main", seq |-> section.seq, areas |-> Empty]
    /\ bell' = FALSE
    /\ UNCHANGED <<family, frame, restarts, section, writer, shown, settled>>

ReadArea ==
    /\ reader.at \in Area
    /\ reader' = [reader EXCEPT !.areas[reader.at] = section.areas[reader.at],
                                !.at = After[reader.at]]
    /\ UNCHANGED <<family, frame, restarts, section, writer, bell, shown, settled>>

\* The counter has not moved: the frame is shown; otherwise it is read again.
Accept ==
    /\ reader.at = "settle"
    /\ shown' = IF section.seq = reader.seq THEN reader.areas ELSE shown
    /\ reader' = Waiting
    /\ UNCHANGED <<family, frame, restarts, section, writer, bell, settled>>

Next ==
    \/ CreateSections \/ Unplug \/ Killed
    \/ Begin \/ WriteArea \/ Settle
    \/ Look \/ ReadArea \/ Accept

Spec == Init /\ [][Next]_vars

(***************************************************************************)
(* What the game sees is a state some finished submit left, never a mix of *)
(* two frames: whatever the driver read while a frame was written, and     *)
(* after an injector died in a write and left the counter odd (shmem.rs,   *)
(* "a write in progress (odd) is never rewound").                          *)
(***************************************************************************)
NeverTorn == shown \in settled

(***************************************************************************)
(* The inductive invariant.  The counter is odd while a write is under way *)
(* or was left unfinished, and where it is even the areas are settled.     *)
(* What the driver has read since it looked is what is there still, unless *)
(* the counter has moved on; it never comes back to where the driver began.*)
(***************************************************************************)
Report == [Area -> Nat]
ReadSoFar ==
    {a \in Area : \/ reader.at = "settle"
                  \/ reader.at = "gip" /\ a = "main"
                  \/ reader.at = "ext" /\ a # "ext"}

SectionInv ==
    /\ frame \in Nat
    /\ section \in [seq : Nat, areas : Report]
    /\ writer \in [at : Area \cup {"idle", "settle"}, start : Nat]
    /\ reader \in [at : Area \cup {"waiting", "settle"}, seq : Nat, areas : Report]
    /\ section.seq % 2 = 0 => section.areas \in settled
    /\ family = "none" => writer.at = "idle"
    /\ writer.at # "idle" => section.seq = writer.start + 1 /\ writer.start % 2 = 0
    /\ reader.at # "waiting" => reader.seq % 2 = 0 /\ reader.seq <= section.seq
    /\ reader.at # "waiting" /\ section.seq = reader.seq =>
         \A a \in ReadSoFar : reader.areas[a] = section.areas[a]
    /\ NeverTorn
=============================================================================
