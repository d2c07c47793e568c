---------------------------- MODULE SubframeDrain ----------------------------
(***************************************************************************)
(* One picture through NVENC: Encoder::encode_slices and drain_slices of   *)
(* sunburst-encode/src/encoder.rs, and the walk over AV1's OBUs that ends  *)
(* the drain (sunburst-core/src/codec/av1.rs).                             *)
(*                                                                         *)
(* The driver is NVIDIA's: it writes the picture's units in order while    *)
(* they are read, and under AV1 subframe write its size goes on growing    *)
(* over bytes of tiles it has already written.  A unit is a record; bytes  *)
(* are counted, not kept.                                                  *)
(***************************************************************************)
EXTENDS Naturals, Sequences, FiniteSets

CONSTANTS
    Tiles,       \* tiles of a picture, as the decoder derives them
    Assumed,     \* the counts of tiles the drain may have learned
    Stale,       \* bound: tile groups the driver reports again
    IdleLimit,   \* 8: polls with nothing new that end a drain
    Rounds,      \* 1024: polls that end any drain
    Surfaces,    \* input surfaces
    Malformed,   \* BOOLEAN: a tile group may be too short for its fields
    MaxPictures, \* bound: pictures encoded
    MaxFailures  \* bound: driver calls that fail

DrainBounds ==
    /\ {Tiles, Stale, IdleLimit, Rounds, MaxPictures, MaxFailures} \subseteq Nat
    /\ Tiles > 0 /\ Assumed \subseteq Nat \ {0}

VARIABLES
    subframe,   \* "av1": the drain walks OBUs; "slices": it takes what there is
    assumed,    \* num_tiles of av1_tiles
    at,         \* "idle", "draining", or "dead" after an error, which is fatal
    surface,    \* the surface being encoded
    registered, \* the surface registered with the driver, "none" for none
    mapped,     \* the surface mapped, "none" for none
    picture,    \* the units of the picture, the re-reported ones after them
    real,       \* how many of them are the picture's
    size,       \* bitstream_size_in_bytes, as the driver grows it
    consumed,   \* bytes handed to the packetizer
    idle, groups, rounds,  \* locals of drain_slices
    ended,      \* how the last drain ended
    pictures, failures

vars == <<subframe, assumed, at, surface, registered, mapped, picture, real, size,
          consumed, idle, groups, rounds, ended, pictures, failures>>

NoSurface == "none"

-----------------------------------------------------------------------------
(* AV1's units.                                                            *)

\* An OBU: its type, whether it has a size field, and for a tile group the
\* index of its last tile, which need not be written when it holds all.
Obu(type, tg, has) == [type |-> type, tg |-> tg, has |-> has]
Header == Obu("header", 0, TRUE)
Frame == Obu("frame", Tiles - 1, TRUE)
Group(tg) == Obu("tiles", tg, TRUE)
ShortGroup == Obu("tiles", 0, FALSE)

\* Every unit is as long; only where units end matters.
UnitBytes == 2
EndOf(i) == i * UnitBytes

\* A picture is one self-contained frame, or a header and its tile groups:
\* all tiles in one group, or a group for each.
Groups == {<<Group(Tiles - 1)>>, [t \in 1 .. Tiles |-> Group(t - 1)]}
Shorts == IF Malformed THEN {<<ShortGroup>> \o g : g \in Groups} ELSE {}
Pictures == {<<Frame>>} \cup {<<Header>> \o g : g \in Groups \cup Shorts}

\* What the driver reports past the end: the last group over again.
Again(p) == [i \in 1 .. Stale |-> IF p[Len(p)].type = "frame" THEN Group(0) ELSE p[Len(p)]]

\* tile_group_tg_end: with one tile there are no fields; a group too short for
\* them ends at num_tiles.
TgEnd(u) == IF assumed <= 1 THEN 0 ELSE IF ~u.has THEN assumed ELSE u.tg

\* scan_frame's test of the unit that ends the picture.
EndsLate(u) == u.type = "frame" \/ (u.type = "tiles" /\ TgEnd(u) >= assumed)
EndsPicture(u) == u.type = "frame" \/ (u.type = "tiles" /\ TgEnd(u) + 1 >= assumed)

\* The units that are whole between from and size, up to the one that ends the
\* picture.
WholeUnits == {i \in DOMAIN picture : EndOf(i) > consumed /\ EndOf(i) <= size}
Scanned == {i \in WholeUnits : \A j \in WholeUnits : j < i => ~EndsPicture(picture[j])}
EmitTo == IF Scanned = {} THEN consumed
          ELSE CHOOSE e \in {EndOf(i) : i \in Scanned} : \A i \in Scanned : EndOf(i) <= e
Complete == \E i \in Scanned : EndsPicture(picture[i])
GroupsSeen == Cardinality({i \in Scanned : picture[i].type = "tiles"})

-----------------------------------------------------------------------------

Init ==
    /\ subframe \in {"av1", "slices"} /\ assumed \in Assumed
    /\ at = "idle"
    /\ surface = NoSurface /\ registered = NoSurface /\ mapped = NoSurface
    /\ picture = <<>> /\ real = 0 /\ size = 0 /\ consumed = 0
    /\ idle = 0 /\ groups = 0 /\ rounds = 0
    /\ ended = "none" /\ pictures = 0 /\ failures = 0

\* A call of the driver fails: encode_slices returns the error, the loop ends,
\* and the encoder is dropped with what it holds.
Fails ==
    /\ failures < MaxFailures /\ failures' = failures + 1
    /\ at' = "dead" /\ registered' = NoSurface /\ mapped' = NoSurface
    /\ UNCHANGED <<subframe, assumed, surface, picture, real, size, consumed, idle,
                   groups, rounds, ended, pictures>>

\* ensure_registered: the converter's surface is registered once, and again
\* when it is another; the stale registration goes first.
Registered(input) == input

\* encode_slices, up to the drain: register, map, submit.
Encode(input, p) ==
    /\ at = "idle" /\ pictures < MaxPictures
    /\ surface' = input
    /\ registered' = IF registered = input THEN registered ELSE Registered(input)
    /\ mapped' = registered'
    /\ picture' = IF subframe = "av1" THEN p \o Again(p) ELSE p
    /\ real' = Len(p)
    /\ at' = "draining"
    /\ size' = 0 /\ consumed' = 0 /\ idle' = 0 /\ groups' = 0 /\ rounds' = 0
    /\ pictures' = pictures + 1
    /\ UNCHANGED <<subframe, assumed, ended, failures>>

\* The driver writes on.
Grow ==
    /\ at = "draining" /\ size < EndOf(Len(picture))
    /\ size' = size + 1
    /\ UNCHANGED <<subframe, assumed, at, surface, registered, mapped, picture, real,
                   consumed, idle, groups, rounds, ended, pictures, failures>>

\* The drain is over: the input is unmapped, its registration kept.
Stop(why) ==
    /\ at' = "idle" /\ ended' = why /\ mapped' = NoSurface

GoOn == UNCHANGED <<at, ended, mapped>>

\* The drain's last lines: enough polls with nothing new, or enough polls.
After(newIdle, done) ==
    IF done THEN Stop("complete")
    ELSE IF newIdle >= IdleLimit /\ consumed' > 0 THEN Stop("idle")
    ELSE IF rounds' >= Rounds THEN Stop("rounds")
    ELSE GoOn

\* A lock: the first waits for output, the others only look.  AV1 takes whole
\* units, up to the last of the picture, and defends against a grid it has
\* wrong; the others take every byte there is.
Lock ==
    /\ at = "draining" /\ (consumed = 0 => size > 0)
    /\ rounds' = rounds + 1
    /\ IF subframe = "av1"
         THEN /\ consumed' = EmitTo
              /\ groups' = groups + GroupsSeen
              /\ idle' = IF EmitTo > consumed THEN 0 ELSE idle + 1
              /\ After(idle', Complete \/ groups' > 4 * assumed)
         ELSE /\ consumed' = size
              /\ groups' = groups
              /\ idle' = IF size > consumed THEN 0 ELSE idle + 1
              /\ After(idle', FALSE)
    /\ UNCHANGED <<subframe, assumed, surface, registered, picture, real, size,
                   pictures, failures>>

\* A lock that finds the driver busy.
Busy ==
    /\ at = "draining" /\ consumed > 0
    /\ rounds' = rounds + 1 /\ idle' = idle + 1
    /\ UNCHANGED <<consumed, groups>>
    /\ After(idle', FALSE)
    /\ UNCHANGED <<subframe, assumed, surface, registered, picture, real, size,
                   pictures, failures>>

Next ==
    \/ \E s \in Surfaces, p \in Pictures : Encode(s, p)
    \/ Grow \/ Lock \/ Busy
    \/ (at # "dead" /\ Fails)

Spec == Init /\ [][Next]_vars

-----------------------------------------------------------------------------

\* With the grid right, no byte the driver reports again is taken for the
\* picture's, what is sent ends where a unit ends, and a drain that saw the
\* last tile has sent the whole picture ("bytes the encoder re-reports after
\* the frame are never included").  With the grid wrong, the tail let in is
\* bounded.  Between pictures nothing stays mapped, and what is registered is
\* what was encoded.
GridIsRight == subframe = "av1" /\ ~Malformed /\ assumed = Tiles
PictureIsExact ==
    /\ GridIsRight =>
        /\ consumed <= EndOf(real) /\ consumed % UnitBytes = 0
        /\ at = "idle" /\ ended = "complete" => consumed = EndOf(real)
    /\ subframe = "av1" => groups <= 4 * assumed + Len(picture)
    /\ at = "draining" => mapped = surface /\ registered = surface
    /\ at = "idle" => mapped = NoSurface

\* A drain completes only on the group that has the last tile (av1.rs: "a
\* malformed group can never falsely complete a frame").
NeverFalselyComplete ==
    at = "idle" /\ ended = "complete" /\ assumed = Tiles => consumed >= EndOf(real)

\* The inductive invariant: PictureIsExact, and what is under way.  With the grid
\* right a drain stops at the only unit that ends the picture, the last of the real
\* ones, and counts no more groups than it has passed units.
EndIsAhead(c) ==
    /\ real \in 1 .. Len(picture) /\ c < real
    /\ \A i \in 1 .. real : EndsPicture(picture[i]) <=> i = real
DrainInv ==
    /\ subframe \in {"av1", "slices"} /\ assumed \in Assumed
    /\ at \in {"idle", "draining", "dead"}
    /\ size \in Nat /\ groups \in Nat /\ real \in Nat /\ Len(picture) \in Nat
    /\ GridIsRight =>
        /\ real <= Tiles + 1
        /\ \E c \in 0 .. real :
             consumed = EndOf(c) /\ groups <= c /\ (at = "draining" => EndIsAhead(c))
    /\ subframe = "av1" /\ at = "draining" => groups <= 4 * assumed
    /\ PictureIsExact
=============================================================================
