------------------------------ MODULE AudioReorder ------------------------------
(***************************************************************************)
(* Audio packets, from the server's counter to the order the client plays  *)
(* them in (emit of server/audio_pipeline.rs, net/audio.rs, and            *)
(* AudioReorder of android/plc.rs).  A packet is one datagram, never sent  *)
(* again: it may be lost, late, or come twice.                             *)
(***************************************************************************)
EXTENDS Integers, Sequences, FiniteSets

CONSTANTS
    Ids,          \* values of the sequence number
    WINDOW,       \* packets one may come early
    MAX_CONCEALED,\* longest hole that is concealed
    RESYNC_AHEAD, \* how far ahead a new position is
    MaxSent,      \* bound: packets sent
    MaxCopies,    \* bound: packets that come twice
    MaxLag        \* bound: packets sent while one is on its way (and fewer than half
                  \* the ids are lost on end)

ReorderBounds ==
    /\ {Ids, WINDOW, MAX_CONCEALED, RESYNC_AHEAD, MaxSent, MaxCopies, MaxLag} \subseteq Nat
    /\ 2 * RESYNC_AHEAD < Ids /\ MaxLag \in 1 .. RESYNC_AHEAD
    /\ 0 < WINDOW /\ WINDOW < RESYNC_AHEAD

VARIABLES
    sent,    \* packets the server numbered, those it could not encode included
    flying,  \* packets on their way
    next,    \* the id to play next, or NoId
    held,    \* ids that wait
    place,   \* how many packets the position has gone by since the first
    first,   \* the packet the stream began with
    played,  \* what came out: a packet, Concealed or Skipped for each place
    arrived, \* packets that have come
    early,   \* packets turned away although they were in time
    copies

vars == <<sent, flying, next, held, place, first, played, arrived, early, copies>>

NoId == -1
Concealed == -1
Skipped == -2
Id(packet) == packet % Ids

Init ==
    /\ sent = 0 /\ flying = {}
    /\ next = NoId /\ held = {} /\ place = 0 /\ first = NoId
    /\ played = <<>> /\ arrived = {} /\ early = {} /\ copies = 0

\* emit: a frame that cannot be encoded or sent keeps its number.
Send ==
    /\ sent < MaxSent /\ sent' = sent + 1
    /\ flying' \in {flying, flying \cup {sent}}
    /\ \A p \in flying : sent - p < MaxLag
    /\ first # NoId => sent - (first + place) < Ids \div 2
    /\ UNCHANGED <<next, held, place, first, played, arrived, early, copies>>

Lose ==
    /\ \E p \in flying : flying' = flying \ {p}
    /\ UNCHANGED <<sent, next, held, place, first, played, arrived, early, copies>>

-----------------------------------------------------------------------------
(* push.  Packets are told by how far they are ahead of the next one.      *)

Ahead(id) == (id - next) % Ids
IsNewer(id) == Ahead(id) > 0 /\ Ahead(id) < Ids \div 2
HasPlayedUnwrapped(id) == id < next
HasPlayed(id) == id # next /\ ~IsNewer(id)

Least(places) == CHOOSE k \in places : \A j \in places : k <= j
Most(places) == CHOOSE k \in places : \A j \in places : j <= k

\* Where the position gets to when the packet ahead has come: holes WINDOW or
\* more behind it are given up on, each of them whole.
Given(present, ahead) ==
    IF ahead < WINDOW THEN 0
    ELSE IF ahead - WINDOW \in present THEN ahead - WINDOW + 1
    ELSE Least({k \in present : k >= ahead - WINDOW})
GivenSooner(present, ahead) ==
    IF ahead + 1 < WINDOW THEN 0
    ELSE IF ahead + 1 - WINDOW \in present THEN ahead + 2 - WINDOW
    ELSE Least({k \in present : k >= ahead + 1 - WINDOW})
Reached(present, ahead) == Given(present, ahead)

\* Then everything that follows on plays.
RunOn(present, from) == CHOOSE k \in from .. from + Ids :
                          k \notin present /\ \A j \in from .. k - 1 : j \in present

\* The hole a missing place is in, and what is done about it.
HoleLength(present, k) ==
    Cardinality({j \in 0 .. Most(present) : \A i \in (IF j < k THEN j ELSE k) .. (IF j < k THEN k ELSE j) :
                                              i \notin present})
Played(present, upTo) ==
    [k \in 1 .. upTo |->
        IF k - 1 \in present THEN first + place + k - 1
        ELSE IF HoleLength(present, k - 1) <= MAX_CONCEALED THEN Concealed ELSE Skipped]

Begin(p) ==
    /\ next = NoId
    /\ next' = Id(p + 1) /\ first' = p /\ place' = 1
    /\ played' = <<p>>
    /\ UNCHANGED <<held, early>>

\* Its slot has played, or it has.
Stale(p) ==
    /\ next # NoId /\ HasPlayed(Id(p))
    /\ early' = IF /\ p > first /\ p \notin arrived
                   /\ \A q \in arrived, h \in first .. p :
                        (\A k \in h .. p : played[k - first + 1] < 0) => q < h + WINDOW
                THEN early \cup {p} ELSE early
    /\ UNCHANGED <<next, held, place, first, played>>

\* A new position: what is held goes.
Resync(p) ==
    /\ next # NoId /\ ~HasPlayed(Id(p)) /\ Ahead(Id(p)) >= RESYNC_AHEAD
    /\ next' = Id(p + 1) /\ held' = {}
    /\ place' = place + Ahead(Id(p)) + 1
    /\ played' = played \o [k \in 1 .. Ahead(Id(p)) |-> Skipped] \o <<first + place + Ahead(Id(p))>>
    /\ UNCHANGED <<first, early>>

Order(p) ==
    /\ next # NoId /\ ~HasPlayed(Id(p)) /\ Ahead(Id(p)) < RESYNC_AHEAD
    /\ LET present == {Ahead(id) : id \in held \cup {Id(p)}}
           end == RunOn(present, Reached(present, Ahead(Id(p))))
       IN  /\ played' = played \o Played(present, end)
           /\ next' = (next + end) % Ids
           /\ place' = place + end
           /\ held' = {id \in held \cup {Id(p)} : Ahead(id) >= end}
    /\ UNCHANGED <<first, early>>

Receive ==
    /\ \E p \in flying :
        /\ Begin(p) \/ Stale(p) \/ Resync(p) \/ Order(p)
        /\ arrived' = arrived \cup {p}
        /\ \/ flying' = flying \ {p} /\ UNCHANGED copies
           \/ copies < MaxCopies /\ copies' = copies + 1 /\ UNCHANGED flying
    /\ UNCHANGED sent

Next == Send \/ Lose \/ Receive

Spec == Init /\ [][Next]_vars

-----------------------------------------------------------------------------

\* Every place of the stream comes out once and in order, as the packet the
\* server numbered so or as the want of it; what came is played, and nobody is
\* turned away before a packet WINDOW past its hole has come (plc.rs: "most gaps
\* are not losses").  What is held is short of WINDOW ahead, so no two of it want
\* the same of the WINDOW slots the code holds it in.
PlayedInItsPlace ==
    /\ \A k \in DOMAIN played : played[k] >= 0 => played[k] = first + k - 1 /\ played[k] \in arrived
    /\ Len(played) = place
    /\ early = {}
    /\ \A id \in held : Ahead(id) < WINDOW

-----------------------------------------------------------------------------
(* Why it does: packets are near enough the position for their ids to tell *)
(* where they are, and of each place that came out empty something WINDOW  *)
(* or more past its hole has come.                                         *)

TypeOK ==
    /\ sent \in Nat /\ flying \subseteq 0 .. sent - 1 /\ arrived \subseteq 0 .. sent - 1
    /\ held \subseteq 0 .. Ids - 1 /\ place \in Nat /\ played \in Seq(Int)
    /\ first \in Nat \cup {NoId} /\ next \in Nat \cup {NoId}

Nearby ==
    /\ \A p \in flying : sent - p <= MaxLag
    /\ next = NoId <=> first = NoId
    /\ next # NoId =>
         next = Id(first + place) /\ first + place <= sent /\ sent - (first + place) <= Ids \div 2

HeldHasCome ==
    \A id \in held : Ahead(id) \in 1 .. WINDOW - 1 /\ first + place + Ahead(id) \in arrived

PlacesAreTold ==
    /\ Len(played) = place
    /\ \A k \in 1 .. Len(played) :
         played[k] >= 0 => played[k] = first + k - 1 /\ played[k] \in arrived

GivenUp(h, k) ==
    /\ \A j \in h .. k : played[j] < 0
    /\ \E q \in arrived : q >= first + h - 1 + WINDOW

HolesAreOverdue ==
    \A k \in 1 .. Len(played) : played[k] < 0 => \E h \in 1 .. k : GivenUp(h, k)

ReorderInv ==
    /\ TypeOK /\ Nearby /\ HeldHasCome /\ PlacesAreTold /\ HolesAreOverdue
    /\ first = NoId => place = 0 /\ held = {}
    /\ early = {}
=============================================================================
