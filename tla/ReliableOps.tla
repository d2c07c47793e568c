---------------------------- MODULE ReliableOps -----------------------------
(***************************************************************************)
(* One end of the reliable control channel, sunburst-net/src/reliable.rs,  *)
(* as operators from a channel record and an input to the new record, the  *)
(* frames to transmit and the messages to deliver.  The code is built the  *)
(* same way: no method touches a socket.                                   *)
(*                                                                         *)
(* A channel record has the fields of struct Reliable.  unacked and early  *)
(* are functions on the sequence numbers present in the two BTreeMaps.     *)
(* Which outstanding entries are older than RETRANSMIT_MS is an argument   *)
(* of the tick, so no clock is kept.                                       *)
(***************************************************************************)
EXTENDS SeqArith, FiniteSets, Sequences, FiniteSetTheorems

CONSTANTS Window,        \* WINDOW: unacknowledged messages allowed, 8 in the code
          MaxAttempts    \* MAX_ATTEMPTS: timeouts before PeerGone, 8 in the code

ASSUME WindowAssumption == /\ Window \in Nat \ {0}
                           /\ Window < Half
                           /\ MaxAttempts \in Nat \ {0}

None == -1               \* Option::None, for an ack and for the peer's epoch

NoEntries == [s \in {} |-> None]

\* A BTreeMap from sequence numbers to Value.
IsEntries(m, Value) == DOMAIN m \subseteq SeqNum /\ m \in [DOMAIN m -> Value]

IsChannel(c, Msg) ==
    /\ c \in [nextSeq : SeqNum, ack : SeqNum \cup {None}, unacked : {c.unacked},
              early : {c.early}, ackPending : BOOLEAN, epoch : Nat,
              peerEpoch : Nat \cup {None}]
    /\ IsEntries(c.unacked, [payload : Msg, attempts : 0 .. MaxAttempts - 1])
    /\ IsEntries(c.early, Msg)

Frame(Msg) ==
    [seq : SeqNum, ack : SeqNum, hasPayload : BOOLEAN,
     payload : Msg \cup {None}, epoch : Nat]

\* Reliable::with_epoch
NewChannel(epoch) ==
    [nextSeq |-> 0, ack |-> None, unacked |-> NoEntries, early |-> NoEntries,
     ackPending |-> FALSE, epoch |-> epoch, peerEpoch |-> None]

\* "Nothing received" goes on the wire as the number before zero.
WireAck(c) == IF c.ack = None THEN SeqMod - 1 ELSE c.ack

DataFrame(c, seq, msg) ==
    [seq |-> seq, ack |-> WireAck(c), hasPayload |-> TRUE, payload |-> msg,
     epoch |-> c.epoch]

BareAck(c) ==
    [seq |-> c.nextSeq, ack |-> WireAck(c), hasPayload |-> FALSE,
     payload |-> None, epoch |-> c.epoch]

-----------------------------------------------------------------------------
(* Epochs *)

\* How a frame's epoch relates to the peer's as first seen.
Incarnation(c, f) ==
    CASE c.peerEpoch = None     -> "First"
      [] c.peerEpoch = f.epoch  -> "Same"
      [] OTHER -> IF f.epoch > c.peerEpoch THEN "Newer" ELSE "Stale"

\* Reliable::restart: number from zero for a peer that came back as peerEpoch.
Restart(c, peerEpoch) == [NewChannel(c.epoch) EXCEPT !.peerEpoch = peerEpoch]

-----------------------------------------------------------------------------
(* Sending *)

\* Mutant of CanSend: the window is not enforced.
CanAlwaysSend(c) == TRUE

CanSend(c) == Cardinality(DOMAIN c.unacked) < Window

\* Reliable::send, when it does not answer WouldBlock; the frame is SendFrame.
AfterSend(c, msg) ==
    [c EXCEPT !.nextSeq = NextSeq(c.nextSeq),
              !.unacked = [s \in DOMAIN c.unacked \cup {c.nextSeq} |->
                              IF s = c.nextSeq THEN [payload |-> msg, attempts |-> 0]
                                               ELSE c.unacked[s]],
              !.ackPending = FALSE]

SendFrame(c, msg) == DataFrame(c, c.nextSeq, msg)

-----------------------------------------------------------------------------
(* Receiving *)

\* Mutant of Retained: the ack is read as the next number wanted.
RetainedPastAck(c, f) == {s \in DOMAIN c.unacked : IsNewerThan(s, NextSeq(f.ack))}

\* Cumulative: everything the peer's ack does not fall short of is retired.
Retained(c, f) == {s \in DOMAIN c.unacked : IsNewerThan(s, f.ack)}

Wanted(c) == IF c.ack = None THEN 0 ELSE NextSeq(c.ack)

\* Mutant of Admits: what was delivered already is not recognised.
AdmitsAgain(c, f) ==
    /\ f.seq \notin DOMAIN c.early
    /\ DistanceFrom(f.seq, Wanted(c)) < Window

\* The payload is neither delivered nor held already, nor beyond the window.
Admits(c, f) ==
    /\ c.ack # None => IsNewerThan(f.seq, c.ack)
    /\ f.seq \notin DOMAIN c.early
    /\ DistanceFrom(f.seq, Wanted(c)) < Window

Held(c, f) ==
    IF Admits(c, f)
      THEN [s \in DOMAIN c.early \cup {f.seq} |->
               IF s = f.seq THEN f.payload ELSE c.early[s]]
      ELSE c.early

\* drain_in_order: how many held messages are contiguous from the wanted one.
RunLength(held, want) ==
    CHOOSE k \in 0 .. SeqMod :
        /\ \A i \in 0 .. k-1 : Plus(want, i) \in DOMAIN held
        /\ k < SeqMod => Plus(want, k) \notin DOMAIN held

Run(held, want) ==
    [i \in 1 .. RunLength(held, want) |-> held[Plus(want, i - 1)]]

\* Reliable::on_frame: a stale frame is ignored whole, its ack included; a
\* frame with no payload only acknowledges.
Hears(c, f) == Incarnation(c, f) # "Stale"

Delivers(c, f) ==
    IF Hears(c, f) /\ f.hasPayload /\ Admits(c, f)
      THEN Run(Held(c, f), Wanted(c))
      ELSE << >>

Acknowledged(c, f) ==
    [c EXCEPT !.peerEpoch = IF c.peerEpoch = None THEN f.epoch ELSE c.peerEpoch,
              !.unacked = [s \in Retained(c, f) |-> c.unacked[s]]]

\* Mutants of Accepted: the ack stops at the frame that closed the gap; what
\* is delivered stays in the holding area.
AcceptedAckingOne(c, f) ==
    LET want == Wanted(c)
        k    == Len(Delivers(c, f))
        gone == {Plus(want, i) : i \in 0 .. k-1}
    IN [c EXCEPT !.ackPending = TRUE,
                 !.early = [s \in DOMAIN Held(c, f) \ gone |-> Held(c, f)[s]],
                 !.ack = IF k = 0 THEN c.ack ELSE want]

AcceptedKeepingHeld(c, f) ==
    LET k == Len(Delivers(c, f))
    IN [c EXCEPT !.ackPending = TRUE,
                 !.early = Held(c, f),
                 !.ack = IF k = 0 THEN c.ack ELSE Plus(Wanted(c), k - 1)]

Accepted(c, f) ==
    LET held == Held(c, f)
        want == Wanted(c)
        k    == Len(Delivers(c, f))
        gone == {Plus(want, i) : i \in 0 .. k-1}
    IN [c EXCEPT !.ackPending = TRUE,
                 !.early = [s \in DOMAIN held \ gone |-> held[s]],
                 !.ack = IF k = 0 THEN c.ack ELSE Plus(want, k - 1)]

AfterFrame(c, f) ==
    CASE ~Hears(c, f)   -> c
      [] Hears(c, f) /\ ~f.hasPayload -> Acknowledged(c, f)
      [] Hears(c, f) /\ f.hasPayload  -> Accepted(Acknowledged(c, f), f)

-----------------------------------------------------------------------------
(* The timer.  due is the set of outstanding numbers RETRANSMIT_MS old.    *)

\* Reliable::tick answers PeerGone, and its owner drops the channel.
GivesUp(c, due) == \E s \in due : c.unacked[s].attempts + 1 >= MaxAttempts

OwesBareAck(c, due) == c.ackPending /\ due = {}

\* Mutant of AfterTick: a retransmission is not counted.
AfterTickUncounted(c, due) ==
    [c EXCEPT !.ackPending = @ /\ ~OwesBareAck(c, due)]

AfterTick(c, due) ==
    [c EXCEPT !.unacked = [s \in DOMAIN c.unacked |->
                              IF s \in due
                                THEN [c.unacked[s] EXCEPT !.attempts = @ + 1]
                                ELSE c.unacked[s]],
              !.ackPending = @ /\ ~OwesBareAck(c, due)]

\* Rebuilt, so that a retransmission carries the ack of now.
TickFrames(c, due) ==
    {DataFrame(c, s, c.unacked[s].payload) : s \in due}
      \cup (IF OwesBareAck(c, due) THEN {BareAck(c)} ELSE {})

\* Reliable::take_ack, for an owner about to drop the channel.
AfterTakeAck(c) == [c EXCEPT !.ackPending = FALSE]
TakeAckFrames(c) == IF c.ackPending THEN {BareAck(c)} ELSE {}

-----------------------------------------------------------------------------
(* What the proofs of the modules that use a channel need to know of the   *)
(* operators: how many numbers a stretch of the stream occupies, what      *)
(* drain_in_order's loop finds, and which fields an operator leaves alone. *)

\* A stretch no longer than the space occupies as many numbers as messages.
LEMMA SlotsCount ==
    ASSUME NEW a \in Int, NEW b \in Int, a <= b, b - a <= SeqMod
    PROVE  IsFiniteSet(Slots(a, b)) /\ Cardinality(Slots(a, b)) = b - a
<1>. DEFINE f == [n \in a .. b - 1 |-> n % SeqMod]
<1>1. f \in Surjection(a .. b - 1, Slots(a, b))
  BY DEF Surjection, Slots
<1>2. ASSUME NEW m \in a .. b - 1, NEW n \in a .. b - 1, f[m] = f[n]
      PROVE  m = n
  <2>1. m - n < SeqMod /\ n - m < SeqMod /\ m % SeqMod = n % SeqMod
    BY <1>2, SeqModAssumption
  <2>. QED BY <2>1, SameNumber
<1>3. f \in Injection(a .. b - 1, Slots(a, b))
  BY <1>1, <1>2 DEF Injection, IsInjective, Surjection
<1>4. ExistsBijection(a .. b - 1, Slots(a, b))
  BY <1>1, <1>3 DEF ExistsBijection, Bijection
<1>5. IsFiniteSet(a .. b - 1)
      /\ Cardinality(a .. b - 1) = IF a > b - 1 THEN 0 ELSE b - 1 - a + 1
  BY FS_Interval
<1>. QED BY <1>4, <1>5, FS_Bijection

\* Messages are numbered within the sequence space.
LEMMA SlotsInSpace ==
    ASSUME NEW a \in Int, NEW b \in Int
    PROVE  Slots(a, b) \subseteq SeqNum
BY Remainder DEF Slots

\* A nonempty set of natural numbers has a least element.
LEMMA LeastNatural ==
    ASSUME NEW T, T \subseteq Nat, T # {}
    PROVE  \E x \in T : \A y \in T : x <= y
<1>1. PICK x \in T : \A y \in T : ~ (<<y, x>> \in OpToRel(<, Nat))
  BY WFMin, NatLessThanWellFounded
<1>2. \A y \in T : ~ (y < x)
  BY <1>1 DEF OpToRel
<1>. QED BY <1>2

\* The loop stops at the first number not held, and holds all before it.
LEMMA RunLengthSpec ==
    ASSUME NEW held, NEW want \in SeqNum,
           NEW j \in 0 .. SeqMod - 1, Plus(want, j) \notin DOMAIN held
    PROVE  /\ RunLength(held, want) \in 0 .. SeqMod - 1
           /\ \A i \in 0 .. RunLength(held, want) - 1 : Plus(want, i) \in DOMAIN held
           /\ Plus(want, RunLength(held, want)) \notin DOMAIN held
<1>. DEFINE Stops == {k \in Nat : Plus(want, k) \notin DOMAIN held}
            IsRun(k) == /\ \A i \in 0 .. k-1 : Plus(want, i) \in DOMAIN held
                        /\ k < SeqMod => Plus(want, k) \notin DOMAIN held
<1>1. PICK k \in Stops : \A y \in Stops : k <= y
  <2>1. j \in Stops
    BY SeqModAssumption
  <2>2. Stops \subseteq Nat
    OBVIOUS
  <2>. HIDE DEF Stops
  <2>. QED BY <2>1, <2>2, LeastNatural
<1>2. k <= j /\ k \in 0 .. SeqMod
  BY <1>1, SeqModAssumption
<1>3. IsRun(k)
  BY <1>1
<1>4. RunLength(held, want) = CHOOSE x \in 0 .. SeqMod : IsRun(x)
  BY DEF RunLength
<1>. DEFINE r == RunLength(held, want)
<1>5. r \in 0 .. SeqMod /\ IsRun(r)
  <2>. HIDE DEF IsRun
  <2>. QED BY <1>2, <1>3, <1>4
<1>6. r <= j
  <2>1. ASSUME j < r PROVE FALSE
    <3>1. j \in 0 .. r - 1
      BY <1>5, <2>1, SeqModAssumption
    <3>. QED BY <1>5, <3>1
  <2>. QED BY <1>5, <2>1, SeqModAssumption
<1>. QED BY <1>5, <1>6, SeqModAssumption

-----------------------------------------------------------------------------
(* What each operator leaves in each field. *)

\* Stepping through the space stays in it.
LEMMA PlusInSpace ==
    ASSUME NEW a \in SeqNum, NEW i \in 0 .. SeqMod - 1
    PROVE  Plus(a, i) \in SeqNum
BY SeqModAssumption DEF Plus, SeqNum

\* What with_epoch leaves in each field.
LEMMA NewChannelFields ==
    ASSUME NEW e \in Nat
    PROVE  IsChannel(NewChannel(e), Nat)
<1>1. NewChannel(e) \in [nextSeq : SeqNum, ack : SeqNum \cup {None},
                        unacked : {NoEntries}, early : {NoEntries},
                        ackPending : BOOLEAN, epoch : Nat, peerEpoch : Nat \cup {None}]
  BY SeqModAssumption DEF NewChannel, SeqNum
<1>2. IsEntries(NoEntries, [payload : Nat, attempts : 0 .. MaxAttempts - 1])
      /\ IsEntries(NoEntries, Nat)
  BY DEF NoEntries, IsEntries
<1>. QED BY <1>1, <1>2 DEF IsChannel, NewChannel

\* What send leaves in each field.
LEMMA AfterSendFields ==
    ASSUME NEW c, IsChannel(c, Nat), NEW msg \in Nat
    PROVE  LET d == AfterSend(c, msg) IN
           /\ IsChannel(d, Nat)
           /\ d.nextSeq = NextSeq(c.nextSeq)
           /\ d.ack = c.ack /\ d.early = c.early
           /\ d.epoch = c.epoch /\ d.peerEpoch = c.peerEpoch
           /\ DOMAIN d.unacked = DOMAIN c.unacked \cup {c.nextSeq}
           /\ \A s \in DOMAIN c.unacked : s # c.nextSeq => d.unacked[s] = c.unacked[s]
           /\ d.unacked[c.nextSeq].payload = msg
<1>. DEFINE d == AfterSend(c, msg)
            u == [s \in DOMAIN c.unacked \cup {c.nextSeq} |->
                    IF s = c.nextSeq THEN [payload |-> msg, attempts |-> 0]
                                     ELSE c.unacked[s]]
<1>1. c \in [nextSeq : SeqNum, ack : SeqNum \cup {None}, unacked : {c.unacked},
            early : {c.early}, ackPending : BOOLEAN, epoch : Nat,
            peerEpoch : Nat \cup {None}]
  BY DEF IsChannel
<1>2. IsEntries(u, [payload : Nat, attempts : 0 .. MaxAttempts - 1])
  BY <1>1, WindowAssumption DEF IsChannel, IsEntries
<1>3. NextSeq(c.nextSeq) \in SeqNum
  BY <1>1, PlusInSpace, SeqModAssumption DEF NextSeq
<1>4. d = [c EXCEPT !.nextSeq = NextSeq(c.nextSeq), !.unacked = u, !.ackPending = FALSE]
  BY DEF AfterSend
<1>. HIDE DEF u
<1>5. /\ d.nextSeq = NextSeq(c.nextSeq) /\ d.unacked = u
      /\ d.ack = c.ack /\ d.early = c.early
      /\ d.epoch = c.epoch /\ d.peerEpoch = c.peerEpoch
      /\ d \in [nextSeq : SeqNum, ack : SeqNum \cup {None}, unacked : {u},
               early : {c.early}, ackPending : BOOLEAN, epoch : Nat,
               peerEpoch : Nat \cup {None}]
  BY <1>1, <1>3, <1>4
<1>6. IsChannel(d, Nat)
  BY <1>2, <1>5 DEF IsChannel
<1>. QED BY <1>5, <1>6 DEF u

\* What a tick that does not give up leaves in each field.
LEMMA AfterTickFields ==
    ASSUME NEW c, IsChannel(c, Nat), NEW due \in SUBSET DOMAIN c.unacked,
           ~GivesUp(c, due)
    PROVE  LET d == AfterTick(c, due) IN
           /\ IsChannel(d, Nat)
           /\ d.nextSeq = c.nextSeq
           /\ d.ack = c.ack /\ d.early = c.early
           /\ d.epoch = c.epoch /\ d.peerEpoch = c.peerEpoch
           /\ DOMAIN d.unacked = DOMAIN c.unacked
           /\ \A s \in DOMAIN c.unacked : d.unacked[s].payload = c.unacked[s].payload
<1>. DEFINE d == AfterTick(c, due)
            u == [s \in DOMAIN c.unacked |->
                    IF s \in due THEN [c.unacked[s] EXCEPT !.attempts = @ + 1]
                                ELSE c.unacked[s]]
            b == c.ackPending /\ ~OwesBareAck(c, due)
<1>1. c \in [nextSeq : SeqNum, ack : SeqNum \cup {None}, unacked : {c.unacked},
            early : {c.early}, ackPending : BOOLEAN, epoch : Nat,
            peerEpoch : Nat \cup {None}]
  BY DEF IsChannel
<1>2. /\ IsEntries(u, [payload : Nat, attempts : 0 .. MaxAttempts - 1])
      /\ \A s \in DOMAIN c.unacked : u[s].payload = c.unacked[s].payload
  BY WindowAssumption DEF IsChannel, IsEntries, GivesUp
<1>3. d = [c EXCEPT !.unacked = u, !.ackPending = b]
  BY <1>1 DEF AfterTick
<1>4. b \in BOOLEAN
  BY <1>1
<1>5. DOMAIN u = DOMAIN c.unacked
  OBVIOUS
<1>. HIDE DEF u, b
<1>6. /\ d.nextSeq = c.nextSeq /\ d.unacked = u
      /\ d.ack = c.ack /\ d.early = c.early
      /\ d.epoch = c.epoch /\ d.peerEpoch = c.peerEpoch
      /\ d \in [nextSeq : SeqNum, ack : SeqNum \cup {None}, unacked : {u},
               early : {c.early}, ackPending : BOOLEAN, epoch : Nat,
               peerEpoch : Nat \cup {None}]
  BY <1>1, <1>3, <1>4
<1>7. IsChannel(d, Nat)
  BY <1>2, <1>6 DEF IsChannel
<1>. QED BY <1>2, <1>5, <1>6, <1>7

\* What taking in the ack of a frame leaves in each field.
LEMMA AcknowledgedFields ==
    ASSUME NEW c, IsChannel(c, Nat), NEW f, f.epoch \in Nat
    PROVE  LET d == Acknowledged(c, f) IN
           /\ IsChannel(d, Nat)
           /\ d.nextSeq = c.nextSeq
           /\ d.ack = c.ack /\ d.early = c.early /\ d.epoch = c.epoch
           /\ d.peerEpoch = IF c.peerEpoch = None THEN f.epoch ELSE c.peerEpoch
           /\ DOMAIN d.unacked = Retained(c, f)
           /\ \A s \in Retained(c, f) : d.unacked[s] = c.unacked[s]
<1>. DEFINE d == Acknowledged(c, f)
            u == [s \in Retained(c, f) |-> c.unacked[s]]
            e == IF c.peerEpoch = None THEN f.epoch ELSE c.peerEpoch
<1>1. c \in [nextSeq : SeqNum, ack : SeqNum \cup {None}, unacked : {c.unacked},
            early : {c.early}, ackPending : BOOLEAN, epoch : Nat,
            peerEpoch : Nat \cup {None}]
  BY DEF IsChannel
<1>2. IsEntries(u, [payload : Nat, attempts : 0 .. MaxAttempts - 1])
  BY DEF IsChannel, IsEntries, Retained
<1>3. d = [c EXCEPT !.peerEpoch = e, !.unacked = u]
  BY DEF Acknowledged
<1>4. e \in Nat \cup {None}
  BY <1>1
<1>5. DOMAIN u = Retained(c, f) /\ \A s \in Retained(c, f) : u[s] = c.unacked[s]
  OBVIOUS
<1>. HIDE DEF u, e
<1>6. /\ d.nextSeq = c.nextSeq /\ d.unacked = u
      /\ d.ack = c.ack /\ d.early = c.early
      /\ d.epoch = c.epoch /\ d.peerEpoch = e
      /\ d \in [nextSeq : SeqNum, ack : SeqNum \cup {None}, unacked : {u},
               early : {c.early}, ackPending : BOOLEAN, epoch : Nat,
               peerEpoch : Nat \cup {None}]
  BY <1>1, <1>3, <1>4
<1>7. IsChannel(d, Nat)
  BY <1>2, <1>6 DEF IsChannel
<1>. QED BY <1>5, <1>6, <1>7 DEF e

\* The holding area after a frame has been admitted to it or refused.
LEMMA HeldFields ==
    ASSUME NEW c, IsChannel(c, Nat), NEW f, f.seq \in SeqNum, f.payload \in Nat
    PROVE  /\ IsEntries(Held(c, f), Nat)
           /\ DOMAIN c.early \subseteq DOMAIN Held(c, f)
           /\ \A s \in DOMAIN Held(c, f) :
                 \/ s \in DOMAIN c.early /\ Held(c, f)[s] = c.early[s]
                 \/ Admits(c, f) /\ s = f.seq /\ Held(c, f)[s] = f.payload
<1>1. IsEntries(c.early, Nat)
  BY DEF IsChannel
<1>2. CASE Admits(c, f)
  BY <1>1, <1>2 DEF Held, IsEntries
<1>3. CASE ~Admits(c, f)
  BY <1>1, <1>3 DEF Held, IsEntries
<1>. QED BY <1>2, <1>3

\* What delivering the contiguous run leaves in each field.
LEMMA AcceptedFields ==
    ASSUME NEW c, IsChannel(c, Nat), NEW f, f.seq \in SeqNum, f.payload \in Nat,
           NEW k \in 0 .. SeqMod - 1, k = Len(Delivers(c, f))
    PROVE  LET d    == Accepted(c, f)
               gone == {Plus(Wanted(c), i) : i \in 0 .. k-1}
           IN /\ IsChannel(d, Nat)
              /\ d.nextSeq = c.nextSeq /\ d.unacked = c.unacked
              /\ d.epoch = c.epoch /\ d.peerEpoch = c.peerEpoch
              /\ d.ack = IF k = 0 THEN c.ack ELSE Plus(Wanted(c), k - 1)
              /\ DOMAIN d.early = DOMAIN Held(c, f) \ gone
              /\ \A s \in DOMAIN d.early : d.early[s] = Held(c, f)[s]
<1>. DEFINE d == Accepted(c, f)
            gone == {Plus(Wanted(c), i) : i \in 0 .. k-1}
            h == Held(c, f)
            e == [s \in DOMAIN h \ gone |-> h[s]]
            a == IF k = 0 THEN c.ack ELSE Plus(Wanted(c), k - 1)
<1>1. c \in [nextSeq : SeqNum, ack : SeqNum \cup {None}, unacked : {c.unacked},
            early : {c.early}, ackPending : BOOLEAN, epoch : Nat,
            peerEpoch : Nat \cup {None}]
  BY DEF IsChannel
<1>2. IsEntries(h, Nat)
  BY HeldFields
<1>3. IsEntries(e, Nat)
  <2>. HIDE DEF h, gone
  <2>. QED BY <1>2 DEF IsEntries
<1>4. Wanted(c) \in SeqNum
  BY <1>1, PlusInSpace, SeqModAssumption DEF Wanted, NextSeq, SeqNum
<1>5. a \in SeqNum \cup {None}
  <2>1. CASE k = 0
    BY <2>1, <1>1
  <2>2. CASE k # 0
    BY <2>2, <1>4, PlusInSpace, SeqModAssumption
  <2>. QED BY <2>1, <2>2
<1>6. d = [c EXCEPT !.ackPending = TRUE, !.early = e, !.ack = a]
  BY DEF Accepted
<1>7. DOMAIN e = DOMAIN h \ gone /\ \A s \in DOMAIN e : e[s] = h[s]
  OBVIOUS
<1>. HIDE DEF e, a, h, gone
<1>8. /\ d.nextSeq = c.nextSeq /\ d.unacked = c.unacked
      /\ d.ack = a /\ d.early = e
      /\ d.epoch = c.epoch /\ d.peerEpoch = c.peerEpoch
      /\ d \in [nextSeq : SeqNum, ack : SeqNum \cup {None}, unacked : {c.unacked},
               early : {e}, ackPending : BOOLEAN, epoch : Nat,
               peerEpoch : Nat \cup {None}]
  BY <1>1, <1>5, <1>6
<1>9. IsChannel(d, Nat)
  BY <1>3, <1>8 DEF IsChannel
<1>. QED BY <1>7, <1>8, <1>9 DEF a, h, gone

\* A run within a stretch of the space that does not wrap: it ends where the
\* stretch does, at the latest, and holds every number before its end.
LEMMA RunOfStretch ==
    ASSUME NEW n \in 0 .. SeqMod - 1, NEW held, DOMAIN held \subseteq 0 .. n - 1,
           NEW want \in 0 .. n
    PROVE  LET k == RunLength(held, want) IN
           /\ k \in 0 .. n - want
           /\ \A i \in 0 .. k - 1 : Plus(want, i) = want + i /\ want + i \in DOMAIN held
<1>. DEFINE k == RunLength(held, want)
<1>1. n \in Nat /\ want \in Nat /\ want <= n /\ n < SeqMod /\ SeqMod \in Nat
  BY SeqModAssumption
<1>2. want \in SeqNum /\ n - want \in 0 .. SeqMod - 1
  BY <1>1 DEF SeqNum
<1>3. Plus(want, n - want) = n /\ n \notin DOMAIN held
  BY <1>1 DEF Plus
<1>4. /\ k \in 0 .. SeqMod - 1
      /\ \A i \in 0 .. k - 1 : Plus(want, i) \in DOMAIN held
  BY <1>2, <1>3, RunLengthSpec
<1>. HIDE DEF k
<1>5. k <= n - want
  <2>1. ASSUME n - want < k PROVE FALSE
    <3>1. n - want \in 0 .. k - 1
      BY <1>1, <1>4, <2>1
    <3>. QED BY <1>3, <1>4, <3>1
  <2>. QED BY <1>1, <1>4, <2>1
<1>6. ASSUME NEW i \in 0 .. k - 1
      PROVE  Plus(want, i) = want + i /\ want + i \in DOMAIN held
  <2>1. i \in Nat /\ want + i < n
    BY <1>1, <1>4, <1>5
  <2>2. Plus(want, i) = want + i
    BY <1>1, <2>1 DEF Plus
  <2>. QED BY <1>4, <2>2
<1>. QED BY <1>1, <1>4, <1>5, <1>6 DEF k

\* What on_frame leaves in each field, and what it delivers, when the numbers
\* in play do not wrap: all of them are below n.
LEMMA AfterFrameFields ==
    ASSUME NEW c, IsChannel(c, Nat), NEW f \in Frame(Nat), f.hasPayload => f.payload \in Nat,
           NEW n \in 0 .. SeqMod - 1, DOMAIN c.early \subseteq 0 .. n - 1,
           f.hasPayload => f.seq \in 0 .. n - 1,
           c.ack # None => c.ack < n
    PROVE  LET d == AfterFrame(c, f)
               m == Delivers(c, f)
               Came(s, v) == \/ s \in DOMAIN c.early /\ v = c.early[s]
                             \/ Hears(c, f) /\ f.hasPayload /\ s = f.seq /\ v = f.payload
           IN
           /\ IsChannel(d, Nat)
           /\ d.nextSeq = c.nextSeq /\ d.epoch = c.epoch
           /\ d.peerEpoch = IF c.peerEpoch = None THEN f.epoch ELSE c.peerEpoch
           /\ DOMAIN d.unacked \subseteq DOMAIN c.unacked
           /\ \A s \in DOMAIN d.unacked : d.unacked[s] = c.unacked[s]
           /\ Wanted(c) \in 0 .. n
           /\ m \in Seq(Nat) /\ Wanted(c) + Len(m) <= n
           /\ d.ack = IF Len(m) = 0 THEN c.ack ELSE Wanted(c) + Len(m) - 1
           /\ \A s \in DOMAIN d.early : Came(s, d.early[s])
           /\ \A i \in 1 .. Len(m) : Came(Wanted(c) + i - 1, m[i])
<1>. DEFINE d == AfterFrame(c, f)
            m == Delivers(c, f)
            Came(s, v) == \/ s \in DOMAIN c.early /\ v = c.early[s]
                          \/ Hears(c, f) /\ f.hasPayload /\ s = f.seq /\ v = f.payload
            w == Wanted(c)
<1>1. /\ c.nextSeq \in SeqNum /\ c.ack \in SeqNum \cup {None} /\ c.epoch \in Nat
      /\ c.peerEpoch \in Nat \cup {None} /\ IsEntries(c.early, Nat)
      /\ f.epoch \in Nat /\ f.seq \in SeqNum /\ f.hasPayload \in BOOLEAN
      /\ n \in Nat /\ n < SeqMod /\ SeqMod \in Nat
  BY SeqModAssumption DEF IsChannel, Frame
<1>2. w \in 0 .. n /\ w \in SeqNum
  <2>1. CASE c.ack = None
    BY <1>1, <2>1 DEF Wanted, SeqNum
  <2>2. CASE c.ack # None
    BY <1>1, <2>2 DEF Wanted, NextSeq, Plus, SeqNum
  <2>. QED BY <2>1, <2>2
<1>3. \A s \in DOMAIN c.early : c.early[s] \in Nat
  BY <1>1 DEF IsEntries
<1>4. CASE ~Hears(c, f)
  <2>1. d = c /\ m = << >>
    BY <1>4 DEF AfterFrame, Delivers
  <2>2. c.peerEpoch # None
    BY <1>1, <1>4 DEF Hears, Incarnation
  <2>. QED BY <1>1, <1>2, <2>1, <2>2
<1>5. CASE Hears(c, f) /\ ~f.hasPayload
  <2>1. d = Acknowledged(c, f) /\ m = << >>
    BY <1>5 DEF AfterFrame, Delivers
  <2>2. /\ IsChannel(d, Nat)
        /\ d.nextSeq = c.nextSeq
        /\ d.ack = c.ack /\ d.early = c.early /\ d.epoch = c.epoch
        /\ d.peerEpoch = IF c.peerEpoch = None THEN f.epoch ELSE c.peerEpoch
        /\ DOMAIN d.unacked = Retained(c, f)
        /\ \A s \in Retained(c, f) : d.unacked[s] = c.unacked[s]
    BY <1>1, <2>1, AcknowledgedFields
  <2>3. Retained(c, f) \subseteq DOMAIN c.unacked
    BY DEF Retained
  <2>4. Len(m) = 0 /\ m \in Seq(Nat)
    BY <2>1
  <2>. HIDE DEF d, m, w
  <2>. QED BY <1>1, <1>2, <2>2, <2>3, <2>4 DEF d, m, w
<1>6. CASE Hears(c, f) /\ f.hasPayload
  <2>. DEFINE a == Acknowledged(c, f)
              h == Held(c, f)
              k == RunLength(h, w)
  <2>1. d = Accepted(a, f)
    BY <1>6 DEF AfterFrame
  <2>2. /\ IsChannel(a, Nat)
        /\ a.nextSeq = c.nextSeq
        /\ a.ack = c.ack /\ a.early = c.early /\ a.epoch = c.epoch
        /\ a.peerEpoch = IF c.peerEpoch = None THEN f.epoch ELSE c.peerEpoch
        /\ DOMAIN a.unacked = Retained(c, f)
        /\ \A s \in Retained(c, f) : a.unacked[s] = c.unacked[s]
    BY <1>1, AcknowledgedFields
  <2>3. Retained(c, f) \subseteq DOMAIN c.unacked
    BY DEF Retained
  <2>. HIDE DEF a
  <2>4. /\ Wanted(a) = w /\ Held(a, f) = h /\ (Admits(a, f) <=> Admits(c, f))
    BY <2>2 DEF Wanted, Held, Admits
  <2>5. Hears(a, f)
    BY <1>1, <1>6, <2>2 DEF Hears, Incarnation, None
  <2>6. Delivers(a, f) = m
    BY <1>6, <2>4, <2>5 DEF Delivers
  <2>7. /\ IsEntries(h, Nat)
        /\ \A s \in DOMAIN h : Came(s, h[s])
    <3>1. /\ IsEntries(h, Nat)
          /\ \A s \in DOMAIN h :
                 \/ s \in DOMAIN c.early /\ h[s] = c.early[s]
                 \/ Admits(c, f) /\ s = f.seq /\ h[s] = f.payload
      BY <1>1, <1>6, HeldFields
    <3>. QED BY <1>6, <3>1
  <2>8. DOMAIN h \subseteq 0 .. n - 1
    BY <1>6, <2>7
  <2>. HIDE DEF h, w
  <2>9. /\ k \in 0 .. n - w
        /\ \A i \in 0 .. k - 1 : Plus(w, i) = w + i /\ w + i \in DOMAIN h
    BY <1>2, <2>8, RunOfStretch
  <2>. HIDE DEF k
  <2>10. /\ m \in Seq(Nat) /\ w + Len(m) <= n /\ Len(m) \in Nat
         /\ \A i \in 1 .. Len(m) : w + i - 1 \in DOMAIN h /\ m[i] = h[w + i - 1]
    <3>1. CASE Admits(c, f)
      <4>1. m = [i \in 1 .. k |-> h[Plus(w, i - 1)]]
        BY <1>6, <3>1 DEF Delivers, Run, h, w, k
      <4>2. \A i \in 1 .. k : w + i - 1 \in DOMAIN h /\ h[Plus(w, i - 1)] = h[w + i - 1]
        <5>1. \A i \in 1 .. k : i - 1 \in 0 .. k - 1
          BY <1>2, <2>9
        <5>2. \A i \in 1 .. k : w + (i - 1) = w + i - 1
          BY <1>2, <2>9
        <5>. QED BY <2>9, <5>1, <5>2
      <4>3. \A i \in 1 .. k : m[i] = h[w + i - 1] /\ h[w + i - 1] \in Nat
        BY <2>7, <4>1, <4>2 DEF IsEntries
      <4>4. k \in Nat
        BY <1>2, <2>9
      <4>5. m \in [1 .. k -> Nat]
        BY <4>1, <4>3
      <4>. HIDE DEF m
      <4>6. m \in Seq(Nat) /\ Len(m) = k
        BY <4>4, <4>5
      <4>7. w + Len(m) <= n
        BY <1>1, <1>2, <2>9, <4>6
      <4>. QED BY <4>2, <4>3, <4>4, <4>6, <4>7
    <3>2. CASE ~Admits(c, f)
      <4>1. m = << >>
        BY <3>2 DEF Delivers
      <4>. QED BY <1>1, <1>2, <4>1
    <3>. QED BY <3>1, <3>2
  <2>. DEFINE j == Len(m)
              gone == {Plus(w, i) : i \in 0 .. j - 1}
  <2>11. j \in 0 .. SeqMod - 1
    BY <1>1, <1>2, <2>10
  <2>. HIDE DEF m
  <2>12. /\ IsChannel(d, Nat)
         /\ d.nextSeq = a.nextSeq /\ d.unacked = a.unacked
         /\ d.epoch = a.epoch /\ d.peerEpoch = a.peerEpoch
         /\ d.ack = IF j = 0 THEN a.ack ELSE Plus(w, j - 1)
         /\ DOMAIN d.early = DOMAIN h \ gone
         /\ \A s \in DOMAIN d.early : d.early[s] = h[s]
    BY <1>1, <1>6, <2>1, <2>2, <2>4, <2>6, <2>11, AcceptedFields
  <2>. HIDE DEF d
  <2>13. j # 0 => Plus(w, j - 1) = w + j - 1
    BY <1>1, <1>2, <2>10, <2>11 DEF Plus
  <2>14. \A s \in DOMAIN d.early : Came(s, d.early[s])
    BY <2>7, <2>12
  <2>15. \A i \in 1 .. Len(m) : Came(w + i - 1, m[i])
    BY <2>7, <2>10
  <2>. HIDE DEF Came
  <2>. QED BY <1>2, <2>2, <2>3, <2>10, <2>12, <2>13, <2>14, <2>15 DEF d, m, w, Came
<1>. QED BY <1>4, <1>5, <1>6

=============================================================================
