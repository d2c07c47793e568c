-------------------------- MODULE VideoPathProofs ---------------------------
(***************************************************************************)
(* Proofs about VideoPath, for every size of the stages and the windows,   *)
(* every number of frames, builds, refusals and packets, and across the    *)
(* wrap of the frame numbers.  PathInv ties what is held, fed and reported *)
(* to the frames as they were encoded; KeepsUp, the one thing the theorems *)
(* suppose of a behaviour, keeps these within half the space of numbers,   *)
(* where the modular comparison is the comparison of frames.               *)
(***************************************************************************)
EXTENDS VideoPath, FiniteSetTheorems, TLAPS

\* The frames encoded so far.
Made == 0 .. Encoded - 1

\* Half the space of frame numbers is not encoded while a frame waits in the
\* queue, while none is released, nor within one build of the decoder.
Near(c) ==
    /\ \A f \in c.rx.queue : Encoded - f < Half
    /\ c.rx.expected # None => Encoded - c.rx.expected < Half
    /\ Encoded - c.gate.first < Half

KeepsUp == Near(client)

\* A frame predicts from an older one, and from the last unless references are
\* invalidated; it is of the last build that was there.
LogOK ==
    /\ refInvalidation \in BOOLEAN
    /\ log \in Seq([key : BOOLEAN, ref : FrameOrNone, build : 1 .. MaxBuilds])
    /\ Encoded <= MaxFrames
    /\ \A f \in Made :
          /\ IsKey(f) \/ log[f + 1].ref \in 0 .. f - 1
          /\ ~refInvalidation => IsKey(f) \/ log[f + 1].ref = f - 1
          /\ \A b \in 1 .. Len(builds) : builds[b].first <= f => b <= BuildOf(f)

BuildsOK ==
    /\ builds \in Seq([first : 0 .. Encoded, look : {1, 2}])
    /\ Len(builds) \in 1 .. MaxBuilds

\* The reference window follows the encoder, and the abandon that is pending is
\* the oldest loss the server has learned of since it last encoded.
ServerOK ==
    /\ server \in [need : BOOLEAN, idr : BOOLEAN, abandon : noted \cup {None},
                   window : [newest : {Encoded - 1}, through : Made \cup {None}],
                   refs : SUBSET Made]
    /\ ~refInvalidation /\ server.refs # {} => Encoded - 1 \in server.refs
    /\ \A f \in noted : Encoded - f <= MaxReportLag /\ server.abandon <= f
    /\ noted # {} => server.abandon # None

LostOK == /\ lost \subseteq Made /\ noted \subseteq lost
          /\ asking \in BOOLEAN /\ refusals \in Nat

\* The receive stages hold encoded frames within their storage, and no frame
\* that is queued is behind the one expected.
RxOK(r) ==
    /\ r \in [partial : {r.partial}, completed : {r.completed}, abandoned : Seq(Made),
              queue : SUBSET Made, expected : 1 .. Encoded \cup {None}]
    /\ r.partial \in [DOMAIN r.partial -> SUBSET Index]
    /\ DOMAIN r.partial \subseteq Made
    /\ PoolUsed(r) <= PoolSlots
    /\ Cardinality(DOMAIN r.partial) + Cardinality(r.queue) <= FrameSlots
    /\ \A f \in r.queue : r.expected <= f

Last(s) == s[Len(s)]

\* Every frame of a gap has been reported lost, or one before it in the gap.
Covered(l, f, g) == \A n \in f + 1 .. g - 1 : \E h \in l : f < h /\ h <= n

\* What the decoder has been fed of a build that begins at first, when the
\* losses l are reported and expected is the next frame to release.
FedOK(first, expected, fed, l) ==
    /\ fed \in Seq(Made)
    /\ \A i, j \in DOMAIN fed : i < j => fed[i] < fed[j]
    /\ \A i \in DOMAIN fed : first <= fed[i] /\ fed[i] < expected
    /\ fed # <<>> => IsKey(fed[1])
    /\ \A i \in 2 .. Len(fed) :
          \/ IsKey(fed[i])
          \/ /\ Covered(l, fed[i - 1], fed[i])
             /\ ~refInvalidation => fed[i - 1] = fed[i] - 1

\* While the gate is open, all that was released since the last frame fed is
\* reported lost, and without reference invalidation nothing was.
OpenOK(expected, fed, l) ==
    /\ fed # <<>>
    /\ Covered(l, Last(fed), expected)
    /\ ~refInvalidation => expected = Last(fed) + 1

\* The client's frame loop at c, feeding d, with the losses l reported.
LoopOK(c, d, l) ==
    /\ c \in [rx : {c.rx}, gate : Gate, build : 1 .. Len(builds), lastFed : Made \cup {None}]
    /\ d \in [build : 1 .. c.build, fed : {d.fed}]
    /\ c.gate.first = builds[d.build].first
    /\ RxOK(c.rx)
    /\ FedOK(c.gate.first, c.rx.expected, d.fed, l)
    /\ c.gate.open => OpenOK(c.rx.expected, d.fed, l)

PathInv == LogOK /\ BuildsOK /\ ServerOK /\ LostOK /\ LoopOK(client, decoder, lost)

-----------------------------------------------------------------------------
(* Numbers, and the oldest and newest of a set.                            *)

LEMMA NoneIsNoFrame == None = -1 /\ None \notin Nat
BY DEF None

\* Within half the space, the code's comparison is that of the frames.
LEMMA NewerIsLater ==
    ASSUME NEW f \in Int, NEW g \in Int, f - g < Half, g - f < Half
    PROVE  Newer(f, g) <=> g < f
BY NewerOfCounts DEF Newer, Id

\* A nonempty set of natural numbers has a least, and one with a bound has a
\* greatest.
LEMMA LeastFrame ==
    ASSUME NEW S, S \subseteq Nat, S # {}
    PROVE  \E f \in S : \A g \in S : f <= g
<1>1. PICK f \in S : \A g \in S : ~ (<<g, f>> \in OpToRel(<, Nat))
  BY WFMin, NatLessThanWellFounded
<1>2. \A g \in S : ~ (g < f)
  BY <1>1 DEF OpToRel
<1>. QED BY <1>2

LEMMA GreatestFrame ==
    ASSUME NEW n \in Nat, NEW S, S \subseteq 0 .. n - 1, S # {}
    PROVE  Max(S) \in S /\ \A g \in S : g <= Max(S)
<1>. DEFINE T == {n - g : g \in S}
<1>1. T \subseteq Nat /\ T # {}
  OBVIOUS
<1>2. PICK t \in T : \A u \in T : t <= u
  BY <1>1, LeastFrame
<1>3. PICK f \in S : t = n - f
  BY <1>2
<1>4. \A g \in S : f >= g
  BY <1>2, <1>3
<1>5. \E x \in S : \A y \in S : x >= y
  BY <1>4
<1>. QED BY <1>5 DEF Max

\* Oldest picks a frame of the set, the least if they are close together.
LEMMA OldestOfSet ==
    ASSUME NEW S, S # {}
    PROVE  Oldest(S) \in S
<1>. DEFINE first == {f \in S : \A g \in S : ~Newer(f, g)}
<1>1. \E f \in S : f \in first \/ first = {}
  OBVIOUS
<1>. HIDE DEF first
<1>2. (CHOOSE f \in S : f \in first \/ first = {}) \in S
  BY <1>1
<1>. QED BY <1>2 DEF Oldest, first

LEMMA OldestIsLeast ==
    ASSUME NEW S, S \subseteq Nat, S # {}, \A f, g \in S : f - g < Half
    PROVE  Oldest(S) \in S /\ \A g \in S : Oldest(S) <= g
<1>. DEFINE first == {f \in S : \A g \in S : ~Newer(f, g)}
<1>1. \A f, g \in S : Newer(f, g) <=> g < f
  BY NewerIsLater
<1>2. PICK f \in S : \A g \in S : f <= g
  BY LeastFrame
<1>3. f \in first
  BY <1>1, <1>2
<1>4. \A x \in first : \A g \in S : x <= g
  BY <1>1
<1>5. \E x \in S : x \in first \/ first = {}
  BY <1>3
<1>. HIDE DEF first
<1>6. LET x == CHOOSE x \in S : x \in first \/ first = {} IN x \in S /\ x \in first
  BY <1>3, <1>5
<1>. QED BY <1>4, <1>6 DEF Oldest, first

\* A sequence with one more element.
LEMMA Appended ==
    ASSUME NEW S, NEW s \in Seq(S), NEW x \in S
    PROVE  LET t == Append(s, x) IN
           /\ t \in Seq(S) /\ Len(t) = Len(s) + 1 /\ t # <<>>
           /\ \A i \in 1 .. Len(s) : t[i] = s[i]
           /\ t[Len(s) + 1] = x
OBVIOUS

-----------------------------------------------------------------------------
(* The receive stages.                                                     *)

LEMMA SizesAreNat ==
    /\ Packets \in Nat /\ FrameSlots \in Nat /\ PoolSlots \in Nat /\ Encoded \in Nat
    /\ Half \in Nat
<1>1. Packets \in Nat
  BY FrameAssemblyAssumption, FS_CardinalityType DEF Packets
<1>2. Encoded \in Nat
  BY DEF Encoded
<1>. QED BY <1>1, <1>2, FrameAssemblyAssumption, HalfOfSpace

\* What a build and a frame of the log are made of.
LEMMA BuildFields ==
    ASSUME BuildsOK, NEW b \in 1 .. Len(builds)
    PROVE  /\ builds[b] \in [first : 0 .. Encoded, look : {1, 2}]
           /\ builds[b].first \in 0 .. Encoded /\ builds[b].first \in Nat
<1>. DEFINE S == [first : 0 .. Encoded, look : {1, 2}]
<1>1. builds \in Seq(S)
  BY DEF BuildsOK
<1>2. builds[b] \in S
  <2>. HIDE DEF S
  <2>. QED BY <1>1
<1>3. builds[b].first \in 0 .. Encoded
  BY <1>2
<1>. QED BY <1>2, <1>3

LEMMA LogFields ==
    ASSUME LogOK, NEW f \in Made
    PROVE  /\ IsKey(f) \in BOOLEAN /\ BuildOf(f) \in Nat
           /\ f \in Nat /\ f < Encoded /\ f + 1 \in 1 .. Len(log)
<1>. DEFINE S == [key : BOOLEAN, ref : FrameOrNone, build : 1 .. MaxBuilds]
<1>1. log \in Seq(S)
  BY DEF LogOK
<1>2. f \in Nat /\ f < Encoded /\ f + 1 \in 1 .. Len(log)
  BY SizesAreNat DEF Made, Encoded
<1>3. log[f + 1] \in S
  <2>. HIDE DEF S
  <2>. QED BY <1>1, <1>2
<1>. QED BY <1>2, <1>3 DEF IsKey, BuildOf

\* More frames, more of everything made of frames.
LEMMA MadeGrows ==
    ASSUME NEW m \in Nat, NEW n \in Nat, m <= n
    PROVE  0 .. m - 1 \subseteq 0 .. n - 1 /\ 0 .. m - 1 \subseteq Nat /\ 1 .. m \subseteq 1 .. n
OBVIOUS

LEMMA SeqGrows ==
    ASSUME NEW S, NEW T, S \subseteq T
    PROVE  Seq(S) \subseteq Seq(T) /\ SUBSET S \subseteq SUBSET T
OBVIOUS

\* What is stored is finite.
LEMMA StoredIsFinite ==
    ASSUME NEW r, r.partial \in [DOMAIN r.partial -> SUBSET Index],
           DOMAIN r.partial \subseteq Made, r.queue \subseteq Made
    PROVE  /\ IsFiniteSet(DOMAIN r.partial) /\ Cardinality(DOMAIN r.partial) \in Nat
           /\ IsFiniteSet(r.queue) /\ Cardinality(r.queue) \in Nat
           /\ IsFiniteSet(Loose(r)) /\ Cardinality(Loose(r)) \in Nat
           /\ Packets * Cardinality(r.queue) \in Nat
           /\ PoolUsed(r) \in Nat
<1>1. IsFiniteSet(Made)
  BY FS_Interval, SizesAreNat DEF Made
<1>2. IsFiniteSet(Made \X Index)
  BY <1>1, FS_Product, FrameAssemblyAssumption
<1>3. Loose(r) \subseteq Made \X Index
  BY DEF Loose
<1>4. IsFiniteSet(DOMAIN r.partial) /\ IsFiniteSet(r.queue) /\ IsFiniteSet(Loose(r))
  BY <1>1, <1>2, <1>3, FS_Subset
<1>5. /\ Cardinality(DOMAIN r.partial) \in Nat /\ Cardinality(r.queue) \in Nat
      /\ Cardinality(Loose(r)) \in Nat
  BY <1>4, FS_CardinalityType
<1>6. Packets * Cardinality(r.queue) \in Nat
  BY <1>5, SizesAreNat
<1>. QED BY <1>4, <1>5, <1>6 DEF PoolUsed

\* r with other frames in assembly, and other ones evicted, has the storage of
\* r left if it stores no more.
LEMMA RxAgain ==
    ASSUME NEW r, RxOK(r), NEW t, NEW S \in SUBSET Made, t.partial \in [S -> SUBSET Index],
           t = [r EXCEPT !.partial = t.partial, !.abandoned = t.abandoned],
           t.abandoned \in Seq(Made),
           PoolUsed(t) <= PoolSlots, Cardinality(S) + Cardinality(t.queue) <= FrameSlots
    PROVE  /\ RxOK(t) /\ t.queue = r.queue /\ t.expected = r.expected
           /\ t.completed = r.completed
<1>1. /\ t \in [partial : {t.partial}, completed : {t.completed}, abandoned : Seq(Made),
                queue : SUBSET Made, expected : 1 .. Encoded \cup {None}]
      /\ t.queue = r.queue /\ t.expected = r.expected /\ t.completed = r.completed
  BY DEF RxOK
<1>2. DOMAIN t.partial = S
  OBVIOUS
<1>. QED BY <1>1, <1>2 DEF RxOK

\* Evicting a frame frees its slot and what it stored.
LEMMA EvictedFrees ==
    ASSUME NEW r, RxOK(r), NEW keep, CanEvict(r, keep)
    PROVE  LET t == Evicted(r, keep) IN
           /\ RxOK(t) /\ t.queue = r.queue /\ t.expected = r.expected
           /\ t.completed = r.completed
           /\ PoolUsed(t) <= PoolUsed(r)
           /\ DOMAIN t.partial \subseteq DOMAIN r.partial
           /\ Cardinality(DOMAIN t.partial) = Cardinality(DOMAIN r.partial) - 1
           /\ DOMAIN r.partial \cap keep \subseteq DOMAIN t.partial
           /\ \A f \in DOMAIN t.partial : t.partial[f] = r.partial[f]
<1>. DEFINE f == Oldest(DOMAIN r.partial \ keep)
            t == Evicted(r, keep)
            S == DOMAIN r.partial \ {f}
            a == IF Len(r.abandoned) < AbandonLog THEN Append(r.abandoned, f) ELSE r.abandoned
<1>1. f \in DOMAIN r.partial /\ f \notin keep
  BY OldestOfSet DEF CanEvict
<1>2. f \in Made /\ r.abandoned \in Seq(Made) /\ S \in SUBSET Made
  BY <1>1 DEF RxOK
<1>3. a \in Seq(Made)
  BY <1>2
<1>4. t = [r EXCEPT !.partial = [g \in S |-> r.partial[g]], !.abandoned = a]
  BY Zenon DEF Evicted, Drop
<1>. HIDE DEF a, t, f
<1>5. /\ t.partial = [g \in S |-> r.partial[g]] /\ t.abandoned = a
      /\ t.queue = r.queue
  BY <1>4 DEF RxOK
<1>6. t.partial \in [S -> SUBSET Index] /\ DOMAIN t.partial = S
  BY <1>5 DEF RxOK
<1>7. Loose(t) \subseteq Loose(r)
  BY <1>5 DEF Loose
<1>8. /\ IsFiniteSet(DOMAIN r.partial) /\ Cardinality(DOMAIN r.partial) \in Nat
      /\ Cardinality(r.queue) \in Nat /\ IsFiniteSet(Loose(r))
      /\ Packets * Cardinality(r.queue) \in Nat /\ Cardinality(Loose(r)) \in Nat
  BY StoredIsFinite DEF RxOK
<1>9. Cardinality(S) = Cardinality(DOMAIN r.partial) - 1
  BY <1>1, <1>8, FS_RemoveElement
<1>10. Cardinality(Loose(t)) <= Cardinality(Loose(r)) /\ Cardinality(Loose(t)) \in Nat
  BY <1>7, <1>8, FS_Subset, FS_CardinalityType
<1>11. PoolUsed(t) <= PoolUsed(r)
  BY <1>5, <1>8, <1>10 DEF PoolUsed
<1>12. PoolUsed(t) \in Nat /\ PoolUsed(r) \in Nat /\ PoolUsed(r) <= PoolSlots
  BY <1>2, <1>5, <1>6, StoredIsFinite DEF RxOK
<1>13. PoolUsed(t) <= PoolSlots
  BY <1>11, <1>12, SizesAreNat
<1>14. Cardinality(S) + Cardinality(t.queue) <= FrameSlots
  BY <1>5, <1>8, <1>9, SizesAreNat DEF RxOK
<1>15. t = [r EXCEPT !.partial = t.partial, !.abandoned = t.abandoned]
  BY <1>4, <1>5
<1>16. RxOK(t) /\ t.expected = r.expected /\ t.completed = r.completed
  BY <1>2, <1>3, <1>5, <1>6, <1>13, <1>14, <1>15, RxAgain
<1>. QED BY <1>1, <1>5, <1>6, <1>9, <1>11, <1>16 DEF t

\* slot_for gives the frame a slot or leaves everything as it is.
LEMMA WithSlotKeeps ==
    ASSUME NEW r, RxOK(r), NEW f \in Made
    PROVE  LET t == WithSlot(r, f) IN
           /\ RxOK(t) /\ t.queue = r.queue /\ t.expected = r.expected
           /\ t.completed = r.completed
<1>1. CASE f \in DOMAIN r.partial \/ (SlotsFull(r) /\ ~CanEvict(r, {}))
  BY <1>1, Zenon DEF WithSlot
<1>2. ASSUME NEW s, RxOK(s), f \notin DOMAIN s.partial, ~SlotsFull(s)
      PROVE  LET t == [s EXCEPT !.partial =
                        [g \in DOMAIN @ \cup {f} |-> IF g = f THEN {} ELSE @[g]]] IN
             /\ RxOK(t) /\ t.queue = s.queue /\ t.expected = s.expected
             /\ t.completed = s.completed
  <2>. DEFINE S == DOMAIN s.partial \cup {f}
              p == [g \in S |-> IF g = f THEN {} ELSE s.partial[g]]
              t == [s EXCEPT !.partial = p]
  <2>2. [s EXCEPT !.partial = [g \in DOMAIN @ \cup {f} |-> IF g = f THEN {} ELSE @[g]]] = t
    BY Zenon
  <2>3. S \in SUBSET Made /\ p \in [S -> SUBSET Index]
    BY <1>2 DEF RxOK
  <2>. HIDE DEF p, t
  <2>4. t.partial = p /\ t.queue = s.queue /\ t.abandoned = s.abandoned
    BY <1>2 DEF RxOK, t
  <2>5. Loose(t) = Loose(s)
    <3>1. \A g \in S : p[g] = IF g = f THEN {} ELSE s.partial[g]
      BY DEF p
    <3>2. DOMAIN t.partial = S /\ DOMAIN p = S
      BY <2>4 DEF p
    <3>. QED BY <1>2, <2>4, <3>1, <3>2 DEF Loose
  <2>6. /\ IsFiniteSet(DOMAIN s.partial) /\ Cardinality(DOMAIN s.partial) \in Nat
        /\ Cardinality(s.queue) \in Nat
    BY <1>2, StoredIsFinite DEF RxOK
  <2>7. Cardinality(S) = Cardinality(DOMAIN s.partial) + 1
    BY <1>2, <2>6, FS_AddElement
  <2>8. Cardinality(S) + Cardinality(t.queue) <= FrameSlots
    BY <1>2, <2>4, <2>6, <2>7, SizesAreNat DEF SlotsFull
  <2>9. PoolUsed(t) <= PoolSlots
    BY <1>2, <2>4, <2>5 DEF PoolUsed, RxOK
  <2>10. t = [s EXCEPT !.partial = t.partial, !.abandoned = t.abandoned]
    BY <1>2, <2>4 DEF t, RxOK
  <2>11. t.abandoned \in Seq(Made)
    BY <1>2, <2>4 DEF RxOK
  <2>12. RxOK(t) /\ t.queue = s.queue /\ t.expected = s.expected /\ t.completed = s.completed
    BY <1>2, <2>3, <2>4, <2>8, <2>9, <2>10, <2>11, RxAgain
  <2>. QED BY <2>2, <2>12
<1>3. CASE f \notin DOMAIN r.partial /\ ~SlotsFull(r)
  <2>1. WithSlot(r, f) = [r EXCEPT !.partial = [g \in DOMAIN @ \cup {f} |->
          IF g = f THEN {} ELSE @[g]]]
    BY <1>3, Zenon DEF WithSlot
  <2>. QED BY <1>2, <1>3, <2>1
<1>4. CASE f \notin DOMAIN r.partial /\ SlotsFull(r) /\ CanEvict(r, {})
  <2>. DEFINE s == Evicted(r, {})
  <2>1. WithSlot(r, f) = [s EXCEPT !.partial = [g \in DOMAIN @ \cup {f} |->
          IF g = f THEN {} ELSE @[g]]]
    BY <1>4, Zenon DEF WithSlot
  <2>2. /\ RxOK(s) /\ s.queue = r.queue /\ s.expected = r.expected
        /\ s.completed = r.completed /\ DOMAIN s.partial \subseteq DOMAIN r.partial
        /\ Cardinality(DOMAIN s.partial) = Cardinality(DOMAIN r.partial) - 1
    BY <1>4, EvictedFrees
  <2>. HIDE DEF s
  <2>3. Cardinality(DOMAIN r.partial) \in Nat /\ Cardinality(r.queue) \in Nat
    BY StoredIsFinite DEF RxOK
  <2>4. Cardinality(DOMAIN r.partial) + Cardinality(r.queue) <= FrameSlots
    BY DEF RxOK
  <2>5. ~SlotsFull(s)
    BY <2>2, <2>3, <2>4, SizesAreNat DEF SlotsFull
  <2>6. f \notin DOMAIN s.partial
    BY <1>4, <2>2
  <2>. QED BY <1>2, <2>1, <2>2, <2>5, <2>6
<1>. QED BY <1>1, <1>3, <1>4

\* Storage for a packet of f comes from the free, or from another frame.
LEMMA WithRoomKeeps ==
    ASSUME NEW r, RxOK(r), NEW f \in DOMAIN r.partial
    PROVE  LET t == WithRoom(r, f) IN
           /\ RxOK(t) /\ t.queue = r.queue /\ t.expected = r.expected
           /\ t.completed = r.completed /\ f \in DOMAIN t.partial
<1>1. CASE PoolFull(r) /\ CanEvict(r, {f})
  BY <1>1, EvictedFrees DEF WithRoom
<1>2. CASE ~(PoolFull(r) /\ CanEvict(r, {f}))
  BY <1>2, Zenon DEF WithRoom
<1>. QED BY <1>1, <1>2

LEMMA AtMostOneMore ==
    ASSUME NEW S, NEW x, IsFiniteSet(S)
    PROVE  IsFiniteSet(S \cup {x}) /\ Cardinality(S \cup {x}) <= Cardinality(S) + 1
<1>1. /\ IsFiniteSet(S \cup {x})
      /\ Cardinality(S \cup {x}) = IF x \in S THEN Cardinality(S) ELSE Cardinality(S) + 1
  BY FS_AddElement, Zenon
<1>2. Cardinality(S) \in Nat
  BY FS_CardinalityType
<1>. QED BY <1>1, <1>2

\* A packet is stored only where there is room for it.
LEMMA StoredKeeps ==
    ASSUME NEW r, RxOK(r), NEW f \in Made, NEW p \in Index
    PROVE  LET t == Stored(r, f, p) IN
           /\ RxOK(t) /\ t.queue = r.queue /\ t.expected = r.expected
           /\ t.completed = r.completed
<1>. DEFINE s == WithSlot(r, f)
            t == WithRoom(s, f)
            u == [t EXCEPT !.partial[f] = @ \cup {p}]
<1>1. /\ RxOK(s) /\ s.queue = r.queue /\ s.expected = r.expected
      /\ s.completed = r.completed
  BY WithSlotKeeps
<1>2. f \in DOMAIN s.partial =>
         /\ RxOK(t) /\ t.queue = r.queue /\ t.expected = r.expected
         /\ t.completed = r.completed /\ f \in DOMAIN t.partial
  <2>. HIDE DEF s
  <2>. QED BY <1>1, WithRoomKeeps
<1>3. CASE f \notin DOMAIN s.partial \/ p \in s.partial[f]
  <2>1. Stored(r, f, p) = s
    BY <1>3, Zenon DEF Stored
  <2>. QED BY <1>1, <2>1
<1>4. CASE f \in DOMAIN s.partial /\ p \notin s.partial[f] /\ PoolFull(t)
  <2>1. Stored(r, f, p) = t
    BY <1>4, Zenon DEF Stored
  <2>. QED BY <1>2, <1>4, <2>1
<1>5. CASE f \in DOMAIN s.partial /\ p \notin s.partial[f] /\ ~PoolFull(t)
  <2>1. Stored(r, f, p) = u
    BY <1>5, Zenon DEF Stored
  <2>2. /\ RxOK(t) /\ t.queue = r.queue /\ t.expected = r.expected
        /\ t.completed = r.completed /\ f \in DOMAIN t.partial /\ ~PoolFull(t)
    BY <1>2, <1>5
  <2>. HIDE DEF s, t
  <2>. DEFINE S == DOMAIN t.partial
              q == [g \in S |-> IF g = f THEN t.partial[g] \cup {p} ELSE t.partial[g]]
  <2>3. u = [t EXCEPT !.partial = q]
    <3>1. [t.partial EXCEPT ![f] = @ \cup {p}] = q
      BY <2>2 DEF RxOK
    <3>. QED BY <3>1
  <2>4. q \in [S -> SUBSET Index] /\ S \in SUBSET Made
    BY <2>2 DEF RxOK
  <2>. HIDE DEF q, u
  <2>5. u.partial = q /\ u.queue = t.queue /\ u.abandoned = t.abandoned
    BY <2>2, <2>3 DEF RxOK
  <2>6. Loose(u) \subseteq Loose(t) \cup {<<f, p>>}
    BY <2>5 DEF Loose, q
  <2>7. /\ IsFiniteSet(Loose(t)) /\ Cardinality(Loose(t)) \in Nat
        /\ Packets * Cardinality(t.queue) \in Nat
    BY <2>2, StoredIsFinite DEF RxOK
  <2>8. /\ IsFiniteSet(Loose(t) \cup {<<f, p>>})
        /\ Cardinality(Loose(t) \cup {<<f, p>>}) <= Cardinality(Loose(t)) + 1
    BY <2>7, AtMostOneMore
  <2>9. Cardinality(Loose(u)) <= Cardinality(Loose(t) \cup {<<f, p>>})
    BY <2>6, <2>8, FS_Subset
  <2>10. Cardinality(Loose(u)) \in Nat /\ Cardinality(Loose(t) \cup {<<f, p>>}) \in Nat
    BY <2>6, <2>8, FS_Subset, FS_CardinalityType
  <2>11. PoolUsed(u) <= PoolUsed(t) + 1
    BY <2>5, <2>7, <2>8, <2>9, <2>10 DEF PoolUsed
  <2>12. PoolUsed(t) < PoolSlots /\ PoolUsed(t) \in Nat /\ PoolUsed(u) \in Nat
    BY <2>2, <2>5, <2>7, <2>10, SizesAreNat DEF PoolFull, PoolUsed
  <2>13. PoolUsed(u) <= PoolSlots
    BY <2>11, <2>12, SizesAreNat
  <2>14. Cardinality(S) + Cardinality(u.queue) <= FrameSlots
    BY <2>2, <2>5 DEF RxOK
  <2>15. u = [t EXCEPT !.partial = u.partial, !.abandoned = u.abandoned]
    BY <2>2, <2>3, <2>5 DEF RxOK
  <2>16. u.partial \in [S -> SUBSET Index] /\ u.abandoned \in Seq(Made)
    BY <2>2, <2>4, <2>5 DEF RxOK
  <2>17. RxOK(u) /\ u.queue = t.queue /\ u.expected = t.expected /\ u.completed = t.completed
    BY <2>2, <2>4, <2>13, <2>14, <2>15, <2>16, RxAgain
  <2>. QED BY <2>1, <2>2, <2>17
<1>. QED BY <1>3, <1>4, <1>5

\* The record with other contents that fit its storage.
LEMMA RxWith ==
    ASSUME NEW r, RxOK(r), NEW t,
           t = [r EXCEPT !.partial = t.partial, !.completed = t.completed,
                         !.queue = t.queue, !.expected = t.expected],
           t.partial \in [DOMAIN t.partial -> SUBSET Index], DOMAIN t.partial \in SUBSET Made,
           t.queue \in SUBSET Made, t.expected \in 1 .. Encoded \cup {None},
           \A f \in t.queue : t.expected <= f, PoolUsed(t) <= PoolSlots,
           Cardinality(DOMAIN t.partial) + Cardinality(t.queue) <= FrameSlots
    PROVE  RxOK(t)
<1>1. t \in [partial : {t.partial}, completed : {t.completed}, abandoned : Seq(Made),
             queue : SUBSET Made, expected : 1 .. Encoded \cup {None}]
  BY DEF RxOK
<1>. QED BY <1>1 DEF RxOK

\* Fewer frames in assembly take no more storage.
LEMMA DropFrees ==
    ASSUME NEW r, RxOK(r), NEW S, NEW t, t.partial = Drop(r.partial, S)
    PROVE  /\ DOMAIN t.partial = DOMAIN r.partial \ S /\ DOMAIN t.partial \in SUBSET Made
           /\ t.partial \in [DOMAIN t.partial -> SUBSET Index]
           /\ Loose(t) = {fp \in Loose(r) : fp[1] \notin S}
           /\ IsFiniteSet(Loose(t)) /\ Cardinality(Loose(t)) \in Nat
           /\ Cardinality(Loose(t)) <= Cardinality(Loose(r))
           /\ Cardinality(DOMAIN t.partial) <= Cardinality(DOMAIN r.partial)
           /\ Cardinality(DOMAIN t.partial) \in Nat
<1>1. t.partial = [f \in DOMAIN r.partial \ S |-> r.partial[f]]
  BY DEF Drop
<1>2. /\ DOMAIN t.partial = DOMAIN r.partial \ S /\ DOMAIN t.partial \in SUBSET Made
      /\ t.partial \in [DOMAIN t.partial -> SUBSET Index]
  BY <1>1 DEF RxOK
<1>3. Loose(t) = {fp \in Loose(r) : fp[1] \notin S}
  <2>1. ASSUME NEW fp PROVE fp \in Loose(t) <=> fp \in Loose(r) /\ fp[1] \notin S
    BY <1>1 DEF Loose
  <2>. QED BY <2>1
<1>4. IsFiniteSet(Loose(r)) /\ IsFiniteSet(DOMAIN r.partial)
  BY StoredIsFinite DEF RxOK
<1>. QED BY <1>2, <1>3, <1>4, FS_Subset, FS_CardinalityType

\* A frame that is complete passes to the queue with its storage, or is refused
\* and gives it back; and none is taken that is behind the one expected.
LEMMA EnqueuedKeeps ==
    ASSUME NEW r, RxOK(r), NEW f \in Made, Encoded - f <= MaxLag, IsComplete(r, f)
    PROVE  LET t == Enqueued(Completed(r, f), f) IN
           /\ RxOK(t) /\ t.expected = r.expected /\ t.queue \subseteq r.queue \cup {f}
<1>. DEFINE d == Completed(r, f)
            c == IF r.completed # None /\ Newer(r.completed, f) THEN r.completed ELSE f
            p == Drop(r.partial, {f})
            S == DOMAIN p
            q == r.queue \cup {f}
            u == [d EXCEPT !.queue = @ \cup {f}]
<1>1. d = [r EXCEPT !.partial = p, !.completed = c]
  BY Zenon DEF Completed
<1>. HIDE DEF d, c, p
<1>2. /\ d.partial = p /\ d.queue = r.queue /\ d.expected = r.expected
      /\ r.queue \in SUBSET Made /\ r.expected \in 1 .. Encoded \cup {None}
      /\ \A g \in r.queue : r.expected <= g
      /\ d = [r EXCEPT !.partial = p, !.completed = c, !.queue = r.queue,
                       !.expected = r.expected]
      /\ u = [r EXCEPT !.partial = p, !.completed = c, !.queue = q,
                       !.expected = r.expected]
      /\ u.partial = p /\ u.queue = q
  BY <1>1 DEF RxOK
<1>3. /\ S = DOMAIN r.partial \ {f} /\ S \in SUBSET Made /\ p \in [S -> SUBSET Index]
      /\ Loose(d) = {fp \in Loose(r) : fp[1] \notin {f}}
      /\ IsFiniteSet(Loose(d)) /\ Cardinality(Loose(d)) \in Nat
      /\ Cardinality(Loose(d)) <= Cardinality(Loose(r))
      /\ Cardinality(S) <= Cardinality(DOMAIN r.partial)
      /\ Cardinality(S) \in Nat
  <2>1. d.partial = Drop(r.partial, {f})
    BY <1>2 DEF p
  <2>2. /\ DOMAIN d.partial = DOMAIN r.partial \ {f} /\ DOMAIN d.partial \in SUBSET Made
        /\ d.partial \in [DOMAIN d.partial -> SUBSET Index]
        /\ Loose(d) = {fp \in Loose(r) : fp[1] \notin {f}}
        /\ IsFiniteSet(Loose(d)) /\ Cardinality(Loose(d)) \in Nat
        /\ Cardinality(Loose(d)) <= Cardinality(Loose(r))
        /\ Cardinality(DOMAIN d.partial) <= Cardinality(DOMAIN r.partial)
        /\ Cardinality(DOMAIN d.partial) \in Nat
    BY <2>1, DropFrees
  <2>. QED BY <1>2, <2>2
<1>4. /\ IsFiniteSet(DOMAIN r.partial) /\ Cardinality(DOMAIN r.partial) \in Nat
      /\ IsFiniteSet(r.queue) /\ Cardinality(r.queue) \in Nat
      /\ IsFiniteSet(Loose(r)) /\ Cardinality(Loose(r)) \in Nat
      /\ Packets * Cardinality(r.queue) \in Nat /\ PoolUsed(r) \in Nat
  BY StoredIsFinite DEF RxOK
<1>5. /\ PoolUsed(r) <= PoolSlots
      /\ Cardinality(DOMAIN r.partial) + Cardinality(r.queue) <= FrameSlots
  BY DEF RxOK
<1>6. RxOK(d) /\ d.queue = r.queue
  <2>1. PoolUsed(d) <= PoolSlots
    BY <1>2, <1>3, <1>4, <1>5, SizesAreNat DEF PoolUsed
  <2>2. Cardinality(S) + Cardinality(r.queue) <= FrameSlots
    BY <1>3, <1>4, <1>5, SizesAreNat
  <2>3. d = [r EXCEPT !.partial = d.partial, !.completed = d.completed,
                      !.queue = d.queue, !.expected = d.expected]
    BY <1>1, <1>2 DEF RxOK
  <2>4. /\ d.partial \in [DOMAIN d.partial -> SUBSET Index] /\ DOMAIN d.partial \in SUBSET Made
        /\ d.queue \in SUBSET Made /\ d.expected \in 1 .. Encoded \cup {None}
        /\ \A g \in d.queue : d.expected <= g
        /\ Cardinality(DOMAIN d.partial) + Cardinality(d.queue) <= FrameSlots
    BY <1>2, <1>3, <2>2
  <2>. QED BY <1>2, <2>1, <2>3, <2>4, RxWith
<1>7. CASE Refuses(d, f)
  <2>1. Enqueued(d, f) = d
    BY <1>7 DEF Enqueued
  <2>. QED BY <1>2, <1>6, <2>1 DEF d
<1>8. CASE ~Refuses(d, f)
  <2>1. Enqueued(d, f) = u
    BY <1>8 DEF Enqueued
  <2>2. r.expected <= f
    <3>1. CASE r.expected = None
      BY <3>1, NoneIsNoFrame DEF Made
    <3>2. CASE r.expected # None
      <4>1. ~Newer(r.expected, f)
        BY <1>2, <1>8, <3>2 DEF Refuses
      <4>2. r.expected \in 1 .. Encoded /\ f \in Nat
        BY <1>2, <3>2 DEF Made
      <4>3. r.expected - f <= MaxLag /\ MaxLag \in Nat /\ MaxLag < Half
        BY <4>2, SizesAreNat, LagAssumption, VideoBounds
      <4>4. CASE f < r.expected
        <5>1. r.expected - f < Half /\ f - r.expected < Half
          BY <4>2, <4>3, <4>4, SizesAreNat
        <5>. QED BY <4>1, <4>2, <4>4, <5>1, NewerIsLater
      <4>. QED BY <4>2, <4>4
    <3>. QED BY <3>1, <3>2
  <2>3. f \notin r.queue
    BY <1>2, <1>8 DEF Refuses
  <2>4. Cardinality(q) = Cardinality(r.queue) + 1
    BY <1>4, <2>3, FS_AddElement
  <2>5. f \in DOMAIN r.partial /\ r.partial[f] = Index
    BY DEF IsComplete
  <2>6. Cardinality(S) = Cardinality(DOMAIN r.partial) - 1
    BY <1>3, <1>4, <2>5, FS_RemoveElement
  <2>7. Cardinality(Loose(d)) + Packets = Cardinality(Loose(r))
    <3>. DEFINE T == {f} \X Index
    <3>1. T \subseteq Loose(r) /\ Loose(d) = Loose(r) \ T
      <4>1. \A g \in DOMAIN r.partial : r.partial[g] \in SUBSET Index
        BY DEF RxOK
      <4>. QED BY <1>3, <2>5, <4>1 DEF Loose
    <3>2. Cardinality({f}) = 1 /\ IsFiniteSet({f})
      BY FS_Singleton
    <3>3. Cardinality(T) = 1 * Packets
      BY <3>2, FS_Product, FrameAssemblyAssumption DEF Packets
    <3>4. Cardinality(T) = Packets
      BY <3>3, SizesAreNat
    <3>5. Loose(r) \cap T = T
      BY <3>1
    <3>. HIDE DEF T
    <3>6. Cardinality(Loose(r) \ T) = Cardinality(Loose(r)) - Cardinality(Loose(r) \cap T)
      BY <1>4, FS_Difference
    <3>7. Cardinality(Loose(d)) = Cardinality(Loose(r)) - Cardinality(T)
      BY <3>1, <3>5, <3>6
    <3>. QED BY <1>4, <3>4, <3>7, SizesAreNat
  <2>8. Packets * (Cardinality(r.queue) + 1) = Packets * Cardinality(r.queue) + Packets
    BY <1>4, SizesAreNat
  <2>9. Loose(u) = Loose(d)
    BY <1>2 DEF Loose
  <2>10. PoolUsed(u) = PoolUsed(r)
    <3>1. PoolUsed(u) = Packets * (Cardinality(r.queue) + 1) + Cardinality(Loose(d))
      BY <1>2, <2>4, <2>9 DEF PoolUsed
    <3>. HIDE DEF u
    <3>. QED BY <1>3, <1>4, <2>7, <2>8, <3>1, SizesAreNat DEF PoolUsed
  <2>11. Cardinality(S) + Cardinality(q) <= FrameSlots
    BY <1>3, <1>4, <1>5, <2>4, <2>6, SizesAreNat
  <2>12. q \in SUBSET Made /\ \A g \in q : r.expected <= g
    BY <1>2, <2>2
  <2>13. PoolUsed(u) <= PoolSlots
    BY <1>5, <2>10
  <2>14. u = [r EXCEPT !.partial = p, !.completed = c, !.queue = q, !.expected = r.expected]
    BY <1>2
  <2>. HIDE DEF u, q
  <2>15. u.completed = c /\ u.queue = q /\ u.partial = p /\ u.expected = r.expected
    BY <1>2, <2>14 DEF RxOK
  <2>16. RxOK(u)
    <3>1. /\ u.partial \in [DOMAIN u.partial -> SUBSET Index] /\ DOMAIN u.partial \in SUBSET Made
          /\ u.queue \in SUBSET Made /\ u.expected \in 1 .. Encoded \cup {None}
          /\ \A g \in u.queue : u.expected <= g
          /\ Cardinality(DOMAIN u.partial) + Cardinality(u.queue) <= FrameSlots
      BY <1>2, <1>3, <2>11, <2>12, <2>15
    <3>2. u = [r EXCEPT !.partial = u.partial, !.completed = u.completed,
                        !.queue = u.queue, !.expected = u.expected]
      BY <2>14, <2>15
    <3>. QED BY <2>13, <3>1, <3>2, RxWith
  <2>. QED BY <2>1, <2>15, <2>16 DEF d, q
<1>. QED BY <1>7, <1>8

\* The frame loop's receive of one packet.
LEMMA HeardKeeps ==
    ASSUME NEW r, RxOK(r), NEW f \in Made, Encoded - f <= MaxLag, NEW p \in Index
    PROVE  LET t == Heard(r, f, p) IN RxOK(t) /\ t.expected = r.expected
<1>. DEFINE g == Stored(r, f, p)
<1>1. RxOK(g) /\ g.expected = r.expected
  BY StoredKeeps
<1>2. CASE Stale(r, f)
  BY <1>2, Zenon DEF Heard
<1>3. CASE ~Stale(r, f) /\ IsComplete(g, f)
  <2>1. Heard(r, f, p) = Enqueued(Completed(g, f), f)
    BY <1>3, Zenon DEF Heard
  <2>. HIDE DEF g
  <2>. QED BY <1>1, <1>3, <2>1, EnqueuedKeeps
<1>4. CASE ~Stale(r, f) /\ ~IsComplete(g, f)
  <2>1. Heard(r, f, p) = g
    BY <1>4, Zenon DEF Heard
  <2>. QED BY <1>1, <2>1
<1>. QED BY <1>2, <1>3, <1>4

\* A frame that is released leaves its storage, and those it steps over theirs.
LEMMA PoppedKeeps ==
    ASSUME NEW r, RxOK(r), NEW f \in r.queue, \A g \in r.queue : f <= g
    PROVE  LET t == Popped(r, f) IN
           /\ RxOK(t) /\ t.queue = r.queue \ {f} /\ t.expected = f + 1
           /\ Cardinality(t.queue) = Cardinality(r.queue) - 1
<1>. DEFINE O == SteppedOver(r, f)
            p == Drop(r.partial, O)
            S == DOMAIN p
            q == r.queue \ {f}
            t == Popped(r, f)
<1>1. t = [r EXCEPT !.queue = q, !.expected = f + 1, !.partial = p]
  BY Zenon DEF Popped
<1>. HIDE DEF t, p, O
<1>2. /\ t = [r EXCEPT !.partial = p, !.completed = r.completed, !.queue = q,
                       !.expected = f + 1]
      /\ t.partial = p /\ t.queue = q /\ q \in SUBSET Made /\ f \in Made
  BY <1>1 DEF RxOK
<1>3. /\ S \in SUBSET Made /\ p \in [S -> SUBSET Index]
      /\ Cardinality(Loose(t)) \in Nat /\ Cardinality(Loose(t)) <= Cardinality(Loose(r))
      /\ Cardinality(S) <= Cardinality(DOMAIN r.partial) /\ Cardinality(S) \in Nat
  <2>1. t.partial = Drop(r.partial, O)
    BY <1>2 DEF p
  <2>2. /\ DOMAIN t.partial \in SUBSET Made
        /\ t.partial \in [DOMAIN t.partial -> SUBSET Index]
        /\ Cardinality(Loose(t)) \in Nat
        /\ Cardinality(Loose(t)) <= Cardinality(Loose(r))
        /\ Cardinality(DOMAIN t.partial) <= Cardinality(DOMAIN r.partial)
        /\ Cardinality(DOMAIN t.partial) \in Nat
    BY <2>1, DropFrees
  <2>. QED BY <1>2, <2>2
<1>4. /\ IsFiniteSet(r.queue) /\ Cardinality(r.queue) \in Nat
      /\ Cardinality(Loose(r)) \in Nat /\ Cardinality(DOMAIN r.partial) \in Nat
      /\ Packets * Cardinality(r.queue) \in Nat
  BY StoredIsFinite DEF RxOK
<1>5. Cardinality(q) = Cardinality(r.queue) - 1 /\ Cardinality(q) \in Nat
  BY <1>4, FS_RemoveElement, FS_CardinalityType
<1>6. Packets * Cardinality(q) <= Packets * Cardinality(r.queue)
      /\ Packets * Cardinality(q) \in Nat
  <2>1. Packets * (Cardinality(r.queue) - 1) = Packets * Cardinality(r.queue) - Packets
    BY <1>4, SizesAreNat
  <2>2. Packets * Cardinality(q) \in Nat
    BY <1>5, SizesAreNat
  <2>. QED BY <1>4, <1>5, <2>1, <2>2, SizesAreNat
<1>7. /\ PoolUsed(r) <= PoolSlots
      /\ Cardinality(DOMAIN r.partial) + Cardinality(r.queue) <= FrameSlots
  BY DEF RxOK
<1>8. PoolUsed(t) <= PoolSlots
  BY <1>2, <1>3, <1>4, <1>6, <1>7, SizesAreNat DEF PoolUsed
<1>9. Cardinality(S) + Cardinality(q) <= FrameSlots
  BY <1>3, <1>4, <1>5, <1>7, SizesAreNat
<1>10. f + 1 \in 1 .. Encoded \cup {None} /\ \A g \in q : f + 1 <= g
  BY <1>2, SizesAreNat DEF Made
<1>11. /\ t.expected = f + 1
       /\ t = [r EXCEPT !.partial = t.partial, !.completed = t.completed,
                        !.queue = t.queue, !.expected = t.expected]
  BY <1>2 DEF RxOK
<1>. HIDE DEF q
<1>12. RxOK(t)
  <2>1. /\ t.partial \in [DOMAIN t.partial -> SUBSET Index] /\ DOMAIN t.partial \in SUBSET Made
        /\ t.queue \in SUBSET Made /\ t.expected \in 1 .. Encoded \cup {None}
        /\ \A g \in t.queue : t.expected <= g
        /\ Cardinality(DOMAIN t.partial) + Cardinality(t.queue) <= FrameSlots
    BY <1>2, <1>3, <1>9, <1>10, <1>11
  <2>. QED BY <1>8, <1>11, <2>1, RxWith
<1>. QED BY <1>2, <1>5, <1>11, <1>12 DEF t, q

-----------------------------------------------------------------------------
(* The frame loop.                                                         *)

LEMMA CoveredMore ==
    ASSUME NEW l, NEW k, l \subseteq k, NEW f, NEW g, Covered(l, f, g)
    PROVE  Covered(k, f, g)
BY DEF Covered

\* A frame that steps over no more than is covered, or reports the first of it.
LEMMA CoveredOver ==
    ASSUME NEW f \in Int, NEW e \in Int, NEW g \in Int, f < e, e <= g,
           NEW k, Covered(k, f, e), e < g => e \in k
    PROVE  Covered(k, f, g)
<1>. SUFFICES ASSUME NEW n \in f + 1 .. g - 1 PROVE \E h \in k : f < h /\ h <= n
  BY DEF Covered
<1>1. CASE n < e
  BY <1>1 DEF Covered
<1>2. CASE n >= e
  BY <1>2
<1>. QED BY <1>1, <1>2

LEMMA FramesOfSeq ==
    ASSUME NEW s \in Seq(Made)
    PROVE  /\ Len(s) \in Nat /\ DOMAIN s = 1 .. Len(s)
           /\ \A i \in DOMAIN s : s[i] \in Made /\ s[i] \in Nat
<1>1. \A i \in DOMAIN s : s[i] \in Made
  OBVIOUS
<1>2. Made \subseteq Nat
  BY SizesAreNat DEF Made
<1>3. Len(s) \in Nat /\ DOMAIN s = 1 .. Len(s)
  OBVIOUS
<1>4. \A i \in DOMAIN s : s[i] \in Nat
  BY <1>1, <1>2
<1>. QED BY <1>1, <1>3, <1>4

LEMMA FedLater ==
    ASSUME NEW first, NEW e \in Int, NEW e2 \in Int, e <= e2, NEW fed, NEW l, NEW k,
           l \subseteq k, FedOK(first, e, fed, l)
    PROVE  FedOK(first, e2, fed, k)
<1>1. \A i \in DOMAIN fed : fed[i] \in Int
  BY FramesOfSeq DEF FedOK
<1>2. \A i \in DOMAIN fed : first <= fed[i] /\ fed[i] < e2
  BY <1>1 DEF FedOK
<1>3. ASSUME NEW i \in 2 .. Len(fed), Covered(l, fed[i - 1], fed[i])
      PROVE  Covered(k, fed[i - 1], fed[i])
  BY <1>3, CoveredMore
<1>. QED BY <1>2, <1>3 DEF FedOK

\* The decoder is fed one frame more, a keyframe or one all of whose gap has
\* been reported.
LEMMA FedMore ==
    ASSUME NEW first, NEW fed, NEW l, NEW f \in Made, FedOK(first, f, fed, l), first <= f,
           \/ IsKey(f)
           \/ /\ fed # <<>> /\ Covered(l, Last(fed), f)
              /\ ~refInvalidation => Last(fed) = f - 1,
           NEW t, t = Append(fed, f)
    PROVE  FedOK(first, f + 1, t, l) /\ t # <<>> /\ Last(t) = f
<1>. DEFINE n == Len(fed)
<1>1. fed \in Seq(Made) /\ n \in Nat /\ \A i \in 1 .. n : fed[i] \in Nat
  BY FramesOfSeq DEF FedOK
<1>2. /\ t \in Seq(Made) /\ Len(t) = n + 1 /\ t # <<>>
      /\ \A i \in 1 .. n : t[i] = fed[i]
      /\ t[n + 1] = f
  BY <1>1, Appended
<1>3. f \in Nat
  BY DEF Made
<1>4. \A i, j \in DOMAIN t : i < j => t[i] < t[j]
  BY <1>1, <1>2, <1>3 DEF FedOK
<1>5. \A i \in DOMAIN t : first <= t[i] /\ t[i] < f + 1
  BY <1>1, <1>2, <1>3 DEF FedOK
<1>6. IsKey(t[1])
  BY <1>1, <1>2 DEF FedOK
<1>7. ASSUME NEW i \in 2 .. Len(t)
      PROVE  \/ IsKey(t[i])
             \/ /\ Covered(l, t[i - 1], t[i])
                /\ ~refInvalidation => t[i - 1] = t[i] - 1
  <2>1. CASE i = n + 1
    <3>1. t[i] = f /\ t[i - 1] = Last(fed) /\ fed # <<>>
      BY <1>1, <1>2, <2>1 DEF Last
    <3>. QED BY <3>1
  <2>2. CASE i # n + 1
    <3>1. i \in 2 .. n /\ t[i] = fed[i] /\ t[i - 1] = fed[i - 1]
      BY <1>1, <1>2, <2>2
    <3>2. \/ IsKey(fed[i])
          \/ /\ Covered(l, fed[i - 1], fed[i])
             /\ ~refInvalidation => fed[i - 1] = fed[i] - 1
      BY <3>1 DEF FedOK
    <3>. QED BY <3>1, <3>2
  <2>. QED BY <2>1, <2>2
<1>8. Last(t) = f
  BY <1>2 DEF Last
<1>. QED BY <1>2, <1>4, <1>5, <1>6, <1>7, <1>8 DEF FedOK

\* A loss closes the gate unless references are invalidated.
LEMMA OnLossIfCloses ==
    ASSUME NEW g \in Gate, NEW lossy \in BOOLEAN
    PROVE  LET t == OnLossIf(lossy, g) IN
           /\ t \in Gate /\ t.first = g.first
           /\ t.open <=> g.open /\ (lossy => refInvalidation)
<1>1. CASE lossy /\ ~refInvalidation /\ g.open
  <2>1. OnLossIf(lossy, g) = [g EXCEPT !.open = FALSE, !.asks = FALSE]
    BY <1>1 DEF OnLossIf, OnLoss
  <2>. QED BY <1>1, <2>1 DEF Gate
<1>2. CASE lossy /\ ~refInvalidation /\ ~g.open
  <2>1. OnLossIf(lossy, g) = g
    BY <1>2 DEF OnLossIf, OnLoss
  <2>. QED BY <1>2, <2>1
<1>3. CASE ~(lossy /\ ~refInvalidation)
  <2>1. OnLossIf(lossy, g) = g
    BY <1>3 DEF OnLossIf
  <2>. QED BY <1>3, <2>1
<1>. QED BY <1>1, <1>2, <1>3

\* The released frame, and what is admitted of it.  With the gate open, a frame
\* of the build passes it.
LEMMA ReleasedKeeps ==
    ASSUME LogOK, BuildsOK,
           NEW st, NEW taken \in BOOLEAN,
           st \in [client : {st.client}, decoder : {st.decoder}, lost : SUBSET Made,
                   refusals : Nat],
           LoopOK(st.client, st.decoder, st.lost), Near(st.client),
           st.client.rx.queue # {}
    PROVE  LET t == Released(st, taken) IN
           /\ t \in [client : {t.client}, decoder : {t.decoder}, lost : SUBSET Made,
                     refusals : Nat]
           /\ LoopOK(t.client, t.decoder, t.lost) /\ Near(t.client)
           /\ Cardinality(t.client.rx.queue) = Cardinality(st.client.rx.queue) - 1
           /\ t.client.rx.queue \subseteq st.client.rx.queue
           /\ st.lost \subseteq t.lost
<1>. DEFINE c == st.client
            d == st.decoder
            rx == st.client.rx
            f == Oldest(st.client.rx.queue)
            steps == StepsOver(rx, f)
            gate == OnLossIf(steps, c.gate)
            admitted == Admits(gate, f)
            fed == admitted /\ taken
            refused == admitted /\ ~taken
            G == IF fed THEN OnFed(gate, f) ELSE OnLossIf(refused, gate)
            F == IF fed THEN f ELSE c.lastFed
            D == IF fed THEN [d EXCEPT !.fed = Append(@, f)] ELSE d
            L == st.lost \cup Reported(rx, f, refused)
            C == [c EXCEPT !.rx = Popped(rx, f), !.gate = G, !.lastFed = F]
            N == st.refusals + (IF refused THEN 1 ELSE 0)
            t == Released(st, taken)
<1>1. t = [client |-> C, decoder |-> D, lost |-> L, refusals |-> N]
  BY Zenon DEF Released
<1>. HIDE DEF t
<1>2. t.client = C /\ t.decoder = D /\ t.lost = L /\ t.refusals = N
  BY <1>1
<1>3. /\ c \in [rx : {rx}, gate : Gate, build : 1 .. Len(builds), lastFed : Made \cup {None}]
      /\ d \in [build : 1 .. c.build, fed : {d.fed}]
      /\ c.gate.first = builds[d.build].first
      /\ RxOK(rx) /\ FedOK(c.gate.first, rx.expected, d.fed, st.lost)
      /\ c.gate.open => OpenOK(rx.expected, d.fed, st.lost)
  BY DEF LoopOK
<1>4. rx.queue \subseteq Nat /\ rx.queue \in SUBSET Made /\ \A g \in rx.queue : g < Encoded
  BY <1>3, SizesAreNat DEF RxOK, Made
<1>5. \A g, h \in rx.queue : g - h < Half
  BY <1>4, SizesAreNat DEF Near
<1>6. f \in rx.queue /\ \A g \in rx.queue : f <= g
  BY <1>4, <1>5, OldestIsLeast
<1>. HIDE DEF f
<1>7. f \in Made /\ f \in Nat /\ f < Encoded /\ Encoded - f < Half /\ rx.expected <= f
  BY <1>3, <1>4, <1>6 DEF Near, RxOK
<1>8. rx.expected \in 1 .. Encoded \cup {None} /\ rx.expected \in Int
  BY <1>3, SizesAreNat, NoneIsNoFrame DEF RxOK
<1>9. steps \in BOOLEAN /\ (steps <=> rx.expected # None /\ rx.expected < f)
  <2>1. CASE rx.expected = None
    BY <2>1 DEF StepsOver
  <2>2. CASE rx.expected # None
    <3>1. f - rx.expected < Half /\ rx.expected - f < Half
      BY <1>7, <1>8, <2>2, SizesAreNat DEF Near
    <3>2. Newer(f, rx.expected) <=> rx.expected < f
      BY <1>7, <1>8, <3>1, NewerIsLater
    <3>. QED BY <2>2, <3>2 DEF StepsOver
  <2>. QED BY <2>1, <2>2
<1>10. Reported(rx, f, refused) = (IF steps THEN {rx.expected} ELSE {})
         \cup (IF refused THEN {f} ELSE {})
  BY Zenon DEF Reported
<1>11. L \subseteq Made /\ st.lost \subseteq L /\
         (steps => rx.expected \in L) /\ (refused => f \in L)
  <2>1. steps => rx.expected \in Made
    BY <1>7, <1>8, <1>9, SizesAreNat DEF Made
  <2>. HIDE DEF steps, refused
  <2>. QED BY <1>7, <1>10, <2>1
<1>12. /\ gate \in Gate /\ gate.first = c.gate.first
       /\ gate.open <=> c.gate.open /\ (steps => refInvalidation)
  BY <1>3, <1>9, OnLossIfCloses
<1>. HIDE DEF steps, gate
<1>13. c.gate.first \in Nat /\ c.gate.first <= Encoded /\ Encoded - c.gate.first < Half
  <2>1. d.build \in 1 .. Len(builds)
    BY <1>3 DEF BuildsOK
  <2>2. builds[d.build].first \in 0 .. Encoded
    BY <2>1, BuildFields
  <2>. QED BY <1>3, <2>2, SizesAreNat DEF Near
<1>14. Newer(gate.first, f) <=> f < gate.first
  <2>1. gate.first - f < Half /\ f - gate.first < Half /\ gate.first \in Int
    BY <1>7, <1>12, <1>13, SizesAreNat
  <2>. QED BY <1>7, <2>1, NewerIsLater
<1>15. admitted \in BOOLEAN /\ (admitted <=> gate.first <= f /\ (gate.open \/ IsKey(f)))
  BY <1>7, <1>12, <1>13, <1>14 DEF Admits
<1>16. c.gate.open => /\ d.fed # <<>> /\ Last(d.fed) \in Nat /\ c.gate.first <= Last(d.fed)
                      /\ Last(d.fed) < rx.expected /\ rx.expected # None
  <2>. SUFFICES ASSUME c.gate.open PROVE /\ d.fed # <<>> /\ Last(d.fed) \in Nat
                                         /\ c.gate.first <= Last(d.fed)
                                         /\ Last(d.fed) < rx.expected /\ rx.expected # None
    OBVIOUS
  <2>1. d.fed # <<>> /\ d.fed \in Seq(Made)
    BY <1>3 DEF OpenOK, FedOK
  <2>2. Len(d.fed) \in DOMAIN d.fed
    BY <2>1
  <2>3. d.fed[Len(d.fed)] \in Nat
    BY <2>1, <2>2, FramesOfSeq
  <2>. QED BY <1>3, <1>8, <2>1, <2>2, <2>3, NoneIsNoFrame DEF Last, FedOK
<1>17. gate.open => admitted
  BY <1>7, <1>8, <1>12, <1>13, <1>15, <1>16
<1>18. c.gate.open => Covered(L, Last(d.fed), f)
  <2>. SUFFICES ASSUME c.gate.open PROVE Covered(L, Last(d.fed), f)
    OBVIOUS
  <2>1. Covered(L, Last(d.fed), rx.expected)
    BY <1>3, <1>11, CoveredMore DEF OpenOK
  <2>2. rx.expected < f => rx.expected \in L
    BY <1>9, <1>11, <1>16
  <2>. HIDE DEF L
  <2>. QED BY <1>7, <1>8, <1>16, <2>1, <2>2, CoveredOver
<1>19. gate.open => /\ ~refInvalidation => Last(d.fed) = f - 1
  BY <1>3, <1>7, <1>8, <1>9, <1>12, <1>16 DEF OpenOK
<1>20. /\ RxOK(Popped(rx, f)) /\ Popped(rx, f).queue = rx.queue \ {f}
       /\ Popped(rx, f).expected = f + 1
       /\ Cardinality(Popped(rx, f).queue) = Cardinality(rx.queue) - 1
  BY <1>3, <1>6, PoppedKeeps
<1>21. IsKey(f) \in BOOLEAN
  BY <1>7, LogFields
<1>22. G \in Gate /\ G.first = c.gate.first
  <2>1. CASE fed
    <3>1. OnFed(gate, f) \in Gate /\ OnFed(gate, f).first = gate.first
      BY <1>12 DEF OnFed, Gate
    <3>. QED BY <1>12, <2>1, <3>1
  <2>2. CASE ~fed
    <3>1. refused \in BOOLEAN
      BY <1>15
    <3>2. OnLossIf(refused, gate) \in Gate /\ OnLossIf(refused, gate).first = gate.first
      BY <1>12, <3>1, OnLossIfCloses
    <3>. QED BY <1>12, <2>2, <3>2
  <2>. QED BY <2>1, <2>2
<1>23. /\ FedOK(c.gate.first, f + 1, D.fed, L)
       /\ G.open => OpenOK(f + 1, D.fed, L)
  <2>1. CASE fed
    <3>1. D.fed = Append(d.fed, f)
      BY <1>3, <2>1
    <3>2. c.gate.first <= f
      BY <1>12, <1>15, <2>1
    <3>3. \/ IsKey(f)
          \/ /\ d.fed # <<>> /\ Covered(L, Last(d.fed), f)
             /\ ~refInvalidation => Last(d.fed) = f - 1
      BY <1>12, <1>15, <1>16, <1>18, <1>19, <2>1
    <3>. HIDE DEF L
    <3>4. FedOK(c.gate.first, f + 1, D.fed, L) /\ D.fed # <<>> /\ Last(D.fed) = f
      <4>. DEFINE q == D.fed
      <4>1. FedOK(c.gate.first, f, d.fed, L)
        BY <1>3, <1>7, <1>8, <1>11, FedLater
      <4>2. q = Append(d.fed, f)
        BY <3>1
      <4>. HIDE DEF c, d, rx, q, D
      <4>3. f \in Made /\ c.gate.first <= f
        BY <1>7, <3>2
      <4>4. FedOK(c.gate.first, f + 1, q, L)
        BY <3>3, <4>1, <4>2, <4>3, FedMore
      <4>6. q # <<>>
        BY <3>3, <4>1, <4>2, <4>3, FedMore
      <4>5. Last(q) = f
        <5>1. d.fed \in Seq(Made)
          BY <4>1 DEF FedOK
        <5>. QED BY <4>2, <4>3, <5>1, Appended DEF Last
      <4>. QED BY <4>4, <4>5, <4>6 DEF q
    <3>5. Covered(L, f, f + 1)
      BY <1>7 DEF Covered
    <3>. QED BY <3>4, <3>5 DEF OpenOK
  <2>2. CASE ~fed
    <3>1. D.fed = d.fed
      BY <2>2
    <3>2. FedOK(c.gate.first, f + 1, d.fed, L)
      <4>. HIDE DEF L
      <4>. QED BY <1>3, <1>7, <1>8, <1>11, FedLater
    <3>3. ASSUME G.open PROVE OpenOK(f + 1, d.fed, L)
      <4>1. refused \in BOOLEAN /\ G = OnLossIf(refused, gate)
        BY <1>15, <2>2
      <4>2. gate.open /\ (refused => refInvalidation)
        <5>1. OnLossIf(refused, gate).open
          BY <3>3, <4>1
        <5>. HIDE DEF refused, G
        <5>. QED BY <1>12, <4>1, <5>1, OnLossIfCloses
      <4>3. refused /\ f \in L /\ refInvalidation
        BY <1>11, <1>15, <1>17, <2>2, <4>2
      <4>4. c.gate.open
        BY <1>12, <4>2
      <4>5. Covered(L, Last(d.fed), f + 1)
        <5>1. Covered(L, Last(d.fed), f) /\ f < f + 1 /\ Last(d.fed) < f
          BY <1>7, <1>8, <1>16, <1>18, <4>4
        <5>. HIDE DEF L
        <5>. QED BY <1>7, <1>16, <4>3, <4>4, <5>1, CoveredOver
      <4>. QED BY <1>16, <4>3, <4>4, <4>5 DEF OpenOK
    <3>. QED BY <3>1, <3>2, <3>3
  <2>. QED BY <2>1, <2>2
<1>24. F \in Made \cup {None}
  BY <1>3, <1>7
<1>25. D \in [build : 1 .. c.build, fed : {D.fed}] /\ D.build = d.build
  BY <1>3
<1>26. N \in Nat
  OBVIOUS
<1>. HIDE DEF G, F, D, L, N, fed, refused, admitted
<1>27. /\ C \in [rx : {C.rx}, gate : Gate, build : 1 .. Len(builds), lastFed : Made \cup {None}]
       /\ C.rx = Popped(rx, f) /\ C.gate = G /\ C.build = c.build
  BY <1>3, <1>22, <1>24
<1>. HIDE DEF C
<1>28. LoopOK(C, D, L)
  BY <1>3, <1>20, <1>22, <1>23, <1>25, <1>27 DEF LoopOK
<1>29. Near(C)
  <2>1. \A g \in C.rx.queue : Encoded - g < Half
    BY <1>20, <1>27 DEF Near
  <2>2. Encoded - C.rx.expected < Half
    BY <1>7, <1>20, <1>27, SizesAreNat
  <2>3. Encoded - C.gate.first < Half
    BY <1>13, <1>22, <1>27
  <2>. QED BY <2>1, <2>2, <2>3 DEF Near
<1>30. t \in [client : {t.client}, decoder : {t.decoder}, lost : SUBSET Made, refusals : Nat]
  BY <1>1, <1>2, <1>11, <1>26
<1>. QED BY <1>2, <1>11, <1>20, <1>27, <1>28, <1>29, <1>30 DEF t

\* The loop that releases what is due, as FoldKeeps sees it.
ReleaseStep(st0, st, taken) == Released(st, taken)
ReleasedSoFar(st0, i, st) ==
    /\ LogOK /\ BuildsOK
    /\ st \in [client : {st.client}, decoder : {st.decoder}, lost : SUBSET Made, refusals : Nat]
    /\ LoopOK(st.client, st.decoder, st.lost) /\ Near(st.client)
    /\ Cardinality(st.client.rx.queue) = Cardinality(st0.client.rx.queue) - i
    /\ st0.lost \subseteq st.lost

Releasing == INSTANCE LeftFolds WITH Step <- ReleaseStep, Good <- ReleasedSoFar

LEMMA ReleasesKeep ==
    ASSUME LogOK, BuildsOK, NEW s,
           s \in [client : {s.client}, decoder : {s.decoder}, lost : SUBSET Made, refusals : Nat],
           LoopOK(s.client, s.decoder, s.lost), Near(s.client),
           NEW k \in 0 .. Cardinality(s.client.rx.queue), NEW taken \in [1 .. k -> BOOLEAN]
    PROVE  LET t == Seqs!FoldLeft(Released, s, taken) IN
           /\ t \in [client : {t.client}, decoder : {t.decoder}, lost : SUBSET Made,
                     refusals : Nat]
           /\ LoopOK(t.client, t.decoder, t.lost) /\ s.lost \subseteq t.lost
<1>. DEFINE t == Seqs!FoldLeft(Released, s, taken)
            m == Cardinality(s.client.rx.queue)
<1>1. t = Releasing!Fold(s, s, taken)
  BY Zenon DEF ReleaseStep, Releasing!Fold, Seqs!FoldLeft, Releasing!SX!FoldLeft,
     Seqs!MapThenFoldSet, Releasing!SX!MapThenFoldSet, Seqs!Max, Releasing!SX!Max
<1>2. m \in Nat
  BY StoredIsFinite DEF LoopOK, RxOK
<1>3. k \in Nat /\ k <= m /\ taken \in Seq(BOOLEAN) /\ Len(taken) = k
  BY <1>2
<1>. HIDE DEF t
<1>4. ReleasedSoFar(s, 0, s)
  BY <1>2 DEF ReleasedSoFar
<1>5. ASSUME NEW i \in 1 .. Len(taken), NEW x, ReleasedSoFar(s, i - 1, x)
      PROVE  ReleasedSoFar(s, i, ReleaseStep(s, x, taken[i]))
  <2>1. taken[i] \in BOOLEAN
    BY <1>3
  <2>2. Cardinality(x.client.rx.queue) = m - (i - 1)
    BY <1>5 DEF ReleasedSoFar
  <2>3. m - (i - 1) > 0 /\ (m - (i - 1)) - 1 = m - i
    BY <1>2, <1>3
  <2>4. x.client.rx.queue # {}
    <3>1. Cardinality({}) = 0
      BY FS_EmptySet
    <3>2. Cardinality(x.client.rx.queue) > 0
      BY <2>2, <2>3
    <3>3. ASSUME x.client.rx.queue = {} PROVE FALSE
      <4>1. Cardinality(x.client.rx.queue) = 0
        BY <3>1, <3>3, Zenon
      <4>. QED BY <3>2, <4>1
    <3>. QED BY <3>3
  <2>. DEFINE y == Released(x, taken[i])
  <2>5. /\ y \in [client : {y.client}, decoder : {y.decoder}, lost : SUBSET Made,
                  refusals : Nat]
        /\ LoopOK(y.client, y.decoder, y.lost) /\ Near(y.client)
        /\ Cardinality(y.client.rx.queue) = Cardinality(x.client.rx.queue) - 1
        /\ x.lost \subseteq y.lost
    BY <1>5, <2>1, <2>4, ReleasedKeeps DEF ReleasedSoFar
  <2>. HIDE DEF y
  <2>6. s.lost \subseteq y.lost
    BY <1>5, <2>5 DEF ReleasedSoFar
  <2>7. Cardinality(y.client.rx.queue) = m - i
    BY <2>2, <2>3, <2>5
  <2>8. ReleasedSoFar(s, i, y)
    BY <2>5, <2>6, <2>7 DEF ReleasedSoFar
  <2>. QED BY <2>8 DEF y, ReleaseStep
<1>6. ReleasedSoFar(s, Len(taken), Releasing!Fold(s, s, taken))
  BY <1>3, <1>4, <1>5, Releasing!FoldKeeps
<1>7. ReleasedSoFar(s, Len(taken), t)
  BY <1>1, <1>6
<1>. QED BY <1>7 DEF ReleasedSoFar, t

\* Of a loop's state only the gate is changed, and perhaps closed, the evicted
\* frames forgotten, and more reported.
LEMMA LoopAgain ==
    ASSUME NEW c, NEW d, NEW l, LoopOK(c, d, l), NEW k, l \subseteq k,
           NEW g \in Gate, g.first = c.gate.first, g.open => c.gate.open
    PROVE  LoopOK([c EXCEPT !.gate = g, !.rx.abandoned = <<>>], d, k)
<1>. DEFINE r == [c.rx EXCEPT !.abandoned = <<>>]
            e == [c EXCEPT !.gate = g, !.rx.abandoned = <<>>]
<1>1. /\ c \in [rx : {c.rx}, gate : Gate, build : 1 .. Len(builds), lastFed : Made \cup {None}]
      /\ d \in [build : 1 .. c.build, fed : {d.fed}]
      /\ c.gate.first = builds[d.build].first
      /\ RxOK(c.rx) /\ FedOK(c.gate.first, c.rx.expected, d.fed, l)
      /\ c.gate.open => OpenOK(c.rx.expected, d.fed, l)
  BY DEF LoopOK
<1>2. e = [c EXCEPT !.gate = g, !.rx = r]
  BY <1>1
<1>. HIDE DEF e, r
<1>3. /\ e \in [rx : {r}, gate : Gate, build : 1 .. Len(builds), lastFed : Made \cup {None}]
      /\ e.rx = r /\ e.gate = g /\ e.build = c.build
  BY <1>1, <1>2
<1>4. /\ r = [c.rx EXCEPT !.partial = c.rx.partial, !.abandoned = <<>>]
      /\ r.partial = c.rx.partial /\ r.queue = c.rx.queue /\ r.abandoned = <<>>
      /\ r.expected = c.rx.expected
  BY <1>1 DEF RxOK, r
<1>5. RxOK(r)
  <2>1. PoolUsed(r) = PoolUsed(c.rx)
    BY <1>4 DEF PoolUsed, Loose
  <2>2. /\ DOMAIN r.partial \in SUBSET Made
        /\ r.partial \in [DOMAIN r.partial -> SUBSET Index]
        /\ r.abandoned \in Seq(Made) /\ PoolUsed(r) <= PoolSlots
        /\ Cardinality(DOMAIN r.partial) + Cardinality(r.queue) <= FrameSlots
        /\ r = [c.rx EXCEPT !.partial = r.partial, !.abandoned = r.abandoned]
    BY <1>1, <1>4, <2>1 DEF RxOK
  <2>. QED BY <1>1, <2>2, RxAgain
<1>6. c.rx.expected \in Int
  BY <1>1, SizesAreNat, NoneIsNoFrame DEF RxOK
<1>7. FedOK(g.first, r.expected, d.fed, k)
  BY <1>1, <1>4, <1>6, FedLater
<1>8. g.open => OpenOK(r.expected, d.fed, k)
  BY <1>1, <1>4, CoveredMore DEF OpenOK
<1>. QED BY <1>1, <1>3, <1>5, <1>7, <1>8 DEF LoopOK, e

-----------------------------------------------------------------------------
(* The steps.                                                              *)

\* What the loop holds stays right as more is encoded and built.
LEMMA LoopLater ==
    ASSUME LogOK, BuildsOK,
           Encoded <= Encoded', Encoded' \in Nat, \A f \in Made : log'[f + 1] = log[f + 1],
           Len(builds) <= Len(builds'), Len(builds') \in Nat,
           \A b \in 1 .. Len(builds) : builds'[b] = builds[b],
           refInvalidation' = refInvalidation,
           NEW c, NEW d, NEW l, LoopOK(c, d, l)
    PROVE  LoopOK(c, d, l)'
<1>1. /\ c \in [rx : {c.rx}, gate : Gate, build : 1 .. Len(builds), lastFed : Made \cup {None}]
      /\ d \in [build : 1 .. c.build, fed : {d.fed}]
      /\ c.gate.first = builds[d.build].first
      /\ RxOK(c.rx) /\ FedOK(c.gate.first, c.rx.expected, d.fed, l)
      /\ c.gate.open => OpenOK(c.rx.expected, d.fed, l)
  BY DEF LoopOK
<1>2. Made \subseteq Made' /\ Made \subseteq Nat
  BY SizesAreNat, MadeGrows DEF Made
<1>3. \A f \in Made : IsKey(f)' <=> IsKey(f)
  BY SizesAreNat DEF IsKey, Made
<1>4. /\ c \in [rx : {c.rx}, gate : Gate, build : 1 .. Len(builds'), lastFed : Made' \cup {None}]
      /\ c.gate.first = builds'[d.build].first
  <2>1. c.build \in 1 .. Len(builds) /\ d.build \in 1 .. Len(builds)
    BY <1>1 DEF BuildsOK
  <2>2. c.build \in 1 .. Len(builds') /\ builds'[d.build] = builds[d.build]
    BY <2>1
  <2>. QED BY <1>1, <1>2, <2>2
<1>5. RxOK(c.rx)'
  <2>1. PoolUsed(c.rx)' = PoolUsed(c.rx)
    BY DEF PoolUsed, Loose, Packets
  <2>2. /\ c.rx \in [partial : {c.rx.partial}, completed : {c.rx.completed},
                     abandoned : Seq(Made), queue : SUBSET Made,
                     expected : 1 .. Encoded \cup {None}]
        /\ c.rx.partial \in [DOMAIN c.rx.partial -> SUBSET Index]
        /\ DOMAIN c.rx.partial \subseteq Made
        /\ PoolUsed(c.rx) <= PoolSlots
        /\ Cardinality(DOMAIN c.rx.partial) + Cardinality(c.rx.queue) <= FrameSlots
        /\ \A f \in c.rx.queue : c.rx.expected <= f
    BY <1>1 DEF RxOK
  <2>3. /\ Seq(Made) \subseteq Seq(Made') /\ SUBSET Made \subseteq SUBSET Made'
        /\ 1 .. Encoded \subseteq 1 .. Encoded'
    BY <1>2, SizesAreNat, MadeGrows, SeqGrows
  <2>4. c.rx \in [partial : {c.rx.partial}, completed : {c.rx.completed},
                  abandoned : Seq(Made'), queue : SUBSET Made',
                  expected : 1 .. Encoded' \cup {None}]
    BY <2>2, <2>3
  <2>. QED BY <1>2, <2>1, <2>2, <2>4 DEF RxOK
<1>6. FedOK(c.gate.first, c.rx.expected, d.fed, l)'
  <2>1. d.fed \in Seq(Made)
    BY <1>1 DEF FedOK
  <2>2. \A i \in DOMAIN d.fed : d.fed[i] \in Made /\ (IsKey(d.fed[i])' <=> IsKey(d.fed[i]))
    BY <1>3, <2>1, FramesOfSeq DEF IsKey
  <2>3. d.fed \in Seq(Made') /\ DOMAIN d.fed = 1 .. Len(d.fed) /\ Len(d.fed) \in Nat
    BY <1>2, <2>1, SeqGrows, FramesOfSeq
  <2>. QED BY <1>1, <2>2, <2>3 DEF FedOK, Covered
<1>7. c.gate.open => OpenOK(c.rx.expected, d.fed, l)'
  BY <1>1 DEF OpenOK, Covered, Last
<1>. QED BY <1>1, <1>4, <1>5, <1>6, <1>7 DEF LoopOK

\* Nothing encoded, nothing built.
LEMMA LoopStays ==
    ASSUME LogOK, BuildsOK, UNCHANGED <<log, builds, refInvalidation>>,
           NEW c, NEW d, NEW l, LoopOK(c, d, l)
    PROVE  LoopOK(c, d, l)'
<1>1. /\ Encoded <= Encoded' /\ Encoded' \in Nat /\ \A f \in Made : log'[f + 1] = log[f + 1]
      /\ Len(builds) <= Len(builds') /\ Len(builds') \in Nat
      /\ \A b \in 1 .. Len(builds) : builds'[b] = builds[b]
  BY SizesAreNat DEF Encoded, BuildsOK
<1>. QED BY <1>1, LoopLater

LEMMA EncodedFrames == LogOK => Encoded \in Nat /\ Encoded - 1 \in Made \cup {None} /\
    Made \subseteq Nat
BY SizesAreNat, NoneIsNoFrame DEF Made

\* What the encoder makes: a keyframe, or a frame that predicts from the newest
\* reference left.
LEMMA CodedFields ==
    ASSUME PathInv, Encoded < MaxFrames
    PROVE  LET c == Coded(server) IN
           /\ c \in [key : BOOLEAN, ref : FrameOrNone, build : {Len(builds)}]
           /\ ~c.key => /\ c.ref \in UsableRefs(server)
                        /\ c.ref \in Made
                        /\ \A r \in UsableRefs(server) : r <= c.ref
                        /\ ~refInvalidation => c.ref = Encoded - 1
                        /\ Recovery(server) # "idr"
<1>. DEFINE U == UsableRefs(server)
            c == Coded(server)
<1>1. server.refs \subseteq Made /\
        (~refInvalidation /\ server.refs # {} => Encoded - 1 \in server.refs)
  BY DEF PathInv, ServerOK
<1>2. U \subseteq server.refs /\ (~refInvalidation /\ Recovery(server) # "idr" => U = server.refs)
  BY DEF UsableRefs, Recovery
<1>3. CASE ForcesIdr(server) \/ U = {}
  <2>1. c = [key |-> TRUE, ref |-> None, build |-> Len(builds)]
    BY <1>3, Zenon DEF Coded
  <2>. QED BY <2>1 DEF FrameOrNone
<1>4. CASE ~ForcesIdr(server) /\ U # {}
  <2>1. c = [key |-> FALSE, ref |-> Max(U), build |-> Len(builds)]
    BY <1>4, Zenon DEF Coded
  <2>2. Recovery(server) # "idr"
    BY <1>4 DEF ForcesIdr
  <2>. HIDE DEF U
  <2>3. Max(U) \in U /\ \A r \in U : r <= Max(U)
    BY <1>1, <1>2, <1>4, SizesAreNat, GreatestFrame DEF Made
  <2>4. Max(U) \in Made
    BY <1>1, <1>2, <2>3
  <2>5. Made \subseteq Frames
    BY SizesAreNat, VideoBounds DEF Made, Frames
  <2>6. ASSUME ~refInvalidation PROVE Max(U) = Encoded - 1
    <3>1. Encoded - 1 \in U
      BY <1>1, <1>2, <1>4, <2>2, <2>6
    <3>. QED BY <2>3, <2>4, <3>1, SizesAreNat DEF Made
  <2>. QED BY <2>1, <2>2, <2>3, <2>4, <2>5, <2>6 DEF FrameOrNone, U
<1>. QED BY <1>3, <1>4

LEMMA EncodeStep == ASSUME PathInv, Encode PROVE PathInv'
<1>. DEFINE c == Coded(server)
            f == Encoded
<1>1. /\ f < MaxFrames /\ log' = Append(log, c) /\ server' = AfterEncode(server, f, c.key)
      /\ noted' = {} /\ UNCHANGED <<refInvalidation, builds, client, decoder, lost,
           refusals, asking>>
  BY DEF Encode, clientVars
<1>2. /\ c \in [key : BOOLEAN, ref : FrameOrNone, build : {Len(builds)}]
      /\ ~c.key => /\ c.ref \in Made
                   /\ ~refInvalidation => c.ref = f - 1
  BY <1>1, CodedFields
<1>. HIDE DEF c
<1>3. /\ LogOK /\ BuildsOK /\ ServerOK /\ LostOK /\ LoopOK(client, decoder, lost)
      /\ f \in Nat
  BY SizesAreNat DEF PathInv
<1>4. c \in [key : BOOLEAN, ref : FrameOrNone, build : 1 .. MaxBuilds]
  BY <1>2, <1>3 DEF BuildsOK
<1>5. /\ log' \in Seq([key : BOOLEAN, ref : FrameOrNone, build : 1 .. MaxBuilds])
      /\ Encoded' = f + 1 /\ log'[f + 1] = c /\ \A g \in Made : log'[g + 1] = log[g + 1]
  <2>. DEFINE S == [key : BOOLEAN, ref : FrameOrNone, build : 1 .. MaxBuilds]
  <2>1. log \in Seq(S) /\ c \in S
    BY <1>3, <1>4 DEF LogOK
  <2>. HIDE DEF S
  <2>2. /\ log' \in Seq(S) /\ Len(log') = Len(log) + 1
        /\ \A i \in 1 .. Len(log) : log'[i] = log[i]
        /\ log'[Len(log) + 1] = c
    BY <1>1, <2>1, Appended
  <2>3. \A g \in Made : g + 1 \in 1 .. Len(log)
    BY DEF Made, Encoded
  <2>. QED BY <2>2, <2>3 DEF Encoded, S
<1>. HIDE DEF f
<1>6. Made' = Made \cup {f} /\ Made \subseteq Nat /\ f \notin Made
  BY <1>3, <1>5 DEF Made, f
<1>7. LogOK'
  <2>1. Encoded' <= MaxFrames
    BY <1>1, <1>3, <1>5, VideoBounds
  <2>2. ASSUME NEW g \in Made'
        PROVE  (/\ IsKey(g) \/ log[g + 1].ref \in 0 .. g - 1
                /\ ~refInvalidation => IsKey(g) \/ log[g + 1].ref = g - 1
                /\ \A b \in 1 .. Len(builds) : builds[b].first <= g => b <= BuildOf(g))'
    <3>1. CASE g \in Made
      BY <1>1, <1>3, <1>5, <3>1 DEF LogOK, IsKey, BuildOf
    <3>2. CASE g = f
      <4>1. c.key \/ c.ref \in 0 .. f - 1
        BY <1>2 DEF Made, f
      <4>2. c.build = Len(builds) /\ Len(builds) \in Nat
        BY <1>2, <1>3 DEF BuildsOK
      <4>3. log'[g + 1] = c
        BY <1>5, <3>2
      <4>4. /\ c.key \/ c.ref \in 0 .. g - 1
            /\ ~refInvalidation => c.key \/ c.ref = g - 1
            /\ \A b \in 1 .. Len(builds) : builds[b].first <= g => b <= c.build
        BY <1>2, <3>2, <4>1, <4>2
      <4>. QED BY <1>1, <4>3, <4>4 DEF IsKey, BuildOf
    <3>. QED BY <1>6, <2>2, <3>1, <3>2
  <2>3. refInvalidation' \in BOOLEAN
    BY <1>1, <1>3 DEF LogOK
  <2>. QED BY <1>5, <2>1, <2>2, <2>3 DEF LogOK
<1>8. BuildsOK'
  <2>1. builds \in Seq([first : 0 .. f, look : {1, 2}]) /\ Len(builds) \in 1 .. MaxBuilds
    BY <1>3 DEF BuildsOK, f
  <2>2. [first : 0 .. f, look : {1, 2}] \subseteq [first : 0 .. f + 1, look : {1, 2}]
    BY <1>3
  <2>. DEFINE S == [first : 0 .. f, look : {1, 2}]
              T == [first : 0 .. f + 1, look : {1, 2}]
  <2>3. builds \in Seq(T)
    <3>. HIDE DEF S, T
    <3>1. S \subseteq T /\ builds \in Seq(S)
      BY <2>1, <2>2 DEF S, T
    <3>. QED BY <3>1, SeqGrows
  <2>. QED BY <1>1, <1>5, <2>1, <2>3 DEF BuildsOK
<1>9. ServerOK'
  <2>. DEFINE w == IF refInvalidation /\ server.abandon # None
                     THEN AfterAbandon(server.window, server.abandon) ELSE server.window
              R == IF c.key THEN {f} ELSE {g \in UsableRefs(server) \cup {f} : g > f - Depth}
  <2>1. server' = [need |-> FALSE, idr |-> server.need /\ server.idr, abandon |-> None,
                   window |-> OnEncoded(w, f, c.key), refs |-> R]
    BY <1>1, Zenon DEF AfterEncode
  <2>2. /\ server.need \in BOOLEAN /\ server.idr \in BOOLEAN
        /\ server.refs \subseteq Made
        /\ server.window.newest = f - 1 /\ server.window.through \in Made \cup {None}
    BY <1>3 DEF ServerOK, f
  <2>3. w.through \in Made \cup {None}
    <3>1. f - 1 \in Made \cup {None}
      BY <1>3, EncodedFrames DEF f
    <3>2. AfterAbandon(server.window, server.abandon).through \in Made \cup {None}
      BY <1>3, <2>2, <3>1 DEF AfterAbandon, ServerOK
    <3>. QED BY <2>2, <3>2
  <2>. HIDE DEF w
  <2>4. OnEncoded(w, f, c.key) \in [newest : {f}, through : Made' \cup {None}]
    BY <1>2, <1>6, <2>3 DEF OnEncoded
  <2>5. R \subseteq Made' /\ f \in R
    <3>1. UsableRefs(server) \subseteq Made
      BY <2>2 DEF UsableRefs
    <3>2. f > f - Depth
      BY <1>3, RefWindowAssumption
    <3>. QED BY <1>6, <3>1, <3>2
  <2>. HIDE DEF R
  <2>6. server' \in [need : BOOLEAN, idr : BOOLEAN, abandon : {None},
                     window : [newest : {f}, through : Made' \cup {None}],
                     refs : SUBSET Made']
    BY <2>1, <2>2, <2>4, <2>5
  <2>7. Encoded' - 1 = f
    BY <1>3, <1>5
  <2>8. server'.refs = R
    BY <2>1
  <2>. QED BY <1>1, <2>5, <2>6, <2>7, <2>8 DEF ServerOK
<1>10. LostOK'
  BY <1>1, <1>3, <1>6 DEF LostOK
<1>11. LoopOK(client, decoder, lost)'
  <2>1. /\ Encoded <= Encoded' /\ Encoded' \in Nat
        /\ Len(builds) <= Len(builds') /\ Len(builds') \in Nat
        /\ \A b \in 1 .. Len(builds) : builds'[b] = builds[b]
    BY <1>1, <1>3, <1>5 DEF BuildsOK, f
  <2>. QED BY <1>1, <1>3, <1>5, <2>1, LoopLater
<1>. QED BY <1>7, <1>8, <1>9, <1>10, <1>11 DEF PathInv


LEMMA InitStep == Init => PathInv
<1>. SUFFICES ASSUME Init PROVE PathInv
  OBVIOUS
<1>1. /\ refInvalidation \in BOOLEAN /\ log = <<>> /\ builds = <<[first |-> 0, look |-> 1]>>
      /\ server = NewServer /\ client = NewClient /\ decoder = [build |-> 1, fed |-> <<>>]
      /\ lost = {} /\ asking = FALSE /\ noted = {} /\ refusals = 0
  BY VideoBounds DEF Init
<1>2. Encoded = 0 /\ Made = {} /\ Len(builds) = 1 /\ builds[1] = [first |-> 0, look |-> 1]
  BY <1>1 DEF Encoded, Made
<1>3. LogOK
  <2>1. 0 <= MaxFrames
    BY VideoBounds
  <2>2. log \in Seq([key : BOOLEAN, ref : FrameOrNone, build : 1 .. MaxBuilds])
    BY <1>1
  <2>. QED BY <1>1, <1>2, <2>1, <2>2 DEF LogOK
<1>4. BuildsOK
  <2>1. 1 \in 1 .. MaxBuilds
    BY VideoBounds
  <2>2. builds \in Seq([first : 0 .. 0, look : {1, 2}])
    BY <1>1
  <2>. QED BY <1>2, <2>1, <2>2 DEF BuildsOK
<1>5. ServerOK
  BY <1>1, <1>2 DEF ServerOK, NewServer, NewWindow, None
<1>6. LostOK
  BY <1>1 DEF LostOK
<1>7. LoopOK(client, decoder, lost)
  <2>. DEFINE r == NewAssembly
  <2>1. /\ r \in [partial : {<<>>}, completed : {None}, abandoned : Seq(Made),
                  queue : SUBSET Made, expected : {None}]
        /\ r.partial = <<>> /\ r.queue = {}
    BY DEF NewAssembly
  <2>2. DOMAIN r.partial = {} /\ r.partial \in [DOMAIN r.partial -> SUBSET Index]
    BY <2>1
  <2>. HIDE DEF r
  <2>3. Loose(r) = {}
    BY <2>2 DEF Loose
  <2>4. PoolUsed(r) <= PoolSlots
    <3>1. PoolUsed(r) = Packets * 0 + 0
      BY <2>1, <2>3, FS_EmptySet DEF PoolUsed
    <3>. QED BY <3>1, SizesAreNat
  <2>5. Cardinality(DOMAIN r.partial) + Cardinality(r.queue) <= FrameSlots
    <3>1. Cardinality(DOMAIN r.partial) = 0 /\ Cardinality(r.queue) = 0
      BY <2>1, <2>2, FS_EmptySet
    <3>. QED BY <3>1, SizesAreNat
  <2>6. RxOK(r)
    BY <2>1, <2>2, <2>4, <2>5 DEF RxOK
  <2>7. FedOK(0, None, <<>>, {})
    BY DEF FedOK
  <2>8. NewGate(0) \in Gate /\ NewGate(0).first = 0 /\ ~NewGate(0).open
    BY VideoBounds DEF NewGate, Gate
  <2>9. /\ client = [rx |-> r, gate |-> NewGate(0), build |-> 1, lastFed |-> None]
        /\ client.rx = r /\ client.rx.expected = None
    BY <1>1, <2>1 DEF NewClient, r
  <2>. QED BY <1>1, <1>2, <2>6, <2>7, <2>8, <2>9 DEF LoopOK
<1>. QED BY <1>3, <1>4, <1>5, <1>6, <1>7 DEF PathInv

LEMMA RebuildStep == ASSUME PathInv, NEW look \in {1, 2}, Rebuild(look) PROVE PathInv'
<1>. DEFINE b == [first |-> Encoded, look |-> look]
<1>1. /\ LogOK /\ BuildsOK /\ ServerOK /\ LostOK /\ LoopOK(client, decoder, lost)
      /\ Encoded \in Nat /\ Made \subseteq Nat
  BY SizesAreNat DEF PathInv, Made
<1>2. /\ Len(builds) < MaxBuilds /\ builds' = Append(builds, b)
      /\ server' = [server EXCEPT !.need = TRUE, !.refs = {}]
      /\ UNCHANGED <<refInvalidation, log, noted, client, decoder, lost, refusals, asking>>
  BY DEF Rebuild, AfterRebuild, clientVars
<1>3. Encoded' = Encoded /\ Made' = Made
  BY <1>2 DEF Encoded, Made
<1>4. /\ builds' \in Seq([first : 0 .. Encoded, look : {1, 2}])
      /\ Len(builds') = Len(builds) + 1 /\ Len(builds) \in Nat
      /\ \A i \in 1 .. Len(builds) : builds'[i] = builds[i]
      /\ builds'[Len(builds) + 1] = b
  <2>. DEFINE S == [first : 0 .. Encoded, look : {1, 2}]
  <2>1. builds \in Seq(S) /\ b \in S /\ Len(builds) \in Nat
    BY <1>1 DEF BuildsOK
  <2>. HIDE DEF S, b
  <2>. QED BY <1>2, <2>1, Appended DEF S
<1>5. BuildsOK'
  BY <1>2, <1>3, <1>4, VideoBounds DEF BuildsOK
<1>6. LogOK'
  <2>1. ASSUME NEW f \in Made, NEW i \in 1 .. Len(builds'), builds'[i].first <= f
        PROVE  i \in 1 .. Len(builds) /\ builds[i].first <= f
    <3>1. f < Encoded
      BY <1>1 DEF Made
    <3>2. i # Len(builds) + 1
      BY <1>1, <1>4, <2>1, <3>1
    <3>3. i \in 1 .. Len(builds)
      BY <1>4, <3>2
    <3>. QED BY <1>4, <2>1, <3>3
  <2>. QED BY <1>1, <1>2, <1>3, <2>1 DEF LogOK, IsKey, BuildOf
<1>7. ServerOK'
  BY <1>1, <1>2, <1>3 DEF ServerOK
<1>8. LostOK'
  BY <1>1, <1>2, <1>3 DEF LostOK
<1>9. LoopOK(client, decoder, lost)'
  <2>1. /\ Encoded <= Encoded' /\ Encoded' \in Nat /\ \A f \in Made : log'[f + 1] = log[f + 1]
        /\ Len(builds) <= Len(builds') /\ Len(builds') \in Nat
    BY <1>1, <1>2, <1>3, <1>4
  <2>. QED BY <1>1, <1>2, <1>4, <2>1, LoopLater
<1>. QED BY <1>5, <1>6, <1>7, <1>8, <1>9 DEF PathInv

LEMMA AbandonStep == ASSUME PathInv, NEW f \in lost, AbandonArrives(f) PROVE PathInv'
<1>. DEFINE a == NoteAbandon(server.abandon, f)
<1>1. /\ LogOK /\ BuildsOK /\ ServerOK /\ LostOK /\ LoopOK(client, decoder, lost)
      /\ Encoded \in Nat /\ Made \subseteq Nat
  BY SizesAreNat DEF PathInv, Made
<1>2. /\ Encoded - f <= MaxReportLag
      /\ server' = [server EXCEPT !.abandon = a] /\ noted' = noted \cup {f}
      /\ UNCHANGED <<refInvalidation, log, builds, client, decoder, lost, refusals, asking>>
  <2>1. f \in Int /\ MaxReportLag \in Int /\ f >= Encoded - MaxReportLag
    BY <1>1, VideoBounds DEF LostOK, AbandonArrives
  <2>2. Encoded - f <= MaxReportLag
    BY <1>1, <2>1
  <2>. QED BY <2>2 DEF AbandonArrives, clientVars
<1>3. Encoded' = Encoded /\ Made' = Made
  BY <1>2 DEF Encoded, Made
<1>4. f \in Made /\ f \in Nat /\ noted \subseteq Made /\ f < Encoded
  BY <1>1 DEF LostOK, Made
<1>5. /\ server.abandon \in noted \cup {None}
      /\ \A g \in noted : server.abandon <= g /\ Encoded - g <= MaxReportLag
      /\ noted # {} => server.abandon # None
  BY <1>1 DEF ServerOK
<1>6. /\ a \in noted \cup {f}
      /\ \A g \in noted \cup {f} : a <= g /\ Encoded - g <= MaxReportLag
  <2>1. CASE server.abandon = None
    <3>1. a = f /\ noted = {}
      BY <1>5, <2>1 DEF NoteAbandon
    <3>. QED BY <1>2, <1>4, <3>1
  <2>2. CASE server.abandon # None
    <3>. DEFINE p == server.abandon
    <3>1. p \in noted /\ p \in Nat /\ p < Encoded /\ Encoded - p <= MaxReportLag
      <4>1. p \in noted /\ Encoded - p <= MaxReportLag
        BY <1>5, <2>2
      <4>2. p \in Made
        BY <1>4, <4>1
      <4>. HIDE DEF p
      <4>. QED BY <1>1, <4>1, <4>2 DEF Made
    <3>2. p - f < Half /\ f - p < Half
      BY <1>1, <1>2, <1>4, <3>1, SizesAreNat, LagAssumption, VideoBounds
    <3>3. Newer(p, f) <=> f < p
      BY <1>4, <3>1, <3>2, NewerIsLater
    <3>4. a = IF Newer(p, f) THEN f ELSE p
      BY <2>2 DEF NoteAbandon
    <3>. HIDE DEF p
    <3>5. \A g \in noted : p <= g
      BY <1>5 DEF p
    <3>6. \A g \in noted \cup {f} : Encoded - g <= MaxReportLag
      BY <1>2, <1>5
    <3>7. CASE f < p
      <4>1. \A g \in noted : g \in Nat
        BY <1>1, <1>4
      <4>. QED BY <1>4, <3>1, <3>3, <3>4, <3>5, <3>6, <3>7, <4>1
    <3>8. CASE ~(f < p)
      BY <1>4, <3>1, <3>3, <3>4, <3>5, <3>6, <3>8
    <3>. QED BY <3>7, <3>8
  <2>. QED BY <2>1, <2>2
<1>. HIDE DEF a
<1>7. ServerOK'
  <2>1. a # None
    BY <1>1, <1>4, <1>6, NoneIsNoFrame
  <2>2. server' \in [need : BOOLEAN, idr : BOOLEAN, abandon : noted' \cup {None},
                     window : [newest : {Encoded - 1}, through : Made \cup {None}],
                     refs : SUBSET Made]
    BY <1>1, <1>2, <1>6 DEF ServerOK
  <2>3. server'.abandon = a /\ server'.refs = server.refs
    BY <1>1, <1>2 DEF ServerOK
  <2>4. ~refInvalidation' /\ server'.refs # {} => Encoded' - 1 \in server'.refs
    BY <1>1, <1>2, <1>3, <2>3 DEF ServerOK
  <2>. QED BY <1>2, <1>3, <1>6, <2>1, <2>2, <2>3, <2>4 DEF ServerOK
<1>8. LostOK'
  BY <1>1, <1>2, <1>3 DEF LostOK
<1>9. LogOK' /\ BuildsOK'
  BY <1>1, <1>2, <1>3 DEF LogOK, BuildsOK, IsKey, BuildOf
<1>10. LoopOK(client, decoder, lost)'
  BY <1>1, <1>2, LoopStays
<1>. QED BY <1>7, <1>8, <1>9, <1>10 DEF PathInv

LEMMA RequestIdrStep == ASSUME PathInv, RequestIdrArrives PROVE PathInv'
<1>1. LogOK /\ BuildsOK /\ ServerOK /\ LostOK /\ LoopOK(client, decoder, lost)
  BY DEF PathInv
<1>2. /\ server' = [server EXCEPT !.idr = TRUE] /\ asking' = FALSE
      /\ UNCHANGED <<refInvalidation, log, builds, noted, client, decoder, lost, refusals>>
  BY DEF RequestIdrArrives, clientVars
<1>3. Encoded' = Encoded /\ Made' = Made
  BY <1>2 DEF Encoded, Made
<1>4. ServerOK'
  BY <1>1, <1>2, <1>3 DEF ServerOK
<1>5. LostOK' /\ LogOK' /\ BuildsOK'
  BY <1>1, <1>2, <1>3 DEF LostOK, LogOK, BuildsOK, IsKey, BuildOf
<1>6. LoopOK(client, decoder, lost)'
  BY <1>1, <1>2, LoopStays
<1>. QED BY <1>4, <1>5, <1>6 DEF PathInv

\* What the client's own steps leave alone.
LEMMA ServerStays ==
    ASSUME PathInv, UNCHANGED <<refInvalidation, serverVars>>,
           lost' \subseteq Made, lost \subseteq lost', asking' \in BOOLEAN, refusals' \in Nat,
           NEW c, NEW d, NEW l, LoopOK(c, d, l), client' = c, decoder' = d, lost' = l
    PROVE  PathInv'
<1>1. /\ LogOK /\ BuildsOK /\ ServerOK /\ LostOK
      /\ UNCHANGED <<refInvalidation, log, builds, server, noted>>
  BY DEF PathInv, serverVars
<1>2. Encoded' = Encoded /\ Made' = Made
  BY <1>1 DEF Encoded, Made
<1>3. LogOK' /\ BuildsOK' /\ ServerOK' /\ LostOK'
  BY <1>1, <1>2 DEF LogOK, BuildsOK, ServerOK, LostOK, IsKey, BuildOf
<1>4. LoopOK(c, d, l)'
  BY <1>1, LoopStays
<1>5. LoopOK(client, decoder, lost)'
  BY <1>4
<1>. QED BY <1>3, <1>5 DEF PathInv

LEMMA ReceiveStep ==
    ASSUME PathInv, NEW f \in Made, NEW p \in Index, Receive(f, p)
    PROVE  PathInv'
<1>. DEFINE r == Heard(client.rx, f, p)
            c == [client EXCEPT !.rx = r]
<1>1. LostOK /\ LoopOK(client, decoder, lost) /\ Encoded \in Nat /\ f \in Nat
  BY SizesAreNat DEF PathInv, Made
<1>2. /\ Encoded - f <= MaxLag /\ client' = c
      /\ UNCHANGED <<refInvalidation, serverVars>>
      /\ UNCHANGED <<decoder, lost, refusals, asking>>
  <2>1. MaxLag \in Int /\ f >= Encoded - MaxLag
    BY VideoBounds DEF Receive
  <2>2. Encoded - f <= MaxLag
    BY <1>1, <2>1
  <2>. QED BY <2>2, Zenon DEF Receive
<1>3. RxOK(r) /\ r.expected = client.rx.expected
  BY <1>1, <1>2, HeardKeeps DEF LoopOK
<1>. HIDE DEF r
<1>4. /\ c.rx = r /\ c.gate = client.gate /\ c.build = client.build
      /\ c \in [rx : {r}, gate : Gate, build : 1 .. Len(builds), lastFed : Made \cup {None}]
  BY <1>1 DEF LoopOK
<1>. HIDE DEF c
<1>5. LoopOK(c, decoder, lost)
  BY <1>1, <1>3, <1>4 DEF LoopOK
<1>6. lost' \subseteq Made /\ lost \subseteq lost' /\ asking' \in BOOLEAN /\ refusals' \in Nat
  BY <1>1, <1>2 DEF LostOK
<1>. QED BY <1>2, <1>5, <1>6, ServerStays

LEMMA HeadersStep == ASSUME PathInv, HeadersArrive PROVE PathInv'
<1>. DEFINE b == client.build + 1
            reconfigures == builds[b].look # builds[client.build].look
            g == IF reconfigures THEN ClosedGate(builds[b].first, client.lastFed) ELSE client.gate
            c == [client EXCEPT !.build = b, !.gate = g]
            d == IF reconfigures THEN [build |-> b, fed |-> <<>>] ELSE decoder
<1>1. LogOK /\ BuildsOK /\ LostOK /\ LoopOK(client, decoder, lost) /\ Encoded \in Nat
  BY SizesAreNat DEF PathInv
<1>2. /\ client.build < Len(builds) /\ client' = c /\ decoder' = d
      /\ UNCHANGED <<refInvalidation, serverVars>>
      /\ UNCHANGED <<lost, refusals, asking>>
  BY Zenon DEF HeadersArrive
<1>3. b \in 1 .. Len(builds) /\ client.build \in 1 .. b /\ builds[b].first \in 0 .. Encoded
  <2>1. client.build \in 1 .. Len(builds) /\ Len(builds) \in Nat
    BY <1>1 DEF LoopOK, BuildsOK
  <2>2. b \in 1 .. Len(builds) /\ client.build \in 1 .. b
    BY <1>2, <2>1
  <2>. HIDE DEF b
  <2>. QED BY <1>1, <2>2, BuildFields
<1>4. builds[b].first \in 0 .. MaxFrames
  BY <1>1, <1>3, VideoBounds DEF LogOK
<1>5. lost' \subseteq Made /\ lost \subseteq lost' /\ asking' \in BOOLEAN /\ refusals' \in Nat
  BY <1>1, <1>2 DEF LostOK
<1>6. /\ client \in [rx : {client.rx}, gate : Gate, build : 1 .. Len(builds),
                     lastFed : Made \cup {None}]
      /\ decoder \in [build : 1 .. client.build, fed : {decoder.fed}]
  BY <1>1 DEF LoopOK
<1>7. CASE reconfigures
  <2>1. /\ g \in Gate /\ g.first = builds[b].first /\ ~g.open
    <3>1. g = [first |-> builds[b].first, open |-> FALSE,
               asks |-> client.lastFed # None /\ ~Newer(builds[b].first, client.lastFed)]
      BY <1>7, Zenon DEF ClosedGate
    <3>2. (client.lastFed # None /\ ~Newer(builds[b].first, client.lastFed)) \in BOOLEAN
      OBVIOUS
    <3>. HIDE DEF g, b
    <3>. QED BY <1>4, <3>1, <3>2 DEF Gate
  <2>2. d = [build |-> b, fed |-> <<>>]
    BY <1>7
  <2>. HIDE DEF b, g, d
  <2>3. /\ c \in [rx : {client.rx}, gate : Gate, build : 1 .. Len(builds),
                  lastFed : Made \cup {None}]
        /\ c.rx = client.rx /\ c.gate = g /\ c.build = b
    BY <1>3, <1>6, <2>1
  <2>. HIDE DEF c
  <2>4. FedOK(c.gate.first, c.rx.expected, d.fed, lost)
    BY <2>2 DEF FedOK
  <2>5. d \in [build : 1 .. c.build, fed : {d.fed}] /\ d.build = b
    BY <1>3, <2>2, <2>3
  <2>6. LoopOK(c, d, lost)
    BY <1>1, <2>1, <2>3, <2>4, <2>5 DEF LoopOK
  <2>. QED BY <1>2, <1>5, <2>6, ServerStays
<1>8. CASE ~reconfigures
  <2>1. g = client.gate /\ d = decoder
    BY <1>8
  <2>. HIDE DEF b, g, d
  <2>2. /\ c \in [rx : {client.rx}, gate : Gate, build : 1 .. Len(builds),
                  lastFed : Made \cup {None}]
        /\ c.rx = client.rx /\ c.gate = client.gate /\ c.build = b
    BY <1>3, <1>6, <2>1
  <2>. HIDE DEF c
  <2>3. decoder \in [build : 1 .. c.build, fed : {decoder.fed}]
    BY <1>3, <1>6, <2>2
  <2>4. LoopOK(c, d, lost)
    BY <1>1, <2>1, <2>2, <2>3 DEF LoopOK
  <2>. QED BY <1>2, <1>5, <2>4, ServerStays
<1>. QED BY <1>7, <1>8

LEMMA PassStep ==
    ASSUME PathInv, KeepsUp, NEW k \in Releasable(client.rx), NEW elapsed \in BOOLEAN,
           NEW taken \in [1 .. k -> BOOLEAN], Pass(taken, elapsed)
    PROVE  PathInv'
<1>. DEFINE s == [client |-> client, decoder |-> decoder, lost |-> lost, refusals |-> refusals]
            st == Seqs!FoldLeft(Released, s, taken)
            asks == AsksForIdr(st.client.gate, elapsed)
            ticked == IF asks THEN [st.client.gate EXCEPT !.asks = FALSE] ELSE st.client.gate
            evicted == Seqs!ToSet(st.client.rx.abandoned)
            gate == OnLossIf(evicted # {}, ticked)
            c == [st.client EXCEPT !.gate = gate, !.rx.abandoned = <<>>]
<1>1. LogOK /\ BuildsOK /\ LostOK /\ LoopOK(client, decoder, lost)
  BY DEF PathInv
<1>2. /\ client' = c /\ decoder' = st.decoder /\ lost' = st.lost \cup evicted
      /\ refusals' = st.refusals /\ asking' = (asking \/ asks)
      /\ UNCHANGED <<refInvalidation, serverVars>>
  BY Zenon DEF Pass
<1>3. /\ s \in [client : {s.client}, decoder : {s.decoder}, lost : SUBSET Made, refusals : Nat]
      /\ s.client = client /\ s.decoder = decoder /\ s.lost = lost
  BY <1>1 DEF LostOK
<1>. HIDE DEF s
<1>4. k \in 0 .. Cardinality(s.client.rx.queue)
  BY <1>3 DEF Releasable
<1>5. LoopOK(s.client, s.decoder, s.lost) /\ Near(s.client)
  BY <1>1, <1>3 DEF KeepsUp
<1>6. /\ st \in [client : {st.client}, decoder : {st.decoder}, lost : SUBSET Made, refusals : Nat]
      /\ LoopOK(st.client, st.decoder, st.lost) /\ s.lost \subseteq st.lost
  BY <1>1, <1>3, <1>4, <1>5, ReleasesKeep
<1>. HIDE DEF st
<1>7. st.client.gate \in Gate /\ st.client.rx.abandoned \in Seq(Made)
  BY <1>6 DEF LoopOK, RxOK
<1>8. asks \in BOOLEAN
  BY <1>7 DEF AsksForIdr, Gate
<1>. HIDE DEF asks
<1>9. /\ ticked \in Gate /\ ticked.first = st.client.gate.first
      /\ ticked.open = st.client.gate.open
  BY <1>7 DEF Gate
<1>10. evicted \subseteq Made
  BY <1>7 DEF Seqs!ToSet
<1>. HIDE DEF ticked, evicted
<1>11. /\ gate \in Gate /\ gate.first = st.client.gate.first
       /\ gate.open => st.client.gate.open
  <2>1. (evicted # {}) \in BOOLEAN
    OBVIOUS
  <2>. QED BY <1>9, <2>1, OnLossIfCloses
<1>. HIDE DEF gate
<1>12. LoopOK(c, st.decoder, st.lost \cup evicted)
  BY <1>6, <1>11, LoopAgain
<1>13. /\ lost' \subseteq Made /\ lost \subseteq lost' /\ asking' \in BOOLEAN
       /\ refusals' \in Nat
  BY <1>1, <1>2, <1>3, <1>6, <1>8, <1>10 DEF LostOK
<1>. HIDE DEF c
<1>. QED BY <1>2, <1>12, <1>13, ServerStays

LEMMA NextStep == ASSUME PathInv, KeepsUp, [Next]_vars PROVE PathInv'
<1>1. CASE Encode
  BY <1>1, EncodeStep
<1>2. ASSUME NEW look \in {1, 2}, Rebuild(look) PROVE PathInv'
  BY <1>2, RebuildStep
<1>3. ASSUME NEW f \in lost, AbandonArrives(f) PROVE PathInv'
  BY <1>3, AbandonStep
<1>4. CASE RequestIdrArrives
  BY <1>4, RequestIdrStep
<1>5. ASSUME NEW f \in 0 .. Encoded - 1, NEW p \in Index, Receive(f, p) PROVE PathInv'
  BY <1>5, ReceiveStep DEF Made
<1>6. CASE HeadersArrive
  BY <1>6, HeadersStep
<1>7. ASSUME NEW k \in Releasable(client.rx), NEW elapsed \in BOOLEAN,
             NEW taken \in [1 .. k -> BOOLEAN], Pass(taken, elapsed)
      PROVE  PathInv'
  BY <1>7, PassStep
<1>8. CASE UNCHANGED vars
  <2>1. UNCHANGED <<refInvalidation, serverVars>> /\
          UNCHANGED <<client, decoder, lost, refusals, asking>>
    BY <1>8 DEF vars, clientVars
  <2>2. LostOK /\ LoopOK(client, decoder, lost)
    BY DEF PathInv
  <2>3. /\ lost' \subseteq Made /\ lost \subseteq lost' /\ asking' \in BOOLEAN
        /\ refusals' \in Nat
    BY <2>1, <2>2 DEF LostOK
  <2>. QED BY <2>1, <2>2, <2>3, ServerStays
<1>. QED BY <1>1, <1>2, <1>3, <1>4, <1>5, <1>6, <1>7, <1>8 DEF Next, ServerNext, ClientNext

-----------------------------------------------------------------------------
(* What holds of every behaviour that keeps up.                            *)

\* What is held, fed and reported fits the frames as they were encoded, through
\* every loss, recovery, refusal and rebuild.
THEOREM PathInvariance == Spec /\ []KeepsUp => []PathInv
<1>1. Init => PathInv
  BY InitStep
<1>2. PathInv /\ KeepsUp /\ [Next]_vars => PathInv'
  BY NextStep
<1>. QED BY <1>1, <1>2, PTL DEF Spec

\* Every variable keeps its type, and what is in assembly and in the queue stays
\* within the packet pool and the frame slots.
THEOREM TypesAndStorage == Spec /\ []KeepsUp => []TypeOK
<1>1. ASSUME PathInv PROVE TypeOK
  <2>1. LogOK /\ BuildsOK /\ ServerOK /\ LostOK /\ LoopOK(client, decoder, lost)
    BY <1>1 DEF PathInv
  <2>2. Made \subseteq Frames /\ Encoded \in Nat /\ Encoded <= MaxFrames
    BY <2>1, SizesAreNat, VideoBounds DEF LogOK, Made, Frames
  <2>3. server.abandon \in FrameOrNone /\ server.refs \subseteq Frames
    BY <2>1, <2>2 DEF ServerOK, LostOK, FrameOrNone
  <2>4. client.gate \in Gate /\ RxOK(client.rx) /\ decoder.fed \in Seq(Made)
    BY <2>1 DEF LoopOK, FedOK
  <2>5. client.rx.expected \in 0 .. MaxFrames \cup {None}
    BY <2>2, <2>4, VideoBounds DEF RxOK
  <2>6. client.rx.queue \subseteq Frames /\ DOMAIN client.rx.partial \subseteq Frames
    BY <2>2, <2>4 DEF RxOK
  <2>7. decoder.fed \in Seq(Frames)
    BY <2>2, <2>4
  <2>. QED BY <2>1, <2>2, <2>3, <2>4, <2>5, <2>6, <2>7 DEF TypeOK, LogOK, LostOK, RxOK
<1>. QED BY <1>1, PathInvariance, PTL

\* Without reference invalidation, a frame is fed only after the frame it
\* predicts from: the gate closed at every loss and refusal, and opened again
\* only by a keyframe.
THEOREM TheDecoderCanDecode == Spec /\ []KeepsUp => []FedIsDecodable
<1>1. ASSUME PathInv PROVE FedIsDecodable
  <2>. DEFINE fed == decoder.fed
  <2>1. LogOK /\ FedOK(client.gate.first, client.rx.expected, fed, lost)
    BY <1>1 DEF PathInv, LoopOK
  <2>2. fed \in Seq(Made) /\ Len(fed) \in Nat /\ DOMAIN fed = 1 .. Len(fed)
    BY <2>1, FramesOfSeq DEF FedOK
  <2>3. ASSUME ~refInvalidation, NEW i \in DOMAIN fed
        PROVE  IsKey(fed[i]) \/ log[fed[i] + 1].ref \in {fed[j] : j \in 1 .. i - 1}
    <3>1. CASE i = 1
      BY <2>1, <2>2, <3>1 DEF FedOK
    <3>2. CASE i # 1
      <4>1. i \in 2 .. Len(fed) /\ i - 1 \in 1 .. i - 1
        BY <2>2, <3>2
      <4>2. IsKey(fed[i]) \/ fed[i - 1] = fed[i] - 1
        BY <2>1, <2>3, <4>1 DEF FedOK
      <4>3. fed[i] \in Made
        BY <2>2, <2>3, FramesOfSeq
      <4>4. IsKey(fed[i]) \/ log[fed[i] + 1].ref = fed[i] - 1
        BY <2>1, <2>3, <4>3 DEF LogOK
      <4>. QED BY <4>1, <4>2, <4>4
    <3>. QED BY <3>1, <3>2
  <2>. QED BY <2>3 DEF FedIsDecodable, Fed
<1>. QED BY <1>1, PathInvariance, PTL

\* Frames are fed in order, each once, and from a keyframe of the build that the
\* decoder is configured for, or of a later one.
THEOREM TheDecoderIsFedInOrder == Spec /\ []KeepsUp => []FedInOrder
<1>1. ASSUME PathInv PROVE FedInOrder
  <2>. DEFINE fed == decoder.fed
  <2>1. /\ LogOK /\ BuildsOK /\ FedOK(client.gate.first, client.rx.expected, fed, lost)
        /\ client.build \in 1 .. Len(builds) /\ decoder.build \in 1 .. client.build
        /\ client.gate.first = builds[decoder.build].first
    BY <1>1 DEF PathInv, LoopOK
  <2>2. ASSUME fed # <<>> PROVE IsKey(fed[1]) /\ BuildOf(fed[1]) >= decoder.build
    <3>1. fed \in Seq(Made) /\ 1 \in DOMAIN fed
      BY <2>1, <2>2 DEF FedOK
    <3>2. fed[1] \in Made /\ builds[decoder.build].first <= fed[1]
      BY <2>1, <3>1, FramesOfSeq DEF FedOK
    <3>3. decoder.build \in 1 .. Len(builds)
      BY <2>1 DEF BuildsOK
    <3>4. decoder.build <= BuildOf(fed[1])
      BY <2>1, <3>2, <3>3 DEF LogOK
    <3>5. BuildOf(fed[1]) \in Int
      BY <2>1, <3>2, LogFields
    <3>. QED BY <2>1, <2>2, <3>3, <3>4, <3>5 DEF FedOK
  <2>. QED BY <2>1, <2>2 DEF FedInOrder, Fed, FedOK
<1>. QED BY <1>1, PathInvariance, PTL

\* Between two frames fed, the loss of all that is missing was reported, unless
\* a keyframe made up for it.
THEOREM NoGapIsSilent == Spec /\ []KeepsUp => []NoSilentGap
<1>1. ASSUME PathInv PROVE NoSilentGap
  <2>1. FedOK(client.gate.first, client.rx.expected, decoder.fed, lost)
    BY <1>1 DEF PathInv, LoopOK
  <2>. QED BY <2>1 DEF FedOK, Covered, NoSilentGap, Fed
<1>. QED BY <1>1, PathInvariance, PTL

-----------------------------------------------------------------------------
(* The next frame avoids the oldest loss.                                  *)

\* upTo is the function that Ancestry is defined by.
Ancestors(upTo, l, n) ==
    upTo = [g \in 0 .. n |-> {g} \cup (IF l[g + 1].key THEN {} ELSE upTo[l[g + 1].ref])]

PredictsBack(l, n) == \A g \in 0 .. n : l[g + 1].key \/ l[g + 1].ref \in 0 .. g - 1

\* There is such a function where frames predict from older ones.
LEMMA AncestorsExist ==
    ASSUME NEW l, NEW n \in Nat, PredictsBack(l, n)
    PROVE  \E u : Ancestors(u, l, n)
<1>. DEFINE T == {k \in Nat : k <= n => \E u : Ancestors(u, l, k)}
<1>1. 0 \in T
  <2>1. l[1].key
    BY DEF PredictsBack
  <2>. DEFINE h == [g \in 0 .. 0 |-> {g}]
  <2>2. h = [g \in 0 .. 0 |-> {g} \cup (IF l[g + 1].key THEN {} ELSE h[l[g + 1].ref])]
    BY <2>1
  <2>3. Ancestors(h, l, 0)
    BY <2>2, Zenon DEF Ancestors
  <2>. QED BY <2>3
<1>2. ASSUME NEW k \in Nat, k \in T PROVE k + 1 \in T
  <2>. SUFFICES ASSUME k + 1 <= n PROVE \E u : Ancestors(u, l, k + 1)
    OBVIOUS
  <2>1. PICK u : Ancestors(u, l, k)
    BY <1>2
  <2>. DEFINE h == [g \in 0 .. k + 1 |->
                      IF g = k + 1
                        THEN {g} \cup (IF l[g + 1].key THEN {} ELSE u[l[g + 1].ref])
                        ELSE u[g]]
  <2>2. ASSUME NEW g \in 0 .. k + 1
        PROVE  h[g] = {g} \cup (IF l[g + 1].key THEN {} ELSE h[l[g + 1].ref])
    <3>1. l[g + 1].key \/ l[g + 1].ref \in 0 .. g - 1
      BY DEF PredictsBack
    <3>2. ~l[g + 1].key => h[l[g + 1].ref] = u[l[g + 1].ref]
      BY <3>1
    <3>3. CASE g = k + 1
      BY <3>2, <3>3
    <3>4. CASE g # k + 1
      <4>1. g \in 0 .. k /\ h[g] = u[g]
        BY <3>4
      <4>2. u[g] = {g} \cup (IF l[g + 1].key THEN {} ELSE u[l[g + 1].ref])
        BY <2>1, <4>1, Zenon DEF Ancestors
      <4>. HIDE DEF h
      <4>. QED BY <3>2, <4>1, <4>2
    <3>. QED BY <3>3, <3>4
  <2>3. DOMAIN h = 0 .. k + 1 /\ h = [g \in DOMAIN h |-> h[g]]
    OBVIOUS
  <2>. HIDE DEF h
  <2>4. h = [g \in 0 .. k + 1 |-> {g} \cup (IF l[g + 1].key THEN {} ELSE h[l[g + 1].ref])]
    BY <2>2, <2>3
  <2>5. Ancestors(h, l, k + 1)
    BY <2>4, Zenon DEF Ancestors
  <2>. QED BY <2>5
<1>. HIDE DEF T
<1>3. n \in T
  BY <1>1, <1>2, Releasing!SetInduction
<1>. QED BY <1>3 DEF T

\* What a frame is predicted from is at or before it: itself, and the ancestry
\* of its reference.
LEMMA AncestryIsOlder ==
    ASSUME NEW l, NEW n \in Nat, PredictsBack(l, n)
    PROVE  /\ Ancestry(l, n) \subseteq 0 .. n
           /\ l[n + 1].key => Ancestry(l, n) = {n}
           /\ ~l[n + 1].key => Ancestry(l, n) \subseteq 0 .. l[n + 1].ref \cup {n}
<1>. DEFINE u == CHOOSE u : Ancestors(u, l, n)
            B == {g \in 0 .. n : ~(u[g] \subseteq 0 .. g)}
<1>1. Ancestors(u, l, n)
  BY AncestorsExist
<1>2. Ancestry(l, n) = u[n]
  BY Zenon DEF Ancestry, Ancestors
<1>. HIDE DEF u
<1>3. ASSUME NEW g \in 0 .. n
      PROVE  /\ l[g + 1].key => u[g] = {g}
             /\ ~l[g + 1].key => u[g] = {g} \cup u[l[g + 1].ref] /\ l[g + 1].ref \in 0 .. g - 1
  <2>1. u[g] = {g} \cup (IF l[g + 1].key THEN {} ELSE u[l[g + 1].ref])
    BY <1>1, Zenon DEF Ancestors
  <2>. QED BY <2>1 DEF PredictsBack
<1>4. ASSUME B # {} PROVE FALSE
  <2>0. B \subseteq 0 .. n /\ B \subseteq Nat /\
          \A g \in 0 .. n : g \in B <=> ~(u[g] \subseteq 0 .. g)
    OBVIOUS
  <2>. HIDE DEF B
  <2>1. PICK g \in B : \A h \in B : g <= h
    BY <1>4, <2>0, LeastFrame
  <2>2. CASE l[g + 1].key
    BY <1>3, <2>0, <2>1, <2>2
  <2>3. CASE ~l[g + 1].key
    <3>. DEFINE r == l[g + 1].ref
    <3>1. r \in 0 .. g - 1 /\ u[g] = {g} \cup u[r]
      BY <1>3, <2>0, <2>1, <2>3
    <3>. HIDE DEF r
    <3>2. g \in 0 .. n /\ r \in 0 .. n /\ r < g
      BY <2>0, <2>1, <3>1
    <3>3. u[r] \subseteq 0 .. r
      BY <2>0, <2>1, <3>2
    <3>4. u[g] \subseteq 0 .. g
      BY <3>1, <3>2, <3>3
    <3>. QED BY <2>0, <2>1, <3>2, <3>4
  <2>. QED BY <2>2, <2>3
<1>5. \A g \in 0 .. n : u[g] \subseteq 0 .. g
  BY <1>4
<1>. QED BY <1>2, <1>3, <1>5

\* The oldest loss the server has learned of is behind a keyframe or an
\* invalidation, unless it is taken for old news.
THEOREM OldestLossIsBehind == Spec /\ []KeepsUp => OldestLossIsAvoided
<1>1. ASSUME PathInv, PathInv', [Next]_vars, Len(log') > Len(log), NEW f \in noted
      PROVE  \/ \E g \in noted : Newer(f, g)
             \/ OldNews(server.window, f)
             \/ f \notin Ancestry(log', Encoded)
  <2>. DEFINE a == server.abandon
              c == Coded(server)
  <2>1. LogOK /\ ServerOK /\ LostOK /\ LogOK' /\ Encoded \in Nat /\ Len(log) = Encoded
    BY <1>1, SizesAreNat DEF PathInv, Encoded
  <2>2. Encode
    <3>1. ~UNCHANGED log
      BY <1>1, <2>1
    <3>2. ClientNext => UNCHANGED log
      BY DEF ClientNext, Receive, HeadersArrive, Pass, serverVars
    <3>3. ServerNext => Encode \/ UNCHANGED log
      BY DEF ServerNext, Rebuild, AbandonArrives, RequestIdrArrives
    <3>4. UNCHANGED vars => UNCHANGED log
      BY DEF vars, serverVars
    <3>. QED BY <1>1, <3>1, <3>2, <3>3, <3>4 DEF Next
  <2>3. /\ f \in Made /\ f \in Nat /\ f < Encoded /\ Encoded - f <= MaxReportLag
        /\ a \in noted /\ a \in Nat /\ a <= f /\ Encoded - a <= MaxReportLag /\ a < Encoded
    <3>1. noted \subseteq Made /\ a \in noted /\ a <= f
      BY <2>1 DEF ServerOK, LostOK
    <3>2. f \in Made /\ a \in Made
      BY <3>1
    <3>3. Encoded - f <= MaxReportLag /\ Encoded - a <= MaxReportLag
      BY <2>1, <3>1 DEF ServerOK
    <3>. HIDE DEF a
    <3>4. f \in Nat /\ f < Encoded /\ a \in Nat /\ a < Encoded
      BY <2>1, <3>2, LogFields
    <3>. QED BY <3>1, <3>2, <3>3, <3>4
  <2>4. CASE a # f
    <3>1. f - a < Half /\ a - f < Half
      BY <2>1, <2>3, SizesAreNat, LagAssumption, VideoBounds
    <3>2. Newer(f, a) <=> a < f
      BY <2>3, <3>1, NewerIsLater
    <3>. QED BY <2>3, <2>4, <3>2
  <2>5. CASE a = f
    <3>1. /\ Encoded' = Encoded + 1 /\ log'[Encoded + 1] = c
      <4>. DEFINE S == [key : BOOLEAN, ref : FrameOrNone, build : 1 .. MaxBuilds]
      <4>1. log' = Append(log, c) /\ log \in Seq(S)
        BY <2>1, <2>2 DEF Encode, LogOK
      <4>. HIDE DEF S, c
      <4>. QED BY <4>1 DEF Encoded
    <3>2. PredictsBack(log', Encoded)
      <4>1. 0 .. Encoded = Made'
        BY <2>1, <3>1 DEF Made
      <4>2. \A g \in Made' : log'[g + 1].key \/ log'[g + 1].ref \in 0 .. g - 1
        BY <2>1 DEF LogOK, IsKey
      <4>. QED BY <4>1, <4>2 DEF PredictsBack
    <3>3. /\ c.key => Ancestry(log', Encoded) = {Encoded}
          /\ ~c.key => Ancestry(log', Encoded) \subseteq 0 .. c.ref \cup {Encoded}
      BY <2>1, <3>1, <3>2, AncestryIsOlder
    <3>4. /\ c.key \in BOOLEAN
          /\ ~c.key => c.ref \in UsableRefs(server) /\ Recovery(server) # "idr"
                       /\ c.ref \in Made
      BY <1>1, <2>2, CodedFields DEF Encode
    <3>. HIDE DEF c
    <3>5. CASE c.key
      BY <2>3, <3>3, <3>5
    <3>6. CASE ~c.key /\ OldNews(server.window, f)
      BY <3>6
    <3>7. CASE ~c.key /\ ~OldNews(server.window, f)
      <4>1. a # None
        BY <2>3, NoneIsNoFrame
      <4>2. Recovery(server) = Verdict(server.window, f) /\ Recovery(server) # "idr"
        BY <2>5, <3>4, <3>7, <4>1 DEF Recovery
      <4>3. Recovery(server) = "invalidate"
        BY <3>7, <4>2 DEF Verdict
      <4>4. c.ref \notin a .. server.window.newest
        BY <3>4, <3>7, <4>3 DEF UsableRefs, InvalidatedBy
      <4>5. server.window.newest = Encoded - 1
        BY <2>1 DEF ServerOK
      <4>6. c.ref < f
        BY <2>1, <2>3, <2>5, <3>4, <3>7, <4>4, <4>5 DEF Made
      <4>7. f \notin 0 .. c.ref \cup {Encoded}
        BY <2>3, <3>4, <3>7, <4>6 DEF Made
      <4>. QED BY <3>3, <3>7, <4>7
    <3>. QED BY <3>4, <3>5, <3>6, <3>7
  <2>. QED BY <2>4, <2>5
<1>2. PathInv /\ PathInv' /\ [Next]_vars =>
        [Len(log') > Len(log) =>
           \A f \in noted : \/ \E g \in noted : Newer(f, g)
                            \/ OldNews(server.window, f)
                            \/ f \notin Ancestry(log', Encoded)]_vars
  BY <1>1
<1>. QED BY <1>2, PathInvariance, PTL DEF Spec, OldestLossIsAvoided


=============================================================================
