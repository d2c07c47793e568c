------------------------------ MODULE LeftFolds ------------------------------
(***************************************************************************)
(* Induction over the loops of the model: what holds before a FoldLeft and *)
(* is kept by each of its steps holds after it, for a sequence of any      *)
(* length.  The step and what is kept are parameters of the module, so a   *)
(* proof names them in an INSTANCE and cites FoldKeeps of that instance.   *)
(***************************************************************************)
EXTENDS Integers, Sequences, WellFoundedInduction, TLAPS

SX == INSTANCE SequencesExt

CONSTANTS Step(_, _, _),  \* in a context: the value so far and an element to the next value
          Good(_, _, _)   \* in a context: what holds of the value after so many elements

Fold(ctx, base, seq) == SX!FoldLeft(LAMBDA x, y : Step(ctx, x, y), base, seq)

\* A nonempty set of natural numbers has a least element.
LEMMA LeastNumber ==
    ASSUME NEW T, T \subseteq Nat, T # {}
    PROVE  \E x \in T : \A y \in T : x <= y
<1>1. PICK x \in T : \A y \in T : ~ (<<y, x>> \in OpToRel(<, Nat))
  BY WFMin, NatLessThanWellFounded
<1>2. \A y \in T : ~ (y < x)
  BY <1>1 DEF OpToRel
<1>. QED BY <1>2

\* Induction, of a set instead of a predicate.
LEMMA SetInduction ==
    ASSUME NEW T, 0 \in T, \A n \in Nat : n \in T => n + 1 \in T
    PROVE  Nat \subseteq T
<1>. DEFINE B == Nat \ T
<1>1. ASSUME B # {} PROVE FALSE
  <2>1. PICK x \in B : \A y \in B : x <= y
    BY <1>1, LeastNumber
  <2>2. x # 0 /\ x - 1 \in Nat
    BY <2>1
  <2>3. x - 1 \notin B
    BY <2>1, <2>2
  <2>. QED BY <2>1, <2>2, <2>3
<1>. QED BY <1>1

\* g is the function FoldLeft is defined by, on the sets of indices up to k: it
\* takes the largest index last.
Folds(g, ctx, base, seq, k) ==
    g = [s \in SUBSET (1 .. k) |->
            IF s = {} THEN base ELSE Step(ctx, g[s \ {SX!Max(s)}], seq[SX!Max(s)])]

\* The largest index of a set that holds the largest there is.
LEMMA LargestIndex ==
    ASSUME NEW k \in Nat, NEW s \in SUBSET (1 .. k + 1), k + 1 \in s
    PROVE  SX!Max(s) = k + 1
<1>1. k + 1 \in s /\ \A y \in s : k + 1 >= y
  OBVIOUS
<1>2. \A x \in s : (\A y \in s : x >= y) => x = k + 1
  OBVIOUS
<1>. QED BY <1>1, <1>2 DEF SX!Max

\* There is such a function, however long the sequence.
LEMMA FoldExists ==
    ASSUME NEW ctx, NEW base, NEW seq, NEW n \in Nat
    PROVE  \E g : Folds(g, ctx, base, seq, n)
<1>. DEFINE T == {k \in Nat : \E g : Folds(g, ctx, base, seq, k)}
<1>1. 0 \in T
  <2>1. Folds([s \in SUBSET (1 .. 0) |-> base], ctx, base, seq, 0)
    BY DEF Folds
  <2>. QED BY <2>1
<1>2. ASSUME NEW k \in Nat, k \in T PROVE k + 1 \in T
  <2>1. PICK g : Folds(g, ctx, base, seq, k)
    BY <1>2
  <2>. DEFINE h == [s \in SUBSET (1 .. k + 1) |->
                      IF k + 1 \in s THEN Step(ctx, g[s \ {k + 1}], seq[k + 1]) ELSE g[s]]
  <2>2. ASSUME NEW s \in SUBSET (1 .. k + 1)
        PROVE  h[s] = IF s = {} THEN base
                                ELSE Step(ctx, h[s \ {SX!Max(s)}], seq[SX!Max(s)])
    <3>1. CASE k + 1 \in s
      <4>1. SX!Max(s) = k + 1 /\ s # {}
        BY <3>1, LargestIndex
      <4>2. h[s \ {k + 1}] = g[s \ {k + 1}]
        BY <2>2
      <4>. QED BY <3>1, <4>1, <4>2, Zenon
    <3>2. CASE k + 1 \notin s
      <4>1. s \in SUBSET (1 .. k) /\ h[s] = g[s]
        BY <3>2
      <4>2. g[s] = IF s = {} THEN base
                             ELSE Step(ctx, g[s \ {SX!Max(s)}], seq[SX!Max(s)])
        BY <4>1, <2>1, Zenon DEF Folds
      <4>3. h[s \ {SX!Max(s)}] = g[s \ {SX!Max(s)}]
        BY <4>1, <3>2
      <4>. QED BY <4>1, <4>2, <4>3, Zenon
    <3>. QED BY <3>1, <3>2
  <2>3. h = [s \in SUBSET (1 .. k + 1) |->
               IF s = {} THEN base ELSE Step(ctx, h[s \ {SX!Max(s)}], seq[SX!Max(s)])]
    <3>1. DOMAIN h = SUBSET (1 .. k + 1) /\ h = [s \in DOMAIN h |-> h[s]]
      OBVIOUS
    <3>. HIDE DEF h
    <3>. QED BY <2>2, <3>1
  <2>4. Folds(h, ctx, base, seq, k + 1)
    BY <2>3, Zenon DEF Folds
  <2>. HIDE DEF h
  <2>. QED BY <1>2, <2>4
<1>. HIDE DEF T
<1>3. n \in T
  BY <1>1, <1>2, SetInduction
<1>. QED BY <1>3 DEF T

\* What holds at the start, and is kept by every element in its turn, holds at
\* the end.
LEMMA FoldKeeps ==
    ASSUME NEW ctx, NEW base, NEW S, NEW seq \in Seq(S), Good(ctx, 0, base),
           \A i \in 1 .. Len(seq) : \A x :
              Good(ctx, i - 1, x) => Good(ctx, i, Step(ctx, x, seq[i]))
    PROVE  Good(ctx, Len(seq), Fold(ctx, base, seq))
<1>. DEFINE n == Len(seq)
            g == CHOOSE g : Folds(g, ctx, base, seq, n)
            T == {k \in Nat : k <= n => Good(ctx, k, g[1 .. k])}
<1>1. n \in Nat /\ DOMAIN seq = 1 .. n
  OBVIOUS
<1>2. Folds(g, ctx, base, seq, n)
  BY <1>1, FoldExists
<1>3. Fold(ctx, base, seq) = g[1 .. n]
  BY <1>1, Zenon DEF Fold, SX!FoldLeft, SX!MapThenFoldSet, Folds
<1>. HIDE DEF g, n
<1>4. ASSUME NEW s \in SUBSET (1 .. n)
      PROVE  g[s] = IF s = {} THEN base
                              ELSE Step(ctx, g[s \ {SX!Max(s)}], seq[SX!Max(s)])
  BY <1>2, Zenon DEF Folds
<1>5. 0 \in T
  <2>1. 1 .. 0 \in SUBSET (1 .. n) /\ 1 .. 0 = {}
    OBVIOUS
  <2>2. g[1 .. 0] = base
    BY <1>4, <2>1
  <2>. QED BY <2>2
<1>6. ASSUME NEW k \in Nat, k \in T PROVE k + 1 \in T
  <2>. SUFFICES ASSUME k + 1 <= n PROVE Good(ctx, k + 1, g[1 .. k + 1])
    OBVIOUS
  <2>1. k + 1 \in 1 .. k + 1
    OBVIOUS
  <2>2. 1 .. k + 1 \in SUBSET (1 .. n)
    BY <1>1
  <2>3. SX!Max(1 .. k + 1) = k + 1 /\ (1 .. k + 1) \ {k + 1} = 1 .. k
    BY LargestIndex
  <2>4. g[1 .. k + 1] = Step(ctx, g[1 .. k], seq[k + 1])
    BY <1>4, <2>1, <2>2, <2>3
  <2>5. Good(ctx, k, g[1 .. k]) /\ k + 1 \in 1 .. n /\ (k + 1) - 1 = k
    BY <1>1, <1>6
  <2>6. Good(ctx, k + 1, Step(ctx, g[1 .. k], seq[k + 1]))
    BY <2>5 DEF n
  <2>. QED BY <2>4, <2>6
<1>7. n \in T
  <2>. HIDE DEF T
  <2>. QED BY <1>1, <1>5, <1>6, SetInduction
<1>. QED BY <1>1, <1>3, <1>7 DEF n

\* An element more is a step more.
THEOREM FoldAppend ==
    ASSUME NEW ctx, NEW base, NEW S, NEW pre \in Seq(S), NEW x \in S
    PROVE  Fold(ctx, base, Append(pre, x)) = Step(ctx, Fold(ctx, base, pre), x)
<1>. DEFINE n == Len(pre)
            seq == Append(pre, x)
            g == CHOOSE g : Folds(g, ctx, base, seq, n + 1)
            h == CHOOSE h : Folds(h, ctx, base, pre, n)
            T == {k \in Nat : k <= n => g[1 .. k] = h[1 .. k]}
<1>1. n \in Nat /\ Len(seq) = n + 1 /\ DOMAIN seq = 1 .. n + 1 /\ DOMAIN pre = 1 .. n
      /\ seq[n + 1] = x /\ \A i \in 1 .. n : seq[i] = pre[i]
  OBVIOUS
<1>2. Folds(g, ctx, base, seq, n + 1) /\ Folds(h, ctx, base, pre, n)
  <2>1. n \in Nat /\ n + 1 \in Nat
    BY <1>1
  <2>2. (\E f : Folds(f, ctx, base, seq, n + 1)) /\ (\E f : Folds(f, ctx, base, pre, n))
    BY <2>1, FoldExists
  <2>. QED BY <2>2, Zenon
<1>3. Fold(ctx, base, seq) = g[1 .. n + 1] /\ Fold(ctx, base, pre) = h[1 .. n]
  BY <1>1, Zenon DEF Fold, SX!FoldLeft, SX!MapThenFoldSet, Folds
<1>. HIDE DEF g, h, n, seq
<1>4. ASSUME NEW k \in Nat, k + 1 <= n + 1
      PROVE  g[1 .. k + 1] = Step(ctx, g[1 .. k], seq[k + 1])
  <2>1. k + 1 \in 1 .. k + 1
    OBVIOUS
  <2>2. 1 .. k + 1 \in SUBSET (1 .. n + 1)
    BY <1>1, <1>4
  <2>3. SX!Max(1 .. k + 1) = k + 1 /\ (1 .. k + 1) \ {k + 1} = 1 .. k
    BY LargestIndex
  <2>4. ASSUME NEW s \in SUBSET (1 .. n + 1)
        PROVE  g[s] = IF s = {} THEN base
                                ELSE Step(ctx, g[s \ {SX!Max(s)}], seq[SX!Max(s)])
    BY <1>2, Zenon DEF Folds
  <2>. QED BY <2>1, <2>2, <2>3, <2>4
<1>5. ASSUME NEW k \in Nat, k + 1 <= n
      PROVE  h[1 .. k + 1] = Step(ctx, h[1 .. k], pre[k + 1])
  <2>1. k + 1 \in 1 .. k + 1
    OBVIOUS
  <2>2. 1 .. k + 1 \in SUBSET (1 .. n)
    BY <1>1, <1>5
  <2>3. SX!Max(1 .. k + 1) = k + 1 /\ (1 .. k + 1) \ {k + 1} = 1 .. k
    BY LargestIndex
  <2>4. ASSUME NEW s \in SUBSET (1 .. n)
        PROVE  h[s] = IF s = {} THEN base
                                ELSE Step(ctx, h[s \ {SX!Max(s)}], pre[SX!Max(s)])
    BY <1>2, Zenon DEF Folds
  <2>. QED BY <2>1, <2>2, <2>3, <2>4
<1>6. 0 \in T
  <2>1. 1 .. 0 \in SUBSET (1 .. n + 1) /\ 1 .. 0 \in SUBSET (1 .. n) /\ 1 .. 0 = {}
    OBVIOUS
  <2>2. g[1 .. 0] = base /\ h[1 .. 0] = base
    BY <1>2, <2>1, Zenon DEF Folds
  <2>. QED BY <2>2
<1>7. ASSUME NEW k \in Nat, k \in T PROVE k + 1 \in T
  <2>. SUFFICES ASSUME k + 1 <= n PROVE g[1 .. k + 1] = h[1 .. k + 1]
    OBVIOUS
  <2>1. g[1 .. k] = h[1 .. k] /\ k + 1 <= n + 1 /\ seq[k + 1] = pre[k + 1]
    BY <1>1, <1>7
  <2>. QED BY <1>4, <1>5, <2>1
<1>8. n \in T
  <2>. HIDE DEF T
  <2>. QED BY <1>1, <1>6, <1>7, SetInduction
<1>9. g[1 .. n + 1] = Step(ctx, g[1 .. n], seq[n + 1])
  BY <1>1, <1>4
<1>10. g[1 .. n] = h[1 .. n]
  BY <1>1, <1>8
<1>. QED BY <1>1, <1>3, <1>9, <1>10 DEF seq

\* No element, no step.
THEOREM FoldOfNone ==
    ASSUME NEW ctx, NEW base
    PROVE  Fold(ctx, base, <<>>) = base
<1>. DEFINE g == CHOOSE g : Folds(g, ctx, base, <<>>, 0)
<1>1. Folds(g, ctx, base, <<>>, 0)
  BY FoldExists
<1>2. Len(<<>>) = 0 /\ DOMAIN <<>> = 1 .. 0
  OBVIOUS
<1>3. Fold(ctx, base, <<>>) = g[1 .. 0]
  BY <1>2, Zenon DEF Fold, SX!FoldLeft, SX!MapThenFoldSet, Folds
<1>4. 1 .. 0 \in SUBSET (1 .. 0) /\ 1 .. 0 = {}
  OBVIOUS
<1>. HIDE DEF g
<1>. QED BY <1>1, <1>3, <1>4, Zenon DEF Folds

==============================================================================
