------------------------------ MODULE SeqArith ------------------------------
(***************************************************************************)
(* The wrapping 16-bit sequence numbers of sunburst-core/src/proto/seq.rs. *)
(* The modulus is a parameter: 65536 in the code, small in a TLC instance. *)
(* Values never leave 0 .. SeqMod-1, so a wrapping subtraction or          *)
(* increment needs no more than one correction by the modulus.             *)
(***************************************************************************)
EXTENDS Integers, TLAPS

CONSTANT SeqMod    \* size of the sequence space, 65536 in the code

ASSUME SeqModAssumption == /\ SeqMod \in Nat
                           /\ SeqMod > 2
                           /\ SeqMod % 2 = 0

Half == SeqMod \div 2

SeqNum == 0 .. SeqMod - 1

\* u16::wrapping_sub: how far a lies ahead of b going forward round the circle.
Forward(a, b) == IF a >= b THEN a - b ELSE a - b + SeqMod

\* Mutant of IsNewerThan: the plain comparison, blind to the wrap.
NewerUnwrapped(a, b) == a > b

\* Exactly half the space ahead is ambiguous and reported as not newer.
IsNewerThan(a, b) == Forward(a, b) # 0 /\ Forward(a, b) < Half

\* The wrapped difference read as an i16, in -Half .. Half-1.
DistanceFrom(a, b) ==
    IF Forward(a, b) < Half THEN Forward(a, b) ELSE Forward(a, b) - SeqMod

\* i places after a, for i no larger than the modulus.
Plus(a, i) == IF a + i < SeqMod THEN a + i ELSE a + i - SeqMod

NextSeq(a) == Plus(a, 1)

\* The numbers the messages from the a-th up to but not including the b-th
\* travel under, counting from 0.
Slots(a, b) == {n % SeqMod : n \in a .. b - 1}

-----------------------------------------------------------------------------
(* Numbers and counts.  The wrapped comparisons decide the order of the    *)
(* counts they stand for, as long as these are less than half the space    *)
(* apart.                                                                  *)

\* A quotient and a remainder of n by SeqMod are its only ones.
LEMMA Remainder ==
    ASSUME NEW n \in Int
    PROVE  /\ n % SeqMod \in SeqNum
           /\ \E q \in Int : n = SeqMod * q + (n % SeqMod)
<1>1. n % SeqMod \in SeqNum
  BY SeqModAssumption DEF SeqNum
<1>2. n = SeqMod * (n \div SeqMod) + (n % SeqMod) /\ n \div SeqMod \in Int
  BY SeqModAssumption
<1>. QED BY <1>1, <1>2

\* Only one number of the space differs from n by a multiple of its size.
LEMMA OneRemainder ==
    ASSUME NEW q1 \in Int, NEW q2 \in Int, NEW r1 \in SeqNum, NEW r2 \in SeqNum,
           SeqMod * q1 + r1 = SeqMod * q2 + r2
    PROVE  r1 = r2
<1>1. CASE q1 = q2
  BY <1>1, SeqModAssumption DEF SeqNum
<1>2. CASE q1 < q2
  <2>1. SeqMod * (q2 - q1) >= SeqMod
    BY <1>2, SeqModAssumption
  <2>2. SeqMod * (q2 - q1) = r1 - r2
    BY SeqModAssumption DEF SeqNum
  <2>. QED BY <2>1, <2>2, SeqModAssumption DEF SeqNum
<1>3. CASE q2 < q1
  <2>1. SeqMod * (q1 - q2) >= SeqMod
    BY <1>3, SeqModAssumption
  <2>2. SeqMod * (q1 - q2) = r2 - r1
    BY SeqModAssumption DEF SeqNum
  <2>. QED BY <2>1, <2>2, SeqModAssumption DEF SeqNum
<1>. QED BY <1>1, <1>2, <1>3

\* Counts less than the whole space apart: Forward is their difference.
LEMMA ForwardOfCounts ==
    ASSUME NEW a \in Int, NEW b \in Int, b <= a, a - b < SeqMod
    PROVE  Forward(a % SeqMod, b % SeqMod) = a - b
<1>. DEFINE r == a % SeqMod
            s == b % SeqMod
<1>1. PICK q \in Int : a = SeqMod * q + r
  BY Remainder
<1>2. PICK t \in Int : b = SeqMod * t + s
  BY Remainder
<1>3. r \in SeqNum /\ s \in SeqNum
  BY Remainder
<1>. HIDE DEF r, s
<1>4. CASE r >= s
  <2>1. SeqMod * q + (r - s) = SeqMod * t + (a - b)
    BY <1>1, <1>2, <1>3, SeqModAssumption DEF SeqNum
  <2>2. r - s \in SeqNum /\ a - b \in SeqNum
    BY <1>3, <1>4, SeqModAssumption DEF SeqNum
  <2>3. r - s = a - b
    BY <2>1, <2>2, OneRemainder
  <2>. QED BY <2>3, <1>4 DEF Forward, r, s
<1>5. CASE r < s
  <2>1. SeqMod * (q - 1) + (r - s + SeqMod) = SeqMod * t + (a - b)
    BY <1>1, <1>2, <1>3, SeqModAssumption DEF SeqNum
  <2>2. r - s + SeqMod \in SeqNum /\ a - b \in SeqNum
    BY <1>3, <1>5, SeqModAssumption DEF SeqNum
  <2>3. r - s + SeqMod = a - b
    BY <2>1, <2>2, OneRemainder
  <2>. QED BY <2>3, <1>5, <1>3 DEF Forward, r, s, SeqNum
<1>. QED BY <1>3, <1>4, <1>5 DEF SeqNum

\* Behind instead of ahead: Forward goes the long way round.
LEMMA ForwardOfCountsBehind ==
    ASSUME NEW a \in Int, NEW b \in Int, a < b, b - a < SeqMod
    PROVE  Forward(a % SeqMod, b % SeqMod) = a - b + SeqMod
<1>1. Forward(b % SeqMod, a % SeqMod) = b - a
  BY ForwardOfCounts
<1>2. a % SeqMod \in SeqNum /\ b % SeqMod \in SeqNum
  BY Remainder
<1>. QED BY <1>1, <1>2, SeqModAssumption DEF Forward, SeqNum

\* The space is even and holds at least two numbers.
LEMMA HalfOfSpace == Half \in Nat /\ 1 < Half + 1 /\ Half + Half = SeqMod
<1>1. SeqMod = 2 * (SeqMod \div 2) + (SeqMod % 2) /\ SeqMod \div 2 \in Int
  BY SeqModAssumption
<1>. QED BY <1>1, SeqModAssumption DEF Half

\* Within half the space, newer means further on in the stream.
LEMMA NewerOfCounts ==
    ASSUME NEW a \in Int, NEW b \in Int, a - b < Half, b - a < Half
    PROVE  IsNewerThan(a % SeqMod, b % SeqMod) <=> b < a
<1>1. CASE b <= a
  <2>1. Forward(a % SeqMod, b % SeqMod) = a - b
    BY <1>1, ForwardOfCounts, HalfOfSpace
  <2>. QED BY <1>1, <2>1, HalfOfSpace DEF IsNewerThan
<1>2. CASE a < b
  <2>1. Forward(a % SeqMod, b % SeqMod) = a - b + SeqMod
    BY <1>2, ForwardOfCountsBehind, HalfOfSpace
  <2>. QED BY <1>2, <2>1, HalfOfSpace DEF IsNewerThan
<1>. QED BY <1>1, <1>2

\* Within half the space, the wrapped distance is the distance in the stream.
LEMMA DistanceOfCounts ==
    ASSUME NEW a \in Int, NEW b \in Int, a - b < Half, b - a < Half
    PROVE  DistanceFrom(a % SeqMod, b % SeqMod) = a - b
<1>1. CASE b <= a
  BY <1>1, ForwardOfCounts, HalfOfSpace DEF DistanceFrom
<1>2. CASE a < b
  <2>1. Forward(a % SeqMod, b % SeqMod) = a - b + SeqMod
    BY <1>2, ForwardOfCountsBehind, HalfOfSpace
  <2>. QED BY <1>2, <2>1, HalfOfSpace DEF DistanceFrom
<1>. QED BY <1>1, <1>2

\* Going i places round the circle is going i messages on in the stream.
LEMMA PlusOfCounts ==
    ASSUME NEW a \in Int, NEW i \in 0 .. SeqMod
    PROVE  Plus(a % SeqMod, i) = (a + i) % SeqMod
<1>. DEFINE r == a % SeqMod
            s == (a + i) % SeqMod
<1>1. PICK q \in Int : a = SeqMod * q + r
  BY Remainder
<1>2. PICK t \in Int : a + i = SeqMod * t + s
  BY Remainder
<1>3. r \in SeqNum /\ s \in SeqNum
  BY Remainder
<1>. HIDE DEF r, s
<1>4. CASE r + i < SeqMod
  <2>1. SeqMod * q + (r + i) = SeqMod * t + s
    BY <1>1, <1>2, <1>3, SeqModAssumption DEF SeqNum
  <2>2. r + i \in SeqNum
    BY <1>3, <1>4, SeqModAssumption DEF SeqNum
  <2>3. r + i = s
    BY <2>1, <2>2, <1>3, OneRemainder
  <2>. QED BY <2>3, <1>4 DEF Plus, r, s
<1>5. CASE r + i >= SeqMod
  <2>1. SeqMod * (q + 1) + (r + i - SeqMod) = SeqMod * t + s
    BY <1>1, <1>2, <1>3, SeqModAssumption DEF SeqNum
  <2>2. r + i - SeqMod \in SeqNum
    BY <1>3, <1>5, SeqModAssumption DEF SeqNum
  <2>3. r + i - SeqMod = s
    BY <2>1, <2>2, <1>3, OneRemainder
  <2>. QED BY <2>3, <1>5, <1>3, SeqModAssumption DEF Plus, r, s, SeqNum
<1>. QED BY <1>3, <1>4, <1>5, SeqModAssumption DEF SeqNum

\* Two counts less than the whole space apart share a number only if equal.
LEMMA SameNumber ==
    ASSUME NEW a \in Int, NEW b \in Int, a - b < SeqMod, b - a < SeqMod,
           a % SeqMod = b % SeqMod
    PROVE  a = b
<1>1. a % SeqMod \in SeqNum
  BY Remainder
<1>2. Forward(a % SeqMod, b % SeqMod) = 0
  BY <1>1 DEF Forward, SeqNum
<1>3. CASE b <= a
  BY <1>2, <1>3, ForwardOfCounts
<1>4. CASE a < b
  <2>1. Forward(a % SeqMod, b % SeqMod) = a - b + SeqMod
    BY <1>4, ForwardOfCountsBehind
  <2>. QED BY <1>2, <2>1, SeqModAssumption
<1>. QED BY <1>3, <1>4

=============================================================================
