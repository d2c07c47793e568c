----------------------------- MODULE MediaProofs -----------------------------
(***************************************************************************)
(* Proofs about the machines of MCMedia, for every value of the constants: *)
(* the safety properties that its run checks on one instance.  A machine's *)
(* inductive invariant is defined beside its properties, in its own        *)
(* module; here is one lemma for every action that it preserves it, on the *)
(* variables as MCMedia numbers them.                                      *)
(***************************************************************************)
EXTENDS MCMedia, Integers, Sequences, FiniteSetTheorems, WellFoundedInduction,
        TLAPS

-----------------------------------------------------------------------------
(* Going round.  Counts and the places they have on a circle of s.         *)

LEMMA QuotientAndRest ==
    ASSUME NEW s \in Nat \ {0}, NEW n \in Int
    PROVE  n % s \in 0 .. s - 1 /\ \E q \in Int : n = s * q + (n % s)
<1>1. n % s \in 0 .. s - 1
  OBVIOUS
<1>2. n = s * (n \div s) + (n % s) /\ n \div s \in Int
  OBVIOUS
<1> QED BY <1>1, <1>2, Zenon

LEMMA OneRest ==
    ASSUME NEW s \in Nat \ {0}, NEW n \in Int, NEW q \in Int, NEW r \in 0 .. s - 1,
           n = s * q + r
    PROVE  n % s = r
<1>1. PICK t : t = n % s
  OBVIOUS
<1>2. PICK p \in Int : n = s * p + t
  BY <1>1, QuotientAndRest, Zenon
<1>3. t \in 0 .. s - 1
  BY <1>1, QuotientAndRest
<1>4. PICK d \in Int : d = p - q
  BY <1>2
<1>5. s * d = s * p - s * q
  BY <1>2, <1>4
<1>6. s * d = r - t
  BY <1>2, <1>3, <1>5
<1>7. CASE d = 0
  BY <1>1, <1>3, <1>6, <1>7
<1>8. CASE d > 0
  <2>1. s * d >= s
    BY <1>8
  <2> QED BY <1>3, <1>6, <2>1
<1>9. CASE d < 0
  <2>1. s * (0 - d) >= s /\ s * (0 - d) = 0 - s * d
    BY <1>9
  <2> QED BY <1>3, <1>6, <2>1
<1> QED BY <1>4, <1>7, <1>8, <1>9

LEMMA OneQuotient ==
    ASSUME NEW s \in Nat \ {0}, NEW n \in Int, NEW q \in Int, NEW r \in 0 .. s - 1,
           n = s * q + r
    PROVE  n \div s = q
<1>1. PICK p \in Int : p = n \div s
  OBVIOUS
<1>2. n = s * (n \div s) + (n % s)
  OBVIOUS
<1>3. n % s = r
  BY OneRest, Zenon
<1>4. s * p = s * q
  BY <1>1, <1>2, <1>3
<1>5. CASE p > q
  <2>1. PICK d \in Nat : d = p - q /\ d >= 1
    BY <1>5
  <2>2. s * d = s * p - s * q /\ s * d >= s
    BY <2>1
  <2> QED BY <1>4, <2>2
<1>6. CASE p < q
  <2>1. PICK d \in Nat : d = q - p /\ d >= 1
    BY <1>6
  <2>2. s * d = s * q - s * p /\ s * d >= s
    BY <2>1
  <2> QED BY <1>4, <2>2
<1> QED BY <1>1, <1>5, <1>6

\* How far a is ahead of b shows on the circle, if that is less than once round.
LEMMA AheadOnCircle ==
    ASSUME NEW s \in Nat \ {0}, NEW a \in Int, NEW b \in Int, b <= a, a - b < s
    PROVE  ((a % s) + s - (b % s)) % s = a - b
<1>1. PICK x \in Int : x = a % s
  BY QuotientAndRest
<1>2. PICK p \in Int : a = s * p + x
  BY <1>1, QuotientAndRest, Zenon
<1>9. PICK y \in Int : y = b % s
  BY QuotientAndRest
<1>3. PICK q \in Int : b = s * q + y
  BY <1>9, QuotientAndRest, Zenon
<1>4. PICK n \in Int : n = x + s - y
  BY <1>1
<1>5. PICK t \in Int : t = q - p + 1
  BY <1>2, <1>3
<1>6. s * t = s * q - s * p + s
  BY <1>2, <1>3, <1>5
<1>10. PICK r \in 0 .. s - 1 : r = a - b
  OBVIOUS
<1>7. n = s * t + r
  BY <1>2, <1>3, <1>4, <1>6, <1>10
<1>8. n % s = r
  BY <1>4, <1>5, <1>7, <1>10, OneRest, Zenon
<1> QED BY <1>1, <1>4, <1>8, <1>9, <1>10

\* From the place of p on, every place is come to within one round.
LEMMA ReachOnCircle ==
    ASSUME NEW s \in Nat \ {0}, NEW p \in Int, NEW c \in 0 .. s - 1
    PROVE  /\ (c + s - (p % s)) % s \in 0 .. s - 1
           /\ (p + ((c + s - (p % s)) % s)) % s = c
<1>1. PICK x \in Int : x = p % s
  BY QuotientAndRest
<1>2. PICK q \in Int : p = s * q + x
  BY <1>1, QuotientAndRest, Zenon
<1>3. PICK n \in Int : n = c + s - x
  BY <1>1
<1>4. PICK d \in Int : d = n % s
  BY <1>3, QuotientAndRest
<1>5. PICK t \in Int : n = s * t + d
  BY <1>4, QuotientAndRest, Zenon
<1>6. d \in 0 .. s - 1
  BY <1>4, QuotientAndRest
<1>7. PICK u \in Int : u = q + 1 - t
  BY <1>2, <1>5
<1>8. s * u = s * q + s - s * t
  BY <1>2, <1>5, <1>7
<1>9. p + d = s * u + c
  BY <1>2, <1>3, <1>5, <1>8
<1>10. PICK m \in Int : m = p + d
  BY <1>4
<1>11. m % s = c
  BY <1>7, <1>9, <1>10, OneRest, Zenon
<1> QED BY <1>1, <1>3, <1>4, <1>6, <1>10, <1>11

LEMMA PlusOnCircle ==
    ASSUME NEW s \in Nat \ {0}, NEW a \in Int, NEW n \in Int
    PROVE  ((a % s) + n) % s = (a + n) % s
<1>1. PICK x \in Int : x = a % s
  BY QuotientAndRest
<1>2. PICK q \in Int : a = s * q + x
  BY <1>1, QuotientAndRest, Zenon
<1>11. PICK k \in Int : k = x + n
  BY <1>1
<1>3. PICK y \in Int : y = k % s
  BY <1>11, QuotientAndRest
<1>4. PICK t \in Int : k = s * t + y
  BY <1>3, <1>11, QuotientAndRest, Zenon
<1>5. y \in 0 .. s - 1
  BY <1>3, <1>11, QuotientAndRest
<1>6. PICK u \in Int : u = q + t
  BY <1>2, <1>4
<1>7. s * u = s * q + s * t
  BY <1>2, <1>4, <1>6
<1>8. PICK m \in Int : m = a + n
  OBVIOUS
<1>9. m = s * u + y
  BY <1>2, <1>4, <1>7, <1>8, <1>11
<1>10. m % s = y
  BY <1>5, <1>6, <1>8, <1>9, OneRest, Zenon
<1> QED BY <1>1, <1>3, <1>8, <1>10, <1>11

\* Less than once round apart, two counts have one place only if they are one.
LEMMA ApartOnCircle ==
    ASSUME NEW s \in Nat \ {0}, NEW a \in Int, NEW b \in Int, a - b < s, b - a < s,
           a % s = b % s
    PROVE  a = b
<1>1. PICK x \in Int : x = a % s
  BY QuotientAndRest
<1>2. PICK p \in Int : a = s * p + x
  BY <1>1, QuotientAndRest, Zenon
<1>3. PICK q \in Int : b = s * q + x
  BY <1>1, QuotientAndRest, Zenon
<1>4. PICK d \in Int : d = p - q
  BY <1>2, <1>3
<1>5. s * d = s * p - s * q
  BY <1>2, <1>3, <1>4
<1>6. s * d = a - b
  BY <1>2, <1>3, <1>5
<1>7. CASE d > 0
  <2>1. s * d >= s
    BY <1>7
  <2> QED BY <1>6, <2>1
<1>8. CASE d < 0
  <2>1. s * (0 - d) >= s /\ s * (0 - d) = 0 - s * d
    BY <1>8
  <2> QED BY <1>6, <2>1
<1>9. CASE d = 0
  BY <1>6, <1>9
<1> QED BY <1>4, <1>7, <1>8, <1>9

\* A place on the larger circle gives the place on a smaller one that divides it.
LEMMA CircleInCircle ==
    ASSUME NEW s \in Nat \ {0}, NEW w \in Nat \ {0}, w % s = 0, NEW a \in Int
    PROVE  (a % w) % s = a % s
<1>1. PICK x \in Int : x = a % w
  BY QuotientAndRest
<1>2. PICK p \in Int : a = w * p + x
  BY <1>1, QuotientAndRest, Zenon
<1>3. PICK k \in Int : w = s * k
  <2>1. w \in Int
    OBVIOUS
  <2>2. PICK k \in Int : w = s * k + (w % s)
    BY <2>1, QuotientAndRest, Zenon
  <2> QED BY <2>2
<1>4. PICK r \in Int : r = x % s
  BY <1>1, QuotientAndRest
<1>5. PICK t \in Int : x = s * t + r
  BY <1>1, <1>4, QuotientAndRest, Zenon
<1>6. r \in 0 .. s - 1
  BY <1>1, <1>4, QuotientAndRest
<1>7. PICK m \in Int : m = k * p
  BY <1>2, <1>3
<1>8. w * p = s * m
  BY <1>2, <1>3, <1>7
<1>9. PICK u \in Int : u = m + t
  BY <1>5, <1>7
<1>10. s * u = s * m + s * t
  BY <1>5, <1>7, <1>9
<1>11. a = s * u + r
  BY <1>2, <1>5, <1>8, <1>10
<1>12. a % s = r
  BY <1>6, <1>9, <1>11, OneRest
<1> QED BY <1>1, <1>4, <1>12

\* A set of numbers has a least one.
LEMMA LeastNumber ==
    ASSUME NEW T, T \subseteq Nat, T # {}
    PROVE  \E x \in T : \A y \in T : x <= y
<1>1. PICK x \in T : \A y \in T : ~ (<<y, x>> \in OpToRel(<, Nat))
  BY WFMin, NatLessThanWellFounded, Zenon
<1>2. \A y \in T : ~ (y < x)
  BY <1>1, Zenon DEF OpToRel
<1>3. \A y \in T : x <= y
  BY <1>2
<1> QED BY <1>3

\* And one that has a bound has a greatest.
LEMMA GreatestNumber ==
    ASSUME NEW k \in Nat, NEW T, T \subseteq 0 .. k, T # {}
    PROVE  \E x \in T : \A y \in T : y <= x
<1> DEFINE short == {k - x : x \in T}
<1>1. short \subseteq Nat /\ short # {}
  <2>1. ASSUME NEW x \in T PROVE k - x \in Nat
    BY <2>1
  <2> QED BY <2>1, Zenon
<1>2. PICK m \in short : \A y \in short : m <= y
  BY <1>1, LeastNumber, Zenon
<1>3. PICK x \in T : m = k - x
  BY <1>2
<1>4. ASSUME NEW y \in T PROVE y <= x
  <2>1. m <= k - y
    BY <1>2
  <2> QED BY <1>3, <2>1
<1> QED BY <1>4

-----------------------------------------------------------------------------
(* FrameLoop.  v1 holds, v2 now, v3 governor, v4 held, v5 last, v6 owed,   *)
(* v7 secure, v8 captured, v9 encoded, v10 lostTo, v11 times, v12 breaks,  *)
(* v13 asks.                                                               *)

LEMMA LoopNumbers ==
    /\ {ClientInterval, FlushSlack} \subseteq Nat \ {0}
    /\ Gap \subseteq Nat \ {0} /\ HoldModes \subseteq BOOLEAN
BY LoopAssumption DEF Loop!LoopBounds

\* Whole intervals are stepped over, up to the last one that has begun.
LEMMA WholeIntervals ==
    ASSUME NEW a \in Nat, NEW b \in Nat \ {0}
    PROVE  /\ (a \div b) * b \in Nat
           /\ (a \div b) * b <= a
           /\ a < (a \div b) * b + b
OBVIOUS

LEMMA CaughtUpSlot ==
    ASSUME NEW g \in Loop!Governor, NEW t \in Nat
    PROVE  /\ Loop!CaughtUp(g, t) \in Loop!Governor
           /\ Loop!CaughtUp(g, t) = [g EXCEPT !.slot = Loop!CaughtUp(g, t).slot]
           /\ g.slot <= Loop!CaughtUp(g, t).slot
           /\ t < Loop!CaughtUp(g, t).slot + ClientInterval
<1>1. g.slot \in Nat /\ ClientInterval \in Nat \ {0}
  BY LoopNumbers DEF Loop!Governor
<1>2. CASE t >= g.slot + ClientInterval
  <2> DEFINE step == ((t - g.slot) \div ClientInterval) * ClientInterval
  <2>1. t - g.slot \in Nat
    BY <1>1, <1>2
  <2>2. step \in Nat /\ t - g.slot < step + ClientInterval
    BY <1>1, <2>1, WholeIntervals, Zenon
  <2>3. Loop!CaughtUp(g, t) = [g EXCEPT !.slot = g.slot + step]
    BY <1>2 DEF Loop!CaughtUp
  <2> HIDE DEF step
  <2> QED BY <1>1, <2>2, <2>3 DEF Loop!Governor
<1>3. CASE ~ (t >= g.slot + ClientInterval)
  BY <1>1, <1>3 DEF Loop!CaughtUp, Loop!Governor
<1> QED BY <1>2, <1>3

\* What a frame's arrival makes of the governor: the slot moves forward only, and on
\* the grid to the interval the frame came in; the grid is for fast content only.
LEMMA ArrivedGovernor ==
    ASSUME NEW g \in Loop!Governor, NEW t \in Nat, g.arrival <= t, ~g.started => ~g.grid,
           NEW a, a = Loop!Arrived(g, t)
    PROVE  /\ a \in Loop!Governor
           /\ a.started = g.started /\ a.arrival = t /\ a.deadline = g.deadline
           /\ g.slot <= a.slot
           /\ a.grid => a.started /\ t < a.slot + ClientInterval /\ a.gap * 20 <= ClientInterval * 17
<1> DEFINE gap == Loop!Cadence(g, t)
           seen == [g EXCEPT !.gap = gap, !.arrival = t]
           mode == [seen EXCEPT !.grid = Loop!OnGrid(seen)]
<1>1. ClientInterval \in Nat \ {0}
  BY LoopNumbers
<1>2. gap \in Nat
  <2>1. g.gap \in Nat /\ g.arrival \in Nat
    BY DEF Loop!Governor
  <2>2. g.gap - g.gap \div 5 \in Nat /\ (t - g.arrival) \div 5 \in Nat
    BY <2>1
  <2> QED BY <2>1, <2>2 DEF Loop!Cadence
<1>3. a = IF ~g.started THEN seen ELSE IF mode.grid THEN Loop!CaughtUp(mode, t) ELSE mode
  BY DEF Loop!Arrived
<1> HIDE DEF gap
<1>4. seen \in Loop!Governor
  BY <1>2, Zenon DEF Loop!Governor
<1>5. Loop!OnGrid(seen) \in BOOLEAN /\ (Loop!OnGrid(seen) => gap * 20 <= ClientInterval * 17)
  <2>1. seen.gap = gap /\ seen.grid = g.grid
    BY DEF Loop!Governor
  <2>2. gap * 10 < ClientInterval * 7 => gap * 20 <= ClientInterval * 17
    BY <1>1, <1>2
  <2> HIDE DEF seen
  <2>3. Loop!OnGrid(seen) \in BOOLEAN
    <3>1. (gap * 20 <= ClientInterval * 17) \in BOOLEAN
          /\ (gap * 10 < ClientInterval * 7) \in BOOLEAN
      BY <1>1, <1>2
    <3> QED BY <2>1, <3>1, Zenon DEF Loop!OnGrid
  <2>4. ASSUME Loop!OnGrid(seen) PROVE gap * 20 <= ClientInterval * 17
    <3>1. CASE g.grid
      BY <2>1, <2>4, <3>1 DEF Loop!OnGrid
    <3>2. CASE ~g.grid
      BY <2>1, <2>2, <2>4, <3>2 DEF Loop!OnGrid
    <3> QED BY <3>1, <3>2
  <2> QED BY <2>3, <2>4
<1>6. mode \in Loop!Governor /\ mode.grid = Loop!OnGrid(seen) /\ mode.gap = gap
      /\ mode.started = g.started /\ mode.arrival = t /\ mode.deadline = g.deadline
      /\ mode.slot = g.slot
  BY <1>2, <1>5, Zenon DEF Loop!Governor
<1>7. CASE ~g.started
  BY <1>1, <1>3, <1>4, <1>7 DEF Loop!Governor
<1>8. CASE g.started /\ mode.grid
  <2>1. a = Loop!CaughtUp(mode, t)
    BY <1>3, <1>8
  <2> HIDE DEF mode, seen
  <2>2. a \in Loop!Governor /\ a = [mode EXCEPT !.slot = a.slot] /\ mode.slot <= a.slot
        /\ t < a.slot + ClientInterval
    BY <1>6, <2>1, CaughtUpSlot
  <2>3. a.started = mode.started /\ a.arrival = mode.arrival /\ a.deadline = mode.deadline
        /\ a.gap = mode.gap
    BY <1>6, <2>2 DEF Loop!Governor
  <2> QED BY <1>5, <1>6, <1>8, <2>2, <2>3, Zenon
<1>9. CASE g.started /\ ~mode.grid
  <2>1. a = mode
    BY <1>3, <1>9
  <2>2. g.slot \in Nat /\ g.slot <= g.slot
    BY DEF Loop!Governor
  <2> HIDE DEF mode, seen
  <2>3. ~a.grid
    BY <1>9, <2>1
  <2> QED BY <1>6, <2>1, <2>2, <2>3
<1> QED BY <1>7, <1>8, <1>9

\* A frame let through, at once or flushed: the slot is an interval further, and not
\* in the past.
LetThrough(g, t, a) ==
    /\ a \in Loop!Governor
    /\ a.started /\ a.arrival = g.arrival
    /\ t <= a.slot
    /\ g.started => g.slot + ClientInterval <= a.slot

LEMMA NextOfGridGovernor ==
    ASSUME NEW g \in Loop!Governor, NEW t \in Nat, g.started, t < g.slot + ClientInterval
    PROVE  LetThrough(g, t, Loop!NextOfGrid(g))
<1> DEFINE a == Loop!NextOfGrid(g)
           to == g.slot + ClientInterval
<1>1. to \in Nat /\ t <= to
  BY LoopNumbers DEF Loop!Governor
<1>2. a = [g EXCEPT !.deadline = 0, !.slot = to]
  BY DEF Loop!NextOfGrid, Loop!Freed, Loop!NoDeadline, Loop!Governor
<1>3. to <= to
  BY <1>1
<1> HIDE DEF a, to
<1>4. a \in Loop!Governor /\ a.started = g.started /\ a.arrival = g.arrival /\ a.slot = to
  BY <1>1, <1>2, Zenon DEF Loop!Governor
<1> QED BY <1>1, <1>3, <1>4 DEF LetThrough, a, to

LEMMA AdmittedAtGovernor ==
    ASSUME NEW g \in Loop!Governor, NEW t \in Nat
    PROVE  LetThrough(g, t, Loop!AdmittedAt(g, t))
<1> DEFINE a == Loop!AdmittedAt(g, t)
           to == IF g.started THEN Loop!Max2(g.slot + ClientInterval, t) ELSE t
<1>1. g.slot \in Nat /\ ClientInterval \in Nat
  BY LoopNumbers DEF Loop!Governor
<1>2. a = [g EXCEPT !.deadline = 0, !.slot = to, !.started = TRUE]
  BY DEF Loop!AdmittedAt, Loop!Freed, Loop!NoDeadline, Loop!Governor
<1>3. to \in Nat /\ t <= to /\ (g.started => g.slot + ClientInterval <= to)
  BY <1>1 DEF Loop!Max2
<1> HIDE DEF a, to
<1>4. a \in Loop!Governor /\ a.started = TRUE /\ a.arrival = g.arrival /\ a.slot = to
  BY <1>2, <1>3, Zenon DEF Loop!Governor
<1> QED BY <1>3, <1>4 DEF LetThrough, a

LEMMA AdmittedGovernor ==
    ASSUME NEW g \in Loop!Governor, NEW t \in Nat,
           g.grid => g.started /\ t < g.slot + ClientInterval
    PROVE  LetThrough(g, t, Loop!AfterAdmission(g, t))
<1>1. CASE g.started /\ g.grid
  <2>1. Loop!AfterAdmission(g, t) = Loop!NextOfGrid(g)
    BY <1>1 DEF Loop!AfterAdmission
  <2> QED BY <1>1, <2>1, NextOfGridGovernor
<1>2. CASE ~ (g.started /\ g.grid)
  <2>1. Loop!AfterAdmission(g, t) = Loop!AdmittedAt(g, t)
    BY <1>2 DEF Loop!AfterAdmission
  <2> QED BY <2>1, AdmittedAtGovernor
<1> QED BY <1>1, <1>2

LEMMA FlushedGovernor ==
    ASSUME NEW g \in Loop!Governor, NEW t \in Nat, g.started
    PROVE  LetThrough(g, t, Loop!AfterFlush(g, t))
<1>1. CASE g.grid
  <2> DEFINE c == Loop!CaughtUp(g, t)
  <2>1. c \in Loop!Governor /\ c = [g EXCEPT !.slot = c.slot] /\ g.slot <= c.slot
        /\ t < c.slot + ClientInterval
    BY CaughtUpSlot
  <2>2. Loop!AfterFlush(g, t) = Loop!NextOfGrid(c)
    BY <1>1 DEF Loop!AfterFlush
  <2> HIDE DEF c
  <2>3. c.started /\ c.arrival = g.arrival
    BY <2>1 DEF Loop!Governor
  <2>4. LetThrough(c, t, Loop!AfterFlush(g, t))
    BY <2>1, <2>2, <2>3, NextOfGridGovernor
  <2>5. /\ Loop!AfterFlush(g, t) \in Loop!Governor /\ Loop!AfterFlush(g, t).started
        /\ Loop!AfterFlush(g, t).arrival = g.arrival /\ t <= Loop!AfterFlush(g, t).slot
        /\ c.slot + ClientInterval <= Loop!AfterFlush(g, t).slot
    BY <2>3, <2>4 DEF LetThrough
  <2>6. g.slot + ClientInterval <= Loop!AfterFlush(g, t).slot
    BY <2>1, <2>5, LoopNumbers DEF Loop!Governor
  <2> QED BY <2>5, <2>6 DEF LetThrough
<1>2. CASE ~g.grid
  <2>1. Loop!AfterFlush(g, t) = Loop!AdmittedAt(g, t)
    BY <1>2 DEF Loop!AfterFlush
  <2> QED BY <2>1, AdmittedAtGovernor
<1> QED BY <1>1, <1>2

\* The frame let through is the last of the two whose times are kept.
LEMMA TimedFrame ==
    ASSUME NEW times \in Seq(Nat), Len(times) <= 2,
           NEW slot \in Nat, NEW t \in Nat, NEW slot2 \in Nat, t <= slot2,
           times # <<>> => times[Len(times)] <= slot /\ slot + ClientInterval <= slot2,
           NEW to, to = IF times = <<>> THEN <<t>> ELSE <<times[Len(times)], t>>
    PROVE  /\ to \in Seq(Nat) /\ Len(to) <= 2
           /\ to[Len(to)] <= slot2
           /\ Len(to) = 2 => to[1] + ClientInterval <= slot2
<1>1. ClientInterval \in Nat
  BY LoopNumbers
<1>2. CASE times = <<>>
  <2>1. to = <<t>>
    BY <1>2
  <2>2. to \in Seq(Nat) /\ Len(to) = 1 /\ to[1] = t
    BY <2>1
  <2> QED BY <2>2
<1>3. CASE times # <<>>
  <2>1. to = <<times[Len(times)], t>> /\ Len(times) \in 1 .. Len(times)
    BY <1>3
  <2>2. times[Len(times)] \in Nat
    BY <2>1
  <2>3. to \in Seq(Nat) /\ Len(to) = 2 /\ to[1] = times[Len(times)] /\ to[2] = t
    BY <2>1, <2>2
  <2> QED BY <1>1, <1>3, <2>2, <2>3
<1> QED BY <1>2, <1>3

LEMMA HeldUntil ==
    ASSUME NEW slot \in Nat, NEW t \in Nat \ {0}, NEW wait \in Nat
    PROVE  LET until == Loop!Max2(slot, t + wait)
           IN  until \in Nat /\ slot <= until /\ until # 0
BY DEF Loop!Max2

\* On the grid a frame may be half a frame's gap early, and the gap is less than the
\* interval.
LEMMA HalfAGapEarly ==
    ASSUME NEW first \in Nat, NEW gap \in Nat, NEW slot \in Nat, NEW t \in Nat,
           gap * 20 <= ClientInterval * 17, slot <= t + gap \div 2,
           first + ClientInterval <= slot
    PROVE  t > first + ClientInterval \div 2
<1>1. ClientInterval \in Nat \ {0}
  BY LoopNumbers
<1>2. gap < ClientInterval
  BY <1>1
<1> QED BY <1>1, <1>2

LEMMA LoopStart == Loop!Init => Loop!LoopInv
BY LoopNumbers
   DEF Loop!Init, Loop!LoopInv, Loop!Governor, Loop!NewGovernor, Loop!None, Loop!Never,
       Loop!NoDeadline

\* The governor that a frame finds at its arrival.
LEMMA LoopArrival ==
    ASSUME Loop!LoopInv, NEW gap \in Gap, NEW t, t = v2 + gap, NEW g, g = Loop!Arrived(v3, t)
    PROVE  /\ t \in Nat \ {0} /\ v2 <= t
           /\ g \in Loop!Governor
           /\ g.started = v3.started /\ g.arrival = t /\ g.deadline = v3.deadline
           /\ v3.slot <= g.slot
           /\ g.grid => g.started /\ t < g.slot + ClientInterval /\ g.gap * 20 <= ClientInterval * 17
<1>1. gap \in Nat \ {0} /\ v2 \in Nat \ {0}
  BY LoopNumbers DEF Loop!LoopInv
<1>2. t \in Nat \ {0} /\ v2 <= t
  BY <1>1
<1>3. v3 \in Loop!Governor /\ v3.arrival <= v2 /\ (~v3.started => ~v3.grid)
  BY DEF Loop!LoopInv
<1>4. v3.arrival <= t
  BY <1>1, <1>2, <1>3 DEF Loop!Governor
<1> QED BY <1>2, <1>3, <1>4, ArrivedGovernor

LEMMA LoopKeptByAcquire ==
    ASSUME Loop!LoopInv, NEW gap \in Gap, Loop!Acquire(gap)
    PROVE  Loop!LoopInv'
<1> DEFINE g == Loop!Arrived(v3, v2')
<1>1. v2' = v2 + gap /\ v8' = v8 + 1 /\ v1' = v1 /\ v10' = v10
  BY DEF Loop!Acquire
<1>2. /\ v2' \in Nat \ {0} /\ v2 <= v2'
      /\ g \in Loop!Governor
      /\ g.started = v3.started /\ g.arrival = v2' /\ g.deadline = v3.deadline
      /\ v3.slot <= g.slot
      /\ g.grid => g.started /\ v2' < g.slot + ClientInterval
  BY <1>1, LoopArrival
<1>3. /\ v8 \in Nat /\ v10 \in Nat /\ v10 <= v8 /\ v1 \in BOOLEAN
      /\ v3 \in Loop!Governor /\ v3.slot \in Nat /\ v11 \in Seq(Nat) /\ Len(v11) <= 2
      /\ v11 # <<>> => v3.started /\ v11[Len(v11)] <= v3.slot
  BY DEF Loop!LoopInv, Loop!Governor
<1>4. v8' \in Nat /\ v10 < v8' /\ v8' # 0
  BY <1>1, <1>3
<1>5. CASE Loop!IsAdmitted(g, v2')
  <2> DEFINE a == Loop!AfterAdmission(g, v2')
  <2>1. /\ v3' = a /\ v4' = 0 /\ v5' = v8' /\ v9' = v8'
        /\ v11' = IF v11 = <<>> THEN <<v2'>> ELSE <<v11[Len(v11)], v2'>>
    BY <1>5 DEF Loop!Acquire, Loop!Admit, Loop!Timed, Loop!None
  <2>2. LetThrough(g, v2', a)
    BY <1>2, AdmittedGovernor
  <2> HIDE DEF a, g
  <2>3. /\ a \in Loop!Governor /\ a.started /\ a.arrival = v2' /\ v2' <= a.slot
        /\ a.slot \in Nat
        /\ v3.started => v3.slot + ClientInterval <= a.slot
    <3>1. /\ a \in Loop!Governor /\ a.started /\ a.arrival = g.arrival /\ v2' <= a.slot
          /\ g.started => g.slot + ClientInterval <= a.slot
      BY <2>2 DEF LetThrough
    <3>2. a.slot \in Nat /\ g.slot \in Nat /\ v3.slot \in Nat /\ ClientInterval \in Nat
      BY <1>2, <1>3, <3>1, LoopNumbers DEF Loop!Governor
    <3>3. v3.started => v3.slot + ClientInterval <= a.slot
      BY <1>2, <3>1, <3>2
    <3> QED BY <1>2, <3>1, <3>2, <3>3
  <2>4. /\ v11' \in Seq(Nat) /\ Len(v11') <= 2
        /\ v11'[Len(v11')] <= a.slot
        /\ Len(v11') = 2 => v11'[1] + ClientInterval <= a.slot
    BY <1>2, <1>3, <2>1, <2>3, TimedFrame
  <2> QED BY <1>1, <1>2, <1>3, <1>4, <2>1, <2>3, <2>4
          DEF Loop!LoopInv, Loop!None, Loop!NoDeadline
<1>6. CASE ~Loop!IsAdmitted(g, v2') /\ v1
  <2> DEFINE a == Loop!AfterHold(g, v2')
  <2>1. /\ v3' = a /\ v4' = v8' /\ v5' = v8' /\ v9' = v9 /\ v11' = v11
    BY <1>6 DEF Loop!Acquire, Loop!Hold
  <2>2. g.started
    BY <1>6 DEF Loop!IsAdmitted
  <2>3. /\ a \in Loop!Governor /\ a.started /\ a.arrival = v2' /\ a.slot = g.slot
        /\ a.slot <= a.deadline /\ a.deadline # 0
    <3> DEFINE wait == Loop!Wait(g)
               until == Loop!Max2(g.slot, v2' + wait)
    <3>1. g.gap \in Nat /\ g.slot \in Nat
      BY <1>2 DEF Loop!Governor
    <3>2. wait \in Nat
      BY <3>1, LoopNumbers DEF Loop!Wait, Loop!Max2
    <3> HIDE DEF wait, g
    <3>3. until \in Nat /\ g.slot <= until /\ until # 0
      BY <1>2, <3>1, <3>2, HeldUntil, Zenon
    <3>4. a = [g EXCEPT !.deadline = until]
      BY DEF Loop!AfterHold, wait
    <3> HIDE DEF a, until
    <3>5. a \in Loop!Governor /\ a.started = g.started /\ a.arrival = g.arrival
          /\ a.slot = g.slot /\ a.deadline = until
      BY <1>2, <3>3, <3>4 DEF Loop!Governor
    <3> QED BY <1>2, <2>2, <3>3, <3>5
  <2> HIDE DEF a, g
  <2>4. v11 # <<>> => v11[Len(v11)] <= a.slot
    <3>1. v11 # <<>> => v11[Len(v11)] \in Nat
      BY <1>3
    <3> QED BY <1>2, <1>3, <2>3, <3>1 DEF Loop!Governor
  <2>5. Len(v11) = 2 => v11[1] + ClientInterval <= a.slot
    <3>1. SUFFICES ASSUME Len(v11) = 2 PROVE v11[1] + ClientInterval <= a.slot
      OBVIOUS
    <3>2. PICK first, old, slot : first = v11[1] /\ old = v3.slot /\ slot = a.slot
      OBVIOUS
    <3>3. first \in Nat /\ first + ClientInterval <= old
      <4>1. v11[1] + ClientInterval <= v3.slot
        BY <3>1 DEF Loop!LoopInv
      <4>2. v11[1] \in Nat
        BY <1>3, <3>1
      <4> QED BY <3>2, <4>1, <4>2
    <3>4. old \in Nat /\ slot \in Nat /\ old <= slot
      BY <1>2, <1>3, <2>3, <3>2 DEF Loop!Governor
    <3> QED BY <3>2, <3>3, <3>4, LoopNumbers
  <2> QED BY <1>1, <1>2, <1>3, <1>4, <1>6, <2>1, <2>3, <2>4, <2>5
          DEF Loop!LoopInv, Loop!None, Loop!NoDeadline
<1>7. CASE ~Loop!IsAdmitted(g, v2') /\ ~v1
  <2>1. /\ v3' = g /\ v4' = v4 /\ v5' = v5 /\ v9' = v9 /\ v11' = v11
    BY <1>7 DEF Loop!Acquire, Loop!Skip
  <2>2. g.started
    BY <1>7 DEF Loop!IsAdmitted
  <2> HIDE DEF g
  <2>3. v4 = 0
    BY <1>7 DEF Loop!LoopInv, Loop!None
  <2>4. v11 # <<>> => v11[Len(v11)] <= g.slot
    <3>1. v11 # <<>> => v11[Len(v11)] \in Nat
      BY <1>3
    <3> QED BY <1>2, <1>3, <3>1 DEF Loop!Governor
  <2>5. Len(v11) = 2 => v11[1] + ClientInterval <= g.slot
    <3>1. Len(v11) = 2 => v11[1] \in Nat
      BY <1>3
    <3> QED BY <1>2, <1>3, <3>1, LoopNumbers DEF Loop!Governor, Loop!LoopInv
  <2> QED BY <1>1, <1>2, <1>3, <1>4, <1>7, <2>1, <2>2, <2>3, <2>4, <2>5
          DEF Loop!LoopInv, Loop!None, Loop!NoDeadline
<1> QED BY <1>5, <1>6, <1>7

LEMMA LoopKeptByFlush ==
    ASSUME Loop!LoopInv, Loop!Flush
    PROVE  Loop!LoopInv'
<1> DEFINE a == Loop!AfterFlush(v3, v2')
<1>1. /\ v4 # 0 /\ v2' = Loop!Max2(v2, v3.deadline)
      /\ v3' = a /\ v4' = 0 /\ v9' = v4 /\ v1' = v1 /\ v5' = v5 /\ v8' = v8 /\ v10' = v10
      /\ v11' = IF v11 = <<>> THEN <<v2'>> ELSE <<v11[Len(v11)], v2'>>
  BY DEF Loop!Flush, Loop!Timed, Loop!None
<1>2. /\ v2 \in Nat \ {0} /\ v3 \in Loop!Governor /\ v3.started /\ v3.slot \in Nat
      /\ v3.arrival <= v2 /\ v11 \in Seq(Nat) /\ Len(v11) <= 2
      /\ v11 # <<>> => v11[Len(v11)] <= v3.slot
  BY <1>1 DEF Loop!LoopInv, Loop!Governor, Loop!None
<1>3. v2' \in Nat \ {0} /\ v2 <= v2' /\ v3.arrival <= v2'
  BY <1>1, <1>2 DEF Loop!Max2, Loop!Governor
<1>4. LetThrough(v3, v2', a)
  BY <1>2, <1>3, FlushedGovernor
<1> HIDE DEF a
<1>5. /\ a \in Loop!Governor /\ a.started /\ a.arrival <= v2' /\ v2' <= a.slot
      /\ a.slot \in Nat /\ v3.slot + ClientInterval <= a.slot
  BY <1>2, <1>3, <1>4 DEF LetThrough, Loop!Governor
<1>6. /\ v11' \in Seq(Nat) /\ Len(v11') <= 2
      /\ v11'[Len(v11')] <= a.slot
      /\ Len(v11') = 2 => v11'[1] + ClientInterval <= a.slot
  BY <1>1, <1>2, <1>3, <1>5, TimedFrame, Zenon
<1> QED BY <1>1, <1>2, <1>3, <1>5, <1>6 DEF Loop!LoopInv, Loop!None, Loop!NoDeadline

LEMMA LoopKeptByEncodeAgain ==
    ASSUME Loop!LoopInv, Loop!EncodeAgain
    PROVE  Loop!LoopInv'
BY DEF Loop!LoopInv, Loop!EncodeAgain, Loop!None, Loop!NoDeadline

\* A break leaves nothing of before it, and a governor made anew.
LEMMA LoopKeptByBreak ==
    ASSUME Loop!LoopInv, Loop!Broken, v1' \in BOOLEAN
    PROVE  Loop!LoopInv'
<1>1. Loop!NewGovernor \in Loop!Governor /\ Loop!NewGovernor.arrival = 0
      /\ ~Loop!NewGovernor.started /\ ~Loop!NewGovernor.grid
  BY LoopNumbers DEF Loop!Governor, Loop!NewGovernor, Loop!Never, Loop!NoDeadline
<1> QED BY <1>1 DEF Loop!LoopInv, Loop!Broken, Loop!Dropped, Loop!None, Loop!NoDeadline

LEMMA LoopKept ==
    ASSUME Loop!LoopInv, Loop!Next
    PROVE  Loop!LoopInv'
<1>1. CASE \E gap \in Gap : Loop!Acquire(gap)
  BY <1>1, LoopKeptByAcquire
<1>2. CASE Loop!Flush
  BY <1>2, LoopKeptByFlush
<1>3. CASE Loop!EncodeAgain
  BY <1>3, LoopKeptByEncodeAgain
<1>4. CASE Loop!AccessLost
  BY <1>4, LoopKeptByBreak, LoopNumbers DEF Loop!AccessLost
<1>5. CASE Loop!Unavailable
  BY <1>5, LoopKeptByBreak DEF Loop!Unavailable, Loop!LoopInv
<1>6. CASE Loop!AskKeyframe
  BY <1>6 DEF Loop!LoopInv, Loop!AskKeyframe
<1> QED BY <1>1, <1>2, <1>3, <1>4, <1>5, <1>6 DEF Loop!Next

LEMMA LoopSafe == Loop!LoopInv => Loop!NewestIsShownOrHeld
BY DEF Loop!LoopInv, Loop!NewestIsShownOrHeld, Loop!None, Loop!NoDeadline

\* No three frames are let through within half an interval.
LEMMA LoopHasNoBurst ==
    ASSUME Loop!LoopInv, Loop!Next
    PROVE  Loop!IsNoBurst
<1> SUFFICES ASSUME Len(v11) = 2, v11' # v11, v11' # <<>>
             PROVE  v11'[2] - v11[1] > ClientInterval \div 2
  BY DEF Loop!IsNoBurst
<1>1. /\ v11 \in Seq(Nat) /\ v11 # <<>> /\ v11[1] \in Nat /\ v11[2] \in Nat
      /\ v3 \in Loop!Governor /\ v3.slot \in Nat /\ v3.started
      /\ v11[1] + ClientInterval <= v3.slot
  <2>1. v11 \in Seq(Nat) /\ v3 \in Loop!Governor
        /\ v11[1] + ClientInterval <= v3.slot /\ (~v3.started => v11 = <<>>)
    BY DEF Loop!LoopInv
  <2>2. v11 # <<>> /\ v11[1] \in Nat /\ v11[2] \in Nat
    BY <2>1
  <2>3. v3.slot \in Nat /\ v3.started \in BOOLEAN
    BY <2>1 DEF Loop!Governor
  <2> QED BY <2>1, <2>2, <2>3
<1>2. ClientInterval \in Nat \ {0}
  BY LoopNumbers
<1>3. ASSUME NEW gap \in Gap, Loop!Acquire(gap) PROVE v11'[2] - v11[1] > ClientInterval \div 2
  <2> DEFINE g == Loop!Arrived(v3, v2')
  <2>1. v2' = v2 + gap
    BY <1>3 DEF Loop!Acquire
  <2>2. /\ v2' \in Nat /\ g \in Loop!Governor /\ g.started = v3.started /\ v3.slot <= g.slot
        /\ g.grid => g.gap * 20 <= ClientInterval * 17
    BY <2>1, LoopArrival
  <2>3. Loop!IsAdmitted(g, v2') /\ v11' = <<v11[2], v2'>>
    BY <1>1, <1>3 DEF Loop!Acquire, Loop!Admit, Loop!Hold, Loop!Skip, Loop!Timed
  <2> HIDE DEF g
  <2>4. g.slot \in Nat /\ g.gap \in Nat /\ g.started
    BY <1>1, <2>2 DEF Loop!Governor
  <2>5. v2' > v11[1] + ClientInterval \div 2
    <3>1. CASE g.grid
      <4>1. v2' + g.gap \div 2 >= g.slot
        BY <2>3, <2>4, <3>1 DEF Loop!IsAdmitted
      <4>2. g.gap * 20 <= ClientInterval * 17
        BY <2>2, <3>1
      <4>3. v11[1] + ClientInterval <= g.slot
        BY <1>1, <1>2, <2>2, <2>4
      <4>4. g.slot <= v2' + g.gap \div 2
        BY <4>1
      <4> QED BY <1>1, <2>2, <2>4, <4>2, <4>3, <4>4, HalfAGapEarly, Zenon
    <3>2. CASE ~g.grid
      <4>1. v2' >= g.slot
        BY <2>3, <2>4, <3>2 DEF Loop!IsAdmitted
      <4> QED BY <1>1, <1>2, <2>2, <2>4, <4>1
    <3> QED BY <3>1, <3>2
  <2> QED BY <1>1, <1>2, <2>2, <2>3, <2>5
<1>4. CASE Loop!Flush
  <2>1. /\ v11' = <<v11[2], v2'>> /\ v2' = Loop!Max2(v2, v3.deadline)
        /\ v3.slot <= v3.deadline
    BY <1>1, <1>4 DEF Loop!Flush, Loop!Timed, Loop!LoopInv
  <2>2. v2 \in Nat /\ v3.deadline \in Nat
    BY DEF Loop!LoopInv, Loop!Governor
  <2>3. v2' \in Nat /\ v3.slot <= v2'
    BY <1>1, <2>1, <2>2 DEF Loop!Max2
  <2> QED BY <1>1, <1>2, <2>1, <2>3
<1>5. v11' # v11 /\ v11' # <<>> => (\E gap \in Gap : Loop!Acquire(gap)) \/ Loop!Flush
  BY DEF Loop!Next, Loop!EncodeAgain, Loop!AccessLost, Loop!Unavailable, Loop!Broken,
         Loop!AskKeyframe
<1> QED BY <1>3, <1>4, <1>5

-----------------------------------------------------------------------------
(* SubframeDrain.  v1 subframe, v2 assumed, v3 at, v4 surface,             *)
(* v5 registered, v6 mapped, v7 picture, v8 real, v9 size, v10 consumed,   *)
(* v11 idle, v12 groups, v13 rounds, v14 ended, v15 pictures, v16 failures.*)

LEMMA DrainNumbers ==
    /\ Tiles \in Nat \ {0} /\ StaleGroups \in Nat /\ Assumed \subseteq Nat \ {0}
BY DrainAssumption DEF Drain!DrainBounds

\* The units that follow a picture again.
LEMMA AgainIsASequence ==
    \A p : /\ Drain!Again(p) \in Seq({Drain!Again(p)[i] : i \in 1 .. StaleGroups})
           /\ Len(Drain!Again(p)) = StaleGroups
<1>1. ASSUME NEW n \in Nat, NEW q, q = [i \in 1 .. n |-> q[i]]
      PROVE  q \in Seq({q[i] : i \in 1 .. n}) /\ Len(q) = n
  <2>1. PICK S : S = {q[i] : i \in 1 .. n}
    BY Zenon
  <2>2. q \in [1 .. n -> S]
    BY <1>1, <2>1, Zenon
  <2>3. q \in Seq(S) /\ Len(q) = n
    BY <2>2
  <2> QED BY <2>1, <2>3, Zenon
<1> TAKE p
<1>2. PICK q : q = Drain!Again(p)
  OBVIOUS
<1>3. q = [i \in 1 .. StaleGroups |-> q[i]] /\ StaleGroups \in Nat
  BY <1>2, DrainNumbers, Zenon DEF Drain!Again
<1>4. q \in Seq({q[i] : i \in 1 .. StaleGroups}) /\ Len(q) = StaleGroups
  BY <1>1, <1>3, Zenon
<1> QED BY <1>2, <1>4, Zenon

LEMMA SameCountOfUnits == \A S : Drain!Cardinality(S) = Cardinality(S)
BY Zenon DEF Drain!Cardinality, Cardinality, Drain!IsFiniteSet, IsFiniteSet

LEMMA DrainStart == Drain!Init => Drain!DrainInv
<1> SUFFICES ASSUME Drain!Init PROVE Drain!DrainInv
  OBVIOUS
<1>1. v8 = 0 /\ v10 = Drain!EndOf(0) /\ v12 = 0 /\ Len(v7) = 0 /\ v3 = "idle" /\ v14 = "none"
  BY DEF Drain!Init, Drain!EndOf, Drain!UnitBytes
<1>2. Drain!PictureIsExact
  BY <1>1, DrainNumbers
     DEF Drain!Init, Drain!PictureIsExact, Drain!EndOf, Drain!UnitBytes, Drain!NoSurface
<1>3. Drain!GridIsRight => \E c \in 0 .. v8 :
          v10 = Drain!EndOf(c) /\ v12 <= c /\ (v3 = "draining" => Drain!EndIsAhead(c))
  BY <1>1
<1> QED BY <1>1, <1>2, <1>3, DrainNumbers DEF Drain!Init, Drain!DrainInv

\* The units of a picture.
DrainUnits == [type : {"frame", "header", "tiles"}, tg : Int, has : BOOLEAN]

\* What the driver writes of a picture ends, for a drain with the grid right, where the
\* picture does.
LEMMA PictureEndsOnce ==
    ASSUME ~Malformed, v1 = "av1", v2 = Tiles, NEW p \in Drain!Pictures
    PROVE  /\ p \in Seq(DrainUnits) /\ Len(p) \in 1 .. Tiles + 1
           /\ \A i \in 1 .. Len(p) : Drain!EndsPicture(p[i]) <=> i = Len(p)
<1> USE DrainNumbers
<1>1. CASE p = <<Drain!Frame>>
  <2>1. Drain!Frame \in DrainUnits /\ Drain!Frame.type = "frame"
    BY DEF Drain!Frame, Drain!Obu, DrainUnits
  <2> QED BY <1>1, <2>1 DEF Drain!EndsPicture
<1>2. CASE p = <<Drain!Header>> \o <<Drain!Group(Tiles - 1)>>
  <2>1. /\ Drain!Header \in DrainUnits /\ Drain!Header.type = "header"
        /\ Drain!Group(Tiles - 1) \in DrainUnits
        /\ Drain!Group(Tiles - 1).type = "tiles" /\ Drain!Group(Tiles - 1).has
        /\ Drain!Group(Tiles - 1).tg = Tiles - 1
    BY DEF Drain!Header, Drain!Group, Drain!Obu, DrainUnits
  <2>2. /\ <<Drain!Header>> \in Seq(DrainUnits) /\ Len(<<Drain!Header>>) = 1
        /\ <<Drain!Group(Tiles - 1)>> \in Seq(DrainUnits) /\ Len(<<Drain!Group(Tiles - 1)>>) = 1
        /\ <<Drain!Header>>[1] = Drain!Header
        /\ <<Drain!Group(Tiles - 1)>>[1] = Drain!Group(Tiles - 1)
    BY <2>1
  <2>3. ~Drain!EndsPicture(Drain!Header)
    BY <2>1 DEF Drain!EndsPicture
  <2>4. Drain!EndsPicture(Drain!Group(Tiles - 1))
    BY <2>1 DEF Drain!EndsPicture, Drain!TgEnd
  <2>5. Len(p) = 2 /\ p[1] = Drain!Header /\ p[2] = Drain!Group(Tiles - 1) /\ p \in Seq(DrainUnits)
    BY <1>2, <2>2
  <2>6. ASSUME NEW i \in 1 .. Len(p) PROVE i = 1 \/ i = 2
    BY <2>5
  <2> QED BY <2>3, <2>4, <2>5, <2>6
<1>3. CASE p = <<Drain!Header>> \o [t \in 1 .. Tiles |-> Drain!Group(t - 1)]
  <2>1. PICK g : g = [t \in 1 .. Tiles |-> Drain!Group(t - 1)]
    BY Zenon
  <2>2. /\ Drain!Header \in DrainUnits /\ Drain!Header.type = "header"
        /\ \A t \in 1 .. Tiles :
             /\ g[t] \in DrainUnits /\ g[t].type = "tiles" /\ g[t].has /\ g[t].tg = t - 1
    BY <2>1 DEF Drain!Header, Drain!Group, Drain!Obu, DrainUnits
  <2>3. g \in Seq(DrainUnits) /\ Len(g) = Tiles
    BY <2>1, <2>2
  <2>4. /\ <<Drain!Header>> \in Seq(DrainUnits) /\ Len(<<Drain!Header>>) = 1
        /\ <<Drain!Header>>[1] = Drain!Header
    BY <2>2
  <2>5. p \in Seq(DrainUnits) /\ Len(p) = Tiles + 1 /\ p[1] = Drain!Header
        /\ \A i \in 2 .. Tiles + 1 : p[i] = g[i - 1]
    BY <1>3, <2>1, <2>3, <2>4
  <2>6. ~Drain!EndsPicture(Drain!Header)
    BY <2>2 DEF Drain!EndsPicture
  <2>7. ASSUME NEW i \in 1 .. Len(p) PROVE Drain!EndsPicture(p[i]) <=> i = Len(p)
    <3>1. CASE i = 1
      BY <2>5, <2>6, <3>1
    <3>2. CASE i # 1
      <4>1. i - 1 \in 1 .. Tiles /\ p[i] = g[i - 1]
        BY <2>5, <3>2
      <4>2. p[i].type = "tiles" /\ p[i].has /\ p[i].tg = i - 2
        BY <2>2, <4>1
      <4>3. Drain!EndsPicture(p[i]) <=> Drain!TgEnd(p[i]) + 1 >= Tiles
        BY <4>2 DEF Drain!EndsPicture
      <4>4. Drain!TgEnd(p[i]) = IF Tiles <= 1 THEN 0 ELSE i - 2
        BY <4>2 DEF Drain!TgEnd
      <4> QED BY <2>5, <4>1, <4>3, <4>4
    <3> QED BY <3>1, <3>2
  <2> QED BY <2>5, <2>7
<1> QED BY <1>1, <1>2, <1>3, Zenon DEF Drain!Pictures, Drain!Shorts, Drain!Groups

LEMMA DrainKeptByEncode ==
    ASSUME Drain!DrainInv, NEW s, NEW p \in Drain!Pictures, Drain!Encode(s, p)
    PROVE  Drain!DrainInv'
<1>1. /\ v4' = s /\ v5' = s /\ v6' = v5' /\ v8' = Len(p) /\ v3' = "draining"
      /\ v7' = (IF v1 = "av1" THEN p \o Drain!Again(p) ELSE p)
      /\ v9' = 0 /\ v10' = 0 /\ v12' = 0 /\ UNCHANGED <<v1, v2, v14>>
  BY DEF Drain!Encode, Drain!Registered
<1>2. Len(p) \in Nat /\ Len(v7') \in Nat
  <2>1. p \in Seq(DrainUnits)
    <3> USE DrainNumbers
    <3>1. /\ Drain!Frame \in DrainUnits /\ Drain!Header \in DrainUnits
          /\ Drain!ShortGroup \in DrainUnits
          /\ \A t \in Int : Drain!Group(t) \in DrainUnits
      BY DEF Drain!Frame, Drain!Header, Drain!Group, Drain!ShortGroup, Drain!Obu, DrainUnits
    <3>2. Drain!Groups \subseteq Seq(DrainUnits)
      BY <3>1 DEF Drain!Groups
    <3>3. ASSUME NEW g \in Drain!Shorts PROVE g \in Seq(DrainUnits)
      <4>1. PICK h \in Drain!Groups : g = <<Drain!ShortGroup>> \o h
        BY <3>3 DEF Drain!Shorts
      <4>2. h \in Seq(DrainUnits) /\ <<Drain!ShortGroup>> \in Seq(DrainUnits)
        BY <3>1, <3>2
      <4> QED BY <4>1, <4>2
    <3>4. ASSUME NEW g \in Seq(DrainUnits) PROVE <<Drain!Header>> \o g \in Seq(DrainUnits)
      <4>1. <<Drain!Header>> \in Seq(DrainUnits)
        BY <3>1
      <4> QED BY <4>1
    <3>5. <<Drain!Frame>> \in Seq(DrainUnits)
      BY <3>1
    <3> QED BY <3>2, <3>3, <3>4, <3>5, Zenon DEF Drain!Pictures
  <2>2. ASSUME v1 = "av1" PROVE Len(p \o Drain!Again(p)) \in Nat
    <3>1. PICK q : q = Drain!Again(p)
      OBVIOUS
    <3>2. q \in Seq({q[i] : i \in 1 .. StaleGroups})
      BY <3>1, AgainIsASequence, Zenon
    <3> QED BY <2>1, <3>1, <3>2
  <2> QED BY <1>1, <2>1, <2>2
<1>3. ASSUME Drain!GridIsRight'
      PROVE  /\ v8' <= Tiles + 1 /\ v10' = Drain!EndOf(0) /\ 0 \in 0 .. v8'
             /\ Drain!EndIsAhead(0)'
  <2>1. ~Malformed /\ v1 = "av1" /\ v2 = Tiles
    BY <1>1, <1>3 DEF Drain!GridIsRight
  <2>2. /\ p \in Seq(DrainUnits) /\ Len(p) \in 1 .. Tiles + 1
        /\ \A i \in 1 .. Len(p) : Drain!EndsPicture(p[i]) <=> i = Len(p)
    BY <2>1, PictureEndsOnce
  <2>3. PICK q : q = Drain!Again(p)
    OBVIOUS
  <2>4. q \in Seq({q[i] : i \in 1 .. StaleGroups}) /\ v7' = p \o q
    BY <1>1, <2>1, <2>3, AgainIsASequence, Zenon
  <2>5. Len(v7') = Len(p) + Len(q) /\ \A i \in 1 .. Len(p) : v7'[i] = p[i]
    BY <2>2, <2>4
  <2>7. Drain!EndIsAhead(0)'
    <3>1. v8' \in 1 .. Len(v7') /\ 0 < v8'
      BY <1>1, <1>2, <2>2, <2>4, <2>5, DrainNumbers
    <3>2. ASSUME NEW i \in 1 .. v8' PROVE (Drain!EndsPicture(v7[i]))' <=> i = v8'
      <4>1. i \in 1 .. Len(p) /\ v7'[i] = p[i]
        BY <1>1, <2>5, <3>2
      <4> QED BY <1>1, <2>2, <4>1 DEF Drain!EndsPicture, Drain!TgEnd
    <3> QED BY <3>1, <3>2 DEF Drain!EndIsAhead
  <2> QED BY <1>1, <2>2, <2>7, DrainNumbers DEF Drain!EndOf, Drain!UnitBytes
<1>4. Drain!PictureIsExact'
  <2>1. Drain!GridIsRight' => /\ v10' <= Drain!EndOf(v8') /\ v10' % Drain!UnitBytes = 0
    BY <1>1, <1>2 DEF Drain!EndOf, Drain!UnitBytes
  <2>2. v12' <= 4 * v2' + Len(v7')
    <3>1. v2 \in Nat
      BY DrainNumbers DEF Drain!DrainInv
    <3>2. v12' = 0 /\ v2' \in Nat /\ Len(v7') \in Nat
      BY <1>1, <1>2, <3>1
    <3> QED BY <3>2
  <2> QED BY <1>1, <2>1, <2>2 DEF Drain!PictureIsExact
<1> QED BY <1>1, <1>2, <1>3, <1>4, DrainNumbers DEF Drain!DrainInv, Drain!GridIsRight

\* With the grid right, what is scanned ends no further than the picture does, counts no
\* more groups than units, and is complete when it ends there.
LEMMA WhatIsScanned ==
    ASSUME Drain!DrainInv, Drain!GridIsRight, NEW c \in 0 .. v8, v10 = Drain!EndOf(c),
           Drain!EndIsAhead(c)
    PROVE  \E e \in c .. v8 : /\ Drain!EmitTo = Drain!EndOf(e)
                              /\ Drain!GroupsSeen \in 0 .. e - c
                              /\ Drain!Complete <=> e = v8
<1> USE DEF Drain!EndOf, Drain!UnitBytes
<1>1. /\ v8 \in 1 .. Len(v7) /\ c < v8 /\ Len(v7) \in Nat /\ v9 \in Nat
      /\ \A i \in 1 .. v8 : Drain!EndsPicture(v7[i]) <=> i = v8
  BY DEF Drain!EndIsAhead, Drain!DrainInv
<1>2. PICK S : S = Drain!Scanned
  OBVIOUS
<1>3. S \subseteq c + 1 .. v8
  <2>1. SUFFICES ASSUME NEW i \in S PROVE i \in c + 1 .. v8
    OBVIOUS
  <2>2. /\ i \in Drain!WholeUnits
        /\ \A j \in Drain!WholeUnits : j < i => ~Drain!EndsPicture(v7[j])
    BY <1>2, <2>1 DEF Drain!Scanned
  <2>3. i \in Nat /\ i * 2 > c * 2 /\ i * 2 <= v9 /\ DOMAIN v7 = 1 .. Len(v7)
    BY <1>1, <2>2 DEF Drain!WholeUnits
  <2>4. CASE v8 < i
    <3>1. v8 \in DOMAIN v7 /\ v8 * 2 > v10 /\ v8 * 2 <= v9
      BY <1>1, <2>3, <2>4
    <3>2. v8 \in Drain!WholeUnits
      BY <3>1 DEF Drain!WholeUnits
    <3> QED BY <1>1, <2>2, <2>4, <3>2
  <2> QED BY <1>1, <2>3, <2>4
<1>4. IsFiniteSet(S) /\ Cardinality(S) \in Nat
  <2>1. c + 1 \in Int /\ v8 \in Int
    BY <1>1
  <2>2. IsFiniteSet(c + 1 .. v8)
    BY <2>1, FS_Interval, Zenon
  <2> QED BY <1>3, <2>2, FS_Subset, FS_CardinalityType, Zenon
<1>5. Drain!Complete <=> v8 \in S
  BY <1>1, <1>2, <1>3 DEF Drain!Complete
<1>6. CASE S = {}
  <2>1. Drain!GroupsSeen = 0
    <3>1. {i \in Drain!Scanned : v7[i].type = "tiles"} = {}
      BY <1>2, <1>6
    <3> QED BY <3>1, SameCountOfUnits, FS_EmptySet DEF Drain!GroupsSeen
  <2>2. Drain!EmitTo = Drain!EndOf(c)
    BY <1>2, <1>6 DEF Drain!EmitTo
  <2> QED BY <1>1, <1>5, <1>6, <2>1, <2>2
<1>7. CASE S # {}
  <2>1. S \subseteq 0 .. v8
    BY <1>1, <1>3
  <2>2. PICK e \in S : \A i \in S : i <= e
    <3>1. v8 \in Nat
      BY <1>1
    <3> QED BY <1>7, <2>1, <3>1, GreatestNumber, Zenon
  <2>3. e \in c + 1 .. v8
    BY <1>3, <2>2
  <2>4. Drain!EmitTo = Drain!EndOf(e)
    <3>1. PICK T : T = {Drain!EndOf(i) : i \in S}
      BY Zenon
    <3>2. e * 2 \in T /\ \A i \in S : i * 2 <= e * 2
      BY <1>3, <2>2, <2>3, <3>1
    <3>3. ASSUME NEW x \in T, \A i \in S : i * 2 <= x PROVE x = e * 2
      <4>1. PICK i \in S : x = i * 2
        BY <3>1
      <4> QED BY <1>3, <2>2, <2>3, <3>3, <4>1
    <3>4. Drain!EmitTo = CHOOSE x \in T : \A i \in S : i * 2 <= x
      BY <1>2, <1>7, <3>1, Zenon DEF Drain!EmitTo
    <3> QED BY <3>2, <3>3, <3>4
  <2>5. Drain!GroupsSeen \in 0 .. e - c
    <3>1. PICK G : G = {i \in S : v7[i].type = "tiles"}
      BY Zenon
    <3>2. ASSUME NEW i \in G PROVE i \in c + 1 .. e
      <4>1. i \in S /\ i <= e /\ i \in c + 1 .. v8
        BY <1>3, <2>2, <3>1, <3>2
      <4> QED BY <2>3, <4>1
    <3>3. IsFiniteSet(c + 1 .. e) /\ Cardinality(c + 1 .. e) = e - c
      BY <1>1, <2>3, FS_Interval
    <3>4. Cardinality(G) \in Nat /\ Cardinality(G) <= e - c
      <4>1. G \subseteq c + 1 .. e
        BY <3>2
      <4> QED BY <3>3, <4>1, FS_Subset, FS_CardinalityType, Zenon
    <3>5. Drain!GroupsSeen = Cardinality(G)
      BY <1>2, <3>1, SameCountOfUnits DEF Drain!GroupsSeen
    <3> QED BY <1>1, <2>3, <3>4, <3>5
  <2> QED BY <1>1, <1>5, <2>2, <2>3, <2>4, <2>5
<1> QED BY <1>6, <1>7

LEMMA SomeGroupsSeen ==
    ASSUME Len(v7) \in Nat
    PROVE  Drain!GroupsSeen \in 0 .. Len(v7)
<1>1. PICK G : G = {i \in Drain!Scanned : v7[i].type = "tiles"}
  BY Zenon
<1>2. G \subseteq 1 .. Len(v7)
  BY <1>1 DEF Drain!Scanned, Drain!WholeUnits
<1>3. IsFiniteSet(1 .. Len(v7)) /\ Cardinality(1 .. Len(v7)) = Len(v7)
  <2>1. PICK n \in Nat : n = Len(v7)
    OBVIOUS
  <2>2. IsFiniteSet(1 .. n) /\ Cardinality(1 .. n) = n
    BY FS_Interval
  <2> QED BY <2>1, <2>2
<1>4. Cardinality(G) \in Nat /\ Cardinality(G) <= Len(v7)
  BY <1>2, <1>3, FS_Subset, FS_CardinalityType, Zenon
<1> QED BY <1>1, <1>4, SameCountOfUnits DEF Drain!GroupsSeen

LEMMA DrainKeptByLock ==
    ASSUME Drain!DrainInv, Drain!Lock
    PROVE  Drain!DrainInv'
<1> USE DEF Drain!EndOf, Drain!UnitBytes
<1>1. /\ v3 = "draining" /\ UNCHANGED <<v1, v2, v4, v5, v7, v8, v9>>
      /\ \/ v3' = "draining" /\ v6' = v6 /\ v14' = v14
         \/ v3' = "idle" /\ v6' = Drain!NoSurface
  BY DEF Drain!Lock, Drain!After, Drain!Stop, Drain!GoOn
<1>2. CASE v1 = "av1"
  <2>1. /\ v10' = Drain!EmitTo /\ v12' = v12 + Drain!GroupsSeen
        /\ (Drain!Complete \/ v12' > 4 * v2) => v3' = "idle" /\ v14' = "complete"
        /\ (v14' = "complete" /\ v3' = "idle") => (Drain!Complete \/ v12' > 4 * v2)
    BY <1>2 DEF Drain!Lock, Drain!After, Drain!Stop, Drain!GoOn
  <2>2. Drain!GroupsSeen \in 0 .. Len(v7) /\ v2 \in Nat \ {0} /\ v12 \in Nat /\ v12 <= 4 * v2
    BY <1>1, <1>2, SomeGroupsSeen, DrainNumbers DEF Drain!DrainInv
  <2>3. v12' \in Nat /\ v12' <= 4 * v2 + Len(v7) /\ (v3' = "draining" => v12' <= 4 * v2)
    BY <2>1, <2>2 DEF Drain!DrainInv
  <2>4. ASSUME Drain!GridIsRight
        PROVE  \E e \in 0 .. v8 : /\ v10' = Drain!EndOf(e) /\ v12' <= e
                                  /\ v3' = "draining" => Drain!EndIsAhead(e)
                                  /\ v3' = "idle" /\ v14' = "complete" => e = v8
    <3>1. PICK c \in 0 .. v8 : v10 = Drain!EndOf(c) /\ v12 <= c /\ Drain!EndIsAhead(c)
      BY <1>1, <2>4 DEF Drain!DrainInv
    <3>2. PICK e \in c .. v8 : /\ Drain!EmitTo = Drain!EndOf(e)
                               /\ Drain!GroupsSeen \in 0 .. e - c
                               /\ Drain!Complete <=> e = v8
      BY <2>4, <3>1, WhatIsScanned
    <3>3. v8 \in Nat /\ c \in 0 .. v8 /\ e \in 0 .. v8 /\ v2 = Tiles /\ v8 <= Tiles + 1
      BY <2>4, <3>1, <3>2 DEF Drain!DrainInv, Drain!GridIsRight
    <3>4. v12' <= e
      BY <2>1, <2>2, <3>1, <3>2, <3>3
    <3>5. ~(v12' > 4 * v2)
      BY <2>3, <3>3, <3>4, DrainNumbers
    <3>6. v3' = "draining" => Drain!EndIsAhead(e)
      BY <1>1, <2>1, <3>1, <3>2, <3>3 DEF Drain!EndIsAhead
    <3> QED BY <2>1, <3>2, <3>3, <3>4, <3>5, <3>6
  <2>5. ASSUME Drain!GridIsRight'
        PROVE  /\ \E c \in 0 .. v8' :
                    v10' = Drain!EndOf(c) /\ v12' <= c /\ (v3' = "draining" => Drain!EndIsAhead(c)')
               /\ v10' <= Drain!EndOf(v8') /\ v10' % 2 = 0
               /\ v3' = "idle" /\ v14' = "complete" => v10' = Drain!EndOf(v8')
    <3>1. PICK e \in 0 .. v8 : /\ v10' = Drain!EndOf(e) /\ v12' <= e
                               /\ v3' = "draining" => Drain!EndIsAhead(e)
                               /\ v3' = "idle" /\ v14' = "complete" => e = v8
      BY <1>1, <2>4, <2>5 DEF Drain!GridIsRight
    <3>2. Drain!EndIsAhead(e)' <=> Drain!EndIsAhead(e)
      BY <1>1 DEF Drain!EndIsAhead, Drain!EndsPicture, Drain!TgEnd
    <3>3. v8 \in Nat
      BY DEF Drain!DrainInv
    <3> QED BY <1>1, <3>1, <3>2, <3>3
  <2>6. Drain!PictureIsExact'
    BY <1>1, <2>3, <2>5 DEF Drain!PictureIsExact, Drain!DrainInv, Drain!NoSurface
  <2>7. Drain!GridIsRight' => v8' <= Tiles + 1
    BY <1>1 DEF Drain!DrainInv, Drain!GridIsRight
  <2>8. v3' \in {"idle", "draining", "dead"} /\ v8' \in Nat /\ Len(v7') \in Nat /\ v9' \in Nat
    BY <1>1 DEF Drain!DrainInv
  <2> QED BY <1>1, <2>3, <2>5, <2>6, <2>7, <2>8 DEF Drain!DrainInv
<1>3. CASE v1 # "av1"
  <2>1. v12' = v12
    BY <1>3 DEF Drain!Lock
  <2> QED BY <1>1, <1>3, <2>1
          DEF Drain!DrainInv, Drain!PictureIsExact, Drain!GridIsRight
<1> QED BY <1>2, <1>3

\* A step that changes neither the picture nor what is taken of it, but may end the drain.
LEMMA DrainKeptBySame ==
    ASSUME Drain!DrainInv, UNCHANGED <<v1, v2, v4, v7, v8, v10, v12>>, v9' \in Nat,
           \/ UNCHANGED <<v3, v5, v6, v14>>
           \/ v3 = "draining" /\ v3' = "idle" /\ v6' = Drain!NoSurface /\ v5' = v5
              /\ v14' # "complete"
           \/ v3' = "dead"
    PROVE  Drain!DrainInv'
<1>1. \A c : Drain!EndIsAhead(c)' <=> Drain!EndIsAhead(c)
  BY DEF Drain!EndIsAhead, Drain!EndsPicture, Drain!TgEnd
<1>2. Drain!GridIsRight' <=> Drain!GridIsRight
  BY DEF Drain!GridIsRight
<1>3. Drain!GridIsRight' =>
        /\ v8' <= Tiles + 1
        /\ \E c \in 0 .. v8' :
             v10' = Drain!EndOf(c) /\ v12' <= c /\ (v3' = "draining" => Drain!EndIsAhead(c)')
  BY <1>1, <1>2 DEF Drain!DrainInv
<1>4. Drain!PictureIsExact'
  BY <1>2 DEF Drain!DrainInv, Drain!PictureIsExact, Drain!EndOf, Drain!NoSurface
<1> QED BY <1>3, <1>4 DEF Drain!DrainInv, Drain!EndOf

LEMMA DrainKept == Drain!DrainInv /\ Drain!Next => Drain!DrainInv'
<1> SUFFICES ASSUME Drain!DrainInv, Drain!Next PROVE Drain!DrainInv'
  OBVIOUS
<1>1. ASSUME NEW s \in Surfaces, NEW p \in Drain!Pictures, Drain!Encode(s, p)
      PROVE  Drain!DrainInv'
  BY <1>1, DrainKeptByEncode
<1>2. CASE Drain!Grow
  <2>1. v9 \in Nat
    BY DEF Drain!DrainInv
  <2> QED BY <1>2, <2>1, DrainKeptBySame DEF Drain!Grow
<1>3. CASE Drain!Lock
  BY <1>3, DrainKeptByLock
<1>4. CASE Drain!Busy
  BY <1>4, DrainKeptBySame DEF Drain!DrainInv, Drain!Busy, Drain!After, Drain!Stop, Drain!GoOn
<1>5. CASE Drain!Fails
  BY <1>5, DrainKeptBySame DEF Drain!DrainInv, Drain!Fails
<1> QED BY <1>1, <1>2, <1>3, <1>4, <1>5 DEF Drain!Next

LEMMA DrainStays == ASSUME Drain!DrainInv, UNCHANGED vars PROVE Drain!DrainInv'
BY DrainKeptBySame DEF vars, Drain!DrainInv

-----------------------------------------------------------------------------
(* SendPath.  v1 left, v2 made, v3 ring, v4 cache, v5 batch, v6 offload,   *)
(* v7 popped, v8 out, v9 asked, v10 wrong, v11 missed, v12 thread,         *)
(* v13 dropped, v14 asks.                                                  *)

LEMMA SendNumbers ==
    /\ Shapes \subseteq Seq(Nat \ {0})
    /\ CacheSlots \in Nat \ {0} /\ FrameTable \in Nat \ {0} /\ FrameIds \in Nat \ {0}
    /\ FrameIds % FrameTable = 0
BY SendAssumption DEF Send!SendBounds

LEMMA SendStart == Send!Init => Send!SendInv
<1> SUFFICES ASSUME Send!Init PROVE Send!SendInv
  OBVIOUS
<1> USE SendNumbers
<1>1. /\ v1 = <<>> /\ v2 = 0 /\ v3 = <<>> /\ v4 = Send!NewCache /\ v5 = Send!NewBatch
      /\ v7 = <<>> /\ v8 = <<>> /\ v9 = {} /\ v10 = {} /\ v11 = {} /\ v13 = {}
  BY DEF Send!Init
<1>2. Send!NoPacket \in Send!Packets
  BY DEF Send!NoPacket, Send!Packet, Send!Packets
<1>3. Send!TypeOK
  <2>1. v4 \in [slots  : [0 .. CacheSlots - 1 -> Send!Packets], write : Nat,
                frames : [0 .. FrameTable - 1 ->
                            [valid : BOOLEAN, id : Nat, first : Nat, count : Nat]]]
    BY <1>1, <1>2 DEF Send!NewCache
  <2>2. v5 \in [bytes : Seq(Send!Packets \X Nat), count : Nat, size : Nat, closed : BOOLEAN]
    BY <1>1 DEF Send!NewBatch
  <2> QED BY <1>1, <2>1, <2>2 DEF Send!TypeOK
<1>4. Len(Send!Line) = 0
  BY <1>1 DEF Send!Line
<1>5. Send!InOrder /\ Send!LeftIsNext
  BY <1>1, <1>4 DEF Send!InOrder, Send!LeftIsNext
<1>6. Send!IdsLive
  BY <1>1 DEF Send!IdsLive, Send!NewCache
<1>7. Send!SlotsHold
  <2>1. 0 % CacheSlots = 0
    OBVIOUS
  <2> QED BY <1>1, <2>1 DEF Send!SlotsHold, Send!NewCache
<1>8. Send!EntriesLead /\ Send!RetransmitsAreRight
  BY <1>1 DEF Send!EntriesLead, Send!RetransmitsAreRight
<1>9. Send!BatchHolds
  BY <1>1 DEF Send!BatchHolds, Send!NewBatch
<1> QED BY <1>3, <1>5, <1>6, <1>7, <1>8, <1>9 DEF Send!SendInv, Send!CacheHolds

\* What a step leaves alone keeps what is said of it.
LEMMA SlotsStay ==
    ASSUME Send!SlotsHold, v4' = v4, v7' = v7
    PROVE  Send!SlotsHold'
BY DEF Send!SlotsHold, Send!NoPacket, Send!Packet

LEMMA EntriesStay ==
    ASSUME Send!EntriesLead, v4' = v4, v7' = v7
    PROVE  Send!EntriesLead'
BY DEF Send!EntriesLead, Send!IsNewest, Send!Leads, Send!FirstOf, Send!Place, Send!Id

LEMMA CacheStays ==
    ASSUME Send!CacheHolds, v4' = v4, v7' = v7,
           v12' \in {"serves", "drains"} => v12 \in {"serves", "drains"}
    PROVE  Send!CacheHolds'
<1>1. ASSUME v12' \in {"serves", "drains"} PROVE Send!SlotsHold' /\ Send!EntriesLead'
  <2>1. Send!SlotsHold /\ Send!EntriesLead
    BY <1>1 DEF Send!CacheHolds
  <2> QED BY <2>1, SlotsStay, EntriesStay
<1> QED BY <1>1 DEF Send!CacheHolds

LEMMA BatchStays ==
    ASSUME Send!BatchHolds, v5' = v5, v7' = v7, v8' = v8
    PROVE  Send!BatchHolds'
BY DEF Send!BatchHolds, Send!NewBatch, Send!Whole

LEMMA LineStays ==
    ASSUME Send!InOrder, Send!LeftIsNext, v1' = v1, v2' = v2, Send!Line' = Send!Line, v13' = v13
    PROVE  Send!InOrder' /\ Send!LeftIsNext'
BY DEF Send!InOrder, Send!LeftIsNext, Send!IsWhole, Send!Before

LEMMA IdsStay ==
    ASSUME Send!IdsLive, v2' = v2, v3' = v3, v4' = v4, v7' = v7,
           \A q \in v9' : q \in v9 \/ (q.frame \in 1 .. v2 /\ Send!Lives(q.frame))
    PROVE  Send!IdsLive'
BY DEF Send!IdsLive, Send!Lives, Send!Id, Send!NoPacket, Send!Packet

LEMMA SendStays == ASSUME Send!SendInv, UNCHANGED vars PROVE Send!SendInv'
<1> USE DEF vars
<1>1. Send!Line' = Send!Line
  BY DEF Send!Line
<1>2. Send!TypeOK'
  BY DEF Send!SendInv, Send!TypeOK
<1>3. Send!RetransmitsAreRight'
  BY DEF Send!SendInv, Send!RetransmitsAreRight
<1> QED BY <1>1, <1>2, <1>3, CacheStays, BatchStays, LineStays, IdsStay
        DEF Send!SendInv

\* Of frames alive together no two have one id.
LEMMA OneFrameAnId ==
    ASSUME NEW a \in Nat, NEW b \in Nat, NEW top \in Nat, a <= top, b <= top,
           top < a + FrameIds, top < b + FrameIds, Send!Id(a) = Send!Id(b)
    PROVE  a = b
<1>1. FrameIds \in Nat \ {0} /\ a \in Int /\ b \in Int /\ a - b < FrameIds /\ b - a < FrameIds
  BY SendNumbers
<1>2. a % FrameIds = b % FrameIds
  BY DEF Send!Id
<1> QED BY <1>1, <1>2, ApartOnCircle, Zenon

\* A frame whose id the next one does not take lives on.
LEMMA NextLives ==
    ASSUME NEW f \in Nat, v2 \in Nat, Send!Lives(f), Send!Id(f) # Send!Id(v2 + 1)
    PROVE  v2 + 1 < f + FrameIds
<1>1. FrameIds \in Nat \ {0}
  BY SendNumbers
<1>2. v2 < f + FrameIds
  BY DEF Send!Lives
<1>3. ASSUME v2 + 1 = f + FrameIds PROVE FALSE
  <2>1. PICK r \in 0 .. FrameIds - 1 : r = f % FrameIds
    <3>1. f \in Int
      OBVIOUS
    <3> QED BY <1>1, <3>1, QuotientAndRest, Zenon
  <2>2. PICK q \in Int : f = FrameIds * q + r
    <3>1. f \in Int
      OBVIOUS
    <3> QED BY <1>1, <2>1, <3>1, QuotientAndRest, Zenon
  <2>3. PICK t \in Int : t = q + 1
    OBVIOUS
  <2>4. FrameIds * t = FrameIds * q + FrameIds
    BY <1>1, <2>3
  <2>5. PICK n \in Int : n = v2 + 1
    OBVIOUS
  <2>6. n = FrameIds * t + r
    BY <1>1, <1>3, <2>1, <2>2, <2>4, <2>5
  <2>7. n % FrameIds = r
    BY <1>1, <2>5, <2>6, OneRest, Zenon
  <2> QED BY <2>1, <2>5, <2>7 DEF Send!Id
<1> QED BY <1>1, <1>2, <1>3

LEMMA SendKeptByBeginFrame ==
    ASSUME Send!SendInv, Send!BeginFrame
    PROVE  Send!SendInv'
<1> USE SendNumbers
<1>1. /\ v1 = <<>> /\ v2 \in Nat /\ v2' = v2 + 1 /\ Send!IdIsFree(v2 + 1)
      /\ UNCHANGED <<v3, v4, v5, v7, v8, v9, v10, v11, v12, v13>>
  BY DEF Send!SendInv, Send!TypeOK, Send!BeginFrame
<1>2. PICK shape \in Shapes :
        v1' = [i \in 1 .. Len(shape) |-> Send!Packet(v2', i - 1, shape[i])]
  BY DEF Send!BeginFrame
<1>3. shape \in Seq(Nat \ {0}) /\ Len(shape) \in Nat
  OBVIOUS
<1>4. \A i \in 1 .. Len(shape) :
        /\ v1'[i] \in Send!Packets /\ v1'[i].frame = v2 + 1 /\ v1'[i].idx = i - 1
        /\ v1'[i].len > 0
  BY <1>1, <1>2, <1>3 DEF Send!Packet, Send!Packets
<1>5. v1' \in Seq(Send!Packets) /\ Len(v1') = Len(shape)
  BY <1>2, <1>3, <1>4
<1>6. Send!TypeOK'
  BY <1>1, <1>5 DEF Send!SendInv, Send!TypeOK
<1>7. Send!Line' = Send!Line
  BY <1>1 DEF Send!Line
<1>8. \A a \in 1 .. Len(Send!Line) : Send!Line[a].frame \in 1 .. v2
  BY DEF Send!SendInv, Send!InOrder
<1>9. Send!InOrder'
  BY <1>1, <1>7, <1>8 DEF Send!SendInv, Send!InOrder, Send!IsWhole, Send!Before
<1>10. Send!LeftIsNext'
  <2>1. ASSUME NEW b \in 1 .. Len(v1')
        PROVE  v1'[b].frame = v2' /\ v1'[b].idx = v1'[1].idx + (b - 1) /\ v1'[b].len > 0
    <3>1. 1 \in 1 .. Len(shape) /\ b \in 1 .. Len(shape)
      BY <1>3, <1>5, <2>1
    <3>2. v1'[1].idx = 0
      BY <1>4, <3>1
    <3>3. v1'[b].frame = v2 + 1 /\ v1'[b].idx = b - 1 /\ v1'[b].len > 0
      BY <1>4, <3>1
    <3>4. 0 + (b - 1) = b - 1
      BY <1>3, <3>1
    <3> QED BY <1>1, <3>2, <3>3, <3>4
  <2>2. ASSUME v1' # <<>>
        PROVE  /\ v2' > 0 /\ ~(v1'[1].idx > 0)
               /\ \A a \in 1 .. Len(Send!Line) : Send!Before(Send!Line[a], v1'[1])
    <3>1. 1 \in 1 .. Len(shape)
      BY <1>3, <1>5, <2>2
    <3> QED BY <1>1, <1>4, <1>8, <3>1 DEF Send!Before
  <2> QED BY <1>7, <2>1, <2>2, Zenon DEF Send!LeftIsNext, Send!Before
<1>11. Send!IdsLive'
  <2>1. \A k \in 1 .. Len(v3) : Send!Lives(v3[k].frame)'
    <3>1. TAKE k \in 1 .. Len(v3)
    <3>2. v3[k].frame \in Nat /\ Send!Lives(v3[k].frame) /\ Send!Id(v3[k].frame) # Send!Id(v2 + 1)
      <4>1. v3 \in Seq(Send!Packets) /\ DOMAIN v3 = 1 .. Len(v3)
        BY DEF Send!SendInv, Send!TypeOK
      <4>2. v3[k] \in Send!Packets
        BY <4>1
      <4>3. Send!Lives(v3[k].frame)
        BY DEF Send!SendInv, Send!IdsLive
      <4>4. Send!Id(v3[k].frame) # Send!Id(v2 + 1)
        BY <1>1, <4>1 DEF Send!IdIsFree
      <4> QED BY <4>2, <4>3, <4>4 DEF Send!Packets
    <3>3. v2 + 1 < v3[k].frame + FrameIds
      BY <1>1, <3>2, NextLives
    <3> QED BY <1>1, <3>3 DEF Send!Lives
  <2>2. \A i \in 0 .. CacheSlots - 1 :
          v4.slots[i] # Send!NoPacket => Send!Lives(v4.slots[i].frame)'
    <3>1. SUFFICES ASSUME NEW i \in 0 .. CacheSlots - 1, v4.slots[i] # Send!NoPacket
                   PROVE  Send!Lives(v4.slots[i].frame)'
      OBVIOUS
    <3>2. /\ v4.slots[i].frame \in Nat /\ Send!Lives(v4.slots[i].frame)
          /\ Send!Id(v4.slots[i].frame) # Send!Id(v2 + 1)
      <4>1. DOMAIN v4.slots = 0 .. CacheSlots - 1 /\ v4.slots[i] \in Send!Packets
        BY DEF Send!SendInv, Send!TypeOK
      <4> QED BY <1>1, <3>1, <4>1, Zenon
         DEF Send!SendInv, Send!IdsLive, Send!IdIsFree, Send!Packets
    <3>3. v2 + 1 < v4.slots[i].frame + FrameIds
      BY <1>1, <3>2, NextLives
    <3> QED BY <1>1, <3>3 DEF Send!Lives
  <2>3. \A q \in v9 : q.frame \in 1 .. v2' /\ Send!Lives(q.frame)'
    <3>1. TAKE q \in v9
    <3>2. q.frame \in 1 .. v2 /\ Send!Lives(q.frame) /\ Send!Id(q.frame) # Send!Id(v2 + 1)
      BY <1>1 DEF Send!SendInv, Send!IdsLive, Send!IdIsFree
    <3>3. v2 + 1 < q.frame + FrameIds
      BY <1>1, <3>2, NextLives
    <3> QED BY <1>1, <3>2, <3>3 DEF Send!Lives
  <2>4. ASSUME NEW i \in 0 .. FrameTable - 1, v4.frames[i].valid
        PROVE  \E k \in 1 .. Len(v7) :
                 Send!Lives(v7[k].frame)' /\ Send!Id(v7[k].frame)' = v4'.frames[i].id
    <3>1. PICK k \in 1 .. Len(v7) : Send!Lives(v7[k].frame) /\ Send!Id(v7[k].frame) = v4.frames[i].id
      BY <2>4 DEF Send!SendInv, Send!IdsLive
    <3>2. v4.frames[i].id # Send!Id(v2 + 1)
      <4>1. DOMAIN v4.frames = 0 .. FrameTable - 1
        BY DEF Send!SendInv, Send!TypeOK
      <4> QED BY <1>1, <2>4, <4>1 DEF Send!IdIsFree
    <3>3. v7[k].frame \in Nat
      <4>1. v7 \in Seq(Send!Packets)
        BY DEF Send!SendInv, Send!TypeOK
      <4>2. v7[k] \in Send!Packets
        BY <4>1
      <4> QED BY <4>2 DEF Send!Packets
    <3>4. v2 + 1 < v7[k].frame + FrameIds
      BY <1>1, <3>1, <3>2, <3>3, NextLives
    <3> QED BY <1>1, <3>1, <3>4 DEF Send!Lives, Send!Id
  <2> QED BY <1>1, <2>1, <2>2, <2>3, <2>4 DEF Send!IdsLive, Send!NoPacket, Send!Packet, Send!Lives, Send!Id
<1>12. Send!RetransmitsAreRight'
  BY <1>1 DEF Send!SendInv, Send!RetransmitsAreRight
<1> QED BY <1>1, <1>6, <1>9, <1>10, <1>11, <1>12, CacheStays, BatchStays DEF Send!SendInv

\* The line, and the places in it of what was taken.
LEMMA LineHas ==
    ASSUME Send!TypeOK
    PROVE  /\ Send!Line \in Seq(Send!Packets) /\ Len(Send!Line) = Len(v7) + Len(v3)
           /\ Len(v7) \in Nat /\ Len(v3) \in Nat
           /\ \A k \in 1 .. Len(v7) : Send!Line[k] = v7[k]
           /\ \A k \in 1 .. Len(v3) : Send!Line[Len(v7) + k] = v3[k]
           /\ \A k \in 1 .. Len(Send!Line) :
                Send!Line[k].frame \in Nat /\ Send!Line[k].idx \in Nat /\ Send!Line[k].len \in Nat
<1>1. v7 \in Seq(Send!Packets) /\ v3 \in Seq(Send!Packets)
  BY DEF Send!TypeOK
<1>2. Send!Line = v7 \o v3
  BY DEF Send!Line
<1>3. Send!Line \in Seq(Send!Packets)
  BY <1>1, <1>2
<1>4. /\ Len(Send!Line) = Len(v7) + Len(v3) /\ Len(v7) \in Nat /\ Len(v3) \in Nat
      /\ \A k \in 1 .. Len(v7) : Send!Line[k] = v7[k]
      /\ \A k \in 1 .. Len(v3) : Send!Line[Len(v7) + k] = v3[k]
  BY <1>1, <1>2
<1>5. ASSUME NEW k \in 1 .. Len(Send!Line)
      PROVE  Send!Line[k].frame \in Nat /\ Send!Line[k].idx \in Nat /\ Send!Line[k].len \in Nat
  <2>1. Send!Line[k] \in Send!Packets
    BY <1>3, <1>5
  <2> QED BY <2>1 DEF Send!Packets
<1> QED BY <1>3, <1>4, <1>5

LEMMA SendKeptByPush ==
    ASSUME Send!SendInv, Send!Push
    PROVE  Send!SendInv'
<1> USE SendNumbers
<1>1. /\ v1 # <<>> /\ v1' = Tail(v1) /\ UNCHANGED <<v2, v4, v5, v7, v8, v9, v10, v11, v12>>
      /\ \/ v3' = Append(v3, Head(v1)) /\ v13' = v13
         \/ v3' = v3 /\ v13' = v13 \cup {Head(v1)}
  BY DEF Send!Push
<1>2. /\ v1 \in Seq(Send!Packets) /\ v3 \in Seq(Send!Packets) /\ v7 \in Seq(Send!Packets)
      /\ v2 \in Nat
  BY DEF Send!SendInv, Send!TypeOK
<1>3. PICK p \in Send!Packets : p = v1[1]
  BY <1>1, <1>2
<1>4. /\ Head(v1) = p /\ Len(v1) \in Nat \ {0} /\ Len(v1') = Len(v1) - 1
      /\ v1' \in Seq(Send!Packets) /\ \A b \in 1 .. Len(v1') : v1'[b] = v1[b + 1]
  BY <1>1, <1>2, <1>3
<1>5. p.frame \in Nat /\ p.idx \in Nat /\ p.len \in Nat
  BY <1>3 DEF Send!Packets
<1>6. /\ p.frame = v2 /\ p.len > 0 /\ v2 > 0
      /\ \A b \in 1 .. Len(v1) :
           v1[b].frame = v2 /\ v1[b].idx = p.idx + (b - 1) /\ v1[b].len > 0
      /\ \A a \in 1 .. Len(Send!Line) : Send!Before(Send!Line[a], p)
      /\ p.idx > 0 /\ Send!IsWhole(v2) =>
           Send!Line # <<>> /\ Send!Line[Len(Send!Line)].frame = v2
             /\ Send!Line[Len(Send!Line)].idx = p.idx - 1
  <2>1. Send!LeftIsNext /\ 1 \in 1 .. Len(v1)
    BY <1>4 DEF Send!SendInv
  <2> QED BY <1>1, <1>3, <2>1 DEF Send!LeftIsNext
<1>7. Send!TypeOK'
  <2>1. v3' \in Seq(Send!Packets)
    <3>1. v3' = Append(v3, p) \/ v3' = v3
      BY <1>1, <1>4
    <3> QED BY <1>2, <1>3, <3>1
  <2> QED BY <1>1, <1>4, <2>1, Zenon DEF Send!SendInv, Send!TypeOK
<1>8. PICK x : x = Send!Line
  OBVIOUS
<1>9. /\ x \in Seq(Send!Packets) /\ Len(x) \in Nat
      /\ \A k \in 1 .. Len(x) : x[k].frame \in Nat /\ x[k].idx \in Nat /\ x[k].len \in Nat
  BY <1>8, LineHas DEF Send!SendInv
<1>10. ASSUME NEW b \in 1 .. Len(v1')
       PROVE  /\ v1'[b].frame = v2' /\ v1'[b].idx = v1'[1].idx + (b - 1) /\ v1'[b].len > 0
  <2>1. b + 1 \in 1 .. Len(v1) /\ 2 \in 1 .. Len(v1) /\ 1 \in 1 .. Len(v1')
    BY <1>4, <1>10
  <2>2. v1'[b] = v1[b + 1] /\ v1'[1] = v1[2]
    BY <1>4, <2>1
  <2>3. v1[b + 1].idx = p.idx + b /\ v1[2].idx = p.idx + 1
    BY <1>6, <2>1
  <2>4. v1[b + 1].frame = v2 /\ v1[b + 1].len > 0
    BY <1>6, <2>1
  <2>5. p.idx + b = (p.idx + 1) + (b - 1)
    BY <1>4, <1>5, <1>10
  <2> QED BY <1>1, <2>2, <2>3, <2>4, <2>5
<1>11. ASSUME v1' # <<>>
       PROVE  v1'[1].frame = v2 /\ v1'[1].idx = p.idx + 1
  <2>1. 2 \in 1 .. Len(v1) /\ 1 \in 1 .. Len(v1')
    BY <1>4, <1>11
  <2>2. v1'[1] = v1[2] /\ v1[2].frame = v2 /\ v1[2].idx = p.idx + 1
    BY <1>4, <1>6, <2>1
  <2> QED BY <2>2
<1>12. ASSUME NEW q, Send!Before(q, p), v1' # <<>>, q.idx \in Nat, q.frame \in Nat
       PROVE  Send!Before(q, v1'[1])
  BY <1>5, <1>6, <1>11, <1>12 DEF Send!Before
<1>13. CASE v3' = v3 /\ v13' = v13 \cup {p}
  <2>1. Send!Line' = x
    BY <1>1, <1>8, <1>13 DEF Send!Line
  <2>2. \A f : Send!IsWhole(f)' => Send!IsWhole(f)
    BY <1>13 DEF Send!IsWhole
  <2>3. ~Send!IsWhole(v2)'
    <3>1. p \in v13' /\ p.frame = v2 /\ v2' = v2
      BY <1>1, <1>6, <1>13
    <3> QED BY <3>1 DEF Send!IsWhole
  <2>4. Send!InOrder'
    BY <1>1, <1>8, <2>1, <2>2 DEF Send!SendInv, Send!InOrder, Send!Before
  <2>5. ASSUME v1' # <<>>, NEW a \in 1 .. Len(x) PROVE Send!Before(x[a], v1'[1])
    BY <1>6, <1>8, <1>9, <1>12, <2>5
  <2>6. Send!LeftIsNext'
    BY <1>1, <1>6, <1>10, <2>1, <2>3, <2>5, Zenon DEF Send!LeftIsNext, Send!Before
  <2>7. Send!IdsLive'
    BY <1>1, <1>13, IdsStay DEF Send!SendInv, Send!IdsLive
  <2> QED BY <1>1, <1>7, <2>4, <2>6, <2>7, CacheStays, BatchStays
          DEF Send!SendInv, Send!RetransmitsAreRight
<1>14. CASE v3' = Append(v3, p) /\ v13' = v13
  <2>1. PICK n \in Nat \ {0} : n = Len(x) + 1
    BY <1>9
  <2>2. PICK y : y = Send!Line'
    OBVIOUS
  <2>3. /\ y \in Seq(Send!Packets) /\ Len(y) = n /\ y[n] = p
        /\ \A k \in 1 .. Len(x) : y[k] = x[k]
    <3>1. x = v7 \o v3 /\ y = v7 \o Append(v3, p)
      BY <1>1, <1>8, <1>14, <2>2 DEF Send!Line
    <3>2. y = Append(x, p)
      BY <1>2, <1>3, <3>1
    <3> QED BY <1>3, <1>9, <2>1, <3>2
  <2>4. \A f : Send!IsWhole(f)' <=> Send!IsWhole(f)
    BY <1>14 DEF Send!IsWhole
  <2>5. ASSUME NEW a \in 1 .. n PROVE y[a].frame \in 1 .. v2 /\ y[a].len > 0
    <3>1. CASE a = n
      BY <1>2, <1>6, <2>3, <3>1
    <3>2. CASE a # n
      <4>1. a \in 1 .. Len(x) /\ y[a] = x[a]
        BY <1>9, <2>1, <2>3, <3>2
      <4> QED BY <1>8, <4>1 DEF Send!SendInv, Send!InOrder
    <3> QED BY <3>1, <3>2
  <2>6. ASSUME NEW a \in 1 .. n, NEW b \in 1 .. n, a < b PROVE Send!Before(y[a], y[b])
    <3>1. a \in 1 .. Len(x) /\ y[a] = x[a]
      BY <1>9, <2>1, <2>3, <2>6
    <3>2. CASE b = n
      BY <1>6, <1>8, <2>3, <3>1, <3>2
    <3>3. CASE b # n
      <4>1. b \in 1 .. Len(x) /\ y[b] = x[b]
        BY <1>9, <2>1, <2>3, <3>3
      <4> QED BY <1>8, <2>6, <3>1, <4>1 DEF Send!SendInv, Send!InOrder
    <3> QED BY <3>2, <3>3
  <2>7. ASSUME NEW a \in 1 .. Len(x), Send!IsWhole(x[a].frame)
        PROVE  x[a].idx < a /\ x[a - x[a].idx].frame = x[a].frame /\ x[a - x[a].idx].idx = 0
    BY <1>8, <2>7 DEF Send!SendInv, Send!InOrder
  <2>8. ASSUME NEW a \in 1 .. n, Send!IsWhole(y[a].frame)
        PROVE  y[a].idx < a /\ y[a - y[a].idx].frame = y[a].frame /\ y[a - y[a].idx].idx = 0
    <3>1. CASE a # n
      <4>1. a \in 1 .. Len(x) /\ y[a] = x[a] /\ x[a].idx \in Nat
        BY <1>9, <2>1, <2>3, <3>1
      <4>2. x[a].idx < a /\ x[a - x[a].idx].frame = x[a].frame /\ x[a - x[a].idx].idx = 0
        BY <2>7, <2>8, <4>1
      <4>3. a - x[a].idx \in 1 .. Len(x)
        BY <1>9, <4>1, <4>2
      <4>4. y[a - x[a].idx] = x[a - x[a].idx]
        BY <2>3, <4>3
      <4> QED BY <4>1, <4>2, <4>4
    <3>2. CASE a = n /\ p.idx = 0
      BY <2>1, <2>3, <3>2
    <3>3. CASE a = n /\ p.idx # 0
      <4>1. /\ x # <<>> /\ x[Len(x)].frame = v2 /\ x[Len(x)].idx = p.idx - 1 /\ Send!IsWhole(v2)
        BY <1>5, <1>6, <1>8, <2>3, <2>8, <3>3
      <4>2. PICK l \in 1 .. Len(x) : l = Len(x)
        BY <1>9, <4>1
      <4>3. x[l].idx < l /\ x[l - x[l].idx].frame = x[l].frame /\ x[l - x[l].idx].idx = 0
        BY <2>7, <4>1, <4>2
      <4>4. PICK d \in Int : d = n - p.idx
        BY <1>5
      <4>5. d = l - (p.idx - 1) /\ p.idx - 1 < l
        BY <1>5, <2>1, <4>1, <4>2, <4>3, <4>4
      <4>6. x[d].frame = v2 /\ x[d].idx = 0 /\ d \in 1 .. Len(x) /\ p.idx < n
        BY <1>5, <2>1, <3>3, <4>1, <4>2, <4>3, <4>5
      <4> QED BY <1>6, <2>3, <3>3, <4>4, <4>6
    <3> QED BY <3>1, <3>2, <3>3
  <2>9. Send!InOrder'
    BY <1>1, <2>2, <2>3, <2>4, <2>5, <2>6, <2>8 DEF Send!InOrder, Send!Before
  <2>10. ASSUME v1' # <<>>, NEW a \in 1 .. n PROVE Send!Before(y[a], v1'[1])
    <3>1. CASE a = n
      BY <1>5, <1>6, <1>11, <2>3, <2>10, <3>1 DEF Send!Before
    <3>2. CASE a # n
      <4>1. a \in 1 .. Len(x) /\ y[a] = x[a]
        BY <1>9, <2>1, <2>3, <3>2
      <4> QED BY <1>6, <1>8, <1>9, <1>12, <2>10, <4>1
    <3> QED BY <3>1, <3>2
  <2>11. Send!LeftIsNext'
    <3>1. ASSUME v1' # <<>>
          PROVE  y # <<>> /\ y[Len(y)].frame = v2' /\ y[Len(y)].idx = v1'[1].idx - 1
      <4>1. y # <<>> /\ y[Len(y)] = p
        BY <2>1, <2>3
      <4>2. p.idx = (p.idx + 1) - 1
        BY <1>5
      <4> QED BY <1>1, <1>6, <1>11, <3>1, <4>1, <4>2
    <3> QED BY <1>1, <1>6, <1>10, <2>2, <2>3, <2>10, <3>1, Zenon
       DEF Send!LeftIsNext, Send!Before
  <2>12. Send!IdsLive'
    <3>1. ASSUME NEW k \in 1 .. Len(v3') PROVE Send!Lives(v3'[k].frame)
      <4>1. v3'[k] = p \/ (k \in 1 .. Len(v3) /\ v3'[k] = v3[k])
        BY <1>2, <1>3, <1>14, <3>1
      <4>2. Send!Lives(p.frame)
        BY <1>2, <1>6 DEF Send!Lives
      <4> QED BY <4>1, <4>2 DEF Send!SendInv, Send!IdsLive
    <3> QED BY <1>1, <3>1, Zenon
       DEF Send!SendInv, Send!IdsLive, Send!Lives, Send!Id, Send!NoPacket, Send!Packet
  <2> QED BY <1>1, <1>7, <2>9, <2>11, <2>12, CacheStays, BatchStays
          DEF Send!SendInv, Send!RetransmitsAreRight
<1> QED BY <1>1, <1>4, <1>13, <1>14

\* What each taken packet is, and how the taken ones follow each other.
LEMMA Taken ==
    ASSUME Send!TypeOK, Send!InOrder
    PROVE  /\ Len(v7) \in Nat
           /\ \A k \in 1 .. Len(v7) :
                /\ v7[k] \in Send!Packets /\ v7[k].frame \in 1 .. v2 /\ v7[k].idx \in Nat
                /\ v7[k].frame \in Nat /\ v7[k].len \in Nat \ {0}
                /\ Send!IsWhole(v7[k].frame) =>
                     /\ k - v7[k].idx \in 1 .. k
                     /\ v7[k - v7[k].idx].frame = v7[k].frame
                     /\ v7[k - v7[k].idx].idx = 0
           /\ \A a, b \in 1 .. Len(v7) : a < b => Send!Before(v7[a], v7[b])
<1>1. /\ Len(v7) \in Nat /\ Len(v3) \in Nat /\ Len(Send!Line) = Len(v7) + Len(v3)
      /\ \A k \in 1 .. Len(v7) : Send!Line[k] = v7[k]
  BY LineHas
<1>2. ASSUME NEW k \in 1 .. Len(v7)
      PROVE  /\ v7[k] \in Send!Packets /\ v7[k].frame \in 1 .. v2 /\ v7[k].len \in Nat \ {0}
             /\ v7[k].idx \in Nat /\ v7[k].frame \in Nat
  <2>1. v7 \in Seq(Send!Packets)
    BY DEF Send!TypeOK
  <2>2. v7[k] \in Send!Packets
    BY <1>2, <2>1
  <2>3. k \in 1 .. Len(Send!Line) /\ Send!Line[k] = v7[k]
    BY <1>1, <1>2
  <2>4. v7[k].frame \in 1 .. v2 /\ v7[k].len > 0
    BY <2>3 DEF Send!InOrder
  <2> QED BY <2>2, <2>4 DEF Send!Packets
<1>3. ASSUME NEW k \in 1 .. Len(v7), Send!IsWhole(v7[k].frame)
      PROVE  /\ k - v7[k].idx \in 1 .. k
             /\ v7[k - v7[k].idx].frame = v7[k].frame
             /\ v7[k - v7[k].idx].idx = 0
  <2>1. k \in 1 .. Len(Send!Line) /\ Send!Line[k] = v7[k]
    BY <1>1, <1>3
  <2>2. v7[k].idx < k /\ Send!Line[k - v7[k].idx].frame = v7[k].frame
        /\ Send!Line[k - v7[k].idx].idx = 0
    BY <1>3, <2>1 DEF Send!InOrder
  <2>3. k - v7[k].idx \in 1 .. k
    BY <1>2, <1>3, <2>2
  <2> QED BY <1>1, <1>3, <2>2, <2>3
<1>4. ASSUME NEW a \in 1 .. Len(v7), NEW b \in 1 .. Len(v7), a < b
      PROVE  Send!Before(v7[a], v7[b])
  <2>1. a \in 1 .. Len(Send!Line) /\ b \in 1 .. Len(Send!Line)
    BY <1>1, <1>4
  <2>2. Send!Before(Send!Line[a], Send!Line[b])
    BY <1>4, <2>1 DEF Send!InOrder
  <2> QED BY <1>1, <1>4, <2>2
<1> QED BY <1>1, <1>2, <1>3, <1>4

\* The packet in a slot is one that was taken, and lives.
LEMMA InSlot ==
    ASSUME Send!SendInv, Send!SlotsHold, NEW i \in 0 .. CacheSlots - 1,
           v4.slots[i] # Send!NoPacket
    PROVE  /\ Send!Lives(v4.slots[i].frame)
           /\ \E k \in 1 .. Len(v7) :
                /\ Len(v7) < k + CacheSlots /\ i = (k - 1) % CacheSlots
                /\ v4.slots[i] = v7[k]
BY DEF Send!SendInv, Send!IdsLive, Send!SlotsHold

\* Where an entry leads is a slot.
LEMMA SlotIsOne ==
    ASSUME Send!TypeOK, NEW f \in Nat, NEW x \in Nat
    PROVE  /\ Send!Place(f) \in 0 .. FrameTable - 1
           /\ v4.frames[Send!Place(f)].first \in Nat
           /\ (v4.frames[Send!Place(f)].first + x) % CacheSlots \in 0 .. CacheSlots - 1
<1> USE SendNumbers
<1>1. PICK a \in Int : a = Send!Id(f)
  BY QuotientAndRest DEF Send!Id
<1>2. Send!Place(f) \in 0 .. FrameTable - 1
  BY <1>1, QuotientAndRest, Zenon DEF Send!Place
<1>3. v4.frames[Send!Place(f)].first \in Nat
  BY <1>2, Zenon DEF Send!TypeOK
<1>4. PICK n \in Int : n = v4.frames[Send!Place(f)].first + x
  BY <1>3
<1>5. n % CacheSlots \in 0 .. CacheSlots - 1
  BY QuotientAndRest
<1> QED BY <1>2, <1>3, <1>4, <1>5

\* The answer to a NACK is the packet it names.
LEMMA RightAnswer ==
    ASSUME Send!SendInv, Send!SlotsHold, NEW q \in v9, Send!Found(q.frame, q.idx)
    PROVE  Send!SlotOf(q.frame, q.idx).frame = q.frame /\ Send!SlotOf(q.frame, q.idx).idx = q.idx
<1>1. q.frame \in Nat /\ q.idx \in Nat /\ q.frame \in 1 .. v2 /\ Send!Lives(q.frame) /\ v2 \in Nat
  BY DEF Send!SendInv, Send!TypeOK, Send!IdsLive
<1>2. PICK i \in 0 .. CacheSlots - 1 : i = (v4.frames[Send!Place(q.frame)].first + q.idx) % CacheSlots
  BY <1>1, SlotIsOne, Zenon DEF Send!SendInv
<1>3. Send!SlotOf(q.frame, q.idx) = v4.slots[i]
  BY <1>2 DEF Send!SlotOf
<1>4. v4.slots[i] # Send!NoPacket /\ Send!Id(v4.slots[i].frame) = Send!Id(q.frame)
      /\ v4.slots[i].idx = q.idx
  BY <1>3 DEF Send!Found, Send!HeaderMatches
<1>5. PICK k \in 1 .. Len(v7) : v4.slots[i] = v7[k] /\ Send!Lives(v7[k].frame)
  BY <1>4, InSlot
<1>6. v7[k].frame \in Nat /\ v7[k].frame \in 1 .. v2
  BY Taken DEF Send!SendInv
<1>7. PICK f \in Nat : f = v7[k].frame
  BY <1>6
<1>8. f <= v2 /\ q.frame <= v2 /\ v2 < f + FrameIds /\ v2 < q.frame + FrameIds
  BY <1>1, <1>5, <1>6, <1>7 DEF Send!Lives
<1>9. Send!Id(f) = Send!Id(q.frame)
  BY <1>4, <1>5, <1>7
<1>10. f = q.frame
  BY <1>1, <1>8, <1>9, OneFrameAnId
<1> QED BY <1>3, <1>4, <1>5, <1>7, <1>10

\* The place in the table is the frame's own number round it.
LEMMA PlaceOfFrame ==
    ASSUME NEW f \in Nat PROVE Send!Place(f) = f % FrameTable
<1>1. f \in Int
  OBVIOUS
<1> QED BY <1>1, SendNumbers, CircleInCircle, Zenon DEF Send!Place, Send!Id

\* A packet that is still held, of a frame that lost none and is the newest in its place,
\* is where its entry leads.
LEMMA NotMissed ==
    ASSUME Send!SendInv, Send!SlotsHold, Send!EntriesLead, NEW q \in v9,
           Send!Kept(q.frame, q.idx)
    PROVE  Send!Found(q.frame, q.idx)
<1> USE SendNumbers
<1>1. q.frame \in Nat /\ q.idx \in Nat /\ q.frame \in 1 .. v2 /\ v2 \in Nat
  BY DEF Send!SendInv, Send!TypeOK, Send!IdsLive
<1>2. PICK f \in Nat, x \in Nat : f = q.frame /\ x = q.idx
  BY <1>1
<1>3. PICK i \in 0 .. CacheSlots - 1 : v4.slots[i].frame = f /\ v4.slots[i].idx = x
  BY <1>2, Zenon DEF Send!Kept, Send!SendInv, Send!TypeOK
<1>4. v4.slots[i] # Send!NoPacket
  BY <1>1, <1>2, <1>3 DEF Send!NoPacket, Send!Packet
<1>5. PICK k \in 1 .. Len(v7) : i = (k - 1) % CacheSlots /\ v4.slots[i] = v7[k]
  BY <1>4, InSlot, Zenon
<1>6. v7[k].frame = f /\ v7[k].idx = x /\ Send!IsWhole(f)
  BY <1>2, <1>3, <1>5 DEF Send!Kept, Send!IsWhole
<1>7. Send!IsNewest(f)
  <2>1. SUFFICES ASSUME NEW j \in 1 .. Len(v7), Send!Place(v7[j].frame) = Send!Place(f)
                 PROVE  v7[j].frame <= f
    BY DEF Send!IsNewest
  <2>2. PICK g \in Nat : g = v7[j].frame
    BY Taken DEF Send!SendInv
  <2>3. g < f + FrameTable
    <3>1. v7 \in Seq(Send!Packets)
      BY DEF Send!SendInv, Send!TypeOK
    <3>2. j \in DOMAIN v7
      BY <3>1
    <3> QED BY <1>2, <2>2, <3>2 DEF Send!Kept
  <2>4. g % FrameTable = f % FrameTable
    BY <2>1, <2>2, PlaceOfFrame, Zenon
  <2>5. CASE f < g
    <3>1. g - f < FrameTable /\ f - g < FrameTable /\ g \in Int /\ f \in Int
      BY <2>3, <2>5
    <3>2. g = f
      BY <2>4, <3>1, ApartOnCircle, Zenon
    <3> QED BY <2>2, <3>2
  <2> QED BY <2>2, <2>5
<1>8. Send!Leads(v4.frames[Send!Place(f)], k)
  BY <1>6, <1>7 DEF Send!SendInv, Send!EntriesLead
<1>9. Send!IsListed(f, x)
  BY <1>6, <1>8 DEF Send!Leads, Send!IsListed
<1>10. PICK m \in 1 .. k : Send!FirstOf(m, f) /\ v4.frames[Send!Place(f)].first = (m - 1) % CacheSlots
  BY <1>6, <1>8 DEF Send!Leads
<1>11. m = k - x
  <2>1. PICK d \in 1 .. k : d = k - x /\ v7[d].frame = f /\ v7[d].idx = 0
    BY <1>6, Taken, Zenon DEF Send!SendInv
  <2>2. Len(v7) \in Nat /\ d \in 1 .. Len(v7) /\ m \in 1 .. Len(v7)
    BY <2>1, Taken DEF Send!SendInv
  <2>3. ~(d < m)
    <3>1. ASSUME d < m PROVE d \in 1 .. m - 1
      BY <2>1, <3>1
    <3> QED BY <1>10, <2>1, <3>1, Zenon DEF Send!FirstOf
  <2>4. ASSUME m < d PROVE FALSE
    <3>1. Send!Before(v7[m], v7[d]) /\ v7[m].idx \in Nat
      BY <2>2, <2>4, Taken DEF Send!SendInv
    <3>2. v7[m].frame = f
      BY <1>10 DEF Send!FirstOf
    <3> QED BY <2>1, <3>1, <3>2 DEF Send!Before
  <2> QED BY <2>1, <2>3, <2>4
<1>12. (v4.frames[Send!Place(f)].first + x) % CacheSlots = i
  <2>1. PICK a \in Int : a = m - 1
    OBVIOUS
  <2>2. ((a % CacheSlots) + x) % CacheSlots = (a + x) % CacheSlots
    <3>1. x \in Int
      OBVIOUS
    <3> QED BY <3>1, PlusOnCircle, Zenon
  <2>3. a + x = k - 1
    BY <1>11, <2>1
  <2> QED BY <1>5, <1>10, <2>1, <2>2, <2>3
<1>13. Send!SlotOf(f, x) = v7[k]
  BY <1>5, <1>12 DEF Send!SlotOf
<1>14. Send!HeaderMatches(v7[k], f, x)
  BY <1>4, <1>5, <1>6 DEF Send!HeaderMatches
<1> QED BY <1>2, <1>9, <1>13, <1>14 DEF Send!Found

LEMMA SendKeptByServe ==
    ASSUME Send!SendInv, Send!Serve
    PROVE  Send!SendInv'
<1>1. UNCHANGED <<v1, v2, v3, v4, v5, v7, v8, v12, v13>> /\ v9' \subseteq v9
  BY DEF Send!Serve
<1>2. v10' = {} /\ v11' = {}
  <2>1. v10 = {} /\ v11 = {}
    BY DEF Send!SendInv, Send!RetransmitsAreRight
  <2>2. Send!SlotsHold /\ Send!EntriesLead
    BY DEF Send!SendInv, Send!CacheHolds, Send!Serve
  <2> QED BY <2>1, <2>2, RightAnswer, NotMissed DEF Send!Serve
<1>3. Send!TypeOK'
  BY <1>1 DEF Send!SendInv, Send!TypeOK
<1>4. Send!Line' = Send!Line
  BY <1>1 DEF Send!Line
<1>5. Send!IdsLive'
  BY <1>1, IdsStay DEF Send!SendInv, Send!IdsLive
<1> QED BY <1>1, <1>2, <1>3, <1>4, <1>5, CacheStays, BatchStays, LineStays
        DEF Send!SendInv, Send!RetransmitsAreRight

LEMMA SendKeptByBeginDrain ==
    ASSUME Send!SendInv, Send!BeginDrain
    PROVE  Send!SendInv'
<1>1. UNCHANGED <<v1, v2, v3, v4, v5, v7, v8, v9, v10, v11, v13>> /\ v12 = "serves"
  BY DEF Send!BeginDrain
<1>2. Send!TypeOK'
  BY <1>1 DEF Send!SendInv, Send!TypeOK
<1>3. Send!Line' = Send!Line
  BY <1>1 DEF Send!Line
<1> QED BY <1>1, <1>2, <1>3, CacheStays, BatchStays, LineStays, IdsStay
        DEF Send!SendInv, Send!RetransmitsAreRight

LEMMA SendKeptByStop ==
    ASSUME Send!SendInv, Send!Stop
    PROVE  Send!SendInv'
<1>1. UNCHANGED <<v1, v2, v3, v4, v5, v7, v8, v9, v10, v11, v13>> /\ v12 = "serves"
  BY DEF Send!Stop
<1>2. Send!TypeOK'
  BY <1>1 DEF Send!SendInv, Send!TypeOK
<1>3. Send!Line' = Send!Line
  BY <1>1 DEF Send!Line
<1> QED BY <1>1, <1>2, <1>3, CacheStays, BatchStays, LineStays, IdsStay
        DEF Send!SendInv, Send!RetransmitsAreRight

LEMMA SendKeptByAsk ==
    ASSUME Send!SendInv, Send!Ask
    PROVE  Send!SendInv'
<1> USE SendNumbers
<1>1. UNCHANGED <<v1, v2, v3, v4, v5, v7, v8, v10, v11, v12, v13>>
  BY DEF Send!Ask
<1>2. PICK k \in DOMAIN v7, shape \in Shapes :
        \E i \in DOMAIN shape :
            /\ v7[k].frame + FrameIds > v2
            /\ v9' = v9 \cup {[frame |-> v7[k].frame, idx |-> i - 1]}
  BY DEF Send!Ask
<1>3. PICK i \in DOMAIN shape :
        /\ v7[k].frame + FrameIds > v2
        /\ v9' = v9 \cup {[frame |-> v7[k].frame, idx |-> i - 1]}
  BY <1>2
<1>4. k \in 1 .. Len(v7)
  <2>1. v7 \in Seq(Send!Packets)
    BY DEF Send!SendInv, Send!TypeOK
  <2> QED BY <2>1
<1>5. v7[k].frame \in 1 .. v2 /\ v7[k].frame \in Nat /\ v2 \in Nat
  BY <1>4, Taken, Zenon DEF Send!SendInv, Send!TypeOK
<1>6. i - 1 \in Nat
  <2>1. shape \in Seq(Nat \ {0})
    OBVIOUS
  <2> QED BY <1>3, <2>1
<1>7. Send!TypeOK'
  <2>1. ASSUME NEW q \in v9' PROVE q.frame \in Nat /\ q.idx \in Nat
    <3>1. CASE q \in v9
      BY <3>1 DEF Send!SendInv, Send!TypeOK
    <3>2. CASE q = [frame |-> v7[k].frame, idx |-> i - 1]
      BY <1>5, <1>6, <3>2
    <3> QED BY <1>3, <2>1, <3>1, <3>2
  <2> QED BY <1>1, <2>1, Zenon DEF Send!SendInv, Send!TypeOK
<1>8. Send!Line' = Send!Line
  BY <1>1 DEF Send!Line
<1>9. Send!Lives(v7[k].frame)
  BY <1>3, <1>5 DEF Send!Lives
<1>10. \A q \in v9' : q \in v9 \/ (q.frame \in 1 .. v2 /\ Send!Lives(q.frame))
  BY <1>3, <1>5, <1>9
<1>11. Send!IdsLive'
  BY <1>1, <1>10, IdsStay DEF Send!SendInv
<1> QED BY <1>1, <1>7, <1>8, <1>11, CacheStays, BatchStays, LineStays
        DEF Send!SendInv, Send!RetransmitsAreRight

\* What is made of the segments of a batch is the packets in it.
LEMMA SentIsPending ==
    ASSUME Send!TypeOK, Send!InOrder, Send!BatchHolds
    PROVE  /\ Send!Sent(v5) \in Seq(Send!Packets) /\ Len(Send!Sent(v5)) = v5.count
           /\ Len(v7) = Len(v8) + v5.count /\ v5.count \in Nat /\ Len(v8) \in Nat
           /\ \A i \in 1 .. v5.count : Send!Sent(v5)[i] = v7[Len(v8) + i]
<1>1. PICK m \in Nat, n \in Nat, c \in Nat, s \in Nat :
        m = Len(v8) /\ n = Len(v7) /\ c = v5.count /\ s = v5.size
  BY DEF Send!TypeOK
<1>2. n = m + c
  BY <1>1 DEF Send!BatchHolds
<1>3. CASE c = 0
  BY <1>1, <1>2, <1>3 DEF Send!Sent
<1>4. CASE c # 0
  <2>1. /\ s > 0 /\ v7[n].len <= s /\ Len(v5.bytes) = (c - 1) * s + v7[n].len
        /\ \A i \in m + 1 .. n - 1 : v7[i].len = s
        /\ \A i \in 1 .. c : Send!Whole(v7[m + i], (i - 1) * s)
    BY <1>1, <1>4 DEF Send!BatchHolds
  <2>2. v7[n].len \in Nat \ {0} /\ n \in 1 .. Len(v7)
    BY <1>1, <1>2, <1>4, Taken
  <2>3. PICK l \in 1 .. s : l = v7[n].len
    BY <2>1, <2>2
  <2>4. PICK b \in Seq(Send!Packets \X Nat) : b = v5.bytes
    BY DEF Send!TypeOK
  <2>5. PICK w \in Nat : w = (c - 1) * s
    <3>1. (c - 1) * s \in Nat
      BY <1>4
    <3> QED BY <3>1
  <2>6. Len(b) = w + l /\ c * s = w + s
    BY <1>4, <2>1, <2>3, <2>4, <2>5
  <2>7. (Len(b) + s - 1) \div s = c
    <3>1. PICK t \in Int : t = w + l + s - 1
      OBVIOUS
    <3>2. PICK e \in 0 .. s - 1 : e = l - 1
      OBVIOUS
    <3>3. t = s * c + e /\ c \in Int /\ s \in Nat \ {0}
      BY <2>1, <2>6, <3>1, <3>2
    <3>4. t \div s = c
      BY <2>1, <3>1, <3>2, <3>3, OneQuotient, Zenon
    <3> QED BY <2>6, <3>1, <3>4
  <2>8. DOMAIN Send!Segments(v5) = 1 .. c
    BY <1>1, <2>4, <2>7 DEF Send!Segments
  <2>9. ASSUME NEW i \in 1 .. c
        PROVE  Send!Received(Send!Segments(v5)[i]) = v7[m + i]
    <3>1. PICK p \in Send!Packets : p = v7[m + i]
      BY <1>1, <1>2, <2>9, Taken
    <3>2. PICK z \in Nat : z = (i - 1) * s
      <4>1. (i - 1) * s \in Nat
        BY <2>9
      <4> QED BY <4>1
    <3>3. PICK d : d = Send!Segments(v5)[i]
      OBVIOUS
    <3>4. d = SubSeq(b, z + 1, Send!Ends(i, v5))
      BY <1>1, <2>4, <2>7, <2>9, <3>2, <3>3, Zenon DEF Send!Segments
    <3>5. i * s = z + s
      BY <2>9, <3>2
    <3>6. Send!Ends(i, v5) = z + p.len /\ p.len \in Nat \ {0} /\ z + p.len <= Len(b)
      <4>1. CASE i = c
        <5>1. p.len = l /\ z = w /\ m + i = n
          BY <1>2, <2>3, <2>5, <3>1, <3>2, <4>1
        <5>2. ~(w + s < Len(b)) \/ w + s = Len(b)
          BY <2>6
        <5> QED BY <1>1, <2>4, <2>6, <3>5, <5>1, <5>2 DEF Send!Ends
      <4>2. CASE i # c
        <5>1. m + i \in m + 1 .. n - 1
          BY <1>2, <2>9, <4>2
        <5>2. p.len = s
          BY <2>1, <3>1, <5>1, Zenon
        <5>3. i * s <= w
          <6>1. PICK k \in Nat : k = c - 1 - i
            BY <2>9, <4>2
          <6>2. k * s >= 0 /\ (i + k) * s = i * s + k * s /\ i + k = c - 1
            BY <2>9, <6>1
          <6>3. i * s \in Nat /\ k * s \in Nat
            BY <2>9
          <6> QED BY <2>5, <6>2, <6>3
        <5>4. i * s < Len(b)
          BY <2>6, <3>5, <5>3
        <5>5. Send!Ends(i, v5) = z + s
          BY <1>1, <2>4, <3>5, <5>4 DEF Send!Ends
        <5>6. z + s <= Len(b)
          BY <2>6, <3>5, <5>4
        <5> QED BY <2>1, <5>2, <5>5, <5>6
      <4> QED BY <4>1, <4>2
    <3>7. PICK a \in Nat \ {0} : a = p.len
      BY <3>6
    <3>8. \A k \in 1 .. a : b[z + k] = <<p, k>>
      <4>1. Send!Whole(p, z)
        BY <2>1, <2>9, <3>1, <3>2
      <4> QED BY <2>4, <3>7, <4>1 DEF Send!Whole
    <3>9. d = SubSeq(b, z + 1, z + a)
      BY <3>4, <3>6, <3>7
    <3>10. d \in Seq(Send!Packets \X Nat) /\ Len(d) = a /\ \A k \in 1 .. a : d[k] = b[z + k]
      <4>1. PICK h \in Nat, e \in Nat : h = z + 1 /\ e = z + a
        OBVIOUS
      <4>2. d = SubSeq(b, h, e)
        BY <3>9, <4>1
      <4>5. h \in 1 .. Len(b) /\ e \in h .. Len(b) /\ 1 + e - h = a
        <5>1. Len(b) \in Nat /\ z + a <= Len(b)
          BY <3>6, <3>7
        <5> QED BY <4>1, <5>1
      <4>3. d \in Seq(Send!Packets \X Nat) /\ Len(d) = 1 + e - h
            /\ \A k \in 1 .. 1 + e - h : d[k] = b[h + k - 1]
        BY <4>2, <4>5
      <4>4. \A k \in 1 .. a : h + k - 1 = z + k
        BY <4>1
      <4> QED BY <4>3, <4>4, <4>5, Zenon
    <3>11. d = [k \in 1 .. a |-> <<p, k>>]
      <4>1. DOMAIN d = 1 .. a /\ d = [k \in 1 .. a |-> d[k]]
        BY <3>10
      <4>2. \A k \in 1 .. a : d[k] = <<p, k>>
        BY <3>8, <3>10, Zenon
      <4> QED BY <4>1, <4>2, Zenon
    <3>12. d[1][1] = p
      BY <3>7, <3>11
    <3> QED BY <3>1, <3>3, <3>7, <3>11, <3>12 DEF Send!Received, Send!BytesOf
  <2>10. Send!Sent(v5) = [i \in 1 .. c |-> Send!Received(Send!Segments(v5)[i])]
    BY <1>1, <1>4, <2>8 DEF Send!Sent
  <2>11. \A i \in 1 .. c : v7[m + i] \in Send!Packets
    BY <1>1, <1>2, Taken
  <2>12. PICK x : x = Send!Sent(v5)
    OBVIOUS
  <2>13. x = [i \in 1 .. c |-> Send!Received(Send!Segments(v5)[i])]
    BY <2>10, <2>12
  <2>14. \A i \in 1 .. c : x[i] = v7[m + i]
    BY <2>9, <2>13
  <2>15. x \in Seq(Send!Packets) /\ Len(x) = c
    <3>1. \A i \in 1 .. c : x[i] \in Send!Packets
      BY <2>11, <2>14
    <3> QED BY <2>13, <3>1
  <2> QED BY <1>1, <1>2, <2>12, <2>14, <2>15
<1> QED BY <1>3, <1>4

\* So the stream, with what the batch holds, is what was taken.
LEMMA WholeStream ==
    ASSUME Send!TypeOK, Send!InOrder, Send!BatchHolds
    PROVE  Send!StreamIsWhole
<1>1. PICK s : s = Send!Sent(v5)
  OBVIOUS
<1>2. /\ s \in Seq(Send!Packets) /\ Len(v7) = Len(v8) + Len(s)
      /\ \A i \in 1 .. Len(s) : s[i] = v7[Len(v8) + i]
  BY <1>1, SentIsPending
<1>3. v8 \in Seq(Send!Packets) /\ \A i \in 1 .. Len(v8) : v8[i] \in {v7[i], Send!Unsent}
  BY DEF Send!TypeOK, Send!BatchHolds
<1>4. DOMAIN s = 1 .. Len(s) /\ DOMAIN v8 = 1 .. Len(v8)
  BY <1>2, <1>3
<1> QED BY <1>1, <1>2, <1>3, <1>4 DEF Send!StreamIsWhole

\* And so it stays when the batch is flushed, however much of it leaves.
LEMMA AllFlushed ==
    ASSUME Send!TypeOK, Send!InOrder, Send!BatchHolds,
           NEW k, v8' = v8 \o Send!Leaving(v5, k)
    PROVE  /\ v8' \in Seq(Send!Packets) /\ Len(v8') = Len(v7) /\ Len(v7) \in Nat
           /\ \A i \in 1 .. Len(v7) : v8'[i] \in {v7[i], Send!Unsent}
<1>1. PICK s : s = Send!Sent(v5)
  OBVIOUS
<1>2. PICK m \in Nat, c \in Nat : m = Len(v8) /\ c = Len(s)
  BY <1>1, SentIsPending
<1>3. /\ s \in Seq(Send!Packets) /\ Len(v7) = m + c
      /\ \A i \in 1 .. c : s[i] = v7[m + i]
  BY <1>1, <1>2, SentIsPending
<1>4. v8 \in Seq(Send!Packets) /\ \A i \in 1 .. m : v8[i] \in {v7[i], Send!Unsent}
  BY <1>2 DEF Send!TypeOK, Send!BatchHolds
<1>5. Send!Unsent \in Send!Packets
  BY DEF Send!Unsent, Send!Packet, Send!Packets
<1>6. PICK x : x = Send!Leaving(v5, k)
  OBVIOUS
<1>7. x = [n \in 1 .. c |-> IF n <= k THEN s[n] ELSE Send!Unsent]
  BY <1>1, <1>2, <1>3, <1>6 DEF Send!Leaving
<1>8. \A n \in 1 .. c : x[n] \in {s[n], Send!Unsent} /\ x[n] \in Send!Packets
  BY <1>2, <1>3, <1>5, <1>7
<1>9. x \in Seq(Send!Packets) /\ Len(x) = c
  BY <1>7, <1>8
<1>10. PICK y : y = v8 \o x
  BY Zenon
<1>11. /\ y \in Seq(Send!Packets) /\ Len(y) = m + c
       /\ \A i \in 1 .. m : y[i] = v8[i]
       /\ \A n \in 1 .. c : y[m + n] = x[n]
  <2>1. y \in Seq(Send!Packets) /\ Len(y) = m + c
    <3>1. ASSUME NEW S, NEW a \in Seq(S), NEW b \in Seq(S)
          PROVE  a \o b \in Seq(S) /\ Len(a \o b) = Len(a) + Len(b)
      OBVIOUS
    <3>2. v8 \o x \in Seq(Send!Packets) /\ Len(v8 \o x) = Len(v8) + Len(x)
      BY <1>4, <1>9, <3>1, Zenon
    <3> QED BY <1>2, <1>9, <1>10, <3>2
  <2>2. \A i \in 1 .. m : y[i] = v8[i]
    BY <1>2, <1>4, <1>9, <1>10
  <2>3. \A n \in 1 .. c : y[m + n] = x[n]
    BY <1>2, <1>4, <1>9, <1>10
  <2> QED BY <2>1, <2>2, <2>3, Zenon
<1>12. ASSUME NEW i \in 1 .. m + c PROVE y[i] \in {v7[i], Send!Unsent}
  <2>1. CASE i <= m
    BY <1>4, <1>11, <2>1
  <2>2. CASE i > m
    <3>1. PICK n \in 1 .. c : i = m + n
      <4>1. i - m \in 1 .. c /\ i = m + (i - m)
        BY <2>2
      <4> QED BY <4>1
    <3>2. y[i] \in {s[n], Send!Unsent}
      BY <1>8, <1>11, <3>1
    <3> QED BY <1>3, <3>1, <3>2
  <2> QED BY <2>1, <2>2
<1> QED BY <1>3, <1>6, <1>10, <1>11, <1>12

\* What Take does.
LEMMA TakeIs ==
    ASSUME Send!SendInv, Send!Take
    PROVE  \E p \in Send!Packets :
             /\ v3 # <<>> /\ p = v3[1] /\ v3' = Tail(v3) /\ v7' = Append(v7, p)
             /\ v4' = IF v12 = "drains" THEN Send!Stored(v4, p) ELSE v4
             /\ v12' = v12 /\ v12 \in {"drains", "stops"}
             /\ \/ Send!Fits(v5, p) /\ v5' = Send!Added(v5, p) /\ v8' = v8
                \/ /\ v5' = Send!Added(Send!NewBatch, p)
                   /\ \E k : v8' = v8 \o Send!Leaving(v5, k)
             /\ UNCHANGED <<v1, v2, v9, v10, v11, v13>>
             /\ p.frame \in 1 .. v2 /\ Send!Lives(p.frame) /\ v2 \in Nat
             /\ p.len \in Nat \ {0} /\ p.idx \in Nat /\ p.frame \in Nat
             /\ \A k \in 1 .. Len(v7) : Send!Before(v7[k], p)
             /\ Send!Line' = Send!Line
<1>1. v3 \in Seq(Send!Packets) /\ v3 # <<>> /\ v7 \in Seq(Send!Packets) /\ v2 \in Nat
  BY DEF Send!SendInv, Send!TypeOK, Send!Take
<1>2. PICK p \in Send!Packets : p = v3[1]
  BY <1>1
<1>3. Head(v3) = p
  BY <1>1, <1>2
<1>4. /\ v3' = Tail(v3) /\ v7' = Append(v7, p)
      /\ v4' = IF v12 = "drains" THEN Send!Stored(v4, p) ELSE v4
      /\ v12' = v12 /\ v12 \in {"drains", "stops"}
      /\ \/ Send!Fits(v5, p) /\ v5' = Send!Added(v5, p) /\ v8' = v8
         \/ /\ v5' = Send!Added(Send!NewBatch, p)
            /\ \E k : v8' = v8 \o Send!Leaving(v5, k)
      /\ UNCHANGED <<v1, v2, v9, v10, v11, v13>>
  BY <1>3, Zenon DEF Send!Take, Send!Flush
<1>5. /\ Len(v7) \in Nat /\ Len(v3) \in Nat \ {0} /\ Len(Send!Line) = Len(v7) + Len(v3)
      /\ Send!Line[Len(v7) + 1] = p
      /\ \A k \in 1 .. Len(v7) : Send!Line[k] = v7[k]
  BY <1>1, <1>2, LineHas DEF Send!SendInv
<1>6. PICK n \in 1 .. Len(Send!Line) : n = Len(v7) + 1
  BY <1>5
<1>7. p.frame \in 1 .. v2 /\ p.len > 0
  BY <1>5, <1>6 DEF Send!SendInv, Send!InOrder
<1>8. ASSUME NEW k \in 1 .. Len(v7) PROVE Send!Before(v7[k], p)
  <2>1. k \in 1 .. Len(Send!Line) /\ k < n /\ Send!Line[k] = v7[k]
    BY <1>5, <1>6, <1>8
  <2>2. Send!Before(Send!Line[k], Send!Line[n])
    BY <2>1 DEF Send!SendInv, Send!InOrder
  <2> QED BY <1>5, <1>6, <2>1, <2>2
<1>9. Send!Lives(p.frame)
  <2>1. 1 \in 1 .. Len(v3)
    BY <1>5
  <2> QED BY <1>2, <2>1 DEF Send!SendInv, Send!IdsLive
<1>10. Send!Line' = Send!Line
  <2>1. Append(v7, p) \o Tail(v3) = v7 \o v3
    BY <1>1, <1>2
  <2> QED BY <1>4, <2>1, Zenon DEF Send!Line
<1>11. p.len \in Nat \ {0} /\ p.idx \in Nat /\ p.frame \in Nat
  BY <1>2, <1>7 DEF Send!Packets
<1> QED BY <1>1, <1>2, <1>4, <1>7, <1>8, <1>9, <1>10, <1>11, Zenon

\* Where the packet goes.
LEMMA StoredIs ==
    ASSUME Send!TypeOK, Send!SlotsHold, NEW p \in Send!Packets, v4' = Send!Stored(v4, p)
    PROVE  /\ v4.write \in 0 .. CacheSlots - 1 /\ v4.write = Len(v7) % CacheSlots
           /\ v4'.slots \in [0 .. CacheSlots - 1 -> Send!Packets]
           /\ v4'.frames \in [0 .. FrameTable - 1 ->
                                [valid : BOOLEAN, id : Nat, first : Nat, count : Nat]]
           /\ v4'.write = (Len(v7) + 1) % CacheSlots /\ v4'.write \in Nat
           /\ v4' \in [slots  : [0 .. CacheSlots - 1 -> Send!Packets], write : Nat,
                       frames : [0 .. FrameTable - 1 ->
                                   [valid : BOOLEAN, id : Nat, first : Nat, count : Nat]]]
           /\ v4'.slots[v4.write] = p
           /\ \A i \in 0 .. CacheSlots - 1 : i # v4.write => v4'.slots[i] = v4.slots[i]
           /\ \A i \in 0 .. FrameTable - 1 :
                i # Send!Place(p.frame) => v4'.frames[i] = v4.frames[i]
           /\ LET e == v4'.frames[Send!Place(p.frame)]
                  d == Send!Entry(v4, p.frame)
              IN  e.valid = d.valid /\ e.id = d.id /\ e.first = d.first
                  /\ e.count = Send!CountWith(d.count, p.idx)
           /\ Send!Entry(v4, p.frame).valid
           /\ Send!Entry(v4, p.frame).id = Send!Id(p.frame)
           /\ Send!Entry(v4, p.frame).count \in Nat
<1> USE SendNumbers
<1>1. PICK n \in Nat : n = Len(v7)
  BY DEF Send!TypeOK
<1>2. v4.write = n % CacheSlots /\ n % CacheSlots \in 0 .. CacheSlots - 1
  <2>1. n \in Int
    OBVIOUS
  <2> QED BY <1>1, <2>1, QuotientAndRest, Zenon DEF Send!SlotsHold
<1>3. PICK w \in 0 .. CacheSlots - 1 : w = v4.write
  BY <1>2
<1>4. (w + 1) % CacheSlots = (n + 1) % CacheSlots /\ (w + 1) % CacheSlots \in 0 .. CacheSlots - 1
  <2>1. n \in Int /\ 1 \in Int /\ w + 1 \in Int
    OBVIOUS
  <2>2. ((n % CacheSlots) + 1) % CacheSlots = (n + 1) % CacheSlots
    BY <2>1, PlusOnCircle, Zenon
  <2>3. (w + 1) % CacheSlots \in 0 .. CacheSlots - 1
    BY <2>1, QuotientAndRest, Zenon
  <2> QED BY <1>2, <1>3, <2>2, <2>3
<1>5. p.frame \in Nat /\ p.idx \in Nat
  BY DEF Send!Packets
<1>6. PICK f \in Nat, x \in Nat : f = p.frame /\ x = p.idx
  BY <1>5
<1>7. PICK l \in 0 .. FrameTable - 1 : l = Send!Place(f)
  BY SlotIsOne, Zenon
<1>8. v4.slots \in [0 .. CacheSlots - 1 -> Send!Packets]
      /\ v4.frames \in [0 .. FrameTable - 1 ->
                          [valid : BOOLEAN, id : Nat, first : Nat, count : Nat]]
  BY Zenon DEF Send!TypeOK
<1>9. PICK d : d = Send!Entry(v4, f)
  OBVIOUS
<1>10. d \in [valid : BOOLEAN, id : Nat, first : Nat, count : Nat]
       /\ d.valid /\ d.id = Send!Id(f)
  <2>1. Send!Id(f) \in Nat
    <3>1. f \in Int
      OBVIOUS
    <3> QED BY <3>1, QuotientAndRest DEF Send!Id
  <2>2. d = IF v4.frames[l].valid /\ v4.frames[l].id = Send!Id(f) THEN v4.frames[l]
            ELSE [valid |-> TRUE, id |-> Send!Id(f), first |-> w, count |-> 0]
    BY <1>3, <1>7, <1>9 DEF Send!Entry
  <2>3. v4.frames[l] \in [valid : BOOLEAN, id : Nat, first : Nat, count : Nat]
    BY <1>8
  <2>4. CASE v4.frames[l].valid /\ v4.frames[l].id = Send!Id(f)
    BY <2>2, <2>3, <2>4
  <2>5. CASE ~(v4.frames[l].valid /\ v4.frames[l].id = Send!Id(f))
    BY <2>1, <2>2, <2>5
  <2> QED BY <2>4, <2>5
<1>11. PICK c \in Nat : c = Send!CountWith(d.count, x)
  BY <1>10 DEF Send!CountWith
<1>12. PICK e : e = [d EXCEPT !.count = c]
  BY Zenon
<1>13. e \in [valid : BOOLEAN, id : Nat, first : Nat, count : Nat]
       /\ e.valid = d.valid /\ e.id = d.id /\ e.first = d.first /\ e.count = c
  BY <1>10, <1>12, Zenon
<1>14. /\ v4'.slots = [v4.slots EXCEPT ![w] = p] /\ v4'.write = (w + 1) % CacheSlots
       /\ v4'.frames = [v4.frames EXCEPT ![l] = e]
       /\ v4' = [slots |-> v4'.slots, write |-> v4'.write, frames |-> v4'.frames]
  BY <1>3, <1>6, <1>7, <1>9, <1>11, <1>12 DEF Send!Stored
<1>15. v4'.slots \in [0 .. CacheSlots - 1 -> Send!Packets] /\ v4'.slots[w] = p
       /\ \A i \in 0 .. CacheSlots - 1 : i # w => v4'.slots[i] = v4.slots[i]
  BY <1>8, <1>14, Zenon
<1>16. /\ v4'.frames \in [0 .. FrameTable - 1 ->
                            [valid : BOOLEAN, id : Nat, first : Nat, count : Nat]]
       /\ v4'.frames[l] = e
       /\ \A i \in 0 .. FrameTable - 1 : i # l => v4'.frames[i] = v4.frames[i]
  <2>1. PICK R : R = [valid : BOOLEAN, id : Nat, first : Nat, count : Nat]
    BY Zenon
  <2>2. PICK g : g = v4.frames
    OBVIOUS
  <2>3. PICK h : h = v4'.frames
    OBVIOUS
  <2>4. g \in [0 .. FrameTable - 1 -> R] /\ e \in R /\ h = [g EXCEPT ![l] = e]
    BY <1>8, <1>13, <1>14, <2>1, <2>2, <2>3, Zenon
  <2>5. h \in [0 .. FrameTable - 1 -> R] /\ h[l] = e
        /\ \A i \in 0 .. FrameTable - 1 : i # l => h[i] = g[i]
    BY <2>4
  <2> QED BY <2>1, <2>2, <2>3, <2>5, Zenon
<1>17. v4'.write \in Nat
  BY <1>4, <1>14
<1>18. v4' \in [slots  : [0 .. CacheSlots - 1 -> Send!Packets], write : Nat,
                frames : [0 .. FrameTable - 1 ->
                            [valid : BOOLEAN, id : Nat, first : Nat, count : Nat]]]
  BY <1>14, <1>15, <1>16, <1>17, Zenon
<1> QED BY <1>1, <1>2, <1>3, <1>4, <1>6, <1>7, <1>9, <1>10, <1>11, <1>13, <1>14, <1>15, <1>16,
           <1>17, <1>18, Zenon

\* What it leaves in the frame table: the frame's own entry, and the others as they were.
LEMMA EntryIsStored ==
    ASSUME Send!TypeOK, Send!SlotsHold, NEW p \in Send!Packets, v4' = Send!Stored(v4, p),
           NEW l, l = Send!Place(p.frame)
    PROVE  /\ v4'.frames[l].id = Send!Id(p.frame)
           /\ \A i \in 0 .. FrameTable - 1 : i # l => v4'.frames[i] = v4.frames[i]
<1>1. PICK d : d = Send!Entry(v4, p.frame)
  OBVIOUS
<1>2. PICK e : e = v4'.frames[Send!Place(p.frame)]
  OBVIOUS
<1>3. e.id = d.id /\ d.id = Send!Id(p.frame)
  BY <1>1, <1>2, StoredIs, Zenon
<1>4. \A i \in 0 .. FrameTable - 1 : i # Send!Place(p.frame) => v4'.frames[i] = v4.frames[i]
  BY StoredIs, Zenon
<1> QED BY <1>2, <1>3, <1>4, Zenon

\* What it leaves in the slots: the packet where the next is written, and the others as
\* they were.
LEMMA SlotIsStored ==
    ASSUME Send!TypeOK, Send!SlotsHold, NEW p \in Send!Packets, v4' = Send!Stored(v4, p)
    PROVE  \E w \in 0 .. CacheSlots - 1 :
             /\ w = v4.write /\ w = Len(v7) % CacheSlots
             /\ v4'.write = (Len(v7) + 1) % CacheSlots /\ v4'.slots[w] = p
             /\ \A i \in 0 .. CacheSlots - 1 : i # w => v4'.slots[i] = v4.slots[i]
<1>1. PICK w \in 0 .. CacheSlots - 1 : w = v4.write
  BY StoredIs, Zenon
<1>2. w = Len(v7) % CacheSlots /\ v4'.write = (Len(v7) + 1) % CacheSlots /\ v4'.slots[w] = p
  BY <1>1, StoredIs, Zenon
<1>3. \A i \in 0 .. CacheSlots - 1 : i # w => v4'.slots[i] = v4.slots[i]
  BY <1>1, StoredIs, Zenon
<1> QED BY <1>1, <1>2, <1>3, Zenon

\* The taken packets with one more.
LEMMA OneMoreTaken ==
    ASSUME Send!TypeOK, NEW p \in Send!Packets, v7' = Append(v7, p)
    PROVE  \E n \in Nat : /\ n = Len(v7) /\ Len(v7') = n + 1 /\ v7'[n + 1] = p
                          /\ v7' \in Seq(Send!Packets)
                          /\ \A k \in 1 .. n : v7'[k] = v7[k]
<1>1. v7 \in Seq(Send!Packets)
  BY DEF Send!TypeOK
<1> QED BY <1>1

LEMMA SlotsTaken ==
    ASSUME Send!TypeOK, Send!SlotsHold, NEW p \in Send!Packets, v4' = Send!Stored(v4, p),
           v7' = Append(v7, p)
    PROVE  Send!SlotsHold'
<1> USE SendNumbers
<1>1. PICK n \in Nat : /\ n = Len(v7) /\ Len(v7') = n + 1 /\ v7'[n + 1] = p
                       /\ \A k \in 1 .. n : v7'[k] = v7[k]
  BY OneMoreTaken
<1>2. PICK w \in 0 .. CacheSlots - 1 :
        /\ w = v4.write /\ w = n % CacheSlots /\ v4'.write = (n + 1) % CacheSlots
        /\ v4'.slots[w] = p
        /\ \A i \in 0 .. CacheSlots - 1 : i # w => v4'.slots[i] = v4.slots[i]
  <2>1. PICK w \in 0 .. CacheSlots - 1 :
          /\ w = v4.write /\ w = Len(v7) % CacheSlots
          /\ v4'.write = (Len(v7) + 1) % CacheSlots /\ v4'.slots[w] = p
          /\ \A i \in 0 .. CacheSlots - 1 : i # w => v4'.slots[i] = v4.slots[i]
    BY SlotIsStored, Zenon
  <2>2. w = n % CacheSlots /\ v4'.write = (n + 1) % CacheSlots
    BY <1>1, <2>1, Zenon
  <2> QED BY <2>1, <2>2, Zenon
<1>3. ASSUME NEW k \in 1 .. n, n + 1 < k + CacheSlots, (k - 1) % CacheSlots = w PROVE FALSE
  <2>1. PICK a \in Int : a = k - 1
    OBVIOUS
  <2>2. n \in Int /\ a - n < CacheSlots /\ n - a < CacheSlots
    BY <1>3, <2>1
  <2>3. a % CacheSlots = n % CacheSlots
    BY <1>2, <1>3, <2>1
  <2>4. a = n
    BY <2>2, <2>3, ApartOnCircle, Zenon
  <2> QED BY <2>1, <2>4
<1>4. ASSUME NEW k \in 1 .. n + 1, n + 1 < k + CacheSlots
      PROVE  v4'.slots[(k - 1) % CacheSlots] = v7'[k]
  <2>1. CASE k = n + 1
    <3>1. k - 1 = n
      BY <2>1
    <3> QED BY <1>1, <1>2, <2>1, <3>1
  <2>2. CASE k # n + 1
    <3>1. k \in 1 .. n /\ n < k + CacheSlots
      BY <1>4, <2>2
    <3>2. PICK i \in 0 .. CacheSlots - 1 : i = (k - 1) % CacheSlots
      <4>1. PICK a \in Int : a = k - 1
        OBVIOUS
      <4>2. a % CacheSlots \in 0 .. CacheSlots - 1
        BY QuotientAndRest, Zenon
      <4> QED BY <4>1, <4>2
    <3>3. i # w
      BY <1>3, <1>4, <3>1, <3>2
    <3>4. v4.slots[i] = v7[k]
      BY <1>1, <3>1, <3>2, Zenon DEF Send!SlotsHold
    <3> QED BY <1>1, <1>2, <3>1, <3>2, <3>3, <3>4
  <2> QED BY <2>1, <2>2, Zenon
<1>5. ASSUME NEW i \in 0 .. CacheSlots - 1, v4'.slots[i] # Send!NoPacket
      PROVE  \E k \in 1 .. n + 1 : n + 1 < k + CacheSlots /\ i = (k - 1) % CacheSlots
  <2>1. CASE i = w
    <3>1. n + 1 \in 1 .. n + 1 /\ n + 1 < (n + 1) + CacheSlots /\ (n + 1) - 1 = n
      OBVIOUS
    <3> QED BY <1>2, <2>1, <3>1
  <2>2. CASE i # w
    <3>1. v4.slots[i] # Send!NoPacket
      BY <1>2, <1>5, <2>2
    <3>2. PICK k \in 1 .. n : n < k + CacheSlots /\ i = (k - 1) % CacheSlots
      BY <1>1, <3>1 DEF Send!SlotsHold
    <3>3. ASSUME n + 1 = k + CacheSlots PROVE FALSE
      <4>1. PICK a \in Int, q \in Int : a = k - 1 /\ a = CacheSlots * q + i
        <5>1. PICK a \in Int : a = k - 1
          OBVIOUS
        <5>2. PICK q \in Int : a = CacheSlots * q + (a % CacheSlots)
          BY QuotientAndRest, Zenon
        <5> QED BY <3>2, <5>1, <5>2, Zenon
      <4>2. PICK t \in Int : t = q + 1
        OBVIOUS
      <4>3. CacheSlots * t = CacheSlots * q + CacheSlots
        BY <4>2
      <4>4. n = CacheSlots * t + i /\ n \in Int
        BY <3>3, <4>1, <4>3
      <4>5. n % CacheSlots = i
        BY <4>2, <4>4, OneRest, Zenon
      <4> QED BY <1>2, <2>2, <4>5
    <3>4. k \in 1 .. n + 1 /\ n + 1 < k + CacheSlots
      BY <3>2, <3>3
    <3> QED BY <3>2, <3>4
  <2> QED BY <2>1, <2>2
<1>6. v4'.write = Len(v7') % CacheSlots
  BY <1>1, <1>2
<1>7. \A k \in 1 .. Len(v7') : Len(v7') < k + CacheSlots => v4'.slots[(k - 1) % CacheSlots] = v7'[k]
  BY <1>1, <1>4
<1>8. \A i \in 0 .. CacheSlots - 1 : v4'.slots[i] = Send!NoPacket \/
        \E k \in 1 .. Len(v7') : Len(v7') < k + CacheSlots /\ i = (k - 1) % CacheSlots
  BY <1>1, <1>5
<1>9. Send!NoPacket' = Send!NoPacket
  BY DEF Send!NoPacket, Send!Packet
<1> QED BY <1>6, <1>7, <1>8, <1>9, Zenon DEF Send!SlotsHold

LEMMA IdsTaken ==
    ASSUME Send!SendInv, Send!SlotsHold, NEW p \in Send!Packets, v4' = Send!Stored(v4, p),
           v3 # <<>>, v3' = Tail(v3), v7' = Append(v7, p), v2' = v2, v9' = v9,
           Send!Lives(p.frame), p.frame \in Nat
    PROVE  Send!IdsLive'
<1> USE SendNumbers
<1>1. PICK n \in Nat : /\ n = Len(v7) /\ Len(v7') = n + 1 /\ v7'[n + 1] = p
                       /\ \A k \in 1 .. n : v7'[k] = v7[k]
  BY OneMoreTaken DEF Send!SendInv
<1>2. \A f : Send!Lives(f)' <=> Send!Lives(f)
  BY DEF Send!Lives
<1>3. ASSUME NEW k \in 1 .. Len(v3') PROVE Send!Lives(v3'[k].frame)
  <2>1. v3 \in Seq(Send!Packets)
    BY DEF Send!SendInv, Send!TypeOK
  <2>2. k + 1 \in 1 .. Len(v3) /\ v3'[k] = v3[k + 1]
    BY <1>3, <2>1
  <2>3. Send!Lives(v3[k + 1].frame)
    BY <2>2 DEF Send!SendInv, Send!IdsLive
  <2> QED BY <2>2, <2>3
<1>4. PICK w \in 0 .. CacheSlots - 1 :
        /\ w = v4.write /\ v4'.slots[w] = p
        /\ \A i \in 0 .. CacheSlots - 1 : i # w => v4'.slots[i] = v4.slots[i]
  <2>1. Send!TypeOK
    BY DEF Send!SendInv
  <2>2. PICK w \in 0 .. CacheSlots - 1 :
          /\ w = v4.write /\ w = Len(v7) % CacheSlots
          /\ v4'.write = (Len(v7) + 1) % CacheSlots /\ v4'.slots[w] = p
          /\ \A i \in 0 .. CacheSlots - 1 : i # w => v4'.slots[i] = v4.slots[i]
    BY <2>1, SlotIsStored, Zenon
  <2> QED BY <2>2, Zenon
<1>5. ASSUME NEW i \in 0 .. CacheSlots - 1, v4'.slots[i] # Send!NoPacket
      PROVE  Send!Lives(v4'.slots[i].frame)
  <2>1. CASE i = w
    BY <1>4, <2>1
  <2>2. CASE i # w
    BY <1>4, <1>5, <2>2 DEF Send!SendInv, Send!IdsLive
  <2> QED BY <2>1, <2>2
<1>6. PICK l \in 0 .. FrameTable - 1 : l = Send!Place(p.frame)
  BY SlotIsOne, Zenon DEF Send!SendInv
<1>7. v4'.frames[l].id = Send!Id(p.frame)
      /\ \A i \in 0 .. FrameTable - 1 : i # l => v4'.frames[i] = v4.frames[i]
  BY <1>6, EntryIsStored, Zenon DEF Send!SendInv
<1>8. ASSUME NEW i \in 0 .. FrameTable - 1, v4'.frames[i].valid
      PROVE  \E k \in 1 .. n + 1 :
                Send!Lives(v7'[k].frame) /\ Send!Id(v7'[k].frame) = v4'.frames[i].id
  <2>1. CASE i = l
    <3>1. n + 1 \in 1 .. n + 1
      OBVIOUS
    <3> QED BY <1>1, <1>7, <2>1, <3>1, Zenon
  <2>2. CASE i # l
    <3>1. PICK k \in 1 .. n : Send!Lives(v7[k].frame) /\ Send!Id(v7[k].frame) = v4.frames[i].id
      BY <1>1, <1>7, <1>8, <2>2, Zenon DEF Send!SendInv, Send!IdsLive
    <3>2. k \in 1 .. n + 1 /\ v7'[k] = v7[k]
      BY <1>1
    <3> QED BY <1>7, <2>2, <3>1, <3>2, Zenon
  <2> QED BY <2>1, <2>2, Zenon
<1>9. \A q \in v9 : q.frame \in 1 .. v2 /\ Send!Lives(q.frame)
  BY DEF Send!SendInv, Send!IdsLive
<1>10. \A k \in 1 .. Len(v3') : Send!Lives(v3[k].frame)'
  BY <1>3 DEF Send!Lives
<1>11. \A i \in 0 .. CacheSlots - 1 :
         (v4.slots[i] # Send!NoPacket)' => Send!Lives(v4.slots[i].frame)'
  BY <1>5 DEF Send!Lives, Send!NoPacket, Send!Packet
<1>12. \A q \in v9 : q.frame \in 1 .. v2 /\ Send!Lives(q.frame)'
  BY <1>9 DEF Send!Lives
<1>13. \A i \in 0 .. FrameTable - 1 : v4'.frames[i].valid =>
         \E k \in 1 .. Len(v7') :
            Send!Lives(v7[k].frame)' /\ Send!Id(v7[k].frame)' = v4'.frames[i].id
  BY <1>1, <1>8 DEF Send!Lives, Send!Id
<1> QED BY <1>10, <1>11, <1>12, <1>13, Zenon DEF Send!IdsLive

\* A packet the cache does not get.
LEMMA IdsUncached ==
    ASSUME Send!SendInv, NEW p \in Send!Packets, v4' = v4,
           v3 # <<>>, v3' = Tail(v3), v7' = Append(v7, p), v2' = v2, v9' = v9
    PROVE  Send!IdsLive'
<1>1. PICK n \in Nat : /\ n = Len(v7) /\ Len(v7') = n + 1
                       /\ \A k \in 1 .. n : v7'[k] = v7[k]
  BY OneMoreTaken DEF Send!SendInv
<1>2. ASSUME NEW k \in 1 .. Len(v3') PROVE Send!Lives(v3'[k].frame)
  <2>1. v3 \in Seq(Send!Packets)
    BY DEF Send!SendInv, Send!TypeOK
  <2>2. k + 1 \in 1 .. Len(v3) /\ v3'[k] = v3[k + 1]
    BY <1>2, <2>1
  <2>3. Send!Lives(v3[k + 1].frame)
    BY <2>2 DEF Send!SendInv, Send!IdsLive
  <2> QED BY <2>2, <2>3
<1>3. ASSUME NEW i \in 0 .. FrameTable - 1, v4.frames[i].valid
      PROVE  \E k \in 1 .. n + 1 :
                Send!Lives(v7'[k].frame) /\ Send!Id(v7'[k].frame) = v4.frames[i].id
  <2>1. PICK k \in 1 .. n : Send!Lives(v7[k].frame) /\ Send!Id(v7[k].frame) = v4.frames[i].id
    BY <1>1, <1>3, Zenon DEF Send!SendInv, Send!IdsLive
  <2>2. k \in 1 .. n + 1 /\ v7'[k] = v7[k]
    BY <1>1
  <2> QED BY <2>1, <2>2, Zenon
<1>4. \A k \in 1 .. Len(v3') : Send!Lives(v3[k].frame)'
  BY <1>2 DEF Send!Lives
<1>5. \A i \in 0 .. CacheSlots - 1 :
         (v4.slots[i] # Send!NoPacket)' => Send!Lives(v4.slots[i].frame)'
  BY DEF Send!SendInv, Send!IdsLive, Send!Lives, Send!NoPacket, Send!Packet
<1>6. \A q \in v9 : q.frame \in 1 .. v2 /\ Send!Lives(q.frame)'
  BY DEF Send!SendInv, Send!IdsLive, Send!Lives
<1>7. \A i \in 0 .. FrameTable - 1 : v4'.frames[i].valid =>
         \E k \in 1 .. Len(v7') :
            Send!Lives(v7[k].frame)' /\ Send!Id(v7[k].frame)' = v4'.frames[i].id
  BY <1>1, <1>3 DEF Send!Lives, Send!Id
<1> QED BY <1>4, <1>5, <1>6, <1>7, Zenon DEF Send!IdsLive

LEMMA EntriesTaken ==
    ASSUME Send!SendInv, Send!SlotsHold, Send!EntriesLead, NEW p \in Send!Packets, v4' = Send!Stored(v4, p),
           v7' = Append(v7, p), p.frame \in 1 .. v2, p.frame \in Nat, p.idx \in Nat, v2 \in Nat,
           Send!Lives(p.frame), \A k \in 1 .. Len(v7) : Send!Before(v7[k], p)
    PROVE  Send!EntriesLead'
<1> USE SendNumbers
<1>1. PICK n \in Nat : /\ n = Len(v7) /\ Len(v7') = n + 1 /\ v7'[n + 1] = p
                       /\ \A k \in 1 .. n : v7'[k] = v7[k]
  BY OneMoreTaken DEF Send!SendInv
<1>2. \A k \in 1 .. n : v7[k].frame \in Nat /\ v7[k].frame <= p.frame /\ v7[k].frame \in 1 .. v2
  <2>1. TAKE k \in 1 .. n
  <2>2. v7[k].frame \in Nat /\ v7[k].frame \in 1 .. v2
    BY <1>1, Taken DEF Send!SendInv
  <2>3. Send!Before(v7[k], p)
    BY <1>1
  <2> QED BY <2>2, <2>3 DEF Send!Before
<1>3. PICK f \in Nat : f = p.frame
  OBVIOUS
<1>4. PICK l \in 0 .. FrameTable - 1 : l = Send!Place(f)
  BY SlotIsOne, Zenon DEF Send!SendInv
<1>5. PICK d : d = Send!Entry(v4, f)
  OBVIOUS
<1>6. PICK e : e = v4'.frames[l]
  OBVIOUS
<1>7. /\ e.valid = d.valid /\ d.valid /\ e.id = d.id /\ d.id = Send!Id(f) /\ e.first = d.first
      /\ e.count = Send!CountWith(d.count, p.idx) /\ d.count \in Nat
  BY <1>3, <1>4, <1>5, <1>6, StoredIs, Zenon DEF Send!SendInv
<1>8. p.idx < e.count /\ d.count <= e.count /\ e.count \in Nat
  BY <1>7 DEF Send!CountWith
<1>9. \A i \in 0 .. FrameTable - 1 : i # l => v4'.frames[i] = v4.frames[i]
  BY <1>3, <1>4, EntryIsStored, Zenon DEF Send!SendInv
<1>10. d = IF v4.frames[l].valid /\ v4.frames[l].id = Send!Id(f) THEN v4.frames[l]
           ELSE [valid |-> TRUE, id |-> Send!Id(f), first |-> v4.write, count |-> 0]
  BY <1>4, <1>5 DEF Send!Entry
<1>11. v4.write = n % CacheSlots
  BY <1>1 DEF Send!SendInv, Send!SlotsHold
<1>12. ASSUME NEW m \in 1 .. n, NEW g, Send!FirstOf(m, g) PROVE Send!FirstOf(m, g)'
  <2>1. v7'[m].frame = g
    BY <1>1, <1>12 DEF Send!FirstOf
  <2>2. ASSUME NEW j \in 1 .. m - 1 PROVE v7'[j].frame # g
    <3>1. j \in 1 .. n
      BY <2>2
    <3>2. v7'[j] = v7[j] /\ v7[j].frame # g
      BY <1>1, <1>12, <2>2, <3>1 DEF Send!FirstOf
    <3> QED BY <3>2
  <2> QED BY <2>1, <2>2, Zenon DEF Send!FirstOf
<1>13. Send!IsNewest(f)
  BY <1>1, <1>2, <1>3 DEF Send!IsNewest
<1>14. ASSUME NEW k \in 1 .. n, v7[k].frame = f PROVE Send!Leads(v4.frames[l], k)
  BY <1>1, <1>4, <1>13, <1>14, Zenon DEF Send!SendInv, Send!EntriesLead
<1>15. \E m \in 1 .. n + 1 : Send!FirstOf(m, f)' /\ e.first = (m - 1) % CacheSlots
  <2>1. CASE v4.frames[l].valid /\ v4.frames[l].id = Send!Id(f)
    <3>1. PICK k \in 1 .. n : Send!Lives(v7[k].frame) /\ Send!Id(v7[k].frame) = Send!Id(f)
      BY <1>1, <2>1 DEF Send!SendInv, Send!IdsLive
    <3>2. PICK g \in Nat : g = v7[k].frame
      BY <1>2
    <3>3. g <= v2 /\ f <= v2 /\ v2 < g + FrameIds /\ v2 < f + FrameIds
      BY <1>2, <1>3, <3>1, <3>2 DEF Send!Lives
    <3>4. g = f
      BY <3>1, <3>2, <3>3, OneFrameAnId, Zenon
    <3>5. Send!Leads(v4.frames[l], k)
      BY <1>14, <3>2, <3>4, Zenon
    <3>6. PICK m \in 1 .. k : Send!FirstOf(m, f) /\ v4.frames[l].first = (m - 1) % CacheSlots
      BY <3>2, <3>4, <3>5 DEF Send!Leads
    <3>7. m \in 1 .. n /\ m \in 1 .. n + 1
      BY <3>6
    <3> QED BY <1>7, <1>10, <1>12, <2>1, <3>6, <3>7, Zenon
  <2>2. CASE ~(v4.frames[l].valid /\ v4.frames[l].id = Send!Id(f))
    <3>1. e.first = n % CacheSlots
      BY <1>7, <1>10, <1>11, <2>2
    <3>2. ASSUME NEW j \in 1 .. n PROVE v7[j].frame # f
      BY <1>14, <2>2, Zenon DEF Send!Leads
    <3>3. Send!FirstOf(n + 1, f)'
      <4>1. \A j \in 1 .. (n + 1) - 1 : v7'[j].frame # f
        BY <1>1, <3>2
      <4> QED BY <1>1, <1>3, <4>1 DEF Send!FirstOf
    <3>4. n + 1 \in 1 .. n + 1 /\ (n + 1) - 1 = n
      OBVIOUS
    <3> QED BY <3>1, <3>3, <3>4
  <2> QED BY <2>1, <2>2
<1>16. SUFFICES ASSUME NEW k \in 1 .. n + 1, Send!IsNewest(v7[k].frame)'
                PROVE  Send!Leads(v4.frames[Send!Place(v7[k].frame)], k)'
  BY <1>1 DEF Send!EntriesLead
<1>17. CASE k = n + 1
  <2>1. v7'[k].frame = f /\ v4'.frames[Send!Place(f)] = e
    BY <1>1, <1>3, <1>4, <1>6, <1>17
  <2>2. e.valid /\ e.id = Send!Id(f) /\ v7'[k].idx < e.count
    BY <1>1, <1>7, <1>8, <1>17
  <2>3. \E m \in 1 .. k : Send!FirstOf(m, v7[k].frame)' /\ e.first = (m - 1) % CacheSlots
    BY <1>15, <1>17, <2>1, Zenon DEF Send!FirstOf
  <2> QED BY <2>1, <2>2, <2>3, Zenon DEF Send!Leads, Send!Place, Send!Id
<1>18. CASE k # n + 1
  <2>1. k \in 1 .. n /\ v7'[k] = v7[k]
    BY <1>1, <1>18
  <2>2. PICK g \in Nat : g = v7[k].frame /\ g <= f
    BY <1>2, <1>3, <2>1
  <2>3. \A j \in 1 .. n + 1 : Send!Place(v7'[j].frame) = Send!Place(g) => v7'[j].frame <= g
    BY <1>1, <1>16, <2>1, <2>2, Zenon DEF Send!IsNewest, Send!Place, Send!Id
  <2>4. Send!IsNewest(g)
    <3>1. SUFFICES ASSUME NEW j \in 1 .. n, Send!Place(v7[j].frame) = Send!Place(g)
                   PROVE  v7[j].frame <= g
      BY <1>1 DEF Send!IsNewest
    <3>2. j \in 1 .. n + 1 /\ v7'[j] = v7[j]
      BY <1>1
    <3> QED BY <2>3, <3>1, <3>2, Zenon
  <2>5. PICK r \in 0 .. FrameTable - 1 : r = Send!Place(g)
    BY SlotIsOne, Zenon DEF Send!SendInv
  <2>6. Send!Leads(v4.frames[r], k)
    BY <1>1, <2>1, <2>2, <2>4, <2>5 DEF Send!SendInv, Send!EntriesLead
  <2>7. PICK m \in 1 .. k : Send!FirstOf(m, g) /\ v4.frames[r].first = (m - 1) % CacheSlots
    BY <2>2, <2>6 DEF Send!Leads
  <2>8. v4.frames[r].valid /\ v4.frames[r].id = Send!Id(g) /\ v7[k].idx < v4.frames[r].count
    BY <2>2, <2>6 DEF Send!Leads
  <2>9. v4'.frames[r].valid /\ v4'.frames[r].id = Send!Id(g) /\ v7[k].idx < v4'.frames[r].count
        /\ v4'.frames[r].first = v4.frames[r].first
    <3>1. CASE r # l
      BY <1>9, <2>8, <3>1, Zenon
    <3>2. CASE r = l
      <4>1. f <= g
        <5>1. n + 1 \in 1 .. n + 1 /\ Send!Place(v7'[n + 1].frame) = Send!Place(g)
          BY <1>1, <1>3, <1>4, <2>5, <3>2
        <5>2. v7'[n + 1].frame <= g
          BY <2>3, <5>1, Zenon
        <5> QED BY <1>1, <1>3, <5>2
      <4>2. g = f
        BY <2>2, <4>1
      <4>3. d = v4.frames[l]
        BY <1>10, <2>8, <3>2, <4>2
      <4>4. v7[k].idx \in Nat
        BY <1>1, <2>1, Taken DEF Send!SendInv
      <4>5. v4'.frames[r] = e
        BY <1>6, <3>2
      <4>6. e.valid /\ e.id = Send!Id(g) /\ e.first = v4.frames[r].first
        BY <1>7, <3>2, <4>2, <4>3, Zenon
      <4>7. v7[k].idx < e.count
        <5>1. v7[k].idx < d.count
          BY <2>8, <3>2, <4>3
        <5> QED BY <1>7, <1>8, <4>4, <5>1
      <4> QED BY <4>5, <4>6, <4>7
    <3> QED BY <3>1, <3>2
  <2>10. m \in 1 .. n
    BY <2>1, <2>7
  <2>11. Send!FirstOf(m, g)'
    BY <1>12, <2>7, <2>10
  <2>12. v7'[k].frame = g /\ Send!Place(v7[k].frame)' = r /\ Send!Id(v7[k].frame)' = Send!Id(g)
    BY <2>1, <2>2, <2>5 DEF Send!Place, Send!Id
  <2>13. Send!FirstOf(m, v7[k].frame)'
    BY <2>11, <2>12, Zenon DEF Send!FirstOf
  <2> QED BY <2>1, <2>7, <2>9, <2>12, <2>13 DEF Send!Leads
<1> QED BY <1>16, <1>17, <1>18, Zenon

LEMMA BatchTakenFits ==
    ASSUME Send!TypeOK, Send!InOrder, Send!BatchHolds, NEW p \in Send!Packets,
           v7' = Append(v7, p), v8' = v8, p.len \in Nat \ {0},
           Send!Fits(v5, p), v5' = Send!Added(v5, p)
    PROVE  Send!BatchHolds'
<1>1. PICK n \in Nat : /\ n = Len(v7) /\ Len(v7') = n + 1 /\ v7'[n + 1] = p
                       /\ \A k \in 1 .. n : v7'[k] = v7[k]
  BY OneMoreTaken
<1>2. PICK m \in Nat, c \in Nat, s \in Nat :
        m = Len(v8) /\ c = v5.count /\ s = v5.size
  BY DEF Send!TypeOK
<1>3. n = m + c /\ \A i \in 1 .. m : v8[i] \in {v7[i], Send!Unsent}
  BY <1>1, <1>2 DEF Send!BatchHolds
<1>4. \A i \in 1 .. m : v8'[i] \in {v7'[i], Send!Unsent'}
  <2>1. Send!Unsent' = Send!Unsent
    BY DEF Send!Unsent, Send!Packet
  <2>2. TAKE i \in 1 .. m
  <2>3. i \in 1 .. n /\ v7'[i] = v7[i]
    BY <1>1, <1>3
  <2> QED BY <1>3, <2>1, <2>3
<1>5. PICK a \in Nat \ {0} : a = p.len
  OBVIOUS
<1>6. PICK b \in Seq(Send!Packets \X Nat) : b = v5.bytes
  BY DEF Send!TypeOK
<1>7. PICK x : x = Send!BytesOf(p)
  OBVIOUS
<1>8. x \in Seq(Send!Packets \X Nat) /\ Len(x) = a /\ \A k \in 1 .. a : x[k] = <<p, k>>
  <2>1. x = [k \in 1 .. a |-> <<p, k>>]
    BY <1>5, <1>7 DEF Send!BytesOf
  <2>2. \A k \in 1 .. a : x[k] = <<p, k>> /\ x[k] \in Send!Packets \X Nat
    BY <2>1
  <2> QED BY <2>1, <2>2
<1>9. /\ v5'.bytes = b \o x /\ v5'.count = c + 1 /\ v5'.size = Send!SizeWith(v5, p)
      /\ v5'.closed <=> (v5.closed \/ p.len < Send!SizeWith(v5, p))
  BY <1>2, <1>6, <1>7, Zenon DEF Send!Added
<1>10. PICK y : y = v5'.bytes
  OBVIOUS
<1>11. Len(y) = Len(b) + a /\ \A k \in 1 .. Len(b) : y[k] = b[k]
  <2>1. y = b \o x /\ Len(b) \in Nat
    BY <1>9, <1>10
  <2>2. Len(y) = Len(b) + Len(x)
    BY <1>6, <1>8, <2>1
  <2>3. ASSUME NEW k \in 1 .. Len(b) PROVE y[k] = b[k]
    BY <1>6, <1>8, <2>1, <2>3
  <2> QED BY <1>8, <2>2, <2>3
<1>12. \A k \in 1 .. a : y[Len(b) + k] = <<p, k>>
  <2>1. y = b \o x
    BY <1>9, <1>10
  <2> QED BY <1>8, <2>1
<1>20. SUFFICES /\ n + 1 = m + v5'.count
                /\ v5'.count > 0 /\ v5'.size > 0
                /\ \A i \in m + 1 .. n : v7'[i].len = v5'.size
                /\ a <= v5'.size /\ (v5'.closed <=> a < v5'.size)
                /\ Len(y) = (v5'.count - 1) * v5'.size + a
                /\ \A i \in 1 .. v5'.count : Send!Whole(v7[m + i], (i - 1) * v5.size)'
  <2>1. (n + 1) - 1 = n /\ Len(v7') = n + 1 /\ v7'[n + 1].len = a /\ Len(v8') = m /\ v8' = v8
        /\ y = v5'.bytes
    BY <1>1, <1>2, <1>5, <1>10
  <2>2. v5'.count # 0
    BY <1>2, <1>9
  <2> QED BY <1>4, <1>20, <2>1, <2>2, Zenon DEF Send!BatchHolds
<1>13. CASE c = 0
  <2>1. b = <<>> /\ ~v5.closed
    BY <1>2, <1>6, <1>13 DEF Send!BatchHolds, Send!NewBatch
  <2>2. v5'.size = a /\ ~v5'.closed /\ v5'.count = 1
    BY <1>2, <1>5, <1>9, <1>13, <2>1 DEF Send!SizeWith
  <2>3. Len(b) = 0 /\ n = m
    BY <1>3, <1>13, <2>1
  <2>4. ASSUME NEW k \in 1 .. a PROVE y[0 + k] = <<p, k>>
    <3>1. Len(b) + k = 0 + k
      BY <2>3
    <3> QED BY <1>12, <3>1
  <2>5. Len(y) = (1 - 1) * a + a
    BY <1>11, <2>3
  <2>6. ASSUME NEW i \in 1 .. v5'.count PROVE Send!Whole(v7[m + i], (i - 1) * v5.size)'
    <3>1. i = 1 /\ v7'[m + i] = p /\ (i - 1) * a = 0
      BY <1>1, <2>2, <2>3, <2>6
    <3> QED BY <1>2, <1>5, <1>10, <2>2, <2>4, <3>1 DEF Send!Whole
  <2>7. \A i \in m + 1 .. n : FALSE
    BY <2>3
  <2>8. ~(a < v5'.size)
    BY <2>2
  <2>9. v5'.closed <=> a < v5'.size
    BY <2>2, <2>8, Zenon
  <2>10. /\ n + 1 = m + v5'.count /\ v5'.count > 0 /\ v5'.size > 0 /\ a <= v5'.size
         /\ Len(y) = (v5'.count - 1) * v5'.size + a
    BY <2>2, <2>3, <2>5
  <2> QED BY <2>6, <2>7, <2>9, <2>10, Zenon
<1>14. CASE c # 0
  <2>1. /\ s > 0 /\ v7[n].len <= s /\ (v5.closed <=> v7[n].len < s)
        /\ Len(b) = (c - 1) * s + v7[n].len
        /\ \A i \in m + 1 .. n - 1 : v7[i].len = s
        /\ \A i \in 1 .. c : Send!Whole(v7[m + i], (i - 1) * s)
    BY <1>1, <1>2, <1>6, <1>14 DEF Send!BatchHolds
  <2>2. ~v5.closed /\ a <= s
    BY <1>2, <1>5, <1>14 DEF Send!Fits
  <2>3. v7[n].len = s
    <3>1. n \in 1 .. Len(v7)
      BY <1>1, <1>3, <1>14
    <3>2. v7[n].len \in Nat
      BY <3>1, Taken
    <3> QED BY <2>1, <2>2, <3>2
  <2>4. v5'.size = s /\ (v5'.closed <=> a < s)
    BY <1>2, <1>5, <1>9, <1>14, <2>2 DEF Send!SizeWith
  <2>5. \A i \in m + 1 .. n : v7'[i].len = s
    <3>1. TAKE i \in m + 1 .. n
    <3>2. v7'[i] = v7[i] /\ (i = n \/ i \in m + 1 .. n - 1)
      BY <1>1
    <3> QED BY <2>1, <2>3, <3>2
  <2>6. PICK z \in Nat : z = c * s
    OBVIOUS
  <2>7. Len(b) = z
    BY <1>14, <2>1, <2>3, <2>6
  <2>8. Len(y) = ((c + 1) - 1) * s + a
    <3>1. (c + 1) - 1 = c
      OBVIOUS
    <3> QED BY <1>11, <2>6, <2>7, <3>1
  <2>9. ASSUME NEW i \in 1 .. c + 1 PROVE Send!Whole(v7[m + i], (i - 1) * v5.size)'
    <3>1. CASE i = c + 1
      <4>1. v7'[m + i] = p /\ i - 1 = c
        <5>1. v7'[n + 1] = p
          BY <1>1
        <5>2. m + i = n + 1 /\ i - 1 = c
          BY <1>3, <3>1
        <5> QED BY <5>1, <5>2, Zenon
      <4> QED BY <1>2, <1>5, <1>10, <1>12, <2>4, <2>6, <2>7, <4>1, Zenon DEF Send!Whole
    <3>2. CASE i # c + 1
      <4>1. i \in 1 .. c /\ m + i \in m + 1 .. n /\ m + i \in 1 .. n
        BY <1>3, <3>2
      <4>2. PICK u \in Nat : u = (i - 1) * s
        <5>1. (i - 1) * s \in Nat
          BY <4>1
        <5> QED BY <5>1
      <4>3. u + s <= z
        <5>1. PICK k \in Nat : k = c - i
          BY <4>1
        <5>2. k * s >= 0 /\ i * s + k * s = (i + k) * s /\ i + k = c
          BY <4>1, <5>1
        <5>3. i * s = u + s
          BY <4>1, <4>2
        <5>4. i * s \in Nat /\ k * s \in Nat
          OBVIOUS
        <5> QED BY <2>6, <5>2, <5>3, <5>4
      <4>4. PICK q : q = v7[m + i] /\ v7'[m + i] = q /\ q.len = s
        BY <1>1, <2>5, <4>1
      <4>5. \A k \in 1 .. s : b[u + k] = <<q, k>>
        <5>1. Send!Whole(v7[m + i], (i - 1) * s)
          BY <2>1, <4>1
        <5> QED BY <1>6, <4>2, <4>4, <5>1, Zenon DEF Send!Whole
      <4>6. ASSUME NEW k \in 1 .. s PROVE y[u + k] = <<q, k>>
        <5>1. u + k \in 1 .. Len(b)
          BY <2>7, <4>3
        <5> QED BY <1>11, <4>5, <5>1, Zenon
      <4> QED BY <1>2, <1>10, <2>4, <4>2, <4>4, <4>6, Zenon DEF Send!Whole
    <3> QED BY <3>1, <3>2, Zenon
  <2>10. v5'.count = c + 1 /\ n + 1 = m + (c + 1) /\ c + 1 > 0
    BY <1>3, <1>9
  <2> QED BY <2>1, <2>2, <2>4, <2>5, <2>8, <2>9, <2>10, Zenon
<1> QED BY <1>13, <1>14, Zenon

LEMMA BatchTakenAnew ==
    ASSUME Send!TypeOK, Send!InOrder, Send!BatchHolds, NEW p \in Send!Packets,
           v7' = Append(v7, p), p.len \in Nat \ {0},
           NEW cut, v8' = v8 \o Send!Leaving(v5, cut),
           v5' = Send!Added(Send!NewBatch, p)
    PROVE  Send!BatchHolds' /\ v8' \in Seq(Send!Packets)
<1>1. PICK n \in Nat : /\ n = Len(v7) /\ Len(v7') = n + 1 /\ v7'[n + 1] = p
                       /\ \A k \in 1 .. n : v7'[k] = v7[k]
  BY OneMoreTaken
<1>2. /\ v8' \in Seq(Send!Packets) /\ Len(v8') = n
      /\ \A i \in 1 .. n : v8'[i] \in {v7[i], Send!Unsent}
  BY <1>1, AllFlushed
<1>3. PICK a \in Nat \ {0} : a = p.len
  OBVIOUS
<1>4. PICK x : x = Send!BytesOf(p)
  OBVIOUS
<1>5. x \in Seq(Send!Packets \X Nat) /\ Len(x) = a /\ \A k \in 1 .. a : x[k] = <<p, k>>
  <2>1. x = [k \in 1 .. a |-> <<p, k>>]
    BY <1>3, <1>4 DEF Send!BytesOf
  <2>2. \A k \in 1 .. a : x[k] = <<p, k>> /\ x[k] \in Send!Packets \X Nat
    BY <2>1
  <2> QED BY <2>1, <2>2
<1>6. /\ v5'.bytes = <<>> \o x /\ v5'.count = 1 /\ v5'.size = a
      /\ ~v5'.closed
  <2>1. PICK b : b = Send!NewBatch
    OBVIOUS
  <2>2. b.bytes = <<>> /\ b.count = 0 /\ ~b.closed
    BY <2>1 DEF Send!NewBatch
  <2>3. Send!SizeWith(b, p) = a /\ ~(p.len < a)
    BY <1>3, <2>2 DEF Send!SizeWith
  <2>4. v5' = [bytes |-> b.bytes \o x, count |-> b.count + 1, size |-> a,
               closed |-> b.closed \/ p.len < a]
    BY <1>4, <2>1, <2>3 DEF Send!Added
  <2>5. v5'.bytes = <<>> \o x /\ v5'.count = 1 /\ v5'.size = a
    BY <2>2, <2>4
  <2>6. ~v5'.closed
    <3>1. v5'.closed = (b.closed \/ p.len < a)
      BY <2>4
    <3> QED BY <2>2, <2>3, <3>1, Zenon
  <2> QED BY <2>5, <2>6
<1>7. v5'.bytes = x
  BY <1>5, <1>6
<1>8. \A k \in 1 .. a : x[0 + k] = <<p, k>>
  BY <1>5
<1>9. ASSUME NEW i \in 1 .. v5'.count PROVE Send!Whole(v7[n + i], (i - 1) * v5.size)'
  <2>1. i = 1 /\ v7'[n + i] = p /\ (i - 1) * a = 0
    BY <1>1, <1>6, <1>9
  <2> QED BY <1>3, <1>6, <1>7, <1>8, <2>1 DEF Send!Whole
<1>10. \A i \in n + 1 .. n : FALSE
  OBVIOUS
<1>11. /\ Len(x) = (v5'.count - 1) * v5'.size + a /\ n + 1 = n + v5'.count /\ v5'.count > 0
       /\ v5'.size > 0 /\ a <= v5'.size /\ v5'.count # 0 /\ (n + 1) - 1 = n
  BY <1>5, <1>6
<1>12. \A i \in 1 .. n : v8'[i] \in {v7'[i], Send!Unsent'}
  BY <1>1, <1>2 DEF Send!Unsent, Send!Packet
<1>13. v5'.closed <=> a < v5'.size
  <2>1. ~(a < a)
    OBVIOUS
  <2> QED BY <1>6, <2>1, Zenon
<1> QED BY <1>1, <1>2, <1>3, <1>7, <1>9, <1>10, <1>11, <1>12, <1>13, Zenon DEF Send!BatchHolds

LEMMA SendKeptByTake ==
    ASSUME Send!SendInv, Send!Take
    PROVE  Send!SendInv'
<1>1. PICK p \in Send!Packets :
             /\ v3 # <<>> /\ p = v3[1] /\ v3' = Tail(v3) /\ v7' = Append(v7, p)
             /\ v4' = IF v12 = "drains" THEN Send!Stored(v4, p) ELSE v4
             /\ v12' = v12 /\ v12 \in {"drains", "stops"}
             /\ \/ Send!Fits(v5, p) /\ v5' = Send!Added(v5, p) /\ v8' = v8
                \/ /\ v5' = Send!Added(Send!NewBatch, p)
                   /\ \E k : v8' = v8 \o Send!Leaving(v5, k)
             /\ UNCHANGED <<v1, v2, v9, v10, v11, v13>>
             /\ p.frame \in 1 .. v2 /\ Send!Lives(p.frame) /\ v2 \in Nat
             /\ p.len \in Nat \ {0} /\ p.idx \in Nat /\ p.frame \in Nat
             /\ \A k \in 1 .. Len(v7) : Send!Before(v7[k], p)
             /\ Send!Line' = Send!Line
  BY TakeIs
<1>2. /\ Send!CacheHolds' /\ Send!IdsLive'
      /\ v4' \in [slots  : [0 .. CacheSlots - 1 -> Send!Packets], write : Nat,
                  frames : [0 .. FrameTable - 1 ->
                              [valid : BOOLEAN, id : Nat, first : Nat, count : Nat]]]
  <2>1. CASE v12 = "drains"
    <3>1. Send!TypeOK /\ Send!SlotsHold /\ Send!EntriesLead /\ v4' = Send!Stored(v4, p)
      BY <1>1, <2>1 DEF Send!SendInv, Send!CacheHolds
    <3>2. Send!SlotsHold'
      BY <1>1, <3>1, SlotsTaken
    <3>3. Send!IdsLive'
      BY <1>1, <3>1, IdsTaken
    <3>4. Send!EntriesLead'
      BY <1>1, <3>1, EntriesTaken
    <3>5. v4' \in [slots  : [0 .. CacheSlots - 1 -> Send!Packets], write : Nat,
                   frames : [0 .. FrameTable - 1 ->
                               [valid : BOOLEAN, id : Nat, first : Nat, count : Nat]]]
      BY <3>1, StoredIs, Zenon
    <3> QED BY <3>2, <3>3, <3>4, <3>5 DEF Send!CacheHolds
  <2>2. CASE v12 = "stops"
    <3>1. v4' = v4 /\ v12' = "stops"
      BY <1>1, <2>2
    <3>2. Send!CacheHolds'
      BY <3>1 DEF Send!CacheHolds
    <3>3. Send!IdsLive'
      BY <1>1, <3>1, IdsUncached
    <3> QED BY <3>1, <3>2, <3>3 DEF Send!SendInv, Send!TypeOK
  <2> QED BY <1>1, <2>1, <2>2
<1>3. Send!BatchHolds' /\ v8' \in Seq(Send!Packets)
  <2>1. CASE Send!Fits(v5, p) /\ v5' = Send!Added(v5, p) /\ v8' = v8
    <3>1. v8 \in Seq(Send!Packets)
      BY Zenon DEF Send!SendInv, Send!TypeOK
    <3>2. Send!TypeOK /\ Send!InOrder /\ Send!BatchHolds
      BY Zenon DEF Send!SendInv
    <3>3. Send!BatchHolds'
      BY <1>1, <2>1, <3>2, BatchTakenFits, Zenon
    <3> QED BY <2>1, <3>1, <3>3, Zenon
  <2>2. ASSUME NEW k, v5' = Send!Added(Send!NewBatch, p), v8' = v8 \o Send!Leaving(v5, k)
        PROVE  Send!BatchHolds' /\ v8' \in Seq(Send!Packets)
    <3>1. Send!TypeOK /\ Send!InOrder /\ Send!BatchHolds
      BY Zenon DEF Send!SendInv
    <3> QED BY <1>1, <2>2, <3>1, BatchTakenAnew, Zenon
  <2> QED BY <1>1, <2>1, <2>2
<1>4. Send!TypeOK'
  <2>1. v5' \in [bytes : Seq(Send!Packets \X Nat), count : Nat, size : Nat, closed : BOOLEAN]
    <3>1. ASSUME NEW b \in [bytes : Seq(Send!Packets \X Nat), count : Nat, size : Nat,
                            closed : BOOLEAN]
          PROVE  Send!Added(b, p) \in [bytes : Seq(Send!Packets \X Nat), count : Nat, size : Nat,
                                       closed : BOOLEAN]
      <4>1. Send!BytesOf(p) \in Seq(Send!Packets \X Nat)
        <5>1. PICK a \in Nat : a = p.len
          BY <1>1
        <5>2. PICK x : x = [k \in 1 .. a |-> <<p, k>>]
          BY Zenon
        <5>3. \A k \in 1 .. a : x[k] \in Send!Packets \X Nat
          BY <5>2
        <5>4. x \in Seq(Send!Packets \X Nat)
          BY <5>2, <5>3
        <5> QED BY <5>1, <5>2, <5>4 DEF Send!BytesOf
      <4>2. b.bytes \o Send!BytesOf(p) \in Seq(Send!Packets \X Nat)
        BY <4>1
      <4>3. Send!SizeWith(b, p) \in Nat
        BY <1>1 DEF Send!SizeWith
      <4> QED BY <4>2, <4>3 DEF Send!Added
    <3>2. Send!NewBatch \in [bytes : Seq(Send!Packets \X Nat), count : Nat, size : Nat,
                             closed : BOOLEAN]
      BY DEF Send!NewBatch
    <3>3. v5 \in [bytes : Seq(Send!Packets \X Nat), count : Nat, size : Nat, closed : BOOLEAN]
      BY DEF Send!SendInv, Send!TypeOK
    <3> QED BY <1>1, <3>1, <3>2, <3>3, Zenon
  <2>2. v7' \in Seq(Send!Packets)
    BY <1>1, OneMoreTaken DEF Send!SendInv
  <2>3. v3' \in Seq(Send!Packets)
    <3>1. v3 \in Seq(Send!Packets)
      BY DEF Send!SendInv, Send!TypeOK
    <3> QED BY <1>1, <3>1
  <2>4. /\ v2' \in Nat /\ v1' \in Seq(Send!Packets)
        /\ \A q \in v9' : q.frame \in Nat /\ q.idx \in Nat
    BY <1>1 DEF Send!SendInv, Send!TypeOK
  <2> QED BY <1>2, <1>3, <2>1, <2>2, <2>3, <2>4, Zenon DEF Send!TypeOK, Send!Packets
<1>5. Send!InOrder' /\ Send!LeftIsNext'
  BY <1>1, LineStays DEF Send!SendInv
<1>6. Send!RetransmitsAreRight'
  BY <1>1 DEF Send!SendInv, Send!RetransmitsAreRight
<1> QED BY <1>2, <1>3, <1>4, <1>5, <1>6 DEF Send!SendInv

LEMMA SendKeptByEndDrain ==
    ASSUME Send!SendInv, Send!EndDrain
    PROVE  Send!SendInv'
<1>1. /\ UNCHANGED <<v1, v2, v3, v4, v7, v9, v10, v11, v13>>
      /\ v5' = Send!NewBatch
      /\ v12' \in {"serves", "drains"} => v12 \in {"serves", "drains"}
  BY DEF Send!EndDrain
<1>2. PICK k : v8' = v8 \o Send!Leaving(v5, k)
  BY DEF Send!EndDrain, Send!Flush
<1>3. /\ v8' \in Seq(Send!Packets) /\ Len(v8') = Len(v7) /\ Len(v7) \in Nat
      /\ \A i \in 1 .. Len(v7) : v8'[i] \in {v7[i], Send!Unsent}
  BY <1>2, AllFlushed DEF Send!SendInv
<1>4. Send!BatchHolds'
  <2>1. v5'.count = 0 /\ v5' = Send!NewBatch' /\ Send!Unsent' = Send!Unsent
    BY <1>1 DEF Send!NewBatch, Send!Unsent, Send!Packet
  <2> QED BY <1>1, <1>3, <2>1 DEF Send!BatchHolds
<1>5. Send!TypeOK'
  <2>1. v5' \in [bytes : Seq(Send!Packets \X Nat), count : Nat, size : Nat, closed : BOOLEAN]
    BY <1>1 DEF Send!NewBatch
  <2>2. /\ v2 \in Nat /\ v1 \in Seq(Send!Packets) /\ v3 \in Seq(Send!Packets)
        /\ v7 \in Seq(Send!Packets)
        /\ v4 \in [slots  : [0 .. CacheSlots - 1 -> Send!Packets], write : Nat,
                   frames : [0 .. FrameTable - 1 ->
                               [valid : BOOLEAN, id : Nat, first : Nat, count : Nat]]]
        /\ \A q \in v9 : q.frame \in Nat /\ q.idx \in Nat
    BY DEF Send!SendInv, Send!TypeOK
  <2> QED BY <1>1, <1>3, <2>1, <2>2, Zenon DEF Send!TypeOK, Send!Packets
<1>6. Send!Line' = Send!Line
  BY <1>1 DEF Send!Line
<1>7. Send!IdsLive'
  BY <1>1, IdsStay DEF Send!SendInv
<1>8. Send!RetransmitsAreRight'
  BY <1>1 DEF Send!SendInv, Send!RetransmitsAreRight
<1> QED BY <1>1, <1>4, <1>5, <1>6, <1>7, <1>8, CacheStays, LineStays DEF Send!SendInv

LEMMA SendKept == Send!SendInv /\ Send!Next => Send!SendInv'
BY SendKeptByBeginFrame, SendKeptByPush, SendKeptByServe, SendKeptByBeginDrain, SendKeptByTake,
   SendKeptByEndDrain, SendKeptByStop, SendKeptByAsk DEF Send!Next

LEMMA StreamWhole == Send!SendInv => Send!StreamIsWhole /\ Send!RetransmitsAreRight
BY WholeStream DEF Send!SendInv

-----------------------------------------------------------------------------
(* Pacer.  v1 now, v2 initial, v3 asked, v4 paced, v5 available, v6 sent,  *)
(* v7 spent.                                                               *)

LEMMA PaceNumbers ==
    /\ Starts \subseteq Nat \ {0} /\ Targets \subseteq Nat \ {0} /\ Batches \subseteq Nat \ {0}
    /\ Burst \in Nat /\ Second \in Nat
BY PaceAssumption DEF Pace!PaceBounds

LEMMA PaceStart == Pace!Init => Pace!PaceInv
<1> SUFFICES ASSUME Pace!Init PROVE Pace!PaceInv
  OBVIOUS
<1>1. {v1, v5, v7} \subseteq Nat /\ {v2, v3, v4} \subseteq Nat \ {0} /\ v6 = <<>>
  BY PaceNumbers DEF Pace!Init
<1> QED BY <1>1 DEF Pace!PaceInv, Pace!PaceIsKept, Pace!PaidFor

\* The link is free a batch later, and idle time counts for no more than the burst.
LEMMA FreeLater ==
    ASSUME NEW free \in Nat, NEW at \in Nat, NEW cost \in Nat, NEW to,
           to = Pace!MostOf(free, IF at > Burst THEN at - Burst ELSE 0) + cost
    PROVE  to \in Nat /\ free + cost <= to /\ at + cost <= to + Burst
<1>1. Burst \in Nat
  BY PaceNumbers
<1>2. CASE at > Burst
  <2>1. at - Burst \in Nat
    BY <1>1, <1>2
  <2> QED BY <1>1, <1>2, <2>1 DEF Pace!MostOf
<1>3. CASE ~ (at > Burst)
  BY <1>1, <1>3 DEF Pace!MostOf
<1> QED BY <1>2, <1>3

\* t is s and one batch more, which left within the pace of each before it.
LastIsPaced(s, t) ==
    \A i \in 1 .. Len(s) :
        t[Len(s) + 1].before - t[i].before <= (t[Len(s) + 1].at - t[i].at) + Burst

\* One batch more: it is within the pace with each before it, and all are paid for.
LEMMA OneBatchMore ==
    ASSUME NEW s \in Seq([at : Nat, before : Nat]), NEW total \in Nat, NEW free \in Nat,
           Pace!PaidFor(s, total, free),
           NEW x \in [at : Nat, before : Nat], free <= x.at, x.before = total,
           NEW cost \in Nat, NEW to \in Nat, free + cost <= to, x.at + cost <= to + Burst,
           NEW t, t = Append(s, x)
    PROVE  /\ LastIsPaced(s, t)
           /\ Pace!PaidFor(t, total + cost, to)
<1>1. PICK at \in Nat : at = x.at
  OBVIOUS
<1>2. PICK n \in Nat : n = Len(s)
  OBVIOUS
<1>3. x.at = at /\ x.before = total
  BY <1>1
<1>4. t \in Seq([at : Nat, before : Nat]) /\ DOMAIN t = 1 .. n + 1 /\ t[n + 1] = x
  BY <1>2
<1>5. \A i \in 1 .. n : t[i] = s[i] /\ i \in DOMAIN s /\ s[i].at \in Nat /\ s[i].before \in Nat
  <2> TAKE i \in 1 .. n
  <2>1. PICK R : R = [at : Nat, before : Nat]
    BY Zenon
  <2>2. s \in Seq(R) /\ x \in R
    BY <2>1, Zenon
  <2>3. t[i] = s[i] /\ i \in DOMAIN s /\ s[i] \in R
    BY <1>2, <1>4, <2>2
  <2> QED BY <2>1, <2>3
<1>6. Burst \in Nat
  BY PaceNumbers
<1>7. \A i \in 1 .. n : s[i].at + (total - s[i].before) <= free + Burst
  BY <1>5 DEF Pace!PaidFor
<1>8. \A i \in 1 .. n : t[n + 1].before - t[i].before <= (t[n + 1].at - t[i].at) + Burst
  <2> TAKE i \in 1 .. n
  <2>1. PICK a \in Nat, b \in Nat : a = s[i].at /\ b = s[i].before
    BY <1>5, Zenon
  <2>2. a + (total - b) <= free + Burst
    BY <1>7, <2>1
  <2>3. total - b <= (at - a) + Burst
    BY <1>1, <1>6, <2>2
  <2> QED BY <1>3, <1>4, <1>5, <2>1, <2>3
<1>9. \A i \in DOMAIN t : t[i].at + ((total + cost) - t[i].before) <= to + Burst
  <2> TAKE i \in DOMAIN t
  <2>1. CASE i \in 1 .. n
    <3>1. PICK a \in Nat, b \in Nat : a = s[i].at /\ b = s[i].before
      BY <1>5, <2>1, Zenon
    <3>2. a + (total - b) <= free + Burst
      BY <1>7, <2>1, <3>1, Zenon
    <3>3. a + ((total + cost) - b) <= to + Burst
      BY <1>6, <3>2
    <3> QED BY <1>5, <2>1, <3>1, <3>3, Zenon
  <2>2. CASE i = n + 1
    BY <1>3, <1>4, <1>6, <2>2
  <2> QED BY <1>4, <2>1, <2>2
<1> QED BY <1>2, <1>4, <1>5, <1>8, <1>9 DEF Pace!PaidFor, LastIsPaced

LEMMA PaceKeptByFlush ==
    ASSUME Pace!PaceInv, Pace!Flush
    PROVE  Pace!PaceInv'
<1>1. /\ v1 \in Nat /\ v5 \in Nat /\ v7 \in Nat /\ {v2, v3, v4} \subseteq Nat \ {0}
      /\ v6 \in Seq([at : Nat, before : Nat]) /\ Pace!PaidFor(v6, v7, v5) /\ Pace!PaceIsKept
  BY DEF Pace!PaceInv
<1>2. PICK idle \in 0 .. MaxIdle : v1' = Pace!MostOf(v1 + idle, v5)
  BY DEF Pace!Flush
<1>3. PICK bytes \in Batches : /\ v6' = Append(v6, [at |-> v1', before |-> v7])
                               /\ v7' = v7 + Pace!Cost(bytes)
                               /\ v5' = Pace!FreeAgain(v1', bytes)
  BY DEF Pace!Flush, Pace!Recorded
<1>4. v2' = v2 /\ v3' = v3 /\ v4' = v4
  BY DEF Pace!Flush
<1>5. v1' \in Nat /\ v1 <= v1' /\ v5 <= v1'
  BY <1>1, <1>2, PaceNumbers DEF Pace!MostOf
<1>6. PICK cost : cost = Pace!Cost(bytes)
  OBVIOUS
<1>7. cost \in Nat
  <2>1. Pace!Pace(v4) \in Nat \ {0}
    BY <1>1 DEF Pace!Pace, Pace!MostOf
  <2>2. bytes * Second \in Nat
    BY PaceNumbers
  <2> QED BY <1>6, <2>1, <2>2 DEF Pace!Cost
<1>8. v5' \in Nat /\ v5 + cost <= v5' /\ v1' + cost <= v5' + Burst
  <2>1. v5' = Pace!MostOf(v5, IF v1' > Burst THEN v1' - Burst ELSE 0) + cost
    BY <1>3, <1>6 DEF Pace!FreeAgain
  <2> QED BY <1>1, <1>5, <1>7, <2>1, FreeLater, Zenon
<1>9. PICK n : n = Len(v6)
  BY Zenon
<1>13. v6' = Append(v6, [at |-> v1', before |-> v7]) /\ v7' = v7 + cost
  BY <1>3, <1>6
<1>10. /\ v6' \in Seq([at : Nat, before : Nat]) /\ DOMAIN v6' = 1 .. n + 1 /\ n \in Nat
       /\ \A i \in 1 .. n : v6'[i] = v6[i] /\ i \in DOMAIN v6
       /\ \A i \in 1 .. n : v6'[n + 1].before - v6'[i].before <= (v6'[n + 1].at - v6'[i].at) + Burst
       /\ Pace!PaidFor(v6', v7', v5')
  <2>1. PICK x : x = [at |-> v1', before |-> v7]
    BY Zenon
  <2>2. x \in [at : Nat, before : Nat] /\ x.at = v1' /\ x.before = v7
    BY <1>1, <1>5, <2>1
  <2>3. PICK to \in Nat : to = v5'
    BY <1>8
  <2>4. v5 <= x.at /\ v5 + cost <= to /\ x.at + cost <= to + Burst
    BY <1>5, <1>8, <2>2, <2>3
  <2>5. PICK t : t = v6'
    OBVIOUS
  <2>6. t = Append(v6, x)
    BY <1>13, <2>1, <2>5
  <2>7. /\ t \in Seq([at : Nat, before : Nat]) /\ DOMAIN t = 1 .. Len(v6) + 1
        /\ Len(v6) \in Nat
        /\ \A i \in 1 .. Len(v6) : t[i] = v6[i] /\ i \in DOMAIN v6
        /\ LastIsPaced(v6, t)
        /\ Pace!PaidFor(t, v7 + cost, to)

    <3>1. v6 \in Seq([at : Nat, before : Nat]) /\ v7 \in Nat /\ v5 \in Nat /\ Pace!PaidFor(v6, v7, v5)
      BY <1>1
    <3>2. x \in [at : Nat, before : Nat] /\ v5 <= x.at /\ x.before = v7
      BY <1>1, <2>2, <2>4
    <3>3. cost \in Nat /\ to \in Nat /\ v5 + cost <= to /\ x.at + cost <= to + Burst
      BY <1>7, <2>4, <2>3
    <3>4. LastIsPaced(v6, t)
      BY <3>1, <3>2, <3>3, <2>6, OneBatchMore, Zenon
    <3>5. t \in Seq([at : Nat, before : Nat]) /\ DOMAIN t = 1 .. Len(v6) + 1 /\ Len(v6) \in Nat
      BY <3>1, <3>2, <2>6
    <3>6. \A i \in 1 .. Len(v6) : t[i] = v6[i] /\ i \in DOMAIN v6
      BY <3>1, <3>2, <2>6
    <3>7. Pace!PaidFor(t, v7 + cost, to)
      BY <3>1, <3>2, <3>3, <2>6, OneBatchMore, Zenon
    <3> QED BY <3>4, <3>5, <3>6, <3>7
  <2> QED BY <1>9, <1>13, <2>3, <2>5, <2>7 DEF LastIsPaced
<1>11. Pace!PaceIsKept'
  <2> SUFFICES ASSUME NEW i \in 1 .. n + 1, NEW j \in 1 .. n + 1, i < j
               PROVE  v6'[j].before - v6'[i].before <= (v6'[j].at - v6'[i].at) + Burst
    BY <1>10, Zenon DEF Pace!PaceIsKept, Pace!CostBetween
  <2>1. CASE j = n + 1
    BY <1>10, <2>1
  <2>2. CASE j # n + 1
    <3>1. i \in 1 .. n /\ j \in 1 .. n
      BY <1>10, <2>2
    <3> QED BY <1>1, <1>10, <3>1, Zenon DEF Pace!PaceIsKept, Pace!CostBetween
  <2> QED BY <2>1, <2>2
<1>12. v7' \in Nat
  BY <1>1, <1>3, <1>6, <1>7
<1> QED BY <1>1, <1>4, <1>5, <1>8, <1>10, <1>11, <1>12 DEF Pace!PaceInv

LEMMA PaceKept ==
    ASSUME Pace!PaceInv, Pace!Next
    PROVE  Pace!PaceInv'
<1>1. CASE Pace!Retarget
  BY <1>1, PaceNumbers, Zenon
     DEF Pace!Retarget, Pace!PaceInv, Pace!PaceIsKept, Pace!CostBetween
<1>2. CASE Pace!Follow
  BY <1>2 DEF Pace!Follow, Pace!PaceInv, Pace!PaceIsKept, Pace!CostBetween
<1>3. CASE Pace!Flush
  BY <1>3, PaceKeptByFlush
<1> QED BY <1>1, <1>2, <1>3 DEF Pace!Next

LEMMA PaceStays == ASSUME Pace!PaceInv, UNCHANGED vars PROVE Pace!PaceInv'
BY DEF vars, Pace!PaceInv, Pace!PaceIsKept, Pace!CostBetween

-----------------------------------------------------------------------------
(* HoleNacks.  v1 slot, v2 newer, v3 now, v4 video, v5 nacks, v6 losses,   *)
(* v7 last.                                                                *)

LEMMA NackNumbers == {SlotPackets, MaxTargets, Reask} \subseteq Nat \ {0}
BY NackAssumption DEF Hole!NackBounds

LEMMA SameCount == \A S : Hole!Cardinality(S) = Cardinality(S)
BY Zenon DEF Hole!Cardinality, Cardinality

LEMMA FewHoles ==
    ASSUME NEW T, T \subseteq 0 .. SlotPackets
    PROVE  IsFiniteSet(T) /\ Cardinality(T) \in Nat
<1>1. T \in SUBSET Nat /\ SlotPackets \in Nat /\ \A i \in T : i <= SlotPackets
  BY NackNumbers
<1>2. IsFiniteSet(T)
  BY <1>1, FS_BoundedSetOfNaturals
<1> QED BY <1>2, FS_CardinalityType

\* The largest of a set of indices is one of them.
LEMMA LargestSeen ==
    ASSUME NEW S, S \subseteq Hole!Index, S # {}
    PROVE  Hole!Max(S) \in S
<1> DEFINE D == {SlotPackets - x : x \in S}
<1>1. SlotPackets \in Nat \ {0} /\ \A x \in S : x \in Nat /\ x < SlotPackets
  BY NackNumbers DEF Hole!Index
<1>2. D \subseteq Nat /\ D # {}
  BY <1>1
<1> HIDE DEF D
<1>3. PICK d \in D : \A e \in D : d <= e
  BY <1>2, LeastNumber, Zenon
<1>4. PICK x \in S : d = SlotPackets - x
  BY <1>3 DEF D
<1>5. \A y \in S : x >= y
  <2> TAKE y \in S
  <2>1. SlotPackets - y \in D
    BY DEF D
  <2> QED BY <1>1, <1>3, <1>4, <2>1
<1>6. \E m \in S : \A y \in S : m >= y
  BY <1>5
<1> QED BY <1>6, Zenon DEF Hole!Max

LEMMA HighestSeen ==
    ASSUME NEW s, s.got \subseteq Hole!Index
    PROVE  Hole!HighWater(s) \in 0 .. SlotPackets
<1>1. SlotPackets \in Nat \ {0}
  BY NackNumbers
<1>2. CASE s.got = {}
  BY <1>1, <1>2 DEF Hole!HighWater
<1>3. CASE s.got # {}
  <2>1. Hole!Max(s.got) \in 0 .. SlotPackets - 1
    BY <1>3, LargestSeen DEF Hole!Index
  <2> QED BY <1>1, <1>3, <2>1 DEF Hole!HighWater
<1> QED BY <1>2, <1>3

\* Of holes there are, one fits.
LEMMA OneFits ==
    ASSUME NEW T, T \subseteq Nat, T # {}
    PROVE  Hole!Fit(T, MaxTargets) \subseteq T /\ Hole!Fit(T, MaxTargets) # {}
<1>1. PICK i \in T : \A j \in T : i <= j
  BY LeastNumber, Zenon
<1>2. {j \in T : j < i} = {}
  <2>1. \A j \in T : ~ (j < i)
    BY <1>1
  <2> QED BY <2>1, Zenon
<1>3. Hole!Cardinality({j \in T : j < i}) < MaxTargets
  BY <1>2, FS_EmptySet, NackNumbers, SameCount
<1>4. i \in Hole!Fit(T, MaxTargets)
  BY <1>3, Zenon DEF Hole!Fit
<1> QED BY <1>4, Zenon DEF Hole!Fit

\* What is asked for is of the frame, or the packet after the last one seen; and a
\* frame that is looked at has something to ask for.
LEMMA TargetsOfSlot ==
    ASSUME NEW s, s.got \subseteq Hole!Index, s.got # Hole!Index, v2 \/ Hole!CountKnown(s)
    PROVE  Hole!nack_targets(s) \subseteq 0 .. SlotPackets /\ Hole!nack_targets(s) # {}
<1> DEFINE upper == IF Hole!CountKnown(s) THEN SlotPackets ELSE Hole!HighWater(s)
           holes == (0 .. upper - 1) \ s.got
           all == Hole!missing(s)
                    \cup (IF v2 /\ ~Hole!CountKnown(s) THEN {Hole!HighWater(s)} ELSE {})
<1>1. SlotPackets \in Nat \ {0} /\ Hole!HighWater(s) \in 0 .. SlotPackets
  BY NackNumbers, HighestSeen
<1>2. upper \in 0 .. SlotPackets
  BY <1>1
<1>3. holes \subseteq 0 .. SlotPackets /\ holes \subseteq Nat
  BY <1>1, <1>2
<1>4. Hole!missing(s) = Hole!Fit(holes, MaxTargets) /\ Hole!missing(s) \subseteq holes
  BY Zenon DEF Hole!missing, Hole!Fit
<1>5. Hole!CountKnown(s) => holes # {}
  BY <1>1, Zenon DEF Hole!Index
<1> HIDE DEF holes, upper
<1>6. all # {}
  <2>1. CASE Hole!CountKnown(s)
    <3>1. Hole!Fit(holes, MaxTargets) # {}
      BY <1>3, <1>5, <2>1, OneFits, Zenon
    <3> QED BY <1>4, <3>1
  <2>2. CASE ~Hole!CountKnown(s)
    BY <2>2
  <2> QED BY <2>1, <2>2
<1>7. all \subseteq 0 .. SlotPackets /\ all \subseteq Nat
  <2>1. Hole!missing(s) \subseteq 0 .. SlotPackets
    BY <1>3, <1>4, Zenon
  <2>2. all \subseteq 0 .. SlotPackets
    BY <1>1, <2>1
  <2> QED BY <2>2
<1> HIDE DEF all
<1>8. Hole!nack_targets(s) = Hole!Fit(all, MaxTargets)
  BY Zenon DEF Hole!nack_targets, all
<1> QED BY <1>6, <1>7, <1>8, OneFits, Zenon

LEMMA NackStart == Hole!Init => Hole!NackInv
BY DEF Hole!Init, Hole!NackInv, Hole!Slot, Hole!Empty, Hole!NoCall, Hole!Never

\* What a slot is after its holes are looked at: its bar is what they are.
LEMMA LookedAt ==
    ASSUME NEW s \in Hole!Slot, NEW h \in Nat \ {0}, v3 \in Nat,
           NEW t, t = Hole!AfterDue(s, h)
    PROVE  t \in Hole!Slot /\ t.got = s.got /\ (Hole!Due(s, h) \/ h <= s.nackedHoles)
           /\ (t.nackedAt # Hole!Never => t.nackedHoles = h)
<1>1. s.nackedHoles \in Nat /\ s.nackedAt \in Nat \cup {Hole!Never}
  BY DEF Hole!Slot
<1>2. CASE Hole!Due(s, h)
  <2>1. t = [s EXCEPT !.nackedAt = v3, !.nackedHoles = h]
    BY <1>2 DEF Hole!AfterDue
  <2> QED BY <1>2, <2>1, Zenon DEF Hole!Slot
<1>3. CASE ~Hole!Due(s, h)
  <2>1. s.nackedAt # Hole!Never /\ h <= s.nackedHoles
    BY <1>1, <1>3 DEF Hole!Due
  <2>2. t = [s EXCEPT !.nackedHoles = h]
    BY <1>1, <1>3, <2>1 DEF Hole!AfterDue, Hole!Bar
  <2> QED BY <2>1, <2>2 DEF Hole!Slot
<1> QED BY <1>2, <1>3

LEMMA NackKeptByReceive ==
    ASSUME Hole!NackInv, Hole!Receive
    PROVE  Hole!NackInv' /\ Hole!AsksAtOnce /\ Hole!AsksForMore
<1>1. PICK i \in v4 :
        LET s == [v1 EXCEPT !.got = @ \cup {i}]
            targets == Hole!nack_targets(s)
            holes == Cardinality(targets)
            looks == s.got # Hole!Index /\ (v2 \/ Hole!CountKnown(s))
        IN /\ v4' = v4 \ {i}
           /\ IF ~looks THEN v1' = s /\ UNCHANGED <<v5, v7>>
              ELSE /\ v1' = Hole!AfterDue(s, holes)
                   /\ v7' = [targets |-> targets, sent |-> Hole!Due(s, holes)]
           /\ UNCHANGED v3
  BY SameCount, Zenon DEF Hole!Receive
<1>2. PICK s : s = [v1 EXCEPT !.got = @ \cup {i}]
  BY Zenon
<1>3. PICK targets : targets = Hole!nack_targets(s)
  OBVIOUS
<1>4. PICK h : h = Cardinality(targets)
  OBVIOUS
<1>5. /\ v1 \in Hole!Slot /\ v3 \in Nat /\ v3' = v3 /\ v4 \subseteq Hole!Index
      /\ v4' \subseteq Hole!Index
      /\ v7.targets \subseteq 0 .. SlotPackets
      /\ v1.nackedAt # Hole!Never => v1.nackedHoles = Cardinality(v7.targets)
  BY <1>1, SameCount DEF Hole!NackInv
<1>6. s \in Hole!Slot /\ s.nackedAt = v1.nackedAt /\ s.nackedHoles = v1.nackedHoles
  BY <1>2, <1>5 DEF Hole!Slot
<1>7. CASE ~ (s.got # Hole!Index /\ (v2 \/ Hole!CountKnown(s)))
  <2>1. v1' = s /\ v7' = v7
    BY <1>1, <1>2, <1>7
  <2> QED BY <1>5, <1>6, <2>1, FewHoles, SameCount
          DEF Hole!NackInv, Hole!AsksAtOnce, Hole!AsksForMore
<1>8. CASE s.got # Hole!Index /\ (v2 \/ Hole!CountKnown(s))
  <2>1. v1' = Hole!AfterDue(s, h) /\ v7' = [targets |-> targets, sent |-> Hole!Due(s, h)]
    BY <1>1, <1>2, <1>3, <1>4, <1>8
  <2>2. targets \subseteq 0 .. SlotPackets /\ targets # {}
    BY <1>3, <1>6, <1>8, TargetsOfSlot DEF Hole!Slot
  <2>3. IsFiniteSet(targets) /\ h \in Nat \ {0}
    BY <1>4, <2>2, FewHoles, FS_EmptySet, Zenon
  <2>4. v1' \in Hole!Slot /\ (Hole!Due(s, h) \/ h <= s.nackedHoles)
        /\ (v1'.nackedAt # Hole!Never => v1'.nackedHoles = h)
    BY <1>5, <1>6, <2>1, <2>3, LookedAt
  <2>5. v7'.targets = targets /\ v7'.sent = Hole!Due(s, h)
    BY <2>1
  <2>6. Hole!NackInv'
    BY <1>4, <1>5, <2>2, <2>4, <2>5, SameCount DEF Hole!NackInv
  <2>7. IsFiniteSet(v7.targets) /\ Cardinality(v7.targets) \in Nat
    BY <1>5, FewHoles
  <2>8. s.nackedAt # Hole!Never => s.nackedHoles = Cardinality(v7.targets)
    BY <1>5, <1>6
  <2>9. Hole!AsksAtOnce
    <3>1. ASSUME h > Cardinality(v7.targets), ~Hole!Due(s, h) PROVE FALSE
      <4>1. s.nackedAt # Hole!Never
        BY <2>3, <3>1 DEF Hole!Due
      <4> QED BY <2>3, <2>4, <2>7, <2>8, <3>1, <4>1
    <3> QED BY <1>4, <2>5, <3>1, SameCount DEF Hole!AsksAtOnce
  <2>10. Hole!AsksForMore
    <3>1. ASSUME Hole!Due(s, h), v1.nackedAt # Hole!Never, v3 - v1.nackedAt < Reask,
                 targets \subseteq v7.targets
          PROVE  FALSE
      <4>1. h <= Cardinality(v7.targets)
        BY <1>4, <2>7, <3>1, FS_Subset
      <4>2. h > s.nackedHoles
        <5>1. v1.nackedAt \in Nat /\ Reask \in Nat
          BY <1>5, <3>1, NackNumbers DEF Hole!Slot
        <5>2. ~ (v3 - s.nackedAt >= Reask)
          BY <1>5, <1>6, <3>1, <5>1
        <5> QED BY <1>6, <3>1, <5>2 DEF Hole!Due
      <4> QED BY <1>6, <2>3, <2>7, <2>8, <3>1, <4>1, <4>2
    <3> QED BY <2>5, <3>1 DEF Hole!AsksForMore
  <2> QED BY <2>6, <2>9, <2>10
<1> QED BY <1>7, <1>8

\* What is on its way is of the frame: nothing else is asked of the cache.
LEMMA NackKept ==
    ASSUME Hole!NackInv, Hole!Next
    PROVE  Hole!NackInv' /\ Hole!AsksAtOnce /\ Hole!AsksForMore
<1>1. CASE Hole!Receive
  BY <1>1, NackKeptByReceive
<1>2. CASE ~Hole!Receive
  <2>1. v1' = v1 /\ v7' = v7
    BY <1>2 DEF Hole!Next, Hole!NewerFrame, Hole!Answer, Hole!Lose, Hole!Tick
  <2>2. v3' \in Nat
    BY <1>2 DEF Hole!NackInv, Hole!Next, Hole!NewerFrame, Hole!Answer, Hole!Lose, Hole!Tick
  <2>3. v4' \subseteq Hole!Index
    BY <1>2 DEF Hole!NackInv, Hole!Next, Hole!NewerFrame, Hole!Answer, Hole!Lose, Hole!Tick
  <2>4. Hole!NackInv'
    BY <2>1, <2>2, <2>3 DEF Hole!NackInv
  <2>5. ~ (Hole!Cardinality(v7.targets) > Hole!Cardinality(v7.targets))
    BY FewHoles, SameCount DEF Hole!NackInv
  <2> QED BY <2>1, <2>4, <2>5 DEF Hole!AsksAtOnce, Hole!AsksForMore
<1> QED BY <1>1, <1>2

-----------------------------------------------------------------------------
(* RateControl.  v1 now, v2 counted, v3 reports, v4 ask, v5 target,        *)
(* v6 ceiling, v7 last, v8 seen, v9 window, v10 limit, v11 crossed,        *)
(* v12 hasty, v13 unearned.                                                *)

LEMMA RateNumbers ==
    /\ Asks \subseteq [ceiling : Nat, target : Nat, min : Nat, max : Nat, hint : Nat, client : Nat]
    /\ {Floor, HoldTime, ClimbInterval, ProbeInterval, LossWindow, CounterWrap} \subseteq Nat \ {0}
    /\ Gradients \subseteq Int /\ {Flat, Steep} \subseteq Nat /\ Flat <= Steep
BY RateAssumption DEF Rate!RateBounds

\* A session's range is not empty, its start is in it, and it ends at the cap or the floor.
LEMMA SessionRange ==
    ASSUME NEW a \in Asks
    PROVE  /\ Rate!Least(a) \in Nat /\ Rate!Most(a) \in Nat /\ Rate!Initial(a) \in Nat
           /\ Rate!Least(a) <= Rate!Initial(a) /\ Rate!Initial(a) <= Rate!Most(a)
           /\ Rate!Most(a) <= Rate!MostOf(Rate!Cap(a), Floor)
<1>1. /\ a.ceiling \in Nat /\ a.target \in Nat /\ a.min \in Nat /\ a.max \in Nat
      /\ a.hint \in Nat /\ a.client \in Nat /\ Floor \in Nat \ {0}
  BY RateNumbers
<1>2. Rate!Cap(a) \in Nat
  BY <1>1 DEF Rate!Cap, Rate!LeastOf
<1> DEFINE cap == Rate!Cap(a)
           initial == Rate!Initial(a)
<1>3. initial \in Nat \ {0} /\ initial <= Rate!MostOf(cap, Floor)
  BY <1>1, <1>2 DEF Rate!Initial, Rate!MostOf, Rate!LeastOf
<1> HIDE DEF cap, initial
<1>4. Rate!Least(a) = Rate!MostOf(1, Rate!LeastOf(a.min, initial))
  BY DEF Rate!Least, Rate!Clamped, initial
<1>5. Rate!Least(a) \in Nat /\ Rate!Least(a) <= initial
  BY <1>1, <1>3, <1>4 DEF Rate!MostOf, Rate!LeastOf
<1>6. Rate!Most(a) = IF a.max > 0 THEN Rate!MostOf(Rate!LeastOf(a.max, cap), initial)
                     ELSE initial
  BY DEF Rate!Most, initial, cap
<1>7. /\ Rate!Most(a) \in Nat /\ initial <= Rate!Most(a)
      /\ Rate!Most(a) <= Rate!MostOf(cap, Floor)
  <2>1. cap \in Nat
    BY <1>2 DEF cap
  <2> QED BY <1>1, <1>3, <1>6, <2>1 DEF Rate!MostOf, Rate!LeastOf
<1> QED BY <1>3, <1>5, <1>7 DEF initial, cap

LEMMA ClampedIsBetween ==
    ASSUME NEW x \in Nat, NEW lo \in Nat, NEW hi \in Nat, lo <= hi
    PROVE  /\ Rate!Clamped(x, lo, hi) \in lo .. hi
           /\ Rate!Clamped(x, lo, hi) = lo \/ Rate!Clamped(x, lo, hi) <= x
BY DEF Rate!Clamped, Rate!MostOf, Rate!LeastOf

LEMMA RateStart == Rate!Init => Rate!RateInv
<1> SUFFICES ASSUME Rate!Init PROVE Rate!RateInv
  OBVIOUS
<1>1. v4 \in Asks
  BY DEF Rate!Init
<1>2. /\ Rate!Least(v4) \in Nat /\ Rate!Most(v4) \in Nat /\ Rate!Initial(v4) \in Nat
      /\ Rate!Least(v4) <= Rate!Initial(v4) /\ Rate!Initial(v4) <= Rate!Most(v4)
  BY <1>1, SessionRange
<1>3. v5 = Rate!Clamped(Rate!Initial(v4), Rate!LeastOf(Rate!Least(v4), Rate!Most(v4)),
                        Rate!Most(v4))
  BY DEF Rate!Init
<1>4. v5 \in Rate!Least(v4) .. Rate!Most(v4)
  <2>1. Rate!LeastOf(Rate!Least(v4), Rate!Most(v4)) = Rate!Least(v4)
    BY <1>2 DEF Rate!LeastOf
  <2>2. Rate!Least(v4) <= Rate!Most(v4)
    BY <1>2
  <2> QED BY <1>2, <1>3, <2>1, <2>2, ClampedIsBetween
<1>5. /\ v1 = 0 /\ v3 = {} /\ v6 = -1 /\ v10 = -1 /\ v11 = -1 /\ ~v12
      /\ v7 = [decrease |-> -1, increase |-> -1, probe |-> -1, loss |-> -1]
  BY DEF Rate!Init, Rate!NoCeiling, Rate!Never
<1> QED BY <1>1, <1>4, <1>5 DEF Rate!RateInv, Rate!Time, Rate!Kbps, Rate!NoCeiling, Rate!Never

LEMMA DivAtMost ==
    ASSUME NEW a \in Nat, NEW b \in Nat \ {0}, NEW c \in Nat, a <= c * b
    PROVE  a \div b \in Nat /\ a \div b <= c
<1> DEFINE q == a \div b
<1>1. q \in Nat /\ q * b <= a
  BY WholeIntervals
<1> HIDE DEF q
<1>2. ASSUME q > c PROVE FALSE
  <2>1. (c + 1) * b <= q * b
    BY <1>1, <1>2
  <2>2. (c + 1) * b = c * b + b
    OBVIOUS
  <2> QED BY <1>1, <2>1, <2>2
<1>3. q <= c
  BY <1>1, <1>2
<1> QED BY <1>1, <1>3 DEF q

Times == [decrease : Rate!Time, increase : Rate!Time, probe : Rate!Time, loss : Rate!Time]

\* A step keeps to the range, goes the way it was meant to, and is no probe.
LEMMA SteppedTo ==
    ASSUME Rate!RateInv, NEW kbps \in Nat, NEW which \in {"decrease", "increase"},
           NEW l \in Times, Rate!SetTo(kbps, which, l)
    PROVE  /\ v5' \in Rate!Least(v4) .. Rate!Most(v4)
           /\ kbps <= v5 => v5' <= v5
           /\ v5 <= kbps => v5 <= v5' /\ v5' <= kbps
           /\ v7' \in Times /\ v7'.probe = l.probe
<1>1. /\ v5 \in Rate!Least(v4) .. Rate!Most(v4) /\ v1 \in Nat
      /\ Rate!Least(v4) \in Nat /\ Rate!Most(v4) \in Nat
  BY SessionRange DEF Rate!RateInv
<1>2. v5' = Rate!Clamped(kbps, Rate!Least(v4), Rate!Most(v4))
  BY DEF Rate!SetTo
<1>3. v7' = l \/ v7' = [l EXCEPT ![which] = v1]
  BY DEF Rate!SetTo
<1>4. v7' \in Times /\ v7'.probe = l.probe
  BY <1>1, <1>3 DEF Times, Rate!Time
<1>5. v5' = Rate!MostOf(Rate!Least(v4), Rate!LeastOf(kbps, Rate!Most(v4)))
  BY <1>2 DEF Rate!Clamped
<1> QED BY <1>1, <1>4, <1>5 DEF Rate!MostOf, Rate!LeastOf

\* What a report makes of the target, the ceiling and the time of the last probe:
\* a cut, with the rate that queued for ceiling; a climb under the limit, or with no
\* ceiling known; a probe, which forgets the ceiling.
Outcome(t, c, p) ==
    \/ t <= v5 /\ c \in Nat /\ p = v7.probe
    \/ v5 <= t /\ c = v6 /\ p = v7.probe /\ (v6 # Rate!NoCeiling => t = v5 \/ t <= v10)
    \/ /\ v6 # Rate!NoCeiling /\ c = Rate!NoCeiling /\ p = v1
       /\ v7.probe # Rate!Never => v1 - v7.probe >= ProbeInterval

Moved ==
    /\ v5' \in Rate!Least(v4) .. Rate!Most(v4)
    /\ v7' \in Times
    /\ Outcome(v5', v6', v7'.probe)

LEMMA BackedOff ==
    ASSUME Rate!RateInv, NEW g \in Int, g > Steep, NEW l \in Times, l.probe = v7.probe,
           Rate!BackOff(g, l)
    PROVE  Moved
<1>1. v5 \in Nat /\ Steep \in Nat
  BY SessionRange, RateNumbers DEF Rate!RateInv
<1>2. 1000 + g \in Nat \ {0} /\ v5 * 1000 \in Nat /\ v5 * 900 \in Nat
  BY <1>1
<1>3. Rate!Estimate(g) \in Nat
  BY <1>2, WholeIntervals DEF Rate!Estimate
<1>4. Rate!UnderEstimate(g) \in Nat /\ Rate!UnderEstimate(g) <= v5
  <2>1. g \in Nat
    BY <1>1
  <2>2. v5 * g \in Nat
    BY <1>1, <2>1
  <2>3. v5 * (1000 + g) = v5 * 1000 + v5 * g
    BY <1>1, <2>1
  <2>4. v5 * 900 <= v5 * (1000 + g)
    BY <1>1, <2>2, <2>3
  <2> QED BY <1>1, <1>2, <2>4, DivAtMost DEF Rate!UnderEstimate
<1>5. v6' = Rate!LeastOf(v5, Rate!Estimate(g)) /\ Rate!SetTo(Rate!UnderEstimate(g), "decrease", l)
  BY DEF Rate!BackOff
<1>6. v6' \in Nat
  BY <1>1, <1>3, <1>5 DEF Rate!LeastOf
<1> QED BY <1>4, <1>5, <1>6, SteppedTo DEF Moved, Outcome

LEMMA CutByLoss ==
    ASSUME Rate!RateInv, NEW l \in Times, l.probe = v7.probe, Rate!CutForLoss(l)
    PROVE  Moved
<1>1. v5 \in Nat
  BY SessionRange DEF Rate!RateInv
<1>2. (v5 * 85) \div 100 \in Nat /\ (v5 * 85) \div 100 <= v5
  BY <1>1
<1>3. v6' = v5 /\ Rate!SetTo((v5 * 85) \div 100, "decrease", l)
  BY DEF Rate!CutForLoss
<1> QED BY <1>1, <1>2, <1>3, SteppedTo DEF Moved, Outcome

LEMMA Climbed ==
    ASSUME Rate!RateInv, NEW l \in Times, l.probe = v7.probe, Rate!Climb(l)
    PROVE  Moved
<1>1. /\ v5 \in Nat /\ v5 \in Rate!Least(v4) .. Rate!Most(v4) /\ v1 \in Nat
      /\ v6 \in Nat \cup {Rate!NoCeiling}
      /\ v6 # Rate!NoCeiling => v10 = Rate!Margin(v6)
      /\ v7 \in Times
  BY SessionRange DEF Rate!RateInv, Rate!Kbps, Times
<1>2. Rate!StepUp \in Nat /\ v5 <= Rate!StepUp
  BY <1>1 DEF Rate!StepUp
<1>3. CASE v6' = v6 /\ v5' = v5 /\ v7' = l
  BY <1>1, <1>3 DEF Moved, Outcome
<1>4. CASE v6' = v6 /\ Rate!SetTo(Rate!StepUp, "increase", l)
           /\ (v6 = Rate!NoCeiling \/ Rate!IsUnder)
  <2>1. v6 # Rate!NoCeiling => Rate!StepUp <= v10
    <3>1. ASSUME v6 \in Nat, v5 * 105 <= v6 * 95 PROVE (v5 * 105) \div 100 <= (v6 * 95) \div 100
      BY <1>1, <3>1
    <3> QED BY <1>1, <1>4, <3>1 DEF Rate!IsUnder, Rate!StepUp, Rate!Margin
  <2>2. /\ v5' \in Rate!Least(v4) .. Rate!Most(v4) /\ v5 <= v5' /\ v5' <= Rate!StepUp
        /\ v7' \in Times /\ v7'.probe = l.probe
    BY <1>2, <1>4, SteppedTo
  <2>3. v6 # Rate!NoCeiling => v5' <= v10
    <3>1. ASSUME v6 # Rate!NoCeiling PROVE v5' <= v10
      <4>1. v10 \in Nat
        BY <1>1, <3>1 DEF Rate!Margin
      <4>2. v5' \in Nat
        BY <2>2, SessionRange DEF Rate!RateInv
      <4> QED BY <1>2, <2>1, <2>2, <3>1, <4>1, <4>2
    <3> QED BY <3>1
  <2> QED BY <1>4, <2>2, <2>3 DEF Moved, Outcome
<1>5. CASE v6 # Rate!NoCeiling /\ Rate!ProbeIsDue(l) /\ v6' = Rate!NoCeiling
           /\ Rate!SetTo(Rate!StepUp, "increase", [l EXCEPT !.probe = v1])
  <2>1. PICK m : m = [l EXCEPT !.probe = v1]
    BY Zenon
  <2>2. m \in Times /\ m.probe = v1
    BY <1>1, <2>1 DEF Times, Rate!Time
  <2>3. v5' \in Rate!Least(v4) .. Rate!Most(v4) /\ v7' \in Times /\ v7'.probe = v1
    BY <1>2, <1>5, <2>1, <2>2, SteppedTo, Zenon
  <2>4. v7.probe # Rate!Never => v1 - v7.probe >= ProbeInterval
    BY <1>1, <1>5, RateNumbers DEF Rate!ProbeIsDue, Rate!Before, Times, Rate!Time
  <2> QED BY <1>5, <2>3, <2>4 DEF Moved, Outcome
<1> QED BY <1>3, <1>4, <1>5, Zenon DEF Rate!Climb

LEMMA FedBack ==
    ASSUME Rate!RateInv, NEW r, r.gradient \in Int, Rate!Feed(r)
    PROVE  Moved
<1>1. PICK w : w = Rate!Summed(r)
  OBVIOUS
<1>2. PICK l0 : l0 = IF v7.increase = Rate!Never THEN [v7 EXCEPT !.increase = v1] ELSE v7
  BY Zenon
<1>3. PICK l : l = IF Rate!IsLossy(w) THEN [l0 EXCEPT !.loss = v1] ELSE l0
  BY Zenon
<1>4. v7 \in Times /\ v1 \in Nat
  BY DEF Rate!RateInv, Times
<1>5. l0 \in Times /\ l0.probe = v7.probe
  BY <1>2, <1>4 DEF Times, Rate!Time
<1>6. l \in Times /\ l.probe = v7.probe
  BY <1>3, <1>4, <1>5 DEF Times, Rate!Time
<1>7. (CASE r.gradient > Steep -> Rate!BackOff(r.gradient, l)
         [] r.gradient <= Steep /\ Rate!IsLossy(w) -> Rate!CutForLoss(l)
         [] r.gradient < Flat /\ ~Rate!IsLossy(w) -> Rate!Climb(l)
         [] OTHER -> UNCHANGED <<v5, v6>> /\ v7' = l)
  BY <1>1, <1>2, <1>3, Zenon DEF Rate!Feed
<1>8. Steep \in Nat /\ Flat \in Nat /\ Flat <= Steep
  BY RateNumbers
<1>9. CASE r.gradient > Steep
  <2>1. ~ (r.gradient <= Steep) /\ ~ (r.gradient < Flat)
    BY <1>8, <1>9
  <2>2. Rate!BackOff(r.gradient, l)
    BY <1>7, <1>9, <2>1
  <2> QED BY <1>6, <1>9, <2>2, BackedOff
<1>10. CASE r.gradient <= Steep /\ Rate!IsLossy(w)
  <2>1. ~ (r.gradient > Steep)
    BY <1>8, <1>10
  <2>2. Rate!CutForLoss(l)
    BY <1>7, <1>10, <2>1
  <2> QED BY <1>6, <2>2, CutByLoss
<1>11. CASE r.gradient < Flat /\ ~Rate!IsLossy(w)
  <2>1. ~ (r.gradient > Steep)
    BY <1>8, <1>11
  <2>2. Rate!Climb(l)
    BY <1>7, <1>11, <2>1
  <2> QED BY <1>6, <2>2, Climbed
<1>12. CASE /\ ~ (r.gradient > Steep)
            /\ ~ (r.gradient <= Steep /\ Rate!IsLossy(w))
            /\ ~ (r.gradient < Flat /\ ~Rate!IsLossy(w))
  <2>1. v5' = v5 /\ v6' = v6 /\ v7' = l
    BY <1>7, <1>12
  <2>2. v5 \in Nat /\ v5 \in Rate!Least(v4) .. Rate!Most(v4)
    BY SessionRange DEF Rate!RateInv
  <2> QED BY <1>6, <2>1, <2>2 DEF Moved, Outcome
<1> QED BY <1>9, <1>10, <1>11, <1>12

LEMMA MarginIsARate == \A c \in Nat : Rate!Margin(c) \in Nat
BY DEF Rate!Margin

\* The target t with ceiling c and limit m, last past the limit by the probe x, and
\* the last probe p: what the invariant says of them, a move of them at time n, and
\* what the property notes of it.
Account(t, c, m, x, p) ==
    /\ t \in Nat /\ {c, m, x, p} \subseteq Nat \cup {-1}
    /\ c # -1 => m = Rate!Margin(c)
    /\ x # -1 => p # -1 /\ x <= p
    /\ (c = -1 /\ m # -1 /\ t <= m) => p # -1 /\ (x # -1 => p - x >= ProbeInterval)
MovesTo(t, c, m, p, n, t2, c2, p2) ==
    \/ t2 <= t /\ c2 \in Nat /\ p2 = p
    \/ t <= t2 /\ c2 = c /\ p2 = p /\ (c # -1 => t2 = t \/ t2 <= m)
    \/ c # -1 /\ c2 = -1 /\ p2 = n /\ (p # -1 => n - p >= ProbeInterval)
Passes(t, m, t2) == m # -1 /\ t <= m /\ t2 > m
NotedAs(t, m, x, t2, c2, p2, m2, x2) ==
    /\ m2 = IF c2 = -1 THEN m ELSE Rate!Margin(c2)
    /\ x2 = IF Passes(t, m, t2) THEN p2 ELSE x
EarnedBy(t, m, x, t2, p2) ==
    Passes(t, m, t2) => p2 # -1 /\ (x # -1 => p2 - x >= ProbeInterval)

LEMMA ProbesAreSpaced ==
    ASSUME NEW t, NEW c, NEW m, NEW x, NEW p, NEW n \in Nat, Account(t, c, m, x, p),
           NEW t2 \in Nat, NEW c2, NEW p2 \in Nat \cup {-1}, MovesTo(t, c, m, p, n, t2, c2, p2),
           NEW m2, NEW x2, NotedAs(t, m, x, t2, c2, p2, m2, x2)
    PROVE  Account(t2, c2, m2, x2, p2) /\ EarnedBy(t, m, x, t2, p2)
<1> DEFINE passed == Passes(t, m, t2)
<1>1. /\ ProbeInterval \in Nat \ {0}
      /\ t \in Nat /\ {c, m, x, p} \subseteq Nat \cup {-1}
      /\ c # -1 => m = Rate!Margin(c)
      /\ x # -1 => p # -1 /\ x <= p
      /\ (c = -1 /\ m # -1 /\ t <= m) => p # -1 /\ (x # -1 => p - x >= ProbeInterval)
  BY RateNumbers DEF Account
<1>2. /\ passed <=> m # -1 /\ t <= m /\ t2 > m
      /\ m2 = IF c2 = -1 THEN m ELSE Rate!Margin(c2)
      /\ x2 = IF passed THEN p2 ELSE x
  BY DEF NotedAs, Passes
<1>3. \/ t2 <= t /\ c2 \in Nat /\ p2 = p
      \/ t <= t2 /\ c2 = c /\ p2 = p /\ (c # -1 => t2 = t \/ t2 <= m)
      \/ c # -1 /\ c2 = -1 /\ p2 = n /\ (p # -1 => n - p >= ProbeInterval)
  BY DEF MovesTo
<1> HIDE DEF passed
<1>4. c2 \in Nat \cup {-1}
  BY <1>1, <1>3
<1>5. m2 \in Nat \cup {-1} /\ x2 \in Nat \cup {-1} /\ (c2 # -1 => m2 = Rate!Margin(c2))
  BY <1>1, <1>2, <1>4, MarginIsARate
<1>6. /\ x2 # -1 => p2 # -1 /\ x2 <= p2
      /\ (c2 = -1 /\ m2 # -1 /\ t2 <= m2) => p2 # -1 /\ (x2 # -1 => p2 - x2 >= ProbeInterval)
      /\ passed => p2 # -1 /\ (x # -1 => p2 - x >= ProbeInterval)
  <2>1. CASE t2 <= t /\ c2 \in Nat /\ p2 = p
    <3>1. ~passed
      BY <1>1, <1>2, <2>1
    <3> QED BY <1>1, <1>2, <2>1, <3>1
  <2>2. CASE t <= t2 /\ c2 = c /\ p2 = p /\ (c # -1 => t2 = t \/ t2 <= m)
    <3>1. CASE c = -1
      BY <1>1, <1>2, <2>2, <3>1
    <3>2. CASE c # -1
      <4>1. ~passed
        BY <1>1, <1>2, <2>2, <3>2
      <4> QED BY <1>1, <1>2, <2>2, <3>2, <4>1
    <3> QED BY <3>1, <3>2
  <2>3. CASE c # -1 /\ c2 = -1 /\ p2 = n /\ (p # -1 => n - p >= ProbeInterval)
    <3>1. m2 = m /\ (x # -1 => p2 - x >= ProbeInterval /\ x <= p2)
      BY <1>1, <1>2, <2>3
    <3> QED BY <1>1, <1>2, <2>3, <3>1
  <2> QED BY <1>3, <2>1, <2>2, <2>3
<1> QED BY <1>4, <1>5, <1>6 DEF Account, EarnedBy, passed

LEMMA RateKeptByReceive ==
    ASSUME Rate!RateInv, Rate!Receive
    PROVE  Rate!RateInv'
<1>1. PICK r \in v3 : /\ Rate!Feed(r)
                      /\ v3' \in IF Late THEN {v3, v3 \ {r}} ELSE {v3 \ {r}}
  BY DEF Rate!Receive
<1>2. r.gradient \in Int /\ (\A q \in v3' : q.gradient \in Int)
  BY <1>1 DEF Rate!RateInv
<1>3. /\ v5' \in Rate!Least(v4) .. Rate!Most(v4) /\ v7' \in Times
      /\ Outcome(v5', v6', v7'.probe)
  BY <1>1, <1>2, FedBack DEF Moved
<1>4. v1' = v1 /\ v4' = v4 /\ Rate!Noted
  BY DEF Rate!Receive
<1>5. PICK p, p0 : p = v7'.probe /\ p0 = v7.probe
  OBVIOUS
<1>6. /\ v1 \in Nat /\ v4 \in Asks /\ v5' \in Nat /\ ~v12
      /\ p \in Nat \cup {-1} /\ Account(v5, v6, v10, v11, p0)
  BY <1>3, <1>5, SessionRange
     DEF Rate!RateInv, Rate!Kbps, Rate!Time, Rate!NoCeiling, Rate!Never, Times, Account
<1>7. MovesTo(v5, v6, v10, p0, v1, v5', v6', p)
  BY <1>3, <1>5, Zenon DEF Outcome, MovesTo, Rate!NoCeiling, Rate!Never
<1>8. NotedAs(v5, v10, v11, v5', v6', p, v10', v11')
  BY <1>4, <1>5, Zenon DEF Rate!Noted, Rate!Passed, Rate!NoCeiling, NotedAs, Passes
<1>9. Account(v5', v6', v10', v11', p) /\ EarnedBy(v5, v10, v11, v5', p)
  BY <1>6, <1>7, <1>8, ProbesAreSpaced
<1>10. ~v12'
  <2>1. v12' = (v12 \/ (/\ Passes(v5, v10, v5')
                        /\ p = -1 \/ (v11 # -1 /\ p - v11 < ProbeInterval)))
    BY <1>4, <1>5, Zenon DEF Rate!Noted, Rate!Passed, Rate!NoCeiling, Rate!Never, Passes
  <2>2. v11 \in Nat \cup {-1} /\ ProbeInterval \in Nat
    BY <1>6, RateNumbers DEF Account
  <2>3. ~ (Passes(v5, v10, v5') /\ (p = -1 \/ (v11 # -1 /\ p - v11 < ProbeInterval)))
    BY <1>6, <1>9, <2>2 DEF EarnedBy
  <2> QED BY <1>6, <2>1, <2>3, Zenon
<1> QED BY <1>2, <1>3, <1>4, <1>5, <1>6, <1>9, <1>10
        DEF Rate!RateInv, Rate!Kbps, Rate!Time, Rate!NoCeiling, Rate!Never, Times, Account

LEMMA RateKept ==
    ASSUME Rate!RateInv, Rate!Next
    PROVE  Rate!RateInv'
<1>1. CASE Rate!Report
  <2>1. v1' \in Nat
    BY <1>1 DEF Rate!Report, Rate!RateInv
  <2>2. \A r \in v3' : r.gradient \in Int
    BY <1>1, RateNumbers DEF Rate!Report, Rate!RateInv
  <2> QED BY <1>1, <2>1, <2>2 DEF Rate!Report, Rate!RateInv, Rate!control
<1>2. CASE Rate!Lose
  BY <1>2 DEF Rate!Lose, Rate!RateInv, Rate!control
<1>3. CASE Rate!Receive
  BY <1>3, RateKeptByReceive
<1> QED BY <1>1, <1>2, <1>3 DEF Rate!Next

LEMMA RateSafe == Rate!RateInv => Rate!TargetIsAllowed /\ Rate!ProbesAreSlow
<1> SUFFICES ASSUME Rate!RateInv PROVE Rate!TargetIsAllowed /\ Rate!ProbesAreSlow
  OBVIOUS
<1>1. v4 \in Asks /\ v5 \in Rate!Least(v4) .. Rate!Most(v4) /\ ~v12
  BY DEF Rate!RateInv
<1>2. /\ Rate!Least(v4) \in Nat /\ Rate!Most(v4) \in Nat
      /\ Rate!Most(v4) <= Rate!MostOf(Rate!Cap(v4), Floor)
  BY <1>1, SessionRange
<1>3. Rate!MostOf(Rate!Cap(v4), Floor) \in Nat
  <2>1. Floor \in Nat /\ v4.ceiling \in Nat /\ v4.hint \in Nat /\ v4.client \in Nat
    BY <1>1, RateNumbers
  <2> QED BY <2>1 DEF Rate!Cap, Rate!LeastOf, Rate!MostOf
<1> QED BY <1>1, <1>2, <1>3 DEF Rate!TargetIsAllowed, Rate!ProbesAreSlow

-----------------------------------------------------------------------------
(* CapturePath.  v1 session, v2 desktop, v3 capture, v4 spine, v5 color,   *)
(* v6 state, v7 reading, v8 contexts, v9 encoding, v10 told, v11 sent,     *)
(* v12 changes, v13 failures, v14 builds.                                  *)

\* Dropping the spine and then the capture leaves no context of theirs.
LEMMA NothingLeft ==
    ASSUME v8 = Cap!ContextsMade
    PROVE  /\ Cap!TornDown(v8) = <<>>
           /\ v3.kind = "nvfbc" => Cap!SpineDropped(v8) = <<v3.id>>
           /\ v3.kind # "nvfbc" => v8 = <<>>
<1>1. PICK id : id = v3.id
  OBVIOUS
<1>2. Cap!Without(<<id, id>>, id) = <<id>> /\ Cap!Without(<<id>>, id) = <<>>
  <2>1. SubSeq(<<id, id>>, 1, Len(<<id, id>>) - 1) = <<id>> /\ <<id, id>>[Len(<<id, id>>)] = id
    <3>1. Len(<<id, id>>) = 2 /\ Len(<<id>>) = 1 /\ <<id, id>> \in Seq({id})
      OBVIOUS
    <3>2. SubSeq(<<id, id>>, 1, 1) = <<id>>
      <4>1. PICK t : t = SubSeq(<<id, id>>, 1, 1)
        BY Zenon
      <4>2. t \in Seq({id}) /\ Len(t) = 1 /\ t[1] = id
        BY <3>1, <4>1
      <4>3. t = <<id>>
        BY <4>2
      <4> QED BY <4>1, <4>3, Zenon
    <3> QED BY <3>1, <3>2
  <2>2. SubSeq(<<id>>, 1, Len(<<id>>) - 1) = <<>> /\ <<id>>[Len(<<id>>)] = id
    OBVIOUS
  <2>3. <<id, id>> # <<>> /\ <<id>> # <<>>
    OBVIOUS
  <2> QED BY <2>1, <2>2, <2>3, Zenon DEF Cap!Without
<1>3. Cap!Without(<<>>, id) = <<>>
  BY DEF Cap!Without
<1>4. CASE v3.kind # "nvfbc"
  <2>1. v8 = <<>>
    BY <1>4 DEF Cap!ContextsMade
  <2>2. Cap!SpineDropped(v8) = <<>>
    BY <1>1, <1>3, <2>1 DEF Cap!SpineDropped
  <2> QED BY <1>4, <2>1, <2>2 DEF Cap!TornDown, Cap!CaptureDropped
<1>5. CASE v3.kind = "nvfbc"
  <2>1. Cap!SpineDropped(v8) = <<id>>
    BY <1>1, <1>2, <1>5 DEF Cap!SpineDropped, Cap!ContextsMade
  <2> QED BY <1>1, <1>2, <1>5, <2>1 DEF Cap!TornDown, Cap!CaptureDropped
<1> QED BY <1>4, <1>5

\* A capture built on an empty stack has its own context on it, if it has one.
LEMMA Built ==
    ASSUME Cap!Build(<<>>)
    PROVE  /\ v3' # Cap!None /\ v3'.kind \in {"nvfbc", "dda", "wgc"}
           /\ v8' = IF v3'.kind = "nvfbc" THEN <<v3'.id>> ELSE <<>>
<1>1. PICK i \in 1 .. Len(Cap!Order(v1)) :
        /\ v3' = Cap!BackendNew(Cap!Order(v1)[i])
        /\ v8' = IF Cap!Order(v1)[i] = "nvfbc" THEN Append(<<>>, v14 + 1) ELSE <<>>
  BY DEF Cap!Build
<1>2. Cap!Order(v1)[i] \in {"nvfbc", "dda", "wgc"}
  BY DEF Cap!Order, Cap!D3dOrder
<1>3. PICK kind : kind = Cap!Order(v1)[i]
  OBVIOUS
<1>4. v3' = Cap!BackendNew(kind) /\ kind \in {"nvfbc", "dda", "wgc"}
      /\ v8' = IF kind = "nvfbc" THEN <<v14 + 1>> ELSE <<>>
  BY <1>1, <1>2, <1>3
<1>5. CASE kind = "nvfbc"
  BY <1>4, <1>5 DEF Cap!BackendNew, Cap!NvFbcNew, Cap!None
<1>6. CASE kind = "dda"
  BY <1>4, <1>6 DEF Cap!BackendNew, Cap!DdaNew, Cap!None
<1>7. CASE kind = "wgc"
  BY <1>4, <1>7 DEF Cap!BackendNew, Cap!WgcNew, Cap!None
<1> QED BY <1>4, <1>5, <1>6, <1>7

\* What a spine made for a frame is: metadata comes with HDR10 only.
LEMMA SpineMade ==
    ASSUME NEW frame, v1.hdr => v1.codec # "h264",
           NEW s, s = Cap!SpineOf(frame)
    PROVE  /\ s # Cap!None
           /\ s.kind = IF frame.kind = "cuda" THEN "cuda" ELSE "d3d11"
           /\ s.target.output = Cap!Output(frame)
           /\ s.target.size = s.encoder.size
           /\ s.encoder.preset.metadata => Cap!ColorInfo(s) = "hdr10"
<1>1. PICK e : e = Cap!InitParams(Cap!Config(frame))
  OBVIOUS
<1>2. /\ e.size = frame.size /\ e.preset.vui = Cap!Vui(Cap!Output(frame))
      /\ e.preset.metadata = (Cap!HdrOut(frame) /\ v3.mastering)
  BY <1>1 DEF Cap!InitParams, Cap!Preset, Cap!Config
<1>3. /\ s # Cap!None
      /\ s.kind = IF frame.kind = "cuda" THEN "cuda" ELSE "d3d11"
      /\ s.target = Cap!Target(frame) /\ s.encoder = e
  BY <1>1 DEF Cap!SpineOf, Cap!CudaSpine, Cap!D3dSpine, Cap!None
<1>4. s.target.output = Cap!Output(frame) /\ s.target.size = frame.size
  BY <1>3 DEF Cap!Target
<1>5. e.preset.metadata => e.preset.vui = "bt2020pq" /\ v1.codec # "h264"
  BY <1>2, Zenon DEF Cap!HdrOut, Cap!Output, Cap!Vui
<1>6. e.preset.metadata => Cap!ColorInfo(s) = "hdr10"
  BY <1>3, <1>5 DEF Cap!ColorInfo
<1> QED BY <1>2, <1>3, <1>4, <1>6

LEMMA PathStart == Cap!Init => Cap!PathInv
BY DEF Cap!Init, Cap!PathInv, Cap!ContextsMade, Cap!SentAsTold, Cap!None

LEMMA PathKeptByStart ==
    ASSUME Cap!PathInv, Cap!Start
    PROVE  Cap!PathInv'
<1>1. v6 = "start" /\ v3 = Cap!None /\ v4 = Cap!None /\ v8 = Cap!ContextsMade /\ ~v7
  BY DEF Cap!Start, Cap!PathInv
<1>2. v8 = <<>>
  BY <1>1 DEF Cap!ContextsMade, Cap!None
<1>3. /\ v3' # Cap!None /\ v3'.kind \in {"nvfbc", "dda", "wgc"}
      /\ v8' = IF v3'.kind = "nvfbc" THEN <<v3'.id>> ELSE <<>>
  BY <1>2, Built DEF Cap!Start
<1>4. v4.kind = "none"
  BY <1>1 DEF Cap!None
<1>5. v8' = Cap!ContextsMade'
  BY <1>3, <1>4 DEF Cap!ContextsMade, Cap!Start
<1> QED BY <1>1, <1>5 DEF Cap!PathInv, Cap!Start, Cap!SentAsTold, Cap!ColorInfo

LEMMA PathKeptByAccessLost ==
    ASSUME Cap!PathInv, Cap!AccessLost
    PROVE  Cap!PathInv'
<1>1. v6 = "top" /\ v8 = Cap!ContextsMade /\ ~v7 /\ v4' = Cap!None
  BY DEF Cap!AccessLost, Cap!PathInv
<1>2. Cap!TornDown(v8) = <<>>
  BY <1>1, NothingLeft
<1>3. /\ v3' # Cap!None /\ v3'.kind \in {"nvfbc", "dda", "wgc"}
      /\ v8' = IF v3'.kind = "nvfbc" THEN <<v3'.id>> ELSE <<>>
  BY <1>2, Built DEF Cap!AccessLost
<1>4. v4'.kind = "none"
  BY <1>1 DEF Cap!None
<1>5. v8' = Cap!ContextsMade'
  BY <1>3, <1>4 DEF Cap!ContextsMade
<1>6. v9'.id = v9.id /\ v9'.key
  <2>1. v9' = [v9 EXCEPT !.key = TRUE]
    BY DEF Cap!AccessLost
  <2> QED BY <2>1
<1> QED BY <1>1, <1>5, <1>6, Zenon DEF Cap!PathInv, Cap!AccessLost, Cap!SentAsTold

LEMMA PathKeptByEnd ==
    ASSUME Cap!PathInv, Cap!End
    PROVE  Cap!PathInv'
<1>1. v8 = Cap!ContextsMade /\ v4' = Cap!None /\ v3' = Cap!None
  BY DEF Cap!End, Cap!PathInv
<1>2. v8' = <<>>
  BY <1>1, NothingLeft DEF Cap!End
<1>3. v8' = Cap!ContextsMade'
  BY <1>1, <1>2 DEF Cap!ContextsMade, Cap!None
<1> QED BY <1>1, <1>3 DEF Cap!PathInv, Cap!End, Cap!SentAsTold

\* The picture of the spine is what the client was last told, and takes the keyframe owed.
LEMMA PathKeptByPicture ==
    ASSUME Cap!PathInv, v4 # Cap!None, v6' = "top", ~v7',
           v11' = Cap!Picture, v9' = [key |-> FALSE, id |-> v9.id + 1],
           UNCHANGED <<v1, v3, v4, v5, v8, v10>>, v6 \in {"top", "converted"}
    PROVE  Cap!PathInv'
<1>1. /\ v9.id \in Nat /\ v8 = Cap!ContextsMade
      /\ v4.kind = IF v3.kind = "nvfbc" THEN "cuda" ELSE "d3d11"
      /\ v10 # Cap!None /\ v4.target.size = v10.size
      /\ v4.encoder.preset.metadata = v10.mastering
      /\ v10.first \in Nat /\ v10.first <= v9.id /\ (v9.id = v10.first => v9.key)
      /\ v10.mastering => v10.color = "hdr10"
      /\ Cap!ColorInfo(v4) = v10.color /\ v4.target.output = v5
      /\ v1 \in [codec : Codec, hdr : BOOLEAN, nvfbc : BOOLEAN, win11 : BOOLEAN]
      /\ v1.hdr => v1.codec # "h264"
  BY DEF Cap!PathInv, Cap!SentAsTold
<1>2. /\ v11' # Cap!None /\ v11'.id = v9.id /\ v11'.key = v9.key
      /\ <<v11'.color, v11'.size, v11'.mastering>> = <<v10.color, v10.size, v10.mastering>>
  BY <1>1 DEF Cap!Picture, Cap!None
<1>3. v9'.id = v9.id + 1 /\ v9'.id \in Nat /\ v10.first < v9'.id /\ v11'.id < v9'.id
  BY <1>1, <1>2
<1>4. Cap!ContextsMade' = Cap!ContextsMade
  BY DEF Cap!ContextsMade
<1>5. Cap!ColorInfo(v4)' = Cap!ColorInfo(v4)
  BY DEF Cap!ColorInfo
<1>6. Cap!SentAsTold'
  BY <1>1, <1>2, <1>5 DEF Cap!SentAsTold
<1> QED BY <1>1, <1>2, <1>3, <1>4, <1>6 DEF Cap!PathInv

LEMMA PathKeptByConvert ==
    ASSUME Cap!PathInv, Cap!Convert
    PROVE  Cap!PathInv'
<1>1. PICK frame : frame = Cap!Grabbed
  OBVIOUS
<1>2. /\ v6 = "top" /\ ~v7 /\ v8 = Cap!ContextsMade
      /\ UNCHANGED <<v1, v3, v11>> /\ v6' = "converted"
      /\ v5' = Cap!Output(frame)
      /\ v1.hdr => v1.codec # "h264"
  BY <1>1 DEF Cap!Convert, Cap!PathInv
<1>3. frame.kind = IF v3.kind = "nvfbc" THEN "cuda" ELSE "d3d11"
  BY <1>1 DEF Cap!Grabbed, Cap!NvFbcFrame, Cap!DdaFrame, Cap!WgcFrame
<1>4. CASE Cap!Kept(frame)
  <2>1. UNCHANGED <<v4, v8, v9, v10>>
    BY <1>1, <1>4, Zenon DEF Cap!Convert
  <2>2. v5' = v5 /\ v4 # Cap!None
    BY <1>2, <1>3, <1>4 DEF Cap!Kept, Cap!ColourChanged, Cap!None
  <2>3. Cap!ContextsMade' = Cap!ContextsMade
    BY <1>2, <2>1 DEF Cap!ContextsMade
  <2>4. Cap!SentAsTold'
    BY <1>2, <2>1, <2>2 DEF Cap!SentAsTold, Cap!PathInv, Cap!ColorInfo
  <2> QED BY <1>2, <2>1, <2>2, <2>3, <2>4 DEF Cap!PathInv
<1>5. CASE ~Cap!Kept(frame)
  <2>1. PICK spine : spine = Cap!SpineOf(frame)
    OBVIOUS
  <2>2. PICK below : below = IF Cap!ColourChanged(Cap!Output(frame))
                               THEN Cap!SpineDropped(v8) ELSE v8
    OBVIOUS
  <2>3. /\ v4' = spine /\ v10' = Cap!Headers(spine)
        /\ v8' = IF frame.kind = "cuda" THEN Append(below, v3.id) ELSE below
        /\ v9' = [v9 EXCEPT !.key = v9.key \/ TRUE]
    BY <1>1, <1>5, <2>1, <2>2, Zenon DEF Cap!Convert, Cap!OwedByBuild
  <2>4. /\ spine # Cap!None
        /\ spine.kind = IF frame.kind = "cuda" THEN "cuda" ELSE "d3d11"
        /\ spine.target.output = v5' /\ spine.target.size = spine.encoder.size
        /\ spine.encoder.preset.metadata => Cap!ColorInfo(spine) = "hdr10"
    BY <1>2, <2>1, SpineMade
  <2>5. /\ v10' # Cap!None /\ v10'.color = Cap!ColorInfo(spine)
        /\ v10'.size = spine.encoder.size
        /\ v10'.mastering = spine.encoder.preset.metadata /\ v10'.first = v9.id
    BY <2>3 DEF Cap!Headers, Cap!None
  <2>6. v9'.id = v9.id /\ v9.id \in Nat /\ v9'.key
        /\ v9' \in [key : BOOLEAN, id : Nat]
    <3>1. v9 \in [key : BOOLEAN, id : Nat] /\ v9' = [v9 EXCEPT !.key = TRUE]
      BY <2>3, Zenon DEF Cap!PathInv
    <3> QED BY <3>1, Zenon
  <2>7. v8' = Cap!ContextsMade'
    <3>1. CASE v3.kind = "nvfbc"
      <4>1. below = <<v3.id>>
        <5>1. CASE Cap!ColourChanged(Cap!Output(frame))
          BY <1>2, <2>2, <3>1, <5>1, NothingLeft
        <5>2. CASE ~Cap!ColourChanged(Cap!Output(frame))
          <6>1. v4.kind # "cuda"
            BY <1>3, <1>5, <3>1, <5>2 DEF Cap!Kept
          <6> QED BY <1>2, <2>2, <3>1, <5>2, <6>1 DEF Cap!ContextsMade
        <5> QED BY <5>1, <5>2
      <4>2. v8' = <<v3.id, v3.id>>
        <5>1. \A id : Append(<<id>>, id) = <<id, id>>
          <6> TAKE id
          <6>1. PICK t : t = Append(<<id>>, id)
            BY Zenon
          <6>2. Len(<<id>>) = 1 /\ <<id>> \in Seq({id}) /\ <<id>>[1] = id
            OBVIOUS
          <6>3. t \in Seq({id}) /\ Len(t) = 2 /\ t[1] = id /\ t[2] = id
            BY <6>1, <6>2
          <6>4. t = <<id, id>>
            BY <6>3
          <6> QED BY <6>1, <6>4, Zenon
        <5> QED BY <1>3, <2>3, <3>1, <4>1, <5>1
      <4> QED BY <1>2, <1>3, <2>3, <2>4, <3>1, <4>2, Zenon DEF Cap!ContextsMade
    <3>2. CASE v3.kind # "nvfbc"
      <4>1. v8 = <<>> /\ (v4 # Cap!None => v4.kind = "d3d11")
        BY <1>2, <3>2 DEF Cap!ContextsMade, Cap!PathInv
      <4>2. v4.kind # "cuda"
        BY <4>1 DEF Cap!None
      <4>3. below = <<>>
        BY <2>2, <4>1, <4>2 DEF Cap!SpineDropped
      <4> QED BY <1>2, <1>3, <2>3, <3>2, <4>3 DEF Cap!ContextsMade
    <3> QED BY <3>1, <3>2
  <2>8. v11 # Cap!None => v11.id \in Nat /\ v11.id < v9.id
    BY DEF Cap!PathInv
  <2>9. Cap!ColorInfo(v4)' = Cap!ColorInfo(spine)
    BY <1>2, <2>3 DEF Cap!ColorInfo
  <2>10. Cap!SentAsTold'
    BY <1>2, <2>3, <2>4, <2>5, <2>6, <2>8, <2>9 DEF Cap!SentAsTold
  <2> QED BY <1>2, <1>3, <2>3, <2>4, <2>5, <2>6, <2>7, <2>8, <2>10 DEF Cap!PathInv
<1> QED BY <1>4, <1>5

LEMMA PathKept ==
    ASSUME Cap!PathInv, Cap!Next
    PROVE  Cap!PathInv'
<1>1. CASE Cap!Start
  BY <1>1, PathKeptByStart
<1>2. CASE Cap!DesktopChanges
  <2>1. UNCHANGED <<v1, v3, v4, v5, v6, v7, v8, v9, v10, v11>>
    BY <1>2 DEF Cap!DesktopChanges
  <2> QED BY <2>1 DEF Cap!PathInv, Cap!SentAsTold, Cap!ContextsMade, Cap!ColorInfo
<1>3. CASE Cap!Convert
  BY <1>3, PathKeptByConvert
<1>4. CASE Cap!Encode
  <2>1. v4 # Cap!None /\ v6 = "converted"
    BY <1>4 DEF Cap!Encode, Cap!PathInv
  <2> QED BY <1>4, <2>1, PathKeptByPicture DEF Cap!Encode
<1>5. CASE Cap!Hold
  <2>1. UNCHANGED <<v1, v3, v4, v5, v8, v9, v10, v11>> /\ v6' = "top" /\ ~v7' /\ v6 = "converted"
    BY <1>5 DEF Cap!Hold, Cap!WaitIdle
  <2> QED BY <2>1 DEF Cap!PathInv, Cap!SentAsTold, Cap!ContextsMade, Cap!ColorInfo
<1>6. CASE Cap!EncodeKept
  BY <1>6, PathKeptByPicture DEF Cap!EncodeKept
<1>7. CASE Cap!AccessLost
  BY <1>7, PathKeptByAccessLost
<1>8. CASE Cap!Unavailable
  <2>1. UNCHANGED <<v1, v3, v4, v5, v6, v7, v8, v10, v11>>
        /\ v9' = [v9 EXCEPT !.key = TRUE]
    BY <1>8 DEF Cap!Unavailable
  <2>2. v9'.id = v9.id /\ v9'.key
    BY <2>1
  <2> QED BY <2>1, <2>2, Zenon
     DEF Cap!PathInv, Cap!SentAsTold, Cap!ContextsMade, Cap!ColorInfo
<1>9. CASE Cap!End
  BY <1>9, PathKeptByEnd
<1> QED BY <1>1, <1>2, <1>3, <1>4, <1>5, <1>6, <1>7, <1>8, <1>9 DEF Cap!Next

LEMMA PathSafe ==
    Cap!PathInv => Cap!SentAsTold /\ Cap!NoReadAfterRelease /\ Cap!ContextsAreBalanced
<1> SUFFICES ASSUME Cap!PathInv
             PROVE  Cap!SentAsTold /\ Cap!NoReadAfterRelease /\ Cap!ContextsAreBalanced
  OBVIOUS
<1>1. Cap!SentAsTold
  BY DEF Cap!PathInv
<1>2. Cap!NoReadAfterRelease
  BY DEF Cap!PathInv, Cap!NoReadAfterRelease
<1>3. v8 \in {<<>>, <<v3.id>>, <<v3.id, v3.id>>}
  BY DEF Cap!PathInv, Cap!ContextsMade
<1>4. v6 = "ended" => v8 = <<>>
  BY DEF Cap!PathInv, Cap!ContextsMade, Cap!None
<1>5. Cap!ContextsAreBalanced
  <2>1. PICK id : id = v3.id
    OBVIOUS
  <2>2. Len(v8) <= 2 /\ \A i \in DOMAIN v8 : v8[i] = id
    <3>1. CASE v8 = <<>>
      BY <3>1
    <3>2. CASE v8 = <<id>>
      BY <3>2
    <3>3. CASE v8 = <<id, id>>
      BY <3>3
    <3> QED BY <1>3, <2>1, <3>1, <3>2, <3>3
  <2> QED BY <1>4, <2>1, <2>2 DEF Cap!ContextsAreBalanced
<1> QED BY <1>1, <1>2, <1>5

-----------------------------------------------------------------------------
(* Rings.  v1 tail, v2 head, v3 slots, v4 producer, v5 consumer,           *)
(* v6 offered, v7 accepted, v8 taken.                                      *)

LEMMA RingNumbers ==
    /\ RingSlots \in Nat \ {0} /\ IndexWrap \in Nat \ {0} /\ MaxItems \in Nat
    /\ IndexWrap % RingSlots = 0 /\ RingSlots < IndexWrap /\ Batch \in Nat
BY RingAssumption DEF Ring!RingBounds

\* The slot n past an index is that of the item n past the one it stands for.
LEMMA SlotPast ==
    ASSUME NEW a \in Nat, NEW n \in Nat
    PROVE  /\ Ring!Plus(a % IndexWrap, n) = (a + n) % IndexWrap
           /\ Ring!Slot(Ring!Plus(a % IndexWrap, n)) = Ring!Slot(a + n)
           /\ Ring!Slot(a + n) \in 0 .. RingSlots - 1
<1>1. PICK m \in Int : m = a + n
  OBVIOUS
<1>2. ((a % IndexWrap) + n) % IndexWrap = m % IndexWrap
  <2>1. IndexWrap \in Nat \ {0} /\ a \in Int /\ n \in Int
    BY RingNumbers
  <2>2. ((a % IndexWrap) + n) % IndexWrap = (a + n) % IndexWrap
    BY <2>1, PlusOnCircle, Zenon
  <2> QED BY <1>1, <2>2
<1>3. (m % IndexWrap) % RingSlots = m % RingSlots
  BY RingNumbers, CircleInCircle, Zenon
<1>4. m % RingSlots \in 0 .. RingSlots - 1
  BY RingNumbers, QuotientAndRest
<1> QED BY <1>1, <1>2, <1>3, <1>4 DEF Ring!Plus, Ring!Slot

\* Items less than the capacity apart have slots of their own.
LEMMA SlotsApart ==
    ASSUME NEW a \in Nat, NEW b \in Nat, a < b, b - a < RingSlots
    PROVE  Ring!Slot(a) # Ring!Slot(b)
<1>1. a - b < RingSlots /\ a # b /\ a \in Int /\ b \in Int
  BY RingNumbers
<1> QED BY <1>1, RingNumbers, ApartOnCircle DEF Ring!Slot

LEMMA AheadIs ==
    ASSUME NEW a \in Nat, NEW b \in Nat, b <= a, a - b < IndexWrap
    PROVE  Ring!Ahead(a % IndexWrap, b % IndexWrap) = a - b
<1>1. IndexWrap \in Nat \ {0} /\ a \in Int /\ b \in Int /\ b <= a /\ a - b < IndexWrap
  BY RingNumbers
<1>2. ((a % IndexWrap) + IndexWrap - (b % IndexWrap)) % IndexWrap = a - b
  BY <1>1, AheadOnCircle, Zenon
<1> QED BY <1>2, Zenon DEF Ring!Ahead

\* What is read of an index is where it once was, no earlier than last time.
LEMMA SeenLater ==
    ASSUME NEW p \in Nat, NEW g \in Nat, p <= g, g - p < IndexWrap,
           NEW c \in Ring!Visible(p % IndexWrap, g % IndexWrap)
    PROVE  \E q \in p .. g : q % IndexWrap = c
<1>1. c \in 0 .. IndexWrap - 1
  BY DEF Ring!Visible, Ring!Counter
<1>2. PICK d : d = Ring!Ahead(c, p % IndexWrap)
  OBVIOUS
<1>3. d \in 0 .. IndexWrap - 1 /\ (p + d) % IndexWrap = c
  BY <1>1, <1>2, RingNumbers, ReachOnCircle DEF Ring!Ahead
<1>4. Ring!Ahead(g % IndexWrap, p % IndexWrap) = g - p
  BY AheadIs
<1>5. d <= g - p
  BY <1>2, <1>4 DEF Ring!Visible
<1>6. p + d \in p .. g
  BY <1>3, <1>5
<1> QED BY <1>3, <1>6

\* The producer takes in no more than there is room for, whatever it sees.
LEMMA RoomSeen ==
    ASSUME NEW seen, NEW g \in Nat, NEW a \in Nat, g <= a, Ring!HasRoom(seen, g, a),
           NEW c \in Ring!Visible(seen, g % IndexWrap), NEW n \in Nat,
           NEW todo, todo = Ring!Least(n, RingSlots - Ring!Ahead(a % IndexWrap, c))
    PROVE  todo \in Nat /\ todo <= n /\ Ring!HasRoom(c, g, a + todo)
<1>1. PICK p \in 0 .. g : p % IndexWrap = seen /\ a <= p + RingSlots
  BY DEF Ring!HasRoom
<1>2. p \in Nat /\ p <= g /\ g - p < IndexWrap
  BY <1>1, RingNumbers
<1>3. PICK q \in p .. g : q % IndexWrap = c
  BY <1>1, <1>2, SeenLater
<1>4. q \in 0 .. g /\ q <= a /\ a - q < IndexWrap /\ a - q <= RingSlots
  BY <1>1, <1>2, <1>3, RingNumbers
<1>5. Ring!Ahead(a % IndexWrap, c) = a - q
  <2>1. q \in Nat
    BY <1>4
  <2> QED BY <1>3, <1>4, <2>1, AheadIs
<1>6. todo = IF n < RingSlots - (a - q) THEN n ELSE RingSlots - (a - q)
  BY <1>5 DEF Ring!Least
<1>7. todo \in Nat /\ todo <= n /\ a + todo <= q + RingSlots
  BY <1>4, <1>6, RingNumbers
<1> QED BY <1>3, <1>4, <1>7 DEF Ring!HasRoom

\* And the consumer no more than is published.
LEMMA ItemsSeen ==
    ASSUME NEW seen, NEW g \in Nat, NEW a \in Nat, a - g < IndexWrap, Ring!HasItems(seen, a, g),
           NEW c \in Ring!Visible(seen, a % IndexWrap), NEW n \in Nat,
           NEW todo, todo = Ring!Least(n, Ring!Ahead(c, g % IndexWrap))
    PROVE  todo \in Nat /\ Ring!HasItems(c, a, g + todo)
<1>1. PICK p \in 0 .. a : p % IndexWrap = seen /\ g <= p
  BY DEF Ring!HasItems
<1>2. p \in Nat /\ p <= a /\ a - p < IndexWrap
  BY <1>1, RingNumbers
<1>3. PICK q \in p .. a : q % IndexWrap = c
  BY <1>1, <1>2, SeenLater
<1>4. q \in 0 .. a /\ g <= q /\ q - g < IndexWrap
  BY <1>1, <1>2, <1>3, RingNumbers
<1>5. Ring!Ahead(c, g % IndexWrap) = q - g
  <2>1. q \in Nat
    BY <1>4
  <2> QED BY <1>3, <1>4, <2>1, AheadIs
<1>6. todo = IF n < q - g THEN n ELSE q - g
  BY <1>5 DEF Ring!Least
<1>7. todo \in Nat /\ g + todo <= q
  BY <1>4, <1>6
<1> QED BY <1>3, <1>4, <1>7 DEF Ring!HasItems

\* The numbers of a ring.
LEMMA RingCounts ==
    ASSUME Ring!RingInv
    PROVE  /\ Len(v7) \in Nat /\ Len(v8) \in Nat /\ Ring!Gone \in Nat
           /\ Ring!Gone = Len(v8) - v5.done
           /\ v4.todo \in Nat /\ v4.done \in Nat /\ v5.todo \in Nat /\ v5.done \in Nat
           /\ Ring!Gone <= Len(v8) /\ Len(v8) <= Len(v7)
           /\ (Len(v7) + v4.todo) - Ring!Gone <= RingSlots
           /\ Len(v7) - Ring!Gone < IndexWrap
           /\ Ring!Gone + v5.todo <= Len(v7)
<1>1. /\ v7 \in Seq(Nat) /\ v8 \in Seq(Nat) /\ Ring!Gone \in Nat /\ Len(v8) <= Len(v7)
      /\ v4.todo \in Nat /\ v4.done \in Nat /\ v5.todo \in Nat /\ v5.done \in Nat
  BY DEF Ring!RingInv, Ring!IsThread, Ring!NothingTornOrLost
<1>2. Len(v7) \in Nat /\ Len(v8) \in Nat
  BY <1>1
<1>3. PICK p \in 0 .. Ring!Gone : Len(v7) + v4.todo <= p + RingSlots
  BY DEF Ring!RingInv, Ring!HasRoom
<1>4. PICK c \in 0 .. Len(v7) : Ring!Gone + v5.todo <= c
  BY DEF Ring!RingInv, Ring!HasItems
<1>5. PICK g \in Nat, n \in Nat, m \in Nat, x \in Nat, y \in Nat :
        g = Ring!Gone /\ n = Len(v7) /\ m = Len(v8) /\ x = v4.todo /\ y = v5.todo
  BY <1>1, <1>2, Zenon
<1>6. g = m - v5.done /\ g <= m
  BY <1>1, <1>5 DEF Ring!Gone
<1>9. p \in 0 .. g /\ c \in 0 .. n /\ n + x <= p + RingSlots /\ g + y <= c
  BY <1>3, <1>4, <1>5
<1>7. p <= g /\ g + y <= n
  BY <1>5, <1>9
<1>8. (n + x) - g <= RingSlots /\ n - g < IndexWrap
  BY <1>5, <1>7, <1>9, RingNumbers
<1> QED BY <1>1, <1>5, <1>6, <1>7, <1>8

LEMMA RingStart == Ring!Init => Ring!RingInv
<1> SUFFICES ASSUME Ring!Init PROVE Ring!RingInv
  OBVIOUS
<1>1. /\ v1 = 0 /\ v2 = 0 /\ v6 = 0 /\ v7 = <<>> /\ v8 = <<>>
      /\ v3 = [i \in 0 .. RingSlots - 1 |-> 0]
      /\ v4 = Ring!Resting(0) /\ v5 = Ring!Resting(0)
  BY DEF Ring!Init, Ring!Empty
<1>2. 0 % IndexWrap = 0
  BY RingNumbers
<1>3. /\ Ring!IsThread(v4) /\ Ring!IsThread(v5)
      /\ v4.todo = 0 /\ v4.seen = 0 /\ v5.todo = 0 /\ v5.seen = 0 /\ v5.done = 0 /\ ~v5.open
      /\ v4.done = 0
  BY <1>1, RingNumbers DEF Ring!IsThread, Ring!Resting, Ring!Empty, Ring!Counter
<1>4. Len(v7) = 0 /\ Len(v8) = 0 /\ v7 \in Seq(Nat) /\ v8 \in Seq(Nat)
  BY <1>1
<1>5. Ring!Gone = 0
  BY <1>3, <1>4 DEF Ring!Gone
<1>6. Ring!HasRoom(v4.seen, Ring!Gone, Len(v7) + v4.todo)
  BY <1>2, <1>3, <1>4, <1>5, RingNumbers DEF Ring!HasRoom
<1>7. Ring!HasItems(v5.seen, Len(v7), Ring!Gone + v5.todo)
  BY <1>2, <1>3, <1>4, <1>5 DEF Ring!HasItems
<1>8. Ring!NothingTornOrLost
  <2>1. Ring!Ahead(v1, v2) = 0
    BY <1>1, RingNumbers, AheadOnCircle, <1>2 DEF Ring!Ahead
  <2>2. v8 = SubSeq(v7, 1, Len(v8))
    BY <1>1, <1>4
  <2> QED BY <1>4, <2>1, <2>2 DEF Ring!NothingTornOrLost
<1>9. v3 \in [0 .. RingSlots - 1 -> Nat]
  BY <1>1
<1> QED BY <1>1, <1>2, <1>3, <1>4, <1>5, <1>6, <1>7, <1>8, <1>9 DEF Ring!RingInv

LEMMA RingKeptByBeginPush ==
    ASSUME Ring!RingInv, Ring!BeginPush
    PROVE  Ring!RingInv'
<1>1. PICK n \in 1 .. Batch, seen \in Ring!Visible(v4.seen, v2) :
        /\ v6' = v6 + n
        /\ v4' = Ring!Moving(seen, v6 + 1, Ring!Least(n, Ring!Free(seen)))
  BY DEF Ring!BeginPush
<1>2. UNCHANGED <<v1, v2, v3, v5, v7, v8>> /\ v4.todo = 0
  BY DEF Ring!BeginPush
<1>3. PICK g \in Nat, a \in Nat : g = Ring!Gone /\ a = Len(v7)
  BY RingCounts
<1>4. v2 = g % IndexWrap /\ v1 = a % IndexWrap /\ Ring!HasRoom(v4.seen, g, a) /\ v6 \in Nat
  BY <1>2, <1>3 DEF Ring!RingInv
<1>5. g <= a
  BY <1>3, RingCounts
<1>6. PICK todo : todo = Ring!Least(n, RingSlots - Ring!Ahead(a % IndexWrap, seen))
  OBVIOUS
<1>7. todo \in Nat /\ Ring!HasRoom(seen, g, a + todo)
  <2>1. n \in Nat /\ seen \in Ring!Visible(v4.seen, g % IndexWrap)
    BY <1>1, <1>4
  <2> QED BY <1>4, <1>5, <1>6, <2>1, RoomSeen
<1>8. v4' = Ring!Moving(seen, v6 + 1, todo)
  BY <1>1, <1>4, <1>6 DEF Ring!Free
<1>9. seen \in Ring!Counter
  BY DEF Ring!Visible
<1>15. v4' = [seen |-> seen, item |-> v6 + 1, todo |-> todo, done |-> 0, open |-> FALSE]
  BY <1>8, Zenon DEF Ring!Moving, Ring!Resting
<1>10. v4'.todo = todo /\ v4'.done = 0 /\ v4'.seen = seen /\ Ring!IsThread(v4')
  <2>1. v6 + 1 \in Nat
    BY <1>4
  <2> QED BY <1>7, <1>9, <1>15, <2>1 DEF Ring!IsThread
<1>11. Ring!Gone' = g /\ Len(v7') = a
  BY <1>2, <1>3 DEF Ring!Gone
<1>12. v6' \in Nat
  BY <1>1, <1>4
<1>13. Ring!HasRoom(v4'.seen, Ring!Gone', Len(v7') + v4'.todo)
  BY <1>7, <1>10, <1>11
<1>14. \A d \in 0 .. v4'.done - 1 : FALSE
  BY <1>10
<1> QED BY <1>2, <1>10, <1>11, <1>12, <1>13, <1>14, Zenon
   DEF Ring!RingInv, Ring!NothingTornOrLost, Ring!Gone, Ring!HasRoom

\* A slot the producer is at is none of those that are read or already filled.
LEMMA AtAnotherSlot ==
    ASSUME Ring!RingInv, v4.done < v4.todo
    PROVE  /\ Ring!Filled = Ring!Slot(Len(v7) + v4.done)
           /\ Ring!Filled \in 0 .. RingSlots - 1
           /\ \A k \in Ring!Gone + 1 .. Len(v7) : Ring!Slot(k - 1) # Ring!Filled
           /\ \A d \in 0 .. v4.done - 1 : Ring!Slot(Len(v7) + d) # Ring!Filled
<1>1. PICK g \in Nat, a \in Nat, n \in Nat, m \in Nat :
        g = Ring!Gone /\ a = Len(v7) /\ n = v4.done /\ m = v4.todo
  BY RingCounts, Zenon
<1>2. (a + m) - g <= RingSlots /\ g <= a /\ n < m
  BY <1>1, RingCounts
<1>3. v1 = a % IndexWrap
  BY <1>1 DEF Ring!RingInv
<1>4. Ring!Filled = Ring!Slot(a + n) /\ Ring!Filled \in 0 .. RingSlots - 1
  BY <1>1, <1>3, SlotPast, Zenon DEF Ring!Filled
<1>5. \A k \in g + 1 .. a : Ring!Slot(k - 1) # Ring!Slot(a + n)
  <2> TAKE k \in g + 1 .. a
  <2>1. PICK x \in Nat, y \in Nat : x = k - 1 /\ y = a + n
    BY <1>2
  <2>2. x < y /\ y - x < RingSlots
    BY <1>2, <2>1, RingNumbers
  <2> QED BY <2>1, <2>2, SlotsApart
<1>6. \A d \in 0 .. n - 1 : Ring!Slot(a + d) # Ring!Slot(a + n)
  <2> TAKE d \in 0 .. n - 1
  <2>1. PICK x \in Nat, y \in Nat : x = a + d /\ y = a + n
    OBVIOUS
  <2>2. x < y /\ y - x < RingSlots
    BY <1>2, <2>1, RingNumbers
  <2> QED BY <2>1, <2>2, SlotsApart
<1> QED BY <1>1, <1>4, <1>5, <1>6

LEMMA RingKeptByOpenSlot ==
    ASSUME Ring!RingInv, Ring!OpenSlot
    PROVE  Ring!RingInv'
<1>1. /\ UNCHANGED <<v1, v2, v5, v6, v7, v8>> /\ v4.done < v4.todo
      /\ v3' = [v3 EXCEPT ![Ring!Filled] = MaxItems + 1]
      /\ v4' = [v4 EXCEPT !.open = TRUE]
  BY DEF Ring!OpenSlot, Ring!Torn
<1>2. /\ v4'.todo = v4.todo /\ v4'.done = v4.done /\ v4'.seen = v4.seen /\ v4'.item = v4.item
      /\ Ring!IsThread(v4')
  BY <1>1, Zenon DEF Ring!RingInv, Ring!IsThread
<1>3. v3' \in [0 .. RingSlots - 1 -> Nat]
  <2>1. MaxItems + 1 \in Nat
    BY RingNumbers
  <2>2. v3 \in [0 .. RingSlots - 1 -> Nat]
    BY DEF Ring!RingInv
  <2> QED BY <1>1, <2>1, <2>2, Zenon
<1>4. \A i \in 0 .. RingSlots - 1 : i # Ring!Filled => v3'[i] = v3[i]
  BY <1>1 DEF Ring!RingInv
<1>5. Ring!Gone' = Ring!Gone /\ Ring!Gone \in Nat /\ Len(v7) \in Nat /\ v4.done \in Nat
  BY <1>1, RingCounts DEF Ring!Gone
<1>6. \A k \in Ring!Gone + 1 .. Len(v7) : v3'[Ring!Slot(k - 1)] = v7[k]
  <2> TAKE k \in Ring!Gone + 1 .. Len(v7)
  <2>1. k - 1 \in Int
    BY <1>5
  <2>2. Ring!Slot(k - 1) \in 0 .. RingSlots - 1
    BY <2>1, RingNumbers, QuotientAndRest, Zenon DEF Ring!Slot
  <2>3. Ring!Slot(k - 1) # Ring!Filled
    BY <1>1, AtAnotherSlot
  <2> QED BY <1>4, <2>2, <2>3, Zenon DEF Ring!RingInv
<1>7. \A d \in 0 .. v4.done - 1 : v3'[Ring!Slot(Len(v7) + d)] = v4.item + d
  <2> TAKE d \in 0 .. v4.done - 1
  <2>1. Ring!Slot(Len(v7) + d) \in 0 .. RingSlots - 1
    <3>1. d \in Nat
      BY <1>5
    <3> QED BY <1>5, <3>1, SlotPast, Zenon
  <2>2. Ring!Slot(Len(v7) + d) # Ring!Filled
    BY <1>1, AtAnotherSlot
  <2> QED BY <1>4, <2>1, <2>2 DEF Ring!RingInv
<1> QED BY <1>1, <1>2, <1>3, <1>5, <1>6, <1>7
        DEF Ring!RingInv, Ring!NothingTornOrLost

LEMMA RingKeptByFillSlot ==
    ASSUME Ring!RingInv, Ring!FillSlot
    PROVE  Ring!RingInv'
<1>1. /\ UNCHANGED <<v1, v2, v5, v6, v7, v8>> /\ v4.open
      /\ v3' = [v3 EXCEPT ![Ring!Filled] = v4.item + v4.done]
      /\ v4' = [v4 EXCEPT !.open = FALSE, !.done = @ + 1]
  BY DEF Ring!FillSlot
<1>9. v4.done < v4.todo /\ v4.item \in Nat /\ v4.done \in Nat /\ v4.todo \in Nat
  BY <1>1 DEF Ring!RingInv, Ring!IsThread
<1>2. /\ v4'.todo = v4.todo /\ v4'.done = v4.done + 1 /\ v4'.seen = v4.seen
      /\ v4'.item = v4.item /\ Ring!IsThread(v4')
  <2>1. v4 \in [seen : Ring!Counter, item : Nat, todo : Nat, done : Nat, open : BOOLEAN]
    BY DEF Ring!RingInv, Ring!IsThread
  <2>2. v4' = [seen |-> v4.seen, item |-> v4.item, todo |-> v4.todo, done |-> v4.done + 1,
               open |-> FALSE]
    BY <1>1, <2>1, Zenon
  <2>3. v4.seen \in Ring!Counter /\ v4.done + 1 \in Nat /\ v4.done + 1 <= v4.todo
    BY <1>9, <2>1
  <2> QED BY <1>9, <2>2, <2>3 DEF Ring!IsThread
<1>3. v3' \in [0 .. RingSlots - 1 -> Nat]
  <2>1. v4.item + v4.done \in Nat
    BY <1>9
  <2>2. v3 \in [0 .. RingSlots - 1 -> Nat]
    BY DEF Ring!RingInv
  <2> QED BY <1>1, <2>1, <2>2, Zenon
<1>4. /\ \A i \in 0 .. RingSlots - 1 : i # Ring!Filled => v3'[i] = v3[i]
      /\ v3'[Ring!Filled] = v4.item + v4.done
  <2>1. Ring!Filled \in 0 .. RingSlots - 1
    BY <1>9, AtAnotherSlot
  <2> QED BY <1>1, <2>1 DEF Ring!RingInv
<1>5. Ring!Gone' = Ring!Gone /\ Ring!Gone \in Nat /\ Len(v7) \in Nat
  BY <1>1, RingCounts DEF Ring!Gone
<1>6. \A k \in Ring!Gone + 1 .. Len(v7) : v3'[Ring!Slot(k - 1)] = v7[k]
  <2> TAKE k \in Ring!Gone + 1 .. Len(v7)
  <2>1. k - 1 \in Int
    BY <1>5
  <2>2. Ring!Slot(k - 1) \in 0 .. RingSlots - 1
    BY <2>1, RingNumbers, QuotientAndRest, Zenon DEF Ring!Slot
  <2>3. Ring!Slot(k - 1) # Ring!Filled
    BY <1>9, AtAnotherSlot
  <2> QED BY <1>4, <2>2, <2>3, Zenon DEF Ring!RingInv
<1>7. \A d \in 0 .. v4'.done - 1 : v3'[Ring!Slot(Len(v7) + d)] = v4.item + d
  <2> TAKE d \in 0 .. v4'.done - 1
  <2>1. CASE d = v4.done
    BY <1>4, <1>9, <2>1, AtAnotherSlot
  <2>2. CASE d # v4.done
    <3>1. d \in 0 .. v4.done - 1
      BY <1>2, <1>9, <2>2
    <3>2. Ring!Slot(Len(v7) + d) \in 0 .. RingSlots - 1
      <4>1. d \in Nat
        BY <1>9, <3>1
      <4> QED BY <1>5, <4>1, SlotPast, Zenon
    <3>3. Ring!Slot(Len(v7) + d) # Ring!Filled
      BY <1>9, <3>1, AtAnotherSlot
    <3> QED BY <1>4, <3>1, <3>2, <3>3 DEF Ring!RingInv
  <2> QED BY <2>1, <2>2
<1> QED BY <1>1, <1>2, <1>3, <1>5, <1>6, <1>7
        DEF Ring!RingInv, Ring!NothingTornOrLost

\* What was accepted, and what n more from item on make of it.
Grown(s, t, n, item) ==
    /\ t \in Seq(Nat) /\ Len(t) = Len(s) + n
    /\ \A k \in 1 .. Len(s) : t[k] = s[k]
    /\ \A k \in 1 .. n : t[Len(s) + k] = item + k - 1

LEMMA MoreAccepted ==
    ASSUME NEW s \in Seq(Nat), NEW n \in Nat, NEW item \in Nat
    PROVE  Grown(s, s \o [k \in 1 .. n |-> item + k - 1], n, item)
<1>1. PICK u : u = [k \in 1 .. n |-> item + k - 1]
  BY Zenon
<1>2. \A k \in 1 .. n : item + k - 1 \in Nat
  OBVIOUS
<1>3. u \in Seq(Nat) /\ Len(u) = n /\ \A k \in 1 .. n : u[k] = item + k - 1
  BY <1>1, <1>2
<1>4. PICK t : t = s \o u
  BY Zenon
<1>9. u \in Seq(Nat) /\ Len(u) = n
  BY <1>3
<1>5. t \in Seq(Nat) /\ Len(t) = Len(s) + n
  <2>1. ASSUME NEW x \in Seq(Nat), NEW y \in Seq(Nat)
        PROVE  x \o y \in Seq(Nat) /\ Len(x \o y) = Len(x) + Len(y)
    OBVIOUS
  <2> QED BY <1>4, <1>9, <2>1, Zenon
<1>6. \A k \in 1 .. Len(s) : t[k] = s[k]
  BY <1>3, <1>4
<1>7. \A k \in 1 .. n : t[Len(s) + k] = u[k]
  BY <1>3, <1>4
<1>8. Grown(s, t, n, item)
  BY <1>3, <1>5, <1>6, <1>7, Zenon DEF Grown
<1> QED BY <1>1, <1>4, <1>8, Zenon

\* A prefix stays one.
LEMMA StaysPrefix ==
    ASSUME NEW s \in Seq(Nat), NEW t \in Seq(Nat), NEW n \in Nat, n <= Len(s),
           Len(s) <= Len(t), \A k \in 1 .. Len(s) : t[k] = s[k]
    PROVE  SubSeq(t, 1, n) = SubSeq(s, 1, n)
<1>1. /\ SubSeq(t, 1, n) \in Seq(Nat) /\ SubSeq(s, 1, n) \in Seq(Nat)
      /\ Len(SubSeq(t, 1, n)) = n /\ Len(SubSeq(s, 1, n)) = n
  OBVIOUS
<1>2. \A k \in 1 .. n : SubSeq(t, 1, n)[k] = t[k] /\ SubSeq(s, 1, n)[k] = s[k]
  OBVIOUS
<1>3. \A k \in 1 .. n : SubSeq(t, 1, n)[k] = SubSeq(s, 1, n)[k]
  BY <1>2
<1>4. PICK x \in Seq(Nat), y \in Seq(Nat) : x = SubSeq(t, 1, n) /\ y = SubSeq(s, 1, n)
  BY <1>1, Zenon
<1>5. Len(x) = Len(y) /\ \A k \in 1 .. Len(x) : x[k] = y[k]
  BY <1>1, <1>3, <1>4
<1> QED BY <1>4, <1>5

\* The item after a prefix makes a longer one.
LEMMA OneMoreOfPrefix ==
    ASSUME NEW s \in Seq(Nat), NEW n \in Nat, n + 1 <= Len(s)
    PROVE  /\ SubSeq(s, 1, n + 1) = Append(SubSeq(s, 1, n), s[n + 1])
           /\ SubSeq(s, 1, n + 1) \in Seq(Nat) /\ Len(SubSeq(s, 1, n + 1)) = n + 1
<1>8. SubSeq(s, 1, n) \in Seq(Nat) /\ SubSeq(s, 1, n + 1) \in Seq(Nat)
  OBVIOUS
<1>1. PICK x \in Seq(Nat), y \in Seq(Nat) : x = SubSeq(s, 1, n) /\ y = SubSeq(s, 1, n + 1)
  BY <1>8, Zenon
<1>2. /\ Len(x) = n /\ \A k \in 1 .. n : x[k] = s[k]
      /\ Len(y) = n + 1 /\ \A k \in 1 .. n + 1 : y[k] = s[k]
  BY <1>1
<1>3. PICK z : z = Append(x, s[n + 1])
  BY Zenon
<1>4. s[n + 1] \in Nat
  OBVIOUS
<1>5. z \in Seq(Nat) /\ Len(z) = n + 1 /\ z[n + 1] = s[n + 1] /\ \A k \in 1 .. n : z[k] = x[k]
  BY <1>2, <1>3, <1>4
<1>6. \A k \in 1 .. n + 1 : z[k] = y[k]
  <2> TAKE k \in 1 .. n + 1
  <2>1. CASE k = n + 1
    BY <1>2, <1>5, <2>1
  <2>2. CASE k # n + 1
    <3>1. k \in 1 .. n
      BY <2>2
    <3> QED BY <1>2, <1>5, <3>1, Zenon
  <2> QED BY <2>1, <2>2
<1>7. z = y
  BY <1>2, <1>5, <1>6
<1> QED BY <1>1, <1>2, <1>3, <1>7, Zenon

LEMMA RingKeptByPublishTail ==
    ASSUME Ring!RingInv, Ring!PublishTail
    PROVE  Ring!RingInv'
<1>1. /\ UNCHANGED <<v2, v3, v5, v6, v8>> /\ v4.todo > 0 /\ v4.done = v4.todo
      /\ v1' = Ring!Plus(v1, v4.todo)
      /\ v7' = v7 \o [k \in 1 .. v4.todo |-> v4.item + k - 1]
      /\ v4' = Ring!Resting(v4.seen)
  BY DEF Ring!PublishTail
<1>2. PICK g \in Nat, a \in Nat, n \in Nat, item \in Nat, m \in Nat :
        g = Ring!Gone /\ a = Len(v7) /\ n = v4.todo /\ item = v4.item /\ m = Len(v8)
  BY RingCounts, Zenon DEF Ring!RingInv, Ring!IsThread
<1>3. g <= a /\ m <= a /\ g <= m
  BY <1>2, RingCounts
<1>4. v7 \in Seq(Nat) /\ v8 \in Seq(Nat) /\ v1 = a % IndexWrap /\ v2 = g % IndexWrap
  BY <1>2 DEF Ring!RingInv
<1>5. PICK t : t = v7'
  OBVIOUS
<1>6. /\ t \in Seq(Nat) /\ Len(t) = a + n
      /\ \A k \in 1 .. a : t[k] = v7[k]
      /\ \A k \in 1 .. n : t[a + k] = item + k - 1
  <2>1. Grown(v7, v7 \o [k \in 1 .. n |-> item + k - 1], n, item)
    BY <1>4, MoreAccepted
  <2>2. t = v7 \o [k \in 1 .. n |-> item + k - 1]
    BY <1>1, <1>2, <1>5
  <2>3. Grown(v7, t, n, item)
    BY <2>1, <2>2
  <2> QED BY <1>2, <2>3 DEF Grown
<1>7. v1' = Len(t) % IndexWrap
  <2>1. v1' = Ring!Plus(a % IndexWrap, n)
    BY <1>1, <1>2, <1>4
  <2>2. v1' = (a + n) % IndexWrap
    BY <1>2, <2>1, SlotPast, Zenon
  <2> QED BY <1>6, <2>2
<1>8. /\ v4' = [seen |-> v4.seen, item |-> 0, todo |-> 0, done |-> 0, open |-> FALSE]
      /\ v4.seen \in Ring!Counter
  BY <1>1 DEF Ring!Resting, Ring!Empty, Ring!RingInv, Ring!IsThread
<1>9. v4'.todo = 0 /\ v4'.done = 0 /\ v4'.seen = v4.seen /\ Ring!IsThread(v4')
  BY <1>8 DEF Ring!IsThread
<1>10. Ring!Gone' = g
  BY <1>1, <1>2 DEF Ring!Gone
<1>11. Ring!HasRoom(v4'.seen, g, Len(t) + v4'.todo)
  <2>1. Ring!HasRoom(v4.seen, g, a + n)
    BY <1>2 DEF Ring!RingInv
  <2>2. Len(t) + v4'.todo = a + n
    BY <1>6, <1>9
  <2> QED BY <1>9, <2>1, <2>2
<1>12. Ring!HasItems(v5.seen, Len(t), g + v5.todo)
  <2>1. PICK c \in 0 .. a : c % IndexWrap = v5.seen /\ g + v5.todo <= c
    BY <1>2, Zenon DEF Ring!RingInv, Ring!HasItems
  <2>2. c \in 0 .. Len(t)
    BY <1>6
  <2> QED BY <2>1, <2>2 DEF Ring!HasItems
<1>13. \A k \in g + 1 .. Len(t) : v3[Ring!Slot(k - 1)] = t[k]
  <2> TAKE k \in g + 1 .. Len(t)
  <2>1. CASE k <= a
    <3>1. k \in g + 1 .. a /\ k \in 1 .. a
      BY <2>1
    <3>2. v3[Ring!Slot(k - 1)] = v7[k]
      BY <1>2, <3>1 DEF Ring!RingInv
    <3> QED BY <1>6, <3>1, <3>2
  <2>2. CASE ~(k <= a)
    <3>1. PICK d \in 0 .. n - 1 : d = k - 1 - a
      BY <1>6, <2>2
    <3>2. v3[Ring!Slot(a + d)] = item + d
      BY <1>1, <1>2, <3>1, Zenon DEF Ring!RingInv
    <3>3. d + 1 \in 1 .. n /\ k = a + (d + 1) /\ k - 1 = a + d
      BY <3>1
    <3>4. t[a + (d + 1)] = item + (d + 1) - 1
      BY <1>6, <3>3, Zenon
    <3>5. item + (d + 1) - 1 = item + d
      BY <3>1
    <3> QED BY <3>2, <3>3, <3>4, <3>5
  <2> QED BY <2>1, <2>2
<1>14. v5.open => v5.item = t[m + 1]
  <2> HAVE v5.open
  <2>1. v5.item = v7[m + 1] /\ v5.done < v5.todo /\ v5.done \in Nat /\ v5.todo \in Nat
    BY <1>2 DEF Ring!RingInv, Ring!IsThread
  <2>2. m + 1 <= a
    BY <1>2, <2>1, RingCounts
  <2> QED BY <1>6, <2>1, <2>2
<1>15. m <= Len(t) /\ v8 = SubSeq(t, 1, m)
  <2>1. v8 = SubSeq(v7, 1, m)
    BY <1>2 DEF Ring!RingInv, Ring!NothingTornOrLost
  <2>2. SubSeq(t, 1, m) = SubSeq(v7, 1, m)
    <3>1. m <= Len(v7) /\ Len(v7) <= Len(t) /\ \A k \in 1 .. Len(v7) : t[k] = v7[k]
      BY <1>2, <1>3, <1>6
    <3> QED BY <1>2, <1>4, <1>6, <3>1, StaysPrefix, Zenon
  <2> QED BY <1>3, <1>6, <2>1, <2>2
<1>16. v5.todo = 0 => Len(t) - m = Ring!Ahead(v1', v2)
  <2> HAVE v5.todo = 0
  <2>1. m = g
    BY <1>2, RingCounts DEF Ring!RingInv, Ring!IsThread
  <2>2. (a + n) - g < IndexWrap /\ g <= a + n /\ a + n \in Nat
    <3>1. (a + n) - g <= RingSlots
      BY <1>2, RingCounts
    <3> QED BY <1>2, <1>3, <3>1, RingNumbers
  <2>3. Ring!Ahead((a + n) % IndexWrap, g % IndexWrap) = (a + n) - g
    BY <2>2, AheadIs
  <2> QED BY <1>4, <1>6, <1>7, <2>1, <2>3
<1>17. Ring!NothingTornOrLost'
  BY <1>1, <1>2, <1>5, <1>15, <1>16, Zenon DEF Ring!NothingTornOrLost
<1>18. \A d \in 0 .. v4'.done - 1 : FALSE
  BY <1>9
<1>19. /\ v6' \in Nat /\ v3' \in [0 .. RingSlots - 1 -> Nat] /\ Ring!IsThread(v5') /\ v8' \in Seq(Nat)
       /\ Ring!Gone' \in Nat /\ v2' = Ring!Gone' % IndexWrap
  BY <1>1, <1>2, <1>4, <1>10 DEF Ring!RingInv
<1>20. \A k \in Ring!Gone' + 1 .. Len(v7') : v3'[Ring!Slot(k - 1)] = v7'[k]
  BY <1>1, <1>5, <1>10, <1>13, Zenon
<1>21. Ring!HasItems(v5'.seen, Len(v7'), Ring!Gone' + v5'.todo)
  BY <1>1, <1>5, <1>10, <1>12, Zenon
<1>22. v5'.open => v5'.item = v7'[Len(v8') + 1]
  BY <1>1, <1>2, <1>5, <1>14, Zenon
<1>23. Ring!HasRoom(v4'.seen, Ring!Gone', Len(v7') + v4'.todo)
  BY <1>5, <1>10, <1>11
<1> QED BY <1>5, <1>6, <1>7, <1>9, <1>17, <1>18, <1>19, <1>20, <1>21, <1>22, <1>23, Zenon
   DEF Ring!RingInv, Ring!HasItems, Ring!HasRoom

LEMMA RingKeptByBeginPop ==
    ASSUME Ring!RingInv, Ring!BeginPop
    PROVE  Ring!RingInv'
<1>1. PICK n \in 1 .. Batch, seen \in Ring!Visible(v5.seen, v1) :
        v5' = Ring!Moving(seen, 0, Ring!Least(n, Ring!Ahead(seen, v2)))
  BY DEF Ring!BeginPop, Ring!Empty
<1>2. UNCHANGED <<v1, v2, v3, v4, v6, v7, v8>> /\ v5.todo = 0
  BY DEF Ring!BeginPop
<1>3. PICK g \in Nat, a \in Nat : g = Ring!Gone /\ a = Len(v7)
  BY RingCounts
<1>4. v2 = g % IndexWrap /\ v1 = a % IndexWrap /\ Ring!HasItems(v5.seen, a, g)
  <2>1. Ring!HasItems(v5.seen, a, g + v5.todo)
    BY <1>3 DEF Ring!RingInv
  <2>2. g + v5.todo = g
    BY <1>2
  <2> QED BY <1>3, <2>1, <2>2 DEF Ring!RingInv
<1>5. a - g < IndexWrap /\ g = Len(v8)
  BY <1>2, <1>3, RingCounts DEF Ring!RingInv, Ring!IsThread
<1>6. PICK todo : todo = Ring!Least(n, Ring!Ahead(seen, g % IndexWrap))
  OBVIOUS
<1>7. todo \in Nat /\ Ring!HasItems(seen, a, g + todo)
  <2>1. n \in Nat /\ seen \in Ring!Visible(v5.seen, a % IndexWrap)
    BY <1>1, <1>4
  <2> QED BY <1>4, <1>5, <1>6, <2>1, ItemsSeen
<1>8. v5' = [seen |-> seen, item |-> 0, todo |-> todo, done |-> 0, open |-> FALSE]
  BY <1>1, <1>4, <1>6, Zenon DEF Ring!Moving, Ring!Resting
<1>9. seen \in Ring!Counter
  BY DEF Ring!Visible
<1>10. v5'.todo = todo /\ v5'.done = 0 /\ v5'.seen = seen /\ ~v5'.open /\ Ring!IsThread(v5')
  BY <1>7, <1>8, <1>9 DEF Ring!IsThread
<1>11. Ring!Gone' = g
  BY <1>2, <1>5, <1>10 DEF Ring!Gone
<1>12. Ring!HasItems(v5'.seen, Len(v7'), Ring!Gone' + v5'.todo)
  BY <1>2, <1>3, <1>7, <1>10, <1>11
<1>13. Ring!NothingTornOrLost'
  <2>1. a - g = Ring!Ahead(v1, v2)
    <3>1. g <= a
      BY <1>3, RingCounts
    <3> QED BY <1>4, <1>5, <3>1, AheadIs, Zenon
  <2>2. Len(v7') - Len(v8') = Ring!Ahead(v1', v2')
    BY <1>2, <1>3, <1>5, <2>1 DEF Ring!Ahead
  <2> QED BY <1>2, <2>2 DEF Ring!RingInv, Ring!NothingTornOrLost
<1>14. Ring!Gone' = Ring!Gone /\ ~v5'.open /\ Ring!IsThread(v5')
  BY <1>3, <1>10, <1>11
<1> QED BY <1>2, <1>12, <1>13, <1>14, Zenon DEF Ring!RingInv, Ring!HasItems

LEMMA RingKeptByLookAtSlot ==
    ASSUME Ring!RingInv, Ring!LookAtSlot
    PROVE  Ring!RingInv'
<1>1. /\ UNCHANGED <<v1, v2, v3, v4, v6, v7, v8>> /\ v5.done < v5.todo
      /\ v5' = [v5 EXCEPT !.open = TRUE, !.item = v3[Ring!Read]]
  BY DEF Ring!LookAtSlot
<1>2. v5 \in [seen : Ring!Counter, item : Nat, todo : Nat, done : Nat, open : BOOLEAN]
  BY DEF Ring!RingInv, Ring!IsThread
<1>3. PICK g \in Nat, a \in Nat, n \in Nat, m \in Nat :
        g = Ring!Gone /\ a = Len(v7) /\ n = v5.done /\ m = Len(v8)
  BY RingCounts, Zenon
<1>4. m = g + n /\ m + 1 \in g + 1 .. a /\ v2 = g % IndexWrap
  <2>1. g = m - n /\ g + v5.todo <= a
    BY <1>3, RingCounts, Zenon
  <2>2. v2 = g % IndexWrap
    BY <1>3 DEF Ring!RingInv
  <2>3. n < v5.todo /\ v5.todo \in Nat
    BY <1>1, <1>3, RingCounts, Zenon
  <2>4. m = g + n /\ m + 1 \in g + 1 .. a
    BY <1>3, <2>1, <2>3
  <2> QED BY <2>2, <2>4
<1>5. Ring!Read = Ring!Slot(m) /\ Ring!Slot(m) \in 0 .. RingSlots - 1
  BY <1>3, <1>4, SlotPast, Zenon DEF Ring!Read
<1>6. v3[Ring!Read] = v7[m + 1] /\ v3[Ring!Read] \in Nat
  <2>1. v3[Ring!Slot((m + 1) - 1)] = v7[m + 1]
    BY <1>3, <1>4, Zenon DEF Ring!RingInv
  <2>2. (m + 1) - 1 = m
    BY <1>3
  <2> QED BY <1>5, <2>1, <2>2 DEF Ring!RingInv
<1>7. v5' = [seen |-> v5.seen, item |-> v3[Ring!Read], todo |-> v5.todo, done |-> v5.done,
             open |-> TRUE]
  BY <1>1, <1>2, Zenon
<1>8. /\ v5'.todo = v5.todo /\ v5'.done = v5.done /\ v5'.seen = v5.seen
      /\ v5'.item = v7[Len(v8) + 1] /\ Ring!IsThread(v5')
  <2>1. PICK i \in Nat : i = v3[Ring!Read] /\ i = v7[Len(v8) + 1]
    BY <1>3, <1>6
  <2>2. v5' = [seen |-> v5.seen, item |-> i, todo |-> v5.todo, done |-> v5.done, open |-> TRUE]
    BY <1>7, <2>1
  <2>3. /\ v5'.todo = v5.todo /\ v5'.done = v5.done /\ v5'.seen = v5.seen /\ v5'.item = i
        /\ Ring!IsThread(v5')
    <3>1. /\ v5.seen \in Ring!Counter /\ v5.todo \in Nat /\ v5.done \in Nat
          /\ v5.done < v5.todo /\ i \in Nat
      BY <1>1, <1>2, <2>1
    <3>2. v5.done <= v5.todo
      BY <3>1
    <3> QED BY <2>2, <3>1, <3>2 DEF Ring!IsThread
  <2> QED BY <2>1, <2>3
<1>9. Ring!Gone' = Ring!Gone
  BY <1>1, <1>8 DEF Ring!Gone
<1> QED BY <1>1, <1>8, <1>9, Zenon DEF Ring!RingInv, Ring!NothingTornOrLost

LEMMA RingKeptByTakeItem ==
    ASSUME Ring!RingInv, Ring!TakeItem
    PROVE  Ring!RingInv'
<1>1. /\ UNCHANGED <<v1, v2, v3, v4, v6, v7>> /\ v5.open
      /\ v8' = Append(v8, IF v3[Ring!Read] = v5.item THEN v5.item ELSE Ring!Torn)
      /\ v5' = [v5 EXCEPT !.open = FALSE, !.done = @ + 1]
  BY DEF Ring!TakeItem
<1>2. /\ v5 \in [seen : Ring!Counter, item : Nat, todo : Nat, done : Nat, open : BOOLEAN]
      /\ v5.done < v5.todo
  BY <1>1 DEF Ring!RingInv, Ring!IsThread
<1>3. PICK g \in Nat, a \in Nat, n \in Nat, m \in Nat :
        g = Ring!Gone /\ a = Len(v7) /\ n = v5.done /\ m = Len(v8)
  BY RingCounts, Zenon
<1>4. m = g + n /\ m + 1 \in g + 1 .. a /\ m <= a /\ v2 = g % IndexWrap
  <2>1. g = m - n /\ g + v5.todo <= a /\ m <= a
    BY <1>3, RingCounts, Zenon
  <2>2. n < v5.todo /\ v5.todo \in Nat
    BY <1>2, <1>3
  <2>3. m = g + n /\ m + 1 \in g + 1 .. a /\ m <= a
    BY <1>3, <2>1, <2>2
  <2> QED BY <1>3, <2>3 DEF Ring!RingInv
<1>5. Ring!Read = Ring!Slot(m)
  BY <1>3, <1>4, SlotPast, Zenon DEF Ring!Read
<1>6. v3[Ring!Read] = v7[m + 1] /\ v5.item = v7[m + 1]
  <2>1. v3[Ring!Slot((m + 1) - 1)] = v7[m + 1]
    BY <1>3, <1>4, Zenon DEF Ring!RingInv
  <2>2. (m + 1) - 1 = m
    BY <1>3
  <2> QED BY <1>1, <1>3, <1>5, <2>1, <2>2 DEF Ring!RingInv
<1>7. v8' = Append(v8, v7[m + 1])
  BY <1>1, <1>6
<1>8. /\ v7 \in Seq(Nat) /\ v8 \in Seq(Nat) /\ v8 = SubSeq(v7, 1, m)
  BY <1>3 DEF Ring!RingInv, Ring!NothingTornOrLost
<1>9. v8' \in Seq(Nat) /\ Len(v8') = m + 1 /\ v8' = SubSeq(v7, 1, m + 1)
  <2>1. m + 1 <= Len(v7)
    BY <1>3, <1>4
  <2>2. /\ SubSeq(v7, 1, m + 1) = Append(SubSeq(v7, 1, m), v7[m + 1])
        /\ SubSeq(v7, 1, m + 1) \in Seq(Nat) /\ Len(SubSeq(v7, 1, m + 1)) = m + 1
    BY <1>3, <1>8, <2>1, OneMoreOfPrefix
  <2>3. SubSeq(v7, 1, m + 1) = v8'
    BY <1>7, <1>8, <2>2, Zenon
  <2> QED BY <2>2, <2>3, Zenon
<1>10. v5' = [seen |-> v5.seen, item |-> v5.item, todo |-> v5.todo, done |-> v5.done + 1,
              open |-> FALSE]
  BY <1>1, <1>2, Zenon
<1>11. /\ v5'.todo = v5.todo /\ v5'.done = n + 1 /\ v5'.seen = v5.seen
       /\ ~v5'.open /\ Ring!IsThread(v5')
  BY <1>2, <1>3, <1>10 DEF Ring!IsThread
<1>12. Ring!Gone' = Ring!Gone
  BY <1>3, <1>4, <1>9, <1>11 DEF Ring!Gone
<1>13. Ring!NothingTornOrLost'
  <2>1. m + 1 <= a /\ v5'.todo # 0
    BY <1>2, <1>4, <1>11
  <2> QED BY <1>1, <1>3, <1>9, <2>1, Zenon DEF Ring!NothingTornOrLost
<1> QED BY <1>1, <1>9, <1>11, <1>12, <1>13 DEF Ring!RingInv

LEMMA RingKeptByPublishHead ==
    ASSUME Ring!RingInv, Ring!PublishHead
    PROVE  Ring!RingInv'
<1>1. /\ UNCHANGED <<v1, v3, v4, v6, v7, v8>> /\ v5.done = v5.todo
      /\ v2' = Ring!Plus(v2, v5.todo) /\ v5' = Ring!Resting(v5.seen)
  BY DEF Ring!PublishHead
<1>2. v5 \in [seen : Ring!Counter, item : Nat, todo : Nat, done : Nat, open : BOOLEAN]
  BY DEF Ring!RingInv, Ring!IsThread
<1>3. PICK g \in Nat, a \in Nat, n \in Nat, m \in Nat :
        g = Ring!Gone /\ a = Len(v7) /\ n = v5.todo /\ m = Len(v8)
  BY RingCounts, Zenon
<1>4. m = g + n /\ v2 = g % IndexWrap /\ v1 = a % IndexWrap /\ m <= a /\ a - g < IndexWrap
  <2>1. g = m - v5.done /\ m <= a /\ a - g < IndexWrap
    BY <1>3, RingCounts, Zenon
  <2>2. m = g + n
    BY <1>1, <1>3, <2>1
  <2> QED BY <1>3, <2>1, <2>2 DEF Ring!RingInv
<1>5. v2' = m % IndexWrap
  <2>1. v2' = Ring!Plus(g % IndexWrap, n)
    BY <1>1, <1>3, <1>4
  <2>2. v2' = (g + n) % IndexWrap
    BY <1>3, <2>1, SlotPast, Zenon
  <2> QED BY <1>4, <2>2
<1>6. v5' = [seen |-> v5.seen, item |-> 0, todo |-> 0, done |-> 0, open |-> FALSE]
  BY <1>1 DEF Ring!Resting, Ring!Empty
<1>7. /\ v5'.todo = 0 /\ v5'.done = 0 /\ v5'.seen = v5.seen
      /\ ~v5'.open /\ Ring!IsThread(v5')
  BY <1>2, <1>6 DEF Ring!IsThread
<1>8. Ring!Gone' = m
  BY <1>1, <1>3, <1>7 DEF Ring!Gone
<1>9. Ring!HasRoom(v4.seen, m, a + v4.todo)
  <2>1. PICK p \in 0 .. g : p % IndexWrap = v4.seen /\ a + v4.todo <= p + RingSlots
    BY <1>3 DEF Ring!RingInv, Ring!HasRoom
  <2>2. p \in 0 .. m
    BY <1>4
  <2> QED BY <2>1, <2>2 DEF Ring!HasRoom
<1>10. Ring!HasItems(v5'.seen, a, m + v5'.todo)
  <2>1. Ring!HasItems(v5.seen, a, g + n)
    BY <1>3 DEF Ring!RingInv
  <2>2. m + v5'.todo = g + n
    BY <1>4, <1>7
  <2> QED BY <1>7, <2>1, <2>2
<1>11. \A k \in m + 1 .. a : v3[Ring!Slot(k - 1)] = v7[k]
  <2>1. \A k \in m + 1 .. a : k \in g + 1 .. a
    BY <1>4
  <2> QED BY <1>3, <2>1 DEF Ring!RingInv
<1>12. Ring!NothingTornOrLost'
  <2>1. a - m = Ring!Ahead(a % IndexWrap, m % IndexWrap)
    <3>1. a - m < IndexWrap
      <4>1. m = g + n /\ a - g < IndexWrap
        BY <1>4
      <4> QED BY <1>3, <4>1, RingNumbers
    <3> QED BY <1>3, <1>4, <3>1, AheadIs
  <2>2. Len(v7') - Len(v8') = Ring!Ahead(v1', v2')
    BY <1>1, <1>3, <1>4, <1>5, <2>1
  <2> QED BY <1>1, <2>2 DEF Ring!RingInv, Ring!NothingTornOrLost
<1>13. Ring!HasRoom(v4'.seen, Ring!Gone', Len(v7') + v4'.todo)
  BY <1>1, <1>3, <1>8, <1>9
<1>14. Ring!HasItems(v5'.seen, Len(v7'), Ring!Gone' + v5'.todo)
  BY <1>1, <1>3, <1>8, <1>10
<1>15. \A k \in Ring!Gone' + 1 .. Len(v7') : v3'[Ring!Slot(k - 1)] = v7'[k]
  BY <1>1, <1>3, <1>8, <1>11
<1>16. Ring!Gone' \in Nat /\ v2' = Ring!Gone' % IndexWrap
  BY <1>3, <1>5, <1>8
<1> QED BY <1>1, <1>7, <1>12, <1>13, <1>14, <1>15, <1>16, Zenon
   DEF Ring!RingInv, Ring!HasRoom, Ring!HasItems

LEMMA RingKept == ASSUME Ring!RingInv, Ring!Next PROVE Ring!RingInv'
BY RingKeptByBeginPush, RingKeptByOpenSlot, RingKeptByFillSlot, RingKeptByPublishTail,
   RingKeptByBeginPop, RingKeptByLookAtSlot, RingKeptByTakeItem, RingKeptByPublishHead, Zenon
   DEF Ring!Next

LEMMA RingStays == ASSUME Ring!RingInv, UNCHANGED vars PROVE Ring!RingInv'
BY DEF vars, Ring!RingInv, Ring!Gone, Ring!NothingTornOrLost, Ring!HasItems, Ring!HasRoom

-----------------------------------------------------------------------------
(* AudioSend.  v1 now, v2 frame, v3 playing, v4 due, v5 waiting, v6 acc,    *)
(* v7 silence, v8 real, v9 still, v10 lastSent, v11 turns, v12 failures.   *)

LEMMA SourceNumbers ==
    /\ EnginePeriod \in Nat \ {0} /\ Grace \in Nat \ {0}
    /\ \A f \in FrameSizes : f \in Nat \ {0} /\ f + EnginePeriod <= Grace
    /\ \A f \in FrameSizes : \A n \in 0 .. f :
         n * EnginePeriod < f => f + n * EnginePeriod <= Grace
    /\ \A g \in PollGaps : g \in Nat \ {0} /\ g <= Source!LongestGap
    /\ Source!LongestGap \in PollGaps
<1>1. /\ FrameSizes \cup PollGaps \cup {EnginePeriod, Grace} \subseteq Nat \ {0}
      /\ \A f \in FrameSizes : f + EnginePeriod <= Grace
      /\ \A f \in FrameSizes : \A n \in 0 .. f :
           n * EnginePeriod < f => f + n * EnginePeriod <= Grace
      /\ \E g \in PollGaps : \A h \in PollGaps : h <= g
  BY SourceAssumption DEF Source!SendBounds
<1>2. Source!LongestGap \in PollGaps /\ \A h \in PollGaps : h <= Source!LongestGap
  BY <1>1 DEF Source!LongestGap
<1> QED BY <1>1, <1>2

LEMMA WholeParts ==
    ASSUME NEW s \in Nat \ {0}, NEW n \in Nat
    PROVE  n \div s \in Nat /\ n % s \in 0 .. s - 1 /\ n = s * (n \div s) + (n % s)
OBVIOUS

LEMMA TimesStep ==
    ASSUME NEW p \in Nat, NEW a \in Nat, NEW d \in Nat
    PROVE  /\ (a + d) * p = a * p + d * p /\ a * p \in Nat /\ d * p \in Nat
           /\ (a + 1) * p = a * p + p
           /\ p # 0 => a <= a * p
OBVIOUS

LEMMA TimesOrder ==
    ASSUME NEW p \in Nat, NEW a \in Nat, NEW b \in Nat, a < b
    PROVE  a * p + p <= b * p
<1>1. PICK d \in Nat : b = (a + 1) + d
  <2>1. b - (a + 1) \in Nat /\ b = (a + 1) + (b - (a + 1))
    OBVIOUS
  <2> QED BY <2>1
<1>2. b * p = (a + 1) * p + d * p /\ d * p \in Nat
  BY <1>1, TimesStep
<1>3. (a + 1) * p = a * p + p /\ a * p \in Nat
  BY TimesStep
<1> QED BY <1>2, <1>3

\* What the engine hands over in a sleep, and when it will next.
LEMMA HandedOver ==
    ASSUME Source!TypeOK, v3 => v1 < v4 /\ v4 <= v1 + EnginePeriod,
           NEW until \in Nat, v1 <= until
    PROVE  \E d \in Nat, x \in Nat :
             /\ Source!Delivered(until) = d /\ x = d * EnginePeriod
             /\ v3 => until < v4 + x /\ v4 + x <= until + EnginePeriod
             /\ ~v3 => x = 0
<1>1. CASE v3 /\ v4 <= until
  <2>1. until - v4 \in Nat
    BY <1>1 DEF Source!TypeOK
  <2>2. PICK q : q = (until - v4) \div EnginePeriod
    OBVIOUS
  <2>3. PICK r : r = (until - v4) % EnginePeriod
    OBVIOUS
  <2>4. q \in Nat /\ r \in 0 .. EnginePeriod - 1 /\ until - v4 = EnginePeriod * q + r
    BY <2>1, <2>2, <2>3, WholeParts, SourceNumbers, Zenon
  <2>5. (q + 1) * EnginePeriod = EnginePeriod * q + EnginePeriod /\ EnginePeriod * q \in Nat
    BY <2>4, SourceNumbers
  <2>6. Source!Delivered(until) = q + 1
    BY <1>1, <2>2 DEF Source!Delivered
  <2>7. PICK x \in Nat : x = (q + 1) * EnginePeriod
    BY <2>5, SourceNumbers
  <2>8. until < v4 + x /\ v4 + x <= until + EnginePeriod
    BY <2>4, <2>5, <2>7, SourceNumbers DEF Source!TypeOK
  <2> QED BY <1>1, <2>4, <2>6, <2>7, <2>8
<1>2. CASE ~(v3 /\ v4 <= until)
  <2>1. Source!Delivered(until) = 0 /\ 0 = 0 * EnginePeriod
    BY <1>2, SourceNumbers DEF Source!Delivered
  <2>2. v3 => until < v4 + 0 /\ v4 + 0 <= until + EnginePeriod
    BY <1>2, SourceNumbers DEF Source!TypeOK
  <2> QED BY <2>1, <2>2
<1> QED BY <1>1, <1>2

\* SendInv as inequalities between products that are named.
LEMMA SourceAsNumbers ==
    ASSUME Source!SendInv
    PROVE  \E n \in Nat, before \in Nat, S \in Nat, nP \in Nat, bP \in Nat, tP \in Nat, fG \in Nat :
             /\ S = (v8 + v9) * v2 /\ nP = n * EnginePeriod /\ bP = before * EnginePeriod
             /\ tP = v11 * EnginePeriod /\ fG = v12 * Source!LongestGap
             /\ before <= v11 /\ bP <= tP
             /\ before < v11 => bP + EnginePeriod <= tP
             /\ nP <= v6 + v5
             /\ S + v6 + v5 <= v7 - Grace + nP + bP
             /\ v3 /\ before = v11 => v4 <= v7 - Grace + EnginePeriod + nP
             /\ S + v6 + v5 <= (IF v3 THEN v4 - EnginePeriod ELSE v1) + tP
             /\ v7 <= v10 + Grace
             /\ v1 <= v10 + Grace + fG
<1>1. PICK n \in 0 .. v6 + v5, before \in 0 .. v11 : Source!SinceSound(n, before)
  BY DEF Source!SendInv
<1>2. Source!TypeOK
  BY DEF Source!SendInv
<1>3. n \in Nat /\ before \in Nat /\ v11 \in Nat /\ v12 \in Nat /\ v8 + v9 \in Nat /\ v2 \in Nat
  BY <1>1, <1>2, SourceNumbers DEF Source!TypeOK
<1>4. PICK S \in Nat : S = (v8 + v9) * v2
  BY <1>3
<1>5. PICK nP \in Nat : nP = n * EnginePeriod
  BY <1>3, SourceNumbers
<1>6. PICK bP \in Nat : bP = before * EnginePeriod
  BY <1>3, SourceNumbers
<1>7. PICK tP \in Nat : tP = v11 * EnginePeriod
  BY <1>3, SourceNumbers
<1>8. PICK fG \in Nat : fG = v12 * Source!LongestGap
  BY <1>3, SourceNumbers
<1>9. before < v11 => bP + EnginePeriod <= tP
  BY <1>3, <1>6, <1>7, SourceNumbers, TimesOrder
<1>10. before <= v11 /\ bP <= tP
  <2>1. CASE before = v11
    BY <1>6, <1>7, <2>1
  <2>2. CASE before < v11
    BY <1>3, <1>9, <2>2, SourceNumbers
  <2> QED BY <1>1, <1>3, <2>1, <2>2
<1>11. /\ nP <= v6 + v5
       /\ S + v6 + v5 <= v7 - Grace + nP + bP
       /\ v3 /\ before = v11 => v4 <= v7 - Grace + EnginePeriod + nP
  BY <1>1, <1>4, <1>5, <1>6 DEF Source!SinceSound, Source!Taken
<1>12. /\ S + v6 + v5 <= (IF v3 THEN v4 - EnginePeriod ELSE v1) + tP
       /\ v7 <= v10 + Grace
       /\ v1 <= v10 + Grace + fG
  BY <1>4, <1>7, <1>8 DEF Source!SendInv, Source!Taken, Source!Elapsed
<1> QED BY <1>3, <1>4, <1>5, <1>6, <1>7, <1>8, <1>9, <1>10, <1>11, <1>12, Zenon

LEMMA FewPeriods ==
    ASSUME NEW n \in Nat, NEW w \in Nat, w = n * EnginePeriod, NEW a \in Nat, NEW b \in Nat,
           w <= (a + b)
    PROVE  n \in 0 .. a + b
<1>1. n <= w
  BY SourceNumbers, TimesStep
<1> QED BY <1>1

LEMMA FewTurns ==
    ASSUME NEW n \in Nat, NEW a \in Nat, n <= a
    PROVE  n \in 0 .. a
OBVIOUS

\* The other way about, of the state after a step.
LEMMA NumbersAsSource ==
    ASSUME Source!TypeOK', (v3 => v1 < v4 /\ v4 <= v1 + EnginePeriod)',
           NEW n \in Nat, NEW before \in Nat, NEW S \in Nat, NEW nP \in Nat, NEW bP \in Nat,
           NEW tP \in Nat, NEW fG \in Nat,
           S = ((v8 + v9) * v2)', nP = n * EnginePeriod, bP = before * EnginePeriod,
           tP = v11' * EnginePeriod, fG = v12' * Source!LongestGap,
           before <= v11', nP <= (v6 + v5)',
           S + (v6 + v5)' <= v7' - Grace + nP + bP,
           v3' /\ before = v11' => v4' <= v7' - Grace + EnginePeriod + nP,
           S + (v6 + v5)' <= (IF v3 THEN v4 - EnginePeriod ELSE v1)' + tP,
           v7' <= v10' + Grace,
           v1' <= v10' + Grace + fG
    PROVE  Source!SendInv'
<1>1. v5' \in Nat /\ v6' \in Nat /\ v11' \in Nat
  BY DEF Source!TypeOK
<1>2. n \in 0 .. v6' + v5' /\ before \in 0 .. v11'
  BY <1>1, FewPeriods, FewTurns, Zenon
<1>3. Source!SinceSound(n, before)'
  BY DEF Source!SinceSound, Source!Taken, Source!TypeOK
<1>4. (\E m \in 0 .. v6 + v5, b \in 0 .. v11 : Source!SinceSound(m, b))'
  BY <1>2, <1>3
<1>5. (Source!Taken <= Source!Elapsed + v11 * EnginePeriod)'
  BY DEF Source!Taken, Source!Elapsed, Source!TypeOK
<1>6. (v1 <= v10 + Grace + v12 * Source!LongestGap)'
  BY DEF Source!LongestGap
<1> QED BY <1>4, <1>5, <1>6 DEF Source!SendInv

LEMMA SourceKeptByTurn ==
    ASSUME Source!SendInv, Source!Turn
    PROVE  Source!SendInv'
<1>1. Source!TypeOK /\ (v3 => v1 < v4 /\ v4 <= v1 + EnginePeriod)
  BY DEF Source!SendInv
<1>2. PICK n \in Nat, before \in Nat, S \in Nat, nP \in Nat, bP \in Nat, tP \in Nat, fG \in Nat :
        /\ S = (v8 + v9) * v2 /\ nP = n * EnginePeriod /\ bP = before * EnginePeriod
        /\ tP = v11 * EnginePeriod /\ fG = v12 * Source!LongestGap
        /\ before <= v11 /\ bP <= tP
        /\ before < v11 => bP + EnginePeriod <= tP
        /\ nP <= v6 + v5
        /\ S + v6 + v5 <= v7 - Grace + nP + bP
        /\ v3 /\ before = v11 => v4 <= v7 - Grace + EnginePeriod + nP
        /\ S + v6 + v5 <= (IF v3 THEN v4 - EnginePeriod ELSE v1) + tP
        /\ v7 <= v10 + Grace
        /\ v1 <= v10 + Grace + fG
  BY SourceAsNumbers, Zenon
<1>3. /\ v11' = v11 + 1 /\ v3' = ~v3 /\ v4' = v1 + EnginePeriod
      /\ v1' = v1 /\ v2' = v2 /\ v5' = v5 /\ v6' = v6 /\ v7' = v7 /\ v8' = v8 /\ v9' = v9
      /\ v10' = v10 /\ v12' = v12
  BY DEF Source!Turn
<1>4. /\ v1 \in Nat /\ v4 \in Nat /\ v5 \in Nat /\ v6 \in Nat /\ v7 \in Nat
      /\ v10 \in Nat /\ v11 \in Nat /\ EnginePeriod \in Nat \ {0} /\ Grace \in Nat
  BY <1>1, SourceNumbers DEF Source!TypeOK
<1>5. Source!TypeOK' /\ (v3 => v1 < v4 /\ v4 <= v1 + EnginePeriod)'
  BY <1>1, <1>3, <1>4 DEF Source!TypeOK
<1>6. PICK uP \in Nat : uP = tP + EnginePeriod
  BY <1>4
<1>7. uP = v11' * EnginePeriod
  BY <1>2, <1>3, <1>4, <1>6, TimesStep
<1>8. S = ((v8 + v9) * v2)' /\ fG = v12' * Source!LongestGap
  BY <1>2, <1>3
<1>9. before <= v11' /\ before # v11'
  BY <1>2, <1>3, <1>4
<1>10. /\ nP <= (v6 + v5)'
       /\ S + (v6 + v5)' <= v7' - Grace + nP + bP
       /\ v7' <= v10' + Grace
       /\ v1' <= v10' + Grace + fG
  BY <1>2, <1>3, <1>4
<1>11. S + (v6 + v5)' <= (IF v3 THEN v4 - EnginePeriod ELSE v1)' + uP
  <2>1. S + v6 + v5 <= v1 + tP + EnginePeriod
    BY <1>1, <1>2, <1>4
  <2>2. (IF v3 THEN v4 - EnginePeriod ELSE v1)' = v1
    BY <1>3, <1>4
  <2> QED BY <1>3, <1>4, <1>6, <2>1, <2>2
<1>12. nP = n * EnginePeriod /\ bP = before * EnginePeriod
  BY <1>2
<1> QED BY <1>5, <1>7, <1>8, <1>9, <1>10, <1>11, <1>12, NumbersAsSource, Zenon

\* A sleep hands over x, in d periods, and the turns are as many as before.
LEMMA SleptNumbers ==
    ASSUME Source!SendInv, NEW gap \in PollGaps, Source!Sleep(gap)
    PROVE  \E d \in Nat, x \in Nat :
             /\ Source!Delivered(v1') = d /\ x = d * EnginePeriod
             /\ v1' = v1 + gap /\ v4' = v4 + x
             /\ v3 => v1' < v4 + x /\ v4 + x <= v1' + EnginePeriod
             /\ ~v3 => x = 0
<1>1. Source!TypeOK /\ (v3 => v1 < v4 /\ v4 <= v1 + EnginePeriod)
  BY DEF Source!SendInv
<1>2. v1' = v1 + gap /\ v4' = v4 + Source!Delivered(v1') * EnginePeriod
  BY DEF Source!Sleep, Source!Delivered
<1>3. v1' \in Nat /\ v1 <= v1'
  BY <1>1, <1>2, SourceNumbers DEF Source!TypeOK
<1>4. PICK until \in Nat : until = v1'
  BY <1>3
<1>5. PICK d \in Nat, x \in Nat :
             /\ Source!Delivered(until) = d /\ x = d * EnginePeriod
             /\ v3 => until < v4 + x /\ v4 + x <= until + EnginePeriod
             /\ ~v3 => x = 0
  BY <1>1, <1>3, <1>4, HandedOver
<1> QED BY <1>2, <1>4, <1>5

LEMMA SourceKeptByFailedPoll ==
    ASSUME Source!SendInv, Source!FailedPoll
    PROVE  Source!SendInv'
<1>1. Source!TypeOK
  BY DEF Source!SendInv
<1>2. PICK n \in Nat, before \in Nat, S \in Nat, nP \in Nat, bP \in Nat, tP \in Nat, fG \in Nat :
        /\ S = (v8 + v9) * v2 /\ nP = n * EnginePeriod /\ bP = before * EnginePeriod
        /\ tP = v11 * EnginePeriod /\ fG = v12 * Source!LongestGap
        /\ before <= v11 /\ bP <= tP
        /\ before < v11 => bP + EnginePeriod <= tP
        /\ nP <= v6 + v5
        /\ S + v6 + v5 <= v7 - Grace + nP + bP
        /\ v3 /\ before = v11 => v4 <= v7 - Grace + EnginePeriod + nP
        /\ S + v6 + v5 <= (IF v3 THEN v4 - EnginePeriod ELSE v1) + tP
        /\ v7 <= v10 + Grace
        /\ v1 <= v10 + Grace + fG
  BY SourceAsNumbers, Zenon
<1>3. PICK gap \in PollGaps :
        Source!Sleep(gap) /\ v5' = v5 + Source!Delivered(v1') * EnginePeriod
  BY DEF Source!FailedPoll, Source!Delivered
<1>4. PICK d \in Nat, x \in Nat :
             /\ Source!Delivered(v1') = d /\ x = d * EnginePeriod
             /\ v1' = v1 + gap /\ v4' = v4 + x
             /\ v3 => v1' < v4 + x /\ v4 + x <= v1' + EnginePeriod
             /\ ~v3 => x = 0
  BY <1>3, SleptNumbers
<1>5. /\ v5' = v5 + x /\ v12' = v12 + 1
      /\ v2' = v2 /\ v3' = v3 /\ v6' = v6 /\ v7' = v7 /\ v8' = v8 /\ v9' = v9
      /\ v10' = v10 /\ v11' = v11
  BY <1>3, <1>4 DEF Source!FailedPoll
<1>6. /\ v1 \in Nat /\ v4 \in Nat /\ v5 \in Nat /\ v6 \in Nat /\ v7 \in Nat /\ v10 \in Nat
      /\ v11 \in Nat /\ v12 \in Nat /\ EnginePeriod \in Nat \ {0} /\ Grace \in Nat
      /\ gap \in Nat /\ gap <= Source!LongestGap /\ Source!LongestGap \in Nat
  BY <1>1, SourceNumbers DEF Source!TypeOK
<1>7. Source!TypeOK' /\ (v3 => v1 < v4 /\ v4 <= v1 + EnginePeriod)'
  <2>1. Source!TypeOK'
    BY <1>1, <1>4, <1>5, <1>6 DEF Source!TypeOK
  <2> QED BY <1>4, <1>5, <2>1
<1>8. PICK m \in Nat : m = n + d
  OBVIOUS
<1>9. PICK mP \in Nat : mP = nP + x
  OBVIOUS
<1>10. mP = m * EnginePeriod
  BY <1>2, <1>4, <1>6, <1>8, <1>9, TimesStep
<1>11. PICK gG \in Nat : gG = fG + Source!LongestGap
  BY <1>6
<1>12. gG = v12' * Source!LongestGap
  BY <1>2, <1>5, <1>6, <1>11, TimesStep
<1>13. /\ S = ((v8 + v9) * v2)' /\ tP = v11' * EnginePeriod /\ before <= v11'
       /\ bP = before * EnginePeriod
  BY <1>2, <1>5
<1>14. /\ mP <= (v6 + v5)'
       /\ S + (v6 + v5)' <= v7' - Grace + mP + bP
       /\ v7' <= v10' + Grace
  BY <1>2, <1>5, <1>6, <1>9
<1>15. v3' /\ before = v11' => v4' <= v7' - Grace + EnginePeriod + mP
  BY <1>2, <1>4, <1>5, <1>6, <1>9
<1>16. S + (v6 + v5)' <= (IF v3 THEN v4 - EnginePeriod ELSE v1)' + tP
  <2>1. CASE v3
    <3>1. S + v6 + v5 + x <= v4 - EnginePeriod + x + tP
      BY <1>2, <1>6, <2>1
    <3> QED BY <1>4, <1>5, <1>6, <2>1, <3>1
  <2>2. CASE ~v3
    <3>1. S + v6 + v5 <= v1 + tP
      BY <1>2, <2>2
    <3> QED BY <1>4, <1>5, <1>6, <2>2, <3>1
  <2> QED BY <2>1, <2>2
<1>17. v1' <= v10' + Grace + gG
  BY <1>2, <1>4, <1>5, <1>6, <1>11
<1> QED BY <1>7, <1>10, <1>12, <1>13, <1>14, <1>15, <1>16, <1>17, NumbersAsSource, Zenon

\* The frames and the silence of a poll.
LEMMA SourceKeptByPoll ==
    ASSUME Source!SendInv, Source!Poll
    PROVE  Source!SendInv'
<1>1. Source!TypeOK
  BY DEF Source!SendInv
<1>2. PICK n \in Nat, before \in Nat, S \in Nat, nP \in Nat, bP \in Nat, tP \in Nat, fG \in Nat :
        /\ S = (v8 + v9) * v2 /\ nP = n * EnginePeriod /\ bP = before * EnginePeriod
        /\ tP = v11 * EnginePeriod /\ fG = v12 * Source!LongestGap
        /\ before <= v11 /\ bP <= tP
        /\ before < v11 => bP + EnginePeriod <= tP
        /\ nP <= v6 + v5
        /\ S + v6 + v5 <= v7 - Grace + nP + bP
        /\ v3 /\ before = v11 => v4 <= v7 - Grace + EnginePeriod + nP
        /\ S + v6 + v5 <= (IF v3 THEN v4 - EnginePeriod ELSE v1) + tP
        /\ v7 <= v10 + Grace
        /\ v1 <= v10 + Grace + fG
  BY SourceAsNumbers, Zenon
<1>3. PICK gap \in PollGaps :
        /\ Source!Sleep(gap)
        /\ LET got == v6 + v5 + Source!Delivered(v1') * EnginePeriod
               frames == got \div v2
               fill == Source!Fill(frames, v1')
           IN  /\ v5' = 0 /\ v6' = got % v2
               /\ v8' = v8 + frames /\ v9' = v9 + fill
               /\ v7' = (IF frames > 0 THEN v1' + Grace ELSE v7 + fill * v2)
               /\ v10' = (IF frames + fill > 0 THEN v1' ELSE v10)
  BY DEF Source!Poll, Source!Delivered, Source!Fill
<1>4. PICK d \in Nat, x \in Nat :
             /\ Source!Delivered(v1') = d /\ x = d * EnginePeriod
             /\ v1' = v1 + gap /\ v4' = v4 + x
             /\ v3 => v1' < v4 + x /\ v4 + x <= v1' + EnginePeriod
             /\ ~v3 => x = 0
  BY <1>3, SleptNumbers
<1>5. /\ v1 \in Nat /\ v4 \in Nat /\ v5 \in Nat /\ v6 \in Nat /\ v7 \in Nat /\ v8 \in Nat
      /\ v9 \in Nat /\ v10 \in Nat /\ v11 \in Nat /\ v12 \in Nat
      /\ v2 \in FrameSizes /\ v2 \in Nat \ {0} /\ v2 + EnginePeriod <= Grace
      /\ EnginePeriod \in Nat \ {0} /\ Grace \in Nat /\ gap \in Nat \ {0}
      /\ gap <= Source!LongestGap /\ Source!LongestGap \in Nat
  BY <1>1, SourceNumbers DEF Source!TypeOK
<1>6. PICK got \in Nat : got = v6 + v5 + x
  BY <1>5
<1>7. PICK frames : frames = got \div v2
  OBVIOUS
<1>8. PICK rest : rest = got % v2
  OBVIOUS
<1>9. PICK fill : fill = Source!Fill(frames, v1')
  OBVIOUS
<1>10. /\ v5' = 0 /\ v6' = rest /\ v8' = v8 + frames /\ v9' = v9 + fill
       /\ v7' = (IF frames > 0 THEN v1' + Grace ELSE v7 + fill * v2)
       /\ v10' = (IF frames + fill > 0 THEN v1' ELSE v10)
       /\ v2' = v2 /\ v3' = v3 /\ v11' = v11 /\ v12' = v12
  BY <1>3, <1>4, <1>6, <1>7, <1>8, <1>9 DEF Source!Poll
<1>11. frames \in Nat /\ rest \in 0 .. v2 - 1 /\ got = v2 * frames + rest
  BY <1>5, <1>6, <1>7, <1>8, WholeParts, Zenon
<1>12. PICK real \in Nat : real = frames * v2 /\ got = real + rest
  BY <1>5, <1>11
<1>13. fill \in Nat /\ \E y \in Nat :
         /\ y = fill * v2
         /\ frames > 0 => fill = 0
         /\ frames = 0 /\ v1' < v7 => fill = 0
         /\ frames = 0 /\ v7 <= v1' => fill > 0 /\ v1' < v7 + y /\ v7 + y <= v1' + v2
  <2>1. CASE frames > 0 \/ v1' < v7
    <3>1. fill = 0
      BY <1>9, <2>1 DEF Source!Fill
    <3> QED BY <1>4, <1>5, <1>11, <2>1, <3>1
  <2>2. CASE frames = 0 /\ v7 <= v1'
    <3>1. v1' - v7 \in Nat
      BY <1>4, <1>5, <2>2
    <3>2. PICK late \in Nat : late = v1' - v7
      BY <3>1
    <3>3. fill = (late \div v2) + 1
      BY <1>4, <1>5, <1>9, <2>2, <3>2 DEF Source!Fill
    <3>4. PICK q : q = late \div v2
      OBVIOUS
    <3>5. PICK r : r = late % v2
      OBVIOUS
    <3>6. q \in Nat /\ r \in 0 .. v2 - 1 /\ late = v2 * q + r
      BY <1>5, <3>2, <3>4, <3>5, WholeParts, Zenon
    <3>7. fill = q + 1
      BY <3>3, <3>4
    <3>8. PICK y \in Nat : y = (q + 1) * v2 /\ y = v2 * q + v2
      BY <1>5, <3>6
    <3>9. v1' < v7 + y /\ v7 + y <= v1' + v2
      BY <1>4, <1>5, <3>2, <3>6, <3>8
    <3>10. fill \in Nat /\ fill > 0 /\ ~(frames > 0) /\ ~(v1' < v7)
      BY <1>4, <1>5, <2>2, <3>6, <3>7
    <3>11. y = fill * v2
      BY <3>7, <3>8
    <3> QED BY <2>2, <3>9, <3>10, <3>11, Zenon
  <2> QED BY <1>4, <1>5, <1>11, <2>1, <2>2
<1>14. PICK y \in Nat :
         /\ y = fill * v2
         /\ frames > 0 => fill = 0
         /\ frames = 0 /\ v1' < v7 => fill = 0
         /\ frames = 0 /\ v7 <= v1' => fill > 0 /\ v1' < v7 + y /\ v7 + y <= v1' + v2
  BY <1>13
<1>15. PICK T \in Nat : T = S + real + y /\ T = ((v8 + v9) * v2)'
  <2>1. (v8 + frames + (v9 + fill)) * v2 = (v8 + v9) * v2 + frames * v2 + fill * v2
    BY <1>5, <1>11, <1>13
  <2>2. ((v8 + v9) * v2)' = (v8 + frames + (v9 + fill)) * v2
    BY <1>10
  <2>3. PICK T \in Nat : T = S + real + y
    OBVIOUS
  <2>4. T = ((v8 + v9) * v2)'
    BY <1>2, <1>12, <1>14, <2>1, <2>2, <2>3
  <2> QED BY <2>3, <2>4
<1>16. Source!TypeOK' /\ (v3 => v1 < v4 /\ v4 <= v1 + EnginePeriod)'
  <2>1. v7' \in Nat /\ v10' \in Nat /\ v1' \in Nat
    BY <1>4, <1>5, <1>10, <1>14
  <2>2. rest \in Nat
    BY <1>5, <1>11
  <2>3. Source!TypeOK'
    BY <1>1, <1>4, <1>5, <1>10, <1>11, <1>13, <2>1, <2>2 DEF Source!TypeOK
  <2> QED BY <1>4, <1>10, <2>3
<1>17. tP = v11' * EnginePeriod /\ fG = v12' * Source!LongestGap /\ bP = before * EnginePeriod
  BY <1>2, <1>10
<1>18. S + v6 + v5 + x <= (IF v3 THEN v4 + x - EnginePeriod ELSE v1') + tP
  <2>1. CASE v3
    BY <1>2, <1>4, <1>5, <2>1
  <2>2. CASE ~v3
    <3>1. S + v6 + v5 <= v1 + tP
      BY <1>2, <2>2
    <3> QED BY <1>4, <1>5, <2>2, <3>1
  <2> QED BY <2>1, <2>2
\* A frame of sound: from here on it is counted anew.
<1>19. CASE frames > 0
  <2>1. v7' = v1' + Grace /\ v10' = v1' /\ y = 0 /\ v5' = 0 /\ v6' = rest /\ fill = 0
    <3>1. fill = 0
      BY <1>14, <1>19
    <3>2. y = 0 * v2 /\ 0 * v2 = 0
      BY <1>5, <1>14, <3>1
    <3>3. frames + fill > 0
      BY <1>11, <1>19, <3>1
    <3> QED BY <1>10, <1>19, <3>1, <3>2, <3>3, Zenon
  <2>2. T + rest = S + v6 + v5 + x
    BY <1>5, <1>6, <1>11, <1>12, <1>15, <2>1
  <2>3. 0 = 0 * EnginePeriod /\ 0 <= v6' + v5'
    BY <1>5, <1>11, <2>1
  <2>4. T + (v6 + v5)' <= (IF v3 THEN v4 - EnginePeriod ELSE v1)' + tP
    BY <1>4, <1>5, <1>10, <1>11, <1>18, <2>1, <2>2
  <2>5. T + (v6 + v5)' <= v7' - Grace + 0 + tP
    <3>1. (IF v3 THEN v4 + x - EnginePeriod ELSE v1') <= v1'
      BY <1>4, <1>5
    <3>2. (IF v3 THEN v4 + x - EnginePeriod ELSE v1') \in Int
      BY <1>4, <1>5
    <3>3. T + rest <= v1' + tP
      BY <1>4, <1>5, <1>11, <1>18, <2>2, <3>1, <3>2
    <3> QED BY <1>4, <1>5, <1>11, <2>1, <3>3
  <2>6. v3' /\ v11 = v11' => v4' <= v7' - Grace + EnginePeriod + 0
    BY <1>4, <1>5, <1>10, <2>1
  <2>7. v7' <= v10' + Grace /\ v1' <= v10' + Grace + fG
    BY <1>4, <1>5, <2>1
  <2>8. v11 <= v11' /\ tP = v11 * EnginePeriod /\ v11 \in Nat
    BY <1>2, <1>5, <1>10
  <2> QED BY <1>15, <1>16, <1>17, <2>3, <2>4, <2>5, <2>6, <2>7, <2>8, <1>10, NumbersAsSource,
     Zenon
<1>20. CASE frames = 0
  <2>1. got = rest /\ real = 0 /\ v5' = 0 /\ v6' = got /\ T = S + y /\ got < v2 /\ v7' = v7 + y
    BY <1>5, <1>10, <1>11, <1>12, <1>14, <1>15, <1>20
  <2>2. PICK m \in Nat : m = n + d
    OBVIOUS
  <2>3. PICK mP \in Nat : mP = nP + x
    OBVIOUS
  <2>4. mP = m * EnginePeriod
    BY <1>2, <1>4, <1>5, <2>2, <2>3, TimesStep
  <2>5. mP <= (v6 + v5)' /\ mP <= got
    BY <1>2, <1>5, <1>6, <2>1, <2>3
  <2>6. T + (v6 + v5)' <= v7' - Grace + mP + bP
    BY <1>2, <1>5, <1>6, <2>1, <2>3
  <2>7. CASE v1' < v7
    <3>1. fill = 0 /\ y = 0 /\ v10' = v10 /\ T = S /\ v7' = v7
      BY <1>5, <1>10, <1>14, <1>20, <2>1, <2>7
    <3>2. v3' /\ before = v11' => v4' <= v7' - Grace + EnginePeriod + mP
      BY <1>2, <1>4, <1>5, <1>10, <2>3, <3>1
    <3>3. T + (v6 + v5)' <= (IF v3 THEN v4 - EnginePeriod ELSE v1)' + tP
      BY <1>4, <1>5, <1>6, <1>10, <1>18, <2>1, <3>1
    <3>4. v7' <= v10' + Grace /\ v1' <= v10' + Grace + fG
      BY <1>2, <1>4, <1>5, <2>7, <3>1
    <3>5. before <= v11'
      BY <1>2, <1>10
    <3> QED BY <1>15, <1>16, <1>17, <2>4, <2>5, <2>6, <3>2, <3>3, <3>4, <3>5, NumbersAsSource,
       Zenon
  <2>8. CASE v7 <= v1'
    <3>1. fill > 0 /\ v1' < v7 + y /\ v7 + y <= v1' + v2
      BY <1>14, <1>20, <2>8
    <3>2. v10' = v1'
      BY <1>10, <1>13, <1>20, <3>1
    <3>3. v2 + mP <= Grace
      <4>1. m <= mP
        BY <1>5, <2>4, TimesStep
      <4>2. mP < v2
        BY <1>5, <2>1, <2>5
      <4>3. m \in 0 .. v2
        BY <1>5, <4>1, <4>2
      <4>4. m * EnginePeriod < v2 => v2 + m * EnginePeriod <= Grace
        BY <1>5, <4>3, SourceNumbers, Zenon
      <4> QED BY <2>4, <4>2, <4>4
    <3>4. ~(v3 /\ before = v11)
      <4>1. SUFFICES ASSUME v3, before = v11
                     PROVE  FALSE
        OBVIOUS
      <4>2. v4 + x <= v7 - Grace + EnginePeriod + mP
        BY <1>2, <1>5, <2>3, <4>1
      <4>3. v1' < v4 + x
        BY <1>4, <4>1
      <4>4. mP < v2
        BY <1>5, <2>1, <2>5
      <4> QED BY <1>4, <1>5, <2>8, <4>2, <4>3, <4>4
    <3>5. T + got <= v1' + bP
      BY <1>4, <1>5, <2>1, <2>6, <3>1, <3>3
    <3>6. T + (v6 + v5)' <= (IF v3 THEN v4 - EnginePeriod ELSE v1)' + tP
      <4>1. CASE v3
        <5>1. before < v11
          BY <1>2, <1>5, <3>4, <4>1
        <5>2. bP + EnginePeriod <= tP
          BY <1>2, <5>1
        <5>3. v1' < v4 + x
          BY <1>4, <4>1
        <5> QED BY <1>4, <1>5, <1>10, <2>1, <3>5, <4>1, <5>2, <5>3
      <4>2. CASE ~v3
        <5>1. bP <= tP
          BY <1>2
        <5> QED BY <1>4, <1>5, <1>10, <2>1, <3>5, <4>2, <5>1
      <4> QED BY <4>1, <4>2
    <3>7. v7' <= v10' + Grace /\ v1' <= v10' + Grace + fG
      BY <1>4, <1>5, <2>1, <3>1, <3>2
    <3>8. before <= v11' /\ ~(v3' /\ before = v11')
      BY <1>2, <1>10, <3>4
    <3> QED BY <1>15, <1>16, <1>17, <2>4, <2>5, <2>6, <3>6, <3>7, <3>8, NumbersAsSource,
       Zenon
  <2> QED BY <1>4, <1>5, <2>7, <2>8
<1> QED BY <1>11, <1>19, <1>20

LEMMA SourceStart ==
    ASSUME Source!Init
    PROVE  Source!SendInv
<1>1. v2 \in FrameSizes /\ v2 \in Nat /\ EnginePeriod \in Nat \ {0} /\ Grace \in Nat
      /\ Source!LongestGap \in Nat
  BY SourceNumbers DEF Source!Init
<1>2. Source!TypeOK /\ (v3 => v1 < v4 /\ v4 <= v1 + EnginePeriod)
  BY <1>1 DEF Source!Init, Source!TypeOK
<1>3. 0 * EnginePeriod = 0 /\ (0 + 0) * v2 = 0 /\ 0 * Source!LongestGap = 0
  BY <1>1
<1>4. Source!Taken = 0
  BY <1>3 DEF Source!Init, Source!Taken
<1>5. Source!SinceSound(0, 0)
  BY <1>1, <1>3, <1>4 DEF Source!Init, Source!SinceSound
<1>6. 0 \in 0 .. v6 + v5 /\ 0 \in 0 .. v11
  BY DEF Source!Init
<1>7. Source!Taken <= Source!Elapsed + v11 * EnginePeriod
  BY <1>1, <1>3, <1>4 DEF Source!Init, Source!Elapsed
<1>8. v7 <= v10 + Grace /\ v1 <= v10 + Grace + v12 * Source!LongestGap
  BY <1>1, <1>3 DEF Source!Init
<1> QED BY <1>2, <1>5, <1>6, <1>7, <1>8 DEF Source!SendInv

LEMMA SourceKept ==
    ASSUME Source!SendInv, Source!Next
    PROVE  Source!SendInv'
BY SourceKeptByTurn, SourceKeptByFailedPoll, SourceKeptByPoll DEF Source!Next

LEMMA SourceIsInTime ==
    ASSUME Source!SendInv
    PROVE  Source!StreamKeepsTime
<1>1. Source!TypeOK
  BY DEF Source!SendInv
<1>2. PICK n \in Nat, before \in Nat, S \in Nat, nP \in Nat, bP \in Nat, tP \in Nat, fG \in Nat :
        /\ S = (v8 + v9) * v2 /\ nP = n * EnginePeriod /\ bP = before * EnginePeriod
        /\ tP = v11 * EnginePeriod /\ fG = v12 * Source!LongestGap
        /\ before <= v11 /\ bP <= tP
        /\ before < v11 => bP + EnginePeriod <= tP
        /\ nP <= v6 + v5
        /\ S + v6 + v5 <= v7 - Grace + nP + bP
        /\ v3 /\ before = v11 => v4 <= v7 - Grace + EnginePeriod + nP
        /\ S + v6 + v5 <= (IF v3 THEN v4 - EnginePeriod ELSE v1) + tP
        /\ v7 <= v10 + Grace
        /\ v1 <= v10 + Grace + fG
  BY SourceAsNumbers, Zenon
<1>3. v3 => v1 < v4 /\ v4 <= v1 + EnginePeriod
  BY DEF Source!SendInv
<1>4. /\ v1 \in Nat /\ v4 \in Nat /\ v5 \in Nat /\ v6 \in Nat /\ v10 \in Nat /\ v12 \in Nat
      /\ EnginePeriod \in Nat /\ Grace \in Nat /\ Source!LongestGap \in Nat
  BY <1>1, SourceNumbers DEF Source!TypeOK
<1>5. S <= v1 + tP
  BY <1>2, <1>3, <1>4
<1>6. (v12 + 1) * Source!LongestGap = fG + Source!LongestGap
  BY <1>2, <1>4, TimesStep
<1>7. v1 - v10 <= Grace + (fG + Source!LongestGap)
  BY <1>2, <1>4
<1>8. (v8 + v9) * v2 <= v1 + v11 * EnginePeriod
  BY <1>2, <1>5
<1>9. v1 - v10 <= Grace + (v12 + 1) * Source!LongestGap
  BY <1>6, <1>7
<1> QED BY <1>8, <1>9 DEF Source!StreamKeepsTime

LEMMA SourceStays ==
    ASSUME Source!SendInv, UNCHANGED vars
    PROVE  Source!SendInv'
<1>1. Source!TypeOK' /\ Source!Taken' = Source!Taken /\ Source!Elapsed' = Source!Elapsed
      /\ Source!LongestGap' = Source!LongestGap
  BY DEF vars, Source!SendInv, Source!TypeOK, Source!Taken, Source!Elapsed, Source!LongestGap
<1> QED BY <1>1 DEF vars, Source!SendInv, Source!SinceSound

-----------------------------------------------------------------------------
(* AudioReorder.  v1 sent, v2 flying, v3 next, v4 held, v5 place, v6 first, *)
(* v7 played, v8 arrived, v9 early, v10 copies.                            *)

LEMMA ReorderNumbers ==
    /\ AudioIds \in Nat \ {0} /\ WINDOW \in Nat \ {0} /\ RESYNC_AHEAD \in Nat
    /\ MaxLag \in Nat \ {0} /\ MaxLag <= RESYNC_AHEAD
    /\ WINDOW < RESYNC_AHEAD /\ RESYNC_AHEAD < AudioIds
    /\ AudioIds \div 2 \in Nat /\ RESYNC_AHEAD <= AudioIds \div 2
    /\ AudioIds - RESYNC_AHEAD >= AudioIds \div 2 /\ AudioIds \div 2 < AudioIds
BY ReorderAssumption DEF Reorder!ReorderBounds

\* The distance between two ids is that of what they stand for, gone round.
LEMMA DistanceOnCircle ==
    ASSUME NEW s \in Nat \ {0}, NEW a \in Int, NEW b \in Int
    PROVE  ((a % s) - (b % s)) % s = (a - b) % s
<1>1. PICK x \in Int : x = a % s
  BY QuotientAndRest
<1>2. PICK p \in Int : a = s * p + x
  BY <1>1, QuotientAndRest, Zenon
<1>3. PICK y \in Int : y = b % s
  BY QuotientAndRest
<1>4. PICK q \in Int : b = s * q + y
  BY <1>3, QuotientAndRest, Zenon
<1>5. PICK n \in Int : n = a - b
  OBVIOUS
<1>6. PICK r \in 0 .. s - 1 : r = n % s
  BY QuotientAndRest
<1>7. PICK t \in Int : n = s * t + r
  BY <1>6, QuotientAndRest, Zenon
<1>8. PICK u \in Int : u = t - p + q
  OBVIOUS
<1>9. s * u = s * t - s * p + s * q
  BY <1>2, <1>4, <1>7, <1>8
<1>10. PICK d \in Int : d = x - y
  OBVIOUS
<1>11. d = s * u + r
  BY <1>2, <1>4, <1>5, <1>7, <1>9, <1>10
<1>12. d % s = r
  BY <1>8, <1>10, <1>11, OneRest, Zenon
<1> QED BY <1>1, <1>3, <1>5, <1>6, <1>10, <1>12

LEMMA SmallRest ==
    ASSUME NEW s \in Nat \ {0}, NEW n \in Int, 0 - s <= n, n < s
    PROVE  n % s = IF n < 0 THEN n + s ELSE n
<1>1. CASE n < 0
  <2>1. n + s \in 0 .. s - 1 /\ n = s * (0 - 1) + (n + s) /\ 0 - 1 \in Int
    BY <1>1
  <2> QED BY <1>1, <2>1, OneRest
<1>2. CASE ~(n < 0)
  <2>1. n \in 0 .. s - 1 /\ n = s * 0 + n
    BY <1>2
  <2> QED BY <1>2, <2>1, OneRest
<1> QED BY <1>1, <1>2

\* How far a packet near the position is ahead of it, and whether it has played.
LEMMA AheadIsHowFar ==
    ASSUME NEW a \in Nat, NEW b \in Nat, v3 = b % AudioIds,
           0 - AudioIds <= a - b, a - b < AudioIds
    PROVE  Reorder!Ahead(a % AudioIds) = IF a < b THEN a - b + AudioIds ELSE a - b
<1>1. PICK n \in Int : n = a - b
  OBVIOUS
<1>2. ((a % AudioIds) - (b % AudioIds)) % AudioIds = n % AudioIds
  <2>1. a \in Int /\ b \in Int /\ AudioIds \in Nat \ {0}
    BY ReorderNumbers
  <2>2. ((a % AudioIds) - (b % AudioIds)) % AudioIds = (a - b) % AudioIds
    BY <2>1, DistanceOnCircle, Zenon
  <2> QED BY <1>1, <2>2, Zenon
<1>3. n % AudioIds = IF n < 0 THEN n + AudioIds ELSE n
  BY <1>1, ReorderNumbers, SmallRest, Zenon
<1> QED BY <1>1, <1>2, <1>3 DEF Reorder!Ahead

LEMMA WhereItIs ==
    ASSUME Reorder!ReorderInv, NEW p \in v2, v3 # -1
    PROVE  /\ v6 \in Nat /\ v5 \in Nat /\ p \in Nat /\ p < v1 /\ v6 + v5 <= v1
           /\ Reorder!Id(p) \in 0 .. AudioIds - 1
           /\ p < v6 + v5 => Reorder!HasPlayed(Reorder!Id(p))
           /\ p >= v6 + v5 => /\ ~Reorder!HasPlayed(Reorder!Id(p))
                              /\ Reorder!Ahead(Reorder!Id(p)) = p - (v6 + v5)
<1> USE DEF Reorder!NoId
<1>1. /\ v6 \in Nat /\ v5 \in Nat /\ p \in Nat /\ p < v1 /\ v1 \in Nat
      /\ v3 = (v6 + v5) % AudioIds /\ v6 + v5 <= v1 /\ v1 - (v6 + v5) <= AudioIds \div 2
      /\ v1 - p <= MaxLag
  BY DEF Reorder!ReorderInv, Reorder!TypeOK, Reorder!Nearby, Reorder!Id
<1>2. PICK pos \in Nat : pos = v6 + v5
  BY <1>1
<1>3. PICK id : id = Reorder!Id(p)
  OBVIOUS
<1>4. id = p % AudioIds /\ id \in 0 .. AudioIds - 1
  BY <1>1, <1>3, ReorderNumbers, QuotientAndRest DEF Reorder!Id
<1>5. 0 - AudioIds <= p - pos /\ p - pos < AudioIds
  BY <1>1, <1>2, ReorderNumbers
<1>6. Reorder!Ahead(id) = IF p < pos THEN p - pos + AudioIds ELSE p - pos
  BY <1>1, <1>2, <1>4, <1>5, AheadIsHowFar
<1>7. CASE p < pos
  <2>1. Reorder!Ahead(id) >= AudioIds \div 2
    BY <1>1, <1>2, <1>6, <1>7, ReorderNumbers
  <2>2. id # v3
    <3>1. SUFFICES ASSUME id = v3 PROVE FALSE
      OBVIOUS
    <3>2. Reorder!Ahead(id) = 0
      <4>1. id - v3 = 0 /\ 0 % AudioIds = 0
        BY <1>4, <3>1, ReorderNumbers
      <4> QED BY <4>1 DEF Reorder!Ahead
    <3> QED BY <1>1, <1>2, <1>5, <1>6, <1>7, <3>2, ReorderNumbers
  <2>3. Reorder!HasPlayed(id)
    <3>1. ~Reorder!IsNewer(id)
      BY <1>1, <1>2, <1>6, <1>7, <2>1, ReorderNumbers DEF Reorder!IsNewer
    <3> QED BY <2>2, <3>1 DEF Reorder!HasPlayed
  <2> QED BY <1>1, <1>2, <1>3, <1>4, <1>7, <2>3
<1>8. CASE ~(p < pos)
  <2>1. Reorder!Ahead(id) = p - pos
    BY <1>6, <1>8
  <2>2. CASE p = pos
    <3>1. id = v3
      BY <1>1, <1>2, <1>4, <2>2
    <3> QED BY <1>1, <1>2, <1>3, <1>4, <2>1, <2>2, <3>1 DEF Reorder!HasPlayed
  <2>3. CASE p > pos
    <3>1. Reorder!IsNewer(id)
      BY <1>1, <1>2, <2>1, <2>3, ReorderNumbers DEF Reorder!IsNewer
    <3> QED BY <1>1, <1>2, <1>3, <1>4, <2>1, <2>3, <3>1 DEF Reorder!HasPlayed
  <2> QED BY <1>1, <1>2, <1>8, <2>2, <2>3
<1> QED BY <1>7, <1>8

LEMMA RunOnIs ==
    ASSUME NEW present, present \subseteq 0 .. AudioIds - 1, NEW from \in 0 .. AudioIds
    PROVE  /\ Reorder!RunOn(present, from) \in Nat
           /\ Reorder!RunOn(present, from) >= from
           /\ Reorder!RunOn(present, from) \notin present
           /\ \A j \in from .. Reorder!RunOn(present, from) - 1 : j \in present
<1> DEFINE T == {k \in Nat : k >= from /\ k \notin present}
<1>1. from + AudioIds \in T
  BY ReorderNumbers
<1>2. T \subseteq Nat /\ T # {}
  BY <1>1
<1>3. PICK k \in T : \A y \in T : k <= y
  <2> HIDE DEF T
  <2> QED BY <1>2, LeastNumber, Zenon
<1>4. k \in from .. from + AudioIds /\ k \notin present
  BY <1>1, <1>3, ReorderNumbers
<1>5. \A j \in from .. k - 1 : j \in present
  <2>1. SUFFICES ASSUME NEW j \in from .. k - 1, j \notin present PROVE FALSE
    OBVIOUS
  <2>2. j \in T /\ j < k
    BY <1>4, <2>1
  <2> QED BY <1>3, <1>4, <2>2
<1>6. \E e \in from .. from + AudioIds : e \notin present /\ \A j \in from .. e - 1 : j \in present
  BY <1>4, <1>5
<1>7. /\ Reorder!RunOn(present, from) \in from .. from + AudioIds
      /\ Reorder!RunOn(present, from) \notin present
      /\ \A j \in from .. Reorder!RunOn(present, from) - 1 : j \in present
  BY <1>6, Zenon DEF Reorder!RunOn
<1> QED BY <1>7, ReorderNumbers

\* What is given up on reaches to within the window of what came, and each hole in
\* it begins WINDOW or more before that.
LEMMA ReachedIs ==
    ASSUME NEW present, present \subseteq Nat, NEW ahead \in present
    PROVE  LET g == Reorder!Reached(present, ahead) IN
           /\ g \in 0 .. ahead /\ ahead < g + WINDOW
           /\ g > 0 => g - 1 \in present \/ g \in present
           /\ \A j \in 0 .. g - 1 : j \notin present =>
                \E h \in 0 .. j : (\A i \in h .. j : i \notin present) /\ h + WINDOW <= ahead
<1> DEFINE g == Reorder!Reached(present, ahead)
<1>0. WINDOW \in Nat \ {0} /\ ahead \in Nat
  BY ReorderNumbers
<1>1. CASE ahead < WINDOW
  <2>1. g = 0
    BY <1>1 DEF Reorder!Reached, Reorder!Given
  <2> QED BY <1>0, <1>1, <2>1
<1>2. CASE ~(ahead < WINDOW) /\ ahead - WINDOW \in present
  <2>1. g = ahead - WINDOW + 1
    BY <1>2 DEF Reorder!Reached, Reorder!Given
  <2>2. \A j \in 0 .. g - 1 : j \notin present => j + WINDOW <= ahead
    BY <1>0, <1>2, <2>1
  <2>3. \A j \in 0 .. g - 1 : j \notin present =>
                \E h \in 0 .. j : (\A i \in h .. j : i \notin present) /\ h + WINDOW <= ahead
    <3>1. SUFFICES ASSUME NEW j \in 0 .. g - 1, j \notin present
                   PROVE  \E h \in 0 .. j : (\A i \in h .. j : i \notin present) /\ h + WINDOW <= ahead
      OBVIOUS
    <3>2. j \in 0 .. j /\ \A i \in j .. j : i \notin present
      BY <3>1
    <3> QED BY <2>2, <3>1, <3>2
  <2>4. g \in 0 .. ahead /\ ahead < g + WINDOW /\ g - 1 \in present
    BY <1>0, <1>2, <2>1
  <2> QED BY <2>3, <2>4
<1>3. CASE ~(ahead < WINDOW) /\ ahead - WINDOW \notin present
  <2> DEFINE T == {k \in present : k >= ahead - WINDOW}
  <2>1. g = CHOOSE k \in T : \A y \in T : k <= y
    BY <1>3 DEF Reorder!Reached, Reorder!Given, Reorder!Least
  <2>2. ahead \in T /\ T \subseteq Nat
    <3>1. ahead >= ahead - WINDOW
      BY <1>0
    <3>2. ahead \in T
      BY <3>1
    <3> QED BY <3>2, Zenon
  <2>3. \E k \in T : \A y \in T : k <= y
    <3>1. T # {}
      BY <2>2
    <3> HIDE DEF T
    <3> QED BY <2>2, <3>1, LeastNumber, Zenon
  <2>4. g \in T /\ \A y \in T : g <= y
    <3> HIDE DEF T, g
    <3> QED BY <2>1, <2>3
  <2>5. g \in Nat /\ g <= ahead /\ g > ahead - WINDOW /\ g \in present
    <3>1. g \in present /\ g >= ahead - WINDOW /\ g <= ahead
      BY <2>2, <2>4
    <3>2. g # ahead - WINDOW
      BY <1>3, <3>1
    <3> HIDE DEF g
    <3> QED BY <1>0, <3>1, <3>2
  <2>6. \A j \in 0 .. g - 1 : j \notin present =>
                \E h \in 0 .. j : (\A i \in h .. j : i \notin present) /\ h + WINDOW <= ahead
    <3>1. SUFFICES ASSUME NEW j \in 0 .. g - 1, j \notin present
                   PROVE  \E h \in 0 .. j : (\A i \in h .. j : i \notin present) /\ h + WINDOW <= ahead
      OBVIOUS
    <3>2. CASE j <= ahead - WINDOW
      <4>1. j \in 0 .. j /\ (\A i \in j .. j : i \notin present) /\ j + WINDOW <= ahead
        BY <1>0, <3>1, <3>2
      <4> QED BY <4>1
    <3>3. CASE j > ahead - WINDOW
      <4>1. ahead - WINDOW \in 0 .. j /\ (ahead - WINDOW) + WINDOW <= ahead
        BY <1>0, <1>3, <3>1, <3>3
      <4>2. \A i \in ahead - WINDOW .. j : i \notin present
        <5>1. SUFFICES ASSUME NEW i \in ahead - WINDOW .. j, i \in present PROVE FALSE
          OBVIOUS
        <5>2. i \in T
          BY <5>1
        <5>3. g <= i
          BY <2>4, <5>2
        <5> HIDE DEF g
        <5> QED BY <1>0, <2>5, <3>1, <5>1, <5>3
      <4> QED BY <4>1, <4>2
    <3> HIDE DEF g
    <3> QED BY <1>0, <3>1, <3>2, <3>3
  <2> HIDE DEF g
  <2>7. g \in 0 .. ahead /\ ahead < g + WINDOW /\ (g - 1 \in present \/ g \in present)
    BY <1>0, <2>5
  <2> QED BY <2>6, <2>7 DEF g
<1> QED BY <1>1, <1>2, <1>3

\* Where the position gets to when the packet ahead has come.
LEMMA EndIs ==
    ASSUME NEW present, present \subseteq 0 .. AudioIds - 1, NEW ahead \in present,
           \A k \in present : k = ahead \/ k < WINDOW
    PROVE  \E e \in Nat :
             /\ e = Reorder!RunOn(present, Reorder!Reached(present, ahead))
             /\ e \notin present
             /\ e > 0 => e - 1 \in present
             /\ \A k \in present : k >= e => k > e /\ k - e < WINDOW
             /\ \A j \in 0 .. e - 1 : j \notin present =>
                  \E h \in 0 .. j : (\A i \in h .. j : i \notin present) /\ h + WINDOW <= ahead
<1>1. PICK g : g = Reorder!Reached(present, ahead)
  OBVIOUS
<1>2. present \subseteq Nat /\ ahead \in Nat /\ ahead < AudioIds
  BY ReorderNumbers
<1>3. /\ g \in 0 .. ahead /\ ahead < g + WINDOW
      /\ g > 0 => g - 1 \in present \/ g \in present
      /\ \A j \in 0 .. g - 1 : j \notin present =>
           \E h \in 0 .. j : (\A i \in h .. j : i \notin present) /\ h + WINDOW <= ahead
  BY <1>1, <1>2, ReachedIs, Zenon
<1>4. PICK e : e = Reorder!RunOn(present, g)
  OBVIOUS
<1>5. g \in 0 .. AudioIds
  BY <1>2, <1>3, ReorderNumbers
<1>6. e \in Nat /\ e >= g /\ e \notin present /\ \A j \in g .. e - 1 : j \in present
  BY <1>4, <1>5, RunOnIs, Zenon
<1>7. e > 0 => e - 1 \in present
  <2>1. CASE e = g
    BY <1>3, <1>6, <2>1
  <2>2. CASE e > g
    <3>1. e - 1 \in g .. e - 1
      BY <1>3, <1>6, <2>2
    <3> QED BY <1>6, <3>1
  <2> QED BY <1>3, <1>6, <2>1, <2>2
<1>8. \A k \in present : k >= e => k > e /\ k - e < WINDOW
  BY <1>2, <1>3, <1>6, ReorderNumbers
<1>9. ASSUME NEW j \in 0 .. e - 1, j \notin present
      PROVE  \E h \in 0 .. j : (\A i \in h .. j : i \notin present) /\ h + WINDOW <= ahead
  <2>1. j \in 0 .. g - 1
    BY <1>3, <1>6, <1>9
  <2> QED BY <1>3, <1>9, <2>1
<1> QED BY <1>1, <1>4, <1>6, <1>7, <1>8, <1>9

\* What a receipt does to the rest: the packet has come, and flies on at most.
ReorderReceived(p) ==
    /\ v1' = v1 /\ v8' = v8 \cup {p} /\ v2' \subseteq v2

LEMMA ReceivedTyped ==
    ASSUME Reorder!ReorderInv, NEW p \in v2, ReorderReceived(p)
    PROVE  /\ v1' \in Nat /\ v2' \subseteq 0 .. v1' - 1 /\ v8' \subseteq 0 .. v1' - 1
           /\ \A x \in v2' : v1' - x <= MaxLag
           /\ v8 \subseteq v8' /\ p \in v8' /\ p \in 0 .. v1 - 1 /\ v1 \in Nat
           /\ v1 - p <= AudioIds \div 2
<1>1. /\ v1 \in Nat /\ v2 \subseteq 0 .. v1 - 1 /\ v8 \subseteq 0 .. v1 - 1
      /\ \A x \in v2 : v1 - x <= MaxLag
  BY DEF Reorder!ReorderInv, Reorder!TypeOK, Reorder!Nearby
<1>2. p \in 0 .. v1 - 1 /\ v1 - p <= MaxLag
  BY <1>1
<1>3. v1 - p <= AudioIds \div 2
  BY <1>1, <1>2, ReorderNumbers
<1> QED BY <1>1, <1>2, <1>3 DEF ReorderReceived

LEMMA ReorderKeptByBegin ==
    ASSUME Reorder!ReorderInv, NEW p \in v2, Reorder!Begin(p), ReorderReceived(p)
    PROVE  Reorder!ReorderInv'
<1> USE DEF Reorder!NoId
<1>1. /\ v1' \in Nat /\ v2' \subseteq 0 .. v1' - 1 /\ v8' \subseteq 0 .. v1' - 1
      /\ \A x \in v2' : v1' - x <= MaxLag
      /\ v8 \subseteq v8' /\ p \in v8' /\ p \in 0 .. v1 - 1 /\ v1 \in Nat
      /\ v1 - p <= AudioIds \div 2 /\ v1' = v1
  BY ReceivedTyped DEF ReorderReceived
<1>2. /\ v3 = -1 /\ v6 = -1 /\ v4 = {} /\ v9 = {}
  BY DEF Reorder!ReorderInv, Reorder!Nearby, Reorder!Begin
<1>3. /\ v3' = (p + 1) % AudioIds /\ v6' = p /\ v5' = 1 /\ v7' = <<p>> /\ v4' = {} /\ v9' = {}
  BY <1>2 DEF Reorder!Begin, Reorder!Id
<1>4. PICK pos \in Nat : pos = p + 1
  BY <1>1
<1>5. v3' \in Nat
  <2>1. pos % AudioIds \in 0 .. AudioIds - 1
    BY ReorderNumbers, QuotientAndRest
  <2>2. v3' = pos % AudioIds
    BY <1>3, <1>4
  <2> QED BY <2>1, <2>2
<1>6. Reorder!TypeOK'
  BY <1>1, <1>3, <1>5 DEF Reorder!TypeOK
<1>7. Reorder!Nearby'
  <2>1. v3' # -1 /\ v6' # -1
    BY <1>1, <1>3, <1>5
  <2>2. v6' + v5' = p + 1 /\ v6' + v5' <= v1' /\ v1' - (v6' + v5') <= AudioIds \div 2
    BY <1>1, <1>3, ReorderNumbers
  <2>3. v3' = (v6' + v5') % AudioIds
    BY <1>3
  <2> QED BY <1>1, <2>1, <2>2, <2>3 DEF Reorder!Nearby, Reorder!Id
<1>8. Reorder!HeldHasCome'
  BY <1>3 DEF Reorder!HeldHasCome
<1>9. Reorder!PlacesAreTold'
  BY <1>1, <1>3 DEF Reorder!PlacesAreTold
<1>10. Reorder!HolesAreOverdue'
  BY <1>1, <1>3 DEF Reorder!HolesAreOverdue
<1> QED BY <1>1, <1>3, <1>6, <1>7, <1>8, <1>9, <1>10 DEF Reorder!ReorderInv

LEMMA ReorderKeptByStale ==
    ASSUME Reorder!ReorderInv, NEW p \in v2, Reorder!Stale(p), ReorderReceived(p)
    PROVE  Reorder!ReorderInv'
<1> USE DEF Reorder!NoId
<1>1. /\ v1' \in Nat /\ v2' \subseteq 0 .. v1' - 1 /\ v8' \subseteq 0 .. v1' - 1
      /\ \A x \in v2' : v1' - x <= MaxLag
      /\ v8 \subseteq v8' /\ p \in v8' /\ p \in 0 .. v1 - 1 /\ v1 \in Nat /\ v1' = v1
  BY ReceivedTyped DEF ReorderReceived
<1>2. /\ v3 # -1 /\ v3' = v3 /\ v4' = v4 /\ v5' = v5 /\ v6' = v6 /\ v7' = v7
  BY DEF Reorder!Stale
<1>3. v9' = {}
  <2>1. v9 = {}
    BY DEF Reorder!ReorderInv
  <2>2. SUFFICES ASSUME p > v6, p \notin v8,
                        \A q \in v8, h \in v6 .. p :
                          (\A k \in h .. p : v7[k - v6 + 1] < 0) => q < h + WINDOW
                 PROVE  FALSE
    <3>1. v9' = v9 \/ (/\ p > v6 /\ p \notin v8
                       /\ \A q \in v8, h \in v6 .. p :
                          (\A k \in h .. p : v7[k - v6 + 1] < 0) => q < h + WINDOW)
      BY DEF Reorder!Stale
    <3> QED BY <2>1, <3>1
  <2>3. p < v6 + v5 /\ v6 \in Nat /\ v5 \in Nat /\ p \in Nat
    BY <1>2, WhereItIs DEF Reorder!Stale
  <2>4. PICK k \in Nat : k = p - v6 + 1
    BY <2>2, <2>3
  <2>5. Len(v7) = v5 /\ v7 \in Seq(Int)
    BY DEF Reorder!ReorderInv, Reorder!TypeOK, Reorder!PlacesAreTold
  <2>6. k \in 1 .. Len(v7) /\ v7[k] \in Int
    BY <2>2, <2>3, <2>4, <2>5
  <2>7. v7[k] < 0
    <3>1. v7[k] >= 0 => v7[k] = v6 + k - 1 /\ v7[k] \in v8
      BY <2>6 DEF Reorder!ReorderInv, Reorder!PlacesAreTold
    <3>2. v6 + k - 1 = p
      BY <2>3, <2>4
    <3> QED BY <2>2, <2>6, <3>1, <3>2
  <2>8. PICK h \in 1 .. k : Reorder!GivenUp(h, k)
    BY <2>6, <2>7 DEF Reorder!ReorderInv, Reorder!HolesAreOverdue
  <2>9. PICK q \in v8 : q >= v6 + h - 1 + WINDOW
    BY <2>8 DEF Reorder!GivenUp
  <2>10. PICK w \in v6 .. p : w = v6 + h - 1
    BY <2>2, <2>3, <2>4, <2>8
  <2>11. \A i \in w .. p : v7[i - v6 + 1] < 0
    <3>1. SUFFICES ASSUME NEW i \in w .. p PROVE v7[i - v6 + 1] < 0
      OBVIOUS
    <3>2. i - v6 + 1 \in h .. k
      BY <2>3, <2>4, <2>8, <2>10
    <3> QED BY <2>8, <3>2 DEF Reorder!GivenUp
  <2>12. q < w + WINDOW
    BY <2>2, <2>11
  <2>13. q \in Int
    BY <2>9 DEF Reorder!ReorderInv, Reorder!TypeOK
  <2> QED BY <2>3, <2>8, <2>9, <2>10, <2>12, <2>13, ReorderNumbers
<1>4. Reorder!TypeOK'
  BY <1>1, <1>2 DEF Reorder!ReorderInv, Reorder!TypeOK
<1>5. Reorder!Nearby'
  BY <1>1, <1>2 DEF Reorder!ReorderInv, Reorder!Nearby, Reorder!Id
<1>6. Reorder!HeldHasCome'
  BY <1>1, <1>2, Zenon DEF Reorder!ReorderInv, Reorder!HeldHasCome, Reorder!Ahead
<1>7. Reorder!PlacesAreTold'
  BY <1>1, <1>2, Zenon DEF Reorder!ReorderInv, Reorder!PlacesAreTold
<1>8. Reorder!HolesAreOverdue'
  BY <1>1, <1>2 DEF Reorder!ReorderInv, Reorder!HolesAreOverdue, Reorder!GivenUp
<1> QED BY <1>2, <1>3, <1>4, <1>5, <1>6, <1>7, <1>8 DEF Reorder!ReorderInv

LEMMA Lengthened ==
    ASSUME NEW s \in Seq(Int), NEW t \in Seq(Int)
    PROVE  /\ s \o t \in Seq(Int) /\ Len(s \o t) = Len(s) + Len(t)
           /\ \A k \in 1 .. Len(s) : (s \o t)[k] = s[k]
           /\ \A k \in 1 .. Len(t) : (s \o t)[Len(s) + k] = t[k]
OBVIOUS

\* Where more has been played and each place of it is told, and each hole in it
\* overdue, they are in all that has been played.
LEMMA PlayedOn ==
    ASSUME Reorder!ReorderInv, NEW t \in Seq(Int), v6 \in Nat,
           v7' = v7 \o t, v5' = v5 + Len(t), v6' = v6, v8 \subseteq v8',
           \A k \in 1 .. Len(t) : t[k] >= 0 => t[k] = v6 + v5 + k - 1 /\ t[k] \in v8',
           \A k \in 1 .. Len(t) : t[k] < 0 =>
             \E h \in 1 .. k : (\A j \in h .. k : t[j] < 0)
                                /\ \E q \in v8' : q >= v6 + v5 + h - 1 + WINDOW
    PROVE  v7' \in Seq(Int) /\ v5' \in Nat /\ Reorder!PlacesAreTold' /\ Reorder!HolesAreOverdue'
<1>1. v7 \in Seq(Int) /\ Len(v7) = v5 /\ v5 \in Nat
  BY DEF Reorder!ReorderInv, Reorder!TypeOK, Reorder!PlacesAreTold
<1>2. /\ v7' \in Seq(Int) /\ Len(v7') = v5 + Len(t)
      /\ \A k \in 1 .. v5 : v7'[k] = v7[k]
      /\ \A k \in 1 .. Len(t) : v7'[v5 + k] = t[k]
  <2>1. /\ v7 \o t \in Seq(Int) /\ Len(v7 \o t) = Len(v7) + Len(t)
        /\ \A k \in 1 .. Len(v7) : (v7 \o t)[k] = v7[k]
        /\ \A k \in 1 .. Len(t) : (v7 \o t)[Len(v7) + k] = t[k]
    BY <1>1, Lengthened, Zenon
  <2> QED BY <1>1, <2>1, Zenon
<1>3. Len(t) \in Nat
  OBVIOUS
<1>4. PICK n \in Nat : n = Len(t)
  BY <1>3
<1>5. ASSUME NEW k \in 1 .. v5 + n
      PROVE  /\ v7'[k] >= 0 => v7'[k] = v6 + k - 1 /\ v7'[k] \in v8'
             /\ v7'[k] < 0 => \E h \in 1 .. k : /\ \A j \in h .. k : v7'[j] < 0
                                                /\ \E q \in v8' : q >= v6 + h - 1 + WINDOW
  <2>1. CASE k <= v5
    <3>1. k \in 1 .. v5 /\ k \in 1 .. Len(v7)
      BY <1>1, <1>4, <2>1
    <3>2. v7'[k] = v7[k]
      BY <1>2, <3>1
    <3>3. v7[k] >= 0 => v7[k] = v6 + k - 1 /\ v7[k] \in v8
      BY <3>1 DEF Reorder!ReorderInv, Reorder!PlacesAreTold
    <3>4. ASSUME v7[k] < 0
          PROVE  \E h \in 1 .. k : /\ \A j \in h .. k : v7'[j] < 0
                                   /\ \E q \in v8' : q >= v6 + h - 1 + WINDOW
      <4>1. PICK h \in 1 .. k : Reorder!GivenUp(h, k)
        BY <3>1, <3>4 DEF Reorder!ReorderInv, Reorder!HolesAreOverdue
      <4>2. ASSUME NEW j \in h .. k PROVE v7'[j] < 0
        <5>1. j \in 1 .. v5
          BY <1>1, <3>1, <4>1
        <5> QED BY <1>2, <4>1, <5>1, Zenon DEF Reorder!GivenUp
      <4>3. \E q \in v8' : q >= v6 + h - 1 + WINDOW
        BY <4>1 DEF Reorder!GivenUp
      <4> QED BY <4>2, <4>3, Zenon
    <3> QED BY <3>2, <3>3, <3>4, Zenon
  <2>2. CASE k > v5
    <3>1. PICK i \in 1 .. n : k = v5 + i
      <4>1. k - v5 \in 1 .. n /\ k = v5 + (k - v5)
        BY <1>1, <1>4, <2>2
      <4> QED BY <4>1
    <3>2. v7'[k] = t[i]
      BY <1>2, <1>4, <3>1, Zenon
    <3>3. t[i] >= 0 => t[i] = v6 + k - 1 /\ t[i] \in v8'
      BY <1>1, <1>4, <3>1
    <3>4. ASSUME t[i] < 0
          PROVE  \E h \in 1 .. k : /\ \A j \in h .. k : v7'[j] < 0
                                   /\ \E q \in v8' : q >= v6 + h - 1 + WINDOW
      <4>1. PICK h \in 1 .. i : /\ \A j \in h .. i : t[j] < 0
                                /\ \E q \in v8' : q >= v6 + v5 + h - 1 + WINDOW
        BY <1>4, <3>4, Zenon
      <4>2. PICK g \in 1 .. k : g = v5 + h
        BY <1>1, <1>4, <3>1, <4>1
      <4>3. ASSUME NEW j \in g .. k PROVE v7'[j] < 0
        <5>1. PICK m \in h .. i : j = v5 + m
          <6>1. j - v5 \in h .. i /\ j = v5 + (j - v5)
            BY <1>1, <3>1, <4>2
          <6> QED BY <6>1
        <5>2. m \in 1 .. n
          BY <1>4, <3>1, <4>1, <5>1
        <5>3. v7'[j] = t[m]
          BY <1>2, <1>4, <5>1, <5>2, Zenon
        <5> QED BY <4>1, <5>1, <5>3
      <4>4. \E q \in v8' : q >= v6 + g - 1 + WINDOW
        <5>1. PICK q \in v8' : q >= v6 + v5 + h - 1 + WINDOW
          BY <4>1
        <5>2. v6 + v5 + h - 1 + WINDOW = v6 + g - 1 + WINDOW
          BY <1>1, <4>2, ReorderNumbers
        <5> QED BY <5>1, <5>2
      <4> QED BY <4>3, <4>4, Zenon
    <3> QED BY <3>2, <3>3, <3>4, Zenon
  <2>3. k <= v5 \/ k > v5
    BY <1>1, <1>4
  <2> QED BY <2>1, <2>2, <2>3, Zenon
<1>6. Reorder!PlacesAreTold'
  BY <1>2, <1>4, <1>5 DEF Reorder!PlacesAreTold
<1>7. Reorder!HolesAreOverdue'
  <2>1. ASSUME NEW k \in 1 .. Len(v7'), v7'[k] < 0
        PROVE  \E h \in 1 .. k : Reorder!GivenUp(h, k)'
    <3>1. PICK h \in 1 .. k : /\ \A j \in h .. k : v7'[j] < 0
                              /\ \E q \in v8' : q >= v6 + h - 1 + WINDOW
      BY <1>2, <1>4, <1>5, <2>1, Zenon
    <3>2. Reorder!GivenUp(h, k)'
      BY <3>1 DEF Reorder!GivenUp
    <3> QED BY <3>2
  <2> QED BY <2>1 DEF Reorder!HolesAreOverdue
<1> QED BY <1>1, <1>2, <1>3, <1>6, <1>7

LEMMA ReorderKeptByResync ==
    ASSUME Reorder!ReorderInv, NEW p \in v2, Reorder!Resync(p), ReorderReceived(p)
    PROVE  Reorder!ReorderInv'
<1> USE DEF Reorder!NoId
<1>1. /\ v1' \in Nat /\ v2' \subseteq 0 .. v1' - 1 /\ v8' \subseteq 0 .. v1' - 1
      /\ \A x \in v2' : v1' - x <= MaxLag
      /\ v8 \subseteq v8' /\ p \in v8' /\ p \in 0 .. v1 - 1 /\ v1 \in Nat
      /\ v1 - p <= AudioIds \div 2 /\ v1' = v1
  BY ReceivedTyped DEF ReorderReceived
<1>2. v3 # -1 /\ ~Reorder!HasPlayed(Reorder!Id(p))
  BY DEF Reorder!Resync
<1>3. /\ v6 \in Nat /\ v5 \in Nat /\ p \in Nat /\ p >= v6 + v5
      /\ Reorder!Ahead(Reorder!Id(p)) = p - (v6 + v5)
  BY <1>2, WhereItIs
<1>4. PICK a \in Nat : a = p - (v6 + v5)
  BY <1>3
<1>5. /\ a >= RESYNC_AHEAD /\ v3' = (p + 1) % AudioIds /\ v4' = {} /\ v5' = v5 + a + 1
      /\ v7' = v7 \o [k \in 1 .. a |-> -2] \o <<v6 + v5 + a>>
      /\ v6' = v6 /\ v9' = v9
  BY <1>3, <1>4, Zenon DEF Reorder!Resync, Reorder!Skipped, Reorder!Id
<1>6. PICK t \in Seq(Int) : t = [k \in 1 .. a + 1 |-> IF k <= a THEN -2 ELSE p]
  <2>1. a + 1 \in Nat
    OBVIOUS
  <2>2. [k \in 1 .. a + 1 |-> IF k <= a THEN -2 ELSE p] \in Seq(Int)
    BY <1>3, <2>1
  <2> QED BY <2>2, Zenon
<1>7. Len(t) = a + 1 /\ \A k \in 1 .. a + 1 : t[k] = IF k <= a THEN -2 ELSE p
  BY <1>6
<1>8. v7' = v7 \o t
  <2>1. v6 + v5 + a = p
    BY <1>3, <1>4
  <2>2. [k \in 1 .. a |-> -2] \o <<p>> = t
    <3>1. [k \in 1 .. a |-> -2] \in Seq(Int) /\ Len([k \in 1 .. a |-> -2]) = a
      OBVIOUS
    <3> QED BY <1>3, <1>6, <3>1
  <2>3. v7 \in Seq(Int) /\ [k \in 1 .. a |-> -2] \in Seq(Int) /\ <<p>> \in Seq(Int)
    BY <1>3 DEF Reorder!ReorderInv, Reorder!TypeOK
  <2>4. v7 \o [k \in 1 .. a |-> -2] \o <<p>> = v7 \o ([k \in 1 .. a |-> -2] \o <<p>>)
    BY <2>3
  <2> QED BY <1>5, <2>1, <2>2, <2>4, Zenon
<1>9. \A k \in 1 .. Len(t) : t[k] >= 0 => t[k] = v6 + v5 + k - 1 /\ t[k] \in v8'
  BY <1>1, <1>3, <1>4, <1>7
<1>10. \A k \in 1 .. Len(t) : t[k] < 0 =>
             \E h \in 1 .. k : (\A j \in h .. k : t[j] < 0)
                                /\ \E q \in v8' : q >= v6 + v5 + h - 1 + WINDOW
  <2>1. SUFFICES ASSUME NEW k \in 1 .. Len(t), t[k] < 0
                 PROVE  \E h \in 1 .. k : (\A j \in h .. k : t[j] < 0)
                                /\ \E q \in v8' : q >= v6 + v5 + h - 1 + WINDOW
    BY Zenon
  <2>2. k <= a
    BY <1>3, <1>7, <2>1
  <2>3. 1 \in 1 .. k /\ \A j \in 1 .. k : t[j] < 0
    BY <1>7, <2>1, <2>2
  <2>4. p >= v6 + v5 + 1 - 1 + WINDOW
    BY <1>3, <1>4, <1>5, ReorderNumbers
  <2> QED BY <1>1, <2>3, <2>4, Zenon
<1>11. v5' = v5 + Len(t)
  BY <1>3, <1>5, <1>7
<1>12. v7' \in Seq(Int) /\ v5' \in Nat /\ Reorder!PlacesAreTold' /\ Reorder!HolesAreOverdue'
  BY <1>1, <1>3, <1>5, <1>8, <1>9, <1>10, <1>11, PlayedOn, Zenon
<1>13. PICK pos \in Nat : pos = p + 1
  BY <1>3
<1>14. v3' \in Nat
  <2>1. pos % AudioIds \in 0 .. AudioIds - 1
    <3>1. pos \in Int /\ AudioIds \in Nat \ {0}
      BY ReorderNumbers
    <3> QED BY <3>1, QuotientAndRest, Zenon
  <2>2. v3' = pos % AudioIds
    BY <1>5, <1>13
  <2> QED BY <2>1, <2>2
<1>15. Reorder!TypeOK'
  BY <1>1, <1>3, <1>5, <1>12, <1>14 DEF Reorder!TypeOK
<1>16. Reorder!Nearby'
  <2>1. v3' # -1 /\ v6' # -1
    BY <1>3, <1>5, <1>14
  <2>2. v6' + v5' = p + 1 /\ v6' + v5' <= v1' /\ v1' - (v6' + v5') <= AudioIds \div 2
    BY <1>1, <1>3, <1>4, <1>5, ReorderNumbers
  <2>3. v3' = (v6' + v5') % AudioIds
    BY <1>5, <2>2
  <2> QED BY <1>1, <2>1, <2>2, <2>3 DEF Reorder!Nearby, Reorder!Id
<1>17. Reorder!HeldHasCome'
  BY <1>5 DEF Reorder!HeldHasCome
<1>18. v9' = {} /\ v6' # -1
  BY <1>3, <1>5 DEF Reorder!ReorderInv
<1> QED BY <1>12, <1>15, <1>16, <1>17, <1>18 DEF Reorder!ReorderInv

\* An id that is k ahead of one position is what k past it is told by.
LEMMA IdOf ==
    ASSUME NEW b \in Nat, v3 = b % AudioIds, NEW id \in 0 .. AudioIds - 1
    PROVE  /\ Reorder!Ahead(id) \in 0 .. AudioIds - 1
           /\ id = (b + Reorder!Ahead(id)) % AudioIds
<1>1. v3 \in 0 .. AudioIds - 1 /\ b \in Int /\ AudioIds \in Nat \ {0}
  <2>1. b \in Int /\ AudioIds \in Nat \ {0}
    BY ReorderNumbers
  <2> QED BY <2>1, QuotientAndRest, Zenon
<1>2. PICK k : k = Reorder!Ahead(id)
  OBVIOUS
<1>3. PICK n \in Int : n = id - v3
  <2>1. PICK c \in Int : c = v3
    BY <1>1
  <2>2. id - c \in Int
    OBVIOUS
  <2> QED BY <2>1, <2>2
<1>4. k = n % AudioIds
  BY <1>2, <1>3 DEF Reorder!Ahead
<1>5. k \in 0 .. AudioIds - 1
  BY <1>1, <1>3, <1>4, QuotientAndRest, Zenon
<1>6. PICK q \in Int : n = AudioIds * q + k
  BY <1>1, <1>3, <1>4, QuotientAndRest, Zenon
<1>7. PICK t \in Int : b = AudioIds * t + v3
  BY <1>1, QuotientAndRest, Zenon
<1>8. PICK m \in Int : m = b + k
  BY <1>5
<1>9. PICK u \in Int : u = t - q
  OBVIOUS
<1>10. AudioIds * u = AudioIds * t - AudioIds * q
  BY <1>1, <1>6, <1>7, <1>9
<1>11. m = AudioIds * u + id
  BY <1>1, <1>3, <1>5, <1>6, <1>7, <1>8, <1>10
<1>12. m % AudioIds = id
  BY <1>1, <1>8, <1>9, <1>11, OneRest, Zenon
<1> QED BY <1>2, <1>5, <1>8, <1>12

\* The same id once the position has moved up to e on.
LEMMA IdFurtherOn ==
    ASSUME NEW b \in Nat, v3 = b % AudioIds, NEW id \in 0 .. AudioIds - 1,
           NEW e \in Nat, Reorder!Ahead(id) >= e, v3' = (b + e) % AudioIds
    PROVE  Reorder!Ahead(id)' = Reorder!Ahead(id) - e
<1>1. PICK k : k = Reorder!Ahead(id)
  OBVIOUS
<1>2. k \in 0 .. AudioIds - 1 /\ id = (b + k) % AudioIds
  BY <1>1, IdOf
<1>3. PICK x \in Int : x = b + k
  BY <1>2
<1>4. PICK y \in Int : y = b + e
  OBVIOUS
<1>5. Reorder!Ahead(id)' = (id - v3') % AudioIds
  BY DEF Reorder!Ahead
<1>6. PICK z \in Int : z = x - y
  OBVIOUS
<1>7. ((x % AudioIds) - (y % AudioIds)) % AudioIds = z % AudioIds
  <2>1. AudioIds \in Nat \ {0}
    BY ReorderNumbers
  <2>2. ((x % AudioIds) - (y % AudioIds)) % AudioIds = (x - y) % AudioIds
    BY <2>1, DistanceOnCircle, Zenon
  <2> QED BY <1>6, <2>2, Zenon
<1>10. k \in 0 .. AudioIds - 1 /\ k >= e
  BY <1>1, <1>2
<1>8. z = k - e /\ 0 <= z /\ z < AudioIds /\ 0 - AudioIds <= z
  BY <1>3, <1>4, <1>6, <1>10, ReorderNumbers
<1>9. z % AudioIds = z
  <2>1. ~(z < 0) /\ AudioIds \in Nat \ {0}
    BY <1>6, <1>8, ReorderNumbers
  <2>2. z % AudioIds = IF z < 0 THEN z + AudioIds ELSE z
    BY <1>6, <1>8, <2>1, SmallRest, Zenon
  <2> QED BY <2>1, <2>2
<1> QED BY <1>1, <1>2, <1>3, <1>4, <1>5, <1>7, <1>8, <1>9, Zenon

LEMMA ReorderKeptByOrder ==
    ASSUME Reorder!ReorderInv, NEW p \in v2, Reorder!Order(p), ReorderReceived(p)
    PROVE  Reorder!ReorderInv'
<1> USE DEF Reorder!NoId
<1>1. /\ v1' \in Nat /\ v2' \subseteq 0 .. v1' - 1 /\ v8' \subseteq 0 .. v1' - 1
      /\ \A x \in v2' : v1' - x <= MaxLag
      /\ v8 \subseteq v8' /\ p \in v8' /\ p \in 0 .. v1 - 1 /\ v1 \in Nat
      /\ v1 - p <= AudioIds \div 2 /\ v1' = v1
  BY ReceivedTyped DEF ReorderReceived
<1>2. v3 # -1 /\ ~Reorder!HasPlayed(Reorder!Id(p))
  BY DEF Reorder!Order
<1>3. /\ v6 \in Nat /\ v5 \in Nat /\ p \in Nat /\ p >= v6 + v5 /\ v6 + v5 <= v1
      /\ Reorder!Ahead(Reorder!Id(p)) = p - (v6 + v5)
      /\ Reorder!Id(p) \in 0 .. AudioIds - 1
  BY <1>2, WhereItIs
<1>4. /\ v3 = (v6 + v5) % AudioIds /\ v1 - (v6 + v5) <= AudioIds \div 2
      /\ v4 \subseteq 0 .. AudioIds - 1 /\ v9 = {}
      /\ \A id \in v4 : Reorder!Ahead(id) \in 1 .. WINDOW - 1 /\ v6 + v5 + Reorder!Ahead(id) \in v8
  BY <1>2 DEF Reorder!ReorderInv, Reorder!TypeOK, Reorder!Nearby, Reorder!HeldHasCome, Reorder!Id
<1>5. PICK b \in Nat : b = v6 + v5
  BY <1>3
<1>6. PICK ahead \in Nat : ahead = p - b
  BY <1>3, <1>5
<1>7. PICK ids : ids = v4 \cup {Reorder!Id(p)}
  BY Zenon
<1>8. PICK present : present = {Reorder!Ahead(id) : id \in ids}
  BY Zenon
<1>9. ids \subseteq 0 .. AudioIds - 1
  BY <1>3, <1>4, <1>7, Zenon
<1>10. \A id \in ids : Reorder!Ahead(id) \in 0 .. AudioIds - 1
  BY <1>4, <1>5, <1>9, IdOf
<1>11. \A id \in ids : /\ b + Reorder!Ahead(id) \in v8'
                       /\ Reorder!Ahead(id) = ahead \/ Reorder!Ahead(id) < WINDOW
  <2>1. ASSUME NEW id \in v4
        PROVE  b + Reorder!Ahead(id) \in v8' /\ Reorder!Ahead(id) < WINDOW
    BY <1>1, <1>4, <1>5, <2>1, ReorderNumbers
  <2>2. b + Reorder!Ahead(Reorder!Id(p)) = p /\ Reorder!Ahead(Reorder!Id(p)) = ahead
    BY <1>3, <1>5, <1>6
  <2> QED BY <1>1, <1>7, <2>1, <2>2
<1>12. present \subseteq 0 .. AudioIds - 1
  BY <1>8, <1>10
<1>13. ahead \in present
  BY <1>3, <1>5, <1>6, <1>7, <1>8
<1>14. \A k \in present : (k = ahead \/ k < WINDOW) /\ b + k \in v8'
  BY <1>8, <1>11
<1>15. PICK e \in Nat :
             /\ e = Reorder!RunOn(present, Reorder!Reached(present, ahead))
             /\ e \notin present
             /\ e > 0 => e - 1 \in present
             /\ \A k \in present : k >= e => k > e /\ k - e < WINDOW
             /\ \A j \in 0 .. e - 1 : j \notin present =>
                  \E h \in 0 .. j : (\A i \in h .. j : i \notin present) /\ h + WINDOW <= ahead
  BY <1>12, <1>13, <1>14, EndIs, Zenon
<1>16. Reorder!Ahead(Reorder!Id(p)) = ahead
  BY <1>3, <1>5, <1>6
<1>17. /\ v7' = v7 \o Reorder!Played(present, e)
       /\ v3' = (v3 + e) % AudioIds /\ v5' = v5 + e
       /\ v4' = {id \in ids : Reorder!Ahead(id) >= e}
       /\ v6' = v6 /\ v9' = v9
  BY <1>7, <1>8, <1>15, <1>16 DEF Reorder!Order
<1>18. PICK t : t = Reorder!Played(present, e)
  OBVIOUS
<1>19. /\ t \in Seq(Int) /\ Len(t) = e
       /\ \A k \in 1 .. e : k - 1 \in present => t[k] = b + k - 1
       /\ \A k \in 1 .. e : k - 1 \notin present => t[k] < 0
  <2>1. t = [k \in 1 .. e |->
               IF k - 1 \in present THEN v6 + v5 + k - 1
               ELSE IF Reorder!HoleLength(present, k - 1) <= MAX_CONCEALED THEN -1 ELSE -2]
    BY <1>18 DEF Reorder!Played, Reorder!Concealed, Reorder!Skipped
  <2>2. \A k \in 1 .. e : t[k] = IF k - 1 \in present THEN v6 + v5 + k - 1
               ELSE IF Reorder!HoleLength(present, k - 1) <= MAX_CONCEALED THEN -1 ELSE -2
    BY <2>1, Zenon
  <2>3. \A k \in 1 .. e : k - 1 \in present => t[k] = b + k - 1
    BY <1>5, <2>2
  <2>4. \A k \in 1 .. e : k - 1 \notin present => t[k] \in {-1, -2}
    BY <2>2
  <2>5. \A k \in 1 .. e : t[k] \in Int
    BY <2>3, <2>4
  <2>6. t = [k \in 1 .. e |-> t[k]]
    BY <2>1, <2>2, Zenon
  <2>7. t \in [1 .. e -> Int]
    BY <2>5, <2>6, Zenon
  <2>8. t \in Seq(Int) /\ Len(t) = e
    BY <2>7
  <2> QED BY <2>3, <2>4, <2>8
<1>20. \A k \in 1 .. e : t[k] >= 0 => t[k] = v6 + v5 + k - 1 /\ t[k] \in v8'
  <2>1. ASSUME NEW k \in 1 .. e, t[k] >= 0
        PROVE  t[k] = v6 + v5 + k - 1 /\ t[k] \in v8'
    <3>1. t[k] \in Int
      BY <1>19
    <3>2. k - 1 \in present
      BY <1>19, <2>1, <3>1
    <3>3. t[k] = b + (k - 1) /\ b + (k - 1) \in v8'
      BY <1>14, <1>19, <3>2
    <3> QED BY <1>3, <1>5, <3>3
  <2> QED BY <2>1
<1>21. ASSUME NEW k \in 1 .. e, t[k] < 0
       PROVE  \E h \in 1 .. k : (\A j \in h .. k : t[j] < 0)
                                /\ \E q \in v8' : q >= v6 + v5 + h - 1 + WINDOW
  <2>1. k - 1 \notin present
    <3>1. SUFFICES ASSUME k - 1 \in present PROVE FALSE
      OBVIOUS
    <3>2. t[k] = b + k - 1
      BY <1>19, <3>1
    <3> QED BY <1>21, <3>2
  <2>2. k - 1 \in 0 .. e - 1
    OBVIOUS
  <2>3. PICK g \in 0 .. k - 1 : (\A i \in g .. k - 1 : i \notin present) /\ g + WINDOW <= ahead
    BY <1>15, <2>1, <2>2
  <2>4. PICK h \in 1 .. k : h = g + 1
    BY <2>3
  <2>5. ASSUME NEW j \in h .. k PROVE t[j] < 0
    <3>1. j \in 1 .. e /\ j - 1 \in g .. k - 1
      BY <2>4, <2>5
    <3>2. j - 1 \notin present
      BY <2>3, <3>1
    <3> QED BY <1>19, <3>1, <3>2
  <2>6. p >= v6 + v5 + h - 1 + WINDOW
    BY <1>3, <1>5, <1>6, <2>3, <2>4, ReorderNumbers
  <2> QED BY <1>1, <2>5, <2>6
<1>22. v7' \in Seq(Int) /\ v5' \in Nat /\ Reorder!PlacesAreTold' /\ Reorder!HolesAreOverdue'
  <2>1. v7' = v7 \o t /\ v5' = v5 + Len(t)
    BY <1>17, <1>18, <1>19
  <2>2. \A k \in 1 .. Len(t) : t[k] >= 0 => t[k] = v6 + v5 + k - 1 /\ t[k] \in v8'
    BY <1>19, <1>20, Zenon
  <2>3. \A k \in 1 .. Len(t) : t[k] < 0 =>
             \E h \in 1 .. k : (\A j \in h .. k : t[j] < 0)
                                /\ \E q \in v8' : q >= v6 + v5 + h - 1 + WINDOW
    BY <1>19, <1>21, Zenon
  <2> QED BY <1>1, <1>3, <1>17, <1>19, <2>1, <2>2, <2>3, PlayedOn, Zenon
<1>23. v3' = (b + e) % AudioIds
  <2>1. b \in Int /\ e \in Int /\ AudioIds \in Nat \ {0}
    BY ReorderNumbers
  <2>2. ((b % AudioIds) + e) % AudioIds = (b + e) % AudioIds
    BY <2>1, PlusOnCircle, Zenon
  <2> QED BY <1>4, <1>5, <1>17, <2>2
<1>24. PICK pos \in Nat : pos = b + e
  OBVIOUS
<1>25. v3' \in Nat
  <2>1. pos \in Int /\ AudioIds \in Nat \ {0}
    BY ReorderNumbers
  <2>2. pos % AudioIds \in 0 .. AudioIds - 1
    BY <2>1, QuotientAndRest, Zenon
  <2>3. v3' = pos % AudioIds
    BY <1>23, <1>24
  <2> QED BY <2>2, <2>3
<1>26. Reorder!TypeOK'
  BY <1>1, <1>3, <1>9, <1>17, <1>22, <1>25, Zenon DEF Reorder!TypeOK
<1>27. Reorder!Nearby'
  <2>1. v3' # -1 /\ v6' # -1
    BY <1>3, <1>17, <1>25
  <2>2. v6' + v5' = b + e
    BY <1>3, <1>5, <1>17
  <2>3. b + e <= v1
    <3>1. CASE e = 0
      BY <1>3, <1>5, <3>1
    <3>2. CASE e > 0
      <4>1. b + (e - 1) \in v8'
        BY <1>14, <1>15, <3>2
      <4>2. b + (e - 1) <= v1 - 1
        BY <1>1, <4>1
      <4> QED BY <1>1, <4>2
    <3> QED BY <3>1, <3>2
  <2>4. v6' + v5' <= v1' /\ v1' - (v6' + v5') <= AudioIds \div 2
    BY <1>1, <1>3, <1>4, <1>5, <2>2, <2>3, ReorderNumbers
  <2>5. v3' = (v6' + v5') % AudioIds
    BY <1>23, <2>2
  <2> QED BY <1>1, <2>1, <2>4, <2>5 DEF Reorder!Nearby, Reorder!Id
<1>28. Reorder!HeldHasCome'
  <2>1. ASSUME NEW id \in v4'
        PROVE  Reorder!Ahead(id)' \in 1 .. WINDOW - 1 /\ v6' + v5' + Reorder!Ahead(id)' \in v8'
    <3>1. id \in ids /\ id \in 0 .. AudioIds - 1 /\ Reorder!Ahead(id) >= e
      BY <1>9, <1>17, <2>1
    <3>2. PICK k \in present : k = Reorder!Ahead(id)
      BY <1>8, <3>1
    <3>3. Reorder!Ahead(id)' = k - e
      BY <1>4, <1>5, <1>23, <3>1, <3>2, IdFurtherOn
    <3>4. k \in Nat /\ k > e /\ k - e < WINDOW
      BY <1>12, <1>15, <3>1, <3>2
    <3>5. v6' + v5' + (k - e) = b + k
      BY <1>3, <1>5, <1>17, <3>4
    <3>6. b + k \in v8'
      BY <1>14
    <3> QED BY <3>3, <3>4, <3>5, <3>6, ReorderNumbers
  <2> QED BY <2>1 DEF Reorder!HeldHasCome
<1>29. v9' = {} /\ v6' # -1
  BY <1>3, <1>4, <1>17
<1> QED BY <1>22, <1>26, <1>27, <1>28, <1>29 DEF Reorder!ReorderInv

LEMMA ReorderKept ==
    ASSUME Reorder!ReorderInv, Reorder!Next
    PROVE  Reorder!ReorderInv'
<1>1. CASE Reorder!Send
  <2>1. /\ v1 \in Nat /\ v2 \subseteq 0 .. v1 - 1 /\ v8 \subseteq 0 .. v1 - 1
        /\ v1' = v1 + 1 /\ v2' \subseteq v2 \cup {v1}
        /\ \A p \in v2 : v1 - p < MaxLag
        /\ v3' = v3 /\ v4' = v4 /\ v5' = v5 /\ v6' = v6 /\ v7' = v7 /\ v8' = v8 /\ v9' = v9
    BY <1>1 DEF Reorder!Send, Reorder!ReorderInv, Reorder!TypeOK
  <2>2. /\ v1' \in Nat /\ v2' \subseteq 0 .. v1' - 1 /\ v8' \subseteq 0 .. v1' - 1
        /\ \A p \in v2' : v1' - p <= MaxLag
    BY <2>1, ReorderNumbers
  <2>3. Reorder!TypeOK'
    BY <2>1, <2>2 DEF Reorder!ReorderInv, Reorder!TypeOK
  <2>4. Reorder!Nearby'
    <3>1. ASSUME v3 # -1
          PROVE  /\ v3 = (v6 + v5) % AudioIds /\ v6 + v5 <= v1'
                 /\ v1' - (v6 + v5) <= AudioIds \div 2
      <4>1. v6 \in Nat /\ v5 \in Nat /\ v6 + v5 <= v1 /\ v3 = (v6 + v5) % AudioIds
        BY <3>1 DEF Reorder!ReorderInv, Reorder!Nearby, Reorder!NoId, Reorder!TypeOK, Reorder!Id
      <4>2. v1 - (v6 + v5) < AudioIds \div 2
        BY <1>1, <4>1 DEF Reorder!Send, Reorder!NoId
      <4> QED BY <2>1, <4>1, <4>2, ReorderNumbers
    <3>2. v3 = -1 <=> v6 = -1
      BY DEF Reorder!ReorderInv, Reorder!Nearby, Reorder!NoId
    <3> QED BY <2>1, <2>2, <3>1, <3>2 DEF Reorder!Nearby, Reorder!NoId, Reorder!Id
  <2>5. /\ Reorder!HeldHasCome' /\ Reorder!PlacesAreTold' /\ Reorder!HolesAreOverdue'
    BY <2>1 DEF Reorder!ReorderInv, Reorder!HeldHasCome, Reorder!PlacesAreTold,
       Reorder!HolesAreOverdue, Reorder!GivenUp, Reorder!Ahead
  <2> QED BY <2>1, <2>3, <2>4, <2>5 DEF Reorder!ReorderInv
<1>2. CASE Reorder!Lose
  BY <1>2, Zenon
     DEF Reorder!Lose, Reorder!ReorderInv, Reorder!TypeOK, Reorder!Nearby, Reorder!HeldHasCome,
     Reorder!PlacesAreTold, Reorder!HolesAreOverdue, Reorder!GivenUp, Reorder!Ahead, Reorder!Id
<1>3. CASE Reorder!Receive
  <2>1. PICK p \in v2 : /\ Reorder!Begin(p) \/ Reorder!Stale(p) \/ Reorder!Resync(p) \/ Reorder!Order(p)
                        /\ ReorderReceived(p)
    BY <1>3 DEF Reorder!Receive, ReorderReceived
  <2> QED BY <2>1, ReorderKeptByBegin, ReorderKeptByStale, ReorderKeptByResync, ReorderKeptByOrder
<1> QED BY <1>1, <1>2, <1>3 DEF Reorder!Next

LEMMA ReorderStart ==
    ASSUME Reorder!Init
    PROVE  Reorder!ReorderInv
BY DEF Reorder!Init, Reorder!NoId, Reorder!ReorderInv, Reorder!TypeOK, Reorder!Nearby,
   Reorder!HeldHasCome, Reorder!PlacesAreTold, Reorder!HolesAreOverdue

LEMMA ReorderIsInPlace ==
    ASSUME Reorder!ReorderInv
    PROVE  Reorder!PlayedInItsPlace
<1>1. v7 \in Seq(Int) /\ DOMAIN v7 = 1 .. Len(v7)
  BY DEF Reorder!ReorderInv, Reorder!TypeOK
<1>2. \A id \in v4 : Reorder!Ahead(id) < WINDOW
  BY ReorderNumbers DEF Reorder!ReorderInv, Reorder!HeldHasCome
<1> QED BY <1>1, <1>2 DEF Reorder!ReorderInv, Reorder!PlacesAreTold, Reorder!PlayedInItsPlace

LEMMA ReorderStays ==
    ASSUME Reorder!ReorderInv, UNCHANGED vars
    PROVE  Reorder!ReorderInv'
BY Zenon
   DEF vars, Reorder!ReorderInv, Reorder!TypeOK, Reorder!Nearby, Reorder!HeldHasCome,
   Reorder!PlacesAreTold, Reorder!HolesAreOverdue, Reorder!GivenUp, Reorder!Ahead, Reorder!Id

-----------------------------------------------------------------------------
(* Playout.  v1 jitter, v2 target, v3 lowest, v4 underruns, v5 taken,       *)
(* v6 arrived, v7 chunks, v8 level, v9 primed, v10 cut.                    *)

SoundPeaks == AudioFrame .. MaxPeakFrames * AudioFrame
SoundRoom == AudioBurst + (2 * MaxPeakFrames + SlackFrames + TrimFrames + 1) * AudioFrame
Jitters == [peak : SoundPeaks, margins : [1 .. Windows -> Nat], next : 1 .. Windows,
            seen : 0 .. Windows, drain : Nat, slip : BOOLEAN]

LEMMA SoundNumbers ==
    /\ AudioFrame \in Nat \ {0} /\ AudioBurst \in Nat \ {0} /\ Channels \in 1 .. AudioFrame - 1
    /\ MaxPeakFrames \in Nat \ {0} /\ Windows \in Nat \ {0}
    /\ AudioCapacity \in Nat /\ AudioCapacity >= SoundRoom
    /\ SoundRoom = AudioBurst + 2 * (MaxPeakFrames * AudioFrame) + SlackFrames * AudioFrame
                     + TrimFrames * AudioFrame + AudioFrame
    /\ MaxPeakFrames * AudioFrame \in Nat /\ MaxPeakFrames * AudioFrame >= AudioFrame
    /\ SlackFrames * AudioFrame \in Nat /\ TrimFrames * AudioFrame \in Nat
    /\ MaxGap \in Nat
BY SoundAssumption DEF Sound!PlayoutBounds, SoundRoom

LEMMA ClampIsAPeak ==
    ASSUME NEW n \in Int
    PROVE  Sound!Clamp(n) \in SoundPeaks
BY SoundNumbers DEF Sound!Clamp, Sound!Greater, Sound!Lesser, SoundPeaks

\* The cushion and the trim in the numbers they are the sums of.
LEMMA CushionIs ==
    ASSUME NEW j \in Jitters
    PROVE  /\ Sound!TargetOf(j) = AudioBurst + j.peak + SlackFrames * AudioFrame
           /\ Sound!TrimAbove(j) = Sound!TargetOf(j) + j.peak + TrimFrames * AudioFrame
           /\ Sound!TargetOf(j) \in Nat /\ Sound!TrimAbove(j) \in Nat
           /\ Sound!TargetOf(j) <= Sound!TrimAbove(j)
           /\ Sound!TrimAbove(j) + AudioFrame <= SoundRoom
<1>1. j.peak \in AudioFrame .. MaxPeakFrames * AudioFrame
  BY DEF Jitters, SoundPeaks
<1> QED BY <1>1, SoundNumbers DEF Sound!TargetOf, Sound!TrimAbove

LEMMA ArrivalKeepsJitter ==
    ASSUME NEW j \in Jitters, NEW gap \in Nat, NEW decay \in 0 .. 1
    PROVE  Sound!OnArrival(j, gap, decay) \in Jitters
<1>1. Sound!Greater(j.peak - decay, gap) \in Int
  BY SoundNumbers DEF Sound!Greater, Jitters, SoundPeaks
<1>2. Sound!Clamp(Sound!Greater(j.peak - decay, gap)) \in SoundPeaks
  BY <1>1, ClampIsAPeak
<1> QED BY <1>2 DEF Sound!OnArrival, Jitters

LEMMA UnderrunsKeepJitter ==
    ASSUME NEW j \in Jitters, NEW n \in Nat
    PROVE  Sound!OnUnderruns(j, n) \in Jitters
<1>1. j.peak + n * AudioFrame \in Int
  BY SoundNumbers DEF Jitters, SoundPeaks
<1>2. PICK p : p = Sound!Clamp(j.peak + n * AudioFrame)
  OBVIOUS
<1>3. p \in SoundPeaks
  BY <1>1, <1>2, ClampIsAPeak
<1>4. [j EXCEPT !.peak = p, !.drain = 0, !.seen = 0] \in Jitters
  <2>1. 0 \in 0 .. Windows /\ 0 \in Nat
    BY SoundNumbers
  <2>2. [j EXCEPT !.peak = p] \in Jitters
    BY <1>3 DEF Jitters
  <2>3. [[j EXCEPT !.peak = p] EXCEPT !.drain = 0] \in Jitters
    BY <2>1, <2>2, Zenon DEF Jitters
  <2> QED BY <1>3, <2>1, <2>3, Zenon DEF Jitters
<1>5. Sound!OnUnderruns(j, n) = IF n = 0 THEN j ELSE [j EXCEPT !.peak = p, !.drain = 0, !.seen = 0]
  BY <1>2 DEF Sound!OnUnderruns, Jitters
<1> QED BY <1>4, <1>5

LEMMA MarginKeepsJitter ==
    ASSUME NEW j \in Jitters, NEW low \in Nat
    PROVE  Sound!OnMargin(j, low) \in Jitters
<1> DEFINE m == [j.margins EXCEPT ![j.next] = low]
           seen == Sound!Lesser(j.seen + 1, Windows)
           surplus == Sound!Least(m) - Sound!TargetOf(j)
           drain == IF seen < Windows THEN j.drain
                    ELSE IF surplus > AudioFrame THEN surplus ELSE 0
<1>1. m \in [1 .. Windows -> Nat]
  BY DEF Jitters
<1>2. seen \in 0 .. Windows
  BY SoundNumbers DEF Jitters, Sound!Lesser
<1>3. (j.next % Windows) + 1 \in 1 .. Windows
  <2>1. PICK a \in Nat, w \in Nat \ {0} : a = j.next /\ w = Windows
    BY SoundNumbers DEF Jitters
  <2>2. a % w \in 0 .. w - 1
    BY <2>1
  <2>3. (a % w) + 1 \in 1 .. w
    BY <2>1, <2>2
  <2> QED BY <2>1, <2>3
<1>4. Sound!Least(m) \in Nat
  <2>1. \E x \in {m[i] : i \in 1 .. Windows} : \A y \in {m[i] : i \in 1 .. Windows} : x <= y
    <3>1. {m[i] : i \in 1 .. Windows} \subseteq Nat
      BY <1>1, Zenon
    <3>2. 1 \in 1 .. Windows
      BY SoundNumbers
    <3>3. {m[i] : i \in 1 .. Windows} # {}
      BY <3>2
    <3> HIDE DEF m
    <3> QED BY <3>1, <3>3, LeastNumber, Zenon
  <2>2. \E i \in 1 .. Windows : \A k \in 1 .. Windows : m[i] <= m[k]
    BY <2>1
  <2>3. PICK c : c = CHOOSE i \in 1 .. Windows : \A k \in 1 .. Windows : m[i] <= m[k]
    OBVIOUS
  <2>4. c \in 1 .. Windows
    BY <2>2, <2>3
  <2> QED BY <1>1, <2>3, <2>4, Zenon DEF Sound!Least
<1>5. drain \in Nat
  <2>1. Sound!TargetOf(j) \in Nat /\ j.drain \in Nat
    BY CushionIs DEF Jitters
  <2> HIDE DEF m
  <2> QED BY <1>2, <1>4, <2>1, SoundNumbers
<1>6. Sound!OnMargin(j, low)
        = [j EXCEPT !.margins = m, !.next = (@ % Windows) + 1, !.seen = seen, !.drain = drain]
  BY DEF Sound!OnMargin, Jitters
<1>7. [j EXCEPT !.margins = m, !.next = (@ % Windows) + 1, !.seen = seen, !.drain = drain]
        \in Jitters
  <2> HIDE DEF m, seen, drain
  <2> QED BY <1>1, <1>2, <1>3, <1>5, Zenon DEF Jitters
<1> QED BY <1>6, <1>7

LEMMA SlipKeepsJitter ==
    ASSUME NEW j \in Jitters
    PROVE  /\ Sound!AfterSlip(j) \in Jitters
           /\ Sound!AfterSlip(j).peak = j.peak
<1>1. CASE j.drain < Channels
  BY <1>1 DEF Sound!AfterSlip
<1>2. CASE ~(j.drain < Channels)
  <2>1. j.drain \in Nat /\ j.drain - Channels \in Nat
    BY <1>2, SoundNumbers DEF Jitters
  <2> DEFINE k == [j EXCEPT !.slip = ~@, !.drain = IF j.slip THEN @ ELSE @ - Channels]
  <2>2. k \in Jitters /\ k.peak = j.peak
    <3>1. CASE j.slip = TRUE
      BY <2>1, <3>1, Zenon DEF Jitters
    <3>2. CASE j.slip = FALSE
      BY <2>1, <3>2, Zenon DEF Jitters
    <3> QED BY <3>1, <3>2, Zenon DEF Jitters
  <2> QED BY <1>2, <2>2 DEF Sound!AfterSlip
<1> QED BY <1>1, <1>2

LEMMA PlayKept ==
    ASSUME Sound!PlayInv, Sound!Next
    PROVE  Sound!PlayInv'
<1> USE DEF Sound!None
<1>1. /\ v1 \in Jitters /\ v3 \in Nat \cup {-1} /\ v4 \in Nat /\ v5 \in 0 .. v4
      /\ v7 \in Nat /\ v8 \in Nat /\ v8 <= SoundRoom /\ ~v10
      /\ v2 # -1 => v2 = Sound!TargetOf(v1)
  BY DEF Sound!PlayInv, Sound!JitterOK, Jitters, SoundPeaks, SoundRoom
<1>2. SUFFICES /\ v1' \in Jitters /\ v3' \in Nat \cup {-1} /\ v4' \in Nat /\ v5' \in 0 .. v4'
               /\ v7' \in Nat /\ v8' \in Nat /\ v8' <= SoundRoom /\ ~v10'
               /\ v2' # -1 => v2' = Sound!TargetOf(v1')
  BY DEF Sound!PlayInv, Sound!JitterOK, Jitters, SoundPeaks, SoundRoom, Sound!TargetOf
<1>3. CASE Sound!Open
  BY <1>1, <1>3 DEF Sound!Open
<1>4. CASE \E gap \in 0 .. MaxGap, decay \in 0 .. 1, w \in BOOLEAN, n \in 1 .. MaxChunks :
             Sound!Size(gap, decay, w, n)
  <2>1. PICK gap \in 0 .. MaxGap, decay \in 0 .. 1, w \in BOOLEAN, n \in 1 .. MaxChunks :
               Sound!Size(gap, decay, w, n)
    BY <1>4
  <2>2. PICK arrived : arrived = IF v6 THEN Sound!OnArrival(v1, gap, decay) ELSE v1
    OBVIOUS
  <2>3. PICK sized : sized = Sound!OnUnderruns(arrived, v4 - v5)
    OBVIOUS
  <2>4. arrived \in Jitters
    <3>1. gap \in Nat
      BY SoundNumbers
    <3> QED BY <1>1, <2>2, <3>1, ArrivalKeepsJitter, Zenon
  <2>5. sized \in Jitters
    <3>1. v4 - v5 \in Nat
      BY <1>1
    <3> QED BY <2>3, <2>4, <3>1, UnderrunsKeepJitter
  <2>6. v1' = IF w /\ v3 # -1 THEN Sound!OnMargin(sized, v3) ELSE sized
    BY <2>1, <2>2, <2>3 DEF Sound!Size
  <2>7. v1' \in Jitters
    <3>1. CASE w /\ v3 # -1
      <4>1. v3 \in Nat
        BY <1>1, <3>1
      <4> QED BY <2>5, <2>6, <3>1, <4>1, MarginKeepsJitter
    <3>2. CASE ~(w /\ v3 # -1)
      BY <2>5, <2>6, <3>2
    <3> QED BY <3>1, <3>2
  <2>8. /\ v3' = IF w THEN -1 ELSE v3
        /\ v2' = Sound!TargetOf(v1') /\ v5' = v4 /\ v7' = n
        /\ v4' = v4 /\ v8' = v8 /\ v10' = v10
    BY <2>1 DEF Sound!Size, Sound!TargetOf
  <2> QED BY <1>1, <2>7, <2>8
<1>5. CASE Sound!Queue
  <2>1. /\ v7 > 0 /\ v7' = v7 - 1
        /\ v2' = v2 /\ v3' = v3 /\ v4' = v4 /\ v5' = v5
    BY <1>5 DEF Sound!Queue
  <2>2. CASE Sound!Admits
    <3>1. PICK kept : kept = IF Sound!Slips(v1) THEN AudioFrame - Channels ELSE AudioFrame
      OBVIOUS
    <3>2. kept \in Nat /\ kept <= AudioFrame
      BY <3>1, SoundNumbers
    <3>3. /\ v8' = Sound!Lesser(v8 + kept, AudioCapacity)
          /\ v10' = (v10 \/ v8 + kept > AudioCapacity)
          /\ v1' = Sound!AfterSlip(v1)
      BY <1>5, <2>2, <3>1 DEF Sound!Queue
    <3>4. v8 + kept <= SoundRoom /\ v8 + kept <= AudioCapacity /\ v8 + kept \in Nat
      <4>1. v8 <= Sound!TrimAbove(v1) /\ Sound!TrimAbove(v1) \in Nat
            /\ Sound!TrimAbove(v1) + AudioFrame <= SoundRoom /\ SoundRoom \in Nat
        BY <1>1, <2>2, CushionIs, SoundNumbers DEF Sound!Admits
      <4> QED BY <1>1, <3>2, <4>1, SoundNumbers
    <3>8. v8' = v8 + kept /\ ~(v8 + kept > AudioCapacity)
      BY <1>1, <3>3, <3>4, SoundNumbers DEF Sound!Lesser
    <3>5. v8' = v8 + kept /\ ~v10'
      BY <1>1, <3>3, <3>8, Zenon
    <3>6. v1' \in Jitters /\ v1'.peak = v1.peak
      BY <1>1, <3>3, SlipKeepsJitter
    <3>7. Sound!TargetOf(v1') = Sound!TargetOf(v1)
      BY <3>6 DEF Sound!TargetOf
    <3> QED BY <1>1, <2>1, <3>4, <3>5, <3>6, <3>7
  <2>3. CASE ~Sound!Admits
    BY <1>1, <1>5, <2>1, <2>3 DEF Sound!Queue
  <2> QED BY <2>2, <2>3
<1>6. CASE Sound!Skip
  BY <1>1, <1>6 DEF Sound!Skip
<1>7. CASE Sound!Callback
  <2>1. /\ v3' = IF v3 = -1 THEN v8 ELSE Sound!Lesser(v3, v8)
        /\ v8' = IF Sound!Plays THEN Sound!Greater(v8 - AudioBurst, 0) ELSE v8
        /\ v4' \in {v4, v4 + 1}
        /\ v1' = v1 /\ v2' = v2 /\ v5' = v5 /\ v7' = v7 /\ v10' = v10
    BY <1>7 DEF Sound!Callback
  <2>2. v3' \in Nat \cup {-1}
    BY <1>1, <2>1 DEF Sound!Lesser
  <2>3. SoundRoom \in Nat
    BY SoundNumbers
  <2>4. v8' \in Nat /\ v8' <= SoundRoom
    BY <1>1, <2>1, <2>3, SoundNumbers DEF Sound!Greater
  <2> QED BY <1>1, <2>1, <2>2, <2>4
<1> QED BY <1>3, <1>4, <1>5, <1>6, <1>7 DEF Sound!Next

LEMMA PlayStart ==
    ASSUME Sound!Init
    PROVE  Sound!PlayInv
<1>1. v1 \in Jitters
  <2>1. AudioFrame \in SoundPeaks /\ 1 \in 1 .. Windows /\ 0 \in 0 .. Windows
    BY SoundNumbers DEF SoundPeaks
  <2> QED BY <2>1 DEF Sound!Init, Jitters
<1>2. 0 <= SoundRoom
  BY SoundNumbers
<1> QED BY <1>1, <1>2 DEF Sound!Init, Sound!PlayInv, Sound!JitterOK, Jitters, SoundPeaks,
      SoundRoom, Sound!None

LEMMA PlayIsBounded ==
    ASSUME Sound!PlayInv
    PROVE  Sound!DelayIsBounded
<1>1. v1 \in Jitters
  BY DEF Sound!PlayInv, Sound!JitterOK, Jitters, SoundPeaks
<1> QED BY <1>1, CushionIs DEF Sound!PlayInv, Sound!DelayIsBounded, Sound!None

LEMMA PlayStays ==
    ASSUME Sound!PlayInv, UNCHANGED vars
    PROVE  Sound!PlayInv'
BY DEF vars, Sound!PlayInv, Sound!JitterOK, Sound!TargetOf, Sound!None

-----------------------------------------------------------------------------
(* All of them.  The inductive invariant of each machine, for the part it  *)
(* is.                                                                     *)

MediaInv ==
    /\ part = "capture" => Cap!PathInv
    /\ part = "drain" => Drain!DrainInv
    /\ part = "frames" => Loop!LoopInv
    /\ part = "send" => Send!SendInv
    /\ part = "rate" => Rate!RateInv
    /\ part = "pace" => Pace!PaceInv
    /\ part = "rings" => Ring!RingInv
    /\ part = "nacks" => Hole!NackInv
    /\ part = "sound" => Source!SendInv
    /\ part = "reorder" => Reorder!ReorderInv
    /\ part = "playout" => Sound!PlayInv

\* A step of none of them.
LEMMA PathStays == ASSUME Cap!PathInv, UNCHANGED vars PROVE Cap!PathInv'
BY DEF vars, Cap!PathInv, Cap!SentAsTold, Cap!ContextsMade, Cap!ColorInfo, Cap!None

LEMMA LoopStays == ASSUME Loop!LoopInv, UNCHANGED vars PROVE Loop!LoopInv'
BY DEF vars, Loop!LoopInv

LEMMA RateStays == ASSUME Rate!RateInv, UNCHANGED vars PROVE Rate!RateInv'
BY DEF vars, Rate!RateInv

LEMMA NackStays == ASSUME Hole!NackInv, UNCHANGED vars PROVE Hole!NackInv'
BY DEF vars, Hole!NackInv

LEMMA MediaStart == MCInit => MediaInv
BY PathStart, DrainStart, LoopStart, SendStart, RateStart, PaceStart, RingStart, NackStart,
   SourceStart, ReorderStart, PlayStart DEF MCInit, MediaInv

LEMMA MediaStep == MediaInv /\ [MCNext]_vars => MediaInv'
<1>1. ASSUME MediaInv, MCNext PROVE MediaInv'
  BY <1>1, PathKept, DrainKept, LoopKept, SendKept, RateKept, PaceKept, RingKept, NackKept,
     SourceKept, ReorderKept, PlayKept DEF MCNext, MediaInv
<1>2. ASSUME MediaInv, UNCHANGED vars PROVE MediaInv'
  <2>1. part' = part
    BY <1>2 DEF vars
  <2> QED BY <1>2, <2>1, PathStays, DrainStays, LoopStays, SendStays, RateStays, PaceStays,
             RingStays, NackStays, SourceStays, ReorderStays, PlayStays DEF MediaInv
<1> QED BY <1>1, <1>2

\* Whichever machine it is, its inductive invariant holds for ever.
THEOREM MediaInvariance == MCSpec => []MediaInv
BY MediaStart, MediaStep, PTL DEF MCSpec

\* Every access unit sent is what the TV was last told the stream is, or is owed an IDR;
\* no buffer is read once its capture is gone; and NvFBC's contexts are paired, whatever
\* desktop changes and failures a session sees.
THEOREM FramesAreAsTold == MCSpec => []SentAsTold
<1>1. MediaInv => SentAsTold
  BY PathSafe DEF MediaInv, SentAsTold
<1> QED BY <1>1, MediaInvariance, PTL

\* A frame the governor holds back is the newest there is and has a deadline: a desktop
\* that falls still is never left with an older picture on the screen.
THEOREM NewestFrameIsNeverForgotten == MCSpec => []NewestIsShownOrHeld
<1>1. MediaInv => NewestIsShownOrHeld
  BY LoopSafe DEF MediaInv, NewestIsShownOrHeld
<1> QED BY <1>1, MediaInvariance, PTL

\* The target stays within the settings and the client's ceiling and is probed past its
\* limit an interval apart at most; and between any two batches the pacer lets through
\* no more than the time between them pays for, and the burst.
THEOREM RatesStayKept == MCSpec => []RatesAreKept
<1>1. MediaInv => RatesAreKept
  BY RateSafe DEF MediaInv, RatesAreKept, Pace!PaceInv
<1> QED BY <1>1, MediaInvariance, PTL

\* No step of the governor lets a third frame through within half an interval of the
\* first of three; every new hole is asked for at once, and no NACK within the holdoff
\* asks for nothing new.
THEOREM FramesAndNacksAreInTime == MCSpec => ShownAndAskedInTime
<1> DEFINE InTime == /\ part = "frames" => Loop!IsNoBurst
                     /\ part = "nacks" => Hole!AsksForMore /\ Hole!AsksAtOnce
<1>1. MediaInv /\ MCNext => InTime
  BY LoopHasNoBurst, NackKept DEF MediaInv, MCNext
<1>2. MediaInv /\ [MCNext]_vars => [InTime]_vars
  BY <1>1
<1>3. MCSpec => [][InTime]_vars
  <2> HIDE DEF InTime
  <2> QED BY <1>2, MediaInvariance, PTL DEF MCSpec
<1> QED BY <1>3 DEF ShownAndAskedInTime

\* The stream of sound runs ahead of real time by no more than a period for each start and
\* stop of what plays, and stands still for no longer than the grace and the polls that
\* failed; a packet is played in its own place or not at all; and the delay the player
\* holds stays under its bound.
THEOREM SoundStaysInTime == MCSpec => []SoundKeepsTime
<1>1. MediaInv => SoundKeepsTime
  BY SourceIsInTime, ReorderIsInPlace, PlayIsBounded DEF MediaInv, SoundKeepsTime
<1> QED BY <1>1, MediaInvariance, PTL

\* A picture read while the encoder writes it is the picture: every tile once and in
\* order, nothing of the picture before it, and its end told with its last byte.
THEOREM PictureStaysExact == MCSpec => []PictureIsExact
<1>1. MediaInv => PictureIsExact
  BY DEF MediaInv, PictureIsExact, Drain!DrainInv
<1> QED BY <1>1, MediaInvariance, PTL

\* No entry of a ring is torn, lost or handed over twice under the weak memory order; the
\* socket is handed the stream in order and whole, but for what the ring dropped; and a
\* retransmit is never of a packet that took the place of the one asked for.
THEOREM StreamStaysWhole == MCSpec => []StreamIsWhole
<1>1. MediaInv => StreamIsWhole
  BY StreamWhole DEF MediaInv, StreamIsWhole, Ring!RingInv
<1> QED BY <1>1, MediaInvariance, PTL
=============================================================================
