------------------------------ MODULE LatencyTable ------------------------------
(***************************************************************************)
(* From samples to the latency table (core/instr/drain.rs and              *)
(* hist.rs): the collector pairs a stage's sample with the stage before it *)
(* of the same frame, drops the duration in the histogram of the interval, *)
(* and a report merges the window's intervals and reads percentiles off.   *)
(*                                                                         *)
(* The rings the samples come through are Instrumentation; here a sample   *)
(* is stamped, published, and drained in the order of the stamps of what   *)
(* was published by then.  Durations are in ticks.                         *)
(***************************************************************************)
EXTENDS Integers, Sequences, FiniteSets, Functions

CONSTANTS
    Stage,      \* Stage::ALL, 0 .. STAGE_COUNT - 1
    Starting,   \* the stages that start a chain
    Slots,      \* FRAME_SLOTS
    Intervals,  \* WINDOW_INTERVALS
    Bits,       \* SUB_BITS, which is also MIN_OCTAVE
    MaxOctave,  \* MAX_OCTAVE
    Percents,   \* the percentiles a report reads
    Gaps,       \* ticks between two samples: the cases to try
    MaxFrame,   \* bound: frames sampled
    MaxSamples, \* bound
    MaxRotations \* bound

TableBounds ==
    /\ Stage = 0 .. Cardinality(Stage) - 1 /\ Starting \subseteq Stage /\ 0 \in Starting
    /\ {Slots, Intervals, Bits} \subseteq Nat \ {0} /\ MaxOctave \in Nat /\ MaxOctave > Bits

VARIABLES
    now,       \* the clock
    stamped,   \* samples taken and not published
    published, \* samples in the rings
    slots,     \* the frame slots: frame and the ticks of each stage, or NoTicks
    hist,      \* hist[stage][interval]: the count in each bucket, and the largest value
    current,   \* the interval being filled
    taken,     \* every sample taken
    found,     \* every duration recorded: stage, frame, ticks, rotations before it
    rotations

vars == <<now, stamped, published, slots, hist, current, taken, found, rotations>>

NoTicks == -1
NoFrame == -1

-----------------------------------------------------------------------------
(* The histogram: 2^Bits linear buckets to an octave.                      *)

Sub == 2 ^ Bits
Buckets == (MaxOctave - Bits + 1) * Sub
Octave(v) == CHOOSE o \in 0 .. v : 2 ^ o <= v /\ v < 2 ^ (o + 1)

\* bucket_of, bucket_lower, bucket_upper.
BucketOf(v) ==
    CASE v < Sub -> 0
      [] v >= 2 ^ (MaxOctave + 1) -> Buckets - 1
      [] OTHER -> LET o == Octave(v) IN ((o - Bits) * Sub) + ((v \div 2 ^ (o - Bits)) % Sub)
Lower(b) == LET o == Bits + (b \div Sub) IN 2 ^ o + ((b % Sub) * 2 ^ (o - Bits))
Upper(b) == (Lower(b) + 2 ^ (b \div Sub)) - 1

Empty == [count |-> [b \in 0 .. Buckets - 1 |-> 0], max |-> 0]

LargerOf(a, b) == IF a < b THEN b ELSE a
SmallerOf(a, b) == IF a < b THEN a ELSE b

Recorded(h, v) == [count |-> [h.count EXCEPT ![BucketOf(v)] = @ + 1], max |-> LargerOf(h.max, v)]
Merged(hs) == [count |-> [b \in 0 .. Buckets - 1 |->
                            SumFunction([i \in DOMAIN hs |-> hs[i].count[b]])],
               max   |-> FoldFunction(LargerOf, 0, [i \in DOMAIN hs |-> hs[i].max])]

CountTo(h, b) == SumFunctionOnSet(h.count, 0 .. b)
Total(h) == CountTo(h, Buckets - 1)

\* How many of the values are at or under the percentile.
Rank(p, n) == LargerOf(1, SmallerOf(n, (p * n + 99) \div 100))

\* The bucket a percentile falls in, read at its upper end.
ReadAtLower(b) == Lower(b)
ReadAt(b) == Upper(b)

Percentile(h, p) ==
    LET rank == Rank(p, Total(h))
        first == CHOOSE b \in 0 .. Buckets - 1 :
                   CountTo(h, b) >= rank /\ (b = 0 \/ CountTo(h, b - 1) < rank)
    IN  SmallerOf(ReadAt(first), h.max)

-----------------------------------------------------------------------------

Init ==
    /\ now = 0 /\ stamped = {} /\ published = {}
    /\ slots = [k \in 0 .. Slots - 1 |-> [frame |-> NoFrame, ticks |-> [s \in Stage |-> NoTicks]]]
    /\ hist = [s \in Stage |-> [i \in 0 .. Intervals - 1 |-> Empty]]
    /\ current = 0
    /\ taken = {} /\ found = <<>> /\ rotations = 0

\* A thread stamps a sample; a stage may be sampled again for a frame, once for
\* each unit of it.
Stamp ==
    /\ Cardinality(taken) < MaxSamples
    /\ \E s \in Stage, f \in 1 .. MaxFrame, gap \in Gaps :
        LET sample == [stage |-> s, frame |-> f, ticks |-> now + gap] IN
        /\ now' = now + gap
        /\ stamped' = stamped \cup {sample} /\ taken' = taken \cup {sample}
    /\ UNCHANGED <<published, slots, hist, current, found, rotations>>

Publish ==
    /\ \E sample \in stamped :
        stamped' = stamped \ {sample} /\ published' = published \cup {sample}
    /\ UNCHANGED <<now, slots, hist, current, taken, found, rotations>>

\* ingest: the slot the frame has, or takes from another; then the pairs the
\* sample completes, with the stage before it and with the stage after.
SlotOfAny(sample, e) == e
SlotOf(sample, e) ==
    IF e.frame = sample.frame THEN e
    ELSE [frame |-> sample.frame, ticks |-> [s \in Stage |-> NoTicks]]

Pairs(e, sample) ==
    LET s == sample.stage
        Pair(of, first, second) == [stage |-> of, frame |-> sample.frame, ticks |-> second - first,
                                    rotations |-> rotations]
    IN  (IF /\ s \notin Starting /\ e.ticks[s - 1] # NoTicks
            /\ e.ticks[s - 1] <= sample.ticks
           THEN <<Pair(s, e.ticks[s - 1], sample.ticks)>> ELSE <<>>)
        \o
        (IF /\ s + 1 \in Stage \ Starting /\ e.ticks[s + 1] # NoTicks
            /\ sample.ticks <= e.ticks[s + 1]
           THEN <<Pair(s + 1, sample.ticks, e.ticks[s + 1])>> ELSE <<>>)

\* poll, a sample at a time: the oldest of what is published.
Ingest ==
    /\ \E sample \in published :
        LET k == sample.frame % Slots
            e == [SlotOf(sample, slots[k]) EXCEPT !.ticks[sample.stage] = sample.ticks]
        IN  /\ \A other \in published : sample.ticks <= other.ticks
            /\ published' = published \ {sample}
            /\ slots' = [slots EXCEPT ![k] = e]
            /\ found' = found \o Pairs(e, sample)
            /\ hist' = FoldFunction(LAMBDA d, h : [h EXCEPT ![d.stage][current] = Recorded(@, d.ticks)],
                                    hist, Pairs(e, sample))
    /\ UNCHANGED <<now, stamped, current, taken, rotations>>

Rotate ==
    /\ rotations < MaxRotations /\ rotations' = rotations + 1
    /\ current' = (current + 1) % Intervals
    /\ hist' = [s \in Stage |-> [hist[s] EXCEPT ![current'] = Empty]]
    /\ UNCHANGED <<now, stamped, published, slots, taken, found>>

Next == Stamp \/ Publish \/ Ingest \/ Rotate

Spec == Init /\ [][Next]_vars

-----------------------------------------------------------------------------

\* report, for a stage.
Row(s) == Merged([i \in 1 .. Intervals |-> hist[s][i - 1]])

\* The durations of the window, and the one of a given rank.
Window(s) == SelectSeq(found, LAMBDA d : d.stage = s /\ d.rotations > rotations - Intervals)
Ranked(ds, n) ==
    CHOOSE v \in {ds[i].ticks : i \in DOMAIN ds} :
        /\ Cardinality({i \in DOMAIN ds : ds[i].ticks <= v}) >= n
        /\ Cardinality({i \in DOMAIN ds : ds[i].ticks < v}) < n

\* A row counts the durations of the window's intervals and no other, its
\* percentiles never understate the true one by rounding, nor overstate it by
\* more than a bucket's share, and every duration is between two samples of one
\* frame, whatever came late and whichever frame took the slot (hist.rs: "the
\* answer never understates the latency").
TableTellsTheTruth ==
    /\ \A s \in Stage : Window(s) # <<>> =>
         /\ Total(Row(s)) = Len(Window(s))
         /\ \A p \in Percents :
              LET true == Ranked(Window(s), Rank(p, Len(Window(s))))
                  read == Percentile(Row(s), p)
              IN  (Sub <= true /\ true < 2 ^ (MaxOctave + 1)) =>
                    true <= read /\ (read - true) * Sub <= true
    /\ \A s \in Stage : Window(s) = <<>> => Total(Row(s)) = 0
    /\ \A i \in DOMAIN found : \E a, b \in taken :
         /\ a.frame = found[i].frame /\ b.frame = found[i].frame
         /\ b.stage = found[i].stage /\ a.stage = b.stage - 1
         /\ b.ticks - a.ticks = found[i].ticks
=============================================================================
