--------------------------- MODULE Instrumentation ---------------------------
(***************************************************************************)
(* The registry of sample rings (core/instr/ring.rs): threads take a ring  *)
(* at their first sample and retire it as they exit, and whoever drains    *)
(* frees the retired ones while other threads come, record and go.  A ring *)
(* by itself is Rings; here a push and a pop are one step each.            *)
(*                                                                         *)
(* A sample is the tick it was stamped with; the clock ticks at each.      *)
(***************************************************************************)
EXTENDS Naturals, Sequences

CONSTANTS
    Thread,     \* threads that record, each of which exits once
    Collector,  \* threads that drain
    Places,     \* MAX_THREADS
    Capacity,   \* RING_CAPACITY
    MaxSamples, \* bound: calls of record
    MaxDrains,  \* bound: calls of drain_merged
    Nobody      \* no thread: the null pointer of an empty place

InstrBounds ==
    /\ {Places, Capacity, MaxSamples, MaxDrains} \subseteq Nat \ {0}
    /\ Nobody \notin Thread \cup Collector


VARIABLES
    registry,   \* the thread whose ring each place points at, or Nobody
    rings,      \* each thread's ring: its samples, its flags and its memory
    threads,    \* each thread: its STATE, whether LOCAL points at its ring,
                \* where it is in a call, and the sample it stamped
    collectors, \* each collector: where it is, and what it has looked up
    locked,     \* the collector that holds CONSUMER, or Nobody
    clock,      \* the last tick
    drains,     \* drains so far
    collected,  \* samples handed to the collector, in order
    dropped     \* samples refused by a full ring or for want of one

vars == <<registry, rings, threads, collectors, locked, clock, drains, collected, dropped>>

Place == 1 .. Places

NoRing == [samples |-> <<>>, retired |-> FALSE, memory |-> "none"]
NewRing == [NoRing EXCEPT !.memory = "live"]

Started == [state |-> "new", local |-> FALSE, at |-> "idle", sample |-> 0, place |-> 1]
Waiting == [at |-> "idle", until |-> 0, place |-> 1, seen |-> <<>>, retired |-> {}]

Init ==
    /\ registry = [p \in Place |-> Nobody]
    /\ rings = [t \in Thread |-> NoRing]
    /\ threads = [t \in Thread |-> Started]
    /\ collectors = [c \in Collector |-> Waiting]
    /\ locked = Nobody
    /\ clock = 0 /\ drains = 0 /\ collected = <<>> /\ dropped = {}

-----------------------------------------------------------------------------
(* A thread.                                                               *)

\* record: the clock is read before anything else.
Stamp(t) ==
    /\ threads[t].at = "idle" /\ clock < MaxSamples
    /\ clock' = clock + 1
    /\ threads' = [threads EXCEPT ![t].at = "stamped", ![t].sample = clock']
    /\ UNCHANGED <<registry, rings, collectors, locked, drains, collected, dropped>>

\* With a ring: the sample is in it, or counted as dropped.
Push(t) ==
    /\ threads[t].at = "stamped" /\ threads[t].local
    /\ IF Len(rings[t].samples) < Capacity
         THEN /\ rings' = [rings EXCEPT ![t].samples = Append(@, threads[t].sample)]
              /\ UNCHANGED dropped
         ELSE /\ dropped' = dropped \cup {threads[t].sample}
              /\ UNCHANGED rings
    /\ threads' = [threads EXCEPT ![t].at = "idle"]
    /\ UNCHANGED <<registry, collectors, locked, clock, drains, collected>>

\* Without one, and past its first try: nothing.
Skip(t) ==
    /\ threads[t].at = "stamped" /\ ~threads[t].local
    /\ threads[t].state # "new"
    /\ threads' = [threads EXCEPT ![t].at = "idle"]
    /\ dropped' = dropped \cup {threads[t].sample}
    /\ UNCHANGED <<registry, rings, collectors, locked, clock, drains, collected>>

\* register: a full table costs no allocation.
LookForRoom(t) ==
    /\ threads[t].at = "stamped" /\ ~threads[t].local
    /\ threads[t].state = "new"
    /\ IF \A p \in Place : registry[p] # Nobody
         THEN /\ threads' = [threads EXCEPT ![t].state = "failed"]
              /\ UNCHANGED rings
         ELSE /\ threads' = [threads EXCEPT ![t].at = "claiming"]
              /\ rings' = [rings EXCEPT ![t] = NewRing]
    /\ UNCHANGED <<registry, collectors, locked, clock, drains, collected, dropped>>

\* The compare-and-swap on the next place; the last one may have been lost.
Claim(t) ==
    LET p == threads[t].place IN
    /\ threads[t].at = "claiming"
    /\ IF registry[p] = Nobody
         THEN /\ registry' = [registry EXCEPT ![p] = t]
              /\ threads' = [threads EXCEPT ![t].state = "registered",
                                            ![t].local = TRUE, ![t].at = "stamped"]
              /\ UNCHANGED rings
         ELSE /\ IF p < Places
                   THEN /\ threads' = [threads EXCEPT ![t].place = p + 1]
                        /\ UNCHANGED rings
                   ELSE /\ threads' = [threads EXCEPT ![t].state = "failed", ![t].at = "stamped"]
                        /\ rings' = [rings EXCEPT ![t] = NoRing]
              /\ UNCHANGED registry
    /\ UNCHANGED <<collectors, locked, clock, drains, collected, dropped>>

\* RetireGuard::drop: LOCAL is nulled, and the ring retired in a second step.
\* The destructors that run after it may still record.
Exit(t) ==
    /\ threads[t].at = "idle" /\ threads[t].state # "exited"
    /\ threads' = [threads EXCEPT ![t].state = "exited", ![t].local = FALSE,
                                  ![t].at = IF threads[t].local THEN "retiring" ELSE "idle"]
    /\ UNCHANGED <<registry, rings, collectors, locked, clock, drains, collected, dropped>>

Retire(t) ==
    /\ threads[t].at = "retiring"
    /\ rings' = [rings EXCEPT ![t].retired = TRUE]
    /\ threads' = [threads EXCEPT ![t].at = "idle"]
    /\ UNCHANGED <<registry, collectors, locked, clock, drains, collected, dropped>>

-----------------------------------------------------------------------------
(* drain_merged.                                                           *)

\* Collector::poll reads the clock before it asks for the lock.
Poll(c) ==
    /\ collectors[c].at = "idle" /\ drains < MaxDrains
    /\ drains' = drains + 1
    /\ collectors' = [collectors EXCEPT ![c] = [Waiting EXCEPT !.at = "locking", !.until = clock]]
    /\ UNCHANGED <<registry, rings, threads, locked, clock, collected, dropped>>

Unlocked == locked = Nobody

Lock(c) ==
    /\ collectors[c].at = "locking" /\ Unlocked
    /\ locked' = c
    /\ collectors' = [collectors EXCEPT ![c].at = "looking"]
    /\ UNCHANGED <<registry, rings, threads, clock, drains, collected, dropped>>

\* The next place, and whether the ring there was retired before it is drained.
LookUp(c) ==
    LET p == collectors[c].place IN
    /\ collectors[c].at = "looking"
    /\ collectors' = [collectors EXCEPT
         ![c].seen = Append(@, registry[p]),
         ![c].retired = IF registry[p] # Nobody /\ rings[registry[p]].retired
                          THEN @ \cup {p} ELSE @,
         ![c].at = IF p < Places THEN "looking" ELSE "merging",
         ![c].place = IF p < Places THEN p + 1 ELSE 1]
    /\ UNCHANGED <<registry, rings, threads, locked, clock, drains, collected, dropped>>

Looked(c) == {p \in Place : collectors[c].seen[p] # Nobody}

\* The rings whose oldest sample is not newer than the drain.
Due(c) ==
    {p \in Looked(c) : LET s == rings[collectors[c].seen[p]].samples IN
                         s # <<>> /\ Head(s) <= collectors[c].until}

Pop(t) ==
    /\ collected' = Append(collected, Head(rings[t].samples))
    /\ rings' = [rings EXCEPT ![t].samples = Tail(@)]

\* merge_rings: the oldest of the heads.
Merge(c) ==
    /\ collectors[c].at = "merging"
    /\ \E p \in Due(c) :
        /\ \A q \in Due(c) : Head(rings[collectors[c].seen[p]].samples)
                              <= Head(rings[collectors[c].seen[q]].samples)
        /\ Pop(collectors[c].seen[p])
    /\ UNCHANGED <<registry, threads, collectors, locked, clock, drains, dropped>>

Merged(c) ==
    /\ collectors[c].at = "merging" /\ Due(c) = {}
    /\ collectors' = [collectors EXCEPT ![c].at = "reclaiming"]
    /\ UNCHANGED <<registry, rings, threads, locked, clock, drains, collected, dropped>>

\* Whether a ring may be freed: it had been retired before it was drained.
WasRetired(c, p) == p \in collectors[c].retired

\* What a gone thread left, newer than the drain or not.
LeftoverDue(c, p) == p \in Due(c)
Leftover(c, p) == rings[collectors[c].seen[p]].samples # <<>>

Reclaim(c) ==
    LET p == collectors[c].place IN
    /\ collectors[c].at = "reclaiming"
    /\ WasRetired(c, p)
    /\ IF Leftover(c, p)
         THEN /\ Pop(collectors[c].seen[p])
              /\ UNCHANGED <<registry, collectors>>
         ELSE /\ registry' = [registry EXCEPT ![p] = Nobody]
              /\ rings' = [rings EXCEPT ![collectors[c].seen[p]].memory = "freed"]
              /\ collectors' = [collectors EXCEPT ![c].retired = @ \ {p}]
              /\ UNCHANGED collected
    /\ UNCHANGED <<threads, locked, clock, drains, dropped>>

\* The next place, or the end of the drain and of the lock.
StepOver(c) ==
    LET p == collectors[c].place IN
    /\ collectors[c].at = "reclaiming" /\ ~WasRetired(c, p)
    /\ IF p < Places
         THEN /\ collectors' = [collectors EXCEPT ![c].place = p + 1]
              /\ UNCHANGED locked
         ELSE /\ collectors' = [collectors EXCEPT ![c] = Waiting]
              /\ locked' = Nobody
    /\ UNCHANGED <<registry, rings, threads, clock, drains, collected, dropped>>

Next ==
    \/ \E t \in Thread :
         Stamp(t) \/ Push(t) \/ Skip(t) \/ LookForRoom(t) \/ Claim(t) \/ Exit(t) \/ Retire(t)
    \/ \E c \in Collector :
         Poll(c) \/ Lock(c) \/ LookUp(c) \/ Merge(c) \/ Merged(c) \/ Reclaim(c) \/ StepOver(c)

Spec == Init /\ [][Next]_vars

-----------------------------------------------------------------------------

In(samples) == {samples[i] : i \in DOMAIN samples}
Held == UNION {In(rings[t].samples) : t \in {u \in Thread : rings[u].memory = "live"}}
InHand == {threads[t].sample : t \in {u \in Thread : threads[u].at \notin {"idle", "retiring"}}}

\* Every sample is with its thread, in a ring nobody has freed, counted as
\* dropped, or collected exactly once; no thread that still records and no
\* drain in progress holds a ring that is freed (ring.rs: "a ring is freed only
\* after its owner retired it, and LOCAL is nulled before retirement").
SamplesAccountedFor ==
    /\ InHand \cup Held \cup dropped \cup In(collected) = 1 .. clock
    /\ \A i, j \in DOMAIN collected : collected[i] = collected[j] => i = j
    /\ \A t \in Thread : threads[t].local => rings[t].memory = "live"
    /\ \A c \in Collector : locked = c =>
         \A p \in DOMAIN collectors[c].seen :
            collectors[c].at = "merging" /\ collectors[c].seen[p] # Nobody =>
                rings[collectors[c].seen[p]].memory = "live"
-----------------------------------------------------------------------------
(* The inductive invariant.                                                *)

TypeOK ==
    /\ registry \in [Place -> Thread \cup {Nobody}]
    /\ rings \in [Thread -> [samples : Seq(Nat), retired : BOOLEAN,
                             memory : {"none", "live", "freed"}]]
    /\ threads \in [Thread -> [state : {"new", "registered", "failed", "exited"},
                               local : BOOLEAN,
                               at : {"idle", "stamped", "claiming", "retiring"},
                               sample : Nat, place : Place]]
    /\ collectors \in [Collector ->
                         [at : {"idle", "locking", "looking", "merging", "reclaiming"},
                          until : Nat, place : Place, seen : Seq(Thread \cup {Nobody}),
                          retired : SUBSET Place]]
    /\ locked \in Collector \cup {Nobody}
    /\ clock \in Nat /\ collected \in Seq(Nat)

\* A thread's ring lives from its try at a place until it is freed, and that is after
\* the thread retired it.
RingOf(t) ==
    /\ threads[t].local <=> threads[t].state = "registered"
    /\ threads[t].local => rings[t].memory = "live" /\ ~rings[t].retired
    /\ threads[t].at = "claiming" =>
         /\ threads[t].state = "new" /\ rings[t].memory = "live" /\ ~rings[t].retired
         /\ rings[t].samples = <<>> /\ \A p \in Place : registry[p] # t
    /\ threads[t].at = "retiring" =>
         threads[t].state = "exited" /\ rings[t].memory = "live" /\ ~rings[t].retired
    /\ threads[t].state = "failed" \/ (threads[t].state = "new" /\ threads[t].at # "claiming") =>
         rings[t].memory = "none"
    /\ rings[t].memory # "live" => rings[t].samples = <<>>
    /\ rings[t].retired => threads[t].state = "exited" /\ threads[t].at # "retiring"

RegistryHolds ==
    /\ \A p \in Place : registry[p] # Nobody => rings[registry[p]].memory = "live"
    /\ \A p, q \in Place : registry[p] # Nobody /\ registry[p] = registry[q] => p = q

\* What the collector with the lock looked up is still there, until it frees it.
SeenIs(c) ==
    LET k == collectors[c] IN
    /\ k.at \in {"looking", "merging", "reclaiming"} <=> locked = c
    /\ k.at = "looking" => Len(k.seen) = k.place - 1
    /\ k.at \in {"merging", "reclaiming"} => Len(k.seen) = Places
    /\ k.at \in {"idle", "locking"} => k.seen = <<>> /\ k.retired = {} /\ k.place = 1
    /\ k.at = "merging" => k.place = 1
    /\ k.at \in {"looking", "merging"} =>
         \A p \in 1 .. Len(k.seen) : k.seen[p] # Nobody => registry[p] = k.seen[p]
    /\ \A p \in k.retired :
         /\ p \in 1 .. Len(k.seen) /\ k.seen[p] # Nobody /\ registry[p] = k.seen[p]
         /\ rings[k.seen[p]].retired
         /\ k.at = "reclaiming" => k.place <= p

\* Each sample is somewhere, and in one place only.
Holds(t) == threads[t].at \in {"stamped", "claiming"}
Somewhere(x) ==
    \/ \E t \in Thread : Holds(t) /\ threads[t].sample = x
    \/ \E t \in Thread : \E i \in 1 .. Len(rings[t].samples) : rings[t].samples[i] = x
    \/ x \in dropped
    \/ \E i \in 1 .. Len(collected) : collected[i] = x
OnceEach ==
    /\ \A t, u \in Thread : Holds(t) /\ Holds(u) /\ threads[t].sample = threads[u].sample => t = u
    /\ \A t, u \in Thread : \A i \in 1 .. Len(rings[u].samples) :
         Holds(t) => rings[u].samples[i] # threads[t].sample
    /\ \A t \in Thread : \A j \in 1 .. Len(collected) :
         Holds(t) => collected[j] # threads[t].sample
    /\ \A t, u \in Thread : \A i \in 1 .. Len(rings[t].samples), j \in 1 .. Len(rings[u].samples) :
         rings[t].samples[i] = rings[u].samples[j] => t = u /\ i = j
    /\ \A t \in Thread : \A i \in 1 .. Len(rings[t].samples), j \in 1 .. Len(collected) :
         rings[t].samples[i] # collected[j]
    /\ \A i, j \in 1 .. Len(collected) : collected[i] = collected[j] => i = j
SamplesHeld ==
    /\ \A x \in 1 .. clock : Somewhere(x)
    /\ \A t \in Thread : Holds(t) => threads[t].sample \in 1 .. clock
    /\ \A t \in Thread : \A i \in 1 .. Len(rings[t].samples) : rings[t].samples[i] \in 1 .. clock
    /\ dropped \subseteq 1 .. clock
    /\ \A i \in 1 .. Len(collected) : collected[i] \in 1 .. clock
    /\ OnceEach

InstrInv ==
    /\ TypeOK /\ RegistryHolds /\ SamplesHeld
    /\ \A t \in Thread : RingOf(t)
    /\ \A c \in Collector : SeenIs(c)
=============================================================================
