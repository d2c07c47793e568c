-------------------------------- MODULE Rings --------------------------------
(***************************************************************************)
(* The ring between one producing and one consuming thread, as it is       *)
(* written three times: packets to the send thread (net/spsc.rs), stage    *)
(* samples to the drain thread (core/instr/ring.rs) and decoded PCM to the *)
(* audio callback (android/audio_ring.rs).  The first two move one item at *)
(* a time, the third as many as fit.                                       *)
(*                                                                         *)
(* Both indices are free-running counters that wrap; each is stored by one *)
(* thread, and the other may read any value stored since it last looked.   *)
(* Filling a slot, reading one and publishing an index are separate steps. *)
(***************************************************************************)
EXTENDS Integers, Sequences

CONSTANTS
    Slots,    \* the capacity: the power of two the constructors round up to
    Wrap,     \* values of a counter; usize wraps at a multiple of Slots
    Batch,    \* the most items one push or pop asks to move
    MaxItems  \* bound: items offered

RingBounds ==
    /\ {Slots, Wrap, Batch, MaxItems} \subseteq Nat \ {0}
    /\ Wrap % Slots = 0 /\ Wrap > Slots

VARIABLES
    tail,     \* the next index to write; only the producer stores it
    head,     \* the next index to read; only the consumer stores it
    slots,    \* what each slot holds
    producer, \* what the producer is doing
    consumer, \* what the consumer is doing
    offered,  \* items offered so far, which names the next one
    accepted, \* the items a push said it took
    taken     \* the items a pop handed over

vars == <<tail, head, slots, producer, consumer, offered, accepted, taken>>

Counter == 0 .. Wrap - 1
Empty == 0
Torn == MaxItems + 1

\* A thread between two calls, and one moving todo items, done of them moved:
\* seen is the other's index as last read, item the one at hand, and open says
\* that it is inside the slot.
Resting(seen) == [seen |-> seen, item |-> Empty, todo |-> 0, done |-> 0, open |-> FALSE]
Moving(seen, item, n) == [Resting(seen) EXCEPT !.item = item, !.todo = n]

Init ==
    /\ tail = 0 /\ head = 0
    /\ slots = [i \in 0 .. Slots - 1 |-> Empty]
    /\ producer = Resting(0) /\ consumer = Resting(0)
    /\ offered = 0 /\ accepted = <<>> /\ taken = <<>>

Plus(index, n) == (index + n) % Wrap
Ahead(a, b) == (a + Wrap - b) % Wrap
Slot(index) == index % Slots
Least(a, b) == IF a < b THEN a ELSE b

\* What an acquire load of an index may return: nothing older than last time.
Visible(seen, index) == {c \in Counter : Ahead(c, seen) <= Ahead(index, seen)}

-----------------------------------------------------------------------------

\* Room for new items, as the producer sees it.
FreeOneMore(seen) == Slots + 1 - Ahead(tail, seen)
Free(seen) == Slots - Ahead(tail, seen)

\* push: as many as fit, and the rest is dropped.
BeginPush ==
    /\ producer.todo = 0
    /\ \E n \in 1 .. Batch, seen \in Visible(producer.seen, head) :
        /\ offered + n <= MaxItems
        /\ offered' = offered + n
        /\ producer' = Moving(seen, offered + 1, Least(n, Free(seen)))
    /\ UNCHANGED <<tail, head, slots, consumer, accepted, taken>>

Filled == Slot(Plus(tail, producer.done))

OpenSlot ==
    /\ producer.done < producer.todo /\ ~producer.open
    /\ slots' = [slots EXCEPT ![Filled] = Torn]
    /\ producer' = [producer EXCEPT !.open = TRUE]
    /\ UNCHANGED <<tail, head, consumer, offered, accepted, taken>>

FillSlot ==
    /\ producer.open
    /\ slots' = [slots EXCEPT ![Filled] = producer.item + producer.done]
    /\ producer' = [producer EXCEPT !.open = FALSE, !.done = @ + 1]
    /\ UNCHANGED <<tail, head, consumer, offered, accepted, taken>>

\* The release store that publishes what was filled, and the count returned.
PublishTail ==
    /\ producer.todo > 0 /\ producer.done = producer.todo
    /\ tail' = Plus(tail, producer.todo)
    /\ accepted' = accepted \o [k \in 1 .. producer.todo |-> producer.item + k - 1]
    /\ producer' = Resting(producer.seen)
    /\ UNCHANGED <<head, slots, consumer, offered, taken>>

-----------------------------------------------------------------------------

\* pop: as many as are published.
BeginPop ==
    /\ consumer.todo = 0
    /\ \E n \in 1 .. Batch, seen \in Visible(consumer.seen, tail) :
        consumer' = Moving(seen, Empty, Least(n, Ahead(seen, head)))
    /\ UNCHANGED <<tail, head, slots, producer, offered, accepted, taken>>

Read == Slot(Plus(head, consumer.done))

LookAtSlot ==
    /\ consumer.done < consumer.todo /\ ~consumer.open
    /\ consumer' = [consumer EXCEPT !.open = TRUE, !.item = slots[Read]]
    /\ UNCHANGED <<tail, head, slots, producer, offered, accepted, taken>>

\* The item is used where it lies until here: a slot written meanwhile is torn.
TakeItem ==
    /\ consumer.open
    /\ taken' = Append(taken, IF slots[Read] = consumer.item THEN consumer.item ELSE Torn)
    /\ consumer' = [consumer EXCEPT !.open = FALSE, !.done = @ + 1]
    /\ UNCHANGED <<tail, head, slots, producer, offered, accepted>>

PublishHead ==
    /\ consumer.todo > 0 /\ consumer.done = consumer.todo
    /\ head' = Plus(head, consumer.todo)
    /\ consumer' = Resting(consumer.seen)
    /\ UNCHANGED <<tail, slots, producer, offered, accepted, taken>>

Next ==
    \/ BeginPush \/ OpenSlot \/ FillSlot \/ PublishTail
    \/ BeginPop \/ LookAtSlot \/ TakeItem \/ PublishHead

Spec == Init /\ [][Next]_vars

-----------------------------------------------------------------------------

\* What the consumer is handed is what the producer was told it placed, whole,
\* in order and once, through wraps of both counters, stale views of the other
\* index and slots written while others are read (spsc.rs 107, ring.rs 137,
\* audio_ring.rs 72); what is left is still in the ring.
NothingTornOrLost ==
    /\ Len(taken) <= Len(accepted) /\ taken = SubSeq(accepted, 1, Len(taken))
    /\ consumer.todo = 0 => Len(accepted) - Len(taken) = Ahead(tail, head)

\* The inductive invariant, in terms of how many items the head has gone by.  Each
\* thread saw the other's index where it once was, and relies on no more than that;
\* what is between the indices is what was accepted, and what the producer has
\* filled beyond them is what it is about to publish.
Gone == Len(taken) - consumer.done

IsThread(thread) ==
    /\ thread \in [seen : Counter, item : Nat, todo : Nat, done : Nat, open : BOOLEAN]
    /\ thread.done <= thread.todo
    /\ thread.open => thread.done < thread.todo

HasRoom(seen, gone, last) ==
    \E p \in 0 .. gone : p % Wrap = seen /\ last <= p + Slots
HasItems(seen, published, last) ==
    \E c \in 0 .. published : c % Wrap = seen /\ last <= c

RingInv ==
    /\ offered \in Nat /\ slots \in [0 .. Slots - 1 -> Nat]
    /\ IsThread(producer) /\ IsThread(consumer)
    /\ accepted \in Seq(Nat) /\ taken \in Seq(Nat)
    /\ Gone \in Nat /\ tail = Len(accepted) % Wrap /\ head = Gone % Wrap
    /\ HasRoom(producer.seen, Gone, Len(accepted) + producer.todo)
    /\ HasItems(consumer.seen, Len(accepted), Gone + consumer.todo)
    /\ \A k \in Gone + 1 .. Len(accepted) : slots[Slot(k - 1)] = accepted[k]
    /\ \A d \in 0 .. producer.done - 1 : slots[Slot(Len(accepted) + d)] = producer.item + d
    /\ consumer.open => consumer.item = accepted[Len(taken) + 1]
    /\ NothingTornOrLost
=============================================================================
