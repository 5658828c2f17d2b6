------------------------------ MODULE SpscRing ------------------------------
(***************************************************************************)
(* lob::SpscRing (include/lob/spsc_ring.hpp) under the C++ memory model.   *)
(*                                                                         *)
(* An atomic index is its modification order: the sequence of the stores   *)
(* made to it.  A load returns any store that is not older than what the   *)
(* thread has already seen of that index; an acquire load of a release     *)
(* store brings along what the storing thread had done and seen before it. *)
(* Slots are plain memory: touching one without having been brought along  *)
(* the other thread's last access to it is a data race.                    *)
(*                                                                         *)
(* The producer calls emplace(), the consumer try_pop(), an observer may   *)
(* call size(); the owner destroys the ring after it has joined them.      *)
(* full() and empty() are the tests that emplace() and try_pop() start     *)
(* with.  The items are numbered 1, 2, 3... as they are pushed.            *)
(***************************************************************************)
EXTENDS Integers, Sequences, SequencesExt, FiniteSets

CONSTANTS
  Capacity,   \* number of slots
  Modulus,    \* number of values of a std::size_t (2^64)
  MaxItems    \* bound on the number of items constructed

\* Powers of two; the constructor throws for any other capacity.
ASSUME RingAssumption ==
  /\ Capacity \in Nat \ {0} /\ Modulus \in Nat /\ MaxItems \in Nat
  /\ Modulus > Capacity /\ Modulus % Capacity = 0

VARIABLES
  write_index, read_index,   \* the stores made to each, oldest first
  slots,
  producer, consumer, observer,   \* program counters, locals and knowledge
  alive                           \* the ring has not been destroyed

vars == <<write_index, read_index, slots, producer, consumer, observer, alive>>

Raw == 0   \* no object in this slot

\* A store: its value, the storing thread's last access to a slot (how many
\* it had constructed or destroyed) and what it had seen of the other index.
Store(value, done, seen) == [value |-> value, done |-> done, seen |-> seen]

\* `built' and `gone' are the ordinals of the last construction and of the
\* last destruction in a slot (0: none yet).
Init ==
  /\ write_index = <<Store(0, 0, 1)>>
  /\ read_index = <<Store(0, 0, 1)>>
  /\ slots = [s \in 0..Capacity-1 |-> [object |-> Raw, built |-> 0, gone |-> 0]]
  /\ producer = [pc |-> "idle", write |-> 0, seen |-> 1, knows |-> 0, built |-> 0]
  /\ consumer = [pc |-> "idle", read |-> 0, seen |-> 1, knows |-> 0, gone |-> 0,
                 moved |-> 0, out |-> 0]
  /\ observer = [pc |-> "idle", write_seen |-> 1, read_seen |-> 1]
  /\ alive = TRUE

\* Unsigned arithmetic of the indices that does not wrap.
Increment_without_wrap(i) == i + 1

Increment(i) == (i + 1) % Modulus
Difference(i, j) == (i + Modulus - j) % Modulus

\* index & mask_
slot_at(i) == i % Capacity

Larger(m, n) == IF m > n THEN m ELSE n

-----------------------------------------------------------------------------
(* emplace(), in the producer.                                             *)

\* One slot too many.
IsFull_late(write, read) == Difference(write, read) > Capacity

IsFull(write, read) == Difference(write, read) = Capacity

\* The two loads and the test; a refused call changes nothing but what the
\* producer has seen.
EmplaceLoad ==
  /\ alive /\ producer.pc = "idle" /\ producer.built < MaxItems
  /\ \E k \in producer.seen..Len(read_index) :
       LET write == Last(write_index).value
           load == read_index[k]
           full == IsFull(write, load.value)
       IN producer' = [producer EXCEPT !.seen = k,
                                       !.knows = Larger(@, load.done),
                                       !.write = write,
                                       !.pc = IF full THEN "idle" ELSE "construct"]
  /\ UNCHANGED <<write_index, read_index, slots, consumer, observer, alive>>

\* The placement new; the slot stays raw when the constructor of T throws.
EmplaceConstruct ==
  /\ producer.pc = "construct"
  /\ \/ LET n == producer.built + 1
            s == slot_at(producer.write)
        IN /\ slots' = [slots EXCEPT ![s] = [@ EXCEPT !.object = n, !.built = n]]
           /\ producer' = [producer EXCEPT !.pc = "publish", !.built = n]
     \/ producer' = [producer EXCEPT !.pc = "idle"] /\ UNCHANGED slots
  /\ UNCHANGED <<write_index, read_index, consumer, observer, alive>>

\* The store made relaxed: nothing comes along.
WriteStore_relaxed == Store(Increment(producer.write), 0, 1)

WriteStore == Store(Increment(producer.write), producer.built, producer.seen)

EmplacePublish ==
  /\ producer.pc = "publish"
  /\ write_index' = Append(write_index, WriteStore)
  /\ producer' = [producer EXCEPT !.pc = "idle"]
  /\ UNCHANGED <<read_index, slots, consumer, observer, alive>>

-----------------------------------------------------------------------------
(* try_pop(), in the consumer.                                             *)

PopLoad ==
  /\ alive /\ consumer.pc = "idle"
  /\ \E k \in consumer.seen..Len(write_index) :
       LET read == Last(read_index).value
           load == write_index[k]
       IN consumer' = [consumer EXCEPT !.seen = k,
                                       !.knows = Larger(@, load.done),
                                       !.read = read,
                                       !.pc = IF read = load.value THEN "idle" ELSE "move"]
  /\ UNCHANGED <<write_index, read_index, slots, producer, observer, alive>>

PopMove ==
  /\ consumer.pc = "move"
  /\ consumer' = [consumer EXCEPT !.pc = "destroy", !.moved = @ + 1,
                                  !.out = slots[slot_at(consumer.read)].object]
  /\ UNCHANGED <<write_index, read_index, slots, producer, observer, alive>>

PopDestroy ==
  /\ consumer.pc = "destroy"
  /\ LET n == consumer.gone + 1
     IN /\ slots' = [slots EXCEPT ![slot_at(consumer.read)] = [@ EXCEPT !.object = Raw,
                                                                        !.gone = n]]
        /\ consumer' = [consumer EXCEPT !.pc = "publish", !.gone = n]
  /\ UNCHANGED <<write_index, read_index, producer, observer, alive>>

PopPublish ==
  /\ consumer.pc = "publish"
  /\ read_index' = Append(read_index,
                          Store(Increment(consumer.read), consumer.gone, consumer.seen))
  /\ consumer' = [consumer EXCEPT !.pc = "idle"]
  /\ UNCHANGED <<write_index, slots, producer, observer, alive>>

-----------------------------------------------------------------------------
(* size(), in any thread: write, read, then write again.                   *)

SizeLoadWrite ==
  /\ alive /\ observer.pc = "idle"
  /\ \E k \in observer.write_seen..Len(write_index) :
       observer' = [observer EXCEPT !.pc = "read",
                                    !.write_seen = k,
                                    !.read_seen = Larger(@, write_index[k].seen)]
  /\ UNCHANGED <<write_index, read_index, slots, producer, consumer, alive>>

\* The second load of the producer's index may be older than the read index.
SizeLoadRead_relaxed ==
  /\ observer.pc = "read"
  /\ \E k \in observer.read_seen..Len(read_index) :
       observer' = [observer EXCEPT !.pc = "write again", !.read_seen = k]
  /\ UNCHANGED <<write_index, read_index, slots, producer, consumer, alive>>

SizeLoadRead ==
  /\ observer.pc = "read"
  /\ \E k \in observer.read_seen..Len(read_index) :
       observer' = [observer EXCEPT !.pc = "write again",
                                    !.read_seen = k,
                                    !.write_seen = Larger(@, read_index[k].seen)]
  /\ UNCHANGED <<write_index, read_index, slots, producer, consumer, alive>>

SizeLoadWriteAgain ==
  /\ observer.pc = "write again"
  /\ \E k \in observer.write_seen..Len(write_index) :
       observer' = [observer EXCEPT !.pc = "subtract", !.write_seen = k]
  /\ UNCHANGED <<write_index, read_index, slots, producer, consumer, alive>>

\* min(write - read, capacity): what size() returns.
SizeResult ==
  LET used == Difference(write_index[observer.write_seen].value,
                         read_index[observer.read_seen].value)
  IN IF used <= Capacity THEN used ELSE Capacity

SizeReturn ==
  /\ observer.pc = "subtract"
  /\ observer' = [observer EXCEPT !.pc = "idle"]
  /\ UNCHANGED <<write_index, read_index, slots, producer, consumer, alive>>

-----------------------------------------------------------------------------
(* ~SpscRing(), after the threads have been joined.                        *)

\* A walk that destroys the slot at write as well.
ClearedSlots_too_far(read, write) ==
  [k \in 1..Difference(write, read) + 1 |-> slot_at(read + k - 1)]

\* The slots whose objects clear() destroys, one after the other.
ClearedSlots(read, write) ==
  [k \in 1..Difference(write, read) |-> slot_at(read + k - 1)]

Destroy ==
  /\ alive
  /\ producer.pc = "idle" /\ consumer.pc = "idle" /\ observer.pc = "idle"
  /\ alive' = FALSE
  /\ slots' = [s \in DOMAIN slots |->
       IF s \in Range(ClearedSlots(Last(read_index).value, Last(write_index).value))
       THEN [slots[s] EXCEPT !.object = Raw] ELSE slots[s]]
  /\ UNCHANGED <<write_index, read_index, producer, consumer, observer>>

Next ==
  \/ EmplaceLoad \/ EmplaceConstruct \/ EmplacePublish
  \/ PopLoad \/ PopMove \/ PopDestroy \/ PopPublish
  \/ SizeLoadWrite \/ SizeLoadRead \/ SizeLoadWriteAgain \/ SizeReturn
  \/ Destroy

Spec == Init /\ [][Next]_vars

-----------------------------------------------------------------------------
(* Properties.                                                             *)

Index == 0..Modulus-1

\* Indices stay within their unsigned type; ordinals and knowledge are counts.
TypeOK ==
  /\ \A x \in {write_index, read_index} : \A k \in DOMAIN x :
       x[k] \in [value : Index, done : Nat, seen : Nat \ {0}]
  /\ slots \in [0..Capacity-1 -> [object : Nat, built : Nat, gone : Nat]]
  /\ producer \in [pc : {"idle", "construct", "publish"}, write : Index, seen : Nat \ {0},
                   knows : Nat, built : Nat]
  /\ consumer \in [pc : {"idle", "move", "destroy", "publish"}, read : Index,
                   seen : Nat \ {0}, knows : Nat, gone : Nat, moved : Nat, out : Nat]
  /\ observer \in [pc : {"idle", "read", "write again", "subtract"},
                   write_seen : Nat \ {0}, read_seen : Nat \ {0}]
  /\ alive \in BOOLEAN

\* No data race and no lifetime error on a slot: whoever is about to touch
\* one knows of the other thread's last access to it (the release/acquire
\* pairs of lines 50, 58, 67 and 77), the producer constructs only in raw
\* storage and the consumer moves from, and destroys, only a live object.
RaceFree ==
  /\ producer.pc = "construct" =>
       LET s == slots[slot_at(producer.write)]
       IN s.gone <= producer.knows /\ s.object = Raw
  /\ consumer.pc \in {"move", "destroy"} =>
       LET s == slots[slot_at(consumer.read)]
       IN s.built <= consumer.knows /\ s.object # Raw

\* size() never subtracts a read index from an older write index, however
\* its loads interleave with both threads (lines 97-107): it would wrap around
\* and report a full ring.  What it reports is the number of items between the
\* two stores it has read, whatever their values, or the capacity if the
\* consumer has moved on between its loads.
SizeNeverUnderflows ==
  observer.pc = "subtract" =>
    LET used == observer.write_seen - observer.read_seen
    IN /\ used >= 0
       /\ used < Modulus => SizeResult = IF used < Capacity THEN used ELSE Capacity

\* Between two calls a slot holds an object for every item pushed and not yet
\* popped, and the walk that ~SpscRing() would do then comes by each of these
\* slots exactly once and by no other: it leaks no object and destroys none
\* twice, also when the ring dies with items in it.
NoObjectLeaked ==
  producer.pc = "idle" /\ consumer.pc = "idle" =>
    LET live == {s \in DOMAIN slots : slots[s].object # Raw}
        walk == ClearedSlots(Last(read_index).value, Last(write_index).value)
    IN /\ alive => /\ Cardinality(live) = producer.built - consumer.gone
                   /\ IsInjective(walk) /\ Range(walk) = live
       /\ ~alive => live = {}

\* Items leave the queue when they are moved out and enter it when the index
\* is published.
QueuedItems ==
  IF alive
  THEN [k \in 1..(Len(write_index) - 1 - consumer.moved) |->
          slots[slot_at(consumer.moved + k - 1)].object]
  ELSE <<>>

Queue == INSTANCE BoundedQueue
           WITH queue <- QueuedItems, pushed <- Len(write_index) - 1, out <- consumer.out

\* The ring is a bounded FIFO queue: nothing is lost, repeated or reordered
\* while it lives, and it never holds more than its capacity, also when the
\* indices wrap around.
ImplementsBoundedQueue == Queue!Spec
=============================================================================
