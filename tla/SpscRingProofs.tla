--------------------------- MODULE SpscRingProofs ---------------------------
(***************************************************************************)
(* The ring is a bounded queue without data races, for every capacity,     *)
(* every width of the indices and whatever old stores the threads load.    *)
(***************************************************************************)
EXTENDS SpscRing, FiniteSetTheorems, SequenceTheorems, TLAPS

-----------------------------------------------------------------------------
(* The inductive invariant.  Behind the indices, which wrap around, are    *)
(* the numbers of items pushed and popped, which do not.                   *)

Wrapped(n) == n % Modulus

Pushed == Len(write_index) - 1
Popped == Len(read_index) - 1

Stores == [value : Index, done : Nat, seen : Nat \ {0}]
Slots == [0..Capacity-1 -> [object : Nat, built : Nat, gone : Nat]]
ProducerStates ==
  [pc : {"idle", "construct", "publish"}, write : Index, seen : Nat \ {0},
   knows : Nat, built : Nat]
ConsumerStates ==
  [pc : {"idle", "move", "destroy", "publish"}, read : Index, seen : Nat \ {0},
   knows : Nat, gone : Nat, moved : Nat, out : Nat]
ObserverStates ==
  [pc : {"idle", "read", "write again", "subtract"}, write_seen : Nat \ {0}, read_seen : Nat \ {0}]

Types ==
  /\ write_index \in Seq(Stores) /\ Len(write_index) > 0
  /\ read_index \in Seq(Stores) /\ Len(read_index) > 0
  /\ slots \in Slots
  /\ producer \in ProducerStates /\ consumer \in ConsumerStates /\ observer \in ObserverStates
  /\ alive \in BOOLEAN

\* The k-th store of an index publishes k - 1 items, as a number that wraps
\* around, together with the accesses to them; a store of the read index
\* brings along at least as many stores of the write index.
StoresCount ==
  /\ \A k \in 1..Len(write_index) :
       /\ write_index[k].value = Wrapped(k - 1)
       /\ write_index[k].done = k - 1
       /\ write_index[k].seen <= Len(read_index)
  /\ \A k \in 1..Len(read_index) :
       /\ read_index[k].value = Wrapped(k - 1)
       /\ read_index[k].done = k - 1
       /\ k <= read_index[k].seen /\ read_index[k].seen <= Len(write_index)

\* What the producer knows, where it stands, and that it never leaves less
\* room than it believes.
Produces ==
  /\ producer.seen <= Len(read_index) /\ producer.knows = producer.seen - 1
  /\ producer.built = IF producer.pc = "publish" THEN Pushed + 1 ELSE Pushed
  /\ Pushed <= producer.seen - 1 + Capacity
  /\ producer.pc # "idle" =>
       /\ alive /\ producer.write = Wrapped(Pushed)
       /\ Pushed < producer.seen - 1 + Capacity

\* The same of the consumer: it pops only what it has seen pushed.
Consumes ==
  /\ consumer.seen <= Len(write_index) /\ consumer.knows = consumer.seen - 1
  /\ consumer.gone = IF consumer.pc = "publish" THEN Popped + 1 ELSE Popped
  /\ consumer.moved = IF consumer.pc \in {"destroy", "publish"} THEN Popped + 1 ELSE Popped
  /\ Popped <= consumer.seen - 1
  /\ consumer.pc # "idle" =>
       /\ alive /\ consumer.read = Wrapped(Popped)
       /\ Popped < consumer.seen - 1

\* The write index that size() has seen is never behind its read index.
Observes ==
  /\ observer.write_seen <= Len(write_index) /\ observer.read_seen <= Len(read_index)
  /\ observer.pc \in {"write again", "subtract"} => observer.read_seen <= observer.write_seen
  /\ observer.pc # "idle" => alive

\* An object in a slot is one that was built and is not gone, and it is the
\* last one built there; whatever was destroyed there before belongs there.
SlotsHold ==
  \A s \in 0..Capacity-1 :
    LET slot == slots[s]
    IN /\ slot.gone <= consumer.gone
       /\ slot.gone # 0 => slot_at(slot.gone - 1) = s
       /\ slot.object # Raw =>
            /\ alive
            /\ consumer.gone < slot.object /\ slot.object <= producer.built
            /\ slot_at(slot.object - 1) = s
            /\ slot.built = slot.object

\* Every item that was built and is not gone is in its slot.
ItemsHeld ==
  alive => \A n \in consumer.gone+1..producer.built : slots[slot_at(n - 1)].object = n

Inv ==
  Types /\ StoresCount /\ Produces /\ Consumes /\ Observes /\ SlotsHold /\ ItemsHeld

-----------------------------------------------------------------------------
(* Division with remainder.                                                *)

LEMMA DivMod ==
  ASSUME NEW a \in Int, NEW m \in Nat \ {0}
  PROVE  /\ a \div m \in Int /\ a % m \in 0..m-1
         /\ a = m * (a \div m) + (a % m)
OBVIOUS

LEMMA NoSmallMultiple ==
  ASSUME NEW m \in Nat \ {0}, NEW q \in Int, NEW r \in Int, m * q = r, -m < r, r < m
  PROVE  q = 0
OBVIOUS

LEMMA Distribute ==
  ASSUME NEW m \in Int, NEW p \in Int, NEW q \in Int
  PROVE  m * (p - q) = m * p - m * q /\ m * (p + q) = m * p + m * q
OBVIOUS

LEMMA ModUnique ==
  ASSUME NEW m \in Nat \ {0}, NEW q \in Int, NEW r \in 0..m-1, NEW a \in Int, a = m*q + r
  PROVE  a % m = r
<1> DEFINE d == a \div m
<1> HIDE DEF d
<1>0. d \in Int /\ a % m \in 0..m-1 /\ a = m * d + (a % m)
  BY DivMod DEF d
<1>1. m * (q - d) = (a % m) - r
  BY <1>0, Distribute
<1>2. q - d = 0
  <2>1. q - d \in Int /\ (a % m) - r \in Int /\ -m < (a % m) - r /\ (a % m) - r < m
    BY <1>0
  <2> QED
  BY <1>1, <2>1, NoSmallMultiple
<1> QED
  BY <1>0, <1>2

LEMMA ModShift ==
  ASSUME NEW m \in Nat \ {0}, NEW a \in Int, NEW q \in Int
  PROVE  (a + m * q) % m = a % m
<1> DEFINE d == a \div m r == a % m
<1> HIDE DEF d, r
<1>0. d \in Int /\ r \in 0..m-1 /\ a = m * d + r
  BY DivMod DEF d, r
<1>1. a + m * q = m * (d + q) + r
  BY <1>0, Distribute
<1>2. a + m * q \in Int /\ d + q \in Int
  BY <1>0
<1>3. a % m = r
  BY DEF r
<1> QED
  BY <1>0, <1>1, <1>2, <1>3, ModUnique

LEMMA ModNear ==
  ASSUME NEW m \in Nat \ {0}, NEW a \in Int, NEW b \in Int, a % m = b % m, -m < a - b, a - b < m
  PROVE  a = b
<1> DEFINE d == a \div m e == b \div m
<1> HIDE DEF d, e
<1>0. d \in Int /\ a = m * d + (a % m) /\ e \in Int /\ b = m * e + (b % m) /\ a % m \in Int
  BY DivMod DEF d, e
<1>1. m * (d - e) = a - b
  BY <1>0, Distribute
<1>2. d - e = 0
  BY <1>0, <1>1, NoSmallMultiple
<1> QED
  BY <1>0, <1>1, <1>2

LEMMA ModOfMod ==
  ASSUME NEW m \in Nat \ {0}, NEW c \in Nat \ {0}, m % c = 0, NEW a \in Int, NEW b \in Int
  PROVE  ((a % m) + b) % c = (a + b) % c
<1> DEFINE d == a \div m r == a % m k == m \div c
<1> HIDE DEF d, r, k
<1>0. d \in Int /\ r \in 0..m-1 /\ a = m * d + r /\ k \in Int /\ m = c * k
  <2>1. m \in Int /\ m = c * (m \div c) + (m % c) /\ m \div c \in Int
    BY DivMod
  <2> QED
  BY <2>1, DivMod DEF d, r, k
<1>1. a + b = (r + b) + c * (k * d)
  <2>1. m * d = c * (k * d)
    BY <1>0
  <2> QED
  BY <1>0, <2>1
<1>2. k * d \in Int /\ r + b \in Int
  BY <1>0
<1> QED
  BY <1>1, <1>2, ModShift DEF r

\* A number that is its own remainder.
LEMMA ModSmall ==
  ASSUME NEW m \in Nat \ {0}, NEW r \in 0..m-1
  PROVE  r % m = r
<1>1. r \in Int /\ r = m * 0 + r
  OBVIOUS
<1> QED
  BY <1>1, ModUnique

-----------------------------------------------------------------------------
(* The arithmetic of indices and slots.                                    *)

LEMMA Sizes ==
  /\ Capacity \in Nat \ {0} /\ Modulus \in Nat \ {0} /\ Capacity < Modulus
  /\ Modulus % Capacity = 0 /\ MaxItems \in Nat
BY RingAssumption

LEMMA IndexType ==
  ASSUME NEW n \in Int
  PROVE  Wrapped(n) \in Index /\ slot_at(n) \in 0..Capacity-1
BY Sizes, DivMod DEF Index, slot_at, Wrapped

\* An index that has wrapped around names the same slot.
LEMMA SlotOfIndex ==
  ASSUME NEW n \in Int, NEW k \in Int
  PROVE  slot_at(Wrapped(n) + k) = slot_at(n + k)
BY Sizes, ModOfMod DEF slot_at, Wrapped

LEMMA SlotOfPlainIndex ==
  ASSUME NEW n \in Int
  PROVE  slot_at(Wrapped(n)) = slot_at(n)
<1>1. Wrapped(n) + 0 = Wrapped(n) /\ n + 0 = n
  BY IndexType DEF Index
<1> QED
  BY <1>1, SlotOfIndex

LEMMA NextIndex ==
  ASSUME NEW n \in Int
  PROVE  Increment(Wrapped(n)) = Wrapped(n + 1)
<1>1. Modulus % Modulus = 0
  <2>1. 0 + Modulus * 1 = Modulus /\ 0 % Modulus = 0
    BY Sizes, ModSmall
  <2>2. (0 + Modulus * 1) % Modulus = 0 % Modulus
    BY Sizes, ModShift
  <2> QED
    BY <2>1, <2>2
<1>2. \A b \in Int : ((n % Modulus) + b) % Modulus = (n + b) % Modulus
  BY <1>1, Sizes, ModOfMod
<1> QED
  BY <1>2 DEF Increment, Wrapped

\* The difference of two indices is that of the numbers behind them, as long
\* as these are less than Modulus apart.
LEMMA DifferenceOfIndices ==
  ASSUME NEW a \in Int, NEW b \in Int, b <= a, a - b < Modulus
  PROVE  Difference(Wrapped(a), Wrapped(b)) = a - b
<1> DEFINE p == a \div Modulus
           q == b \div Modulus
<1> HIDE DEF p, q
<1>1. /\ p \in Int /\ q \in Int /\ Modulus \in Nat \ {0}
      /\ a = Modulus * p + Wrapped(a) /\ b = Modulus * q + Wrapped(b)
      /\ Wrapped(a) \in Int /\ Wrapped(b) \in Int
  BY Sizes, DivMod DEF p, q, Wrapped
<1>2. Wrapped(a) + Modulus - Wrapped(b) = (a - b) + Modulus * ((q - p) + 1)
  <2> DEFINE mp == Modulus * p
             mq == Modulus * q
  <2>1. Modulus * ((q - p) + 1) = Modulus * (q - p) + Modulus * 1
    BY <1>1, Distribute
  <2>2. Modulus * (q - p) = mq - mp /\ mp \in Int /\ mq \in Int
    BY <1>1, Distribute
  <2>3. a = mp + Wrapped(a) /\ b = mq + Wrapped(b) /\ Modulus * 1 = Modulus
    BY <1>1
  <2> HIDE DEF mp, mq
  <2>4. Modulus * ((q - p) + 1) = (mq - mp) + Modulus
    BY <2>1, <2>2, <2>3
  <2> DEFINE x == Wrapped(a)
             y == Wrapped(b)
  <2>5. x \in Int /\ y \in Int /\ a = mp + x /\ b = mq + y
    BY <1>1, <2>3
  <2> HIDE DEF x, y
  <2>6. x + Modulus - y = (a - b) + ((mq - mp) + Modulus)
    BY <1>1, <2>2, <2>5
  <2> QED
    BY <2>4, <2>6 DEF x, y
<1>3. a - b \in 0..Modulus-1 /\ a - b \in Int /\ (q - p) + 1 \in Int
  BY <1>1
<1>4. (a - b) % Modulus = a - b
  BY <1>1, <1>3, ModSmall
<1> QED
  <2>1. ((a - b) + Modulus * ((q - p) + 1)) % Modulus = (a - b) % Modulus
    BY <1>1, <1>3, ModShift
  <2> QED
    BY <1>2, <1>4, <2>1 DEF Difference

LEMMA SameIndex ==
  ASSUME NEW a \in Int, NEW b \in Int, Wrapped(a) = Wrapped(b),
         -Modulus < a - b, a - b < Modulus
  PROVE  a = b
BY Sizes, ModNear DEF Wrapped

LEMMA SameSlot ==
  ASSUME NEW a \in Int, NEW b \in Int, slot_at(a) = slot_at(b),
         -Capacity < a - b, a - b < Capacity
  PROVE  a = b
BY Sizes, ModNear DEF slot_at

-----------------------------------------------------------------------------
(* What the invariant says of the numbers.                                 *)

LEMMA FieldTypes ==
  ASSUME Types
  PROVE  /\ Len(write_index) \in Nat \ {0} /\ Len(read_index) \in Nat \ {0}
         /\ Pushed \in Nat /\ Popped \in Nat
         /\ producer.seen \in Nat \ {0} /\ producer.knows \in Nat /\ producer.built \in Nat
         /\ producer.write \in Index
         /\ consumer.seen \in Nat \ {0} /\ consumer.knows \in Nat /\ consumer.gone \in Nat
         /\ consumer.moved \in Nat /\ consumer.read \in Index
         /\ observer.write_seen \in Nat \ {0} /\ observer.read_seen \in Nat \ {0}
         /\ Capacity \in Nat \ {0} /\ Modulus \in Nat \ {0} /\ Capacity < Modulus
<1>1. Len(write_index) \in Nat \ {0} /\ Len(read_index) \in Nat \ {0}
  BY DEF Types
<1>2. Pushed \in Nat /\ Popped \in Nat
  BY <1>1 DEF Pushed, Popped
<1>3. /\ producer \in ProducerStates /\ consumer \in ConsumerStates
      /\ observer \in ObserverStates
  BY DEF Types
<1> QED
  BY <1>1, <1>2, <1>3, Sizes DEF ProducerStates, ConsumerStates, ObserverStates

\* No side is ahead of the other by more than it may be, and both know of each
\* other no more than there is.
LEMMA Ordered ==
  ASSUME Types, Produces, Consumes
  PROVE  /\ producer.seen - 1 <= Popped /\ Popped <= consumer.seen - 1
         /\ consumer.seen - 1 <= Pushed
         /\ Pushed <= producer.seen - 1 + Capacity
BY FieldTypes DEF Produces, Consumes, Pushed, Popped

\* The newest stores.
LEMMA Newest ==
  ASSUME Types, StoresCount
  PROVE  /\ Last(write_index).value = Wrapped(Pushed)
         /\ Last(read_index).value = Wrapped(Popped)
BY FieldTypes DEF StoresCount, Last, Pushed, Popped

\* While the producer is in a call there is a free slot, which it may already
\* have filled: never more than Capacity items are built and not popped.
LEMMA Room ==
  ASSUME Types, Produces, Consumes
  PROVE  /\ producer.pc # "idle" => Pushed < Popped + Capacity
         /\ producer.built <= Popped + Capacity
         /\ Popped <= consumer.gone /\ consumer.gone <= Pushed
         /\ Pushed <= producer.built
<1>1. /\ Pushed \in Nat /\ Popped \in Nat /\ Capacity \in Nat
      /\ producer.seen \in Nat /\ consumer.seen \in Nat
  BY FieldTypes
<1>2. /\ producer.seen - 1 <= Popped /\ Popped <= consumer.seen - 1
      /\ consumer.seen - 1 <= Pushed /\ Pushed <= producer.seen - 1 + Capacity
  BY Ordered
<1>3. producer.pc # "idle" => Pushed < Popped + Capacity
  BY <1>1, <1>2 DEF Produces
<1>4. producer.built = IF producer.pc = "publish" THEN Pushed + 1 ELSE Pushed
  BY DEF Produces
<1>5. producer.built <= Popped + Capacity /\ Pushed <= producer.built
  BY <1>1, <1>2, <1>3, <1>4
<1>6. Popped <= consumer.gone /\ consumer.gone <= Pushed
  BY <1>1, <1>2 DEF Consumes
<1> QED
  BY <1>3, <1>5, <1>6

\* Untouched parts of the state.
LEMMA ObserverUntouched ==
  ASSUME Observes, UNCHANGED <<observer, alive, write_index, read_index>>
  PROVE  Observes'
BY DEF Observes

LEMMA StoresUntouched ==
  ASSUME StoresCount, UNCHANGED <<write_index, read_index>>
  PROVE  StoresCount' /\ Pushed' = Pushed /\ Popped' = Popped
BY DEF StoresCount, Pushed, Popped

LEMMA SlotsUntouched ==
  ASSUME SlotsHold, ItemsHeld, UNCHANGED <<slots, alive>>,
         producer'.built = producer.built, consumer'.gone = consumer.gone
  PROVE  SlotsHold' /\ ItemsHeld'
BY DEF SlotsHold, ItemsHeld

-----------------------------------------------------------------------------
(* Every step preserves the invariant.                                     *)

LEMMA InitInv == Init => Inv
<1> SUFFICES ASSUME Init PROVE Inv
  OBVIOUS
<1>1. /\ write_index = <<Store(0, 0, 1)>> /\ read_index = <<Store(0, 0, 1)>>
      /\ slots = [s \in 0..Capacity-1 |-> [object |-> 0, built |-> 0, gone |-> 0]]
      /\ producer = [pc |-> "idle", write |-> 0, seen |-> 1, knows |-> 0, built |-> 0]
      /\ consumer = [pc |-> "idle", read |-> 0, seen |-> 1, knows |-> 0, gone |-> 0,
                     moved |-> 0, out |-> 0]
      /\ observer = [pc |-> "idle", write_seen |-> 1, read_seen |-> 1]
      /\ alive = TRUE
  BY DEF Init, Raw
<1>2. /\ 0 \in Index /\ Store(0, 0, 1) = [value |-> 0, done |-> 0, seen |-> 1]
      /\ Wrapped(0) = 0
  BY Sizes, ModSmall DEF Index, Store, Wrapped
<1>3. Types
  <2>1. write_index \in Seq(Stores) /\ read_index \in Seq(Stores)
    <3>1. Store(0, 0, 1) \in Stores
      BY <1>2 DEF Stores
    <3> QED
      BY <1>1, <3>1
  <2>2. Len(write_index) > 0 /\ Len(read_index) > 0
    BY <1>1
  <2>3. slots \in Slots
    BY <1>1 DEF Slots
  <2>4. producer \in ProducerStates /\ consumer \in ConsumerStates
    BY <1>1, <1>2 DEF ProducerStates, ConsumerStates
  <2>5. observer \in ObserverStates /\ alive \in BOOLEAN
    BY <1>1 DEF ObserverStates
  <2> QED
    BY <2>1, <2>2, <2>3, <2>4, <2>5 DEF Types
<1>4. Len(write_index) = 1 /\ Len(read_index) = 1 /\ Pushed = 0 /\ Popped = 0
  BY <1>1 DEF Pushed, Popped
<1>5. StoresCount
  <2>1. write_index[1] = Store(0, 0, 1) /\ read_index[1] = Store(0, 0, 1)
    BY <1>1
  <2>2. 1..Len(write_index) = {1} /\ 1..Len(read_index) = {1} /\ 1 - 1 = 0
    BY <1>4
  <2> QED
    BY <1>2, <1>4, <2>1, <2>2 DEF StoresCount
<1>6. Produces
  BY <1>1, <1>4, Sizes DEF Produces
<1>7. Consumes
  BY <1>1, <1>4 DEF Consumes
<1>8. Observes
  BY <1>1, <1>4 DEF Observes
<1>9. SlotsHold
  BY <1>1 DEF SlotsHold, Raw
<1>10. ItemsHeld
  BY <1>1 DEF ItemsHeld
<1> QED
  BY <1>3, <1>5, <1>6, <1>7, <1>8, <1>9, <1>10 DEF Inv

LEMMA EmplaceLoadInv == ASSUME Inv, EmplaceLoad PROVE Inv'
<1>1. Types /\ StoresCount /\ Produces /\ Consumes /\ Observes /\ SlotsHold /\ ItemsHeld
  BY DEF Inv
<1>2. alive /\ producer.pc = "idle"
      /\ UNCHANGED <<write_index, read_index, slots, consumer, observer, alive>>
  BY DEF EmplaceLoad
<1>3. PICK k \in producer.seen..Len(read_index) :
        producer' = [producer EXCEPT
                       !.seen = k, !.knows = Larger(producer.knows, read_index[k].done),
                       !.write = Last(write_index).value,
                       !.pc = IF IsFull(Last(write_index).value, read_index[k].value)
                                THEN "idle" ELSE "construct"]
  BY DEF EmplaceLoad
<1>4. k \in Nat \ {0} /\ producer.seen <= k /\ k <= Len(read_index) /\ k \in 1..Len(read_index)
  BY <1>1, FieldTypes
<1>5. Larger(producer.knows, read_index[k].done) = k - 1
  <2>1. read_index[k].done = k - 1 /\ producer.knows = producer.seen - 1 /\ producer.seen \in Nat
    BY <1>1, <1>4, FieldTypes DEF StoresCount, Produces
  <2> QED
    BY <1>4, <2>1 DEF Larger
<1>6. /\ Pushed \in Nat /\ Capacity \in Nat /\ Modulus \in Nat /\ Capacity < Modulus
      /\ k - 1 \in Int /\ k - 1 <= Pushed /\ Pushed - (k - 1) <= Capacity
  <2>1. /\ Pushed \in Nat /\ Popped \in Nat /\ Popped = Len(read_index) - 1
        /\ producer.seen \in Nat /\ consumer.seen \in Nat
        /\ Capacity \in Nat /\ Modulus \in Nat /\ Capacity < Modulus
    BY <1>1, FieldTypes DEF Popped
  <2>2. /\ producer.seen - 1 <= Popped /\ Popped <= consumer.seen - 1
        /\ consumer.seen - 1 <= Pushed /\ Pushed <= producer.seen - 1 + Capacity
    BY <1>1, Ordered
  <2> QED
    BY <1>4, <2>1, <2>2
<1>7. IsFull(Last(write_index).value, read_index[k].value) <=> Pushed - (k - 1) = Capacity
  <2>1. Difference(Wrapped(Pushed), Wrapped(k - 1)) = Pushed - (k - 1)
    BY <1>6, DifferenceOfIndices
  <2>2. read_index[k].value = Wrapped(k - 1) /\ Last(write_index).value = Wrapped(Pushed)
    BY <1>1, <1>4, Newest DEF StoresCount
  <2> QED
    BY <2>1, <2>2 DEF IsFull
<1>8. /\ producer' \in ProducerStates /\ producer'.seen = k /\ producer'.knows = k - 1
      /\ producer'.write = Wrapped(Pushed) /\ producer'.built = producer.built
      /\ producer'.pc = IF Pushed - (k - 1) = Capacity THEN "idle" ELSE "construct"
  <2>1. Last(write_index).value = Wrapped(Pushed) /\ Wrapped(Pushed) \in Index /\ k - 1 \in Nat
    BY <1>1, <1>4, <1>6, Newest, IndexType
  <2> DEFINE pc == IF Pushed - (k - 1) = Capacity THEN "idle" ELSE "construct"
  <2>2. producer' = [producer EXCEPT !.seen = k, !.knows = k - 1, !.write = Wrapped(Pushed), !.pc = pc]
    <3>1. CASE Pushed - (k - 1) = Capacity
      BY <1>3, <1>5, <1>7, <2>1, <3>1, Zenon
    <3>2. CASE Pushed - (k - 1) # Capacity
      BY <1>3, <1>5, <1>7, <2>1, <3>2, Zenon
    <3> QED
      BY <3>1, <3>2
  <2>3. pc \in {"idle", "construct"}
    OBVIOUS
  <2> HIDE DEF pc
  <2>4. producer' \in ProducerStates /\ producer'.seen = k /\ producer'.knows = k - 1
        /\ producer'.write = Wrapped(Pushed) /\ producer'.built = producer.built
        /\ producer'.pc = pc
    BY <1>1, <1>4, <2>1, <2>2, <2>3 DEF Types, ProducerStates
  <2> QED
    BY <2>4 DEF pc
<1>9. Types' /\ StoresCount' /\ Pushed' = Pushed /\ Popped' = Popped
  BY <1>1, <1>2, <1>8, StoresUntouched DEF Types
<1>10. Produces'
  <2>1. Pushed <= k - 1 + Capacity /\ (Pushed - (k - 1) # Capacity => Pushed < k - 1 + Capacity)
    BY <1>6
  <2> QED
    BY <1>1, <1>2, <1>4, <1>8, <1>9, <2>1 DEF Produces
<1>11. Consumes'
  BY <1>1, <1>2, <1>9 DEF Consumes
<1>12. Observes' /\ SlotsHold' /\ ItemsHeld'
  BY <1>1, <1>2, <1>8, ObserverUntouched, SlotsUntouched
<1> QED
  BY <1>9, <1>10, <1>11, <1>12 DEF Inv

LEMMA EmplaceConstructInv == ASSUME Inv, EmplaceConstruct PROVE Inv'
<1>1. Types /\ StoresCount /\ Produces /\ Consumes /\ Observes /\ SlotsHold /\ ItemsHeld
  BY DEF Inv
<1>2. producer.pc = "construct" /\ UNCHANGED <<write_index, read_index, consumer, observer, alive>>
  BY DEF EmplaceConstruct
<1>3. /\ alive /\ producer.write = Wrapped(Pushed) /\ producer.built = Pushed
      /\ Pushed < Popped + Capacity /\ Popped <= consumer.gone /\ consumer.gone <= Pushed
  BY <1>1, <1>2, Room DEF Produces
<1>4. /\ Pushed \in Nat /\ Popped \in Nat /\ Capacity \in Nat \ {0} /\ consumer.gone \in Nat
  BY <1>1, FieldTypes
<1>5. StoresCount' /\ Pushed' = Pushed /\ Popped' = Popped
  BY <1>1, <1>2, StoresUntouched
<1>6. Consumes' /\ Observes'
  BY <1>1, <1>2, <1>5, ObserverUntouched DEF Consumes
<1>7. CASE producer' = [producer EXCEPT !.pc = "idle"] /\ UNCHANGED slots
  <2>1. /\ producer' \in ProducerStates /\ producer'.pc = "idle" /\ producer'.seen = producer.seen
        /\ producer'.knows = producer.knows /\ producer'.built = producer.built
    BY <1>1, <1>7 DEF Types, ProducerStates
  <2>2. Types'
    BY <1>1, <1>2, <1>7, <2>1 DEF Types
  <2>3. Produces'
    BY <1>1, <1>2, <1>3, <1>5, <2>1 DEF Produces
  <2>4. SlotsHold' /\ ItemsHeld'
    BY <1>1, <1>2, <1>7, <2>1, SlotsUntouched
  <2> QED
    BY <1>5, <1>6, <2>2, <2>3, <2>4 DEF Inv
<1>8. CASE LET n == producer.built + 1
               s == slot_at(producer.write)
           IN /\ slots' = [slots EXCEPT ![s] = [@ EXCEPT !.object = n, !.built = n]]
              /\ producer' = [producer EXCEPT !.pc = "publish", !.built = n]
  <2> DEFINE n == Pushed + 1
             s == slot_at(Pushed)
  <2>1. /\ slots' = [slots EXCEPT ![s] = [slots[s] EXCEPT !.object = n, !.built = n]]
        /\ producer' = [producer EXCEPT !.pc = "publish", !.built = n]
    <3>1. slot_at(producer.write) = s /\ producer.built + 1 = n
      BY <1>3, <1>4, SlotOfPlainIndex
    <3> QED
      BY <1>8, <3>1, Zenon
  <2>2. n \in Nat /\ n # 0 /\ n - 1 = Pushed /\ s \in 0..Capacity-1 /\ slots \in Slots
    <3>1. Pushed \in Int
      BY <1>4
    <3>2. s \in 0..Capacity-1
      BY <3>1, IndexType
    <3> QED
      BY <1>1, <1>4, <3>2 DEF Types
  <2>3. slot_at(n - 1) = s
    BY <2>2
  <2>4. n = Pushed + 1
    OBVIOUS
  <2> HIDE DEF n, s
  <2>5. /\ producer' \in ProducerStates /\ producer'.pc = "publish" /\ producer'.seen = producer.seen
        /\ producer'.knows = producer.knows /\ producer'.built = n
        /\ producer'.write = producer.write
    BY <1>1, <2>1, <2>2 DEF Types, ProducerStates
  <2>6. /\ slots' \in Slots
        /\ slots'[s].object = n /\ slots'[s].built = n /\ slots'[s].gone = slots[s].gone
        /\ \A x \in 0..Capacity-1 : x # s => slots'[x] = slots[x]
    BY <2>1, <2>2 DEF Slots
  <2>7. Types'
    BY <1>1, <1>2, <2>5, <2>6 DEF Types
  <2>8. Produces'
    BY <1>1, <1>2, <1>5, <2>4, <2>5 DEF Produces
  <2>9. SlotsHold'
    <3>1. ASSUME NEW x \in 0..Capacity-1
          PROVE  LET slot == slots'[x]
                 IN /\ slot.gone <= consumer'.gone
                    /\ slot.gone # 0 => slot_at(slot.gone - 1) = x
                    /\ slot.object # Raw =>
                         /\ alive'
                         /\ consumer'.gone < slot.object /\ slot.object <= producer'.built
                         /\ slot_at(slot.object - 1) = x
                         /\ slot.built = slot.object
      <4>1. CASE x = s
        BY <1>1, <1>2, <1>3, <1>4, <2>2, <2>3, <2>4, <2>5, <2>6, <4>1 DEF SlotsHold
      <4>2. CASE x # s
        <5>1. slots'[x] = slots[x] /\ slots[x].object \in Nat /\ n = producer.built + 1
          BY <1>3, <2>2, <2>4, <2>6, <4>2 DEF Slots
        <5> QED
          BY <1>1, <1>2, <1>3, <1>4, <2>5, <5>1 DEF SlotsHold
      <4> QED
        BY <4>1, <4>2
    <3> QED
      BY <3>1 DEF SlotsHold
  <2>10. ItemsHeld'
    <3>1. ASSUME NEW m \in consumer.gone+1..n PROVE slots'[slot_at(m - 1)].object = m
      <4>1. CASE m = n
        BY <2>3, <2>6, <4>1
      <4>2. CASE m # n
        <5>1. m \in consumer.gone+1..producer.built /\ m - 1 \in Int
          BY <1>3, <1>4, <2>4, <4>2
        <5>2. slots[slot_at(m - 1)].object = m
          BY <1>1, <1>3, <5>1 DEF ItemsHeld
        <5>3. -Capacity < (m - 1) - Pushed /\ (m - 1) - Pushed < Capacity /\ m - 1 # Pushed
          BY <1>3, <1>4, <5>1
        <5>4. slot_at(m - 1) # slot_at(Pushed) /\ slot_at(m - 1) \in 0..Capacity-1
          BY <1>4, <5>1, <5>3, SameSlot, IndexType
        <5> QED
          BY <2>6, <5>2, <5>4 DEF s
      <4> QED
        BY <4>1, <4>2
    <3> QED
      BY <1>2, <2>5, <3>1 DEF ItemsHeld
  <2> QED
    BY <1>5, <1>6, <2>7, <2>8, <2>9, <2>10 DEF Inv
<1> QED
  BY <1>7, <1>8 DEF EmplaceConstruct

LEMMA EmplacePublishInv == ASSUME Inv, EmplacePublish PROVE Inv'
<1>1. Types /\ StoresCount /\ Produces /\ Consumes /\ Observes /\ SlotsHold /\ ItemsHeld
  BY DEF Inv
<1>2. /\ producer.pc = "publish" /\ write_index' = Append(write_index, WriteStore)
      /\ producer' = [producer EXCEPT !.pc = "idle"]
      /\ UNCHANGED <<read_index, slots, consumer, observer, alive>>
  BY DEF EmplacePublish
<1>3. /\ alive /\ producer.write = Wrapped(Pushed) /\ producer.built = Pushed + 1
      /\ Pushed < producer.seen - 1 + Capacity /\ producer.seen <= Len(read_index)
  BY <1>1, <1>2 DEF Produces
<1>4. /\ Pushed \in Nat /\ Capacity \in Nat \ {0} /\ Len(read_index) \in Nat
      /\ Len(write_index) \in Nat \ {0} /\ Len(write_index) = Pushed + 1
      /\ producer.seen \in Nat \ {0} /\ consumer.seen \in Nat \ {0}
      /\ observer.write_seen \in Nat /\ observer.read_seen \in Nat
  BY <1>1, FieldTypes DEF Pushed
<1>5. /\ WriteStore \in Stores /\ WriteStore.value = Wrapped(Pushed + 1)
      /\ WriteStore.done = Pushed + 1 /\ WriteStore.seen = producer.seen
  <2>1. Increment(producer.write) = Wrapped(Pushed + 1) /\ Wrapped(Pushed + 1) \in Index
    BY <1>3, <1>4, NextIndex, IndexType
  <2>2. WriteStore = [value |-> Wrapped(Pushed + 1), done |-> Pushed + 1, seen |-> producer.seen]
    BY <1>3, <2>1 DEF WriteStore, Store
  <2> QED
    BY <1>4, <2>1, <2>2 DEF Stores
<1>6. /\ write_index' \in Seq(Stores) /\ Len(write_index') = Len(write_index) + 1
      /\ write_index'[Len(write_index) + 1] = WriteStore
      /\ \A k \in 1..Len(write_index) : write_index'[k] = write_index[k]
  <2>1. write_index \in Seq(Stores)
    BY <1>1 DEF Types
  <2> QED
    BY <1>2, <1>5, <2>1
<1>7. Pushed' = Pushed + 1 /\ Popped' = Popped
  BY <1>2, <1>4, <1>6 DEF Pushed, Popped
<1>8. /\ producer' \in ProducerStates /\ producer'.pc = "idle" /\ producer'.seen = producer.seen
      /\ producer'.knows = producer.knows /\ producer'.built = producer.built
  BY <1>1, <1>2 DEF Types, ProducerStates
<1>9. Types'
  BY <1>1, <1>2, <1>4, <1>6, <1>8 DEF Types
<1>10. StoresCount'
  <2>1. ASSUME NEW k \in 1..Len(write_index')
        PROVE  /\ write_index'[k].value = Wrapped(k - 1)
               /\ write_index'[k].done = k - 1
               /\ write_index'[k].seen <= Len(read_index')
    <3>1. CASE k = Len(write_index) + 1
      <4>1. k - 1 = Pushed + 1
        BY <1>4, <3>1
      <4> QED
        BY <1>2, <1>3, <1>5, <1>6, <3>1, <4>1
    <3>2. CASE k \in 1..Len(write_index)
      BY <1>1, <1>2, <1>6, <3>2 DEF StoresCount
    <3> QED
      BY <1>4, <1>6, <2>1, <3>1, <3>2
  <2>2. ASSUME NEW k \in 1..Len(read_index')
        PROVE  /\ read_index'[k].value = Wrapped(k - 1)
               /\ read_index'[k].done = k - 1
               /\ k <= read_index'[k].seen /\ read_index'[k].seen <= Len(write_index')
    <3>1. k \in 1..Len(read_index) /\ read_index'[k] = read_index[k] /\ read_index \in Seq(Stores)
      BY <1>1, <1>2, <2>2 DEF Types
    <3>2. read_index[k].seen \in Nat
      <4>1. read_index[k] \in Stores
        BY <3>1
      <4> QED
        BY <4>1 DEF Stores
    <3> QED
      BY <1>1, <1>4, <1>6, <3>1, <3>2 DEF StoresCount
  <2> QED
    BY <2>1, <2>2 DEF StoresCount
<1>11. Produces'
  BY <1>1, <1>2, <1>3, <1>4, <1>7, <1>8 DEF Produces
<1>12. Consumes' /\ Observes'
  <2>1. consumer.seen <= Len(write_index') /\ observer.write_seen <= Len(write_index')
    <3>1. consumer.seen <= Len(write_index) /\ observer.write_seen <= Len(write_index)
      BY <1>1 DEF Consumes, Observes
    <3> QED
      BY <1>4, <1>6, <3>1
  <2>2. Consumes'
    BY <1>1, <1>2, <1>7, <2>1 DEF Consumes
  <2>3. Observes'
    BY <1>1, <1>2, <2>1 DEF Observes
  <2> QED
    BY <2>2, <2>3
<1>13. SlotsHold' /\ ItemsHeld'
  BY <1>1, <1>2, <1>8, SlotsUntouched
<1> QED
  BY <1>9, <1>10, <1>11, <1>12, <1>13 DEF Inv

LEMMA PopLoadInv == ASSUME Inv, PopLoad PROVE Inv'
<1>1. Types /\ StoresCount /\ Produces /\ Consumes /\ Observes /\ SlotsHold /\ ItemsHeld
  BY DEF Inv
<1>2. alive /\ consumer.pc = "idle"
      /\ UNCHANGED <<write_index, read_index, slots, producer, observer, alive>>
  BY DEF PopLoad
<1>3. PICK k \in consumer.seen..Len(write_index) :
        consumer' = [consumer EXCEPT
                       !.seen = k, !.knows = Larger(consumer.knows, write_index[k].done),
                       !.read = Last(read_index).value,
                       !.pc = IF Last(read_index).value = write_index[k].value
                                THEN "idle" ELSE "move"]
  BY DEF PopLoad
<1>4. k \in Nat \ {0} /\ consumer.seen <= k /\ k <= Len(write_index) /\ k \in 1..Len(write_index)
  BY <1>1, FieldTypes
<1>5. Larger(consumer.knows, write_index[k].done) = k - 1
  <2>1. write_index[k].done = k - 1 /\ consumer.knows = consumer.seen - 1 /\ consumer.seen \in Nat
    BY <1>1, <1>4, FieldTypes DEF StoresCount, Consumes
  <2> QED
    BY <1>4, <2>1 DEF Larger
<1>6. /\ Popped \in Nat /\ Capacity \in Nat /\ Modulus \in Nat /\ Capacity < Modulus
      /\ k - 1 \in Int /\ Popped <= k - 1 /\ (k - 1) - Popped <= Capacity
  <2>1. /\ Pushed \in Nat /\ Popped \in Nat /\ Pushed = Len(write_index) - 1
        /\ producer.seen \in Nat /\ consumer.seen \in Nat
        /\ Capacity \in Nat /\ Modulus \in Nat /\ Capacity < Modulus
    BY <1>1, FieldTypes DEF Pushed
  <2>2. /\ producer.seen - 1 <= Popped /\ Popped <= consumer.seen - 1
        /\ consumer.seen - 1 <= Pushed /\ Pushed <= producer.seen - 1 + Capacity
    BY <1>1, Ordered
  <2> QED
    BY <1>4, <2>1, <2>2
<1>7. Last(read_index).value = write_index[k].value <=> Popped = k - 1
  <2>1. write_index[k].value = Wrapped(k - 1) /\ Last(read_index).value = Wrapped(Popped)
    BY <1>1, <1>4, Newest DEF StoresCount
  <2>2. -Modulus < Popped - (k - 1) /\ Popped - (k - 1) < Modulus /\ Popped \in Int
    BY <1>6
  <2>3. Wrapped(Popped) = Wrapped(k - 1) => Popped = k - 1
    BY <1>6, <2>2, SameIndex
  <2> QED
    BY <2>1, <2>3
<1>8. /\ consumer' \in ConsumerStates /\ consumer'.seen = k /\ consumer'.knows = k - 1
      /\ consumer'.read = Wrapped(Popped)
      /\ consumer'.gone = consumer.gone /\ consumer'.moved = consumer.moved
      /\ consumer'.out = consumer.out
      /\ consumer'.pc = IF Popped = k - 1 THEN "idle" ELSE "move"
  <2>1. Last(read_index).value = Wrapped(Popped) /\ Wrapped(Popped) \in Index /\ k - 1 \in Nat
    BY <1>1, <1>4, <1>6, Newest, IndexType
  <2> DEFINE pc == IF Popped = k - 1 THEN "idle" ELSE "move"
  <2>2. consumer' = [consumer EXCEPT !.seen = k, !.knows = k - 1, !.read = Wrapped(Popped), !.pc = pc]
    <3>1. CASE Popped = k - 1
      BY <1>3, <1>5, <1>7, <2>1, <3>1, Zenon
    <3>2. CASE Popped # k - 1
      BY <1>3, <1>5, <1>7, <2>1, <3>2, Zenon
    <3> QED
      BY <3>1, <3>2
  <2>3. pc \in {"idle", "move"}
    OBVIOUS
  <2> HIDE DEF pc
  <2>4. consumer' \in ConsumerStates /\ consumer'.seen = k /\ consumer'.knows = k - 1
        /\ consumer'.read = Wrapped(Popped) /\ consumer'.gone = consumer.gone
        /\ consumer'.moved = consumer.moved /\ consumer'.out = consumer.out /\ consumer'.pc = pc
    BY <1>1, <1>4, <2>1, <2>2, <2>3 DEF Types, ConsumerStates
  <2> QED
    BY <2>4 DEF pc
<1>9. Types' /\ StoresCount' /\ Pushed' = Pushed /\ Popped' = Popped
  BY <1>1, <1>2, <1>8, StoresUntouched DEF Types
<1>10. Produces'
  BY <1>1, <1>2, <1>9 DEF Produces
<1>11. Consumes'
  <2>1. Popped <= k - 1 /\ (Popped # k - 1 => Popped < k - 1)
    BY <1>6
  <2>2. consumer.gone = Popped /\ consumer.moved = Popped
    BY <1>1, <1>2 DEF Consumes
  <2>3. consumer'.pc \in {"idle", "move"} /\ (consumer'.pc # "idle" => Popped < k - 1)
    BY <1>8, <2>1
  <2> QED
    BY <1>2, <1>4, <1>8, <1>9, <2>1, <2>2, <2>3 DEF Consumes
<1>12. Observes' /\ SlotsHold' /\ ItemsHeld'
  BY <1>1, <1>2, <1>8, ObserverUntouched, SlotsUntouched
<1> QED
  BY <1>9, <1>10, <1>11, <1>12 DEF Inv

\* The item that the consumer is about to move out.
LEMMA NextOut ==
  ASSUME Types, Produces, Consumes, ItemsHeld, consumer.pc \in {"move", "destroy"}
  PROVE  /\ consumer.gone = Popped /\ Popped < Pushed /\ Pushed <= producer.built
         /\ slot_at(consumer.read) = slot_at(Popped) /\ slot_at(Popped) \in 0..Capacity-1
         /\ slots[slot_at(Popped)].object = Popped + 1
         /\ Popped < consumer.seen - 1
<1>1. /\ Pushed \in Nat /\ Popped \in Nat /\ consumer.seen \in Nat /\ Pushed \in Int /\ Popped \in Int
      /\ producer.built \in Nat
  BY FieldTypes
<1>2. /\ consumer.gone = Popped /\ alive /\ consumer.read = Wrapped(Popped)
      /\ Popped < consumer.seen - 1
  BY DEF Consumes
<1>3. consumer.seen - 1 <= Pushed /\ Pushed <= producer.built
  BY Ordered, Room
<1>4. slot_at(consumer.read) = slot_at(Popped) /\ slot_at(Popped) \in 0..Capacity-1
  BY <1>1, <1>2, SlotOfPlainIndex, IndexType
<1>5. Popped + 1 \in consumer.gone+1..producer.built /\ (Popped + 1) - 1 = Popped
  BY <1>1, <1>2, <1>3
<1>6. slots[slot_at((Popped + 1) - 1)].object = Popped + 1
  BY <1>2, <1>5 DEF ItemsHeld
<1>7. slots[slot_at(Popped)].object = Popped + 1
  BY <1>5, <1>6
<1> QED
  BY <1>1, <1>2, <1>3, <1>4, <1>7

LEMMA PopMoveInv == ASSUME Inv, PopMove PROVE Inv'
<1>1. Types /\ StoresCount /\ Produces /\ Consumes /\ Observes /\ SlotsHold /\ ItemsHeld
  BY DEF Inv
<1>2. consumer.pc = "move" /\ UNCHANGED <<write_index, read_index, slots, producer, observer, alive>>
  BY DEF PopMove
<1>3. slots[slot_at(consumer.read)].object = Popped + 1 /\ Popped \in Nat
  BY <1>1, <1>2, NextOut, FieldTypes
<1>4. /\ consumer' \in ConsumerStates /\ consumer'.pc = "destroy" /\ consumer'.seen = consumer.seen
      /\ consumer'.knows = consumer.knows /\ consumer'.read = consumer.read
      /\ consumer'.gone = consumer.gone /\ consumer'.moved = consumer.moved + 1
  <2>1. consumer' = [consumer EXCEPT !.pc = "destroy", !.moved = consumer.moved + 1, !.out = Popped + 1]
    BY <1>3 DEF PopMove
  <2>2. Popped + 1 \in Nat /\ consumer.moved + 1 \in Nat
    BY <1>1, <1>3, FieldTypes
  <2> QED
    BY <1>1, <2>1, <2>2 DEF Types, ConsumerStates
<1>5. Types' /\ StoresCount' /\ Pushed' = Pushed /\ Popped' = Popped
  BY <1>1, <1>2, <1>4, StoresUntouched DEF Types
<1>6. Produces'
  BY <1>1, <1>2, <1>5 DEF Produces
<1>7. Consumes'
  BY <1>1, <1>2, <1>4, <1>5 DEF Consumes
<1>8. Observes' /\ SlotsHold' /\ ItemsHeld'
  BY <1>1, <1>2, <1>4, ObserverUntouched, SlotsUntouched
<1> QED
  BY <1>5, <1>6, <1>7, <1>8 DEF Inv

LEMMA PopDestroyInv == ASSUME Inv, PopDestroy PROVE Inv'
<1>1. Types /\ StoresCount /\ Produces /\ Consumes /\ Observes /\ SlotsHold /\ ItemsHeld
  BY DEF Inv
<1>2. /\ consumer.pc = "destroy"
      /\ UNCHANGED <<write_index, read_index, producer, observer, alive>>
  BY DEF PopDestroy
<1>3. /\ consumer.gone = Popped /\ Popped < Pushed /\ Pushed <= producer.built
      /\ slot_at(consumer.read) = slot_at(Popped) /\ slot_at(Popped) \in 0..Capacity-1
      /\ producer.built <= Popped + Capacity
  BY <1>1, <1>2, NextOut, Room
<1>4. /\ Popped \in Nat /\ Pushed \in Nat /\ producer.built \in Nat /\ Capacity \in Nat \ {0}
  BY <1>1, FieldTypes
<1> DEFINE s == slot_at(Popped)
<1>5. /\ slots' = [slots EXCEPT ![s] = [slots[s] EXCEPT !.object = Raw, !.gone = Popped + 1]]
      /\ consumer' = [consumer EXCEPT !.pc = "publish", !.gone = Popped + 1]
  <2>1. slot_at(consumer.read) = s /\ consumer.gone + 1 = Popped + 1
    BY <1>3
  <2> QED
    BY <2>1, Zenon DEF PopDestroy
<1>6. s \in 0..Capacity-1 /\ slots \in Slots /\ slot_at((Popped + 1) - 1) = s /\ Popped + 1 \in Nat
  <2>1. (Popped + 1) - 1 = Popped
    BY <1>4
  <2> QED
    BY <1>1, <1>3, <1>4, <2>1 DEF Types
<1> HIDE DEF s
<1>7. /\ slots' \in Slots
      /\ slots'[s].object = Raw /\ slots'[s].gone = Popped + 1
      /\ \A x \in 0..Capacity-1 : x # s => slots'[x] = slots[x]
  BY <1>5, <1>6 DEF Slots, Raw
<1>8. /\ consumer' \in ConsumerStates /\ consumer'.pc = "publish" /\ consumer'.seen = consumer.seen
      /\ consumer'.knows = consumer.knows /\ consumer'.read = consumer.read
      /\ consumer'.gone = Popped + 1 /\ consumer'.moved = consumer.moved
  BY <1>1, <1>5, <1>6 DEF Types, ConsumerStates
<1>9. Types'
  BY <1>1, <1>2, <1>7, <1>8 DEF Types
<1>10. StoresCount' /\ Pushed' = Pushed /\ Popped' = Popped
  BY <1>1, <1>2, StoresUntouched
<1>11. Produces' /\ Observes'
  BY <1>1, <1>2, <1>10, ObserverUntouched DEF Produces
<1>12. Consumes'
  BY <1>1, <1>2, <1>8, <1>10 DEF Consumes
<1>13. SlotsHold'
  <2>1. ASSUME NEW x \in 0..Capacity-1
        PROVE  LET slot == slots'[x]
               IN /\ slot.gone <= consumer'.gone
                  /\ slot.gone # 0 => slot_at(slot.gone - 1) = x
                  /\ slot.object # Raw =>
                       /\ alive'
                       /\ consumer'.gone < slot.object /\ slot.object <= producer'.built
                       /\ slot_at(slot.object - 1) = x
                       /\ slot.built = slot.object
    <3>1. CASE x = s
      BY <1>4, <1>6, <1>7, <1>8, <3>1
    <3>2. CASE x # s
      <4>1. /\ slots'[x] = slots[x] /\ slots[x].object \in Nat /\ slots[x].gone \in Nat
        BY <1>6, <1>7, <3>2 DEF Slots
      <4>2. /\ slots[x].gone <= Popped /\ (slots[x].gone # 0 => slot_at(slots[x].gone - 1) = x)
            /\ slots[x].object # Raw =>
                  /\ alive
                  /\ Popped < slots[x].object /\ slots[x].object <= producer.built
                  /\ slot_at(slots[x].object - 1) = x
                  /\ slots[x].built = slots[x].object
        BY <1>1, <1>3 DEF SlotsHold
      <4>3. slots[x].object # Popped + 1 \/ slots[x].object = Raw
        BY <1>6, <3>2, <4>2
      <4> QED
        BY <1>2, <1>4, <1>8, <4>1, <4>2, <4>3
    <3> QED
      BY <3>1, <3>2
  <2> QED
    BY <2>1 DEF SlotsHold
<1>14. ItemsHeld'
  <2>1. ASSUME alive, NEW m \in Popped+1+1..producer.built PROVE slots'[slot_at(m - 1)].object = m
    <3>1. m \in consumer.gone+1..producer.built /\ m - 1 \in Int /\ Popped \in Int
      BY <1>3, <1>4
    <3>2. slots[slot_at(m - 1)].object = m
      BY <1>1, <2>1, <3>1 DEF ItemsHeld
    <3>3. -Capacity < (m - 1) - Popped /\ (m - 1) - Popped < Capacity /\ m - 1 # Popped
      BY <1>3, <1>4
    <3>4. slot_at(m - 1) # slot_at(Popped) /\ slot_at(m - 1) \in 0..Capacity-1
      BY <3>1, <3>3, SameSlot, IndexType
    <3> QED
      BY <1>7, <3>2, <3>4 DEF s
  <2> QED
    BY <1>2, <1>8, <2>1 DEF ItemsHeld
<1> QED
  BY <1>9, <1>10, <1>11, <1>12, <1>13, <1>14 DEF Inv

LEMMA PopPublishInv == ASSUME Inv, PopPublish PROVE Inv'
<1>1. Types /\ StoresCount /\ Produces /\ Consumes /\ Observes /\ SlotsHold /\ ItemsHeld
  BY DEF Inv
<1> DEFINE store == Store(Increment(consumer.read), consumer.gone, consumer.seen)
<1>2. /\ consumer.pc = "publish" /\ read_index' = Append(read_index, store)
      /\ consumer' = [consumer EXCEPT !.pc = "idle"]
      /\ UNCHANGED <<write_index, slots, producer, observer, alive>>
  BY DEF PopPublish
<1>3. /\ alive /\ consumer.read = Wrapped(Popped) /\ consumer.gone = Popped + 1
      /\ consumer.moved = Popped + 1
      /\ Popped < consumer.seen - 1 /\ consumer.seen <= Len(write_index)
  BY <1>1, <1>2 DEF Consumes
<1>4. /\ Popped \in Nat /\ Capacity \in Nat \ {0} /\ Len(write_index) \in Nat
      /\ Len(read_index) \in Nat \ {0} /\ Len(read_index) = Popped + 1
      /\ producer.seen \in Nat \ {0} /\ consumer.seen \in Nat \ {0}
      /\ observer.write_seen \in Nat /\ observer.read_seen \in Nat
  BY <1>1, FieldTypes DEF Popped
<1>5. /\ store \in Stores /\ store.value = Wrapped(Popped + 1)
      /\ store.done = Popped + 1 /\ store.seen = consumer.seen
  <2>1. Increment(consumer.read) = Wrapped(Popped + 1) /\ Wrapped(Popped + 1) \in Index
    BY <1>3, <1>4, NextIndex, IndexType
  <2>2. store = [value |-> Wrapped(Popped + 1), done |-> Popped + 1, seen |-> consumer.seen]
    BY <1>3, <2>1 DEF Store
  <2> QED
    BY <1>4, <2>1, <2>2 DEF Stores
<1> HIDE DEF store
<1>6. /\ read_index' \in Seq(Stores) /\ Len(read_index') = Len(read_index) + 1
      /\ read_index'[Len(read_index) + 1] = store
      /\ \A k \in 1..Len(read_index) : read_index'[k] = read_index[k]
  <2>1. read_index \in Seq(Stores)
    BY <1>1 DEF Types
  <2> QED
    BY <1>2, <1>5, <2>1
<1>7. Pushed' = Pushed /\ Popped' = Popped + 1
  BY <1>2, <1>4, <1>6 DEF Pushed, Popped
<1>8. /\ consumer' \in ConsumerStates /\ consumer'.pc = "idle" /\ consumer'.seen = consumer.seen
      /\ consumer'.knows = consumer.knows /\ consumer'.gone = consumer.gone
      /\ consumer'.moved = consumer.moved
  BY <1>1, <1>2 DEF Types, ConsumerStates
<1>9. Types'
  BY <1>1, <1>2, <1>4, <1>6, <1>8 DEF Types
<1>10. StoresCount'
  <2>1. ASSUME NEW k \in 1..Len(read_index')
        PROVE  /\ read_index'[k].value = Wrapped(k - 1)
               /\ read_index'[k].done = k - 1
               /\ k <= read_index'[k].seen /\ read_index'[k].seen <= Len(write_index')
    <3>1. CASE k = Len(read_index) + 1
      <4>1. k - 1 = Popped + 1 /\ k <= consumer.seen
        BY <1>3, <1>4, <3>1
      <4> QED
        BY <1>2, <1>3, <1>5, <1>6, <3>1, <4>1
    <3>2. CASE k \in 1..Len(read_index)
      BY <1>1, <1>2, <1>6, <3>2 DEF StoresCount
    <3> QED
      BY <1>4, <1>6, <2>1, <3>1, <3>2
  <2>2. ASSUME NEW k \in 1..Len(write_index')
        PROVE  /\ write_index'[k].value = Wrapped(k - 1)
               /\ write_index'[k].done = k - 1
               /\ write_index'[k].seen <= Len(read_index')
    <3>1. k \in 1..Len(write_index) /\ write_index'[k] = write_index[k] /\ write_index \in Seq(Stores)
      BY <1>1, <1>2, <2>2 DEF Types
    <3>2. write_index[k].seen \in Nat
      <4>1. write_index[k] \in Stores
        BY <3>1
      <4> QED
        BY <4>1 DEF Stores
    <3> QED
      BY <1>1, <1>4, <1>6, <3>1, <3>2 DEF StoresCount
  <2> QED
    BY <2>1, <2>2 DEF StoresCount
<1>11. Produces'
  <2>1. producer.seen <= Len(read_index')
    <3>1. producer.seen <= Len(read_index)
      BY <1>1 DEF Produces
    <3> QED
      BY <1>4, <1>6, <3>1
  <2> QED
    BY <1>1, <1>2, <1>7, <2>1 DEF Produces
<1>12. Consumes'
  <2>1. Popped + 1 <= consumer.seen - 1
    BY <1>3, <1>4
  <2>2. consumer.knows = consumer.seen - 1
    BY <1>1 DEF Consumes
  <2> QED
    BY <1>2, <1>3, <1>7, <1>8, <2>1, <2>2 DEF Consumes
<1>13. Observes'
  <2>1. observer.read_seen <= Len(read_index')
    <3>1. observer.read_seen <= Len(read_index)
      BY <1>1 DEF Observes
    <3> QED
      BY <1>4, <1>6, <3>1
  <2> QED
    BY <1>1, <1>2, <2>1 DEF Observes
<1>14. SlotsHold' /\ ItemsHeld'
  BY <1>1, <1>2, <1>8, SlotsUntouched
<1> QED
  BY <1>9, <1>10, <1>11, <1>12, <1>13, <1>14 DEF Inv

\* size() changes only what the observer has seen.
LEMMA ObserverOnly ==
  ASSUME Inv, UNCHANGED <<write_index, read_index, slots, producer, consumer, alive>>,
         observer' \in ObserverStates, Observes'
  PROVE  Inv'
<1>1. Types /\ StoresCount /\ Produces /\ Consumes /\ SlotsHold /\ ItemsHeld
  BY DEF Inv
<1>2. Types' /\ StoresCount' /\ Pushed' = Pushed /\ Popped' = Popped
  BY <1>1, StoresUntouched DEF Types
<1>3. Produces' /\ Consumes'
  BY <1>1, <1>2 DEF Produces, Consumes
<1>4. SlotsHold' /\ ItemsHeld'
  BY <1>1, SlotsUntouched
<1> QED
  BY <1>2, <1>3, <1>4 DEF Inv

LEMMA SeenTypes ==
  ASSUME Types, StoresCount
  PROVE  /\ \A k \in 1..Len(write_index) : write_index[k].seen \in Nat \ {0}
         /\ \A k \in 1..Len(read_index) : read_index[k].seen \in Nat \ {0}
<1>1. write_index \in Seq(Stores) /\ read_index \in Seq(Stores)
  BY DEF Types
<1>2. /\ \A k \in 1..Len(write_index) : write_index[k] \in Stores
      /\ \A k \in 1..Len(read_index) : read_index[k] \in Stores
  BY <1>1
<1> QED
  BY <1>2 DEF Stores

LEMMA LargerNat ==
  ASSUME NEW m \in Nat \ {0}, NEW n \in Nat \ {0}
  PROVE  /\ Larger(m, n) \in Nat \ {0} /\ m <= Larger(m, n) /\ n <= Larger(m, n)
         /\ \A b \in Nat : m <= b /\ n <= b => Larger(m, n) <= b
BY DEF Larger

LEMMA SizeLoadWriteInv == ASSUME Inv, SizeLoadWrite PROVE Inv'
<1>1. Types /\ StoresCount /\ Observes
  BY DEF Inv
<1>2. alive /\ UNCHANGED <<write_index, read_index, slots, producer, consumer, alive>>
  BY DEF SizeLoadWrite
<1>3. PICK k \in observer.write_seen..Len(write_index) :
        observer' = [observer EXCEPT !.pc = "read", !.write_seen = k,
                       !.read_seen = Larger(observer.read_seen, write_index[k].seen)]
  BY DEF SizeLoadWrite
<1> DEFINE r == Larger(observer.read_seen, write_index[k].seen)
<1>4. /\ observer.write_seen \in Nat \ {0} /\ observer.read_seen \in Nat \ {0}
      /\ Len(write_index) \in Nat /\ Len(read_index) \in Nat
  BY <1>1, FieldTypes
<1>5. k \in Nat \ {0} /\ k \in 1..Len(write_index) /\ k <= Len(write_index)
  BY <1>4
<1>6. write_index[k].seen \in Nat \ {0} /\ write_index[k].seen <= Len(read_index)
      /\ observer.read_seen <= Len(read_index)
  BY <1>1, <1>5, SeenTypes DEF StoresCount, Observes
<1>7. r \in Nat \ {0} /\ r <= Len(read_index)
  BY <1>4, <1>6, LargerNat
<1>8. observer' = [observer EXCEPT !.pc = "read", !.write_seen = k, !.read_seen = r]
  BY <1>3
<1> HIDE DEF r
<1>9. /\ observer' \in ObserverStates /\ observer'.pc = "read" /\ observer'.write_seen = k
      /\ observer'.read_seen = r
  BY <1>1, <1>5, <1>7, <1>8 DEF Types, ObserverStates
<1>10. Observes'
  BY <1>2, <1>5, <1>7, <1>9 DEF Observes
<1> QED
  BY <1>2, <1>9, <1>10, ObserverOnly

LEMMA SizeLoadReadInv == ASSUME Inv, SizeLoadRead PROVE Inv'
<1>1. Types /\ StoresCount /\ Observes
  BY DEF Inv
<1>2. observer.pc = "read" /\ UNCHANGED <<write_index, read_index, slots, producer, consumer, alive>>
  BY DEF SizeLoadRead
<1>3. PICK k \in observer.read_seen..Len(read_index) :
        observer' = [observer EXCEPT !.pc = "write again", !.read_seen = k,
                       !.write_seen = Larger(observer.write_seen, read_index[k].seen)]
  BY DEF SizeLoadRead
<1> DEFINE w == Larger(observer.write_seen, read_index[k].seen)
<1>4. /\ observer.write_seen \in Nat \ {0} /\ observer.read_seen \in Nat \ {0}
      /\ Len(write_index) \in Nat /\ Len(read_index) \in Nat
  BY <1>1, FieldTypes
<1>5. k \in Nat \ {0} /\ k \in 1..Len(read_index) /\ k <= Len(read_index)
  BY <1>4
<1>6. /\ read_index[k].seen \in Nat \ {0} /\ read_index[k].seen <= Len(write_index)
      /\ k <= read_index[k].seen /\ observer.write_seen <= Len(write_index)
  BY <1>1, <1>5, SeenTypes DEF StoresCount, Observes
<1>7. w \in Nat \ {0} /\ w <= Len(write_index) /\ read_index[k].seen <= w
  BY <1>4, <1>6, LargerNat
<1>8. k <= w
  BY <1>5, <1>6, <1>7
<1>9. observer' = [observer EXCEPT !.pc = "write again", !.read_seen = k, !.write_seen = w]
  BY <1>3
<1> HIDE DEF w
<1>10. /\ observer' \in ObserverStates /\ observer'.pc = "write again" /\ observer'.write_seen = w
       /\ observer'.read_seen = k
  BY <1>1, <1>5, <1>7, <1>9 DEF Types, ObserverStates
<1>11. Observes'
  <2>1. alive
    BY <1>1, <1>2 DEF Observes
  <2> QED
    BY <1>2, <1>5, <1>7, <1>8, <1>10, <2>1 DEF Observes
<1> QED
  BY <1>2, <1>10, <1>11, ObserverOnly

LEMMA SizeLoadWriteAgainInv == ASSUME Inv, SizeLoadWriteAgain PROVE Inv'
<1>1. Types /\ StoresCount /\ Observes
  BY DEF Inv
<1>2. /\ observer.pc = "write again"
      /\ UNCHANGED <<write_index, read_index, slots, producer, consumer, alive>>
  BY DEF SizeLoadWriteAgain
<1>3. PICK k \in observer.write_seen..Len(write_index) :
        observer' = [observer EXCEPT !.pc = "subtract", !.write_seen = k]
  BY DEF SizeLoadWriteAgain
<1>4. /\ observer.write_seen \in Nat \ {0} /\ observer.read_seen \in Nat \ {0}
      /\ Len(write_index) \in Nat
  BY <1>1, FieldTypes
<1>5. k \in Nat \ {0} /\ k <= Len(write_index) /\ observer.write_seen <= k
  BY <1>4
<1>6. /\ observer' \in ObserverStates /\ observer'.pc = "subtract" /\ observer'.write_seen = k
      /\ observer'.read_seen = observer.read_seen
  BY <1>1, <1>3, <1>5 DEF Types, ObserverStates
<1>7. /\ observer.read_seen <= observer.write_seen /\ observer.read_seen <= Len(read_index) /\ alive
  BY <1>1, <1>2 DEF Observes
<1>8. observer.read_seen <= k
  BY <1>4, <1>5, <1>7
<1>9. Observes'
  BY <1>2, <1>5, <1>6, <1>7, <1>8 DEF Observes
<1> QED
  BY <1>2, <1>6, <1>9, ObserverOnly

LEMMA SizeReturnInv == ASSUME Inv, SizeReturn PROVE Inv'
<1>1. Types /\ Observes
  BY DEF Inv
<1>2. /\ observer' = [observer EXCEPT !.pc = "idle"]
      /\ UNCHANGED <<write_index, read_index, slots, producer, consumer, alive>>
  BY DEF SizeReturn
<1>3. /\ observer' \in ObserverStates /\ observer'.pc = "idle"
      /\ observer'.write_seen = observer.write_seen /\ observer'.read_seen = observer.read_seen
  BY <1>1, <1>2 DEF Types, ObserverStates
<1>4. Observes'
  BY <1>1, <1>2, <1>3 DEF Observes
<1> QED
  BY <1>2, <1>3, <1>4, ObserverOnly

\* Between two calls clear() would walk over the slots of the items that are
\* pushed and not popped.
LEMMA WalkOfClear ==
  ASSUME Inv, producer.pc = "idle", consumer.pc = "idle"
  PROVE  /\ consumer.gone = Popped /\ producer.built = Pushed
         /\ Popped \in Nat /\ Pushed \in Nat /\ Popped <= Pushed
         /\ ClearedSlots(Last(read_index).value, Last(write_index).value)
              = [k \in 1..Pushed-Popped |-> slot_at(Popped + k - 1)]
<1>1. Types /\ StoresCount /\ Produces /\ Consumes
  BY DEF Inv
<1>2. /\ Popped \in Nat /\ Pushed \in Nat /\ Capacity \in Nat /\ Capacity < Modulus
      /\ Modulus \in Nat
  BY <1>1, FieldTypes
<1>3. consumer.gone = Popped /\ producer.built = Pushed
  BY <1>1 DEF Produces, Consumes
<1>4. Popped <= Pushed /\ Pushed <= Popped + Capacity
  BY <1>1, <1>3, Room
<1>5. Last(write_index).value = Wrapped(Pushed) /\ Last(read_index).value = Wrapped(Popped)
  BY <1>1, Newest
<1>6. Difference(Wrapped(Pushed), Wrapped(Popped)) = Pushed - Popped
  <2>1. Pushed \in Int /\ Popped \in Int /\ Pushed - Popped < Modulus
    BY <1>2, <1>4
  <2> QED
    BY <1>4, <2>1, DifferenceOfIndices
<1>7. ASSUME NEW k \in 1..Pushed-Popped
      PROVE  slot_at(Wrapped(Popped) + k - 1) = slot_at(Popped + k - 1)
  <2>1. Popped \in Int /\ k - 1 \in Int
    BY <1>2
  <2>2. slot_at(Wrapped(Popped) + (k - 1)) = slot_at(Popped + (k - 1))
    BY <2>1, SlotOfIndex
  <2>3. Wrapped(Popped) \in Int
    BY <2>1, IndexType, Sizes DEF Index
  <2>4. Wrapped(Popped) + (k - 1) = Wrapped(Popped) + k - 1 /\ Popped + (k - 1) = Popped + k - 1
    BY <2>1, <2>3
  <2> QED
    BY <2>2, <2>4
<1>8. ClearedSlots(Wrapped(Popped), Wrapped(Pushed))
        = [k \in 1..Pushed-Popped |-> slot_at(Popped + k - 1)]
  BY <1>6, <1>7 DEF ClearedSlots
<1> QED
  BY <1>2, <1>3, <1>4, <1>5, <1>8

\* clear() walks over every slot that holds an object.
LEMMA ClearsAll ==
  ASSUME Inv, Destroy
  PROVE  /\ slots' \in Slots
         /\ \A s \in 0..Capacity-1 : slots'[s].object = Raw /\ slots'[s].gone = slots[s].gone
<1>1. Types /\ SlotsHold
  BY DEF Inv
<1> DEFINE walk == [k \in 1..Pushed-Popped |-> slot_at(Popped + k - 1)]
           C == Range(walk)
<1>3. /\ consumer.gone = Popped /\ producer.built = Pushed /\ Popped \in Nat /\ Pushed \in Nat
      /\ ClearedSlots(Last(read_index).value, Last(write_index).value) = walk
  BY WalkOfClear DEF Destroy
<1>5. slots' = [s \in DOMAIN slots |->
                  IF s \in C THEN [slots[s] EXCEPT !.object = Raw] ELSE slots[s]]
  BY <1>3, Zenon DEF Destroy
<1>6. DOMAIN slots = 0..Capacity-1 /\ \A s \in 0..Capacity-1 :
        slots[s] \in [object : Nat, built : Nat, gone : Nat]
  BY <1>1 DEF Types, Slots
<1>7. ASSUME NEW s \in 0..Capacity-1, slots[s].object # Raw PROVE s \in C
  <2> DEFINE n == slots[s].object
             k == n - Popped
  <2>1. n \in Nat /\ Popped < n /\ n <= Pushed /\ slot_at(n - 1) = s
    BY <1>1, <1>3, <1>6, <1>7 DEF SlotsHold
  <2> HIDE DEF n
  <2>2. k \in 1..Pushed-Popped /\ Popped + k - 1 = n - 1
    BY <1>3, <2>1
  <2> HIDE DEF k
  <2>3. walk[k] = s /\ k \in DOMAIN walk
    BY <2>1, <2>2
  <2> QED
    BY <2>3 DEF Range
<1> HIDE DEF C
<1>8. ASSUME NEW s \in 0..Capacity-1
      PROVE  /\ slots'[s] \in [object : Nat, built : Nat, gone : Nat]
             /\ slots'[s].object = Raw /\ slots'[s].gone = slots[s].gone
  <2>1. CASE s \in C
    <3>1. slots'[s] = [slots[s] EXCEPT !.object = Raw]
      BY <1>5, <1>6, <2>1
    <3> QED
      BY <1>6, <3>1 DEF Raw
  <2>2. CASE s \notin C
    <3>1. slots'[s] = slots[s] /\ slots[s].object = Raw
      BY <1>5, <1>6, <1>7, <2>2
    <3> QED
      BY <1>6, <3>1
  <2> QED
    BY <2>1, <2>2
<1> QED
  BY <1>5, <1>6, <1>8 DEF Slots

LEMMA DestroyInv == ASSUME Inv, Destroy PROVE Inv'
<1>1. Types /\ StoresCount /\ Produces /\ Consumes /\ Observes /\ SlotsHold
  BY DEF Inv
<1>2. /\ producer.pc = "idle" /\ consumer.pc = "idle" /\ observer.pc = "idle" /\ alive' = FALSE
      /\ UNCHANGED <<write_index, read_index, producer, consumer, observer>>
  BY DEF Destroy
<1>3. StoresCount' /\ Pushed' = Pushed /\ Popped' = Popped
  BY <1>1, <1>2, StoresUntouched
<1>4. Types'
  BY <1>1, <1>2, ClearsAll DEF Types
<1>5. Produces' /\ Consumes' /\ Observes'
  BY <1>1, <1>2, <1>3 DEF Produces, Consumes, Observes
<1>6. SlotsHold' /\ ItemsHeld'
  BY <1>1, <1>2, ClearsAll DEF SlotsHold, ItemsHeld
<1> QED
  BY <1>3, <1>4, <1>5, <1>6 DEF Inv

LEMMA NextInv == Inv /\ [Next]_vars => Inv'
<1> SUFFICES ASSUME Inv, [Next]_vars PROVE Inv'
  OBVIOUS
<1>1. CASE UNCHANGED vars
  <2>1. Types /\ StoresCount /\ Produces /\ Consumes /\ Observes /\ SlotsHold /\ ItemsHeld
    BY DEF Inv
  <2>2. UNCHANGED <<write_index, read_index, slots, producer, consumer, observer, alive>>
    BY <1>1 DEF vars
  <2>3. observer' \in ObserverStates /\ Observes'
    BY <2>1, <2>2, ObserverUntouched DEF Types
  <2> QED
    BY <2>2, <2>3, ObserverOnly
<1> QED
  BY <1>1, EmplaceLoadInv, EmplaceConstructInv, EmplacePublishInv, PopLoadInv, PopMoveInv,
     PopDestroyInv, PopPublishInv, SizeLoadWriteInv, SizeLoadReadInv, SizeLoadWriteAgainInv,
     SizeReturnInv, DestroyInv
     DEF Next

LEMMA Invariance == Spec => []Inv
BY InitInv, NextInv, PTL DEF Spec

-----------------------------------------------------------------------------
(* The properties.                                                         *)

\* Indices, ordinals and what the threads know of each other keep their types
\* in every reachable state.
THEOREM Typing == Spec => []TypeOK
<1>1. Inv => TypeOK
  <2> SUFFICES ASSUME Inv PROVE TypeOK
    OBVIOUS
  <2>1. Types
    BY DEF Inv
  <2>2. ASSUME NEW x \in {write_index, read_index}, NEW k \in DOMAIN x
        PROVE  x[k] \in [value : Index, done : Nat, seen : Nat \ {0}]
    <3>1. x \in Seq(Stores)
      BY <2>1 DEF Types
    <3>2. x[k] \in Stores
      BY <3>1
    <3> QED
      BY <3>2 DEF Stores
  <2> QED
    BY <2>1, <2>2 DEF TypeOK, Types, Slots, ProducerStates, ConsumerStates, ObserverStates
<1> QED
  BY <1>1, Invariance, PTL

LEMMA ProducerRaceFree ==
  ASSUME Inv, producer.pc = "construct"
  PROVE  LET s == slots[slot_at(producer.write)]
         IN s.gone <= producer.knows /\ s.object = Raw
<1>1. Types /\ Produces /\ Consumes /\ SlotsHold
  BY DEF Inv
<1> DEFINE s == slots[slot_at(Pushed)]
<1>2. /\ Pushed \in Nat /\ Pushed \in Int /\ Popped \in Nat /\ Capacity \in Nat \ {0}
      /\ producer.seen \in Nat \ {0} /\ consumer.gone \in Nat
  BY <1>1, FieldTypes
<1>3. /\ producer.write = Wrapped(Pushed) /\ producer.knows = producer.seen - 1
      /\ producer.built = Pushed /\ Pushed < producer.seen - 1 + Capacity
  BY <1>1 DEF Produces
<1>4. Pushed < Popped + Capacity /\ Popped <= consumer.gone /\ consumer.gone <= Pushed
  BY <1>1, Room
<1>5. slot_at(producer.write) = slot_at(Pushed) /\ slot_at(Pushed) \in 0..Capacity-1
  BY <1>2, <1>3, SlotOfPlainIndex, IndexType
<1>6. s \in [object : Nat, built : Nat, gone : Nat]
  BY <1>1, <1>5 DEF Types, Slots
<1>7. /\ s.gone <= consumer.gone /\ (s.gone # 0 => slot_at(s.gone - 1) = slot_at(Pushed))
      /\ s.object # 0 => /\ consumer.gone < s.object /\ s.object <= producer.built
                         /\ slot_at(s.object - 1) = slot_at(Pushed)
  BY <1>1, <1>5 DEF SlotsHold, Raw
<1>8. s.gone \in Nat /\ s.object \in Nat
  BY <1>6
<1> HIDE DEF s
\* What was destroyed there was destroyed at least one round earlier.
<1>9. s.gone <= producer.knows
  <2>1. CASE s.gone = 0
    BY <1>2, <1>3, <2>1
  <2>2. CASE s.gone # 0 /\ Pushed - (s.gone - 1) < Capacity
    <3>1. s.gone - 1 \in Int /\ -Capacity < (s.gone - 1) - Pushed /\ (s.gone - 1) - Pushed < Capacity
          /\ s.gone - 1 # Pushed
      BY <1>2, <1>4, <1>7, <1>8, <2>2
    <3> QED
      BY <1>2, <1>7, <2>2, <3>1, SameSlot
  <2>3. CASE Pushed - (s.gone - 1) >= Capacity
    BY <1>2, <1>3, <1>8, <2>3
  <2> QED
    BY <1>2, <1>8, <2>1, <2>2, <2>3
\* An object that still lives there would be one of the last Capacity.
<1>10. s.object = 0
  <2> SUFFICES ASSUME s.object # 0 PROVE FALSE
    OBVIOUS
  <2>1. /\ s.object - 1 \in Int /\ -Capacity < (s.object - 1) - Pushed
        /\ (s.object - 1) - Pushed < Capacity /\ s.object - 1 # Pushed
    BY <1>2, <1>3, <1>4, <1>7, <1>8
  <2> QED
    BY <1>2, <1>7, <2>1, SameSlot
<1> QED
  BY <1>5, <1>9, <1>10 DEF s, Raw

LEMMA ConsumerRaceFree ==
  ASSUME Inv, consumer.pc \in {"move", "destroy"}
  PROVE  LET s == slots[slot_at(consumer.read)]
         IN s.built <= consumer.knows /\ s.object # Raw
<1>1. Types /\ Produces /\ Consumes /\ SlotsHold /\ ItemsHeld
  BY DEF Inv
<1>2. /\ slot_at(consumer.read) = slot_at(Popped) /\ slot_at(Popped) \in 0..Capacity-1
      /\ slots[slot_at(Popped)].object = Popped + 1 /\ Popped < consumer.seen - 1
  BY <1>1, NextOut
<1>3. Popped \in Nat /\ consumer.seen \in Nat /\ consumer.knows = consumer.seen - 1
  BY <1>1, FieldTypes DEF Consumes
<1>4. Popped + 1 # Raw /\ Popped + 1 <= consumer.knows
  BY <1>2, <1>3 DEF Raw
<1>5. slots[slot_at(Popped)].built = Popped + 1
  BY <1>1, <1>2, <1>4 DEF SlotsHold
<1> QED
  BY <1>2, <1>4, <1>5

\* Neither thread touches a slot without knowing of the other's last access
\* to it: emplace() and try_pop() are free of data races.
THEOREM NoRaces == Spec => []RaceFree
<1>1. Inv => RaceFree
  BY ProducerRaceFree, ConsumerRaceFree DEF RaceFree
<1> QED
  BY <1>1, Invariance, PTL

\* size() never subtracts a newer read index from an older write index, and
\* reports what lies between the two, at most the capacity.
THEOREM NoUnderflow == Spec => []SizeNeverUnderflows
<1>1. Inv => SizeNeverUnderflows
  <2> SUFFICES ASSUME Inv, observer.pc = "subtract"
               PROVE  LET used == observer.write_seen - observer.read_seen
                      IN /\ used >= 0
                         /\ used < Modulus =>
                              SizeResult = IF used < Capacity THEN used ELSE Capacity
    BY DEF SizeNeverUnderflows
  <2> DEFINE w == observer.write_seen
             r == observer.read_seen
  <2>1. Types /\ Observes /\ StoresCount
    BY DEF Inv
  <2>2. /\ w \in Nat \ {0} /\ r \in Nat \ {0} /\ Capacity \in Nat /\ Modulus \in Nat
    BY <2>1, FieldTypes
  <2>3. r <= w /\ w <= Len(write_index) /\ r <= Len(read_index)
    BY <2>1 DEF Observes
  <2> HIDE DEF w, r
  <2>4. write_index[w].value = Wrapped(w - 1) /\ read_index[r].value = Wrapped(r - 1)
    <3>1. Len(write_index) \in Nat /\ Len(read_index) \in Nat
      BY <2>1, FieldTypes
    <3>2. w \in 1..Len(write_index) /\ r \in 1..Len(read_index)
      BY <2>2, <2>3, <3>1
    <3> QED
      BY <2>1, <3>2 DEF StoresCount
  <2>5. ASSUME w - r < Modulus
        PROVE  SizeResult = IF w - r < Capacity THEN w - r ELSE Capacity
    <3>1. /\ w - 1 \in Int /\ r - 1 \in Int /\ r - 1 <= w - 1
          /\ (w - 1) - (r - 1) = w - r /\ (w - 1) - (r - 1) < Modulus
      BY <2>2, <2>3, <2>5
    <3>2. Difference(Wrapped(w - 1), Wrapped(r - 1)) = w - r
      BY <3>1, DifferenceOfIndices
    <3>3. SizeResult = IF w - r <= Capacity THEN w - r ELSE Capacity
      BY <2>4, <3>2 DEF SizeResult, w, r
    <3> QED
      BY <2>2, <3>3
  <2> QED
    BY <2>2, <2>3, <2>5 DEF w, r
<1> QED
  BY <1>1, Invariance, PTL

\* Between two calls the slots in use are as many as the items inside.
LEMMA SlotsInUse ==
  ASSUME Inv, alive, producer.pc = "idle", consumer.pc = "idle"
  PROVE  Cardinality({s \in DOMAIN slots : slots[s].object # Raw}) = producer.built - consumer.gone
<1>1. Types /\ Produces /\ Consumes /\ SlotsHold /\ ItemsHeld
  BY DEF Inv
<1>2. /\ Popped \in Nat /\ Pushed \in Nat /\ Capacity \in Nat \ {0} /\ slots \in Slots
  BY <1>1, FieldTypes DEF Types
<1>3. producer.built = Pushed /\ consumer.gone = Popped /\ Popped <= Pushed /\ Pushed <= Popped + Capacity
  <2>1. producer.built = Pushed /\ consumer.gone = Popped
    BY <1>1 DEF Produces, Consumes
  <2> QED
    BY <1>1, <2>1, Room
<1> DEFINE Items == Popped+1..Pushed
           Used == {s \in DOMAIN slots : slots[s].object # Raw}
           place == [n \in Items |-> slot_at(n - 1)]
<1>4. DOMAIN slots = 0..Capacity-1 /\ \A s \in 0..Capacity-1 : slots[s].object \in Nat
  BY <1>2 DEF Slots
<1>5. ASSUME NEW n \in Items
      PROVE  slot_at(n - 1) \in Used /\ slots[slot_at(n - 1)].object = n
  <2>1. n - 1 \in Int /\ n # 0 /\ n \in consumer.gone+1..producer.built
    BY <1>2, <1>3
  <2>2. slot_at(n - 1) \in 0..Capacity-1
    BY <2>1, IndexType
  <2>3. slots[slot_at(n - 1)].object = n
    BY <1>1, <2>1 DEF ItemsHeld
  <2> QED
    BY <1>4, <2>1, <2>2, <2>3 DEF Raw
<1>6. ASSUME NEW s \in Used
      PROVE  slots[s].object \in Items /\ slot_at(slots[s].object - 1) = s
  <2>1. slots[s].object \in Nat /\ s \in 0..Capacity-1 /\ slots[s].object # Raw
    BY <1>4
  <2>2. consumer.gone < slots[s].object /\ slots[s].object <= producer.built
        /\ slot_at(slots[s].object - 1) = s
    BY <1>1, <2>1 DEF SlotsHold
  <2> QED
    BY <1>2, <1>3, <2>1, <2>2
<1> HIDE DEF Items, Used
<1>7. place \in [Items -> Used]
  BY <1>5
<1>8. place \in Bijection(Items, Used)
  <2>1. \A m, n \in Items : place[m] = place[n] => m = n
    BY <1>5
  <2>2. \A s \in Used : \E n \in Items : place[n] = s
    BY <1>6
  <2> QED
    BY <1>7, <2>1, <2>2 DEF Bijection, Injection, Surjection, IsInjective
<1>9. IsFiniteSet(Items) /\ Cardinality(Items) = Pushed - Popped
  <2>1. Popped + 1 \in Int /\ Pushed \in Int
    BY <1>2
  <2>2. IsFiniteSet(Items) /\ Cardinality(Items) = IF Popped + 1 > Pushed THEN 0 ELSE Pushed - (Popped + 1) + 1
    BY <2>1, FS_Interval DEF Items
  <2> QED
    BY <1>2, <1>3, <2>2
<1>10. Cardinality(Used) = Cardinality(Items)
  <2>1. ExistsBijection(Items, Used)
    BY <1>8 DEF ExistsBijection
  <2> QED
    BY <1>9, <2>1, FS_Bijection
<1> QED
  BY <1>3, <1>9, <1>10 DEF Used

\* No object is leaked or destroyed twice, by the threads or by ~SpscRing():
\* each item between the indices has a slot of its own, which holds an object,
\* and no other slot does.
THEOREM NoLeak == Spec => []NoObjectLeaked
<1>1. Inv => NoObjectLeaked
  <2> DEFINE live == {s \in DOMAIN slots : slots[s].object # Raw}
             walk == [k \in 1..Pushed-Popped |-> slot_at(Popped + k - 1)]
  <2> SUFFICES ASSUME Inv, producer.pc = "idle", consumer.pc = "idle"
               PROVE  /\ alive => /\ Cardinality(live) = producer.built - consumer.gone
                                  /\ IsInjective(walk) /\ Range(walk) = live
                      /\ ~alive => live = {}
    BY WalkOfClear, Zenon DEF NoObjectLeaked
  <2>1. CASE alive
    <3>1. /\ consumer.gone = Popped /\ producer.built = Pushed
          /\ Popped \in Nat /\ Pushed \in Nat
      BY WalkOfClear
    <3>2. Types /\ SlotsHold /\ ItemsHeld
      BY DEF Inv
    <3>3. DOMAIN slots = 0..Capacity-1 /\ \A s \in 0..Capacity-1 : slots[s].object \in Nat
      BY <3>2 DEF Types, Slots
    <3>4. ASSUME NEW k \in 1..Pushed-Popped
          PROVE  walk[k] \in live /\ slots[walk[k]].object = Popped + k
      <4>1. Popped + k \in Popped+1..Pushed /\ (Popped + k) - 1 = Popped + k - 1
            /\ Popped + k - 1 \in Int /\ Popped + k # 0
        BY <3>1
      <4>2. slots[slot_at(Popped + k - 1)].object = Popped + k
        BY <2>1, <3>1, <3>2, <4>1 DEF ItemsHeld
      <4>3. slot_at(Popped + k - 1) \in 0..Capacity-1
        BY <4>1, IndexType
      <4> QED
        BY <3>3, <4>1, <4>2, <4>3 DEF Raw
    <3>5. ASSUME NEW s \in live
          PROVE  \E k \in 1..Pushed-Popped : walk[k] = s
      <4> DEFINE n == slots[s].object
      <4>1. n \in Nat /\ Popped < n /\ n <= Pushed /\ slot_at(n - 1) = s
        BY <3>1, <3>2, <3>3 DEF SlotsHold
      <4> HIDE DEF n
      <4>2. n - Popped \in 1..Pushed-Popped /\ Popped + (n - Popped) - 1 = n - 1
        BY <3>1, <4>1
      <4>3. walk[n - Popped] = s
        BY <4>1, <4>2
      <4> QED
        BY <4>2, <4>3
    <3> HIDE DEF live
    <3>6. DOMAIN walk = 1..Pushed-Popped
      OBVIOUS
    <3> HIDE DEF walk
    <3>7. IsInjective(walk)
      <4> SUFFICES ASSUME NEW j \in DOMAIN walk, NEW k \in DOMAIN walk, walk[j] = walk[k]
                   PROVE  j = k
        BY DEF IsInjective
      <4>1. Popped + j = Popped + k
        BY <3>4, <3>6
      <4> QED
        BY <3>1, <3>6, <4>1
    <3>8. Range(walk) = live
      BY <3>4, <3>5, <3>6 DEF Range
    <3> QED
      BY <2>1, <3>7, <3>8, SlotsInUse DEF live
  <2>2. CASE ~alive
    BY <2>2 DEF Inv, Types, Slots, SlotsHold
  <2> QED
    BY <2>1, <2>2
<1> QED
  BY <1>1, Invariance, PTL

-----------------------------------------------------------------------------
(* The ring implements the bounded queue.                                  *)

\* The items from m + 1 on.
Run(m, n) == [k \in 1..n |-> m + k]

LEMMA RunGrows ==
  ASSUME NEW m \in Nat, NEW n \in Nat
  PROVE  /\ Run(m, n) \in Seq(Nat) /\ Len(Run(m, n)) = n
         /\ Append(Run(m, n), m + n + 1) = Run(m, n + 1)
BY DEF Run

LEMMA RunShrinks ==
  ASSUME NEW m \in Nat, NEW n \in Nat, n # 0
  PROVE  /\ Run(m, n) # <<>> /\ Head(Run(m, n)) = m + 1
         /\ Tail(Run(m, n)) = Run(m + 1, n - 1)
<1>1. Run(m, n) \in Seq(Nat) /\ Len(Run(m, n)) = n
  BY RunGrows
<1>2. Run(m, n) # <<>> /\ Head(Run(m, n)) = m + 1
  BY <1>1 DEF Run
<1> DEFINE t == Tail(Run(m, n)) u == Run(m + 1, n - 1)
<1>3. t \in Seq(Nat) /\ Len(t) = n - 1 /\ \A k \in 1..n-1 : t[k] = Run(m, n)[k + 1]
  BY <1>1, <1>2, HeadTailProperties
<1>4. u \in Seq(Nat) /\ Len(u) = n - 1
  <2>1. m + 1 \in Nat /\ n - 1 \in Nat
    OBVIOUS
  <2> QED
    BY <2>1, RunGrows
<1>5. ASSUME NEW k \in 1..Len(t) PROVE t[k] = u[k]
  <2>1. k \in 1..n-1 /\ t[k] = Run(m, n)[k + 1]
    BY <1>3, <1>5
  <2>2. Run(m, n)[k + 1] = m + (k + 1) /\ u[k] = (m + 1) + k
    BY <2>1 DEF Run
  <2> QED
    BY <2>1, <2>2
<1>6. t = u
  <2> HIDE DEF t, u
  <2> QED
    BY <1>3, <1>4, <1>5, SeqEqual
<1> QED
  BY <1>2, <1>6

\* While the ring lives, the queue holds the items that follow the last one
\* moved out, up to the last one published.
LEMMA QueueIsRun ==
  ASSUME Inv, alive
  PROVE  /\ consumer.moved \in Nat /\ consumer.moved <= Pushed /\ Pushed \in Nat
         /\ Popped <= consumer.moved /\ Popped \in Nat
         /\ QueuedItems = Run(consumer.moved, Pushed - consumer.moved)
<1>1. Types /\ Produces /\ Consumes /\ ItemsHeld
  BY DEF Inv
<1>2. /\ consumer.moved \in Nat /\ Pushed \in Nat /\ Popped \in Nat /\ consumer.gone \in Nat
      /\ consumer.seen \in Nat /\ producer.built \in Nat
  BY <1>1, FieldTypes
<1>3. Popped <= consumer.moved /\ consumer.gone <= consumer.moved /\ consumer.moved <= Pushed
      /\ Pushed <= producer.built
  <2>1. consumer.seen - 1 <= Pushed /\ Pushed <= producer.built
    BY <1>1, Ordered, Room
  <2> QED
    BY <1>1, <1>2, <2>1 DEF Consumes
<1> DEFINE m == consumer.moved
<1>4. QueuedItems = [k \in 1..(Pushed - m) |-> slots[slot_at(m + k - 1)].object]
  BY DEF QueuedItems, Pushed
<1>5. ASSUME NEW k \in 1..(Pushed - m) PROVE slots[slot_at(m + k - 1)].object = m + k
  <2>1. m + k \in consumer.gone+1..producer.built /\ m + k - 1 = (m + k) - 1
    BY <1>2, <1>3
  <2> QED
    BY <1>1, <2>1 DEF ItemsHeld
<1> QED
  BY <1>2, <1>3, <1>4, <1>5 DEF Run

Content == IF alive THEN Run(consumer.moved, Pushed - consumer.moved) ELSE <<>>

LEMMA QueueIsContent == Inv => QueuedItems = Content
BY QueueIsRun DEF Content, QueuedItems

LEMMA PublishImplements ==
  ASSUME Inv, QueuedItems = Content, QueuedItems' = Content', EmplacePublish
  PROVE  Queue!Push
<1>1. Types /\ Produces /\ Consumes
  BY DEF Inv
<1>2. producer.pc = "publish" /\ alive /\ UNCHANGED <<read_index, consumer, alive>>
  BY <1>1 DEF EmplacePublish, Produces
<1> DEFINE m == consumer.moved
<1>3. /\ m \in Nat /\ Pushed \in Nat /\ m <= Pushed /\ Popped <= m /\ Popped \in Nat
      /\ QueuedItems = Run(m, Pushed - m)
  BY <1>2, QueueIsRun
<1>4. Pushed' = Pushed + 1
  <2>1. WriteStore \in Stores
    <3>1. Increment(producer.write) \in Index
      <4>1. producer.write = Wrapped(Pushed) /\ Pushed \in Int /\ Pushed + 1 \in Int
        BY <1>1, <1>2, <1>3 DEF Produces
      <4>2. Increment(Wrapped(Pushed)) = Wrapped(Pushed + 1) /\ Wrapped(Pushed + 1) \in Index
        BY <4>1, NextIndex, IndexType
      <4> QED
        BY <4>1, <4>2
    <3> QED
      BY <1>1, <3>1, FieldTypes DEF WriteStore, Store, Stores
  <2> QED
    BY <1>1, <2>1 DEF EmplacePublish, Types, Pushed
<1>5. Len(QueuedItems) < Capacity
  <2>1. Pushed < Popped + Capacity /\ Capacity \in Nat
    BY <1>1, <1>2, Room, FieldTypes
  <2>2. Pushed - m \in Nat
    BY <1>3
  <2>3. Len(QueuedItems) = Pushed - m
    BY <1>3, <2>2, RunGrows
  <2> QED
    BY <1>3, <2>1, <2>3
<1>6. QueuedItems' = Append(QueuedItems, Pushed')
  <2>1. Pushed - m \in Nat /\ m + (Pushed - m) + 1 = Pushed + 1 /\ (Pushed + 1) - m = (Pushed - m) + 1
    BY <1>3
  <2>2. QueuedItems' = Run(m, (Pushed + 1) - m)
    <3>1. Content' = Run(m, Pushed' - m)
      BY <1>2 DEF Content
    <3> QED
      BY <1>4, <3>1
  <2> QED
    BY <1>3, <1>4, <2>1, <2>2, RunGrows
<1> QED
  BY <1>2, <1>4, <1>5, <1>6 DEF Queue!Push, Pushed

LEMMA MoveImplements ==
  ASSUME Inv, QueuedItems = Content, QueuedItems' = Content', PopMove
  PROVE  Queue!Pop
<1>1. Types /\ Produces /\ Consumes /\ ItemsHeld
  BY DEF Inv
<1>2. /\ consumer.pc = "move" /\ alive /\ UNCHANGED <<write_index, read_index, alive>>
      /\ consumer.moved = Popped
  BY <1>1 DEF PopMove, Consumes
<1>3. /\ Popped \in Nat /\ Pushed \in Nat /\ Popped < Pushed
      /\ slots[slot_at(consumer.read)].object = Popped + 1
  BY <1>1, <1>2, NextOut, FieldTypes
<1>4. consumer'.moved = Popped + 1 /\ consumer'.out = Popped + 1
  BY <1>1, <1>2, <1>3 DEF PopMove, Types, ConsumerStates
<1>5. QueuedItems = Run(Popped, Pushed - Popped)
  BY <1>2 DEF Content
<1>6. QueuedItems' = Run(Popped + 1, Pushed - (Popped + 1))
  BY <1>2, <1>4 DEF Content, Pushed
<1>7. Pushed - Popped \in Nat /\ Pushed - Popped # 0 /\ Pushed - (Popped + 1) = (Pushed - Popped) - 1
  BY <1>3
<1>8. QueuedItems # <<>> /\ Head(QueuedItems) = Popped + 1 /\ Tail(QueuedItems) = QueuedItems'
  BY <1>3, <1>5, <1>6, <1>7, RunShrinks
<1> QED
  BY <1>2, <1>4, <1>8 DEF Queue!Pop, PopMove

\* Every other step leaves the promised queue alone, or drops it.
LEMMA OthersImplement ==
  ASSUME Inv, QueuedItems = Content, QueuedItems' = Content',
         [Next]_vars, ~EmplacePublish, ~PopMove
  PROVE  [Queue!Next]_(Queue!vars)
<1>1. CASE Destroy
  <2>1. alive /\ alive' = FALSE /\ UNCHANGED <<write_index, consumer>> /\ QueuedItems' = <<>>
    BY <1>1 DEF Destroy, Content
  <2> QED
    BY <2>1 DEF Queue!Destroy, Queue!Next
<1>2. CASE /\ UNCHANGED <<write_index, alive>>
           /\ consumer'.moved = consumer.moved /\ consumer'.out = consumer.out
  BY <1>2 DEF Content, Pushed, Queue!vars
<1>3. consumer \in ConsumerStates
  BY DEF Inv, Types
<1>4. CASE PopLoad \/ PopDestroy \/ PopPublish
  <2>1. UNCHANGED <<write_index, alive>>
    BY <1>4 DEF PopLoad, PopDestroy, PopPublish
  <2>2. consumer'.moved = consumer.moved /\ consumer'.out = consumer.out
    <3>1. CASE PopLoad
      BY <1>3, <3>1 DEF PopLoad, ConsumerStates
    <3>2. CASE PopDestroy
      BY <1>3, <3>2 DEF PopDestroy, ConsumerStates
    <3>3. CASE PopPublish
      BY <1>3, <3>3 DEF PopPublish, ConsumerStates
    <3> QED
      BY <1>4, <3>1, <3>2, <3>3
  <2> QED
    BY <1>2, <2>1, <2>2
<1>5. CASE EmplaceLoad \/ EmplaceConstruct
  BY <1>2, <1>5 DEF EmplaceLoad, EmplaceConstruct
<1>6. CASE SizeLoadWrite \/ SizeLoadRead \/ SizeLoadWriteAgain \/ SizeReturn
  BY <1>2, <1>6 DEF SizeLoadWrite, SizeLoadRead, SizeLoadWriteAgain, SizeReturn
<1>7. CASE UNCHANGED vars
  BY <1>2, <1>7 DEF vars
<1> QED
  BY <1>1, <1>4, <1>5, <1>6, <1>7 DEF Next

\* The ring is a bounded first-in first-out queue: an item enters it when its
\* index is published and leaves it when it is moved out, whatever the
\* threads load in between, and no other step of theirs is seen.
THEOREM Refinement == Spec => ImplementsBoundedQueue
<1>1. Init => Queue!Init
  <2> SUFFICES ASSUME Init PROVE Queue!Init
    OBVIOUS
  <2>1. alive /\ consumer.moved = 0 /\ consumer.out = 0 /\ Len(write_index) = 1
    BY DEF Init
  <2>2. QueuedItems = <<>>
    BY <2>1 DEF QueuedItems
  <2> QED
    BY <2>1, <2>2 DEF Queue!Init, Init
<1>2. Inv /\ QueuedItems = Content /\ (QueuedItems = Content)' /\ [Next]_vars
        => [Queue!Next]_(Queue!vars)
  <2> SUFFICES ASSUME Inv, QueuedItems = Content, QueuedItems' = Content', [Next]_vars
               PROVE  [Queue!Next]_(Queue!vars)
    OBVIOUS
  <2>1. CASE EmplacePublish
    BY <2>1, PublishImplements DEF Queue!Next
  <2>2. CASE PopMove
    BY <2>2, MoveImplements DEF Queue!Next
  <2>3. CASE ~EmplacePublish /\ ~PopMove
    BY <2>3, OthersImplement
  <2> QED
    BY <2>1, <2>2, <2>3
<1> QED
  BY <1>1, <1>2, Invariance, QueueIsContent, PTL DEF Spec, ImplementsBoundedQueue, Queue!Spec
=============================================================================
