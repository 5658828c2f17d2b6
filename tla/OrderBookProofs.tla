-------------------------- MODULE OrderBookProofs --------------------------
(***************************************************************************)
(* Theorems about OrderBook.tla.                                           *)
(*                                                                         *)
(* Everything is said relative to the book b that the lists represent:     *)
(* Linked, Counted and Indexed relate nodes, levels and indices to b, and  *)
(* while an operation has taken a node out of its list, that node is just  *)
(* not in b.  Unlinking a node is then Leave of Book.tla, appending one is *)
(* PushBack, and each public operation is the operation of Book.tla that   *)
(* has its name.  Since `ahead' of b determines the order of a list, the   *)
(* links are right exactly when they lead through the orders ahead.        *)
(***************************************************************************)
EXTENDS OrderBook, BookProofs

\* A node, whether or not it is in a list.
SomeNode == [side : Side, price : Price, quantity : Nat \ {0},
             level : LevelKey \cup {Null},
             previous : OrderId \cup {Null}, next : OrderId \cup {Null}]

IsImpl(m) ==
  /\ m = [orders |-> m.orders, levels |-> m.levels, indices |-> m.indices]
  /\ m.orders \in [DOMAIN m.orders -> SomeNode] /\ DOMAIN m.orders \in SUBSET OrderId
  /\ m.levels \in [DOMAIN m.levels -> PriceLevel] /\ DOMAIN m.levels \in SUBSET LevelKey
  /\ m.indices \in [Side -> SUBSET Price]

\* The orders of b in level l.
Queue(b, l) == {i \in DOMAIN b : <<b[i].side, b[i].price>> = l}

FiniteBook(b) ==
  IsBook(b) /\ IsFiniteSet(DOMAIN b) /\ b = [i \in DOMAIN b |-> b[i]]

\* The node of i has the members of b's order and is in the level they name.
Agrees(o, L, b, i) ==
  /\ o[i].side = b[i].side /\ o[i].price = b[i].price /\ o[i].quantity = b[i].quantity
  /\ o[i].level = <<b[i].side, b[i].price>> /\ o[i].level \in DOMAIN L
  /\ i \notin b[i].ahead

\* previous is the last of the orders ahead.
Before(o, L, b, i) ==
  IF o[i].previous = Null
  THEN b[i].ahead = {} /\ L[o[i].level].head = i
  ELSE /\ o[i].previous \in Queue(b, o[i].level) /\ o[o[i].previous].next = i
       /\ b[i].ahead = b[o[i].previous].ahead \cup {o[i].previous}

\* next has this order as its previous; without one, all others are ahead.
After(o, L, b, i) ==
  IF o[i].next = Null
  THEN b[i].ahead \cup {i} = Queue(b, o[i].level) /\ L[o[i].level].tail = i
  ELSE o[i].next \in Queue(b, o[i].level) /\ o[o[i].next].previous = i

\* head and tail are the ends of the list.
Ends(o, L, b, l) ==
  /\ IF L[l].head = Null THEN Queue(b, l) = {}
     ELSE L[l].head \in Queue(b, l) /\ o[L[l].head].previous = Null
  /\ IF L[l].tail = Null THEN Queue(b, l) = {}
     ELSE L[l].tail \in Queue(b, l) /\ o[L[l].tail].next = Null

Linked(o, L, b) ==
  /\ DOMAIN b \subseteq DOMAIN o
  /\ \A i \in DOMAIN b : Agrees(o, L, b, i) /\ Before(o, L, b, i) /\ After(o, L, b, i)
  /\ \A l \in DOMAIN L : Ends(o, L, b, l)

Counted(L, b) ==
  \A l \in DOMAIN L : /\ L[l].order_count = Cardinality(Queue(b, l))
                      /\ L[l].quantity = Shares(b, Queue(b, l))

Indexed(x, b) == \A s \in Side, p \in Price : p \in x[s] <=> Queue(b, <<s, p>>) # {}

\* The lists of m hold the orders of b; m may have nodes outside any list.
Holds(m, b) ==
  IsImpl(m) /\ FiniteBook(b) /\ Linked(m.orders, m.levels, b) /\ Counted(m.levels, b)

Represents(m, b) ==
  Holds(m, b) /\ Indexed(m.indices, b) /\ DOMAIN m.orders = DOMAIN b

\* Empty levels of m2 were empty levels of m.
NoNewEmpty(m, b, m2, b2) ==
  \A l \in DOMAIN m2.levels : Queue(b2, l) = {} => l \in DOMAIN m.levels /\ Queue(b, l) = {}

-----------------------------------------------------------------------------
(* Queues.                                                                 *)

LEMMA QueueLevel == \A b, s, p : Queue(b, <<s, p>>) = Level(b, s, p)
BY DEF Queue, Level

LEMMA QueueFinite ==
  ASSUME NEW b, FiniteBook(b), NEW l
  PROVE  /\ IsFiniteSet(Queue(b, l)) /\ Queue(b, l) \subseteq DOMAIN b
         /\ Cardinality(Queue(b, l)) \in Nat
         /\ Cardinality(Queue(b, l)) = 0 <=> Queue(b, l) = {}
         /\ \A i \in Queue(b, l) : b[i].quantity \in Nat
<1>1. Queue(b, l) \subseteq DOMAIN b
  BY DEF Queue
<1>2. IsFiniteSet(Queue(b, l))
  BY <1>1, FS_Subset DEF FiniteBook
<1>3. \A i \in DOMAIN b : b[i].quantity \in Nat
  BY DEF FiniteBook, IsBook, Order
<1> QED
  BY <1>1, <1>2, <1>3, FS_CardinalityType, FS_EmptySet

LEMMA LeaveQueue ==
  ASSUME NEW b, NEW id, NEW l
  PROVE  Queue(Leave(b, id), l) = Queue(b, l) \ {id}
BY LeaveDomain DEF Queue, Leave

LEMMA PushBackQueue ==
  ASSUME NEW b, NEW id, id \notin DOMAIN b, NEW s, NEW p, NEW q, NEW l
  PROVE  Queue(PushBack(b, id, s, p, q), l)
           = IF l = <<s, p>> THEN Queue(b, l) \cup {id} ELSE Queue(b, l)
BY PushBackDomain DEF Queue, PushBack

LEMMA LeaveFields ==
  ASSUME NEW b, FiniteBook(b), NEW id, NEW i \in DOMAIN b, i # id
  PROVE  /\ i \in DOMAIN Leave(b, id)
         /\ Leave(b, id)[i].side = b[i].side /\ Leave(b, id)[i].price = b[i].price
         /\ Leave(b, id)[i].quantity = b[i].quantity
         /\ Leave(b, id)[i].ahead = b[i].ahead \ {id}
BY DEF Leave, FiniteBook, IsBook, Order

LEMMA LeaveBook ==
  ASSUME NEW b, FiniteBook(b), NEW id
  PROVE  FiniteBook(Leave(b, id))
<1>1. IsBook(Leave(b, id))
  BY LeaveType DEF FiniteBook
<1>2. IsFiniteSet(DOMAIN Leave(b, id))
  <2>1. DOMAIN Leave(b, id) \subseteq DOMAIN b
    BY LeaveDomain
  <2> QED
    BY <2>1, FS_Subset DEF FiniteBook
<1>3. Leave(b, id) = [i \in DOMAIN Leave(b, id) |-> Leave(b, id)[i]]
  BY DEF Leave
<1> QED
  BY <1>1, <1>2, <1>3 DEF FiniteBook

LEMMA PushBackBook ==
  ASSUME NEW b, FiniteBook(b), NEW id \in OrderId, NEW s \in Side, NEW p \in Price,
         NEW q \in Nat \ {0}
  PROVE  FiniteBook(PushBack(b, id, s, p, q))
<1> DEFINE c == PushBack(b, id, s, p, q)
<1>1. IsBook(c)
  BY PushBackType DEF FiniteBook
<1>2. DOMAIN c = DOMAIN b \cup {id}
  BY DEF PushBack
<1>3. IsFiniteSet(DOMAIN c)
  BY <1>2, FS_AddElement DEF FiniteBook
<1>4. c = [i \in DOMAIN c |-> c[i]]
  BY DEF PushBack
<1> QED
  BY <1>1, <1>3, <1>4 DEF FiniteBook

-----------------------------------------------------------------------------
(* Taking a node out of its list.                                          *)

\* What modify and erase_node do before anything else: the shares leave the
\* level's aggregate, then detach.
Unlink(m, id) ==
  detach([m EXCEPT !.levels[m.orders[id].level].quantity = @ - m.orders[id].quantity],
         m.orders[id].level, id)

\* The level of id without it.
Shrunk(m, id) ==
  LET o == m.orders[id]
      L == m.levels[o.level]
  IN [quantity |-> L.quantity - o.quantity, order_count |-> L.order_count - 1,
      head |-> IF o.previous = Null THEN o.next ELSE L.head,
      tail |-> IF o.next = Null THEN o.previous ELSE L.tail]

\* Its neighbours, and id itself, which is in no list.
Bypassed(m, id) ==
  LET o == m.orders
  IN [i \in DOMAIN o |->
        [side |-> o[i].side, price |-> o[i].price, quantity |-> o[i].quantity,
         level |-> IF i = id THEN Null ELSE o[i].level,
         previous |-> IF i = id THEN Null
                      ELSE IF i = o[id].next THEN o[id].previous ELSE o[i].previous,
         next |-> IF i = id THEN Null
                  ELSE IF i = o[id].previous THEN o[id].next ELSE o[i].next]]

\* The ends of a pointer in a list.
LEMMA Neighbours ==
  ASSUME NEW m, NEW b, Holds(m, b), NEW id \in DOMAIN b
  PROVE  LET o == m.orders
             prev == o[id].previous
             next == o[id].next
         IN /\ DOMAIN b \subseteq DOMAIN o /\ DOMAIN b \subseteq OrderId /\ Null \notin DOMAIN o
            /\ o[id].level \in DOMAIN m.levels
            /\ prev # Null => /\ prev \in DOMAIN b /\ prev # id
                              /\ o[prev].next = id /\ o[prev].level = o[id].level
                              /\ b[id].ahead = b[prev].ahead \cup {prev} /\ prev \notin b[prev].ahead
            /\ next # Null => /\ next \in DOMAIN b /\ next # id
                              /\ o[next].previous = id /\ o[next].level = o[id].level
                              /\ b[next].ahead = b[id].ahead \cup {id}
            /\ prev # Null => prev # next
<1> DEFINE o == m.orders
           L == m.levels
           prev == o[id].previous
           next == o[id].next
<1>1. DOMAIN b \subseteq DOMAIN o /\ DOMAIN b \subseteq OrderId /\ Null \notin DOMAIN o
  BY NullAssumption DEF Holds, Linked, FiniteBook, IsBook, IsImpl
<1>2. \A i \in DOMAIN b : Agrees(o, L, b, i) /\ Before(o, L, b, i) /\ After(o, L, b, i)
  BY DEF Holds, Linked
<1>3. o[id].level \in DOMAIN L
  BY <1>2 DEF Agrees
<1>4. ASSUME prev # Null
      PROVE  /\ prev \in DOMAIN b /\ prev # id
             /\ o[prev].next = id /\ o[prev].level = o[id].level
             /\ b[id].ahead = b[prev].ahead \cup {prev} /\ prev \notin b[prev].ahead
  <2>1. /\ prev \in Queue(b, o[id].level) /\ o[prev].next = id
        /\ b[id].ahead = b[prev].ahead \cup {prev}
    BY <1>2, <1>4 DEF Before
  <2>2. prev \in DOMAIN b /\ o[prev].level = o[id].level
    BY <1>2, <2>1 DEF Queue, Agrees
  <2>3. prev \notin b[prev].ahead /\ id \notin b[id].ahead
    BY <1>2, <2>2 DEF Agrees
  <2> QED
    BY <2>1, <2>2, <2>3
<1>5. ASSUME next # Null
      PROVE  /\ next \in DOMAIN b /\ next # id
             /\ o[next].previous = id /\ o[next].level = o[id].level
             /\ b[next].ahead = b[id].ahead \cup {id}
  <2>1. next \in Queue(b, o[id].level) /\ o[next].previous = id
    BY <1>2, <1>5 DEF After
  <2>2. next \in DOMAIN b /\ o[next].level = o[id].level
    BY <1>2, <2>1 DEF Queue, Agrees
  <2>3. id # Null
    BY <1>1
  <2>4. b[next].ahead = b[id].ahead \cup {id}
    BY <1>2, <2>1, <2>2, <2>3 DEF Before
  <2>5. next \notin b[next].ahead
    BY <1>2, <2>2 DEF Agrees
  <2> QED
    BY <2>1, <2>2, <2>4, <2>5
<1>6. ASSUME prev # Null PROVE prev # next
  BY <1>2, <1>4, <1>5, <1>6 DEF Agrees
<1> QED
  BY <1>1, <1>3, <1>4, <1>5, <1>6

LEMMA UnlinkIs ==
  ASSUME NEW m, NEW b, Holds(m, b), NEW id \in DOMAIN b
  PROVE  Unlink(m, id) = [orders |-> Bypassed(m, id),
                          levels |-> [m.levels EXCEPT ![m.orders[id].level] = Shrunk(m, id)],
                          indices |-> m.indices]
<1> DEFINE o == m.orders
           L == m.levels
           l == o[id].level
           prev == o[id].previous
           next == o[id].next
           n == [m EXCEPT !.levels[l].quantity = @ - o[id].quantity]
           p == SetPrevious(SetNext(o, prev, next), next, prev)
           q == [p EXCEPT ![id].previous = Null, ![id].next = Null, ![id].level = Null]
<1>0. /\ m = [orders |-> o, levels |-> L, indices |-> m.indices]
      /\ o \in [DOMAIN o -> SomeNode] /\ L \in [DOMAIN L -> PriceLevel]
  BY DEF Holds, IsImpl
<1>1. /\ id \in DOMAIN o /\ l \in DOMAIN L /\ Null \notin DOMAIN o
      /\ prev # Null => prev \in DOMAIN o /\ prev # id
      /\ next # Null => next \in DOMAIN o /\ next # id
      /\ prev # Null => prev # next
  BY Neighbours
<1>2. n = [orders |-> o, levels |-> [L EXCEPT ![l].quantity = @ - o[id].quantity],
           indices |-> m.indices]
  BY <1>0
<1>3. q = Bypassed(m, id)
  <2> HIDE DEF n
  <2> DEFINE a == SetNext(o, prev, next)
  <2>0. \A i \in DOMAIN o : o[i] \in SomeNode
    BY <1>0
  <2>1. /\ a \in [DOMAIN o -> SomeNode]
        /\ \A i \in DOMAIN o :
             a[i] = IF i = prev THEN [o[i] EXCEPT !.next = next] ELSE o[i]
    <3>1. prev # Null => a = [o EXCEPT ![prev] = [@ EXCEPT !.next = next]]
      BY DEF SetNext
    <3>2. prev = Null => a = o
      BY DEF SetNext
    <3>3. prev # Null => o[prev] \in SomeNode /\ next \in OrderId \cup {Null}
      BY <1>0, <1>1 DEF SomeNode
    <3>4. prev # Null => [o[prev] EXCEPT !.next = next] \in SomeNode
      BY <3>3 DEF SomeNode
    <3> HIDE DEF a
    <3> QED
      BY <1>0, <1>1, <3>1, <3>2, <3>4
  <2> HIDE DEF a
  <2>2. \A i \in DOMAIN o : p[i] = IF i = next THEN [a[i] EXCEPT !.previous = prev] ELSE a[i]
    <3>1. next # Null => p = [a EXCEPT ![next] = [@ EXCEPT !.previous = prev]]
      BY DEF SetPrevious, a
    <3>2. next = Null => p = a
      BY DEF SetPrevious, a
    <3> HIDE DEF p
    <3> QED
      BY <1>1, <2>1, <3>1, <3>2
  <2>3. p = [i \in DOMAIN o |-> p[i]]
    BY <1>0, <2>1 DEF SetPrevious, a
  <2> HIDE DEF p
  <2>4. q = [i \in DOMAIN o |->
               IF i = id
               THEN [[[p[i] EXCEPT !.previous = Null] EXCEPT !.next = Null] EXCEPT !.level = Null]
               ELSE p[i]]
    BY <1>1, <2>3
  <2> HIDE DEF q
  <2>5. ASSUME NEW i \in DOMAIN o
        PROVE  q[i] = Bypassed(m, id)[i]
    <3>1. CASE i = id
      <4>1. p[i] = o[i] /\ o[i] \in SomeNode
        BY <1>1, <2>0, <2>1, <2>2, <3>1
      <4>2. o[i] = [side |-> o[i].side, price |-> o[i].price, quantity |-> o[i].quantity,
                    level |-> o[i].level, previous |-> o[i].previous, next |-> o[i].next]
        BY <4>1 DEF SomeNode
      <4>3. q[i] = [[[o[i] EXCEPT !.previous = Null] EXCEPT !.next = Null] EXCEPT !.level = Null]
        BY <2>4, <3>1, <4>1
      <4>4. q[i] = [side |-> o[i].side, price |-> o[i].price, quantity |-> o[i].quantity,
                    level |-> Null, previous |-> Null, next |-> Null]
        BY <4>2, <4>3
      <4>5. Bypassed(m, id)[i]
              = [side |-> o[i].side, price |-> o[i].price, quantity |-> o[i].quantity,
                 level |-> Null, previous |-> Null, next |-> Null]
        BY <3>1 DEF Bypassed
      <4> QED
        BY <4>4, <4>5
    <3>2. CASE i = prev /\ i # id
      BY <1>1, <2>0, <2>1, <2>2, <2>4, <3>2 DEF Bypassed, SomeNode
    <3>3. CASE i = next /\ i # id
      <4>1. p[i] = [o[i] EXCEPT !.previous = prev] /\ o[i] \in SomeNode /\ i # prev
        BY <1>1, <2>0, <2>1, <2>2, <3>3
      <4>2. q[i] = [o[i] EXCEPT !.previous = prev]
        BY <2>4, <3>3, <4>1
      <4> QED
        BY <3>3, <4>1, <4>2 DEF Bypassed, SomeNode
    <3>4. CASE i # next /\ i # prev /\ i # id
      BY <1>1, <2>0, <2>1, <2>2, <2>4, <3>4 DEF Bypassed, SomeNode
    <3> QED
      BY <3>1, <3>2, <3>3, <3>4
  <2> QED
    BY <2>4, <2>5 DEF Bypassed
<1>4. Unlink(m, id) = [n EXCEPT
        !.orders = q,
        !.levels[l] = [@ EXCEPT !.head = IF prev = Null THEN next ELSE @,
                                !.tail = IF next = Null THEN prev ELSE @,
                                !.order_count = @ - 1]]
  <2>1. n.orders = o
    BY <1>2
  <2>2. Unlink(m, id) = detach(n, l, id)
    BY DEF Unlink
  <2> HIDE DEF n
  <2> QED
    BY <2>1, <2>2 DEF detach
<1>5. [[L EXCEPT ![l].quantity = @ - o[id].quantity] EXCEPT
         ![l] = [@ EXCEPT !.head = IF prev = Null THEN next ELSE @,
                          !.tail = IF next = Null THEN prev ELSE @,
                          !.order_count = @ - 1]]
        = [L EXCEPT ![l] = Shrunk(m, id)]
  <2>1. L[l] \in PriceLevel
    BY <1>0, <1>1
  <2> DEFINE r == [L[l] EXCEPT !.quantity = @ - o[id].quantity]
  <2>2. [r EXCEPT !.head = IF prev = Null THEN next ELSE @,
                  !.tail = IF next = Null THEN prev ELSE @,
                  !.order_count = @ - 1] = Shrunk(m, id)
    <3>1. L[l] = [quantity |-> L[l].quantity, order_count |-> L[l].order_count,
                  head |-> L[l].head, tail |-> L[l].tail]
      BY <2>1 DEF PriceLevel
    <3>2. r = [quantity |-> L[l].quantity - o[id].quantity, order_count |-> L[l].order_count,
               head |-> L[l].head, tail |-> L[l].tail]
      BY <3>1
    <3> DEFINE H == IF prev = Null THEN next ELSE r.head
               T == IF next = Null THEN prev ELSE r.tail
    <3>3. H = (IF prev = Null THEN next ELSE L[l].head)
          /\ T = (IF next = Null THEN prev ELSE L[l].tail)
      BY <3>2
    <3>4. [r EXCEPT !.head = IF prev = Null THEN next ELSE @,
                    !.tail = IF next = Null THEN prev ELSE @,
                    !.order_count = @ - 1]
            = [r EXCEPT !.head = H, !.tail = T, !.order_count = r.order_count - 1]
      OBVIOUS
    <3>5. Shrunk(m, id) = [quantity |-> L[l].quantity - o[id].quantity,
                           order_count |-> L[l].order_count - 1, head |-> H, tail |-> T]
      BY <3>3 DEF Shrunk
    <3> HIDE DEF r, H, T
    <3> QED
      <4> DEFINE Q == L[l].quantity - o[id].quantity
                 N == L[l].order_count - 1
      <4>1. r = [quantity |-> Q, order_count |-> L[l].order_count,
                 head |-> L[l].head, tail |-> L[l].tail]
        BY <3>2
      <4>2. N = r.order_count - 1
        BY <3>2
      <4>3. Shrunk(m, id) = [quantity |-> Q, order_count |-> N, head |-> H, tail |-> T]
        BY <3>5
      <4> HIDE DEF Q, N
      <4>4. [r EXCEPT !.head = H, !.tail = T, !.order_count = N]
              = [quantity |-> Q, order_count |-> N, head |-> H, tail |-> T]
        <5> DEFINE r1 == [r EXCEPT !.head = H]
                   r2 == [r1 EXCEPT !.tail = T]
                   r3 == [r2 EXCEPT !.order_count = N]
        <5>1. [r EXCEPT !.head = H, !.tail = T, !.order_count = N] = r3
          OBVIOUS
        <5>2. r1 = [quantity |-> Q, order_count |-> L[l].order_count, head |-> H, tail |-> L[l].tail]
          BY <4>1
        <5> HIDE DEF r1
        <5>3. r2 = [quantity |-> Q, order_count |-> L[l].order_count, head |-> H, tail |-> T]
          BY <5>2
        <5> HIDE DEF r2
        <5>4. r3 = [quantity |-> Q, order_count |-> N, head |-> H, tail |-> T]
          BY <5>3
        <5> QED
          BY <5>1, <5>4
      <4> QED
        BY <3>4, <4>2, <4>3, <4>4, Zenon
  <2>3. [L EXCEPT ![l].quantity = @ - o[id].quantity] = [L EXCEPT ![l] = r]
    OBVIOUS
  <2> HIDE DEF r
  <2>4. [[L EXCEPT ![l] = r] EXCEPT
          ![l] = [@ EXCEPT !.head = IF prev = Null THEN next ELSE @,
                           !.tail = IF next = Null THEN prev ELSE @,
                           !.order_count = @ - 1]]
         = [[L EXCEPT ![l] = r] EXCEPT ![l] = Shrunk(m, id)]
    <3>1. [L EXCEPT ![l] = r][l] = r
      BY <1>1
    <3> QED
      BY <2>2, <3>1
  <2>5. [[L EXCEPT ![l] = r] EXCEPT ![l] = Shrunk(m, id)] = [L EXCEPT ![l] = Shrunk(m, id)]
    OBVIOUS
  <2> QED
    BY <2>3, <2>4, <2>5
<1> HIDE DEF q, n
<1>6. /\ n.levels = [L EXCEPT ![l].quantity = @ - o[id].quantity] /\ n.indices = m.indices
      /\ n = [orders |-> n.orders, levels |-> n.levels, indices |-> n.indices]
  BY <1>2
<1>7. Unlink(m, id) = [n EXCEPT !.orders = Bypassed(m, id),
                                !.levels = [L EXCEPT ![l] = Shrunk(m, id)]]
  BY <1>3, <1>4, <1>5, <1>6
<1> QED
  BY <1>6, <1>7

LEMMA BypassedNode ==
  ASSUME NEW m, NEW b, Holds(m, b), NEW id \in DOMAIN b
  PROVE  LET o == m.orders
             u == Bypassed(m, id)
         IN /\ u \in [DOMAIN o -> SomeNode]
            /\ \A i \in DOMAIN o :
                 /\ u[i].side = o[i].side /\ u[i].price = o[i].price
                 /\ u[i].quantity = o[i].quantity
                 /\ i # id => /\ u[i].level = o[i].level
                              /\ u[i].previous = IF i = o[id].next THEN o[id].previous
                                                 ELSE o[i].previous
                              /\ u[i].next = IF i = o[id].previous THEN o[id].next ELSE o[i].next
<1> DEFINE o == m.orders
           u == Bypassed(m, id)
<1>1. o \in [DOMAIN o -> SomeNode] /\ id \in DOMAIN o
  BY Neighbours DEF Holds, IsImpl
<1>2. ASSUME NEW i \in DOMAIN o
      PROVE  u[i] \in SomeNode
  <2>1. o[i] \in SomeNode /\ o[id] \in SomeNode
    BY <1>1
  <2> QED
    BY <2>1 DEF Bypassed, SomeNode
<1>3. \A i \in DOMAIN o :
        /\ u[i].side = o[i].side /\ u[i].price = o[i].price
        /\ u[i].quantity = o[i].quantity
        /\ i # id => /\ u[i].level = o[i].level
                     /\ u[i].previous = IF i = o[id].next THEN o[id].previous
                                        ELSE o[i].previous
                     /\ u[i].next = IF i = o[id].previous THEN o[id].next ELSE o[i].next
  BY DEF Bypassed
<1>4. u \in [DOMAIN o -> SomeNode]
  BY <1>2 DEF Bypassed
<1> QED
  BY <1>3, <1>4

LEMMA UnlinkCounted ==
  ASSUME NEW m, NEW b, Holds(m, b), NEW id \in DOMAIN b
  PROVE  LET L == [m.levels EXCEPT ![m.orders[id].level] = Shrunk(m, id)]
         IN Counted(L, Leave(b, id)) /\ L \in [DOMAIN m.levels -> PriceLevel]
<1> DEFINE o == m.orders
           l == o[id].level
           c == Leave(b, id)
           L == [m.levels EXCEPT ![l] = Shrunk(m, id)]
<1>1. /\ FiniteBook(b) /\ Counted(m.levels, b)
      /\ m.levels \in [DOMAIN m.levels -> PriceLevel]
  BY DEF Holds, IsImpl
<1>2. /\ l \in DOMAIN m.levels /\ id \in Queue(b, l) /\ o[id].quantity = b[id].quantity
  BY DEF Holds, Linked, Agrees, Queue
<1>3. ASSUME NEW k \in DOMAIN m.levels
      PROVE  Shares(c, Queue(c, k)) = Shares(b, Queue(c, k))
  <2>1. IsFiniteSet(Queue(c, k))
    BY <1>1, LeaveBook, QueueFinite
  <2>2. \A i \in Queue(c, k) : c[i].quantity = b[i].quantity
    <3> TAKE i \in Queue(c, k)
    <3>1. i \in DOMAIN b /\ i # id
      BY LeaveDomain DEF Queue
    <3> QED
      BY <1>1, <3>1, LeaveFields
  <2> QED
    BY <2>1, <2>2, SharesSame
<1>4. ASSUME NEW k \in DOMAIN m.levels, k # l
      PROVE  Queue(c, k) = Queue(b, k) /\ L[k] = m.levels[k]
  <2>1. id \notin Queue(b, k)
    BY <1>2, <1>4 DEF Queue
  <2>2. Queue(c, k) = Queue(b, k) \ {id}
    BY LeaveQueue
  <2> QED
    BY <1>4, <2>1, <2>2
<1>5. L[l] = Shrunk(m, id) /\ Queue(c, l) = Queue(b, l) \ {id}
  BY <1>2, LeaveQueue
<1>6. /\ IsFiniteSet(Queue(b, l)) /\ \A i \in Queue(b, l) : b[i].quantity \in Nat
      /\ Cardinality(Queue(b, l)) \in Nat
  BY <1>1, QueueFinite
<1>7. /\ Cardinality(Queue(c, l)) = Cardinality(Queue(b, l)) - 1
      /\ IsFiniteSet(Queue(c, l)) /\ Cardinality(Queue(c, l)) \in Nat
  BY <1>2, <1>5, <1>6, FS_RemoveElement, FS_CardinalityType
<1>8. Shares(b, Queue(c, l)) = Shares(b, Queue(b, l)) - b[id].quantity
  <2>1. \A i \in Queue(b, l) : b[i].quantity \in Int
    BY <1>6
  <2> QED
    BY <1>2, <1>5, <1>6, <2>1, SharesTake
<1>9. /\ m.levels[l].order_count = Cardinality(Queue(b, l))
      /\ m.levels[l].quantity = Shares(b, Queue(b, l))
  BY <1>1, <1>2 DEF Counted
<1>10. Shrunk(m, id).quantity = Shares(c, Queue(c, l))
  BY <1>2, <1>3, <1>8, <1>9 DEF Shrunk
<1>11. Shrunk(m, id).order_count = Cardinality(Queue(c, l))
  BY <1>7, <1>9 DEF Shrunk
<1>12. Counted(L, c)
  <2> HIDE DEF c
  <2>1. ASSUME NEW k \in DOMAIN m.levels
        PROVE  /\ L[k].order_count = Cardinality(Queue(c, k))
               /\ L[k].quantity = Shares(c, Queue(c, k))
    <3>1. CASE k = l
      BY <1>5, <1>10, <1>11, <3>1
    <3>2. CASE k # l
      BY <1>1, <1>3, <1>4, <3>2 DEF Counted
    <3> QED
      BY <3>1, <3>2
  <2> QED
    BY <2>1 DEF Counted
<1>13. Shrunk(m, id) \in PriceLevel
  <2>1. Shares(c, Queue(c, l)) \in Nat
    <3>1. \A i \in Queue(c, l) : b[i].quantity \in Nat
      BY <1>5, <1>6
    <3>2. Shares(b, Queue(c, l)) \in Nat
      BY <1>7, <3>1, SharesType
    <3> QED
      BY <1>2, <1>3, <3>2
  <2>2. Shrunk(m, id).quantity \in Nat /\ Shrunk(m, id).order_count \in Nat
    BY <1>7, <1>10, <1>11, <2>1
  <2>3. m.levels[l] \in PriceLevel /\ o[id] \in SomeNode
    BY <1>1, <1>2, Neighbours DEF Holds, IsImpl
  <2>4. Shrunk(m, id).head \in OrderId \cup {Null} /\ Shrunk(m, id).tail \in OrderId \cup {Null}
    BY <2>3 DEF Shrunk, SomeNode, PriceLevel
  <2> QED
    BY <2>2, <2>4 DEF Shrunk, PriceLevel
<1> QED
  BY <1>1, <1>12, <1>13

\* The links around a node that has left the list.
LEMMA UnlinkLinked ==
  ASSUME NEW m, NEW b, Holds(m, b), NEW id \in DOMAIN b
  PROVE  Linked(Bypassed(m, id), [m.levels EXCEPT ![m.orders[id].level] = Shrunk(m, id)],
                Leave(b, id))
<1> DEFINE o == m.orders
           l == o[id].level
           prev == o[id].previous
           next == o[id].next
           c == Leave(b, id)
           u == Bypassed(m, id)
           L == [m.levels EXCEPT ![l] = Shrunk(m, id)]
<1>1. /\ DOMAIN b \subseteq DOMAIN o /\ Null \notin DOMAIN o
      /\ l \in DOMAIN m.levels
      /\ prev # Null => /\ prev \in DOMAIN b /\ prev # id /\ o[prev].next = id /\ o[prev].level = l
                        /\ b[id].ahead = b[prev].ahead \cup {prev} /\ prev \notin b[prev].ahead
      /\ next # Null => /\ next \in DOMAIN b /\ next # id /\ o[next].previous = id /\ o[next].level = l
                        /\ b[next].ahead = b[id].ahead \cup {id}
      /\ prev # Null => prev # next
  BY Neighbours
<1>2. /\ DOMAIN c = DOMAIN b \ {id} /\ DOMAIN u = DOMAIN o /\ DOMAIN L = DOMAIN m.levels
      /\ \A k : Queue(c, k) = Queue(b, k) \ {id}
  BY LeaveDomain, LeaveQueue DEF Bypassed
<1>3. ASSUME NEW i \in DOMAIN c
      PROVE  /\ i \in DOMAIN b /\ i \in DOMAIN o /\ i # id
             /\ c[i].side = b[i].side /\ c[i].price = b[i].price
             /\ c[i].quantity = b[i].quantity /\ c[i].ahead = b[i].ahead \ {id}
             /\ u[i].side = o[i].side /\ u[i].price = o[i].price /\ u[i].quantity = o[i].quantity
             /\ u[i].level = o[i].level
             /\ u[i].previous = IF i = next THEN prev ELSE o[i].previous
             /\ u[i].next = IF i = prev THEN next ELSE o[i].next
  <2>1. i \in DOMAIN b /\ i \in DOMAIN o /\ i # id
    BY <1>1, <1>2
  <2>2. FiniteBook(b)
    BY DEF Holds
  <2>3. /\ c[i].side = b[i].side /\ c[i].price = b[i].price
        /\ c[i].quantity = b[i].quantity /\ c[i].ahead = b[i].ahead \ {id}
    BY <2>1, <2>2, LeaveFields
  <2>4. /\ u[i].side = o[i].side /\ u[i].price = o[i].price /\ u[i].quantity = o[i].quantity
        /\ u[i].level = o[i].level
        /\ u[i].previous = IF i = next THEN prev ELSE o[i].previous
        /\ u[i].next = IF i = prev THEN next ELSE o[i].next
    BY <2>1, BypassedNode
  <2> QED
    BY <2>1, <2>3, <2>4
<1>4. /\ L[l].head = IF prev = Null THEN next ELSE m.levels[l].head
      /\ L[l].tail = IF next = Null THEN prev ELSE m.levels[l].tail
      /\ \A k \in DOMAIN m.levels : k # l => L[k] = m.levels[k]
  BY <1>1 DEF Shrunk
<1>5. /\ \A i \in DOMAIN b : /\ Agrees(o, m.levels, b, i) /\ Before(o, m.levels, b, i)
                             /\ After(o, m.levels, b, i)
      /\ \A k \in DOMAIN m.levels : Ends(o, m.levels, b, k)
  BY DEF Holds, Linked
<1> HIDE DEF c, u, L
<1>6. ASSUME NEW i \in DOMAIN c
      PROVE  Agrees(u, L, c, i)
  BY <1>2, <1>3, <1>5 DEF Agrees
<1>7. ASSUME NEW i \in DOMAIN c
      PROVE  Before(u, L, c, i)
  <2>1. Before(o, m.levels, b, i) /\ Before(o, m.levels, b, id) /\ o[i].level \in DOMAIN m.levels
    BY <1>3, <1>5 DEF Agrees
  <2>2. CASE i = next
    <3>1. u[i].previous = prev /\ u[i].level = l /\ b[i].ahead = b[id].ahead \cup {id}
          /\ id \notin b[id].ahead
      BY <1>1, <1>3, <1>5, <2>2 DEF Agrees
    <3>2. CASE prev = Null
      <4>1. b[id].ahead = {} /\ c[i].ahead = {} /\ L[l].head = i
        BY <1>3, <1>4, <2>1, <2>2, <3>1, <3>2 DEF Before
      <4> QED
        BY <3>1, <3>2, <4>1 DEF Before
    <3>3. CASE prev # Null
      <4>1. prev \in DOMAIN c /\ u[prev].next = next /\ prev \in Queue(b, l)
        <5>1. prev \in DOMAIN c
          BY <1>1, <1>2, <3>3
        <5> QED
          BY <1>3, <2>1, <3>3, <5>1 DEF Before
      <4>2. c[i].ahead = c[prev].ahead \cup {prev}
        BY <1>1, <1>3, <3>1, <3>3, <4>1
      <4> QED
        BY <1>1, <1>2, <2>2, <3>1, <3>3, <4>1, <4>2 DEF Before
    <3> QED
      BY <3>2, <3>3
  <2>3. CASE i # next
    <3>1. u[i].previous = o[i].previous /\ u[i].level = o[i].level
      BY <1>3, <2>3
    <3>2. CASE o[i].previous = Null
      <4>1. b[i].ahead = {} /\ m.levels[o[i].level].head = i
        BY <2>1, <3>2 DEF Before
      <4>2. o[i].level = l => prev # Null
        BY <1>3, <2>1, <4>1 DEF Before
      <4>3. L[o[i].level].head = i
        BY <1>4, <2>1, <4>1, <4>2
      <4> QED
        BY <1>3, <3>1, <3>2, <4>1, <4>3 DEF Before
    <3>3. CASE o[i].previous # Null
      <4> DEFINE j == o[i].previous
      <4>1. j \in Queue(b, o[i].level) /\ o[j].next = i /\ b[i].ahead = b[j].ahead \cup {j}
        BY <2>1, <3>3 DEF Before
      <4>2. j # id
        BY <1>3, <2>3, <4>1
      <4>3. j \in DOMAIN c /\ j \in Queue(c, o[i].level)
        <5>1. j \in DOMAIN b
          BY <4>1 DEF Queue
        <5> HIDE DEF j
        <5> QED
          BY <1>2, <4>1, <4>2, <5>1
      <4>4. u[j].next = i
        BY <1>1, <1>3, <4>1, <4>3
      <4>5. c[i].ahead = c[j].ahead \cup {j}
        BY <1>3, <4>1, <4>2, <4>3
      <4> QED
        BY <3>1, <3>3, <4>3, <4>4, <4>5 DEF Before
    <3> QED
      BY <3>2, <3>3
  <2> QED
    BY <2>2, <2>3
<1>8. ASSUME NEW i \in DOMAIN c
      PROVE  After(u, L, c, i)
  <2>1. After(o, m.levels, b, i) /\ After(o, m.levels, b, id) /\ o[i].level \in DOMAIN m.levels
    BY <1>3, <1>5 DEF Agrees
  <2>2. CASE i = prev
    <3>1. u[i].next = next /\ u[i].level = l /\ b[id].ahead = b[i].ahead \cup {i}
          /\ id \notin b[id].ahead /\ prev # Null
      BY <1>1, <1>3, <1>5, <2>2 DEF Agrees
    <3>2. CASE next = Null
      <4>1. b[id].ahead \cup {id} = Queue(b, l) /\ L[l].tail = i
        BY <1>4, <2>1, <2>2, <3>2 DEF After
      <4>2. c[i].ahead \cup {i} = Queue(c, l)
        BY <1>2, <1>3, <3>1, <4>1
      <4> QED
        BY <3>1, <3>2, <4>1, <4>2 DEF After
    <3>3. CASE next # Null
      <4>1. next \in DOMAIN c /\ u[next].previous = prev /\ next \in Queue(b, l)
        <5>1. next \in DOMAIN c
          BY <1>1, <1>2, <3>3
        <5> QED
          BY <1>3, <2>1, <3>3, <5>1 DEF After
      <4> QED
        BY <1>1, <1>2, <2>2, <3>1, <3>3, <4>1 DEF After
    <3> QED
      BY <3>2, <3>3
  <2>3. CASE i # prev
    <3>1. u[i].next = o[i].next /\ u[i].level = o[i].level
      BY <1>3, <2>3
    <3>2. CASE o[i].next = Null
      <4>1. b[i].ahead \cup {i} = Queue(b, o[i].level) /\ m.levels[o[i].level].tail = i
        BY <2>1, <3>2 DEF After
      <4>2. o[i].level = l => next # Null
        BY <1>3, <2>1, <4>1 DEF After
      <4>3. L[o[i].level].tail = i
        BY <1>4, <2>1, <4>1, <4>2
      <4>4. c[i].ahead \cup {i} = Queue(c, o[i].level)
        BY <1>2, <1>3, <4>1
      <4> QED
        BY <3>1, <3>2, <4>3, <4>4 DEF After
    <3>3. CASE o[i].next # Null
      <4> DEFINE j == o[i].next
      <4>1. j \in Queue(b, o[i].level) /\ o[j].previous = i
        BY <2>1, <3>3 DEF After
      <4>2. j # id
        BY <1>3, <2>3, <4>1
      <4>3. j \in DOMAIN c /\ j \in Queue(c, o[i].level)
        <5>1. j \in DOMAIN b
          BY <4>1 DEF Queue
        <5> HIDE DEF j
        <5> QED
          BY <1>2, <4>1, <4>2, <5>1
      <4>4. u[j].previous = i
        BY <1>1, <1>3, <4>1, <4>3
      <4> QED
        BY <3>1, <3>3, <4>3, <4>4 DEF After
    <3> QED
      BY <3>2, <3>3
  <2> QED
    BY <2>2, <2>3
<1>9. ASSUME NEW k \in DOMAIN L
      PROVE  Ends(u, L, c, k)
  <2>1. k \in DOMAIN m.levels /\ Ends(o, m.levels, b, k)
    BY <1>2, <1>5
  <2>2. id \in Queue(b, l) /\ \A i \in Queue(b, k) : i \in DOMAIN b /\ o[i].level = k
    BY <1>5 DEF Queue, Agrees
  <2>3. CASE k # l
    <3>1. L[k] = m.levels[k] /\ Queue(c, k) = Queue(b, k)
      <4>1. id \notin Queue(b, k)
        BY <2>2, <2>3
      <4> QED
        BY <1>2, <1>4, <2>1, <2>3, <4>1
    <3>2. ASSUME NEW i \in Queue(c, k)
          PROVE  u[i].previous = o[i].previous /\ u[i].next = o[i].next
      <4>1. i \in DOMAIN c /\ o[i].level = k /\ i # Null
        BY <1>1, <2>2, <3>1, <3>2 DEF Queue
      <4> QED
        BY <1>1, <1>3, <2>3, <4>1
    <3> QED
      BY <2>1, <3>1, <3>2 DEF Ends
  <2>4. CASE k = l
    <3>1. /\ Before(o, m.levels, b, id) /\ After(o, m.levels, b, id)
          /\ Before(u, L, c, next) \/ next \notin DOMAIN c
      BY <1>5, <1>7
    <3>2. IF L[l].head = Null THEN Queue(c, l) = {}
          ELSE L[l].head \in Queue(c, l) /\ u[L[l].head].previous = Null
      <4>1. CASE prev = Null /\ next = Null
        BY <1>2, <1>4, <3>1, <4>1 DEF Before, After
      <4>2. CASE prev = Null /\ next # Null
        <5>1. next \in Queue(c, l) /\ next \in DOMAIN c
          BY <1>1, <1>2, <3>1, <4>2 DEF After
        <5>2. u[next].previous = Null
          BY <1>3, <4>2, <5>1
        <5> QED
          BY <1>4, <4>2, <5>1, <5>2
      <4>3. CASE prev # Null
        <5> DEFINE h == m.levels[l].head
        <5>1. h # Null /\ h \in Queue(b, l) /\ o[h].previous = Null
          BY <2>1, <2>2, <2>4 DEF Ends
        <5>2. h # id /\ h # next
          <6>1. id # Null
            BY <1>1
          <6>2. next # Null => o[next].previous = id
            BY <1>1
          <6> QED
            BY <4>3, <5>1, <6>1, <6>2
        <5>3. h \in Queue(c, l) /\ h \in DOMAIN c
          <6>1. h \in DOMAIN b
            BY <5>1 DEF Queue
          <6> HIDE DEF h
          <6> QED
            BY <1>2, <5>1, <5>2, <6>1
        <5>4. u[h].previous = Null
          BY <1>3, <5>1, <5>2, <5>3
        <5> QED
          BY <1>4, <4>3, <5>1, <5>3, <5>4
      <4> QED
        BY <4>1, <4>2, <4>3
    <3>3. IF L[l].tail = Null THEN Queue(c, l) = {}
          ELSE L[l].tail \in Queue(c, l) /\ u[L[l].tail].next = Null
      <4>1. CASE next = Null /\ prev = Null
        BY <1>2, <1>4, <3>1, <4>1 DEF Before, After
      <4>2. CASE next = Null /\ prev # Null
        <5>1. prev \in Queue(c, l) /\ prev \in DOMAIN c
          BY <1>1, <1>2, <3>1, <4>2 DEF Before
        <5>2. u[prev].next = Null
          BY <1>3, <4>2, <5>1
        <5> QED
          BY <1>4, <4>2, <5>1, <5>2
      <4>3. CASE next # Null
        <5> DEFINE h == m.levels[l].tail
        <5>1. h # Null /\ h \in Queue(b, l) /\ o[h].next = Null
          BY <2>1, <2>2, <2>4 DEF Ends
        <5>2. h # id /\ h # prev
          <6>1. id # Null
            BY <1>1
          <6>2. prev # Null => o[prev].next = id
            BY <1>1
          <6> QED
            BY <4>3, <5>1, <6>1, <6>2
        <5>3. h \in Queue(c, l) /\ h \in DOMAIN c
          <6>1. h \in DOMAIN b
            BY <5>1 DEF Queue
          <6> HIDE DEF h
          <6> QED
            BY <1>2, <5>1, <5>2, <6>1
        <5>4. u[h].next = Null
          BY <1>3, <5>1, <5>2, <5>3
        <5> QED
          BY <1>4, <4>3, <5>1, <5>3, <5>4
      <4> QED
        BY <4>1, <4>2, <4>3
    <3> QED
      BY <2>4, <3>2, <3>3 DEF Ends
  <2> QED
    BY <2>3, <2>4
<1>10. DOMAIN c \subseteq DOMAIN u
  BY <1>1, <1>2
<1> QED
  BY <1>6, <1>7, <1>8, <1>9, <1>10 DEF Linked, c, u, L

\* A node that has left its list: the lists hold the book without it.
LEMMA UnlinkHolds ==
  ASSUME NEW m, NEW b, Holds(m, b), NEW id \in DOMAIN b
  PROVE  Holds(Unlink(m, id), Leave(b, id))
<1> DEFINE o == m.orders
           l == o[id].level
           u == Unlink(m, id)
           L == [m.levels EXCEPT ![l] = Shrunk(m, id)]
<1>1. u = [orders |-> Bypassed(m, id), levels |-> L, indices |-> m.indices]
  BY UnlinkIs
<1>2. L \in [DOMAIN m.levels -> PriceLevel] /\ Counted(L, Leave(b, id))
  BY UnlinkCounted
<1>3. Bypassed(m, id) \in [DOMAIN o -> SomeNode]
  BY BypassedNode
<1>4. Linked(Bypassed(m, id), L, Leave(b, id))
  BY UnlinkLinked
<1>5. FiniteBook(Leave(b, id))
  BY LeaveBook DEF Holds
<1> HIDE DEF L, u
<1>6. u.orders = Bypassed(m, id) /\ u.levels = L /\ u.indices = m.indices
  BY <1>1
<1>7. IsImpl(u)
  BY <1>1, <1>2, <1>3, <1>6 DEF Holds, IsImpl
<1> QED
  BY <1>2, <1>4, <1>5, <1>6, <1>7 DEF Holds, u

-----------------------------------------------------------------------------
(* Putting a node at the tail of a list.                                   *)

\* The level l with the node id.
Grown(m, l, id) ==
  LET L == m.levels[l]
  IN [quantity |-> L.quantity + m.orders[id].quantity, order_count |-> L.order_count + 1,
      head |-> IF L.tail = Null THEN id ELSE L.head, tail |-> id]

\* id at the tail of l, and its predecessor.
Chained(m, l, id) ==
  LET o == m.orders
      t == m.levels[l].tail
  IN [i \in DOMAIN o |->
        [side |-> o[i].side, price |-> o[i].price, quantity |-> o[i].quantity,
         level |-> IF i = id THEN l ELSE o[i].level,
         previous |-> IF i = id THEN t ELSE o[i].previous,
         next |-> IF i = id THEN Null ELSE IF i = t THEN id ELSE o[i].next]]

\* id may be appended to l: a node in no list, and the level it names.
Loose(m, b, l, id) ==
  /\ id \in DOMAIN m.orders /\ id \notin DOMAIN b
  /\ l = <<m.orders[id].side, m.orders[id].price>> /\ l \in DOMAIN m.levels

LEMMA LevelTail ==
  ASSUME NEW m, NEW b, Holds(m, b), NEW l \in DOMAIN m.levels
  PROVE  LET o == m.orders
             t == m.levels[l].tail
         IN /\ t = Null => Queue(b, l) = {}
            /\ t # Null => /\ t \in DOMAIN b /\ t \in DOMAIN o /\ t \in Queue(b, l)
                           /\ o[t].next = Null /\ o[t].level = l
                           /\ Queue(b, l) = b[t].ahead \cup {t}
<1> DEFINE o == m.orders
           t == m.levels[l].tail
<1>1. Ends(o, m.levels, b, l) /\ DOMAIN b \subseteq DOMAIN o
  BY DEF Holds, Linked
<1>2. CASE t = Null
  BY <1>1, <1>2 DEF Ends
<1>3. CASE t # Null
  <2>1. t \in Queue(b, l) /\ o[t].next = Null
    BY <1>1, <1>3 DEF Ends
  <2>2. t \in DOMAIN b /\ <<b[t].side, b[t].price>> = l
    BY <2>1 DEF Queue
  <2>3. Agrees(o, m.levels, b, t) /\ After(o, m.levels, b, t)
    BY <2>2 DEF Holds, Linked
  <2>4. o[t].level = l
    BY <2>2, <2>3 DEF Agrees
  <2>5. Queue(b, l) = b[t].ahead \cup {t}
    BY <2>1, <2>3, <2>4 DEF After
  <2> QED
    BY <1>1, <1>3, <2>1, <2>2, <2>4, <2>5
<1> QED
  BY <1>2, <1>3

LEMMA AppendIs ==
  ASSUME NEW m, NEW b, Holds(m, b), NEW l, NEW id, Loose(m, b, l, id)
  PROVE  append(m, l, id) = [orders |-> Chained(m, l, id),
                             levels |-> [m.levels EXCEPT ![l] = Grown(m, l, id)],
                             indices |-> m.indices]
<1> DEFINE o == m.orders
           L == m.levels
           t == L[l].tail
           q == [o EXCEPT ![id].level = l, ![id].previous = t, ![id].next = Null]
           p == SetNext(q, t, id)
<1>0. /\ m = [orders |-> o, levels |-> L, indices |-> m.indices]
      /\ o \in [DOMAIN o -> SomeNode] /\ L \in [DOMAIN L -> PriceLevel]
  BY DEF Holds, IsImpl
<1>1. /\ id \in DOMAIN o /\ l \in DOMAIN L /\ t # id
      /\ t # Null => t \in DOMAIN o
  <2>1. id \in DOMAIN o /\ l \in DOMAIN L /\ id \notin DOMAIN b
    BY DEF Loose
  <2>2. id # Null
    BY <2>1, NullAssumption DEF Holds, IsImpl
  <2>3. t # Null => t \in DOMAIN b /\ t \in DOMAIN o
    BY <2>1, LevelTail
  <2> HIDE DEF t
  <2> QED
    BY <2>1, <2>2, <2>3
<1>2. q = [i \in DOMAIN o |->
             IF i = id
             THEN [[[o[i] EXCEPT !.level = l] EXCEPT !.previous = t] EXCEPT !.next = Null]
             ELSE o[i]]
  BY <1>0, <1>1
<1>3. q[id] = [side |-> o[id].side, price |-> o[id].price, quantity |-> o[id].quantity,
               level |-> l, previous |-> t, next |-> Null]
  <2>1. o[id] = [side |-> o[id].side, price |-> o[id].price, quantity |-> o[id].quantity,
                 level |-> o[id].level, previous |-> o[id].previous, next |-> o[id].next]
    BY <1>0, <1>1 DEF SomeNode
  <2>2. q[id] = [[[o[id] EXCEPT !.level = l] EXCEPT !.previous = t] EXCEPT !.next = Null]
    BY <1>1, <1>2
  <2> HIDE DEF q
  <2> QED
    BY <2>1, <2>2
<1>4. \A i \in DOMAIN o : i # id => q[i] = o[i]
  BY <1>2
<1>5. q[id].quantity = o[id].quantity /\ DOMAIN q = DOMAIN o
  <2>1. q[id].quantity = o[id].quantity
    <3> HIDE DEF q
    <3> QED
      BY <1>3
  <2> QED
    BY <1>2, <2>1
<1>6. p = Chained(m, l, id)
  <2>1. q = [i \in DOMAIN o |-> q[i]]
    BY <1>2
  <2> HIDE DEF q
  <2>2. p = [i \in DOMAIN o |-> IF i = t THEN [q[i] EXCEPT !.next = id] ELSE q[i]]
    <3>1. CASE t = Null
      BY <1>1, <2>1, <3>1, NullAssumption DEF SetNext, Holds, IsImpl
    <3>2. CASE t # Null
      BY <1>1, <2>1, <3>2 DEF SetNext
    <3> QED
      BY <3>1, <3>2
  <2> HIDE DEF p
  <2>3. ASSUME NEW i \in DOMAIN o
        PROVE  p[i] = Chained(m, l, id)[i]
    <3>0. o[i] = [side |-> o[i].side, price |-> o[i].price, quantity |-> o[i].quantity,
                  level |-> o[i].level, previous |-> o[i].previous, next |-> o[i].next]
      BY <1>0 DEF SomeNode
    <3>1. CASE i = id
      BY <1>1, <1>3, <2>2, <3>1 DEF Chained
    <3>2. CASE i = t
      <4>1. p[i] = [o[i] EXCEPT !.next = id]
        BY <1>1, <1>4, <2>2, <3>2
      <4> QED
        BY <1>1, <3>0, <3>2, <4>1 DEF Chained
    <3>3. CASE i # t /\ i # id
      <4>1. p[i] = o[i]
        BY <1>4, <2>2, <3>3
      <4> QED
        BY <3>0, <3>3, <4>1 DEF Chained
    <3> QED
      BY <3>1, <3>2, <3>3
  <2> QED
    BY <2>2, <2>3 DEF Chained
<1>7. [L EXCEPT ![l] = [quantity |-> @.quantity + q[id].quantity, order_count |-> @.order_count + 1,
                        head |-> IF t = Null THEN id ELSE @.head, tail |-> id]]
        = [L EXCEPT ![l] = Grown(m, l, id)]
  BY <1>5 DEF Grown
<1>8. append(m, l, id) =
        [m EXCEPT !.orders = p,
                  !.levels[l] = [quantity |-> @.quantity + q[id].quantity,
                                 order_count |-> @.order_count + 1,
                                 head |-> IF t = Null THEN id ELSE @.head, tail |-> id]]
  BY DEF append
<1>9. append(m, l, id) = [m EXCEPT !.orders = p, !.levels = [L EXCEPT ![l] = Grown(m, l, id)]]
  <2> HIDE DEF p, q
  <2> QED
    BY <1>0, <1>7, <1>8
<1> HIDE DEF p, q
<1> QED
  BY <1>0, <1>6, <1>9

LEMMA ChainedNode ==
  ASSUME NEW m, NEW b, Holds(m, b), NEW l, NEW id, Loose(m, b, l, id)
  PROVE  LET o == m.orders
             t == m.levels[l].tail
             u == Chained(m, l, id)
         IN /\ u \in [DOMAIN o -> SomeNode]
            /\ u[id].level = l /\ u[id].previous = t /\ u[id].next = Null
            /\ u[id].side = o[id].side /\ u[id].price = o[id].price
            /\ u[id].quantity = o[id].quantity
            /\ \A i \in DOMAIN o : i # id =>
                 /\ u[i].side = o[i].side /\ u[i].price = o[i].price
                 /\ u[i].quantity = o[i].quantity /\ u[i].level = o[i].level
                 /\ u[i].previous = o[i].previous
                 /\ u[i].next = IF i = t THEN id ELSE o[i].next
<1> DEFINE o == m.orders
           t == m.levels[l].tail
           u == Chained(m, l, id)
<1>1. o \in [DOMAIN o -> SomeNode] /\ id \in DOMAIN o /\ id \in OrderId
  BY DEF Holds, IsImpl, Loose
<1>2. t \in OrderId \cup {Null} /\ l \in LevelKey
  <2>1. l \in DOMAIN m.levels
    BY DEF Loose
  <2>2. m.levels[l] \in PriceLevel
    BY <2>1 DEF Holds, IsImpl
  <2> QED
    BY <2>1, <2>2 DEF Holds, IsImpl, PriceLevel
<1>3. ASSUME NEW i \in DOMAIN o
      PROVE  u[i] \in SomeNode
  <2>1. o[i] \in SomeNode
    BY <1>1
  <2> HIDE DEF t
  <2>2. u[i] = [side |-> o[i].side, price |-> o[i].price, quantity |-> o[i].quantity,
                level |-> IF i = id THEN l ELSE o[i].level,
                previous |-> IF i = id THEN t ELSE o[i].previous,
                next |-> IF i = id THEN Null ELSE IF i = t THEN id ELSE o[i].next]
    BY DEF Chained, t
  <2> HIDE DEF u
  <2> QED
    BY <1>1, <1>2, <2>1, <2>2 DEF SomeNode
<1>4. u \in [DOMAIN o -> SomeNode]
  BY <1>3 DEF Chained
<1>5. /\ u[id].level = l /\ u[id].previous = t /\ u[id].next = Null
      /\ u[id].side = o[id].side /\ u[id].price = o[id].price
      /\ u[id].quantity = o[id].quantity
  BY <1>1 DEF Chained
<1>6. \A i \in DOMAIN o : i # id =>
         /\ u[i].side = o[i].side /\ u[i].price = o[i].price
         /\ u[i].quantity = o[i].quantity /\ u[i].level = o[i].level
         /\ u[i].previous = o[i].previous
         /\ u[i].next = IF i = t THEN id ELSE o[i].next
  BY DEF Chained
<1> QED
  BY <1>4, <1>5, <1>6

\* The book after an append.
Appended(m, b, id) ==
  PushBack(b, id, m.orders[id].side, m.orders[id].price, m.orders[id].quantity)

IsAppended(c, b, o, l, id) ==
  /\ FiniteBook(c) /\ DOMAIN c = DOMAIN b \cup {id}
  /\ c[id].side = o[id].side /\ c[id].price = o[id].price
  /\ c[id].quantity = o[id].quantity /\ c[id].ahead = Queue(b, l)
  /\ \A i \in DOMAIN b : c[i] = b[i] /\ i # id
  /\ Queue(c, l) = Queue(b, l) \cup {id}
  /\ \A k : k # l => Queue(c, k) = Queue(b, k)
  /\ id \notin Queue(b, l)

LEMMA AppendedFields ==
  ASSUME NEW m, NEW b, Holds(m, b), NEW l, NEW id, Loose(m, b, l, id)
  PROVE  IsAppended(Appended(m, b, id), b, m.orders, l, id)
<1> DEFINE c == Appended(m, b, id)
           o == m.orders
<1>1. /\ id \in DOMAIN o /\ id \notin DOMAIN b /\ l = <<o[id].side, o[id].price>>
      /\ o[id] \in SomeNode /\ id \in OrderId /\ FiniteBook(b)
  BY DEF Holds, IsImpl, Loose
<1>2. o[id].side \in Side /\ o[id].price \in Price /\ o[id].quantity \in Nat \ {0}
  BY <1>1 DEF SomeNode
<1>3. FiniteBook(c)
  BY <1>1, <1>2, PushBackBook DEF Appended
<1>4. DOMAIN c = DOMAIN b \cup {id}
  BY DEF Appended, PushBack
<1>5. /\ c[id].side = o[id].side /\ c[id].price = o[id].price
      /\ c[id].quantity = o[id].quantity /\ c[id].ahead = Level(b, o[id].side, o[id].price)
      /\ \A i \in DOMAIN b : i # id => c[i] = b[i]
  BY DEF Appended, PushBack
<1>6. Level(b, o[id].side, o[id].price) = Queue(b, l)
  BY <1>1, QueueLevel
<1>7. \A k : Queue(c, k) = IF k = l THEN Queue(b, k) \cup {id} ELSE Queue(b, k)
  BY <1>1, PushBackQueue DEF Appended
<1>8. id \notin Queue(b, l)
  BY <1>1 DEF Queue
<1> HIDE DEF c
<1> QED
  BY <1>1, <1>3, <1>4, <1>5, <1>6, <1>7, <1>8 DEF c, IsAppended

LEMMA AppendCounted ==
  ASSUME NEW m, NEW b, Holds(m, b), NEW l, NEW id, Loose(m, b, l, id)
  PROVE  LET L == [m.levels EXCEPT ![l] = Grown(m, l, id)]
         IN Counted(L, Appended(m, b, id)) /\ L \in [DOMAIN m.levels -> PriceLevel]
<1> DEFINE o == m.orders
           c == Appended(m, b, id)
           L == [m.levels EXCEPT ![l] = Grown(m, l, id)]
<1>1. /\ FiniteBook(b) /\ Counted(m.levels, b)
      /\ m.levels \in [DOMAIN m.levels -> PriceLevel]
      /\ l \in DOMAIN m.levels /\ id \in OrderId
  BY DEF Holds, IsImpl, Loose
<1>2. /\ FiniteBook(c) /\ DOMAIN c = DOMAIN b \cup {id}
      /\ c[id].quantity = o[id].quantity
      /\ \A i \in DOMAIN b : c[i] = b[i] /\ i # id
      /\ Queue(c, l) = Queue(b, l) \cup {id}
      /\ \A k : k # l => Queue(c, k) = Queue(b, k)
      /\ id \notin Queue(b, l)
  <2>1. IsAppended(c, b, o, l, id)
    BY AppendedFields
  <2> QED
    BY <2>1 DEF IsAppended
<1> HIDE DEF c
<1>3. ASSUME NEW k \in DOMAIN m.levels
      PROVE  Shares(c, Queue(b, k)) = Shares(b, Queue(b, k))
  <2>1. IsFiniteSet(Queue(b, k))
    BY <1>1, QueueFinite
  <2>2. \A i \in Queue(b, k) : c[i].quantity = b[i].quantity
    BY <1>2 DEF Queue
  <2> QED
    BY <2>1, <2>2, SharesSame
<1>4. /\ IsFiniteSet(Queue(c, l)) /\ \A i \in Queue(c, l) : c[i].quantity \in Nat
      /\ Cardinality(Queue(c, l)) \in Nat
      /\ IsFiniteSet(Queue(b, l)) /\ Cardinality(Queue(b, l)) \in Nat
  BY <1>1, <1>2, QueueFinite
<1>5. Cardinality(Queue(c, l)) = Cardinality(Queue(b, l)) + 1
  BY <1>2, <1>4, FS_AddElement
<1>6. Shares(c, Queue(b, l)) = Shares(c, Queue(c, l)) - c[id].quantity
  <2>1. \A i \in Queue(c, l) : c[i].quantity \in Int
    BY <1>4
  <2>2. Queue(b, l) = Queue(c, l) \ {id} /\ id \in Queue(c, l)
    BY <1>2
  <2> QED
    BY <1>4, <2>1, <2>2, SharesTake
<1>7. Shares(c, Queue(c, l)) \in Nat /\ c[id].quantity \in Nat
  <2>1. id \in Queue(c, l)
    BY <1>2
  <2> QED
    BY <1>4, <2>1, SharesType
<1>8. /\ m.levels[l].order_count = Cardinality(Queue(b, l))
      /\ m.levels[l].quantity = Shares(b, Queue(b, l))
  BY <1>1 DEF Counted
<1>9. Grown(m, l, id).quantity = Shares(c, Queue(c, l))
  <2>1. Grown(m, l, id).quantity = m.levels[l].quantity + o[id].quantity
    BY DEF Grown
  <2> QED
    BY <1>1, <1>2, <1>3, <1>6, <1>7, <1>8, <2>1
<1>10. Grown(m, l, id).order_count = Cardinality(Queue(c, l))
  BY <1>5, <1>8 DEF Grown
<1>11. L[l] = Grown(m, l, id) /\ \A k \in DOMAIN m.levels : k # l => L[k] = m.levels[k]
  BY <1>1
<1>12. Grown(m, l, id) \in PriceLevel
  <2>1. m.levels[l] \in PriceLevel
    BY <1>1
  <2>2. Grown(m, l, id).quantity \in Nat /\ Grown(m, l, id).order_count \in Nat
    BY <1>4, <1>7, <1>9, <1>10
  <2>3. Grown(m, l, id).head \in OrderId \cup {Null} /\ Grown(m, l, id).tail \in OrderId \cup {Null}
    BY <1>1, <2>1 DEF Grown, PriceLevel
  <2> QED
    BY <2>2, <2>3 DEF Grown, PriceLevel
<1>13. Counted(L, c)
  <2>1. ASSUME NEW k \in DOMAIN m.levels
        PROVE  /\ L[k].order_count = Cardinality(Queue(c, k))
               /\ L[k].quantity = Shares(c, Queue(c, k))
    <3>1. CASE k = l
      BY <1>9, <1>10, <1>11, <3>1
    <3>2. CASE k # l
      <4>1. Queue(c, k) = Queue(b, k) /\ L[k] = m.levels[k]
        BY <1>2, <1>11, <3>2
      <4> QED
        BY <1>1, <1>3, <4>1 DEF Counted
    <3> QED
      BY <3>1, <3>2
  <2> QED
    BY <2>1 DEF Counted
<1> QED
  BY <1>1, <1>12, <1>13 DEF c

\* The links around a node that has come to the tail.
LEMMA AppendLinked ==
  ASSUME NEW m, NEW b, Holds(m, b), NEW l, NEW id, Loose(m, b, l, id)
  PROVE  Linked(Chained(m, l, id), [m.levels EXCEPT ![l] = Grown(m, l, id)],
                Appended(m, b, id))
<1> DEFINE o == m.orders
           t == m.levels[l].tail
           c == Appended(m, b, id)
           u == Chained(m, l, id)
           L == [m.levels EXCEPT ![l] = Grown(m, l, id)]
<1>1. /\ DOMAIN b \subseteq DOMAIN o /\ Null \notin DOMAIN o
      /\ id \in DOMAIN o /\ id \notin DOMAIN b /\ l \in DOMAIN m.levels
      /\ l = <<o[id].side, o[id].price>>
  BY NullAssumption DEF Holds, Linked, IsImpl, Loose
<1>2. /\ DOMAIN c = DOMAIN b \cup {id}
      /\ c[id].side = o[id].side /\ c[id].price = o[id].price
      /\ c[id].quantity = o[id].quantity /\ c[id].ahead = Queue(b, l)
      /\ \A i \in DOMAIN b : c[i] = b[i] /\ i # id
      /\ Queue(c, l) = Queue(b, l) \cup {id}
      /\ \A k : k # l => Queue(c, k) = Queue(b, k)
      /\ id \notin Queue(b, l)
  <2>1. IsAppended(c, b, o, l, id)
    BY AppendedFields
  <2> QED
    BY <2>1 DEF IsAppended
<1>3. /\ t = Null => Queue(b, l) = {}
      /\ t # Null => /\ t \in DOMAIN b /\ t \in DOMAIN o /\ t \in Queue(b, l)
                     /\ o[t].next = Null /\ o[t].level = l
                     /\ Queue(b, l) = b[t].ahead \cup {t}
  BY <1>1, LevelTail
<1>4. /\ DOMAIN u = DOMAIN o
      /\ u[id].level = l /\ u[id].previous = t /\ u[id].next = Null
      /\ u[id].side = o[id].side /\ u[id].price = o[id].price
      /\ u[id].quantity = o[id].quantity
      /\ \A i \in DOMAIN b :
           /\ u[i].side = o[i].side /\ u[i].price = o[i].price
           /\ u[i].quantity = o[i].quantity /\ u[i].level = o[i].level
           /\ u[i].previous = o[i].previous
           /\ u[i].next = IF i = t THEN id ELSE o[i].next
  BY <1>1, ChainedNode DEF Chained
<1>5. /\ DOMAIN L = DOMAIN m.levels
      /\ L[l].head = IF t = Null THEN id ELSE m.levels[l].head
      /\ L[l].tail = id
      /\ \A k \in DOMAIN m.levels : k # l => L[k] = m.levels[k]
  BY <1>1 DEF Grown
<1>6. /\ \A i \in DOMAIN b : /\ Agrees(o, m.levels, b, i) /\ Before(o, m.levels, b, i)
                             /\ After(o, m.levels, b, i)
      /\ \A k \in DOMAIN m.levels : Ends(o, m.levels, b, k)
  BY DEF Holds, Linked
<1> HIDE DEF c, u, L, t
<1>7. \A k : Queue(b, k) \subseteq Queue(c, k)
  BY <1>2
<1>8. Agrees(u, L, c, id) /\ Before(u, L, c, id) /\ After(u, L, c, id)
  <2>1. Agrees(u, L, c, id)
    BY <1>1, <1>2, <1>4, <1>5 DEF Agrees
  <2>2. After(u, L, c, id)
    BY <1>2, <1>4, <1>5 DEF After
  <2>3. Before(u, L, c, id)
    <3>1. CASE t = Null
      <4>1. c[id].ahead = {}
        BY <1>2, <1>3, <3>1
      <4>2. u[id].previous = Null /\ L[u[id].level].head = id
        BY <1>4, <1>5, <3>1
      <4> QED
        BY <4>1, <4>2 DEF Before
    <3>2. CASE t # Null
      <4>1. t \in Queue(c, l) /\ u[t].next = id /\ c[t] = b[t]
        BY <1>3, <1>4, <1>2, <1>7, <3>2
      <4>2. c[id].ahead = c[t].ahead \cup {t}
        BY <1>2, <1>3, <3>2, <4>1
      <4>3. u[id].previous = t /\ u[id].level = l
        BY <1>4
      <4> QED
        BY <3>2, <4>1, <4>2, <4>3 DEF Before
    <3> QED
      BY <3>1, <3>2
  <2> QED
    BY <2>1, <2>2, <2>3
<1>9. ASSUME NEW i \in DOMAIN b
      PROVE  Agrees(u, L, c, i) /\ Before(u, L, c, i) /\ After(u, L, c, i)
  <2>1. /\ Agrees(o, m.levels, b, i) /\ Before(o, m.levels, b, i) /\ After(o, m.levels, b, i)
        /\ c[i] = b[i] /\ i # id /\ i # Null /\ u[i].level = o[i].level
        /\ u[i].previous = o[i].previous
        /\ u[i].next = IF i = t THEN id ELSE o[i].next
    BY <1>1, <1>2, <1>4, <1>6
  <2>2. o[i].level \in DOMAIN m.levels /\ i \in Queue(b, o[i].level)
    BY <2>1 DEF Agrees, Queue
  <2>3. Agrees(u, L, c, i)
    BY <1>4, <1>5, <2>1 DEF Agrees
  <2>4. Before(u, L, c, i)
    <3>1. CASE o[i].previous = Null
      <4>1. b[i].ahead = {} /\ m.levels[o[i].level].head = i
        BY <2>1, <3>1 DEF Before
      <4>2. o[i].level = l => t # Null
        BY <1>3, <2>2
      <4>3. L[o[i].level].head = i
        BY <1>5, <2>2, <4>1, <4>2
      <4> QED
        BY <2>1, <3>1, <4>1, <4>3 DEF Before
    <3>2. CASE o[i].previous # Null
      <4> DEFINE j == o[i].previous
      <4>1. j \in Queue(b, o[i].level) /\ o[j].next = i /\ b[i].ahead = b[j].ahead \cup {j}
        BY <2>1, <3>2 DEF Before
      <4>2. j \in DOMAIN b
        BY <4>1 DEF Queue
      <4>3. j # t
        BY <1>3, <2>1, <3>2, <4>1
      <4>4. u[j].next = i /\ c[j] = b[j] /\ j \in Queue(c, o[i].level)
        BY <1>2, <1>4, <1>7, <4>1, <4>2, <4>3
      <4> QED
        BY <2>1, <3>2, <4>1, <4>4 DEF Before
    <3> QED
      BY <3>1, <3>2
  <2>5. After(u, L, c, i)
    <3>1. CASE i = t
      <4>1. u[i].next = id /\ id \in Queue(c, l) /\ u[id].previous = i /\ id # Null
            /\ o[i].level = l
        BY <1>1, <1>2, <1>3, <1>4, <2>1, <3>1
      <4> QED
        BY <2>1, <4>1 DEF After
    <3>2. CASE i # t /\ o[i].next = Null
      <4>1. b[i].ahead \cup {i} = Queue(b, o[i].level) /\ m.levels[o[i].level].tail = i
        BY <2>1, <3>2 DEF After
      <4>2. o[i].level # l
        BY <3>2, <4>1 DEF t
      <4>3. L[o[i].level] = m.levels[o[i].level] /\ Queue(c, o[i].level) = Queue(b, o[i].level)
        BY <1>2, <1>5, <2>2, <4>2
      <4> QED
        BY <2>1, <3>2, <4>1, <4>3 DEF After
    <3>3. CASE i # t /\ o[i].next # Null
      <4> DEFINE j == o[i].next
      <4>1. j \in Queue(b, o[i].level) /\ o[j].previous = i
        BY <2>1, <3>3 DEF After
      <4>2. j \in DOMAIN b
        BY <4>1 DEF Queue
      <4>3. u[j].previous = i /\ j \in Queue(c, o[i].level)
        BY <1>4, <1>7, <4>1, <4>2
      <4> QED
        BY <2>1, <3>3, <4>3 DEF After
    <3> QED
      BY <3>1, <3>2, <3>3
  <2> QED
    BY <2>3, <2>4, <2>5
<1>10. ASSUME NEW k \in DOMAIN L
       PROVE  Ends(u, L, c, k)
  <2>1. k \in DOMAIN m.levels /\ Ends(o, m.levels, b, k)
    BY <1>5, <1>6
  <2>2. ASSUME NEW i \in Queue(b, k)
        PROVE  /\ i \in DOMAIN b /\ i # Null /\ o[i].level = k /\ u[i].previous = o[i].previous
               /\ u[i].next = IF i = t THEN id ELSE o[i].next
    <3>1. i \in DOMAIN b /\ Agrees(o, m.levels, b, i) /\ <<b[i].side, b[i].price>> = k
      BY <1>6 DEF Queue
    <3> QED
      BY <1>1, <1>4, <3>1 DEF Agrees
  <2>3. CASE k # l
    <3>1. L[k] = m.levels[k] /\ Queue(c, k) = Queue(b, k)
      BY <1>2, <1>5, <2>1, <2>3
    <3>2. ASSUME NEW i \in Queue(b, k)
          PROVE  u[i].previous = o[i].previous /\ u[i].next = o[i].next
      <4>1. i # t
        BY <1>3, <2>2, <2>3
      <4> QED
        BY <2>2, <4>1
    <3> QED
      BY <2>1, <3>1, <3>2 DEF Ends
  <2>4. CASE k = l
    <3>1. L[l].tail = id /\ id \in Queue(c, l) /\ u[id].next = Null /\ id # Null
      BY <1>1, <1>2, <1>4, <1>5
    <3>2. CASE t = Null
      BY <1>4, <1>5, <2>4, <3>1, <3>2 DEF Ends
    <3>3. CASE t # Null
      <4> DEFINE h == m.levels[l].head
      <4>1. h # Null /\ h \in Queue(b, l) /\ o[h].previous = Null
        BY <1>3, <2>1, <2>4, <3>3 DEF Ends
      <4>2. u[h].previous = Null /\ h \in Queue(c, l)
        BY <1>7, <2>2, <2>4, <4>1
      <4>3. L[l].head = h
        BY <1>5, <3>3
      <4> HIDE DEF h
      <4> QED
        BY <2>4, <3>1, <4>1, <4>2, <4>3 DEF Ends
    <3> QED
      BY <3>2, <3>3
  <2> QED
    BY <2>3, <2>4
<1>11. DOMAIN c \subseteq DOMAIN u
  BY <1>1, <1>2, <1>4
<1>12. \A i \in DOMAIN c : Agrees(u, L, c, i) /\ Before(u, L, c, i) /\ After(u, L, c, i)
  BY <1>2, <1>8, <1>9
<1> QED
  BY <1>10, <1>11, <1>12 DEF Linked, c, u, L

\* A node at the tail: the lists hold the book with it at the end of its queue.
LEMMA AppendHolds ==
  ASSUME NEW m, NEW b, Holds(m, b), NEW l, NEW id, Loose(m, b, l, id)
  PROVE  Holds(append(m, l, id), Appended(m, b, id))
<1> DEFINE u == append(m, l, id)
           L == [m.levels EXCEPT ![l] = Grown(m, l, id)]
<1>1. u = [orders |-> Chained(m, l, id), levels |-> L, indices |-> m.indices]
  BY AppendIs
<1>2. L \in [DOMAIN m.levels -> PriceLevel] /\ Counted(L, Appended(m, b, id))
  BY AppendCounted
<1>3. Chained(m, l, id) \in [DOMAIN m.orders -> SomeNode]
  BY ChainedNode
<1>4. Linked(Chained(m, l, id), L, Appended(m, b, id))
  BY AppendLinked
<1>5. FiniteBook(Appended(m, b, id))
  BY AppendedFields DEF IsAppended
<1> HIDE DEF L, u
<1>6. u.orders = Chained(m, l, id) /\ u.levels = L /\ u.indices = m.indices
  BY <1>1
<1>7. IsImpl(u)
  BY <1>1, <1>2, <1>3, <1>6 DEF Holds, IsImpl
<1> QED
  BY <1>2, <1>4, <1>5, <1>6, <1>7 DEF Holds, u

-----------------------------------------------------------------------------
(* Levels and nodes that no order of the book is concerned with.           *)

\* m2 differs from m in empty levels and in nodes that are in no list.
SameLists(m, b, m2) ==
  /\ \A k \in DOMAIN m2.levels :
       \/ k \in DOMAIN m.levels /\ m2.levels[k] = m.levels[k]
       \/ Queue(b, k) = {} /\ m2.levels[k] = NewLevel
  /\ \A k \in DOMAIN m.levels : Queue(b, k) # {} => k \in DOMAIN m2.levels
  /\ DOMAIN b \subseteq DOMAIN m2.orders
  /\ \A i \in DOMAIN b : m2.orders[i] = m.orders[i]

LEMMA SameListsHold ==
  ASSUME NEW m, NEW b, Holds(m, b), NEW m2, IsImpl(m2), SameLists(m, b, m2)
  PROVE  Holds(m2, b)
<1> DEFINE o == m.orders
           u == m2.orders
           L == m.levels
           K == m2.levels
<1>1. /\ \A i \in DOMAIN b : /\ Agrees(o, L, b, i) /\ Before(o, L, b, i)
                             /\ After(o, L, b, i)
      /\ \A k \in DOMAIN L : Ends(o, L, b, k)
      /\ FiniteBook(b) /\ Counted(L, b)
  BY DEF Holds, Linked
<1>2. ASSUME NEW i \in DOMAIN b
      PROVE  /\ o[i].level \in DOMAIN K /\ K[o[i].level] = L[o[i].level]
             /\ u[i] = o[i] /\ \A j \in Queue(b, o[i].level) : u[j] = o[j]
  <2>1. o[i].level \in DOMAIN L /\ i \in Queue(b, o[i].level)
    BY <1>1 DEF Agrees, Queue
  <2>2. \A j \in Queue(b, o[i].level) : j \in DOMAIN b
    BY DEF Queue
  <2> QED
    BY <2>1, <2>2 DEF SameLists
<1>3. ASSUME NEW i \in DOMAIN b
      PROVE  Agrees(u, K, b, i) /\ Before(u, K, b, i) /\ After(u, K, b, i)
  <2>1. /\ Agrees(o, L, b, i) /\ Before(o, L, b, i) /\ After(o, L, b, i)
        /\ o[i].level \in DOMAIN K /\ K[o[i].level] = L[o[i].level]
        /\ u[i] = o[i] /\ \A j \in Queue(b, o[i].level) : u[j] = o[j]
    BY <1>1, <1>2
  <2> HIDE DEF o, u, L, K
  <2> QED
    BY <2>1 DEF Agrees, Before, After
<1>4. ASSUME NEW k \in DOMAIN K
      PROVE  /\ Ends(u, K, b, k)
             /\ K[k].order_count = Cardinality(Queue(b, k))
             /\ K[k].quantity = Shares(b, Queue(b, k))
  <2>1. CASE k \in DOMAIN L /\ K[k] = L[k]
    <3>1. /\ Ends(o, L, b, k) /\ L[k].order_count = Cardinality(Queue(b, k))
          /\ L[k].quantity = Shares(b, Queue(b, k))
      BY <1>1, <2>1 DEF Counted
    <3>2. \A j \in Queue(b, k) : u[j] = o[j]
      BY DEF SameLists, Queue
    <3> HIDE DEF o, u, L, K
    <3> QED
      BY <2>1, <3>1, <3>2 DEF Ends
  <2>2. CASE Queue(b, k) = {} /\ K[k] = NewLevel
    <3>1. K[k].head = Null /\ K[k].tail = Null /\ K[k].order_count = 0 /\ K[k].quantity = 0
      BY <2>2 DEF NewLevel
    <3>2. Cardinality(Queue(b, k)) = 0 /\ Shares(b, Queue(b, k)) = 0
      BY <2>2, FS_EmptySet, SharesEmpty
    <3> QED
      BY <2>2, <3>1, <3>2 DEF Ends
  <2> QED
    BY <2>1, <2>2 DEF SameLists
<1>5. DOMAIN b \subseteq DOMAIN u
  BY DEF SameLists
<1> QED
  BY <1>1, <1>3, <1>4, <1>5 DEF Holds, Linked, Counted

\* The level of an order exists.
LEMMA LevelOf ==
  ASSUME NEW m, NEW b, Holds(m, b), NEW i \in DOMAIN b
  PROVE  /\ i \in DOMAIN m.orders /\ i \in OrderId
         /\ b[i].side \in Side /\ b[i].price \in Price /\ b[i].quantity \in Nat \ {0}
         /\ m.orders[i].side = b[i].side /\ m.orders[i].price = b[i].price
         /\ m.orders[i].quantity = b[i].quantity
         /\ m.orders[i].level = <<b[i].side, b[i].price>>
         /\ <<b[i].side, b[i].price>> \in DOMAIN m.levels
         /\ i \in Queue(b, <<b[i].side, b[i].price>>)
<1>1. Agrees(m.orders, m.levels, b, i) /\ DOMAIN b \subseteq DOMAIN m.orders
  BY DEF Holds, Linked
<1>2. b[i] \in Order /\ i \in OrderId
  BY DEF Holds, FiniteBook, IsBook
<1> QED
  BY <1>1, <1>2 DEF Agrees, Queue, Order

\* A level with orders exists, and its count tells.
LEMMA CountTells ==
  ASSUME NEW m, NEW b, Holds(m, b), NEW k
  PROVE  /\ Queue(b, k) # {} => k \in DOMAIN m.levels
         /\ k \in DOMAIN m.levels =>
              /\ m.levels[k].order_count = 0 <=> Queue(b, k) = {}
              /\ m.levels[k].order_count \in Nat
<1>1. ASSUME NEW i \in Queue(b, k) PROVE k \in DOMAIN m.levels
  <2>1. i \in DOMAIN b /\ <<b[i].side, b[i].price>> = k
    BY DEF Queue
  <2> QED
    BY <2>1, LevelOf
<1>2. FiniteBook(b) /\ Counted(m.levels, b)
  BY DEF Holds
<1> QED
  BY <1>1, <1>2, QueueFinite DEF Counted

\* A level that is made when it is first needed.
Created(m, b, l, g) ==
  /\ Holds(g, b) /\ l \in DOMAIN g.levels
  /\ g.orders = m.orders /\ g.indices = m.indices
  /\ DOMAIN g.levels = DOMAIN m.levels \cup {l}
  /\ \A k \in DOMAIN m.levels : g.levels[k] = m.levels[k]

LEMMA CreateHolds ==
  ASSUME NEW m, NEW b, Holds(m, b), NEW l \in LevelKey
  PROVE  Created(m, b, l, get_or_create_level(m, l))
<1> DEFINE g == get_or_create_level(m, l)
<1>1. CASE l \in DOMAIN m.levels
  BY <1>1 DEF get_or_create_level, Created
<1>2. CASE l \notin DOMAIN m.levels
  <2> DEFINE K == [x \in DOMAIN m.levels \cup {l} |-> IF x = l THEN NewLevel ELSE m.levels[x]]
  <2>1. /\ m = [orders |-> m.orders, levels |-> m.levels, indices |-> m.indices]
        /\ IsImpl(m) /\ m.levels \in [DOMAIN m.levels -> PriceLevel]
    BY DEF Holds, IsImpl
  <2>2. g = [m EXCEPT !.levels = K]
    BY <1>2 DEF get_or_create_level, Put
  <2> HIDE DEF g
  <2>3. g.orders = m.orders /\ g.levels = K /\ g.indices = m.indices
        /\ g = [orders |-> g.orders, levels |-> g.levels, indices |-> g.indices]
    BY <2>1, <2>2
  <2>4. NewLevel \in PriceLevel
    BY DEF NewLevel, PriceLevel
  <2>5. K \in [DOMAIN K -> PriceLevel]
    BY <2>1, <2>4
  <2>6. DOMAIN K = DOMAIN m.levels \cup {l}
    OBVIOUS
  <2>7. IsImpl(g)
    BY <2>1, <2>3, <2>5, <2>6 DEF IsImpl
  <2>8. Queue(b, l) = {}
    BY <1>2, CountTells
  <2>9. SameLists(m, b, g)
    BY <2>3, <2>6, <2>8 DEF SameLists, Holds, Linked
  <2> QED
    BY <1>2, <2>3, <2>6, <2>7, <2>9, SameListsHold DEF Created, g
<1> QED
  BY <1>1, <1>2

\* An empty level that is destroyed, with its price.
LEMMA DeactivateHolds ==
  ASSUME NEW m, NEW b, Holds(m, b), NEW s \in Side, NEW p \in Price, Queue(b, <<s, p>>) = {}
  PROVE  LET d == DeactivatePrice(m, s, p)
         IN /\ Holds(d, b) /\ d.orders = m.orders
            /\ d.indices = [m.indices EXCEPT ![s] = @ \ {p}]
            /\ DOMAIN d.levels = DOMAIN m.levels \ {<<s, p>>}
            /\ \A k \in DOMAIN d.levels : d.levels[k] = m.levels[k]
<1> DEFINE d == DeactivatePrice(m, s, p)
           K == [x \in DOMAIN m.levels \ {<<s, p>>} |-> m.levels[x]]
           X == [m.indices EXCEPT ![s] = @ \ {p}]
<1>1. /\ m = [orders |-> m.orders, levels |-> m.levels, indices |-> m.indices]
      /\ IsImpl(m) /\ m.levels \in [DOMAIN m.levels -> PriceLevel]
      /\ m.indices \in [Side -> SUBSET Price]
  BY DEF Holds, IsImpl
<1>2. d = [[m EXCEPT !.indices = X] EXCEPT !.levels = K]
  BY <1>1 DEF DeactivatePrice, Drop, Restrict
<1> HIDE DEF d
<1>3. /\ d.orders = m.orders /\ d.levels = K /\ d.indices = X
      /\ d = [orders |-> d.orders, levels |-> d.levels, indices |-> d.indices]
  BY <1>1, <1>2
<1>4. K \in [DOMAIN K -> PriceLevel] /\ X \in [Side -> SUBSET Price]
  BY <1>1
<1>5. DOMAIN K = DOMAIN m.levels \ {<<s, p>>}
  OBVIOUS
<1>6. IsImpl(d)
  BY <1>1, <1>3, <1>4, <1>5 DEF IsImpl
<1>7. SameLists(m, b, d)
  BY <1>3, <1>5 DEF SameLists, Holds, Linked
<1> QED
  BY <1>3, <1>5, <1>6, <1>7, SameListsHold DEF d

-----------------------------------------------------------------------------
(* Out of the list, and the level destroyed if it is empty and not kept.   *)

Vacate(m, id, kept) ==
  LET d == Unlink(m, id)
      o == m.orders[id]
  IN IF d.levels[o.level].order_count = 0 /\ ~kept THEN DeactivatePrice(d, o.side, o.price) ELSE d

\* What is left: the level l of id remains if it is not empty or is kept.
Vacated(m, b, id, kept, v) ==
  LET c == Leave(b, id)
      l == m.orders[id].level
  IN /\ Holds(v, c) /\ v.orders = Bypassed(m, id)
     /\ \A s \in Side, p \in Price :
          p \in v.indices[s] <=> /\ p \in m.indices[s]
                                 /\ <<s, p>> = l => Queue(c, l) # {} \/ kept
     /\ \A k : k \in DOMAIN v.levels <=> /\ k \in DOMAIN m.levels
                                         /\ k = l => Queue(c, l) # {} \/ kept

LEMMA VacateHolds ==
  ASSUME NEW m, NEW b, Holds(m, b), NEW id \in DOMAIN b, NEW kept \in BOOLEAN
  PROVE  Vacated(m, b, id, kept, Vacate(m, id, kept))
<1> DEFINE c == Leave(b, id)
           l == m.orders[id].level
           d == Unlink(m, id)
           v == Vacate(m, id, kept)
           s1 == m.orders[id].side
           p1 == m.orders[id].price
<1>1. /\ s1 \in Side /\ p1 \in Price /\ l = <<s1, p1>> /\ l \in DOMAIN m.levels
  <2>1. /\ b[id].side \in Side /\ b[id].price \in Price
        /\ s1 = b[id].side /\ p1 = b[id].price /\ l = <<b[id].side, b[id].price>>
        /\ <<b[id].side, b[id].price>> \in DOMAIN m.levels
    BY LevelOf
  <2> HIDE DEF s1, p1, l
  <2> QED
    BY <2>1
<1>2. /\ d.orders = Bypassed(m, id) /\ d.indices = m.indices
      /\ DOMAIN d.levels = DOMAIN m.levels
  BY UnlinkIs
<1>3. Holds(d, c) /\ m.indices \in [Side -> SUBSET Price]
  BY UnlinkHolds DEF Holds, IsImpl
<1> HIDE DEF c, l, d, v, s1, p1
<1>4. d.levels[l].order_count = 0 <=> Queue(c, l) = {}
  BY <1>1, <1>2, <1>3, CountTells
<1>5. CASE Queue(c, l) = {} /\ ~kept
  <2>1. v = DeactivatePrice(d, s1, p1)
    BY <1>4, <1>5 DEF v, Vacate, d, l, s1, p1
  <2>2. Queue(c, <<s1, p1>>) = {}
    BY <1>1, <1>5
  <2>3. /\ Holds(v, c) /\ v.orders = d.orders
        /\ v.indices = [d.indices EXCEPT ![s1] = @ \ {p1}]
        /\ DOMAIN v.levels = DOMAIN d.levels \ {l}
    BY <1>1, <1>3, <2>1, <2>2, DeactivateHolds
  <2>4. \A s \in Side, p \in Price :
          p \in v.indices[s] <=> p \in m.indices[s] /\ <<s, p>> # l
    BY <1>1, <1>2, <1>3, <2>3
  <2> QED
    BY <1>2, <1>5, <2>3, <2>4 DEF Vacated, c, l, v
<1>6. CASE Queue(c, l) # {} \/ kept
  <2>1. v = d
    BY <1>4, <1>6 DEF v, Vacate, d, l
  <2> QED
    BY <1>2, <1>3, <1>6, <2>1 DEF Vacated, c, l, v
<1> QED
  BY <1>5, <1>6

-----------------------------------------------------------------------------
(* add.                                                                    *)

\* An operation that took m and b to u and c.
Makes(m, b, u, c) == Represents(u, c) /\ NoNewEmpty(m, b, u, c)

\* The node of a new order, in no list yet, and its price active.
Prepared(g, id, s, p, q) ==
  LET n == [g EXCEPT !.orders = Put(@, id, Node(s, p, q))]
  IN IF g.levels[<<s, p>>].order_count = 0 THEN [n EXCEPT !.indices[s] = @ \cup {p}] ELSE n

LEMMA PutHolds ==
  ASSUME NEW g, NEW b, Holds(g, b), NEW id \in OrderId, id \notin DOMAIN b,
         NEW s \in Side, NEW p \in Price, NEW q \in Nat \ {0},
         NEW x, x = g.indices \/ x = [g.indices EXCEPT ![s] = @ \cup {p}],
         NEW n, n = [orders |-> Put(g.orders, id, Node(s, p, q)), levels |-> g.levels,
                     indices |-> x]
  PROVE  Holds(n, b)
<1>1. /\ IsImpl(g) /\ g.indices \in [Side -> SUBSET Price]
      /\ g.orders \in [DOMAIN g.orders -> SomeNode] /\ DOMAIN g.orders \in SUBSET OrderId
      /\ DOMAIN b \subseteq DOMAIN g.orders
  BY DEF Holds, IsImpl, Linked
<1>2. Node(s, p, q) \in SomeNode
  BY DEF Node, SomeNode
<1>3. /\ Put(g.orders, id, Node(s, p, q)) \in [DOMAIN g.orders \cup {id} -> SomeNode]
      /\ \A i \in DOMAIN b : Put(g.orders, id, Node(s, p, q))[i] = g.orders[i]
  BY <1>1, <1>2 DEF Put
<1>4. x \in [Side -> SUBSET Price]
  BY <1>1
<1>5. n.orders = Put(g.orders, id, Node(s, p, q)) /\ n.levels = g.levels /\ n.indices = x
  OBVIOUS
<1>6. IsImpl(n)
  BY <1>1, <1>3, <1>4, <1>5 DEF IsImpl
<1>7. SameLists(g, b, n)
  BY <1>1, <1>3, <1>5, CountTells DEF SameLists
<1> QED
  BY <1>6, <1>7, SameListsHold

LEMMA AddMakes ==
  ASSUME NEW m, NEW b, Represents(m, b), NEW id \in OrderId, id \notin DOMAIN b,
         NEW s \in Side, NEW p \in Price, NEW q \in Nat \ {0}
  PROVE  Makes(m, b, add(m, id, s, p, q), Add(b, id, s, p, q))
<1> DEFINE l == <<s, p>>
           g == get_or_create_level(m, l)
           x == Prepared(g, id, s, p, q)
           u == append(x, l, id)
           c == Add(b, id, s, p, q)
<1>0. add(m, id, s, p, q) = u
  BY DEF add, Prepared
<1>1. Holds(m, b) /\ Indexed(m.indices, b) /\ DOMAIN m.orders = DOMAIN b
  BY DEF Represents
<1>2. /\ Holds(g, b) /\ l \in DOMAIN g.levels
      /\ g.orders = m.orders /\ g.indices = m.indices
      /\ DOMAIN g.levels = DOMAIN m.levels \cup {l}
  <2>1. l \in LevelKey
    BY DEF LevelKey
  <2> QED
    BY <1>1, <2>1, CreateHolds DEF Created
<1> HIDE DEF l, g
<1>3. g.levels[l].order_count = 0 <=> Queue(b, l) = {}
  BY <1>2, CountTells
<1> DEFINE X == IF Queue(b, l) = {} THEN [g.indices EXCEPT ![s] = @ \cup {p}] ELSE g.indices
<1>4. x = [orders |-> Put(g.orders, id, Node(s, p, q)), levels |-> g.levels, indices |-> X]
  <2>1. g = [orders |-> g.orders, levels |-> g.levels, indices |-> g.indices]
    BY <1>2 DEF Holds, IsImpl
  <2> DEFINE n == [g EXCEPT !.orders = Put(@, id, Node(s, p, q))]
  <2>2. n = [orders |-> Put(g.orders, id, Node(s, p, q)), levels |-> g.levels,
             indices |-> g.indices]
    BY <2>1
  <2>3. x = IF Queue(b, l) = {} THEN [n EXCEPT !.indices[s] = @ \cup {p}] ELSE n
    BY <1>3 DEF Prepared, l
  <2> HIDE DEF n, x
  <2> QED
    BY <2>2, <2>3
<1>5. Holds(x, b)
  BY <1>1, <1>2, <1>4, PutHolds
<1> HIDE DEF x, X
<1>6. /\ x.orders = Put(g.orders, id, Node(s, p, q)) /\ x.levels = g.levels /\ x.indices = X
      /\ DOMAIN x.orders = DOMAIN b \cup {id}
      /\ x.orders[id].side = s /\ x.orders[id].price = p /\ x.orders[id].quantity = q
  BY <1>1, <1>2, <1>4 DEF Put, Node
<1>7. Loose(x, b, l, id)
  BY <1>2, <1>6 DEF Loose, l
<1>8. Holds(u, c)
  BY <1>5, <1>6, <1>7, AppendHolds DEF Appended, Add
<1>9. u.indices = X /\ DOMAIN u.levels = DOMAIN g.levels /\ DOMAIN u.orders = DOMAIN b \cup {id}
  BY <1>5, <1>6, <1>7, AppendIs DEF Chained
<1>10. /\ DOMAIN c = DOMAIN b \cup {id}
       /\ \A k : Queue(c, k) = IF k = l THEN Queue(b, k) \cup {id} ELSE Queue(b, k)
  <2>1. c = PushBack(b, id, s, p, q)
    BY DEF Add
  <2>2. \A k : Queue(c, k) = IF k = <<s, p>> THEN Queue(b, k) \cup {id} ELSE Queue(b, k)
    BY <2>1, PushBackQueue
  <2>3. DOMAIN c = DOMAIN b \cup {id}
    BY <2>1 DEF PushBack
  <2> QED
    BY <2>2, <2>3 DEF l
<1> HIDE DEF u, c
<1>11. Indexed(u.indices, c)
  <2> SUFFICES ASSUME NEW t \in Side, NEW r \in Price
               PROVE  r \in X[t] <=> Queue(c, <<t, r>>) # {}
    BY <1>9 DEF Indexed
  <2>1. r \in m.indices[t] <=> Queue(b, <<t, r>>) # {}
    BY <1>1 DEF Indexed
  <2>2. m.indices \in [Side -> SUBSET Price]
    BY <1>1 DEF Holds, IsImpl
  <2>3. r \in X[t] <=> r \in m.indices[t] \/ (Queue(b, l) = {} /\ <<t, r>> = l)
    BY <1>2, <2>2 DEF X, l
  <2> QED
    BY <1>10, <2>1, <2>3
<1>12. NoNewEmpty(m, b, u, c)
  BY <1>2, <1>9, <1>10 DEF NoNewEmpty
<1> QED
  BY <1>0, <1>8, <1>9, <1>10, <1>11, <1>12 DEF Makes, Represents, u, c

\* What a failed add leaves represents the same book.
LEMMA AddThrows ==
  ASSUME NEW m, NEW b, Represents(m, b), NEW id \in OrderId, id \notin DOMAIN b,
         NEW s \in Side, NEW p \in Price, NEW q, NEW u \in add_throws(m, id, s, p, q)
  PROVE  Represents(u, b)
<1> DEFINE l == <<s, p>>
           g == get_or_create_level(m, l)
           n == [g EXCEPT !.orders = Put(@, id, Node(s, p, q))]
<1>1. Created(m, b, l, g)
  BY CreateHolds DEF Represents, LevelKey
<1> HIDE DEF g
<1>2. Represents(g, b)
  BY <1>1 DEF Represents, Created
<1>3. [n EXCEPT !.orders = Drop(@, id)] = g
  <2>1. /\ g = [orders |-> g.orders, levels |-> g.levels, indices |-> g.indices]
        /\ g.orders = [i \in DOMAIN g.orders |-> g.orders[i]] /\ id \notin DOMAIN g.orders
    BY <1>2 DEF Represents, Holds, IsImpl
  <2>2. Drop(Put(g.orders, id, Node(s, p, q)), id) = g.orders
    BY <2>1 DEF Drop, Restrict, Put
  <2>3. n = [orders |-> Put(g.orders, id, Node(s, p, q)), levels |-> g.levels,
             indices |-> g.indices]
    BY <2>1
  <2> HIDE DEF n
  <2> QED
    BY <2>1, <2>2, <2>3
<1>4. u \in {m, g, [n EXCEPT !.orders = Drop(@, id)]}
  BY DEF add_throws, g
<1> QED
  BY <1>2, <1>3, <1>4

-----------------------------------------------------------------------------
(* A quantity that changes in place (cancel, modify).                      *)

\* The node and its level after id has got q shares.
ResizedOrders(m, id, q) == [m.orders EXCEPT ![id].quantity = q]

ResizedLevels(m, id, q) ==
  [m.levels EXCEPT ![m.orders[id].level].quantity = @ - (m.orders[id].quantity - q)]

Resized(m, id, q) ==
  [orders |-> ResizedOrders(m, id, q), levels |-> ResizedLevels(m, id, q), indices |-> m.indices]

LEMMA ResizedNode ==
  ASSUME NEW m, NEW b, Holds(m, b), NEW id \in DOMAIN b, NEW q \in Nat \ {0}
  PROVE  LET u == ResizedOrders(m, id, q)
         IN /\ u \in [DOMAIN m.orders -> SomeNode]
            /\ \A i \in DOMAIN m.orders :
                 /\ u[i].side = m.orders[i].side /\ u[i].price = m.orders[i].price
                 /\ u[i].level = m.orders[i].level /\ u[i].previous = m.orders[i].previous
                 /\ u[i].next = m.orders[i].next
                 /\ u[i].quantity = IF i = id THEN q ELSE m.orders[i].quantity
<1> DEFINE o == m.orders
           u == ResizedOrders(m, id, q)
           n == [o[id] EXCEPT !.quantity = q]
<1>1. o \in [DOMAIN o -> SomeNode] /\ id \in DOMAIN o
  BY LevelOf DEF Holds, IsImpl
<1>2. u = [o EXCEPT ![id] = n]
  BY DEF ResizedOrders
<1>3. o[id] \in SomeNode
  BY <1>1
<1>4. /\ n \in SomeNode /\ n.side = o[id].side /\ n.price = o[id].price /\ n.level = o[id].level
      /\ n.previous = o[id].previous /\ n.next = o[id].next /\ n.quantity = q
  BY <1>3 DEF SomeNode
<1> HIDE DEF n, u
<1>5. /\ \A i \in DOMAIN o : u[i] = IF i = id THEN n ELSE o[i]
      /\ u \in [DOMAIN o -> SomeNode]
  BY <1>1, <1>2, <1>4
<1>6. ASSUME NEW i \in DOMAIN o
      PROVE  /\ u[i].side = o[i].side /\ u[i].price = o[i].price
             /\ u[i].level = o[i].level /\ u[i].previous = o[i].previous
             /\ u[i].next = o[i].next
             /\ u[i].quantity = IF i = id THEN q ELSE o[i].quantity
  BY <1>4, <1>5
<1> QED
  BY <1>5, <1>6 DEF u

IsResized(c, b, id, q) ==
  /\ FiniteBook(c) /\ DOMAIN c = DOMAIN b /\ \A k : Queue(c, k) = Queue(b, k)
  /\ \A i \in DOMAIN b :
       /\ c[i].side = b[i].side /\ c[i].price = b[i].price /\ c[i].ahead = b[i].ahead
       /\ c[i].quantity = IF i = id THEN q ELSE b[i].quantity

LEMMA ResizedBook ==
  ASSUME NEW b, FiniteBook(b), NEW id \in DOMAIN b, NEW q \in Nat \ {0}
  PROVE  IsResized([b EXCEPT ![id].quantity = q], b, id, q)
<1> DEFINE c == [b EXCEPT ![id].quantity = q]
           n == [b[id] EXCEPT !.quantity = q]
<1>1. b[id] \in Order
  BY DEF FiniteBook, IsBook
<1>2. n.side = b[id].side /\ n.price = b[id].price /\ n.ahead = b[id].ahead /\ n.quantity = q
  BY <1>1 DEF Order
<1>3. c = [i \in DOMAIN b |-> IF i = id THEN n ELSE b[i]]
  OBVIOUS
<1>4. IsBook(c)
  BY ResizeType DEF FiniteBook
<1> HIDE DEF c, n
<1>5. \A i \in DOMAIN b :
        /\ c[i].side = b[i].side /\ c[i].price = b[i].price /\ c[i].ahead = b[i].ahead
        /\ c[i].quantity = IF i = id THEN q ELSE b[i].quantity
  BY <1>2, <1>3
<1>6. DOMAIN c = DOMAIN b /\ c = [i \in DOMAIN c |-> c[i]]
  BY <1>3
<1>7. FiniteBook(c)
  BY <1>4, <1>6 DEF FiniteBook
<1>8. \A k : Queue(c, k) = Queue(b, k)
  BY <1>5, <1>6 DEF Queue
<1> QED
  BY <1>5, <1>6, <1>7, <1>8 DEF c, IsResized

LEMMA ResizeCounted ==
  ASSUME NEW m, NEW b, Holds(m, b), NEW id \in DOMAIN b, NEW q \in Nat \ {0}
  PROVE  /\ Counted(ResizedLevels(m, id, q), [b EXCEPT ![id].quantity = q])
         /\ ResizedLevels(m, id, q) \in [DOMAIN m.levels -> PriceLevel]
         /\ \A k \in DOMAIN m.levels : /\ ResizedLevels(m, id, q)[k].head = m.levels[k].head
                                       /\ ResizedLevels(m, id, q)[k].tail = m.levels[k].tail
<1> DEFINE c == [b EXCEPT ![id].quantity = q]
           l == m.orders[id].level
           K == ResizedLevels(m, id, q)
           n == [m.levels[l] EXCEPT !.quantity = @ - (m.orders[id].quantity - q)]
<1>1. /\ FiniteBook(b) /\ Counted(m.levels, b)
      /\ m.levels \in [DOMAIN m.levels -> PriceLevel]
  BY DEF Holds, IsImpl
<1>2. /\ l \in DOMAIN m.levels /\ id \in Queue(b, l)
      /\ m.orders[id].quantity = b[id].quantity /\ b[id].quantity \in Nat
  <2>1. /\ m.orders[id].quantity = b[id].quantity /\ b[id].quantity \in Nat
        /\ l = <<b[id].side, b[id].price>> /\ <<b[id].side, b[id].price>> \in DOMAIN m.levels
        /\ id \in Queue(b, <<b[id].side, b[id].price>>)
    BY LevelOf
  <2> HIDE DEF l
  <2> QED
    BY <2>1
<1>3. /\ FiniteBook(c) /\ DOMAIN c = DOMAIN b /\ \A k : Queue(c, k) = Queue(b, k)
      /\ \A i \in DOMAIN b : c[i].quantity = IF i = id THEN q ELSE b[i].quantity
  <2>1. IsResized(c, b, id, q)
    BY <1>1, ResizedBook
  <2> QED
    BY <2>1 DEF IsResized
<1> HIDE DEF c
<1>4. ASSUME NEW S \in SUBSET DOMAIN b, IsFiniteSet(S), id \notin S
      PROVE  Shares(c, S) = Shares(b, S)
  <2>1. \A i \in S : c[i].quantity = b[i].quantity
    BY <1>3, <1>4
  <2> QED
    BY <1>4, <2>1, SharesSame
<1> DEFINE Q == Queue(b, l)
<1>5. /\ IsFiniteSet(Q) /\ Q \subseteq DOMAIN b
      /\ \A i \in Q : b[i].quantity \in Nat /\ c[i].quantity \in Nat
  <2>1. /\ IsFiniteSet(Q) /\ Q \subseteq DOMAIN b /\ \A i \in Q : b[i].quantity \in Nat
    BY <1>1, QueueFinite
  <2>2. \A i \in Q : c[i].quantity \in Nat
    BY <1>3, <2>1
  <2> QED
    BY <2>1, <2>2
<1> HIDE DEF Q, l, K
<1>6. Shares(c, Q) = Shares(b, Q) - (b[id].quantity - q) /\ Shares(c, Q) \in Nat
  <2>1. id \in Q
    BY <1>2 DEF Q
  <2>2. IsFiniteSet(Q \ {id})
    BY <1>5, FS_RemoveElement
  <2>3. Shares(c, Q \ {id}) = Shares(b, Q \ {id})
    BY <1>4, <1>5, <2>2
  <2>4. (\A i \in Q : b[i].quantity \in Int) /\ (\A i \in Q : c[i].quantity \in Int)
    BY <1>5
  <2>5. Shares(b, Q \ {id}) = Shares(b, Q) - b[id].quantity
    BY <1>5, <2>1, <2>4, SharesTake
  <2>6. Shares(c, Q \ {id}) = Shares(c, Q) - c[id].quantity
    BY <1>5, <2>1, <2>4, SharesTake
  <2>7. Shares(b, Q) \in Nat /\ Shares(c, Q) \in Nat
    BY <1>5, SharesType
  <2>8. c[id].quantity = q
    BY <1>3
  <2> QED
    BY <1>2, <2>3, <2>5, <2>6, <2>7, <2>8
<1>7. m.levels[l] \in PriceLevel /\ m.levels[l].quantity = Shares(b, Q)
  BY <1>1, <1>2 DEF Counted, Q
<1>8. /\ n.order_count = m.levels[l].order_count /\ n.head = m.levels[l].head
      /\ n.tail = m.levels[l].tail /\ n.quantity = Shares(c, Q) /\ n \in PriceLevel
  <2>1. m.levels[l].quantity - (m.orders[id].quantity - q) = Shares(c, Q)
    BY <1>2, <1>6, <1>7
  <2>2. n = [m.levels[l] EXCEPT !.quantity = Shares(c, Q)]
    BY <2>1
  <2> HIDE DEF n
  <2> QED
    BY <1>6, <1>7, <2>2 DEF PriceLevel
<1>9. K = [m.levels EXCEPT ![l] = n]
  BY DEF K, ResizedLevels, l
<1> HIDE DEF n
<1>10. \A k \in DOMAIN m.levels : K[k] = IF k = l THEN n ELSE m.levels[k]
  BY <1>1, <1>9
<1>11. DOMAIN K = DOMAIN m.levels /\ K \in [DOMAIN m.levels -> PriceLevel]
  BY <1>1, <1>8, <1>9
<1>12. ASSUME NEW k \in DOMAIN m.levels
       PROVE  /\ K[k].order_count = Cardinality(Queue(c, k))
              /\ K[k].quantity = Shares(c, Queue(c, k))
              /\ K[k].head = m.levels[k].head /\ K[k].tail = m.levels[k].tail
  <2>1. /\ m.levels[k].order_count = Cardinality(Queue(b, k))
        /\ m.levels[k].quantity = Shares(b, Queue(b, k)) /\ Queue(c, k) = Queue(b, k)
    BY <1>1, <1>3 DEF Counted
  <2>2. CASE k = l
    BY <1>8, <1>10, <2>1, <2>2 DEF Q
  <2>3. CASE k # l
    <3>1. id \notin Queue(b, k)
      BY <1>2, <2>3 DEF Queue
    <3>2. IsFiniteSet(Queue(b, k)) /\ Queue(b, k) \in SUBSET DOMAIN b
      BY <1>1, QueueFinite
    <3>3. Shares(c, Queue(b, k)) = Shares(b, Queue(b, k))
      BY <1>4, <3>1, <3>2
    <3> QED
      BY <1>10, <2>1, <2>3, <3>3
  <2> QED
    BY <2>2, <2>3
<1> QED
  BY <1>11, <1>12 DEF Counted, K, c

\* The order keeps its place.
LEMMA ResizeMakes ==
  ASSUME NEW m, NEW b, Represents(m, b), NEW id \in DOMAIN b, NEW q \in Nat \ {0}
  PROVE  Makes(m, b, Resized(m, id, q), [b EXCEPT ![id].quantity = q])
<1> DEFINE o == m.orders
           L == m.levels
           c == [b EXCEPT ![id].quantity = q]
           u == ResizedOrders(m, id, q)
           K == ResizedLevels(m, id, q)
           v == Resized(m, id, q)
<1>1. /\ Holds(m, b) /\ Indexed(m.indices, b) /\ DOMAIN o = DOMAIN b /\ FiniteBook(b)
      /\ IsImpl(m)
      /\ \A i \in DOMAIN b : Agrees(o, L, b, i) /\ Before(o, L, b, i) /\ After(o, L, b, i)
      /\ \A k \in DOMAIN L : Ends(o, L, b, k)
  BY DEF Represents, Holds, Linked
<1>2. /\ FiniteBook(c) /\ DOMAIN c = DOMAIN b /\ \A k : Queue(c, k) = Queue(b, k)
      /\ \A i \in DOMAIN b :
           /\ c[i].side = b[i].side /\ c[i].price = b[i].price /\ c[i].ahead = b[i].ahead
           /\ c[i].quantity = IF i = id THEN q ELSE b[i].quantity
  <2>1. IsResized(c, b, id, q)
    BY <1>1, ResizedBook
  <2> QED
    BY <2>1 DEF IsResized
<1>3. /\ u \in [DOMAIN o -> SomeNode]
      /\ \A i \in DOMAIN o :
           /\ u[i].side = o[i].side /\ u[i].price = o[i].price
           /\ u[i].level = o[i].level /\ u[i].previous = o[i].previous
           /\ u[i].next = o[i].next
           /\ u[i].quantity = IF i = id THEN q ELSE o[i].quantity
  BY <1>1, ResizedNode
<1>4. Counted(K, c) /\ K \in [DOMAIN L -> PriceLevel]
      /\ \A k \in DOMAIN L : K[k].head = L[k].head /\ K[k].tail = L[k].tail
  BY <1>1, ResizeCounted
<1>5. v = [orders |-> u, levels |-> K, indices |-> m.indices]
  BY DEF Resized
<1> HIDE DEF c, u, K, v
<1>6. v.orders = u /\ v.levels = K /\ v.indices = m.indices
  BY <1>5
<1>7. IsImpl(v)
  BY <1>1, <1>3, <1>4, <1>5, <1>6 DEF IsImpl
<1>8. ASSUME NEW i \in DOMAIN b
      PROVE  Agrees(u, K, c, i) /\ Before(u, K, c, i) /\ After(u, K, c, i)
  <2>1. /\ Agrees(o, L, b, i) /\ Before(o, L, b, i) /\ After(o, L, b, i) /\ i \in DOMAIN o
        /\ Queue(b, o[i].level) \subseteq DOMAIN b
    BY <1>1 DEF Queue
  <2>2. o[i].level \in DOMAIN L /\ DOMAIN K = DOMAIN L
    BY <1>4, <2>1 DEF Agrees
  <2>3. Agrees(u, K, c, i)
    BY <1>2, <1>3, <2>1, <2>2 DEF Agrees
  <2>4. Before(u, K, c, i)
    BY <1>1, <1>2, <1>3, <1>4, <2>1, <2>2 DEF Before
  <2>5. After(u, K, c, i)
    BY <1>1, <1>2, <1>3, <1>4, <2>1, <2>2 DEF After
  <2> QED
    BY <2>3, <2>4, <2>5
<1>9. ASSUME NEW k \in DOMAIN K
      PROVE  Ends(u, K, c, k)
  <2>1. k \in DOMAIN L /\ Ends(o, L, b, k) /\ Queue(b, k) \subseteq DOMAIN o
    BY <1>1, <1>4 DEF Queue
  <2> QED
    BY <1>2, <1>3, <1>4, <2>1 DEF Ends
<1>10. Linked(u, K, c)
  BY <1>1, <1>2, <1>3, <1>8, <1>9 DEF Linked
<1>11. Holds(v, c)
  BY <1>2, <1>4, <1>6, <1>7, <1>10 DEF Holds
<1>12. Represents(v, c)
  BY <1>1, <1>2, <1>3, <1>6, <1>11 DEF Represents, Indexed
<1>13. NoNewEmpty(m, b, v, c)
  BY <1>2, <1>4, <1>6 DEF NoNewEmpty
<1> QED
  BY <1>12, <1>13 DEF Makes, c, v

-----------------------------------------------------------------------------
(* erase and cancel.                                                       *)

LEMMA EraseMakes ==
  ASSUME NEW m, NEW b, Represents(m, b), NEW id \in DOMAIN b
  PROVE  Makes(m, b, erase_node(m, id), Leave(b, id))
<1> DEFINE c == Leave(b, id)
           l == m.orders[id].level
           e == Vacate(m, id, FALSE)
           u == [e EXCEPT !.orders = Drop(@, id)]
<1>0. erase_node(m, id) = u
  BY DEF erase_node, Vacate, Unlink
<1>1. Holds(m, b) /\ Indexed(m.indices, b) /\ DOMAIN m.orders = DOMAIN b
  BY DEF Represents
<1>2. Vacated(m, b, id, FALSE, e)
  BY <1>1, VacateHolds
<1>3. id \in Queue(b, l) /\ DOMAIN c = DOMAIN b \ {id} /\ \A k : Queue(c, k) = Queue(b, k) \ {id}
  <2>1. l = <<b[id].side, b[id].price>> /\ id \in Queue(b, <<b[id].side, b[id].price>>)
    BY <1>1, LevelOf
  <2>2. \A k : Queue(c, k) = Queue(b, k) \ {id}
    BY LeaveQueue
  <2> HIDE DEF l
  <2> QED
    BY <2>1, <2>2, LeaveDomain
<1> HIDE DEF e, c, l
<1>4. /\ Holds(e, c) /\ DOMAIN e.orders = DOMAIN b
      /\ e = [orders |-> e.orders, levels |-> e.levels, indices |-> e.indices]
      /\ IsImpl(e)
  BY <1>1, <1>2 DEF Vacated, Bypassed, Holds, IsImpl, c
<1>5. u = [orders |-> Drop(e.orders, id), levels |-> e.levels, indices |-> e.indices]
  BY <1>4
<1> HIDE DEF u
<1>6. u.orders = Drop(e.orders, id) /\ u.levels = e.levels /\ u.indices = e.indices
  BY <1>5
<1>7. /\ DOMAIN u.orders = DOMAIN c /\ u.orders \in [DOMAIN u.orders -> SomeNode]
      /\ DOMAIN u.orders \in SUBSET OrderId
      /\ \A i \in DOMAIN c : u.orders[i] = e.orders[i]
  BY <1>3, <1>4, <1>6 DEF Drop, Restrict, IsImpl
<1>8. IsImpl(u)
  BY <1>4, <1>5, <1>6, <1>7 DEF IsImpl
<1>9. Holds(u, c)
  <2>1. SameLists(e, c, u)
    BY <1>4, <1>6, <1>7, CountTells DEF SameLists
  <2> QED
    BY <1>4, <1>8, <2>1, SameListsHold
<1>10. ASSUME NEW k, k # l PROVE Queue(c, k) = Queue(b, k)
  <2>1. id \notin Queue(b, k)
    BY <1>3, <1>10 DEF Queue
  <2> QED
    BY <1>3, <2>1
<1>11. /\ \A s \in Side, p \in Price :
            p \in e.indices[s] <=> p \in m.indices[s] /\ (<<s, p>> = l => Queue(c, l) # {})
       /\ \A k : k \in DOMAIN e.levels <=> k \in DOMAIN m.levels /\ (k = l => Queue(c, l) # {})
  BY <1>2 DEF Vacated, c, l
<1>12. Indexed(u.indices, c)
  <2> SUFFICES ASSUME NEW s \in Side, NEW p \in Price
               PROVE  p \in e.indices[s] <=> Queue(c, <<s, p>>) # {}
    BY <1>6 DEF Indexed
  <2>1. p \in m.indices[s] <=> Queue(b, <<s, p>>) # {}
    BY <1>1 DEF Indexed
  <2>2. CASE <<s, p>> = l
    BY <1>3, <1>11, <2>1, <2>2
  <2>3. CASE <<s, p>> # l
    BY <1>10, <1>11, <2>1, <2>3
  <2> QED
    BY <2>2, <2>3
<1>13. NoNewEmpty(m, b, u, c)
  BY <1>6, <1>10, <1>11 DEF NoNewEmpty
<1> QED
  BY <1>0, <1>7, <1>9, <1>12, <1>13 DEF Makes, Represents, c

LEMMA CancelMakes ==
  ASSUME NEW m, NEW b, Represents(m, b), NEW id \in DOMAIN b, NEW q \in Nat \ {0},
         q <= b[id].quantity
  PROVE  Makes(m, b, cancel(m, id, q), Cancel(b, id, q))
<1> DEFINE l == m.orders[id].level
<1>1. /\ m.orders[id].quantity = b[id].quantity /\ b[id].quantity \in Nat
      /\ l \in DOMAIN m.levels
      /\ m = [orders |-> m.orders, levels |-> m.levels, indices |-> m.indices]
  <2>1. Holds(m, b)
    BY DEF Represents
  <2>2. /\ m.orders[id].quantity = b[id].quantity /\ b[id].quantity \in Nat
        /\ l = <<b[id].side, b[id].price>> /\ <<b[id].side, b[id].price>> \in DOMAIN m.levels
    BY <2>1, LevelOf
  <2> HIDE DEF l
  <2> QED
    BY <2>1, <2>2 DEF Holds, IsImpl
<1>2. CASE q = b[id].quantity
  BY <1>1, <1>2, EraseMakes DEF cancel, Cancel
<1>3. CASE q # b[id].quantity
  <2> DEFINE r == b[id].quantity - q
  <2>1. r \in Nat \ {0} /\ m.orders[id].quantity - r = q /\ m.orders[id].quantity - q = r
    BY <1>1, <1>3
  <2>2. cancel(m, id, q) = Resized(m, id, r)
    <3>1. cancel(m, id, q) = [m EXCEPT !.orders[id].quantity = @ - q, !.levels[l].quantity = @ - q]
      BY <1>1, <1>3 DEF cancel
    <3>2. /\ [m.orders EXCEPT ![id].quantity = @ - q] = ResizedOrders(m, id, r)
          /\ [m.levels EXCEPT ![l].quantity = @ - q] = ResizedLevels(m, id, r)
      BY <2>1 DEF ResizedOrders, ResizedLevels
    <3>3. cancel(m, id, q) = [[m EXCEPT !.orders = ResizedOrders(m, id, r)]
                                 EXCEPT !.levels = ResizedLevels(m, id, r)]
      BY <1>1, <3>1, <3>2
    <3> QED
      BY <1>1, <3>3 DEF Resized
  <2>3. Cancel(b, id, q) = [b EXCEPT ![id].quantity = r]
    BY <1>3 DEF Cancel
  <2> HIDE DEF r
  <2>4. Makes(m, b, Resized(m, id, r), [b EXCEPT ![id].quantity = r])
    BY <2>1, ResizeMakes
  <2> QED
    BY <2>2, <2>3, <2>4
<1> QED
  BY <1>2, <1>3

-----------------------------------------------------------------------------
(* modify.                                                                 *)

\* A price change, or more shares: out of one list and into another.
Moved(m, id, p, q) ==
  LET new == <<m.orders[id].side, p>>
      g == get_or_create_level(m, new)
      x == IF new # m.orders[id].level /\ g.levels[new].order_count = 0
           THEN [g EXCEPT !.indices[m.orders[id].side] = @ \cup {p}] ELSE g
      e == Vacate(x, id, m.orders[id].level = new)
  IN append([e EXCEPT !.orders[id] = [@ EXCEPT !.price = p, !.quantity = q]], new, id)

LEMMA MovedMakes ==
  ASSUME NEW m, NEW b, Represents(m, b), NEW id \in DOMAIN b, NEW p \in Price,
         NEW q \in Nat \ {0}
  PROVE  Makes(m, b, Moved(m, id, p, q), PushBack(Leave(b, id), id, b[id].side, p, q))
<1> DEFINE l == m.orders[id].level
           s == m.orders[id].side
           new == <<s, p>>
           kept == l = new
           g == get_or_create_level(m, new)
           x == IF new # l /\ g.levels[new].order_count = 0
                THEN [g EXCEPT !.indices[s] = @ \cup {p}] ELSE g
           e == Vacate(x, id, kept)
           f == [e EXCEPT !.orders[id] = [@ EXCEPT !.price = p, !.quantity = q]]
           u == append(f, new, id)
           c == Leave(b, id)
           d == PushBack(c, id, b[id].side, p, q)
<1>0. Moved(m, id, p, q) = u
  BY DEF Moved
<1>1. /\ Holds(m, b) /\ Indexed(m.indices, b) /\ DOMAIN m.orders = DOMAIN b
      /\ m.indices \in [Side -> SUBSET Price] /\ DOMAIN b \in SUBSET OrderId
  BY DEF Represents, Holds, IsImpl
<1>2. /\ s = b[id].side /\ s \in Side /\ l = <<b[id].side, b[id].price>>
      /\ l \in DOMAIN m.levels /\ id \in Queue(b, l) /\ new \in LevelKey
  <2>1. /\ s = b[id].side /\ b[id].side \in Side /\ l = <<b[id].side, b[id].price>>
        /\ <<b[id].side, b[id].price>> \in DOMAIN m.levels
        /\ id \in Queue(b, <<b[id].side, b[id].price>>)
    BY <1>1, LevelOf
  <2> HIDE DEF l, s
  <2> QED
    BY <2>1 DEF LevelKey
<1>3. /\ DOMAIN c = DOMAIN b \ {id} /\ \A k : Queue(c, k) = Queue(b, k) \ {id}
  <2>1. \A k : Queue(c, k) = Queue(b, k) \ {id}
    BY LeaveQueue
  <2> QED
    BY <2>1, LeaveDomain
<1>4. \A k : Queue(d, k) = IF k = new THEN Queue(c, k) \cup {id} ELSE Queue(c, k)
  <2>1. id \notin DOMAIN c
    BY <1>3
  <2>2. \A k : Queue(d, k) = IF k = <<b[id].side, p>> THEN Queue(c, k) \cup {id} ELSE Queue(c, k)
    <3> HIDE DEF c
    <3> QED
      BY <2>1, PushBackQueue
  <2> QED
    BY <1>2, <2>2
<1>5. Created(m, b, new, g)
  BY <1>1, <1>2, CreateHolds
<1> HIDE DEF l, s, new, g, c, d
<1>6. /\ Holds(g, b) /\ new \in DOMAIN g.levels /\ g.orders = m.orders /\ g.indices = m.indices
      /\ DOMAIN g.levels = DOMAIN m.levels \cup {new}
      /\ g.levels[new].order_count = 0 <=> Queue(b, new) = {}
  BY <1>5, CountTells DEF Created
<1> DEFINE active == new = l \/ Queue(b, new) # {}
           X == IF active THEN m.indices ELSE [m.indices EXCEPT ![s] = @ \cup {p}]
<1>7. /\ Holds(x, b) /\ x.orders = m.orders /\ x.levels = g.levels /\ x.indices = X
  <2>1. g = [orders |-> g.orders, levels |-> g.levels, indices |-> g.indices] /\ IsImpl(g)
    BY <1>6 DEF Holds, IsImpl
  <2>2. X \in [Side -> SUBSET Price]
    BY <1>1
  <2>3. x = IF active THEN g ELSE [g EXCEPT !.indices[s] = @ \cup {p}]
    BY <1>6
  <2> HIDE DEF x
  <2>4. x = [orders |-> g.orders, levels |-> g.levels, indices |-> X]
    BY <1>6, <2>1, <2>3
  <2> HIDE DEF X
  <2>5. x.orders = g.orders /\ x.levels = g.levels /\ x.indices = X
    BY <2>4
  <2>6. IsImpl(x)
    BY <2>1, <2>2, <2>4, <2>5 DEF IsImpl
  <2>7. SameLists(g, b, x)
    BY <1>6, <2>5 DEF SameLists, Holds, Linked
  <2>8. Holds(x, b)
    BY <1>6, <2>6, <2>7, SameListsHold
  <2> QED
    BY <1>6, <2>5, <2>8
<1> HIDE DEF x, X
<1>8. Vacated(x, b, id, kept, e)
  BY <1>7, VacateHolds
<1> HIDE DEF e
<1>9. /\ Holds(e, c) /\ e.orders = Bypassed(x, id) /\ DOMAIN e.orders = DOMAIN b
      /\ e.orders[id].side = s
      /\ \A t \in Side, r \in Price :
           r \in e.indices[t] <=> r \in X[t] /\ (<<t, r>> = l => Queue(c, l) # {} \/ kept)
      /\ \A k : k \in DOMAIN e.levels <=>
                  /\ k \in DOMAIN m.levels \cup {new}
                  /\ k = l => Queue(c, l) # {} \/ kept
  <2>1. x.orders[id].level = l /\ x.orders[id].side = s
    BY <1>7 DEF l, s
  <2>2. DOMAIN Bypassed(x, id) = DOMAIN b /\ Bypassed(x, id)[id].side = s
    BY <1>1, <1>7, <2>1 DEF Bypassed
  <2> QED
    BY <1>6, <1>7, <1>8, <2>1, <2>2 DEF Vacated, c
<1>10. /\ Holds(f, c) /\ DOMAIN f.orders = DOMAIN b
       /\ f.levels = e.levels /\ f.indices = e.indices
       /\ f.orders[id].side = s /\ f.orders[id].price = p /\ f.orders[id].quantity = q
  <2> DEFINE n == [e.orders[id] EXCEPT !.price = p, !.quantity = q]
             O == [e.orders EXCEPT ![id] = n]
  <2>1. /\ e = [orders |-> e.orders, levels |-> e.levels, indices |-> e.indices] /\ IsImpl(e)
        /\ e.orders \in [DOMAIN e.orders -> SomeNode]
    BY <1>9 DEF Holds, IsImpl
  <2>2. e.orders[id] \in SomeNode
    BY <1>9, <2>1
  <2>3. n \in SomeNode /\ n.side = s /\ n.price = p /\ n.quantity = q
    <3> DEFINE n1 == [e.orders[id] EXCEPT !.price = p]
               n2 == [n1 EXCEPT !.quantity = q]
    <3>1. n1 \in SomeNode /\ n1.side = e.orders[id].side /\ n1.price = p
      BY <2>2 DEF SomeNode
    <3>2. n = n2
      OBVIOUS
    <3> HIDE DEF n1, n
    <3>3. n2 \in SomeNode /\ n2.side = n1.side /\ n2.price = n1.price /\ n2.quantity = q
      BY <3>1 DEF SomeNode
    <3> QED
      BY <1>9, <3>1, <3>2, <3>3
  <2>4. f = [orders |-> O, levels |-> e.levels, indices |-> e.indices]
    BY <2>1
  <2> HIDE DEF f, n
  <2>5. /\ O \in [DOMAIN e.orders -> SomeNode] /\ O[id] = n
        /\ \A i \in DOMAIN c : O[i] = e.orders[i] /\ i \in DOMAIN e.orders
    BY <1>3, <1>9, <2>1, <2>3
  <2> HIDE DEF O
  <2>6. f.orders = O /\ f.levels = e.levels /\ f.indices = e.indices
    BY <2>4
  <2>7. DOMAIN O = DOMAIN e.orders
    BY <2>5
  <2>8. IsImpl(f)
    BY <2>1, <2>4, <2>5, <2>6, <2>7 DEF IsImpl
  <2>9. SameLists(e, c, f)
    BY <1>9, <2>5, <2>6, <2>7, CountTells DEF SameLists
  <2> QED
    BY <1>9, <2>3, <2>5, <2>6, <2>7, <2>8, <2>9, SameListsHold
<1> HIDE DEF f
<1>11. Loose(f, c, new, id)
  BY <1>3, <1>9, <1>10 DEF Loose, new
<1>12. Holds(u, d)
  BY <1>2, <1>10, <1>11, AppendHolds DEF Appended, d
<1>13. /\ u.indices = e.indices /\ DOMAIN u.levels = DOMAIN e.levels
       /\ DOMAIN u.orders = DOMAIN b /\ DOMAIN d = DOMAIN b
  <2>1. DOMAIN d = DOMAIN c \cup {id}
    BY DEF d, PushBack
  <2>2. u = [orders |-> Chained(f, new, id),
             levels |-> [f.levels EXCEPT ![new] = Grown(f, new, id)], indices |-> f.indices]
    BY <1>10, <1>11, AppendIs
  <2>3. DOMAIN Chained(f, new, id) = DOMAIN f.orders
    BY DEF Chained
  <2>4. id \in DOMAIN b
    OBVIOUS
  <2> HIDE DEF u
  <2> QED
    BY <1>3, <1>10, <2>1, <2>2, <2>3, <2>4
<1> HIDE DEF u
<1>14. ASSUME NEW k, k # l PROVE Queue(c, k) = Queue(b, k)
  <2>1. id \notin Queue(b, k)
    BY <1>2, <1>14 DEF Queue
  <2> QED
    BY <1>3, <2>1
<1>15. Indexed(u.indices, d)
  <2> SUFFICES ASSUME NEW t \in Side, NEW r \in Price
               PROVE  r \in e.indices[t] <=> Queue(d, <<t, r>>) # {}
    BY <1>13 DEF Indexed
  <2> DEFINE k == <<t, r>>
  <2>1. r \in m.indices[t] <=> Queue(b, k) # {}
    BY <1>1 DEF Indexed
  <2>2. r \in X[t] <=> r \in m.indices[t] \/ (~active /\ k = new)
    BY <1>1 DEF X, new
  <2>3. r \in e.indices[t] <=> r \in X[t] /\ (k = l => Queue(c, l) # {} \/ kept)
    BY <1>9
  <2>0. <<t, r>> = k
    OBVIOUS
  <2> HIDE DEF k
  <2>4. CASE k = new
    <3>1. Queue(d, k) # {}
      BY <1>4, <2>4
    <3>2. r \in X[t]
      BY <1>2, <2>1, <2>2, <2>4
    <3> QED
      BY <1>2, <2>0, <2>3, <2>4, <3>1, <3>2
  <2>5. CASE k # new
    <3>1. Queue(d, k) = Queue(c, k)
      BY <1>4, <2>5
    <3>2. CASE k = l
      BY <1>2, <2>0, <2>1, <2>2, <2>3, <2>5, <3>1, <3>2
    <3>3. CASE k # l
      BY <1>14, <2>0, <2>1, <2>2, <2>3, <2>5, <3>1, <3>3
    <3> QED
      BY <3>2, <3>3
  <2> QED
    BY <2>4, <2>5 DEF k
<1>16. NoNewEmpty(m, b, u, d)
  <2> SUFFICES ASSUME NEW k \in DOMAIN e.levels, Queue(d, k) = {}
               PROVE  k \in DOMAIN m.levels /\ Queue(b, k) = {}
    BY <1>13 DEF NoNewEmpty
  <2>1. k # new /\ Queue(c, k) = {}
    BY <1>4
  <2>2. k \in DOMAIN m.levels /\ k # l
    BY <1>9, <2>1
  <2> QED
    BY <1>14, <2>1, <2>2
<1> QED
  BY <1>0, <1>12, <1>13, <1>15, <1>16 DEF Makes, Represents, u, d, c

LEMMA ModifyMakes ==
  ASSUME NEW m, NEW b, Represents(m, b), NEW id \in DOMAIN b, NEW p \in Price,
         NEW q \in Nat \ {0}
  PROVE  Makes(m, b, modify(m, id, p, q), Modify(b, id, p, q))
<1>1. /\ m.orders[id].price = b[id].price /\ m.orders[id].quantity = b[id].quantity
      /\ m.orders[id].side = b[id].side
      /\ m = [orders |-> m.orders, levels |-> m.levels, indices |-> m.indices]
  <2>1. Holds(m, b)
    BY DEF Represents
  <2>2. Agrees(m.orders, m.levels, b, id)
    BY <2>1 DEF Holds, Linked
  <2> QED
    BY <2>1, <2>2 DEF Holds, IsImpl, Agrees
<1>2. CASE keeps_priority(m, id, p, q)
  <2>1. modify(m, id, p, q)
          = [m EXCEPT !.levels[m.orders[id].level].quantity = @ - (m.orders[id].quantity - q),
                      !.orders[id].quantity = q]
    BY <1>2 DEF modify
  <2>2. modify(m, id, p, q) = [[m EXCEPT !.levels = ResizedLevels(m, id, q)]
                                  EXCEPT !.orders = ResizedOrders(m, id, q)]
    BY <1>1, <2>1 DEF ResizedLevels, ResizedOrders
  <2>3. modify(m, id, p, q) = Resized(m, id, q)
    BY <1>1, <2>2 DEF Resized
  <2>4. Modify(b, id, p, q) = [b EXCEPT ![id].quantity = q]
    BY <1>1, <1>2 DEF Modify, keeps_priority
  <2>5. Makes(m, b, Resized(m, id, q), [b EXCEPT ![id].quantity = q])
    BY ResizeMakes
  <2> QED
    BY <2>3, <2>4, <2>5
<1>3. CASE ~keeps_priority(m, id, p, q)
  <2>1. modify(m, id, p, q) = Moved(m, id, p, q)
    <3> DEFINE l == m.orders[id].level
               new == <<m.orders[id].side, p>>
               g == get_or_create_level(m, new)
               x == IF new # l /\ g.levels[new].order_count = 0
                    THEN [g EXCEPT !.indices[m.orders[id].side] = @ \cup {p}] ELSE g
               d == detach([x EXCEPT !.levels[l].quantity = @ - m.orders[id].quantity], l, id)
               e == IF d.levels[l].order_count = 0 /\ l # new
                    THEN DeactivatePrice(d, m.orders[id].side, m.orders[id].price) ELSE d
    <3>1. modify(m, id, p, q)
            = append([e EXCEPT !.orders[id] = [@ EXCEPT !.price = p, !.quantity = q]], new, id)
      BY <1>3, Zenon DEF modify
    <3>2. x.orders = m.orders
      BY <1>1 DEF get_or_create_level
    <3> HIDE DEF x
    <3>3. d = Unlink(x, id)
      BY <3>2 DEF Unlink
    <3> HIDE DEF d
    <3>4. e = Vacate(x, id, l = new)
      BY <3>2, <3>3 DEF Vacate
    <3> HIDE DEF e
    <3>5. Moved(m, id, p, q)
            = append([Vacate(x, id, l = new)
                        EXCEPT !.orders[id] = [@ EXCEPT !.price = p, !.quantity = q]],
                     new, id)
      BY Zenon DEF Moved, x
    <3> QED
      BY <3>1, <3>4, <3>5, Zenon
  <2>2. Modify(b, id, p, q) = PushBack(Leave(b, id), id, b[id].side, p, q)
    BY <1>1, <1>3 DEF Modify, keeps_priority
  <2>3. Makes(m, b, Moved(m, id, p, q), PushBack(Leave(b, id), id, b[id].side, p, q))
    BY MovedMakes
  <2> QED
    BY <2>1, <2>2, <2>3
<1> QED
  BY <1>2, <1>3

LEMMA ModifyThrows ==
  ASSUME NEW m, NEW b, Represents(m, b), NEW id \in DOMAIN b, NEW p \in Price,
         NEW q, NEW u \in modify_throws(m, id, p, q)
  PROVE  Represents(u, b)
<1> DEFINE new == <<m.orders[id].side, p>>
           g == get_or_create_level(m, new)
<1>1. u = m \/ u = g
  BY DEF modify_throws
<1>2. new \in LevelKey /\ Holds(m, b)
  BY LevelOf DEF Represents, LevelKey
<1>3. Created(m, b, new, g)
  BY <1>2, CreateHolds
<1> HIDE DEF g
<1>4. Represents(g, b)
  BY <1>3 DEF Created, Represents
<1> QED
  BY <1>1, <1>4

-----------------------------------------------------------------------------
(* replace, and the empty book.                                            *)

\* An insertion and then a deletion.
LEMMA MakesThen ==
  ASSUME NEW m, NEW b, NEW u, NEW c, NEW v, NEW d, Makes(m, b, u, c), Makes(u, c, v, d)
  PROVE  Makes(m, b, v, d)
BY DEF Makes, NoNewEmpty

LEMMA ReplaceMakes ==
  ASSUME NEW m, NEW b, Represents(m, b), NEW old \in DOMAIN b, NEW new \in OrderId,
         new # old => new \notin DOMAIN b, NEW p \in Price, NEW q \in Nat \ {0}
  PROVE  Makes(m, b, replace(m, old, new, p, q), Replace(b, old, new, p, q))
<1>1. m.orders[old].side = b[old].side /\ b[old].side \in Side
  <2>1. Holds(m, b) /\ IsBook(b)
    BY DEF Represents, Holds, FiniteBook
  <2>2. Agrees(m.orders, m.levels, b, old)
    BY <2>1 DEF Holds, Linked
  <2> QED
    BY <2>1, <2>2 DEF Agrees, IsBook, Order
<1>2. CASE old = new
  BY <1>2, ModifyMakes DEF replace, Replace
<1>3. CASE old # new
  <2> DEFINE u == add(m, new, b[old].side, p, q)
             c == Add(b, new, b[old].side, p, q)
  <2>1. Makes(m, b, u, c)
    BY <1>1, <1>3, AddMakes
  <2>2. old \in DOMAIN c /\ Represents(u, c)
    BY <2>1, AddDomain DEF Makes
  <2>3. replace(m, old, new, p, q) = erase_node(u, old)
    BY <1>1, <1>3 DEF replace
  <2>4. Replace(b, old, new, p, q) = Leave(c, old)
    BY <1>3 DEF Replace, Add
  <2> HIDE DEF u, c
  <2>5. Makes(u, c, erase_node(u, old), Leave(c, old))
    BY <2>2, EraseMakes
  <2> QED
    BY <2>1, <2>3, <2>4, <2>5, MakesThen
<1> QED
  BY <1>2, <1>3

LEMMA ReplaceThrows ==
  ASSUME NEW m, NEW b, Represents(m, b), NEW old \in DOMAIN b, NEW new \in OrderId,
         new # old => new \notin DOMAIN b, NEW p \in Price, NEW q,
         NEW u \in replace_throws(m, old, new, p, q)
  PROVE  Represents(u, b)
<1>1. m.orders[old].side = b[old].side /\ b[old].side \in Side
  <2>1. Holds(m, b) /\ IsBook(b)
    BY DEF Represents, Holds, FiniteBook
  <2>2. Agrees(m.orders, m.levels, b, old)
    BY <2>1 DEF Holds, Linked
  <2> QED
    BY <2>1, <2>2 DEF Agrees, IsBook, Order
<1>2. CASE old = new
  BY <1>2, ModifyThrows DEF replace_throws
<1>3. CASE old # new
  <2>1. u \in add_throws(m, new, b[old].side, p, q)
    BY <1>1, <1>3 DEF replace_throws
  <2> QED
    BY <1>1, <1>3, <2>1, AddThrows
<1> QED
  BY <1>2, <1>3

\* A book without orders, levels or prices (the constructor, clear).
LEMMA EmptyRepresents ==
  Represents([orders |-> <<>>, levels |-> <<>>, indices |-> [s \in Side |-> {}]], EmptyBook)
<1> DEFINE m == [orders |-> <<>>, levels |-> <<>>, indices |-> [s \in Side |-> {}]]
<1>1. DOMAIN EmptyBook = {} /\ EmptyBook = [i \in DOMAIN EmptyBook |-> EmptyBook[i]]
  BY DEF EmptyBook
<1>2. FiniteBook(EmptyBook)
  BY <1>1, EmptyBookType, FS_EmptySet DEF FiniteBook
<1>3. \A k : Queue(EmptyBook, k) = {}
  BY <1>1 DEF Queue
<1>4. m.orders = <<>> /\ m.levels = <<>> /\ m.indices = [s \in Side |-> {}]
  OBVIOUS
<1>5. IsImpl(m)
  BY DEF IsImpl
<1>6. DOMAIN m.orders = {} /\ DOMAIN m.levels = {}
  OBVIOUS
<1>7. Linked(m.orders, m.levels, EmptyBook) /\ Counted(m.levels, EmptyBook)
  BY <1>1, <1>6 DEF Linked, Counted
<1>8. Indexed(m.indices, EmptyBook)
  BY <1>3, <1>4 DEF Indexed
<1> QED
  BY <1>1, <1>2, <1>5, <1>6, <1>7, <1>8 DEF Represents, Holds

-----------------------------------------------------------------------------
(* The book is determined by the lists.                                    *)

\* The orders ahead that are in the book: fewer for the previous order, so
\* that following `previous' ends.
AheadIn(b, i) == b[i].ahead \cap DOMAIN b

\* One step towards the head.
LEMMA PreviousAhead ==
  ASSUME NEW m, NEW b, Represents(m, b), NEW i \in DOMAIN b
  PROVE  LET j == m.orders[i].previous
         IN /\ j = Null => b[i].ahead = {}
            /\ j # Null => /\ j \in DOMAIN b /\ b[i].ahead = b[j].ahead \cup {j}
                           /\ j \notin b[j].ahead
                           /\ AheadIn(b, j) \in SUBSET AheadIn(b, i)
                           /\ AheadIn(b, j) # AheadIn(b, i)
<1>1. Linked(m.orders, m.levels, b)
  BY DEF Represents, Holds
<1>2. Before(m.orders, m.levels, b, i)
  BY <1>1 DEF Linked
<1>3. \A j \in DOMAIN b : j \notin b[j].ahead
  BY <1>1 DEF Linked, Agrees
<1> DEFINE j == m.orders[i].previous
<1>4. CASE j = Null
  BY <1>2, <1>4 DEF Before
<1>5. CASE j # Null
  <2>1. j \in DOMAIN b /\ b[i].ahead = b[j].ahead \cup {j}
    BY <1>2, <1>5 DEF Before, Queue
  <2> QED
    BY <1>3, <1>5, <2>1 DEF AheadIn
<1> QED
  BY <1>4, <1>5

\* What Ahead computes.
IsAhead(o, f) ==
  f = [i \in DOMAIN o |->
         IF o[i].previous = Null THEN {} ELSE f[o[i].previous] \cup {o[i].previous}]

LEMMA AheadFinds ==
  ASSUME NEW m, NEW b, Represents(m, b), NEW f, IsAhead(m.orders, f)
  PROVE  \A i \in DOMAIN b : f[i] = b[i].ahead
<1> DEFINE D == DOMAIN b
           T == {s \in SUBSET D : \A i \in D : AheadIn(b, i) = s => f[i] = b[i].ahead}
<1>1. IsFiniteSet(D) /\ DOMAIN m.orders = D
  BY DEF Represents, Holds, FiniteBook
<1>2. T \in SUBSET (SUBSET D)
  OBVIOUS
<1>3. \A i \in D : f[i] = IF m.orders[i].previous = Null THEN {}
                          ELSE f[m.orders[i].previous] \cup {m.orders[i].previous}
  BY <1>1 DEF IsAhead
<1>4. ASSUME NEW s \in SUBSET D, \A u \in SUBSET s : u # s => u \in T
      PROVE  s \in T
  <2> SUFFICES ASSUME NEW i \in D, AheadIn(b, i) = s
               PROVE  f[i] = b[i].ahead
    OBVIOUS
  <2> DEFINE j == m.orders[i].previous
  <2>1. CASE j = Null
    BY <1>3, <2>1, PreviousAhead
  <2>2. CASE j # Null
    <3>1. /\ j \in D /\ b[i].ahead = b[j].ahead \cup {j}
          /\ AheadIn(b, j) \in SUBSET s /\ AheadIn(b, j) # s
      BY <2>2, PreviousAhead
    <3>2. AheadIn(b, j) \in T
      BY <1>4, <3>1
    <3>3. f[j] = b[j].ahead
      BY <3>1, <3>2
    <3> QED
      BY <1>3, <2>2, <3>1, <3>3
  <2> QED
    BY <2>1, <2>2
<1> HIDE DEF T
<1>5. T = SUBSET D
  BY <1>1, <1>2, <1>4, SubsetSet
<1> QED
  <2> SUFFICES ASSUME NEW i \in D
               PROVE  f[i] = b[i].ahead
    OBVIOUS
  <2>1. AheadIn(b, i) \in T
    BY <1>5 DEF AheadIn
  <2> QED
    BY <2>1 DEF T

\* An order is behind all that are ahead of one ahead of it.
LEMMA AheadOrdered ==
  ASSUME NEW m, NEW b, Represents(m, b)
  PROVE  \A j \in DOMAIN b : \A i \in b[j].ahead :
            i \in DOMAIN b /\ b[i].ahead \cup {i} \subseteq b[j].ahead
<1> DEFINE D == DOMAIN b
           Good(j) == \A i \in b[j].ahead : i \in D /\ b[i].ahead \cup {i} \subseteq b[j].ahead
           T == {s \in SUBSET D : \A j \in D : AheadIn(b, j) = s => Good(j)}
<1>1. IsFiniteSet(D)
  BY DEF Represents, Holds, FiniteBook
<1>2. T \in SUBSET (SUBSET D)
  OBVIOUS
<1>4. ASSUME NEW s \in SUBSET D, \A u \in SUBSET s : u # s => u \in T
      PROVE  s \in T
  <2> SUFFICES ASSUME NEW j \in D, AheadIn(b, j) = s
               PROVE  Good(j)
    OBVIOUS
  <2> DEFINE k == m.orders[j].previous
  <2>1. CASE k = Null
    BY <2>1, PreviousAhead
  <2>2. CASE k # Null
    <3>1. /\ k \in D /\ b[j].ahead = b[k].ahead \cup {k}
          /\ AheadIn(b, k) \in SUBSET s /\ AheadIn(b, k) # s
      BY <2>2, PreviousAhead
    <3>2. AheadIn(b, k) \in T
      BY <1>4, <3>1
    <3>3. Good(k)
      BY <3>1, <3>2
    <3> QED
      BY <3>1, <3>3
  <2> QED
    BY <2>1, <2>2
<1> HIDE DEF T
<1>5. T = SUBSET D
  BY <1>1, <1>2, <1>4, SubsetSet
<1> QED
  <2> SUFFICES ASSUME NEW j \in D
               PROVE  Good(j)
    OBVIOUS
  <2>1. AheadIn(b, j) \in T
    BY <1>5 DEF AheadIn
  <2> QED
    BY <2>1 DEF T

LEMMA RepresentedIs == \A b : Represents(impl, b) => RepresentedBook = b
<1> SUFFICES ASSUME NEW b, Represents(impl, b)
             PROVE  RepresentedBook = b
  OBVIOUS
<1> DEFINE o == impl.orders
           f == [i \in DOMAIN o |-> b[i].ahead]
<1>1. DOMAIN o = DOMAIN b
  BY DEF Represents
<1>2. Ahead = CHOOSE g : IsAhead(o, g)
  BY DEF Ahead, IsAhead
<1>3. IsAhead(o, f)
  <2>1. ASSUME NEW i \in DOMAIN o
        PROVE  f[i] = IF o[i].previous = Null THEN {} ELSE f[o[i].previous] \cup {o[i].previous}
    BY <1>1, PreviousAhead
  <2> QED
    BY <2>1 DEF IsAhead
<1>4. IsAhead(o, Ahead)
  BY <1>2, <1>3
<1>5. \A i \in DOMAIN b : Ahead[i] = b[i].ahead
  BY <1>4, AheadFinds
<1>6. ASSUME NEW i \in DOMAIN b
      PROVE  [side |-> o[i].side, price |-> o[i].price, quantity |-> o[i].quantity,
              ahead |-> Ahead[i]] = b[i]
  <2>1. Holds(impl, b)
    BY DEF Represents
  <2>2. Agrees(o, impl.levels, b, i) /\ b[i] \in Order
    BY <2>1 DEF Holds, Linked, FiniteBook, IsBook
  <2> QED
    BY <1>5, <2>2 DEF Agrees, Order
<1>7. b = [i \in DOMAIN b |-> b[i]]
  BY DEF Represents, Holds, FiniteBook
<1> QED
  BY <1>1, <1>6, <1>7 DEF RepresentedBook

-----------------------------------------------------------------------------
(* One call is one call on the book.                                       *)

\* Reference has its own copy of the operators of Book.tla.
LEMMA SameUpdates ==
  /\ EmptyBook = Reference!EmptyBook
  /\ \A b, id : Leave(b, id) = Reference!Leave(b, id)
  /\ \A b, id, s, p, q : PushBack(b, id, s, p, q) = Reference!PushBack(b, id, s, p, q)
<1>1. EmptyBook = Reference!EmptyBook
  BY DEF EmptyBook, Reference!EmptyBook
<1>2. \A b, id : Leave(b, id) = Reference!Leave(b, id)
  BY DEF Leave, Reference!Leave
<1>3. \A b, s, p : Level(b, s, p) = Reference!Level(b, s, p)
  BY DEF Level, Reference!Level
<1>4. ASSUME NEW b, NEW id, NEW s, NEW p, NEW q
      PROVE  PushBack(b, id, s, p, q) = Reference!PushBack(b, id, s, p, q)
  BY <1>3 DEF PushBack, Reference!PushBack
<1> QED
  BY <1>1, <1>2, <1>4

LEMMA SameOperations ==
  /\ \A b, id, s, p, q : Add(b, id, s, p, q) = Reference!Add(b, id, s, p, q)
  /\ \A b, id, q : Cancel(b, id, q) = Reference!Cancel(b, id, q)
  /\ \A b, id : Erase(b, id) = Reference!Erase(b, id)
  /\ \A b, id, p, q : Modify(b, id, p, q) = Reference!Modify(b, id, p, q)
  /\ \A b, old, new, p, q : Replace(b, old, new, p, q) = Reference!Replace(b, old, new, p, q)
<1>1. \A b, id, s, p, q : Add(b, id, s, p, q) = Reference!Add(b, id, s, p, q)
  BY SameUpdates DEF Add, Reference!Add
<1>2. \A b, id, q : Cancel(b, id, q) = Reference!Cancel(b, id, q)
  BY SameUpdates DEF Cancel, Reference!Cancel
<1>3. \A b, id : Erase(b, id) = Reference!Erase(b, id)
  BY SameUpdates DEF Erase, Reference!Erase
<1>4. ASSUME NEW b, NEW id, NEW p, NEW q
      PROVE  Modify(b, id, p, q) = Reference!Modify(b, id, p, q)
  BY SameUpdates DEF Modify, Reference!Modify
<1>5. ASSUME NEW b, NEW old, NEW new, NEW p, NEW q
      PROVE  Replace(b, old, new, p, q) = Reference!Replace(b, old, new, p, q)
  BY SameUpdates, <1>4 DEF Replace, Reference!Replace
<1> QED
  BY <1>1, <1>2, <1>3, <1>4, <1>5

LEMMA SameConditions ==
  /\ \A b, id, q : CanAdd(b, id, q) <=> Reference!CanAdd(b, id, q)
  /\ \A b, id, q : CanCancel(b, id, q) <=> Reference!CanCancel(b, id, q)
  /\ \A b, id : CanErase(b, id) <=> Reference!CanErase(b, id)
  /\ \A b, id, q : CanModify(b, id, q) <=> Reference!CanModify(b, id, q)
  /\ \A b, old, new, q : CanReplace(b, old, new, q) <=> Reference!CanReplace(b, old, new, q)
BY DEF CanAdd, Reference!CanAdd, CanCancel, Reference!CanCancel, CanErase, Reference!CanErase,
       CanModify, Reference!CanModify, CanReplace, Reference!CanReplace

\* The code's early returns are those of the book.
LEMMA SameGuards ==
  ASSUME NEW m, NEW b, Represents(m, b)
  PROVE  /\ \A id, q : add_accepts(m, id, q) <=> CanAdd(b, id, q)
         /\ \A id, q : cancel_accepts(m, id, q) <=> CanCancel(b, id, q)
         /\ \A id : erase_accepts(m, id) <=> CanErase(b, id)
         /\ \A id, q : modify_accepts(m, id, q) <=> CanModify(b, id, q)
         /\ \A old, new, q : replace_accepts(m, old, new, q) <=> CanReplace(b, old, new, q)
<1>1. DOMAIN m.orders = DOMAIN b /\ Holds(m, b)
  BY DEF Represents
<1>2. \A id \in DOMAIN b : m.orders[id].quantity = b[id].quantity
  BY <1>1 DEF Holds, Linked, Agrees
<1> QED
  BY <1>1, <1>2 DEF add_accepts, CanAdd, cancel_accepts, CanCancel, erase_accepts, CanErase,
                    modify_accepts, CanModify, replace_accepts, CanReplace

LEMMA RepresentedNext == \A b : Represents(impl', b) => RepresentedBook' = b
<1>1. (\A b : Represents(impl, b) => RepresentedBook = b)'
  BY RepresentedIs, PTL
<1> QED
  BY <1>1

\* The lists represent a book: the one they determine.
OrderBookInv ==
  /\ Represents(impl, RepresentedBook)
  /\ ret \in {"true", "false", "throw", "none"}

\* The lists represent a book again; an empty level is new only after a throw.
Kept ==
  /\ OrderBookInv'
  /\ ret' # "throw" => NoNewEmpty(impl, RepresentedBook, impl', RepresentedBook')

LEMMA Accepted ==
  ASSUME NEW m, NEW c, Makes(impl, RepresentedBook, m, c), Accept(m)
  PROVE  Kept /\ RepresentedBook' = c /\ ret' = "true"
<1>1. impl' = m /\ ret' = "true" /\ Represents(m, c)
  BY DEF Accept, Makes
<1>2. RepresentedBook' = c
  BY <1>1, RepresentedNext
<1> QED
  BY <1>1, <1>2 DEF Kept, OrderBookInv, Makes

LEMMA Refused ==
  ASSUME OrderBookInv, Refuse
  PROVE  Kept /\ RepresentedBook' = RepresentedBook /\ ret' = "false"
<1>1. impl' = impl /\ ret' = "false" /\ Represents(impl, RepresentedBook)
  BY DEF Refuse, OrderBookInv
<1>2. RepresentedBook' = RepresentedBook
  BY <1>1, RepresentedNext
<1> QED
  BY <1>1, <1>2 DEF Kept, OrderBookInv, NoNewEmpty

LEMMA Thrown ==
  ASSUME NEW m, Represents(m, RepresentedBook), Throw(m)
  PROVE  Kept /\ Reference!OutOfMemory
<1>1. impl' = m /\ ret' = "throw"
  BY DEF Throw
<1>2. RepresentedBook' = RepresentedBook
  BY <1>1, RepresentedNext
<1> QED
  BY <1>1, <1>2 DEF Kept, OrderBookInv, Reference!OutOfMemory

LEMMA AddStep ==
  ASSUME OrderBookInv, NEW id \in OrderId, NEW s \in Side, NEW p \in Price, NEW q \in Quantity,
         DoAdd(id, s, p, q)
  PROVE  Kept /\ (Reference!DoAdd(id, s, p, q) \/ Reference!OutOfMemory)
<1> DEFINE b == RepresentedBook
<1>1. Represents(impl, b) /\ (add_accepts(impl, id, q) <=> CanAdd(b, id, q))
  BY SameGuards DEF OrderBookInv
<1>2. CASE add_accepts(impl, id, q)
  <2>1. id \notin DOMAIN b /\ q \in Nat \ {0}
    BY <1>1, <1>2, BookAssumption DEF CanAdd
  <2>2. CASE Accept(add(impl, id, s, p, q))
    <3>1. Makes(impl, b, add(impl, id, s, p, q), Add(b, id, s, p, q))
      BY <1>1, <2>1, AddMakes
    <3>2. Kept /\ b' = Add(b, id, s, p, q) /\ ret' = "true"
      BY <2>2, <3>1, Accepted
    <3> QED
      BY <1>1, <1>2, <3>2, SameOperations, SameConditions
         DEF Reference!DoAdd, Reference!Accept
  <2>3. ASSUME NEW m \in add_throws(impl, id, s, p, q), Throw(m)
        PROVE  Kept /\ Reference!OutOfMemory
    <3>1. Represents(m, b)
      BY <1>1, <2>1, AddThrows
    <3> QED
      BY <2>3, <3>1, Thrown
  <2> QED
    BY <1>2, <2>2, <2>3 DEF DoAdd
<1>3. CASE ~add_accepts(impl, id, q)
  <2>1. Refuse
    BY <1>3 DEF DoAdd
  <2>2. Kept /\ b' = b /\ ret' = "false"
    BY <2>1, Refused
  <2> QED
    BY <1>1, <1>3, <2>2, SameConditions DEF Reference!DoAdd, Reference!Refuse
<1> QED
  BY <1>2, <1>3

LEMMA CancelStep ==
  ASSUME OrderBookInv, NEW id \in OrderId, NEW q \in Quantity, DoCancel(id, q)
  PROVE  Kept /\ Reference!DoCancel(id, q)
<1> DEFINE b == RepresentedBook
<1>1. Represents(impl, b) /\ (cancel_accepts(impl, id, q) <=> CanCancel(b, id, q))
  BY SameGuards DEF OrderBookInv
<1>2. CASE cancel_accepts(impl, id, q)
  <2>1. id \in DOMAIN b /\ q \in Nat \ {0} /\ q <= b[id].quantity
    BY <1>1, <1>2, BookAssumption DEF CanCancel
  <2>2. Makes(impl, b, cancel(impl, id, q), Cancel(b, id, q))
    BY <1>1, <2>1, CancelMakes
  <2>3. Kept /\ b' = Cancel(b, id, q) /\ ret' = "true"
    BY <1>2, <2>2, Accepted DEF DoCancel
  <2> QED
    BY <1>1, <1>2, <2>3, SameOperations, SameConditions DEF Reference!DoCancel, Reference!Accept
<1>3. CASE ~cancel_accepts(impl, id, q)
  <2>1. Refuse
    BY <1>3 DEF DoCancel
  <2>2. Kept /\ b' = b /\ ret' = "false"
    BY <2>1, Refused
  <2> QED
    BY <1>1, <1>3, <2>2, SameConditions DEF Reference!DoCancel, Reference!Refuse
<1> QED
  BY <1>2, <1>3

LEMMA EraseStep ==
  ASSUME OrderBookInv, NEW id \in OrderId, DoErase(id)
  PROVE  Kept /\ Reference!DoErase(id)
<1> DEFINE b == RepresentedBook
<1>1. Represents(impl, b) /\ (erase_accepts(impl, id) <=> CanErase(b, id))
  BY SameGuards DEF OrderBookInv
<1>2. CASE erase_accepts(impl, id)
  <2>1. id \in DOMAIN b
    BY <1>1, <1>2 DEF CanErase
  <2>2. Makes(impl, b, erase_node(impl, id), Erase(b, id))
    BY <1>1, <2>1, EraseMakes DEF Erase
  <2>3. Kept /\ b' = Erase(b, id) /\ ret' = "true"
    BY <1>2, <2>2, Accepted DEF DoErase
  <2> QED
    BY <1>1, <1>2, <2>3, SameOperations, SameConditions DEF Reference!DoErase, Reference!Accept
<1>3. CASE ~erase_accepts(impl, id)
  <2>1. Refuse
    BY <1>3 DEF DoErase
  <2>2. Kept /\ b' = b /\ ret' = "false"
    BY <2>1, Refused
  <2> QED
    BY <1>1, <1>3, <2>2, SameConditions DEF Reference!DoErase, Reference!Refuse
<1> QED
  BY <1>2, <1>3

LEMMA ModifyStep ==
  ASSUME OrderBookInv, NEW id \in OrderId, NEW p \in Price, NEW q \in Quantity,
         DoModify(id, p, q)
  PROVE  Kept /\ (Reference!DoModify(id, p, q) \/ Reference!OutOfMemory)
<1> DEFINE b == RepresentedBook
<1>1. Represents(impl, b) /\ (modify_accepts(impl, id, q) <=> CanModify(b, id, q))
  BY SameGuards DEF OrderBookInv
<1>2. CASE modify_accepts(impl, id, q)
  <2>1. id \in DOMAIN b /\ q \in Nat \ {0}
    BY <1>1, <1>2, BookAssumption DEF CanModify
  <2>2. CASE Accept(modify(impl, id, p, q))
    <3>1. Makes(impl, b, modify(impl, id, p, q), Modify(b, id, p, q))
      BY <1>1, <2>1, ModifyMakes
    <3>2. Kept /\ b' = Modify(b, id, p, q) /\ ret' = "true"
      BY <2>2, <3>1, Accepted
    <3> QED
      BY <1>1, <1>2, <3>2, SameOperations, SameConditions
         DEF Reference!DoModify, Reference!Accept
  <2>3. ASSUME NEW m \in modify_throws(impl, id, p, q), Throw(m)
        PROVE  Kept /\ Reference!OutOfMemory
    <3>1. Represents(m, b)
      BY <1>1, <2>1, ModifyThrows
    <3> QED
      BY <2>3, <3>1, Thrown
  <2> QED
    BY <1>2, <2>2, <2>3 DEF DoModify
<1>3. CASE ~modify_accepts(impl, id, q)
  <2>1. Refuse
    BY <1>3 DEF DoModify
  <2>2. Kept /\ b' = b /\ ret' = "false"
    BY <2>1, Refused
  <2> QED
    BY <1>1, <1>3, <2>2, SameConditions DEF Reference!DoModify, Reference!Refuse
<1> QED
  BY <1>2, <1>3

LEMMA ReplaceStep ==
  ASSUME OrderBookInv, NEW old \in OrderId, NEW new \in OrderId, NEW p \in Price,
         NEW q \in Quantity, DoReplace(old, new, p, q)
  PROVE  Kept /\ (Reference!DoReplace(old, new, p, q) \/ Reference!OutOfMemory)
<1> DEFINE b == RepresentedBook
<1>1. Represents(impl, b) /\ (replace_accepts(impl, old, new, q) <=> CanReplace(b, old, new, q))
  BY SameGuards DEF OrderBookInv
<1>2. CASE replace_accepts(impl, old, new, q)
  <2>1. old \in DOMAIN b /\ (new # old => new \notin DOMAIN b) /\ q \in Nat \ {0}
    BY <1>1, <1>2, BookAssumption DEF CanReplace
  <2>2. CASE Accept(replace(impl, old, new, p, q))
    <3>1. Makes(impl, b, replace(impl, old, new, p, q), Replace(b, old, new, p, q))
      BY <1>1, <2>1, ReplaceMakes
    <3>2. Kept /\ b' = Replace(b, old, new, p, q) /\ ret' = "true"
      BY <2>2, <3>1, Accepted
    <3> QED
      BY <1>1, <1>2, <3>2, SameOperations, SameConditions
         DEF Reference!DoReplace, Reference!Accept
  <2>3. ASSUME NEW m \in replace_throws(impl, old, new, p, q), Throw(m)
        PROVE  Kept /\ Reference!OutOfMemory
    <3>1. Represents(m, b)
      BY <1>1, <2>1, ReplaceThrows
    <3> QED
      BY <2>3, <3>1, Thrown
  <2> QED
    BY <1>2, <2>2, <2>3 DEF DoReplace
<1>3. CASE ~replace_accepts(impl, old, new, q)
  <2>1. Refuse
    BY <1>3 DEF DoReplace
  <2>2. Kept /\ b' = b /\ ret' = "false"
    BY <2>1, Refused
  <2> QED
    BY <1>1, <1>3, <2>2, SameConditions DEF Reference!DoReplace, Reference!Refuse
<1> QED
  BY <1>2, <1>3

LEMMA ClearStep ==
  ASSUME Clear
  PROVE  Kept /\ Reference!Clear
<1>1. Represents(impl', EmptyBook) /\ ret' = "none"
  BY EmptyRepresents DEF Clear
<1>2. RepresentedBook' = EmptyBook
  BY <1>1, RepresentedNext
<1>3. impl'.levels = <<>>
  BY DEF Clear
<1>4. DOMAIN impl'.levels = {}
  BY <1>3
<1> QED
  BY <1>1, <1>2, <1>4, SameUpdates DEF Kept, OrderBookInv, NoNewEmpty, Reference!Clear

LEMMA InitRepresents ==
  ASSUME Init
  PROVE  OrderBookInv /\ Reference!Init
<1>1. Represents(impl, EmptyBook) /\ ret = "none"
  BY EmptyRepresents DEF Init
<1>2. RepresentedBook = EmptyBook
  BY <1>1, RepresentedIs
<1> QED
  BY <1>1, <1>2, SameUpdates DEF OrderBookInv, Reference!Init

\* Every step keeps the invariant and is a step of the reference book.
LEMMA Steps ==
  ASSUME OrderBookInv, Next
  PROVE  Kept /\ Reference!Next
<1>1. ASSUME NEW id \in OrderId, NEW s \in Side, NEW p \in Price, NEW q \in Quantity,
             DoAdd(id, s, p, q)
      PROVE  Kept /\ Reference!Next
  <2>1. Kept /\ (Reference!DoAdd(id, s, p, q) \/ Reference!OutOfMemory)
    BY <1>1, AddStep
  <2> QED
    BY <2>1 DEF Reference!Next, Reference!Side, Side
<1>2. ASSUME NEW id \in OrderId, NEW q \in Quantity, DoCancel(id, q)
      PROVE  Kept /\ Reference!Next
  BY <1>2, CancelStep DEF Reference!Next
<1>3. ASSUME NEW id \in OrderId, DoErase(id)
      PROVE  Kept /\ Reference!Next
  BY <1>3, EraseStep DEF Reference!Next
<1>4. ASSUME NEW id \in OrderId, NEW p \in Price, NEW q \in Quantity, DoModify(id, p, q)
      PROVE  Kept /\ Reference!Next
  <2>1. Kept /\ (Reference!DoModify(id, p, q) \/ Reference!OutOfMemory)
    BY <1>4, ModifyStep
  <2> QED
    BY <2>1 DEF Reference!Next
<1>5. ASSUME NEW old \in OrderId, NEW new \in OrderId, NEW p \in Price, NEW q \in Quantity,
             DoReplace(old, new, p, q)
      PROVE  Kept /\ Reference!Next
  <2>1. Kept /\ (Reference!DoReplace(old, new, p, q) \/ Reference!OutOfMemory)
    BY <1>5, ReplaceStep
  <2> QED
    BY <2>1 DEF Reference!Next
<1>6. ASSUME Clear
      PROVE  Kept /\ Reference!Next
  BY <1>6, ClearStep DEF Reference!Next
<1> QED
  BY <1>1, <1>2, <1>3, <1>4, <1>5, <1>6 DEF Next

LEMMA Stutters ==
  ASSUME OrderBookInv, UNCHANGED vars
  PROVE  Kept /\ RepresentedBook' = RepresentedBook /\ UNCHANGED Reference!vars
<1>1. impl' = impl /\ ret' = ret /\ Represents(impl, RepresentedBook)
  BY DEF vars, OrderBookInv
<1>2. RepresentedBook' = RepresentedBook
  BY <1>1, RepresentedNext
<1> QED
  BY <1>1, <1>2 DEF Kept, OrderBookInv, NoNewEmpty, Reference!vars

-----------------------------------------------------------------------------
(* What the invariant says of one state.                                   *)

\* A level's orders are the nodes that point to it.
LEMMA MembersAre ==
  ASSUME NEW b, Represents(impl, b)
  PROVE  \A l : Members(l) = Queue(b, l)
<1>1. DOMAIN impl.orders = DOMAIN b /\ Linked(impl.orders, impl.levels, b)
  BY DEF Represents, Holds
<1>2. \A i \in DOMAIN b : impl.orders[i].level = <<b[i].side, b[i].price>>
  BY <1>1 DEF Linked, Agrees
<1> QED
  BY <1>1, <1>2 DEF Members, Queue

LEMMA InvTypes == OrderBookInv => TypeOK
<1> SUFFICES ASSUME OrderBookInv
             PROVE  TypeOK
  OBVIOUS
<1> DEFINE b == RepresentedBook
<1>1. Holds(impl, b) /\ DOMAIN impl.orders = DOMAIN b
  BY DEF OrderBookInv, Represents
<1>2. IsImpl(impl) /\ Linked(impl.orders, impl.levels, b) /\ IsBook(b)
  BY <1>1 DEF Holds, FiniteBook
<1>3. DOMAIN impl = {"orders", "levels", "indices"}
  BY <1>2 DEF IsImpl
<1>4. \A i \in DOMAIN impl.orders : impl.orders[i] \in OrderNode
  <2> SUFFICES ASSUME NEW i \in DOMAIN b
               PROVE  impl.orders[i] \in OrderNode
    BY <1>1
  <2>1. impl.orders[i].level = <<b[i].side, b[i].price>> /\ b[i] \in Order
    BY <1>2 DEF Linked, Agrees, IsBook
  <2>2. impl.orders[i].level \in LevelKey
    BY <2>1 DEF Order, LevelKey
  <2>3. impl.orders[i] \in SomeNode
    BY <1>1, <1>2 DEF IsImpl
  <2> QED
    BY <2>2, <2>3 DEF SomeNode, OrderNode
<1>5. \A l \in DOMAIN impl.levels : impl.levels[l] \in PriceLevel
  BY <1>2 DEF IsImpl
<1> QED
  BY <1>2, <1>3, <1>4, <1>5 DEF TypeOK, OrderBookInv, IsImpl

LEMMA InvLinks == OrderBookInv => WellLinked
<1> SUFFICES ASSUME OrderBookInv
             PROVE  WellLinked
  OBVIOUS
<1> DEFINE b == RepresentedBook
<1>1. Represents(impl, b) /\ Holds(impl, b) /\ DOMAIN impl.orders = DOMAIN b
  BY DEF OrderBookInv, Represents
<1>2. /\ Linked(impl.orders, impl.levels, b) /\ Counted(impl.levels, b)
      /\ Indexed(impl.indices, b) /\ FiniteBook(b)
  BY <1>1 DEF Represents, Holds
<1>3. \A l : Members(l) = Queue(b, l)
  BY <1>1, MembersAre
<1> HIDE DEF b
<1>4. LevelsAreAlive
  BY <1>1, <1>2 DEF LevelsAreAlive, Linked, Agrees
<1>5. LinksAreMutual
  BY <1>1, <1>2, <1>3 DEF LinksAreMutual, Linked, Before, After
<1>6. AggregatesAreExact
  <2> SUFFICES ASSUME NEW l \in DOMAIN impl.levels
               PROVE  /\ impl.levels[l].order_count = Cardinality(Members(l))
                      /\ impl.levels[l].quantity = Shares(impl.orders, Members(l))
                      /\ Members(l) = {} => impl.levels[l].head = Null /\ impl.levels[l].tail = Null
    BY DEF AggregatesAreExact, Shares
  <2>1. IsFiniteSet(Queue(b, l)) /\ Queue(b, l) \subseteq DOMAIN b
    BY <1>2, QueueFinite
  <2>2. \A i \in Queue(b, l) : impl.orders[i].quantity = b[i].quantity
    BY <1>2, <2>1 DEF Linked, Agrees
  <2>3. Shares(impl.orders, Queue(b, l)) = Shares(b, Queue(b, l))
    BY <2>1, <2>2, SharesSame
  <2> QED
    BY <1>2, <1>3, <2>3 DEF Counted, Linked, Ends
<1>7. IndexIsExact
  BY <1>2, <1>3 DEF IndexIsExact, Indexed
<1> QED
  BY <1>4, <1>5, <1>6, <1>7 DEF WellLinked

\* The head of a list is the order with nobody ahead.
LEMMA HeadIsFront ==
  ASSUME NEW m, NEW b, Represents(m, b), NEW l \in DOMAIN m.levels
  PROVE  {m.levels[l].head} \ {Null} = {i \in Queue(b, l) : b[i].ahead = {}}
<1>1. Linked(m.orders, m.levels, b) /\ DOMAIN b \subseteq OrderId
  BY DEF Represents, Holds, FiniteBook, IsBook
<1> DEFINE h == m.levels[l].head
<1>2. h # Null => h \in Queue(b, l) /\ m.orders[h].previous = Null
  BY <1>1 DEF Linked, Ends
<1>3. h # Null => b[h].ahead = {}
  <2> HAVE h # Null
  <2>1. h \in DOMAIN b
    BY <1>2 DEF Queue
  <2> QED
    BY <1>2, <2>1, PreviousAhead
<1>4. ASSUME NEW i \in Queue(b, l), b[i].ahead = {}
      PROVE  i = h /\ i # Null
  <2>1. i \in DOMAIN b /\ <<b[i].side, b[i].price>> = l
    BY DEF Queue
  <2>2. Before(m.orders, m.levels, b, i) /\ m.orders[i].level = l /\ i # Null
    BY <1>1, <2>1, NullAssumption DEF Linked, Agrees
  <2>3. m.orders[i].previous = Null
    BY <1>4, <2>2 DEF Before
  <2> QED
    BY <2>2, <2>3 DEF Before
<1> HIDE DEF h
<1> QED
  BY <1>2, <1>3, <1>4 DEF h

LEMMA InvObserves == OrderBookInv => ObserversMatchReference
<1> SUFFICES ASSUME OrderBookInv
             PROVE  ObserversMatchReference
  OBVIOUS
<1> DEFINE b == RepresentedBook
<1>1. /\ Represents(impl, b) /\ Holds(impl, b) /\ Counted(impl.levels, b)
      /\ Indexed(impl.indices, b) /\ impl.indices \in [Side -> SUBSET Price]
      /\ DOMAIN impl.levels \in SUBSET LevelKey
  BY DEF OrderBookInv, Represents, Holds, IsImpl
<1> HIDE DEF b
<1> SUFFICES ASSUME NEW s \in Side
             PROVE  /\ best_price(impl, s) = best(b, s)
                    /\ \A p \in Price :
                         /\ front_order(impl, s, p) = front(b, s, p)
                         /\ depth(impl, s, p) =
                              IF Level(b, s, p) = {} THEN {}
                              ELSE {[quantity |-> LevelQuantity(b, s, p),
                                     order_count |-> Cardinality(Level(b, s, p))]}
  BY DEF ObserversMatchReference, b
<1>2. best_price(impl, s) = best(b, s)
  <2>1. \A p \in Price : p \in impl.indices[s] <=> Level(b, s, p) # {}
    BY <1>1, QueueLevel DEF Indexed
  <2>2. impl.indices[s] = ActivePrices(b, s)
    BY <1>1, <2>1 DEF ActivePrices
  <2> QED
    BY <2>2 DEF best_price, best
<1>3. ASSUME NEW p \in Price
      PROVE  front_order(impl, s, p) = front(b, s, p)
  <2> DEFINE l == <<s, p>>
  <2>1. Queue(b, l) = Level(b, s, p)
    BY QueueLevel
  <2>2. CASE l \in DOMAIN impl.levels
    <3>1. {k \in DOMAIN impl.levels : k = l} = {l}
      BY <2>2
    <3>2. front_order(impl, s, p) = {impl.levels[l].head} \ {Null}
      BY <3>1 DEF front_order
    <3>3. {impl.levels[l].head} \ {Null} = {i \in Queue(b, l) : b[i].ahead = {}}
      BY <1>1, <2>2, HeadIsFront
    <3> QED
      BY <2>1, <3>2, <3>3 DEF front
  <2>3. CASE l \notin DOMAIN impl.levels
    <3>1. Queue(b, l) = {}
      BY <1>1, <2>3, CountTells
    <3>2. front_order(impl, s, p) = {}
      BY <2>3 DEF front_order
    <3> QED
      BY <2>1, <3>1, <3>2 DEF front
  <2> QED
    BY <2>2, <2>3
<1>4. ASSUME NEW p \in Price
      PROVE  depth(impl, s, p) =
               IF Level(b, s, p) = {} THEN {}
               ELSE {[quantity |-> LevelQuantity(b, s, p),
                      order_count |-> Cardinality(Level(b, s, p))]}
  <2> DEFINE l == <<s, p>>
             S == {k \in DOMAIN impl.levels : k = l /\ impl.levels[k].order_count # 0}
  <2>1. Queue(b, l) = Level(b, s, p)
    BY QueueLevel
  <2>2. Queue(b, l) # {} => l \in DOMAIN impl.levels
    BY <1>1, CountTells
  <2>3. l \in DOMAIN impl.levels => (impl.levels[l].order_count = 0 <=> Queue(b, l) = {})
    BY <1>1, CountTells
  <2>4. depth(impl, s, p)
          = {[quantity |-> impl.levels[k].quantity,
              order_count |-> impl.levels[k].order_count] : k \in S}
    BY DEF depth
  <2>5. CASE Queue(b, l) = {}
    <3>1. S = {}
      BY <2>3, <2>5
    <3> HIDE DEF S
    <3> QED
      BY <2>1, <2>4, <2>5, <3>1
  <2>6. CASE Queue(b, l) # {}
    <3>1. S = {l}
      BY <2>2, <2>3, <2>6
    <3>2. /\ impl.levels[l].quantity = LevelQuantity(b, s, p)
          /\ impl.levels[l].order_count = Cardinality(Level(b, s, p))
      BY <1>1, <2>1, <2>2, <2>6, LevelShares DEF Counted
    <3> HIDE DEF S
    <3> QED
      BY <2>1, <2>4, <2>6, <3>1, <3>2
  <2> QED
    BY <2>5, <2>6
<1> QED
  BY <1>2, <1>3, <1>4

LEMMA InvEmptyLevels ==
  OrderBookInv => EmptyLevels = {l \in DOMAIN impl.levels : Queue(RepresentedBook, l) = {}}
<1> SUFFICES ASSUME OrderBookInv
             PROVE  EmptyLevels = {l \in DOMAIN impl.levels : Queue(RepresentedBook, l) = {}}
  OBVIOUS
<1>1. Holds(impl, RepresentedBook)
  BY DEF OrderBookInv, Represents
<1>2. \A l \in DOMAIN impl.levels :
        impl.levels[l].order_count = 0 <=> Queue(RepresentedBook, l) = {}
  BY <1>1, CountTells
<1> QED
  BY <1>2 DEF EmptyLevels

-----------------------------------------------------------------------------
(* Time priority.                                                          *)

\* Who is ahead of j is in the same queue, and so are all ahead of that one.
Ordered(b) ==
  \A j \in DOMAIN b :
     /\ j \notin b[j].ahead
     /\ \A i \in b[j].ahead : /\ i \in DOMAIN b /\ b[i].ahead \cup {i} \subseteq b[j].ahead
                              /\ b[i].side = b[j].side /\ b[i].price = b[j].price

LEMMA SameQueueAhead ==
  ASSUME NEW m, NEW b, Represents(m, b)
  PROVE  \A j \in DOMAIN b : \A i \in b[j].ahead :
            b[i].side = b[j].side /\ b[i].price = b[j].price
<1> DEFINE D == DOMAIN b
           Good(j) == \A i \in b[j].ahead : b[i].side = b[j].side /\ b[i].price = b[j].price
           T == {s \in SUBSET D : \A j \in D : AheadIn(b, j) = s => Good(j)}
<1>1. IsFiniteSet(D) /\ Linked(m.orders, m.levels, b)
  BY DEF Represents, Holds, FiniteBook
<1>2. T \in SUBSET (SUBSET D)
  OBVIOUS
<1>3. ASSUME NEW j \in D, m.orders[j].previous # Null
      PROVE  /\ b[m.orders[j].previous].side = b[j].side
             /\ b[m.orders[j].previous].price = b[j].price
  <2>1. Before(m.orders, m.levels, b, j) /\ m.orders[j].level = <<b[j].side, b[j].price>>
    BY <1>1 DEF Linked, Agrees
  <2> QED
    BY <1>3, <2>1 DEF Before, Queue
<1>4. ASSUME NEW s \in SUBSET D, \A u \in SUBSET s : u # s => u \in T
      PROVE  s \in T
  <2> SUFFICES ASSUME NEW j \in D, AheadIn(b, j) = s
               PROVE  Good(j)
    OBVIOUS
  <2> DEFINE k == m.orders[j].previous
  <2>1. CASE k = Null
    BY <2>1, PreviousAhead
  <2>2. CASE k # Null
    <3>1. /\ k \in D /\ b[j].ahead = b[k].ahead \cup {k}
          /\ AheadIn(b, k) \in SUBSET s /\ AheadIn(b, k) # s
      BY <2>2, PreviousAhead
    <3>2. AheadIn(b, k) \in T
      BY <1>4, <3>1
    <3>3. Good(k)
      BY <3>1, <3>2
    <3> QED
      BY <1>3, <2>2, <3>1, <3>3
  <2> QED
    BY <2>1, <2>2
<1> HIDE DEF T
<1>5. T = SUBSET D
  BY <1>1, <1>2, <1>4, SubsetSet
<1> QED
  <2> SUFFICES ASSUME NEW j \in D
               PROVE  Good(j)
    OBVIOUS
  <2>1. AheadIn(b, j) \in T
    BY <1>5 DEF AheadIn
  <2> QED
    BY <2>1 DEF T

LEMMA BookOrdered ==
  ASSUME NEW m, NEW b, Represents(m, b)
  PROVE  Ordered(b)
<1>1. \A j \in DOMAIN b : j \notin b[j].ahead
  BY DEF Represents, Holds, Linked, Agrees
<1>2. \A j \in DOMAIN b : \A i \in b[j].ahead :
         i \in DOMAIN b /\ b[i].ahead \cup {i} \subseteq b[j].ahead
  BY AheadOrdered
<1>3. \A j \in DOMAIN b : \A i \in b[j].ahead :
         b[i].side = b[j].side /\ b[i].price = b[j].price
  BY SameQueueAhead
<1> QED
  BY <1>1, <1>2, <1>3 DEF Ordered

\* Nobody passes anybody from b to c without asking for more shares.
Fair(b, c) ==
  \A i, j \in DOMAIN b \cap DOMAIN c :
     i \in b[j].ahead /\ j \in c[i].ahead => c[i].quantity > b[i].quantity

\* Nobody has got anybody ahead who was not ahead before.
LEMMA FewerAhead ==
  ASSUME NEW b, Ordered(b), NEW c, \A i \in DOMAIN b \cap DOMAIN c : c[i].ahead \subseteq b[i].ahead
  PROVE  Fair(b, c)
<1> SUFFICES ASSUME NEW i \in DOMAIN b \cap DOMAIN c, NEW j \in DOMAIN b \cap DOMAIN c,
                    i \in b[j].ahead, j \in c[i].ahead
             PROVE  FALSE
  BY DEF Fair
<1>1. j \in b[i].ahead
  OBVIOUS
<1>2. i \in b[i].ahead
  BY <1>1 DEF Ordered
<1> QED
  BY <1>2 DEF Ordered

LEMMA LeaveAhead ==
  ASSUME NEW b, FiniteBook(b), NEW id, NEW i \in DOMAIN Leave(b, id)
  PROVE  i \in DOMAIN b /\ i # id /\ Leave(b, id)[i].ahead = b[i].ahead \ {id}
<1>1. i \in DOMAIN b /\ i # id
  BY LeaveDomain
<1> QED
  BY <1>1, LeaveFields

LEMMA PushBackOthers ==
  ASSUME NEW b, NEW id, NEW s, NEW p, NEW q
  PROVE  /\ \A i \in DOMAIN b : i # id => PushBack(b, id, s, p, q)[i] = b[i]
         /\ PushBack(b, id, s, p, q)[id].quantity = q
         /\ PushBack(b, id, s, p, q)[id].ahead = Level(b, s, p)
BY DEF PushBack

LEMMA AddFair ==
  ASSUME NEW b, Ordered(b), NEW id, id \notin DOMAIN b, NEW s, NEW p, NEW q
  PROVE  Fair(b, Add(b, id, s, p, q))
<1>1. \A i \in DOMAIN b : Add(b, id, s, p, q)[i] = b[i]
  BY PushBackOthers DEF Add
<1> QED
  BY <1>1, FewerAhead

LEMMA LeaveFair ==
  ASSUME NEW b, Ordered(b), FiniteBook(b), NEW id
  PROVE  Fair(b, Leave(b, id))
<1>1. \A i \in DOMAIN Leave(b, id) : Leave(b, id)[i].ahead \subseteq b[i].ahead
  BY LeaveAhead
<1> QED
  BY <1>1, FewerAhead

LEMMA ResizeFair ==
  ASSUME NEW b, Ordered(b), FiniteBook(b), NEW id \in DOMAIN b, NEW q \in Nat \ {0}
  PROVE  Fair(b, [b EXCEPT ![id].quantity = q])
<1>1. \A i \in DOMAIN b : [b EXCEPT ![id].quantity = q][i].ahead = b[i].ahead
  BY ResizedBook DEF IsResized
<1> QED
  BY <1>1, FewerAhead

\* Back in a queue at another price, or with more shares.
LEMMA MoveFair ==
  ASSUME NEW b, Ordered(b), FiniteBook(b), NEW id \in DOMAIN b, NEW p, NEW q,
         p = b[id].price => q > b[id].quantity
  PROVE  Fair(b, PushBack(Leave(b, id), id, b[id].side, p, q))
<1> DEFINE e == Leave(b, id)
           c == PushBack(e, id, b[id].side, p, q)
<1> SUFFICES ASSUME NEW i \in DOMAIN b \cap DOMAIN c, NEW j \in DOMAIN b \cap DOMAIN c,
                    i \in b[j].ahead, j \in c[i].ahead
             PROVE  c[i].quantity > b[i].quantity
  BY DEF Fair
<1>1. CASE i = id
  <2>1. j \in Level(e, b[id].side, p) /\ c[i].quantity = q
    BY <1>1, PushBackOthers
  <2>2. j \in DOMAIN e /\ e[j].price = p
    BY <2>1 DEF Level
  <2>3. j \in DOMAIN b /\ j # id
    BY <2>2, LeaveDomain
  <2>4. e[j].price = b[j].price
    BY <2>3, LeaveFields
  <2>5. b[i].price = b[j].price
    BY DEF Ordered
  <2> QED
    BY <1>1, <2>1, <2>2, <2>4, <2>5
<1>2. CASE i # id
  <2>1. i \in DOMAIN e /\ e[i].ahead = b[i].ahead \ {id}
    BY <1>2, LeaveFields
  <2>2. c[i] = e[i]
    BY <1>2, <2>1, PushBackOthers
  <2>3. j \in b[i].ahead
    BY <2>1, <2>2
  <2>4. i \in b[i].ahead
    BY <2>3 DEF Ordered
  <2> QED
    BY <2>4 DEF Ordered
<1> QED
  BY <1>1, <1>2

LEMMA CancelFair ==
  ASSUME NEW b, Ordered(b), FiniteBook(b), NEW id, NEW q \in Nat, CanCancel(b, id, q)
  PROVE  Fair(b, Cancel(b, id, q))
<1>1. CASE q = b[id].quantity
  BY <1>1, LeaveFair DEF Cancel
<1>2. CASE q # b[id].quantity
  <2>1. id \in DOMAIN b /\ b[id].quantity \in Nat
    BY DEF CanCancel, FiniteBook, IsBook, Order
  <2> DEFINE r == b[id].quantity - q
  <2>2. r \in Nat \ {0}
    BY <1>2, <2>1 DEF CanCancel
  <2>3. Cancel(b, id, q) = [b EXCEPT ![id].quantity = r]
    BY <1>2, <2>1 DEF Cancel
  <2> HIDE DEF r
  <2>4. Fair(b, [b EXCEPT ![id].quantity = r])
    BY <2>1, <2>2, ResizeFair
  <2> QED
    BY <2>3, <2>4
<1> QED
  BY <1>1, <1>2

LEMMA ModifyFair ==
  ASSUME NEW b, Ordered(b), FiniteBook(b), NEW id, NEW p, NEW q \in Nat, CanModify(b, id, q)
  PROVE  Fair(b, Modify(b, id, p, q))
<1>1. id \in DOMAIN b /\ q # 0 /\ b[id].quantity \in Nat
  BY DEF CanModify, FiniteBook, IsBook, Order
<1>2. CASE p = b[id].price /\ q <= b[id].quantity
  BY <1>1, <1>2, ResizeFair DEF Modify
<1>3. CASE ~(p = b[id].price /\ q <= b[id].quantity)
  <2>1. p = b[id].price => q > b[id].quantity
    BY <1>1, <1>3
  <2> QED
    BY <1>1, <1>3, <2>1, MoveFair DEF Modify
<1> QED
  BY <1>2, <1>3

LEMMA ReplaceFair ==
  ASSUME NEW b, Ordered(b), FiniteBook(b), NEW old, NEW new \in OrderId, NEW p \in Price,
         NEW q \in Nat, CanReplace(b, old, new, q)
  PROVE  Fair(b, Replace(b, old, new, p, q))
<1>1. old \in DOMAIN b /\ q \in Nat \ {0} /\ b[old].side \in Side
  BY DEF CanReplace, FiniteBook, IsBook, Order
<1>2. CASE old = new
  <2>1. CanModify(b, old, q)
    BY DEF CanReplace, CanModify
  <2> QED
    BY <1>2, <2>1, ModifyFair DEF Replace
<1>3. CASE old # new
  <2> DEFINE e == PushBack(b, new, b[old].side, p, q)
  <2>1. FiniteBook(e)
    BY <1>1, PushBackBook
  <2>2. \A i \in DOMAIN b : e[i] = b[i]
    BY <1>3, PushBackOthers DEF CanReplace
  <2>3. Replace(b, old, new, p, q) = Leave(e, old)
    BY <1>3 DEF Replace
  <2> HIDE DEF e
  <2>4. \A i \in DOMAIN b \cap DOMAIN Leave(e, old) : Leave(e, old)[i].ahead \subseteq b[i].ahead
    BY <2>1, <2>2, LeaveAhead
  <2> QED
    BY <2>3, <2>4, FewerAhead
<1> QED
  BY <1>2, <1>3

LEMMA SameFair ==
  ASSUME NEW b, Ordered(b)
  PROVE  Fair(b, b) /\ Fair(b, EmptyBook)
<1>1. Fair(b, b)
  BY FewerAhead
<1>2. DOMAIN EmptyBook = {}
  BY EmptyBookType
<1> QED
  BY <1>1, <1>2 DEF Fair

\* Every call on the book is fair.
LEMMA StepsFair ==
  ASSUME OrderBookInv, Reference!Next
  PROVE  Fair(RepresentedBook, RepresentedBook')
<1> DEFINE b == RepresentedBook
<1>1. Ordered(b) /\ FiniteBook(b)
  BY BookOrdered DEF OrderBookInv, Represents, Holds
<1>2. Quantity \subseteq Nat
  BY BookAssumption
<1>3. ASSUME b' = b PROVE Fair(b, b')
  BY <1>1, <1>3, SameFair
<1>4. ASSUME NEW id \in OrderId, NEW s, NEW p \in Price, NEW q \in Quantity,
             Reference!DoAdd(id, s, p, q)
      PROVE  Fair(b, b')
  <2>1. CASE b' = Add(b, id, s, p, q) /\ CanAdd(b, id, q)
    BY <1>1, <2>1, AddFair DEF CanAdd
  <2> QED
    BY <1>3, <1>4, <2>1, SameOperations, SameConditions
       DEF Reference!DoAdd, Reference!Accept, Reference!Refuse
<1>5. ASSUME NEW id \in OrderId, NEW q \in Quantity, Reference!DoCancel(id, q)
      PROVE  Fair(b, b')
  <2>1. CASE b' = Cancel(b, id, q) /\ CanCancel(b, id, q)
    BY <1>1, <1>2, <2>1, CancelFair
  <2> QED
    BY <1>3, <1>5, <2>1, SameOperations, SameConditions
       DEF Reference!DoCancel, Reference!Accept, Reference!Refuse
<1>6. ASSUME NEW id \in OrderId, Reference!DoErase(id)
      PROVE  Fair(b, b')
  <2>1. CASE b' = Erase(b, id)
    BY <1>1, <2>1, LeaveFair DEF Erase
  <2> QED
    BY <1>3, <1>6, <2>1, SameOperations
       DEF Reference!DoErase, Reference!Accept, Reference!Refuse
<1>7. ASSUME NEW id \in OrderId, NEW p \in Price, NEW q \in Quantity, Reference!DoModify(id, p, q)
      PROVE  Fair(b, b')
  <2>1. CASE b' = Modify(b, id, p, q) /\ CanModify(b, id, q)
    BY <1>1, <1>2, <2>1, ModifyFair
  <2> QED
    BY <1>3, <1>7, <2>1, SameOperations, SameConditions
       DEF Reference!DoModify, Reference!Accept, Reference!Refuse
<1>8. ASSUME NEW old \in OrderId, NEW new \in OrderId, NEW p \in Price, NEW q \in Quantity,
             Reference!DoReplace(old, new, p, q)
      PROVE  Fair(b, b')
  <2>1. CASE b' = Replace(b, old, new, p, q) /\ CanReplace(b, old, new, q)
    BY <1>1, <1>2, <2>1, ReplaceFair
  <2> QED
    BY <1>3, <1>8, <2>1, SameOperations, SameConditions
       DEF Reference!DoReplace, Reference!Accept, Reference!Refuse
<1>9. CASE Reference!OutOfMemory
  BY <1>3, <1>9 DEF Reference!OutOfMemory
<1>10. CASE Reference!Clear
  BY <1>1, <1>10, SameFair, SameUpdates DEF Reference!Clear
<1> QED
  BY <1>4, <1>5, <1>6, <1>7, <1>8, <1>9, <1>10 DEF Reference!Next

-----------------------------------------------------------------------------
(* The theorems.                                                           *)

LEMMA Invariance == Spec => []OrderBookInv
<1>1. Init => OrderBookInv
  BY InitRepresents
<1>2. OrderBookInv /\ [Next]_vars => OrderBookInv'
  BY Steps, Stutters DEF Kept
<1> QED
  BY <1>1, <1>2, PTL DEF Spec

\* Between calls every node, level and index is well formed, no resting order
\* has zero shares and no counter of a level is below zero, for any number of
\* orders and prices and wherever an allocation fails (order_book.cpp:176-264).
THEOREM Typing == Spec => []TypeOK
<1>1. OrderBookInv => TypeOK
  BY InvTypes
<1> QED
  BY <1>1, Invariance, PTL

\* After any sequence of calls, failed ones included, every level pointer
\* leads to a live level, previous and next are inverse and end at the head
\* and the tail, the cached count and shares of a level are those of its
\* orders, and the price index holds exactly the prices where orders rest.
THEOREM Linking == Spec => []WellLinked
<1>1. OrderBookInv => WellLinked
  BY InvLinks
<1> QED
  BY <1>1, Invariance, PTL

\* best_bid, best_ask, depth and front_order report what the reference book
\* of tests/order_book_model_test.cpp:157-176 reports.
THEOREM Observing == Spec => []ObserversMatchReference
<1>1. OrderBookInv => ObserversMatchReference
  BY InvObserves
<1> QED
  BY <1>1, Invariance, PTL

\* A call that does not throw leaves no empty level that was not empty
\* before it, whichever level it made or emptied on its way.
THEOREM NoLeaking == Spec => LeakOnlyOnThrow
<1>1. OrderBookInv /\ [Next]_vars => Kept
  BY Steps, Stutters
<1>2. OrderBookInv /\ Kept => [ret' # "throw" => EmptyLevels' \subseteq EmptyLevels]_vars
  <2> SUFFICES ASSUME OrderBookInv, Kept, ret' # "throw"
               PROVE  EmptyLevels' \subseteq EmptyLevels
    OBVIOUS
  <2> DEFINE b == RepresentedBook
  <2>1. EmptyLevels = {l \in DOMAIN impl.levels : Queue(b, l) = {}}
    BY InvEmptyLevels
  <2>2. (OrderBookInv => EmptyLevels = {l \in DOMAIN impl.levels : Queue(b, l) = {}})'
    BY InvEmptyLevels, PTL
  <2>3. EmptyLevels' = {l \in DOMAIN impl'.levels : Queue(b', l) = {}}
    BY <2>2 DEF Kept
  <2>4. NoNewEmpty(impl, b, impl', b')
    BY DEF Kept
  <2> QED
    BY <2>1, <2>3, <2>4 DEF NoNewEmpty
<1> QED
  BY <1>1, <1>2, Invariance, PTL DEF Spec, LeakOnlyOnThrow

\* Time priority: an order gets in front of one that stood in front of it
\* only when that one asked for more shares, whatever is called and whatever
\* fails to allocate.
THEOREM Queueing == Spec => NoOvertaking
<1> DEFINE A == \A i, j \in DOMAIN impl.orders \cap DOMAIN impl'.orders :
                   i \in Ahead[j] /\ j \in Ahead'[i]
                     => impl'.orders[i].quantity > impl.orders[i].quantity
<1>1. OrderBookInv /\ [Next]_vars => [A]_vars
  <2> SUFFICES ASSUME OrderBookInv, Next
               PROVE  A
    OBVIOUS
  <2> DEFINE b == RepresentedBook
  <2>1. Fair(b, b')
    BY Steps, StepsFair
  <2>2. /\ DOMAIN b = DOMAIN impl.orders
        /\ \A i \in DOMAIN b : b[i].ahead = Ahead[i] /\ b[i].quantity = impl.orders[i].quantity
    BY DEF RepresentedBook
  <2>3. /\ DOMAIN b' = DOMAIN impl'.orders
        /\ \A i \in DOMAIN b' : b'[i].ahead = Ahead'[i] /\ b'[i].quantity = impl'.orders[i].quantity
    BY DEF RepresentedBook
  <2> HIDE DEF b
  <2> QED
    BY <2>1, <2>2, <2>3 DEF Fair
<1> QED
  BY <1>1, Invariance, PTL DEF Spec, NoOvertaking

\* The lists, levels and indices implement the book that is a function from
\* ids to orders: the same return values, and a call that throws changes
\* nothing (the strong guarantee of order_book.cpp:381-383).
THEOREM Implementing == Spec => ImplementsReferenceBook
<1>1. Init => Reference!Init
  BY InitRepresents
<1>2. OrderBookInv /\ [Next]_vars => [Reference!Next]_(Reference!vars)
  BY Steps, Stutters
<1> QED
  BY <1>1, <1>2, Invariance, PTL DEF Spec, ImplementsReferenceBook, Reference!Spec

=============================================================================
