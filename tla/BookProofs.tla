----------------------------- MODULE BookProofs -----------------------------
(***************************************************************************)
(* What the operations of Book.tla return: a well-typed book whose ids are *)
(* the expected ones; that a side with orders has a best price; and sums   *)
(* of numbers over a finite set, however it is taken apart.                *)
(***************************************************************************)
EXTENDS Book, FiniteSetTheorems, WellFoundedInduction, TLAPS

LEMMA LevelType ==
  ASSUME NEW b, NEW s, NEW p, IsBook(b)
  PROVE  Level(b, s, p) \subseteq OrderId
BY DEF IsBook, Level

LEMMA EmptyBookType == IsBook(EmptyBook) /\ DOMAIN EmptyBook = {}
BY DEF IsBook, EmptyBook

-----------------------------------------------------------------------------
(* The ids that rest afterwards.                                           *)

\* add and modify put id into the book.
LEMMA PushBackDomain ==
  ASSUME NEW b, NEW id, NEW s, NEW p, NEW q
  PROVE  \A i : i \in DOMAIN PushBack(b, id, s, p, q) <=> i \in DOMAIN b \cup {id}
BY DEF PushBack

\* erase_node takes id out of the book.
LEMMA LeaveDomain == \A b, id : DOMAIN Leave(b, id) = DOMAIN b \ {id}
BY DEF Leave

\* A successful add is of a new order.
LEMMA AddDomain ==
  ASSUME NEW b, NEW id, NEW s, NEW p, NEW q
  PROVE  \A i : i \in DOMAIN Add(b, id, s, p, q) <=> i \in DOMAIN b \cup {id}
BY PushBackDomain DEF Add

\* cancel and execute free the order exactly when all its shares go.
LEMMA CancelDomain ==
  \A b, id, q : DOMAIN Cancel(b, id, q) =
                  IF q = b[id].quantity THEN DOMAIN b \ {id} ELSE DOMAIN b
BY LeaveDomain DEF Cancel

\* modify keeps the set of orders.
LEMMA ModifyDomain ==
  ASSUME NEW b, NEW id \in DOMAIN b, NEW p, NEW q
  PROVE  DOMAIN Modify(b, id, p, q) = DOMAIN b
<1>1. CASE p = b[id].price /\ q <= b[id].quantity
  BY <1>1 DEF Modify
<1>2. CASE ~(p = b[id].price /\ q <= b[id].quantity)
  <2>1. DOMAIN Modify(b, id, p, q) = DOMAIN Leave(b, id) \cup {id}
    BY <1>2, PushBackDomain DEF Modify
  <2>2. DOMAIN Leave(b, id) = DOMAIN b \ {id}
    BY LeaveDomain
  <2> QED
    BY <2>1, <2>2
<1> QED
  BY <1>1, <1>2

\* replace exchanges one id for the other.
LEMMA ReplaceDomain ==
  ASSUME NEW b, NEW old \in DOMAIN b, NEW new, NEW p, NEW q
  PROVE  \A i : i \in DOMAIN Replace(b, old, new, p, q)
                  <=> i \in (DOMAIN b \ {old}) \cup {new}
<1>1. CASE old = new
  <2>1. DOMAIN Modify(b, old, p, q) = DOMAIN b
    BY ModifyDomain
  <2> QED
    BY <1>1, <2>1 DEF Replace
<1>2. CASE old # new
  <2> DEFINE P == PushBack(b, new, b[old].side, p, q)
  <2>1. DOMAIN Leave(P, old) = DOMAIN P \ {old}
    BY LeaveDomain
  <2>2. DOMAIN P = DOMAIN b \cup {new}
    BY PushBackDomain
  <2>3. Replace(b, old, new, p, q) = Leave(P, old)
    BY <1>2 DEF Replace
  <2>4. DOMAIN Replace(b, old, new, p, q) = (DOMAIN b \cup {new}) \ {old}
    BY <2>1, <2>2, <2>3
  <2> QED
    BY <1>2, <2>4
<1> QED
  BY <1>1, <1>2

-----------------------------------------------------------------------------
(* The types of what rests afterwards.                                     *)

\* A new order, or one put back, at the tail of its level (add, modify).
LEMMA PushBackType ==
  ASSUME NEW b, NEW id \in OrderId, NEW s \in Side, NEW p \in Price,
         NEW q \in Nat, q # 0, IsBook(b)
  PROVE  IsBook(PushBack(b, id, s, p, q))
<1> DEFINE B == PushBack(b, id, s, p, q)
<1>1. DOMAIN B = DOMAIN b \cup {id}
  BY DEF PushBack
<1>2. ASSUME NEW i \in DOMAIN B
      PROVE  B[i] \in Order
  <2>1. CASE i = id
    BY <2>1, LevelType DEF PushBack, Order
  <2>2. CASE i # id
    BY <1>1, <1>2, <2>2 DEF PushBack, IsBook
  <2> QED
    BY <2>1, <2>2
<1> QED
  BY <1>1, <1>2 DEF IsBook

\* An order that is taken out of its level (erase_node).
LEMMA LeaveType ==
  ASSUME NEW b, NEW id, IsBook(b)
  PROVE  IsBook(Leave(b, id))
<1>1. DOMAIN Leave(b, id) = DOMAIN b \ {id}
  BY DEF Leave
<1>2. ASSUME NEW i \in DOMAIN b \ {id}
      PROVE  Leave(b, id)[i] \in Order
  <2>1. b[i] \in Order
    BY <1>2 DEF IsBook
  <2>2. Leave(b, id)[i] = [b[i] EXCEPT !.ahead = b[i].ahead \ {id}]
    BY <1>2 DEF Leave
  <2> QED
    BY <2>1, <2>2 DEF Order
<1> QED
  BY <1>1, <1>2 DEF IsBook

\* An order whose share count changes in place.
LEMMA ResizeType ==
  ASSUME NEW b, NEW id \in DOMAIN b, NEW q \in Nat, q # 0, IsBook(b)
  PROVE  IsBook([b EXCEPT ![id].quantity = q])
<1> DEFINE B == [b EXCEPT ![id].quantity = q]
<1>1. ASSUME NEW i \in DOMAIN b
      PROVE  B[i] \in Order
  <2>1. b[i] \in Order
    BY <1>1 DEF IsBook
  <2>2. CASE i = id
    BY <2>1, <2>2 DEF Order
  <2>3. CASE i # id
    BY <2>1, <2>3
  <2> QED
    BY <2>2, <2>3
<1> QED
  BY <1>1 DEF IsBook

\* add of a new id.
LEMMA AddType ==
  ASSUME NEW b, NEW id \in OrderId, NEW s \in Side, NEW p \in Price,
         NEW q \in Nat, IsBook(b), CanAdd(b, id, q)
  PROVE  IsBook(Add(b, id, s, p, q))
BY PushBackType DEF Add, CanAdd

\* cancel and execute: the order goes exactly when all its shares do.
LEMMA CancelType ==
  ASSUME NEW b, NEW id, NEW q \in Nat, IsBook(b), CanCancel(b, id, q)
  PROVE  IsBook(Cancel(b, id, q))
<1>1. id \in DOMAIN b /\ q # 0 /\ q <= b[id].quantity
  BY DEF CanCancel
<1>2. b[id].quantity \in Nat \ {0}
  BY <1>1 DEF IsBook, Order
<1>3. CASE q = b[id].quantity
  BY <1>3, LeaveType DEF Cancel
<1>4. CASE q # b[id].quantity
  <2> DEFINE n == b[id].quantity - q
  <2>1. n \in Nat /\ n # 0
    BY <1>1, <1>2, <1>4
  <2>2. Cancel(b, id, q) = [b EXCEPT ![id].quantity = n]
    BY <1>4 DEF Cancel
  <2> HIDE DEF n
  <2>3. IsBook([b EXCEPT ![id].quantity = n])
    BY <1>1, <2>1, ResizeType
  <2> QED
    BY <2>2, <2>3
<1> QED
  BY <1>3, <1>4

\* modify keeps the set of orders.
LEMMA ModifyType ==
  ASSUME NEW b, NEW id, NEW p \in Price, NEW q \in Nat, IsBook(b), CanModify(b, id, q)
  PROVE  IsBook(Modify(b, id, p, q))
<1>1. id \in DOMAIN b /\ q \in Nat \ {0}
  BY DEF CanModify
<1>2. id \in OrderId /\ b[id].side \in Side
  BY <1>1 DEF IsBook, Order
<1>3. CASE p = b[id].price /\ q <= b[id].quantity
  <2>1. IsBook([b EXCEPT ![id].quantity = q])
    BY <1>1, ResizeType
  <2> QED
    BY <1>3, <2>1 DEF Modify
<1>4. CASE ~(p = b[id].price /\ q <= b[id].quantity)
  <2> DEFINE L == Leave(b, id)
  <2>1. IsBook(L)
    BY LeaveType
  <2>2. Modify(b, id, p, q) = PushBack(L, id, b[id].side, p, q)
    BY <1>4 DEF Modify
  <2> HIDE DEF L
  <2> QED
    BY <1>1, <1>2, <2>1, <2>2, PushBackType
<1> QED
  BY <1>3, <1>4

\* replace exchanges one id for the other.
LEMMA ReplaceType ==
  ASSUME NEW b, NEW old, NEW new \in OrderId, NEW p \in Price, NEW q \in Nat, IsBook(b),
         CanReplace(b, old, new, q)
  PROVE  IsBook(Replace(b, old, new, p, q))
<1>1. old \in DOMAIN b /\ q \in Nat \ {0}
  BY DEF CanReplace
<1>2. b[old].side \in Side
  BY <1>1 DEF IsBook, Order
<1>3. CASE old = new
  <2>1. CanModify(b, old, q)
    BY <1>1 DEF CanModify
  <2> QED
    BY <1>1, <1>3, <2>1, ModifyType DEF Replace
<1>4. CASE old # new
  <2> DEFINE P == PushBack(b, new, b[old].side, p, q)
  <2>1. IsBook(P)
    BY <1>1, <1>2, PushBackType
  <2>2. Replace(b, old, new, p, q) = Leave(P, old)
    BY <1>4 DEF Replace
  <2> HIDE DEF P
  <2> QED
    BY <1>1, <1>4, <2>1, <2>2, LeaveType
<1> QED
  BY <1>3, <1>4

-----------------------------------------------------------------------------
(* Induction, over sets instead of predicates.                             *)

LEMMA NatSet ==
  ASSUME NEW T \in SUBSET Nat, 0 \in T, \A n \in T : n + 1 \in T
  PROVE  T = Nat
<1> DEFINE R == OpToRel(<, Nat)
           U == Nat \ T
<1>1. CASE U = {}
  BY <1>1
<1>2. CASE U # {}
  <2>1. PICK x \in U : \A y \in U : <<y, x>> \notin R
    <3>1. IsWellFoundedOn(R, Nat) /\ U \subseteq Nat
      BY NatLessThanWellFounded
    <3> HIDE DEF R, U
    <3> QED
      BY <1>2, <3>1, WFMin
  <2>2. ASSUME NEW y \in Nat, y < x
        PROVE  y \in T
    <3>1. <<y, x>> \in R
      BY <2>2 DEF OpToRel
    <3> HIDE DEF R
    <3> QED
      BY <2>1, <3>1
  <2> HIDE DEF R
  <2>3. x \in Nat /\ x # 0 /\ x \notin T
    OBVIOUS
  <2>4. x - 1 \in Nat /\ x - 1 < x /\ (x - 1) + 1 = x
    BY <2>3
  <2> QED
    BY <2>2, <2>3, <2>4
<1> QED
  BY <1>1, <1>2

\* A set of subsets that has every subset whose proper subsets it has.
LEMMA SubsetSet ==
  ASSUME NEW S, IsFiniteSet(S), NEW T \in SUBSET (SUBSET S),
         \A s \in SUBSET S : (\A u \in SUBSET s : u # s => u \in T) => s \in T
  PROVE  T = SUBSET S
<1> DEFINE R == StrictSubsetOrdering(S)
           U == (SUBSET S) \ T
<1>1. CASE U = {}
  BY <1>1
<1>2. CASE U # {}
  <2>1. PICK x \in U : \A y \in U : <<y, x>> \notin R
    <3>1. IsWellFoundedOn(R, SUBSET S) /\ U \subseteq SUBSET S
      BY FS_StrictSubsetOrderingWellFounded, FS_FiniteSubsetsOfFinite
    <3> HIDE DEF R, U
    <3> QED
      BY <1>2, <3>1, WFMin
  <2>2. ASSUME NEW u \in SUBSET x, u # x
        PROVE  u \in T
    BY <2>1, <2>2 DEF StrictSubsetOrdering
  <2> QED
    BY <2>1, <2>2
<1> QED
  BY <1>1, <1>2

-----------------------------------------------------------------------------
(* Sums over finite sets (MapThenSumSet).                                  *)

Any(s) == CHOOSE x \in s : TRUE

LEMMA AnyIn == \A s : s # {} => Any(s) \in s
BY Zenon DEF Any

\* g is the sum of o over every subset of S, taken one element at a time.
Sums(g, o, S) ==
  g = [s \in SUBSET S |-> IF s = {} THEN 0 ELSE o[Any(s)] + g[s \ {Any(s)}]]

LEMMA SumsExist ==
  ASSUME NEW S, IsFiniteSet(S), NEW o
  PROVE  \E g : Sums(g, o, S)
<1> DEFINE Sub(n) == {s \in SUBSET S : Cardinality(s) <= n}
           Upto(g, n) ==
             g = [s \in Sub(n) |-> IF s = {} THEN 0 ELSE o[Any(s)] + g[s \ {Any(s)}]]
           T == {n \in Nat : \E g : Upto(g, n)}
<1>1. ASSUME NEW s \in SUBSET S
      PROVE  /\ IsFiniteSet(s) /\ Cardinality(s) \in Nat /\ (Cardinality(s) = 0 <=> s = {})
             /\ s # {} => /\ Any(s) \in s /\ s \ {Any(s)} \in SUBSET S
                          /\ Cardinality(s \ {Any(s)}) = Cardinality(s) - 1
  BY FS_Subset, FS_CardinalityType, FS_EmptySet, FS_RemoveElement, AnyIn
<1>2. 0 \in T
  <2> DEFINE g == [s \in Sub(0) |-> 0]
  <2>1. ASSUME NEW s \in Sub(0) PROVE s = {}
    <3>1. s \in SUBSET S /\ Cardinality(s) <= 0
      OBVIOUS
    <3>2. Cardinality(s) \in Nat /\ (Cardinality(s) = 0 => s = {})
      BY <1>1, <3>1
    <3> QED
      BY <3>1, <3>2
  <2>2. Upto(g, 0)
    BY <2>1
  <2> QED
    BY <2>2
<1>3. ASSUME NEW n \in T
      PROVE  n + 1 \in T
  <2>1. PICK g : Upto(g, n)
    OBVIOUS
  <2> DEFINE h == [s \in Sub(n + 1) |-> IF s = {} THEN 0 ELSE o[Any(s)] + g[s \ {Any(s)}]]
  <2>2. ASSUME NEW s \in Sub(n)
        PROVE  s \in Sub(n + 1) /\ h[s] = g[s]
    <3>1. Cardinality(s) \in Nat /\ Cardinality(s) <= n /\ n \in Nat
      BY <1>1
    <3>2. s \in Sub(n + 1)
      BY <3>1
    <3>3. g[s] = IF s = {} THEN 0 ELSE o[Any(s)] + g[s \ {Any(s)}]
      <4> HIDE DEF Sub
      <4> QED
        BY <2>1
    <3> QED
      BY <3>2, <3>3
  <2>3. ASSUME NEW s \in Sub(n + 1), s # {}
        PROVE  s \ {Any(s)} \in Sub(n)
    BY <1>1, <2>3
  <2>4. h = [s \in Sub(n + 1) |-> IF s = {} THEN 0 ELSE o[Any(s)] + h[s \ {Any(s)}]]
    <3> HIDE DEF Sub
    <3> SUFFICES ASSUME NEW s \in Sub(n + 1)
                 PROVE  h[s] = IF s = {} THEN 0 ELSE o[Any(s)] + h[s \ {Any(s)}]
      OBVIOUS
    <3>1. CASE s = {}
      BY <3>1
    <3>2. CASE s # {}
      <4>1. h[s \ {Any(s)}] = g[s \ {Any(s)}]
        BY <2>2, <2>3, <3>2
      <4>2. h[s] = o[Any(s)] + g[s \ {Any(s)}]
        BY <3>2
      <4> QED
        BY <3>2, <4>1, <4>2
    <3> QED
      BY <3>1, <3>2
  <2> HIDE DEF h, Sub
  <2> QED
    BY <2>4
<1>4. T = Nat
  <2> HIDE DEF T
  <2> QED
    BY <1>2, <1>3, NatSet DEF T
<1>5. Cardinality(S) \in T
  <2> HIDE DEF T
  <2> QED
    BY <1>1, <1>4
<1>6. Sub(Cardinality(S)) = SUBSET S
  <2>1. ASSUME NEW s \in SUBSET S PROVE Cardinality(s) <= Cardinality(S)
    BY FS_Subset
  <2> QED
    BY <2>1
<1> QED
  BY <1>5, <1>6 DEF Sums

\* One step of a sum, from s to s without its chosen element.
SumStep(g, o, s) ==
  /\ s = {} => g[s] = 0
  /\ s # {} => g[s] = o[Any(s)] + g[s \ {Any(s)}]

LEMMA SumsStep ==
  ASSUME NEW S, NEW o, NEW g, Sums(g, o, S)
  PROVE  \A s \in SUBSET S : SumStep(g, o, s)
BY AnyIn DEF Sums, SumStep

LEMMA AnyLeaves ==
  \A s : s # {} => Any(s) \in s /\ s \ {Any(s)} \in SUBSET s /\ s \ {Any(s)} # s
BY AnyIn

LEMMA SumsType ==
  ASSUME NEW S, IsFiniteSet(S), NEW o, \A i \in S : o[i] \in Int, NEW g, Sums(g, o, S)
  PROVE  g[S] \in Int
<1>0. \A s \in SUBSET S : SumStep(g, o, s)
  BY SumsStep
<1> DEFINE T == {s \in SUBSET S : g[s] \in Int}
<1>1. ASSUME NEW s \in SUBSET S, \A u \in SUBSET s : u # s => u \in T
      PROVE  s \in T
  <2>0. /\ s = {} => g[s] = 0
        /\ s # {} => /\ Any(s) \in s /\ s \ {Any(s)} \in SUBSET s /\ s \ {Any(s)} # s
                     /\ g[s] = o[Any(s)] + g[s \ {Any(s)}]
    BY <1>0, AnyLeaves DEF SumStep
  <2>1. CASE s = {}
    BY <2>0, <2>1
  <2>2. CASE s # {}
    <3> DEFINE i == Any(s) r == s \ {Any(s)}
    <3>0. i \in s /\ r \in SUBSET s /\ r # s /\ g[s] = o[i] + g[r]
      BY <2>0, <2>2
    <3> HIDE DEF i, r
    <3>1. g[r] \in Int /\ o[i] \in Int
      BY <1>1, <3>0
    <3> QED
      BY <3>0, <3>1
  <2> QED
    BY <2>1, <2>2
<1>2. T = SUBSET S
  <2>1. T \in SUBSET (SUBSET S)
    OBVIOUS
  <2> HIDE DEF T
  <2> QED
    BY <1>1, <2>1, SubsetSet
<1> QED
  BY <1>2

\* Two sums that differ in the term of one element differ by what it gained.
LEMMA SumsDiffer ==
  ASSUME NEW S, IsFiniteSet(S), NEW o, NEW p, \A i \in S : o[i] \in Int,
         NEW x \in S, NEW q \in Int, p[x] = o[x] + q, \A i \in S \ {x} : p[i] = o[i],
         NEW g, Sums(g, o, S), NEW h, Sums(h, p, S)
  PROVE  h[S] = g[S] + q
<1>0. \A s \in SUBSET S : SumStep(g, o, s) /\ SumStep(h, p, s)
  BY SumsStep
<1> DEFINE T == {s \in SUBSET S : g[s] \in Int /\ h[s] = g[s] + (IF x \in s THEN q ELSE 0)}
<1>1. ASSUME NEW s \in SUBSET S, \A u \in SUBSET s : u # s => u \in T
      PROVE  s \in T
  <2>0. /\ s = {} => g[s] = 0
        /\ s # {} => /\ Any(s) \in s /\ s \ {Any(s)} \in SUBSET s /\ s \ {Any(s)} # s
                     /\ g[s] = o[Any(s)] + g[s \ {Any(s)}]
    BY <1>0, AnyLeaves DEF SumStep
  <2>3. /\ s = {} => h[s] = 0
        /\ s # {} => h[s] = p[Any(s)] + h[s \ {Any(s)}]
    BY <1>0 DEF SumStep
  <2>1. CASE s = {}
    BY <2>0, <2>1, <2>3
  <2>2. CASE s # {}
    <3> DEFINE i == Any(s) r == s \ {Any(s)}
    <3>3. x \in r <=> x \in s /\ x # i
      OBVIOUS
    <3>1. i \in s /\ g[s] = o[i] + g[r] /\ h[s] = p[i] + h[r] /\ r \in SUBSET s /\ r # s
      BY <2>0, <2>2, <2>3
    <3> HIDE DEF i, r
    <3>2. /\ g[r] \in Int /\ h[r] = g[r] + (IF x \in r THEN q ELSE 0) /\ o[i] \in Int
          /\ i \in S
      BY <1>1, <3>1
    <3>4. CASE x = i
      BY <3>1, <3>2, <3>3, <3>4
    <3>5. CASE x # i
      <4>1. p[i] = o[i]
        BY <3>1, <3>5
      <4> QED
        BY <3>1, <3>2, <3>3, <3>5, <4>1
    <3> QED
      BY <3>4, <3>5
  <2> QED
    BY <2>1, <2>2
<1>2. T = SUBSET S
  <2>1. T \in SUBSET (SUBSET S)
    OBVIOUS
  <2> HIDE DEF T
  <2> QED
    BY <1>1, <2>1, SubsetSet
<1> QED
  BY <1>2

LEMMA SumsUnique ==
  ASSUME NEW S, IsFiniteSet(S), NEW o, NEW g, Sums(g, o, S), NEW h, Sums(h, o, S)
  PROVE  g[S] = h[S]
<1>0. \A s \in SUBSET S : SumStep(g, o, s) /\ SumStep(h, o, s)
  BY SumsStep
<1> DEFINE T == {s \in SUBSET S : g[s] = h[s]}
<1>1. ASSUME NEW s \in SUBSET S, \A u \in SUBSET s : u # s => u \in T
      PROVE  s \in T
  <2>1. CASE s = {}
    BY <1>0, <2>1 DEF SumStep
  <2>2. CASE s # {}
    BY <1>0, <1>1, <2>2, AnyLeaves DEF SumStep
  <2> QED
    BY <2>1, <2>2
<1>2. T = SUBSET S
  <2>1. T \in SUBSET (SUBSET S)
    OBVIOUS
  <2> HIDE DEF T
  <2> QED
    BY <1>1, <2>1, SubsetSet
<1> QED
  BY <1>2

LEMMA SumsZero ==
  ASSUME NEW S, IsFiniteSet(S), NEW o, \A i \in S : o[i] = 0, NEW g, Sums(g, o, S)
  PROVE  g[S] = 0
<1>0. \A s \in SUBSET S : SumStep(g, o, s)
  BY SumsStep
<1> DEFINE T == {s \in SUBSET S : g[s] = 0}
<1>1. ASSUME NEW s \in SUBSET S, \A u \in SUBSET s : u # s => u \in T
      PROVE  s \in T
  <2>0. /\ s = {} => g[s] = 0
        /\ s # {} => /\ Any(s) \in s /\ s \ {Any(s)} \in SUBSET s /\ s \ {Any(s)} # s
                     /\ g[s] = o[Any(s)] + g[s \ {Any(s)}]
    BY <1>0, AnyLeaves DEF SumStep
  <2>1. CASE s = {}
    BY <2>0, <2>1
  <2>2. CASE s # {}
    <3> DEFINE i == Any(s) r == s \ {Any(s)}
    <3>0. i \in s /\ r \in SUBSET s /\ r # s /\ g[s] = o[i] + g[r]
      BY <2>0, <2>2
    <3> HIDE DEF i, r
    <3>1. g[r] = 0 /\ o[i] = 0
      BY <1>1, <3>0
    <3> QED
      BY <3>0, <3>1
  <2> QED
    BY <2>1, <2>2
<1>2. T = SUBSET S
  <2>1. T \in SUBSET (SUBSET S)
    OBVIOUS
  <2> HIDE DEF T
  <2> QED
    BY <1>1, <2>1, SubsetSet
<1> QED
  BY <1>2

\* Every subset has a sum, and any of its elements may be taken out of it.
LEMMA SumsTake ==
  ASSUME NEW S, IsFiniteSet(S), NEW o, \A i \in S : o[i] \in Int, NEW g, Sums(g, o, S)
  PROVE  \A s \in SUBSET S : g[s] \in Int /\ \A x \in s : g[s] = o[x] + g[s \ {x}]
<1>0. \A s \in SUBSET S : SumStep(g, o, s)
  BY SumsStep
<1> DEFINE Takes(s) == g[s] \in Int /\ \A x \in s : g[s] = o[x] + g[s \ {x}]
           T == {s \in SUBSET S : Takes(s)}
<1>1. ASSUME NEW s \in SUBSET S, \A u \in SUBSET s : u # s => u \in T
      PROVE  s \in T
  <2>0. /\ s = {} => g[s] = 0
        /\ s # {} => /\ Any(s) \in s /\ s \ {Any(s)} \in SUBSET s /\ s \ {Any(s)} # s
                     /\ g[s] = o[Any(s)] + g[s \ {Any(s)}]
    BY <1>0, AnyLeaves DEF SumStep
  <2>1. CASE s = {}
    BY <2>0, <2>1
  <2>2. CASE s # {}
    <3> DEFINE c == Any(s) r == s \ {c}
    <3>0. c \in s /\ r = s \ {c} /\ r # s /\ g[s] = o[c] + g[r]
      BY <2>0, <2>2
    <3> HIDE DEF c, r
    <3>1. Takes(r) /\ o[c] \in Int
      BY <1>1, <3>0
    <3>2. ASSUME NEW x \in s, x # c
          PROVE  g[s] = o[x] + g[s \ {x}]
      <4> DEFINE rest == r \ {x} other == s \ {x}
      <4>1. /\ x \in r /\ other \in SUBSET s /\ other # s /\ c \in other
            /\ rest = other \ {c} /\ rest \in SUBSET s /\ rest # s
        BY <3>0, <3>2
      <4>2. g[r] = o[x] + g[rest]
        BY <3>1, <4>1
      <4>3. other \in T /\ rest \in T
        BY <1>1, <4>1
      <4> HIDE DEF rest
      <4>4. g[other] = o[c] + g[rest]
        BY <4>1, <4>3
      <4>5. o[x] \in Int /\ g[rest] \in Int
        BY <4>3
      <4> HIDE DEF other
      <4>6. g[s] = o[x] + g[other]
        BY <3>0, <3>1, <4>2, <4>4, <4>5
      <4> QED
        BY <4>6 DEF other
    <3>3. g[s] \in Int
      BY <3>0, <3>1
    <3>4. \A x \in s : g[s] = o[x] + g[s \ {x}]
      BY <3>0, <3>2
    <3> QED
      BY <3>3, <3>4
  <2> QED
    BY <2>1, <2>2
<1>2. T = SUBSET S
  <2>1. T \in SUBSET (SUBSET S)
    OBVIOUS
  <2> HIDE DEF T
  <2> QED
    BY <1>1, <2>1, SubsetSet
<1> QED
  BY <1>2

-----------------------------------------------------------------------------
(* The shares of some orders.                                              *)

\* LevelQuantity is the sum over the orders of one level.
Shares(b, S) == MapThenSumSet(LAMBDA i : b[i].quantity, S)

LEMMA LevelShares == \A b, s, p : LevelQuantity(b, s, p) = Shares(b, Level(b, s, p))
BY DEF LevelQuantity, Shares

\* The term of each order.
Terms(b, S) == [i \in S |-> b[i].quantity]

LEMMA SharesAreSum ==
  ASSUME NEW b, NEW S, IsFiniteSet(S)
  PROVE  \E g : Shares(b, S) = g[S] /\ Sums(g, Terms(b, S), S)
<1> DEFINE Is(g) == g = [s \in SUBSET S |->
                           IF s = {} THEN 0 ELSE b[Any(s)].quantity + g[s \ {Any(s)}]]
<1>1. Shares(b, S) = (CHOOSE g : g = [s \in SUBSET S |->
                  IF s = {} THEN 0 ELSE b[Any(s)].quantity + g[s \ {Any(s)}]])[S]
  BY DEF Shares, MapThenSumSet, MapThenFoldSet, Any
<1>2. ASSUME NEW g
      PROVE  Is(g) <=> Sums(g, Terms(b, S), S)
  <2>1. ASSUME NEW s \in SUBSET S, s # {}
        PROVE  b[Any(s)].quantity = Terms(b, S)[Any(s)]
    <3>1. Any(s) \in S
      BY <2>1, AnyIn
    <3> QED
      BY <3>1 DEF Terms
  <2>2. [s \in SUBSET S |-> IF s = {} THEN 0 ELSE b[Any(s)].quantity + g[s \ {Any(s)}]]
          = [s \in SUBSET S |-> IF s = {} THEN 0 ELSE Terms(b, S)[Any(s)] + g[s \ {Any(s)}]]
    BY <2>1
  <2> QED
    BY <2>2 DEF Sums
<1>3. \E g : Is(g)
  <2>1. PICK g : Sums(g, Terms(b, S), S)
    BY SumsExist
  <2> QED
    BY <1>2, <2>1
<1>4. Is(CHOOSE g : Is(g))
  <2> HIDE DEF Is
  <2> QED
    BY <1>3, Zenon
<1>5. Shares(b, S) = (CHOOSE g : Is(g))[S]
  BY <1>1, Zenon
<1> QED
  BY <1>2, <1>4, <1>5

LEMMA SharesEmpty == \A b : Shares(b, {}) = 0
<1> TAKE b
<1>1. IsFiniteSet({})
  BY FS_EmptySet
<1>2. PICK g : Shares(b, {}) = g[{}] /\ Sums(g, Terms(b, {}), {})
  BY <1>1, SharesAreSum
<1> QED
  BY <1>2, SumsStep DEF SumStep

\* Orders with the same quantities have the same shares.
LEMMA SharesSame ==
  ASSUME NEW b, NEW d, NEW S, IsFiniteSet(S), \A i \in S : b[i].quantity = d[i].quantity
  PROVE  Shares(b, S) = Shares(d, S)
<1>1. Terms(b, S) = Terms(d, S)
  BY DEF Terms
<1>2. PICK g : Shares(b, S) = g[S] /\ Sums(g, Terms(b, S), S)
  BY SharesAreSum
<1>3. PICK h : Shares(d, S) = h[S] /\ Sums(h, Terms(d, S), S)
  BY SharesAreSum
<1> QED
  BY <1>1, <1>2, <1>3, SumsUnique

LEMMA SharesType ==
  ASSUME NEW b, NEW S, IsFiniteSet(S), \A i \in S : b[i].quantity \in Nat
  PROVE  Shares(b, S) \in Nat
<1>1. PICK g : Shares(b, S) = g[S] /\ Sums(g, Terms(b, S), S)
  BY SharesAreSum
<1>2. \A i \in S : Terms(b, S)[i] \in Nat
  BY DEF Terms
<1>3. \A s \in SUBSET S : SumStep(g, Terms(b, S), s)
  BY <1>1, SumsStep
<1> DEFINE T == {s \in SUBSET S : g[s] \in Nat}
<1>4. ASSUME NEW s \in SUBSET S, \A u \in SUBSET s : u # s => u \in T
      PROVE  s \in T
  <2>0. SumStep(g, Terms(b, S), s)
    BY <1>3
  <2>1. CASE s = {}
    <3>1. g[s] = 0
      BY <2>0, <2>1 DEF SumStep
    <3> QED
      BY <3>1
  <2>2. CASE s # {}
    <3>1. Any(s) \in s /\ s \ {Any(s)} \in T
      BY <1>4, <2>2, AnyLeaves
    <3>2. g[s] = Terms(b, S)[Any(s)] + g[s \ {Any(s)}]
      BY <2>0, <2>2 DEF SumStep
    <3>3. Terms(b, S)[Any(s)] \in Nat /\ g[s \ {Any(s)}] \in Nat
      BY <1>2, <3>1
    <3> QED
      BY <3>2, <3>3
  <2> QED
    BY <2>1, <2>2
<1>5. T = SUBSET S
  <2>1. T \in SUBSET (SUBSET S)
    OBVIOUS
  <2> HIDE DEF T
  <2> QED
    BY <1>4, <2>1, SubsetSet
<1> QED
  BY <1>1, <1>5

\* One order out of S.
LEMMA SharesTake ==
  ASSUME NEW b, NEW S, IsFiniteSet(S), \A i \in S : b[i].quantity \in Int, NEW x \in S
  PROVE  Shares(b, S \ {x}) = Shares(b, S) - b[x].quantity
<1> DEFINE R == S \ {x}
<1>0. IsFiniteSet(R) /\ R \in SUBSET S
  BY FS_RemoveElement
<1>1. PICK g : Shares(b, S) = g[S] /\ Sums(g, Terms(b, S), S)
  BY SharesAreSum
<1>2. PICK h : Shares(b, R) = h[R] /\ Sums(h, Terms(b, R), R)
  BY <1>0, SharesAreSum
<1> DEFINE f == [s \in SUBSET R |-> g[s]]
<1>3. Sums(f, Terms(b, R), R)
  <2>1. ASSUME NEW s \in SUBSET R
        PROVE  f[s] = IF s = {} THEN 0 ELSE Terms(b, R)[Any(s)] + f[s \ {Any(s)}]
    <3>1. SumStep(g, Terms(b, S), s) /\ s \in SUBSET S
      BY <1>1, SumsStep
    <3>2. CASE s = {}
      BY <3>1, <3>2 DEF SumStep
    <3>3. CASE s # {}
      <4>1. Any(s) \in R /\ s \ {Any(s)} \in SUBSET R /\ Any(s) \in S
        BY <3>3, AnyLeaves
      <4>2. Terms(b, R)[Any(s)] = Terms(b, S)[Any(s)]
        BY <4>1 DEF Terms
      <4> QED
        BY <3>1, <3>3, <4>1, <4>2 DEF SumStep
    <3> QED
      BY <3>2, <3>3
  <2> QED
    BY <2>1 DEF Sums
<1>4. h[R] = g[R]
  <2>1. f[R] = h[R]
    <3> HIDE DEF f, R
    <3> QED
      BY <1>0, <1>2, <1>3, SumsUnique
  <2> QED
    BY <2>1
<1>5. \A i \in S : Terms(b, S)[i] \in Int /\ Terms(b, S)[i] = b[i].quantity
  BY DEF Terms
<1>6. g[S] = b[x].quantity + g[R] /\ g[R] \in Int
  <2>1. S \in SUBSET S /\ R \in SUBSET S
    OBVIOUS
  <2>2. \A s \in SUBSET S :
          g[s] \in Int /\ \A y \in s : g[s] = Terms(b, S)[y] + g[s \ {y}]
    BY <1>1, <1>5, SumsTake
  <2> QED
    BY <1>5, <2>1, <2>2
<1> QED
  BY <1>1, <1>2, <1>4, <1>5, <1>6

-----------------------------------------------------------------------------
(* The best price.                                                         *)

\* A side with an order has a best price.
LEMMA BestExists ==
  ASSUME NEW b, IsBook(b), IsFiniteSet(DOMAIN b), NEW i \in DOMAIN b
  PROVE  best(b, b[i].side) # {}
<1> DEFINE s == b[i].side
           D == {j \in DOMAIN b : b[j].side = s}
           Best(j, u) == \A k \in u : AtLeastAsGood(s, b[j].price, b[k].price)
           T == {u \in SUBSET D : u = {} \/ \E j \in u : Best(j, u)}
<1>1. IsFiniteSet(D)
  BY FS_Subset
<1>2. \A j \in D : b[j].price \in Nat /\ b[j].price \in Price
  BY BookAssumption DEF IsBook, Order
<1>3. ASSUME NEW u \in SUBSET D, \A v \in SUBSET u : v # u => v \in T
      PROVE  u \in T
  <2>1. CASE u = {}
    BY <2>1
  <2>2. CASE u # {}
    <3> DEFINE x == Any(u) r == u \ {x}
    <3>1. x \in u /\ r \in SUBSET u /\ r # u /\ u = r \cup {x}
      BY <2>2, AnyLeaves
    <3> HIDE DEF x, r
    <3>2. x \in D /\ AtLeastAsGood(s, b[x].price, b[x].price)
      BY <1>2, <3>1 DEF AtLeastAsGood
    <3>3. r \in T
      BY <1>3, <3>1
    <3>4. CASE r = {}
      BY <3>1, <3>2, <3>4
    <3>5. ASSUME NEW j \in r, Best(j, r)
          PROVE  u \in T
      <4>1. j \in D /\ j \in u
        BY <3>1
      <4>2. CASE AtLeastAsGood(s, b[j].price, b[x].price)
        <5>1. Best(j, u)
          BY <3>1, <3>5, <4>2
        <5> QED
          BY <4>1, <5>1
      <4>3. CASE ~AtLeastAsGood(s, b[j].price, b[x].price)
        <5>1. ASSUME NEW k \in r
              PROVE  AtLeastAsGood(s, b[x].price, b[k].price)
          <6>1. AtLeastAsGood(s, b[j].price, b[k].price) /\ k \in D
            BY <3>1, <3>5
          <6> QED
            BY <1>2, <3>2, <4>1, <4>3, <6>1 DEF AtLeastAsGood
        <5>2. Best(x, u)
          BY <3>1, <3>2, <5>1
        <5> QED
          BY <3>1, <5>2
      <4> QED
        BY <4>2, <4>3
    <3> QED
      BY <3>3, <3>4, <3>5
  <2> QED
    BY <2>1, <2>2
<1>4. T = SUBSET D
  <2>1. T \in SUBSET (SUBSET D)
    OBVIOUS
  <2> HIDE DEF T, D
  <2> QED
    BY <1>1, <1>3, <2>1, SubsetSet
<1>5. PICK j \in D : Best(j, D)
  <2>1. i \in D /\ D \in T
    BY <1>4
  <2> QED
    BY <2>1
<1>6. b[j].price \in ActivePrices(b, s)
  BY <1>2, <1>5 DEF ActivePrices, Level
<1>7. ASSUME NEW q \in ActivePrices(b, s)
      PROVE  AtLeastAsGood(s, b[j].price, q)
  <2>1. \E k \in D : b[k].price = q
    BY DEF ActivePrices, Level
  <2> QED
    BY <1>5, <2>1
<1> QED
  BY <1>6, <1>7 DEF best
=============================================================================
