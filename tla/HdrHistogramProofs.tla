------------------------- MODULE HdrHistogramProofs -------------------------
(***************************************************************************)
(* The histogram counts every duration in a bin that stands for it, and    *)
(* its percentiles are of the nearest rank, for every precision, width and *)
(* set of durations.                                                       *)
(***************************************************************************)
EXTENDS HdrHistogram, FiniteSetTheorems, WellFoundedInduction, TLAPS

-----------------------------------------------------------------------------
(* Induction, over sets instead of predicates.                             *)

\* A set that has zero and the successor of each of its members has every number.
LEMMA NatSet ==
  ASSUME NEW T \in SUBSET Nat, 0 \in T, \A n \in T : n + 1 \in T
  PROVE  T = Nat
<1> DEFINE R == OpToRel(<, Nat)
           U == Nat \ T
<1>1. CASE U = {}
  BY <1>1
<1>2. CASE U # {}
  <2>1. PICK x \in U : \A y \in U : <<y, x>> \notin R
    <3>1. IsWellFoundedOn(R, Nat) /\ U \subseteq Nat
      BY NatLessThanWellFounded
    <3> HIDE DEF R, U
    <3> QED
      BY <1>2, <3>1, WFMin
  <2>2. ASSUME NEW y \in Nat, y < x
        PROVE  y \in T
    <3>1. <<y, x>> \in R
      BY <2>2 DEF OpToRel
    <3> HIDE DEF R
    <3> QED
      BY <2>1, <3>1
  <2> HIDE DEF R
  <2>3. x \in Nat /\ x # 0 /\ x \notin T
    OBVIOUS
  <2>4. x - 1 \in Nat /\ x - 1 < x /\ (x - 1) + 1 = x
    BY <2>3
  <2> QED
    BY <2>2, <2>3, <2>4
<1> QED
  BY <1>1, <1>2

\* A set of subsets that has every subset whose proper subsets it has.
LEMMA SubsetSet ==
  ASSUME NEW S, IsFiniteSet(S), NEW T \in SUBSET (SUBSET S),
         \A s \in SUBSET S : (\A u \in SUBSET s : u # s => u \in T) => s \in T
  PROVE  T = SUBSET S
<1> DEFINE R == StrictSubsetOrdering(S)
           U == (SUBSET S) \ T
<1>1. CASE U = {}
  BY <1>1
<1>2. CASE U # {}
  <2>1. PICK x \in U : \A y \in U : <<y, x>> \notin R
    <3>1. IsWellFoundedOn(R, SUBSET S) /\ U \subseteq SUBSET S
      BY FS_StrictSubsetOrderingWellFounded, FS_FiniteSubsetsOfFinite
    <3> HIDE DEF R, U
    <3> QED
      BY <1>2, <3>1, WFMin
  <2>2. ASSUME NEW u \in SUBSET x, u # x
        PROVE  u \in T
    BY <2>1, <2>2 DEF StrictSubsetOrdering
  <2> QED
    BY <2>1, <2>2
<1> QED
  BY <1>1, <1>2

-----------------------------------------------------------------------------
(* Sums over finite sets (SumFunctionOnSet).                               *)

Any(s) == CHOOSE x \in s : TRUE

\* A set that has an element has the one chosen.
LEMMA AnyIn == \A s : s # {} => Any(s) \in s
BY Zenon DEF Any

\* g is the sum of o over every subset of S, taken one element at a time.
Sums(g, o, S) ==
  g = [s \in SUBSET S |-> IF s = {} THEN 0 ELSE o[Any(s)] + g[s \ {Any(s)}]]

\* There are such sums: for subsets of at most n elements by induction on n.
LEMMA SumsExist ==
  ASSUME NEW S, IsFiniteSet(S), NEW o
  PROVE  \E g : Sums(g, o, S)
<1> DEFINE Sub(n) == {s \in SUBSET S : Cardinality(s) <= n}
           Upto(g, n) ==
             g = [s \in Sub(n) |-> IF s = {} THEN 0 ELSE o[Any(s)] + g[s \ {Any(s)}]]
           T == {n \in Nat : \E g : Upto(g, n)}
<1>1. ASSUME NEW s \in SUBSET S
      PROVE  /\ IsFiniteSet(s) /\ Cardinality(s) \in Nat /\ (Cardinality(s) = 0 <=> s = {})
             /\ s # {} => /\ Any(s) \in s /\ s \ {Any(s)} \in SUBSET S
                          /\ Cardinality(s \ {Any(s)}) = Cardinality(s) - 1
  BY FS_Subset, FS_CardinalityType, FS_EmptySet, FS_RemoveElement, AnyIn
<1>2. 0 \in T
  <2> DEFINE g == [s \in Sub(0) |-> 0]
  <2>1. ASSUME NEW s \in Sub(0) PROVE s = {}
    <3>1. s \in SUBSET S /\ Cardinality(s) <= 0
      OBVIOUS
    <3>2. Cardinality(s) \in Nat /\ (Cardinality(s) = 0 => s = {})
      BY <1>1, <3>1
    <3> QED
      BY <3>1, <3>2
  <2>2. Upto(g, 0)
    BY <2>1
  <2> QED
    BY <2>2
<1>3. ASSUME NEW n \in T
      PROVE  n + 1 \in T
  <2>1. PICK g : Upto(g, n)
    OBVIOUS
  <2> DEFINE h == [s \in Sub(n + 1) |-> IF s = {} THEN 0 ELSE o[Any(s)] + g[s \ {Any(s)}]]
  <2>2. ASSUME NEW s \in Sub(n)
        PROVE  s \in Sub(n + 1) /\ h[s] = g[s]
    <3>1. Cardinality(s) \in Nat /\ Cardinality(s) <= n /\ n \in Nat
      BY <1>1
    <3>2. s \in Sub(n + 1)
      BY <3>1
    <3>3. g[s] = IF s = {} THEN 0 ELSE o[Any(s)] + g[s \ {Any(s)}]
      <4> HIDE DEF Sub
      <4> QED
        BY <2>1
    <3> QED
      BY <3>2, <3>3
  <2>3. ASSUME NEW s \in Sub(n + 1), s # {}
        PROVE  s \ {Any(s)} \in Sub(n)
    BY <1>1, <2>3
  <2>4. h = [s \in Sub(n + 1) |-> IF s = {} THEN 0 ELSE o[Any(s)] + h[s \ {Any(s)}]]
    <3> HIDE DEF Sub
    <3> SUFFICES ASSUME NEW s \in Sub(n + 1)
                 PROVE  h[s] = IF s = {} THEN 0 ELSE o[Any(s)] + h[s \ {Any(s)}]
      OBVIOUS
    <3>1. CASE s = {}
      BY <3>1
    <3>2. CASE s # {}
      <4>1. h[s \ {Any(s)}] = g[s \ {Any(s)}]
        BY <2>2, <2>3, <3>2
      <4>2. h[s] = o[Any(s)] + g[s \ {Any(s)}]
        BY <3>2
      <4> QED
        BY <3>2, <4>1, <4>2
    <3> QED
      BY <3>1, <3>2
  <2> HIDE DEF h, Sub
  <2> QED
    BY <2>4
<1>4. T = Nat
  <2> HIDE DEF T
  <2> QED
    BY <1>2, <1>3, NatSet DEF T
<1>5. Cardinality(S) \in T
  <2> HIDE DEF T
  <2> QED
    BY <1>1, <1>4
<1>6. Sub(Cardinality(S)) = SUBSET S
  <2>1. ASSUME NEW s \in SUBSET S PROVE Cardinality(s) <= Cardinality(S)
    BY FS_Subset
  <2> QED
    BY <2>1
<1> QED
  BY <1>5, <1>6 DEF Sums

\* One step of a sum, from s to s without its chosen element.
SumStep(g, o, s) ==
  /\ s = {} => g[s] = 0
  /\ s # {} => g[s] = o[Any(s)] + g[s \ {Any(s)}]

\* Each of them is the sum of one element and of the rest.
LEMMA SumsStep ==
  ASSUME NEW S, NEW o, NEW g, Sums(g, o, S)
  PROVE  \A s \in SUBSET S : SumStep(g, o, s)
BY AnyIn DEF Sums, SumStep

\* What remains of a set without one of its elements is smaller.
LEMMA AnyLeaves ==
  \A s : s # {} => Any(s) \in s /\ s \ {Any(s)} \in SUBSET s /\ s \ {Any(s)} # s
BY AnyIn

\* s has a sum, and any of its elements may be taken out of it.
Takes(g, o, s) == g[s] \in Int /\ \A x \in s : g[s] = o[x] + g[s \ {x}]

\* The order in which the elements are taken does not matter.
LEMMA SumsTake ==
  ASSUME NEW S, IsFiniteSet(S), NEW o, \A i \in S : o[i] \in Int, NEW g, Sums(g, o, S)
  PROVE  \A s \in SUBSET S : Takes(g, o, s)
<1>0. \A s \in SUBSET S : SumStep(g, o, s)
  BY SumsStep
<1> DEFINE T == {s \in SUBSET S : Takes(g, o, s)}
<1> USE DEF Takes
<1>1. ASSUME NEW s \in SUBSET S, \A u \in SUBSET s : u # s => u \in T
      PROVE  s \in T
  <2>0. /\ s = {} => g[s] = 0
        /\ s # {} => /\ Any(s) \in s /\ s \ {Any(s)} \in SUBSET s /\ s \ {Any(s)} # s
                     /\ g[s] = o[Any(s)] + g[s \ {Any(s)}]
    BY <1>0, AnyLeaves DEF SumStep
  <2>1. CASE s = {}
    BY <2>0, <2>1
  <2>2. CASE s # {}
    <3> DEFINE c == Any(s) r == s \ {c}
    <3>0. c \in s /\ r = s \ {c} /\ r # s /\ g[s] = o[c] + g[r]
      BY <2>0, <2>2
    <3> HIDE DEF c, r
    <3>1. Takes(g, o, r) /\ o[c] \in Int
      BY <1>1, <3>0
    <3>2. ASSUME NEW x \in s, x # c
          PROVE  g[s] = o[x] + g[s \ {x}]
      <4> DEFINE rest == r \ {x} other == s \ {x}
      <4>1. /\ x \in r /\ other \in SUBSET s /\ other # s /\ c \in other
            /\ rest = other \ {c} /\ rest \in SUBSET s /\ rest # s
        BY <3>0, <3>2
      <4>2. g[r] = o[x] + g[rest]
        BY <3>1, <4>1
      <4>3. other \in T /\ rest \in T
        BY <1>1, <4>1
      <4> HIDE DEF rest
      <4>4. g[other] = o[c] + g[rest]
        BY <4>1, <4>3
      <4>5. o[x] \in Int /\ g[rest] \in Int
        BY <4>3
      <4> HIDE DEF other
      <4>6. g[s] = o[x] + g[other]
        BY <3>0, <3>1, <4>2, <4>4, <4>5
      <4> QED
        BY <4>6 DEF other
    <3>3. g[s] \in Int
      BY <3>0, <3>1
    <3>4. \A x \in s : g[s] = o[x] + g[s \ {x}]
      BY <3>0, <3>2
    <3> QED
      BY <3>3, <3>4
  <2> QED
    BY <2>1, <2>2
<1>2. T = SUBSET S
  <2>1. T \in SUBSET (SUBSET S)
    OBVIOUS
  <2> HIDE DEF T
  <2> QED
    BY <1>1, <2>1, SubsetSet
<1> QED
  BY <1>2

\* The sum is determined by its steps.
LEMMA SumsUnique ==
  ASSUME NEW S, IsFiniteSet(S), NEW o, NEW g, NEW h,
         \A s \in SUBSET S : SumStep(g, o, s), \A s \in SUBSET S : SumStep(h, o, s)
  PROVE  g[S] = h[S]
<1> DEFINE T == {s \in SUBSET S : g[s] = h[s]}
<1>1. ASSUME NEW s \in SUBSET S, \A u \in SUBSET s : u # s => u \in T
      PROVE  s \in T
  <2>0. SumStep(g, o, s) /\ SumStep(h, o, s)
    OBVIOUS
  <2>1. CASE s = {}
    BY <2>0, <2>1 DEF SumStep
  <2>2. CASE s # {}
    BY <2>0, <1>1, <2>2, AnyLeaves DEF SumStep
  <2> QED
    BY <2>1, <2>2
<1>2. T = SUBSET S
  <2>1. T \in SUBSET (SUBSET S)
    OBVIOUS
  <2> HIDE DEF T
  <2> QED
    BY <1>1, <2>1, SubsetSet
<1> QED
  BY <1>2

Sum(o, S) == SumFunctionOnSet(o, S)

\* SumFunctionOnSet is such a sum.
LEMMA SumIs ==
  ASSUME NEW o, NEW S, IsFiniteSet(S)
  PROVE  \E g : Sum(o, S) = g[S] /\ Sums(g, o, S)
<1>1. Sum(o, S) = (CHOOSE g : Sums(g, o, S))[S]
  BY DEF Sum, SumFunctionOnSet, FoldFunctionOnSet, MapThenFoldSet, Sums, Any
<1>2. Sums(CHOOSE g : Sums(g, o, S), o, S)
  BY SumsExist, Zenon
<1> QED
  BY <1>1, <1>2

\* Nothing sums up to zero.
LEMMA SumEmpty == \A o : Sum(o, {}) = 0
<1> TAKE o
<1>1. IsFiniteSet({})
  BY FS_EmptySet
<1>2. PICK g : Sum(o, {}) = g[{}] /\ Sums(g, o, {})
  BY <1>1, SumIs
<1> QED
  BY <1>2, SumsStep DEF SumStep

\* A sum is that of any one element and of the rest.
LEMMA SumTake ==
  ASSUME NEW o, NEW S, IsFiniteSet(S), \A i \in S : o[i] \in Int
  PROVE  Sum(o, S) \in Int /\ \A x \in S : Sum(o, S) = o[x] + Sum(o, S \ {x})
<1>1. PICK g : Sum(o, S) = g[S] /\ Sums(g, o, S)
  BY SumIs
<1>2. g[S] \in Int /\ \A x \in S : g[S] = o[x] + g[S \ {x}]
  <2>0. Sums(g, o, S)
    BY <1>1
  <2>1. \A s \in SUBSET S : Takes(g, o, s)
    BY <2>0, SumsTake, Zenon
  <2> QED
    BY <2>1 DEF Takes
<1>3. ASSUME NEW x \in S
      PROVE  Sum(o, S \ {x}) = g[S \ {x}]
  <2> DEFINE R == S \ {x}
  <2>1. IsFiniteSet(R) /\ R \in SUBSET S
    BY FS_Subset
  <2> HIDE DEF R
  <2>2. PICK h : Sum(o, R) = h[R] /\ Sums(h, o, R)
    BY <2>1, SumIs
  <2>3. /\ \A s \in SUBSET R : SumStep(h, o, s)
        /\ \A s \in SUBSET R : SumStep(g, o, s)
    BY <1>1, <2>1, <2>2, SumsStep
  <2>4. h[R] = g[R]
    BY <2>1, <2>3, SumsUnique
  <2> QED
    BY <2>2, <2>4 DEF R
<1> QED
  BY <1>1, <1>2, <1>3

\* Functions that agree on a set have the same sum over it.
LEMMA SumSame ==
  ASSUME NEW o, NEW p, NEW S, IsFiniteSet(S), \A i \in S : o[i] \in Int /\ o[i] = p[i]
  PROVE  Sum(o, S) = Sum(p, S)
<1> DEFINE T == {s \in SUBSET S : Sum(o, s) = Sum(p, s)}
<1>1. ASSUME NEW s \in SUBSET S, \A u \in SUBSET s : u # s => u \in T
      PROVE  s \in T
  <2>1. CASE s = {}
    BY <2>1, SumEmpty
  <2>2. CASE s # {}
    <3>1. PICK x \in s : TRUE
      BY <2>2
    <3>2. s \ {x} \in T
      BY <1>1
    <3>3. IsFiniteSet(s)
      BY FS_Subset
    <3>4. Sum(o, s) = o[x] + Sum(o, s \ {x})
      BY <3>3, SumTake
    <3>5. Sum(p, s) = p[x] + Sum(p, s \ {x})
      BY <3>3, SumTake
    <3> QED
      BY <3>2, <3>4, <3>5
  <2> QED
    BY <2>1, <2>2
<1>2. T = SUBSET S
  <2>1. T \in SUBSET (SUBSET S)
    OBVIOUS
  <2> HIDE DEF T
  <2> QED
    BY <1>1, <2>1, SubsetSet
<1> QED
  BY <1>2

\* A term that grows by one.
LEMMA SumRaise ==
  ASSUME NEW o, NEW p, NEW S, IsFiniteSet(S), NEW x \in S, p[x] = o[x] + 1,
         \A i \in S : o[i] \in Int, \A i \in S \ {x} : o[i] = p[i]
  PROVE  Sum(p, S) = Sum(o, S) + 1
<1>1. IsFiniteSet(S \ {x})
  BY FS_Subset
<1>2. Sum(o, S \ {x}) = Sum(p, S \ {x})
  BY <1>1, SumSame
<1>3. Sum(o, S) = o[x] + Sum(o, S \ {x})
  BY SumTake
<1>4. Sum(p, S) = p[x] + Sum(p, S \ {x})
  <2>1. \A i \in S : p[i] \in Int
    OBVIOUS
  <2> QED
    BY <2>1, SumTake
<1>5. Sum(o, S \ {x}) \in Int /\ o[x] \in Int
  BY <1>1, SumTake
<1> QED
  BY <1>2, <1>3, <1>4, <1>5

\* A sum grows with the elements that count.
LEMMA SumGrows ==
  ASSUME NEW o, NEW A, NEW B, IsFiniteSet(A), IsFiniteSet(B),
         \A i \in A \cup B : o[i] \in Nat, \A i \in A \ B : o[i] = 0
  PROVE  Sum(o, A) <= Sum(o, B) /\ Sum(o, A) \in Nat /\ Sum(o, B) \in Nat
<1> DEFINE S == A \cup B
           Le(s) == /\ Sum(o, s \cap A) <= Sum(o, s \cap B)
                    /\ Sum(o, s \cap A) \in Nat /\ Sum(o, s \cap B) \in Nat
           T == {s \in SUBSET S : Le(s)}
<1>0. IsFiniteSet(S)
  BY FS_Union
<1>1. ASSUME NEW s \in SUBSET S, \A u \in SUBSET s : u # s => u \in T
      PROVE  s \in T
  <2>1. CASE s = {}
    <3>1. s \cap A = {} /\ s \cap B = {}
      BY <2>1
    <3> QED
      BY <3>1, SumEmpty
  <2>2. CASE s # {}
    <3>1. PICK x \in s : TRUE
      BY <2>2
    <3> DEFINE r == s \ {x}
               a == s \cap A
               b == s \cap B
    <3>2. Le(r) /\ o[x] \in Nat
      BY <1>1
    <3>3. /\ x \in A => r \cap A = a \ {x} /\ x \in a
          /\ x \notin A => r \cap A = a
          /\ x \in B => r \cap B = b \ {x} /\ x \in b
          /\ x \notin B => r \cap B = b
      OBVIOUS
    <3>4. /\ IsFiniteSet(a) /\ IsFiniteSet(b)
          /\ (\A i \in a : o[i] \in Int) /\ \A i \in b : o[i] \in Int
      BY FS_Subset
    <3> HIDE DEF r, a, b
    <3>5. x \in A => Sum(o, a) = o[x] + Sum(o, r \cap A)
      BY <3>3, <3>4, SumTake
    <3>6. x \in B => Sum(o, b) = o[x] + Sum(o, r \cap B)
      BY <3>3, <3>4, SumTake
    <3>7. x \in A /\ x \notin B => o[x] = 0
      OBVIOUS
    <3>8. Le(s)
      <4>1. Sum(o, a) <= Sum(o, b) /\ Sum(o, a) \in Nat /\ Sum(o, b) \in Nat
        BY <3>2, <3>3, <3>5, <3>6, <3>7
      <4> QED
        BY <4>1 DEF a, b
    <3> QED
      BY <3>8
  <2> QED
    BY <2>1, <2>2
<1>2. T = SUBSET S
  <2>1. T \in SUBSET (SUBSET S)
    OBVIOUS
  <2> HIDE DEF T, S
  <2> QED
    BY <1>0, <1>1, <2>1, SubsetSet
<1>3. Le(S) /\ S \cap A = A /\ S \cap B = B
  BY <1>2
<1> QED
  BY <1>3

-----------------------------------------------------------------------------
(* Powers of two.                                                          *)

\* The recursive function is what its definition says, for every number.
LEMMA PowerIs ==
  \A n \in Nat : PowerOf2[n] = IF n = 0 THEN 1 ELSE 2 * PowerOf2[n - 1]
<1> DEFINE Def(f, S) == f = [n \in S |-> IF n = 0 THEN 1 ELSE 2 * f[n - 1]]
           Upto(f, m) == \A n \in 0..m : f[n] = IF n = 0 THEN 1 ELSE 2 * f[n - 1]
           T == {m \in Nat : \E f : Upto(f, m)}
<1>1. 0 \in T
  <2>1. Upto([n \in 0..0 |-> 1], 0)
    OBVIOUS
  <2> QED
    BY <2>1
<1>2. ASSUME NEW m \in T
      PROVE  m + 1 \in T
  <2>1. PICK f : Upto(f, m)
    OBVIOUS
  <2> DEFINE h == [n \in 0..m+1 |-> IF n = m + 1 THEN 2 * f[m] ELSE f[n]]
  <2>2. Upto(h, m + 1)
    <3> SUFFICES ASSUME NEW n \in 0..m+1
                 PROVE  h[n] = IF n = 0 THEN 1 ELSE 2 * h[n - 1]
      OBVIOUS
    <3>0. m \in Nat
      OBVIOUS
    <3>1. CASE n = m + 1
      <4>1. h[n] = 2 * f[m] /\ n - 1 = m /\ m \in 0..m+1 /\ m # m + 1 /\ n # 0
        BY <3>0, <3>1
      <4> QED
        BY <4>1
    <3>2. CASE n # m + 1
      <4>1. n \in 0..m /\ h[n] = f[n]
        BY <3>0, <3>2
      <4>2. n # 0 => n - 1 \in 0..m+1 /\ n - 1 # m + 1
        BY <3>0, <3>2
      <4> HIDE DEF Upto
      <4>3. f[n] = IF n = 0 THEN 1 ELSE 2 * f[n - 1]
        BY <2>1, <4>1 DEF Upto
      <4> QED
        BY <4>1, <4>2, <4>3
    <3> QED
      BY <3>1, <3>2
  <2> HIDE DEF h, Upto
  <2> QED
    BY <2>2
<1>3. T = Nat
  <2> HIDE DEF T
  <2> QED
    BY <1>1, <1>2, NatSet DEF T
<1> DEFINE Table(m) == CHOOSE f : Upto(f, m)
           F == [n \in Nat |-> Table(n)[n]]
<1>4. \A m \in Nat : Upto(Table(m), m)
  <2> HIDE DEF Upto
  <2> QED
    BY <1>3, Zenon
\* Tables agree where both are defined.
<1>5. ASSUME NEW f, NEW g, NEW k \in Nat, NEW m \in Nat, Upto(f, k), Upto(g, m)
      PROVE  \A n \in Nat : n <= k /\ n <= m => f[n] = g[n]
  <2> DEFINE A == {n \in Nat : n <= k /\ n <= m => f[n] = g[n]}
  <2>1. 0 \in A
    <3>1. 0 \in 0..k /\ 0 \in 0..m
      OBVIOUS
    <3> QED
      BY <1>5, <3>1
  <2>2. ASSUME NEW n \in A
        PROVE  n + 1 \in A
    <3> SUFFICES ASSUME n + 1 <= k, n + 1 <= m
                 PROVE  f[n + 1] = g[n + 1]
      OBVIOUS
    <3>1. n + 1 \in 0..k /\ n + 1 \in 0..m /\ n + 1 # 0 /\ (n + 1) - 1 = n
      OBVIOUS
    <3>2. f[n] = g[n]
      OBVIOUS
    <3> QED
      BY <1>5, <3>1, <3>2
  <2> HIDE DEF A
  <2>3. A = Nat
    BY <2>1, <2>2, NatSet DEF A
  <2> QED
    BY <2>3 DEF A
<1>6. Def(F, Nat)
  <2> SUFFICES ASSUME NEW n \in Nat
               PROVE  F[n] = IF n = 0 THEN 1 ELSE 2 * F[n - 1]
    OBVIOUS
  <2> HIDE DEF Table
  <2>1. n \in 0..n
    OBVIOUS
  <2>2. Table(n)[n] = IF n = 0 THEN 1 ELSE 2 * Table(n)[n - 1]
    BY <1>4, <2>1
  <2>3. CASE n # 0
    <3>1. n - 1 \in Nat /\ n - 1 <= n /\ n - 1 <= n - 1
      BY <2>3
    <3> HIDE DEF Upto
    <3>2. Table(n)[n - 1] = Table(n - 1)[n - 1]
      BY <1>4, <1>5, <3>1
    <3> QED
      BY <2>2, <2>3, <3>1, <3>2
  <2> QED
    BY <2>2, <2>3
<1>7. PowerOf2 = CHOOSE f : Def(f, Nat)
  BY DEF PowerOf2
<1> HIDE DEF F
<1>8. Def(PowerOf2, Nat)
  <2> HIDE DEF Def
  <2> QED
    BY <1>6, <1>7
<1> QED
  BY <1>8

\* Powers of two are positive and double.
LEMMA PowerFacts ==
  /\ PowerOf2[0] = 1
  /\ \A n \in Nat : PowerOf2[n] \in Nat \ {0} /\ PowerOf2[n + 1] = 2 * PowerOf2[n]
<1>1. PowerOf2[0] = 1
  BY PowerIs
<1>2. \A n \in Nat : PowerOf2[n + 1] = 2 * PowerOf2[n]
  <2> TAKE n \in Nat
  <2>1. n + 1 \in Nat /\ n + 1 # 0 /\ (n + 1) - 1 = n
    OBVIOUS
  <2> QED
    BY <2>1, PowerIs
<1> DEFINE T == {n \in Nat : PowerOf2[n] \in Nat \ {0}}
<1>3. 0 \in T /\ \A n \in T : n + 1 \in T
  BY <1>1, <1>2
<1>4. T = Nat
  <2> HIDE DEF T
  <2> QED
    BY <1>3, NatSet DEF T
<1> QED
  BY <1>1, <1>2, <1>4

\* Exponents are added where powers are multiplied.
LEMMA PowerSum ==
  ASSUME NEW m \in Nat
  PROVE  \A n \in Nat : PowerOf2[m + n] = PowerOf2[m] * PowerOf2[n]
<1> DEFINE T == {n \in Nat : PowerOf2[m + n] = PowerOf2[m] * PowerOf2[n]}
<1>1. 0 \in T
  <2>1. PowerOf2[m] \in Nat /\ PowerOf2[0] = 1 /\ m + 0 = m
    BY PowerFacts
  <2> QED
    BY <2>1
<1>2. ASSUME NEW n \in T
      PROVE  n + 1 \in T
  <2>1. m + n \in Nat /\ m + (n + 1) = (m + n) + 1
    OBVIOUS
  <2> DEFINE a == PowerOf2[m]
             b == PowerOf2[n]
  <2>2. a \in Nat /\ b \in Nat /\ PowerOf2[n + 1] = 2 * b /\ PowerOf2[m + n] = a * b
        /\ PowerOf2[m + (n + 1)] = 2 * PowerOf2[m + n]
    BY <2>1, PowerFacts
  <2> HIDE DEF a, b
  <2>3. a * (2 * b) = 2 * (a * b)
    BY <2>2
  <2>4. PowerOf2[m + (n + 1)] = a * PowerOf2[n + 1]
    BY <2>2, <2>3
  <2> QED
    BY <2>4 DEF a
<1>3. T = Nat
  <2> HIDE DEF T
  <2> QED
    BY <1>1, <1>2, NatSet DEF T
<1> QED
  BY <1>3

\* A greater exponent makes no smaller power.
LEMMA PowerGrows ==
  ASSUME NEW m \in Nat, NEW n \in Nat, m <= n
  PROVE  PowerOf2[m] <= PowerOf2[n]
<1> DEFINE k == n - m
           a == PowerOf2[m]
           b == PowerOf2[k]
<1>1. k \in Nat /\ m + k = n
  OBVIOUS
<1> HIDE DEF k
<1>2. a \in Nat /\ b \in Nat \ {0} /\ PowerOf2[n] = a * b
  BY <1>1, PowerFacts, PowerSum
<1> HIDE DEF a, b
<1>3. a * b >= a
  BY <1>2
<1> QED
  BY <1>2, <1>3 DEF a

-----------------------------------------------------------------------------
(* Bins.                                                                   *)

\* Division with remainder.
LEMMA DivMod ==
  ASSUME NEW a \in Int, NEW m \in Nat \ {0}
  PROVE  /\ a \div m \in Int /\ a % m \in 0..m-1
         /\ a = m * (a \div m) + (a % m)
OBVIOUS

\* Zero is the only multiple nearer to zero than the divisor.
LEMMA NoSmallMultiple ==
  ASSUME NEW m \in Nat \ {0}, NEW q \in Int, NEW r \in Int, m * q = r, -m < r, r < m
  PROVE  q = 0
OBVIOUS

\* Quotient and remainder are unique.
LEMMA DivUnique ==
  ASSUME NEW m \in Nat \ {0}, NEW q \in Int, NEW r \in 0..m-1, NEW a \in Int, a = m * q + r
  PROVE  a \div m = q /\ a % m = r
<1> DEFINE d == a \div m
           s == a % m
<1> HIDE DEF d, s
<1>0. d \in Int /\ s \in 0..m-1 /\ a = m * d + s
  BY DivMod DEF d, s
<1>1. m * (q - d) = s - r
  <2>1. m * (q - d) = m * q - m * d
    BY <1>0
  <2> QED
    BY <1>0, <2>1
<1>2. q - d = 0
  <2>1. q - d \in Int /\ s - r \in Int /\ -m < s - r /\ s - r < m
    BY <1>0
  <2> QED
    BY <1>1, <2>1, NoSmallMultiple
<1>3. d = q /\ s = r
  BY <1>0, <1>1, <1>2
<1> QED
  BY <1>3 DEF d, s

\* A quotient lies between bounds that are multiples.
LEMMA DivBetween ==
  ASSUME NEW v \in Nat, NEW w \in Nat \ {0}, NEW a \in Nat, NEW b \in Nat,
         w * a <= v, v < w * b
  PROVE  v \div w \in Nat /\ a <= v \div w /\ v \div w < b
<1> DEFINE q == v \div w
           r == v % w
<1>1. q \in Int /\ r \in 0..w-1 /\ v = w * q + r
  BY DivMod
<1> HIDE DEF q, r
<1>2. a <= q
  <2> SUFFICES ASSUME q + 1 <= a
               PROVE  FALSE
    BY <1>1
  <2>1. w * (q + 1) <= w * a
    BY <1>1
  <2>2. w * (q + 1) = w * q + w
    BY <1>1
  <2> QED
    BY <1>1, <2>1, <2>2
<1>3. q < b
  <2> SUFFICES ASSUME b <= q
               PROVE  FALSE
    BY <1>1
  <2>1. w * b <= w * q
    BY <1>1
  <2> QED
    BY <1>1, <2>1
<1> QED
  BY <1>1, <1>2, <1>3 DEF q

Half == kSubBucketHalfCount

Duration == 0 .. PowerOf2[kBucketCount] - 1

\* The constants of the class in terms of half a bucket.
LEMMA Sizes ==
  /\ kSignificantBits \in Nat /\ kBucketCount \in Nat
  /\ Half = PowerOf2[kSignificantBits] /\ Half \in Nat \ {0}
  /\ kSubBucketCount = 2 * Half
  /\ kBinCount = 2 * Half + (kBucketCount - (kSignificantBits + 1)) * Half
  /\ kBucketCount - (kSignificantBits + 1) \in Nat /\ kBinCount \in Nat /\ 2 * Half <= kBinCount
  /\ Duration \subseteq Nat
<1> DEFINE H == PowerOf2[kSignificantBits]
           k == kBucketCount - (kSignificantBits + 1)
<1>1. kSignificantBits \in Nat /\ kBucketCount \in Nat /\ k \in Nat
  BY HistogramAssumption
<1>2. H \in Nat \ {0} /\ PowerOf2[kSignificantBits + 1] = 2 * H
  BY <1>1, PowerFacts
<1>3. kSubBucketCount = 2 * H
  BY <1>2 DEF kSubBucketCount
<1> HIDE DEF H
<1>4. (2 * H) \div 2 = H
  <2>1. 2 * H \in Int /\ 0 \in 0..2-1 /\ 2 * H = 2 * H + 0 /\ 2 \in Nat \ {0} /\ H \in Int
    BY <1>2
  <2> QED
    BY <2>1, DivUnique
<1>5. Half = H
  BY <1>3, <1>4 DEF Half, kSubBucketHalfCount
<1>6. kBinCount = 2 * H + k * H
  BY <1>3, <1>5 DEF kBinCount, Half
<1>7. k * H \in Nat
  BY <1>1, <1>2
<1>8. Duration \subseteq Nat
  BY <1>1, PowerFacts DEF Duration
<1> QED
  BY <1>1, <1>2, <1>3, <1>5, <1>6, <1>7, <1>8 DEF H

\* A value has a highest bit.
LEMMA HighestBit ==
  \A n \in Nat : \A v \in Nat \ {0} :
    v < PowerOf2[n] => \E e \in Nat : e < n /\ PowerOf2[e] <= v /\ v < PowerOf2[e + 1]
<1> DEFINE T == {n \in Nat : \A v \in Nat \ {0} :
      v < PowerOf2[n] => \E e \in Nat : e < n /\ PowerOf2[e] <= v /\ v < PowerOf2[e + 1]}
<1>1. 0 \in T
  BY PowerFacts
<1>2. ASSUME NEW n \in T
      PROVE  n + 1 \in T
  <2> SUFFICES ASSUME NEW v \in Nat \ {0}, v < PowerOf2[n + 1]
               PROVE  \E e \in Nat : e < n + 1 /\ PowerOf2[e] <= v /\ v < PowerOf2[e + 1]
    OBVIOUS
  <2>0. PowerOf2[n] \in Nat
    BY PowerFacts
  <2>1. CASE v < PowerOf2[n]
    <3>1. PICK e \in Nat : e < n /\ PowerOf2[e] <= v /\ v < PowerOf2[e + 1]
      BY <2>1
    <3>2. e < n + 1
      BY <3>1
    <3> QED
      BY <3>1, <3>2
  <2>2. CASE PowerOf2[n] <= v
    <3>1. n \in Nat /\ n < n + 1
      OBVIOUS
    <3> QED
      BY <2>2, <3>1
  <2> QED
    BY <2>0, <2>1, <2>2
<1>3. T = Nat
  <2> HIDE DEF T
  <2> QED
    BY <1>1, <1>2, NatSet DEF T
<1> QED
  BY <1>3

\* The exponent is the number of the highest bit.
LEMMA ExponentIs ==
  ASSUME NEW v \in Duration
  PROVE  /\ exponent(v) \in 0..kBucketCount-1 /\ v < PowerOf2[exponent(v) + 1]
         /\ v = 0 => exponent(v) = 0
         /\ v # 0 => PowerOf2[exponent(v)] <= v
<1>0. v \in Nat /\ v < PowerOf2[kBucketCount] /\ kBucketCount \in Nat /\ 0 \in 0..kBucketCount-1
  BY HistogramAssumption, PowerFacts DEF Duration
<1>1. CASE v = 0
  <2>1. exponent(v) = 0
    BY <1>1 DEF exponent
  <2>2. PowerOf2[0 + 1] \in Nat \ {0}
    BY PowerFacts
  <2> QED
    BY <1>0, <1>1, <2>1, <2>2
<1>2. CASE v # 0
  <2>1. \E e \in Nat : e < kBucketCount /\ PowerOf2[e] <= v /\ v < PowerOf2[e + 1]
    BY <1>0, <1>2, HighestBit
  <2>2. \E e \in 0..kBucketCount-1 : PowerOf2[e] <= v /\ v < PowerOf2[e + 1]
    BY <1>0, <2>1
  <2>3. exponent(v) = CHOOSE e \in 0..kBucketCount-1 : PowerOf2[e] <= v /\ v < PowerOf2[e + 1]
    BY <1>2 DEF exponent
  <2>4. exponent(v) \in 0..kBucketCount-1
        /\ PowerOf2[exponent(v)] <= v /\ v < PowerOf2[exponent(v) + 1]
    BY <2>2, <2>3
  <2> QED
    BY <1>2, <2>4
<1> QED
  BY <1>1, <1>2

\* A small value is its own index.
Exact(v) == exponent(v) <= kSignificantBits /\ index_for(v) = v /\ v < 2 * Half

\* A larger one is in the bin of its bucket k and its highest bits u.
Bucket(v, k, w, u) ==
  /\ k \in Nat /\ k < kBucketCount - (kSignificantBits + 1)
  /\ exponent(v) = kSignificantBits + 1 + k
  /\ w = PowerOf2[k + 1] /\ u = v \div w
  /\ u \in Nat /\ Half <= u /\ u < 2 * Half
  /\ w * u <= v /\ v < w * u + w
  /\ w * Half <= v
  /\ index_for(v) = 2 * Half + k * Half + (u - Half)

\* A value has a bin of its own, or shares one of the upper half of a bucket.
LEMMA IndexIs ==
  ASSUME NEW v \in Duration
  PROVE  Exact(v) \/ \E k, w, u : Bucket(v, k, w, u)
<1> DEFINE e == exponent(v)
           s == kSignificantBits
<1>1. /\ e \in 0..kBucketCount-1 /\ v < PowerOf2[e + 1] /\ (v # 0 => PowerOf2[e] <= v)
      /\ (v = 0 => e = 0) /\ v \in Nat
  BY ExponentIs, Sizes
<1>2. /\ s \in Nat /\ kBucketCount \in Nat /\ Half = PowerOf2[s] /\ Half \in Nat \ {0}
      /\ kSubBucketCount = 2 * Half /\ kBucketCount - (s + 1) \in Nat
  BY Sizes
<1>3. index_for(v) = IF e <= s THEN v ELSE compact(e, v \div PowerOf2[e - s])
  BY DEF index_for
<1> HIDE DEF e
<1>4. CASE e <= s
  <2>1. e + 1 \in Nat /\ s + 1 \in Nat /\ e + 1 <= s + 1
    BY <1>1, <1>2, <1>4
  <2>2. PowerOf2[e + 1] <= PowerOf2[s + 1] /\ PowerOf2[s + 1] = 2 * Half
    BY <1>2, <2>1, PowerGrows, PowerFacts
  <2>3. PowerOf2[e + 1] \in Nat
    BY <2>1, PowerFacts
  <2>4. v < 2 * Half
    BY <1>1, <1>2, <2>2, <2>3
  <2> QED
    BY <1>3, <1>4, <2>4 DEF Exact, e
<1>5. CASE e > s
  <2> DEFINE k == e - (s + 1)
             w == PowerOf2[k + 1]
             u == v \div w
  <2>1. /\ k \in Nat /\ k < kBucketCount - (s + 1) /\ e = s + 1 + k /\ k + 1 = e - s
        /\ k + 1 \in Nat /\ (k + 1) + s = e /\ (k + 1) + (s + 1) = e + 1 /\ s + 1 \in Nat
        /\ e \in Nat
    BY <1>1, <1>2, <1>5
  <2>2. v # 0
    BY <1>1, <1>2, <1>5
  <2> HIDE DEF k
  <2>3. w \in Nat \ {0} /\ PowerOf2[e] = w * Half /\ PowerOf2[e + 1] = w * (2 * Half)
    <3>1. PowerOf2[(k + 1) + s] = w * PowerOf2[s]
      BY <1>2, <2>1, PowerSum
    <3>2. PowerOf2[(k + 1) + (s + 1)] = w * PowerOf2[s + 1]
      BY <1>2, <2>1, PowerSum
    <3>3. PowerOf2[s + 1] = 2 * Half
      BY <1>2, PowerFacts
    <3> QED
      BY <1>2, <2>1, <3>1, <3>2, <3>3, PowerFacts
  <2>4. index_for(v) = compact(e, u)
    BY <1>1, <1>2, <1>3, <1>5, <2>1
  <2> HIDE DEF w
  <2>5. w * Half <= v /\ v < w * (2 * Half) /\ 2 * Half \in Nat
    BY <1>1, <1>2, <2>2, <2>3
  <2>6. u \in Nat /\ Half <= u /\ u < 2 * Half
    BY <1>1, <1>2, <2>3, <2>5, DivBetween
  <2>7. w * u <= v /\ v < w * u + w
    <3>0. v \in Int /\ w \in Nat \ {0}
      BY <1>1, <2>3
    <3>1. v % w \in 0..w-1 /\ v = w * (v \div w) + (v % w)
      BY <3>0, DivMod
    <3>2. w * u \in Nat
      BY <2>3, <2>6
    <3> DEFINE r == v % w
    <3>3. r \in 0..w-1 /\ v = w * u + r
      BY <3>1
    <3> HIDE DEF u, r
    <3> QED
      BY <1>1, <2>3, <3>2, <3>3
  <2>8. compact(e, u) = 2 * Half + k * Half + (u - Half)
    BY <1>2, <2>1 DEF compact, Half, k
  <2> HIDE DEF u
  <2>9. Bucket(v, k, w, u)
    BY <2>1, <2>4, <2>5, <2>6, <2>7, <2>8 DEF Bucket, e, u, w
  <2> QED
    BY <2>9
<1> QED
  BY <1>1, <1>2, <1>4, <1>5

\* There is a bin for every value.
LEMMA IndexRange ==
  ASSUME NEW v \in Duration
  PROVE  index_for(v) \in 0..kBinCount-1
<1> DEFINE K == kBucketCount - (kSignificantBits + 1)
<1>1. /\ Half \in Nat \ {0} /\ kBinCount = 2 * Half + K * Half /\ K \in Nat
      /\ kBinCount \in Nat /\ 2 * Half <= kBinCount /\ v \in Nat
  BY Sizes
<1> HIDE DEF K
<1>2. CASE Exact(v)
  BY <1>1, <1>2 DEF Exact
<1>3. ASSUME NEW k, NEW w, NEW u, Bucket(v, k, w, u)
      PROVE  index_for(v) \in 0..kBinCount-1
  <2>1. /\ k \in Nat /\ k < K /\ u \in Nat /\ Half <= u /\ u < 2 * Half
        /\ index_for(v) = 2 * Half + k * Half + (u - Half)
    BY <1>3 DEF Bucket, K
  <2>2. k * Half + Half <= K * Half /\ k * Half \in Nat /\ K * Half \in Nat
    <3>1. Half * (k + 1) <= Half * K
      BY <1>1, <2>1
    <3>2. Half * (k + 1) = k * Half + Half /\ Half * K = K * Half
      BY <1>1, <2>1
    <3> QED
      BY <1>1, <2>1, <3>1, <3>2
  <2> QED
    BY <1>1, <2>1, <2>2
<1> QED
  BY <1>2, <1>3, IndexIs

\* The lower bound of a bin is within the precision of each value in it.
LEMMA IndexRepresents ==
  ASSUME NEW v \in Duration
  PROVE  Represents(value_for_index(index_for(v)), v)
<1> DEFINE i == index_for(v)
           c == i - 2 * Half
<1>1. /\ Half \in Nat \ {0} /\ kSubBucketCount = 2 * Half /\ v \in Nat
      /\ kSignificantBits \in Nat /\ Half = PowerOf2[kSignificantBits]
  BY Sizes
<1>2. value_for_index(i) =
        IF i < 2 * Half THEN i
        ELSE (Half + (c % Half))
               * PowerOf2[(kSignificantBits + 1 + (c \div Half)) - kSignificantBits]
  BY <1>1 DEF value_for_index, Half
<1> HIDE DEF i
<1>3. CASE Exact(v)
  <2>1. value_for_index(i) = v
    BY <1>2, <1>3 DEF Exact, i
  <2>2. (v - v) * Half <= v
    BY <1>1
  <2> QED
    BY <1>1, <2>1, <2>2 DEF Represents, i
<1>4. ASSUME NEW k, NEW w, NEW u, Bucket(v, k, w, u)
      PROVE  Represents(value_for_index(i), v)
  <2>1. /\ k \in Nat /\ u \in Nat /\ Half <= u /\ u < 2 * Half /\ w = PowerOf2[k + 1]
        /\ i = 2 * Half + k * Half + (u - Half)
        /\ w * u <= v /\ v < w * u + w /\ w * Half <= v
    BY <1>4 DEF Bucket, i
  <2>2. k * Half \in Nat /\ k * Half = Half * k
    BY <1>1, <2>1
  <2>3. c = Half * k + (u - Half) /\ u - Half \in 0..Half-1 /\ c \in Int /\ ~(i < 2 * Half)
    BY <1>1, <2>1, <2>2
  <2> HIDE DEF c
  <2>4. c \div Half = k /\ c % Half = u - Half
    <3> DEFINE r == u - Half
    <3>1. k \in Int /\ r \in 0..Half-1 /\ c \in Int /\ c = Half * k + r /\ Half \in Nat \ {0}
      BY <1>1, <2>1, <2>3
    <3> HIDE DEF r
    <3>2. c \div Half = k /\ c % Half = r
      BY <3>1, DivUnique
    <3> QED
      BY <3>2 DEF r
  <2>5. (kSignificantBits + 1 + k) - kSignificantBits = k + 1 /\ Half + (u - Half) = u
    BY <1>1, <2>1
  <2>6. value_for_index(i) = u * w
    BY <1>2, <2>1, <2>3, <2>4, <2>5
  <2>7. w \in Nat \ {0} /\ u * w = w * u /\ w * u \in Nat
    BY <2>1, PowerFacts
  <2>8. (v - w * u) * Half <= w * Half
    <3> DEFINE d == v - w * u
    <3>1. d \in Nat /\ d <= w
      BY <1>1, <2>1, <2>7
    <3> HIDE DEF d
    <3>2. Half * d <= Half * w /\ Half * d = d * Half /\ Half * w = w * Half
      BY <1>1, <2>7, <3>1
    <3>3. d * Half <= w * Half
      BY <3>2
    <3> QED
      BY <3>3 DEF d
  <2>9. (v - w * u) * Half \in Int /\ w * Half \in Int
    <3>1. v - w * u \in Int
      BY <1>1, <2>7
    <3> QED
      BY <1>1, <2>7, <3>1
  <2>10. (v - w * u) * Half <= v
    BY <1>1, <2>1, <2>8, <2>9
  <2> QED
    BY <1>1, <2>1, <2>6, <2>7, <2>10 DEF Represents
<1> QED
  BY <1>3, <1>4, IndexIs DEF i

\* The bins are in the order of their values.
LEMMA IndexMonotone ==
  ASSUME NEW v \in Duration, NEW x \in Duration, v <= x
  PROVE  index_for(v) <= index_for(x)
<1>1. Half \in Nat \ {0} /\ v \in Nat /\ x \in Nat /\ kSignificantBits \in Nat
  BY Sizes
<1>2. exponent(v) <= exponent(x)
  <2>1. /\ exponent(v) \in Nat /\ exponent(x) \in Nat /\ x < PowerOf2[exponent(x) + 1]
        /\ v # 0 => PowerOf2[exponent(v)] <= v
        /\ v = 0 => exponent(v) = 0
    BY ExponentIs, Sizes
  <2> SUFFICES ASSUME exponent(x) + 1 <= exponent(v)
               PROVE  FALSE
    BY <2>1
  <2>2. v # 0
    BY <2>1
  <2>3. PowerOf2[exponent(x) + 1] <= PowerOf2[exponent(v)]
    BY <2>1, PowerGrows
  <2>4. PowerOf2[exponent(x) + 1] \in Nat /\ PowerOf2[exponent(v)] \in Nat
    BY <2>1, PowerFacts
  <2> QED
    BY <1>1, <2>1, <2>2, <2>3, <2>4
<1>3. CASE Exact(v) /\ Exact(x)
  BY <1>3 DEF Exact
<1>4. ASSUME Exact(v), NEW k, NEW w, NEW u, Bucket(x, k, w, u)
      PROVE  index_for(v) <= index_for(x)
  <2>1. /\ k \in Nat /\ u \in Nat /\ Half <= u
        /\ index_for(x) = 2 * Half + k * Half + (u - Half)
        /\ index_for(v) = v /\ v < 2 * Half
    BY <1>4 DEF Bucket, Exact
  <2>2. k * Half \in Nat
    BY <1>1, <2>1
  <2> QED
    BY <1>1, <2>1, <2>2
<1>5. ASSUME NEW k, NEW w, NEW u, Bucket(v, k, w, u), Exact(x)
      PROVE  FALSE
  <2>1. exponent(v) = kSignificantBits + 1 + k /\ k \in Nat /\ exponent(x) <= kSignificantBits
        /\ exponent(x) \in Nat
    BY <1>5, ExponentIs, Sizes DEF Bucket, Exact
  <2> QED
    BY <1>1, <1>2, <2>1
<1>6. ASSUME NEW k, NEW w, NEW u, Bucket(v, k, w, u),
             NEW l, NEW y, NEW t, Bucket(x, l, y, t)
      PROVE  index_for(v) <= index_for(x)
  <2>1. /\ k \in Nat /\ u \in Nat /\ Half <= u /\ u < 2 * Half
        /\ index_for(v) = 2 * Half + k * Half + (u - Half)
        /\ w = PowerOf2[k + 1] /\ w * u <= v
        /\ l \in Nat /\ t \in Nat /\ Half <= t /\ t < 2 * Half
        /\ index_for(x) = 2 * Half + l * Half + (t - Half)
        /\ y = PowerOf2[l + 1] /\ x < y * t + y
        /\ exponent(v) = kSignificantBits + 1 + k /\ exponent(x) = kSignificantBits + 1 + l
    BY <1>6 DEF Bucket
  <2>2. k <= l
    BY <1>1, <1>2, <2>1
  <2>3. k * Half \in Nat /\ l * Half \in Nat
    BY <1>1, <2>1
  <2>4. CASE k = l
    <3>1. w = y /\ w \in Nat \ {0}
      BY <2>1, <2>4, PowerFacts
    <3>2. u <= t
      <4> SUFFICES ASSUME t + 1 <= u
                   PROVE  FALSE
        BY <2>1
      <4>1. w * (t + 1) <= w * u /\ w * (t + 1) = w * t + w
        BY <2>1, <3>1
      <4>2. w * t \in Nat /\ w * u \in Nat
        BY <2>1, <3>1
      <4> QED
        BY <1>1, <2>1, <3>1, <4>1, <4>2
    <3> QED
      BY <1>1, <2>1, <2>3, <2>4, <3>2
  <2>5. CASE k + 1 <= l
    <3>1. Half * (k + 1) <= Half * l
      BY <1>1, <2>1, <2>5
    <3>2. Half * (k + 1) = k * Half + Half /\ Half * l = l * Half
      BY <1>1, <2>1
    <3>3. k * Half + Half <= l * Half
      BY <3>1, <3>2
    <3> QED
      BY <1>1, <2>1, <2>3, <3>3
  <2> QED
    BY <2>1, <2>2, <2>4, <2>5
<1> QED
  BY <1>3, <1>4, <1>5, <1>6, IndexIs

-----------------------------------------------------------------------------
(* The inductive invariant.                                                *)

Bin == 0 .. kBinCount - 1

InBin(i) == {v \in Value : index_for(v) = i}
UpTo(i) == {v \in Value : index_for(v) <= i}

\* The values counted in rec.
Present(rec) == {v \in Value : rec[v] > 0}

\* The bins cs and the count n tell of what has been recorded; so do the first
\* bins taken together, whatever their order.
Tallies(cs, n, rec) ==
  /\ rec \in [Value -> Nat] /\ cs \in [Bin -> Nat] /\ n \in Nat
  /\ n = Sum(rec, Value)
  /\ \A i \in Bin : cs[i] = Sum(rec, InBin(i)) /\ Sum(cs, 0..i) = Sum(rec, UpTo(i))

\* The ends lo and hi are those of the values recorded; of none, they are zero.
Ends(n, lo, hi, rec) ==
  /\ lo \in Nat /\ hi \in Nat
  /\ n = 0 <=> Present(rec) = {}
  /\ n = 0 => lo = 0 /\ hi = 0
  /\ n # 0 => lo \in Present(rec) /\ hi \in Present(rec)
  /\ \A v \in Present(rec) : lo <= v /\ v <= hi

HistogramInv == Tallies(counts, count, recorded) /\ Ends(count, min, max, recorded)

\* Sets of recorded values and of bins are finite.
LEMMA Finite ==
  /\ Value \subseteq Duration /\ Value \subseteq Nat /\ IsFiniteSet(Value)
  /\ \A A \in SUBSET Value : IsFiniteSet(A)
  /\ \A i \in Bin : IsFiniteSet(0..i) /\ 0..i \subseteq Bin /\ i \in 0..i
  /\ \A v \in Value : index_for(v) \in Bin
<1>1. Value \subseteq Duration /\ Duration \subseteq Nat
  BY HistogramAssumption, Sizes DEF Duration
<1>2. IsFiniteSet(Duration)
  <2>1. PowerOf2[kBucketCount] \in Nat
    BY Sizes, PowerFacts
  <2>2. 0 \in Int /\ PowerOf2[kBucketCount] - 1 \in Int
    BY <2>1
  <2> QED
    BY <2>2, FS_Interval DEF Duration
<1>3. IsFiniteSet(Value)
  BY <1>1, <1>2, FS_Subset
<1>4. \A A \in SUBSET Value : IsFiniteSet(A)
  BY <1>3, FS_Subset
<1>5. \A i \in Bin : IsFiniteSet(0..i)
  <2>1. \A i \in Bin : i \in Int /\ 0 \in Int
    BY Sizes DEF Bin
  <2> QED
    BY <2>1, FS_Interval
<1>6. \A i \in Bin : 0..i \subseteq Bin /\ i \in 0..i
  BY Sizes DEF Bin
<1>7. \A v \in Value : index_for(v) \in Bin
  BY <1>1, IndexRange DEF Bin
<1> QED
  BY <1>1, <1>3, <1>4, <1>5, <1>6, <1>7

\* Nothing has been recorded.
LEMMA EmptyInv ==
  ASSUME NEW cs, cs = [i \in 0..kBinCount-1 |-> 0], NEW rec, rec = [v \in Value |-> 0]
  PROVE  Tallies(cs, 0, rec) /\ Ends(0, 0, 0, rec)
<1>1. Present(rec) = {}
  BY DEF Present
<1>2. /\ \A A \in SUBSET Value : Sum(rec, A) = 0
      /\ \A i \in Bin : Sum(cs, 0..i) = 0
  <2>1. IsFiniteSet({})
    BY FS_EmptySet
  <2>2. ASSUME NEW A \in SUBSET Value
        PROVE  Sum(rec, A) = 0
    <3>1. /\ IsFiniteSet(A) /\ \A i \in A \cup {} : rec[i] \in Nat
          /\ \A i \in A \ {} : rec[i] = 0
      BY Finite
    <3>2. Sum(rec, A) <= Sum(rec, {}) /\ Sum(rec, A) \in Nat
      BY <2>1, <3>1, SumGrows
    <3> QED
      BY <3>2, SumEmpty
  <2>3. ASSUME NEW i \in Bin
        PROVE  Sum(cs, 0..i) = 0
    <3> DEFINE A == 0..i
    <3>1. /\ IsFiniteSet(A) /\ \A j \in A \cup {} : cs[j] \in Nat
          /\ \A j \in A \ {} : cs[j] = 0
      BY Finite DEF Bin
    <3> HIDE DEF A
    <3>2. Sum(cs, A) <= Sum(cs, {}) /\ Sum(cs, A) \in Nat
      BY <2>1, <3>1, SumGrows
    <3> QED
      BY <3>2, SumEmpty DEF A
  <2> QED
    BY <2>2, <2>3
<1>3. \A i \in Bin : cs[i] = 0 /\ InBin(i) \in SUBSET Value /\ UpTo(i) \in SUBSET Value
  BY DEF Bin, InBin, UpTo
<1>4. rec \in [Value -> Nat] /\ cs \in [Bin -> Nat]
  BY DEF Bin
<1> QED
  BY <1>1, <1>2, <1>3, <1>4 DEF Tallies, Ends

\* One more of x.
Raised(f, x) == [f EXCEPT ![x] = @ + 1]

\* It is in the sum over every set that has x.
LEMMA OneMore ==
  ASSUME NEW S, IsFiniteSet(S), NEW f \in [S -> Nat], NEW x \in S, NEW A \in SUBSET S
  PROVE  Sum(Raised(f, x), A) = Sum(f, A) + (IF x \in A THEN 1 ELSE 0)
<1> DEFINE g == Raised(f, x)
<1>1. /\ g[x] = f[x] + 1 /\ \A i \in A \ {x} : f[i] = g[i]
      /\ \A i \in A : f[i] \in Int
  BY DEF Raised
<1> HIDE DEF g
<1>2. IsFiniteSet(A)
  BY FS_Subset
<1>3. CASE x \in A
  <2>1. Sum(g, A) = Sum(f, A) + 1
    BY <1>1, <1>2, <1>3, SumRaise
  <2> QED
    BY <1>3, <2>1 DEF g
<1>4. CASE x \notin A
  <2>1. \A i \in A : f[i] \in Int /\ f[i] = g[i]
    BY <1>1, <1>4
  <2>2. Sum(f, A) = Sum(g, A) /\ Sum(f, A) \in Int
    BY <1>1, <1>2, <2>1, SumSame, SumTake
  <2> QED
    BY <1>4, <2>2 DEF g
<1> QED
  BY <1>3, <1>4

\* record() counts the value in its bin.
LEMMA RecordTallies ==
  ASSUME NEW cs, NEW n, NEW rec, Tallies(cs, n, rec), NEW value \in Value
  PROVE  Tallies(Raised(cs, index_for(value)), n + 1, Raised(rec, value))
<1> DEFINE b == index_for(value)
           ds == Raised(cs, b)
           r == Raised(rec, value)
<1>1. b \in Bin
  BY Finite
<1>2. rec \in [Value -> Nat] /\ cs \in [Bin -> Nat] /\ n \in Nat /\ n = Sum(rec, Value)
  BY DEF Tallies
<1> HIDE DEF b
<1>3. r \in [Value -> Nat] /\ ds \in [Bin -> Nat] /\ n + 1 \in Nat
  <2>1. rec[value] + 1 \in Nat /\ cs[b] + 1 \in Nat /\ n + 1 \in Nat
    BY <1>1, <1>2
  <2> QED
    BY <1>1, <1>2, <2>1 DEF Raised
<1>4. ASSUME NEW A \in SUBSET Value
      PROVE  Sum(r, A) = Sum(rec, A) + (IF value \in A THEN 1 ELSE 0)
  <2>1. IsFiniteSet(Value)
    BY Finite
  <2> QED
    BY <1>2, <2>1, OneMore
<1>5. IsFiniteSet(Bin)
  BY Sizes, FS_Interval DEF Bin
<1>6. \A i \in Bin : Sum(ds, 0..i) = Sum(cs, 0..i) + (IF b \in 0..i THEN 1 ELSE 0)
  <2> TAKE i \in Bin
  <2> DEFINE A == 0..i
  <2>1. A \in SUBSET Bin
    BY Finite
  <2> HIDE DEF A
  <2>2. Sum(ds, A) = Sum(cs, A) + (IF b \in A THEN 1 ELSE 0)
    BY <1>1, <1>2, <1>5, <2>1, OneMore
  <2> QED
    BY <2>2 DEF A
<1>7. \A i \in Bin : ds[i] = cs[i] + (IF i = b THEN 1 ELSE 0)
  BY <1>1, <1>2 DEF Raised
<1>8. n + 1 = Sum(r, Value)
  BY <1>2, <1>4
<1>9. ASSUME NEW i \in Bin
      PROVE  ds[i] = Sum(r, InBin(i)) /\ Sum(ds, 0..i) = Sum(r, UpTo(i))
  <2>1. cs[i] = Sum(rec, InBin(i)) /\ Sum(cs, 0..i) = Sum(rec, UpTo(i))
    BY DEF Tallies
  <2>2. /\ InBin(i) \in SUBSET Value /\ UpTo(i) \in SUBSET Value
        /\ value \in InBin(i) <=> i = b
        /\ value \in UpTo(i) <=> b <= i
    BY DEF InBin, UpTo, b
  <2>3. b \in 0..i <=> b <= i
    BY <1>1, Sizes DEF Bin
  <2> HIDE DEF ds, r
  <2> QED
    BY <1>4, <1>6, <1>7, <2>1, <2>2, <2>3
<1> HIDE DEF ds, r
<1>10. Tallies(ds, n + 1, r)
  BY <1>3, <1>8, <1>9 DEF Tallies
<1> QED
  BY <1>10 DEF ds, r, b

\* record() moves the end that the value is beyond.
LEMMA RecordEnds ==
  ASSUME NEW n \in Nat, NEW lo, NEW hi, NEW rec \in [Value -> Nat], Ends(n, lo, hi, rec),
         NEW value \in Value, NEW lo1, NEW hi1,
         lo1 = IF n + 1 = 1 \/ value < lo THEN value ELSE lo,
         hi1 = IF value > hi THEN value ELSE hi
  PROVE  Ends(n + 1, lo1, hi1, Raised(rec, value))
<1> DEFINE r == Raised(rec, value)
<1>1. Present(r) = Present(rec) \cup {value}
  BY DEF Present, Raised
<1>2. value \in Nat /\ \A v \in Present(rec) : v \in Nat
  BY Finite DEF Present
<1>3. n + 1 # 0 /\ (n + 1 = 1 <=> n = 0)
  OBVIOUS
<1> HIDE DEF r
<1>4. CASE n = 0
  <2>1. Present(r) = {value} /\ lo1 = value /\ hi1 = value
    BY <1>1, <1>2, <1>3, <1>4 DEF Ends
  <2>2. n + 1 # 0 /\ value <= value
    BY <1>2, <1>3
  <2>3. Ends(n + 1, value, value, r)
    BY <1>2, <2>1, <2>2 DEF Ends
  <2> QED
    BY <2>1, <2>3 DEF r
<1>5. CASE n # 0
  <2>1. /\ lo \in Nat /\ hi \in Nat /\ lo \in Present(rec) /\ hi \in Present(rec)
        /\ \A v \in Present(rec) : lo <= v /\ v <= hi
    BY <1>5 DEF Ends
  <2>2. lo1 = IF value < lo THEN value ELSE lo
    BY <1>3, <1>5
  <2>3. /\ lo1 \in Nat /\ hi1 \in Nat /\ lo1 \in Present(r) /\ hi1 \in Present(r)
        /\ lo1 <= value /\ lo1 <= lo /\ value <= hi1 /\ hi <= hi1
    BY <1>1, <1>2, <2>1, <2>2
  <2>4. \A v \in Present(r) : lo1 <= v /\ v <= hi1
    BY <1>1, <1>2, <2>1, <2>3
  <2> QED
    BY <1>3, <2>3, <2>4 DEF Ends, r
<1> QED
  BY <1>4, <1>5

\* The invariant holds of a new histogram, ...
LEMMA InitInv == Init => HistogramInv
BY EmptyInv DEF Init, HistogramInv

\* ... after every call, ...
LEMMA NextInv == HistogramInv /\ [Next]_vars => HistogramInv'
<1> SUFFICES ASSUME HistogramInv, [Next]_vars
             PROVE  HistogramInv'
  OBVIOUS
<1>1. ASSUME NEW value \in Value, record(value)
      PROVE  HistogramInv'
  <2>1. /\ counts' = Raised(counts, index_for(value)) /\ count' = count + 1
        /\ recorded' = Raised(recorded, value)
        /\ min' = IF count + 1 = 1 \/ value < min THEN value ELSE min
        /\ max' = IF value > max THEN value ELSE max
    BY <1>1 DEF record, IsMinimum, Raised
  <2>2. Tallies(counts', count', recorded')
    BY <2>1, RecordTallies DEF HistogramInv
  <2>3. count \in Nat /\ recorded \in [Value -> Nat]
    BY DEF HistogramInv, Tallies
  <2>4. Ends(count', min', max', recorded')
    BY <2>1, <2>3, RecordEnds DEF HistogramInv
  <2> QED
    BY <2>2, <2>4 DEF HistogramInv
<1>2. CASE reset
  <2>1. Tallies(counts', count', recorded') /\ Ends(count', min', max', recorded')
    BY <1>2, EmptyInv DEF reset
  <2> QED
    BY <2>1 DEF HistogramInv
<1>3. CASE UNCHANGED vars
  BY <1>3 DEF vars, HistogramInv
<1> QED
  BY <1>1, <1>2, <1>3 DEF Next

\* ... and therefore always.
LEMMA Invariance == Spec => []HistogramInv
BY InitInv, NextInv, PTL DEF Spec

-----------------------------------------------------------------------------
(* The theorems.                                                           *)

\* The members are numbers and no duration of 64 bits indexes outside the
\* array of bins.
THEOREM Typing == Spec => []TypeOK
<1>1. HistogramInv => TypeOK
  <2> SUFFICES ASSUME HistogramInv
               PROVE  TypeOK
    OBVIOUS
  <2>1. counts \in [Bin -> Nat] /\ count \in Nat /\ min \in Nat /\ max \in Nat
    BY DEF HistogramInv, Tallies, Ends
  <2>2. \A v \in Duration : index_for(v) \in Bin
    BY IndexRange DEF Bin
  <2> QED
    BY <2>1, <2>2 DEF TypeOK, Bin, Duration
<1> QED
  BY <1>1, Invariance, PTL

\* Count, minimum and maximum are exact after any records and resets, zero
\* durations included, and each bin counts exactly its own values.
THEOREM Reporting == Spec => []ReportsExact
<1>1. HistogramInv => ReportsExact
  <2> SUFFICES ASSUME HistogramInv
               PROVE  ReportsExact
    OBVIOUS
  <2>0. Recorded = Present(recorded)
    BY DEF Recorded, Present
  <2>1. /\ counts \in [Bin -> Nat] /\ count = Sum(recorded, Value)
        /\ \A i \in Bin : counts[i] = Sum(recorded, InBin(i))
    BY DEF HistogramInv, Tallies
  <2>2. /\ count = 0 <=> Recorded = {}
        /\ count # 0 => min \in Recorded /\ max \in Recorded
        /\ \A v \in Recorded : min <= v /\ v <= max
        /\ min \in Nat /\ max \in Nat
    BY <2>0 DEF HistogramInv, Ends
  <2>3. \A v \in Recorded : v \in Nat
    BY Finite DEF Recorded
  <2>4. Recorded # {} => min = Min(Recorded) /\ max = Max(Recorded)
    <3> SUFFICES ASSUME Recorded # {}
                 PROVE  min = Min(Recorded) /\ max = Max(Recorded)
      OBVIOUS
    <3>1. Min(Recorded) \in Recorded /\ \A v \in Recorded : Min(Recorded) <= v
      BY <2>2 DEF Min
    <3>2. Max(Recorded) \in Recorded /\ \A v \in Recorded : Max(Recorded) >= v
      <4>1. max \in Recorded /\ \A v \in Recorded : max >= v
        BY <2>2, <2>3
      <4> QED
        BY <4>1 DEF Max
    <3> QED
      BY <2>2, <2>3, <3>1, <3>2
  <2>5. <<summary.min_ns, summary.max_ns>> =
          IF Recorded = {} THEN <<0, 0>> ELSE <<Min(Recorded), Max(Recorded)>>
    BY <2>2, <2>4 DEF summary
  <2>6. summary.count = count
    BY DEF summary
  <2> QED
    BY <2>1, <2>5, <2>6 DEF ReportsExact, Sum, InBin
<1> QED
  BY <1>1, Invariance, PTL

-----------------------------------------------------------------------------
(* Ranks.                                                                  *)

\* A set of numbers has a least one, ...
LEMMA LeastOf ==
  ASSUME NEW S \in SUBSET Nat, S # {}
  PROVE  Min(S) \in S /\ \A x \in S : Min(S) <= x
<1> DEFINE R == OpToRel(<, Nat)
<1>1. PICK x \in S : \A y \in S : <<y, x>> \notin R
  <2>1. IsWellFoundedOn(R, Nat)
    BY NatLessThanWellFounded
  <2> HIDE DEF R
  <2> QED
    BY <2>1, WFMin
<1>2. \A y \in S : x <= y
  <2> TAKE y \in S
  <2>1. x \in Nat /\ y \in Nat /\ ~(y < x)
    BY <1>1 DEF OpToRel
  <2> QED
    BY <2>1
<1> QED
  BY <1>2 DEF Min

\* ... and a greatest one, if it has a bound.
LEMMA GreatestOf ==
  ASSUME NEW S \in SUBSET Nat, S # {}, NEW b \in Nat, \A x \in S : x <= b
  PROVE  \E x \in S : \A y \in S : y <= x
<1> DEFINE D == {b - x : x \in S}
<1>1. D \in SUBSET Nat /\ D # {}
  <2>1. \A x \in S : b - x \in Nat
    OBVIOUS
  <2> QED
    BY <2>1
<1>2. Min(D) \in D /\ \A d \in D : Min(D) <= d
  <2> HIDE DEF D
  <2> QED
    BY <1>1, LeastOf
<1>3. PICK x \in S : Min(D) = b - x
  BY <1>2
<1>4. \A y \in S : b - x <= b - y
  BY <1>2, <1>3
<1> QED
  BY <1>4

\* The first bin by which rank values have been counted is that of the rank-th.
LEMMA BinOfRank ==
  ASSUME HistogramInv, NEW rank \in 1..count
  PROVE  LET reaching == {i \in 0..kBinCount-1 : Observed(i) >= rank}
         IN reaching # {} /\ Represents(value_for_index(Min(reaching)), Nth(rank))
<1> DEFINE reaching == {i \in Bin : Observed(i) >= rank}
           Le(v) == {w \in Value : w <= v}
           top == kBinCount - 1
<1>1. /\ recorded \in [Value -> Nat] /\ count \in Nat /\ count = Sum(recorded, Value)
      /\ \A i \in Bin : Observed(i) = Sum(recorded, UpTo(i))
  BY DEF HistogramInv, Tallies, Observed, Sum
<1>2. /\ Bin \subseteq Nat /\ top \in Bin /\ UpTo(top) = Value
      /\ Value \subseteq Nat /\ Value \subseteq Duration
  <2>1. top \in Bin /\ Bin \subseteq Nat
    BY Sizes DEF Bin
  <2>2. \A v \in Value : index_for(v) <= top
    BY Finite, Sizes DEF Bin
  <2> QED
    BY <2>1, <2>2, Finite DEF UpTo
<1>3. /\ \A A \in SUBSET Value : IsFiniteSet(A) /\ \A w \in A : recorded[w] \in Nat
      /\ \A v \in Value : index_for(v) \in Bin
      /\ \A i \in Bin : UpTo(i) \in SUBSET Value
      /\ \A v \in Value : Le(v) \in SUBSET Value
  BY <1>1, Finite DEF UpTo
<1>4. \A v : AtMost(v) = Sum(recorded, Le(v))
  BY DEF AtMost, Sum
<1> HIDE DEF top
<1>5. top \in reaching
  BY <1>1, <1>2
<1> DEFINE i == Min(reaching)
<1>6. i \in Bin /\ Sum(recorded, UpTo(i)) >= rank /\ \A j \in reaching : i <= j
  <2>1. reaching \in SUBSET Nat /\ reaching # {}
    BY <1>2, <1>5
  <2>2. i \in reaching /\ \A j \in reaching : i <= j
    <3> HIDE DEF reaching
    <3> QED
      BY <2>1, LeastOf
  <2> QED
    BY <1>1, <2>2
<1> HIDE DEF i, Le
<1>7. ASSUME NEW v \in Value, AtMost(v) >= rank
      PROVE  i <= index_for(v)
  <2> DEFINE b == index_for(v)
  <2>1. b \in Bin /\ \A w \in Le(v) : w \in UpTo(b)
    <3>1. \A w \in Value : w <= v => index_for(w) <= b
      BY <1>2, IndexMonotone
    <3> QED
      BY <1>3, <3>1 DEF UpTo, Le
  <2> HIDE DEF b
  <2>2. Sum(recorded, Le(v)) <= Sum(recorded, UpTo(b)) /\ Sum(recorded, Le(v)) \in Nat
        /\ Sum(recorded, UpTo(b)) \in Nat
    <3>1. /\ IsFiniteSet(Le(v)) /\ IsFiniteSet(UpTo(b))
          /\ \A w \in Le(v) \cup UpTo(b) : recorded[w] \in Nat
          /\ \A w \in Le(v) \ UpTo(b) : recorded[w] = 0
      BY <1>3, <2>1
    <3> QED
      BY <3>1, SumGrows
  <2>3. b \in reaching
    BY <1>1, <1>4, <1>7, <2>1, <2>2
  <2> QED
    BY <1>6, <2>3 DEF b
<1>8. \E v \in Recorded : index_for(v) <= i /\ AtMost(v) >= rank
  <2> DEFINE P == Recorded \cap UpTo(i)
  <2>1. /\ IsFiniteSet(UpTo(i)) /\ UpTo(i) \in SUBSET Value /\ P \in SUBSET Nat
        /\ \A w \in UpTo(i) \ P : recorded[w] = 0
    <3>1. IsFiniteSet(UpTo(i)) /\ UpTo(i) \in SUBSET Value
      BY <1>3, <1>6
    <3>2. P \in SUBSET Nat
      BY <1>2 DEF Recorded
    <3>3. \A w \in UpTo(i) \ P : recorded[w] \in Nat /\ ~(recorded[w] > 0)
      BY <1>1, <3>1 DEF Recorded
    <3> QED
      BY <3>1, <3>2, <3>3
  <2>2. P # {}
    <3> SUFFICES ASSUME P = {}
                 PROVE  FALSE
      OBVIOUS
    <3>1. /\ IsFiniteSet({}) /\ \A w \in UpTo(i) \cup {} : recorded[w] \in Nat
          /\ \A w \in UpTo(i) \ {} : recorded[w] = 0
      BY <1>3, <2>1, FS_EmptySet
    <3>2. Sum(recorded, UpTo(i)) <= 0 /\ Sum(recorded, UpTo(i)) \in Nat
      BY <2>1, <3>1, SumGrows, SumEmpty
    <3> QED
      BY <1>1, <1>6, <3>2
  <2>3. PICK b \in Nat : \A w \in Value : w <= b
    <3>1. PowerOf2[kBucketCount] \in Nat \ {0}
      BY Sizes, PowerFacts
    <3>2. PowerOf2[kBucketCount] \in Nat /\ \A w \in Value : w <= PowerOf2[kBucketCount]
      BY <1>2, <3>1 DEF Duration
    <3> QED
      BY <3>2
  <2>4. PICK v \in P : \A w \in P : w <= v
    <3>1. \A w \in P : w <= b
      BY <2>1, <2>3
    <3> HIDE DEF P
    <3> QED
      BY <2>1, <2>2, <3>1, GreatestOf
  <2>5. v \in Value /\ v \in Recorded /\ index_for(v) <= i
    BY <2>1, <2>4 DEF UpTo
  <2>6. Sum(recorded, UpTo(i)) <= Sum(recorded, Le(v)) /\ Sum(recorded, Le(v)) \in Nat
        /\ Sum(recorded, UpTo(i)) \in Nat
    <3>1. /\ IsFiniteSet(Le(v)) /\ Le(v) \in SUBSET Value
          /\ \A w \in UpTo(i) \cup Le(v) : recorded[w] \in Nat
      BY <1>3, <2>1, <2>5
    <3>2. \A w \in UpTo(i) \ Le(v) : recorded[w] = 0
      BY <2>1, <2>4 DEF Le
    <3> QED
      BY <2>1, <3>1, <3>2, SumGrows
  <2>7. AtMost(v) >= rank
    BY <1>4, <1>6, <2>6
  <2> QED
    BY <2>5, <2>7
<1> DEFINE m == Nth(rank)
<1>9. m \in Recorded /\ AtMost(m) >= rank /\ \A v \in Recorded : AtMost(v) >= rank => m <= v
  <2> DEFINE N == {v \in Recorded : AtMost(v) >= rank}
  <2>1. N \in SUBSET Nat /\ N # {}
    BY <1>2, <1>8 DEF Recorded
  <2>2. Min(N) \in N /\ \A v \in N : Min(N) <= v
    <3> HIDE DEF N
    <3> QED
      BY <2>1, LeastOf
  <2> QED
    BY <2>2 DEF Nth
<1> HIDE DEF m
<1>10. m \in Value /\ m \in Duration
  BY <1>2, <1>9 DEF Recorded
<1>11. index_for(m) <= i
  <2>1. PICK v \in Recorded : index_for(v) <= i /\ AtMost(v) >= rank
    BY <1>8
  <2>2. v \in Value /\ v \in Duration /\ m <= v
    BY <1>2, <1>9, <2>1 DEF Recorded
  <2>3. index_for(m) <= index_for(v)
    BY <1>10, <2>2, IndexMonotone
  <2>4. index_for(m) \in Nat /\ index_for(v) \in Nat /\ i \in Nat
    BY <1>2, <1>3, <1>6, <1>10, <2>2
  <2> QED
    BY <2>1, <2>3, <2>4
<1>12. index_for(m) = i
  <2>1. i <= index_for(m)
    BY <1>7, <1>9, <1>10
  <2>2. index_for(m) \in Nat /\ i \in Nat
    BY <1>2, <1>3, <1>6, <1>10
  <2> QED
    BY <1>11, <2>1, <2>2
<1>13. Represents(value_for_index(i), m)
  BY <1>10, <1>12, IndexRepresents
<1> QED
  BY <1>5, <1>13 DEF i, m, Bin

\* The rank of a percentile is the nearest, or the one above it, and there is one.
LEMMA RankIs ==
  ASSUME NEW p \in Int, count \in Nat \ {0}
  PROVE  LET nearest == Max({1, CeilingRank(p)})
         IN /\ nearest \in Nat \ {0} /\ Rank(clamp(p)) <= count
            /\ \/ Rank(clamp(p)) = nearest
               \/ /\ Exceeds(p) /\ (p * count) % 1000 = 0
                  /\ Rank(clamp(p)) = nearest + 1
<1> DEFINE c == clamp(p)
           x == c * count
           q == x \div 1000
           r == x % 1000
           nearest == Max({1, CeilingRank(p)})
<1>1. c \in 0..1000 /\ (Exceeds(p) => c = p /\ c \in 1..999) /\ (Exceeds(c) <=> Exceeds(p))
  BY HistogramAssumption DEF clamp, Exceeds
<1>2. /\ x \in Nat /\ -(c * count) = -x /\ x <= 1000 * count
      /\ Exceeds(p) => x # 0 /\ x < 1000 * count /\ p * count = x
  <2> HIDE DEF c
  <2>1. c * count \in Nat /\ c * count <= 1000 * count
    BY <1>1
  <2>2. ASSUME Exceeds(p)
        PROVE  c * count # 0 /\ c * count < 1000 * count /\ p * count = c * count
    <3>1. c \in 1..999 /\ p = c
      BY <1>1, <2>2
    <3>2. c * count >= count /\ (1000 - c) * count >= count
      BY <3>1
    <3>3. (1000 - c) * count = 1000 * count - c * count
      BY <3>1
    <3> QED
      BY <2>1, <3>1, <3>2, <3>3
  <2> QED
    BY <2>1, <2>2
<1>3. /\ CeilingRank(p) = -((-x) \div 1000)
      /\ Rank(c) = IF (IF r # 0 \/ Exceeds(p) THEN q + 1 ELSE q) = 0 THEN 1
                   ELSE IF r # 0 \/ Exceeds(p) THEN q + 1 ELSE q
  BY <1>1 DEF CeilingRank, Rank, IsFractional, Truncated
<1> HIDE DEF c, x
<1>4. 1000 \in Nat \ {0} /\ x \in Int
  BY <1>2
<1>5. q \in Int /\ r \in 0..999 /\ x = 1000 * q + r
  BY <1>4, DivMod
<1> HIDE DEF q, r
<1>6. q \in Nat
  BY <1>2, <1>5
<1>7. CeilingRank(p) = IF r = 0 THEN q ELSE q + 1
  <2>1. CASE r = 0
    <3> DEFINE a == -x
               d == -q
    <3>1. d \in Int /\ 0 \in 0..1000-1 /\ a \in Int /\ a = 1000 * d + 0
      BY <1>5, <1>4, <2>1
    <3>2. (-x) \div 1000 = -q
      <4>1. a \div 1000 = d
        <5> HIDE DEF a, d
        <5> QED
          BY <1>4, <3>1, DivUnique
      <4> QED
        BY <4>1
    <3> QED
      BY <1>3, <1>6, <2>1, <3>2
  <2>2. CASE r # 0
    <3> DEFINE a == -x
               d == -(q + 1)
               s == 1000 - r
    <3>1. d \in Int /\ s \in 0..1000-1 /\ a \in Int /\ a = 1000 * d + s
      BY <1>5, <1>4, <2>2
    <3>2. (-x) \div 1000 = -(q + 1)
      <4>1. a \div 1000 = d
        <5> HIDE DEF a, d, s
        <5> QED
          BY <1>4, <3>1, DivUnique
      <4> QED
        BY <4>1
    <3> QED
      BY <1>3, <1>6, <2>2, <3>2
  <2> QED
    BY <2>1, <2>2
<1>8. nearest = IF CeilingRank(p) = 0 THEN 1 ELSE CeilingRank(p)
  <2>1. CeilingRank(p) \in Nat
    BY <1>6, <1>7
  <2> DEFINE C == CeilingRank(p)
             top == IF C = 0 THEN 1 ELSE C
  <2> HIDE DEF C
  <2>2. top \in {1, C} /\ \A y \in {1, C} : top >= y
    BY <2>1 DEF C
  <2>3. \A y \in {1, C} : y \in Nat
    BY <2>1 DEF C
  <2>4. Max({1, C}) = top
    <3> HIDE DEF top
    <3> QED
      BY <2>2, <2>3 DEF Max
  <2> QED
    BY <2>4 DEF C
<1>9. /\ Exceeds(p) /\ r = 0 => q # 0
      /\ q <= count
      /\ (r # 0 \/ Exceeds(p)) => q + 1 <= count
  BY <1>2, <1>5, <1>6
<1> HIDE DEF nearest
<1>10. nearest \in Nat \ {0}
  BY <1>6, <1>7, <1>8
<1>11. Rank(c) = nearest \/ (Exceeds(p) /\ r = 0 /\ Rank(c) = nearest + 1)
  BY <1>3, <1>5, <1>6, <1>7, <1>8, <1>9
<1>12. Rank(c) <= count
  BY <1>3, <1>6, <1>9
<1>13. Exceeds(p) => (p * count) % 1000 = r
  BY <1>2 DEF r, x
<1> QED
  BY <1>10, <1>11, <1>12, <1>13 DEF c, nearest

\* The percentiles of a non-empty histogram are values of the nearest rank to
\* the precision promised, for every number of significant bits and every set
\* of durations, and every rank asked for is one of a value recorded.  Those whose
\* double exceeds them may be of the next rank where their own is a whole number.
THEOREM Ranking == Spec => []NearestRank
<1>1. HistogramInv => NearestRank
  <2> SUFFICES ASSUME HistogramInv, count # 0, NEW p \in Percentile
               PROVE  LET reported == value_at_percentile(p)
                      IN \/ IsOfRank(reported, p, 0)
                         \/ Exceeds(p) /\ (p * count) % 1000 = 0 /\ IsOfRank(reported, p, 1)
    BY DEF NearestRank
  <2>1. p \in Int /\ count \in Nat \ {0}
    BY HistogramAssumption DEF HistogramInv, Tallies
  <2> DEFINE rank == Rank(clamp(p))
             nearest == Max({1, CeilingRank(p)})
             whole == (p * count) % 1000 = 0
  <2>2. /\ nearest \in Nat \ {0} /\ rank <= count
        /\ rank = nearest \/ (Exceeds(p) /\ whole /\ rank = nearest + 1)
    BY <2>1, RankIs
  <2>3. Represents(value_at_percentile(p), Nth(rank))
    <3>1. rank \in 1..count
      <4> HIDE DEF rank, nearest, whole
      <4> QED
        BY <2>1, <2>2
    <3> DEFINE reaching == {i \in 0..kBinCount-1 : Observed(i) >= rank}
    <3>2. reaching # {} /\ Represents(value_for_index(Min(reaching)), Nth(rank))
      <4> HIDE DEF rank
      <4> QED
        BY <3>1, BinOfRank
    <3>3. value_at_percentile(p) = value_for_index(Min(reaching))
      BY <2>1, <3>2 DEF value_at_percentile
    <3> QED
      BY <3>2, <3>3
  <2>4. \A above : IsOfRank(value_at_percentile(p), p, above) <=>
          (/\ nearest + above <= count
           /\ Represents(value_at_percentile(p), Nth(nearest + above)))
    BY DEF IsOfRank
  <2> HIDE DEF rank, nearest
  <2>5. CASE rank = nearest
    <3>1. nearest + 0 = rank
      BY <2>2, <2>5
    <3> QED
      BY <2>2, <2>3, <2>4, <3>1
  <2>6. CASE Exceeds(p) /\ whole /\ rank = nearest + 1
    BY <2>2, <2>3, <2>4, <2>6
  <2> QED
    BY <2>2, <2>5, <2>6
<1> QED
  BY <1>1, Invariance, PTL

=============================================================================
