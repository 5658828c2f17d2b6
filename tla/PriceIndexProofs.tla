-------------------------- MODULE PriceIndexProofs --------------------------
(***************************************************************************)
(* The trie is a set of prices, for every radix and every set of prices.   *)
(***************************************************************************)
EXTENDS PriceIndex, SequenceTheorems, WellFoundedInduction, TLAPS

-----------------------------------------------------------------------------
(* Division with remainder.                                                *)

LEMMA DivMod ==
  ASSUME NEW a \in Int, NEW m \in Nat \ {0}
  PROVE  /\ a \div m \in Int /\ a % m \in 0..m-1
         /\ a = m * (a \div m) + (a % m)
OBVIOUS

LEMMA NoSmallMultiple ==
  ASSUME NEW m \in Nat \ {0}, NEW q \in Int, NEW r \in Int, m * q = r, -m < r, r < m
  PROVE  q = 0
OBVIOUS

LEMMA Distribute ==
  ASSUME NEW m \in Int, NEW p \in Int, NEW q \in Int
  PROVE  m * (p - q) = m * p - m * q /\ m * (p + q) = m * p + m * q
OBVIOUS

LEMMA DivUnique ==
  ASSUME NEW m \in Nat \ {0}, NEW q \in Int, NEW r \in 0..m-1, NEW a \in Int, a = m * q + r
  PROVE  a \div m = q /\ a % m = r
<1> DEFINE d == a \div m
           s == a % m
<1> HIDE DEF d, s
<1>0. d \in Int /\ s \in 0..m-1 /\ a = m * d + s
  BY DivMod DEF d, s
<1>1. m * (q - d) = s - r
  BY <1>0, Distribute
<1>2. q - d = 0
  <2>1. q - d \in Int /\ s - r \in Int /\ -m < s - r /\ s - r < m
    BY <1>0
  <2> QED
    BY <1>1, <2>1, NoSmallMultiple
<1>3. d = q /\ s = r
  BY <1>0, <1>1, <1>2
<1> QED
  BY <1>3 DEF d, s

LEMMA Products ==
  ASSUME NEW m \in Nat, NEW n \in Nat, NEW k \in Nat
  PROVE  /\ m * n \in Nat /\ m * (n * k) = (m * n) * k
         /\ m # 0 /\ n # 0 => m * n # 0
         /\ n <= k => m * n <= m * k
OBVIOUS

\* Two shifts are one.
LEMMA DivDiv ==
  ASSUME NEW m \in Nat \ {0}, NEW k \in Nat \ {0}, NEW a \in Nat
  PROVE  (a \div m) \div k = a \div (m * k) /\ a \div m \in Nat
<1> DEFINE q == a \div m
           r == a % m
           u == q \div k
           v == q % k
<1> HIDE DEF q, r, u, v
<1>1. q \in Int /\ r \in 0..m-1 /\ a = m * q + r
  BY DivMod DEF q, r
<1>2. q \in Nat
  <2> SUFFICES ASSUME q < 0 PROVE FALSE
    BY <1>1
  <2>1. m * q <= -m
    BY <1>1
  <2> QED
    BY <1>1, <2>1
<1>3. u \in Int /\ v \in 0..k-1 /\ q = k * u + v
  BY <1>2, DivMod DEF u, v
<1>4. m * q = m * (k * u) + m * v
  BY <1>3, Distribute
<1>5. m * (k * u) = (m * k) * u
  BY <1>3
<1>6. m * v <= m * (k - 1) /\ m * v \in Nat
  BY <1>3, Products
<1>7. m * (k - 1) = m * k - m
  BY Distribute
<1>8. m * k \in Nat \ {0} /\ m * v + r \in 0 .. m * k - 1
  BY <1>1, <1>6, <1>7, Products
<1>9. a = (m * k) * u + (m * v + r)
  BY <1>1, <1>4, <1>5, <1>6, <1>3
<1>10. a \div (m * k) = u
  BY <1>3, <1>8, <1>9, DivUnique
<1> QED
  BY <1>2, <1>10 DEF q, u

-----------------------------------------------------------------------------
(* The bytes of a price.                                                   *)

Byte == 0 .. Radix - 1

LEMMA Units ==
  /\ Radix \in Nat \ {0} /\ Radix * Radix \in Nat \ {0}
  /\ Radix * (Radix * Radix) \in Nat \ {0}
  /\ Unit[1] = Radix * (Radix * Radix) /\ Unit[2] = Radix * Radix
  /\ Unit[3] = Radix /\ Unit[4] = 1
<1>1. Radix \in Nat \ {0}
  BY PriceAssumption
<1>2. Radix * Radix \in Nat \ {0}
  BY <1>1, Products
<1>3. Radix * (Radix * Radix) \in Nat \ {0}
  BY <1>1, <1>2, Products
<1> QED
  BY <1>1, <1>2, <1>3 DEF Unit

\* The bytes are the remainders of a division that is repeated.
LEMMA BytesAre ==
  ASSUME NEW p \in Price
  PROVE  /\ bytes(p) = [t \in 1..4 |-> bytes(p)[t]]
         /\ bytes(p)[1] \in Byte /\ bytes(p)[2] \in Byte
         /\ bytes(p)[3] \in Byte /\ bytes(p)[4] \in Byte
         /\ Value(bytes(p)) = p
<1> DEFINE R == Radix
           R2 == R * R
           R3 == R * R2
           q1 == p \div R
           q2 == q1 \div R
           q3 == q2 \div R
           r0 == p % R
           r1 == q1 % R
           r2 == q2 % R
<1>0. R \in Nat \ {0} /\ R2 \in Nat \ {0} /\ R3 \in Nat \ {0}
  BY Units
<1>1. p \in Nat /\ p < R * R3
  <2>1. p \in 0 .. Radix * Unit[1] - 1
    BY PriceAssumption
  <2>2. R * R3 \in Nat
    BY <1>0, Products
  <2> QED
    BY <2>1, <2>2, Units
<1>2. q1 \in Nat /\ q2 \in Nat /\ q3 \in Nat
  <2>1. q1 \in Nat
    BY <1>0, <1>1, DivDiv
  <2> HIDE DEF q1
  <2>2. q2 \in Nat
    BY <1>0, <2>1, DivDiv
  <2> HIDE DEF q2
  <2>3. q3 \in Nat
    BY <1>0, <2>2, DivDiv
  <2> QED
    BY <2>1, <2>2, <2>3
<1>3. q2 = p \div R2
  BY <1>0, <1>1, DivDiv
<1>4. q3 = p \div R3
  <2>1. (p \div R2) \div R = p \div (R2 * R)
    BY <1>0, <1>1, DivDiv
  <2>2. R2 * R = R3
    BY <1>0, Products
  <2> QED
    BY <1>3, <2>1, <2>2
<1>5. p \div 1 = p
  <2>1. p \in Int /\ p = 1 * p + 0 /\ 0 \in 0..1-1 /\ 1 \in Nat \ {0}
    BY <1>1
  <2> QED
    BY <2>1, DivUnique
<1> HIDE DEF R3, R2
<1>6. /\ p = R * q1 + r0 /\ q1 = R * q2 + r1 /\ q2 = R * q3 + r2
      /\ r0 \in 0..R-1 /\ r1 \in 0..R-1 /\ r2 \in 0..R-1
  <2>1. p = R * q1 + r0 /\ r0 \in 0..R-1
    BY <1>0, <1>1, DivMod
  <2> HIDE DEF q1
  <2>2. q1 = R * q2 + r1 /\ r1 \in 0..R-1
    BY <1>0, <1>2, DivMod
  <2> HIDE DEF q2
  <2>3. q2 = R * q3 + r2 /\ r2 \in 0..R-1
    BY <1>0, <1>2, DivMod
  <2> QED
    BY <2>1, <2>2, <2>3
<1> HIDE DEF q1, q2, q3, r0, r1, r2
<1>7. p = q3 * R3 + r2 * R2 + r1 * R + r0
  <2>1. R * q1 = R * (R * q2) + R * r1
    BY <1>0, <1>2, <1>6, Distribute
  <2>2. R * (R * q2) = R2 * q2
    BY <1>0, <1>2, Products DEF R2
  <2>3. R2 * q2 = R2 * (R * q3) + R2 * r2
    BY <1>0, <1>2, <1>6, Distribute
  <2>4. R2 * (R * q3) = R3 * q3
    <3>1. R2 * (R * q3) = (R2 * R) * q3
      BY <1>0, <1>2, Products
    <3>2. R2 * R = R3
      BY <1>0 DEF R3
    <3> QED
      BY <3>1, <3>2
  <2>5. R3 * q3 = q3 * R3 /\ R2 * r2 = r2 * R2 /\ R * r1 = r1 * R
    BY <1>0, <1>2, <1>6
  <2>6. /\ q3 * R3 \in Nat /\ r2 * R2 \in Nat /\ r1 * R \in Nat
    BY <1>0, <1>2, <1>6, Products
  <2> QED
    BY <1>6, <2>1, <2>2, <2>3, <2>4, <2>5, <2>6
<1>8. q3 < R
  <2> SUFFICES ASSUME R <= q3 PROVE FALSE
    BY <1>0, <1>2
  <2>1. R3 * R <= R3 * q3
    BY <1>0, <1>2, Products
  <2>2. R3 * q3 = q3 * R3 /\ R3 * R = R * R3 /\ q3 * R3 \in Nat
    BY <1>0, <1>2, Products
  <2>3. r2 * R2 \in Nat /\ r1 * R \in Nat
    BY <1>0, <1>6, Products
  <2>4. q3 * R3 <= p
    BY <1>6, <1>7, <2>2, <2>3
  <2> QED
    BY <1>0, <1>1, <1>2, <2>1, <2>2, <2>4
<1>9. q3 % R = q3
  <2>1. q3 = R * 0 + q3 /\ q3 \in 0..R-1 /\ q3 \in Int
    BY <1>0, <1>2, <1>8
  <2> QED
    BY <1>0, <2>1, DivUnique
<1>10. /\ bytes(p) = [t \in 1..4 |-> bytes(p)[t]]
       /\ bytes(p)[1] = (p \div Unit[1]) % R /\ bytes(p)[2] = (p \div Unit[2]) % R
       /\ bytes(p)[3] = (p \div Unit[3]) % R /\ bytes(p)[4] = (p \div Unit[4]) % R
  BY DEF bytes, Tiers
<1>11. /\ bytes(p)[1] = q3 /\ bytes(p)[2] = r2 /\ bytes(p)[3] = r1 /\ bytes(p)[4] = r0
  <2>1. Unit[1] = R3 /\ Unit[2] = R2 /\ Unit[3] = R /\ Unit[4] = 1
    BY Units DEF R3, R2
  <2> QED
    BY <1>3, <1>4, <1>5, <1>9, <1>10, <2>1 DEF q1, q2, q3, r0, r1, r2
<1>12. Value(bytes(p)) = q3 * R3 + r2 * R2 + r1 * R + r0
  <2>1. Unit[1] = R3 /\ Unit[2] = R2 /\ Unit[3] = R /\ Unit[4] = 1
    BY Units DEF R3, R2
  <2>2. r0 * 1 = r0
    BY <1>6
  <2> QED
    BY <1>11, <2>1, <2>2 DEF Value
<1>13. q3 \in Byte /\ r2 \in Byte /\ r1 \in Byte /\ r0 \in Byte
  BY <1>0, <1>2, <1>6, <1>8 DEF Byte
<1> QED
  BY <1>7, <1>10, <1>11, <1>12, <1>13

\* A price is smaller than another if it is at the first byte that differs.
LEMMA ValueOrder ==
  ASSUME NEW a, NEW b, \A t \in 1..4 : a[t] \in Byte /\ b[t] \in Byte
  PROVE  \/ a[1] < b[1]
         \/ a[1] = b[1] /\ a[2] < b[2]
         \/ a[1] = b[1] /\ a[2] = b[2] /\ a[3] < b[3]
         \/ a[1] = b[1] /\ a[2] = b[2] /\ a[3] = b[3] /\ a[4] <= b[4]
         => Value(a) <= Value(b)
<1> DEFINE R == Radix
           R2 == R * R
           R3 == R * R2
<1>0. R \in Nat \ {0} /\ R2 \in Nat \ {0} /\ R3 \in Nat \ {0}
  BY Units
<1> HIDE DEF R2, R3
<1>1. \A x, y \in Byte : /\ x * R + y \in Nat /\ x * R + y < R2
                         /\ \A z \in Byte : x < z => x * R + y < z * R
  <2> TAKE x, y \in Byte
  <2>1. \A z \in Nat : x < z => x * R + y < z * R
    <3> SUFFICES ASSUME NEW z \in Nat, x < z
                 PROVE  x * R + y < z * R
      OBVIOUS
    <3>1. R * (x + 1) <= R * z
      BY <1>0, Products DEF Byte
    <3>2. R * (x + 1) = R * x + R
      BY <1>0 DEF Byte
    <3>3. R * x = x * R /\ R * z = z * R /\ x * R \in Nat /\ z * R \in Nat
      BY <1>0 DEF Byte
    <3> QED
      BY <1>0, <3>1, <3>2, <3>3 DEF Byte
  <2>2. x * R \in Nat
    BY <1>0 DEF Byte
  <2>3. x < R /\ R \in Nat /\ y \in Nat /\ R * R = R2
    BY <1>0 DEF Byte, R2
  <2> QED
    BY <2>1, <2>2, <2>3 DEF Byte
<1>2. ASSUME NEW x \in Byte, NEW y \in Nat, y < R2
      PROVE  /\ x * R2 + y \in Nat /\ x * R2 + y < R3
             /\ \A z \in Byte : x < z => x * R2 + y < z * R2
  <2>1. \A z \in Nat : x < z => x * R2 + y < z * R2
    <3> SUFFICES ASSUME NEW z \in Nat, x < z
                 PROVE  x * R2 + y < z * R2
      OBVIOUS
    <3>1. R2 * (x + 1) <= R2 * z
      BY <1>0, Products DEF Byte
    <3>2. R2 * (x + 1) = R2 * x + R2
      BY <1>0 DEF Byte
    <3>3. R2 * x = x * R2 /\ R2 * z = z * R2 /\ x * R2 \in Nat /\ z * R2 \in Nat
      BY <1>0 DEF Byte
    <3> QED
      BY <1>0, <1>2, <3>1, <3>2, <3>3 DEF Byte
  <2>2. x * R2 \in Nat
    BY <1>0 DEF Byte
  <2>3. x < R /\ R * R2 = R3 /\ R \in Nat
    BY <1>0 DEF Byte, R3
  <2> QED
    BY <2>1, <2>2, <2>3 DEF Byte
<1>3. ASSUME NEW x \in Byte, NEW y \in Nat, y < R3, NEW z \in Byte, x < z
      PROVE  x * R3 + y < z * R3
  <2>1. R3 * (x + 1) <= R3 * z
    BY <1>0, <1>3, Products DEF Byte
  <2>2. R3 * (x + 1) = R3 * x + R3
    BY <1>0 DEF Byte
  <2>3. R3 * x = x * R3 /\ R3 * z = z * R3 /\ x * R3 \in Nat /\ z * R3 \in Nat
    BY <1>0 DEF Byte
  <2> QED
    BY <1>0, <1>3, <2>1, <2>2, <2>3 DEF Byte
<1> DEFINE La == a[3] * R + a[4]
           Lb == b[3] * R + b[4]
           Ma == a[2] * R2 + La
           Mb == b[2] * R2 + Lb
<1>4. La \in Nat /\ La < R2 /\ Lb \in Nat /\ Lb < R2
  BY <1>1
<1>5. Ma \in Nat /\ Ma < R3 /\ Mb \in Nat /\ Mb < R3
  <2> HIDE DEF La, Lb
  <2> QED
    BY <1>2, <1>4
<1>6. Value(a) = a[1] * R3 + Ma /\ Value(b) = b[1] * R3 + Mb
  <2>1. Unit[1] = R3 /\ Unit[2] = R2 /\ Unit[3] = R /\ Unit[4] = 1
    BY Units DEF R3, R2
  <2>2. \A x \in Byte : x * 1 = x /\ x * R3 \in Nat /\ x * R2 \in Nat /\ x * R \in Nat /\ x \in Nat
    BY <1>0, Products DEF Byte
  <2> QED
    BY <2>1, <2>2 DEF Value
<1>7. \A x \in Byte : x * R3 \in Nat /\ x * R2 \in Nat /\ x * R \in Nat /\ x \in Nat
  BY <1>0, Products DEF Byte
<1>8. CASE a[1] < b[1]
  <2> HIDE DEF Ma, Mb
  <2>1. a[1] * R3 + Ma < b[1] * R3
    BY <1>3, <1>5, <1>8
  <2> QED
    BY <1>5, <1>6, <1>7, <2>1
<1>9. CASE a[1] = b[1] /\ a[2] < b[2]
  <2>1. Ma < b[2] * R2
    <3> HIDE DEF La
    <3> QED
      BY <1>2, <1>4, <1>9
  <2>2. Ma <= Mb
    <3> HIDE DEF La, Lb
    <3>1. b[2] * R2 <= Mb
      BY <1>4, <1>7
    <3>2. b[2] * R2 \in Nat
      BY <1>7
    <3> HIDE DEF Ma, Mb
    <3> QED
      BY <1>5, <2>1, <3>1, <3>2
  <2> HIDE DEF Ma, Mb
  <2> QED
    BY <1>5, <1>6, <1>7, <1>9, <2>2
<1>10. CASE a[1] = b[1] /\ a[2] = b[2] /\ (a[3] < b[3] \/ (a[3] = b[3] /\ a[4] <= b[4]))
  <2>1. La <= Lb
    <3>1. CASE a[3] < b[3]
      <4>1. La < b[3] * R
        BY <1>1, <3>1
      <4>2. b[3] * R <= Lb /\ b[3] * R \in Nat
        BY <1>7
      <4> HIDE DEF La, Lb
      <4> QED
        BY <1>4, <4>1, <4>2
    <3>2. CASE a[3] = b[3] /\ a[4] <= b[4]
      BY <1>7, <3>2
    <3> QED
      BY <1>10, <3>1, <3>2
  <2>2. Ma <= Mb
    <3> HIDE DEF La, Lb
    <3> QED
      BY <1>4, <1>7, <1>10, <2>1
  <2> HIDE DEF Ma, Mb
  <2> QED
    BY <1>5, <1>6, <1>7, <1>10, <2>2
<1> QED
  BY <1>8, <1>9, <1>10

-----------------------------------------------------------------------------
(* The way to a price.                                                     *)

\* A name of a node.
Names == {x \in Seq(Byte) : Len(x) < Tiers}

\* The bytes of x are the first ones of p.
On(x, p) == \A i \in 1..Len(x) : x[i] = bytes(p)[i]

LEMMA NamesAre == \A x : x \in Names <=> x \in Seq(Byte) /\ Len(x) \in 0..3
<1>1. \A x : x \in Names <=> x \in Seq(Byte) /\ Len(x) < 4
  BY DEF Names, Tiers
<1>2. \A x \in Seq(Byte) : Len(x) \in Nat
  BY LenProperties
<1>3. \A n : n \in 0..3 <=> n \in Nat /\ n < 4
  OBVIOUS
<1> QED
  BY <1>1, <1>2, <1>3, Zenon

LEMMA NamesLen == \A x \in Names : Len(x) <= 4 /\ Len(x) + 1 \in 1..4
<1>1. \A n \in 0..3 : n <= 4 /\ n + 1 \in 1..4
  OBVIOUS
<1> QED
  BY <1>1, NamesAre, Zenon

LEMMA BytesType ==
  ASSUME NEW p \in Price
  PROVE  /\ bytes(p) \in Seq(Byte) /\ Len(bytes(p)) = 4
         /\ \A t \in 1..4 : bytes(p)[t] \in Byte
<1>1. \A t \in 1..4 : bytes(p)[t] \in Byte
  <2> TAKE t \in 1..4
  <2>1. t = 1 \/ t = 2 \/ t = 3 \/ t = 4
    OBVIOUS
  <2> QED
    BY <2>1, BytesAre
<1>2. /\ [t \in 1..4 |-> bytes(p)[t]] \in Seq(Byte)
      /\ Len([t \in 1..4 |-> bytes(p)[t]]) = 4
  BY <1>1
<1> QED
  BY <1>1, <1>2, BytesAre

LEMMA SameBytes ==
  ASSUME NEW p \in Price, NEW q \in Price, \A t \in 1..4 : bytes(p)[t] = bytes(q)[t]
  PROVE  p = q
<1>1. bytes(p) = bytes(q)
  BY BytesAre
<1> QED
  BY <1>1, BytesAre

LEMMA NodeOfIs ==
  ASSUME NEW p \in Price, NEW t \in 1..5
  PROVE  /\ NodeOf(p, t) \in Seq(Byte) /\ Len(NodeOf(p, t)) = t - 1
         /\ \A i \in 1..t-1 : NodeOf(p, t)[i] = bytes(p)[i]
<1>1. \A i \in 1..t-1 : bytes(p)[i] \in Byte
  BY BytesType
<1> QED
  BY <1>1, SubSeqProperties DEF NodeOf

LEMMA NodesOnPath ==
  ASSUME NEW p \in Price, NEW t \in 1..4
  PROVE  NodeOf(p, t) \in Names /\ Len(NodeOf(p, t)) = t - 1 /\ On(NodeOf(p, t), p)
<1>1. t \in 1..5
  OBVIOUS
<1>2. /\ NodeOf(p, t) \in Seq(Byte) /\ Len(NodeOf(p, t)) = t - 1
      /\ \A i \in 1..t-1 : NodeOf(p, t)[i] = bytes(p)[i]
  BY <1>1, NodeOfIs
<1> QED
  BY <1>2 DEF Names, On, Tiers

LEMMA OnPath ==
  ASSUME NEW p \in Price, NEW x \in Seq(Byte), Len(x) <= 4
  PROVE  Len(x) + 1 \in 1..5 /\ (x = NodeOf(p, Len(x) + 1) <=> On(x, p))
<1> DEFINE n == Len(x) + 1
           y == NodeOf(p, n)
<1>1. n \in 1..5 /\ n - 1 = Len(x)
  BY LenProperties
<1> HIDE DEF n
<1>2. y \in Seq(Byte) /\ Len(y) = Len(x) /\ \A i \in 1..Len(x) : y[i] = bytes(p)[i]
  BY <1>1, NodeOfIs
<1> HIDE DEF y
<1>3. x = y => On(x, p)
  BY <1>2 DEF On
<1>4. On(x, p) => x = y
  <2> HAVE On(x, p)
  <2>1. \A i \in 1..Len(x) : x[i] = y[i]
    BY <1>2 DEF On
  <2> QED
    BY <1>2, <2>1, SeqEqual
<1> QED
  BY <1>1, <1>3, <1>4 DEF y, n

\* A bit of a mask on the way to p.
LEMMA PrefixBit ==
  ASSUME NEW p \in Price, NEW x \in Names, NEW b \in Byte
  PROVE  IsPrefix(Append(x, b), bytes(p)) <=> On(x, p) /\ bytes(p)[Len(x) + 1] = b
<1>1. x \in Seq(Byte) /\ Len(x) \in 0..3
  BY NamesAre
<1> DEFINE y == Append(x, b)
<1>2. y \in Seq(Byte) /\ Len(y) = Len(x) + 1 /\ y[Len(x) + 1] = b
      /\ \A i \in 1..Len(x) : y[i] = x[i]
  BY <1>1
<1> HIDE DEF y
<1>3. SubSeq(y, 1, Len(y)) = y
  BY <1>2
<1>4. Len(y) <= Len(bytes(p)) /\ SubSeq(bytes(p), 1, Len(y)) = NodeOf(p, Len(y) + 1)
  BY <1>1, <1>2, BytesType DEF NodeOf
<1>5. IsPrefix(y, bytes(p)) <=> y = NodeOf(p, Len(y) + 1)
  BY <1>3, <1>4 DEF IsPrefix
<1>6. IsPrefix(y, bytes(p)) <=> On(y, p)
  BY <1>1, <1>2, <1>5, OnPath
<1>7. On(y, p) <=> On(x, p) /\ bytes(p)[Len(x) + 1] = b
  <2>1. \A i \in 1..Len(y) : i \in 1..Len(x) \/ i = Len(x) + 1
    BY <1>1, <1>2
  <2>2. Len(x) + 1 \in 1..Len(y) /\ \A i \in 1..Len(x) : i \in 1..Len(y)
    BY <1>1, <1>2
  <2> QED
    BY <1>2, <2>1, <2>2 DEF On
<1> QED
  BY <1>6, <1>7 DEF y

\* A node below another.
LEMMA PrefixNode ==
  ASSUME NEW p \in Price, NEW t \in 1..5, NEW x \in Names
  PROVE  IsPrefix(NodeOf(p, t), x) <=> t - 1 <= Len(x) /\ \A i \in 1..t-1 : x[i] = bytes(p)[i]
<1>1. x \in Seq(Byte) /\ Len(x) \in 0..3
  BY NamesAre
<1> DEFINE y == NodeOf(p, t)
<1>2. y \in Seq(Byte) /\ Len(y) = t - 1 /\ \A i \in 1..t-1 : y[i] = bytes(p)[i]
  BY NodeOfIs
<1> HIDE DEF y
<1>3. SubSeq(y, 1, Len(y)) = y
  BY <1>2
<1>4. ASSUME t - 1 <= Len(x)
      PROVE  y = SubSeq(x, 1, t - 1) <=> \A i \in 1..t-1 : x[i] = bytes(p)[i]
  <2> DEFINE z == SubSeq(x, 1, t - 1)
  <2>1. z \in Seq(Byte) /\ Len(z) = t - 1 /\ \A i \in 1..t-1 : z[i] = x[i]
    BY <1>1, <1>4
  <2> HIDE DEF z
  <2>2. (\A i \in 1..t-1 : x[i] = bytes(p)[i]) => y = z
    <3> HAVE \A i \in 1..t-1 : x[i] = bytes(p)[i]
    <3>1. \A i \in 1..Len(y) : y[i] = z[i]
      BY <1>2, <2>1
    <3> QED
      BY <1>2, <2>1, <3>1, SeqEqual
  <2>3. y = z => \A i \in 1..t-1 : x[i] = bytes(p)[i]
    BY <1>2, <2>1
  <2> QED
    BY <2>2, <2>3 DEF z
<1> QED
  BY <1>1, <1>2, <1>3, <1>4 DEF IsPrefix, y

-----------------------------------------------------------------------------
(* The inductive invariant.                                                *)

\* The prices in the trie m.
ActiveIn(m) ==
  {p \in Price : \A t \in 1..Tiers :
     NodeOf(p, t) \in DOMAIN m /\ bytes(p)[t] \in m[NodeOf(p, t)]}

\* Nodes have names, hang from nodes, and have masks of bytes.
Nodes(m) ==
  /\ <<>> \in DOMAIN m
  /\ \A x \in DOMAIN m : x \in Names /\ m[x] \subseteq Byte /\ (x # <<>> => Front(x) \in DOMAIN m)

\* Every bit is on the way to a price.
Leads(m) ==
  \A x \in DOMAIN m : \A b \in m[x] :
    \E p \in ActiveIn(m) : On(x, p) /\ bytes(p)[Len(x) + 1] = b

Trie(m) == Nodes(m) /\ Leads(m)

\* An active price has a node and a bit at each tier.
LEMMA ActiveReaches ==
  ASSUME NEW m, NEW p \in ActiveIn(m), NEW x \in Names, On(x, p)
  PROVE  p \in Price /\ x \in DOMAIN m /\ bytes(p)[Len(x) + 1] \in m[x]
<1>1. p \in Price /\ x \in Seq(Byte) /\ Len(x) \in 0..3
  BY NamesAre DEF ActiveIn
<1>2. Len(x) + 1 \in 1..Tiers /\ x = NodeOf(p, Len(x) + 1)
  BY <1>1, NamesLen, OnPath DEF Tiers
<1> QED
  BY <1>1, <1>2 DEF ActiveIn

\* Its bits make a price active.
LEMMA ActiveIf ==
  ASSUME NEW m, NEW p \in Price,
         \A x \in Names : On(x, p) => x \in DOMAIN m /\ bytes(p)[Len(x) + 1] \in m[x]
  PROVE  p \in ActiveIn(m)
<1> SUFFICES ASSUME NEW t \in 1..4
             PROVE  NodeOf(p, t) \in DOMAIN m /\ bytes(p)[t] \in m[NodeOf(p, t)]
  BY DEF ActiveIn, Tiers
<1>1. NodeOf(p, t) \in Names /\ Len(NodeOf(p, t)) = t - 1 /\ On(NodeOf(p, t), p)
  BY NodesOnPath
<1>2. Len(NodeOf(p, t)) + 1 = t
  BY <1>1
<1> QED
  BY <1>1, <1>2

\* The last bit alone makes a price active.
LEMMA LastBitTells ==
  ASSUME NEW m, Leads(m), NEW p \in Price, NEW x \in DOMAIN m, Len(x) = 3, On(x, p),
         bytes(p)[4] \in m[x]
  PROVE  p \in ActiveIn(m)
<1>1. PICK r \in ActiveIn(m) : On(x, r) /\ bytes(r)[4] = bytes(p)[4]
  <2>1. \E r \in ActiveIn(m) : On(x, r) /\ bytes(r)[Len(x) + 1] = bytes(p)[4]
    BY Zenon DEF Leads
  <2>2. Len(x) + 1 = 4
    OBVIOUS
  <2> QED
    BY <2>1, <2>2, Zenon
<1>2. \A t \in 1..4 : bytes(p)[t] = bytes(r)[t]
  <2>1. \A t \in 1..3 : bytes(p)[t] = bytes(r)[t]
    BY <1>1 DEF On
  <2> QED
    BY <1>1, <2>1
<1>3. r \in Price
  BY DEF ActiveIn
<1>4. p = r
  BY <1>2, <1>3, SameBytes
<1> QED
  BY <1>4

\* Where the ways to two prices meet.
LEMMA OnBoth ==
  ASSUME NEW p \in Price, NEW x \in Names
  PROVE  /\ Len(x) + 1 \in 1..4 /\ NodeOf(p, Len(x) + 1) \in Names
         /\ x = NodeOf(p, Len(x) + 1) <=> On(x, p)
         /\ bytes(p)[Len(x) + 1] \in Byte
<1>1. x \in Seq(Byte) /\ Len(x) \in 0..3
  BY NamesAre
<1>2. Len(x) + 1 \in 1..4 /\ Len(x) <= 4
  BY NamesLen
<1> QED
  BY <1>1, <1>2, OnPath, NodesOnPath, BytesType

LEMMA FrontOfNode ==
  ASSUME NEW p \in Price, NEW t \in 2..4
  PROVE  Front(NodeOf(p, t)) = NodeOf(p, t - 1) /\ t - 1 \in 1..4
<1> DEFINE x == NodeOf(p, t)
           y == NodeOf(p, t - 1)
           z == SubSeq(x, 1, Len(x) - 1)
<1>1. x \in Seq(Byte) /\ Len(x) = t - 1 /\ \A i \in 1..t-1 : x[i] = bytes(p)[i]
  <2>1. t \in 1..5
    OBVIOUS
  <2> QED
    BY <2>1, NodeOfIs
<1>2. y \in Seq(Byte) /\ Len(y) = t - 2 /\ \A i \in 1..t-2 : y[i] = bytes(p)[i]
  <2>1. t - 1 \in 1..5 /\ (t - 1) - 1 = t - 2
    OBVIOUS
  <2> QED
    BY <2>1, NodeOfIs
<1> HIDE DEF x, y
<1>3. z \in Seq(Byte) /\ Len(z) = t - 2 /\ \A i \in 1..t-2 : z[i] = x[i]
  <2>1. Len(x) - 1 = t - 2 /\ \A i \in 1..t-2 : x[i] \in Byte
    BY <1>1
  <2> QED
    BY <2>1, SubSeqProperties
<1> HIDE DEF z
<1>4. z = y
  <2>1. \A i \in 1..Len(y) : z[i] = y[i]
    BY <1>1, <1>2, <1>3
  <2> QED
    BY <1>2, <1>3, <2>1, SeqEqual
<1> QED
  BY <1>4 DEF Front, x, y, z

-----------------------------------------------------------------------------
(* add.                                                                    *)

MaskOf(m, x) == IF x \in DOMAIN m THEN m[x] ELSE {}

\* The nodes on the way to p, as far as tier n.
Way(p, n) == {NodeOf(p, t) : t \in 1..n}

LEMMA WayNodes ==
  ASSUME NEW m, Nodes(m), NEW p \in Price, NEW n \in 1..4
  PROVE  /\ <<>> \in DOMAIN m \cup Way(p, n)
         /\ \A x \in Way(p, n) : x \in Names /\ On(x, p)
         /\ \A x \in DOMAIN m \cup Way(p, n) : x # <<>> => Front(x) \in DOMAIN m \cup Way(p, n)
<1>1. \A t \in 1..n : t \in 1..4
  OBVIOUS
<1>2. \A x \in Way(p, n) : x \in Names /\ On(x, p)
  BY <1>1, NodesOnPath DEF Way
<1>3. ASSUME NEW t \in 1..n, NodeOf(p, t) # <<>>
      PROVE  Front(NodeOf(p, t)) \in Way(p, n)
  <2>1. t # 1
    <3>1. 1 \in 1..5 /\ 1..1-1 = {}
      OBVIOUS
    <3>2. NodeOf(p, 1) \in Seq(Byte) /\ Len(NodeOf(p, 1)) = 1 - 1
      BY <3>1, NodeOfIs
    <3>3. NodeOf(p, 1) = <<>>
      BY <3>2, EmptySeq
    <3> QED
      BY <1>3, <3>3
  <2>2. t \in 2..4 /\ t - 1 \in 1..n
    BY <2>1
  <2> QED
    BY <2>2, FrontOfNode DEF Way
<1> QED
  BY <1>2, <1>3 DEF Nodes, Way

LEMMA AllocateIs ==
  ASSUME NEW m, NEW p \in Price, NEW n \in 1..4
  PROVE  LET a == Allocate(m, p, n)
         IN /\ DOMAIN a = DOMAIN m \cup Way(p, n)
            /\ \A x \in DOMAIN a : a[x] = MaskOf(m, x)
BY DEF Allocate, Way, MaskOf

\* A path without bits leads nowhere.
LEMMA AllocateKeeps ==
  ASSUME NEW m, Trie(m), NEW p \in Price, NEW n \in 1..4
  PROVE  Trie(Allocate(m, p, n)) /\ ActiveIn(Allocate(m, p, n)) = ActiveIn(m)
<1> DEFINE a == Allocate(m, p, n)
<1>1. DOMAIN a = DOMAIN m \cup Way(p, n) /\ \A x \in DOMAIN a : a[x] = MaskOf(m, x)
  BY AllocateIs
<1> HIDE DEF a
<1>2. Nodes(m) /\ Leads(m)
  BY DEF Trie
<1>3. \A x, b : x \in DOMAIN a /\ b \in a[x] <=> x \in DOMAIN m /\ b \in m[x]
  BY <1>1 DEF MaskOf
<1>4. ActiveIn(a) = ActiveIn(m)
  BY <1>3 DEF ActiveIn
<1>5. Leads(a)
  BY <1>2, <1>3, <1>4 DEF Leads
<1>6. Nodes(a)
  <2>1. <<>> \in DOMAIN a /\ \A x \in DOMAIN a : x # <<>> => Front(x) \in DOMAIN a
    BY <1>1, <1>2, WayNodes
  <2>2. \A x \in DOMAIN a : x \in Names
    BY <1>1, <1>2, WayNodes DEF Nodes
  <2>3. \A x \in DOMAIN a : a[x] \subseteq Byte
    BY <1>2, <1>3 DEF Nodes
  <2> QED
    BY <2>1, <2>2, <2>3 DEF Nodes
<1> QED
  BY <1>4, <1>5, <1>6 DEF Trie, a

LEMMA AddIs ==
  ASSUME NEW m, Trie(m), NEW p \in Price
  PROVE  LET a == add(m, p)
         IN /\ DOMAIN a = DOMAIN m \cup Way(p, 4)
            /\ \A x \in DOMAIN a :
                 a[x] = IF On(x, p) THEN MaskOf(m, x) \cup {bytes(p)[Len(x) + 1]}
                                    ELSE MaskOf(m, x)
<1> DEFINE c == Allocate(m, p, 4)
           a == add(m, p)
<1>1. DOMAIN c = DOMAIN m \cup Way(p, 4) /\ \A x \in DOMAIN c : c[x] = MaskOf(m, x)
  <2>1. 4 \in 1..4
    OBVIOUS
  <2> QED
    BY <2>1, AllocateIs
<1>2. a = [x \in DOMAIN c |->
             IF x = NodeOf(p, Len(x) + 1) THEN c[x] \cup {bytes(p)[Len(x) + 1]} ELSE c[x]]
  BY DEF add, Tiers
<1> HIDE DEF c, a
<1>3. \A x \in DOMAIN c : x \in Names
  BY <1>1, WayNodes DEF Trie, Nodes
<1>4. \A x \in DOMAIN c : x = NodeOf(p, Len(x) + 1) <=> On(x, p)
  BY <1>3, OnBoth
<1>5. \A x \in DOMAIN c :
        a[x] = IF On(x, p) THEN MaskOf(m, x) \cup {bytes(p)[Len(x) + 1]} ELSE MaskOf(m, x)
  BY <1>1, <1>2, <1>4
<1> QED
  BY <1>1, <1>2, <1>5 DEF a

\* Only p becomes active, and no node of its way stays empty.
LEMMA AddKeeps ==
  ASSUME NEW m, Trie(m), NEW p \in Price
  PROVE  LET a == add(m, p)
         IN /\ Trie(a) /\ ActiveIn(a) = ActiveIn(m) \cup {p}
            /\ \A x \in DOMAIN a : a[x] = {} => x \in DOMAIN m /\ m[x] = {}
<1> DEFINE a == add(m, p)
<1>1. /\ DOMAIN a = DOMAIN m \cup Way(p, 4)
      /\ \A x \in DOMAIN a :
           a[x] = IF On(x, p) THEN MaskOf(m, x) \cup {bytes(p)[Len(x) + 1]} ELSE MaskOf(m, x)
  BY AddIs
<1> HIDE DEF a
<1>2. Nodes(m) /\ Leads(m)
  BY DEF Trie
<1>3. \A x \in DOMAIN a : x \in Names
  BY <1>1, <1>2, WayNodes DEF Nodes
<1>4. \A x \in DOMAIN m : x \in DOMAIN a /\ m[x] \subseteq a[x]
  BY <1>1 DEF MaskOf
<1>5. \A x \in DOMAIN a : \A b \in a[x] :
        \/ x \in DOMAIN m /\ b \in m[x]
        \/ On(x, p) /\ b = bytes(p)[Len(x) + 1]
  BY <1>1 DEF MaskOf
<1>6. p \in ActiveIn(a)
  <2> SUFFICES ASSUME NEW x \in Names, On(x, p)
               PROVE  x \in DOMAIN a /\ bytes(p)[Len(x) + 1] \in a[x]
    BY ActiveIf
  <2>1. x = NodeOf(p, Len(x) + 1) /\ Len(x) + 1 \in 1..4
    BY OnBoth
  <2>2. x \in Way(p, 4)
    BY <2>1 DEF Way
  <2> QED
    BY <1>1, <2>2
<1>7. ActiveIn(m) \subseteq ActiveIn(a)
  BY <1>4 DEF ActiveIn
<1>8. ASSUME NEW q \in ActiveIn(a), q # p
      PROVE  q \in ActiveIn(m)
  <2> DEFINE x == NodeOf(q, 4)
  <2>1. q \in Price
    BY DEF ActiveIn
  <2>2. x \in Names /\ Len(x) = 4 - 1 /\ On(x, q)
    <3>1. 4 \in 1..4
      OBVIOUS
    <3> QED
      BY <2>1, <3>1, NodesOnPath
  <2> HIDE DEF x
  <2>3. Len(x) = 3 /\ Len(x) + 1 = 4
    BY <2>2
  <2>4. x \in DOMAIN a /\ bytes(q)[4] \in a[x]
    BY <2>2, <2>3, ActiveReaches
  <2>5. ~(On(x, p) /\ bytes(q)[4] = bytes(p)[4])
    <3> SUFFICES ASSUME On(x, p), bytes(q)[4] = bytes(p)[4]
                 PROVE  FALSE
      OBVIOUS
    <3>1. \A t \in 1..3 : bytes(p)[t] = bytes(q)[t]
      BY <2>2, <2>3 DEF On
    <3>2. \A t \in 1..4 : bytes(p)[t] = bytes(q)[t]
      BY <3>1
    <3> QED
      BY <1>8, <2>1, <3>2, SameBytes
  <2>6. x \in DOMAIN m /\ bytes(q)[4] \in m[x]
    BY <1>5, <2>3, <2>4, <2>5
  <2> QED
    BY <1>2, <2>1, <2>2, <2>3, <2>6, LastBitTells
<1>9. ActiveIn(a) = ActiveIn(m) \cup {p}
  BY <1>6, <1>7, <1>8
<1>10. Leads(a)
  <2> SUFFICES ASSUME NEW x \in DOMAIN a, NEW b \in a[x]
               PROVE  \E q \in ActiveIn(a) : On(x, q) /\ bytes(q)[Len(x) + 1] = b
    BY DEF Leads
  <2>1. CASE x \in DOMAIN m /\ b \in m[x]
    BY <1>2, <1>7, <2>1 DEF Leads
  <2>2. CASE On(x, p) /\ b = bytes(p)[Len(x) + 1]
    BY <1>6, <2>2
  <2> QED
    BY <1>5, <2>1, <2>2
<1>11. Nodes(a)
  <2>1. <<>> \in DOMAIN a /\ \A x \in DOMAIN a : x # <<>> => Front(x) \in DOMAIN a
    BY <1>1, <1>2, WayNodes
  <2>2. ASSUME NEW x \in DOMAIN a, NEW b \in a[x]
        PROVE  b \in Byte
    <3>1. CASE x \in DOMAIN m /\ b \in m[x]
      BY <1>2, <3>1 DEF Nodes
    <3>2. CASE b = bytes(p)[Len(x) + 1]
      BY <1>3, <3>2, OnBoth
    <3> QED
      BY <1>5, <3>1, <3>2
  <2> QED
    BY <1>3, <2>1, <2>2 DEF Nodes
<1>12. \A x \in DOMAIN a : a[x] = {} => x \in DOMAIN m /\ m[x] = {}
  <2> SUFFICES ASSUME NEW x \in DOMAIN a, a[x] = {}
               PROVE  x \in DOMAIN m /\ m[x] = {}
    OBVIOUS
  <2>1. ~On(x, p)
    BY <1>1
  <2>2. x \in DOMAIN m
    BY <1>1, <1>2, <2>1, WayNodes
  <2> QED
    BY <1>4, <2>2
<1> QED
  BY <1>9, <1>10, <1>11, <1>12 DEF Trie, a

-----------------------------------------------------------------------------
(* remove.                                                                 *)

\* The tier at which remove() stops clearing p from m.
Stops(m, p, s) ==
  /\ s \in 1..4
  /\ s # 1 => m[NodeOf(p, s)] \ {bytes(p)[s]} # {}
  /\ \A t \in 1..4 : t > s => m[NodeOf(p, t)] \ {bytes(p)[t]} = {}

\* x is below the node that p hangs from at tier s.
Below(x, p, s) == s <= Len(x) /\ \A i \in 1..s : x[i] = bytes(p)[i]

LEMMA RemoveIs ==
  ASSUME NEW m, Nodes(m), NEW p \in Price
  PROVE  \E s \in 1..4 :
           /\ Stops(m, p, s)
           /\ DOMAIN remove(m, p) = {x \in DOMAIN m : ~Below(x, p, s)}
           /\ \A x \in DOMAIN remove(m, p) :
                remove(m, p)[x] = IF x = NodeOf(p, s) THEN m[x] \ {bytes(p)[s]} ELSE m[x]
<1> DEFINE Others(t) == m[NodeOf(p, t)] \ {bytes(p)[t]}
           S == {1} \cup {t \in 2..4 : Others(t) # {}}
           s == Max(S)
           kept == {x \in DOMAIN m : ~IsPrefix(NodeOf(p, s + 1), x)}
<1>1. s \in S /\ \A t \in S : t <= s
  <2> HIDE DEF Others
  <2>1. \E k \in S : \A t \in S : t <= k
    <3>1. CASE 4 \in S
      BY <3>1
    <3>2. CASE 4 \notin S /\ 3 \in S
      BY <3>2
    <3>3. CASE 4 \notin S /\ 3 \notin S /\ 2 \in S
      BY <3>3
    <3>4. CASE 4 \notin S /\ 3 \notin S /\ 2 \notin S
      BY <3>4
    <3> QED
      BY <3>1, <3>2, <3>3, <3>4
  <2>2. \E k \in S : \A t \in S : k >= t
    BY <2>1
  <2> HIDE DEF S
  <2>3. s \in S /\ \A t \in S : s >= t
    BY <2>2 DEF Max
  <2>4. \A t \in S : t \in Int
    BY DEF S
  <2> QED
    BY <2>3, <2>4
<1>2. remove(m, p) = [x \in kept |-> IF x = NodeOf(p, s) THEN Others(s) ELSE m[x]]
  BY DEF remove, Tiers
<1> HIDE DEF s
<1>3. s \in 1..4 /\ s + 1 \in 1..5 /\ (s + 1) - 1 = s
  <2> HIDE DEF Others
  <2> QED
    BY <1>1
<1>4. Stops(m, p, s)
  <2>1. s # 1 => Others(s) # {}
    BY <1>1
  <2>2. \A t \in 1..4 : t > s => t \in 2..4 /\ ~(t <= s)
    BY <1>3
  <2>3. \A t \in 1..4 : t > s => Others(t) = {}
    BY <1>1, <2>2
  <2> QED
    BY <1>3, <2>1, <2>3 DEF Stops
<1>5. kept = {x \in DOMAIN m : ~Below(x, p, s)}
  <2>1. \A x \in DOMAIN m : IsPrefix(NodeOf(p, s + 1), x) <=> Below(x, p, s)
    BY <1>3, PrefixNode DEF Nodes, Below
  <2> QED
    BY <2>1
<1> HIDE DEF kept
<1> QED
  BY <1>2, <1>3, <1>4, <1>5

\* Another price leaves the way to p before remove() stops.
LEMMA LeavesWay ==
  ASSUME NEW m, NEW p \in ActiveIn(m), NEW q \in ActiveIn(m), NEW s, Stops(m, p, s),
         \A i \in 1..s : bytes(q)[i] = bytes(p)[i]
  PROVE  q = p
<1>1. p \in Price /\ q \in Price
  BY DEF ActiveIn
<1>2. ASSUME NEW t \in 1..4, t > s, \A i \in 1..t-1 : bytes(q)[i] = bytes(p)[i]
      PROVE  bytes(q)[t] = bytes(p)[t]
  <2> DEFINE x == NodeOf(p, t)
  <2>1. x \in Names /\ Len(x) = t - 1 /\ On(x, p)
    BY <1>1, NodesOnPath
  <2>2. m[x] \ {bytes(p)[t]} = {}
    BY <1>2 DEF Stops
  <2> HIDE DEF x
  <2>3. On(x, q) /\ Len(x) + 1 = t
    BY <1>2, <2>1 DEF On
  <2>4. bytes(q)[t] \in m[x]
    BY <2>1, <2>3, ActiveReaches
  <2> QED
    BY <2>2, <2>4
<1>3. s \in 1..4
  BY DEF Stops
<1>4. \A t \in 1..4 : bytes(p)[t] = bytes(q)[t]
  <2>1. bytes(q)[1] = bytes(p)[1]
    BY <1>3
  <2>2. bytes(q)[2] = bytes(p)[2]
    <3>1. CASE 2 <= s
      BY <1>3, <3>1
    <3>2. CASE 2 > s
      BY <1>2, <2>1, <3>2
    <3> QED
      BY <1>3, <3>1, <3>2
  <2>3. bytes(q)[3] = bytes(p)[3]
    <3>1. CASE 3 <= s
      BY <1>3, <3>1
    <3>2. CASE 3 > s
      BY <1>2, <2>1, <2>2, <3>2
    <3> QED
      BY <1>3, <3>1, <3>2
  <2>4. bytes(q)[4] = bytes(p)[4]
    <3>1. CASE 4 <= s
      BY <1>3, <3>1
    <3>2. CASE 4 > s
      BY <1>2, <2>1, <2>2, <2>3, <3>2
    <3> QED
      BY <1>3, <3>1, <3>2
  <2> QED
    BY <2>1, <2>2, <2>3, <2>4
<1> QED
  BY <1>1, <1>4, SameBytes

\* Only p goes, and what is emptied is freed.
LEMMA RemoveKeeps ==
  ASSUME NEW m, Trie(m), NEW p \in ActiveIn(m)
  PROVE  LET a == remove(m, p)
         IN /\ Trie(a) /\ ActiveIn(a) = ActiveIn(m) \ {p}
            /\ \A x \in DOMAIN a : x # <<>> /\ a[x] = {} => x \in DOMAIN m /\ m[x] = {}
<1> DEFINE a == remove(m, p)
<1>0. p \in Price /\ Nodes(m) /\ Leads(m)
  BY DEF Trie, ActiveIn
<1>1. PICK s \in 1..4 :
        /\ Stops(m, p, s)
        /\ DOMAIN a = {x \in DOMAIN m : ~Below(x, p, s)}
        /\ \A x \in DOMAIN a : a[x] = IF x = NodeOf(p, s) THEN m[x] \ {bytes(p)[s]} ELSE m[x]
  BY <1>0, RemoveIs
<1> HIDE DEF a
<1>2. \A x \in DOMAIN a : x \in DOMAIN m /\ x \in Names /\ a[x] \subseteq m[x] /\ m[x] \subseteq Byte
  BY <1>0, <1>1 DEF Nodes
<1>3. \A x \in Names : Len(x) \in 0..3 /\ x \in Seq(Byte)
  BY NamesAre
<1> DEFINE w == NodeOf(p, s)
<1>4. w \in Names /\ Len(w) = s - 1 /\ On(w, p) /\ Len(w) + 1 = s
  <2>1. w \in Names /\ Len(w) = s - 1 /\ On(w, p)
    BY <1>0, NodesOnPath
  <2> QED
    BY <2>1
<1>5. w \in DOMAIN a /\ a[w] = m[w] \ {bytes(p)[s]}
  <2>1. w \in DOMAIN m
    BY <1>4, ActiveReaches
  <2>2. ~(s <= s - 1)
    OBVIOUS
  <2>3. ~Below(w, p, s)
    BY <1>4, <2>2 DEF Below
  <2> QED
    BY <1>1, <2>1, <2>3
<1>6. \A x \in DOMAIN a : x # w => a[x] = m[x]
  BY <1>1
<1> HIDE DEF w
<1>7. p \notin ActiveIn(a)
  <2> SUFFICES ASSUME p \in ActiveIn(a)
               PROVE  FALSE
    OBVIOUS
  <2>1. bytes(p)[s] \in a[w]
    BY <1>4, ActiveReaches
  <2> QED
    BY <1>5, <2>1
<1>8. ActiveIn(a) \subseteq ActiveIn(m)
  BY <1>2 DEF ActiveIn
<1>9. ASSUME NEW q \in ActiveIn(m), q # p
      PROVE  q \in ActiveIn(a)
  <2>0. q \in Price
    BY DEF ActiveIn
  <2>1. PICK k \in 1..s : bytes(q)[k] # bytes(p)[k]
    BY <1>1, <1>9, LeavesWay
  <2> SUFFICES ASSUME NEW x \in Names, On(x, q)
               PROVE  x \in DOMAIN a /\ bytes(q)[Len(x) + 1] \in a[x]
    BY <2>0, ActiveIf
  <2>2. x \in DOMAIN m /\ bytes(q)[Len(x) + 1] \in m[x]
    BY ActiveReaches
  <2>3. ~Below(x, p, s)
    <3> SUFFICES ASSUME Below(x, p, s)
                 PROVE  FALSE
      OBVIOUS
    <3>1. k \in 1..Len(x)
      BY <1>3 DEF Below
    <3> QED
      BY <2>1, <3>1 DEF Below, On
  <2>4. x \in DOMAIN a
    BY <1>1, <2>2, <2>3
  <2>5. x = w => bytes(q)[s] # bytes(p)[s]
    <3> SUFFICES ASSUME x = w, bytes(q)[s] = bytes(p)[s]
                 PROVE  FALSE
      OBVIOUS
    <3>1. k \in 1..s-1 \/ k = s
      OBVIOUS
    <3> QED
      BY <1>4, <2>1, <3>1 DEF On
  <2>6. x = w => bytes(q)[Len(x) + 1] \in a[x]
    BY <1>4, <1>5, <2>2, <2>5
  <2> QED
    BY <1>6, <2>2, <2>4, <2>6
<1>10. ActiveIn(a) = ActiveIn(m) \ {p}
  BY <1>7, <1>8, <1>9
<1>11. ASSUME s # 1
       PROVE  \E q \in ActiveIn(a) : On(w, q) /\ bytes(q)[s] # bytes(p)[s]
  <2>1. PICK c \in m[w] : c # bytes(p)[s]
    BY <1>1, <1>11 DEF Stops, w
  <2>2. PICK q \in ActiveIn(m) : On(w, q) /\ bytes(q)[s] = c
    <3>1. \E q \in ActiveIn(m) : On(w, q) /\ bytes(q)[Len(w) + 1] = c
      BY <1>0, <1>2, <1>5, <2>1 DEF Leads
    <3> QED
      BY <1>4, <3>1
  <2>3. q # p
    BY <2>1, <2>2
  <2> QED
    BY <1>9, <2>1, <2>2, <2>3
<1>12. Leads(a)
  <2> SUFFICES ASSUME NEW x \in DOMAIN a, NEW b \in a[x]
               PROVE  \E q \in ActiveIn(a) : On(x, q) /\ bytes(q)[Len(x) + 1] = b
    BY DEF Leads
  <2>1. PICK q \in ActiveIn(m) : On(x, q) /\ bytes(q)[Len(x) + 1] = b
    BY <1>0, <1>2 DEF Leads
  <2>2. CASE q # p
    BY <1>9, <2>1, <2>2
  <2>3. CASE q = p
    <3>1. Len(x) \in 0..3 /\ x \in Seq(Byte) /\ x \in Names
      BY <1>2, <1>3
    <3>2. Len(x) < s
      <4> SUFFICES ASSUME s <= Len(x)
                   PROVE  FALSE
        BY <3>1
      <4>1. \A i \in 1..s : i \in 1..Len(x)
        BY <3>1
      <4>2. Below(x, p, s)
        BY <2>1, <2>3, <4>1 DEF Below, On
      <4> QED
        BY <1>1, <4>2
    <3>3. Len(x) # s - 1
      <4> SUFFICES ASSUME Len(x) = s - 1
                   PROVE  FALSE
        OBVIOUS
      <4>1. Len(x) + 1 = s
        BY <1>4
      <4>2. x = w
        BY <1>0, <2>1, <2>3, <3>1, <4>1, OnBoth DEF w
      <4> QED
        BY <1>5, <2>1, <2>3, <4>1, <4>2
    <3>4. s # 1
      BY <3>1, <3>2, <3>3
    <3>5. PICK r \in ActiveIn(a) : On(w, r) /\ bytes(r)[s] # bytes(p)[s]
      BY <1>11, <3>4
    <3>6. \A i \in 1..s-1 : bytes(r)[i] = bytes(p)[i]
      BY <1>4, <3>5 DEF On
    <3>7. Len(x) + 1 \in 1..s-1 /\ \A i \in 1..Len(x) : i \in 1..s-1
      BY <3>1, <3>2, <3>3
    <3>8. On(x, r)
      BY <2>1, <2>3, <3>6, <3>7 DEF On
    <3> QED
      BY <2>1, <2>3, <3>5, <3>6, <3>7, <3>8
  <2> QED
    BY <2>2, <2>3
<1>13. Nodes(a)
  <2>1. <<>> \in DOMAIN a
    <3>1. Len(<<>>) = 0
      OBVIOUS
    <3>2. ~Below(<<>>, p, s)
      BY <3>1 DEF Below
    <3> QED
      BY <1>0, <1>1, <3>2 DEF Nodes
  <2>2. ASSUME NEW x \in DOMAIN a, x # <<>>
        PROVE  Front(x) \in DOMAIN a
    <3>1. x \in Seq(Byte) /\ Len(x) \in 1..3
      <4>1. x \in Seq(Byte) /\ Len(x) \in 0..3
        BY <1>2, <1>3
      <4>2. Len(x) # 0
        BY <2>2, <4>1, EmptySeq
      <4> QED
        BY <4>1, <4>2
    <3> DEFINE y == Front(x)
    <3>2. Len(y) = Len(x) - 1 /\ \A i \in 1..Len(y) : y[i] = x[i]
      BY <3>1 DEF Front
    <3>3. y \in DOMAIN m
      BY <1>0, <1>2, <2>2 DEF Nodes
    <3> HIDE DEF y
    <3>4. ~Below(y, p, s)
      <4> SUFFICES ASSUME Below(y, p, s)
                   PROVE  FALSE
        OBVIOUS
      <4>1. s <= Len(x) /\ \A i \in 1..s : i \in 1..Len(y)
        BY <3>1, <3>2 DEF Below
      <4>2. Below(x, p, s)
        BY <3>2, <4>1 DEF Below
      <4> QED
        BY <1>1, <4>2
    <3> QED
      BY <1>1, <3>3, <3>4 DEF y
  <2> QED
    BY <1>2, <2>1, <2>2 DEF Nodes
<1>14. ASSUME NEW x \in DOMAIN a, x # <<>>, a[x] = {}
       PROVE  x \in DOMAIN m /\ m[x] = {}
  <2>1. x # w
    <3> SUFFICES ASSUME x = w
                 PROVE  FALSE
      OBVIOUS
    <3>1. s # 1
      <4> SUFFICES ASSUME s = 1
                   PROVE  FALSE
        OBVIOUS
      <4>1. Len(w) = 0 /\ w \in Seq(Byte)
        BY <1>3, <1>4
      <4> QED
        BY <1>14, <4>1, EmptySeq
    <3>2. a[w] # {}
      BY <1>1, <1>5, <3>1 DEF Stops, w
    <3> QED
      BY <1>14, <3>2
  <2> QED
    BY <1>2, <1>6, <1>14, <2>1
<1> QED
  BY <1>10, <1>12, <1>13, <1>14 DEF Trie, a

-----------------------------------------------------------------------------
(* find.                                                                   *)

LEMMA Least ==
  ASSUME NEW T \in SUBSET Nat, T # {}
  PROVE  \E x \in T : \A y \in T : x <= y
<1> DEFINE R == OpToRel(<, Nat)
<1>1. PICK x \in T : \A y \in T : <<y, x>> \notin R
  <2>1. IsWellFoundedOn(R, Nat)
    BY NatLessThanWellFounded
  <2> HIDE DEF R
  <2> QED
    BY <2>1, WFMin
<1>2. ASSUME NEW y \in T
      PROVE  x <= y
  <2>1. x \in Nat /\ y \in Nat
    OBVIOUS
  <2>2. y < x => <<y, x>> \in R
    BY <2>1 DEF OpToRel
  <2> HIDE DEF R
  <2> QED
    BY <1>1, <2>1, <2>2
<1> QED
  BY <1>2

\* Min and Max of a bounded set.
LEMMA MinMax ==
  ASSUME NEW T \in SUBSET Nat, T # {}, NEW n \in Nat, \A t \in T : t <= n
  PROVE  /\ Min(T) \in T /\ \A y \in T : Min(T) <= y
         /\ Max(T) \in T /\ \A y \in T : y <= Max(T)
<1>1. \E x \in T : \A y \in T : x <= y
  BY Least
<1>2. Min(T) \in T /\ \A y \in T : Min(T) <= y
  BY <1>1 DEF Min
<1>3. \E x \in T : \A y \in T : x >= y
  <2> DEFINE U == {n - t : t \in T}
  <2>1. U \in SUBSET Nat /\ U # {}
    <3>1. \A t \in T : n - t \in Nat
      <4> TAKE t \in T
      <4>1. t \in Nat /\ t <= n
        OBVIOUS
      <4> QED
        BY <4>1
    <3> QED
      BY <3>1
  <2>2. PICK u \in U : \A y \in U : u <= y
    <3> HIDE DEF U
    <3> QED
      BY <2>1, Least
  <2>3. PICK x \in T : u = n - x
    OBVIOUS
  <2>4. ASSUME NEW y \in T
        PROVE  x >= y
    <3>1. n - y \in U
      OBVIOUS
    <3>2. n - x <= n - y
      BY <2>2, <2>3, <3>1
    <3> HIDE DEF U
    <3> QED
      BY <3>2
  <2> QED
    BY <2>4
<1>4. Max(T) \in T /\ \A y \in T : Max(T) >= y
  BY <1>3 DEF Max
<1>5. \A y \in T : y \in Nat
  OBVIOUS
<1> QED
  BY <1>2, <1>4, <1>5

Pick(mask, reverse) == IF reverse THEN highest(mask) ELSE lowest(mask)

\* a is no further from the end that find() looks from than b.
Foremost(a, b, reverse) == IF reverse THEN b <= a ELSE a <= b

\* One step of the descent.
LEMMA Descend ==
  ASSUME NEW m, Trie(m), NEW x \in DOMAIN m, m[x] # {}, NEW reverse \in BOOLEAN,
         NEW b, b = Pick(m[x], reverse)
  PROVE  /\ b \in m[x] /\ b \in Byte /\ x \in Names
         /\ \A c \in m[x] : c \in Byte /\ Foremost(b, c, reverse)
         /\ Len(x) < 3 => Append(x, b) \in DOMAIN m /\ m[Append(x, b)] # {}
<1>1. x \in Names /\ m[x] \subseteq Byte /\ Leads(m)
  BY DEF Trie, Nodes
<1>2. /\ Min(m[x]) \in m[x] /\ \A y \in m[x] : Min(m[x]) <= y
      /\ Max(m[x]) \in m[x] /\ \A y \in m[x] : y <= Max(m[x])
  <2>1. m[x] \in SUBSET Nat /\ Radix - 1 \in Nat /\ \A t \in m[x] : t <= Radix - 1
    BY <1>1, Units DEF Byte
  <2> QED
    BY <2>1, MinMax
<1>3. b \in m[x] /\ \A c \in m[x] : Foremost(b, c, reverse)
  BY <1>2 DEF Pick, Foremost, highest, lowest
<1>4. ASSUME Len(x) < 3
      PROVE  Append(x, b) \in DOMAIN m /\ m[Append(x, b)] # {}
  <2>1. PICK p \in ActiveIn(m) : On(x, p) /\ bytes(p)[Len(x) + 1] = b
    BY <1>1, <1>3 DEF Leads
  <2> DEFINE y == Append(x, b)
  <2>2. x \in Seq(Byte) /\ Len(x) \in 0..2 /\ b \in Byte
    <3>1. x \in Seq(Byte) /\ Len(x) \in 0..3
      BY <1>1, NamesAre
    <3> QED
      BY <1>1, <1>3, <1>4, <3>1
  <2>3. y \in Seq(Byte) /\ Len(y) = Len(x) + 1 /\ y[Len(x) + 1] = b
        /\ \A i \in 1..Len(x) : y[i] = x[i]
    BY <2>2
  <2> HIDE DEF y
  <2>4. y \in Names
    <3>1. Len(y) \in 0..3
      BY <2>2, <2>3
    <3> QED
      BY <2>3, <3>1, NamesAre
  <2>5. On(y, p)
    <3>1. \A i \in 1..Len(y) : i \in 1..Len(x) \/ i = Len(x) + 1
      BY <2>2, <2>3
    <3> QED
      BY <2>1, <2>3, <3>1 DEF On
  <2>6. y \in DOMAIN m /\ m[y] # {}
    BY <2>4, <2>5, ActiveReaches
  <2> QED
    BY <2>6 DEF y
<1> QED
  BY <1>1, <1>3, <1>4

LEMMA AppendIs ==
  ASSUME NEW S, NEW x \in Seq(S), NEW b \in S, NEW y \in Seq(S), Len(y) = Len(x) + 1,
         \A i \in 1..Len(x) : y[i] = x[i], y[Len(x) + 1] = b
  PROVE  Append(x, b) = y
<1> DEFINE z == Append(x, b)
<1>1. z \in Seq(S) /\ Len(z) = Len(x) + 1 /\ z[Len(x) + 1] = b /\ \A i \in 1..Len(x) : z[i] = x[i]
  BY AppendProperties
<1> HIDE DEF z
<1>2. \A i \in 1..Len(y) : i \in 1..Len(x) \/ i = Len(x) + 1
  BY LenProperties
<1>3. \A i \in 1..Len(y) : z[i] = y[i]
  BY <1>1, <1>2
<1>4. z = y
  BY <1>1, <1>3, SeqEqual
<1> QED
  BY <1>4 DEF z

LEMMA Appends ==
  ASSUME NEW a \in Byte
  PROVE  /\ Len(<<>>) = 0 /\ Append(<<>>, a) = <<a>>
         /\ Len(<<a>>) = 1 /\ \A b \in Byte : Append(<<a>>, b) = <<a, b>>
         /\ \A b \in Byte : /\ Len(<<a, b>>) = 2
                            /\ \A c \in Byte : Append(<<a, b>>, c) = <<a, b, c>>
<1>1. Len(<<>>) = 0 /\ Append(<<>>, a) = <<a>> /\ Len(<<a>>) = 1
  OBVIOUS
<1>2. ASSUME NEW b \in Byte
      PROVE  Append(<<a>>, b) = <<a, b>> /\ Len(<<a, b>>) = 2
  <2> DEFINE x == <<a>>
             y == <<a, b>>
  <2>1. x \in Seq(Byte) /\ Len(x) = 1 /\ x[1] = a
    OBVIOUS
  <2>2. y \in Seq(Byte) /\ Len(y) = 2 /\ y[1] = a /\ y[2] = b
    OBVIOUS
  <2> HIDE DEF x, y
  <2>3. Append(x, b) = y
    <3>1. \A i \in 1..Len(x) : y[i] = x[i]
      BY <2>1, <2>2
    <3>2. Len(y) = Len(x) + 1 /\ y[Len(x) + 1] = b
      BY <2>1, <2>2
    <3> QED
      BY <2>1, <2>2, <3>1, <3>2, AppendIs
  <2> QED
    BY <2>2, <2>3 DEF x, y
<1>3. ASSUME NEW b \in Byte, NEW c \in Byte
      PROVE  Append(<<a, b>>, c) = <<a, b, c>>
  <2> DEFINE x == <<a, b>>
             y == <<a, b, c>>
  <2>1. x \in Seq(Byte) /\ Len(x) = 2 /\ x[1] = a /\ x[2] = b
    OBVIOUS
  <2>2. y \in Seq(Byte) /\ Len(y) = 3 /\ y[1] = a /\ y[2] = b /\ y[3] = c
    OBVIOUS
  <2> HIDE DEF x, y
  <2>3. Append(x, c) = y
    <3>1. \A i \in 1..Len(x) : y[i] = x[i]
      BY <2>1, <2>2
    <3>2. Len(y) = Len(x) + 1 /\ y[Len(x) + 1] = c
      BY <2>1, <2>2
    <3> QED
      BY <2>1, <2>2, <3>1, <3>2, AppendIs
  <2> QED
    BY <2>3 DEF x, y
<1> QED
  BY <1>1, <1>2, <1>3

LEMMA FoundIs ==
  ASSUME NEW m, Trie(m), NEW reverse \in BOOLEAN, ActiveIn(m) # {}
  PROVE  \E p \in ActiveIn(m) : /\ find(m, reverse) = {p}
                                /\ \A q \in ActiveIn(m) : Foremost(p, q, reverse)
<1> DEFINE b3 == Pick(m[<<>>], reverse)
           b2 == Pick(m[<<b3>>], reverse)
           b1 == Pick(m[<<b3, b2>>], reverse)
           b0 == Pick(m[<<b3, b2, b1>>], reverse)
<1>0. find(m, reverse) = IF m[<<>>] = {} THEN {} ELSE {Value(<<b3, b2, b1, b0>>)}
  BY DEF find, Pick
<1>1. <<>> \in DOMAIN m /\ m[<<>>] # {}
  <2>1. PICK p \in ActiveIn(m) : TRUE
    OBVIOUS
  <2>2. <<>> \in Names /\ On(<<>>, p)
    <3>1. <<>> \in Seq(Byte) /\ Len(<<>>) \in 0..3 /\ 1..Len(<<>>) = {}
      OBVIOUS
    <3> QED
      BY <3>1, NamesAre DEF On
  <2> QED
    BY <2>1, <2>2, ActiveReaches
<1>a. /\ b3 \in m[<<>>] /\ b3 \in Byte /\ <<>> \in Names
      /\ \A c \in m[<<>>] : c \in Byte /\ Foremost(b3, c, reverse)
      /\ Len(<<>>) < 3 => Append(<<>>, b3) \in DOMAIN m /\ m[Append(<<>>, b3)] # {}
  BY <1>1, Descend
<1> HIDE DEF b3
<1>2. <<b3>> \in DOMAIN m /\ m[<<b3>>] # {}
  BY <1>a, Appends
<1>b. /\ b2 \in m[<<b3>>] /\ b2 \in Byte /\ <<b3>> \in Names
      /\ \A c \in m[<<b3>>] : c \in Byte /\ Foremost(b2, c, reverse)
      /\ Len(<<b3>>) < 3 => Append(<<b3>>, b2) \in DOMAIN m /\ m[Append(<<b3>>, b2)] # {}
  BY <1>2, Descend
<1> HIDE DEF b2
<1>3. <<b3, b2>> \in DOMAIN m /\ m[<<b3, b2>>] # {}
  <2>1. Append(<<b3>>, b2) = <<b3, b2>> /\ Len(<<b3>>) = 1
    BY <1>a, <1>b, Appends
  <2>2. Len(<<b3>>) < 3
    BY <2>1
  <2> QED
    BY <1>b, <2>1, <2>2, Zenon
<1>c. /\ b1 \in m[<<b3, b2>>] /\ b1 \in Byte /\ <<b3, b2>> \in Names
      /\ \A c \in m[<<b3, b2>>] : c \in Byte /\ Foremost(b1, c, reverse)
      /\ Len(<<b3, b2>>) < 3 => /\ Append(<<b3, b2>>, b1) \in DOMAIN m
                                /\ m[Append(<<b3, b2>>, b1)] # {}
  BY <1>3, Descend
<1> HIDE DEF b1
<1>4. <<b3, b2, b1>> \in DOMAIN m /\ m[<<b3, b2, b1>>] # {}
  <2>1. Append(<<b3, b2>>, b1) = <<b3, b2, b1>> /\ Len(<<b3, b2>>) = 2
    BY <1>a, <1>b, <1>c, Appends
  <2>2. Len(<<b3, b2>>) < 3
    BY <2>1
  <2> QED
    BY <1>c, <2>1, <2>2, Zenon
<1>d. /\ b0 \in m[<<b3, b2, b1>>] /\ b0 \in Byte /\ <<b3, b2, b1>> \in Names
      /\ \A c \in m[<<b3, b2, b1>>] : c \in Byte /\ Foremost(b0, c, reverse)
  BY <1>4, Descend
<1> HIDE DEF b0
<1>5. PICK p \in ActiveIn(m) : /\ bytes(p)[1] = b3 /\ bytes(p)[2] = b2
                               /\ bytes(p)[3] = b1 /\ bytes(p)[4] = b0
  <2> DEFINE x == <<b3, b2, b1>>
  <2>1. Len(x) = 3 /\ x[1] = b3 /\ x[2] = b2 /\ x[3] = b1 /\ Len(x) + 1 = 4
    OBVIOUS
  <2> HIDE DEF x
  <2>2. PICK p \in ActiveIn(m) : On(x, p) /\ bytes(p)[Len(x) + 1] = b0
    BY <1>4, <1>d DEF Trie, Leads, x
  <2>3. 1 \in 1..Len(x) /\ 2 \in 1..Len(x) /\ 3 \in 1..Len(x)
    BY <2>1
  <2> QED
    BY <2>1, <2>2, <2>3 DEF On
<1>6. p \in Price /\ Value(bytes(p)) = p
  BY BytesAre DEF ActiveIn
<1>7. Value(<<b3, b2, b1, b0>>) = Value(bytes(p))
  <2> DEFINE v == <<b3, b2, b1, b0>>
  <2>1. v[1] = b3 /\ v[2] = b2 /\ v[3] = b1 /\ v[4] = b0
    OBVIOUS
  <2> HIDE DEF v
  <2>2. Value(v) = Value(bytes(p))
    BY <1>5, <2>1 DEF Value
  <2> QED
    BY <2>2 DEF v
<1>8. find(m, reverse) = {p}
  BY <1>0, <1>1, <1>6, <1>7
<1>9. ASSUME NEW q \in ActiveIn(m)
      PROVE  Foremost(p, q, reverse)
  <2>0. q \in Price /\ Value(bytes(q)) = q
    BY BytesAre DEF ActiveIn
  <2>1. bytes(q)[1] \in Byte /\ Foremost(b3, bytes(q)[1], reverse)
    <3>1. On(<<>>, q) /\ Len(<<>>) + 1 = 1
      BY DEF On
    <3>2. bytes(q)[1] \in m[<<>>]
      BY <1>a, <3>1, ActiveReaches
    <3> QED
      BY <1>a, <3>2
  <2>2. ASSUME bytes(q)[1] = b3
        PROVE  bytes(q)[2] \in Byte /\ Foremost(b2, bytes(q)[2], reverse)
    <3>1. On(<<b3>>, q) /\ Len(<<b3>>) + 1 = 2
      BY <2>2 DEF On
    <3>2. bytes(q)[2] \in m[<<b3>>]
      BY <1>b, <3>1, ActiveReaches
    <3> QED
      BY <1>b, <3>2
  <2>3. ASSUME bytes(q)[1] = b3, bytes(q)[2] = b2
        PROVE  bytes(q)[3] \in Byte /\ Foremost(b1, bytes(q)[3], reverse)
    <3>1. On(<<b3, b2>>, q) /\ Len(<<b3, b2>>) + 1 = 3
      BY <2>3 DEF On
    <3>2. bytes(q)[3] \in m[<<b3, b2>>]
      BY <1>c, <3>1, ActiveReaches
    <3> QED
      BY <1>c, <3>2
  <2>4. ASSUME bytes(q)[1] = b3, bytes(q)[2] = b2, bytes(q)[3] = b1
        PROVE  bytes(q)[4] \in Byte /\ Foremost(b0, bytes(q)[4], reverse)
    <3>1. On(<<b3, b2, b1>>, q) /\ Len(<<b3, b2, b1>>) + 1 = 4
      BY <2>4 DEF On
    <3>2. bytes(q)[4] \in m[<<b3, b2, b1>>]
      BY <1>d, <3>1, ActiveReaches
    <3> QED
      BY <1>d, <3>2
  <2> DEFINE a == bytes(p)
             b == bytes(q)
  <2>5. \A t \in 1..4 : a[t] \in Byte /\ b[t] \in Byte
    BY <1>6, <2>0, BytesType
  <2>6. \A y, z \in Byte : Foremost(y, z, reverse) /\ y # z
          => IF reverse THEN z < y ELSE y < z
    BY Units DEF Foremost, Byte
  <2> HIDE DEF a, b
  <2>7. /\ Foremost(a[1], b[1], reverse)
        /\ a[1] = b[1] => Foremost(a[2], b[2], reverse)
        /\ a[1] = b[1] /\ a[2] = b[2] => Foremost(a[3], b[3], reverse)
        /\ a[1] = b[1] /\ a[2] = b[2] /\ a[3] = b[3] => Foremost(a[4], b[4], reverse)
    BY <1>5, <2>1, <2>2, <2>3, <2>4 DEF a, b
  <2>8. CASE ~reverse
    <3>1. \/ a[1] < b[1]
          \/ a[1] = b[1] /\ a[2] < b[2]
          \/ a[1] = b[1] /\ a[2] = b[2] /\ a[3] < b[3]
          \/ a[1] = b[1] /\ a[2] = b[2] /\ a[3] = b[3] /\ a[4] <= b[4]
      <4>1. \A t \in 1..4 : Foremost(a[t], b[t], reverse) => a[t] = b[t] \/ a[t] < b[t]
        BY <2>5, <2>6, <2>8
      <4>2. Foremost(a[4], b[4], reverse) => a[4] <= b[4]
        BY <2>8 DEF Foremost
      <4> QED
        BY <2>7, <4>1, <4>2
    <3>2. Value(a) <= Value(b)
      BY <2>5, <3>1, ValueOrder
    <3> QED
      BY <1>6, <2>0, <2>8, <3>2 DEF Foremost, a, b
  <2>9. CASE reverse
    <3>1. \/ b[1] < a[1]
          \/ b[1] = a[1] /\ b[2] < a[2]
          \/ b[1] = a[1] /\ b[2] = a[2] /\ b[3] < a[3]
          \/ b[1] = a[1] /\ b[2] = a[2] /\ b[3] = a[3] /\ b[4] <= a[4]
      <4>1. \A t \in 1..4 : Foremost(a[t], b[t], reverse) => a[t] = b[t] \/ b[t] < a[t]
        BY <2>5, <2>6, <2>9
      <4>2. Foremost(a[4], b[4], reverse) => b[4] <= a[4]
        BY <2>9 DEF Foremost
      <4> QED
        BY <2>7, <4>1, <4>2
    <3>2. Value(b) <= Value(a)
      BY <2>5, <3>1, ValueOrder
    <3> QED
      BY <1>6, <2>0, <2>9, <3>2 DEF Foremost, a, b
  <2> QED
    BY <2>8, <2>9
<1> QED
  BY <1>8, <1>9

-----------------------------------------------------------------------------
(* The invariant.                                                          *)

PriceIndexInv == Trie(node) /\ ret \in {"done", "throw"}

\* What every step does: the trie stays one, the set of its prices changes as
\* a set does, and only a failed add leaves another node empty.
Empty(m) == {x \in DOMAIN m \ {<<>>} : m[x] = {}}

Kept ==
  /\ PriceIndexInv'
  /\ [Set!Next]_(Set!vars)
  /\ ret' # "throw" => Empty(node') \subseteq Empty(node)

LEMMA NoTrie ==
  ASSUME NEW m, m = [x \in {<<>>} |-> {}]
  PROVE  Trie(m) /\ ActiveIn(m) = {} /\ Empty(m) = {}
<1>1. DOMAIN m = {<<>>} /\ m[<<>>] = {}
  OBVIOUS
<1>2. \A x \in DOMAIN m : x = <<>> /\ m[x] = {}
  BY <1>1
<1>3. <<>> \in Names
  <2>1. <<>> \in Seq(Byte) /\ Len(<<>>) \in 0..3
    OBVIOUS
  <2> QED
    BY <2>1, NamesAre
<1>4. ActiveIn(m) = {}
  <2> SUFFICES ASSUME NEW p \in ActiveIn(m)
               PROVE  FALSE
    OBVIOUS
  <2>1. 1 \in 1..Tiers
    BY DEF Tiers
  <2>2. NodeOf(p, 1) \in DOMAIN m /\ bytes(p)[1] \in m[NodeOf(p, 1)]
    BY <2>1 DEF ActiveIn
  <2> QED
    BY <1>2, <2>2
<1> QED
  BY <1>1, <1>2, <1>3, <1>4 DEF Trie, Nodes, Leads, Empty

LEMMA InitInv == Init => PriceIndexInv /\ Set!Init
<1> SUFFICES ASSUME Init
             PROVE  PriceIndexInv /\ Set!Init
  OBVIOUS
<1>1. Trie(node) /\ ActiveIn(node) = {}
  BY NoTrie DEF Init
<1>2. Active = ActiveIn(node)
  BY DEF Active, ActiveIn
<1> QED
  BY <1>1, <1>2 DEF Init, PriceIndexInv, Set!Init

LEMMA Steps == PriceIndexInv /\ [Next]_vars => Kept
<1> SUFFICES ASSUME PriceIndexInv, [Next]_vars
             PROVE  Kept
  OBVIOUS
<1>1. Active = ActiveIn(node) /\ Active' = ActiveIn(node')
  BY DEF Active, ActiveIn
<1>2. Trie(node)
  BY DEF PriceIndexInv
<1>3. ASSUME NEW p \in Price, Activate(p)
      PROVE  Kept
  <2>1. CASE node' = add(node, p) /\ ret' = "done"
    <3> DEFINE a == add(node, p)
    <3>1. /\ Trie(a) /\ ActiveIn(a) = ActiveIn(node) \cup {p}
          /\ \A x \in DOMAIN a : a[x] = {} => x \in DOMAIN node /\ node[x] = {}
      BY <1>2, AddKeeps
    <3> HIDE DEF a
    <3>2. node' = a /\ ret' = "done"
      BY <2>1 DEF a
    <3>3. Trie(node') /\ Active' = Active \cup {p} /\ Empty(node') \subseteq Empty(node)
      BY <1>1, <3>1, <3>2 DEF Empty
    <3>4. Set!Add(p)
      BY <1>3, <3>2, <3>3 DEF Activate, Set!Add
    <3> QED
      BY <3>2, <3>3, <3>4 DEF Kept, PriceIndexInv, Set!Next
  <2>2. CASE node' \in add_throws(node, p) /\ ret' = "throw"
    <3>1. PICK t \in 1..4 : node' = Allocate(node, p, t)
      <4>1. \A t \in 1..Tiers-1 : t \in 1..4
        BY DEF Tiers
      <4> QED
        BY <2>2, <4>1 DEF add_throws
    <3>2. Trie(node') /\ Active' = Active
      BY <1>1, <1>2, <3>1, AllocateKeeps
    <3>3. Set!OutOfMemory
      BY <2>2, <3>2 DEF Set!OutOfMemory
    <3> QED
      BY <2>2, <3>2, <3>3 DEF Kept, PriceIndexInv, Set!Next
  <2> QED
    BY <1>3, <2>1, <2>2 DEF Activate
<1>4. ASSUME NEW p \in Price, Deactivate(p)
      PROVE  Kept
  <2> DEFINE a == remove(node, p)
  <2>1. p \in ActiveIn(node)
    BY <1>1, <1>4 DEF Deactivate
  <2>2. /\ Trie(a) /\ ActiveIn(a) = ActiveIn(node) \ {p}
        /\ \A x \in DOMAIN a : x # <<>> /\ a[x] = {} => x \in DOMAIN node /\ node[x] = {}
    BY <1>2, <2>1, RemoveKeeps
  <2> HIDE DEF a
  <2>3. node' = a /\ ret' = "done"
    BY <1>4 DEF Deactivate, a
  <2>4. Trie(node') /\ Active' = Active \ {p} /\ Empty(node') \subseteq Empty(node)
    BY <1>1, <2>2, <2>3 DEF Empty
  <2>5. Set!Remove(p)
    BY <1>4, <2>3, <2>4 DEF Deactivate, Set!Remove
  <2> QED
    BY <2>3, <2>4, <2>5 DEF Kept, PriceIndexInv, Set!Next
<1>5. CASE reset
  <2>1. Trie(node') /\ Active' = {} /\ Empty(node') = {} /\ ret' = "done"
    BY <1>1, <1>5, NoTrie DEF reset
  <2>2. Set!Reset
    BY <2>1 DEF Set!Reset
  <2> QED
    BY <2>1, <2>2 DEF Kept, PriceIndexInv, Set!Next
<1>6. CASE UNCHANGED vars
  <2>1. node' = node /\ ret' = ret /\ Active' = Active
    BY <1>1, <1>6 DEF vars
  <2> QED
    BY <2>1 DEF Kept, PriceIndexInv, Set!vars
<1> QED
  BY <1>3, <1>4, <1>5, <1>6 DEF Next

LEMMA Invariance == Spec => []PriceIndexInv
<1>1. PriceIndexInv /\ [Next]_vars => PriceIndexInv'
  BY Steps DEF Kept
<1> QED
  BY <1>1, InitInv, PTL DEF Spec

-----------------------------------------------------------------------------
(* The theorems.                                                           *)

\* The allocated nodes are a tree of at most three bytes below its root, and
\* masks hold bytes.
THEOREM Typing == Spec => []TypeOK
<1>1. PriceIndexInv => TypeOK
  <2> SUFFICES ASSUME PriceIndexInv
               PROVE  TypeOK
    OBVIOUS
  <2>1. Nodes(node) /\ ret \in {"done", "throw"}
    BY DEF PriceIndexInv, Trie
  <2>2. \A x \in DOMAIN node :
          /\ Len(x) < Tiers /\ x \in Seq(0..Radix-1) /\ node[x] \subseteq 0..Radix-1
          /\ x # <<>> => Front(x) \in DOMAIN node
    BY <2>1 DEF Nodes, Names, Byte
  <2> QED
    BY <2>1, <2>2 DEF TypeOK, Nodes
<1> QED
  BY <1>1, Invariance, PTL

\* The descent of find() (order_book.cpp:149-164) dereferences no null child
\* and takes the lowest bit of no empty mask, whatever failed allocations
\* have left of a path and whatever remove() has collapsed.
THEOREM Leading == Spec => []BitsLeadToPrices
<1>1. PriceIndexInv => BitsLeadToPrices
  <2> SUFFICES ASSUME PriceIndexInv, NEW x \in DOMAIN node, NEW b \in node[x]
               PROVE  \E p \in Active : IsPrefix(Append(x, b), bytes(p))
    BY DEF BitsLeadToPrices
  <2>1. Nodes(node) /\ Leads(node)
    BY DEF PriceIndexInv, Trie
  <2>2. x \in Names /\ b \in Byte
    BY <2>1 DEF Nodes
  <2>3. PICK p \in ActiveIn(node) : On(x, p) /\ bytes(p)[Len(x) + 1] = b
    BY <2>1 DEF Leads
  <2>4. p \in Price /\ p \in Active
    BY DEF ActiveIn, Active
  <2> QED
    BY <2>2, <2>3, <2>4, PrefixBit
<1> QED
  BY <1>1, Invariance, PTL

\* minimum() and maximum() are the least and the greatest active price:
\* byte by byte is price by price.
THEOREM Extremes == Spec => []FindsExtremes
<1>1. PriceIndexInv => FindsExtremes
  <2> SUFFICES ASSUME PriceIndexInv
               PROVE  FindsExtremes
    OBVIOUS
  <2>1. Trie(node) /\ Active = ActiveIn(node)
    BY DEF PriceIndexInv, Active, ActiveIn
  <2>2. \A q \in Active : q \in Int
    BY PriceAssumption DEF Active
  <2>3. CASE Active = {}
    <3>1. node[<<>>] = {}
      BY <2>1, <2>3 DEF Trie, Nodes, Leads
    <3> QED
      BY <2>3, <3>1 DEF FindsExtremes, minimum, maximum, find
  <2>4. CASE Active # {}
    <3>1. minimum = {Min(Active)}
      <4>1. PICK p \in Active : minimum = {p} /\ \A q \in Active : Foremost(p, q, FALSE)
        BY <2>1, <2>4, FoundIs DEF minimum
      <4>2. \A q \in Active : p <= q
        BY <4>1 DEF Foremost
      <4>3. Min(Active) \in Active /\ \A q \in Active : Min(Active) <= q
        BY <4>2 DEF Min
      <4>4. Min(Active) = p
        BY <2>2, <4>2, <4>3
      <4> QED
        BY <4>1, <4>4
    <3>2. maximum = {Max(Active)}
      <4>1. PICK p \in Active : maximum = {p} /\ \A q \in Active : Foremost(p, q, TRUE)
        BY <2>1, <2>4, FoundIs DEF maximum
      <4>2. \A q \in Active : p >= q
        BY <2>2, <4>1 DEF Foremost
      <4>3. Max(Active) \in Active /\ \A q \in Active : Max(Active) >= q
        BY <4>2 DEF Max
      <4>4. Max(Active) = p
        BY <2>2, <4>2, <4>3
      <4> QED
        BY <4>1, <4>4
    <3> QED
      BY <2>4, <3>1, <3>2 DEF FindsExtremes
  <2> QED
    BY <2>3, <2>4
<1> QED
  BY <1>1, Invariance, PTL

\* remove() frees each node that it empties, at whichever tier it stops, and
\* a successful add leaves none of its new nodes empty.
THEOREM Freeing == Spec => EmptiedNodesAreFreed
<1>1. Kept => [ret' # "throw" => EmptyNodes' \subseteq EmptyNodes]_vars
  <2>1. EmptyNodes = Empty(node) /\ EmptyNodes' = Empty(node')
    BY DEF EmptyNodes, Empty
  <2> QED
    BY <2>1 DEF Kept
<1> QED
  BY <1>1, Invariance, Steps, PTL DEF Spec, EmptiedNodesAreFreed

\* The trie implements the set of prices: no add, failed add, remove or reset
\* makes another price appear or disappear.
THEOREM Implementing == Spec => ImplementsPriceSet
<1>1. Kept => [Set!Next]_(Set!vars)
  BY DEF Kept
<1> QED
  BY <1>1, InitInv, Invariance, Steps, PTL DEF Spec, ImplementsPriceSet, Set!Spec

=============================================================================
