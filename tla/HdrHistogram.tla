---------------------------- MODULE HdrHistogram ----------------------------
(***************************************************************************)
(* The latency histogram (src/metrics/latency.cpp): a fixed array of bins, *)
(* whose widths double with every power of two above the range that is     *)
(* kept exactly.  kSignificantBits is 10 and kBucketCount is 64 in the     *)
(* code; both are small here.                                              *)
(***************************************************************************)
EXTENDS Integers, FiniteSets, FiniteSetsExt, Functions

CONSTANTS
  kSignificantBits,
  kBucketCount,      \* the width of a value in bits
  Value,             \* the durations recorded
  MaxRecorded,       \* bound: how often each of them is, between two resets
  Percentile,        \* percentiles asked for, in tenths, those out of range included
  Exceeding          \* the tenths that exceed as a binary number (see Exceeds)

\* 1 << n.
PowerOf2[n \in Nat] == IF n = 0 THEN 1 ELSE 2 * PowerOf2[n - 1]

ASSUME HistogramAssumption ==
  /\ kSignificantBits \in Nat /\ kBucketCount \in Nat /\ kSignificantBits < kBucketCount
  /\ Value \subseteq 0 .. PowerOf2[kBucketCount] - 1
  /\ MaxRecorded \in [Value -> Nat]
  /\ Percentile \subseteq Int
  \* a double holds the multiples of a half exactly
  /\ Exceeding \subseteq {p \in 1..999 : p % 5 # 0}

VARIABLES
  counts, count, min, max,  \* the members of the class
  recorded                  \* history: how often each value was recorded since the reset

vars == <<counts, count, min, max, recorded>>

kSubBucketCount == PowerOf2[kSignificantBits + 1]
kSubBucketHalfCount == kSubBucketCount \div 2
kBinCount == kSubBucketCount + (kBucketCount - (kSignificantBits + 1)) * kSubBucketHalfCount

-----------------------------------------------------------------------------
(* Bins.                                                                   *)

\* std::bit_width(value) - 1.
exponent(value) ==
  IF value = 0 THEN 0
  ELSE CHOOSE e \in 0..kBucketCount-1 : PowerOf2[e] <= value /\ value < PowerOf2[e + 1]

\* Forgets that only the upper half of a larger bucket is kept.
compact_whole(e, sub_bucket) ==
  kSubBucketCount + (e - (kSignificantBits + 1)) * kSubBucketHalfCount + sub_bucket

compact(e, sub_bucket) ==
  kSubBucketCount + (e - (kSignificantBits + 1)) * kSubBucketHalfCount
    + (sub_bucket - kSubBucketHalfCount)

index_for(value) ==
  LET e == exponent(value)
  IN IF e <= kSignificantBits THEN value
     ELSE compact(e, value \div PowerOf2[e - kSignificantBits])

value_for_index(index) ==
  IF index < kSubBucketCount THEN index
  ELSE LET compact_index == index - kSubBucketCount
           e == kSignificantBits + 1 + (compact_index \div kSubBucketHalfCount)
           sub_bucket == kSubBucketHalfCount + (compact_index % kSubBucketHalfCount)
       IN sub_bucket * PowerOf2[e - kSignificantBits]

-----------------------------------------------------------------------------

Init ==
  /\ counts = [i \in 0..kBinCount-1 |-> 0] /\ count = 0 /\ min = 0 /\ max = 0
  /\ recorded = [v \in Value |-> 0]

\* Takes the zero that reset() leaves for a minimum.
IsMinimum_eager(value) == value < min

\* count_ has been incremented.
IsMinimum(value) == count + 1 = 1 \/ value < min

record(value) ==
  /\ recorded[value] < MaxRecorded[value]
  /\ counts' = [counts EXCEPT ![index_for(value)] = @ + 1]
  /\ count' = count + 1
  /\ min' = IF IsMinimum(value) THEN value ELSE min
  /\ max' = IF value > max THEN value ELSE max
  /\ recorded' = [recorded EXCEPT ![value] = @ + 1]

reset ==
  /\ counts' = [i \in 0..kBinCount-1 |-> 0] /\ count' = 0 /\ min' = 0 /\ max' = 0
  /\ recorded' = [v \in Value |-> 0]

Next == reset \/ \E value \in Value : record(value)

Spec == Init /\ [][Next]_vars

-----------------------------------------------------------------------------
(* Queries.                                                                *)

\* std::clamp(percentile, 0.0, 100.0)
clamp(percentile) ==
  CASE percentile < 0 -> 0 [] percentile > 1000 -> 1000 [] OTHER -> percentile

\* The double nearest to the percentile is greater than it, as it is for 99.9 and
\* 0.1 and not for 0.3, and the product with count_ keeps the excess, as it does
\* where long double is wider than double.
Exceeds(percentile) == percentile \in Exceeding

\* The integer part of `scaled'.
Truncated(percentile) == (percentile * count) \div 1000

\* Rounds to the nearest rank instead of up.
IsFractional_by_half(percentile) == (percentile * count) % 1000 >= 500

\* static_cast<long double>(rank) < scaled
IsFractional(percentile) == (percentile * count) % 1000 # 0 \/ Exceeds(percentile)

Rank(percentile) ==
  IF count = 0 THEN 0
  ELSE LET rank == IF IsFractional(percentile) THEN Truncated(percentile) + 1
                                               ELSE Truncated(percentile)
       IN IF rank = 0 THEN 1 ELSE rank

\* observed, after the bins up to the given one.
Observed(index) == SumFunctionOnSet(counts, 0..index)

value_at_percentile(percentile) ==
  LET reaching == {i \in 0..kBinCount-1 : Observed(i) >= Rank(clamp(percentile))}
  IN CASE count = 0 -> 0
       [] count # 0 /\ reaching # {} -> value_for_index(Min(reaching))
       [] OTHER -> max

summary ==
  [count |-> count,
   min_ns |-> IF count = 0 THEN 0 ELSE min,
   max_ns |-> IF count = 0 THEN 0 ELSE max,
   p50_ns |-> value_at_percentile(500),
   p99_ns |-> value_at_percentile(990),
   p999_ns |-> value_at_percentile(999)]

-----------------------------------------------------------------------------
(* Properties.                                                             *)

\* The members are numbers, and there is a bin for every value.
TypeOK ==
  /\ counts \in [0..kBinCount-1 -> Nat] /\ count \in Nat
  /\ min \in Nat /\ max \in Nat
  /\ \A v \in 0 .. PowerOf2[kBucketCount] - 1 : index_for(v) \in DOMAIN counts

AtMost(v) == SumFunctionOnSet(recorded, {w \in Value : w <= v})

Recorded == {v \in Value : recorded[v] > 0}

\* The value that is the rank-th when all values recorded are sorted.
Nth(rank) == Min({v \in Recorded : AtMost(v) >= rank})

\* Count, minimum and maximum are exact, also after a reset and for zero
\* durations, and no value is counted in a bin that is not its own.
ReportsExact ==
  /\ summary.count = SumFunctionOnSet(recorded, Value)
  /\ <<summary.min_ns, summary.max_ns>> =
       IF Recorded = {} THEN <<0, 0>> ELSE <<Min(Recorded), Max(Recorded)>>
  /\ \A i \in DOMAIN counts :
       counts[i] = SumFunctionOnSet(recorded, {v \in Value : index_for(v) = i})

\* "the reported percentile is the lower bound of an equivalent range.  The
\* range width is at most value / 1024" (latency.hpp:22-23).
Represents(reported, value) ==
  reported <= value /\ (value - reported) * PowerOf2[kSignificantBits] <= value

CeilingRank(percentile) == -((-(clamp(percentile) * count)) \div 1000)

\* The value reported for a percentile is that of the nearest rank, or of one
\* so many ranks above it.
IsOfRank(reported, percentile, above) ==
  LET rank == Max({1, CeilingRank(percentile)}) + above
  IN rank <= count /\ Represents(reported, Nth(rank))

\* The percentiles of a non-empty histogram are values of the nearest rank, to
\* the precision promised, whatever else shares their bins, and percentiles out
\* of range are clamped (latency.hpp:51-52).  One whose double exceeds it may be
\* of the next rank, where its own rank is a whole number.
NearestRank ==
  count # 0 =>
    \A p \in Percentile :
      LET reported == value_at_percentile(p)
      IN \/ IsOfRank(reported, p, 0)
         \/ Exceeds(p) /\ (p * count) % 1000 = 0 /\ IsOfRank(reported, p, 1)

\* The 99.9th percentile of summary() is of the nearest rank too: "nearest-rank
\* semantics: ceil(p * count / 100)" (latency.hpp:52).
NearestRankOfSummary == count # 0 => IsOfRank(summary.p999_ns, 999, 0)
=============================================================================
