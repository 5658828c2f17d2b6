--------------------------- MODULE MCHdrHistogram ---------------------------
EXTENDS HdrHistogram

\* Zero, the end of the exact range, both ends of a bin, the first of wider bins,
\* and the largest value.
MCValue == {0, 7, 8, 9, 16, 63}

\* Up to a thousand and three, where 0.1, 0.3 and 99.9 of a thousand are whole
\* ranks, and the values at the first and the last rank may be alone.
MCMaxRecorded == [v \in MCValue |-> IF v = 9 THEN 998 ELSE 1]

MCPercentile == {-10, 0, 1, 3, 250, 500, 990, 999, 1000, 1010}

\* The nearest double is 0.1000000000000000055, 0.2999999999999999889,
\* 99.900000000000005684; the others are exact.
MCExceeding == {1, 999}

\* A thousand durations, the last of them long.
RankValue == {0, 63}

RankMaxRecorded == [v \in RankValue |-> IF v = 0 THEN 999 ELSE 1]
=============================================================================
