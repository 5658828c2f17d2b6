SPECIFICATION Spec
CONSTANTS
  kSignificantBits = 2
  kBucketCount = 6
  Value <- RankValue
  MaxRecorded <- RankMaxRecorded
  Percentile <- MCPercentile
  Exceeding <- MCExceeding
INVARIANT
  NearestRankOfSummary
