SPECIFICATION Spec
CONSTANTS
  kSignificantBits = 2
  kBucketCount = 6
  Value <- MCValue
  MaxRecorded <- MCMaxRecorded
  Percentile <- MCPercentile
  Exceeding <- MCExceeding
INVARIANTS
  TypeOK
  ReportsExact
  NearestRank
