SPECIFICATION FairSpec
CONSTANTS
  Capacity = 2
  FailOnReject = TRUE
  MaxFrames = 5
INVARIANTS
  TypeOK
  RingBounded
PROPERTIES
  ImplementsSequentialReplay
  Exits
CHECK_DEADLOCK FALSE
