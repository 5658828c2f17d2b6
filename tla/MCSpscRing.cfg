SPECIFICATION Spec
CONSTANTS
  Capacity = 2
  Modulus = 4
  MaxItems = 6
INVARIANTS
  TypeOK
  RaceFree
  SizeNeverUnderflows
  NoObjectLeaked
PROPERTIES
  ImplementsBoundedQueue
CHECK_DEADLOCK FALSE
