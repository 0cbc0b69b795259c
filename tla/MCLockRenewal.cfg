CONSTANTS
  Settings <- MCSettings
  Cap = 7
  MarginCap = 4
  MaxLate = 1
  MaxOrphans = 1
CHECK_DEADLOCK FALSE
SPECIFICATION Spec
INVARIANTS
  TypeOK
  BlindBounded
  TwoHandlersBounded
PROPERTIES
  SpareSingleFailure
