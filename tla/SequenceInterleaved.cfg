SPECIFICATION Spec
CONSTANTS
  Request <- Mixed
  ReplayLimit = 2
  MaxSends = 5
CHECK_DEADLOCK FALSE
INVARIANTS
  EachNumberOnce
