CONSTANTS
  NULL = NULL
  W = 3
  Expiry = 7
  Limit = 2
  MaxDelay = 1
  Calls = {a, b}
  MaxCount = 4
  MaxTime = 8
SPECIFICATION Spec
INVARIANTS
  TypeOK
  WithinLimit
  PromiseKept
  ObedientIsServed
CHECK_DEADLOCK FALSE
