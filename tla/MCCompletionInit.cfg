CONSTANTS
  Readers = {r1, r2}
  MaxReads = 3
  Methods <- MCMethods
SPECIFICATION Spec
INVARIANTS
  WaitsOnInitialised
CHECK_DEADLOCK FALSE
