CONSTANTS
  Readers = {r1, r2}
  MaxReads = 3
  Methods <- MCMethods
SPECIFICATION FairSpec
INVARIANTS
  TypeOK
  NoLostWakeup
  CountsOnlyReads
PROPERTIES
  ReadIsNoticed
  ExitSeenOutsideWindow
CHECK_DEADLOCK FALSE
