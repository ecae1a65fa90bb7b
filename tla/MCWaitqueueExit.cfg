CONSTANTS
  Readers = {r1, r2}
  MaxReads = 3
  Methods <- MCStatic
SPECIFICATION FairSpec
PROPERTIES
  ExitEndsThread
CHECK_DEADLOCK FALSE
