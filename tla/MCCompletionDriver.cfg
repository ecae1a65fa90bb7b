CONSTANTS
  Readers = {r1, r2}
  MaxReads = 3
  Methods <- MCMethods
SPECIFICATION FairSpec
INVARIANTS
  TypeOK
  NoReadForgotten
  AnnouncesReads
PROPERTIES
  ExitSeenOutsideWindow
CHECK_DEADLOCK FALSE
