CONSTANTS
  Explored <- MCExplored
  MaxOpen = 2
SPECIFICATION Spec
INVARIANTS
  TypeOK
  ExitCleansUp
  FailedInitResidue
  WildReleasesKnown
  GoneUnderOpenFile
CHECK_DEADLOCK FALSE
