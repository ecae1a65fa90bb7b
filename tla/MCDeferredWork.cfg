CONSTANTS
  Explored <- MCExplored
  Writers = {w1, w2}
  Values <- MCValues
  MaxTrig = 4
SPECIFICATION FairSpec
INVARIANTS
  TypeOK
  FaultsKnown
  LastWriteListed
  ExitFreesList
PROPERTIES
  ExitEnds
  KeepsTicking
CHECK_DEADLOCK FALSE
