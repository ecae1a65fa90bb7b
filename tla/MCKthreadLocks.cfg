CONSTANTS
  N = 2
  Modulus = 4
  Drivers <- MCDrivers
SPECIFICATION FairSpec
INVARIANTS
  TypeOK
  MutualExclusion
  PrintsCurrentValue
  BitFollowsCounter
PROPERTIES
  ImplementsCounter
  StopEnds
CHECK_DEADLOCK FALSE
