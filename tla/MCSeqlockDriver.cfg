CONSTANTS
  SeqHalf = 2
  Modulus = 4
SPECIFICATION FairSpec
INVARIANTS
  TypeOK
  ParityFollowsTear
PROPERTIES
  AcceptsCommitted
  StopEndsUnlessTorn
  TornBlocksRmmod
CHECK_DEADLOCK FALSE
