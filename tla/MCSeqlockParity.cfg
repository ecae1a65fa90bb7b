CONSTANTS
  SeqHalf = 2
  Modulus = 4
SPECIFICATION Spec
INVARIANTS
  ParityMeansWriting
CHECK_DEADLOCK FALSE
