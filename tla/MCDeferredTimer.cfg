CONSTANTS
  Explored <- MCTimer
  Writers = {w1}
  Values <- MCValues
  MaxTrig = 0
SPECIFICATION Spec
INVARIANTS
  TimerRemoved
CHECK_DEADLOCK FALSE
