SPECIFICATION Spec
CONSTANTS
  NumChips = 2
  FifoDepth = 4
  Unreliable = {}
  MaxFaults = 0
  MaxExhausted = 2
  MaxEnables = 2
INVARIANTS
  TypeOK
  CountedOnce
  NotStarved
PROPERTIES
  NoJobLost
\* the session ends with stop
CHECK_DEADLOCK FALSE
