SPECIFICATION Spec
CONSTANTS
  NumChips = 2
  FifoDepth = 4
  Unreliable = {}
  MaxFaults = 0
  MaxExhausted = 1
  MaxEnables = 1
INVARIANTS
  EnableHolds
CHECK_DEADLOCK FALSE
