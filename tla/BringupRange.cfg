SPECIFICATION Spec
CONSTANTS
  MaxChips = 2
  Cores = 2
  Faults = {}
  MaxRounds = 1
INVARIANT ShortRange
CHECK_DEADLOCK FALSE
