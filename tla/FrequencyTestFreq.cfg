SPECIFICATION Spec
CONSTANTS
  NumChips = 2
  FifoDepth = 2
  Golden = {2}
  Freqs = {24}
  Unknown = 0
  Unreliable = {}
  MaxFaults = 0
INVARIANTS
  FreqSet
CHECK_DEADLOCK FALSE
