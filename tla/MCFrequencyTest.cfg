SPECIFICATION Spec
CONSTANTS
  NumChips = 2
  FifoDepth = 2
  Golden = {2}
  Freqs = {24}
  Unknown = 0
  Unreliable = {"READ_RESULT"}
  MaxFaults = 1
INVARIANTS
  TypeOK
  NoJobDropped
  LockKeepsBuffers
PROPERTIES
  KeepsMining
  StopReturns
CHECK_DEADLOCK FALSE
