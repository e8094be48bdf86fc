SPECIFICATION FairSpec
CONSTANTS
  NumChips = 2
  FifoDepth = 4
  Unreliable = {"INIT", "READ_RESULT", "CLEAR_OON", "RUN_JOB"}
  MaxFaults = 1
  MaxExhausted = 1
  MaxEnables = 1
PROPERTIES
  StopReturns
\* the session ends with stop
CHECK_DEADLOCK FALSE
