SPECIFICATION Spec
CONSTANTS
  NumChips = 2
  FifoDepth = 2
  IdRange = 5
  Works = {1, 4}
  Unreliable = {"READ_JOB_ID", "READ_RESULT", "READ_ID", "CLEAR_OON", "RUN_JOB"}
  MaxFaults = 2
INVARIANTS TypeOK NoJobDropped AllDone VerdictSound
PROPERTIES Ends KeepsMining
CHECK_DEADLOCK FALSE
