\* Two chips; FIFO depth, ring and vector count are those of the source.
CONSTANTS
  NumChips = 2
  NumVectors = 7
  FifoDepth = 4
  RingSize = 7
  OonPeriod = 2
  GnSlack = 3
  Unreliable = {"RUN_JOB", "READ_HASH", "READ_RESULT"}
  MaxFaults = 1
  NoNonce = NoNonce

SPECIFICATION FairSpec
INVARIANTS TypeOK NonceBelongsToWork
PROPERTIES NoWorkDropped KeepsMining
