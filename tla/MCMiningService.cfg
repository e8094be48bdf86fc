SPECIFICATION FairSpec
CONSTANTS
  MaxServices = 2
  Unreliable = {"create_monitor", "create_worker", "InitializeMiningkLoop", "submit_nonce"}
  MaxFaults = 1
INVARIANTS
  TypeOK
  FreeAfterJoin
  OneMiner
  LogOpen
PROPERTIES
  HotStops
  StopReturns
\* the program may crash
CHECK_DEADLOCK FALSE
