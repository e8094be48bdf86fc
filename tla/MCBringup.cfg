SPECIFICATION Spec
CONSTANTS
  MaxChips = 3
  Cores = 2
  Faults = {"lost", "late"}
  MaxRounds = 2
INVARIANTS TypeOK JobsReady SharesPartition CoresMatch NoCrash VerdictSound CheckedCores
CHECK_DEADLOCK FALSE
