SPECIFICATION NonceSpec
CONSTANTS
  Modulus = 12
  MaxChips = 3
  MaxCores = 3
INVARIANTS
  NonceTypeOK
  Partition
\* the function returns or crashes
CHECK_DEADLOCK FALSE
