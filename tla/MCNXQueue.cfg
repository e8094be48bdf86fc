SPECIFICATION Spec
CONSTANTS
  Threads = {t1, t2}
  Elements = {a, b, c}
  MaxElement = 3
  Sizes = {0, 1, 3, 4}
INVARIANTS
  TypeOK
PROPERTIES
  ImplementsFifo
  LockReleased
