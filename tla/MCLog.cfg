SPECIFICATION FairSpec
CONSTANTS
  Threads = {t1, t2}
  File = {f, g}
  Level = {0, 1}
  NULL = NULL
  MaxCallbacks = 2
INVARIANTS TypeOK WholeLines DeliveredInOrder
PROPERTIES LockIsReleased
