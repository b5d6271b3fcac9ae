CONSTANTS
  Threads = {t1, t2}
  Nodes = {n1, n2}
  NULL = NULL
  SyncMod = 5
SPECIFICATION FairSpec
INVARIANTS Exclusive Linked FreshSnapshot
PROPERTIES ImplementsAtomicStack LockFree
