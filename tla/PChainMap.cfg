CONSTANTS
  Threads = {t1, t2}
  BufLen = 2
  Used = {0, 1}
  Keys = {1, 2, 4}
  Values = {v1, v2}
  NULL = NULL
SPECIFICATION Spec
INVARIANTS EntryValid OneEntryPerKey
PROPERTIES ImplementsAtomicMap ImplementsLockSpec
