CONSTANTS
  Threads = {t1, t2, t3}
  BufLen = 9
  Used = {0, 7, 8}
SPECIFICATION FairLockSpec
INVARIANTS LockTypeOK MutualExclusion BitIffOwned NoForeignUnlock
PROPERTIES LockProgress
