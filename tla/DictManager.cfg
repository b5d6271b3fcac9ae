CONSTANTS
  Dicts = {d1, d2}
  Readers = {r1}
  Rewritten = {d1}
  MaxGen = 2
  Times = {1, 2, 3}
  NULL = NULL
SPECIFICATION FairSpec
INVARIANTS ReadersSafe Owned
PROPERTIES NeverBack UpdateServed
CHECK_DEADLOCK FALSE
