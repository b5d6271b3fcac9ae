CONSTANTS
  Producers = {p1, p2}
  Consumers = {c1, c2}
  Nodes = {n1, n2, n3, n4}
  Values = {v1}
  First = v0
  DUMMY = DUMMY
  HEAD = HEAD
  NULL = NULL
  Length = 1
  SizeMod = 8
SPECIFICATION FairSpec
INVARIANTS NoUseAfterFree Linked SizeAccounts QueueBound AllPoped
PROPERTIES ImplementsFifo Drained
