CONSTANTS
  Clients = {c1, c2}
  Workers = {w1, w2}
  Threads = {c1, c2, w1, w2}
  Stacks = {"producer", "consumer"}
  Holders = {1, 2, 3}
  Resources = {11, 12}
  Own = {o1}
  PoolSize = 1
  NULL = NULL
SPECIFICATION FairSpec
CONSTRAINT InOrder
INVARIANTS OnePlace HoldersKept LossBound RefusedOnlyWhenExtended
PROPERTIES StopJoins
