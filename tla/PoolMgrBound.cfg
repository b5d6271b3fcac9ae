CONSTANTS
  Clients = {c1, c2}
  Workers = {w1}
  Threads = {c1, c2, w1}
  Stacks = {"producer", "consumer"}
  Holders = {h1, h2, h3}
  Resources = {e1, e2}
  Own = {}
  PoolSize = 1
  NULL = NULL
SPECIFICATION Spec
INVARIANT MemoryBound
