CONSTANTS
  Producers = {p1, p2}
  Consumers = {c1}
  Nodes = {n1, n2}
  Values = {v1}
  First = v0
  DUMMY = DUMMY
  HEAD = HEAD
  NULL = NULL
  Length = 1
  SizeMod = 8
SPECIFICATION Spec
INVARIANT TailLive
