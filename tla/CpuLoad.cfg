CONSTANTS
  Threads = {m, r1, r2}
  Main = m
  Objects = {o1, o2}
  Outside = {b}
  Samplers = {s1, s2}
  MaxStarts = 2
  NULL = NULL
SPECIFICATION FairSpec
INVARIANT OneInstance
PROPERTY StopEnds
