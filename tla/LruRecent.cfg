CONSTANTS
  Items <- MCItems
  Values <- MCValues
  Overwrites = {TRUE}
  Capacity = 4
  MaxProbing = 3
  NULL = NULL
SPECIFICATION RecentSpec
INVARIANT KeepsRecent
