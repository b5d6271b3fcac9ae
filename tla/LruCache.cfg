CONSTANTS
  Items <- MCItems
  Values <- MCValues
  Overwrites = {TRUE, FALSE}
  Capacity = 4
  MaxProbing = 3
  NULL = NULL
SPECIFICATION Spec
INVARIANTS Ring Coupled Fresh
PROPERTIES ImplementsLruList
