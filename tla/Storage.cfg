SPECIFICATION MCSpec
CONSTANTS
  Pages = {1, 2, 3}
  Changing = {1}
  Values = {v0, v1}
  Blank = v0
  Capacity = 2
  MaxGen = 1
  MaxPins = 1
  MaxFaults = 1
  MaxRing = 3
  None = None
  t1 = t1
  t2 = t2
INVARIANTS
  PoolKeepsWrites
  HeapServes
  TreesServe
PROPERTIES
  GuardKeepsFrame
  RefusedOnlyWhenPinned
  SweepEnds
CHECK_DEADLOCK FALSE
