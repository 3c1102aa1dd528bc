SPECIFICATION FairSpec
CONSTANTS
  Pages = {1, 2, 3}
  Changing = {}
  Values = {v0}
  Blank = v0
  Capacity = 2
  MaxGen = 1
  MaxPins = 1
  MaxFaults = 0
  MaxRing = 2
  None = None
PROPERTIES
  SearchEnds
CHECK_DEADLOCK FALSE
