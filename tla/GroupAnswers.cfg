SPECIFICATION MCSpec
CONSTANTS
  w1 = w1
  w2 = w2
  x = x
  y = y
  Y = Y
  Writes = {w1, w2}
  Names = {a, b}
  Literals = {x, y, Y}
  LiteralOf <- MCLiteralOf
  Lower <- MCLower
  Threshold = 2
  GroupCommit = TRUE
  MaxFaults = 1
  Absent = Absent
  P = P
  C = C
  r1 = r1
  r2 = r2
  r3 = r3
  Null = Null
  k1 = k1
  k2 = k2
  p = p
  c = c
  ix = ix
  None = None
INVARIANTS
  DeniedNeverShows
CHECK_DEADLOCK FALSE
