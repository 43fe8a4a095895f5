SPECIFICATION Spec
CONSTANTS
  t1 = t1
  t2 = t2
  Pages <- TabWithFrame
  Preps = {b1, b2}
  Calls = {c1, c2}
  None = None
  MaxActs = 4
INVARIANT SkippedPagesRunNothing
CHECK_DEADLOCK FALSE
