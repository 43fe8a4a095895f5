SPECIFICATION FairSpec
CONSTANTS
  t1 = t1
  t2 = t2
  Pages <- TwoTabs
  Preps = {b1, b2}
  Calls = {c1, c2}
  None = None
  MaxActs = 3
INVARIANTS TypeOK ChangesReachTheCache
PROPERTIES StrictPagesAreForced CallsEnd
CHECK_DEADLOCK FALSE
