SPECIFICATION FairSpec
CONSTANTS
  Reqs = {q}
  Nothing = Nothing
  Units = 3
  MaxPages = 2
INVARIANTS TextIsWhole
CHECK_DEADLOCK FALSE
