SPECIFICATION FairSpec
CONSTANTS
  Reqs = {q}
  Nothing = Nothing
  Units = 3
  MaxPages = 2
INVARIANTS TypeOK ResponseIsWhole LeavesNothingBehind
PROPERTIES PageIsTold
CHECK_DEADLOCK FALSE
