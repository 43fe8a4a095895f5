SPECIFICATION FairSpec
CONSTANTS
  c1 = c1
  c2 = c2
  c3 = c3
  c4 = c4
  c5 = c5
  k1 = k1
  k2 = k2
  k3 = k3
  Calls <- MCCalls
  Keys <- MCKeys
  KeyOf <- MCKeyOf
  None = None
  Max = 2
  DiffKeyDelay = 1
  SameKeyDelay = 2
INVARIANT TypeOK
PROPERTIES ServesInOrder SameKeyIsSpaced EveryCallEnds
CHECK_DEADLOCK FALSE
