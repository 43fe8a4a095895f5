SPECIFICATION Spec
CONSTANTS
  a1 = a1
  a2 = a2
  b1 = b1
  a = a
  b = b
  MaxId = 3
  Codes = {a1, a2, b1}
  Names = {a, b}
  NameOf <- MCNameOf
  Calls = {p1, p2}
  Nothing = Nothing
  MaxOps = 6
INVARIANTS TypeOK NamesAreUnique RestartFindsTheSame
CHECK_DEADLOCK FALSE
