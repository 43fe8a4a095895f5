SPECIFICATION Spec
CONSTANTS
  s = s
  t = t
  x = x
  y = y
  a = a
  top = top
  sub = sub
  Ids = {s, t}
  Cells <- MCCells
  Vals = {a}
  None = None
  Frames = {top, sub}
  TabOf <- MCTabOf
  TopFrames = {top}
  PageIds <- MCPageIds
  Imports <- MCImports
  MaxChanges = 2
  MaxPages = 2
PROPERTY EmptyStoresAreTracked
CHECK_DEADLOCK FALSE
