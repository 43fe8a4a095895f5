SPECIFICATION FairUndoSpec
CONSTANTS
  ValueKeys = {v1, v2}
  PlainKeys = {p}
  Vals = {a}
  Absent = Absent
  Nothing = Nothing
  Batches = {{v1, p}, {v2}}
  Readers = {r1}
  Resting = {r1}
  Flushes = {f1, f2}
  MaxWrites = 2
  MaxFailures = 1
INVARIANTS UndoRestores ReadsAreCurrent WritesSettle FlushIsScheduled
PROPERTIES QueueDrains
CHECK_DEADLOCK FALSE
