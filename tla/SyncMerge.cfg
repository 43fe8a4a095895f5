SPECIFICATION Spec
CONSTANTS
  Devices = {d1, d2}
  Uris = {u1}
  MaxTime = 5
  MaxFailures = 1
  MaxOnce = 1
SYMMETRY Symmetry
CONSTRAINT Telling
INVARIANTS
  TypeOK
  MetaDescribesFiles
  SyncedAgrees
  LatestEditSurvives
PROPERTY
  DeletedStaysDeleted
CHECK_DEADLOCK FALSE
