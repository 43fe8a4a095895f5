SPECIFICATION FairSpec
CONSTANTS
  Services = {drive, dav}
  Password = {dav}
  None = None
  Calls = {p1, p2}
INVARIANTS TypeOK BusyStatusHasOwner SyncRunsAlone SyncIsAuthorized RevokeSticks NextSyncIsScheduled
PROPERTIES StatusSettles
CHECK_DEADLOCK FALSE
