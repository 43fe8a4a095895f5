SPECIFICATION FairRegistrySpec
CONSTANTS
  Ids = {i1, i2}
  TabIds = {t1}
  Causes = {"load", "installed", "startup"}
  MaxRestarts = 1
  MaxFailures = 1
INVARIANTS RegistryTypeOK NewOnesSurviveStartup BridgeIsCurrent
PROPERTIES OneShotsEnd
CHECK_DEADLOCK FALSE
