SPECIFICATION FairSpec
CONSTANTS
  HCs = {h1, h2, h3}
  Startup = startup
  MaxConcurrentReconciles = 2
  MaxScore = 2
  EnvMax = 3
  EnvThreshold = 2
  NotANumber = notANumber
  Changes = {"create", "delete", "touch", "crd", "callFails", "listFails", "restart"}
  MaxChanges = 3
INVARIANTS TypeOK SoloSyncRepairs SettledScore
PROPERTIES Drains
CHECK_DEADLOCK FALSE
