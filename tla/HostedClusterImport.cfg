SPECIFICATION FairSpec
CONSTANTS
  HCs = {h1}
  NoJob = NoJob
  Urls = {1, 2}
  MaxVersion = 3
  Changes = {"unavailable", "version", "url", "touch", "delete", "acm", "import", "detach", "dc", "callFails", "restart"}
  MaxChanges = 3
INVARIANTS TypeOK SettledDiscovered
PROPERTIES EventuallyImported
CHECK_DEADLOCK FALSE
