SPECIFICATION FairSpec
CONSTANTS
  Minors = {8, 9, 10}
  NoImage = {8}
  Pinned = pinned
  MaxTries = 2
  MaxChanges = 3
  None = None
INVARIANTS TypeOK SettledDownload
PROPERTIES EventuallyUninstalled
CHECK_DEADLOCK FALSE
