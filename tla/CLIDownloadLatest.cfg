SPECIFICATION Spec
CONSTANTS
  Minors = {9, 10}
  NoImage = {}
  Pinned = pinned
  MaxTries = 1
  MaxChanges = 1
  None = None
INVARIANT LatestVersion
CHECK_DEADLOCK FALSE
