SPECIFICATION FairSpec
CONSTANTS
  HCs <- OneHC
  Names <- TwoNames
  NoName = NoName
  NameOf <- FirstName
  AnnosOf <- EitherAnno
  Remote = FALSE
  DiscoveredName <- Prefixed
  PrefixedName <- Prefixed
  Versions = {1, 2}
  Changes = {"create", "unavailable", "password", "annotate", "rotate", "delete", "import", "detach", "callFails", "restart"}
  MaxChanges = 3
  a = a
  b = b
INVARIANTS TypeOK SettledMirrors SettledOwners SettledGone
PROPERTY EventuallyExternal
CHECK_DEADLOCK FALSE
