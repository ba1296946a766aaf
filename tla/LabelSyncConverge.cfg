SPECIFICATION FairSpec
CONSTANTS
  Keys = {k1, k2}
  SystemKeys = {k2}
  Values = {a, b}
  NoLabel = none
  HCs = {1}
  Matches = {"anno", "infra"}
  MayRematch = TRUE
  MaxEdits = 2
PROPERTIES Converges
CHECK_DEADLOCK FALSE
