SPECIFICATION Spec
CONSTANTS
  Keys = {k1}
  SystemKeys = {}
  Values = {a, b}
  NoLabel = none
  HCs = {1, 2}
  Matches = {"anno", "name", "other"}
  MayRematch = FALSE
  MaxEdits = 4
INVARIANTS TypeOK SettledFollowsHC SettledHubFollowsHC SettledFollowsHub AgentLabelsTracked
PROPERTIES LocalLabelsKeptUnlessRaced
SYMMETRY ValueSymmetry
CHECK_DEADLOCK FALSE
