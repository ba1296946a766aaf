SPECIFICATION FairSpec
CONSTANTS
  Placed = 1
  MCs = {m1}
  Changes = {"config", "acm", "object", "use", "callFails", "restart"}
  MaxChanges = 3
INVARIANTS TypeOK SettledConfigured
PROPERTIES KeptForUsers ComesToRest ImplementsSwitch
CHECK_DEADLOCK FALSE
