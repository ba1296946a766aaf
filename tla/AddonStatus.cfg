SPECIFICATION StatusSpec
CONSTANTS
  Operator = operator
  ExternalDNS = dns
  Shapes = {"absent", "deleting", "short", "ready"}
  MaxTries = 2
  MaxFaults = 4
  None = None
INVARIANTS StatusTypeOK SettledDegraded OthersKept
CHECK_DEADLOCK FALSE
