SPECIFICATION Spec
CONSTANTS
  Used = {"bucket", "flags", "images"}
  MaxVersion = 2
  Malformed = {}
  AzureFlags = {}
  Jobs = {j1, j2}
  NoJob = noJob
  Changes = {"edit", "restart", "idleRestart", "strip", "callFails", "localFails", "jobFails", "timeout", "annotate"}
  MaxChanges = 4
INVARIANTS RestingInstalled
SYMMETRY JobSymmetry
CHECK_DEADLOCK FALSE
