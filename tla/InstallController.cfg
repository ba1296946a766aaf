SPECIFICATION FairSpec
CONSTANTS
  Used = {"bucket", "azurePrivate", "extDns", "flags"}
  MaxVersion = 2
  Malformed = {2}
  AzureFlags = {1}
  Jobs = {j1, j2}
  NoJob = noJob
  Changes = {"edit", "revert", "delete", "readFails", "callFails", "jobFails"}
  MaxChanges = 3
INVARIANTS TypeOK RestingInstalled
PROPERTIES TriesUntilSuccessful
CHECK_DEADLOCK FALSE
