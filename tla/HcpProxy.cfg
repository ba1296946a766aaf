SPECIFICATION Spec
CONSTANTS
  MaxRequests = 3
  Clusters = {c1, c2}
  Asked = {c1}
  Pools = {p1}
  Secrets = {s1}
  Ops = {"create", "get", "update", "delete"}
  SkipHubPermissionCheck = FALSE
  MaxFaults = 2
  None = None
INVARIANTS TypeOK SecretsFirst AnswersAreTrue NoEditLost DeletionTakesNodePools
PROPERTY OtherClustersKept
CHECK_DEADLOCK FALSE
