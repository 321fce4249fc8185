SPECIFICATION FairReconciliationSpec
CONSTANTS
  Calls <- TwoCreates
  Tokens <- MCTokens
  Handlers = {h1}
  Projects = {"A"}
  Keys = {"k1", "k2"}
  Names = {"s", "vm"}
  SshKeys = {"ka", "kb"}
  Reasons = {"why"}
  DiskSizes = {2, 3}
  Images <- MCImages
  Flavors <- MCFlavors
  Pools <- MCPools
  ReleaseOnRetain = FALSE
  None = None
  Quotas <- RoomForTwo
  Unsupported = {}
  BatchSize = 1
  Observations <- MCObservations
  MaxFindings = 1
  MaxAsked = 1
PROPERTY ManagedInstancesAreReconciled
CHECK_DEADLOCK FALSE
