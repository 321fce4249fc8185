SPECIFICATION FairProjectionSpec
CONSTANTS
  Calls <- PipelineCalls
  Tokens <- MCTokens
  Handlers = {h1}
  Projects = {"A"}
  Keys = {"k1", "k2"}
  Names = {"s", "vm"}
  SshKeys = {"ka", "kb"}
  Reasons = {"why"}
  DiskSizes = {2, 3}
  Images <- MCImages
  Flavors <- MCFlavors
  Pools <- MCPools
  ReleaseOnRetain = FALSE
  None = None
  Quotas <- MCQuotas
  Unsupported = {"create_instance"}
INVARIANTS
  OperationIsItsLastEvent
  OneWorkflowUnlessReplayed
  DocumentsFollowRows
PROPERTIES
  InstanceNotLeftBusy
  ReplayIsAnswered
CHECK_DEADLOCK FALSE
