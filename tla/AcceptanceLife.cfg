CONSTANTS
  Calls <- LifeCalls
  Tokens <- MCTokens
  Handlers = {h1, h2}
  Projects = {"A"}
  Keys = {"k1", "k2", "k3"}
  Names = {"s", "vm"}
  SshKeys = {"ka", "kb"}
  Reasons = {"why"}
  DiskSizes = {2, 3}
  Images <- MCImages
  Flavors <- MCFlavors
  Pools <- MCPools
  Quotas <- MCQuotas
  ReleaseOnRetain = FALSE
  None = None
SPECIFICATION Spec
INVARIANTS
  ATypeOK
  RetryFindsItsOperation
  InsertsDoNotConflict
  AddressesDistinct
  QuotaOverrunBounded
  PurgedAfterRetention
  SnapshotsSettle
SYMMETRY HandlerSymmetry
CHECK_DEADLOCK FALSE
