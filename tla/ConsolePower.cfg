SPECIFICATION ConsoleSpec
CONSTANTS
  Calls <- PowerUserCalls
  Tokens <- MCTokens
  Handlers = {h1}
  Projects = {"A"}
  Keys <- ConsoleKeys
  Names = {"s", "vm"}
  SshKeys = {"ka", "kb"}
  Reasons = {"why"}
  DiskSizes = {2, 3}
  Images <- MCImages
  Flavors <- MCFlavors
  Pools <- MCPools
  Quotas <- MCQuotas
  ReleaseOnRetain = FALSE
  None = None
  Accounts <- MCAccounts
  SessionIds = {"c1", "c2"}
INVARIANT
  LastAcceptedActionStands
CHECK_DEADLOCK FALSE
