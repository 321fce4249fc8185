SPECIFICATION PSpec
CONSTANTS
  create = create  stop = stop  resize = resize  snapshot = snapshot
  rollback = rollback  unsnapshot = unsnapshot  retain = retain  purge = purge
  inst = inst  p1 = p1  p2 = p2
  Ops = {create, stop}
  CreateOps = {create}
  Instances = {inst}
  InstanceOf <- MCInstanceOf
  KindOf <- MCKindOf
  Procs = {p1, p2}
  WorkerIds = {p1, p2}
  WorkerIdOf <- MCWorkerIdOf
  Stages <- MCStages
  StageAttempts <- MCStageAttempts
  Resources = {create}
  Tasks <- MCTasks
  Requests = {r1}
  None = None
  ClocksAgree = TRUE
  MixedDeployments = FALSE
  ForeignReplays = {}
  MaxToken = 24
  MaxAttempts = 2
  MaxPolls = 0
  MaxFaults = 0
  Modes = {"success"}
  QueryFaults = {"unavailable"}
  SyncSteps = {"configure","start"}
  Drift = FALSE
INVARIANTS OneWorkflowPerInstance
CHECK_DEADLOCK FALSE
