SPECIFICATION PSpec
CONSTANTS
  create = create  stop = stop  resize = resize  snapshot = snapshot
  rollback = rollback  unsnapshot = unsnapshot  retain = retain  purge = purge
  inst = inst  p1 = p1  p2 = p2
  Ops = {create}
  CreateOps = {create}
  Instances = {inst}
  InstanceOf <- MCInstanceOf
  KindOf <- MCKindOf
  Procs = {p1, p2}
  WorkerIds = {p1, p2}
  WorkerIdOf <- MCWorkerIdOf
  Stages <- MCStages
  StageAttempts <- MCStageAttempts
  Resources = {create}
  Tasks <- MCTasks
  Requests = {r1}
  None = None
  ClocksAgree = TRUE
  MixedDeployments = FALSE
  ForeignReplays = {create}
  MaxToken = 20
  MaxAttempts = 2
  MaxPolls = 1
  MaxFaults = 1
  Modes = {"success", "failure", "timeout", "timeout_applied", "unknown", "unknown_applied"}
  QueryFaults = {"unavailable", "task_lost", "task_failed"}
  SyncSteps = {"configure"}
  Drift = TRUE
INVARIANTS PTypeOK EffectAtMostOnce UnknownOutcomeGoesToReview SucceededMeansCarriedOut PollingHasItsTask
SYMMETRY MCSymmetry
CHECK_DEADLOCK FALSE
