SPECIFICATION Spec
CONSTANTS
  create = create  power = power  vm = vm
  p1 = p1  p2 = p2  p3 = p3  pod1 = pod1  pod2 = pod2
  r1 = r1  r2 = r2
  Ops = {create, power}
  CreateOps = {create}
  Instances = {vm}
  InstanceOf <- MCInstanceOf
  Procs = {p1, p2, p3}
  WorkerIds = {pod1, pod2}
  WorkerIdOf <- MCWorkerIdOf
  Stages = {"working"}
  StageAttempts = {0}
  Resources = {"vm100"}
  Tasks = {"upid"}
  Requests = {r1, r2}
  None = None
  ClocksAgree = FALSE
  MixedDeployments = TRUE
  ForeignReplays = {}
  MaxToken = 3
INVARIANTS UniqueLeaseHolder FreshClaim ReceiptCoversWorkflow OneOutcomePerGeneration ReplayFindsItsDeadLetter GenerationNotReused AuthorityNotStranded
PROPERTIES TerminalIsFinal ImplementsLifecycle
SYMMETRY MCSymmetry
CHECK_DEADLOCK FALSE
