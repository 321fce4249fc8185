SPECIFICATION AdaptersSpec
CONSTANTS
  web = web  db = db  s1 = s1  s2 = s2  None = None
  Instances = {web, db}
  Size = 2
  SeedOf <- MCSeedOf
  Slots = {s1, s2}
  Methods = {"create", "configure", "start", "resize", "purge", "rollback", "observe"}
  Disks = {1, 2}
  MaxCalls = 3
  MaxAbandoned = 1
  MaxFaults = 1
INVARIANTS RefusedMeansUnchanged RunningHasItsJob RunsInTokenOrder
PROPERTIES MutatesOwnVm SecondVmOnlyBefore OnlyPurgeDestroys
SYMMETRY MCSymmetry
VIEW MCView
CHECK_DEADLOCK FALSE
