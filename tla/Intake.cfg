SPECIFICATION ListingSpec
CONSTANTS
  Commands <- MCCommands
  Instances = {1, 3}
  Stored <- MCStored
  Drifting = {1}
  Members = {m1, m2}
  Partitions = {1, 2}
  PartitionOf <- MCPartitionOf
  Junk = {"wrong_key"}
  MaximumAttempts = 2
  MaxAccepted = 1
  MaxClock = 1
  MaxFaults = 1
  Limits = {0}
  DEFAULT_PAGE_LIMIT = 1
  MAXIMUM_PAGE_LIMIT = 3
INVARIANTS NothingSkipped EventsInOrder OwnRecordsUnderstood
PROPERTIES StableRowsListedOnce EveryCommandAnswered
CHECK_DEADLOCK FALSE
