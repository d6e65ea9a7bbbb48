SPECIFICATION Spec
CONSTANTS
  None = None
  Keys = {"k1"}
  MaxChanges = 2
  MaxLost = 1
  MaxExpiries = 1
  MaxRestarts = 1
  MaxRegistrations = 1
  MaxCommitFailures = 1
  MaxSeq = 2
  Lifecycle = "lifecycle"
  Periodic = {"p1"}
  Interval = 2
  SweepInterval = 3
  RetryDelay = 1
  MaxDelay = 2
  MaxHooks = 3
  MaxThreads = 2
  MaxRespawns = 1
  MaxRequests = 1
  ChunkSync = TRUE
  Crashes = TRUE
  Threshold = 2
  MaxLoads = 1
  MaxUses = 1
  Shutdowns = TRUE
INVARIANTS
  TypeOK
  OneOwner
  NoopCacheSound
  StopNotMissed
PROPERTIES
  AppliedInOrder
CHECK_DEADLOCK FALSE
