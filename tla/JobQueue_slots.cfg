SPECIFICATION QueueSpec
CONSTANTS
  Jobs = {j1, j2}
  Workers = {w1}
  Queues = {q1}
  Priorities = {0, 1}
  RequestedBudgets = {1}
  RequestedDelays = {0}
  RequestedLeases = {1}
  DefaultBudget = 2
  DefaultLease = 1
  MinLease = 1
  MaxLease = 4
  HeartbeatFloor = 1
  HeartbeatCeiling = 4
  MaxDelay = 1
  BaseDelay = 1
  GlobalMaxAttempts = 1
  MaxRevivals = 1
  MaxPendingNacks = 1
  NULL = NULL
  Concurrency = 2
  LeaseDuration = 1
  HeartbeatEvery = 1
  ClientTimeout = 1
  UnknownJobs = {j2}
  MaxLosses = 1
  MaxFaults = 1
INVARIANTS
  SlotsAreEnough
  FirstComeFirstStarted
