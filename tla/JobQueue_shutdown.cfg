SPECIFICATION QueueSpec
CONSTANTS
  Jobs = {j1}
  Workers = {w1}
  Queues = {q1}
  Priorities = {0}
  RequestedBudgets = {1}
  RequestedDelays = {0}
  RequestedLeases = {1}
  DefaultBudget = 2
  DefaultLease = 1
  MinLease = 1
  MaxLease = 4
  HeartbeatFloor = 1
  HeartbeatCeiling = 4
  MaxDelay = 1
  BaseDelay = 1
  GlobalMaxAttempts = 1
  MaxRevivals = 0
  MaxPendingNacks = 2
  NULL = NULL
  Concurrency = 1
  LeaseDuration = 1
  HeartbeatEvery = 1
  ClientTimeout = 1
  UnknownJobs = {}
  MaxLosses = 0
  MaxFaults = 1
INVARIANTS
  ShutdownReportsFinishedWork
CHECK_DEADLOCK FALSE
