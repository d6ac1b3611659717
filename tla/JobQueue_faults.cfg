SPECIFICATION FairQueueSpec
CONSTANTS
  Jobs = {j1}
  Workers = {w1}
  Queues = {q1}
  Priorities = {0}
  RequestedBudgets = {2}
  RequestedDelays = {0}
  RequestedLeases = {7}
  DefaultBudget = 2
  DefaultLease = 1
  MinLease = 1
  MaxLease = 8
  HeartbeatFloor = 1
  HeartbeatCeiling = 8
  MaxDelay = 1
  BaseDelay = 1
  GlobalMaxAttempts = 1
  MaxRevivals = 0
  MaxPendingNacks = 2
  NULL = NULL
  Concurrency = 2
  LeaseDuration = 7
  HeartbeatEvery = 1
  ClientTimeout = 2
  UnknownJobs = {}
  MaxLosses = 3
  MaxFaults = 1
INVARIANTS
  LeaseOutlivesLostHeartbeats
PROPERTIES
  EveryJobEnds
