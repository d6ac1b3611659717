SPECIFICATION Spec
CONSTANTS
  Jobs = {j1}
  Workers = {w1}
  Queues = {q1}
  Priorities = {0}
  RequestedBudgets = {1}
  RequestedDelays = {0}
  RequestedLeases = {1}
  DefaultBudget = 2
  DefaultLease = 1
  MinLease = 1
  MaxLease = 2
  HeartbeatFloor = 1
  HeartbeatCeiling = 2
  MaxDelay = 1
  BaseDelay = 1
  GlobalMaxAttempts = 1
  MaxRevivals = 1
  MaxPendingNacks = 2
  NULL = NULL
INVARIANTS
  ExhaustedJobsAreDead
CHECK_DEADLOCK FALSE
