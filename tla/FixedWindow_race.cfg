SPECIFICATION Spec
CONSTANTS
  Hosts = {h1}
  Requests = {r1, r2, r3}
  TTL = 2
  WindowSize = 2
  Limit = 1
  Start = 2
  MaxTime = 6
  None = None
INVARIANTS
  WindowLimit
CHECK_DEADLOCK FALSE
