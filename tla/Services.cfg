SPECIFICATION ServicesSpec
CONSTANTS
  Hosts = {h1}
  Requests = {r1, r2, r3}
  Capacity = 3
  Rate = 1
  Cost = 2
  TTL = 3
  MaxTime = 6
  SlidingTTL = 4
  FixedTTL = 2
  WindowSize = 2
  Limit = 1
  Start = 4
  MaxWindowTime = 9
  None = None
  Keys = {p1, p2}
  Servers = {s1, s2}
  Calls = {c1}
  MemUnits = 1
  RedisUnits = 2
  PipelineSize = 1
  MaxVersion = 2
INVARIANTS
  FixedLimit
  SlidingCounts
  RestartRefreshes
PROPERTIES
  ImplementsIdeal
SYMMETRY StoreSymmetry
CHECK_DEADLOCK FALSE
