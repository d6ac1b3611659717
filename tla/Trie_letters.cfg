SPECIFICATION ProgramsSpec
CONSTANTS
  Urls <- MCUrls
  Numbers = {1, 2}
  Requests = {q1, q2}
  MaxRestarts = 1
  MaxFailures = 1
  TrieWords <- MCWords
  TrieFreqs = {1, 2}
  K = 2
  CacheDepth = 1
  MaxLines = 5
  Users = {1, 2, 3}
  Phrases = {1, 2, 3}
  Counts <- MCCounts
  Kept = {1, 3}
  Score <- MCScore
  MinFreq = 2
  MinVol = 2
  MinMatch = 3
  TopN = 1
  MaxRows = 5
  MaxServers = 3
  NodesEach = 2
  Span = 4
  Readers = {r1}
  Nobody = Nobody
INVARIANTS
  CachedIsSearched
CHECK_DEADLOCK FALSE
