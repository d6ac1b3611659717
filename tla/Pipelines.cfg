SPECIFICATION PipelinesSpec
CONSTANTS
  d1 = d1
  d2 = d2
  d3 = d3
  d4 = d4
  d5 = d5
  d6 = d6
  d7 = d7
  m1 = m1
  m2 = m2
  m3 = m3
  m4 = m4
  Dirs <- MCDirs
  Files <- MCFiles
  Root = d1
  Sub <- MCSub
  Matches <- MCMatches
  Readable <- MCReadable
  Slots = 2
  None = None
  Texts <- PhraseFiles
  Budget = 2
  K = 2
  Builders = {b1, b2}
  JobsCap = 1
  ResultsCap = 1
  BatchSize = 3
  MaxSeedings = 2
  MaxFailures = 1
  MaxKills = 1
INVARIANTS
  CloseIsLast
  AllIsPrinted
  OpenBounded
  EveryLineHasItsBucket
  IndexFitsBudget
  TopsAreTheBest
  RerunsKeepTheFirst
PROPERTIES
  SearchEnds
  SeedingEnds
CHECK_DEADLOCK FALSE
