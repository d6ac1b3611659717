SPECIFICATION FairSpec
CONSTANTS
  Clients = {c1, c2}
  Rooms = {lobby, r1}
  Default = lobby
  Slow = {c2}
  Capacity = 1
  ChunkSize = 2
  MaxLines = 2
  None = None
INVARIANTS
  RoomsAgree
  DepartedStaysOut
  ZeroClientsWereKicked
PROPERTIES
  EverybodyIsServed
  WritersAreLeftIdle
CHECK_DEADLOCK FALSE
