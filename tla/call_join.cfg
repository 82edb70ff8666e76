SPECIFICATION Spec
CONSTANTS
  pair = pair
  group = group
  Rooms <- MCRooms
  Pairs <- MCPairs
  NoRoom = NoRoom
  MaxAttempts = 1
  MaxRejoins = 1
  MaxLeaves = 2
  MaxCalls = 2
  MaxFaults = 1
CONSTRAINT Few
INVARIANTS TypeOK NoGhost ConfirmedIsListed JoinHasANextStep NoForeignEnd
CHECK_DEADLOCK FALSE
