SPECIFICATION Spec
CONSTANTS
  pair = pair
  group = group
  Rooms <- MCOneRoom
  Pairs <- MCPairs
  NoRoom = NoRoom
  MaxAttempts = 1
  MaxRejoins = 1
  MaxLeaves = 2
  MaxCalls = 2
  MaxFaults = 0
INVARIANTS NoJoinWhileRinging
CHECK_DEADLOCK FALSE
