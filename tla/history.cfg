SPECIFICATION Spec
CONSTANTS
  r1 = r1
  r2 = r2
  Rooms <- MCOneRoom
  NoRoom = NoRoom
  Kinds <- MCControl
  Threads = FALSE
  PageLimit = 2
  GapLimit = 1
  GapPages = 1
  MaxShown = 2
  MaxId = 5
  MaxLoads = 2
  MaxRefresh = 1
INVARIANTS NoUnexplainedGap PollsWhenSettled
