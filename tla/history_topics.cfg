SPECIFICATION Spec
CONSTANTS
  r1 = r1
  r2 = r2
  Rooms <- MCOneRoom
  NoRoom = NoRoom
  Kinds <- MCAll
  Threads = TRUE
  PageLimit = 1
  GapLimit = 1
  GapPages = 2
  MaxShown = 2
  MaxId = 3
  MaxLoads = 1
  MaxRefresh = 1
INVARIANTS TypeOK ShowsOpenView NoUnexplainedGap
