SPECIFICATION FairSpec
CONSTANTS
  r1 = r1
  r2 = r2
  Rooms <- MCRooms
  NoRoom = NoRoom
  PollLimit = 1
  Slots <- MCSlots
  MaxTimers = 2
  MaxId = 2
INVARIANTS TypeOK NeverDead CurrentFits
PROPERTIES EventuallyEmitted ImplementsStream
