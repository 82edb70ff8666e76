SPECIFICATION Spec
CONSTANTS
  r1 = r1
  r2 = r2
  Rooms <- MCRooms
  NoRoom = NoRoom
  Sessions <- MCSessions
  Slots <- MCSlots
  MaxFrames = 2
  MaxCommands = 3
  MaxMoves = 2
SYMMETRY Symmetry
INVARIANTS TypeOK NeverDead HelloHasTicket SettledInRoom WaitersBelong
