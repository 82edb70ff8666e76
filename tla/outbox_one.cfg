SPECIFICATION Spec
CONSTANTS
  r1 = r1
  a1 = a1
  a2 = a2
  Rooms <- MCRooms
  Accounts <- MCAccounts
  NoRoom = NoRoom
  Nobody = Nobody
  MaxMsgs = 1
  Limit = 1
  PostBudget = 3
  PostBudget400 = 2
  MaxId = 3
  MaxRetries = 1
  LateSave = FALSE
INVARIANTS NoDuplicate BudgetKept
PROPERTY ImplementsMailbox
