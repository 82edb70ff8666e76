SPECIFICATION FairSpec
CONSTANTS
  r1 = r1
  a1 = a1
  a2 = a2
  Rooms <- MCRooms
  Accounts <- MCTwoAccounts
  NoRoom = NoRoom
  Nobody = Nobody
  MaxMsgs = 2
  Limit = 1
  PostBudget = 2
  PostBudget400 = 1
  MaxId = 0
  MaxRetries = 0
  LateSave = FALSE
INVARIANTS TypeOK NothingLost OwnAccount
PROPERTIES PassesOnlyTheSkipped EventuallyDecided
