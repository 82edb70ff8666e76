SPECIFICATION Spec
CONSTANTS
  office = office
  Plates <- MCPlates
  NoPlate = NoPlate
  Nothing = Nothing
  Latch = 2
  Stored <- MCStored
  MaxChanges = 3
INVARIANTS TypeOK NeverRaw NothingFromBefore EngineMatchesMode LatchIsOfThisEpoch
CHECK_DEADLOCK FALSE
