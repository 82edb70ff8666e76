SPECIFICATION Spec
CONSTANTS
  v1 = v1
  v2 = v2
  Versions <- MCVersions
  NoVersion = NoVersion
  IdleWait = 2
  Final = 1
  Grace = 3
  Preview = 1
SYMMETRY Symmetry
INVARIANTS TypeOK WaitingHasANextStep
PROPERTIES NoSurpriseRestart CountdownSeen
