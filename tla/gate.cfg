SPECIFICATION Spec
CONSTANTS
  t1 = t1
  t2 = t2
  t3 = t3
  Threads <- MCThreads
  kMaxInFlight = 2
INVARIANTS TypeOK Paired
PROPERTY Reopens
