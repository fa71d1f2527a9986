SPECIFICATION AllSpec
CONSTANTS
  sale = sale
  stock = stock
  Modules <- MCModules
  Jobs <- MCJobs
  MaxAttempts = 3
  MaxCancels = 2
  MaxStopErrors = 1
  s1 = s1
  s2 = s2
  Workers = {w1, w2, w3}
  Sources = {s1, s2}
  None = None
  MaxEdits = 1
  MaxFaults = 2
INVARIANTS
  NothingLeftBehind
  EnteredComplete
  DoneIsDone
  DumpsWhole
  WarmAsCold
  NoLitter
PROPERTIES
  TakenDownInOrder
  TeardownEnds
  Published
CHECK_DEADLOCK FALSE
