SPECIFICATION Spec
CONSTANTS
  MaxCancels = 1
  MaxStopErrors = 0
INVARIANTS
  CancelledCleanly
CHECK_DEADLOCK FALSE
