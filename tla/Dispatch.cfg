SPECIFICATION LoopSpec
CONSTANTS
  N <- MCN
  Concurrency <- MCConcurrency
INVARIANTS
  ReceiptsTruthful
  CancelReportExact
PROPERTIES
  ImplementsContract
  CancelEnds
  BatchEnds
CHECK_DEADLOCK FALSE
