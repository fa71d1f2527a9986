SPECIFICATION BothSpec
CONSTANTS
  none = none
  m1 = m1
  m2 = m2
  m3 = m3
  m4 = m4
  Ids <- MCIds
  BatchSizes <- MCBatchSizes
  Limits <- MCLimits
  NoLimit = none
  MaxChanges = 2
  Events <- MCEvents
  Messages = {m1, m2, m3, m4}
  MessageOf <- MCMessageOf
  Owned = {m1, m3, m4}
  Requested = {m1, m3}
  FeedSizes = {1, 2}
  MaxDeletes = 1
  MaxResumes = 1
INVARIANTS
  Complete
  LimitRespected
  NoneSkipped
  FeedComplete
PROPERTIES
  IterationReturns
  OnceInOrder
  FeedEnds
CHECK_DEADLOCK FALSE
