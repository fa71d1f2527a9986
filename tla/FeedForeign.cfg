SPECIFICATION Spec
CONSTANTS
  m1 = m1
  m2 = m2
  m3 = m3
  m4 = m4
  Events <- MCEvents
  Messages = {m1, m2, m3, m4}
  MessageOf <- MCMessageOf
  Owned = {m1, m3, m4}
  Requested = {m1, m3}
  BatchSizes = {2}
  MaxDeletes = 1
  MaxResumes = 0
INVARIANTS
  OwnModel
CHECK_DEADLOCK FALSE
