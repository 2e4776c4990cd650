CONSTANTS
  s1 = s1
  s2 = s2
  x = x
  y = y
  NoSub = NoSub
  Subs = {s1}
  Subjects = {x, y}
  SubjectOf <- OneSubject
  Cancelled = {}
  Drained = {s1}
  Timed = {}
  Busy = {s1}
  Ungranted = {}
  PendingLimit = 1
  QueueBound = 2
  ErrBound = 0
SPECIFICATION FairSpec
CHECK_DEADLOCK FALSE
PROPERTIES
  CleanDrainReturns
