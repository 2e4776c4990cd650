CONSTANTS
  s1 = s1
  s2 = s2
  x = x
  y = y
  NoSub = NoSub
  Subs = {s1}
  Subjects = {x, y}
  SubjectOf <- OneSubject
  Cancelled = {}
  Drained = {}
  Timed = {}
  Busy = {}
  Ungranted = {s1}
  PendingLimit = 1
  QueueBound = 2
  ErrBound = 1
SPECIFICATION FairSpec
CHECK_DEADLOCK FALSE
PROPERTIES
  ViolationEndsSubscription
