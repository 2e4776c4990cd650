CONSTANTS
  s1 = s1
  s2 = s2
  x = x
  y = y
  NoSub = NoSub
  Subs = {s1, s2}
  Subjects = {x, y}
  SubjectOf <- OneSubject
  Cancelled = {s1}
  Drained = {s1}
  Timed = {s1}
  Busy = {s1}
  Ungranted = {s2}
  PendingLimit = 1
  QueueBound = 1
  ErrBound = 1
SPECIFICATION FairSpec
CHECK_DEADLOCK FALSE
INVARIANTS
  TypeOK
  EndedIsGone
  ReturnMeansEnded
  ReasonHasCause
PROPERTIES
  ImplementsContract
  EndsReturn
  AsyncErrorEnds
