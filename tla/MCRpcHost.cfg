CONSTANTS
  a = a
  b = b
  Starts = {g1, g2}
  NoStart = NoStart
  Ids = {a}
  KindOf <- OneOfEach
  Writes = 2
  QueueBound = 1
SPECIFICATION FairSpec
INVARIANTS
  TypeOK
  CallbacksAccounted
  OneLiveStream
  LateHandlerBounded
PROPERTY StartAndReaderEnd
