CONSTANTS
  Contents = {a, b}
  Calls = {c1}
  MaxRevision = 3
  Names = {x, y}
  MaxParts = 3
  Digits = {0, 1, 9}
  MaxDigits = 3
SPECIFICATION Spec
INVARIANTS
  TypeOK
  ReplicaIsTrue
  PatternsAndRevisionsAgree
PROPERTIES
  ImplementsReplica
  ComesToRest
CHECK_DEADLOCK FALSE
