CONSTANTS
  lease1 = lease1
  lease2 = lease2
  garbled = garbled
  canonical = canonical
  lower = lower
  R = {r1, r2}
  NoOne = NoOne
  Canonical = {lease1, lease2}
  NoValue = NoValue
  Spellings = {canonical, lower}
  Headers <- LeaseHeaders
  Terminals = {t1}
SPECIFICATION Spec
INVARIANTS
  TypeOK
  LeaseIsEchoed
  ProfilerIsReleased
  PresentationIsCurrent
PROPERTIES
  HandlersReturn
