CONSTANTS
  Endpoints = {e1}
  Probes = {p}
  Inbox = inbox
  Stoppers = {g1, g2}
  Reasons = {denied}
  NoReason = NoReason
SPECIFICATION FairSpec
INVARIANTS
  TypeOK
  StoppedMeansEnded
PROPERTIES
  StopAndGatherEnd
CHECK_DEADLOCK FALSE
