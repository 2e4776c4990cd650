CONSTANTS
  Endpoints = {e1}
  Probes = {}
  Inbox = inbox
  Stoppers = {}
  Reasons = {}
  NoReason = NoReason
SPECIFICATION Spec
INVARIANTS
  NothingCollectedLate
CHECK_DEADLOCK FALSE
