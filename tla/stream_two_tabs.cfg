CONSTANTS
  Clients = {c1, c2}
  MaxLive = 2
  MaxEvents = 2
  MaxAudits = 0
  Statuses = {"RUNNING"}
  ReadsFail = FALSE
SPECIFICATION Spec
INVARIANT EveryTabUpToDate
CHECK_DEADLOCK FALSE
