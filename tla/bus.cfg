CONSTANTS
  Keys <- MCKeys
  Limit <- OnePerWindow
  Window = 1
  MaxTime = 2
  Workflows = {"w1", "w2"}
  Client = "ip"
  MaxAttempts = 2
  MaxReady = 2
  MaxFaults = 2
SPECIFICATION BusFairSpec
INVARIANTS
  BusTypeOK
  NeverOverLimit
  OverMeansSettled
  AuditedOrAnnounced
  RepetitionsPaidFor
  RunningIsReal
PROPERTIES
  RefusedOnlyWhenFull
  EventuallyQuiet
CHECK_DEADLOCK FALSE
