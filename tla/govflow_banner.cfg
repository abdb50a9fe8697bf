CONSTANTS
  Steps <- Fork
  DependsOn <- ForkDependencies
  Position <- ForkOrder
  NoStep = "None"
  MaxPolls = 2
  Failing = {}
  MaxAttempts = 3
  Scenarios = {"clean", "rejected"}
  Documents = {TRUE}
  Findings = {"eligible"}
  User = "banner"
  Prompt = TRUE
  MaxRequests = 2
  MaxFaults = 0
SPECIFICATION SystemSpec
PROPERTY ApprovalIsFinal
CHECK_DEADLOCK FALSE
