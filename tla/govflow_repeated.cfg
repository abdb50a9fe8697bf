CONSTANTS
  Steps <- Fork
  DependsOn <- ForkDependencies
  Position <- ForkOrder
  NoStep = "None"
  MaxPolls = 2
  Failing = {"validate"}
  MaxAttempts = 3
  Scenarios = {"clean"}
  Documents = {TRUE}
  Findings = {"eligible"}
  User = "reviewer"
  Prompt = TRUE
  MaxRequests = 0
  MaxFaults = 0
SPECIFICATION SystemSpec
INVARIANT SubmittedOnce
CHECK_DEADLOCK FALSE
