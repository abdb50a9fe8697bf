CONSTANTS
  Steps <- Line
  DependsOn <- LineDependencies
  Position <- LineOrder
  NoStep = "None"
  MaxPolls = 2
  Failing = {}
  MaxAttempts = 3
  Scenarios = {"clean"}
  Documents = {TRUE}
  Findings = {"eligible"}
  User = "reviewer"
  Prompt = FALSE
  MaxRequests = 0
  MaxFaults = 1
  MaxRestarts = 0
SPECIFICATION FairFaultSpec
PROPERTY NeverSilentlyBroken
CHECK_DEADLOCK FALSE
