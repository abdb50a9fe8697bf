CONSTANTS
  Steps <- Line
  DependsOn <- LineDependencies
  Position <- LineOrder
  NoStep = "None"
  MaxPolls = 2
  Failing = {}
  MaxAttempts = 3
  Scenarios = {"clean"}
  Documents = {TRUE}
  Findings = {"ineligible"}
  User = "reviewer"
  Prompt = TRUE
  MaxRequests = 0
  MaxFaults = 0
SPECIFICATION SystemSpec
INVARIANT IneligibleNeverSubmitted
CHECK_DEADLOCK FALSE
