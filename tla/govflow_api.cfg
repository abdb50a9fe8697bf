CONSTANTS
  Steps <- Line
  DependsOn <- LineDependencies
  Position <- LineOrder
  NoStep = "None"
  MaxPolls = 2
  Failing = {"validate", "llm"}
  MaxAttempts = 2
  Scenarios = {"clean", "rejected", "document_missing"}
  Documents = {TRUE, FALSE}
  Findings = {"eligible"}
  User = "api"
  Prompt = FALSE
  MaxRequests = 2
  MaxFaults = 0
  MaxRestarts = 1
SPECIFICATION FaultSpec
INVARIANTS
  PrerequisitesApproved
  CompletedMeansApproved
  SubmissionsAuthorised
PROPERTY GraphlessIsFrozen
CHECK_DEADLOCK FALSE
