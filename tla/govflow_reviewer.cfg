CONSTANTS
  Steps <- Full
  DependsOn <- FullDependencies
  Position <- FullOrder
  NoStep = "None"
  MaxPolls = 2
  Failing = {"llm", "submit", "poll"}
  MaxAttempts = 3
  Scenarios = {"clean", "rejected", "document_missing"}
  Documents = {TRUE, FALSE}
  Findings = {"eligible", "ineligible"}
  User = "reviewer"
  Prompt = FALSE
  MaxRequests = 2
  MaxFaults = 0
SPECIFICATION SystemSpec
INVARIANTS
  SystemTypeOK
  OneWorkerPerStep
  CompletedOnce
PROPERTIES
  ApprovalIsFinal
  ImplementsLifecycle
CHECK_DEADLOCK FALSE
