CONSTANTS
  Steps <- Line
  DependsOn <- LineDependencies
  Position <- LineOrder
  NoStep = "None"
  MaxPolls = 2
  Failing = {"llm"}
  MaxAttempts = 3
  Scenarios = {"transient_failure", "rejected", "document_missing"}
  Documents = {TRUE}
  Findings = {"eligible", "ineligible"}
  User = "reviewer"
  Prompt = FALSE
  MaxRequests = 2
  MaxFaults = 1
  MaxRestarts = 0
SPECIFICATION FairFaultSpec
INVARIANTS
  PrerequisitesApproved
  EverySubmissionPaidFor
  OrphansPaidFor
  StrandedByFaultOnly
PROPERTIES
  UndisturbedSettles
  UndisturbedCompletes
CHECK_DEADLOCK FALSE
