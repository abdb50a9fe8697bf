--------------------------- MODULE WorkflowGraph ---------------------------
(***************************************************************************)
(* The step graph of one workflow (backend/workflows/graph.py): the DAG of  *)
(* services, and the operators the engine applies to the map g from each    *)
(* step to its status.  The code keeps lists in the order of a dict; a set  *)
(* stands for a list wherever the order changes nothing, and Position keeps *)
(* that order for the two places that take the first element.               *)
(***************************************************************************)
EXTENDS Dag, Naturals, FiniteSets

CONSTANTS
  Steps,       \* the ids of the planned steps
  DependsOn,   \* DependsOn[s]: the steps that must be completed before s
  Position,    \* Position[s]: the place of s in the dict of steps
  NoStep       \* None, where the code has Optional[str]

\* What the constructor accepts.
ValidDag == IsDag(Steps, DependsOn)

\* A dict keeps the order of insertion: one of any steps comes first.
Ordered ==
  /\ Position \in [Steps -> Nat]
  /\ \A S \in (SUBSET Steps) \ {{}} :
       \E s \in S : \A t \in S \ {s} : Position[s] < Position[t]

ASSUME GraphAssumption ==
  /\ IsFiniteSet(Steps)
  /\ Steps # {}
  /\ ValidDag
  /\ Ordered
  /\ NoStep \notin Steps

StepStatus ==
  {"PENDING", "RUNNING", "COMPLETED", "WAITING", "BLOCKED", "FAILED"}

\* The first of a set of steps, None when the set is empty.
FirstStep(S) ==
  IF S = {} THEN NoStep
  ELSE CHOOSE s \in S : \A t \in S : Position[s] <= Position[t]

StepsWith(g, statuses) == {s \in Steps : g[s] \in statuses}

PendingStepIds(g) == StepsWith(g, {"PENDING"})
ActiveStepIds(g) == StepsWith(g, {"PENDING", "RUNNING"})
CompletedStepIds(g) == StepsWith(g, {"COMPLETED"})
FailedStepIds(g) == StepsWith(g, {"FAILED"})
BlockedStepIds(g) == StepsWith(g, {"BLOCKED"})

IsComplete(g) == \A s \in Steps : g[s] = "COMPLETED"

\* Error: a dependency only has to be past PENDING.
EagerReadySteps(g) ==
  {s \in PendingStepIds(g) : DependsOn[s] \cap PendingStepIds(g) = {}}

ReadySteps(g) ==
  {s \in PendingStepIds(g) : \A d \in DependsOn[s] : g[d] = "COMPLETED"}

MarkStepStatus(g, s, status) == [g EXCEPT ![s] = status]

\* Error: the ready steps are returned without being claimed.
UnclaimedReadySteps(g) == g

\* The graph after claim_ready_steps, which returns ReadySteps(g).
ClaimReadySteps(g) ==
  [s \in Steps |-> IF s \in ReadySteps(g) THEN "RUNNING" ELSE g[s]]

============================================================================
