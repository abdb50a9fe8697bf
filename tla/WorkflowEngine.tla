--------------------------- MODULE WorkflowEngine --------------------------
(***************************************************************************)
(* WorkflowEngine (backend/workflows/engine.py) for one workflow: the       *)
(* in-memory graph and the persisted Workflow row, and one action per       *)
(* lifecycle operation.  The code between two awaits runs without           *)
(* interruption, and every operation changes the graph and writes the row   *)
(* before its first await, so each operation is one action; the event it    *)
(* then publishes is named by an operator (CompleteStepEvent, ...) for the  *)
(* modules that model who handles it.  Next lets any caller call any        *)
(* operation at any time: what holds here holds whatever the agents, the    *)
(* government and the user do.                                              *)
(***************************************************************************)
EXTENDS WorkflowGraph

VARIABLES
  graph,      \* self._graphs[workflow_id]: status of each step
  hasGraph,   \* has_graph(workflow_id)
  creating,   \* _create_workflow_with_steps awaits its WORKFLOW_CREATED
  workflow    \* the Workflow row in the repository

engineVars == <<graph, hasGraph, creating, workflow>>

\* "ABSENT": workflow_repo.get() returns None.
WorkflowStatus ==
  {"RUNNING", "WAITING_FOR_USER", "BLOCKED", "COMPLETED", "FAILED"}
RowStatus == WorkflowStatus \cup {"ABSENT"}

\* The statuses that open the human-in-the-loop gate.
GateStatus == {"WAITING_FOR_USER", "BLOCKED"}
IsGated == workflow.status \in GateStatus

Row ==
  [status : RowStatus, completed : SUBSET Steps, pending : SUBSET Steps,
   failed : SUBSET Steps, current : Steps \cup {NoStep}]

InitialGraph == [s \in Steps |-> "PENDING"]

AbsentRow ==
  [status |-> "ABSENT", completed |-> {}, pending |-> {}, failed |-> {},
   current |-> NoStep]

Init ==
  /\ graph = InitialGraph
  /\ hasGraph = FALSE
  /\ creating = FALSE
  /\ workflow = AbsentRow

----------------------------------------------------------------------------
(* _sync_workflow_from_graph *)

\* Error: a workflow with no active step left counts as complete.
DrainedGraphStatus(g) ==
  IF ActiveStepIds(g) = {} THEN "COMPLETED"
  ELSE IF FailedStepIds(g) # {} THEN "FAILED"
  ELSE IF BlockedStepIds(g) # {} THEN "BLOCKED"
  ELSE "RUNNING"

\* The status it computes when none is forced.
GraphStatus(g) ==
  IF IsComplete(g) THEN "COMPLETED"
  ELSE IF FailedStepIds(g) # {} THEN "FAILED"
  ELSE IF BlockedStepIds(g) # {} THEN "BLOCKED"
  ELSE "RUNNING"

\* Error: the claimed steps are not looked at.
ReadyCurrentStep(g) == FirstStep(ReadySteps(g))

\* A claimed step before a merely ready one.
CurrentStep(g) ==
  LET running == StepsWith(g, {"RUNNING"})
  IN  FirstStep(IF running # {} THEN running ELSE ReadySteps(g))

SyncedRow(g, status) ==
  [status |-> status,
   completed |-> CompletedStepIds(g),
   pending |-> ActiveStepIds(g),
   failed |-> FailedStepIds(g),
   current |-> CurrentStep(g)]

----------------------------------------------------------------------------
(* The events an operation publishes once the row is written. *)

NoEvent == [type |-> "NONE", steps |-> {}]
WorkflowCompletedEvent == [type |-> "WORKFLOW_COMPLETED", steps |-> {}]

\* NEXT_ACTION_TRIGGERED carries the claimed steps, and is published only
\* if there are any.
NextActionEvent(claimed) ==
  IF claimed = {} THEN NoEvent
  ELSE [type |-> "NEXT_ACTION_TRIGGERED", steps |-> claimed]

\* Error: the workflow is reported complete once no step is pending.
HastyCompleteStepEvent(s) ==
  LET marked == MarkStepStatus(graph, s, "COMPLETED")
  IN  IF PendingStepIds(ClaimReadySteps(marked)) = {}
      THEN WorkflowCompletedEvent
      ELSE NextActionEvent(ReadySteps(marked))

\* Error: the ready steps are looked up after they have been claimed.
LateCompleteStepEvent(s) ==
  LET claimed == ClaimReadySteps(MarkStepStatus(graph, s, "COMPLETED"))
  IN  IF IsComplete(claimed) THEN WorkflowCompletedEvent
      ELSE NextActionEvent(ReadySteps(claimed))

CompleteStepEvent(s) ==
  LET marked == MarkStepStatus(graph, s, "COMPLETED")
  IN  IF IsComplete(ClaimReadySteps(marked)) THEN WorkflowCompletedEvent
      ELSE NextActionEvent(ReadySteps(marked))

\* Error: the ready steps are looked up after they have been claimed.
LateResumeStepEvent(s) ==
  NextActionEvent(ReadySteps(
    ClaimReadySteps(MarkStepStatus(graph, s, "PENDING"))))

ResumeStepEvent(s) ==
  NextActionEvent(ReadySteps(MarkStepStatus(graph, s, "PENDING")))

\* Error: the event also names the steps somebody is working on.
RepeatedClaimEvent ==
  NextActionEvent(ReadySteps(graph) \cup StepsWith(graph, {"RUNNING"}))

\* After the creation's WORKFLOW_CREATED, and for a workflow-level resume.
ClaimEvent == NextActionEvent(ReadySteps(graph))

----------------------------------------------------------------------------
(* The operations. *)

\* _create_workflow_with_steps up to its first await.
CreateWorkflow ==
  /\ workflow.status = "ABSENT"
  /\ hasGraph' = TRUE
  /\ creating' = TRUE
  /\ graph' = InitialGraph
  /\ workflow' = [AbsentRow EXCEPT !.status = "RUNNING",
                                   !.pending = PendingStepIds(graph')]

\* _create_workflow_with_steps once WORKFLOW_CREATED has been handled.  The
\* status is recomputed from the graph alone.
FinishCreation ==
  /\ creating
  /\ creating' = FALSE
  /\ graph' = ClaimReadySteps(graph)
  /\ workflow' = SyncedRow(graph', GraphStatus(graph'))
  /\ UNCHANGED hasGraph

\* Error: the ready steps are claimed before the step is marked.
ClaimThenCompleteStep(s) ==
  /\ hasGraph
  /\ graph' = MarkStepStatus(ClaimReadySteps(graph), s, "COMPLETED")
  /\ workflow' = SyncedRow(graph', GraphStatus(graph'))
  /\ UNCHANGED <<hasGraph, creating>>

CompleteStep(s) ==
  /\ hasGraph
  /\ graph' = ClaimReadySteps(MarkStepStatus(graph, s, "COMPLETED"))
  /\ workflow' = SyncedRow(graph', GraphStatus(graph'))
  /\ UNCHANGED <<hasGraph, creating>>

FailStep(s) ==
  /\ hasGraph
  /\ graph' = MarkStepStatus(graph, s, "FAILED")
  /\ workflow' = SyncedRow(graph', GraphStatus(graph'))
  /\ UNCHANGED <<hasGraph, creating>>

\* Error: only the status of the row is written.
StatusOnlyBlockStep(s, gate) ==
  /\ hasGraph
  /\ graph' = MarkStepStatus(graph, s, "BLOCKED")
  /\ workflow' = [workflow EXCEPT !.status = gate]
  /\ UNCHANGED <<hasGraph, creating>>

\* The caller chooses the gate; current_step is left as it was.
BlockStep(s, gate) ==
  /\ hasGraph
  /\ graph' = MarkStepStatus(graph, s, "BLOCKED")
  /\ workflow' = [SyncedRow(graph', gate) EXCEPT !.current = workflow.current]
  /\ UNCHANGED <<hasGraph, creating>>

\* A gate on the row alone: no step changes.
BlockWorkflow(gate) ==
  /\ workflow.status # "ABSENT"
  /\ workflow' = [workflow EXCEPT !.status = gate]
  /\ UNCHANGED <<graph, hasGraph, creating>>

\* Error: nothing claims the step again.
UnclaimedResumeStep(s) ==
  /\ hasGraph
  /\ graph' = MarkStepStatus(graph, s, "PENDING")
  /\ workflow' = SyncedRow(graph', "RUNNING")
  /\ UNCHANGED <<hasGraph, creating>>

\* Error: a retry takes the prerequisites back as well.
RewindingResumeStep(s) ==
  /\ hasGraph
  /\ graph' = ClaimReadySteps(
       [t \in Steps |-> IF t \in {s} \cup DependsOn[s] THEN "PENDING"
                       ELSE graph[t]])
  /\ workflow' = SyncedRow(graph', "RUNNING")
  /\ UNCHANGED <<hasGraph, creating>>

\* resume_step with action "retry"; "abandon" is FailStep.
ResumeStep(s) ==
  /\ hasGraph
  /\ graph' = ClaimReadySteps(MarkStepStatus(graph, s, "PENDING"))
  /\ workflow' = SyncedRow(graph', "RUNNING")
  /\ UNCHANGED <<hasGraph, creating>>

\* _on_workflow_resumed without a step id.
ResumeWorkflow ==
  /\ hasGraph
  /\ graph' = ClaimReadySteps(graph)
  /\ workflow' = SyncedRow(graph', "RUNNING")
  /\ UNCHANGED <<hasGraph, creating>>

\* Error: the creation goes on after the graph is lost.
ForgetfulRestart ==
  /\ workflow.status # "ABSENT"
  /\ hasGraph' = FALSE
  /\ graph' = InitialGraph
  /\ UNCHANGED <<creating, workflow>>

\* The process restarts: the row is persisted, the graph is not.
Restart ==
  /\ workflow.status # "ABSENT"
  /\ hasGraph' = FALSE
  /\ creating' = FALSE
  /\ graph' = InitialGraph
  /\ UNCHANGED workflow

Next ==
  \/ CreateWorkflow
  \/ FinishCreation
  \/ \E s \in Steps : CompleteStep(s)
  \/ \E s \in Steps : FailStep(s)
  \/ \E s \in Steps, gate \in GateStatus : BlockStep(s, gate)
  \/ \E gate \in GateStatus : BlockWorkflow(gate)
  \/ \E s \in Steps : ResumeStep(s)
  \/ ResumeWorkflow
  \/ Restart

Spec == Init /\ [][Next]_engineVars

----------------------------------------------------------------------------
(* Properties *)

\* Every variable has its type.  A graph in memory always has its row, and
\* the coroutine that creates the workflow has the graph.
TypeOK ==
  /\ graph \in [Steps -> StepStatus]
  /\ hasGraph \in BOOLEAN
  /\ creating \in BOOLEAN
  /\ workflow \in Row
  /\ creating => hasGraph
  /\ hasGraph => workflow.status # "ABSENT"

\* Between any two operations the persisted lists of steps are those of the
\* in-memory graph: a client that reads the row never sees a step in a list
\* the engine has moved it out of, and no step is in two lists.
RowMirrorsGraph ==
  hasGraph =>
    /\ workflow.completed = CompletedStepIds(graph)
    /\ workflow.pending = ActiveStepIds(graph)
    /\ workflow.failed = FailedStepIds(graph)

\* Once the creation has claimed its first steps, no step is left ready and
\* unclaimed: whichever operation makes a step ready also claims it, so no
\* later event is needed to notice it.
NothingReadyUnclaimed ==
  hasGraph /\ ~creating => ReadySteps(graph) = {}

\* A final status on the row is never wrong about the graph: COMPLETED only
\* if every step is, FAILED only if a step is.  (The converse is false:
\* block_step and a forced RUNNING overwrite FAILED.)
FinalStatusWitnessed ==
  hasGraph =>
    /\ workflow.status = "COMPLETED" => IsComplete(graph)
    /\ workflow.status = "FAILED" => FailedStepIds(graph) # {}

\* A row without a current step means that no step is running.
NoCurrentStepMeansIdle ==
  hasGraph /\ workflow.current = NoStep => StepsWith(graph, {"RUNNING"}) = {}

\* A step starts to run only when all its dependencies are completed.
StartsInDependencyOrder ==
  [][\A s \in Steps :
       graph[s] # "RUNNING" /\ graph'[s] = "RUNNING" =>
         \A d \in DependsOn[s] : graph'[d] = "COMPLETED"]_engineVars

============================================================================
