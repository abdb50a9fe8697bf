------------------------ MODULE GovFlowFaultsProofs ------------------------
(***************************************************************************)
(* What failed writes and restarts can do to the backend, and what not.     *)
(*                                                                          *)
(* A restart leaves nothing behind that could do anything twice             *)
(* (FrozenInvariant).  A failed write of a handler is one of four kinds of  *)
(* hops, one of the planner ends its attempt (FaultHops); the ledger of     *)
(* submissions carries over from GovFlowProofs, with the credit of one more *)
(* claim of each step for each fault and each further attempt of the        *)
(* planner (FaultLedger), and bounds the variables, too.  An application    *)
(* without a polling task is one whose record failed (OrphansFiled).  No     *)
(* step is marked COMPLETED unless its application was approved, so none is *)
(* submitted early (NothingSubmittedEarlyDespiteFaults).  And on a line of  *)
(* steps, as long as nothing has failed, what is marked RUNNING is worked   *)
(* on (AttendedInvariant).                                                  *)
(***************************************************************************)
EXTENDS GovFlowFaults, GovFlowProofs

\* Without a row there is no graph, and nobody who would make one.
RowComesFirst ==
  /\ "status" \in DOMAIN workflow
  /\ workflow.status = "ABSENT" =>
       ~hasGraph /\ ~creating /\ graph = InitialGraph

Resting == {"idle", "done", "WORKFLOW_RESUMED"}

\* After a restart there is no graph; the only threads that may still do
\* something handle requests, and those handlers find no graph.
FrozenAfterRestart ==
  restarts > 0 =>
    /\ ~hasGraph
    /\ graph = InitialGraph
    /\ chain = [t \in Threads |-> chain[t]]
    /\ \A t \in Threads : chain[t].at \in Resting

FrozenInvariant ==
  RowComesFirst /\ restarts \in Nat /\ FrozenAfterRestart

----------------------------------------------------------------------------
(* The rows the operations write. *)

LEMMA GatedRow ==
  ASSUME NEW row, "status" \in DOMAIN row, NEW gate
  PROVE  /\ "status" \in DOMAIN [row EXCEPT !.status = gate]
         /\ [row EXCEPT !.status = gate].status = gate
OBVIOUS

LEMMA SyncedRowStatus ==
  ASSUME NEW g, NEW status
  PROVE  /\ "status" \in DOMAIN SyncedRow(g, status)
         /\ SyncedRow(g, status).status = status
         /\ \A c : /\ "status" \in
                        DOMAIN [SyncedRow(g, status) EXCEPT !.current = c]
                   /\ [SyncedRow(g, status) EXCEPT !.current = c].status =
                        status
BY DEF SyncedRow

LEMMA NeverAbsent ==
  /\ \A g : GraphStatus(g) # "ABSENT"
  /\ \A gate \in GateStatus : gate # "ABSENT"
BY DEF GraphStatus, GateStatus

\* A row with a status, whatever it is, of a workflow that exists.
Exists(row) == "status" \in DOMAIN row /\ row.status # "ABSENT"

\* Whoever changes the row leaves one that exists.
LEMMA OperationsLeaveARow ==
  ASSUME RowComesFirst
  PROVE  /\ CreateWorkflow => Exists(workflow')
         /\ FinishCreation => Exists(workflow')
         /\ ResumeWorkflow => Exists(workflow')
         /\ \A s : CompleteStep(s) \/ FailStep(s) \/ ResumeStep(s) =>
              Exists(workflow')
         /\ \A s, gate : BlockStep(s, gate) /\ gate # "ABSENT" =>
              Exists(workflow')
         /\ \A gate : BlockWorkflow(gate) /\ gate # "ABSENT" =>
              Exists(workflow')
<1>1. CreateWorkflow => Exists(workflow')
  BY DEF CreateWorkflow, AbsentRow, Exists
<1>2. FinishCreation \/ ResumeWorkflow => Exists(workflow')
  BY SyncedRowStatus, NeverAbsent DEF FinishCreation, ResumeWorkflow, Exists
<1>3. \A s : CompleteStep(s) \/ FailStep(s) \/ ResumeStep(s) =>
        Exists(workflow')
  <2>1. \A s : CompleteStep(s) => Exists(workflow')
    BY SyncedRowStatus, NeverAbsent DEF CompleteStep, Exists
  <2>2. \A s : FailStep(s) => Exists(workflow')
    BY SyncedRowStatus, NeverAbsent DEF FailStep, Exists
  <2>3. \A s : ResumeStep(s) => Exists(workflow')
    BY SyncedRowStatus, NeverAbsent DEF ResumeStep, Exists
  <2> QED BY <2>1, <2>2, <2>3
<1>4. \A s, gate : BlockStep(s, gate) /\ gate # "ABSENT" =>
        Exists(workflow')
  BY SyncedRowStatus, Zenon DEF BlockStep, Exists
<1>5. \A gate : BlockWorkflow(gate) /\ gate # "ABSENT" =>
        Exists(workflow')
  BY GatedRow, Zenon DEF BlockWorkflow, RowComesFirst, Exists
<1> QED BY <1>1, <1>2, <1>3, <1>4, <1>5

LEMMA ExistingRowComesFirst ==
  Exists(workflow') => RowComesFirst'
BY DEF Exists, RowComesFirst

LEMMA UntouchedRowComesFirst ==
  RowComesFirst /\ UNCHANGED engineVars => RowComesFirst'
BY DEF RowComesFirst, engineVars

----------------------------------------------------------------------------
(* The row comes first: one step per kind of action. *)

LEMMA SystemKeepsRowFirst ==
  ASSUME RowComesFirst, SystemNext
  PROVE  RowComesFirst'
<1> USE ExistingRowComesFirst, UntouchedRowComesFirst, OperationsLeaveARow
<1>1. CASE RootStep
  <2>1. CASE \/ GoalInterpreter \/ Regulation \/ PlanningSkipped
             \/ AgentGivesUp
    BY <2>1 DEF GoalInterpreter, Regulation, PlanningSkipped, AgentGivesUp
  <2>2. CASE WorkflowPlanner
    BY <2>2 DEF WorkflowPlanner
  <2>3. CASE Eligibility
    <3>1. CASE UNCHANGED engineVars
      BY <3>1
    <3>2. CASE BlockWorkflow(IF finding' = "ineligible" THEN "BLOCKED"
                             ELSE "WAITING_FOR_USER")
      BY <3>2
    <3> QED BY <2>3, <3>1, <3>2 DEF Eligibility
  <2>4. CASE WorkflowCreated
    BY <2>4 DEF WorkflowCreated
  <2> QED BY <1>1, <2>1, <2>2, <2>3, <2>4 DEF RootStep
<1>2. CASE UserStep
  BY <1>2 DEF UserStep, PublishManualEvent
<1>3. ASSUME NEW t \in Threads, CascadeStep(t) PROVE RowComesFirst'
  <2>1. CASE \/ DocumentAgent(t) \/ DocumentAgentContinues(t)
             \/ DepartmentRouter(t) \/ ApplicationAgent(t)
             \/ StatusMonitor(t) \/ PollRateLimited(t) \/ PollStatus(t)
    BY <2>1 DEF DocumentAgent, DocumentAgentContinues, DepartmentRouter,
                ApplicationAgent, StatusMonitor, PollRateLimited, PollStatus
  <2>2. CASE OnApplicationApproved(t)
    BY <2>2 DEF OnApplicationApproved
  <2>3. CASE OnApplicationRejected(t)
    BY <2>3 DEF OnApplicationRejected
  <2>4. CASE OnDocumentMissing(t)
    BY <2>4 DEF OnDocumentMissing
  <2>5. CASE OnWorkflowResumed(t)
    BY <2>5 DEF OnWorkflowResumed
  <2> QED BY <1>3, <2>1, <2>2, <2>3, <2>4, <2>5 DEF CascadeStep
<1> QED BY <1>1, <1>2, <1>3 DEF SystemNext

\* What a repeated handler wrote, or did not: there was a graph, so there was
\* a row.
LEMMA UnrecordedKeepsRowFirst ==
  ASSUME RowComesFirst, NEW g, NEW row, Exists(row), Unrecorded(g, row)
  PROVE  RowComesFirst'
BY DEF RowComesFirst, Exists, Unrecorded

LEMMA FaultKeepsRowFirst ==
  ASSUME RowComesFirst, WriteFails
  PROVE  RowComesFirst'
<1>1. CASE CreationFails
  BY <1>1 DEF CreationFails, AbsentRow, RowComesFirst
<1>2. CASE FirstClaimLost
  <2> DEFINE claimed == ClaimReadySteps(graph)
             row == SyncedRow(claimed, GraphStatus(claimed))
  <2>1. Exists(row)
    BY SyncedRowStatus, NeverAbsent DEF Exists
  <2>2. workflow' \in {workflow, row} /\ creating
    BY <1>2 DEF FirstClaimLost
  <2> HIDE DEF row
  <2>3. Exists(workflow')
    BY <2>1, <2>2 DEF Exists, RowComesFirst
  <2> QED BY <2>3, ExistingRowComesFirst
<1>3. CASE EligibilityRepeated
  <2>1. PICK f \in Findings \ {"eligible"} :
          BlockWorkflow(IF f = "ineligible" THEN "BLOCKED"
                        ELSE "WAITING_FOR_USER")
    BY <1>3 DEF EligibilityRepeated
  <2> QED BY <2>1, OperationsLeaveARow, ExistingRowComesFirst
<1>4. ASSUME \/ AuditFails
             \/ \E t \in Threads : \/ DocumentsRepeated(t)
                                  \/ SubmissionRepeated(t) \/ PollingDies(t)
      PROVE  RowComesFirst'
  BY <1>4, UntouchedRowComesFirst
  DEF AuditFails, vars, DocumentsRepeated, SubmissionRepeated, PollingDies
<1>5. ASSUME NEW t \in Threads, HandlerRepeated(t)
      PROVE  RowComesFirst'
  <2>1. \A marked, resumed :
          UnrecordedClaim(marked, resumed) => RowComesFirst'
    <3> SUFFICES ASSUME NEW marked, NEW resumed,
                        UnrecordedClaim(marked, resumed)
                 PROVE  RowComesFirst'
      OBVIOUS
    <3> DEFINE g == ClaimReadySteps(marked)
               row == SyncedRow(g, IF resumed THEN "RUNNING"
                                   ELSE GraphStatus(g))
    <3>1. Unrecorded(g, row)
      BY DEF UnrecordedClaim
    <3>2. Exists(row)
      BY SyncedRowStatus, NeverAbsent DEF Exists
    <3> QED BY <3>1, <3>2, UnrecordedKeepsRowFirst
  <2> DEFINE s == chain[t].step
             failed == MarkStepStatus(graph, s, "FAILED")
             failedRow == SyncedRow(failed, GraphStatus(failed))
             blocked == MarkStepStatus(graph, s, "BLOCKED")
             gate == IF chain[t].at = "DOCUMENT_MISSING"
                     THEN "WAITING_FOR_USER" ELSE "BLOCKED"
             blockedRow == [SyncedRow(blocked, gate) EXCEPT
                              !.current = workflow.current]
  <2>2. Unrecorded(failed, failedRow) => RowComesFirst'
    <3>1. Exists(failedRow)
      BY SyncedRowStatus, NeverAbsent DEF Exists
    <3> QED BY <3>1, UnrecordedKeepsRowFirst
  <2>3. Unrecorded(blocked, blockedRow) => RowComesFirst'
    <3>1. "status" \in DOMAIN blockedRow /\ blockedRow.status = gate
      BY SyncedRowStatus, Zenon
    <3>2. gate # "ABSENT"
      OBVIOUS
    <3> HIDE DEF blockedRow, gate
    <3>3. Exists(blockedRow)
      BY <3>1, <3>2 DEF Exists
    <3> QED BY <3>3, UnrecordedKeepsRowFirst
  <2> QED BY <1>5, <2>1, <2>2, <2>3, Zenon DEF HandlerRepeated
<1> QED BY <1>1, <1>2, <1>3, <1>4, <1>5 DEF WriteFails, PlanFails

LEMMA FaultNextKeepsRowFirst ==
  ASSUME RowComesFirst, [FaultNext]_faultVars
  PROVE  RowComesFirst'
<1>1. CASE SystemNext
  BY <1>1, SystemKeepsRowFirst
<1>2. CASE WriteFails
  BY <1>2, FaultKeepsRowFirst
<1>3. CASE SystemRestarts
  BY <1>3, UntouchedRowComesFirst DEF SystemRestarts, Restart, RowComesFirst
<1>4. CASE \E t \in Threads : ResumedWithoutGraph(t)
  BY <1>4, UntouchedRowComesFirst DEF ResumedWithoutGraph
<1>5. CASE UNCHANGED faultVars
  BY <1>5, UntouchedRowComesFirst DEF faultVars, vars
<1>6. CASE PlannerRepeated
  BY <1>6 DEF PlannerRepeated, RowComesFirst
<1> QED BY <1>1, <1>2, <1>3, <1>4, <1>5, <1>6 DEF FaultNext

----------------------------------------------------------------------------
(* After a restart. *)

\* What a step after a restart may change: requests come, their handlers end,
\* and the process may restart again.
StaysFrozen ==
  /\ FrozenAfterRestart'
  /\ ~hasGraph
  /\ UNCHANGED <<workflow, graph, applications>>

\* A thread becomes one that rests.
LEMMA RestingThread ==
  ASSUME chain = [t \in Threads |-> chain[t]],
         \A t \in Threads : chain[t].at \in Resting,
         NEW u, NEW f, f.at \in Resting, Become(u, f)
  PROVE  /\ chain' = [t \in Threads |-> chain'[t]]
         /\ \A t \in Threads : chain'[t].at \in Resting
BY DEF Become

LEMMA FrozenStays ==
  ASSUME FrozenInvariant, restarts > 0, [FaultNext]_faultVars
  PROVE  StaysFrozen
<1>1. /\ ~hasGraph /\ graph = InitialGraph
      /\ chain = [t \in Threads |-> chain[t]]
      /\ \A t \in Threads : chain[t].at \in Resting
      /\ Root \in Threads
  BY DEF FrozenInvariant, FrozenAfterRestart, Threads
<1>2. ~RootStep
  BY <1>1 DEF RootStep, GoalInterpreter, Regulation, PlanningSkipped,
              WorkflowPlanner, Eligibility, AgentGivesUp, WorkflowCreated,
              Resting
<1>3. ASSUME NEW t \in Threads PROVE ~CascadeStep(t)
  <2>1. chain[t].at \in Resting
    BY <1>1
  <2>2. ~OnWorkflowResumed(t)
    BY <1>1 DEF OnWorkflowResumed, ResumeWorkflow, FailStep, ResumeStep
  <2>3. /\ ~DocumentAgent(t) /\ ~DocumentAgentContinues(t)
        /\ ~DepartmentRouter(t) /\ ~ApplicationAgent(t) /\ ~StatusMonitor(t)
        /\ ~PollRateLimited(t) /\ ~PollStatus(t)
        /\ ~OnApplicationApproved(t) /\ ~OnApplicationRejected(t)
        /\ ~OnDocumentMissing(t)
    BY <2>1, Zenon
       DEF DocumentAgent, DocumentAgentContinues, DepartmentRouter,
           ApplicationAgent, StatusMonitor, PollRateLimited, PollStatus,
           OnApplicationApproved, OnApplicationRejected, OnDocumentMissing,
           Resting
  <2> QED BY <2>2, <2>3 DEF CascadeStep
<1>4. ~WriteFails
  <2>1. ~PlanFails /\ ~EligibilityRepeated
    BY <1>1 DEF PlanFails, CreationFails, FirstClaimLost, AuditFails,
                EligibilityRepeated, Resting
  <2>2. ASSUME NEW t \in Threads
        PROVE  ~DocumentsRepeated(t) /\ ~SubmissionRepeated(t) /\ ~PollingDies(t)
    BY <1>1 DEF DocumentsRepeated, SubmissionRepeated, PollingDies, Resting
  <2>3. ASSUME NEW t \in Threads PROVE ~HandlerRepeated(t)
    BY <1>1 DEF HandlerRepeated, UnrecordedClaim, Unrecorded
  <2> QED BY <2>1, <2>2, <2>3 DEF WriteFails
<1>5. CASE UserStep /\ UNCHANGED disturbances
  <2>1. PICK s \in Steps \cup {NoStep}, action \in {"retry", "abandon"} :
          PublishManualEvent(s, action)
    BY <1>5 DEF UserStep
  <2> DEFINE f == [Handling("WORKFLOW_RESUMED", s) EXCEPT !.action = action]
  <2>2. f.at \in Resting
    BY DEF Handling, Idle, Resting
  <2>3. Become(Resume(Len(requests')), f)
    BY <2>1 DEF PublishManualEvent
  <2>4. ~hasGraph' /\ UNCHANGED <<workflow, graph, applications>>
    BY <1>1, <2>1 DEF PublishManualEvent, engineVars
  <2> HIDE DEF f
  <2>5. /\ chain' = [t \in Threads |-> chain'[t]]
        /\ \A t \in Threads : chain'[t].at \in Resting
    BY <1>1, <2>2, <2>3, RestingThread
  <2> QED BY <1>1, <2>4, <2>5 DEF StaysFrozen, FrozenAfterRestart
<1>6. ~PlannerRepeated
  BY <1>1 DEF PlannerRepeated
<1>7. CASE SystemRestarts
  <2>1. /\ chain' = [t \in Threads |-> IF Alive(t) THEN Done ELSE chain[t]]
        /\ UNCHANGED <<workflow, applications>>
        /\ graph' = graph \/ graph' = InitialGraph
        /\ hasGraph' = hasGraph \/ ~hasGraph'
    BY <1>7 DEF SystemRestarts, Restart, engineVars
  <2>2. /\ chain' = [t \in Threads |-> chain'[t]]
        /\ \A t \in Threads : chain'[t].at \in Resting
    BY <1>1, <2>1 DEF Done, Idle, Resting
  <2>3. /\ UNCHANGED <<workflow, graph, applications>>
        /\ ~hasGraph /\ ~hasGraph' /\ graph' = InitialGraph
    <3>1. ~hasGraph /\ graph = InitialGraph
      BY <1>1
    <3>2. graph' = InitialGraph
      BY <2>1, <3>1
    <3>3. ~hasGraph'
      BY <2>1, <3>1, Zenon
    <3>4. workflow' = workflow /\ applications' = applications
      BY <2>1
    <3> QED BY <3>1, <3>2, <3>3, <3>4
  <2>4. FrozenAfterRestart'
    BY <2>2, <2>3, Zenon DEF FrozenAfterRestart
  <2> QED BY <2>3, <2>4 DEF StaysFrozen
<1>8. ASSUME NEW t \in Threads, ResumedWithoutGraph(t) PROVE StaysFrozen
  <2>1. Become(t, Done) /\ UNCHANGED <<engineVars, applications>>
    BY <1>8 DEF ResumedWithoutGraph
  <2>2. Done.at \in Resting
    BY DEF Done, Idle, Resting
  <2>3. /\ chain' = [u \in Threads |-> chain'[u]]
        /\ \A u \in Threads : chain'[u].at \in Resting
    BY <1>1, <2>1, <2>2, RestingThread
  <2> QED BY <1>1, <2>1, <2>3
          DEF StaysFrozen, FrozenAfterRestart, engineVars
<1>9. CASE UNCHANGED faultVars
  BY <1>1, <1>9
     DEF StaysFrozen, FrozenAfterRestart, faultVars, vars, engineVars
<1> QED
  BY <1>2, <1>3, <1>4, <1>5, <1>6, <1>7, <1>8, <1>9 DEF FaultNext, SystemNext

\* The first restart makes the system frozen.
LEMMA RestartFreezes ==
  ASSUME FrozenInvariant, SystemRestarts
  PROVE  FrozenAfterRestart'
<1>1. ~hasGraph' /\ graph' = InitialGraph
  BY DEF FrozenInvariant, RowComesFirst, SystemRestarts, Restart, engineVars
<1>2. chain' = [t \in Threads |-> IF Alive(t) THEN Done ELSE chain[t]]
  BY DEF SystemRestarts
<1>3. /\ chain' = [t \in Threads |-> chain'[t]]
      /\ \A t \in Threads : chain'[t].at \in Resting
  BY <1>2 DEF Alive, Done, Idle, Resting
<1> QED BY <1>1, <1>3 DEF FrozenAfterRestart

LEMMA FaultNextKeepsFrozen ==
  ASSUME FrozenInvariant, [FaultNext]_faultVars
  PROVE  FrozenInvariant'
<1>1. RowComesFirst'
  BY FaultNextKeepsRowFirst DEF FrozenInvariant
<1>2. /\ restarts' \in Nat
      /\ restarts' = restarts \/ SystemRestarts
  BY DEF FrozenInvariant, FaultNext, WriteFails, Fault, PlannerRepeated,
         SystemRestarts, ResumedWithoutGraph, disturbances, faultVars
<1>3. FrozenAfterRestart'
  <2>1. CASE restarts > 0
    BY <2>1, FrozenStays DEF StaysFrozen
  <2>2. CASE SystemRestarts
    BY <2>2, RestartFreezes
  <2>3. CASE ~(restarts > 0) /\ restarts' = restarts
    BY <2>3 DEF FrozenAfterRestart
  <2> QED BY <1>2, <2>1, <2>2, <2>3
<1> QED BY <1>1, <1>2, <1>3 DEF FrozenInvariant

----------------------------------------------------------------------------
(* Theorems *)

LEMMA FaultInitFrozen == FaultInit => FrozenInvariant
BY DEF FaultInit, SystemInit, Init, AbsentRow, FrozenInvariant, RowComesFirst,
       FrozenAfterRestart

\* Whatever writes fail and however often the process restarts: a graph has a
\* row, and after a restart there is no graph and no thread that would look
\* for one to change.
THEOREM RestartCorrect == FaultSpec => []FrozenInvariant
<1>1. FaultInit => FrozenInvariant
  BY FaultInitFrozen
<1>2. FrozenInvariant /\ [FaultNext]_faultVars => FrozenInvariant'
  BY FaultNextKeepsFrozen
<1> QED BY <1>1, <1>2, PTL DEF FaultSpec

\* After a restart the row is all there is: no request, of whatever kind,
\* changes it or makes an application, so nothing is done twice
\* (_on_workflow_resumed returns when has_graph is false).
THEOREM NothingAfterARestart == FaultSpec => GraphlessIsFrozen
<1>1. ASSUME FrozenInvariant, [FaultNext]_faultVars
      PROVE  [Lost => ~hasGraph /\ UNCHANGED <<workflow, graph, applications>>]_faultVars
  BY <1>1, FrozenStays DEF Lost, StaysFrozen
<1> QED BY <1>1, RestartCorrect, PTL DEF FaultSpec, GraphlessIsFrozen

----------------------------------------------------------------------------
(* What a failed write does, by what it leaves of the thread it happens to. *)

\* The planner's attempt is over, and what it has claimed is lost.
GiveUpHop ==
  /\ chain[Root].at \in RootAt
  /\ chain' = [chain EXCEPT ![Root] = Done]
  /\ \A s \in Steps : graph'[s] = "PENDING" => graph[s] = "PENDING"
  /\ UNCHANGED <<applications, requests, completions>>

\* A handler has changed the graph or the row and will do so again.
RepeatHop == UNCHANGED <<chain, applications, requests, completions>>

\* DocumentAgent's handler, for the steps S, from its first line.
FirstLine(S) == [Idle EXCEPT !.at = "NEXT_ACTION_TRIGGERED", !.steps = S]

\* DocumentAgent's loop is repeated.
LoopHop(t) ==
  /\ "validate" \notin Failing
  /\ chain[t].at \in {"NEXT_ACTION_TRIGGERED", "checklist"}
  /\ FirstLine(chain[t].steps) \in Frames
  /\ chain' = [chain EXCEPT ![t] = FirstLine(chain[t].steps)]
  /\ UNCHANGED <<graph, applications, requests, completions>>

LEMMA UnrecordedTypes ==
  ASSUME TypeOK, NEW g \in [Steps -> StepStatus], NEW row \in Row,
         row.status # "ABSENT", Unrecorded(g, row)
  PROVE  TypeOK' /\ Unstarted'
<1>1. /\ graph' = g /\ hasGraph /\ workflow' \in {workflow, row}
      /\ hasGraph' = hasGraph /\ creating' = creating
  BY DEF Unrecorded
<1>2. workflow' \in Row /\ workflow'.status # "ABSENT"
  BY <1>1 DEF TypeOK
<1> QED BY <1>1, <1>2, WrittenTypes DEF TypeOK

LEMMA UnrecordedClaims ==
  ASSUME TypeOK, NEW m \in [Steps -> StepStatus], NEW resumed \in BOOLEAN,
         UnrecordedClaim(m, resumed)
  PROVE  TypeOK' /\ Unstarted'
<1> DEFINE g == ClaimReadySteps(m)
           status == IF resumed THEN "RUNNING" ELSE GraphStatus(g)
<1>1. g \in [Steps -> StepStatus]
  BY GraphAssumption, GraphOperatorsType DEF GraphAssumption, StepStatus
<1>2. Unrecorded(g, SyncedRow(g, status))
  BY DEF UnrecordedClaim
<1> HIDE DEF g
<1>3. status \in WorkflowStatus
  BY <1>1, GraphStatusFacts DEF WorkflowStatus
<1> HIDE DEF status
<1>4. SyncedRow(g, status) \in Row /\ SyncedRow(g, status).status # "ABSENT"
  BY <1>1, <1>3, SyncedRowFacts DEF WorkflowStatus
<1> QED BY <1>1, <1>2, <1>4, UnrecordedTypes

LEMMA RepeatedHandlers ==
  ASSUME SystemBase, NEW t \in Threads, HandlerRepeated(t)
  PROVE  TypeOK' /\ Unstarted' /\ RepeatHop
<1> DEFINE s == chain[t].step
           at == chain[t].at
<1>1. TypeOK /\ graph \in [Steps -> StepStatus] /\ workflow \in Row
  BY DEF SystemBase, TypeOK
<1>2. /\ s \in Steps \cup {NoStep}
      /\ at \in {"APPLICATION_APPROVED", "APPLICATION_REJECTED",
                 "DOCUMENT_MISSING"} => s \in Steps
  BY DEF SystemBase, FramesTyped, Frames, FrameShape, Carried, VerdictAt
<1>3. UNCHANGED <<chain, applications, requests, completions>>
  BY DEF HandlerRepeated
<1> HIDE DEF s, at
<1>4. ASSUME NEW status \in StepStatus, s \in Steps
      PROVE  MarkStepStatus(graph, s, status) \in [Steps -> StepStatus]
  BY <1>1, <1>4, GraphOperatorsType
<1>5. ASSUME NEW status \in StepStatus, NEW resumed \in BOOLEAN, s \in Steps,
             UnrecordedClaim(MarkStepStatus(graph, s, status), resumed)
      PROVE  TypeOK' /\ Unstarted'
  <2> DEFINE m == MarkStepStatus(graph, s, status)
  <2>1. m \in [Steps -> StepStatus]
    BY <1>4, <1>5
  <2>2. UnrecordedClaim(m, resumed)
    BY <1>5
  <2> HIDE DEF m
  <2> QED BY <1>1, <2>1, <2>2, UnrecordedClaims
<1>6. ASSUME UnrecordedClaim(graph, TRUE)
      PROVE  TypeOK' /\ Unstarted'
  BY <1>1, <1>6, UnrecordedClaims
<1>7. ASSUME NEW status \in StepStatus, s \in Steps, NEW row \in Row,
             row.status # "ABSENT",
             Unrecorded(MarkStepStatus(graph, s, status), row)
      PROVE  TypeOK' /\ Unstarted'
  BY <1>1, <1>4, <1>7, UnrecordedTypes
<1>8. {"COMPLETED", "PENDING", "FAILED", "BLOCKED"} \subseteq StepStatus
  BY DEF StepStatus
<1> DEFINE failed == MarkStepStatus(graph, s, "FAILED")
           Abandoned == Unrecorded(failed, SyncedRow(failed, GraphStatus(failed)))
           blocked == MarkStepStatus(graph, s, "BLOCKED")
           gate == IF at = "DOCUMENT_MISSING" THEN "WAITING_FOR_USER"
                   ELSE "BLOCKED"
           blockedRow == [SyncedRow(blocked, gate) EXCEPT
                            !.current = workflow.current]
           Halted == Unrecorded(blocked, blockedRow)
<1>9. ASSUME s \in Steps, Abandoned PROVE TypeOK' /\ Unstarted'
  <2> DEFINE row == SyncedRow(failed, GraphStatus(failed))
  <2>1. failed \in [Steps -> StepStatus]
    BY <1>4, <1>8, <1>9
  <2>2. row \in Row /\ row.status # "ABSENT"
    <3> HIDE DEF failed
    <3>1. "ABSENT" \notin WorkflowStatus
      BY DEF WorkflowStatus
    <3> QED BY <2>1, <3>1, SyncedRowFacts, GraphStatusFacts
  <2>3. Unrecorded(MarkStepStatus(graph, s, "FAILED"), row)
    BY <1>9
  <2> HIDE DEF row
  <2> QED BY <1>7, <1>8, <1>9, <2>2, <2>3
<1>10. ASSUME s \in Steps, Halted PROVE TypeOK' /\ Unstarted'
  <2>1. blocked \in [Steps -> StepStatus]
    BY <1>4, <1>8, <1>10
  <2>2. gate \in GateStatus /\ gate # "ABSENT"
    BY DEF GateStatus
  <2>3. blockedRow \in Row /\ blockedRow.status # "ABSENT"
    <3> HIDE DEF blocked, gate
    <3> QED BY <1>1, <2>1, <2>2, BlockedRow
  <2>4. Unrecorded(MarkStepStatus(graph, s, "BLOCKED"), blockedRow)
    BY <1>10
  <2> HIDE DEF blockedRow
  <2> QED BY <1>7, <1>8, <1>10, <2>3, <2>4
<1>11. TypeOK' /\ Unstarted'
  <2>1. \/ /\ at = "APPLICATION_APPROVED"
           /\ UnrecordedClaim(MarkStepStatus(graph, s, "COMPLETED"), FALSE)
        \/ UnrecordedClaim(graph, TRUE)
        \/ /\ s # NoStep
           /\ UnrecordedClaim(MarkStepStatus(graph, s, "PENDING"), TRUE)
        \/ s # NoStep /\ Abandoned
        \/ at \in {"APPLICATION_REJECTED", "DOCUMENT_MISSING"} /\ Halted
    BY Zenon DEF HandlerRepeated, s, at
  <2> HIDE DEF Abandoned, Halted
  <2> QED BY <1>2, <1>5, <1>6, <1>8, <1>9, <1>10, <2>1
<1> QED BY <1>3, <1>11 DEF RepeatHop

\* What a claim leaves PENDING was PENDING.
LEMMA ClaimedWasPending ==
  ASSUME graph \in [Steps -> StepStatus]
  PROVE  \A s \in Steps :
           ClaimReadySteps(graph)[s] = "PENDING" => graph[s] = "PENDING"
BY DEF ClaimReadySteps

LEMMA PlansFail ==
  ASSUME SystemBase, PlanFails
  PROVE  TypeOK' /\ Unstarted' /\ (GiveUpHop \/ UNCHANGED vars)
<1>1. TypeOK /\ Unstarted /\ graph \in [Steps -> StepStatus]
  BY DEF SystemBase, TypeOK
<1>2. CASE CreationFails
  <2>1. /\ graph' \in [Steps -> StepStatus]
        /\ workflow' \in Row /\ workflow'.status # "ABSENT"
    BY <1>2, CreatedRow DEF CreationFails
  <2>2. TypeOK' /\ Unstarted'
    BY <1>1, <1>2, <2>1, WrittenTypes DEF CreationFails, TypeOK
  <2>3. graph' = graph
    BY <1>1, <1>2 DEF CreationFails, Unstarted
  <2>4. GiveUpHop
    BY <1>2, <2>3 DEF CreationFails, GiveUpHop, Become, RootAt
  <2> QED BY <2>2, <2>4
<1>3. CASE FirstClaimLost
  <2> DEFINE g == ClaimReadySteps(graph)
             row == SyncedRow(g, GraphStatus(g))
  <2>1. g \in [Steps -> StepStatus]
    BY <1>1, GraphAssumption, GraphOperatorsType
    DEF GraphAssumption, StepStatus
  <2>2. row \in Row /\ row.status # "ABSENT"
    <3> HIDE DEF g
    <3>1. "ABSENT" \notin WorkflowStatus
      BY DEF WorkflowStatus
    <3> QED BY <2>1, <3>1, SyncedRowFacts, GraphStatusFacts
  <2>3. /\ workflow' \in {workflow, row} /\ graph' = g
        /\ creating' = FALSE /\ hasGraph' = hasGraph /\ hasGraph
    BY <1>1, <1>3 DEF FirstClaimLost, TypeOK
  <2>4. workflow' \in Row /\ workflow'.status # "ABSENT"
    BY <1>1, <2>2, <2>3 DEF TypeOK
  <2>5. GiveUpHop
    BY <1>1, <1>3, ClaimedWasPending
    DEF FirstClaimLost, GiveUpHop, Become, RootAt
  <2> HIDE DEF row, g
  <2> QED BY <2>1, <2>3, <2>4, <2>5, WrittenTypes
<1>4. CASE AuditFails
  <2>1. UNCHANGED engineVars
    BY <1>4 DEF AuditFails, vars
  <2> QED BY <1>1, <1>4, <2>1, TypesKept DEF AuditFails
<1> QED BY <1>2, <1>3, <1>4 DEF PlanFails

\* A polling task that dies has heard an answer.
LEMMA DeadPolls ==
  ASSUME SystemBase, NEW t \in Threads, PollingDies(t)
  PROVE  \E record : PollHop(t, Done, record)
<1> DEFINE a == chain[t].app
           old == applications[a]
           n == old.asked + 1
           answer == GovernmentAnswer(old.scenario, n)
           record == [old EXCEPT !.asked = n, !.status = answer]
<1>1. chain[t].at = "polling"
  BY DEF PollingDies
<1>2. a \in 1..Len(applications)
  BY <1>1 DEF SystemBase, OwnApplications, Asking
<1>3. old \in Application /\ applications \in Seq(Application)
  BY <1>2 DEF SystemBase, HistoryTyped
<1>4. answer \in {"PENDING", "APPROVED", "REJECTED", "DOCUMENT_MISSING"}
  BY Answers DEF PollingDies
<1>5. /\ chain' = [chain EXCEPT ![t] = Done]
      /\ UNCHANGED <<engineVars, requests, completions>>
  BY DEF PollingDies, Become
<1>6. applications' = [applications EXCEPT ![a] = record]
  BY <1>2, <1>3 DEF PollingDies
<1> HIDE DEF n, answer
<1>7. record.status = answer
  BY <1>3 DEF Application
<1>8. record = [old EXCEPT !.asked = n, !.status = record.status]
  BY <1>7
<1> HIDE DEF record, old
<1>9. PollHop(t, Done, record)
  <2>1. Done.at = "done" /\ Done.steps = {}
    BY SimpleFrames
  <2> QED BY <1>1, <1>4, <1>5, <1>6, <1>7, <1>8, <2>1
          DEF PollHop, n, old
<1> QED BY <1>9

\* DocumentAgent's handler starts over, with what its event says.
LEMMA LoopsRepeated ==
  ASSUME SystemBase, NEW t \in Threads, DocumentsRepeated(t)
  PROVE  LoopHop(t)
<1> DEFINE f == chain[t]
<1>1. f.at \in {"NEXT_ACTION_TRIGGERED", "checklist"} /\ f \in Frames
  BY DEF DocumentsRepeated, SystemBase, FramesTyped
<1>2. f.steps \in SUBSET Steps /\ f.steps # {}
  BY <1>1 DEF Frames, FrameShape, Todo, Carried
<1>3. FirstLine(f.steps) = Published(NextActionEvent(f.steps))
  BY <1>2 DEF FirstLine, Published, NextActionEvent
<1>4. FirstLine(f.steps) \in Frames
  BY <1>2, <1>3, PublishedFrame
<1> QED BY <1>4 DEF DocumentsRepeated, LoopHop, FirstLine, Become, engineVars

\* Every failed write but the planner's is one of four kinds.
LEMMA FaultHops ==
  ASSUME SystemBase, WriteFails
  PROVE  /\ TypeOK' /\ Unstarted'
         /\ faults < MaxFaults /\ faults' = faults + 1
         /\ UNCHANGED <<restarts, requests, completions, finding, gateStep>>
         /\ \/ /\ failedPlans = 0 /\ failedPlans' = 1
               /\ GiveUpHop \/ UNCHANGED vars
            \/ /\ failedPlans' = failedPlans
               /\ \E t \in Threads :
                    \/ RepeatHop \/ LoopHop(t) \/ SubmissionRepeated(t)
                    \/ \E record : PollHop(t, Done, record)
<1>1. faults < MaxFaults /\ faults' = faults + 1 /\ restarts' = restarts
  BY DEF WriteFails, Fault
<1>2. UNCHANGED <<requests, completions, finding, gateStep>>
  BY DEF WriteFails, PlanFails, CreationFails, FirstClaimLost, AuditFails,
         vars, EligibilityRepeated, DocumentsRepeated, SubmissionRepeated,
         PollingDies, HandlerRepeated
<1>3. TypeOK /\ Unstarted
  BY DEF SystemBase
<1>4. UNCHANGED engineVars => TypeOK' /\ Unstarted'
  BY <1>3, TypesKept
<1>5. CASE PlanFails
  BY <1>1, <1>2, <1>5, PlansFail DEF PlanFails
<1>6. ASSUME EligibilityRepeated
      PROVE  TypeOK' /\ Unstarted' /\ RepeatHop
  <2>1. \E gate \in GateStatus : BlockWorkflow(gate)
    BY <1>6 DEF EligibilityRepeated, GateStatus
  <2>2. TypeOK' /\ Unstarted'
    BY <1>3, <2>1, TypesKept DEF Next
  <2>3. RepeatHop
    BY <1>2, <1>6, <2>1, ThreadNames
    DEF EligibilityRepeated, RepeatHop, BlockWorkflow
  <2> QED BY <2>2, <2>3
<1>7. ASSUME NEW t \in Threads, SubmissionRepeated(t) \/ DocumentsRepeated(t)
      PROVE  TypeOK' /\ Unstarted' /\ (LoopHop(t) \/ SubmissionRepeated(t))
  BY <1>4, <1>7, LoopsRepeated DEF SubmissionRepeated, DocumentsRepeated
<1>8. ASSUME NEW t \in Threads, PollingDies(t)
      PROVE  TypeOK' /\ Unstarted' /\ \E record : PollHop(t, Done, record)
  BY <1>4, <1>8, DeadPolls DEF PollingDies
<1>9. ASSUME NEW t \in Threads, HandlerRepeated(t)
      PROVE  TypeOK' /\ Unstarted' /\ RepeatHop
  BY <1>9, RepeatedHandlers
<1>10. CASE ~PlanFails
  <2>1. failedPlans' = failedPlans
    BY <1>10 DEF WriteFails
  <2>2. Root \in Threads
    BY ThreadNames
  <2>3. \/ EligibilityRepeated
        \/ \E t \in Threads :
             \/ DocumentsRepeated(t) \/ SubmissionRepeated(t)
             \/ PollingDies(t) \/ HandlerRepeated(t)
    BY <1>10 DEF WriteFails
  <2> QED BY <1>1, <1>2, <1>6, <1>7, <1>8, <1>9, <2>1, <2>2, <2>3
<1> QED BY <1>5, <1>10

----------------------------------------------------------------------------
(* What the backend's base invariant makes of them.                          *)

\* The application is submitted, and nothing else is done: nobody files it.
LEMMA ResubmissionKeepsBase ==
  ASSUME SystemBase, NEW t \in Threads, SubmissionRepeated(t)
  PROVE  FramesTyped' /\ HistoryTyped' /\ Roles' /\ OwnApplications'
<1> DEFINE n == Len(applications)
<1>1. /\ chain[t].step \in Steps
      /\ chain' = chain /\ requests' = requests /\ completions' = completions
  BY DEF SystemBase, FramesTyped, Frames, FrameShape, LoopAt, Carried,
         SubmissionRepeated
<1>2. PICK scenario \in Scenarios :
        applications' = Append(applications, Submitted(chain[t].step, scenario))
  BY DEF SubmissionRepeated
<1>3. Submitted(chain[t].step, scenario) \in Application
  BY <1>1, GovFlowAssumption DEF Submitted, Application, GovFlowAssumption
<1>4. /\ applications \in Seq(Application) /\ n \in Nat
      /\ applications' \in Seq(Application) /\ Len(applications') = n + 1
      /\ \A a \in 1..n : applications'[a] = applications[a]
  BY <1>2, <1>3 DEF SystemBase, HistoryTyped
<1>5. FramesTyped' /\ HistoryTyped' /\ Roles'
  BY <1>1, <1>4 DEF SystemBase, FramesTyped, HistoryTyped, Roles
<1> HIDE DEF n
<1>6. \A u \in Threads : Asking(u) => Asking(u)'
  BY <1>1, <1>4 DEF Asking, n
<1>7. \A u \in Threads : Filing(u) => Filing(u)'
  BY <1>1, <1>4 DEF Filing, n
<1>8. \A a \in 1..MaxApplications :
        a > n + 1 => chain[Poll(a)].at = "idle"
  BY <1>4 DEF SystemBase, OwnApplications, n
<1>9. OwnApplications'
  BY <1>1, <1>4, <1>6, <1>7, <1>8 DEF SystemBase, OwnApplications
<1> QED BY <1>5, <1>9

LEMMA FaultKeepsBase ==
  ASSUME SystemBase, WriteFails
  PROVE  SystemBase'
<1> DEFINE Rest == FramesTyped /\ HistoryTyped /\ Roles /\ OwnApplications
<1>1. TypeOK' /\ Unstarted'
  BY FaultHops
<1>2. ASSUME GiveUpHop PROVE Rest'
  <2>1. Root \in Threads /\ Done \in Frames /\ Done.at = "done"
    BY ThreadNames, SimpleFrames
  <2>2. /\ chain' = [chain EXCEPT ![Root] = Done]
        /\ UNCHANGED <<applications, requests>> /\ completions' = completions
        /\ Done.at \notin VerdictAt \cup {"APPLICATION_SUBMITTED",
                                          "WORKFLOW_RESUMED"}
        /\ chain[Root].at # "idle"
    BY <1>2, <2>1 DEF GiveUpHop, RootAt, VerdictAt
  <2>3. FramesTyped' /\ Roles' /\ OwnApplications'
    BY <2>1, <2>2, PlainUpdate
  <2> QED BY <2>2, <2>3 DEF SystemBase, HistoryTyped
<1>3. ASSUME RepeatHop PROVE Rest'
  BY <1>3 DEF RepeatHop, SystemBase, FramesTyped, HistoryTyped, Roles,
              OwnApplications, Asking, Filing
<1>4. ASSUME UNCHANGED vars PROVE Rest'
  BY <1>3, <1>4 DEF vars, RepeatHop
<1>5. ASSUME NEW t \in Threads, LoopHop(t) PROVE Rest'
  <2>1. PICK g \in Frames : g = FirstLine(chain[t].steps)
    BY <1>5 DEF LoopHop
  <2>2. g.at = "NEXT_ACTION_TRIGGERED"
    BY <2>1 DEF FirstLine, Idle
  <2>3. /\ chain' = [chain EXCEPT ![t] = g]
        /\ UNCHANGED <<applications, requests>> /\ completions' = completions
        /\ g.at \notin VerdictAt \cup {"APPLICATION_SUBMITTED",
                                      "WORKFLOW_RESUMED"}
        /\ g.at \notin RootAt
        /\ chain[t].at # "idle"
    BY <1>5, <2>1, <2>2 DEF LoopHop, RootAt, VerdictAt
  <2>4. FramesTyped' /\ Roles' /\ OwnApplications'
    BY <2>3, PlainUpdate
  <2> QED BY <2>3, <2>4 DEF SystemBase, HistoryTyped
<1>6. ASSUME NEW t \in Threads, SubmissionRepeated(t) PROVE Rest'
  BY <1>6, ResubmissionKeepsBase
<1>7. ASSUME NEW t \in Threads, NEW record, PollHop(t, Done, record)
      PROVE  Rest'
  BY <1>7, PollKeepsBase, SimpleFrames
<1>8. Rest'
  <2> HIDE DEF Rest
  <2> QED BY <1>2, <1>3, <1>4, <1>5, <1>6, <1>7, FaultHops
<1> QED BY <1>1, <1>8 DEF SystemBase

\* The planner's further attempts touch the graph only.
LEMMA PlannerKeepsBase ==
  ASSUME SystemBase, PlannerRepeated
  PROVE  SystemBase'
<1>1. /\ graph' = InitialGraph /\ hasGraph
      /\ UNCHANGED <<workflow, hasGraph, creating, chain, applications,
                     requests, completions>>
  BY DEF PlannerRepeated
<1>2. TypeOK' /\ Unstarted'
  <2>1. InitialGraph \in [Steps -> StepStatus]
    BY DEF InitialGraph, StepStatus
  <2> QED BY <1>1, <2>1 DEF SystemBase, TypeOK, Unstarted
<1>3. FramesTyped' /\ HistoryTyped' /\ Roles' /\ OwnApplications'
  BY <1>1 DEF SystemBase, FramesTyped, HistoryTyped, Roles, OwnApplications,
              Asking, Filing
<1> QED BY <1>2, <1>3 DEF SystemBase

\* A restart ends every thread that has started.
LEMMA RestartEnds ==
  ASSUME SystemBase, SystemRestarts
  PROVE  /\ FramesTyped'
         /\ \A t \in Threads : chain'[t] = IF Alive(t) THEN Done ELSE chain[t]
         /\ \A t \in Threads : chain'[t].at \in {"idle", "done"}
         /\ \A t \in Threads : chain'[t].at = "idle" <=> chain[t].at = "idle"
<1>1. chain' = [t \in Threads |-> IF Alive(t) THEN Done ELSE chain[t]]
  BY DEF SystemRestarts
<1>2. \A t \in Threads : chain'[t] = IF Alive(t) THEN Done ELSE chain[t]
  BY <1>1
<1>3. FramesTyped'
  BY <1>1, SimpleFrames DEF SystemBase, FramesTyped
<1>4. Done.at = "done"
  BY SimpleFrames
<1> HIDE DEF Done
<1> QED BY <1>2, <1>3, <1>4 DEF Alive

LEMMA RestartKeepsBase ==
  ASSUME SystemBase, SystemRestarts
  PROVE  SystemBase'
<1>1. TypeOK' /\ Unstarted'
  <2>1. [Next]_engineVars
    BY DEF SystemRestarts, Next
  <2> QED BY <2>1, TypesKept DEF SystemBase
<1>2. HistoryTyped'
  BY DEF SystemRestarts, SystemBase, HistoryTyped
<1>3. Len(applications') = Len(applications) /\ Len(requests') = Len(requests)
  BY DEF SystemRestarts
<1>4. Roles'
  <2>1. \A r \in 1..MaxRequests :
          r > Len(requests') => chain'[Resume(r)].at = "idle"
    BY <1>3, RestartEnds, ThreadNames DEF SystemBase, Roles
  <2>2. \A t \in Threads :
          chain'[t].at \notin RootAt \cup VerdictAt \cup {"WORKFLOW_RESUMED"}
    BY RestartEnds DEF RootAt, VerdictAt
  <2> QED BY <2>1, <2>2 DEF Roles
<1>5. OwnApplications'
  <2>1. \A a \in 1..MaxApplications :
          a > Len(applications') => chain'[Poll(a)].at = "idle"
    BY <1>3, RestartEnds, PollThreads DEF SystemBase, OwnApplications
  <2>2. \A t \in Threads :
          chain'[t].at \notin {"polling", "APPLICATION_SUBMITTED"}
    BY RestartEnds
  <2> QED BY <2>1, <2>2 DEF OwnApplications
<1> QED BY <1>1, <1>2, <1>4, <1>5, RestartEnds DEF SystemBase

LEMMA GraphlessKeepsBase ==
  ASSUME SystemBase, NEW t \in Threads, ResumedWithoutGraph(t)
  PROVE  SystemBase'
<1>1. Done \in Frames /\ Done.at = "done"
  BY SimpleFrames
<1>2. /\ chain' = [chain EXCEPT ![t] = Done]
      /\ UNCHANGED <<applications, requests>> /\ completions' = completions
      /\ Done.at \notin VerdictAt \cup {"APPLICATION_SUBMITTED",
                                        "WORKFLOW_RESUMED"}
      /\ Done.at \notin RootAt
      /\ chain[t].at # "idle"
  BY <1>1 DEF ResumedWithoutGraph, Become, RootAt, VerdictAt
<1>3. FramesTyped' /\ Roles' /\ OwnApplications'
  BY <1>1, <1>2, PlainUpdate
<1>4. TypeOK' /\ Unstarted'
  BY TypesKept DEF ResumedWithoutGraph, SystemBase
<1> QED BY <1>2, <1>3, <1>4 DEF SystemBase, HistoryTyped

LEMMA FaultNextKeepsBase ==
  ASSUME SystemBase, [FaultNext]_faultVars
  PROVE  SystemBase'
<1>1. CASE SystemNext \/ UNCHANGED faultVars
  BY <1>1, NextKeepsBase DEF faultVars
<1>2. CASE WriteFails
  BY <1>2, FaultKeepsBase
<1>3. CASE SystemRestarts
  BY <1>3, RestartKeepsBase
<1>4. CASE \E t \in Threads : ResumedWithoutGraph(t)
  BY <1>4, GraphlessKeepsBase
<1>5. CASE PlannerRepeated
  BY <1>5, PlannerKeepsBase
<1> QED BY <1>1, <1>2, <1>3, <1>4, <1>5 DEF FaultNext

----------------------------------------------------------------------------
(* What the government has approved, with failed writes and restarts: what   *)
(* is lost or repeated is never an approval, and all steps PENDING again are *)
(* none that are ready too early.                                            *)

\* A failed write completes no step but one that is approved.
LEMMA FaultCompletes ==
  ASSUME SystemBase, WriteFails, NEW s \in Steps, graph'[s] = "COMPLETED"
  PROVE  \/ graph[s] = "COMPLETED"
         \/ \E t \in Threads : /\ chain[t].at = "APPLICATION_APPROVED"
                               /\ chain[t].step = s
<1>1. graph \in [Steps -> StepStatus]
  BY DEF SystemBase, TypeOK
<1>2. CASE CreationFails
  BY <1>2 DEF CreationFails, InitialGraph
<1>3. CASE FirstClaimLost
  BY <1>1, <1>3, ClaimKeepsCompleted DEF FirstClaimLost
<1>4. CASE \/ AuditFails \/ EligibilityRepeated
           \/ \E t \in Threads : \/ DocumentsRepeated(t)
                                \/ SubmissionRepeated(t) \/ PollingDies(t)
  BY <1>4 DEF AuditFails, EligibilityRepeated, BlockWorkflow, vars, engineVars,
              DocumentsRepeated, SubmissionRepeated, PollingDies
<1>5. ASSUME NEW t \in Threads, HandlerRepeated(t)
      PROVE  \/ graph[s] = "COMPLETED"
             \/ chain[t].at = "APPLICATION_APPROVED" /\ chain[t].step = s
  <2> DEFINE r == chain[t].step
  <2>1. ASSUME NEW status \in StepStatus
        PROVE  /\ MarkStepStatus(graph, r, status) \in [Steps -> StepStatus]
               /\ MarkStepStatus(graph, r, status)[s] = "COMPLETED" =>
                    \/ graph[s] = "COMPLETED"
                    \/ status = "COMPLETED" /\ r = s
    <3>1. MarkStepStatus(graph, r, status) \in [Steps -> StepStatus]
      BY <1>1, <2>1 DEF MarkStepStatus
    <3>2. CASE r = s
      BY <1>1, <2>1, <3>2 DEF MarkStepStatus
    <3>3. CASE r # s
      BY <1>1, <2>1, <3>3 DEF MarkStepStatus
    <3> QED BY <3>1, <3>2, <3>3
  <2>2. ASSUME NEW m \in [Steps -> StepStatus], NEW resumed,
               UnrecordedClaim(m, resumed)
        PROVE  m[s] = "COMPLETED"
    BY <2>2, ClaimKeepsCompleted DEF UnrecordedClaim, Unrecorded
  <2>3. \/ /\ chain[t].at = "APPLICATION_APPROVED"
           /\ UnrecordedClaim(MarkStepStatus(graph, r, "COMPLETED"), FALSE)
        \/ UnrecordedClaim(graph, TRUE)
        \/ UnrecordedClaim(MarkStepStatus(graph, r, "PENDING"), TRUE)
        \/ graph' = MarkStepStatus(graph, r, "FAILED")
        \/ graph' = MarkStepStatus(graph, r, "BLOCKED")
    BY <1>5, Zenon DEF HandlerRepeated, Unrecorded
  <2>4. {"COMPLETED", "PENDING", "FAILED", "BLOCKED"} \subseteq StepStatus
    BY DEF StepStatus
  <2> HIDE DEF r
  <2> QED BY <1>1, <2>1, <2>2, <2>3, <2>4 DEF r
<1> QED BY <1>2, <1>3, <1>4, <1>5 DEF WriteFails, PlanFails

\* No thread has more steps on its list, or an approval it did not have.
NoThreadGains ==
  \A t \in Threads :
    /\ chain'[t].steps \subseteq chain[t].steps
    /\ chain'[t].at = "APPLICATION_APPROVED" => chain'[t] = chain[t]

LEMMA GroundedStays ==
  ASSUME ApprovalBase, HistoryGrows, NoThreadGains
  PROVE  Grounded'
<1>1. \A s \in Steps : Approved(s) # {} => Approved(s)' # {}
  BY GrowthKeepsApprovals
<1>2. \A s \in Steps : \A d \in DependsOn[s] : d \in Steps
  BY GraphAssumption DEF GraphAssumption, ValidDag, IsDag
<1>3. \A t \in Threads : chain[t] \in Frames
  BY ApplicationFacts DEF ApprovalBase
<1>4. ASSUME NEW t \in Threads, NEW s \in chain'[t].steps,
             NEW d \in DependsOn[s]
      PROVE  Approved(d)' # {}
  <2>1. s \in chain[t].steps /\ s \in Steps
    BY <1>3 DEF NoThreadGains, Frames, Carried
  <2> QED BY <1>1, <1>2, <2>1 DEF ApprovalBase, Grounded
<1>5. ASSUME NEW t \in Threads, chain'[t].at = "APPLICATION_APPROVED"
      PROVE  Approved(chain[t].step)' # {}
  <2>1. PICK s \in Steps : s = chain[t].step /\ chain'[t].step = s
    BY <1>3, <1>5 DEF NoThreadGains, Frames, FrameShape, VerdictAt
  <2>2. Approved(s) # {}
    BY <1>5, <2>1 DEF NoThreadGains, ApprovalBase, Grounded
  <2>3. Approved(s)' # {}
    BY <1>1, <2>2
  <2> QED BY <2>1, <2>3 DEF Approved, Applied
<1> QED BY <1>4, <1>5 DEF Grounded

\* A thread that ends, or starts its loop again, gains nothing.
LEMMA OneThreadGainsNothing ==
  ASSUME SystemBase, NEW t \in Threads, NEW g \in Frames,
         chain' = [chain EXCEPT ![t] = g],
         g.steps \subseteq chain[t].steps, g.at # "APPLICATION_APPROVED"
  PROVE  NoThreadGains
<1>1. chain'[t] = g /\ \A u \in Threads : u # t => chain'[u] = chain[u]
  BY OneThread DEF SystemBase
<1> QED BY <1>1 DEF NoThreadGains

LEMMA FaultKeepsApprovals ==
  ASSUME ApprovalBase, WriteFails
  PROVE  ApprovalBase'
<1>1. SystemBase /\ SystemBase'
  BY FaultKeepsBase DEF ApprovalBase
<1>2. UNCHANGED applications => HistoryGrows
  BY DEF HistoryGrows
<1>3. UNCHANGED chain => NoThreadGains
  BY DEF NoThreadGains
<1>4. PICK done \in Frames :
        done = Done /\ done.steps = {} /\ done.at = "done"
  BY SimpleFrames
<1>5. ASSUME GiveUpHop PROVE NoThreadGains /\ UNCHANGED applications
  <2>1. Root \in Threads /\ chain' = [chain EXCEPT ![Root] = done]
    BY <1>4, <1>5, ThreadNames DEF GiveUpHop
  <2>2. NoThreadGains
    BY <1>1, <1>4, <2>1, OneThreadGainsNothing
  <2> QED BY <1>5, <2>2 DEF GiveUpHop
<1>6. ASSUME UNCHANGED vars \/ RepeatHop
      PROVE  NoThreadGains /\ UNCHANGED applications
  BY <1>3, <1>6 DEF vars, RepeatHop
<1>7. ASSUME NEW t \in Threads, LoopHop(t)
      PROVE  NoThreadGains /\ UNCHANGED applications
  <2>1. PICK g \in Frames : g = FirstLine(chain[t].steps)
    BY <1>7 DEF LoopHop
  <2>2. /\ chain' = [chain EXCEPT ![t] = g]
        /\ g.at = "NEXT_ACTION_TRIGGERED" /\ g.steps = chain[t].steps
    BY <1>7, <2>1 DEF LoopHop, FirstLine, Idle
  <2>3. NoThreadGains
    BY <1>1, <2>2, OneThreadGainsNothing
  <2> QED BY <1>7, <2>3 DEF LoopHop
<1>8. ASSUME NEW t \in Threads, NEW record, PollHop(t, Done, record)
      PROVE  /\ NoThreadGains /\ HistoryGrows
             /\ Len(applications') = Len(applications)
  <2>1. chain' = [chain EXCEPT ![t] = done]
    BY <1>4, <1>8 DEF PollHop
  <2>2. NoThreadGains
    BY <1>1, <1>4, <2>1, OneThreadGainsNothing
  <2>3. HistoryGrows
    BY <1>1, <1>8, PollGrows
  <2>4. Len(applications') = Len(applications)
    BY <1>1, <1>8 DEF PollHop, SystemBase, HistoryTyped
  <2> QED BY <2>2, <2>3, <2>4
<1>9. ASSUME NEW t \in Threads, SubmissionRepeated(t)
      PROVE  /\ NoThreadGains /\ HistoryGrows
             /\ \E u \in Threads : \E scenario :
                  /\ chain[u].at = "APPLICATION_READY"
                  /\ applications' =
                       Append(applications, Submitted(chain[u].step, scenario))
  <2>1. PICK scenario :
          applications' = Append(applications, Submitted(chain[t].step, scenario))
    BY <1>9 DEF SubmissionRepeated
  <2>2. HistoryGrows
    BY <1>1, <2>1, SubmissionGrows
  <2> QED BY <1>3, <1>9, <2>1, <2>2 DEF SubmissionRepeated
<1>10. /\ NoThreadGains /\ HistoryGrows
       /\ \/ Len(applications') = Len(applications)
          \/ \E t \in Threads : \E scenario :
               /\ chain[t].at = "APPLICATION_READY"
               /\ applications' =
                    Append(applications, Submitted(chain[t].step, scenario))
  BY <1>1, <1>2, <1>5, <1>6, <1>7, <1>8, <1>9, FaultHops
<1>11. Grounded' /\ PrerequisitesApproved'
  BY <1>10, GroundedStays, PrerequisitesStay
<1>12. StepsApproved'
  <2>1. \A s \in Steps : Approved(s) # {} => Approved(s)' # {}
    BY <1>10, GrowthKeepsApprovals
  <2>2. ASSUME NEW s \in Steps, graph'[s] = "COMPLETED"
        PROVE  Approved(s) # {}
    BY <1>1, <2>2, FaultCompletes DEF ApprovalBase, Grounded, StepsApproved
  <2> QED BY <2>1, <2>2 DEF StepsApproved
<1> QED BY <1>1, <1>11, <1>12 DEF ApprovalBase

\* Whoever only takes the graph or the threads away leaves no approval out.
LEMMA LossKeepsApprovals ==
  ASSUME ApprovalBase, SystemBase', NoThreadGains, UNCHANGED applications,
         \A s \in Steps : graph'[s] = "COMPLETED" => graph[s] = "COMPLETED"
  PROVE  ApprovalBase'
<1>1. HistoryGrows
  BY DEF HistoryGrows
<1>2. Grounded' /\ PrerequisitesApproved'
  BY <1>1, GroundedStays, PrerequisitesStay
<1>3. StepsApproved'
  BY DEF ApprovalBase, StepsApproved, Approved, Applied
<1> QED BY <1>2, <1>3 DEF ApprovalBase

LEMMA FaultNextKeepsApprovals ==
  ASSUME ApprovalBase, [FaultNext]_faultVars
  PROVE  ApprovalBase'
<1>1. SystemBase /\ SystemBase'
  BY FaultNextKeepsBase DEF ApprovalBase
<1>2. CASE [SystemNext]_vars
  BY <1>2, NextKeepsApprovals
<1>3. CASE WriteFails
  BY <1>3, FaultKeepsApprovals
<1>4. \A s \in Steps : InitialGraph[s] # "COMPLETED"
  BY DEF InitialGraph
<1>5. CASE PlannerRepeated
  <2>1. NoThreadGains /\ UNCHANGED applications /\ graph' = InitialGraph
    BY <1>5 DEF PlannerRepeated, NoThreadGains
  <2> QED BY <1>1, <1>4, <2>1, LossKeepsApprovals
<1>6. CASE SystemRestarts
  <2>1. UNCHANGED applications /\ (graph' = graph \/ graph' = InitialGraph)
    BY <1>6 DEF SystemRestarts, Restart, engineVars
  <2>2. NoThreadGains
    <3>1. \A t \in Threads :
            /\ chain'[t] = IF Alive(t) THEN Done ELSE chain[t]
            /\ chain'[t].at \in {"idle", "done"}
      BY <1>1, <1>6, RestartEnds
    <3>2. Done.steps = {}
      BY SimpleFrames
    <3> HIDE DEF Done
    <3> QED BY <3>1, <3>2 DEF NoThreadGains
  <2> QED BY <1>1, <1>4, <2>1, <2>2, LossKeepsApprovals
<1>7. CASE \E t \in Threads : ResumedWithoutGraph(t)
  <2>1. PICK t \in Threads : ResumedWithoutGraph(t)
    BY <1>7
  <2>2. PICK done \in Frames :
          done = Done /\ done.steps = {} /\ done.at = "done"
    BY SimpleFrames
  <2>3. /\ chain' = [chain EXCEPT ![t] = done]
        /\ UNCHANGED applications /\ graph' = graph
    BY <2>1, <2>2 DEF ResumedWithoutGraph, Become, engineVars
  <2>4. NoThreadGains
    BY <1>1, <2>2, <2>3, OneThreadGainsNothing
  <2> QED BY <1>1, <2>3, <2>4, LossKeepsApprovals
<1> QED BY <1>2, <1>3, <1>5, <1>6, <1>7 DEF FaultNext, faultVars

\* Nothing is submitted to the government before every prerequisite of its
\* step has been approved there, whatever writes fail, however often the
\* planner puts all steps back, and whatever is resumed meanwhile or after a
\* restart.
THEOREM NothingSubmittedEarlyDespiteFaults ==
  FaultSpec => []PrerequisitesApproved
<1>1. FaultInit => ApprovalBase
  BY InitApprovals DEF FaultInit, ApprovalInvariant
<1>2. ApprovalBase => PrerequisitesApproved
  BY DEF ApprovalBase
<1> QED BY <1>1, <1>2, FaultNextKeepsApprovals, PTL DEF FaultSpec

----------------------------------------------------------------------------
(* How often a step is submitted when writes fail.  Until a restart the      *)
(* ledger is kept with one more claim of each step each time something is    *)
(* redone: by the failed write of a handler, which repeats it or loses it,   *)
(* and by each further attempt of the planner, which puts all steps back on  *)
(* the shelf.  The planner's own failed write gives nobody anything.  So     *)
(* does a restart put them back, but nobody ever takes one from there: what  *)
(* was submitted is all there will be.                                       *)

FaultCounts ==
  /\ faults \in 0..MaxFaults /\ restarts \in 0..MaxRestarts
  /\ failedPlans \in 0..MaxAttempts
  /\ failedPlans > 0 => faults > 0

FaultLedger ==
  \A S \in SUBSET Steps :
    /\ restarts = 0 => Ledger(S, Redone)
    /\ Cardinality(ApplicationsFor(S)) <= Allowance(S, Redone)

FaultInvariant ==
  SystemBase /\ FrozenInvariant /\ FaultCounts /\ FaultLedger

LEMMA FaultNextKeepsCounts ==
  ASSUME SystemBase, FaultCounts, [FaultNext]_faultVars
  PROVE  FaultCounts'
<1>1. /\ MaxFaults \in Nat /\ MaxRestarts \in Nat /\ MaxAttempts \in Nat \ {0}
  BY GovFlowAssumption, FaultAssumption
  DEF GovFlowAssumption, FaultAssumption
<1>2. CASE WriteFails
  <2>1. /\ faults < MaxFaults /\ faults' = faults + 1 /\ restarts' = restarts
        /\ failedPlans' \in {1, failedPlans}
    BY <1>2, FaultHops
  <2> QED BY <1>1, <2>1 DEF FaultCounts
<1>3. CASE SystemRestarts
  BY <1>1, <1>3 DEF SystemRestarts, FaultCounts
<1>4. CASE PlannerRepeated
  BY <1>1, <1>4 DEF PlannerRepeated, FaultCounts
<1>5. CASE UNCHANGED disturbances
  BY <1>5 DEF disturbances, FaultCounts
<1> QED BY <1>2, <1>3, <1>4, <1>5
        DEF FaultNext, ResumedWithoutGraph, disturbances, faultVars

LEMMA RedoneType ==
  ASSUME FaultCounts
  PROVE  Redone \in 0..MaxRedone /\ Redone \in Nat
<1>1. /\ MaxFaults \in Nat /\ MaxAttempts \in Nat \ {0}
      /\ MaxFaults < MaxAttempts
  BY GovFlowAssumption, FaultAssumption
  DEF GovFlowAssumption, FaultAssumption
<1>2. /\ faults \in 0..MaxFaults /\ failedPlans \in 0..MaxAttempts
      /\ failedPlans > 0 => faults > 0
  BY DEF FaultCounts
<1> QED BY <1>1, <1>2 DEF Redone, MaxRedone

\* Which steps redo something.
LEMMA RedoneMoves ==
  ASSUME SystemBase, FaultCounts
  PROVE  /\ UNCHANGED disturbances => Redone' = Redone
         /\ SystemRestarts => Redone' = Redone
         /\ PlannerRepeated => Redone' = Redone + 1
         /\ WriteFails =>
              \/ failedPlans = 0 /\ failedPlans' = 1 /\ Redone' = Redone
              \/ failedPlans' = failedPlans /\ Redone' = Redone + 1
<1>1. /\ faults \in Nat /\ failedPlans \in Nat
      /\ failedPlans > 0 => faults > 0
  BY GovFlowAssumption DEF FaultCounts, GovFlowAssumption
<1>2. /\ UNCHANGED disturbances => Redone' = Redone
      /\ SystemRestarts => Redone' = Redone
  BY DEF disturbances, SystemRestarts, Redone
<1>3. ASSUME PlannerRepeated PROVE Redone' = Redone + 1
  <2>1. failedPlans # 0 /\ failedPlans' = failedPlans + 1 /\ faults' = faults
    BY <1>1, <1>3 DEF PlannerRepeated
  <2> QED BY <1>1, <2>1 DEF Redone
<1>4. ASSUME WriteFails
      PROVE  \/ failedPlans = 0 /\ failedPlans' = 1 /\ Redone' = Redone
             \/ failedPlans' = failedPlans /\ Redone' = Redone + 1
  <2>1. /\ faults' = faults + 1
        /\ \/ failedPlans = 0 /\ failedPlans' = 1
           \/ failedPlans' = failedPlans
    BY <1>4, FaultHops
  <2> QED BY <1>1, <2>1 DEF Redone
<1> QED BY <1>2, <1>3, <1>4

\* Steps put back on the shelf, or all given to one thread again, bring the
\* credit of one claim each.
LEMMA TokensReturned ==
  ASSUME NEW S \in SUBSET Steps, NEW B, NEW C, NEW owner \in Owners,
         \A o \in Owners, s \in S : B[o][s] \in Nat /\ C[o][s] \in Nat,
         \A o \in Owners \ {owner}, s \in S : C[o][s] <= B[o][s]
  PROVE  Cardinality(Tokens(C, S))
           <= Cardinality(Tokens(B, S)) + Attempts * Cardinality(S)
<1> DEFINE New == {owner} \X (S \X (1..Attempts))
<1>1. ASSUME NEW x \in Tokens(C, S) PROVE x \in Tokens(B, S) \cup New
  <2>1. /\ x \in Owners \X (S \X (1..Attempts))
        /\ x[2][2] <= C[x[1]][x[2][1]]
    BY DEF Tokens
  <2>2. x[1] \in Owners /\ x[2][1] \in S /\ x[2][2] \in 1..Attempts
    BY <2>1
  <2>3. CASE x[1] = owner
    BY <2>1, <2>3
  <2>4. CASE x[1] # owner
    <3>1. x[2][2] <= B[x[1]][x[2][1]]
      BY <2>1, <2>2, <2>4
    <3> QED BY <2>1, <3>1 DEF Tokens
  <2> QED BY <2>3, <2>4
<1>2. IsFiniteSet(New) /\ Cardinality(New) = Attempts * Cardinality(S)
  <2> DEFINE upTo == 1..Attempts
             rows == S \X upTo
  <2>1. /\ IsFiniteSet(upTo) /\ Cardinality(upTo) = Attempts
        /\ Attempts \in Nat
    BY AttemptsType, CountTo
  <2>2. IsFiniteSet(S) /\ Cardinality(S) \in Nat
    BY BoundsType, FS_Subset, FS_CardinalityType
  <2> HIDE DEF upTo
  <2>3. IsFiniteSet(rows) /\ Cardinality(rows) = Cardinality(S) * Attempts
    BY <2>1, <2>2, FS_Product
  <2> HIDE DEF rows
  <2>4. Cardinality(rows) \in Nat /\ Cardinality(rows) = Attempts * Cardinality(S)
    BY <2>1, <2>2, <2>3
  <2>5. /\ IsFiniteSet({owner} \X rows)
        /\ Cardinality({owner} \X rows) = Cardinality(rows)
    BY <2>3, <2>4, ProductOfOne, Zenon
  <2>6. New = {owner} \X rows
    BY DEF rows, upTo
  <2> HIDE DEF New
  <2> QED BY <2>4, <2>5, <2>6
<1> HIDE DEF New
<1>3. Tokens(C, S) \in SUBSET (Tokens(B, S) \cup New)
  BY <1>1
<1>4. /\ IsFiniteSet(Tokens(B, S)) /\ Cardinality(Tokens(B, S)) \in Nat
      /\ Cardinality(Tokens(C, S)) \in Nat
  BY TokensFinite
<1>5. /\ IsFiniteSet(Tokens(B, S) \cup New)
      /\ Cardinality(Tokens(B, S) \cup New) =
           Cardinality(Tokens(B, S)) + Cardinality(New)
             - Cardinality(Tokens(B, S) \cap New)
  BY <1>2, <1>4, FS_Union
<1>6. Cardinality(Tokens(B, S) \cap New) \in Nat
  <2>1. IsFiniteSet(Tokens(B, S) \cap New)
    BY <1>2, FS_Intersection
  <2> QED BY <2>1, FS_CardinalityType
<1>7. Cardinality(Tokens(C, S)) <= Cardinality(Tokens(B, S) \cup New)
  BY <1>3, <1>5, FS_Subset
<1>8. Cardinality(New) \in Nat
  BY <1>2, FS_CardinalityType
<1> QED BY <1>2, <1>4, <1>5, <1>6, <1>7, <1>8

\* What redoing something may cost.
LEMMA LedgerOfRedone ==
  ASSUME SystemBase, SystemBase', NEW S \in SUBSET Steps, NEW k \in Nat,
         Ledger(S, k), UNCHANGED requests,
         Cardinality(ApplicationsFor(S)') + Cardinality(Tokens(Balances', S))
           <= Cardinality(ApplicationsFor(S)) + Cardinality(Tokens(Balances, S))
                + Attempts * Cardinality(S)
  PROVE  Ledger(S, k + 1)'
<1>1. /\ Cardinality(ApplicationsFor(S)) \in Nat
      /\ Cardinality(Tokens(Balances, S)) \in Nat
      /\ Cardinality(S) \in Nat /\ Attempts \in Nat
  BY CountsType, AttemptsType DEF SystemBase
<1>2. (Cardinality(ApplicationsFor(S)) \in Nat)'
  BY CountsType, PTL DEF SystemBase
<1>3. /\ Allowance(S, k) \in Nat
      /\ Allowance(S, k + 1) = Allowance(S, k) + Attempts * Cardinality(S)
  BY AllowanceGrows DEF SystemBase
<1>4. Allowance(S, k + 1)' = Allowance(S, k + 1)
  BY DEF Allowance, RetriesOf
<1>5. Tokens(Balances, S)' = Tokens(Balances', S)
  BY DEF Tokens
<1>6. Cardinality(Tokens(Balances', S)) \in Nat
  BY TokensFinite
<1>7. Attempts * Cardinality(S) \in Nat
  BY <1>1
<1> QED BY <1>1, <1>2, <1>3, <1>4, <1>5, <1>6, <1>7 DEF Ledger

LEMMA FaultKeepsLedger ==
  ASSUME SystemBase, WriteFails, NEW S \in SUBSET Steps, NEW k \in Nat,
         Ledger(S, k)
  PROVE  IF failedPlans' = failedPlans THEN Ledger(S, k + 1)'
         ELSE Ledger(S, k)'
<1>1. SystemBase' /\ FramesTyped /\ FramesTyped' /\ UNCHANGED requests
  BY FaultKeepsBase, FaultHops DEF SystemBase
<1>2. /\ Cardinality(ApplicationsFor(S)) \in Nat
      /\ Cardinality(Tokens(Balances, S)) \in Nat
      /\ Cardinality(Tokens(Balances', S)) \in Nat
      /\ Attempts * Cardinality(S) \in Nat
      /\ IsFiniteSet(ApplicationsFor(S)) /\ IsFiniteSet(S)
      /\ Cardinality(S) \in Nat
  <2>1. Attempts \in Nat /\ \A x, y \in Nat : x * y \in Nat
    BY AttemptsType
  <2>2. /\ Cardinality(ApplicationsFor(S)) \in Nat
        /\ IsFiniteSet(ApplicationsFor(S)) /\ IsFiniteSet(S)
        /\ Cardinality(S) \in Nat
    BY CountsType DEF SystemBase
  <2> QED BY <2>1, <2>2, TokensFinite
<1>3. \A o \in Owners, s \in S :
        Balances[o][s] \in Nat /\ Balances'[o][s] \in Nat
  BY <1>1, BalancesType, AttemptsType
\* Only one thread gets credit, and nothing is submitted.
<1>4. ASSUME UNCHANGED applications, NEW owner \in Owners,
             \A o \in Owners \ {owner}, s \in S :
               Balances'[o][s] <= Balances[o][s]
      PROVE  Ledger(S, k + 1)'
  <2>1. ApplicationsFor(S)' = ApplicationsFor(S)
    BY <1>4 DEF ApplicationsFor
  <2>2. Cardinality(Tokens(Balances', S))
          <= Cardinality(Tokens(Balances, S)) + Attempts * Cardinality(S)
    BY <1>3, <1>4, TokensReturned
  <2> QED BY <1>1, <1>2, <2>1, <2>2, LedgerOfRedone
\* What the planner has claimed it loses.
<1>5. ASSUME GiveUpHop \/ UNCHANGED vars PROVE Ledger(S, k)'
  <2>1. CASE GiveUpHop
    <3>1. /\ Root \in Threads /\ Done \in Frames
          /\ chain' = [chain EXCEPT ![Root] = Done]
          /\ \A s \in Steps : graph'[s] = "PENDING" => graph[s] = "PENDING"
          /\ UNCHANGED applications
      BY <2>1, ThreadNames, SimpleFrames DEF GiveUpHop
    <3>2. /\ Done.steps = {} /\ Done.at # "WORKFLOW_RESUMED"
          /\ chain[Root] \in Frames
      BY <1>1, <3>1, SimpleFrames DEF FramesTyped
    <3>3. \A s \in Steps : Credit(Done, s) <= Credit(chain[Root], s)
      <4>1. \A s \in Steps : Credit(Done, s) = 0
        BY <3>1, <3>2, CreditRange
      <4>2. \A s \in Steps : Credit(chain[Root], s) \in 0..Attempts
        BY <3>2, CreditRange
      <4> QED BY <4>1, <4>2, AttemptsType
    <3>4. Paying
      BY <3>1, <3>3, ThreadPays
    <3>5. ApplicationsFor(S)' = ApplicationsFor(S)
      BY <3>1 DEF ApplicationsFor
    <3> QED BY <1>1, <3>4, <3>5, PayingKeepsLedger
  <2>2. CASE UNCHANGED vars
    BY <1>1, <2>2, NextKeepsLedger
  <2> QED BY <1>5, <2>1, <2>2
<1>6. ASSUME RepeatHop PROVE Ledger(S, k + 1)'
  <2>1. Shelf \in Owners /\ UNCHANGED applications
    BY <1>6 DEF Owners, RepeatHop
  <2>2. \A o \in Threads, s \in S : Balances'[o][s] = Balances[o][s]
    BY <1>6, BalanceOf DEF RepeatHop
  <2>3. \A o \in Owners \ {Shelf}, s \in S : Balances'[o][s] <= Balances[o][s]
    BY <1>3, <2>2 DEF Owners
  <2> QED BY <1>4, <2>1, <2>3
\* DocumentAgent's thread gets its steps back.
<1>7. ASSUME NEW t \in Threads, LoopHop(t) PROVE Ledger(S, k + 1)'
  <2>1. PICK g \in Frames : g = FirstLine(chain[t].steps)
    BY <1>7 DEF LoopHop
  <2>2. /\ chain' = [chain EXCEPT ![t] = g] /\ graph' = graph
        /\ UNCHANGED applications /\ t \in Owners
    BY <1>7, <2>1 DEF LoopHop, Owners
  <2>3. \A u \in Threads : u # t => chain'[u] = chain[u]
    BY <1>1, <2>2, OneThread
  <2>4. \A o \in Owners \ {t}, s \in S : Balances'[o][s] = Balances[o][s]
    BY <2>2, <2>3, BalanceOf DEF Owners
  <2>5. \A o \in Owners \ {t}, s \in S : Balances'[o][s] <= Balances[o][s]
    BY <1>3, <2>4
  <2> QED BY <1>4, <2>2, <2>5
<1>8. ASSUME NEW t \in Threads, NEW record, PollHop(t, Done, record)
      PROVE  Ledger(S, k + 1)'
  <2>1. ApplicationsFor(S)' = ApplicationsFor(S) /\ Done \in Frames
    BY <1>8, PollKeepsApplications, SimpleFrames
  <2>2. Paying
    BY <1>8, <2>1, QuietStepsPay
  <2>3. \A o \in Owners, s \in S : Balances'[o][s] <= Balances[o][s]
    BY <2>2 DEF Paying
  <2>4. Cardinality(Tokens(Balances', S))
          <= Cardinality(Tokens(Balances, S)) + Attempts * Cardinality(S)
    <3>1. Cardinality(Tokens(Balances', S)) <= Cardinality(Tokens(Balances, S))
      BY <1>3, <2>3, TokensFall
    <3> QED BY <1>2, <3>1
  <2> QED BY <1>1, <1>2, <2>1, <2>4, LedgerOfRedone
<1>9. ASSUME NEW t \in Threads, SubmissionRepeated(t)
      PROVE  Ledger(S, k + 1)'
  <2> DEFINE r == chain[t].step
             n == Len(applications)
  <2>1. PICK scenario \in Scenarios :
          applications' = Append(applications, Submitted(r, scenario))
    BY <1>9 DEF SubmissionRepeated
  <2>2. applications \in Seq(Application) /\ Submitted(r, scenario).step = r
    BY DEF SystemBase, HistoryTyped, Submitted
  <2>3. /\ n \in Nat /\ Len(applications') = n + 1
        /\ applications'[n + 1].step = r
        /\ \A a \in 1..n : applications'[a] = applications[a]
    BY <2>1, <2>2
  <2>4. graph' = graph /\ chain' = chain
    BY <1>9 DEF SubmissionRepeated, engineVars
  <2>5. \A o \in Owners, s \in S : Balances'[o][s] = Balances[o][s]
    BY <2>4, BalanceOf DEF Owners
  <2>6. Cardinality(Tokens(Balances', S)) <= Cardinality(Tokens(Balances, S))
    BY <1>3, <2>5, TokensFall
  <2>7. CASE r \notin S
    <3>1. ApplicationsFor(S)' = ApplicationsFor(S)
      BY <2>3, <2>7 DEF ApplicationsFor, n
    <3> QED BY <1>1, <1>2, <2>6, <3>1, LedgerOfRedone
  <2>8. CASE r \in S
    <3>1. /\ ApplicationsFor(S)' = ApplicationsFor(S) \cup {n + 1}
          /\ n + 1 \notin ApplicationsFor(S)
      BY <2>3, <2>8 DEF ApplicationsFor, n
    <3>2. Cardinality(ApplicationsFor(S)') = Cardinality(ApplicationsFor(S)) + 1
      BY <1>2, <3>1, FS_AddElement
    <3>3. 1 <= Attempts * Cardinality(S)
      <4>1. Cardinality(S) # 0
        BY <1>2, <2>8, FS_EmptySet
      <4>2. \A x, y \in Nat \ {0} : 1 <= x * y
        OBVIOUS
      <4> QED BY <1>2, <4>1, <4>2, AttemptsType
    <3> QED BY <1>1, <1>2, <2>6, <3>2, <3>3, LedgerOfRedone
  <2> QED BY <2>7, <2>8
<1> QED BY <1>5, <1>6, <1>7, <1>8, <1>9, FaultHops

\* The planner puts everything back on the shelf.
LEMMA PlannerKeepsLedger ==
  ASSUME SystemBase, PlannerRepeated, NEW S \in SUBSET Steps, NEW k \in Nat,
         Ledger(S, k)
  PROVE  Ledger(S, k + 1)'
<1>1. /\ SystemBase' /\ FramesTyped /\ FramesTyped'
      /\ UNCHANGED <<chain, applications, requests>>
  BY PlannerKeepsBase DEF SystemBase, PlannerRepeated
<1>2. \A o \in Owners, s \in S :
        Balances[o][s] \in Nat /\ Balances'[o][s] \in Nat
  BY <1>1, BalancesType, AttemptsType
<1>3. \A o \in Threads, s \in S : Balances'[o][s] = Balances[o][s]
  BY <1>1, BalanceOf
<1>4. Shelf \in Owners
  BY DEF Owners
<1>5. \A o \in Owners \ {Shelf}, s \in S : Balances'[o][s] <= Balances[o][s]
  BY <1>2, <1>3 DEF Owners
<1>6. Cardinality(Tokens(Balances', S))
        <= Cardinality(Tokens(Balances, S)) + Attempts * Cardinality(S)
  BY <1>2, <1>4, <1>5, TokensReturned
<1>7. ApplicationsFor(S)' = ApplicationsFor(S)
  BY <1>1 DEF ApplicationsFor
<1>8. Cardinality(ApplicationsFor(S)) \in Nat
  BY CountsType DEF SystemBase
<1>9. /\ Cardinality(Tokens(Balances, S)) \in Nat
      /\ Cardinality(Tokens(Balances', S)) \in Nat
      /\ Attempts * Cardinality(S) \in Nat
  <2>1. Attempts \in Nat /\ Cardinality(S) \in Nat
    BY AttemptsType, CountsType DEF SystemBase
  <2> QED BY <2>1, TokensFinite
<1> QED BY <1>1, <1>6, <1>7, <1>8, <1>9, LedgerOfRedone

\* Requests are only ever added.
LEMMA RequestsGrow ==
  ASSUME SystemBase, [FaultNext]_faultVars
  PROVE  UNCHANGED requests \/ \E r : requests' = Append(requests, r)
<1>1. CASE SystemNext
  <2>1. \/ UNCHANGED requests
        \/ \E s, action : UserHop(s, action)
    <3>1. /\ \A g : RootHop(g) => UNCHANGED requests
          /\ \A t, g : Quiet(t, g) \/ SubmitHop(t, g) => UNCHANGED requests
          /\ \A t, g : HaltHop(t, g) => UNCHANGED requests
          /\ \A t : WatchHop(t) => UNCHANGED requests
      BY Zenon DEF RootHop, Quiet, SubmitHop, HaltHop, WatchHop
    <3>2. /\ \A t, g, record : PollHop(t, g, record) => UNCHANGED requests
          /\ \A t, m : ClaimHop(t, m) => UNCHANGED requests
      BY Zenon DEF PollHop, ClaimHop
    <3> QED BY <1>1, <3>1, <3>2, SystemHops, ZenonT(60)
  <2> QED BY <2>1 DEF UserHop
<1>2. CASE WriteFails
  BY <1>2, FaultHops
<1>3. CASE PlannerRepeated \/ SystemRestarts
  BY <1>3, Zenon DEF PlannerRepeated, SystemRestarts
<1>4. CASE \E t \in Threads : ResumedWithoutGraph(t)
  BY <1>4, Zenon DEF ResumedWithoutGraph
<1>5. CASE UNCHANGED faultVars
  BY <1>5, Zenon DEF faultVars, vars
<1> QED BY <1>1, <1>2, <1>3, <1>4, <1>5, Zenon DEF FaultNext

\* What is allowed never falls.
LEMMA AllowanceStays ==
  ASSUME SystemBase, SystemBase', FaultCounts, FaultCounts',
         [FaultNext]_faultVars, NEW S \in SUBSET Steps
  PROVE  /\ Allowance(S, Redone) \in Nat /\ Allowance(S, Redone)' \in Nat
         /\ Allowance(S, Redone) <= Allowance(S, Redone)'
<1>1. Redone' = Redone \/ Redone' = Redone + 1
  BY RedoneMoves DEF FaultNext, ResumedWithoutGraph, disturbances, faultVars
<1>2. Redone \in Nat /\ Redone' \in Nat /\ Redone <= Redone'
  BY <1>1, RedoneType
<1>3. /\ Cardinality(S) \in Nat /\ Cardinality(RetriesOf(S)) \in Nat
      /\ IsFiniteSet(RetriesOf(S))
  BY CountsType DEF SystemBase
<1>4. (Cardinality(RetriesOf(S)) \in Nat /\ IsFiniteSet(RetriesOf(S)))'
  BY CountsType, PTL DEF SystemBase
<1>5. RetriesOf(S) \in SUBSET (RetriesOf(S)')
  <2>1. requests \in Seq(Request)
    BY DEF SystemBase, HistoryTyped
  <2>2. /\ Len(requests') >= Len(requests) /\ Len(requests) \in Nat
        /\ Len(requests') \in Nat
        /\ \A r \in 1..Len(requests) : requests'[r] = requests[r]
    BY <2>1, RequestsGrow
  <2> QED BY <2>2 DEF RetriesOf
<1>6. Cardinality(RetriesOf(S)) <= Cardinality(RetriesOf(S)')
  BY <1>4, <1>5, FS_Subset
<1> DEFINE c == Cardinality(S)
           old == c * (1 + Redone) + Cardinality(RetriesOf(S))
           new == c * (1 + Redone') + Cardinality(RetriesOf(S)')
<1>7. old \in Nat /\ new \in Nat /\ old <= new
  <2> HIDE DEF c
  <2>1. c \in Nat
    BY <1>3 DEF c
  <2>2. \A x, y \in Nat : x <= y => x + 1 \in Nat /\ y + 1 \in Nat
                                    /\ x + 1 <= y + 1
    OBVIOUS
  <2>3. \A x, y \in Nat : x <= y => c * x \in Nat /\ c * y \in Nat
                                    /\ c * x <= c * y
    BY <2>1
  <2>4. \A x, y \in Nat : x <= y =>
          /\ c * (1 + x) \in Nat /\ c * (1 + y) \in Nat
          /\ c * (1 + x) <= c * (1 + y)
    BY <2>2, <2>3
  <2>5. /\ c * (1 + Redone) \in Nat /\ c * (1 + Redone') \in Nat
        /\ c * (1 + Redone) <= c * (1 + Redone')
    BY <1>2, <2>4
  <2> QED BY <1>3, <1>4, <1>6, <2>5
<1>8. Allowance(S, Redone) = Attempts * old
  BY DEF Allowance
<1>9. Allowance(S, Redone)' = Attempts * new
  BY DEF Allowance
<1> HIDE DEF old, new
<1>10. \A x, y \in Nat : x <= y =>
         /\ Attempts * x \in Nat /\ Attempts * y \in Nat
         /\ Attempts * x <= Attempts * y
  BY AttemptsType
<1> QED BY <1>7, <1>8, <1>9, <1>10

\* A request that finds no graph costs nothing.
LEMMA GraphlessKeepsLedger ==
  ASSUME SystemBase, NEW t \in Threads, ResumedWithoutGraph(t),
         NEW S \in SUBSET Steps, NEW k \in Nat, Ledger(S, k)
  PROVE  Ledger(S, k)'
<1>1. SystemBase'
  BY GraphlessKeepsBase
<1>2. /\ chain' = [chain EXCEPT ![t] = Done] /\ graph' = graph
      /\ UNCHANGED <<applications, requests>>
  BY DEF ResumedWithoutGraph, Become, engineVars
<1>3. Done \in Frames /\ chain[t] \in Frames
  BY SimpleFrames, ApplicationFacts
<1>4. \A s \in Steps : Credit(Done, s) <= Credit(chain[t], s)
  <2>1. \A s \in Steps : Credit(Done, s) = 0
    BY <1>3, SimpleFrames, CreditRange
  <2> QED BY <1>3, <2>1, CreditRange, AttemptsType
<1>5. Paying
  BY <1>2, <1>3, <1>4, ThreadPays
<1>6. ApplicationsFor(S)' = ApplicationsFor(S)
  BY <1>2 DEF ApplicationsFor
<1> QED BY <1>1, <1>2, <1>5, <1>6, PayingKeepsLedger

LEMMA FaultNextKeepsInvariant ==
  ASSUME FaultInvariant, [FaultNext]_faultVars
  PROVE  FaultInvariant'
<1>1. /\ SystemBase /\ SystemBase' /\ FrozenInvariant /\ FrozenInvariant'
      /\ FaultCounts /\ FaultCounts'
  BY FaultNextKeepsBase, FaultNextKeepsFrozen, FaultNextKeepsCounts
  DEF FaultInvariant
<1> SUFFICES ASSUME NEW S \in SUBSET Steps
             PROVE  /\ restarts' = 0 => Ledger(S, Redone)'
                    /\ (Cardinality(ApplicationsFor(S)) <= Allowance(S, Redone))'
  BY <1>1 DEF FaultInvariant, FaultLedger
<1>2. /\ Cardinality(ApplicationsFor(S)) <= Allowance(S, Redone)
      /\ restarts = 0 => Ledger(S, Redone)
  BY DEF FaultInvariant, FaultLedger
<1>3. Redone \in Nat /\ restarts \in Nat /\ restarts' \in Nat
  BY <1>1, RedoneType, FaultAssumption DEF FaultCounts, FaultAssumption
<1>4. PICK n \in Nat : n = Redone
  BY <1>3
\* What was submitted before is still allowed.
<1>5. ASSUME UNCHANGED applications
      PROVE  (Cardinality(ApplicationsFor(S)) <= Allowance(S, Redone))'
  <2>1. ApplicationsFor(S)' = ApplicationsFor(S)
    BY <1>5 DEF ApplicationsFor
  <2>2. Cardinality(ApplicationsFor(S)) \in Nat
    BY <1>1, CountsType DEF SystemBase
  <2>3. /\ Allowance(S, Redone) \in Nat /\ Allowance(S, Redone)' \in Nat
        /\ Allowance(S, Redone) <= Allowance(S, Redone)'
    BY <1>1, AllowanceStays
  <2> QED BY <1>2, <2>1, <2>2, <2>3
<1>6. ASSUME NEW k \in Nat, Ledger(S, k)', Redone' = k
      PROVE  /\ Ledger(S, Redone)'
             /\ (Cardinality(ApplicationsFor(S)) <= Allowance(S, Redone))'
  <2>1. HistoryTyped'
    BY <1>1 DEF SystemBase
  <2>2. (Cardinality(ApplicationsFor(S)) <= Allowance(S, k))'
    BY <1>6, <2>1, LedgerBounds, PTL
  <2>3. Ledger(S, Redone)' = Ledger(S, k)' /\ Allowance(S, Redone)' = Allowance(S, k)'
    BY <1>6 DEF Ledger, Allowance
  <2> QED BY <1>6, <2>2, <2>3
<1>7. CASE restarts > 0
  <2>1. UNCHANGED applications
    BY <1>1, <1>7, FrozenStays DEF StaysFrozen
  <2>2. restarts' # 0
    BY <1>3, <1>7
    DEF FaultNext, WriteFails, Fault, PlannerRepeated, SystemRestarts,
        ResumedWithoutGraph, disturbances, faultVars
  <2> QED BY <1>5, <2>1, <2>2
<1>8. CASE restarts = 0
  <2>1. Ledger(S, n)
    BY <1>2, <1>4, <1>8
  <2>2. CASE [SystemNext]_vars /\ UNCHANGED disturbances
    <3>1. Ledger(S, n)'
      BY <1>1, <2>1, <2>2, NextKeepsLedger
    <3>2. Redone' = n
      BY <1>1, <1>4, <2>2, RedoneMoves
    <3> QED BY <1>6, <3>1, <3>2
  <2>3. CASE PlannerRepeated
    <3>1. Ledger(S, n + 1)'
      BY <1>1, <2>1, <2>3, PlannerKeepsLedger
    <3>2. Redone' = n + 1 /\ n + 1 \in Nat
      BY <1>1, <1>4, <2>3, RedoneMoves
    <3> HIDE <1>4
    <3> QED BY <1>6, <3>1, <3>2
  <2>4. CASE WriteFails
    <3>1. CASE failedPlans' = failedPlans
      <4>1. Ledger(S, n + 1)'
        BY <1>1, <2>1, <2>4, <3>1, FaultKeepsLedger
      <4>2. Redone' = n + 1 /\ n + 1 \in Nat
        BY <1>1, <1>4, <2>4, <3>1, RedoneMoves
      <4> HIDE <1>4
      <4> QED BY <1>6, <4>1, <4>2
    <3>2. CASE failedPlans' # failedPlans
      <4>1. Ledger(S, n)'
        BY <1>1, <2>1, <2>4, <3>2, FaultKeepsLedger
      <4>2. Redone' = n
        BY <1>1, <1>4, <2>4, <3>2, RedoneMoves
      <4> QED BY <1>6, <4>1, <4>2
    <3> QED BY <3>1, <3>2
  <2>5. CASE SystemRestarts
    <3>1. UNCHANGED applications /\ restarts' # 0
      BY <1>8, <2>5 DEF SystemRestarts
    <3> QED BY <1>5, <3>1
  <2>6. ASSUME NEW t \in Threads, ResumedWithoutGraph(t)
        PROVE  /\ Ledger(S, Redone)'
               /\ (Cardinality(ApplicationsFor(S)) <= Allowance(S, Redone))'
    <3>1. Ledger(S, n)'
      BY <1>1, <2>1, <2>6, GraphlessKeepsLedger
    <3>2. Redone' = n
      BY <1>4, <2>6 DEF ResumedWithoutGraph, Redone
    <3> QED BY <1>6, <3>1, <3>2
  <2> QED BY <2>2, <2>3, <2>4, <2>5, <2>6 DEF FaultNext, faultVars
<1> QED BY <1>3, <1>7, <1>8

LEMMA FaultInitInvariant == FaultInit => FaultInvariant
<1> SUFFICES ASSUME FaultInit PROVE FaultInvariant
  OBVIOUS
<1>1. /\ LedgerInvariant
      /\ faults = 0 /\ failedPlans = 0 /\ restarts = 0 /\ Redone = 0
  BY InitLedger DEF FaultInit, Redone
<1>2. \A S \in SUBSET Steps :
        Cardinality(ApplicationsFor(S)) <= Allowance(S, 0)
  BY <1>1, LedgerBounds DEF LedgerInvariant, SystemBase
<1>3. FaultLedger
  BY <1>1, <1>2 DEF FaultLedger, LedgerInvariant
<1>4. FaultCounts
  BY <1>1, GovFlowAssumption, FaultAssumption
  DEF FaultCounts, GovFlowAssumption, FaultAssumption
<1> QED BY <1>1, <1>3, <1>4, FaultInitFrozen
        DEF FaultInvariant, LedgerInvariant

\* Whatever writes fail and however often the process restarts, the threads,
\* the histories and the row keep to SystemBase, and what was submitted for a
\* set of steps was paid for: by its steps, the requests to retry them, and
\* the writes that have failed.
THEOREM FaultLedgerCorrect == FaultSpec => []FaultInvariant
BY FaultInitInvariant, FaultNextKeepsInvariant, PTL DEF FaultSpec

\* A step is submitted once, once more for each retry the user asked for and
\* at most once more for each write that raised, whatever is repeated, or for
\* each further attempt of the planner; if validate_document may raise too,
\* each time once per attempt of DocumentAgent.
THEOREM SubmissionsPaidDespiteFaults ==
  FaultSpec => [](\A s \in Steps :
    Cardinality(Applied(s)) <= Attempts * (1 + Redone + Cardinality(Retries(s))))
<1>1. ASSUME FaultInvariant
      PROVE  \A s \in Steps : Cardinality(Applied(s)) <=
               Attempts * (1 + Redone + Cardinality(Retries(s)))
  <2> SUFFICES ASSUME NEW s \in Steps
               PROVE  Cardinality(Applied(s)) <=
                        Attempts * (1 + Redone + Cardinality(Retries(s)))
    OBVIOUS
  <2>1. Redone \in Nat /\ HistoryTyped
    BY <1>1, RedoneType DEF FaultInvariant, SystemBase
  <2>2. Cardinality(ApplicationsFor({s})) <= Allowance({s}, Redone)
    BY <1>1 DEF FaultInvariant, FaultLedger
  <2>3. /\ ApplicationsFor({s}) = Applied(s)
        /\ Allowance({s}, Redone) =
             Attempts * (1 + Redone + Cardinality(Retries(s)))
    BY <2>1, AllowanceOfStep
  <2> QED BY <2>2, <2>3
<1> QED BY <1>1, FaultLedgerCorrect, PTL

\* The same if no call outside the database raises, as the property says it.
THEOREM EverySubmissionIsPaidFor ==
  ASSUME "validate" \notin Failing
  PROVE  FaultSpec => []EverySubmissionPaidFor
<1>1. ASSUME FaultInvariant,
             \A s \in Steps : Cardinality(Applied(s)) <=
               Attempts * (1 + Redone + Cardinality(Retries(s)))
      PROVE  EverySubmissionPaidFor
  <2>1. Attempts = 1 /\ Redone \in Nat
    BY <1>1, AttemptsType, RedoneType DEF FaultInvariant
  <2>2. ASSUME NEW s \in Steps
        PROVE  Cardinality(Applied(s)) <= 1 + Cardinality(Retries(s)) + Redone
    <3>1. Cardinality(Retries(s)) \in Nat
      <4>1. Retries(s) \in SUBSET (1..Len(requests)) /\ Len(requests) \in Nat
        BY <1>1 DEF FaultInvariant, SystemBase, HistoryTyped, Retries
      <4>2. IsFiniteSet(1..Len(requests))
        BY <4>1, CountTo
      <4>3. IsFiniteSet(Retries(s))
        BY <4>1, <4>2, FS_Subset
      <4> QED BY <4>3, FS_CardinalityType
    <3>2. Cardinality(Applied(s)) <=
            1 * (1 + Redone + Cardinality(Retries(s)))
      BY <1>1, <2>1
    <3> QED BY <2>1, <3>1, <3>2
  <2> QED BY <2>2 DEF EverySubmissionPaidFor
<1> QED BY <1>1, FaultLedgerCorrect, SubmissionsPaidDespiteFaults, PTL

----------------------------------------------------------------------------
(* The types, with repeated attempts.  That there is a thread to poll each   *)
(* application follows from what the failed writes pay for.                  *)

LEMMA CompletionsStay ==
  ASSUME SystemBase, CompletionsPaid, completions' = completions,
         \A a \in 1..MaxApplications :
           chain[Poll(a)].at \notin {"idle", "polling", "APPLICATION_APPROVED"}
             => chain'[Poll(a)].at \notin
                  {"idle", "polling", "APPLICATION_APPROVED"}
  PROVE  CompletionsPaid'
<1>1. Settled \in SUBSET (Settled')
  BY DEF Settled
<1>2. (IsFiniteSet(Settled) /\ Cardinality(Settled) \in Nat)'
  BY SettledFinite, PTL
<1>3. Cardinality(Settled) <= Cardinality(Settled')
  BY <1>1, <1>2, FS_Subset
<1>4. completions \in Nat /\ Cardinality(Settled) \in Nat
  BY SettledFinite DEF SystemBase, HistoryTyped
<1> QED BY <1>2, <1>3, <1>4 DEF CompletionsPaid

LEMMA FaultNextKeepsCompletionsPaid ==
  ASSUME SystemBase, CompletionsPaid, [FaultNext]_faultVars
  PROVE  CompletionsPaid'
<1>1. \A a \in 1..MaxApplications : Poll(a) \in Threads /\ Poll(a) # Root
  BY PollThreads
<1>2. Done.at = "done"
  BY SimpleFrames
\* A thread that ends asks for no verdict any more.
<1>3. ASSUME NEW t \in Threads, chain' = [chain EXCEPT ![t] = Done],
             completions' = completions
      PROVE  CompletionsPaid'
  <2>1. PICK g \in Frames : g = Done
    BY SimpleFrames
  <2>2. chain' = [chain EXCEPT ![t] = g]
    BY <1>3, <2>1
  <2>3. /\ chain'[t] = g
        /\ \A u \in Threads : u # t => chain'[u] = chain[u]
    BY <2>2, OneThread DEF SystemBase
  <2> QED BY <1>1, <1>2, <1>3, <2>1, <2>3, CompletionsStay
<1>4. CASE [SystemNext]_vars
  BY <1>4, NextKeepsCompletionsPaid
<1>5. CASE WriteFails
  <2>1. completions' = completions
    BY <1>5, FaultHops
  <2>2. ASSUME chain' = chain PROVE CompletionsPaid'
    BY <2>1, <2>2, CompletionsStay
  <2>3. CASE GiveUpHop
    BY <1>3, <2>1, <2>3, ThreadNames DEF GiveUpHop
  <2>4. ASSUME NEW t \in Threads,
               \/ RepeatHop \/ SubmissionRepeated(t)
               \/ \E record : PollHop(t, Done, record)
        PROVE  CompletionsPaid'
    BY <1>3, <2>1, <2>2, <2>4 DEF RepeatHop, SubmissionRepeated, PollHop
  <2>5. ASSUME NEW t \in Threads, LoopHop(t) PROVE CompletionsPaid'
    <3>1. PICK g \in Frames : g = FirstLine(chain[t].steps)
      BY <2>5 DEF LoopHop
    <3>2. /\ chain' = [chain EXCEPT ![t] = g]
          /\ chain[t].at \in {"NEXT_ACTION_TRIGGERED", "checklist"}
          /\ g.at = "NEXT_ACTION_TRIGGERED"
      BY <2>5, <3>1 DEF LoopHop, FirstLine, Idle
    <3>3. /\ chain'[t] = g
          /\ \A u \in Threads : u # t => chain'[u] = chain[u]
      BY <3>2, OneThread DEF SystemBase
    <3> QED BY <1>1, <2>1, <3>2, <3>3, CompletionsStay
  <2>6. CASE UNCHANGED vars
    BY <2>2, <2>6 DEF vars
  <2> QED BY <1>5, <2>3, <2>4, <2>5, <2>6, FaultHops
<1>6. CASE SystemRestarts
  <2>1. completions' = completions
    BY <1>6 DEF SystemRestarts
  <2>2. \A t \in Threads : /\ chain'[t].at \in {"idle", "done"}
                           /\ chain'[t].at = "idle" <=> chain[t].at = "idle"
    BY <1>6, RestartEnds
  <2> QED BY <1>1, <2>1, <2>2, CompletionsStay
<1>7. ASSUME NEW t \in Threads, ResumedWithoutGraph(t)
      PROVE  CompletionsPaid'
  BY <1>3, <1>7 DEF ResumedWithoutGraph, Become
<1>8. ASSUME PlannerRepeated PROVE CompletionsPaid'
  BY <1>8, CompletionsStay DEF PlannerRepeated
<1> QED BY <1>4, <1>5, <1>6, <1>7, <1>8 DEF FaultNext, faultVars

LEMMA FaultNextKeepsSmallTypes ==
  ASSUME SystemBase, SmallTypes, [FaultNext]_faultVars
  PROVE  SmallTypes'
<1>1. CASE [SystemNext]_vars
  BY <1>1, NextKeepsSmallTypes DEF SystemBase
<1>2. CASE UNCHANGED <<finding, gateStep>>
  BY <1>2 DEF SmallTypes
<1>3. CASE WriteFails
  BY <1>2, <1>3, FaultHops
<1> QED BY <1>1, <1>2, <1>3
        DEF FaultNext, faultVars, PlannerRepeated, SystemRestarts,
            ResumedWithoutGraph

\* Every variable keeps its type, also when attempts are repeated: there is a
\* thread for each application whichever writes fail, the planner's among
\* them, and the approvals handled are of different applications.
THEOREM FaultTypesCorrect == FaultSpec => []SystemTypeOK
<1>1. FaultInit => CompletionsPaid /\ SmallTypes
  BY SettledFinite
  DEF FaultInit, SystemInit, CompletionsPaid, SmallTypes
<1>2. FaultInvariant /\ CompletionsPaid /\ [FaultNext]_faultVars
        => CompletionsPaid'
  BY FaultNextKeepsCompletionsPaid DEF FaultInvariant
<1>3. FaultInvariant /\ SmallTypes /\ [FaultNext]_faultVars => SmallTypes'
  BY FaultNextKeepsSmallTypes DEF FaultInvariant
<1>4. ASSUME FaultInvariant, CompletionsPaid, SmallTypes
      PROVE  SystemTypeOK
  <2>1. PICK k \in 0..MaxRedone : k = Redone
    BY <1>4, RedoneType DEF FaultInvariant
  <2>2. Cardinality(ApplicationsFor(Steps)) <= Allowance(Steps, k)
    BY <1>4, <2>1 DEF FaultInvariant, FaultLedger
  <2> QED BY <1>4, <2>2, TypesTogether DEF FaultInvariant
<1> QED
  BY <1>1, <1>2, <1>3, <1>4, FaultLedgerCorrect, PTL DEF FaultSpec

----------------------------------------------------------------------------
(* Orphans.  A submission makes one application without a polling task, and  *)
(* one thread that is about to start it; starting it settles both.  Only the *)
(* submission whose record fails leaves an application to nobody.            *)

Filers == {t \in Threads : chain[t].at = "APPLICATION_SUBMITTED"}

\* What a step does to the sets of orphans and of filers, and to the count of
\* the failed writes, without the state they are taken from.
LEMMA Balance ==
  ASSUME NEW O, NEW F, NEW P, NEW G, NEW n \in Nat, NEW m \in Nat,
         IsFiniteSet(O), IsFiniteSet(F), IsFiniteSet(G),
         Cardinality(O) <= n + Cardinality(F),
         \/ /\ P \subseteq O /\ F \subseteq G /\ m = n
         \/ /\ \E x : P \subseteq O \cup {x}
            /\ F \subseteq G /\ m = n + 1
         \/ /\ \E x : P \subseteq O \cup {x}
            /\ \E t \in G : t \notin F
            /\ F \subseteq G /\ m = n
         \/ \E x \in O, t \in F :
              P \subseteq O \ {x} /\ F \ {t} \subseteq G /\ m = n
  PROVE  Cardinality(P) <= m + Cardinality(G)
<1> DEFINE o == Cardinality(O)
           f == Cardinality(F)
           p == Cardinality(P)
           g == Cardinality(G)
<1>1. o \in Nat /\ f \in Nat /\ g \in Nat
  BY FS_CardinalityType
<1>2. F \subseteq G => f <= g
  BY FS_Subset
<1>3. \A x : P \subseteq O \cup {x} => p \in Nat /\ p <= o + 1
  <2> SUFFICES ASSUME NEW x, P \subseteq O \cup {x}
               PROVE  p \in Nat /\ p <= o + 1
    OBVIOUS
  <2>1. IsFiniteSet(O \cup {x}) /\ Cardinality(O \cup {x}) <= o + 1
    <3>1. /\ IsFiniteSet(O \cup {x})
          /\ Cardinality(O \cup {x}) = IF x \in O THEN o ELSE o + 1
      BY FS_AddElement
    <3> HIDE DEF o
    <3> QED BY <1>1, <3>1
  <2>2. Cardinality(O \cup {x}) \in Nat
    BY <2>1, FS_CardinalityType
  <2>3. IsFiniteSet(P) /\ p <= Cardinality(O \cup {x})
    BY <2>1, FS_Subset
  <2>4. p \in Nat
    BY <2>3, FS_CardinalityType
  <2> HIDE DEF o, p
  <2> QED BY <1>1, <2>1, <2>2, <2>3, <2>4
<1>4. CASE P \subseteq O /\ F \subseteq G /\ m = n
  <2>1. IsFiniteSet(P) /\ p <= o
    BY <1>4, FS_Subset
  <2>2. p \in Nat
    BY <2>1, FS_CardinalityType
  <2>3. o <= n + f
    OBVIOUS
  <2> HIDE DEF o, f, p, g
  <2>4. p <= m + g
    BY <1>1, <1>2, <1>4, <2>1, <2>2, <2>3
  <2> QED BY <2>4 DEF p, g
<1>5. CASE (\E x : P \subseteq O \cup {x}) /\ F \subseteq G /\ m = n + 1
  <2>1. p \in Nat /\ p <= o + 1 /\ o <= n + f
    BY <1>3, <1>5
  <2> HIDE DEF o, f, p, g
  <2>2. p <= m + g
    BY <1>1, <1>2, <1>5, <2>1
  <2> QED BY <2>2 DEF p, g
<1>6. CASE /\ \E x : P \subseteq O \cup {x}
           /\ \E t \in G : t \notin F
           /\ F \subseteq G /\ m = n
  <2>1. PICK t \in G : t \notin F
    BY <1>6
  <2>2. /\ IsFiniteSet(F \cup {t})
        /\ Cardinality(F \cup {t}) = f + 1
    BY <2>1, FS_AddElement
  <2>3. F \cup {t} \in SUBSET G
    BY <1>6, <2>1
  <2>4. f + 1 <= g
    BY <2>2, <2>3, FS_Subset
  <2>5. p \in Nat /\ p <= o + 1 /\ o <= n + f
    BY <1>3, <1>6
  <2> HIDE DEF o, f, p, g
  <2>6. p <= m + g
    BY <1>1, <1>6, <2>4, <2>5
  <2> QED BY <2>6 DEF p, g
<1>7. CASE \E x \in O, t \in F :
             P \subseteq O \ {x} /\ F \ {t} \subseteq G /\ m = n
  <2>1. PICK x \in O, t \in F :
          P \subseteq O \ {x} /\ F \ {t} \subseteq G /\ m = n
    BY <1>7
  <2>2. IsFiniteSet(O \ {x}) /\ Cardinality(O \ {x}) = o - 1
    BY FS_RemoveElement
  <2>3. IsFiniteSet(F \ {t}) /\ Cardinality(F \ {t}) = f - 1
    BY FS_RemoveElement
  <2>4. IsFiniteSet(P) /\ p <= o - 1
    BY <2>1, <2>2, FS_Subset
  <2>5. f - 1 <= g
    <3>1. F \ {t} \in SUBSET G
      BY <2>1
    <3> QED BY <2>3, <3>1, FS_Subset
  <2>6. p \in Nat /\ o <= n + f
    BY <2>4, FS_CardinalityType
  <2> HIDE DEF o, f, p, g
  <2>7. p <= m + g
    BY <1>1, <2>1, <2>4, <2>5, <2>6
  <2> QED BY <2>7 DEF p, g
<1> QED BY <1>4, <1>5, <1>6, <1>7

OrphansFiled == Cardinality(Orphans) <= faults + Cardinality(Filers)

LEMMA FilersFinite == IsFiniteSet(Filers)
<1>1. IsFiniteSet(Owners) /\ Filers \in SUBSET Owners
  BY OwnersFinite DEF Filers, Owners
<1> QED BY <1>1, FS_Subset

\* Each application has a thread that is to poll it.
LEMMA OrphanThreads ==
  ASSUME FaultInvariant
  PROVE  /\ Len(applications) \in Nat
         /\ \A a \in 1..Len(applications) : Poll(a) \in Threads
         /\ IsFiniteSet(Orphans) /\ faults \in Nat
<1>1. PICK k \in 0..MaxRedone : k = Redone
  BY RedoneType DEF FaultInvariant
<1>2. Cardinality(ApplicationsFor(Steps)) <= Allowance(Steps, k)
  BY <1>1 DEF FaultInvariant, FaultLedger
<1>3. Len(applications) \in Nat /\ Len(applications) <= MaxApplications
  BY <1>2, ApplicationsBounded DEF FaultInvariant, SystemBase
<1>4. \A a \in 1..Len(applications) : Poll(a) \in Threads
  BY <1>3, PollThreads, BoundsType
<1>5. IsFiniteSet(1..Len(applications))
  BY <1>3, CountTo
<1>6. Orphans \in SUBSET (1..Len(applications))
  BY DEF Orphans
<1>7. IsFiniteSet(Orphans)
  BY <1>5, <1>6, FS_Subset
<1>8. faults \in Nat
  BY GovFlowAssumption DEF FaultInvariant, FaultCounts, GovFlowAssumption
<1> QED BY <1>3, <1>4, <1>7, <1>8

LEMMA BalanceKept ==
  ASSUME FaultInvariant, OrphansFiled, faults' \in Nat,
         \/ Orphans' \subseteq Orphans /\ Filers \subseteq Filers'
            /\ faults' = faults
         \/ /\ \E x : Orphans' \subseteq Orphans \cup {x}
            /\ Filers \subseteq Filers' /\ faults' = faults + 1
         \/ /\ \E x : Orphans' \subseteq Orphans \cup {x}
            /\ \E t \in Filers' : t \notin Filers
            /\ Filers \subseteq Filers' /\ faults' = faults
         \/ \E x \in Orphans, t \in Filers :
              /\ Orphans' \subseteq Orphans \ {x}
              /\ Filers \ {t} \subseteq Filers' /\ faults' = faults
  PROVE  OrphansFiled'
<1> DEFINE O == Orphans
           F == Filers
           P == Orphans'
           G == Filers'
           n == faults
           m == faults'
<1>1. /\ n \in Nat /\ m \in Nat
      /\ IsFiniteSet(O) /\ IsFiniteSet(F)
      /\ Cardinality(O) <= n + Cardinality(F)
  BY OrphanThreads, FilersFinite DEF OrphansFiled
<1>2. IsFiniteSet(G)
  <2>1. G \in SUBSET Owners
    BY DEF Filers, Owners
  <2> QED BY <2>1, OwnersFinite, FS_Subset
<1>3. \/ /\ P \subseteq O /\ F \subseteq G /\ m = n
      \/ /\ \E x : P \subseteq O \cup {x}
         /\ F \subseteq G /\ m = n + 1
      \/ /\ \E x : P \subseteq O \cup {x}
         /\ \E t \in G : t \notin F
         /\ F \subseteq G /\ m = n
      \/ \E x \in O, t \in F :
           P \subseteq O \ {x} /\ F \ {t} \subseteq G /\ m = n
  OBVIOUS
<1>4. Cardinality(P) <= m + Cardinality(G)
  <2> HIDE DEF O, F, P, G, n, m
  <2> QED BY <1>1, <1>2, <1>3, Balance
<1> QED BY <1>4 DEF OrphansFiled

\* One thread goes on, and it is not one that is to start a polling task.
LEMMA OneThreadOrphans ==
  ASSUME FaultInvariant, NEW t \in Threads,
         chain[t].at # "APPLICATION_SUBMITTED", chain'[t].at # "idle",
         \A u \in Threads : u # t => chain'[u] = chain[u]
  PROVE  /\ Filers \subseteq Filers'
         /\ Len(applications') = Len(applications)
              => Orphans' \subseteq Orphans
         /\ Len(applications') = Len(applications) + 1
              => \E x : Orphans' \subseteq Orphans \cup {x}
<1>1. Filers \subseteq Filers'
  BY DEF Filers
<1>2. /\ Len(applications) \in Nat
      /\ \A a \in 1..Len(applications) : Poll(a) \in Threads
  BY OrphanThreads
<1>3. \A a \in 1..Len(applications) :
        chain'[Poll(a)].at = "idle" => chain[Poll(a)].at = "idle"
  BY <1>2
<1>4. Len(applications') = Len(applications) => Orphans' \subseteq Orphans
  BY <1>3 DEF Orphans
<1>5. ASSUME Len(applications') = Len(applications) + 1
      PROVE  Orphans' \subseteq Orphans \cup {Len(applications) + 1}
  <2>1. 1..Len(applications') =
          (1..Len(applications)) \cup {Len(applications) + 1}
    BY <1>2, <1>5
  <2> QED BY <1>3, <2>1 DEF Orphans
<1> QED BY <1>1, <1>4, <1>5

\* The same with the frame the thread is left at.
LEMMA OneFrameOrphans ==
  ASSUME FaultInvariant, OrphansFiled, NEW t \in Threads, NEW g \in Frames,
         chain' = [chain EXCEPT ![t] = g],
         chain[t].at # "APPLICATION_SUBMITTED", g.at # "idle",
         Len(applications') = Len(applications), faults' \in Nat,
         faults' = faults
  PROVE  OrphansFiled'
<1>1. /\ chain'[t] = g
      /\ \A u \in Threads : u # t => chain'[u] = chain[u]
  BY OneThread DEF FaultInvariant, SystemBase
<1>2. Orphans' \subseteq Orphans /\ Filers \subseteq Filers'
  BY <1>1, OneThreadOrphans
<1> QED BY <1>2, BalanceKept

LEMMA SystemKeepsOrphans ==
  ASSUME FaultInvariant, OrphansFiled, [SystemNext]_vars,
         faults' \in Nat, faults' = faults
  PROVE  OrphansFiled'
<1>1. SystemBase
  BY DEF FaultInvariant
<1>2. CASE UNCHANGED vars
  BY <1>2 DEF vars, OrphansFiled, Orphans, Filers
<1>3. ASSUME NEW g \in Frames, RootHop(g)
      PROVE  OrphansFiled'
  <2>1. /\ Root \in Threads /\ chain' = [chain EXCEPT ![Root] = g]
        /\ chain[Root].at # "APPLICATION_SUBMITTED" /\ g.at # "idle"
        /\ Len(applications') = Len(applications)
    BY <1>3, ThreadNames DEF RootHop, RootAt
  <2> QED BY <2>1, OneFrameOrphans
<1>4. ASSUME NEW t \in Threads, NEW g \in Frames, Quiet(t, g) \/ HaltHop(t, g)
      PROVE  OrphansFiled'
  <2>1. /\ chain' = [chain EXCEPT ![t] = g]
        /\ chain[t].at # "APPLICATION_SUBMITTED"
        /\ Len(applications') = Len(applications)
    BY <1>4 DEF Quiet, HaltHop
  <2>2. g.at # "idle"
    BY <1>1, <1>4, WhereThreadsGo
  <2> QED BY <2>1, <2>2, OneFrameOrphans
\* The application and the thread that is to have it polled come together.
<1>5. ASSUME NEW t \in Threads, NEW g \in Frames, SubmitHop(t, g)
      PROVE  OrphansFiled'
  <2>1. /\ chain' = [chain EXCEPT ![t] = g]
        /\ chain[t].at = "APPLICATION_READY"
        /\ g.at = "APPLICATION_SUBMITTED"
    BY <1>5 DEF SubmitHop
  <2>2. Len(applications') = Len(applications) + 1
    <3>1. PICK scenario \in Scenarios :
            applications' =
              Append(applications, Submitted(chain[t].step, scenario))
      BY <1>5 DEF SubmitHop
    <3>2. applications \in Seq(Application)
      BY <1>1 DEF SystemBase, HistoryTyped
    <3> QED BY <3>1, <3>2
  <2>3. /\ chain'[t] = g
        /\ \A u \in Threads : u # t => chain'[u] = chain[u]
    BY <1>1, <2>1, OneThread DEF SystemBase
  <2>4. /\ Filers \subseteq Filers'
        /\ \E x : Orphans' \subseteq Orphans \cup {x}
    BY <2>1, <2>2, <2>3, OneThreadOrphans
  <2>5. t \in Filers' /\ t \notin Filers
    BY <2>1, <2>3 DEF Filers
  <2> QED BY <2>4, <2>5, BalanceKept
\* The polling task is started: one orphan less, and one filer less.
<1>6. ASSUME NEW t \in Threads, WatchHop(t)
      PROVE  OrphansFiled'
  <2> DEFINE a == chain[t].app
  <2>1. /\ a \in 1..Len(applications) /\ chain[t].step \in Steps
        /\ chain'[t].at \in {"done", "checklist"}
        /\ Poll(a) # t
        /\ Poll(a) \in Threads =>
             /\ chain[Poll(a)].at = "idle"
             /\ chain'[Poll(a)] = Polling(chain[t].step, a)
        /\ \A u \in Threads : u # t /\ u # Poll(a) => chain'[u] = chain[u]
    BY <1>1, <1>6, WatchMoves
  <2>2. /\ chain[t].at = "APPLICATION_SUBMITTED"
        /\ Len(applications') = Len(applications)
    BY <1>6 DEF WatchHop
  <2> HIDE DEF a
  <2>3. /\ Poll(a) \in Threads
        /\ \A b \in 1..Len(applications) : Poll(b) \in Threads
    BY <2>1, OrphanThreads
  <2>4. chain[Poll(a)].at = "idle" /\ chain'[Poll(a)].at = "polling"
    <3>1. a \in Nat
      BY <2>1
    <3>2. Polling(chain[t].step, a).at = "polling"
      BY <2>1, <3>1, PollingFrame
    <3> QED BY <2>1, <2>3, <3>2
  <2>5. a \in Orphans /\ t \in Filers
    BY <2>1, <2>2, <2>4 DEF Orphans, Filers
  <2>6. Orphans' \subseteq Orphans \ {a}
    BY <2>1, <2>2, <2>3, <2>4 DEF Orphans
  <2>7. Filers \ {t} \subseteq Filers'
    BY <2>1, <2>4 DEF Filers
  <2> QED BY <2>5, <2>6, <2>7, BalanceKept
<1>7. ASSUME NEW t \in Threads, NEW g \in Frames, NEW record,
             PollHop(t, g, record)
      PROVE  OrphansFiled'
  <2>1. /\ chain' = [chain EXCEPT ![t] = g]
        /\ chain[t].at = "polling"
    BY <1>7 DEF PollHop
  <2>2. g.at # "idle"
    BY <1>7, SimpleFrames DEF PollHop
  <2>3. Len(applications') = Len(applications)
    <3>1. applications \in Seq(Application)
      BY <1>1 DEF SystemBase, HistoryTyped
    <3> QED BY <1>7, <3>1 DEF PollHop
  <2> QED BY <2>1, <2>2, <2>3, OneFrameOrphans
<1>8. ASSUME NEW t \in Threads, NEW m \in [Steps -> StepStatus], ClaimHop(t, m)
      PROVE  OrphansFiled'
  <2>1. /\ chain'[t].at # "idle"
        /\ \A u \in Threads : u # t => chain'[u] = chain[u]
    BY <1>1, <1>8, WorkClaimed
  <2>2. /\ chain[t].at # "APPLICATION_SUBMITTED"
        /\ Len(applications') = Len(applications)
    BY <1>8 DEF ClaimHop
  <2>3. Orphans' \subseteq Orphans /\ Filers \subseteq Filers'
    BY <2>1, <2>2, OneThreadOrphans
  <2> QED BY <2>3, BalanceKept
<1>9. ASSUME NEW s \in Steps \cup {NoStep}, NEW action \in {"retry", "abandon"},
             UserHop(s, action)
      PROVE  OrphansFiled'
  <2> DEFINE t == Resume(Len(requests) + 1)
  <2>1. /\ t \in Threads /\ chain[t].at = "idle"
        /\ chain'[t].at = "WORKFLOW_RESUMED"
        /\ \A u \in Threads : u # t => chain'[u] = chain[u]
    BY <1>1, <1>9, RequestMoves
  <2>2. Len(applications') = Len(applications)
    BY <1>9 DEF UserHop
  <2> HIDE DEF t
  <2>3. Orphans' \subseteq Orphans /\ Filers \subseteq Filers'
    BY <2>1, <2>2, OneThreadOrphans
  <2> QED BY <2>3, BalanceKept
<1>10. ASSUME SystemNext PROVE OrphansFiled'
  <2>1. \/ \E g \in Frames : RootHop(g)
        \/ \E t \in Threads : \E g \in Frames :
             Quiet(t, g) \/ SubmitHop(t, g) \/ HaltHop(t, g)
        \/ \E t \in Threads : WatchHop(t)
        \/ \E t \in Threads : \E g \in Frames : \E record :
             PollHop(t, g, record)
        \/ \E t \in Threads : \E m \in [Steps -> StepStatus] : ClaimHop(t, m)
        \/ \E s \in Steps \cup {NoStep}, action \in {"retry", "abandon"} :
             UserHop(s, action)
    BY <1>1, <1>10, SystemHops
  <2> QED BY <1>3, <1>4, <1>5, <1>6, <1>7, <1>8, <1>9, <2>1
<1> QED BY <1>2, <1>10

LEMMA FaultKeepsOrphans ==
  ASSUME FaultInvariant, OrphansFiled, WriteFails
  PROVE  OrphansFiled'
<1>1. SystemBase /\ faults \in Nat
  BY OrphanThreads DEF FaultInvariant
<1>2. faults' = faults + 1 /\ faults' \in Nat
  BY <1>1, FaultHops
<1>3. applications \in Seq(Application) /\ Len(applications) \in Nat
  BY <1>1 DEF SystemBase, HistoryTyped
\* What is no submission pays without making an orphan.
<1>4. ASSUME Orphans' \subseteq Orphans, Filers \subseteq Filers'
      PROVE  OrphansFiled'
  <2>1. \E x : Orphans' \subseteq Orphans \cup {x}
    BY <1>4
  <2> QED BY <1>2, <1>4, <2>1, BalanceKept
<1>5. ASSUME NEW t \in Threads, chain' = [chain EXCEPT ![t] = Done],
             chain[t].at # "APPLICATION_SUBMITTED",
             Len(applications') = Len(applications)
      PROVE  OrphansFiled'
  <2>1. PICK g \in Frames : g = Done /\ g.at = "done"
    BY SimpleFrames
  <2>2. chain' = [chain EXCEPT ![t] = g]
    BY <1>5, <2>1
  <2>3. /\ chain'[t].at # "idle"
        /\ \A u \in Threads : u # t => chain'[u] = chain[u]
    BY <1>1, <2>1, <2>2, OneThread DEF SystemBase
  <2> QED BY <1>4, <1>5, <2>3, OneThreadOrphans
<1>6. CASE GiveUpHop
  BY <1>5, <1>6, ThreadNames DEF GiveUpHop, RootAt
<1>7. CASE RepeatHop \/ UNCHANGED vars
  BY <1>4, <1>7 DEF RepeatHop, vars, Orphans, Filers
<1>8. ASSUME NEW t \in Threads, LoopHop(t) PROVE OrphansFiled'
  <2>1. PICK g \in Frames : g = FirstLine(chain[t].steps)
    BY <1>8 DEF LoopHop
  <2>2. /\ chain' = [chain EXCEPT ![t] = g]
        /\ chain[t].at # "APPLICATION_SUBMITTED"
        /\ g.at = "NEXT_ACTION_TRIGGERED"
        /\ Len(applications') = Len(applications)
    BY <1>8, <2>1 DEF LoopHop, FirstLine, Idle
  <2>3. /\ chain'[t].at # "idle"
        /\ \A u \in Threads : u # t => chain'[u] = chain[u]
    BY <1>1, <2>2, OneThread DEF SystemBase
  <2> QED BY <1>4, <2>2, <2>3, OneThreadOrphans
<1>9. ASSUME NEW t \in Threads, SubmissionRepeated(t)
      PROVE  OrphansFiled'
  <2>1. PICK scenario \in Scenarios :
          applications' = Append(applications, Submitted(chain[t].step, scenario))
    BY <1>9 DEF SubmissionRepeated
  <2>2. Len(applications') = Len(applications) + 1
    BY <1>3, <2>1
  <2>3. chain' = chain
    BY <1>9 DEF SubmissionRepeated
  <2>4. /\ chain[t].at # "APPLICATION_SUBMITTED" /\ chain'[t].at # "idle"
        /\ \A u \in Threads : u # t => chain'[u] = chain[u]
    BY <1>9, <2>3 DEF SubmissionRepeated
  <2>5. /\ Filers \subseteq Filers'
        /\ \E x : Orphans' \subseteq Orphans \cup {x}
    BY <2>2, <2>4, OneThreadOrphans
  <2> QED BY <1>2, <2>5, BalanceKept
<1>10. ASSUME NEW t \in Threads, NEW record, PollHop(t, Done, record)
      PROVE  OrphansFiled'
  <2>1. Len(applications') = Len(applications)
    BY <1>3, <1>10 DEF PollHop
  <2> QED BY <1>5, <1>10, <2>1 DEF PollHop
<1> QED BY <1>1, <1>6, <1>7, <1>8, <1>9, <1>10, FaultHops

\* Until a restart each application without a polling task is one whose
\* record failed, or is about to get its task.
THEOREM EveryOrphanIsPaidFor == FaultSpec => []OrphansPaidFor
<1> DEFINE Kept == restarts = 0 => OrphansFiled
<1>1. FaultInit => Kept
  <2> SUFFICES ASSUME FaultInit PROVE OrphansFiled
    OBVIOUS
  <2>1. applications = << >> /\ faults = 0
    BY DEF FaultInit, SystemInit
  <2>2. Orphans = {}
    BY <2>1 DEF Orphans
  <2>3. Cardinality(Filers) \in Nat /\ Cardinality({}) = 0
    BY FilersFinite, FS_CardinalityType, FS_EmptySet
  <2> QED BY <2>1, <2>2, <2>3 DEF OrphansFiled
<1>2. ASSUME FaultInvariant, Kept, [FaultNext]_faultVars PROVE Kept'
  <2> SUFFICES ASSUME restarts' = 0 PROVE OrphansFiled'
    OBVIOUS
  <2>1. restarts \in Nat /\ faults \in Nat /\ SystemBase
    BY <1>2, OrphanThreads DEF FaultInvariant, FrozenInvariant
  <2>2. restarts = 0 /\ ~SystemRestarts
    BY <1>2, <2>1 DEF FaultNext, WriteFails, Fault, PlannerRepeated,
                      SystemRestarts, ResumedWithoutGraph, disturbances,
                      faultVars
  <2>3. OrphansFiled
    BY <1>2, <2>2
  <2>4. CASE [SystemNext]_vars /\ faults' = faults
    BY <1>2, <2>1, <2>3, <2>4, SystemKeepsOrphans
  <2>5. CASE WriteFails
    BY <1>2, <2>3, <2>5, FaultKeepsOrphans
  <2>6. ASSUME NEW t \in Threads, ResumedWithoutGraph(t)
        PROVE  OrphansFiled'
    <3>1. PICK g \in Frames : g = Done /\ g.at = "done"
      BY SimpleFrames
    <3>2. /\ chain' = [chain EXCEPT ![t] = g]
          /\ chain[t].at # "APPLICATION_SUBMITTED"
          /\ Len(applications') = Len(applications) /\ faults' = faults
      BY <2>6, <3>1 DEF ResumedWithoutGraph, Become
    <3> QED BY <1>2, <2>1, <2>3, <3>1, <3>2, OneFrameOrphans
  <2>7. CASE PlannerRepeated
    BY <2>3, <2>7 DEF PlannerRepeated, OrphansFiled, Orphans, Filers
  <2> QED BY <1>2, <2>2, <2>4, <2>5, <2>6, <2>7
          DEF FaultNext, disturbances, faultVars
<1>3. Kept => OrphansPaidFor
  BY DEF OrphansFiled, OrphansPaidFor, Filers
<1> QED
  <2> HIDE DEF Kept
  <2> QED BY <1>1, <1>2, <1>3, FaultLedgerCorrect, PTL DEF FaultSpec

----------------------------------------------------------------------------
(* Steps that nobody works on.  On a line at most one step is between its    *)
(* start and its completion, so a gate, which is always about a step, means  *)
(* that no step is running, and nothing an agent drops because of it was     *)
(* claimed.  Nothing else is dropped: the government answers at the second   *)
(* call, and nothing but the LLM raises.                                     *)

\* Of the calls out of the process only the LLM's raise, and a polling task
\* may ask more than once, as often as the slowest verdict takes.
Diligent == Failing \subseteq {"llm"} /\ MaxPolls > 1

\* Nobody has found the applicant ineligible, or the information wanting.
Clear == finding \in {"none", "eligible"}

\* The finding comes once, before the creation goes on.
FindingInOrder ==
  chain[Root].at \in RootAt \ {"creating"} => finding = "none"

\* The gate is about a step.
GateOnStep == IsGated => BlockedStepIds(graph) # {}

\* A polling task has asked as often as it has tried, and has no verdict only
\* after the first time.
Pressing ==
  \A t \in Threads :
    chain[t].at = "polling" =>
      /\ chain[t].attempt = applications[chain[t].app].asked
      /\ chain[t].attempt \in {0, 1}

\* RunningStepHasWorker, by frames.
Staffed ==
  \A s \in Steps :
    graph[s] = "RUNNING" => \E t \in Threads : s \in Working(chain[t])

AttendedInvariant ==
  /\ LifecycleInvariant
  /\ requests # << >> => hasGraph
  /\ FindingInOrder
  /\ Pressing
  /\ Clear => GateOnStep /\ Staffed

LEMMA StaffedMeans == Staffed <=> RunningStepHasWorker
<1>1. \A t \in Threads : WorkingOn(t) = Working(chain[t])
  BY WorkingOnFrame
<1> QED BY <1>1 DEF Staffed, RunningStepHasWorker, StepsWith

\* One step at a time.
LEMMA OneStepAtATime ==
  ASSUME IsLine, LifecycleInvariant, NEW s \in Steps, NEW u \in Steps,
         graph[s] \notin {"PENDING", "COMPLETED"},
         graph[u] \notin {"PENDING", "COMPLETED"}
  PROVE  s = u
<1> DEFINE done == CompletedStepIds(graph)
<1>1. done \in SUBSET Steps /\ s \in Steps \ done /\ u \in Steps \ done
  BY DEF CompletedStepIds, StepsWith
<1>2. \A v \in Steps : graph[v] # "PENDING" => DependsOn[v] \subseteq done
  BY DependenciesOf
  DEF LifecycleInvariant, StartedInOrder, CompletedStepIds, StepsWith
<1>3. \A v \in done : DependsOn[v] \subseteq done
  BY <1>2 DEF CompletedStepIds, StepsWith
<1>4. DependsOn[s] \cup DependsOn[u] \subseteq done
  BY <1>2
<1> HIDE DEF done
<1> QED BY <1>1, <1>3, <1>4 DEF IsLine

\* Who works on a step meets no gate.
LEMMA WorkersMeetNoGate ==
  ASSUME IsLine, LifecycleInvariant, GateOnStep, NEW t \in Threads,
         NEW s \in Working(chain[t])
  PROVE  graph[s] = "RUNNING" /\ s \in Steps /\ ~IsGated
<1>1. s \in Steps
  BY WorkingFacts, ApplicationFacts DEF LifecycleInvariant, ReviewInvariant
<1>2. graph[s] = "RUNNING"
  BY <1>1, SoleWorker DEF LifecycleInvariant, ReviewInvariant, Sole
<1>3. ASSUME IsGated PROVE FALSE
  <2>1. PICK u \in Steps : graph[u] = "BLOCKED"
    BY <1>3 DEF GateOnStep, BlockedStepIds, StepsWith
  <2>2. s = u
    BY <1>1, <1>2, <2>1, OneStepAtATime
  <2> QED BY <1>2, <2>1, <2>2
<1> QED BY <1>1, <1>2, <1>3

\* The operations of the engine, but for a gate on the row alone, leave a gate
\* only with a step that is blocked.
LEMMA GatesAreOnSteps ==
  ASSUME TypeOK, GateOnStep,
         \/ UNCHANGED engineVars
         \/ CreateWorkflow \/ FinishCreation \/ ResumeWorkflow
         \/ \E s \in Steps :
              \/ CompleteStep(s) \/ FailStep(s) \/ ResumeStep(s)
              \/ \E gate \in GateStatus : BlockStep(s, gate)
  PROVE  GateOnStep'
<1>1. \A g : /\ GraphStatus(g) \in GateStatus => BlockedStepIds(g) # {}
             /\ \A status : SyncedRow(g, status).status = status
  BY DEF GraphStatus, GateStatus, SyncedRow
<1>2. CASE UNCHANGED engineVars
  BY <1>2 DEF engineVars, GateOnStep, IsGated
<1>3. CASE CreateWorkflow
  BY <1>3 DEF CreateWorkflow, GateOnStep, IsGated, GateStatus, AbsentRow
<1>4. CASE FinishCreation \/ \E s \in Steps : CompleteStep(s) \/ FailStep(s)
  <2>1. workflow' = SyncedRow(graph', GraphStatus(graph'))
    BY <1>4 DEF FinishCreation, CompleteStep, FailStep
  <2>2. workflow'.status = GraphStatus(graph')
    BY <1>1, <2>1
  <2> QED BY <1>1, <2>2 DEF GateOnStep, IsGated
<1>5. CASE ResumeWorkflow \/ \E s \in Steps : ResumeStep(s)
  <2>1. workflow'.status = "RUNNING"
    BY <1>1, <1>5 DEF ResumeWorkflow, ResumeStep
  <2> QED BY <2>1 DEF GateOnStep, IsGated, GateStatus
<1>6. CASE \E s \in Steps : \E gate \in GateStatus : BlockStep(s, gate)
  <2>1. PICK s \in Steps : graph' = MarkStepStatus(graph, s, "BLOCKED")
    BY <1>6 DEF BlockStep
  <2>2. graph'[s] = "BLOCKED"
    BY <2>1 DEF TypeOK, MarkStepStatus
  <2> QED BY <2>2 DEF GateOnStep, BlockedStepIds, StepsWith
<1> QED BY <1>2, <1>3, <1>4, <1>5, <1>6

\* An agent that meets no gate passes its step on, and keeps its list.
LEMMA AgentsKeepWork ==
  ASSUME SystemBase, Diligent, ~IsGated, NEW t \in Threads,
         \/ DocumentAgent(t) \/ DocumentAgentContinues(t)
         \/ DepartmentRouter(t) \/ ApplicationAgent(t)
  PROVE  Working(chain[t]) \subseteq Working(chain'[t])
<1> DEFINE f == chain[t]
<1>1. f \in Frames /\ FramesTyped /\ Len(applications) \in Nat
  BY ApplicationFacts DEF SystemBase
<1>2. "validate" \notin Failing /\ "submit" \notin Failing
  BY DEF Diligent
<1>3. ASSUME NEW g \in Frames, chain' = [chain EXCEPT ![t] = g],
             Working(f) \subseteq Working(g)
      PROVE  Working(chain[t]) \subseteq Working(chain'[t])
  BY <1>1, <1>3, OneThread
<1>4. CASE DocumentAgent(t) \/ DocumentAgentContinues(t)
  <2>1. /\ f.at \in {"NEXT_ACTION_TRIGGERED", "checklist"}
        /\ CheckDocuments(t)
    BY <1>4 DEF DocumentAgent, DocumentAgentContinues
  <2>2. \E event \in {"DOCUMENTS_VALIDATED", "DOCUMENT_MISSING"} :
          Become(t, Checked(f, event))
    BY <1>2, <2>1 DEF CheckDocuments, Checked
  <2>3. PICK event \in {"DOCUMENTS_VALIDATED", "DOCUMENT_MISSING"} :
          Become(t, Checked(f, event))
    BY <2>2
  <2> DEFINE g == Checked(f, event)
  <2>4. /\ g \in Frames /\ g.at = event /\ g.step \in Todo(f)
        /\ Todo(g) = Todo(f) \ {g.step}
    BY <1>1, <2>1, CheckedFrame
  <2>5. chain' = [chain EXCEPT ![t] = g]
    BY <2>3 DEF Become
  <2> HIDE DEF g
  <2>6. Working(f) = Todo(f) /\ Working(g) = Todo(g) \cup {g.step}
    BY <1>1, <2>1, <2>4, WorkingFacts
  <2> QED BY <1>3, <2>4, <2>5, <2>6
<1>5. CASE DepartmentRouter(t)
  <2> DEFINE g == [f EXCEPT !.at = "APPLICATION_READY"]
  <2>1. f.at = "DOCUMENTS_VALIDATED" /\ chain' = [chain EXCEPT ![t] = g]
    BY <1>5 DEF DepartmentRouter, Become
  <2>2. /\ g \in Frames /\ g.at = "APPLICATION_READY" /\ g.step = f.step
        /\ Todo(g) = Todo(f)
    BY <1>1, <2>1, RoutedFrame
  <2> HIDE DEF g
  <2>3. Working(f) = Todo(f) \cup {f.step} /\ Working(g) = Todo(g) \cup {g.step}
    BY <1>1, <2>1, <2>2, WorkingFacts
  <2> QED BY <1>3, <2>1, <2>2, <2>3
<1>6. CASE ApplicationAgent(t)
  <2> DEFINE g == [f EXCEPT !.at = "APPLICATION_SUBMITTED",
                            !.app = Len(applications')]
  <2>1. /\ f.at = "APPLICATION_READY" /\ chain' = [chain EXCEPT ![t] = g]
        /\ \E scenario \in Scenarios :
             applications' = Append(applications, Submitted(f.step, scenario))
    BY <1>2, <1>6 DEF ApplicationAgent, Become
  <2>2. Len(applications') \in Nat
    BY <1>1, <2>1 DEF SystemBase, HistoryTyped
  <2>3. /\ g \in Frames /\ g.at = "APPLICATION_SUBMITTED" /\ g.step = f.step
        /\ Todo(g) = Todo(f)
    BY <1>1, <2>1, <2>2, SubmittedFrame
  <2>4. f.at = "APPLICATION_READY" /\ chain' = [chain EXCEPT ![t] = g]
    BY <2>1
  <2> HIDE DEF g
  <2>5. Working(f) = Todo(f) \cup {f.step} /\ Working(g) = Todo(g) \cup {g.step}
    BY <1>1, <2>3, <2>4, WorkingFacts
  <2> QED BY <1>3, <2>3, <2>4, <2>5
<1> QED BY <1>4, <1>5, <1>6

\* The second answer is a verdict.
LEMMA SecondAnswer ==
  ASSUME NEW scenario
  PROVE  GovernmentAnswer(scenario, 2) \in
           {"APPROVED", "REJECTED", "DOCUMENT_MISSING"}
<1>1. CASE scenario = "document_missing"
  BY <1>1 DEF GovernmentAnswer
<1>2. CASE scenario = "rejected"
  BY <1>2 DEF GovernmentAnswer
<1>3. CASE scenario = "transient_failure"
  BY <1>3 DEF GovernmentAnswer
<1>4. CASE scenario \notin
             {"document_missing", "rejected", "transient_failure"}
  BY <1>4 DEF GovernmentAnswer
<1> QED BY <1>1, <1>2, <1>3, <1>4

\* So a polling task does not come to its end without one.
LEMMA PollsKeepWork ==
  ASSUME SystemBase, Diligent, Pressing, NEW t \in Threads,
         PollRateLimited(t) \/ PollStatus(t)
  PROVE  /\ Pressing'
         /\ Working(chain[t]) \subseteq Working(chain'[t])
         /\ \A u \in Threads : u # t => chain'[u] = chain[u]
<1> DEFINE f == chain[t]
           old == applications[f.app]
           n == old.asked + 1
           answer == GovernmentAnswer(old.scenario, n)
           g == IF answer \in DOMAIN VerdictEvent
                THEN Handling(VerdictEvent[answer], f.step)
                ELSE PollAgain(t)
<1>1. /\ f \in Frames /\ FramesTyped /\ PollStatus(t) /\ f.at = "polling"
      /\ Working(f) = {f.step} /\ f.step \in Steps
  <2>1. f \in Frames /\ FramesTyped /\ PollStatus(t) /\ f.at = "polling"
    BY ApplicationFacts
    DEF SystemBase, Diligent, PollRateLimited, PollStatus
  <2> QED BY <2>1, WorkingFacts DEF VerdictAt, Frames, FrameShape
<1>2. /\ f.app \in 1..Len(applications) /\ t = Poll(f.app)
      /\ old \in Application /\ applications \in Seq(Application)
      /\ f.attempt = old.asked /\ old.asked \in {0, 1}
  BY <1>1 DEF SystemBase, OwnApplications, Asking, HistoryTyped, Pressing
<1>3. /\ chain' = [chain EXCEPT ![t] = g]
      /\ \E status : applications' = [applications EXCEPT
                       ![f.app].asked = n, ![f.app].status = status]
  BY <1>1 DEF PollStatus, Become
<1>4. /\ DOMAIN VerdictEvent = {"APPROVED", "REJECTED", "DOCUMENT_MISSING"}
      /\ VerdictEvent["APPROVED"] = "APPLICATION_APPROVED"
      /\ VerdictEvent["REJECTED"] = "APPLICATION_REJECTED"
      /\ VerdictEvent["DOCUMENT_MISSING"] = "DOCUMENT_MISSING"
  BY DEF VerdictEvent
<1>5. \A a \in 1..Len(applications) :
        applications'[a].asked = IF a = f.app THEN n ELSE applications[a].asked
  <2>1. PICK status : applications' = [applications EXCEPT
                        ![f.app].asked = n, ![f.app].status = status]
    BY <1>3
  <2> HIDE DEF n, f
  <2> QED BY <1>2, <2>1 DEF Application
\* With a verdict.
<1>6. CASE answer \in DOMAIN VerdictEvent
  <2>1. /\ g \in Frames /\ Working(g) = {f.step} /\ g.at # "polling"
    <3>1. /\ VerdictEvent[answer] \in VerdictAt \cup {"DOCUMENT_MISSING"}
          /\ VerdictEvent[answer] # "polling"
      BY <1>4, <1>6 DEF VerdictAt
    <3>2. g = Handling(VerdictEvent[answer], f.step)
      BY <1>6
    <3>3. \A e : /\ Handling(e, f.step).at = e
                 /\ Handling(e, f.step).step = f.step
                 /\ Handling(e, f.step).steps = {}
      BY DEF Handling, Idle
    <3>4. /\ g \in Frames /\ g.step = f.step /\ g.steps = {}
          /\ g.at = VerdictEvent[answer]
      <4> HIDE DEF g, answer, f
      <4>1. \A s \in Steps, e \in VerdictAt \cup {"DOCUMENT_MISSING"} :
              Handling(e, s) \in Frames
        BY SimpleFrames
      <4>2. g \in Frames
        BY <1>1, <3>1, <3>2, <4>1
      <4> QED BY <3>2, <3>3, <4>2
    <3> HIDE DEF g
    <3>5. Todo(g) = {}
      BY <3>4 DEF Todo
    <3>6. Working(g) = {f.step}
      <4>1. NoStep \notin Steps
        BY GraphAssumption DEF GraphAssumption
      <4>2. g.at \notin {"WORKFLOW_RESUMED", "checklist"}
        BY <3>1, <3>4 DEF VerdictAt
      <4> QED BY <1>1, <3>4, <3>5, <4>1, <4>2 DEF Working
    <3> QED BY <3>1, <3>4, <3>6
  <2> HIDE DEF g
  <2>2. /\ chain'[t] = g
        /\ \A u \in Threads : u # t => chain'[u] = chain[u]
    BY <1>1, <1>3, <2>1, OneThread
  <2>3. Pressing'
    <3> SUFFICES ASSUME NEW u \in Threads, chain'[u].at = "polling"
                 PROVE  /\ chain'[u].attempt = applications'[chain'[u].app].asked
                        /\ chain'[u].attempt \in {0, 1}
      BY DEF Pressing
    <3>1. u # t /\ chain'[u] = chain[u]
      BY <2>1, <2>2
    <3>2. /\ chain[u].app \in 1..Len(applications) /\ chain[u].app # f.app
          /\ chain[u].attempt = applications[chain[u].app].asked
          /\ chain[u].attempt \in {0, 1}
      BY <1>2, <3>1 DEF SystemBase, OwnApplications, Asking, Pressing
    <3> HIDE DEF f
    <3> QED BY <1>5, <3>1, <3>2
  <2> QED BY <1>1, <2>1, <2>2, <2>3
\* Without one: it was the first answer.
<1>7. CASE answer \notin DOMAIN VerdictEvent
  <2>1. old.asked = 0
    BY <1>2, <1>4, <1>7, SecondAnswer
  <2>2. g = [f EXCEPT !.attempt = @ + 1]
    BY <1>2, <1>7, <2>1, GovFlowAssumption
    DEF PollAgain, Diligent, GovFlowAssumption
  <2>3. g \in Frames
    BY <1>1, <1>7, PollAgainFrame
  <2>4. /\ g.at = "polling" /\ g.attempt = 1 /\ g.app = f.app
        /\ g.step = f.step
    <3> HIDE DEF g, answer, n
    <3> QED BY <1>1, <1>2, <2>1, <2>2 DEF Frames, Carried
  <2> HIDE DEF g
  <2>5. /\ chain'[t] = g
        /\ \A u \in Threads : u # t => chain'[u] = chain[u]
    BY <1>1, <1>3, <2>3, OneThread
  <2>6. Working(g) = {f.step}
    BY <2>3, <2>4, WorkingFacts DEF VerdictAt
  <2>7. n = 1
    BY <2>1
  <2>8. Pressing'
    <3> SUFFICES ASSUME NEW u \in Threads, chain'[u].at = "polling"
                 PROVE  /\ chain'[u].attempt = applications'[chain'[u].app].asked
                        /\ chain'[u].attempt \in {0, 1}
      BY DEF Pressing
    <3> HIDE DEF f, n
    <3>1. CASE u = t
      BY <1>2, <1>5, <2>4, <2>5, <2>7, <3>1
    <3>2. CASE u # t
      <4>1. chain'[u] = chain[u]
        BY <2>5, <3>2
      <4>2. /\ chain[u].app \in 1..Len(applications) /\ chain[u].app # f.app
            /\ chain[u].attempt = applications[chain[u].app].asked
            /\ chain[u].attempt \in {0, 1}
        BY <1>2, <3>2, <4>1 DEF SystemBase, OwnApplications, Asking, Pressing
      <4> QED BY <1>5, <4>1, <4>2
    <3> QED BY <3>1, <3>2
  <2> QED BY <1>1, <2>5, <2>6, <2>8
<1> QED BY <1>6, <1>7

\* The steps of the backend once more, the agents and the polls unabridged.
LEMMA StepsOfTheBackend ==
  ASSUME SystemBase, SystemNext
  PROVE  \/ \E t \in Threads :
              \/ DocumentAgent(t) \/ DocumentAgentContinues(t)
              \/ DepartmentRouter(t) \/ ApplicationAgent(t)
         \/ \E t \in Threads : PollRateLimited(t) \/ PollStatus(t)
         \/ \E g \in Frames : RootHop(g)
         \/ \E t \in Threads : WatchHop(t)
         \/ \E t \in Threads : \E g \in Frames : HaltHop(t, g)
         \/ \E t \in Threads : \E m \in [Steps -> StepStatus] : ClaimHop(t, m)
         \/ \E s \in Steps \cup {NoStep}, action \in {"retry", "abandon"} :
              UserHop(s, action)
<1>1. \/ RootStep \/ UserStep
      \/ \E t \in Threads : CascadeStep(t)
  BY DEF SystemNext
<1>2. /\ FramesTyped /\ graph \in [Steps -> StepStatus]
  BY DEF SystemBase, TypeOK
<1>3. ASSUME RootStep
      PROVE  \/ \E g \in Frames : RootHop(g)
             \/ \E t \in Threads : \E m \in [Steps -> StepStatus] :
                  ClaimHop(t, m)
  <2>1. CASE WorkflowCreated
    <3>1. ClaimHop(Root, graph)
      BY <2>1
      DEF WorkflowCreated, ClaimHop, FinishCreation, ClaimEvent, Become,
          SystemBase, TypeOK
    <3> QED BY <1>2, <3>1, ThreadNames
  <2>2. CASE ~WorkflowCreated
    BY <1>2, <1>3, <2>2, RootHops DEF RootStep
  <2> QED BY <2>1, <2>2
<1>4. ASSUME UserStep
      PROVE  \E s \in Steps \cup {NoStep}, action \in {"retry", "abandon"} :
               UserHop(s, action)
  <2>1. PICK s \in Steps \cup {NoStep}, action \in {"retry", "abandon"} :
          PublishManualEvent(s, action)
    BY <1>4 DEF UserStep
  <2>2. requests' = Append(requests, [step |-> s, action |-> action])
    BY <2>1 DEF PublishManualEvent
  <2>3. Len(requests') = Len(requests) + 1
    BY <2>2 DEF SystemBase, HistoryTyped
  <2>4. UserHop(s, action)
    BY <2>1, <2>3 DEF PublishManualEvent, UserHop, Become, Resumed
  <2> QED BY <2>4
<1>5. ASSUME NEW t \in Threads, CascadeStep(t)
      PROVE  \/ DocumentAgent(t) \/ DocumentAgentContinues(t)
             \/ DepartmentRouter(t) \/ ApplicationAgent(t)
             \/ PollRateLimited(t) \/ PollStatus(t)
             \/ WatchHop(t)
             \/ \E g \in Frames : HaltHop(t, g)
             \/ \E m \in [Steps -> StepStatus] : ClaimHop(t, m)
  BY <1>2, <1>5, WatchHops, ApprovalHop, HaltHops, ResumptionHops
  DEF CascadeStep
<1> QED BY <1>1, <1>3, <1>4, <1>5

\* The finding is made once, and an eligible one leaves no gate.
LEMMA ClearStays ==
  ASSUME SystemBase, FindingInOrder, [SystemNext]_vars
  PROVE  /\ Clear' => Clear
         /\ Clear' => \/ UNCHANGED engineVars
                      \/ CreateWorkflow \/ FinishCreation \/ ResumeWorkflow
                      \/ \E s \in Steps :
                           \/ CompleteStep(s) \/ FailStep(s) \/ ResumeStep(s)
                           \/ \E gate \in GateStatus : BlockStep(s, gate)
<1> DEFINE Ungated == \/ UNCHANGED engineVars
                      \/ CreateWorkflow \/ FinishCreation \/ ResumeWorkflow
                      \/ \E s \in Steps :
                           \/ CompleteStep(s) \/ FailStep(s) \/ ResumeStep(s)
                           \/ \E gate \in GateStatus : BlockStep(s, gate)
<1>1. finding' = finding => (Clear' => Clear)
  BY DEF Clear
<1>2. CASE UNCHANGED vars
  <2>1. UNCHANGED engineVars /\ finding' = finding
    BY <1>2 DEF vars
  <2> QED BY <1>1, <2>1
<1>3. CASE Eligibility
  <2>1. finding = "none"
    BY <1>3 DEF Eligibility, FindingInOrder, RootAt
  <2>2. finding' = "eligible" => UNCHANGED engineVars
    BY <1>3 DEF Eligibility
  <2>3. Clear' => finding' = "eligible"
    BY <1>3, GovFlowAssumption DEF Eligibility, Clear, GovFlowAssumption
  <2> QED BY <2>1, <2>2, <2>3 DEF Clear
<1>4. CASE RootStep /\ ~Eligibility
  <2>1. finding' = finding
    BY <1>4 DEF RootStep, GoalInterpreter, Regulation, PlanningSkipped,
                WorkflowPlanner, AgentGivesUp, WorkflowCreated
  <2>2. UNCHANGED engineVars \/ CreateWorkflow \/ FinishCreation
    BY <1>4 DEF RootStep, GoalInterpreter, Regulation, PlanningSkipped,
                WorkflowPlanner, AgentGivesUp, WorkflowCreated
  <2> QED BY <1>1, <2>1, <2>2
<1>5. CASE UserStep
  <2>1. finding' = finding /\ UNCHANGED engineVars
    BY <1>5 DEF UserStep, PublishManualEvent
  <2> QED BY <1>1, <2>1
<1>6. ASSUME NEW t \in Threads, CascadeStep(t)
      PROVE  finding' = finding /\ Ungated
  <2>1. chain[t] \in Frames
    BY ApplicationFacts
  <2>2. chain[t].at \in {"APPLICATION_APPROVED", "APPLICATION_REJECTED",
                         "DOCUMENT_MISSING"} => chain[t].step \in Steps
    BY <2>1 DEF Frames, FrameShape, VerdictAt
  <2>3. chain[t].step \in Steps \cup {NoStep}
    BY <2>1 DEF Frames, Carried
  <2>4. CASE \/ DocumentAgent(t) \/ DocumentAgentContinues(t)
             \/ DepartmentRouter(t) \/ ApplicationAgent(t)
             \/ StatusMonitor(t) \/ PollRateLimited(t) \/ PollStatus(t)
    BY <2>4 DEF DocumentAgent, DocumentAgentContinues, DepartmentRouter,
                ApplicationAgent, StatusMonitor, PollRateLimited, PollStatus
  <2>5. CASE OnApplicationApproved(t)
    BY <2>2, <2>5 DEF OnApplicationApproved
  <2>6. CASE OnApplicationRejected(t) \/ OnDocumentMissing(t)
    BY <2>2, <2>6 DEF OnApplicationRejected, OnDocumentMissing, GateStatus
  <2>7. CASE OnWorkflowResumed(t)
    BY <2>3, <2>7 DEF OnWorkflowResumed
  <2> QED BY <1>6, <2>4, <2>5, <2>6, <2>7 DEF CascadeStep
<1>7. \/ UNCHANGED vars \/ Eligibility \/ (RootStep /\ ~Eligibility)
      \/ UserStep \/ \E t \in Threads : CascadeStep(t)
  BY DEF SystemNext
<1> HIDE DEF Ungated
<1> QED BY <1>1, <1>2, <1>3, <1>4, <1>5, <1>6, <1>7 DEF Ungated

LEMMA FindingKeepsOrder ==
  ASSUME SystemBase, FindingInOrder, [SystemNext]_vars
  PROVE  FindingInOrder'
<1> DEFINE Early == RootAt \ {"creating"}
<1>1. Root \in Threads /\ \A t \in Threads : chain[t] \in Frames
  BY ThreadNames, ApplicationFacts
<1>2. ASSUME finding' = finding, chain'[Root].at \in Early =>
                                   chain[Root].at \in Early
      PROVE  FindingInOrder'
  BY <1>2 DEF FindingInOrder
<1>3. CASE UNCHANGED vars
  BY <1>2, <1>3 DEF vars
<1>4. CASE Eligibility
  <2>1. chain' = [chain EXCEPT ![Root] = [Idle EXCEPT !.at = "creating"]]
    BY <1>4 DEF Eligibility, Become
  <2>2. [Idle EXCEPT !.at = "creating"].at = "creating"
    BY DEF Idle
  <2>3. chain'[Root].at = "creating"
    BY <1>1, <2>1, <2>2 DEF SystemBase, FramesTyped
  <2> QED BY <2>3 DEF FindingInOrder
<1>5. CASE WorkflowCreated
  <2>1. finding' = finding /\ ClaimHop(Root, graph)
    BY <1>5
    DEF WorkflowCreated, ClaimHop, FinishCreation, ClaimEvent, Become,
        SystemBase, TypeOK
  <2>2. chain'[Root].at \in {"done", "NEXT_ACTION_TRIGGERED"}
    BY <1>1, <2>1, WorkClaimed DEF SystemBase, TypeOK
  <2> QED BY <1>2, <2>1, <2>2 DEF RootAt
<1>6. CASE GoalInterpreter \/ Regulation \/ PlanningSkipped
           \/ WorkflowPlanner \/ AgentGivesUp
  <2>1. finding' = finding
    BY <1>6 DEF GoalInterpreter, Regulation, PlanningSkipped, WorkflowPlanner,
                AgentGivesUp
  <2>2. chain[Root].at \in Early
    BY <1>6 DEF GoalInterpreter, Regulation, PlanningSkipped, WorkflowPlanner,
                AgentGivesUp, RootAt
  <2> QED BY <1>2, <2>1, <2>2
<1>7. CASE UserStep
  <2>1. finding' = finding
    BY <1>7 DEF UserStep, PublishManualEvent
  <2>2. PICK s \in Steps \cup {NoStep}, action \in {"retry", "abandon"} :
          PublishManualEvent(s, action)
    BY <1>7 DEF UserStep
  <2>3. requests' = Append(requests, [step |-> s, action |-> action])
    BY <2>2 DEF PublishManualEvent
  <2>4. Len(requests') = Len(requests) + 1
    BY <2>3 DEF SystemBase, HistoryTyped
  <2>5. UserHop(s, action)
    BY <2>2, <2>4 DEF PublishManualEvent, UserHop, Become, Resumed
  <2>6. Root # Resume(Len(requests) + 1)
    BY DEF Root, Resume
  <2>7. chain'[Root] = chain[Root]
    BY <1>1, <2>5, <2>6, RequestMoves
  <2> QED BY <1>2, <2>1, <2>7
\* A thread in a cascade is not on its way to a workflow.
<1>8. ASSUME NEW t \in Threads, CascadeStep(t)
      PROVE  FindingInOrder'
  <2>1. finding' = finding
    BY <1>8 DEF CascadeStep, DocumentAgent, DocumentAgentContinues,
      DepartmentRouter, ApplicationAgent, StatusMonitor, PollRateLimited,
      PollStatus, OnApplicationApproved, OnApplicationRejected,
      OnDocumentMissing, OnWorkflowResumed
  <2>2. chain'[Root].at \in Early => chain[Root].at \in Early
    <3> SUFFICES ASSUME chain'[Root].at \in Early
                 PROVE  chain[Root].at \in Early
      OBVIOUS
    <3>1. ASSUME NEW g \in Frames, chain' = [chain EXCEPT ![t] = g],
                 g.at \notin RootAt
          PROVE  chain[Root].at \in Early
      <4>1. /\ chain'[t] = g
            /\ \A u \in Threads : u # t => chain'[u] = chain[u]
        BY <3>1, OneThread DEF SystemBase
      <4> QED BY <1>1, <3>1, <4>1
    <3>2. ASSUME NEW g \in Frames, Quiet(t, g) \/ SubmitHop(t, g)
          PROVE  chain[Root].at \in Early
      BY <3>1, <3>2 DEF Quiet, SubmitHop, RootAt
    <3>3. ASSUME NEW g \in Frames, HaltHop(t, g)
          PROVE  chain[Root].at \in Early
      <4>1. CASE g = Done
        BY <3>1, <3>3, <4>1, SimpleFrames DEF HaltHop, RootAt
      <4>2. CASE chain[t].at = "DOCUMENT_MISSING" /\ g = Returned(chain[t])
        <5>1. g.at \in {"done", "checklist"}
          BY <1>1, <4>2, ReturnedFrame
        <5> QED BY <3>1, <3>3, <5>1 DEF HaltHop, RootAt
      <4> QED BY <3>3, <4>1, <4>2 DEF HaltHop
    <3>4. ASSUME NEW g \in Frames, NEW record, PollHop(t, g, record)
          PROVE  chain[Root].at \in Early
      BY <3>1, <3>4, SimpleFrames DEF PollHop, RootAt
    <3>5. ASSUME NEW m \in [Steps -> StepStatus], ClaimHop(t, m)
          PROVE  chain[Root].at \in Early
      <4>1. /\ chain'[t].at \in {"done", "NEXT_ACTION_TRIGGERED"}
            /\ \A u \in Threads : u # t => chain'[u] = chain[u]
        BY <3>5, WorkClaimed
      <4> QED BY <1>1, <4>1 DEF RootAt
    <3>6. ASSUME WatchHop(t)
          PROVE  chain[Root].at \in Early
      <4>1. /\ chain'[t].at \in {"done", "checklist"}
            /\ \A u \in Threads :
                 u # t /\ u # Poll(chain[t].app) => chain'[u] = chain[u]
        BY <3>6, WatchMoves
      <4> QED BY <1>1, <4>1, PollThreads DEF RootAt
    <3>7. \/ \E g \in Frames :
               Quiet(t, g) \/ SubmitHop(t, g) \/ HaltHop(t, g)
          \/ WatchHop(t)
          \/ \E g \in Frames : \E record : PollHop(t, g, record)
          \/ \E m \in [Steps -> StepStatus] : ClaimHop(t, m)
      <4>1. FramesTyped /\ graph \in [Steps -> StepStatus]
            /\ applications \in Seq(Application)
        BY DEF SystemBase, TypeOK, HistoryTyped
      <4>2. ASSUME PollRateLimited(t) \/ PollStatus(t)
            PROVE  \E g \in Frames : \E record : PollHop(t, g, record)
        <5>1. chain[t].app \in 1..Len(applications)
          BY <4>2 DEF PollRateLimited, PollStatus, SystemBase, OwnApplications,
                      Asking
        <5>2. applications[chain[t].app] \in Application
          BY <4>1, <5>1
        <5> QED BY <4>1, <4>2, <5>2, PollHops
      <4> QED BY <1>8, <4>1, <4>2, QuietHops, ApplicationHops, WatchHops,
                 ApprovalHop, HaltHops, ResumptionHops DEF CascadeStep
    <3> QED BY <3>2, <3>3, <3>4, <3>5, <3>6, <3>7
  <2> QED BY <1>2, <2>1, <2>2
<1> QED BY <1>3, <1>4, <1>5, <1>6, <1>7, <1>8 DEF SystemNext, RootStep

\* The steps that are no polls leave a polling task as they find it, or start
\* it.
LEMMA PressingStays ==
  ASSUME SystemBase, Pressing, [SystemNext]_vars,
         ~\E t \in Threads : PollRateLimited(t) \/ PollStatus(t)
  PROVE  Pressing'
<1>1. /\ \A t \in Threads : chain[t] \in Frames
      /\ applications \in Seq(Application) /\ Len(applications) \in Nat
  BY ApplicationFacts DEF SystemBase, HistoryTyped
<1>2. ASSUME \A u \in Threads :
               chain'[u].at = "polling" => chain'[u] = chain[u],
             \A a \in 1..Len(applications) :
               applications'[a].asked = applications[a].asked
      PROVE  Pressing'
  <2> SUFFICES ASSUME NEW u \in Threads, chain'[u].at = "polling"
               PROVE  /\ chain'[u].attempt = applications'[chain'[u].app].asked
                      /\ chain'[u].attempt \in {0, 1}
    BY DEF Pressing
  <2>1. chain'[u] = chain[u]
    BY <1>2
  <2>2. /\ chain[u].app \in 1..Len(applications)
        /\ chain[u].attempt = applications[chain[u].app].asked
        /\ chain[u].attempt \in {0, 1}
    BY <2>1 DEF SystemBase, OwnApplications, Asking, Pressing
  <2> QED BY <1>2, <2>1, <2>2
<1>3. ASSUME NEW t \in Threads, NEW g \in Frames,
             chain' = [chain EXCEPT ![t] = g], g.at # "polling",
             \A a \in 1..Len(applications) :
               applications'[a].asked = applications[a].asked
      PROVE  Pressing'
  <2>1. /\ chain'[t] = g
        /\ \A u \in Threads : u # t => chain'[u] = chain[u]
    BY <1>3, OneThread DEF SystemBase
  <2>2. \A u \in Threads : chain'[u].at = "polling" => chain'[u] = chain[u]
    BY <1>3, <2>1
  <2> QED BY <1>2, <1>3, <2>2
<1>4. CASE UNCHANGED vars
  BY <1>2, <1>4 DEF vars
<1>5. ASSUME NEW t \in Threads, NEW g \in Frames, Quiet(t, g) \/ HaltHop(t, g)
      PROVE  Pressing'
  <2>1. g.at # "polling"
    BY <1>5, WhereThreadsGo
  <2> QED BY <1>3, <1>5, <2>1 DEF Quiet, HaltHop
<1>6. ASSUME NEW t \in Threads, NEW g \in Frames, SubmitHop(t, g)
      PROVE  Pressing'
  <2>1. PICK scenario \in Scenarios :
          applications' = Append(applications, Submitted(chain[t].step, scenario))
    BY <1>6 DEF SubmitHop
  <2>2. \A a \in 1..Len(applications) :
          applications'[a].asked = applications[a].asked
    BY <1>1, <2>1
  <2> QED BY <1>3, <1>6, <2>2 DEF SubmitHop
<1>7. ASSUME NEW g \in Frames, RootHop(g)
      PROVE  Pressing'
  BY <1>3, <1>7, ThreadNames DEF RootHop, RootAt
<1>8. ASSUME NEW t \in Threads, WatchHop(t)
      PROVE  Pressing'
  <2> DEFINE a == chain[t].app
             p == Poll(a)
  <2>1. /\ a \in 1..Len(applications) /\ chain[t].step \in Steps
        /\ chain'[t].at \in {"done", "checklist"}
        /\ p \in Threads => chain'[p] = Polling(chain[t].step, a)
        /\ \A u \in Threads : u # t /\ u # p => chain'[u] = chain[u]
    BY <1>8, WatchMoves
  <2>2. /\ applications' = applications
        /\ applications[a].asked = 0
    BY <1>8 DEF WatchHop, SystemBase, OwnApplications, Filing
  <2>3. /\ Polling(chain[t].step, a).attempt = 0
        /\ Polling(chain[t].step, a).app = a
    <3>1. a \in Nat
      BY <1>1, <2>1
    <3> HIDE DEF a
    <3> QED BY <2>1, <3>1, PollingFrame
  <2> SUFFICES ASSUME NEW u \in Threads, chain'[u].at = "polling"
               PROVE  /\ chain'[u].attempt = applications'[chain'[u].app].asked
                      /\ chain'[u].attempt \in {0, 1}
    BY DEF Pressing
  <2> HIDE DEF a, p
  <2>4. CASE u = p
    BY <2>1, <2>2, <2>3, <2>4
  <2>5. CASE u # p
    <3>1. chain'[u] = chain[u]
      BY <2>1, <2>5
    <3> QED BY <2>2, <3>1 DEF Pressing
  <2> QED BY <2>4, <2>5
<1>9. ASSUME NEW t \in Threads, NEW m \in [Steps -> StepStatus], ClaimHop(t, m)
      PROVE  Pressing'
  <2>1. /\ chain'[t].at \in {"done", "NEXT_ACTION_TRIGGERED"}
        /\ \A u \in Threads : u # t => chain'[u] = chain[u]
    BY <1>9, WorkClaimed
  <2>2. applications' = applications
    BY <1>9 DEF ClaimHop
  <2>3. \A u \in Threads : chain'[u].at = "polling" => chain'[u] = chain[u]
    BY <2>1
  <2> QED BY <1>2, <2>2, <2>3
<1>10. ASSUME NEW s \in Steps \cup {NoStep}, NEW action \in {"retry", "abandon"},
              UserHop(s, action)
       PROVE  Pressing'
  <2> DEFINE t == Resume(Len(requests) + 1)
  <2>1. /\ chain'[t].at = "WORKFLOW_RESUMED"
        /\ \A u \in Threads : u # t => chain'[u] = chain[u]
    BY <1>10, RequestMoves
  <2>2. applications' = applications
    BY <1>10 DEF UserHop
  <2> HIDE DEF t
  <2>3. \A u \in Threads : chain'[u].at = "polling" => chain'[u] = chain[u]
    BY <2>1
  <2> QED BY <1>2, <2>2, <2>3
<1>11. ASSUME NEW t \in Threads,
              \/ DocumentAgent(t) \/ DocumentAgentContinues(t)
              \/ DepartmentRouter(t) \/ ApplicationAgent(t)
       PROVE  \E g \in Frames : Quiet(t, g) \/ SubmitHop(t, g)
  BY <1>1, <1>11, QuietHops, ApplicationHops DEF SystemBase
<1> QED BY <1>4, <1>5, <1>6, <1>7, <1>8, <1>9, <1>10, <1>11, StepsOfTheBackend

\* Whatever happens on a line, a running step keeps its worker: agents and
\* polls pass it on, the polling task takes it over, and while it runs no other
\* step is halted or started.
LEMMA StaffedStays ==
  ASSUME IsLine, Careful, Diligent, LifecycleInvariant, GateOnStep, Staffed,
         Pressing, [SystemNext]_vars
  PROVE  Staffed'
<1>1. SystemBase /\ ReviewInvariant
  BY DEF LifecycleInvariant, ReviewInvariant
<1>2. /\ graph \in [Steps -> StepStatus]
      /\ \A t \in Threads : chain[t] \in Frames
  BY <1>1, ApplicationFacts DEF SystemBase, TypeOK
\* A step of one thread that leaves the graph and passes the work on.
<1>3. ASSUME NEW t \in Threads, graph' = graph,
             \A u \in Threads : u # t => chain'[u] = chain[u],
             Working(chain[t]) \subseteq Working(chain'[t])
      PROVE  Staffed'
  <2> SUFFICES ASSUME NEW s \in Steps, graph'[s] = "RUNNING"
               PROVE  \E u \in Threads : s \in Working(chain'[u])
    BY DEF Staffed
  <2>1. PICK u \in Threads : s \in Working(chain[u])
    BY <1>3 DEF Staffed
  <2>2. s \in Working(chain'[u])
    BY <1>3, <2>1
  <2> QED BY <2>2
<1>4. CASE UNCHANGED vars
  <2>1. graph' = graph /\ chain' = chain
    BY <1>4 DEF vars, engineVars
  <2> QED BY <2>1 DEF Staffed
<1>5. ASSUME NEW t \in Threads,
             \/ DocumentAgent(t) \/ DocumentAgentContinues(t)
             \/ DepartmentRouter(t) \/ ApplicationAgent(t)
      PROVE  Staffed'
  <2>1. Working(chain[t]) \subseteq Working(chain'[t])
    <3>1. CASE IsGated
      BY <3>1, WorkersMeetNoGate
    <3>2. CASE ~IsGated
      BY <1>1, <1>5, <3>2, AgentsKeepWork
    <3> QED BY <3>1, <3>2
  <2>2. \E g \in Frames : Quiet(t, g) \/ SubmitHop(t, g)
    BY <1>1, <1>5, QuietHops, ApplicationHops DEF SystemBase, HistoryTyped
  <2>3. PICK g \in Frames : /\ chain' = [chain EXCEPT ![t] = g]
                            /\ UNCHANGED engineVars
    BY <2>2 DEF Quiet, SubmitHop
  <2>4. \A u \in Threads : u # t => chain'[u] = chain[u]
    BY <1>1, <2>3, OneThread DEF SystemBase
  <2> QED BY <1>3, <2>1, <2>3, <2>4 DEF engineVars
<1>6. ASSUME NEW t \in Threads, PollRateLimited(t) \/ PollStatus(t)
      PROVE  Staffed'
  <2>1. graph' = graph
    BY <1>6 DEF PollRateLimited, PollStatus, engineVars
  <2>2. /\ Working(chain[t]) \subseteq Working(chain'[t])
        /\ \A u \in Threads : u # t => chain'[u] = chain[u]
    BY <1>1, <1>6, PollsKeepWork
  <2> QED BY <1>3, <2>1, <2>2
<1>7. ASSUME NEW g \in Frames, RootHop(g)
      PROVE  Staffed'
  <2>1. CASE CreateWorkflow
    <3>1. \A s \in Steps : graph'[s] # "RUNNING"
      BY <2>1 DEF CreateWorkflow, InitialGraph
    <3> QED BY <3>1 DEF Staffed
  <2>2. CASE graph' = graph
    <3>1. /\ chain[Root].at \in RootAt /\ Root \in Threads
          /\ chain' = [chain EXCEPT ![Root] = g]
      BY <1>7, ThreadNames DEF RootHop
    <3>2. Working(chain[Root]) = {}
      BY <1>2, <3>1, WorkingFacts
    <3>3. \A u \in Threads : u # Root => chain'[u] = chain[u]
      BY <1>1, <3>1, OneThread DEF SystemBase
    <3> QED BY <1>3, <2>2, <3>1, <3>2, <3>3
  <2> QED BY <1>7, <2>1, <2>2 DEF RootHop, BlockWorkflow, engineVars
<1>8. ASSUME NEW t \in Threads, WatchHop(t)
      PROVE  Staffed'
  <2> DEFINE a == chain[t].app
             p == Poll(a)
             s == chain[t].step
  <2>1. /\ a \in 1..Len(applications) /\ p # t /\ s \in Steps
        /\ p \in Threads => chain[p].at = "idle"
    BY <1>1, <1>8, WatchMoves
  <2>2. p \in Threads
    <3>1. /\ Len(applications) \in Nat /\ Len(applications) <= MaxApplications
          /\ MaxApplications \in Nat
      BY LedgerCovers, BoundsType DEF LifecycleInvariant
    <3>2. a \in 1..MaxApplications
      BY <2>1, <3>1
    <3> QED BY <3>2, PollThreads
  <2>3. /\ s \in Working(chain[t]) /\ s \in Working(chain'[p])
        /\ \A u \in Threads : u # t /\ u # p => chain'[u] = chain[u]
    BY <1>1, <1>8, <2>2, WorkHandedOver
  <2>4. graph' = graph /\ graph[s] = "RUNNING" /\ Working(chain[p]) = {}
    BY <1>2, <1>8, <2>1, <2>2, <2>3, WorkersMeetNoGate, WorkingFacts
    DEF WatchHop, engineVars
  <2> HIDE DEF a, p, s
  <2> SUFFICES ASSUME NEW u \in Steps, graph'[u] = "RUNNING"
               PROVE  \E v \in Threads : u \in Working(chain'[v])
    BY DEF Staffed
  <2>5. u = s
    BY <2>1, <2>4, OneStepAtATime
  <2> QED BY <2>2, <2>3, <2>5
<1>9. ASSUME NEW t \in Threads, NEW g \in Frames, HaltHop(t, g)
      PROVE  Staffed'
  <2> DEFINE s == chain[t].step
  <2>1. /\ s \in Steps /\ graph[s] \in {"RUNNING", "BLOCKED"}
        /\ \E status \in {"BLOCKED", "FAILED"} :
             graph' = MarkStepStatus(graph, s, status)
    BY <1>1, <1>9, HaltedStep
  <2> HIDE DEF s
  <2> SUFFICES ASSUME NEW u \in Steps, graph'[u] = "RUNNING"
               PROVE  FALSE
    BY DEF Staffed
  <2>2. u # s /\ graph[u] = "RUNNING"
    BY <1>2, <2>1 DEF MarkStepStatus
  <2> QED BY <2>1, <2>2, OneStepAtATime
<1>10. ASSUME NEW t \in Threads, NEW m \in [Steps -> StepStatus], ClaimHop(t, m)
       PROVE  Staffed'
  <2>1. /\ Working(chain'[t]) = ReadySteps(m)
        /\ \A u \in Threads : u # t => chain'[u] = chain[u]
    BY <1>1, <1>10, WorkClaimed
  <2> SUFFICES ASSUME NEW u \in Steps, graph'[u] = "RUNNING"
               PROVE  \E v \in Threads : u \in Working(chain'[v])
    BY DEF Staffed
  <2>2. u \in ReadySteps(m) \/ m[u] = "RUNNING"
    BY <1>10 DEF ClaimHop, ClaimReadySteps
  <2>3. ASSUME m[u] = "RUNNING"
        PROVE  graph[u] = "RUNNING" /\ u \notin Working(chain[t])
    <3>1. CASE /\ chain[t].at \in RootAt \cup {"WORKFLOW_RESUMED"}
               /\ \/ m = graph
                  \/ /\ chain[t].step \in Steps
                     /\ m = MarkStepStatus(graph, chain[t].step, "PENDING")
      <4>1. Working(chain[t]) = {}
        BY <1>2, <3>1, WorkingFacts
      <4>2. graph[u] = "RUNNING"
        BY <1>2, <2>3, <3>1 DEF MarkStepStatus
      <4> QED BY <4>1, <4>2
    <3>2. CASE /\ chain[t].at = "APPLICATION_APPROVED" /\ chain[t].step \in Steps
               /\ m = MarkStepStatus(graph, chain[t].step, "COMPLETED")
      <4>1. Working(chain[t]) = {chain[t].step}
        BY <1>2, <3>2, WorkingFacts DEF VerdictAt
      <4>2. graph[u] = "RUNNING" /\ u # chain[t].step
        BY <1>2, <2>3, <3>2 DEF MarkStepStatus
      <4> QED BY <4>1, <4>2
    <3> QED BY <1>10, <3>1, <3>2 DEF ClaimHop, RootAt
  <2>4. CASE m[u] = "RUNNING"
    <3>1. PICK v \in Threads : u \in Working(chain[v])
      BY <2>3, <2>4 DEF Staffed
    <3>2. v # t
      BY <2>3, <2>4, <3>1
    <3>3. u \in Working(chain'[v])
      BY <2>1, <3>1, <3>2
    <3> QED BY <3>3
  <2> QED BY <2>1, <2>2, <2>4
<1>11. ASSUME NEW s \in Steps \cup {NoStep}, NEW action \in {"retry", "abandon"},
              UserHop(s, action)
       PROVE  Staffed'
  <2> DEFINE t == Resume(Len(requests) + 1)
  <2>1. /\ t \in Threads /\ chain[t].at = "idle"
        /\ \A u \in Threads : u # t => chain'[u] = chain[u]
    BY <1>1, <1>11, RequestMoves
  <2>2. graph' = graph
    BY <1>11 DEF UserHop, engineVars
  <2>3. Working(chain[t]) = {}
    BY <1>2, <2>1, WorkingFacts
  <2> HIDE DEF t
  <2> QED BY <1>3, <2>1, <2>2, <2>3
<1> QED BY <1>1, <1>4, <1>5, <1>6, <1>7, <1>8, <1>9, <1>10, <1>11,
           StepsOfTheBackend

\* A request presupposes a row, and without restarts a row its graph.
LEMMA RequestsHaveGraph ==
  ASSUME SystemBase, GraphKept, requests # << >> => hasGraph, [SystemNext]_vars
  PROVE  (requests # << >> => hasGraph)'
<1>1. CASE UNCHANGED vars
  BY <1>1 DEF vars, engineVars
<1>2. CASE SystemNext
  <2>1. ASSUME requests' = requests, hasGraph => hasGraph'
        PROVE  (requests # << >> => hasGraph)'
    BY <2>1
  <2>2. ASSUME NEW t \in Threads,
               \/ DocumentAgent(t) \/ DocumentAgentContinues(t)
               \/ DepartmentRouter(t) \/ ApplicationAgent(t)
               \/ PollRateLimited(t) \/ PollStatus(t)
        PROVE  (requests # << >> => hasGraph)'
    <3>1. requests' = requests /\ hasGraph' = hasGraph
      BY <2>2 DEF DocumentAgent, DocumentAgentContinues, DepartmentRouter,
                  ApplicationAgent, PollRateLimited, PollStatus, engineVars
    <3> QED BY <2>1, <3>1
  <2>3. ASSUME NEW g \in Frames, RootHop(g)
        PROVE  (requests # << >> => hasGraph)'
    <3>1. requests' = requests /\ (hasGraph => hasGraph')
      BY <2>3 DEF RootHop, CreateWorkflow, BlockWorkflow, engineVars
    <3> QED BY <2>1, <3>1
  <2>4. ASSUME NEW t \in Threads,
               \/ WatchHop(t)
               \/ \E g \in Frames : HaltHop(t, g)
               \/ \E m \in [Steps -> StepStatus] : ClaimHop(t, m)
        PROVE  (requests # << >> => hasGraph)'
    <3>1. requests' = requests /\ hasGraph' = hasGraph
      BY <2>4 DEF WatchHop, HaltHop, ClaimHop, engineVars
    <3> QED BY <2>1, <3>1
  <2>5. ASSUME NEW s \in Steps \cup {NoStep},
               NEW action \in {"retry", "abandon"}, UserHop(s, action)
        PROVE  (requests # << >> => hasGraph)'
    <3>1. hasGraph /\ hasGraph' = hasGraph
      BY <2>5 DEF UserHop, GraphKept, engineVars
    <3> QED BY <3>1
  <2> QED BY <1>2, <2>2, <2>3, <2>4, <2>5, StepsOfTheBackend
<1> QED BY <1>1, <1>2

LEMMA NextKeepsAttended ==
  ASSUME IsLine, Careful, Diligent, AttendedInvariant, [SystemNext]_vars
  PROVE  AttendedInvariant'
<1>1. /\ SystemBase /\ GraphKept /\ LifecycleInvariant
      /\ FindingInOrder /\ Pressing
      /\ requests # << >> => hasGraph
  BY DEF AttendedInvariant, LifecycleInvariant, ReviewInvariant, EngineKept
<1>2. LifecycleInvariant' /\ FindingInOrder'
  BY <1>1, NextKeepsLifecycle, FindingKeepsOrder
<1>3. Pressing'
  <2>1. CASE \E t \in Threads : PollRateLimited(t) \/ PollStatus(t)
    BY <1>1, <2>1, PollsKeepWork
  <2>2. CASE ~\E t \in Threads : PollRateLimited(t) \/ PollStatus(t)
    BY <1>1, <2>2, PressingStays
  <2> QED BY <2>1, <2>2
<1>4. (requests # << >> => hasGraph)'
  BY <1>1, RequestsHaveGraph
<1>5. ASSUME Clear' PROVE GateOnStep' /\ Staffed'
  <2>1. Clear /\ GateOnStep /\ Staffed
    BY <1>1, <1>5, ClearStays DEF AttendedInvariant
  <2>2. \/ UNCHANGED engineVars
        \/ CreateWorkflow \/ FinishCreation \/ ResumeWorkflow
        \/ \E s \in Steps :
             \/ CompleteStep(s) \/ FailStep(s) \/ ResumeStep(s)
             \/ \E gate \in GateStatus : BlockStep(s, gate)
    BY <1>1, <1>5, ClearStays
  <2>3. TypeOK
    BY <1>1 DEF SystemBase
  <2>4. GateOnStep'
    BY <2>1, <2>2, <2>3, GatesAreOnSteps
  <2>5. Staffed'
    BY <1>1, <2>1, StaffedStays
  <2> QED BY <2>4, <2>5
<1> QED BY <1>2, <1>3, <1>4, <1>5 DEF AttendedInvariant

LEMMA InitAttended == SystemInit => AttendedInvariant
<1> SUFFICES ASSUME SystemInit PROVE AttendedInvariant
  OBVIOUS
<1>1. LifecycleInvariant
  BY InitLifecycle
<1>2. /\ requests = << >> /\ finding = "none"
      /\ workflow.status = "ABSENT" /\ graph = InitialGraph
  BY DEF SystemInit, Init, AbsentRow
<1>3. FindingInOrder
  BY <1>2 DEF FindingInOrder
<1>4. Pressing
  <2>1. \A t \in Threads : chain[t].at \in {"USER_REQUEST_CREATED", "idle"}
    BY DEF SystemInit, Handling, Idle
  <2> QED BY <2>1 DEF Pressing
<1>5. GateOnStep
  BY <1>2 DEF GateOnStep, IsGated, GateStatus
<1>6. Staffed
  BY <1>2 DEF Staffed, InitialGraph
<1> QED BY <1>1, <1>2, <1>3, <1>4, <1>5, <1>6 DEF AttendedInvariant

\* No failure and no restart is ever forgotten.
LEMMA CountersGrow ==
  ASSUME faults \in Nat, restarts \in Nat, [FaultNext]_faultVars
  PROVE  /\ faults' \in {faults, faults + 1}
         /\ restarts' \in {restarts, restarts + 1}
BY DEF FaultNext, WriteFails, Fault, PlannerRepeated, SystemRestarts,
       ResumedWithoutGraph, disturbances, faultVars

\* While no write has failed and no process has restarted, a step of the
\* system with faults is one of the backend.
LEMMA UnfaultedSteps ==
  ASSUME FaultCounts, restarts \in Nat, Roles, requests # << >> => hasGraph,
         faults' = 0, restarts' = 0, [FaultNext]_faultVars
  PROVE  [SystemNext]_vars
<1>1. CASE UNCHANGED faultVars
  BY <1>1 DEF faultVars
<1>2. CASE SystemNext
  BY <1>2
<1>3. CASE WriteFails
  <2>1. \A n \in Nat : n + 1 # 0
    OBVIOUS
  <2>2. faults \in Nat
    BY GovFlowAssumption DEF FaultCounts, GovFlowAssumption
  <2> QED BY <1>3, <2>1, <2>2 DEF WriteFails, Fault
<1>4. ~PlannerRepeated
  BY GovFlowAssumption DEF PlannerRepeated, FaultCounts, GovFlowAssumption
<1>5. CASE SystemRestarts
  <2>1. \A n \in Nat : n + 1 # 0
    OBVIOUS
  <2> QED BY <1>5, <2>1 DEF SystemRestarts
<1>6. ASSUME NEW t \in Threads, ResumedWithoutGraph(t)
      PROVE  FALSE
  <2>1. chain[t].at = "WORKFLOW_RESUMED" /\ ~hasGraph
    BY <1>6 DEF ResumedWithoutGraph
  <2>2. PICK r \in 1..Len(requests) : TRUE
    BY <2>1 DEF Roles
  <2>3. requests = << >>
    BY <2>1
  <2>4. Len(requests) = 0
    BY <2>3
  <2> QED BY <2>2, <2>4
<1> QED BY <1>1, <1>2, <1>3, <1>4, <1>5, <1>6 DEF FaultNext

\* If retries are only sent for blocked steps, and nothing but the LLM raises
\* by itself: on a line of steps, before a write has failed or the process has
\* restarted, and unless the applicant was found ineligible, a step marked
\* RUNNING is being worked on by some thread, whatever the user resumes.
THEOREM OnlyFaultsStrand ==
  ASSUME User = "reviewer", Failing \subseteq {"llm"}, MaxPolls > 1
  PROVE  FaultSpec => []StrandedByFaultOnly
<1>1. Careful /\ Diligent
  BY DEF Careful, Diligent
<1> DEFINE Attended ==
      IsLine /\ faults = 0 /\ restarts = 0 => AttendedInvariant
<1>2. FaultInit => Attended
  BY InitAttended DEF FaultInit
<1>3. ASSUME FaultInvariant, Attended, [FaultNext]_faultVars
      PROVE  Attended'
  <2> SUFFICES ASSUME IsLine, faults' = 0, restarts' = 0
               PROVE  AttendedInvariant'
    BY DEF IsLine
  <2>1. faults \in Nat /\ restarts \in Nat
    BY <1>3, GovFlowAssumption, FaultAssumption
    DEF FaultInvariant, FaultCounts, GovFlowAssumption, FaultAssumption
  <2>2. faults = 0 /\ restarts = 0
    <3>1. \A n \in Nat : n + 1 # 0
      OBVIOUS
    <3> QED BY <1>3, <2>1, <3>1, CountersGrow
  <2>3. AttendedInvariant
    BY <1>3, <2>2
  <2>4. [SystemNext]_vars
    BY <1>3, <2>1, <2>3, UnfaultedSteps
    DEF FaultInvariant, SystemBase, AttendedInvariant
  <2> QED BY <1>1, <2>3, <2>4, NextKeepsAttended
<1>4. FaultInvariant /\ Attended => StrandedByFaultOnly
  BY StaffedMeans
  DEF StrandedByFaultOnly, Undisturbed, AttendedInvariant, Clear
<1> QED BY <1>2, <1>3, <1>4, FaultLedgerCorrect, PTL DEF FaultSpec

============================================================================
