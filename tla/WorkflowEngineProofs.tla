------------------------ MODULE WorkflowEngineProofs -----------------------
(***************************************************************************)
(* Proofs about WorkflowEngine: what its properties say holds for every     *)
(* plan that passes the constructor of WorkflowGraph, and for any calls in  *)
(* any order.                                                               *)
(***************************************************************************)
EXTENDS WorkflowEngine, TLAPS

----------------------------------------------------------------------------
(* Lemmas about the graph. *)

\* The first of a non-empty set of steps is one of them.
LEMMA FirstStepInSet ==
  ASSUME NEW S \in SUBSET Steps, S # {}
  PROVE  FirstStep(S) \in S
<1>1. PICK s \in S : \A t \in S \ {s} : Position[s] < Position[t]
  BY GraphAssumption DEF GraphAssumption, Ordered
<1>2. \A t \in S : Position[t] \in Nat
  BY GraphAssumption DEF GraphAssumption, Ordered
<1>3. \A t \in S : Position[s] <= Position[t]
  BY <1>1, <1>2
<1> QED
  BY <1>3 DEF FirstStep

\* FirstStep is total, and None on the empty set only.
LEMMA FirstStepType ==
  ASSUME NEW S \in SUBSET Steps
  PROVE  /\ FirstStep(S) \in Steps \cup {NoStep}
         /\ FirstStep(S) = NoStep => S = {}
<1>1. CASE S = {}
  BY <1>1 DEF FirstStep
<1>2. CASE S # {}
  BY <1>2, FirstStepInSet, GraphAssumption DEF GraphAssumption
<1> QED
  BY <1>1, <1>2

\* Marking and claiming yield graphs.
LEMMA GraphOperatorsType ==
  ASSUME NEW g \in [Steps -> StepStatus], NEW s \in Steps,
         NEW status \in StepStatus
  PROVE  /\ MarkStepStatus(g, s, status) \in [Steps -> StepStatus]
         /\ ClaimReadySteps(g) \in [Steps -> StepStatus]
         /\ InitialGraph \in [Steps -> StepStatus]
BY DEF MarkStepStatus, ClaimReadySteps, InitialGraph, StepStatus

\* A claim takes every ready step: it completes none, so none becomes ready.
LEMMA ClaimLeavesNothingReady ==
  ASSUME NEW g \in [Steps -> StepStatus]
  PROVE  ReadySteps(ClaimReadySteps(g)) = {}
<1> DEFINE c == ClaimReadySteps(g)
<1>1. SUFFICES ASSUME NEW s \in Steps, s \in ReadySteps(c)
               PROVE  FALSE
  BY DEF ReadySteps, PendingStepIds, StepsWith
<1>2. g[s] = "PENDING" /\ s \notin ReadySteps(g)
  BY <1>1 DEF ReadySteps, PendingStepIds, StepsWith, ClaimReadySteps
<1>3. \A d \in DependsOn[s] : d \in Steps
  BY GraphAssumption DEF GraphAssumption, ValidDag, IsDag
<1>4. \A d \in DependsOn[s] : g[d] = "COMPLETED"
  BY <1>1, <1>3 DEF ReadySteps, ClaimReadySteps
<1> QED
  BY <1>2, <1>4 DEF ReadySteps, PendingStepIds, StepsWith

\* A claim sets a step running only if its dependencies are completed, and
\* leaves those as they are.
LEMMA ClaimStartsInOrder ==
  ASSUME NEW g \in [Steps -> StepStatus], NEW s \in Steps,
         g[s] # "RUNNING", ClaimReadySteps(g)[s] = "RUNNING"
  PROVE  \A d \in DependsOn[s] : ClaimReadySteps(g)[d] = "COMPLETED"
<1>1. s \in ReadySteps(g)
  BY DEF ClaimReadySteps
<1>2. \A d \in DependsOn[s] : d \in Steps /\ g[d] = "COMPLETED"
  BY <1>1, GraphAssumption DEF GraphAssumption, ValidDag, IsDag, ReadySteps
<1> QED
  BY <1>2 DEF ClaimReadySteps, ReadySteps, PendingStepIds, StepsWith

\* A step that is neither pending nor completed makes no other step ready.
LEMMA HaltingMakesNothingReady ==
  ASSUME NEW g \in [Steps -> StepStatus], NEW s \in Steps,
         NEW status \in {"FAILED", "BLOCKED"}, ReadySteps(g) = {}
  PROVE  ReadySteps(MarkStepStatus(g, s, status)) = {}
<1> DEFINE m == MarkStepStatus(g, s, status)
<1>1. SUFFICES ASSUME NEW t \in Steps, t \in ReadySteps(m)
               PROVE  FALSE
  BY DEF ReadySteps, PendingStepIds, StepsWith
<1>2. \A d \in DependsOn[t] : d \in Steps
  BY GraphAssumption DEF GraphAssumption, ValidDag, IsDag
<1>3. g[t] = "PENDING" /\ \A d \in DependsOn[t] : g[d] = "COMPLETED"
  BY <1>1, <1>2 DEF ReadySteps, PendingStepIds, StepsWith, MarkStepStatus
<1> QED
  BY <1>3 DEF ReadySteps, PendingStepIds, StepsWith

\* What _sync_workflow_from_graph writes: a row of the right type whose lists
\* are those of the graph, and whose current step is None only if none runs.
LEMMA SyncedRowFacts ==
  ASSUME NEW g \in [Steps -> StepStatus], NEW status \in WorkflowStatus
  PROVE  /\ SyncedRow(g, status) \in Row
         /\ SyncedRow(g, status).status = status
         /\ SyncedRow(g, status).completed = CompletedStepIds(g)
         /\ SyncedRow(g, status).pending = ActiveStepIds(g)
         /\ SyncedRow(g, status).failed = FailedStepIds(g)
         /\ SyncedRow(g, status).current = NoStep =>
              StepsWith(g, {"RUNNING"}) = {}
<1> DEFINE running == StepsWith(g, {"RUNNING"})
           row == SyncedRow(g, status)
<1>1. running \in SUBSET Steps /\ ReadySteps(g) \in SUBSET Steps
  BY DEF StepsWith, ReadySteps, PendingStepIds
<1>2. /\ CurrentStep(g) \in Steps \cup {NoStep}
      /\ CurrentStep(g) = NoStep => running = {}
  <2>1. CASE running = {}
    BY <1>1, <2>1, FirstStepType DEF CurrentStep
  <2>2. CASE running # {}
    BY <1>1, <2>2, FirstStepType DEF CurrentStep
  <2> QED
    BY <2>1, <2>2
<1>3. /\ CompletedStepIds(g) \in SUBSET Steps
      /\ ActiveStepIds(g) \in SUBSET Steps
      /\ FailedStepIds(g) \in SUBSET Steps
  BY DEF CompletedStepIds, ActiveStepIds, FailedStepIds, StepsWith
<1> HIDE DEF running
<1>4. row \in Row
  BY <1>2, <1>3 DEF SyncedRow, Row, RowStatus
<1> QED
  BY <1>2, <1>4 DEF SyncedRow, running

\* The status computed from the graph is final only with a reason.
LEMMA GraphStatusFacts ==
  ASSUME NEW g \in [Steps -> StepStatus]
  PROVE  /\ GraphStatus(g) \in WorkflowStatus
         /\ GraphStatus(g) = "COMPLETED" => IsComplete(g)
         /\ GraphStatus(g) = "FAILED" => FailedStepIds(g) # {}
BY DEF GraphStatus, WorkflowStatus

----------------------------------------------------------------------------
(* The inductive invariant: every state property of the module.  They need  *)
(* each other: what is never ready has to stay so through the operations    *)
(* that do not claim, and the row is only known to mirror the graph because *)
(* the graph has its type.                                                  *)

EngineInvariant ==
  /\ TypeOK
  /\ RowMirrorsGraph
  /\ NothingReadyUnclaimed
  /\ FinalStatusWitnessed
  /\ NoCurrentStepMeansIdle

\* The part of the invariant about a graph and its row, for any pair of them.
Agrees(g, row) ==
  /\ row \in Row
  /\ row.status # "ABSENT"
  /\ row.completed = CompletedStepIds(g)
  /\ row.pending = ActiveStepIds(g)
  /\ row.failed = FailedStepIds(g)
  /\ row.status = "COMPLETED" => IsComplete(g)
  /\ row.status = "FAILED" => FailedStepIds(g) # {}
  /\ row.current = NoStep => StepsWith(g, {"RUNNING"}) = {}

\* A state with a graph satisfies the invariant when graph and row agree and
\* nothing is ready.
LEMMA InvariantFromAgreement ==
  ASSUME graph' \in [Steps -> StepStatus], hasGraph', creating' \in BOOLEAN,
         hasGraph' \in BOOLEAN, Agrees(graph', workflow'),
         creating' \/ ReadySteps(graph') = {}
  PROVE  EngineInvariant'
BY DEF EngineInvariant, TypeOK, RowMirrorsGraph, NothingReadyUnclaimed,
       FinalStatusWitnessed, NoCurrentStepMeansIdle, Agrees

\* The invariant, read the other way.
LEMMA AgreementFromInvariant ==
  ASSUME EngineInvariant, hasGraph
  PROVE  /\ graph \in [Steps -> StepStatus]
         /\ creating \in BOOLEAN
         /\ Agrees(graph, workflow)
         /\ creating \/ ReadySteps(graph) = {}
BY DEF EngineInvariant, TypeOK, RowMirrorsGraph, NothingReadyUnclaimed,
       FinalStatusWitnessed, NoCurrentStepMeansIdle, Agrees

\* A row written by _sync_workflow_from_graph agrees with the graph when its
\* status is the computed one or RUNNING.
LEMMA SyncedRowAgrees ==
  ASSUME NEW g \in [Steps -> StepStatus],
         NEW status \in {GraphStatus(g), "RUNNING"}
  PROVE  Agrees(g, SyncedRow(g, status))
<1>1. status \in WorkflowStatus
  BY GraphStatusFacts DEF WorkflowStatus
<1> QED
  BY <1>1, SyncedRowFacts, GraphStatusFacts DEF Agrees, WorkflowStatus

LEMMA InitInvariant == Init => EngineInvariant
<1> SUFFICES ASSUME Init PROVE EngineInvariant
  OBVIOUS
<1>1. graph \in [Steps -> StepStatus]
  BY DEF Init, InitialGraph, StepStatus
<1>2. workflow \in Row
  BY DEF Init, AbsentRow, Row, RowStatus
<1> QED
  BY <1>1, <1>2 DEF Init, EngineInvariant, TypeOK, RowMirrorsGraph,
                    NothingReadyUnclaimed, FinalStatusWitnessed,
                    NoCurrentStepMeansIdle

\* Every operation preserves the invariant.
LEMMA NextInvariant ==
  EngineInvariant /\ [Next]_engineVars => EngineInvariant'
<1> SUFFICES ASSUME EngineInvariant, [Next]_engineVars
             PROVE  EngineInvariant'
  OBVIOUS
<1> USE DEF StepStatus
<1>1. CASE CreateWorkflow
  <2>1. /\ graph' = InitialGraph
        /\ hasGraph' = TRUE
        /\ creating' = TRUE
        /\ workflow' = [AbsentRow EXCEPT !.status = "RUNNING",
                                         !.pending = PendingStepIds(graph')]
    BY <1>1 DEF CreateWorkflow
  <2>2. graph' \in [Steps -> StepStatus]
    BY <2>1 DEF InitialGraph
  <2>3. /\ PendingStepIds(graph') = Steps
        /\ ActiveStepIds(graph') = Steps
        /\ CompletedStepIds(graph') = {}
        /\ FailedStepIds(graph') = {}
        /\ StepsWith(graph', {"RUNNING"}) = {}
    BY <2>1 DEF InitialGraph, PendingStepIds, ActiveStepIds, StepsWith,
                CompletedStepIds, FailedStepIds
  <2>4. workflow' = [status |-> "RUNNING", completed |-> {},
                     pending |-> Steps, failed |-> {}, current |-> NoStep]
    BY <2>1, <2>3 DEF AbsentRow
  <2>5. Agrees(graph', workflow')
    BY <2>3, <2>4 DEF Agrees, Row, RowStatus, WorkflowStatus
  <2> QED
    BY <2>1, <2>2, <2>5, InvariantFromAgreement
<1>2. CASE FinishCreation
  <2>1. hasGraph
    BY <1>2 DEF FinishCreation, EngineInvariant, TypeOK
  <2>2. graph \in [Steps -> StepStatus]
    BY <2>1, AgreementFromInvariant
  <2>3. /\ graph' \in [Steps -> StepStatus]
        /\ ReadySteps(graph') = {}
    BY <1>2, <2>2, ClaimLeavesNothingReady DEF FinishCreation,
       ClaimReadySteps
  <2>4. Agrees(graph', workflow')
    BY <1>2, <2>3, SyncedRowAgrees DEF FinishCreation
  <2> QED
    BY <1>2, <2>1, <2>3, <2>4, InvariantFromAgreement DEF FinishCreation
<1>3. ASSUME NEW s \in Steps, CompleteStep(s)
      PROVE  EngineInvariant'
  <2> DEFINE m == MarkStepStatus(graph, s, "COMPLETED")
  <2>1. hasGraph /\ graph \in [Steps -> StepStatus] /\ creating \in BOOLEAN
    BY <1>3, AgreementFromInvariant DEF CompleteStep
  <2>2. m \in [Steps -> StepStatus]
    BY <2>1, GraphOperatorsType
  <2>3. /\ graph' \in [Steps -> StepStatus]
        /\ ReadySteps(graph') = {}
    BY <1>3, <2>2, ClaimLeavesNothingReady DEF CompleteStep, ClaimReadySteps
  <2>4. Agrees(graph', workflow')
    BY <1>3, <2>3, SyncedRowAgrees DEF CompleteStep
  <2> QED
    BY <1>3, <2>1, <2>3, <2>4, InvariantFromAgreement DEF CompleteStep
<1>4. ASSUME NEW s \in Steps, FailStep(s)
      PROVE  EngineInvariant'
  <2>1. /\ hasGraph
        /\ graph \in [Steps -> StepStatus]
        /\ creating \in BOOLEAN
        /\ creating \/ ReadySteps(graph) = {}
    BY <1>4, AgreementFromInvariant DEF FailStep
  <2>2. /\ graph' \in [Steps -> StepStatus]
        /\ creating \/ ReadySteps(graph') = {}
    BY <1>4, <2>1, GraphOperatorsType, HaltingMakesNothingReady DEF FailStep
  <2>3. Agrees(graph', workflow')
    BY <1>4, <2>2, SyncedRowAgrees DEF FailStep
  <2> QED
    BY <1>4, <2>1, <2>2, <2>3, InvariantFromAgreement DEF FailStep
<1>5. ASSUME NEW s \in Steps, NEW gate \in GateStatus, BlockStep(s, gate)
      PROVE  EngineInvariant'
  <2>1. /\ hasGraph
        /\ graph \in [Steps -> StepStatus]
        /\ creating \in BOOLEAN
        /\ creating \/ ReadySteps(graph) = {}
        /\ Agrees(graph, workflow)
    BY <1>5, AgreementFromInvariant DEF BlockStep
  <2>2. /\ graph' = MarkStepStatus(graph, s, "BLOCKED")
        /\ graph' \in [Steps -> StepStatus]
        /\ creating \/ ReadySteps(graph') = {}
    BY <1>5, <2>1, GraphOperatorsType, HaltingMakesNothingReady DEF BlockStep
  <2>3. StepsWith(graph', {"RUNNING"}) \subseteq StepsWith(graph, {"RUNNING"})
    BY <2>1, <2>2 DEF StepsWith, MarkStepStatus
  <2>4. /\ gate \in WorkflowStatus
        /\ gate \notin {"COMPLETED", "FAILED", "ABSENT"}
    BY DEF GateStatus, WorkflowStatus
  <2>5. SyncedRow(graph', gate) \in Row
    BY <2>2, <2>4, SyncedRowFacts
  <2>6. workflow' = [SyncedRow(graph', gate)
                       EXCEPT !.current = workflow.current]
    BY <1>5 DEF BlockStep
  <2>7. workflow' \in Row
    BY <2>1, <2>5, <2>6 DEF Row, Agrees
  <2>8. /\ workflow'.status = gate
        /\ workflow'.completed = CompletedStepIds(graph')
        /\ workflow'.pending = ActiveStepIds(graph')
        /\ workflow'.failed = FailedStepIds(graph')
        /\ workflow'.current = workflow.current
    BY <2>6 DEF SyncedRow
  <2>9. Agrees(graph', workflow')
    BY <2>1, <2>3, <2>4, <2>7, <2>8 DEF Agrees
  <2> QED
    BY <1>5, <2>1, <2>2, <2>9, InvariantFromAgreement DEF BlockStep
<1>6. ASSUME NEW gate \in GateStatus, BlockWorkflow(gate)
      PROVE  EngineInvariant'
  <2>1. workflow' = [workflow EXCEPT !.status = gate]
    BY <1>6 DEF BlockWorkflow
  <2>2. /\ UNCHANGED <<graph, hasGraph, creating>>
        /\ gate \in RowStatus
        /\ gate \notin {"COMPLETED", "FAILED", "ABSENT"}
    BY <1>6 DEF BlockWorkflow, GateStatus, RowStatus, WorkflowStatus
  <2>3. workflow \in Row
    BY DEF EngineInvariant, TypeOK
  <2>4. /\ workflow' \in Row
        /\ workflow'.status = gate
        /\ workflow'.completed = workflow.completed
        /\ workflow'.pending = workflow.pending
        /\ workflow'.failed = workflow.failed
        /\ workflow'.current = workflow.current
    BY <2>1, <2>2, <2>3 DEF Row
  <2> QED
    BY <2>2, <2>4 DEF EngineInvariant, TypeOK, RowMirrorsGraph,
       NothingReadyUnclaimed, FinalStatusWitnessed, NoCurrentStepMeansIdle
<1>7. ASSUME NEW s \in Steps, ResumeStep(s)
      PROVE  EngineInvariant'
  <2> DEFINE m == MarkStepStatus(graph, s, "PENDING")
  <2>1. hasGraph /\ graph \in [Steps -> StepStatus] /\ creating \in BOOLEAN
    BY <1>7, AgreementFromInvariant DEF ResumeStep
  <2>2. m \in [Steps -> StepStatus]
    BY <2>1, GraphOperatorsType
  <2>3. /\ graph' \in [Steps -> StepStatus]
        /\ ReadySteps(graph') = {}
    BY <1>7, <2>2, ClaimLeavesNothingReady DEF ResumeStep, ClaimReadySteps
  <2>4. Agrees(graph', workflow')
    BY <1>7, <2>3, SyncedRowAgrees DEF ResumeStep
  <2> QED
    BY <1>7, <2>1, <2>3, <2>4, InvariantFromAgreement DEF ResumeStep
<1>8. CASE ResumeWorkflow
  <2>1. hasGraph /\ graph \in [Steps -> StepStatus] /\ creating \in BOOLEAN
    BY <1>8, AgreementFromInvariant DEF ResumeWorkflow
  <2>2. /\ graph' \in [Steps -> StepStatus]
        /\ ReadySteps(graph') = {}
    BY <1>8, <2>1, ClaimLeavesNothingReady DEF ResumeWorkflow,
       ClaimReadySteps
  <2>3. Agrees(graph', workflow')
    BY <1>8, <2>2, SyncedRowAgrees DEF ResumeWorkflow
  <2> QED
    BY <1>8, <2>1, <2>2, <2>3, InvariantFromAgreement DEF ResumeWorkflow
<1>9. CASE Restart
  <2>1. /\ graph' \in [Steps -> StepStatus]
        /\ workflow' = workflow
        /\ hasGraph' = FALSE
        /\ creating' = FALSE
    BY <1>9 DEF Restart, InitialGraph
  <2> QED
    BY <2>1 DEF EngineInvariant, TypeOK, RowMirrorsGraph,
       NothingReadyUnclaimed, FinalStatusWitnessed, NoCurrentStepMeansIdle
<1>10. CASE UNCHANGED engineVars
  BY <1>10 DEF engineVars, EngineInvariant, TypeOK, RowMirrorsGraph,
     NothingReadyUnclaimed, FinalStatusWitnessed, NoCurrentStepMeansIdle
<1> QED
  BY <1>1, <1>2, <1>3, <1>4, <1>5, <1>6, <1>7, <1>8, <1>9, <1>10 DEF Next

----------------------------------------------------------------------------
(* The types by themselves, for whoever writes graph and row in another     *)
(* order than the operations do.                                            *)

\* Before there is a row nothing has happened to the graph.
Unstarted == workflow.status = "ABSENT" => graph = InitialGraph

LEMMA WrittenTypes ==
  ASSUME graph' \in [Steps -> StepStatus], hasGraph' \in BOOLEAN,
         creating' \in BOOLEAN, creating' => hasGraph',
         workflow' \in Row, workflow'.status # "ABSENT"
  PROVE  TypeOK' /\ Unstarted'
BY DEF TypeOK, Unstarted

\* The row of a gate on a step, which keeps the current step of another row.
LEMMA BlockedRow ==
  ASSUME NEW g \in [Steps -> StepStatus], NEW gate \in GateStatus,
         NEW row \in Row
  PROVE  /\ [SyncedRow(g, gate) EXCEPT !.current = row.current] \in Row
         /\ [SyncedRow(g, gate) EXCEPT !.current = row.current].status = gate
<1>1. gate \in WorkflowStatus
  BY DEF GateStatus, WorkflowStatus
<1>2. SyncedRow(g, gate) \in Row /\ SyncedRow(g, gate).status = gate
  BY <1>1, SyncedRowFacts
<1> QED BY <1>2 DEF Row

\* The row of a new workflow.
LEMMA CreatedRow ==
  ASSUME workflow' = [AbsentRow EXCEPT !.status = "RUNNING",
                                       !.pending = PendingStepIds(graph')],
         graph' = InitialGraph
  PROVE  /\ graph' \in [Steps -> StepStatus]
         /\ workflow' \in Row /\ workflow'.status = "RUNNING"
<1>1. graph' \in [Steps -> StepStatus]
  BY DEF InitialGraph, StepStatus
<1>2. PendingStepIds(graph') = Steps
  BY DEF InitialGraph, PendingStepIds, StepsWith
<1>3. workflow' = [status |-> "RUNNING", completed |-> {}, pending |-> Steps,
                   failed |-> {}, current |-> NoStep]
  BY <1>2 DEF AbsentRow
<1>4. workflow' \in Row
  BY <1>3 DEF Row, RowStatus, WorkflowStatus
<1> QED BY <1>1, <1>3, <1>4

LEMMA TypesKept ==
  ASSUME TypeOK, Unstarted, [Next]_engineVars
  PROVE  TypeOK' /\ Unstarted'
<1>1. /\ graph \in [Steps -> StepStatus] /\ workflow \in Row
      /\ hasGraph \in BOOLEAN /\ creating \in BOOLEAN
      /\ creating => hasGraph /\ (hasGraph => workflow.status # "ABSENT")
  BY DEF TypeOK
<1>2. \A g \in [Steps -> StepStatus], s \in Steps, status \in StepStatus :
        /\ MarkStepStatus(g, s, status) \in [Steps -> StepStatus]
        /\ ClaimReadySteps(g) \in [Steps -> StepStatus]
  BY GraphOperatorsType
<1>3. \A g \in [Steps -> StepStatus] :
        /\ SyncedRow(g, "RUNNING") \in Row
        /\ SyncedRow(g, "RUNNING").status # "ABSENT"
        /\ SyncedRow(g, GraphStatus(g)) \in Row
        /\ SyncedRow(g, GraphStatus(g)).status # "ABSENT"
  <2>1. "ABSENT" \notin WorkflowStatus /\ "RUNNING" \in WorkflowStatus
    BY DEF WorkflowStatus
  <2> QED BY <2>1, SyncedRowFacts, GraphStatusFacts
<1>4. \A s \in Steps : ClaimReadySteps(graph) \in [Steps -> StepStatus]
  BY <1>1, GraphOperatorsType DEF StepStatus
<1>5. ClaimReadySteps(graph) \in [Steps -> StepStatus]
  BY <1>4, GraphAssumption DEF GraphAssumption
<1>6. CASE UNCHANGED engineVars
  BY <1>6 DEF engineVars, TypeOK, Unstarted
<1>7. CASE CreateWorkflow
  BY <1>7, CreatedRow, WrittenTypes DEF CreateWorkflow
<1>8. CASE FinishCreation
  BY <1>1, <1>3, <1>5, <1>8, WrittenTypes DEF FinishCreation
<1>9. ASSUME NEW s \in Steps, CompleteStep(s) \/ FailStep(s) \/ ResumeStep(s)
      PROVE  TypeOK' /\ Unstarted'
  <2>1. \A status \in {"COMPLETED", "FAILED", "PENDING"} :
          MarkStepStatus(graph, s, status) \in [Steps -> StepStatus]
    BY <1>1, <1>2 DEF StepStatus
  <2>2. graph' \in [Steps -> StepStatus]
    BY <1>2, <1>9, <2>1 DEF CompleteStep, FailStep, ResumeStep, StepStatus
  <2>3. workflow' \in Row /\ workflow'.status # "ABSENT"
    BY <1>3, <1>9, <2>2 DEF CompleteStep, FailStep, ResumeStep
  <2> QED BY <1>1, <1>9, <2>2, <2>3, WrittenTypes
          DEF CompleteStep, FailStep, ResumeStep
<1>10. ASSUME NEW s \in Steps, NEW gate \in GateStatus, BlockStep(s, gate)
       PROVE  TypeOK' /\ Unstarted'
  <2>1. graph' \in [Steps -> StepStatus]
    BY <1>1, <1>2, <1>10 DEF BlockStep, StepStatus
  <2>2. workflow' \in Row /\ workflow'.status # "ABSENT"
    BY <1>1, <1>10, <2>1, BlockedRow DEF BlockStep, GateStatus
  <2> QED BY <1>1, <1>10, <2>1, <2>2, WrittenTypes DEF BlockStep
<1>11. ASSUME NEW gate \in GateStatus, BlockWorkflow(gate)
       PROVE  TypeOK' /\ Unstarted'
  <2>1. workflow' \in Row /\ workflow'.status # "ABSENT"
    BY <1>1, <1>11
    DEF BlockWorkflow, Row, RowStatus, WorkflowStatus, GateStatus
  <2> QED BY <1>1, <1>11, <2>1, WrittenTypes DEF BlockWorkflow
<1>12. CASE ResumeWorkflow
  BY <1>1, <1>3, <1>5, <1>12, WrittenTypes DEF ResumeWorkflow
<1>13. CASE Restart
  <2>1. graph' \in [Steps -> StepStatus]
    BY <1>13 DEF Restart, InitialGraph, StepStatus
  <2> QED BY <1>1, <1>13, <2>1, WrittenTypes DEF Restart
<1> QED
  BY <1>6, <1>7, <1>8, <1>9, <1>10, <1>11, <1>12, <1>13 DEF Next

----------------------------------------------------------------------------
(* Theorems *)

\* The inductive invariant holds in every reachable state of the engine.
THEOREM EngineCorrect == Spec => []EngineInvariant
BY InitInvariant, NextInvariant, PTL DEF Spec

\* Every variable of the engine keeps its type.
THEOREM EngineTypeCorrect == Spec => []TypeOK
<1>1. EngineInvariant => TypeOK
  BY DEF EngineInvariant
<1> QED
  BY <1>1, EngineCorrect, PTL

\* Whatever is called and in whatever order, the persisted lists of steps are
\* those of the in-memory graph.
THEOREM RowAlwaysMirrorsGraph == Spec => []RowMirrorsGraph
<1>1. EngineInvariant => RowMirrorsGraph
  BY DEF EngineInvariant
<1> QED
  BY <1>1, EngineCorrect, PTL

\* No operation leaves a step ready and unclaimed once the creation is over.
THEOREM NothingLeftReady == Spec => []NothingReadyUnclaimed
<1>1. EngineInvariant => NothingReadyUnclaimed
  BY DEF EngineInvariant
<1> QED
  BY <1>1, EngineCorrect, PTL

\* A COMPLETED or FAILED row is right about the graph.
THEOREM FinalStatusIsRight == Spec => []FinalStatusWitnessed
<1>1. EngineInvariant => FinalStatusWitnessed
  BY DEF EngineInvariant
<1> QED
  BY <1>1, EngineCorrect, PTL

\* A row without a current step has no running step.
THEOREM NoCurrentStepIsIdle == Spec => []NoCurrentStepMeansIdle
<1>1. EngineInvariant => NoCurrentStepMeansIdle
  BY DEF EngineInvariant
<1> QED
  BY <1>1, EngineCorrect, PTL

\* A step is only ever set running after all its dependencies are completed.
THEOREM StepsStartInOrder == Spec => StartsInDependencyOrder
<1> DEFINE InOrder ==
      \A s \in Steps :
        graph[s] # "RUNNING" /\ graph'[s] = "RUNNING" =>
          \A d \in DependsOn[s] : graph'[d] = "COMPLETED"
<1>1. TypeOK /\ [Next]_engineVars => [InOrder]_engineVars
  <2> SUFFICES ASSUME TypeOK, Next, NEW s \in Steps,
                      graph[s] # "RUNNING", graph'[s] = "RUNNING"
               PROVE  \A d \in DependsOn[s] : graph'[d] = "COMPLETED"
    OBVIOUS
  <2>1. graph \in [Steps -> StepStatus]
    BY DEF TypeOK
  <2>2. CASE CreateWorkflow
    BY <2>2 DEF CreateWorkflow, InitialGraph
  <2>3. CASE FinishCreation \/ ResumeWorkflow
    BY <2>1, <2>3, ClaimStartsInOrder DEF FinishCreation, ResumeWorkflow
  <2>4. ASSUME NEW t \in Steps, NEW status \in {"COMPLETED", "PENDING"},
               graph' = ClaimReadySteps(MarkStepStatus(graph, t, status))
        PROVE  \A d \in DependsOn[s] : graph'[d] = "COMPLETED"
    <3>1. MarkStepStatus(graph, t, status) \in [Steps -> StepStatus]
      BY <2>1, GraphOperatorsType DEF StepStatus
    <3>2. MarkStepStatus(graph, t, status)[s] # "RUNNING"
      BY <2>1 DEF MarkStepStatus
    <3> QED
      BY <2>4, <3>1, <3>2, ClaimStartsInOrder
  <2>5. CASE \E t \in Steps : CompleteStep(t) \/ ResumeStep(t)
    BY <2>4, <2>5 DEF CompleteStep, ResumeStep
  <2>6. CASE \E t \in Steps :
               FailStep(t) \/ \E gate \in GateStatus : BlockStep(t, gate)
    BY <2>1, <2>6 DEF FailStep, BlockStep, MarkStepStatus
  <2>7. CASE Restart
    BY <2>7 DEF Restart, InitialGraph
  <2>8. CASE \E gate \in GateStatus : BlockWorkflow(gate)
    BY <2>8 DEF BlockWorkflow
  <2> QED
    BY <2>2, <2>3, <2>5, <2>6, <2>7, <2>8 DEF Next
<1> QED
  BY <1>1, EngineTypeCorrect, PTL DEF Spec, StartsInDependencyOrder

============================================================================
