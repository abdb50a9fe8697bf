--------------------------- MODULE GovFlowFaults ---------------------------
(***************************************************************************)
(* GovFlow with a database whose writes may raise, and a process that may   *)
(* restart.                                                                 *)
(*                                                                          *)
(* A write that raises ends the attempt of the handler it is in; what the   *)
(* attempt has done before stays done, and with_retry runs the handler      *)
(* again from its first line, later and after whatever other threads do in  *)
(* between.  So a fault is a step of its own that leaves the thread where   *)
(* it is, or where with_retry or the missing with_retry puts it.  With      *)
(* fewer faults than attempts no handler gives up for them alone, but the   *)
(* planner does: once there is a row, its further attempts fail on it.  A   *)
(* handler that has done nothing before the write is simply late.           *)
(*                                                                          *)
(* A restart loses all threads, the graph, and what the mock government     *)
(* knows; the row, the events and the audit trail are in the database.      *)
(***************************************************************************)
EXTENDS GovFlow

CONSTANT MaxRestarts     \* bound: restarts of the process

ASSUME FaultAssumption == MaxFaults < MaxAttempts /\ MaxRestarts \in Nat

VARIABLES
  faults,       \* the writes that have raised
  failedPlans,  \* the planner's attempts that failed with the row there
  restarts      \* the times the process was restarted

disturbances == <<faults, failedPlans, restarts>>
faultVars == <<vars, disturbances>>

FaultInit == SystemInit /\ faults = 0 /\ failedPlans = 0 /\ restarts = 0

----------------------------------------------------------------------------
(* A write raises. *)

Fault ==
  /\ faults < MaxFaults
  /\ faults' = faults + 1
  /\ UNCHANGED restarts

\* The planner's first attempt fails after the row is there: WORKFLOW_CREATED
\* cannot be appended, ...
CreationFails ==
  /\ chain[Root].at = "REQUIREMENTS_IDENTIFIED"
  /\ hasGraph' = TRUE
  /\ graph' = InitialGraph
  /\ workflow.status = "ABSENT"
  /\ workflow' = [AbsentRow EXCEPT !.status = "RUNNING",
                                   !.pending = PendingStepIds(graph')]
  /\ Become(Root, Done)
  /\ UNCHANGED <<creating, applications, requests, finding, gateStep,
                 completions>>

\* ... or the row is not updated, or NEXT_ACTION_TRIGGERED not appended, and
\* the first steps are claimed by nobody, ...
FirstClaimLost ==
  /\ chain[Root].at = "creating" /\ creating
  /\ graph' = ClaimReadySteps(graph)
  /\ workflow' \in {workflow, SyncedRow(graph', GraphStatus(graph'))}
  /\ creating' = FALSE
  /\ Become(Root, Done)
  /\ UNCHANGED <<hasGraph, applications, requests, finding, gateStep,
                 completions>>

\* ... or the planner's own audit entry is not written, when the whole cascade
\* of the first steps is over.  (Only its next attempt shows that it failed.)
AuditFails ==
  /\ chain[Root].at = "done" /\ hasGraph
  /\ UNCHANGED vars

PlanFails ==
  /\ failedPlans = 0
  /\ failedPlans' = 1
  /\ CreationFails \/ FirstClaimLost \/ AuditFails

\* Each further attempt comes after a sleep, in which anything may happen to
\* the graph it then replaces, and fails on the row.  One that fails before it
\* has a graph is no step.
PlannerRepeated ==
  /\ failedPlans \in 1..(MaxAttempts - 1)
  /\ hasGraph
  /\ OutsideTurn
  /\ failedPlans' = failedPlans + 1
  /\ graph' = InitialGraph
  /\ UNCHANGED <<workflow, hasGraph, creating, chain, applications, requests,
                 finding, gateStep, completions, faults, restarts>>

\* The gate is on the row, but USER_ACTION_REQUIRED is not appended.
EligibilityRepeated ==
  /\ chain[Root].at = "WORKFLOW_CREATED"
  /\ \E f \in Findings \ {"eligible"} :
       BlockWorkflow(IF f = "ineligible" THEN "BLOCKED"
                     ELSE "WAITING_FOR_USER")
  /\ UNCHANGED <<chain, applications, requests, finding, gateStep,
                 completions>>

\* An iteration of DocumentAgent's loop raises (with "validate" in Failing it
\* may do so anyway): the steps before it are checked once more.
DocumentsRepeated(t) ==
  /\ chain[t].at \in {"NEXT_ACTION_TRIGGERED", "checklist"}
  /\ "validate" \notin Failing
  /\ Become(t, [Idle EXCEPT !.at = "NEXT_ACTION_TRIGGERED",
                            !.steps = chain[t].steps])
  /\ UNCHANGED <<engineVars, applications, requests, finding, gateStep,
                 completions>>

\* The government has the application; the row, the audit entry or the event
\* fails, and the application is submitted again.
SubmissionRepeated(t) ==
  /\ chain[t].at = "APPLICATION_READY"
  /\ ~IsGated
  /\ \E scenario \in Scenarios :
       applications' = Append(applications, Submitted(chain[t].step, scenario))
  /\ UNCHANGED <<engineVars, chain, requests, finding, gateStep, completions>>

\* The government has answered; its answer cannot be recorded, and the polling
\* task, which nothing retries, is gone.
PollingDies(t) ==
  LET a == chain[t].app
      n == applications[a].asked + 1
      answer == GovernmentAnswer(applications[a].scenario, n)
  IN  /\ chain[t].at = "polling"
      /\ answer # "ERROR"
      /\ applications' = [applications EXCEPT ![a].asked = n,
                                              ![a].status = answer]
      /\ Become(t, Done)
      /\ UNCHANGED <<engineVars, requests, finding, gateStep, completions>>

\* The graph is changed; then the update of the row raises, or the event is
\* not appended.  The handler runs again, on the changed graph.
Unrecorded(g, row) ==
  /\ hasGraph
  /\ graph' = g
  /\ workflow' \in {workflow, row}
  /\ UNCHANGED <<hasGraph, creating>>

UnrecordedClaim(marked, resumed) ==
  LET g == ClaimReadySteps(marked)
  IN  Unrecorded(g, SyncedRow(g, IF resumed THEN "RUNNING" ELSE GraphStatus(g)))

HandlerRepeated(t) ==
  LET s == chain[t].step
  IN  /\ \/ /\ chain[t].at = "APPLICATION_APPROVED"
            /\ UnrecordedClaim(MarkStepStatus(graph, s, "COMPLETED"), FALSE)
         \/ /\ chain[t].at = "WORKFLOW_RESUMED"
            /\ s = NoStep
            /\ UnrecordedClaim(graph, TRUE)
         \/ /\ chain[t].at = "WORKFLOW_RESUMED"
            /\ s # NoStep /\ chain[t].action = "retry"
            /\ UnrecordedClaim(MarkStepStatus(graph, s, "PENDING"), TRUE)
         \/ /\ chain[t].at = "WORKFLOW_RESUMED"
            /\ s # NoStep /\ chain[t].action = "abandon"
            /\ LET g == MarkStepStatus(graph, s, "FAILED")
               IN  Unrecorded(g, SyncedRow(g, GraphStatus(g)))
         \/ /\ chain[t].at \in {"APPLICATION_REJECTED", "DOCUMENT_MISSING"}
            /\ LET g == MarkStepStatus(graph, s, "BLOCKED")
                   gate == IF chain[t].at = "DOCUMENT_MISSING"
                           THEN "WAITING_FOR_USER" ELSE "BLOCKED"
               IN  Unrecorded(g, [SyncedRow(g, gate) EXCEPT
                                    !.current = workflow.current])
      /\ UNCHANGED <<chain, applications, requests, finding, gateStep,
                     completions>>

WriteFails ==
  /\ Fault
  /\ \/ PlanFails
     \/ /\ UNCHANGED failedPlans
        /\ \/ EligibilityRepeated
           \/ \E t \in Threads :
                \/ DocumentsRepeated(t) \/ SubmissionRepeated(t)
                \/ PollingDies(t) \/ HandlerRepeated(t)

----------------------------------------------------------------------------
(* The process restarts. *)

Alive(t) == chain[t].at \notin {"idle", "done"}

\* Requests that were never sent may still come; nothing else does.  A goal
\* without a row is forgotten.
SystemRestarts ==
  /\ restarts < MaxRestarts
  /\ hasGraph \/ Alive(Root)
  /\ restarts' = restarts + 1
  /\ chain' = [t \in Threads |-> IF Alive(t) THEN Done ELSE chain[t]]
  /\ IF workflow.status = "ABSENT" THEN UNCHANGED engineVars ELSE Restart
  /\ UNCHANGED <<applications, requests, finding, gateStep, completions,
                 faults, failedPlans>>

\* Error: the graph is made again, as if nothing had happened yet.
ResumedFromScratch(t) ==
  /\ chain[t].at = "WORKFLOW_RESUMED"
  /\ ~hasGraph
  /\ hasGraph' = TRUE
  /\ graph' = ClaimReadySteps(InitialGraph)
  /\ workflow' = SyncedRow(graph', "RUNNING")
  /\ Become(t, Published(NextActionEvent(ReadySteps(InitialGraph))))
  /\ UNCHANGED <<creating, applications, requests, finding, gateStep,
                 completions, faults, failedPlans, restarts>>

\* _on_workflow_resumed finds no graph, with or without a step.
ResumedWithoutGraph(t) ==
  /\ chain[t].at = "WORKFLOW_RESUMED"
  /\ ~hasGraph
  /\ Become(t, Done)
  /\ UNCHANGED <<engineVars, applications, requests, finding, gateStep,
                 completions, faults, failedPlans, restarts>>

----------------------------------------------------------------------------

FaultNext ==
  \/ SystemNext /\ UNCHANGED disturbances
  \/ WriteFails
  \/ PlannerRepeated
  \/ SystemRestarts
  \/ \E t \in Threads : ResumedWithoutGraph(t)

FaultSpec == FaultInit /\ [][FaultNext]_faultVars

\* The event loop does not stop while a task is ready or asleep; every task
\* makes finitely many steps, so it need not be fair to each.  Nothing makes
\* the user act, a write fail, the planner get as far as a new graph, or the
\* process restart.
BackendStep ==
  \/ RootStep /\ UNCHANGED disturbances
  \/ \E t \in Threads : \/ CascadeStep(t) /\ UNCHANGED disturbances
                        \/ ResumedWithoutGraph(t)

FairFaultSpec == FaultSpec /\ WF_faultVars(BackendStep)

----------------------------------------------------------------------------
(* Properties *)

\* The times a step may be submitted again because of failed writes: each
\* repeats one handler or loses it; but if the planner fails, it is its further
\* attempts that make all steps pending again.
Redone ==
  IF failedPlans = 0 THEN faults ELSE (faults - 1) + (failedPlans - 1)

\* A step is submitted once, once more for each retry the user asked for, and
\* at most once more for each write that raised, whatever is repeated; or, if
\* the planner failed, for each attempt it makes after that.
EverySubmissionPaidFor ==
  \A s \in Steps :
    Cardinality(Applied(s)) <= 1 + Cardinality(Retries(s)) + Redone

\* An application no thread polls, an orphan, is one whose record failed to
\* be written.  Until a restart nothing else makes one: each application is
\* followed by a task of its own, or is about to be.
Orphans == {a \in 1..Len(applications) : chain[Poll(a)].at = "idle"}
OrphansPaidFor ==
  restarts = 0 =>
    Cardinality(Orphans) <=
      faults + Cardinality({t \in Threads :
                              chain[t].at = "APPLICATION_SUBMITTED"})

\* After a restart the row is all there is: no request, of whatever kind,
\* changes it or makes an application, so what was half done stays half done
\* and nothing is done twice.
Lost == restarts > 0 /\ workflow.status # "ABSENT"
GraphlessIsFrozen ==
  [][Lost => ~hasGraph /\ UNCHANGED <<workflow, graph, applications>>]_faultVars

\* No write has failed, no process has restarted, and no gate was set on the
\* workflow rather than on a step: opening that one again takes a request
\* without a step, which forces RUNNING whatever has happened since.
Undisturbed ==
  faults = 0 /\ restarts = 0 /\ finding \in {"none", "eligible"}

\* A line of steps: whatever has been completed so far, each step after those
\* it needs, there is at most one step that could be started next.
IsLine ==
  \A done \in SUBSET Steps :
    (\A s \in done : DependsOn[s] \subseteq done) =>
      \A s, u \in Steps \ done :
        DependsOn[s] \cup DependsOn[u] \subseteq done => s = u

\* On a line of steps only a failed write or a restart strands a step:
\* otherwise one marked RUNNING is being worked on by some thread.  (With
\* siblings a gate can strand one, see the README.)
StrandedByFaultOnly == IsLine /\ Undisturbed => RunningStepHasWorker

\* Undisturbed, a workflow does not stay RUNNING for ever: if it stops, it is
\* COMPLETED, FAILED, or gated, so that a client can see it waits for
\* somebody.
UndisturbedSettles == []Undisturbed => EventuallySettled

\* Undisturbed, a workflow whose applications are all approvable is completed
\* without anybody's help.
UndisturbedCompletes == []Undisturbed => EventuallyCompleted

\* The planner has failed on a workflow that has a row already, so its further
\* attempts will, and WORKFLOW_FAILED says so.
CreationGaveUp == failedPlans > 0

\* A polling task, which is no handler, has died of the write.
PollingDied ==
  \E a \in 1..Len(applications) :
    chain[Poll(a)].at = "done" /\ graph[applications[a].step] = "RUNNING"

\* A handler that raises once does not silently break the workflow: it
\* settles in a status that shows who must act, or there is a WORKFLOW_FAILED.
NeverSilentlyBroken ==
  EventuallySettled \/ <>CreationGaveUp \/ <>PollingDied

============================================================================
