------------------------------ MODULE GovFlow ------------------------------
(***************************************************************************)
(* The whole backend for one workflow: the agents, the engine, the polling  *)
(* tasks, the government API and the user, on the in-process event bus.     *)
(*                                                                          *)
(* publish() starts the handlers of an event and waits for all of them, and *)
(* at most one handler of an event type changes workflow state; so a chain  *)
(* of handlers, each publishing the next event, is one sequential thread.   *)
(* There is the root thread of the goal, one thread per polled application  *)
(* and one per WORKFLOW_RESUMED request.  A thread is a frame; frame.at is  *)
(* the event whose handler runs next, or one of three continuations:        *)
(*   "creating"   _create_workflow_with_steps after WORKFLOW_CREATED,       *)
(*   "checklist"  DocumentAgent's loop over the ready steps it has left,    *)
(*   "polling"    the loop of StatusMonitorAgent for one application.       *)
(* What a handler does between two awaits is one action.                    *)
(*                                                                          *)
(* The calls in Failing may raise.  with_retry then runs the handler again  *)
(* from its first line, up to MaxAttempts times, and at last publishes      *)
(* WORKFLOW_FAILED, which is only logged; the publisher of the event never  *)
(* hears of it.  A failed attempt of a handler that has done nothing yet is *)
(* no step of the model, only its giving up is.                             *)
(***************************************************************************)
EXTENDS WorkflowEngine, Sequences

CONSTANTS
  MaxPolls,       \* STATUS_MAX_POLLS
  Failing,        \* the calls that may raise, by an outside cause
  MaxAttempts,    \* max_attempts of with_retry
  Scenarios,      \* how the government treats applications
  Documents,      \* the findings of validate_document: subset of BOOLEAN
  Findings,       \* the findings of EligibilityAgent's LLM call
  User,           \* who sends WORKFLOW_RESUMED, see MayRequest
  Prompt,         \* does a cascade end before the next poll or request?
  MaxRequests,    \* bound: WORKFLOW_RESUMED events the user sends
  MaxFaults       \* bound: database writes that raise, see GovFlowFaults

ASSUME GovFlowAssumption ==
  /\ MaxPolls \in Nat \ {0}
  /\ MaxRequests \in Nat /\ MaxFaults \in Nat
  /\ MaxAttempts \in Nat \ {0}
  /\ Failing \subseteq {"llm", "validate", "submit", "poll"}
  /\ Prompt \in BOOLEAN
  /\ Documents \subseteq BOOLEAN
  /\ Scenarios \subseteq
       {"clean", "document_missing", "rejected", "transient_failure"}
  /\ Findings \subseteq {"eligible", "needs_information", "ineligible"}
  /\ User \in {"reviewer", "banner", "api"}

VARIABLES
  chain,          \* the frame of each thread
  applications,   \* the applications submitted, in order
  requests,       \* the WORKFLOW_RESUMED events, in order
  finding,        \* EligibilityAgent's finding
  gateStep,       \* step_id of the latest USER_ACTION_REQUIRED
  completions     \* number of WORKFLOW_COMPLETED events

vars == <<engineVars, chain, applications, requests, finding, gateStep,
          completions>>

\* A step is submitted once for its first claim and once for every retry of
\* the user, and again whenever with_retry repeats DocumentAgent's loop.  A
\* failed write may have one submission of each step repeated; if it is one of
\* the planner's, each further attempt of the planner may (GovFlowFaults).
Attempts == IF "validate" \in Failing THEN MaxAttempts ELSE 1
MaxRedone == IF MaxFaults = 0 THEN 0 ELSE (MaxFaults - 1) + (MaxAttempts - 1)
MaxApplications ==
  Attempts * (Cardinality(Steps) * (1 + MaxRedone) + MaxRequests)

Root == <<"root", 0>>
Poll(a) == <<"poll", a>>
Resume(r) == <<"resume", r>>
Polls == {Poll(a) : a \in 1..MaxApplications}
Threads == {Root} \cup Polls \cup {Resume(r) : r \in 1..MaxRequests}

Continuations == {"creating", "checklist", "polling"}
EventTypes ==
  {"USER_REQUEST_CREATED", "GOAL_ANALYZED", "REQUIREMENTS_IDENTIFIED",
   "WORKFLOW_CREATED", "NEXT_ACTION_TRIGGERED", "DOCUMENTS_VALIDATED",
   "DOCUMENT_MISSING", "APPLICATION_READY", "APPLICATION_SUBMITTED",
   "APPLICATION_APPROVED", "APPLICATION_REJECTED", "WORKFLOW_RESUMED"}

Frame ==
  [at : {"idle", "done"} \cup EventTypes \cup Continuations,
   step : Steps \cup {NoStep},      \* the step of the event
   action : {"retry", "abandon"},   \* of a WORKFLOW_RESUMED event
   app : 0..MaxApplications,        \* the application of the event
   attempt : 0..MaxPolls,           \* polls made so far
   steps : SUBSET Steps,            \* ready_steps of DocumentAgent's event
   tries : 0..(MaxAttempts - 1)]    \* failed attempts of DocumentAgent

Idle == [at |-> "idle", step |-> NoStep, action |-> "retry", app |-> 0,
         attempt |-> 0, steps |-> {}, tries |-> 0]
Done == [Idle EXCEPT !.at = "done"]

\* A thread about to handle an event about a step.
Handling(event, s) == [Idle EXCEPT !.at = event, !.step = s]

\* The thread of an engine operation once its event is published:
\* WORKFLOW_COMPLETED is only logged.
Published(event) ==
  IF event.type = "NEXT_ACTION_TRIGGERED"
  THEN [Idle EXCEPT !.at = "NEXT_ACTION_TRIGGERED", !.steps = event.steps]
  ELSE Done

\* The ready steps DocumentAgent's loop has left.
Todo(f) == {s \in f.steps : f.step # NoStep => Position[f.step] < Position[s]}

\* A handler nested in DocumentAgent's loop, or in nothing, returns.
Returned(f) ==
  IF Todo(f) = {} THEN Done
  ELSE [Idle EXCEPT !.at = "checklist", !.step = f.step, !.steps = f.steps,
                    !.tries = f.tries]

\* with_retry after DocumentAgent has raised.
Repeated(f) ==
  IF f.tries + 1 < MaxAttempts
  THEN [Idle EXCEPT !.at = "NEXT_ACTION_TRIGGERED", !.steps = f.steps,
                    !.tries = f.tries + 1]
  ELSE Done

Become(t, f) == chain' = [chain EXCEPT ![t] = f]

\* A poll comes after a sleep of seconds and a request from outside; a cascade
\* takes a few turns of the event loop.  Without Prompt they interleave in any
\* way; with it only behaviours that need no race at all are left.
OutsideTurn ==
  Prompt => \A t \in Threads : chain[t].at \in {"idle", "done", "polling"}

SystemInit ==
  /\ Init
  /\ chain = [t \in Threads |->
                IF t = Root THEN Handling("USER_REQUEST_CREATED", NoStep)
                ELSE Idle]
  /\ applications = << >>
  /\ requests = << >>
  /\ finding = "none"
  /\ gateStep = NoStep
  /\ completions = 0

----------------------------------------------------------------------------
(* From the goal to the workflow: the root thread. *)

GoalInterpreter ==
  /\ chain[Root].at = "USER_REQUEST_CREATED"
  /\ Become(Root, Handling("GOAL_ANALYZED", NoStep))
  /\ UNCHANGED <<engineVars, applications, requests, finding, gateStep,
                 completions>>

Regulation ==
  /\ chain[Root].at = "GOAL_ANALYZED"
  /\ Become(Root, Handling("REQUIREMENTS_IDENTIFIED", NoStep))
  /\ UNCHANGED <<engineVars, applications, requests, finding, gateStep,
                 completions>>

\* required_workflow is False: no row is ever created.
PlanningSkipped ==
  /\ chain[Root].at = "REQUIREMENTS_IDENTIFIED"
  /\ Become(Root, Done)
  /\ UNCHANGED <<engineVars, applications, requests, finding, gateStep,
                 completions>>

WorkflowPlanner ==
  /\ chain[Root].at = "REQUIREMENTS_IDENTIFIED"
  /\ CreateWorkflow
  /\ Become(Root, Handling("WORKFLOW_CREATED", NoStep))
  /\ UNCHANGED <<applications, requests, finding, gateStep, completions>>

\* Eligible: ELIGIBILITY_CHECKED changes nothing.  Otherwise a gate on the
\* row, and USER_ACTION_REQUIRED without a step.  Either way control goes
\* back to the engine.
Eligibility ==
  /\ chain[Root].at = "WORKFLOW_CREATED"
  /\ finding' \in Findings
  /\ \/ finding' = "eligible" /\ UNCHANGED <<engineVars, gateStep>>
     \/ /\ finding' # "eligible"
        /\ BlockWorkflow(IF finding' = "ineligible" THEN "BLOCKED"
                         ELSE "WAITING_FOR_USER")
        /\ gateStep' = NoStep
  /\ Become(Root, [Idle EXCEPT !.at = "creating"])
  /\ UNCHANGED <<applications, requests, completions>>

\* The LLM raises at every attempt.  Without a finding of EligibilityAgent the
\* creation goes on; without a goal or a plan there is no workflow.
AgentGivesUp ==
  /\ "llm" \in Failing
  /\ \/ /\ chain[Root].at \in {"USER_REQUEST_CREATED",
                               "REQUIREMENTS_IDENTIFIED"}
        /\ Become(Root, Done)
     \/ /\ chain[Root].at = "WORKFLOW_CREATED"
        /\ Become(Root, [Idle EXCEPT !.at = "creating"])
  /\ UNCHANGED <<engineVars, applications, requests, finding, gateStep,
                 completions>>

WorkflowCreated ==
  /\ chain[Root].at = "creating"
  /\ Become(Root, Published(ClaimEvent))
  /\ FinishCreation
  /\ UNCHANGED <<applications, requests, finding, gateStep, completions>>

----------------------------------------------------------------------------
(* From a claimed step to a polled application: any thread. *)

\* One iteration of DocumentAgent's loop.  validate_document, or a write of
\* the iteration, may raise, and then the whole handler is repeated, for all
\* its steps.
CheckDocuments(t) ==
  \/ \E valid \in Documents :
       Become(t, [chain[t] EXCEPT
         !.at = IF valid THEN "DOCUMENTS_VALIDATED" ELSE "DOCUMENT_MISSING",
         !.step = FirstStep(Todo(chain[t]))])
  \/ "validate" \in Failing /\ Become(t, Repeated(chain[t]))

\* DocumentAgent looks at the gate once, before the loop ...
DocumentAgent(t) ==
  /\ chain[t].at = "NEXT_ACTION_TRIGGERED"
  /\ \/ IsGated /\ Become(t, Done)
     \/ ~IsGated /\ CheckDocuments(t)
  /\ UNCHANGED <<engineVars, applications, requests, finding, gateStep,
                 completions>>

\* ... and goes on when the cascade of the previous step is over.
DocumentAgentContinues(t) ==
  /\ chain[t].at = "checklist"
  /\ CheckDocuments(t)
  /\ UNCHANGED <<engineVars, applications, requests, finding, gateStep,
                 completions>>

DepartmentRouter(t) ==
  /\ chain[t].at = "DOCUMENTS_VALIDATED"
  /\ \/ IsGated /\ Become(t, Returned(chain[t]))
     \/ ~IsGated /\ Become(t, [chain[t] EXCEPT !.at = "APPLICATION_READY"])
  /\ UNCHANGED <<engineVars, applications, requests, finding, gateStep,
                 completions>>

\* The record the government starts for an application.
Submitted(s, scenario) ==
  [step |-> s, scenario |-> scenario, asked |-> 0, status |-> "SUBMITTED"]

\* ApplicationAgent submits to the government, which starts a record of its
\* own, and adds the application to the row.
ApplicationAgent(t) ==
  /\ chain[t].at = "APPLICATION_READY"
  /\ \/ /\ IsGated
        /\ Become(t, Returned(chain[t]))
        /\ UNCHANGED applications
     \/ /\ ~IsGated /\ "submit" \in Failing     \* at every attempt
        /\ Become(t, Returned(chain[t]))
        /\ UNCHANGED applications
     \/ /\ ~IsGated
        /\ \E scenario \in Scenarios :
             applications' =
               Append(applications, Submitted(chain[t].step, scenario))
        /\ Become(t, [chain[t] EXCEPT !.at = "APPLICATION_SUBMITTED",
                                      !.app = Len(applications')])
  /\ UNCHANGED <<engineVars, requests, finding, gateStep, completions>>

\* Error: the task polls the latest application of the workflow.
StatusMonitorLatest(t) ==
  /\ chain[t].at = "APPLICATION_SUBMITTED"
  /\ chain' = [chain EXCEPT
       ![t] = Returned(chain[t]),
       ![Poll(chain[t].app)] = [Idle EXCEPT !.at = "polling",
                                            !.step = chain[t].step,
                                            !.app = Len(applications)]]
  /\ UNCHANGED <<engineVars, applications, requests, finding, gateStep,
                 completions>>

\* Error: one task per step, ever.
StatusMonitorByStep(t) ==
  /\ chain[t].at = "APPLICATION_SUBMITTED"
  /\ chain' = [chain EXCEPT
       ![t] = Returned(chain[t]),
       ![Poll(chain[t].app)] =
         IF \E a \in 1..(chain[t].app - 1) :
              /\ applications[a].step = chain[t].step
              /\ chain[Poll(a)].at # "idle"
         THEN @
         ELSE [Idle EXCEPT !.at = "polling", !.step = chain[t].step,
                           !.app = chain[t].app]]
  /\ UNCHANGED <<engineVars, applications, requests, finding, gateStep,
                 completions>>

\* StatusMonitorAgent.handle starts the polling task and returns.
StatusMonitor(t) ==
  /\ chain[t].at = "APPLICATION_SUBMITTED"
  /\ chain' = [chain EXCEPT
       ![t] = Returned(chain[t]),
       ![Poll(chain[t].app)] = [Idle EXCEPT !.at = "polling",
                                            !.step = chain[t].step,
                                            !.app = chain[t].app]]
  /\ UNCHANGED <<engineVars, applications, requests, finding, gateStep,
                 completions>>

----------------------------------------------------------------------------
(* Polling the government, and what its answers do. *)

\* The n-th answer of MockGovernmentAPIClient; ERROR is an exception.
GovernmentAnswer(scenario, n) ==
  CASE scenario = "document_missing" -> "DOCUMENT_MISSING"
    [] scenario = "rejected" -> IF n = 1 THEN "PENDING" ELSE "REJECTED"
    [] scenario = "transient_failure" -> IF n = 1 THEN "ERROR" ELSE "APPROVED"
    [] OTHER -> IF n = 1 THEN "PENDING" ELSE "APPROVED"

VerdictEvent ==
  [APPROVED |-> "APPLICATION_APPROVED", REJECTED |-> "APPLICATION_REJECTED",
   DOCUMENT_MISSING |-> "DOCUMENT_MISSING"]

\* Error: one attempt too few.
ImpatientPollAgain(t) ==
  IF chain[t].attempt + 2 < MaxPolls
  THEN [chain[t] EXCEPT !.attempt = @ + 1]
  ELSE Done

\* An attempt is over without a verdict; after the last one the loop ends,
\* with a line in the log.
PollAgain(t) ==
  IF chain[t].attempt + 1 < MaxPolls
  THEN [chain[t] EXCEPT !.attempt = @ + 1]
  ELSE Done

\* The tool raises before the client is called.
PollRateLimited(t) ==
  /\ "poll" \in Failing
  /\ chain[t].at = "polling"
  /\ OutsideTurn
  /\ Become(t, PollAgain(t))
  /\ UNCHANGED <<engineVars, applications, requests, finding, gateStep,
                 completions>>

\* The client counts the call and answers (or raises).  A verdict is
\* published as APPLICATION_STATUS_CHANGED and then as its own event.
PollStatus(t) ==
  LET a == chain[t].app
      n == applications[a].asked + 1
      answer == GovernmentAnswer(applications[a].scenario, n)
  IN  /\ chain[t].at = "polling"
      /\ OutsideTurn
      /\ applications' = [applications EXCEPT
           ![a].asked = n,
           ![a].status = IF answer = "ERROR" THEN @ ELSE answer]
      /\ Become(t, IF answer \in DOMAIN VerdictEvent
                   THEN Handling(VerdictEvent[answer], chain[t].step)
                   ELSE PollAgain(t))
      /\ UNCHANGED <<engineVars, requests, finding, gateStep, completions>>

OnApplicationApproved(t) ==
  /\ chain[t].at = "APPLICATION_APPROVED"
  /\ LET event == CompleteStepEvent(chain[t].step)
     IN  /\ Become(t, Published(event))
         /\ completions' = IF event = WorkflowCompletedEvent
                           THEN completions + 1 ELSE completions
  /\ CompleteStep(chain[t].step)
  /\ UNCHANGED <<applications, requests, finding, gateStep>>

OnApplicationRejected(t) ==
  /\ chain[t].at = "APPLICATION_REJECTED"
  /\ BlockStep(chain[t].step, "BLOCKED")
  /\ gateStep' = chain[t].step
  /\ Become(t, Done)
  /\ UNCHANGED <<applications, requests, finding, completions>>

\* From the poll of an application, or from DocumentAgent's loop.
OnDocumentMissing(t) ==
  /\ chain[t].at = "DOCUMENT_MISSING"
  /\ BlockStep(chain[t].step, "WAITING_FOR_USER")
  /\ gateStep' = chain[t].step
  /\ Become(t, Returned(chain[t]))
  /\ UNCHANGED <<applications, requests, finding, completions>>

----------------------------------------------------------------------------
(* The user: POST /api/workflows/{id}/events. *)

InFlight(r) == chain[Resume(r)].at \notin {"idle", "done"}

\* "api"       any step, or none, at any time: all the route asks is a row;
\* "reviewer"  a blocked step that no unhandled request is about, or the
\*             workflow when it is gated and no step is blocked, or anything
\*             when it is gated and a restart has lost the graph;
\* "banner"    HumanInTheLoopBanner of one browser: shown while the workflow
\*             is gated, about the step of the latest USER_ACTION_REQUIRED,
\*             and disabled until the previous request is answered, which is
\*             when its whole cascade is over.
MayRequest(s) ==
  \/ User = "api"
  \/ /\ User = "reviewer"
     /\ \/ /\ s \in BlockedStepIds(graph)
           /\ \A r \in 1..Len(requests) :
                chain[Resume(r)].at = "WORKFLOW_RESUMED" =>
                  chain[Resume(r)].step # s
        \/ s = NoStep /\ IsGated /\ BlockedStepIds(graph) = {}
        \/ IsGated /\ ~hasGraph
  \/ /\ User = "banner"
     /\ IsGated
     /\ s = gateStep
     /\ \A r \in 1..Len(requests) : ~InFlight(r)

PublishManualEvent(s, action) ==
  /\ Len(requests) < MaxRequests
  /\ workflow.status # "ABSENT"
  /\ OutsideTurn
  /\ MayRequest(s)
  /\ requests' = Append(requests, [step |-> s, action |-> action])
  /\ Become(Resume(Len(requests')),
            [Handling("WORKFLOW_RESUMED", s) EXCEPT !.action = action])
  /\ UNCHANGED <<engineVars, applications, finding, gateStep, completions>>

OnWorkflowResumed(t) ==
  LET s == chain[t].step
  IN  /\ chain[t].at = "WORKFLOW_RESUMED"
      /\ \/ s = NoStep /\ Become(t, Published(ClaimEvent)) /\ ResumeWorkflow
         \/ /\ s # NoStep /\ chain[t].action = "abandon"
            /\ Become(t, Done)
            /\ FailStep(s)
         \/ /\ s # NoStep /\ chain[t].action = "retry"
            /\ Become(t, Published(ResumeStepEvent(s)))
            /\ ResumeStep(s)
      /\ UNCHANGED <<applications, requests, finding, gateStep, completions>>

----------------------------------------------------------------------------

RootStep ==
  \/ GoalInterpreter \/ Regulation \/ PlanningSkipped \/ WorkflowPlanner
  \/ Eligibility \/ AgentGivesUp \/ WorkflowCreated

CascadeStep(t) ==
  \/ DocumentAgent(t) \/ DocumentAgentContinues(t)
  \/ DepartmentRouter(t) \/ ApplicationAgent(t) \/ StatusMonitor(t)
  \/ PollRateLimited(t) \/ PollStatus(t)
  \/ OnApplicationApproved(t) \/ OnApplicationRejected(t)
  \/ OnDocumentMissing(t)
  \/ OnWorkflowResumed(t)

\* Without a step the action is not looked at.
UserStep ==
  \E s \in Steps \cup {NoStep}, action \in {"retry", "abandon"} :
    /\ s = NoStep => action = "retry"
    /\ PublishManualEvent(s, action)

SystemNext == RootStep \/ UserStep \/ \E t \in Threads : CascadeStep(t)

SystemSpec == SystemInit /\ [][SystemNext]_vars

----------------------------------------------------------------------------
(* Properties *)

Applied(s) == {a \in 1..Len(applications) : applications[a].step = s}

Approved(s) == {a \in Applied(s) : applications[a].status = "APPROVED"}

Retries(s) ==
  {r \in 1..Len(requests) : requests[r] = [step |-> s, action |-> "retry"]}

\* The steps a thread has claimed, or whose verdict it carries.
WorkingOn(t) ==
  Todo(chain[t]) \cup
    IF chain[t].at \in {"WORKFLOW_RESUMED", "checklist"} THEN {}
    ELSE {chain[t].step} \ {NoStep}

Application ==
  [step : Steps, scenario : Scenarios, asked : 0..MaxPolls,
   status : {"SUBMITTED", "PENDING", "APPROVED", "REJECTED",
             "DOCUMENT_MISSING"}]

\* Every variable has its type; a polling thread polls its own application.
SystemTypeOK ==
  /\ TypeOK
  /\ chain \in [Threads -> Frame]
  /\ applications \in Seq(Application)
  /\ Len(applications) <= MaxApplications
  /\ requests \in Seq([step : Steps \cup {NoStep},
                       action : {"retry", "abandon"}])
  /\ Len(requests) <= MaxRequests
  /\ finding \in Findings \cup {"none"}
  /\ gateStep \in Steps \cup {NoStep}
  /\ completions \in 0..MaxApplications
  /\ \A a \in 1..MaxApplications :
       chain[Poll(a)].at = "polling" =>
         chain[Poll(a)].app = a /\ a <= Len(applications)

\* No application is made before each prerequisite of its step has been
\* approved by the government, whatever the user resumes: the DAG orders what
\* reaches the government, not only what the graph says.
PrerequisitesApproved ==
  \A a \in 1..Len(applications) :
    \A d \in DependsOn[applications[a].step] :
      \E b \in Approved(d) : b < a

\* A step counts as completed only if the government approved an application
\* for it, and so does a COMPLETED workflow for all its steps.
CompletedMeansApproved ==
  /\ \A s \in CompletedStepIds(graph) : Approved(s) # {}
  /\ workflow.status = "COMPLETED" => \A s \in Steps : Approved(s) # {}

\* A step is submitted once, and once more for each retry the user asked for,
\* each time at most once per attempt of the handler.
SubmissionsAuthorised ==
  \A s \in Steps :
    Cardinality(Applied(s)) <= Attempts * (1 + Cardinality(Retries(s)))

\* Without a request of the user no step is submitted a second time.
SubmittedOnce ==
  requests = << >> => \A s \in Steps : Cardinality(Applied(s)) <= 1

\* If retries are only sent for blocked steps: at any time at most one thread
\* works on a step (submits it, polls it or carries its verdict), and only
\* while the step is RUNNING.  This is what claim_ready_steps is for.
OneWorkerPerStep ==
  \A s \in Steps, t \in Threads :
    s \in WorkingOn(t) =>
      /\ graph[s] = "RUNNING"
      /\ \A u \in Threads : s \in WorkingOn(u) => t = u

\* If retries are only sent for blocked steps, an approval is final: no late
\* verdict and no retry takes a completed step back.
ApprovalIsFinal ==
  [][CompletedStepIds(graph) \subseteq CompletedStepIds(graph')]_vars

\* If retries are only sent for blocked steps, WORKFLOW_COMPLETED is published
\* at most once, and after it no thread works on anything.
CompletedOnce ==
  /\ completions <= 1
  /\ completions = 1 =>
       IsComplete(graph) /\ \A t \in Threads : WorkingOn(t) = {}

\* The life of a step as the government and the user see it.
StepPhase ==
  [s \in Steps |->
     CASE graph[s] = "PENDING" -> "waiting"
       [] graph[s] = "COMPLETED" -> "done"
       [] graph[s] = "BLOCKED" -> "halted"
       [] graph[s] = "FAILED" -> "abandoned"
       [] \E a \in Applied(s) :
            \/ s \in WorkingOn(Poll(a))
            \/ \E t \in Threads : chain[t].at = "APPLICATION_SUBMITTED"
                                  /\ chain[t].app = a -> "filed"
       [] OTHER -> IF \E t \in Threads : s \in WorkingOn(t) THEN "active"
                   ELSE "stalled"]

Lifecycle == INSTANCE StepLifecycle WITH phase <- StepPhase

\* If retries are only sent for blocked steps, the agents, the engine and the
\* polling tasks together do no more with a step than StepLifecycle allows:
\* in particular a step is filed once per start or retry, and a completed one
\* never again.
ImplementsLifecycle == Lifecycle!Spec

\* A step marked RUNNING is being worked on by some thread.
RunningStepHasWorker ==
  \A s \in StepsWith(graph, {"RUNNING"}) :
    \E t \in Threads : s \in WorkingOn(t)

\* Nothing is submitted for an applicant found ineligible, or with missing
\* information, before the user resumes the workflow.
IneligibleNeverSubmitted ==
  finding \in {"ineligible", "needs_information"} /\ requests = << >> =>
    applications = << >>

\* A workflow does not stay RUNNING for ever: if it stops, it is COMPLETED,
\* FAILED, or gated, so that a client can see it waits for somebody.
EventuallySettled == <>[](workflow.status # "RUNNING")

\* The government and the documents stand in nobody's way.
Unobstructed ==
  /\ \A a \in 1..Len(applications) :
       applications[a].scenario \in {"clean", "transient_failure"}
  /\ \A t \in Threads : chain[t].at # "DOCUMENT_MISSING"

\* A workflow whose applications are all approvable is completed without
\* anybody's help.
EventuallyCompleted ==
  []Unobstructed => (workflow.status # "ABSENT" ~> IsComplete(graph))

============================================================================
