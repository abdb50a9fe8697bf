# GovFlow: TLA+ specifications and proofs

Models of the GovFlow backend (`src/govflow/backend`): an event-driven chain of
agents that plans a workflow of government services, submits one application
per step to a (mock) government API, polls it, and stops at a human-in-the-loop
gate when an application is rejected or documents are missing. The modules are
written from the code, by reading it next to its tests; every definition that models code names the
lines it stands for in `PROJECT.json` ("map").

## Inventory

Everything runs in one asyncio process. Code between two `await`s is atomic;
every `publish`, `sleep` and socket send is a point where another task runs.

| Component | State | Operations | What makes it correct |
|---|---|---|---|
| `workflows/graph.py` WorkflowGraph | status per step, dependency edges | ready steps, mark, claim | acyclic; a step is claimed once, after its dependencies |
| `workflows/engine.py` WorkflowEngine | `_graphs` in memory, Workflow rows in SQLite | create, complete, fail, block, resume, sync, event handlers | the row tells the truth about the graph; everything that becomes ready is claimed; gates hold |
| `agents/*` (ten agents) | none of their own, except the polling tasks of StatusMonitorAgent | one handler each; read the gate, call tools, publish the next event | each claimed step has one worker; nothing is submitted twice or before its prerequisites |
| `events/bus.py`, `registry.py`, `retry.py` | subscriptions | publish = run all handlers and wait; three attempts, then WORKFLOW_FAILED | a handler that fails half way does no harm when it runs again |
| `mock_services/client.py` | record and poll count per application | submit, get status, validate documents | answers depend on scenario and poll count only |
| `api/websocket.py` ConnectionManager | sockets, three cursors and a lock per workflow | connect + snapshot, on_event, disconnect | each tab gets every entry once and the last status |
| `api/routes.py` | none | submit a goal, publish WORKFLOW_RESUMED, reads | a resume only undoes what a human may undo |
| `tools/registry.py`, `rate_limiter.py`, `api/rate_limit.py` | call times per key | check | at most N calls in any window |
| `services/*_repo.py` | SQLite tables | get, create, update, append, list | rows survive a restart, lists keep their order |
| frontend `HumanInTheLoopBanner` | last events, pending request | retry, abandon | offers what the backend waits for |
| frontend `websocket.ts`, `useWorkflowStream.ts` | rows shown, timers, fetches | reconnect with backoff, accumulate, refetch the graph | shows each row once, and the latest graph |
| `agents/workflow_planner.py` | none | validate the LLM's plan, fall back to default edges | always returns an acyclic plan with the base service |
| rag, `llm_client`, auth, Firestore and Pub/Sub stubs, pages | - | - | not modelled, see below |

How they interact: `start_user_goal_async` publishes USER_REQUEST_CREATED; then
GoalInterpreter, Regulation and WorkflowPlanner hand on, the planner calls the
engine, whose WORKFLOW_CREATED runs Eligibility *inside* the creation; the
engine claims the ready steps and publishes NEXT_ACTION_TRIGGERED; Document,
DepartmentRouter, Application and StatusMonitor hand each step on, the first
three after a look at the gate; StatusMonitor starts one polling task per
application, whose verdicts make the engine complete or block the step. A user's
POST publishes WORKFLOW_RESUMED. The WebSocket manager hears every event.

Hard behaviours: status recomputed after an await; a gate that closes between
the claim of a step and its submission; sibling polls that finish in any order;
resumes for steps in any state; polls that fail or run out; a write that raises
between two effects of a handler, which is then run again; a restart; failures
of failure handlers, inside a `gather` inside a `gather`; cursors shared by
several sockets; sockets that are lost and opened again. `PROJECT.json` ("hazards") lists them by line, with
the properties that cover each one, or why none does yet.

## Modules

* `Dag` - `IsDag`, what the constructor of WorkflowGraph accepts.
* `Planner` - `_build_validated_steps` and `_has_cycle`: from the answer of the
  LLM to the plan. `stack` is the chain of recursive `visit` calls, `color` is
  the code's; one action per call, return, cycle found and end of the search.
  `PlannerProofs` - theorems about it.
* `WorkflowGraph` - the DAG as constants (`Steps`, `DependsOn`, `Position`) and
  the operators of the class on the map from step to status. `ValidDag` is the
  assumption that `Planner` discharges. `Position` is the order of the dict, which only
  matters where the code takes the first element.
* `WorkflowEngine` - one action per lifecycle operation. `graph` and `hasGraph`
  are `_graphs`, `workflow` is the row, `creating` says that
  `_create_workflow_with_steps` is at its await. An operation changes graph and
  row before its first await, so it is one action; what it publishes afterwards
  is an operator (`CompleteStepEvent`, ...). `Next` lets anybody call any
  operation at any time, and the process restart.
* `WorkflowEngineProofs` - theorems about the engine.
* `GovFlowProofs`, `GovFlowFaultsProofs` - theorems about the whole backend, and
  about failed writes and restarts of it.
* `GovFlow` - extends the engine with the agents, the polling tasks, the
  government and the user. `publish` waits for its handlers and at most one of
  them changes workflow state, so every cascade is a sequential thread: the
  root (the goal), one per polled application, one per resume. A thread is a
  frame (`chain[t]`): which handler runs next, about which step, the ready steps
  of DocumentAgent's event (`Todo` is what its loop has left) and how often it
  has failed. `Failing` says which calls may raise: the LLM, `validate_document`,
  a submission, a poll. `with_retry` is part of the handlers' actions: a handler
  that fails before its first effect only shows when it gives up
  (`AgentGivesUp`, the second disjunct of `ApplicationAgent`); DocumentAgent,
  which has had whole cascades by then, starts again (`Repeated`).
* `GovFlowFaults` - extends GovFlow with writes that raise and with restarts of
  the process. A handler consists of effects on memory, on the government and on
  the database; an action here is an attempt of it that is cut off by a failed
  write: what comes before the write stays, the thread stays where it is, and
  the handler runs again (`DocumentsRepeated`, `SubmissionRepeated`,
  `HandlerRepeated`, `EligibilityRepeated`), or the polling task, which nobody
  repeats, dies (`PollingDies`). The planner fails at the event of the creation,
  at the claim of the first steps, or with its own audit entry after their whole
  cascade (`CreationFails`, `FirstClaimLost`, `AuditFails`); each of its further
  attempts is a step of its own (`PlannerRepeated`), after a sleep in which polls
  and requests go on, and replaces the graph before it fails on the existing row.
  A restart ends all threads and loses the graph.
* `StepLifecycle` - what the backend promises about a step seen from outside;
  `GovFlow` implements it (`StepPhase` is the refinement mapping).
* `RateLimiter` - `ToolRateLimiter.check` for any set of keys, with a clock. The
  list is the set of the numbers of the calls on it; `admitted` is a history.
  `RateLimiterProofs` - theorems about it.
* `EventBus` - extends RateLimiter with `InProcessEventBus`, `with_retry`,
  `Agent.run` and three agents, task by task: what GovFlow takes for granted
  (a publish returns when its cascade is over) and what it leaves out (the
  rows of AuditAgent and NotificationAgent, the statuses of the agents, the
  failure events and their own failures, both rate limits). An event is named by
  the path of handlers that led to it, so `Child(e, h)` is what handler `h` of
  event `e` published. `EventBusProofs` - theorems about it; one is that the bus
  implements the limiter.
* `ConnectionManager` - one workflow's WebSocket endpoint. A task that holds the
  lock sends events, audits and the status in three phases, one action each: what
  a phase sends is read before its first send, and the cursors are only touched
  under the lock. The status of the row changes with an event, or in a handler of
  the event that runs before its on_event (`RowWritten`: `main.py:92-98` subscribes
  on_event last). A read of a repository may raise (`ReadsFail`): a snapshot then
  leaves its socket open without the rest (`SnapshotFails`), a callback is over
  with its cursors unmoved (`OnEventFails`), and `missed` remembers that the
  next one has to catch up. `ConnectionManagerProofs` - theorems about it.
* `ActivityStream` - extends ConnectionManager with the browser: `WorkflowSocket`
  (open, onclose, the reconnect timer, disconnect) and the rows that
  `useWorkflowStream` shows, a function of what the tab's sockets have received.
  `ActivityStreamProofs` - theorems about it.
* `MCWorkflowEngine`, `MCGovFlow`, `MCGovFlowFaults`, `MCEventBus`, `MCPlanner`,
  `MCActivityStream` - plans, limits, catalogs and symmetry for the runs.

Operators whose comment starts with "Error:" are plausible mistakes; nothing
uses them. Substituted for the definition that follows they break the property
`PROJECT.json` ("mutants") names.

## Runs

Passing:

| Run | Question | Instance |
|---|---|---|
| `engine` | invariants of graph and row under any calls | the default diamond of four services, restarts |
| `planner` | is the cycle search right, and does it end? | every answer about 3 services and an unknown name |
| `reviewer` | is anything done twice? does the whole implement `StepLifecycle`? | four services, 2 polls per application, LLM calls, polls and submissions that fail, three scenarios, both document findings, 2 requests |
| `api` | what survives a user who resumes anything at any time, handlers repeated half way, and a restart | 2 dependent services, LLM calls and document checks that fail, three scenarios, both document findings, 2 requests about any step or none, 2 attempts per handler, 1 restart |
| `faults` | what a failed write does, and liveness without it | 2 services in a row, LLM calls that fail, 2 polls, three scenarios, 2 requests, 1 failed write, 3 attempts per handler |
| `bus` | retries, failure events and both limits: does every publish return, what is lost or repeated? | 2 goals, 2 submissions, 2 attempts, 2 failed writes, 1 call per window of 1 tick, 2 ticks |
| `stream` | delivery to sockets, and what a page that reconnects shows | 1 page and another socket, or the page's second one; 2 events, 1 audit entry, 2 statuses, 3 rows, reads that fail; symmetric in the sockets and the statuses |

Violations, each a finding in `PROJECT.json`:

| Run | What it shows |
|---|---|
| `ineligible` | the eligibility gate is overwritten when the creation goes on: an ineligible applicant's application is submitted |
| `banner` | with nothing but the banner's buttons a user takes back an approval |
| `repeated` | one failed document check makes DocumentAgent submit a step twice |
| `flaky` | one failed write in `complete_step`, although retried with success, leaves the claimed step and the workflow RUNNING for ever, without a WORKFLOW_FAILED |
| `two_tabs` | a second tab's snapshot makes the first one miss an event |

Why the bounds are enough. Each step is submitted once per claim and once per
retry, so two requests are enough for a retry that races with another verdict, for
two retries of one step, and for a retry of each of two blocked steps. Two polls
are the least with which a verdict comes after a PENDING or an error. The diamond has a fork and a
join, which is all the default edges ever give. Two sockets are one whose
snapshot moves the cursor and one who suffers; they are also a page's first
socket and the one after the reconnect, and with three rows the replay of two
events overflows the cap. One audit entry is enough to be sent twice; that several are in order is
left to the theorem `NothingSentTwice`. One failed write comes before, between or
after all other effects of any handler, `MaxFaults < MaxAttempts` means that no
handler but the planner gives up for it alone, and three attempts leave the
planner two that replace the graph, with polls or a request in between. A restart
is checked without failed writes; the theorems `NothingAfterARestart` and
`NothingSubmittedEarlyDespiteFaults` have any number of both. On a line of steps
DocumentAgent has one step at a time, so that `DocumentsRepeated` after an earlier
step of the loop is in the theorems only (with a check that raises it is the run
`repeated`). The bus, where giving up is the subject, has as
many failed writes as attempts, so that a handler can use them all up or the
failure event can be what fails. A clock of two ticks and a window of one have a
call at the very edge of the window and one past it.

The verdicts of a workflow's applications are chosen independently, which the
`GovernmentAPIClient` protocol allows. The mock client infers the scenario from
the same name for all of them; `banner` needs two different
verdicts, the other violations do not. `ineligible`, `banner` and `repeated` are
found with `Prompt = TRUE`: every cascade ends before the next poll or
request, so none of them needs a narrow race.

`User` says who resumes: `reviewer` only sends what the gate asks for (a blocked
step that no unhandled request is about, or the workflow's own gate), `banner` is
the React component, `api` sends anything. The properties that say "if retries are
only sent for blocked steps" are checked with `reviewer`; `banner` shows that
the product's own UI does not keep to it. After a restart the reviewer, too,
may ask for anything that is gated, as nobody knows the blocked steps any more.

Deadlock is checked for the engine, which can always take a step. It is off in
the other runs: a workflow that is complete, or waits for a user who has no
request left, and a stream without further events, really stop.

## Fairness

`FairFaultSpec` (GovFlowFaults): weak fairness of the steps of all threads
together (`BackendStep`). The event loop does not stop while a task is ready or
asleep: a handler runs to its next await, `asyncio.sleep` ends, and the
government answers or raises on every poll, so a poll is always a step. That is
less than fairness to each task, and enough, since every task makes finitely many
steps. `BusFairSpec` (EventBus): weak fairness of the
tasks of the bus taken together, which is enough because each step uses up some
task's work. `FairSpec` (Planner): the search goes on. The user, the clock,
failures, the further attempts of a planner that has failed and restarts get no
fairness, and the stream has no liveness
property.

`UndisturbedSettles` and `UndisturbedCompletes` say what happens when no write
fails, nothing restarts and the eligibility gate stays open, which is what the
word `Undisturbed` means: the runs `ineligible` and `flaky` show what becomes of
a workflow otherwise. They are checked on a plan without parallel steps. With
siblings the settling fails: DocumentAgent (`document.py:35`) drops steps that
`complete_step` has claimed when a rejection of a sibling has closed the gate, and
such a step stays RUNNING, without a worker. It also fails when a submission or a
document check raises at every attempt: `_on_workflow_failed` (`engine.py:500`)
only logs, and nobody calls `fail_step`, which `engine.py:267-270` reserves for
that case. `MaxPolls` in these runs is large enough for a verdict; with rate
limited polls a step is abandoned without any event (`status_monitor.py:139`).

## Proofs

`PlannerProofs` proves, for every finite catalog with acyclic default
dependencies (`PlannerAssumption`) and every answer of the LLM, that the accepted
plan is a DAG (`AcceptedPlansAreDags`, which is the engine's `ValidDag`), that only
cyclic answers are replaced (`OnlyCyclesFallBack`) and that the fallback never
raises (`FallbackNeverRaises`). The inductive invariant `IInv` says that BLACK
steps depend on BLACK steps only and have no cycle among them, which gives the
first; and that the stack is an injective path of dependencies holding exactly
the GRAY steps, so that a GRAY dependency of the top closes a cycle
(`GrayClosesCycle`), which gives the second. `DefaultIsDag` gives the third.

`WorkflowEngineProofs` proves, for every finite plan that the constructor
accepts (`GraphAssumption`) and every sequence of operations and restarts:

* `EngineCorrect`: `Spec => []EngineInvariant`, the inductive invariant;
* its parts `EngineTypeCorrect` (TypeOK), `RowAlwaysMirrorsGraph`,
  `NothingLeftReady`, `FinalStatusIsRight`, `NoCurrentStepIsIdle`;
* `StepsStartInOrder`: the action property StartsInDependencyOrder.

The argument. The five invariants are inductive only together:
`NothingReadyUnclaimed` needs the graph well typed, and BlockStep keeps
`current_step` as it was, so that "no current step means idle" needs the
previous row to have said the truth about the previous graph. The lemmas say what
the graph operators do: a claim leaves nothing ready, because it completes no step
(`ClaimLeavesNothingReady`); marking a step anything but COMPLETED or PENDING
makes nothing ready; a synchronised row agrees with its graph. Each has one
step per action.

`RateLimiterProofs` proves, for every set of keys, limit, window and clock, that
no window holds more admitted calls than the limit (`WindowNeverOverLimit`).
The property speaks of the admitted calls and check() of its list, so the
invariant adds that nothing recent is forgotten (`NothingRecentForgotten`) and that
times are in order; then, if the call `Limit` before the new one were still in
the window, all calls since would be, and they are `Limit` many
(`FirstOfLimitHasLeft`). The file calls itself a "fixed-window" counter; what is
proved is the stronger promise of a sliding one.

### The bus

`EventBusProofs` proves, for any number of goals, ready events, failed writes
and attempts:

* `BusImplementsLimiter`: with all its retries, failures and refusals the bus
  touches the limiter only through check(), with a workflow or the client as the
  key; hence `BusNeverOverLimit`;
* `ReturnsAfterItsCascade` (OverMeansSettled): a publish returns when all it has
  caused is over. GovFlow's threads rest on this;
* `AuditTrailComplete`, `ShownRunningIsRunning`, `BusTypeCorrect`, and the
  action property `RefusalsAreDue`.

The inductive invariant, `BusInvariant`, is mostly about names: an event that is
not the n-th ready one is named by a published event and the handler that
published it, and a task that is still due finds its name free
(`ChildrenNamed`). So a new event starts with tasks that are due, and nothing
that is over can get a new child. `RowOrReason` follows the audit task from its
first attempt to its failure event: a task that is due has failed at most as
often as writes have.

`RepetitionsArePaidFor` (RepetitionsPaidFor) is a counting argument. The
repetitions of all events are the members of one set (`Repetitions`), not a sum,
so that a step changes it by members and the theorems about finite sets apply.
That alone is not inductive: a notification that is stored and then not audited
is no repetition yet, but the retry will make it one. `Account` therefore counts every
row of a notification task that is still due, and a step adds at most one member
to the account, and only if it uses up a failed write (`StepCharges`).

### The backend

`GovFlowProofs` is about `SystemSpec`: every plan, number of polls, attempts and
requests, every subset of the calls that may fail, races of any kind, and any
user unless a theorem says otherwise. It first shows that every step is one of
eight kinds by what it does to its thread (`SystemHops`: a root hop, a quiet
one, a submission, the start of a polling task, a poll, a claim, a halt, a
request), so that each invariant is checked against eight kinds and not against
twenty actions. `SystemBase` is the part of the invariant all others use: the
engine's types, a shape for each event's frame, that each thread only
handles events of its role, and that a polling task asks about the application
it was started for, which is not approved yet. It says nothing of row and graph
agreeing, so that it also holds when a write fails between the two; that part,
the engine's invariant and a graph for every row, is `EngineKept`.

* `SystemCorrect`, `SystemDrivesTheEngine`: `SystemBase` and `EngineKept` are
  invariant, and the system implements WorkflowEngine's `Spec`: only the engine's
  operations change graph and row.
* `ApprovalsCorrect`, with `NothingSubmittedEarly` (PrerequisitesApproved) and
  `CompletionIsApproved`. The induction needs `Grounded`: whatever list a thread
  has left to work through, its steps had their prerequisites approved when the
  list was made, and approvals are never taken back, even where completions are.
* `ReviewCorrect`, with `OneWorkerEach`, `ApprovalsAreFinal`, `CompletesOnce`.
  The claim of a step is in its status: who works on a step has it RUNNING, a
  request is about a BLOCKED one and is the only one (`Reviewed`), and an
  operation hands out just what it turns from PENDING to RUNNING.
* `LedgerCorrect`, with `SubmissionsPaid` (SubmissionsAuthorised). Submissions
  are paid with tokens (`Balances`): a pending step has `Attempts` of them on
  the shelf, a claim moves them to the thread, a request to retry brings new
  ones, and a submission or a failed attempt of DocumentAgent uses one up for
  each step concerned. For every set of steps the applications and the tokens
  together do not exceed what the claims and retries brought in. It is stated
  for sets and not for single steps because its second use is the set of all
  steps. The number of failed writes is a parameter (`Allowance(S, failed)`), 0
  here.
* `SystemTypesCorrect` (SystemTypeOK) comes last, not first: that there are no
  more applications than `MaxApplications` follows from the ledger, and the
  bound on completions from each being the work of one polling task, done once.
* `LifecycleCorrect` and `BackendImplementsLifecycle` (ImplementsLifecycle), the
  refinement of `StepLifecycle`. It needs the review invariant, the ledger and
  two more facts: a step that has left PENDING has its prerequisites completed
  (`StartedInOrder`), so that a retry starts it at once, and a polling task that
  goes on to work on other steps has left its own step completed (`Tracked`).

The review and lifecycle theorems have two hypotheses, both about constants:
`User = "reviewer"`, who only acts on blocked steps or the workflow's own gate,
and `"validate" \notin Failing`, no document check raises. The code presupposes
both and enforces neither: the banner takes every gated status to come from
block_step or block_workflow (`HumanInTheLoopBanner.tsx:18-23`), and
`with_retry` runs a handler again from its first line, as if nothing had been
done. The runs `banner` and `repeated` show an approval taken back by the
banner's user and a step submitted twice by a repeated loop. The approval and
ledger theorems need neither hypothesis.

`GovFlowFaultsProofs` is about `FaultSpec`, for any number of restarts and of
failed writes (fewer than the attempts of a handler, `FaultAssumption`):

* `RestartCorrect` and the action property `NothingAfterARestart`
  (GraphlessIsFrozen): after a restart there is no graph, and only threads of
  requests, which look for it first (`FrozenInvariant`).
* `FaultLedgerCorrect`, with `SubmissionsPaidDespiteFaults` and
  `EverySubmissionIsPaidFor` (EverySubmissionPaidFor). A failed write of the
  planner ends its attempt; one of anybody else is one of four kinds of steps
  (`FaultHops`): a handler starts again with what it had claimed or less, or
  repeats its loop, a submission is repeated, a poll ends its task. `SystemBase`
  survives each of them, and so does the ledger when each brings the credit of
  one more claim of each step (`FaultLedger`). The dearest case is an attempt of
  the planner that replaces the graph: it puts all steps back on the shelf, those
  included that a polling task or a request is at work on. So a planner that has
  failed once is charged for each of its further attempts, and not for the write
  (`Redone`). After a restart the balance is not kept, only the bound on the
  submissions, since nobody takes a step from the shelf again.
  `SubmissionsPaidDespiteFaults` has no hypothesis and the factor `Attempts`;
  the property, without the factor, needs `"validate" \notin Failing`.
* `FaultTypesCorrect` (SystemTypeOK), from the ledger, as in `GovFlowProofs`.
* `NothingSubmittedEarlyDespiteFaults` (PrerequisitesApproved), for any user.
  What a failed write loses or repeats is never an approval (`FaultCompletes`,
  `NoThreadGains`), and a graph that is all PENDING again makes steps wait for
  prerequisites that were approved, which only delays them. It carries the part
  `ApprovalBase` of the invariant of `ApprovalsCorrect` that speaks of
  steps and applications only; the other, that a COMPLETED *row* has an
  approval for each step, is not claimed here.
* `EveryOrphanIsPaidFor` (OrphansPaidFor): the threads about to start a polling
  task and the failed writes together are at least as many as the applications without
  one (`OrphansFiled`).
* `OnlyFaultsStrand` (StrandedByFaultOnly), for every plan that is a line
  (`IsLine`), any `MaxPolls > 1`, a careful user and no failing call but the LLM's.
  On a line at most one step is RUNNING and no thread drops it:
  DocumentAgent drops what it was given only if the gate is closed, the gate is about a
  blocked step (`GateOnStep`), and while one step is blocked no other can be
  RUNNING; a poll that is not answered yet is followed by another, because the
  government answers at the second (`Pressing`). Together with the invariant of the
  lifecycle this is `AttendedInvariant`, which is claimed only as long as no
  write has failed and nothing restarted. `IsLine` is part of the property and not
  an assumption because it is false with siblings (see Fairness).

### The stream

`ConnectionManagerProofs` proves, for any number of sockets, events and audit
entries, `StreamCorrect` with `NothingSentTwice` (NothingTwice) and
`LatestTabIsUpToDate`. `StreamInvariant` relates the shared cursors to what each
socket has: nobody is ahead of them and everybody's entries are in order
(`BehindCursors`); the socket of the latest snapshot is exactly at them
(`NewestAtCursors`); and if they lag behind the lists, a callback that will
catch up is still to come (`BehindMeansComing`), unless a read of the last one
raised (`missed`). All of it needs that whoever
sends holds the lock (`SenderHoldsLock`). `ActivityStreamProofs` shows that the
stream with browsers implements ConnectionManager (`StreamImplementsManager`),
so both theorems carry over (`TabsSentNothingTwice`), and that a tab has at most
one connected socket or timer (`OneSocketOrTimer`), since only the last socket a
tab opened can be active (`OnlyLastActive`).

The rows of a tab are a fold over what its sockets were sent (`FlattenSeq`). The
library's induction theorems take operators, which the provers cannot
instantiate; `NatInduct` proves induction for a *set* of numbers from the least
element of its complement (`WFMin`), which is enough: `FlattenUnfolds` shows
that the recursive function exists and satisfies its equation, and
`FlattenFacts` that the fold ends with its last part and has a row at most once for each
part that has it once. With `CapEndsWith` and `CapPlaces` for capPush, the first
and `LatestTabIsUpToDate` give `FeedEndsRight` (FeedEndsWithHistory), the second
and `TabsSentNothingTwice` give `RepeatedOnlyByReconnect`
(RowsRepeatedOnlyByReconnect). The status shown needs that nobody was told one
before there was a row (`NoRowNoStatus`).

### What the proofs assume, and what is only model-checked

The proofs assume nothing but the ASSUMEs on the constants, which every run
evaluates, and the hypotheses on `User`, `Failing` and `MaxPolls` named above,
which the runs that check the property satisfy.

Every invariant and action property of the passing runs is the statement of a
theorem. Only model-checked:

* liveness (`UndisturbedSettles`, `UndisturbedCompletes`, `Decides`,
  `EventuallyQuiet`): fairness and ENABLED are beyond the prover;
* the five violations, which are counterexamples.

## Texts and code

Where a text of the repository and the code differ, and no run is needed to see it:

* `events/bus.py:48-49` says that publish() does not block on handlers; it gathers
  them, and `OverMeansSettled` holds because of it.
* `agents/base.py:53-55` says an agent's status reflects real activity. With two
  goals at once an agent is shown idle while it works on the second
  (`StatusReflectsActivity`, which no run checks; the other direction is
  `RunningIsReal`).
* The docstring of `api/websocket.py` (lines 20-24) has every change of status
  followed by another event. When the last running step is approved while a
  sibling is blocked, `complete_step` (`engine.py:246-263`) writes BLOCKED and
  publishes nothing. Open tabs learn it all the same, and without the delay of
  which lines 16-19 warn: on_event is subscribed last (`main.py:92-98`), so that
  the engine has written the row before on_event of the same APPLICATION_APPROVED
  runs (`RowWritten`).
* `engine.py:267` has fail_step fail "a step and the workflow" permanently. The
  step stays FAILED; the row does not, when a sibling is rejected (`block_step`) or
  retried (`resume_step` forces RUNNING), until the next approval.
* `engine.py:267-270` reserves fail_step for exhausted retries; only the user's
  "abandon" calls it.

## Not modelled

* Text retrieval, the LLM client, the API key check and prompt hygiene: stateless
  or external. Their results are free choices of the models.
* Firestore and Pub/Sub: stubs that raise.
* The read routes and the pages: they change nothing.
* In the stream, the graph fetches of the hook, which may answer in the other
  order (the status shown comes from the socket and is in `Shown`), and the length of
  the backoff; a handler whose first write of the row raised and whose retry
  writes it, seconds after its event's on_event, with no event to follow.
* In the faults, a first write that fails before the row exists: `create` then
  leaves a graph without a row until the retry replaces it, which nobody can
  see. Failed writes of agents before any other effect only delay the handler.
  The planner's further attempts may ask the LLM for another plan; the constants
  `Steps` and `DependsOn` stay the same. With another plan, verdicts and requests
  that come after it would be handled on the other plan's graph, and raise for
  steps it does not have.
  More failed writes than attempts are in `EventBus`, not in `GovFlowFaults`.
* Several workflows share the event loop, the bus, the agents' statuses and the
  limiter of the client, which `EventBus` has twice; nothing else, so the other
  modules have one workflow.

## Plan

1. The graph fetches of `useWorkflowStream`, if the hook starts to order them.
2. If the claim of a step by a sibling's approval is kept for a closed gate
   (`document.py:35`), `IsLine` can be dropped from `StrandedByFaultOnly`:
   `AttendedInvariant` uses it only in that no two steps are worked on at once.
