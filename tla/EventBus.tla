------------------------------ MODULE EventBus ------------------------------
(***************************************************************************)
(* InProcessEventBus, with_retry and the agent base class, with three       *)
(* agents that show what they do: ApplicationAgent, which calls a limited   *)
(* tool, writes to the database and publishes an event of its own,          *)
(* NotificationAgent and the bus-wide AuditAgent.                           *)
(*                                                                          *)
(* publish() creates a task per handler and waits for all of them.  A task  *)
(* runs the handler through with_retry: an attempt that raises is followed, *)
(* after a sleep, by another from the first line; after the last one        *)
(* WORKFLOW_FAILED is appended and published, and the task waits for that   *)
(* too.  What a task does between two awaits is one action.                 *)
(*                                                                          *)
(* A database write may raise at any time, MaxFaults times in all.  The     *)
(* chain of agents between a goal and APPLICATION_READY is GovFlow's; here  *)
(* its last publish stands for it.  Handlers that only log, or only start a *)
(* task (StatusMonitorAgent), are left out.                                 *)
(***************************************************************************)
EXTENDS RateLimiter, Integers

CONSTANTS
  Workflows,
  Client,         \* the limiter's key of the client that posts the goals
  MaxAttempts,    \* max_attempts of with_retry
  MaxReady,       \* bound: APPLICATION_READY events
  MaxFaults       \* bound: database writes that raise

ASSUME BusAssumption ==
  /\ Keys = Workflows \cup {Client} /\ Client \notin Workflows
  /\ MaxAttempts \in Nat \ {0}
  /\ MaxReady \in Nat /\ MaxFaults \in Nat

VARIABLES
  accepted,     \* the workflows whose goal was accepted
  events,       \* the bus's history, each event under its name
  tasks,        \* for each event, the task of each of its handlers
  effects,      \* for each event, what its handlers have left behind
  running,      \* the agents the registry shows as running, not idle or error
  faults        \* database writes that have raised

busVars == <<accepted, events, tasks, effects, running, faults>>
vars == <<limiterVars, busVars>>

Agents == {"ApplicationAgent", "NotificationAgent", "AuditAgent"}

\* The registry wired to the bus: handlers of the type, and the wildcard.
Subscribers(type) ==
  {"AuditAgent"} \cup
    IF type = "APPLICATION_READY" THEN {"ApplicationAgent"}
    ELSE {"NotificationAgent"}

\* An event is named by its publisher: <<n>> is the n-th APPLICATION_READY, and
\* e \o <<h>> what the task of handler h for event e has published, which is
\* one event at most.
Event(type, w) == [type |-> type, workflow |-> w]
Child(e, h) == Append(e, h)

NewTask == [at |-> "due", tries |-> 0]
NoEffect == [filed |-> 0, notified |-> 0, audited |-> 0]

Published == DOMAIN events
Settled(e) == \A h \in DOMAIN tasks[e] : tasks[e][h].at = "over"

BusTypeOK ==
  /\ LimiterTypeOK
  /\ accepted \subseteq Workflows
  /\ events \in
       [Published -> [type : {"APPLICATION_READY", "APPLICATION_SUBMITTED",
                              "WORKFLOW_FAILED"},
                      workflow : Workflows]]
  /\ DOMAIN tasks = Published /\ DOMAIN effects = Published
  /\ \A e \in Published :
       tasks[e] \in [Subscribers(events[e].type) ->
                       [at : {"due", "publishing", "announcing", "over"},
                        tries : 0..MaxAttempts]]
  /\ running \subseteq Agents
  /\ faults \in 0..MaxFaults

BusInit ==
  /\ LimiterInit
  /\ accepted = {}
  /\ events = << >> /\ tasks = << >> /\ effects = << >>
  /\ running = {}
  /\ faults = 0

----------------------------------------------------------------------------
(* publish *)

Extended(f, e, value) ==
  [d \in DOMAIN f \cup {e} |-> IF d = e THEN value ELSE f[d]]

\* ts and fx: the tasks and effects, with the publisher's own step taken.
Publish(e, event, ts, fx) ==
  /\ events' = Extended(events, e, event)
  /\ tasks' = Extended(ts, e, [h \in Subscribers(event.type) |-> NewTask])
  /\ effects' = Extended(fx, e, NoEffect)

Becomes(e, h, at) == [tasks EXCEPT ![e][h].at = at]

\* update_status: idle after the handler, error if it raised.
ShownIdle(h) == running' = running \ {h}
ShownRunning(h) == running' = running \cup {h}

\* Error: the handlers are started, and nobody waits for them.
PublishDoesNotWait(e, h) ==
  /\ \/ /\ tasks[e][h].at = "publishing"
        /\ ShownIdle(h)
     \/ tasks[e][h].at = "announcing" /\ UNCHANGED running
  /\ tasks' = Becomes(e, h, "over")
  /\ UNCHANGED <<limiterVars, accepted, events, effects, faults>>

\* Error: the agent is not set to idle after its handler.
PublishReturnsRunning(e, h) ==
  /\ tasks[e][h].at \in {"publishing", "announcing"}
  /\ Settled(Child(e, h))
  /\ tasks' = Becomes(e, h, "over")
  /\ UNCHANGED <<limiterVars, accepted, events, effects, running, faults>>

\* gather returns: the event's publisher goes on.  A handler that has
\* published is done then, and so is one whose failure was announced.
PublishReturns(e, h) ==
  /\ \/ /\ tasks[e][h].at = "publishing"
        /\ ShownIdle(h)
     \/ tasks[e][h].at = "announcing" /\ UNCHANGED running
  /\ Settled(Child(e, h))
  /\ tasks' = Becomes(e, h, "over")
  /\ UNCHANGED <<limiterVars, accepted, events, effects, faults>>

----------------------------------------------------------------------------
(* with_retry, Agent.run *)

Failure(e) == Event("WORKFLOW_FAILED", events[e].workflow)

Attempted(e, h, at) ==
  [tasks EXCEPT ![e][h] = [at |-> at, tries |-> @.tries + 1]]

\* Error: an attempt that raised is not counted.
RaisesUncounted(e, h, n, fx) ==
  /\ ShownIdle(h)
  /\ faults' = faults + n /\ faults' <= MaxFaults
  /\ effects' = fx
  /\ UNCHANGED <<events, tasks>>

\* Error: one attempt too many.
RaisesOnceMore(e, h, n, fx) ==
  /\ ShownIdle(h)
  /\ faults' = faults + n /\ faults' <= MaxFaults
  /\ IF tasks[e][h].tries < MaxAttempts
     THEN tasks' = Attempted(e, h, "due") /\ effects' = fx /\ UNCHANGED events
     ELSE Publish(Child(e, h), Failure(e), Attempted(e, h, "announcing"), fx)

\* Error: the last failure is not announced.
RaisesSilently(e, h, n, fx) ==
  /\ ShownIdle(h)
  /\ faults' = faults + n /\ faults' <= MaxFaults
  /\ tasks' = Attempted(e, h, IF tasks[e][h].tries + 1 < MaxAttempts
                              THEN "due" ELSE "over")
  /\ effects' = fx
  /\ UNCHANGED events

\* An attempt has raised, after n failed writes, and has left fx behind.  The
\* task sleeps and tries again; after the last attempt it publishes the
\* failure, if that can be appended, and otherwise the bus only logs the
\* exception.
Raises(e, h, n, fx) ==
  LET last == tasks[e][h].tries + 1 = MaxAttempts
  IN  /\ ShownIdle(h)
      /\ \/ /\ ~last
            /\ faults' = faults + n
            /\ tasks' = Attempted(e, h, "due")
            /\ effects' = fx
            /\ UNCHANGED events
         \/ /\ last
            /\ faults' = faults + n
            /\ Publish(Child(e, h), Failure(e),
                       Attempted(e, h, "announcing"), fx)
         \/ /\ last
            /\ faults' = faults + n + 1
            /\ tasks' = Attempted(e, h, "over")
            /\ effects' = fx
            /\ UNCHANGED events
      /\ faults' <= MaxFaults

\* An attempt of a handler that publishes nothing has returned.
Succeeds(e, h, fx) ==
  /\ ShownIdle(h)
  /\ tasks' = Becomes(e, h, "over")
  /\ effects' = fx
  /\ UNCHANGED <<events, faults>>

Attempts(e, h) == h \in DOMAIN tasks[e] /\ tasks[e][h].at = "due"

----------------------------------------------------------------------------
(* The agents *)

\* The rows in the tables of the audit trail and of the notifications, and the
\* records of the government.
Audited(e) == [effects EXCEPT ![e].audited = @ + 1]
Notified(e) == [effects EXCEPT ![e].notified = @ + 1]
Filed(e) == [effects EXCEPT ![e].filed = @ + 1]

\* One row for the event.
AuditAgent(e) ==
  /\ Attempts(e, "AuditAgent")
  /\ \/ Succeeds(e, "AuditAgent", Audited(e))
     \/ Raises(e, "AuditAgent", 1, effects)
  /\ UNCHANGED <<limiterVars, accepted>>

\* The notification is stored, and then its audit entry; either may raise.
NotificationAgent(e) ==
  /\ Attempts(e, "NotificationAgent")
  /\ \/ Succeeds(e, "NotificationAgent", Notified(e))
     \/ Raises(e, "NotificationAgent", 1, effects)
     \/ Raises(e, "NotificationAgent", 1, Notified(e))
  /\ UNCHANGED <<limiterVars, accepted>>

\* The APPLICATION_SUBMITTED of ApplicationAgent, which waits for its handlers.
PublishSubmitted(e) ==
  /\ ShownRunning("ApplicationAgent")
  /\ Publish(Child(e, "ApplicationAgent"),
             Event("APPLICATION_SUBMITTED", events[e].workflow),
             Becomes(e, "ApplicationAgent", "publishing"), Filed(e))
  /\ UNCHANGED faults

\* Error: the budget is checked after the call.
SubmitThenCheck(e) ==
  /\ Attempts(e, "ApplicationAgent")
  /\ \/ /\ Refuse(events[e].workflow)
        /\ Raises(e, "ApplicationAgent", 0, Filed(e))
     \/ /\ Admit(events[e].workflow)
        /\ PublishSubmitted(e)
  /\ UNCHANGED accepted

\* invoke_tool checks the budget before it does anything else.
ToolRefused(e) ==
  /\ Refuse(events[e].workflow)
  /\ Raises(e, "ApplicationAgent", 0, effects)

\* Or the government files the application; then the row, the audit entry and
\* the event are written, each of which may raise; and the event is published.
ApplicationAgent(e) ==
  /\ Attempts(e, "ApplicationAgent")
  /\ \/ ToolRefused(e)
     \/ /\ Admit(events[e].workflow)
        /\ \/ Raises(e, "ApplicationAgent", 1, Filed(e))
           \/ PublishSubmitted(e)
  /\ UNCHANGED accepted

----------------------------------------------------------------------------
(* Outside *)

ReadyEvents == {e \in Published : events[e].type = "APPLICATION_READY"}

Ready(w) ==
  /\ Cardinality(ReadyEvents) < MaxReady
  /\ Publish(<<Cardinality(ReadyEvents) + 1>>, Event("APPLICATION_READY", w),
             tasks, effects)
  /\ UNCHANGED <<running, faults>>

\* enforce_rate_limit answers 429 before the route is reached.
TooManyRequests ==
  /\ accepted # Workflows
  /\ Refuse(Client)
  /\ UNCHANGED busVars

\* POST /api/workflows starts a background task with the goal's cascade.
CreateWorkflow(w) ==
  /\ w \notin accepted
  /\ Admit(Client)
  /\ accepted' = accepted \cup {w}
  /\ Ready(w)

\* Another step of the workflow is ready, perhaps while the first is worked
\* on: DocumentAgent's loop, an approval, a request of the user.
NextStep(w) ==
  /\ w \in accepted
  /\ Ready(w)
  /\ UNCHANGED <<limiterVars, accepted>>

Passes == Tick /\ UNCHANGED busVars

----------------------------------------------------------------------------

Step(e, h) ==
  \/ h = "AuditAgent" /\ AuditAgent(e)
  \/ h = "NotificationAgent" /\ NotificationAgent(e)
  \/ h = "ApplicationAgent" /\ ApplicationAgent(e)
  \/ h \in DOMAIN tasks[e] /\ PublishReturns(e, h)

BusNext ==
  \/ Passes \/ TooManyRequests
  \/ \E w \in Workflows : CreateWorkflow(w) \/ NextStep(w)
  \/ \E e \in Published, h \in Agents : Step(e, h)

BusSpec == BusInit /\ [][BusNext]_vars

\* The event loop runs some task that can go on, and a sleep ends.
Fairness == WF_vars(\E e \in Published, h \in Agents : Step(e, h))

BusFairSpec == BusSpec /\ Fairness

----------------------------------------------------------------------------
(* Properties *)

\* When a task is over, so is everything that was published on its behalf,
\* failures and their handlers included: the cascade behind publish() is over
\* when publish() returns.  GovFlow's threads rest on this.
OverMeansSettled ==
  \A e \in Published : \A h \in DOMAIN tasks[e] :
    tasks[e][h].at = "over" /\ Child(e, h) \in Published =>
      Settled(Child(e, h))

Has(e, h, type) ==
  Child(e, h) \in Published /\ events[Child(e, h)].type = type

\* AuditAgent "guarantees the audit trail is complete": when publish() of an
\* event returns there is one bus-wide row about it, never two; or a
\* WORKFLOW_FAILED says that there is none; or more writes have raised than
\* the attempts of one handler.
AuditedOrAnnounced ==
  \A e \in Published :
    /\ effects[e].audited <= 1
    /\ Settled(e) =>
         \/ effects[e].audited = 1
         \/ Has(e, "AuditAgent", "WORKFLOW_FAILED")
         \/ faults > MaxAttempts

\* What an agent did and could not record.  Every application the government
\* has that no APPLICATION_SUBMITTED tells of, and every notification of an
\* event past the first, was paid for by a failed write: a retry because of
\* the rate limit repeats nothing.
Orphans(e) ==
  effects[e].filed -
    IF Has(e, "ApplicationAgent", "APPLICATION_SUBMITTED") THEN 1 ELSE 0
Duplicates(e) == IF effects[e].notified = 0 THEN 0 ELSE effects[e].notified - 1

Repetitions ==
  UNION {({<<e, "filed">>} \X (1..Orphans(e)))
           \cup ({<<e, "notified">>} \X (1..Duplicates(e))) : e \in Published}

RepetitionsPaidFor == Cardinality(Repetitions) <= faults

\* A call is refused only if as many calls as the limit allows really were
\* admitted in the window: a refused call, or one long past, never counts.
RefusedOnlyWhenFull ==
  [][\A w \in Workflows, e \in Published :
       /\ events[e].workflow = w
       /\ "ApplicationAgent" \in DOMAIN tasks[e]
       /\ tasks'[e]["ApplicationAgent"].tries
            > tasks[e]["ApplicationAgent"].tries
       /\ faults' = faults
       => Cardinality(InWindow(w)) >= Limit[w]]_vars

\* An agent shown as running has a run in progress.  (The converse fails, see
\* StatusReflectsActivity.)
InProgress(h) ==
  \E e \in Published :
    h \in DOMAIN tasks[e] /\ tasks[e][h].at = "publishing"

RunningIsReal == \A h \in running : InProgress(h)

\* An agent with a run in progress is shown as running.
StatusReflectsActivity ==
  \A h \in Agents : InProgress(h) => h \in running

\* Whatever fails, every publish returns: no gather waits for ever.
EventuallyQuiet == <>[](\A e \in Published : Settled(e))

============================================================================
