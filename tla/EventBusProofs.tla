--------------------------- MODULE EventBusProofs ---------------------------
(***************************************************************************)
(* The bus keeps what its users rest on.                                    *)
(*                                                                          *)
(* First the limiter on the bus: seen from it, a step of the bus is a tick, *)
(* one call of check() or nothing, so what is proved about the limiter      *)
(* holds on the bus.  The key of a call is a workflow because every event   *)
(* carries one that a goal was accepted for (EventsHaveWorkflows).          *)
(*                                                                          *)
(* Then the tasks.  OverMeansSettled speaks of what a task published, and   *)
(* is inductive only with what makes that one event: its name is free       *)
(* until the task publishes it (ChildrenNamed), because names are made from *)
(* published names only (EventsNamed).  AuditedOrAnnounced needs to know    *)
(* how far AuditAgent has come with an event (RowOrReason).                 *)
(*                                                                          *)
(* Last the repetitions, which are members of an account: it has an entry   *)
(* for each write that has failed after an effect, so a step that adds one  *)
(* entry has used up one failure (AccountPaid).                             *)
(***************************************************************************)
EXTENDS EventBus, RateLimiterProofs, SequenceTheorems

EventsHaveWorkflows == \A e \in Published : events[e].workflow \in Workflows

\* What is published keeps it, if the new event has a workflow, too.
LEMMA PublishKeeps ==
  ASSUME EventsHaveWorkflows, NEW e, NEW type, NEW w \in Workflows,
         NEW ts, NEW fx, Publish(e, Event(type, w), ts, fx)
  PROVE  EventsHaveWorkflows'
<1>1. events' = [d \in Published \cup {e} |->
                   IF d = e THEN Event(type, w) ELSE events[d]]
  BY DEF Publish, Extended, Published
<1>2. Published' = Published \cup {e}
  BY <1>1 DEF Published
<1>3. \A d \in Published' :
        events'[d] = IF d = e THEN Event(type, w) ELSE events[d]
  BY <1>1, <1>2
<1>4. Event(type, w).workflow = w
  BY DEF Event
<1> QED BY <1>2, <1>3, <1>4 DEF EventsHaveWorkflows

\* with_retry publishes its failure about the workflow of the event.
LEMMA RaisesKeeps ==
  ASSUME EventsHaveWorkflows, NEW e \in Published, NEW h, NEW n, NEW fx,
         Raises(e, h, n, fx)
  PROVE  EventsHaveWorkflows'
<1>1. CASE UNCHANGED events
  BY <1>1 DEF EventsHaveWorkflows, Published
<1>2. CASE Publish(Child(e, h), Failure(e), Attempted(e, h, "announcing"), fx)
  BY <1>2, PublishKeeps DEF Failure, EventsHaveWorkflows
<1> QED BY <1>1, <1>2 DEF Raises

\* A handler's step calls the limiter at most once, for its own workflow.
LEMMA HandlersCheckOnce ==
  ASSUME EventsHaveWorkflows, NEW e \in Published, NEW h \in Agents, Step(e, h)
  PROVE  EventsHaveWorkflows' /\ [LimiterNext]_limiterVars
<1>1. CASE AuditAgent(e)
  <2>1. EventsHaveWorkflows'
    BY <1>1, RaisesKeeps
    DEF AuditAgent, Succeeds, EventsHaveWorkflows, Published
  <2> QED BY <1>1, <2>1 DEF AuditAgent
<1>2. CASE NotificationAgent(e)
  <2>1. EventsHaveWorkflows'
    BY <1>2, RaisesKeeps
    DEF NotificationAgent, Succeeds, EventsHaveWorkflows, Published
  <2> QED BY <1>2, <2>1 DEF NotificationAgent
<1>3. CASE ApplicationAgent(e)
  <2>1. events[e].workflow \in Workflows /\ events[e].workflow \in Keys
    BY BusAssumption DEF EventsHaveWorkflows
  <2>2. \/ Refuse(events[e].workflow)
        \/ Admit(events[e].workflow)
    BY <1>3 DEF ApplicationAgent, ToolRefused
  <2>3. PublishSubmitted(e) => EventsHaveWorkflows'
    BY <2>1, PublishKeeps DEF PublishSubmitted
  <2>4. (\E n, fx : Raises(e, "ApplicationAgent", n, fx)) =>
          EventsHaveWorkflows'
    BY RaisesKeeps
  <2>5. EventsHaveWorkflows'
    BY <1>3, <2>3, <2>4 DEF ApplicationAgent, ToolRefused
  <2> QED BY <2>1, <2>2, <2>5 DEF LimiterNext
<1>4. CASE PublishReturns(e, h)
  BY <1>4 DEF PublishReturns, EventsHaveWorkflows, Published
<1> QED BY <1>1, <1>2, <1>3, <1>4 DEF Step

\* So do the routes, for the client.
LEMMA BusStepChecksOnce ==
  ASSUME EventsHaveWorkflows, [BusNext]_vars
  PROVE  EventsHaveWorkflows' /\ [LimiterNext]_limiterVars
<1>1. CASE Passes
  BY <1>1 DEF Passes, busVars, LimiterNext, EventsHaveWorkflows, Published
<1>2. CASE TooManyRequests
  BY <1>2, BusAssumption
  DEF TooManyRequests, busVars, LimiterNext, EventsHaveWorkflows, Published
<1>3. ASSUME NEW w \in Workflows, CreateWorkflow(w)
      PROVE  EventsHaveWorkflows' /\ [LimiterNext]_limiterVars
  BY <1>3, BusAssumption, PublishKeeps DEF CreateWorkflow, Ready, LimiterNext
<1>4. ASSUME NEW w \in Workflows, NextStep(w)
      PROVE  EventsHaveWorkflows' /\ [LimiterNext]_limiterVars
  BY <1>4, PublishKeeps DEF NextStep, Ready
<1>5. ASSUME NEW e \in Published, NEW h \in Agents, Step(e, h)
      PROVE  EventsHaveWorkflows' /\ [LimiterNext]_limiterVars
  BY <1>5, HandlersCheckOnce
<1>6. CASE UNCHANGED vars
  BY <1>6 DEF vars, busVars, EventsHaveWorkflows, Published
<1> QED BY <1>1, <1>2, <1>3, <1>4, <1>5, <1>6 DEF BusNext

\* The bus implements the limiter: whatever fails, is retried or is refused,
\* each call of check() is one of the limiter's, and nobody touches its list
\* otherwise.
THEOREM BusImplementsLimiter == BusSpec => LimiterSpec
<1>1. BusInit => LimiterInit /\ EventsHaveWorkflows
  BY DEF BusInit, EventsHaveWorkflows, Published
<1>2. EventsHaveWorkflows /\ [BusNext]_vars =>
        EventsHaveWorkflows' /\ [LimiterNext]_limiterVars
  BY BusStepChecksOnce
<1> QED BY <1>1, <1>2, PTL DEF BusSpec, LimiterSpec

\* NeverOverLimit on the bus: no workflow's tool calls and no client's goals
\* exceed the limit in any window.
THEOREM BusNeverOverLimit == BusSpec => []NeverOverLimit
BY BusImplementsLimiter, WindowNeverOverLimit, PTL

----------------------------------------------------------------------------
(* The bus itself.  What is published has a name of its own: the goals are   *)
(* numbered without a gap, and everything else is named by a published event *)
(* and the handler that published it.  So a task that has not published yet  *)
(* finds its name free, and a new event starts with new tasks only.          *)

EventRecords ==
  [type : {"APPLICATION_READY", "APPLICATION_SUBMITTED", "WORKFLOW_FAILED"},
   workflow : Workflows]
TaskRecords ==
  [at : {"due", "publishing", "announcing", "over"}, tries : 0..MaxAttempts]
EffectRecords == [filed : Nat, notified : Nat, audited : Nat]
Names == Seq(Nat \cup Agents) \ {<< >>}

BusShape ==
  /\ accepted \subseteq Workflows
  /\ events \in [Published -> EventRecords]
  /\ DOMAIN tasks = Published /\ DOMAIN effects = Published
  /\ \A e \in Published :
       /\ tasks[e] \in [Subscribers(events[e].type) -> TaskRecords]
       /\ effects[e] \in EffectRecords
  /\ running \subseteq Agents
  /\ faults \in 0..MaxFaults

EventsNamed ==
  /\ Published \subseteq Names
  /\ IsFiniteSet(ReadyEvents)
  /\ \A e \in Published :
       \/ \E k \in 1..Cardinality(ReadyEvents) : e = <<k>>
       \/ \E f \in Published, h \in Agents : e = Child(f, h)

\* A task has published, and waits, or it is due and has not.
ChildrenNamed ==
  \A e \in Published : \A h \in DOMAIN tasks[e] :
    /\ tasks[e][h].at = "due" =>
         Child(e, h) \notin Published /\ tasks[e][h].tries < MaxAttempts
    /\ tasks[e][h].at \in {"publishing", "announcing"} =>
         Child(e, h) \in Published

\* The audit row of an event, as far as its task has come.
RowOrReason ==
  \A e \in Published :
    /\ tasks[e]["AuditAgent"].at # "publishing"
    /\ tasks[e]["AuditAgent"].at = "due" =>
         /\ effects[e].audited = 0
         /\ tasks[e]["AuditAgent"].tries <= faults
    /\ tasks[e]["AuditAgent"].at = "announcing" =>
         /\ effects[e].audited = 0
         /\ Has(e, "AuditAgent", "WORKFLOW_FAILED")
    /\ tasks[e]["AuditAgent"].at = "over" =>
         /\ effects[e].audited \in {0, 1}
         /\ \/ effects[e].audited = 1
            \/ Has(e, "AuditAgent", "WORKFLOW_FAILED")
            \/ faults > MaxAttempts

BusInvariant ==
  /\ BusShape
  /\ EventsNamed
  /\ ChildrenNamed
  /\ OverMeansSettled
  /\ RowOrReason
  /\ RunningIsReal

\* A name tells the event and the handler it was made from.
LEMMA ChildTells ==
  ASSUME NEW e \in Names, NEW f \in Names, NEW g \in Agents, NEW h \in Agents,
         Child(e, g) = Child(f, h)
  PROVE  e = f /\ g = h
BY AppendInjective DEF Child, Names

\* A name made by a handler is longer than a goal's number.
LEMMA ChildIsNoGoal ==
  ASSUME NEW e \in Names, NEW h \in Agents, NEW k
  PROVE  Child(e, h) \in Names /\ Child(e, h) # <<k>>
<1>1. e \in Seq(Nat \cup Agents) /\ Len(e) \in Nat \ {0}
  BY EmptySeq, LenProperties DEF Names
<1>2. /\ Child(e, h) \in Seq(Nat \cup Agents)
      /\ Len(Child(e, h)) = Len(e) + 1
  BY <1>1, AppendProperties DEF Child
<1>3. Len(<<k>>) = 1 /\ Len(<< >>) = 0
  OBVIOUS
<1> QED BY <1>1, <1>2, <1>3 DEF Names

\* Nothing is named after an event that is not published.
LEMMA NoOrphanNames ==
  ASSUME EventsNamed, NEW e \in Names, e \notin Published, NEW h \in Agents
  PROVE  Child(e, h) \notin Published
<1>1. \A k : Child(e, h) # <<k>>
  BY ChildIsNoGoal
<1>2. \A f \in Published, g \in Agents : Child(e, h) # Child(f, g)
  BY ChildTells DEF EventsNamed
<1> QED BY <1>1, <1>2 DEF EventsNamed

\* publish() with a free name: what was there stays, and the new event is due
\* with all its handlers.
LEMMA Published1 ==
  ASSUME NEW e, e \notin Published, NEW event, NEW ts, NEW fx,
         DOMAIN ts = Published, DOMAIN fx = Published,
         Publish(e, event, ts, fx)
  PROVE  /\ Published' = Published \cup {e}
         /\ events' = [f \in Published' |-> events'[f]]
         /\ DOMAIN tasks' = Published' /\ DOMAIN effects' = Published'
         /\ \A f \in Published : /\ events'[f] = events[f]
                                 /\ tasks'[f] = ts[f]
                                 /\ effects'[f] = fx[f]
         /\ events'[e] = event
         /\ tasks'[e] = [h \in Subscribers(event.type) |-> NewTask]
         /\ effects'[e] = NoEffect
BY DEF Publish, Extended, Published

\* In particular no task moves but the publisher's.
LEMMA PublishLeaves ==
  ASSUME NEW e, e \notin Published, NEW event, NEW ts, NEW fx,
         DOMAIN ts = Published, Publish(e, event, ts, fx)
  PROVE  \A f \in Published : tasks'[f] = ts[f]
BY DEF Publish, Extended

----------------------------------------------------------------------------
(* What a step of a handler may do: task h of event e becomes new, and born  *)
(* is the event it has published, if any.                                    *)

Others(e, h, new, born) ==
  /\ Published' = Published \cup born
  /\ events' = [f \in Published' |-> events'[f]]
  /\ DOMAIN tasks' = Published' /\ DOMAIN effects' = Published'
  /\ \A f \in Published :
       /\ events'[f] = events[f]
       /\ tasks'[f] = IF f = e THEN [tasks[e] EXCEPT ![h] = new] ELSE tasks[f]
       /\ f # e => effects'[f] = effects[f]
  /\ effects'[e] \in EffectRecords
  /\ \A f \in born :
       /\ f = Child(e, h)
       /\ events'[f] \in EventRecords /\ events'[f].type # "APPLICATION_READY"
       /\ tasks'[f] = [g \in Subscribers(events'[f].type) |-> NewTask]
       /\ effects'[f] = NoEffect
  /\ accepted' = accepted

\* From due it publishes, or ends, or is due again before the last attempt; and
\* if it waits it ends once what it published is settled.
Lifecycle(e, h, new, born) ==
  \/ /\ tasks[e][h].at = "due"
     /\ new.at = "due" => new.tries < MaxAttempts
     /\ new.at \in {"publishing", "announcing"} <=> born # {}
  \/ /\ tasks[e][h].at \in {"publishing", "announcing"}
     /\ new.at = "over" /\ born = {}
     /\ Settled(Child(e, h))

\* Only AuditAgent writes rows of the audit trail, and says why it has not.
Rows(e, h, new, born) ==
  \/ /\ h # "AuditAgent" \/ tasks[e][h].at # "due"
     /\ effects'[e].audited = effects[e].audited
  \/ /\ h = "AuditAgent" /\ tasks[e][h].at = "due" /\ new.at = "over"
     /\ effects'[e].audited = effects[e].audited + 1
  \/ /\ h = "AuditAgent" /\ tasks[e][h].at = "due"
     /\ effects'[e].audited = effects[e].audited
     /\ \/ /\ new.at = "due" /\ new.tries = tasks[e][h].tries + 1
           /\ faults' = faults + 1
        \/ /\ new.at = "announcing"
           /\ \A f \in born : events'[f].type = "WORKFLOW_FAILED"
        \/ /\ new.at = "over" /\ tasks[e][h].tries + 1 = MaxAttempts
           /\ faults' = faults + 2

\* The registry forgets the handler unless its run goes on.
Shown(e, h, new) ==
  \A g \in running' :
    \/ g \in running /\ (g # h \/ tasks[e][h].at = "announcing")
    \/ g = h /\ new.at = "publishing"

TaskStep(e, h, new, born) ==
  /\ Others(e, h, new, born)
  /\ Lifecycle(e, h, new, born)
  /\ Rows(e, h, new, born)
  /\ Shown(e, h, new)
  /\ faults' \in faults..MaxFaults
  /\ running' \subseteq running \cup {h}

\* The tasks after such a step, one by one.
LEMMA TasksAfter ==
  ASSUME BusInvariant, NEW e \in Published, NEW h \in DOMAIN tasks[e],
         NEW new \in TaskRecords, NEW born, TaskStep(e, h, new, born)
  PROVE  /\ h \in Agents
         /\ Child(e, h) \in Names
         /\ \A f \in Published :
              /\ tasks'[f] \in [Subscribers(events[f].type) -> TaskRecords]
              /\ DOMAIN tasks'[f] = DOMAIN tasks[f]
              /\ DOMAIN tasks[f] = Subscribers(events[f].type)
              /\ DOMAIN tasks[f] \subseteq Agents
              /\ \A g \in DOMAIN tasks[f] :
                   tasks'[f][g] = IF f = e /\ g = h THEN new ELSE tasks[f][g]
         /\ \A f \in born :
              /\ f \notin Published
              /\ tasks'[f] \in [Subscribers(events'[f].type) -> TaskRecords]
              /\ \A g \in DOMAIN tasks'[f] :
                   g \in Agents /\ tasks'[f][g] = NewTask
<1> USE DEF TaskStep
<1>1. \A f \in Published :
        /\ tasks[f] \in [Subscribers(events[f].type) -> TaskRecords]
        /\ tasks'[f] = IF f = e THEN [tasks[e] EXCEPT ![h] = new] ELSE tasks[f]
  BY DEF BusInvariant, BusShape, Others
<1>2. \A type : Subscribers(type) \subseteq Agents
  BY DEF Subscribers, Agents
<1>3. h \in Agents /\ Child(e, h) \in Names
  BY <1>1, <1>2, ChildIsNoGoal DEF BusInvariant, EventsNamed
<1>4. NewTask \in TaskRecords
  BY BusAssumption DEF NewTask, TaskRecords
<1>5. ASSUME NEW f \in born
      PROVE  /\ f \notin Published
             /\ tasks'[f] \in [Subscribers(events'[f].type) -> TaskRecords]
             /\ \A g \in DOMAIN tasks'[f] :
                  g \in Agents /\ tasks'[f][g] = NewTask
  <2>1. f = Child(e, h) /\ tasks[e][h].at = "due"
    BY <1>5 DEF Others, Lifecycle
  <2>2. f \notin Published
    BY <2>1 DEF BusInvariant, ChildrenNamed
  <2>3. tasks'[f] = [g \in Subscribers(events'[f].type) |-> NewTask]
    BY <1>5 DEF Others
  <2> QED BY <1>2, <1>4, <2>2, <2>3
<1>6. ASSUME NEW f \in Published
      PROVE  /\ tasks'[f] \in [Subscribers(events[f].type) -> TaskRecords]
             /\ DOMAIN tasks'[f] = DOMAIN tasks[f]
             /\ DOMAIN tasks[f] = Subscribers(events[f].type)
             /\ DOMAIN tasks[f] \subseteq Agents
             /\ \A g \in DOMAIN tasks[f] :
                  tasks'[f][g] = IF f = e /\ g = h THEN new ELSE tasks[f][g]
  <2>1. CASE f = e
    BY <1>1, <1>2, <2>1
  <2>2. CASE f # e
    BY <1>1, <1>2, <2>2
  <2> QED BY <2>1, <2>2
<1> QED BY <1>3, <1>5, <1>6

LEMMA TaskStepShape ==
  ASSUME BusInvariant, NEW e \in Published, NEW h \in DOMAIN tasks[e],
         NEW new \in TaskRecords, NEW born, TaskStep(e, h, new, born)
  PROVE  BusShape'
<1> USE DEF BusInvariant, BusShape, TaskStep
<1>1. events' \in [Published' -> EventRecords]
  BY DEF Others
<1>2. ASSUME NEW f \in Published'
      PROVE  /\ tasks'[f] \in [Subscribers(events'[f].type) -> TaskRecords]
             /\ effects'[f] \in EffectRecords
  <2>1. CASE f \in Published
    <3>1. events'[f] = events[f] /\ effects'[f] \in EffectRecords
      BY <2>1 DEF Others
    <3> QED BY <2>1, <3>1, TasksAfter
  <2>2. CASE f \in born
    <3>1. effects'[f] \in EffectRecords
      BY <2>2 DEF Others, NoEffect, EffectRecords
    <3> QED BY <2>2, <3>1, TasksAfter
  <2> QED BY <1>2, <2>1, <2>2 DEF Others
<1>3. running' \subseteq Agents /\ faults' \in 0..MaxFaults
  BY TasksAfter, BusAssumption
<1> QED BY <1>1, <1>2, <1>3 DEF Others

\* A handler publishes no goal, so the goals keep their numbers.
LEMMA TaskStepNames ==
  ASSUME BusInvariant, NEW e \in Published, NEW h \in DOMAIN tasks[e],
         NEW new \in TaskRecords, NEW born, TaskStep(e, h, new, born)
  PROVE  EventsNamed'
<1> USE DEF BusInvariant, TaskStep
<1>1. h \in Agents /\ Child(e, h) \in Names /\ \A f \in born : f = Child(e, h)
  <2>1. \A f \in born : f = Child(e, h)
    BY DEF Others
  <2> QED BY <2>1, TasksAfter
<1>2. ReadyEvents' = ReadyEvents
  BY TasksAfter DEF Others, ReadyEvents
<1>3. Published' \subseteq Names
  BY <1>1 DEF Others, EventsNamed
<1>4. ASSUME NEW f \in Published'
      PROVE  \/ \E k \in 1..Cardinality(ReadyEvents) : f = <<k>>
             \/ \E d \in Published', g \in Agents : f = Child(d, g)
  BY <1>1, <1>4 DEF Others, EventsNamed
<1> QED BY <1>2, <1>3, <1>4 DEF EventsNamed, Child

LEMMA TaskStepChildren ==
  ASSUME BusInvariant, NEW e \in Published, NEW h \in DOMAIN tasks[e],
         NEW new \in TaskRecords, NEW born, TaskStep(e, h, new, born)
  PROVE  ChildrenNamed'
<1> USE DEF BusInvariant, TaskStep
<1>1. SUFFICES ASSUME NEW f \in Published', NEW g \in DOMAIN tasks'[f]
               PROVE  /\ tasks'[f][g].at = "due" =>
                           /\ Child(f, g) \notin Published'
                           /\ tasks'[f][g].tries < MaxAttempts
                      /\ tasks'[f][g].at \in {"publishing", "announcing"} =>
                           Child(f, g) \in Published'
  BY DEF ChildrenNamed, Child
<1>2. Published' = Published \cup born /\ \A d \in born : d = Child(e, h)
  BY DEF Others
<1>3. h \in Agents /\ e \in Names /\ Child(e, h) \in Names
  BY TasksAfter DEF EventsNamed
<1>4. CASE f \in Published
  <2>1. /\ g \in DOMAIN tasks[f] /\ g \in Agents /\ f \in Names
        /\ tasks'[f][g] = IF f = e /\ g = h THEN new ELSE tasks[f][g]
    <3>1. f \in Names
      BY <1>4 DEF EventsNamed
    <3> QED BY <1>1, <1>4, <3>1, TasksAfter
  <2>2. /\ tasks[f][g].at = "due" =>
             Child(f, g) \notin Published /\ tasks[f][g].tries < MaxAttempts
        /\ tasks[f][g].at \in {"publishing", "announcing"} =>
             Child(f, g) \in Published
    BY <1>4, <2>1 DEF ChildrenNamed
  <2>3. CASE f = e /\ g = h
    BY <1>2, <2>1, <2>2, <2>3 DEF Lifecycle
  <2>4. CASE ~(f = e /\ g = h)
    <3>1. Child(f, g) # Child(e, h)
      BY <1>3, <2>1, <2>4, ChildTells
    <3> QED BY <1>2, <2>1, <2>2, <2>4, <3>1
  <2> QED BY <2>3, <2>4
<1>5. CASE f \in born
  <2>1. /\ f \notin Published /\ f \in Names /\ f = Child(e, h)
        /\ g \in Agents /\ tasks'[f][g] = NewTask
    BY <1>1, <1>2, <1>3, <1>5, TasksAfter
  <2>2. Child(f, g) \notin Published
    BY <2>1, NoOrphanNames
  <2>3. Child(f, g) # f
    BY <1>3, <2>1, ChildTells, AppendProperties, LenProperties
    DEF Child, Names
  <2> QED BY <1>2, <2>1, <2>2, <2>3, BusAssumption DEF NewTask
<1> QED BY <1>1, <1>2, <1>4, <1>5

\* What is settled stays settled.
LEMMA SettledStays ==
  ASSUME BusInvariant, NEW e \in Published, NEW h \in DOMAIN tasks[e],
         NEW new \in TaskRecords, NEW born, TaskStep(e, h, new, born),
         NEW f \in Published, Settled(f)
  PROVE  Settled(f)'
<1>1. tasks[e][h].at # "over"
  BY DEF TaskStep, Lifecycle
<1>2. \A g \in DOMAIN tasks'[f] : tasks'[f][g] = tasks[f][g]
  BY <1>1, TasksAfter DEF Settled
<1> QED BY <1>2, TasksAfter DEF Settled

LEMMA TaskStepSettled ==
  ASSUME BusInvariant, NEW e \in Published, NEW h \in DOMAIN tasks[e],
         NEW new \in TaskRecords, NEW born, TaskStep(e, h, new, born)
  PROVE  OverMeansSettled'
<1> USE DEF BusInvariant, TaskStep
<1>1. SUFFICES ASSUME NEW f \in Published', NEW g \in DOMAIN tasks'[f],
                      tasks'[f][g].at = "over", Child(f, g) \in Published'
               PROVE  Settled(Child(f, g))'
  BY DEF OverMeansSettled, Child
<1>2. Published' = Published \cup born /\ \A d \in born : d = Child(e, h)
  BY DEF Others
<1>3. f \in Published
  BY <1>1, <1>2, TasksAfter DEF NewTask
<1>4. /\ g \in DOMAIN tasks[f] /\ g \in Agents
      /\ f \in Names /\ e \in Names /\ h \in Agents
      /\ tasks'[f][g] = IF f = e /\ g = h THEN new ELSE tasks[f][g]
  <2>1. f \in Names /\ e \in Names
    BY <1>3 DEF EventsNamed
  <2> QED BY <1>1, <1>3, <2>1, TasksAfter
<1>5. CASE f = e /\ g = h
  <2>1. new.at = "over" /\ born = {}
    BY <1>1, <1>4, <1>5 DEF Lifecycle
  <2>2. Child(e, h) \in Published
    BY <1>1, <1>2, <1>5, <2>1
  <2>3. Settled(Child(e, h))
    BY <2>2 DEF Lifecycle, ChildrenNamed
  <2>4. Settled(Child(e, h))'
    BY <2>2, <2>3, SettledStays
  <2> QED BY <1>5, <2>4
<1>6. CASE ~(f = e /\ g = h)
  <2>1. tasks[f][g].at = "over"
    BY <1>1, <1>4, <1>6
  <2>2. Child(f, g) # Child(e, h)
    BY <1>4, <1>6, ChildTells
  <2>3. Child(f, g) \in Published
    BY <1>1, <1>2, <2>2
  <2>4. Settled(Child(f, g))
    BY <1>3, <1>4, <2>1, <2>3 DEF OverMeansSettled
  <2> QED BY <2>3, <2>4, SettledStays
<1> QED BY <1>5, <1>6

\* What an event has published, it has published for good.
LEMMA HasStays ==
  ASSUME BusInvariant, NEW e \in Published, NEW h \in DOMAIN tasks[e],
         NEW new \in TaskRecords, NEW born, TaskStep(e, h, new, born),
         NEW f, NEW g, NEW type, Has(f, g, type)
  PROVE  Has(f, g, type)'
BY DEF TaskStep, Others, Has, Child

LEMMA TaskStepRows ==
  ASSUME BusInvariant, NEW e \in Published, NEW h \in DOMAIN tasks[e],
         NEW new \in TaskRecords, NEW born, TaskStep(e, h, new, born)
  PROVE  RowOrReason'
<1> DEFINE A == "AuditAgent"
<1> USE DEF BusInvariant
<1>1. SUFFICES ASSUME NEW f \in Published'
      PROVE  /\ tasks'[f][A].at # "publishing"
             /\ tasks'[f][A].at = "due" =>
                  effects'[f].audited = 0 /\ tasks'[f][A].tries <= faults'
             /\ tasks'[f][A].at = "announcing" =>
                  effects'[f].audited = 0 /\ Has(f, A, "WORKFLOW_FAILED")'
             /\ tasks'[f][A].at = "over" =>
                  /\ effects'[f].audited \in {0, 1}
                  /\ \/ effects'[f].audited = 1
                     \/ Has(f, A, "WORKFLOW_FAILED")'
                     \/ faults' > MaxAttempts
  BY DEF RowOrReason
<1>2. \A type : A \in Subscribers(type)
  BY DEF Subscribers
<1>3. /\ Published' = Published \cup born
      /\ faults \in Nat /\ faults' \in Nat /\ faults <= faults'
      /\ MaxAttempts \in Nat
  BY BusAssumption DEF TaskStep, Others, BusShape
<1>4. CASE f \in Published
  <2>1. /\ A \in DOMAIN tasks[f]
        /\ tasks[f][A] \in TaskRecords
        /\ tasks'[f][A] = IF f = e /\ A = h THEN new ELSE tasks[f][A]
    BY <1>2, <1>4, TasksAfter DEF BusShape
  <2>2. /\ tasks[f][A].at # "publishing"
        /\ tasks[f][A].at = "due" =>
             effects[f].audited = 0 /\ tasks[f][A].tries <= faults
        /\ tasks[f][A].at = "announcing" =>
             effects[f].audited = 0 /\ Has(f, A, "WORKFLOW_FAILED")
        /\ tasks[f][A].at = "over" =>
             /\ effects[f].audited \in {0, 1}
             /\ \/ effects[f].audited = 1
                \/ Has(f, A, "WORKFLOW_FAILED")
                \/ faults > MaxAttempts
    BY <1>4 DEF RowOrReason
  <2>3. Has(f, A, "WORKFLOW_FAILED") => Has(f, A, "WORKFLOW_FAILED")'
    BY HasStays
  <2>4. tasks[f][A].tries \in Nat /\ tasks[f][A].at \in
          {"due", "publishing", "announcing", "over"}
    BY <1>3, <2>1 DEF TaskRecords
  <2>5. CASE ~(f = e /\ A = h)
    <3>1. effects'[f].audited = effects[f].audited
      BY <1>4, <2>5 DEF TaskStep, Others, Rows
    <3> QED BY <1>3, <2>1, <2>2, <2>3, <2>4, <2>5, <3>1
  <2>6. CASE f = e /\ A = h /\ tasks[e][h].at # "due"
    <3>1. tasks[f][A].at = "announcing" /\ new.at = "over"
      BY <2>2, <2>6 DEF TaskStep, Lifecycle
    <3>2. effects'[f].audited = effects[f].audited
      BY <2>6 DEF TaskStep, Rows
    <3> QED BY <2>1, <2>2, <2>3, <2>6, <3>1, <3>2
  <2>7. CASE f = e /\ A = h /\ tasks[e][h].at = "due"
    <3>1. tasks'[f][A] = new /\ effects[f].audited = 0
      BY <2>1, <2>2, <2>7
    <3>2. CASE new.at = "over" /\ effects'[e].audited = effects[e].audited + 1
      BY <2>7, <3>1, <3>2
    <3>3. CASE /\ effects'[e].audited = effects[e].audited
               /\ new.at = "due" /\ new.tries = tasks[e][h].tries + 1
               /\ faults' = faults + 1
      BY <1>3, <2>2, <2>4, <2>7, <3>1, <3>3
    <3>4. CASE /\ effects'[e].audited = effects[e].audited
               /\ new.at = "announcing"
               /\ \A d \in born : events'[d].type = "WORKFLOW_FAILED"
      <4>1. born # {} /\ \A d \in born : d = Child(e, h)
        BY <2>7, <3>4 DEF TaskStep, Lifecycle, Others
      <4>2. Child(e, h) \in Published'
            /\ events'[Child(e, h)].type = "WORKFLOW_FAILED"
        BY <1>3, <3>4, <4>1
      <4>3. Has(f, A, "WORKFLOW_FAILED")'
        BY <2>7, <4>2 DEF Has, Child
      <4> QED BY <2>7, <3>1, <3>4, <4>3
    <3>5. CASE /\ effects'[e].audited = effects[e].audited
               /\ new.at = "over" /\ tasks[e][h].tries + 1 = MaxAttempts
               /\ faults' = faults + 2
      BY <1>3, <2>2, <2>4, <2>7, <3>1, <3>5
    <3> QED BY <2>7, <3>2, <3>3, <3>4, <3>5 DEF TaskStep, Rows
  <2> QED BY <2>5, <2>6, <2>7
<1>5. CASE f \in born
  <2>1. tasks'[f][A] = NewTask /\ effects'[f] = NoEffect
    BY <1>2, <1>5, TasksAfter DEF TaskStep, Others
  <2> QED BY <1>3, <2>1 DEF NewTask, NoEffect
<1> QED BY <1>3, <1>4, <1>5

LEMMA TaskStepRunning ==
  ASSUME BusInvariant, NEW e \in Published, NEW h \in DOMAIN tasks[e],
         NEW new \in TaskRecords, NEW born, TaskStep(e, h, new, born)
  PROVE  RunningIsReal'
<1> USE DEF BusInvariant
<1>1. SUFFICES ASSUME NEW g \in running'
               PROVE  \E f \in Published' :
                        g \in DOMAIN tasks'[f] /\ tasks'[f][g].at = "publishing"
  BY DEF RunningIsReal, InProgress
<1>2. Published \subseteq Published'
  BY DEF TaskStep, Others
<1>3. CASE g \in running /\ (g # h \/ tasks[e][h].at = "announcing")
  <2>1. PICK f \in Published :
          g \in DOMAIN tasks[f] /\ tasks[f][g].at = "publishing"
    BY <1>3 DEF RunningIsReal, InProgress
  <2>2. ~(f = e /\ g = h)
    BY <1>3, <2>1
  <2>3. g \in DOMAIN tasks'[f] /\ tasks'[f][g] = tasks[f][g]
    BY <2>1, <2>2, TasksAfter
  <2> QED BY <1>2, <2>1, <2>3
<1>4. CASE g = h /\ new.at = "publishing"
  BY <1>2, <1>4, TasksAfter
<1> QED BY <1>3, <1>4 DEF TaskStep, Shown

LEMMA TaskStepKeeps ==
  ASSUME BusInvariant, NEW e \in Published, NEW h \in DOMAIN tasks[e],
         NEW new \in TaskRecords, NEW born, TaskStep(e, h, new, born)
  PROVE  BusInvariant'
<1>1. BusShape'
  BY TaskStepShape
<1>2. EventsNamed'
  BY TaskStepNames
<1>3. ChildrenNamed'
  BY TaskStepChildren
<1>4. OverMeansSettled'
  BY TaskStepSettled
<1>5. RowOrReason'
  BY TaskStepRows
<1>6. RunningIsReal'
  BY TaskStepRunning
<1> QED BY <1>1, <1>2, <1>3, <1>4, <1>5, <1>6 DEF BusInvariant

----------------------------------------------------------------------------
(* Every step of a handler is such a step.                                   *)

\* A table of tasks with that one entry changed.
TaskTable(ts, e, h, new) ==
  /\ DOMAIN ts = Published
  /\ \A f \in Published :
       ts[f] = IF f = e THEN [tasks[e] EXCEPT ![h] = new] ELSE tasks[f]

\* The tasks after an attempt, and after a wait or an attempt that is done.
LEMMA TasksTable ==
  ASSUME BusInvariant, NEW e \in Published, NEW h \in DOMAIN tasks[e], NEW at
  PROVE  /\ TaskTable(Attempted(e, h, at), e, h,
                      [at |-> at, tries |-> tasks[e][h].tries + 1])
         /\ TaskTable(Becomes(e, h, at), e, h,
                      [at |-> at, tries |-> tasks[e][h].tries])
<1>1. DOMAIN tasks = Published /\ tasks[e][h] \in TaskRecords
  BY DEF BusInvariant, BusShape
<1>2. [tasks[e][h] EXCEPT !.at = at] =
        [at |-> at, tries |-> tasks[e][h].tries]
  BY <1>1 DEF TaskRecords
<1>3. Becomes(e, h, at) =
        [tasks EXCEPT ![e] =
          [tasks[e] EXCEPT ![h] = [tasks[e][h] EXCEPT !.at = at]]]
  BY DEF Becomes
<1> QED BY <1>1, <1>2, <1>3 DEF Attempted, TaskTable

\* What a handler may leave behind, the rows of the audit trail apart.
Behind(e, fx) ==
  /\ DOMAIN fx = Published
  /\ \A f \in Published : f # e => fx[f] = effects[f]
  /\ fx[e] \in EffectRecords

LEMMA EffectsTable ==
  ASSUME BusInvariant, NEW e \in Published
  PROVE  /\ Behind(e, effects)
         /\ Behind(e, Filed(e)) /\ Filed(e)[e].audited = effects[e].audited
         /\ Behind(e, Notified(e))
         /\ Notified(e)[e].audited = effects[e].audited
         /\ Behind(e, Audited(e))
         /\ Audited(e)[e].audited = effects[e].audited + 1
BY DEF BusInvariant, BusShape, EffectRecords, Behind, Filed, Notified, Audited

\* The events without a new one.
LEMMA NothingBorn ==
  ASSUME BusInvariant, NEW e \in Published, NEW h \in DOMAIN tasks[e],
         NEW new \in TaskRecords, NEW ts, NEW fx,
         TaskTable(ts, e, h, new),
         Behind(e, fx),
         tasks' = ts, effects' = fx, UNCHANGED <<events, accepted>>
  PROVE  Others(e, h, new, {})
BY DEF TaskTable, Others, Behind, Published, BusInvariant, BusShape

LEMMA ChildBorn ==
  ASSUME BusInvariant, NEW e \in Published, NEW h \in DOMAIN tasks[e],
         tasks[e][h].at = "due",
         NEW new \in TaskRecords, NEW ts, NEW fx,
         TaskTable(ts, e, h, new),
         Behind(e, fx),
         NEW type \in {"APPLICATION_SUBMITTED", "WORKFLOW_FAILED"},
         Publish(Child(e, h), Event(type, events[e].workflow), ts, fx),
         UNCHANGED accepted
  PROVE  /\ Others(e, h, new, {Child(e, h)})
         /\ events'[Child(e, h)].type = type
         /\ effects'[e] = fx[e]
<1> DEFINE c == Child(e, h)
           event == Event(type, events[e].workflow)
<1>1. c \notin Published
  BY DEF BusInvariant, ChildrenNamed
<1>2. event \in EventRecords /\ event.type = type
  BY DEF Event, EventRecords, BusInvariant, BusShape
<1>3. DOMAIN fx = Published /\ DOMAIN ts = Published
  BY DEF Behind, TaskTable
<1>4. /\ Published' = Published \cup {c}
      /\ events' = [f \in Published' |-> events'[f]]
      /\ DOMAIN tasks' = Published' /\ DOMAIN effects' = Published'
      /\ \A f \in Published : /\ events'[f] = events[f]
                              /\ tasks'[f] = ts[f]
                              /\ effects'[f] = fx[f]
      /\ events'[c] = event
      /\ tasks'[c] = [g \in Subscribers(event.type) |-> NewTask]
      /\ effects'[c] = NoEffect
  <2> HIDE DEF c, event
  <2>1. Publish(c, event, ts, fx)
    BY DEF c, event
  <2> QED BY <1>1, <1>3, <2>1, Published1
<1> QED BY <1>2, <1>4 DEF Others, Behind, TaskTable

\* An attempt that raises is due again, announces its failure or, if that
\* cannot be written either, ends.  AuditAgent raises because a write did.
LEMMA RaisesIsTaskStep ==
  ASSUME BusInvariant, NEW e \in Published, NEW h \in DOMAIN tasks[e],
         tasks[e][h].at = "due",
         NEW n \in {0, 1}, h = "AuditAgent" => n = 1,
         NEW fx, Behind(e, fx), fx[e].audited = effects[e].audited,
         Raises(e, h, n, fx), UNCHANGED accepted
  PROVE  \E born : \E new \in TaskRecords : TaskStep(e, h, new, born)
<1> DEFINE tries == tasks[e][h].tries
           After(at) == [at |-> at, tries |-> tries + 1]
           c == Child(e, h)
<1>1. /\ tries \in Nat /\ tries < MaxAttempts /\ MaxAttempts \in Nat
      /\ faults \in Nat /\ MaxFaults \in Nat
  BY BusAssumption
  DEF BusInvariant, BusShape, TaskRecords, ChildrenNamed
<1>2. \A at \in {"due", "announcing", "over"} : After(at) \in TaskRecords
  BY <1>1 DEF TaskRecords
<1>3. /\ TaskTable(Attempted(e, h, "due"), e, h, After("due"))
      /\ TaskTable(Attempted(e, h, "announcing"), e, h, After("announcing"))
      /\ TaskTable(Attempted(e, h, "over"), e, h, After("over"))
  BY TasksTable
<1>4. /\ running' = running \ {h} /\ faults' <= MaxFaults
      /\ \/ /\ tries + 1 # MaxAttempts /\ faults' = faults + n
            /\ tasks' = Attempted(e, h, "due")
            /\ effects' = fx /\ UNCHANGED events
         \/ /\ faults' = faults + n
            /\ Publish(c, Event("WORKFLOW_FAILED", events[e].workflow),
                       Attempted(e, h, "announcing"), fx)
         \/ /\ tries + 1 = MaxAttempts /\ faults' = faults + n + 1
            /\ tasks' = Attempted(e, h, "over")
            /\ effects' = fx /\ UNCHANGED events
  BY DEF Raises, Failure, ShownIdle
<1>5. CASE /\ tries + 1 # MaxAttempts /\ faults' = faults + n
           /\ tasks' = Attempted(e, h, "due")
           /\ effects' = fx /\ UNCHANGED events
  <2>1. Others(e, h, After("due"), {})
    BY <1>2, <1>3, <1>5, NothingBorn
  <2>2. Lifecycle(e, h, After("due"), {})
    BY <1>1, <1>5 DEF Lifecycle
  <2>3. Rows(e, h, After("due"), {})
    BY <1>5 DEF Rows
  <2>4. Shown(e, h, After("due"))
    BY <1>4 DEF Shown
  <2>5. faults' \in faults..MaxFaults
    BY <1>1, <1>4, <1>5
  <2> QED BY <1>2, <1>4, <2>1, <2>2, <2>3, <2>4, <2>5 DEF TaskStep
<1>6. CASE /\ faults' = faults + n
           /\ Publish(c, Event("WORKFLOW_FAILED", events[e].workflow),
                      Attempted(e, h, "announcing"), fx)
  <2>1. /\ Others(e, h, After("announcing"), {c})
        /\ events'[c].type = "WORKFLOW_FAILED"
        /\ effects'[e] = fx[e]
    BY <1>2, <1>3, <1>6, ChildBorn
  <2>2. Lifecycle(e, h, After("announcing"), {c})
    BY DEF Lifecycle
  <2>3. Rows(e, h, After("announcing"), {c})
    BY <2>1 DEF Rows
  <2>4. Shown(e, h, After("announcing"))
    BY <1>4 DEF Shown
  <2>5. faults' \in faults..MaxFaults
    BY <1>1, <1>4, <1>6
  <2> QED BY <1>2, <1>4, <2>1, <2>2, <2>3, <2>4, <2>5 DEF TaskStep
<1>7. CASE /\ tries + 1 = MaxAttempts /\ faults' = faults + n + 1
           /\ tasks' = Attempted(e, h, "over")
           /\ effects' = fx /\ UNCHANGED events
  <2>1. Others(e, h, After("over"), {})
    BY <1>2, <1>3, <1>7, NothingBorn
  <2>2. Lifecycle(e, h, After("over"), {})
    BY DEF Lifecycle
  <2>3. Rows(e, h, After("over"), {})
    BY <1>1, <1>7 DEF Rows
  <2>4. Shown(e, h, After("over"))
    BY <1>4 DEF Shown
  <2>5. faults' \in faults..MaxFaults
    BY <1>1, <1>4, <1>7
  <2> QED BY <1>2, <1>4, <2>1, <2>2, <2>3, <2>4, <2>5 DEF TaskStep
<1> QED BY <1>4, <1>5, <1>6, <1>7

\* A handler that publishes nothing is over when it returns.
LEMMA SucceedsIsTaskStep ==
  ASSUME BusInvariant, NEW e \in Published, NEW h \in DOMAIN tasks[e],
         tasks[e][h].at = "due",
         NEW fx, Behind(e, fx),
         fx[e].audited = effects[e].audited + IF h = "AuditAgent" THEN 1 ELSE 0,
         Succeeds(e, h, fx), UNCHANGED accepted
  PROVE  \E born : \E new \in TaskRecords : TaskStep(e, h, new, born)
<1> DEFINE new == [at |-> "over", tries |-> tasks[e][h].tries]
<1>1. new \in TaskRecords /\ effects[e].audited \in Nat
  BY DEF BusInvariant, BusShape, TaskRecords, EffectRecords
<1>2. Others(e, h, new, {})
  <2>1. TaskTable(Becomes(e, h, "over"), e, h, new)
    BY TasksTable
  <2>2. /\ tasks' = Becomes(e, h, "over") /\ effects' = fx
        /\ UNCHANGED <<events, accepted>>
    BY DEF Succeeds
  <2> HIDE DEF new
  <2> QED BY <1>1, <2>1, <2>2, NothingBorn
<1>3. Lifecycle(e, h, new, {})
  BY DEF Lifecycle
<1>4. Rows(e, h, new, {})
  BY <1>1 DEF Rows, Succeeds
<1>5. Shown(e, h, new)
  BY DEF Shown, Succeeds, ShownIdle
<1>6. faults' \in faults..MaxFaults /\ running' \subseteq running \cup {h}
  BY DEF Succeeds, ShownIdle, BusInvariant, BusShape
<1> QED BY <1>1, <1>2, <1>3, <1>4, <1>5, <1>6 DEF TaskStep

\* ApplicationAgent publishes, and waits.
LEMMA PublishSubmittedIsTaskStep ==
  ASSUME BusInvariant, NEW e \in Published,
         "ApplicationAgent" \in DOMAIN tasks[e],
         tasks[e]["ApplicationAgent"].at = "due",
         PublishSubmitted(e), UNCHANGED accepted
  PROVE  \E born : \E new \in TaskRecords :
           TaskStep(e, "ApplicationAgent", new, born)
<1> DEFINE h == "ApplicationAgent"
           new == [at |-> "publishing", tries |-> tasks[e][h].tries]
           c == Child(e, h)
<1>1. new \in TaskRecords
  BY DEF BusInvariant, BusShape, TaskRecords
<1>2. Others(e, h, new, {c}) /\ effects'[e] = Filed(e)[e]
  <2>1. TaskTable(Becomes(e, h, "publishing"), e, h, new)
    BY TasksTable
  <2>2. Publish(c, Event("APPLICATION_SUBMITTED", events[e].workflow),
                Becomes(e, h, "publishing"), Filed(e))
    BY DEF PublishSubmitted
  <2> HIDE DEF new
  <2> QED BY <1>1, <2>1, <2>2, ChildBorn, EffectsTable
<1>3. Lifecycle(e, h, new, {c})
  BY DEF Lifecycle
<1>4. Rows(e, h, new, {c})
  BY <1>2, EffectsTable DEF Rows
<1>5. Shown(e, h, new)
  BY DEF Shown, PublishSubmitted, ShownRunning
<1>6. faults' \in faults..MaxFaults /\ running' \subseteq running \cup {h}
  BY DEF PublishSubmitted, ShownRunning, BusInvariant, BusShape
<1> QED BY <1>1, <1>2, <1>3, <1>4, <1>5, <1>6 DEF TaskStep

\* gather returns to a task that waits.
LEMMA ReturnIsTaskStep ==
  ASSUME BusInvariant, NEW e \in Published, NEW h \in DOMAIN tasks[e],
         PublishReturns(e, h)
  PROVE  \E born : \E new \in TaskRecords : TaskStep(e, h, new, born)
<1> DEFINE new == [at |-> "over", tries |-> tasks[e][h].tries]
<1>1. new \in TaskRecords
  BY DEF BusInvariant, BusShape, TaskRecords
<1>2. tasks[e][h].at \in {"publishing", "announcing"}
  BY DEF PublishReturns
<1>3. Others(e, h, new, {})
  <2>1. TaskTable(Becomes(e, h, "over"), e, h, new)
    BY TasksTable
  <2>2. /\ tasks' = Becomes(e, h, "over") /\ effects' = effects
        /\ UNCHANGED <<events, accepted>>
    BY DEF PublishReturns
  <2> HIDE DEF new
  <2> QED BY <1>1, <2>1, <2>2, NothingBorn, EffectsTable
<1>4. Lifecycle(e, h, new, {})
  BY <1>2 DEF Lifecycle, PublishReturns
<1>5. Rows(e, h, new, {})
  BY <1>2 DEF Rows, PublishReturns
<1>6. Shown(e, h, new)
  BY DEF Shown, PublishReturns, ShownIdle
<1>7. faults' \in faults..MaxFaults /\ running' \subseteq running \cup {h}
  BY DEF PublishReturns, ShownIdle, BusInvariant, BusShape
<1> QED BY <1>1, <1>3, <1>4, <1>5, <1>6, <1>7 DEF TaskStep

LEMMA StepIsTaskStep ==
  ASSUME BusInvariant, NEW e \in Published, NEW h \in Agents, Step(e, h)
  PROVE  /\ h \in DOMAIN tasks[e]
         /\ \E born : \E new \in TaskRecords : TaskStep(e, h, new, born)
<1>1. h \in DOMAIN tasks[e]
  BY DEF Step, AuditAgent, NotificationAgent, ApplicationAgent, Attempts
<1>2. SUFFICES \E born : \E new \in TaskRecords : TaskStep(e, h, new, born)
  BY <1>1
<1>3. CASE h = "AuditAgent" /\ AuditAgent(e)
  <2>1. tasks[e][h].at = "due" /\ UNCHANGED accepted
    BY <1>3 DEF AuditAgent, Attempts
  <2>2. CASE Succeeds(e, h, Audited(e))
    BY <1>1, <1>3, <2>1, <2>2, EffectsTable, SucceedsIsTaskStep
  <2>3. CASE Raises(e, h, 1, effects)
    BY <1>1, <2>1, <2>3, EffectsTable, RaisesIsTaskStep
  <2> QED BY <1>3, <2>2, <2>3 DEF AuditAgent
<1>4. CASE h = "NotificationAgent" /\ NotificationAgent(e)
  <2>1. tasks[e][h].at = "due" /\ UNCHANGED accepted /\ h # "AuditAgent"
    BY <1>4 DEF NotificationAgent, Attempts
  <2>2. CASE Succeeds(e, h, Notified(e))
    <3>1. effects[e].audited + 0 = effects[e].audited
      BY DEF BusInvariant, BusShape, EffectRecords
    <3> QED BY <1>1, <2>1, <2>2, <3>1, EffectsTable, SucceedsIsTaskStep
  <2>3. CASE Raises(e, h, 1, effects)
    BY <1>1, <2>1, <2>3, EffectsTable, RaisesIsTaskStep
  <2>4. CASE Raises(e, h, 1, Notified(e))
    BY <1>1, <2>1, <2>4, EffectsTable, RaisesIsTaskStep
  <2> QED BY <1>4, <2>2, <2>3, <2>4 DEF NotificationAgent
<1>5. CASE h = "ApplicationAgent" /\ ApplicationAgent(e)
  <2>1. tasks[e][h].at = "due" /\ UNCHANGED accepted /\ h # "AuditAgent"
    BY <1>5 DEF ApplicationAgent, Attempts
  <2>2. CASE Raises(e, h, 0, effects)
    BY <1>1, <2>1, <2>2, EffectsTable, RaisesIsTaskStep
  <2>3. CASE Raises(e, h, 1, Filed(e))
    BY <1>1, <2>1, <2>3, EffectsTable, RaisesIsTaskStep
  <2>4. CASE PublishSubmitted(e)
    BY <1>1, <1>5, <2>1, <2>4, PublishSubmittedIsTaskStep
  <2> QED BY <1>5, <2>2, <2>3, <2>4 DEF ApplicationAgent, ToolRefused
<1>6. CASE h \in DOMAIN tasks[e] /\ PublishReturns(e, h)
  BY <1>1, <1>6, ReturnIsTaskStep
<1> QED BY <1>3, <1>4, <1>5, <1>6 DEF Step

LEMMA HandlersKeep ==
  ASSUME BusInvariant, NEW e \in Published, NEW h \in Agents, Step(e, h)
  PROVE  BusInvariant'
BY StepIsTaskStep, TaskStepKeeps

\* The next number is free.
LEMMA NextGoalIsNew ==
  ASSUME BusInvariant
  PROVE  /\ <<Cardinality(ReadyEvents) + 1>> \in Names
         /\ <<Cardinality(ReadyEvents) + 1>> \notin Published
<1> DEFINE n == Cardinality(ReadyEvents)
           e == <<n + 1>>
<1>1. n \in Nat
  BY FS_CardinalityType DEF BusInvariant, EventsNamed
<1>2. e \in Names
  BY <1>1 DEF Names
<1>3. \A k \in 1..n : e # <<k>>
  BY <1>1
<1>4. \A f \in Published, h \in Agents : e # Child(f, h)
  BY ChildIsNoGoal DEF BusInvariant, EventsNamed
<1> QED BY <1>2, <1>3, <1>4 DEF BusInvariant, EventsNamed

\* A goal, and every step that is ready after it, takes the next number.
LEMMA ReadyKeeps ==
  ASSUME BusInvariant, NEW w \in Workflows, Ready(w),
         accepted' \subseteq Workflows
  PROVE  BusInvariant'
<1> DEFINE n == Cardinality(ReadyEvents)
           e == <<n + 1>>
           event == Event("APPLICATION_READY", w)
<1>1. n \in Nat /\ IsFiniteSet(ReadyEvents)
  BY FS_CardinalityType DEF BusInvariant, EventsNamed
<1>2. e \in Names /\ e \notin Published
  BY NextGoalIsNew
<1>3. /\ Published' = Published \cup {e}
      /\ events' = [f \in Published' |-> events'[f]]
      /\ DOMAIN tasks' = Published' /\ DOMAIN effects' = Published'
      /\ \A f \in Published : /\ events'[f] = events[f]
                              /\ tasks'[f] = tasks[f]
                              /\ effects'[f] = effects[f]
      /\ events'[e] = event
      /\ tasks'[e] = [h \in Subscribers(event.type) |-> NewTask]
      /\ effects'[e] = NoEffect
  <2>1. Publish(e, event, tasks, effects)
    BY DEF Ready
  <2>2. DOMAIN tasks = Published /\ DOMAIN effects = Published
    BY DEF BusInvariant, BusShape
  <2> HIDE DEF e, event
  <2> QED BY <1>2, <2>1, <2>2, Published1
<1>4. event \in EventRecords /\ event.type = "APPLICATION_READY"
  BY DEF Event, EventRecords
<1>5. UNCHANGED <<running, faults>>
  BY DEF Ready
<1>6. /\ NewTask \in TaskRecords /\ NewTask.at = "due"
      /\ NewTask.tries = 0 /\ 0 < MaxAttempts
  BY BusAssumption DEF NewTask, TaskRecords
<1>7. \A type : /\ Subscribers(type) \subseteq Agents
                /\ "AuditAgent" \in Subscribers(type)
  BY DEF Subscribers, Agents
<1> HIDE DEF n, e, event
<1>8. /\ tasks'[e] \in [Subscribers(event.type) -> TaskRecords]
      /\ \A h \in DOMAIN tasks'[e] : h \in Agents /\ tasks'[e][h] = NewTask
  BY <1>3, <1>6, <1>7
<1>9. BusShape'
  <2>1. events' \in [Published' -> EventRecords]
    BY <1>3, <1>4 DEF BusInvariant, BusShape
  <2>2. NoEffect \in EffectRecords
    BY DEF NoEffect, EffectRecords
  <2>3. ASSUME NEW f \in Published'
        PROVE  /\ tasks'[f] \in [Subscribers(events'[f].type) -> TaskRecords]
               /\ effects'[f] \in EffectRecords
    BY <1>3, <1>8, <2>2, <2>3 DEF BusInvariant, BusShape
  <2> QED BY <1>3, <1>5, <2>1, <2>3 DEF BusInvariant, BusShape
<1>10. EventsNamed'
  <2>1. ReadyEvents' = ReadyEvents \cup {e} /\ e \notin ReadyEvents
    BY <1>2, <1>3, <1>4 DEF ReadyEvents
  <2>2. IsFiniteSet(ReadyEvents') /\ Cardinality(ReadyEvents') = n + 1
    BY <1>1, <2>1, FS_AddElement DEF n
  <2>3. ASSUME NEW f \in Published'
        PROVE  \/ \E k \in 1..(n + 1) : f = <<k>>
               \/ \E d \in Published', g \in Agents : f = Child(d, g)
    <3>1. CASE f = e
      BY <1>1, <3>1 DEF e
    <3>2. CASE f \in Published
      <4>1. \A k \in 1..n : k \in 1..(n + 1)
        BY <1>1
      <4>2. \/ \E k \in 1..n : f = <<k>>
            \/ \E d \in Published, g \in Agents : f = Child(d, g)
        BY <3>2 DEF BusInvariant, EventsNamed, n
      <4> QED BY <1>3, <4>1, <4>2
    <3> QED BY <1>3, <2>3, <3>1, <3>2
  <2>4. Published' \subseteq Names
    BY <1>2, <1>3 DEF BusInvariant, EventsNamed
  <2> QED BY <2>2, <2>3, <2>4 DEF EventsNamed, Child
<1>11. \A f \in Published, h \in Agents :
         Child(f, h) \in Published' => Child(f, h) \in Published
  BY <1>3, ChildIsNoGoal DEF BusInvariant, EventsNamed, e
<1>12. \A f \in Published : \A h \in DOMAIN tasks[f] : h \in Agents
  BY <1>7 DEF BusInvariant, BusShape
<1>13. ChildrenNamed'
  <2>1. ASSUME NEW f \in Published', NEW h \in DOMAIN tasks'[f]
        PROVE  /\ tasks'[f][h].at = "due" => /\ Child(f, h) \notin Published'
                                             /\ tasks'[f][h].tries < MaxAttempts
               /\ tasks'[f][h].at \in {"publishing", "announcing"} =>
                    Child(f, h) \in Published'
    <3>1. CASE f \in Published
      <4>1. tasks'[f] = tasks[f] /\ h \in DOMAIN tasks[f]
        BY <1>3, <2>1, <3>1
      <4> QED BY <1>3, <1>11, <1>12, <3>1, <4>1
              DEF BusInvariant, ChildrenNamed
    <3>2. CASE f = e
      <4>1. h \in Agents /\ tasks'[f][h] = NewTask
        BY <1>8, <2>1, <3>2
      <4>2. Child(e, h) \notin Published /\ Child(e, h) # e
        BY <1>2, <4>1, NoOrphanNames, ChildIsNoGoal DEF BusInvariant, e
      <4> QED BY <1>3, <1>6, <3>2, <4>1, <4>2
    <3> QED BY <1>3, <2>1, <3>1, <3>2
  <2> QED BY <2>1 DEF ChildrenNamed, Child
<1>14. \A f \in Published : Settled(f) => Settled(f)'
  BY <1>3 DEF Settled
<1>15. OverMeansSettled'
  <2>1. ASSUME NEW f \in Published', NEW h \in DOMAIN tasks'[f],
               tasks'[f][h].at = "over", Child(f, h) \in Published'
        PROVE  Settled(Child(f, h))'
    <3>1. f \in Published
      BY <1>3, <1>6, <1>8, <2>1
    <3>2. h \in DOMAIN tasks[f] /\ tasks[f][h].at = "over"
      BY <1>3, <2>1, <3>1
    <3>3. Child(f, h) \in Published
      BY <1>11, <1>12, <2>1, <3>1, <3>2
    <3>4. Settled(Child(f, h))
      BY <3>1, <3>2, <3>3 DEF BusInvariant, OverMeansSettled
    <3> QED BY <1>14, <3>3, <3>4
  <2> QED BY <2>1 DEF OverMeansSettled, Child
<1>16. RowOrReason'
  <2>1. tasks'[e]["AuditAgent"] = NewTask /\ effects'[e].audited = 0
    BY <1>3, <1>7 DEF NoEffect
  <2>2. \A f \in Published :
          Has(f, "AuditAgent", "WORKFLOW_FAILED") =>
            Has(f, "AuditAgent", "WORKFLOW_FAILED")'
    BY <1>3 DEF Has, Child
  <2>3. faults \in Nat
    BY DEF BusInvariant, BusShape
  <2> QED BY <1>3, <1>5, <1>6, <2>1, <2>2, <2>3 DEF BusInvariant, RowOrReason
<1>17. RunningIsReal'
  BY <1>3, <1>5 DEF BusInvariant, RunningIsReal, InProgress
<1> QED BY <1>9, <1>10, <1>13, <1>15, <1>16, <1>17 DEF BusInvariant

LEMMA InitBus == BusInit => BusInvariant
<1> SUFFICES ASSUME BusInit PROVE BusInvariant
  OBVIOUS
<1>1. Published = {} /\ ReadyEvents = {}
  BY DEF BusInit, Published, ReadyEvents
<1>2. IsFiniteSet({})
  BY FS_EmptySet
<1> QED BY <1>1, <1>2, BusAssumption
        DEF BusInit, BusInvariant, BusShape, EventsNamed, ChildrenNamed,
            OverMeansSettled, RowOrReason, RunningIsReal, Published

LEMMA NextBus ==
  ASSUME BusInvariant, [BusNext]_vars
  PROVE  BusInvariant'
<1>1. CASE UNCHANGED busVars
  <2> USE <1>1 DEF busVars, BusInvariant
  <2>1. Published' = Published /\ ReadyEvents' = ReadyEvents
    BY DEF Published, ReadyEvents
  <2>2. BusShape' /\ EventsNamed'
    BY <2>1 DEF BusShape, EventsNamed, Child
  <2>3. ChildrenNamed'
    BY <2>1 DEF ChildrenNamed, Child
  <2>4. OverMeansSettled'
    BY <2>1 DEF OverMeansSettled, Settled, Child
  <2>5. RowOrReason'
    BY <2>1 DEF RowOrReason, Has, Child
  <2>6. RunningIsReal'
    BY <2>1 DEF RunningIsReal, InProgress
  <2> QED BY <2>2, <2>3, <2>4, <2>5, <2>6
<1>2. ASSUME NEW w \in Workflows, CreateWorkflow(w) \/ NextStep(w)
      PROVE  BusInvariant'
  <2>1. Ready(w) /\ accepted' \subseteq Workflows
    BY <1>2 DEF CreateWorkflow, NextStep, BusInvariant, BusShape
  <2> QED BY <2>1, ReadyKeeps
<1>3. ASSUME NEW e \in Published, NEW h \in Agents, Step(e, h)
      PROVE  BusInvariant'
  BY <1>3, HandlersKeep
<1> QED BY <1>1, <1>2, <1>3 DEF BusNext, Passes, TooManyRequests, vars

\* The bus keeps its invariant, whatever is written, raised, retried or
\* published, and in whatever order the tasks run.
THEOREM BusCorrect == BusSpec => []BusInvariant
<1>1. BusInvariant /\ [BusNext]_vars => BusInvariant'
  BY NextBus
<1> QED BY InitBus, <1>1, PTL DEF BusSpec

\* BusTypeOK.
THEOREM BusTypeCorrect == BusSpec => []BusTypeOK
<1>1. LimiterInvariant /\ BusInvariant => BusTypeOK
  BY DEF LimiterInvariant, BusInvariant, BusShape, BusTypeOK, EventRecords,
         TaskRecords
<1> QED BY <1>1, BusImplementsLimiter, LimiterCorrect, BusCorrect, PTL

\* OverMeansSettled: when publish() returns, the cascade behind it is over,
\* the handlers of announced failures included.
THEOREM ReturnsAfterItsCascade == BusSpec => []OverMeansSettled
<1>1. BusInvariant => OverMeansSettled
  BY DEF BusInvariant
<1> QED BY <1>1, BusCorrect, PTL

\* AuditedOrAnnounced: a settled event has one audit row, or its lack was
\* announced, or more writes raised than one handler has attempts.
THEOREM AuditTrailComplete == BusSpec => []AuditedOrAnnounced
<1>1. BusInvariant => AuditedOrAnnounced
  <2> SUFFICES ASSUME BusInvariant, NEW e \in Published
               PROVE  /\ effects[e].audited <= 1
                      /\ Settled(e) =>
                           \/ effects[e].audited = 1
                           \/ Has(e, "AuditAgent", "WORKFLOW_FAILED")
                           \/ faults > MaxAttempts
    BY DEF AuditedOrAnnounced
  <2>1. /\ "AuditAgent" \in DOMAIN tasks[e]
        /\ tasks[e]["AuditAgent"].at \in
             {"due", "publishing", "announcing", "over"}
    BY DEF BusInvariant, BusShape, Subscribers, TaskRecords
  <2> QED BY <2>1 DEF BusInvariant, RowOrReason, Settled
<1> QED BY <1>1, BusCorrect, PTL

\* RunningIsReal: an agent the registry shows as running has a run in progress.
THEOREM ShownRunningIsRunning == BusSpec => []RunningIsReal
<1>1. BusInvariant => RunningIsReal
  BY DEF BusInvariant
<1> QED BY <1>1, BusCorrect, PTL

\* The tries of ApplicationAgent rise without a failed write only through a
\* refusal.
LEMMA RefusedOrFailed ==
  ASSUME BusInvariant, NEW e \in Published, ApplicationAgent(e),
         tasks'[e]["ApplicationAgent"].tries
           > tasks[e]["ApplicationAgent"].tries,
         faults' = faults
  PROVE  Refuse(events[e].workflow)
<1> DEFINE h == "ApplicationAgent"
<1>1. h \in DOMAIN tasks[e] /\ tasks[e][h].at = "due"
  BY DEF ApplicationAgent, Attempts
<1>2. tasks[e][h].tries \in Nat /\ faults \in Nat
  BY <1>1, BusAssumption DEF BusInvariant, BusShape, TaskRecords
<1>3. ~Raises(e, h, 1, Filed(e))
  BY <1>2 DEF Raises
<1>4. ~PublishSubmitted(e)
  <2>1. SUFFICES ASSUME PublishSubmitted(e) PROVE FALSE
    OBVIOUS
  <2>2. Child(e, h) \notin Published
    BY <1>1 DEF BusInvariant, ChildrenNamed
  <2>3. DOMAIN Becomes(e, h, "publishing") = Published
        /\ DOMAIN Filed(e) = Published
    BY <1>1, TasksTable, EffectsTable DEF TaskTable, Behind
  <2>4. tasks'[e] = Becomes(e, h, "publishing")[e]
    <3> DEFINE c == Child(e, h)
               event == Event("APPLICATION_SUBMITTED", events[e].workflow)
    <3>1. /\ Publish(c, event, Becomes(e, h, "publishing"), Filed(e))
          /\ c \notin Published
      BY <2>1, <2>2 DEF PublishSubmitted
    <3> HIDE DEF c, event
    <3>2. \A f \in Published : tasks'[f] = Becomes(e, h, "publishing")[f]
      BY <2>3, <3>1, PublishLeaves
    <3> QED BY <3>2
  <2>5. Becomes(e, h, "publishing")[e][h].tries = tasks[e][h].tries
    BY <1>1 DEF Becomes, BusInvariant, BusShape, TaskRecords
  <2> QED BY <1>2, <2>4, <2>5
<1> QED BY <1>3, <1>4 DEF ApplicationAgent, ToolRefused

\* RefusedOnlyWhenFull: a call is refused only if the window really holds as
\* many admitted calls as the limit allows.
THEOREM RefusalsAreDue == BusSpec => RefusedOnlyWhenFull
<1> DEFINE A == "ApplicationAgent"
<1>1. ASSUME LimiterInvariant, BusInvariant, [BusNext]_vars,
             NEW w \in Workflows, NEW e \in Published,
             events[e].workflow = w, A \in DOMAIN tasks[e],
             tasks'[e][A].tries > tasks[e][A].tries, faults' = faults
      PROVE  Cardinality(InWindow(w)) >= Limit[w]
  <2>1. tasks[e][A].tries \in Nat
    BY <1>1, BusAssumption DEF BusInvariant, BusShape, TaskRecords
  <2>2. tasks'[e] # tasks[e]
    BY <1>1, <2>1
  <2>3. ~UNCHANGED busVars
    BY <2>2 DEF busVars
  <2>4. ASSUME NEW v \in Workflows, Ready(v)
        PROVE  FALSE
    <3>1. DOMAIN tasks = Published /\ DOMAIN effects = Published
      BY <1>1 DEF BusInvariant, BusShape
    <3>2. tasks'[e] = tasks[e]
      <4> DEFINE c == <<Cardinality(ReadyEvents) + 1>>
                 event == Event("APPLICATION_READY", v)
      <4>1. Publish(c, event, tasks, effects) /\ c \notin Published
        BY <1>1, <2>4, NextGoalIsNew DEF Ready
      <4> HIDE DEF c, event
      <4>2. \A d \in Published : tasks'[d] = tasks[d]
        BY <3>1, <4>1, PublishLeaves
      <4> QED BY <1>1, <4>2
    <3> QED BY <2>2, <3>2
  <2>5. PICK f \in Published, h \in Agents : Step(f, h)
    BY <1>1, <2>3, <2>4
    DEF BusNext, Passes, TooManyRequests, CreateWorkflow, NextStep, vars
  <2>6. PICK born : \E new \in TaskRecords : TaskStep(f, h, new, born)
    BY <1>1, <2>5, StepIsTaskStep
  <2>. PICK new \in TaskRecords : TaskStep(f, h, new, born)
    BY <2>6
  <2>7. f = e /\ h = A
    BY <1>1, <2>1, <2>5, <2>6, StepIsTaskStep, TasksAfter
  <2>8. ~PublishReturns(e, A)
    <3>1. SUFFICES ASSUME PublishReturns(e, A) PROVE FALSE
      OBVIOUS
    <3>2. Becomes(e, A, "over")[e][A].tries = tasks[e][A].tries
      BY <1>1 DEF Becomes, BusInvariant, BusShape, TaskRecords
    <3> QED BY <1>1, <2>1, <3>1, <3>2 DEF PublishReturns
  <2>9. ApplicationAgent(e)
    BY <2>5, <2>7, <2>8 DEF Step
  <2>10. Full(w)
    BY <1>1, <2>9, RefusedOrFailed DEF Refuse
  <2>11. Recent(w) = InWindow(w)
    BY <1>1, RecentIsWindow, BusAssumption DEF LimiterInvariant
  <2> QED BY <2>10, <2>11 DEF Full
<1>2. LimiterInvariant /\ BusInvariant /\ [BusNext]_vars =>
        [\A w \in Workflows, e \in Published :
           /\ events[e].workflow = w
           /\ "ApplicationAgent" \in DOMAIN tasks[e]
           /\ tasks'[e]["ApplicationAgent"].tries
                > tasks[e]["ApplicationAgent"].tries
           /\ faults' = faults
           => Cardinality(InWindow(w)) >= Limit[w]]_vars
  BY <1>1
<1> QED BY <1>2, BusImplementsLimiter, LimiterCorrect, BusCorrect, PTL
        DEF BusSpec, RefusedOnlyWhenFull

----------------------------------------------------------------------------
(* Repetitions.  What is stored of a notification while its task is due will *)
(* be stored once more, so until then each of its rows counts; then a row or *)
(* an application is added to the account only by an attempt that raised for *)
(* a failed write.                                                           *)

Counted(e) ==
  IF /\ "NotificationAgent" \in DOMAIN tasks[e]
     /\ tasks[e]["NotificationAgent"].at = "due"
  THEN effects[e].notified ELSE Duplicates(e)

Account ==
  UNION {({<<e, "filed">>} \X (1..Orphans(e)))
           \cup ({<<e, "notified">>} \X (1..Counted(e))) : e \in Published}

AccountPaid == IsFiniteSet(Account) /\ Cardinality(Account) <= faults

LEMMA InAccount ==
  \A x : x \in Account <=>
    \E f \in Published, k \in Int :
      \/ x = <<<<f, "filed">>, k>> /\ k \in 1..Orphans(f)
      \/ x = <<<<f, "notified">>, k>> /\ k \in 1..Counted(f)
BY DEF Account

\* The numbers in it.
LEMMA AccountNumbers ==
  ASSUME BusShape, NEW e \in Published
  PROVE  /\ Orphans(e) \in Int /\ Counted(e) \in Nat /\ Duplicates(e) \in Nat
         /\ Duplicates(e) <= Counted(e) /\ Counted(e) <= effects[e].notified
         /\ effects[e].filed \in Nat /\ effects[e].notified \in Nat
<1>1. effects[e].filed \in Nat /\ effects[e].notified \in Nat
  BY DEF BusShape, EffectRecords
<1>2. /\ Duplicates(e) \in Nat /\ Duplicates(e) <= effects[e].notified
      /\ Orphans(e) \in Int
  BY <1>1 DEF Duplicates, Orphans
<1> QED BY <1>1, <1>2 DEF Counted

LEMMA AccountOfInts ==
  BusShape => \A f \in Published : Orphans(f) \in Int /\ Counted(f) \in Int
BY AccountNumbers

\* What one event may add to the account: nothing, or one entry for a write
\* that failed.
Charges(e) ==
  \/ Orphans(e)' <= Orphans(e) /\ Counted(e)' <= Counted(e)
  \/ /\ faults' > faults
     /\ \/ Orphans(e)' <= Orphans(e) + 1 /\ Counted(e)' <= Counted(e)
        \/ Orphans(e)' <= Orphans(e) /\ Counted(e)' <= Counted(e) + 1

\* If one event is charged and new ones have no effects yet, the account stays
\* paid.
LEMMA ChargesArePaid ==
  ASSUME BusShape, BusShape', AccountPaid,
         NEW e, e \in Published => Charges(e),
         NEW born, Published' = Published \cup born,
         \A f \in Published : f # e =>
           Orphans(f)' <= Orphans(f) /\ Counted(f)' <= Counted(f),
         \A f \in born : Orphans(f)' <= 0 /\ Counted(f)' <= 0,
         faults' >= faults
  PROVE  AccountPaid'
<1>1. /\ \A f \in Published : Orphans(f) \in Int /\ Counted(f) \in Int
      /\ \A f \in Published' : Orphans(f)' \in Int /\ Counted(f)' \in Int
  <2>1. (BusShape => \A f \in Published :
                       Orphans(f) \in Int /\ Counted(f) \in Int)'
    BY AccountOfInts, PTL
  <2> QED BY <2>1, AccountOfInts
<1>2. \A x : x \in Account' <=>
        \E f \in Published', k \in Int :
          \/ x = <<<<f, "filed">>, k>> /\ k \in 1..Orphans(f)'
          \/ x = <<<<f, "notified">>, k>> /\ k \in 1..Counted(f)'
  <2>1. (\A x : x \in Account <=>
           \E f \in Published, k \in Int :
             \/ x = <<<<f, "filed">>, k>> /\ k \in 1..Orphans(f)
             \/ x = <<<<f, "notified">>, k>> /\ k \in 1..Counted(f))'
    BY InAccount, PTL
  <2> QED BY <2>1
<1>3. ASSUME NEW new, Account' \subseteq Account \cup {new},
             Account' \subseteq Account \/ faults' > faults
      PROVE  AccountPaid'
  <2>1. IsFiniteSet(Account) /\ Cardinality(Account) <= faults
    BY DEF AccountPaid
  <2>2. /\ IsFiniteSet(Account \cup {new})
        /\ Cardinality(Account \cup {new}) =
             IF new \in Account THEN Cardinality(Account)
             ELSE Cardinality(Account) + 1
    BY <2>1, FS_AddElement
  <2>3. /\ IsFiniteSet(Account')
        /\ Cardinality(Account') <= Cardinality(Account \cup {new})
        /\ Account' \subseteq Account =>
             Cardinality(Account') <= Cardinality(Account)
    BY <1>3, <2>1, <2>2, FS_Subset
  <2>4. Cardinality(Account) \in Nat /\ Cardinality(Account') \in Nat
    BY <2>1, <2>3, FS_CardinalityType
  <2>5. faults \in Nat /\ faults' \in Nat
    BY BusAssumption DEF BusShape
  <2>6. Cardinality(Account') <= faults'
    <3>1. CASE Account' \subseteq Account
      BY <2>1, <2>3, <2>4, <2>5, <3>1
    <3>2. CASE faults' > faults
      <4>1. Cardinality(Account') <= Cardinality(Account) + 1
        BY <2>2, <2>3, <2>4
      <4> QED BY <2>1, <2>4, <2>5, <3>2, <4>1
    <3> QED BY <1>3, <3>1, <3>2
  <2> QED BY <2>3, <2>6 DEF AccountPaid
<1>4. CASE /\ \A f \in Published : /\ Orphans(f)' <= Orphans(f)
                                   /\ Counted(f)' <= Counted(f)
  <2>1. Account' \subseteq Account
    BY <1>1, <1>2, <1>4, InAccount
  <2> QED BY <1>3, <2>1
<1>5. CASE /\ faults' > faults
           /\ Orphans(e)' <= Orphans(e) + 1 /\ Counted(e)' <= Counted(e)
  <2>1. Account' \subseteq Account \cup {<<<<e, "filed">>, Orphans(e) + 1>>}
    BY <1>1, <1>2, <1>5, InAccount
  <2> QED BY <1>3, <1>5, <2>1
<1>6. CASE /\ faults' > faults
           /\ Orphans(e)' <= Orphans(e) /\ Counted(e)' <= Counted(e) + 1
  <2>1. Account' \subseteq Account \cup {<<<<e, "notified">>, Counted(e) + 1>>}
    BY <1>1, <1>2, <1>6, InAccount
  <2> QED BY <1>3, <1>6, <2>1
<1> QED BY <1>4, <1>5, <1>6 DEF Charges

\* An event whose effects stay charges nothing: its task may get over what it
\* has due, and what it has published stays published.
LEMMA NoEffectNoCharge ==
  ASSUME BusShape, NEW f \in Published,
         DOMAIN tasks'[f] = DOMAIN tasks[f],
         \A g \in DOMAIN tasks[f] :
           tasks'[f][g].at = "due" => tasks[f][g].at = "due",
         Has(f, "ApplicationAgent", "APPLICATION_SUBMITTED") =>
           Has(f, "ApplicationAgent", "APPLICATION_SUBMITTED")'
  PROVE  /\ effects'[f].filed = effects[f].filed =>
              Orphans(f)' <= Orphans(f)
         /\ effects'[f].notified = effects[f].notified =>
              Counted(f)' <= Counted(f)
<1> DEFINE has == Has(f, "ApplicationAgent", "APPLICATION_SUBMITTED")
<1>1. effects[f].filed \in Nat /\ effects[f].notified \in Nat
  BY AccountNumbers
<1>2. ASSUME effects'[f].filed = effects[f].filed
      PROVE  Orphans(f)' <= Orphans(f)
  <2>1. /\ Orphans(f)' = effects'[f].filed - IF has' THEN 1 ELSE 0
        /\ Orphans(f) = effects[f].filed - IF has THEN 1 ELSE 0
    BY DEF Orphans
  <2>2. has => has'
    OBVIOUS
  <2> HIDE DEF has
  <2> QED BY <1>1, <1>2, <2>1, <2>2
<1>3. ASSUME effects'[f].notified = effects[f].notified
      PROVE  Counted(f)' <= Counted(f)
  <2>1. Duplicates(f)' = Duplicates(f)
    BY <1>3 DEF Duplicates
  <2>2. Duplicates(f) \in Nat /\ Duplicates(f) <= effects[f].notified
    BY AccountNumbers
  <2>3. Counted(f)' = IF /\ "NotificationAgent" \in DOMAIN tasks'[f]
                         /\ tasks'[f]["NotificationAgent"].at = "due"
                      THEN effects'[f].notified ELSE Duplicates(f)'
    BY DEF Counted
  <2> QED BY <1>1, <1>3, <2>1, <2>2, <2>3 DEF Counted
<1> QED BY <1>2, <1>3

\* A new event has no effects.
LEMMA NewEventNoCharge ==
  ASSUME NEW f, effects'[f] = NoEffect
  PROVE  Orphans(f)' <= 0 /\ Counted(f)' <= 0
<1>1. effects'[f].filed = 0 /\ effects'[f].notified = 0
  BY DEF NoEffect
<1>2. Duplicates(f)' = 0
  BY <1>1 DEF Duplicates
<1>3. Counted(f)' = 0
  BY <1>1, <1>2 DEF Counted
<1>4. Orphans(f)' <= 0
  <2> DEFINE has == Has(f, "ApplicationAgent", "APPLICATION_SUBMITTED")
  <2>1. Orphans(f)' = effects'[f].filed - IF has' THEN 1 ELSE 0
    BY DEF Orphans
  <2> HIDE DEF has
  <2> QED BY <1>1, <2>1
<1> QED BY <1>3, <1>4

LEMMA TaskStepCharges ==
  ASSUME BusInvariant, NEW e \in Published, NEW h \in DOMAIN tasks[e],
         NEW new \in TaskRecords, NEW born, TaskStep(e, h, new, born)
  PROVE  /\ Published' = Published \cup born /\ faults' >= faults
         /\ \A f \in Published : f # e =>
              Orphans(f)' <= Orphans(f) /\ Counted(f)' <= Counted(f)
         /\ \A f \in born : Orphans(f)' <= 0 /\ Counted(f)' <= 0
         /\ effects'[e].filed = effects[e].filed =>
              Orphans(e)' <= Orphans(e)
         /\ effects'[e].notified = effects[e].notified =>
              Counted(e)' <= Counted(e)
<1>1. Published' = Published \cup born /\ faults' >= faults
  BY BusAssumption DEF TaskStep, Others, BusInvariant, BusShape
<1>2. ASSUME NEW f \in Published
      PROVE  /\ effects'[f].filed = effects[f].filed =>
                  Orphans(f)' <= Orphans(f)
             /\ effects'[f].notified = effects[f].notified =>
                  Counted(f)' <= Counted(f)
  <2>1. DOMAIN tasks'[f] = DOMAIN tasks[f]
    BY TasksAfter
  <2>2. \A g \in DOMAIN tasks[f] :
          tasks'[f][g].at = "due" => tasks[f][g].at = "due"
    BY TasksAfter DEF TaskStep, Lifecycle
  <2>3. Has(f, "ApplicationAgent", "APPLICATION_SUBMITTED") =>
          Has(f, "ApplicationAgent", "APPLICATION_SUBMITTED")'
    BY HasStays
  <2> QED BY <2>1, <2>2, <2>3, NoEffectNoCharge DEF BusInvariant
<1>3. \A f \in Published : f # e => effects'[f] = effects[f]
  BY DEF TaskStep, Others
<1>4. \A f \in born : Orphans(f)' <= 0 /\ Counted(f)' <= 0
  BY NewEventNoCharge DEF TaskStep, Others
<1> QED BY <1>1, <1>2, <1>3, <1>4

\* An attempt that raises leaves behind what it has done, and if a write was
\* the cause, a write has failed.
LEMMA RaisingLeaves ==
  ASSUME BusInvariant, NEW e \in Published, NEW h \in DOMAIN tasks[e],
         tasks[e][h].at = "due", NEW n \in {0, 1}, NEW fx, Behind(e, fx),
         Raises(e, h, n, fx)
  PROVE  /\ effects'[e] = fx[e]
         /\ faults' >= faults + n /\ (n = 1 => faults' > faults)
<1>1. faults \in Nat
  BY DEF BusInvariant, BusShape
<1>2. faults' \in {faults + n, faults + n + 1}
  BY DEF Raises
<1>3. effects' = fx \/ Publish(Child(e, h), Failure(e),
                               Attempted(e, h, "announcing"), fx)
  BY DEF Raises
<1>4. CASE Publish(Child(e, h), Failure(e), Attempted(e, h, "announcing"), fx)
  <2> DEFINE c == Child(e, h)
             failure == Failure(e)
             ts == Attempted(e, h, "announcing")
  <2>1. c \notin Published
    BY DEF BusInvariant, ChildrenNamed
  <2>2. DOMAIN ts = Published /\ DOMAIN fx = Published
    BY TasksTable DEF TaskTable, Behind
  <2>3. Publish(c, failure, ts, fx)
    BY <1>4
  <2> HIDE DEF c, failure, ts
  <2>4. \A f \in Published : effects'[f] = fx[f]
    BY <2>1, <2>2, <2>3 DEF Publish, Extended
  <2> QED BY <1>1, <1>2, <2>4
<1> QED BY <1>1, <1>2, <1>3, <1>4

\* A step of a handler charges its event, and only for a failed write.
LEMMA StepCharges ==
  ASSUME BusInvariant, NEW e \in Published, NEW h \in Agents, Step(e, h)
  PROVE  Charges(e)
<1>1. h \in DOMAIN tasks[e]
  BY StepIsTaskStep
<1>2. /\ effects'[e].filed = effects[e].filed => Orphans(e)' <= Orphans(e)
      /\ effects'[e].notified = effects[e].notified =>
           Counted(e)' <= Counted(e)
  BY <1>1, StepIsTaskStep, TaskStepCharges
<1>3. /\ BusShape /\ faults \in Nat
      /\ effects[e].filed \in Nat /\ effects[e].notified \in Nat
      /\ e \in DOMAIN effects
      /\ Orphans(e) \in Int /\ Counted(e) \in Nat
  BY AccountNumbers DEF BusInvariant, BusShape
<1>4. /\ Filed(e)[e].filed = effects[e].filed + 1
      /\ Filed(e)[e].notified = effects[e].notified
      /\ Notified(e)[e].filed = effects[e].filed
      /\ Notified(e)[e].notified = effects[e].notified + 1
      /\ Audited(e)[e].filed = effects[e].filed
      /\ Audited(e)[e].notified = effects[e].notified
  BY <1>3 DEF BusShape, EffectRecords, Filed, Notified, Audited
<1>5. /\ Behind(e, effects) /\ Behind(e, Filed(e))
      /\ Behind(e, Notified(e)) /\ Behind(e, Audited(e))
  BY EffectsTable
<1>6. ASSUME effects'[e].filed = effects[e].filed,
             effects'[e].notified = effects[e].notified
      PROVE  Charges(e)
  BY <1>2, <1>6 DEF Charges
<1>7. CASE h = "AuditAgent" /\ AuditAgent(e)
  <2>1. tasks[e][h].at = "due"
    BY <1>7 DEF AuditAgent, Attempts
  <2>2. effects'[e] = Audited(e)[e] \/ effects'[e] = effects[e]
    BY <1>1, <1>5, <1>7, <2>1, RaisingLeaves DEF AuditAgent, Succeeds
  <2> QED BY <1>4, <1>6, <2>2
<1>8. CASE h = "NotificationAgent" /\ NotificationAgent(e)
  <2>1. tasks[e][h].at = "due"
    BY <1>8 DEF NotificationAgent, Attempts
  <2>2. Counted(e) = effects[e].notified
    BY <1>1, <1>8, <2>1 DEF Counted
  <2>3. CASE Succeeds(e, h, Notified(e))
    <3>1. effects' = Notified(e) /\ tasks' = Becomes(e, h, "over")
      BY <2>3 DEF Succeeds
    <3>2. Becomes(e, h, "over")[e][h].at = "over"
      BY <1>1, <1>3 DEF Becomes, BusShape, TaskRecords
    <3>3. Duplicates(e)' = effects[e].notified
      BY <1>3, <1>4, <3>1 DEF Duplicates
    <3>4. Counted(e)' = Duplicates(e)'
      BY <1>8, <3>1, <3>2 DEF Counted
    <3> QED BY <1>2, <1>3, <1>4, <2>2, <3>1, <3>3, <3>4 DEF Charges
  <2>4. CASE Raises(e, h, 1, effects)
    <3>1. effects'[e] = effects[e]
      BY <1>1, <1>5, <2>1, <2>4, RaisingLeaves
    <3> QED BY <1>6, <3>1
  <2>5. CASE Raises(e, h, 1, Notified(e))
    <3>1. effects'[e] = Notified(e)[e] /\ faults' > faults
      BY <1>1, <1>5, <2>1, <2>5, RaisingLeaves
    <3>2. Counted(e)' <= effects'[e].notified
      <4>1. effects'[e].notified \in Nat
        BY <1>3, <1>4, <3>1
      <4>2. Duplicates(e)' <= effects'[e].notified
        BY <4>1 DEF Duplicates
      <4> QED BY <4>1, <4>2 DEF Counted
    <3> QED BY <1>2, <1>3, <1>4, <2>2, <3>1, <3>2 DEF Charges
  <2> QED BY <1>8, <2>3, <2>4, <2>5 DEF NotificationAgent
<1>9. CASE h = "ApplicationAgent" /\ ApplicationAgent(e)
  <2>1. tasks[e][h].at = "due"
    BY <1>9 DEF ApplicationAgent, Attempts
  <2>2. ~Has(e, "ApplicationAgent", "APPLICATION_SUBMITTED")
    BY <1>1, <1>9, <2>1 DEF BusInvariant, ChildrenNamed, Has
  <2>3. Orphans(e) = effects[e].filed
    BY <1>3, <2>2 DEF Orphans
  <2>4. CASE Raises(e, h, 0, effects)
    <3>1. effects'[e] = effects[e]
      BY <1>1, <1>5, <2>1, <2>4, RaisingLeaves
    <3> QED BY <1>6, <3>1
  <2>5. CASE Raises(e, h, 1, Filed(e))
    <3>1. effects'[e] = Filed(e)[e] /\ faults' > faults
      BY <1>1, <1>5, <2>1, <2>5, RaisingLeaves
    <3>2. Orphans(e)' \in {effects[e].filed + 1, effects[e].filed}
      BY <1>3, <1>4, <3>1 DEF Orphans
    <3> QED BY <1>2, <1>3, <1>4, <2>3, <3>1, <3>2 DEF Charges
  <2>6. CASE PublishSubmitted(e)
    <3> DEFINE c == Child(e, h)
               event == Event("APPLICATION_SUBMITTED", events[e].workflow)
               ts == Becomes(e, h, "publishing")
               fx == Filed(e)
    <3>1. c \notin Published
      BY <1>1, <2>1 DEF BusInvariant, ChildrenNamed
    <3>2. DOMAIN ts = Published /\ DOMAIN fx = Published
      BY <1>1, <1>5, TasksTable DEF TaskTable, Behind
    <3>3. Publish(c, event, ts, fx)
      BY <1>9, <2>6 DEF PublishSubmitted
    <3>4. event.type = "APPLICATION_SUBMITTED"
      BY DEF Event
    <3>5. Published' = Published \cup {c} /\ events'[c] = event
          /\ effects'[e] = fx[e]
      <4> HIDE DEF c, event, ts, fx
      <4> QED BY <3>1, <3>2, <3>3 DEF Publish, Extended, Published
    <3>6. Has(e, "ApplicationAgent", "APPLICATION_SUBMITTED")'
      BY <1>9, <3>4, <3>5 DEF Has, Child
    <3>7. effects'[e].filed = effects[e].filed + 1
          /\ effects'[e].notified = effects[e].notified
      BY <1>4, <3>5
    <3>8. Orphans(e)' = effects[e].filed
      BY <1>3, <3>6, <3>7 DEF Orphans
    <3> QED BY <1>2, <1>3, <2>3, <3>7, <3>8 DEF Charges
  <2> QED BY <1>9, <2>4, <2>5, <2>6 DEF ApplicationAgent, ToolRefused
<1>10. CASE h \in DOMAIN tasks[e] /\ PublishReturns(e, h)
  BY <1>6, <1>10 DEF PublishReturns
<1> QED BY <1>7, <1>8, <1>9, <1>10 DEF Step

\* A new goal has charged nothing yet.
LEMMA ReadyKeepsAccount ==
  ASSUME BusInvariant, BusInvariant', AccountPaid, NEW w \in Workflows, Ready(w)
  PROVE  AccountPaid'
<1> DEFINE e == <<Cardinality(ReadyEvents) + 1>>
           event == Event("APPLICATION_READY", w)
<1>1. Publish(e, event, tasks, effects) /\ faults' = faults
  BY DEF Ready
<1>2. /\ e \notin Published /\ DOMAIN tasks = Published
      /\ DOMAIN effects = Published /\ faults \in Nat
  BY NextGoalIsNew DEF BusInvariant, BusShape
<1> HIDE DEF e, event
<1>3. /\ Published' = Published \cup {e}
      /\ \A f \in Published : /\ events'[f] = events[f]
                              /\ tasks'[f] = tasks[f]
                              /\ effects'[f] = effects[f]
      /\ effects'[e] = NoEffect
  BY <1>1, <1>2 DEF Publish, Extended, Published
<1>4. ASSUME NEW f \in Published
      PROVE  Orphans(f)' <= Orphans(f) /\ Counted(f)' <= Counted(f)
  <2>1. Has(f, "ApplicationAgent", "APPLICATION_SUBMITTED") =>
          Has(f, "ApplicationAgent", "APPLICATION_SUBMITTED")'
    BY <1>3 DEF Has, Child
  <2> QED BY <1>3, <2>1, NoEffectNoCharge DEF BusInvariant
<1> DEFINE born == {e}
<1>5. \A f \in born : Orphans(f)' <= 0 /\ Counted(f)' <= 0
  BY <1>3, NewEventNoCharge
<1>6. BusShape /\ BusShape' /\ faults' >= faults
  BY <1>1, <1>2 DEF BusInvariant
<1>7. Published' = Published \cup born
  BY <1>3
<1>8. \A f \in Published :
        f # e => Orphans(f)' <= Orphans(f) /\ Counted(f)' <= Counted(f)
  BY <1>4
<1>9. e \in Published => Charges(e)
  BY <1>2
<1> HIDE DEF born
<1> QED BY <1>5, <1>6, <1>7, <1>8, <1>9, ChargesArePaid

\* RepetitionsPaidFor: every application the government has that nothing tells
\* of, and every notification past the first, was paid for by a failed write.
THEOREM RepetitionsArePaidFor == BusSpec => []RepetitionsPaidFor
<1>1. BusInit => AccountPaid
  <2> SUFFICES ASSUME BusInit PROVE AccountPaid
    OBVIOUS
  <2>1. Account = {} /\ faults = 0
    BY DEF BusInit, Account, Published
  <2> QED BY <2>1, FS_EmptySet DEF AccountPaid
<1>2. ASSUME BusInvariant, BusInvariant', AccountPaid, [BusNext]_vars
      PROVE  AccountPaid'
  <2>1. CASE UNCHANGED busVars
    <3>1. Account' = Account /\ faults' = faults
      BY <2>1 DEF Account, Published, Orphans, Counted, Duplicates, Has, Child,
                  busVars
    <3> QED BY <1>2, <3>1 DEF AccountPaid
  <2>2. ASSUME NEW w \in Workflows, CreateWorkflow(w) \/ NextStep(w)
        PROVE  AccountPaid'
    BY <1>2, <2>2, ReadyKeepsAccount DEF CreateWorkflow, NextStep
  <2>3. ASSUME NEW e \in Published, NEW h \in Agents, Step(e, h)
        PROVE  AccountPaid'
    <3>1. h \in DOMAIN tasks[e] /\ Charges(e)
      BY <1>2, <2>3, StepIsTaskStep, StepCharges
    <3>2. PICK born : \E new \in TaskRecords : TaskStep(e, h, new, born)
      BY <1>2, <2>3, StepIsTaskStep
    <3>3. /\ Published' = Published \cup born /\ faults' >= faults
          /\ \A f \in Published : f # e =>
               Orphans(f)' <= Orphans(f) /\ Counted(f)' <= Counted(f)
          /\ \A f \in born : Orphans(f)' <= 0 /\ Counted(f)' <= 0
      BY <1>2, <3>1, <3>2, TaskStepCharges
    <3> QED BY <1>2, <3>1, <3>3, ChargesArePaid DEF BusInvariant
  <2> QED BY <1>2, <2>1, <2>2, <2>3 DEF BusNext, Passes, TooManyRequests, vars
<1>3. ASSUME BusInvariant, AccountPaid
      PROVE  RepetitionsPaidFor
  <2>1. \A e \in Published : /\ Duplicates(e) \in Nat /\ Counted(e) \in Nat
                             /\ Duplicates(e) <= Counted(e)
    BY <1>3, AccountNumbers DEF BusInvariant
  <2>2. Repetitions \subseteq Account
    BY <2>1 DEF Repetitions, Account
  <2>3. /\ IsFiniteSet(Repetitions)
        /\ Cardinality(Repetitions) <= Cardinality(Account)
    BY <1>3, <2>2, FS_Subset DEF AccountPaid
  <2>4. Cardinality(Repetitions) \in Nat /\ Cardinality(Account) \in Nat
    BY <1>3, <2>3, FS_CardinalityType DEF AccountPaid
  <2>5. faults \in Nat
    BY <1>3 DEF BusInvariant, BusShape
  <2> QED BY <1>3, <2>3, <2>4, <2>5 DEF RepetitionsPaidFor, AccountPaid
<1> QED BY <1>1, <1>2, <1>3, BusCorrect, PTL DEF BusSpec

============================================================================
