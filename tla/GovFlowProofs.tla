---------------------------- MODULE GovFlowProofs ---------------------------
(***************************************************************************)
(* The whole backend: what the agents, the polling tasks and the user do    *)
(* together.                                                                *)
(***************************************************************************)
EXTENDS GovFlow, WorkflowEngineProofs, FiniteSetTheorems

----------------------------------------------------------------------------
(* Frames: what the thread of an event carries, by the event.  The number of *)
(* an application has no bound here, that is a matter of counting.           *)

Carried ==
  [at : {"idle", "done"} \cup EventTypes \cup Continuations,
   step : Steps \cup {NoStep},
   action : {"retry", "abandon"},
   app : Nat,
   attempt : 0..(MaxPolls - 1),
   steps : SUBSET Steps,
   tries : 0..(Attempts - 1)]

RootAt ==
  {"USER_REQUEST_CREATED", "GOAL_ANALYZED", "REQUIREMENTS_IDENTIFIED",
   "WORKFLOW_CREATED", "creating"}
VerdictAt == {"polling", "APPLICATION_APPROVED", "APPLICATION_REJECTED"}
LoopAt ==
  {"checklist", "DOCUMENTS_VALIDATED", "APPLICATION_READY",
   "APPLICATION_SUBMITTED"}

FrameShape(f) ==
  /\ f.at \in RootAt \cup {"idle", "done", "NEXT_ACTION_TRIGGERED"} =>
       f.step = NoStep
  /\ f.at \in RootAt \cup VerdictAt \cup {"idle", "done", "WORKFLOW_RESUMED"} =>
       f.steps = {}
  /\ f.at \in {"NEXT_ACTION_TRIGGERED", "checklist"} => Todo(f) # {}
  /\ f.at \in LoopAt => f.step \in f.steps
  /\ f.at \in VerdictAt \cup {"DOCUMENT_MISSING"} => f.step \in Steps
  /\ f.at = "DOCUMENT_MISSING" => f.steps = {} \/ f.step \in f.steps
  /\ f.at \notin {"polling", "APPLICATION_SUBMITTED"} => f.app = 0

Frames == {f \in Carried : FrameShape(f)}

FramesTyped == chain \in [Threads -> Frames]

LEMMA ThreadNames ==
  /\ Root \in Threads /\ Root \notin Polls
  /\ Polls \subseteq Threads
  /\ \A r \in 1..MaxRequests :
       Resume(r) \in Threads /\ Resume(r) # Root /\ Resume(r) \notin Polls
  /\ \A a, b : Poll(a) = Poll(b) => a = b
  /\ \A a, b : Resume(a) = Resume(b) => a = b
BY DEF Threads, Root, Polls, Poll, Resume

LEMMA AttemptsType ==
  /\ Attempts \in Nat \ {0} /\ Attempts <= MaxAttempts
  /\ "validate" \in Failing => Attempts = MaxAttempts
  /\ "validate" \notin Failing => Attempts = 1
BY GovFlowAssumption DEF Attempts, GovFlowAssumption

\* A frame, field by field.
FrameOf(at, step, action, app, attempt, steps, tries) ==
  [at |-> at, step |-> step, action |-> action, app |-> app,
   attempt |-> attempt, steps |-> steps, tries |-> tries]

LEMMA FrameFields ==
  ASSUME NEW at \in {"idle", "done"} \cup EventTypes \cup Continuations,
         NEW step \in Steps \cup {NoStep}, NEW action \in {"retry", "abandon"},
         NEW app \in Nat, NEW attempt \in 0..(MaxPolls - 1),
         NEW steps \in SUBSET Steps, NEW tries \in 0..(Attempts - 1)
  PROVE  FrameOf(at, step, action, app, attempt, steps, tries) \in Carried
BY DEF FrameOf, Carried

LEMMA BlankFrames ==
  ASSUME NEW at \in {"idle", "done"} \cup EventTypes \cup Continuations,
         NEW step \in Steps \cup {NoStep}, NEW steps \in SUBSET Steps,
         NEW tries \in 0..(Attempts - 1)
  PROVE  FrameOf(at, step, "retry", 0, 0, steps, tries) \in Carried
BY FrameFields, GovFlowAssumption DEF GovFlowAssumption

LEMMA SimpleFrames ==
  /\ Idle \in Frames /\ Done \in Frames
  /\ Idle.at = "idle" /\ Done.at = "done"
  /\ Done.steps = {} /\ Done.step = NoStep
  /\ \A e \in RootAt : Handling(e, NoStep) \in Frames
  /\ [Idle EXCEPT !.at = "creating"] \in Frames
  /\ \A s \in Steps, e \in VerdictAt \cup {"DOCUMENT_MISSING"} :
       Handling(e, s) \in Frames
<1>1. /\ Idle = FrameOf("idle", NoStep, "retry", 0, 0, {}, 0)
      /\ Done = FrameOf("done", NoStep, "retry", 0, 0, {}, 0)
      /\ [Idle EXCEPT !.at = "creating"] =
           FrameOf("creating", NoStep, "retry", 0, 0, {}, 0)
  BY DEF Idle, Done, FrameOf
<1>2. \A e, s : Handling(e, s) = FrameOf(e, s, "retry", 0, 0, {}, 0)
  <2>1. ASSUME NEW e, NEW s
        PROVE  Handling(e, s) = FrameOf(e, s, "retry", 0, 0, {}, 0)
    <3>1. Handling(e, s) = [[Idle EXCEPT !.at = e] EXCEPT !.step = s]
      BY Zenon DEF Handling
    <3>2. [Idle EXCEPT !.at = e] = FrameOf(e, NoStep, "retry", 0, 0, {}, 0)
      BY DEF Idle, FrameOf
    <3>3. [FrameOf(e, NoStep, "retry", 0, 0, {}, 0) EXCEPT !.step = s] =
            FrameOf(e, s, "retry", 0, 0, {}, 0)
      BY DEF FrameOf
    <3> QED BY <3>1, <3>2, <3>3
  <2> QED BY <2>1
<1>3. 0 \in 0..(Attempts - 1)
  BY AttemptsType
<1>4. \A e \in {"idle", "done"} \cup EventTypes \cup Continuations,
         s \in Steps \cup {NoStep} :
        /\ FrameOf(e, s, "retry", 0, 0, {}, 0) \in Carried
        /\ FrameOf(e, s, "retry", 0, 0, {}, 0).at = e
        /\ FrameOf(e, s, "retry", 0, 0, {}, 0).step = s
        /\ FrameOf(e, s, "retry", 0, 0, {}, 0).steps = {}
        /\ FrameOf(e, s, "retry", 0, 0, {}, 0).app = 0
  BY <1>3, BlankFrames DEF FrameOf
<1>5. ASSUME NEW e \in {"idle", "done"} \cup RootAt
      PROVE  FrameOf(e, NoStep, "retry", 0, 0, {}, 0) \in Frames
  <2>1. e \in {"idle", "done"} \cup EventTypes \cup Continuations
    BY DEF RootAt, EventTypes, Continuations
  <2> QED BY <1>4, <2>1
          DEF Frames, FrameShape, RootAt, VerdictAt, LoopAt
<1>6. ASSUME NEW e \in VerdictAt \cup {"DOCUMENT_MISSING"}, NEW s \in Steps
      PROVE  FrameOf(e, s, "retry", 0, 0, {}, 0) \in Frames
  <2>1. e \in {"idle", "done"} \cup EventTypes \cup Continuations
    BY DEF VerdictAt, EventTypes, Continuations
  <2> QED BY <1>4, <2>1
          DEF Frames, FrameShape, RootAt, VerdictAt, LoopAt
<1>7. Idle.at = "idle" /\ Done.at = "done" /\ Done.steps = {}
      /\ Done.step = NoStep
  BY DEF Idle, Done
<1>8. "creating" \in RootAt
  BY DEF RootAt
<1> QED BY <1>1, <1>2, <1>5, <1>6, <1>7, <1>8

\* DocumentAgent's event carries the claimed steps.
LEMMA PublishedFrame ==
  ASSUME NEW S \in SUBSET Steps
  PROVE  /\ Published(NextActionEvent(S)) \in Frames
         /\ Published(NextActionEvent(S)).steps = S
         /\ Published(NextActionEvent(S)).at =
              IF S = {} THEN "done" ELSE "NEXT_ACTION_TRIGGERED"
         /\ Published(NextActionEvent(S)).tries = 0
<1>1. CASE S = {}
  BY <1>1, SimpleFrames
  DEF NextActionEvent, Published, NoEvent, Done, Idle
<1>2. CASE S # {}
  <2>1. Published(NextActionEvent(S)) =
          [Idle EXCEPT !.at = "NEXT_ACTION_TRIGGERED", !.steps = S]
    BY <1>2 DEF NextActionEvent, Published
  <2> DEFINE f == FrameOf("NEXT_ACTION_TRIGGERED", NoStep, "retry", 0, 0, S, 0)
  <2>2. Published(NextActionEvent(S)) = f
    BY <2>1 DEF Idle, FrameOf
  <2>3. f \in Carried
    <3>1. 0 \in 0..(Attempts - 1)
      BY AttemptsType
    <3> QED BY <3>1, BlankFrames DEF EventTypes
  <2>4. /\ f.at = "NEXT_ACTION_TRIGGERED" /\ f.step = NoStep
        /\ f.steps = S /\ f.tries = 0 /\ f.app = 0
    BY DEF FrameOf
  <2>5. Todo(f) = S
    BY <2>4 DEF Todo
  <2> HIDE DEF f
  <2> QED BY <1>2, <2>2, <2>3, <2>4, <2>5
          DEF Frames, FrameShape, RootAt, VerdictAt, LoopAt
<1> QED BY <1>1, <1>2

\* The loop goes on, or the handler it is nested in returns.
LEMMA ReturnedFrame ==
  ASSUME NEW f \in Frames, f.at \in LoopAt \cup {"DOCUMENT_MISSING"}
  PROVE  /\ Returned(f) \in Frames
         /\ Returned(f).at = IF Todo(f) = {} THEN "done" ELSE "checklist"
         /\ Returned(f).steps \subseteq f.steps
         /\ Todo(Returned(f)) = Todo(f)
         /\ Todo(f) # {} => /\ Returned(f).step = f.step
                            /\ Returned(f).steps = f.steps
                            /\ Returned(f).tries = f.tries
<1>1. f \in Carried /\ FrameShape(f)
  BY DEF Frames
<1>2. CASE Todo(f) = {}
  BY <1>2, SimpleFrames DEF Returned, Todo
<1>3. CASE Todo(f) # {}
  <2>1. Returned(f) = [Idle EXCEPT !.at = "checklist", !.step = f.step,
                                   !.steps = f.steps, !.tries = f.tries]
    BY <1>3 DEF Returned
  <2>2. /\ Returned(f).at = "checklist" /\ Returned(f).step = f.step
        /\ Returned(f).steps = f.steps /\ Returned(f).tries = f.tries
        /\ Returned(f).app = 0
    BY <2>1 DEF Idle
  <2>3. f.step \in f.steps
    BY <1>1, <1>3 DEF FrameShape, Todo
  <2>4. Todo(Returned(f)) = Todo(f)
    BY <2>2 DEF Todo
  <2>5. Returned(f) \in Carried
    <3>1. Returned(f) =
            FrameOf("checklist", f.step, "retry", 0, 0, f.steps, f.tries)
      BY <2>1 DEF Idle, FrameOf
    <3>2. /\ f.step \in Steps \cup {NoStep} /\ f.steps \in SUBSET Steps
          /\ f.tries \in 0..(Attempts - 1)
      BY <1>1 DEF Carried
    <3> QED BY <3>1, <3>2, BlankFrames DEF Continuations
  <2> QED BY <1>3, <2>2, <2>3, <2>4, <2>5
          DEF Frames, FrameShape, RootAt, VerdictAt
<1> QED BY <1>2, <1>3

\* The first of a set of steps comes before all its other members.
LEMMA FirstIsFirst ==
  ASSUME NEW S \in SUBSET Steps, S # {}
  PROVE  /\ FirstStep(S) \in S
         /\ \A s \in S : s # FirstStep(S) =>
              Position[FirstStep(S)] < Position[s]
<1>1. PICK s \in S : \A t \in S \ {s} : Position[s] < Position[t]
  BY GraphAssumption DEF GraphAssumption, Ordered
<1>2. \A t \in S : Position[t] \in Nat
  BY GraphAssumption DEF GraphAssumption, Ordered
<1>3. FirstStep(S) = CHOOSE f \in S : \A t \in S : Position[f] <= Position[t]
  BY DEF FirstStep
<1>4. \A t \in S : Position[s] <= Position[t]
  BY <1>1, <1>2
<1>5. FirstStep(S) \in S /\ \A t \in S : Position[FirstStep(S)] <= Position[t]
  BY <1>3, <1>4
<1>6. FirstStep(S) = s
  BY <1>1, <1>2, <1>5
<1> QED BY <1>1, <1>6

\* An iteration of DocumentAgent's loop takes the next step off the list.
Checked(f, event) ==
  [f EXCEPT !.at = event, !.step = FirstStep(Todo(f))]

LEMMA CheckedFrame ==
  ASSUME NEW f \in Frames, f.at \in {"NEXT_ACTION_TRIGGERED", "checklist"},
         NEW event \in {"DOCUMENTS_VALIDATED", "DOCUMENT_MISSING"}
  PROVE  /\ Checked(f, event) \in Frames
         /\ Checked(f, event).at = event
         /\ Checked(f, event).step \in Todo(f)
         /\ Checked(f, event).steps = f.steps
         /\ Checked(f, event).tries = f.tries
         /\ Todo(Checked(f, event)) = Todo(f) \ {Checked(f, event).step}
<1> DEFINE first == FirstStep(Todo(f))
           g == Checked(f, event)
<1>1. f \in Carried /\ Todo(f) # {} /\ Todo(f) \in SUBSET f.steps
      /\ f.steps \in SUBSET Steps /\ f.step \in Steps \cup {NoStep}
      /\ f.app = 0
  BY DEF Frames, FrameShape, Todo, Carried
<1>2. /\ first \in Todo(f)
      /\ \A s \in Todo(f) : s # first => Position[first] < Position[s]
  <2>1. Todo(f) \in SUBSET Steps
    BY <1>1
  <2> QED BY <1>1, <2>1, FirstIsFirst
<1>3. first \in Steps /\ first \in f.steps /\ first # NoStep
  BY <1>1, <1>2, GraphAssumption DEF GraphAssumption
<1>4. event \in EventTypes
  BY DEF EventTypes
<1>5. /\ g \in Carried /\ g.at = event /\ g.step = first
      /\ g.steps = f.steps /\ g.tries = f.tries /\ g.app = 0
  <2>1. g = [f EXCEPT !.at = event, !.step = first]
    BY DEF Checked, first
  <2> HIDE DEF g, first
  <2> QED BY <1>1, <1>3, <1>4, <2>1 DEF Carried
<1>6. Todo(g) = Todo(f) \ {first}
  <2>1. Todo(g) = {s \in f.steps : Position[first] < Position[s]}
    BY <1>3, <1>5 DEF Todo
  <2>2. \A s \in Steps : Position[s] \in Nat
    BY GraphAssumption DEF GraphAssumption, Ordered
  <2>3. f.step # NoStep => Position[f.step] < Position[first]
    BY <1>2 DEF Todo
  <2>4. ASSUME NEW s \in f.steps, Position[first] < Position[s]
        PROVE  s \in Todo(f) /\ s # first
    BY <1>1, <1>3, <2>2, <2>3, <2>4 DEF Todo
  <2>5. \A s \in Todo(f) : s \in f.steps
    BY DEF Todo
  <2> HIDE DEF g, first
  <2> QED BY <1>2, <2>1, <2>4, <2>5
<1>7. FrameShape(g)
  BY <1>3, <1>5 DEF FrameShape, RootAt, VerdictAt, LoopAt
<1> QED BY <1>2, <1>5, <1>6, <1>7 DEF Frames

\* with_retry starts the loop again, or gives up.
LEMMA RepeatedFrame ==
  ASSUME NEW f \in Frames, f.at \in {"NEXT_ACTION_TRIGGERED", "checklist"},
         "validate" \in Failing
  PROVE  /\ Repeated(f) \in Frames
         /\ f.tries + 1 >= MaxAttempts => Repeated(f) = Done
         /\ f.tries + 1 < MaxAttempts =>
              /\ Repeated(f).at = "NEXT_ACTION_TRIGGERED"
              /\ Repeated(f).step = NoStep
              /\ Repeated(f).steps = f.steps
              /\ Repeated(f).tries = f.tries + 1
              /\ Todo(Repeated(f)) = f.steps
<1>1. /\ f \in Carried /\ Todo(f) # {} /\ Todo(f) \subseteq f.steps
      /\ f.steps \in SUBSET Steps
      /\ f.tries \in 0..(MaxAttempts - 1) /\ MaxAttempts \in Nat \ {0}
      /\ Attempts = MaxAttempts
  BY GovFlowAssumption, AttemptsType
  DEF Frames, FrameShape, Todo, Carried, GovFlowAssumption
<1>2. CASE f.tries + 1 < MaxAttempts
  <2> DEFINE g == FrameOf("NEXT_ACTION_TRIGGERED", NoStep, "retry", 0, 0,
                          f.steps, f.tries + 1)
  <2>1. Repeated(f) = g
    BY <1>2 DEF Repeated, Idle, FrameOf
  <2>2. f.tries + 1 \in 0..(MaxAttempts - 1)
    BY <1>1, <1>2
  <2>3. g \in Carried
    BY <1>1, <2>2, BlankFrames DEF EventTypes
  <2>4. /\ g.at = "NEXT_ACTION_TRIGGERED" /\ g.step = NoStep
        /\ g.steps = f.steps /\ g.tries = f.tries + 1 /\ g.app = 0
    BY DEF FrameOf
  <2>5. Todo(g) = f.steps
    BY <2>4 DEF Todo
  <2>6. f.steps # {}
    BY <1>1
  <2> HIDE DEF g
  <2>7. FrameShape(g)
    BY <2>4, <2>5, <2>6 DEF FrameShape, RootAt, VerdictAt, LoopAt
  <2> QED BY <1>1, <1>2, <2>1, <2>3, <2>4, <2>5, <2>7 DEF Frames
<1>3. CASE ~(f.tries + 1 < MaxAttempts)
  BY <1>1, <1>3, SimpleFrames DEF Repeated
<1> QED BY <1>2, <1>3

\* The router passes the step on, and the application gets its number.
LEMMA RoutedFrame ==
  ASSUME NEW f \in Frames, f.at = "DOCUMENTS_VALIDATED"
  PROVE  LET g == [f EXCEPT !.at = "APPLICATION_READY"]
         IN  /\ g \in Frames
             /\ g.at = "APPLICATION_READY" /\ g.step = f.step
             /\ g.steps = f.steps /\ g.tries = f.tries /\ Todo(g) = Todo(f)
<1> DEFINE g == [f EXCEPT !.at = "APPLICATION_READY"]
<1>1. /\ g \in Carried
      /\ g.at = "APPLICATION_READY" /\ g.step = f.step
      /\ g.steps = f.steps /\ g.tries = f.tries /\ g.app = 0
  BY DEF Frames, FrameShape, Carried, EventTypes
<1> HIDE DEF g
<1>2. f.step \in f.steps
  BY DEF Frames, FrameShape, LoopAt
<1>3. Todo(g) = Todo(f)
  BY <1>1 DEF Todo
<1>4. FrameShape(g)
  BY <1>1, <1>2 DEF FrameShape, RootAt, VerdictAt, LoopAt
<1> QED BY <1>1, <1>3, <1>4 DEF Frames, g

LEMMA SubmittedFrame ==
  ASSUME NEW f \in Frames, f.at = "APPLICATION_READY", NEW a \in Nat
  PROVE  LET g == [f EXCEPT !.at = "APPLICATION_SUBMITTED", !.app = a]
         IN  /\ g \in Frames
             /\ g.at = "APPLICATION_SUBMITTED" /\ g.step = f.step
             /\ g.app = a
             /\ g.steps = f.steps /\ g.tries = f.tries /\ Todo(g) = Todo(f)
<1> DEFINE g == [f EXCEPT !.at = "APPLICATION_SUBMITTED", !.app = a]
<1>1. /\ g \in Carried
      /\ g.at = "APPLICATION_SUBMITTED" /\ g.step = f.step /\ g.app = a
      /\ g.steps = f.steps /\ g.tries = f.tries
  BY DEF Frames, Carried, EventTypes
<1> HIDE DEF g
<1>2. f.step \in f.steps
  BY DEF Frames, FrameShape, LoopAt
<1>3. Todo(g) = Todo(f)
  BY <1>1 DEF Todo
<1>4. FrameShape(g)
  BY <1>1, <1>2 DEF FrameShape, RootAt, VerdictAt, LoopAt
<1> QED BY <1>1, <1>3, <1>4 DEF Frames, g

\* The task that polls application a of step s.
Polling(s, a) == [Idle EXCEPT !.at = "polling", !.step = s, !.app = a]

LEMMA PollingFrame ==
  ASSUME NEW s \in Steps, NEW a \in Nat
  PROVE  /\ Polling(s, a) \in Frames
         /\ Polling(s, a).at = "polling" /\ Polling(s, a).step = s
         /\ Polling(s, a).app = a /\ Polling(s, a).attempt = 0
         /\ Polling(s, a).steps = {}
<1> DEFINE g == Polling(s, a)
<1>1. /\ Idle \in Carried /\ Idle.attempt = 0 /\ Idle.steps = {}
      /\ "polling" \in Continuations
  BY SimpleFrames DEF Frames, Idle, Continuations
<1>2. /\ g \in Carried /\ g.at = "polling" /\ g.step = s /\ g.app = a
      /\ g.attempt = 0 /\ g.steps = {}
  BY <1>1 DEF Polling, Carried
<1> HIDE DEF g
<1>3. FrameShape(g)
  BY <1>2 DEF FrameShape, RootAt, VerdictAt, LoopAt
<1> QED BY <1>2, <1>3 DEF Frames, g

LEMMA PollAgainFrame ==
  ASSUME FramesTyped, NEW t \in Threads, chain[t].at = "polling"
  PROVE  /\ PollAgain(t) \in Frames
         /\ \/ PollAgain(t) = Done
            \/ /\ PollAgain(t).at = "polling"
               /\ PollAgain(t).step = chain[t].step
               /\ PollAgain(t).app = chain[t].app
               /\ PollAgain(t).steps = {}
               /\ PollAgain(t).attempt = chain[t].attempt + 1
<1> DEFINE f == chain[t]
           g == [f EXCEPT !.attempt = @ + 1]
<1>1. f \in Carried /\ f.step \in Steps /\ f.steps = {}
  BY DEF FramesTyped, Frames, FrameShape, VerdictAt
<1>2. CASE f.attempt + 1 < MaxPolls
  <2>1. f.attempt + 1 \in 0..(MaxPolls - 1)
    BY <1>1, <1>2, GovFlowAssumption DEF Carried, GovFlowAssumption
  <2>2. /\ g \in Carried /\ g.at = "polling" /\ g.step = f.step
        /\ g.app = f.app /\ g.steps = {} /\ g.attempt = f.attempt + 1
    BY <1>1, <2>1 DEF Carried
  <2> HIDE DEF g
  <2>3. FrameShape(g)
    BY <1>1, <2>2 DEF FrameShape, RootAt, VerdictAt, LoopAt
  <2> QED BY <1>2, <2>2, <2>3 DEF Frames, PollAgain, g
<1>3. CASE ~(f.attempt + 1 < MaxPolls)
  BY <1>3, SimpleFrames DEF PollAgain
<1> QED BY <1>2, <1>3

\* The request of the user.
Resumed(s, action) ==
  [Handling("WORKFLOW_RESUMED", s) EXCEPT !.action = action]

LEMMA ResumedFrame ==
  ASSUME NEW s \in Steps \cup {NoStep}, NEW action \in {"retry", "abandon"}
  PROVE  /\ Resumed(s, action) \in Frames
         /\ Resumed(s, action).at = "WORKFLOW_RESUMED"
         /\ Resumed(s, action).step = s
         /\ Resumed(s, action).action = action
         /\ Resumed(s, action).steps = {}
<1> DEFINE g == Resumed(s, action)
<1>1. /\ Idle \in Carried /\ Idle.steps = {}
      /\ "WORKFLOW_RESUMED" \in EventTypes
  BY SimpleFrames DEF Frames, Idle, EventTypes
<1>2. /\ g \in Carried /\ g.at = "WORKFLOW_RESUMED" /\ g.step = s
      /\ g.action = action /\ g.steps = {} /\ g.app = 0
  BY <1>1 DEF Resumed, Handling, Carried, Idle
<1> HIDE DEF g
<1>3. FrameShape(g)
  BY <1>2 DEF FrameShape, RootAt, VerdictAt, LoopAt
<1> QED BY <1>2, <1>3 DEF Frames, g

----------------------------------------------------------------------------
(* The steps of the backend, by what they do to the thread that takes them.  *)

\* WorkingOn, of a frame; and the steps a frame has still to submit.
Working(f) ==
  Todo(f) \cup
    IF f.at \in {"WORKFLOW_RESUMED", "checklist"} THEN {}
    ELSE {f.step} \ {NoStep}
Due(f) ==
  Todo(f) \cup
    IF f.at \in {"DOCUMENTS_VALIDATED", "APPLICATION_READY"} THEN {f.step}
    ELSE {}

\* The way from the goal to the workflow, up to its first claim.
RootHop(g) ==
  /\ chain[Root].at \in RootAt
  /\ chain' = [chain EXCEPT ![Root] = g]
  /\ g.at \in RootAt \cup {"done"}
  /\ UNCHANGED <<applications, requests, completions>>
  /\ \/ UNCHANGED engineVars
     \/ CreateWorkflow
     \/ \E gate \in GateStatus : BlockWorkflow(gate)

\* The agents that only pass a step on, drop it or repeat their loop.
Quiet(t, g) ==
  /\ chain' = [chain EXCEPT ![t] = g]
  /\ UNCHANGED <<engineVars, applications, requests, completions>>
  /\ chain[t].at \in {"NEXT_ACTION_TRIGGERED", "checklist",
                      "DOCUMENTS_VALIDATED", "APPLICATION_READY"}
  /\ g.at \in {"done", "NEXT_ACTION_TRIGGERED", "checklist",
               "DOCUMENTS_VALIDATED", "DOCUMENT_MISSING", "APPLICATION_READY"}
  /\ \/ g = Done
     \/ /\ g.steps = chain[t].steps /\ g.tries = chain[t].tries
        /\ Working(g) \subseteq Working(chain[t])
        /\ Due(g) \subseteq Due(chain[t])
     \/ /\ "validate" \in Failing
        /\ g.at = "NEXT_ACTION_TRIGGERED"
        /\ g.steps = chain[t].steps /\ g.tries = chain[t].tries + 1

LEMMA RootHops ==
  ASSUME FramesTyped,
         \/ GoalInterpreter \/ Regulation \/ PlanningSkipped
         \/ WorkflowPlanner \/ Eligibility \/ AgentGivesUp
  PROVE  \E g \in Frames : RootHop(g)
<1>1. /\ "GOAL_ANALYZED" \in RootAt /\ "REQUIREMENTS_IDENTIFIED" \in RootAt
      /\ "WORKFLOW_CREATED" \in RootAt /\ "creating" \in RootAt
      /\ "USER_REQUEST_CREATED" \in RootAt
  BY DEF RootAt
<1>2. \A e \in RootAt : Handling(e, NoStep).at = e
  BY DEF Handling, Idle
<1>3. [Idle EXCEPT !.at = "creating"].at = "creating"
  BY DEF Idle
<1>4. CASE GoalInterpreter
  BY <1>1, <1>2, <1>4, SimpleFrames DEF GoalInterpreter, RootHop, Become
<1>5. CASE Regulation
  BY <1>1, <1>2, <1>5, SimpleFrames DEF Regulation, RootHop, Become
<1>6. CASE PlanningSkipped
  BY <1>1, <1>6, SimpleFrames DEF PlanningSkipped, RootHop, Become
<1>7. CASE WorkflowPlanner
  BY <1>1, <1>2, <1>7, SimpleFrames DEF WorkflowPlanner, RootHop, Become
<1>8. CASE Eligibility
  <2>1. \/ UNCHANGED engineVars
        \/ \E gate \in GateStatus : BlockWorkflow(gate)
    BY <1>8 DEF Eligibility, GateStatus
  <2>2. /\ chain[Root].at \in RootAt
        /\ chain' = [chain EXCEPT ![Root] = [Idle EXCEPT !.at = "creating"]]
        /\ UNCHANGED <<applications, requests, completions>>
    BY <1>1, <1>8 DEF Eligibility, Become
  <2> QED BY <1>1, <1>3, <2>1, <2>2, SimpleFrames DEF RootHop
<1>9. CASE AgentGivesUp
  BY <1>1, <1>3, <1>9, SimpleFrames DEF AgentGivesUp, RootHop, Become
<1> QED BY <1>4, <1>5, <1>6, <1>7, <1>8, <1>9

LEMMA CheckDocumentsIsQuiet ==
  ASSUME FramesTyped, NEW t \in Threads,
         chain[t].at \in {"NEXT_ACTION_TRIGGERED", "checklist"},
         CheckDocuments(t),
         UNCHANGED <<engineVars, applications, requests, completions>>
  PROVE  \E g \in Frames : Quiet(t, g)
<1> DEFINE f == chain[t]
<1>1. f \in Frames
  BY DEF FramesTyped
<1>2. CASE \E event \in {"DOCUMENTS_VALIDATED", "DOCUMENT_MISSING"} :
             Become(t, Checked(f, event))
  <2>1. PICK event \in {"DOCUMENTS_VALIDATED", "DOCUMENT_MISSING"} :
          Become(t, Checked(f, event))
    BY <1>2
  <2> DEFINE g == Checked(f, event)
  <2>2. /\ g \in Frames /\ g.at = event /\ g.step \in Todo(f)
        /\ g.steps = f.steps /\ g.tries = f.tries
        /\ Todo(g) = Todo(f) \ {g.step}
    BY <1>1, CheckedFrame
  <2>3. chain' = [chain EXCEPT ![t] = g]
    BY <2>1 DEF Become
  <2> HIDE DEF g
  <2>4. Working(g) \subseteq Working(f) /\ Due(g) \subseteq Due(f)
    BY <2>2 DEF Working, Due
  <2> QED BY <2>2, <2>3, <2>4 DEF Quiet
<1>3. CASE "validate" \in Failing /\ Become(t, Repeated(f))
  <2>1. /\ f.tries + 1 >= MaxAttempts \/ f.tries + 1 < MaxAttempts
        /\ Repeated(f) \in Frames
    BY <1>1, <1>3, RepeatedFrame, GovFlowAssumption
    DEF Frames, Carried, GovFlowAssumption
  <2>2. chain' = [chain EXCEPT ![t] = Repeated(f)]
    BY <1>3 DEF Become
  <2>3. CASE f.tries + 1 >= MaxAttempts
    BY <1>1, <1>3, <2>1, <2>2, <2>3, RepeatedFrame, SimpleFrames DEF Quiet
  <2>4. CASE f.tries + 1 < MaxAttempts
    BY <1>1, <1>3, <2>1, <2>2, <2>4, RepeatedFrame DEF Quiet
  <2> QED BY <2>1, <2>3, <2>4
<1>4. \/ \E event \in {"DOCUMENTS_VALIDATED", "DOCUMENT_MISSING"} :
           Become(t, Checked(f, event))
      \/ "validate" \in Failing /\ Become(t, Repeated(f))
  BY DEF CheckDocuments, Checked
<1> QED BY <1>2, <1>3, <1>4

\* A thread whose handler drops the step goes on with the loop.
LEMMA ReturnedIsQuiet ==
  ASSUME FramesTyped, NEW t \in Threads,
         chain[t].at \in {"DOCUMENTS_VALIDATED", "APPLICATION_READY"},
         Become(t, Returned(chain[t])),
         UNCHANGED <<engineVars, applications, requests, completions>>
  PROVE  \E g \in Frames : Quiet(t, g)
<1> DEFINE f == chain[t]
           g == Returned(f)
<1>1. f \in Frames /\ f.at \in LoopAt
  BY DEF FramesTyped, LoopAt
<1>2. g \in Frames /\ g.at = IF Todo(f) = {} THEN "done" ELSE "checklist"
  BY <1>1, ReturnedFrame
<1>3. CASE Todo(f) = {}
  BY <1>2, <1>3 DEF Quiet, Returned, Become
<1>4. CASE Todo(f) # {}
  <2>1. /\ g.at = "checklist" /\ g.steps = f.steps /\ g.tries = f.tries
        /\ Todo(g) = Todo(f)
    BY <1>1, <1>4, ReturnedFrame
  <2>2. chain' = [chain EXCEPT ![t] = g]
    BY DEF Become
  <2> HIDE DEF g
  <2>3. Working(g) \subseteq Working(f) /\ Due(g) \subseteq Due(f)
    BY <2>1 DEF Working, Due
  <2> QED BY <1>2, <2>1, <2>2, <2>3 DEF Quiet
<1> QED BY <1>3, <1>4

LEMMA QuietHops ==
  ASSUME FramesTyped, NEW t \in Threads,
         \/ DocumentAgent(t) \/ DocumentAgentContinues(t) \/ DepartmentRouter(t)
  PROVE  \E g \in Frames : Quiet(t, g)
<1>1. CASE DocumentAgent(t) /\ Become(t, Done)
  BY <1>1, SimpleFrames DEF DocumentAgent, Quiet, Become
<1>2. CASE DocumentAgent(t) /\ CheckDocuments(t)
  BY <1>2, CheckDocumentsIsQuiet DEF DocumentAgent
<1>3. CASE DocumentAgentContinues(t)
  BY <1>3, CheckDocumentsIsQuiet DEF DocumentAgentContinues
<1>4. CASE DepartmentRouter(t) /\ Become(t, Returned(chain[t]))
  BY <1>4, ReturnedIsQuiet DEF DepartmentRouter
<1>5. CASE /\ DepartmentRouter(t)
           /\ Become(t, [chain[t] EXCEPT !.at = "APPLICATION_READY"])
  <2> DEFINE f == chain[t]
             g == [f EXCEPT !.at = "APPLICATION_READY"]
  <2>1. f \in Frames /\ f.at = "DOCUMENTS_VALIDATED"
    BY <1>5 DEF FramesTyped, DepartmentRouter
  <2>2. /\ g \in Frames
        /\ g.at = "APPLICATION_READY" /\ g.step = f.step
        /\ g.steps = f.steps /\ g.tries = f.tries /\ Todo(g) = Todo(f)
    BY <2>1, RoutedFrame
  <2>3. /\ chain' = [chain EXCEPT ![t] = g]
        /\ UNCHANGED <<engineVars, applications, requests, completions>>
    BY <1>5 DEF Become, DepartmentRouter
  <2> HIDE DEF g
  <2>4. Working(g) \subseteq Working(f) /\ Due(g) \subseteq Due(f)
    BY <2>1, <2>2 DEF Working, Due
  <2> QED BY <2>1, <2>2, <2>3, <2>4 DEF Quiet
<1> QED BY <1>1, <1>2, <1>3, <1>4, <1>5
        DEF DocumentAgent, DepartmentRouter

\* An application is submitted; the thread carries its number.
SubmitHop(t, g) ==
  /\ chain[t].at = "APPLICATION_READY" /\ ~IsGated
  /\ chain' = [chain EXCEPT ![t] = g]
  /\ \E scenario \in Scenarios :
       applications' =
         Append(applications, Submitted(chain[t].step, scenario))
  /\ g.at = "APPLICATION_SUBMITTED" /\ g.app = Len(applications')
  /\ g.step = chain[t].step /\ g.steps = chain[t].steps
  /\ g.tries = chain[t].tries /\ Todo(g) = Todo(chain[t])
  /\ UNCHANGED <<engineVars, requests, completions>>

\* The polling task of the application is started.
WatchHop(t) ==
  /\ chain[t].at = "APPLICATION_SUBMITTED"
  /\ chain' = [chain EXCEPT
       ![t] = Returned(chain[t]),
       ![Poll(chain[t].app)] = Polling(chain[t].step, chain[t].app)]
  /\ UNCHANGED <<engineVars, applications, requests, completions>>

\* One attempt to poll, with or without an answer.
PollHop(t, g, record) ==
  /\ chain[t].at = "polling"
  /\ chain' = [chain EXCEPT ![t] = g]
  /\ g.steps = {}
  /\ \/ g = Done
     \/ /\ g.at = "polling" /\ g.step = chain[t].step
        /\ g.app = chain[t].app /\ g.attempt = chain[t].attempt + 1
     \/ /\ g.at \in {"APPLICATION_APPROVED", "APPLICATION_REJECTED",
                     "DOCUMENT_MISSING"}
        /\ g.step = chain[t].step
  /\ \/ /\ UNCHANGED applications
        /\ g.at \in {"done", "polling"}
     \/ /\ applications' = [applications EXCEPT ![chain[t].app] = record]
        /\ record = [applications[chain[t].app] EXCEPT
                       !.asked = applications[chain[t].app].asked + 1,
                       !.status = record.status]
        /\ record.status \in {applications[chain[t].app].status, "PENDING",
                              "APPROVED", "REJECTED", "DOCUMENT_MISSING"}
        /\ record.status = "APPROVED" =>
             \/ g.at # "polling"
             \/ applications[chain[t].app].status = "APPROVED"
        /\ g.at = "APPLICATION_APPROVED" => record.status = "APPROVED"
  /\ UNCHANGED <<engineVars, requests, completions>>

LEMMA ApplicationHops ==
  ASSUME FramesTyped, applications \in Seq(Application), NEW t \in Threads,
         ApplicationAgent(t)
  PROVE  \E g \in Frames : Quiet(t, g) \/ SubmitHop(t, g)
<1> DEFINE f == chain[t]
<1>1. CASE Become(t, Returned(f)) /\ UNCHANGED applications
  BY <1>1, ReturnedIsQuiet DEF ApplicationAgent
<1>2. CASE /\ ~IsGated
           /\ \E scenario \in Scenarios :
                applications' = Append(applications, Submitted(f.step, scenario))
           /\ Become(t, [f EXCEPT !.at = "APPLICATION_SUBMITTED",
                                  !.app = Len(applications')])
  <2> DEFINE g == [f EXCEPT !.at = "APPLICATION_SUBMITTED",
                            !.app = Len(applications')]
  <2>1. f \in Frames /\ f.at = "APPLICATION_READY"
        /\ UNCHANGED <<engineVars, requests, completions>>
    BY DEF FramesTyped, ApplicationAgent
  <2>2. Len(applications') \in Nat
    BY <1>2
  <2>3. /\ g \in Frames
        /\ g.at = "APPLICATION_SUBMITTED" /\ g.step = f.step
        /\ g.app = Len(applications')
        /\ g.steps = f.steps /\ g.tries = f.tries /\ Todo(g) = Todo(f)
    BY <2>1, <2>2, SubmittedFrame
  <2>4. chain' = [chain EXCEPT ![t] = g]
    BY <1>2 DEF Become
  <2> HIDE DEF g
  <2> QED BY <1>2, <2>1, <2>3, <2>4 DEF SubmitHop
<1> QED BY <1>1, <1>2 DEF ApplicationAgent

LEMMA WatchHops ==
  ASSUME NEW t \in Threads, StatusMonitor(t)
  PROVE  WatchHop(t)
BY DEF StatusMonitor, WatchHop, Polling

\* What the government can answer.
LEMMA Answers ==
  ASSUME NEW scenario, NEW n
  PROVE  GovernmentAnswer(scenario, n) \in
           {"PENDING", "APPROVED", "REJECTED", "DOCUMENT_MISSING", "ERROR"}
<1>1. CASE scenario = "document_missing"
  BY <1>1 DEF GovernmentAnswer
<1>2. CASE scenario = "rejected"
  BY <1>2 DEF GovernmentAnswer
<1>3. CASE scenario = "transient_failure"
  BY <1>3 DEF GovernmentAnswer
<1>4. CASE scenario \notin
             {"document_missing", "rejected", "transient_failure"}
  BY <1>4 DEF GovernmentAnswer
<1> QED BY <1>1, <1>2, <1>3, <1>4

LEMMA PollHops ==
  ASSUME FramesTyped, NEW t \in Threads,
         applications[chain[t].app] \in Application,
         PollRateLimited(t) \/ PollStatus(t)
  PROVE  \E g \in Frames : \E record : PollHop(t, g, record)
<1> DEFINE f == chain[t]
           old == applications[f.app]
<1>1. /\ f.at = "polling" /\ f.step \in Steps
      /\ UNCHANGED <<engineVars, requests, completions>>
  BY DEF FramesTyped, Frames, FrameShape, VerdictAt, PollRateLimited,
         PollStatus
<1>2. /\ PollAgain(t) \in Frames
      /\ \/ PollAgain(t) = Done
         \/ /\ PollAgain(t).at = "polling" /\ PollAgain(t).step = f.step
            /\ PollAgain(t).app = f.app
            /\ PollAgain(t).attempt = f.attempt + 1
      /\ PollAgain(t).steps = {}
      /\ PollAgain(t).at \in {"done", "polling"}
  BY <1>1, PollAgainFrame, SimpleFrames
<1>3. CASE PollRateLimited(t)
  <2>1. /\ chain' = [chain EXCEPT ![t] = PollAgain(t)]
        /\ UNCHANGED applications
    BY <1>3 DEF PollRateLimited, Become
  <2>2. PollHop(t, PollAgain(t), old)
    BY <1>1, <1>2, <2>1 DEF PollHop
  <2> QED BY <1>2, <2>2
<1>4. CASE PollStatus(t)
  <2> DEFINE n == old.asked + 1
             answer == GovernmentAnswer(old.scenario, n)
             status == IF answer = "ERROR" THEN old.status ELSE answer
             record == [old EXCEPT !.asked = n, !.status = status]
             g == IF answer \in DOMAIN VerdictEvent
                  THEN Handling(VerdictEvent[answer], f.step)
                  ELSE PollAgain(t)
  <2>1. /\ applications' = [applications EXCEPT ![f.app].asked = n,
                                                ![f.app].status = status]
        /\ chain' = [chain EXCEPT ![t] = g]
    BY <1>4 DEF PollStatus, Become
  <2>2. applications' = [applications EXCEPT ![f.app] = record]
    BY <2>1
  <2>3. record.status = status /\ old.asked \in Nat
    BY DEF Application
  <2>4. answer \in {"PENDING", "APPROVED", "REJECTED", "DOCUMENT_MISSING",
                    "ERROR"}
    BY Answers
  <2>5. /\ DOMAIN VerdictEvent = {"APPROVED", "REJECTED", "DOCUMENT_MISSING"}
        /\ VerdictEvent["APPROVED"] = "APPLICATION_APPROVED"
        /\ VerdictEvent["REJECTED"] = "APPLICATION_REJECTED"
        /\ VerdictEvent["DOCUMENT_MISSING"] = "DOCUMENT_MISSING"
    BY DEF VerdictEvent
  <2> HIDE DEF answer
  <2>6. /\ answer = "APPROVED" => g = Handling("APPLICATION_APPROVED", f.step)
        /\ answer = "REJECTED" => g = Handling("APPLICATION_REJECTED", f.step)
        /\ answer = "DOCUMENT_MISSING" => g = Handling("DOCUMENT_MISSING", f.step)
        /\ answer \in {"PENDING", "ERROR"} => g = PollAgain(t)
    BY <2>5
  <2> HIDE DEF g
  <2>7. \A e : /\ Handling(e, f.step).at = e
               /\ Handling(e, f.step).step = f.step
               /\ Handling(e, f.step).steps = {}
    BY DEF Handling, Idle
  <2>8. /\ "APPLICATION_APPROVED" \in VerdictAt \cup {"DOCUMENT_MISSING"}
        /\ "APPLICATION_REJECTED" \in VerdictAt \cup {"DOCUMENT_MISSING"}
    BY DEF VerdictAt
  <2>9. g \in Frames /\ g.steps = {}
    BY <1>1, <1>2, <2>4, <2>6, <2>7, <2>8, SimpleFrames
  <2>10. /\ g.at = "APPLICATION_APPROVED" <=> answer = "APPROVED"
         /\ \/ g = Done
            \/ /\ g.at = "polling" /\ g.step = f.step
               /\ g.app = f.app /\ g.attempt = f.attempt + 1
            \/ /\ g.at \in {"APPLICATION_APPROVED", "APPLICATION_REJECTED",
                            "DOCUMENT_MISSING"}
               /\ g.step = f.step
    BY <1>2, <2>4, <2>6, <2>7
  <2>11. /\ record = [old EXCEPT !.asked = n, !.status = record.status]
         /\ record.status \in {old.status, "PENDING", "APPROVED", "REJECTED",
                               "DOCUMENT_MISSING"}
         /\ record.status = "APPROVED" =>
              answer = "APPROVED" \/ old.status = "APPROVED"
         /\ answer = "APPROVED" => record.status = "APPROVED"
    BY <2>3, <2>4
  <2> HIDE DEF record
  <2> QED BY <1>1, <2>1, <2>2, <2>9, <2>10, <2>11 DEF PollHop
<1> QED BY <1>3, <1>4

\* An engine operation claims what is ready once it has marked the graph m,
\* and DocumentAgent's event names what it has claimed.
ClaimHop(t, m) ==
  /\ hasGraph /\ UNCHANGED <<hasGraph, applications, requests>>
  /\ graph' = ClaimReadySteps(m)
  /\ chain' = [chain EXCEPT ![t] = Published(NextActionEvent(ReadySteps(m)))]
  /\ \/ /\ t = Root /\ chain[t].at = "creating" /\ m = graph
        /\ FinishCreation /\ UNCHANGED completions
     \/ /\ chain[t].at = "WORKFLOW_RESUMED" /\ chain[t].step = NoStep
        /\ m = graph
        /\ ResumeWorkflow /\ UNCHANGED completions
     \/ /\ chain[t].at = "WORKFLOW_RESUMED" /\ chain[t].step \in Steps
        /\ chain[t].action = "retry"
        /\ m = MarkStepStatus(graph, chain[t].step, "PENDING")
        /\ ResumeStep(chain[t].step) /\ UNCHANGED completions
     \/ /\ chain[t].at = "APPLICATION_APPROVED" /\ chain[t].step \in Steps
        /\ m = MarkStepStatus(graph, chain[t].step, "COMPLETED")
        /\ CompleteStep(chain[t].step)
        /\ completions' = IF IsComplete(graph') THEN completions + 1
                          ELSE completions

\* A rejection, a missing document or the user's decision halts a step.
HaltHop(t, g) ==
  /\ hasGraph /\ UNCHANGED <<hasGraph, applications, requests, completions>>
  /\ chain[t].step \in Steps
  /\ chain' = [chain EXCEPT ![t] = g]
  /\ \/ /\ chain[t].at = "APPLICATION_REJECTED" /\ g = Done
        /\ graph' = MarkStepStatus(graph, chain[t].step, "BLOCKED")
        /\ BlockStep(chain[t].step, "BLOCKED")
     \/ /\ chain[t].at = "DOCUMENT_MISSING" /\ g = Returned(chain[t])
        /\ graph' = MarkStepStatus(graph, chain[t].step, "BLOCKED")
        /\ BlockStep(chain[t].step, "WAITING_FOR_USER")
     \/ /\ chain[t].at = "WORKFLOW_RESUMED" /\ g = Done
        /\ chain[t].action = "abandon"
        /\ graph' = MarkStepStatus(graph, chain[t].step, "FAILED")
        /\ FailStep(chain[t].step)

\* The user sends a request.
UserHop(s, action) ==
  /\ Len(requests) < MaxRequests
  /\ workflow.status # "ABSENT"
  /\ MayRequest(s)
  /\ requests' = Append(requests, [step |-> s, action |-> action])
  /\ chain' = [chain EXCEPT ![Resume(Len(requests) + 1)] = Resumed(s, action)]
  /\ UNCHANGED <<engineVars, applications, completions>>

\* A completed graph has nothing to claim, so the thread of the step that
\* completes it is over either way.
LEMMA CompletionClaimsNothing ==
  ASSUME NEW m \in [Steps -> StepStatus], IsComplete(ClaimReadySteps(m))
  PROVE  ReadySteps(m) = {}
<1>1. \A s \in ReadySteps(m) : s \in Steps /\ ClaimReadySteps(m)[s] = "RUNNING"
  BY DEF ReadySteps, PendingStepIds, StepsWith, ClaimReadySteps
<1> QED BY <1>1 DEF IsComplete

LEMMA ApprovalHop ==
  ASSUME FramesTyped, graph \in [Steps -> StepStatus], NEW t \in Threads,
         OnApplicationApproved(t)
  PROVE  \E m \in [Steps -> StepStatus] : ClaimHop(t, m)
<1> DEFINE s == chain[t].step
           m == MarkStepStatus(graph, s, "COMPLETED")
           event == CompleteStepEvent(s)
<1>1. chain[t].at = "APPLICATION_APPROVED" /\ s \in Steps
  BY DEF FramesTyped, Frames, FrameShape, VerdictAt, OnApplicationApproved
<1>2. m \in [Steps -> StepStatus]
  BY <1>1, GraphOperatorsType DEF StepStatus
<1>3. event = IF IsComplete(ClaimReadySteps(m)) THEN WorkflowCompletedEvent
              ELSE NextActionEvent(ReadySteps(m))
  BY DEF CompleteStepEvent
<1>4. /\ graph' = ClaimReadySteps(m) /\ hasGraph
      /\ UNCHANGED <<hasGraph, applications, requests>>
      /\ chain' = [chain EXCEPT ![t] = Published(event)]
      /\ completions' = IF event = WorkflowCompletedEvent THEN completions + 1
                        ELSE completions
      /\ CompleteStep(s)
  BY DEF OnApplicationApproved, CompleteStep, Become
<1>5. NextActionEvent(ReadySteps(m)) # WorkflowCompletedEvent
  BY DEF NextActionEvent, NoEvent, WorkflowCompletedEvent
<1> HIDE DEF m
<1>6. Published(event) = Published(NextActionEvent(ReadySteps(m)))
  <2>1. CASE IsComplete(ClaimReadySteps(m))
    <3>1. ReadySteps(m) = {}
      BY <1>2, <2>1, CompletionClaimsNothing
    <3> QED
      BY <1>3, <2>1, <3>1
      DEF Published, NextActionEvent, NoEvent, WorkflowCompletedEvent
  <2> QED BY <1>3, <2>1
<1>7. event = WorkflowCompletedEvent <=> IsComplete(ClaimReadySteps(m))
  BY <1>3, <1>5
<1> HIDE DEF event, s
<1>8. m = MarkStepStatus(graph, chain[t].step, "COMPLETED")
  BY DEF m, s
<1> QED BY <1>1, <1>2, <1>4, <1>6, <1>7, <1>8 DEF ClaimHop, s

LEMMA ResumptionHops ==
  ASSUME FramesTyped, graph \in [Steps -> StepStatus], NEW t \in Threads,
         OnWorkflowResumed(t)
  PROVE  \/ \E m \in [Steps -> StepStatus] : ClaimHop(t, m)
         \/ \E g \in Frames : HaltHop(t, g)
<1> DEFINE s == chain[t].step
<1>1. /\ chain[t].at = "WORKFLOW_RESUMED" /\ s \in Steps \cup {NoStep}
      /\ UNCHANGED <<applications, requests, completions>>
  BY DEF FramesTyped, Frames, Carried, OnWorkflowResumed
<1>2. CASE s = NoStep /\ Become(t, Published(ClaimEvent)) /\ ResumeWorkflow
  BY <1>1, <1>2 DEF ClaimHop, ResumeWorkflow, ClaimEvent, Become
<1>3. CASE s # NoStep /\ chain[t].action = "abandon" /\ Become(t, Done)
           /\ FailStep(s)
  BY <1>1, <1>3, SimpleFrames DEF HaltHop, FailStep, Become
<1>4. CASE s # NoStep /\ chain[t].action = "retry"
           /\ Become(t, Published(ResumeStepEvent(s))) /\ ResumeStep(s)
  <2> DEFINE m == MarkStepStatus(graph, s, "PENDING")
  <2>1. m \in [Steps -> StepStatus] /\ s \in Steps
    BY <1>1, <1>4, GraphOperatorsType DEF StepStatus
  <2>2. /\ graph' = ClaimReadySteps(m) /\ hasGraph /\ UNCHANGED hasGraph
        /\ chain' = [chain EXCEPT
             ![t] = Published(NextActionEvent(ReadySteps(m)))]
    BY <1>4 DEF ResumeStep, ResumeStepEvent, Become
  <2> QED BY <1>1, <1>4, <2>1, <2>2 DEF ClaimHop
<1> QED BY <1>2, <1>3, <1>4 DEF OnWorkflowResumed

LEMMA HaltHops ==
  ASSUME FramesTyped, NEW t \in Threads,
         OnApplicationRejected(t) \/ OnDocumentMissing(t)
  PROVE  \E g \in Frames : HaltHop(t, g)
<1>1. chain[t] \in Frames
  BY DEF FramesTyped
<1>2. CASE OnApplicationRejected(t)
  <2>1. chain[t].step \in Steps
    BY <1>1, <1>2 DEF Frames, FrameShape, VerdictAt, OnApplicationRejected
  <2> QED
    BY <1>2, <2>1, SimpleFrames
    DEF OnApplicationRejected, HaltHop, BlockStep, Become
<1>3. CASE OnDocumentMissing(t)
  <2>1. chain[t].step \in Steps /\ chain[t].at = "DOCUMENT_MISSING"
    BY <1>1, <1>3 DEF Frames, FrameShape, OnDocumentMissing
  <2>2. Returned(chain[t]) \in Frames
    BY <1>1, <2>1, ReturnedFrame
  <2> QED
    BY <1>3, <2>1, <2>2 DEF OnDocumentMissing, HaltHop, BlockStep, Become
<1> QED BY <1>2, <1>3

----------------------------------------------------------------------------
(* The invariant all the others rest on.                                     *)

Request == [step : Steps \cup {NoStep}, action : {"retry", "abandon"}]

\* The histories have their types.
HistoryTyped ==
  /\ applications \in Seq(Application)
  /\ requests \in Seq(Request) /\ Len(requests) <= MaxRequests
  /\ completions \in Nat

\* Which thread handles which events: the root thread the goal, a polling
\* thread its polls and their verdict, and each request a thread of its own.
Roles ==
  /\ \A t \in Threads :
       /\ chain[t].at \in RootAt => t = Root
       /\ chain[t].at \in VerdictAt => t \in Polls
       /\ chain[t].at = "WORKFLOW_RESUMED" =>
            \E r \in 1..Len(requests) :
              /\ t = Resume(r)
              /\ requests[r] =
                   [step |-> chain[t].step, action |-> chain[t].action]
  /\ \A r \in 1..MaxRequests :
       r > Len(requests) => chain[Resume(r)].at = "idle"

\* A polling thread polls the application it was started for, which is not
\* approved yet, and has asked no oftener than it has tried.
Asking(t) ==
  LET a == chain[t].app
  IN  /\ a \in 1..Len(applications)
      /\ t = Poll(a)
      /\ applications[a].step = chain[t].step
      /\ applications[a].status # "APPROVED"
      /\ applications[a].asked <= chain[t].attempt

\* A submitted application that nobody polls yet.
Filing(t) ==
  LET a == chain[t].app
  IN  /\ a \in 1..Len(applications)
      /\ applications[a].step = chain[t].step
      /\ applications[a].status = "SUBMITTED"
      /\ applications[a].asked = 0
      /\ Poll(a) \in Threads => chain[Poll(a)].at = "idle"

OwnApplications ==
  /\ \A t \in Threads : chain[t].at = "polling" => Asking(t)
  /\ \A t \in Threads : chain[t].at = "APPLICATION_SUBMITTED" => Filing(t)
  /\ \A t, u \in Threads :
       /\ chain[t].at = "APPLICATION_SUBMITTED"
       /\ chain[u].at = "APPLICATION_SUBMITTED"
       /\ chain[t].app = chain[u].app
       => t = u
  /\ \A a \in 1..MaxApplications :
       a > Len(applications) => chain[Poll(a)].at = "idle"

\* No process restarts here: the graph is there from the first row on, and
\* untouched before.
GraphKept ==
  \/ hasGraph
  \/ workflow.status = "ABSENT" /\ graph = InitialGraph

\* What holds of the graph and the row while every handler ends what it has
\* begun; the rest of this section does without, so that it also holds of
\* handlers that break off (GovFlowFaultsProofs).
EngineKept == EngineInvariant /\ GraphKept

SystemBase ==
  /\ TypeOK
  /\ Unstarted
  /\ FramesTyped
  /\ HistoryTyped
  /\ Roles
  /\ OwnApplications

\* Every step of the backend is one of eight kinds.
LEMMA SystemHops ==
  ASSUME SystemBase, SystemNext
  PROVE  \/ \E g \in Frames : RootHop(g)
         \/ \E t \in Threads : \E g \in Frames :
              Quiet(t, g) \/ SubmitHop(t, g) \/ HaltHop(t, g)
         \/ \E t \in Threads : WatchHop(t)
         \/ \E t \in Threads : \E g \in Frames : \E record :
              PollHop(t, g, record)
         \/ \E t \in Threads : \E m \in [Steps -> StepStatus] : ClaimHop(t, m)
         \/ \E s \in Steps \cup {NoStep}, action \in {"retry", "abandon"} :
              UserHop(s, action)
<1>1. /\ FramesTyped /\ applications \in Seq(Application)
      /\ graph \in [Steps -> StepStatus]
  BY DEF SystemBase, HistoryTyped, TypeOK
<1>2. CASE \/ GoalInterpreter \/ Regulation \/ PlanningSkipped
           \/ WorkflowPlanner \/ Eligibility \/ AgentGivesUp
  BY <1>1, <1>2, RootHops
<1>3. CASE WorkflowCreated
  <2>1. Root \in Threads
    BY ThreadNames
  <2>2. hasGraph
    BY <1>3 DEF WorkflowCreated, FinishCreation, SystemBase, TypeOK
  <2>3. ClaimHop(Root, graph)
    BY <1>3, <2>2
    DEF WorkflowCreated, ClaimHop, FinishCreation, ClaimEvent, Become
  <2> QED BY <1>1, <2>1, <2>3
<1>4. CASE \E s \in Steps \cup {NoStep}, action \in {"retry", "abandon"} :
             PublishManualEvent(s, action)
  <2>1. PICK s \in Steps \cup {NoStep}, action \in {"retry", "abandon"} :
          PublishManualEvent(s, action)
    BY <1>4
  <2>2. requests' = Append(requests, [step |-> s, action |-> action])
    BY <2>1 DEF PublishManualEvent
  <2>3. Len(requests') = Len(requests) + 1
    BY <1>1, <2>2 DEF SystemBase, HistoryTyped
  <2>4. UserHop(s, action)
    BY <2>1, <2>3 DEF PublishManualEvent, UserHop, Become, Resumed
  <2> QED BY <2>4
<1>5. ASSUME NEW t \in Threads, CascadeStep(t)
      PROVE  \/ \E g \in Frames :
                  Quiet(t, g) \/ SubmitHop(t, g) \/ HaltHop(t, g)
             \/ WatchHop(t)
             \/ \E g \in Frames : \E record : PollHop(t, g, record)
             \/ \E m \in [Steps -> StepStatus] : ClaimHop(t, m)
  <2>1. CASE DocumentAgent(t) \/ DocumentAgentContinues(t)
             \/ DepartmentRouter(t)
    BY <1>1, <2>1, QuietHops
  <2>2. CASE ApplicationAgent(t)
    BY <1>1, <2>2, ApplicationHops
  <2>3. CASE StatusMonitor(t)
    BY <2>3, WatchHops
  <2>4. CASE PollRateLimited(t) \/ PollStatus(t)
    <3>1. chain[t].at = "polling"
      BY <2>4 DEF PollRateLimited, PollStatus
    <3>2. chain[t].app \in 1..Len(applications)
      BY <3>1 DEF SystemBase, OwnApplications, Asking
    <3>3. applications[chain[t].app] \in Application
      BY <1>1, <3>2
    <3> QED BY <1>1, <2>4, <3>3, PollHops
  <2>5. CASE OnApplicationApproved(t)
    BY <1>1, <2>5, ApprovalHop
  <2>6. CASE OnApplicationRejected(t) \/ OnDocumentMissing(t)
    BY <1>1, <2>6, HaltHops
  <2>7. CASE OnWorkflowResumed(t)
    BY <1>1, <2>7, ResumptionHops
  <2> QED BY <1>5, <2>1, <2>2, <2>3, <2>4, <2>5, <2>6, <2>7 DEF CascadeStep
<1> QED BY <1>2, <1>3, <1>4, <1>5 DEF SystemNext, RootStep, UserStep

\* Every step of the backend is a step of the engine, or none at all: only
\* the engine writes the graph and the row.
LEMMA SystemStepsTheEngine ==
  ASSUME SystemBase, [SystemNext]_vars
  PROVE  [Next]_engineVars
<1>1. CASE UNCHANGED vars
  BY <1>1 DEF vars, engineVars
<1>2. CASE UNCHANGED engineVars
  BY <1>2
<1>3. ASSUME NEW g \in Frames, RootHop(g)
      PROVE  [Next]_engineVars
  <2>1. CASE CreateWorkflow
    BY <2>1 DEF Next
  <2>2. CASE \E gate \in GateStatus : BlockWorkflow(gate)
    BY <2>2 DEF Next
  <2> QED BY <1>2, <1>3, <2>1, <2>2 DEF RootHop
<1>4. ASSUME NEW t \in Threads, NEW m, ClaimHop(t, m)
      PROVE  [Next]_engineVars
  BY <1>4 DEF ClaimHop, Next
<1>5. ASSUME NEW t \in Threads, NEW g, HaltHop(t, g)
      PROVE  [Next]_engineVars
  BY <1>5 DEF HaltHop, Next, GateStatus
<1>6. ASSUME NEW t \in Threads, NEW g, Quiet(t, g) \/ SubmitHop(t, g)
      PROVE  UNCHANGED engineVars
  BY <1>6 DEF Quiet, SubmitHop
<1>7. ASSUME NEW t \in Threads, WatchHop(t)
      PROVE  UNCHANGED engineVars
  BY <1>7 DEF WatchHop
<1>8. ASSUME NEW t \in Threads, NEW g, NEW record, PollHop(t, g, record)
      PROVE  UNCHANGED engineVars
  BY <1>8 DEF PollHop
<1>9. ASSUME NEW s, NEW action, UserHop(s, action)
      PROVE  UNCHANGED engineVars
  BY <1>9 DEF UserHop
<1> QED
  BY <1>1, <1>2, <1>3, <1>4, <1>5, <1>6, <1>7, <1>8, <1>9, SystemHops

\* No step of the backend loses the graph, and so the engine keeps its promise.
LEMMA NextKeepsEngine ==
  ASSUME SystemBase, EngineKept, [SystemNext]_vars
  PROVE  EngineKept'
<1>1. EngineInvariant'
  BY SystemStepsTheEngine, NextInvariant DEF EngineKept
<1>2. ASSUME UNCHANGED engineVars PROVE GraphKept'
  BY <1>2 DEF engineVars, EngineKept, GraphKept
<1>3. ASSUME NEW g \in Frames, RootHop(g) PROVE GraphKept'
  <2>1. CASE CreateWorkflow
    BY <2>1 DEF CreateWorkflow, GraphKept
  <2>2. CASE \E gate \in GateStatus : BlockWorkflow(gate)
    BY <2>2 DEF BlockWorkflow, EngineKept, GraphKept
  <2> QED BY <1>2, <1>3, <2>1, <2>2 DEF RootHop
<1>4. ASSUME NEW t \in Threads, NEW m, NEW g, ClaimHop(t, m) \/ HaltHop(t, g)
      PROVE  GraphKept'
  <2>1. hasGraph /\ hasGraph' = hasGraph
    BY <1>4, Zenon DEF ClaimHop, HaltHop
  <2> QED BY <2>1, Zenon DEF GraphKept
<1>5. \/ UNCHANGED engineVars
      \/ \E g \in Frames : RootHop(g)
      \/ \E t \in Threads : \E m, g : ClaimHop(t, m) \/ HaltHop(t, g)
  <2>1. CASE UNCHANGED vars
    BY <2>1 DEF vars
  <2>2. CASE SystemNext
    <3>1. \A t, g : Quiet(t, g) \/ SubmitHop(t, g) => UNCHANGED engineVars
      BY DEF Quiet, SubmitHop
    <3>2. \A t : WatchHop(t) => UNCHANGED engineVars
      BY DEF WatchHop
    <3>3. \A t, g, record : PollHop(t, g, record) => UNCHANGED engineVars
      BY DEF PollHop
    <3>4. \A s, action : UserHop(s, action) => UNCHANGED engineVars
      BY DEF UserHop
    <3> QED BY <2>2, <3>1, <3>2, <3>3, <3>4, SystemHops
  <2> QED BY <2>1, <2>2
<1> QED BY <1>1, <1>2, <1>3, <1>4, <1>5 DEF EngineKept

\* A step writes the frame of the thread that takes it, and no other.
LEMMA OneThread ==
  ASSUME FramesTyped, NEW t \in Threads, NEW g \in Frames,
         chain' = [chain EXCEPT ![t] = g]
  PROVE  /\ FramesTyped'
         /\ chain'[t] = g
         /\ \A u \in Threads : u # t => chain'[u] = chain[u]
BY DEF FramesTyped

LEMMA PollThreads ==
  /\ \A a : Poll(a) \in Threads <=> a \in 1..MaxApplications
  /\ \A a, b : Poll(a) = Poll(b) => a = b
  /\ \A a, r : Poll(a) # Resume(r)
  /\ \A a : Poll(a) # Root
BY DEF Threads, Polls, Poll, Root, Resume

\* What follows from the invariant about one submitted or polled application.
LEMMA ApplicationFacts ==
  ASSUME SystemBase
  PROVE  /\ \A a \in 1..Len(applications) : applications[a] \in Application
         /\ Len(applications) \in Nat
         /\ \A t \in Threads : chain[t] \in Frames
BY DEF SystemBase, HistoryTyped, FramesTyped

\* A step that touches neither history and gives its thread no application,
\* no request and no verdict.
LEMMA PlainUpdate ==
  ASSUME SystemBase, NEW t \in Threads, NEW g \in Frames,
         chain' = [chain EXCEPT ![t] = g],
         UNCHANGED <<applications, requests>>,
         g.at \notin VerdictAt \cup {"APPLICATION_SUBMITTED",
                                     "WORKFLOW_RESUMED"},
         g.at \in RootAt => t = Root,
         chain[t].at # "idle"
  PROVE  FramesTyped' /\ Roles' /\ OwnApplications'
<1>1. /\ FramesTyped' /\ chain'[t] = g
      /\ \A u \in Threads : u # t => chain'[u] = chain[u]
  BY OneThread DEF SystemBase
<1>2. applications' = applications /\ requests' = requests
  OBVIOUS
<1>3. \A a : Poll(a) \in Threads /\ chain[Poll(a)].at = "idle" =>
               chain'[Poll(a)].at = "idle"
  BY <1>1
<1>4. \A r \in 1..MaxRequests : chain[Resume(r)].at = "idle" =>
                                  chain'[Resume(r)].at = "idle"
  BY <1>1, ThreadNames
<1>5. Roles'
  <2>1. ASSUME NEW u \in Threads
        PROVE  /\ chain'[u].at \in RootAt => u = Root
               /\ chain'[u].at \in VerdictAt => u \in Polls
               /\ chain'[u].at = "WORKFLOW_RESUMED" =>
                    \E r \in 1..Len(requests) :
                      /\ u = Resume(r)
                      /\ requests[r] = [step |-> chain'[u].step,
                                        action |-> chain'[u].action]
    <3>1. CASE u = t
      BY <1>1, <3>1
    <3>2. CASE u # t
      BY <1>1, <3>2 DEF SystemBase, Roles
    <3> QED BY <3>1, <3>2
  <2> QED BY <1>2, <1>4, <2>1 DEF SystemBase, Roles
<1>6. \A u \in Threads : chain'[u].at = "polling" =>
        chain'[u] = chain[u] /\ Asking(u)
  BY <1>1 DEF SystemBase, OwnApplications, VerdictAt
<1>7. \A u \in Threads : chain'[u].at = "APPLICATION_SUBMITTED" =>
        chain'[u] = chain[u] /\ Filing(u)
  BY <1>1 DEF SystemBase, OwnApplications
<1>8. \A u \in Threads : chain'[u].at = "polling" => Asking(u)'
  BY <1>2, <1>6 DEF Asking
<1>9. \A u \in Threads : chain'[u].at = "APPLICATION_SUBMITTED" => Filing(u)'
  BY <1>2, <1>3, <1>7 DEF Filing
<1>10. \A a \in 1..MaxApplications :
         a > Len(applications) => chain'[Poll(a)].at = "idle"
  BY <1>3, PollThreads DEF SystemBase, OwnApplications
<1>11. \A u, v \in Threads :
         /\ chain'[u].at = "APPLICATION_SUBMITTED"
         /\ chain'[v].at = "APPLICATION_SUBMITTED"
         /\ chain'[u].app = chain'[v].app
         => u = v
  BY <1>7 DEF SystemBase, OwnApplications
<1>12. OwnApplications'
  BY <1>2, <1>8, <1>9, <1>10, <1>11 DEF OwnApplications
<1> QED BY <1>1, <1>5, <1>12

\* A new application is nobody's yet, and its number is new.
LEMMA SubmitKeepsBase ==
  ASSUME SystemBase, NEW t \in Threads, NEW g \in Frames, SubmitHop(t, g)
  PROVE  FramesTyped' /\ HistoryTyped' /\ Roles' /\ OwnApplications'
<1> DEFINE n == Len(applications)
<1>1. /\ FramesTyped' /\ chain'[t] = g
      /\ \A u \in Threads : u # t => chain'[u] = chain[u]
  BY OneThread DEF SystemBase, SubmitHop
<1>2. /\ chain[t].at = "APPLICATION_READY" /\ chain[t].step \in Steps
      /\ requests' = requests /\ completions' = completions
  BY DEF SystemBase, FramesTyped, Frames, FrameShape, LoopAt, Carried,
         SubmitHop
<1>3. PICK scenario \in Scenarios :
        applications' = Append(applications, Submitted(chain[t].step, scenario))
  BY DEF SubmitHop
<1>4. Submitted(chain[t].step, scenario) \in Application
  BY <1>2, GovFlowAssumption DEF Submitted, Application, GovFlowAssumption
<1>5. /\ applications \in Seq(Application) /\ n \in Nat
      /\ applications' \in Seq(Application) /\ Len(applications') = n + 1
      /\ applications'[n + 1] = Submitted(chain[t].step, scenario)
      /\ \A a \in 1..n : applications'[a] = applications[a]
  BY <1>3, <1>4 DEF SystemBase, HistoryTyped
<1>6. /\ g.at = "APPLICATION_SUBMITTED" /\ g.app = n + 1
      /\ g.step = chain[t].step
  BY <1>5 DEF SubmitHop
<1> HIDE DEF n
<1>7. HistoryTyped'
  BY <1>2, <1>5 DEF HistoryTyped, SystemBase
<1>8. \A a : Poll(a) \in Threads /\ chain[Poll(a)].at = "idle" =>
               chain'[Poll(a)].at = "idle"
  BY <1>1, <1>2
<1>9. \A a \in 1..MaxApplications : a > n => chain'[Poll(a)].at = "idle"
  BY <1>8, PollThreads DEF SystemBase, OwnApplications, n
<1>10. Roles'
  <2>1. \A r \in 1..MaxRequests :
          r > Len(requests') => chain'[Resume(r)].at = "idle"
    BY <1>1, <1>2, ThreadNames DEF SystemBase, Roles
  <2>2. ASSUME NEW u \in Threads
        PROVE  /\ chain'[u].at \in RootAt => u = Root
               /\ chain'[u].at \in VerdictAt => u \in Polls
               /\ chain'[u].at = "WORKFLOW_RESUMED" =>
                    \E r \in 1..Len(requests) :
                      /\ u = Resume(r)
                      /\ requests[r] = [step |-> chain'[u].step,
                                        action |-> chain'[u].action]
    <3>1. CASE u = t
      BY <1>1, <1>6, <3>1 DEF RootAt, VerdictAt
    <3>2. CASE u # t
      BY <1>1, <3>2 DEF SystemBase, Roles
    <3> QED BY <3>1, <3>2
  <2> QED BY <1>2, <2>1, <2>2 DEF Roles
<1>11. \A u \in Threads : chain'[u].at = "polling" =>
         chain'[u] = chain[u] /\ Asking(u)
  BY <1>1, <1>6 DEF SystemBase, OwnApplications
<1>12. \A u \in Threads : u # t /\ chain'[u].at = "APPLICATION_SUBMITTED" =>
         chain'[u] = chain[u] /\ Filing(u)
  BY <1>1 DEF SystemBase, OwnApplications
<1>13. \A u \in Threads : chain'[u].at = "polling" => Asking(u)'
  BY <1>5, <1>11 DEF Asking, n
<1>14. Filing(t)'
  <2>1. Poll(n + 1) \in Threads => chain'[Poll(n + 1)].at = "idle"
    BY <1>5, <1>9, PollThreads
  <2>2. /\ n + 1 \in 1..(n + 1)
        /\ applications'[n + 1].step = g.step
        /\ applications'[n + 1].status = "SUBMITTED"
        /\ applications'[n + 1].asked = 0
    BY <1>5, <1>6 DEF Submitted
  <2> QED BY <1>1, <1>5, <1>6, <2>1, <2>2 DEF Filing
<1>15. \A u \in Threads :
         u # t /\ chain'[u].at = "APPLICATION_SUBMITTED" => Filing(u)'
  BY <1>5, <1>8, <1>12 DEF Filing, n
<1>16. \A u, v \in Threads :
         /\ chain'[u].at = "APPLICATION_SUBMITTED"
         /\ chain'[v].at = "APPLICATION_SUBMITTED"
         /\ chain'[u].app = chain'[v].app
         => u = v
  <2>1. \A u \in Threads : u # t /\ chain'[u].at = "APPLICATION_SUBMITTED" =>
          chain'[u].app # chain'[t].app
    BY <1>1, <1>5, <1>6, <1>12 DEF Filing, n
  <2> QED BY <1>12, <2>1 DEF SystemBase, OwnApplications
<1>17. \A a \in 1..MaxApplications :
         a > Len(applications') => chain'[Poll(a)].at = "idle"
  BY <1>5, <1>9
<1>18. OwnApplications'
  BY <1>13, <1>14, <1>15, <1>16, <1>17 DEF OwnApplications
<1> QED BY <1>1, <1>7, <1>10, <1>18

\* A poll without a verdict starts the next attempt; a verdict is the last
\* the task hears of its application.
LEMMA PollKeepsBase ==
  ASSUME SystemBase, NEW t \in Threads, NEW g \in Frames, NEW record,
         PollHop(t, g, record)
  PROVE  FramesTyped' /\ HistoryTyped' /\ Roles' /\ OwnApplications'
<1> DEFINE a == chain[t].app
           old == applications[a]
<1>1. /\ FramesTyped' /\ chain'[t] = g
      /\ \A u \in Threads : u # t => chain'[u] = chain[u]
  BY OneThread DEF SystemBase, PollHop
<1>2. /\ chain[t].at = "polling"
      /\ requests' = requests /\ completions' = completions
  BY DEF PollHop
<1>3. /\ a \in 1..Len(applications) /\ t = Poll(a)
      /\ old.step = chain[t].step /\ old.status # "APPROVED"
      /\ old.asked <= chain[t].attempt
      /\ old \in Application /\ chain[t].attempt \in 0..(MaxPolls - 1)
      /\ t \in Polls
  BY <1>2, ApplicationFacts
  DEF SystemBase, OwnApplications, Asking, Roles, VerdictAt, Frames, Carried
<1> HIDE DEF a, old
<1>4. /\ applications' \in Seq(Application)
      /\ Len(applications') = Len(applications)
      /\ \A b \in 1..Len(applications) :
           b # a => applications'[b] = applications[b]
      /\ applications'[a].step = old.step
      /\ applications'[a].asked <= chain[t].attempt + 1
      /\ applications'[a].status = "APPROVED" => g.at # "polling"
  <2>1. applications \in Seq(Application)
    BY DEF SystemBase, HistoryTyped
  <2>2. CASE UNCHANGED applications
    BY <1>3, <2>1, <2>2 DEF old, Application
  <2>3. CASE applications' # applications
    <3>1. /\ applications' = [applications EXCEPT ![a] = record]
          /\ record = [old EXCEPT !.asked = old.asked + 1,
                                  !.status = record.status]
          /\ record.status \in {old.status, "PENDING", "APPROVED", "REJECTED",
                                "DOCUMENT_MISSING"}
          /\ record.status = "APPROVED" => g.at # "polling"
      BY <1>3, <2>3 DEF PollHop, a, old
    <3>2. old.asked \in Nat /\ old.asked + 1 \in 0..MaxPolls
      BY <1>3, GovFlowAssumption DEF Application, GovFlowAssumption
    <3>3. /\ record \in Application /\ record.step = old.step
          /\ record.asked = old.asked + 1
      <4> DEFINE x == record.status
      <4>1. x \in {"SUBMITTED", "PENDING", "APPROVED", "REJECTED",
                   "DOCUMENT_MISSING"}
        BY <1>3, <3>1 DEF Application
      <4>2. record = [old EXCEPT !.asked = old.asked + 1, !.status = x]
        BY <3>1
      <4> HIDE DEF x
      <4> QED BY <1>3, <3>2, <4>1, <4>2 DEF Application
    <3>4. /\ applications' \in Seq(Application)
          /\ Len(applications') = Len(applications)
          /\ applications'[a] = record
          /\ \A b \in 1..Len(applications) :
               b # a => applications'[b] = applications[b]
      BY <1>3, <2>1, <3>1, <3>3
    <3> QED BY <1>3, <3>1, <3>2, <3>3, <3>4
  <2> QED BY <2>2, <2>3
<1>5. HistoryTyped'
  BY <1>2, <1>4 DEF HistoryTyped, SystemBase
<1>6. /\ g.at \in {"done", "polling", "DOCUMENT_MISSING"} \cup VerdictAt
      /\ g.at = "polling" =>
           /\ g.step = chain[t].step /\ g.app = a
           /\ g.attempt = chain[t].attempt + 1
  BY SimpleFrames DEF PollHop, VerdictAt, a
<1>7. Roles'
  <2>1. \A r \in 1..MaxRequests :
          r > Len(requests') => chain'[Resume(r)].at = "idle"
    BY <1>1, <1>2, ThreadNames DEF SystemBase, Roles
  <2>2. ASSUME NEW u \in Threads
        PROVE  /\ chain'[u].at \in RootAt => u = Root
               /\ chain'[u].at \in VerdictAt => u \in Polls
               /\ chain'[u].at = "WORKFLOW_RESUMED" =>
                    \E r \in 1..Len(requests) :
                      /\ u = Resume(r)
                      /\ requests[r] = [step |-> chain'[u].step,
                                        action |-> chain'[u].action]
    <3>1. CASE u = t
      BY <1>1, <1>3, <1>6, <3>1 DEF RootAt, VerdictAt
    <3>2. CASE u # t
      BY <1>1, <3>2 DEF SystemBase, Roles
    <3> QED BY <3>1, <3>2
  <2> QED BY <1>2, <2>1, <2>2 DEF Roles
<1>8. \A b : Poll(b) \in Threads /\ chain[Poll(b)].at = "idle" =>
               chain'[Poll(b)].at = "idle"
  BY <1>1, <1>2
<1>9. Asking(t)' \/ chain'[t].at # "polling"
  BY <1>1, <1>3, <1>4, <1>6 DEF Asking
<1>10. \A u \in Threads : u # t /\ chain'[u].at = "polling" =>
         /\ chain'[u] = chain[u] /\ Asking(u) /\ chain[u].app # a
  BY <1>1, <1>3 DEF SystemBase, OwnApplications, Asking
<1>11. \A u \in Threads : chain'[u].at = "APPLICATION_SUBMITTED" =>
         /\ chain'[u] = chain[u] /\ Filing(u) /\ chain[u].app # a
  <2>1. \A u \in Threads : chain'[u].at = "APPLICATION_SUBMITTED" =>
          chain'[u] = chain[u] /\ Filing(u)
    BY <1>1, <1>6 DEF SystemBase, OwnApplications, VerdictAt
  <2>2. Poll(a) \in Threads /\ chain[Poll(a)].at # "idle"
    BY <1>2, <1>3
  <2> QED BY <2>1, <2>2 DEF Filing
<1>12. \A u \in Threads : u # t /\ chain'[u].at = "polling" => Asking(u)'
  BY <1>4, <1>10 DEF Asking
<1>13. \A u \in Threads : chain'[u].at = "APPLICATION_SUBMITTED" => Filing(u)'
  BY <1>4, <1>8, <1>11 DEF Filing
<1>14. \A u, v \in Threads :
         /\ chain'[u].at = "APPLICATION_SUBMITTED"
         /\ chain'[v].at = "APPLICATION_SUBMITTED"
         /\ chain'[u].app = chain'[v].app
         => u = v
  BY <1>11 DEF SystemBase, OwnApplications
<1>15. \A b \in 1..MaxApplications :
         b > Len(applications') => chain'[Poll(b)].at = "idle"
  BY <1>4, <1>8, PollThreads DEF SystemBase, OwnApplications
<1>16. OwnApplications'
  BY <1>9, <1>12, <1>13, <1>14, <1>15 DEF OwnApplications
<1> QED BY <1>1, <1>5, <1>7, <1>16

\* The thread that submitted an application starts its task and goes on; it
\* is not the task.
LEMMA WatchMoves ==
  ASSUME SystemBase, NEW t \in Threads, WatchHop(t)
  PROVE  LET a == chain[t].app
         IN  /\ a \in 1..Len(applications) /\ chain[t].step \in Steps
             /\ chain'[t] = Returned(chain[t]) /\ chain'[t] \in Frames
             /\ chain'[t].at \in {"done", "checklist"}
             /\ Poll(a) # t
             /\ Poll(a) \in Threads =>
                  /\ chain[Poll(a)].at = "idle"
                  /\ chain'[Poll(a)] = Polling(chain[t].step, a)
             /\ \A u \in Threads : u # t /\ u # Poll(a) => chain'[u] = chain[u]
             /\ FramesTyped'
<1> DEFINE a == chain[t].app
           f == chain[t]
           r == Returned(f)
           q == Polling(f.step, a)
<1>1. f \in Frames /\ f.at = "APPLICATION_SUBMITTED" /\ Filing(t)
      /\ chain \in [Threads -> Frames]
  BY DEF WatchHop, SystemBase, FramesTyped, OwnApplications
<1>2. /\ a \in 1..Len(applications)
      /\ Poll(a) \in Threads => chain[Poll(a)].at = "idle"
  BY <1>1 DEF Filing
<1>3. f.step \in Steps
  BY <1>1 DEF Frames, FrameShape, Carried, LoopAt
<1>4. r \in Frames /\ r.at \in {"done", "checklist"}
  BY <1>1, ReturnedFrame DEF LoopAt
<1>5. q \in Frames
  BY <1>2, <1>3, PollingFrame
<1>6. Poll(a) # t
  BY <1>1, <1>2
<1>7. chain' = [chain EXCEPT ![t] = r, ![Poll(a)] = q]
  BY DEF WatchHop
<1> HIDE DEF r, q, a, f
<1>8. /\ chain'[t] = r
      /\ Poll(a) \in Threads => chain'[Poll(a)] = q
      /\ \A u \in Threads : u # t /\ u # Poll(a) => chain'[u] = chain[u]
      /\ chain' \in [Threads -> Frames]
  BY <1>1, <1>4, <1>5, <1>6, <1>7
<1> QED BY <1>2, <1>3, <1>4, <1>6, <1>8 DEF r, q, a, f, FramesTyped

LEMMA WatchKeepsBase ==
  ASSUME SystemBase, NEW t \in Threads, WatchHop(t)
  PROVE  FramesTyped' /\ HistoryTyped' /\ Roles' /\ OwnApplications'
<1>0. PICK a \in 1..Len(applications) : a = chain[t].app
  BY WatchMoves
<1> DEFINE p == Poll(a)
           s == chain[t].step
<1>1. /\ s \in Steps
      /\ chain'[t].at \in {"done", "checklist"}
      /\ p # t
      /\ p \in Threads => chain[p].at = "idle" /\ chain'[p] = Polling(s, a)
      /\ \A u \in Threads : u # t /\ u # p => chain'[u] = chain[u]
      /\ FramesTyped'
  BY <1>0, WatchMoves
<1>2. /\ requests' = requests /\ completions' = completions
      /\ applications' = applications
      /\ chain[t].at = "APPLICATION_SUBMITTED"
  BY DEF WatchHop
<1>3. /\ applications[a].step = s /\ applications[a].status = "SUBMITTED"
      /\ applications[a].asked = 0
  BY <1>0, <1>2 DEF SystemBase, OwnApplications, Filing
<1>4. /\ Polling(s, a).at = "polling" /\ Polling(s, a).step = s
      /\ Polling(s, a).app = a /\ Polling(s, a).attempt = 0
  BY <1>0, <1>1, PollingFrame
<1>5. p \in Threads => p \in Polls
  BY PollThreads DEF Polls
<1> HIDE DEF p, s
<1>6. HistoryTyped'
  BY <1>2 DEF HistoryTyped, SystemBase
<1>7. Roles'
  <2>1. \A r \in 1..MaxRequests :
          r > Len(requests') => chain'[Resume(r)].at = "idle"
    <3>1. \A r \in 1..MaxRequests :
            Resume(r) \in Threads /\ Resume(r) # p
      BY ThreadNames, PollThreads DEF p
    <3> QED BY <1>1, <1>2, <3>1 DEF SystemBase, Roles
  <2>2. ASSUME NEW u \in Threads
        PROVE  /\ chain'[u].at \in RootAt => u = Root
               /\ chain'[u].at \in VerdictAt => u \in Polls
               /\ chain'[u].at = "WORKFLOW_RESUMED" =>
                    \E r \in 1..Len(requests) :
                      /\ u = Resume(r)
                      /\ requests[r] = [step |-> chain'[u].step,
                                        action |-> chain'[u].action]
    <3>1. CASE u = t
      BY <1>1, <3>1 DEF RootAt, VerdictAt
    <3>2. CASE u = p
      BY <1>1, <1>4, <1>5, <3>2 DEF RootAt, VerdictAt
    <3>3. CASE u # t /\ u # p
      BY <1>1, <3>3 DEF SystemBase, Roles
    <3> QED BY <3>1, <3>2, <3>3
  <2> QED BY <1>2, <2>1, <2>2 DEF Roles
<1>8. \A u \in Threads : chain'[u].at = "APPLICATION_SUBMITTED" =>
        /\ chain'[u] = chain[u] /\ Filing(u)
        /\ u # t /\ chain[u].app # a
  <2>1. \A u \in Threads : chain'[u].at = "APPLICATION_SUBMITTED" =>
          u # t /\ u # p
    BY <1>1, <1>4
  <2> QED BY <1>0, <1>1, <1>2, <2>1 DEF SystemBase, OwnApplications
<1>9. \A u \in Threads : chain'[u].at = "polling" =>
        u = p \/ (chain'[u] = chain[u] /\ Asking(u))
  BY <1>1 DEF SystemBase, OwnApplications
<1>10. \A u \in Threads : chain'[u].at = "polling" => Asking(u)'
  <2>1. ASSUME p \in Threads PROVE Asking(p)'
    <3>1. /\ chain'[p].app = a /\ chain'[p].step = s /\ chain'[p].attempt = 0
          /\ p = Poll(a)
      BY <1>1, <1>4, <2>1 DEF p
    <3> QED BY <1>2, <1>3, <3>1 DEF Asking
  <2>2. ASSUME NEW u \in Threads, chain'[u] = chain[u], Asking(u)
        PROVE  Asking(u)'
    BY <1>2, <2>2 DEF Asking
  <2> QED BY <1>9, <2>1, <2>2
<1>11. \A u \in Threads : chain'[u].at = "APPLICATION_SUBMITTED" => Filing(u)'
  <2>1. \A b : Poll(b) \in Threads /\ chain[Poll(b)].at = "idle" /\ b # a =>
                 chain'[Poll(b)].at = "idle"
    BY <1>1, <1>2, PollThreads DEF p
  <2> QED BY <1>2, <1>8, <2>1 DEF Filing
<1>12. \A u, v \in Threads :
         /\ chain'[u].at = "APPLICATION_SUBMITTED"
         /\ chain'[v].at = "APPLICATION_SUBMITTED"
         /\ chain'[u].app = chain'[v].app
         => u = v
  BY <1>8 DEF SystemBase, OwnApplications
<1>13. \A b \in 1..MaxApplications :
         b > Len(applications') => chain'[Poll(b)].at = "idle"
  <2>1. ASSUME NEW b \in 1..MaxApplications, b > Len(applications)
        PROVE  chain'[Poll(b)].at = "idle"
    <3>1. Poll(b) \in Threads /\ chain[Poll(b)].at = "idle"
      BY <2>1, PollThreads DEF SystemBase, OwnApplications
    <3>2. b # a /\ Poll(b) # p /\ Poll(b) # t
      BY <1>1, <1>2, <2>1, <3>1, PollThreads, ApplicationFacts DEF p
    <3> QED BY <1>1, <3>1, <3>2
  <2> QED BY <1>2, <2>1
<1>14. OwnApplications'
  BY <1>10, <1>11, <1>12, <1>13 DEF OwnApplications
<1> QED BY <1>1, <1>6, <1>7, <1>14

\* A request gets the next thread of its kind.
LEMMA UserKeepsBase ==
  ASSUME SystemBase, NEW s \in Steps \cup {NoStep},
         NEW action \in {"retry", "abandon"}, UserHop(s, action)
  PROVE  FramesTyped' /\ HistoryTyped' /\ Roles' /\ OwnApplications'
<1> DEFINE n == Len(requests)
           t == Resume(n + 1)
           g == Resumed(s, action)
           new == [step |-> s, action |-> action]
<1>1. /\ n \in Nat /\ n < MaxRequests /\ requests \in Seq(Request)
      /\ requests' = Append(requests, new) /\ new \in Request
      /\ UNCHANGED <<engineVars, applications, completions>>
      /\ MaxRequests \in Nat
  BY GovFlowAssumption
  DEF SystemBase, HistoryTyped, UserHop, Request, GovFlowAssumption
<1>2. /\ requests' \in Seq(Request) /\ Len(requests') = n + 1
      /\ requests'[n + 1] = new
      /\ \A r \in 1..n : requests'[r] = requests[r]
  BY <1>1
<1>3. /\ t \in Threads /\ chain[t].at = "idle" /\ t # Root /\ t \notin Polls
  <2>1. n + 1 \in 1..MaxRequests /\ n + 1 > n
    BY <1>1
  <2> QED BY <2>1, ThreadNames DEF SystemBase, Roles
<1>4. /\ g \in Frames /\ g.at = "WORKFLOW_RESUMED" /\ g.step = s
      /\ g.action = action
  BY ResumedFrame
<1>5. chain' = [chain EXCEPT ![t] = g]
  BY DEF UserHop
<1> HIDE DEF g
<1>6. /\ FramesTyped' /\ chain'[t] = g
      /\ \A u \in Threads : u # t => chain'[u] = chain[u]
  BY <1>3, <1>4, <1>5, OneThread DEF SystemBase
<1>7. \A r \in 1..MaxRequests : r > n + 1 =>
        Resume(r) \in Threads /\ Resume(r) # t
  BY <1>1, ThreadNames
<1>8. \A b : Poll(b) # t
  BY PollThreads
<1>9. new.step = s /\ new.action = action
  OBVIOUS
<1> HIDE DEF n, t
<1>10. HistoryTyped'
  BY <1>1, <1>2 DEF HistoryTyped, SystemBase
<1>11. Roles'
  <2>1. \A r \in 1..MaxRequests :
          r > Len(requests') => chain'[Resume(r)].at = "idle"
    BY <1>1, <1>2, <1>6, <1>7 DEF SystemBase, Roles, n
  <2>2. ASSUME NEW u \in Threads
        PROVE  /\ chain'[u].at \in RootAt => u = Root
               /\ chain'[u].at \in VerdictAt => u \in Polls
               /\ chain'[u].at = "WORKFLOW_RESUMED" =>
                    \E r \in 1..Len(requests') :
                      /\ u = Resume(r)
                      /\ requests'[r] = [step |-> chain'[u].step,
                                         action |-> chain'[u].action]
    <3>1. CASE u = t
      <4>1. requests'[n + 1] = [step |-> chain'[u].step,
                                action |-> chain'[u].action]
        BY <1>2, <1>4, <1>6, <3>1
      <4>2. n + 1 \in 1..Len(requests') /\ u = Resume(n + 1)
        BY <1>1, <1>2, <3>1 DEF t
      <4> QED BY <1>4, <1>6, <3>1, <4>1, <4>2 DEF RootAt, VerdictAt
    <3>2. CASE u # t
      <4>1. chain'[u] = chain[u] /\ 1..n \subseteq 1..Len(requests')
        BY <1>1, <1>2, <1>6, <3>2
      <4> QED BY <1>2, <4>1 DEF SystemBase, Roles, n
    <3> QED BY <3>1, <3>2
  <2> QED BY <2>1, <2>2 DEF Roles
<1>12. applications' = applications
  BY <1>1
<1>13. \A u \in Threads :
         chain'[u].at \in {"polling", "APPLICATION_SUBMITTED"} =>
           chain'[u] = chain[u]
  BY <1>4, <1>6
<1>14. \A b : Poll(b) \in Threads => chain'[Poll(b)] = chain[Poll(b)]
  BY <1>6, <1>8
<1>15. \A u \in Threads : chain'[u].at = "polling" => Asking(u)'
  BY <1>12, <1>13 DEF SystemBase, OwnApplications, Asking
<1>16. \A u \in Threads : chain'[u].at = "APPLICATION_SUBMITTED" => Filing(u)'
  BY <1>12, <1>13, <1>14 DEF SystemBase, OwnApplications, Filing
<1>17. \A b \in 1..MaxApplications :
         b > Len(applications') => chain'[Poll(b)].at = "idle"
  BY <1>12, <1>14, PollThreads DEF SystemBase, OwnApplications
<1>18. \A u, v \in Threads :
         /\ chain'[u].at = "APPLICATION_SUBMITTED"
         /\ chain'[v].at = "APPLICATION_SUBMITTED"
         /\ chain'[u].app = chain'[v].app
         => u = v
  BY <1>13 DEF SystemBase, OwnApplications
<1>19. OwnApplications'
  BY <1>15, <1>16, <1>17, <1>18 DEF OwnApplications
<1> QED BY <1>6, <1>10, <1>11, <1>19

LEMMA NextKeepsBase ==
  ASSUME SystemBase, [SystemNext]_vars
  PROVE  SystemBase'
<1>1. TypeOK' /\ Unstarted'
  BY SystemStepsTheEngine, TypesKept DEF SystemBase
<1> DEFINE Rest == FramesTyped /\ HistoryTyped /\ Roles /\ OwnApplications
<1>2. CASE UNCHANGED vars
  BY <1>1, <1>2 DEF vars, SystemBase, FramesTyped, HistoryTyped, Roles,
              OwnApplications, Asking, Filing
<1>3. \A a, b : Poll(a) # Root /\ Root \in Threads
  BY ThreadNames, PollThreads
<1>4. ASSUME NEW g \in Frames, RootHop(g)
      PROVE  Rest'
  <2>1. /\ chain' = [chain EXCEPT ![Root] = g]
        /\ UNCHANGED <<applications, requests>> /\ completions' = completions
        /\ g.at \notin VerdictAt \cup {"APPLICATION_SUBMITTED",
                                       "WORKFLOW_RESUMED"}
        /\ chain[Root].at # "idle"
    BY <1>4 DEF RootHop, RootAt, VerdictAt
  <2>2. FramesTyped' /\ Roles' /\ OwnApplications'
    BY <1>3, <2>1, PlainUpdate
  <2> QED BY <2>1, <2>2 DEF SystemBase, HistoryTyped
<1>5. ASSUME NEW t \in Threads, NEW g \in Frames, Quiet(t, g)
      PROVE  Rest'
  <2>1. /\ chain' = [chain EXCEPT ![t] = g]
        /\ UNCHANGED <<applications, requests>> /\ completions' = completions
        /\ g.at \notin VerdictAt \cup {"APPLICATION_SUBMITTED",
                                       "WORKFLOW_RESUMED"}
        /\ g.at \notin RootAt
        /\ chain[t].at # "idle"
    BY <1>5 DEF Quiet, RootAt, VerdictAt
  <2>2. FramesTyped' /\ Roles' /\ OwnApplications'
    BY <2>1, PlainUpdate
  <2> QED BY <2>1, <2>2 DEF SystemBase, HistoryTyped
<1>6. ASSUME NEW t \in Threads, NEW g \in Frames, HaltHop(t, g)
      PROVE  Rest'
  <2>1. g.at \in {"done", "checklist"}
    <3>1. CASE g = Done
      BY <3>1, SimpleFrames
    <3>2. CASE chain[t].at = "DOCUMENT_MISSING" /\ g = Returned(chain[t])
      BY <3>2, ReturnedFrame, ApplicationFacts
    <3> QED BY <1>6, <3>1, <3>2 DEF HaltHop
  <2>2. /\ chain' = [chain EXCEPT ![t] = g]
        /\ UNCHANGED <<applications, requests>> /\ completions' = completions
        /\ g.at \notin VerdictAt \cup {"APPLICATION_SUBMITTED",
                                       "WORKFLOW_RESUMED"}
        /\ g.at \notin RootAt
        /\ chain[t].at # "idle"
    BY <1>6, <2>1 DEF HaltHop, RootAt, VerdictAt
  <2>3. FramesTyped' /\ Roles' /\ OwnApplications'
    BY <2>2, PlainUpdate
  <2> QED BY <2>2, <2>3 DEF SystemBase, HistoryTyped
<1>7. ASSUME NEW t \in Threads, NEW m \in [Steps -> StepStatus], ClaimHop(t, m)
      PROVE  Rest'
  <2> DEFINE g == Published(NextActionEvent(ReadySteps(m)))
  <2>1. ReadySteps(m) \in SUBSET Steps
    BY DEF ReadySteps, PendingStepIds, StepsWith
  <2>2. g \in Frames /\ g.at \in {"done", "NEXT_ACTION_TRIGGERED"}
    BY <2>1, PublishedFrame
  <2>3. /\ chain' = [chain EXCEPT ![t] = g]
        /\ UNCHANGED <<applications, requests>>
        /\ chain[t].at # "idle"
    BY <1>7 DEF ClaimHop
  <2>4. completions' \in {completions, completions + 1}
    BY <1>7 DEF ClaimHop
  <2> HIDE DEF g
  <2>5. g.at \notin VerdictAt \cup {"APPLICATION_SUBMITTED",
                                    "WORKFLOW_RESUMED"}
        /\ g.at \notin RootAt
    BY <2>2 DEF RootAt, VerdictAt
  <2>6. FramesTyped' /\ Roles' /\ OwnApplications'
    BY <2>2, <2>3, <2>5, PlainUpdate
  <2> QED BY <2>3, <2>4, <2>6 DEF SystemBase, HistoryTyped
<1>8. ASSUME NEW t \in Threads, NEW g \in Frames, SubmitHop(t, g)
      PROVE  Rest'
  BY <1>8, SubmitKeepsBase
<1>9. ASSUME NEW t \in Threads, NEW g \in Frames, NEW record,
             PollHop(t, g, record)
      PROVE  Rest'
  BY <1>9, PollKeepsBase
<1>10. ASSUME NEW t \in Threads, WatchHop(t)
       PROVE  Rest'
  BY <1>10, WatchKeepsBase
<1>11. ASSUME NEW s \in Steps \cup {NoStep}, NEW action \in {"retry", "abandon"},
              UserHop(s, action)
       PROVE  Rest'
  BY <1>11, UserKeepsBase
<1> HIDE DEF Rest
<1>12. ASSUME SystemNext PROVE Rest'
  BY <1>4, <1>5, <1>6, <1>7, <1>8, <1>9, <1>10, <1>11, <1>12, SystemHops
<1> QED BY <1>1, <1>2, <1>12 DEF Rest, SystemBase

LEMMA InitBase == SystemInit => SystemBase
<1> SUFFICES ASSUME SystemInit PROVE SystemBase
  OBVIOUS
<1>1. TypeOK /\ Unstarted
  BY InitInvariant DEF SystemInit, Init, Unstarted, EngineInvariant
<1> DEFINE start == Handling("USER_REQUEST_CREATED", NoStep)
<1>2. start \in Frames /\ Idle \in Frames
      /\ start.at = "USER_REQUEST_CREATED" /\ Idle.at = "idle"
  BY SimpleFrames DEF RootAt, Handling, Idle
<1> HIDE DEF start
<1>3. /\ chain = [t \in Threads |-> IF t = Root THEN start ELSE Idle]
      /\ applications = << >> /\ requests = << >> /\ completions = 0
  BY DEF SystemInit, start
<1>4. /\ FramesTyped
      /\ \A t \in Threads : chain[t].at = "idle" \/
                            (t = Root /\ chain[t].at = "USER_REQUEST_CREATED")
  BY <1>2, <1>3 DEF FramesTyped
<1>5. HistoryTyped
  BY <1>3, GovFlowAssumption DEF HistoryTyped, GovFlowAssumption
<1>6. Roles
  BY <1>4, ThreadNames DEF Roles, RootAt, VerdictAt
<1>7. OwnApplications
  BY <1>4, PollThreads DEF OwnApplications
<1> QED BY <1>1, <1>4, <1>5, <1>6, <1>7 DEF SystemBase

LEMMA InitEngineKept == SystemInit => EngineKept
BY InitInvariant DEF SystemInit, Init, AbsentRow, EngineKept, GraphKept

\* In every state of the backend, whoever the user is: the engine's invariant
\* holds and its graph is there from the first row on, each thread handles the
\* events of its own role, and each polling task asks about its own
\* application, which is not approved yet.
THEOREM SystemCorrect == SystemSpec => [](SystemBase /\ EngineKept)
BY InitBase, InitEngineKept, NextKeepsBase, NextKeepsEngine, PTL
DEF SystemSpec

\* The agents, the polling tasks and the user together drive the engine only
\* through its operations: whatever holds of the engine alone, under any
\* caller, holds of the engine in the running backend.
THEOREM SystemDrivesTheEngine == SystemSpec => Spec
<1>1. SystemInit => Init
  BY DEF SystemInit
<1>2. SystemBase /\ [SystemNext]_vars => [Next]_engineVars
  BY SystemStepsTheEngine
<1> QED BY <1>1, <1>2, SystemCorrect, PTL DEF SystemSpec, Spec

----------------------------------------------------------------------------
(* What the government has approved.  PrerequisitesApproved is about what is *)
(* submitted, and its reason about what is still on its way: the list of     *)
(* steps DocumentAgent works through was ready when it was published, and    *)
(* stays grounded however long the loop takes and whatever is resumed        *)
(* meanwhile, because an approval is never taken back.                       *)

Grounded ==
  /\ \A t \in Threads :
       \A s \in chain[t].steps : \A d \in DependsOn[s] : Approved(d) # {}
  /\ \A t \in Threads :
       chain[t].at = "APPLICATION_APPROVED" => Approved(chain[t].step) # {}

StepsApproved == \A s \in Steps : graph[s] = "COMPLETED" => Approved(s) # {}

\* What holds of the approvals without the row, so that it also holds of
\* handlers that break off (GovFlowFaultsProofs).
ApprovalBase == SystemBase /\ Grounded /\ StepsApproved /\ PrerequisitesApproved

ApprovalInvariant == ApprovalBase /\ EngineKept /\ CompletedMeansApproved

\* The history of applications only grows, and an approval stays.
HistoryGrows ==
  \A a \in 1..Len(applications) :
    /\ a \in 1..Len(applications')
    /\ applications'[a].step = applications[a].step
    /\ applications[a].status = "APPROVED" => applications'[a].status = "APPROVED"

LEMMA GrowthKeepsApprovals ==
  ASSUME HistoryGrows
  PROVE  \A s \in Steps : Approved(s) \subseteq Approved(s)'
BY DEF HistoryGrows, Approved, Applied

LEMMA SubmissionGrows ==
  ASSUME SystemBase, NEW new, applications' = Append(applications, new)
  PROVE  /\ HistoryGrows
         /\ Len(applications) \in Nat
         /\ Len(applications') = Len(applications) + 1
         /\ applications'[Len(applications) + 1] = new
<1>1. Len(applications) \in Nat
  BY ApplicationFacts
<1>2. /\ Len(applications') = Len(applications) + 1
      /\ applications'[Len(applications) + 1] = new
      /\ \A a \in 1..Len(applications) : applications'[a] = applications[a]
  BY DEF SystemBase, HistoryTyped
<1> QED BY <1>1, <1>2 DEF HistoryGrows

LEMMA PollGrows ==
  ASSUME SystemBase, NEW t \in Threads, NEW g, NEW record, PollHop(t, g, record)
  PROVE  HistoryGrows
<1>1. CASE UNCHANGED applications
  BY <1>1 DEF HistoryGrows
<1>2. CASE applications' # applications
  <2> DEFINE a == chain[t].app
  <2>1. /\ applications' = [applications EXCEPT ![a] = record]
        /\ record = [applications[a] EXCEPT
                       !.asked = applications[a].asked + 1,
                       !.status = record.status]
    BY <1>2 DEF PollHop
  <2>2. /\ a \in 1..Len(applications) /\ applications[a] \in Application
        /\ applications[a].status # "APPROVED"
        /\ applications \in Seq(Application)
    BY ApplicationFacts
    DEF PollHop, SystemBase, OwnApplications, Asking, HistoryTyped
  <2>3. record.step = applications[a].step
    BY <2>1, <2>2 DEF Application
  <2> HIDE DEF a
  <2>4. /\ Len(applications') = Len(applications)
        /\ applications'[a] = record
        /\ \A b \in 1..Len(applications) :
             b # a => applications'[b] = applications[b]
    BY <2>1, <2>2
  <2> QED BY <2>2, <2>3, <2>4 DEF HistoryGrows
<1> QED BY <1>1, <1>2

LEMMA ApprovalsGrow ==
  ASSUME SystemBase, [SystemNext]_vars
  PROVE  HistoryGrows /\ \A s \in Steps : Approved(s) \subseteq Approved(s)'
<1>1. ASSUME UNCHANGED applications PROVE HistoryGrows
  BY <1>1 DEF HistoryGrows
<1>2. ASSUME NEW t \in Threads, NEW g \in Frames, SubmitHop(t, g)
      PROVE  HistoryGrows
  BY <1>2, SubmissionGrows DEF SubmitHop
<1>3. ASSUME NEW t \in Threads, NEW g \in Frames, NEW record,
             PollHop(t, g, record)
      PROVE  HistoryGrows
  BY <1>3, PollGrows
<1>4. ASSUME NEW t \in Threads, NEW g \in Frames,
             Quiet(t, g) \/ HaltHop(t, g)
      PROVE  UNCHANGED applications
  BY <1>4 DEF Quiet, HaltHop
<1>5. ASSUME NEW t \in Threads, WatchHop(t) \/ \E m : ClaimHop(t, m)
      PROVE  UNCHANGED applications
  BY <1>5 DEF WatchHop, ClaimHop
<1>6. ASSUME \/ \E g : RootHop(g)
             \/ \E s, action : UserHop(s, action)
      PROVE  UNCHANGED applications
  BY <1>6 DEF RootHop, UserHop
<1>7. ASSUME UNCHANGED vars PROVE HistoryGrows
  BY <1>1, <1>7 DEF vars
<1>8. HistoryGrows
  BY <1>1, <1>2, <1>3, <1>4, <1>5, <1>6, <1>7, SystemHops
<1> QED BY <1>8, GrowthKeepsApprovals

\* What a step marked and claimed has completed was completed before, or has
\* just been approved.
LEMMA ClaimCompletes ==
  ASSUME SystemBase, NEW t \in Threads, NEW m \in [Steps -> StepStatus],
         ClaimHop(t, m), NEW s \in Steps, m[s] = "COMPLETED"
  PROVE  \/ graph[s] = "COMPLETED"
         \/ chain[t].at = "APPLICATION_APPROVED" /\ chain[t].step = s
<1>1. graph \in [Steps -> StepStatus]
  BY DEF SystemBase, TypeOK
<1> QED BY <1>1 DEF ClaimHop, MarkStepStatus

LEMMA ClaimKeepsCompleted ==
  ASSUME NEW m \in [Steps -> StepStatus], NEW s \in Steps
  PROVE  ClaimReadySteps(m)[s] = "COMPLETED" <=> m[s] = "COMPLETED"
BY DEF ClaimReadySteps, ReadySteps, PendingStepIds, StepsWith

\* A step of the graph is completed by nothing but an approval.
LEMMA OnlyApprovalsComplete ==
  ASSUME SystemBase, [SystemNext]_vars, NEW s \in Steps,
         graph'[s] = "COMPLETED"
  PROVE  \/ graph[s] = "COMPLETED"
         \/ \E t \in Threads : /\ chain[t].at = "APPLICATION_APPROVED"
                               /\ chain[t].step = s
<1>1. graph \in [Steps -> StepStatus]
  BY DEF SystemBase, TypeOK
<1>2. CASE UNCHANGED graph
  BY <1>2
<1>3. ASSUME NEW t \in Threads, NEW m \in [Steps -> StepStatus], ClaimHop(t, m)
      PROVE  \/ graph[s] = "COMPLETED"
             \/ chain[t].at = "APPLICATION_APPROVED" /\ chain[t].step = s
  <2>1. m[s] = "COMPLETED"
    BY <1>3, ClaimKeepsCompleted DEF ClaimHop
  <2> QED BY <1>3, <2>1, ClaimCompletes
<1>4. ASSUME NEW t \in Threads, NEW g, HaltHop(t, g)
      PROVE  graph[s] = "COMPLETED"
  BY <1>1, <1>4 DEF HaltHop, MarkStepStatus
<1>5. ASSUME NEW g, RootHop(g)
      PROVE  graph[s] = "COMPLETED"
  BY <1>5 DEF RootHop, CreateWorkflow, BlockWorkflow, InitialGraph, engineVars
<1>6. ASSUME NEW t \in Threads, NEW g, Quiet(t, g) \/ SubmitHop(t, g)
      PROVE  UNCHANGED graph
  BY <1>6 DEF Quiet, SubmitHop, engineVars
<1>7. ASSUME NEW t \in Threads, WatchHop(t)
      PROVE  UNCHANGED graph
  BY <1>7 DEF WatchHop, engineVars
<1>8. ASSUME NEW t \in Threads, NEW g, NEW record, PollHop(t, g, record)
      PROVE  UNCHANGED graph
  BY <1>8 DEF PollHop, engineVars
<1>9. ASSUME NEW r, NEW action, UserHop(r, action)
      PROVE  UNCHANGED graph
  BY <1>9 DEF UserHop, engineVars
<1>10. CASE UNCHANGED vars
  BY <1>2, <1>10 DEF vars, engineVars
<1> QED BY <1>2, <1>3, <1>4, <1>5, <1>6, <1>7, <1>8, <1>9, <1>10, SystemHops

\* The steps a thread has on its list: no other than before, unless an engine
\* operation has claimed them.
LEMMA ListsShrink ==
  ASSUME SystemBase, [SystemNext]_vars, NEW u \in Threads
  PROVE  \/ chain'[u].steps \subseteq chain[u].steps
         \/ \E m \in [Steps -> StepStatus] :
              ClaimHop(u, m) /\ chain'[u].steps = ReadySteps(m)
<1> USE ApplicationFacts
<1>1. ASSUME NEW t \in Threads, NEW g \in Frames,
             chain' = [chain EXCEPT ![t] = g],
             g.steps \subseteq chain[t].steps
      PROVE  chain'[u].steps \subseteq chain[u].steps
  BY <1>1, OneThread DEF SystemBase
<1>2. ASSUME NEW g \in Frames, RootHop(g)
      PROVE  chain'[u].steps \subseteq chain[u].steps
  <2>1. g.steps = {}
    BY <1>2 DEF RootHop, Frames, FrameShape
  <2> QED BY <1>1, <1>2, <2>1, ThreadNames DEF RootHop
<1>3. ASSUME NEW t \in Threads, NEW g \in Frames,
             Quiet(t, g) \/ SubmitHop(t, g)
      PROVE  chain'[u].steps \subseteq chain[u].steps
  <2>1. g.steps \subseteq chain[t].steps
    BY <1>3, SimpleFrames DEF Quiet, SubmitHop
  <2> QED BY <1>1, <1>3, <2>1 DEF Quiet, SubmitHop
<1>4. ASSUME NEW t \in Threads, NEW g \in Frames, HaltHop(t, g)
      PROVE  chain'[u].steps \subseteq chain[u].steps
  <2>1. chain[t].at = "DOCUMENT_MISSING" =>
          Returned(chain[t]).steps \subseteq chain[t].steps
    BY ReturnedFrame
  <2>2. g.steps \subseteq chain[t].steps
    BY <1>4, <2>1, SimpleFrames DEF HaltHop
  <2> QED BY <1>1, <1>4, <2>2 DEF HaltHop
<1>5. ASSUME NEW t \in Threads, WatchHop(t)
      PROVE  chain'[u].steps \subseteq chain[u].steps
  <2> DEFINE a == chain[t].app
  <2>1. Returned(chain[t]).steps \subseteq chain[t].steps
    BY <1>5, ReturnedFrame DEF WatchHop, LoopAt
  <2>2. Polling(chain[t].step, a).steps = {}
    BY <1>5, WatchMoves, PollingFrame
  <2>3. chain'[t] = Returned(chain[t])
    BY <1>5, WatchMoves
  <2>4. u = Poll(a) => chain'[u] = Polling(chain[t].step, a)
    BY <1>5, WatchMoves
  <2>5. u # t /\ u # Poll(a) => chain'[u] = chain[u]
    BY <1>5, WatchMoves
  <2> QED BY <2>1, <2>2, <2>3, <2>4, <2>5
<1>6. ASSUME NEW t \in Threads, NEW g \in Frames, NEW record,
             PollHop(t, g, record)
      PROVE  chain'[u].steps \subseteq chain[u].steps
  BY <1>1, <1>6 DEF PollHop
<1>7. ASSUME NEW s \in Steps \cup {NoStep}, NEW action \in {"retry", "abandon"},
             UserHop(s, action)
      PROVE  chain'[u].steps \subseteq chain[u].steps
  <2> DEFINE t == Resume(Len(requests) + 1)
  <2>1. t \in Threads
    BY <1>7, ThreadNames, GovFlowAssumption
    DEF UserHop, SystemBase, HistoryTyped, GovFlowAssumption
  <2>2. Resumed(s, action) \in Frames /\ Resumed(s, action).steps = {}
    BY ResumedFrame
  <2>3. chain' = [chain EXCEPT ![t] = Resumed(s, action)]
    BY <1>7 DEF UserHop
  <2> QED BY <1>1, <2>1, <2>2, <2>3
<1>8. ASSUME NEW t \in Threads, NEW m \in [Steps -> StepStatus], ClaimHop(t, m)
      PROVE  \/ chain'[u].steps \subseteq chain[u].steps
             \/ ClaimHop(u, m) /\ chain'[u].steps = ReadySteps(m)
  <2> DEFINE g == Published(NextActionEvent(ReadySteps(m)))
  <2>1. ReadySteps(m) \in SUBSET Steps
    BY DEF ReadySteps, PendingStepIds, StepsWith
  <2>2. g \in Frames /\ g.steps = ReadySteps(m)
    BY <2>1, PublishedFrame
  <2>3. chain' = [chain EXCEPT ![t] = g]
    BY <1>8 DEF ClaimHop
  <2> HIDE DEF g
  <2>4. chain'[t] = g /\ (u # t => chain'[u] = chain[u])
    BY <2>2, <2>3, OneThread DEF SystemBase
  <2> QED BY <1>8, <2>2, <2>4
<1>9. CASE UNCHANGED vars
  BY <1>9 DEF vars
<1> QED
  BY <1>2, <1>3, <1>4, <1>5, <1>6, <1>7, <1>8, <1>9, SystemHops

\* The thread that is about to report an approval has just received it.
LEMMA VerdictsGrounded ==
  ASSUME ApprovalBase, [SystemNext]_vars, NEW u \in Threads,
         chain'[u].at = "APPLICATION_APPROVED"
  PROVE  chain'[u].step \in Steps /\ Approved(chain[u].step)' # {}
<1> DEFINE Kept == chain'[u] = chain[u]
           Fresh == /\ chain'[u].step \in Steps
                    /\ \E a \in 1..Len(applications') :
                         /\ applications'[a].step = chain'[u].step
                         /\ applications'[a].status = "APPROVED"
<1> USE ApplicationFacts DEF ApprovalBase
<1>1. ASSUME NEW t \in Threads, NEW g \in Frames,
             chain' = [chain EXCEPT ![t] = g], g.at # "APPLICATION_APPROVED"
      PROVE  Kept
  BY <1>1, OneThread DEF SystemBase
<1>2. ASSUME NEW g \in Frames, RootHop(g)
      PROVE  Kept
  BY <1>1, <1>2, ThreadNames DEF RootHop, RootAt
<1>3. ASSUME NEW t \in Threads, NEW g \in Frames,
             Quiet(t, g) \/ SubmitHop(t, g)
      PROVE  Kept
  BY <1>1, <1>3 DEF Quiet, SubmitHop
<1>4. ASSUME NEW t \in Threads, NEW g \in Frames, HaltHop(t, g)
      PROVE  Kept
  <2>1. chain[t].at = "DOCUMENT_MISSING" =>
          Returned(chain[t]).at # "APPLICATION_APPROVED"
    BY ReturnedFrame
  <2>2. g.at # "APPLICATION_APPROVED"
    BY <1>4, <2>1, SimpleFrames DEF HaltHop
  <2> QED BY <1>1, <1>4, <2>2 DEF HaltHop
<1>5. ASSUME NEW t \in Threads, WatchHop(t)
      PROVE  Kept
  <2> DEFINE a == chain[t].app
  <2>1. chain'[t].at # "APPLICATION_APPROVED"
    BY <1>5, WatchMoves
  <2>2. u = Poll(a) => chain'[u].at # "APPLICATION_APPROVED"
    BY <1>5, WatchMoves, PollingFrame
  <2>3. u # t /\ u # Poll(a) => chain'[u] = chain[u]
    BY <1>5, WatchMoves
  <2> QED BY <2>1, <2>2, <2>3
<1>6. ASSUME NEW t \in Threads, NEW g \in Frames, NEW record,
             PollHop(t, g, record)
      PROVE  Kept \/ Fresh
  <2> DEFINE a == chain[t].app
  <2>1. chain'[t] = g /\ (u # t => Kept)
    BY <1>6, OneThread DEF SystemBase, PollHop
  <2>2. CASE u = t
    <3>1. /\ applications' = [applications EXCEPT ![a] = record]
          /\ record = [applications[a] EXCEPT
                         !.asked = applications[a].asked + 1,
                         !.status = record.status]
          /\ record.status = "APPROVED" /\ g.step = chain[t].step
      BY <1>6, <2>1, <2>2, SimpleFrames DEF PollHop
    <3>2. /\ a \in 1..Len(applications) /\ applications[a] \in Application
          /\ applications[a].step = chain[t].step
          /\ applications \in Seq(Application)
      BY <1>6 DEF PollHop, SystemBase, OwnApplications, Asking, HistoryTyped
    <3>3. record.step = applications[a].step /\ record.step \in Steps
      BY <3>1, <3>2 DEF Application
    <3> HIDE DEF a
    <3>4. /\ Len(applications') = Len(applications)
          /\ applications'[a] = record
      BY <3>1, <3>2
    <3> QED BY <2>1, <2>2, <3>1, <3>2, <3>3, <3>4
  <2> QED BY <2>1, <2>2
<1>7. ASSUME NEW s \in Steps \cup {NoStep}, NEW action \in {"retry", "abandon"},
             UserHop(s, action)
      PROVE  Kept
  <2> DEFINE t == Resume(Len(requests) + 1)
  <2>1. t \in Threads
    BY <1>7, ThreadNames, GovFlowAssumption
    DEF UserHop, SystemBase, HistoryTyped, GovFlowAssumption
  <2>2. Resumed(s, action) \in Frames
        /\ Resumed(s, action).at # "APPLICATION_APPROVED"
    BY ResumedFrame
  <2>3. chain' = [chain EXCEPT ![t] = Resumed(s, action)]
    BY <1>7 DEF UserHop
  <2> QED BY <1>1, <2>1, <2>2, <2>3
<1>8. ASSUME NEW t \in Threads, NEW m \in [Steps -> StepStatus], ClaimHop(t, m)
      PROVE  Kept
  <2> DEFINE g == Published(NextActionEvent(ReadySteps(m)))
  <2>1. ReadySteps(m) \in SUBSET Steps
    BY DEF ReadySteps, PendingStepIds, StepsWith
  <2>2. g \in Frames /\ g.at # "APPLICATION_APPROVED"
    BY <2>1, PublishedFrame
  <2>3. chain' = [chain EXCEPT ![t] = g]
    BY <1>8 DEF ClaimHop
  <2> QED BY <1>1, <2>2, <2>3
<1>9. ASSUME UNCHANGED vars PROVE Kept
  BY <1>9 DEF vars
<1> HIDE DEF Kept, Fresh
<1>10. Kept \/ Fresh
  BY <1>2, <1>3, <1>4, <1>5, <1>6, <1>7, <1>8, <1>9, SystemHops
<1>11. CASE Kept
  <2>1. chain[u].step \in Steps /\ Approved(chain[u].step) # {}
    BY <1>11 DEF Grounded, Frames, FrameShape, VerdictAt, Kept
  <2>2. PICK s \in Steps : s = chain[u].step /\ chain'[u].step = s
    BY <1>11, <2>1 DEF Kept
  <2>3. Approved(s)' # {}
    BY <2>1, <2>2, ApprovalsGrow
  <2> QED BY <2>2, <2>3 DEF Approved, Applied
<1>12. CASE Fresh
  BY <1>12 DEF Fresh, Approved, Applied
<1> QED BY <1>10, <1>11, <1>12

\* A claimed step has its prerequisites completed.
LEMMA ClaimIsGrounded ==
  ASSUME ApprovalBase, NEW t \in Threads,
         NEW m \in [Steps -> StepStatus], ClaimHop(t, m),
         NEW s \in ReadySteps(m), NEW d \in DependsOn[s]
  PROVE  Approved(d) # {}
<1>1. s \in Steps /\ d \in Steps /\ m[d] = "COMPLETED"
  BY GraphAssumption
  DEF ReadySteps, PendingStepIds, StepsWith, GraphAssumption, ValidDag, IsDag
<1>2. \/ graph[d] = "COMPLETED"
      \/ chain[t].at = "APPLICATION_APPROVED" /\ chain[t].step = d
  BY <1>1, ClaimCompletes DEF ApprovalBase
<1> QED
  BY <1>1, <1>2
  DEF ApprovalBase, Grounded, StepsApproved

\* What is submitted next has its prerequisites approved by now.
LEMMA PrerequisitesStay ==
  ASSUME ApprovalBase, HistoryGrows,
         \/ Len(applications') = Len(applications)
         \/ \E t \in Threads : \E scenario :
              /\ chain[t].at = "APPLICATION_READY"
              /\ applications' =
                   Append(applications, Submitted(chain[t].step, scenario))
  PROVE  PrerequisitesApproved'
<1> DEFINE Before(a) == \A d \in DependsOn[applications'[a].step] :
                          \E b \in Approved(d)' : b < a
<1> USE DEF ApprovalBase
<1>1. \A s \in Steps : \A d \in DependsOn[s] : d \in Steps
  BY GraphAssumption DEF GraphAssumption, ValidDag, IsDag
<1>2. \A s \in Steps : Approved(s) \subseteq Approved(s)'
  BY GrowthKeepsApprovals
<1>3. ASSUME NEW a \in 1..Len(applications) PROVE Before(a)
  <2>1. applications[a].step \in Steps
    BY ApplicationFacts DEF Application
  <2>2. applications'[a].step = applications[a].step
    BY DEF HistoryGrows
  <2>3. ASSUME NEW d \in DependsOn[applications[a].step]
        PROVE  \E b \in Approved(d)' : b < a
    BY <1>1, <1>2, <2>1 DEF PrerequisitesApproved
  <2> QED BY <2>2, <2>3
<1>4. ASSUME NEW t \in Threads, NEW scenario,
             chain[t].at = "APPLICATION_READY",
             applications' =
               Append(applications, Submitted(chain[t].step, scenario))
      PROVE  \A a \in 1..Len(applications') : Before(a)
  <2> DEFINE n == Len(applications)
             s == chain[t].step
  <2>1. /\ n \in Nat /\ Len(applications') = n + 1
        /\ applications'[n + 1].step = s
    BY <1>4, SubmissionGrows DEF Submitted
  <2>2. s \in chain[t].steps /\ s \in Steps
    BY <1>4 DEF SystemBase, FramesTyped, Frames, FrameShape, LoopAt, Carried
  <2>3. ASSUME NEW d \in DependsOn[s]
        PROVE  \E b \in Approved(d)' : b < n + 1
    <3>1. d \in Steps /\ Approved(d) # {}
      BY <1>1, <2>2 DEF Grounded
    <3>2. PICK b \in Approved(d) : TRUE
      BY <3>1
    <3>3. b \in 1..n
      BY DEF Approved, Applied
    <3>4. b \in Approved(d)'
      BY <1>2, <3>1, <3>2
    <3> QED BY <2>1, <3>3, <3>4
  <2>4. Before(n + 1)
    BY <2>1, <2>3
  <2>5. \A a \in 1..Len(applications') : a \in 1..n \/ a = n + 1
    BY <2>1
  <2> HIDE DEF Before
  <2> QED BY <1>3, <2>4, <2>5
<1>5. \A a \in 1..Len(applications') : Before(a)
  <2> HIDE DEF Before
  <2> QED BY <1>3, <1>4
<1> QED BY <1>5 DEF PrerequisitesApproved

LEMMA NextKeepsApprovals ==
  ASSUME ApprovalBase, [SystemNext]_vars
  PROVE  ApprovalBase'
<1>1. SystemBase' /\ SystemBase
  BY NextKeepsBase DEF ApprovalBase
<1>2. \A s \in Steps : Approved(s) # {} => Approved(s)' # {}
  BY <1>1, ApprovalsGrow
<1>3. \A s \in Steps : \A d \in DependsOn[s] : d \in Steps
  BY GraphAssumption DEF GraphAssumption, ValidDag, IsDag
<1>4. Grounded'
  <2>1. ASSUME NEW u \in Threads, NEW s \in chain'[u].steps,
               NEW d \in DependsOn[s]
        PROVE  Approved(d)' # {}
    <3>1. s \in Steps
      BY <1>1 DEF SystemBase, FramesTyped, Frames, Carried
    <3>2. CASE chain'[u].steps \subseteq chain[u].steps
      BY <1>2, <1>3, <3>1, <3>2 DEF ApprovalBase, Grounded
    <3>3. CASE \E m \in [Steps -> StepStatus] :
                 ClaimHop(u, m) /\ chain'[u].steps = ReadySteps(m)
      <4>1. Approved(d) # {}
        BY <3>3, ClaimIsGrounded
      <4> QED BY <1>2, <1>3, <3>1, <4>1
    <3> QED BY <1>1, <3>2, <3>3, ListsShrink
  <2>2. ASSUME NEW u \in Threads, chain'[u].at = "APPLICATION_APPROVED"
        PROVE  Approved(chain[u].step)' # {}
    BY <2>2, VerdictsGrounded
  <2> QED BY <2>1, <2>2 DEF Grounded
<1>5. StepsApproved'
  <2>1. ASSUME NEW s \in Steps, graph'[s] = "COMPLETED"
        PROVE  Approved(s) # {}
    BY <1>1, <2>1, OnlyApprovalsComplete
    DEF ApprovalBase, Grounded, StepsApproved
  <2> QED BY <1>2, <2>1 DEF StepsApproved
<1>6. PrerequisitesApproved'
  <2>1. ASSUME NEW t \in Threads, NEW g, NEW record, PollHop(t, g, record)
        PROVE  Len(applications') = Len(applications)
    BY <1>1, <2>1 DEF PollHop, SystemBase, HistoryTyped
  <2>2. ASSUME NEW t \in Threads, WatchHop(t) \/ \E m : ClaimHop(t, m)
        PROVE  applications' = applications
    BY <2>2 DEF WatchHop, ClaimHop
  <2>3. ASSUME NEW t \in Threads, NEW g, Quiet(t, g) \/ HaltHop(t, g)
        PROVE  applications' = applications
    BY <2>3 DEF Quiet, HaltHop
  <2>4. ASSUME \/ \E g : RootHop(g)
               \/ \E s, action : UserHop(s, action)
        PROVE  applications' = applications
    BY <2>4 DEF RootHop, UserHop
  <2>5. UNCHANGED vars => applications' = applications
    BY DEF vars
  <2>6. ASSUME NEW t \in Threads, NEW g, SubmitHop(t, g)
        PROVE  \E u \in Threads : \E scenario :
                 /\ chain[u].at = "APPLICATION_READY"
                 /\ applications' =
                      Append(applications, Submitted(chain[u].step, scenario))
    BY <2>6 DEF SubmitHop
  <2> HIDE DEF Submitted
  <2>7. \/ Len(applications') = Len(applications)
        \/ \E t \in Threads : \E scenario :
             /\ chain[t].at = "APPLICATION_READY"
             /\ applications' =
                  Append(applications, Submitted(chain[t].step, scenario))
    BY <1>1, <2>1, <2>2, <2>3, <2>4, <2>5, <2>6, SystemHops
  <2> QED BY <1>1, <2>7, ApprovalsGrow, PrerequisitesStay
<1> QED BY <1>1, <1>4, <1>5, <1>6 DEF ApprovalBase

\* A completed step is approved, so a workflow reported COMPLETED is.
LEMMA CompletedIsApproved ==
  ApprovalBase /\ EngineKept => CompletedMeansApproved
<1> SUFFICES ASSUME ApprovalBase, EngineKept PROVE CompletedMeansApproved
  OBVIOUS
<1>1. workflow.status = "COMPLETED" => IsComplete(graph)
  BY DEF EngineKept, GraphKept, EngineInvariant, FinalStatusWitnessed
<1> QED
  BY <1>1
  DEF ApprovalBase, StepsApproved, CompletedMeansApproved, CompletedStepIds,
      StepsWith, IsComplete

LEMMA InitApprovals == SystemInit => ApprovalInvariant
<1> SUFFICES ASSUME SystemInit PROVE ApprovalInvariant
  OBVIOUS
<1>1. SystemBase /\ EngineKept
  BY InitBase, InitEngineKept
<1>2. /\ applications = << >> /\ graph = InitialGraph
      /\ workflow.status = "ABSENT"
      /\ \A t \in Threads : chain[t].steps = {}
                            /\ chain[t].at # "APPLICATION_APPROVED"
  BY DEF SystemInit, Init, AbsentRow, Handling, Idle
<1>3. Grounded
  BY <1>2 DEF Grounded
<1>4. StepsApproved /\ PrerequisitesApproved
  BY <1>2 DEF StepsApproved, PrerequisitesApproved, InitialGraph
<1> QED BY <1>1, <1>3, <1>4, CompletedIsApproved
        DEF ApprovalInvariant, ApprovalBase

THEOREM ApprovalsCorrect == SystemSpec => []ApprovalInvariant
<1>1. SystemInit => ApprovalInvariant
  BY InitApprovals
<1>2. ApprovalInvariant /\ [SystemNext]_vars => ApprovalInvariant'
  <2>1. ApprovalInvariant /\ [SystemNext]_vars => ApprovalBase' /\ EngineKept'
    BY NextKeepsApprovals, NextKeepsEngine DEF ApprovalInvariant, ApprovalBase
  <2>2. (ApprovalBase /\ EngineKept => CompletedMeansApproved)'
    BY CompletedIsApproved, PTL
  <2> QED BY <2>1, <2>2 DEF ApprovalInvariant
<1> QED BY <1>1, <1>2, PTL DEF SystemSpec

\* Whatever the user resumes and whenever, nothing is submitted to the
\* government before every prerequisite of its step has been approved there.
THEOREM NothingSubmittedEarly == SystemSpec => []PrerequisitesApproved
<1>1. ApprovalInvariant => PrerequisitesApproved
  BY DEF ApprovalInvariant, ApprovalBase
<1> QED BY <1>1, ApprovalsCorrect, PTL

\* A completed step has an approved application, and a workflow reported
\* COMPLETED has one for every step.
THEOREM CompletionIsApproved == SystemSpec => []CompletedMeansApproved
<1>1. ApprovalInvariant => CompletedMeansApproved
  BY DEF ApprovalInvariant
<1> QED BY <1>1, ApprovalsCorrect, PTL

----------------------------------------------------------------------------
(* One worker per step, for a user who only sends requests about blocked     *)
(* steps, and as long as DocumentAgent's loop is not repeated.  The reason   *)
(* is where the claim of a step is: in its status.  Whoever works on a step  *)
(* has it RUNNING, a request is about a BLOCKED one, and the engine only     *)
(* hands out what it has just turned from PENDING to RUNNING.                *)

\* A request about a step finds it still blocked, and is the only one.
Reviewed ==
  \A t \in Threads :
    chain[t].at = "WORKFLOW_RESUMED" /\ chain[t].step # NoStep =>
      /\ graph[chain[t].step] = "BLOCKED"
      /\ \A u \in Threads :
           /\ chain[u].at = "WORKFLOW_RESUMED"
           /\ chain[u].step = chain[t].step
           => u = t

ReviewInvariant ==
  SystemBase /\ EngineKept /\ OneWorkerPerStep /\ Reviewed

Careful == User = "reviewer" /\ "validate" \notin Failing

LEMMA WorkingFacts ==
  ASSUME NEW f \in Frames
  PROVE  /\ Working(f) \subseteq Steps
         /\ f.step \notin Todo(f)
         /\ f.at \in RootAt \cup {"idle", "done", "WORKFLOW_RESUMED"} =>
              Working(f) = {}
         /\ f.at \in {"checklist", "NEXT_ACTION_TRIGGERED"} =>
              Working(f) = Todo(f)
         /\ f.at \in VerdictAt => Working(f) = {f.step}
         /\ f.at \in {"DOCUMENTS_VALIDATED", "APPLICATION_READY",
                      "APPLICATION_SUBMITTED", "DOCUMENT_MISSING"} =>
              Working(f) = Todo(f) \cup {f.step} /\ f.step \in Steps
<1>1. f \in Carried /\ FrameShape(f) /\ Todo(f) \subseteq f.steps
      /\ f.steps \subseteq Steps /\ f.step \in Steps \cup {NoStep}
      /\ NoStep \notin Steps
  BY GraphAssumption DEF Frames, Carried, Todo, GraphAssumption
<1>2. f.step \notin Todo(f)
  <2>1. \A s \in Steps : Position[s] \in Nat
    BY GraphAssumption DEF GraphAssumption, Ordered
  <2> QED BY <1>1, <2>1 DEF Todo
<1>3. f.at \in RootAt \cup {"idle", "done", "WORKFLOW_RESUMED"} =>
        Working(f) = {}
  BY <1>1 DEF Working, FrameShape
<1>4. f.at \in {"checklist", "NEXT_ACTION_TRIGGERED"} => Working(f) = Todo(f)
  BY <1>1 DEF Working, FrameShape
<1>5. f.at \in VerdictAt => Working(f) = {f.step}
  BY <1>1 DEF Working, FrameShape, VerdictAt
<1>6. f.at \in {"DOCUMENTS_VALIDATED", "APPLICATION_READY",
                "APPLICATION_SUBMITTED", "DOCUMENT_MISSING"} =>
        Working(f) = Todo(f) \cup {f.step} /\ f.step \in Steps
  BY <1>1 DEF Working, FrameShape, LoopAt
<1>7. Working(f) \subseteq Steps
  BY <1>1 DEF Working
<1> QED BY <1>2, <1>3, <1>4, <1>5, <1>6, <1>7

\* WorkingOn is about the frame of the thread.
LEMMA WorkingOnFrame ==
  ASSUME NEW t \in Threads
  PROVE  WorkingOn(t) = Working(chain[t])
BY DEF WorkingOn, Working

\* What each kind of step does to the steps its thread works on: unless an
\* operation of the engine claims some, it works on no more than before.
LEMMA NoNewWork ==
  ASSUME SystemBase, "validate" \notin Failing, NEW t \in Threads,
         NEW g \in Frames, chain' = [chain EXCEPT ![t] = g],
         \/ t = Root /\ RootHop(g)
         \/ Quiet(t, g) \/ SubmitHop(t, g) \/ HaltHop(t, g)
         \/ \E record : PollHop(t, g, record)
  PROVE  /\ chain'[t] = g /\ Working(g) \subseteq Working(chain[t])
         /\ \A u \in Threads : u # t => chain'[u] = chain[u]
         /\ HaltHop(t, g) => chain[t].step \notin Working(g)
<1> DEFINE f == chain[t]
<1>1. f \in Frames /\ chain'[t] = g
      /\ \A u \in Threads : u # t => chain'[u] = chain[u]
  BY OneThread DEF SystemBase, FramesTyped
<1>2. Working(Done) = {}
  BY SimpleFrames, WorkingFacts
<1>3. CASE t = Root /\ RootHop(g)
  <2>1. Working(g) = {}
    BY <1>3, WorkingFacts DEF RootHop
  <2> QED BY <1>1, <1>3, <2>1 DEF RootHop, HaltHop, RootAt
<1>4. CASE Quiet(t, g)
  <2>1. Working(g) \subseteq Working(f)
    BY <1>2, <1>4 DEF Quiet
  <2> QED BY <1>1, <1>4, <2>1 DEF Quiet, HaltHop
<1>5. CASE SubmitHop(t, g)
  <2>1. /\ g.at = "APPLICATION_SUBMITTED" /\ f.at = "APPLICATION_READY"
        /\ Todo(g) = Todo(f) /\ g.step = f.step
    BY <1>5 DEF SubmitHop
  <2>2. Working(g) = Todo(f) \cup {f.step} /\ Working(f) = Todo(f) \cup {f.step}
    BY <1>1, <2>1, WorkingFacts
  <2> QED BY <1>1, <2>1, <2>2 DEF HaltHop
<1>6. CASE HaltHop(t, g)
  <2>1. CASE g = Done
    BY <1>1, <1>2, <2>1
  <2>2. CASE f.at = "DOCUMENT_MISSING" /\ g = Returned(f)
    <3>1. Todo(g) = Todo(f) /\ g.at \in {"done", "checklist"}
      BY <1>1, <2>2, ReturnedFrame
    <3>2. Working(g) = {} \/ Working(g) = Todo(f)
      BY <3>1, WorkingFacts
    <3>3. Working(f) = Todo(f) \cup {f.step} /\ f.step \notin Todo(f)
      BY <1>1, <2>2, WorkingFacts
    <3> QED BY <1>1, <3>2, <3>3
  <2> QED BY <1>6, <2>1, <2>2 DEF HaltHop
<1>7. CASE \E record : PollHop(t, g, record)
  <2>1. /\ f.at = "polling" /\ g.steps = {}
        /\ g = Done \/ g.step = f.step
    BY <1>7 DEF PollHop
  <2>2. Working(f) = {f.step}
    BY <1>1, <2>1, WorkingFacts DEF VerdictAt
  <2>3. Working(g) \subseteq {g.step}
    BY <2>1 DEF Working, Todo
  <2> QED BY <1>1, <1>2, <2>1, <2>2, <2>3 DEF HaltHop
<1> QED BY <1>3, <1>4, <1>5, <1>6, <1>7

\* The thread that starts a polling task hands its step over to it.
LEMMA WorkHandedOver ==
  ASSUME SystemBase, NEW t \in Threads, WatchHop(t)
  PROVE  LET p == Poll(chain[t].app)
             s == chain[t].step
         IN  /\ s \in Steps /\ s \in Working(chain[t]) /\ p # t
             /\ Working(chain'[t]) \subseteq Working(chain[t]) \ {s}
             /\ p \in Threads => Working(chain'[p]) = {s}
             /\ \A u \in Threads : u # t /\ u # p => chain'[u] = chain[u]
<1> DEFINE a == chain[t].app
           p == Poll(a)
           f == chain[t]
           s == f.step
<1>1. f \in Frames /\ f.at = "APPLICATION_SUBMITTED"
  BY DEF WatchHop, SystemBase, FramesTyped
<1>2. /\ a \in 1..Len(applications) /\ s \in Steps
      /\ chain'[t] = Returned(f)
      /\ p # t
      /\ p \in Threads => chain'[p] = Polling(s, a)
      /\ \A u \in Threads : u # t /\ u # p => chain'[u] = chain[u]
  BY WatchMoves
<1>3. Working(f) = Todo(f) \cup {s} /\ s \notin Todo(f)
  BY <1>1, WorkingFacts
<1>4. /\ Returned(f) \in Frames /\ Todo(Returned(f)) = Todo(f)
      /\ Returned(f).at \in {"done", "checklist"}
  BY <1>1, ReturnedFrame DEF LoopAt
<1>5. Working(Returned(f)) \subseteq Todo(f)
  BY <1>4, WorkingFacts
<1>6. Working(Polling(s, a)) = {s}
  <2>1. /\ Polling(s, a) \in Frames /\ Polling(s, a).at = "polling"
        /\ Polling(s, a).step = s
    BY <1>2, PollingFrame
  <2> QED BY <2>1, WorkingFacts DEF VerdictAt
<1> HIDE DEF a, p, f, s
<1>7. Working(chain'[t]) \subseteq Working(f) \ {s}
  BY <1>2, <1>3, <1>5
<1>8. p \in Threads => Working(chain'[p]) = {s}
  BY <1>2, <1>6
<1> QED BY <1>2, <1>3, <1>7, <1>8 DEF a, p, f, s

\* A thread whose operation claims steps works on just these afterwards.
LEMMA WorkClaimed ==
  ASSUME SystemBase, NEW t \in Threads, NEW m \in [Steps -> StepStatus],
         ClaimHop(t, m)
  PROVE  /\ Working(chain'[t]) = ReadySteps(m)
         /\ chain'[t].at \in {"done", "NEXT_ACTION_TRIGGERED"}
         /\ \A u \in Threads : u # t => chain'[u] = chain[u]
<1> DEFINE g == Published(NextActionEvent(ReadySteps(m)))
<1>1. ReadySteps(m) \in SUBSET Steps
  BY DEF ReadySteps, PendingStepIds, StepsWith
<1>2. /\ g \in Frames /\ g.steps = ReadySteps(m)
      /\ g.at = IF ReadySteps(m) = {} THEN "done" ELSE "NEXT_ACTION_TRIGGERED"
  BY <1>1, PublishedFrame
<1>3. chain' = [chain EXCEPT ![t] = g]
  BY DEF ClaimHop
<1> HIDE DEF g
<1>4. chain'[t] = g /\ \A u \in Threads : u # t => chain'[u] = chain[u]
  BY <1>2, <1>3, OneThread DEF SystemBase
<1>5. Working(g) = ReadySteps(m)
  <2>1. CASE g.at = "done"
    BY <1>2, <2>1, WorkingFacts
  <2>2. CASE g.at = "NEXT_ACTION_TRIGGERED"
    <3>1. g.step = NoStep
      BY <1>2, <2>2 DEF Frames, FrameShape
    <3>2. Todo(g) = g.steps
      BY <3>1 DEF Todo
    <3> QED BY <1>2, <2>2, <3>2, WorkingFacts
  <2> QED BY <1>2, <2>1, <2>2
<1> QED BY <1>2, <1>4, <1>5

\* OneWorkerPerStep, by frames.
Sole ==
  \A s \in Steps, t \in Threads :
    s \in Working(chain[t]) =>
      /\ graph[s] = "RUNNING"
      /\ \A u \in Threads : s \in Working(chain[u]) => t = u

LEMMA SoleWorker ==
  /\ OneWorkerPerStep <=> Sole
  /\ OneWorkerPerStep' <=> Sole'
<1>1. \A t \in Threads : WorkingOn(t) = Working(chain[t])
  BY DEF WorkingOn, Working
<1>2. \A t \in Threads : WorkingOn(t)' = Working(chain'[t])
  BY DEF WorkingOn, Working
<1> QED BY <1>1, <1>2 DEF OneWorkerPerStep, Sole

\* The step a halted or resumed thread is about: nobody else has it.
LEMMA HaltedStep ==
  ASSUME ReviewInvariant, NEW t \in Threads, NEW g, HaltHop(t, g)
  PROVE  /\ chain[t].step \in Steps
         /\ graph[chain[t].step] \in {"RUNNING", "BLOCKED"}
         /\ \A u \in Threads : u # t => chain[t].step \notin Working(chain[u])
         /\ graph[chain[t].step] = "BLOCKED" =>
              chain[t].at = "WORKFLOW_RESUMED" /\ graph' = MarkStepStatus(graph,
                chain[t].step, "FAILED")
         /\ graph[chain[t].step] = "RUNNING" =>
              /\ chain[t].at # "WORKFLOW_RESUMED"
              /\ chain[t].step \in Working(chain[t])
              /\ graph' = MarkStepStatus(graph, chain[t].step, "BLOCKED")
<1> DEFINE f == chain[t]
           s == f.step
<1>1. f \in Frames /\ s \in Steps /\ s # NoStep
  BY GraphAssumption
  DEF ReviewInvariant, SystemBase, FramesTyped, HaltHop, GraphAssumption
<1>2. Sole
  BY SoleWorker DEF ReviewInvariant
<1>3. CASE f.at = "WORKFLOW_RESUMED"
  <2>1. graph[s] = "BLOCKED"
    BY <1>1, <1>3 DEF ReviewInvariant, Reviewed
  <2>2. graph' = MarkStepStatus(graph, s, "FAILED")
    BY <1>3 DEF HaltHop
  <2> QED BY <1>1, <1>2, <1>3, <2>1, <2>2 DEF Sole
<1>4. CASE f.at \in {"APPLICATION_REJECTED", "DOCUMENT_MISSING"}
  <2>1. s \in Working(f)
    BY <1>1, <1>4, WorkingFacts DEF VerdictAt
  <2>2. graph' = MarkStepStatus(graph, s, "BLOCKED")
    BY <1>4 DEF HaltHop
  <2> QED BY <1>1, <1>2, <1>4, <2>1, <2>2 DEF Sole
<1> QED BY <1>3, <1>4 DEF HaltHop

\* What an operation that claims steps does to the graph: the step it is
\* about was blocked or worked on by this thread alone, and a step that is
\* not pending is left as it is.
LEMMA ClaimedGraph ==
  ASSUME ReviewInvariant, NEW t \in Threads, NEW m \in [Steps -> StepStatus],
         ClaimHop(t, m)
  PROVE  /\ graph \in [Steps -> StepStatus]
         /\ \A s \in Steps :
              graph'[s] = IF s \in ReadySteps(m) THEN "RUNNING" ELSE m[s]
         /\ \A s \in ReadySteps(m) : s \in Steps /\ m[s] = "PENDING"
         /\ \A s \in Steps : s # chain[t].step => m[s] = graph[s]
         /\ \A u \in Threads : u # t => chain[t].step \notin Working(chain[u])
         /\ chain[t].step \in Steps =>
              \/ /\ chain[t].at = "WORKFLOW_RESUMED"
                 /\ graph[chain[t].step] = "BLOCKED"
                 /\ m[chain[t].step] = "PENDING"
              \/ /\ chain[t].at = "APPLICATION_APPROVED"
                 /\ graph[chain[t].step] = "RUNNING"
                 /\ chain[t].step \in Working(chain[t])
                 /\ m[chain[t].step] = "COMPLETED"
         /\ chain[t].step \notin Steps =>
              m = graph /\ UNCHANGED completions
<1> DEFINE f == chain[t]
           s == f.step
<1>1. f \in Frames /\ (s \in Steps => s # NoStep)
      /\ s \in Steps \cup {NoStep} /\ NoStep \notin Steps
      /\ graph \in [Steps -> StepStatus]
  BY GraphAssumption
  DEF ReviewInvariant, SystemBase, FramesTyped, GraphAssumption, Frames,
      Carried, TypeOK
<1>2. Sole
  BY SoleWorker DEF ReviewInvariant
<1>3. graph' = ClaimReadySteps(m)
  BY DEF ClaimHop
<1>4. /\ \A r \in Steps :
           graph'[r] = IF r \in ReadySteps(m) THEN "RUNNING" ELSE m[r]
      /\ \A r \in ReadySteps(m) : r \in Steps /\ m[r] = "PENDING"
  BY <1>3 DEF ClaimReadySteps, ReadySteps, PendingStepIds, StepsWith
<1>5. \A u \in Threads : Working(chain[u]) \subseteq Steps
  BY WorkingFacts DEF ReviewInvariant, SystemBase, FramesTyped
<1>6. CASE s = NoStep
  <2>1. m = graph /\ UNCHANGED completions
    BY <1>1, <1>6 DEF ClaimHop
  <2> QED BY <1>1, <1>4, <1>5, <1>6, <2>1
<1>7. CASE s \in Steps /\ f.at = "WORKFLOW_RESUMED"
  <2>1. graph[s] = "BLOCKED"
    BY <1>1, <1>7 DEF ReviewInvariant, Reviewed
  <2>2. m = MarkStepStatus(graph, s, "PENDING")
    BY <1>1, <1>7 DEF ClaimHop
  <2>3. m[s] = "PENDING" /\ \A r \in Steps : r # s => m[r] = graph[r]
    BY <1>1, <1>7, <2>2 DEF MarkStepStatus
  <2> QED BY <1>1, <1>2, <1>4, <1>7, <2>1, <2>3 DEF Sole
<1>8. CASE s \in Steps /\ f.at = "APPLICATION_APPROVED"
  <2>1. s \in Working(f)
    BY <1>1, <1>8, WorkingFacts DEF VerdictAt
  <2>2. m = MarkStepStatus(graph, s, "COMPLETED")
    BY <1>1, <1>8 DEF ClaimHop
  <2>3. m[s] = "COMPLETED" /\ \A r \in Steps : r # s => m[r] = graph[r]
    BY <1>1, <1>8, <2>2 DEF MarkStepStatus
  <2> QED BY <1>1, <1>2, <1>4, <1>8, <2>1, <2>3 DEF Sole
<1>9. s \in Steps => f.at \in {"WORKFLOW_RESUMED", "APPLICATION_APPROVED"}
  <2>1. f.at = "creating" => s = NoStep
    BY <1>1 DEF Frames, FrameShape, RootAt
  <2> QED BY <1>1, <2>1 DEF ClaimHop
<1> QED BY <1>1, <1>6, <1>7, <1>8, <1>9

\* Only claims and halts change the graph: the row is created with the graph
\* as it was.
LEMMA GraphStays ==
  ASSUME SystemBase,
         \/ \E g : RootHop(g)
         \/ \E t \in Threads : \E g : Quiet(t, g) \/ SubmitHop(t, g)
         \/ \E t \in Threads : WatchHop(t)
         \/ \E t \in Threads : \E g, record : PollHop(t, g, record)
         \/ \E s, action : UserHop(s, action)
  PROVE  graph' = graph
<1>1. CASE \E g : RootHop(g)
  <2>1. workflow.status = "ABSENT" => graph = InitialGraph
    BY DEF SystemBase, Unstarted
  <2>2. \/ UNCHANGED engineVars
        \/ CreateWorkflow
        \/ \E gate \in GateStatus : BlockWorkflow(gate)
    BY <1>1 DEF RootHop
  <2>3. CASE UNCHANGED engineVars
    BY <2>3 DEF engineVars
  <2>4. CASE CreateWorkflow
    BY <2>1, <2>4 DEF CreateWorkflow
  <2>5. CASE \E gate \in GateStatus : BlockWorkflow(gate)
    BY <2>5 DEF BlockWorkflow
  <2> QED BY <2>2, <2>3, <2>4, <2>5
<1>2. CASE \E t \in Threads : \E g : Quiet(t, g) \/ SubmitHop(t, g)
  BY <1>2 DEF Quiet, SubmitHop, engineVars
<1>3. CASE \E t \in Threads : WatchHop(t)
  BY <1>3 DEF WatchHop, engineVars
<1>4. CASE \E t \in Threads : \E g, record : PollHop(t, g, record)
  BY <1>4 DEF PollHop, engineVars
<1>5. CASE \E s, action : UserHop(s, action)
  BY <1>5 DEF UserHop, engineVars
<1> QED BY <1>1, <1>2, <1>3, <1>4, <1>5

\* A request changes nothing about who works on what.
LEMMA RequestMoves ==
  ASSUME SystemBase, NEW s \in Steps \cup {NoStep},
         NEW action \in {"retry", "abandon"}, UserHop(s, action)
  PROVE  LET t == Resume(Len(requests) + 1)
         IN  /\ t \in Threads /\ chain[t].at = "idle"
             /\ chain'[t] = Resumed(s, action)
             /\ chain'[t].at = "WORKFLOW_RESUMED" /\ chain'[t].step = s
             /\ Working(chain'[t]) = {}
             /\ \A u \in Threads : u # t => chain'[u] = chain[u]
<1> DEFINE t == Resume(Len(requests) + 1)
           g == Resumed(s, action)
<1>1. t \in Threads /\ chain[t].at = "idle"
  <2>1. /\ Len(requests) + 1 \in 1..MaxRequests
        /\ Len(requests) + 1 > Len(requests)
    BY GovFlowAssumption
    DEF UserHop, SystemBase, HistoryTyped, GovFlowAssumption
  <2> QED BY <2>1, ThreadNames DEF SystemBase, Roles
<1>2. g \in Frames /\ g.at = "WORKFLOW_RESUMED" /\ g.step = s
  BY ResumedFrame
<1>3. chain' = [chain EXCEPT ![t] = g]
  BY DEF UserHop
<1> HIDE DEF g, t
<1>4. chain'[t] = g /\ \A u \in Threads : u # t => chain'[u] = chain[u]
  BY <1>1, <1>2, <1>3, OneThread DEF SystemBase
<1>5. Working(g) = {}
  BY <1>2, WorkingFacts
<1> QED BY <1>1, <1>2, <1>4, <1>5 DEF g, t

LEMMA NextKeepsSole ==
  ASSUME Careful, ReviewInvariant, [SystemNext]_vars
  PROVE  Sole'
<1> USE DEF ReviewInvariant
<1>1. Sole /\ SystemBase /\ \A t \in Threads : chain[t] \in Frames
  BY SoleWorker, ApplicationFacts
<1>2. \A t \in Threads : Working(chain[t]) \subseteq Steps
  BY <1>1, WorkingFacts
<1>3. ASSUME NEW t \in Threads, NEW g \in Frames,
             \/ t = Root /\ RootHop(g)
             \/ Quiet(t, g) \/ SubmitHop(t, g)
             \/ \E record : PollHop(t, g, record)
      PROVE  Sole'
  <2>1. chain' = [chain EXCEPT ![t] = g]
    BY <1>3 DEF RootHop, Quiet, SubmitHop, PollHop
  <2>2. \A u \in Threads : Working(chain'[u]) \subseteq Working(chain[u])
    BY <1>1, <1>3, <2>1, NoNewWork DEF Careful
  <2>3. graph' = graph
    BY <1>3, GraphStays
  <2> QED BY <1>1, <2>2, <2>3 DEF Sole
<1>4. ASSUME NEW t \in Threads, NEW g \in Frames, HaltHop(t, g)
      PROVE  Sole'
  <2> DEFINE h == chain[t].step
  <2>1. chain' = [chain EXCEPT ![t] = g]
    BY <1>4 DEF HaltHop
  <2>2. /\ \A u \in Threads : Working(chain'[u]) \subseteq Working(chain[u])
        /\ h \notin Working(chain'[t])
        /\ \A u \in Threads : u # t => chain'[u] = chain[u]
    BY <1>1, <1>4, <2>1, NoNewWork DEF Careful
  <2>3. \A u \in Threads : h \notin Working(chain'[u])
    BY <1>1, <1>4, <2>2, HaltedStep
  <2>4. \A s \in Steps : s # h => graph'[s] = graph[s]
    BY <1>1, <1>4 DEF HaltHop, MarkStepStatus, SystemBase, TypeOK
  <2> QED BY <1>1, <2>2, <2>3, <2>4 DEF Sole
<1>5. ASSUME NEW t \in Threads, WatchHop(t)
      PROVE  Sole'
  <2> DEFINE p == Poll(chain[t].app)
             h == chain[t].step
  <2>1. /\ h \in Working(chain[t]) /\ p # t
        /\ Working(chain'[t]) \subseteq Working(chain[t]) \ {h}
        /\ p \in Threads => Working(chain'[p]) = {h}
        /\ \A u \in Threads : u # t /\ u # p => chain'[u] = chain[u]
    BY <1>1, <1>5, WorkHandedOver
  <2>2. graph' = graph
    BY <1>5, GraphStays
  <2> HIDE DEF p, h
  <2>3. \A s \in Steps, u \in Threads : s \in Working(chain'[u]) =>
          \/ u = p /\ s = h
          \/ u # p /\ s \in Working(chain[u]) /\ (u = t => s # h)
    BY <2>1
  <2>4. \A s \in Steps, u \in Threads : s \in Working(chain'[u]) =>
          \/ u = p /\ s = h
          \/ u # p /\ s \in Working(chain[u]) /\ s # h
    BY <1>1, <2>1, <2>3 DEF Sole
  <2> QED BY <1>1, <2>1, <2>2, <2>4 DEF Sole
<1>6. ASSUME NEW s \in Steps \cup {NoStep}, NEW action \in {"retry", "abandon"},
             UserHop(s, action)
      PROVE  Sole'
  <2>1. \A u \in Threads : Working(chain'[u]) \subseteq Working(chain[u])
    BY <1>1, <1>6, RequestMoves
  <2>2. graph' = graph
    BY <1>6, GraphStays
  <2> QED BY <1>1, <2>1, <2>2 DEF Sole
<1>7. ASSUME NEW t \in Threads, NEW m \in [Steps -> StepStatus], ClaimHop(t, m)
      PROVE  Sole'
  <2> DEFINE h == chain[t].step
  <2>1. /\ Working(chain'[t]) = ReadySteps(m)
        /\ \A u \in Threads : u # t => chain'[u] = chain[u]
    BY <1>1, <1>7, WorkClaimed
  <2>2. /\ \A s \in Steps :
             graph'[s] = IF s \in ReadySteps(m) THEN "RUNNING" ELSE m[s]
        /\ \A s \in ReadySteps(m) : s \in Steps /\ m[s] = "PENDING"
        /\ \A s \in Steps : s # h => m[s] = graph[s]
        /\ \A u \in Threads : u # t => h \notin Working(chain[u])
    BY <1>7, ClaimedGraph
  <2> HIDE DEF h
  <2>3. \A u \in Threads : u # t =>
          \A s \in Working(chain'[u]) :
            /\ s \in Working(chain[u]) /\ s \in Steps /\ s # h
            /\ m[s] = "RUNNING" /\ s \notin ReadySteps(m)
            /\ graph'[s] = "RUNNING"
    BY <1>1, <1>2, <2>1, <2>2 DEF Sole
  <2>4. \A s \in Working(chain'[t]) :
          s \in ReadySteps(m) /\ s \in Steps /\ graph'[s] = "RUNNING"
    BY <2>1, <2>2
  <2>5. ASSUME NEW s \in Steps, NEW u \in Threads, NEW v \in Threads,
               s \in Working(chain'[u]), s \in Working(chain'[v])
        PROVE  u = v
    BY <1>1, <2>3, <2>4, <2>5 DEF Sole
  <2> QED BY <2>3, <2>4, <2>5 DEF Sole
<1>8. ASSUME UNCHANGED vars PROVE Sole'
  BY <1>1, <1>8 DEF vars, engineVars, Sole
<1>9. Root \in Threads
  BY ThreadNames
<1> QED
  BY <1>1, <1>3, <1>4, <1>5, <1>6, <1>7, <1>8, <1>9, SystemHops

\* Only the user makes a thread carry a request.
LEMMA RequestsStay ==
  ASSUME SystemBase, NEW u \in Threads, chain'[u].at = "WORKFLOW_RESUMED",
         \/ \E g \in Frames : RootHop(g)
         \/ \E t \in Threads : \E g \in Frames :
              Quiet(t, g) \/ SubmitHop(t, g) \/ HaltHop(t, g)
         \/ \E t \in Threads : WatchHop(t)
         \/ \E t \in Threads : \E g \in Frames : \E record :
              PollHop(t, g, record)
         \/ \E t \in Threads : \E m \in [Steps -> StepStatus] : ClaimHop(t, m)
  PROVE  /\ chain'[u] = chain[u]
         /\ \A g : ~HaltHop(u, g)
         /\ \A m \in [Steps -> StepStatus] : ~ClaimHop(u, m)
<1> DEFINE Kept == chain'[u] = chain[u]
<1>1. /\ \A t \in Threads : chain[t] \in Frames
      /\ Root \in Threads /\ Done.at = "done"
  BY ApplicationFacts, ThreadNames, SimpleFrames
<1>2. ASSUME NEW t \in Threads, NEW g \in Frames,
             chain' = [chain EXCEPT ![t] = g], g.at # "WORKFLOW_RESUMED"
      PROVE  Kept /\ u # t
  BY <1>2, OneThread DEF SystemBase
<1>3. ASSUME NEW g \in Frames, RootHop(g)
      PROVE  Kept
  BY <1>1, <1>2, <1>3 DEF RootHop, RootAt
<1>4. ASSUME NEW t \in Threads, NEW g \in Frames,
             Quiet(t, g) \/ SubmitHop(t, g)
      PROVE  Kept
  BY <1>2, <1>4 DEF Quiet, SubmitHop
<1>5. ASSUME NEW t \in Threads, NEW g, HaltHop(t, g)
      PROVE  Kept /\ u # t
  <2>1. chain[t].at = "DOCUMENT_MISSING" =>
          /\ Returned(chain[t]).at # "WORKFLOW_RESUMED"
          /\ Returned(chain[t]) \in Frames
    BY <1>1, ReturnedFrame
  <2>2. g.at # "WORKFLOW_RESUMED" /\ g \in Frames
    BY <1>5, <2>1, SimpleFrames DEF HaltHop
  <2> QED BY <1>2, <1>5, <2>2 DEF HaltHop
<1>6. ASSUME NEW t \in Threads, WatchHop(t)
      PROVE  Kept
  <2> DEFINE a == chain[t].app
  <2>1. chain'[t].at # "WORKFLOW_RESUMED"
    BY <1>6, WatchMoves
  <2>2. u = Poll(a) => chain'[u].at # "WORKFLOW_RESUMED"
    <3>1. /\ chain[t].step \in Steps /\ a \in 1..Len(applications)
          /\ Poll(a) \in Threads =>
               chain'[Poll(a)] = Polling(chain[t].step, a)
      BY <1>6, WatchMoves
    <3> QED BY <3>1, PollingFrame
  <2>3. u # t /\ u # Poll(a) => chain'[u] = chain[u]
    BY <1>6, WatchMoves
  <2> QED BY <2>1, <2>2, <2>3
<1>7. ASSUME NEW t \in Threads, NEW g \in Frames, NEW record,
             PollHop(t, g, record)
      PROVE  Kept
  BY <1>1, <1>2, <1>7 DEF PollHop
<1>8. ASSUME NEW t \in Threads, NEW m \in [Steps -> StepStatus], ClaimHop(t, m)
      PROVE  Kept /\ u # t
  BY <1>8, WorkClaimed
<1> HIDE DEF Kept
<1>9. Kept
  BY <1>3, <1>4, <1>5, <1>6, <1>7, <1>8
<1> QED BY <1>5, <1>8, <1>9 DEF Kept

LEMMA NextKeepsReviewed ==
  ASSUME Careful, ReviewInvariant, [SystemNext]_vars
  PROVE  Reviewed'
<1> USE DEF ReviewInvariant
<1>1. Sole /\ SystemBase /\ graph \in [Steps -> StepStatus]
      /\ \A t \in Threads : chain[t] \in Frames
  BY SoleWorker, ApplicationFacts DEF SystemBase, TypeOK
<1> DEFINE Others == \A u \in Threads :
                       chain'[u].at = "WORKFLOW_RESUMED" => chain'[u] = chain[u]
           Unhalted == \A u \in Threads :
                         /\ chain'[u].at = "WORKFLOW_RESUMED"
                         /\ chain'[u].step # NoStep
                         => graph'[chain'[u].step] = "BLOCKED"
<1>2. ASSUME \/ \E g \in Frames : RootHop(g)
             \/ \E t \in Threads : \E g \in Frames :
                  Quiet(t, g) \/ SubmitHop(t, g)
             \/ \E t \in Threads : WatchHop(t)
             \/ \E t \in Threads : \E g \in Frames : \E record :
                  PollHop(t, g, record)
      PROVE  Others /\ Unhalted
  <2>1. Others
    BY <1>1, <1>2, RequestsStay
  <2>2. graph' = graph
    BY <1>2, GraphStays
  <2> QED BY <2>1, <2>2 DEF Reviewed
<1>3. ASSUME NEW t \in Threads, NEW g \in Frames, HaltHop(t, g)
      PROVE  Others /\ Unhalted
  <2>1. Others /\ chain'[t].at # "WORKFLOW_RESUMED"
    BY <1>1, <1>3, RequestsStay
  <2>2. \A s \in Steps : s # chain[t].step => graph'[s] = graph[s]
    BY <1>1, <1>3 DEF HaltHop, MarkStepStatus
  <2>3. ASSUME NEW u \in Threads, chain'[u].at = "WORKFLOW_RESUMED",
               chain'[u].step # NoStep
        PROVE  graph'[chain'[u].step] = "BLOCKED"
    <3>1. u # t /\ chain'[u] = chain[u]
      BY <2>1, <2>3
    <3>2. graph[chain[u].step] = "BLOCKED" /\ chain[u].step \in Steps
      BY <1>1, <2>3, <3>1 DEF Reviewed, Frames, Carried
    <3>3. chain[u].step # chain[t].step
      BY <1>3, <2>3, <3>1, <3>2, HaltedStep DEF Reviewed
    <3> QED BY <2>2, <3>1, <3>2, <3>3
  <2> QED BY <2>1, <2>3
<1>4. ASSUME NEW t \in Threads, NEW m \in [Steps -> StepStatus], ClaimHop(t, m)
      PROVE  Others /\ Unhalted
  <2>1. Others /\ chain'[t].at # "WORKFLOW_RESUMED"
    BY <1>1, <1>4, RequestsStay
  <2>2. /\ \A s \in Steps :
             graph'[s] = IF s \in ReadySteps(m) THEN "RUNNING" ELSE m[s]
        /\ \A s \in ReadySteps(m) : s \in Steps /\ m[s] = "PENDING"
        /\ \A s \in Steps : s # chain[t].step => m[s] = graph[s]
        /\ chain[t].step \in Steps =>
             chain[t].at = "WORKFLOW_RESUMED"
             \/ graph[chain[t].step] = "RUNNING"
    BY <1>4, ClaimedGraph
  <2>3. ASSUME NEW u \in Threads, chain'[u].at = "WORKFLOW_RESUMED",
               chain'[u].step # NoStep
        PROVE  graph'[chain'[u].step] = "BLOCKED"
    <3>1. u # t /\ chain'[u] = chain[u]
      BY <2>1, <2>3
    <3>2. graph[chain[u].step] = "BLOCKED" /\ chain[u].step \in Steps
      BY <1>1, <2>3, <3>1 DEF Reviewed, Frames, Carried
    <3>3. chain[u].step # chain[t].step
      BY <2>2, <2>3, <3>1, <3>2 DEF Reviewed
    <3> QED BY <2>2, <3>1, <3>2, <3>3
  <2> QED BY <2>1, <2>3
<1>5. ASSUME Others, Unhalted PROVE Reviewed'
  BY <1>5 DEF Reviewed
<1>6. ASSUME NEW s \in Steps \cup {NoStep}, NEW action \in {"retry", "abandon"},
             UserHop(s, action)
      PROVE  Reviewed'
  <2> DEFINE t == Resume(Len(requests) + 1)
  <2>1. /\ t \in Threads /\ chain[t].at = "idle"
        /\ chain'[t].at = "WORKFLOW_RESUMED" /\ chain'[t].step = s
        /\ \A u \in Threads : u # t => chain'[u] = chain[u]
    BY <1>1, <1>6, RequestMoves
  <2>2. graph' = graph
    BY <1>6, GraphStays
  <2>3. s # NoStep =>
          /\ graph[s] = "BLOCKED"
          /\ \A r \in 1..Len(requests) :
               chain[Resume(r)].at = "WORKFLOW_RESUMED" =>
                 chain[Resume(r)].step # s
    <3>1. IsGated => hasGraph
      BY DEF EngineKept, GraphKept, IsGated, GateStatus
    <3>2. MayRequest(s) /\ User = "reviewer"
      BY <1>6 DEF UserHop, Careful
    <3> QED BY <3>1, <3>2 DEF MayRequest, BlockedStepIds, StepsWith
  <2>4. \A u \in Threads : chain[u].at = "WORKFLOW_RESUMED" =>
          \E r \in 1..Len(requests) : u = Resume(r)
    BY DEF SystemBase, Roles
  <2>5. \A u \in Threads :
          s # NoStep /\ chain[u].at = "WORKFLOW_RESUMED" => chain[u].step # s
    BY <2>3, <2>4
  <2> HIDE DEF t
  <2>6. \A u \in Threads :
          chain'[u].at = "WORKFLOW_RESUMED" /\ chain'[u].step # NoStep =>
            graph'[chain'[u].step] = "BLOCKED"
    BY <2>1, <2>2, <2>3 DEF Reviewed
  <2>7. \A u, v \in Threads :
          /\ chain'[u].at = "WORKFLOW_RESUMED" /\ chain'[u].step # NoStep
          /\ chain'[v].at = "WORKFLOW_RESUMED" /\ chain'[u].step = chain'[v].step
          => u = v
    BY <2>1, <2>5 DEF Reviewed
  <2> QED BY <2>6, <2>7 DEF Reviewed
<1>7. ASSUME UNCHANGED vars PROVE Reviewed'
  BY <1>7 DEF vars, engineVars, Reviewed
<1> HIDE DEF Others, Unhalted
<1> QED BY <1>1, <1>2, <1>3, <1>4, <1>5, <1>6, <1>7, SystemHops

LEMMA NextKeepsReview ==
  ASSUME Careful, ReviewInvariant, [SystemNext]_vars
  PROVE  ReviewInvariant'
<1>1. SystemBase' /\ EngineKept'
  BY NextKeepsBase, NextKeepsEngine DEF ReviewInvariant
<1>2. OneWorkerPerStep' /\ Reviewed'
  BY NextKeepsSole, NextKeepsReviewed, SoleWorker
<1> QED BY <1>1, <1>2 DEF ReviewInvariant

LEMMA InitReview == SystemInit => ReviewInvariant
<1> SUFFICES ASSUME SystemInit PROVE ReviewInvariant
  OBVIOUS
<1>1. SystemBase /\ EngineKept
  BY InitBase, InitEngineKept
<1>2. /\ graph = InitialGraph
      /\ \A t \in Threads : chain[t].at \in RootAt \cup {"idle"}
  BY DEF SystemInit, Init, Handling, Idle, RootAt
<1>3. \A t \in Threads : Working(chain[t]) = {}
  BY <1>1, <1>2, WorkingFacts, ApplicationFacts
<1>4. Sole
  BY <1>3 DEF Sole
<1>5. Reviewed
  BY <1>2 DEF Reviewed, RootAt
<1> QED
  BY <1>1, <1>4, <1>5, SoleWorker DEF ReviewInvariant

\* What the engine, the agents and the polling tasks owe to each other while
\* the user only acts on blocked steps.
THEOREM ReviewCorrect ==
  ASSUME User = "reviewer", "validate" \notin Failing
  PROVE  SystemSpec => []ReviewInvariant
<1>1. Careful
  BY DEF Careful
<1>2. ReviewInvariant /\ [SystemNext]_vars => ReviewInvariant'
  BY <1>1, NextKeepsReview
<1> QED BY <1>2, InitReview, PTL DEF SystemSpec

\* If retries are only sent for blocked steps, no two threads ever work on
\* the same step, and whoever works on one has it RUNNING.
THEOREM OneWorkerEach ==
  ASSUME User = "reviewer", "validate" \notin Failing
  PROVE  SystemSpec => []OneWorkerPerStep
<1>1. ReviewInvariant => OneWorkerPerStep
  BY DEF ReviewInvariant
<1> QED BY <1>1, ReviewCorrect, PTL

\* A step of the backend takes no completed step back.
LEMMA CompletedStays ==
  ASSUME Careful, ReviewInvariant, [SystemNext]_vars
  PROVE  CompletedStepIds(graph) \subseteq CompletedStepIds(graph')
<1> SUFFICES ASSUME NEW s \in Steps, graph[s] = "COMPLETED"
             PROVE  graph'[s] = "COMPLETED"
  BY DEF CompletedStepIds, StepsWith
<1>1. ASSUME NEW t \in Threads, NEW m \in [Steps -> StepStatus], ClaimHop(t, m)
      PROVE  graph'[s] = "COMPLETED"
  BY <1>1, ClaimedGraph
<1>2. ASSUME NEW t \in Threads, NEW g \in Frames, HaltHop(t, g)
      PROVE  graph'[s] = "COMPLETED"
  <2>1. chain[t].step # s
    BY <1>2, HaltedStep
  <2>2. graph' = MarkStepStatus(graph, chain[t].step, "BLOCKED")
        \/ graph' = MarkStepStatus(graph, chain[t].step, "FAILED")
    BY <1>2 DEF HaltHop
  <2> QED BY <2>1, <2>2 DEF MarkStepStatus, ReviewInvariant, SystemBase,
                            TypeOK
<1>3. ASSUME UNCHANGED vars PROVE graph'[s] = "COMPLETED"
  BY <1>3 DEF vars, engineVars
<1>4. SystemBase
  BY DEF ReviewInvariant
<1> QED BY <1>1, <1>2, <1>3, <1>4, GraphStays, SystemHops

\* If retries are only sent for blocked steps, no late verdict, no retry and
\* no other operation takes a completed step back.
THEOREM ApprovalsAreFinal ==
  ASSUME User = "reviewer", "validate" \notin Failing
  PROVE  SystemSpec => ApprovalIsFinal
<1>1. Careful
  BY DEF Careful
<1>2. ReviewInvariant /\ [SystemNext]_vars =>
        [CompletedStepIds(graph) \subseteq CompletedStepIds(graph')]_vars
  BY <1>1, CompletedStays
<1> QED BY <1>2, ReviewCorrect, PTL DEF SystemSpec, ApprovalIsFinal

\* The completion of the last step is announced by the thread that carries
\* its approval, which has that step RUNNING until then; so it happens once.
LEMMA NextKeepsCompletedOnce ==
  ASSUME Careful, ReviewInvariant, CompletedOnce, [SystemNext]_vars
  PROVE  CompletedOnce'
<1> USE DEF ReviewInvariant
<1>1. /\ ReviewInvariant' /\ SystemBase /\ completions \in Nat
      /\ graph' \in [Steps -> StepStatus]
  BY NextKeepsReview DEF SystemBase, HistoryTyped, TypeOK
<1>2. IsComplete(graph') => \A t \in Threads : WorkingOn(t)' = {}
  <2>1. Sole'
    BY <1>1, SoleWorker
  <2>2. \A t \in Threads : chain'[t] \in Frames
    BY <1>1 DEF SystemBase, FramesTyped
  <2>3. \A t \in Threads : Working(chain'[t]) \subseteq Steps
    BY <2>2, WorkingFacts
  <2>4. IsComplete(graph') => \A t \in Threads : Working(chain'[t]) = {}
    BY <2>1, <2>3 DEF Sole, IsComplete
  <2>5. \A t \in Threads : WorkingOn(t)' = Working(chain'[t])
    BY DEF WorkingOn, Working
  <2> QED BY <2>4, <2>5
<1>3. IsComplete(graph) => IsComplete(graph')
  BY CompletedStays DEF IsComplete, CompletedStepIds, StepsWith
<1>4. \/ completions' = completions
      \/ /\ completions' = completions + 1
         /\ IsComplete(graph') /\ ~IsComplete(graph)
  <2>1. ASSUME NEW t \in Threads, NEW m \in [Steps -> StepStatus],
               ClaimHop(t, m), completions' # completions
        PROVE  /\ completions' = completions + 1
               /\ IsComplete(graph') /\ ~IsComplete(graph)
    <3>1. /\ chain[t].at = "APPLICATION_APPROVED" /\ chain[t].step \in Steps
          /\ completions' = completions + 1 /\ IsComplete(graph')
      BY <2>1 DEF ClaimHop
    <3>2. graph[chain[t].step] = "RUNNING"
      BY <2>1, <3>1, ClaimedGraph
    <3> QED BY <3>1, <3>2 DEF IsComplete
  <2>2. ASSUME \/ \E g : RootHop(g)
               \/ \E t \in Threads : \E g :
                    Quiet(t, g) \/ SubmitHop(t, g) \/ HaltHop(t, g)
               \/ \E t \in Threads : WatchHop(t)
               \/ \E t \in Threads : \E g, record : PollHop(t, g, record)
               \/ \E s, action : UserHop(s, action)
        PROVE  completions' = completions
    <3>1. CASE \E g : RootHop(g)
      BY <3>1 DEF RootHop
    <3>2. CASE \E t \in Threads : \E g :
                 Quiet(t, g) \/ SubmitHop(t, g) \/ HaltHop(t, g)
      BY <3>2 DEF Quiet, SubmitHop, HaltHop
    <3>3. CASE \E t \in Threads : WatchHop(t)
      BY <3>3 DEF WatchHop
    <3>4. CASE \E t \in Threads : \E g, record : PollHop(t, g, record)
      BY <3>4 DEF PollHop
    <3>5. CASE \E s, action : UserHop(s, action)
      BY <3>5 DEF UserHop
    <3> QED BY <2>2, <3>1, <3>2, <3>3, <3>4, <3>5
  <2>3. UNCHANGED vars => completions' = completions
    BY DEF vars
  <2> QED BY <1>1, <2>1, <2>2, <2>3, SystemHops
<1>5. CASE completions' = completions
  BY <1>2, <1>3, <1>5 DEF CompletedOnce
<1>6. CASE /\ completions' = completions + 1
           /\ IsComplete(graph') /\ ~IsComplete(graph)
  <2>1. completions = 0
    BY <1>1, <1>6 DEF CompletedOnce
  <2> QED BY <1>2, <1>6, <2>1 DEF CompletedOnce
<1> QED BY <1>4, <1>5, <1>6

\* If retries are only sent for blocked steps, WORKFLOW_COMPLETED is published
\* at most once, when every step is completed and nobody works any more.
THEOREM CompletesOnce ==
  ASSUME User = "reviewer", "validate" \notin Failing
  PROVE  SystemSpec => []CompletedOnce
<1>1. Careful
  BY DEF Careful
<1>2. SystemInit => CompletedOnce
  BY DEF SystemInit, CompletedOnce
<1>3. ReviewInvariant /\ CompletedOnce /\ [SystemNext]_vars => CompletedOnce'
  BY <1>1, NextKeepsCompletedOnce
<1> QED BY <1>2, <1>3, ReviewCorrect, PTL DEF SystemSpec

----------------------------------------------------------------------------
(* How often a step is submitted.  Every submission is paid for: a step may  *)
(* be submitted Attempts times once it is claimed, a pending step keeps this *)
(* credit on the shelf until some operation claims it, a request to retry a  *)
(* step brings as much with it, and a failed attempt of DocumentAgent uses   *)
(* up a part of what its frame has left for each step of its list.           *)

Shelf == <<"shelf", 0>>
Owners == Threads \cup {Shelf}

Credit(f, s) ==
  IF f.at = "WORKFLOW_RESUMED"
  THEN IF f.step = s /\ f.action = "retry" THEN Attempts ELSE 0
  ELSE IF s \notin f.steps THEN 0
  ELSE IF s \in Due(f) THEN Attempts - f.tries
  ELSE Attempts - 1 - f.tries

Balances ==
  [o \in Owners |-> [s \in Steps |->
     IF o = Shelf THEN IF graph[s] = "PENDING" THEN Attempts ELSE 0
     ELSE Credit(chain[o], s)]]

\* One token for every submission an owner may still make.
Tokens(B, S) ==
  {x \in Owners \X (S \X (1..Attempts)) : x[2][2] <= B[x[1]][x[2][1]]}

ApplicationsFor(S) ==
  {a \in 1..Len(applications) : applications[a].step \in S}
RetriesOf(S) ==
  {r \in 1..Len(requests) :
     requests[r].action = "retry" /\ requests[r].step \in S}

\* What is allowed for the steps S, if each failed write may cost one more
\* submission of every step (GovFlowFaultsProofs).
Allowance(S, failed) ==
  Attempts * (Cardinality(S) * (1 + failed) + Cardinality(RetriesOf(S)))

Ledger(S, failed) ==
  Cardinality(ApplicationsFor(S)) + Cardinality(Tokens(Balances, S))
    <= Allowance(S, failed)

LedgerInvariant == SystemBase /\ \A S \in SUBSET Steps : Ledger(S, 0)

LEMMA BoundsType ==
  /\ IsFiniteSet(Steps) /\ Cardinality(Steps) \in Nat
  /\ MaxApplications \in Nat
  /\ \A k \in 0..MaxRedone :
       Attempts * (Cardinality(Steps) * (1 + k) + MaxRequests)
         <= MaxApplications
<1>1. IsFiniteSet(Steps) /\ Cardinality(Steps) \in Nat
  BY GraphAssumption, FS_CardinalityType DEF GraphAssumption
<1>2. MaxRequests \in Nat /\ MaxRedone \in Nat /\ Attempts \in Nat
  BY GovFlowAssumption, AttemptsType DEF GovFlowAssumption, MaxRedone
<1> DEFINE c == Cardinality(Steps)
           all(k) == c * (1 + k) + MaxRequests
<1>3. \A a, x, y \in Nat : x <= y => a * x <= a * y
  OBVIOUS
<1> HIDE DEF c
<1>4. c \in Nat
  BY <1>1 DEF c
<1>5. \A k \in 0..MaxRedone :
        all(k) \in Nat /\ all(MaxRedone) \in Nat /\ all(k) <= all(MaxRedone)
  <2> SUFFICES ASSUME NEW k \in 0..MaxRedone
               PROVE  all(k) \in Nat /\ all(MaxRedone) \in Nat
                      /\ all(k) <= all(MaxRedone)
    OBVIOUS
  <2>1. 1 + k \in Nat /\ 1 + MaxRedone \in Nat /\ 1 + k <= 1 + MaxRedone
    BY <1>2
  <2>2. c * (1 + k) <= c * (1 + MaxRedone)
    BY <1>3, <1>4, <2>1
  <2>3. c * (1 + k) \in Nat /\ c * (1 + MaxRedone) \in Nat
    BY <1>4, <2>1
  <2> QED BY <1>2, <2>2, <2>3
<1>6. MaxApplications = Attempts * all(MaxRedone)
  BY DEF MaxApplications, c
<1>7. MaxRedone \in 0..MaxRedone
  BY <1>2
<1> HIDE DEF all
<1>8. \A k \in 0..MaxRedone : Attempts * all(k) <= Attempts * all(MaxRedone)
  BY <1>2, <1>3, <1>5
<1>9. Attempts * all(MaxRedone) \in Nat
  BY <1>2, <1>5, <1>7
<1> QED BY <1>1, <1>6, <1>8, <1>9 DEF all, c

LEMMA OwnersFinite == IsFiniteSet(Owners)
<1>1. MaxApplications \in Nat /\ MaxRequests \in Nat
  BY BoundsType, GovFlowAssumption DEF GovFlowAssumption
<1> DEFINE P == 1..MaxApplications
           R == 1..MaxRequests
           polls == [a \in P |-> Poll(a)]
           resumes == {Resume(r) : r \in R}
           asked == [r \in R |-> Resume(r)]
<1>2. IsFiniteSet(P) /\ IsFiniteSet(R)
  BY <1>1, FS_Interval
<1>3. polls \in Surjection(P, Polls)
  BY DEF Surjection, Polls
<1>4. asked \in Surjection(R, resumes)
  BY DEF Surjection
<1>5. IsFiniteSet(Polls)
  BY <1>2, <1>3, FS_Surjection
<1>6. IsFiniteSet(resumes)
  BY <1>2, <1>4, FS_Surjection
<1>7. IsFiniteSet({Root} \cup Polls)
  BY <1>5, FS_Union, FS_Singleton
<1>8. IsFiniteSet(({Root} \cup Polls) \cup resumes)
  BY <1>6, <1>7, FS_Union
<1>9. Owners = (({Root} \cup Polls) \cup resumes) \cup {Shelf}
  BY DEF Owners, Threads
<1> QED BY <1>8, <1>9, FS_AddElement

LEMMA TokensFinite ==
  ASSUME NEW S \in SUBSET Steps, NEW B
  PROVE  IsFiniteSet(Tokens(B, S)) /\ Cardinality(Tokens(B, S)) \in Nat
<1>1. IsFiniteSet(S)
  BY BoundsType, FS_Subset
<1>2. IsFiniteSet(1..Attempts)
  BY AttemptsType, FS_Interval
<1>3. IsFiniteSet(S \X (1..Attempts))
  BY <1>1, <1>2, FS_Product
<1>4. IsFiniteSet(Owners \X (S \X (1..Attempts)))
  BY <1>3, OwnersFinite, FS_Product
<1>5. Tokens(B, S) \in SUBSET (Owners \X (S \X (1..Attempts)))
  BY DEF Tokens
<1>6. IsFiniteSet(Tokens(B, S))
  BY <1>4, <1>5, FS_Subset
<1> QED BY <1>6, FS_CardinalityType

\* What nobody's balance rises over, no token is new.
LEMMA TokensFall ==
  ASSUME NEW S \in SUBSET Steps, NEW B, NEW C,
         \A o \in Owners, s \in S : B[o][s] \in Nat /\ C[o][s] \in Nat,
         \A o \in Owners, s \in S : C[o][s] <= B[o][s]
  PROVE  Cardinality(Tokens(C, S)) <= Cardinality(Tokens(B, S))
<1>1. ASSUME NEW x \in Tokens(C, S) PROVE x \in Tokens(B, S)
  <2>1. /\ x \in Owners \X (S \X (1..Attempts))
        /\ x[2][2] <= C[x[1]][x[2][1]]
    BY DEF Tokens
  <2>2. x[1] \in Owners /\ x[2][1] \in S /\ x[2][2] \in Nat
    BY <2>1
  <2>3. x[2][2] <= B[x[1]][x[2][1]]
    BY <2>1, <2>2
  <2> QED BY <2>1, <2>3 DEF Tokens
<1>2. Tokens(C, S) \in SUBSET Tokens(B, S)
  BY <1>1
<1> QED BY <1>2, TokensFinite, FS_Subset

\* A submission uses up one token.
LEMMA TokenSpent ==
  ASSUME NEW S \in SUBSET Steps, NEW B, NEW C, NEW t \in Owners, NEW r \in S,
         \A o \in Owners, s \in S : B[o][s] \in Nat /\ C[o][s] \in Nat,
         \A o \in Owners, s \in S : C[o][s] <= B[o][s],
         B[t][r] \in 1..Attempts, C[t][r] < B[t][r]
  PROVE  Cardinality(Tokens(C, S)) + 1 <= Cardinality(Tokens(B, S))
<1> DEFINE one == <<t, <<r, B[t][r]>>>>
<1>1. one \in Tokens(B, S)
  BY DEF Tokens
<1>2. ASSUME NEW x \in Tokens(C, S) PROVE x \in Tokens(B, S) \ {one}
  <2>1. /\ x \in Owners \X (S \X (1..Attempts))
        /\ x[2][2] <= C[x[1]][x[2][1]]
    BY DEF Tokens
  <2>2. x[1] \in Owners /\ x[2][1] \in S /\ x[2][2] \in Nat
    BY <2>1
  <2>3. x[2][2] <= B[x[1]][x[2][1]]
    BY <2>1, <2>2
  <2>4. x # one
    <3>1. SUFFICES ASSUME x = one PROVE FALSE
      OBVIOUS
    <3>2. x[1] = t /\ x[2][1] = r /\ x[2][2] = B[t][r]
      BY <3>1
    <3> QED BY <2>1, <3>2
  <2> QED BY <2>1, <2>3, <2>4 DEF Tokens
<1> HIDE DEF one
<1>3. Tokens(C, S) \in SUBSET (Tokens(B, S) \ {one})
  BY <1>2
<1>4. /\ IsFiniteSet(Tokens(B, S) \ {one})
      /\ Cardinality(Tokens(B, S) \ {one}) = Cardinality(Tokens(B, S)) - 1
  BY <1>1, TokensFinite, FS_RemoveElement
<1>5. Cardinality(Tokens(C, S)) <= Cardinality(Tokens(B, S) \ {one})
  BY <1>3, <1>4, FS_Subset
<1> QED BY <1>4, <1>5, TokensFinite

\* Counting to n gives n numbers.
LEMMA CountTo ==
  ASSUME NEW n \in Nat
  PROVE  IsFiniteSet(1..n) /\ Cardinality(1..n) = n
<1>1. /\ IsFiniteSet(1..n)
      /\ Cardinality(1..n) = IF 1 > n THEN 0 ELSE n - 1 + 1
  BY FS_Interval
<1> QED BY <1>1

\* One of each of the things of a finite set.
LEMMA ProductOfOne ==
  ASSUME NEW x, NEW T, IsFiniteSet(T), Cardinality(T) \in Nat
  PROVE  IsFiniteSet({x} \X T) /\ Cardinality({x} \X T) = Cardinality(T)
<1>1. IsFiniteSet({x}) /\ Cardinality({x}) = 1
  BY FS_Singleton
<1>2. /\ IsFiniteSet({x} \X T)
      /\ Cardinality({x} \X T) = Cardinality({x}) * Cardinality(T)
  BY <1>1, FS_Product
<1> QED BY <1>1, <1>2

\* A request brings the credit of one step with it.
LEMMA TokensAdded ==
  ASSUME NEW S \in SUBSET Steps, NEW B, NEW C, NEW t \in Owners, NEW r \in S,
         \A o \in Owners, s \in S : B[o][s] \in Nat /\ C[o][s] \in Nat,
         \A o \in Owners, s \in S :
           o # t \/ s # r => C[o][s] <= B[o][s]
  PROVE  Cardinality(Tokens(C, S)) <= Cardinality(Tokens(B, S)) + Attempts
<1> DEFINE New == {t} \X ({r} \X (1..Attempts))
<1>1. ASSUME NEW x \in Tokens(C, S) PROVE x \in Tokens(B, S) \cup New
  <2>1. /\ x \in Owners \X (S \X (1..Attempts))
        /\ x[2][2] <= C[x[1]][x[2][1]]
    BY DEF Tokens
  <2>2. x[1] \in Owners /\ x[2][1] \in S /\ x[2][2] \in 1..Attempts
    BY <2>1
  <2>3. CASE x[1] = t /\ x[2][1] = r
    BY <2>1, <2>3
  <2>4. CASE x[1] # t \/ x[2][1] # r
    <3>1. x[2][2] <= B[x[1]][x[2][1]]
      BY <2>1, <2>2, <2>4
    <3> QED BY <2>1, <3>1 DEF Tokens
  <2> QED BY <2>3, <2>4
<1>2. IsFiniteSet(New) /\ Cardinality(New) = Attempts
  <2> DEFINE upTo == 1..Attempts
             rows == {r} \X upTo
  <2>1. IsFiniteSet(upTo) /\ Cardinality(upTo) = Attempts /\ Attempts \in Nat
    BY AttemptsType, CountTo
  <2> HIDE DEF upTo
  <2>2. IsFiniteSet(rows) /\ Cardinality(rows) = Attempts
    <3>1. Cardinality(upTo) \in Nat
      BY <2>1
    <3>2. IsFiniteSet({r} \X upTo) /\ Cardinality({r} \X upTo) = Cardinality(upTo)
      BY <2>1, <3>1, ProductOfOne, Zenon
    <3> QED BY <2>1, <3>2
  <2> HIDE DEF rows
  <2>3. IsFiniteSet({t} \X rows) /\ Cardinality({t} \X rows) = Attempts
    <3>1. Cardinality(rows) \in Nat
      BY <2>1, <2>2
    <3>2. IsFiniteSet({t} \X rows) /\ Cardinality({t} \X rows) = Cardinality(rows)
      BY <2>2, <3>1, ProductOfOne, Zenon
    <3> QED BY <2>2, <3>2
  <2>4. New = {t} \X rows
    BY DEF rows, upTo
  <2> HIDE DEF New
  <2> QED BY <2>3, <2>4
<1> HIDE DEF New
<1>3. Tokens(C, S) \in SUBSET (Tokens(B, S) \cup New)
  BY <1>1
<1>4. /\ IsFiniteSet(Tokens(B, S)) /\ Cardinality(Tokens(B, S)) \in Nat
      /\ Cardinality(Tokens(C, S)) \in Nat
  BY TokensFinite
<1>5. /\ IsFiniteSet(Tokens(B, S) \cup New)
      /\ Cardinality(Tokens(B, S) \cup New) =
           Cardinality(Tokens(B, S)) + Cardinality(New)
             - Cardinality(Tokens(B, S) \cap New)
  BY <1>2, <1>4, FS_Union
<1>6. Cardinality(Tokens(B, S) \cap New) \in Nat
  <2>1. IsFiniteSet(Tokens(B, S) \cap New)
    BY <1>2, FS_Intersection
  <2> QED BY <2>1, FS_CardinalityType
<1>7. Cardinality(Tokens(C, S)) <= Cardinality(Tokens(B, S) \cup New)
  BY <1>3, <1>5, FS_Subset
<1> QED BY <1>2, <1>4, <1>5, <1>6, <1>7, AttemptsType

\* A claim moves credit between the shelf and the thread that claims.
LEMMA TokensMoved ==
  ASSUME NEW S \in SUBSET Steps, NEW B, NEW C, NEW t \in Threads,
         NEW from \in [Steps -> {t, Shelf}],
         \A o \in Owners, s \in S : B[o][s] \in Nat /\ C[o][s] \in Nat,
         \A o \in Owners \ {t, Shelf}, s \in S : C[o][s] <= B[o][s],
         \A s \in S : C[t][s] = 0 \/ C[Shelf][s] = 0,
         \A s \in S : C[t][s] <= B[from[s]][s] /\ C[Shelf][s] <= B[from[s]][s]
  PROVE  Cardinality(Tokens(C, S)) <= Cardinality(Tokens(B, S))
<1> DEFINE payer(x) == IF x[1] \in {t, Shelf} THEN from[x[2][1]] ELSE x[1]
           move == [x \in Tokens(C, S) |-> <<payer(x), x[2]>>]
<1>1. t \in Owners /\ Shelf \in Owners
  BY DEF Owners
<1>2. ASSUME NEW x \in Tokens(C, S)
      PROVE  /\ x = <<x[1], x[2]>> /\ x[2] = <<x[2][1], x[2][2]>>
             /\ x[1] \in Owners /\ x[2] \in S \X (1..Attempts)
             /\ x[2][1] \in S /\ x[2][2] \in 1..Attempts
             /\ x[2][2] <= C[x[1]][x[2][1]]
             /\ payer(x) \in Owners
  BY <1>1 DEF Tokens
<1>3. ASSUME NEW x \in Tokens(C, S)
      PROVE  <<payer(x), x[2]>> \in Tokens(B, S)
  <2>1. x[2][2] <= B[payer(x)][x[2][1]]
    <3>1. CASE x[1] = t
      BY <1>1, <1>2, <3>1
    <3>2. CASE x[1] = Shelf
      BY <1>1, <1>2, <3>2
    <3>3. CASE x[1] \notin {t, Shelf}
      BY <1>2, <3>3
    <3> QED BY <3>1, <3>2, <3>3
  <2> HIDE DEF payer
  <2>2. <<payer(x), x[2]>> \in Owners \X (S \X (1..Attempts))
    BY <1>2
  <2> QED BY <2>1, <2>2 DEF Tokens
<1>4. move \in [Tokens(C, S) -> Tokens(B, S)]
  BY <1>3
<1>5. ASSUME NEW x \in Tokens(C, S), NEW y \in Tokens(C, S),
             move[x] = move[y]
      PROVE  x = y
  <2>1. payer(x) = payer(y) /\ x[2] = y[2]
    BY <1>5
  <2>2. x[1] = y[1]
    <3>1. CASE x[1] \in {t, Shelf} /\ y[1] \in {t, Shelf}
      <4>1. C[x[1]][x[2][1]] # 0 /\ C[y[1]][x[2][1]] # 0
        BY <1>1, <1>2, <2>1
      <4> QED BY <1>2, <3>1, <4>1
    <3>2. CASE x[1] \notin {t, Shelf} /\ y[1] \notin {t, Shelf}
      BY <2>1, <3>2
    <3>3. CASE \/ x[1] \in {t, Shelf} /\ y[1] \notin {t, Shelf}
               \/ x[1] \notin {t, Shelf} /\ y[1] \in {t, Shelf}
      BY <1>2, <2>1, <3>3
    <3> QED BY <3>1, <3>2, <3>3
  <2> QED BY <1>2, <2>1, <2>2
<1>6. move \in Injection(Tokens(C, S), Tokens(B, S))
  BY <1>4, <1>5 DEF Injection, IsInjective
<1> QED BY <1>6, TokensFinite, FS_Injection

LEMMA CreditRange ==
  ASSUME NEW f \in Frames, NEW s \in Steps
  PROVE  /\ Credit(f, s) \in 0..Attempts
         /\ f.steps = {} /\ f.at # "WORKFLOW_RESUMED" => Credit(f, s) = 0
         /\ f.at = "NEXT_ACTION_TRIGGERED" /\ f.tries = 0 /\ s \in f.steps =>
              Credit(f, s) = Attempts
<1>1. f.tries \in 0..(Attempts - 1) /\ Attempts \in Nat \ {0}
  BY AttemptsType DEF Frames, Carried
<1>2. f.at = "NEXT_ACTION_TRIGGERED" => f.step = NoStep
  BY DEF Frames, FrameShape
<1>3. f.step = NoStep => Todo(f) = f.steps
  BY DEF Todo
<1> QED BY <1>1, <1>2, <1>3 DEF Credit, Due

LEMMA BalanceOf ==
  /\ \A o \in Threads, s \in Steps : Balances[o][s] = Credit(chain[o], s)
  /\ \A s \in Steps :
       Balances[Shelf][s] = IF graph[s] = "PENDING" THEN Attempts ELSE 0
  /\ \A o \in Threads, s \in Steps : Balances'[o][s] = Credit(chain'[o], s)
  /\ \A s \in Steps :
       Balances'[Shelf][s] = IF graph'[s] = "PENDING" THEN Attempts ELSE 0
  /\ Shelf \notin Threads
<1>1. Shelf \notin Threads
  BY DEF Shelf, Threads, Root, Polls, Poll, Resume
<1>2. \A o \in Threads : o \in Owners /\ o # Shelf
  BY <1>1 DEF Owners
<1>3. Shelf \in Owners
  BY DEF Owners
<1> HIDE DEF Shelf
<1>4. \A o \in Threads, s \in Steps : Balances[o][s] = Credit(chain[o], s)
  BY <1>2 DEF Balances
<1>5. \A s \in Steps :
        Balances[Shelf][s] = IF graph[s] = "PENDING" THEN Attempts ELSE 0
  BY <1>3 DEF Balances
<1>6. \A o \in Threads, s \in Steps : Balances'[o][s] = Credit(chain'[o], s)
  BY <1>2 DEF Balances, Credit
<1>7. \A s \in Steps :
        Balances'[Shelf][s] = IF graph'[s] = "PENDING" THEN Attempts ELSE 0
  BY <1>3 DEF Balances
<1> QED BY <1>1, <1>4, <1>5, <1>6, <1>7

LEMMA BalancesType ==
  ASSUME FramesTyped, FramesTyped'
  PROVE  \A o \in Owners, s \in Steps :
           Balances[o][s] \in 0..Attempts /\ Balances'[o][s] \in 0..Attempts
<1>1. ASSUME NEW o \in Threads, NEW s \in Steps
      PROVE  Balances[o][s] \in 0..Attempts /\ Balances'[o][s] \in 0..Attempts
  BY BalanceOf, CreditRange DEF FramesTyped
<1>2. \A s \in Steps :
        Balances[Shelf][s] \in 0..Attempts /\ Balances'[Shelf][s] \in 0..Attempts
  BY BalanceOf, AttemptsType
<1> QED BY <1>1, <1>2 DEF Owners

\* A frame that keeps no more of its list than before has no more credit.
LEMMA CreditFalls ==
  ASSUME NEW f \in Frames, NEW g \in Frames, NEW s \in Steps,
         g.at # "WORKFLOW_RESUMED", f.at # "WORKFLOW_RESUMED",
         \/ g.steps = {}
         \/ /\ g.steps = f.steps /\ g.tries = f.tries
            /\ Due(g) \subseteq Due(f)
         \/ g.steps = f.steps /\ g.tries = f.tries + 1
  PROVE  Credit(g, s) <= Credit(f, s)
<1>1. /\ f.tries \in 0..(Attempts - 1) /\ Attempts \in Nat \ {0}
      /\ g.tries \in 0..(Attempts - 1)
  BY AttemptsType DEF Frames, Carried
<1>2. CASE g.steps = {}
  BY <1>2, CreditRange
<1>3. CASE /\ g.steps = f.steps /\ g.tries = f.tries
           /\ Due(g) \subseteq Due(f)
  BY <1>1, <1>3 DEF Credit
<1>4. CASE g.steps = f.steps /\ g.tries = f.tries + 1
  BY <1>1, <1>4 DEF Credit
<1> QED BY <1>2, <1>3, <1>4

\* Only a claim and a request give a thread credit, and a submission uses up
\* some.
Paying == \A o \in Owners, s \in Steps : Balances'[o][s] <= Balances[o][s]

LEMMA ThreadPays ==
  ASSUME SystemBase, NEW t \in Threads, NEW g \in Frames,
         chain' = [chain EXCEPT ![t] = g],
         \A s \in Steps : Credit(g, s) <= Credit(chain[t], s),
         \A s \in Steps : graph'[s] = "PENDING" => graph[s] = "PENDING"
  PROVE  Paying
<1>1. /\ FramesTyped /\ FramesTyped' /\ chain'[t] = g
      /\ \A u \in Threads : u # t => chain'[u] = chain[u]
  BY OneThread DEF SystemBase
<1>2. ASSUME NEW o \in Threads, NEW s \in Steps
      PROVE  Balances'[o][s] <= Balances[o][s]
  <2>1. Balances[o][s] \in 0..Attempts
    BY <1>1, BalancesType DEF Owners
  <2>2. CASE o = t
    BY <1>1, <2>2, BalanceOf
  <2>3. CASE o # t
    <3>1. Balances'[o][s] = Balances[o][s]
      BY <1>1, <2>3, BalanceOf
    <3> QED BY <2>1, <3>1, AttemptsType
  <2> QED BY <2>2, <2>3
<1>3. ASSUME NEW s \in Steps
      PROVE  Balances'[Shelf][s] <= Balances[Shelf][s]
  BY BalanceOf, AttemptsType
<1> QED BY <1>2, <1>3 DEF Paying, Owners

LEMMA QuietStepsPay ==
  ASSUME SystemBase,
         \/ \E g \in Frames : RootHop(g)
         \/ \E t \in Threads : \E g \in Frames : Quiet(t, g) \/ HaltHop(t, g)
         \/ \E t \in Threads : \E g \in Frames : \E record :
              PollHop(t, g, record)
  PROVE  Paying
<1> USE ApplicationFacts
<1>1. CASE \E g \in Frames : RootHop(g)
  <2>1. PICK g \in Frames : RootHop(g)
    BY <1>1
  <2>2. graph' = graph
    BY <2>1, GraphStays
  <2>3. /\ chain' = [chain EXCEPT ![Root] = g] /\ Root \in Threads
        /\ chain[Root].at # "WORKFLOW_RESUMED" /\ g.at # "WORKFLOW_RESUMED"
    BY <2>1, ThreadNames DEF RootHop, RootAt
  <2>4. g.steps = {}
    BY <2>1 DEF RootHop, Frames, FrameShape
  <2>5. \A s \in Steps : Credit(g, s) <= Credit(chain[Root], s)
    BY <2>3, <2>4, CreditFalls
  <2> QED BY <2>2, <2>3, <2>5, ThreadPays
<1>2. ASSUME NEW t \in Threads, NEW g \in Frames, Quiet(t, g)
      PROVE  Paying
  <2>1. chain' = [chain EXCEPT ![t] = g] /\ graph' = graph
    BY <1>2 DEF Quiet, engineVars
  <2>2. /\ g.at # "WORKFLOW_RESUMED" /\ chain[t].at # "WORKFLOW_RESUMED"
        /\ \/ g.steps = {}
           \/ /\ g.steps = chain[t].steps /\ g.tries = chain[t].tries
              /\ Due(g) \subseteq Due(chain[t])
           \/ g.steps = chain[t].steps /\ g.tries = chain[t].tries + 1
    BY <1>2, SimpleFrames DEF Quiet
  <2>3. \A s \in Steps : Credit(g, s) <= Credit(chain[t], s)
    BY <2>2, CreditFalls
  <2> QED BY <2>1, <2>3, ThreadPays
<1>3. ASSUME NEW t \in Threads, NEW g \in Frames, HaltHop(t, g)
      PROVE  Paying
  <2>1. chain' = [chain EXCEPT ![t] = g]
    BY <1>3 DEF HaltHop
  <2>2. \A s \in Steps : graph'[s] = "PENDING" => graph[s] = "PENDING"
    <3>1. graph \in [Steps -> StepStatus]
      BY DEF SystemBase, TypeOK
    <3> QED BY <1>3, <3>1 DEF HaltHop, MarkStepStatus
  <2>3. \A s \in Steps : Credit(g, s) <= Credit(chain[t], s)
    <3>1. CASE g = Done
      BY <3>1, SimpleFrames, CreditRange
    <3>2. CASE chain[t].at = "DOCUMENT_MISSING" /\ g = Returned(chain[t])
      <4>1. CASE Todo(chain[t]) = {}
        BY <3>2, <4>1, SimpleFrames, CreditRange DEF Returned
      <4>2. CASE Todo(chain[t]) # {}
        <5>1. /\ g.steps = chain[t].steps /\ g.tries = chain[t].tries
              /\ g.at = "checklist" /\ Todo(g) = Todo(chain[t])
          BY <3>2, <4>2, ReturnedFrame
        <5>2. Due(g) \subseteq Due(chain[t])
          BY <5>1 DEF Due
        <5> QED BY <3>2, <5>1, <5>2, CreditFalls
      <4> QED BY <4>1, <4>2
    <3> QED BY <1>3, <3>1, <3>2 DEF HaltHop
  <2> QED BY <2>1, <2>2, <2>3, ThreadPays
<1>4. ASSUME NEW t \in Threads, NEW g \in Frames, NEW record,
             PollHop(t, g, record)
      PROVE  Paying
  <2>1. /\ chain' = [chain EXCEPT ![t] = g] /\ graph' = graph
        /\ g.steps = {} /\ chain[t].at # "WORKFLOW_RESUMED"
    BY <1>4 DEF PollHop, engineVars
  <2>2. g.at # "WORKFLOW_RESUMED"
    BY <1>4, SimpleFrames DEF PollHop
  <2>3. \A s \in Steps : Credit(g, s) <= Credit(chain[t], s)
    BY <2>1, <2>2, CreditFalls
  <2> QED BY <2>1, <2>3, ThreadPays
<1> QED BY <1>1, <1>2, <1>3, <1>4

LEMMA WatchPays ==
  ASSUME SystemBase, NEW t \in Threads, WatchHop(t)
  PROVE  Paying
<1> DEFINE p == Poll(chain[t].app)
           q == Polling(chain[t].step, chain[t].app)
<1>1. /\ chain[t].app \in 1..Len(applications) /\ chain[t].step \in Steps
      /\ chain'[t] = Returned(chain[t])
      /\ p \in Threads => chain'[p] = q
      /\ \A u \in Threads : u # t /\ u # p => chain'[u] = chain[u]
      /\ FramesTyped' /\ FramesTyped
      /\ graph' = graph /\ chain[t].at = "APPLICATION_SUBMITTED"
      /\ chain[t] \in Frames /\ chain'[t] \in Frames
  BY WatchMoves DEF SystemBase, WatchHop, engineVars, FramesTyped
<1>2. q.steps = {} /\ q.at = "polling" /\ q \in Frames
  BY <1>1, PollingFrame
<1>3. ASSUME NEW s \in Steps
      PROVE  Credit(chain'[t], s) <= Credit(chain[t], s)
  <2>1. CASE Todo(chain[t]) = {}
    BY <1>1, <2>1, SimpleFrames, CreditRange DEF Returned
  <2>2. CASE Todo(chain[t]) # {}
    <3>1. /\ chain'[t].steps = chain[t].steps
          /\ chain'[t].tries = chain[t].tries
          /\ chain'[t].at = "checklist" /\ Todo(chain'[t]) = Todo(chain[t])
      BY <1>1, <2>2, ReturnedFrame DEF LoopAt
    <3>2. Due(chain'[t]) \subseteq Due(chain[t])
      BY <3>1 DEF Due
    <3> QED BY <1>1, <3>1, <3>2, CreditFalls
  <2> QED BY <2>1, <2>2
<1> HIDE DEF p, q
<1>4. ASSUME NEW o \in Threads, NEW s \in Steps
      PROVE  Balances'[o][s] <= Balances[o][s]
  <2>1. Balances[o][s] \in 0..Attempts /\ Balances'[o][s] \in 0..Attempts
    BY <1>1, BalancesType DEF Owners
  <2>2. CASE o = t
    BY <1>3, <2>2, BalanceOf
  <2>3. CASE o = p
    <3>1. Balances'[o][s] = 0
      BY <1>1, <1>2, <2>3, BalanceOf, CreditRange
    <3> QED BY <2>1, <3>1, AttemptsType
  <2>4. CASE o # t /\ o # p
    <3>1. Balances'[o][s] = Balances[o][s]
      BY <1>1, <2>4, BalanceOf
    <3> QED BY <2>1, <3>1, AttemptsType
  <2> QED BY <2>2, <2>3, <2>4
<1>5. ASSUME NEW s \in Steps
      PROVE  Balances'[Shelf][s] <= Balances[Shelf][s]
  BY <1>1, BalanceOf, AttemptsType
<1> QED BY <1>4, <1>5 DEF Paying, Owners

\* The histories are finite, and counted.
LEMMA CountsType ==
  ASSUME HistoryTyped, NEW S \in SUBSET Steps
  PROVE  /\ IsFiniteSet(ApplicationsFor(S)) /\ IsFiniteSet(RetriesOf(S))
         /\ Cardinality(ApplicationsFor(S)) \in Nat
         /\ Cardinality(RetriesOf(S)) \in Nat
         /\ IsFiniteSet(S) /\ Cardinality(S) \in Nat
         /\ Cardinality(Tokens(Balances, S)) \in Nat
<1>1. Len(applications) \in Nat /\ Len(requests) \in Nat
  BY DEF HistoryTyped
<1>2. IsFiniteSet(1..Len(applications)) /\ IsFiniteSet(1..Len(requests))
  BY <1>1, FS_Interval
<1>3. /\ ApplicationsFor(S) \in SUBSET (1..Len(applications))
      /\ RetriesOf(S) \in SUBSET (1..Len(requests))
  BY DEF ApplicationsFor, RetriesOf
<1>4. /\ IsFiniteSet(ApplicationsFor(S)) /\ IsFiniteSet(RetriesOf(S))
      /\ IsFiniteSet(S)
  BY <1>2, <1>3, BoundsType, FS_Subset
<1> QED BY <1>4, FS_CardinalityType, TokensFinite

\* A failed write is worth one attempt of each step.
LEMMA AllowanceGrows ==
  ASSUME HistoryTyped, NEW S \in SUBSET Steps, NEW k \in Nat
  PROVE  /\ Allowance(S, k) \in Nat
         /\ Allowance(S, k + 1) = Allowance(S, k) + Attempts * Cardinality(S)
<1> DEFINE c == Cardinality(S)
           r == Cardinality(RetriesOf(S))
<1>1. c \in Nat /\ r \in Nat /\ Attempts \in Nat
  BY CountsType, AttemptsType
<1> HIDE DEF c, r
<1>2. c * (1 + k) + r \in Nat /\ c * (1 + (k + 1)) + r = (c * (1 + k) + r) + c
  BY <1>1
<1>3. \A a, x, y \in Nat : a * x \in Nat /\ a * (x + y) = a * x + a * y
  OBVIOUS
<1>4. /\ Attempts * (c * (1 + k) + r) \in Nat
      /\ Attempts * (c * (1 + (k + 1)) + r)
           = Attempts * (c * (1 + k) + r) + Attempts * c
  BY <1>1, <1>2, <1>3
<1> QED BY <1>4 DEF Allowance, c, r

\* A step that submits nothing and asks for nothing keeps the ledger if it
\* makes no token.
LEMMA LedgerKept ==
  ASSUME SystemBase, SystemBase', NEW S \in SUBSET Steps, NEW k \in Nat,
         Ledger(S, k),
         ApplicationsFor(S)' = ApplicationsFor(S), RetriesOf(S)' = RetriesOf(S),
         Cardinality(Tokens(Balances', S)) <= Cardinality(Tokens(Balances, S))
  PROVE  Ledger(S, k)'
<1>1. /\ Cardinality(ApplicationsFor(S)) \in Nat
      /\ Cardinality(RetriesOf(S)) \in Nat
      /\ Cardinality(S) \in Nat
      /\ Cardinality(Tokens(Balances, S)) \in Nat
  BY CountsType DEF SystemBase
<1>2. Cardinality(Tokens(Balances', S)) \in Nat
  BY TokensFinite
<1>3. Allowance(S, k) \in Nat /\ Allowance(S, k)' = Allowance(S, k)
  BY AllowanceGrows DEF SystemBase, Allowance
<1>4. Tokens(Balances, S)' = Tokens(Balances', S)
  BY DEF Tokens
<1> QED BY <1>1, <1>2, <1>3, <1>4 DEF Ledger

LEMMA PayingKeepsLedger ==
  ASSUME SystemBase, SystemBase', NEW S \in SUBSET Steps, NEW k \in Nat,
         Ledger(S, k),
         Paying, ApplicationsFor(S)' = ApplicationsFor(S), UNCHANGED requests
  PROVE  Ledger(S, k)'
<1>1. \A o \in Owners, s \in S :
        Balances[o][s] \in Nat /\ Balances'[o][s] \in Nat
  BY BalancesType, AttemptsType DEF SystemBase
<1>2. \A o \in Owners, s \in S : Balances'[o][s] <= Balances[o][s]
  BY DEF Paying
<1>3. Cardinality(Tokens(Balances', S)) <= Cardinality(Tokens(Balances, S))
  BY <1>1, <1>2, TokensFall
<1>4. RetriesOf(S)' = RetriesOf(S)
  BY DEF RetriesOf
<1> QED BY <1>3, <1>4, LedgerKept

\* A poll changes no application's step.
LEMMA PollKeepsApplications ==
  ASSUME SystemBase, NEW t \in Threads, NEW g \in Frames, NEW record,
         PollHop(t, g, record), NEW S
  PROVE  ApplicationsFor(S)' = ApplicationsFor(S)
<1> DEFINE a == chain[t].app
<1>1. CASE UNCHANGED applications
  BY <1>1 DEF ApplicationsFor
<1>2. CASE /\ applications' = [applications EXCEPT ![a] = record]
           /\ record = [applications[a] EXCEPT
                          !.asked = applications[a].asked + 1,
                          !.status = record.status]
  <2>1. a \in 1..Len(applications) /\ applications \in Seq(Application)
    BY DEF SystemBase, OwnApplications, Asking, PollHop, HistoryTyped
  <2>2. applications[a] \in Application
    BY <2>1
  <2>3. record.step = applications[a].step
    <3> DEFINE old == applications[a]
               k == old.asked + 1
               st == record.status
    <3>1. record = [old EXCEPT !.asked = k, !.status = st] /\ old \in Application
      BY <1>2, <2>2
    <3> HIDE DEF old, k, st
    <3> QED BY <3>1 DEF Application, old
  <2>4. /\ Len(applications') = Len(applications)
        /\ \A b \in 1..Len(applications) :
             applications'[b] = IF b = a THEN record ELSE applications[b]
    BY <1>2, <2>1
  <2> HIDE DEF a
  <2> QED BY <2>3, <2>4 DEF ApplicationsFor
<1> QED BY <1>1, <1>2 DEF PollHop

\* A submission is paid with one token of its step.
LEMMA SubmitKeepsLedger ==
  ASSUME SystemBase, SystemBase', NEW S \in SUBSET Steps, NEW k \in Nat,
         Ledger(S, k),
         NEW t \in Threads, NEW g \in Frames, SubmitHop(t, g)
  PROVE  Ledger(S, k)'
<1> DEFINE f == chain[t]
           r == f.step
           n == Len(applications)
<1>1. /\ FramesTyped /\ FramesTyped' /\ chain'[t] = g
      /\ \A u \in Threads : u # t => chain'[u] = chain[u]
      /\ f \in Frames /\ f.at = "APPLICATION_READY"
  BY OneThread DEF SystemBase, SubmitHop, FramesTyped
<1>2. r \in f.steps /\ r \in Steps
  BY <1>1 DEF Frames, FrameShape, Carried, LoopAt
<1>3. /\ g.at = "APPLICATION_SUBMITTED" /\ g.steps = f.steps
      /\ g.tries = f.tries /\ Todo(g) = Todo(f)
      /\ UNCHANGED <<graph, requests>>
  BY DEF SubmitHop, engineVars
<1>4. PICK scenario \in Scenarios :
        applications' = Append(applications, Submitted(r, scenario))
  BY DEF SubmitHop
<1>5. /\ n \in Nat /\ Len(applications') = n + 1
      /\ applications'[n + 1].step = r
      /\ \A a \in 1..n : applications'[a] = applications[a]
  <2>1. applications \in Seq(Application)
    BY DEF SystemBase, HistoryTyped
  <2>2. Submitted(r, scenario).step = r
    BY DEF Submitted
  <2> QED BY <1>4, <2>1, <2>2
<1>6. RetriesOf(S)' = RetriesOf(S)
  BY <1>3 DEF RetriesOf
<1>7. \A o \in Owners, s \in S :
        Balances[o][s] \in Nat /\ Balances'[o][s] \in Nat
  BY <1>1, BalancesType, AttemptsType
<1>8. Due(g) = Todo(f) /\ Due(f) = Todo(f) \cup {r} /\ r \notin Todo(f)
  BY <1>1, <1>3, WorkingFacts DEF Due
<1>9. f.tries \in 0..(Attempts - 1) /\ Attempts \in Nat \ {0}
  BY <1>1, AttemptsType DEF Frames, Carried
<1> HIDE DEF f, r
<1>10. ASSUME NEW s \in Steps
       PROVE  /\ s # r => Credit(g, s) = Credit(f, s)
              /\ s = r => /\ Credit(f, s) \in 1..Attempts
                          /\ Credit(g, s) < Credit(f, s)
  BY <1>1, <1>2, <1>3, <1>8, <1>9 DEF Credit
<1>11. \A o \in Threads, s \in Steps :
         o # t \/ s # r => Balances'[o][s] = Balances[o][s]
  BY <1>1, <1>10, BalanceOf DEF f
<1>12. \A s \in Steps : Balances'[Shelf][s] = Balances[Shelf][s]
  BY <1>3, BalanceOf
<1>13. Balances[t][r] \in 1..Attempts /\ Balances'[t][r] < Balances[t][r]
  BY <1>1, <1>2, <1>10, BalanceOf DEF f
<1>14. \A o \in Owners, s \in S : Balances'[o][s] <= Balances[o][s]
  BY <1>7, <1>9, <1>11, <1>12, <1>13 DEF Owners
<1>15. CASE r \notin S
  <2>1. ApplicationsFor(S)' = ApplicationsFor(S)
    BY <1>5, <1>15 DEF ApplicationsFor, n
  <2>2. Cardinality(Tokens(Balances', S)) <= Cardinality(Tokens(Balances, S))
    BY <1>7, <1>14, TokensFall
  <2> QED BY <1>6, <2>1, <2>2, LedgerKept
<1>16. CASE r \in S
  <2>1. /\ ApplicationsFor(S)' = ApplicationsFor(S) \cup {n + 1}
        /\ n + 1 \notin ApplicationsFor(S)
    BY <1>5, <1>16 DEF ApplicationsFor, n
  <2>2. t \in Owners
    BY DEF Owners
  <2>3. Cardinality(Tokens(Balances', S)) + 1 <= Cardinality(Tokens(Balances, S))
    BY <1>7, <1>13, <1>14, <1>16, <2>2, TokenSpent
  <2>4. /\ IsFiniteSet(ApplicationsFor(S))
        /\ Cardinality(ApplicationsFor(S)) \in Nat
        /\ Cardinality(RetriesOf(S)) \in Nat
        /\ Cardinality(S) \in Nat
        /\ Cardinality(Tokens(Balances, S)) \in Nat
        /\ Cardinality(Tokens(Balances', S)) \in Nat
    BY CountsType, TokensFinite DEF SystemBase
  <2>5. Cardinality(ApplicationsFor(S)') = Cardinality(ApplicationsFor(S)) + 1
    BY <2>1, <2>4, FS_AddElement
  <2>6. Allowance(S, k) \in Nat /\ Allowance(S, k)' = Allowance(S, k)
    BY <1>6, AllowanceGrows DEF SystemBase, Allowance
  <2>7. Tokens(Balances, S)' = Tokens(Balances', S)
    BY DEF Tokens
  <2> QED BY <1>6, <2>3, <2>4, <2>5, <2>6, <2>7 DEF Ledger
<1> QED BY <1>15, <1>16

\* A claim moves the credit of the steps it claims from the shelf to the
\* thread, and that of a retried step that is not ready the other way.
LEMMA ClaimKeepsLedger ==
  ASSUME SystemBase, SystemBase', NEW S \in SUBSET Steps, NEW k \in Nat,
         Ledger(S, k),
         NEW t \in Threads, NEW m \in [Steps -> StepStatus], ClaimHop(t, m)
  PROVE  Ledger(S, k)'
<1> DEFINE f == chain[t]
           g == Published(NextActionEvent(ReadySteps(m)))
           from == [s \in Steps |-> IF graph[s] = "PENDING" THEN Shelf ELSE t]
<1>1. /\ ReadySteps(m) \in SUBSET Steps
      /\ \A s \in ReadySteps(m) : m[s] = "PENDING"
  BY DEF ReadySteps, PendingStepIds, StepsWith
<1>2. /\ g \in Frames /\ g.steps = ReadySteps(m) /\ g.tries = 0
      /\ g.at = IF ReadySteps(m) = {} THEN "done" ELSE "NEXT_ACTION_TRIGGERED"
  BY <1>1, PublishedFrame
<1>3. chain' = [chain EXCEPT ![t] = g]
  BY DEF ClaimHop
<1> HIDE DEF g
<1>4. /\ FramesTyped /\ FramesTyped' /\ chain'[t] = g /\ f \in Frames
      /\ \A u \in Threads : u # t => chain'[u] = chain[u]
  BY <1>2, <1>3, OneThread DEF SystemBase, FramesTyped
<1>5. ASSUME NEW s \in Steps
      PROVE  graph'[s] = IF s \in ReadySteps(m) THEN "RUNNING" ELSE m[s]
  BY DEF ClaimHop, ClaimReadySteps
<1>6. /\ Balances[t] = Balances[t] /\ t \in Owners /\ Shelf \in Owners
      /\ t # Shelf
  BY BalanceOf DEF Owners
\* A step that is pending once the graph is marked was so before, or is the
\* one this thread asks to retry.
<1>7. ASSUME NEW s \in Steps, m[s] = "PENDING"
      PROVE  Balances[from[s]][s] = Attempts
  <2>1. CASE graph[s] = "PENDING"
    BY <2>1, BalanceOf
  <2>2. CASE graph[s] # "PENDING"
    <3>1. /\ graph \in [Steps -> StepStatus]
      BY DEF SystemBase, TypeOK
    <3>2. /\ f.at = "WORKFLOW_RESUMED" /\ f.step = s /\ f.action = "retry"
      BY <1>7, <2>2, <3>1 DEF ClaimHop, MarkStepStatus
    <3>3. Credit(f, s) = Attempts
      BY <3>2 DEF Credit
    <3> QED BY <2>2, <3>3, BalanceOf
  <2> QED BY <2>1, <2>2
<1>8. ASSUME NEW s \in Steps
      PROVE  /\ Balances'[t][s] = IF s \in ReadySteps(m) THEN Attempts ELSE 0
             /\ Balances'[Shelf][s] =
                  IF m[s] = "PENDING" /\ s \notin ReadySteps(m)
                  THEN Attempts ELSE 0
  <2>1. Balances'[t][s] = Credit(g, s)
    BY <1>4, BalanceOf
  <2>2. s \in ReadySteps(m) => Credit(g, s) = Attempts
    BY <1>2, CreditRange
  <2>3. s \notin ReadySteps(m) => Credit(g, s) = 0
    BY <1>2 DEF Credit
  <2> QED BY <1>5, <2>1, <2>2, <2>3, BalanceOf
<1>9. \A o \in Owners, s \in S :
        Balances[o][s] \in 0..Attempts /\ Balances'[o][s] \in 0..Attempts
  BY <1>4, BalancesType
<1>10. from \in [Steps -> {t, Shelf}]
  OBVIOUS
<1>11. ASSUME NEW o \in Owners \ {t, Shelf}, NEW s \in S
       PROVE  Balances'[o][s] <= Balances[o][s]
  <2>1. Balances'[o][s] = Balances[o][s]
    BY <1>4, BalanceOf DEF Owners
  <2> QED BY <1>9, <2>1, AttemptsType
<1> HIDE DEF from
<1>12. \A s \in S : Balances'[t][s] = 0 \/ Balances'[Shelf][s] = 0
  BY <1>8
<1>13. ASSUME NEW s \in S
       PROVE  /\ Balances'[t][s] <= Balances[from[s]][s]
              /\ Balances'[Shelf][s] <= Balances[from[s]][s]
  <2>1. from[s] \in Owners
    BY <1>6, <1>10
  <2>2. CASE m[s] = "PENDING"
    BY <1>7, <1>8, <2>2, AttemptsType
  <2>3. CASE m[s] # "PENDING"
    <3>1. Balances'[t][s] = 0 /\ Balances'[Shelf][s] = 0
      BY <1>1, <1>8, <2>3
    <3> QED BY <1>9, <2>1, <3>1, AttemptsType
  <2> QED BY <2>2, <2>3
<1>14. \A o \in Owners, s \in S :
         Balances[o][s] \in Nat /\ Balances'[o][s] \in Nat
  BY <1>9, AttemptsType
<1>15. Cardinality(Tokens(Balances', S)) <= Cardinality(Tokens(Balances, S))
  BY <1>10, <1>11, <1>12, <1>13, <1>14, TokensMoved
<1>16. /\ ApplicationsFor(S)' = ApplicationsFor(S)
       /\ RetriesOf(S)' = RetriesOf(S)
  BY DEF ClaimHop, ApplicationsFor, RetriesOf
<1> QED BY <1>15, <1>16, LedgerKept

\* A request to retry a step pays for its submissions.
LEMMA UserKeepsLedger ==
  ASSUME SystemBase, SystemBase', NEW S \in SUBSET Steps, NEW k \in Nat,
         Ledger(S, k),
         NEW r \in Steps \cup {NoStep}, NEW action \in {"retry", "abandon"},
         UserHop(r, action)
  PROVE  Ledger(S, k)'
<1> DEFINE n == Len(requests)
           t == Resume(n + 1)
<1>1. /\ t \in Threads /\ chain[t].at = "idle"
      /\ chain'[t] = Resumed(r, action)
      /\ \A u \in Threads : u # t => chain'[u] = chain[u]
      /\ FramesTyped /\ FramesTyped' /\ UNCHANGED <<graph, applications>>
  BY RequestMoves DEF SystemBase, UserHop, engineVars
<1>2. /\ n \in Nat /\ Len(requests') = n + 1
      /\ requests'[n + 1].step = r /\ requests'[n + 1].action = action
      /\ \A a \in 1..n : requests'[a] = requests[a]
  <2>1. requests \in Seq(Request)
    BY DEF SystemBase, HistoryTyped
  <2>2. requests' = Append(requests, [step |-> r, action |-> action])
    BY DEF UserHop
  <2> QED BY <2>1, <2>2
<1>3. /\ chain'[t].at = "WORKFLOW_RESUMED" /\ chain'[t].step = r
      /\ chain'[t].action = action
  BY <1>1, ResumedFrame
<1> HIDE DEF t
<1>4. ASSUME NEW s \in Steps
      PROVE  Balances'[t][s] = IF r = s /\ action = "retry" THEN Attempts ELSE 0
  BY <1>1, <1>3, BalanceOf DEF Credit
<1>5. \A o \in Owners, s \in S :
        Balances[o][s] \in 0..Attempts /\ Balances'[o][s] \in 0..Attempts
  BY <1>1, BalancesType
<1>6. \A o \in Owners, s \in S :
        Balances[o][s] \in Nat /\ Balances'[o][s] \in Nat
  BY <1>5, AttemptsType
<1>7. ASSUME NEW o \in Owners, NEW s \in S,
             o # t \/ s # r \/ action # "retry"
      PROVE  Balances'[o][s] <= Balances[o][s]
  <2>1. CASE o = t
    <3>1. Balances'[o][s] = 0
      BY <1>4, <1>7, <2>1
    <3> QED BY <1>5, <3>1, AttemptsType
  <2>2. CASE o # t
    <3>1. Balances'[o][s] = Balances[o][s]
      BY <1>1, <2>2, BalanceOf DEF Owners
    <3> QED BY <1>6, <3>1
  <2> QED BY <2>1, <2>2
<1>8. ApplicationsFor(S)' = ApplicationsFor(S)
  BY <1>1 DEF ApplicationsFor
<1>9. CASE r \notin S \/ action # "retry"
  <2>1. RetriesOf(S)' = RetriesOf(S)
    BY <1>2, <1>9 DEF RetriesOf, n
  <2>2. \A o \in Owners, s \in S : Balances'[o][s] <= Balances[o][s]
    BY <1>7, <1>9
  <2>3. Cardinality(Tokens(Balances', S)) <= Cardinality(Tokens(Balances, S))
    BY <1>6, <2>2, TokensFall
  <2> QED BY <1>8, <2>1, <2>3, LedgerKept
<1>10. CASE r \in S /\ action = "retry"
  <2>1. RetriesOf(S)' = RetriesOf(S) \cup {n + 1} /\ n + 1 \notin RetriesOf(S)
    BY <1>2, <1>10 DEF RetriesOf, n
  <2>2. t \in Owners
    BY <1>1 DEF Owners
  <2>3. \A o \in Owners, s \in S :
          o # t \/ s # r => Balances'[o][s] <= Balances[o][s]
    BY <1>7
  <2>4. Cardinality(Tokens(Balances', S))
          <= Cardinality(Tokens(Balances, S)) + Attempts
    BY <1>6, <1>10, <2>2, <2>3, TokensAdded
  <2>5. /\ IsFiniteSet(RetriesOf(S))
        /\ Cardinality(ApplicationsFor(S)) \in Nat
        /\ Cardinality(RetriesOf(S)) \in Nat
        /\ Cardinality(S) \in Nat
        /\ Cardinality(Tokens(Balances, S)) \in Nat
        /\ Cardinality(Tokens(Balances', S)) \in Nat
    BY CountsType, TokensFinite DEF SystemBase
  <2>6. Cardinality(RetriesOf(S)') = Cardinality(RetriesOf(S)) + 1
    BY <2>1, <2>5, FS_AddElement
  <2> DEFINE x == Cardinality(S) * (1 + k) + Cardinality(RetriesOf(S))
  <2>7. /\ x \in Nat /\ Attempts * x \in Nat
        /\ Attempts * (x + 1) = Attempts * x + Attempts
    BY <2>5, AttemptsType
  <2>8. Cardinality(S) * (1 + k) + Cardinality(RetriesOf(S)') = x + 1
    BY <2>5, <2>6
  <2>9. Tokens(Balances, S)' = Tokens(Balances', S)
    BY DEF Tokens
  <2>10. /\ Cardinality(ApplicationsFor(S)) + Cardinality(Tokens(Balances, S))
              <= Attempts * x
         /\ Ledger(S, k)' <=>
              Cardinality(ApplicationsFor(S)) + Cardinality(Tokens(Balances', S))
                <= Attempts * (x + 1)
    BY <1>8, <2>8, <2>9 DEF Ledger, Allowance
  <2> HIDE DEF x
  <2> QED BY <2>4, <2>5, <2>7, <2>10, AttemptsType
<1> QED BY <1>9, <1>10

LEMMA NextKeepsLedger ==
  ASSUME SystemBase, [SystemNext]_vars,
         NEW S \in SUBSET Steps, NEW k \in Nat, Ledger(S, k)
  PROVE  Ledger(S, k)'
<1>1. SystemBase /\ SystemBase'
  BY NextKeepsBase
<1>2. CASE UNCHANGED vars
  BY <1>2 DEF vars, engineVars, Ledger, Allowance, ApplicationsFor, RetriesOf,
                    Tokens, Balances, Credit
<1>3. ASSUME NEW g \in Frames, RootHop(g)
      PROVE  Ledger(S, k)'
  <2>1. Paying
    BY <1>1, <1>3, QuietStepsPay
  <2>2. ApplicationsFor(S)' = ApplicationsFor(S) /\ UNCHANGED requests
    BY <1>3 DEF RootHop, ApplicationsFor
  <2> QED BY <1>1, <2>1, <2>2, PayingKeepsLedger
<1>4. ASSUME NEW t \in Threads, NEW g \in Frames, Quiet(t, g) \/ HaltHop(t, g)
      PROVE  Ledger(S, k)'
  <2>1. Paying
    BY <1>1, <1>4, QuietStepsPay
  <2>2. ApplicationsFor(S)' = ApplicationsFor(S) /\ UNCHANGED requests
    BY <1>4 DEF Quiet, HaltHop, ApplicationsFor
  <2> QED BY <1>1, <2>1, <2>2, PayingKeepsLedger
<1>5. ASSUME NEW t \in Threads, NEW g \in Frames, NEW record,
             PollHop(t, g, record)
      PROVE  Ledger(S, k)'
  <2>1. Paying
    BY <1>1, <1>5, QuietStepsPay
  <2>2. ApplicationsFor(S)' = ApplicationsFor(S)
    BY <1>1, <1>5, PollKeepsApplications
  <2>3. UNCHANGED requests
    BY <1>5 DEF PollHop
  <2> QED BY <1>1, <2>1, <2>2, <2>3, PayingKeepsLedger
<1>6. ASSUME NEW t \in Threads, WatchHop(t)
      PROVE  Ledger(S, k)'
  <2>1. Paying
    BY <1>1, <1>6, WatchPays
  <2>2. ApplicationsFor(S)' = ApplicationsFor(S) /\ UNCHANGED requests
    BY <1>6 DEF WatchHop, ApplicationsFor
  <2> QED BY <1>1, <2>1, <2>2, PayingKeepsLedger
<1>7. ASSUME NEW t \in Threads, NEW g \in Frames, SubmitHop(t, g)
      PROVE  Ledger(S, k)'
  BY <1>1, <1>7, SubmitKeepsLedger
<1>8. ASSUME NEW t \in Threads, NEW m \in [Steps -> StepStatus],
             ClaimHop(t, m)
      PROVE  Ledger(S, k)'
  BY <1>1, <1>8, ClaimKeepsLedger
<1>9. ASSUME NEW s \in Steps \cup {NoStep},
             NEW action \in {"retry", "abandon"}, UserHop(s, action)
      PROVE  Ledger(S, k)'
  BY <1>1, <1>9, UserKeepsLedger
<1>10. ASSUME SystemNext PROVE Ledger(S, k)'
  BY <1>1, <1>3, <1>4, <1>5, <1>6, <1>7, <1>8, <1>9, <1>10, SystemHops
<1> QED BY <1>2, <1>10

LEMMA NextKeepsLedgers ==
  ASSUME LedgerInvariant, [SystemNext]_vars
  PROVE  LedgerInvariant'
BY NextKeepsBase, NextKeepsLedger DEF LedgerInvariant

LEMMA InitLedger == SystemInit => LedgerInvariant
<1> SUFFICES ASSUME SystemInit PROVE LedgerInvariant
  OBVIOUS
<1>1. SystemBase
  BY InitBase
<1>2. /\ applications = << >> /\ requests = << >>
      /\ \A s \in Steps : graph[s] = "PENDING"
      /\ \A t \in Threads :
           chain[t].steps = {} /\ chain[t].at # "WORKFLOW_RESUMED"
  BY DEF SystemInit, Init, InitialGraph, Handling, Idle
<1>3. ASSUME NEW S \in SUBSET Steps
      PROVE  Ledger(S, 0)
  <2>1. ApplicationsFor(S) = {} /\ RetriesOf(S) = {}
    BY <1>2 DEF ApplicationsFor, RetriesOf
  <2>2. /\ IsFiniteSet(S) /\ Cardinality(S) \in Nat
        /\ Cardinality(Tokens(Balances, S)) \in Nat
    BY <1>1, CountsType DEF SystemBase
  <2>3. \A o \in Threads, s \in S : Balances[o][s] = 0
    BY <1>1, <1>2, BalanceOf, CreditRange DEF SystemBase, FramesTyped
  <2>4. ASSUME NEW x \in Tokens(Balances, S)
        PROVE  x \in {Shelf} \X (S \X (1..Attempts))
    <3>1. /\ x \in Owners \X (S \X (1..Attempts))
          /\ x[2][2] <= Balances[x[1]][x[2][1]]
      BY DEF Tokens
    <3>2. x[1] \in Owners /\ x[2][1] \in S /\ x[2][2] \in 1..Attempts
      BY <3>1
    <3>3. x[1] \notin Threads
      BY <2>3, <3>1, <3>2
    <3> QED BY <3>1, <3>2, <3>3 DEF Owners
  <2> DEFINE All == {Shelf} \X (S \X (1..Attempts))
  <2>5. IsFiniteSet(All) /\ Cardinality(All) = 1 * (Cardinality(S) * Attempts)
    <3>1. IsFiniteSet(1..Attempts) /\ Cardinality(1..Attempts) = Attempts
      BY AttemptsType, FS_Interval
    <3>2. /\ IsFiniteSet(S \X (1..Attempts))
          /\ Cardinality(S \X (1..Attempts)) = Cardinality(S) * Attempts
      BY <2>2, <3>1, FS_Product
    <3>3. IsFiniteSet({Shelf}) /\ Cardinality({Shelf}) = 1
      BY FS_Singleton
    <3> QED BY <3>2, <3>3, FS_Product
  <2>6. Tokens(Balances, S) \in SUBSET All
    BY <2>4
  <2> HIDE DEF All
  <2>7. Cardinality(Tokens(Balances, S)) <= 1 * (Cardinality(S) * Attempts)
    BY <2>5, <2>6, FS_Subset
  <2>8. /\ Cardinality(ApplicationsFor(S)) = 0
        /\ Cardinality(RetriesOf(S)) = 0
    BY <2>1, FS_EmptySet
  <2>9. /\ 1 * (Cardinality(S) * Attempts) = Attempts * Cardinality(S)
        /\ Attempts * (Cardinality(S) * (1 + 0) + 0)
             = Attempts * Cardinality(S)
        /\ Attempts * Cardinality(S) \in Nat
    BY <2>2, AttemptsType
  <2> QED BY <2>2, <2>7, <2>8, <2>9 DEF Ledger, Allowance
<1> QED BY <1>1, <1>3 DEF LedgerInvariant

\* For any set of steps, what has been submitted for them and what may still
\* be is paid for by their number and the requests to retry them.
THEOREM LedgerCorrect == SystemSpec => []LedgerInvariant
BY InitLedger, NextKeepsLedgers, PTL DEF SystemSpec

\* What the ledger says of a single step.
LEMMA AllowanceOfStep ==
  ASSUME HistoryTyped, NEW s \in Steps, NEW k \in Nat
  PROVE  /\ ApplicationsFor({s}) = Applied(s)
         /\ Allowance({s}, k) = Attempts * (1 + k + Cardinality(Retries(s)))
<1>1. ApplicationsFor({s}) = Applied(s)
  BY DEF ApplicationsFor, Applied
<1>2. RetriesOf({s}) = Retries(s)
  <2>1. \A r \in 1..Len(requests) : requests[r] \in Request
    BY DEF HistoryTyped
  <2>2. \A q \in Request : q = [step |-> s, action |-> "retry"] <=>
                             q.action = "retry" /\ q.step \in {s}
    BY DEF Request
  <2> QED BY <2>1, <2>2 DEF RetriesOf, Retries
<1>3. Cardinality({s}) = 1
  BY FS_Singleton
<1>4. 1 * (1 + k) = 1 + k
  OBVIOUS
<1> QED BY <1>1, <1>2, <1>3, <1>4 DEF Allowance

\* The part of the ledger that is about what has been submitted.
LEMMA LedgerBounds ==
  ASSUME HistoryTyped, NEW S \in SUBSET Steps, NEW k \in Nat, Ledger(S, k)
  PROVE  Cardinality(ApplicationsFor(S)) <= Allowance(S, k)
BY CountsType, AllowanceGrows DEF Ledger

LEMMA LedgerAuthorises == LedgerInvariant => SubmissionsAuthorised
<1> SUFFICES ASSUME LedgerInvariant, NEW s \in Steps
             PROVE  Cardinality(Applied(s)) <=
                      Attempts * (1 + Cardinality(Retries(s)))
  BY DEF SubmissionsAuthorised
<1>1. Ledger({s}, 0) /\ HistoryTyped
  BY DEF LedgerInvariant, SystemBase
<1>2. Cardinality(Applied(s)) <= Attempts * (1 + 0 + Cardinality(Retries(s)))
  BY <1>1, AllowanceOfStep, LedgerBounds
<1> QED BY <1>2

\* Whatever races and repetitions there are, no step is submitted oftener
\* than once, plus once per request to retry it, each time at most once per
\* attempt of the handler.
THEOREM SubmissionsPaid == SystemSpec => []SubmissionsAuthorised
BY LedgerCorrect, LedgerAuthorises, PTL

----------------------------------------------------------------------------
(* The types.  They are the last thing to be proved and not the first: that  *)
(* applications have a bound follows from the ledger, and that completions   *)
(* have one, from each being the work of one polling task, done once.        *)

\* The polling tasks that have got their verdict, and handled it if it was an
\* approval.
Settled ==
  {a \in 1..MaxApplications :
     chain[Poll(a)].at \notin {"idle", "polling", "APPLICATION_APPROVED"}}

CompletionsPaid == completions <= Cardinality(Settled)

SmallTypes ==
  /\ finding \in Findings \cup {"none"}
  /\ gateStep \in Steps \cup {NoStep}

LEMMA ApplicationsBounded ==
  ASSUME HistoryTyped, NEW k \in 0..MaxRedone,
         Cardinality(ApplicationsFor(Steps)) <= Allowance(Steps, k)
  PROVE  Len(applications) \in Nat /\ Len(applications) <= MaxApplications
<1>1. /\ Len(applications) \in Nat
      /\ Len(requests) \in Nat /\ Len(requests) <= MaxRequests
      /\ \A a \in 1..Len(applications) : applications[a].step \in Steps
  <2>1. /\ applications \in Seq(Application)
        /\ requests \in Seq(Request) /\ Len(requests) <= MaxRequests
    BY DEF HistoryTyped
  <2>2. /\ Len(applications) \in Nat /\ Len(requests) \in Nat
        /\ \A a \in 1..Len(applications) : applications[a] \in Application
    BY <2>1
  <2>3. \A a \in 1..Len(applications) : applications[a].step \in Steps
    BY <2>2 DEF Application
  <2> QED BY <2>1, <2>2, <2>3
<1>2. /\ Cardinality(ApplicationsFor(Steps)) \in Nat
      /\ Cardinality(RetriesOf(Steps)) \in Nat
      /\ Cardinality(Steps) \in Nat
  BY <1>1, CountsType
<1>3. ApplicationsFor(Steps) = 1..Len(applications)
  BY <1>1 DEF ApplicationsFor
<1>4. Cardinality(ApplicationsFor(Steps)) = Len(applications)
  BY <1>1, <1>3, CountTo
<1>5. Cardinality(RetriesOf(Steps)) <= MaxRequests
  <2>1. RetriesOf(Steps) \in SUBSET (1..Len(requests))
    BY DEF RetriesOf
  <2>2. /\ IsFiniteSet(1..Len(requests))
        /\ Cardinality(1..Len(requests)) = Len(requests)
    BY <1>1, CountTo
  <2>3. Cardinality(RetriesOf(Steps)) <= Len(requests)
    BY <2>1, <2>2, FS_Subset
  <2> QED BY <1>1, <1>2, <2>3, GovFlowAssumption DEF GovFlowAssumption
<1> DEFINE some == Cardinality(Steps) * (1 + k) + Cardinality(RetriesOf(Steps))
           most == Cardinality(Steps) * (1 + k) + MaxRequests
<1>6. some \in Nat /\ most \in Nat /\ some <= most /\ Attempts \in Nat
  <2>1. Cardinality(Steps) * (1 + k) \in Nat /\ MaxRequests \in Nat
    BY <1>2, GovFlowAssumption DEF GovFlowAssumption
  <2> QED BY <1>2, <1>5, <2>1, AttemptsType
<1>7. Attempts * most <= MaxApplications
  BY BoundsType
<1>8. Cardinality(ApplicationsFor(Steps)) <= Attempts * some
  BY DEF Allowance
<1> HIDE DEF some, most
<1>9. Attempts * some <= Attempts * most
  <2>1. \A a, x, y \in Nat : x <= y => a * x <= a * y
    OBVIOUS
  <2> QED BY <1>6, <2>1
<1>10. Attempts * some \in Nat /\ Attempts * most \in Nat
  BY <1>6
<1> QED BY <1>1, <1>4, <1>7, <1>8, <1>9, <1>10, BoundsType

LEMMA LedgerCovers ==
  ASSUME LedgerInvariant
  PROVE  /\ Cardinality(ApplicationsFor(Steps)) <= Allowance(Steps, 0)
         /\ 0 \in 0..MaxRedone
         /\ Len(applications) \in Nat /\ Len(applications) <= MaxApplications
<1>1. HistoryTyped /\ Ledger(Steps, 0)
  BY DEF LedgerInvariant, SystemBase
<1>2. 0 \in 0..MaxRedone
  BY GovFlowAssumption DEF GovFlowAssumption, MaxRedone
<1>3. Cardinality(ApplicationsFor(Steps)) <= Allowance(Steps, 0)
  BY <1>1, LedgerBounds
<1> QED BY <1>1, <1>2, <1>3, ApplicationsBounded

LEMMA SettledFinite ==
  /\ IsFiniteSet(Settled) /\ Cardinality(Settled) \in Nat
  /\ Cardinality(Settled) <= MaxApplications
<1>1. /\ IsFiniteSet(1..MaxApplications)
      /\ Cardinality(1..MaxApplications) = MaxApplications
  BY BoundsType, CountTo
<1>2. Settled \in SUBSET (1..MaxApplications)
  BY DEF Settled
<1> QED BY <1>1, <1>2, FS_Subset, FS_CardinalityType

\* Which events a step leaves its thread at.
LEMMA WhereThreadsGo ==
  ASSUME SystemBase, NEW t \in Threads, NEW g \in Frames,
         Quiet(t, g) \/ SubmitHop(t, g) \/ HaltHop(t, g)
  PROVE  g.at \notin {"idle", "polling", "APPLICATION_APPROVED"}
<1>1. CASE Quiet(t, g) \/ SubmitHop(t, g)
  BY <1>1 DEF Quiet, SubmitHop
<1>2. CASE HaltHop(t, g)
  <2>1. CASE g = Done
    BY <2>1, SimpleFrames
  <2>2. CASE chain[t].at = "DOCUMENT_MISSING" /\ g = Returned(chain[t])
    BY <2>2, ReturnedFrame, ApplicationFacts
  <2> QED BY <1>2, <2>1, <2>2 DEF HaltHop
<1> QED BY <1>1, <1>2

\* A polling task is started once and asks for one verdict: once settled, it
\* stays so.
LEMMA SettledStays ==
  ASSUME SystemBase, [SystemNext]_vars
  PROVE  /\ Settled \subseteq Settled'
         /\ \/ completions' = completions
            \/ /\ completions' = completions + 1
               /\ \E a \in Settled' : a \notin Settled
<1> DEFINE Calm == {"idle", "polling", "APPLICATION_APPROVED"}
           Stays == \A a \in 1..MaxApplications :
                      chain[Poll(a)].at \notin Calm =>
                        chain'[Poll(a)].at \notin Calm
           Grows == \/ completions' = completions
                    \/ /\ completions' = completions + 1
                       /\ \E a \in 1..MaxApplications :
                            /\ chain[Poll(a)].at = "APPLICATION_APPROVED"
                            /\ chain'[Poll(a)].at \notin Calm
<1>1. \A a \in 1..MaxApplications : Poll(a) \in Threads /\ Poll(a) # Root
  BY PollThreads
<1>2. ASSUME UNCHANGED vars PROVE Stays /\ Grows
  <2>1. chain' = chain /\ completions' = completions
    BY <1>2 DEF vars
  <2> QED BY <2>1
<1>3. ASSUME NEW g \in Frames, RootHop(g)
      PROVE  Stays /\ Grows
  <2>1. /\ Root \in Threads /\ chain' = [chain EXCEPT ![Root] = g]
        /\ completions' = completions
    BY <1>3, ThreadNames DEF RootHop
  <2>2. \A u \in Threads : u # Root => chain'[u] = chain[u]
    BY <2>1, OneThread DEF SystemBase
  <2> QED BY <1>1, <2>1, <2>2
<1>4. ASSUME NEW t \in Threads, NEW g \in Frames,
             Quiet(t, g) \/ SubmitHop(t, g) \/ HaltHop(t, g)
      PROVE  Stays /\ Grows
  <2>1. chain' = [chain EXCEPT ![t] = g] /\ completions' = completions
    BY <1>4 DEF Quiet, SubmitHop, HaltHop
  <2>2. /\ chain'[t] = g
        /\ \A u \in Threads : u # t => chain'[u] = chain[u]
    BY <2>1, OneThread DEF SystemBase
  <2>3. g.at \notin Calm
    BY <1>4, WhereThreadsGo
  <2> QED BY <1>1, <2>1, <2>2, <2>3
<1>5. ASSUME NEW t \in Threads, WatchHop(t)
      PROVE  Stays /\ Grows
  <2>1. /\ chain'[t].at \in {"done", "checklist"}
        /\ Poll(chain[t].app) \in Threads => chain[Poll(chain[t].app)].at = "idle"
        /\ \A u \in Threads :
             u # t /\ u # Poll(chain[t].app) => chain'[u] = chain[u]
        /\ completions' = completions
    BY <1>5, WatchMoves DEF WatchHop
  <2> QED BY <1>1, <2>1
<1>6. ASSUME NEW t \in Threads, NEW g \in Frames, NEW record,
             PollHop(t, g, record)
      PROVE  Stays /\ Grows
  <2>1. /\ chain' = [chain EXCEPT ![t] = g] /\ completions' = completions
        /\ chain[t].at = "polling"
    BY <1>6 DEF PollHop
  <2>2. \A u \in Threads : u # t => chain'[u] = chain[u]
    BY <2>1, OneThread DEF SystemBase
  <2> QED BY <1>1, <2>1, <2>2
<1>7. ASSUME NEW t \in Threads, NEW m \in [Steps -> StepStatus], ClaimHop(t, m)
      PROVE  Stays /\ Grows
  <2>1. /\ chain'[t].at \in {"done", "NEXT_ACTION_TRIGGERED"}
        /\ \A u \in Threads : u # t => chain'[u] = chain[u]
    BY <1>7, WorkClaimed
  <2>2. \/ completions' = completions
        \/ /\ completions' = completions + 1
           /\ chain[t].at = "APPLICATION_APPROVED"
    BY <1>7 DEF ClaimHop
  <2>3. chain[t].at = "APPLICATION_APPROVED" =>
          \E a \in 1..MaxApplications : t = Poll(a)
    BY DEF SystemBase, Roles, VerdictAt, Polls
  <2> QED BY <1>1, <2>1, <2>2, <2>3
<1>8. ASSUME NEW s \in Steps \cup {NoStep}, NEW action \in {"retry", "abandon"},
             UserHop(s, action)
      PROVE  Stays /\ Grows
  <2> DEFINE t == Resume(Len(requests) + 1)
  <2>1. /\ chain'[t].at = "WORKFLOW_RESUMED"
        /\ \A u \in Threads : u # t => chain'[u] = chain[u]
    BY <1>8, RequestMoves
  <2>2. completions' = completions
    BY <1>8 DEF UserHop
  <2> HIDE DEF t
  <2> QED BY <1>1, <2>1, <2>2
<1>9. Stays /\ Grows
  <2> HIDE DEF Stays, Grows
  <2>1. CASE UNCHANGED vars
    BY <1>2, <2>1
  <2>2. ASSUME SystemNext PROVE Stays /\ Grows
    BY <1>3, <1>4, <1>5, <1>6, <1>7, <1>8, <2>2, SystemHops
  <2> QED BY <2>1, <2>2
<1> QED BY <1>9 DEF Settled

LEMMA NextKeepsCompletionsPaid ==
  ASSUME SystemBase, CompletionsPaid, [SystemNext]_vars
  PROVE  CompletionsPaid'
<1>1. completions \in Nat
  BY DEF SystemBase, HistoryTyped
<1>2. /\ Settled \subseteq Settled'
      /\ IsFiniteSet(Settled) /\ Cardinality(Settled) \in Nat
  BY SettledStays, SettledFinite
<1>3. IsFiniteSet(Settled') /\ Cardinality(Settled') \in Nat
  <2>1. Settled' \in SUBSET (1..MaxApplications)
    BY DEF Settled
  <2>2. IsFiniteSet(1..MaxApplications)
    BY BoundsType, FS_Interval
  <2> QED BY <2>1, <2>2, FS_Subset, FS_CardinalityType
<1>4. CASE completions' = completions
  <2>1. Cardinality(Settled) <= Cardinality(Settled')
    BY <1>2, <1>3, FS_Subset
  <2> QED BY <1>1, <1>2, <1>3, <1>4, <2>1 DEF CompletionsPaid
<1>5. CASE /\ completions' = completions + 1
           /\ \E a \in Settled' : a \notin Settled
  <2>1. PICK a \in Settled' : a \notin Settled
    BY <1>5
  <2>2. /\ IsFiniteSet(Settled \cup {a})
        /\ Cardinality(Settled \cup {a}) = Cardinality(Settled) + 1
    BY <1>2, <2>1, FS_AddElement
  <2>3. Settled \cup {a} \in SUBSET Settled'
    BY <1>2, <2>1
  <2>4. Cardinality(Settled \cup {a}) <= Cardinality(Settled')
    BY <1>3, <2>3, FS_Subset
  <2> QED BY <1>1, <1>2, <1>3, <1>5, <2>2, <2>4 DEF CompletionsPaid
<1> QED BY <1>4, <1>5, SettledStays

LEMMA NextKeepsSmallTypes ==
  ASSUME FramesTyped, SmallTypes, [SystemNext]_vars
  PROVE  SmallTypes'
<1>1. \A t \in Threads : chain[t].step \in Steps \cup {NoStep}
  BY DEF FramesTyped, Frames, Carried
<1>2. CASE UNCHANGED vars
  BY <1>2 DEF vars, SmallTypes
<1>3. CASE RootStep
  BY <1>3 DEF RootStep, GoalInterpreter, Regulation, PlanningSkipped,
              WorkflowPlanner, Eligibility, AgentGivesUp, WorkflowCreated,
              SmallTypes
<1>4. CASE UserStep
  BY <1>4 DEF UserStep, PublishManualEvent, SmallTypes
<1>5. ASSUME NEW t \in Threads, CascadeStep(t)
      PROVE  SmallTypes'
  <2>1. CASE \/ DocumentAgent(t) \/ DocumentAgentContinues(t)
             \/ DepartmentRouter(t) \/ ApplicationAgent(t) \/ StatusMonitor(t)
             \/ PollRateLimited(t) \/ PollStatus(t)
             \/ OnApplicationApproved(t) \/ OnWorkflowResumed(t)
    <3>1. UNCHANGED <<finding, gateStep>>
      BY <2>1 DEF DocumentAgent, DocumentAgentContinues, DepartmentRouter,
           ApplicationAgent, StatusMonitor, PollRateLimited, PollStatus,
           OnApplicationApproved, OnWorkflowResumed
    <3> QED BY <3>1 DEF SmallTypes
  <2>2. CASE OnApplicationRejected(t) \/ OnDocumentMissing(t)
    BY <1>1, <2>2 DEF OnApplicationRejected, OnDocumentMissing, SmallTypes
  <2> QED BY <1>5, <2>1, <2>2 DEF CascadeStep
<1> QED BY <1>2, <1>3, <1>4, <1>5 DEF SystemNext

\* The parts together are the type invariant of the module.
LEMMA TypesTogether ==
  ASSUME SystemBase, NEW k \in 0..MaxRedone,
         Cardinality(ApplicationsFor(Steps)) <= Allowance(Steps, k),
         CompletionsPaid, SmallTypes
  PROVE  SystemTypeOK
<1>1. /\ TypeOK /\ FramesTyped /\ HistoryTyped /\ OwnApplications
  BY DEF SystemBase
<1>2. Len(applications) \in Nat /\ Len(applications) <= MaxApplications
  BY <1>1, ApplicationsBounded
<1>3. ASSUME NEW t \in Threads
      PROVE  chain[t] \in Frame
  <2>1. chain[t] \in Carried /\ FrameShape(chain[t])
    BY <1>1 DEF FramesTyped, Frames
  <2>2. chain[t].app \in 0..MaxApplications
    <3>1. CASE chain[t].at \in {"polling", "APPLICATION_SUBMITTED"}
      <4>1. chain[t].app \in 1..Len(applications)
        BY <1>1, <3>1 DEF OwnApplications, Asking, Filing
      <4> QED BY <1>2, <4>1, BoundsType
    <3>2. CASE chain[t].at \notin {"polling", "APPLICATION_SUBMITTED"}
      BY <2>1, <3>2, BoundsType DEF FrameShape
    <3> QED BY <3>1, <3>2
  <2>3. /\ 0..(MaxPolls - 1) \subseteq 0..MaxPolls
        /\ 0..(Attempts - 1) \subseteq 0..(MaxAttempts - 1)
    BY AttemptsType, GovFlowAssumption DEF GovFlowAssumption
  <2> QED BY <2>1, <2>2, <2>3 DEF Carried, Frame
<1>4. chain \in [Threads -> Frame]
  BY <1>1, <1>3 DEF FramesTyped
<1>5. completions \in 0..MaxApplications
  BY <1>1, SettledFinite, BoundsType DEF CompletionsPaid, HistoryTyped
<1>6. ASSUME NEW a \in 1..MaxApplications, chain[Poll(a)].at = "polling"
      PROVE  chain[Poll(a)].app = a /\ a <= Len(applications)
  <2>1. Poll(a) \in Threads
    BY PollThreads
  <2>2. /\ chain[Poll(a)].app \in 1..Len(applications)
        /\ Poll(a) = Poll(chain[Poll(a)].app)
    BY <1>1, <1>6, <2>1 DEF OwnApplications, Asking
  <2>3. chain[Poll(a)].app = a
    BY <2>2, PollThreads
  <2> QED BY <2>2, <2>3
<1> QED BY <1>1, <1>2, <1>4, <1>5, <1>6
        DEF SystemTypeOK, SmallTypes, HistoryTyped, Request

\* Every variable keeps its type; in particular the backend never submits more
\* applications than there are threads to poll them, and a polling thread polls
\* its own.
THEOREM SystemTypesCorrect == SystemSpec => []SystemTypeOK
<1>1. SystemInit => CompletionsPaid /\ SmallTypes
  BY SettledFinite DEF SystemInit, CompletionsPaid, SmallTypes
<1>2. SystemBase /\ CompletionsPaid /\ [SystemNext]_vars => CompletionsPaid'
  BY NextKeepsCompletionsPaid
<1>3. SystemBase /\ SmallTypes /\ [SystemNext]_vars => SmallTypes'
  BY NextKeepsSmallTypes DEF SystemBase
<1>4. LedgerInvariant /\ CompletionsPaid /\ SmallTypes => SystemTypeOK
  BY LedgerCovers, TypesTogether DEF LedgerInvariant
<1> QED
  BY <1>1, <1>2, <1>3, <1>4, SystemCorrect, LedgerCorrect, PTL DEF SystemSpec

----------------------------------------------------------------------------
(* The life of a step: the backend implements StepLifecycle.  Two more facts *)
(* are needed.  A step that has been started has its prerequisites done, so  *)
(* that a retry starts it at once.  And a polling task that has handled its  *)
(* verdict, and works on the steps it has claimed then, never works on the   *)
(* step it was started for: that one is completed.                           *)

\* The thread polls, or carries what the government has answered.
Awaiting(f) ==
  f.at \in VerdictAt \/ (f.at = "DOCUMENT_MISSING" /\ f.steps = {})

\* The frame is about an application the government has.
Lodged(f, s) ==
  f.step = s /\ (f.at = "APPLICATION_SUBMITTED" \/ Awaiting(f))

Tracked ==
  /\ \A t \in Threads :
       Awaiting(chain[t]) =>
         \E a \in 1..Len(applications) :
           t = Poll(a) /\ applications[a].step = chain[t].step
  /\ \A a \in 1..MaxApplications :
       chain[Poll(a)].at \notin {"idle", "done"} /\ ~Awaiting(chain[Poll(a)]) =>
         graph[applications[a].step] = "COMPLETED"

StartedInOrder ==
  \A s \in Steps :
    graph[s] # "PENDING" => \A d \in DependsOn[s] : graph[d] = "COMPLETED"

LifecycleInvariant ==
  /\ ReviewInvariant
  /\ LedgerInvariant
  /\ Tracked
  /\ StartedInOrder

LEMMA DependenciesOf ==
  ASSUME NEW s \in Steps
  PROVE  DependsOn[s] \subseteq Steps /\ s \notin DependsOn[s]
<1>1. IsDag(Steps, DependsOn)
  BY GraphAssumption DEF GraphAssumption, ValidDag
<1>2. {s} \in (SUBSET Steps) \ {{}}
  OBVIOUS
<1>3. DependsOn[s] \cap {s} = {}
  BY <1>1, <1>2 DEF IsDag
<1> QED BY <1>1, <1>3 DEF IsDag

LEMMA NextKeepsOrder ==
  ASSUME Careful, ReviewInvariant, StartedInOrder, [SystemNext]_vars
  PROVE  StartedInOrder'
<1>1. SystemBase /\ graph \in [Steps -> StepStatus]
  BY DEF ReviewInvariant, SystemBase, TypeOK
<1>2. \A s \in Steps : graph[s] = "COMPLETED" => graph'[s] = "COMPLETED"
  BY CompletedStays DEF CompletedStepIds, StepsWith
<1>3. SUFFICES ASSUME NEW s \in Steps, graph'[s] # "PENDING",
                      NEW d \in DependsOn[s]
               PROVE  graph'[d] = "COMPLETED"
  BY DEF StartedInOrder
<1>4. d \in Steps /\ d # s
  BY DependenciesOf
<1>5. CASE graph[s] # "PENDING"
  BY <1>2, <1>4, <1>5 DEF StartedInOrder
<1>6. CASE graph[s] = "PENDING"
  <2>1. ASSUME NEW t \in Threads, NEW m \in [Steps -> StepStatus],
               ClaimHop(t, m)
        PROVE  graph'[d] = "COMPLETED"
    <3>1. /\ \A r \in Steps :
               graph'[r] = IF r \in ReadySteps(m) THEN "RUNNING" ELSE m[r]
          /\ \A r \in ReadySteps(m) : r \in Steps /\ m[r] = "PENDING"
          /\ \A r \in Steps : r # chain[t].step => m[r] = graph[r]
          /\ chain[t].step \in Steps => graph[chain[t].step] # "PENDING"
      BY <2>1, ClaimedGraph
    <3>2. m[s] = "PENDING"
      BY <1>6, <3>1
    <3>3. s \in ReadySteps(m)
      BY <1>3, <3>1, <3>2
    <3>4. m[d] = "COMPLETED"
      BY <3>3 DEF ReadySteps
    <3> QED BY <1>4, <3>1, <3>4
  <2>2. ASSUME NEW t \in Threads, NEW g \in Frames, HaltHop(t, g)
        PROVE  graph'[d] = "COMPLETED"
    <3>1. graph[chain[t].step] # "PENDING"
      BY <2>2, HaltedStep
    <3>2. graph'[s] = graph[s]
      BY <1>1, <1>6, <2>2, <3>1 DEF HaltHop, MarkStepStatus
    <3> QED BY <1>3, <1>6, <3>2
  <2>3. graph' = graph => FALSE
    BY <1>3, <1>6
  <2>4. UNCHANGED vars => graph' = graph
    BY DEF vars, engineVars
  <2> QED BY <1>1, <2>1, <2>2, <2>3, <2>4, GraphStays, SystemHops
<1> QED BY <1>5, <1>6

\* A list is never empty while its thread works it off, so that a document
\* missing from the list is told from one missing at the government.
LEMMA ListedIsNotAwaiting ==
  ASSUME NEW f \in Frames
  PROVE  /\ f.at \in RootAt \cup LoopAt \cup
                     {"idle", "done", "NEXT_ACTION_TRIGGERED",
                      "WORKFLOW_RESUMED"} => ~Awaiting(f)
         /\ f.at \in LoopAt \cup {"NEXT_ACTION_TRIGGERED"} => f.steps # {}
         /\ f.steps # {} => ~Awaiting(f)
<1>1. FrameShape(f)
  BY DEF Frames
<1>2. f.at \in LoopAt \cup {"NEXT_ACTION_TRIGGERED"} => f.steps # {}
  BY <1>1 DEF FrameShape, LoopAt, Todo
<1>3. f.at \in VerdictAt => f.steps = {}
  BY <1>1 DEF FrameShape
<1> QED BY <1>2, <1>3 DEF Awaiting, RootAt, LoopAt, VerdictAt

\* The two halves of Tracked, for one thread.
TrackedOnce(t, f, apps) ==
  Awaiting(f) =>
    \E a \in 1..Len(apps) : t = Poll(a) /\ apps[a].step = f.step
Behind(a, f, gr, apps) ==
  f.at \notin {"idle", "done"} /\ ~Awaiting(f) =>
    gr[apps[a].step] = "COMPLETED"

LEMMA TrackedByThread ==
  /\ Tracked <=>
       /\ \A t \in Threads : TrackedOnce(t, chain[t], applications)
       /\ \A a \in 1..MaxApplications :
            Behind(a, chain[Poll(a)], graph, applications)
  /\ Tracked' <=>
       /\ \A t \in Threads : TrackedOnce(t, chain'[t], applications')
       /\ \A a \in 1..MaxApplications :
            Behind(a, chain'[Poll(a)], graph', applications')
BY DEF Tracked, TrackedOnce, Behind

\* The step an application is for is fixed.
LEMMA ApplicationsKeepTheirStep ==
  ASSUME SystemBase, [SystemNext]_vars
  PROVE  /\ Len(applications) \in Nat /\ Len(applications') \in Nat
         /\ Len(applications) <= Len(applications')
         /\ \A a \in 1..Len(applications) :
              applications'[a].step = applications[a].step
<1>1. applications \in Seq(Application) /\ Len(applications) \in Nat
  BY DEF SystemBase, HistoryTyped
<1>2. CASE UNCHANGED applications
  BY <1>1, <1>2
<1>3. ASSUME NEW t \in Threads, NEW g \in Frames, SubmitHop(t, g)
      PROVE  /\ Len(applications') = Len(applications) + 1
             /\ \A a \in 1..Len(applications) :
                  applications'[a] = applications[a]
  BY <1>1, <1>3 DEF SubmitHop
<1>4. ASSUME NEW t \in Threads, NEW g \in Frames, NEW record,
             PollHop(t, g, record)
      PROVE  /\ Len(applications') = Len(applications)
             /\ \A a \in 1..Len(applications) :
                  applications'[a].step = applications[a].step
  <2> DEFINE b == chain[t].app
             old == applications[b]
             k == old.asked + 1
             st == record.status
  <2>1. CASE UNCHANGED applications
    BY <2>1
  <2>2. CASE /\ applications' = [applications EXCEPT ![b] = record]
             /\ record = [old EXCEPT !.asked = k, !.status = st]
    <3>1. b \in 1..Len(applications)
      BY <1>4 DEF SystemBase, OwnApplications, Asking, PollHop
    <3>2. old \in Application
      BY <1>1, <3>1
    <3> HIDE DEF old, k, st
    <3>3. record.step = old.step
      BY <2>2, <3>2 DEF Application
    <3> HIDE DEF b
    <3> QED BY <1>1, <2>2, <3>1, <3>3 DEF old
  <2> QED BY <1>4, <2>1, <2>2 DEF PollHop
<1>5. ASSUME UNCHANGED vars PROVE UNCHANGED applications
  BY <1>5 DEF vars
<1>6. ASSUME SystemNext
      PROVE  \/ UNCHANGED applications
             \/ \E t \in Threads : \E g \in Frames : SubmitHop(t, g)
             \/ \E t \in Threads : \E g \in Frames : \E record :
                  PollHop(t, g, record)
  <2>1. \A g : RootHop(g) => UNCHANGED applications
    BY DEF RootHop
  <2>2. \A t, g : Quiet(t, g) \/ HaltHop(t, g) => UNCHANGED applications
    BY DEF Quiet, HaltHop
  <2>3. \A t : WatchHop(t) => UNCHANGED applications
    BY DEF WatchHop
  <2>4. \A t, m : ClaimHop(t, m) => UNCHANGED applications
    BY DEF ClaimHop
  <2>5. \A s, action : UserHop(s, action) => UNCHANGED applications
    BY DEF UserHop
  <2> QED BY <1>6, <2>1, <2>2, <2>3, <2>4, <2>5, SystemHops
<1> QED BY <1>1, <1>2, <1>3, <1>4, <1>5, <1>6

\* What nobody has touched stays tracked.
LEMMA OthersStayTracked ==
  ASSUME Careful, ReviewInvariant, Tracked, [SystemNext]_vars
  PROVE  /\ \A u \in Threads :
              chain'[u] = chain[u] => TrackedOnce(u, chain'[u], applications')
         /\ \A a \in 1..MaxApplications :
              /\ chain'[Poll(a)] = chain[Poll(a)]
                   => Behind(a, chain'[Poll(a)], graph', applications')
              /\ chain[Poll(a)].at \notin {"idle", "done"} =>
                   (~Awaiting(chain[Poll(a)]) =>
                      Behind(a, chain'[Poll(a)], graph', applications'))
<1>1. /\ SystemBase
      /\ \A t \in Threads : TrackedOnce(t, chain[t], applications)
      /\ \A a \in 1..MaxApplications :
           Behind(a, chain[Poll(a)], graph, applications)
  BY TrackedByThread DEF ReviewInvariant
<1>2. /\ Len(applications) \in Nat /\ Len(applications') \in Nat
      /\ Len(applications) <= Len(applications')
      /\ \A a \in 1..Len(applications) :
           applications'[a].step = applications[a].step
      /\ \A a \in 1..Len(applications) : applications[a].step \in Steps
  BY <1>1, ApplicationsKeepTheirStep, ApplicationFacts DEF Application
<1>3. \A s \in Steps : graph[s] = "COMPLETED" => graph'[s] = "COMPLETED"
  BY CompletedStays DEF CompletedStepIds, StepsWith
<1>4. \A a \in 1..MaxApplications :
        chain[Poll(a)].at # "idle" => a \in 1..Len(applications)
  BY <1>1, <1>2, BoundsType DEF SystemBase, OwnApplications
<1>5. ASSUME NEW u \in Threads, chain'[u] = chain[u]
      PROVE  TrackedOnce(u, chain'[u], applications')
  BY <1>1, <1>2, <1>5 DEF TrackedOnce
<1>6. ASSUME NEW a \in 1..MaxApplications,
             chain[Poll(a)].at \notin {"idle", "done"},
             ~Awaiting(chain[Poll(a)])
      PROVE  Behind(a, chain'[Poll(a)], graph', applications')
  BY <1>1, <1>2, <1>3, <1>4, <1>6 DEF Behind
<1>7. ASSUME NEW a \in 1..MaxApplications, chain'[Poll(a)] = chain[Poll(a)]
      PROVE  Behind(a, chain'[Poll(a)], graph', applications')
  BY <1>6, <1>7 DEF Behind
<1> QED BY <1>5, <1>6, <1>7

\* A step of one thread keeps Tracked if it does so for that thread.
LEMMA TrackedByOne ==
  ASSUME Careful, ReviewInvariant, Tracked, [SystemNext]_vars,
         NEW t \in Threads,
         \A u \in Threads : u # t => chain'[u] = chain[u],
         TrackedOnce(t, chain'[t], applications'),
         \A a \in 1..MaxApplications :
           t = Poll(a) => Behind(a, chain'[t], graph', applications')
  PROVE  Tracked'
<1>1. ASSUME NEW u \in Threads
      PROVE  TrackedOnce(u, chain'[u], applications')
  <2>1. CASE u = t
    BY <2>1
  <2>2. CASE u # t
    BY <2>2, OthersStayTracked
  <2> QED BY <2>1, <2>2
<1>2. ASSUME NEW a \in 1..MaxApplications
      PROVE  Behind(a, chain'[Poll(a)], graph', applications')
  <2>1. Poll(a) \in Threads
    BY PollThreads
  <2>2. CASE Poll(a) = t
    BY <2>2
  <2>3. CASE Poll(a) # t
    BY <2>1, <2>3, OthersStayTracked
  <2> QED BY <2>2, <2>3
<1> QED BY <1>1, <1>2, TrackedByThread

LEMMA NextKeepsTracked ==
  ASSUME Careful, ReviewInvariant, Tracked, [SystemNext]_vars
  PROVE  Tracked'
<1>1. /\ SystemBase /\ \A t \in Threads : chain[t] \in Frames
      /\ \A t \in Threads : TrackedOnce(t, chain[t], applications)
  BY ApplicationFacts, TrackedByThread DEF ReviewInvariant
<1>2. CASE UNCHANGED vars
  BY <1>2 DEF vars, engineVars, Tracked
\* A thread that does not await before, nor after, stays behind.
<1>3. ASSUME NEW t \in Threads, NEW g \in Frames, chain'[t] = g,
             \A u \in Threads : u # t => chain'[u] = chain[u],
             ~Awaiting(g),
             \/ g.at = "done"
             \/ ~Awaiting(chain[t]) /\ chain[t].at \notin {"idle", "done"}
             \/ t \notin Polls
      PROVE  Tracked'
  <2>1. TrackedOnce(t, g, applications')
    BY <1>3 DEF TrackedOnce
  <2>2. ASSUME NEW a \in 1..MaxApplications, t = Poll(a)
        PROVE  Behind(a, g, graph', applications')
    <3>1. CASE g.at = "done"
      BY <3>1 DEF Behind
    <3>2. CASE ~Awaiting(chain[t]) /\ chain[t].at \notin {"idle", "done"}
      BY <1>3, <2>2, <3>2, OthersStayTracked
    <3> QED BY <1>3, <2>2, <3>1, <3>2 DEF Polls
  <2> QED BY <1>3, <2>1, <2>2, TrackedByOne
<1>4. ASSUME NEW g \in Frames, RootHop(g)
      PROVE  Tracked'
  <2>1. /\ Root \in Threads /\ Root \notin Polls
        /\ chain' = [chain EXCEPT ![Root] = g]
        /\ g.at \in RootAt \cup {"done"}
    BY <1>4, ThreadNames DEF RootHop
  <2>2. /\ chain'[Root] = g
        /\ \A u \in Threads : u # Root => chain'[u] = chain[u]
    BY <1>1, <2>1, OneThread DEF SystemBase
  <2>3. ~Awaiting(g)
    BY <2>1, ListedIsNotAwaiting
  <2> QED BY <1>3, <2>1, <2>2, <2>3
<1>5. ASSUME NEW t \in Threads, NEW g \in Frames, Quiet(t, g) \/ SubmitHop(t, g)
      PROVE  Tracked'
  <2>1. chain' = [chain EXCEPT ![t] = g]
    BY <1>5 DEF Quiet, SubmitHop
  <2>2. /\ chain'[t] = g
        /\ \A u \in Threads : u # t => chain'[u] = chain[u]
    BY <1>1, <2>1, OneThread DEF SystemBase
  <2>3. chain[t].at \in LoopAt \cup {"NEXT_ACTION_TRIGGERED"}
    BY <1>5 DEF Quiet, SubmitHop, LoopAt
  <2>4. /\ ~Awaiting(chain[t]) /\ chain[t].at \notin {"idle", "done"}
        /\ chain[t].steps # {}
    BY <1>1, <2>3, ListedIsNotAwaiting DEF LoopAt
  <2>5. g = Done \/ g.steps = chain[t].steps
    BY <1>5 DEF Quiet, SubmitHop
  <2>6. ~Awaiting(g)
    BY <2>4, <2>5, ListedIsNotAwaiting, SimpleFrames
  <2> QED BY <1>3, <2>2, <2>4, <2>6
<1>6. ASSUME NEW t \in Threads, NEW g \in Frames, HaltHop(t, g)
      PROVE  Tracked'
  <2>1. chain' = [chain EXCEPT ![t] = g]
    BY <1>6 DEF HaltHop
  <2>2. /\ chain'[t] = g
        /\ \A u \in Threads : u # t => chain'[u] = chain[u]
    BY <1>1, <2>1, OneThread DEF SystemBase
  <2>3. CASE g = Done
    BY <1>3, <2>2, <2>3, SimpleFrames, ListedIsNotAwaiting
  <2>4. CASE chain[t].at = "DOCUMENT_MISSING" /\ g = Returned(chain[t])
    <3>1. /\ g.at = IF Todo(chain[t]) = {} THEN "done" ELSE "checklist"
          /\ Todo(chain[t]) # {} => chain[t].steps # {}
      BY <1>1, <2>4, ReturnedFrame DEF Todo
    <3>2. ~Awaiting(g)
      BY <3>1, ListedIsNotAwaiting DEF LoopAt
    <3>3. \/ g.at = "done"
          \/ ~Awaiting(chain[t]) /\ chain[t].at \notin {"idle", "done"}
      BY <1>1, <2>4, <3>1, ListedIsNotAwaiting
    <3> QED BY <1>3, <2>2, <3>2, <3>3
  <2> QED BY <1>6, <2>3, <2>4 DEF HaltHop
<1>7. ASSUME NEW t \in Threads, NEW m \in [Steps -> StepStatus], ClaimHop(t, m)
      PROVE  Tracked'
  <2>1. /\ chain'[t].at \in {"done", "NEXT_ACTION_TRIGGERED"}
        /\ \A u \in Threads : u # t => chain'[u] = chain[u]
    BY <1>1, <1>7, WorkClaimed
  <2>2. chain'[t] \in Frames
    BY <1>1, NextKeepsBase, ApplicationFacts DEF SystemBase, FramesTyped
  <2>3. ~Awaiting(chain'[t])
    BY <2>1, <2>2, ListedIsNotAwaiting
  <2>4. CASE chain[t].at = "APPLICATION_APPROVED" /\ chain[t].step \in Steps
    <3>1. graph'[chain[t].step] = "COMPLETED"
      BY <1>7, <2>4, ClaimedGraph
    <3>2. Awaiting(chain[t])
      BY <2>4 DEF Awaiting, VerdictAt
    <3>3. PICK b \in 1..Len(applications) :
            t = Poll(b) /\ applications[b].step = chain[t].step
      BY <1>1, <3>2 DEF TrackedOnce
    <3>4. applications'[b].step = chain[t].step
      BY <1>1, <3>3, ApplicationsKeepTheirStep
    <3>5. ASSUME NEW a \in 1..MaxApplications, t = Poll(a)
          PROVE  Behind(a, chain'[t], graph', applications')
      <4>1. a = b
        BY <3>3, <3>5, PollThreads
      <4> QED BY <3>1, <3>4, <4>1 DEF Behind
    <3>6. TrackedOnce(t, chain'[t], applications')
      BY <2>3 DEF TrackedOnce
    <3> QED BY <2>1, <3>5, <3>6, TrackedByOne
  <2>5. CASE t \notin Polls
    BY <1>3, <2>1, <2>2, <2>3, <2>5
  <2>6. chain[t].at \in {"creating", "WORKFLOW_RESUMED"} => t \notin Polls
    <3>1. chain[t].at = "creating" => t = Root
      BY <1>1 DEF SystemBase, Roles, RootAt
    <3>2. chain[t].at = "WORKFLOW_RESUMED" =>
            \E r \in 1..Len(requests) : t = Resume(r)
      BY <1>1 DEF SystemBase, Roles
    <3>3. \A r : Resume(r) \notin Polls
      BY PollThreads DEF Polls
    <3> QED BY <3>1, <3>2, <3>3, ThreadNames
  <2> QED BY <1>7, <2>4, <2>5, <2>6 DEF ClaimHop
<1>8. ASSUME NEW t \in Threads, NEW g \in Frames, NEW record,
             PollHop(t, g, record)
      PROVE  Tracked'
  <2>1. /\ chain' = [chain EXCEPT ![t] = g] /\ chain[t].at = "polling"
        /\ g.steps = {}
    BY <1>8 DEF PollHop
  <2>2. /\ chain'[t] = g
        /\ \A u \in Threads : u # t => chain'[u] = chain[u]
    BY <1>1, <2>1, OneThread DEF SystemBase
  <2>3. CASE g = Done
    BY <1>3, <2>2, <2>3, SimpleFrames, ListedIsNotAwaiting
  <2>4. CASE g # Done
    <3>1. /\ g.step = chain[t].step
          /\ g.at \in VerdictAt \cup {"DOCUMENT_MISSING"}
      BY <1>8, <2>4 DEF PollHop, VerdictAt
    <3>2. Awaiting(g) /\ Awaiting(chain[t])
      BY <2>1, <3>1 DEF Awaiting, VerdictAt
    <3>3. PICK b \in 1..Len(applications) :
            t = Poll(b) /\ applications[b].step = chain[t].step
      BY <1>1, <3>2 DEF TrackedOnce
    <3>4. /\ applications'[b].step = chain[t].step
          /\ b \in 1..Len(applications')
      BY <1>1, <3>3, ApplicationsKeepTheirStep
    <3>5. TrackedOnce(t, g, applications')
      BY <3>1, <3>3, <3>4 DEF TrackedOnce
    <3>6. \A a : Behind(a, g, graph', applications')
      BY <3>2 DEF Behind
    <3> QED BY <2>2, <3>5, <3>6, TrackedByOne
  <2> QED BY <2>3, <2>4
<1>9. ASSUME NEW t \in Threads, WatchHop(t)
      PROVE  Tracked'
  <2> DEFINE n == chain[t].app
             p == Poll(n)
  <2>1. /\ n \in 1..Len(applications) /\ chain[t].step \in Steps
        /\ chain'[t].at \in {"done", "checklist"} /\ chain'[t] \in Frames
        /\ p # t
        /\ p \in Threads => chain'[p] = Polling(chain[t].step, n)
        /\ \A u \in Threads : u # t /\ u # p => chain'[u] = chain[u]
    BY <1>1, <1>9, WatchMoves
  <2>2. /\ chain[t].at = "APPLICATION_SUBMITTED"
        /\ applications' = applications
    BY <1>9 DEF WatchHop
  <2>3. applications[n].step = chain[t].step
    BY <1>1, <2>2 DEF SystemBase, OwnApplications, Filing
  <2>4. ~Awaiting(chain'[t]) /\ ~Awaiting(chain[t])
    BY <1>1, <2>1, <2>2, ListedIsNotAwaiting DEF LoopAt
  <2>5. TrackedOnce(t, chain'[t], applications')
    BY <2>4 DEF TrackedOnce
  <2>6. ASSUME p \in Threads
        PROVE  /\ Awaiting(chain'[p])
               /\ TrackedOnce(p, chain'[p], applications')
    <3>1. /\ chain'[p].at = "polling" /\ chain'[p].step = chain[t].step
      BY <2>1, <2>6, PollingFrame
    <3> QED BY <2>1, <2>2, <2>3, <3>1 DEF Awaiting, VerdictAt, TrackedOnce
  <2> HIDE DEF p, n
  <2>7. \A u \in Threads : TrackedOnce(u, chain'[u], applications')
    BY <2>1, <2>5, <2>6, OthersStayTracked
  <2>8. ASSUME NEW a \in 1..MaxApplications
        PROVE  Behind(a, chain'[Poll(a)], graph', applications')
    <3>1. Poll(a) \in Threads
      BY PollThreads
    <3>2. CASE Poll(a) = t
      BY <2>2, <2>4, <3>1, <3>2, OthersStayTracked
    <3>3. CASE Poll(a) = p
      BY <2>6, <3>1, <3>3 DEF Behind
    <3>4. CASE Poll(a) # t /\ Poll(a) # p
      BY <2>1, <3>1, <3>4, OthersStayTracked
    <3> QED BY <3>2, <3>3, <3>4
  <2> QED BY <2>7, <2>8, TrackedByThread
<1>10. ASSUME NEW s \in Steps \cup {NoStep}, NEW action \in {"retry", "abandon"},
              UserHop(s, action)
       PROVE  Tracked'
  <2> DEFINE t == Resume(Len(requests) + 1)
  <2>1. /\ t \in Threads /\ chain'[t] = Resumed(s, action)
        /\ \A u \in Threads : u # t => chain'[u] = chain[u]
    BY <1>1, <1>10, RequestMoves
  <2>2. Resumed(s, action) \in Frames /\ ~Awaiting(Resumed(s, action))
    BY ResumedFrame, ListedIsNotAwaiting
  <2>3. t \notin Polls
    BY PollThreads DEF Polls
  <2> HIDE DEF t
  <2> QED BY <1>3, <2>1, <2>2, <2>3
<1> QED
  BY <1>1, <1>2, <1>4, <1>5, <1>6, <1>7, <1>8, <1>9, <1>10, SystemHops

LEMMA InitLifecycle == SystemInit => LifecycleInvariant
<1> SUFFICES ASSUME SystemInit PROVE LifecycleInvariant
  OBVIOUS
<1>1. ReviewInvariant /\ LedgerInvariant
  BY InitReview, InitLedger
<1>2. /\ graph = InitialGraph
      /\ \A t \in Threads :
           chain[t].at \in RootAt \cup {"idle"} /\ chain[t] \in Frames
      /\ \A t \in Threads : t # Root => chain[t].at = "idle"
  BY <1>1, ApplicationFacts
  DEF SystemInit, Init, Handling, Idle, RootAt, ReviewInvariant
<1>3. StartedInOrder
  BY <1>2 DEF StartedInOrder, InitialGraph
<1>4. Tracked
  <2>1. \A t \in Threads : ~Awaiting(chain[t])
    BY <1>2, ListedIsNotAwaiting
  <2>2. \A a \in 1..MaxApplications : chain[Poll(a)].at = "idle"
    BY <1>2, PollThreads
  <2> QED BY <2>1, <2>2 DEF Tracked
<1> QED BY <1>1, <1>3, <1>4 DEF LifecycleInvariant

LEMMA NextKeepsLifecycle ==
  ASSUME Careful, LifecycleInvariant, [SystemNext]_vars
  PROVE  LifecycleInvariant'
<1>1. ReviewInvariant' /\ LedgerInvariant'
  BY NextKeepsReview, NextKeepsLedgers DEF LifecycleInvariant
<1>2. Tracked'
  BY NextKeepsTracked DEF LifecycleInvariant
<1>3. StartedInOrder'
  BY NextKeepsOrder DEF LifecycleInvariant
<1> QED BY <1>1, <1>2, <1>3 DEF LifecycleInvariant

\* The phase of a step, by the status of the step and the frames.
WhileRunning(ch, s) ==
  IF \E t \in Threads : Lodged(ch[t], s) THEN "filed"
  ELSE IF \E t \in Threads : s \in Working(ch[t]) THEN "active"
  ELSE "stalled"
PhaseOf(gr, ch, s) ==
  IF gr[s] = "PENDING" THEN "waiting"
  ELSE IF gr[s] = "COMPLETED" THEN "done"
  ELSE IF gr[s] = "BLOCKED" THEN "halted"
  ELSE IF gr[s] = "FAILED" THEN "abandoned"
  ELSE WhileRunning(ch, s)
Phases(gr, ch) == [s \in Steps |-> PhaseOf(gr, ch, s)]

\* A frame about a lodged application works on its step, and on no list but
\* that of the loop it belongs to.
LEMMA LodgedWork ==
  ASSUME NEW f \in Frames, NEW s \in Steps
  PROVE  /\ Lodged(f, s) => s \in Working(f)
         /\ Lodged(f, s) => s = f.step
         /\ ~Awaiting(f) /\ f.at # "APPLICATION_SUBMITTED" => ~Lodged(f, s)
         /\ f.at \in {"APPLICATION_SUBMITTED"} \cup VerdictAt =>
              (Lodged(f, s) <=> s = f.step)
         /\ f.at = "DOCUMENT_MISSING" =>
              (Lodged(f, s) <=> s = f.step /\ f.steps = {})
<1>1. Lodged(f, s) => s \in Working(f)
  BY WorkingFacts DEF Lodged, Awaiting
<1> QED BY <1>1 DEF Lodged, Awaiting, VerdictAt

\* What StepPhase says of the applications is what the frames say.
LEMMA FiledMeansLodged ==
  ASSUME LifecycleInvariant, NEW s \in Steps
  PROVE  (\E a \in Applied(s) :
            \/ s \in WorkingOn(Poll(a))
            \/ \E t \in Threads :
                 chain[t].at = "APPLICATION_SUBMITTED" /\ chain[t].app = a)
         <=> \E t \in Threads : Lodged(chain[t], s)
<1>1. /\ SystemBase /\ Sole /\ Tracked
      /\ \A t \in Threads : chain[t] \in Frames
      /\ Len(applications) \in Nat /\ Len(applications) <= MaxApplications
  BY SoleWorker, ApplicationFacts, LedgerCovers
  DEF LifecycleInvariant, ReviewInvariant
<1>2. \A t \in Threads : chain[t].at = "APPLICATION_SUBMITTED" =>
        /\ chain[t].app \in 1..Len(applications)
        /\ applications[chain[t].app].step = chain[t].step
  BY <1>1 DEF SystemBase, OwnApplications, Filing
<1>3. ASSUME NEW t \in Threads, Lodged(chain[t], s)
      PROVE  \E a \in Applied(s) :
               \/ s \in WorkingOn(Poll(a))
               \/ \E u \in Threads :
                    chain[u].at = "APPLICATION_SUBMITTED" /\ chain[u].app = a
  <2>1. chain[t].step = s /\ s \in Working(chain[t])
    BY <1>1, <1>3, LodgedWork
  <2>2. CASE chain[t].at = "APPLICATION_SUBMITTED"
    BY <1>2, <2>1, <2>2 DEF Applied
  <2>3. CASE Awaiting(chain[t])
    <3>1. PICK a \in 1..Len(applications) :
            t = Poll(a) /\ applications[a].step = s
      BY <1>1, <2>1, <2>3 DEF Tracked
    <3>2. s \in WorkingOn(Poll(a))
      BY <2>1, <3>1, WorkingOnFrame
    <3> QED BY <3>1, <3>2 DEF Applied
  <2> QED BY <1>3, <2>2, <2>3 DEF Lodged
<1>4. ASSUME NEW a \in Applied(s), s \in WorkingOn(Poll(a))
      PROVE  \E t \in Threads : Lodged(chain[t], s)
  <2>1. /\ a \in 1..Len(applications) /\ applications[a].step = s
        /\ a \in 1..MaxApplications /\ Poll(a) \in Threads
    BY <1>1, BoundsType, PollThreads DEF Applied
  <2> DEFINE f == chain[Poll(a)]
  <2>2. f \in Frames /\ s \in Working(f)
    BY <1>1, <1>4, <2>1, WorkingOnFrame
  <2>3. f.at \notin {"idle", "done"} /\ graph[s] = "RUNNING"
    BY <1>1, <2>1, <2>2, WorkingFacts DEF Sole
  <2>4. Awaiting(f)
    BY <1>1, <2>1, <2>3 DEF Tracked
  <2>5. PICK b \in 1..Len(applications) :
          Poll(a) = Poll(b) /\ applications[b].step = f.step
    BY <1>1, <2>1, <2>4 DEF Tracked
  <2>6. f.step = s
    BY <2>1, <2>5, PollThreads
  <2> QED BY <2>1, <2>4, <2>6 DEF Lodged
<1>5. ASSUME NEW a \in Applied(s), NEW t \in Threads,
             chain[t].at = "APPLICATION_SUBMITTED", chain[t].app = a
      PROVE  Lodged(chain[t], s)
  BY <1>2, <1>5 DEF Applied, Lodged
<1> QED BY <1>3, <1>4, <1>5

LEMMA PhasesAre == LifecycleInvariant => StepPhase = Phases(graph, chain)
<1> SUFFICES ASSUME LifecycleInvariant
             PROVE  StepPhase = Phases(graph, chain)
  OBVIOUS
<1>1. Sole /\ \A t \in Threads : chain[t] \in Frames
  BY SoleWorker, ApplicationFacts DEF LifecycleInvariant, ReviewInvariant
<1> DEFINE filed(s) == \E a \in Applied(s) :
                         \/ s \in WorkingOn(Poll(a))
                         \/ \E t \in Threads :
                              /\ chain[t].at = "APPLICATION_SUBMITTED"
                              /\ chain[t].app = a
           active(s) == \E t \in Threads : s \in WorkingOn(t)
           phase(s) == CASE graph[s] = "PENDING" -> "waiting"
                         [] graph[s] = "COMPLETED" -> "done"
                         [] graph[s] = "BLOCKED" -> "halted"
                         [] graph[s] = "FAILED" -> "abandoned"
                         [] filed(s) -> "filed"
                         [] OTHER -> IF active(s) THEN "active" ELSE "stalled"
<1>2. StepPhase = [s \in Steps |-> phase(s)]
  BY DEF StepPhase
<1>3. ASSUME NEW s \in Steps PROVE phase(s) = PhaseOf(graph, chain, s)
  <2>1. filed(s) <=> \E t \in Threads : Lodged(chain[t], s)
    BY FiledMeansLodged
  <2>2. active(s) <=> \E t \in Threads : s \in Working(chain[t])
    BY WorkingOnFrame
  <2>3. filed(s) => graph[s] = "RUNNING"
    BY <1>1, <2>1, LodgedWork DEF Sole
  <2> HIDE DEF filed, active
  <2>4. CASE graph[s] = "PENDING"
    BY <2>3, <2>4 DEF PhaseOf
  <2>5. CASE graph[s] = "COMPLETED"
    BY <2>3, <2>5 DEF PhaseOf
  <2>6. CASE graph[s] = "BLOCKED"
    BY <2>3, <2>6 DEF PhaseOf
  <2>7. CASE graph[s] = "FAILED"
    BY <2>3, <2>7 DEF PhaseOf
  <2>8. CASE graph[s] \notin {"PENDING", "COMPLETED", "BLOCKED", "FAILED"}
    BY <2>1, <2>2, <2>8 DEF PhaseOf, WhileRunning
  <2> QED BY <2>4, <2>5, <2>6, <2>7, <2>8
<1> HIDE DEF phase
<1> QED BY <1>2, <1>3 DEF Phases

LEMMA PhasesAreNext ==
  LifecycleInvariant' => StepPhase' = Phases(graph', chain')
<1>1. (LifecycleInvariant => StepPhase = Phases(graph, chain))'
  BY PhasesAre, PTL
<1> QED BY <1>1 DEF Phases, PhaseOf, WhileRunning, Lodged, Awaiting, Working,
                    Todo

\* The phases when a thread moves.  A step it works on is nobody else's.
Alone(gr, ch) ==
  \A s \in Steps, t \in Threads :
    s \in Working(ch[t]) =>
      /\ gr[s] = "RUNNING"
      /\ \A u \in Threads : s \in Working(ch[u]) => t = u

LEMMA WorkedPhase ==
  ASSUME NEW gr, NEW ch \in [Threads -> Frames], Alone(gr, ch),
         NEW t \in Threads, NEW s \in Steps, s \in Working(ch[t])
  PROVE  /\ PhaseOf(gr, ch, s) = IF Lodged(ch[t], s) THEN "filed" ELSE "active"
         /\ gr[s] = "RUNNING"
<1>1. gr[s] = "RUNNING" /\ \A u \in Threads : s \in Working(ch[u]) => t = u
  BY DEF Alone
<1>2. (\E u \in Threads : Lodged(ch[u], s)) <=> Lodged(ch[t], s)
  BY <1>1, LodgedWork
<1> QED BY <1>1, <1>2 DEF PhaseOf, WhileRunning

LEMMA RestingPhase ==
  ASSUME NEW gr, NEW ch \in [Threads -> Frames], NEW s \in Steps,
         \A t \in Threads : s \notin Working(ch[t])
  PROVE  PhaseOf(gr, ch, s) =
           IF gr[s] = "PENDING" THEN "waiting"
           ELSE IF gr[s] = "COMPLETED" THEN "done"
           ELSE IF gr[s] = "BLOCKED" THEN "halted"
           ELSE IF gr[s] = "FAILED" THEN "abandoned"
           ELSE "stalled"
<1>1. \A t \in Threads : ~Lodged(ch[t], s)
  BY LodgedWork
<1> QED BY <1>1 DEF PhaseOf, WhileRunning

\* A step no moving thread works on, neither before nor after, keeps its
\* phase.
LEMMA OtherPhase ==
  ASSUME NEW gr, NEW h, NEW ch \in [Threads -> Frames],
         NEW dh \in [Threads -> Frames], NEW s \in Steps, h[s] = gr[s],
         \A u \in Threads :
           s \in Working(ch[u]) \/ s \in Working(dh[u]) => dh[u] = ch[u]
  PROVE  PhaseOf(h, dh, s) = PhaseOf(gr, ch, s)
<1>1. (\E u \in Threads : Lodged(dh[u], s)) <=>
        (\E u \in Threads : Lodged(ch[u], s))
  BY LodgedWork
<1>2. (\E u \in Threads : s \in Working(dh[u])) <=>
        (\E u \in Threads : s \in Working(ch[u]))
  OBVIOUS
<1> QED BY <1>1, <1>2 DEF PhaseOf, WhileRunning

\* The phases when one thread moves and takes up no new work: what it drops
\* while it is RUNNING is stalled.
LEMMA PhasesOfMove ==
  ASSUME NEW gr, NEW h, NEW ch \in [Threads -> Frames],
         NEW dh \in [Threads -> Frames], NEW t \in Threads, NEW s \in Steps,
         Alone(gr, ch), Alone(h, dh), h[s] = gr[s],
         \A u \in Threads : u # t => dh[u] = ch[u],
         Working(dh[t]) \subseteq Working(ch[t])
  PROVE  /\ s \notin Working(ch[t]) => PhaseOf(h, dh, s) = PhaseOf(gr, ch, s)
         /\ s \in Working(ch[t]) =>
              PhaseOf(gr, ch, s) = IF Lodged(ch[t], s) THEN "filed"
                                   ELSE "active"
         /\ s \in Working(dh[t]) =>
              PhaseOf(h, dh, s) = IF Lodged(dh[t], s) THEN "filed"
                                  ELSE "active"
         /\ s \in Working(ch[t]) \ Working(dh[t]) =>
              PhaseOf(h, dh, s) = "stalled"
<1>1. ASSUME s \notin Working(ch[t])
      PROVE  PhaseOf(h, dh, s) = PhaseOf(gr, ch, s)
  <2>1. \A u \in Threads :
          s \in Working(ch[u]) \/ s \in Working(dh[u]) => dh[u] = ch[u]
    BY <1>1
  <2> QED BY <2>1, OtherPhase
<1>2. ASSUME s \in Working(ch[t]) \ Working(dh[t])
      PROVE  PhaseOf(h, dh, s) = "stalled"
  <2>1. gr[s] = "RUNNING" /\ \A u \in Threads : s \in Working(ch[u]) => t = u
    BY <1>2 DEF Alone
  <2>2. \A u \in Threads : s \notin Working(dh[u])
    BY <1>2, <2>1
  <2> QED BY <2>1, <2>2, RestingPhase
<1> QED BY <1>1, <1>2, WorkedPhase

LEMMA PhasesOfStep ==
  ASSUME Careful, LifecycleInvariant, [SystemNext]_vars
  PROVE  /\ StepPhase = Phases(graph, chain)
         /\ StepPhase' = Phases(graph', chain')
         /\ Alone(graph, chain) /\ Alone(graph', chain')
         /\ chain \in [Threads -> Frames] /\ chain' \in [Threads -> Frames]
         /\ SystemBase /\ ReviewInvariant
         /\ graph \in [Steps -> StepStatus] /\ graph' \in [Steps -> StepStatus]
<1>1. LifecycleInvariant'
  BY NextKeepsLifecycle
<1>2. Sole /\ Sole'
  BY <1>1, SoleWorker DEF LifecycleInvariant, ReviewInvariant
<1>3. Alone(graph, chain) /\ Alone(graph', chain')
  BY <1>2 DEF Sole, Alone
<1>4. /\ FramesTyped /\ FramesTyped' /\ SystemBase /\ ReviewInvariant
      /\ TypeOK /\ TypeOK'
  BY <1>1 DEF LifecycleInvariant, ReviewInvariant, SystemBase
<1> QED BY <1>1, <1>3, <1>4, PhasesAre, PhasesAreNext DEF FramesTyped, TypeOK

\* What the status of a step says of its phase, and the phases as a function.
LEMMA StatusPhases ==
  ASSUME NEW gr, NEW ch
  PROVE  /\ \A s \in Steps : Phases(gr, ch)[s] = PhaseOf(gr, ch, s)
         /\ \A s \in Steps : PhaseOf(gr, ch, s) = "waiting" <=> gr[s] = "PENDING"
         /\ \A s \in Steps : PhaseOf(gr, ch, s) = "done" <=> gr[s] = "COMPLETED"
         /\ Phases(gr, ch) = [s \in Steps |-> Phases(gr, ch)[s]]
         /\ \A s \in Steps : gr[s] = "BLOCKED" => PhaseOf(gr, ch, s) = "halted"
         /\ \A s \in Steps : gr[s] = "FAILED" => PhaseOf(gr, ch, s) = "abandoned"
BY DEF Phases, PhaseOf, WhileRunning

LEMMA SamePhases ==
  ASSUME NEW gr, NEW h, NEW ch, NEW dh,
         \A s \in Steps : PhaseOf(h, dh, s) = PhaseOf(gr, ch, s)
  PROVE  Phases(h, dh) = Phases(gr, ch)
BY DEF Phases

LEMMA RootKeepsPhases ==
  ASSUME Careful, LifecycleInvariant, [SystemNext]_vars,
         NEW g \in Frames, RootHop(g)
  PROVE  StepPhase' = StepPhase
<1>1. /\ StepPhase = Phases(graph, chain)
      /\ StepPhase' = Phases(graph', chain')
      /\ Alone(graph, chain) /\ Alone(graph', chain')
      /\ chain \in [Threads -> Frames] /\ chain' \in [Threads -> Frames]
      /\ SystemBase
  BY PhasesOfStep
<1>2. graph' = graph
  BY <1>1, GraphStays
<1>3. /\ Root \in Threads /\ chain'[Root] = g
      /\ \A u \in Threads : u # Root => chain'[u] = chain[u]
  BY <1>1, ThreadNames, OneThread DEF RootHop, FramesTyped
<1>4. Working(chain[Root]) = {} /\ Working(g) = {}
  BY <1>1, <1>3, WorkingFacts DEF RootHop
<1>5. ASSUME NEW s \in Steps
      PROVE  PhaseOf(graph', chain', s) = PhaseOf(graph, chain, s)
  <2>1. \A u \in Threads :
          s \in Working(chain[u]) \/ s \in Working(chain'[u])
            => chain'[u] = chain[u]
    BY <1>3, <1>4
  <2>2. graph'[s] = graph[s]
    BY <1>2
  <2>3. chain \in [Threads -> Frames] /\ chain' \in [Threads -> Frames]
    BY <1>1
  <2> QED BY <2>1, <2>2, <2>3, OtherPhase
<1> QED BY <1>1, <1>5, SamePhases

LEMMA UserKeepsPhases ==
  ASSUME Careful, LifecycleInvariant, [SystemNext]_vars,
         NEW r \in Steps \cup {NoStep}, NEW action \in {"retry", "abandon"},
         UserHop(r, action)
  PROVE  StepPhase' = StepPhase
<1>1. /\ StepPhase = Phases(graph, chain)
      /\ StepPhase' = Phases(graph', chain')
      /\ Alone(graph, chain) /\ Alone(graph', chain')
      /\ chain \in [Threads -> Frames] /\ chain' \in [Threads -> Frames]
      /\ SystemBase
  BY PhasesOfStep
<1>2. graph' = graph
  BY <1>1, GraphStays
<1> DEFINE t == Resume(Len(requests) + 1)
<1>3. /\ t \in Threads /\ chain[t].at = "idle" /\ Working(chain'[t]) = {}
      /\ \A u \in Threads : u # t => chain'[u] = chain[u]
  BY <1>1, RequestMoves
<1> HIDE DEF t
<1>4. Working(chain[t]) = {}
  BY <1>1, <1>3, WorkingFacts
<1>5. ASSUME NEW s \in Steps
      PROVE  PhaseOf(graph', chain', s) = PhaseOf(graph, chain, s)
  <2>1. \A u \in Threads :
          s \in Working(chain[u]) \/ s \in Working(chain'[u])
            => chain'[u] = chain[u]
    BY <1>3, <1>4
  <2>2. graph'[s] = graph[s]
    BY <1>2
  <2>3. chain \in [Threads -> Frames] /\ chain' \in [Threads -> Frames]
    BY <1>1
  <2> QED BY <2>1, <2>2, <2>3, OtherPhase
<1> QED BY <1>1, <1>5, SamePhases

\* Whatever a thread drops on its way is stalled.
LEMMA DroppedWorkStalls ==
  ASSUME Careful, LifecycleInvariant, [SystemNext]_vars,
         NEW t \in Threads, NEW g \in Frames, graph' = graph,
         chain'[t] = g, \A u \in Threads : u # t => chain'[u] = chain[u],
         Working(g) \subseteq Working(chain[t]),
         \A s \in Working(g) : Lodged(g, s) <=> Lodged(chain[t], s)
  PROVE  Lifecycle!Next
<1>1. /\ StepPhase = Phases(graph, chain)
      /\ StepPhase' = Phases(graph', chain')
      /\ Alone(graph, chain) /\ Alone(graph', chain')
      /\ chain \in [Threads -> Frames] /\ chain' \in [Threads -> Frames]
  BY PhasesOfStep
<1> DEFINE D == Working(chain[t]) \ Working(g)
           was(s) == PhaseOf(graph, chain, s)
           is(s) == PhaseOf(graph', chain', s)
<1>2. D \subseteq Steps
  BY <1>1, WorkingFacts
<1>3. ASSUME NEW s \in Steps
      PROVE  /\ s \notin Working(chain[t]) => is(s) = was(s)
             /\ s \in Working(chain[t]) =>
                  was(s) = IF Lodged(chain[t], s) THEN "filed" ELSE "active"
             /\ s \in Working(chain'[t]) =>
                  is(s) = IF Lodged(chain'[t], s) THEN "filed" ELSE "active"
             /\ s \in Working(chain[t]) \ Working(chain'[t]) =>
                  is(s) = "stalled"
  BY <1>1, PhasesOfMove
<1>4. \A s \in Steps : is(s) = IF s \in D THEN "stalled" ELSE was(s)
  BY <1>3
<1>5. \A s \in D : was(s) \in {"active", "filed"}
  BY <1>2, <1>3
<1> HIDE DEF D, was, is
<1>6. /\ \A s \in Steps : StepPhase[s] = was(s)
      /\ StepPhase' = [s \in Steps |-> is(s)]
  BY <1>1 DEF Phases, was, is
<1>7. StepPhase' = [s \in Steps |-> IF s \in D THEN "stalled" ELSE StepPhase[s]]
  BY <1>4, <1>6
<1>8. Lifecycle!Stall(D)
  BY <1>2, <1>5, <1>6, <1>7 DEF Lifecycle!Stall
<1> QED BY <1>2, <1>8 DEF Lifecycle!Next

LEMMA QuietStepsStall ==
  ASSUME Careful, LifecycleInvariant, [SystemNext]_vars,
         NEW t \in Threads, NEW g \in Frames, Quiet(t, g)
  PROVE  Lifecycle!Next
<1>1. /\ SystemBase /\ "validate" \notin Failing
      /\ chain' = [chain EXCEPT ![t] = g] /\ chain[t] \in Frames
  BY ApplicationFacts
  DEF LifecycleInvariant, ReviewInvariant, Careful, Quiet
<1>2. graph' = graph
  BY <1>1, GraphStays
<1>3. /\ chain'[t] = g /\ Working(g) \subseteq Working(chain[t])
      /\ \A u \in Threads : u # t => chain'[u] = chain[u]
  BY <1>1, NoNewWork
<1>4. /\ chain[t].at \in LoopAt \cup {"NEXT_ACTION_TRIGGERED"}
      /\ chain[t].at # "APPLICATION_SUBMITTED"
      /\ g.at # "APPLICATION_SUBMITTED"
      /\ g = Done \/ g.steps = chain[t].steps
  BY DEF Quiet, LoopAt
<1>5. ~Awaiting(chain[t]) /\ chain[t].steps # {}
  BY <1>1, <1>4, ListedIsNotAwaiting
<1>6. ~Awaiting(g)
  BY <1>4, <1>5, SimpleFrames, ListedIsNotAwaiting
<1>7. \A s \in Steps : ~Lodged(g, s) /\ ~Lodged(chain[t], s)
  BY <1>1, <1>4, <1>5, <1>6, LodgedWork
<1>8. Working(g) \subseteq Steps
  BY WorkingFacts
<1> QED BY <1>2, <1>3, <1>7, <1>8, DroppedWorkStalls

LEMMA PollingKeepsOrStalls ==
  ASSUME Careful, LifecycleInvariant, [SystemNext]_vars,
         NEW t \in Threads, NEW g \in Frames, NEW record, PollHop(t, g, record)
  PROVE  Lifecycle!Next
<1>1. /\ SystemBase /\ "validate" \notin Failing
      /\ chain' = [chain EXCEPT ![t] = g] /\ chain[t] \in Frames
  BY ApplicationFacts
  DEF LifecycleInvariant, ReviewInvariant, Careful, PollHop
<1>2. graph' = graph
  BY <1>1, GraphStays
<1>3. /\ chain'[t] = g /\ Working(g) \subseteq Working(chain[t])
      /\ \A u \in Threads : u # t => chain'[u] = chain[u]
  BY <1>1, NoNewWork
<1>4. /\ chain[t].at = "polling" /\ g.steps = {}
      /\ \/ g = Done
         \/ g.at \in VerdictAt \cup {"DOCUMENT_MISSING"} /\ g.step = chain[t].step
  BY DEF PollHop, VerdictAt
<1>5. ASSUME NEW s \in Working(g)
      PROVE  Lodged(g, s) /\ Lodged(chain[t], s)
  <2>1. g # Done
    BY <1>5, SimpleFrames, WorkingFacts
  <2>2. Awaiting(g) /\ g.step = chain[t].step /\ Awaiting(chain[t])
    BY <1>4, <2>1 DEF Awaiting, VerdictAt
  <2>3. s = chain[t].step
    BY <1>1, <1>3, <1>4, <1>5, WorkingFacts DEF VerdictAt
  <2> QED BY <2>2, <2>3 DEF Lodged
<1> QED BY <1>2, <1>3, <1>5, DroppedWorkStalls

LEMMA SubmissionFiles ==
  ASSUME Careful, LifecycleInvariant, [SystemNext]_vars,
         NEW t \in Threads, NEW g \in Frames, SubmitHop(t, g)
  PROVE  Lifecycle!Next
<1>1. /\ StepPhase = Phases(graph, chain)
      /\ StepPhase' = Phases(graph', chain')
      /\ Alone(graph, chain) /\ Alone(graph', chain')
      /\ chain \in [Threads -> Frames] /\ chain' \in [Threads -> Frames]
      /\ SystemBase /\ "validate" \notin Failing
      /\ chain' = [chain EXCEPT ![t] = g]
  BY PhasesOfStep DEF Careful, SubmitHop
<1>2. graph' = graph
  BY <1>1, GraphStays
<1>3. /\ chain'[t] = g /\ Working(g) \subseteq Working(chain[t])
      /\ \A u \in Threads : u # t => chain'[u] = chain[u]
  BY <1>1, NoNewWork
<1> DEFINE x == chain[t].step
           was(s) == PhaseOf(graph, chain, s)
           is(s) == PhaseOf(graph', chain', s)
<1>4. /\ chain[t].at = "APPLICATION_READY" /\ g.at = "APPLICATION_SUBMITTED"
      /\ g.step = x /\ Todo(g) = Todo(chain[t]) /\ chain[t] \in Frames
  BY <1>1 DEF SubmitHop
<1>5. /\ x \in Steps
      /\ Working(g) = Todo(g) \cup {x}
      /\ Working(chain[t]) = Todo(g) \cup {x}
  BY <1>4, WorkingFacts
<1>6. \A s \in Steps : ~Lodged(chain[t], s)
  BY <1>4, ListedIsNotAwaiting, LodgedWork DEF LoopAt
<1>7. \A s \in Steps : Lodged(g, s) <=> s = x
  BY <1>4, LodgedWork
<1>8. ASSUME NEW s \in Steps
      PROVE  /\ s \notin Working(chain[t]) => is(s) = was(s)
             /\ s \in Working(chain[t]) =>
                  was(s) = IF Lodged(chain[t], s) THEN "filed" ELSE "active"
             /\ s \in Working(chain'[t]) =>
                  is(s) = IF Lodged(chain'[t], s) THEN "filed" ELSE "active"
  <2> DEFINE h == graph'
             dh == chain'
  <2>1. /\ Alone(graph, chain) /\ Alone(h, dh) /\ h[s] = graph[s]
        /\ chain \in [Threads -> Frames] /\ dh \in [Threads -> Frames]
        /\ \A u \in Threads : u # t => dh[u] = chain[u]
        /\ Working(dh[t]) \subseteq Working(chain[t])
    BY <1>1, <1>2, <1>3
  <2> HIDE DEF h, dh
  <2>2. /\ s \notin Working(chain[t]) =>
             PhaseOf(h, dh, s) = PhaseOf(graph, chain, s)
        /\ s \in Working(chain[t]) =>
             PhaseOf(graph, chain, s) =
               IF Lodged(chain[t], s) THEN "filed" ELSE "active"
        /\ s \in Working(dh[t]) =>
             PhaseOf(h, dh, s) =
               IF Lodged(dh[t], s) THEN "filed" ELSE "active"
    BY <2>1, PhasesOfMove
  <2> QED BY <2>2 DEF h, dh
<1> HIDE DEF x, was, is
<1>9. was(x) = "active" /\ \A s \in Steps : is(s) = IF s = x THEN "filed" ELSE was(s)
  BY <1>3, <1>5, <1>6, <1>7, <1>8
<1>10. /\ StepPhase = [s \in Steps |-> was(s)]
       /\ StepPhase' = [s \in Steps |-> is(s)]
  BY <1>1 DEF Phases, was, is
<1>11. /\ StepPhase[x] = "active"
       /\ StepPhase' = [StepPhase EXCEPT ![x] = "filed"]
  BY <1>5, <1>9, <1>10
<1> QED BY <1>5, <1>11 DEF Lifecycle!Next, Lifecycle!File

\* Handing an application over to the task that polls it changes no phase.
LEMMA WatchKeepsPhases ==
  ASSUME Careful, LifecycleInvariant, [SystemNext]_vars,
         NEW t \in Threads, WatchHop(t)
  PROVE  StepPhase' = StepPhase
<1>1. /\ StepPhase = Phases(graph, chain)
      /\ StepPhase' = Phases(graph', chain')
      /\ Alone(graph, chain) /\ Alone(graph', chain')
      /\ chain \in [Threads -> Frames] /\ chain' \in [Threads -> Frames]
      /\ SystemBase /\ LedgerInvariant
  BY PhasesOfStep DEF LifecycleInvariant
<1>2. graph' = graph
  BY <1>1, GraphStays
<1> DEFINE a == chain[t].app
           p == Poll(a)
           x == chain[t].step
           r == chain'[t]
<1>3. /\ a \in 1..Len(applications) /\ x \in Steps
      /\ r = Returned(chain[t]) /\ r.at \in {"done", "checklist"}
      /\ p # t
      /\ p \in Threads => chain[p].at = "idle" /\ chain'[p] = Polling(x, a)
      /\ \A u \in Threads : u # t /\ u # p => chain'[u] = chain[u]
  BY <1>1, WatchMoves
<1>4. p \in Threads
  BY <1>1, <1>3, LedgerCovers, BoundsType, PollThreads
<1>5. /\ chain[t] \in Frames /\ chain[t].at = "APPLICATION_SUBMITTED"
      /\ r \in Frames /\ chain[p] \in Frames /\ Todo(r) = Todo(chain[t])
  BY <1>1, <1>3, <1>4, ReturnedFrame DEF WatchHop, LoopAt
<1>6. /\ Working(chain[t]) = Todo(r) \cup {x} /\ x \notin Todo(r)
      /\ Working(chain[p]) = {}
  BY <1>3, <1>4, <1>5, WorkingFacts
<1>7. Working(r) = Todo(r)
  <2>1. CASE r.at = "checklist"
    BY <1>5, <2>1, WorkingFacts
  <2>2. CASE r.at = "done"
    <3>1. r.steps = {}
      BY <1>5, <2>2 DEF Frames, FrameShape
    <3> QED BY <1>5, <2>2, <3>1, WorkingFacts DEF Todo
  <2> QED BY <1>3, <2>1, <2>2
<1>8. /\ Working(chain'[p]) = {x}
      /\ \A s \in Steps : Lodged(chain'[p], s) <=> s = x
  <2>1. /\ Polling(x, a) \in Frames /\ Polling(x, a).at = "polling"
        /\ Polling(x, a).step = x
    BY <1>3, PollingFrame
  <2>2. /\ Working(Polling(x, a)) = {x}
        /\ \A s \in Steps : Lodged(Polling(x, a), s) <=> s = x
    BY <2>1, WorkingFacts, LodgedWork DEF VerdictAt
  <2> QED BY <1>3, <1>4, <2>2
<1>9. \A s \in Steps : /\ Lodged(chain[t], s) <=> s = x
                       /\ ~Lodged(r, s)
  BY <1>3, <1>5, ListedIsNotAwaiting, LodgedWork DEF LoopAt
<1> HIDE DEF a, p, x, r
<1>10. ASSUME NEW s \in Steps
       PROVE  PhaseOf(graph', chain', s) = PhaseOf(graph, chain, s)
  <2>1. CASE s = x
    <3>1. PhaseOf(graph, chain, s) = "filed"
      BY <1>1, <1>6, <1>9, <2>1, WorkedPhase
    <3>2. PhaseOf(graph', chain', s) = "filed"
      BY <1>1, <1>4, <1>8, <2>1, WorkedPhase
    <3> QED BY <3>1, <3>2
  <2>2. CASE s \in Todo(r)
    <3>1. PhaseOf(graph, chain, s) = "active"
      BY <1>1, <1>6, <1>9, <2>2, WorkedPhase
    <3>2. s \in Working(chain'[t]) /\ ~Lodged(chain'[t], s)
      BY <1>7, <1>9, <2>2 DEF r
    <3>3. PhaseOf(graph', chain', s) = "active"
      BY <1>1, <3>2, WorkedPhase
    <3> QED BY <3>1, <3>3
  <2>3. CASE s # x /\ s \notin Todo(r)
    <3>1. \A u \in Threads :
            s \in Working(chain[u]) \/ s \in Working(chain'[u])
              => chain'[u] = chain[u]
      BY <1>3, <1>6, <1>7, <1>8, <2>3 DEF r
    <3>2. graph'[s] = graph[s]
      BY <1>2
    <3>3. chain \in [Threads -> Frames] /\ chain' \in [Threads -> Frames]
      BY <1>1
    <3> QED BY <3>1, <3>2, <3>3, OtherPhase
  <2> QED BY <2>1, <2>2, <2>3
<1> QED BY <1>1, <1>10, SamePhases

\* A halted step is blocked, an abandoned one failed; the thread goes on with
\* what else it works on.
LEMMA HaltsHalt ==
  ASSUME Careful, LifecycleInvariant, [SystemNext]_vars,
         NEW t \in Threads, NEW g \in Frames, HaltHop(t, g)
  PROVE  Lifecycle!Next
<1>1. /\ StepPhase = Phases(graph, chain)
      /\ StepPhase' = Phases(graph', chain')
      /\ Alone(graph, chain) /\ Alone(graph', chain')
      /\ chain \in [Threads -> Frames] /\ chain' \in [Threads -> Frames]
      /\ SystemBase /\ ReviewInvariant /\ "validate" \notin Failing
      /\ graph \in [Steps -> StepStatus]
      /\ chain' = [chain EXCEPT ![t] = g]
  BY PhasesOfStep DEF Careful, HaltHop
<1> DEFINE x == chain[t].step
           was(s) == PhaseOf(graph, chain, s)
           is(s) == PhaseOf(graph', chain', s)
           halt == graph[x] = "RUNNING"
<1>2. /\ chain'[t] = g /\ Working(g) \subseteq Working(chain[t])
      /\ \A u \in Threads : u # t => chain'[u] = chain[u]
      /\ x \notin Working(g)
  BY <1>1, NoNewWork
<1>3. /\ x \in Steps /\ graph[x] \in {"RUNNING", "BLOCKED"}
      /\ \A u \in Threads : u # t => x \notin Working(chain[u])
      /\ ~halt => /\ chain[t].at = "WORKFLOW_RESUMED"
                  /\ graph' = MarkStepStatus(graph, x, "FAILED")
      /\ halt => /\ chain[t].at # "WORKFLOW_RESUMED"
                 /\ x \in Working(chain[t])
                 /\ graph' = MarkStepStatus(graph, x, "BLOCKED")
  BY <1>1, HaltedStep
<1>4. /\ \A s \in Steps : s # x => graph'[s] = graph[s]
      /\ graph'[x] = IF halt THEN "BLOCKED" ELSE "FAILED"
  BY <1>1, <1>3 DEF MarkStepStatus
<1>5. \A s \in Steps : /\ s # x => (s \in Working(g) <=> s \in Working(chain[t]))
                       /\ s # x => ~Lodged(chain[t], s)
                       /\ ~Lodged(g, s)
  <2> DEFINE f == chain[t]
  <2>1. f \in Frames
    BY <1>1
  <2>2. \A s \in Steps : s # x => ~Lodged(f, s)
    BY <2>1, LodgedWork
  <2>3. CASE f.at = "APPLICATION_REJECTED" /\ g = Done
    <3>1. Working(f) = {x} /\ Working(g) = {}
      BY <2>1, <2>3, SimpleFrames, WorkingFacts DEF VerdictAt
    <3> QED BY <2>2, <3>1, LodgedWork
  <2>4. CASE f.at = "WORKFLOW_RESUMED" /\ g = Done
    <3>1. Working(f) = {} /\ Working(g) = {}
      BY <2>1, <2>4, SimpleFrames, WorkingFacts
    <3> QED BY <2>2, <3>1, LodgedWork
  <2>5. CASE f.at = "DOCUMENT_MISSING" /\ g = Returned(f)
    <3>1. /\ Todo(g) = Todo(f)
          /\ g.at = IF Todo(f) = {} THEN "done" ELSE "checklist"
      BY <2>1, <2>5, ReturnedFrame
    <3>2. Working(g) = Todo(f) /\ Working(f) = Todo(f) \cup {x}
      BY <2>1, <2>5, <3>1, WorkingFacts
    <3>3. ~Awaiting(g)
      BY <3>1, ListedIsNotAwaiting DEF LoopAt
    <3> QED BY <2>2, <3>1, <3>2, <3>3, LodgedWork
  <2> QED BY <2>3, <2>4, <2>5 DEF HaltHop
<1>6. ASSUME NEW s \in Steps, s # x
      PROVE  is(s) = was(s)
  <2>1. graph'[s] = graph[s]
    BY <1>4, <1>6
  <2>2. /\ s \notin Working(chain[t]) => is(s) = was(s)
        /\ s \in Working(chain[t]) =>
             was(s) = IF Lodged(chain[t], s) THEN "filed" ELSE "active"
        /\ s \in Working(chain'[t]) =>
             is(s) = IF Lodged(chain'[t], s) THEN "filed" ELSE "active"
    <3> DEFINE h == graph'
               dh == chain'
    <3>1. /\ Alone(graph, chain) /\ Alone(h, dh) /\ h[s] = graph[s]
          /\ chain \in [Threads -> Frames] /\ dh \in [Threads -> Frames]
          /\ \A u \in Threads : u # t => dh[u] = chain[u]
          /\ Working(dh[t]) \subseteq Working(chain[t])
      BY <1>1, <1>2, <2>1
    <3> HIDE DEF h, dh
    <3>2. /\ s \notin Working(chain[t]) =>
               PhaseOf(h, dh, s) = PhaseOf(graph, chain, s)
          /\ s \in Working(chain[t]) =>
               PhaseOf(graph, chain, s) =
                 IF Lodged(chain[t], s) THEN "filed" ELSE "active"
          /\ s \in Working(dh[t]) =>
               PhaseOf(h, dh, s) =
                 IF Lodged(dh[t], s) THEN "filed" ELSE "active"
      BY <3>1, PhasesOfMove
    <3> QED BY <3>2 DEF h, dh
  <2> QED BY <1>2, <1>5, <1>6, <2>2
<1>7. is(x) = IF halt THEN "halted" ELSE "abandoned"
  BY <1>3, <1>4, StatusPhases
<1>8. /\ halt => was(x) \in {"active", "filed"}
      /\ ~halt => was(x) = "halted"
  <2>1. halt => was(x) = IF Lodged(chain[t], x) THEN "filed" ELSE "active"
    BY <1>1, <1>3, WorkedPhase
  <2> QED BY <1>3, <2>1, StatusPhases
<1> HIDE DEF x, was, is, halt
<1>9. /\ StepPhase = [s \in Steps |-> was(s)]
      /\ StepPhase' = [s \in Steps |-> is(s)]
  BY <1>1 DEF Phases, was, is
<1>10. StepPhase' =
         [StepPhase EXCEPT ![x] = IF halt THEN "halted" ELSE "abandoned"]
  BY <1>3, <1>6, <1>7, <1>9
<1>11. StepPhase[x] = was(x)
  BY <1>3, <1>9
<1>12. CASE halt
  BY <1>3, <1>8, <1>10, <1>11, <1>12 DEF Lifecycle!Next, Lifecycle!Halt
<1>13. CASE ~halt
  BY <1>3, <1>8, <1>10, <1>11, <1>13 DEF Lifecycle!Next, Lifecycle!Abandon
<1> QED BY <1>12, <1>13

\* The steps that become ready once a step is marked start at once: the
\* phases with that step marked, here of any phases p.
LEMMA ReadyMeansStartable ==
  ASSUME NEW m, NEW p,
         \A s \in Steps : p[s] = "waiting" <=> m[s] = "PENDING",
         \A s \in Steps : p[s] = "done" <=> m[s] = "COMPLETED",
         NEW s \in Steps
  PROVE  Lifecycle!Startable(p, s) <=> s \in ReadySteps(m)
<1>1. DependsOn[s] \subseteq Steps
  BY DependenciesOf
<1> QED BY <1>1 DEF Lifecycle!Startable, ReadySteps, PendingStepIds, StepsWith

\* Of a claim: every step outside the claimed ones and the step of the event
\* keeps its phase, and the claimed ones become active.
LEMMA PhasesOfClaim ==
  ASSUME Careful, LifecycleInvariant, [SystemNext]_vars,
         NEW t \in Threads, NEW m \in [Steps -> StepStatus], ClaimHop(t, m),
         NEW s \in Steps
  PROVE  /\ s \in ReadySteps(m) => PhaseOf(graph', chain', s) = "active"
         /\ s \notin ReadySteps(m) /\ s # chain[t].step =>
              PhaseOf(graph', chain', s) = PhaseOf(graph, chain, s)
         /\ s \notin ReadySteps(m) => graph'[s] = m[s]
         /\ s # chain[t].step => m[s] = graph[s]
<1>1. /\ Alone(graph, chain) /\ Alone(graph', chain')
      /\ chain \in [Threads -> Frames] /\ chain' \in [Threads -> Frames]
      /\ SystemBase /\ ReviewInvariant
  BY PhasesOfStep
<1>2. /\ Working(chain'[t]) = ReadySteps(m)
      /\ chain'[t].at \in {"done", "NEXT_ACTION_TRIGGERED"}
      /\ \A u \in Threads : u # t => chain'[u] = chain[u]
  BY <1>1, WorkClaimed
<1>3. /\ \A r \in Steps :
           graph'[r] = IF r \in ReadySteps(m) THEN "RUNNING" ELSE m[r]
      /\ \A r \in Steps : r # chain[t].step => m[r] = graph[r]
  BY <1>1, ClaimedGraph
<1>4. ~Lodged(chain'[t], s)
  BY <1>1, <1>2, ListedIsNotAwaiting, LodgedWork
<1>5. s \in ReadySteps(m) => PhaseOf(graph', chain', s) = "active"
  BY <1>1, <1>2, <1>4, WorkedPhase
<1>6. Working(chain[t]) \subseteq {chain[t].step}
  <2>1. chain[t] \in Frames
    BY <1>1
  <2>2. \/ chain[t].at \in RootAt \cup {"WORKFLOW_RESUMED"}
        \/ chain[t].at \in VerdictAt
    BY DEF ClaimHop, RootAt, VerdictAt
  <2> QED BY <2>1, <2>2, WorkingFacts
<1>7. ASSUME s \notin ReadySteps(m), s # chain[t].step
      PROVE  PhaseOf(graph', chain', s) = PhaseOf(graph, chain, s)
  <2>1. graph'[s] = graph[s]
    BY <1>3, <1>7
  <2>2. \A u \in Threads :
          s \in Working(chain[u]) \/ s \in Working(chain'[u])
            => chain'[u] = chain[u]
    BY <1>2, <1>6, <1>7
  <2> QED BY <1>1, <2>1, <2>2, OtherPhase
<1> QED BY <1>3, <1>5, <1>7

\* A claim about no step starts what is ready; a retry starts its step again
\* and an approval makes it done, each with whatever that makes ready.
LEMMA ClaimsStart ==
  ASSUME Careful, LifecycleInvariant, [SystemNext]_vars,
         NEW t \in Threads, NEW m \in [Steps -> StepStatus], ClaimHop(t, m)
  PROVE  Lifecycle!Next
<1>1. /\ StepPhase = Phases(graph, chain)
      /\ StepPhase' = Phases(graph', chain')
      /\ Alone(graph, chain)
      /\ chain \in [Threads -> Frames]
      /\ SystemBase /\ ReviewInvariant /\ StartedInOrder
      /\ graph \in [Steps -> StepStatus]
  BY PhasesOfStep DEF LifecycleInvariant
<1> DEFINE x == chain[t].step
           was(s) == PhaseOf(graph, chain, s)
           is(s) == PhaseOf(graph', chain', s)
<1>2. ASSUME NEW s \in Steps
      PROVE  /\ s \in ReadySteps(m) => is(s) = "active"
             /\ s \notin ReadySteps(m) /\ s # x => is(s) = was(s)
             /\ s \notin ReadySteps(m) => graph'[s] = m[s]
             /\ s # x => m[s] = graph[s]
  <2>1. /\ s \in ReadySteps(m) => PhaseOf(graph', chain', s) = "active"
        /\ s \notin ReadySteps(m) /\ s # chain[t].step =>
             PhaseOf(graph', chain', s) = PhaseOf(graph, chain, s)
        /\ s \notin ReadySteps(m) => graph'[s] = m[s]
        /\ s # chain[t].step => m[s] = graph[s]
    BY PhasesOfClaim, Zenon
  <2> QED BY <2>1
<1>3. /\ x \in Steps =>
           \/ /\ chain[t].at = "WORKFLOW_RESUMED"
              /\ graph[x] = "BLOCKED" /\ m[x] = "PENDING"
           \/ /\ chain[t].at = "APPLICATION_APPROVED"
              /\ graph[x] = "RUNNING" /\ x \in Working(chain[t])
              /\ m[x] = "COMPLETED"
      /\ x \notin Steps => m = graph
      /\ \A s \in ReadySteps(m) : s \in Steps /\ m[s] = "PENDING"
  BY <1>1, ClaimedGraph
<1>4. \A s \in Steps : /\ was(s) = "waiting" <=> graph[s] = "PENDING"
                       /\ was(s) = "done" <=> graph[s] = "COMPLETED"
                       /\ graph[s] = "BLOCKED" => was(s) = "halted"
                       /\ graph'[s] = "COMPLETED" => is(s) = "done"
  <2>1. ASSUME NEW s \in Steps
        PROVE  /\ PhaseOf(graph, chain, s) = "waiting" <=> graph[s] = "PENDING"
               /\ PhaseOf(graph, chain, s) = "done" <=> graph[s] = "COMPLETED"
               /\ graph[s] = "BLOCKED" => PhaseOf(graph, chain, s) = "halted"
               /\ PhaseOf(graph', chain', s) = "done" <=>
                    graph'[s] = "COMPLETED"
    BY DEF PhaseOf, WhileRunning
  <2> QED BY <2>1
<1>5. x \in Steps /\ chain[t].at = "APPLICATION_APPROVED" => was(x) = "filed"
  <2>1. ASSUME x \in Steps, chain[t].at = "APPLICATION_APPROVED"
        PROVE  was(x) = "filed"
    <3>1. x \in Working(chain[t]) /\ Lodged(chain[t], x)
      BY <1>1, <2>1, LodgedWork DEF VerdictAt
    <3> QED BY <1>1, <2>1, <3>1, WorkedPhase
  <2> QED BY <2>1
<1>6. StepPhase = [s \in Steps |-> was(s)] /\ StepPhase' = [s \in Steps |-> is(s)]
  BY <1>1 DEF Phases
<1> HIDE DEF x, was, is
<1>7. CASE x \notin Steps
  <2>1. /\ \A s \in Steps : StepPhase[s] = "waiting" <=> m[s] = "PENDING"
        /\ \A s \in Steps : StepPhase[s] = "done" <=> m[s] = "COMPLETED"
    BY <1>3, <1>4, <1>6, <1>7
  <2>2. \A s \in Steps : Lifecycle!Startable(StepPhase, s) <=> s \in ReadySteps(m)
    BY <2>1, ReadyMeansStartable
  <2>3. \A s \in Steps :
          is(s) = IF Lifecycle!Startable(StepPhase, s) THEN "active"
                  ELSE StepPhase[s]
    BY <1>2, <1>6, <1>7, <2>2
  <2>4. StepPhase' = Lifecycle!Started(StepPhase)
    BY <1>6, <2>3 DEF Lifecycle!Started
  <2> QED BY <2>4 DEF Lifecycle!Next, Lifecycle!Start
<1>8. CASE x \in Steps /\ chain[t].at = "WORKFLOW_RESUMED"
  <2> DEFINE p == [StepPhase EXCEPT ![x] = "active"]
  <2>1. m[x] = "PENDING" /\ was(x) = "halted" /\ graph[x] = "BLOCKED"
    BY <1>3, <1>4, <1>8
  <2>2. x \in ReadySteps(m)
    <3>1. \A d \in DependsOn[x] : d \in Steps /\ d # x /\ graph[d] = "COMPLETED"
      BY <1>1, <1>8, <2>1, DependenciesOf DEF StartedInOrder
    <3>2. \A d \in DependsOn[x] : m[d] = "COMPLETED"
      BY <1>2, <3>1
    <3> QED
      BY <1>8, <2>1, <3>2 DEF ReadySteps, PendingStepIds, StepsWith
  <2>3. \A s \in Steps : p[s] = IF s = x THEN "active" ELSE was(s)
    BY <1>6
  <2> HIDE DEF p
  <2>4. ASSUME NEW s \in Steps, s # x
        PROVE  Lifecycle!Startable(p, s) <=> s \in ReadySteps(m)
    <3>1. \A d \in DependsOn[s] : d \in Steps
      BY DependenciesOf
    <3>2. \A d \in Steps : p[d] = "done" <=> m[d] = "COMPLETED"
      BY <1>2, <1>4, <2>1, <2>3
    <3>3. p[s] = "waiting" <=> m[s] = "PENDING"
      BY <1>2, <1>4, <2>3, <2>4
    <3> QED BY <3>1, <3>2, <3>3
            DEF Lifecycle!Startable, ReadySteps, PendingStepIds, StepsWith
  <2>5. ~Lifecycle!Startable(p, x)
    BY <1>8, <2>3 DEF Lifecycle!Startable
  <2>6. \A s \in Steps :
          is(s) = IF Lifecycle!Startable(p, s) THEN "active" ELSE p[s]
    BY <1>2, <2>2, <2>3, <2>4, <2>5
  <2>7. StepPhase' = Lifecycle!Started(p)
    BY <1>6, <2>6 DEF Lifecycle!Started
  <2>8. StepPhase[x] = "halted"
    BY <1>6, <1>8, <2>1
  <2> QED BY <1>8, <2>7, <2>8 DEF Lifecycle!Next, Lifecycle!Retry, p
<1>9. CASE x \in Steps /\ chain[t].at = "APPLICATION_APPROVED"
  <2> DEFINE p == [StepPhase EXCEPT ![x] = "done"]
  <2>1. m[x] = "COMPLETED" /\ was(x) = "filed" /\ x \notin ReadySteps(m)
    BY <1>3, <1>5, <1>9
  <2>2. \A s \in Steps : p[s] = IF s = x THEN "done" ELSE was(s)
    BY <1>6
  <2> HIDE DEF p
  <2>3. /\ \A s \in Steps : p[s] = "waiting" <=> m[s] = "PENDING"
        /\ \A s \in Steps : p[s] = "done" <=> m[s] = "COMPLETED"
    BY <1>2, <1>4, <2>1, <2>2
  <2>4. \A s \in Steps : Lifecycle!Startable(p, s) <=> s \in ReadySteps(m)
    BY <2>3, ReadyMeansStartable
  <2>5. is(x) = "done"
    BY <1>2, <1>4, <1>9, <2>1
  <2>6. \A s \in Steps :
          is(s) = IF Lifecycle!Startable(p, s) THEN "active" ELSE p[s]
    BY <1>2, <2>1, <2>2, <2>4, <2>5
  <2>7. StepPhase' = Lifecycle!Started(p)
    BY <1>6, <2>6 DEF Lifecycle!Started
  <2>8. StepPhase[x] = "filed"
    BY <1>6, <1>9, <2>1
  <2> QED BY <1>9, <2>7, <2>8 DEF Lifecycle!Next, Lifecycle!Approve, p
<1> QED BY <1>3, <1>7, <1>8, <1>9

LEMMA StepsFollowLifecycle ==
  ASSUME Careful, LifecycleInvariant, [SystemNext]_vars
  PROVE  [Lifecycle!Next]_StepPhase
<1>1. SystemBase
  BY DEF LifecycleInvariant, ReviewInvariant
<1>2. CASE UNCHANGED vars
  <2>1. graph' = graph /\ chain' = chain
    BY <1>2 DEF vars, engineVars
  <2>2. StepPhase = Phases(graph, chain) /\ StepPhase' = Phases(graph', chain')
    BY PhasesOfStep
  <2>3. StepPhase' = StepPhase
    BY <2>1, <2>2
  <2> QED BY <2>3
<1>3. ASSUME NEW g \in Frames, RootHop(g) PROVE StepPhase' = StepPhase
  BY <1>3, RootKeepsPhases
<1>4. ASSUME NEW t \in Threads, NEW g \in Frames,
             Quiet(t, g) \/ SubmitHop(t, g) \/ HaltHop(t, g)
      PROVE  Lifecycle!Next
  BY <1>4, QuietStepsStall, SubmissionFiles, HaltsHalt
<1>5. ASSUME NEW t \in Threads, WatchHop(t) PROVE StepPhase' = StepPhase
  BY <1>5, WatchKeepsPhases
<1>6. ASSUME NEW t \in Threads, NEW g \in Frames, NEW record,
             PollHop(t, g, record)
      PROVE  Lifecycle!Next
  BY <1>6, PollingKeepsOrStalls
<1>7. ASSUME NEW t \in Threads, NEW m \in [Steps -> StepStatus], ClaimHop(t, m)
      PROVE  Lifecycle!Next
  BY <1>7, ClaimsStart
<1>8. ASSUME NEW s \in Steps \cup {NoStep}, NEW action \in {"retry", "abandon"},
             UserHop(s, action)
      PROVE  StepPhase' = StepPhase
  BY <1>8, UserKeepsPhases
<1>9. CASE SystemNext
  BY <1>1, <1>3, <1>4, <1>5, <1>6, <1>7, <1>8, <1>9, SystemHops
<1> QED BY <1>2, <1>9

LEMMA InitFollowsLifecycle == SystemInit => Lifecycle!Init
<1> SUFFICES ASSUME SystemInit PROVE Lifecycle!Init
  OBVIOUS
<1>1. StepPhase = Phases(graph, chain) /\ graph = InitialGraph
  BY InitLifecycle, PhasesAre DEF SystemInit, Init
<1> QED BY <1>1 DEF Lifecycle!Init, Phases, PhaseOf, InitialGraph

\* What the backend maintains about the life of each step while the user only
\* acts on blocked steps.
THEOREM LifecycleCorrect ==
  ASSUME User = "reviewer", "validate" \notin Failing
  PROVE  SystemSpec => []LifecycleInvariant
<1>1. Careful
  BY DEF Careful
<1>2. LifecycleInvariant /\ [SystemNext]_vars => LifecycleInvariant'
  BY <1>1, NextKeepsLifecycle
<1> QED BY <1>2, InitLifecycle, PTL DEF SystemSpec

\* While the user only acts on blocked steps, agents, engine and polling
\* tasks together do no more with a step than StepLifecycle allows.
THEOREM BackendImplementsLifecycle ==
  ASSUME User = "reviewer", "validate" \notin Failing
  PROVE  SystemSpec => ImplementsLifecycle
<1>1. Careful
  BY DEF Careful
<1>2. LifecycleInvariant /\ [SystemNext]_vars => [Lifecycle!Next]_StepPhase
  BY <1>1, StepsFollowLifecycle
<1> QED
  BY <1>2, InitFollowsLifecycle, LifecycleCorrect, PTL
  DEF SystemSpec, ImplementsLifecycle, Lifecycle!Spec

============================================================================
