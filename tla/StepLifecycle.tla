--------------------------- MODULE StepLifecycle ---------------------------
(***************************************************************************)
(* What the backend promises about the steps of a workflow, without agents, *)
(* events, polls or rows: the life of each service application, seen from   *)
(* outside.  GovFlow implements it as long as the user only resumes blocked *)
(* steps.                                                                   *)
(*                                                                          *)
(*   waiting -> active -> filed -> done                                     *)
(*   active, filed -> halted        (rejected, or documents missing)        *)
(*   halted -> active, abandoned    (the user's decision)                   *)
(*   active, filed -> stalled       (nobody works on it any more)           *)
(*                                                                          *)
(* A step is filed with the government only from active: never twice, and   *)
(* never again once it is done.                                             *)
(***************************************************************************)
CONSTANTS Steps, DependsOn

VARIABLE phase

Phases ==
  {"waiting", "active", "filed", "halted", "done", "abandoned", "stalled"}

TypeOK == phase \in [Steps -> Phases]

Init == phase = [s \in Steps |-> "waiting"]

Startable(p, s) ==
  p[s] = "waiting" /\ \A d \in DependsOn[s] : p[d] = "done"

\* Everything whose prerequisites are done starts at once.
Started(p) ==
  [s \in Steps |-> IF Startable(p, s) THEN "active" ELSE p[s]]

Start == phase' = Started(phase)

File(s) == phase[s] = "active" /\ phase' = [phase EXCEPT ![s] = "filed"]

Approve(s) ==
  /\ phase[s] = "filed"
  /\ phase' = Started([phase EXCEPT ![s] = "done"])

Halt(s) ==
  /\ phase[s] \in {"active", "filed"}
  /\ phase' = [phase EXCEPT ![s] = "halted"]

Retry(s) ==
  /\ phase[s] = "halted"
  /\ phase' = Started([phase EXCEPT ![s] = "active"])

Abandon(s) ==
  phase[s] = "halted" /\ phase' = [phase EXCEPT ![s] = "abandoned"]

\* A gate makes the agents drop steps they were about to file, or the
\* monitor gives up polling one that is filed.
Stall(S) ==
  /\ \A s \in S : phase[s] \in {"active", "filed"}
  /\ phase' = [s \in Steps |-> IF s \in S THEN "stalled" ELSE phase[s]]

Next ==
  \/ Start
  \/ \E s \in Steps :
       File(s) \/ Approve(s) \/ Halt(s) \/ Retry(s) \/ Abandon(s)
  \/ \E S \in SUBSET Steps : Stall(S)

Spec == Init /\ [][Next]_phase

============================================================================
