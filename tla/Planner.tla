------------------------------ MODULE Planner ------------------------------
(***************************************************************************)
(* How WorkflowPlannerAgent turns the answer of the LLM into the plan of a  *)
(* workflow (_build_validated_steps): it keeps services of the catalog and  *)
(* dependencies between the services it keeps, and has WorkflowGraph look   *)
(* for a cycle; if there is one it falls back to the default dependencies.  *)
(*                                                                          *)
(* The search (_has_cycle) is a recursive depth-first search in three       *)
(* colours; stack is the chain of visit() calls that have not returned.     *)
(* The loop of visit() has passed a dependency exactly if it is BLACK, so   *)
(* the colours say where each loop stands.  The order of the lists comes    *)
(* from the LLM, and the search may take them in any order.                 *)
(***************************************************************************)
EXTENDS Dag, Naturals, Sequences, FiniteSets

CONSTANTS
  Catalog,               \* CATALOG
  Foundation,            \* "business_registration"
  DefaultDependencies,   \* _DEFAULT_DEPENDENCIES
  Strangers              \* other names the LLM may use

\* The default edges are well-formed for any subset of the catalog.
ASSUME PlannerAssumption ==
  /\ IsFiniteSet(Catalog)
  /\ Foundation \in Catalog
  /\ IsDag(Catalog, DefaultDependencies)

VARIABLES
  plan,       \* the ServicePlan of the LLM
  source,     \* which dependencies are being checked
  color,      \* _has_cycle's color of each selected service
  stack,      \* visit()'s step_id, from the outermost call to the innermost
  outcome     \* what _build_validated_steps has come to

vars == <<plan, source, color, stack, outcome>>

Names == Catalog \cup Strangers

ServicePlan ==
  [services : SUBSET Names, dependencies : [Catalog -> SUBSET Names]]

\* The services of the workflow; the foundation is added if it is missing.
Selected == (plan.services \cap Catalog) \cup {Foundation}

Only(dependencies) == [s \in Selected |-> dependencies[s] \cap Selected]

Proposed == Only(plan.dependencies)

\* The depends_on of the candidate steps.
DependsOn == IF source = "proposed" THEN Proposed ELSE Only(DefaultDependencies)

AllWhite == [s \in Selected |-> "WHITE"]
Black == {s \in Selected : color[s] = "BLACK"}
Top == stack[Len(stack)]

Init ==
  /\ plan \in ServicePlan
  /\ source = "proposed"
  /\ color = AllWhite
  /\ stack = << >>
  /\ outcome = "searching"

----------------------------------------------------------------------------

\* visit(s) is called and colours its step.
Visit(s) ==
  /\ outcome = "searching"
  /\ color[s] = "WHITE"
  /\ color' = [color EXCEPT ![s] = "GRAY"]
  /\ stack' = Append(stack, s)
  /\ UNCHANGED <<plan, source, outcome>>

\* The outer loop, between two visits.
VisitRoot == stack = << >> /\ \E s \in Selected : Visit(s)

VisitDependency == stack # << >> /\ \E d \in DependsOn[Top] : Visit(d)

\* Error: a dependency that is being visited counts as done.
HastyReturn ==
  /\ outcome = "searching"
  /\ stack # << >>
  /\ \A d \in DependsOn[Top] : color[d] # "WHITE"
  /\ color' = [color EXCEPT ![Top] = "BLACK"]
  /\ stack' = SubSeq(stack, 1, Len(stack) - 1)
  /\ UNCHANGED <<plan, source, outcome>>

\* Error: visit() leaves its step GRAY.
UncolouredReturn ==
  /\ outcome = "searching"
  /\ stack # << >>
  /\ \A d \in DependsOn[Top] : color[d] = "BLACK"
  /\ stack' = SubSeq(stack, 1, Len(stack) - 1)
  /\ UNCHANGED <<plan, source, color, outcome>>

\* visit() returns False.
Return ==
  /\ outcome = "searching"
  /\ stack # << >>
  /\ \A d \in DependsOn[Top] : color[d] = "BLACK"
  /\ color' = [color EXCEPT ![Top] = "BLACK"]
  /\ stack' = SubSeq(stack, 1, Len(stack) - 1)
  /\ UNCHANGED <<plan, source, outcome>>

\* Error: two colours only, visited or not.
TwoColourCycleFound ==
  /\ outcome = "searching"
  /\ stack # << >>
  /\ \E d \in DependsOn[Top] : color[d] # "WHITE"
  /\ outcome' = IF source = "proposed" THEN outcome ELSE "raised"
  /\ source' = "default"
  /\ color' = AllWhite
  /\ stack' = << >>
  /\ UNCHANGED plan

\* Error: the second search starts with the colours of the first.
StaleCycleFound ==
  /\ outcome = "searching"
  /\ stack # << >>
  /\ \E d \in DependsOn[Top] : color[d] = "GRAY"
  /\ outcome' = IF source = "proposed" THEN outcome ELSE "raised"
  /\ source' = "default"
  /\ stack' = << >>
  /\ UNCHANGED <<plan, color>>

\* All visits return True and the constructor raises ValueError: the proposed
\* dependencies are given up; nobody catches the error for the default ones.
CycleFound ==
  /\ outcome = "searching"
  /\ stack # << >>
  /\ \E d \in DependsOn[Top] : color[d] = "GRAY"
  /\ outcome' = IF source = "proposed" THEN outcome ELSE "raised"
  /\ source' = "default"
  /\ color' = AllWhite
  /\ stack' = << >>
  /\ UNCHANGED plan

\* The outer loop is over and the constructor returns.
Accept ==
  /\ outcome = "searching"
  /\ stack = << >>
  /\ Black = Selected
  /\ outcome' = "accepted"
  /\ UNCHANGED <<plan, source, color, stack>>

Next == VisitRoot \/ VisitDependency \/ Return \/ CycleFound \/ Accept

Spec == Init /\ [][Next]_vars

\* It is one call, without an await.
FairSpec == Spec /\ WF_vars(Next)

----------------------------------------------------------------------------
(* Properties *)

\* Every variable has its type, and the gray steps are those on the stack.
TypeOK ==
  /\ plan \in ServicePlan
  /\ source \in {"proposed", "default"}
  /\ color \in [Selected -> {"WHITE", "GRAY", "BLACK"}]
  /\ stack \in Seq(Selected)
  /\ \A s \in Selected :
       color[s] = "GRAY" <=> \E i \in 1..Len(stack) : stack[i] = s
  /\ outcome \in {"searching", "accepted", "raised"}

\* The plan that becomes a workflow is one WorkflowGraph is meant for: its
\* dependencies are steps of it, and they have no cycle.
AcceptedPlanIsDag == outcome = "accepted" => IsDag(Selected, DependsOn)

\* The answer of the LLM is only given up if it really has a cycle.
FallsBackOnlyForCycles == source = "default" => ~IsDag(Selected, Proposed)

\* The default dependencies are never refused, so the handler does not raise.
FallbackIsAccepted == outcome # "raised"

\* The search ends.
Decides == <>(outcome # "searching")

============================================================================
