-------------------------------- MODULE Dag --------------------------------
(* The plans the constructor of WorkflowGraph accepts.                      *)

(***************************************************************************)
(* Every dependency D[s] of a step of S is a step of S, and there is no     *)
(* cycle.  A finite graph has no cycle iff every non-empty set of steps has *)
(* a member that depends on none of the others.                             *)
(***************************************************************************)
IsDag(S, D) ==
  /\ D \in [S -> SUBSET S]
  /\ \A T \in (SUBSET S) \ {{}} : \E s \in T : D[s] \cap T = {}

============================================================================
