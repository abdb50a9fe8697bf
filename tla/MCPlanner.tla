----------------------------- MODULE MCPlanner -----------------------------
(* Every answer of the LLM about three of the services and an unknown one.  *)
EXTENDS Planner

ThreeServices == {"business_registration", "food_license", "local_approval"}

ThreeDependencies ==
  [s \in ThreeServices |->
     CASE s = "business_registration" -> {}
       [] s = "food_license" -> {"business_registration"}
       [] s = "local_approval" -> {"food_license"}]

============================================================================
