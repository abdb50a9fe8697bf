-------------------------- MODULE MCWorkflowEngine -------------------------
(* The engine on the default plan of the planner: four services, a diamond. *)
EXTENDS WorkflowEngine

Services ==
  {"business_registration", "tax_registration", "food_license",
   "local_approval"}

DefaultDependencies ==
  [s \in Services |->
     CASE s = "business_registration" -> {}
       [] s = "local_approval" -> {"tax_registration", "food_license"}
       [] OTHER -> {"business_registration"}]

CatalogOrder ==
  [s \in Services |->
     CASE s = "business_registration" -> 1
       [] s = "tax_registration" -> 2
       [] s = "food_license" -> 3
       [] s = "local_approval" -> 4]

============================================================================
