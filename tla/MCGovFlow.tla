----------------------------- MODULE MCGovFlow -----------------------------
(* Plans for the runs of the whole backend: subsets of the catalog with the *)
(* default dependencies of the planner.                                     *)
EXTENDS GovFlow

DefaultDependencies(S) ==
  [s \in S |->
     CASE s = "business_registration" -> {}
       [] s = "local_approval" -> {"tax_registration", "food_license"} \cap S
       [] OTHER -> {"business_registration"}]

CatalogOrder(S) ==
  [s \in S |->
     CASE s = "business_registration" -> 1
       [] s = "tax_registration" -> 2
       [] s = "food_license" -> 3
       [] s = "local_approval" -> 4]

\* All four services.
Full ==
  {"business_registration", "tax_registration", "food_license",
   "local_approval"}
FullDependencies == DefaultDependencies(Full)
FullOrder == CatalogOrder(Full)

\* Two services become ready at once.
Fork == Full \ {"local_approval"}
ForkDependencies == DefaultDependencies(Fork)
ForkOrder == CatalogOrder(Fork)

\* One service after the other.
Line == {"business_registration", "tax_registration"}
LineDependencies == DefaultDependencies(Line)
LineOrder == CatalogOrder(Line)

============================================================================
