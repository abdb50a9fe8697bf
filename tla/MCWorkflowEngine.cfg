CONSTANTS
  Steps <- Services
  DependsOn <- DefaultDependencies
  Position <- CatalogOrder
  NoStep = "None"
SPECIFICATION Spec
INVARIANTS
  TypeOK
  RowMirrorsGraph
  NothingReadyUnclaimed
  FinalStatusWitnessed
  NoCurrentStepMeansIdle
PROPERTY StartsInDependencyOrder
