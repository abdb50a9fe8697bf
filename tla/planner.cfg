CONSTANTS
  Catalog <- ThreeServices
  Foundation = "business_registration"
  DefaultDependencies <- ThreeDependencies
  Strangers = {"passport"}
SPECIFICATION FairSpec
INVARIANTS
  TypeOK
  AcceptedPlanIsDag
  FallsBackOnlyForCycles
  FallbackIsAccepted
PROPERTY Decides
CHECK_DEADLOCK FALSE
