SPECIFICATION FairSpec
CONSTANTS
  MaxPlan = 2
  MaxLease = 3
  None = None
INVARIANTS
  TypeOK
  LiveLeaseIsCurrent
  StopLeavesNoAuthority
  EveryCycleDecides
  LatePlanWithdrawn
PROPERTIES
  ImplementsAuthority
  StaleAuthorizationCleared
