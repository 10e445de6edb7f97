SPECIFICATION Spec
CONSTANTS
  MaxPlan = 2
  MaxLease = 3
  None = None
INVARIANT EventBarsCommitment
