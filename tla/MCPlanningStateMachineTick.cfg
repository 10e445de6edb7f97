SPECIFICATION Spec
CONSTANTS
  MaxEvent = 2
  MaxTime = 1
  MaxEvidence = 2
  MaxMap = 2
  Period = 1
  FailureLimit = 2
  None = None
PROPERTY FirstTickPlans
