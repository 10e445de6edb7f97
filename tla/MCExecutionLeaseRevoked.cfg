SPECIFICATION Spec
CONSTANTS
  Threads = {t1, t2}
  MaxPlan = 2
  MaxLease = 3
  MaxFeedback = 2
  Profiles = {p1, p2}
  LeasePlan <- MCLeasePlan
  NoProfile = NoProfile
  NoCall = NoCall
  Calls <- MCCalls
SYMMETRY Symmetry
PROPERTY RevokedNeverAccepted
