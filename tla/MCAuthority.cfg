CONSTANTS
  t1 = t1
  t2 = t2
  Targets <- TwoTargets
  Enrols <- OneMoves
  MaxFence = 3
  MaxGrants = 3
  MaxEpoch = 2
SPECIFICATION Spec
INVARIANTS ResolvedIsTrue OneAtWork NoStaleAuthority
CHECK_DEADLOCK FALSE
