SPECIFICATION CaseSpec
CONSTANTS
  a = a
  b = b
  c = c
  d = d
  NoFile = NoFile
  NoHash = NoHash
  Contents <- MCContents
  SizeOf <- MCSizeOf
  HashBelow = 4
  Stamps = {1, 2}
INVARIANTS
  PlanKeepsEdits
  PlanIsMerge
CHECK_DEADLOCK FALSE
