SPECIFICATION Spec
CONSTANTS
  cA = cA
  cB = cB
  cC = cC
  cD = cD
  pathP = pathP
  pathQ = pathQ
  NoFile = NoFile
  NoHash = NoHash
  Contents = {cB, cC, cD}
  SizeOf <- MCSizeOf
  HashBelow = 4
  BackupBelow = 9
  Paths = {pathP}
  Pinned = {}
  Twins = {}
  FoldLocal = FALSE
  FoldRemote = FALSE
  Scope = {}
  MaxEvents = 4
INVARIANTS
  NoFalseSame
PROPERTIES
  PostrunKeepsLocalEdits
  RecoverableLocal
  DispatchOnConverged
CHECK_DEADLOCK FALSE
