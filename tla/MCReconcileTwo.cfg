SPECIFICATION Spec
CONSTANTS
  cA = cA
  cB = cB
  cC = cC
  cD = cD
  pathP = pathP
  pathQ = pathQ
  NoFile = NoFile
  NoHash = NoHash
  Contents = {cB, cC}
  SizeOf <- MCSizeOf
  HashBelow = 4
  BackupBelow = 9
  Paths = {pathP, pathQ}
  Pinned = {pathQ}
  Twins <- OneTwin
  FoldLocal = TRUE
  FoldRemote = FALSE
  Scope = {pathP}
  MaxEvents = 3
PROPERTIES
  ShoppingKeepsController
CHECK_DEADLOCK FALSE
