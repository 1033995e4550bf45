SPECIFICATION GuardSpec
CONSTANTS
  a = a
  b = b
  Guarded = {a, b}
  Workloads <- MCWorkloads
  Total = 8
  Background = 1
  Reserve = 1
  MIB = 1
  Overhead = 1
  GateUse <- MCGateUse
  MaxJobs = 2
  MaxMoves = 1
  MaxSignals = 1
INVARIANTS
  GroupIsAccounted
  RefusalIsTrue
PROPERTY
  AdmissionIsBacked
CHECK_DEADLOCK FALSE
CONSTRAINT OneHelper
