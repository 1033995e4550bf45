SPECIFICATION Spec
CONSTANTS
  c = c
  o = o
  Commands = {c}
  Ops = {o}
  p1 = p1
  p2 = p2
  p3 = p3
  Pids = {p1, p2, p3}
  MaxGen = 2
  MaxActive = 1
  MaxFaults = 1
INVARIANTS
  ObservedWhileAlive
  CancelIsTrue
PROPERTY
  QueryIsTrue
CHECK_DEADLOCK FALSE
SYMMETRY PidSymmetry
