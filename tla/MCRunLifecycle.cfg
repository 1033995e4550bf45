SPECIFICATION FairSpec
CONSTANTS
  p1 = p1
  p2 = p2
  Procs = {p1, p2}
  Candidates = 2
  NoRun = NoRun
  Free = Free
INVARIANTS
  NoConcurrentCommands
  NotStartedIsTrue
  DispatchedIsAccounted
PROPERTY
  LockIsReturned
CHECK_DEADLOCK FALSE
