SPECIFICATION Spec
CONSTANTS
  j1 = j1
  j2 = j2
  j3 = j3
  d1 = d1
  d2 = d2
  w1 = w1
  w2 = w2
  Jobs = {j1, j2, j3}
  Specs = {v1, v2}
  Requests = {r1}
  Plans = {p1}
  Callers = {c1, c2}
  None = None
  Unreadable = Unreadable
  Batches = {b1, b2}
  DeviceOrder <- MCDeviceOrder
  Idle = Idle
  Machine <- MCMachine
  Demand <- MCDemand
  Scenes <- MCScenes
  MaxAttempts = 2
  Keep = 0
CHECK_DEADLOCK FALSE
INVARIANTS RequestAnsweredOnce PlanReadsAgree NoDoubleRun LeftRunningIsComplete DrainedIsTrue
PROPERTIES StopIsAnswered
