SPECIFICATION Spec
CONSTANTS
  dur = dur
  dir = dir
  gpu = gpu
  Ops = {dur, dir}
  Direct = {dir}
  Keys = {gpu}
  KeysOf <- MCKeysOf
  Nobody = Nobody
INVARIANTS
  ExclusiveUse
PROPERTY
  ImplementsTargetOp
CHECK_DEADLOCK FALSE
CONSTRAINT OneThing
