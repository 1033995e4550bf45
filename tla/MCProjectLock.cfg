SPECIFICATION FairLockSpec
CONSTANTS
  launcher = launcher
  collector = collector
  rival = rival
  scoped = scoped
  durable = durable
  docs = docs
  Lockers = {launcher, collector, rival, scoped}
  Whole = Whole
  Scopes = {docs}
  Dir <- MCDir
  RunOf <- MCRunOf
  Adopts = {collector, rival}
  Ordinary = Ordinary
  NoInfo = NoInfo
  Nobody = Nobody
INVARIANTS
  OneWriter
PROPERTIES
  AcquireEnds
  AbstractLock
CHECK_DEADLOCK FALSE
