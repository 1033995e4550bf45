SPECIFICATION Spec
CONSTANTS
  b2 = b2
  Jobs = {j1}
  Batches = {b1, b2}
  MaxAttempts = 2
  None = None
CONSTRAINT SecondClaimOnly
CHECK_DEADLOCK FALSE
INVARIANTS RecoveryJudgesRight OutcomesAreTrue EvidenceIsKept
PROPERTY OutcomesStay
