--------------------------- MODULE MCTransferPlan ---------------------------
(* Two small contents of one size, two large ones of one size: equal sizes  *)
(* with different contents are what the metadata comparison can confuse.    *)
EXTENDS TransferPlanCases

CONSTANTS a, b, c, d

MCContents == {a, b, c, d}
MCSizeOf == [x \in MCContents |-> IF x \in {a, b} THEN 1 ELSE 9]
=============================================================================
