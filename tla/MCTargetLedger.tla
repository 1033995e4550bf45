--------------------------- MODULE MCTargetLedger ---------------------------
(* One durable launch and one direct owner that want the same key.         *)
EXTENDS TargetLedger

CONSTANTS dur, dir, gpu
ASSUME InstanceAssumption == dur \in Ops /\ dir \in Ops

MCKeysOf == [o \in Ops |-> {gpu}]

\* Bound: beside the other operation, no status query is left half done and
\* none has been recorded but by a completed run (a query writes only its own
\* operation's record, and is explored in full before the other one exists).
OneThing == row[dir].state # "NONE" =>
                /\ reader[dur].pc = "idle"
                /\ dst[dur].state = "complete" \/ dst[dur].cleanup = NoReceipt

Durable == INSTANCE TargetOp WITH Ops <- {dur}, alloc <- AllocOf({dur}),
                                  start <- StartOf({dur}), tree <- TreeOf({dur})
Owned == INSTANCE TargetOp WITH Ops <- {dir}, alloc <- AllocOf({dir}),
                                start <- StartOf({dir}), tree <- TreeOf({dir})

\* Each operation on its own behaves as TargetOp promises: nothing starts
\* without a claim and a recorded MAYBE, and nothing starts or runs after a
\* terminal state (the ledger, the supervisor and the start gate together).
ImplementsTargetOp == Durable!Spec /\ Owned!Spec
=============================================================================
