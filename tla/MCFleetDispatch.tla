--------------------------- MODULE MCFleetDispatch ---------------------------
(* One job, the batch that runs it and, if it is put back in the queue, the *)
(* beginning of a second one.                                              *)
EXTENDS FleetDispatch

CONSTANT b2

\* Bound: the second batch is claimed, may be revoked and may lapse, but is
\* not run; it is there so that the first batch's owner, the drain loop and
\* the operator are explored against a job that has moved on.
SecondClaimOnly == b2 \in Batches => owner[b2].pc \in {"none", "claimed", "end"}
=============================================================================
