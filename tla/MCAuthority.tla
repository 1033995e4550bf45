---------------------------- MODULE MCAuthority ----------------------------
(* Bounded instance of Authority for TLC. *)
EXTENDS Authority

CONSTANTS t1, t2
TwoTargets == {t1, t2}
\* Both targets in the first epoch, one of them in the next.
OneMoves == {<<t1, 1>>, <<t1, 2>>, <<t2, 1>>}
=============================================================================
