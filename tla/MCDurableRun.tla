---------------------------- MODULE MCDurableRun ----------------------------
(* Bounded instance of DurableRun for TLC. *)
EXTENDS DurableRun

TwoResumers == {"r1", "r2"}
=============================================================================
