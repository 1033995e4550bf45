--------------------------- MODULE MCRunLifecycle ---------------------------
(* Two invocations of `remrun run` for one project; small enough for TLC to  *)
(* look at every point where either can be interrupted or killed.            *)
EXTENDS RunLifecycle

CONSTANTS p1, p2
=============================================================================
