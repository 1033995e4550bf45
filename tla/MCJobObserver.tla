--------------------------- MODULE MCJobObserver ----------------------------
(* A command, durable or not, and a controller operation that reclaims rows. *)
EXTENDS JobObserver, TLC
CONSTANTS c, o, p1, p2, p3

PidSymmetry == Permutations(Pids)
=============================================================================
