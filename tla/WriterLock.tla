------------------------------ MODULE WriterLock ------------------------------
(***************************************************************************)
(* What a project lock promises (docs/ARCHITECTURE.md, "project-level      *)
(* writer lock"): one holder at a time.  RunLifecycle uses the lock at     *)
(* this level; ProjectLock shows that the directory protocol provides it.  *)
(***************************************************************************)
CONSTANTS Procs, Nobody

VARIABLE holder

Init == holder = Nobody

Take(p) == holder = Nobody /\ holder' = p

\* Released by its holder, or void because its holder died.
Vacate(p) == holder = p /\ holder' = Nobody

Next == \E p \in Procs : Take(p) \/ Vacate(p)

Spec == Init /\ [][Next]_holder
===============================================================================
