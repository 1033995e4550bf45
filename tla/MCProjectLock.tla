--------------------------- MODULE MCProjectLock ---------------------------
(* A durable launcher, two collectors that may adopt its lock, and a scoped  *)
(* ordinary run.                                                            *)
EXTENDS ProjectLock

CONSTANTS launcher, collector, rival, scoped, durable, docs

MCDir == [p \in Lockers |-> IF p = scoped THEN docs ELSE Whole]
MCRunOf == [p \in Lockers |-> IF p = scoped THEN Ordinary ELSE durable]
=============================================================================
