---------------------------- MODULE MCMemoryGuard ----------------------------
(* Two jobs of one target that compete for its memory.                      *)
EXTENDS MemoryGuard

CONSTANTS a, b
Asks(by, n) == [basis |-> by, want |-> n, policy |-> IF n > Total THEN "q" ELSE "p"]
MCWorkloads ==
    {(a :> Asks("explicit", 2) @@ b :> Asks("unprofiled", 2)),
     (a :> Asks("learned", 2) @@ b :> Asks("explicit", 2)),
     (a :> Asks("unprofiled", 2) @@ b :> Asks("explicit", 2)),
     (a :> Asks("explicit", Total + 1) @@ b :> Asks("explicit", 2))}
MCGateUse == {1, 2}
\* Bound: MaxMoves counts what live commands and the rest of the host take and
\* give back; the gates and trees that come and go move memory besides, so that
\* one bracket may see several moves.
\* Bound: the second job competes for admission but is never sent.
OneHelper == hp[b] = "none"
==============================================================================
