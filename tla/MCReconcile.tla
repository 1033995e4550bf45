----------------------------- MODULE MCReconcile -----------------------------
(* Contents cA and cB are small and hashed, cC and cD large and unhashed;    *)
(* each pair shares one size: only a hash or an mtime tells them apart.      *)
EXTENDS Reconcile

CONSTANTS cA, cB, cC, cD, pathP, pathQ

MCSizeOf == [x \in Contents |-> IF x \in {cA, cB} THEN 1 ELSE 9]
OneTwin == {{pathP, pathQ}}

=============================================================================
