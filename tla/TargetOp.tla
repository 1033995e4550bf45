------------------------------ MODULE TargetOp ------------------------------
(***************************************************************************)
(* What a target promises about one accepted operation, without its tables *)
(* and processes: the ledger's state of the allocation, what the ledger    *)
(* says about the command having started, and the process tree that really *)
(* exists.  Controllers reason with the first two; the third is the truth. *)
(***************************************************************************)
EXTENDS Naturals

CONSTANT Ops           \* operation identities

VARIABLES alloc,       \* the allocation's state, a row of an earlier boot counts as REBOOTED
          start,       \* command_start_state
          tree         \* none, waiting at the gate, running, ended (it ran), dead (it never ran)

vars == <<alloc, start, tree>>

Held == {"CLAIMED", "QUARANTINED"}
Terminal == {"RELEASED", "CANCELLED", "EXPIRED", "REBOOTED"}
Allocs == {"NONE", "RESERVED"} \cup Held \cup Terminal
Starts == {"NO", "MAYBE", "YES"}
Trees == {"none", "waiting", "running", "ended", "dead"}

Set(f, o, v) == f' = [f EXCEPT ![o] = v]
Killed(t) == IF t = "running" THEN "ended" ELSE IF t = "waiting" THEN "dead" ELSE t

Init == /\ alloc = [o \in Ops |-> "NONE"]
        /\ start = [o \in Ops |-> "NO"]
        /\ tree = [o \in Ops |-> "none"]

(* The reservation, from the controller's side. *)
Reserve(o) == alloc[o] = "NONE" /\ Set(alloc, o, "RESERVED") /\ UNCHANGED <<start, tree>>
Expire(o) == alloc[o] = "RESERVED" /\ Set(alloc, o, "EXPIRED") /\ UNCHANGED <<start, tree>>

(* The process tree, held at a gate until the claim is committed. *)
Spawn(o) == alloc[o] # "NONE" /\ tree[o] = "none" /\ Set(tree, o, "waiting")
            /\ UNCHANGED <<alloc, start>>
Begin(o) == /\ tree[o] = "waiting" /\ alloc[o] \in Held /\ start[o] = "MAYBE"
            /\ Set(tree, o, "running") /\ UNCHANGED <<alloc, start>>
Exit(o) == /\ tree[o] \in {"waiting", "running"}
           /\ Set(tree, o, Killed(tree[o])) /\ UNCHANGED <<alloc, start>>

(* The claim and what it records about the start. *)
Claim(o) == /\ alloc[o] = "RESERVED" /\ tree[o] # "none"
            /\ Set(alloc, o, "CLAIMED") /\ UNCHANGED <<start, tree>>
Maybe(o) == /\ alloc[o] = "CLAIMED" /\ start[o] = "NO"
            /\ Set(start, o, "MAYBE") /\ UNCHANGED <<alloc, tree>>
Confirm(o) == /\ alloc[o] = "CLAIMED" /\ start[o] = "MAYBE" /\ tree[o] \in {"running", "ended"}
              /\ Set(start, o, "YES") /\ UNCHANGED <<alloc, tree>>
Deny(o) == /\ alloc[o] = "CLAIMED" /\ start[o] = "MAYBE" /\ tree[o] \in {"waiting", "dead"}
           /\ Set(start, o, "NO") /\ UNCHANGED <<alloc, tree>>

(* How an allocation ends. *)
Quarantine(o) == /\ alloc[o] \in Held /\ Set(alloc, o, "QUARANTINED")
                 /\ UNCHANGED <<start, tree>>
Release(o) == /\ alloc[o] \in Held /\ tree[o] \in {"ended", "dead"}
              /\ Set(alloc, o, "RELEASED") /\ UNCHANGED <<start, tree>>
Cancel(o) == /\ UNCHANGED start
             /\ \/ alloc[o] = "RESERVED" /\ Set(alloc, o, "CANCELLED") /\ UNCHANGED tree
                \/ /\ alloc[o] \in Held /\ Set(alloc, o, "CANCELLED")
                   /\ Set(tree, o, Killed(tree[o]))
CouldNotStop(o) == /\ alloc[o] \in Held /\ Set(alloc, o, "QUARANTINED")
                   /\ tree' \in {tree, [tree EXCEPT ![o] = Killed(@)]}
                   /\ UNCHANGED start
Reboot == /\ alloc' = [o \in Ops |-> IF alloc[o] \in Held \cup {"RESERVED"}
                                     THEN "REBOOTED" ELSE alloc[o]]
          /\ tree' = [o \in Ops |-> Killed(tree[o])]
          /\ UNCHANGED start

Step(o) == \/ Reserve(o) \/ Expire(o) \/ Spawn(o) \/ Begin(o) \/ Exit(o)
           \/ Claim(o) \/ Maybe(o) \/ Confirm(o) \/ Deny(o)
           \/ Quarantine(o) \/ Release(o) \/ Cancel(o) \/ CouldNotStop(o)
Next == Reboot \/ \E o \in Ops : Step(o)
Spec == Init /\ [][Next]_vars

-----------------------------------------------------------------------------
(* What a controller may conclude from a receipt. *)

TypeOK == alloc \in [Ops -> Allocs] /\ start \in [Ops -> Starts] /\ tree \in [Ops -> Trees]

\* A receipt that says NO is true at that moment (command_start_state).
NoIsTrue == \A o \in Ops : start[o] = "NO" => tree[o] \notin {"running", "ended"}

\* A terminal state is the end: no command of the operation is running.
TerminalIsOver == \A o \in Ops : alloc[o] \in Terminal => tree[o] # "running"

\* A terminal receipt that says NO stays true: state, start and the absence
\* of a run never change again.
NoIsFinal == [][\A o \in Ops : alloc[o] \in Terminal /\ start[o] = "NO"
                   => /\ alloc'[o] = alloc[o] /\ start'[o] = "NO"
                      /\ tree'[o] \notin {"running", "ended"}]_vars
=============================================================================
