---------------------------- MODULE TargetLedger ----------------------------
(***************************************************************************)
(* A target machine: the resource ledger of remote/runner.py (allocations, *)
(* holds, policy), the detached durable supervisor of _durable_runner.py,  *)
(* the observer that holds the user command at a start gate                *)
(* (_job_observer.py), the direct owner boundary of remote/runner.py, the  *)
(* controller's status queries, crashes of any of them, and reboots.       *)
(*                                                                         *)
(* An allocation's row is written in one SQLite transaction per call       *)
(* (BEGIN IMMEDIATE ... COMMIT, and a refused call rolls everything back), *)
(* so a ledger call is one step; the processes between two calls are not.  *)
(***************************************************************************)
EXTENDS Naturals, FiniteSets

CONSTANTS Ops,       \* operations a controller may submit
          Direct,    \* those run through resource-owner-run; the others are durable launches
          Keys,      \* resource keys of the target policy
          KeysOf,    \* the keys each operation asks for
          Nobody     \* no holder

ASSUME LedgerAssumption ==
    /\ Direct \subseteq Ops
    /\ KeysOf \in [Ops -> SUBSET Keys]
    /\ Nobody \notin Ops

VARIABLES row,       \* target_resource_allocations: state, command_start_state; due: past
                     \* expires_mono_ns; old: of an earlier boot; stale: reserved under
                     \* an earlier policy generation
          hold,      \* target_resource_holds
          policy,    \* whether a policy is installed
          tree,      \* the process tree of each operation
          files,     \* control files written so far: ready, gate, started, refused
          sup,       \* the supervisor or direct owner: pc, the command_started it
                     \* remembers, whether it recorded the acceptance, its last receipt
          dst,       \* the durable status.json
          reader     \* a controller's status query in progress

vars == <<row, hold, policy, tree, files, sup, dst, reader>>

Held == {"CLAIMED", "QUARANTINED"}
Terminal == {"RELEASED", "CANCELLED", "EXPIRED", "REBOOTED"}
Live == Held \cup {"RESERVED"}
DstTerminal == {"complete", "failed"}

NoReceipt == [state |-> "none", start |-> "NO"]
UnknownReceipt == [state |-> "UNKNOWN", start |-> "MAYBE"]
Receipt(r) == [state |-> r.state, start |-> r.start]
NoDst == [state |-> "absent", ack |-> FALSE, started |-> "null", cleanup |-> NoReceipt]
NoSup == [pc |-> "none", started |-> "null", acc |-> FALSE, got |-> NoReceipt]
Idle == [pc |-> "idle", seen |-> NoReceipt, got |-> NoReceipt]

Init == /\ row = [o \in Ops |-> [state |-> "NONE", start |-> "NO", stale |-> FALSE,
                                 due |-> FALSE, old |-> FALSE]]
        /\ hold = [k \in Keys |-> Nobody]
        /\ policy = FALSE
        /\ tree = [o \in Ops |-> "none"]
        /\ files = [o \in Ops |-> {}]
        /\ sup = [o \in Ops |-> NoSup]
        /\ dst = [o \in Ops |-> NoDst]
        /\ reader = [o \in Ops |-> Idle]

-----------------------------------------------------------------------------
(* Process trees. *)

Alive(o) == tree[o] \in {"starting", "waiting", "refused", "running", "linger"}
Ran(o) == tree[o] \in {"running", "linger", "ended"}
WrapperExited(o) == tree[o] \in {"dead", "linger", "ended"}
Killed(t) == CASE t \in {"running", "linger"} -> "ended"
               [] t \in {"starting", "waiting", "refused"} -> "dead"
               [] OTHER -> t

\* _resource_owner_cleanup_state: an unreadable process table is never "gone".
Probes(o) == {"unknown"} \cup IF Alive(o) THEN {"live"} ELSE {"gone"}

\* _terminate_resource_owner: [stopped, the tree afterwards].  A group whose
\* leader has gone is not signalled; a kill may also go unverified.
Terminations(o) ==
    IF ~Alive(o) THEN {<<TRUE, tree[o]>>, <<FALSE, tree[o]>>}
    ELSE {<<TRUE, Killed(tree[o])>>, <<FALSE, Killed(tree[o])>>, <<FALSE, tree[o]>>}

-----------------------------------------------------------------------------
(* Ledger transactions. *)

\* _terminalize_resource deletes the holds with the row's change of state.
Freed(h, rows) == [k \in Keys |-> IF h[k] # Nobody /\ rows[h[k]].state \in Terminal
                                  THEN Nobody ELSE h[k]]
Commit(rows, h) == row' = rows /\ hold' = Freed(h, rows)
SetState(rows, o, s) == [rows EXCEPT ![o].state = s]

\* (mutant: an unreadable process table counts as gone)
ReconciledDoubt(o, probe) ==
    LET r == row[o] IN
    [r EXCEPT !.due = FALSE, !.state =
        IF r.state \in Live /\ r.old THEN "REBOOTED"
        ELSE IF r.state = "RESERVED" /\ r.due THEN "EXPIRED"
        ELSE IF r.state \in Held /\ probe # "live" THEN "RELEASED"
        ELSE r.state]

Reconciled(o, probe) ==
    LET r == row[o] IN
    [r EXCEPT !.due = FALSE, !.state =
        IF r.state \in Live /\ r.old THEN "REBOOTED"
        ELSE IF r.state = "RESERVED" /\ r.due THEN "EXPIRED"
        ELSE IF r.state \in Held /\ probe = "gone" THEN "RELEASED"
        ELSE IF r.state = "CLAIMED" /\ probe = "unknown" THEN "QUARANTINED"
        ELSE r.state]

\* _reconcile_resources: every live row, each with its own probe.
Outcomes(o) == {Reconciled(o, p) : p \in Probes(o)}
Reconciliations == {f \in [Ops -> UNION {Outcomes(o) : o \in Ops}] :
                       \A o \in Ops : f[o] \in Outcomes(o)}

Processes == <<tree, files, sup, dst, reader>>

\* The generation advances by one, and never while a key is held.
PolicyInstall ==
    /\ \A k \in Keys : hold[k] = Nobody
    /\ policy' = TRUE
    /\ row' = [o \in Ops |-> [row[o] EXCEPT !.stale = row[o].state \in Live]]
    /\ UNCHANGED <<hold, Processes>>

\* All keys or none; an allocation_id is reserved once.
Reserve(o) ==
    \E rows \in Reconciliations :
        LET h == Freed(hold, rows) IN
        /\ rows[o].state = "NONE"
        /\ KeysOf[o] # {} => policy
        /\ IF \E k \in KeysOf[o] : h[k] # Nobody
           THEN Commit(rows, h)                                     \* resource_busy
           ELSE Commit([rows EXCEPT ![o].state = "RESERVED", ![o].stale = FALSE],
                       [k \in Keys |-> IF k \in KeysOf[o] THEN o ELSE h[k]])
        /\ UNCHANGED <<policy, Processes>>

\* Renewal moves the expiry of a reservation that is still live after the
\* reconciliation; time itself is the action TimePasses.
Renew(o) ==
    /\ row[o].state # "NONE"
    /\ \E rows \in Reconciliations : Commit(rows, hold)
    /\ UNCHANGED <<policy, Processes>>

\* (mutant: a claim is cancelled like a reservation)
CancelRow(o) ==
    /\ row[o].state # "NONE"
    /\ \E rows \in Reconciliations :
          Commit(IF rows[o].state \in Terminal THEN rows ELSE SetState(rows, o, "CANCELLED"), hold)
    /\ UNCHANGED <<policy, Processes>>

\* A reservation is just cancelled; a claim's process tree is killed first.
Cancel(o) ==
    /\ row[o].state # "NONE"
    /\ \E rows \in Reconciliations :
          CASE rows[o].state \in Terminal -> Commit(rows, hold) /\ UNCHANGED tree
            [] rows[o].state = "RESERVED" ->
                 Commit(SetState(rows, o, "CANCELLED"), hold) /\ UNCHANGED tree
            [] rows[o].state \in Held ->
                 \E t \in Terminations(o) :
                    /\ tree' = [tree EXCEPT ![o] = t[2]]
                    /\ Commit(SetState(rows, o, IF t[1] THEN "CANCELLED" ELSE "QUARANTINED"),
                              hold)
    /\ UNCHANGED <<policy, files, sup, dst, reader>>

\* The rows a claim may commit: none when it is refused.
ClaimRows(o) == {SetState(rows, o, "CLAIMED") :
                    rows \in {r \in Reconciliations : /\ r[o].state = "RESERVED"
                                                      /\ KeysOf[o] # {} => ~r[o].stale}}

Current(o) == row[o].state = "CLAIMED" /\ ~row[o].old       \* the claim is current
SetStart(o, s) == row' = [row EXCEPT ![o].start = s] /\ UNCHANGED hold
QuarantineRow(o) == SetState(row, o, IF row[o].state = "CLAIMED" THEN "QUARANTINED" ELSE row[o].state)

\* _resource_owner_finish on a claimed row of this boot.
FinishRows(o) ==
    IF row[o].state # "CLAIMED" THEN {row}
    ELSE {SetState(row, o, IF p = "gone" THEN "RELEASED" ELSE "QUARANTINED") : p \in Probes(o)}

-----------------------------------------------------------------------------
(* The observer and the user command. *)

Ledger == <<row, hold, policy>>
SetTree(o, t) == tree' = [tree EXCEPT ![o] = t]
WriteFile(o, f) == files' = [files EXCEPT ![o] = @ \cup {f}]

\* _write_ready_file, after the private process group exists.
ObserverReady(o) ==
    /\ tree[o] = "starting" /\ SetTree(o, "waiting") /\ WriteFile(o, "ready")
    /\ UNCHANGED <<Ledger, sup, dst, reader>>

\* _wait_start_gate returns only for the exact gate; then Popen(command).
OpenGate(o) ==
    /\ tree[o] = "waiting" /\ "gate" \in files[o]
    /\ SetTree(o, "running")
    /\ UNCHANGED <<Ledger, files, sup, dst, reader>>

\* The exec of a direct owner's command is refused by the system.
ExecRefused(o) ==
    /\ o \in Direct /\ tree[o] = "waiting" /\ "gate" \in files[o]
    /\ SetTree(o, "refused") /\ WriteFile(o, "refused")
    /\ UNCHANGED <<Ledger, sup, dst, reader>>

ReportStarted(o) ==
    /\ tree[o] = "running" /\ "started" \notin files[o] /\ WriteFile(o, "started")
    /\ UNCHANGED <<Ledger, tree, sup, dst, reader>>

\* The gate times out, the command ends, or its wrapper ends before its
\* descendants do.
TreeExit(o) ==
    /\ Alive(o)
    /\ \/ SetTree(o, Killed(tree[o]))
       \/ tree[o] = "running" /\ SetTree(o, "linger")
    /\ UNCHANGED <<Ledger, files, sup, dst, reader>>

-----------------------------------------------------------------------------
(* The durable supervisor: _launch and _supervise with an acceptance. *)

At(o, pc) == sup[o].pc = pc
Stopped == {"none", "end"}
Ends(o) == sup' = [sup EXCEPT ![o] = [NoSup EXCEPT !.pc = "end"]]   \* its memory is gone
Go(o, pc) == sup' = [sup EXCEPT ![o].pc = pc]
Remember(o, pc, s) == sup' = [sup EXCEPT ![o].pc = pc, ![o].started = s]

\* A supervisor's write replaces the whole document with what it remembers.
WriteStatus(o, st, ack, s, c) ==
    dst' = [dst EXCEPT ![o] = [state |-> st, ack |-> ack, started |-> s, cleanup |-> c]]

\* The controller knows the token once the reservation exists; a second
\* delivery finds the run directory and only returns its status.
Launch(o) ==
    /\ o \notin Direct /\ row[o].state # "NONE" /\ At(o, "none")
    /\ WriteStatus(o, "launching", FALSE, "null", NoReceipt)
    /\ Go(o, "boot")
    /\ UNCHANGED <<Ledger, tree, files, reader>>

SupStart(o) ==
    /\ At(o, "boot")
    /\ IF dst[o].state = "removed"
       THEN Ends(o) /\ UNCHANGED <<tree, dst>>
       ELSE /\ WriteStatus(o, "pending", FALSE, "null", NoReceipt)
            /\ \/ Go(o, "await") /\ SetTree(o, "starting")
               \/ Go(o, "fail") /\ UNCHANGED tree
    /\ UNCHANGED <<Ledger, files, reader>>

\* A readiness file is claimed even if the observer has gone since.
SupAwait(o) ==
    /\ At(o, "await")
    /\ \/ "ready" \in files[o] /\ Go(o, "claim")
       \/ "ready" \notin files[o] /\ WrapperExited(o) /\ Remember(o, "write", "false")
    /\ UNCHANGED <<Ledger, tree, files, dst, reader>>

\* A ledger call from the supervisor is a subprocess with a 30 s timeout: its
\* commit may have happened although the call is reported as failed.
SupClaim(o) ==
    /\ At(o, "claim")
    /\ \/ /\ \E rows \in ClaimRows(o) : Commit(rows, hold)
          /\ \/ Go(o, "accept")
             \/ Go(o, "fail")
       \/ UNCHANGED <<row, hold>> /\ Go(o, "fail")
    /\ UNCHANGED <<policy, tree, files, dst, reader>>

SupAccept(o) ==
    /\ At(o, "accept")
    /\ \/ /\ WriteStatus(o, "pending", FALSE, "false", NoReceipt)
          /\ sup' = [sup EXCEPT ![o] = [@ EXCEPT !.pc = "maybe", !.started = "false", !.acc = TRUE]]
       \/ /\ sup' = [sup EXCEPT ![o] = [@ EXCEPT !.pc = "fail", !.started = "false", !.acc = TRUE]]
          /\ UNCHANGED dst
    /\ UNCHANGED <<Ledger, tree, files, reader>>

SupMaybe(o) ==
    /\ At(o, "maybe")
    /\ \/ /\ Current(o) /\ row[o].start = "NO" /\ SetStart(o, "MAYBE")
          /\ \/ Go(o, "mark")
             \/ Go(o, "fail")
       \/ UNCHANGED <<row, hold>> /\ Go(o, "fail")
    /\ UNCHANGED <<policy, tree, files, dst, reader>>

SupMark(o) ==
    /\ At(o, "mark")
    /\ \/ WriteStatus(o, "pending", FALSE, "null", NoReceipt) /\ Remember(o, "gate", "null")
       \/ Remember(o, "fail", "null") /\ UNCHANGED dst
    /\ UNCHANGED <<Ledger, tree, files, reader>>

SupGate(o) ==
    /\ At(o, "gate")
    /\ \/ WriteFile(o, "gate") /\ Go(o, "watch")
       \/ Go(o, "fail") /\ UNCHANGED files
    /\ UNCHANGED <<Ledger, tree, dst, reader>>

SupWatch(o) ==
    /\ At(o, "watch")
    /\ \/ "started" \in files[o] /\ Go(o, "confirm")
       \/ "started" \notin files[o] /\ WrapperExited(o) /\ Go(o, "exit")
    /\ UNCHANGED <<Ledger, tree, files, dst, reader>>

SupConfirm(o) ==
    /\ At(o, "confirm")
    /\ \/ /\ Current(o) /\ row[o].start = "MAYBE" /\ SetStart(o, "YES")
          /\ \/ Go(o, "report")
             \/ Go(o, "fail")
       \/ UNCHANGED <<row, hold>> /\ Go(o, "fail")
    /\ UNCHANGED <<policy, tree, files, dst, reader>>

SupReport(o) ==
    /\ At(o, "report")
    /\ \/ WriteStatus(o, "running", TRUE, "true", NoReceipt) /\ Remember(o, "exit", "true")
       \/ Remember(o, "fail", "true") /\ UNCHANGED dst
    /\ UNCHANGED <<Ledger, tree, files, reader>>

\* proc.wait, then the finish call with its receipt.
SupFinish(o) ==
    /\ At(o, "exit") /\ WrapperExited(o)
    /\ \/ \E rows \in FinishRows(o) :
             /\ Commit(rows, hold)
             /\ \/ sup' = [sup EXCEPT ![o].pc = "write", ![o].got = Receipt(rows[o])]
                \/ Go(o, "fail")
       \/ UNCHANGED <<row, hold>> /\ Go(o, "fail")
    /\ UNCHANGED <<policy, tree, files, dst, reader>>

SupWrite(o) ==
    /\ At(o, "write")
    /\ \/ WriteStatus(o, "complete", sup[o].acc, sup[o].started, sup[o].got) /\ Ends(o)
       \/ Go(o, "fail") /\ UNCHANGED dst
    /\ UNCHANGED <<Ledger, tree, files, reader>>

\* The exception path: an accepted claim is quarantined if the ledger answers.
SupFail(o) ==
    /\ At(o, "fail")
    /\ \/ /\ sup[o].acc /\ row[o].state \in Held /\ Commit(QuarantineRow(o), hold)
          /\ \/ sup' = [sup EXCEPT ![o].pc = "failed", ![o].got = Receipt(QuarantineRow(o)[o])]
             \/ Go(o, "failed")
       \/ UNCHANGED <<row, hold>> /\ Go(o, "failed")
    /\ UNCHANGED <<policy, tree, files, dst, reader>>

SupFailed(o) ==
    /\ At(o, "failed") /\ Ends(o)
    /\ \/ WriteStatus(o, "failed", sup[o].acc, sup[o].started, sup[o].got)
       \/ UNCHANGED dst
    /\ UNCHANGED <<Ledger, tree, files, reader>>

SupDies(o) == /\ sup[o].pc \notin Stopped /\ Ends(o)
              /\ UNCHANGED <<Ledger, tree, files, dst, reader>>

Supervise(o) == \/ SupStart(o) \/ SupAwait(o) \/ SupClaim(o) \/ SupAccept(o) \/ SupMaybe(o)
                \/ SupMark(o) \/ SupGate(o) \/ SupWatch(o) \/ SupConfirm(o) \/ SupReport(o)
                \/ SupFinish(o) \/ SupWrite(o) \/ SupFail(o) \/ SupFailed(o)

-----------------------------------------------------------------------------
(* The direct owner: _run_posix_resource_owner, _run_windows_resource_owner. *)

\* The control child (or suspended process) exists before the claim.
OwnerFork(o) ==
    /\ o \in Direct /\ row[o].state # "NONE" /\ At(o, "none")
    /\ SetTree(o, "waiting") /\ Go(o, "o-claim")
    /\ UNCHANGED <<Ledger, files, dst, reader>>

OwnerClaim(o) ==
    /\ At(o, "o-claim")
    /\ \/ /\ \E rows \in ClaimRows(o) : Commit(rows, hold)
          /\ sup' = [sup EXCEPT ![o].pc = "o-maybe", ![o].acc = TRUE]
       \/ ClaimRows(o) = {} /\ UNCHANGED <<row, hold>> /\ Go(o, "o-fail")
    /\ UNCHANGED <<policy, tree, files, dst, reader>>

OwnerMaybe(o) ==
    /\ At(o, "o-maybe")
    /\ \/ Current(o) /\ row[o].start = "NO" /\ SetStart(o, "MAYBE") /\ Go(o, "o-gate")
       \/ ~Current(o) /\ UNCHANGED <<row, hold>> /\ Go(o, "o-fail")
    /\ UNCHANGED <<policy, tree, files, dst, reader>>

OwnerGate(o) ==
    /\ At(o, "o-gate")
    /\ \/ WriteFile(o, "gate") /\ Go(o, "o-exec")
       \/ Go(o, "o-fail") /\ UNCHANGED files
    /\ UNCHANGED <<Ledger, tree, dst, reader>>

\* An affirmative record confirms, an explicit refusal takes MAYBE back, and
\* silence (15 s), an unreadable identity or a stale claim leave it as it is.
OwnerExec(o) ==
    /\ At(o, "o-exec")
    /\ \/ /\ "started" \in files[o] /\ Current(o) /\ row[o].start = "MAYBE"
          /\ SetStart(o, "YES") /\ Go(o, "o-wait")
       \/ /\ "refused" \in files[o] /\ Current(o) /\ SetStart(o, "NO") /\ Go(o, "o-wait")
       \/ /\ "refused" \in files[o] /\ ~Current(o)
          /\ Go(o, "o-fail") /\ UNCHANGED <<row, hold>>
       \/ /\ "refused" \notin files[o] /\ Go(o, "o-wait") /\ UNCHANGED <<row, hold>>
    /\ UNCHANGED <<policy, tree, files, dst, reader>>

\* The owner releases only after the whole group or job is empty.
OwnerWait(o) ==
    /\ At(o, "o-wait") /\ WrapperExited(o)
    /\ IF row[o].state \in Held
       THEN /\ Ends(o)
            /\ \/ ~Alive(o) /\ Commit(SetState(row, o, "RELEASED"), hold)
               \/ Commit(QuarantineRow(o), hold)
       ELSE UNCHANGED <<row, hold>> /\ \/ Ends(o)
                                       \/ Go(o, "o-fail")
    /\ UNCHANGED <<policy, tree, files, dst, reader>>

\* The exception path kills the tree before it quarantines the claim.
OwnerFail(o) ==
    /\ At(o, "o-fail") /\ Ends(o)
    /\ tree' \in {tree, [tree EXCEPT ![o] = Killed(@)]}
    /\ IF sup[o].acc /\ row[o].state \in Held
       THEN Commit(QuarantineRow(o), hold)
       ELSE UNCHANGED <<row, hold>>
    /\ UNCHANGED <<policy, files, dst, reader>>

Own(o) == \/ OwnerClaim(o) \/ OwnerMaybe(o) \/ OwnerGate(o) \/ OwnerExec(o)
          \/ OwnerWait(o) \/ OwnerFail(o)

-----------------------------------------------------------------------------
(* A controller's durable status query, and the removal of the evidence. *)

Reading(o, pc) == reader[o].pc = pc
Read(o, pc, c, g) == reader' = [reader EXCEPT ![o] = [pc |-> pc, seen |-> c, got |-> g]]
OnFile(o) == dst[o].state \notin {"absent", "removed"}
Unfinished(o) == dst[o].state \notin DstTerminal

\* The launching record names no supervisor, which reads as an absent one.
SupervisorAbsent(o) == dst[o].state = "launching" \/ sup[o].pc \in Stopped
StatusAbsent(o) ==
    /\ Reading(o, "idle") /\ OnFile(o) /\ Unfinished(o) /\ SupervisorAbsent(o)
    /\ Read(o, "absent", NoReceipt, NoReceipt)
    /\ UNCHANGED <<Ledger, tree, files, sup, dst>>

\* A fresh snapshot, then finish, else status, else no receipt at all.
StatusAbandoned(o) ==
    /\ Reading(o, "absent") /\ OnFile(o) /\ Unfinished(o)
    /\ \/ \E rows \in IF row[o].state \in Held /\ ~row[o].old THEN FinishRows(o)
                      ELSE Reconciliations :
             Commit(rows, hold) /\ Read(o, "declare", NoReceipt, Receipt(rows[o]))
       \/ UNCHANGED <<row, hold>> /\ Read(o, "declare", NoReceipt, UnknownReceipt)
    /\ UNCHANGED <<policy, tree, files, sup, dst>>

\* _update_status_fields with require_nonterminal.
StatusDeclare(o) ==
    /\ Reading(o, "declare") /\ OnFile(o) /\ Unfinished(o)
    /\ dst' = [dst EXCEPT ![o].state = "failed", ![o].cleanup = reader[o].got]
    /\ reader' = [reader EXCEPT ![o] = Idle]
    /\ UNCHANGED <<Ledger, tree, files, sup>>

\* _reconcile_target_cleanup asks the ledger unless the receipt is terminal.
StatusFetch(o) ==
    /\ Reading(o, "idle") /\ OnFile(o) /\ dst[o].cleanup.state \notin Terminal
    /\ \E rows \in Reconciliations :
          Commit(rows, hold) /\ Read(o, "apply", dst[o].cleanup, Receipt(rows[o]))
    /\ UNCHANGED <<policy, tree, files, sup, dst>>

\* _update_status_fields with an expected target_cleanup.
StatusApply(o) ==
    /\ Reading(o, "apply") /\ OnFile(o) /\ dst[o].cleanup = reader[o].seen
    /\ dst' = [dst EXCEPT ![o].cleanup = reader[o].got]
    /\ reader' = [reader EXCEPT ![o] = Idle]
    /\ UNCHANGED <<Ledger, tree, files, sup>>

\* _resource_start_certainty, written only over the receipt it was read from
\* (so the query's own steps before it leave nothing to remember).
Certainty(c, s) == IF c.state \in {"none", "UNKNOWN"} THEN s
                   ELSE [YES |-> "true", NO |-> "false", MAYBE |-> "null"][c.start]
StatusCertify(o) ==
    /\ OnFile(o)
    /\ dst' = [dst EXCEPT ![o].started = Certainty(dst[o].cleanup, @)]
    /\ UNCHANGED <<Ledger, tree, files, sup, reader>>

\* A query is refused, or its connection is lost, at any point.
StatusQuits(o) ==
    /\ ~Reading(o, "idle") /\ reader' = [reader EXCEPT ![o] = Idle]
    /\ UNCHANGED <<Ledger, tree, files, sup, dst>>

Status(o) == \/ StatusAbsent(o) \/ StatusAbandoned(o) \/ StatusDeclare(o) \/ StatusFetch(o)
             \/ StatusApply(o) \/ StatusCertify(o) \/ StatusQuits(o)

\* _cleanup removes the run directory only behind two terminal records.
Cleanup(o) ==
    /\ dst[o].state \in DstTerminal
    /\ IF dst[o].cleanup.state \in Terminal
       THEN dst' = [dst EXCEPT ![o] = [NoDst EXCEPT !.state = "removed"]] /\ UNCHANGED <<row, hold>>
       ELSE \E rows \in Reconciliations :
               /\ Commit(rows, hold)
               /\ dst' = [dst EXCEPT ![o] = IF rows[o].state \in Terminal
                                            THEN [NoDst EXCEPT !.state = "removed"]
                                            ELSE [@ EXCEPT !.cleanup = Receipt(rows[o])]]
    /\ UNCHANGED <<policy, tree, files, sup, reader>>

-----------------------------------------------------------------------------
(* Time and reboots. *)

TimePasses(o) ==
    /\ row[o].state = "RESERVED" /\ ~row[o].due
    /\ row' = [row EXCEPT ![o].due = TRUE]
    /\ UNCHANGED <<hold, policy, Processes>>

Reboot ==
    /\ row' = [o \in Ops |-> [row[o] EXCEPT !.old = @ \/ row[o].state \in Live]]
    /\ tree' = [o \in Ops |-> Killed(tree[o])]
    /\ sup' = [o \in Ops |-> IF sup[o].pc \in Stopped THEN sup[o] ELSE [NoSup EXCEPT !.pc = "end"]]
    /\ reader' = [o \in Ops |-> Idle]
    /\ UNCHANGED <<hold, policy, files, dst>>

Command(o) == ObserverReady(o) \/ OpenGate(o) \/ ExecRefused(o) \/ ReportStarted(o) \/ TreeExit(o)
Controller(o) == Reserve(o) \/ Renew(o) \/ Cancel(o) \/ Launch(o) \/ OwnerFork(o) \/ Cleanup(o)
Next == \/ PolicyInstall \/ Reboot
        \/ \E o \in Ops : \/ Controller(o) \/ Status(o) \/ Supervise(o) \/ Own(o)
                          \/ SupDies(o) \/ Command(o) \/ TimePasses(o)
Spec == Init /\ [][Next]_vars

-----------------------------------------------------------------------------
(* Properties. *)

Receipts == [state : Live \cup Terminal \cup {"NONE", "none", "UNKNOWN"},
             start : {"NO", "MAYBE", "YES"}]
Dsts == [state : {"absent", "launching", "pending", "running", "complete", "failed", "removed"},
         ack : BOOLEAN, started : {"null", "false", "true"}, cleanup : Receipts]

TypeOK ==
    /\ row \in [Ops -> [state : Live \cup Terminal \cup {"NONE"}, start : {"NO", "MAYBE", "YES"},
                        stale : BOOLEAN, due : BOOLEAN, old : BOOLEAN]]
    /\ hold \in [Keys -> Ops \cup {Nobody}]
    /\ policy \in BOOLEAN
    /\ tree \in [Ops -> {"none", "starting", "waiting", "refused", "running", "linger",
                         "ended", "dead"}]
    /\ files \in [Ops -> SUBSET {"ready", "gate", "started", "refused"}]
    /\ \A o \in Ops : sup[o].started \in {"null", "false", "true"} /\ sup[o].got \in Receipts
    /\ dst \in [Ops -> Dsts]
    /\ \A o \in Ops : reader[o].seen \in Receipts /\ reader[o].got \in Receipts

\* Two commands never run at once on a shared resource key, whatever was
\* cancelled, expired, quarantined or reconciled meanwhile (the holds table
\* and _reconcile_resources).
ExclusiveUse ==
    \A a, b \in Ops : a # b /\ KeysOf[a] \cap KeysOf[b] # {}
        => ~(tree[a] \in {"running", "linger"} /\ tree[b] \in {"running", "linger"})

\* (does not hold, see README: Disagreements)
\* A durable record that has ended and says the command did not start is right.
FalseIsTrue ==
    \A o \in Ops : dst[o].state \in DstTerminal /\ dst[o].started = "false" => ~Ran(o)

\* A row of an earlier boot is REBOOTED as soon as anyone asks.
AllocBar(o) == IF row[o].state \in Live /\ row[o].old THEN "REBOOTED" ELSE row[o].state
TreeBar(o) == CASE tree[o] \in {"starting", "refused"} -> "waiting"
                [] tree[o] = "linger" -> "running"
                [] OTHER -> tree[o]
AllocOf(S) == [o \in S |-> AllocBar(o)]
StartOf(S) == [o \in S |-> row[o].start]
TreeOf(S) == [o \in S |-> TreeBar(o)]
=============================================================================
