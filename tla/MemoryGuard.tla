----------------------------- MODULE MemoryGuard -----------------------------
(* Admission of memory-guarded commands on one POSIX target.  A controller      *)
(* reserves a lease in the target's ledger.json, renews it, and starts a helper *)
(* there; the helper claims the lease, opens the gate of a stopped control      *)
(* process, watches the command's process tree and gives the lease back when    *)
(* the tree is gone (_posix_telemetry.py, memory_guard.py, transport.py).       *)
(* Every ledger operation holds ledger.lock; reserve, renew and claim take five *)
(* readings H0 P0 H1 P1 H2 under it, between which memory may move.             *)
EXTENDS Integers, FiniteSets, FiniteSetsExt, TLC

CONSTANTS
    Guarded,       \* one reservation, one controller and one helper each
    Workloads,     \* job -> its basis, the limit or allowance it wants, its policy
    Background,    \* memory the rest of the host uses at first
    Total,         \* physical memory of the host
    Reserve,       \* min_available_bytes
    MIB,           \* the granule allowances are rounded to
    Overhead,      \* control_overhead_bytes, a multiple of MIB
    GateUse,       \* what the stopped control process may occupy
    MaxJobs,       \* safe_concurrency
    MaxMoves,      \* bound: changes of memory use
    MaxSignals     \* bound: signals a helper receives

ASSUME GuardAssumption ==
    /\ {Total, Reserve, Overhead, MaxMoves, MaxSignals} \subseteq Nat
    /\ MIB \in Nat \ {0} /\ MaxJobs \in Nat \ {0}
    /\ Reserve < Total

VARIABLES
    req,      \* what each job's controller asks for
    ledger,   \* ledger.json: job -> lease
    policy,   \* ledger.json: the policy of the active leases, "none" without any
    tx,       \* the operation that holds ledger.lock between its readings
    used,     \* private memory of each job's process tree
    other,    \* memory of everything else on the host
    tree,     \* live processes: "gate" and "cmd" in the group, "esc" outside it
    exec,     \* what the control process wrote to the exec-status pipe
    hp,       \* position of the helper
    res,      \* the guard result the helper emits
    cp,       \* position of the controller
    rcpt,     \* the controller's copy of its reservation
    ran,      \* history: the job's command was started
    moves,    \* changes of memory use so far
    sig       \* signals received by each helper

guardVars == <<req, ledger, policy, tx, used, other, tree, exec, hp, res, cp, rcpt, ran, moves, sig>>
procs == <<req, tree, exec, hp, res, ran, sig>>
memory == <<used, other, moves>>

NoLease == [st |-> "none", allow |-> 0, basis |-> "none", rem |-> -1, live |-> -1,
            backed |-> FALSE, due |-> FALSE, surv |-> {}]
NoTx == [op |-> "none"]
NoRes == [status |-> "none", started |-> "null", lease |-> NoLease]

Max0(x) == IF x > 0 THEN x ELSE 0
Least(x, y) == IF x < y THEN x ELSE y
FloorMiB(x) == (Max0(x) \div MIB) * MIB
MaxCmd == FloorMiB(Total - Reserve)
Cap(l) == l.allow + Overhead
Held(ls) == {j \in Guarded : ls[j].st # "none"}
Learned(l) == l.basis \in {"learned", "headroom"}
Inferred(l) == l.basis # "explicit"

Available == Total - other - MapThenSumSet(LAMBDA j : used[j], Guarded)

OwnerAliveByHelper(j) == hp[j] \notin {"none", "done", "killed"}
(* _lease_owner_alive, _quarantined_owner_alive: what a stale lease's owner leaves *)
OwnerAlive(j) ==
    \/ hp[j] \notin {"none", "done", "killed"}
    \/ tree[j] \cap {"gate", "cmd"} # {}
SurvivorAlive(j) == tree[j] \cap (ledger[j].surv \cup {"gate", "cmd"}) # {}

StaleLease(j) ==
    \/ ledger[j].st = "reserved" /\ ledger[j].due
    \/ ledger[j].st = "running" /\ ~OwnerAlive(j)
    \/ ledger[j].st = "quarantined" /\ ~SurvivorAlive(j)
Reaped == [j \in Guarded |-> IF StaleLease(j) THEN NoLease ELSE ledger[j]]

(* A write of the ledger; the policy goes with the last lease. *)
Write(ls, pol) ==
    /\ ledger' = ls
    /\ policy' = IF Held(ls) = {} THEN "none" ELSE pol
Keep == UNCHANGED <<ledger, policy>>
WriteIfReaped == IF Reaped = ledger THEN Keep ELSE Write(Reaped, policy)
------------------------------------------------------------------------------
(* _capacity_transaction: the readings and what they add up to.  priv is the    *)
(* smaller of a tree's two private readings, host the smallest of three.        *)
Future(ls, priv, sized) ==
    MapThenSumSet(LAMBDA j : IF ls[j].basis = "explicit" \/ j = sized
                                THEN Max0(Cap(ls[j]) - priv[j]) ELSE 0, Held(ls))
Overrun(ls, priv) ==
    \E j \in Held(ls) : ls[j].basis = "explicit" /\ priv[j] > Cap(ls[j])
SafeOrEqual(ls, host, priv, sized) ==
    ~Overrun(ls, priv) /\ host >= Reserve + Future(ls, priv, sized)
Safe(ls, host, priv, sized) ==
    ~Overrun(ls, priv) /\ host > Reserve + Future(ls, priv, sized)

(* _unprofiled_live_headroom_allowance: all that is free beyond the commitments *)
FreeBacked(ls, host, priv) == Max0(host - Reserve - Future(ls, priv, "none") - MIB)
AllowanceOf(backed) == Least(MaxCmd, FloorMiB(backed - Overhead))

(* _live_backed_allowance: the same with the candidate's own commitment removed *)
CandidateBacked(ls, host, priv, j) ==
    LET own == Max0(Cap(ls[j]) - priv[j])
        rest == Max0(Reserve + Future(ls, priv, j) - own)
    IN  Max0(host - rest - MIB)

(* An inferred candidate that does not fit is cut to what is backed now. *)
Clippable(ls, host, priv, j) ==
    LET live == AllowanceOf(CandidateBacked(ls, host, priv, j))
    IN  /\ ~Safe(ls, host, priv, j) /\ ~Overrun(ls, priv)
        /\ live >= MIB /\ live < ls[j].allow

(* A bracket that is under way: step counts the readings taken. *)
Bracket(op, j, phase, ls, ok) ==
    [op |-> op, job |-> j, phase |-> phase, ls |-> ls, ok |-> ok, step |-> 0,
     host |-> Total, priv |-> [k \in Guarded |-> 0], peak |-> [k \in Guarded |-> 0], moved |-> 0]

(* H0, P0, H1, P1: the readings before the last one. *)
SampleHost ==
    /\ tx.op # "none" /\ tx.step \in {0, 2}
    /\ tx' = [tx EXCEPT !.step = @ + 1, !.host = Least(@, Available)]
    /\ UNCHANGED <<ledger, policy, memory, procs, cp, rcpt>>
CreditedFirst(j) == used[j]
CreditedSecond(j) == Least(tx.priv[j], used[j])
SamplePrivate ==
    /\ tx.op # "none" /\ tx.step \in {1, 3}
    /\ tx' = [tx EXCEPT !.step = @ + 1,
                !.priv = [j \in Guarded |-> IF tx.step = 1 THEN CreditedFirst(j)
                                         ELSE CreditedSecond(j)],
                !.peak = [j \in Guarded |-> Max({@[j], used[j]})]]
    /\ UNCHANGED <<ledger, policy, memory, procs, cp, rcpt>>
LastHost == Least(tx.host, Available)

(* Memory moves: a command allocates or frees, or something else does. *)
Moving == tx' = IF tx.op = "none" THEN tx ELSE [tx EXCEPT !.moved = @ + 1]
Uses(j, n) == /\ used' = [used EXCEPT ![j] = n]
              /\ IF n = used[j] THEN UNCHANGED tx ELSE Moving
MayMove == /\ moves < MaxMoves /\ Moving /\ moves' = moves + 1
           /\ UNCHANGED <<ledger, policy, procs, cp, rcpt>>
Allocate(j) == /\ MayMove /\ tree[j] \cap {"cmd", "esc"} # {} /\ Available >= MIB
               /\ used' = [used EXCEPT ![j] = @ + MIB] /\ UNCHANGED other
Free(j) == /\ MayMove /\ used[j] >= MIB /\ "cmd" \in tree[j]
           /\ used' = [used EXCEPT ![j] = @ - MIB] /\ UNCHANGED other
OthersAllocate == MayMove /\ Available >= 1 /\ other' = other + 1 /\ UNCHANGED used
OthersFree == MayMove /\ other >= 1 /\ other' = other - 1 /\ UNCHANGED used
------------------------------------------------------------------------------
(* The controller: reserve_memory_guard *)
Admissible(j) ==
    /\ Held(Reaped) # {} => policy = req[j].policy
    /\ Cardinality(Held(Reaped)) < MaxJobs
    /\ req[j].basis = "explicit" => /\ req[j].want <= MaxCmd
                                /\ req[j].want + Overhead + Reserve <= Total
NewLease(j, allow, rem) ==
    [NoLease EXCEPT !.st = "reserved", !.basis = req[j].basis, !.allow = allow, !.rem = rem]

ReserveEnter(j) ==
    /\ cp[j] = "admit" /\ tx.op = "none" /\ Admissible(j)
    /\ tx' = IF req[j].basis = "unprofiled"
                THEN Bracket("reserve", j, "size", Reaped, TRUE)
                ELSE Bracket("reserve", j, "final",
                             [Reaped EXCEPT ![j] = NewLease(j,
                                IF req[j].basis = "learned" THEN Least(req[j].want, MaxCmd) ELSE req[j].want,
                                -1)], TRUE)
    /\ UNCHANGED <<ledger, policy, memory, procs, cp, rcpt>>

ReserveRefused(j) ==
    /\ cp[j] = "admit" /\ tx.op = "none" /\ ~Admissible(j)
    /\ cp' = [cp EXCEPT ![j] = "notstarted"]
    /\ UNCHANGED <<ledger, policy, tx, memory, procs, rcpt>>

(* The sizing bracket of an unprofiled job, then its second bracket *)
ReserveSize ==
    /\ tx.op = "reserve" /\ tx.phase = "size" /\ tx.step = 4
    /\ LET j == tx.job
           backed == FreeBacked(tx.ls, LastHost, tx.priv)
           fits == /\ Safe(tx.ls, LastHost, tx.priv, "none")
                   /\ AllowanceOf(backed) >= MIB
       IN  IF fits
           THEN /\ tx' = Bracket("reserve", j, "final",
                            [tx.ls EXCEPT ![j] = NewLease(j, AllowanceOf(backed), backed)], TRUE)
                /\ UNCHANGED cp
           ELSE /\ tx' = NoTx
                /\ cp' = [cp EXCEPT ![j] = "notstarted"]
    /\ UNCHANGED <<ledger, policy, memory, procs, rcpt>>

(* The lease as it is admitted; NoLease when nothing can be *)
ReservedLease(ls, host, priv, j) ==
    LET backed == CandidateBacked(ls, host, priv, j)
        live == AllowanceOf(backed)
        l == ls[j]
        told == IF req[j].basis = "learned"
                   THEN [l EXCEPT !.live = live, !.backed = l.allow <= live, !.rem = backed]
                ELSE IF req[j].basis = "unprofiled" THEN [l EXCEPT !.rem = Least(@, backed)]
                ELSE l
    IN  IF Safe(ls, host, priv, j) THEN told
        ELSE IF Inferred(l) /\ Clippable(ls, host, priv, j)
             THEN [told EXCEPT !.allow = live, !.backed = FALSE,
                               !.basis = IF Learned(l) THEN "headroom" ELSE @]
        ELSE NoLease

(* The answer of an admission call may be lost on its way to the controller. *)
ReserveFinish ==
    /\ tx.op = "reserve" /\ tx.phase = "final" /\ tx.step = 4
    /\ LET j == tx.job
           l == ReservedLease(tx.ls, LastHost, tx.priv, j)
       IN  IF l = NoLease
           THEN /\ WriteIfReaped
                /\ cp' = [cp EXCEPT ![j] = "notstarted"]
                /\ UNCHANGED rcpt
           ELSE /\ Write([tx.ls EXCEPT ![j] = l], req[j].policy)
                /\ \/ cp' = [cp EXCEPT ![j] = "reserved"] /\ rcpt' = [rcpt EXCEPT ![j] = l]
                   \/ cp' = [cp EXCEPT ![j] = "notstarted"] /\ UNCHANGED rcpt
    /\ tx' = NoTx
    /\ UNCHANGED <<memory, procs>>
------------------------------------------------------------------------------
(* renew_memory_guard, before the command is sent *)
Renewable(j) ==
    /\ policy = req[j].policy /\ Reaped[j].st = "reserved"
    /\ Reaped[j].allow = rcpt[j].allow

RenewEnter(j) ==
    /\ cp[j] = "reserved" /\ tx.op = "none" /\ Renewable(j)
    /\ tx' = Bracket("renew", j, IF Inferred(Reaped[j]) THEN "size" ELSE "final", Reaped, TRUE)
    /\ cp' = [cp EXCEPT ![j] = "renewing"]
    /\ UNCHANGED <<ledger, policy, memory, procs, rcpt>>

(* A renewal that is refused, or a controller that gives up before sending the  *)
(* command: transport.exec releases the reservation and reports a refusal.      *)
RenewRefused(j) ==
    /\ cp[j] = "reserved" /\ tx.op = "none" /\ ~Renewable(j)
    /\ IF policy = req[j].policy /\ Reaped[j].st = "none" THEN WriteIfReaped ELSE Keep
    /\ cp' = [cp EXCEPT ![j] = "release"]
    /\ UNCHANGED <<tx, memory, procs, rcpt>>

(* The reservation with the smaller allowance the rest of the host leaves it *)
Resized(l, recalculated, backed) ==
    LET allow == Least(l.allow, recalculated)
        basis == IF l.basis = "learned" /\ allow < l.allow THEN "headroom" ELSE l.basis
        live == Least(recalculated, l.live)
    IN  [l EXCEPT !.allow = allow, !.basis = basis, !.rem = Least(@, backed),
                  !.live = IF Learned(l) THEN live ELSE -1,
                  !.backed = /\ Learned(l) /\ l.backed
                             /\ basis = "learned" /\ allow <= live]
RenewSize ==
    /\ tx.op = "renew" /\ tx.phase = "size" /\ tx.step = 4
    /\ LET j == tx.job
           others == [tx.ls EXCEPT ![j] = NoLease]
           backed == FreeBacked(others, LastHost, tx.priv)
       IN  tx' = Bracket("renew", j, "final",
                         [tx.ls EXCEPT ![j] = Resized(@, AllowanceOf(backed), backed)],
                         Safe(others, LastHost, tx.priv, "none"))
    /\ UNCHANGED <<ledger, policy, memory, procs, cp, rcpt>>

RenewedLease(ls, host, priv, j, ok) ==
    LET backed == CandidateBacked(ls, host, priv, j)
        live == AllowanceOf(backed)
        l == IF Inferred(ls[j]) /\ Clippable(ls, host, priv, j)
                THEN [ls[j] EXCEPT !.allow = live, !.rem = Least(@, backed), !.backed = FALSE,
                                   !.basis = IF Learned(ls[j]) THEN "headroom" ELSE @,
                                   !.live = IF Learned(ls[j]) THEN Least(live, @) ELSE @]
                ELSE ls[j]
        fits == Safe([ls EXCEPT ![j] = l], host, priv, j)
    IN  IF fits /\ ok /\ l.allow >= MIB THEN [l EXCEPT !.due = FALSE] ELSE NoLease

(* _renewed_reservation_matches, _claim_projection_metadata_is_nonincreasing *)
Matches(old, new) ==
    /\ \/ new.basis = old.basis
       \/ old.basis = "learned" /\ new.basis = "headroom" /\ new.allow < old.allow
    /\ new.allow = old.allow \/ (Inferred(old) /\ new.allow < old.allow)
NonIncreasing(old, new) ==
    /\ IF old.rem = -1 THEN new.rem = -1 ELSE new.rem <= old.rem
    /\ IF old.live = -1 THEN new.live = -1 ELSE new.live <= old.live
    /\ new.backed => old.backed

RenewFinish ==
    /\ tx.op = "renew" /\ tx.phase = "final" /\ tx.step = 4
    /\ LET j == tx.job
           l == RenewedLease(tx.ls, LastHost, tx.priv, j, tx.ok)
       IN  /\ Write([tx.ls EXCEPT ![j] = l], policy)
           /\ \/ /\ l # NoLease /\ Matches(rcpt[j], l) /\ NonIncreasing(rcpt[j], l)
                 /\ cp' = [cp EXCEPT ![j] = "send"] /\ rcpt' = [rcpt EXCEPT ![j] = l]
              \/ cp' = [cp EXCEPT ![j] = "release"] /\ UNCHANGED rcpt
    /\ tx' = NoTx
    /\ UNCHANGED <<memory, procs>>

(* A reading fails or the physical total changes: admission_failed_safe.        *)
TxFails ==
    /\ tx.op \in {"reserve", "renew"} /\ tx.step > 0
    /\ cp' = [cp EXCEPT ![tx.job] = IF tx.op = "reserve" THEN "notstarted" ELSE "release"]
    /\ tx' = NoTx
    /\ UNCHANGED <<ledger, policy, memory, procs, rcpt>>
------------------------------------------------------------------------------
(* _release_memory_lease, which reaps too *)
Release(j, states) ==
    LET ls == [Reaped EXCEPT ![j] = IF @.st \in states THEN NoLease ELSE @]
    IN  /\ tx.op = "none"
        /\ IF ls = ledger THEN Keep ELSE Write(ls, policy)
BestEffortRelease(j, states) == Keep \/ Release(j, states)

(* The command goes out over ssh; it may arrive late, or never. *)
Send(j) ==
    /\ cp[j] = "send" /\ cp' = [cp EXCEPT ![j] = "sent"]
    /\ hp' = [hp EXCEPT ![j] = "flying"]
    /\ UNCHANGED <<req, ledger, policy, tx, memory, tree, exec, res, ran, sig, rcpt>>
(* The helper cannot be staged, or no child can be spawned for it *)
GiveUp(j) ==
    /\ cp[j] \in {"reserved", "send"} /\ cp' = [cp EXCEPT ![j] = "release"]
    /\ UNCHANGED <<ledger, policy, tx, memory, procs, rcpt>>
(* ssh returns with what the helper wrote, or breaks off without it *)
Returns(j) ==
    /\ cp[j] = "sent" /\ hp[j] \in {"done", "killed"}
    /\ cp' = [cp EXCEPT ![j] = "finish"]
    /\ UNCHANGED <<ledger, policy, tx, memory, procs, rcpt>>
Breaks(j) ==
    /\ cp[j] = "sent" /\ cp' = [cp EXCEPT ![j] = "lost"]
    /\ UNCHANGED <<ledger, policy, tx, memory, procs, rcpt>>

(* _effective_guard_reservation: the claimed lease against the renewed one *)
Effective(j) ==
    LET l == res[j].lease
    IN  /\ Matches(rcpt[j], l) /\ NonIncreasing(rcpt[j], l)
        /\ Learned(l) => /\ l.live >= l.allow
                         /\ l.backed = (Least(req[j].want, MaxCmd) <= l.live)
StartEvidence(j) ==
    IF res[j].started = "true" THEN "error-true"
    ELSE IF res[j].status = "refused" /\ res[j].started = "false" THEN "error-false"
    ELSE "unknown"

(* _finalize_guarded_result *)
Outcome(j) ==
    IF hp[j] = "killed" \/ res[j].status = "none" THEN "unknown"
    ELSE IF ~Effective(j) THEN StartEvidence(j)
    ELSE IF res[j].status = "ok" THEN "ok"
    ELSE IF res[j].started = "false" THEN "refused"
    ELSE "stopped"

(* The reservation is given back on every way out of transport.exec. *)
ControllerRelease(j) ==
    /\ cp[j] \in {"release", "lost", "finish"}
    /\ BestEffortRelease(j, {"reserved"})
    /\ cp' = [cp EXCEPT ![j] = CASE @ = "release" -> "notstarted"
                                  [] @ = "lost" -> "unknown"
                                  [] OTHER -> Outcome(j)]
    /\ UNCHANGED <<tx, memory, procs, rcpt>>

(* expires_at of a reservation passes *)
TimePasses(j) ==
    /\ tx.op = "none" /\ ledger[j].st = "reserved" /\ ~ledger[j].due
    /\ ledger' = [ledger EXCEPT ![j].due = TRUE]
    /\ UNCHANGED <<policy, tx, memory, procs, cp, rcpt>>
------------------------------------------------------------------------------
(* The helper, _guarded_run.  A result is emitted when it reaches "done".       *)
Result(j, status, started) ==
    res' = [res EXCEPT ![j] = [status |-> status, started |-> started,
                               lease |-> IF hp[j] \in {"flying", "spawned", "claiming", "broken"}
                                         THEN rcpt[j] ELSE ledger[j]]]
NoResult(j) == res' = [res EXCEPT ![j] = NoRes]
Clear(j) == /\ tree' = [tree EXCEPT ![j] = {}] /\ Uses(j, 0)
            /\ UNCHANGED <<other, moves>>
HelperAt(j, p) == hp' = [hp EXCEPT ![j] = p]

(* Refused before the gate process exists *)
HelperRefuses(j) ==
    /\ hp[j] = "flying"
    /\ BestEffortRelease(j, {"reserved"})
    /\ Result(j, "refused", "false") /\ HelperAt(j, "done")
    /\ UNCHANGED <<req, tx, memory, tree, exec, ran, sig, cp, rcpt>>

(* _spawn_gated_command: the control process waits at the closed gate *)
HelperSpawns(j) ==
    /\ hp[j] = "flying" /\ Available > Reserve
    /\ tree' = [tree EXCEPT ![j] = {"gate"}]
    /\ \E n \in GateUse : n <= Available /\ Uses(j, n)
    /\ HelperAt(j, "spawned")
    /\ UNCHANGED <<req, ledger, policy, other, moves, exec, res, ran, sig, cp, rcpt>>

(* _claim_memory_lease *)
Claimable(j) ==
    /\ policy = req[j].policy /\ Reaped[j].st = "reserved"
    /\ [Reaped[j] EXCEPT !.due = FALSE] = rcpt[j]
ClaimEnter(j) ==
    /\ hp[j] = "spawned" /\ tx.op = "none" /\ Claimable(j)
    /\ tx' = Bracket("claim", j, "final", [Reaped EXCEPT ![j].st = "running"], TRUE)
    /\ HelperAt(j, "claiming")
    /\ UNCHANGED <<req, ledger, policy, memory, tree, exec, res, ran, sig, cp, rcpt>>
(* The gate is closed and the control process ended before the refusal is told. *)
ClaimRefused(j) ==
    /\ hp[j] = "spawned" /\ tx.op = "none" /\ ~Claimable(j)
    /\ Release(j, {"reserved"}) \/ Keep
    /\ Clear(j) /\ Result(j, "refused", "false") /\ HelperAt(j, "done")
    /\ UNCHANGED <<req, exec, ran, sig, cp, rcpt>>

ClaimedLease(ls, host, priv, peak, j) ==
    LET backed == CandidateBacked(ls, host, priv, j)
        live == AllowanceOf(backed)
        clip == Inferred(ls[j]) /\ Clippable(ls, host, priv, j)
        l == IF clip
                THEN [ls[j] EXCEPT !.allow = live, !.rem = backed, !.backed = FALSE,
                                   !.basis = IF Learned(ls[j]) THEN "headroom" ELSE @,
                                   !.live = IF Learned(ls[j]) THEN live ELSE @]
                ELSE ls[j]
    IN  IF (clip \/ Safe(ls, host, priv, j)) /\ peak[j] <= Overhead
        THEN [l EXCEPT !.due = FALSE] ELSE NoLease
ClaimFinish ==
    /\ tx.op = "claim" /\ tx.step = 4
    /\ LET j == tx.job
           l == ClaimedLease(tx.ls, LastHost, tx.priv, tx.peak, j)
       IN  /\ Write([tx.ls EXCEPT ![j] = l], policy)
           /\ IF l # NoLease
              THEN HelperAt(j, "claimed") /\ UNCHANGED <<res, tree, used>>
              ELSE /\ HelperAt(j, "done") /\ Result(j, "refused", "false")
                   /\ tree' = [tree EXCEPT ![j] = {}] /\ used' = [used EXCEPT ![j] = 0]
    /\ tx' = NoTx
    /\ UNCHANGED <<req, other, moves, exec, ran, sig, cp, rcpt>>

(* A signal, an unidentified process or a failed reading up to the claim *)
HelperBreaks(j) ==
    /\ hp[j] \in {"spawned", "claiming"} /\ HelperAt(j, "broken")
    /\ tx' = IF hp[j] = "claiming" THEN NoTx ELSE tx
    /\ UNCHANGED <<req, ledger, policy, memory, tree, exec, res, ran, sig, cp, rcpt>>

(* READY, then the one byte that opens the gate *)
ReleaseGate(j) ==
    /\ hp[j] = "claimed" /\ HelperAt(j, "released")
    /\ exec' = [exec EXCEPT ![j] = "open"]
    /\ UNCHANGED <<req, ledger, policy, tx, memory, tree, res, ran, sig, cp, rcpt>>
------------------------------------------------------------------------------
(* The control process, _gate_exec_child, and the command *)
GateStarts(j) ==
    /\ "gate" \in tree[j] /\ exec[j] = "open"
    /\ tree' = [tree EXCEPT ![j] = @ \cup {"cmd"}] /\ ran' = [ran EXCEPT ![j] = TRUE]
    /\ exec' \in {[exec EXCEPT ![j] = e] : e \in {"confirmed", "silent"}}
    /\ UNCHANGED <<req, ledger, policy, tx, memory, hp, res, sig, cp, rcpt>>
GateFails(j) ==
    /\ "gate" \in tree[j] /\ exec[j] = "open"
    /\ exec' = [exec EXCEPT ![j] = "failed"] /\ Clear(j)
    /\ UNCHANGED <<req, ledger, policy, hp, res, ran, sig, cp, rcpt>>
GateCloses(j) ==
    /\ "gate" \in tree[j] /\ exec[j] = "none" /\ hp[j] \in {"done", "killed"}
    /\ Clear(j)
    /\ UNCHANGED <<req, ledger, policy, exec, hp, res, ran, sig, cp, rcpt>>

ProcessEnds(j, who) ==
    LET rest == tree[j] \ {who}
    IN  /\ tree' = [tree EXCEPT ![j] = rest]
        /\ Uses(j, IF rest = {} THEN 0 ELSE used[j])
        /\ UNCHANGED <<req, ledger, policy, other, moves, exec, hp, res, ran, sig, cp, rcpt>>
(* The direct command ends and the control process relays its exit; descendants *)
(* may stay in the group or outside it.                                         *)
GateRelays(j) == exec[j] \in {"confirmed", "silent"} /\ "gate" \in tree[j] /\ ProcessEnds(j, "gate")
CommandExits(j) == "cmd" \in tree[j] /\ ProcessEnds(j, "cmd")
EscapeeExits(j) == "esc" \in tree[j] /\ ProcessEnds(j, "esc")
Escapes(j) ==
    /\ "cmd" \in tree[j] /\ "esc" \notin tree[j] /\ hp[j] = "watch"
    /\ tree' = [tree EXCEPT ![j] = @ \cup {"esc"}]
    /\ UNCHANGED <<req, ledger, policy, tx, memory, exec, hp, res, ran, sig, cp, rcpt>>
------------------------------------------------------------------------------
(* _terminate_guarded_tree: SIGTERM, SIGKILL, and a bounded wait that may end   *)
(* with processes the kernel has not let go                                     *)
Terminate(j, after) ==
    \/ Clear(j) /\ HelperAt(j, after.free)
    \/ /\ \E left \in (SUBSET tree[j]) \ {{}} : tree' = [tree EXCEPT ![j] = left]
       /\ HelperAt(j, after.hold) /\ UNCHANGED <<memory, tx>>
Normal == [free |-> "free", hold |-> "hold"]
Handler == [free |-> "xfree", hold |-> "xhold"]

ExecConfirmed(j) ==
    /\ hp[j] = "released" /\ exec[j] = "confirmed" /\ HelperAt(j, "watch")
    /\ UNCHANGED <<req, ledger, policy, tx, memory, tree, exec, res, ran, sig, cp, rcpt>>
ExecFailed(j) ==
    /\ hp[j] = "released" /\ exec[j] = "failed"
    /\ Terminate(j, Normal) /\ Result(j, "refused", "false")
    /\ UNCHANGED <<req, ledger, policy, exec, ran, sig, cp, rcpt>>

(* The sampling loop: the explicit limit, the host reserve, or a failed sample *)
Triggered(j) ==
    \/ req[j].basis = "explicit" /\ used[j] >= req[j].want
    \/ Available <= Reserve
SampleStops(j) ==
    /\ hp[j] \in {"watch", "drain"}
    /\ Terminate(j, Normal)
    /\ Result(j, IF Triggered(j) /\ tree'[j] = {} THEN "terminated" ELSE "failed_safe", "true")
    /\ UNCHANGED <<req, ledger, policy, exec, ran, sig, cp, rcpt>>
DirectExits(j) ==
    /\ hp[j] = "watch" /\ "gate" \notin tree[j] /\ HelperAt(j, "drain")
    /\ UNCHANGED <<req, ledger, policy, tx, memory, tree, exec, res, ran, sig, cp, rcpt>>
(* Drained within the grace period, or ended by force after it *)
Drained(j) ==
    /\ hp[j] = "drain" /\ Terminate(j, Normal)
    /\ Result(j, IF tree'[j] = {} THEN "ok" ELSE "failed_safe", "true")
    /\ UNCHANGED <<req, ledger, policy, exec, ran, sig, cp, rcpt>>

ExceptTold(j, claimed, attempted) ==
    /\ IF claimed THEN Terminate(j, Handler) /\ Keep
       ELSE Clear(j) /\ HelperAt(j, "done") /\ BestEffortRelease(j, {"reserved"})
    /\ Result(j, "refused", "false")
    /\ UNCHANGED <<req, exec, ran, cp, rcpt>>
(* The except handler: the tree is ended, the lease finalized, and a result is  *)
(* told unless the gate was opened without a proof of what happened.            *)
Except(j, claimed, attempted) ==
    LET confirmed == hp[j] \in {"watch", "drain", "free", "hold"} /\ exec[j] = "confirmed"
    IN  /\ IF claimed
           THEN Terminate(j, Handler) /\ Keep
           ELSE Clear(j) /\ HelperAt(j, "done") /\ BestEffortRelease(j, {"reserved"})
        /\ IF attempted /\ ~confirmed THEN NoResult(j)
           ELSE IF confirmed THEN Result(j, "failed_safe", "true")
           ELSE Result(j, "refused", "false")
        /\ UNCHANGED <<req, exec, ran, cp, rcpt>>
BreakEnds(j) == hp[j] = "broken" /\ Except(j, FALSE, FALSE) /\ UNCHANGED sig
ExecUnknown(j) ==
    /\ hp[j] = "released" /\ exec[j] \in {"open", "silent"}
    /\ Except(j, TRUE, TRUE) /\ UNCHANGED sig

(* A signal raises in the helper wherever it is; inside the handler nothing     *)
(* catches it and the helper exits.                                             *)
Signalled(j) == sig[j] < MaxSignals /\ sig' = [sig EXCEPT ![j] = @ + 1]
SignalStops(j) ==
    /\ Signalled(j)
    /\ \/ /\ hp[j] = "claimed"
          /\ Except(j, FALSE, FALSE) \/ Except(j, TRUE, FALSE) \/ Except(j, TRUE, TRUE)
       \/ hp[j] \in {"released", "watch", "drain", "free", "hold"} /\ Except(j, TRUE, TRUE)
SignalEscapes(j) ==
    /\ Signalled(j) /\ hp[j] \in {"xfree", "xhold"} /\ HelperAt(j, "killed")
    /\ UNCHANGED <<req, ledger, policy, tx, memory, tree, exec, res, ran, cp, rcpt>>
HelperKilled(j) ==
    /\ sig[j] < MaxSignals /\ sig' = [sig EXCEPT ![j] = MaxSignals]
    /\ hp[j] \notin {"none", "flying", "done", "killed"} /\ HelperAt(j, "killed")
    /\ tx' = IF tx.op = "claim" /\ tx.job = j THEN NoTx ELSE tx
    /\ UNCHANGED <<req, ledger, policy, memory, tree, exec, res, ran, cp, rcpt>>

(* finalize_claimed_lease: freed, or held until quarantined or survived *)
HelperFrees(j) ==
    /\ hp[j] \in {"free", "xfree"} /\ HelperAt(j, "done")
    /\ BestEffortRelease(j, {"reserved", "running"})
    /\ UNCHANGED <<req, tx, memory, tree, exec, res, ran, sig, cp, rcpt>>
HoldEnds(j) ==
    /\ hp[j] \in {"hold", "xhold"} /\ tree[j] = {} /\ HelperAt(j, "done")
    /\ BestEffortRelease(j, {"reserved", "running"})
    /\ UNCHANGED <<req, tx, memory, tree, exec, res, ran, sig, cp, rcpt>>
Quarantine(j) ==
    /\ hp[j] \in {"hold", "xhold"} /\ tree[j] # {} /\ tx.op = "none"
    /\ ledger[j].st \in {"running", "quarantined"} /\ HelperAt(j, "done")
    /\ Write([ledger EXCEPT ![j].st = "quarantined", ![j].surv = tree[j]], policy)
    /\ UNCHANGED <<req, tx, memory, tree, exec, res, ran, sig, cp, rcpt>>
------------------------------------------------------------------------------
GuardInit ==
    /\ req \in Workloads
    /\ ledger = [j \in Guarded |-> NoLease] /\ policy = "none" /\ tx = NoTx
    /\ used = [j \in Guarded |-> 0] /\ other = Background /\ moves = 0
    /\ tree = [j \in Guarded |-> {}] /\ exec = [j \in Guarded |-> "none"]
    /\ hp = [j \in Guarded |-> "none"] /\ res = [j \in Guarded |-> NoRes]
    /\ cp = [j \in Guarded |-> "admit"] /\ rcpt = [j \in Guarded |-> NoLease]
    /\ ran = [j \in Guarded |-> FALSE] /\ sig = [j \in Guarded |-> 0]

Admission(j) ==
    \/ ReserveEnter(j) \/ ReserveRefused(j) \/ RenewEnter(j) \/ RenewRefused(j)
    \/ ClaimEnter(j) \/ ClaimRefused(j)
Controller(j) ==
    \/ Send(j) \/ GiveUp(j) \/ Returns(j) \/ Breaks(j) \/ ControllerRelease(j)
Helper(j) ==
    \/ HelperRefuses(j) \/ HelperSpawns(j) \/ HelperBreaks(j) \/ BreakEnds(j) \/ ReleaseGate(j)
    \/ ExecConfirmed(j) \/ ExecFailed(j) \/ ExecUnknown(j)
    \/ SampleStops(j) \/ DirectExits(j) \/ Drained(j)
    \/ HelperFrees(j) \/ HoldEnds(j) \/ Quarantine(j)
    \/ SignalStops(j) \/ SignalEscapes(j) \/ HelperKilled(j)
Target(j) ==
    \/ GateStarts(j) \/ GateFails(j) \/ GateCloses(j) \/ GateRelays(j)
    \/ CommandExits(j) \/ EscapeeExits(j) \/ Escapes(j)
    \/ Allocate(j) \/ Free(j) \/ TimePasses(j)
GuardNext ==
    \/ \E j \in Guarded : Admission(j) \/ Controller(j) \/ Helper(j) \/ Target(j)
    \/ SampleHost \/ SamplePrivate \/ ReserveSize \/ ReserveFinish
    \/ RenewSize \/ RenewFinish \/ ClaimFinish \/ TxFails
    \/ OthersAllocate \/ OthersFree
GuardSpec == GuardInit /\ [][GuardNext]_guardVars
------------------------------------------------------------------------------
Outcomes == {"notstarted", "refused", "stopped", "ok", "unknown", "error-true", "error-false"}
GuardTypeOK ==
    /\ Available >= 0 /\ other >= 0
    /\ \A j \in Guarded :
        /\ ledger[j].st \in {"none", "reserved", "running", "quarantined"}
        /\ ledger[j].st = "none" <=> ledger[j] = NoLease
        /\ cp[j] \in Outcomes \cup {"admit", "reserved", "renewing", "send", "sent", "lost",
                                   "finish", "release"}
        /\ tree[j] \subseteq {"gate", "cmd", "esc"} /\ used[j] \in 0..Total

\* The processes of a command's group never run beside a ledger that has
\* forgotten them: whatever happens to the helper (a signal, a kill, a cleanup
\* that fails), its lease stays running or quarantined while one is alive.
GroupIsAccounted ==
    \A j \in Guarded : "cmd" \in tree[j] => ledger[j].st \in {"running", "quarantined"}

\* A controller that reports a refusal before the start is right: the command
\* did not run and will not, however late its helper arrives.
RefusalIsTrue ==
    \A j \in Guarded : cp[j] \in {"notstarted", "refused", "error-false"} => ~ran[j]

\* What guarded trees gave back after the readings that credited them with it.
GivenBack == MapThenSumSet(LAMBDA k : Max0(tx.priv[k] - used[k]), Guarded)

\* The step that admits, renews or claims a lease leaves, in the memory as it is
\* at the last reading, the host reserve, what every explicit lease may still
\* take, and what this lease may still take: exactly, when memory moved at most
\* once within the bracket, and otherwise but for what guarded trees gave back
\* after they were read (README: Disagreements).
AdmissionIsBacked ==
    [][\A j \in Guarded : tx.op # "none" /\ tx.job = j /\ ledger' # ledger
                          /\ ledger'[j].st \in {"reserved", "running"}
                       => Available + (IF tx.moved > 1 THEN GivenBack ELSE 0)
                            > Reserve + Future(ledger', used, j)]_guardVars

\* (does not hold, see README: Disagreements)
\* _capacity_transaction: the bracket "rejects both growth-between-reads and
\* shrink-between-reads double credit", however often memory moves within it.
BracketRejectsDoubleCredit ==
    [][\A j \in Guarded : tx.op # "none" /\ tx.job = j /\ ledger' # ledger
                          /\ ledger'[j].st \in {"reserved", "running"}
                       => Available > Reserve + Future(ledger', used, j)]_guardVars
==============================================================================
