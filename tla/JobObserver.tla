----------------------------- MODULE JobObserver ----------------------------
(***************************************************************************)
(* The target's registry of active jobs: the observer that wraps a command *)
(* (a POSIX process group, or a Windows Job Object whose handle a detached *)
(* keeper retains), controller operations that register themselves, the    *)
(* query behind "fleet jobs" and durable resume, and the cancellation of   *)
(* an interrupted Windows run.  Process ids are reused; an identity is a   *)
(* pid with its generation.  A scan of the process table is one step.      *)
(***************************************************************************)
EXTENDS Naturals, FiniteSets

CONSTANTS Commands,      \* jobs that wrap a command
          Ops,           \* controller operations (git sync)
          Pids,          \* process ids
          MaxGen,        \* how often each may be allocated
          MaxActive,     \* MAX_ACTIVE_JOBS
          MaxFaults

Jobs == Commands \cup Ops

ASSUME ConstAssumption == /\ Commands \cap Ops = {} /\ 0 \notin Pids
                          /\ MaxGen \in Nat /\ MaxActive \in Nat

VARIABLES platform,      \* posix or windows
          durable,       \* commands launched with a ready file and a start gate
          proc,          \* the process table
          gen,           \* generation of the last process of each pid
          rows,          \* the registry: a row per job, or NoRow
          pc,            \* where the observer of each job is
          own,           \* identity of the observer (posix) or the keeper (windows)
          kid,           \* identity of the command's process
          next,          \* the survivor an observer is about to record
          gate,          \* jobs whose start gate file exists
          cancel,        \* cancellation of each job by its controller
          blind,         \* jobs whose start or child the observer failed to see
          query, faults

reg == <<rows, gen>>
host == <<platform, durable>>
vars == <<host, proc, gen, rows, pc, own, kid, next, gate, cancel, blind, query,
          faults>>

NoProc == [role |-> "none", of |-> "-", pgid |-> 0]
NoId == <<0, 0>>
NoRow == [kind |-> "none", owner |-> NoId, wit |-> NoId]
Idle == [pc |-> "idle", rows |-> [j \in Jobs |-> NoRow], first |-> {}, unknown |-> {},
         running |-> {}, status |-> "none"]

Live == {p \in Pids : proc[p] # NoProc}
InGroup(g) == {p \in Live : proc[p].pgid = g}
Id(p) == <<p, gen[p]>>

(* The user processes of a job in its group or Job Object. *)
Members(j) == {p \in Live : proc[p].of = j /\ proc[p].role = "user"}
JobPids(j) == {p \in Live : proc[p].of = j /\ proc[p].role \in {"user", "susp"}}

Process(r, j, g) == [role |-> r, of |-> j, pgid |-> g]

(* Outside every job's group: a stranger, a command run without observer,  *)
(* a process that called setsid or broke away.                             *)
Outside(p) == Process("stranger", "-", IF platform = "posix" THEN p ELSE 0)

(* A new process gets a pid that is neither a process nor a group. *)
FreePid(p) == p \notin Live /\ InGroup(p) = {} /\ gen[p] < MaxGen
Fault == faults < MaxFaults /\ faults' = faults + 1

Init == /\ platform \in {"posix", "windows"} /\ durable \in SUBSET Commands
        /\ proc = [p \in Pids |-> NoProc] /\ gen = [p \in Pids |-> 0]
        /\ rows = [j \in Jobs |-> NoRow]
        /\ pc = [j \in Jobs |-> "idle"]
        /\ own = [j \in Jobs |-> NoId] /\ kid = [j \in Jobs |-> NoId]
        /\ next = [j \in Jobs |-> NoId]
        /\ gate = {}
        /\ cancel = [j \in Jobs |-> "none"] /\ blind = {}
        /\ query = Idle /\ faults = 0

Go(j, l) == pc' = [pc EXCEPT ![j] = l]
Create(p, r) == proc' = [proc EXCEPT ![p] = r] /\ gen' = [gen EXCEPT ![p] = @ + 1]
Without(S) == [p \in Pids |-> IF p \in S THEN NoProc ELSE proc[p]]
Pid(id) == IF id # NoId /\ gen[id[1]] = id[2] THEN {id[1]} ELSE {}
Drop(j) == rows' = [rows EXCEPT ![j] = NoRow]
----------------------------------------------------------------------------
(* What the process table says about an identity and about a row.          *)
(* Mutant: an identity is its pid. *)
IdStateByPid(id) == IF id[1] \notin Live THEN "missing" ELSE "match"

IdState(id) == IF id[1] \notin Live THEN "missing"
               ELSE IF Id(id[1]) = id THEN "match" ELSE "mismatch"

Others(r) == InGroup(r.owner[1]) \ {p \in Live : Id(p) = r.owner}

PosixSample(r) ==
  IF IdState(r.wit) = "match"
  THEN IF r.wit = r.owner THEN IF Others(r) # {} THEN "live" ELSE "unknown"
       ELSE IF proc[r.wit[1]].pgid = r.owner[1] THEN "live" ELSE "unknown"
  ELSE IF Others(r) # {} THEN "unknown" ELSE "stale"

(* The name of a Job Object lasts as long as a process holds a handle.     *)
Holding == {"keeper", "register", "ready", "gate", "spawn", "child", "wait", "count", "unreg",
            "exit"}
NameOpen(j) == \/ pc[j] \in Holding \/ IdState(own[j]) = "match"
               \/ cancel[j] \in {"open", "killed"}

WindowsSample(j, r) == IF IdState(r.owner) # "match" \/ ~NameOpen(j) THEN "unknown"
                       ELSE IF JobPids(j) = {} THEN "stale" ELSE "live"

OpSample(r) == IF IdState(r.wit) = "match" THEN "live" ELSE "stale"

Sample(j, r) == CASE r.kind = "op" -> OpSample(r)
                  [] r.kind = "posix_pgid" -> PosixSample(r)
                  [] r.kind = "windows_job_v2" -> WindowsSample(j, r)

(* Launch-time reclamation of rows whose job is provably over. *)
Stale(j, r) ==
  CASE r.kind = "none" -> FALSE
    [] r.kind = "op" -> IdState(r.wit) # "match"
    [] r.kind = "posix_pgid" -> IdState(r.wit) # "match" /\ InGroup(r.owner[1]) = {}
    [] r.kind = "windows_job_v2" -> NameOpen(j) /\ JobPids(j) = {}

Cleaned == [j \in Jobs |-> IF Stale(j, rows[j]) THEN NoRow ELSE rows[j]]
Count(R) == Cardinality({j \in Jobs : R[j] # NoRow})

(* One transaction: reclaim, count, insert. *)
Register(j, r) == Count(Cleaned) < MaxActive /\ rows' = [Cleaned EXCEPT ![j] = r]

----------------------------------------------------------------------------
(* Starting the observer: a private group of its own, or a named Job with  *)
(* the suspended command in it and a keeper that holds a second handle.    *)
OwnGroup(j) == \E p \in Pids :
  /\ platform = "posix" /\ j \in Commands /\ pc[j] = "idle" /\ FreePid(p)
  /\ Create(p, Process("observer", j, p))
  /\ own' = [own EXCEPT ![j] = <<p, gen[p] + 1>>]
  /\ Go(j, "register")
  /\ UNCHANGED <<host, rows, kid, next, gate, cancel, blind, query, faults>>

CreateSuspended(j) == \E p \in Pids :
  /\ platform = "windows" /\ j \in Commands /\ pc[j] = "idle" /\ FreePid(p)
  /\ Create(p, Process("susp", j, 0))
  /\ kid' = [kid EXCEPT ![j] = <<p, gen[p] + 1>>]
  /\ Go(j, "keeper")
  /\ UNCHANGED <<host, rows, own, next, gate, cancel, blind, query, faults>>

CreateKeeper(j) == \E p \in Pids :
  /\ pc[j] = "keeper" /\ FreePid(p)
  /\ Create(p, Process("keeper", j, 0))
  /\ own' = [own EXCEPT ![j] = <<p, gen[p] + 1>>]
  /\ Go(j, "register")
  /\ UNCHANGED <<host, rows, kid, next, gate, cancel, blind, query, faults>>

(* exec_observed could not install the observer: the command runs without. *)
Fallback(j) == \E p \in Pids :
  /\ j \in Commands \ durable /\ pc[j] = "idle" /\ Fault /\ FreePid(p)
  /\ Create(p, Outside(p))
  /\ Go(j, "over")
  /\ UNCHANGED <<host, rows, own, kid, next, gate, cancel, blind, query>>

Kind == IF platform = "posix" THEN "posix_pgid" ELSE "windows_job_v2"

RegisterJob(j) ==
  /\ j \in Commands /\ pc[j] = "register"
  /\ Register(j, [kind |-> Kind, owner |-> own[j], wit |-> own[j]])
  /\ Go(j, IF j \in durable THEN "ready" ELSE "spawn")
  /\ UNCHANGED <<host, proc, gen, own, kid, next, gate, cancel, blind, query,
                 faults>>

(* What a failed startup leaves: no row, no suspended command, no keeper.  *)
Abandoned(j) == Pid(own[j]) \cup {p \in Pid(kid[j]) : proc[p].role = "susp"}

(* No row: with a ready file that is fatal, otherwise the command runs     *)
(* unobserved.                                                             *)
Unobserved(j) ==
  /\ IF j \in durable
     THEN proc' = Without(Abandoned(j)) /\ UNCHANGED gen
     ELSE \E p \in Pids :
            /\ FreePid(p) /\ gen' = [gen EXCEPT ![p] = @ + 1]
            /\ proc' = [Without(Abandoned(j)) EXCEPT ![p] = Outside(p)]
  /\ Go(j, "over")
  /\ UNCHANGED <<host, rows, own, kid, next, gate, cancel, blind, query>>

KeeperFails(j) == pc[j] = "keeper" /\ Fault /\ Unobserved(j)

RegisterFails(j) ==
  /\ j \in Commands /\ pc[j] = "register" /\ Unobserved(j)
  /\ IF Count(Cleaned) < MaxActive THEN Fault ELSE UNCHANGED faults

WriteReady(j) == /\ pc[j] = "ready" /\ Go(j, "gate")
                 /\ UNCHANGED <<host, proc, reg, own, kid, next, gate, cancel, blind,
                                query, faults>>

(* The supervisor opens the gate once the claim is in the ledger. *)
OpenGate(j) == /\ pc[j] = "gate" /\ gate' = gate \cup {j}
               /\ UNCHANGED <<host, proc, reg, pc, own, kid, next, cancel, blind,
                              query, faults>>

WaitGate(j) == /\ pc[j] = "gate" /\ j \in gate /\ Go(j, "spawn")
               /\ UNCHANGED <<host, proc, reg, own, kid, next, gate, cancel, blind,
                              query, faults>>

(* The ready file, the gate or the launch fails, or on Windows the started *)
(* receipt: the row goes and the error is raised.                          *)
StartFails(j) ==
  /\ pc[j] \in {"ready", "gate", "spawn"} \/ (platform = "windows" /\ pc[j] = "child")
  /\ Fault /\ Drop(j) /\ proc' = Without(Abandoned(j)) /\ Go(j, "over")
  /\ blind' = IF pc[j] = "child" THEN blind \cup {j} ELSE blind
  /\ UNCHANGED <<host, gen, own, kid, next, gate, cancel, query>>

Popen(j) == \E p \in Pids :
  /\ platform = "posix" /\ pc[j] = "spawn" /\ FreePid(p)
  /\ Create(p, Process("user", j, own[j][1]))
  /\ kid' = [kid EXCEPT ![j] = <<p, gen[p] + 1>>]
  /\ Go(j, "child")
  /\ UNCHANGED <<host, rows, own, next, gate, cancel, blind, query, faults>>

(* Resuming a process that was terminated meanwhile starts nothing. *)
Resume(j) ==
  /\ platform = "windows" /\ pc[j] = "spawn"
  /\ IF \E p \in Pid(kid[j]) : proc[p].role = "susp"
     THEN proc' = [proc EXCEPT ![kid[j][1]].role = "user"]
     ELSE UNCHANGED proc
  /\ Go(j, "child")
  /\ UNCHANGED <<host, reg, own, kid, next, gate, cancel, blind, query, faults>>

(* The child is seen in the process table and becomes the witness, unless  *)
(* the table cannot be read or the row cannot be written: only a warning.  *)
RecordChild(j) ==
  /\ pc[j] = "child"
  /\ IF platform = "posix" /\ IdState(kid[j]) = "match"
     THEN \/ /\ rows' = [rows EXCEPT ![j].wit = IF @ = NoId THEN NoId ELSE kid[j]]
             /\ UNCHANGED faults
          \/ UNCHANGED rows /\ Fault
     ELSE UNCHANGED <<rows, faults>>
  /\ platform = "posix" /\ j \in durable => IdState(kid[j]) = "match"
  /\ Go(j, "wait")
  /\ UNCHANGED <<host, proc, gen, own, kid, next, gate, cancel, blind, query>>

(* With a started receipt to write, a child that has ended or is not seen  *)
(* in time is fatal: it is terminated, and the row goes.                   *)
ChildUnseen(j) ==
  /\ platform = "posix" /\ pc[j] = "child" /\ j \in durable
  /\ IF IdState(kid[j]) = "match" THEN Fault ELSE UNCHANGED faults
  /\ proc' = Without(Pid(own[j]) \cup Pid(kid[j]))
  /\ Drop(j) /\ Go(j, "over") /\ blind' = blind \cup {j}
  /\ UNCHANGED <<host, gen, own, kid, next, gate, cancel, query>>

Wait(j) == /\ pc[j] = "wait" /\ j \in Commands /\ IdState(kid[j]) # "match" /\ Go(j, "count")
           /\ UNCHANGED <<host, proc, reg, own, kid, next, gate, cancel, blind, query,
                          faults>>

(* The survivors of the group decide what becomes of the row.  Mutant: the *)
(* command's own end decides.                                              *)
CountSurvivorsNone(j) ==
  /\ pc[j] = "count" /\ Go(j, "unreg")
  /\ UNCHANGED <<host, proc, reg, own, kid, next, gate, cancel, blind, query,
                 faults>>

CountSurvivors(j) ==
  /\ pc[j] = "count"
  /\ IF JobPids(j) = {} THEN Go(j, "unreg") /\ UNCHANGED next
     ELSE IF platform = "windows" THEN Go(j, "exit") /\ UNCHANGED next
     ELSE /\ Go(j, "survivor")
          /\ \E p \in JobPids(j) : next' = [next EXCEPT ![j] = Id(p)]
  /\ UNCHANGED <<host, proc, reg, own, kid, gate, cancel, blind, query, faults>>

(* The process table cannot be read: the row is kept. *)
CountFails(j) ==
  /\ pc[j] = "count" /\ Fault /\ Go(j, "exit")
  /\ UNCHANGED <<host, proc, reg, own, kid, next, gate, cancel, blind, query>>

Unregister(j) ==
  /\ pc[j] = "unreg" /\ Drop(j) /\ Go(j, "exit")
  /\ UNCHANGED <<host, proc, gen, own, kid, next, gate, cancel, blind, query,
                 faults>>

RecordSurvivor(j) ==
  /\ pc[j] = "survivor" /\ Go(j, "exit")
  /\ rows' = [rows EXCEPT ![j].wit = IF @ = NoId THEN NoId ELSE next[j]]
  /\ UNCHANGED <<host, proc, gen, own, kid, next, gate, cancel, blind, query,
                 faults>>

(* A registry write that fails is only warned about. *)
WriteFails(j) ==
  /\ Fault
  /\ \/ pc[j] \in {"unreg", "survivor"} /\ Go(j, "exit")
     \/ platform = "posix" /\ pc[j] = "child" /\ IdState(kid[j]) = "match" /\ Go(j, "wait")
  /\ UNCHANGED <<host, proc, reg, own, kid, next, gate, cancel, blind, query>>

(* The observer process ends; what it knew goes with it. *)
Gone(j) == /\ Go(j, "over") /\ kid' = [kid EXCEPT ![j] = NoId]
           /\ next' = [next EXCEPT ![j] = NoId]
           /\ gate' = gate \ {j}
           /\ proc' = IF platform = "posix" THEN Without(Pid(own[j])) ELSE proc

Exit(j) == /\ pc[j] = "exit" /\ j \in Commands /\ Gone(j)
           /\ UNCHANGED <<host, reg, own, cancel, blind, query, faults>>

(* Killed; the suspended command of a dead observer stays. *)
Killed(j) == /\ j \in Commands /\ pc[j] \notin {"idle", "over"} /\ Fault /\ Gone(j)
             /\ UNCHANGED <<host, reg, own, cancel, blind, query>>

Observer(j) == \/ OwnGroup(j) \/ CreateSuspended(j) \/ CreateKeeper(j) \/ Fallback(j)
               \/ KeeperFails(j) \/ RegisterJob(j) \/ RegisterFails(j) \/ WriteReady(j)
               \/ WaitGate(j) \/ StartFails(j) \/ Popen(j) \/ Resume(j) \/ RecordChild(j)
               \/ ChildUnseen(j) \/ Wait(j) \/ CountSurvivors(j) \/ CountFails(j) \/ Unregister(j)
               \/ RecordSurvivor(j) \/ WriteFails(j) \/ Exit(j)

----------------------------------------------------------------------------
(* The keeper holds the Job until it is empty, then removes the row and    *)
(* ends; it may be killed, and its last write may fail for good.           *)
IsKeeper(p) == p \in Live /\ proc[p].role = "keeper"

KeeperEnds(p) ==
  /\ IsKeeper(p) /\ JobPids(proc[p].of) = {}
  /\ proc' = Without({p})
  /\ \/ Drop(proc[p].of) /\ UNCHANGED faults
     \/ Fault /\ UNCHANGED rows
  /\ UNCHANGED <<host, gen, pc, own, kid, next, gate, cancel, blind, query>>

KeeperKilled(p) ==
  /\ IsKeeper(p) /\ Fault /\ proc' = Without({p})
  /\ UNCHANGED <<host, reg, pc, own, kid, next, gate, cancel, blind, query>>

(* A controller operation registers its own process, and takes the row     *)
(* back when it ends; killed, it leaves it.                                *)
OpStarts(j) == \E p \in Pids :
  /\ j \in Ops /\ pc[j] = "idle" /\ FreePid(p)
  /\ Create(p, Process("user", j, IF platform = "posix" THEN p ELSE 0))
  /\ own' = [own EXCEPT ![j] = <<p, gen[p] + 1>>]
  /\ Go(j, "register")
  /\ UNCHANGED <<host, rows, kid, next, gate, cancel, blind, query, faults>>

OpRegisters(j) ==
  /\ j \in Ops /\ pc[j] = "register"
  /\ \/ Register(j, [kind |-> "op", owner |-> own[j], wit |-> own[j]]) /\ UNCHANGED faults
     \/ /\ IF Count(Cleaned) < MaxActive THEN Fault ELSE UNCHANGED faults
        /\ UNCHANGED rows
  /\ blind' = IF rows'[j] = NoRow THEN blind \cup {j} ELSE blind
  /\ Go(j, "wait")
  /\ UNCHANGED <<host, proc, gen, own, kid, next, gate, cancel, query>>

OpEnds(j) ==
  /\ j \in Ops /\ pc[j] = "wait" /\ Go(j, "over")
  /\ proc' = Without(Pid(own[j]))
  /\ \/ Drop(j) /\ UNCHANGED faults
     \/ Fault /\ UNCHANGED rows
  /\ UNCHANGED <<host, gen, own, kid, next, gate, cancel, blind, query>>

----------------------------------------------------------------------------
(* What user processes do, and what else runs on the target. *)
IsUser(p) == p \in Live /\ proc[p].role = "user" /\ proc[p].of \in Commands

Fork(p) == \E c \in Pids :
  /\ IsUser(p) /\ FreePid(c) /\ Create(c, proc[p])
  /\ UNCHANGED <<host, rows, pc, own, kid, next, gate, cancel, blind, query, faults>>

Ends(p) ==
  /\ IsUser(p) \/ (p \in Live /\ proc[p].role = "stranger")
  /\ proc' = Without({p})
  /\ UNCHANGED <<host, reg, pc, own, kid, next, gate, cancel, blind, query, faults>>

Leaves(p) ==
  /\ IsUser(p)
  /\ proc' = [proc EXCEPT ![p] = Outside(p)]
  /\ UNCHANGED <<host, reg, pc, own, kid, next, gate, cancel, blind, query, faults>>

Stranger(p) ==
  /\ FreePid(p) /\ gen[p] > 0
  /\ Create(p, Outside(p))
  /\ UNCHANGED <<host, rows, pc, own, kid, next, gate, cancel, blind, query, faults>>

----------------------------------------------------------------------------
(* The query: rows, a first snapshot, a pause, a second snapshot.          *)
Rest == <<host, proc, reg, pc, own, kid, next, gate, cancel, blind>>

ReadRecords == /\ query.pc = "idle"
               /\ query' = [Idle EXCEPT !.pc = "first", !.rows = rows]
               /\ UNCHANGED <<Rest, faults>>

Asked(S, s) == {j \in S : query.rows[j] # NoRow /\ Sample(j, query.rows[j]) = s}

RunningRows == Asked(query.first, "live")
UnknownRows(S) == Asked(S, "unknown")

FirstSnapshot ==
  /\ query.pc = "first"
  /\ LET live == Asked(Jobs, "live") IN
     query' = [query EXCEPT !.pc = IF live = {} THEN "done" ELSE "second",
                            !.first = live, !.unknown = UnknownRows(Jobs),
                            !.status = IF live = {} THEN "ok" ELSE "none"]
  /\ UNCHANGED <<Rest, faults>>

SecondSnapshot ==
  /\ query.pc = "second"
  /\ query' = [query EXCEPT !.pc = "done", !.status = "ok",
                            !.running = RunningRows,
                            !.unknown = @ \cup UnknownRows(query.first)]
  /\ UNCHANGED <<Rest, faults>>

(* A process table that cannot be read, an unreachable target: what is     *)
(* known of is unknown, and the answer as a whole says so.                 *)
QueryFails ==
  /\ query.pc \in {"first", "second"} /\ Fault
  /\ query' = [query EXCEPT !.pc = "done", !.status = "unknown", !.running = {},
                            !.unknown = IF query.pc = "second" THEN @ \cup query.first
                                        ELSE {j \in Jobs : query.rows[j] # NoRow}]
  /\ UNCHANGED Rest

Answered == query.pc = "done" /\ query' = Idle /\ UNCHANGED <<Rest, faults>>

Query == ReadRecords \/ FirstSnapshot \/ SecondSnapshot \/ QueryFails \/ Answered

----------------------------------------------------------------------------
(* Ctrl-C in the controller of an observed Windows run: the exact row, the *)
(* exact keeper, then the Job is terminated and seen empty.                *)
Cancelling(j, s) == cancel' = [cancel EXCEPT ![j] = s]
Kept == <<host, reg, pc, own, kid, next, gate, blind, query, faults>>

(* Mutant: a job without a row counts as cancelled. *)
CancelOpenAny(j) ==
  /\ platform = "windows" /\ j \in Commands \ durable /\ pc[j] # "idle" /\ cancel[j] = "none"
  /\ Cancelling(j, IF rows[j] = NoRow THEN "cancelled"
                   ELSE IF NameOpen(j) THEN "open" ELSE "refused")
  /\ UNCHANGED <<proc, Kept>>

CancelOpen(j) ==
  /\ platform = "windows" /\ j \in Commands \ durable /\ pc[j] # "idle" /\ cancel[j] = "none"
  /\ Cancelling(j, IF rows[j] # NoRow /\ NameOpen(j) THEN "open" ELSE "refused")
  /\ UNCHANGED <<proc, Kept>>

CancelTerminate(j) ==
  /\ cancel[j] = "open"
  /\ IF IdState(own[j]) = "match"
     THEN proc' = Without(JobPids(j)) /\ Cancelling(j, "killed")
     ELSE UNCHANGED proc /\ Cancelling(j, "refused")
  /\ UNCHANGED Kept

CancelConfirm(j) ==
  /\ cancel[j] = "killed"
  /\ Cancelling(j, IF JobPids(j) = {} THEN "cancelled" ELSE "refused")
  /\ UNCHANGED <<proc, Kept>>

Cancel(j) == CancelOpen(j) \/ CancelTerminate(j) \/ CancelConfirm(j)

Next == \/ \E j \in Commands : Observer(j) \/ Killed(j) \/ OpenGate(j) \/ Cancel(j)
        \/ \E j \in Ops : OpStarts(j) \/ OpRegisters(j) \/ OpEnds(j)
        \/ \E p \in Pids : KeeperEnds(p) \/ KeeperKilled(p) \/ Fork(p) \/ Ends(p) \/ Leaves(p)
                           \/ Stranger(p)
        \/ Query

Spec == Init /\ [][Next]_vars

----------------------------------------------------------------------------
(* Whatever pids are reused between the read of a row and the two          *)
(* snapshots: a job reported RUNNING has a process of its own at that      *)
(* moment, and a registered job that has one is not left out of an answer  *)
(* that claims to be complete.                                             *)
QueryIsTrue ==
  [][query.pc # "done" /\ query'.pc = "done" =>
       \A j \in Jobs :
         /\ j \in query'.running => JobPids(j) # {}
         /\ query.rows[j] # NoRow /\ Members(j) # {} /\ query'.status = "ok"
              => j \in query'.running \cup query'.unknown]_vars

(* A command's processes are registered before they run and for as long as *)
(* one of them is left in the group, unless the command was started        *)
(* without observation (never with a ready file) or the observer lost      *)
(* sight of the start itself.                                              *)
ObservedWhileAlive ==
  \A j \in Commands : Members(j) # {} => rows[j] # NoRow \/ j \in blind

(* A cancellation that was confirmed is true: no process of the Job is     *)
(* left, and the observer starts none afterwards.                          *)
CancelIsTrue == \A j \in Commands : cancel[j] = "cancelled" => JobPids(j) = {}

=============================================================================
