---------------------------- MODULE RunLifecycle ----------------------------
(***************************************************************************)
(* remrun run (cli.cmd_run and cli._run_locked) as concurrent controller   *)
(* processes that share one state root: the project lock, the persistent   *)
(* unknown-completion hazard, the summary checkpoints, candidate fallback, *)
(* memory reservations, Ctrl-C, exceptions and kills, and the operator's   *)
(* resolve-unknown and stale-lock removal.                                 *)
(*                                                                         *)
(* A process is one invocation of `remrun run`; attempt k of process p is  *)
(* the run <<p, k>>, with its own run_id and summary.json.  What the       *)
(* command really does on the target is cmd: the program never reads it,   *)
(* it only sees the transport's answers.  A command is a survivor when the *)
(* wrapper that reports its exit status ended before it did.               *)
(***************************************************************************)
EXTENDS Naturals, FiniteSets

CONSTANTS Procs,       \* controller processes
          Candidates,  \* how many ranked candidates the resolver returns
          NoRun,       \* no hazard recorded
          Free         \* nobody holds the project lock

Runs == Procs \X (1..Candidates)

ASSUME LifecycleAssumption ==
    /\ Candidates \in Nat \ {0}
    /\ NoRun \notin Runs
    /\ Free \notin Procs

VARIABLES pc,        \* where each process is in cmd_run
          att,       \* the candidate it is trying
          lock,      \* the holder of the project lock
          hazard,    \* the run named by unknown.json
          summary,   \* each run's summary.json: completion_state, command_started
          resv,      \* processes holding a memory reservation on the target
          cmd,       \* the command of each run, on the target
          known,     \* history: runs whose conclusive result was checkpointed
          resolved,  \* history: runs an operator confirmed as ended
          leaked     \* history: processes whose lock directory would not go

vars == <<pc, att, lock, hazard, summary, resv, cmd, known, resolved, leaked>>

Early == {"check", "select", "begin", "admit", "lock"}    \* before the try block
Locked == {"validate", "preflight", "bootstrap", "late-validate", "stage", "fence",
           "mark-unknown", "dispatch", "executing", "not-started", "checkpoint",
           "unfence", "pullback", "finalize", "report"}   \* inside it
PCs == Early \cup Locked \cup {"retry", "finish", "done", "dead"}

States == {"absent", "error", "not_started", "unknown", "command_complete",
           "finalization_failed", "complete", "cancelled",
           "failed_before_completion"}
Summary == [state : States, started : {"false", "null", "true"}]
Sum(s, b) == [state |-> s, started |-> b]

run(p) == <<p, att[p]>>

Init == /\ pc = [p \in Procs |-> "check"]
        /\ att = [p \in Procs |-> 1]
        /\ lock = Free
        /\ hazard = NoRun
        /\ summary = [r \in Runs |-> Sum("absent", "null")]
        /\ resv = {}
        /\ cmd = [r \in Runs |-> "none"]
        /\ known = {} /\ resolved = {} /\ leaked = {}

-----------------------------------------------------------------------------
Goto(p, l) == pc' = [pc EXCEPT ![p] = l]
Step(p, from, to) == pc[p] = from /\ Goto(p, to)
WriteSummary(p, s, b) == summary' = [summary EXCEPT ![run(p)] = Sum(s, b)]

remaining(p) == att[p] < Candidates
Attempt(p) == att' = [att EXCEPT ![p] = @ + 1] /\ Goto(p, "begin")

(* Before the lock. *)

\* An existing hazard refuses the run; the lock is not held yet.
CheckHazard(p) ==
    /\ Step(p, "check", IF hazard = NoRun THEN "select" ELSE "done")
    /\ UNCHANGED <<att, lock, hazard, summary, resv, cmd, known, resolved, leaked>>

\* _resolve_targets: some candidate answers the probe, or none does.
SelectTargets(p) ==
    /\ pc[p] = "select"
    /\ \/ Goto(p, "begin") /\ UNCHANGED summary
       \/ Goto(p, "done") /\ WriteSummary(p, "error", "null")
    /\ UNCHANGED <<att, lock, hazard, resv, cmd, known, resolved, leaked>>

\* The receipt of the attempt exists before anything can fail.
BeginAttempt(p) ==
    /\ Step(p, "begin", "admit")
    /\ WriteSummary(p, "not_started", "false")
    /\ UNCHANGED <<att, lock, hazard, resv, cmd, known, resolved, leaked>>

\* Memory admission: no guard, a reservation, a refusal that may try the
\* next candidate, or a malformed resource policy.
Admit(p) ==
    /\ pc[p] = "admit"
    /\ \/ Goto(p, "lock") /\ UNCHANGED <<att, summary, resv>>
       \/ Goto(p, "lock") /\ resv' = resv \cup {p} /\ UNCHANGED <<att, summary>>
       \/ /\ WriteSummary(p, "error", "null") /\ UNCHANGED resv
          /\ IF remaining(p) THEN Attempt(p) ELSE Goto(p, "done") /\ UNCHANGED att
       \/ /\ WriteSummary(p, "error", "null") /\ UNCHANGED <<att, resv>>
          /\ Goto(p, "done")
    /\ UNCHANGED <<lock, hazard, cmd, known, resolved, leaked>>

\* ProjectLock.acquire never waits for a holder.
AcquireLock(p) ==
    /\ pc[p] = "lock"
    /\ IF lock = Free
       THEN Goto(p, "validate") /\ lock' = p /\ UNCHANGED <<summary, resv>>
       ELSE /\ Goto(p, "done") /\ resv' = resv \ {p}
            /\ WriteSummary(p, "error", "null") /\ UNCHANGED lock
    /\ UNCHANGED <<att, hazard, cmd, known, resolved, leaked>>

-----------------------------------------------------------------------------
(* Under the lock: _run_locked. *)

\* An early return of _run_locked with a terminal receipt.
Return(p, s, b) == Goto(p, "finish") /\ WriteSummary(p, s, b)
Rest(p) == UNCHANGED <<att, lock, hazard, resv, cmd, known, resolved, leaked>>

\* The command is validated now, or after a declared bootstrap.
Validate(p) ==
    /\ pc[p] = "validate"
    /\ \/ Goto(p, "preflight") /\ UNCHANGED summary
       \/ Return(p, "not_started", "false")
    /\ Rest(p)

\* preflight_reconcile: converged (and the baseline recorded), a transfer
\* error after any of its transfers, or a conflict before the first one.
Preflight(p) ==
    /\ pc[p] = "preflight"
    /\ \/ Goto(p, "bootstrap") /\ UNCHANGED summary
       \/ Return(p, "not_started", "false")
       \/ WriteSummary(p, "error", "null")
            /\ \/ Goto(p, "retry")                     \* candidate-local
               \/ Goto(p, "finish")                    \* global
    /\ Rest(p)

\* ProjectLock.release: an OSError is swallowed and the directory stays.
ReleaseLock(p) == \/ lock' = Free /\ UNCHANGED leaked
                  \/ UNCHANGED lock /\ leaked' = leaked \cup {p}

\* _PreflightConflict: release everything; try the next candidate, if any.
RetryNext(p) ==
    /\ pc[p] = "retry"
    /\ ReleaseLock(p) /\ resv' = resv \ {p}
    /\ IF remaining(p) THEN Attempt(p) ELSE Goto(p, "done") /\ UNCHANGED att
    /\ UNCHANGED <<hazard, summary, cmd, known, resolved>>

\* No bootstrap is needed, or it succeeds (its helper uses up a reservation,
\* and a new one may be refused), fails or ends unobserved.
Bootstrap(p) ==
    /\ pc[p] = "bootstrap"
    /\ \/ Goto(p, "stage") /\ UNCHANGED <<summary, resv>>
       \/ Goto(p, "late-validate") /\ UNCHANGED <<summary, resv>>
       \/ Return(p, "not_started", "false") /\ UNCHANGED resv
       \/ Return(p, "not_started", "false") /\ resv' = resv \ {p}
       \/ Return(p, "unknown", "false") /\ UNCHANGED resv
    /\ UNCHANGED <<att, lock, hazard, cmd, known, resolved, leaked>>

LateValidate(p) ==
    /\ pc[p] = "late-validate"
    /\ \/ Goto(p, "stage") /\ UNCHANGED summary
       \/ Return(p, "not_started", "false")
    /\ Rest(p)

\* Staging a workload context may refuse the run.
Stage(p) ==
    /\ pc[p] = "stage"
    /\ \/ Goto(p, "fence") /\ UNCHANGED summary
       \/ Return(p, "error", "null")
    /\ Rest(p)

\* except Exception in cmd_run: the checkpoint decides the final state.
AfterException(s) ==
    CASE s.state = "command_complete" -> Sum("finalization_failed", s.started)
      [] s.state = "unknown" -> s
      [] OTHER -> Sum("failed_before_completion", s.started)

\* except KeyboardInterrupt in cmd_run.
AfterInterrupt(s) ==
    CASE s.state = "command_complete" -> Sum("finalization_failed", s.started)
      [] s.state = "unknown" -> s
      [] OTHER -> Sum("cancelled", "false")

\* Variant: the hazard file is replaced whatever run it names.
WriteHazardOver(p) ==
    /\ Step(p, "fence", "mark-unknown")
    /\ hazard' = run(p)
    /\ UNCHANGED <<att, lock, summary, resv, cmd, known, resolved, leaked>>

\* write_unknown_completion_hazard: another run's hazard is never replaced.
WriteHazard(p) ==
    /\ pc[p] = "fence"
    /\ IF hazard = NoRun
       THEN Goto(p, "mark-unknown") /\ hazard' = run(p) /\ UNCHANGED summary
       ELSE /\ Goto(p, "finish") /\ UNCHANGED hazard
            /\ summary' = [summary EXCEPT ![run(p)] = AfterException(@)]
    /\ UNCHANGED <<att, lock, resv, cmd, known, resolved, leaked>>

MarkUnknown(p) ==
    /\ Step(p, "mark-unknown", "dispatch")
    /\ WriteSummary(p, "unknown", "null")
    /\ Rest(p)

\* transport.exec: the request reaches the target, or is lost or refused.
Dispatch(p) ==
    /\ Step(p, "dispatch", "executing")
    /\ \/ cmd' = [cmd EXCEPT ![run(p)] = "running"]
       \/ UNCHANGED cmd
    /\ UNCHANGED <<att, lock, hazard, summary, resv, known, resolved, leaked>>

Alive(r) == cmd[r] \in {"running", "survivor"}

\* The command ends by itself; nobody but its own controller is told.
CommandEnds(r) ==
    /\ Alive(r)
    /\ cmd' = [cmd EXCEPT ![r] = "ended"]
    /\ UNCHANGED <<pc, att, lock, hazard, summary, resv, known, resolved, leaked>>

\* Variant: ssh's own exit status 255, of a connection that dropped while the
\* wrapper and the command go on, is taken for the command's.
ExecResultDropped(p) ==
    /\ Step(p, "executing", "checkpoint")
    /\ resv' = resv \ {p}
    /\ UNCHANGED <<att, lock, hazard, summary, cmd, known, resolved, leaked>>

\* A conclusive exit status: the command ended, or its guard refused it.
ExecResult(p) ==
    /\ Step(p, "executing", "checkpoint")
    /\ cmd[run(p)] # "running"
    /\ resv' = resv \ {p}
    /\ UNCHANGED <<att, lock, hazard, summary, cmd, known, resolved, leaked>>

\* The same of a command that goes on: its guard could not end the tree
\* (cleanup_complete = False), or the wrapper that reports was killed.
ExecResultSurvived(p) ==
    /\ Step(p, "executing", "checkpoint")
    /\ cmd[run(p)] = "running"
    /\ cmd' = [cmd EXCEPT ![run(p)] = "survivor"]
    /\ resv' = resv \ {p}
    /\ UNCHANGED <<att, lock, hazard, summary, known, resolved, leaked>>

\* Variant: a missing answer is taken for a refusal.
ExecNotStartedGuess(p) ==
    /\ Step(p, "executing", "not-started")
    /\ hazard' = IF hazard = run(p) THEN NoRun ELSE hazard
    /\ UNCHANGED <<att, lock, summary, resv, cmd, known, resolved, leaked>>

\* CommandNotStartedError: the target proves it never started user code.
ExecNotStarted(p) ==
    /\ Step(p, "executing", "not-started")
    /\ cmd[run(p)] = "none"
    /\ hazard' = IF hazard = run(p) THEN NoRun ELSE hazard
    /\ UNCHANGED <<att, lock, summary, resv, cmd, known, resolved, leaked>>

RecordNotStarted(p) ==
    /\ pc[p] = "not-started"
    /\ Return(p, "not_started", "false")
    /\ Rest(p)

\* Variant: a transport that fails is taken for a command that never ran.
ExecLostAsNotStarted(p) ==
    /\ pc[p] = "executing"
    /\ Return(p, "not_started", "false")
    /\ Rest(p)

\* TransportError (a guard whose result is missing or malformed included) or
\* CommandCancelledError: the hazard stays.
ExecLost(p) ==
    /\ pc[p] = "executing"
    /\ Return(p, "unknown", "null")
    /\ Rest(p)

\* The result is durable before the fence is removed.
Checkpoint(p) ==
    /\ Step(p, "checkpoint", "unfence")
    /\ WriteSummary(p, "command_complete",
                    IF cmd[run(p)] = "none" THEN "false" ELSE "true")
    /\ known' = known \cup {run(p)}
    /\ UNCHANGED <<att, lock, hazard, resv, cmd, resolved, leaked>>

\* clear_unknown_completion_hazard removes only this run's record.
ClearHazard(p) ==
    /\ Step(p, "unfence", "pullback")
    /\ hazard' = IF hazard = run(p) THEN NoRun ELSE hazard
    /\ UNCHANGED <<att, lock, summary, resv, cmd, known, resolved, leaked>>

Pullback(p) ==
    /\ pc[p] = "pullback"
    /\ \/ Goto(p, "finalize") /\ UNCHANGED summary
       \/ Return(p, "finalization_failed", summary[run(p)].started)
    /\ Rest(p)

\* The final receipt; the summary event and pruning follow it.
Finalize(p) ==
    /\ Step(p, "finalize", "report")
    /\ WriteSummary(p, "complete", "null")
    /\ Rest(p)

Report(p) ==
    /\ Step(p, "report", "finish")
    /\ UNCHANGED summary
    /\ Rest(p)

\* Variant: the lock is left to the operator when the run failed.
FinishHolding(p) ==
    /\ Step(p, "finish", "done")
    /\ lock' = IF summary[run(p)].state = "complete" THEN Free ELSE lock
    /\ resv' = resv \ {p}
    /\ UNCHANGED <<att, hazard, summary, cmd, known, resolved, leaked>>

\* The finally clause of cmd_run.
Finish(p) ==
    /\ Step(p, "finish", "done")
    /\ ReleaseLock(p) /\ resv' = resv \ {p}
    /\ UNCHANGED <<att, hazard, summary, cmd, known, resolved>>

-----------------------------------------------------------------------------
(* Failures and operators. *)

Fail(p) ==
    /\ pc[p] \in Locked
    /\ Goto(p, "finish")
    /\ summary' = [summary EXCEPT ![run(p)] = AfterException(@)]
    /\ Rest(p)

Interrupt(p) ==
    /\ \/ /\ pc[p] \in Locked
          /\ Goto(p, "finish")
          /\ summary' = [summary EXCEPT ![run(p)] = AfterInterrupt(@)]
       \/ pc[p] \in Early /\ Goto(p, "done") /\ UNCHANGED summary
    /\ Rest(p)

\* Killed: nothing is cleaned up.
Kill(p) ==
    /\ pc[p] \notin {"done", "dead"}
    /\ Goto(p, "dead")
    /\ UNCHANGED summary /\ Rest(p)

Gone(p) == pc[p] \in {"done", "dead"}

\* resolve-unknown --confirmed-ended, by an operator who did check that the
\* run's controller is gone and that its command is not running.
ResolveUnknown(r) ==
    /\ hazard = r /\ summary[r].state # "absent"
    /\ Gone(r[1]) /\ ~Alive(r)
    /\ hazard' = NoRun
    /\ resolved' = resolved \cup {r}
    /\ UNCHANGED <<pc, att, lock, summary, resv, cmd, known, leaked>>

\* The documented removal of a stale lock, after the same two checks.
RemoveStaleLock(p) ==
    /\ lock = p /\ Gone(p) /\ ~Alive(run(p))
    /\ lock' = Free
    /\ UNCHANGED <<pc, att, hazard, summary, resv, cmd, known, resolved, leaked>>

Execute(p) == \/ Validate(p) \/ Preflight(p) \/ RetryNext(p) \/ Bootstrap(p)
              \/ LateValidate(p) \/ Stage(p) \/ WriteHazard(p) \/ MarkUnknown(p)
              \/ Dispatch(p) \/ ExecResult(p) \/ ExecNotStarted(p)
              \/ RecordNotStarted(p) \/ Checkpoint(p)
              \/ ClearHazard(p) \/ Pullback(p) \/ Finalize(p) \/ Report(p) \/ Finish(p)

Proceed(p) == \/ CheckHazard(p) \/ SelectTargets(p) \/ BeginAttempt(p)
              \/ Admit(p) \/ AcquireLock(p) \/ Execute(p)

Next == \/ \E p \in Procs : \/ Proceed(p) \/ ExecResultSurvived(p) \/ ExecLost(p)
                           \/ Fail(p) \/ Interrupt(p) \/ Kill(p) \/ RemoveStaleLock(p)
        \/ \E r \in Runs : CommandEnds(r) \/ ResolveUnknown(r)

Spec == Init /\ [][Next]_vars
FairSpec == Spec /\ \A p \in Procs : WF_vars(Proceed(p))
                 /\ \A r \in Runs : WF_vars(CommandEnds(r))

-----------------------------------------------------------------------------
\* Types of every variable.
TypeOK ==
    /\ pc \in [Procs -> PCs] /\ att \in [Procs -> 1..Candidates]
    /\ lock \in Procs \cup {Free} /\ hazard \in Runs \cup {NoRun}
    /\ summary \in [Runs -> Summary]
    /\ resv \subseteq Procs
    /\ cmd \in [Runs -> {"none", "running", "survivor", "ended"}]
    /\ known \subseteq Runs /\ resolved \subseteq Runs /\ leaked \subseteq Procs

\* One in-place writer: two commands of the project are never alive at the
\* same time, although a lost transport or a kill releases or orphans the lock
\* while the command goes on (only the hazard then stops the next dispatch),
\* except beside a command whose wrapper ended with a conclusive status
\* before it did: that one is no longer fenced (README: Disagreements).
NoConcurrentCommands ==
    \A r, s \in Runs :
        Alive(r) /\ Alive(s) /\ r # s => "survivor" \in {cmd[r], cmd[s]}

\* A command that was dispatched is never forgotten, wherever the controller
\* is killed: it is fenced and its receipt says unknown, or its result is
\* on disk, or an operator confirmed its end.
DispatchedIsAccounted ==
    \A r \in Runs : cmd[r] # "none" =>
        \/ summary[r].state = "unknown" /\ hazard = r
        \/ r \in known \cup resolved

\* A receipt that says not_started is true: retrying it cannot run a
\* mutating command twice.
NotStartedIsTrue ==
    \A r \in Runs : summary[r].state = "not_started" => cmd[r] = "none"

\* One invocation dispatches at most one command, whatever candidates it
\* tries: only attempts that never dispatched are abandoned for the next.
DispatchedOnce ==
    \A p \in Procs : \A k \in 1..Candidates :
        k < att[p] => cmd[<<p, k>>] = "none"

\* Every run that takes the project lock ends and gives it back, unless its
\* process was killed or the lock directory could not be removed.
LockIsReturned ==
    \A p \in Procs : lock = p ~> (lock # p \/ pc[p] = "dead" \/ p \in leaked)

\* (does not hold, see README: Disagreements)
\* cli._run_locked: a result is conclusive, so no two commands are ever alive.
ResultIsConclusive ==
    \A r, s \in Runs : Alive(r) /\ Alive(s) => r = s

\* (does not hold, see README: Disagreements)
\* cmd_run: a finished command's receipt is never turned back into one that
\* invites a retry, even by Ctrl-C or an error while finalizing.
CompletionIsFinal ==
    [][\A r \in known :
         summary'[r].state \in {"command_complete", "finalization_failed",
                                "complete"}]_vars

\* (does not hold, see README: Disagreements)
\* A project whose last command may still be running is blocked: no other
\* run reconciles its trees meanwhile.
BlockedWhileUnknown ==
    [][\A p \in Procs : pc[p] = "preflight" /\ pc'[p] = "bootstrap"
         => \A r \in Runs : ~Alive(r)]_vars
=============================================================================
