# Verification of remrun

remrun runs a command of a local project on another machine: it brings the
project's files into agreement with a target, runs the command there, brings the
outputs back, and remembers enough on disk to be safe after a lost connection, a
Ctrl-C or a crash. A second half, the fleet, queues prepared jobs, claims them in
batches for devices, and runs them through a durable protocol with the target.
Line numbers below refer to `src/src/remrun/` unless a path is given.

Contents: 1 inventory, 2 plan, 3 modules and the code, 4 runs and bounds,
5 fairness, 6 proofs, 7 disagreements found, 8 what is not shown.

## 1 Inventory

| component | state | operations | interacts with |
|---|---|---|---|
| transfer planner (`transfer_plan.py`, `manifest.py`) | none (pure) | compare two manifests and the previous pair | called by reconciliation |
| file reconciliation (`reconcile.py`) | two file trees, `baseline.json`, `conflicts/<run>/` | preflight (list, plan, transfer, re-list, record), pullback | other writers of both trees, transport, run lifecycle |
| run lifecycle (`cli.py` `cmd_run`, `_run_locked`) | `summary.json` per attempt, the unknown-completion hazard, a memory reservation | select candidates, admit, lock, reconcile, bootstrap, dispatch, checkpoint, pull back, finalize, fail over, resolve-unknown | lock, reconciliation, transport |
| project lock (`state.py` `ProjectLock`) | directories and `info.json` files | acquire, adopt a dead run's lock, release | every run and collector |
| retention (`state.py` `prune_state`) | run and conflict directories | delete the old ones | lifecycle |
| durable runs (`_durable_runner.py`, `cli.py`) | spec, auth, `status.json`, spools; a detached supervisor | launch, supervise, status, cleanup; resume, collect | observer, ledger, controller |
| job observer (`_job_observer.py`) | observation records; ready, gate and started files | hold the command at the gate, report identity | supervisor |
| target resource ledger (`remote/runner.py`, `target_resources.py`) | SQLite: allocations, holds, policy, start certainty | policy install, reserve, renew, claim, start, confirm, quarantine, finish, cancel, lazy reconciliation | supervisor, direct owner, fleet executor |
| target authority (`remote/runner.py`) | leases, fences, grants | acquire, renew, fence, release | controllers |
| fleet queue (`fleet/queue.py`) | SQLite: jobs, batches, pool leases, cooldowns, prepared records | enqueue, claim, owner transitions, complete, fail, cancel, fence, release, recover, prune | dispatcher, CLI |
| fleet dispatcher and executor (`fleet/dispatcher.py`, `fleet/executor.py`, `fleet/cli.py`) | threads with heartbeats | drain, run a claimed batch, recover stale rows, cancel, release | queue, ledger, durable runs |
| fleet intake (`fleet/queue.py`, `fleet/cli.py`) | submissions, saved plans, refusals, job rows | prepare, submit, plan, submit a plan, refuse | callers, dispatcher |
| fleet placement (`fleet/placement.py`) | none (pure) | fit, estimate, assign a group to devices | dispatcher, CLI previews |
| memory guard (`memory_guard.py`, `_posix_telemetry.py`, `_win_telemetry.py`, `transport.py`) | `ledger.json` of leases on the target, a gated and sampled child | reserve, renew, claim, gate, watch, finish, reap | lifecycle, executor |
| git sync (`gitsync.py`), plain sync (`sync.py`) | refs, baselines | bundle, fetch; pull, push, converge a folder | transport, observer |
| coordination (`coordination.py`) | controller identities, acquire intents | none on a run path ("shadow-only") | none yet |
| owner presence (`presence.py`) | none (parses weekly windows) | rank devices lower | placement |
| bootstrap (`bootstrap.py`, `_bootstrap.py`) | environment receipts | prepare, verify | lifecycle |
| scheduler, profiles (`scheduler.py`, `profile.py`, `planner.py`) | cost estimates | rank | lifecycle, dispatcher |
| transports (`transport.py`, `runner_client.py`, `frame.py`, `protocol.py`) | none | push, pull, exec, RPC | all |
| configuration and rendering | none | parse, print | all |

What is hard here:

* **Unreliable answers.** A launch, a ledger call or an exec may have taken effect
  although it is reported as failed; the program must decide "not started",
  "complete" or "unknown", and only the first may be retried.
* **Other writers.** A user or Syncthing changes either tree between any two
  filesystem calls.
* **Crashes at every step**, with recovery by another process that has only the
  records on disk.
* **Cancellation, recovery and completion of one batch by three parties** that act
  on rows they read earlier.
* **Lapsing reservations and leases**, which hand a resource to somebody else
  while the old holder may still be about to act.
* **Values read before a lock and used after it**: memory readings, epochs, saved
  plans, registry rows, process tables with reused pids.
* **Two threads and a deadline**: a drain that must answer a stop request while its
  own tick is in the middle of claiming or running batches.

What correctness means, per component: the planner is a three-way merge; no edit is
lost without a recoverable copy and no unverified equality is recorded; at most one
command of a project runs, none is forgotten, none is repeated; the lock admits one
writer and is never stuck in the middle of an acquire; a resource key is used by one
process tree, and receipts about the start of a command are true; the queue marks
work done, cancelled or replayable only when that is the truth; a named request has
one answer; a durable run stays fenced while its command may run, and its result is
kept until it is collected, which happens in the end; grants are settled only as what
they were, and a superseded lease has no effect any more; admission never promises
memory that is not there, and a guarded process group is never forgotten; what a job
query says about a process is true of that process and of no later owner of its pid.

## 2 Plan

Done, most important first:

1. `TransferPlan` (with `TransferPlanCases`), and `Reconcile`, which runs its operators
   between external writers (`ReconcileProofs` has the theorems of both)
2. `RunLifecycle`; `WriterLock` and `ProjectLock`, the lock that the lifecycle uses at
   the abstract level (`RunLifecycleProofs`)
3. `TargetOp` (abstract) and `TargetLedger`, which implements it (`TargetLedgerProofs`)
4. `FleetQueue` and `FleetDispatch`, which compose the queue with `TargetOp`
   (`FleetDispatchProofs`, which also has the theorems of `TargetOp`)
5. `DurableRun`: launch, resume, collection and retention of durable runs
   (`DurableRunProofs`)
6. `Authority`: leases, fences, grants and receipts (`AuthorityProofs`)
7. `MemoryGuard`: admission, gate, supervision and reaping on a POSIX target; and
   `JobObserver`: the registry of active jobs, its observers and queries
   (`TelemetryProofs` for both)
8. `Placement`, `FleetSubmit` and `FleetDrain`: intake, placement and the drain,
   composed over one queue (`FleetDrainProofs`)

Left: models that could follow are the Windows memory guard, the ref updates of
`gitsync.py`, bootstrap receipts and `clean`. Of the properties of the runs,
`AdmissionIsBacked` and the four liveness properties have no proof; section 6 says why.

## 3 Modules and the code

**TransferPlan** – `compare_manifests`, `_changed_since`, `entries_same`,
`entries_content_same`, `heuristic_diff` as operators over files that are a content
and an mtime; an entry keeps a hash only at or below `hash_below_bytes`.
`TransferPlanCases` chooses one case per behaviour: two files and the pair recorded
by the previous run, converged, where an edit moves the mtime or the size of its
file.

**Reconcile** – one run on one target at the level of files. A step is one listing,
one decision or one of the accesses that a transfer makes one after the other: the
re-check of the local file, its backup with the read of the bytes, the read of the
mtime with the install, the verification (`run.flying` is the transfer under way, with
what its earlier accesses saw). The actions of the external writers (edit, delete, copy
by Syncthing, unmount of a root) interleave with all of them and are bounded by
`MaxEvents`. `mixed` is history: the mtimes that a transfer, or a listing and a hash
taken at two moments, put beside the bytes of another version. A pull whose bytes are
not the ones that were hashed is installed first and refused afterwards, as in the
code. `FoldLocal`/`FoldRemote` and `Twins` model case-insensitive filesystems, `Pinned`
declared bootstrap inputs. Glob excludes, symlinks and file modes are left out.

**RunLifecycle** – `cmd_run` and `_run_locked` as concurrent processes; attempt `k`
of process `p` is the run `<<p, k>>`. `pc` names the position, `hazard` is
`unknown.json`, `summary` the checkpoints, `cmd` what really happens on the target
and is never read by the program. Ctrl-C, an exception and a kill are enabled at
every position; what their handlers write depends on the last checkpoint, as in the
code. A command whose wrapper reports an exit status before it has ended (the guard
gives up on processes it cannot end, or is killed) is a `survivor`; its result is
taken as conclusive (`ExecResultSurvived`). A lock directory that cannot be removed
stays (`ReleaseLock`). The project lock is taken in one step (`WriterLock`); that this is justified is
`ProjectLock`'s refinement.

**ProjectLock** – `acquire`, adoption and `release`, one filesystem call per step,
with the guard directory; a process may be killed between any two calls. Process ids
are not reused (the model's `Lockers`), as `_pid_alive` presupposes.

**TargetOp** – the interface between controller and target: per operation the
allocation's state, the start certainty and the truth about the process tree.

**TargetLedger** – the target. A ledger call is one SQLite transaction and one step;
every call first reconciles lazily (any subset of rows whose owner's process tree can
be probed, as `_reconcile_resources` does from any call). The durable supervisor is
one action per statement that changes a file, a row or the gate; the direct owner
(`resource-owner-run`) likewise; a status query is read, probe, re-read, fetch and
write, each a step. Supervisors and owners can be killed, the target can reboot, the
clock can make a reservation due, a ledger call can commit and be reported as failed,
and a probe can fail to read the process table. Assumption: every descendant of a
command stays in the process group (or job object) that the probe looks at.

**FleetQueue** – jobs and batches, every transaction a guard and an effect. Batches
run under target protocol 1 and `at-most-once-v1`; one pool. Row times are reduced to
what the guards ask of them (`live`: `lease_until > now`; the instant at which the two
are equal is merged with "lapsed").

**FleetDispatch** – the owner thread of a batch (`_run_claimed_batch`,
`_run_prepared_batch`), the drain loop's recovery (`_recover_target_row`,
`_recover_target_cancellation`), `fleet cancel` and `fleet release`. The owner's
batch state `bs` and result are its local variables; the recovery workers keep a
snapshot of the row they selected, as the code does. A crash of a thread, or its
heartbeat giving up, is simply that it takes no more steps. The durable record is
reduced to what the owner reads from it: acknowledged, complete, failed. One timing
assumption is in `Lapses`: past the launch gate the 30 s reservation, which is no
longer renewed, lapses before the 300 s batch lease. Left out: placement, cooldowns,
memory learning, legacy devices without target acceptance (`FleetDrain`), `idempotent-v1` batches,
and the double fault of a supervisor that fails right after its claim and whose
quarantine call fails as well.

**DurableRun** – one durable run seen from the controller: the launching command,
`resume` invocations, `resolve-unknown`, retention and other runs of the project, over
`durable.json` (`rec`), `summary.json` (`summ`), the unknown-completion fence, the
lock, and the target's `status.json` (`dst`, `dack`) with its supervisor. A process is
killed, interrupted or cut off between any two writes, `MaxFaults` times. Candidate
selection and reconciliation before the launch are `RunLifecycle`'s. The launch
request is a message that may arrive after its sender is dead. The supervisor waits for
the wrapper and its pipes, not for the command: `WrapperGone` makes it a `survivor`.
Whether `finalize_durable_result` accepts what was saved (`legible`) is decided once, at
the end of the wrapper, and is the same for every later resume. With `--no-pullback`,
`pulls` counts the baseline that is written instead. `ConfirmedEnded` is what the
operator vouches for with `resolve-unknown --confirmed-ended`: an assumption, of which
the code checks nothing.

**Authority** – the SQLite store of `remote/runner.py` for one project, and its
participants. Each call is one transaction, except that it has read the epoch before
it began: `was` holds every epoch a call may still believe in. Capabilities and
receipts are never lost, so "any issued capability may be accepted at any later time"
covers delay, reordering and duplication; an answer repeated under its request id
changes nothing. That an accepted operation ends (`Finish`) is external: no code in
the repository makes it terminal yet.

**MemoryGuard** – `ledger.json` of one target, its controllers (`transport.py`), the
helper that claims a lease, opens the gate of a stopped control process, samples the
command's group and finishes or quarantines the lease (`_posix_telemetry.py`).
Reserve, renew and claim take their five readings as five steps under the ledger's
lock; the memory of the command and of the rest of the host moves between them.
Signals, a kill of the helper and a lost answer are enabled throughout. A process
that leaves the group (`esc`) is counted as the code counts it: it keeps the lease
only while the sampler has seen it.

**JobObserver** – the registry rows, the POSIX observer (process group) and the
Windows pair of observer and keeper (Job Object), the query with its two snapshots of
the process table, cancellation and the controller operations of `gitsync.py`. A pid
is allocated up to `MaxGen` times; an identity is a pid with its generation. One scan
of the process table is one step.

**Placement** – `fits`, `estimate_finish`, `assign_group` and the greedy split as
operators of a probe, learned costs and the backlog.

**FleetSubmit** – preparation of tasks, commands and plans from the live definitions,
and the transactions that enqueue them, refuse them or answer a retry. Between
preparation and transaction the definition may be edited, removed or become
unreadable. A body stands for the prepared records and their fingerprint.

**FleetDrain** – `FleetSubmit` composed with the drain's main thread, its tick and the
owner threads of its batches, a synchronous ad hoc run, and an operator who cancels
and clears. `cleared` is history: the batches whose unfinished rows a `clear` deleted
while their command might still run. Its batches run on devices without target acceptance; `FleetDispatch`
has the others.

`PROJECT.json` maps every definition to its lines.

## 4 Runs and bounds

| run | instance | shows |
|---|---|---|
| transfer_plan | 2 small contents of one size (hashed), 2 large ones of one size (not), 2 mtimes, with or without a baseline that carries hashes | the plan never overwrites content the other side has not seen; where everything is hashed it is the merge |
| reconcile_one | one path, one hashed and two unhashed contents of one size, 4 external events | no unequal pair is recorded as converged; pullback overwrites no local edit it could have seen; overwritten local bytes that were there for the backup are in it; the command starts on agreeing trees |
| reconcile_two | two paths that fold to one name, one of them pinned, 3 events | candidates that are tried do not rewrite the controller, and one that is given up as retryable left both trees untouched |
| run_lifecycle | 2 invocations, 2 candidates each | one command at a time beside survivors, true `not_started` receipts, nothing dispatched is forgotten, the lock is returned |
| project_lock | a durable launcher, two collectors that may adopt its lock, a scoped run | one writer, every acquire ends, refinement of `WriterLock` |
| target_ledger | a durable launch and a direct owner on one key | exclusive use of the key, refinement of `TargetOp` by each operation |
| fleet_dispatch | one job, its batch, and the claim of a second batch | recovery's own judgement is right; done and cancelled are true of the target; evidence is not deleted under a run or a cancellation; outcomes stay |
| durable_run | the launcher and 2 resumes, 2 faults | the fence covers the command while its wrapper lives; an acknowledged run is collectable, and is collected in the end when what was saved is accepted; the summary is true; results are kept until they are pulled |
| authority | 2 targets, 3 leases, 3 grants, 2 epochs, one target moving to the second | settled grants are settled as what they were; one operation at work; a superseded lease is powerless once recovery is complete |
| memory_guard | 2 jobs on 8 units of memory with a reserve of 1, learned, explicit and unprofiled limits, one memory move of command or host in a bracket beside those of starting and ending processes, one signal | admission is backed by memory that is there; the ledger never forgets a live group; a refusal is true |
| job_observer | one command (POSIX or Windows, durable or not), one controller operation, 3 pids used twice, one failure | the registry keeps a row while the command's processes live; cancelled means no process left; answers name the right process |
| fleet_intake | 3 jobs, 2 versions of a task, one plan, one named request, 2 callers, 2 devices, 2 batches | a named request has one answer; plan and receipt are never found to disagree; no work runs twice at once; a stopped drain names what it leaves running; a drained one reports true outcomes; a stop request is answered |

Why the bounds are enough. The planner looks at one path at a time and compares
sizes, mtimes and hashes for equality only: four contents and two stamps give every
pattern. In `Reconcile` four events allow an edit on each side before, during and
after the transfers, or inside one (five events, 14.2 million states, was also checked).
Two invocations and two candidates give every overlap of an old
and a new attempt; the proofs cover the rest. `ProjectLock` needs two adopters to
race for one dead lock and one lock of another kind. In `MCTargetLedger` the
constraint `OneThing` keeps status queries from overlapping the second operation: a
query writes only its own operation's record, and is explored in full before the
second operation exists. In `MCFleetDispatch` the constraint `SecondClaimOnly` stops
the second batch once it has been claimed: it is there so that a late owner, the
drain loop and the operator meet a job that has moved on. (Two jobs in one batch,
5.3 million states, was also checked; batches share nothing but jobs and the pool.)

`DurableRun` needs two resumes to race for the lock of a dead launcher, and two faults
so that the recovery of the first is hit by the second. In `Authority` three leases
give one that is superseded twice, two targets a barrier that must not settle the
other's grants, three grants one to run, one to be fenced and one barrier.
`MCMemoryGuard`'s `OneHelper` lets the second job compete for admission without being
sent: two helpers share nothing but the ledger, whose transactions are serialized.
Its memory is counted in units of one MiB (`MIB = 1`), the smallest in which the
reserve, the overhead and two allowances fit with and without room to spare. Gates and
trees that come and go move memory too, so a bracket meets several moves although
`MaxMoves = 1`; `MaxMoves = 2`, 8.8 million states, was also checked.
`JobObserver`'s registry holds one row (`MaxActive = 1`), so that it is full whenever
a second job registers. `MCFleetDrain` explores nine scenes, each with its own
budget of calls, edits, ticks, lapses, stops and operator commands (`MCScenes`); the
scenes are chosen so that each pair of parties meets in one. The ninth, a lost lease, a
clear and a resubmission, is the one that shows why `NoDoubleRun` must exempt the batches
whose unresolved rows were cleared, and not only those that were cleared while running.

The type invariants of `Reconcile`, `RunLifecycle`, `ProjectLock`, `TargetOp`,
`FleetDispatch`, `JobObserver`, `TargetLedger`, `DurableRun` and `Authority` are proved
(the last three as part of the invariants of their proof modules), that of `MemoryGuard`
up to its amounts of memory, which hold on the instance above. None is in a
configuration.

`CHECK_DEADLOCK FALSE` everywhere: invocations, commands and batches are finite and
the system may rest.

## 5 Fairness

`RunLifecycle!FairSpec` has weak fairness of each process's own next step and of the
end of a running command. A process that is not killed keeps executing statements; a
killed one has no step. The loss of a connection is excluded from the fair steps, a
running command is assumed to end; that a wrapper gives up on a surviving command is
never forced. `ProjectLock!FairLockSpec` has weak fairness of each
process's acquire and release steps for the same reason; kills are not fair.
`DurableRun!FairSpec` has weak fairness of each controller process's own steps and of
the end of other runs of the project; the number of faults is bounded, resumes are
started again (the user who was told to resume does), and neither the supervisor nor
the operator is fair. `FleetDrain!Spec` has weak fairness of the drain's main thread
only: `StopIsAnswered` holds although a tick may hang in a probe, a transfer or the
database for ever, which is what the bounded wait of `dispatcher.py:2168` is for. All
other specifications are safety only. A liveness run of the ledger is not given: under
its state constraint a temporal check would not be meaningful.

## 6 Proofs

All theorems hold for every value of the constants that satisfies the named
assumptions, which TLC evaluates on the runs.

* `ReconcileProofs`: `ReconcileTypes`, `ShoppingLeavesNoTrace`, `SameMeansSame`,
  `ReplacedIsBackedUp`, `PullbackKeepsEdits`, `DispatchConverged`, from the size and
  name assumptions of `Reconcile` and `TransferPlan`, with writers between any two
  accesses of a transfer. What such a writer can spoil is excepted in the statements, and
  nothing else is: an edit made after the code's last look at the file or after its
  backup (`run.flying.seen`, `.over`), and a large file beside whose bytes remrun put the
  mtime of another version (`mixed`). None is
  inductive, since files above `hash_below_bytes` are compared by size and mtime. The
  invariant (`PathInv`) speaks of generations: every write takes an mtime that no file
  had before, so among the files still about one mtime means one file, unless it is
  mixed; a recorded pair of entries denotes one content, which every file that can be
  taken for the entry holds; and what is written later is newer than every entry and
  cannot be taken for one. `FlightInv` says the same of the transfer under way. What a
  plan or a pullback removes is thereby the file that was listed.
* In the same module, about the planner alone: `PlanKeepsEditsAlways` and
  `PlanIsMergeAlways` from `SizeAssumption`, `AbsentAssumption`. A side that compares as
  unchanged holds the content of its baseline entry (`UnchangedKeepsContent`), a side
  with hashes that compares as changed holds another one (`HashedChangeIsReal`); the
  rest is the case split of `classify`.
* `RunLifecycleProofs`: `TypeCorrect`, `OneCommandAtATime`, `NothingForgotten`,
  `NotStartedReceipts`, `OneDispatchPerInvocation`, from `LifecycleAssumption`. The
  safety properties are not inductive: the hazard file, not the lock, is what
  excludes a second command, since a killed process's lock may be removed. The
  invariant adds who holds the lock (`LockHeld`), which positions have the hazard on
  disk and naming their run (`FenceHeld`), that every command that may run is named
  by it (`FenceCovers`, for all but survivors), that runs not yet dispatched have no command and no verdict
  (`Undone`), and that a conclusive checkpoint precedes the removal of the hazard
  (`Marked`).
* In the same module, about the lock: `LockTypeCorrect`, `LockIsExclusive`, `LockIsKept`,
  `LockImplementsAbstract`, from `LockAssumption`. The invariant: one
  process inside the guard, every holder's directory and `info.json` in place, a guarded
  acquirer's list contains every holder that conflicts (release happens without the
  guard, so the list may be too long but never too short), and an acquirer that got past
  its decision has no rival.
* `DurableRunProofs`: `FenceIsSafe`, `AcknowledgedIsCollectable`, `SummaryTells` and
  the action property `ResultIsKept`, from `ConstAssumption` (a resume is not named
  like the launcher or a value of `lock`). None is inductive: a process lowers the fence or
  deletes the state many steps after it read `status.json` or `summary.json`, while
  others act. The invariant says what each place of a process implies about the target
  (`PlaceInv`), and that it is past a point of no return: the request delivered, the
  supervisor gone and the command over or left behind by its wrapper (`Done`), or nothing
  ever sent (`Untouched`).
  `SummaryInv` gives the same for what a later resume reads, `LaunchInv` the order of
  the launcher's writes.
* `AuthorityProofs`: `SettledIsTrue`, `AtMostOneAtWork`, `StaleIsRefused`, from
  `BoundsAssumption`. That a FENCED grant was not accepted is not inductive, since its
  capability may arrive at any time; the invariant adds that the target's stored fence
  stands above it (`SettledInv`), for which a target's fence may never fall behind what
  it accepted (`FenceInv`) and a barrier's result must name every operation below it
  (`BarrierInv`). `OrderInv`: a run is signed only when every earlier grant is settled,
  and a lease leaves RECOVERY only when every grant of an earlier lease is. One
  operation at work then follows although the targets never talk to each other.
* `TargetLedgerProofs`: `NeverShared`, `LedgerImplementsTargetOp`,
  `LedgerReceiptsAreTrue`, from `LedgerAssumption` and `InstanceAssumption` (the two
  operations that the refinement names exist; there may be any others). The invariant
  ties one operation's row, supervisor, tree and control files together (`OpInv`): the
  tree exists before the claim and the gate is written after it, so a tree that has
  passed, or may pass, the gate has a held row; holds are those of the live rows
  (`HoldInv`). Every step, lazy reconciliation of other rows included, is first shown
  to be, for each operation, one of a small number of moves of that operation alone
  (`OpMove`); the invariant and the refinement are then proved once per move. The
  invariant of `TargetOp` holds of its instances, and so
  `LedgerReceiptsAreTrue` states two theorems of `TargetOp` in the ledger's own variables.
* `FleetDispatchProofs`: `DispatchTypes`, `RecoveryIsRight`, `OutcomesTrue`,
  `EvidenceKept` and the action property `OutcomesAreFinal`, from
  `MaxAttemptsAssumption` and `NoneAssumption`. The invariant has a part per batch
  (`LaunchInv`: what was sent and may still arrive; `OwnerInv`: what the owner was told
  and has deleted; `ReplayInv`: what a replay rests on), one per recovery or operator
  pass (`PassInv`) and one per job. It is needed because a pass decides from a snapshot
  and a receipt of earlier steps: what it relies on must be among the things no step
  takes back (`Mono`: a terminal allocation, its NO, a lapsed lease, an ended row, a
  release). `LocalStep` then gives the whole invariant from what a step does to the one
  batch it touches. The conjunct "row lapsed and owner past the launch gate => not
  RESERVED" is where the timing assumption of `Lapses` enters: without it a late launch
  could claim what recovery took for lapsed.
* In the same module, about `TargetOp`: `ReceiptsAreTrue`, `TerminalMeansOver`,
  `TerminalNoIsFinal`, without assumptions. The invariant adds that a reservation that
  was never claimed has started nothing. Together they justify a replay decided from a
  terminal NO, however late it happens.
* `TelemetryProofs`, about `JobObserver`: `TypeCorrect`, `Observed`, `Cancelled` and the
  action property `Answers`, from `ConstAssumption` (0, which the code never takes for a
  process group, is not a pid). A query reads a row, then the process table twice; the
  pids it compares may have had several owners since. The invariant therefore speaks of
  identities (pid and generation): an observer or keeper keeps the identity its row
  names (`OwnOK`), a witness is a process of the job until it leaves the group for good
  (`KidOK`, `NextOK`), every row that is stored or was read is one of these (`RowOK`, the
  query's copy included), and a job that the first snapshot passed over is over for good
  (`PassedOver`). Every action is first reduced to what it does to one table entry, row
  or witness (`Steps`), and the invariant proved from that.
* In the same module, about `MemoryGuard`: `GroupsAccounted` and `RefusalsTrue`,
  without assumptions (who is admitted does not matter for them). A
  reserve, renew or claim reads the ledger at its start and writes it after five readings
  of memory, dropping the leases whose owner it found dead. The invariant (`JobInv`) says
  per job which lease its group, gate, helper and controller require; anyone may forget a
  job whose group is gone (`GroupGone`), and gone is stable. `TxInv` says that what a
  transaction read under `ledger.lock` is still right when it is written: only gone jobs
  are missing from it.
* `FleetDrainProofs`: `OneAnswer`, `PlansAgree`, `RunsOnce`, `StoppedNamesAll`,
  `DrainedForGood`, from `IntakeAssumption` (no plan or request is the value that means
  none) and whatever the planner returns: rows come out of its folds, so the invariants
  say which fields a row has and not their types. There are three, each resting on the
  one before (`DrainInvariance`). `IntakeInv`: a submission made from a plan is the one
  the plan's row names, a call in progress has read nothing that can go away, and a named
  request has one submission or refusals, never both. `QueueInv`: the jobs of a leased or
  running batch are exactly the active jobs that name it, two live jobs never share a
  key, and a batch whose command may run, although its lease lapsed, keeps its jobs
  (`Kept`). `DrainInv`: the tick claims only what it has recorded as seen, what runs
  after a stop was running when the snapshot was read (`Left`), and the rows of a drained
  document are settled (`Over`). Each property needs its layer because it relates a
  document or an answer to rows that others changed after it was written.

Attempting the proofs changed definitions. `Reconciled` and `ReconciledDoubt` of
`TargetLedger`, `CompleteBatchItems` of `FleetQueue`, the job update of `FleetDrain` and
`MemoryFits` of `Placement` had `CASE` arms that overlap: TLC takes the first, TLA+ says
any, and the code's `if`/`elif` chain says the first. They are `IF` chains now; the
state spaces did not change. In `FleetSubmit` and `FleetDrain` the proof asked for what
the code does and the model had left open: a claim takes at least one job (`Takes`) and
only jobs that the tick listed, the plan table has rows only for saved plans, and new
rows get distinct free places (`Places`). `NoDoubleRun` was false of the model in a scene
that no run had: a batch whose lease was lost is `completion_unknown`, a clear deletes
that row, and the work is submitted again while the first command still runs. `clear`
says that it leaves workers running; its history counts these batches too, and the scene
is in the run.

Each inductive invariant was checked with TLC on its run's instance before it was proved:
`DurableRun` on 685 232 states, `Authority` on 2.1 million, `JobObserver` on 1.05
million, `MemoryGuard` on 2.2 million, `Reconcile` on 2.2 and 0.36 million, `FleetDrain`
on 648 467.

`OneDispatchPerInvocation` (candidate failover never repeats a dispatched command),
`LockIsKept` (nobody else removes a holder's directory), `LedgerReceiptsAreTrue`,
`ReceiptsAreTrue`, `TerminalMeansOver` and `TerminalNoIsFinal` are proved and in no run.

Only model-checked: `AdmissionIsBacked` of `MemoryGuard`, which is about sums over the
leases (folds over a set, whose value for every set needs an induction over data), and
the liveness properties (`AcquireEnds`, `LockIsReturned`, `Collected`, `StopIsAnswered`),
since the prover does not handle fairness.

## 7 Disagreements found

Formulas that state what a document, a comment or a message of the repository says,
and that TLC refutes on the instance of the named run. They are in the modules, marked
"does not hold", and in no configuration; adding one to the run's cfg shows the trace.
Where a checked property is the same formula with an exception, the exception is named.

* `Reconcile!PreflightKeepsLocalEdits` (reconcile_one). A local edit made after the
  preflight listing is replaced by the planned pull (`reconcile.py:490` only checks
  that the local file is not already identical); its bytes survive in the backup area.
  `docs/TRANSFER_MODEL.md:14`: "both changed same path -> abort this candidate before
  running". `postrun_pullback`, in contrast, re-reads the local file.
* `Reconcile!PostrunKeepsEveryEdit` (reconcile_one). `postrun_pullback` compares the
  local file, then backs it up, reads the bytes and installs them (`reconcile.py:683`-703):
  an edit made in between is overwritten. `docs/TRANSFER_MODEL.md`: "do not overwrite
  local". `PostrunKeepsLocalEdits` excepts a file that is no longer the one compared.
* `Reconcile!EverythingIsBackedUp` (reconcile_one). The backup is taken before the bytes
  are read and installed (`reconcile.py:491`-497, 702): an edit made after it leaves no
  copy. The repository's `README.md:574` describes the copies kept under `conflicts/`.
  `RecoverableLocal` excepts a file written after its backup.
* `NoFalseSame` and `DispatchOnConverged` without their `MixedLarge` exception
  (reconcile_one). `pull_file` reads the mtime after the bytes (`transport.py:4261`-4295),
  so old bytes can get the stamp of new ones; a large pair is then recorded as equal and
  is not.
* `RunLifecycle!ResultIsConclusive` (run_lifecycle). A guard result with
  `cleanup_complete` false (`_posix_telemetry.py:3713`-3765) is returned as a result like
  any other (`transport.py:1120`), and `cli.py:2396`-2422 checkpoints it and removes the
  hazard: the next run starts beside the processes that are left.
  `NoConcurrentCommands` excepts such survivors.
* `RunLifecycle!CompletionIsFinal` (run_lifecycle). The `KeyboardInterrupt` handler of
  `cmd_run` (`cli.py:1776`) keeps only the states `command_complete` and `unknown`; a
  final receipt written at `cli.py:2801` becomes `cancelled` with `command_started`
  false. The comment at `cli.py:1773`: "cancellation while finalizing must never turn a
  completed mutating command into a retry".
* `RunLifecycle!BlockedWhileUnknown` (run_lifecycle). The hazard is read before target
  resolution, admission and the lock (`cli.py:1519`), and not again before the one
  written just before dispatch: a second run that waited for the lock reconciles while
  the first command is unknown; only its dispatch is refused. The message at
  `cli.py:1101`: "project is blocked by controller-local unknown-completion hazard".
* `TargetLedger!FalseIsTrue` (target_ledger). The launching record names no pid, and a
  status query takes that for a dead supervisor (`_durable_runner.py:945`): it declares
  the run failed and not started while its supervisor starts it, until the supervisor's
  next write. The comment at `_durable_runner.py:731`: "absence of the started receipt
  cannot prove absence of execution".
* `FleetDispatch!StaleWorkIsHeld` (fleet_dispatch). An owner that dies between recording
  the target's finalization and completing its batch leaves a row that recovery replays
  although the command ran (`fleet/dispatcher.py:1396`).
  `docs/TARGET_RESOURCE_PROTOCOL.md:101`: "held as `completion_unknown`, not
  automatically replayed".
* `FleetDispatch!NoBlindReplay` (fleet_dispatch). A launch whose response was lost is
  taken as not started when the ledger still says RESERVED (`fleet/executor.py:1635`),
  or CANCELLED, EXPIRED or REBOOTED; if the cancel call then fails too, or cancels a
  command that started meanwhile (the receipt's start state is not looked at,
  `fleet/executor.py:1076`), the owner puts the job back in the queue.
* `DurableRun!ResumeAckIsCollectable` (durable_run). A launcher killed between the
  target's acknowledgement and its second write of `durable.json` leaves a record
  without execution metadata: resume shows `durable_acknowledged` and "resume with the
  exact run ID" (`cli.py:3341`), and every resume of the completed run raises "saved
  durable execution metadata is missing" (`cli.py:3402`). `README.md:117`: resume
  "restores the exact exit code and logs".
* `DurableRun!FenceCoversSurvivor` and `CompleteMeansOver` (durable_run). The supervisor
  completes when the wrapper has exited and the pipes are closed
  (`_durable_runner.py:767`-797), and the controller only reports `cleanup_complete`
  (`cli.py:3486`): the fence is lowered, and the summary says complete, beside a command
  that outlived a killed wrapper or a guard that gave up. `FenceCoversCommand` and
  `SummaryIsTrue` except it.
* `DurableRun!CollectedWhatever` (durable_run). `finalize_durable_result` raises
  `GuardFinalizationError` from the saved bytes (`transport.py:1048`-1119: a guard result
  that is missing, a helper exit that disagrees), and `cli.py:3404` catches only
  `CommandNotStartedError`: every resume of such a run ends the same way, and the fence
  stays until an operator lifts it. `Collected` is about the results that are accepted.
* `MemoryGuard!BracketRejectsDoubleCredit` (memory_guard). The docstring at
  `_posix_telemetry.py:984`-998 says of the bracket of readings H0 P0 H1 P1 H2 that it
  rejects "both growth-between-reads and shrink-between-reads double credit"; two moves
  that cancel out pass it. `AdmissionIsBacked` allows, after more than one move, for what
  guarded trees gave back since they were read.

Met while modelling, with no formula:

* A root that is missing while it is listed and present again
  when it is probed defeats the vanished-root guard (the comment at `reconcile.py:318`).
* The release of a fenced batch asks for an acknowledgement from the status it read,
  not from the receipt of the cancel call that follows (`fleet/dispatcher.py:1463`).
* `docs/TARGET_RESOURCE_PROTOCOL.md` says the durable status records the
  acknowledgement while the start gate is still closed; `_supervise` acknowledges
  after `exec_confirm`. It also says a reservation may be cancelled only while still
  reserved; `_resource_cancel` also terminates a claimed tree.
* An owner that has authorized its cleanup and then loses its lease goes on deleting
  (`fleet/executor.py:1035`) although recovery may have fenced the batch as unknown in
  between: the evidence of a fenced batch may be gone, but not of a cancelled one
  (`EvidenceIsKept`).
* Durable runs: `README.md:119` says repeating resume does not "pull outputs a second
  time"; a kill between the pullback and the finalization checkpoint does. A Ctrl-C in
  the launcher after `finalization_complete` turns the summary into `cancelled` with
  `command_started` false, as in `cmd_run`.
* Memory guard: the comment at `_posix_telemetry.py:3315` does not hold for an escaped
  survivor that is known when a second signal ends the hold loop. A learned reservation
  with less than one MiB of slack makes `_effective_guard_reservation`
  (`transport.py:927`) raise a finalization error for a completed command.
* Authority: calls read the epoch before `BEGIN IMMEDIATE` (`remote/runner.py:1014`), so
  a stale rotation can set it back, and a stale key creation leaves a PENDING key of an
  old epoch that blocks rotation. Receipts are only imported under a RECOVERY lease, and
  a barrier imported after a newer TERMINAL receipt is refused until one with a higher
  fence is.
* Job observer: a row is dropped while its tree may survive when the child ends before
  it was identified although its started receipt exists (`_job_observer.py:2269`), or
  when a Windows start fails after the resume (2381); the module's docstring (3-8) says
  otherwise. `ObservedWhileAlive` exempts exactly these (`blind`). Windows rows whose
  keeper and observer both died are never reclaimed, so the registry can fill up.
* Fleet placement: `_greedy_split` (`fleet/placement.py:237`, 248) reads `bl.get(d)`
  without a default, so two jobs with two estimable devices, one of them idle, raise
  `ValueError`; the tick fails and the drain ends in `infrastructure_error`. The tests
  (`tests/test_fleet_placement.py:158`) pass explicit zeros. The model keeps the error.
* Fleet intake: a plan refused without a request id can be accepted later under one,
  after which the refused identity replays a receipt; the comment at
  `fleet/queue.py:1077` says "The refusal is terminal and idempotent". `claim_many`
  re-checks state, pool and definition only: exclusions, cooldowns and `max_jobs` may be
  stale (`fleet/dispatcher.py:424`). An ad hoc run that finds the pool busy can end a row
  that a later submission converged on (`fleet/executor.py:632`).
* Drain: `completion_unknown` is not among the terminal job states, so a drain that saw
  one ends in `infrastructure_error`, as after a pruned or cleared member. A claim made
  after the stop snapshot stays leased until it expires. `docs/AGENT_OUTPUT_SPEC.md:104`
  lists the statuses without `stopped`.

## 8 What is not shown

`PROJECT.json` lists the components that are not modelled, or partly. SSH argument
building, quoting, framing and rendering have no state of their own. The ranking of
candidates for a plain run (scheduler, profiles, owner presence) is a choice; placement
in the fleet is modelled. Git sync is a sequence of git calls whose atomicity rests on
git, plain sync a single process over the planner of `TransferPlan`, coordination is
imported by no run path. Of the modelled parts these are left out: the Windows memory
guard and the arithmetic of learned profiles; legacy rows and per-process metrics of
the observer, and a process that starts during a scan of the process table;
`clean --keep`, which reads the fences before it deletes; `idempotent-v1` jobs (whose
lapsed batches `queue.py:2428` requeues although they may run: `NoDoubleRun` is about
at-most-once work), output reservations, idempotency keys chosen by callers, scoped drains, review of corrupt rows,
a second signal to the drain, reclaim, `--no-lease` runs, and a saved plan split over
devices. Windows job objects are assumed to give the guarantees of process groups in
`TargetLedger`. Clock steps backwards, disk-full errors inside one SQLite transaction
and corrupted files are not modelled.
