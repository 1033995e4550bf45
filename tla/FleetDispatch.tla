---------------------------- MODULE FleetDispatch ----------------------------
(***************************************************************************)
(* Fleet dispatch: the thread that owns a claimed batch, the drain loop    *)
(* that recovers batches whose lease has lapsed, and the operator's cancel *)
(* and release commands, over the queue database (FleetQueue) and over a   *)
(* target that keeps the promises of TargetOp.  A batch's operation        *)
(* identity is a function of the batch, so both share one name.            *)
(*                                                                         *)
(* Any process may stop between two of its steps and never take another:   *)
(* that is a crash, or a heartbeat thread that gave up.  Every remote call *)
(* may fail, and may have taken effect although it is reported as failed.  *)
(***************************************************************************)
EXTENDS FleetQueue

VARIABLES owner,              \* the execution owner's thread, one per batch
          worker,             \* the drain loop and the operator's command
          alloc, start, tree, \* the target (TargetOp)
          sent,               \* the launch request has left the controller
          gone,               \* evidence deleted on the target: stage, durable
          seen, why, closer   \* history: the end the owner saw, who requeued,
                              \* who recorded the target's finalization

target == <<alloc, start, tree>>
history == <<seen, why, closer>>
vars == <<queue, owner, worker, target, sent, gone, history>>

T == INSTANCE TargetOp WITH Ops <- Batches

Workers == {"drain", "oper"}
NoSnap == [stg |-> FALSE, dur |-> FALSE, ack |-> FALSE]
IdleWorker == [pc |-> "idle", b |-> None, mode |-> "none", cs |-> "NULL", snap |-> NoSnap]

\* bs: its batch_state, res: the result it will record, def: cleanup_deferred,
\* cs: the cleanup state it was told.
NoOwner == [pc |-> "none", bs |-> "none", res |-> "none", def |-> FALSE, cs |-> "NULL"]

Init == /\ QueueInit /\ T!Init
        /\ owner = [b \in Batches |-> NoOwner]
        /\ worker = [w \in Workers |-> IdleWorker]
        /\ sent = [b \in Batches |-> FALSE]
        /\ gone = [b \in Batches |-> {}]
        /\ seen = [b \in Batches |-> "no"]
        /\ why = [b \in Batches |-> "no"]
        /\ closer = [b \in Batches |-> "no"]

Ran(b) == tree[b] \in {"running", "ended"}

\* The durable record may say acknowledged: the supervisor got past its claim,
\* or failed after it (the failure of its quarantine call too is left out).
Accepted(b) == start[b] # "NO" \/ alloc[b] \in {"QUARANTINED", "RELEASED"}

\* A cancel call: a reservation is cancelled, a claimed tree is killed (or
\* could not be), a terminal row answers with its state.
TargetCancel(b) == \/ T!Cancel(b)
                   \/ T!CouldNotStop(b)
                   \/ alloc[b] \in T!Terminal /\ UNCHANGED target

Delete(b, what) == gone' = [gone EXCEPT ![b] = @ \cup {what}]
Requeued(b, who) == why' = [why EXCEPT ![b] = IF \E j \in Members(b) : job'[j].st = "queued"
                                              THEN who ELSE @]

-----------------------------------------------------------------------------
(* The execution owner: _run_claimed_batch and _run_prepared_batch. *)

At(b, pc) == owner[b].pc = pc
Holds(b) == Owned(b, owner[b].bs)
Go(b, pc) == owner' = [owner EXCEPT ![b].pc = pc]
Enter(b, pc, s) == owner' = [owner EXCEPT ![b].pc = pc, ![b].bs = s]
Result(b, pc, r) == owner' = [owner EXCEPT ![b].pc = pc, ![b].res = r]
Deferred(b, r) == owner' = [owner EXCEPT ![b].pc = "finish", ![b].res = r, ![b].def = TRUE]
Told(b, pc, r, c) == owner' = [owner EXCEPT ![b].pc = pc, ![b].res = r, ![b].cs = c]

Claim(b, S) ==
    /\ ClaimMany(b, S)
    /\ owner' = [owner EXCEPT ![b] = [NoOwner EXCEPT !.pc = "claimed", !.bs = "leased"]]
    /\ UNCHANGED <<worker, target, sent, gone, history>>

\* A definition that drifted since the claim is sent to review.
OwnerBegins(b) ==
    /\ At(b, "claimed") /\ Holds(b)
    /\ \/ RevokePrelaunchBatch(b, "NULL") /\ Go(b, "end")
       \/ SetBatchState(b, "staging") /\ Enter(b, "reserve", "staging")
    /\ UNCHANGED <<worker, target, sent, gone, history>>

OwnerReserves(b) ==
    /\ At(b, "reserve")
    /\ \/ T!Reserve(b) /\ (Go(b, "record") \/ Result(b, "finish", "refused"))
       \/ UNCHANGED target /\ Result(b, "finish", "refused")
    /\ UNCHANGED <<queue, worker, sent, gone, history>>

OwnerRecords(b) ==
    /\ At(b, "record")
    /\ IF Holds(b) THEN RecordTargetReservation(b) /\ Go(b, "stage")
       ELSE UNCHANGED queue /\ Go(b, "abandon")
    /\ UNCHANGED <<worker, target, sent, gone, history>>

\* Ownership was lost before the launch: cancel and leave the row alone.
OwnerAbandons(b) ==
    /\ At(b, "abandon") /\ Go(b, "end")
    /\ TargetCancel(b) \/ UNCHANGED target
    /\ UNCHANGED <<queue, worker, sent, gone, history>>

\* ensure_remote_dir, then the inputs and the memory admission; a source that
\* changed goes to review.
OwnerStages(b) ==
    /\ At(b, "stage")
    /\ gone' = [gone EXCEPT ![b] = @ \ {"stage"}]
    /\ \/ Go(b, "gate")
       \/ \E r \in {"staging", "review"} : Result(b, "prelaunch", r)
    /\ UNCHANGED <<queue, worker, target, sent, history>>

\* frozen_launch_gate: the one transition that authorizes a launch.
OwnerGate(b) ==
    /\ At(b, "gate")
    /\ \/ Holds(b) /\ SetBatchState(b, "running") /\ Enter(b, "launch", "running")
       \/ ~Holds(b) /\ UNCHANGED queue /\ Go(b, "abandon")
       \/ UNCHANGED queue /\ Result(b, "prelaunch", "drift")
    /\ UNCHANGED <<worker, target, sent, gone, history>>

\* The reservation's own heartbeat must still be live; the request itself
\* may arrive late, or never.
OwnerLaunches(b) ==
    /\ At(b, "launch")
    /\ \/ Result(b, "prelaunch", "notlive") /\ UNCHANGED sent
       \/ sent' = [sent EXCEPT ![b] = TRUE] /\ Go(b, "sent")
       \/ Go(b, "asked") /\ UNCHANGED sent
    /\ UNCHANGED <<queue, worker, target, gone, history>>

OwnerHears(b) ==
    /\ At(b, "sent")
    /\ \/ Accepted(b) /\ Go(b, "accept")
       \/ Go(b, "asked")
    /\ UNCHANGED <<queue, worker, target, sent, gone, history>>

\* record_target_acceptance only adds a time stamp to the owned row.
OwnerAccepts(b) ==
    /\ At(b, "accept") /\ Go(b, IF Holds(b) THEN "wait" ELSE "end")
    /\ UNCHANGED <<queue, worker, target, sent, gone, history>>

\* A lost launch response: the durable record first, then the ledger.
OwnerAsks(b) ==
    /\ At(b, "asked")
    /\ \/ sent[b] /\ Accepted(b) /\ Deferred(b, "unknown")
       \/ Go(b, "asked-ledger")
    /\ UNCHANGED <<queue, worker, target, sent, gone, history>>

OwnerAsksLedger(b) ==
    /\ At(b, "asked-ledger")
    /\ \/ alloc[b] = "RESERVED" /\ Result(b, "prelaunch", "notstarted")
       \/ /\ alloc[b] \in T!Terminal \ {"RELEASED"}
          /\ Told(b, "authorize", "notstarted", alloc[b])
       \/ alloc[b] \in T!Held \cup {"RELEASED"} /\ Deferred(b, "unknown")
       \/ Deferred(b, "unknown")
    /\ UNCHANGED <<queue, worker, target, sent, gone, history>>

\* The durable record: complete when the wrapper has exited (a command that
\* never ran exits nonzero), failed when the supervisor gave up.
OwnerSeesEnd(b) ==
    /\ At(b, "wait") /\ tree[b] \in {"ended", "dead"}
    /\ \E r \in {"ok", "bad", "items", "noevidence"} :
          /\ r \in {"ok", "items"} => tree[b] = "ended"
          /\ Told(b, "outputs", r, alloc[b])
          /\ seen' = [seen EXCEPT ![b] = r]
    /\ UNCHANGED <<queue, worker, target, sent, gone, why, closer>>

OwnerSeesFailure(b) ==
    /\ At(b, "wait")
    /\ \/ /\ start[b] = "NO" /\ alloc[b] # "CLAIMED"
          /\ IF alloc[b] \in T!Terminal THEN Told(b, "authorize", "notstarted", alloc[b])
             ELSE Deferred(b, "notstarted")
       \/ Deferred(b, "unknown")
    /\ UNCHANGED <<queue, worker, target, sent, gone, history>>

\* Outputs are returned under the fetching state, before anything is deleted.
OwnerReturnsOutputs(b) ==
    /\ At(b, "outputs")
    /\ LET next == IF owner[b].cs \in T!Terminal THEN "authorize" ELSE "finish"
           then(s) == owner' = [owner EXCEPT ![b] = [@ EXCEPT !.pc = next, !.bs = s,
                                                              !.def = next = "finish"]]
       IN \/ Holds(b) /\ SetBatchState(b, "fetching") /\ then("fetching")
          \/ UNCHANGED queue /\ then(owner[b].bs)
          \/ ~Holds(b) /\ UNCHANGED queue /\ Go(b, "end")
    /\ UNCHANGED <<worker, target, sent, gone, history>>

\* finalize_prelaunch_target: only the state of the receipt is looked at.
OwnerCancels(b) ==
    /\ At(b, "prelaunch")
    /\ \/ TargetCancel(b) /\ IF alloc'[b] \in T!Terminal
                             THEN Told(b, "authorize", owner[b].res, alloc'[b])
                             ELSE Deferred(b, owner[b].res)
       \/ (TargetCancel(b) \/ UNCHANGED target) /\ Deferred(b, owner[b].res)
    /\ UNCHANGED <<queue, worker, sent, gone, history>>

\* cleanup_terminal_target
OwnerAuthorizes(b) ==
    /\ At(b, "authorize")
    /\ LET c == owner[b].cs
       IN IF MayAuthorizeCleanup(b, owner[b].bs, c)
          THEN AuthorizeTargetCleanup(b, c) /\ Go(b, "rmstage")
          ELSE UNCHANGED queue /\ Go(b, "end")
    /\ UNCHANGED <<worker, target, sent, gone, history>>

(* A deletion may have taken effect although its call is reported failed. *)
OwnerRemoves(b) ==
    /\ \/ /\ At(b, "rmstage") /\ Delete(b, "stage")
          /\ Go(b, "rmdurable") \/ Deferred(b, owner[b].res)
       \/ /\ At(b, "rmdurable") /\ Delete(b, "durable")
          /\ Go(b, "finalize") \/ Deferred(b, owner[b].res)
       \/ owner[b].pc \in {"rmstage", "rmdurable"} /\ Deferred(b, owner[b].res) /\ UNCHANGED gone
    /\ UNCHANGED <<queue, worker, target, sent, history>>

OwnerFinalizes(b) ==
    /\ At(b, "finalize")
    /\ LET c == owner[b].cs
       IN IF MayRecordFinalization(b, owner[b].bs, c)
          THEN /\ RecordTargetFinalization(b, c) /\ Go(b, "finish")
               /\ closer' = [closer EXCEPT ![b] = "owner"]
          ELSE UNCHANGED <<queue, closer>> /\ Go(b, "end")
    /\ UNCHANGED <<worker, target, sent, gone, seen, why>>

\* target_finalization_disposition
Supplied(b) ==
    LET o == owner[b]
    IN CASE o.res = "unknown" -> "FENCED"
         [] o.res # "unknown" /\ o.def ->
              IF o.res \in {"notstarted", "notlive"} THEN "REPLAYABLE" ELSE "PENDING"
         [] ~o.def /\ o.res \in {"ok", "bad", "items", "noevidence", "notstarted"} -> "FINALIZED"
         [] OTHER -> "NULL"

\* The tail of _run_claimed_batch: one result, one transaction.
Record(b) ==
    \/ owner[b].res = "drift" /\ RevokePrelaunchBatch(b, Supplied(b))
    \/ owner[b].res \in {"unknown", "noevidence"} /\ MarkCompletionUnknown(b)
    \/ /\ owner[b].res \in {"items", "review"}
       /\ \E ok \in SUBSET Members(b), v \in [Jobs -> {"retry", "final", "review"}] :
             /\ owner[b].res = "review" => ok = {} /\ \A j \in Jobs : v[j] # "final"
             /\ ok # {} => owner[b].bs = "fetching"
             /\ CompleteBatchItems(b, ok, v, Supplied(b))
    \/ /\ owner[b].res \in {"refused", "staging", "notlive", "notstarted", "bad"}
       /\ \E cap \in {1, MaxAttempts} : FailBatch(b, cap, Supplied(b))
    \/ /\ owner[b].res = "ok" /\ owner[b].bs = "fetching"
       /\ CompleteBatch(b, Supplied(b)) \/ FailBatch(b, 1, Supplied(b))   \* output verification

OwnerFinishes(b) ==
    /\ At(b, "finish")
    /\ \/ Holds(b) /\ Record(b) /\ Go(b, "end") /\ Requeued(b, "owner")
       \/ /\ Holds(b) /\ owner[b].res \in {"ok", "items"} /\ owner[b].bs # "fetching"
          /\ SetBatchState(b, "fetching") /\ Enter(b, "finish", "fetching") /\ UNCHANGED why
       \/ ~Holds(b) /\ Go(b, "end") /\ UNCHANGED <<queue, why>>
    /\ UNCHANGED <<worker, target, sent, gone, seen, closer>>

\* An exception nobody expected: unknown once the launch was authorized.
OwnerRaises(b) ==
    /\ owner[b].pc \notin {"none", "end"}
    /\ IF owner[b].bs \in {"running", "fetching"} THEN Deferred(b, "unknown")
       ELSE Result(b, "finish", "refused")
    /\ UNCHANGED <<queue, worker, target, sent, gone, history>>

OwnerStep(b) ==
    \/ OwnerBegins(b) \/ OwnerReserves(b) \/ OwnerRecords(b) \/ OwnerAbandons(b)
    \/ OwnerStages(b) \/ OwnerGate(b) \/ OwnerLaunches(b) \/ OwnerHears(b) \/ OwnerAccepts(b)
    \/ OwnerAsks(b) \/ OwnerAsksLedger(b) \/ OwnerSeesEnd(b) \/ OwnerSeesFailure(b)
    \/ OwnerReturnsOutputs(b) \/ OwnerCancels(b) \/ OwnerAuthorizes(b) \/ OwnerRemoves(b)
    \/ OwnerFinalizes(b) \/ OwnerFinishes(b) \/ OwnerRaises(b)

-----------------------------------------------------------------------------
(* Recovery of one row: _recover_target_row, for a stale active row (mode    *)
(* "stale"), for a terminal one whose cleanup is unfinished ("terminal") and *)
(* for an operation the operator releases ("release").                       *)

Doing(w, pc) == worker[w].pc = pc
Of(w) == worker[w].b
To(w, pc) == worker' = [worker EXCEPT ![w].pc = pc]
Answered(w, pc, c) == worker' = [worker EXCEPT ![w].pc = pc, ![w].cs = c]
Leave(w) == worker' = [worker EXCEPT ![w] = IdleWorker]
Snap(b) == [stg |-> batch[b].stg, dur |-> batch[b].dur, ack |-> batch[b].ack]
Take(w, b, mode, pc) ==
    worker' = [worker EXCEPT ![w] = [IdleWorker EXCEPT !.pc = pc, !.b = b, !.mode = mode,
                                                       !.snap = Snap(b)]]
Release(w) == worker[w].mode = "release"
Stale(w) == worker[w].mode = "stale"

\* _recover_target_stale: what the selected row says decides the way.
SelectStale(b) ==
    /\ Doing("drain", "idle") /\ StaleTarget(b)
    /\ Take("drain", b, IF batch[b].st = "cancelling" THEN "cancelling" ELSE "stale",
            CASE batch[b].st = "cancelling" /\ batch[b].disp = "FENCED" /\ batch[b].op -> "c-status"
              [] batch[b].st # "cancelling" /\ batch[b].fin -> "replay"
              [] batch[b].st # "cancelling" /\ ~batch[b].fin /\ batch[b].disp # "FENCED" ->
                    IF batch[b].op THEN "status" ELSE "rmonly"
              [] OTHER -> "unknown")
    /\ UNCHANGED <<queue, owner, target, sent, gone, history>>

SelectTerminal(b) ==
    /\ Doing("drain", "idle") /\ TerminalTarget(b) /\ batch[b].op
    /\ Take("drain", b, "terminal", "status")
    /\ UNCHANGED <<queue, owner, target, sent, gone, history>>

\* No recorded identity: nothing was launched, the stage goes.
RemoveUnrecorded(w) ==
    /\ Doing(w, "rmonly") /\ Delete(Of(w), "stage") /\ To(w, "replay")
    /\ UNCHANGED <<queue, owner, target, sent, history>>

\* (mutant: a terminal row may be replayed whatever the ledger says of it)
TrustTerminal(w) ==
    /\ Doing(w, "status")
    /\ \/ alloc[Of(w)] = "RESERVED" /\ To(w, "cancel")
       \/ alloc[Of(w)] \in T!Terminal /\ Answered(w, "progress", alloc[Of(w)])
    /\ UNCHANGED <<queue, owner, target, sent, gone, history>>

AskTarget(w) ==
    /\ Doing(w, "status")
    /\ LET b == Of(w)
       IN CASE Release(w) /\ start[b] # "NO" /\ ~worker[w].snap.ack -> Leave(w)
            [] Stale(w) /\ start[b] # "NO" -> To(w, "unknown")
            [] OTHER -> CASE alloc[b] = "RESERVED" -> To(w, "cancel")
                          [] alloc[b] \in T!Terminal -> Answered(w, "progress", alloc[b])
                          [] OTHER -> Leave(w)
    /\ UNCHANGED <<queue, owner, target, sent, gone, history>>

CancelReserved(w) ==
    /\ Doing(w, "cancel") /\ TargetCancel(Of(w))
    /\ IF alloc'[Of(w)] \in T!Terminal THEN Answered(w, "progress", alloc'[Of(w)]) ELSE Leave(w)
    /\ UNCHANGED <<queue, owner, sent, gone, history>>

\* The cleanup, each deletion before the record of it.
AfterStage(w) == IF worker[w].snap.dur THEN "final" ELSE "rmdurable"
AfterProgress(w) == IF worker[w].snap.stg THEN AfterStage(w) ELSE "rmstage"
Progress(w, c, stg, dur, pc) ==
    IF MayRecordProgress(Of(w), c, Release(w))
    THEN RecordCleanupProgress(Of(w), c, stg, dur, Stale(w) /\ c # "NULL") /\ To(w, pc)
    ELSE UNCHANGED queue /\ Leave(w)

CleanUp(w) ==
    /\ \/ /\ Doing(w, "progress") /\ UNCHANGED gone
          /\ Progress(w, worker[w].cs, FALSE, FALSE, AfterProgress(w))
       \/ Doing(w, "rmstage") /\ Delete(Of(w), "stage") /\ To(w, "stage-gone") /\ UNCHANGED queue
       \/ /\ Doing(w, "stage-gone") /\ UNCHANGED gone
          /\ Progress(w, "NULL", TRUE, FALSE, AfterStage(w))
       \/ Doing(w, "rmdurable") /\ Delete(Of(w), "durable") /\ To(w, "dur-gone") /\ UNCHANGED queue
       \/ /\ Doing(w, "dur-gone") /\ UNCHANGED gone
          /\ Progress(w, "NULL", FALSE, TRUE, "final")
    /\ UNCHANGED <<owner, target, sent, history>>

CloseCleanup(w) ==
    /\ Doing(w, "final")
    /\ IF MayFinalizeExpired(Of(w), worker[w].cs, Release(w))
       THEN /\ RecordExpiredFinalization(Of(w), worker[w].cs)
            /\ closer' = [closer EXCEPT ![Of(w)] = w]
            /\ IF Stale(w) THEN To(w, "replay") ELSE Leave(w)
       ELSE UNCHANGED <<queue, closer>> /\ Leave(w)
    /\ UNCHANGED <<owner, target, sent, gone, seen, why>>

\* expire_stale_batch
Expire(w) ==
    /\ \/ Doing(w, "replay") /\ (IF MayExpire(Of(w), TRUE)
                                  THEN ExpireReplay(Of(w)) /\ Requeued(Of(w), "recovery")
                                  ELSE UNCHANGED <<queue, why>>)
       \/ Doing(w, "unknown") /\ UNCHANGED why
          /\ (IF MayExpire(Of(w), FALSE) THEN ExpireUnknown(Of(w)) ELSE UNCHANGED queue)
    /\ Leave(w)
    /\ UNCHANGED <<owner, target, sent, gone, seen, closer>>

\* A remote error or a crash: the next pass starts from the row again.
GiveUp(w) == /\ ~Doing(w, "idle") /\ Leave(w)
             /\ UNCHANGED <<queue, owner, target, sent, gone, history>>

-----------------------------------------------------------------------------
(* Cancelling: fleet cancel, and the drain loop that resumes a cancellation. *)

CancelActive(b) ==
    /\ Doing("oper", "idle") /\ MayBeginCancellation(b)
    /\ BeginActiveCancellation(b) /\ Take("oper", b, "cancelling", "c-status")
    /\ UNCHANGED <<owner, target, sent, gone, history>>

CancelFenced(b) ==
    /\ Doing("oper", "idle") /\ batch[b].op
    /\ \E j \in Jobs : job[j].bat = b /\ job[j].st = "completion_unknown"
    /\ Take("oper", b, "fenced", "c-status")
    /\ UNCHANGED <<queue, owner, target, sent, gone, history>>

\* _stop_target_operation and _recover_target_cancellation
StopAsk(w) ==
    /\ Doing(w, "c-status")
    /\ LET b == Of(w)
       IN CASE alloc[b] = "RELEASED" -> To(w, "c-finished")
            [] alloc[b] \in T!Terminal \ {"RELEASED"} -> Answered(w, "c-stopped", alloc[b])
            [] OTHER -> To(w, "c-stop")
    /\ UNCHANGED <<queue, owner, target, sent, gone, history>>

\* (mutant: whatever state the receipt names, the tree counts as stopped)
StopAnyState(w) ==
    /\ Doing(w, "c-stop") /\ TargetCancel(Of(w)) /\ Answered(w, "c-stopped", alloc'[Of(w)])
    /\ UNCHANGED <<queue, owner, sent, gone, history>>

Stop(w) ==
    /\ Doing(w, "c-stop") /\ TargetCancel(Of(w))
    /\ CASE alloc'[Of(w)] = "RELEASED" -> To(w, "c-finished")
         [] alloc'[Of(w)] \in T!Terminal \ {"RELEASED"} -> Answered(w, "c-stopped", alloc'[Of(w)])
         [] OTHER -> Leave(w)
    /\ UNCHANGED <<queue, owner, sent, gone, history>>

RecordStop(w) ==
    /\ LET b == Of(w)
           cancelling == worker[w].mode = "cancelling"
       IN \/ /\ Doing(w, "c-finished")
             /\ IF cancelling /\ Cancelling(b) THEN MarkActiveCancellationUnknown(b)
                ELSE UNCHANGED queue
          \/ /\ Doing(w, "c-stopped")
             /\ CASE cancelling /\ Cancelling(b) /\ ~batch[b].fin ->
                       CancelActiveBatch(b, worker[w].cs)
                  [] ~cancelling /\ FencedRow(b) -> RecordFencedCancellation(b, worker[w].cs)
                  [] OTHER -> UNCHANGED queue
    /\ Leave(w)
    /\ UNCHANGED <<owner, target, sent, gone, history>>

\* fleet release: acknowledging effects is an act of its own.
Acknowledge(b) ==
    /\ Doing("oper", "idle") /\ MayRelease(b) /\ AuthorizeTargetRelease(b, TRUE)
    /\ UNCHANGED <<owner, worker, target, sent, gone, history>>

ReleaseAsks(b) ==
    /\ Doing("oper", "idle") /\ FencedRow(b) /\ batch[b].op
    /\ start[b] = "NO" \/ batch[b].ack
    /\ Take("oper", b, "release", IF batch[b].rel THEN "status" ELSE "r-authorize")
    /\ UNCHANGED <<queue, owner, target, sent, gone, history>>

ReleaseAuthorizes ==
    /\ Doing("oper", "r-authorize")
    /\ LET b == Of("oper")
       IN IF MayRelease(b)
          THEN AuthorizeTargetRelease(b, FALSE) /\ Take("oper", b, "release", "status")
          ELSE UNCHANGED queue /\ Leave("oper")
    /\ UNCHANGED <<owner, target, sent, gone, history>>

WorkerStep(w) ==
    \/ RemoveUnrecorded(w) \/ AskTarget(w) \/ CancelReserved(w) \/ CleanUp(w) \/ CloseCleanup(w) \/ Expire(w)
    \/ StopAsk(w) \/ Stop(w) \/ RecordStop(w) \/ GiveUp(w)

-----------------------------------------------------------------------------
(* The target, and time. *)

\* The launch request arrives once, however late.
TargetStep(b) ==
    /\ \/ sent[b] /\ T!Spawn(b)
       \/ T!Expire(b) \/ T!Begin(b) \/ T!Exit(b) \/ T!Claim(b) \/ T!Maybe(b) \/ T!Confirm(b)
       \/ T!Deny(b) \/ T!Quarantine(b) \/ T!Release(b)
    /\ UNCHANGED <<queue, owner, worker, sent, gone, history>>

TargetReboots == T!Reboot /\ UNCHANGED <<queue, owner, worker, sent, gone, history>>

\* A batch lease is 300 s and renewed every 60 s, a reservation's is 30 s and
\* no longer renewed after the gate: past the gate it is the first to lapse.
Lapses(b) ==
    /\ LeaseLapses(b)
    /\ owner[b].bs \in {"running", "fetching"} => alloc[b] # "RESERVED"
    /\ UNCHANGED <<owner, worker, target, sent, gone, history>>

Dequeue(j) == LeaveQueue(j) /\ UNCHANGED <<owner, worker, target, sent, gone, history>>

Next ==
    \/ TargetReboots \/ ReleaseAuthorizes
    \/ \E w \in Workers : WorkerStep(w)
    \/ \E j \in Jobs : Dequeue(j)
    \/ \E b \in Batches :
          \/ \E S \in SUBSET Jobs : Claim(b, S)
          \/ OwnerStep(b) \/ TargetStep(b) \/ Lapses(b)
          \/ SelectStale(b) \/ SelectTerminal(b) \/ CancelActive(b) \/ CancelFenced(b)
          \/ Acknowledge(b) \/ ReleaseAsks(b)
Spec == Init /\ [][Next]_vars

-----------------------------------------------------------------------------
(* Properties. *)

JobOutcomes == {"done", "failed_final", "needs_review", "completion_unknown", "cancelled"}

TypeOK ==
    /\ job \in [Jobs -> [st : {"queued", "active"} \cup JobOutcomes, att : 0..MaxAttempts,
                         bat : Batches \cup {None}]]
    /\ \A b \in Batches : /\ batch[b].st \in BatchActive \cup {"none", "done", "failed"}
                          /\ batch[b].disp \in Dispositions
                          /\ batch[b].cst \in CleanupStates \cup {"NULL"}
                          /\ gone[b] \subseteq {"stage", "durable"}
    /\ alloc \in [Batches -> T!Allocs] /\ tree \in [Batches -> T!Trees]
    /\ start \in [Batches -> T!Starts]

\* What recovery itself finds out about a target is right: it puts a job
\* back in the queue, and in every later state the command of that batch has
\* not run, unless the owner had recorded the finalization before it stopped.
RecoveryJudgesRight ==
    \A b \in Batches : why[b] = "recovery" /\ Ran(b) => closer[b] = "owner"

\* (does not hold, see README: Disagreements)
\* Work whose launch was authorized and whose lease lapsed is never put back
\* in the queue if its command ran (docs/TARGET_RESOURCE_PROTOCOL.md, 101).
StaleWorkIsHeld == \A b \in Batches : why[b] = "recovery" => ~Ran(b)

\* (does not hold, see README: Disagreements)
\* Nobody, the owner included, puts a job back in the queue while the end of
\* a command that ran is unknown.
NoBlindReplay == \A b \in Batches : why[b] # "no" /\ Ran(b) => seen[b] # "no"

\* The queue's final words are true of the target: a job is done only through
\* a batch whose command ended and whose result its owner read, and one that
\* was cancelled with its batch neither runs there nor can start any more.
OutcomesAreTrue ==
    \A j \in Jobs : LET b == job[j].bat IN
        /\ job[j].st = "done" =>
             b # None /\ tree[b] = "ended" /\ seen[b] \in {"ok", "items"}
        /\ job[j].st = "cancelled" /\ b # None =>
             tree[b] # "running" /\ alloc[b] \in T!Terminal

\* Stage and durable record are never deleted under a running command, nor,
\* by the owner or by recovery, between the intent of a cancellation and the
\* operator's release.
EvidenceIsKept ==
    \A b \in Batches :
        \/ tree[b] = "running"
        \/ /\ batch[b].st = "cancelling" \/ \E j \in Jobs : job[j].bat = b /\ job[j].st = "cancelled"
           /\ ~batch[b].rel
        => gone[b] = {}

\* A job's outcome, unknown included, is never changed again by anyone.
OutcomesStay ==
    [][\A j \in Jobs : job[j].st \in JobOutcomes => job'[j].st = job[j].st]_vars

=============================================================================
