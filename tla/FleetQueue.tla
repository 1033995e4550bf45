----------------------------- MODULE FleetQueue -----------------------------
(***************************************************************************)
(* The controller's queue database: jobs, batches and the transactions on  *)
(* them.  Every transaction is one BEGIN IMMEDIATE block, so one step.  A  *)
(* transaction is a guard (the WHERE clause) and an effect; a caller that  *)
(* finds the guard false is told so and changes nothing.  Batches run      *)
(* under target protocol 1 and the replay policy at-most-once-v1; all use  *)
(* one pool.  A job's executing state always mirrors its batch's: "active".*)
(***************************************************************************)
EXTENDS Naturals, FiniteSets

CONSTANTS Jobs, Batches,
          MaxAttempts,        \* claims a job may use up
          None                \* no batch

ASSUME MaxAttemptsAssumption == MaxAttempts \in Nat \ {0}
ASSUME NoneAssumption == None \notin Batches

VARIABLES job,       \* [st, att: claims so far, bat: the batch it belongs to]
          batch      \* one row per batch, see NoBatch

queue == <<job, batch>>

Executing == {"leased", "staging", "running", "fetching"}
BatchActive == Executing \cup {"cancelling"}
CleanupStates == {"RELEASED", "CANCELLED", "EXPIRED", "REBOOTED"}
Dispositions == {"NULL", "PENDING", "REPLAYABLE", "FENCED", "FINALIZED"}

\* st: state, live: lease_until > now, op: the target identity is recorded,
\* cst: target_cleanup_state, stg, dur and fin: the three cleanup proofs,
\* disp: target_finalization_disposition, rel and ack: owner release marks.
NoBatch == [st |-> "none", live |-> FALSE, op |-> FALSE, cst |-> "NULL", stg |-> FALSE,
            dur |-> FALSE, fin |-> FALSE, disp |-> "NULL", rel |-> FALSE, ack |-> FALSE]

QueueInit == /\ job = [j \in Jobs |-> [st |-> "queued", att |-> 0, bat |-> None]]
             /\ batch = [b \in Batches |-> NoBatch]

Row(b, r) == batch' = [batch EXCEPT ![b] = r]
Members(b) == {j \in Jobs : job[j].bat = b /\ job[j].st = "active"}
JobsBecome(b, s) == job' = [j \in Jobs |-> IF j \in Members(b) THEN [job[j] EXCEPT !.st = s]
                                           ELSE job[j]]

-----------------------------------------------------------------------------
(* Claiming, and the exits of a queued job that was never claimed. *)

\* A pool lease lives exactly as long as its active batch's own lease.
PoolFree == \A b \in Batches : batch[b].st \in BatchActive => ~batch[b].live

ClaimMany(b, S) ==
    /\ batch[b].st = "none" /\ S # {} /\ \A j \in S : job[j].st = "queued"
    /\ PoolFree
    /\ Row(b, [NoBatch EXCEPT !.st = "leased", !.live = TRUE])
    /\ job' = [j \in Jobs |-> IF j \in S THEN [st |-> "active", att |-> job[j].att + 1, bat |-> b]
                              ELSE job[j]]

\* (mutant: the operator's update does not check the state again)
CancelUnchecked(j) == UNCHANGED batch /\ job' = [job EXCEPT ![j].st = "cancelled"]

\* Frozen bytes that fail their check, a drifted definition, no device left,
\* or the operator.
LeaveQueue(j) ==
    /\ job[j].st = "queued" /\ UNCHANGED batch
    /\ \E s \in {"needs_review", "failed_final", "cancelled"} : job' = [job EXCEPT ![j].st = s]

-----------------------------------------------------------------------------
(* The execution owner's transactions, behind one fence. *)

\* state = expected AND owner_token = ? AND lease_until > now
Owned(b, expected) == batch[b].st = expected /\ batch[b].live

SetBatchState(b, s) == Row(b, [batch[b] EXCEPT !.st = s]) /\ UNCHANGED job
RecordTargetReservation(b) == Row(b, [batch[b] EXCEPT !.op = TRUE]) /\ UNCHANGED job

MayAuthorizeCleanup(b, expected, c) ==
    /\ Owned(b, expected) /\ batch[b].op /\ c \in CleanupStates /\ ~batch[b].fin
    /\ ~batch[b].stg /\ ~batch[b].dur
    /\ \/ batch[b].cst = "NULL" /\ batch[b].disp = "NULL"
       \/ batch[b].cst = c /\ batch[b].disp = "PENDING"
AuthorizeTargetCleanup(b, c) == /\ Row(b, [batch[b] EXCEPT !.cst = c, !.disp = "PENDING"])
                                /\ UNCHANGED job

Finalized(b, c) == [batch[b] EXCEPT !.cst = c, !.stg = TRUE, !.dur = TRUE, !.fin = TRUE,
                                    !.disp = "FINALIZED"]
MayRecordFinalization(b, expected, c) ==
    Owned(b, expected) /\ batch[b].op /\ batch[b].cst \in {"NULL", c}
RecordTargetFinalization(b, c) == Row(b, Finalized(b, c)) /\ UNCHANGED job

\* _terminal_disposition
TerminalDisposition(b, supplied) ==
    IF batch[b].disp = "FINALIZED" \/ (supplied = "NULL" /\ ~batch[b].op) THEN "FINALIZED"
    ELSE IF supplied # "NULL" THEN supplied
    ELSE IF batch[b].disp # "NULL" THEN batch[b].disp ELSE "PENDING"

Close(b, s, d) == Row(b, [batch[b] EXCEPT !.st = s, !.disp = d])

\* _finish_batch_failure; a cap of 1 makes the failure final.
Failed(j, cap) == IF job[j].att < cap THEN [job[j] EXCEPT !.st = "queued", !.bat = None]
                  ELSE [job[j] EXCEPT !.st = "failed_final"]
FinishBatchFailure(b, cap) ==
    job' = [j \in Jobs |-> IF j \in Members(b) THEN Failed(j, cap) ELSE job[j]]

CompleteBatch(b, supplied) ==
    Close(b, "done", TerminalDisposition(b, supplied)) /\ JobsBecome(b, "done")
FailBatch(b, cap, supplied) ==
    Close(b, "failed", TerminalDisposition(b, supplied)) /\ FinishBatchFailure(b, cap)
RevokePrelaunchBatch(b, supplied) ==
    Close(b, "failed", TerminalDisposition(b, supplied)) /\ JobsBecome(b, "needs_review")
MarkCompletionUnknown(b) == Close(b, "failed", "FENCED") /\ JobsBecome(b, "completion_unknown")

\* complete_batch_items: the worker's verdict per item; only the items in
\* ok are done, one that is not mentioned counts as a retry.
CompleteBatchItems(b, ok, verdict, supplied) ==
    /\ Close(b, IF Members(b) \subseteq ok THEN "done" ELSE "failed",
             TerminalDisposition(b, supplied))
    /\ job' = [j \in Jobs |->
                 IF j \notin Members(b) THEN job[j]
                 ELSE IF j \in ok THEN [job[j] EXCEPT !.st = "done"]
                 ELSE IF verdict[j] = "review" THEN [job[j] EXCEPT !.st = "needs_review"]
                 ELSE Failed(j, IF verdict[j] = "final" THEN 1 ELSE MaxAttempts)]

-----------------------------------------------------------------------------
(* Cancellation by the operator, which takes the batch from its owner. *)

\* (mutant: cancellation does not look for an authorized cleanup)
CancelOverCleanup(b) ==
    /\ batch[b].op /\ Members(b) # {} /\ ~batch[b].fin
    /\ batch[b].st \in Executing \/ (batch[b].st = "cancelling" /\ batch[b].disp = "FENCED")

MayBeginCancellation(b) ==
    /\ batch[b].op /\ batch[b].cst = "NULL" /\ ~batch[b].stg /\ ~batch[b].dur /\ ~batch[b].fin
    /\ batch[b].disp # "FINALIZED" /\ Members(b) # {}
    /\ batch[b].st \in Executing \/ (batch[b].st = "cancelling" /\ batch[b].disp = "FENCED")
BeginActiveCancellation(b) == Close(b, "cancelling", "FENCED") /\ UNCHANGED job

Cancelling(b) == batch[b].st = "cancelling" /\ batch[b].disp = "FENCED" /\ Members(b) # {}
MarkActiveCancellationUnknown(b) ==
    Close(b, "failed", "FENCED") /\ JobsBecome(b, "completion_unknown")
CancelActiveBatch(b, c) ==
    /\ Row(b, [batch[b] EXCEPT !.st = "failed", !.cst = c])
    /\ JobsBecome(b, "cancelled")

FencedRow(b) == batch[b].st = "failed" /\ batch[b].disp = "FENCED" /\ ~batch[b].fin
RecordFencedCancellation(b, c) == Row(b, [batch[b] EXCEPT !.cst = c]) /\ UNCHANGED job

JobStates(b) == {job[j].st : j \in {i \in Jobs : job[i].bat = b}}
MayRelease(b) == /\ FencedRow(b) /\ batch[b].op
                 /\ JobStates(b) # {} /\ JobStates(b) \subseteq {"cancelled", "completion_unknown"}
AuthorizeTargetRelease(b, acknowledge) ==
    Row(b, [batch[b] EXCEPT !.rel = TRUE, !.ack = @ \/ acknowledge]) /\ UNCHANGED job

-----------------------------------------------------------------------------
(* Recovery, authorized by an expired lease or by the owner's release. *)

StaleTarget(b) == batch[b].st \in BatchActive /\ ~batch[b].live
TerminalTarget(b) == /\ batch[b].st \in {"done", "failed"} /\ ~batch[b].live /\ ~batch[b].fin
                     /\ batch[b].disp \in {"PENDING", "REPLAYABLE"}

MayRecordProgress(b, c, release) ==
    /\ batch[b].op /\ (c = "NULL" \/ batch[b].cst \in {"NULL", c})
    /\ batch[b].disp = "FENCED" => release /\ batch[b].rel
RecordCleanupProgress(b, c, stg, dur, replayable) ==
    /\ Row(b, [batch[b] EXCEPT !.cst = IF c = "NULL" THEN @ ELSE c,
                               !.stg = @ \/ stg, !.dur = @ \/ dur,
                               !.disp = IF replayable THEN "REPLAYABLE"
                                        ELSE IF @ = "NULL" THEN "PENDING" ELSE @])
    /\ UNCHANGED job

MayFinalizeExpired(b, c, release) ==
    /\ batch[b].op /\ batch[b].cst \in {"NULL", c}
    /\ IF release THEN batch[b].rel /\ batch[b].disp = "FENCED" ELSE ~batch[b].live
RecordExpiredFinalization(b, c) == Row(b, Finalized(b, c)) /\ UNCHANGED job

MayExpire(b, replaySafe) == /\ StaleTarget(b)
                            /\ replaySafe => ~batch[b].op \/ batch[b].fin
ExpireReplay(b) == Close(b, "failed", "FINALIZED") /\ FinishBatchFailure(b, MaxAttempts)
ExpireUnknown(b) == Close(b, "failed", "FENCED") /\ JobsBecome(b, "completion_unknown")

LeaseLapses(b) == /\ batch[b].st # "none" /\ batch[b].live
                  /\ Row(b, [batch[b] EXCEPT !.live = FALSE]) /\ UNCHANGED job
=============================================================================
