----------------------------- MODULE DurableRun -----------------------------
(***************************************************************************)
(* One durable run R of a project: the controller process that launches it *)
(* and waits, later invocations of "resume", and the detached supervisor   *)
(* on the target that owns the command.  The controller keeps durable.json *)
(* (the record), summary.json and the project's completion fence; between  *)
(* any two of its writes it may be killed, interrupted or cut off.         *)
(* Other runs of the project come and go when fence and lock allow it, an  *)
(* operator may lift the fence by hand, retention may delete the run's     *)
(* directory.                                                              *)
(***************************************************************************)
EXTENDS Naturals, FiniteSets

CONSTANTS Resumers,      \* processes that run "remrun resume R"
          MaxFaults      \* kills, interrupts, lost answers and failed calls

VARIABLES rec,           \* durable.json: none, saved, bound (with the execution metadata)
          summ,          \* completion_state of summary.json
          fence,         \* unknown-completion hazard of the project: none, R, other
          lock,          \* holder of the project lock: free, dead, other or a process
          request,       \* the launch request is on its way to the target
          dst,           \* state of status.json on the target, none when there is no directory
          dack,          \* its acknowledged field
          sup,           \* supervisor: none, starting, alive, gone
          cmd,           \* none, wrapped, running, survivor (its wrapper is gone), ended,
                         \* never (the wrapper ended before it)
          legible,       \* finalize_durable_result makes a result of what was saved
          pc,            \* where each controller process is
          st,            \* the target status a process holds: state and acknowledged
          ackd,          \* its acknowledged flag
          own,           \* it has checked the observer's ownership row
          bound,         \* the record it loaded has execution metadata
          shown,         \* which commands showed durable_acknowledged: run, resume
          pulls,         \* completed pullbacks (with --no-pullback, the baseline instead)
          resolved,      \* the operator lifted the fence
          faults

disk == <<rec, summ, fence, lock>>
target == <<request, dst, dack, sup, cmd, legible>>
local == <<st, ackd, own, bound>>
ghost == <<shown, pulls, resolved>>
vars == <<disk, target, pc, local, ghost, faults>>

Procs == {"launch"} \cup Resumers
Unfinished == {"launching", "pending", "running"}
Over == {"ended", "never"}
Alive == cmd \in {"wrapped", "running", "survivor"}
NoStatus == [state |-> "none", ack |-> FALSE]

(* The lock names its holder, which is none of the other values of lock.   *)
ASSUME ConstAssumption == /\ Resumers \cap {"launch", "free", "dead", "other"} = {}
                          /\ MaxFaults \in Nat

Init == /\ rec = "none" /\ summ = "none" /\ fence = "none" /\ lock = "launch"
        /\ request = FALSE /\ dst = "none" /\ dack = FALSE /\ sup = "none" /\ cmd = "none"
        /\ legible = TRUE
        /\ pc = [p \in Procs |-> IF p = "launch" THEN "record" ELSE "idle"]
        /\ st = [p \in Procs |-> NoStatus]
        /\ ackd = [p \in Procs |-> FALSE] /\ own = [p \in Procs |-> FALSE]
        /\ bound = [p \in Procs |-> FALSE]
        /\ shown = {} /\ pulls = 0 /\ resolved = FALSE /\ faults = 0

Go(p, l) == pc' = [pc EXCEPT ![p] = l]
Shows(p, ack) == shown' = IF ack THEN shown \cup {IF p = "launch" THEN "run" ELSE "resume"}
                          ELSE shown
Fault == faults < MaxFaults /\ faults' = faults + 1

(* A process that ends gives its lock back; the launcher is not run again. *)
Unlocked(p) == IF lock = p THEN "free" ELSE lock
Ends(p) == Go(p, IF p = "launch" THEN "over" ELSE "idle") /\ lock' = Unlocked(p)

(* An exception reaches cmd_run: what was not yet settled is marked.  A    *)
(* resume leaves the summary as it is.                                     *)
OnException(p) == IF p # "launch" THEN summ
                  ELSE IF summ = "command_complete" THEN "finalization_failed"
                  ELSE IF summ = "unknown" THEN summ ELSE "failed_before_completion"
OnInterrupt(p) == IF p # "launch" THEN summ
                  ELSE IF summ = "command_complete" THEN "finalization_failed"
                  ELSE IF summ = "unknown" THEN summ ELSE "cancelled"
Raises(p) == summ' = OnException(p) /\ Ends(p) /\ UNCHANGED <<rec, fence>>

----------------------------------------------------------------------------
(* Launch. *)
SaveRecord == /\ pc["launch"] = "record" /\ rec' = "saved" /\ Go("launch", "fence")
              /\ UNCHANGED <<summ, fence, lock, target, local, ghost, faults>>

RaiseFence == /\ pc["launch"] = "fence" /\ fence = "none" /\ fence' = "R"
              /\ Go("launch", "note")
              /\ UNCHANGED <<rec, summ, lock, target, local, ghost, faults>>

NoteUnknown == /\ pc["launch"] = "note" /\ summ' = "unknown" /\ Go("launch", "send")
               /\ UNCHANGED <<rec, fence, lock, target, local, ghost, faults>>

(* Refused before anything was sent: no reservation, no supported command. *)
Refused == /\ pc["launch"] = "send" /\ Go("launch", "n_fence")
           /\ UNCHANGED <<disk, target, local, ghost, faults>>

Send == /\ pc["launch"] = "send" /\ request' = TRUE /\ Go("launch", "sent")
        /\ UNCHANGED <<disk, dst, dack, sup, cmd, legible, local, ghost, faults>>

Reply == /\ pc["launch"] = "sent" /\ dst # "none"
         /\ dack \/ dst \in {"complete", "failed"}
         /\ st' = [st EXCEPT !["launch"] = [state |-> dst, ack |-> dack]]
         /\ Go("launch", "bind")
         /\ UNCHANGED <<disk, target, ackd, own, bound, ghost, faults>>

(* The call fails or its answer is lost; the request may still arrive. *)
NoReply == /\ pc["launch"] = "sent" /\ Fault /\ Go("launch", "ask")
           /\ UNCHANGED <<disk, target, local, ghost>>

(* What a status call finds: a record whose supervisor is not seen alive   *)
(* is turned into failed.  A supervisor that has not written its first     *)
(* status has no pid to be seen by.                                        *)
Judged == IF dst \in Unfinished /\ sup # "alive" THEN "failed" ELSE dst

StatusCall(p) == /\ dst # "none" /\ dst' = Judged
                 /\ st' = [st EXCEPT ![p] = [state |-> Judged, ack |-> dack]]
                 /\ UNCHANGED <<request, dack, sup, cmd, legible>>

(* Mutant: a launch without acknowledgement counts as not started. *)
GivesUpUnfenced == /\ summ' = "unknown" /\ fence' = "none" /\ Ends("launch") /\ UNCHANGED rec

GivesUp == /\ summ' = "unknown" /\ Ends("launch") /\ UNCHANGED <<rec, fence>>

AskAcked == /\ pc["launch"] = "ask" /\ dack /\ StatusCall("launch")
            /\ Go("launch", "bind_detach")
            /\ UNCHANGED <<disk, ackd, own, bound, ghost, faults>>
AskNotAcked == /\ pc["launch"] = "ask" /\ ~dack /\ StatusCall("launch") /\ GivesUp
               /\ UNCHANGED <<ackd, own, bound, ghost, faults>>
AskFails == /\ pc["launch"] = "ask" /\ GivesUp
            /\ IF dst = "none" THEN UNCHANGED faults ELSE Fault
            /\ UNCHANGED <<target, local, ghost>>

Bind == /\ pc["launch"] \in {"bind", "bind_detach"} /\ rec' = "bound"
        /\ bound' = [bound EXCEPT !["launch"] = TRUE]
        /\ ackd' = [ackd EXCEPT !["launch"] = st["launch"].ack]
        /\ Shows("launch", st["launch"].ack)
        /\ Go("launch", IF pc["launch"] = "bind" THEN "poll" ELSE "detach")
        /\ UNCHANGED <<summ, fence, lock, target, st, own, pulls, resolved, faults>>

----------------------------------------------------------------------------
(* Waiting for the target. *)
Detach(p) == /\ pc[p] = "detach" /\ summ' = "detached" /\ Ends(p)
             /\ UNCHANGED <<rec, fence, target, local, ghost, faults>>

PollUnknown(p) == /\ summ' = "unknown" /\ Ends(p)
                  /\ UNCHANGED <<rec, fence>>

PollDone(p) == /\ pc[p] = "poll" /\ st[p].state = "complete" /\ Go(p, "f_read")
               /\ UNCHANGED <<disk, target, local, ghost, faults>>
PollFailed(p) == /\ pc[p] = "poll" /\ st[p].state = "failed" /\ PollUnknown(p)
                 /\ UNCHANGED <<target, local, ghost, faults>>

NeedsOwner(p) == st[p].state = "running" /\ ackd[p] /\ ~own[p]

(* The observer's row of a running command is there while it runs; that of *)
(* a survivor goes with its observer.                                      *)
OwnerFound(p) == /\ pc[p] = "poll" /\ NeedsOwner(p) /\ cmd \in {"running", "survivor"}
                 /\ own' = [own EXCEPT ![p] = TRUE]
                 /\ UNCHANGED <<disk, target, pc, st, ackd, bound, ghost, faults>>
OwnerAbsent(p) == /\ pc[p] = "poll" /\ NeedsOwner(p) /\ cmd # "running" /\ StatusCall(p)
                  /\ IF Judged = "complete" THEN UNCHANGED <<disk, pc>> ELSE PollUnknown(p)
                  /\ UNCHANGED <<ackd, own, bound, ghost, faults>>
OwnerUnreachable(p) == /\ pc[p] = "poll" /\ NeedsOwner(p) /\ Fault /\ Go(p, "detach")
                       /\ UNCHANGED <<disk, target, local, ghost>>

(* --no-wait, or Ctrl-C once acknowledged. *)
Leaves(p) == /\ pc[p] = "poll" /\ st[p].state \in Unfinished /\ ackd[p] /\ ~NeedsOwner(p)
             /\ Fault /\ Go(p, "detach")
             /\ UNCHANGED <<disk, target, local, ghost>>

PollStatus(p) == /\ pc[p] = "poll" /\ st[p].state \in Unfinished /\ ~NeedsOwner(p)
                 /\ StatusCall(p)
                 /\ ackd' = [ackd EXCEPT ![p] = @ \/ dack]
                 /\ Shows(p, dack)
                 /\ UNCHANGED <<disk, pc, own, bound, pulls, resolved, faults>>

PollCutOff(p) == /\ pc[p] = "poll" /\ st[p].state \in Unfinished /\ ~NeedsOwner(p) /\ Fault
                 /\ IF ackd[p] THEN Go(p, "detach") /\ UNCHANGED disk ELSE PollUnknown(p)
                 /\ UNCHANGED <<target, local, ghost>>

----------------------------------------------------------------------------
(* Finalization. *)
AlreadyDone(p) == /\ pc[p] = "f_read" /\ summ = "complete" /\ Ends(p)
                  /\ UNCHANGED <<rec, summ, fence, target, local, ghost, faults>>

(* The result with its logs; a run the target shows was never started      *)
(* (by a marker in its output) leaves another way.                         *)
Fetch(p) == /\ pc[p] = "f_read" /\ summ # "complete" /\ StatusCall(p)
            /\ Judged = "complete" /\ bound[p] /\ legible
            /\ \/ Go(p, "f_note")
               \/ cmd = "never" /\ Go(p, "n_fence")
            /\ UNCHANGED <<disk, ackd, own, bound, ghost, faults>>

(* The call fails, or what was saved is refused: a missing guard result, a *)
(* helper exit that disagrees.  It is refused again by every later resume. *)
FetchFails(p) == /\ pc[p] = "f_read" /\ summ # "complete" /\ Raises(p)
                 /\ IF bound[p] /\ dst = "complete" /\ legible THEN Fault
                    ELSE UNCHANGED faults
                 /\ UNCHANGED <<target, local, ghost>>

NoteComplete(p) == /\ pc[p] = "f_note" /\ summ' = "command_complete" /\ Go(p, "f_pull")
                   /\ UNCHANGED <<rec, fence, lock, target, local, ghost, faults>>

Pull(p) == /\ pc[p] = "f_pull" /\ pulls' = IF pulls < 2 THEN pulls + 1 ELSE pulls
           /\ Go(p, "f_check")
           /\ UNCHANGED <<disk, target, local, shown, resolved, faults>>

(* Mutant: a failed pullback also cleans the target up. *)
PullFailsCleans(p) == /\ pc[p] = "f_pull" /\ Fault /\ dst' = "none"
                      /\ summ' = "finalization_failed" /\ Ends(p)
                      /\ UNCHANGED <<rec, fence, request, dack, sup, cmd, legible, local, ghost>>

PullFails(p) == /\ pc[p] = "f_pull" /\ Fault
                /\ summ' = "finalization_failed" /\ Ends(p)
                /\ UNCHANGED <<rec, fence, target, local, ghost>>

Checkpoint(p) == /\ pc[p] = "f_check" /\ summ' = "finalization_complete" /\ Go(p, "f_fence")
                 /\ UNCHANGED <<rec, fence, lock, target, local, ghost, faults>>

LowerFence(p) == /\ pc[p] = "f_fence"
                 /\ IF fence = "R"
                    THEN fence' = "none" /\ Go(p, "f_done") /\ UNCHANGED <<rec, summ, lock>>
                    ELSE Raises(p)
                 /\ UNCHANGED <<target, local, ghost, faults>>

NoteDone(p) == /\ pc[p] = "f_done" /\ summ' = "complete" /\ Go(p, "f_clean")
               /\ UNCHANGED <<rec, fence, lock, target, local, ghost, faults>>

(* The target removes what is terminal; a failed call only defers it. *)
Cleaned == IF dst \in {"complete", "failed"} THEN "none" ELSE dst

Cleanup(p) == /\ pc[p] = "f_clean" /\ Ends(p)
              /\ \/ dst' = Cleaned /\ UNCHANGED faults
                 \/ Fault /\ UNCHANGED dst
              /\ UNCHANGED <<rec, summ, fence, request, dack, sup, cmd, legible, local, ghost>>

LowerUnstarted(p) == /\ pc[p] = "n_fence" /\ fence' = IF fence = "R" THEN "none" ELSE fence
                     /\ Go(p, "n_note")
                     /\ UNCHANGED <<rec, summ, lock, target, local, ghost, faults>>

NoteUnstarted(p) == /\ pc[p] = "n_note" /\ summ' = "not_started"
                    /\ IF bound[p] THEN Go(p, "f_clean") /\ UNCHANGED lock ELSE Ends(p)
                    /\ UNCHANGED <<rec, fence, target, local, ghost, faults>>

Finalize(p) == \/ AlreadyDone(p) \/ Fetch(p) \/ FetchFails(p) \/ NoteComplete(p)
               \/ Pull(p) \/ PullFails(p) \/ Checkpoint(p) \/ LowerFence(p) \/ NoteDone(p)
               \/ Cleanup(p) \/ LowerUnstarted(p) \/ NoteUnstarted(p)

----------------------------------------------------------------------------
(* Resume: the saved record must still describe this project, then the     *)
(* summary decides, then the fence, then the lock, then the target.        *)
LoadRecord(p) == /\ pc[p] = "idle" /\ p \in Resumers /\ rec # "none"
                 /\ bound' = [bound EXCEPT ![p] = (rec = "bound")]
                 /\ Go(p, "r_read")
                 /\ UNCHANGED <<disk, target, st, ackd, own, ghost, faults>>

(* Mutant: a failed finalization is taken for a checkpointed one. *)
ReadSummaryAny(p) == /\ pc[p] = "r_read"
                     /\ Go(p, IF summ = "complete" THEN "f_clean"
                              ELSE IF summ \in {"finalization_complete", "finalization_failed"}
                                   THEN "c_fence" ELSE "r_fence")
                     /\ UNCHANGED <<disk, target, local, ghost, faults>>

ReadSummary(p) == /\ pc[p] = "r_read"
                  /\ Go(p, IF summ = "complete" THEN "f_clean"
                           ELSE IF summ = "finalization_complete" THEN "c_fence"
                           ELSE "r_fence")
                  /\ UNCHANGED <<disk, target, local, ghost, faults>>

(* A checkpointed run needs no lock: only its last writes are missing. *)
RecoverFence(p) == /\ pc[p] = "c_fence"
                   /\ IF fence = "other" THEN Ends(p) /\ UNCHANGED <<rec, summ, fence>>
                      ELSE fence' = "none" /\ Go(p, "f_done") /\ UNCHANGED <<rec, summ, lock>>
                   /\ UNCHANGED <<target, local, ghost, faults>>

CheckFence(p) == /\ pc[p] = "r_fence"
                 /\ Go(p, IF fence = "R" THEN "r_lock" ELSE "idle")
                 /\ UNCHANGED <<disk, target, local, ghost, faults>>

(* The lock of a dead process of this very run is taken over. *)
(* Mutant: the dead launcher's lock stays in the way. *)
AdoptableFree == lock = "free"

Adoptable == lock \in {"free", "dead"}

TakeLock(p) == /\ pc[p] = "r_lock"
               /\ IF Adoptable THEN lock' = p /\ Go(p, "r_status")
                  ELSE UNCHANGED lock /\ Go(p, "idle")
               /\ UNCHANGED <<rec, summ, fence, target, local, ghost, faults>>

FirstStatus(p) == /\ pc[p] = "r_status" /\ StatusCall(p)
                  /\ ackd' = [ackd EXCEPT ![p] = dack]
                  /\ own' = [own EXCEPT ![p] = FALSE]
                  /\ Shows(p, dack)
                  /\ Go(p, "poll")
                  /\ UNCHANGED <<disk, bound, pulls, resolved, faults>>
FirstStatusFails(p) == /\ pc[p] = "r_status" /\ Ends(p)
                       /\ IF dst = "none" THEN UNCHANGED faults ELSE Fault
                       /\ UNCHANGED <<rec, summ, fence, target, local, ghost>>

Resume(p) == \/ LoadRecord(p) \/ ReadSummary(p) \/ RecoverFence(p) \/ CheckFence(p)
             \/ TakeLock(p) \/ FirstStatus(p) \/ FirstStatusFails(p)

Poll(p) == \/ Detach(p) \/ PollDone(p) \/ PollFailed(p) \/ OwnerFound(p) \/ OwnerAbsent(p)
           \/ OwnerUnreachable(p) \/ Leaves(p) \/ PollStatus(p) \/ PollCutOff(p)

Launch == \/ SaveRecord \/ RaiseFence \/ NoteUnknown \/ Refused \/ Send \/ Reply \/ NoReply
          \/ AskAcked \/ AskNotAcked \/ AskFails \/ Bind

(* SIGKILL, or Ctrl-C, between any two steps. *)
Busy(p) == pc[p] \notin {"idle", "over"}

Killed(p) == /\ Busy(p) /\ Fault
             /\ Go(p, IF p = "launch" THEN "over" ELSE "idle")
             /\ lock' = IF lock = p THEN "dead" ELSE lock
             /\ UNCHANGED <<rec, summ, fence, target, local, ghost>>

Interrupted(p) == /\ Busy(p) /\ Fault /\ summ' = OnInterrupt(p) /\ Ends(p)
                  /\ UNCHANGED <<rec, fence, target, local, ghost>>

----------------------------------------------------------------------------
(* The target. *)
RunLimit == dst = "none"

LaunchArrives == /\ request /\ RunLimit
                 /\ request' = FALSE /\ dst' = "launching" /\ dack' = FALSE /\ sup' = "starting"
                 /\ UNCHANGED <<disk, cmd, legible, pc, local, ghost, faults>>
LaunchRefused == /\ request /\ Fault /\ request' = FALSE
                 /\ UNCHANGED <<disk, dst, dack, sup, cmd, legible, pc, local, ghost>>

SupStarts == /\ sup = "starting" /\ sup' = "alive" /\ dst' = "pending" /\ dack' = FALSE
             /\ UNCHANGED <<disk, request, cmd, legible, pc, local, ghost, faults>>
SupSpawns == /\ sup = "alive" /\ dst = "pending" /\ cmd = "none" /\ cmd' = "wrapped"
             /\ UNCHANGED <<disk, request, dst, dack, sup, legible, pc, local, ghost, faults>>
CmdStarts == /\ cmd = "wrapped" /\ cmd' = "running"
             /\ UNCHANGED <<disk, request, dst, dack, sup, legible, pc, local, ghost, faults>>
CmdNever == /\ cmd = "wrapped" /\ cmd' = "never"
            /\ UNCHANGED <<disk, request, dst, dack, sup, legible, pc, local, ghost, faults>>
CmdEnds == /\ cmd \in {"running", "survivor"} /\ cmd' = "ended"
           /\ UNCHANGED <<disk, request, dst, dack, sup, legible, pc, local, ghost, faults>>

(* The wrapper the supervisor waits for ends before the command it wraps:  *)
(* it is killed, or its guard gives up on processes it cannot end.         *)
WrapperGone == /\ cmd \in {"wrapped", "running"} /\ Fault /\ cmd' = "survivor"
               /\ UNCHANGED <<disk, request, dst, dack, sup, legible, pc, local, ghost>>

(* The ready file names the running command. *)
SupAcks == /\ sup = "alive" /\ dst = "pending" /\ cmd \in {"running", "survivor", "ended"}
           /\ dst' = "running" /\ dack' = TRUE
           /\ UNCHANGED <<disk, request, sup, cmd, legible, pc, local, ghost, faults>>

(* The wrapper has ended and the pipes are closed; the command is not      *)
(* looked at.  The ready file is, but a survivor may still be writing it.  *)
SupCompletes == /\ sup = "alive" /\ dst \in {"pending", "running"}
                /\ cmd \in Over \cup {"survivor"}
                /\ dst' = "complete" /\ sup' = "gone" /\ legible' \in BOOLEAN
                /\ \/ dack' = (dack \/ cmd = "ended")
                   \/ cmd = "survivor" /\ dack' = TRUE
                /\ UNCHANGED <<disk, request, cmd, pc, local, ghost, faults>>
SupFails == /\ sup = "alive" /\ Fault /\ dst' = "failed" /\ sup' = "gone"
            /\ UNCHANGED <<disk, request, dack, cmd, legible, pc, local, ghost>>
SupKilled == /\ sup \in {"starting", "alive"} /\ Fault /\ sup' = "gone"
             /\ UNCHANGED <<disk, request, dst, dack, cmd, legible, pc, local, ghost>>

Supervisor == SupStarts \/ SupSpawns \/ SupAcks \/ SupCompletes \/ SupFails \/ SupKilled

----------------------------------------------------------------------------
(* The rest of the project. *)
OtherStarts == /\ lock = "free" /\ fence = "none"
               /\ lock' = "other" /\ fence' = "other"
               /\ UNCHANGED <<rec, summ, target, pc, local, ghost, faults>>
OtherEnds == /\ lock = "other" /\ lock' = "free" /\ fence' = "none"
             /\ UNCHANGED <<rec, summ, target, pc, local, ghost, faults>>

(* What the operator vouches for with --confirmed-ended.  The code checks  *)
(* nothing of it: that nothing of the run is left, and that no launcher is *)
(* about to send it, is an assumption about the operator.                  *)
ConfirmedEnded == /\ ~request /\ sup \notin {"starting", "alive"} /\ ~Alive
                  /\ pc["launch"] \notin {"note", "send"}

Resolve == /\ fence = "R" /\ summ # "none" /\ ConfirmedEnded /\ Fault
           /\ fence' = "none" /\ resolved' = TRUE
           /\ UNCHANGED <<rec, summ, lock, target, pc, local, shown, pulls>>

(* Old run directories go, except those an active fence pins. *)
(* Mutant: retention looks at the age of a run only. *)
PinnedNever == FALSE

Pinned == fence = "R"
Prune == /\ ~Pinned /\ pc["launch"] = "over" /\ rec # "none"
         /\ rec' = "none" /\ summ' = "none"
         /\ UNCHANGED <<fence, lock, target, pc, local, ghost, faults>>

Next == \/ Launch
        \/ \E p \in Procs : Poll(p) \/ Finalize(p) \/ Resume(p) \/ Killed(p) \/ Interrupted(p)
        \/ LaunchArrives \/ LaunchRefused \/ Supervisor \/ CmdStarts \/ CmdNever \/ CmdEnds
        \/ WrapperGone \/ OtherStarts \/ OtherEnds \/ Resolve \/ Prune

Spec == Init /\ [][Next]_vars

(* Processes keep running, the user asks for the result again until it is  *)
(* collected, and other runs end.                                          *)
Fairness == /\ \A p \in Procs : WF_vars(Poll(p) \/ Finalize(p) \/ Resume(p))
            /\ WF_vars(Launch) /\ WF_vars(OtherEnds)

FairSpec == Spec /\ Fairness

----------------------------------------------------------------------------
(* The fence is up for as long as R could still be started or its command  *)
(* runs under its wrapper, whatever the controller has lost: no other run  *)
(* of the project is dispatched beside it.  A command that outlived its    *)
(* wrapper is the exception the code makes.                                *)
FenceCoversCommand ==
  (request \/ sup \in {"starting", "alive"} \/ cmd \in {"wrapped", "running"}) => fence = "R"

(* (does not hold, see README: Disagreements)                              *)
(* The same without the exception.                                         *)
FenceCoversSurvivor == Alive => fence = "R"

(* Once the launching command showed durable_acknowledged, and until the  *)
(* fence is lowered, the controller's record is complete enough to finish  *)
(* the run and the target still has its state: the run can be collected.   *)
AckIsCollectable ==
  "run" \in shown /\ fence = "R" => rec = "bound" /\ dst # "none"

(* (does not hold, see README: Disagreements)                              *)
(* The same of a resume that showed it: "resume with the exact run ID".    *)
ResumeAckIsCollectable ==
  "resume" \in shown /\ fence = "R" => rec = "bound" /\ dst # "none"

(* A summary that says complete is true: the command is over, or outlived  *)
(* its wrapper, and its outputs were pulled; one that says not_started     *)
(* never started, and nothing of it is left.                               *)
SummaryIsTrue ==
  /\ summ = "complete" => cmd \in Over \cup {"survivor"} /\ sup = "gone" /\ pulls > 0
  /\ summ = "not_started" => cmd \in {"none", "never"} /\ ~request

(* (does not hold, see README: Disagreements)                              *)
(* A complete summary means that the command is over.                      *)
CompleteMeansOver == summ = "complete" => cmd \in Over

(* The target's only copy of a result is not deleted before its outputs    *)
(* are on the controller, unless the command never started.                *)
ResultOutlivesCollection ==
  [][dst # "none" /\ dst' = "none" => pulls > 0 \/ cmd = "never"]_vars

(* A finished run the user was told about is collected in the end, however *)
(* often the controller was killed, interrupted or cut off on the way,     *)
(* when the target saved a result that finalize_durable_result accepts.    *)
Collected ==
  ("run" \in shown /\ fence = "R" /\ dst = "complete" /\ legible) ~> (fence # "R")

(* (does not hold, see README: Disagreements)                              *)
(* Every finished run is collected in the end.                             *)
CollectedWhatever ==
  ("run" \in shown /\ fence = "R" /\ dst = "complete") ~> (fence # "R")
=============================================================================
