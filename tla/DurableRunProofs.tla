-------------------------- MODULE DurableRunProofs --------------------------
(***************************************************************************)
(* The durable run's promises, for any number of resuming processes and of *)
(* faults.  They rest on one fact: a controller that has seen the target's *)
(* status complete, or read a summary written by one that has, is past a   *)
(* point the target cannot go back from.                                   *)
(***************************************************************************)
EXTENDS DurableRun, TLAPS

(* The launching command's places and those of a resume.                   *)
Finalizing == {"f_read", "f_note", "f_pull", "f_check", "f_fence", "f_done", "f_clean",
               "n_fence", "n_note"}
LaunchPlaces == {"record", "fence", "note", "send", "sent", "ask", "bind", "bind_detach",
                 "poll", "detach", "over"} \cup Finalizing
ResumePlaces == {"idle", "r_read", "c_fence", "r_fence", "r_lock", "r_status", "poll",
                 "detach"} \cup Finalizing
States == {"none", "launching", "pending", "running", "complete", "failed"}

TypeOK ==
  /\ rec \in {"none", "saved", "bound"}
  /\ summ \in {"none", "unknown", "detached", "command_complete", "finalization_failed",
               "finalization_complete", "complete", "not_started", "cancelled",
               "failed_before_completion"}
  /\ fence \in {"none", "R", "other"}
  /\ lock \in {"free", "dead", "other"} \cup Procs
  /\ request \in BOOLEAN /\ dst \in States /\ dack \in BOOLEAN
  /\ sup \in {"none", "starting", "alive", "gone"}
  /\ cmd \in {"none", "wrapped", "running", "survivor", "ended", "never"}
  /\ legible \in BOOLEAN
  /\ pc \in [Procs -> LaunchPlaces \cup ResumePlaces]
  /\ pc["launch"] \in LaunchPlaces
  /\ \A p \in Resumers : pc[p] \in ResumePlaces
  /\ st \in [Procs -> [state : States, ack : BOOLEAN]]
  /\ ackd \in [Procs -> BOOLEAN] /\ own \in [Procs -> BOOLEAN] /\ bound \in [Procs -> BOOLEAN]
  /\ shown \subseteq {"run", "resume"} /\ pulls \in 0..2 /\ resolved \in BOOLEAN
  /\ faults \in 0..MaxFaults

(* Nothing of the run has reached the target; supervisor and wrapper have  *)
(* ended, and the command with them unless it outlived them.               *)
Untouched == ~request /\ sup = "none" /\ cmd = "none"
Done == ~request /\ sup = "gone" /\ cmd \in Over \cup {"survivor"}

(* The launch arrives once, and its status is complete only at the end.    *)
TargetInv ==
  /\ request => sup = "none"
  /\ sup = "none" => dst = "none" /\ cmd = "none"
  /\ sup = "starting" => cmd = "none"
  /\ dst = "complete" => Done
  /\ sup # "none" /\ fence = "R" => dst # "none"

(* The launcher holds the lock, then the fence, before it sends anything;  *)
(* it shows an acknowledgement only after it has bound the record.         *)
LaunchInv ==
  /\ pc["launch"] \in {"record", "fence", "note", "send"} =>
       Untouched /\ lock = "launch" /\ ~bound["launch"]
  /\ pc["launch"] \in {"note", "send"} => fence = "R"
  /\ pc["launch"] \in {"bind", "bind_detach", "poll"} => sup # "none"
  /\ pc["launch"] = "poll" => rec = "bound"
  /\ lock = "other" => fence # "R"
  /\ "run" \in shown => sup # "none" /\ (fence = "R" => rec = "bound")

(* What a process knows of the run by the place it has reached.            *)
PlaceInv(p) ==
  /\ st[p].state = "complete" => Done
  /\ pc[p] \in {"f_read", "f_note", "f_pull"} => Done
  /\ pc[p] \in {"c_fence", "f_check", "f_fence", "f_done"} => Done /\ pulls > 0
  /\ pc[p] = "f_clean" => Done /\ (pulls > 0 \/ cmd = "never")
  /\ pc[p] \in {"n_fence", "n_note"} =>
       (p = "launch" /\ Untouched /\ ~bound[p]) \/ (Done /\ cmd = "never")
  /\ pc[p] \in {"f_done", "f_clean", "n_note"} => fence # "R"

(* What a later resume may conclude from the summary.                      *)
SummaryInv ==
  /\ summ \in {"finalization_complete", "complete"} => Done /\ pulls > 0
  /\ summ = "complete" => fence # "R"
  /\ summ = "not_started" =>
       (pc["launch"] = "over" /\ Untouched) \/ (Done /\ cmd = "never")

IInv == /\ TypeOK /\ TargetInv /\ LaunchInv /\ SummaryInv /\ FenceCoversCommand
        /\ \A p \in Procs : PlaceInv(p)

\* The launcher holds the project lock and has done nothing else.
LEMMA InvInit == Init => IInv
<1> SUFFICES ASSUME Init PROVE IInv
  OBVIOUS
<1> USE ConstAssumption DEF Init, Procs
<1>1. TypeOK
  <2>1. /\ request \in BOOLEAN /\ dack \in BOOLEAN /\ resolved \in BOOLEAN
        /\ ackd \in [Procs -> BOOLEAN] /\ own \in [Procs -> BOOLEAN]
        /\ bound \in [Procs -> BOOLEAN]
    BY Zenon
  <2>2. NoStatus \in [state : States, ack : BOOLEAN]
    BY DEF NoStatus, States
  <2>3. st \in [Procs -> [state : States, ack : BOOLEAN]]
    BY <2>2
  <2>4. /\ pc \in [Procs -> LaunchPlaces \cup ResumePlaces]
        /\ pc["launch"] \in LaunchPlaces
        /\ \A p \in Resumers : pc[p] \in ResumePlaces
    BY DEF LaunchPlaces, ResumePlaces
  <2>5. /\ rec \in {"none", "saved", "bound"} /\ fence \in {"none", "R", "other"}
        /\ lock \in {"free", "dead", "other"} \cup Procs
        /\ shown \subseteq {"run", "resume"} /\ pulls \in 0..2 /\ faults \in 0..MaxFaults
    OBVIOUS
  <2>6. QED
    BY <2>1, <2>3, <2>4, <2>5 DEF TypeOK, States
<1>2. TargetInv /\ LaunchInv /\ SummaryInv /\ FenceCoversCommand
  BY DEF TargetInv, LaunchInv, SummaryInv, FenceCoversCommand, Untouched, Done, Over
<1>3. \A p \in Procs : PlaceInv(p)
  BY DEF PlaceInv, Untouched, Done, NoStatus
<1>4. QED
  BY <1>1, <1>2, <1>3 DEF IInv

\* Steps of _run_durable_locked in the launching command.
LEMMA LaunchStep ==
  ASSUME IInv, Launch
  PROVE  IInv'
<1> USE ConstAssumption DEF IInv, TypeOK, TargetInv, LaunchInv, SummaryInv, FenceCoversCommand,
        PlaceInv, Untouched, Done, Over, Procs, Go, Ends, Unlocked, Fault, disk, target, local,
        ghost, LaunchPlaces, ResumePlaces, Finalizing, States, Unfinished
<1>1. CASE SaveRecord
  BY <1>1 DEF SaveRecord
<1>2. CASE RaiseFence
  BY <1>2 DEF RaiseFence
<1>3. CASE NoteUnknown
  BY <1>3 DEF NoteUnknown
<1>4. CASE Refused
  BY <1>4 DEF Refused
<1>5. CASE Send
  BY <1>5 DEF Send
<1>6. CASE Reply
  BY <1>6 DEF Reply
<1>7. CASE NoReply
  BY <1>7 DEF NoReply
<1>8. CASE AskAcked
  BY <1>8 DEF AskAcked, StatusCall, Judged
<1>9. CASE AskNotAcked
  BY <1>9 DEF AskNotAcked, StatusCall, Judged, GivesUp
<1>10. CASE AskFails
  BY <1>10 DEF AskFails, GivesUp
<1>11. CASE Bind
  BY <1>11 DEF Bind, Shows
<1>12. QED
  BY <1>1, <1>2, <1>3, <1>4, <1>5, <1>6, <1>7, <1>8, <1>9, <1>10, <1>11 DEF Launch

\* Steps of _poll_durable, of the launcher or of a resume.
LEMMA PollStep ==
  ASSUME IInv, NEW p \in Procs, Poll(p)
  PROVE  IInv'
<1> USE ConstAssumption DEF IInv, TypeOK, TargetInv, LaunchInv, SummaryInv, FenceCoversCommand,
        PlaceInv, Untouched, Done, Over, Procs, Go, Ends, Unlocked, Fault, disk, target, local,
        ghost, LaunchPlaces, ResumePlaces, Finalizing, States, Unfinished
<1>1. CASE Detach(p)
  BY <1>1 DEF Detach
<1>2. CASE PollDone(p)
  BY <1>2 DEF PollDone
<1>3. CASE PollFailed(p)
  BY <1>3 DEF PollFailed, PollUnknown
<1>4. CASE OwnerFound(p)
  BY <1>4 DEF OwnerFound, NeedsOwner
<1>5. CASE OwnerAbsent(p)
  <2>1. CASE Judged = "complete"
    BY <1>5, <2>1 DEF OwnerAbsent, NeedsOwner, StatusCall, Judged
  <2>2. CASE Judged # "complete"
    <3>1. /\ StatusCall(p) /\ PollUnknown(p) /\ UNCHANGED <<ackd, own, bound, ghost, faults>>
          /\ pc[p] = "poll"
      BY <1>5, <2>2, Zenon DEF OwnerAbsent
    <3>2. QED
      BY <3>1, <2>2 DEF StatusCall, Judged, PollUnknown
  <2>3. QED
    BY <2>1, <2>2
<1>6. CASE OwnerUnreachable(p)
  BY <1>6 DEF OwnerUnreachable, NeedsOwner
<1>7. CASE Leaves(p)
  BY <1>7 DEF Leaves, NeedsOwner
<1>8. CASE PollStatus(p)
  BY <1>8 DEF PollStatus, NeedsOwner, StatusCall, Judged, Shows
<1>9. CASE PollCutOff(p)
  <2>1. CASE ackd[p]
    <3>1. /\ pc[p] = "poll" /\ Fault /\ Go(p, "detach")
          /\ UNCHANGED <<disk, target, local, ghost>>
      BY <1>9, <2>1, Zenon DEF PollCutOff
    <3>2. QED
      BY <3>1
  <2>2. CASE ~ackd[p]
    <3>1. pc[p] = "poll" /\ Fault /\ PollUnknown(p) /\ UNCHANGED <<target, local, ghost>>
      BY <1>9, <2>2, Zenon DEF PollCutOff
    <3>2. QED
      BY <3>1 DEF PollUnknown
  <2>3. QED
    BY <2>1, <2>2
<1>10. QED
  BY <1>1, <1>2, <1>3, <1>4, <1>5, <1>6, <1>7, <1>8, <1>9 DEF Poll

\* Steps of _finalize_durable_run: most of PlaceInv is about these.
LEMMA FinalizeStep ==
  ASSUME IInv, NEW p \in Procs, Finalize(p)
  PROVE  IInv'
<1> USE ConstAssumption DEF IInv, TypeOK, TargetInv, LaunchInv, SummaryInv, FenceCoversCommand,
        PlaceInv, Untouched, Done, Over, Procs, Go, Ends, Unlocked, Fault, disk, target, local,
        ghost, LaunchPlaces, ResumePlaces, Finalizing, States, Unfinished
<1>1. CASE AlreadyDone(p)
  BY <1>1 DEF AlreadyDone
<1>2. CASE Fetch(p)
  <2>1. CASE Go(p, "f_note")
    BY <1>2, <2>1 DEF Fetch, StatusCall, Judged
  <2>2. CASE cmd = "never" /\ Go(p, "n_fence")
    BY <1>2, <2>2 DEF Fetch, StatusCall, Judged
  <2>3. QED
    BY <1>2, <2>1, <2>2 DEF Fetch
<1>3. CASE FetchFails(p)
  BY <1>3 DEF FetchFails, Raises, OnException
<1>4. CASE NoteComplete(p)
  BY <1>4 DEF NoteComplete
<1>5. CASE Pull(p)
  BY <1>5 DEF Pull
<1>6. CASE PullFails(p)
  BY <1>6 DEF PullFails
<1>7. CASE Checkpoint(p)
  BY <1>7 DEF Checkpoint
<1>8. CASE LowerFence(p)
  <2>1. CASE fence = "R"
    <3>1. /\ pc[p] = "f_fence" /\ fence' = "none" /\ Go(p, "f_done")
          /\ UNCHANGED <<rec, summ, lock, target, local, ghost, faults>>
      BY <1>8, <2>1, Zenon DEF LowerFence
    <3>2. QED
      BY <3>1
  <2>2. CASE fence # "R"
    <3>1. pc[p] = "f_fence" /\ Raises(p) /\ UNCHANGED <<target, local, ghost, faults>>
      BY <1>8, <2>2, Zenon DEF LowerFence
    <3>2. QED
      BY <3>1 DEF Raises, OnException
  <2>3. QED
    BY <2>1, <2>2
<1>9. CASE NoteDone(p)
  BY <1>9 DEF NoteDone
<1>10. CASE Cleanup(p)
  BY <1>10 DEF Cleanup, Cleaned
<1>11. CASE LowerUnstarted(p)
  BY <1>11 DEF LowerUnstarted
<1>12. CASE NoteUnstarted(p)
  <2>1. CASE bound[p]
    <3>1. /\ pc[p] = "n_note" /\ summ' = "not_started" /\ Go(p, "f_clean")
          /\ UNCHANGED <<rec, fence, lock, target, local, ghost, faults>>
      BY <1>12, <2>1, Zenon DEF NoteUnstarted
    <3>2. QED
      BY <2>1, <3>1
  <2>2. CASE ~bound[p]
    <3>1. /\ pc[p] = "n_note" /\ summ' = "not_started" /\ Ends(p)
          /\ UNCHANGED <<rec, fence, target, local, ghost, faults>>
      BY <1>12, <2>2, Zenon DEF NoteUnstarted
    <3>2. QED
      BY <2>2, <3>1
  <2>3. QED
    BY <2>1, <2>2
<1>13. QED
  BY <1>1, <1>2, <1>3, <1>4, <1>5, <1>6, <1>7, <1>8, <1>9, <1>10, <1>11, <1>12 DEF Finalize

\* Steps of a resume up to its first status, and the end of any process.
LEMMA ResumeStep ==
  ASSUME IInv, NEW p \in Procs, Resume(p) \/ Killed(p) \/ Interrupted(p)
  PROVE  IInv'
<1> USE ConstAssumption DEF IInv, TypeOK, TargetInv, LaunchInv, SummaryInv, FenceCoversCommand,
        PlaceInv, Untouched, Done, Over, Procs, Go, Ends, Unlocked, Fault, disk, target, local,
        ghost, LaunchPlaces, ResumePlaces, Finalizing, States, Unfinished
<1>1. CASE LoadRecord(p)
  BY <1>1 DEF LoadRecord
<1>2. CASE ReadSummary(p)
  BY <1>2 DEF ReadSummary
<1>3. CASE RecoverFence(p)
  <2>1. CASE fence = "other"
    <3>1. /\ pc[p] = "c_fence" /\ Ends(p)
          /\ UNCHANGED <<rec, summ, fence, target, local, ghost, faults>>
      BY <1>3, <2>1, Zenon DEF RecoverFence
    <3>2. QED
      BY <3>1
  <2>2. CASE fence # "other"
    <3>1. /\ pc[p] = "c_fence" /\ fence' = "none" /\ Go(p, "f_done")
          /\ UNCHANGED <<rec, summ, lock, target, local, ghost, faults>>
      BY <1>3, <2>2, Zenon DEF RecoverFence
    <3>2. QED
      BY <3>1
  <2>3. QED
    BY <2>1, <2>2
<1>4. CASE CheckFence(p)
  BY <1>4 DEF CheckFence
<1>5. CASE TakeLock(p)
  <2>1. CASE Adoptable
    <3>1. /\ pc[p] = "r_lock" /\ lock' = p /\ Go(p, "r_status")
          /\ UNCHANGED <<rec, summ, fence, target, local, ghost, faults>>
      BY <1>5, <2>1, Zenon DEF TakeLock
    <3>2. QED
      BY <2>1, <3>1 DEF Adoptable
  <2>2. CASE ~Adoptable
    <3>1. /\ pc[p] = "r_lock" /\ Go(p, "idle")
          /\ UNCHANGED <<disk, target, local, ghost, faults>>
      BY <1>5, <2>2, Zenon DEF TakeLock
    <3>2. QED
      BY <3>1
  <2>3. QED
    BY <2>1, <2>2
<1>6. CASE FirstStatus(p)
  BY <1>6 DEF FirstStatus, StatusCall, Judged, Shows
<1>7. CASE FirstStatusFails(p)
  BY <1>7 DEF FirstStatusFails
<1>8. CASE Killed(p)
  BY <1>8 DEF Killed, Busy
<1>9. CASE Interrupted(p)
  BY <1>9 DEF Interrupted, Busy, OnInterrupt
<1>10. QED
  BY <1>1, <1>2, <1>3, <1>4, <1>5, <1>6, <1>7, <1>8, <1>9 DEF Resume

\* Steps of the target, of other runs, of the operator and of retention.
LEMMA TargetStep ==
  ASSUME IInv, \/ LaunchArrives \/ LaunchRefused \/ Supervisor \/ CmdStarts \/ CmdNever \/ CmdEnds
               \/ WrapperGone \/ OtherStarts \/ OtherEnds \/ Resolve \/ Prune
  PROVE  IInv'
<1> USE ConstAssumption DEF IInv, TypeOK, TargetInv, LaunchInv, SummaryInv, FenceCoversCommand,
        PlaceInv, Untouched, Done, Over, Procs, Go, Ends, Unlocked, Fault, disk, target, local,
        ghost, LaunchPlaces, ResumePlaces, Finalizing, States, Unfinished
<1>1. CASE LaunchArrives
  <2>1. /\ request /\ dst = "none" /\ ~request' /\ request' \in BOOLEAN
        /\ dst' = "launching" /\ dack' \in BOOLEAN /\ sup' = "starting"
        /\ UNCHANGED <<disk, cmd, legible, pc, local, ghost, faults>>
    BY <1>1, Zenon DEF LaunchArrives, RunLimit
  <2>2. QED
    BY <2>1
<1>2. CASE LaunchRefused
  <2>1. /\ Fault /\ ~request' /\ request' \in BOOLEAN
        /\ UNCHANGED <<disk, dst, dack, sup, cmd, legible, pc, local, ghost>>
    BY <1>2, Zenon DEF LaunchRefused
  <2>2. QED
    BY <2>1
<1>3. CASE SupStarts
  <2>1. /\ sup = "starting" /\ sup' = "alive" /\ dst' = "pending" /\ dack' \in BOOLEAN
        /\ UNCHANGED <<disk, request, cmd, legible, pc, local, ghost, faults>>
    BY <1>3, Zenon DEF SupStarts
  <2>2. QED
    BY <2>1
<1>4. CASE SupSpawns
  BY <1>4 DEF SupSpawns
<1>5. CASE CmdStarts
  BY <1>5 DEF CmdStarts
<1>6. CASE CmdNever
  BY <1>6 DEF CmdNever
<1>7. CASE CmdEnds
  BY <1>7 DEF CmdEnds
<1>8. CASE SupAcks
  BY <1>8 DEF SupAcks
<1>9. CASE SupCompletes
  <2>1. dack' \in BOOLEAN /\ legible' \in BOOLEAN
    BY <1>9, Zenon DEF SupCompletes
  <2>2. /\ sup = "alive" /\ cmd \in Over \cup {"survivor"} /\ dst' = "complete" /\ sup' = "gone"
        /\ UNCHANGED <<disk, request, cmd, pc, local, ghost, faults>>
    BY <1>9, Zenon DEF SupCompletes
  <2>3. QED
    BY <2>1, <2>2
<1>10. CASE SupFails
  BY <1>10 DEF SupFails
<1>11. CASE SupKilled
  BY <1>11 DEF SupKilled
<1>12. CASE OtherStarts
  BY <1>12 DEF OtherStarts
<1>13. CASE OtherEnds
  BY <1>13 DEF OtherEnds
<1>14. CASE Resolve
  BY <1>14 DEF Resolve, ConfirmedEnded, Alive
<1>15. CASE Prune
  BY <1>15 DEF Prune, Pinned
<1>16. CASE WrapperGone
  BY <1>16 DEF WrapperGone
<1>17. QED
  BY <1>1, <1>2, <1>3, <1>4, <1>5, <1>6, <1>7, <1>8, <1>9, <1>10, <1>11, <1>12, <1>13, <1>14, <1>15,
     <1>16 DEF Supervisor

\* The inductive step, from the five lemmas above.
LEMMA InvStep == IInv /\ [Next]_vars => IInv'
<1> SUFFICES ASSUME IInv, [Next]_vars PROVE IInv'
  OBVIOUS
<1>1. ASSUME Launch PROVE IInv'
  BY <1>1, LaunchStep
<1>2. ASSUME NEW p \in Procs, Poll(p) PROVE IInv'
  BY <1>2, PollStep
<1>3. ASSUME NEW p \in Procs, Finalize(p) PROVE IInv'
  BY <1>3, FinalizeStep
<1>4. ASSUME NEW p \in Procs, Resume(p) \/ Killed(p) \/ Interrupted(p) PROVE IInv'
  BY <1>4, ResumeStep
<1>5. ASSUME LaunchArrives \/ LaunchRefused \/ Supervisor \/ CmdStarts \/ CmdNever \/ CmdEnds
             \/ WrapperGone \/ OtherStarts \/ OtherEnds \/ Resolve \/ Prune
      PROVE IInv'
  BY <1>5, TargetStep
<1>6. CASE UNCHANGED vars
  BY <1>6 DEF vars, disk, target, local, ghost, IInv, TypeOK, TargetInv, LaunchInv, SummaryInv,
     FenceCoversCommand, PlaceInv, Untouched, Done
<1>7. QED
  BY <1>1, <1>2, <1>3, <1>4, <1>5, <1>6 DEF Next

\* IInv holds in every reachable state.
LEMMA Invariance == Spec => []IInv
BY InvInit, InvStep, PTL DEF Spec

\* No other run of the project is dispatched while R's command runs under its
\* wrapper or could still be started: every step that lowers the fence (_finalize_durable_run,
\* the recovery of a checkpointed run, resolve-unknown, the end of another run)
\* is taken by someone who knows that supervisor and wrapper are past their end.
THEOREM FenceIsSafe == Spec => []FenceCoversCommand
<1>1. IInv => FenceCoversCommand
  BY DEF IInv
<1>2. QED
  BY <1>1, Invariance, PTL

\* A run whose acknowledgement was shown by the launching command can be
\* collected for as long as its fence is up: the record was bound first, and
\* neither retention nor any cleanup reaches it before the fence is lowered.
THEOREM AcknowledgedIsCollectable == Spec => []AckIsCollectable
<1>1. IInv => AckIsCollectable
  BY DEF IInv, TargetInv, LaunchInv, AckIsCollectable
<1>2. QED
  BY <1>1, Invariance, PTL

\* summary.json says complete only when supervisor and wrapper are gone and the
\* outputs were pulled, not_started only of a command that never started and has
\* no launch on its way, whichever of several processes wrote it last.
THEOREM SummaryTells == Spec => []SummaryIsTrue
<1>1. IInv => SummaryIsTrue
  BY DEF IInv, SummaryInv, SummaryIsTrue, Untouched, Done
<1>2. QED
  BY <1>1, Invariance, PTL

\* The target's only copy of a result goes after the outputs were pulled, or
\* for a command that never started: only the cleanup removes it, and no process
\* gets there before (status calls rewrite the state but never delete it).
THEOREM ResultIsKept == Spec => ResultOutlivesCollection
<1> DEFINE A == dst # "none" /\ dst' = "none" => pulls > 0 \/ cmd = "never"
<1>1. ASSUME IInv, [Next]_vars PROVE A
  <2>1. ASSUME NEW p \in Procs, Cleanup(p) PROVE A
    BY <1>1, <2>1 DEF Cleanup, IInv, PlaceInv, Done
  <2>2. ASSUME dst' = dst PROVE A
    BY <2>2
  <2>3. ASSUME dst' \in {Judged, "launching", "pending", "running", "complete", "failed"} PROVE A
    BY <2>3 DEF Judged
  <2>4. ASSUME Launch PROVE A
    BY <2>2, <2>3, <2>4 DEF Launch, SaveRecord, RaiseFence, NoteUnknown, Refused, Send, Reply,
       NoReply, AskAcked, AskNotAcked, AskFails, Bind, StatusCall, target
  <2>5. ASSUME NEW p \in Procs, Poll(p) PROVE A
    BY <2>2, <2>3, <2>5 DEF Poll, Detach, PollDone, PollFailed, OwnerFound, OwnerAbsent,
       OwnerUnreachable, Leaves, PollStatus, PollCutOff, StatusCall, target
  <2>6. ASSUME NEW p \in Procs, Finalize(p) PROVE A
    BY <2>1, <2>2, <2>3, <2>6 DEF Finalize, AlreadyDone, Fetch, FetchFails, NoteComplete, Pull,
       PullFails, Checkpoint, LowerFence, NoteDone, LowerUnstarted, NoteUnstarted, StatusCall,
       target
  <2>7. ASSUME NEW p \in Procs, Resume(p) \/ Killed(p) \/ Interrupted(p) PROVE A
    BY <2>2, <2>3, <2>7 DEF Resume, LoadRecord, ReadSummary, RecoverFence, CheckFence, TakeLock,
       FirstStatus, FirstStatusFails, Killed, Interrupted, StatusCall, target
  <2>8. ASSUME LaunchArrives \/ LaunchRefused \/ Supervisor \/ CmdStarts \/ CmdNever \/ CmdEnds
               \/ WrapperGone
        PROVE A
    BY <2>2, <2>3, <2>8 DEF LaunchArrives, LaunchRefused, Supervisor, SupStarts, SupSpawns,
       SupAcks, SupCompletes, SupFails, SupKilled, CmdStarts, CmdNever, CmdEnds, WrapperGone
  <2>9. ASSUME OtherStarts \/ OtherEnds \/ Resolve \/ Prune \/ UNCHANGED vars PROVE A
    BY <2>2, <2>9 DEF OtherStarts, OtherEnds, Resolve, Prune, vars, target
  <2>10. QED
    BY <1>1, <2>4, <2>5, <2>6, <2>7, <2>8, <2>9 DEF Next
<1>2. QED
  BY <1>1, Invariance, PTL DEF Spec, ResultOutlivesCollection
=============================================================================
