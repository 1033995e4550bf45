------------------------- MODULE RunLifecycleProofs -------------------------
(***************************************************************************)
(* For any number of controller processes and candidates: at most one      *)
(* command of a project runs at a time, and no dispatched command is       *)
(* forgotten.  The lock alone does not give this (it is released when the  *)
(* transport is lost), nor does the hazard check (it precedes the lock):   *)
(* the argument is that the hazard names the run from before the dispatch  *)
(* until its result is on disk, and that a second hazard cannot be         *)
(* written while it does.                                                  *)
(***************************************************************************)
EXTENDS RunLifecycle, ProjectLock, TLAPS

Holding == Locked \cup {"retry", "finish"}
Fenced == {"mark-unknown", "dispatch", "executing", "checkpoint", "unfence"}
Undispatched == Early \cup {"validate", "preflight", "bootstrap", "late-validate",
                            "stage", "fence", "mark-unknown", "dispatch",
                            "not-started", "retry"}

\* Whoever is under the lock holds it.
LockHeld == \A p \in Procs : pc[p] \in Holding => lock = p

\* The hazard names a run from before its dispatch until its checkpoint.
FenceHeld == \A p \in Procs : pc[p] \in Fenced => hazard = run(p)

\* The hazard names any run whose command runs and was not given up on.
FenceCovers == \A r \in Runs : cmd[r] = "running" => hazard = r

\* Attempts that have not reached dispatch have no command.
Undone == \A p \in Procs :
            /\ pc[p] \in Undispatched => cmd[run(p)] = "none"
            /\ \A k \in 1..Candidates : k # att[p] => cmd[<<p, k>>] = "none"

\* Between the fence and the result the receipt says unknown.
Marked == \A p \in Procs :
            /\ pc[p] \in {"dispatch", "executing", "checkpoint"}
                 => summary[run(p)].state = "unknown"
            /\ pc[p] \in {"checkpoint", "unfence", "pullback", "finalize", "report"}
                 => cmd[run(p)] # "running"
            /\ pc[p] \in {"unfence", "pullback", "finalize", "report"}
                 => run(p) \in known /\ summary[run(p)].state # "not_started"

IInv == /\ TypeOK /\ LockHeld /\ FenceHeld /\ FenceCovers /\ Undone /\ Marked
        /\ DispatchedIsAccounted /\ NotStartedIsTrue

\* Receipts have their type, whichever way cmd_run writes them.
LEMMA SumType ==
    ASSUME NEW s \in States, NEW b \in {"false", "null", "true"}
    PROVE  Sum(s, b) \in Summary
  BY DEF Sum, Summary

\* A receipt that cmd_run revises after an exception or an interrupt too.
LEMMA AfterType ==
    ASSUME NEW x \in Summary
    PROVE  AfterException(x) \in Summary /\ AfterInterrupt(x) \in Summary
<1>1. x.state \in States /\ x.started \in {"false", "null", "true"}
  BY DEF Summary
<1>2. {"finalization_failed", "failed_before_completion", "cancelled"} \subseteq States
  BY DEF States
<1>3. AfterException(x) \in Summary
  BY <1>1, <1>2, SumType DEF AfterException
<1>4. AfterInterrupt(x) \in Summary
  BY <1>1, <1>2, SumType DEF AfterInterrupt
<1>5. QED
  BY <1>3, <1>4

\* Neither revision invents a not_started.
LEMMA AfterKeeps ==
    ASSUME NEW x \in Summary
    PROVE  AfterException(x).state # "not_started" /\ AfterInterrupt(x).state # "not_started"
<1>1. AfterException(x).state # "not_started"
  BY DEF AfterException, Sum, Summary
<1>2. AfterInterrupt(x).state # "not_started"
  BY DEF AfterInterrupt, Sum, Summary
<1>3. QED
  BY <1>1, <1>2

\* The current run of a process is a run.
LEMMA RunIn == ASSUME TypeOK, NEW p \in Procs PROVE run(p) \in Runs
  BY DEF TypeOK, run, Runs

\* Every step keeps the types.
LEMMA TypeStep == TypeOK /\ [Next]_vars => TypeOK'
<1> SUFFICES ASSUME TypeOK, [Next]_vars PROVE TypeOK'
  OBVIOUS
<1> USE LifecycleAssumption, RunIn, SumType
    DEF TypeOK, Goto, Step, WriteSummary, Return, Rest, Early, Locked, PCs, States
<1>1. ASSUME NEW p \in Procs, CheckHazard(p) PROVE TypeOK'
  BY <1>1 DEF CheckHazard
<1>2. ASSUME NEW p \in Procs, SelectTargets(p) PROVE TypeOK'
  BY <1>2 DEF SelectTargets
<1>3. ASSUME NEW p \in Procs, BeginAttempt(p) PROVE TypeOK'
  BY <1>3 DEF BeginAttempt
<1>4. ASSUME NEW p \in Procs, Admit(p) PROVE TypeOK'
  BY <1>4 DEF Admit, Attempt, remaining
<1>5. ASSUME NEW p \in Procs, AcquireLock(p) PROVE TypeOK'
  BY <1>5 DEF AcquireLock
<1>6. ASSUME NEW p \in Procs, Validate(p) PROVE TypeOK'
  BY <1>6 DEF Validate
<1>7. ASSUME NEW p \in Procs, Preflight(p) PROVE TypeOK'
  BY <1>7 DEF Preflight
<1>8. ASSUME NEW p \in Procs, RetryNext(p) PROVE TypeOK'
  BY <1>8 DEF RetryNext, ReleaseLock, Attempt, remaining
<1>9. ASSUME NEW p \in Procs, Bootstrap(p) PROVE TypeOK'
  BY <1>9 DEF Bootstrap
<1>10. ASSUME NEW p \in Procs, LateValidate(p) PROVE TypeOK'
  BY <1>10 DEF LateValidate
<1>11. ASSUME NEW p \in Procs, Stage(p) PROVE TypeOK'
  BY <1>11 DEF Stage
<1>12. ASSUME NEW p \in Procs, WriteHazard(p) PROVE TypeOK'
  BY <1>12, AfterType DEF WriteHazard
<1>13. ASSUME NEW p \in Procs, MarkUnknown(p) PROVE TypeOK'
  BY <1>13 DEF MarkUnknown
<1>14. ASSUME NEW p \in Procs, Dispatch(p) PROVE TypeOK'
  BY <1>14 DEF Dispatch
<1>15. ASSUME NEW p \in Procs, ExecResult(p) PROVE TypeOK'
  BY <1>15 DEF ExecResult
<1>16. ASSUME NEW p \in Procs, ExecNotStarted(p) PROVE TypeOK'
  BY <1>16 DEF ExecNotStarted
<1>17. ASSUME NEW p \in Procs, RecordNotStarted(p) PROVE TypeOK'
  BY <1>17 DEF RecordNotStarted
<1>18. ASSUME NEW p \in Procs, Checkpoint(p) PROVE TypeOK'
  BY <1>18 DEF Checkpoint
<1>19. ASSUME NEW p \in Procs, ClearHazard(p) PROVE TypeOK'
  BY <1>19 DEF ClearHazard
<1>20. ASSUME NEW p \in Procs, Pullback(p) PROVE TypeOK'
  <2>1. summary[run(p)].started \in {"false", "null", "true"}
    BY DEF Summary
  <2>2. QED
    BY <1>20, <2>1 DEF Pullback
<1>21. ASSUME NEW p \in Procs, Finalize(p) PROVE TypeOK'
  BY <1>21 DEF Finalize
<1>22. ASSUME NEW p \in Procs, Report(p) PROVE TypeOK'
  BY <1>22 DEF Report
<1>23. ASSUME NEW p \in Procs, Finish(p) PROVE TypeOK'
  BY <1>23 DEF Finish, ReleaseLock
<1>24. ASSUME NEW p \in Procs, ExecLost(p) PROVE TypeOK'
  BY <1>24 DEF ExecLost
<1>25. ASSUME NEW p \in Procs, Fail(p) PROVE TypeOK'
  BY <1>25, AfterType DEF Fail
<1>26. ASSUME NEW p \in Procs, Interrupt(p) PROVE TypeOK'
  BY <1>26, AfterType DEF Interrupt
<1>27. ASSUME NEW p \in Procs, Kill(p) PROVE TypeOK'
  BY <1>27 DEF Kill
<1>28. ASSUME NEW p \in Procs, RemoveStaleLock(p) PROVE TypeOK'
  BY <1>28 DEF RemoveStaleLock, Gone, Alive
<1>29. ASSUME NEW r \in Runs, CommandEnds(r) PROVE TypeOK'
  BY <1>29 DEF CommandEnds, Alive
<1>30. ASSUME NEW r \in Runs, ResolveUnknown(r) PROVE TypeOK'
  BY <1>30 DEF ResolveUnknown, Alive
<1>31. ASSUME NEW p \in Procs, ExecResultSurvived(p) PROVE TypeOK'
  BY <1>31 DEF ExecResultSurvived
<1>32. CASE UNCHANGED vars
  BY <1>32 DEF vars
<1>33. QED
  BY <1>1, <1>2, <1>3, <1>4, <1>5, <1>6, <1>7, <1>8, <1>9, <1>10, <1>11,
     <1>12, <1>13, <1>14, <1>15, <1>16, <1>17, <1>18, <1>19, <1>20, <1>21,
     <1>22, <1>23, <1>24, <1>25, <1>26, <1>27, <1>28, <1>29, <1>30, <1>31, <1>32
     DEF Next, Proceed, Execute

\* The invariant is inductive: one step per action, one below it per part.
LEMMA InvStep == IInv /\ [Next]_vars => IInv'
<1> SUFFICES ASSUME IInv, [Next]_vars PROVE IInv'
  OBVIOUS
<1>0. TypeOK /\ TypeOK'
  BY TypeStep DEF IInv
<1> USE <1>0, LifecycleAssumption
    DEF IInv, TypeOK, run, Runs, Goto, Step, WriteSummary, Return, Rest, Sum,
        Early, Locked, Holding, Fenced, Undispatched
<1>1. ASSUME NEW p \in Procs, CheckHazard(p) PROVE IInv'
  <2>1. (LockHeld /\ FenceHeld /\ FenceCovers /\ Undone /\ Marked /\
      DispatchedIsAccounted /\ NotStartedIsTrue)'
    BY <1>1 DEF CheckHazard, LockHeld, FenceHeld, FenceCovers, Undone, Marked,
       DispatchedIsAccounted, NotStartedIsTrue
  <2>2. QED
    BY <2>1
<1>2. ASSUME NEW p \in Procs, SelectTargets(p) PROVE IInv'
  <2>1. (LockHeld /\ FenceHeld /\ FenceCovers /\ Undone /\ Marked /\
      NotStartedIsTrue)'
    BY <1>2 DEF SelectTargets, LockHeld, FenceHeld, FenceCovers, Undone,
       Marked, NotStartedIsTrue
  <2>2. DispatchedIsAccounted'
    BY <1>2 DEF SelectTargets, DispatchedIsAccounted, Undone
  <2>3. QED
    BY <2>1, <2>2
<1>3. ASSUME NEW p \in Procs, BeginAttempt(p) PROVE IInv'
  <2>1. (LockHeld /\ FenceHeld /\ FenceCovers /\ Undone /\ Marked)'
    BY <1>3 DEF BeginAttempt, LockHeld, FenceHeld, FenceCovers, Undone, Marked
  <2>2. DispatchedIsAccounted'
    BY <1>3 DEF BeginAttempt, DispatchedIsAccounted, Undone
  <2>3. NotStartedIsTrue'
    BY <1>3 DEF BeginAttempt, NotStartedIsTrue, Undone
  <2>4. QED
    BY <2>1, <2>2, <2>3
<1>4. ASSUME NEW p \in Procs, Admit(p) PROVE IInv'
  <2>1. (LockHeld /\ FenceHeld /\ FenceCovers /\ Undone /\ Marked /\
      NotStartedIsTrue)'
    BY <1>4 DEF Admit, Attempt, remaining, LockHeld, FenceHeld, FenceCovers,
       Undone, Marked, NotStartedIsTrue
  <2>2. DispatchedIsAccounted'
    BY <1>4 DEF Admit, Attempt, remaining, DispatchedIsAccounted, Undone
  <2>3. QED
    BY <2>1, <2>2
<1>5. ASSUME NEW p \in Procs, AcquireLock(p) PROVE IInv'
  <2>1. (LockHeld /\ FenceHeld /\ FenceCovers /\ Undone /\ Marked /\
      NotStartedIsTrue)'
    BY <1>5 DEF AcquireLock, LockHeld, FenceHeld, FenceCovers, Undone, Marked,
       NotStartedIsTrue
  <2>2. DispatchedIsAccounted'
    BY <1>5 DEF AcquireLock, DispatchedIsAccounted, Undone
  <2>3. QED
    BY <2>1, <2>2
<1>6. ASSUME NEW p \in Procs, Validate(p) PROVE IInv'
  <2>1. (LockHeld /\ FenceHeld /\ FenceCovers /\ Undone /\ Marked)'
    BY <1>6 DEF Validate, LockHeld, FenceHeld, FenceCovers, Undone, Marked
  <2>2. DispatchedIsAccounted'
    BY <1>6 DEF Validate, DispatchedIsAccounted, Undone
  <2>3. NotStartedIsTrue'
    BY <1>6 DEF Validate, NotStartedIsTrue, Undone
  <2>4. QED
    BY <2>1, <2>2, <2>3
<1>7. ASSUME NEW p \in Procs, Preflight(p) PROVE IInv'
  <2>1. (LockHeld /\ FenceHeld /\ FenceCovers /\ Undone /\ Marked)'
    BY <1>7 DEF Preflight, LockHeld, FenceHeld, FenceCovers, Undone, Marked
  <2>2. DispatchedIsAccounted'
    BY <1>7 DEF Preflight, DispatchedIsAccounted, Undone
  <2>3. NotStartedIsTrue'
    BY <1>7 DEF Preflight, NotStartedIsTrue, Undone
  <2>4. QED
    BY <2>1, <2>2, <2>3
<1>8. ASSUME NEW p \in Procs, RetryNext(p) PROVE IInv'
  <2>1. (FenceHeld /\ FenceCovers /\ Marked /\ DispatchedIsAccounted /\
      NotStartedIsTrue)'
    BY <1>8 DEF RetryNext, ReleaseLock, Attempt, remaining, FenceHeld, FenceCovers, Marked,
       DispatchedIsAccounted, NotStartedIsTrue
  <2>2. LockHeld'
    BY <1>8 DEF RetryNext, ReleaseLock, Attempt, remaining, LockHeld
  <2>3. Undone'
    <3>1. \A k \in 1..Candidates : cmd[<<p, k>>] = "none"
      BY <1>8 DEF RetryNext, ReleaseLock, Undone
    <3>2. \A q \in Procs \ {p} : pc'[q] = pc[q] /\ att'[q] = att[q]
      BY <1>8 DEF RetryNext, ReleaseLock, Attempt
    <3>3. att'[p] \in 1..Candidates /\ cmd' = cmd
      BY <1>8 DEF RetryNext, ReleaseLock
    <3>4. QED
      BY <3>1, <3>2, <3>3 DEF Undone
  <2>4. QED
    BY <2>1, <2>2, <2>3
<1>9. ASSUME NEW p \in Procs, Bootstrap(p) PROVE IInv'
  <2>1. (LockHeld /\ FenceHeld /\ FenceCovers /\ Undone /\ Marked)'
    BY <1>9 DEF Bootstrap, LockHeld, FenceHeld, FenceCovers, Undone, Marked
  <2>2. DispatchedIsAccounted'
    BY <1>9 DEF Bootstrap, DispatchedIsAccounted, Undone
  <2>3. NotStartedIsTrue'
    BY <1>9 DEF Bootstrap, NotStartedIsTrue, Undone
  <2>4. QED
    BY <2>1, <2>2, <2>3
<1>10. ASSUME NEW p \in Procs, LateValidate(p) PROVE IInv'
  <2>1. (LockHeld /\ FenceHeld /\ FenceCovers /\ Undone /\ Marked)'
    BY <1>10 DEF LateValidate, LockHeld, FenceHeld, FenceCovers, Undone,
       Marked
  <2>2. DispatchedIsAccounted'
    BY <1>10 DEF LateValidate, DispatchedIsAccounted, Undone
  <2>3. NotStartedIsTrue'
    BY <1>10 DEF LateValidate, NotStartedIsTrue, Undone
  <2>4. QED
    BY <2>1, <2>2, <2>3
<1>11. ASSUME NEW p \in Procs, Stage(p) PROVE IInv'
  <2>1. (LockHeld /\ FenceHeld /\ FenceCovers /\ Undone /\ Marked /\
      NotStartedIsTrue)'
    BY <1>11 DEF Stage, LockHeld, FenceHeld, FenceCovers, Undone, Marked,
       NotStartedIsTrue
  <2>2. DispatchedIsAccounted'
    BY <1>11 DEF Stage, DispatchedIsAccounted, Undone
  <2>3. QED
    BY <2>1, <2>2
<1>12. ASSUME NEW p \in Procs, WriteHazard(p) PROVE IInv'
  <2>1. (LockHeld /\ FenceHeld)'
    BY <1>12 DEF WriteHazard, LockHeld, FenceHeld
  <2>2. (FenceCovers /\ Undone)'
    BY <1>12 DEF WriteHazard, FenceCovers, Undone
  <2>3. Marked'
    BY <1>12 DEF WriteHazard, AfterException, Marked
  <2>4. DispatchedIsAccounted'
    BY <1>12 DEF WriteHazard, AfterException, DispatchedIsAccounted, Undone
  <2>5. NotStartedIsTrue'
    <3>1. summary[run(p)] \in Summary
      OBVIOUS
    <3>2. AfterException(summary[run(p)]).state # "not_started"
      BY <3>1, AfterKeeps
    <3>3. cmd' = cmd /\ (\/ summary' = summary
                         \/ summary' = [summary EXCEPT ![run(p)] = AfterException(summary[run(p)])])
      BY <1>12 DEF WriteHazard
    <3>4. \A r \in Runs : summary'[r].state = "not_started" => summary[r].state = "not_started"
      BY <3>2, <3>3
    <3>5. QED
      BY <3>3, <3>4 DEF NotStartedIsTrue
  <2>6. QED
    BY <2>1, <2>2, <2>3, <2>4, <2>5
<1>13. ASSUME NEW p \in Procs, MarkUnknown(p) PROVE IInv'
  <2>1. (LockHeld /\ FenceHeld /\ FenceCovers /\ Undone /\ Marked /\
      DispatchedIsAccounted /\ NotStartedIsTrue)'
    BY <1>13 DEF MarkUnknown, LockHeld, FenceHeld, FenceCovers, Undone,
       Marked, DispatchedIsAccounted, NotStartedIsTrue
  <2>2. QED
    BY <2>1
<1>14. ASSUME NEW p \in Procs, Dispatch(p) PROVE IInv'
  <2>1. (LockHeld /\ FenceHeld /\ Undone /\ Marked)'
    BY <1>14 DEF Dispatch, LockHeld, FenceHeld, Undone, Marked
  <2>2. FenceCovers'
    BY <1>14 DEF Dispatch, FenceCovers, FenceHeld
  <2>3. DispatchedIsAccounted'
    BY <1>14 DEF Dispatch, DispatchedIsAccounted, FenceHeld, Marked
  <2>4. NotStartedIsTrue'
    BY <1>14 DEF Dispatch, NotStartedIsTrue, Marked
  <2>5. QED
    BY <2>1, <2>2, <2>3, <2>4
<1>15. ASSUME NEW p \in Procs, ExecResult(p) PROVE IInv'
  <2>1. (LockHeld /\ FenceHeld /\ FenceCovers /\ Undone)'
    BY <1>15 DEF ExecResult, LockHeld, FenceHeld, FenceCovers, Undone
  <2>2. Marked'
    BY <1>15 DEF ExecResult, Marked
  <2>3. (DispatchedIsAccounted /\ NotStartedIsTrue)'
    BY <1>15 DEF ExecResult, DispatchedIsAccounted, NotStartedIsTrue
  <2>4. QED
    BY <2>1, <2>2, <2>3
<1>16. ASSUME NEW p \in Procs, ExecNotStarted(p) PROVE IInv'
  <2>1. (LockHeld /\ FenceHeld)'
    BY <1>16 DEF ExecNotStarted, LockHeld, FenceHeld
  <2>2. (FenceCovers /\ Undone)'
    BY <1>16 DEF ExecNotStarted, FenceCovers, Undone
  <2>3. Marked'
    BY <1>16 DEF ExecNotStarted, Marked
  <2>4. (DispatchedIsAccounted /\ NotStartedIsTrue)'
    BY <1>16 DEF ExecNotStarted, DispatchedIsAccounted, NotStartedIsTrue
  <2>5. QED
    BY <2>1, <2>2, <2>3, <2>4
<1>17. ASSUME NEW p \in Procs, RecordNotStarted(p) PROVE IInv'
  <2>1. (LockHeld /\ FenceHeld /\ FenceCovers /\ Undone /\ Marked)'
    BY <1>17 DEF RecordNotStarted, LockHeld, FenceHeld, FenceCovers, Undone,
       Marked
  <2>2. DispatchedIsAccounted'
    BY <1>17 DEF RecordNotStarted, DispatchedIsAccounted, Undone
  <2>3. NotStartedIsTrue'
    BY <1>17 DEF RecordNotStarted, NotStartedIsTrue, Undone
  <2>4. QED
    BY <2>1, <2>2, <2>3
<1>18. ASSUME NEW p \in Procs, Checkpoint(p) PROVE IInv'
  <2>1. (LockHeld /\ FenceHeld /\ FenceCovers /\ Undone /\ Marked /\
      DispatchedIsAccounted /\ NotStartedIsTrue)'
    BY <1>18 DEF Checkpoint, LockHeld, FenceHeld, FenceCovers, Undone, Marked,
       DispatchedIsAccounted, NotStartedIsTrue
  <2>2. QED
    BY <2>1
<1>19. ASSUME NEW p \in Procs, ClearHazard(p) PROVE IInv'
  <2>1. (LockHeld /\ FenceHeld /\ Undone /\ Marked /\ NotStartedIsTrue)'
    BY <1>19 DEF ClearHazard, LockHeld, FenceHeld, Undone, Marked,
       NotStartedIsTrue
  <2>2. FenceCovers'
    BY <1>19 DEF ClearHazard, FenceCovers, Marked
  <2>3. DispatchedIsAccounted'
    BY <1>19 DEF ClearHazard, DispatchedIsAccounted, Marked
  <2>4. QED
    BY <2>1, <2>2, <2>3
<1>20. ASSUME NEW p \in Procs, Pullback(p) PROVE IInv'
  <2>1. (LockHeld /\ FenceHeld /\ FenceCovers /\ Undone /\ Marked)'
    BY <1>20 DEF Pullback, LockHeld, FenceHeld, FenceCovers, Undone, Marked
  <2>2. DispatchedIsAccounted'
    BY <1>20 DEF Pullback, DispatchedIsAccounted, LockHeld, Marked
  <2>3. NotStartedIsTrue'
    <3>1. cmd' = cmd /\ \A r \in Runs : summary'[r].state = "not_started"
                                         => summary[r].state = "not_started"
      <4>1. summary' = summary
            \/ \E b : summary' = [summary EXCEPT ![run(p)] = Sum("finalization_failed", b)]
        BY <1>20 DEF Pullback
      <4>2. QED
        BY <1>20, <4>1 DEF Pullback
    <3>2. QED
      BY <3>1 DEF NotStartedIsTrue
  <2>4. QED
    BY <2>1, <2>2, <2>3
<1>21. ASSUME NEW p \in Procs, Finalize(p) PROVE IInv'
  <2>1. (LockHeld /\ FenceHeld /\ FenceCovers /\ Undone /\ Marked /\
      NotStartedIsTrue)'
    BY <1>21 DEF Finalize, LockHeld, FenceHeld, FenceCovers, Undone, Marked,
       NotStartedIsTrue
  <2>2. DispatchedIsAccounted'
    BY <1>21 DEF Finalize, DispatchedIsAccounted, Marked
  <2>3. QED
    BY <2>1, <2>2
<1>22. ASSUME NEW p \in Procs, Report(p) PROVE IInv'
  <2>1. (LockHeld /\ FenceHeld /\ FenceCovers /\ Undone /\ Marked /\
      DispatchedIsAccounted /\ NotStartedIsTrue)'
    BY <1>22 DEF Report, LockHeld, FenceHeld, FenceCovers, Undone, Marked,
       DispatchedIsAccounted, NotStartedIsTrue
  <2>2. QED
    BY <2>1
<1>23. ASSUME NEW p \in Procs, Finish(p) PROVE IInv'
  <2>1. (LockHeld /\ FenceHeld /\ FenceCovers /\ Undone /\ Marked /\
      DispatchedIsAccounted /\ NotStartedIsTrue)'
    BY <1>23 DEF Finish, ReleaseLock, LockHeld, FenceHeld, FenceCovers, Undone, Marked,
       DispatchedIsAccounted, NotStartedIsTrue
  <2>2. QED
    BY <2>1
<1>24. ASSUME NEW p \in Procs, ExecLost(p) PROVE IInv'
  <2>1. (LockHeld /\ FenceHeld /\ FenceCovers /\ Undone /\ Marked /\
      DispatchedIsAccounted /\ NotStartedIsTrue)'
    BY <1>24 DEF ExecLost, LockHeld, FenceHeld, FenceCovers, Undone, Marked,
       DispatchedIsAccounted, NotStartedIsTrue
  <2>2. QED
    BY <2>1
<1>25. ASSUME NEW p \in Procs, Fail(p) PROVE IInv'
  <2>1. (LockHeld /\ FenceHeld /\ FenceCovers /\ Undone /\ Marked /\
      DispatchedIsAccounted /\ NotStartedIsTrue)'
    BY <1>25 DEF Fail, AfterException, LockHeld, FenceHeld, FenceCovers,
       Undone, Marked, DispatchedIsAccounted, NotStartedIsTrue
  <2>2. QED
    BY <2>1
<1>26. ASSUME NEW p \in Procs, Interrupt(p) PROVE IInv'
  <2>1. (LockHeld /\ FenceHeld)'
    BY <1>26 DEF Interrupt, LockHeld, FenceHeld
  <2>2. (FenceCovers /\ Undone)'
    BY <1>26 DEF Interrupt, FenceCovers, Undone
  <2>3. Marked'
    BY <1>26 DEF Interrupt, AfterInterrupt, Marked
  <2>4. DispatchedIsAccounted'
    BY <1>26 DEF Interrupt, AfterInterrupt, DispatchedIsAccounted, Undone, Marked
  <2>5. NotStartedIsTrue'
    <3>1. summary[run(p)] \in Summary
      OBVIOUS
    <3>2. AfterInterrupt(summary[run(p)]).state # "not_started"
      BY <3>1, AfterKeeps
    <3>3. cmd' = cmd /\ (\/ summary' = summary
                         \/ summary' = [summary EXCEPT ![run(p)] = AfterInterrupt(summary[run(p)])])
      BY <1>26 DEF Interrupt
    <3>4. \A r \in Runs : summary'[r].state = "not_started" => summary[r].state = "not_started"
      BY <3>2, <3>3
    <3>5. QED
      BY <3>3, <3>4 DEF NotStartedIsTrue
  <2>6. QED
    BY <2>1, <2>2, <2>3, <2>4, <2>5
<1>27. ASSUME NEW p \in Procs, Kill(p) PROVE IInv'
  <2>1. (LockHeld /\ FenceHeld /\ FenceCovers /\ Undone /\ Marked /\
      DispatchedIsAccounted /\ NotStartedIsTrue)'
    BY <1>27 DEF Kill, LockHeld, FenceHeld, FenceCovers, Undone, Marked,
       DispatchedIsAccounted, NotStartedIsTrue
  <2>2. QED
    BY <2>1
<1>28. ASSUME NEW p \in Procs, RemoveStaleLock(p) PROVE IInv'
  <2>1. (LockHeld /\ FenceHeld /\ FenceCovers /\ Undone /\ Marked /\
      DispatchedIsAccounted /\ NotStartedIsTrue)'
    BY <1>28 DEF RemoveStaleLock, Gone, Alive, LockHeld, FenceHeld, FenceCovers, Undone,
       Marked, DispatchedIsAccounted, NotStartedIsTrue
  <2>2. QED
    BY <2>1
<1>29. ASSUME NEW r \in Runs, CommandEnds(r) PROVE IInv'
  <2>1. (LockHeld /\ FenceHeld /\ FenceCovers /\ Undone /\ Marked /\
      DispatchedIsAccounted /\ NotStartedIsTrue)'
    BY <1>29 DEF CommandEnds, Alive, LockHeld, FenceHeld, FenceCovers, Undone,
       Marked, DispatchedIsAccounted, NotStartedIsTrue
  <2>2. QED
    BY <2>1
<1>30. ASSUME NEW r \in Runs, ResolveUnknown(r) PROVE IInv'
  <2>1. (LockHeld /\ FenceHeld /\ FenceCovers /\ Undone /\ Marked /\
      DispatchedIsAccounted /\ NotStartedIsTrue)'
    BY <1>30 DEF ResolveUnknown, Alive, Gone, LockHeld, FenceHeld, FenceCovers,
       Undone, Marked, DispatchedIsAccounted, NotStartedIsTrue
  <2>2. QED
    BY <2>1
<1>31. ASSUME NEW p \in Procs, ExecResultSurvived(p) PROVE IInv'
  <2>1. (LockHeld /\ FenceHeld /\ FenceCovers /\ Undone /\ Marked)'
    BY <1>31 DEF ExecResultSurvived, LockHeld, FenceHeld, FenceCovers, Undone,
       Marked
  <2>2. (DispatchedIsAccounted /\ NotStartedIsTrue)'
    BY <1>31 DEF ExecResultSurvived, DispatchedIsAccounted, NotStartedIsTrue
  <2>3. QED
    BY <2>1, <2>2
<1>32. CASE UNCHANGED vars
  BY <1>32 DEF vars, LockHeld, FenceHeld, FenceCovers, Undone, Marked,
     DispatchedIsAccounted, NotStartedIsTrue
<1>33. QED
  BY <1>1, <1>2, <1>3, <1>4, <1>5, <1>6, <1>7, <1>8, <1>9, <1>10, <1>11,
     <1>12, <1>13, <1>14, <1>15, <1>16, <1>17, <1>18, <1>19, <1>20, <1>21,
     <1>22, <1>23, <1>24, <1>25, <1>26, <1>27, <1>28, <1>29, <1>30, <1>31, <1>32
     DEF Next, Proceed, Execute

\* The invariant holds initially.
LEMMA InvInit == Init => IInv
<1> SUFFICES ASSUME Init PROVE IInv
  OBVIOUS
<1>1. TypeOK
  BY LifecycleAssumption, SumType DEF Init, TypeOK, PCs, Early, States
<1>2. LockHeld /\ FenceHeld /\ FenceCovers /\ Marked
  BY DEF Init, LockHeld, FenceHeld, FenceCovers, Marked, Holding, Locked, Fenced,
         Runs
<1>3. DispatchedIsAccounted /\ NotStartedIsTrue
  BY DEF Init, DispatchedIsAccounted, NotStartedIsTrue, Runs
<1>4. Undone
  BY LifecycleAssumption DEF Init, Undone, run, Runs
<1>5. QED
  BY <1>1, <1>2, <1>3, <1>4 DEF IInv

\* The inductive invariant holds of every reachable state.
THEOREM Invariance == Spec => []IInv
<1>1. Init => IInv
  BY InvInit
<1>2. IInv /\ [Next]_vars => IInv'
  BY InvStep
<1>3. QED
  BY <1>1, <1>2, PTL DEF Spec

\* cmd_run and _run_locked keep the types of the state they share.
THEOREM TypeCorrect == Spec => []TypeOK
<1>1. IInv => TypeOK
  BY DEF IInv
<1>2. QED
  BY <1>1, Invariance, PTL

\* Whatever the number of controller processes and candidates, and wherever
\* they are interrupted, fail or are killed, no two commands of the project
\* run at once: both would have to be named by the one hazard record.
THEOREM OneCommandAtATime == Spec => []NoConcurrentCommands
<1>1. IInv => NoConcurrentCommands
  BY DEF IInv, FenceCovers, NoConcurrentCommands, Alive
<1>2. QED
  BY <1>1, Invariance, PTL

\* A dispatched command is fenced with an unknown receipt, has its result on
\* disk, or was confirmed ended by an operator: _run_locked's checkpoints
\* leave no gap in which a kill forgets it.
THEOREM NothingForgotten == Spec => []DispatchedIsAccounted
<1>1. IInv => DispatchedIsAccounted
  BY DEF IInv
<1>2. QED
  BY <1>1, Invariance, PTL

\* A not_started receipt is always true.
THEOREM NotStartedReceipts == Spec => []NotStartedIsTrue
<1>1. IInv => NotStartedIsTrue
  BY DEF IInv
<1>2. QED
  BY <1>1, Invariance, PTL

\* One invocation dispatches at most one command: the attempts cmd_run has
\* moved on from never had one.
THEOREM OneDispatchPerInvocation == Spec => []DispatchedOnce
<1>1. IInv => DispatchedOnce
  BY LifecycleAssumption DEF IInv, TypeOK, Undone, DispatchedOnce
<1>2. QED
  BY <1>1, Invariance, PTL

-----------------------------------------------------------------------------
(* The project lock itself, of the processes that take it: one writer, for  *)
(* any number of processes, scopes and adopting collectors, and the         *)
(* refinement of WriterLock, the lock that RunLifecycle uses.               *)
(*                                                                          *)
(* Mutual exclusion is not inductive: it needs what an acquirer inside the  *)
(* guard already knows.  The guard admits one acquirer, so nobody else can  *)
(* become a holder while it looks, and its listing is a superset of the     *)
(* holders however many of them release meanwhile (Listed).  An adopter     *)
(* goes on only when the one lock it saw names a dead process, which no     *)
(* holder's lock does (Recorded); so from then on there is no holder        *)
(* (NoHolder).                                                              *)

OneGuard == \A p, q \in Lockers :
    place[p] \in Guarded => guard /\ (place[q] \in Guarded => p = q)

Recorded == \A p \in Lockers :
    /\ place[p] \in Has => Dir[p] \in dirs
    /\ place[p] \in {"unguard-held", "held"} => info[Dir[p]] = p
    /\ place[p] = "releasing" => info[Dir[p]] = NoInfo

Listed == \A p, q \in Lockers : place[q] \in Has =>
    /\ place[p] = "list-scopes" /\ Dir[q] = Whole => Whole \in seen[p]
    /\ place[p] = "decide" => Dir[q] \in seen[p]

NoHolder == \A p, q \in Lockers :
    place[p] \in {"unlink-dead", "rmdir-dead", "mkdir"} => place[q] \notin Has

LockInv == LockTypeOK /\ OneGuard /\ Recorded /\ Listed /\ NoHolder /\ OneWriter

\* How the places under the guard and with the directory lie among all places.
LEMMA LockPlaces ==
    /\ Guarded \subseteq Positions /\ Has \subseteq Positions
    /\ {"out", "start", "dead"} \subseteq Positions
    /\ "list-whole" \in Guarded /\ "list-scopes" \in Guarded /\ "decide" \in Guarded
    /\ "unlink-dead" \in Guarded /\ "rmdir-dead" \in Guarded /\ "mkdir" \in Guarded
BY DEF Positions, Guarded, Has, Acquiring

\* The initial table is empty and every process is outside.
LEMMA LockInvInit == LockInit => LockInv
BY LockAssumption DEF LockInit, LockInv, LockTypeOK, OneGuard, Recorded, Listed, NoHolder,
   OneWriter,
   Positions, Guarded, Has, Acquiring

\* Types survive every step.
LEMMA LockTypeStep == LockTypeOK /\ [LockNext]_lockVars => LockTypeOK'
<1> SUFFICES ASSUME LockTypeOK, [LockNext]_lockVars PROVE LockTypeOK'
    OBVIOUS
<1>1. CASE UNCHANGED lockVars
    BY <1>1 DEF lockVars, LockTypeOK
<1>2. CASE LockNext
    <2> PICK p \in Lockers : Start(p) \/ Acquire(p) \/ Release(p) \/ KillLocker(p)
        BY <1>2 DEF LockNext
    <2> USE LockAssumption DEF LockTypeOK, Moves, Positions, Guarded, Has,
        Acquiring, Dirs
    <2>1. CASE Start(p) \/ MkGuard(p) \/ GuardBusy(p) \/ KillLocker(p) \/ RmGuard(p)
        BY <2>1 DEF Start, MkGuard, GuardBusy, KillLocker, RmGuard
    <2>2. CASE ListWhole(p) \/ ListScopes(p)
        BY <2>2 DEF ListWhole, ListScopes
    <2>3. CASE Decide(p)
        BY <2>3 DEF Decide
    <2>4. CASE UnlinkDead(p) \/ RmdirDead(p) \/ WriteInfo(p) \/ UnlinkInfo(p) \/ RmDir(p)
        BY <2>4 DEF UnlinkDead, RmdirDead, WriteInfo, UnlinkInfo, RmDir
    <2>5. CASE MkDir(p)
        BY <2>5 DEF MkDir
    <2> QED
        BY <2>1, <2>2, <2>3, <2>4, <2>5 DEF Acquire, Release
<1> QED
    BY <1>1, <1>2

\* The inductive step.
LEMMA LockStep == LockInv /\ [LockNext]_lockVars => LockInv'
<1> SUFFICES ASSUME LockInv, [LockNext]_lockVars PROVE LockInv'
    OBVIOUS
<1>t. LockTypeOK /\ LockTypeOK'
    BY LockTypeStep DEF LockInv
<1>1. CASE UNCHANGED lockVars
    BY <1>1, <1>t DEF lockVars, LockInv, OneGuard, Recorded, Listed, NoHolder, OneWriter
<1>2. CASE LockNext
    <2> PICK p \in Lockers : Start(p) \/ Acquire(p) \/ Release(p) \/ KillLocker(p)
        BY <1>2 DEF LockNext
    <2> USE LockAssumption, <1>t DEF LockInv, LockTypeOK, Moves, Positions, Guarded,
        Has, Acquiring, Dirs,
        OneGuard, Recorded, Listed, NoHolder, OneWriter
    <2>1. CASE Start(p)
        BY <2>1 DEF Start
    <2>2. CASE MkGuard(p)
        BY <2>2 DEF MkGuard
    <2>3. CASE GuardBusy(p)
        BY <2>3 DEF GuardBusy
    <2>4. CASE ListWhole(p)
        BY <2>4 DEF ListWhole
    <2>5. CASE ListScopes(p)
        BY <2>5 DEF ListScopes
    <2>6. CASE Decide(p)
        <3>1. CASE seen[p] = {}
            BY <2>6, <3>1 DEF Decide
        <3>2. CASE seen[p] # {} /\ Adoptable(p)
            <4>1. \A q \in Lockers : place[q] \notin Has
                BY <2>6, <3>2 DEF Decide, Adoptable
            <4> QED
                BY <2>6, <3>2, <4>1 DEF Decide
        <3>3. CASE seen[p] # {} /\ ~Adoptable(p)
            BY <2>6, <3>3 DEF Decide
        <3> QED
            BY <3>1, <3>2, <3>3
    <2>7. CASE UnlinkDead(p)
        BY <2>7 DEF UnlinkDead
    <2>8. CASE RmdirDead(p)
        BY <2>8 DEF RmdirDead
    <2>9. CASE MkDir(p)
        BY <2>9 DEF MkDir
    <2>10. CASE WriteInfo(p)
        BY <2>10 DEF WriteInfo
    <2>11. CASE RmGuard(p)
        BY <2>11 DEF RmGuard
    <2>12. CASE UnlinkInfo(p)
        BY <2>12 DEF UnlinkInfo
    <2>13. CASE RmDir(p)
        BY <2>13 DEF RmDir
    <2>14. CASE KillLocker(p)
        BY <2>14 DEF KillLocker
    <2> QED
        BY <2>1, <2>2, <2>3, <2>4, <2>5, <2>6, <2>7, <2>8, <2>9, <2>10, <2>11, <2>12,
           <2>13, <2>14 DEF Acquire, Release
<1> QED
    BY <1>1, <1>2

\* The inductive invariant holds in every reachable state.
THEOREM LockInvariance == LockSpec => []LockInv
BY LockInvInit, LockStep, PTL DEF LockSpec

\* The lock table is well typed.
THEOREM LockTypeCorrect == LockSpec => []LockTypeOK
BY LockInvariance, PTL DEF LockInv

\* ProjectLock gives a project one writer at a time, whatever the mixture of
\* whole-project runs, scoped runs, adopting collectors and killed processes.
THEOREM LockIsExclusive == LockSpec => []OneWriter
BY LockInvariance, PTL DEF LockInv

\* Nobody removes a lock under its holder, although release checks no owner.
THEOREM LockIsKept == LockSpec => []HolderKeepsLock
<1>1. LockInv => HolderKeepsLock
    BY DEF LockInv, Recorded, HolderKeepsLock
<1> QED
    BY <1>1, LockInvariance, PTL

\* A process that has the directory is WriterLock's holder: no other has it.
LEMMA HolderIs ==
    ASSUME OneWriter, NEW p \in Lockers, place[p] \in Has
    PROVE  Holder = p
BY DEF OneWriter, Holder

\* The same after a step.
LEMMA HolderIsPrime ==
    ASSUME OneWriter', NEW p \in Lockers, place'[p] \in Has
    PROVE  Holder' = p
BY DEF OneWriter, Holder

\* While no process has the directory, WriterLock's holder is nobody.
LEMMA HolderNobody ==
    ASSUME \A p \in Lockers : place[p] \notin Has
    PROVE  Holder = Nobody
BY DEF Holder

\* The same after a step.
LEMMA HolderNobodyPrime ==
    ASSUME \A p \in Lockers : place'[p] \notin Has
    PROVE  Holder' = Nobody
BY DEF Holder

\* The directory protocol implements WriterLock: making the directory takes
\* the lock, removing it or dying gives it up, and no other step is visible.
THEOREM LockImplementsAbstract == LockSpec => AbstractLock
<1>1. LockInit => Abstract!Init
    BY HolderNobody DEF LockInit, Abstract!Init, Has
<1>2. ASSUME LockInv, LockInv', [LockNext]_lockVars
      PROVE  [Abstract!Next]_Holder
    <2> USE DEF LockInv
    <2>1. CASE \A q \in Lockers : place'[q] \in Has <=> place[q] \in Has
        <3>1. CASE \E q \in Lockers : place[q] \in Has
            BY <1>2, <2>1, <3>1, HolderIs, HolderIsPrime
        <3>2. CASE \A q \in Lockers : place[q] \notin Has
            BY <1>2, <2>1, <3>2, HolderNobody, HolderNobodyPrime
        <3> QED
            BY <3>1, <3>2
    <2>2. CASE \E q \in Lockers : ~(place'[q] \in Has <=> place[q] \in Has)
        <3> PICK q \in Lockers : ~(place'[q] \in Has <=> place[q] \in Has)
            BY <2>2
        <3>1. place' = [place EXCEPT ![q] = place'[q]]
            <4> PICK p \in Lockers : Start(p) \/ Acquire(p) \/ Release(p) \/ KillLocker(p)
                BY <1>2 DEF LockNext, lockVars
            <4>1. \E s \in Positions : place' = [place EXCEPT ![p] = s]
                BY LockPlaces DEF Start, Acquire, Release, KillLocker, Moves,
                   MkGuard, GuardBusy, ListWhole,
                   ListScopes, Decide, UnlinkDead, RmdirDead, MkDir,
                   WriteInfo, RmGuard,
                   UnlinkInfo, RmDir, Positions, Guarded, Has, Acquiring
            <4>2. p = q
                BY <1>2, <4>1 DEF LockTypeOK
            <4> QED
                BY <1>2, <4>1, <4>2 DEF LockTypeOK
        <3>2. CASE place[q] \in Has
            <4>1. \A r \in Lockers : place'[r] \notin Has
                BY <1>2, <2>2, <3>1, <3>2 DEF LockTypeOK, OneWriter
            <4> QED
                BY <1>2, <3>2, <4>1, HolderIs, HolderNobodyPrime
                   DEF Abstract!Next, Abstract!Vacate
        <3>3. CASE place'[q] \in Has
            <4>1. \A r \in Lockers : place[r] \notin Has
                BY <1>2, <2>2, <3>1, <3>3 DEF LockTypeOK, OneWriter
            <4> QED
                BY <1>2, <3>3, <4>1, HolderIsPrime, HolderNobody
                   DEF Abstract!Next, Abstract!Take
        <3> QED
            BY <3>2, <3>3
    <2> QED
        BY <2>1, <2>2
<1> QED
    BY <1>1, <1>2, LockInvariance, PTL DEF LockSpec, AbstractLock, Abstract!Spec
=============================================================================
