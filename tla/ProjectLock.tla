----------------------------- MODULE ProjectLock -----------------------------
(***************************************************************************)
(* ProjectLock of state.py: an advisory lock made of directories.          *)
(*                                                                         *)
(* Under locks/project/<key>/ there is a guard directory that serializes   *)
(* acquirers, one directory per held lock (whole.lock, or one per write    *)
(* scope), and an info.json in it that names the holder.  Release takes no *)
(* guard.  A process can be killed between any two filesystem calls, and a *)
(* durable run's collector may adopt the exact lock of its own dead run.   *)
(***************************************************************************)
EXTENDS Naturals, FiniteSets

CONSTANTS Lockers,   \* processes, a process id each (ids are not reused)
          Whole,     \* the directory of the whole-project lock
          Scopes,    \* the directories of the scope locks
          Dir,       \* [Lockers -> {Whole} \cup Scopes]: the lock each one takes
          RunOf,     \* [Lockers -> run ids]: recorded in info.json
          Adopts,    \* processes started with adopt_dead_run
          Ordinary,  \* the run id of a run that is not durable (None)
          NoInfo,    \* info.json is missing
          Nobody

Dirs == {Whole} \cup Scopes

ASSUME LockAssumption ==
    /\ Dir \in [Lockers -> Dirs]
    /\ Adopts \subseteq Lockers
    /\ NoInfo \notin Lockers
    /\ Nobody \notin Lockers

VARIABLES place,  \* where each process is in acquire and release
          guard,  \* does .guard exist?
          dirs,   \* the lock directories that exist
          info,   \* [Dirs -> Lockers \cup {NoInfo}]: the pid in each info.json
          seen    \* the conflicts each acquirer has listed

lockVars == <<place, guard, dirs, info, seen>>

Acquiring == {"list-whole", "list-scopes", "decide", "unlink-dead", "rmdir-dead",
              "mkdir", "info"}
Guarded == Acquiring \cup {"unguard-held", "unguard-failed"}
Has == {"info", "unguard-held", "held", "releasing"}
Positions == {"out", "start", "dead"} \cup Guarded \cup Has

LockInit ==
    /\ place = [p \in Lockers |-> "out"]
    /\ guard = FALSE
    /\ dirs = {}
    /\ info = [d \in Dirs |-> NoInfo]
    /\ seen = [p \in Lockers |-> {}]

Moves(p, from, to) == place[p] = from /\ place' = [place EXCEPT ![p] = to]

-----------------------------------------------------------------------------
Start(p) == Moves(p, "out", "start") /\ UNCHANGED <<guard, dirs, info, seen>>

\* Variant: the guard is taken over when it looks abandoned.
MkGuardSteal(p) ==
    /\ Moves(p, "start", "list-whole")
    /\ guard' = TRUE
    /\ UNCHANGED <<dirs, info, seen>>

\* _acquire_guard: mkdir, retried for five seconds...
MkGuard(p) ==
    /\ Moves(p, "start", "list-whole")
    /\ ~guard /\ guard' = TRUE
    /\ UNCHANGED <<dirs, info, seen>>

\* ...and then LockError.
GuardBusy(p) ==
    /\ guard /\ Moves(p, "start", "out")
    /\ UNCHANGED <<guard, dirs, info, seen>>

ListWhole(p) ==
    /\ Moves(p, "list-whole", "list-scopes")
    /\ seen' = [seen EXCEPT ![p] = dirs \cap {Whole}]
    /\ UNCHANGED <<guard, dirs, info>>

\* Variant: a scoped run looks only for its own scope's lock.
ListScopesOwn(p) ==
    /\ Moves(p, "list-scopes", "decide")
    /\ seen' = [seen EXCEPT ![p] = @ \cup (dirs \cap {Dir[p]})]
    /\ UNCHANGED <<guard, dirs, info>>

\* Scoped runs serialize with each other too.
ListScopes(p) ==
    /\ Moves(p, "list-scopes", "decide")
    /\ seen' = [seen EXCEPT ![p] = @ \cup (dirs \cap Scopes)]
    /\ UNCHANGED <<guard, dirs, info>>

\* Only this run's own lock, and only when its recorded process is dead.
Adoptable(p) ==
    /\ p \in Adopts /\ RunOf[p] # Ordinary /\ seen[p] = {Dir[p]}
    /\ info[Dir[p]] # NoInfo
    /\ RunOf[info[Dir[p]]] = RunOf[p]
    /\ place[info[Dir[p]]] = "dead"

Decide(p) ==
    /\ place[p] = "decide"
    /\ place' = [place EXCEPT ![p] = IF seen[p] = {} THEN "mkdir"
                                  ELSE IF Adoptable(p) THEN "unlink-dead"
                                  ELSE "unguard-failed"]
    /\ UNCHANGED <<guard, dirs, info, seen>>

\* The two removals of an adoption; either may fail with OSError, and then the
\* adopter reports the conflict.
UnlinkDead(p) ==
    /\ \/ Moves(p, "unlink-dead", "rmdir-dead") /\ info' = [info EXCEPT ![Dir[p]] = NoInfo]
       \/ Moves(p, "unlink-dead", "unguard-failed") /\ UNCHANGED info
    /\ UNCHANGED <<guard, dirs, seen>>

RmdirDead(p) ==
    /\ \/ Moves(p, "rmdir-dead", "mkdir") /\ dirs' = dirs \ {Dir[p]}
       \/ Moves(p, "rmdir-dead", "unguard-failed") /\ UNCHANGED dirs
    /\ UNCHANGED <<guard, info, seen>>

\* path.mkdir: the last line of defence.
MkDir(p) ==
    /\ place[p] = "mkdir"
    /\ IF Dir[p] \in dirs
       THEN place' = [place EXCEPT ![p] = "unguard-failed"] /\ UNCHANGED dirs
       ELSE place' = [place EXCEPT ![p] = "info"] /\ dirs' = dirs \cup {Dir[p]}
    /\ UNCHANGED <<guard, info, seen>>

\* write_json of the holder; if it fails the directory stays behind.
WriteInfo(p) ==
    /\ \/ Moves(p, "info", "unguard-held") /\ info' = [info EXCEPT ![Dir[p]] = p]
       \/ Moves(p, "info", "unguard-failed") /\ UNCHANGED info
    /\ UNCHANGED <<guard, dirs, seen>>

\* Variant: a failed acquire forgets to leave, and waits for the lock.
RmGuardWait(p) ==
    /\ Moves(p, "unguard-held", "held") \/ Moves(p, "unguard-failed", "start")
    /\ guard' \in BOOLEAN
    /\ UNCHANGED <<dirs, info, seen>>

\* The finally clause of acquire; a failing rmdir is ignored.
RmGuard(p) ==
    /\ Moves(p, "unguard-held", "held") \/ Moves(p, "unguard-failed", "out")
    /\ guard' \in BOOLEAN
    /\ UNCHANGED <<dirs, info, seen>>

\* release: info.json first, then the directory, without the guard.  A failing
\* removal is ignored and leaves the rest behind.
UnlinkInfo(p) ==
    /\ \/ Moves(p, "held", "releasing") /\ info' = [info EXCEPT ![Dir[p]] = NoInfo]
       \/ Moves(p, "held", "out") /\ UNCHANGED info
    /\ UNCHANGED <<guard, dirs, seen>>

RmDir(p) ==
    /\ Moves(p, "releasing", "out")
    /\ dirs' \in {dirs, dirs \ {Dir[p]}}
    /\ UNCHANGED <<guard, info, seen>>

KillLocker(p) ==
    /\ place[p] # "dead"
    /\ place' = [place EXCEPT ![p] = "dead"]
    /\ UNCHANGED <<guard, dirs, info, seen>>

Acquire(p) == \/ MkGuard(p) \/ GuardBusy(p) \/ ListWhole(p) \/ ListScopes(p)
              \/ Decide(p) \/ UnlinkDead(p) \/ RmdirDead(p) \/ MkDir(p)
              \/ WriteInfo(p) \/ RmGuard(p)

Release(p) == UnlinkInfo(p) \/ RmDir(p)

LockNext == \E p \in Lockers : Start(p) \/ Acquire(p) \/ Release(p) \/ KillLocker(p)

LockSpec == LockInit /\ [][LockNext]_lockVars
FairLockSpec == LockSpec /\ \A p \in Lockers : WF_lockVars(Acquire(p)) /\ WF_lockVars(Release(p))

-----------------------------------------------------------------------------
\* Types of the table and of the processes' views of it.
LockTypeOK ==
    /\ place \in [Lockers -> Positions]
    /\ guard \in BOOLEAN
    /\ dirs \subseteq Dirs
    /\ info \in [Dirs -> Lockers \cup {NoInfo}]
    /\ seen \in [Lockers -> SUBSET Dirs]

\* One writer per project: whole-project and scoped runs, launchers and
\* adopting collectors, at most one of them holds a lock at any time.
OneWriter == \A p, q \in Lockers : place[p] \in Has /\ place[q] \in Has => p = q

\* Release, which takes no guard and checks no owner, still only ever removes
\* the releasing process's own directory: a holder's lock never disappears
\* under it.
HolderKeepsLock ==
    \A p \in Lockers : /\ place[p] \in Has => Dir[p] \in dirs
                       /\ place[p] = "held" => info[Dir[p]] = p

\* acquire never waits for a holder: it ends, with the lock or with LockError.
AcquireEnds ==
    \A p \in Lockers : place[p] = "start" ~> place[p] \in {"held", "out", "dead"}

\* The directory protocol implements the abstract lock: whoever has made its
\* directory is the holder, until it removes it or dies.
Holder == IF \E p \in Lockers : place[p] \in Has
          THEN CHOOSE p \in Lockers : place[p] \in Has ELSE Nobody

Abstract == INSTANCE WriterLock WITH Procs <- Lockers, holder <- Holder
AbstractLock == Abstract!Spec
=============================================================================
