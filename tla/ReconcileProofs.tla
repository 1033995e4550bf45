---------------------------- MODULE ReconcileProofs ----------------------------
(***************************************************************************)
(* A run of the file reconciliation for every set of paths, contents,      *)
(* sizes, twins, pinned inputs and scopes, and any number of writers'      *)
(* events, with writers between any two accesses of a transfer: its types, *)
(* what trying a candidate leaves alone, that what it replaces is backed   *)
(* up, that its baseline is sound, that pullback spares local edits, and   *)
(* that the command runs on converged trees.  The last part is about the   *)
(* planner alone.                                                          *)
(*                                                                         *)
(* The argument of the later theorems is one of generations.  Every write  *)
(* takes an mtime that no file had before, so among the files that are     *)
(* still about one mtime means one file, unless remrun itself has put it   *)
(* beside other bytes (mixed).  A recorded pair of entries denotes one     *)
(* content k: whatever file of the path an entry can be taken for, by hash *)
(* or by an unmixed mtime and size, holds k.  A file written later is      *)
(* newer than every entry and cannot be taken for any of them.             *)
(***************************************************************************)
EXTENDS Reconcile, TransferPlanCases, TLAPS

(* The shape of what a run holds.                                          *)
Todo == {"none", "push", "pull", "delete-remote", "delete-local", "changed", "collides",
         "deleted", "untouched"}
Copies == {"pull", "push", "output"}
Kinds == Copies \cup {"unlink", "mirror"}
Flights == [kind : Kinds, path : Paths, want : Contents \cup {NoHash}, apart : BOOLEAN,
            first : Files, seen : Files, over : Files]
Listings == [Paths -> EntryOrNone]
RunType ==
  [fallback : BOOLEAN, scoped : BOOLEAN, lman : Listings, rman : Listings,
   todo : [Paths -> Todo], touched : SUBSET Paths, fl : Listings, fr : Listings,
   flying : Flights \cup {NoFile}, clash : BOOLEAN, mutated : BOOLEAN,
   snap : [Paths -> Files]]
Trees == [Paths -> Files]
Roots == [{"local", "remote"} -> BOOLEAN]
BaseType == [have : BOOLEAN, l : Listings, r : Listings]
Aloft == {"pre-copy", "pre-install", "post-check", "post-copy", "post-install", "post-verify"}
FlightOK ==
  pc \in Aloft =>
    LET f == run.flying IN
    /\ f \in Flights
    /\ pc \in {"pre-copy", "pre-install"} => f.kind \in {"pull", "push", "unlink"}
    /\ pc \in {"post-check", "post-verify"} => f.kind = "output"
    /\ pc \in {"post-copy", "post-install"} => f.kind \in {"output", "mirror"}
    /\ pc \in {"pre-install", "post-install"} /\ f.kind \in Copies => f.first # NoFile
    /\ f.kind = "output" => f.want \in Contents /\ run.fr[f.path] # NoFile
ShapeOK ==
  /\ local \in Trees /\ remote \in Trees /\ rootUp \in Roots
  /\ base \in BaseType /\ run \in RunType /\ pc \in Phases /\ stamp \in 0..MaxEvents
  /\ mixed \in [Paths -> SUBSET Nat]
  /\ FlightOK
  /\ pc \in PullingBack => \A p \in Paths : run.todo[p] = "changed" => run.fr[p] # NoFile

(* Nothing is written before the plan is accepted, and a plan never lets a *)
(* fallback attempt, or the target's copy of a bootstrap input, change the *)
(* controller.                                                             *)
Rewrites == {"pull", "delete-local"}
SparedInv ==
  /\ pc \in {"manifest-local", "manifest-remote", "plan"} => ~run.mutated
  /\ pc \in Reconciling =>
       \A p \in Paths : run.fallback \/ p \in Pinned => run.todo[p] \notin Rewrites
  /\ pc \in {"pre-copy", "pre-install"} /\ run.flying.kind # "push" =>
       ~run.fallback /\ run.flying.path \notin Pinned

-----------------------------------------------------------------------------
(* Types.                                                                  *)

\* A listing has an entry, or none, for every path.
LEMMA EntryTyped ==
  ASSUME NEW f \in Files
  PROVE  EntryOf(f) \in EntryOrNone
BY SizeAssumption DEF Files, File, EntryOf, EntryOrNone, Entry

\* So has the manifest of a tree.
LEMMA ManifestTyped ==
  ASSUME NEW tree \in Trees
  PROVE  Manifest(tree) \in Listings
BY EntryTyped DEF Manifest, Listings, Trees

\* What a run holds before it reads anything.
LEMMA FreshTyped == FreshRun \in RunType /\ Empty \in Listings /\ Empty \in Trees
<1>1. Empty \in Listings /\ Empty \in Trees
  BY DEF Empty, Listings, Trees, EntryOrNone, Files
<1>2. [p \in Paths |-> "none"] \in [Paths -> Todo]
  BY DEF Todo
<1> QED
  BY <1>1, <1>2 DEF FreshRun, RunType, Trees

\* The first state has its types.
LEMMA InitShape == Init => ShapeOK
<1> SUFFICES ASSUME Init PROVE ShapeOK
  OBVIOUS
<1>1. rootUp \in Roots
  <2>1. rootUp.local \in BOOLEAN /\ rootUp.remote \in BOOLEAN
    BY DEF Init
  <2>2. DOMAIN rootUp = {"local", "remote"}
    BY Zenon DEF Init
  <2>3. rootUp = [s \in DOMAIN rootUp |-> rootUp[s]]
    BY Zenon DEF Init
  <2> QED
    BY <2>1, <2>2, <2>3 DEF Roots
<1>2. base \in BaseType
  BY FreshTyped DEF Init, NoBase, BaseType
<1> QED
  BY <1>1, <1>2, FreshTyped, ReconcileAssumption DEF Init, ShapeOK, FlightOK, Aloft, Phases,
     PullingBack

\* compare_manifests gives one of its actions ...
LEMMA ActionTyped ==
  ASSUME NEW le, NEW re, NEW have, NEW pl, NEW pr
  PROVE  classify(le, re, have, pl, pr)[2] \in Actions
BY DEF classify, heuristic_diff, Actions

\* ... and an accepted plan is one a run may carry out.
LEMMA PlanTyped ==
  ASSUME PlanConflicts = {}, NEW p \in Paths
  PROVE  /\ PinnedAction(p) \in Todo
         /\ run.fallback \/ p \in Pinned => PinnedAction(p) \notin Rewrites
<1>1. Acting({"diverged"}) = {} /\ ~FallbackMutations
  BY DEF PlanConflicts
<1>2. Planned(p)[2] \in Actions
  BY ActionTyped DEF Planned
<1>3. p \notin Disputed => Planned(p)[2] # "abort-conflict"
  BY DEF Disputed
<1>4. PinnedAction(p) # "diverged"
  BY <1>1 DEF Acting
<1>5. run.fallback => PinnedAction(p) \notin Rewrites
  BY <1>1 DEF FallbackMutations, Acting, Rewrites
<1>6. PinnedAction(p) \in Todo
  BY <1>2, <1>3, <1>4 DEF PinnedAction, Actions, Todo
<1>7. p \in Pinned => PinnedAction(p) \notin Rewrites
  BY <1>2, <1>3, <1>4 DEF PinnedAction, Actions, Rewrites
<1> QED
  BY <1>5, <1>6, <1>7

\* A run that ends leaves nothing in memory.
LEMMA EndShape ==
  ASSUME ShapeOK, NEW result, EndRun(result), local' \in Trees, rootUp' \in Roots,
         UNCHANGED <<remote, base, stamp, mixed>>
  PROVE  ShapeOK' /\ SparedInv'
BY FreshTyped DEF ShapeOK, FlightOK, Aloft, EndRun, Phases, Reconciling, PullingBack, SparedInv

\* The steps of the other writers.
LEMMA ExternalShape ==
  ASSUME ShapeOK, SparedInv, External
  PROVE  ShapeOK' /\ SparedInv'
<1>1. ShapeOK'
  <2>1. stamp' \in 0..MaxEvents /\ UNCHANGED <<base, run, pc, mixed>>
    BY ReconcileAssumption DEF External, LocalWrite, LocalDelete, RemoteWrite, RemoteDelete,
       Deliver, Vanish, Tick, Idle, ShapeOK
  <2>2. rootUp' \in Roots
    BY DEF External, LocalWrite, LocalDelete, RemoteWrite, RemoteDelete, Deliver, Vanish, Idle,
       ShapeOK, Roots
  <2>3. local' \in Trees /\ remote' \in Trees
    <3>1. \A c \in Contents : [content |-> c, mtime |-> stamp] \in Files
      BY ReconcileAssumption DEF Files, File, ShapeOK
    <3>2. Empty \in Trees
      BY FreshTyped
    <3> QED
      BY <3>1, <3>2 DEF External, LocalWrite, LocalDelete, RemoteWrite, RemoteDelete,
         Deliver, Vanish, Idle, ShapeOK, Trees, Files
  <2> QED
    BY <2>1, <2>2, <2>3 DEF ShapeOK, FlightOK
<1>2. UNCHANGED <<run, pc>>
  BY DEF External, LocalWrite, LocalDelete, RemoteWrite, RemoteDelete, Deliver, Vanish, Idle
<1> QED
  BY <1>1, <1>2 DEF SparedInv

\* A transfer is ticked off.
LEMMA TickedOff ==
  ASSUME run \in RunType, NEW p \in Paths, NEW x, x \in {Done(p), Wrote(p), Removed(p)}
  PROVE  /\ x \in RunType /\ x.fallback = run.fallback
         /\ x.todo = [run.todo EXCEPT ![p] = "none"]
         /\ \A q \in Paths : x.todo[q] \in {run.todo[q], "none"}
         /\ x.lman = run.lman /\ x.rman = run.rman /\ x.fl = run.fl /\ x.fr = run.fr
         /\ x.snap = run.snap
<1> DEFINE t == [run.todo EXCEPT ![p] = "none"]
<1>1. t \in [Paths -> Todo] /\ \A q \in Paths : t[q] \in {run.todo[q], "none"}
  BY DEF RunType, Todo
<1>2. /\ Done(p) = [run EXCEPT !.todo = t, !.touched = run.touched \cup {p}, !.flying = NoFile]
      /\ Removed(p) = [run EXCEPT !.todo = t, !.flying = NoFile, !.mutated = TRUE]
  BY DEF Done, Removed, RunType
<1> DEFINE Ticked(y) == /\ y \in RunType /\ y.fallback = run.fallback /\ y.todo = t
                        /\ y.lman = run.lman /\ y.rman = run.rman /\ y.fl = run.fl /\ y.fr = run.fr
                        /\ y.snap = run.snap
<1> HIDE DEF t
<1>3. Ticked(Done(p)) /\ Ticked(Removed(p))
  <2> DEFINE d == Done(p)
             m == Removed(p)
  <2>1. run.touched \cup {p} \in SUBSET Paths
    BY DEF RunType
  <2>2. d = [run EXCEPT !.todo = t, !.touched = run.touched \cup {p}, !.flying = NoFile]
    BY <1>2
  <2>3. m = [run EXCEPT !.todo = t, !.flying = NoFile, !.mutated = TRUE]
    BY <1>2
  <2> HIDE DEF d, m
  <2>4. Ticked(d)
    BY <1>1, <2>1, <2>2 DEF RunType
  <2>5. Ticked(m)
    BY <1>1, <2>3 DEF RunType
  <2> QED
    BY <2>4, <2>5 DEF d, m
<1>4. Ticked(Wrote(p))
  <2>1. Wrote(p) = [Done(p) EXCEPT !.mutated = TRUE]
    BY DEF Wrote
  <2> QED
    BY <1>3, <2>1 DEF RunType
<1>5. Ticked(x)
  BY <1>3, <1>4
<1> QED
  BY <1>1, <1>5 DEF t

\* Back to the list of transfers.
LEMMA ApplyShape ==
  ASSUME ShapeOK, SparedInv, pc \in Reconciling, pc' = "apply", UNCHANGED base, NEW p \in Paths,
         run' \in {Done(p), Wrote(p), Removed(p)}, stamp' \in 0..MaxEvents,
         mixed' \in [Paths -> SUBSET Nat], local' \in Trees, remote' \in Trees, rootUp' \in Roots
  PROVE  ShapeOK' /\ SparedInv'
<1>1. run \in RunType
  BY DEF ShapeOK
<1>2. /\ run' \in RunType /\ run'.fallback = run.fallback
      /\ \A q \in Paths : run'.todo[q] \in {run.todo[q], "none"}
  BY <1>1, TickedOff
<1> QED
  BY <1>2 DEF ShapeOK, FlightOK, Aloft, SparedInv, Rewrites, Reconciling, PullingBack, Phases

\* The file a copy installs, and what becomes of the mtimes.
LEMMA LandingTyped ==
  ASSUME ShapeOK, pc \in {"pre-install", "post-install"}, run.flying.kind \in Copies,
         NEW p \in Paths, NEW src \in Files, NEW f \in Landing(src), Lands(p, src, f)
  PROVE  f \in File /\ stamp' \in 0..MaxEvents /\ mixed' \in [Paths -> SUBSET Nat]
<1>1. /\ run.flying.first \in File /\ stamp \in Nat /\ stamp \in 0..MaxEvents /\ MaxEvents \in Nat
      /\ mixed \in [Paths -> SUBSET Nat]
  BY ReconcileAssumption DEF ShapeOK, FlightOK, Aloft, Flights, Files
<1>2. f \in File
  BY <1>1 DEF Landing, Files, File
<1>3. mixed' \in [Paths -> SUBSET Nat]
  BY <1>1, <1>2 DEF Lands, File
<1>4. stamp' \in 0..MaxEvents
  BY <1>1 DEF Lands, Tick
<1> QED
  BY <1>2, <1>3, <1>4

\* Between the re-check of a transfer and its install.
LEMMA ReadShape ==
  ASSUME ShapeOK, SparedInv, BackUpAndRead
  PROVE  ShapeOK' /\ SparedInv'
<1> DEFINE p == run.flying.path
           kind == run.flying.kind
           g == [run.flying EXCEPT !.first = Source(kind, p),
                                   !.over = IF kind = "push" THEN NoFile ELSE local[p]]
<1>1. /\ pc \in {"pre-copy", "post-copy"} /\ run \in RunType /\ run.flying \in Flights
      /\ p \in Paths /\ local[p] \in Files /\ remote[p] \in Files
  BY DEF BackUpAndRead, ShapeOK, FlightOK, Aloft, Flights, Trees
<1>2. Source(kind, p) \in Files /\ (kind \in Copies => Source(kind, p) # NoFile)
  BY <1>1 DEF Source, BackUpAndRead, Copies, Files
<1>3. g \in Flights /\ g.kind = kind /\ g.path = p /\ g.want = run.flying.want
        /\ g.first = Source(kind, p)
  BY <1>1, <1>2 DEF Flights, Files
<1>4. /\ run' = [run EXCEPT !.flying = g]
      /\ pc' = IF pc = "pre-copy" THEN "pre-install" ELSE "post-install"
      /\ UNCHANGED <<local, remote, rootUp, base, stamp, mixed>>
  BY <1>1 DEF BackUpAndRead, RunType, Flights
<1> HIDE DEF g
<1>5. /\ run' \in RunType /\ run'.flying = g /\ run'.fallback = run.fallback /\ run'.todo = run.todo
      /\ run'.fr = run.fr
  BY <1>1, <1>3, <1>4 DEF RunType
<1>6. FlightOK'
  BY <1>1, <1>2, <1>3, <1>4, <1>5 DEF FlightOK, Aloft, ShapeOK
<1>7. SparedInv'
  BY <1>1, <1>3, <1>4, <1>5 DEF SparedInv, Reconciling
<1> QED
  BY <1>1, <1>4, <1>5, <1>6, <1>7 DEF ShapeOK, Phases, Reconciling, PullingBack

\* The steps before the command.
LEMMA PreflightShape ==
  ASSUME ShapeOK, SparedInv, Preflight
  PROVE  ShapeOK' /\ SparedInv'
<1> USE DEF Phases, Reconciling, PullingBack, Aloft, FlightOK
<1>0. /\ local \in Trees /\ remote \in Trees /\ rootUp \in Roots
      /\ base \in BaseType /\ run \in RunType /\ stamp \in 0..MaxEvents
      /\ mixed \in [Paths -> SUBSET Nat]
  BY DEF ShapeOK
<1>1. ASSUME NEW fallback \in BOOLEAN, NEW scoped \in BOOLEAN, StartRun(fallback, scoped)
      PROVE  ShapeOK' /\ SparedInv'
  <2>1. /\ run' = [FreshRun EXCEPT !.fallback = fallback, !.scoped = scoped]
        /\ pc' = "manifest-local" /\ UNCHANGED <<local, remote, rootUp, base, stamp, mixed>>
    BY <1>1 DEF StartRun
  <2>2. run' \in RunType /\ run'.mutated = FreshRun.mutated
    BY <2>1, FreshTyped DEF RunType
  <2>3. ~FreshRun.mutated
    BY DEF FreshRun
  <2> QED
    BY <1>0, <2>1, <2>2, <2>3 DEF ShapeOK, SparedInv
<1>2. CASE ManifestLocal \/ ManifestRemote
  <2>1. Manifest(local) \in Listings /\ Manifest(remote) \in Listings
    BY <1>0, ManifestTyped
  <2> QED
    BY ZenonT(40), <1>0, <1>2, <2>1 DEF
       ManifestLocal, ManifestRemote, ShapeOK, SparedInv, RunType, Trees
<1>3. CASE PlanRefused \/ PlanUnproved \/ VerifyRefused
  BY <1>0, <1>3, EndShape DEF PlanRefused, PlanUnproved, VerifyRefused, PreflightConflict
<1>4. CASE PlanAccepted
  <2> DEFINE acts == [p \in Paths |-> PinnedAction(p)]
  <2>1. /\ acts \in [Paths -> Todo] /\ Disputed \in SUBSET Paths
        /\ \A p \in Paths : run.fallback \/ p \in Pinned => acts[p] \notin Rewrites
    BY <1>4, PlanTyped DEF PlanAccepted, Disputed
  <2>2. run' = [run EXCEPT !.todo = acts, !.touched = Disputed] /\ pc' = "apply"
    BY <1>4 DEF PlanAccepted
  <2> HIDE DEF acts
  <2>3. /\ run' \in RunType /\ run'.todo = acts /\ run'.fallback = run.fallback
    BY <1>0, <2>1, <2>2 DEF RunType
  <2>4. rootUp' \in Roots /\ UNCHANGED <<local, remote, base, stamp, mixed>>
    BY <1>0, <1>4 DEF PlanAccepted, Roots
  <2> QED
    BY <1>0, <2>1, <2>2, <2>3, <2>4 DEF ShapeOK, SparedInv
<1>5. ASSUME NEW p \in Paths, SkipIdentical(p) \/ ApplyDeleteRemote(p)
      PROVE  ShapeOK' /\ SparedInv'
  <2>1. /\ pc = "apply" /\ UNCHANGED <<pc, base, stamp, local, rootUp, mixed>>
        /\ run' \in {Done(p), Wrote(p), Removed(p)}
    BY <1>5 DEF SkipIdentical, ApplyDeleteRemote
  <2>2. remote' \in Trees
    BY <1>0, <1>5 DEF SkipIdentical, ApplyDeleteRemote, Trees, Files
  <2> QED
    BY <1>0, <2>1, <2>2, ApplyShape
<1>6. ASSUME NEW p \in Paths, ApplyPull(p) \/ ApplyPush(p) \/ ApplyDeleteLocal(p)
      PROVE  ShapeOK' /\ SparedInv'
  <2>1. PICK kind \in {"pull", "push", "unlink"} :
          pc = "apply" /\ TakesOff(p, kind) /\ (kind # "push" => run.todo[p] \in Rewrites)
    BY <1>6 DEF ApplyPull, ApplyPush, ApplyDeleteLocal, Rewrites
  <2> DEFINE g == Flight(p, kind, NoHash, FALSE)
  <2>2. g \in Flights /\ g.kind = kind /\ g.path = p
    BY DEF Flight, Flights, Kinds, Copies, Files
  <2>3. /\ run' = [run EXCEPT !.flying = g] /\ pc' = "pre-copy"
        /\ UNCHANGED <<local, remote, rootUp, base, stamp, mixed>>
    BY <2>1 DEF TakesOff
  <2> HIDE DEF g
  <2>4. run' \in RunType /\ run'.flying = g /\ run'.fallback = run.fallback /\ run'.todo = run.todo
    BY <1>0, <2>2, <2>3 DEF RunType
  <2>5. kind # "push" => ~run.fallback /\ p \notin Pinned
    BY <2>1 DEF SparedInv
  <2> QED
    BY <1>0, <2>1, <2>2, <2>3, <2>4, <2>5 DEF ShapeOK, SparedInv
<1>7. CASE InstallPull \/ CommitPush
  <2>1. /\ run.flying.kind \in Copies /\ pc = "pre-install" /\ run.flying.path \in Paths
        /\ run' = Wrote(run.flying.path) /\ pc' = "apply" /\ UNCHANGED base
    BY <1>7 DEF InstallPull, CommitPush, Copies, ShapeOK, Flights
  <2>2. PICK src \in Files : \E f \in Landing(src) :
          /\ Lands(run.flying.path, src, f)
          /\ \/ /\ local' = [local EXCEPT ![run.flying.path] = f] /\ UNCHANGED remote
                /\ rootUp' = [rootUp EXCEPT !.local = TRUE]
             \/ /\ remote' = [remote EXCEPT ![run.flying.path] = f] /\ UNCHANGED local
                /\ rootUp' = [rootUp EXCEPT !.remote = TRUE]
    BY <1>0, <1>7, <2>1 DEF InstallPull, CommitPush, Trees
  <2>5. PICK f \in Landing(src) :
          /\ Lands(run.flying.path, src, f)
          /\ \/ /\ local' = [local EXCEPT ![run.flying.path] = f] /\ UNCHANGED remote
                /\ rootUp' = [rootUp EXCEPT !.local = TRUE]
             \/ /\ remote' = [remote EXCEPT ![run.flying.path] = f] /\ UNCHANGED local
                /\ rootUp' = [rootUp EXCEPT !.remote = TRUE]
    BY <2>2
  <2>3. f \in File /\ stamp' \in 0..MaxEvents /\ mixed' \in [Paths -> SUBSET Nat]
    BY <2>1, <2>5, LandingTyped
  <2>4. local' \in Trees /\ remote' \in Trees /\ rootUp' \in Roots
    BY ZenonT(40), <1>0, <2>1, <2>5, <2>3 DEF Trees, Roots, Files
  <2> QED
    BY <2>1, <2>3, <2>4, ApplyShape
<1>8. CASE Unlink
  <2>1. /\ run.flying.path \in Paths /\ run' = Removed(run.flying.path) /\ pc = "pre-install"
        /\ pc' = "apply" /\ UNCHANGED <<remote, rootUp, base, stamp, mixed>>
        /\ local' = [local EXCEPT ![run.flying.path] = NoFile]
    BY <1>8 DEF Unlink, ShapeOK, Flights
  <2>2. local' \in Trees
    BY <1>0, <2>1 DEF Trees, Files
  <2> QED
    BY <1>0, <2>1, <2>2, ApplyShape
<1>9. CASE FinalLocal \/ FinalRemote
  <2>1. Manifest(local) \in Listings /\ Manifest(remote) \in Listings
    BY <1>0, ManifestTyped
  <2>2. run' \in RunType
    <3>1. CASE run' = [run EXCEPT !.fl = Manifest(local), !.snap = local]
      BY <1>0, <2>1, <3>1 DEF RunType, Trees
    <3>2. CASE run' = [run EXCEPT !.fr = Manifest(remote)]
      BY <1>0, <2>1, <3>2 DEF RunType
    <3> QED
      BY <1>9, <3>1, <3>2 DEF FinalLocal, FinalRemote
  <2> QED
    BY <1>0, <1>9, <2>2 DEF FinalLocal, FinalRemote, ShapeOK, SparedInv
<1>10. CASE VerifyAccepted
  <2> DEFINE l == [p \in Paths |-> RecordedLocal(p)]
             r == [p \in Paths |-> RecordedRemote(p)]
             sn == [p \in Paths |-> IF ByHashNow(p) THEN local[p] ELSE run.snap[p]]
  <2>1. ASSUME NEW p \in Paths
        PROVE  RecordedLocal(p) \in EntryOrNone /\ RecordedRemote(p) \in EntryOrNone
    <3>1. CASE ByHashNow(p)
      <4>1. local[p] \in File /\ run.fr[p] \in Entry
        <5>1. local[p] # NoFile /\ run.fr[p] # NoFile
          BY <1>10, <3>1 DEF VerifyAccepted, Verified, ByHashNow, FreshPair
        <5> QED
          BY <1>0, <5>1 DEF Trees, Files, RunType, Listings, EntryOrNone
      <4> QED
        BY <3>1, <4>1, SizeAssumption DEF RecordedLocal, RecordedRemote, StrongEntry, File, Entry,
           EntryOrNone
    <3>2. CASE ~ByHashNow(p)
      BY <1>0, <3>2 DEF RecordedLocal, RecordedRemote, RunType, Listings
    <3> QED
      BY <3>1, <3>2
  <2>2. l \in Listings /\ r \in Listings /\ sn \in [Paths -> Files]
    BY <1>0, <2>1 DEF Listings, RunType, Trees
  <2>3. /\ base' = [have |-> TRUE, l |-> l, r |-> r] /\ pc' = "exec"
        /\ run' = [run EXCEPT !.lman = l, !.rman = r, !.fl = Empty, !.fr = Empty,
                              !.touched = {}, !.snap = sn]
        /\ UNCHANGED <<local, remote, rootUp, stamp, mixed>>
    BY <1>10 DEF VerifyAccepted
  <2> HIDE DEF l, r, sn
  <2>4. run' \in RunType /\ base' \in BaseType
    BY <1>0, <2>2, <2>3, FreshTyped DEF RunType, BaseType
  <2> QED
    BY <1>0, <2>3, <2>4 DEF ShapeOK, SparedInv
<1> QED
  BY <1>1, <1>2, <1>3, <1>4, <1>5, <1>6, <1>7, <1>8, <1>9, <1>10 DEF Preflight

\* A path is given up ...
LEMMA ClashTyped ==
  ASSUME run \in RunType, NEW p \in Paths
  PROVE  /\ Clash(p) \in RunType
         /\ Clash(p).todo = [run.todo EXCEPT ![p] = "untouched"]
         /\ Clash(p).fl = run.fl /\ Clash(p).fr = run.fr
         /\ Clash(p).lman = run.lman /\ Clash(p).rman = run.rman
         /\ Clash(p).touched = run.touched /\ Clash(p).snap = run.snap
<1>1. [run.todo EXCEPT ![p] = "untouched"] \in [Paths -> Todo]
  BY DEF RunType, Todo
<1> QED
  BY <1>1 DEF Clash, Untodo, RunType

\* ... or attributed.
Attributed(x, p, l, r) ==
  /\ x \in RunType /\ x.todo = [run.todo EXCEPT ![p] = "untouched"]
  /\ x.fl = run.fl /\ x.fr = run.fr
  /\ x.lman = [run.lman EXCEPT ![p] = l] /\ x.rman = [run.rman EXCEPT ![p] = r]
  /\ x.touched = run.touched \cup {p} /\ x.snap = run.snap

\* An attribution changes one path's pair of entries and nothing else that a
\* later decision reads.
LEMMA AdvanceTyped ==
  ASSUME run \in RunType, NEW p \in Paths, NEW l \in EntryOrNone, NEW r \in EntryOrNone
  PROVE  /\ Attributed(Advance(p, l, r), p, l, r)
         /\ Attributed([Advance(p, l, r) EXCEPT !.mutated = TRUE], p, l, r)
<1> DEFINE todo == [run.todo EXCEPT ![p] = "untouched"]
           lman == [run.lman EXCEPT ![p] = l]
           rman == [run.rman EXCEPT ![p] = r]
           y == Advance(p, l, r)
<1>1. todo \in [Paths -> Todo] /\ lman \in Listings /\ rman \in Listings
  BY DEF RunType, Listings, Todo
<1>2. y = [run EXCEPT !.todo = todo, !.lman = lman, !.rman = rman,
                      !.touched = run.touched \cup {p}, !.flying = NoFile]
  BY DEF Advance, Untodo, RunType
<1> HIDE DEF todo, lman, rman, y
<1>3. /\ y \in RunType /\ y.todo = todo /\ y.fl = run.fl /\ y.fr = run.fr
      /\ y.lman = lman /\ y.rman = rman /\ y.snap = run.snap
      /\ y.touched = run.touched \cup {p}
  BY <1>1, <1>2 DEF RunType
<1>4. Attributed(y, p, l, r)
  BY <1>3 DEF Attributed, todo, lman, rman
<1>5. Attributed([y EXCEPT !.mutated = TRUE], p, l, r)
  BY <1>4 DEF Attributed, RunType
<1> QED
  BY <1>4, <1>5 DEF y

\* The local file as it is read anew.
LEMMA FreshLocalTyped ==
  ASSUME local \in Trees, NEW p \in Paths, NEW size
  PROVE  /\ FreshLocal(p, size) \in EntryOrNone
         /\ FreshLocal(p, size) = NoFile <=> local[p] = NoFile
         /\ local[p] # NoFile =>
              /\ FreshLocal(p, size).size = SizeOf[local[p].content]
              /\ FreshLocal(p, size).mtime = local[p].mtime
              /\ FreshLocal(p, size).sha \in {local[p].content, NoHash}
              /\ SizeOf[local[p].content] = size => FreshLocal(p, size).sha = local[p].content
<1>1. local[p] \in Files
  BY DEF Trees
<1> QED
  BY <1>1, SizeAssumption, AbsentAssumption DEF FreshLocal, EntryOrNone, Entry, Files, File

\* The steps after the command.
LEMMA PullbackShape ==
  ASSUME ShapeOK, SparedInv, Pullback
  PROVE  ShapeOK' /\ SparedInv'
<1> USE DEF Phases, Reconciling, PullingBack, Aloft, FlightOK
<1>0. /\ local \in Trees /\ remote \in Trees /\ rootUp \in Roots
      /\ base \in BaseType /\ run \in RunType /\ stamp \in 0..MaxEvents
      /\ mixed \in [Paths -> SUBSET Nat]
  BY DEF ShapeOK
<1>1. CASE CommandEnds
  BY <1>0, <1>1, EndShape DEF CommandEnds, ShapeOK, SparedInv
<1>2. CASE PostRemote
  <2> DEFINE post == Manifest(remote)
             cur == Manifest(local)
             effect == [p \in Paths |-> diff_remote_change(run.rman[p], post[p])]
             changed == {p \in Paths : effect[p] = "changed"}
             todo == [p \in Paths |-> IF /\ p \in changed
                                         /\ LocalCollides(p, Present(cur), changed)
                                      THEN "collides" ELSE effect[p]]
  <2>1. todo \in [Paths -> Todo]
    BY DEF diff_remote_change, Todo
  <2>2. post \in Listings /\ cur \in Listings
    BY <1>0, ManifestTyped
  <2>3. /\ UNCHANGED <<local, remote, rootUp, base, stamp, mixed>>
        /\ \/ EndRun("post-conflict")
           \/ run' = [run EXCEPT !.todo = todo, !.fr = post, !.fl = cur] /\ pc' = "pullback"
    BY <1>2 DEF PostRemote
  <2>4. \A p \in Paths : todo[p] = "changed" => post[p] # NoFile
    BY DEF diff_remote_change
  <2> HIDE DEF post, cur, effect, changed, todo
  <2>5. CASE run' = [run EXCEPT !.todo = todo, !.fr = post, !.fl = cur] /\ pc' = "pullback"
    <3>1. run' \in RunType /\ run'.todo = todo /\ run'.fr = post
      BY <1>0, <2>1, <2>2, <2>5 DEF RunType
    <3> QED
      BY <1>0, <2>3, <2>4, <2>5, <3>1 DEF ShapeOK, SparedInv
  <2> QED
    BY <1>0, <2>3, <2>5, EndShape
<1>3. ASSUME NEW p \in Paths, pc \in PullingBack, pc' = "pullback",
             run' \in RunType, run'.todo = [run.todo EXCEPT ![p] = "untouched"],
             run'.fr = run.fr, local' \in Trees, mixed' \in [Paths -> SUBSET Nat],
             UNCHANGED <<remote, rootUp, base, stamp>>
      PROVE  ShapeOK' /\ SparedInv'
  <2>1. \A q \in Paths : run'.todo[q] = "changed" => run.todo[q] = "changed"
    BY <1>0, <1>3 DEF RunType
  <2> QED
    BY <1>0, <1>3, <2>1 DEF ShapeOK, SparedInv
<1>4. ASSUME NEW p \in Paths, \/ run' = Clash(p)
                              \/ \E l, r \in EntryOrNone : \/ run' = Advance(p, l, r)
                                                           \/ run' = [Advance(p, l, r) EXCEPT
                                                                        !.mutated = TRUE]
      PROVE  /\ run' \in RunType /\ run'.fr = run.fr
             /\ run'.todo = [run.todo EXCEPT ![p] = "untouched"]
  <2>1. CASE run' = Clash(p)
    BY <1>0, <2>1, ClashTyped
  <2>2. ASSUME NEW l \in EntryOrNone, NEW r \in EntryOrNone,
               run' = Advance(p, l, r) \/ run' = [Advance(p, l, r) EXCEPT !.mutated = TRUE]
        PROVE  Attributed(run', p, l, r)
    BY <1>0, <2>2, AdvanceTyped
  <2> QED
    BY <1>4, <2>1, <2>2 DEF Attributed
<1>5. ASSUME NEW p \in Paths, PullbackCollision(p) \/ PullbackUnhashed(p)
      PROVE  ShapeOK' /\ SparedInv'
  <2>1. /\ pc = "pullback" /\ pc' = "pullback" /\ run' = Clash(p)
        /\ UNCHANGED <<local, remote, rootUp, base, stamp, mixed>>
    BY <1>5 DEF PullbackCollision, PullbackUnhashed
  <2> QED
    BY <1>0, <1>3, <1>4, <2>1
<1>6. ASSUME NEW p \in Paths, HashOutput(p) PROVE ShapeOK' /\ SparedInv'
  <2> DEFINE late == run.fr[p].sha = NoHash /\ remote[p].mtime # run.fr[p].mtime
             g == Flight(p, "output", OutputHash(p), late)
  <2>1. /\ pc = "pullback" /\ run.todo[p] = "changed" /\ OutputHash(p) # NoHash
        /\ run' = [run EXCEPT !.flying = g] /\ pc' = "post-check"
        /\ UNCHANGED <<local, remote, rootUp, base, stamp, mixed>>
    BY <1>6 DEF HashOutput
  <2>2. run.fr[p] \in Entry /\ remote[p] \in Files /\ late \in BOOLEAN
    BY <1>0, <2>1 DEF ShapeOK, RunType, Listings, EntryOrNone, Trees
  <2>3. OutputHash(p) \in Contents
    BY <2>1, <2>2 DEF OutputHash, Entry, Files, File
  <2> HIDE DEF late
  <2>4. g \in Flights /\ g.kind = "output" /\ g.path = p /\ g.want = OutputHash(p)
    BY <2>2, <2>3 DEF Flight, Flights, Kinds, Copies, Files
  <2> HIDE DEF g
  <2>5. run' \in RunType /\ run'.flying = g /\ run'.todo = run.todo /\ run'.fr = run.fr
    BY <1>0, <2>1, <2>4 DEF RunType
  <2>6. run.fr[p] # NoFile
    BY <2>1 DEF ShapeOK
  <2> QED
    BY <1>0, <2>1, <2>3, <2>4, <2>5, <2>6 DEF ShapeOK, SparedInv
<1>7. CASE PullbackSkip \/ PullbackConflict \/ VerifyOutput
  <2> DEFINE p == run.flying.path
  <2>1. /\ pc \in PullingBack /\ pc \in Aloft /\ UNCHANGED <<local, remote, rootUp, base, stamp>>
        /\ \/ EndRun("error") /\ UNCHANGED mixed
           \/ run' = Clash(p) /\ pc' = "pullback" /\ UNCHANGED mixed
           \/ run' = Advance(p, LocalNow(p), run.fr[p]) /\ pc' = "pullback" /\ Paired(p)
    BY <1>7 DEF PullbackSkip, PullbackConflict, VerifyOutput
  <2>2. p \in Paths /\ run.flying.kind = "output" /\ run.fr[p] # NoFile
    BY <1>7, <2>1 DEF ShapeOK, Flights, PullbackSkip, PullbackConflict, VerifyOutput
  <2> HIDE DEF p
  <2>3. run.fr[p] \in Entry /\ LocalNow(p) \in EntryOrNone /\ run.fr[p] \in EntryOrNone
    BY <1>0, <2>2, FreshLocalTyped DEF LocalNow, RunType, Listings, EntryOrNone
  <2>4. Paired(p) => mixed' \in [Paths -> SUBSET Nat]
    BY <1>0, <2>2, <2>3 DEF Paired, Entry
  <2> QED
    BY ZenonT(40), <1>0, <1>3, <1>4, <2>1, <2>2, <2>3, <2>4, EndShape
<1>9. ASSUME NEW g \in Flights, run' = [run EXCEPT !.flying = g], pc \in PullingBack,
             pc' = "post-copy", UNCHANGED <<local, remote, rootUp, base, stamp, mixed>>,
             g.kind \in {"output", "mirror"},
             g.kind = "output" => g.want \in Contents /\ run.fr[g.path] # NoFile
      PROVE  ShapeOK' /\ SparedInv'
  <2>1. run' \in RunType /\ run'.flying = g /\ run'.todo = run.todo /\ run'.fr = run.fr
    BY <1>0, <1>9 DEF RunType
  <2> QED
    BY <1>0, <1>9, <2>1 DEF ShapeOK, SparedInv
<1>10. CASE PullbackPull
  <2> DEFINE g == [run.flying EXCEPT !.seen = local[run.flying.path]]
  <2>1. /\ pc = "post-check" /\ run.flying \in Flights /\ run.flying.kind = "output"
        /\ run.flying.want \in Contents /\ run.fr[run.flying.path] # NoFile
    BY <1>10 DEF PullbackPull, ShapeOK
  <2>2. local[run.flying.path] \in Files
    BY <1>0, <2>1 DEF Flights, Trees
  <2>3. g \in Flights /\ g.kind = "output" /\ g.want = run.flying.want
          /\ g.path = run.flying.path
    BY <2>1, <2>2 DEF Flights
  <2>4. /\ run' = [run EXCEPT !.flying = g] /\ pc' = "post-copy"
        /\ UNCHANGED <<local, remote, rootUp, base, stamp, mixed>>
    BY <1>0, <1>10, <2>1 DEF PullbackPull, RunType, Flights
  <2> HIDE DEF g
  <2> QED
    BY <1>9, <2>1, <2>3, <2>4
<1>11. ASSUME NEW p \in Paths, PullbackDelete(p) PROVE ShapeOK' /\ SparedInv'
  <2>1. pc = "pullback" /\ UNCHANGED <<local, remote, rootUp, base, stamp, mixed>>
    BY <1>11 DEF PullbackDelete
  <2>2. NoFile \in EntryOrNone
    BY DEF EntryOrNone
  <2>3. CASE pc' = "pullback" /\ (run' = Clash(p) \/ run' = Advance(p, NoFile, NoFile))
    BY <1>0, <1>3, <1>4, <2>1, <2>2, <2>3
  <2> DEFINE g == [Flight(p, "mirror", NoHash, FALSE) EXCEPT !.seen = local[p]]
  <2>4. CASE pc' = "post-copy" /\ run' = [run EXCEPT !.flying = g]
    <3>1. g \in Flights /\ g.kind = "mirror"
      BY <1>0 DEF Flight, Flights, Kinds, Files, Trees
    <3> HIDE DEF g
    <3> QED
      BY <1>9, <2>1, <2>4, <3>1
  <2> QED
    BY <1>11, <2>1, <2>3, <2>4 DEF PullbackDelete
<1>12. CASE InstallOutput
  <2>1. /\ run.flying.kind \in Copies /\ pc = "post-install" /\ run.flying.path \in Paths
        /\ run' = [run EXCEPT !.mutated = TRUE] /\ pc' = "post-verify" /\ UNCHANGED <<remote, base>>
        /\ run.flying.kind = "output"
    BY <1>12 DEF InstallOutput, Copies, ShapeOK, Flights
  <2>2. remote[run.flying.path] \in Files
    BY <1>0, <2>1 DEF Trees
  <2>6. PICK f \in Landing(remote[run.flying.path]) :
          /\ Lands(run.flying.path, remote[run.flying.path], f)
          /\ local' = [local EXCEPT ![run.flying.path] = f]
          /\ rootUp' = [rootUp EXCEPT !.local = TRUE]
    BY <1>12 DEF InstallOutput
  <2>3. f \in File /\ stamp' \in 0..MaxEvents /\ mixed' \in [Paths -> SUBSET Nat]
    BY <2>1, <2>2, <2>6, LandingTyped
  <2>4. local' \in Trees /\ rootUp' \in Roots
    BY <1>0, <2>1, <2>6, <2>3 DEF Trees, Roots, Files
  <2>5. run' \in RunType /\ run'.flying = run.flying /\ run'.todo = run.todo /\ run'.fr = run.fr
    BY <1>0, <2>1 DEF RunType
  <2> QED
    BY <1>0, <2>1, <2>3, <2>4, <2>5 DEF ShapeOK, SparedInv
<1>13. CASE MirrorDeletion
  <2>1. /\ run.flying.path \in Paths /\ pc = "post-install" /\ pc' = "pullback"
        /\ run' = [Advance(run.flying.path, NoFile, NoFile) EXCEPT !.mutated = TRUE]
        /\ local' = [local EXCEPT ![run.flying.path] = NoFile]
        /\ UNCHANGED <<remote, rootUp, base, stamp, mixed>>
    BY <1>13 DEF MirrorDeletion, ShapeOK, Flights
  <2>2. local' \in Trees /\ NoFile \in EntryOrNone
    BY <1>0, <2>1 DEF Trees, Files, EntryOrNone
  <2> QED
    BY <1>0, <1>3, <1>4, <2>1, <2>2
<1>8. CASE FinishRun
  <2>1. run' = FreshRun /\ pc' = "idle" /\ UNCHANGED <<local, remote, rootUp, stamp, mixed>>
    BY <1>8 DEF FinishRun, EndRun
  <2>2. base' \in BaseType
    <3>1. [have |-> TRUE, l |-> run.lman, r |-> run.rman] \in BaseType
      BY <1>0 DEF RunType, BaseType
    <3> QED
      BY <1>0, <1>8, <3>1 DEF FinishRun
  <2> QED
    BY <1>0, <2>1, <2>2, FreshTyped DEF ShapeOK, SparedInv
<1> QED
  BY <1>1, <1>2, <1>5, <1>6, <1>7, <1>8, <1>10, <1>11, <1>12, <1>13 DEF Pullback

\* Types, and what planning promises, hold of every step.
LEMMA ShapeStep == ShapeOK /\ SparedInv /\ [Next]_vars => ShapeOK' /\ SparedInv'
<1> SUFFICES ASSUME ShapeOK, SparedInv, [Next]_vars PROVE ShapeOK' /\ SparedInv'
  OBVIOUS
<1>1. CASE Abort
  BY <1>1, EndShape DEF Abort, ShapeOK
<1>2. CASE UNCHANGED vars
  BY <1>2 DEF vars, ShapeOK, FlightOK, SparedInv
<1> QED
  BY <1>1, <1>2, ExternalShape, PreflightShape, ReadShape, PullbackShape DEF Next

\* The trees, the baseline, the phase and the manifests of a run have the
\* types that every planning decision counts on.
THEOREM ReconcileTypes == Spec => []TypeOK
<1>1. Init => ShapeOK /\ SparedInv
  BY InitShape DEF Init, SparedInv, Reconciling
<1>2. ShapeOK => TypeOK
  BY DEF ShapeOK, TypeOK, Trees, Roots, BaseType, RunType, Listings, Todo, Actions
<1> QED
  BY <1>1, <1>2, ShapeStep, PTL DEF Spec

-----------------------------------------------------------------------------
(* What remrun does to the controller's files.                             *)

\* Another writer moves no run, and every event of it is counted.
LEMMA ExternalTicks ==
  ASSUME ShapeOK, External
  PROVE  stamp' = stamp + 1 /\ UNCHANGED <<base, run, pc, backups, mixed>> /\ ~Ours
BY DEF External, LocalWrite, LocalDelete, RemoteWrite, RemoteDelete, Deliver, Vanish, Tick, Idle,
   ShapeOK, Ours

(* The steps of remrun that write the controller's tree.                   *)
Writes == InstallPull \/ Unlink \/ InstallOutput \/ MirrorDeletion

\* A step of remrun changes the controller's tree at one path at most, the one
\* whose transfer is under way.
LEMMA WritersOf ==
  ASSUME ShapeOK, [Next]_vars, Ours
  PROVE  \/ UNCHANGED local
         \/ Writes /\ \A q \in Paths \ {run.flying.path} : local'[q] = local[q]
<1>1. CASE Writes
  BY <1>1 DEF Writes, InstallPull, Unlink, InstallOutput, MirrorDeletion, ShapeOK, Trees
<1>2. CASE Preflight
  <2>1. UNCHANGED local \/ InstallPull \/ Unlink
    BY <1>2 DEF Preflight, StartRun, ManifestLocal, ManifestRemote, PlanRefused, PlanUnproved,
       PlanAccepted, PreflightConflict, SkipIdentical, ApplyPull, ApplyPush, ApplyDeleteLocal,
       TakesOff, ApplyDeleteRemote, CommitPush, FinalLocal, FinalRemote, VerifyRefused,
       VerifyAccepted
  <2> QED
    BY <1>1, <2>1 DEF Writes
<1>3. CASE Pullback
  <2>1. UNCHANGED local \/ InstallOutput \/ MirrorDeletion
    BY <1>3 DEF Pullback, CommandEnds, PostRemote, PullbackCollision, PullbackUnhashed,
       HashOutput, PullbackSkip, PullbackConflict, PullbackPull, PullbackDelete, VerifyOutput,
       FinishRun
  <2> QED
    BY <1>1, <2>1 DEF Writes
<1>4. CASE BackUpAndRead \/ Abort \/ UNCHANGED vars
  BY <1>4 DEF BackUpAndRead, Abort, vars
<1> QED
  BY <1>2, <1>3, <1>4, ExternalTicks DEF Next

\* An attempt ends as retryable only where its plan was made.
LEMMA RetryableAtPlan ==
  ASSUME ShapeOK, [Next]_vars, outcome' = "conflict-retryable", outcome # "conflict-retryable"
  PROVE  pc = "plan"
<1>1. ~Abort /\ ~External /\ ~BackUpAndRead /\ ~UNCHANGED vars
  BY DEF Abort, EndRun, vars, External, LocalWrite, LocalDelete, RemoteWrite, RemoteDelete,
     Deliver, Vanish, Idle, BackUpAndRead
<1>2. ~conflicts_are_candidate_local({"preflight-changed"})
  BY DEF conflicts_are_candidate_local, CandidateLocal
<1>3. CASE Preflight
  <2>1. ASSUME VerifyRefused PROVE FALSE
    BY <1>2, <2>1 DEF VerifyRefused, PreflightConflict, EndRun
  <2>2. PlanRefused \/ PlanUnproved
    BY <1>3, <2>1 DEF Preflight, StartRun, ManifestLocal, ManifestRemote, PlanAccepted,
       SkipIdentical, ApplyPull, ApplyPush, ApplyDeleteRemote, ApplyDeleteLocal, TakesOff,
       InstallPull, CommitPush, Unlink, FinalLocal, FinalRemote, VerifyAccepted
  <2> QED
    BY <2>2 DEF PlanRefused, PlanUnproved
<1>4. CASE Pullback
  BY <1>4 DEF Pullback, CommandEnds, PostRemote, PullbackCollision, PullbackUnhashed, HashOutput,
     PullbackSkip, PullbackConflict, PullbackPull, PullbackDelete, InstallOutput, VerifyOutput,
     MirrorDeletion, FinishRun, EndRun
<1> QED
  BY <1>1, <1>3, <1>4 DEF Next

\* Trying a candidate leaves no trace on the controller, and one that is given
\* up as retryable has written nothing on either side, however many paths,
\* pinned inputs and writers there are.
THEOREM ShoppingLeavesNoTrace == Spec => ShoppingKeepsController
<1>1. Init => ShapeOK /\ SparedInv
  BY InitShape DEF Init, SparedInv, Reconciling
<1>2. ASSUME ShapeOK, SparedInv, [Next]_vars, Ours, pc \in Reconciling,
             NEW p \in Paths, run.fallback \/ p \in Pinned
      PROVE  local'[p] = local[p]
  <2>1. Writes => p # run.flying.path
    BY <1>2 DEF Writes, InstallPull, Unlink, InstallOutput, MirrorDeletion, SparedInv, Reconciling
  <2> QED
    BY <1>2, <2>1, WritersOf
<1>3. ASSUME ShapeOK, SparedInv, [Next]_vars, outcome' = "conflict-retryable",
             outcome # "conflict-retryable"
      PROVE  ~run.mutated
  BY <1>3, RetryableAtPlan DEF SparedInv
<1>4. ShapeOK /\ SparedInv /\ [Next]_vars =>
        [/\ \A p \in Paths :
               Ours /\ pc \in Reconciling /\ (run.fallback \/ p \in Pinned)
               => local'[p] = local[p]
         /\ outcome' = "conflict-retryable" /\ outcome # "conflict-retryable"
               => ~run.mutated]_vars
  BY <1>2, <1>3
<1> QED
  BY <1>1, <1>4, ShapeStep, PTL DEF Spec, ShoppingKeepsController

(* The backup of a transfer that is about to write the controller's tree.  *)
BackupInv ==
  /\ pc \in {"pre-install", "post-install"} /\ run.flying.kind # "push"
  /\ run.flying.over # NoFile /\ SizeOf[run.flying.over.content] <= BackupBelow
  => <<run.flying.path, run.flying.over.content>> \in backups

\* It is taken before the transfer reads its source.
LEMMA BackupStep == ShapeOK /\ BackupInv /\ [Next]_vars => BackupInv'
<1> SUFFICES ASSUME ShapeOK, BackupInv, [Next]_vars PROVE BackupInv'
  OBVIOUS
<1>1. CASE BackUpAndRead
  <2> DEFINE p == run.flying.path
             o == IF run.flying.kind = "push" THEN NoFile ELSE local[p]
  <2>1. run.flying \in Flights /\ run \in RunType
    BY <1>1 DEF BackUpAndRead, ShapeOK, FlightOK, Aloft
  <2>2. /\ run'.flying.path = p /\ run'.flying.over = o /\ run'.flying.kind = run.flying.kind
        /\ backups' = IF run.flying.kind = "push" THEN backups ELSE Backup(p)
    BY <1>1, <2>1 DEF BackUpAndRead, RunType, Flights
  <2> QED
    BY <2>2 DEF BackupInv, Backup
<1>2. CASE External \/ UNCHANGED vars
  BY <1>2, ExternalTicks DEF BackupInv, vars
<1>3. CASE Preflight
  BY <1>3 DEF BackupInv, Preflight, StartRun, ManifestLocal, ManifestRemote, PlanRefused,
     PlanUnproved, PlanAccepted, PreflightConflict, EndRun, SkipIdentical, ApplyPull, ApplyPush,
     ApplyDeleteRemote, ApplyDeleteLocal, TakesOff, InstallPull, CommitPush, Unlink, FinalLocal,
     FinalRemote, VerifyRefused, VerifyAccepted
<1>4. CASE Pullback \/ Abort
  BY <1>4 DEF BackupInv, Abort, Pullback, CommandEnds, PostRemote, PullbackCollision,
     PullbackUnhashed, HashOutput, PullbackSkip, PullbackConflict, PullbackPull, PullbackDelete,
     InstallOutput, VerifyOutput, MirrorDeletion, FinishRun, EndRun
<1> QED
  BY <1>1, <1>2, <1>3, <1>4 DEF Next

\* Whatever local content a run replaces or deletes is in its backup area, up
\* to the size cap, unless it was written after the backup was taken.
THEOREM ReplacedIsBackedUp == Spec => RecoverableLocal
<1>1. Init => ShapeOK /\ SparedInv /\ BackupInv
  BY InitShape DEF Init, SparedInv, BackupInv, Reconciling
<1>2. ASSUME ShapeOK, BackupInv, [Next]_vars, NEW p \in Paths, Ours, Loses(p),
             SizeOf[local[p].content] <= BackupBelow, local[p] = run.flying.over
      PROVE  <<p, local[p].content>> \in backups'
  <2>1. local'[p] # local[p] /\ local[p] # NoFile
    BY <1>2 DEF Loses
  <2>2. Writes /\ p = run.flying.path
    BY <1>2, <2>1, WritersOf
  <2>3. /\ backups' = backups /\ pc \in {"pre-install", "post-install"}
        /\ run.flying.kind # "push"
    BY <2>2 DEF Writes, InstallPull, Unlink, InstallOutput, MirrorDeletion
  <2> QED
    BY <1>2, <2>1, <2>2, <2>3 DEF BackupInv
<1>3. ShapeOK /\ BackupInv /\ [Next]_vars =>
        [\A p \in Paths : Ours /\ Loses(p) /\ SizeOf[local[p].content] <= BackupBelow
           => <<p, local[p].content>> \in backups' \/ local[p] # run.flying.over]_vars
  BY <1>2
<1> QED
  BY <1>1, <1>3, ShapeStep, BackupStep, PTL DEF Spec, RecoverableLocal

-----------------------------------------------------------------------------
(* Generations.  M is the set of mixed mtimes of a path.  Of one path no   *)
(* two files that are still about have one unmixed mtime, and no entry is  *)
(* from the future.                                                        *)
About(p) == {local[p], remote[p], run.snap[p]} \ {NoFile}
Alive(p) == {local[p], remote[p]} \ {NoFile}
Coherent(F, s, M) == /\ \A f \in F : f.mtime < s
                     /\ \A f, g \in F : f.mtime = g.mtime /\ f.mtime \notin M => f = g
Before(e, s) == e # NoFile => e.mtime < s

(* An entry as build_manifest lists it, and a listing that no later file   *)
(* contradicts.                                                            *)
Plain(e) == e # NoFile => (e.sha # NoHash <=> e.size <= HashBelow)
Listing(e, F, M) ==
  /\ Plain(e)
  /\ \A f \in F : e # NoFile /\ e.mtime = f.mtime /\ e.mtime \notin M => e = EntryOf(f)

(* An entry that can only be taken for a file with content k, by its hash  *)
(* or by an unmixed mtime, and a recorded pair: both sides absent, or both *)
(* taken for one content.                                                  *)
Denotes(e, k, F, M) ==
  /\ e.sha \in {k, NoHash} /\ (e.size <= HashBelow => e.sha = k)
  /\ \A f \in F : e.mtime = f.mtime /\ e.mtime \notin M /\ e.size = SizeOf[f.content]
                  => f.content = k
Pair(l, r, F, M) ==
  \/ l = NoFile /\ r = NoFile
  \/ /\ l # NoFile /\ r # NoFile
     /\ \E k \in Contents : Denotes(l, k, F, M) /\ Denotes(r, k, F, M)

Listed == {"manifest-local", "manifest-remote", "plan", "final-remote", "verify"}
            \cup {"apply", "pre-copy", "pre-install"}
Flown == {"post-check", "post-copy", "post-install", "post-verify"}
Attributing == {"exec", "post-remote", "pullback"} \cup Flown
PathInv(p) ==
  /\ Coherent(About(p), stamp, mixed[p])
  /\ Before(base.l[p], stamp) /\ Before(base.r[p], stamp)
  /\ Before(run.lman[p], stamp) /\ Before(run.rman[p], stamp)
  /\ Before(run.fl[p], stamp) /\ Before(run.fr[p], stamp)
  /\ Listing(run.fl[p], About(p), mixed[p]) /\ Listing(run.fr[p], About(p), mixed[p])
  /\ base.have => Pair(base.l[p], base.r[p], About(p), mixed[p])
  /\ pc \in Listed => Plain(run.lman[p]) /\ Plain(run.rman[p])
  /\ pc \in {"final-remote", "verify"} => run.fl[p] = EntryOf(run.snap[p])
  /\ pc \in Attributing =>
       /\ base.have /\ Pair(run.lman[p], run.rman[p], Alive(p), mixed[p])
       /\ entries_same(base.l[p], EntryOf(run.snap[p]))
       /\ p \notin run.touched => run.lman[p] = base.l[p] /\ run.rman[p] = base.r[p]
       /\ p \in run.touched => pc \notin {"exec", "post-remote"} /\ run.todo[p] = "untouched"

(* The transfer under way: what its first read found is of the past, the   *)
(* hash of an output is what its listing denotes (or apart says it is of   *)
(* another version), and pullback has seen the verified content.           *)
FlightInv ==
  LET p == run.flying.path IN
  /\ pc \in {"pre-install", "post-install"} => Before(run.flying.first, stamp)
  /\ pc \in Flown /\ run.flying.kind = "output" =>
       /\ Denotes(run.fr[p], run.flying.want, {}, mixed[p])
       /\ ~run.flying.apart => Denotes(run.fr[p], run.flying.want, About(p), mixed[p])
  /\ pc \in Flown => p \notin run.touched
  /\ pc \in {"post-copy", "post-install"} =>
       \/ run.flying.seen = NoFile \/ Mixed(p, run.lman[p])
       \/ ContentOf(run.flying.seen) = ContentOf(run.snap[p])

IInv == ShapeOK /\ SparedInv /\ BackupInv /\ FlightInv /\ \A p \in Paths : PathInv(p)

(* What is about after a step was about before, was written now, or has an *)
(* mtime that is mixed by now.                                             *)
Grown(F, G, s, t, N) ==
  s <= t /\ \E new : \A g \in G : \/ g \in F
                                  \/ g = new /\ new.mtime = s /\ s < t
                                  \/ g.mtime \in N /\ g.mtime < s

\* An entry is what it is of: its size, its mtime and, if small, its hash.
LEMMA EntryFacts ==
  ASSUME NEW f \in Files
  PROVE  /\ EntryOf(f) = NoFile <=> f = NoFile
         /\ f # NoFile => /\ EntryOf(f).size = SizeOf[f.content] /\ EntryOf(f).mtime = f.mtime
                          /\ EntryOf(f).sha \in {f.content, NoHash}
                          /\ EntryOf(f).sha = f.content <=> SizeOf[f.content] <= HashBelow
                          /\ f.content \in Contents /\ f.content # NoHash /\ f.mtime \in Nat
         /\ Plain(EntryOf(f))
BY SizeAssumption, AbsentAssumption DEF Files, File, EntryOf, Entry, Hashed, Plain

\* The files and entries of one path.
LEMMA PathTypes ==
  ASSUME ShapeOK, NEW p \in Paths
  PROVE  /\ local[p] \in Files /\ remote[p] \in Files /\ run.snap[p] \in Files
         /\ base.l[p] \in EntryOrNone /\ base.r[p] \in EntryOrNone
         /\ run.lman[p] \in EntryOrNone /\ run.rman[p] \in EntryOrNone
         /\ run.fl[p] \in EntryOrNone /\ run.fr[p] \in EntryOrNone
         /\ About(p) \subseteq File /\ Alive(p) \subseteq About(p) /\ stamp \in Nat
<1>1. /\ local[p] \in Files /\ remote[p] \in Files /\ run.snap[p] \in Files /\ stamp \in Nat
  BY ReconcileAssumption DEF ShapeOK, Trees, RunType
<1>2. /\ base.l[p] \in EntryOrNone /\ base.r[p] \in EntryOrNone
      /\ run.lman[p] \in EntryOrNone /\ run.rman[p] \in EntryOrNone
      /\ run.fl[p] \in EntryOrNone /\ run.fr[p] \in EntryOrNone
  BY DEF ShapeOK, BaseType, RunType, Listings
<1>3. About(p) \subseteq File /\ Alive(p) \subseteq About(p)
  BY <1>1 DEF About, Alive, Files
<1> QED
  BY <1>1, <1>2, <1>3

\* What was known of the files that were about is known of those that are.
LEMMA GrownFacts ==
  ASSUME NEW F \in SUBSET File, NEW G \in SUBSET File, NEW s \in Nat, NEW t \in Nat,
         NEW M, NEW N, M \subseteq N, Coherent(F, s, M), Grown(F, G, s, t, N)
  PROVE  /\ Coherent(G, t, N)
         /\ \A e \in EntryOrNone \cup Files : Before(e, s) => Before(e, t)
         /\ \A e \in EntryOrNone : Before(e, s) /\ Listing(e, F, M) => Listing(e, G, N)
         /\ \A e \in Entry : \A k : Before(e, s) /\ Denotes(e, k, F, M) => Denotes(e, k, G, N)
         /\ \A l, r \in EntryOrNone :
              Before(l, s) /\ Before(r, s) /\ Pair(l, r, F, M) => Pair(l, r, G, N)
<1>1. PICK new : \A g \in G : \/ g \in F \/ (g = new /\ new.mtime = s /\ s < t)
                              \/ (g.mtime \in N /\ g.mtime < s)
  BY DEF Grown
<1>2. /\ s <= t /\ \A f \in F : f.mtime \in Nat /\ f.mtime < s
      /\ \A g \in G : g.mtime \in Nat
  BY DEF Grown, Coherent, File
<1>3. Coherent(G, t, N)
  BY <1>1, <1>2 DEF Coherent
<1>4. \A e \in EntryOrNone \cup Files : Before(e, s) => Before(e, t)
  BY <1>2 DEF Before, EntryOrNone, Entry, Files, File
<1>5. \A e \in EntryOrNone : \A g \in G :
        Before(e, s) /\ e # NoFile /\ e.mtime = g.mtime /\ e.mtime \notin N => g \in F
  BY <1>1 DEF Before, EntryOrNone, Entry
<1>6. \A e \in EntryOrNone : Before(e, s) /\ Listing(e, F, M) => Listing(e, G, N)
  BY <1>5 DEF Listing
<1>7. ASSUME NEW e \in Entry, NEW k, Before(e, s), Denotes(e, k, F, M)
      PROVE  Denotes(e, k, G, N)
  <2>1. e \in EntryOrNone /\ e # NoFile
    BY AbsentAssumption DEF EntryOrNone, Entry
  <2> QED
    BY <1>5, <1>7, <2>1 DEF Denotes
<1>8. ASSUME NEW l \in EntryOrNone, NEW r \in EntryOrNone, Before(l, s), Before(r, s),
             Pair(l, r, F, M)
      PROVE  Pair(l, r, G, N)
  BY <1>7, <1>8 DEF Pair, EntryOrNone
<1> QED
  BY <1>3, <1>4, <1>6, <1>7, <1>8

(* A step grows what is about a path.                                      *)
Grows(p) == /\ mixed[p] \subseteq mixed'[p]
            /\ Grown(About(p), About(p)', stamp, stamp', mixed'[p])
            /\ Grown(Alive(p), Alive(p)', stamp, stamp', mixed'[p])

\* The invariant's facts about entries that stay are kept.
LEMMA Carried ==
  ASSUME ShapeOK, ShapeOK', NEW p \in Paths, PathInv(p), Grows(p)
  PROVE  /\ Coherent(About(p), stamp, mixed[p])'
         /\ \A e \in EntryOrNone \cup Files : Before(e, stamp) => Before(e, stamp')
         /\ \A e \in EntryOrNone :
              Before(e, stamp) /\ Listing(e, About(p), mixed[p])
              => Listing(e, About(p)', mixed'[p])
         /\ \A e \in Entry : \A k : Before(e, stamp) /\ Denotes(e, k, About(p), mixed[p])
              => Denotes(e, k, About(p)', mixed'[p])
         /\ \A l, r \in EntryOrNone : Before(l, stamp) /\ Before(r, stamp) =>
              /\ Pair(l, r, About(p), mixed[p]) => Pair(l, r, About(p)', mixed'[p])
              /\ Pair(l, r, Alive(p), mixed[p]) => Pair(l, r, Alive(p)', mixed'[p])
<1> DEFINE F == About(p)
           G == About(p)'
           A == Alive(p)
           B == Alive(p)'
           t == stamp'
           M == mixed[p]
           N == mixed'[p]
<1>1. F \subseteq File /\ A \subseteq F /\ stamp \in Nat
  BY PathTypes
<1>2. G \subseteq File /\ B \subseteq G /\ t \in Nat
  <2>1. local'[p] \in Files /\ remote'[p] \in Files /\ run'.snap[p] \in Files /\ t \in Nat
    BY ReconcileAssumption DEF ShapeOK, Trees, RunType
  <2> QED
    BY <2>1 DEF About, Alive, Files
<1>3. /\ Coherent(F, stamp, M) /\ M \subseteq N
      /\ Grown(F, G, stamp, t, N) /\ Grown(A, B, stamp, t, N)
  BY DEF PathInv, Grows
<1>4. Coherent(A, stamp, M)
  BY <1>1, <1>3 DEF Coherent
<1> HIDE DEF F, G, A, B, t, M, N
<1>5. /\ Coherent(G, t, N)
      /\ \A e \in EntryOrNone \cup Files : Before(e, stamp) => Before(e, t)
      /\ \A e \in EntryOrNone : Before(e, stamp) /\ Listing(e, F, M) => Listing(e, G, N)
      /\ \A e \in Entry : \A k : Before(e, stamp) /\ Denotes(e, k, F, M) => Denotes(e, k, G, N)
      /\ \A l, r \in EntryOrNone : Before(l, stamp) /\ Before(r, stamp) /\ Pair(l, r, F, M)
           => Pair(l, r, G, N)
  BY ZenonT(40), <1>1, <1>2, <1>3, GrownFacts
<1>6. \A l, r \in EntryOrNone : Before(l, stamp) /\ Before(r, stamp) /\ Pair(l, r, A, M)
           => Pair(l, r, B, N)
  <2>1. A \in SUBSET File /\ B \in SUBSET File
    BY <1>1, <1>2
  <2> QED
    BY <1>1, <1>2, <1>3, <1>4, <2>1, GrownFacts
<1> QED
  BY <1>5, <1>6 DEF F, G, A, B, t, M, N

\* A step that leaves the baseline and the listings of a path alone.
LEMMA PathKept ==
  ASSUME ShapeOK, ShapeOK', NEW p \in Paths, PathInv(p), Grows(p), UNCHANGED base,
         run'.lman[p] = run.lman[p], run'.rman[p] = run.rman[p],
         run'.fl[p] = run.fl[p], run'.fr[p] = run.fr[p],
         pc' \in Listed => pc \in Listed,
         pc' \in {"final-remote", "verify"} => pc' = pc /\ run'.snap[p] = run.snap[p],
         pc' \in Attributing =>
           /\ pc \in Attributing /\ run'.snap[p] = run.snap[p]
           /\ p \in run'.touched <=> p \in run.touched
           /\ p \in run.touched => /\ pc' \notin {"exec", "post-remote"}
                                   /\ run'.todo[p] = "untouched"
  PROVE  PathInv(p)'
<1>1. /\ base.l[p] \in EntryOrNone /\ base.r[p] \in EntryOrNone
      /\ run.lman[p] \in EntryOrNone /\ run.rman[p] \in EntryOrNone
      /\ run.fl[p] \in EntryOrNone /\ run.fr[p] \in EntryOrNone
  BY PathTypes
<1> QED
  BY <1>1, Carried DEF PathInv

\* A run starts or ends, and the baseline stays.
LEMMA PathCleared ==
  ASSUME ShapeOK, ShapeOK', NEW p \in Paths, PathInv(p), Grows(p), UNCHANGED base,
         run'.lman[p] = NoFile, run'.rman[p] = NoFile, run'.fl[p] = NoFile, run'.fr[p] = NoFile,
         pc' \in {"idle", "manifest-local"}
  PROVE  PathInv(p)'
<1>1. base.l[p] \in EntryOrNone /\ base.r[p] \in EntryOrNone
  BY PathTypes
<1>2. NoFile \in EntryOrNone /\ Before(NoFile, stamp') /\ Plain(NoFile)
        /\ Listing(NoFile, About(p)', mixed'[p])
  BY DEF EntryOrNone, Before, Plain, Listing
<1> QED
  BY <1>1, <1>2, Carried DEF PathInv, Attributing, Flown

\* No writer acts: a path's files are among those it had.
LEMMA Shrinks ==
  ASSUME ShapeOK, stamp' \in {stamp, stamp + 1}, NEW p \in Paths, mixed[p] \subseteq mixed'[p],
         local'[p] \in {local[p], remote[p], NoFile}, remote'[p] \in {local[p], remote[p], NoFile},
         run'.snap[p] \in {local[p], run.snap[p], NoFile}
  PROVE  Grows(p)
<1>1. About(p)' \subseteq About(p) /\ Alive(p)' \subseteq Alive(p)
  BY DEF About, Alive
<1>2. stamp \in Nat
  BY ReconcileAssumption DEF ShapeOK
<1> QED
  BY <1>1, <1>2 DEF Grows, Grown

\* A transfer lands: the file it installs is the source, or has a mixed mtime,
\* or is new.
LEMMA Landed ==
  ASSUME ShapeOK, FlightInv, pc \in {"pre-install", "post-install"}, run.flying.kind \in Copies,
         NEW p \in Paths, PathInv(p), run.flying.path \in Paths,
         NEW src \in {local[run.flying.path], remote[run.flying.path]},
         NEW f \in Landing(src), Lands(run.flying.path, src, f),
         \/ local' = [local EXCEPT ![run.flying.path] = f] /\ UNCHANGED remote
         \/ remote' = [remote EXCEPT ![run.flying.path] = f] /\ UNCHANGED local,
         run'.snap = run.snap
  PROVE  Grows(p)
<1> DEFINE q == run.flying.path
<1>1. /\ local \in Trees /\ remote \in Trees /\ mixed \in [Paths -> SUBSET Nat] /\ stamp \in Nat
      /\ run.flying.first \in File
  BY ReconcileAssumption DEF ShapeOK, FlightOK, Aloft, Flights, Files
<1>2. stamp' \in {stamp, stamp + 1} /\ (src = NoFile => stamp' = stamp + 1)
  BY DEF Lands, Tick
<1>3. CASE p # q
  <2>1. mixed'[p] = mixed[p] /\ local'[p] = local[p] /\ remote'[p] = remote[p]
    BY <1>1, <1>3 DEF Lands, Trees
  <2> QED
    BY <1>2, <2>1, Shrinks
<1>4. CASE p = q
  <2>1. local'[p] \in {local[p], f} /\ remote'[p] \in {remote[p], f} /\ run'.snap[p] = run.snap[p]
    BY <1>1, <1>4 DEF Trees
  <2>2. mixed[p] \subseteq mixed'[p]
    BY <1>1, <1>4 DEF Lands
  <2>3. CASE src = NoFile
    <3>1. f.mtime = stamp /\ stamp' = stamp + 1
      BY <1>2, <2>3 DEF Landing
    <3> QED
      BY <1>1, <2>1, <2>2, <3>1 DEF Grows, Grown, About, Alive
  <2>4. CASE f = src
    BY <1>2, <1>4, <2>1, <2>2, <2>4, Shrinks
  <2>5. CASE src # NoFile /\ f # src
    <3>1. f.mtime \in {src.mtime, run.flying.first.mtime} /\ f.mtime \in mixed'[p]
      BY <1>1, <1>4, <2>5 DEF Landing, Lands
    <3>2. run.flying.first # NoFile
      BY <1>1, AbsentAssumption DEF File
    <3>3. src.mtime < stamp /\ run.flying.first.mtime < stamp
      BY <1>4, <2>5, <3>2 DEF PathInv, Coherent, About, FlightInv, Before
    <3>4. f.mtime < stamp
      BY <3>1, <3>3
    <3> QED
      BY <1>1, <1>2, <2>1, <2>2, <3>1, <3>4 DEF Grows, Grown, About, Alive
  <2> QED
    BY <2>3, <2>4, <2>5
<1> QED
  BY <1>3, <1>4

\* The other writers: one path gets a file that is newer than all before.
LEMMA ExternalGrows ==
  ASSUME ShapeOK, External, NEW p \in Paths
  PROVE  Grows(p)
<1>1. UNCHANGED <<run, mixed>> /\ stamp' = stamp + 1 /\ stamp \in Nat
  BY ExternalTicks, PathTypes
<1> DEFINE Newer(new) == /\ new = NoFile \/ new.mtime = stamp
                         /\ local'[p] \in {local[p], remote[p], NoFile, new}
                         /\ remote'[p] \in {local[p], remote[p], NoFile, new}
<1>3. \E new : Newer(new)
  <2>1. local \in Trees /\ remote \in Trees
    BY DEF ShapeOK
  <2>2. ASSUME NEW q \in Paths, NEW c \in Contents, LocalWrite(q, c) \/ RemoteWrite(q, c)
        PROVE  \E new : Newer(new)
    <3> DEFINE new == [content |-> c, mtime |-> stamp]
    <3>1. new.mtime = stamp /\ local'[p] \in {local[p], new} /\ remote'[p] \in {remote[p], new}
      BY <2>1, <2>2 DEF LocalWrite, RemoteWrite, Trees
    <3> HIDE DEF new
    <3> QED
      BY <3>1
  <2>3. ASSUME NEW q \in Paths, LocalDelete(q) \/ RemoteDelete(q) \/ Deliver(q)
        PROVE  \E new : Newer(new)
    <3>1. /\ local'[p] \in {local[p], remote[p], NoFile}
          /\ remote'[p] \in {local[p], remote[p], NoFile}
      BY <2>1, <2>3 DEF LocalDelete, RemoteDelete, Deliver, Trees
    <3> QED
      BY <3>1
  <2>4. ASSUME NEW side \in {"local", "remote"}, Vanish(side)
        PROVE  \E new : Newer(new)
    BY <2>4 DEF Vanish, Empty
  <2> QED
    BY <2>2, <2>3, <2>4 DEF External
<1> QED
  BY <1>1, <1>3 DEF Grows, Grown, About, Alive

\* So the facts of a path and of the transfer under way are kept.
LEMMA ExternalPaths ==
  ASSUME ShapeOK, ShapeOK', External, NEW p \in Paths, PathInv(p)
  PROVE  PathInv(p)'
BY ExternalTicks, ExternalGrows, PathKept DEF PathInv

\* A listing taken now.
LEMMA ListedNow ==
  ASSUME ShapeOK, NEW p \in Paths, PathInv(p), NEW f \in Alive(p) \cup {NoFile}
  PROVE  Before(EntryOf(f), stamp) /\ Listing(EntryOf(f), About(p), mixed[p]) /\ Plain(EntryOf(f))
<1>1. f \in Files /\ \A g \in About(p) : g \in Files /\ g # NoFile
  BY PathTypes, AbsentAssumption DEF Files, File, About, Alive
<1>2. f # NoFile => /\ f.mtime < stamp
                    /\ \A g \in About(p) : f.mtime = g.mtime /\ f.mtime \notin mixed[p] => f = g
  BY PathTypes DEF PathInv, Coherent
<1>3. Plain(EntryOf(f)) /\ (EntryOf(f) = NoFile <=> f = NoFile)
        /\ (f # NoFile => EntryOf(f).mtime = f.mtime)
  BY <1>1, EntryFacts
<1> QED
  BY <1>2, <1>3 DEF Before, Listing

\* Preflight up to the verification.
LEMMA PreflightPaths ==
  ASSUME ShapeOK, ShapeOK', FlightInv, Preflight, ~VerifyAccepted,
         NEW p \in Paths, PathInv(p)
  PROVE  PathInv(p)'
<1> USE DEF Listed, Attributing, Flown
<1>0. /\ local \in Trees /\ remote \in Trees /\ run \in RunType /\ Empty[p] = NoFile
      /\ local[p] \in Alive(p) \cup {NoFile} /\ remote[p] \in Alive(p) \cup {NoFile}
  BY DEF ShapeOK, Empty, Alive
<1>1. CASE \E fallback, scoped \in BOOLEAN : StartRun(fallback, scoped)
  <2>1. /\ run'.lman = Empty /\ run'.rman = Empty /\ run'.fl = Empty /\ run'.fr = Empty
        /\ run'.snap = Empty /\ pc' = "manifest-local"
        /\ UNCHANGED <<local, remote, base, stamp, mixed>>
    BY <1>1 DEF StartRun, FreshRun
  <2>2. Grows(p)
    BY <1>0, <2>1, Shrinks
  <2> QED
    BY <1>0, <2>1, <2>2, PathCleared
<1>2. CASE PlanRefused \/ PlanUnproved \/ VerifyRefused
  <2>1. run' = FreshRun /\ pc' = "idle" /\ UNCHANGED <<local, remote, base, stamp, mixed>>
    BY <1>2 DEF PlanRefused, PlanUnproved, VerifyRefused, PreflightConflict, EndRun
  <2>2. /\ run'.lman = Empty /\ run'.rman = Empty /\ run'.fl = Empty /\ run'.fr = Empty
        /\ run'.snap = Empty
    BY <2>1 DEF FreshRun
  <2>3. Grows(p)
    BY <1>0, <2>1, <2>2, Shrinks
  <2> QED
    BY <1>0, <2>1, <2>2, <2>3, PathCleared
<1>3. CASE ManifestLocal
  <2>1. /\ run'.lman[p] = EntryOf(local[p]) /\ run'.snap = local /\ pc = "manifest-local"
        /\ run'.rman = run.rman /\ run'.fl = run.fl /\ run'.fr = run.fr
        /\ pc' = "manifest-remote" /\ UNCHANGED <<local, remote, base, stamp, mixed>>
    BY <1>0, <1>3 DEF ManifestLocal, Manifest, RunType
  <2>2. Grows(p)
    BY <1>0, <2>1, Shrinks
  <2>3. Plain(EntryOf(local[p])) /\ Before(EntryOf(local[p]), stamp)
    BY <1>0, ListedNow
  <2> QED
    BY <2>1, <2>2, <2>3, Carried, PathTypes DEF PathInv
<1>4. CASE ManifestRemote
  <2>1. /\ run'.rman[p] = EntryOf(remote[p]) /\ run'.snap = run.snap /\ pc = "manifest-remote"
        /\ run'.lman = run.lman /\ run'.fl = run.fl /\ run'.fr = run.fr
        /\ pc' = "plan" /\ UNCHANGED <<local, remote, base, stamp, mixed>>
    BY <1>0, <1>4 DEF ManifestRemote, Manifest, RunType
  <2>2. Grows(p)
    BY <1>0, <2>1, Shrinks
  <2>3. Plain(EntryOf(remote[p])) /\ Before(EntryOf(remote[p]), stamp)
    BY <1>0, ListedNow
  <2> QED
    BY <2>1, <2>2, <2>3, Carried, PathTypes DEF PathInv
<1>5. ASSUME run'.lman = run.lman, run'.rman = run.rman, run'.fl = run.fl,
             run'.fr = run.fr, Grows(p), pc \in {"plan", "apply", "pre-install"},
             pc' \in {"apply", "pre-copy"}, UNCHANGED base
      PROVE  PathInv(p)'
  BY <1>5, PathKept
<1>6. CASE PlanAccepted
  <2>1. /\ run'.lman = run.lman /\ run'.rman = run.rman /\ run'.fl = run.fl
        /\ run'.fr = run.fr /\ run'.snap = run.snap /\ pc = "plan" /\ pc' = "apply"
        /\ UNCHANGED <<local, remote, base, stamp, mixed>>
    BY <1>0, <1>6 DEF PlanAccepted, RunType
  <2>2. Grows(p)
    BY <2>1, Shrinks
  <2> QED
    BY <1>5, <2>1, <2>2
<1>7. ASSUME NEW q \in Paths, \/ SkipIdentical(q) \/ ApplyPull(q) \/ ApplyPush(q)
                              \/ ApplyDeleteRemote(q) \/ ApplyDeleteLocal(q)
      PROVE  PathInv(p)'
  <2>1. \/ run' \in {Done(q), Removed(q)}
        \/ \E g : run' = [run EXCEPT !.flying = g]
    BY <1>7 DEF SkipIdentical, ApplyPull, ApplyPush, ApplyDeleteRemote, ApplyDeleteLocal, TakesOff
  <2>2. /\ run'.lman = run.lman /\ run'.rman = run.rman /\ run'.fl = run.fl
        /\ run'.fr = run.fr /\ run'.snap = run.snap
    <3>1. CASE run' \in {Done(q), Removed(q)}
      BY ZenonT(40), <1>0, <3>1, TickedOff
    <3>2. CASE \E g : run' = [run EXCEPT !.flying = g]
      BY <1>0, <3>2 DEF RunType
    <3> QED
      BY <2>1, <3>1, <3>2
  <2>3. pc = "apply" /\ pc' \in {"apply", "pre-copy"} /\ UNCHANGED <<local, base, stamp, mixed>>
    BY <1>7 DEF SkipIdentical, ApplyPull, ApplyPush, ApplyDeleteRemote, ApplyDeleteLocal, TakesOff
  <2>4. remote'[p] \in {remote[p], NoFile}
    BY <1>0, <1>7 DEF SkipIdentical, ApplyPull, ApplyPush, ApplyDeleteRemote, ApplyDeleteLocal,
       TakesOff, Trees
  <2>5. Grows(p)
    BY <2>2, <2>3, <2>4, Shrinks
  <2> QED
    BY <1>5, <2>2, <2>3, <2>5
<1>8. CASE InstallPull \/ CommitPush \/ Unlink
  <2> DEFINE q == run.flying.path
  <2>1. /\ pc = "pre-install" /\ pc' = "apply" /\ UNCHANGED base /\ q \in Paths
        /\ run' \in {Wrote(q), Removed(q)}
    BY <1>8 DEF InstallPull, CommitPush, Unlink, ShapeOK, FlightOK, Aloft, Flights
  <2>2. /\ run'.lman = run.lman /\ run'.rman = run.rman /\ run'.fl = run.fl
        /\ run'.fr = run.fr /\ run'.snap = run.snap
    BY ZenonT(40), <1>0, <2>1, TickedOff
  <2>3. CASE Unlink
    <3>1. UNCHANGED <<remote, stamp, mixed>> /\ local'[p] \in {local[p], NoFile}
      BY <1>0, <2>3 DEF Unlink, Trees
    <3>2. Grows(p)
      BY <2>2, <3>1, Shrinks
    <3> QED
      BY <1>5, <2>1, <2>2, <3>2
  <2>4. CASE InstallPull \/ CommitPush
    <3>1. PICK src \in {local[q], remote[q]} : \E f \in Landing(src) :
            /\ Lands(q, src, f) /\ run.flying.kind \in Copies
            /\ \/ local' = [local EXCEPT ![q] = f] /\ UNCHANGED remote
               \/ remote' = [remote EXCEPT ![q] = f] /\ UNCHANGED local
      BY <2>4 DEF InstallPull, CommitPush, Copies
    <3>2. Grows(p)
      BY <2>1, <2>2, <3>1, Landed
    <3> QED
      BY <1>5, <2>1, <2>2, <3>2
  <2> QED
    BY <1>8, <2>3, <2>4
<1>9. CASE FinalLocal
  <2>1. /\ run'.fl[p] = EntryOf(local[p]) /\ run'.snap = local /\ pc = "apply"
        /\ run'.lman = run.lman /\ run'.rman = run.rman /\ run'.fr = run.fr
        /\ pc' = "final-remote" /\ UNCHANGED <<local, remote, base, stamp, mixed>>
    BY <1>0, <1>9 DEF FinalLocal, Manifest, RunType
  <2>2. Grows(p)
    BY <1>0, <2>1, Shrinks
  <2>3. Before(EntryOf(local[p]), stamp) /\ Listing(EntryOf(local[p]), About(p), mixed[p])
    BY <1>0, ListedNow
  <2>4. EntryOf(local[p]) \in EntryOrNone
    BY PathTypes, EntryTyped
  <2> QED
    BY <2>1, <2>2, <2>3, <2>4, Carried, PathTypes DEF PathInv
<1>10. CASE FinalRemote
  <2>1. /\ run'.fr[p] = EntryOf(remote[p]) /\ run'.snap = run.snap /\ pc = "final-remote"
        /\ run'.lman = run.lman /\ run'.rman = run.rman /\ run'.fl = run.fl
        /\ pc' = "verify" /\ UNCHANGED <<local, remote, base, stamp, mixed>>
    BY <1>0, <1>10 DEF FinalRemote, Manifest, RunType
  <2>2. Grows(p)
    BY <1>0, <2>1, Shrinks
  <2>3. Before(EntryOf(remote[p]), stamp) /\ Listing(EntryOf(remote[p]), About(p), mixed[p])
    BY <1>0, ListedNow
  <2>4. EntryOf(remote[p]) \in EntryOrNone
    BY PathTypes, EntryTyped
  <2> QED
    BY <2>1, <2>2, <2>3, <2>4, Carried, PathTypes DEF PathInv
<1> QED
  BY <1>1, <1>2, <1>3, <1>4, <1>6, <1>7, <1>8, <1>9, <1>10 DEF Preflight

-----------------------------------------------------------------------------
(* The verified pair.                                                      *)

\* A hashed listing denotes its hash.
LEMMA HashedDenotes ==
  ASSUME NEW e \in Entry, NEW F \in SUBSET File, NEW M, Listing(e, F, M), e.sha # NoHash
  PROVE  Denotes(e, e.sha, F, M) /\ e.sha \in Contents
<1>1. e # NoFile /\ e.sha \in Contents
  BY AbsentAssumption DEF Entry
<1>2. ASSUME NEW f \in F, e.mtime = f.mtime, e.mtime \notin M PROVE f.content = e.sha
  <2>1. e = EntryOf(f) /\ f \in Files
    BY <1>1, <1>2 DEF Listing, Files
  <2> QED
    BY <1>1, <2>1, EntryFacts
<1> QED
  BY <1>1, <1>2 DEF Denotes

\* What is listed like an untouched generation of the baseline still denotes
\* the baseline's content.
LEMMA RetainedDenotes ==
  ASSUME NEW b \in Entry, NEW x \in EntryOrNone, NEW y \in Entry, NEW F \in SUBSET File, NEW M,
         NEW k \in Contents, Denotes(b, k, F, M), Plain(x), Listing(y, F, M),
         entries_same(b, x), entries_same(x, y)
  PROVE  Denotes(y, k, F, M)
<1>1. b # NoFile /\ y # NoFile /\ k # NoHash
  BY AbsentAssumption DEF Entry
<1>2. x # NoFile /\ x \in Entry /\ b.size = x.size /\ x.size = y.size
  BY <1>1 DEF entries_same, EntryOrNone
<1>3. (x.sha # NoHash <=> x.size <= HashBelow) /\ (y.sha # NoHash <=> y.size <= HashBelow)
  BY <1>1, <1>2 DEF Plain, Listing
<1>4. CASE y.size <= HashBelow
  <2>1. b.sha = k /\ x.sha = k /\ y.sha = k
    BY <1>1, <1>2, <1>3, <1>4 DEF Denotes, entries_same
  <2> QED
    BY <1>1, <2>1, HashedDenotes
<1>5. CASE ~(y.size <= HashBelow)
  <2>1. y.sha = NoHash /\ y.mtime = b.mtime /\ y.size = b.size
    BY <1>1, <1>2, <1>3, <1>5 DEF entries_same
  <2> QED
    BY <1>5, <2>1 DEF Denotes
<1> QED
  BY <1>4, <1>5

\* A file that matches an entry denoting k holds k, if both are hashed or the
\* entry's mtime is not mixed.
LEMMA DenotesContent ==
  ASSUME NEW e \in Entry, NEW f \in File, NEW F, f \in F, NEW M, NEW k \in Contents,
         Denotes(e, k, F, M), NEW g, g.size = SizeOf[f.content], g.mtime = f.mtime,
         g.sha \in {f.content, NoHash}, g # NoFile, entries_same(e, g),
         e.mtime \notin M \/ (e.sha # NoHash /\ g.sha # NoHash)
  PROVE  f.content = k
<1>1. e # NoFile /\ e.size = g.size /\ f.content # NoHash
  BY AbsentAssumption DEF entries_same, Entry, File
<1>2. CASE e.sha # NoHash /\ g.sha # NoHash
  BY <1>1, <1>2 DEF entries_same, Denotes
<1>3. CASE ~(e.sha # NoHash /\ g.sha # NoHash)
  BY <1>1, <1>3 DEF entries_same, Denotes
<1> QED
  BY <1>2, <1>3

\* In particular the file that is listed now, unless it is large and mixed.
LEMMA ListedContent ==
  ASSUME NEW e \in Entry, NEW f \in File, NEW F, f \in F, NEW p, NEW k \in Contents,
         Denotes(e, k, F, mixed[p]), entries_same(e, EntryOf(f)), ~MixedLarge(p, e)
  PROVE  f.content = k
<1>1. /\ EntryOf(f) # NoFile /\ EntryOf(f).size = SizeOf[f.content] /\ EntryOf(f).mtime = f.mtime
      /\ EntryOf(f).sha \in {f.content, NoHash}
      /\ EntryOf(f).sha = f.content <=> SizeOf[f.content] <= HashBelow
      /\ f.content # NoHash /\ SizeOf[f.content] \in Nat /\ HashBelow \in Nat
  <2>1. f \in Files /\ f # NoFile
    BY AbsentAssumption DEF Files, File
  <2> QED
    BY <2>1, EntryFacts, SizeAssumption DEF File
<1>2. e # NoFile /\ e.size = SizeOf[f.content] /\ k # NoHash
  BY <1>1, AbsentAssumption DEF entries_same, Entry
<1>3. e.mtime \notin mixed[p] \/ (e.sha # NoHash /\ EntryOf(f).sha # NoHash)
  BY <1>1, <1>2 DEF MixedLarge, Mixed, Denotes
<1> QED
  BY <1>1, <1>3, DenotesContent

(* The local file the recorded entry is of.                                *)
Settled(p) == IF ByHashNow(p) THEN local[p] ELSE run.snap[p]

\* The pair that reconcile records for a verified path: the two entries can
\* only be taken for one content, and the local one is of a known file.  What
\* still looks as it was listed is converged.
LEMMA VerifiedPair ==
  ASSUME ShapeOK, NEW p \in Paths, PathInv(p), pc = "verify", Verified(p)
  PROVE  /\ Before(RecordedLocal(p), stamp) /\ Before(RecordedRemote(p), stamp)
         /\ Pair(RecordedLocal(p), RecordedRemote(p),
                 {local[p], remote[p], Settled(p)} \ {NoFile}, mixed[p])
         /\ entries_same(RecordedLocal(p), EntryOf(Settled(p)))
         /\ \/ ContentOf(local[p]) = ContentOf(remote[p])
            \/ EntryOf(local[p]) # run.fl[p] \/ MixedLarge(p, run.fl[p])
            \/ EntryOf(remote[p]) # run.fr[p] \/ MixedLarge(p, run.fr[p])
<1> DEFINE l == local[p]
           r == remote[p]
           sn == run.snap[p]
           fl == run.fl[p]
           fr == run.fr[p]
           F == About(p)
           M == mixed[p]
           Large == MixedLarge(p, fl) \/ MixedLarge(p, fr)
<1>1. /\ l \in Files /\ r \in Files /\ sn \in Files /\ fl \in EntryOrNone /\ fr \in EntryOrNone
      /\ F \in SUBSET File /\ F = {l, r, sn} \ {NoFile} /\ stamp \in Nat
  BY PathTypes DEF About
<1>2. /\ Coherent(F, stamp, M) /\ Before(fl, stamp) /\ Before(fr, stamp)
      /\ Listing(fl, F, M) /\ Listing(fr, F, M) /\ Plain(run.lman[p]) /\ Plain(run.rman[p])
      /\ fl = EntryOf(sn) /\ (base.have => Pair(base.l[p], base.r[p], F, M))
  BY DEF PathInv, Listed
<1>3. /\ EntryOf(l) = fl => entries_same(fl, EntryOf(l))
      /\ EntryOf(r) = fr => entries_same(fr, EntryOf(r))
      /\ entries_same(fl, EntryOf(sn))
  BY <1>2 DEF entries_same
<1>4. ASSUME ~ByHashNow(p)
      PROVE  RecordedLocal(p) = fl /\ RecordedRemote(p) = fr /\ Settled(p) = sn
  BY <1>4 DEF RecordedLocal, RecordedRemote, Settled
<1>5. ASSUME fl # NoFile, fr # NoFile, NEW k \in Contents, Denotes(fl, k, F, M),
             Denotes(fr, k, F, M), EntryOf(l) = fl, EntryOf(r) = fr, ~Large
      PROVE  ContentOf(l) = ContentOf(r)
  <2>1. fl \in Entry /\ fr \in Entry /\ l # NoFile /\ r # NoFile
    BY <1>1, <1>5, EntryFacts DEF EntryOrNone
  <2>2. l \in F /\ r \in F /\ l \in File /\ r \in File
    BY <1>1, <2>1
  <2>4. l.content = k /\ r.content = k
    BY <1>3, <1>5, <2>1, <2>2, ListedContent
  <2> QED
    BY <2>1, <2>4 DEF ContentOf
<1>6. CASE fl = NoFile /\ fr = NoFile
  <2>1. ~ByHashNow(p)
    BY <1>6 DEF ByHashNow
  <2>2. EntryOf(l) = fl /\ EntryOf(r) = fr => l = NoFile /\ r = NoFile
    BY <1>1, <1>6, EntryFacts
  <2> QED
    BY <1>2, <1>3, <1>4, <1>6, <2>1, <2>2 DEF Pair, ContentOf
<1>7. ASSUME fl # NoFile, fr # NoFile, ~ByHashNow(p),
             HashedPair(p) \/ (~BothHashed(p) /\ RetainedPair(p))
      PROVE  \E k \in Contents : Denotes(fl, k, F, M) /\ Denotes(fr, k, F, M)
  <2>1. fl \in Entry /\ fr \in Entry
    BY <1>1, <1>7 DEF EntryOrNone
  <2>2. CASE HashedPair(p)
    <3>1. fl.sha # NoHash /\ fr.sha = fl.sha
      BY <2>2 DEF HashedPair, entries_content_same
    <3> QED
      BY <1>1, <1>2, <2>1, <3>1, HashedDenotes
  <2>3. CASE ~BothHashed(p) /\ RetainedPair(p)
    <3>1. /\ base.have /\ base.l[p] # NoFile /\ base.r[p] # NoFile
          /\ entries_same(base.l[p], run.lman[p]) /\ entries_same(base.r[p], run.rman[p])
          /\ entries_same(run.lman[p], fl) /\ entries_same(run.rman[p], fr)
      BY <2>3 DEF RetainedPair
    <3>2. PICK k \in Contents : Denotes(base.l[p], k, F, M) /\ Denotes(base.r[p], k, F, M)
      BY <1>2, <3>1 DEF Pair
    <3>3. /\ base.l[p] \in Entry /\ base.r[p] \in Entry
          /\ run.lman[p] \in EntryOrNone /\ run.rman[p] \in EntryOrNone
      BY <3>1, PathTypes DEF EntryOrNone
    <3>4. Denotes(fl, k, F, M) /\ Denotes(fr, k, F, M)
      BY <1>1, <1>2, <2>1, <3>1, <3>2, <3>3, RetainedDenotes
    <3> QED
      BY <3>4
  <2> QED
    BY <1>7, <2>2, <2>3
<1>8. CASE /\ fl # NoFile /\ fr # NoFile /\ ~ByHashNow(p)
           /\ HashedPair(p) \/ (~BothHashed(p) /\ RetainedPair(p))
  <2>1. PICK k \in Contents : Denotes(fl, k, F, M) /\ Denotes(fr, k, F, M)
    BY <1>7, <1>8
  <2>2. Pair(fl, fr, F, M)
    BY <1>8, <2>1 DEF Pair
  <2>3. EntryOf(l) = fl /\ EntryOf(r) = fr /\ ~Large => ContentOf(l) = ContentOf(r)
    BY <1>5, <1>8, <2>1
  <2> QED
    BY <1>1, <1>2, <1>3, <1>4, <1>8, <2>2, <2>3
<1>9. CASE ByHashNow(p)
  <2>1. /\ fl # NoFile /\ fr # NoFile /\ l # NoFile /\ SizeOf[l.content] = fr.size
        /\ fr.sha # NoHash \/ r # NoFile
        /\ l.content = IF fr.sha # NoHash THEN fr.sha ELSE r.content
    BY <1>9 DEF ByHashNow, Verified, HashedPair, RetainedPair, BothHashed, FreshPair
  <2>2. l \in File /\ l.content \in Contents /\ l \in F /\ fr \in Entry /\ l.content # NoHash
    BY <1>1, <2>1, AbsentAssumption DEF Files, File, EntryOrNone
  <2> DEFINE a == StrongEntry(l, l.mtime)
             b == [size |-> fr.size, mtime |-> fr.mtime, sha |-> l.content]
             G == {l, r} \ {NoFile}
             k == l.content
  <2>3. RecordedLocal(p) = a /\ RecordedRemote(p) = b /\ Settled(p) = l
    BY <1>9 DEF RecordedLocal, RecordedRemote, Settled
  <2>4. a \in Entry /\ b \in Entry /\ a # NoFile /\ b # NoFile
    BY <2>2, SizeAssumption, AbsentAssumption DEF StrongEntry, File, Entry
  <2>5. G \subseteq F /\ \A f \in G : f = l \/ f = r
    BY <1>1
  <2>6. Denotes(a, k, G, M)
    <3>1. \A f \in G : f.mtime = l.mtime /\ f.mtime \notin M => f = l
      BY <1>2, <2>2, <2>5 DEF Coherent
    <3> QED
      BY <3>1 DEF Denotes, StrongEntry
  <2>7. Denotes(b, k, G, M)
    <3>1. ASSUME NEW f \in G, f.mtime = fr.mtime, fr.mtime \notin M, f = r, fr.sha # NoHash
          PROVE  f.content = k
      <4>1. fr = EntryOf(f) /\ f \in Files /\ f # NoFile
        BY <1>1, <1>2, <2>1, <2>5, <3>1 DEF Listing
      <4> QED
        BY <2>1, <3>1, <4>1, EntryFacts
    <3>2. \A f \in G : f.mtime = fr.mtime /\ fr.mtime \notin M => f.content = k
      BY <2>1, <2>5, <3>1
    <3> QED
      BY <3>2 DEF Denotes
  <2>8. Before(a, stamp) /\ Before(b, stamp)
    BY <1>2, <2>1, <2>2 DEF Before, Coherent, StrongEntry
  <2>9. entries_same(a, EntryOf(l))
    <3>1. /\ EntryOf(l).size = SizeOf[l.content] /\ EntryOf(l).mtime = l.mtime
          /\ EntryOf(l).sha \in {l.content, NoHash} /\ EntryOf(l) # NoFile
      BY <1>1, <2>1, EntryFacts
    <3> QED
      BY <2>4, <3>1 DEF entries_same, StrongEntry
  <2>10. EntryOf(r) = fr => ContentOf(l) = ContentOf(r)
    BY <1>1, <2>1, EntryFacts DEF ContentOf
  <2> HIDE DEF a, b
  <2>11. Pair(a, b, {l, r, l} \ {NoFile}, M)
    <3>1. {l, r, l} \ {NoFile} = G
      OBVIOUS
    <3> QED
      BY <2>2, <2>4, <2>6, <2>7, <3>1 DEF Pair
  <2> QED
    BY <2>3, <2>8, <2>9, <2>10, <2>11
<1>10. \/ fl = NoFile /\ fr = NoFile
       \/ ByHashNow(p)
       \/ /\ fl # NoFile /\ fr # NoFile /\ ~ByHashNow(p)
          /\ HashedPair(p) \/ (~BothHashed(p) /\ RetainedPair(p))
  BY DEF Verified, ByHashNow
<1> QED
  BY <1>6, <1>8, <1>9, <1>10

\* The command is dispatched: the verified pair is the baseline, and what the
\* run goes by from here on.
LEMMA VerifyPaths ==
  ASSUME ShapeOK, ShapeOK', VerifyAccepted, NEW p \in Paths, PathInv(p)
  PROVE  PathInv(p)'
<1>1. /\ run'.lman[p] = RecordedLocal(p) /\ run'.rman[p] = RecordedRemote(p)
      /\ run'.fl[p] = NoFile /\ run'.fr[p] = NoFile /\ run'.touched = {}
      /\ run'.snap[p] = Settled(p)
      /\ base'.have /\ base'.l[p] = RecordedLocal(p) /\ base'.r[p] = RecordedRemote(p)
  <2> DEFINE l == [q \in Paths |-> RecordedLocal(q)]
             r == [q \in Paths |-> RecordedRemote(q)]
             sn == [q \in Paths |-> IF ByHashNow(q) THEN local[q] ELSE run.snap[q]]
  <2>1. /\ base' = [have |-> TRUE, l |-> l, r |-> r]
        /\ run' = [run EXCEPT !.lman = l, !.rman = r, !.fl = Empty, !.fr = Empty,
                              !.touched = {}, !.snap = sn]
    BY DEF VerifyAccepted
  <2>2. l[p] = RecordedLocal(p) /\ r[p] = RecordedRemote(p) /\ sn[p] = Settled(p)
          /\ Empty[p] = NoFile
    BY DEF Settled, Empty
  <2> HIDE DEF l, r, sn
  <2>3. run \in RunType
    BY DEF ShapeOK
  <2> QED
    BY <2>1, <2>2, <2>3 DEF RunType
<1>2. pc = "verify" /\ pc' = "exec" /\ Verified(p) /\ UNCHANGED <<local, remote, stamp, mixed>>
  BY DEF VerifyAccepted
<1>3. About(p)' = {local[p], remote[p], Settled(p)} \ {NoFile} /\ Alive(p)' = Alive(p)
  BY <1>1, <1>2 DEF About, Alive
<1>4. /\ Before(RecordedLocal(p), stamp) /\ Before(RecordedRemote(p), stamp)
      /\ Pair(RecordedLocal(p), RecordedRemote(p), About(p)', mixed[p])
      /\ entries_same(RecordedLocal(p), EntryOf(Settled(p)))
  BY <1>2, <1>3, VerifiedPair
<1>5. Pair(RecordedLocal(p), RecordedRemote(p), Alive(p)', mixed[p])
  <2>1. Alive(p)' \subseteq About(p)'
    BY DEF Alive, About
  <2> QED
    BY <1>4, <2>1 DEF Pair, Denotes
<1>6. Coherent(About(p)', stamp, mixed[p])
  <2>1. Settled(p) \in {local[p], run.snap[p]}
    BY DEF Settled
  <2>2. About(p)' \subseteq About(p) /\ Coherent(About(p), stamp, mixed[p])
    BY <1>3, <2>1 DEF PathInv, About
  <2> QED
    BY <2>2 DEF Coherent
<1>7. Before(NoFile, stamp) /\ Listing(NoFile, About(p)', mixed[p])
  BY DEF Before, Listing, Plain
<1> QED
  BY <1>1, <1>2, <1>4, <1>5, <1>6, <1>7 DEF PathInv, Listed, Attributing, Flown

-----------------------------------------------------------------------------
(* Pullback.                                                               *)

\* The strong hash of an output is what its listing denotes, unless it was
\* taken of another version.
LEMMA OutputDenotes ==
  ASSUME ShapeOK, NEW p \in Paths, PathInv(p), run.fr[p] # NoFile, OutputHash(p) # NoHash
  PROVE  /\ Denotes(run.fr[p], OutputHash(p), {}, mixed[p])
         /\ \/ run.fr[p].sha = NoHash /\ remote[p].mtime # run.fr[p].mtime
            \/ Denotes(run.fr[p], OutputHash(p), About(p), mixed[p])
<1>1. /\ run.fr[p] \in Entry /\ Listing(run.fr[p], About(p), mixed[p]) /\ About(p) \in SUBSET File
      /\ remote[p] \in Files
  BY PathTypes DEF PathInv, EntryOrNone
<1>2. CASE run.fr[p].sha # NoHash
  <2>1. Denotes(run.fr[p], run.fr[p].sha, About(p), mixed[p])
    BY <1>1, <1>2, HashedDenotes
  <2> QED
    BY <1>2, <2>1 DEF OutputHash, Denotes
<1>3. CASE run.fr[p].sha = NoHash
  <2>1. remote[p] # NoFile /\ OutputHash(p) = remote[p].content
    BY <1>3 DEF OutputHash
  <2>2. ~(run.fr[p].size <= HashBelow)
    BY <1>1, <1>3 DEF Listing, Plain
  <2>3. remote[p].mtime = run.fr[p].mtime =>
          \A f \in About(p) : f.mtime = run.fr[p].mtime /\ f.mtime \notin mixed[p] => f = remote[p]
    BY <2>1 DEF PathInv, Coherent, About
  <2> QED
    BY <1>3, <2>1, <2>2, <2>3 DEF Denotes
<1> QED
  BY <1>2, <1>3

\* One path is attributed: its new pair denotes one content among the two
\* files that are there.
LEMMA AttributedPaths ==
  ASSUME ShapeOK, ShapeOK', NEW q \in Paths, NEW l \in EntryOrNone, NEW r \in EntryOrNone,
         Attributed(run', q, l, r), pc \in {"pullback"} \cup Flown, pc' = "pullback",
         UNCHANGED <<base, stamp, remote>>, local'[q] \in {local[q], NoFile},
         \A p \in Paths \ {q} : local'[p] = local[p],
         \A p \in Paths : mixed[p] \subseteq mixed'[p],
         Before(l, stamp), Before(r, stamp), Pair(l, r, Alive(q)', mixed'[q]),
         NEW p \in Paths, PathInv(p)
  PROVE  PathInv(p)'
<1>0. run \in RunType
  BY DEF ShapeOK
<1>1. /\ run'.fl = run.fl /\ run'.fr = run.fr /\ run'.snap = run.snap
      /\ run'.lman = [run.lman EXCEPT ![q] = l] /\ run'.rman = [run.rman EXCEPT ![q] = r]
      /\ run'.touched = run.touched \cup {q}
      /\ run'.todo = [run.todo EXCEPT ![q] = "untouched"]
  BY DEF Attributed
<1>2. Grows(p)
  BY <1>1, Shrinks
<1>3. CASE p # q
  <2>1. run'.lman[p] = run.lman[p] /\ run'.rman[p] = run.rman[p] /\ run'.todo[p] = run.todo[p]
          /\ (p \in run'.touched <=> p \in run.touched)
    BY <1>0, <1>1, <1>3 DEF RunType, Listings
  <2>2. p \in run.touched => run.todo[p] = "untouched"
    BY DEF PathInv, Attributing
  <2> QED
    BY <1>1, <1>2, <2>1, <2>2, PathKept DEF Listed, Attributing
<1>4. CASE p = q
  <2>1. /\ run'.lman[p] = l /\ run'.rman[p] = r /\ run'.todo[p] = "untouched"
        /\ p \in run'.touched
    BY <1>0, <1>1, <1>4 DEF RunType, Listings
  <2>2. pc' = "pullback" /\ stamp' = stamp /\ base' = base
    OBVIOUS
  <2> QED
    BY <1>1, <1>2, <1>4, <2>1, <2>2, Carried, PathTypes DEF PathInv, Listed, Attributing, Flown
<1> QED
  BY <1>3, <1>4

\* A path is given up: nothing is recorded of it.
LEMMA ClashPaths ==
  ASSUME ShapeOK, ShapeOK', NEW q \in Paths, run' = Clash(q), pc \in {"pullback"} \cup Flown,
         pc' = "pullback", UNCHANGED <<base, stamp, remote, local, mixed>>,
         NEW p \in Paths, PathInv(p)
  PROVE  PathInv(p)'
<1>1. run \in RunType
  BY DEF ShapeOK
<1>2. /\ run'.fl = run.fl /\ run'.fr = run.fr /\ run'.snap = run.snap
      /\ run'.lman = run.lman /\ run'.rman = run.rman /\ run'.touched = run.touched
      /\ run'.todo = [run.todo EXCEPT ![q] = "untouched"]
  BY <1>1, ClashTyped
<1>3. run'.todo[p] \in {run.todo[p], "untouched"}
  BY <1>1, <1>2 DEF RunType
<1>4. Grows(p)
  BY <1>2, Shrinks
<1>5. p \in run.touched => run.todo[p] = "untouched"
  BY DEF PathInv, Attributing
<1> QED
  BY <1>2, <1>3, <1>4, <1>5, PathKept DEF Listed, Attributing

\* The local file is found to be the output, before or after an install.
LEMMA OutputPaths ==
  ASSUME ShapeOK, ShapeOK', FlightInv, pc \in {"post-check", "post-verify"}, pc' = "pullback",
         NEW q \in Paths, q = run.flying.path, IsOutput(q), Paired(q),
         run' = Advance(q, LocalNow(q), run.fr[q]),
         UNCHANGED <<local, remote, base, stamp>>, NEW p \in Paths,
         \A s \in Paths : PathInv(s)
  PROVE  PathInv(p)'
<1> DEFINE k == run.flying.want
           e == LocalNow(q)
           f == local[q]
           fr == run.fr[q]
<1>0. /\ q \in Paths /\ k \in Contents /\ run.flying.kind = "output" /\ fr # NoFile
      /\ local \in Trees /\ run \in RunType /\ mixed \in [Paths -> SUBSET Nat] /\ PathInv(q)
  BY DEF ShapeOK, FlightOK, Aloft, Flights
<1>1. /\ fr \in Entry /\ fr \in EntryOrNone /\ Before(fr, stamp) /\ f \in Files /\ k # NoHash
      /\ Alive(q) = {f, remote[q]} \ {NoFile} /\ Alive(q) \subseteq About(q)
  BY <1>0, PathTypes, AbsentAssumption DEF PathInv, EntryOrNone, Alive
<1>2. e # NoFile /\ entries_same(e, Output(q))
  BY DEF IsOutput
<1>3. /\ e \in EntryOrNone /\ f # NoFile /\ e.mtime = f.mtime
      /\ e.size = SizeOf[f.content] /\ e.sha \in {f.content, NoHash}
      /\ SizeOf[f.content] = fr.size => e.sha = f.content
  BY <1>0, <1>2, FreshLocalTyped DEF LocalNow
<1>4. Output(q) # NoFile /\ Output(q).size = fr.size /\ Output(q).sha = k
  BY <1>0, <1>1, AbsentAssumption DEF Output, Entry
<1>5. f \in File /\ f.content # NoHash
  BY <1>1, <1>3, EntryFacts DEF Files
<1>6. e.sha = k /\ f.content = k
  BY <1>1, <1>2, <1>3, <1>4, <1>5 DEF entries_same
<1>7. /\ \A s \in Paths : mixed[s] \subseteq mixed'[s]
      /\ run.flying.apart => fr.mtime \in mixed'[q]
  BY <1>0 DEF Paired
<1>8. Denotes(fr, k, Alive(q), mixed'[q])
  <2>1. /\ Denotes(fr, k, {}, mixed[q])
        /\ ~run.flying.apart => Denotes(fr, k, About(q), mixed[q])
    BY <1>0 DEF FlightInv, Flown
  <2>2. CASE run.flying.apart
    BY <1>7, <2>1, <2>2 DEF Denotes
  <2>3. CASE ~run.flying.apart
    BY <1>0, <1>1, <1>7, <2>1, <2>3 DEF Denotes
  <2> QED
    BY <2>2, <2>3
<1>9. f \in Alive(q) /\ f.mtime < stamp
        /\ \A g \in Alive(q) : g.mtime = f.mtime /\ f.mtime \notin mixed[q] => g = f
  BY <1>0, <1>1, <1>3 DEF PathInv, Coherent
<1>10. Denotes(e, k, Alive(q), mixed'[q])
  BY <1>0, <1>3, <1>6, <1>7, <1>9 DEF Denotes
<1>11. Alive(q)' = Alive(q)
  BY DEF Alive
<1> HIDE DEF e, fr, f, k
<1>12. Pair(e, fr, Alive(q)', mixed'[q]) /\ Before(e, stamp)
  BY <1>0, <1>1, <1>2, <1>3, <1>8, <1>9, <1>10, <1>11 DEF Pair, Before
<1>13. Attributed(run', q, e, fr)
  BY <1>0, <1>1, <1>3, AdvanceTyped DEF e, fr
<1>14. local'[q] \in {local[q], NoFile} /\ (\A s \in Paths \ {q} : local'[s] = local[s])
         /\ PathInv(p) /\ pc \in {"pullback"} \cup Flown
  BY DEF Flown
<1> QED
  BY <1>0, <1>1, <1>3, <1>7, <1>12, <1>13, <1>14, AttributedPaths

(* A step that moves only the transfer under way.                          *)
Steady == /\ run'.lman = run.lman /\ run'.rman = run.rman /\ run'.fl = run.fl
          /\ run'.fr = run.fr /\ run'.snap = run.snap /\ run'.touched = run.touched
          /\ run'.todo = run.todo

\* Such a step keeps what is known of every path.
LEMMA SteadyPaths ==
  ASSUME ShapeOK, ShapeOK', Steady, UNCHANGED base, NEW p \in Paths, PathInv(p), Grows(p),
         \/ pc = "pre-copy" /\ pc' = "pre-install"
         \/ pc \in {"pullback"} \cup Flown /\ pc' \in Flown
  PROVE  PathInv(p)'
<1>1. pc # "pre-copy" /\ p \in run.touched => run.todo[p] = "untouched"
  BY DEF PathInv, Attributing, Flown
<1> QED
  BY <1>1, PathKept DEF Steady, Listed, Attributing, Flown

\* Where that happens, and what it does to the transfer.
LEMMA TransferSteps ==
  ASSUME ShapeOK
  PROVE  /\ BackUpAndRead =>
              /\ Steady /\ pc \in {"pre-copy", "post-copy"} /\ run.flying.path \in Paths
              /\ pc' = (IF pc = "pre-copy" THEN "pre-install" ELSE "post-install")
              /\ UNCHANGED <<local, remote, base, stamp, mixed>>
              /\ run'.flying.path = run.flying.path /\ run'.flying.kind = run.flying.kind
              /\ run'.flying.want = run.flying.want /\ run'.flying.apart = run.flying.apart
              /\ run'.flying.seen = run.flying.seen
              /\ run'.flying.first \in {NoFile, local[run.flying.path], remote[run.flying.path]}
         /\ PullbackPull =>
              /\ Steady /\ pc = "post-check" /\ pc' = "post-copy" /\ run.flying.path \in Paths
              /\ UNCHANGED <<local, remote, base, stamp, mixed>>
              /\ run'.flying.path = run.flying.path /\ run'.flying.kind = run.flying.kind
              /\ run'.flying.want = run.flying.want /\ run'.flying.apart = run.flying.apart
              /\ run'.flying.seen = local[run.flying.path]
         /\ InstallOutput =>
              /\ Steady /\ pc = "post-install" /\ pc' = "post-verify" /\ run.flying.path \in Paths
              /\ UNCHANGED base /\ run'.flying = run.flying
         /\ \A p \in Paths : HashOutput(p) =>
              /\ Steady /\ pc = "pullback" /\ pc' = "post-check" /\ run.fr[p] # NoFile
              /\ OutputHash(p) # NoHash /\ run.todo[p] = "changed"
              /\ UNCHANGED <<local, remote, base, stamp, mixed>>
              /\ run'.flying.path = p /\ run'.flying.want = OutputHash(p)
              /\ run'.flying.apart = (run.fr[p].sha = NoHash /\ remote[p].mtime # run.fr[p].mtime)
<1>1. run \in RunType
  BY DEF ShapeOK
<1>2. pc \in Aloft => run.flying \in Flights /\ run.flying.path \in Paths
  BY DEF ShapeOK, FlightOK, Flights
<1>3. ASSUME BackUpAndRead
      PROVE  /\ Steady /\ pc \in {"pre-copy", "post-copy"}
             /\ pc' = (IF pc = "pre-copy" THEN "pre-install" ELSE "post-install")
             /\ UNCHANGED <<local, remote, base, stamp, mixed>>
             /\ run'.flying.path = run.flying.path /\ run'.flying.kind = run.flying.kind
             /\ run'.flying.want = run.flying.want /\ run'.flying.apart = run.flying.apart
             /\ run'.flying.seen = run.flying.seen
             /\ run'.flying.first \in {NoFile, local[run.flying.path], remote[run.flying.path]}
  <2> DEFINE src == Source(run.flying.kind, run.flying.path)
  <2>1. src \in {NoFile, local[run.flying.path], remote[run.flying.path]}
    BY DEF Source
  <2>2. run.flying \in Flights
    BY <1>2, <1>3 DEF BackUpAndRead, Aloft
  <2> HIDE DEF src
  <2>3. PICK over : run' = [run EXCEPT !.flying = [run.flying EXCEPT !.first = src, !.over = over]]
    BY <1>1, <1>3, <2>2 DEF BackUpAndRead, src, RunType, Flights
  <2> DEFINE g == [run.flying EXCEPT !.first = src, !.over = over]
  <2>4. /\ g.path = run.flying.path /\ g.kind = run.flying.kind /\ g.want = run.flying.want
        /\ g.apart = run.flying.apart /\ g.seen = run.flying.seen /\ g.first = src
    BY <2>2 DEF Flights
  <2> HIDE DEF g
  <2>5. Steady /\ run'.flying = g
    BY <1>1, <2>3 DEF Steady, RunType, g
  <2>6. /\ pc \in {"pre-copy", "post-copy"} /\ UNCHANGED <<local, remote, base, stamp, mixed>>
        /\ pc' = (IF pc = "pre-copy" THEN "pre-install" ELSE "post-install")
    BY <1>3 DEF BackUpAndRead
  <2> QED
    BY <2>1, <2>4, <2>5, <2>6
<1>4. ASSUME PullbackPull
      PROVE  /\ Steady /\ run'.flying.path = run.flying.path /\ run'.flying.kind = run.flying.kind
             /\ run'.flying.want = run.flying.want /\ run'.flying.apart = run.flying.apart
             /\ run'.flying.seen = local[run.flying.path] /\ pc = "post-check"
             /\ pc' = "post-copy" /\ UNCHANGED <<local, remote, base, stamp, mixed>>
  <2>1. run.flying \in Flights
    BY <1>2, <1>4 DEF PullbackPull, Aloft
  <2> QED
    BY <1>1, <1>4, <2>1 DEF PullbackPull, Steady, RunType, Flights
<1>5. ASSUME InstallOutput
      PROVE  /\ Steady /\ run'.flying = run.flying /\ pc = "post-install" /\ pc' = "post-verify"
             /\ UNCHANGED base
  BY <1>1, <1>5 DEF InstallOutput, Steady, RunType
<1>6. ASSUME NEW p \in Paths, HashOutput(p)
      PROVE  /\ Steady /\ pc = "pullback" /\ pc' = "post-check" /\ run.fr[p] # NoFile
             /\ OutputHash(p) # NoHash /\ run.todo[p] = "changed"
             /\ UNCHANGED <<local, remote, base, stamp, mixed>>
             /\ run'.flying.path = p /\ run'.flying.want = OutputHash(p)
             /\ run'.flying.apart = (run.fr[p].sha = NoHash /\ remote[p].mtime # run.fr[p].mtime)
  <2> DEFINE apart == run.fr[p].sha = NoHash /\ remote[p].mtime # run.fr[p].mtime
             g == Flight(p, "output", OutputHash(p), apart)
  <2>1. g.path = p /\ g.want = OutputHash(p) /\ g.apart = apart
    BY DEF Flight
  <2>2. run' = [run EXCEPT !.flying = g]
    BY <1>6 DEF HashOutput
  <2> HIDE DEF g
  <2>3. Steady /\ run'.flying = g
    BY <1>1, <2>2 DEF Steady, RunType
  <2>4. run.fr[p] # NoFile
    BY <1>6 DEF HashOutput, ShapeOK, PullingBack
  <2> QED
    BY <1>6, <2>1, <2>3, <2>4 DEF HashOutput
<1> QED
  BY <1>2, <1>3, <1>4, <1>5, <1>6 DEF Aloft

\* The steps after the command.
LEMMA PullbackPaths ==
  ASSUME ShapeOK, ShapeOK', FlightInv, Pullback, NEW p \in Paths, \A q \in Paths : PathInv(q)
  PROVE  PathInv(p)'
<1>0. /\ local \in Trees /\ remote \in Trees /\ run \in RunType /\ Empty[p] = NoFile
      /\ local[p] \in Alive(p) \cup {NoFile} /\ remote[p] \in Alive(p) \cup {NoFile} /\ PathInv(p)
  BY DEF ShapeOK, Empty, Alive
<1>1. ASSUME run' = FreshRun, pc' = "idle", UNCHANGED <<local, remote, base, stamp, mixed>>
      PROVE  PathInv(p)'
  <2>1. /\ run'.lman = Empty /\ run'.rman = Empty /\ run'.fl = Empty /\ run'.fr = Empty
        /\ run'.snap = Empty
    BY <1>1 DEF FreshRun
  <2>2. Grows(p)
    BY <1>0, <1>1, <2>1, Shrinks
  <2> QED
    BY <1>0, <1>1, <2>1, <2>2, PathCleared
<1>2. CASE CommandEnds
  <2>1. CASE pc' = "post-remote" /\ UNCHANGED run
    <3>1. pc = "exec" /\ UNCHANGED <<local, remote, base, stamp, mixed>>
      BY <1>2 DEF CommandEnds
    <3>2. Grows(p) /\ p \notin run.touched
      BY <2>1, <3>1, Shrinks DEF PathInv, Attributing
    <3> QED
      BY <2>1, <3>1, <3>2, PathKept DEF Listed, Attributing, Flown
  <2> QED
    BY <1>1, <1>2, <2>1 DEF CommandEnds, EndRun
<1>3. CASE PostRemote
  <2>1. /\ pc = "post-remote" /\ UNCHANGED <<local, remote, base, stamp, mixed>>
        /\ \/ EndRun("post-conflict")
           \/ /\ \E todo : run' = [run EXCEPT !.todo = todo, !.fr = Manifest(remote),
                                              !.fl = Manifest(local)]
              /\ pc' = "pullback"
    BY <1>3 DEF PostRemote
  <2>2. CASE /\ \E todo : run' = [run EXCEPT !.todo = todo, !.fr = Manifest(remote),
                                             !.fl = Manifest(local)]
             /\ pc' = "pullback"
    <3>1. /\ run'.fl[p] = EntryOf(local[p]) /\ run'.fr[p] = EntryOf(remote[p])
          /\ run'.snap = run.snap /\ run'.lman = run.lman /\ run'.rman = run.rman
          /\ run'.touched = run.touched
      BY <1>0, <2>2 DEF Manifest, RunType
    <3>2. Grows(p)
      BY <2>1, <3>1, Shrinks
    <3>3. /\ Before(EntryOf(local[p]), stamp) /\ Listing(EntryOf(local[p]), About(p), mixed[p])
          /\ Before(EntryOf(remote[p]), stamp) /\ Listing(EntryOf(remote[p]), About(p), mixed[p])
      BY <1>0, ListedNow
    <3>4. EntryOf(local[p]) \in EntryOrNone /\ EntryOf(remote[p]) \in EntryOrNone
      BY PathTypes, EntryTyped
    <3>5. p \notin run.touched
      BY <2>1 DEF PathInv, Attributing
    <3>6. stamp' = stamp /\ base' = base /\ pc' = "pullback" /\ pc = "post-remote"
      BY <2>1, <2>2
    <3> QED
      BY <3>1, <3>2, <3>3, <3>4, <3>5, <3>6, Carried, PathTypes
         DEF PathInv, Listed, Attributing, Flown
  <2> QED
    BY <1>1, <2>1, <2>2 DEF EndRun
<1>4. ASSUME NEW q \in Paths, PullbackCollision(q) \/ PullbackUnhashed(q) PROVE PathInv(p)'
  <2>1. /\ pc = "pullback" /\ run' = Clash(q)
        /\ UNCHANGED <<pc, base, stamp, remote, local, mixed>>
    BY <1>4 DEF PullbackCollision, PullbackUnhashed
  <2> QED
    BY <2>1, ClashPaths
<1>5. CASE PullbackConflict
  <2>1. /\ pc \in Flown /\ pc' = "pullback" /\ run' = Clash(run.flying.path)
        /\ run.flying.path \in Paths /\ UNCHANGED <<base, stamp, remote, local, mixed>>
    BY <1>5 DEF PullbackConflict, ShapeOK, FlightOK, Aloft, Flights, Flown
  <2> QED
    BY <2>1, ClashPaths
<1>6. CASE PullbackSkip \/ VerifyOutput
  <2>1. CASE EndRun("error") /\ UNCHANGED <<local, remote, base, stamp, mixed>>
    BY <1>1, <2>1 DEF EndRun
  <2>2. CASE pc' = "pullback"
    <3>1. PICK q \in Paths : q = run.flying.path
      BY <1>6 DEF PullbackSkip, VerifyOutput, ShapeOK, FlightOK, Aloft, Flights
    <3> QED
      BY <1>6, <2>2, <3>1, OutputPaths DEF PullbackSkip, VerifyOutput, EndRun
  <2> QED
    BY <1>6, <2>1, <2>2 DEF PullbackSkip, VerifyOutput
<1>7. CASE PullbackPull \/ \E q \in Paths : HashOutput(q)
  <2>1. /\ Steady /\ pc \in {"pullback"} \cup Flown /\ pc' \in Flown
        /\ UNCHANGED <<local, remote, base, stamp, mixed>>
    BY <1>7, TransferSteps DEF Flown
  <2>2. Grows(p)
    BY <2>1, Shrinks DEF Steady
  <2> QED
    BY <1>0, <2>1, <2>2, SteadyPaths
<1>8. ASSUME NEW q \in Paths, PullbackDelete(q) PROVE PathInv(p)'
  <2>1. pc = "pullback" /\ UNCHANGED <<local, remote, base, stamp, mixed>>
    BY <1>8 DEF PullbackDelete
  <2>2. CASE run' = Clash(q) /\ UNCHANGED pc
    BY <2>1, <2>2, ClashPaths
  <2>3. CASE run' = Advance(q, NoFile, NoFile) /\ UNCHANGED pc
    <3>1. NoFile \in EntryOrNone /\ Before(NoFile, stamp)
            /\ Pair(NoFile, NoFile, Alive(q)', mixed'[q])
      BY DEF EntryOrNone, Before, Pair
    <3>2. Attributed(run', q, NoFile, NoFile)
      BY <1>0, <2>3, <3>1, AdvanceTyped
    <3> QED
      BY <2>1, <2>3, <3>1, <3>2, AttributedPaths
  <2>4. CASE pc' = "post-copy" /\ \E g : run' = [run EXCEPT !.flying = g]
    <3>1. Steady /\ pc' \in Flown
      BY <1>0, <2>4 DEF Steady, RunType, Flown
    <3>2. Grows(p)
      BY <2>1, <3>1, Shrinks DEF Steady
    <3> QED
      BY <1>0, <2>1, <3>1, <3>2, SteadyPaths
  <2> QED
    BY <1>8, <2>2, <2>3, <2>4 DEF PullbackDelete
<1>9. CASE InstallOutput
  <2>1. Steady /\ pc = "post-install" /\ pc' = "post-verify" /\ UNCHANGED base
          /\ run.flying.path \in Paths
    BY <1>9, TransferSteps
  <2>2. Grows(p)
    BY <1>0, <1>9, <2>1, Landed DEF InstallOutput, Copies, Steady
  <2> QED
    BY <1>0, <2>1, <2>2, SteadyPaths DEF Flown
<1>10. CASE MirrorDeletion
  <2>1. PICK q \in Paths :
          /\ pc \in Flown /\ pc' = "pullback"
          /\ run' = [Advance(q, NoFile, NoFile) EXCEPT !.mutated = TRUE]
          /\ local' = [local EXCEPT ![q] = NoFile] /\ UNCHANGED <<remote, base, stamp, mixed>>
    BY <1>10 DEF MirrorDeletion, ShapeOK, FlightOK, Aloft, Flights, Flown
  <2>2. NoFile \in EntryOrNone /\ Before(NoFile, stamp)
          /\ Pair(NoFile, NoFile, Alive(q)', mixed'[q])
    BY DEF EntryOrNone, Before, Pair
  <2>3. Attributed(run', q, NoFile, NoFile)
    BY <1>0, <2>1, <2>2, AdvanceTyped
  <2>4. local'[q] = NoFile /\ \A s \in Paths \ {q} : local'[s] = local[s]
    BY <1>0, <2>1 DEF Trees
  <2> QED
    BY <1>0, <2>1, <2>2, <2>3, <2>4, AttributedPaths
<1>11. CASE FinishRun
  <2>1. /\ pc = "pullback" /\ run' = FreshRun /\ pc' = "idle"
        /\ UNCHANGED <<local, remote, stamp, mixed>>
        /\ base' = base \/ base' = [have |-> TRUE, l |-> run.lman, r |-> run.rman]
    BY <1>11 DEF FinishRun, EndRun
  <2>2. CASE base' = [have |-> TRUE, l |-> run.lman, r |-> run.rman]
    <3>1. /\ run'.lman[p] = NoFile /\ run'.rman[p] = NoFile /\ run'.fl[p] = NoFile
          /\ run'.fr[p] = NoFile /\ run'.snap[p] = NoFile
      BY <1>0, <2>1 DEF FreshRun
    <3>2. About(p)' = Alive(p) /\ Alive(p) \subseteq About(p)
      BY <2>1, <3>1 DEF About, Alive
    <3>3. Coherent(About(p)', stamp, mixed[p])
      BY <3>2 DEF PathInv, Coherent
    <3>4. /\ Pair(run.lman[p], run.rman[p], Alive(p), mixed[p]) /\ Before(run.lman[p], stamp)
          /\ Before(run.rman[p], stamp)
      BY <2>1 DEF PathInv, Attributing
    <3>5. Before(NoFile, stamp) /\ Listing(NoFile, About(p)', mixed[p])
      BY DEF Before, Listing, Plain
    <3>6. base'.l[p] = run.lman[p] /\ base'.r[p] = run.rman[p]
      BY <2>2
    <3> QED
      BY <2>1, <3>1, <3>2, <3>3, <3>4, <3>5, <3>6 DEF PathInv, Listed, Attributing, Flown
  <2> QED
    BY <1>1, <2>1, <2>2
<1> QED
  BY <1>2, <1>3, <1>4, <1>5, <1>6, <1>7, <1>8, <1>9, <1>10, <1>11 DEF Pullback

-----------------------------------------------------------------------------
(* The transfer under way.                                                 *)

\* A local file whose entry, read anew, is not changed since the entry recorded
\* for the run holds the content that was verified, unless that entry is mixed.
LEMMA UnchangedIsVerified ==
  ASSUME ShapeOK, NEW p \in Paths, PathInv(p), pc \in Attributing, p \notin run.touched,
         local[p] # NoFile, NEW size, ~changed_since(run.lman[p], FreshLocal(p, size)),
         ~Mixed(p, run.lman[p])
  PROVE  ContentOf(local[p]) = ContentOf(run.snap[p])
<1> DEFINE f == local[p]
           sn == run.snap[p]
           l == base.l[p]
           e == FreshLocal(p, size)
<1>1. /\ f \in Files /\ sn \in Files /\ l \in EntryOrNone /\ local \in Trees
  BY PathTypes DEF ShapeOK
<1>2. /\ run.lman[p] = l /\ Pair(l, base.r[p], About(p), mixed[p]) /\ entries_same(l, EntryOf(sn))
  BY DEF PathInv
<1>3. /\ e # NoFile /\ e.size = SizeOf[f.content] /\ e.mtime = f.mtime
      /\ e.sha \in {f.content, NoHash}
  BY <1>1, FreshLocalTyped
<1>4. entries_same(l, e)
  BY <1>2 DEF changed_since
<1> HIDE DEF e
<1>5. l # NoFile /\ l \in Entry /\ sn # NoFile /\ l.mtime \notin mixed[p]
  BY <1>1, <1>2, <1>3, <1>4, EntryFacts DEF entries_same, EntryOrNone, Mixed
<1>6. PICK k \in Contents : Denotes(l, k, About(p), mixed[p])
  BY <1>2, <1>5 DEF Pair
<1>7. f \in File /\ sn \in File /\ f \in About(p) /\ sn \in About(p)
  BY <1>1, <1>5 DEF Files, About
<1>8. f.content = k
  BY <1>3, <1>4, <1>5, <1>6, <1>7, DenotesContent
<1>9. sn.content = k
  BY <1>1, <1>2, <1>5, <1>6, <1>7, EntryFacts, DenotesContent
<1> QED
  BY <1>5, <1>8, <1>9 DEF ContentOf

\* A transfer of pullback that stays the same one.
LEMMA FlightKept ==
  ASSUME ShapeOK, ShapeOK', FlightInv, NEW p \in Paths, p = run.flying.path, PathInv(p), Grows(p),
         pc \in Flown, pc' \in Flown, p = run'.flying.path, run'.lman = run.lman,
         run'.fr = run.fr, run'.snap = run.snap, run'.touched = run.touched,
         run'.flying.kind = run.flying.kind, run'.flying.want = run.flying.want,
         run'.flying.apart = run.flying.apart,
         pc' = "post-install" => Before(run'.flying.first, stamp'),
         pc' \in {"post-copy", "post-install"} =>
           \/ run'.flying.seen = NoFile \/ Mixed(p, run.lman[p])
           \/ ContentOf(run'.flying.seen) = ContentOf(run.snap[p])
  PROVE  FlightInv'
<1>1. /\ mixed[p] \subseteq mixed'[p] /\ p \notin run.touched
      /\ Before(run.fr[p], stamp)
  BY DEF Grows, FlightInv, PathInv
<1>2. Mixed(p, run.lman[p]) => Mixed(p, run.lman[p])'
  BY <1>1 DEF Mixed
<1>3. ASSUME run.flying.kind = "output"
      PROVE  /\ Denotes(run.fr[p], run.flying.want, {}, mixed'[p])
             /\ ~run.flying.apart => Denotes(run.fr[p], run.flying.want, About(p)', mixed'[p])
  <2>1. run.fr[p] \in Entry
    BY <1>3, PathTypes DEF ShapeOK, FlightOK, Aloft, Flown, EntryOrNone
  <2>2. /\ Denotes(run.fr[p], run.flying.want, {}, mixed[p])
        /\ ~run.flying.apart => Denotes(run.fr[p], run.flying.want, About(p), mixed[p])
    BY <1>3 DEF FlightInv
  <2>3. Denotes(run.fr[p], run.flying.want, {}, mixed'[p])
    BY <2>2 DEF Denotes
  <2> QED
    BY <1>1, <2>1, <2>2, <2>3, Carried
<1> QED
  BY <1>1, <1>2, <1>3 DEF FlightInv, Flown

\* What is known of the transfer under way is kept by every step.
LEMMA FlightStep ==
  ASSUME ShapeOK, ShapeOK', FlightInv, [Next]_vars, \A p \in Paths : PathInv(p)
  PROVE  FlightInv'
<1>0. run \in RunType /\ (pc \in Aloft => run.flying.path \in Paths /\ run.flying \in Flights)
  BY DEF ShapeOK, FlightOK, Flights
<1>1. CASE Preflight \/ Abort \/ CommandEnds \/ PostRemote \/ FinishRun \/ MirrorDeletion
            \/ PullbackSkip \/ PullbackConflict \/ VerifyOutput
            \/ \E p \in Paths : PullbackCollision(p) \/ PullbackUnhashed(p)
  <2>1. pc' \notin Flown \cup {"pre-install"}
    <3>1. CASE Preflight
      BY <3>1 DEF Flown, Preflight, StartRun, ManifestLocal, ManifestRemote, PlanRefused,
         PlanUnproved, PlanAccepted, PreflightConflict, EndRun, SkipIdentical, ApplyPull,
         ApplyPush, ApplyDeleteRemote, ApplyDeleteLocal, TakesOff, InstallPull, CommitPush,
         Unlink, FinalLocal, FinalRemote, VerifyRefused, VerifyAccepted
    <3>2. CASE ~Preflight
      BY <1>1, <3>2 DEF Flown, Abort, EndRun, CommandEnds, PostRemote, FinishRun, MirrorDeletion,
         PullbackSkip, PullbackConflict, VerifyOutput, PullbackCollision, PullbackUnhashed
    <3> QED
      BY <3>1, <3>2
  <2> QED
    BY <2>1 DEF FlightInv, Flown
<1>2. CASE External
  <2>1. UNCHANGED <<base, run, pc, mixed>>
    BY <1>2, ExternalTicks
  <2>2. ASSUME pc \in Aloft PROVE PathInv(run.flying.path) /\ Grows(run.flying.path)
    BY <1>0, <1>2, <2>2, ExternalGrows
  <2>3. pc \in {"pre-install", "post-install"} => Before(run.flying.first, stamp')
    <3>1. pc \in {"pre-install", "post-install"} => run.flying.first \in Files
      BY <1>0 DEF Aloft, Flights
    <3> QED
      BY <1>0, <2>2, <3>1, Carried DEF Aloft, FlightInv
  <2>4. CASE pc \in Flown
    <3>1. pc \in Aloft
      BY <2>4 DEF Flown, Aloft
    <3> QED
      BY <1>0, <2>1, <2>2, <2>3, <2>4, <3>1, FlightKept DEF FlightInv
  <2>5. CASE pc \notin Flown
    BY <2>1, <2>3, <2>5 DEF FlightInv, Flown
  <2> QED
    BY <2>4, <2>5
<1>3. CASE BackUpAndRead
  <2>1. /\ Steady /\ pc \in {"pre-copy", "post-copy"} /\ run.flying.path \in Paths
        /\ pc' = (IF pc = "pre-copy" THEN "pre-install" ELSE "post-install")
        /\ UNCHANGED <<local, remote, base, stamp, mixed>>
        /\ run'.flying.path = run.flying.path /\ run'.flying.kind = run.flying.kind
        /\ run'.flying.want = run.flying.want /\ run'.flying.apart = run.flying.apart
        /\ run'.flying.seen = run.flying.seen
        /\ run'.flying.first \in {NoFile, local[run.flying.path], remote[run.flying.path]}
    BY <1>3, TransferSteps
  <2>2. PathInv(run.flying.path) /\ Grows(run.flying.path)
    BY <2>1, Shrinks DEF Steady
  <2>3. Before(run'.flying.first, stamp')
    BY <2>1, <2>2 DEF PathInv, Coherent, About, Before
  <2>4. CASE pc = "post-copy"
    <3>1. \/ run'.flying.seen = NoFile \/ Mixed(run.flying.path, run.lman[run.flying.path])
          \/ ContentOf(run'.flying.seen) = ContentOf(run.snap[run.flying.path])
      BY <2>1, <2>4 DEF FlightInv
    <3> QED
      BY <2>1, <2>2, <2>3, <2>4, <3>1, FlightKept DEF Steady, Flown
  <2>5. CASE pc = "pre-copy"
    BY <2>1, <2>3, <2>5 DEF FlightInv, Flown
  <2> QED
    BY <2>1, <2>4, <2>5
<1>4. ASSUME NEW p \in Paths, HashOutput(p) PROVE FlightInv'
  <2>1. /\ Steady /\ pc = "pullback" /\ pc' = "post-check" /\ run.fr[p] # NoFile
        /\ OutputHash(p) # NoHash /\ run.todo[p] = "changed"
        /\ UNCHANGED <<local, remote, base, stamp, mixed>>
        /\ run'.flying.path = p /\ run'.flying.want = OutputHash(p)
        /\ run'.flying.apart = (run.fr[p].sha = NoHash /\ remote[p].mtime # run.fr[p].mtime)
    BY <1>4, TransferSteps
  <2>2. p \notin run.touched
    BY <2>1 DEF PathInv, Attributing
  <2>3. /\ Denotes(run.fr[p], OutputHash(p), {}, mixed[p])
        /\ \/ run.fr[p].sha = NoHash /\ remote[p].mtime # run.fr[p].mtime
           \/ Denotes(run.fr[p], OutputHash(p), About(p), mixed[p])
    BY <2>1, OutputDenotes
  <2>4. About(p)' = About(p)
    BY <2>1 DEF About, Steady
  <2> QED
    BY <2>1, <2>2, <2>3, <2>4 DEF FlightInv, Steady, Flown
<1>5. CASE PullbackPull
  <2>1. /\ Steady /\ pc = "post-check" /\ pc' = "post-copy" /\ run.flying.path \in Paths
        /\ UNCHANGED <<local, remote, base, stamp, mixed>>
        /\ run'.flying.path = run.flying.path /\ run'.flying.kind = run.flying.kind
        /\ run'.flying.want = run.flying.want /\ run'.flying.apart = run.flying.apart
        /\ run'.flying.seen = local[run.flying.path]
    BY <1>5, TransferSteps
  <2>2. PathInv(run.flying.path) /\ Grows(run.flying.path)
    BY <2>1, Shrinks DEF Steady
  <2>3. ~changed_since(run.lman[run.flying.path],
                       FreshLocal(run.flying.path, run.fr[run.flying.path].size))
    BY <1>5 DEF PullbackPull, LocalNow
  <2>4. pc \in Attributing /\ run.flying.path \notin run.touched
    BY <2>1 DEF FlightInv, Flown, Attributing
  <2>5. \/ local[run.flying.path] = NoFile \/ Mixed(run.flying.path, run.lman[run.flying.path])
        \/ ContentOf(local[run.flying.path]) = ContentOf(run.snap[run.flying.path])
    BY <2>1, <2>2, <2>3, <2>4, UnchangedIsVerified
  <2> QED
    BY <2>1, <2>2, <2>5, FlightKept DEF Steady, Flown
<1>6. ASSUME NEW p \in Paths, PullbackDelete(p) PROVE FlightInv'
  <2> DEFINE g == [Flight(p, "mirror", NoHash, FALSE) EXCEPT !.seen = local[p]]
  <2>1. CASE UNCHANGED pc
    BY <1>6, <2>1 DEF PullbackDelete, FlightInv, Flown
  <2>2. CASE pc' = "post-copy" /\ run' = [run EXCEPT !.flying = g]
    <3>1. /\ local[p] # NoFile /\ pc = "pullback" /\ run.todo[p] = "deleted"
          /\ UNCHANGED <<local, remote, base, stamp, mixed>>
          /\ \E size : ~changed_since(run.lman[p], FreshLocal(p, size))
      <4>1. \A size : FreshLocal(p, size) # NoFile => local[p] # NoFile
        BY DEF FreshLocal
      <4>2. pc # "post-copy"
        BY <1>6 DEF PullbackDelete
      <4> QED
        BY <1>6, <2>2, <4>1, <4>2 DEF PullbackDelete
    <3>2. g.path = p /\ g.kind = "mirror" /\ g.seen = local[p]
      BY DEF Flight
    <3> HIDE DEF g
    <3>3. run'.flying = g /\ run'.lman = run.lman /\ run'.snap = run.snap /\ run'.touched = run.touched
      BY <1>0, <2>2 DEF RunType
    <3>4. p \notin run.touched /\ pc \in Attributing
      BY <3>1 DEF PathInv, Attributing
    <3>5. Mixed(p, run.lman[p]) \/ ContentOf(local[p]) = ContentOf(run.snap[p])
      BY <3>1, <3>4, UnchangedIsVerified
    <3> QED
      BY <2>2, <3>1, <3>2, <3>3, <3>4, <3>5 DEF FlightInv, Flown, Mixed
  <2> QED
    BY <1>6, <2>1, <2>2 DEF PullbackDelete
<1>7. CASE InstallOutput
  <2>1. /\ Steady /\ pc = "post-install" /\ pc' = "post-verify" /\ run.flying.path \in Paths
        /\ UNCHANGED base /\ run'.flying = run.flying
    BY <1>7, TransferSteps
  <2>2. PathInv(run.flying.path)
    BY <2>1
  <2>3. Grows(run.flying.path)
    BY <1>7, <2>1, <2>2, Landed DEF InstallOutput, Copies, Steady
  <2> QED
    BY <2>1, <2>2, <2>3, FlightKept DEF Steady, Flown
<1>8. CASE UNCHANGED vars
  BY <1>8 DEF vars, FlightInv, About, Mixed
<1> QED
  BY <1>1, <1>2, <1>3, <1>4, <1>5, <1>6, <1>7, <1>8 DEF Next, Pullback

-----------------------------------------------------------------------------
(* The invariant.                                                          *)

\* Generations and recorded pairs are kept by every step.
LEMMA PathStep ==
  ASSUME ShapeOK, ShapeOK', FlightInv, [Next]_vars, \A p \in Paths : PathInv(p)
  PROVE  \A p \in Paths : PathInv(p)'
<1> TAKE p \in Paths
<1>1. CASE Preflight
  BY <1>1, PreflightPaths, VerifyPaths
<1>2. CASE Abort
  <2>1. run' = FreshRun /\ pc' = "idle" /\ UNCHANGED <<local, remote, base, stamp, mixed>>
    BY <1>2 DEF Abort, EndRun
  <2>2. /\ run'.lman[p] = NoFile /\ run'.rman[p] = NoFile /\ run'.fl[p] = NoFile
        /\ run'.fr[p] = NoFile /\ run'.snap[p] = NoFile
    BY <2>1 DEF FreshRun, Empty
  <2>3. Grows(p)
    BY <2>1, <2>2, Shrinks
  <2> QED
    BY <2>1, <2>2, <2>3, PathCleared
<1>3. CASE BackUpAndRead
  <2>1. /\ Steady /\ UNCHANGED <<local, remote, base, stamp, mixed>>
        /\ \/ pc = "pre-copy" /\ pc' = "pre-install"
           \/ pc \in {"pullback"} \cup Flown /\ pc' \in Flown
    BY <1>3, TransferSteps DEF Flown
  <2>2. Grows(p)
    BY <2>1, Shrinks DEF Steady
  <2> QED
    BY <2>1, <2>2, SteadyPaths
<1>4. CASE UNCHANGED vars
  <2>1. UNCHANGED <<local, remote, base, run, pc, stamp, mixed>>
    BY <1>4 DEF vars
  <2> QED
    BY <2>1 DEF PathInv, About, Alive
<1> QED
  BY <1>1, <1>2, <1>3, <1>4, ExternalPaths, PullbackPaths DEF Next

\* The invariant holds throughout.
LEMMA Invariance == Spec => []IInv
<1>1. Init => IInv
  <2>1. Init => ShapeOK /\ SparedInv /\ BackupInv /\ FlightInv
    BY InitShape DEF Init, SparedInv, BackupInv, FlightInv, Flown, Reconciling
  <2> SUFFICES ASSUME Init, NEW p \in Paths PROVE PathInv(p)
    BY <2>1 DEF IInv
  <2>2. /\ local[p] = NoFile /\ remote[p] = NoFile /\ run.snap[p] = NoFile /\ pc = "idle"
        /\ base.l[p] = NoFile /\ base.r[p] = NoFile /\ ~base.have
        /\ run.lman[p] = NoFile /\ run.rman[p] = NoFile /\ run.fl[p] = NoFile
        /\ run.fr[p] = NoFile
    BY DEF Init, Empty, NoBase, FreshRun
  <2>3. About(p) = {}
    BY <2>2 DEF About
  <2> QED
    BY <2>2, <2>3 DEF PathInv, Coherent, Before, Listing, Plain, Listed, Attributing, Flown
<1>2. IInv /\ [Next]_vars => IInv'
  BY ShapeStep, BackupStep, FlightStep, PathStep DEF IInv
<1> QED
  BY <1>1, <1>2, PTL DEF Spec

-----------------------------------------------------------------------------
(* What the invariant is for.                                              *)

\* Two sides that both match the baseline hold the same content: the planner's
\* "unchanged on both sides, nothing to do" is sound, for files compared by
\* mtime alone too, however many paths, contents, runs and writers there are;
\* but for a large file whose recorded mtime is that of another version.
THEOREM SameMeansSame == Spec => []NoFalseSame
<1>1. ASSUME IInv PROVE NoFalseSame
  <2> SUFFICES ASSUME base.have, NEW p \in Paths, entries_same(base.l[p], EntryOf(local[p])),
                      entries_same(base.r[p], EntryOf(remote[p])),
                      ~MixedLarge(p, base.l[p]), ~MixedLarge(p, base.r[p])
               PROVE  ContentOf(local[p]) = ContentOf(remote[p])
    BY DEF NoFalseSame
  <2> DEFINE f == local[p]
             g == remote[p]
             l == base.l[p]
             r == base.r[p]
  <2>1. ShapeOK /\ PathInv(p)
    BY <1>1 DEF IInv
  <2>2. f \in Files /\ g \in Files /\ l \in EntryOrNone /\ r \in EntryOrNone
    BY <2>1, PathTypes
  <2>3. Pair(l, r, About(p), mixed[p])
    BY <2>1 DEF PathInv
  <2>4. CASE l = NoFile /\ r = NoFile
    BY <2>2, <2>4, EntryFacts DEF entries_same, ContentOf
  <2>5. CASE l # NoFile /\ r # NoFile
    <3>1. PICK k \in Contents :
            Denotes(l, k, About(p), mixed[p]) /\ Denotes(r, k, About(p), mixed[p])
      BY <2>3, <2>5 DEF Pair
    <3>2. l \in Entry /\ r \in Entry /\ f # NoFile /\ g # NoFile
      BY <2>2, <2>5, EntryFacts DEF EntryOrNone, entries_same
    <3>3. f \in File /\ g \in File /\ f \in About(p) /\ g \in About(p)
      BY <2>2, <3>2 DEF Files, About
    <3>4. f.content = k /\ g.content = k
      BY <3>1, <3>2, <3>3, ListedContent
    <3> QED
      BY <3>2, <3>4 DEF ContentOf
  <2> QED
    BY <2>3, <2>4, <2>5 DEF Pair
<1>2. IInv => NoFalseSame
  BY <1>1
<1> QED
  BY <1>2, Invariance, PTL

\* Pullback replaces or deletes a local file only while it holds the content
\* that was verified against the remote before the command started; what it
\* can overwrite is an edit made after its own last look at the file, or one
\* hidden by an mtime of another version.
THEOREM PullbackKeepsEdits == Spec => PostrunKeepsLocalEdits
<1>1. ASSUME IInv, [Next]_vars, NEW p \in Paths, Ours, pc \in PullingBack, Loses(p),
             local[p] = run.flying.seen, ~Mixed(p, run.lman[p])
      PROVE  ContentOf(local[p]) = ContentOf(run.snap[p])
  <2>1. ShapeOK /\ FlightInv
    BY <1>1 DEF IInv
  <2>2. local'[p] # local[p] /\ local[p] # NoFile
    BY <1>1 DEF Loses
  <2>3. Writes /\ p = run.flying.path
    BY <1>1, <2>1, <2>2, WritersOf
  <2>4. pc = "post-install"
    BY <1>1, <2>3 DEF Writes, InstallPull, Unlink, InstallOutput, MirrorDeletion, PullingBack
  <2> QED
    BY <1>1, <2>1, <2>2, <2>3, <2>4 DEF FlightInv
<1>2. IInv /\ [Next]_vars =>
        [\A p \in Paths : Ours /\ pc \in PullingBack /\ Loses(p)
           => \/ ContentOf(local[p]) = ContentOf(run.snap[p])
              \/ local[p] # run.flying.seen
              \/ Mixed(p, run.lman[p])]_vars
  BY <1>1
<1> QED
  BY <1>2, Invariance, PTL DEF Spec, PostrunKeepsLocalEdits

\* The command is dispatched only when every path that still looks as it was
\* listed for verification holds one content on both sides; but for a large
\* file listed with an mtime of another version.
THEOREM DispatchConverged == Spec => DispatchOnConverged
<1>1. ASSUME IInv, [Next]_vars, pc = "verify", pc' = "exec", NEW p \in Paths
      PROVE  \/ ContentOf(local[p]) = ContentOf(remote[p])
             \/ EntryOf(local[p]) # run.fl[p] \/ MixedLarge(p, run.fl[p])
             \/ EntryOf(remote[p]) # run.fr[p] \/ MixedLarge(p, run.fr[p])
  <2>1. VerifyAccepted
    <3>1. ~External /\ ~Abort /\ ~BackUpAndRead /\ ~UNCHANGED vars
      BY <1>1 DEF Abort, EndRun, vars, External, LocalWrite, LocalDelete, RemoteWrite,
         RemoteDelete, Deliver, Vanish, Idle, BackUpAndRead
    <3>2. ~Pullback
      BY <1>1 DEF Pullback, CommandEnds, PostRemote, PullbackCollision, PullbackUnhashed,
         HashOutput, PullbackSkip, PullbackConflict, PullbackPull, PullbackDelete, InstallOutput,
         VerifyOutput, MirrorDeletion, FinishRun
    <3>3. Preflight
      BY <1>1, <3>1, <3>2 DEF Next
    <3> QED
      BY <1>1, <3>3 DEF Preflight, StartRun, ManifestLocal, ManifestRemote, PlanRefused,
         PlanUnproved, PlanAccepted, PreflightConflict, SkipIdentical, ApplyPull, ApplyPush,
         ApplyDeleteRemote, ApplyDeleteLocal, TakesOff, InstallPull, CommitPush, Unlink,
         FinalLocal, FinalRemote, VerifyRefused, EndRun
  <2> QED
    BY <1>1, <2>1, VerifiedPair DEF IInv, VerifyAccepted
<1>2. IInv /\ [Next]_vars =>
        [pc = "verify" /\ pc' = "exec"
         => \A p \in Paths :
              \/ ContentOf(local[p]) = ContentOf(remote[p])
              \/ EntryOf(local[p]) # run.fl[p] \/ MixedLarge(p, run.fl[p])
              \/ EntryOf(remote[p]) # run.fr[p] \/ MixedLarge(p, run.fr[p])]_vars
  BY <1>1
<1> QED
  BY <1>2, Invariance, PTL DEF Spec, DispatchOnConverged

-----------------------------------------------------------------------------
(* The plan itself: compare_manifests over every pair of files and every   *)
(* recorded pair, for any contents, sizes and hashing threshold.           *)

\* A case: four files, of which the recorded pair is well formed.
CaseTyped == /\ lf \in {NoFile} \cup File /\ rf \in {NoFile} \cup File
             /\ bl \in {NoFile} \cup File /\ br \in {NoFile} \cup File
             /\ havePrev \in BOOLEAN /\ strong \in BOOLEAN

CaseOK == CaseTyped /\ WellFormed(lf, rf, bl, br, havePrev)

\* A side that entries_same reports unchanged since its baseline entry holds
\* the baseline's content (_changed_since compares a side to its own past).
LEMMA UnchangedKeepsContent ==
    ASSUME NEW f \in {NoFile} \cup File, NEW p \in {NoFile} \cup File,
           NEW s \in BOOLEAN, MetadataHonest(p, f),
           entries_same(PrevEntry(p, s), EntryOf(f))
    PROVE  ContentOf(f) = ContentOf(p)
  BY SizeAssumption, AbsentAssumption
     DEF File, Entry, MetadataHonest, entries_same,
         PrevEntry, EntryOf, ContentOf, Hashed

\* A side that _changed_since reports as changed while both entries carry a
\* hash really holds another content.
LEMMA HashedChangeIsReal ==
    ASSUME NEW f \in {NoFile} \cup File, NEW p \in {NoFile} \cup File,
           NEW s \in BOOLEAN,
           f = NoFile \/ Hashed(f.content),
           p = NoFile \/ Hashed(p.content),
           ~entries_same(PrevEntry(p, s), EntryOf(f))
    PROVE  ContentOf(f) # ContentOf(p)
  BY SizeAssumption, AbsentAssumption
     DEF File, Entry, entries_same, PrevEntry, EntryOf,
         ContentOf, Hashed

\* An entry is absent exactly when its file is, and carries the content as
\* its hash or no hash at all.
LEMMA EntryShape ==
    ASSUME NEW f \in {NoFile} \cup File, NEW s \in BOOLEAN
    PROVE  /\ EntryOf(f) = NoFile <=> f = NoFile
           /\ PrevEntry(f, s) = NoFile <=> f = NoFile
           /\ f # NoFile => /\ EntryOf(f).sha \in {f.content, NoHash}
                            /\ EntryOf(f).size = SizeOf[f.content]
                            /\ Hashed(f.content) => EntryOf(f).sha = f.content
                            /\ f.content \in Contents
  BY SizeAssumption, AbsentAssumption
     DEF File, Entry, PrevEntry, EntryOf, Hashed

\* compare_manifests never plans to write a side that holds content the
\* other side has not seen, and "none" means equal contents: for every
\* typed, well-formed case.
THEOREM PlanKeepsEditsAlways == CaseOK => PlanKeepsEdits
<1> SUFFICES ASSUME CaseOK PROVE PlanKeepsEdits
  OBVIOUS
<1> DEFINE le == EntryOf(lf)
           re == EntryOf(rf)
           pl == PrevEntry(bl, strong)
           pr == PrevEntry(br, strong)
<1>1. /\ le = NoFile <=> lf = NoFile
      /\ re = NoFile <=> rf = NoFile
      /\ pl = NoFile <=> bl = NoFile
      /\ pr = NoFile <=> br = NoFile
  BY EntryShape DEF CaseOK, CaseTyped
<1>2. /\ lf # NoFile => le.sha \in {lf.content, NoHash} /\ lf.content \in Contents
      /\ rf # NoFile => re.sha \in {rf.content, NoHash} /\ rf.content \in Contents
  BY EntryShape DEF CaseOK, CaseTyped
<1>3. entries_same(pl, le) => ContentOf(lf) = ContentOf(bl)
  BY UnchangedKeepsContent DEF CaseOK, CaseTyped, WellFormed
<1>4. entries_same(pr, re) => ContentOf(rf) = ContentOf(br)
  BY UnchangedKeepsContent DEF CaseOK, CaseTyped, WellFormed
<1>5. /\ ContentOf(bl) = ContentOf(br)
      /\ ~havePrev => bl = NoFile
      /\ bl = NoFile <=> br = NoFile
      /\ \A f \in {NoFile} \cup File : f # NoFile => ContentOf(f) # NoFile
  BY AbsentAssumption DEF CaseOK, CaseTyped, WellFormed, ContentOf, File
<1> QED
  BY <1>1, <1>2, <1>3, <1>4, <1>5
     DEF PlanKeepsEdits, PlannedAction, classify, heuristic_diff,
         changed_since, entries_content_same, ContentOf, Base,
         CaseOK, CaseTyped

\* Where every file is hashed, the plan is exactly the three-way merge of
\* the contents: for every typed, well-formed case.
THEOREM PlanIsMergeAlways == CaseOK => PlanIsMerge
<1> SUFFICES ASSUME CaseOK, AllHashed
             PROVE  PlannedAction
                      = Merge(ContentOf(lf), ContentOf(rf), Base)
  BY DEF PlanIsMerge
<1> DEFINE le == EntryOf(lf)
           re == EntryOf(rf)
           pl == PrevEntry(bl, strong)
           pr == PrevEntry(br, strong)
<1>1. /\ le = NoFile <=> lf = NoFile
      /\ re = NoFile <=> rf = NoFile
      /\ pl = NoFile <=> bl = NoFile
      /\ pr = NoFile <=> br = NoFile
  BY EntryShape DEF CaseOK, CaseTyped
<1>2. /\ lf # NoFile => /\ le.sha = lf.content /\ le.size = SizeOf[lf.content]
                        /\ lf.content \in Contents
      /\ rf # NoFile => /\ re.sha = rf.content /\ re.size = SizeOf[rf.content]
                        /\ rf.content \in Contents
  BY EntryShape DEF CaseOK, CaseTyped, AllHashed
<1>3. entries_same(pl, le) <=> ContentOf(lf) = ContentOf(bl)
  BY UnchangedKeepsContent, HashedChangeIsReal
     DEF CaseOK, CaseTyped, WellFormed, AllHashed
<1>4. entries_same(pr, re) <=> ContentOf(rf) = ContentOf(bl)
  BY UnchangedKeepsContent, HashedChangeIsReal
     DEF CaseOK, CaseTyped, WellFormed, AllHashed
<1>5. /\ ~havePrev => bl = NoFile
      /\ bl = NoFile <=> br = NoFile
      /\ \A f \in {NoFile} \cup File : f # NoFile => ContentOf(f) # NoFile
  BY AbsentAssumption DEF CaseOK, CaseTyped, WellFormed, ContentOf, File
<1> QED
  BY <1>1, <1>2, <1>3, <1>4, <1>5, AbsentAssumption
     DEF PlannedAction, classify, heuristic_diff, Merge,
         changed_since, entries_content_same, ContentOf, Base,
         CaseOK, CaseTyped
=============================================================================
