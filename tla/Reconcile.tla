------------------------------ MODULE Reconcile ------------------------------
(***************************************************************************)
(* One remrun run of a project on one target, at the level of files        *)
(* (reconcile.py, with the baseline of state.py and the phase order of     *)
(* cli._run_locked): preflight reconciliation, the command, and the        *)
(* pullback of its outputs, while other writers (the user, Syncthing, the  *)
(* command itself) change both trees between any two steps.                *)
(*                                                                         *)
(* A step is one manifest, one planning decision, or one of the accesses a *)
(* file transfer makes one after the other: the re-check of the local      *)
(* file, its backup, the read of the bytes, the read of the mtime with the *)
(* install, and the verification.  Another writer can act between any two. *)
(***************************************************************************)
EXTENDS TransferPlan, FiniteSets

CONSTANTS Paths,         \* project paths in the active run surface
          Pinned,        \* declared bootstrap inputs: controller-authoritative
          Twins,         \* sets of paths that fold to one name
          FoldLocal,     \* is the controller's filesystem case-insensitive?
          FoldRemote,    \* is the target's?
          Scope,         \* the declared write scope of a scoped run
          BackupBelow,   \* backup_below_bytes
          MaxEvents      \* bound on the external writers' events

ASSUME ReconcileAssumption ==
    /\ Pinned \subseteq Paths /\ Scope \subseteq Paths
    /\ FoldLocal \in BOOLEAN /\ FoldRemote \in BOOLEAN
    /\ BackupBelow \in Nat /\ MaxEvents \in Nat

VARIABLES local, remote,   \* the two trees: [Paths -> File \cup {NoFile}]
          rootUp,          \* does each project root exist?
          base,            \* baseline.json: have, and the pair of manifests
          pc,              \* the phase of the run, "idle" when none runs
          run,             \* what the run holds in memory
          backups, saved,  \* <<path, content>> copied under conflicts/<run>/
          outcome,         \* how the last run ended
          stamp,           \* events that took an mtime so far; the next mtime
          mixed            \* history: the mtimes of each path that remrun has put
                           \* beside the bytes or the hash of another version

trees == <<local, remote, rootUp>>
vars == <<local, remote, rootUp, base, pc, run, backups, saved, outcome, stamp, mixed>>

Files == File \cup {NoFile}
Empty == [p \in Paths |-> NoFile]
NoBase == [have |-> FALSE, l |-> Empty, r |-> Empty]

Manifest(tree) == [p \in Paths |-> EntryOf(tree[p])]

\* What a run holds before it has read anything.  mutated and snap
\* are history: has this run written a tree, and the local files its decisions
\* are based on.
FreshRun == [fallback |-> FALSE, scoped |-> FALSE,
             lman |-> Empty, rman |-> Empty, todo |-> [p \in Paths |-> "none"],
             touched |-> {}, fl |-> Empty, fr |-> Empty,
             flying |-> NoFile, clash |-> FALSE,
             mutated |-> FALSE, snap |-> Empty]

Init == /\ local = Empty /\ remote = Empty
        /\ rootUp = [local |-> TRUE, remote |-> TRUE]
        /\ base = NoBase
        /\ pc = "idle" /\ run = FreshRun
        /\ backups = {} /\ saved = {}
        /\ outcome = "none"
        /\ stamp = 0 /\ mixed = [p \in Paths |-> {}]

-----------------------------------------------------------------------------
(* The other writers.  Every write carries a fresh mtime; Syncthing copies  *)
(* a file with the mtime of its source.  A write brings a missing root back. *)

Tick == stamp < MaxEvents /\ stamp' = stamp + 1
Idle(side) == UNCHANGED <<base, pc, run, backups, saved, outcome, mixed>>
              /\ rootUp' = [rootUp EXCEPT ![side] = TRUE]

\* A writer cannot hold two paths that fold to one name on a folding side.
NoTwin(tree, p, folds) ==
    folds => \A t \in Twins : p \in t => \A q \in t \ {p} : tree[q] = NoFile

LocalWrite(p, c) ==
    /\ Tick /\ NoTwin(local, p, FoldLocal)
    /\ local' = [local EXCEPT ![p] = [content |-> c, mtime |-> stamp]]
    /\ Idle("local") /\ UNCHANGED remote

LocalDelete(p) ==
    /\ Tick /\ local[p] # NoFile
    /\ local' = [local EXCEPT ![p] = NoFile]
    /\ Idle("local") /\ UNCHANGED remote

RemoteWrite(p, c) ==
    /\ Tick /\ NoTwin(remote, p, FoldRemote)
    /\ remote' = [remote EXCEPT ![p] = [content |-> c, mtime |-> stamp]]
    /\ Idle("remote") /\ UNCHANGED local

RemoteDelete(p) ==
    /\ Tick /\ remote[p] # NoFile
    /\ remote' = [remote EXCEPT ![p] = NoFile]
    /\ Idle("remote") /\ UNCHANGED local

Deliver(p) ==
    /\ Tick
    /\ \/ /\ remote[p] # NoFile /\ NoTwin(local, p, FoldLocal)
          /\ local' = [local EXCEPT ![p] = remote[p]]
          /\ Idle("local") /\ UNCHANGED remote
       \/ /\ local[p] # NoFile /\ NoTwin(remote, p, FoldRemote)
          /\ remote' = [remote EXCEPT ![p] = local[p]]
          /\ Idle("remote") /\ UNCHANGED local

\* A project root disappears (unmounted, moved, wrong directory).
Vanish(side) ==
    /\ Tick /\ rootUp[side]
    /\ rootUp' = [rootUp EXCEPT ![side] = FALSE]
    /\ IF side = "local" THEN local' = Empty /\ UNCHANGED remote
                         ELSE remote' = Empty /\ UNCHANGED local
    /\ UNCHANGED <<base, pc, run, backups, saved, outcome, mixed>>

External == \/ \E p \in Paths : \/ LocalDelete(p) \/ RemoteDelete(p) \/ Deliver(p)
                                \/ \E c \in Contents : LocalWrite(p, c) \/ RemoteWrite(p, c)
            \/ \E side \in {"local", "remote"} : Vanish(side)

-----------------------------------------------------------------------------
(* Ends of a run.                                                           *)

EndRun(result) == /\ pc' = "idle" /\ run' = FreshRun /\ outcome' = result

\* Conflict states a candidate may be abandoned for (every other is global).
CandidateLocal == {"both-present-differ", "both-present-unverified",
                   "both-changed", "unknown-deletion", "casefold-collision",
                   "fallback-local-mutation", "remote-vanished",
                   "bootstrap-input-diverged"}

\* A preflight conflict ends the attempt; all states decide retryability.
conflicts_are_candidate_local(states) == states \subseteq CandidateLocal

PreflightConflict(states) ==
    /\ EndRun(IF conflicts_are_candidate_local(states)
              THEN "conflict-retryable" ELSE "conflict-global")
    /\ UNCHANGED <<local, remote, rootUp, base, backups, saved, stamp, mixed>>

\* A transport error, an unreadable file, Ctrl-C or a crash: the trees keep
\* what was already transferred, the baseline keeps its generation.
Abort == /\ pc # "idle"
         /\ EndRun("error")
         /\ UNCHANGED <<local, remote, rootUp, base, backups, saved, stamp, mixed>>

-----------------------------------------------------------------------------
(* Preflight reconciliation.                                                *)

StartRun(fallback, scoped) ==
    /\ pc = "idle"
    /\ pc' = "manifest-local"
    /\ run' = [FreshRun EXCEPT !.fallback = fallback, !.scoped = scoped]
    /\ outcome' = "none"
    /\ backups' = {} /\ saved' = {}        \* each run has its own directory
    /\ UNCHANGED <<local, remote, rootUp, base, stamp, mixed>>

ManifestLocal ==
    /\ pc = "manifest-local"
    /\ pc' = "manifest-remote"
    /\ run' = [run EXCEPT !.lman = Manifest(local), !.snap = local]
    /\ UNCHANGED <<local, remote, rootUp, base, backups, saved, outcome, stamp, mixed>>

ManifestRemote ==
    /\ pc = "manifest-remote"
    /\ pc' = "plan"
    /\ run' = [run EXCEPT !.rman = Manifest(remote)]
    /\ UNCHANGED <<local, remote, rootUp, base, backups, saved, outcome, stamp, mixed>>

\* The vanished-root guard: an empty listing with a non-empty baseline and
\* no root is refused, remote side first.
Vanished == IF ~base.have THEN {}
            ELSE IF base.r # Empty /\ run.rman = Empty /\ ~rootUp.remote
                 THEN {"remote-vanished"}
                 ELSE IF base.l # Empty /\ run.lman = Empty /\ ~rootUp.local
                      THEN {"local-vanished"} ELSE {}

Planned(p) == classify(run.lman[p], run.rman[p], base.have, base.l[p], base.r[p])

\* A disputed path that hashing proves identical now.
ProvedIdentical(p) ==
    /\ Planned(p)[1] \in {"both-changed", "both-present-unverified"}
    /\ run.lman[p].size = run.rman[p].size
    /\ run.lman[p].sha # NoHash \/ local[p] # NoFile
    /\ run.rman[p].sha # NoHash \/ remote[p] # NoFile
    /\ LET lh == IF run.lman[p].sha # NoHash THEN run.lman[p].sha ELSE local[p].content
           rh == IF run.rman[p].sha # NoHash THEN run.rman[p].sha ELSE remote[p].content
       IN lh = rh

Disputed == {p \in Paths : Planned(p)[2] = "abort-conflict"}

\* Variant: declared bootstrap inputs are reconciled like any other file.
PinnedActionPlain(p) == IF p \in Disputed THEN "none" ELSE Planned(p)[2]

\* The action kept for p: nothing for a path proved identical, and declared
\* bootstrap inputs only ever travel towards the target.
PinnedAction(p) ==
    LET act == Planned(p)[2] IN
    CASE p \in Disputed -> "none"
      [] p \in Pinned \ Disputed /\ run.lman[p] # NoFile /\ run.rman[p] = NoFile -> "push"
      [] p \in Pinned \ Disputed /\ (run.lman[p] = NoFile \/ run.rman[p] # NoFile)
           /\ act \in {"pull", "delete-local", "delete-remote"} -> "diverged"
      [] OTHER -> act

Acting(as) == {p \in Paths : PinnedAction(p) \in as}

\* Variant: a fallback attempt may still mirror a deletion locally.
FallbackMutationsPull == run.fallback /\ Acting({"pull"}) # {}

\* A fallback attempt may send local bytes outward, never change them.
FallbackMutations == run.fallback /\ Acting({"pull", "delete-local"}) # {}

\* casefold_collisions over a listing and the names about to be added to it.
Collision(present, incoming) ==
    \E t \in Twins : Cardinality(t \cap (present \cup incoming)) > 1

Present(man) == {p \in Paths : man[p] # NoFile}

Collapses == \/ FoldLocal /\ Collision(Present(run.lman), Acting({"pull"}))
             \/ FoldRemote /\ Collision(Present(run.rman), Acting({"push"}))

\* Every conflict of one kind ends the attempt before the next is looked at.
PlanConflicts ==
    LET unproved == {p \in Disputed : ~ProvedIdentical(p)} IN
    IF Vanished # {} THEN Vanished
    ELSE IF unproved # {} THEN {Planned(p)[1] : p \in unproved}
    ELSE IF Acting({"diverged"}) # {} THEN {"bootstrap-input-diverged"}
    ELSE IF FallbackMutations THEN {"fallback-local-mutation"}
    ELSE IF Collapses THEN {"casefold-collision"} ELSE {}

\* Planning ends in a conflict, which mutates nothing...
PlanRefused ==
    /\ pc = "plan" /\ PlanConflicts # {}
    /\ PreflightConflict(PlanConflicts)

\* A failed probe counts as a missing root, a failed hash as a difference.
PlanUnproved ==
    /\ pc = "plan"
    /\ \/ /\ base.have /\ base.r # Empty /\ run.rman = Empty
          /\ PreflightConflict({"remote-vanished"})
       \/ /\ Vanished = {}
          /\ \E p \in Disputed :
               /\ Planned(p)[1] \in {"both-changed", "both-present-unverified"}
               /\ run.lman[p].sha = NoHash \/ run.rman[p].sha = NoHash
          /\ PreflightConflict({Planned(p)[1] : p \in Disputed})

\* ...or in a list of transfers, after ensure_remote_dir.
PlanAccepted ==
    /\ pc = "plan" /\ PlanConflicts = {}
    /\ pc' = "apply"
    /\ run' = [run EXCEPT
                 !.todo = [p \in Paths |-> PinnedAction(p)], !.touched = Disputed]
    /\ rootUp' = [rootUp EXCEPT !.remote = TRUE]
    /\ UNCHANGED <<local, remote, base, backups, saved, outcome, stamp, mixed>>

\* Is the local file, read now, byte-identical to the listed remote entry?
already_converged(p) ==
    /\ run.rman[p] # NoFile /\ run.rman[p].sha # NoHash
    /\ local[p] # NoFile
    /\ local[p].content = run.rman[p].sha

\* Variant: the cap is exclusive.
BackupUnder(p) == IF local[p] # NoFile /\ SizeOf[local[p].content] < BackupBelow
                  THEN backups \cup {<<p, local[p].content>>} ELSE backups

\* _backup_local: the file as it is now, unless it is over the cap.
Backup(p) == IF local[p] # NoFile /\ SizeOf[local[p].content] <= BackupBelow
             THEN backups \cup {<<p, local[p].content>>} ELSE backups

Done(p) == [run EXCEPT !.todo[p] = "none", !.touched = @ \cup {p}, !.flying = NoFile]
Wrote(p) == [Done(p) EXCEPT !.mutated = TRUE]
Removed(p) == [run EXCEPT !.todo[p] = "none", !.flying = NoFile, !.mutated = TRUE]

SkipIdentical(p) ==
    /\ pc = "apply" /\ run.todo[p] \in {"pull", "push"}
    /\ already_converged(p)
    /\ run' = Done(p)
    /\ UNCHANGED <<local, remote, rootUp, base, pc, backups, saved, outcome, stamp, mixed>>

\* What a transfer holds: the version its first read found, for an output the
\* strong hash to verify, and as history the local file that was compared
\* (seen), the one that was backed up (over), and whether the hash is of
\* another version than the listed one (apart).
Flight(p, kind, want, apart) ==
    [kind |-> kind, path |-> p, want |-> want, apart |-> apart,
     first |-> NoFile, seen |-> NoFile, over |-> NoFile]

\* A transfer of p is decided on; what it reads is read in later steps.
TakesOff(p, kind) ==
    /\ run' = [run EXCEPT !.flying = Flight(p, kind, NoHash, FALSE)]
    /\ pc' = "pre-copy"
    /\ UNCHANGED <<local, remote, rootUp, base, backups, saved, outcome, stamp, mixed>>

ApplyPull(p) == /\ pc = "apply" /\ run.todo[p] = "pull" /\ ~already_converged(p)
                /\ TakesOff(p, "pull")

ApplyPush(p) == /\ pc = "apply" /\ run.todo[p] = "push" /\ ~already_converged(p)
                /\ TakesOff(p, "push")

ApplyDeleteLocal(p) == /\ pc = "apply" /\ run.todo[p] = "delete-local"
                       /\ TakesOff(p, "unlink")

ApplyDeleteRemote(p) ==
    /\ pc = "apply" /\ run.todo[p] = "delete-remote"
    /\ remote' = [remote EXCEPT ![p] = NoFile]
    /\ run' = Removed(p)
    /\ UNCHANGED <<local, rootUp, base, pc, backups, saved, outcome, stamp, mixed>>

\* The file a transfer copies from, and what is copied aside before it.
Source(kind, p) == CASE kind = "push" -> local[p]
                     [] kind \in {"pull", "output"} -> remote[p]
                     [] OTHER -> NoFile

\* The local file is backed up and the source is read for the first time (a
\* source that is gone raises, as Abort).
BackUpAndRead ==
    /\ pc \in {"pre-copy", "post-copy"}
    /\ LET p == run.flying.path  kind == run.flying.kind IN
       /\ kind \in {"pull", "push", "output"} => Source(kind, p) # NoFile
       /\ backups' = IF kind = "push" THEN backups ELSE Backup(p)
       /\ run' = [run EXCEPT !.flying.first = Source(kind, p),
                             !.flying.over = IF kind = "push" THEN NoFile ELSE local[p]]
    /\ pc' = IF pc = "pre-copy" THEN "pre-install" ELSE "post-install"
    /\ UNCHANGED <<local, remote, rootUp, base, saved, outcome, stamp, mixed>>

\* What a copy of src installs: bytes and mtime are read one after the other,
\* the bytes first (POSIX pull_file, local copies, Windows push_file) or the
\* mtime first (POSIX push_file, Windows pull_file).  A pull of a file that is
\* gone at the second read is installed with the time of its installation.
Landing(src) ==
    LET first == run.flying.first IN
    IF src # NoFile THEN {[content |-> first.content, mtime |-> src.mtime],
                          [content |-> src.content, mtime |-> first.mtime]}
    ELSE IF run.flying.kind = "push" THEN {}
    ELSE {[content |-> first.content, mtime |-> stamp]}

Lands(p, src, f) ==
    /\ mixed' = IF src \in {f, NoFile} THEN mixed
                ELSE [mixed EXCEPT ![p] = @ \cup {f.mtime}]
    /\ IF src = NoFile THEN Tick ELSE UNCHANGED stamp

InstallPull ==
    /\ pc = "pre-install" /\ run.flying.kind = "pull"
    /\ LET p == run.flying.path IN
       /\ \E f \in Landing(remote[p]) :
            local' = [local EXCEPT ![p] = f] /\ Lands(p, remote[p], f)
       /\ run' = Wrote(p)
    /\ rootUp' = [rootUp EXCEPT !.local = TRUE]
    /\ pc' = "apply"
    /\ UNCHANGED <<remote, base, backups, saved, outcome>>

CommitPush ==
    /\ pc = "pre-install" /\ run.flying.kind = "push"
    /\ LET p == run.flying.path IN
       /\ \E f \in Landing(local[p]) :
            remote' = [remote EXCEPT ![p] = f] /\ Lands(p, local[p], f)
       /\ run' = Wrote(p)
    /\ rootUp' = [rootUp EXCEPT !.remote = TRUE]
    /\ pc' = "apply"
    /\ UNCHANGED <<local, base, backups, saved, outcome>>

Unlink ==
    /\ pc = "pre-install" /\ run.flying.kind = "unlink"
    /\ local' = [local EXCEPT ![run.flying.path] = NoFile]
    /\ run' = Removed(run.flying.path)
    /\ pc' = "apply"
    /\ UNCHANGED <<remote, rootUp, base, backups, saved, outcome, stamp, mixed>>

FinalLocal ==
    /\ pc = "apply" /\ \A p \in Paths : run.todo[p] = "none"
    /\ pc' = "final-remote"
    /\ run' = [run EXCEPT !.fl = Manifest(local), !.snap = local]
    /\ UNCHANGED <<local, remote, rootUp, base, backups, saved, outcome, stamp, mixed>>

FinalRemote ==
    /\ pc = "final-remote"
    /\ pc' = "verify"
    /\ run' = [run EXCEPT !.fr = Manifest(remote)]
    /\ UNCHANGED <<local, remote, rootUp, base, backups, saved, outcome, stamp, mixed>>

\* The final pair of one path: equal hashes, an untouched generation the
\* baseline already holds, or two hashes taken now.
HashedPair(p) == entries_content_same(run.fl[p], run.fr[p])
BothHashed(p) == run.fl[p].sha # NoHash /\ run.fr[p].sha # NoHash

RetainedPair(p) ==
    /\ p \notin run.touched /\ base.have
    /\ base.l[p] # NoFile /\ base.r[p] # NoFile
    /\ entries_same(base.l[p], run.lman[p]) /\ entries_same(base.r[p], run.rman[p])
    /\ entries_same(run.lman[p], run.fl[p]) /\ entries_same(run.rman[p], run.fr[p])

\* Variant: equal sizes stand for equal contents.
FreshPairBySize(p) == local[p] # NoFile /\ SizeOf[local[p].content] = run.fr[p].size

FreshPair(p) ==
    /\ local[p] # NoFile
    /\ SizeOf[local[p].content] = run.fr[p].size
    /\ run.fr[p].sha # NoHash \/ remote[p] # NoFile
    /\ local[p].content = IF run.fr[p].sha # NoHash THEN run.fr[p].sha
                                                    ELSE remote[p].content

Verified(p) ==
    \/ run.fl[p] = NoFile /\ run.fr[p] = NoFile
    \/ /\ run.fl[p] # NoFile /\ run.fr[p] # NoFile
       /\ \/ HashedPair(p)
          \/ ~BothHashed(p) /\ RetainedPair(p)
          \/ FreshPair(p)

ByHashNow(p) == /\ run.fl[p] # NoFile /\ run.fr[p] # NoFile /\ ~HashedPair(p)
                /\ (BothHashed(p) \/ ~RetainedPair(p))

StrongEntry(f, mtime) == [size |-> SizeOf[f.content], mtime |-> mtime, sha |-> f.content]

\* The pair recorded for a path, strengthened where it was hashed now.
RecordedLocal(p) == IF ByHashNow(p) THEN StrongEntry(local[p], local[p].mtime)
                    ELSE run.fl[p]
RecordedRemote(p) == IF ByHashNow(p)
                     THEN [size |-> run.fr[p].size, mtime |-> run.fr[p].mtime,
                           sha |-> local[p].content]
                     ELSE run.fr[p]

RootLost == ~rootUp.local \/ (run.rman # Empty /\ run.fr = Empty /\ ~rootUp.remote)

VerifyRefused ==
    /\ pc = "verify"
    /\ \/ RootLost
       \/ \E p \in Paths : ~Verified(p)
       \/ \E p \in Paths : ByHashNow(p) /\ run.fr[p].sha = NoHash   \* hash_file failed
    /\ PreflightConflict({"preflight-changed"})

\* A verified pair becomes the baseline, and the command is dispatched.
VerifyAccepted ==
    /\ pc = "verify" /\ ~RootLost /\ \A p \in Paths : Verified(p)
    /\ LET l == [p \in Paths |-> RecordedLocal(p)]
           r == [p \in Paths |-> RecordedRemote(p)]
       IN /\ base' = [have |-> TRUE, l |-> l, r |-> r]
          /\ run' = [run EXCEPT !.lman = l, !.rman = r, !.fl = Empty, !.fr = Empty,
                                !.touched = {},
                                !.snap = [p \in Paths |-> IF ByHashNow(p) THEN local[p]
                                                          ELSE run.snap[p]]]
    /\ pc' = "exec"
    /\ UNCHANGED <<local, remote, rootUp, backups, saved, outcome, stamp, mixed>>

-----------------------------------------------------------------------------
(* The command runs (its writes are RemoteWrite and RemoteDelete), then its *)
(* changes are pulled back.  A lost transport is Abort.                     *)

CommandEnds ==
    /\ pc = "exec"
    /\ \/ pc' = "post-remote" /\ UNCHANGED <<run, outcome>>
       \/ EndRun("no-pullback")
    /\ UNCHANGED <<local, remote, rootUp, base, backups, saved, stamp, mixed>>

\* An incoming name that folds onto a local one, or onto another output.
LocalCollides(p, present, changed) ==
    FoldLocal /\ \E t \in Twins : p \in t /\ Cardinality(t \cap (present \cup changed)) > 1

\* The command's changes: post manifest against pre-run manifest.  A scoped
\* run that wrote outside its scope stops here; its outputs are saved aside.
PostRemote ==
    /\ pc = "post-remote"
    /\ LET post == Manifest(remote)
           cur == Manifest(local)
           effect == [p \in Paths |-> diff_remote_change(run.rman[p], post[p])]
           changed == {p \in Paths : effect[p] = "changed"}
           escaped == {p \in Paths \ Scope : effect[p] # "untouched"}
       IN IF run.scoped /\ escaped # {}
          THEN /\ saved' = saved \cup {<<p, remote[p].content>> :
                                         p \in {q \in escaped : remote[q] # NoFile}}
               /\ EndRun("post-conflict")
          ELSE /\ run' = [run EXCEPT
                            !.todo = [p \in Paths |->
                                        IF /\ p \in changed
                                           /\ LocalCollides(p, Present(cur), changed)
                                        THEN "collides" ELSE effect[p]],
                            !.fr = post, !.fl = cur]
               /\ pc' = "pullback"
               /\ UNCHANGED <<saved, outcome>>
    /\ UNCHANGED <<local, remote, rootUp, base, backups, stamp, mixed>>

Untodo(p) == [run EXCEPT !.todo[p] = "untouched", !.flying = NoFile]
Clash(p) == [Untodo(p) EXCEPT !.clash = TRUE]

\* The advance of a path's baseline entries, held in lman/rman.
Advance(p, l, r) == [Untodo(p) EXCEPT !.lman[p] = l, !.rman[p] = r,
                                     !.touched = @ \cup {p}]

\* The hash of one version is recorded beside the listed mtime of another.
Paired(p) == mixed' = IF run.flying.apart THEN [mixed EXCEPT ![p] = @ \cup {run.fr[p].mtime}]
                      ELSE mixed

\* The strong hash of an output: listed, or taken now (fails if it is gone).
OutputHash(p) == IF run.fr[p].sha # NoHash THEN run.fr[p].sha
                 ELSE IF remote[p] # NoFile THEN remote[p].content ELSE NoHash

\* The local file as _fresh_local_entry sees it: hashed only at equal size.
FreshLocal(p, size) ==
    IF local[p] = NoFile THEN NoFile
    ELSE [size |-> SizeOf[local[p].content], mtime |-> local[p].mtime,
          sha |-> IF SizeOf[local[p].content] = size THEN local[p].content ELSE NoHash]

Output(p) == [run.fr[p] EXCEPT !.sha = run.flying.want]

\* Variant: the listing taken when pullback began, not the file as it is now.
LocalNowListed(p) == run.fl[p]

LocalNow(p) == FreshLocal(p, run.fr[p].size)

\* The local file, read now, is the output.
IsOutput(p) == LocalNow(p) # NoFile /\ entries_same(LocalNow(p), Output(p))

\* Such a name is flagged, not collapsed.
PullbackCollision(p) ==
    /\ pc = "pullback" /\ run.todo[p] = "collides"
    /\ run' = Clash(p)
    /\ UNCHANGED <<local, remote, rootUp, base, pc, backups, saved, outcome, stamp, mixed>>

\* An output that cannot be hashed is kept aside, not compared by metadata.
PullbackUnhashed(p) ==
    /\ pc = "pullback" /\ run.todo[p] = "changed" /\ run.fr[p].sha = NoHash
    /\ remote[p] # NoFile
    /\ saved' = saved \cup {<<p, remote[p].content>>}
    /\ run' = Clash(p)
    /\ UNCHANGED <<local, remote, rootUp, base, pc, backups, outcome, stamp, mixed>>

\* The output's strong hash is known before the local file is looked at.
HashOutput(p) ==
    /\ pc = "pullback" /\ run.todo[p] = "changed" /\ OutputHash(p) # NoHash
    /\ run' = [run EXCEPT !.flying =
                 Flight(p, "output", OutputHash(p),
                        run.fr[p].sha = NoHash /\ remote[p].mtime # run.fr[p].mtime)]
    /\ pc' = "post-check"
    /\ UNCHANGED <<local, remote, rootUp, base, backups, saved, outcome, stamp, mixed>>

\* Syncthing already delivered these bytes.
PullbackSkip ==
    /\ pc = "post-check"
    /\ LET p == run.flying.path IN
       /\ IsOutput(p)
       /\ run' = Advance(p, LocalNow(p), run.fr[p])
       /\ Paired(p)
    /\ pc' = "pullback"
    /\ UNCHANGED <<local, remote, rootUp, base, backups, saved, outcome, stamp>>

\* The local path changed during the run: both versions are kept.
PullbackConflict ==
    /\ pc = "post-check"
    /\ LET p == run.flying.path IN
       /\ ~IsOutput(p) /\ changed_since(run.lman[p], LocalNow(p))
       /\ remote[p] # NoFile
       /\ saved' = saved \cup {<<p, remote[p].content>>}
       /\ run' = Clash(p)
    /\ pc' = "pullback"
    /\ UNCHANGED <<local, remote, rootUp, base, backups, outcome, stamp, mixed>>

\* The local file is the pre-run one: the output is to replace it.
PullbackPull ==
    /\ pc = "post-check"
    /\ LET p == run.flying.path IN
       /\ ~IsOutput(p) /\ ~changed_since(run.lman[p], LocalNow(p))
       /\ run' = [run EXCEPT !.flying.seen = local[p]]
    /\ pc' = "post-copy"
    /\ UNCHANGED <<local, remote, rootUp, base, backups, saved, outcome, stamp, mixed>>

InstallOutput ==
    /\ pc = "post-install" /\ run.flying.kind = "output"
    /\ LET p == run.flying.path IN
       \E f \in Landing(remote[p]) :
         local' = [local EXCEPT ![p] = f] /\ Lands(p, remote[p], f)
    /\ run' = [run EXCEPT !.mutated = TRUE]
    /\ rootUp' = [rootUp EXCEPT !.local = TRUE]
    /\ pc' = "post-verify"
    /\ UNCHANGED <<remote, base, backups, saved, outcome>>

\* Verification follows the install; a mismatch ends the run.
VerifyOutput ==
    /\ pc = "post-verify"
    /\ LET p == run.flying.path IN
       IF IsOutput(p)
       THEN /\ run' = Advance(p, LocalNow(p), run.fr[p])
            /\ pc' = "pullback" /\ Paired(p) /\ UNCHANGED outcome
       ELSE EndRun("error") /\ UNCHANGED mixed
    /\ UNCHANGED <<local, remote, rootUp, base, backups, saved, stamp>>

\* A command deletion is mirrored locally only when the local file is the
\* pre-run one.
PullbackDelete(p) ==
    /\ pc = "pullback" /\ run.todo[p] = "deleted"
    /\ \A q \in Paths : run.todo[q] \notin {"changed", "collides"}
    /\ LET now == FreshLocal(p, IF run.lman[p] # NoFile THEN run.lman[p].size
                                ELSE HashBelow + 1)
       IN \/ /\ now = NoFile
             /\ run' = Advance(p, NoFile, NoFile) /\ UNCHANGED pc
          \/ /\ now # NoFile /\ changed_since(run.lman[p], now)
             /\ run' = Clash(p) /\ UNCHANGED pc
          \/ /\ now # NoFile /\ ~changed_since(run.lman[p], now)
             /\ run' = [run EXCEPT !.flying = [Flight(p, "mirror", NoHash, FALSE)
                                                 EXCEPT !.seen = local[p]]]
             /\ pc' = "post-copy"
    /\ UNCHANGED <<local, remote, rootUp, base, backups, saved, outcome, stamp, mixed>>

\* (A file that is back at once raises "delete verification failed": Abort.)
MirrorDeletion ==
    /\ pc = "post-install" /\ run.flying.kind = "mirror"
    /\ local' = [local EXCEPT ![run.flying.path] = NoFile]
    /\ run' = [Advance(run.flying.path, NoFile, NoFile) EXCEPT !.mutated = TRUE]
    /\ pc' = "pullback"
    /\ UNCHANGED <<remote, rootUp, base, backups, saved, outcome, stamp, mixed>>

\* Without a conflict the attributed pair becomes the next baseline.
FinishRun ==
    /\ pc = "pullback" /\ \A p \in Paths : run.todo[p] = "untouched"
    /\ IF run.clash THEN /\ EndRun("post-conflict") /\ UNCHANGED base
       ELSE /\ EndRun("ok")
            /\ base' = [have |-> TRUE, l |-> run.lman, r |-> run.rman]
    /\ UNCHANGED <<local, remote, rootUp, backups, saved, stamp, mixed>>

-----------------------------------------------------------------------------
Preflight == \/ \E fallback, scoped \in BOOLEAN : StartRun(fallback, scoped)
             \/ ManifestLocal \/ ManifestRemote \/ PlanRefused
             \/ PlanUnproved \/ PlanAccepted
             \/ \E p \in Paths : \/ SkipIdentical(p) \/ ApplyPull(p) \/ ApplyPush(p)
                                 \/ ApplyDeleteRemote(p) \/ ApplyDeleteLocal(p)
             \/ InstallPull \/ CommitPush \/ Unlink
             \/ FinalLocal \/ FinalRemote \/ VerifyRefused \/ VerifyAccepted

Pullback == \/ CommandEnds \/ PostRemote
            \/ \E p \in Paths : \/ PullbackCollision(p) \/ PullbackUnhashed(p)
                                \/ HashOutput(p) \/ PullbackDelete(p)
            \/ PullbackSkip \/ PullbackConflict \/ PullbackPull
            \/ InstallOutput \/ VerifyOutput \/ MirrorDeletion \/ FinishRun

Next == External \/ Preflight \/ BackUpAndRead \/ Pullback \/ Abort

Spec == Init /\ [][Next]_vars

-----------------------------------------------------------------------------
EntryOrNone == Entry \cup {NoFile}
Reconciling == {"apply", "pre-copy", "pre-install"}
PullingBack == {"pullback", "post-check", "post-copy", "post-install", "post-verify"}
Phases == {"idle", "manifest-local", "manifest-remote", "plan", "final-remote",
           "verify", "exec", "post-remote"} \cup Reconciling \cup PullingBack

\* Types of the trees, the baseline, the phase and the run's own manifests.
TypeOK ==
    /\ local \in [Paths -> Files] /\ remote \in [Paths -> Files]
    /\ rootUp \in [{"local", "remote"} -> BOOLEAN]
    /\ base.have \in BOOLEAN
    /\ base.l \in [Paths -> EntryOrNone] /\ base.r \in [Paths -> EntryOrNone]
    /\ pc \in Phases
    /\ run.lman \in [Paths -> EntryOrNone] /\ run.rman \in [Paths -> EntryOrNone]
    /\ run.fl \in [Paths -> EntryOrNone] /\ run.fr \in [Paths -> EntryOrNone]
    /\ \A p \in Paths : run.todo[p] \in Actions \cup {"changed", "collides", "deleted", "untouched"}
    /\ stamp \in 0..MaxEvents

\* The entry's mtime may be that of another version (see mixed).
Mixed(p, e) == e # NoFile /\ e.mtime \in mixed[p]
MixedLarge(p, e) == Mixed(p, e) /\ e.size > HashBelow

\* Two sides that both match the recorded baseline hold the same content:
\* the planner's "unchanged on both sides, nothing to do" (compare_manifests)
\* is sound for large files too, although their entries are often compared by
\* mtime alone and were recorded while others were writing.  The one exception
\* is a large file with an mtime that a transfer or a record of remrun took
\* from another version, because a writer came between its two reads.
NoFalseSame ==
    base.have => \A p \in Paths :
        entries_same(base.l[p], EntryOf(local[p]))
          /\ entries_same(base.r[p], EntryOf(remote[p]))
        => \/ ContentOf(local[p]) = ContentOf(remote[p])
           \/ MixedLarge(p, base.l[p]) \/ MixedLarge(p, base.r[p])

\* A step of remrun itself (no step of another writer moves the run).
Ours == pc' # pc \/ run' # run

\* remrun replaces or removes the local content of p.
Loses(p) == local[p] # NoFile /\ ContentOf(local'[p]) # ContentOf(local[p])

\* TRANSFER_MODEL "do not overwrite local" after the run: pullback replaces
\* or deletes a local file only while it holds the content that was verified
\* against the remote before the command started.  What it can overwrite is an
\* edit made after its own last look at the file (local_now), and one that is
\* hidden by an mtime of another version.
PostrunKeepsLocalEdits ==
    [][\A p \in Paths :
          Ours /\ pc \in PullingBack /\ Loses(p)
          => \/ ContentOf(local[p]) = ContentOf(run.snap[p])
             \/ local[p] # run.flying.seen
             \/ Mixed(p, run.lman[p])]_vars

\* (does not hold, see README: Disagreements)
\* The same before the run: reconciliation replaces or deletes a local file
\* only while it holds the content the plan was made from.
PreflightKeepsLocalEdits ==
    [][\A p \in Paths :
          Ours /\ pc \in Reconciling /\ Loses(p)
          => ContentOf(local[p]) = ContentOf(run.snap[p])]_vars

\* Whatever local content a run replaces or deletes, in preflight or in
\* pullback, is in its backup area, up to the size cap, unless it was written
\* after the backup of this very transfer was taken.
RecoverableLocal ==
    [][\A p \in Paths :
          Ours /\ Loses(p) /\ SizeOf[local[p].content] <= BackupBelow
          => <<p, local[p].content>> \in backups' \/ local[p] # run.flying.over]_vars

\* (do not hold, see README: Disagreements)
\* The two without their exceptions.
PostrunKeepsEveryEdit ==
    [][\A p \in Paths :
          Ours /\ pc \in PullingBack /\ Loses(p)
          => ContentOf(local[p]) = ContentOf(run.snap[p])]_vars
EverythingIsBackedUp ==
    [][\A p \in Paths :
          Ours /\ Loses(p) /\ SizeOf[local[p].content] <= BackupBelow
          => <<p, local[p].content>> \in backups']_vars

\* Candidate shopping leaves no trace on the controller: up to the dispatch
\* of its command a fallback attempt leaves every local file alone, no
\* attempt ever lets the target change a declared bootstrap input, and an
\* attempt that cmd_run may abandon for the next candidate has written
\* nothing on either side.
ShoppingKeepsController ==
    [][/\ \A p \in Paths :
             Ours /\ pc \in Reconciling /\ (run.fallback \/ p \in Pinned)
             => local'[p] = local[p]
       /\ outcome' = "conflict-retryable" /\ outcome # "conflict-retryable"
             => ~run.mutated]_vars

\* The command is only dispatched, and the baseline only recorded, when every
\* path held the same content on both sides after the last transfer; a path
\* may differ only if someone wrote it after it was listed for verification,
\* or if it is large and listed with an mtime of another version.
DispatchOnConverged ==
    [][pc = "verify" /\ pc' = "exec"
       => \A p \in Paths :
            \/ ContentOf(local[p]) = ContentOf(remote[p])
            \/ EntryOf(local[p]) # run.fl[p] \/ MixedLarge(p, run.fl[p])
            \/ EntryOf(remote[p]) # run.fr[p] \/ MixedLarge(p, run.fr[p])]_vars

=============================================================================
