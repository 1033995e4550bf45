---------------------------- MODULE TransferPlan ----------------------------
(***************************************************************************)
(* The reconciliation planner of remrun (transfer_plan.py): how two        *)
(* manifests, and the pair of manifests recorded by the previous run, are  *)
(* classified into one action per path.  Everything here is a pure         *)
(* operator; Reconcile runs these operators between external writers.      *)
(*                                                                         *)
(* A file is a content and an mtime stamp.  A manifest entry is what       *)
(* build_manifest records of a file: its size, its mtime, and its SHA-256  *)
(* when the size is at or below the hashing threshold.                     *)
(***************************************************************************)
EXTENDS Naturals

CONSTANTS Contents,    \* the distinguishable file contents
          SizeOf,      \* [Contents -> Nat]: size in bytes
          HashBelow,   \* hash_below_bytes: files up to this size are hashed
          NoFile,      \* a path that is absent from a tree
          NoHash       \* an entry whose sha256 is None

ASSUME SizeAssumption == SizeOf \in [Contents -> Nat] /\ HashBelow \in Nat
ASSUME AbsentAssumption ==
    /\ NoHash \notin Contents
    /\ NoFile \notin Contents
    /\ NoFile \notin [content : Contents, mtime : Nat]
    /\ NoFile \notin [size : Nat, mtime : Nat, sha : Contents \cup {NoHash}]

File  == [content : Contents, mtime : Nat]
Entry == [size : Nat, mtime : Nat, sha : Contents \cup {NoHash}]

Hashed(c) == SizeOf[c] <= HashBelow

\* The entry build_manifest records for a file (NoFile stays NoFile).
EntryOf(f) ==
    IF f = NoFile THEN NoFile
    ELSE [size  |-> SizeOf[f.content],
          mtime |-> f.mtime,
          sha   |-> IF Hashed(f.content) THEN f.content ELSE NoHash]

\* Variant: hashes ignored, as if size and mtime identified a content.
entries_same_by_mtime(a, b) ==
    IF a = NoFile \/ b = NoFile THEN a = b
    ELSE a.size = b.size /\ a.mtime = b.mtime

\* Equality of two entries: hashes when both have one, else the mtime.
entries_same(a, b) ==
    IF a = NoFile \/ b = NoFile THEN a = b
    ELSE /\ a.size = b.size
         /\ IF a.sha # NoHash /\ b.sha # NoHash THEN a.sha = b.sha
                                                ELSE a.mtime = b.mtime

\* Cross-side equality, proved by two hashes and never by metadata.
entries_content_same(a, b) ==
    /\ a # NoFile /\ b # NoFile
    /\ a.size = b.size
    /\ a.sha # NoHash /\ b.sha # NoHash /\ a.sha = b.sha

changed_since(prev, cur) == ~entries_same(prev, cur)

Actions == {"none", "push", "pull", "delete-remote", "delete-local",
            "abort-conflict"}

\* Both present, no previous manifests: content decides, never a clock.
heuristic_diff(le, re) ==
    IF le.sha # NoHash /\ re.sha # NoHash
    THEN IF le.sha = re.sha THEN <<"same", "none">>
                            ELSE <<"both-present-differ", "abort-conflict">>
    ELSE <<"both-present-unverified", "abort-conflict">>

\* Variant: a path missing on one side mirrors as a deletion whenever the
\* baseline knew it, without asking whether the surviving copy changed.
classify_blind_delete(le, re, havePrev, pl, pr) ==
    CASE le # NoFile /\ re # NoFile /\ ~havePrev -> heuristic_diff(le, re)
      [] le # NoFile /\ re = NoFile /\ havePrev /\ pr # NoFile ->
           <<"remote-deleted-known", "delete-local">>
      [] le = NoFile /\ re # NoFile /\ havePrev /\ pl # NoFile ->
           <<"local-deleted-known", "delete-remote">>
      [] OTHER -> <<"same", "none">>

\* One path of compare_manifests: <<state, action>>.
classify(le, re, havePrev, pl, pr) ==
    LET localChanged  == changed_since(pl, le)
        remoteChanged == changed_since(pr, re)
    IN CASE le = NoFile /\ re = NoFile -> <<"absent", "none">>
         [] le # NoFile /\ re # NoFile /\ ~havePrev -> heuristic_diff(le, re)
         [] le # NoFile /\ re # NoFile /\ havePrev ->
              CASE localChanged /\ remoteChanged ->
                     IF entries_content_same(le, re)
                     THEN <<"same", "none">>
                     ELSE <<"both-changed", "abort-conflict">>
                [] localChanged /\ ~remoteChanged -> <<"local-newer", "push">>
                [] ~localChanged /\ remoteChanged -> <<"remote-newer", "pull">>
                [] OTHER -> <<"same", "none">>
         [] le # NoFile /\ re = NoFile ->
              IF havePrev /\ pr # NoFile
              THEN IF localChanged
                   THEN <<"unknown-deletion", "abort-conflict">>
                   ELSE <<"remote-deleted-known", "delete-local">>
              ELSE <<"local-only", "push">>
         [] OTHER ->
              IF havePrev /\ pl # NoFile
              THEN IF remoteChanged
                   THEN <<"unknown-deletion", "abort-conflict">>
                   ELSE <<"local-deleted-known", "delete-remote">>
              ELSE <<"remote-only", "pull">>

\* diff_remote_changes: what the command did to a path.
diff_remote_change(before, after) ==
    IF after # NoFile /\ (before = NoFile \/ ~entries_same(before, after))
    THEN "changed"
    ELSE IF before # NoFile /\ after = NoFile THEN "deleted" ELSE "untouched"

-----------------------------------------------------------------------------
(* The reference the planner is compared with: a three-way merge on the     *)
(* contents themselves, the base being what both sides held last time.      *)

ContentOf(f) == IF f = NoFile THEN NoFile ELSE f.content

\* Where the local content l and remote content r should go from base b.
Merge(l, r, b) ==
    CASE l = r -> "none"
      [] l # r /\ r = b -> IF l = NoFile THEN "delete-remote" ELSE "push"
      [] l # r /\ r # b /\ l = b ->
            IF r = NoFile THEN "delete-local" ELSE "pull"
      [] OTHER -> "abort-conflict"
=============================================================================
