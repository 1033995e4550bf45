-------------------------- MODULE TransferPlanCases --------------------------
(***************************************************************************)
(* compare_manifests against a three-way merge, over every combination of  *)
(* the two trees' files and the two files recorded by the previous run.    *)
(* A case is well formed when the recorded pair was converged (reconcile   *)
(* only records such pairs) and when an edit moves the mtime or the size   *)
(* of the file it edits (MetadataHonest).                                  *)
(***************************************************************************)
EXTENDS TransferPlan

CONSTANT Stamps        \* the mtimes a case ranges over

ASSUME StampsAssumption == Stamps \subseteq Nat

VARIABLES lf, rf,      \* the file at the path, locally and remotely
          bl, br,      \* the files the previous baseline recorded
          havePrev,    \* is there a previous baseline?
          strong,      \* does the baseline carry hashes of large files too?
          chosen       \* has the case been chosen?

caseVars == <<lf, rf, bl, br, havePrev, strong, chosen>>

CaseFiles == {NoFile} \cup [content : Contents, mtime : Stamps]

\* A side that kept its size and mtime kept its content.
MetadataHonest(prev, cur) ==
    prev # NoFile /\ cur # NoFile /\ prev.mtime = cur.mtime
      /\ SizeOf[prev.content] = SizeOf[cur.content]
    => prev.content = cur.content

\* The baseline entry: reconcile adds the hash it verified to a large file.
PrevEntry(f, withHash) ==
    IF f = NoFile THEN NoFile
    ELSE [size  |-> SizeOf[f.content],
          mtime |-> f.mtime,
          sha   |-> IF withHash \/ Hashed(f.content) THEN f.content ELSE NoHash]

WellFormed(l, r, pl, pr, have) ==
    /\ ContentOf(pl) = ContentOf(pr)
    /\ ~have => pl = NoFile
    /\ MetadataHonest(pl, l)
    /\ MetadataHonest(pr, r)

CaseInit == /\ lf = NoFile /\ rf = NoFile /\ bl = NoFile /\ br = NoFile
        /\ havePrev = FALSE /\ strong = FALSE /\ chosen = FALSE

ChooseCase(l, r, pl, pr, have, s) ==
    /\ ~chosen
    /\ WellFormed(l, r, pl, pr, have)
    /\ lf' = l /\ rf' = r /\ bl' = pl /\ br' = pr
    /\ havePrev' = have /\ strong' = s /\ chosen' = TRUE

CaseNext == \E l, r, pl, pr \in CaseFiles, have, s \in BOOLEAN :
            ChooseCase(l, r, pl, pr, have, s)

CaseSpec == CaseInit /\ [][CaseNext]_caseVars

-----------------------------------------------------------------------------
PlannedAction == classify(EntryOf(lf), EntryOf(rf), havePrev,
                          PrevEntry(bl, strong), PrevEntry(br, strong))[2]

Base == ContentOf(bl)

\* compare_manifests never plans to overwrite or delete a side that holds
\* content the other side has not seen, whether files are hashed or compared
\* by metadata: the side it writes still holds the base, and "nothing to do"
\* means the two sides really hold the same content.
PlanKeepsEdits ==
    LET l == ContentOf(lf)  r == ContentOf(rf) IN
    /\ PlannedAction = "none" => l = r
    /\ PlannedAction = "push" => l # NoFile /\ r = Base
    /\ PlannedAction = "pull" => r # NoFile /\ l = Base
    /\ PlannedAction = "delete-local" => r = NoFile /\ l = Base /\ havePrev
    /\ PlannedAction = "delete-remote" => l = NoFile /\ r = Base /\ havePrev

\* Where every file involved is small enough to be hashed, the plan of
\* compare_manifests is exactly the three-way merge of the contents: it
\* neither misses an edit nor reports a conflict that is not one.
AllHashed == \A f \in {lf, rf, bl, br} : f = NoFile \/ Hashed(f.content)

PlanIsMerge ==
    AllHashed => PlannedAction = Merge(ContentOf(lf), ContentOf(rf), Base)

=============================================================================
