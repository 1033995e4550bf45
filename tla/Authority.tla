----------------------------- MODULE Authority -----------------------------
(***************************************************************************)
(* The controller authority of one project and the targets that honour it. *)
(* The authority store hands out leases with growing fences and signs one  *)
(* capability per grant; a target accepts a capability at most once, never *)
(* below the highest fence it has seen, and answers with signed receipts.  *)
(* A lease that follows unresolved grants is in RECOVERY: it fences every  *)
(* target with barriers and imports receipts until each grant is settled.  *)
(*                                                                         *)
(* Capabilities and receipts are never lost and never expire: any issued   *)
(* capability may reach its target at any later time, twice or not at all, *)
(* and any receipt a target could have signed may be imported at any later *)
(* time.  Calls repeated under their rpc, acquire or grant request id are  *)
(* answered from the stored response and change nothing.                   *)
(***************************************************************************)
EXTENDS Integers, FiniteSets

CONSTANTS Targets,
          MaxFence,      \* leases granted
          MaxGrants,     \* grants issued
          MaxEpoch,      \* authority epochs
          Enrols         \* <<target, epoch>>: the enrollments operators start

VARIABLES epoch,         \* authority_meta.authority_epoch
          was,           \* every epoch the store has shown: a call reads it before it locks
          cur,           \* projects.current_lease_id, 0 when none; a lease is named by its fence
          mode,          \* projects.state
          lease,         \* lease[f]: phase and state of the leases table
          late,          \* the current lease is past lease_until
          key,           \* key[t][e]: authority_targets.state
          signed,        \* signed[t]: the epochs whose enrollment receipt the target signed
          grant,         \* the grants table, in the order of issue
          enr,           \* enr[t]: the one ENROLLED authority epoch of the target, 0 when none
          pf,            \* pf[t]: project_fences of the target
          acc,           \* acc[g]: accepted_grants.state at the grant's target
          obs            \* obs[b]: lower_fence_operations in barrier b's result

authority == <<epoch, was, cur, mode, lease, late, key, grant>>
target == <<enr, pf, acc, obs>>
vars == <<authority, signed, target>>

Epochs == 1..MaxEpoch
Fences == 1..MaxFence
Grants == DOMAIN grant
Open == {"ISSUED", "UNKNOWN", "ACCEPTED"}
Ops == {"run", "fence_barrier"}

ASSUME BoundsAssumption == /\ MaxFence \in Nat \ {0} /\ MaxEpoch \in Nat \ {0}
                           /\ MaxGrants \in Nat /\ Enrols \subseteq Targets \X (1..MaxEpoch)

Init == /\ epoch = 1 /\ was = {1}
        /\ cur = 0 /\ mode = "BOOTSTRAP" /\ late = FALSE
        /\ lease = [f \in {} |-> 0]
        /\ key = [t \in Targets |-> [e \in Epochs |-> "NONE"]]
        /\ signed = [t \in Targets |-> {}]
        /\ grant = [g \in {} |-> 0]
        /\ enr = [t \in Targets |-> 0]
        /\ pf = [t \in Targets |-> [epoch |-> 0, fence |-> -1]]
        /\ acc = [g \in {} |-> "NONE"]
        /\ obs = [g \in {} |-> 0]

(* A call reads the epoch when it opens the store and keeps it across the  *)
(* lock it takes afterwards, so it may hold any epoch shown so far.        *)
Meta(e) == e \in was

Unresolved == {g \in Grants : grant[g].st \in Open}

(* The caller's lease is the project's current one, ACTIVE and in time.    *)
Owned == cur # 0 /\ lease[cur].state = "ACTIVE" /\ ~late

----------------------------------------------------------------------------
(* Leases. *)
Busy == cur # 0 /\ lease[cur].state = "ACTIVE" /\ ~late

NewPhase == IF mode = "RECOVERY" \/ Unresolved # {} THEN "RECOVERY" ELSE "NORMAL"

Superseded == [f \in DOMAIN lease |->
                 IF f = cur THEN [lease[f] EXCEPT !.state = "SUPERSEDED"] ELSE lease[f]]

Acquire == LET fence == Cardinality(DOMAIN lease) + 1
           IN  /\ ~Busy /\ fence <= MaxFence
               /\ lease' = [f \in DOMAIN lease \cup {fence} |->
                              IF f = fence THEN [phase |-> NewPhase, state |-> "ACTIVE"]
                              ELSE Superseded[f]]
               /\ cur' = fence /\ late' = FALSE
               /\ mode' = IF NewPhase = "RECOVERY" THEN "RECOVERY" ELSE mode
               /\ UNCHANGED <<epoch, was, key, grant, signed, target>>

(* A heartbeat revives the current lease even after it ran out. *)
Heartbeat == /\ cur # 0 /\ lease[cur].state = "ACTIVE" /\ late
             /\ late' = FALSE
             /\ UNCHANGED <<epoch, was, cur, mode, lease, key, grant, signed, target>>

Releasable == mode # "RECOVERY" /\ lease[cur].phase # "RECOVERY" /\ Unresolved = {}

Release == /\ cur # 0 /\ lease[cur].state = "ACTIVE" /\ Releasable
           /\ lease' = [lease EXCEPT ![cur].state = "RELEASED"]
           /\ cur' = 0 /\ late' = FALSE
           /\ UNCHANGED <<epoch, was, mode, key, grant, signed, target>>

LeaseRunsOut == /\ Owned /\ late' = TRUE
                /\ UNCHANGED <<epoch, was, cur, mode, lease, key, grant, signed, target>>

----------------------------------------------------------------------------
(* Keys: prepared by the authority, relayed to the target, confirmed. *)
KeyCreate(t, e) == /\ <<t, e>> \in Enrols /\ Meta(e) /\ key[t][e] = "NONE"
                   /\ key' = [key EXCEPT ![t][e] = "PENDING"]
                   /\ UNCHANGED <<epoch, was, cur, mode, lease, late, grant, signed, target>>

(* A prepared key can be exported at once, so its frame may be on its way  *)
(* from then on, also when the epoch has moved since.                      *)
Exported(t, e) == key[t][e] # "NONE"

(* An older epoch than the enrolled one is refused, a newer one retires it. *)
NotStale(t, e) == e >= enr[t]

KeyImport(t, e) == /\ Exported(t, e) /\ NotStale(t, e)
                   /\ enr' = [enr EXCEPT ![t] = e]
                   /\ signed' = [signed EXCEPT ![t] = @ \cup {e}]
                   /\ UNCHANGED <<authority, pf, acc, obs>>

KeyFinalize(t, e) == /\ Meta(e) /\ e \in signed[t] /\ key[t][e] = "PENDING"
                     /\ key' = [key EXCEPT ![t][e] = "ENROLLED"]
                     /\ UNCHANGED <<epoch, was, cur, mode, lease, late, grant, signed, target>>

Quiescent == /\ cur = 0 /\ Unresolved = {}
             /\ \A t \in Targets, e \in Epochs : key[t][e] # "PENDING"

Rotate(e) == /\ Meta(e) /\ Quiescent /\ e < MaxEpoch
             /\ key' = [t \in Targets |->
                          IF key[t][e] = "ENROLLED" THEN [key[t] EXCEPT ![e] = "RETIRED"]
                          ELSE key[t]]
             /\ epoch' = e + 1 /\ was' = was \cup {e + 1}
             /\ UNCHANGED <<cur, mode, lease, late, grant, signed, target>>

----------------------------------------------------------------------------
(* Grants. *)
(* Mutant: issuing looks at the phase of the lease only. *)
MayIssueByPhase(op) == op = "fence_barrier" \/ lease[cur].phase # "RECOVERY"

MayIssue(op) == \/ op = "fence_barrier"
                \/ /\ lease[cur].phase # "RECOVERY" /\ mode # "RECOVERY"
                   /\ Unresolved = {}

Issue(t, e, op) ==
  LET g == Cardinality(Grants) + 1
  IN  /\ Meta(e) /\ Owned /\ MayIssue(op) /\ key[t][e] = "ENROLLED" /\ g <= MaxGrants
      /\ grant' = [h \in Grants \cup {g} |->
                     IF h = g THEN [target |-> t, epoch |-> e, fence |-> cur, op |-> op,
                                    st |-> "ISSUED"]
                     ELSE grant[h]]
      /\ acc' = [h \in Grants \cup {g} |-> IF h = g THEN "NONE" ELSE acc[h]]
      /\ UNCHANGED <<epoch, was, cur, mode, lease, late, key, signed, enr, pf, obs>>

(* The target: its key for the capability's epoch, then the fence. *)
Verified(g) == enr[grant[g].target] = grant[g].epoch

Lower(g) == {h \in Grants : /\ acc[h] # "NONE" /\ grant[h].target = grant[g].target
                            /\ grant[h].epoch = grant[g].epoch /\ grant[h].fence < grant[g].fence}

Observed(g) == [h \in Lower(g) |-> acc[h]]

MaxSeen(g) == LET p == pf[grant[g].target] IN IF p.epoch = grant[g].epoch THEN p.fence ELSE -1

NotFenced(g) == /\ grant[g].epoch >= pf[grant[g].target].epoch
                /\ grant[g].fence >= MaxSeen(g)

NotBlocked(g) == \/ grant[g].op = "fence_barrier"
                 \/ \A h \in Lower(g) : acc[h] = "TERMINAL"

CanAccept(g) == acc[g] = "NONE" /\ Verified(g) /\ NotFenced(g) /\ NotBlocked(g)

(* Mutant: a barrier observes without raising the target's fence. *)
StoredFenceOfRuns(g) == IF grant[g].op = "fence_barrier" THEN pf[grant[g].target]
                        ELSE [epoch |-> grant[g].epoch, fence |-> grant[g].fence]

StoredFence(g) == [epoch |-> grant[g].epoch, fence |-> grant[g].fence]

Accept(g) == /\ CanAccept(g)
             /\ pf' = [pf EXCEPT ![grant[g].target] = StoredFence(g)]
             /\ acc' = [acc EXCEPT ![g] = IF grant[g].op = "fence_barrier" THEN "TERMINAL"
                                          ELSE "ACCEPTED"]
             /\ obs' = IF grant[g].op # "fence_barrier" THEN obs
                       ELSE [b \in DOMAIN obs \cup {g} |->
                               IF b = g THEN Observed(g) ELSE obs[b]]
             /\ UNCHANGED <<authority, signed, enr>>

(* The accepted operation ends at the target. *)
Finish(g) == /\ acc[g] = "ACCEPTED" /\ acc' = [acc EXCEPT ![g] = "TERMINAL"]
             /\ UNCHANGED <<authority, signed, enr, pf, obs>>

----------------------------------------------------------------------------
(* Receipts.  The target may have signed any status the grant has had.     *)
Signed(g) == {"ABSENT"} \cup (IF acc[g] = "NONE" \/ grant[g].op = "fence_barrier" THEN {}
                              ELSE {"ACCEPTED"})
                        \cup (IF acc[g] = "TERMINAL" THEN {"TERMINAL"} ELSE {})

Trusted(g, e) == e = grant[g].epoch /\ key[grant[g].target][e] = "ENROLLED"

(* Mutant: a barrier on one target settles the grants of every target. *)
CoveredAnywhere(b) == {h \in Unresolved : /\ grant[h].epoch = grant[b].epoch
                                          /\ grant[h].fence < grant[b].fence}

Covered(b) == {h \in Unresolved : /\ grant[h].target = grant[b].target
                                  /\ grant[h].epoch = grant[b].epoch
                                  /\ grant[h].fence < grant[b].fence}

Consistent(b) == /\ \A h \in DOMAIN obs[b] :
                      /\ grant[h].st # "FENCED"
                      /\ grant[h].st = "TERMINAL" => obs[b][h] = "TERMINAL"
                 /\ \A h \in Covered(b) \ DOMAIN obs[b] : grant[h].st # "ACCEPTED"

Reconciled(b) == [h \in Grants |->
                    IF h = b THEN [grant[h] EXCEPT !.st = "TERMINAL"]
                    ELSE IF h \notin Covered(b) THEN grant[h]
                    ELSE [grant[h] EXCEPT !.st = IF h \in DOMAIN obs[b] THEN obs[b][h]
                                                 ELSE "FENCED"]]

Import(g, e, status) ==
  /\ Meta(e) /\ Owned /\ lease[cur].phase = "RECOVERY" /\ Trusted(g, e)
  /\ grant[g].st \in Open
  /\ \/ /\ status = "ABSENT" /\ grant[g].st # "ACCEPTED"
        /\ grant' = [grant EXCEPT ![g].st = "UNKNOWN"]
     \/ /\ status = "ACCEPTED"
        /\ grant' = [grant EXCEPT ![g].st = "ACCEPTED"]
     \/ /\ status = "TERMINAL" /\ grant[g].op = "run"
        /\ grant' = [grant EXCEPT ![g].st = "TERMINAL"]
     \/ /\ status = "TERMINAL" /\ grant[g].op = "fence_barrier" /\ Consistent(g)
        /\ grant' = Reconciled(g)
  /\ UNCHANGED <<epoch, was, cur, mode, lease, late, key, signed, target>>

RecoveryComplete == /\ Owned /\ (lease[cur].phase = "RECOVERY" \/ mode = "RECOVERY")
                    /\ Unresolved = {}
                    /\ lease' = [lease EXCEPT ![cur].phase = "NORMAL"]
                    /\ mode' = "BOOTSTRAP"
                    /\ UNCHANGED <<epoch, was, cur, late, key, grant, signed, target>>

(* One transaction of the authority store each; a call that fails rolls    *)
(* back.                                                                   *)
AuthorityCall ==
  \/ Acquire \/ Heartbeat \/ Release \/ RecoveryComplete
  \/ \E e \in Epochs : Rotate(e)
  \/ \E t \in Targets, e \in Epochs, op \in Ops : Issue(t, e, op)
  \/ \E g \in Grants, e \in Epochs : \E s \in Signed(g) : Import(g, e, s)

(* An operator's enrollment: three calls that may stop between any two. *)
Enroll(t, e) == KeyCreate(t, e) \/ KeyImport(t, e) \/ KeyFinalize(t, e)

(* One transaction of the target's store each. *)
ParticipantCall(g) == Accept(g)

Next == \/ AuthorityCall \/ LeaseRunsOut
        \/ \E t \in Targets, e \in Epochs : Enroll(t, e)
        \/ \E g \in Grants : ParticipantCall(g) \/ Finish(g)

Spec == Init /\ [][Next]_vars

----------------------------------------------------------------------------
(* What the authority has settled is true at the target: a grant it calls  *)
(* FENCED was not accepted, one it calls TERMINAL has ended there, one it  *)
(* calls ACCEPTED was accepted.  Late capabilities, stale receipts and     *)
(* epochs read before a rotation do not change that.                       *)
ResolvedIsTrue ==
  \A g \in Grants : /\ grant[g].st = "FENCED" => acc[g] = "NONE"
                    /\ grant[g].st = "TERMINAL" => acc[g] = "TERMINAL"
                    /\ grant[g].st = "ACCEPTED" => acc[g] # "NONE"

(* Two operations of the project never run at the same time, on one target *)
(* or on two, whatever leases issued them.                                 *)
OneAtWork ==
  Cardinality({g \in Grants : acc[g] = "ACCEPTED"}) <= 1

(* Once a lease is out of RECOVERY, no operation of an earlier lease is at *)
(* work and no capability of an earlier lease would be accepted any more.  *)
NoStaleAuthority ==
  cur # 0 /\ lease[cur].phase = "NORMAL" =>
    \A g \in Grants : grant[g].fence < cur => acc[g] # "ACCEPTED" /\ ~CanAccept(g)
=============================================================================
