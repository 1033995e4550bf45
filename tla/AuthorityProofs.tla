--------------------------- MODULE AuthorityProofs ---------------------------
(***************************************************************************)
(* The authority's safety for any number of targets, leases, grants and    *)
(* epochs.  A grant is settled for good in one of two ways: its operation  *)
(* has ended at the target, or the target's fence stands above it, so that *)
(* its capability is refused whenever it arrives.                          *)
(***************************************************************************)
EXTENDS Authority, FiniteSetTheorems, TLAPS

Settled == {"TERMINAL", "FENCED"}

TypeOK ==
  /\ cur \in Nat /\ IsFiniteSet(DOMAIN lease)
  /\ Grants = 1..Cardinality(Grants) /\ Cardinality(Grants) \in Nat
  /\ grant \in [Grants -> [target : Targets, epoch : Epochs, fence : Nat, op : Ops,
                           st : Open \cup Settled]]
  /\ acc \in [Grants -> {"NONE", "ACCEPTED", "TERMINAL"}]
  /\ pf \in [Targets -> [epoch : 0..MaxEpoch, fence : Int]]

(* h is of g's target and epoch, under a lower fence.                      *)
Below(h, g) == /\ grant[h].target = grant[g].target /\ grant[h].epoch = grant[g].epoch
               /\ grant[h].fence < grant[g].fence

(* The target's stored fence has reached g's, or has passed it.            *)
Reached(g) == LET p == pf[grant[g].target]
              IN  \/ p.epoch > grant[g].epoch
                  \/ p.epoch = grant[g].epoch /\ p.fence >= grant[g].fence
Barred(g) == LET p == pf[grant[g].target]
             IN  \/ p.epoch > grant[g].epoch
                 \/ p.epoch = grant[g].epoch /\ p.fence > grant[g].fence

(* A target's fence never falls behind what it has accepted.               *)
FenceInv == \A g \in Grants : acc[g] # "NONE" => Reached(g)

(* A barrier ends when it is accepted, and its result names exactly the    *)
(* operations below it that the target has accepted or will ever accept.   *)
BarrierInv ==
  /\ DOMAIN obs \subseteq Grants
  /\ \A b \in Grants : grant[b].op = "fence_barrier" =>
       /\ acc[b] # "ACCEPTED"
       /\ acc[b] = "TERMINAL" =>
            /\ b \in DOMAIN obs
            /\ \A h \in Grants : Below(h, b) /\ acc[h] # "NONE" => h \in DOMAIN obs[b]
  /\ \A b \in DOMAIN obs : acc[b] = "TERMINAL" /\ \A h \in DOMAIN obs[b] :
       /\ h \in Grants /\ acc[h] # "NONE" /\ obs[b][h] \in {"ACCEPTED", "TERMINAL"}
       /\ obs[b][h] = "TERMINAL" => acc[h] = "TERMINAL"

(* What the authority calls FENCED can not be accepted later either.       *)
SettledInv == \A g \in Grants : grant[g].st = "FENCED" => Barred(g)

(* A run is issued when every grant before it is settled, and a lease is   *)
(* NORMAL only when every grant of an earlier one is.                      *)
OrderInv ==
  /\ \A g, h \in Grants : grant[g].op = "run" /\ h < g => grant[h].st \in Settled
  /\ cur # 0 /\ lease[cur].phase = "NORMAL" =>
       \A g \in Grants : grant[g].fence < cur => grant[g].st \in Settled

IInv == /\ TypeOK /\ FenceInv /\ BarrierInv /\ SettledInv /\ OrderInv /\ ResolvedIsTrue

\* No lease, no grant, no fence.
LEMMA InvInit == Init => IInv
<1> SUFFICES ASSUME Init PROVE IInv
  OBVIOUS
<1>1. DOMAIN lease = {} /\ Grants = {} /\ DOMAIN obs = {} /\ DOMAIN acc = {} /\ cur = 0
  BY DEF Init, Grants
<1>2. IsFiniteSet({}) /\ Cardinality({}) = 0
  BY FS_EmptySet
<1>3. TypeOK
  <2>1. IsFiniteSet(DOMAIN lease) /\ Cardinality(Grants) = 0 /\ cur = 0
    BY <1>1, <1>2
  <2>2. pf \in [Targets -> [epoch : 0..MaxEpoch, fence : Int]]
    BY BoundsAssumption DEF Init
  <2>3. grant \in [Grants -> [target : Targets, epoch : Epochs, fence : Nat, op : Ops,
                              st : Open \cup Settled]]
    BY <1>1 DEF Init
  <2>4. acc \in [Grants -> {"NONE", "ACCEPTED", "TERMINAL"}]
    BY <1>1 DEF Init
  <2>5. Grants = 1..Cardinality(Grants)
    BY <1>1, <2>1
  <2>6. QED
    BY <2>1, <2>2, <2>3, <2>4, <2>5 DEF TypeOK
<1>4. FenceInv /\ BarrierInv /\ SettledInv /\ OrderInv /\ ResolvedIsTrue
  BY <1>1 DEF FenceInv, BarrierInv, SettledInv, OrderInv, ResolvedIsTrue
<1>5. QED
  BY <1>3, <1>4 DEF IInv

\* Leases, keys and epochs: grants and targets are left alone, so only the
\* phase of the current lease matters.
LEMMA LeaseStep ==
  ASSUME IInv, UNCHANGED <<grant, acc, pf, obs>>,
         cur' \in Nat, IsFiniteSet(DOMAIN lease'),
         cur' # 0 /\ lease'[cur'].phase = "NORMAL" =>
           \/ Unresolved = {}
           \/ cur' = cur /\ lease'[cur'].phase = lease[cur].phase
  PROVE  IInv'
<1>1. TypeOK'
  BY DEF IInv, TypeOK, Grants
<1>2. FenceInv' /\ BarrierInv' /\ SettledInv' /\ ResolvedIsTrue'
  BY DEF IInv, FenceInv, BarrierInv, SettledInv, ResolvedIsTrue, Grants, Reached, Barred, Below
<1>3. OrderInv'
  <2>1. ASSUME Unresolved = {} PROVE \A g \in Grants : grant[g].st \in Settled
    BY <2>1 DEF Unresolved, IInv, TypeOK
  <2>2. QED
    BY <2>1 DEF IInv, OrderInv, Grants
<1>4. QED
  BY <1>1, <1>2, <1>3 DEF IInv

\* The lease, key and epoch calls are such steps.
LEMMA LeaseCalls ==
  ASSUME IInv,
         \/ Acquire \/ Heartbeat \/ Release \/ RecoveryComplete \/ LeaseRunsOut
         \/ \E e \in Epochs : Rotate(e)
         \/ \E t \in Targets, e \in Epochs : Enroll(t, e)
  PROVE  IInv'
<1>1. CASE Acquire
  <2> DEFINE fence == Cardinality(DOMAIN lease) + 1
  <2>1. IsFiniteSet(DOMAIN lease) /\ fence \in Nat \ {0}
    BY FS_CardinalityType DEF IInv, TypeOK
  <2>2. DOMAIN lease' = DOMAIN lease \cup {fence} /\ cur' = fence
    BY <1>1 DEF Acquire
  <2>3. IsFiniteSet(DOMAIN lease')
    BY <2>1, <2>2, FS_AddElement
  <2>4. lease'[cur'] = [phase |-> NewPhase, state |-> "ACTIVE"]
    BY <1>1, <2>2 DEF Acquire
  <2>5. lease'[cur'].phase = "NORMAL" => Unresolved = {}
    BY <2>4 DEF NewPhase
  <2>6. UNCHANGED <<grant, acc, pf, obs>>
    BY <1>1 DEF Acquire, target
  <2>7. QED
    BY <2>1, <2>2, <2>3, <2>5, <2>6, LeaseStep
<1>2. CASE RecoveryComplete
  <2>1. UNCHANGED <<grant, acc, pf, obs, cur>> /\ Unresolved = {} /\ DOMAIN lease' = DOMAIN lease
    BY <1>2 DEF RecoveryComplete, target
  <2>2. QED
    BY <2>1, LeaseStep DEF IInv, TypeOK
<1>3. CASE Release
  <2>1. UNCHANGED <<grant, acc, pf, obs>> /\ cur' = 0 /\ DOMAIN lease' = DOMAIN lease
    BY <1>3 DEF Release, target
  <2>2. QED
    BY <2>1, LeaseStep DEF IInv, TypeOK
<1>4. CASE \/ Heartbeat \/ LeaseRunsOut \/ \E e \in Epochs : Rotate(e)
           \/ \E t \in Targets, e \in Epochs : Enroll(t, e)
  <2>1. UNCHANGED <<grant, acc, pf, obs, cur, lease>>
    BY <1>4 DEF Heartbeat, LeaseRunsOut, Rotate, Enroll, KeyCreate, KeyFinalize, KeyImport,
       target, authority
  <2>2. QED
    BY <2>1, LeaseStep DEF IInv, TypeOK
<1>5. QED
  BY <1>1, <1>2, <1>3, <1>4

\* A new grant: it is the last one, and a run waits until all are settled.
LEMMA IssueStep ==
  ASSUME IInv, NEW t \in Targets, NEW e \in Epochs, NEW op \in Ops, Issue(t, e, op)
  PROVE  IInv'
<1> DEFINE n == Cardinality(Grants)
           new == [target |-> t, epoch |-> e, fence |-> cur, op |-> op, st |-> "ISSUED"]
<1>1. n \in Nat /\ Grants = 1..n
  BY DEF IInv, TypeOK
<1>2. /\ grant' = [h \in 1..(n + 1) |-> IF h = n + 1 THEN new ELSE grant[h]]
      /\ acc' = [h \in 1..(n + 1) |-> IF h = n + 1 THEN "NONE" ELSE acc[h]]
      /\ UNCHANGED <<cur, lease, pf, obs>> /\ MayIssue(op)
  <2>1. Grants \cup {n + 1} = 1..(n + 1)
    BY <1>1
  <2>2. QED
    BY <2>1 DEF Issue
<1>3. Grants' = 1..(n + 1) /\ Cardinality(Grants') = n + 1
  <2>1. DOMAIN grant' = 1..(n + 1)
    BY <1>2
  <2>2. Cardinality(1..(n + 1)) = n + 1
    BY <1>1, FS_Interval
  <2>3. QED
    BY <2>1, <2>2 DEF Grants
<1>4. \A h \in Grants : h \in Grants' /\ h # n + 1 /\ grant'[h] = grant[h] /\ acc'[h] = acc[h]
  BY <1>1, <1>2, <1>3
<1>5. grant'[n + 1] = new /\ acc'[n + 1] = "NONE" /\ n + 1 \in Grants' /\ n + 1 \notin Grants
  BY <1>1, <1>2, <1>3
<1>6. \A h \in Grants' : h \in Grants \/ h = n + 1
  BY <1>1, <1>3
<1>7. TypeOK'
  <2>1. new \in [target : Targets, epoch : Epochs, fence : Nat, op : Ops, st : Open \cup Settled]
    BY DEF IInv, TypeOK, Open
  <2>2. grant' \in [Grants' -> [target : Targets, epoch : Epochs, fence : Nat, op : Ops,
                                st : Open \cup Settled]]
    BY <1>2, <1>3, <1>4, <1>6, <2>1, Zenon DEF IInv, TypeOK
  <2>3. acc' \in [Grants' -> {"NONE", "ACCEPTED", "TERMINAL"}]
    BY <1>1, <1>2, <1>3 DEF IInv, TypeOK
  <2>4. QED
    BY <1>1, <1>2, <1>3, <2>2, <2>3 DEF IInv, TypeOK
<1> HIDE DEF n
<1>8. UNCHANGED <<cur, lease, pf, obs>> /\ grant'[n + 1].st = "ISSUED" /\ grant'[n + 1].fence = cur
  BY <1>2, <1>5
<1>9. FenceInv'
  BY <1>8, <1>4, <1>5, <1>6 DEF IInv, FenceInv, Reached
<1>10. BarrierInv'
  <2>1. DOMAIN obs' \subseteq Grants'
    BY <1>8, <1>4 DEF IInv, BarrierInv
  <2>2. \A b \in DOMAIN obs : b \in Grants /\ acc'[b] = acc[b]
    BY <1>4 DEF IInv, BarrierInv
  <2>3. ASSUME NEW b \in Grants, grant[b].op = "fence_barrier", acc[b] = "TERMINAL",
               NEW h \in Grants', Below(h, b)', acc'[h] # "NONE"
        PROVE h \in DOMAIN obs[b]
    BY <1>4, <1>5, <1>6, <2>3 DEF IInv, BarrierInv, Below
  <2>4. ASSUME NEW b \in Grants', grant'[b].op = "fence_barrier"
        PROVE /\ acc'[b] # "ACCEPTED"
              /\ acc'[b] = "TERMINAL" =>
                   /\ b \in DOMAIN obs'
                   /\ \A h \in Grants' : Below(h, b)' /\ acc'[h] # "NONE" => h \in DOMAIN obs'[b]
    BY <1>8, <1>4, <1>5, <1>6, <2>3, <2>4 DEF IInv, BarrierInv
  <2>5. ASSUME NEW b \in DOMAIN obs'
        PROVE  acc'[b] = "TERMINAL" /\ \A h \in DOMAIN obs'[b] :
                 /\ h \in Grants' /\ acc'[h] # "NONE" /\ obs'[b][h] \in {"ACCEPTED", "TERMINAL"}
                 /\ obs'[b][h] = "TERMINAL" => acc'[h] = "TERMINAL"
    BY <1>8, <1>4, <2>2 DEF IInv, BarrierInv
  <2>6. QED
    BY <2>1, <2>4, <2>5 DEF BarrierInv
<1>11. SettledInv' /\ ResolvedIsTrue'
  BY <1>8, <1>4, <1>5, <1>6 DEF IInv, SettledInv, ResolvedIsTrue, Barred
<1>12. OrderInv'
  <2>1. op = "run" => \A h \in Grants : grant[h].st \in Settled
    BY <1>2 DEF MayIssue, Unresolved, IInv, TypeOK
  <2>2. \A g, h \in Grants' : grant'[g].op = "run" /\ h < g => grant'[h].st \in Settled
    BY <1>1, <1>3, <1>4, <1>5, <1>6, <2>1 DEF IInv, OrderInv
  <2>3. cur \in Nat
    BY DEF IInv, TypeOK
  <2>4. QED
    BY <1>8, <1>4, <1>6, <2>2, <2>3 DEF IInv, OrderInv
<1>13. QED
  BY <1>7, <1>9, <1>10, <1>11, <1>12 DEF IInv

\* The target accepts: its fence only rises, and an accepted capability was
\* below no earlier barrier.
LEMMA AcceptStep ==
  ASSUME IInv, NEW g \in Grants, Accept(g)
  PROVE  IInv'
<1> DEFINE t == grant[g].target
           barrier == grant[g].op = "fence_barrier"
<1>1. UNCHANGED <<grant, cur, lease>> /\ Grants' = Grants
  BY DEF Accept, authority, Grants
<1>2. /\ acc' = [acc EXCEPT ![g] = IF barrier THEN "TERMINAL" ELSE "ACCEPTED"]
      /\ pf' = [pf EXCEPT ![t] = [epoch |-> grant[g].epoch, fence |-> grant[g].fence]]
      /\ acc[g] = "NONE" /\ NotFenced(g)
  BY DEF Accept, StoredFence, CanAccept
<1>3. TypeOK'
  BY <1>1, <1>2 DEF IInv, TypeOK, Epochs
<1>4. /\ \A h \in Grants : Reached(h) => Reached(h)'
      /\ \A h \in Grants : Barred(h) => Barred(h)'
      /\ Reached(g)' /\ ~Barred(g)
  BY <1>1, <1>2 DEF IInv, TypeOK, Reached, Barred, NotFenced, MaxSeen, Epochs
<1>5. acc'[g] # "NONE" /\ \A h \in Grants \ {g} : acc'[h] = acc[h]
  BY <1>2 DEF IInv, TypeOK
<1>6. FenceInv'
  BY <1>1, <1>4, <1>5 DEF IInv, FenceInv
<1>7. SettledInv' /\ ResolvedIsTrue'
  BY <1>1, <1>2, <1>4, <1>5 DEF IInv, SettledInv, ResolvedIsTrue
<1>8. OrderInv'
  BY <1>1 DEF IInv, OrderInv
<1>9. BarrierInv'
  <2>1. ASSUME NEW b \in Grants, Below(g, b) PROVE acc[b] = "NONE"
    <3>1. /\ grant[g].epoch \in Nat /\ grant[g].fence \in Nat /\ grant[b].fence \in Nat
          /\ pf[t].epoch \in Nat /\ pf[t].fence \in Int
      BY DEF IInv, TypeOK, Epochs
    <3>2. acc[b] # "NONE" => Reached(b)
      BY DEF IInv, FenceInv
    <3>3. QED
      BY <1>2, <2>1, <3>1, <3>2 DEF Reached, Below, NotFenced, MaxSeen
  <2>2. g \notin DOMAIN obs /\ DOMAIN obs \subseteq Grants
    BY <1>2 DEF IInv, BarrierInv
  <2>3. CASE barrier
    <3>1. /\ DOMAIN obs' = DOMAIN obs \cup {g} /\ obs'[g] = Observed(g)
          /\ \A b \in DOMAIN obs : obs'[b] = obs[b]
      BY <2>2, <2>3 DEF Accept
    <3>2. acc'[g] = "TERMINAL"
      BY <1>2, <2>3 DEF IInv, TypeOK
    <3>3. /\ \A h \in Grants : Below(h, g) /\ acc'[h] # "NONE" => h \in DOMAIN obs'[g]
          /\ \A h \in DOMAIN obs'[g] : h \in Grants \ {g} /\ acc[h] # "NONE" /\ obs'[g][h] = acc[h]
      BY <1>2, <1>5, <3>1 DEF Observed, Lower, Below, IInv, TypeOK
    <3>4. ASSUME NEW b \in Grants, grant[b].op = "fence_barrier"
          PROVE /\ acc'[b] # "ACCEPTED"
                /\ acc'[b] = "TERMINAL" =>
                     /\ b \in DOMAIN obs'
                     /\ \A h \in Grants : Below(h, b) /\ acc'[h] # "NONE" => h \in DOMAIN obs'[b]
      BY <1>5, <2>1, <3>1, <3>2, <3>3, <3>4 DEF IInv, BarrierInv
    <3>5. ASSUME NEW b \in DOMAIN obs'
          PROVE acc'[b] = "TERMINAL" /\ \A h \in DOMAIN obs'[b] :
                  /\ h \in Grants /\ acc'[h] # "NONE" /\ obs'[b][h] \in {"ACCEPTED", "TERMINAL"}
                  /\ obs'[b][h] = "TERMINAL" => acc'[h] = "TERMINAL"
      <4>1. CASE b = g
        BY <1>5, <3>2, <3>3, <4>1 DEF IInv, TypeOK
      <4>2. CASE b # g
        BY <1>2, <1>5, <2>2, <3>1, <4>2 DEF IInv, BarrierInv
      <4>3. QED
        BY <4>1, <4>2
    <3>6. QED
      BY <1>1, <2>2, <3>1, <3>4, <3>5 DEF BarrierInv, Below
  <2>4. CASE ~barrier
    <3>1. obs' = obs /\ acc'[g] = "ACCEPTED"
      BY <1>2, <2>4 DEF Accept, IInv, TypeOK
    <3>2. QED
      BY <1>1, <1>2, <1>5, <2>1, <2>2, <2>4, <3>1 DEF IInv, BarrierInv, Below
  <2>5. QED
    BY <2>3, <2>4
<1>10. QED
  BY <1>3, <1>6, <1>7, <1>8, <1>9 DEF IInv

\* The operation ends at the target.
LEMMA FinishStep ==
  ASSUME IInv, NEW g \in Grants, Finish(g)
  PROVE  IInv'
<1>1. UNCHANGED <<grant, cur, lease, pf, obs>> /\ Grants' = Grants
  BY DEF Finish, authority, Grants
<1>2. acc[g] = "ACCEPTED" /\ acc' = [acc EXCEPT ![g] = "TERMINAL"]
  BY DEF Finish
<1>3. TypeOK'
  BY <1>1, <1>2 DEF IInv, TypeOK
<1>4. \A h \in Grants : /\ acc'[h] = "NONE" <=> acc[h] = "NONE"
                        /\ acc[h] = "TERMINAL" => acc'[h] = "TERMINAL"
                        /\ h # g => acc'[h] = acc[h]
  BY <1>2 DEF IInv, TypeOK
<1>5. FenceInv' /\ SettledInv' /\ OrderInv' /\ ResolvedIsTrue'
  BY <1>1, <1>4 DEF IInv, FenceInv, SettledInv, OrderInv, ResolvedIsTrue, Reached, Barred
<1>6. grant[g].op # "fence_barrier"
  BY <1>2 DEF IInv, BarrierInv
<1>7. BarrierInv'
  BY <1>1, <1>4, <1>6 DEF IInv, BarrierInv, Below
<1>8. QED
  BY <1>3, <1>5, <1>7 DEF IInv

\* A receipt settles its grant, a barrier's also every grant below it: either
\* way from what the target has signed.
LEMMA ImportStep ==
  ASSUME IInv, NEW g \in Grants, NEW e \in Epochs, NEW s \in Signed(g), Import(g, e, s)
  PROVE  IInv'
<1>1. UNCHANGED <<cur, lease, pf, obs, acc>> /\ grant[g].st \in Open
  BY DEF Import, target
<1> DEFINE Become(h, x) ==
             /\ x \in Open \cup Settled /\ grant'[h] = [grant[h] EXCEPT !.st = x]
             /\ grant[h].st \in Settled => x \in Settled
             /\ x = "ACCEPTED" => acc[h] # "NONE"
             /\ x = "TERMINAL" => acc[h] = "TERMINAL"
             /\ x = "FENCED" => acc[h] = "NONE" /\ Barred(h)
<1>2. \A h \in Grants : grant'[h] = grant[h] => Become(h, grant[h].st)
  BY DEF IInv, TypeOK, ResolvedIsTrue, SettledInv
<1> DEFINE AllBecome ==
             /\ grant' \in [Grants -> [target : Targets, epoch : Epochs, fence : Nat, op : Ops,
                                      st : Open \cup Settled]]
             /\ \A h \in Grants : \E x \in Open \cup Settled : Become(h, x)
<1>3. AllBecome
  <2>1. ASSUME NEW x \in Open \cup {"TERMINAL"}, grant' = [grant EXCEPT ![g].st = x],
               x = "ACCEPTED" => acc[g] # "NONE", x = "TERMINAL" => acc[g] = "TERMINAL"
        PROVE AllBecome
    <3>1. grant' \in [Grants -> [target : Targets, epoch : Epochs, fence : Nat, op : Ops,
                                 st : Open \cup Settled]]
      <4>1. grant \in [Grants -> [target : Targets, epoch : Epochs, fence : Nat, op : Ops,
                                  st : Open \cup Settled]]
        BY DEF IInv, TypeOK
      <4>2. x \in Open \cup Settled
        BY <2>1 DEF Settled
      <4>3. QED
        BY <2>1, <4>1, <4>2
    <3>2. Become(g, x) /\ x \in Open \cup Settled
      BY <1>1, <2>1 DEF IInv, TypeOK, Open, Settled
    <3>3. \A h \in Grants \ {g} : Become(h, grant[h].st) /\ grant[h].st \in Open \cup Settled
      BY <1>2, <2>1 DEF IInv, TypeOK
    <3>4. QED
      BY <3>1, <3>2, <3>3
  <2>2. CASE s = "TERMINAL" /\ grant[g].op = "fence_barrier" /\ grant' = Reconciled(g)
    <3>1. acc[g] = "TERMINAL"
      BY <2>2 DEF Signed, IInv, TypeOK
    <3>2. /\ \A h \in Grants : Below(h, g) /\ acc[h] # "NONE" => h \in DOMAIN obs[g]
          /\ \A h \in DOMAIN obs[g] : /\ acc[h] # "NONE" /\ obs[g][h] \in {"ACCEPTED", "TERMINAL"}
                                      /\ obs[g][h] = "TERMINAL" => acc[h] = "TERMINAL"
      BY <2>2, <3>1 DEF IInv, BarrierInv
    <3>3. Reached(g)
      BY <3>1 DEF IInv, FenceInv
    <3>4. \A h \in Covered(g) : h \in Grants /\ grant[h].st \in Open /\ Below(h, g)
      BY DEF Covered, Unresolved, Below
    <3>5. ASSUME NEW h \in Covered(g), h # g, h \in DOMAIN obs[g] PROVE Become(h, obs[g][h])
      BY <2>2, <3>2, <3>4, <3>5 DEF Reconciled, Open, Settled
    <3>6. ASSUME NEW h \in Covered(g), h # g, h \notin DOMAIN obs[g] PROVE Become(h, "FENCED")
      <4>1. Barred(h)
        <5>1. /\ grant[g].epoch \in Nat /\ grant[g].fence \in Nat /\ grant[h].fence \in Nat
              /\ pf[grant[g].target].epoch \in Nat /\ pf[grant[g].target].fence \in Int
          BY <3>4 DEF IInv, TypeOK, Epochs
        <5>2. QED
          BY <3>3, <3>4, <5>1 DEF Reached, Barred, Below
      <4>2. acc[h] = "NONE" /\ h \in Grants
        BY <3>2, <3>4, <3>6
      <4>3. grant'[h] = [grant[h] EXCEPT !.st = "FENCED"]
        BY <2>2, <3>6, <4>2 DEF Reconciled
      <4>4. QED
        BY <4>1, <4>2, <4>3 DEF Open, Settled
    <3>7. Become(g, "TERMINAL")
      BY <2>2, <3>1 DEF Reconciled, Settled
    <3>8. \A h \in Grants \ Covered(g) : h # g => Become(h, grant[h].st)
      BY <1>2, <2>2 DEF Reconciled
    <3>9. \A h \in Grants : \E x \in Open \cup Settled : Become(h, x)
      <4>1. TAKE h \in Grants
      <4>2. CASE h = g
        BY <3>7, <4>2
      <4>3. CASE h # g /\ h \notin Covered(g)
        BY <3>8, <4>3
      <4>4. CASE h # g /\ h \in Covered(g) /\ h \in DOMAIN obs[g]
        BY <3>5, <4>4
      <4>5. CASE h # g /\ h \in Covered(g) /\ h \notin DOMAIN obs[g]
        BY <3>6, <4>5
      <4>6. QED
        BY <4>2, <4>3, <4>4, <4>5
    <3>10. DOMAIN grant' = Grants /\ grant' = [h \in Grants |-> grant'[h]]
      BY <2>2 DEF Reconciled
    <3>11. \A h \in Grants : grant'[h] \in [target : Targets, epoch : Epochs, fence : Nat, op : Ops,
                                            st : Open \cup Settled]
      <4>1. TAKE h \in Grants
      <4>2. PICK x \in Open \cup Settled : grant'[h] = [grant[h] EXCEPT !.st = x]
        BY <3>9
      <4>3. grant[h] \in [target : Targets, epoch : Epochs, fence : Nat, op : Ops,
                          st : Open \cup Settled]
        BY DEF IInv, TypeOK
      <4>4. QED
        BY <4>2, <4>3
    <3>12. QED
      BY <3>9, <3>10, <3>11
  <2>3. \/ grant' = [grant EXCEPT ![g].st = "UNKNOWN"]
        \/ s = "ACCEPTED" /\ grant' = [grant EXCEPT ![g].st = "ACCEPTED"]
        \/ s = "TERMINAL" /\ grant' = [grant EXCEPT ![g].st = "TERMINAL"]
        \/ s = "TERMINAL" /\ grant[g].op = "fence_barrier" /\ grant' = Reconciled(g)
    BY Zenon DEF Import
  <2>4. (s = "ACCEPTED" => acc[g] # "NONE") /\ (s = "TERMINAL" => acc[g] = "TERMINAL")
    BY DEF Signed
  <2>5. CASE grant' = [grant EXCEPT ![g].st = "UNKNOWN"]
    <3>1. "UNKNOWN" \in Open \cup {"TERMINAL"} /\ "UNKNOWN" \notin {"ACCEPTED", "TERMINAL"}
      BY DEF Open
    <3>2. QED
      BY <2>1, <2>5, <3>1, Zenon
  <2>6. CASE s = "ACCEPTED" /\ grant' = [grant EXCEPT ![g].st = "ACCEPTED"]
    BY <2>1, <2>4, <2>6 DEF Open
  <2>7. CASE s = "TERMINAL" /\ grant' = [grant EXCEPT ![g].st = "TERMINAL"]
    BY <2>1, <2>4, <2>7 DEF Open
  <2>8. QED
    BY <2>2, <2>3, <2>5, <2>6, <2>7
<1>4. Grants' = Grants
  BY <1>3 DEF Grants
<1>5. \A h \in Grants :
        /\ grant'[h].target = grant[h].target /\ grant'[h].epoch = grant[h].epoch
        /\ grant'[h].fence = grant[h].fence /\ grant'[h].op = grant[h].op
        /\ Become(h, grant'[h].st)
  BY <1>3 DEF IInv, TypeOK
<1> HIDE DEF Become
<1>6. TypeOK'
  BY <1>1, <1>3, <1>4 DEF IInv, TypeOK
<1>7. FenceInv' /\ BarrierInv'
  BY <1>1, <1>4, <1>5 DEF IInv, FenceInv, BarrierInv, Reached, Below
<1>8. SettledInv' /\ ResolvedIsTrue'
  <2>1. ASSUME NEW h \in Grants, grant'[h].st = "FENCED" PROVE Barred(h)' /\ acc'[h] = "NONE"
    BY <1>1, <1>5, <2>1 DEF Barred, Become
  <2>2. ASSUME NEW h \in Grants
        PROVE  /\ grant'[h].st = "TERMINAL" => acc'[h] = "TERMINAL"
               /\ grant'[h].st = "ACCEPTED" => acc'[h] # "NONE"
    BY <1>1, <1>5 DEF Become
  <2>3. QED
    BY <1>4, <2>1, <2>2 DEF SettledInv, ResolvedIsTrue
<1>9. OrderInv'
  <2>1. \A h \in Grants : grant[h].st \in Settled => grant'[h].st \in Settled
    BY <1>5 DEF Become
  <2>2. QED
    BY <1>1, <1>4, <1>5, <2>1 DEF IInv, OrderInv
<1>10. QED
  BY <1>6, <1>7, <1>8, <1>9 DEF IInv

\* The inductive step, from the lemmas above.
LEMMA InvStep == IInv /\ [Next]_vars => IInv'
<1> SUFFICES ASSUME IInv, [Next]_vars PROVE IInv'
  OBVIOUS
<1>1. CASE UNCHANGED vars
  BY <1>1, LeaseStep DEF vars, authority, target, IInv, TypeOK
<1>2. CASE Next
  BY <1>2, LeaseCalls, IssueStep, AcceptStep, FinishStep, ImportStep
     DEF Next, AuthorityCall, ParticipantCall
<1>3. QED
  BY <1>1, <1>2

\* IInv holds in every reachable state.
LEMMA Invariance == Spec => []IInv
BY InvInit, InvStep, PTL DEF Spec

\* What the authority has settled is true at the target, for good.
THEOREM SettledIsTrue == Spec => []ResolvedIsTrue
<1>1. IInv => ResolvedIsTrue
  BY DEF IInv
<1>2. QED
  BY <1>1, Invariance, PTL

\* At most one operation of the project is at work over all targets: of two
\* runs the earlier grant was settled before the later one was signed.
THEOREM AtMostOneAtWork == Spec => []OneAtWork
<1>1. ASSUME IInv PROVE OneAtWork
  <2> DEFINE W == {g \in Grants : acc[g] = "ACCEPTED"}
  <2>1. \A g, h \in W : g = h
    <3>1. SUFFICES ASSUME NEW g \in W, NEW h \in W, h < g PROVE FALSE
      BY <1>1 DEF IInv, TypeOK
    <3>2. grant[g].op = "run"
      BY <1>1 DEF IInv, BarrierInv, TypeOK, Ops
    <3>3. grant[h].st \in {"TERMINAL", "FENCED"}
      BY <1>1, <3>1, <3>2 DEF IInv, OrderInv, Settled
    <3>4. QED
      BY <1>1, <3>3 DEF IInv, ResolvedIsTrue
  <2>2. CASE W = {}
    BY <2>2, FS_EmptySet DEF OneAtWork
  <2>3. CASE W # {}
    <3>1. PICK g \in W : W = {g}
      BY <2>1, <2>3
    <3>2. Cardinality(W) = 1
      BY <3>1, FS_Singleton
    <3>3. QED
      BY <3>2 DEF OneAtWork
  <2>4. QED
    BY <2>2, <2>3
<1>2. QED
  BY <1>1, Invariance, PTL

\* A lease out of RECOVERY has nothing of an earlier lease to fear: what is
\* settled has either ended or lies under the target's fence.
THEOREM StaleIsRefused == Spec => []NoStaleAuthority
<1>1. ASSUME IInv PROVE NoStaleAuthority
  <2>1. SUFFICES ASSUME cur # 0, lease[cur].phase = "NORMAL", NEW g \in Grants, grant[g].fence < cur
                 PROVE acc[g] # "ACCEPTED" /\ ~CanAccept(g)
    BY DEF NoStaleAuthority
  <2>2. grant[g].st \in {"TERMINAL", "FENCED"}
    BY <1>1, <2>1 DEF IInv, OrderInv, Settled
  <2>3. CASE grant[g].st = "TERMINAL"
    BY <1>1, <2>3 DEF IInv, ResolvedIsTrue, CanAccept
  <2>4. CASE grant[g].st = "FENCED"
    <3>1. acc[g] = "NONE" /\ Barred(g)
      BY <1>1, <2>4 DEF IInv, ResolvedIsTrue, SettledInv
    <3>2. /\ grant[g].epoch \in Nat /\ grant[g].fence \in Nat
          /\ pf[grant[g].target].epoch \in Nat /\ pf[grant[g].target].fence \in Int
      BY <1>1 DEF IInv, TypeOK, Epochs
    <3>3. ~NotFenced(g)
      BY <3>1, <3>2 DEF Barred, NotFenced, MaxSeen
    <3>4. QED
      BY <3>1, <3>3 DEF CanAccept
  <2>5. QED
    BY <2>2, <2>3, <2>4
<1>2. QED
  BY <1>1, Invariance, PTL
=============================================================================
