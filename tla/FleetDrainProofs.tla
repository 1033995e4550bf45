-------------------------- MODULE FleetDrainProofs --------------------------
(***************************************************************************)
(* Intake and drain, for any number of jobs, batches, callers, plans,      *)
(* requests and devices, whatever the planner returns.                     *)
(*                                                                         *)
(* Three invariants, one on top of the other.  IntakeInv: a submission is  *)
(* what its plan's row names, and the only answer of its request.          *)
(* QueueInv: the jobs of a batch that is leased or running are exactly the *)
(* active jobs that name it, no two live jobs own one key, and a batch     *)
(* whose command may run keeps its jobs.  DrainInv: what the tick claims   *)
(* it has seen, and what its threads run after a stop was running when the *)
(* snapshot was read.                                                      *)
(*                                                                         *)
(* Rows and batches are records whose other fields come out of the         *)
(* planner's folds, so the invariants say which fields they have, never    *)
(* their types.                                                            *)
(***************************************************************************)
EXTENDS FleetDrain, TLAPS

-----------------------------------------------------------------------------
(* Intake. *)

CallFields == {"pc", "req", "plan", "body", "sub"}

\* Every plan row is whole, and a submission made from a plan is the one the
\* plan's row names.
PlanRows ==
    /\ DOMAIN plan \subseteq Plans
    /\ \A p \in DOMAIN plan : DOMAIN plan[p] = {"body", "used"}
    /\ \A s \in subs : s.plan # None => s.plan \in DOMAIN plan /\ plan[s.plan].used = s

\* What a call in progress has read is still there.
Calls ==
    /\ DOMAIN caller = Callers
    /\ \A c \in Callers :
         /\ DOMAIN caller[c] = CallFields
         /\ caller[c].pc \in {"receipt", "plan"} => caller[c].plan \in DOMAIN plan
         /\ caller[c].pc = "enqueue" /\ caller[c].plan # None => caller[c].plan \in DOMAIN plan
         /\ caller[c].pc = "plan" /\ caller[c].sub # None
              => caller[c].sub \in subs /\ caller[c].sub.plan = caller[c].plan

\* A named request has one submission or refusals, never both.
OneReceipt ==
    /\ \A s, t \in subs : s.req # None /\ s.req = t.req => s = t
    /\ \A s \in subs, r \in refused : s.req # None => s.req # r.req

\* What was told is what the request's receipt, or its refusal, says.
ToldTruly ==
    \A t \in told :
        /\ t = [req |-> t.req, answer |-> t.answer] /\ t.req # None
        /\ \/ \E s \in subs : s.req = t.req /\ s.jobs = t.answer
           \/ t.answer = NoJobs /\ \E r \in refused : r.req = t.req

IntakeInv == PlanRows /\ Calls /\ OneReceipt /\ ToldTruly /\ ~disagree

-----------------------------------------------------------------------------
(* The queue and the owners. *)

Fields == {"st", "rec", "pin", "excl", "att", "bat"}
BatchFields == {"st", "dev", "pool", "live", "by", "est", "jobs", "recs"}
JobStates == Final \cup {"none", "queued", "active", "completion_unknown", "gone"}

Shape ==
    /\ \A j \in Jobs : DOMAIN job[j] = Fields /\ job[j].st \in JobStates
    /\ DOMAIN batch = Batches /\ DOMAIN owner = Batches /\ DOMAIN tree = Batches
    /\ \A b \in Batches : DOMAIN batch[b] = BatchFields

\* No two jobs own the same key.
UniqueKey == \A i, j \in Jobs :
    i # j /\ HoldsKey(i) /\ HoldsKey(j) /\ job[i].rec = job[j].rec => job[i].rec.kind = "command"

\* The jobs of a batch that is leased or running are exactly the active jobs
\* that name it.
Backed ==
    /\ \A j \in Jobs : job[j].st = "active" => job[j].bat \in Running /\ j \in batch[job[j].bat].jobs
    /\ \A b \in Running : /\ batch[b].jobs # {}
                          /\ \A j \in batch[b].jobs : job[j].st = "active" /\ job[j].bat = b

\* A claimed job has a row for good, and a batch runs its jobs' records.
Recorded == \A b \in Batches :
    /\ \A j \in batch[b].jobs : j \in Jobs /\ job[j].st # "none"
    /\ \A r \in batch[b].recs : \E j \in batch[b].jobs : job[j].rec = r

\* An owner starts with the claim, and a command with the launch gate.
Owners == \A b \in Batches :
    /\ batch[b].st = "none" => owner[b] = "none" /\ batch[b].jobs = {} /\ batch[b].recs = {}
    /\ owner[b] \in {"none", "begin", "gate", "launch"} => tree[b] = "none"
    /\ batch[b].st = "leased" => owner[b] \notin {"launch", "ran"} /\ tree[b] = "none"

\* A batch whose command runs, or is about to, keeps its jobs until its end is
\* known; only a clear takes them away.
Loose(b) == owner[b] = "launch" \/ tree[b] = "running"
Kept == \A b \in Batches \ cleared : Loose(b) =>
    \A j \in batch[b].jobs : job[j].bat = b /\ job[j].st \in {"active", "completion_unknown"}

\* The batches of a tick have no owner before it starts their threads.
TickFields == {"pc", "rows", "stale", "plan", "claimed"}
Starting == {"seen", "expire", "plan", "check", "claim", "startcheck", "start"}
Claims ==
    /\ DOMAIN tick = TickFields
    /\ \A b \in tick.claimed : /\ b \in Batches /\ batch[b].st # "none"
                               /\ tick.pc \in Starting => owner[b] = "none"

QueueInv == Shape /\ UniqueKey /\ Backed /\ Recorded /\ Owners /\ Kept /\ Claims

-----------------------------------------------------------------------------
(* The drain's two threads. *)

MainFields == {"pc", "queued", "active", "left"}

Threads ==
    /\ DOMAIN main = MainFields /\ DOMAIN ledger = {"seen", "term"}
    /\ Snapping => stop
    /\ main.pc \in {"countq", "counta", "decide"} => tick.pc = "done"
    /\ report # None => main.pc = "reported"

\* Whatever the drain claims it has seen before.
Seen ==
    /\ \A j \in ledger.seen : j \in Jobs /\ job[j].st # "none"
    /\ Listed \subseteq ledger.seen
    /\ \A b \in Batches : ByDrain(b) => batch[b].jobs \subseteq ledger.seen

\* The batches that the drain's threads run or are about to are in a snapshot.
Named(left) == \A b \in Running :
    ByDrain(b) /\ (owner[b] # "none" \/ (tick.pc = "start" /\ b \in tick.claimed)) => b \in left
Left ==
    /\ main.pc = "snapo" => Named(main.left)
    /\ report # None /\ report.status = "stopped" /\ ~report.late => stop /\ Named(report.left)

\* A drain that has reported its outcomes claims nothing any more.
Over ==
    report # None /\ report.status = "drained" =>
      /\ stop \/ tick.pc = "done"
      /\ DOMAIN report.out \subseteq Jobs
      /\ tick.pc = "claim" => Listed \subseteq DOMAIN report.out
      /\ DrainedIsTrue

DrainInv == Threads /\ Seen /\ Left /\ Over

IInv == IntakeInv /\ QueueInv /\ DrainInv

-----------------------------------------------------------------------------
(* Intake: the argument. *)

intakeRows == <<subs, plan, refused, caller, told, disagree>>

\* At first nothing is stored and nobody calls.
LEMMA IntakeInit == Init => IntakeInv
BY DEF Init, SubmitInit, IntakeInv, PlanRows, Calls, OneReceipt, ToldTruly, IdleCall, CallFields

\* A step that leaves the intake's tables alone keeps what is said of them.
LEMMA IntakeSame ==
    ASSUME IntakeInv, UNCHANGED intakeRows
    PROVE  IntakeInv'
BY DEF intakeRows, IntakeInv, PlanRows, Calls, OneReceipt, ToldTruly

\* A call that starts, moves on or ends, and holds what its place requires.
CallOK(k) ==
    /\ DOMAIN k = CallFields
    /\ k.pc \in {"receipt", "plan"} => k.plan \in DOMAIN plan
    /\ k.pc = "enqueue" /\ k.plan # None => k.plan \in DOMAIN plan
    /\ k.pc = "plan" /\ k.sub # None => k.sub \in subs /\ k.sub.plan = k.plan

\* The tables only grow, so what a call has read stays there.
LEMMA CallsStep ==
    ASSUME IntakeInv, NEW c \in Callers, NEW k, Call(c, k), CallOK(k),
           subs \subseteq subs', DOMAIN plan \subseteq DOMAIN plan'
    PROVE  Calls'
<1>1. DOMAIN caller' = Callers
  BY DEF Call, IntakeInv, Calls
<1>2. ASSUME NEW d \in Callers PROVE caller'[d] = IF d = c THEN k ELSE caller[d]
  BY DEF Call, IntakeInv, Calls
<1>3. ASSUME NEW d \in Callers PROVE CallOK(caller'[d])
  BY <1>2 DEF CallOK, IntakeInv, Calls
<1> QED
  BY <1>1, <1>3 DEF Calls, CallOK

\* The idle call holds nothing.
LEMMA IdleOK == CallOK(IdleCall) /\ IdleCall.pc = "idle"
BY DEF CallOK, IdleCall, CallFields

\* A step that only moves a call.
LEMMA OnlyCalls ==
    ASSUME IntakeInv, NEW c \in Callers, NEW k, Call(c, k), CallOK(k),
           UNCHANGED <<subs, plan, refused, told, disagree>>
    PROVE  IntakeInv'
<1>1. Calls'
  BY CallsStep
<1> QED
  BY <1>1 DEF IntakeInv, PlanRows, OneReceipt, ToldTruly

\* Preparing a submission or a plan.
LEMMA BeginsStep ==
    ASSUME IntakeInv, NEW c \in Callers, NEW pc \in {"enqueue", "save"}, NEW req, NEW body,
           Begins(c, pc, req, body)
    PROVE  IntakeInv'
<1> DEFINE k == [IdleCall EXCEPT !.pc = pc, !.req = req, !.body = body]
<1>1. CallOK(k)
  BY DEF CallOK, IdleCall, CallFields
<1>2. Call(c, k) /\ UNCHANGED <<subs, plan, refused, told, disagree>>
  BY DEF Begins
<1> QED
  BY <1>1, <1>2, OnlyCalls

\* Naming a saved plan.
LEMMA UsePlanStep ==
    ASSUME IntakeInv, NEW c \in Callers, NEW p, NEW req, UsePlan(c, p, req)
    PROVE  IntakeInv'
<1> DEFINE k == [IdleCall EXCEPT !.pc = "receipt", !.req = req, !.plan = p]
<1>1. CallOK(k)
  BY DEF CallOK, IdleCall, CallFields, UsePlan
<1>2. Call(c, k) /\ UNCHANGED <<subs, plan, refused, told, disagree>>
  BY DEF UsePlan
<1> QED
  BY <1>1, <1>2, OnlyCalls

\* Saving a plan adds a row that no submission names yet.
LEMMA SavePlanStep ==
    ASSUME IntakeInv, NEW c \in Callers, SavePlan(c)
    PROVE  IntakeInv'
<1>1. Call(c, IdleCall) /\ UNCHANGED <<subs, refused, told, disagree>>
  BY DEF SavePlan, Answer
<1>2. CASE UNCHANGED plan
  BY <1>1, <1>2, IdleOK, OnlyCalls
<1>3. CASE \E p \in Plans \ DOMAIN plan :
             plan' = [q \in DOMAIN plan \cup {p} |->
                        IF q = p THEN [body |-> caller[c].body, used |-> None] ELSE plan[q]]
  <2> PICK p \in Plans \ DOMAIN plan :
             plan' = [q \in DOMAIN plan \cup {p} |->
                        IF q = p THEN [body |-> caller[c].body, used |-> None] ELSE plan[q]]
    BY <1>3
  <2>1. DOMAIN plan' = DOMAIN plan \cup {p}
    OBVIOUS
  <2>2. \A q \in DOMAIN plan : plan'[q] = plan[q]
    OBVIOUS
  <2>3. DOMAIN plan'[p] = {"body", "used"}
    OBVIOUS
  <2>4. PlanRows'
    BY <1>1, <2>1, <2>2, <2>3 DEF IntakeInv, PlanRows
  <2>5. Calls'
    BY <1>1, <2>1, IdleOK, CallsStep
  <2> QED
    BY <1>1, <2>4, <2>5 DEF IntakeInv, OneReceipt, ToldTruly
<1> QED
  BY <1>2, <1>3 DEF SavePlan

\* Reading the receipt: whatever submission is found names the plan.
LEMMA ReadReceiptStep ==
    ASSUME IntakeInv, NEW c \in Callers, caller[c].pc = "receipt", ReadReceipt(c),
           UNCHANGED <<subs, plan, refused, told, disagree>>
    PROVE  IntakeInv'
<1> DEFINE sub == TheSub(SubOfPlan(caller[c].plan))
           k == [caller[c] EXCEPT !.pc = "plan", !.sub = sub]
<1>1. sub = None \/ (sub \in subs /\ sub.plan = caller[c].plan)
  BY DEF TheSub, SubOfPlan
<1>2. CallOK(k)
  BY <1>1 DEF CallOK, IntakeInv, Calls, CallFields
<1>3. Call(c, k)
  BY DEF ReadReceipt
<1> QED
  BY <1>2, <1>3, OnlyCalls

\* What a named request is told after a step is backed by the tables.
Backs(r, answer) ==
    \/ \E s \in subs' : s.req = r /\ s.jobs = answer
    \/ answer = NoJobs /\ \E x \in refused' : x.req = r

\* Telling a named request what its tables say.
LEMMA TellStep ==
    ASSUME IntakeInv, NEW c \in Callers, NEW answer, Tell(c, answer),
           subs \subseteq subs', refused \subseteq refused',
           caller[c].req # None => Backs(caller[c].req, answer)
    PROVE  ToldTruly'
<1>1. ASSUME NEW t \in told' PROVE t \in told \/ (caller[c].req # None /\ t = [req |-> caller[c].req, answer |-> answer])
  BY DEF Tell
<1>2. ASSUME NEW t \in told
      PROVE  /\ t = [req |-> t.req, answer |-> t.answer] /\ t.req # None
             /\ Backs(t.req, t.answer)
  BY DEF IntakeInv, ToldTruly, Backs
<1>3. ASSUME NEW t \in told'
      PROVE  /\ t = [req |-> t.req, answer |-> t.answer] /\ t.req # None
             /\ Backs(t.req, t.answer)
  BY <1>1, <1>2
<1> QED
  BY <1>3 DEF ToldTruly, Backs, NoJobs

\* Reading the plan: its row names the submission that was found before.
LEMMA ReadPlanStep ==
    ASSUME IntakeInv, NEW c \in Callers, caller[c].pc = "plan", ReadPlan(c),
           UNCHANGED <<subs, plan, refused>>
    PROVE  IntakeInv'
<1> DEFINE k == caller[c]
           row == plan[k.plan]
           wrong == k.sub # None /\ row.used # k.sub
<1>1. k.plan \in DOMAIN plan /\ k.plan # None
  BY IntakeAssumption DEF IntakeInv, Calls, PlanRows
<1>2. k.sub # None => k.sub \in subs /\ k.sub.plan = k.plan
  BY DEF IntakeInv, Calls
<1>3. ~wrong
  BY <1>1, <1>2 DEF IntakeInv, PlanRows
<1>4. ~disagree'
  BY <1>3 DEF ReadPlan, IntakeInv
<1>5. CASE k.sub = None
  <2> DEFINE kk == [k EXCEPT !.pc = "enqueue", !.body = row.body]
  <2>1. CallOK(kk)
    BY <1>1 DEF CallOK, IntakeInv, Calls, CallFields
  <2>2. Call(c, kk) /\ UNCHANGED told
    BY <1>5 DEF ReadPlan
  <2>3. Calls'
    BY <2>1, <2>2, CallsStep
  <2> QED
    BY <1>4, <2>2, <2>3 DEF IntakeInv, PlanRows, OneReceipt, ToldTruly
<1>6. CASE k.sub # None
  <2>1. Call(c, IdleCall)
    BY <1>6 DEF ReadPlan, Answer
  <2>2. Calls'
    BY <2>1, IdleOK, CallsStep
  <2>3. ToldTruly'
    <3>1. CASE k.req # None /\ k.sub.req # k.req
      <4>1. UNCHANGED told
        BY <1>6, <3>1 DEF ReadPlan
      <4> QED
        BY <4>1 DEF IntakeInv, ToldTruly
    <3>2. CASE ~(k.req # None /\ k.sub.req # k.req)
      <4>1. Tell(c, k.sub.jobs)
        BY <1>3, <1>6, <3>2 DEF ReadPlan
      <4>2. k.req # None => Backs(k.req, k.sub.jobs)
        BY <1>2, <1>6, <3>2 DEF Backs
      <4> QED
        BY <4>1, <4>2, TellStep
    <3> QED
      BY <3>1, <3>2
  <2> QED
    BY <1>4, <2>2, <2>3 DEF IntakeInv, PlanRows, OneReceipt
<1> QED
  BY <1>5, <1>6

\* The two unlocked reads.
LEMMA SavedPlanStep ==
    ASSUME IntakeInv, NEW c \in Callers, EnqueueSavedPlan(c)
    PROVE  IntakeInv'
<1>1. CASE caller[c].pc = "receipt"
  BY <1>1, ReadReceiptStep DEF EnqueueSavedPlan, ReadSavedPlan
<1>2. CASE caller[c].pc = "plan"
  BY <1>2, ReadPlanStep DEF EnqueueSavedPlan, ReadSavedPlan
<1> QED
  BY <1>1, <1>2 DEF EnqueueSavedPlan

\* No submission for the request or the plan exists.
Unmade(k) == /\ k.req # None => \A s \in subs : s.req # k.req
             /\ k.plan # None => \A s \in subs : s.plan # k.plan

\* A transaction that finds nothing makes the first submission.
LEMMA ExistingNone ==
    ASSUME NEW k, Existing(k) = {}
    PROVE  Unmade(k)
BY DEF Existing, SubOfPlan, SubOfRequest, Unmade

\* The stored submission is the one its plan's row names, and the only one of
\* its request.
LEMMA StoreStep ==
    ASSUME IntakeInv, NEW k, Store(k), Unmade(k),
           k.plan # None => k.plan \in DOMAIN plan
    PROVE  /\ PlanRows' /\ subs \subseteq subs' /\ DOMAIN plan' = DOMAIN plan
           /\ \A s, t \in subs' : s.req # None /\ s.req = t.req => s = t
           /\ \A s \in subs' : s \in subs \/ (s.req = k.req /\ s.jobs = JobOf(k.body))
           /\ \E s \in subs' : s.req = k.req /\ s.jobs = JobOf(k.body)
<1> DEFINE n == [req |-> k.req, plan |-> k.plan, body |-> k.body, jobs |-> JobOf(k.body)]
<1>1. subs' = subs \cup {n} /\ plan' = IF k.plan = None THEN plan ELSE [plan EXCEPT ![k.plan].used = n]
  BY DEF Store
<1>2. n.req = k.req /\ n.plan = k.plan /\ n.jobs = JobOf(k.body)
  OBVIOUS
<1> HIDE DEF n
<1>3. DOMAIN plan' = DOMAIN plan
  BY <1>1
<1>4. \A p \in DOMAIN plan : p # k.plan \/ k.plan = None => plan'[p] = plan[p]
  BY <1>1
<1>5. k.plan # None => plan'[k.plan].used = n /\ DOMAIN plan'[k.plan] = {"body", "used"}
  BY <1>1 DEF IntakeInv, PlanRows
<1>6. \A p \in DOMAIN plan' : DOMAIN plan'[p] = {"body", "used"}
  BY <1>3, <1>4, <1>5 DEF IntakeInv, PlanRows
<1>7. ASSUME NEW s \in subs', s.plan # None
      PROVE  s.plan \in DOMAIN plan' /\ plan'[s.plan].used = s
  <2>1. CASE s = n
    BY <1>2, <1>3, <1>5, <1>7, <2>1
  <2>2. CASE s \in subs
    <3>1. s.plan # k.plan
      BY <1>7, <2>2 DEF Unmade
    <3> QED
      BY <1>3, <1>4, <1>7, <2>2, <3>1 DEF IntakeInv, PlanRows
  <2> QED
    BY <1>1, <2>1, <2>2
<1>8. PlanRows'
  BY <1>3, <1>6, <1>7 DEF PlanRows, IntakeInv
<1>9. \A s, t \in subs' : s.req # None /\ s.req = t.req => s = t
  BY <1>1, <1>2 DEF Unmade, IntakeInv, OneReceipt
<1> QED
  BY <1>1, <1>2, <1>3, <1>8, <1>9

\* enqueue_submission.
LEMMA EnqueueStep ==
    ASSUME IntakeInv, NEW c \in Callers, Enqueue(c)
    PROVE  IntakeInv'
<1> DEFINE k == caller[c]
<1>0. k.pc = "enqueue" /\ Call(c, IdleCall) /\ UNCHANGED disagree
  BY DEF Enqueue, Answer
<1>1. k.plan # None => k.plan \in DOMAIN plan
  BY <1>0 DEF IntakeInv, Calls
<1> HIDE DEF k
<1>2. CASE Fail
  BY <1>0, <1>2, IdleOK, OnlyCalls DEF Fail
<1>3. CASE ~Conflict(k) /\ Replay(c, k)
  <2> PICK s \in Existing(k) : Tell(c, s.jobs)
    BY <1>3 DEF Replay
  <2>1. UNCHANGED <<subs, plan, refused>>
    BY <1>3 DEF Replay
  <2>2. s \in subs
    BY DEF Existing, SubOfPlan, SubOfRequest
  <2>3. k.req # None => s.req = k.req
    BY <1>3 DEF Conflict
  <2>4. Calls'
    BY <1>0, <2>1, IdleOK, CallsStep
  <2>5. ToldTruly'
    BY <2>1, <2>2, <2>3, TellStep DEF Backs, k
  <2> QED
    BY <1>0, <2>1, <2>4, <2>5 DEF IntakeInv, PlanRows, OneReceipt
<1>4. CASE Existing(k) = {} /\ Refuse(c, k)
  <2>1. refused' = refused \cup {Identity(k)} /\ Tell(c, NoJobs) /\ UNCHANGED <<subs, plan>>
    BY <1>4 DEF Refuse
  <2>2. Identity(k).req = k.req
    BY DEF Identity
  <2>3. Unmade(k)
    BY <1>4, ExistingNone
  <2>4. Calls'
    BY <1>0, <2>1, IdleOK, CallsStep
  <2>5. ToldTruly'
    BY <2>1, <2>2, TellStep DEF Backs, k
  <2>6. OneReceipt'
    BY <2>1, <2>2, <2>3 DEF Unmade, IntakeInv, OneReceipt
  <2> QED
    BY <1>0, <2>1, <2>4, <2>5, <2>6 DEF IntakeInv, PlanRows
<1>5. CASE ~Conflict(k) /\ Existing(k) = {} /\ Identity(k) \notin refused /\ Accept(c, k)
  <2>1. Store(k) /\ Tell(c, JobOf(k.body)) /\ UNCHANGED refused
    BY <1>5 DEF Accept
  <2>2. Unmade(k)
    BY <1>5, ExistingNone
  <2>3. /\ PlanRows' /\ subs \subseteq subs' /\ DOMAIN plan' = DOMAIN plan
        /\ \A s, t \in subs' : s.req # None /\ s.req = t.req => s = t
        /\ \A s \in subs' : s \in subs \/ (s.req = k.req /\ s.jobs = JobOf(k.body))
        /\ \E s \in subs' : s.req = k.req /\ s.jobs = JobOf(k.body)
    BY <1>1, <2>1, <2>2, StoreStep
  <2>4. Calls'
    BY <1>0, <2>3, IdleOK, CallsStep
  <2>5. Backs(k.req, JobOf(k.body))
    BY <2>3 DEF Backs
  <2>6. ToldTruly'
    BY <2>1, <2>3, <2>5, TellStep DEF k
  <2>7. k.req # None => \A r \in refused : r.req # k.req
    BY <1>5 DEF Conflict, Rebound
  <2>8. OneReceipt'
    BY <2>1, <2>3, <2>7 DEF IntakeInv, OneReceipt
  <2> QED
    BY <1>0, <2>3, <2>4, <2>6, <2>8 DEF IntakeInv
<1> QED
  BY <1>2, <1>3, <1>4, <1>5 DEF Enqueue, k

\* The ad hoc run stores a submission that names no request and no plan.
LEMMA AdHocIntake ==
    ASSUME IntakeInv, AdHocEnqueues, UNCHANGED <<refused, caller, told, disagree>>
    PROVE  IntakeInv'
<1> DEFINE k == [req |-> None, plan |-> None, body |-> adhoc.body]
<1>1. CASE UNCHANGED <<subs, plan>>
  BY <1>1, IntakeSame DEF intakeRows
<1>2. CASE Store(k)
  <2>1. k.req = None /\ k.plan = None
    OBVIOUS
  <2> HIDE DEF k
  <2>2. Unmade(k)
    BY <2>1 DEF Unmade
  <2>3. /\ PlanRows' /\ subs \subseteq subs' /\ DOMAIN plan' = DOMAIN plan
        /\ \A s, t \in subs' : s.req # None /\ s.req = t.req => s = t
        /\ \A s \in subs' : s \in subs \/ (s.req = k.req /\ s.jobs = JobOf(k.body))
        /\ \E s \in subs' : s.req = k.req /\ s.jobs = JobOf(k.body)
    BY <1>2, <2>1, <2>2, StoreStep
  <2>4. Calls'
    BY <2>3 DEF IntakeInv, Calls
  <2>5. OneReceipt'
    BY <2>1, <2>3 DEF IntakeInv, OneReceipt
  <2>6. ToldTruly'
    BY <2>3 DEF IntakeInv, ToldTruly
  <2> QED
    BY <2>3, <2>4, <2>5, <2>6 DEF IntakeInv
<1> QED
  BY <1>1, <1>2 DEF AdHocEnqueues

\* Every step keeps the intake's invariant.
LEMMA IntakeStep == IntakeInv /\ [Next]_vars => IntakeInv'
<1> SUFFICES ASSUME IntakeInv, [Next]_vars PROVE IntakeInv'
  OBVIOUS
<1>1. CASE UNCHANGED vars
  BY <1>1, IntakeSame DEF vars, intake, intakeRows
<1>2. CASE Submit
  <2>1. CASE \E s \in Specs \cup {None, Unreadable} : Edit(s)
    BY <2>1, IntakeSame DEF Edit, intakeRows
  <2>2. ASSUME NEW c \in Callers, NEW o, NEW r, SubmitTask(c, o, r) \/ SubmitCommand(c, o, r)
        PROVE  IntakeInv'
    BY <2>2, BeginsStep DEF SubmitTask, SubmitCommand
  <2>3. ASSUME NEW c \in Callers, NEW o, NEW d, PlanTask(c, o, d)
        PROVE  IntakeInv'
    BY <2>3, BeginsStep DEF PlanTask
  <2>4. NextCaller \subseteq Callers
    BY DEF NextCaller
  <2> QED
    BY <1>2, <2>1, <2>2, <2>3, <2>4, UsePlanStep, SavePlanStep, SavedPlanStep,
       EnqueueStep DEF Submit
<1>3. CASE AdHoc
  <2>1. CASE AdHocEnqueues
    BY <1>3, <2>1, AdHocIntake DEF AdHoc
  <2>2. CASE UNCHANGED <<subs, plan>>
    BY <1>3, <2>2, IntakeSame DEF AdHoc, intakeRows
  <2> QED
    BY <1>3, <2>1, <2>2 DEF AdHoc, AdHocChooses, AdHocClaims, AdHocBusy
<1>4. CASE Main \/ Tick \/ Operator \/ \E b \in Batches : Owner(b)
  BY <1>4, IntakeSame DEF Main, Tick, Quiet, Operator, Owner, rows, intakeRows
<1> QED
  BY <1>1, <1>2, <1>3, <1>4 DEF Next

-----------------------------------------------------------------------------
(* The queue: what steps do to rows and batches. *)

\* What any step may do to a job's row.
RowStep(j) ==
    /\ DOMAIN job'[j] = Fields /\ job'[j].st \in JobStates
    /\ job[j].st \in Final \cup {"gone"} => job'[j].st \in {job[j].st, "gone"}
    /\ job[j].st # "none" => job'[j].st # "none" /\ job'[j].rec = job[j].rec
    /\ HoldsKey(j)' => HoldsKey(j) \/ job[j].st = "none"
Flow == \A j \in Jobs : RowStep(j)

\* No row is made.
NoInsert == \A j \in Jobs : job[j].st = "none" => job'[j].st = "none"

\* What any step may do to a batch.
Frame(b) == /\ DOMAIN batch'[b] = BatchFields /\ batch'[b].jobs = batch[b].jobs
            /\ batch'[b].recs = batch[b].recs /\ batch'[b].by = batch[b].by
GoesOn(b) == /\ Frame(b)
             /\ \/ batch'[b].st = batch[b].st
                \/ batch[b].st = "leased" /\ batch'[b].st = "running"
Ends(b) == /\ Frame(b) /\ batch[b].st \in {"leased", "running"}
           /\ batch'[b].st \in {"failed", "done", "gone"}
Starts(b) == /\ batch[b].st = "none" /\ DOMAIN batch'[b] = BatchFields /\ batch'[b].st = "leased"
             /\ batch'[b].jobs # {} /\ batch'[b].jobs \subseteq Queued
             /\ \A r \in batch'[b].recs : \E j \in batch'[b].jobs : job[j].rec = r
BatchFlow == DOMAIN batch' = Batches /\ \A b \in Batches : GoesOn(b) \/ Ends(b) \/ Starts(b)

QueueStep == QueueInv' /\ Flow /\ BatchFlow

\* At first there is no batch.
LEMMA QueueInit == Init => QueueInv
<1> SUFFICES ASSUME Init PROVE QueueInv
  OBVIOUS
<1>1. \A j \in Jobs : job[j] = NoJob
  BY DEF Init, SubmitInit
<1>2. /\ DOMAIN batch = Batches /\ \A b \in Batches : batch[b] = NoBatch
      /\ DOMAIN owner = Batches /\ \A b \in Batches : owner[b] = "none"
      /\ DOMAIN tree = Batches /\ \A b \in Batches : tree[b] = "none"
      /\ tick = NoTick
  BY DEF Init
<1>3. DOMAIN NoJob = Fields /\ NoJob.st = "none"
  BY DEF NoJob, Fields
<1>4. DOMAIN NoBatch = BatchFields /\ NoBatch.st = "none" /\ NoBatch.jobs = {} /\ NoBatch.recs = {}
  BY DEF NoBatch, BatchFields
<1>5. DOMAIN NoTick = TickFields /\ NoTick.claimed = {}
  BY DEF NoTick, TickFields
<1> HIDE DEF Init
<1>6. Shape
  BY <1>1, <1>2, <1>3, <1>4 DEF Shape, JobStates
<1>7. UniqueKey
  BY <1>1, <1>3 DEF UniqueKey, HoldsKey
<1>8. Running = {}
  BY <1>2, <1>4 DEF Running
<1>9. Backed /\ Recorded
  BY <1>1, <1>2, <1>3, <1>4, <1>8 DEF Backed, Recorded
<1>10. Owners /\ Kept /\ Claims
  BY <1>2, <1>4, <1>5 DEF Owners, Kept, Loose, Claims
<1> QED
  BY <1>6, <1>7, <1>9, <1>10 DEF QueueInv

\* A row that stays as it is.
LEMMA SameRow ==
    ASSUME Shape, NEW j \in Jobs, job'[j] = job[j]
    PROVE  RowStep(j) /\ (job[j].st = "none" => job'[j].st = "none")
BY DEF Shape, RowStep, HoldsKey

\* JobsBecome on rows that are not final, or to gone.
LEMMA Become ==
    ASSUME Shape, NEW S, NEW s \in JobStates \ {"none", "queued", "active"}, JobsBecome(S, s),
           NEW j \in Jobs, j \in S => job[j].st # "none",
           j \in S => s = "gone" \/ job[j].st \in {"queued", "active", "completion_unknown"}
    PROVE  /\ RowStep(j) /\ (job[j].st = "none" => job'[j].st = "none")
           /\ j \notin S => job'[j] = job[j]
           /\ j \in S => job'[j].st = s /\ job'[j].bat = job[j].bat
<1>1. job'[j] = IF j \in S THEN [job[j] EXCEPT !.st = s] ELSE job[j]
  BY DEF JobsBecome
<1>2. CASE j \notin S
  BY <1>1, <1>2, SameRow
<1>3. CASE j \in S
  <2>1. DOMAIN job'[j] = Fields /\ job'[j].st = s /\ job'[j].bat = job[j].bat /\ job'[j].rec = job[j].rec
    BY <1>1, <1>3 DEF Shape, Fields
  <2> QED
    BY <1>3, <2>1 DEF RowStep, HoldsKey, JobStates, Final
<1> QED
  BY <1>2, <1>3

\* _finish_failed_item never leaves a job active and never loses its record.
LEMMA FailedFacts ==
    ASSUME NEW j \in Jobs, DOMAIN job[j] = Fields, NEW d, NEW v, NEW cap, NEW clear
    PROVE  /\ DOMAIN FailedItem(j, d, v, cap, clear) = Fields
           /\ FailedItem(j, d, v, cap, clear).rec = job[j].rec
           /\ FailedItem(j, d, v, cap, clear).st \in {"needs_review", "failed_final", "queued"}
BY DEF FailedItem, Fields

\* Settling a batch: its members end or are queued again.
LEMMA SettleFacts ==
    ASSUME Shape, NEW b, NEW verdict, NEW cap, NEW clear, Settle(b, verdict, cap, clear),
           NEW j \in Jobs
    PROVE  /\ RowStep(j) /\ (job[j].st = "none" => job'[j].st = "none")
           /\ j \notin Members(b) => job'[j] = job[j]
           /\ j \in Members(b) => job'[j].st # "active"
<1> DEFINE f == FailedItem(j, batch[b].dev, verdict[j], cap, clear)
<1>1. job'[j] = IF j \notin Members(b) THEN job[j]
                ELSE IF verdict[j] = "ok" THEN [job[j] EXCEPT !.st = "done"] ELSE f
  BY DEF Settle
<1>2. DOMAIN f = Fields /\ f.rec = job[j].rec /\ f.st \in {"needs_review", "failed_final", "queued"}
  BY FailedFacts DEF Shape
<1> HIDE DEF f
<1>3. CASE j \notin Members(b)
  BY <1>1, <1>3, SameRow
<1>4. CASE j \in Members(b)
  <2>1. job[j].st = "active"
    BY <1>4 DEF Members, Active
  <2>2. /\ DOMAIN job'[j] = Fields /\ job'[j].rec = job[j].rec
        /\ job'[j].st \in {"done", "needs_review", "failed_final", "queued"}
    BY <1>1, <1>2, <1>4 DEF Shape, Fields
  <2> QED
    BY <1>4, <2>1, <2>2 DEF RowStep, HoldsKey, JobStates, Final
<1> QED
  BY <1>3, <1>4

\* Closing a batch changes its state only.
LEMMA CloseFacts ==
    ASSUME Shape, NEW b \in Batches, NEW s, Close(b, s), NEW c \in Batches
    PROVE  /\ DOMAIN batch' = Batches /\ Frame(c)
           /\ batch'[c].st = IF c = b THEN s ELSE batch[c].st
<1>1. DOMAIN batch' = Batches /\ batch'[c] = IF c = b THEN [batch[c] EXCEPT !.st = s] ELSE batch[c]
  BY DEF Close, Shape
<1> QED
  BY <1>1 DEF Shape, Frame, BatchFields

\* Without new rows no two jobs come to own a key.
LEMMA KeyStep ==
    ASSUME UniqueKey, Flow, NoInsert
    PROVE  UniqueKey'
<1> SUFFICES ASSUME NEW i \in Jobs, NEW j \in Jobs, i # j, HoldsKey(i)', HoldsKey(j)',
                    job'[i].rec = job'[j].rec
             PROVE  job'[i].rec.kind = "command"
  BY DEF UniqueKey
<1>1. ASSUME NEW k \in Jobs, HoldsKey(k)'
      PROVE  HoldsKey(k) /\ job'[k].rec = job[k].rec
  BY <1>1 DEF Flow, RowStep, NoInsert, HoldsKey
<1>2. HoldsKey(i) /\ HoldsKey(j) /\ job'[i].rec = job[i].rec /\ job'[j].rec = job[j].rec
  BY <1>1
<1> QED
  BY <1>2 DEF UniqueKey

\* What the records of batches rest on is kept by every step.
LEMMA RecordedStep ==
    ASSUME QueueInv, Flow, BatchFlow
    PROVE  Recorded'
<1> SUFFICES ASSUME NEW b \in Batches
             PROVE  /\ \A j \in batch'[b].jobs : j \in Jobs /\ job'[j].st # "none"
                    /\ \A r \in batch'[b].recs : \E j \in batch'[b].jobs : job'[j].rec = r
  BY DEF Recorded
<1>1. CASE Frame(b)
  BY <1>1 DEF Frame, Flow, RowStep, QueueInv, Recorded
<1>2. CASE Starts(b)
  <2>1. \A j \in batch'[b].jobs : j \in Jobs /\ job[j].st = "queued"
    BY <1>2 DEF Starts, Queued
  <2> QED
    BY <1>2, <2>1 DEF Starts, Flow, RowStep
<1> QED
  BY <1>1, <1>2 DEF BatchFlow, GoesOn, Ends

\* Owners and their shape after a step.
Quarters == /\ DOMAIN owner' = Batches /\ DOMAIN tree' = Batches
            /\ Owners' /\ Claims' /\ UniqueKey' /\ cleared \subseteq cleared'

\* The parts of the invariant that only Flow and BatchFlow decide.
LEMMA Assemble ==
    ASSUME QueueInv, Flow, BatchFlow, Quarters, Backed', Kept'
    PROVE  QueueStep
<1>1. Recorded'
  BY RecordedStep
<1>2. Shape'
  BY DEF Shape, Flow, RowStep, BatchFlow, GoesOn, Ends, Starts, Frame, Quarters
<1> QED
  BY <1>1, <1>2 DEF QueueInv, QueueStep, Quarters

\* Steps that neither claim nor end a batch: they leave active jobs and jobs
\* of unknown completion alone.
Calm(j) == /\ RowStep(j)
           /\ job[j].st \in {"active", "completion_unknown"} \/ job'[j].st = "active"
                => job'[j] = job[j]

\* Such a step keeps the invariant.
LEMMA CalmStep ==
    ASSUME QueueInv, \A j \in Jobs : Calm(j), DOMAIN batch' = Batches,
           \A b \in Batches : GoesOn(b), Quarters,
           \A b \in Batches : Loose(b)' => Loose(b) \/ b \in Running
    PROVE  QueueStep
<1>1. Flow /\ BatchFlow
  BY DEF Flow, Calm, BatchFlow
<1>2. \A b \in Batches : b \in Running' <=> b \in Running
  BY DEF Running, GoesOn
<1>3. \A b \in Batches : batch'[b].jobs = batch[b].jobs
  BY DEF GoesOn, Frame
<1>4. \A b \in Batches : \A j \in batch[b].jobs : j \in Jobs
  BY DEF QueueInv, Recorded
<1>5. Running \subseteq Batches /\ Running' \subseteq Batches
  BY DEF Running
<1>6. \A j \in Jobs : job'[j].st = "active" \/ job[j].st \in {"active", "completion_unknown"} => job'[j] = job[j]
  BY DEF Calm
<1>7. Backed'
  BY <1>2, <1>3, <1>4, <1>5, <1>6 DEF QueueInv, Backed
<1>8. Kept'
  <2> SUFFICES ASSUME NEW b \in Batches \ cleared', Loose(b)', NEW j \in batch'[b].jobs
               PROVE  job'[j].bat = b /\ job'[j].st \in {"active", "completion_unknown"}
    BY DEF Kept
  <2>1. j \in Jobs /\ j \in batch[b].jobs /\ b \notin cleared
    BY <1>3, <1>4 DEF Quarters
  <2>2. job[j].bat = b /\ job[j].st \in {"active", "completion_unknown"}
    BY <2>1 DEF QueueInv, Kept, Backed
  <2> QED
    BY <1>6, <2>1, <2>2
<1> QED
  BY <1>1, <1>7, <1>8, Assemble

\* Steps that end one batch: its members leave it, and a command that may
\* still run keeps them as jobs of unknown completion.
LEMMA EndStep ==
    ASSUME QueueInv, NEW b \in Running, Flow, DOMAIN batch' = Batches,
           \A c \in Batches : c # b => GoesOn(c), Ends(b), Quarters,
           \A j \in Jobs : j \notin Members(b) => job'[j] = job[j],
           \A j \in Members(b) : /\ job'[j].st # "active"
                                 /\ Loose(b) => job'[j].st = "completion_unknown" /\ job'[j].bat = b,
           \A c \in Batches : Loose(c)' => Loose(c)
    PROVE  QueueStep
<1>1. BatchFlow
  BY DEF BatchFlow
<1>2. Running' = Running \ {b} /\ Running \subseteq Batches
  BY DEF Running, GoesOn, Ends
<1>3. \A c \in Batches : batch'[c].jobs = batch[c].jobs
  BY DEF GoesOn, Ends, Frame
<1>4. \A c \in Batches : \A j \in batch[c].jobs : j \in Jobs
  BY DEF QueueInv, Recorded
<1>5. \A j \in Jobs : j \in Members(b) <=> job[j].st = "active" /\ job[j].bat = b
  BY DEF Members, Active
<1>6. Backed'
  BY <1>2, <1>3, <1>4, <1>5 DEF QueueInv, Backed
<1>7. Kept'
  <2> SUFFICES ASSUME NEW c \in Batches \ cleared', Loose(c)', NEW j \in batch'[c].jobs
               PROVE  job'[j].bat = c /\ job'[j].st \in {"active", "completion_unknown"}
    BY DEF Kept
  <2>1. j \in Jobs /\ j \in batch[c].jobs /\ c \notin cleared /\ Loose(c)
    BY <1>3, <1>4 DEF Quarters
  <2>2. job[j].bat = c /\ job[j].st \in {"active", "completion_unknown"}
    BY <2>1 DEF QueueInv, Kept
  <2> QED
    BY <1>5, <2>1, <2>2
<1> QED
  BY <1>1, <1>6, <1>7, Assemble

\* claim_many.
LEMMA ClaimFacts ==
    ASSUME Shape, NEW b \in Batches, NEW S, NEW d, NEW by, NEW est, ClaimMany(b, S, d, by, est)
    PROVE  /\ DOMAIN batch' = Batches /\ Starts(b) /\ \A c \in Batches : c # b => batch'[c] = batch[c]
           /\ batch'[b].jobs = S /\ batch'[b].by = by /\ S \subseteq Queued
           /\ Flow /\ NoInsert
           /\ \A j \in Jobs : /\ j \notin S => job'[j] = job[j]
                              /\ j \in S => job'[j].st = "active" /\ job'[j].bat = b
<1> DEFINE n == [st |-> "leased", dev |-> d, pool |-> Pooled(S), live |-> TRUE,
                 by |-> by, est |-> est, jobs |-> S, recs |-> {job[j].rec : j \in S}]
<1>1. /\ S # {} /\ S \subseteq Queued /\ batch[b].st = "none"
      /\ batch' = [batch EXCEPT ![b] = n]
      /\ job' = [j \in Jobs |-> IF j \in S THEN [job[j] EXCEPT !.st = "active", !.bat = b,
                                                               !.att = @ + 1]
                                ELSE job[j]]
  BY DEF ClaimMany, Takes
<1>2. DOMAIN n = BatchFields /\ n.st = "leased" /\ n.jobs = S /\ n.by = by /\ n.recs = {job[j].rec : j \in S}
  BY DEF BatchFields
<1> HIDE DEF n
<1>3. DOMAIN batch' = Batches /\ batch'[b] = n /\ \A c \in Batches : c # b => batch'[c] = batch[c]
  BY <1>1 DEF Shape
<1>4. Starts(b)
  BY <1>1, <1>2, <1>3 DEF Starts
<1>5. ASSUME NEW j \in Jobs, j \notin S
      PROVE  job'[j] = job[j] /\ RowStep(j) /\ (job[j].st = "none" => job'[j].st = "none")
  BY <1>1, <1>5, SameRow
<1>6. ASSUME NEW j \in Jobs, j \in S
      PROVE  /\ job'[j].st = "active" /\ job'[j].bat = b /\ RowStep(j) /\ job[j].st # "none"
  <2>1. job[j].st = "queued" /\ DOMAIN job[j] = Fields
    BY <1>1, <1>6 DEF Queued, Shape
  <2>2. job'[j] = [job[j] EXCEPT !.st = "active", !.bat = b, !.att = @ + 1]
    BY <1>1, <1>6
  <2>3. DOMAIN job'[j] = Fields /\ job'[j].st = "active" /\ job'[j].bat = b /\ job'[j].rec = job[j].rec
    BY <2>1, <2>2 DEF Fields
  <2> QED
    BY <2>1, <2>3 DEF RowStep, HoldsKey, JobStates, Final
<1>7. Flow /\ NoInsert
  BY <1>5, <1>6 DEF Flow, NoInsert
<1> QED
  BY <1>1, <1>2, <1>3, <1>4, <1>5, <1>6, <1>7

\* A claim keeps the invariant: queued jobs belong to no batch that runs.
LEMMA ClaimStep ==
    ASSUME QueueInv, NEW b \in Batches, NEW S, NEW d, NEW by, NEW est,
           ClaimMany(b, S, d, by, est),
           DOMAIN owner' = Batches, UNCHANGED <<tree, cleared>>, Claims',
           \A c \in Batches : c # b => owner'[c] = owner[c], owner'[b] \in {"none", "begin"}
    PROVE  QueueStep
<1>0. Shape
  BY DEF QueueInv
<1>1. /\ DOMAIN batch' = Batches /\ Starts(b) /\ \A c \in Batches : c # b => batch'[c] = batch[c]
      /\ batch'[b].jobs = S /\ S \subseteq Queued
      /\ Flow /\ NoInsert
      /\ \A j \in Jobs : /\ j \notin S => job'[j] = job[j]
                         /\ j \in S => job'[j].st = "active" /\ job'[j].bat = b
  BY <1>0, ClaimFacts
<1>2. \A c \in Batches : c # b => GoesOn(c)
  BY <1>0, <1>1 DEF GoesOn, Frame, Shape
<1>3. BatchFlow
  BY <1>1, <1>2 DEF BatchFlow
<1>4. UniqueKey'
  BY <1>1, KeyStep DEF QueueInv
<1>5. tree[b] = "none" /\ batch[b].st = "none" /\ batch'[b].st = "leased" /\ batch'[b].jobs # {}
  BY <1>1 DEF QueueInv, Owners, Starts
<1>6. Owners'
  BY <1>1, <1>5 DEF QueueInv, Owners
<1>7. Quarters
  BY <1>4, <1>6 DEF Quarters, QueueInv, Shape
<1>8. Running' = Running \cup {b} /\ b \notin Running /\ Running \subseteq Batches
  BY <1>1, <1>5 DEF Running
<1>9. \A c \in Batches : \A j \in batch[c].jobs : j \in Jobs
  BY DEF QueueInv, Recorded
<1>10. S \subseteq Jobs /\ \A j \in S : job[j].st = "queued"
  BY <1>1 DEF Queued
<1>11. Backed'
  BY <1>1, <1>5, <1>8, <1>9, <1>10 DEF QueueInv, Backed
<1>12. Kept'
  <2> SUFFICES ASSUME NEW c \in Batches \ cleared', Loose(c)', NEW j \in batch'[c].jobs
               PROVE  job'[j].bat = c /\ job'[j].st \in {"active", "completion_unknown"}
    BY DEF Kept
  <2>1. c # b /\ Loose(c) /\ batch'[c] = batch[c] /\ c \notin cleared
    BY <1>1, <1>5 DEF Loose
  <2>2. j \in Jobs /\ job[j].bat = c /\ job[j].st \in {"active", "completion_unknown"}
    BY <1>9, <2>1 DEF QueueInv, Kept
  <2> QED
    BY <1>1, <1>10, <2>2
<1> QED
  BY <1>1, <1>3, <1>7, <1>11, <1>12, Assemble

\* A step that leaves the tick, or at least its claims, alone.
TickKeeps == /\ DOMAIN tick' = TickFields /\ tick'.claimed = tick.claimed
             /\ tick'.pc \in Starting => tick.pc \in Starting

\* An unchanged tick keeps its claims.
LEMMA TickSame ==
    ASSUME QueueInv, UNCHANGED tick
    PROVE  TickKeeps
BY DEF QueueInv, Claims, TickKeeps

\* The tick's claims after it.
LEMMA ClaimsKept ==
    ASSUME QueueInv, TickKeeps, BatchFlow,
           \A b \in Batches : owner[b] = "none" /\ batch[b].st # "none" => owner'[b] = "none"
    PROVE  Claims'
<1>1. ASSUME NEW b \in tick.claimed
      PROVE  b \in Batches /\ batch'[b].st # "none" /\ (tick.pc \in Starting => owner'[b] = "none")
  BY DEF QueueInv, Claims, BatchFlow, GoesOn, Ends, Starts
<1> QED
  BY <1>1 DEF QueueInv, Claims, TickKeeps

\* A step that leaves the queue and the owners alone.
LEMMA SameQueue ==
    ASSUME QueueInv, UNCHANGED <<job, batch, owner, tree, cleared>>, Claims'
    PROVE  QueueStep
<1>1. \A j \in Jobs : Calm(j)
  BY SameRow DEF Calm, QueueInv
<1>2. \A b \in Batches : GoesOn(b)
  BY DEF GoesOn, Frame, QueueInv, Shape
<1>3. Quarters
  BY DEF Quarters, QueueInv, Shape, Owners, UniqueKey, HoldsKey
<1>4. \A b \in Batches : Loose(b)' => Loose(b)
  BY DEF Loose
<1>5. DOMAIN batch' = Batches
  BY DEF QueueInv, Shape
<1> QED
  BY <1>1, <1>2, <1>3, <1>4, <1>5, CalmStep

\* A step that changes rows only, and no active one.
LEMMA RowsOnly ==
    ASSUME QueueInv, UNCHANGED <<batch, owner, tree, cleared>>, Claims', UniqueKey',
           \A j \in Jobs : Calm(j)
    PROVE  QueueStep
<1>1. \A b \in Batches : GoesOn(b)
  BY DEF GoesOn, Frame, QueueInv, Shape
<1>2. Quarters
  BY DEF Quarters, QueueInv, Shape, Owners
<1>3. \A b \in Batches : Loose(b)' => Loose(b)
  BY DEF Loose
<1>4. DOMAIN batch' = Batches
  BY DEF QueueInv, Shape
<1> QED
  BY <1>1, <1>2, <1>3, <1>4, CalmStep

\* Rows that are queued, or final and forgotten, change their state.
LEMMA BecomeStep ==
    ASSUME QueueInv, UNCHANGED <<batch, owner, tree, cleared>>, Claims',
           NEW S, NEW s \in Final \cup {"gone"}, JobsBecome(S, s),
           \A j \in S \cap Jobs : job[j].st = "queued" \/ (s = "gone" /\ job[j].st \in Final)
    PROVE  QueueStep
<1>0. Shape /\ s \in JobStates \ {"none", "queued", "active"}
  BY DEF QueueInv, JobStates, Final
<1>1. ASSUME NEW j \in Jobs
      PROVE  /\ RowStep(j) /\ (job[j].st = "none" => job'[j].st = "none")
             /\ j \notin S => job'[j] = job[j]
             /\ j \in S => job'[j].st = s /\ job'[j].bat = job[j].bat
  <2>1. j \in S => job[j].st # "none"
    BY DEF Final
  <2>2. j \in S => s = "gone" \/ job[j].st \in {"queued", "active", "completion_unknown"}
    OBVIOUS
  <2> QED
    BY <1>0, <2>1, <2>2, Become
<1>2. Flow /\ NoInsert
  BY <1>1 DEF Flow, NoInsert
<1>3. UniqueKey'
  BY <1>2, KeyStep DEF QueueInv
<1>4. \A j \in Jobs : Calm(j)
  BY <1>1 DEF Calm, Final
<1> QED
  BY <1>3, <1>4, RowsOnly

\* An empty or revoked claim.
LEMMA ClaimLostStep ==
    ASSUME QueueInv, UNCHANGED <<owner, tree, cleared>>, Claims', NEW S, NEW d, ClaimLost(S, d)
    PROVE  QueueStep
<1>1. UNCHANGED batch
  BY DEF ClaimLost
<1>2. CASE Takes(S, d)
  <2>1. JobsBecome(Revoked(S), "needs_review")
    BY <1>2 DEF ClaimLost
  <2>2. \A j \in Revoked(S) \cap Jobs : job[j].st = "queued"
    BY <1>2 DEF Takes, Revoked, Queued
  <2>3. "needs_review" \in Final \cup {"gone"}
    BY DEF Final
  <2> QED
    BY <1>1, <2>1, <2>2, <2>3, BecomeStep
<1>3. CASE ~Takes(S, d)
  <2>1. UNCHANGED job
    BY <1>3 DEF ClaimLost
  <2> QED
    BY <1>1, <2>1, SameQueue
<1> QED
  BY <1>2, <1>3

\* The places a submission gives to its new items are free rows, one each.
LEMMA NewPlaces ==
    ASSUME NEW body, Roomy(body)
    PROVE  \A w \in News(body) : /\ JobOf(body)[w] \in Fresh
                                 /\ \A v \in News(body) : JobOf(body)[v] = JobOf(body)[w] => v = w
<1> DEFINE new == CHOOSE f \in Places(body) : TRUE
<1>1. new \in Places(body)
  BY DEF Roomy
<1>2. \A w \in News(body) : JobOf(body)[w] = new[w]
  BY DEF JobOf, News
<1>3. new \in [News(body) -> Fresh] /\ \A v, w \in News(body) : new[v] = new[w] => v = w
  BY <1>1 DEF Places
<1> QED
  BY <1>2, <1>3

\* Inserting rows: no new one has the key of a live job.
LEMMA InsertFacts ==
    ASSUME Shape, UniqueKey, NEW body, Roomy(body), Insert(body)
    PROVE  UniqueKey' /\ \A j \in Jobs : Calm(j)
<1> DEFINE made(j) == \E w \in News(body) : JobOf(body)[w] = j
           item(j) == CHOOSE w \in News(body) : JobOf(body)[w] = j
<1>1. ASSUME NEW j \in Jobs, ~made(j) PROVE job'[j] = job[j]
  BY <1>1 DEF Insert
<1>2. ASSUME NEW j \in Jobs, made(j)
      PROVE  /\ item(j) \in News(body) /\ JobOf(body)[item(j)] = j /\ job[j].st = "none"
             /\ DOMAIN job'[j] = Fields /\ job'[j].st = "queued" /\ job'[j].rec = Record(body, item(j))
  <2>1. item(j) \in News(body) /\ JobOf(body)[item(j)] = j
    BY <1>2
  <2>2. job[j].st = "none"
    BY <2>1, NewPlaces DEF Fresh
  <2>3. job'[j] = [NoJob EXCEPT !.st = "queued", !.pin = body.pin, !.rec = Record(body, item(j))]
    BY <1>2 DEF Insert
  <2> HIDE DEF item
  <2>4. DOMAIN job'[j] = Fields /\ job'[j].st = "queued" /\ job'[j].rec = Record(body, item(j))
    BY <2>3 DEF NoJob, Fields
  <2> QED
    BY <2>1, <2>2, <2>4
<1> HIDE DEF made, item
<1>3. ASSUME NEW j \in Jobs PROVE Calm(j)
  <2>1. CASE made(j)
    BY <1>2, <2>1 DEF Calm, RowStep, HoldsKey, JobStates, Final
  <2>2. CASE ~made(j)
    BY <1>1, <2>2, SameRow DEF Calm
  <2> QED
    BY <2>1, <2>2
<1>4. UniqueKey'
  <2> SUFFICES ASSUME NEW i \in Jobs, NEW j \in Jobs, i # j, HoldsKey(i)', HoldsKey(j)',
                      job'[i].rec = job'[j].rec
               PROVE  job'[i].rec.kind = "command"
    BY DEF UniqueKey
  <2>1. ASSUME NEW k \in Jobs, NEW l \in Jobs, made(k), ~made(l), HoldsKey(l)',
               job'[k].rec = job'[l].rec
        PROVE  job'[k].rec.kind = "command"
    <3>1. job'[l] = job[l] /\ HoldsKey(l)
      BY <1>1, <2>1 DEF HoldsKey
    <3>2. item(k) \in News(body) /\ job'[k].rec = Record(body, item(k))
      BY <1>2, <2>1
    <3>3. job[l].rec = Record(body, item(k))
      BY <2>1, <3>1, <3>2
    <3>4. Converges(body, item(k)) = {}
      BY <3>2 DEF News
    <3>5. body.kind = "command"
      BY <3>1, <3>3, <3>4 DEF Converges
    <3>6. Record(body, item(k)).kind = body.kind
      BY DEF Record
    <3> QED
      BY <3>2, <3>5, <3>6
  <2>2. CASE made(i) /\ made(j)
    <3>1. Record(body, item(i)) = Record(body, item(j))
      BY <1>2, <2>2
    <3>2. item(i) = item(j)
      <4>1. Record(body, item(i)).w = item(i) /\ Record(body, item(j)).w = item(j)
        BY DEF Record
      <4> QED
        BY <3>1, <4>1
    <3> QED
      BY <1>2, <2>2, <3>2
  <2>3. CASE made(i) /\ ~made(j)
    BY <2>1, <2>3
  <2>4. CASE ~made(i) /\ made(j)
    BY <2>1, <2>4
  <2>5. CASE ~made(i) /\ ~made(j)
    BY <1>1, <2>5 DEF UniqueKey, HoldsKey
  <2> QED
    BY <2>2, <2>3, <2>4, <2>5
<1> QED
  BY <1>3, <1>4

\* Storing a submission keeps the invariant.
LEMMA InsertStep ==
    ASSUME QueueInv, UNCHANGED <<batch, owner, tree, cleared>>, Claims', NEW k, Store(k)
    PROVE  QueueStep
<1>1. UniqueKey' /\ \A j \in Jobs : Calm(j)
  BY InsertFacts DEF Store, QueueInv
<1> QED
  BY <1>1, RowsOnly

\* clear forgets every unfinished row; a batch whose command may run loses its
\* jobs only by being counted as cleared.
LEMMA ClearStep ==
    ASSUME QueueInv, NEW all \in BOOLEAN, Clear(all), UNCHANGED <<owner, tree, tick>>
    PROVE  QueueStep
<1> DEFINE S == IF all THEN Rows ELSE {j \in Rows : job[j].st \notin Final}
<1>0. Shape /\ JobsBecome(S, "gone") /\ "gone" \in JobStates \ {"none", "queued", "active"}
  BY DEF QueueInv, Clear, JobStates, Final
<1>1. \A j \in Jobs : /\ j \in S => job[j].st # "none"
                      /\ job[j].st \notin Final \cup {"none", "gone"} => j \in S
  BY DEF Rows
<1> HIDE DEF S
<1>2. ASSUME NEW j \in Jobs
      PROVE  /\ RowStep(j) /\ (job[j].st = "none" => job'[j].st = "none")
             /\ j \notin S => job'[j] = job[j]
             /\ j \in S => job'[j].st = "gone"
  BY <1>0, <1>1, Become
<1>3. Flow /\ NoInsert
  BY <1>2 DEF Flow, NoInsert
<1>4. /\ DOMAIN batch' = Batches
      /\ \A b \in Batches : batch'[b] = IF b \in Running THEN [batch[b] EXCEPT !.st = "gone"] ELSE batch[b]
  BY DEF Clear
<1>5. ASSUME NEW b \in Batches
      PROVE  IF b \in Running THEN Ends(b) /\ batch'[b].st = "gone" ELSE GoesOn(b) /\ batch'[b] = batch[b]
  <2>1. DOMAIN batch[b] = BatchFields
    BY <1>0 DEF Shape
  <2>2. CASE b \in Running
    BY <1>4, <2>1, <2>2 DEF Ends, Frame, BatchFields, Running
  <2>3. CASE b \notin Running
    BY <1>4, <2>1, <2>3 DEF GoesOn, Frame
  <2> QED
    BY <2>2, <2>3
<1>6. BatchFlow
  BY <1>4, <1>5 DEF BatchFlow
<1>7. Claims'
  BY <1>6, TickSame, ClaimsKept
<1>8. UniqueKey'
  BY <1>3, KeyStep DEF QueueInv
<1>9. Owners'
  BY <1>5 DEF QueueInv, Owners
<1>10. cleared' = cleared \cup Running \cup Unresolved
  BY DEF Clear
<1>11. Quarters
  BY <1>7, <1>8, <1>9, <1>10 DEF Quarters, QueueInv, Shape
<1>12. Running' = {}
  BY <1>5 DEF Running
<1>13. \A j \in Jobs : job'[j].st # "active"
  BY <1>1, <1>2 DEF Final
<1>14. Backed'
  BY <1>12, <1>13 DEF Backed
<1>15. Kept'
  <2> SUFFICES ASSUME NEW b \in Batches \ cleared', Loose(b)', NEW j \in batch'[b].jobs
               PROVE  FALSE
    BY DEF Kept
  <2>1. b \notin cleared /\ b \notin Running /\ b \notin Unresolved /\ Loose(b)
    BY <1>10 DEF Loose
  <2>2. j \in batch[b].jobs
    BY <1>5, <2>1
  <2>3. j \in Jobs /\ job[j].bat = b /\ job[j].st \in {"active", "completion_unknown"}
    BY <2>1, <2>2 DEF QueueInv, Kept, Recorded
  <2> QED
    BY <2>1, <2>3 DEF Unresolved, Rows, Final
<1> QED
  BY <1>3, <1>6, <1>11, <1>14, <1>15, Assemble

-----------------------------------------------------------------------------
(* The owners. *)

\* An owner thread moves on; its batch and its jobs stay.
LEMMA OwnerMoves ==
    ASSUME QueueInv, NEW b \in Batches, NEW pc, Go(b, pc),
           UNCHANGED <<job, batch, tree, cleared, tick>>,
           owner[b] # "none", pc = "gone" \/ (pc = "gate" /\ owner[b] = "begin")
    PROVE  QueueStep
<1>1. DOMAIN owner' = Batches /\ \A c \in Batches : owner'[c] = IF c = b THEN pc ELSE owner[c]
  BY DEF Go, QueueInv, Shape
<1>2. \A j \in Jobs : Calm(j)
  BY SameRow DEF Calm, QueueInv
<1>3. DOMAIN batch' = Batches /\ \A c \in Batches : GoesOn(c)
  BY DEF GoesOn, Frame, QueueInv, Shape
<1>4. BatchFlow
  BY <1>3 DEF BatchFlow
<1>5. Claims'
  BY <1>1, <1>4, TickSame, ClaimsKept
<1>6. Owners'
  BY <1>1 DEF QueueInv, Owners
<1>7. UniqueKey'
  BY DEF QueueInv, UniqueKey, HoldsKey
<1>8. Quarters
  BY <1>1, <1>5, <1>6, <1>7 DEF Quarters, QueueInv, Shape
<1>9. \A c \in Batches : Loose(c)' => Loose(c)
  BY <1>1 DEF Loose
<1> QED
  BY <1>2, <1>3, <1>8, <1>9, CalmStep

\* A batch is closed by its owner or by recover_stale.
LEMMA CloseStep ==
    ASSUME QueueInv, NEW b \in Running, NEW s \in {"failed", "done"}, Close(b, s), Flow, NoInsert,
           owner' = owner \/ Go(b, "gone"), owner[b] # "none" \/ owner' = owner,
           UNCHANGED <<tree, cleared>>, TickKeeps,
           \A j \in Jobs : j \notin Members(b) => job'[j] = job[j],
           \A j \in Members(b) : /\ job'[j].st # "active"
                                 /\ Loose(b) => job'[j].st = "completion_unknown" /\ job'[j].bat = b
    PROVE  QueueStep
<1>0. Shape /\ b \in Batches
  BY DEF QueueInv, Running
<1>1. /\ DOMAIN batch' = Batches
      /\ \A c \in Batches : Frame(c) /\ batch'[c].st = IF c = b THEN s ELSE batch[c].st
  BY <1>0, CloseFacts
<1>2. Ends(b) /\ \A c \in Batches : c # b => GoesOn(c)
  BY <1>0, <1>1 DEF Ends, GoesOn, Running
<1>3. BatchFlow
  BY <1>1, <1>2 DEF BatchFlow
<1>4. /\ DOMAIN owner' = Batches
      /\ \A c \in Batches : owner'[c] = owner[c] \/ (c = b /\ owner[b] # "none" /\ owner'[c] = "gone")
  BY <1>0 DEF Go, Shape
<1>5. Claims'
  BY <1>3, <1>4, ClaimsKept
<1>6. UniqueKey'
  BY KeyStep DEF QueueInv
<1>7. Owners'
  <2> SUFFICES ASSUME NEW c \in Batches
               PROVE  /\ batch'[c].st = "none" => owner'[c] = "none" /\ batch'[c].jobs = {} /\ batch'[c].recs = {}
                      /\ owner'[c] \in {"none", "begin", "gate", "launch"} => tree'[c] = "none"
                      /\ batch'[c].st = "leased" => owner'[c] \notin {"launch", "ran"} /\ tree'[c] = "none"
    BY DEF Owners
  <2>1. CASE c = b
    BY <1>1, <1>4, <2>1 DEF QueueInv, Owners
  <2>2. CASE c # b
    BY <1>1, <1>4, <2>2 DEF QueueInv, Owners, Frame
  <2> QED
    BY <2>1, <2>2
<1>8. Quarters
  BY <1>0, <1>4, <1>5, <1>6, <1>7 DEF Quarters, Shape
<1>9. \A c \in Batches : Loose(c)' => Loose(c)
  BY <1>4 DEF Loose
<1> QED
  BY <1>1, <1>2, <1>8, <1>9, EndStep

\* A batch whose launch is not yet authorized has no command.
LEMMA LeasedNotLoose ==
    ASSUME QueueInv, NEW b \in Batches, batch[b].st = "leased"
    PROVE  ~Loose(b)
BY DEF QueueInv, Owners, Loose

\* revoke_prelaunch_batch sends the jobs of a batch to review before its launch.
LEMMA RevokeStep ==
    ASSUME QueueInv, NEW b \in Batches, Revoke(b), owner[b] # "none",
           UNCHANGED <<tree, cleared, tick>>
    PROVE  QueueStep
<1>1. CASE Owned(b, "leased")
  <2>1. Close(b, "failed") /\ JobsBecome(Members(b), "needs_review") /\ Go(b, "gone")
    BY <1>1 DEF Revoke
  <2>2. b \in Running /\ ~Loose(b)
    BY <1>1, LeasedNotLoose DEF Owned, Running
  <2>3. Shape /\ "needs_review" \in JobStates \ {"none", "queued", "active"}
    BY DEF QueueInv, JobStates, Final
  <2>4. \A j \in Members(b) : j \in Jobs /\ job[j].st = "active"
    BY DEF Members, Active
  <2>5. ASSUME NEW j \in Jobs
        PROVE  /\ RowStep(j) /\ (job[j].st = "none" => job'[j].st = "none")
               /\ j \notin Members(b) => job'[j] = job[j]
               /\ j \in Members(b) => job'[j].st = "needs_review"
    BY <2>1, <2>3, <2>4, Become
  <2>6. Flow /\ NoInsert
    BY <2>5 DEF Flow, NoInsert
  <2>7. \A j \in Members(b) : job'[j].st # "active"
    BY <2>4, <2>5
  <2> QED
    BY <2>1, <2>2, <2>5, <2>6, <2>7, TickSame, CloseStep
<1>2. CASE ~Owned(b, "leased")
  <2>1. UNCHANGED <<job, batch>> /\ Go(b, "gone")
    BY <1>2 DEF Revoke
  <2> QED
    BY <2>1, OwnerMoves
<1> QED
  BY <1>1, <1>2

\* A batch is settled: its command has ended or has never started.
LEMMA SettleStep ==
    ASSUME QueueInv, NEW b \in Running, NEW s \in {"failed", "done"}, Close(b, s), ~Loose(b),
           NEW verdict, NEW cap, NEW clear, Settle(b, verdict, cap, clear),
           owner' = owner \/ Go(b, "gone"), owner[b] # "none" \/ owner' = owner,
           UNCHANGED <<tree, cleared>>, TickKeeps
    PROVE  QueueStep
<1>1. ASSUME NEW j \in Jobs
      PROVE  /\ RowStep(j) /\ (job[j].st = "none" => job'[j].st = "none")
             /\ j \notin Members(b) => job'[j] = job[j]
             /\ j \in Members(b) => job'[j].st # "active"
  BY SettleFacts DEF QueueInv
<1>2. Flow /\ NoInsert
  BY <1>1 DEF Flow, NoInsert
<1>3. \A j \in Members(b) : j \in Jobs
  BY DEF Members, Active
<1> QED
  BY <1>1, <1>2, <1>3, CloseStep

\* A batch is given up: its jobs' completion is unknown.
LEMMA UnknownStep ==
    ASSUME QueueInv, NEW b \in Running, Close(b, "failed"),
           JobsBecome(Members(b), "completion_unknown"),
           owner' = owner \/ Go(b, "gone"), owner[b] # "none" \/ owner' = owner,
           UNCHANGED <<tree, cleared>>, TickKeeps
    PROVE  QueueStep
<1>1. Shape /\ "completion_unknown" \in JobStates \ {"none", "queued", "active"}
  BY DEF QueueInv, JobStates, Final
<1>2. \A j \in Members(b) : j \in Jobs /\ job[j].st = "active" /\ job[j].bat = b
  BY DEF Members, Active
<1>3. ASSUME NEW j \in Jobs
      PROVE  /\ RowStep(j) /\ (job[j].st = "none" => job'[j].st = "none")
             /\ j \notin Members(b) => job'[j] = job[j]
             /\ j \in Members(b) => job'[j].st = "completion_unknown" /\ job'[j].bat = job[j].bat
  BY <1>1, <1>2, Become
<1>4. Flow /\ NoInsert
  BY <1>3 DEF Flow, NoInsert
<1>5. \A j \in Members(b) : job'[j].st = "completion_unknown" /\ job'[j].bat = b
  BY <1>2, <1>3
<1> QED
  BY <1>3, <1>4, <1>5, CloseStep

\* Staging and the launch gate.
LEMMA OwnerGateStep ==
    ASSUME QueueInv, NEW b \in Batches, OwnerGate(b), UNCHANGED <<cleared, tick>>
    PROVE  QueueStep
<1>0. owner[b] = "gate" /\ UNCHANGED tree
  BY DEF OwnerGate
<1>1. CASE Lost(b)
  BY <1>0, <1>1, OwnerMoves DEF Lost
<1>2. CASE /\ Owned(b, "leased") /\ Close(b, "failed") /\ Go(b, "gone")
           /\ Settle(b, [j \in Members(b) |-> "retry"], Cap(b), Fallback(b))
  <2>1. b \in Running /\ ~Loose(b)
    BY <1>2, LeasedNotLoose DEF Owned, Running
  <2> QED
    BY <1>0, <1>2, <2>1, TickSame, SettleStep
<1>3. CASE Revoke(b)
  BY <1>0, <1>3, RevokeStep
<1>4. CASE Owned(b, "leased") /\ Close(b, "running") /\ Go(b, "launch") /\ UNCHANGED job
  <2>0. Shape
    BY DEF QueueInv
  <2>1. /\ DOMAIN batch' = Batches
        /\ \A c \in Batches : Frame(c) /\ batch'[c].st = IF c = b THEN "running" ELSE batch[c].st
    BY <1>4, <2>0, CloseFacts
  <2>2. batch[b].st = "leased" /\ b \in Running
    BY <1>4 DEF Owned, Running
  <2>3. \A c \in Batches : GoesOn(c)
    BY <2>1, <2>2 DEF GoesOn
  <2>4. BatchFlow
    BY <2>1, <2>3 DEF BatchFlow
  <2>5. DOMAIN owner' = Batches /\ \A c \in Batches : owner'[c] = IF c = b THEN "launch" ELSE owner[c]
    BY <1>4, <2>0 DEF Go, Shape
  <2>6. Claims'
    BY <1>0, <2>4, <2>5, TickSame, ClaimsKept
  <2>7. Owners'
    BY <1>0, <2>1, <2>2, <2>5 DEF QueueInv, Owners, Frame
  <2>8. UniqueKey'
    BY <1>4 DEF QueueInv, UniqueKey, HoldsKey
  <2>9. Quarters
    BY <1>0, <2>0, <2>5, <2>6, <2>7, <2>8 DEF Quarters, Shape
  <2>10. \A j \in Jobs : Calm(j)
    BY <1>4, <2>0, SameRow DEF Calm
  <2>11. \A c \in Batches : Loose(c)' => Loose(c) \/ c \in Running
    BY <1>0, <2>2, <2>5 DEF Loose
  <2> QED
    BY <2>1, <2>3, <2>9, <2>10, <2>11, CalmStep
<1> QED
  BY <1>1, <1>2, <1>3, <1>4 DEF OwnerGate

\* The command starts, or ends.
LEMMA TreeStep ==
    ASSUME QueueInv, NEW b \in Batches, OwnerLaunches(b) \/ TreeEnds(b),
           UNCHANGED <<cleared, tick>>
    PROVE  QueueStep
<1>0. Shape /\ UNCHANGED <<job, batch>>
  BY DEF QueueInv, OwnerLaunches, TreeEnds
<1>1. \A j \in Jobs : Calm(j)
  BY <1>0, SameRow DEF Calm
<1>2. DOMAIN batch' = Batches /\ \A c \in Batches : GoesOn(c)
  BY <1>0 DEF GoesOn, Frame, Shape
<1>3. BatchFlow
  BY <1>2 DEF BatchFlow
<1>4. UniqueKey'
  BY <1>0 DEF QueueInv, UniqueKey, HoldsKey
<1>5. CASE OwnerLaunches(b)
  <2>1. /\ owner[b] = "launch" /\ DOMAIN owner' = Batches /\ DOMAIN tree' = Batches
        /\ \A c \in Batches : /\ owner'[c] = IF c = b THEN "ran" ELSE owner[c]
                              /\ tree'[c] = IF c = b THEN "running" ELSE tree[c]
    BY <1>0, <1>5 DEF OwnerLaunches, Go, Shape
  <2>2. Claims'
    BY <1>3, <2>1, TickSame, ClaimsKept
  <2>3. Owners'
    BY <1>0, <2>1 DEF QueueInv, Owners
  <2>4. Quarters
    BY <1>4, <2>1, <2>2, <2>3 DEF Quarters
  <2>5. \A c \in Batches : Loose(c)' => Loose(c)
    BY <2>1 DEF Loose
  <2> QED
    BY <1>1, <1>2, <2>4, <2>5, CalmStep
<1>6. CASE TreeEnds(b)
  <2>1. /\ tree[b] = "running" /\ owner' = owner /\ DOMAIN tree' = Batches
        /\ \A c \in Batches : tree'[c] = IF c = b THEN "ended" ELSE tree[c]
    BY <1>0, <1>6 DEF TreeEnds, Shape
  <2>2. Claims'
    BY <1>3, <2>1, TickSame, ClaimsKept
  <2>3. Owners'
    BY <1>0, <2>1 DEF QueueInv, Owners
  <2>4. Quarters
    BY <1>0, <1>4, <2>1, <2>2, <2>3 DEF Quarters, Shape
  <2>5. \A c \in Batches : Loose(c)' => Loose(c)
    BY <2>1 DEF Loose
  <2> QED
    BY <1>1, <1>2, <2>4, <2>5, CalmStep
<1> QED
  BY <1>5, <1>6

\* The owner records the result, or loses track of the command.
LEMMA OwnerEndStep ==
    ASSUME QueueInv, NEW b \in Batches, OwnerRecords(b) \/ OwnerLosesTrack(b),
           UNCHANGED <<cleared, tick>>
    PROVE  QueueStep
<1>0. UNCHANGED tree /\ owner[b] \in {"launch", "ran"}
  BY DEF OwnerRecords, OwnerLosesTrack
<1>1. CASE Lost(b)
  BY <1>0, <1>1, OwnerMoves DEF Lost
<1>2. CASE OwnerRecords(b) /\ ~Lost(b)
  <2> PICK verdict \in [Members(b) -> Verdicts] :
          /\ Close(b, IF \A j \in Members(b) : verdict[j] = "ok" THEN "done" ELSE "failed")
          /\ Settle(b, verdict, Cap(b), Fallback(b))
    BY <1>2 DEF OwnerRecords
  <2>1. Owned(b, "running") /\ Go(b, "gone") /\ owner[b] = "ran" /\ tree[b] = "ended"
    BY <1>2 DEF OwnerRecords
  <2>2. b \in Running /\ ~Loose(b)
    BY <2>1 DEF Owned, Running, Loose
  <2> QED
    BY <1>0, <2>1, <2>2, TickSame, SettleStep
<1>3. CASE OwnerLosesTrack(b) /\ ~Lost(b)
  <2>1. /\ Owned(b, "running") /\ Close(b, "failed") /\ Go(b, "gone")
        /\ JobsBecome(Members(b), "completion_unknown")
    BY <1>3 DEF OwnerLosesTrack
  <2>2. b \in Running
    BY <2>1 DEF Owned, Running
  <2> QED
    BY <1>0, <2>1, <2>2, TickSame, UnknownStep
<1> QED
  BY <1>1, <1>2, <1>3

\* Every step of an owner thread keeps the invariant.
LEMMA OwnerStep ==
    ASSUME QueueInv, NEW b \in Batches, Owner(b)
    PROVE  QueueStep
<1>0. UNCHANGED <<cleared, tick>>
  BY DEF Owner
<1>1. CASE OwnerBegins(b)
  <2>0. owner[b] = "begin" /\ UNCHANGED tree
    BY <1>1 DEF OwnerBegins
  <2>1. CASE Revoke(b)
    BY <1>0, <2>0, <2>1, RevokeStep
  <2>2. CASE Lost(b)
    BY <1>0, <2>0, <2>2, OwnerMoves DEF Lost
  <2>3. CASE Go(b, "gate") /\ UNCHANGED <<job, batch>>
    BY <1>0, <2>0, <2>3, OwnerMoves
  <2> QED
    BY <1>1, <2>1, <2>2, <2>3 DEF OwnerBegins
<1> QED
  BY <1>0, <1>1, OwnerGateStep, TreeStep, OwnerEndStep DEF Owner

-----------------------------------------------------------------------------
(* The drain, the ad hoc run and the operator. *)

\* The tick only moves on, before its threads start or after.
LEMMA TickMoves ==
    ASSUME QueueInv, DOMAIN tick' = TickFields, tick'.claimed = tick.claimed,
           tick'.pc \in Starting => tick.pc \in Starting,
           UNCHANGED <<job, batch, owner, tree, cleared>>
    PROVE  QueueStep
<1>1. Claims'
  BY DEF QueueInv, Claims
<1> QED
  BY <1>1, SameQueue

\* T(pc) changes the place only.
LEMMA TFacts ==
    ASSUME QueueInv, NEW pc, T(pc)
    PROVE  DOMAIN tick' = TickFields /\ tick'.claimed = tick.claimed /\ tick'.pc = pc
BY DEF T, QueueInv, Claims, TickFields

\* recover_stale expires a batch whose lease has lapsed, launched or not.
LEMMA RecoverStep ==
    ASSUME QueueInv, TickRecovers, UNCHANGED <<tree, cleared>>
    PROVE  QueueStep
<1> PICK b \in tick.stale : Expire(b) /\ tick' = [tick EXCEPT !.stale = @ \ {b}]
  BY DEF TickRecovers
<1>1. TickKeeps
  BY DEF TickKeeps, QueueInv, Claims, TickFields
<1>2. UNCHANGED owner
  BY DEF TickRecovers
<1>3. CASE b \notin Running \/ batch[b].live
  <2>1. UNCHANGED <<job, batch>>
    BY <1>3 DEF Expire
  <2> QED
    BY <1>1, <1>2, <2>1, TickMoves DEF TickKeeps
<1>4. CASE b \in Running /\ ~batch[b].live /\ batch[b].st = "leased"
  <2>1. Close(b, "failed") /\ Settle(b, [j \in Members(b) |-> "retry"], MaxAttempts, FALSE)
    BY <1>4 DEF Expire
  <2>2. ~Loose(b)
    BY <1>4, LeasedNotLoose DEF Running
  <2> QED
    BY <1>1, <1>2, <1>4, <2>1, <2>2, SettleStep
<1>5. CASE b \in Running /\ ~batch[b].live /\ batch[b].st # "leased"
  <2>1. Close(b, "failed") /\ JobsBecome(Members(b), "completion_unknown")
    BY <1>5 DEF Expire
  <2> QED
    BY <1>1, <1>2, <1>5, <2>1, UnknownStep
<1> QED
  BY <1>3, <1>4, <1>5

\* The groups that every candidate refused are closed.
LEMMA PlansStep ==
    ASSUME QueueInv, TickPlans, UNCHANGED <<tree, cleared>>
    PROVE  QueueStep
<1>1. UNCHANGED <<batch, owner>> /\ tick.pc = "plan"
  BY DEF TickPlans, At
<1>2. PICK S : JobsBecome(Queued \cap S, "failed_final")
  BY DEF TickPlans
<1>3. /\ DOMAIN tick' = TickFields /\ tick'.claimed = tick.claimed
  <2>1. T("raised") \/ \E x : tick' = [tick EXCEPT !.pc = "check", !.plan = x.plan]
    BY DEF TickPlans
  <2> QED
    BY <2>1 DEF T, QueueInv, Claims, TickFields
<1>4. Claims'
  BY <1>1, <1>3 DEF QueueInv, Claims, Starting
<1>5. "failed_final" \in Final \cup {"gone"}
  BY DEF Final
<1>6. \A j \in (Queued \cap S) \cap Jobs : job[j].st = "queued"
  BY DEF Queued
<1> QED
  BY <1>1, <1>2, <1>4, <1>5, <1>6, BecomeStep

\* A planned batch is claimed, or its claim is lost.
LEMMA ClaimsStep ==
    ASSUME QueueInv, TickClaims, UNCHANGED <<tree, cleared>>
    PROVE  QueueStep
<1> DEFINE p == Head(tick.plan)
           S == {j \in Listed : j \in p.jobs}
           b == CHOOSE x \in Unused : TRUE
<1>1. tick.pc = "claim" /\ UNCHANGED owner
  BY DEF TickClaims, At
<1>2. CASE ClaimLost(S, p.dev) /\ tick' = [tick EXCEPT !.pc = "check", !.plan = Tail(@)]
  <2>1. DOMAIN tick' = TickFields /\ tick'.claimed = tick.claimed
    BY <1>2 DEF QueueInv, Claims, TickFields
  <2>2. UNCHANGED batch
    BY <1>2 DEF ClaimLost
  <2>3. Claims'
    BY <1>1, <2>1, <2>2 DEF QueueInv, Claims, Starting
  <2> QED
    BY <1>1, <1>2, <2>3, ClaimLostStep
<1>3. CASE /\ Unused # {} /\ ClaimMany(b, S, p.dev, "drain", p.est)
           /\ tick' = [tick EXCEPT !.pc = "check", !.plan = Tail(@), !.claimed = @ \cup {b}]
  <2>1. b \in Batches /\ batch[b].st = "none"
    BY <1>3 DEF Unused
  <2>2. ClaimMany(b, S, p.dev, "drain", p.est)
    BY <1>3
  <2>3. DOMAIN tick' = TickFields /\ tick'.claimed = tick.claimed \cup {b}
    BY <1>3 DEF QueueInv, Claims, TickFields
  <2> HIDE DEF b, S, p
  <2>4. owner[b] = "none"
    BY <2>1 DEF QueueInv, Owners
  <2>5. Starts(b) /\ \A c \in Batches : c # b => batch'[c] = batch[c]
    BY <2>1, <2>2, ClaimFacts DEF QueueInv
  <2>6. Claims'
    BY <1>1, <2>1, <2>3, <2>4, <2>5 DEF QueueInv, Claims, Starting, Starts
  <2>7. DOMAIN owner' = Batches
    BY <1>1 DEF QueueInv, Shape
  <2> QED
    BY <1>1, <2>1, <2>2, <2>4, <2>6, <2>7, ClaimStep
<1> QED
  BY <1>2, <1>3 DEF TickClaims

\* The threads of the claimed batches start.
LEMMA StartsStep ==
    ASSUME QueueInv, TickStarts, UNCHANGED <<tree, cleared>>
    PROVE  QueueStep
<1>0. Shape /\ tick.pc = "start" /\ UNCHANGED <<job, batch>>
  BY DEF QueueInv, TickStarts, At
<1>1. /\ DOMAIN owner' = Batches
      /\ \A b \in Batches : owner'[b] = IF b \in tick.claimed THEN "begin" ELSE owner[b]
  BY DEF TickStarts
<1>2. DOMAIN tick' = TickFields /\ tick'.claimed = tick.claimed /\ tick'.pc = "wait"
  BY TFacts DEF TickStarts
<1>3. Claims'
  BY <1>0, <1>2 DEF QueueInv, Claims, Starting
<1>4. \A b \in tick.claimed : owner[b] = "none" /\ batch[b].st # "none"
  BY <1>0 DEF QueueInv, Claims, Starting
<1>5. Owners'
  BY <1>0, <1>1, <1>4 DEF QueueInv, Owners
<1>6. UniqueKey'
  BY <1>0 DEF QueueInv, UniqueKey, HoldsKey
<1>7. Quarters
  BY <1>0, <1>1, <1>3, <1>5, <1>6 DEF Quarters, Shape
<1>8. \A j \in Jobs : Calm(j)
  BY <1>0, SameRow DEF Calm
<1>9. DOMAIN batch' = Batches /\ \A c \in Batches : GoesOn(c)
  BY <1>0 DEF GoesOn, Frame, Shape
<1>10. \A c \in Batches : Loose(c)' => Loose(c)
  BY <1>1 DEF Loose
<1> QED
  BY <1>7, <1>8, <1>9, <1>10, CalmStep

\* prune_final forgets final rows.
LEMMA PrunesStep ==
    ASSUME QueueInv, TickPrunes, UNCHANGED <<tree, cleared>>
    PROVE  QueueStep
<1> DEFINE old == {j \in Jobs : job[j].st \in {"done", "failed_final"}}
<1>1. PICK V \in SUBSET old : JobsBecome(V, "gone")
  BY DEF TickPrunes
<1>2. T("done") /\ UNCHANGED <<batch, owner>>
  BY DEF TickPrunes
<1>3. Claims'
  BY <1>2, TFacts DEF QueueInv, Claims, Starting
<1>4. \A j \in V \cap Jobs : job[j].st \in Final
  BY DEF Final
<1> QED
  BY <1>1, <1>2, <1>3, <1>4, BecomeStep

\* Every step of the tick keeps it.
LEMMA TickStep ==
    ASSUME QueueInv, Tick
    PROVE  QueueStep
<1>0. UNCHANGED <<tree, cleared>>
  BY DEF Tick, Quiet
<1>1. CASE TickSees
  <2>1. DOMAIN tick' = TickFields /\ tick'.claimed = tick.claimed /\ tick.pc = "seen"
    BY <1>1 DEF TickSees, At, QueueInv, Claims, TickFields
  <2> QED
    BY <1>0, <1>1, <2>1, TickMoves DEF TickSees, Starting
<1>2. CASE TickLists
  <2>1. DOMAIN tick' = TickFields /\ tick'.claimed = tick.claimed /\ tick.pc = "expire"
    BY <1>2 DEF TickLists, At, QueueInv, Claims, TickFields
  <2> QED
    BY <1>0, <1>2, <2>1, TickMoves DEF TickLists, Starting
<1>3. CASE TickChecks
  <2>1. tick.pc = "check" /\ Still
    BY <1>3 DEF TickChecks, At
  <2>2. DOMAIN tick' = TickFields /\ tick'.claimed = tick.claimed
    BY <1>3 DEF TickChecks, T, QueueInv, Claims, TickFields
  <2> QED
    BY <1>0, <2>1, <2>2, TickMoves DEF Still, Starting
<1>4. CASE TickMayStart
  <2>1. tick.pc = "startcheck" /\ Still
    BY <1>4 DEF TickMayStart, At
  <2>2. DOMAIN tick' = TickFields /\ tick'.claimed = tick.claimed
    BY <1>4 DEF TickMayStart, T, QueueInv, Claims, TickFields
  <2> QED
    BY <1>0, <2>1, <2>2, TickMoves DEF Still, Starting
<1>5. CASE TickWaits
  <2>1. DOMAIN tick' = TickFields /\ tick'.claimed = tick.claimed /\ tick'.pc = "outcomes"
    BY <1>5, TFacts DEF TickWaits
  <2> QED
    BY <1>0, <1>5, <2>1, TickMoves DEF TickWaits, Still, Starting
<1>6. CASE TickRecords
  <2>1. T("done") \/ T("prune")
    BY <1>6 DEF TickRecords
  <2>2. DOMAIN tick' = TickFields /\ tick'.claimed = tick.claimed /\ tick'.pc \in {"done", "prune"}
    BY <2>1, TFacts
  <2> QED
    BY <1>0, <1>6, <2>2, TickMoves DEF TickRecords, Starting
<1> QED
  BY <1>0, <1>1, <1>2, <1>3, <1>4, <1>5, <1>6, RecoverStep, PlansStep, ClaimsStep, StartsStep,
     PrunesStep DEF Tick

\* Every step of an ad hoc run keeps it.
LEMMA AdHocStep ==
    ASSUME QueueInv, AdHoc
    PROVE  QueueStep
<1>0. UNCHANGED <<tree, cleared, tick>>
  BY DEF AdHoc
<1>1. CASE UNCHANGED <<job, batch, owner>>
  BY <1>0, <1>1, TickMoves DEF QueueInv, Claims
<1>2. ASSUME UNCHANGED <<batch, owner>> PROVE Claims'
  BY <1>0, <1>2 DEF QueueInv, Claims
<1>3. CASE AdHocEnqueues
  <2>1. UNCHANGED <<batch, owner>>
    BY <1>3 DEF AdHocEnqueues
  <2>2. Claims'
    BY <1>2, <2>1
  <2>3. UNCHANGED job \/ \E k : Store(k)
    BY <1>3 DEF AdHocEnqueues
  <2> QED
    BY <1>0, <1>1, <2>1, <2>2, <2>3, InsertStep
<1>4. CASE AdHocClaims
  <2>1. CASE ClaimLost(adhoc.jobs, adhoc.dev) /\ UNCHANGED owner
    <3>1. Claims'
      BY <1>2, <2>1 DEF ClaimLost
    <3> QED
      BY <1>0, <2>1, <3>1, ClaimLostStep
  <2>2. CASE \E b \in Unused : ClaimMany(b, adhoc.jobs, adhoc.dev, "adhoc", 0) /\ Go(b, "begin")
    <3> PICK b \in Unused : ClaimMany(b, adhoc.jobs, adhoc.dev, "adhoc", 0) /\ Go(b, "begin")
      BY <2>2
    <3>1. b \in Batches /\ batch[b].st = "none"
      BY DEF Unused
    <3>2. DOMAIN owner' = Batches /\ \A c \in Batches : owner'[c] = IF c = b THEN "begin" ELSE owner[c]
      BY DEF Go, QueueInv, Shape
    <3>3. Starts(b) /\ \A c \in Batches : c # b => batch'[c] = batch[c]
      BY <3>1, ClaimFacts DEF QueueInv
    <3>4. b \notin tick.claimed
      BY <3>1 DEF QueueInv, Claims
    <3>5. Claims'
      BY <1>0, <3>1, <3>2, <3>3, <3>4 DEF QueueInv, Claims
    <3> QED
      BY <1>0, <3>1, <3>2, <3>5, ClaimStep
  <2> QED
    BY <1>4, <2>1, <2>2 DEF AdHocClaims, Go
<1>5. CASE AdHocBusy
  <2>1. JobsBecome(Queued \cap adhoc.new, "failed_final") /\ UNCHANGED <<batch, owner>>
    BY <1>5 DEF AdHocBusy
  <2>2. \A j \in (Queued \cap adhoc.new) \cap Jobs : job[j].st = "queued"
    BY DEF Queued
  <2>3. "failed_final" \in Final \cup {"gone"}
    BY DEF Final
  <2> QED
    BY <1>0, <1>2, <2>1, <2>2, <2>3, BecomeStep
<1> QED
  BY <1>1, <1>3, <1>4, <1>5 DEF AdHoc, AdHocChooses

\* Every step of the operator, and of time, keeps it.
LEMMA OperatorStep ==
    ASSUME QueueInv, Operator
    PROVE  QueueStep
<1>0. UNCHANGED <<tree, owner, tick>>
  BY DEF Operator
<1>1. CASE \E b \in Batches : LeaseLapses(b)
  <2> PICK b \in Batches : LeaseLapses(b)
    BY <1>1
  <2>0. Shape /\ UNCHANGED <<job, cleared>> /\ batch' = [batch EXCEPT ![b].live = FALSE]
    BY DEF QueueInv, LeaseLapses
  <2>1. DOMAIN batch' = Batches
    BY <2>0 DEF Shape
  <2>2. ASSUME NEW c \in Batches PROVE GoesOn(c) /\ batch'[c].st = batch[c].st
    <3>1. batch'[c] = IF c = b THEN [batch[c] EXCEPT !.live = FALSE] ELSE batch[c]
      BY <2>0 DEF Shape
    <3> QED
      BY <2>0, <3>1 DEF GoesOn, Frame, Shape, BatchFields
  <2>3. Claims'
    BY <1>0, <2>2 DEF QueueInv, Claims
  <2>4. Owners'
    BY <1>0, <2>2 DEF QueueInv, Owners, GoesOn, Frame
  <2>5. UniqueKey'
    BY <2>0 DEF QueueInv, UniqueKey, HoldsKey
  <2>6. Quarters
    BY <1>0, <2>0, <2>3, <2>4, <2>5 DEF Quarters, Shape
  <2>7. \A j \in Jobs : Calm(j)
    BY <2>0, SameRow DEF Calm
  <2>8. \A c \in Batches : Loose(c)' => Loose(c)
    BY <1>0 DEF Loose
  <2> QED
    BY <2>1, <2>2, <2>6, <2>7, <2>8, CalmStep
<1>2. CASE \E j \in Jobs : CancelQueued(j)
  <2> PICK j \in Jobs : CancelQueued(j)
    BY <1>2
  <2>1. JobsBecome({j}, "cancelled") /\ UNCHANGED <<batch, cleared>> /\ j \in Queued
    BY DEF CancelQueued
  <2>2. Claims'
    BY <1>0, <2>1 DEF QueueInv, Claims
  <2>3. "cancelled" \in Final \cup {"gone"} /\ \A i \in {j} \cap Jobs : job[i].st = "queued"
    BY <2>1 DEF Final, Queued
  <2> QED
    BY <1>0, <2>1, <2>2, <2>3, BecomeStep
<1>3. CASE \E all \in BOOLEAN : Clear(all)
  BY <1>0, <1>3, ClearStep
<1>4. CASE UNCHANGED <<job, batch, cleared>>
  BY <1>0, <1>4, TickMoves DEF QueueInv, Claims
<1> QED
  BY <1>1, <1>2, <1>3, <1>4 DEF Operator, CoolingEnds, Stop

\* Every step keeps the queue's invariant, and moves rows and batches forward.
LEMMA QueueSteps == QueueInv /\ [Next]_vars => QueueStep
<1> SUFFICES ASSUME QueueInv, [Next]_vars PROVE QueueStep
  OBVIOUS
<1>1. CASE UNCHANGED vars
  BY <1>1, TickMoves DEF vars, intake, drain, QueueInv, Claims
<1>2. CASE Submit
  <2>1. UNCHANGED <<batch, owner, tree, cleared, tick>>
    BY <1>2 DEF Submit, drain
  <2>2. Claims'
    BY <2>1 DEF QueueInv, Claims
  <2>3. UNCHANGED job \/ \E k : Store(k)
    BY <1>2 DEF Submit, Edit, SubmitTask, SubmitCommand, PlanTask, Begins, UsePlan, SavePlan,
       EnqueueSavedPlan, Enqueue, Fail, Refuse, Replay, Accept
  <2> QED
    BY <2>1, <2>2, <2>3, InsertStep, SameQueue
<1>3. CASE Main
  <2>1. UNCHANGED <<job, batch, owner, tree, cleared>>
    BY <1>3 DEF Main
  <2>2. UNCHANGED tick \/ tick' = [NoTick EXCEPT !.pc = "seen"]
    BY <1>3 DEF Main, MainLoop, MainTick
  <2>3. Claims'
    BY <2>1, <2>2 DEF QueueInv, Claims, NoTick, TickFields
  <2> QED
    BY <2>1, <2>3, SameQueue
<1> QED
  BY <1>1, <1>2, <1>3, TickStep, AdHocStep, OperatorStep, OwnerStep DEF Next

-----------------------------------------------------------------------------
(* The drain's threads. *)

\* At first the drain has seen nothing and reported nothing.
LEMMA DrainInit == Init => DrainInv
<1> SUFFICES ASSUME Init PROVE DrainInv
  OBVIOUS
<1>1. DOMAIN main = MainFields /\ main.pc = "loop"
  BY DEF Init, MainFields
<1>2. DOMAIN ledger = {"seen", "term"} /\ ledger.seen = {}
  BY DEF Init
<1>3. report = None
  BY DEF Init
<1>4. Listed = {}
  BY DEF Init, NoTick, Listed
<1>5. \A b \in Batches : batch[b].by = "none"
  BY DEF Init, NoBatch
<1> HIDE DEF Init
<1>6. Threads /\ Left /\ Over
  BY <1>1, <1>2, <1>3 DEF Threads, Left, Over, Snapping
<1>7. Seen
  BY <1>2, <1>4, <1>5 DEF Seen, ByDrain
<1> QED
  BY <1>6, <1>7 DEF DrainInv

\* What the drain has seen stays, whatever happens to the rows.
LEMMA SeenStep ==
    ASSUME QueueInv, QueueStep, Seen, ledger.seen \subseteq ledger'.seen,
           Listed' \subseteq ledger'.seen,
           \A j \in ledger'.seen : j \in ledger.seen \/ (j \in Jobs /\ job[j].st # "none"),
           \A b \in Batches : batch'[b].by = "drain" => Frame(b) \/ batch'[b].jobs \subseteq Listed
    PROVE  Seen'
<1>1. \A j \in ledger'.seen : j \in Jobs /\ job[j].st # "none"
  BY DEF Seen
<1>2. \A j \in ledger'.seen : j \in Jobs /\ job'[j].st # "none"
  BY <1>1 DEF QueueStep, Flow, RowStep
<1>3. ASSUME NEW b \in Batches, batch'[b].by = "drain"
      PROVE  batch'[b].jobs \subseteq ledger'.seen
  BY <1>3 DEF Frame, Seen, ByDrain
<1> QED
  BY <1>2, <1>3 DEF Seen, ByDrain

\* A batch with a thread of the drain, now and after a step.
Ours(b) == /\ b \in Running /\ ByDrain(b)
           /\ owner[b] # "none" \/ (tick.pc = "start" /\ b \in tick.claimed)

\* Once a stop is requested no batch gets a thread that had none coming.
LEMMA LeftStep ==
    ASSUME Left, Threads, UNCHANGED <<main, report>>, stop => stop',
           stop => \A b \in Batches : Ours(b)' => Ours(b)
    PROVE  Left'
<1>1. stop => \A b \in Running' : Ours(b)' => Ours(b)
  BY DEF Running
<1>2. CASE main.pc = "snapo"
  <2>1. stop
    BY <1>2 DEF Threads, Snapping
  <2> QED
    BY <1>1, <1>2, <2>1 DEF Left, Named, Ours
<1>3. CASE main.pc # "snapo"
  BY <1>1, <1>3 DEF Left, Named, Ours
<1> QED
  BY <1>2, <1>3

\* Reported outcomes stay true while no batch of the drain is made of other jobs.
LEMMA OutcomesStay ==
    ASSUME QueueInv, QueueStep, Seen, UNCHANGED report, report # None, report.status = "drained",
           DrainedIsTrue, DOMAIN report.out \subseteq Jobs,
           \A b \in Batches : batch'[b].by = "drain" => Frame(b) \/ batch'[b].jobs \subseteq DOMAIN report.out
    PROVE  DrainedIsTrue'
<1>1. \A b \in Batches : batch'[b].by = "drain" => batch'[b].jobs \subseteq DOMAIN report.out
  BY DEF DrainedIsTrue, ByDrain, Frame
<1>2. ASSUME NEW j \in DOMAIN report.out
      PROVE  report.out[j] \in Final /\ job'[j].st \in {report.out[j], "gone"}
  <2>1. report.out[j] \in Final /\ job[j].st \in {report.out[j], "gone"} /\ j \in Jobs
    BY DEF DrainedIsTrue
  <2> QED
    BY <2>1 DEF QueueStep, Flow, RowStep
<1> QED
  BY <1>1, <1>2 DEF DrainedIsTrue, ByDrain

\* Steps of everyone else: none makes a batch of the drain, or gives one an owner.
Foreign == \A b \in Batches : batch'[b].by = "drain" =>
    /\ Frame(b) /\ (batch[b].st = "none" => batch'[b].st = "none")
    /\ owner'[b] # "none" => owner[b] # "none"

\* Such steps keep the drain's invariant.
LEMMA ForeignStep ==
    ASSUME QueueInv, QueueStep, DrainInv, Foreign, UNCHANGED <<main, tick, ledger, report>>,
           stop => stop'
    PROVE  DrainInv'
<1>0. Threads /\ Seen /\ Left /\ Over
  BY DEF DrainInv
<1>1. Threads'
  BY <1>0 DEF Threads, Snapping
<1>2. Listed' = Listed /\ \A b \in Batches : batch'[b].by = "drain" => Frame(b)
  BY DEF Listed, Foreign
<1>3. Seen'
  BY <1>0, <1>2, SeenStep DEF Seen
<1>4. ASSUME NEW b \in Batches, Ours(b)' PROVE Ours(b)
  <2>1. batch'[b].by = "drain" /\ batch'[b].st \in {"leased", "running"}
    BY <1>4 DEF Ours, ByDrain, Running
  <2>2. Frame(b) /\ batch[b].st # "none" /\ (owner'[b] # "none" => owner[b] # "none")
    BY <2>1 DEF Foreign
  <2>3. batch[b].st \in {"leased", "running"}
    BY <2>1, <2>2 DEF QueueStep, BatchFlow, GoesOn, Ends, Starts
  <2> QED
    BY <1>4, <2>1, <2>2, <2>3 DEF Ours, ByDrain, Running, Frame
<1>5. Left'
  BY <1>0, <1>4, LeftStep
<1>6. Over'
  <2> SUFFICES ASSUME report # None, report.status = "drained"
               PROVE  Over'
    BY DEF Over
  <2>1. /\ stop \/ tick.pc = "done"
        /\ DOMAIN report.out \subseteq Jobs
        /\ tick.pc = "claim" => Listed \subseteq DOMAIN report.out
        /\ DrainedIsTrue
    BY <1>0 DEF Over
  <2>2. DrainedIsTrue'
    BY <1>0, <1>2, <2>1, OutcomesStay
  <2> QED
    BY <1>2, <2>1, <2>2 DEF Over
<1> QED
  BY <1>1, <1>3, <1>5, <1>6 DEF DrainInv

\* A batch that a thread or the operator touches is not a new one.
LEMMA NotNew ==
    ASSUME QueueInv, QueueStep,
           UNCHANGED batch \/ \E b \in Batches : \E s : batch[b].st # "none" /\ Close(b, s),
           \A b \in Batches : owner'[b] # "none" => owner[b] # "none"
    PROVE  Foreign
<1>1. ASSUME NEW c \in Batches, batch[c].st = "none" PROVE batch'[c].st = "none"
  BY <1>1 DEF Close, QueueInv, Shape
<1> QED
  BY <1>1 DEF Foreign, QueueStep, BatchFlow, GoesOn, Ends, Starts

\* An owner thread is one of them.
LEMMA OwnerForeign ==
    ASSUME QueueInv, QueueStep, NEW b \in Batches, Owner(b)
    PROVE  Foreign
<1>1. owner' = owner \/ (owner[b] # "none" /\ \E pc : Go(b, pc))
  BY DEF Owner, OwnerBegins, OwnerGate, OwnerLaunches, TreeEnds, OwnerRecords, OwnerLosesTrack,
     Revoke, Lost
<1>2. \A c \in Batches : owner'[c] # "none" => owner[c] # "none"
  BY <1>1 DEF Go, QueueInv, Shape
<1>3. UNCHANGED batch \/ \E s : batch[b].st # "none" /\ Close(b, s)
  BY DEF Owner, OwnerBegins, OwnerGate, OwnerLaunches, TreeEnds, OwnerRecords, OwnerLosesTrack,
     Revoke, Lost,
     Owned
<1> QED
  BY <1>2, <1>3, NotNew

\* The operator is.
LEMMA OperatorForeign ==
    ASSUME QueueInv, QueueStep, Operator
    PROVE  Foreign
<1>0. UNCHANGED owner
  BY DEF Operator
<1>1. CASE \E b \in Batches : LeaseLapses(b)
  <2> PICK b \in Batches : LeaseLapses(b)
    BY <1>1
  <2>1. \A c \in Batches : batch'[c] = IF c = b THEN [batch[c] EXCEPT !.live = FALSE] ELSE batch[c]
    BY DEF LeaseLapses, QueueInv, Shape
  <2>2. \A c \in Batches : batch'[c].st = batch[c].st
    BY <2>1 DEF QueueInv, Shape, BatchFields
  <2> QED
    BY <1>0, <2>2 DEF Foreign, QueueStep, BatchFlow, GoesOn, Ends, Starts
<1>2. CASE \E all \in BOOLEAN : Clear(all)
  <2>1. \A c \in Batches : batch[c].st = "none" => batch'[c] = batch[c]
    BY <1>2 DEF Clear, Running
  <2> QED
    BY <1>0, <2>1 DEF Foreign, QueueStep, BatchFlow, GoesOn, Ends, Starts
<1>3. CASE UNCHANGED batch
  BY <1>0, <1>3, NotNew
<1> QED
  BY <1>1, <1>2, <1>3 DEF Operator, CoolingEnds, Stop, CancelQueued

\* The ad hoc run is: what it claims is not the drain's.
LEMMA AdHocForeign ==
    ASSUME QueueInv, QueueStep, AdHoc
    PROVE  Foreign
<1>1. CASE UNCHANGED <<batch, owner>>
  BY <1>1, NotNew
<1>2. CASE \E b \in Unused : ClaimMany(b, adhoc.jobs, adhoc.dev, "adhoc", 0) /\ Go(b, "begin")
  <2> PICK b \in Unused : ClaimMany(b, adhoc.jobs, adhoc.dev, "adhoc", 0) /\ Go(b, "begin")
    BY <1>2
  <2>1. b \in Batches
    BY DEF Unused
  <2>2. batch'[b].by = "adhoc" /\ \A c \in Batches : c # b => batch'[c] = batch[c]
    BY <2>1, ClaimFacts DEF QueueInv
  <2>3. \A c \in Batches : c # b => owner'[c] = owner[c]
    BY DEF Go, QueueInv, Shape
  <2> QED
    BY <2>2, <2>3 DEF Foreign, Frame, QueueInv, Shape
<1> QED
  BY <1>1, <1>2 DEF AdHoc, AdHocChooses, AdHocEnqueues, AdHocClaims, AdHocBusy, ClaimLost, Go

\* A step of the tick: what it claims is listed, and what is listed is seen.
LEMMA TickDrain ==
    ASSUME QueueInv, QueueStep, DrainInv, UNCHANGED <<main, stop, report>>, tick.pc # "done",
           DOMAIN ledger' = {"seen", "term"}, ledger.seen \subseteq ledger'.seen,
           Listed' \subseteq ledger'.seen,
           \A j \in ledger'.seen : j \in ledger.seen \/ (j \in Jobs /\ job[j].st # "none"),
           tick'.pc = "claim" => ~stop,
           stop => \A b \in Batches : Ours(b)' => Ours(b),
           \A b \in Batches : Frame(b) \/ (tick.pc = "claim" /\ batch'[b].jobs \subseteq Listed)
    PROVE  DrainInv'
<1>0. Threads /\ Seen /\ Left /\ Over
  BY DEF DrainInv
<1>1. Threads'
  BY <1>0 DEF Threads, Snapping
<1>2. Seen'
  BY <1>0, SeenStep
<1>3. Left'
  BY <1>0, LeftStep
<1>4. Over'
  <2> SUFFICES ASSUME report # None, report.status = "drained"
               PROVE  Over'
    BY DEF Over
  <2>1. /\ stop
        /\ DOMAIN report.out \subseteq Jobs
        /\ tick.pc = "claim" => Listed \subseteq DOMAIN report.out
        /\ DrainedIsTrue
    BY <1>0 DEF Over
  <2>2. DrainedIsTrue'
    BY <1>0, <2>1, OutcomesStay
  <2> QED
    BY <2>1, <2>2 DEF Over
<1> QED
  BY <1>1, <1>2, <1>3, <1>4 DEF DrainInv

\* A step of the tick that claims and starts nothing.
LEMMA TickPlain ==
    ASSUME QueueInv, QueueStep, DrainInv, UNCHANGED <<main, stop, report, owner>>,
           tick.pc # "done",
           DOMAIN ledger' = {"seen", "term"}, ledger.seen \subseteq ledger'.seen,
           tick'.claimed = tick.claimed, tick'.rows = tick.rows \/ Listed' \subseteq ledger'.seen,
           \A j \in ledger'.seen : j \in ledger.seen \/ (j \in Jobs /\ job[j].st # "none"),
           stop => tick'.pc # "claim" /\ (tick'.pc = "start" => tick.pc = "start"),
           \A b \in Batches : batch[b].st = "none" => batch'[b].st = "none"
    PROVE  DrainInv'
<1>1. \A b \in Batches : Frame(b) /\ (b \in Running' => b \in Running)
  BY DEF QueueStep, BatchFlow, GoesOn, Ends, Starts, Running
<1>2. Listed' \subseteq ledger'.seen
  BY DEF Listed, DrainInv, Seen
<1>3. stop => \A b \in Batches : Ours(b)' => Ours(b)
  BY <1>1 DEF Ours, ByDrain, Frame
<1> QED
  BY <1>1, <1>2, <1>3, TickDrain

\* The same when the ledger and the batches stay too.
LEMMA TickIdle ==
    ASSUME QueueInv, QueueStep, DrainInv, UNCHANGED <<main, stop, report, owner, batch, ledger>>,
           tick.pc # "done", tick'.claimed = tick.claimed, tick'.rows = tick.rows,
           stop => tick'.pc # "claim" /\ (tick'.pc = "start" => tick.pc = "start")
    PROVE  DrainInv'
<1>1. DOMAIN ledger = {"seen", "term"}
  BY DEF DrainInv, Threads
<1> QED
  BY <1>1, TickPlain

\* T(pc), once more with what was listed.
LEMMA TRows ==
    ASSUME QueueInv, NEW pc, T(pc)
    PROVE  tick'.claimed = tick.claimed /\ tick'.rows = tick.rows /\ tick'.pc = pc
BY DEF T, QueueInv, Claims, TickFields

\* The tick looks at the queue.
LEMMA TickSeesDrain ==
    ASSUME QueueInv, QueueStep, DrainInv, UNCHANGED <<main, stop, report>>, TickSees \/ TickLists
    PROVE  DrainInv'
<1>0. DOMAIN ledger = {"seen", "term"} /\ DOMAIN tick = TickFields
  BY DEF DrainInv, Threads, QueueInv, Claims
<1>1. UNCHANGED <<owner, batch>> /\ tick.pc \in {"seen", "expire"}
  BY DEF TickSees, TickLists, At
<1>2. DOMAIN ledger' = {"seen", "term"} /\ ledger'.seen \in {ledger.seen \cup Queued \cup Active, ledger.seen \cup Queued}
  BY <1>0 DEF TickSees, TickLists
<1>3. \A j \in Queued \cup Active : j \in Jobs /\ job[j].st # "none"
  BY DEF Queued, Active
<1>4. /\ tick'.claimed = tick.claimed /\ tick'.pc \in {"expire", "plan", "done"}
      /\ tick'.rows = tick.rows \/ Listed' = Queued
  <2>1. CASE TickSees
    BY <1>0, <2>1 DEF TickSees, TickFields
  <2>2. CASE TickLists
    <3>1. tick'.claimed = tick.claimed /\ tick'.pc \in {"plan", "done"}
      BY <1>0, <2>2 DEF TickLists, TickFields
    <3>2. tick'.rows = [j \in Queued |-> [pin |-> job[j].pin, excl |-> job[j].excl]]
      BY <1>0, <2>2 DEF TickLists, TickFields
    <3>3. Listed' = Queued
      BY <3>2 DEF Listed
    <3> QED
      BY <3>1, <3>3
  <2> QED
    BY <2>1, <2>2
<1>5. tick'.rows = tick.rows \/ Listed' \subseteq ledger'.seen
  BY <1>2, <1>4
<1> QED
  BY <1>1, <1>2, <1>3, <1>4, <1>5, TickPlain

\* The tick recovers a stale batch.
LEMMA TickRecoversDrain ==
    ASSUME QueueInv, QueueStep, DrainInv, UNCHANGED <<main, stop, report>>, TickRecovers
    PROVE  DrainInv'
<1> PICK b \in tick.stale : Expire(b) /\ tick' = [tick EXCEPT !.stale = @ \ {b}]
  BY DEF TickRecovers
<1>0. DOMAIN ledger = {"seen", "term"} /\ DOMAIN tick = TickFields
  BY DEF DrainInv, Threads, QueueInv, Claims
<1>1. UNCHANGED <<owner, ledger>> /\ tick.pc = "expire"
  BY DEF TickRecovers, At
<1>2. tick'.claimed = tick.claimed /\ tick'.rows = tick.rows /\ tick'.pc = tick.pc
  BY <1>0 DEF TickFields
<1>3. UNCHANGED batch \/ (b \in Running /\ Close(b, "failed"))
  BY DEF Expire
<1>4. ASSUME NEW c \in Batches, batch[c].st = "none" PROVE batch'[c].st = "none"
  BY <1>3, <1>4 DEF Close, Running, QueueInv, Shape
<1> QED
  BY <1>0, <1>1, <1>2, <1>4, TickPlain

\* The tick claims a planned batch: its jobs are listed.
LEMMA TickClaimsDrain ==
    ASSUME QueueInv, QueueStep, DrainInv, UNCHANGED <<main, stop, report>>, TickClaims
    PROVE  DrainInv'
<1> DEFINE p == Head(tick.plan)
           S == {j \in Listed : j \in p.jobs}
           b == CHOOSE x \in Unused : TRUE
<1>0. DOMAIN ledger = {"seen", "term"} /\ DOMAIN tick = TickFields /\ Listed \subseteq ledger.seen
  BY DEF DrainInv, Threads, Seen, QueueInv, Claims
<1>1. tick.pc = "claim" /\ UNCHANGED <<owner, ledger>>
  BY DEF TickClaims, At
<1>2. CASE ClaimLost(S, p.dev) /\ tick' = [tick EXCEPT !.pc = "check", !.plan = Tail(@)]
  <2>1. tick'.claimed = tick.claimed /\ tick'.rows = tick.rows /\ tick'.pc = "check"
    BY <1>0, <1>2 DEF TickFields
  <2> QED
    BY <1>1, <1>2, <2>1, TickIdle DEF ClaimLost
<1>3. CASE /\ Unused # {} /\ ClaimMany(b, S, p.dev, "drain", p.est)
           /\ tick' = [tick EXCEPT !.pc = "check", !.plan = Tail(@), !.claimed = @ \cup {b}]
  <2>1. b \in Batches /\ batch[b].st = "none"
    BY <1>3 DEF Unused
  <2>2. ClaimMany(b, S, p.dev, "drain", p.est)
    BY <1>3
  <2>3. tick'.rows = tick.rows /\ tick'.pc = "check"
    BY <1>0, <1>3 DEF TickFields
  <2>4. S \subseteq Listed
    OBVIOUS
  <2> HIDE DEF b, S, p
  <2>5. owner[b] = "none"
    BY <2>1 DEF QueueInv, Owners
  <2>6. batch'[b].jobs = S /\ \A c \in Batches : c # b => batch'[c] = batch[c]
    BY <2>1, <2>2, ClaimFacts DEF QueueInv
  <2>7. \A c \in Batches : Frame(c) \/ batch'[c].jobs \subseteq Listed
    BY <2>4, <2>6 DEF Frame, QueueInv, Shape
  <2>8. ASSUME NEW c \in Batches, Ours(c)' PROVE Ours(c)
    <3>1. owner[c] # "none" /\ c # b
      BY <1>1, <2>3, <2>5, <2>8 DEF Ours
    <3>2. batch'[c] = batch[c]
      BY <2>6, <3>1
    <3> QED
      BY <2>8, <3>1, <3>2 DEF Ours, Running, ByDrain
  <2>9. Listed' = Listed
    BY <2>3 DEF Listed
  <2> QED
    BY <1>0, <1>1, <2>3, <2>7, <2>8, <2>9, TickDrain
<1> QED
  BY <1>2, <1>3 DEF TickClaims

\* The tick starts the threads of what it claimed.
LEMMA TickStartsDrain ==
    ASSUME QueueInv, QueueStep, DrainInv, UNCHANGED <<main, stop, report>>, TickStarts
    PROVE  DrainInv'
<1>0. DOMAIN ledger = {"seen", "term"} /\ Listed \subseteq ledger.seen
  BY DEF DrainInv, Threads, Seen
<1>1. UNCHANGED <<batch, ledger>> /\ tick.pc = "start" /\ T("wait")
  BY DEF TickStarts, At
<1>2. tick'.claimed = tick.claimed /\ tick'.rows = tick.rows /\ tick'.pc = "wait"
  BY <1>1, TRows
<1>3. \A b \in Batches : owner'[b] = IF b \in tick.claimed THEN "begin" ELSE owner[b]
  BY DEF TickStarts
<1>4. \A b \in Batches : Ours(b)' => Ours(b)
  BY <1>1, <1>2, <1>3 DEF Ours, Running, ByDrain
<1>5. \A b \in Batches : Frame(b)
  BY <1>1 DEF Frame, QueueInv, Shape
<1>6. Listed' = Listed
  BY <1>2 DEF Listed
<1> QED
  BY <1>0, <1>1, <1>2, <1>4, <1>5, <1>6, TickDrain

\* Every step of the tick keeps the drain's invariant.
LEMMA TickKeepsDrain ==
    ASSUME QueueInv, QueueStep, DrainInv, Tick
    PROVE  DrainInv'
<1>0. UNCHANGED <<main, stop, report>> /\ DOMAIN tick = TickFields
  BY DEF Tick, Quiet, QueueInv, Claims
<1>1. CASE TickPlans
  <2>1. UNCHANGED <<batch, owner, ledger>> /\ tick.pc = "plan"
    BY <1>1 DEF TickPlans, At
  <2>2. T("raised") \/ \E x : tick' = [tick EXCEPT !.pc = "check", !.plan = x.plan]
    BY <1>1 DEF TickPlans
  <2>3. tick'.claimed = tick.claimed /\ tick'.rows = tick.rows /\ tick'.pc \in {"raised", "check"}
    BY <1>0, <2>2 DEF T, TickFields
  <2> QED
    BY <1>0, <2>1, <2>3, TickIdle
<1>2. CASE TickChecks
  <2>1. UNCHANGED <<batch, owner, ledger>> /\ tick.pc = "check"
    BY <1>2 DEF TickChecks, At, Still
  <2>2. \E pc : T(pc) /\ pc \in {"claim", "outcomes", "startcheck"} /\ (stop => pc # "claim")
    BY <1>2 DEF TickChecks
  <2>3. /\ tick'.claimed = tick.claimed /\ tick'.rows = tick.rows
        /\ tick'.pc \in {"claim", "outcomes", "startcheck"} /\ (stop => tick'.pc # "claim")
    BY <2>2, TRows
  <2> QED
    BY <1>0, <2>1, <2>3, TickIdle
<1>3. CASE TickMayStart
  <2>1. UNCHANGED <<batch, owner, ledger>> /\ tick.pc = "startcheck"
    BY <1>3 DEF TickMayStart, At, Still
  <2>2. \E pc : T(pc) /\ pc \in {"outcomes", "start"} /\ (stop => pc # "start")
    BY <1>3 DEF TickMayStart
  <2>3. /\ tick'.claimed = tick.claimed /\ tick'.rows = tick.rows
        /\ tick'.pc \in {"outcomes", "start"} /\ (stop => tick'.pc # "start")
    BY <2>2, TRows
  <2> QED
    BY <1>0, <2>1, <2>3, TickIdle
<1>4. CASE TickWaits
  <2>1. UNCHANGED <<batch, owner, ledger>> /\ tick.pc = "wait" /\ T("outcomes")
    BY <1>4 DEF TickWaits, At, Still
  <2>2. tick'.claimed = tick.claimed /\ tick'.rows = tick.rows /\ tick'.pc = "outcomes"
    BY <2>1, TRows
  <2> QED
    BY <1>0, <2>1, <2>2, TickIdle
<1>5. CASE TickRecords
  <2>1. UNCHANGED <<batch, owner>> /\ tick.pc = "outcomes" /\ (T("done") \/ T("prune"))
    BY <1>5 DEF TickRecords, At
  <2>2. tick'.claimed = tick.claimed /\ tick'.rows = tick.rows /\ tick'.pc \in {"done", "prune"}
    BY <2>1, TRows
  <2>3. DOMAIN ledger = {"seen", "term"}
    BY DEF DrainInv, Threads
  <2>4. DOMAIN ledger' = {"seen", "term"} /\ ledger'.seen = ledger.seen
    BY <1>5, <2>3 DEF TickRecords
  <2> QED
    BY <1>0, <2>1, <2>2, <2>4, TickPlain
<1>6. CASE TickPrunes
  <2>1. UNCHANGED <<batch, owner, ledger>> /\ tick.pc = "prune" /\ T("done")
    BY <1>6 DEF TickPrunes, At
  <2>2. tick'.claimed = tick.claimed /\ tick'.rows = tick.rows /\ tick'.pc = "done"
    BY <2>1, TRows
  <2> QED
    BY <1>0, <2>1, <2>2, TickIdle
<1> QED
  BY <1>0, <1>1, <1>2, <1>3, <1>4, <1>5, <1>6, TickSeesDrain, TickRecoversDrain, TickClaimsDrain,
     TickStartsDrain DEF Tick

\* The main thread reads the tables and changes none of them.
MainReads == UNCHANGED <<job, batch, owner, stop, ledger>>

\* It moves on without a report.
LEMMA MainMoves ==
    ASSUME QueueInv, DrainInv, MainReads, UNCHANGED report, main.pc # "reported",
           DOMAIN main' = MainFields,
           UNCHANGED tick \/ (DOMAIN tick'.rows = {} /\ main'.pc = "tick"),
           main'.pc \in {"countq", "counta", "decide"} => tick.pc = "done",
           Snapping' => stop,
           main'.pc = "snapo" => Named(main'.left)
    PROVE  DrainInv'
<1>0. Threads /\ Seen /\ Left /\ Over
  BY DEF DrainInv
<1>1. ~(report # None)
  BY <1>0 DEF Threads
<1>2. Threads'
  BY <1>0, <1>1 DEF Threads, MainReads
<1>3. Listed' \subseteq ledger.seen
  BY <1>0 DEF Listed, Seen
<1>4. Seen'
  BY <1>0, <1>3 DEF Seen, MainReads, ByDrain
<1>5. Left'
  BY <1>1 DEF Left, Named, MainReads, Running, ByDrain
<1>6. Over'
  BY <1>1 DEF Over
<1> QED
  BY <1>2, <1>4, <1>5, <1>6 DEF DrainInv

\* It reports.
LEMMA MainReports ==
    ASSUME QueueInv, DrainInv, MainReads, UNCHANGED tick,
           NEW status, NEW left, NEW out, NEW late, Report(status, left, out, late),
           status = "stopped" /\ ~late => stop /\ Named(left),
           status = "drained" => (stop \/ tick.pc = "done") /\ out = FinalOutcomes /\ out # None
    PROVE  DrainInv'
<1>0. Threads /\ Seen /\ Left /\ Over
  BY DEF DrainInv
<1>1. DOMAIN main' = MainFields /\ main'.pc = "reported"
  BY <1>0 DEF Report, M, Threads, MainFields
<1>2. /\ report' = [status |-> status, left |-> left, out |-> out, late |-> late]
      /\ report'.status = status /\ report'.left = left /\ report'.out = out /\ report'.late = late
  BY DEF Report
<1>3. Threads'
  BY <1>0, <1>1 DEF Threads, MainReads, Snapping
<1>4. Seen'
  BY <1>0 DEF Seen, MainReads, ByDrain, Listed
<1>5. Left'
  BY <1>1, <1>2 DEF Left, Named, MainReads, Running, ByDrain
<1>6. Over'
  <2> SUFFICES ASSUME status = "drained" PROVE Over'
    BY <1>2 DEF Over
  <2>1. out = FinalOutcomes /\ out # None /\ (stop \/ tick.pc = "done")
    OBVIOUS
  <2>2. /\ DOMAIN out = ledger.seen
        /\ \A j \in ledger.seen : /\ out[j] \in Final
                                  /\ out[j] = IF j \in Rows THEN job[j].st ELSE ledger.term[j]
    BY <2>1 DEF FinalOutcomes
  <2>3. \A j \in ledger.seen : j \in Jobs /\ job[j].st # "none"
    BY <1>0 DEF Seen
  <2>4. \A j \in DOMAIN out : j \in Jobs /\ out[j] \in Final /\ job[j].st \in {out[j], "gone"}
    BY <2>2, <2>3 DEF Rows
  <2>5. \A b \in Batches : ByDrain(b) => batch[b].jobs \subseteq DOMAIN out
    BY <1>0, <2>2 DEF Seen
  <2>6. DrainedIsTrue'
    BY <1>2, <2>4, <2>5 DEF DrainedIsTrue, MainReads, ByDrain
  <2>7. Listed \subseteq DOMAIN out
    BY <1>0, <2>2 DEF Seen
  <2> QED
    BY <1>2, <2>1, <2>4, <2>6, <2>7 DEF Over, MainReads, Listed
<1> QED
  BY <1>3, <1>4, <1>5, <1>6 DEF DrainInv

\* A snapshot of the active jobs names every batch that has some.
LEMMA SnapNames ==
    ASSUME QueueInv
    PROVE  Named({job[j].bat : j \in Active})
<1> SUFFICES ASSUME NEW b \in Running PROVE b \in {job[j].bat : j \in Active}
  BY DEF Named
<1>1. PICK j \in batch[b].jobs : job[j].st = "active" /\ job[j].bat = b
  BY DEF QueueInv, Backed
<1>2. j \in Jobs
  BY DEF QueueInv, Recorded, Running
<1> QED
  BY <1>1, <1>2 DEF Active

\* Every step of the main thread does.
LEMMA MainKeepsDrain ==
    ASSUME QueueInv, DrainInv, Main
    PROVE  DrainInv'
<1>0. MainReads
  BY DEF MainReads, Main
<1>1. DOMAIN main = MainFields /\ (Snapping => stop)
      /\ (main.pc \in {"countq", "counta", "decide"} => tick.pc = "done")
  BY DEF DrainInv, Threads
<1>2. ASSUME NEW pc, M(pc) PROVE DOMAIN main' = MainFields /\ main'.pc = pc /\ main'.left = main.left
  BY <1>1, <1>2 DEF M, MainFields
<1>3. CASE MainLoop
  <2>1. CASE stop /\ M("snapq") /\ UNCHANGED <<tick, report>>
    BY <1>0, <1>2, <1>3, <2>1, MainMoves DEF MainLoop, In
  <2>2. CASE ~stop /\ M("tick") /\ tick' = [NoTick EXCEPT !.pc = "seen"] /\ UNCHANGED report
    <3>1. DOMAIN tick'.rows = {}
      BY <2>2 DEF NoTick
    <3>2. main.pc = "loop"
      BY <1>3 DEF MainLoop, In
    <3>3. DOMAIN main' = MainFields /\ main'.pc = "tick"
      BY <1>2, <2>2
    <3> QED
      BY <1>0, <2>2, <3>1, <3>2, <3>3, MainMoves DEF Snapping
  <2> QED
    BY <1>3, <2>1, <2>2 DEF MainLoop
<1>4. CASE MainTick
  <2>0. main.pc = "tick" /\ UNCHANGED tick
    BY <1>4 DEF MainTick, In
  <2>1. CASE Report("infrastructure_error", {}, NoOutcomes, FALSE)
    BY <1>0, <2>0, <2>1, MainReports
  <2>2. CASE At("done") /\ M(IF stop THEN "snapq" ELSE "countq") /\ UNCHANGED report
    <3>1. DOMAIN main' = MainFields /\ main'.pc = IF stop THEN "snapq" ELSE "countq"
      BY <1>2, <2>2
    <3> QED
      BY <1>0, <2>0, <2>2, <3>1, MainMoves DEF Snapping, At
  <2>3. CASE Detach
    <3>1. stop /\ UNCHANGED report /\ DOMAIN main' = MainFields /\ main'.pc = "snapq"
      BY <1>2, <2>3 DEF Detach
    <3> QED
      BY <1>0, <2>0, <3>1, MainMoves
  <2> QED
    BY <1>4, <2>1, <2>2, <2>3 DEF MainTick
<1>5. ASSUME NEW pc, NEW next, <<pc, next>> \in {<<"countq", "counta">>, <<"counta", "decide">>,
                                                 <<"snapq", "snapa">>, <<"snapa", "snapr">>},
             CountQueued(pc, next) \/ CountActive(pc, next), UNCHANGED tick
      PROVE  DrainInv'
  <2>1. main.pc = pc /\ UNCHANGED report /\ DOMAIN main' = MainFields /\ main'.pc = next
    BY <1>1, <1>5 DEF CountQueued, CountActive, In, MainFields
  <2>2. pc # "reported" /\ next # "snapo" /\ (next \in {"countq", "counta", "decide"} => tick.pc = "done")
    BY <1>1, <1>5, <2>1
  <2>3. Snapping' => stop
    BY <1>1, <1>5, <2>1 DEF Snapping
  <2> QED
    BY <1>0, <1>5, <2>1, <2>2, <2>3, MainMoves
<1>6. CASE MainDecides /\ UNCHANGED tick
  <2>0. main.pc = "decide" /\ tick.pc = "done"
    BY <1>1, <1>6 DEF MainDecides, In
  <2>1. CASE M("loop") /\ UNCHANGED report
    BY <1>0, <1>2, <1>6, <2>0, <2>1, MainMoves DEF Snapping
  <2>2. CASE FinalOutcomes # None /\ Report("drained", {}, FinalOutcomes, FALSE)
    BY <1>0, <1>6, <2>0, <2>2, MainReports
  <2>3. CASE \/ Report("infrastructure_error", {}, NoOutcomes, FALSE)
             \/ Report("stuck_unplaceable", {}, NoOutcomes, FALSE)
    BY <1>0, <1>6, <2>3, MainReports
  <2> QED
    BY <1>6, <2>1, <2>2, <2>3 DEF MainDecides
<1>7. CASE SnapRows /\ UNCHANGED tick
  <2>1. main.pc = "snapr" /\ UNCHANGED report /\ stop
    BY <1>1, <1>7 DEF SnapRows, In, Snapping
  <2>2. DOMAIN main' = MainFields /\ main'.pc = "snapo" /\ main'.left = {job[j].bat : j \in Active}
    BY <1>1, <1>7 DEF SnapRows, MainFields
  <2>3. Named(main'.left)
    BY <2>2, SnapNames
  <2> QED
    BY <1>0, <1>7, <2>1, <2>2, <2>3, MainMoves
<1>8. CASE SnapEnds /\ UNCHANGED tick
  <2>0. main.pc = "snapo" /\ stop
    BY <1>1, <1>8 DEF SnapEnds, In, Snapping
  <2>1. CASE FinalOutcomes # None /\ Report("drained", {}, FinalOutcomes, FALSE)
    BY <1>0, <1>8, <2>0, <2>1, MainReports
  <2>2. CASE \E late \in BOOLEAN : Report("stopped", main.left, NoOutcomes, late)
    <3>1. Named(main.left)
      BY <2>0 DEF DrainInv, Left
    <3> QED
      BY <1>0, <1>8, <2>0, <2>2, <3>1, MainReports
  <2> QED
    BY <1>8, <2>1, <2>2 DEF SnapEnds
<1>9. CASE SnapFails /\ UNCHANGED tick
  BY <1>0, <1>9, MainReports DEF SnapFails
<1> QED
  BY <1>3, <1>4, <1>5, <1>6, <1>7, <1>8, <1>9 DEF Main

\* Every step keeps the drain's invariant.
LEMMA DrainStep == QueueInv /\ DrainInv /\ [Next]_vars => DrainInv'
<1> SUFFICES ASSUME QueueInv, DrainInv, [Next]_vars PROVE DrainInv'
  OBVIOUS
<1>1. QueueStep
  BY QueueSteps
<1>2. CASE UNCHANGED vars \/ Submit
  <2>1. UNCHANGED drain
    BY <1>2 DEF vars, Submit
  <2>2. Foreign
    BY <1>1, <2>1, NotNew DEF drain
  <2> QED
    BY <1>1, <2>1, <2>2, ForeignStep DEF drain
<1>3. CASE AdHoc
  <2>1. Foreign
    BY <1>1, <1>3, AdHocForeign
  <2> QED
    BY <1>1, <1>3, <2>1, ForeignStep DEF AdHoc
<1>4. CASE Operator
  <2>1. Foreign
    BY <1>1, <1>4, OperatorForeign
  <2>2. UNCHANGED <<main, tick, ledger, report>>
    BY <1>4 DEF Operator
  <2>3. stop' = stop \/ stop' = TRUE
    BY <1>4 DEF Operator, LeaseLapses, CoolingEnds, Stop, CancelQueued, Clear
  <2> QED
    BY <1>1, <2>1, <2>2, <2>3, ForeignStep
<1>5. CASE \E b \in Batches : Owner(b)
  <2>1. Foreign
    BY <1>1, <1>5, OwnerForeign
  <2>2. UNCHANGED <<main, tick, ledger, report, stop>>
    BY <1>5 DEF Owner
  <2> QED
    BY <1>1, <2>1, <2>2, ForeignStep
<1> QED
  BY <1>1, <1>2, <1>3, <1>4, <1>5, MainKeepsDrain, TickKeepsDrain DEF Next

-----------------------------------------------------------------------------
(* The theorems. *)

\* The inductive invariant holds in every reachable state.
THEOREM DrainInvariance == Spec => []IInv
<1>1. Init => IInv
  BY IntakeInit, QueueInit, DrainInit DEF IInv
<1>2. IInv /\ [Next]_vars => IInv'
  BY IntakeStep, QueueSteps, DrainStep DEF IInv, QueueStep
<1> QED
  BY <1>1, <1>2, PTL DEF Spec

\* Whatever is edited, planned, retried or lost between its retries, a named
\* request is told one thing: its receipt, or that it is refused
\* (enqueue_submission).
THEOREM OneAnswer == Spec => []RequestAnsweredOnce
<1>1. IInv => RequestAnsweredOnce
  <2> SUFFICES ASSUME IInv, NEW a \in told, NEW b \in told, a.req = b.req
               PROVE  a = b
    BY DEF RequestAnsweredOnce
  <2>1. OneReceipt /\ ToldTruly
    BY DEF IInv, IntakeInv
  <2>2. a.answer = b.answer
    BY <2>1 DEF OneReceipt, ToldTruly
  <2>3. a = [req |-> a.req, answer |-> a.answer] /\ b = [req |-> b.req, answer |-> b.answer]
    BY <2>1 DEF ToldTruly
  <2> QED
    BY <2>2, <2>3
<1> QED
  BY <1>1, DrainInvariance, PTL

\* The two unlocked reads of enqueue_saved_plan never find the plan and its
\* submission in disagreement, however many callers race for the plan.
THEOREM PlansAgree == Spec => []PlanReadsAgree
<1>1. IInv => PlanReadsAgree
  BY DEF IInv, IntakeInv, PlanReadsAgree
<1> QED
  BY <1>1, DrainInvariance, PTL

\* No task's command, and no job's, runs twice at once: the batch whose command
\* runs keeps its jobs, and they keep their idempotency keys, through lapsed
\* leases, recoveries, resubmissions and ad hoc runs.
THEOREM RunsOnce == Spec => []NoDoubleRun
<1>1. IInv => NoDoubleRun
  <2> SUFFICES ASSUME IInv, NEW b \in Batches \ cleared, NEW c \in Batches \ cleared,
                      b # c, tree[b] = "running", tree[c] = "running"
               PROVE  /\ batch[b].jobs \cap batch[c].jobs = {}
                      /\ \A r \in batch[b].recs \cap batch[c].recs : r.kind = "command"
    BY DEF NoDoubleRun
  <2>1. Kept /\ Recorded /\ UniqueKey
    BY DEF IInv, QueueInv
  <2>2. /\ \A j \in batch[b].jobs : job[j].bat = b /\ job[j].st \in {"active", "completion_unknown"}
        /\ \A j \in batch[c].jobs : job[j].bat = c /\ job[j].st \in {"active", "completion_unknown"}
    BY <2>1 DEF Kept, Loose
  <2>3. ASSUME NEW r \in batch[b].recs \cap batch[c].recs PROVE r.kind = "command"
    <3>1. PICK i \in batch[b].jobs : job[i].rec = r
      BY <2>1 DEF Recorded
    <3>2. PICK j \in batch[c].jobs : job[j].rec = r
      BY <2>1 DEF Recorded
    <3>3. i \in Jobs /\ j \in Jobs /\ i # j
      BY <2>1, <2>2 DEF Recorded
    <3>4. HoldsKey(i) /\ HoldsKey(j)
      BY <2>2 DEF HoldsKey, Final
    <3> QED
      BY <2>1, <3>1, <3>2, <3>3, <3>4 DEF UniqueKey
  <2> QED
    BY <2>2, <2>3
<1> QED
  BY <1>1, DrainInvariance, PTL

\* The document of a stopped drain names every batch its threads still run or
\* will run, although the tick goes on claiming after the snapshot was read.
THEOREM StoppedNamesAll == Spec => []LeftRunningIsComplete
<1>1. IInv => LeftRunningIsComplete
  BY DEF IInv, DrainInv, Left, Named, LeftRunningIsComplete
<1> QED
  BY <1>1, DrainInvariance, PTL

\* A drain that reports drained gives every job it ran a final outcome, which
\* nothing that happens later contradicts.
THEOREM DrainedForGood == Spec => []DrainedIsTrue
<1>1. IInv => DrainedIsTrue
  BY DEF IInv, DrainInv, Over, DrainedIsTrue
<1> QED
  BY <1>1, DrainInvariance, PTL
=============================================================================
