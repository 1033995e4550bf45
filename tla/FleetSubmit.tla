---------------------------- MODULE FleetSubmit ----------------------------
(***************************************************************************)
(* Intake of the fleet queue: configured tasks and raw commands are        *)
(* prepared from the live task definitions, then enqueued in one           *)
(* transaction that compares the definition again; a placement may be      *)
(* saved as a plan first.  A caller may name its request, so that a retry  *)
(* after a lost answer gets the first answer again.  The queue database    *)
(* changes in BEGIN IMMEDIATE blocks, each one step.                       *)
(*                                                                         *)
(* A body is what one submission asks for: kind, spec (the version of the  *)
(* definition it was prepared from), works (its items), pin (the forced    *)
(* device) and fall (may leave that device).  It stands for the prepared   *)
(* records and for their fingerprint.  Output reservations, priorities and *)
(* idempotency keys chosen by the caller are left out.                     *)
(***************************************************************************)
EXTENDS Naturals, FiniteSets

CONSTANTS Jobs, Specs, Requests, Plans, Callers, None,
          Unreadable     \* the configuration cannot be loaded

ASSUME IntakeAssumption == None \notin Plans \cup Requests

VARIABLES live,      \* the live definition's version; None: the task is not defined
          job,       \* the jobs table
          subs,      \* submissions: [req, plan, body, jobs]
          plan,      \* submission_plans: [body, used] of every plan that is saved
          refused,   \* submission_refusals: [req, plan, body]
          caller,    \* the CLI calls in progress
          told,      \* history: the answers given to named requests
          disagree,  \* history: a plan and its submission were found to disagree
          budget     \* bounds: how often the environment may still act

intake == <<live, job, subs, plan, refused, caller, told, disagree>>

Spend(k) == budget[k] > 0 /\ budget' = [budget EXCEPT ![k] = @ - 1]

Final == {"done", "failed_final", "needs_review", "cancelled"}
NoJob == [st |-> "none", rec |-> None, pin |-> None, excl |-> {}, att |-> 0, bat |-> None]
IdleCall == [pc |-> "idle", req |-> None, plan |-> None, body |-> None, sub |-> None]

SubmitInit ==
    /\ live = (CHOOSE s \in Specs : TRUE) /\ job = [j \in Jobs |-> NoJob]
    /\ subs = {} /\ plan = [p \in {} |-> None] /\ refused = {}
    /\ caller = [c \in Callers |-> IdleCall] /\ told = {} /\ disagree = FALSE

-----------------------------------------------------------------------------
(* Preparing: every record is frozen from the definition that is live now.  *)

\* The operator edits the task's definition, removes it or breaks the file.
Edit(s) == /\ Spend("edits") /\ s # live /\ live' = s
           /\ UNCHANGED <<job, subs, plan, refused, caller, told, disagree>>

PreparedTask(order) ==
    [kind |-> "task", spec |-> live, works |-> order.works, pin |-> order.pin, fall |-> order.fall]
PreparedCommand(order) ==
    [kind |-> "command", spec |-> None, works |-> order.works, pin |-> order.pin, fall |-> FALSE]
Prepared(order) == IF order.kind = "task" THEN PreparedTask(order) ELSE PreparedCommand(order)
Preparable(order) == order.kind = "command" \/ live \in Specs

\* pin_prepared_job: a saved plan binds the chosen device, without fallback
PinnedTo(body, d) == [body EXCEPT !.pin = d, !.fall = FALSE]

Call(c, k) == caller' = [caller EXCEPT ![c] = k]
Answer(c) == Call(c, IdleCall)
Begins(c, pc, req, body) ==
    /\ caller[c].pc = "idle"
    /\ Call(c, [IdleCall EXCEPT !.pc = pc, !.req = req, !.body = body])
    /\ UNCHANGED <<live, job, subs, plan, refused, told, disagree>>

\* cmd_submit, cmd_command and cmd_plan up to their transaction; d is whichever
\* device the planner chose.
SubmitTask(c, order, req) ==
    /\ order.kind = "task" /\ Preparable(order) /\ Spend("calls")
    /\ Begins(c, "enqueue", req, PreparedTask(order))
SubmitCommand(c, order, req) ==
    /\ order.kind = "command" /\ Spend("calls")
    /\ Begins(c, "enqueue", req, PreparedCommand(order))
PlanTask(c, order, d) ==
    /\ order.kind = "task" /\ Preparable(order) /\ Spend("plans")
    /\ Begins(c, "save", None, PinnedTo(PreparedTask(order), d))

\* save_submission_plan
SavePlan(c) ==
    /\ caller[c].pc = "save" /\ Answer(c)
    /\ \/ live # caller[c].body.spec /\ UNCHANGED plan
       \/ /\ live = caller[c].body.spec
          /\ \E p \in Plans \ DOMAIN plan :
               plan' = [q \in DOMAIN plan \cup {p} |->
                          IF q = p THEN [body |-> caller[c].body, used |-> None] ELSE plan[q]]
    /\ UNCHANGED <<live, job, subs, refused, told, disagree, budget>>

-----------------------------------------------------------------------------
(* enqueue_saved_plan reads the receipt, then the plan, in two statements.  *)

SubOfPlan(p) == {s \in subs : s.plan = p}
SubOfRequest(r) == {s \in subs : s.req = r}
TheSub(S) == IF S = {} THEN None ELSE CHOOSE s \in S : TRUE

\* What a named request is told: the receipt's jobs, or (no job) that it is refused.
NoJobs == [w \in {} |-> None]
Tell(c, answer) ==
    told' = IF caller[c].req = None THEN told
            ELSE told \cup {[req |-> caller[c].req, answer |-> answer]}

UsePlan(c, p, req) ==
    /\ caller[c].pc = "idle" /\ p \in DOMAIN plan /\ Spend("calls")
    /\ Call(c, [IdleCall EXCEPT !.pc = "receipt", !.req = req, !.plan = p])
    /\ UNCHANGED <<live, job, subs, plan, refused, told, disagree>>

\* get_submission(plan_id) and get_submission_plan
ReadReceipt(c) == Call(c, [caller[c] EXCEPT !.pc = "plan", !.sub = TheSub(SubOfPlan(caller[c].plan))])
ReadPlan(c) ==
    LET k == caller[c]
        row == plan[k.plan]
        wrong == k.sub # None /\ row.used # k.sub
    IN /\ disagree' = (disagree \/ wrong)
       /\ \/ k.sub = None /\ UNCHANGED told
             /\ Call(c, [k EXCEPT !.pc = "enqueue", !.body = row.body])
          \/ k.sub # None /\ Answer(c)
             /\ IF wrong \/ (k.req # None /\ k.sub.req # k.req) THEN UNCHANGED told
                ELSE Tell(c, k.sub.jobs)

\* (mutant: the plan is read first, its receipt afterwards)
ReadPlanFirst(c) ==
    LET k == caller[c]
    IN \/ /\ k.pc = "receipt" /\ UNCHANGED <<told, disagree>>
          /\ Call(c, [k EXCEPT !.pc = "plan", !.body = plan[k.plan]])
       \/ /\ k.pc = "plan"
          /\ LET s == TheSub(SubOfPlan(k.plan))
                 wrong == s # None /\ k.body.used # s
             IN /\ disagree' = (disagree \/ wrong) /\ UNCHANGED told
                /\ IF s = None THEN Call(c, [k EXCEPT !.pc = "enqueue", !.body = @.body])
                   ELSE Answer(c)

ReadSavedPlan(c) == \/ caller[c].pc = "receipt" /\ ReadReceipt(c) /\ UNCHANGED <<told, disagree>>
                    \/ caller[c].pc = "plan" /\ ReadPlan(c)

EnqueueSavedPlan(c) ==
    /\ caller[c].pc \in {"receipt", "plan"} /\ ReadSavedPlan(c)
    /\ UNCHANGED <<live, job, subs, plan, refused, budget>>

-----------------------------------------------------------------------------
(* enqueue_submission: one transaction.                                     *)

Identity(k) == [req |-> k.req, plan |-> k.plan, body |-> k.body]

\* the submission that the plan, or else the request, already names
Existing(k) == IF k.plan # None /\ SubOfPlan(k.plan) # {} THEN SubOfPlan(k.plan)
               ELSE IF k.req # None THEN SubOfRequest(k.req) ELSE {}

\* _find_submission_refusal_by_request, and the identity checks of a replay
Rebound(k) == k.req # None /\ \E r \in refused : r.req = k.req /\ r # Identity(k)
\* (mutant: a refusal is only found for a plan, by its exact identity)
RebindableConflict(k) == \E s \in Existing(k) : (k.req # None /\ s.req # k.req) \/ s.body # k.body
Conflict(k) ==
    \/ Rebound(k)
    \/ \E s \in Existing(k) : \/ k.req # None /\ Identity(k) \in refused
                              \/ k.plan # None /\ s.plan # k.plan
                              \/ k.req # None /\ s.req # k.req
                              \/ s.body # k.body

Drifted(body) == body.kind = "task" /\ live # body.spec

\* (mutant: an unknown completion no longer holds the key)
HoldsKeyLoosely(j) == job[j].st \notin Final \cup {"none", "gone", "completion_unknown"}
\* state NOT IN _FINAL: the job still owns its idempotency key
HoldsKey(j) == job[j].st \notin Final \cup {"none", "gone"}

Record(body, w) == [kind |-> body.kind, w |-> w, spec |-> body.spec, pin |-> body.pin,
                    fall |-> body.fall]
Converges(body, w) == IF body.kind = "command" THEN {}
                      ELSE {j \in Jobs : HoldsKey(j) /\ job[j].rec = Record(body, w)}

\* The job of each item: one that is live under the same key, else a new row.
Fresh == {j \in Jobs : job[j].st = "none"}
News(body) == {w \in body.works : Converges(body, w) = {}}
Places(body) == {f \in [News(body) -> Fresh] : \A v, w \in News(body) : f[v] = f[w] => v = w}
JobOf(body) ==
    LET new == CHOOSE f \in Places(body) : TRUE
    IN [w \in body.works |-> IF w \in News(body) THEN new[w]
                             ELSE CHOOSE j \in Converges(body, w) : TRUE]
Roomy(body) == Places(body) # {}                                   \* bound: rows
Insert(body) ==
    job' = [j \in Jobs |->
              IF \E w \in News(body) : JobOf(body)[w] = j
              THEN [NoJob EXCEPT !.st = "queued", !.pin = body.pin,
                      !.rec = Record(body, CHOOSE w \in News(body) : JobOf(body)[w] = j)]
              ELSE job[j]]

Store(k) ==
    LET s == [req |-> k.req, plan |-> k.plan, body |-> k.body, jobs |-> JobOf(k.body)]
    IN /\ Roomy(k.body) /\ Insert(k.body) /\ subs' = subs \cup {s}
       /\ plan' = IF k.plan = None THEN plan ELSE [plan EXCEPT ![k.plan].used = s]
Accept(c, k) == Store(k) /\ Tell(c, JobOf(k.body)) /\ UNCHANGED refused

Refuse(c, k) == /\ refused' = refused \cup {Identity(k)} /\ Tell(c, NoJobs)
                /\ UNCHANGED <<job, subs, plan>>
Replay(c, k) == /\ \E s \in Existing(k) : Tell(c, s.jobs)
                /\ UNCHANGED <<job, subs, plan, refused>>
Fail == UNCHANGED <<job, subs, plan, refused, told>>

Enqueue(c) ==
    LET k == caller[c]
    IN /\ k.pc = "enqueue" /\ Answer(c) /\ UNCHANGED <<live, disagree, budget>>
       /\ \/ Conflict(k) /\ Fail
          \/ ~Conflict(k) /\ Replay(c, k)
          \/ /\ ~Conflict(k) /\ Existing(k) = {}
             /\ \/ Identity(k) \in refused /\ Refuse(c, k)
                \/ Identity(k) \notin refused /\ Drifted(k.body)
                   /\ IF k.plan = None \/ live = Unreadable THEN Fail ELSE Refuse(c, k)
                \/ Identity(k) \notin refused /\ ~Drifted(k.body) /\ Accept(c, k)

-----------------------------------------------------------------------------
(* Correctness. *)

\* Whatever happens to the definitions, the plans and the queue between its
\* retries, all the answers a named request gets are the same one: the first
\* receipt, or the refusal (enqueue_submission's promise to a caller whose
\* answer was lost).
RequestAnsweredOnce == \A a, b \in told : a.req = b.req => a = b

\* The two unlocked reads of enqueue_saved_plan never pair a stale plan row
\* with a fresh receipt, so a caller that races the accepting transaction is
\* never told that the plan disagrees with its own submission.
PlanReadsAgree == ~disagree
=============================================================================
