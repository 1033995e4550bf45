----------------------------- MODULE FleetDrain -----------------------------
(***************************************************************************)
(* dispatch --drain on a queue that callers, a synchronous ad hoc run and  *)
(* an operator use at the same time.  The drain is two threads: the main   *)
(* one counts and reports, the tick it starts recovers, places, claims and *)
(* runs batches, each batch with an owner thread; a stop request makes the *)
(* main thread report without waiting for the tick, which goes on.         *)
(* Batches run on devices without target acceptance (protocol NULL);       *)
(* FleetDispatch has the others.  A job is "active" from its claim to the  *)
(* batch's end; a batch is "leased" until its launch is authorized         *)
(* (leased, staging) and "running" afterwards (running, fetching).         *)
(***************************************************************************)
EXTENDS FleetSubmit, Sequences
LOCAL INSTANCE FiniteSetsExt
LOCAL INSTANCE Functions
LOCAL INSTANCE SequencesExt
LOCAL INSTANCE TLC

CONSTANTS Batches, DeviceOrder, Idle,
          Machine,       \* what a probe of each device returns, but for its load
          Demand,        \* what a job needs, see Placement
          Scenes,        \* bounds: [prof: learned run times, budget: how often the
                         \* environment acts, and the orders its callers place]
          MaxAttempts, Keep

P == INSTANCE Placement
Devices == P!Devices

VARIABLES batch,     \* [st, dev, pool, live, by, est, jobs, recs]
          tree,      \* the command of a batch on its device
          owner,     \* the thread that runs a batch
          cool,      \* devices in a cooldown
          main, tick, stop,
          ledger,    \* _DrainLedger: [seen, term]
          report,    \* the final document, None before
          adhoc,     \* a synchronous run under a lease
          prof,      \* load_costs
          cleared    \* history: batches of which the operator cleared rows

drain == <<batch, tree, owner, cool, main, tick, stop, ledger, report, adhoc, prof, cleared>>
vars == <<intake, drain, budget>>
rows == <<live, subs, plan, refused, caller, told, disagree, prof>>   \* intake but job

NoBatch == [st |-> "none", dev |-> None, pool |-> FALSE, live |-> FALSE, by |-> "none",
            est |-> None, jobs |-> {}, recs |-> {}]
NoTick == [pc |-> "off", rows |-> << >>, stale |-> {}, plan |-> << >>, claimed |-> {}]
NoRun == [pc |-> "idle", dev |-> None, body |-> None, jobs |-> {}, new |-> {}]

Init ==
    /\ SubmitInit /\ (\E s \in Scenes : prof = s.prof /\ budget = s.budget)
    /\ batch = [b \in Batches |-> NoBatch] /\ tree = [b \in Batches |-> "none"]
    /\ owner = [b \in Batches |-> "none"] /\ cool = {} /\ stop = FALSE
    /\ main = [pc |-> "loop", queued |-> FALSE, active |-> FALSE, left |-> {}] /\ tick = NoTick
    /\ ledger = [seen |-> {}, term |-> [j \in Jobs |-> None]] /\ report = None
    /\ adhoc = NoRun /\ cleared = {}

-----------------------------------------------------------------------------
(* The queue's transactions on claims and batches. *)

Queued == {j \in Jobs : job[j].st = "queued"}
Active == {j \in Jobs : job[j].st = "active"}
Members(b) == {j \in Active : job[j].bat = b}
Running == {b \in Batches : batch[b].st \in {"leased", "running"}}
JobsBecome(S, s) == job' = [j \in Jobs |-> IF j \in S THEN [job[j] EXCEPT !.st = s] ELSE job[j]]
Close(b, s) == batch' = [batch EXCEPT ![b].st = s]

\* state = expected AND owner_token = ? AND lease_until > now
Owned(b, s) == batch[b].st = s /\ batch[b].live

\* claim_many: all or nothing.  A definition that changed since the jobs were
\* prepared sends them to review.
Unused == {b \in Batches : batch[b].st = "none"}
PoolHeld(d) == \E b \in Running : batch[b].dev = d /\ batch[b].pool /\ batch[b].live
Pooled(S) == \A j \in S : job[j].rec.kind = "task"        \* a command has no pool
Takes(S, d) == S # {} /\ S \subseteq Queued /\ (Pooled(S) => ~PoolHeld(d))
Revoked(S) == {j \in S : job[j].rec.kind = "task" /\ live # job[j].rec.spec}
ClaimLost(S, d) ==
    /\ ~Takes(S, d) \/ Revoked(S) # {}
    /\ UNCHANGED batch
    /\ IF Takes(S, d) THEN JobsBecome(Revoked(S), "needs_review") ELSE UNCHANGED job
ClaimMany(b, S, d, by, est) ==
    /\ Takes(S, d) /\ Revoked(S) = {} /\ batch[b].st = "none"
    /\ batch' = [batch EXCEPT ![b] =
         [st |-> "leased", dev |-> d, pool |-> Pooled(S), live |-> TRUE,
          by |-> by, est |-> est, jobs |-> S, recs |-> {job[j].rec : j \in S}]]
    /\ job' = [j \in Jobs |-> IF j \in S THEN [job[j] EXCEPT !.st = "active", !.bat = b,
                                                             !.att = @ + 1]
                              ELSE job[j]]

\* _finish_failed_item; _finish_batch_failure is the verdict "retry" for all.
FailedItem(j, d, verdict, cap, clear) ==
    LET elsewhere == verdict \in {"elsewhere", "once_elsewhere"}
        limit == IF verdict = "once_elsewhere" /\ cap > 2 THEN 2 ELSE cap
        row == [job[j] EXCEPT !.excl = IF elsewhere THEN @ \cup {d} ELSE @]
        dead == \/ verdict = "final" \/ job[j].att >= limit
                \/ elsewhere /\ job[j].pin = d /\ ~clear
    IN IF verdict = "review" THEN [row EXCEPT !.st = "needs_review"]
       ELSE IF dead THEN [row EXCEPT !.st = "failed_final"]
       ELSE [row EXCEPT !.st = "queued", !.bat = None, !.pin = IF clear THEN None ELSE @]
Settle(b, verdict, cap, clear) ==
    job' = [j \in Jobs |-> IF j \notin Members(b) THEN job[j]
                           ELSE IF verdict[j] = "ok" THEN [job[j] EXCEPT !.st = "done"]
                           ELSE FailedItem(j, batch[b].dev, verdict[j], cap, clear)]

\* _expire_batch for a batch without target acceptance
Expire(b) ==
    IF b \notin Running \/ batch[b].live THEN UNCHANGED <<job, batch>>
    ELSE /\ Close(b, "failed")
         /\ IF batch[b].st = "leased"
            THEN Settle(b, [j \in Members(b) |-> "retry"], MaxAttempts, FALSE)
            ELSE JobsBecome(Members(b), "completion_unknown")

-----------------------------------------------------------------------------
(* An owner thread: _run_claimed_batch, or the ad hoc caller itself.        *)

ByDrain(b) == batch[b].by = "drain"
Go(b, pc) == owner' = [owner EXCEPT ![b] = pc]
Lost(b) == Go(b, "gone") /\ UNCHANGED <<job, batch, cool>>
Drift(b) == \E r \in batch[b].recs : r.kind = "task" /\ live # r.spec

\* revoke_prelaunch_batch, tolerating that the batch is no longer owned
Revoke(b) == /\ Go(b, "gone") /\ UNCHANGED cool
             /\ IF Owned(b, "leased")
                THEN Close(b, "failed") /\ JobsBecome(Members(b), "needs_review")
                ELSE UNCHANGED <<job, batch>>

OwnerBegins(b) ==
    /\ owner[b] = "begin" /\ UNCHANGED tree
    /\ \/ ByDrain(b) /\ Drift(b) /\ Revoke(b)
       \/ ~(ByDrain(b) /\ Drift(b)) /\ ~Owned(b, "leased") /\ Lost(b)
       \/ /\ ~(ByDrain(b) /\ Drift(b)) /\ Owned(b, "leased")
          /\ Go(b, "gate") /\ UNCHANGED <<job, batch, cool>>

\* A failure is classified; the drain cools the device before it lets go of
\* the jobs, and unpins those that may run elsewhere (_allows_fallback).
Cooled(b) == cool' \in {cool} \cup {cool \cup {d} : d \in {batch[b].dev} \cap
                                                     {e \in Devices : ByDrain(b)}}
Fallback(b) == ByDrain(b) /\ \E head \in Members(b) : job[head].pin # None /\ job[head].rec.fall
Cap(b) == IF ByDrain(b) THEN MaxAttempts ELSE 1

\* staging, then the launch gate
OwnerGate(b) ==
    /\ owner[b] = "gate" /\ UNCHANGED tree
    /\ \/ ~Owned(b, "leased") /\ Lost(b)
       \/ /\ Owned(b, "leased") /\ Close(b, "failed") /\ Go(b, "gone") /\ Cooled(b)   \* staging failed
          /\ Settle(b, [j \in Members(b) |-> "retry"], Cap(b), Fallback(b))
       \/ Drift(b) /\ Revoke(b)
       \/ ~Drift(b) /\ Owned(b, "leased") /\ Close(b, "running") /\ Go(b, "launch")
          /\ UNCHANGED <<job, cool>>

OwnerLaunches(b) == /\ owner[b] = "launch" /\ tree' = [tree EXCEPT ![b] = "running"]
                    /\ Go(b, "ran") /\ UNCHANGED <<job, batch, cool>>
TreeEnds(b) == /\ tree[b] = "running" /\ tree' = [tree EXCEPT ![b] = "ended"]
               /\ UNCHANGED <<job, batch, cool, owner>>

\* The result is in: a verdict for each item, or one for all of them.
Verdicts == {"ok", "retry", "elsewhere", "once_elsewhere", "review", "final"}
OwnerRecords(b) ==
    /\ owner[b] = "ran" /\ tree[b] = "ended" /\ UNCHANGED tree
    /\ \/ ~Owned(b, "running") /\ Lost(b)
       \/ /\ Owned(b, "running") /\ Go(b, "gone")
          /\ \E verdict \in [Members(b) -> Verdicts] :
               /\ Close(b, IF \A j \in Members(b) : verdict[j] = "ok" THEN "done" ELSE "failed")
               /\ Settle(b, verdict, Cap(b), Fallback(b))
               /\ IF batch'[b].st = "done" THEN UNCHANGED cool ELSE Cooled(b)

\* The transport is lost, or the evidence is incomplete: mark_completion_unknown.
OwnerLosesTrack(b) ==
    /\ owner[b] \in {"launch", "ran"} /\ UNCHANGED tree
    /\ \/ ~Owned(b, "running") /\ Lost(b)
       \/ /\ Owned(b, "running") /\ Close(b, "failed") /\ Go(b, "gone") /\ UNCHANGED cool
          /\ JobsBecome(Members(b), "completion_unknown")

Owner(b) == /\ \/ OwnerBegins(b) \/ OwnerGate(b) \/ OwnerLaunches(b) \/ TreeEnds(b)
               \/ OwnerRecords(b) \/ OwnerLosesTrack(b)
            /\ UNCHANGED <<rows, budget, main, tick, stop, ledger, report, adhoc, cleared>>

-----------------------------------------------------------------------------
(* What a tick sees, and the plan it makes of it. *)

Listed == DOMAIN tick.rows
\* _compat_key, from the frozen routing and the exclusions that were listed
Compat(j) == LET r == job[j].rec
             IN IF r.kind = "command" THEN <<j>> ELSE <<r.spec, r.pin, r.fall, tick.rows[j].excl>>
Groups == {{i \in Listed : Compat(i) = Compat(j)} : j \in Listed}
Head1(G) == CHOOSE j \in G : TRUE

\* _known_candidates, _candidate_names
KnownCandidates(G) == LET p == tick.rows[Head1(G)].pin IN IF p # None THEN {p} ELSE Demand.cand
Exhausted(G) == KnownCandidates(G) # {} /\ KnownCandidates(G) \subseteq tick.rows[Head1(G)].excl
Candidates(G) == KnownCandidates(G) \ tick.rows[Head1(G)].excl
TaskOf(rec, pin) == [pin |-> pin, kind |-> rec.kind] @@ Demand

\* build_snapshot with the load the queue knows of
LoadOn(d) == Cardinality({b \in Running : batch[b].dev = d /\ batch[b].live})
Probe(up, pools) == [d \in Devices |->
    [Machine[d] EXCEPT !.up = d \in up, !.active = LoadOn(d),
                       !.pool = IF pools /\ PoolHeld(d) THEN 0 ELSE 1]]

\* active_backlog; late: the batches have used up their estimates
Backlog(late) == [d \in Devices |->
    LET B == {b \in Running : batch[b].dev = d}
    IN IF B = {} THEN Idle
       ELSE IF \E b \in B : batch[b].est = None THEN None
       ELSE IF late THEN 0 ELSE MapThenSumSet(LAMBDA b : batch[b].est, B)]

\* _simulate: the groups in one order, each seeing what the earlier ones took
Simulate(order, snap, backlog) ==
    LET put(sim, b) ==
          [sim EXCEPT !.plan = Append(@, b), !.used = @ \cup {b.dev},
             !.line[b.dev] = IF P!Wait(sim.line, b.dev) = None \/ b.est = None THEN None
                             ELSE P!Wait(sim.line, b.dev) + b.est]
        place(sim, G) ==
          IF sim = None THEN None
          ELSE LET h == Head1(G)
                   S == Candidates(G) \ (cool \cup sim.used)
                   got == P!AssignGroup(G, TaskOf(job[h].rec, tick.rows[h].pin), S, snap,
                                        prof, sim.line)
               IN IF S = {} THEN sim ELSE IF got = None THEN None
                  ELSE FoldLeft(put, sim, SetToSeq(got))
    IN FoldLeft(place, [plan |-> << >>, used |-> {}, line |-> backlog], order)

Placed(sim) == MapThenSumSet(LAMBDA i : Cardinality(sim.plan[i].jobs), DOMAIN sim.plan)
Span(sim) == IF \E d \in sim.used : sim.line[d] = None THEN None
             ELSE IF sim.used = {} THEN 0 ELSE Max({sim.line[d] : d \in sim.used})
Better(x, y) == Placed(x) > Placed(y) \/ (Placed(x) = Placed(y) /\ Len(x.plan) > Len(y.plan))

\* the first order that places most, replaced only by one known to end earlier
Best(sims) == {x \in sims : /\ \A y \in sims : ~Better(y, x)
                            /\ \A y \in sims : Better(x, y) \/ Span(x) = None \/ Span(y) = None
                                               \/ Span(x) <= Span(y)}

-----------------------------------------------------------------------------
(* drain_once *)

At(pc) == tick.pc = pc
T(pc) == tick' = [tick EXCEPT !.pc = pc]
Quiet == UNCHANGED <<rows, budget, tree, main, stop, report, adhoc, cleared>>
Still == UNCHANGED <<job, batch, owner, cool, ledger>>

TickSees ==
    /\ At("seen") /\ ledger' = [ledger EXCEPT !.seen = @ \cup Queued \cup Active]
    /\ tick' = [tick EXCEPT !.pc = "expire", !.stale = {b \in Running : ~batch[b].live}]
    /\ UNCHANGED <<job, batch, owner, cool>>
TickRecovers ==                                              \* recover_stale
    /\ At("expire") /\ UNCHANGED <<owner, cool, ledger>>
    /\ \E b \in tick.stale : Expire(b) /\ tick' = [tick EXCEPT !.stale = @ \ {b}]
TickLists ==
    /\ At("expire") /\ tick.stale = {}
    /\ tick' = [tick EXCEPT !.pc = IF Queued = {} THEN "done" ELSE "plan",
                  !.rows = [j \in Queued |-> [pin |-> job[j].pin, excl |-> job[j].excl]]]
    /\ ledger' = [ledger EXCEPT !.seen = @ \cup Queued] /\ UNCHANGED <<job, batch, owner, cool>>

\* Jobs that every candidate refused are closed (finalize_queued); the others
\* are placed.  A planner that raises ends the tick.
TickPlans ==
    /\ At("plan") /\ UNCHANGED <<batch, owner, cool, ledger>>
    /\ JobsBecome(Queued \cap UNION {G \in Groups : Exhausted(G)}, "failed_final")
    /\ LET G == {g \in Groups : ~Exhausted(g)}
           orders == {s \in [1..Cardinality(G) -> G] : IsInjective(s)}
       IN \E up \in SUBSET Devices, late \in BOOLEAN :
            LET sims == {Simulate(s, Probe(up, TRUE), Backlog(late)) : s \in orders}
            IN \/ None \in sims /\ T("raised")
               \/ /\ None \notin sims
                  /\ \E x \in Best(sims) : tick' = [tick EXCEPT !.pc = "check", !.plan = x.plan]

TickChecks ==
    /\ At("check") /\ Still
    /\ IF ~stop /\ tick.plan # << >> THEN T("claim")
       ELSE T(IF tick.claimed = {} THEN "outcomes" ELSE "startcheck")
TickClaims ==
    LET p == Head(tick.plan)
        bjob_ids == {j \in Listed : j \in p.jobs}          \* all_job_ids[i]
        b == CHOOSE x \in Unused : TRUE
    IN /\ At("claim") /\ UNCHANGED <<owner, cool, ledger>>
       /\ \/ ClaimLost(bjob_ids, p.dev)
             /\ tick' = [tick EXCEPT !.pc = "check", !.plan = Tail(@)]
          \/ Unused # {} /\ ClaimMany(b, bjob_ids, p.dev, "drain", p.est)
             /\ tick' = [tick EXCEPT !.pc = "check", !.plan = Tail(@), !.claimed = @ \cup {b}]

\* (mutant: the threads of claimed batches are started without looking again)
StartsAnyway == Still /\ At("startcheck") /\ T("start")
TickMayStart == /\ Still /\ At("startcheck") /\ T(IF stop THEN "outcomes" ELSE "start")
TickStarts ==
    /\ At("start") /\ T("wait") /\ UNCHANGED <<job, batch, cool, ledger>>
    /\ owner' = [b \in Batches |-> IF b \in tick.claimed THEN "begin" ELSE owner[b]]
TickWaits ==
    /\ At("wait") /\ Still /\ T("outcomes")
    /\ stop \/ \A b \in tick.claimed : owner[b] = "gone"

\* record_outcomes, then prune_final; neither when a stop is requested
Rows == {j \in Jobs : job[j].st \notin {"none", "gone"}}
TickRecords ==
    /\ At("outcomes") /\ UNCHANGED <<job, batch, owner, cool>>
    /\ IF stop THEN T("done") /\ UNCHANGED ledger
       ELSE /\ T("prune")
            /\ ledger' = [ledger EXCEPT !.term = [j \in Jobs |->
                 IF j \notin Rows \cap ledger.seen THEN @[j]
                 ELSE IF job[j].st \in Final THEN job[j].st ELSE None]]
TickPrunes ==
    LET old == {j \in Jobs : job[j].st \in {"done", "failed_final"}}
    IN /\ At("prune") /\ T("done") /\ UNCHANGED <<batch, owner, cool, ledger>>
       /\ \E V \in SUBSET old : /\ Cardinality(old) - Cardinality(V) <= Keep
                                /\ V # {} => Cardinality(old \ V) = Keep
                                /\ JobsBecome(V, "gone")

Tick == /\ Quiet
        /\ \/ TickSees \/ TickRecovers \/ TickLists \/ TickPlans \/ TickChecks \/ TickClaims
           \/ TickMayStart \/ TickStarts \/ TickWaits \/ TickRecords \/ TickPrunes

-----------------------------------------------------------------------------
(* run: the main thread, and its final document. *)

In(pc) == main.pc = pc
M(pc) == main' = [main EXCEPT !.pc = pc]
Report(status, left, out, late) ==
    /\ M("reported")
    /\ report' = [status |-> status, left |-> left, out |-> out, late |-> late]

\* (mutant: what is known is reported)
KnownOutcomes == [j \in ledger.seen |-> IF j \in Rows THEN job[j].st ELSE ledger.term[j]]
\* final_job_outcomes: None when an outcome is missing or not terminal
NoOutcomes == [j \in {} |-> None]
FinalOutcomes ==
    LET out == [j \in ledger.seen |-> IF j \in Rows THEN job[j].st ELSE ledger.term[j]]
    IN IF \A j \in ledger.seen : out[j] \in Final THEN out ELSE None

MainLoop ==
    /\ In("loop")
    /\ \/ stop /\ M("snapq") /\ UNCHANGED <<tick, report, budget>>
       \/ ~stop /\ Spend("ticks") /\ M("tick") /\ tick' = [NoTick EXCEPT !.pc = "seen"]
          /\ UNCHANGED report

\* (mutant: a stop waits for the tick)
NeverDetach == FALSE
\* next_tick polls: a stop leaves the tick thread behind
Detach == stop /\ tick.pc \notin {"done", "raised"} /\ M("snapq") /\ UNCHANGED report
MainTick ==
    /\ In("tick") /\ UNCHANGED <<tick, budget>>
    /\ \/ At("raised") /\ Report("infrastructure_error", {}, NoOutcomes, FALSE)
       \/ At("done") /\ M(IF stop THEN "snapq" ELSE "countq") /\ UNCHANGED report
       \/ Detach

\* queue_counts is two statements
CountQueued(pc, next) == /\ In(pc) /\ UNCHANGED report
                         /\ main' = [main EXCEPT !.pc = next, !.queued = Queued # {}]
CountActive(pc, next) == /\ In(pc) /\ UNCHANGED report
                         /\ main' = [main EXCEPT !.pc = next, !.active = Active # {}]
Empty == ~main.queued /\ ~main.active

\* Nothing left: linger for the idle grace, then finish.  Work left that was
\* neither placed nor is in flight: stuck.
MainDecides ==
    /\ In("decide")
    /\ \/ (Empty \/ main.active \/ tick.claimed # {}) /\ M("loop") /\ UNCHANGED report
       \/ /\ Empty
          /\ IF FinalOutcomes = None THEN Report("infrastructure_error", {}, NoOutcomes, FALSE)
             ELSE Report("drained", {}, FinalOutcomes, FALSE)
       \/ /\ main.queued /\ ~main.active /\ tick.claimed = {}
          /\ Report("stuck_unplaceable", {}, NoOutcomes, FALSE)

\* stopped_result: the snapshot is read in a thread of its own; when it fails
\* or takes too long the document is made without it.
Snapping == main.pc \in {"snapq", "snapa", "snapr", "snapo"}
SnapRows == /\ In("snapr") /\ UNCHANGED report
            /\ main' = [main EXCEPT !.pc = "snapo", !.left = {job[j].bat : j \in Active}]
SnapEnds ==
    /\ In("snapo")
    /\ \/ Empty /\ FinalOutcomes # None /\ Report("drained", {}, FinalOutcomes, FALSE)
       \/ ~Empty /\ \E late \in BOOLEAN : Report("stopped", main.left, NoOutcomes, late)
SnapFails == Snapping /\ Report("stopped", {}, NoOutcomes, TRUE)

Main ==
    /\ \/ MainLoop \/ MainTick
       \/ /\ UNCHANGED <<tick, budget>>
          /\ \/ CountQueued("countq", "counta") \/ CountActive("counta", "decide") \/ MainDecides
             \/ CountQueued("snapq", "snapa") \/ CountActive("snapa", "snapr")
             \/ SnapRows \/ SnapEnds \/ SnapFails
    /\ UNCHANGED <<rows, job, batch, tree, owner, cool, stop, ledger, adhoc, cleared>>

-----------------------------------------------------------------------------
(* _run_group_leased: run now, or say that the device is busy. *)

AdHocChooses(order) ==
    /\ adhoc.pc = "idle" /\ Preparable(order) /\ Spend("adhoc") /\ UNCHANGED <<subs, plan, job, batch, owner>>
    /\ LET body == Prepared(order)
           nothing == [d \in Devices |-> Idle]
       IN \E up \in SUBSET Devices :
            LET got == P!AssignGroup({Head1(body.works)}, TaskOf(body, body.pin), Devices,
                                     Probe(up, FALSE), prof, nothing)
            IN \E g \in got : adhoc' = [NoRun EXCEPT !.pc = "enqueue", !.dev = g.dev, !.body = body]
AdHocEnqueues ==
    LET body == adhoc.body
    IN /\ adhoc.pc = "enqueue" /\ UNCHANGED <<batch, owner, budget>>
       /\ \/ Drifted(body) /\ adhoc' = NoRun /\ UNCHANGED <<subs, plan, job>>
          \/ /\ ~Drifted(body) /\ Store([req |-> None, plan |-> None, body |-> body])
             /\ adhoc' = [adhoc EXCEPT !.pc = "claim",
                            !.jobs = {JobOf(body)[w] : w \in body.works},
                            !.new = {JobOf(body)[w] : w \in News(body)}]
AdHocClaims ==
    /\ adhoc.pc = "claim" /\ UNCHANGED <<subs, plan, budget>>
    /\ \/ /\ ClaimLost(adhoc.jobs, adhoc.dev) /\ UNCHANGED owner
          /\ adhoc' = [adhoc EXCEPT !.pc = "busy"]
       \/ \E b \in Unused : /\ b = CHOOSE x \in Unused : TRUE
                            /\ ClaimMany(b, adhoc.jobs, adhoc.dev, "adhoc", 0)
                            /\ owner' = [owner EXCEPT ![b] = "begin"] /\ adhoc' = NoRun
AdHocBusy ==
    /\ adhoc.pc = "busy" /\ adhoc' = NoRun
    /\ JobsBecome(Queued \cap adhoc.new, "failed_final")
    /\ UNCHANGED <<subs, plan, batch, owner, budget>>

AdHoc == /\ (\E o \in budget.orders : AdHocChooses(o)) \/ AdHocEnqueues \/ AdHocClaims \/ AdHocBusy
         /\ UNCHANGED <<live, refused, caller, told, disagree, prof, tree, cool, main, tick, stop,
                        ledger, report, cleared>>

-----------------------------------------------------------------------------
(* The operator, and time. *)

LeaseLapses(b) == /\ b \in Running /\ batch[b].live /\ Spend("lapses")
                  /\ batch' = [batch EXCEPT ![b].live = FALSE]
                  /\ UNCHANGED <<job, cool, stop, cleared>>
CoolingEnds(d) == d \in cool /\ cool' = cool \ {d} /\ UNCHANGED <<job, batch, stop, cleared, budget>>
Stop == ~stop /\ Spend("stops") /\ stop' = TRUE /\ UNCHANGED <<job, batch, cool, cleared>>
CancelQueued(j) == /\ j \in Queued /\ Spend("cancels") /\ JobsBecome({j}, "cancelled")
                   /\ UNCHANGED <<batch, cool, stop, cleared>>
\* a clear also forgets jobs whose batch has ended without them
Unresolved == {b \in Batches : \E j \in Rows : job[j].st \notin Final /\ job[j].bat = b}
Clear(all) ==
    /\ Spend("clears") /\ JobsBecome(IF all THEN Rows ELSE {j \in Rows : job[j].st \notin Final}, "gone")
    /\ batch' = [b \in Batches |-> IF b \in Running THEN [batch[b] EXCEPT !.st = "gone"] ELSE batch[b]]
    /\ cleared' = cleared \cup Running \cup Unresolved /\ cool' = {} /\ UNCHANGED stop

Operator ==
    /\ \/ \E b \in Batches : LeaseLapses(b)
       \/ \E d \in Devices : CoolingEnds(d)
       \/ Stop
       \/ \E j \in Jobs : CancelQueued(j)
       \/ \E all \in BOOLEAN : Clear(all)
    /\ UNCHANGED <<rows, tree, owner, main, tick, ledger, report, adhoc>>

\* callers are alike: the next call is made by one of the idle ones
NextCaller == LET I == {c \in Callers : caller[c].pc = "idle"}
              IN IF I = {} THEN {} ELSE {CHOOSE c \in I : TRUE}
Submit ==
    /\ \/ \E s \in Specs \cup {None, Unreadable} : Edit(s)
       \/ \E c \in NextCaller :
            \/ \E o \in budget.orders, r \in Requests \cup {None} : SubmitTask(c, o, r)
            \/ \E o \in budget.orders, r \in Requests \cup {None} : SubmitCommand(c, o, r)
            \/ \E o \in budget.orders, d \in Devices : PlanTask(c, o, d)
            \/ \E p \in Plans, r \in Requests \cup {None} : UsePlan(c, p, r)
       \/ \E c \in Callers : SavePlan(c) \/ EnqueueSavedPlan(c) \/ Enqueue(c)
    /\ UNCHANGED drain

Next == Submit \/ Main \/ Tick \/ AdHoc \/ Operator \/ \E b \in Batches : Owner(b)
Spec == Init /\ [][Next]_vars /\ WF_vars(Main)

-----------------------------------------------------------------------------
(* Correctness. *)

\* A task's command never runs twice at once, and no job's does, whatever is
\* resubmitted, retried, recovered or run ad hoc: a batch whose end is not
\* known keeps the idempotency key of its jobs.  (Not across clear, which
\* says that it leaves workers running.)
NoDoubleRun ==
    \A b, c \in Batches \ cleared :
        b # c /\ tree[b] = "running" /\ tree[c] = "running"
        => /\ batch[b].jobs \cap batch[c].jobs = {}
           /\ \A r \in batch[b].recs \cap batch[c].recs : r.kind = "command"

\* A stopped drain names every batch it leaves running: whatever its detached
\* threads are still executing, or will, is in left_running.
LeftRunningIsComplete ==
    report # None /\ report.status = "stopped" /\ ~report.late
    => \A b \in Running : ByDrain(b) /\ owner[b] # "none" => b \in report.left

\* A drain that reports drained gives a final outcome for every job it ran,
\* and no later step of anyone makes that outcome wrong.
DrainedIsTrue ==
    report # None /\ report.status = "drained"
    => /\ \A b \in Batches : ByDrain(b) => batch[b].jobs \subseteq DOMAIN report.out
       /\ \A j \in DOMAIN report.out : /\ report.out[j] \in Final
                                       /\ job[j].st \in {report.out[j], "gone"}

\* A stop request is answered with a document however long ticks, batches or
\* the database take: the main thread waits for none of them.
StopIsAnswered == stop ~> report # None
=============================================================================
