------------------------- MODULE FleetDispatchProofs -------------------------
(***************************************************************************)
(* The fleet dispatcher for any jobs, batches and number of attempts, and  *)
(* without the bounds of its instance for TLC: what recovery, the owner    *)
(* and the operator conclude about a target is right, however their steps  *)
(* and the target's interleave and whichever of them crash.                *)
(***************************************************************************)
EXTENDS FleetDispatch, TLAPS

OwnerPlaces == {"none", "claimed", "reserve", "record", "abandon", "stage", "gate", "launch",
                "sent", "accept", "wait", "asked", "asked-ledger", "outputs", "prelaunch",
                "authorize", "rmstage", "rmdurable", "finalize", "finish", "end"}
WorkerPlaces == {"idle", "status", "rmonly", "cancel", "progress", "rmstage", "stage-gone",
                 "rmdurable", "dur-gone", "final", "replay", "unknown", "c-status", "c-stop",
                 "c-stopped", "c-finished", "r-authorize"}
Modes == {"none", "stale", "terminal", "cancelling", "fenced", "release"}
Results == {"none", "refused", "staging", "review", "drift", "notlive", "notstarted", "unknown",
            "ok", "bad", "items", "noevidence"}
Ended == {"RELEASED", "CANCELLED", "EXPIRED", "REBOOTED"}

JobRows == [st : {"queued", "active"} \cup JobOutcomes, att : 0..MaxAttempts,
            bat : Batches \cup {None}]
BatchRows == [st : BatchActive \cup {"none", "done", "failed"}, live : BOOLEAN, op : BOOLEAN,
              cst : Ended \cup {"NULL"}, stg : BOOLEAN, dur : BOOLEAN, fin : BOOLEAN,
              disp : Dispositions, rel : BOOLEAN, ack : BOOLEAN]
Owners == [pc : OwnerPlaces, bs : Executing \cup {"none"}, res : Results, def : BOOLEAN,
           cs : T!Allocs \cup {"NULL"}]
Snaps == [stg : BOOLEAN, dur : BOOLEAN, ack : BOOLEAN]
WorkerRows == [pc : WorkerPlaces, b : Batches \cup {None}, mode : Modes, cs : Ended \cup {"NULL"},
               snap : Snaps]

(* The types of everything.                                                *)
Shape ==
  /\ job \in [Jobs -> JobRows] /\ batch \in [Batches -> BatchRows]
  /\ owner \in [Batches -> Owners] /\ worker \in [Workers -> WorkerRows]
  /\ alloc \in [Batches -> T!Allocs] /\ start \in [Batches -> T!Starts]
  /\ tree \in [Batches -> T!Trees]
  /\ sent \in [Batches -> BOOLEAN] /\ gone \in [Batches -> SUBSET {"stage", "durable"}]
  /\ seen \in [Batches -> Results \cup {"no"}] /\ why \in [Batches -> {"no", "owner", "recovery"}]
  /\ closer \in [Batches -> Workers \cup {"no", "owner"}]

(* b is being cancelled or was cancelled.                                  *)
HasCancelled(b) == \E j \in Jobs : job[j].bat = b /\ job[j].st = "cancelled"
Canc(b) == batch[b].st = "cancelling" \/ HasCancelled(b)

Early == {"claimed", "reserve", "record", "stage", "gate"}
Recorded == {"stage", "gate", "launch", "sent", "accept", "wait", "asked", "asked-ledger",
             "outputs", "prelaunch", "authorize", "rmstage", "rmdurable", "finalize"}
Past == {"running", "fetching"}

(* Target and launch of one batch: row r, owner o, allocation a, start     *)
(* certainty c, tree t, launch request s.                                  *)
LaunchInv(r, o, a, c, t, s) ==
  /\ a \in {"NONE", "RESERVED"} => c = "NO"
  /\ c = "NO" => t \notin {"running", "ended"}
  /\ a \in Ended => t # "running"
  /\ r.st = "none" => o.pc = "none" /\ a = "NONE" /\ ~r.op /\ r.cst = "NULL"
  /\ o.pc = "none" => r.st = "none" /\ ~s
  /\ o.pc \in Recorded => r.op
  /\ o.pc = "launch" => o.bs \in Past
  /\ o.pc \in Early => o.bs \notin Past
  /\ s => r.op /\ o.bs \in Past
  /\ t # "none" => s
  /\ ~r.live /\ o.bs \in Past => a # "RESERVED"

(* What the owner was told, and what it has deleted (g), with its read end *)
(* of the command (e) and whether the batch is being cancelled (n).        *)
OwnerInv(r, o, a, t, g, e, n) ==
  /\ o.cs \in Ended => a = o.cs
  /\ o.pc \in {"authorize", "rmstage", "rmdurable", "finalize"} => o.cs \in Ended
  /\ o.pc \in {"rmstage", "rmdurable", "finalize"} => r.cst # "NULL"
  /\ o.res \in {"ok", "items"} => e = o.res /\ t = "ended"
  /\ g # {} => IF r.op THEN a \in Ended /\ r.cst # "NULL" ELSE ~r.live /\ r.st # "none"
  /\ r.rel => r.st = "failed"
  /\ n => /\ r.op /\ r.st \in {"cancelling", "failed"}
          /\ r.disp = "FENCED" \/ r.rel
          /\ r.rel \/ g = {}
          /\ o.pc \notin {"rmstage", "rmdurable"}

(* What a replay rests on (y: who requeued, z: who closed the cleanup).    *)
Unstarted(a, c) == a \in Ended /\ c = "NO"
ReplayInv(r, a, c, y, z) ==
  /\ r.fin /\ r.st \in BatchActive => z = "owner" \/ Unstarted(a, c)
  /\ y = "recovery" => /\ r.st = "failed" /\ r.disp = "FINALIZED"
                       /\ ~r.op \/ z = "owner" \/ Unstarted(a, c)

BatchInv(b) ==
  /\ LaunchInv(batch[b], owner[b], alloc[b], start[b], tree[b], sent[b])
  /\ OwnerInv(batch[b], owner[b], alloc[b], tree[b], gone[b], seen[b], Canc(b))
  /\ ReplayInv(batch[b], alloc[b], start[b], why[b], closer[b])

(* A recovery or operator pass x over the batch with row r.                *)
Deleting == {"rmstage", "stage-gone", "rmdurable", "dur-gone", "final"}
PassInv(x, r, a, c, y, n) ==
  /\ x.cs # "NULL" => a = x.cs
  /\ x.pc \in Deleting \cup {"progress", "c-stopped"} => x.cs # "NULL"
  /\ x.pc \in Deleting => r.op /\ r.cst # "NULL" /\ (n => r.rel)
  /\ x.pc = "rmonly" => ~r.op /\ ~r.live /\ r.st # "none"
  /\ x.pc \in {"cancel", "progress"} \cup Deleting /\ x.mode = "stale" =>
        c = "NO" /\ a \in Ended \cup {"RESERVED"}
  /\ x.mode # "none"
  /\ x.pc \in {"status", "cancel", "progress"} \cup Deleting =>
        x.mode \in {"stale", "terminal", "release"}
  /\ x.pc \in {"rmonly", "replay"} => x.mode = "stale"
  /\ x.pc = "r-authorize" => x.mode = "release"
  /\ x.mode = "stale" => ~r.live /\ r.st # "none"
  /\ x.mode = "terminal" => r.st \in {"done", "failed"}
  /\ x.mode = "release" => r.st = "failed"
  /\ y = "recovery" => x.mode \in {"cancelling", "fenced"}

WorkerInv(w) ==
  LET b == worker[w].b IN
  IF worker[w].pc = "idle" THEN worker[w] = IdleWorker
  ELSE /\ b \in Batches /\ PassInv(worker[w], batch[b], alloc[b], start[b], why[b], Canc(b))
       /\ w = "oper" => worker[w].mode \notin {"stale", "terminal"}

JobInv(j) ==
  LET b == job[j].bat IN
  /\ job[j].st = "queued" => b = None /\ job[j].att < MaxAttempts
  /\ job[j].st = "active" => b # None
  /\ job[j].st = "done" => b # None /\ tree[b] = "ended" /\ seen[b] \in {"ok", "items"}
                           /\ owner[b].pc = "end"
  /\ job[j].st = "cancelled" /\ b # None => batch[b].st = "failed" /\ alloc[b] \in Ended

IInv == /\ Shape
        /\ \A b \in Batches : BatchInv(b)
        /\ \A w \in Workers : WorkerInv(w)
        /\ \A j \in Jobs : JobInv(j)

-----------------------------------------------------------------------------
(* What a step may do to one batch and its operation.                      *)

TargetTypes == /\ alloc \in [Batches -> T!Allocs] /\ start \in [Batches -> T!Starts]
               /\ tree \in [Batches -> T!Trees]
TargetSame(b) == alloc'[b] = alloc[b] /\ start'[b] = start[b] /\ tree'[b] = tree[b]

Honest(a, c, t) == /\ a \in {"NONE", "RESERVED"} => c = "NO"
                   /\ c = "NO" => t \notin {"running", "ended"}
                   /\ a \in Ended => t # "running"

(* A target step other than the reservation.                               *)
TargetMoves(b) ==
  /\ Honest(alloc'[b], start'[b], tree'[b])
  /\ tree'[b] = "none" \/ tree[b] # "none" \/ sent[b]
  /\ alloc'[b] = "RESERVED" => alloc[b] = "RESERVED"
  /\ alloc'[b] = "NONE" <=> alloc[b] = "NONE"
  /\ alloc[b] \in Ended => alloc'[b] = alloc[b] /\ (start[b] = "NO" => start'[b] = "NO")
  /\ tree[b] = "ended" => tree'[b] = "ended"
  /\ alloc[b] = "RESERVED" /\ tree[b] = "none" =>
        alloc'[b] \in Ended \cup {"RESERVED"} /\ start'[b] = start[b]

\* Every step of TargetOp is such a move of its operation.
LEMMA TargetFacts ==
  ASSUME Shape, NEW b \in Batches, Honest(alloc[b], start[b], tree[b]),
         \/ TargetCancel(b)
         \/ sent[b] /\ T!Spawn(b)
         \/ T!Expire(b) \/ T!Begin(b) \/ T!Exit(b) \/ T!Claim(b) \/ T!Maybe(b) \/ T!Confirm(b)
         \/ T!Deny(b) \/ T!Quarantine(b) \/ T!Release(b)
  PROVE  TargetTypes' /\ TargetMoves(b) /\ \A q \in Batches \ {b} : TargetSame(q)
<1>1. /\ TargetTypes /\ alloc[b] \in T!Allocs /\ start[b] \in T!Starts /\ tree[b] \in T!Trees
  BY DEF Shape, TargetTypes
<1> USE <1>1 DEF TargetTypes, TargetMoves, TargetSame, Honest, Ended, T!Allocs, T!Starts, T!Trees,
        T!Held, T!Terminal, T!Set, T!Killed
<1>2. CASE T!Cancel(b)
  BY <1>2 DEF T!Cancel
<1>3. CASE T!CouldNotStop(b)
  BY <1>3 DEF T!CouldNotStop
<1>4. CASE alloc[b] \in T!Terminal /\ UNCHANGED target
  BY <1>4 DEF target
<1>5. CASE sent[b] /\ T!Spawn(b)
  BY <1>5 DEF T!Spawn
<1>6. CASE T!Expire(b) \/ T!Claim(b)
  BY <1>6 DEF T!Expire, T!Claim
<1>7. CASE T!Begin(b) \/ T!Exit(b)
  BY <1>7 DEF T!Begin, T!Exit
<1>8. CASE T!Maybe(b) \/ T!Confirm(b) \/ T!Deny(b)
  BY <1>8 DEF T!Maybe, T!Confirm, T!Deny
<1>9. CASE T!Quarantine(b) \/ T!Release(b)
  BY <1>9 DEF T!Quarantine, T!Release
<1>10. QED
  BY <1>2, <1>3, <1>4, <1>5, <1>6, <1>7, <1>8, <1>9 DEF TargetCancel

\* A reboot moves every operation.
LEMMA RebootFacts ==
  ASSUME Shape, \A b \in Batches : Honest(alloc[b], start[b], tree[b]), T!Reboot
  PROVE  TargetTypes' /\ \A b \in Batches : TargetMoves(b)
<1>1. TargetTypes
  BY DEF Shape, TargetTypes
<1>2. /\ alloc' = [o \in Batches |-> IF alloc[o] \in T!Held \cup {"RESERVED"}
                                     THEN "REBOOTED" ELSE alloc[o]]
      /\ tree' = [o \in Batches |-> T!Killed(tree[o])]
      /\ start' = start
  BY DEF T!Reboot
<1>3. QED
  BY <1>1, <1>2 DEF TargetTypes, TargetMoves, Honest, Ended, T!Allocs, T!Starts, T!Trees,
        T!Held, T!Terminal, T!Killed

(* What no step takes back, and the others rest on.                        *)
Mono(b) ==
  /\ batch[b].st # "none" =>
       batch'[b].st # "none" /\ (~batch[b].live => ~batch'[b].live /\ batch'[b].op = batch[b].op)
  /\ batch[b].st \in {"done", "failed"} => batch'[b].st = batch[b].st
  /\ batch[b].op => batch'[b].op
  /\ batch[b].cst # "NULL" => batch'[b].cst # "NULL"
  /\ batch[b].rel => batch'[b].rel
  /\ Canc(b)' => Canc(b) \/ batch[b].cst = "NULL"
  /\ alloc[b] \in Ended => alloc'[b] = alloc[b] /\ (start[b] = "NO" => start'[b] = "NO")
  /\ alloc[b] = "RESERVED" /\ ~batch[b].live =>
        alloc'[b] \in Ended \cup {"RESERVED"} /\ start'[b] = start[b]
  /\ tree[b] = "ended" => tree'[b] = "ended"
  /\ owner[b].pc = "end" => owner'[b].pc = "end" /\ seen'[b] = seen[b]

\* A pass that takes no step keeps what it knows.
LEMMA PassKeeps ==
  ASSUME Shape, Shape', NEW w \in Workers, WorkerInv(w), worker'[w] = worker[w],
         \A b \in Batches : Mono(b),
         \A b \in Batches : why'[b] = "recovery" =>
            why[b] = "recovery" \/ (batch[b].st \in BatchActive /\ w = "oper")
  PROVE  WorkerInv(w)'
<1>1. CASE worker[w].pc = "idle"
  BY <1>1 DEF WorkerInv
<1>2. CASE worker[w].pc # "idle"
  <2> DEFINE b == worker[w].b
  <2>1. /\ b \in Batches /\ PassInv(worker[w], batch[b], alloc[b], start[b], why[b], Canc(b))
        /\ w = "oper" => worker[w].mode \notin {"stale", "terminal"}
    BY <1>2 DEF WorkerInv
  <2>2. /\ Mono(b) /\ worker[w] \in WorkerRows /\ batch[b] \in BatchRows
        /\ why'[b] = "recovery" =>
             why[b] = "recovery" \/ (batch[b].st \in BatchActive /\ w = "oper")
    BY <2>1 DEF Shape
  <2> HIDE DEF b
  <2>3. PassInv(worker[w], batch'[b], alloc'[b], start'[b], why'[b], Canc(b)')
    BY <2>1, <2>2 DEF PassInv, Mono, Deleting, BatchActive, Executing, Ended, WorkerRows, BatchRows,
       Modes
  <2>4. QED
    BY <1>2, <2>1, <2>3 DEF WorkerInv, b
<1>3. QED
  BY <1>1, <1>2

\* A job that is left alone keeps what its outcome says.
LEMMA JobKeeps ==
  ASSUME Shape, NEW j \in Jobs, JobInv(j), job'[j] = job[j], \A b \in Batches : Mono(b)
  PROVE  JobInv(j)'
<1> DEFINE b == job[j].bat
<1>1. b = None \/ b \in Batches
  BY DEF Shape, JobRows
<1>2. CASE b = None
  BY <1>2 DEF JobInv
<1>3. CASE b \in Batches
  BY <1>3 DEF JobInv, Mono, Ended
<1>4. QED
  BY <1>1, <1>2, <1>3

(* Nothing of batch q changes; the jobs that change are b's.               *)
Still(q) == /\ batch'[q] = batch[q] /\ owner'[q] = owner[q] /\ TargetSame(q)
            /\ sent'[q] = sent[q] /\ gone'[q] = gone[q] /\ seen'[q] = seen[q]
            /\ why'[q] = why[q] /\ closer'[q] = closer[q]
JobsOf(b) == \A j \in Jobs : \/ job'[j] = job[j]
                             \/ /\ job[j].st \in {"queued", "active"} /\ job[j].bat \in {b, None}
                                /\ job'[j].bat \in {b, None}

\* The other batches stay as they are.
LEMMA StillKeeps ==
  ASSUME NEW b, NEW q \in Batches, q # b, BatchInv(q), Still(q), JobsOf(b)
  PROVE  BatchInv(q)' /\ Mono(q)
<1>1. q # None
  BY NoneAssumption
<1>2. HasCancelled(q)' <=> HasCancelled(q)
  <2>1. \A j \in Jobs : (job'[j].bat = q /\ job'[j].st = "cancelled")
                        <=> (job[j].bat = q /\ job[j].st = "cancelled")
    BY <1>1 DEF JobsOf
  <2>2. QED
    BY <2>1 DEF HasCancelled
<1>3. Canc(q)' <=> Canc(q)
  BY <1>2 DEF Canc, Still
<1>4. Mono(q)
  BY <1>3 DEF Mono, Still, TargetSame
<1>5. LaunchInv(batch[q], owner[q], alloc[q], start[q], tree[q], sent[q])'
  BY DEF BatchInv, Still, TargetSame
<1>6. OwnerInv(batch[q], owner[q], alloc[q], tree[q], gone[q], seen[q], Canc(q))'
  BY <1>3 DEF BatchInv, OwnerInv, Still, TargetSame
<1>7. ReplayInv(batch[q], alloc[q], start[q], why[q], closer[q])'
  BY DEF BatchInv, Still, TargetSame
<1>8. QED
  BY <1>4, <1>5, <1>6, <1>7 DEF BatchInv

(* The passes and jobs that a step touches.                                *)
PassOk(w) == \/ WorkerInv(w)'
             \/ /\ worker'[w] = worker[w]
                /\ \A b \in Batches : why'[b] = "recovery" =>
                      why[b] = "recovery" \/ (batch[b].st \in BatchActive /\ w = "oper")
JobOk(j) == job'[j] = job[j] \/ JobInv(j)'

\* A step that keeps every batch keeps everything.
LEMMA CombineAll ==
  ASSUME IInv, Shape', \A b \in Batches : BatchInv(b)' /\ Mono(b),
         \A w \in Workers : PassOk(w), \A j \in Jobs : JobOk(j)
  PROVE  IInv'
<1>1. \A w \in Workers : WorkerInv(w)'
  BY PassKeeps DEF PassOk, IInv
<1>2. \A j \in Jobs : JobInv(j)'
  BY JobKeeps DEF JobOk, IInv
<1>3. QED
  BY <1>1, <1>2 DEF IInv

\* A step of one batch.
LEMMA Combine ==
  ASSUME IInv, Shape', NEW b \in Batches, BatchInv(b)', Mono(b), JobsOf(b),
         \A q \in Batches \ {b} : Still(q),
         \A w \in Workers : PassOk(w), \A j \in Jobs : JobOk(j)
  PROVE  IInv'
<1>1. \A q \in Batches : BatchInv(q)' /\ Mono(q)
  BY StillKeeps DEF IInv
<1>2. QED
  BY <1>1, CombineAll

-----------------------------------------------------------------------------
(* How a step writes: the owner's record, a row, a pass.                   *)

OwnerTo(b, p, s, r, c) ==
  /\ owner' \in [Batches -> Owners] /\ \A q \in Batches \ {b} : owner'[q] = owner[q]
  /\ owner'[b].pc = p /\ owner'[b].bs = s /\ owner'[b].res = r /\ owner'[b].cs = c

\* What the owner's moves write.
LEMMA OwnerFacts ==
  ASSUME Shape, NEW b \in Batches
  PROVE  /\ \A p \in OwnerPlaces : Go(b, p) => OwnerTo(b, p, owner[b].bs, owner[b].res, owner[b].cs)
         /\ \A p \in OwnerPlaces, s \in Executing : Enter(b, p, s)
               => OwnerTo(b, p, s, owner[b].res, owner[b].cs)
         /\ \A p \in OwnerPlaces, r \in Results : Result(b, p, r)
               => OwnerTo(b, p, owner[b].bs, r, owner[b].cs)
         /\ \A r \in Results : Deferred(b, r)
               => OwnerTo(b, "finish", owner[b].bs, r, owner[b].cs)
         /\ \A p \in OwnerPlaces, r \in Results, c \in T!Allocs : Told(b, p, r, c)
               => OwnerTo(b, p, owner[b].bs, r, c)
<1>0. owner \in [Batches -> Owners]
  BY DEF Shape
<1> USE <1>0 DEF Owners, OwnerTo
<1>1. ASSUME NEW p \in OwnerPlaces, Go(b, p)
      PROVE  OwnerTo(b, p, owner[b].bs, owner[b].res, owner[b].cs)
  BY <1>1 DEF Go
<1>2. ASSUME NEW p \in OwnerPlaces, NEW s \in Executing, Enter(b, p, s)
      PROVE  OwnerTo(b, p, s, owner[b].res, owner[b].cs)
  BY <1>2 DEF Enter
<1>3. ASSUME NEW p \in OwnerPlaces, NEW r \in Results, Result(b, p, r)
      PROVE  OwnerTo(b, p, owner[b].bs, r, owner[b].cs)
  BY <1>3 DEF Result
<1>4. ASSUME NEW r \in Results, Deferred(b, r)
      PROVE  OwnerTo(b, "finish", owner[b].bs, r, owner[b].cs)
  <2>1. PICK v \in BOOLEAN : owner' = [owner EXCEPT ![b].pc = "finish", ![b].res = r, ![b].def = v]
    BY <1>4, Zenon DEF Deferred
  <2>2. "finish" \in OwnerPlaces
    BY DEF OwnerPlaces
  <2>3. owner'[b] = [owner[b] EXCEPT !.pc = "finish", !.res = r, !.def = v]
    BY <2>1
  <2>4. owner'[b] \in Owners /\ owner'[b].pc = "finish" /\ owner'[b].bs = owner[b].bs
        /\ owner'[b].res = r /\ owner'[b].cs = owner[b].cs
    <3>1. owner[b] \in Owners
      OBVIOUS
    <3> HIDE <1>0
    <3>2. owner'[b].pc = "finish" /\ owner'[b].bs = owner[b].bs
          /\ owner'[b].res = r /\ owner'[b].cs = owner[b].cs
      BY <2>3, <3>1
    <3>3. owner'[b] \in Owners
      BY <2>2, <2>3, <3>1
    <3>4. QED
      BY <3>2, <3>3
  <2> HIDE DEF Owners
  <2>5. \A q \in Batches \ {b} : owner'[q] = owner[q]
    BY <2>1
  <2>6. DOMAIN owner' = Batches /\ owner' = [q \in Batches |-> owner'[q]]
    BY <2>1
  <2>7. owner' \in [Batches -> Owners]
    BY <2>4, <2>5, <2>6
  <2>8. QED
    BY <2>4, <2>5, <2>7
<1>5. ASSUME NEW p \in OwnerPlaces, NEW r \in Results, NEW c \in T!Allocs, Told(b, p, r, c)
      PROVE  OwnerTo(b, p, owner[b].bs, r, c)
  <2>1. owner[b] \in Owners
    OBVIOUS
  <2>2. /\ owner'[b] = [owner[b] EXCEPT !.pc = p, !.res = r, !.cs = c]
        /\ \A q \in Batches \ {b} : owner'[q] = owner[q]
        /\ DOMAIN owner' = Batches /\ owner' = [q \in Batches |-> owner'[q]]
    BY <1>5 DEF Told
  <2>3. owner'[b] \in Owners
    BY <2>1, <2>2
  <2>4. owner'[b].pc = p /\ owner'[b].bs = owner[b].bs /\ owner'[b].res = r /\ owner'[b].cs = c
    BY <2>1, <2>2
  <2> HIDE DEF Owners
  <2>5. owner' \in [Batches -> Owners]
    BY <2>2, <2>3
  <2>6. QED
    BY <2>2, <2>4, <2>5
<1>6. QED
  BY <1>1, <1>2, <1>3, <1>4, <1>5

WorkerTo(w, p, b, m, c) ==
  /\ worker' \in [Workers -> WorkerRows] /\ \A v \in Workers \ {w} : worker'[v] = worker[v]
  /\ worker'[w].pc = p /\ worker'[w].b = b /\ worker'[w].mode = m /\ worker'[w].cs = c

\* What the moves of a pass write; a pass that stops is idle.
LEMMA WorkerFacts ==
  ASSUME Shape, NEW w \in Workers
  PROVE  /\ \A p \in WorkerPlaces : To(w, p)
               => WorkerTo(w, p, worker[w].b, worker[w].mode, worker[w].cs)
         /\ \A p \in WorkerPlaces, c \in Ended : Answered(w, p, c)
               => WorkerTo(w, p, worker[w].b, worker[w].mode, c)
         /\ \A b \in Batches, m \in Modes, p \in WorkerPlaces : Take(w, b, m, p)
               => WorkerTo(w, p, b, m, "NULL")
         /\ Leave(w) => WorkerTo(w, "idle", None, "none", "NULL") /\ WorkerInv(w)'
<1>1. ASSUME NEW p \in WorkerPlaces, To(w, p)
      PROVE  WorkerTo(w, p, worker[w].b, worker[w].mode, worker[w].cs)
  BY <1>1 DEF To, WorkerTo, Shape, WorkerRows
<1>2. ASSUME NEW p \in WorkerPlaces, NEW c \in Ended, Answered(w, p, c)
      PROVE  WorkerTo(w, p, worker[w].b, worker[w].mode, c)
  <2>1. worker \in [Workers -> WorkerRows] /\ worker[w] \in WorkerRows
    BY DEF Shape
  <2>2. /\ worker'[w] = [worker[w] EXCEPT !.pc = p, !.cs = c]
        /\ \A v \in Workers \ {w} : worker'[v] = worker[v]
        /\ DOMAIN worker' = Workers /\ worker' = [v \in Workers |-> worker'[v]]
    BY <1>2, <2>1 DEF Answered
  <2>3. /\ worker'[w] \in WorkerRows /\ worker'[w].pc = p /\ worker'[w].b = worker[w].b
        /\ worker'[w].mode = worker[w].mode /\ worker'[w].cs = c
    BY <2>1, <2>2 DEF WorkerRows
  <2>4. worker' \in [Workers -> WorkerRows]
    BY <2>1, <2>2, <2>3
  <2>5. QED
    BY <2>2, <2>3, <2>4 DEF WorkerTo
<1>0. IdleWorker \in WorkerRows /\ IdleWorker.pc = "idle" /\ IdleWorker.b = None
      /\ IdleWorker.mode = "none" /\ IdleWorker.cs = "NULL"
  <2>1. NoSnap \in Snaps
    BY DEF NoSnap, Snaps
  <2>2. QED
    BY <2>1 DEF IdleWorker, WorkerRows, WorkerPlaces, Modes
<1>3. ASSUME NEW b \in Batches, NEW m \in Modes, NEW p \in WorkerPlaces, Take(w, b, m, p)
      PROVE  WorkerTo(w, p, b, m, "NULL")
  <2>1. Snap(b) \in Snaps
    BY DEF Snap, Snaps, Shape, BatchRows
  <2>2. worker' = [worker EXCEPT ![w] = [IdleWorker EXCEPT !.pc = p, !.b = b, !.mode = m,
                                                         !.snap = Snap(b)]]
    BY <1>3 DEF Take
  <2>3. QED
    BY <1>0, <2>1, <2>2 DEF WorkerTo, Shape, WorkerRows
<1>4. ASSUME Leave(w) PROVE WorkerTo(w, "idle", None, "none", "NULL") /\ WorkerInv(w)'
  <2>1. worker'[w] = IdleWorker /\ worker' = [worker EXCEPT ![w] = IdleWorker]
    BY <1>4 DEF Leave, Shape
  <2>2. WorkerTo(w, "idle", None, "none", "NULL")
    BY <1>0, <2>1 DEF WorkerTo, Shape
  <2>3. WorkerInv(w)'
    BY <1>0, <2>1 DEF WorkerInv
  <2>4. QED
    BY <2>2, <2>3
<1>5. QED
  BY <1>1, <1>2, <1>3, <1>4

RowTo(b, s, l, o, c, f, d, r) ==
  /\ batch' \in [Batches -> BatchRows] /\ \A q \in Batches \ {b} : batch'[q] = batch[q]
  /\ batch'[b].st = s /\ (batch'[b].live <=> l) /\ (batch'[b].op <=> o) /\ batch'[b].cst = c
  /\ (batch'[b].fin <=> f) /\ batch'[b].disp = d /\ (batch'[b].rel <=> r)
  /\ batch'[b].op \in BOOLEAN /\ batch'[b].live \in BOOLEAN

\* A row that is written has the fields it was given.
LEMMA RowFacts ==
  ASSUME Shape, NEW b \in Batches, NEW r \in BatchRows, Row(b, r)
  PROVE  RowTo(b, r.st, r.live, r.op, r.cst, r.fin, r.disp, r.rel)
<1>1. batch \in [Batches -> BatchRows] /\ batch' = [batch EXCEPT ![b] = r]
  BY DEF Shape, Row
<1>2. batch' \in [Batches -> BatchRows] /\ batch'[b] = r /\ \A q \in Batches \ {b} : batch'[q] = batch[q]
  BY <1>1
<1>3. r.op \in BOOLEAN /\ r.live \in BOOLEAN
  BY DEF BatchRows
<1>4. QED
  BY <1>2, <1>3 DEF RowTo

\* The transactions of FleetQueue, as they change a row.
LEMMA CloseFacts ==
  ASSUME Shape, NEW b \in Batches, NEW s \in BatchActive \cup {"done", "failed"},
         NEW d \in Dispositions, Close(b, s, d)
  PROVE  RowTo(b, s, batch[b].live, batch[b].op, batch[b].cst, batch[b].fin, d, batch[b].rel)
<1> DEFINE r == [batch[b] EXCEPT !.st = s, !.disp = d]
<1>1. batch[b] \in BatchRows
  BY DEF Shape
<1>2. /\ r \in BatchRows /\ r.st = s /\ r.live = batch[b].live /\ r.op = batch[b].op
      /\ r.cst = batch[b].cst /\ r.fin = batch[b].fin /\ r.disp = d /\ r.rel = batch[b].rel
  BY <1>1 DEF BatchRows
<1>3. Row(b, r)
  BY DEF Close
<1> HIDE DEF r
<1>4. RowTo(b, r.st, r.live, r.op, r.cst, r.fin, r.disp, r.rel)
  BY <1>2, <1>3, RowFacts
<1>5. QED
  BY <1>2, <1>4

\* set_batch_state changes the state and nothing else.
LEMMA SetStateFacts ==
  ASSUME Shape, NEW b \in Batches, NEW s \in BatchActive, SetBatchState(b, s)
  PROVE  RowTo(b, s, batch[b].live, batch[b].op, batch[b].cst, batch[b].fin, batch[b].disp,
               batch[b].rel)
<1> DEFINE r == [batch[b] EXCEPT !.st = s]
<1>1. batch[b] \in BatchRows
  BY DEF Shape
<1>2. /\ r \in BatchRows /\ r.st = s /\ r.live = batch[b].live /\ r.op = batch[b].op
      /\ r.cst = batch[b].cst /\ r.fin = batch[b].fin /\ r.disp = batch[b].disp
      /\ r.rel = batch[b].rel
  BY <1>1 DEF BatchRows
<1>3. Row(b, r)
  BY DEF SetBatchState
<1> HIDE DEF r
<1>4. RowTo(b, r.st, r.live, r.op, r.cst, r.fin, r.disp, r.rel)
  BY <1>2, <1>3, RowFacts
<1>5. QED
  BY <1>2, <1>4

\* The writes of a flag: the identity, the lapse of the lease, the release.
LEMMA FlagFacts ==
  ASSUME Shape, NEW b \in Batches
  PROVE  /\ RecordTargetReservation(b) =>
              RowTo(b, batch[b].st, batch[b].live, TRUE, batch[b].cst, batch[b].fin, batch[b].disp,
                    batch[b].rel)
         /\ LeaseLapses(b) =>
              RowTo(b, batch[b].st, FALSE, batch[b].op, batch[b].cst, batch[b].fin, batch[b].disp,
                    batch[b].rel)
         /\ \A k \in BOOLEAN : AuthorizeTargetRelease(b, k) =>
              RowTo(b, batch[b].st, batch[b].live, batch[b].op, batch[b].cst, batch[b].fin,
                    batch[b].disp, TRUE)
<1>0. batch[b] \in BatchRows
  BY DEF Shape
<1>1. ASSUME RecordTargetReservation(b)
      PROVE  RowTo(b, batch[b].st, batch[b].live, TRUE, batch[b].cst, batch[b].fin, batch[b].disp,
                   batch[b].rel)
  <2>1. PICK v \in BOOLEAN : v /\ Row(b, [batch[b] EXCEPT !.op = v])
    BY <1>1, Zenon DEF RecordTargetReservation
  <2> DEFINE r == [batch[b] EXCEPT !.op = v]
  <2>2. /\ r \in BatchRows /\ r.st = batch[b].st /\ r.live = batch[b].live /\ r.op = v
        /\ r.cst = batch[b].cst /\ r.fin = batch[b].fin /\ r.disp = batch[b].disp
        /\ r.rel = batch[b].rel
    BY <1>0 DEF BatchRows
  <2> HIDE DEF r
  <2>3. RowTo(b, r.st, r.live, r.op, r.cst, r.fin, r.disp, r.rel)
    BY <2>1, <2>2, RowFacts DEF r
  <2>4. QED
    BY <2>1, <2>2, <2>3 DEF RowTo
<1>2. ASSUME LeaseLapses(b)
      PROVE  RowTo(b, batch[b].st, FALSE, batch[b].op, batch[b].cst, batch[b].fin, batch[b].disp,
                   batch[b].rel)
  <2>1. PICK v \in BOOLEAN : ~v /\ Row(b, [batch[b] EXCEPT !.live = v])
    BY <1>2, Zenon DEF LeaseLapses
  <2> DEFINE r == [batch[b] EXCEPT !.live = v]
  <2>2. /\ r \in BatchRows /\ r.st = batch[b].st /\ r.live = v /\ r.op = batch[b].op
        /\ r.cst = batch[b].cst /\ r.fin = batch[b].fin /\ r.disp = batch[b].disp
        /\ r.rel = batch[b].rel
    BY <1>0 DEF BatchRows
  <2> HIDE DEF r
  <2>3. RowTo(b, r.st, r.live, r.op, r.cst, r.fin, r.disp, r.rel)
    BY <2>1, <2>2, RowFacts DEF r
  <2>4. QED
    BY <2>1, <2>2, <2>3 DEF RowTo
<1>3. ASSUME NEW k \in BOOLEAN, AuthorizeTargetRelease(b, k)
      PROVE  RowTo(b, batch[b].st, batch[b].live, batch[b].op, batch[b].cst, batch[b].fin,
                   batch[b].disp, TRUE)
  <2>0. (batch[b].ack \/ k) \in BOOLEAN
    OBVIOUS
  <2>1. PICK v \in BOOLEAN, m \in BOOLEAN : v /\ Row(b, [batch[b] EXCEPT !.rel = v, !.ack = m])
    BY <1>3, <2>0, Zenon DEF AuthorizeTargetRelease
  <2> DEFINE r == [batch[b] EXCEPT !.rel = v, !.ack = m]
  <2>2. /\ r \in BatchRows /\ r.st = batch[b].st /\ r.live = batch[b].live /\ r.op = batch[b].op
        /\ r.cst = batch[b].cst /\ r.fin = batch[b].fin /\ r.disp = batch[b].disp
        /\ r.rel = v
    BY <1>0 DEF BatchRows
  <2> HIDE DEF r
  <2>3. RowTo(b, r.st, r.live, r.op, r.cst, r.fin, r.disp, r.rel)
    BY <2>1, <2>2, RowFacts DEF r
  <2>4. QED
    BY <2>1, <2>2, <2>3 DEF RowTo
<1>4. QED
  BY <1>1, <1>2, <1>3

\* The writes of the cleanup state.
LEMMA CleanupFacts ==
  ASSUME Shape, NEW b \in Batches, NEW c \in Ended
  PROVE  /\ AuthorizeTargetCleanup(b, c) =>
              RowTo(b, batch[b].st, batch[b].live, batch[b].op, c, batch[b].fin, "PENDING",
                    batch[b].rel)
         /\ RecordFencedCancellation(b, c) =>
              RowTo(b, batch[b].st, batch[b].live, batch[b].op, c, batch[b].fin, batch[b].disp,
                    batch[b].rel)
         /\ CancelActiveBatch(b, c) =>
              RowTo(b, "failed", batch[b].live, batch[b].op, c, batch[b].fin, batch[b].disp,
                    batch[b].rel)
         /\ Row(b, Finalized(b, c)) =>
              RowTo(b, batch[b].st, batch[b].live, batch[b].op, c, TRUE, "FINALIZED", batch[b].rel)
<1>0. batch[b] \in BatchRows
  BY DEF Shape
<1>1. ASSUME NEW s \in {batch[b].st, "failed"}, NEW d \in {batch[b].disp, "PENDING"},
             Row(b, [batch[b] EXCEPT !.st = s, !.cst = c, !.disp = d])
      PROVE  RowTo(b, s, batch[b].live, batch[b].op, c, batch[b].fin, d, batch[b].rel)
  <2> DEFINE r == [batch[b] EXCEPT !.st = s, !.cst = c, !.disp = d]
  <2>2. /\ r \in BatchRows /\ r.st = s /\ r.live = batch[b].live /\ r.op = batch[b].op
        /\ r.cst = c /\ r.fin = batch[b].fin /\ r.disp = d /\ r.rel = batch[b].rel
    BY <1>0 DEF BatchRows, Dispositions
  <2> HIDE DEF r
  <2>3. RowTo(b, r.st, r.live, r.op, r.cst, r.fin, r.disp, r.rel)
    BY <1>1, <2>2, RowFacts DEF r
  <2>4. QED
    BY <2>2, <2>3
<1>2. /\ [batch[b] EXCEPT !.cst = c, !.disp = "PENDING"]
           = [batch[b] EXCEPT !.st = batch[b].st, !.cst = c, !.disp = "PENDING"]
      /\ [batch[b] EXCEPT !.cst = c]
           = [batch[b] EXCEPT !.st = batch[b].st, !.cst = c, !.disp = batch[b].disp]
      /\ [batch[b] EXCEPT !.st = "failed", !.cst = c]
           = [batch[b] EXCEPT !.st = "failed", !.cst = c, !.disp = batch[b].disp]
  BY <1>0 DEF BatchRows
<1>3. ASSUME Row(b, Finalized(b, c))
      PROVE  RowTo(b, batch[b].st, batch[b].live, batch[b].op, c, TRUE, "FINALIZED", batch[b].rel)
  <2>1. PICK v \in BOOLEAN : v /\ Row(b, [batch[b] EXCEPT !.cst = c, !.stg = v, !.dur = v,
                                                          !.fin = v, !.disp = "FINALIZED"])
    BY <1>3, Zenon DEF Finalized
  <2> DEFINE r == [batch[b] EXCEPT !.cst = c, !.stg = v, !.dur = v, !.fin = v,
                                   !.disp = "FINALIZED"]
  <2>2. /\ r \in BatchRows /\ r.st = batch[b].st /\ r.live = batch[b].live /\ r.op = batch[b].op
        /\ r.cst = c /\ r.fin = v /\ r.disp = "FINALIZED" /\ r.rel = batch[b].rel
    BY <1>0 DEF BatchRows, Dispositions
  <2> HIDE DEF r
  <2>3. RowTo(b, r.st, r.live, r.op, r.cst, r.fin, r.disp, r.rel)
    BY <2>1, <2>2, RowFacts DEF r
  <2>4. QED
    BY <2>1, <2>2, <2>3 DEF RowTo
<1>4. QED
  BY <1>1, <1>2, <1>3 DEF AuthorizeTargetCleanup, RecordFencedCancellation, CancelActiveBatch

\* Cleanup progress never takes a recorded state or proof back.
LEMMA ProgressFacts ==
  ASSUME Shape, NEW b \in Batches, NEW c \in Ended \cup {"NULL"}, NEW x \in BOOLEAN,
         NEW y \in BOOLEAN, NEW z \in BOOLEAN, RecordCleanupProgress(b, c, x, y, z)
  PROVE  \E d \in Dispositions :
           /\ RowTo(b, batch[b].st, batch[b].live, batch[b].op,
                    IF c = "NULL" THEN batch[b].cst ELSE c, batch[b].fin, d, batch[b].rel)
           /\ d = batch[b].disp \/ d = "REPLAYABLE" \/ d = "PENDING"
           /\ ~z /\ batch[b].disp # "NULL" => d = batch[b].disp
<1>0. batch[b] \in BatchRows
  BY DEF Shape
<1> DEFINE d == IF z THEN "REPLAYABLE"
                ELSE IF batch[b].disp = "NULL" THEN "PENDING" ELSE batch[b].disp
           k == IF c = "NULL" THEN batch[b].cst ELSE c
<1>1. d \in Dispositions /\ k \in Ended \cup {"NULL"}
  BY <1>0 DEF Dispositions, BatchRows
<1>2. (d = batch[b].disp \/ d = "REPLAYABLE" \/ d = "PENDING")
      /\ (~z /\ batch[b].disp # "NULL" => d = batch[b].disp)
  OBVIOUS
<1>3. Row(b, [batch[b] EXCEPT !.cst = k, !.stg = @ \/ x, !.dur = @ \/ y, !.disp = d])
  BY DEF RecordCleanupProgress
<1>4. (batch[b].stg \/ x) \in BOOLEAN /\ (batch[b].dur \/ y) \in BOOLEAN
  OBVIOUS
<1> HIDE DEF d
<1>5. PICK m \in BOOLEAN, n \in BOOLEAN :
         Row(b, [batch[b] EXCEPT !.cst = k, !.stg = m, !.dur = n, !.disp = d])
  BY <1>3, <1>4, Zenon
<1> DEFINE r == [batch[b] EXCEPT !.cst = k, !.stg = m, !.dur = n, !.disp = d]
<1>6. /\ r \in BatchRows /\ r.st = batch[b].st /\ r.live = batch[b].live /\ r.op = batch[b].op
      /\ r.cst = k /\ r.fin = batch[b].fin /\ r.disp = d /\ r.rel = batch[b].rel
  <2> HIDE DEF k
  <2>1. r \in BatchRows
    BY <1>0, <1>1 DEF BatchRows
  <2>2. /\ r.st = batch[b].st /\ r.live = batch[b].live /\ r.op = batch[b].op
        /\ r.cst = k /\ r.fin = batch[b].fin /\ r.disp = d /\ r.rel = batch[b].rel
    BY <1>0 DEF BatchRows
  <2>3. QED
    BY <2>1, <2>2
<1> HIDE DEF r
<1>7. RowTo(b, r.st, r.live, r.op, r.cst, r.fin, r.disp, r.rel)
  BY <1>5, <1>6, RowFacts DEF r
<1>8. QED
  BY <1>1, <1>2, <1>6, <1>7

-----------------------------------------------------------------------------
(* The owner's and the target's steps that write no row.                   *)

ReserveMoves(b) == /\ owner[b].pc = "reserve" /\ alloc[b] = "NONE" /\ alloc'[b] = "RESERVED"
                   /\ start'[b] = start[b] /\ tree'[b] = tree[b]
RowRests(b) == /\ batch'[b] = batch[b] /\ gone'[b] = gone[b] /\ seen'[b] = seen[b]
               /\ why'[b] = why[b] /\ closer'[b] = closer[b]

(* The owner goes on without having recorded anything.                     *)
OwnerRests(b, p, s, r, c) ==
  /\ p = "none" <=> owner[b].pc = "none"
  /\ owner[b].pc = "end" => p = "end"
  /\ p = "launch" => owner[b].pc = "launch"
  /\ p \in Early => owner[b].pc \in Early
  /\ p \in Recorded => owner[b].pc \in Recorded
  /\ p \in {"rmstage", "rmdurable", "finalize"} => owner[b].pc = p
  /\ p \in {"authorize", "rmstage", "rmdurable", "finalize"} => c \in Ended
  /\ c = owner[b].cs \/ (c \in Ended => alloc'[b] = c)
  /\ s = owner[b].bs
  /\ r \in {"ok", "items"} => r = owner[b].res

\* Such a step keeps the batch's invariant.
LEMMA MoveKeeps ==
  ASSUME Shape, Shape', NEW b \in Batches, BatchInv(b), UNCHANGED job, RowRests(b),
         TargetMoves(b) \/ ReserveMoves(b),
         OwnerRests(b, owner'[b].pc, owner'[b].bs, owner'[b].res, owner'[b].cs),
         sent'[b] = sent[b] \/ (owner[b].pc = "launch" /\ sent'[b])
  PROVE  BatchInv(b)' /\ Mono(b)
<1>0. /\ Canc(b)' <=> Canc(b)
      /\ batch[b] \in BatchRows /\ owner[b] \in Owners /\ sent[b] \in BOOLEAN /\ sent'[b] \in BOOLEAN
  <2>1. Canc(b)' <=> Canc(b)
    BY DEF Canc, HasCancelled, RowRests
  <2>2. QED
    BY <2>1 DEF Shape
<1>1. /\ LaunchInv(batch[b], owner[b], alloc[b], start[b], tree[b], sent[b])
      /\ OwnerInv(batch[b], owner[b], alloc[b], tree[b], gone[b], seen[b], Canc(b))
      /\ ReplayInv(batch[b], alloc[b], start[b], why[b], closer[b])
  BY DEF BatchInv
<1> USE DEF RowRests, OwnerRests, ReserveMoves, TargetMoves, Honest, Ended
<1>2. LaunchInv(batch'[b], owner'[b], alloc'[b], start'[b], tree'[b], sent'[b])
  BY <1>0, <1>1 DEF LaunchInv, Past, Early, Recorded
<1>3. OwnerInv(batch'[b], owner'[b], alloc'[b], tree'[b], gone'[b], seen'[b], Canc(b)')
  BY <1>0, <1>1 DEF OwnerInv
<1>4. ReplayInv(batch'[b], alloc'[b], start'[b], why'[b], closer'[b])
  BY <1>1 DEF ReplayInv, Unstarted
<1>5. Mono(b)
  BY <1>0, <1>1 DEF Mono, LaunchInv, Past, Early
<1>6. QED
  BY <1>2, <1>3, <1>4, <1>5 DEF BatchInv

Resting == UNCHANGED <<job, batch, worker, gone, seen, why, closer>>

\* And so everything, when it is a step of one batch.
LEMMA RestingStep ==
  ASSUME IInv, NEW b \in Batches, Resting, NEW p, NEW s, NEW r, NEW c,
         OwnerTo(b, p, s, r, c), OwnerRests(b, p, s, r, c), TargetTypes',
         TargetMoves(b) \/ ReserveMoves(b), \A q \in Batches \ {b} : TargetSame(q),
         sent' = sent \/ (owner[b].pc = "launch" /\ sent' = [sent EXCEPT ![b] = TRUE])
  PROVE  IInv'
<1>1. /\ sent' \in [Batches -> BOOLEAN] /\ \A q \in Batches \ {b} : sent'[q] = sent[q]
      /\ sent'[b] = sent[b] \/ (owner[b].pc = "launch" /\ sent'[b])
  <2>1. sent \in [Batches -> BOOLEAN]
    BY DEF IInv, Shape
  <2>2. CASE sent' = sent
    BY <2>1, <2>2
  <2>3. CASE owner[b].pc = "launch" /\ sent' = [sent EXCEPT ![b] = TRUE]
    <3>1. PICK v \in BOOLEAN : v /\ sent' = [sent EXCEPT ![b] = v]
      BY <2>3, Zenon
    <3>2. QED
      BY <2>1, <2>3, <3>1
  <2>4. QED
    BY <2>2, <2>3
<1>2. Shape'
  BY <1>1 DEF IInv, Shape, Resting, OwnerTo, TargetTypes
<1>3. \A q \in Batches \ {b} : Still(q)
  BY <1>1 DEF Still, Resting, OwnerTo
<1>4. RowRests(b) /\ BatchInv(b) /\ Shape
  BY DEF RowRests, Resting, IInv
<1>5. BatchInv(b)' /\ Mono(b)
  BY <1>1, <1>2, <1>4, MoveKeeps DEF Resting, OwnerTo
<1>6. JobsOf(b) /\ (\A w \in Workers : PassOk(w)) /\ (\A j \in Jobs : JobOk(j))
  BY DEF JobsOf, PassOk, JobOk, Resting
<1>7. QED
  BY <1>2, <1>3, <1>5, <1>6, Combine

\* The target's own steps, and the owner's that only ask or tell the target.
LEMMA TargetSteps ==
  ASSUME IInv, NEW b \in Batches, TargetStep(b)
  PROVE  IInv'
<1>0. Shape /\ owner \in [Batches -> Owners] /\ Honest(alloc[b], start[b], tree[b])
  BY DEF IInv, BatchInv, LaunchInv, Honest, Shape
<1>1. Resting /\ UNCHANGED <<owner, sent>>
  BY DEF TargetStep, Resting, queue, history
<1>2. TargetTypes' /\ TargetMoves(b) /\ \A q \in Batches \ {b} : TargetSame(q)
  BY <1>0, TargetFacts DEF TargetStep
<1>3. OwnerTo(b, owner[b].pc, owner[b].bs, owner[b].res, owner[b].cs)
  BY <1>0, <1>1 DEF OwnerTo
<1>4. OwnerRests(b, owner[b].pc, owner[b].bs, owner[b].res, owner[b].cs)
  BY DEF OwnerRests, IInv, BatchInv, OwnerInv
<1>5. QED
  BY <1>1, <1>2, <1>3, <1>4, RestingStep

\* A reboot of the target.
LEMMA RebootStep ==
  ASSUME IInv, TargetReboots
  PROVE  IInv'
<1>0. Shape /\ \A b \in Batches : Honest(alloc[b], start[b], tree[b])
  BY DEF IInv, BatchInv, LaunchInv, Honest
<1>1. UNCHANGED <<job, batch, worker, gone, seen, why, closer, owner, sent>> /\ T!Reboot
  BY DEF TargetReboots, queue, history
<1>2. TargetTypes' /\ \A b \in Batches : TargetMoves(b)
  BY <1>0, <1>1, RebootFacts
<1>3. Shape'
  BY <1>0, <1>1, <1>2 DEF Shape, TargetTypes
<1>4. ASSUME NEW b \in Batches PROVE BatchInv(b)' /\ Mono(b)
  <2>1. RowRests(b) /\ BatchInv(b) /\ sent'[b] = sent[b] /\ TargetMoves(b)
    BY <1>1, <1>2 DEF RowRests, IInv
  <2>2. OwnerRests(b, owner'[b].pc, owner'[b].bs, owner'[b].res, owner'[b].cs)
    BY <1>1 DEF OwnerRests, IInv, BatchInv, OwnerInv
  <2>3. QED
    BY <1>0, <1>1, <1>3, <2>1, <2>2, MoveKeeps
<1>5. (\A w \in Workers : PassOk(w)) /\ (\A j \in Jobs : JobOk(j))
  BY <1>1 DEF PassOk, JobOk
<1>6. QED
  BY <1>3, <1>4, <1>5, CombineAll

\* The owner's steps that write nothing: it goes on, gives up, or tells the
\* target to cancel.
LEMMA OwnerRestingSteps ==
  ASSUME IInv, NEW b \in Batches,
         \/ OwnerReserves(b) \/ OwnerAbandons(b) \/ OwnerLaunches(b) \/ OwnerHears(b)
         \/ OwnerAccepts(b) \/ OwnerAsks(b) \/ OwnerAsksLedger(b) \/ OwnerSeesFailure(b)
         \/ OwnerCancels(b) \/ OwnerRaises(b)
  PROVE  IInv'
<1>0. /\ Shape /\ Honest(alloc[b], start[b], tree[b]) /\ owner[b] \in Owners
      /\ alloc[b] \in T!Allocs /\ start[b] \in T!Starts /\ tree[b] \in T!Trees
      /\ OwnerInv(batch[b], owner[b], alloc[b], tree[b], gone[b], seen[b], Canc(b))
  BY DEF IInv, BatchInv, LaunchInv, Honest, Shape
<1>1. Resting
  BY Zenon DEF OwnerReserves, OwnerAbandons, OwnerLaunches, OwnerHears, OwnerAccepts, OwnerAsks,
     OwnerAsksLedger, OwnerSeesFailure, OwnerCancels, OwnerRaises, Resting, queue, history
<1>2. ASSUME UNCHANGED target
      PROVE  TargetTypes' /\ TargetMoves(b) /\ \A q \in Batches \ {b} : TargetSame(q)
  BY <1>0, <1>2 DEF target, TargetTypes, TargetMoves, TargetSame, Honest, Shape, Ended, T!Allocs,
     T!Held, T!Terminal
<1>3. ASSUME TargetCancel(b)
      PROVE  TargetTypes' /\ TargetMoves(b) /\ \A q \in Batches \ {b} : TargetSame(q)
  BY <1>0, <1>3, TargetFacts
<1>4. ASSUME NEW p \in OwnerPlaces \ {"none"}, NEW r \in Results, NEW c \in T!Allocs \cup {"NULL"},
             OwnerTo(b, p, owner[b].bs, r, c), owner[b].pc \notin {"none", "end"},
             r \notin {"ok", "items"} \/ r = owner[b].res,
             p \in {"finish", "end", "abandon"}
             \/ (owner[b].pc = "reserve" /\ p = "record")
             \/ (owner[b].pc \in Recorded /\ p \in {"prelaunch", "sent", "asked", "accept",
                                                    "wait", "asked-ledger"})
             \/ (owner[b].pc \in Recorded /\ p = "authorize" /\ c \in Ended),
             c = owner[b].cs \/ (c \in Ended => alloc'[b] = c)
      PROVE  OwnerRests(b, p, owner[b].bs, r, c)
  BY <1>4 DEF OwnerRests, Early, Recorded
<1>5. CASE OwnerReserves(b)
  <2>0. owner[b].pc = "reserve" /\ sent' = sent
    BY <1>5 DEF OwnerReserves, At
  <2>1. /\ TargetTypes' /\ (TargetMoves(b) \/ ReserveMoves(b))
        /\ \A q \in Batches \ {b} : TargetSame(q)
    <3>1. CASE UNCHANGED target
      BY <1>2, <3>1
    <3>2. CASE T!Reserve(b)
      BY <1>0, <2>0, <3>2 DEF T!Reserve, T!Set, TargetTypes, ReserveMoves, TargetSame, Shape,
         T!Allocs
    <3>3. QED
      BY <1>5, <3>1, <3>2 DEF OwnerReserves
  <2>2. Go(b, "record") \/ Result(b, "finish", "refused")
    BY <1>5 DEF OwnerReserves
  <2>3. \/ OwnerTo(b, "record", owner[b].bs, owner[b].res, owner[b].cs)
        \/ OwnerTo(b, "finish", owner[b].bs, "refused", owner[b].cs)
    BY <1>0, <2>2, OwnerFacts DEF OwnerPlaces, Results
  <2>4. \E p, r : /\ OwnerTo(b, p, owner[b].bs, r, owner[b].cs)
                  /\ OwnerRests(b, p, owner[b].bs, r, owner[b].cs)
    BY <1>0, <1>4, <2>0, <2>3 DEF Owners, OwnerPlaces, Results
  <2>5. QED
    BY <1>1, <2>0, <2>1, <2>4, RestingStep
<1>6. CASE OwnerAbandons(b)
  <2>0. owner[b].pc = "abandon" /\ sent' = sent /\ (TargetCancel(b) \/ UNCHANGED target)
    BY <1>6 DEF OwnerAbandons, At
  <2>1. OwnerTo(b, "end", owner[b].bs, owner[b].res, owner[b].cs)
    BY <1>0, <1>6, OwnerFacts DEF OwnerAbandons, OwnerPlaces
  <2>2. OwnerRests(b, "end", owner[b].bs, owner[b].res, owner[b].cs)
    BY <1>0, <1>4, <2>0, <2>1 DEF Owners, OwnerPlaces
  <2>3. QED
    BY <1>1, <1>2, <1>3, <2>0, <2>1, <2>2, RestingStep
<1>7. CASE OwnerLaunches(b)
  <2>0. /\ owner[b].pc = "launch" /\ UNCHANGED target
        /\ sent' = sent \/ sent' = [sent EXCEPT ![b] = TRUE]
        /\ Result(b, "prelaunch", "notlive") \/ Go(b, "sent") \/ Go(b, "asked")
    BY <1>7, Zenon DEF OwnerLaunches, At
  <2>1. \/ OwnerTo(b, "prelaunch", owner[b].bs, "notlive", owner[b].cs)
        \/ OwnerTo(b, "sent", owner[b].bs, owner[b].res, owner[b].cs)
        \/ OwnerTo(b, "asked", owner[b].bs, owner[b].res, owner[b].cs)
    BY <1>0, <2>0, OwnerFacts DEF OwnerPlaces, Results
  <2>2. \E p, r : /\ OwnerTo(b, p, owner[b].bs, r, owner[b].cs)
                  /\ OwnerRests(b, p, owner[b].bs, r, owner[b].cs)
    BY <1>0, <1>4, <2>0, <2>1 DEF Owners, OwnerPlaces, Results, Recorded
  <2>3. sent' = sent \/ (owner[b].pc = "launch" /\ sent' = [sent EXCEPT ![b] = TRUE])
    BY <2>0, Zenon
  <2>4. TargetTypes' /\ TargetMoves(b) /\ \A q \in Batches \ {b} : TargetSame(q)
    BY <1>2, <2>0
  <2>5. QED
    BY <1>1, <2>2, <2>3, <2>4, RestingStep, Zenon
<1>8. CASE OwnerHears(b) \/ OwnerAccepts(b) \/ OwnerAsks(b) \/ OwnerAsksLedger(b)
           \/ OwnerSeesFailure(b) \/ OwnerRaises(b)
  <2>0. UNCHANGED target /\ sent' = sent
    BY <1>8, Zenon DEF OwnerHears, OwnerAccepts, OwnerAsks, OwnerAsksLedger, OwnerSeesFailure,
       OwnerRaises
  <2>1. /\ owner[b].pc \notin {"none", "end"}
        /\ \/ owner[b].pc \in Recorded
              /\ \/ Go(b, "accept") \/ Go(b, "asked") \/ Go(b, "wait") \/ Go(b, "asked-ledger")
                 \/ Result(b, "prelaunch", "notstarted")
                 \/ alloc[b] \in T!Terminal /\ Told(b, "authorize", "notstarted", alloc[b])
           \/ Go(b, "end") \/ Deferred(b, "unknown") \/ Deferred(b, "notstarted")
           \/ Result(b, "finish", "refused")
    <3>1. CASE OwnerHears(b) \/ OwnerAccepts(b) \/ OwnerAsks(b)
      BY <3>1 DEF OwnerHears, OwnerAccepts, OwnerAsks, At, Recorded
    <3>2. CASE OwnerAsksLedger(b)
      BY <3>2 DEF OwnerAsksLedger, At, Recorded
    <3>3. CASE OwnerSeesFailure(b)
      BY <3>3 DEF OwnerSeesFailure, At, Recorded
    <3>4. CASE OwnerRaises(b)
      BY <3>4 DEF OwnerRaises
    <3>5. QED
      BY <1>8, <3>1, <3>2, <3>3, <3>4
  <2>2. \E p, r, c : /\ OwnerTo(b, p, owner[b].bs, r, c)
                     /\ OwnerRests(b, p, owner[b].bs, r, c)
    <3>1. alloc'[b] = alloc[b]
      BY <2>0 DEF target
    <3>2. CASE owner[b].pc \in Recorded /\ alloc[b] \in T!Terminal
               /\ Told(b, "authorize", "notstarted", alloc[b])
      <4>1. OwnerTo(b, "authorize", owner[b].bs, "notstarted", alloc[b])
        BY <1>0, <3>2, OwnerFacts DEF OwnerPlaces, Results
      <4>2. QED
        BY <1>0, <1>4, <2>1, <3>1, <3>2, <4>1 DEF OwnerPlaces, Results, Ended, T!Terminal
    <3>3. CASE owner[b].pc \in Recorded
               /\ \/ Go(b, "accept") \/ Go(b, "asked") \/ Go(b, "wait") \/ Go(b, "asked-ledger")
                  \/ Result(b, "prelaunch", "notstarted")
      <4>1. \/ \E p \in {"accept", "asked", "wait", "asked-ledger"} :
                  OwnerTo(b, p, owner[b].bs, owner[b].res, owner[b].cs)
            \/ OwnerTo(b, "prelaunch", owner[b].bs, "notstarted", owner[b].cs)
        BY <1>0, <3>3, OwnerFacts DEF OwnerPlaces, Results
      <4>2. QED
        BY <1>0, <1>4, <2>1, <3>3, <4>1 DEF OwnerPlaces, Results, Owners
    <3>4. CASE \/ Go(b, "end") \/ Deferred(b, "unknown") \/ Deferred(b, "notstarted")
               \/ Result(b, "finish", "refused")
      <4>1. \/ OwnerTo(b, "end", owner[b].bs, owner[b].res, owner[b].cs)
            \/ \E r \in {"unknown", "notstarted", "refused"} :
                  OwnerTo(b, "finish", owner[b].bs, r, owner[b].cs)
        BY <1>0, <3>4, OwnerFacts DEF OwnerPlaces, Results
      <4>2. QED
        BY <1>0, <1>4, <2>1, <4>1 DEF OwnerPlaces, Results, Owners
    <3>5. QED
      BY <2>1, <3>2, <3>3, <3>4
  <2>3. QED
    BY <1>1, <1>2, <2>0, <2>2, RestingStep
<1>9. CASE OwnerCancels(b)
  <2>0. owner[b].pc = "prelaunch" /\ sent' = sent /\ (TargetCancel(b) \/ UNCHANGED target)
    BY <1>9, Zenon DEF OwnerCancels, At
  <2>1. /\ TargetTypes' /\ TargetMoves(b) /\ \A q \in Batches \ {b} : TargetSame(q)
    BY <1>2, <1>3, <2>0
  <2>2. \/ alloc'[b] \in T!Terminal /\ Told(b, "authorize", owner[b].res, alloc'[b])
        \/ Deferred(b, owner[b].res)
    BY <1>9, Zenon DEF OwnerCancels
  <2>3. \E p, c : /\ OwnerTo(b, p, owner[b].bs, owner[b].res, c)
                  /\ OwnerRests(b, p, owner[b].bs, owner[b].res, c)
    <3>1. CASE alloc'[b] \in T!Terminal /\ Told(b, "authorize", owner[b].res, alloc'[b])
      <4>1. alloc'[b] \in T!Allocs /\ owner[b].res \in Results
        BY <1>0, <3>1 DEF T!Allocs, T!Terminal, Owners
      <4>2. OwnerTo(b, "authorize", owner[b].bs, owner[b].res, alloc'[b])
        BY <1>0, <3>1, <4>1, OwnerFacts DEF OwnerPlaces
      <4>3. QED
        BY <1>4, <2>0, <3>1, <4>1, <4>2 DEF OwnerPlaces, Ended, T!Terminal, Recorded
    <3>2. CASE Deferred(b, owner[b].res)
      <4>1. OwnerTo(b, "finish", owner[b].bs, owner[b].res, owner[b].cs)
        BY <1>0, <3>2, OwnerFacts DEF Owners
      <4>2. QED
        BY <1>0, <1>4, <2>0, <4>1 DEF OwnerPlaces, Owners
    <3>3. QED
      BY <2>2, <3>1, <3>2
  <2>4. QED
    BY <1>1, <2>0, <2>1, <2>3, RestingStep
<1>10. QED
  BY <1>5, <1>6, <1>7, <1>8, <1>9

-----------------------------------------------------------------------------
(* Steps that write, and only about batch b.                               *)

Touches(g, f, b, S) == g \in [Batches -> S] /\ \A q \in Batches \ {b} : g[q] = f[q]
Local(b) ==
  /\ Touches(batch', batch, b, BatchRows) /\ Touches(owner', owner, b, Owners)
  /\ TargetTypes' /\ (\A q \in Batches \ {b} : TargetSame(q)) /\ sent' = sent
  /\ Touches(gone', gone, b, SUBSET {"stage", "durable"})
  /\ Touches(seen', seen, b, Results \cup {"no"})
  /\ Touches(why', why, b, {"no", "owner", "recovery"})
  /\ Touches(closer', closer, b, Workers \cup {"no", "owner"})
  /\ worker' \in [Workers -> WorkerRows] /\ job' \in [Jobs -> JobRows] /\ JobsOf(b)

\* What remains to be shown of such a step.
LEMMA LocalStep ==
  ASSUME IInv, NEW b \in Batches, Local(b), BatchInv(b)', Mono(b),
         \A w \in Workers : PassOk(w), \A j \in Jobs : JobOk(j)
  PROVE  IInv'
<1>1. Shape'
  BY DEF IInv, Shape, Local, Touches, TargetTypes
<1>2. \A q \in Batches \ {b} : Still(q)
  BY DEF Local, Touches, Still
<1>3. JobsOf(b)
  BY DEF Local
<1>4. QED
  BY <1>1, <1>2, <1>3, Combine

\* What the invariant says of one batch.
LEMMA BatchFacts ==
  ASSUME IInv, NEW b \in Batches
  PROVE  /\ Shape /\ batch[b] \in BatchRows /\ owner[b] \in Owners /\ sent[b] \in BOOLEAN
         /\ alloc[b] \in T!Allocs /\ start[b] \in T!Starts /\ tree[b] \in T!Trees
         /\ Honest(alloc[b], start[b], tree[b]) /\ BatchInv(b)
         /\ LaunchInv(batch[b], owner[b], alloc[b], start[b], tree[b], sent[b])
         /\ OwnerInv(batch[b], owner[b], alloc[b], tree[b], gone[b], seen[b], Canc(b))
         /\ ReplayInv(batch[b], alloc[b], start[b], why[b], closer[b])
<1>1. BatchInv(b) /\ Shape
  BY DEF IInv
<1>2. /\ LaunchInv(batch[b], owner[b], alloc[b], start[b], tree[b], sent[b])
      /\ OwnerInv(batch[b], owner[b], alloc[b], tree[b], gone[b], seen[b], Canc(b))
      /\ ReplayInv(batch[b], alloc[b], start[b], why[b], closer[b])
  BY <1>1 DEF BatchInv
<1>3. Honest(alloc[b], start[b], tree[b])
  BY <1>2 DEF LaunchInv, Honest
<1>4. /\ batch[b] \in BatchRows /\ owner[b] \in Owners /\ sent[b] \in BOOLEAN
      /\ alloc[b] \in T!Allocs /\ start[b] \in T!Starts /\ tree[b] \in T!Trees
  BY <1>1 DEF Shape
<1>5. QED
  BY <1>1, <1>2, <1>3, <1>4

\* An owner that holds its lease: nobody cancels, nobody has requeued.
LEMMA HolderFacts ==
  ASSUME IInv, NEW b \in Batches, Holds(b), owner[b].pc # "none"
  PROVE  /\ batch[b].st = owner[b].bs /\ batch[b].st \in Executing /\ batch[b].live
         /\ ~Canc(b) /\ ~HasCancelled(b) /\ ~batch[b].rel /\ why[b] # "recovery"
         /\ gone[b] # {} => batch[b].op
<1>1. batch[b].st = owner[b].bs /\ batch[b].live /\ owner[b] \in Owners
  BY BatchFacts DEF Holds, Owned
<1>2. batch[b].st \in Executing
  BY <1>1, BatchFacts DEF LaunchInv, Owners
<1>3. OwnerInv(batch[b], owner[b], alloc[b], tree[b], gone[b], seen[b], Canc(b))
      /\ ReplayInv(batch[b], alloc[b], start[b], why[b], closer[b])
  BY BatchFacts
<1>4. ~Canc(b) /\ ~batch[b].rel /\ why[b] # "recovery" /\ (gone[b] # {} => batch[b].op)
  BY <1>1, <1>2, <1>3 DEF OwnerInv, ReplayInv, Executing
<1>5. ~HasCancelled(b)
  BY <1>4 DEF Canc
<1>6. QED
  BY <1>1, <1>2, <1>4, <1>5

\* No job of the batch changes: it is being cancelled when its row says so,
\* or was before.
LEMMA CancelledKept ==
  ASSUME NEW b \in Batches, job' = job
  PROVE  /\ HasCancelled(b)' <=> HasCancelled(b)
         /\ Canc(b)' <=> (batch'[b].st = "cancelling" \/ HasCancelled(b))
<1>1. HasCancelled(b)' <=> HasCancelled(b)
  BY DEF HasCancelled
<1>2. QED
  BY <1>1 DEF Canc

(* The owner, under its fence, writes its row r to n and goes from o to p. *)
HolderWrites(r, n, o, p, z) ==
  /\ n.st \in Executing /\ n.live /\ (r.op => n.op) /\ ~n.rel
  /\ r.cst # "NULL" => n.cst # "NULL"
  /\ n.fin => r.fin \/ z = "owner"
  /\ o.pc \notin {"none", "end"} /\ p.pc # "none"
  /\ p.pc \in Recorded => n.op
  /\ p.pc = "launch" => p.bs \in Past
  /\ p.pc \in Early => p.bs \notin Past
  /\ o.bs \in Past => p.bs \in Past
  /\ p.cs = o.cs /\ p.res = o.res
  /\ p.pc \in {"authorize", "rmstage", "rmdurable", "finalize"} => p.cs \in Ended
  /\ p.pc \in {"rmstage", "rmdurable", "finalize"} => n.cst # "NULL"

\* The owner's transactions that leave the batch executing.
LEMMA HolderStep ==
  ASSUME IInv, NEW b \in Batches, Holds(b), job' = job, UNCHANGED <<worker, target, sent, gone>>,
         UNCHANGED <<seen, why>>,
         Touches(batch', batch, b, BatchRows), Touches(owner', owner, b, Owners),
         Touches(closer', closer, b, Workers \cup {"no", "owner"}),
         closer'[b] = closer[b] \/ closer'[b] = "owner",
         HolderWrites(batch[b], batch'[b], owner[b], owner'[b], closer'[b])
  PROVE  IInv'
<1>0. /\ alloc' = alloc /\ start' = start /\ tree' = tree /\ gone' = gone /\ sent' = sent
      /\ seen' = seen /\ why' = why /\ worker' = worker
  BY DEF target
<1>1. owner[b].pc \notin {"none", "end"}
  BY DEF HolderWrites
<1>2. /\ batch[b].st = owner[b].bs /\ batch[b].st \in Executing /\ batch[b].live
      /\ ~Canc(b) /\ ~HasCancelled(b) /\ ~batch[b].rel /\ why[b] # "recovery"
      /\ gone[b] # {} => batch[b].op
  BY <1>1, HolderFacts
<1>3. /\ ~Canc(b)'
      /\ batch'[b] \in BatchRows /\ batch[b] \in BatchRows /\ owner'[b] \in Owners
      /\ owner[b] \in Owners
  <2>1. batch'[b].st # "cancelling"
    BY DEF HolderWrites, Executing
  <2>2. QED
    BY <1>2, <2>1, CancelledKept, BatchFacts DEF Touches
<1>4. /\ LaunchInv(batch[b], owner[b], alloc[b], start[b], tree[b], sent[b])
      /\ OwnerInv(batch[b], owner[b], alloc[b], tree[b], gone[b], seen[b], Canc(b))
      /\ ReplayInv(batch[b], alloc[b], start[b], why[b], closer[b])
  BY BatchFacts
<1>5. LaunchInv(batch'[b], owner'[b], alloc[b], start[b], tree[b], sent[b])
  BY <1>2, <1>3, <1>4 DEF LaunchInv, HolderWrites, Executing
<1>6. OwnerInv(batch'[b], owner'[b], alloc[b], tree[b], gone[b], seen[b], Canc(b)')
  BY <1>2, <1>3, <1>4 DEF OwnerInv, HolderWrites
<1>7. ReplayInv(batch'[b], alloc[b], start[b], why[b], closer'[b])
  BY <1>2, <1>4 DEF ReplayInv, HolderWrites, BatchActive, Executing
<1>8. BatchInv(b)'
  BY <1>0, <1>5, <1>6, <1>7 DEF BatchInv
<1>9. Mono(b)
  BY <1>0, <1>1, <1>2, <1>3 DEF Mono, HolderWrites, Executing
<1>10. Local(b)
  BY <1>0, BatchFacts DEF Local, Touches, Shape, TargetTypes, TargetSame, JobsOf
<1>11. (\A w \in Workers : PassOk(w)) /\ (\A j \in Jobs : JobOk(j))
  BY <1>0 DEF PassOk, JobOk
<1>12. QED
  BY <1>8, <1>9, <1>10, <1>11, LocalStep

\* The owner's own progress: it takes the batch up, records the reservation,
\* passes the gate, fetches, authorizes the cleanup and records its end.
LEMMA OwnerHolderSteps ==
  ASSUME IInv, NEW b \in Batches, Holds(b), owner[b].pc \notin {"none", "end"},
         UNCHANGED <<worker, target, sent, gone, seen, why>>,
         \/ /\ owner[b].pc = "claimed" /\ SetBatchState(b, "staging") /\ closer' = closer
            /\ Enter(b, "reserve", "staging")
         \/ /\ owner[b].pc = "record" /\ RecordTargetReservation(b) /\ Go(b, "stage")
            /\ closer' = closer
         \/ /\ owner[b].pc = "gate" /\ SetBatchState(b, "running") /\ Enter(b, "launch", "running")
            /\ closer' = closer
         \/ /\ owner[b].pc = "authorize" /\ Go(b, "rmstage") /\ closer' = closer
            /\ AuthorizeTargetCleanup(b, owner[b].cs)
         \/ /\ owner[b].pc = "finalize" /\ Go(b, "finish")
            /\ RecordTargetFinalization(b, owner[b].cs)
            /\ closer' = [closer EXCEPT ![b] = "owner"]
         \/ /\ SetBatchState(b, "fetching") /\ Enter(b, "finish", "fetching") /\ closer' = closer
  PROVE  IInv'
<1>0. /\ Shape /\ batch[b] \in BatchRows /\ owner[b] \in Owners
      /\ LaunchInv(batch[b], owner[b], alloc[b], start[b], tree[b], sent[b])
      /\ OwnerInv(batch[b], owner[b], alloc[b], tree[b], gone[b], seen[b], Canc(b))
      /\ batch[b].st = owner[b].bs /\ batch[b].st \in Executing /\ batch[b].live /\ ~batch[b].rel
      /\ batch[b].op \in BOOLEAN /\ batch[b].fin \in BOOLEAN
  BY BatchFacts, HolderFacts DEF BatchRows
<1>1. closer \in [Batches -> Workers \cup {"no", "owner"}]
  BY <1>0 DEF Shape
<1>2. ASSUME closer' = closer
      PROVE  Touches(closer', closer, b, Workers \cup {"no", "owner"}) /\ closer'[b] = closer[b]
  BY <1>1, <1>2 DEF Touches
<1> USE DEF Early, Recorded, Past
<1>3. CASE /\ owner[b].pc = "claimed" /\ SetBatchState(b, "staging") /\ closer' = closer
           /\ Enter(b, "reserve", "staging")
  <2>1. OwnerTo(b, "reserve", "staging", owner[b].res, owner[b].cs)
    BY <1>0, <1>3, OwnerFacts DEF OwnerPlaces, Executing
  <2>2. RowTo(b, "staging", batch[b].live, batch[b].op, batch[b].cst, batch[b].fin, batch[b].disp,
              batch[b].rel)
    BY <1>0, <1>3, SetStateFacts DEF BatchActive, Executing
  <2>3. job' = job /\ owner[b].bs \notin Past /\ "staging" \in Executing
    BY <1>0, <1>3 DEF SetBatchState, LaunchInv, Executing
  <2>4. HolderWrites(batch[b], batch'[b], owner[b], owner'[b], closer'[b])
    BY <1>0, <1>1, <1>2, <1>3, <2>1, <2>2, <2>3 DEF RowTo, OwnerTo, HolderWrites
  <2>5. Touches(batch', batch, b, BatchRows) /\ Touches(owner', owner, b, Owners)
    BY <2>1, <2>2 DEF RowTo, OwnerTo, Touches
  <2>6. QED
    BY <1>2, <1>3, <2>3, <2>4, <2>5, HolderStep
<1>4. CASE /\ owner[b].pc = "record" /\ RecordTargetReservation(b) /\ Go(b, "stage")
           /\ closer' = closer
  <2>1. OwnerTo(b, "stage", owner[b].bs, owner[b].res, owner[b].cs)
    BY <1>0, <1>4, OwnerFacts DEF OwnerPlaces
  <2>2. PICK v \in BOOLEAN : v /\ RowTo(b, batch[b].st, batch[b].live, v, batch[b].cst,
                                        batch[b].fin, batch[b].disp, batch[b].rel)
    BY <1>0, <1>4, FlagFacts, Zenon
  <2>3. job' = job /\ owner[b].bs \notin Past
    BY <1>0, <1>4 DEF RecordTargetReservation, LaunchInv
  <2>4. HolderWrites(batch[b], batch'[b], owner[b], owner'[b], closer'[b])
    BY <1>0, <1>1, <1>2, <1>4, <2>1, <2>2, <2>3 DEF RowTo, OwnerTo, HolderWrites
  <2>5. Touches(batch', batch, b, BatchRows) /\ Touches(owner', owner, b, Owners)
    BY <2>1, <2>2 DEF RowTo, OwnerTo, Touches
  <2>6. QED
    BY <1>2, <1>4, <2>3, <2>4, <2>5, HolderStep
<1>5. CASE /\ owner[b].pc = "gate" /\ SetBatchState(b, "running") /\ Enter(b, "launch", "running")
           /\ closer' = closer
  <2>1. OwnerTo(b, "launch", "running", owner[b].res, owner[b].cs)
    BY <1>0, <1>5, OwnerFacts DEF OwnerPlaces, Executing
  <2>2. RowTo(b, "running", batch[b].live, batch[b].op, batch[b].cst, batch[b].fin, batch[b].disp,
              batch[b].rel)
    BY <1>0, <1>5, SetStateFacts DEF BatchActive, Executing
  <2>3. job' = job /\ batch[b].op /\ "running" \in Executing
    BY <1>0, <1>5 DEF SetBatchState, LaunchInv, Executing
  <2>4. HolderWrites(batch[b], batch'[b], owner[b], owner'[b], closer'[b])
    BY <1>0, <1>1, <1>2, <1>5, <2>1, <2>2, <2>3 DEF RowTo, OwnerTo, HolderWrites
  <2>5. Touches(batch', batch, b, BatchRows) /\ Touches(owner', owner, b, Owners)
    BY <2>1, <2>2 DEF RowTo, OwnerTo, Touches
  <2>6. QED
    BY <1>2, <1>5, <2>3, <2>4, <2>5, HolderStep
<1>6. CASE /\ owner[b].pc = "authorize" /\ Go(b, "rmstage") /\ closer' = closer
           /\ AuthorizeTargetCleanup(b, owner[b].cs)
  <2>0. owner[b].cs \in Ended /\ batch[b].op /\ owner[b].cs # "NULL"
    BY <1>0, <1>6 DEF OwnerInv, LaunchInv, Ended
  <2>1. OwnerTo(b, "rmstage", owner[b].bs, owner[b].res, owner[b].cs)
    BY <1>0, <1>6, OwnerFacts DEF OwnerPlaces
  <2>2. RowTo(b, batch[b].st, batch[b].live, batch[b].op, owner[b].cs, batch[b].fin, "PENDING",
              batch[b].rel)
    BY <1>0, <1>6, <2>0, CleanupFacts
  <2>3. job' = job
    BY <1>6 DEF AuthorizeTargetCleanup
  <2>4. HolderWrites(batch[b], batch'[b], owner[b], owner'[b], closer'[b])
    BY <1>0, <1>1, <1>2, <1>6, <2>0, <2>1, <2>2, <2>3 DEF RowTo, OwnerTo, HolderWrites
  <2>5. Touches(batch', batch, b, BatchRows) /\ Touches(owner', owner, b, Owners)
    BY <2>1, <2>2 DEF RowTo, OwnerTo, Touches
  <2>6. QED
    BY <1>2, <1>6, <2>3, <2>4, <2>5, HolderStep
<1>7. CASE /\ owner[b].pc = "finalize" /\ Go(b, "finish")
           /\ RecordTargetFinalization(b, owner[b].cs)
           /\ closer' = [closer EXCEPT ![b] = "owner"]
  <2>0. owner[b].cs \in Ended /\ batch[b].op /\ owner[b].cs # "NULL"
    BY <1>0, <1>7 DEF OwnerInv, LaunchInv, Ended
  <2>1. OwnerTo(b, "finish", owner[b].bs, owner[b].res, owner[b].cs)
    BY <1>0, <1>7, OwnerFacts DEF OwnerPlaces
  <2>2. PICK v \in BOOLEAN : v /\ RowTo(b, batch[b].st, batch[b].live, batch[b].op, owner[b].cs, v,
                                        "FINALIZED", batch[b].rel)
    BY <1>0, <1>7, <2>0, CleanupFacts, Zenon DEF RecordTargetFinalization
  <2>3. job' = job /\ Touches(closer', closer, b, Workers \cup {"no", "owner"})
        /\ closer'[b] = "owner"
    BY <1>1, <1>7 DEF RecordTargetFinalization, Touches
  <2>4. HolderWrites(batch[b], batch'[b], owner[b], owner'[b], closer'[b])
    BY <1>0, <1>1, <1>7, <2>0, <2>1, <2>2, <2>3 DEF RowTo, OwnerTo, HolderWrites
  <2>5. Touches(batch', batch, b, BatchRows) /\ Touches(owner', owner, b, Owners)
    BY <2>1, <2>2 DEF RowTo, OwnerTo, Touches
  <2>6. QED
    BY <1>2, <1>7, <2>3, <2>4, <2>5, HolderStep
<1>8. CASE SetBatchState(b, "fetching") /\ Enter(b, "finish", "fetching") /\ closer' = closer
  <2>1. OwnerTo(b, "finish", "fetching", owner[b].res, owner[b].cs)
    BY <1>0, <1>8, OwnerFacts DEF OwnerPlaces, Executing
  <2>2. RowTo(b, "fetching", batch[b].live, batch[b].op, batch[b].cst, batch[b].fin, batch[b].disp,
              batch[b].rel)
    BY <1>0, <1>8, SetStateFacts DEF BatchActive, Executing
  <2>3. job' = job /\ "fetching" \in Executing
    BY <1>8 DEF SetBatchState, Executing
  <2>4. HolderWrites(batch[b], batch'[b], owner[b], owner'[b], closer'[b])
    BY <1>0, <1>1, <1>2, <1>8, <2>1, <2>2, <2>3 DEF RowTo, OwnerTo, HolderWrites
  <2>5. Touches(batch', batch, b, BatchRows) /\ Touches(owner', owner, b, Owners)
    BY <2>1, <2>2 DEF RowTo, OwnerTo, Touches
  <2>6. QED
    BY <1>2, <1>8, <2>3, <2>4, <2>5, HolderStep
<1>9. QED
  BY <1>3, <1>4, <1>5, <1>6, <1>7, <1>8

\* A target that is left alone makes the least of moves.
LEMMA TargetRests ==
  ASSUME IInv, NEW b \in Batches, UNCHANGED target
  PROVE  TargetTypes' /\ TargetMoves(b) /\ \A q \in Batches : TargetSame(q)
<1>1. alloc' = alloc /\ start' = start /\ tree' = tree
  BY DEF target
<1>2. TargetTypes' /\ \A q \in Batches : TargetSame(q)
  BY <1>1 DEF IInv, Shape, TargetTypes, TargetSame
<1>3. QED
  BY <1>1, <1>2, BatchFacts DEF TargetMoves, Honest, Ended, T!Allocs, T!Held, T!Terminal

\* The owner finds its fence gone, or goes on without a transaction.
LEMMA QuietSteps ==
  ASSUME IInv, NEW b \in Batches, Resting, UNCHANGED <<target, sent>>,
         \/ owner[b].pc \in {"record", "gate"} /\ Go(b, "abandon")
         \/ owner[b].pc = "gate" /\ Result(b, "prelaunch", "drift")
         \/ owner[b].pc \notin {"none", "end"} /\ Go(b, "end")
  PROVE  IInv'
<1>0. Shape /\ owner[b] \in Owners /\ TargetTypes' /\ TargetMoves(b)
      /\ \A q \in Batches \ {b} : TargetSame(q)
  BY BatchFacts, TargetRests
<1>1. \/ owner[b].pc \in {"record", "gate"}
         /\ OwnerTo(b, "abandon", owner[b].bs, owner[b].res, owner[b].cs)
      \/ owner[b].pc = "gate" /\ OwnerTo(b, "prelaunch", owner[b].bs, "drift", owner[b].cs)
      \/ owner[b].pc \notin {"none", "end"}
         /\ OwnerTo(b, "end", owner[b].bs, owner[b].res, owner[b].cs)
  BY <1>0, OwnerFacts DEF OwnerPlaces, Results
<1>2. \E p, r : /\ OwnerTo(b, p, owner[b].bs, r, owner[b].cs)
                /\ OwnerRests(b, p, owner[b].bs, r, owner[b].cs)
  BY <1>1 DEF OwnerRests, Early, Recorded
<1>3. QED
  BY <1>0, <1>2, RestingStep

(* The owner deletes or stages, or reads the end of the command.           *)
OwnerReads(o, p, a, t, g, h, e, f) ==
  /\ p.pc \notin {"none", "launch", "end"} \cup (Early \ {"gate"}) /\ o.pc \in Recorded
  /\ p.pc = "gate" => o.pc = "stage"
  /\ p.pc \in {"rmdurable", "finalize"} => o.pc \in {"rmstage", "rmdurable"}
  /\ p.pc \notin {"authorize", "rmstage"}
  /\ p.bs = o.bs
  /\ p.cs = o.cs \/ (p.cs \in Ended => a = p.cs)
  /\ p.pc \in {"rmdurable", "finalize"} => p.cs = o.cs
  /\ p.res \in {"ok", "items"} => (p.res = o.res /\ f = e) \/ (f = p.res /\ t = "ended")
  /\ h \subseteq g \/ o.pc \in {"rmstage", "rmdurable"}

\* Such a step keeps everything.
LEMMA OwnerReadStep ==
  ASSUME IInv, NEW b \in Batches, UNCHANGED <<job, batch, worker, target, sent, why, closer>>,
         Touches(owner', owner, b, Owners), Touches(seen', seen, b, Results \cup {"no"}),
         Touches(gone', gone, b, SUBSET {"stage", "durable"}),
         OwnerReads(owner[b], owner'[b], alloc[b], tree[b], gone[b], gone'[b], seen[b],
                    seen'[b])
  PROVE  IInv'
<1>0. /\ alloc' = alloc /\ start' = start /\ tree' = tree /\ sent' = sent /\ job' = job
      /\ batch' = batch /\ why' = why /\ worker' = worker /\ closer' = closer
  BY DEF target
<1>1. Canc(b)' <=> Canc(b)
  BY <1>0, CancelledKept DEF Canc
<1>2. /\ LaunchInv(batch[b], owner[b], alloc[b], start[b], tree[b], sent[b])
      /\ OwnerInv(batch[b], owner[b], alloc[b], tree[b], gone[b], seen[b], Canc(b))
      /\ ReplayInv(batch[b], alloc[b], start[b], why[b], closer[b])
      /\ batch[b] \in BatchRows /\ owner[b] \in Owners /\ owner'[b] \in Owners
  BY BatchFacts DEF Touches
<1>3. LaunchInv(batch[b], owner'[b], alloc[b], start[b], tree[b], sent[b])
  BY <1>2 DEF LaunchInv, OwnerReads, Recorded, Early
<1>4. OwnerInv(batch[b], owner'[b], alloc[b], tree[b], gone'[b], seen'[b], Canc(b))
  <2>1. owner[b].pc \in {"rmstage", "rmdurable"} =>
           alloc[b] \in Ended /\ batch[b].cst # "NULL" /\ batch[b].op /\ ~Canc(b)
    BY <1>2 DEF OwnerInv, LaunchInv, Recorded
  <2>2. gone'[b] # {} => gone[b] # {} \/ owner[b].pc \in {"rmstage", "rmdurable"}
    BY DEF OwnerReads
  <2>3. QED
    BY <1>2, <2>1, <2>2 DEF OwnerInv, OwnerReads
<1>5. BatchInv(b)'
  BY <1>0, <1>1, <1>2, <1>3, <1>4 DEF BatchInv, OwnerInv
<1>6. Mono(b)
  BY <1>0, <1>1, <1>2 DEF Mono, OwnerReads, Recorded, Ended
<1>7. Local(b)
  BY <1>0, BatchFacts DEF Local, Touches, Shape, TargetTypes, TargetSame, JobsOf
<1>8. (\A w \in Workers : PassOk(w)) /\ (\A j \in Jobs : JobOk(j))
  BY <1>0 DEF PassOk, JobOk
<1>9. QED
  BY <1>5, <1>6, <1>7, <1>8, LocalStep

\* Staging, deleting, and reading the end.
LEMMA OwnerReadSteps ==
  ASSUME IInv, NEW b \in Batches, OwnerStages(b) \/ OwnerRemoves(b) \/ OwnerSeesEnd(b)
  PROVE  IInv'
<1>0. /\ Shape /\ owner[b] \in Owners /\ gone \in [Batches -> SUBSET {"stage", "durable"}]
      /\ seen \in [Batches -> Results \cup {"no"}] /\ owner[b].res \in Results
      /\ alloc[b] \in T!Allocs
      /\ OwnerInv(batch[b], owner[b], alloc[b], tree[b], gone[b], seen[b], Canc(b))
  <2>1. Shape /\ owner[b] \in Owners /\ alloc[b] \in T!Allocs
        /\ OwnerInv(batch[b], owner[b], alloc[b], tree[b], gone[b], seen[b], Canc(b))
    BY BatchFacts
  <2>2. QED
    BY <2>1 DEF Shape, Owners
<1>1. UNCHANGED <<job, batch, worker, target, sent, why, closer>>
  BY Zenon DEF OwnerStages, OwnerRemoves, OwnerSeesEnd, queue, history
<1>2. CASE OwnerStages(b)
  <2>1. /\ owner[b].pc = "stage" /\ gone' = [gone EXCEPT ![b] = gone[b] \ {"stage"}] /\ seen' = seen
        /\ Go(b, "gate") \/ \E r \in {"staging", "review"} : Result(b, "prelaunch", r)
    BY <1>2 DEF OwnerStages, At, history
  <2>2. \/ OwnerTo(b, "gate", owner[b].bs, owner[b].res, owner[b].cs)
        \/ \E r \in {"staging", "review"} : OwnerTo(b, "prelaunch", owner[b].bs, r, owner[b].cs)
    <3>1. {"gate", "prelaunch"} \subseteq OwnerPlaces /\ {"staging", "review"} \subseteq Results
      BY DEF OwnerPlaces, Results
    <3>2. ASSUME Go(b, "gate") PROVE OwnerTo(b, "gate", owner[b].bs, owner[b].res, owner[b].cs)
      BY <1>0, <3>1, <3>2, OwnerFacts
    <3>3. ASSUME NEW r \in {"staging", "review"}, Result(b, "prelaunch", r)
          PROVE  OwnerTo(b, "prelaunch", owner[b].bs, r, owner[b].cs)
      BY <1>0, <3>1, <3>3, OwnerFacts
    <3>4. QED
      BY <2>1, <3>2, <3>3
  <2>3. /\ Touches(gone', gone, b, SUBSET {"stage", "durable"})
        /\ gone'[b] \subseteq gone[b] /\ Touches(seen', seen, b, Results \cup {"no"})
    BY <1>0, <2>1 DEF Touches
  <2>4. Touches(owner', owner, b, Owners)
    BY <2>2 DEF OwnerTo, Touches
  <2>5. OwnerReads(owner[b], owner'[b], alloc[b], tree[b], gone[b], gone'[b], seen[b],
                   seen'[b])
    BY <1>0, <2>1, <2>2, <2>3 DEF OwnerTo, OwnerReads, Recorded, Early
  <2>6. QED
    BY <1>1, <2>3, <2>4, <2>5, OwnerReadStep
<1>3. CASE OwnerRemoves(b)
  <2>1. /\ owner[b].pc \in {"rmstage", "rmdurable"} /\ seen' = seen
        /\ \/ /\ owner[b].pc = "rmstage" /\ Delete(b, "stage")
              /\ Go(b, "rmdurable") \/ Deferred(b, owner[b].res)
           \/ /\ owner[b].pc = "rmdurable" /\ Delete(b, "durable")
              /\ Go(b, "finalize") \/ Deferred(b, owner[b].res)
           \/ Deferred(b, owner[b].res) /\ gone' = gone
    BY <1>3, Zenon DEF OwnerRemoves, At, history
  <2>2. \/ OwnerTo(b, "rmdurable", owner[b].bs, owner[b].res, owner[b].cs)
        \/ OwnerTo(b, "finalize", owner[b].bs, owner[b].res, owner[b].cs)
        \/ OwnerTo(b, "finish", owner[b].bs, owner[b].res, owner[b].cs)
    BY <1>0, <2>1, OwnerFacts DEF OwnerPlaces
  <2>3. /\ Touches(gone', gone, b, SUBSET {"stage", "durable"})
        /\ Touches(seen', seen, b, Results \cup {"no"})
    BY <1>0, <2>1 DEF Touches, Delete
  <2>4. Touches(owner', owner, b, Owners)
    BY <2>2 DEF OwnerTo, Touches
  <2>5. OwnerReads(owner[b], owner'[b], alloc[b], tree[b], gone[b], gone'[b], seen[b],
                   seen'[b])
    BY <1>0, <2>1, <2>2, <2>3 DEF OwnerTo, OwnerReads, Recorded, Early
  <2>6. QED
    BY <1>1, <2>3, <2>4, <2>5, OwnerReadStep
<1>4. CASE OwnerSeesEnd(b)
  <2>1. PICK r \in {"ok", "bad", "items", "noevidence"} :
          /\ owner[b].pc = "wait" /\ gone' = gone
          /\ r \in {"ok", "items"} => tree[b] = "ended"
          /\ Told(b, "outputs", r, alloc[b])
          /\ seen' = [seen EXCEPT ![b] = r]
    BY <1>4 DEF OwnerSeesEnd, At
  <2>2. OwnerTo(b, "outputs", owner[b].bs, r, alloc[b])
    <3>1. "outputs" \in OwnerPlaces /\ r \in Results
      BY <2>1 DEF OwnerPlaces, Results
    <3>2. QED
      BY <1>0, <2>1, <3>1, OwnerFacts
  <2>3. /\ Touches(gone', gone, b, SUBSET {"stage", "durable"}) /\ seen'[b] = r
        /\ Touches(seen', seen, b, Results \cup {"no"}) /\ gone'[b] = gone[b]
    BY <1>0, <2>1 DEF Touches, Results
  <2>4. Touches(owner', owner, b, Owners)
    BY <2>2 DEF OwnerTo, Touches
  <2>5. OwnerReads(owner[b], owner'[b], alloc[b], tree[b], gone[b], gone'[b], seen[b],
                   seen'[b])
    BY <1>0, <2>1, <2>2, <2>3 DEF OwnerTo, OwnerReads, Recorded, Early
  <2>6. QED
    BY <1>1, <2>3, <2>4, <2>5, OwnerReadStep
<1>5. QED
  BY <1>2, <1>3, <1>4

\* Returning the outputs.
LEMMA OwnerOutputsStep ==
  ASSUME IInv, NEW b \in Batches, OwnerReturnsOutputs(b)
  PROVE  IInv'
<1> DEFINE next == IF owner[b].cs \in T!Terminal THEN "authorize" ELSE "finish"
<1>0. /\ Shape /\ owner[b] \in Owners /\ batch[b] \in BatchRows /\ owner \in [Batches -> Owners]
      /\ LaunchInv(batch[b], owner[b], alloc[b], start[b], tree[b], sent[b])
      /\ TargetTypes' /\ TargetMoves(b) /\ (\A q \in Batches \ {b} : TargetSame(q))
  <2>1. UNCHANGED target
    BY DEF OwnerReturnsOutputs
  <2>2. QED
    BY <2>1, BatchFacts, TargetRests DEF Shape
<1>1. UNCHANGED <<worker, target, sent, gone, seen, why, closer>> /\ owner[b].pc = "outputs"
  BY DEF OwnerReturnsOutputs, At, history
<1>2. ASSUME NEW s \in Executing \cup {"none"},
             owner' = [owner EXCEPT ![b] = [@ EXCEPT !.pc = next, !.bs = s,
                                                     !.def = next = "finish"]]
      PROVE  OwnerTo(b, next, s, owner[b].res, owner[b].cs)
  <2>1. PICK v \in BOOLEAN : owner' = [owner EXCEPT ![b] = [@ EXCEPT !.pc = next, !.bs = s, !.def = v]]
    BY <1>2, Zenon
  <2>2. next \in OwnerPlaces
    BY DEF OwnerPlaces
  <2> HIDE DEF next
  <2>3. QED
    BY <1>0, <2>1, <2>2 DEF OwnerTo, Owners
<1>3. /\ next # "none" /\ next # "end" /\ next # "launch" /\ next \notin Early
      /\ next \notin {"rmstage", "rmdurable", "finalize"}
      /\ next = "authorize" => owner[b].cs \in Ended
  BY DEF Early, Ended, T!Terminal
<1>4. CASE /\ Holds(b) /\ SetBatchState(b, "fetching")
           /\ owner' = [owner EXCEPT ![b] = [@ EXCEPT !.pc = next, !.bs = "fetching",
                                                      !.def = next = "finish"]]
  <2>1. OwnerTo(b, next, "fetching", owner[b].res, owner[b].cs)
    BY <1>2, <1>4, Zenon DEF Executing
  <2> HIDE DEF next
  <2>2. RowTo(b, "fetching", batch[b].live, batch[b].op, batch[b].cst, batch[b].fin, batch[b].disp,
              batch[b].rel)
    BY <1>0, <1>4, SetStateFacts DEF BatchActive, Executing
  <2>3. job' = job /\ "fetching" \in Executing /\ batch[b].live /\ ~batch[b].rel /\ batch[b].op
    <3>1. batch[b].op
      BY <1>0, <1>1 DEF LaunchInv, Recorded
    <3>2. QED
      BY <1>1, <1>4, <3>1, HolderFacts DEF SetBatchState, Executing
  <2>4. HolderWrites(batch[b], batch'[b], owner[b], owner'[b], closer'[b])
    BY <1>0, <1>1, <1>3, <2>1, <2>2, <2>3 DEF RowTo, OwnerTo, HolderWrites, Past
  <2>5. /\ Touches(batch', batch, b, BatchRows) /\ Touches(owner', owner, b, Owners)
        /\ Touches(closer', closer, b, Workers \cup {"no", "owner"}) /\ closer'[b] = closer[b]
    BY <1>0, <1>1, <2>1, <2>2 DEF RowTo, OwnerTo, Touches, Shape
  <2>6. QED
    BY <1>1, <1>4, <2>3, <2>4, <2>5, HolderStep
<1>5. CASE /\ UNCHANGED queue
           /\ owner' = [owner EXCEPT ![b] = [@ EXCEPT !.pc = next, !.bs = owner[b].bs,
                                                      !.def = next = "finish"]]
  <2>0. owner[b].bs \in Executing \cup {"none"}
    BY <1>0 DEF Owners
  <2>1. OwnerTo(b, next, owner[b].bs, owner[b].res, owner[b].cs)
    BY <1>2, <1>5, <2>0, Zenon
  <2> HIDE DEF next
  <2>2. OwnerRests(b, next, owner[b].bs, owner[b].res, owner[b].cs)
    BY <1>1, <1>3 DEF OwnerRests, Recorded
  <2>3. Resting /\ sent' = sent
    BY <1>1, <1>5 DEF Resting, queue
  <2>4. QED
    BY <1>0, <2>1, <2>2, <2>3, RestingStep
<1>6. CASE UNCHANGED queue /\ Go(b, "end")
  <2>1. Resting /\ UNCHANGED <<target, sent>>
    BY <1>1, <1>6 DEF Resting, queue
  <2>2. QED
    BY <1>1, <1>6, <2>1, QuietSteps
<1>7. QED
  BY <1>4, <1>5, <1>6, Zenon DEF OwnerReturnsOutputs

-----------------------------------------------------------------------------
(* Transactions that end a batch.                                          *)

Verdicts == {"needs_review", "failed_final", "completion_unknown"}

(* The members get a verdict in V, or go back to the queue.                *)
Settles(b, V) ==
  /\ job' \in [Jobs -> JobRows]
  /\ \A j \in Jobs :
        \/ job'[j] = job[j]
        \/ /\ j \in Members(b)
           /\ \/ job'[j].bat = b /\ job'[j].st \in V
              \/ job'[j].bat = None /\ job'[j].st = "queued" /\ job'[j].att < MaxAttempts

\* How the transactions settle the members.
LEMMA SettleFacts ==
  ASSUME Shape, NEW b \in Batches
  PROVE  /\ \A s \in JobOutcomes : JobsBecome(b, s) => Settles(b, {s})
         /\ \A cap \in {1, MaxAttempts} : FinishBatchFailure(b, cap) => Settles(b, Verdicts)
         /\ \A ok \in SUBSET Members(b), v \in [Jobs -> {"retry", "final", "review"}],
               sup \in Dispositions :
               CompleteBatchItems(b, ok, v, sup)
                 => Settles(b, IF ok = {} THEN Verdicts ELSE Verdicts \cup {"done"})
<1>0. job \in [Jobs -> JobRows] /\ MaxAttempts \in Nat \ {0}
  BY MaxAttemptsAssumption DEF Shape
<1>1. ASSUME NEW s \in JobOutcomes, JobsBecome(b, s) PROVE Settles(b, {s})
  <2>1. \A j \in Jobs : job[j] \in JobRows
    BY <1>0
  <2>2. \A j \in Members(b) : /\ [job[j] EXCEPT !.st = s] \in JobRows /\ job[j].bat = b
                              /\ [job[j] EXCEPT !.st = s].st = s
                              /\ [job[j] EXCEPT !.st = s].bat = b
    BY <2>1 DEF Members, JobRows
  <2>3. QED
    BY <1>1, <2>1, <2>2 DEF JobsBecome, Settles
<1>2. ASSUME NEW j \in Members(b), NEW cap \in {1, MaxAttempts}
      PROVE  /\ Failed(j, cap) \in JobRows
             /\ \/ Failed(j, cap).bat = b /\ Failed(j, cap).st = "failed_final"
                \/ /\ Failed(j, cap).bat = None /\ Failed(j, cap).st = "queued"
                   /\ Failed(j, cap).att < MaxAttempts
  <2>1. job[j] \in JobRows /\ job[j].bat = b /\ job[j].att \in 0..MaxAttempts
    BY <1>0 DEF Members, JobRows
  <2>2. CASE job[j].att < cap
    <3>1. job[j].att < MaxAttempts
      BY <1>0, <2>1, <2>2
    <3>2. QED
      BY <2>1, <2>2, <3>1 DEF Failed, JobRows
  <2>3. CASE ~(job[j].att < cap)
    BY <2>1, <2>3 DEF Failed, JobRows, JobOutcomes
  <2>4. QED
    BY <2>2, <2>3
<1>3. ASSUME NEW cap \in {1, MaxAttempts}, FinishBatchFailure(b, cap) PROVE Settles(b, Verdicts)
  BY <1>0, <1>2, <1>3 DEF FinishBatchFailure, Settles, Verdicts
<1>4. ASSUME NEW ok \in SUBSET Members(b), NEW v \in [Jobs -> {"retry", "final", "review"}],
             NEW sup \in Dispositions, CompleteBatchItems(b, ok, v, sup)
      PROVE  Settles(b, IF ok = {} THEN Verdicts ELSE Verdicts \cup {"done"})
  <2>1. job' = [j \in Jobs |->
                 IF j \notin Members(b) THEN job[j]
                 ELSE IF j \in ok THEN [job[j] EXCEPT !.st = "done"]
                 ELSE IF v[j] = "review" THEN [job[j] EXCEPT !.st = "needs_review"]
                 ELSE Failed(j, IF v[j] = "final" THEN 1 ELSE MaxAttempts)]
    BY <1>4 DEF CompleteBatchItems
  <2> DEFINE V == IF ok = {} THEN Verdicts ELSE Verdicts \cup {"done"}
  <2>2. ASSUME NEW j \in Members(b)
        PROVE  /\ job'[j] \in JobRows
               /\ \/ job'[j].bat = b /\ job'[j].st \in V
                  \/ job'[j].bat = None /\ job'[j].st = "queued" /\ job'[j].att < MaxAttempts
    <3>1. job[j] \in JobRows /\ job[j].bat = b /\ j \in Jobs
      BY <1>0 DEF Members
    <3>2. CASE j \in ok
      <4>1. job'[j] = [job[j] EXCEPT !.st = "done"] /\ "done" \in V
        BY <2>1, <3>1, <3>2
      <4>2. QED
        BY <3>1, <4>1 DEF JobRows, JobOutcomes
    <3>3. CASE j \notin ok /\ v[j] = "review"
      <4>1. job'[j] = [job[j] EXCEPT !.st = "needs_review"] /\ "needs_review" \in V
        BY <2>1, <3>1, <3>3 DEF Verdicts
      <4>2. QED
        BY <3>1, <4>1 DEF JobRows, JobOutcomes
    <3>4. CASE j \notin ok /\ v[j] # "review"
      <4>1. PICK cap \in {1, MaxAttempts} : job'[j] = Failed(j, cap)
        BY <2>1, <3>1, <3>4
      <4>2. "failed_final" \in V
        BY DEF Verdicts
      <4>3. QED
        BY <1>2, <4>1, <4>2
    <3>5. QED
      BY <3>2, <3>3, <3>4
  <2>3. \A j \in Jobs \ Members(b) : job'[j] = job[j]
    BY <2>1
  <2>4. job' \in [Jobs -> JobRows]
    <3>1. \A j \in Jobs : job'[j] \in JobRows
      BY <1>0, <2>2, <2>3
    <3>2. QED
      BY <2>1, <3>1
  <2> HIDE DEF V
  <2>5. Settles(b, V)
    BY <2>2, <2>3, <2>4 DEF Settles
  <2>6. QED
    BY <2>5 DEF V
<1>5. QED
  BY <1>1, <1>3, <1>4

\* The disposition a terminal row gets.
LEMMA DispositionFacts ==
  ASSUME Shape, NEW b \in Batches
  PROVE  /\ Supplied(b) \in Dispositions
         /\ \A sup \in Dispositions : TerminalDisposition(b, sup) \in Dispositions
<1>1. Supplied(b) \in {"FENCED", "REPLAYABLE", "PENDING", "FINALIZED", "NULL"}
  BY DEF Supplied
<1>2. batch[b].disp \in Dispositions
  BY DEF Shape, BatchRows
<1>3. QED
  BY <1>1, <1>2 DEF TerminalDisposition, Dispositions

\* The owner's transactions that end its batch.
LEMMA HolderCloseStep ==
  ASSUME IInv, NEW b \in Batches, Holds(b), owner[b].pc \notin {"none", "end"},
         UNCHANGED <<worker, target, sent, gone, seen, closer>>,
         Touches(why', why, b, {"no", "owner", "recovery"}), why'[b] \in {why[b], "owner"},
         NEW s \in {"done", "failed"}, NEW d \in Dispositions, Close(b, s, d), Go(b, "end"),
         Settles(b, IF owner[b].res \in {"ok", "items"} THEN Verdicts \cup {"done"} ELSE Verdicts)
  PROVE  IInv'
<1>0. /\ alloc' = alloc /\ start' = start /\ tree' = tree /\ gone' = gone /\ sent' = sent
      /\ seen' = seen /\ closer' = closer /\ worker' = worker
  BY DEF target
<1>1. /\ Shape /\ batch[b] \in BatchRows /\ owner[b] \in Owners
      /\ LaunchInv(batch[b], owner[b], alloc[b], start[b], tree[b], sent[b])
      /\ OwnerInv(batch[b], owner[b], alloc[b], tree[b], gone[b], seen[b], Canc(b))
      /\ batch[b].st \in Executing /\ batch[b].live /\ ~Canc(b) /\ ~HasCancelled(b) /\ ~batch[b].rel
      /\ why[b] # "recovery" /\ (gone[b] # {} => batch[b].op)
  BY BatchFacts, HolderFacts
<1>2. RowTo(b, s, batch[b].live, batch[b].op, batch[b].cst, batch[b].fin, d, batch[b].rel)
  BY <1>1, CloseFacts
<1>3. OwnerTo(b, "end", owner[b].bs, owner[b].res, owner[b].cs)
  BY <1>1, OwnerFacts DEF OwnerPlaces
<1>4. \A j \in Jobs : job'[j] = job[j] \/ job'[j].st # "cancelled"
  BY DEF Settles, Verdicts
<1>5. ~Canc(b)'
  <2>1. ~HasCancelled(b)'
    BY <1>1, <1>4 DEF HasCancelled
  <2>2. QED
    BY <1>2, <2>1 DEF Canc, RowTo
<1>6. LaunchInv(batch'[b], owner'[b], alloc[b], start[b], tree[b], sent[b])
  BY <1>1, <1>2, <1>3 DEF LaunchInv, RowTo, OwnerTo, Recorded, Early, Executing
<1>7. OwnerInv(batch'[b], owner'[b], alloc[b], tree[b], gone[b], seen[b], Canc(b)')
  BY <1>1, <1>2, <1>3, <1>5 DEF OwnerInv, RowTo, OwnerTo
<1>8. ReplayInv(batch'[b], alloc[b], start[b], why'[b], closer[b])
  BY <1>1, <1>2 DEF ReplayInv, RowTo, BatchActive, Executing
<1>9. BatchInv(b)'
  BY <1>0, <1>6, <1>7, <1>8 DEF BatchInv
<1>10. Mono(b)
  BY <1>0, <1>1, <1>2, <1>3, <1>5 DEF Mono, RowTo, OwnerTo, Executing
<1>11. JobsOf(b)
  BY DEF JobsOf, Settles, Members
<1>12. Local(b)
  <2>1. job' \in [Jobs -> JobRows]
    BY DEF Settles
  <2>2. QED
    BY <1>0, <1>1, <1>2, <1>3, <1>11, <2>1 DEF Local, Touches, RowTo, OwnerTo, Shape, TargetTypes,
       TargetSame
<1>13. \A w \in Workers : PassOk(w)
  <2>1. \A q \in Batches : why'[q] = "recovery" => why[q] = "recovery"
    BY <1>1 DEF Touches
  <2>2. QED
    BY <1>0, <2>1 DEF PassOk
<1>14. ASSUME NEW j \in Jobs PROVE JobOk(j)
  <2>1. CASE job'[j] = job[j]
    BY <2>1 DEF JobOk
  <2>2. CASE job'[j].bat = b /\ job'[j].st \in Verdicts
    BY <2>2 DEF JobOk, JobInv, Verdicts
  <2>3. CASE job'[j].bat = b /\ job'[j].st = "done" /\ owner[b].res \in {"ok", "items"}
    <3>1. tree[b] = "ended" /\ seen[b] \in {"ok", "items"} /\ b # None
      BY <1>1, <2>3, NoneAssumption DEF OwnerInv
    <3>2. owner'[b].pc = "end"
      BY <1>3 DEF OwnerTo
    <3>3. QED
      BY <1>0, <2>3, <3>1, <3>2 DEF JobOk, JobInv
  <2>4. CASE job'[j].bat = None /\ job'[j].st = "queued" /\ job'[j].att < MaxAttempts
    BY <2>4 DEF JobOk, JobInv
  <2>5. QED
    BY <2>1, <2>2, <2>3, <2>4 DEF Settles
<1>15. QED
  BY <1>9, <1>10, <1>12, <1>13, <1>14, LocalStep

\* Whatever it records, it is one of those.
LEMMA RecordFacts ==
  ASSUME IInv, NEW b \in Batches, Record(b)
  PROVE  /\ \E s \in {"done", "failed"}, d \in Dispositions : Close(b, s, d)
         /\ Settles(b, IF owner[b].res \in {"ok", "items"} THEN Verdicts \cup {"done"} ELSE Verdicts)
<1>0. /\ Shape /\ Supplied(b) \in Dispositions
      /\ TerminalDisposition(b, Supplied(b)) \in Dispositions /\ "FENCED" \in Dispositions
  <2>1. Shape
    BY DEF IInv
  <2>2. QED
    BY <2>1, DispositionFacts DEF Dispositions
<1> DEFINE V == IF owner[b].res \in {"ok", "items"} THEN Verdicts \cup {"done"} ELSE Verdicts
<1>1. \A s \in Verdicts : Settles(b, {s}) => Settles(b, V)
  BY DEF Settles
<1>2. Settles(b, Verdicts) => Settles(b, V)
  BY DEF Settles
<1>3. CASE owner[b].res = "drift" /\ RevokePrelaunchBatch(b, Supplied(b))
  <2>1. Close(b, "failed", TerminalDisposition(b, Supplied(b))) /\ JobsBecome(b, "needs_review")
    BY <1>3 DEF RevokePrelaunchBatch
  <2>2. Settles(b, {"needs_review"}) /\ "needs_review" \in Verdicts
    BY <1>0, <2>1, SettleFacts DEF JobOutcomes, Verdicts
  <2>3. QED
    BY <1>0, <1>1, <2>1, <2>2
<1>4. CASE owner[b].res \in {"unknown", "noevidence"} /\ MarkCompletionUnknown(b)
  <2>1. Close(b, "failed", "FENCED") /\ JobsBecome(b, "completion_unknown")
    BY <1>4 DEF MarkCompletionUnknown
  <2>2. Settles(b, {"completion_unknown"}) /\ "completion_unknown" \in Verdicts
    BY <1>0, <2>1, SettleFacts DEF JobOutcomes, Verdicts
  <2>3. QED
    BY <1>0, <1>1, <2>1, <2>2
<1>5. ASSUME owner[b].res \in {"items", "review"}, NEW ok \in SUBSET Members(b),
             NEW v \in [Jobs -> {"retry", "final", "review"}],
             owner[b].res = "review" => ok = {},
             CompleteBatchItems(b, ok, v, Supplied(b))
      PROVE  /\ \E s \in {"done", "failed"}, d \in Dispositions : Close(b, s, d)
             /\ Settles(b, V)
  <2>1. Settles(b, IF ok = {} THEN Verdicts ELSE Verdicts \cup {"done"})
    BY <1>0, <1>5, SettleFacts
  <2>2. Settles(b, V)
    BY <1>5, <2>1 DEF Settles
  <2>3. \E s \in {"done", "failed"} : Close(b, s, TerminalDisposition(b, Supplied(b)))
    BY <1>5 DEF CompleteBatchItems
  <2>4. QED
    BY <1>0, <2>2, <2>3
<1>6. ASSUME NEW cap \in {1, MaxAttempts}, FailBatch(b, cap, Supplied(b))
      PROVE  /\ \E s \in {"done", "failed"}, d \in Dispositions : Close(b, s, d)
             /\ Settles(b, V)
  <2>1. Close(b, "failed", TerminalDisposition(b, Supplied(b))) /\ FinishBatchFailure(b, cap)
    BY <1>6 DEF FailBatch
  <2>2. Settles(b, Verdicts)
    BY <1>0, <2>1, SettleFacts
  <2>3. QED
    BY <1>0, <1>2, <2>1, <2>2
<1>7. CASE owner[b].res = "ok" /\ CompleteBatch(b, Supplied(b))
  <2>1. Close(b, "done", TerminalDisposition(b, Supplied(b))) /\ JobsBecome(b, "done")
    BY <1>7 DEF CompleteBatch
  <2>2. Settles(b, {"done"})
    BY <1>0, <2>1, SettleFacts DEF JobOutcomes
  <2>3. Settles(b, V)
    BY <1>7, <2>2 DEF Settles
  <2>4. QED
    BY <1>0, <2>1, <2>3
<1>8. QED
  BY <1>3, <1>4, <1>5, <1>6, <1>7 DEF Record

\* The owner's last transaction, or the loss of its fence.
LEMMA OwnerEndSteps ==
  ASSUME IInv, NEW b \in Batches, OwnerBegins(b) \/ OwnerFinishes(b)
  PROVE  IInv'
<1>0. /\ UNCHANGED <<worker, target, sent, gone, seen, closer>> /\ Shape
      /\ why \in [Batches -> {"no", "owner", "recovery"}] /\ owner[b] \in Owners
  <2>1. UNCHANGED <<worker, target, sent, gone, seen, closer>>
    BY DEF OwnerBegins, OwnerFinishes, history
  <2>2. Shape /\ owner[b] \in Owners
    BY BatchFacts
  <2>3. QED
    BY <2>1, <2>2 DEF Shape
<1>1. CASE owner[b].pc = "claimed" /\ Holds(b) /\ RevokePrelaunchBatch(b, "NULL") /\ Go(b, "end")
           /\ why' = why
  <2>1. /\ Close(b, "failed", TerminalDisposition(b, "NULL")) /\ JobsBecome(b, "needs_review")
        /\ TerminalDisposition(b, "NULL") \in Dispositions
    BY <1>0, <1>1, DispositionFacts DEF RevokePrelaunchBatch, Dispositions
  <2>2. Settles(b, {"needs_review"})
    BY <1>0, <2>1, SettleFacts DEF JobOutcomes
  <2>3. Settles(b, IF owner[b].res \in {"ok", "items"} THEN Verdicts \cup {"done"} ELSE Verdicts)
    BY <2>2 DEF Settles, Verdicts
  <2>4. Touches(why', why, b, {"no", "owner", "recovery"}) /\ why'[b] \in {why[b], "owner"}
    BY <1>0, <1>1 DEF Touches
  <2>5. QED
    BY <1>0, <1>1, <2>1, <2>3, <2>4, HolderCloseStep
<1>2. CASE /\ owner[b].pc = "claimed" /\ Holds(b) /\ SetBatchState(b, "staging")
           /\ Enter(b, "reserve", "staging") /\ why' = why
  BY <1>0, <1>2, OwnerHolderSteps
<1>3. CASE owner[b].pc = "finish" /\ Holds(b) /\ Record(b) /\ Go(b, "end") /\ Requeued(b, "owner")
  <2>1. PICK s \in {"done", "failed"}, d \in Dispositions : Close(b, s, d)
    BY <1>3, RecordFacts
  <2>2. Settles(b, IF owner[b].res \in {"ok", "items"} THEN Verdicts \cup {"done"} ELSE Verdicts)
    BY <1>3, RecordFacts
  <2>3. Touches(why', why, b, {"no", "owner", "recovery"}) /\ why'[b] \in {why[b], "owner"}
    BY <1>0, <1>3 DEF Touches, Requeued
  <2>4. QED
    BY <1>0, <1>3, <2>1, <2>2, <2>3, HolderCloseStep
<1>4. CASE /\ owner[b].pc = "finish" /\ Holds(b) /\ SetBatchState(b, "fetching")
           /\ Enter(b, "finish", "fetching") /\ why' = why
  BY <1>0, <1>4, OwnerHolderSteps
<1>5. CASE owner[b].pc = "finish" /\ Go(b, "end") /\ UNCHANGED <<queue, why>>
  <2>1. Resting /\ UNCHANGED <<target, sent>>
    BY <1>0, <1>5 DEF Resting, queue
  <2>2. QED
    BY <1>5, <2>1, QuietSteps
<1>6. ASSUME OwnerBegins(b)
      PROVE  \/ /\ owner[b].pc = "claimed" /\ Holds(b) /\ RevokePrelaunchBatch(b, "NULL")
                /\ Go(b, "end") /\ why' = why
             \/ /\ owner[b].pc = "claimed" /\ Holds(b) /\ SetBatchState(b, "staging")
                /\ Enter(b, "reserve", "staging") /\ why' = why
  BY <1>6 DEF OwnerBegins, At, history
<1>7. ASSUME OwnerFinishes(b)
      PROVE  \/ /\ owner[b].pc = "finish" /\ Holds(b) /\ Record(b) /\ Go(b, "end")
                /\ Requeued(b, "owner")
             \/ /\ owner[b].pc = "finish" /\ Holds(b) /\ SetBatchState(b, "fetching")
                /\ Enter(b, "finish", "fetching") /\ why' = why
             \/ owner[b].pc = "finish" /\ Go(b, "end") /\ UNCHANGED <<queue, why>>
  BY <1>7 DEF OwnerFinishes, At
<1>8. QED
  BY <1>1, <1>2, <1>3, <1>4, <1>5, <1>6, <1>7

\* The owner's transactions, when its fence holds and when it does not.
LEMMA OwnerFencedSteps ==
  ASSUME IInv, NEW b \in Batches,
         OwnerRecords(b) \/ OwnerGate(b) \/ OwnerAuthorizes(b) \/ OwnerFinalizes(b)
  PROVE  IInv'
<1>0. UNCHANGED <<worker, target, sent, gone, seen, why>>
  BY DEF OwnerRecords, OwnerGate, OwnerAuthorizes, OwnerFinalizes, history
<1>1. \/ /\ owner[b].pc = "record" /\ Holds(b) /\ RecordTargetReservation(b) /\ Go(b, "stage")
         /\ closer' = closer
      \/ /\ owner[b].pc = "gate" /\ Holds(b) /\ SetBatchState(b, "running")
         /\ Enter(b, "launch", "running") /\ closer' = closer
      \/ /\ owner[b].pc = "authorize" /\ Holds(b) /\ Go(b, "rmstage") /\ closer' = closer
         /\ AuthorizeTargetCleanup(b, owner[b].cs)
      \/ /\ owner[b].pc = "finalize" /\ Holds(b) /\ Go(b, "finish")
         /\ RecordTargetFinalization(b, owner[b].cs)
         /\ closer' = [closer EXCEPT ![b] = "owner"]
      \/ /\ UNCHANGED <<queue, closer>>
         /\ \/ owner[b].pc \in {"record", "gate"} /\ Go(b, "abandon")
            \/ owner[b].pc = "gate" /\ Result(b, "prelaunch", "drift")
            \/ owner[b].pc \notin {"none", "end"} /\ Go(b, "end")
  <2>1. CASE OwnerRecords(b)
    BY <2>1 DEF OwnerRecords, At, history
  <2>2. CASE OwnerGate(b)
    BY <2>2 DEF OwnerGate, At, history
  <2>3. CASE OwnerAuthorizes(b)
    BY <2>3 DEF OwnerAuthorizes, At, history, MayAuthorizeCleanup, Holds
  <2>4. CASE OwnerFinalizes(b)
    BY <2>4 DEF OwnerFinalizes, At, MayRecordFinalization, Holds
  <2>5. QED
    BY <2>1, <2>2, <2>3, <2>4
<1>2. ASSUME UNCHANGED <<queue, closer>> PROVE Resting /\ UNCHANGED <<target, sent>>
  BY <1>0, <1>2 DEF Resting, queue
<1>3. CASE UNCHANGED <<queue, closer>>
           /\ \/ owner[b].pc \in {"record", "gate"} /\ Go(b, "abandon")
              \/ owner[b].pc = "gate" /\ Result(b, "prelaunch", "drift")
              \/ owner[b].pc \notin {"none", "end"} /\ Go(b, "end")
  BY <1>2, <1>3, QuietSteps
<1>4. QED
  BY <1>0, <1>1, <1>3, OwnerHolderSteps

\* Every step of an owner.
LEMMA OwnerSteps ==
  ASSUME IInv, NEW b \in Batches, OwnerStep(b)
  PROVE  IInv'
BY OwnerRestingSteps, OwnerReadSteps, OwnerOutputsStep, OwnerEndSteps, OwnerFencedSteps
   DEF OwnerStep

\* Claiming a batch.
LEMMA ClaimStep ==
  ASSUME IInv, NEW b \in Batches, NEW S \in SUBSET Jobs, Claim(b, S)
  PROVE  IInv'
<1>0. /\ batch[b].st = "none" /\ (\A j \in S : job[j].st = "queued")
      /\ job' = [j \in Jobs |-> IF j \in S THEN [st |-> "active", att |-> job[j].att + 1, bat |-> b]
                                ELSE job[j]]
      /\ alloc' = alloc /\ start' = start /\ tree' = tree /\ gone' = gone /\ sent' = sent
      /\ seen' = seen /\ why' = why /\ closer' = closer /\ worker' = worker
  BY DEF Claim, ClaimMany, target, history
<1>1. /\ Shape /\ batch[b] \in BatchRows /\ owner[b] \in Owners /\ job \in [Jobs -> JobRows]
      /\ LaunchInv(batch[b], owner[b], alloc[b], start[b], tree[b], sent[b])
      /\ OwnerInv(batch[b], owner[b], alloc[b], tree[b], gone[b], seen[b], Canc(b))
      /\ ReplayInv(batch[b], alloc[b], start[b], why[b], closer[b])
  <2>1. Shape
    BY BatchFacts
  <2>2. job \in [Jobs -> JobRows]
    BY <2>1 DEF Shape
  <2>3. QED
    BY <2>1, <2>2, BatchFacts
<1>2. PICK v \in BOOLEAN : v /\ Row(b, [NoBatch EXCEPT !.st = "leased", !.live = v])
  BY Zenon DEF Claim, ClaimMany
<1>3. /\ NoBatch \in BatchRows /\ ~NoBatch.op /\ NoBatch.cst = "NULL" /\ ~NoBatch.fin
      /\ ~NoBatch.rel /\ NoBatch.disp = "NULL"
  BY DEF NoBatch, BatchRows, Dispositions, BatchActive
<1> DEFINE r == [NoBatch EXCEPT !.st = "leased", !.live = v]
<1>4. /\ r \in BatchRows /\ r.st = "leased" /\ r.live = v /\ r.op = NoBatch.op /\ r.cst = "NULL"
      /\ r.fin = NoBatch.fin /\ r.disp = "NULL" /\ r.rel = NoBatch.rel
  BY <1>3 DEF BatchRows, BatchActive, Executing
<1> HIDE DEF r
<1>5. RowTo(b, r.st, r.live, r.op, r.cst, r.fin, r.disp, r.rel)
  BY <1>1, <1>2, <1>4, RowFacts DEF r
<1>6. /\ OwnerTo(b, "claimed", "leased", "none", "NULL")
  <2>1. owner' = [owner EXCEPT ![b] = [NoOwner EXCEPT !.pc = "claimed", !.bs = "leased"]]
    BY DEF Claim
  <2>2. NoOwner \in Owners /\ NoOwner.res = "none" /\ NoOwner.cs = "NULL"
    BY DEF NoOwner, Owners, OwnerPlaces, Results
  <2>3. "claimed" \in OwnerPlaces /\ "leased" \in Executing /\ owner \in [Batches -> Owners]
    BY <1>1 DEF OwnerPlaces, Executing, Shape
  <2>4. QED
    BY <2>1, <2>2, <2>3 DEF OwnerTo, Owners
<1>7. owner[b].pc = "none" /\ alloc[b] = "NONE" /\ ~sent[b] /\ gone[b] = {} /\ why[b] # "recovery"
      /\ tree[b] = "none" /\ ~Canc(b)
  BY <1>0, <1>1 DEF LaunchInv, OwnerInv, ReplayInv, Ended
<1>8. /\ job' \in [Jobs -> JobRows]
      /\ \A j \in Jobs : job'[j] = job[j]
                         \/ (job[j].st = "queued" /\ job'[j].bat = b /\ job'[j].st = "active")
  <2>1. ASSUME NEW j \in S
        PROVE  [st |-> "active", att |-> job[j].att + 1, bat |-> b] \in JobRows
    <3>1. job[j] \in JobRows /\ job[j].att < MaxAttempts /\ JobInv(j)
      BY <1>0, <1>1 DEF IInv, JobInv
    <3>2. job[j].att + 1 \in 0..MaxAttempts
      BY <3>1, MaxAttemptsAssumption DEF JobRows
    <3>3. QED
      BY <3>2 DEF JobRows
  <2>2. QED
    BY <1>0, <1>1, <2>1
<1>9. JobsOf(b) /\ ~Canc(b)'
  <2>1. \A j \in Jobs : job[j].st = "queued" => job[j].bat = None
    BY DEF IInv, JobInv
  <2>2. ~HasCancelled(b)'
    BY <1>7, <1>8 DEF HasCancelled, Canc
  <2>3. QED
    BY <1>4, <1>5, <1>8, <2>1, <2>2 DEF JobsOf, Canc, RowTo
<1>10. BatchInv(b)'
  <2>1. LaunchInv(batch'[b], owner'[b], alloc[b], start[b], tree[b], sent[b])
    BY <1>1, <1>2, <1>3, <1>4, <1>5, <1>6, <1>7
       DEF LaunchInv, RowTo, OwnerTo, Recorded, Early, Past, Ended
  <2>2. OwnerInv(batch'[b], owner'[b], alloc[b], tree[b], gone[b], seen[b], Canc(b)')
    BY <1>3, <1>4, <1>5, <1>6, <1>7, <1>9 DEF OwnerInv, RowTo, OwnerTo, Ended
  <2>3. ReplayInv(batch'[b], alloc[b], start[b], why[b], closer[b])
    BY <1>3, <1>4, <1>5, <1>7 DEF ReplayInv, RowTo
  <2>4. QED
    BY <1>0, <2>1, <2>2, <2>3 DEF BatchInv
<1>11. Mono(b)
  <2>1. ~batch[b].rel /\ batch[b].cst = "NULL" /\ ~batch[b].op
    BY <1>0, <1>1 DEF LaunchInv, OwnerInv
  <2>2. QED
    BY <1>0, <1>6, <1>7, <1>9, <2>1 DEF Mono, OwnerTo, Ended
<1>12. Local(b)
  BY <1>0, <1>1, <1>5, <1>6, <1>8, <1>9 DEF Local, Touches, RowTo, OwnerTo, Shape, TargetTypes,
     TargetSame
<1>13. \A w \in Workers : PassOk(w)
  BY <1>0 DEF PassOk
<1>14. \A j \in Jobs : JobOk(j)
  BY <1>8, NoneAssumption DEF JobOk, JobInv
<1>15. QED
  BY <1>10, <1>11, <1>12, <1>13, <1>14, LocalStep

\* The lease lapses.
LEMMA LapseStep ==
  ASSUME IInv, NEW b \in Batches, Lapses(b)
  PROVE  IInv'
<1>0. /\ batch[b].st # "none" /\ batch[b].live /\ job' = job
      /\ owner[b].bs \in {"running", "fetching"} => alloc[b] # "RESERVED"
      /\ alloc' = alloc /\ start' = start /\ tree' = tree /\ gone' = gone /\ sent' = sent
      /\ seen' = seen /\ why' = why /\ closer' = closer /\ worker' = worker /\ owner' = owner
  BY DEF Lapses, LeaseLapses, target, history
<1>1. /\ Shape /\ batch[b] \in BatchRows /\ owner[b] \in Owners
      /\ LaunchInv(batch[b], owner[b], alloc[b], start[b], tree[b], sent[b])
      /\ OwnerInv(batch[b], owner[b], alloc[b], tree[b], gone[b], seen[b], Canc(b))
      /\ ReplayInv(batch[b], alloc[b], start[b], why[b], closer[b])
  BY BatchFacts
<1>2. PICK v \in BOOLEAN : ~v /\ RowTo(b, batch[b].st, v, batch[b].op, batch[b].cst, batch[b].fin,
                                       batch[b].disp, batch[b].rel)
  BY <1>1, FlagFacts, Zenon DEF Lapses
<1>3. Canc(b)' <=> Canc(b)
  BY <1>0, <1>2, CancelledKept DEF Canc, RowTo
<1>4. LaunchInv(batch'[b], owner[b], alloc[b], start[b], tree[b], sent[b])
  BY <1>0, <1>1, <1>2 DEF LaunchInv, RowTo, Past
<1>5. OwnerInv(batch'[b], owner[b], alloc[b], tree[b], gone[b], seen[b], Canc(b))
  BY <1>0, <1>1, <1>2 DEF OwnerInv, RowTo
<1>6. ReplayInv(batch'[b], alloc[b], start[b], why[b], closer[b])
  BY <1>1, <1>2 DEF ReplayInv, RowTo
<1>7. BatchInv(b)'
  BY <1>0, <1>3, <1>4, <1>5, <1>6 DEF BatchInv, OwnerInv
<1>8. Mono(b)
  BY <1>0, <1>2, <1>3 DEF Mono, RowTo, Ended
<1>9. Local(b)
  BY <1>0, <1>1, <1>2 DEF Local, Touches, RowTo, Shape, TargetTypes, TargetSame, JobsOf
<1>10. (\A w \in Workers : PassOk(w)) /\ (\A j \in Jobs : JobOk(j))
  BY <1>0 DEF PassOk, JobOk
<1>11. QED
  BY <1>7, <1>8, <1>9, <1>10, LocalStep

\* A queued job leaves the queue: it belongs to no batch.
LEMMA DequeueStep ==
  ASSUME IInv, NEW i \in Jobs, Dequeue(i)
  PROVE  IInv'
<1>0. /\ job[i].st = "queued" /\ batch' = batch
      /\ alloc' = alloc /\ start' = start /\ tree' = tree /\ gone' = gone /\ sent' = sent
      /\ seen' = seen /\ why' = why /\ closer' = closer /\ worker' = worker /\ owner' = owner
  BY DEF Dequeue, LeaveQueue, target, history
<1>1. PICK s \in {"needs_review", "failed_final", "cancelled"} : job' = [job EXCEPT ![i].st = s]
  BY DEF Dequeue, LeaveQueue
<1>2. Shape /\ job \in [Jobs -> JobRows] /\ job[i].bat = None
  BY <1>0 DEF IInv, Shape, JobInv
<1>3. /\ job' \in [Jobs -> JobRows] /\ job'[i].bat = None /\ job'[i].st = s
      /\ \A j \in Jobs \ {i} : job'[j] = job[j]
  BY <1>1, <1>2 DEF JobRows, JobOutcomes
<1>4. Shape'
  BY <1>0, <1>2, <1>3 DEF Shape
<1>5. \A q \in Batches : Still(q) /\ q # None
  BY <1>0, NoneAssumption DEF Still, TargetSame
<1>6. JobsOf(None)
  BY <1>0, <1>2, <1>3 DEF JobsOf
<1>7. \A q \in Batches : BatchInv(q)' /\ Mono(q)
  BY <1>5, <1>6, StillKeeps DEF IInv
<1>8. \A j \in Jobs : JobOk(j)
  BY <1>3 DEF JobOk, JobInv
<1>9. \A w \in Workers : PassOk(w)
  BY <1>0 DEF PassOk
<1>10. QED
  BY <1>4, <1>7, <1>8, <1>9, CombineAll

-----------------------------------------------------------------------------
(* The passes of recovery and of the operator.                             *)

(* A pass writes row r to n, the target's state goes to a and c, what is   *)
(* deleted to h, and the closer from z to y; u: who has requeued.          *)
PassWrites(r, n, a, c, g, h, z, y, u, k) ==
  /\ n.st = r.st /\ (n.live <=> r.live) /\ (n.op <=> r.op)
  /\ r.cst # "NULL" => n.cst # "NULL"
  /\ n.st = "none" => n.cst = "NULL"
  /\ r.rel => n.rel
  /\ n.rel => n.st = "failed"
  /\ n.fin /\ n.st \in BatchActive => (r.fin /\ y = z) \/ Unstarted(a, c)
  /\ u = "recovery" => y = z /\ n.disp = r.disp
  /\ h # {} => g # {} \/ IF n.op THEN a \in Ended /\ n.cst # "NULL" ELSE ~n.live /\ n.st # "none"
  /\ k => (n.disp = r.disp \/ n.rel) /\ (n.rel \/ h = g)

\* Such a write keeps everything, and the target may move meanwhile.
LEMMA PassStep ==
  ASSUME IInv, NEW b \in Batches, NEW w \in Workers, WorkerInv(w)',
         UNCHANGED <<job, owner, sent, seen, why>>,
         TargetTypes', TargetMoves(b), \A q \in Batches \ {b} : TargetSame(q),
         Touches(batch', batch, b, BatchRows),
         Touches(gone', gone, b, SUBSET {"stage", "durable"}),
         Touches(closer', closer, b, Workers \cup {"no", "owner"}),
         worker' \in [Workers -> WorkerRows], \A v \in Workers \ {w} : worker'[v] = worker[v],
         PassWrites(batch[b], batch'[b], alloc'[b], start'[b], gone[b], gone'[b], closer[b],
                    closer'[b], why[b], Canc(b))
  PROVE  IInv'
<1>0. sent' = sent /\ seen' = seen /\ why' = why /\ job' = job /\ owner' = owner
  OBVIOUS
<1>1. /\ Shape /\ batch[b] \in BatchRows /\ owner[b] \in Owners /\ batch'[b] \in BatchRows
      /\ LaunchInv(batch[b], owner[b], alloc[b], start[b], tree[b], sent[b])
      /\ OwnerInv(batch[b], owner[b], alloc[b], tree[b], gone[b], seen[b], Canc(b))
      /\ ReplayInv(batch[b], alloc[b], start[b], why[b], closer[b]) /\ sent[b] \in BOOLEAN
  BY BatchFacts DEF Touches
<1>2. Canc(b)' <=> Canc(b)
  <2>1. batch'[b].st = batch[b].st
    BY DEF PassWrites
  <2>2. QED
    BY <1>0, <2>1, CancelledKept DEF Canc
<1> USE DEF TargetMoves, Honest, Ended
<1>3. LaunchInv(batch'[b], owner[b], alloc'[b], start'[b], tree'[b], sent[b])
  BY <1>1 DEF LaunchInv, PassWrites
<1>4. OwnerInv(batch'[b], owner[b], alloc'[b], tree'[b], gone'[b], seen[b], Canc(b))
  BY <1>1 DEF OwnerInv, PassWrites
<1>5. ReplayInv(batch'[b], alloc'[b], start'[b], why[b], closer'[b])
  BY <1>1 DEF ReplayInv, Unstarted, PassWrites
<1>6. BatchInv(b)'
  BY <1>0, <1>2, <1>3, <1>4, <1>5 DEF BatchInv, OwnerInv
<1>7. Mono(b)
  <2>1. batch[b].op \in BOOLEAN /\ batch'[b].op \in BOOLEAN
    BY <1>1 DEF BatchRows
  <2>2. batch'[b].op = batch[b].op
    BY <2>1 DEF PassWrites
  <2>3. alloc[b] = "RESERVED" /\ ~batch[b].live => tree[b] = "none"
    BY <1>1 DEF LaunchInv
  <2>4. QED
    BY <1>0, <1>2, <2>2, <2>3 DEF Mono, PassWrites
<1>8. Local(b)
  BY <1>0, <1>1 DEF Local, Touches, Shape, JobsOf
<1>9. (\A v \in Workers : PassOk(v)) /\ (\A j \in Jobs : JobOk(j))
  BY <1>0 DEF PassOk, JobOk
<1>10. QED
  BY <1>6, <1>7, <1>8, <1>9, LocalStep

\* What the invariant says of a pass under way.
LEMMA PassFacts ==
  ASSUME IInv, NEW w \in Workers, worker[w].pc # "idle"
  PROVE  /\ Of(w) \in Batches /\ worker[w] \in WorkerRows
         /\ PassInv(worker[w], batch[Of(w)], alloc[Of(w)], start[Of(w)], why[Of(w)], Canc(Of(w)))
         /\ w = "oper" => worker[w].mode \notin {"stale", "terminal"}
BY DEF IInv, WorkerInv, Of, Shape

\* A pass that goes on knows what it should, from the state it leaves.
LEMMA PassGoes ==
  ASSUME NEW w \in Workers, NEW b \in Batches, NEW p, NEW m, NEW c, WorkerTo(w, p, b, m, c),
         p # "idle", w = "oper" => m \notin {"stale", "terminal"},
         PassInv(worker'[w], batch'[b], alloc'[b], start'[b], why'[b], Canc(b)')
  PROVE  WorkerInv(w)'
BY DEF WorkerInv, WorkerTo

\* The steps of a pass that write no row: it goes to place p, or starts.
LEMMA PassReadStep ==
  ASSUME IInv, NEW w \in Workers, NEW b \in Batches, NEW p, NEW m, NEW c,
         WorkerTo(w, p, b, m, c), p # "idle", w = "oper" => m \notin {"stale", "terminal"},
         UNCHANGED <<job, batch, owner, sent, gone, seen, why, closer>>,
         TargetTypes', TargetMoves(b), \A q \in Batches \ {b} : TargetSame(q),
         PassInv(worker'[w], batch[b], alloc'[b], start'[b], why[b], Canc(b))
  PROVE  IInv'
<1>0. batch' = batch /\ why' = why /\ gone' = gone /\ closer' = closer /\ job' = job
  OBVIOUS
<1>1. Canc(b)' <=> Canc(b)
  BY <1>0, CancelledKept DEF Canc
<1>2. WorkerInv(w)'
  <2>1. PassInv(worker'[w], batch'[b], alloc'[b], start'[b], why'[b], Canc(b)')
    BY <1>0, <1>1 DEF PassInv
  <2>2. QED
    BY <2>1, PassGoes
<1>3. /\ Touches(batch', batch, b, BatchRows) /\ Touches(gone', gone, b, SUBSET {"stage", "durable"})
      /\ Touches(closer', closer, b, Workers \cup {"no", "owner"})
  BY <1>0, BatchFacts DEF Touches, Shape
<1>4. /\ OwnerInv(batch[b], owner[b], alloc[b], tree[b], gone[b], seen[b], Canc(b))
      /\ LaunchInv(batch[b], owner[b], alloc[b], start[b], tree[b], sent[b])
      /\ ReplayInv(batch[b], alloc[b], start[b], why[b], closer[b])
  BY BatchFacts
<1>5. PassWrites(batch[b], batch'[b], alloc'[b], start'[b], gone[b], gone'[b], closer[b],
                 closer'[b], why[b], Canc(b))
  BY <1>0, <1>4 DEF PassWrites, OwnerInv, LaunchInv
<1>6. worker' \in [Workers -> WorkerRows] /\ \A v \in Workers \ {w} : worker'[v] = worker[v]
  BY DEF WorkerTo
<1>7. QED
  BY <1>2, <1>3, <1>5, <1>6, PassStep

\* A pass that stops, whatever the target did meanwhile.
LEMMA PassLeaves ==
  ASSUME IInv, NEW w \in Workers, NEW b \in Batches, Leave(w),
         UNCHANGED <<job, batch, owner, sent, gone, seen, why, closer>>,
         TargetTypes', TargetMoves(b), \A q \in Batches \ {b} : TargetSame(q)
  PROVE  IInv'
<1>0. batch' = batch /\ why' = why /\ gone' = gone /\ closer' = closer /\ job' = job
  OBVIOUS
<1>1. WorkerInv(w)' /\ WorkerTo(w, "idle", None, "none", "NULL")
  BY WorkerFacts DEF IInv
<1>3. /\ Touches(batch', batch, b, BatchRows) /\ Touches(gone', gone, b, SUBSET {"stage", "durable"})
      /\ Touches(closer', closer, b, Workers \cup {"no", "owner"})
  BY <1>0, BatchFacts DEF Touches, Shape
<1>4. /\ OwnerInv(batch[b], owner[b], alloc[b], tree[b], gone[b], seen[b], Canc(b))
      /\ LaunchInv(batch[b], owner[b], alloc[b], start[b], tree[b], sent[b])
      /\ ReplayInv(batch[b], alloc[b], start[b], why[b], closer[b])
  BY BatchFacts
<1>5. PassWrites(batch[b], batch'[b], alloc'[b], start'[b], gone[b], gone'[b], closer[b],
                 closer'[b], why[b], Canc(b))
  BY <1>0, <1>4 DEF PassWrites, OwnerInv, LaunchInv
<1>6. worker' \in [Workers -> WorkerRows] /\ \A v \in Workers \ {w} : worker'[v] = worker[v]
  BY <1>1 DEF WorkerTo
<1>7. QED
  BY <1>1, <1>3, <1>5, <1>6, PassStep

\* A pass over some row begins.
LEMMA SelectSteps ==
  ASSUME IInv, NEW b \in Batches,
         SelectStale(b) \/ SelectTerminal(b) \/ CancelFenced(b) \/ ReleaseAsks(b)
  PROVE  IInv'
<1>0. UNCHANGED <<job, batch, owner, sent, gone, seen, why, closer>> /\ UNCHANGED target
  BY DEF SelectStale, SelectTerminal, CancelFenced, ReleaseAsks, queue, history
<1>1. TargetTypes' /\ TargetMoves(b) /\ (\A q \in Batches \ {b} : TargetSame(q)) /\ Shape
      /\ alloc'[b] = alloc[b] /\ start'[b] = start[b]
  BY <1>0, TargetRests, BatchFacts DEF target
<1>2. /\ LaunchInv(batch[b], owner[b], alloc[b], start[b], tree[b], sent[b])
      /\ ReplayInv(batch[b], alloc[b], start[b], why[b], closer[b]) /\ batch[b] \in BatchRows
  BY BatchFacts
<1>3. \E w \in Workers, p \in WorkerPlaces \ {"idle"}, m \in Modes :
         /\ Take(w, b, m, p) /\ (w = "oper" => m \notin {"stale", "terminal"})
         /\ p \in {"status", "rmonly", "replay", "unknown", "c-status", "r-authorize"}
         /\ m \in {"stale", "terminal", "cancelling", "fenced", "release"}
         /\ p = "status" => m \in {"stale", "terminal", "release"}
         /\ p \in {"rmonly", "replay"} => m = "stale"
         /\ p = "rmonly" => ~batch[b].op
         /\ p = "r-authorize" => m = "release"
         /\ m = "stale" => batch[b].st \in BatchActive /\ ~batch[b].live
         /\ m = "terminal" => batch[b].disp # "FINALIZED" /\ batch[b].st \in {"done", "failed"}
         /\ m = "release" => batch[b].disp # "FINALIZED" /\ batch[b].st = "failed"
  <2> USE DEF Workers, WorkerPlaces, Modes
  <2>1. CASE SelectStale(b)
    <3>1. StaleTarget(b) /\ batch[b].st \in BatchActive /\ ~batch[b].live
      BY <2>1 DEF SelectStale, StaleTarget
    <3>2. PICK p : /\ Take("drain", b, IF batch[b].st = "cancelling" THEN "cancelling" ELSE "stale", p)
                   /\ p \in {"c-status", "replay", "status", "rmonly", "unknown"}
                   /\ p = "c-status" \/ p = "unknown" \/ batch[b].st # "cancelling"
                   /\ p = "rmonly" => ~batch[b].op
      <4> DEFINE pl == CASE batch[b].st = "cancelling" /\ batch[b].disp = "FENCED" /\ batch[b].op -> "c-status"
              [] batch[b].st # "cancelling" /\ batch[b].fin -> "replay"
              [] batch[b].st # "cancelling" /\ ~batch[b].fin /\ batch[b].disp # "FENCED" ->
                    IF batch[b].op THEN "status" ELSE "rmonly"
              [] OTHER -> "unknown"
      <4>1. /\ pl \in {"c-status", "replay", "status", "rmonly", "unknown"}
            /\ pl = "c-status" \/ pl = "unknown" \/ batch[b].st # "cancelling"
            /\ pl = "rmonly" => ~batch[b].op
        OBVIOUS
      <4>2. Take("drain", b, IF batch[b].st = "cancelling" THEN "cancelling" ELSE "stale", pl)
        BY <2>1 DEF SelectStale
      <4>3. QED
        BY <4>1, <4>2
    <3>3. QED
      BY <3>1, <3>2
  <2>2. CASE SelectTerminal(b)
    BY <2>2 DEF SelectTerminal, TerminalTarget
  <2>3. CASE CancelFenced(b)
    BY <2>3 DEF CancelFenced
  <2>4. CASE ReleaseAsks(b)
    BY <2>4 DEF ReleaseAsks, FencedRow
  <2>5. QED
    BY <2>1, <2>2, <2>3, <2>4
<1>4. PICK w \in Workers, p \in WorkerPlaces \ {"idle"}, m \in Modes :
         /\ WorkerTo(w, p, b, m, "NULL") /\ (w = "oper" => m \notin {"stale", "terminal"})
         /\ p \in {"status", "rmonly", "replay", "unknown", "c-status", "r-authorize"}
         /\ m \in {"stale", "terminal", "cancelling", "fenced", "release"}
         /\ p = "status" => m \in {"stale", "terminal", "release"}
         /\ p \in {"rmonly", "replay"} => m = "stale"
         /\ p = "rmonly" => ~batch[b].op
         /\ p = "r-authorize" => m = "release"
         /\ m = "stale" => batch[b].st \in BatchActive /\ ~batch[b].live
         /\ m = "terminal" => batch[b].disp # "FINALIZED" /\ batch[b].st \in {"done", "failed"}
         /\ m = "release" => batch[b].disp # "FINALIZED" /\ batch[b].st = "failed"
  BY <1>1, <1>3, WorkerFacts
<1>5. PassInv(worker'[w], batch[b], alloc'[b], start'[b], why[b], Canc(b))
  BY <1>1, <1>2, <1>4 DEF PassInv, WorkerTo, Deleting, ReplayInv, BatchActive, Executing
<1>6. QED
  BY <1>0, <1>1, <1>4, <1>5, PassReadStep

\* The steps that only ask or stop the target.
LEMMA AskSteps ==
  ASSUME IInv, NEW w \in Workers,
         AskTarget(w) \/ CancelReserved(w) \/ StopAsk(w) \/ Stop(w) \/ GiveUp(w)
  PROVE  IInv'
<1> DEFINE b == Of(w)
<1>0. UNCHANGED <<job, batch, owner, sent, gone, seen, why, closer>> /\ worker[w].pc # "idle"
  BY Zenon DEF AskTarget, CancelReserved, StopAsk, Stop, GiveUp, queue, history, Doing
<1>1. /\ b \in Batches /\ worker[w] \in WorkerRows
      /\ PassInv(worker[w], batch[b], alloc[b], start[b], why[b], Canc(b))
      /\ w = "oper" => worker[w].mode \notin {"stale", "terminal"}
  BY <1>0, PassFacts
<1> HIDE DEF b
<1>2. /\ Shape /\ Honest(alloc[b], start[b], tree[b]) /\ batch[b] \in BatchRows
      /\ alloc[b] \in T!Allocs /\ Ended = T!Terminal /\ "NULL" \notin Ended
      /\ LaunchInv(batch[b], owner[b], alloc[b], start[b], tree[b], sent[b])
  BY <1>1, BatchFacts DEF Ended, T!Terminal
<1>3. /\ TargetTypes' /\ TargetMoves(b) /\ \A q \in Batches \ {b} : TargetSame(q)
      /\ UNCHANGED target \/ TargetCancel(b)
  <2>1. UNCHANGED target \/ TargetCancel(b)
    BY Zenon DEF AskTarget, CancelReserved, StopAsk, Stop, GiveUp, b
  <2>2. QED
    BY <1>1, <1>2, <2>1, TargetFacts, TargetRests
<1>4. CASE Leave(w)
  BY <1>0, <1>1, <1>3, <1>4, PassLeaves
<1>5. ASSUME NEW p \in {"cancel", "unknown", "c-finished", "c-stop"}, To(w, p),
             p = "cancel" => /\ worker[w].mode \in {"stale", "terminal", "release"}
                             /\ alloc[b] = "RESERVED" /\ UNCHANGED target
      PROVE  IInv'
  <2>1. WorkerTo(w, p, b, worker[w].mode, worker[w].cs) /\ p # "idle"
    BY <1>2, <1>5, WorkerFacts DEF WorkerPlaces, Of, b
  <2>2. PassInv(worker'[w], batch[b], alloc'[b], start'[b], why[b], Canc(b))
    <3>1. worker[w].cs # "NULL" => alloc'[b] = worker[w].cs
      BY <1>1, <1>3 DEF PassInv, TargetMoves, WorkerRows
    <3>2. p = "cancel" => start'[b] = "NO" /\ alloc'[b] = "RESERVED"
      BY <1>2, <1>5 DEF Honest, target
    <3>3. QED
      BY <1>1, <1>5, <2>1, <3>1, <3>2 DEF PassInv, WorkerTo, Deleting
  <2>3. QED
    BY <1>0, <1>1, <1>3, <2>1, <2>2, PassReadStep
<1>6. ASSUME NEW p \in {"progress", "c-stopped"}, Answered(w, p, alloc'[b]), alloc'[b] \in Ended,
             p = "progress" => /\ worker[w].mode \in {"stale", "terminal", "release"}
                               /\ worker[w].mode = "stale" => start'[b] = "NO"
      PROVE  IInv'
  <2>1. WorkerTo(w, p, b, worker[w].mode, alloc'[b]) /\ p # "idle"
    BY <1>2, <1>6, WorkerFacts DEF WorkerPlaces, Of, b
  <2>2. PassInv(worker'[w], batch[b], alloc'[b], start'[b], why[b], Canc(b))
    BY <1>1, <1>2, <1>6, <2>1 DEF PassInv, WorkerTo, Deleting
  <2>3. QED
    BY <1>0, <1>1, <1>3, <2>1, <2>2, PassReadStep
<1>7. CASE AskTarget(w)
  <2>1. worker[w].pc = "status" /\ UNCHANGED target /\ alloc' = alloc /\ start' = start
    BY <1>7 DEF AskTarget, Doing, target
  <2>2. worker[w].mode \in {"stale", "terminal", "release"}
    BY <1>1, <2>1 DEF PassInv
  <2>3. \/ Leave(w) \/ To(w, "unknown")
        \/ alloc[b] = "RESERVED" /\ To(w, "cancel")
        \/ /\ alloc[b] \in T!Terminal /\ Answered(w, "progress", alloc[b])
           /\ worker[w].mode = "stale" => start[b] = "NO"
    BY <1>7 DEF AskTarget, Stale, b
  <2>4. QED
    BY <1>2, <1>4, <1>5, <1>6, <2>1, <2>2, <2>3
<1>8. CASE CancelReserved(w)
  <2>1. worker[w].pc = "cancel" /\ TargetCancel(b)
        /\ (Leave(w) \/ (alloc'[b] \in T!Terminal /\ Answered(w, "progress", alloc'[b])))
    BY <1>8 DEF CancelReserved, Doing, b
  <2>2. worker[w].mode \in {"stale", "terminal", "release"}
    BY <1>1, <2>1 DEF PassInv
  <2>3. worker[w].mode = "stale" => start'[b] = "NO"
    <3>1. worker[w].mode = "stale" =>
            /\ start[b] = "NO" /\ alloc[b] \in Ended \cup {"RESERVED"}
            /\ ~batch[b].live
      BY <1>1, <2>1 DEF PassInv
    <3>2. alloc[b] = "RESERVED" /\ ~batch[b].live => tree[b] = "none"
      BY <1>2 DEF LaunchInv
    <3>3. QED
      BY <1>3, <3>1, <3>2 DEF TargetMoves
  <2>4. QED
    BY <1>2, <1>4, <1>6, <2>1, <2>2, <2>3
<1>9. CASE StopAsk(w)
  <2>1. UNCHANGED target /\ alloc' = alloc
    BY <1>9 DEF StopAsk, target
  <2>2. \/ To(w, "c-finished") \/ To(w, "c-stop")
        \/ alloc[b] \in T!Terminal /\ Answered(w, "c-stopped", alloc[b])
    BY <1>9 DEF StopAsk, b
  <2>3. QED
    BY <1>2, <1>5, <1>6, <2>1, <2>2
<1>10. CASE Stop(w)
  <2>2. \/ To(w, "c-finished") \/ Leave(w)
        \/ alloc'[b] \in T!Terminal /\ Answered(w, "c-stopped", alloc'[b])
    BY <1>10 DEF Stop, b
  <2>3. QED
    BY <1>2, <1>4, <1>5, <1>6, <2>2
<1>11. QED
  BY <1>4, <1>7, <1>8, <1>9, <1>10 DEF GiveUp

\* A pass writes, and goes on or stops; the target is left alone.
LEMMA PassWriteStep ==
  ASSUME IInv, NEW w \in Workers, NEW b \in Batches,
         UNCHANGED <<job, owner, sent, seen, why, target>>,
         Touches(batch', batch, b, BatchRows),
         Touches(gone', gone, b, SUBSET {"stage", "durable"}),
         Touches(closer', closer, b, Workers \cup {"no", "owner"}),
         PassWrites(batch[b], batch'[b], alloc[b], start[b], gone[b], gone'[b], closer[b],
                    closer'[b], why[b], Canc(b)),
         \/ Leave(w)
         \/ worker' = worker /\ worker[w].pc = "idle"
         \/ \E p, m, c : /\ WorkerTo(w, p, b, m, c) /\ p # "idle"
                         /\ w = "oper" => m \notin {"stale", "terminal"}
                         /\ PassInv(worker'[w], batch'[b], alloc[b], start[b], why[b], Canc(b))
  PROVE  IInv'
<1>0. job' = job /\ why' = why /\ alloc' = alloc /\ start' = start
  BY DEF target
<1>1. Canc(b)' <=> Canc(b)
  <2>1. batch'[b].st = batch[b].st
    BY DEF PassWrites
  <2>2. QED
    BY <1>0, <2>1, CancelledKept DEF Canc
<1>2. TargetTypes' /\ TargetMoves(b) /\ \A q \in Batches \ {b} : TargetSame(q)
  BY TargetRests
<1>3. /\ WorkerInv(w)' /\ worker' \in [Workers -> WorkerRows]
      /\ \A v \in Workers \ {w} : worker'[v] = worker[v]
  <2>1. CASE Leave(w)
    <3>1. WorkerInv(w)' /\ WorkerTo(w, "idle", None, "none", "NULL")
      BY <2>1, WorkerFacts DEF IInv
    <3>2. QED
      BY <3>1 DEF WorkerTo
  <2>2. CASE worker' = worker /\ worker[w].pc = "idle"
    BY <2>2 DEF IInv, WorkerInv, Shape
  <2>3. ASSUME NEW p, NEW m, NEW c, WorkerTo(w, p, b, m, c), p # "idle",
               w = "oper" => m \notin {"stale", "terminal"},
               PassInv(worker'[w], batch'[b], alloc[b], start[b], why[b], Canc(b))
        PROVE  /\ WorkerInv(w)' /\ worker' \in [Workers -> WorkerRows]
               /\ \A v \in Workers \ {w} : worker'[v] = worker[v]
    <3>1. PassInv(worker'[w], batch'[b], alloc'[b], start'[b], why'[b], Canc(b)')
      BY <1>0, <1>1, <2>3 DEF PassInv
    <3>2. QED
      BY <2>3, <3>1, PassGoes DEF WorkerTo
  <2>4. QED
    BY <2>1, <2>2, <2>3
<1>4. PassWrites(batch[b], batch'[b], alloc'[b], start'[b], gone[b], gone'[b], closer[b],
                 closer'[b], why[b], Canc(b))
  BY <1>0
<1>5. QED
  BY <1>2, <1>3, <1>4, PassStep

\* The stage of a batch without an identity, and the cleanup of the others.
LEMMA CleanSteps ==
  ASSUME IInv, NEW w \in Workers, RemoveUnrecorded(w) \/ CleanUp(w)
  PROVE  IInv'
<1> DEFINE b == Of(w)
<1>0. UNCHANGED <<job, owner, sent, seen, why, target, closer>> /\ worker[w].pc # "idle"
  BY Zenon DEF RemoveUnrecorded, CleanUp, queue, history, Doing, Progress, RecordCleanupProgress
<1>1. /\ b \in Batches /\ worker[w] \in WorkerRows
      /\ PassInv(worker[w], batch[b], alloc[b], start[b], why[b], Canc(b))
      /\ w = "oper" => worker[w].mode \notin {"stale", "terminal"}
  BY <1>0, PassFacts
<1>2. b = worker[w].b
  BY DEF Of
<1> HIDE DEF b
<1>3. /\ Shape /\ batch[b] \in BatchRows
      /\ OwnerInv(batch[b], owner[b], alloc[b], tree[b], gone[b], seen[b], Canc(b))
      /\ LaunchInv(batch[b], owner[b], alloc[b], start[b], tree[b], sent[b])
      /\ ReplayInv(batch[b], alloc[b], start[b], why[b], closer[b])
  BY <1>1, BatchFacts
<1>4. /\ batch \in [Batches -> BatchRows] /\ gone \in [Batches -> SUBSET {"stage", "durable"}]
      /\ Touches(closer', closer, b, Workers \cup {"no", "owner"}) /\ closer'[b] = closer[b]
  BY <1>0, <1>3 DEF Shape, Touches
<1>5. ASSUME NEW x \in {"stage", "durable"}, Delete(b, x)
      PROVE  Touches(gone', gone, b, SUBSET {"stage", "durable"})
  BY <1>4, <1>5 DEF Delete, Touches
<1>6. ASSUME batch' = batch
      PROVE  Touches(batch', batch, b, BatchRows) /\ batch'[b] = batch[b]
  BY <1>4, <1>6 DEF Touches
<1>7. CASE RemoveUnrecorded(w)
  <2>1. worker[w].pc = "rmonly" /\ Delete(b, "stage") /\ To(w, "replay") /\ batch' = batch
    BY <1>7 DEF RemoveUnrecorded, Doing, queue, b
  <2>2. /\ ~batch[b].op /\ ~batch[b].live /\ batch[b].st # "none" /\ ~Canc(b)
        /\ worker[w].mode = "stale" /\ why[b] # "recovery"
    BY <1>1, <1>3, <2>1 DEF PassInv, OwnerInv
  <2>3. WorkerTo(w, "replay", b, worker[w].mode, worker[w].cs)
    BY <1>2, <1>3, <2>1, WorkerFacts DEF WorkerPlaces
  <2>4. PassInv(worker'[w], batch'[b], alloc[b], start[b], why[b], Canc(b))
    BY <1>1, <1>6, <2>1, <2>2, <2>3 DEF PassInv, WorkerTo, Deleting
  <2>5. PassWrites(batch[b], batch'[b], alloc[b], start[b], gone[b], gone'[b], closer[b],
                   closer'[b], why[b], Canc(b))
    BY <1>3, <1>4, <1>6, <2>1, <2>2 DEF PassWrites, OwnerInv, LaunchInv
  <2>6. QED
    BY <1>0, <1>1, <1>4, <1>5, <1>6, <2>1, <2>3, <2>4, <2>5, PassWriteStep
<1>8. ASSUME NEW x \in {"stage", "durable"}, NEW p \in {"stage-gone", "dur-gone"}, Delete(b, x),
             To(w, p), batch' = batch, worker[w].pc \in {"rmstage", "rmdurable"}
      PROVE  IInv'
  <2>1. /\ batch[b].op /\ batch[b].cst # "NULL" /\ (Canc(b) => batch[b].rel)
        /\ alloc[b] \in Ended
    BY <1>1, <1>8 DEF PassInv, Deleting, WorkerRows
  <2>2. WorkerTo(w, p, b, worker[w].mode, worker[w].cs)
    BY <1>2, <1>3, <1>8, WorkerFacts DEF WorkerPlaces
  <2>3. PassInv(worker'[w], batch'[b], alloc[b], start[b], why[b], Canc(b))
    BY <1>1, <1>6, <1>8, <2>2 DEF PassInv, WorkerTo, Deleting
  <2>4. PassWrites(batch[b], batch'[b], alloc[b], start[b], gone[b], gone'[b], closer[b],
                   closer'[b], why[b], Canc(b))
    BY <1>3, <1>4, <1>6, <1>8, <2>1 DEF PassWrites, OwnerInv, LaunchInv
  <2>5. QED
    BY <1>0, <1>1, <1>4, <1>5, <1>6, <1>8, <2>2, <2>3, <2>4, PassWriteStep
<1>9. ASSUME NEW c \in {worker[w].cs, "NULL"}, NEW x \in BOOLEAN, NEW y \in BOOLEAN,
             NEW p \in {"rmstage", "rmdurable", "final"}, Progress(w, c, x, y, p), gone' = gone,
             \/ worker[w].pc = "progress" /\ c = worker[w].cs
             \/ worker[w].pc \in {"stage-gone", "dur-gone"}
      PROVE  IInv'
  <2>0. Touches(gone', gone, b, SUBSET {"stage", "durable"}) /\ gone'[b] = gone[b]
    BY <1>4, <1>9 DEF Touches
  <2>1. CASE UNCHANGED queue /\ Leave(w)
    <3>1. TargetTypes' /\ TargetMoves(b) /\ \A q \in Batches \ {b} : TargetSame(q)
      BY <1>0, <1>1, TargetRests
    <3>2. QED
      BY <1>0, <1>1, <1>9, <2>1, <3>1, PassLeaves DEF queue
  <2>2. CASE /\ MayRecordProgress(b, c, Release(w)) /\ To(w, p)
             /\ RecordCleanupProgress(b, c, x, y, Stale(w) /\ c # "NULL")
    <3>1. /\ c \in Ended \cup {"NULL"} /\ worker[w].cs # "NULL"
          /\ (Stale(w) /\ c # "NULL") \in BOOLEAN
      BY <1>1, <1>9 DEF WorkerRows, PassInv, Deleting
    <3>2. PICK d \in Dispositions :
            RowTo(b, batch[b].st, batch[b].live, batch[b].op,
                  IF c = "NULL" THEN batch[b].cst ELSE c, batch[b].fin, d, batch[b].rel)
      BY <1>1, <1>3, <2>2, <3>1, ProgressFacts
    <3>3. /\ batch[b].op /\ (IF c = "NULL" THEN batch[b].cst ELSE c) # "NULL"
          /\ batch[b].st # "none" /\ why[b] # "recovery" /\ (Canc(b) => batch[b].rel)
      <4>1. batch[b].op /\ (batch[b].disp = "FENCED" => batch[b].rel)
        BY <2>2 DEF MayRecordProgress
      <4>2. batch[b].st # "none" /\ (Canc(b) => batch[b].rel)
        BY <1>3, <4>1 DEF OwnerInv, LaunchInv
      <4>3. (IF c = "NULL" THEN batch[b].cst ELSE c) # "NULL" /\ why[b] # "recovery"
        BY <1>1, <1>9, <3>1 DEF PassInv, Deleting
      <4>4. QED
        BY <4>1, <4>2, <4>3
    <3>4. WorkerTo(w, p, b, worker[w].mode, worker[w].cs)
      BY <1>2, <1>3, <1>9, <2>2, WorkerFacts DEF WorkerPlaces
    <3>5. PassInv(worker'[w], batch'[b], alloc[b], start[b], why[b], Canc(b))
      BY <1>1, <1>9, <3>1, <3>2, <3>3, <3>4 DEF PassInv, WorkerTo, Deleting, RowTo
    <3>6. PassWrites(batch[b], batch'[b], alloc[b], start[b], gone[b], gone'[b], closer[b],
                     closer'[b], why[b], Canc(b))
      BY <1>3, <1>4, <2>0, <3>2, <3>3 DEF PassWrites, OwnerInv, RowTo
    <3>7. Touches(batch', batch, b, BatchRows)
      BY <3>2 DEF RowTo, Touches
    <3>8. p # "idle"
      BY <1>9
    <3>9. QED
      BY <1>0, <1>1, <1>4, <2>0, <3>4, <3>5, <3>6, <3>7, <3>8, PassWriteStep
  <2>3. QED
    BY <1>9, <2>1, <2>2, Zenon DEF Progress, b
<1>10. CASE CleanUp(w)
  <2>1. \/ /\ worker[w].pc = "progress" /\ gone' = gone
           /\ Progress(w, worker[w].cs, FALSE, FALSE, AfterProgress(w))
        \/ /\ worker[w].pc = "rmstage" /\ Delete(b, "stage") /\ To(w, "stage-gone")
           /\ batch' = batch
        \/ /\ worker[w].pc = "stage-gone" /\ gone' = gone
           /\ Progress(w, "NULL", TRUE, FALSE, AfterStage(w))
        \/ /\ worker[w].pc = "rmdurable" /\ Delete(b, "durable") /\ To(w, "dur-gone")
           /\ batch' = batch
        \/ /\ worker[w].pc = "dur-gone" /\ gone' = gone
           /\ Progress(w, "NULL", FALSE, TRUE, "final")
    BY <1>10, Zenon DEF CleanUp, Doing, queue, b
  <2>2. AfterProgress(w) \in {"rmstage", "rmdurable", "final"}
        /\ AfterStage(w) \in {"rmstage", "rmdurable", "final"}
    BY DEF AfterProgress, AfterStage
  <2>3. CASE \/ /\ worker[w].pc = "rmstage" /\ Delete(b, "stage") /\ To(w, "stage-gone")
                /\ batch' = batch
             \/ /\ worker[w].pc = "rmdurable" /\ Delete(b, "durable") /\ To(w, "dur-gone")
                /\ batch' = batch
    BY <1>8, <2>3
  <2>4. CASE /\ worker[w].pc = "progress" /\ gone' = gone
             /\ Progress(w, worker[w].cs, FALSE, FALSE, AfterProgress(w))
    BY <1>9, <2>2, <2>4, Zenon
  <2>5. CASE /\ worker[w].pc = "stage-gone" /\ gone' = gone
             /\ Progress(w, "NULL", TRUE, FALSE, AfterStage(w))
    BY <1>9, <2>2, <2>5, Zenon
  <2>6. CASE /\ worker[w].pc = "dur-gone" /\ gone' = gone
             /\ Progress(w, "NULL", FALSE, TRUE, "final")
    BY <1>9, <2>6, Zenon
  <2>7. QED
    BY <2>1, <2>3, <2>4, <2>5, <2>6, Zenon
<1>11. QED
  BY <1>7, <1>10

\* The end of a cleanup, and the operator's release.
LEMMA CloseCleanupStep ==
  ASSUME IInv, NEW w \in Workers, CloseCleanup(w)
  PROVE  IInv'
<1> DEFINE b == Of(w)
<1>0. /\ worker[w].pc = "final" /\ worker[w].pc # "idle"
      /\ UNCHANGED <<job, owner, sent, seen, why, target, gone>>
      /\ \/ /\ Row(b, Finalized(b, worker[w].cs)) /\ closer' = [closer EXCEPT ![b] = w]
            /\ Leave(w) \/ (Stale(w) /\ To(w, "replay"))
         \/ UNCHANGED <<queue, closer>> /\ Leave(w)
  BY DEF CloseCleanup, Doing, RecordExpiredFinalization, queue
<1>1. /\ b \in Batches /\ worker[w] \in WorkerRows
      /\ PassInv(worker[w], batch[b], alloc[b], start[b], why[b], Canc(b))
      /\ w = "oper" => worker[w].mode \notin {"stale", "terminal"}
  BY <1>0, PassFacts
<1>2. b = worker[w].b
  BY DEF Of
<1> HIDE DEF b
<1>3. /\ Shape /\ batch[b] \in BatchRows
      /\ OwnerInv(batch[b], owner[b], alloc[b], tree[b], gone[b], seen[b], Canc(b))
      /\ LaunchInv(batch[b], owner[b], alloc[b], start[b], tree[b], sent[b])
  BY <1>1, BatchFacts
<1>4. CASE UNCHANGED <<queue, closer>> /\ Leave(w)
  <2>1. TargetTypes' /\ TargetMoves(b) /\ \A q \in Batches \ {b} : TargetSame(q)
    BY <1>0, <1>1, TargetRests
  <2>2. QED
    BY <1>0, <1>1, <1>4, <2>1, PassLeaves DEF queue
<1>5. CASE /\ Row(b, Finalized(b, worker[w].cs)) /\ closer' = [closer EXCEPT ![b] = w]
           /\ Leave(w) \/ (Stale(w) /\ To(w, "replay"))
  <2>1. worker[w].cs \in Ended /\ alloc[b] = worker[w].cs
    BY <1>0, <1>1 DEF PassInv, Deleting, WorkerRows
  <2>2. PICK v \in BOOLEAN : v /\ RowTo(b, batch[b].st, batch[b].live, batch[b].op, worker[w].cs, v,
                                        "FINALIZED", batch[b].rel)
    BY <1>1, <1>3, <1>5, <2>1, CleanupFacts, Zenon
  <2>3. /\ worker[w].mode \in {"stale", "terminal", "release"} /\ why[b] # "recovery"
        /\ batch[b].op /\ (Canc(b) => batch[b].rel)
        /\ worker[w].mode = "stale" => Unstarted(alloc[b], start[b])
        /\ worker[w].mode # "stale" => batch[b].st \in {"done", "failed"}
    BY <1>0, <1>1, <2>1 DEF PassInv, Deleting, Unstarted
  <2>4. PassWrites(batch[b], batch'[b], alloc[b], start[b], gone[b], gone'[b], closer[b],
                   closer'[b], why[b], Canc(b))
    BY <1>0, <1>3, <2>1, <2>2, <2>3
       DEF PassWrites, OwnerInv, LaunchInv, RowTo, Ended, BatchActive, Executing
  <2>5. /\ Touches(batch', batch, b, BatchRows) /\ Touches(gone', gone, b, SUBSET {"stage", "durable"})
        /\ Touches(closer', closer, b, Workers \cup {"no", "owner"})
    BY <1>0, <1>1, <1>3, <1>5, <2>2 DEF Touches, RowTo, Shape
  <2>6. CASE Leave(w)
    BY <1>0, <1>1, <2>4, <2>5, <2>6, PassWriteStep
  <2>7. CASE Stale(w) /\ To(w, "replay")
    <3>1. WorkerTo(w, "replay", b, worker[w].mode, worker[w].cs)
      BY <1>2, <1>3, <2>7, WorkerFacts DEF WorkerPlaces
    <3>2. PassInv(worker'[w], batch'[b], alloc[b], start[b], why[b], Canc(b))
      BY <1>0, <1>1, <2>2, <2>7, <3>1 DEF PassInv, WorkerTo, Deleting, RowTo, Stale
    <3>3. QED
      BY <1>0, <1>1, <2>4, <2>5, <3>1, <3>2, PassWriteStep
  <2>8. QED
    BY <1>5, <2>6, <2>7
<1>6. QED
  BY <1>0, <1>4, <1>5

\* authorize_target_release, with and without the acknowledgment.
LEMMA ReleaseSteps ==
  ASSUME IInv, ReleaseAuthorizes \/ \E b \in Batches : Acknowledge(b)
  PROVE  IInv'
<1>0. UNCHANGED <<job, owner, sent, seen, why, target, gone, closer>> /\ "oper" \in Workers
  BY Zenon DEF ReleaseAuthorizes, Acknowledge, AuthorizeTargetRelease, queue, history, Workers
<1>1. ASSUME NEW b \in Batches, NEW k \in BOOLEAN, MayRelease(b), AuthorizeTargetRelease(b, k),
             \/ worker' = worker /\ worker["oper"].pc = "idle"
             \/ Take("oper", b, "release", "status")
      PROVE  IInv'
  <2>1. /\ Shape /\ batch[b] \in BatchRows
        /\ OwnerInv(batch[b], owner[b], alloc[b], tree[b], gone[b], seen[b], Canc(b))
        /\ ReplayInv(batch[b], alloc[b], start[b], why[b], closer[b])
    BY BatchFacts
  <2>2. PICK v \in BOOLEAN : v /\ RowTo(b, batch[b].st, batch[b].live, batch[b].op, batch[b].cst,
                                        batch[b].fin, batch[b].disp, v)
    BY <1>1, <2>1, FlagFacts, Zenon
  <2>3. batch[b].st = "failed" /\ batch[b].disp = "FENCED" /\ why[b] # "recovery"
    BY <1>1, <2>1 DEF MayRelease, FencedRow, ReplayInv
  <2>4. /\ Touches(batch', batch, b, BatchRows) /\ Touches(gone', gone, b, SUBSET {"stage", "durable"})
        /\ Touches(closer', closer, b, Workers \cup {"no", "owner"})
        /\ gone'[b] = gone[b] /\ closer'[b] = closer[b]
    BY <1>0, <2>1, <2>2 DEF Touches, RowTo, Shape
  <2>5. PassWrites(batch[b], batch'[b], alloc[b], start[b], gone[b], gone'[b], closer[b],
                   closer'[b], why[b], Canc(b))
    BY <2>1, <2>2, <2>3, <2>4 DEF PassWrites, OwnerInv, RowTo, BatchActive, Executing
  <2>6. CASE worker' = worker /\ worker["oper"].pc = "idle"
    BY <1>0, <2>4, <2>5, <2>6, PassWriteStep
  <2>7. CASE Take("oper", b, "release", "status")
    <3>1. WorkerTo("oper", "status", b, "release", "NULL")
      BY <1>0, <2>1, <2>7, WorkerFacts DEF WorkerPlaces, Modes
    <3>2. PassInv(worker'["oper"], batch'[b], alloc[b], start[b], why[b], Canc(b))
      BY <2>2, <2>3, <3>1 DEF PassInv, WorkerTo, Deleting, RowTo
    <3>3. QED
      BY <1>0, <2>4, <2>5, <3>1, <3>2, PassWriteStep
  <2>8. QED
    BY <1>1, <2>6, <2>7
<1>2. CASE \E b \in Batches : Acknowledge(b)
  <2>1. PICK b \in Batches : /\ MayRelease(b) /\ AuthorizeTargetRelease(b, TRUE)
                             /\ worker' = worker /\ worker["oper"].pc = "idle"
    BY <1>2, Zenon DEF Acknowledge, Doing
  <2>2. QED
    BY <1>1, <2>1, Zenon
<1>3. CASE ReleaseAuthorizes
  <2> DEFINE b == Of("oper")
  <2>1. /\ worker["oper"].pc # "idle"
        /\ \/ /\ MayRelease(b) /\ AuthorizeTargetRelease(b, FALSE)
              /\ Take("oper", b, "release", "status")
           \/ batch' = batch /\ Leave("oper")
    BY <1>3, Zenon DEF ReleaseAuthorizes, Doing, queue
  <2>2. b \in Batches
    BY <1>0, <2>1, PassFacts
  <2> HIDE DEF b
  <2>3. CASE /\ MayRelease(b) /\ AuthorizeTargetRelease(b, FALSE)
             /\ Take("oper", b, "release", "status")
    BY <1>1, <2>2, <2>3, Zenon
  <2>4. CASE batch' = batch /\ Leave("oper")
    <3>1. TargetTypes' /\ TargetMoves(b) /\ \A q \in Batches \ {b} : TargetSame(q)
      BY <1>0, <2>2, TargetRests
    <3>2. QED
      BY <1>0, <2>2, <2>4, <3>1, PassLeaves
  <2>5. QED
    BY <2>1, <2>3, <2>4
<1>4. QED
  BY <1>2, <1>3

\* A pass ends an active batch: it lapsed, or its cancellation is over.
LEMMA PassCloseStep ==
  ASSUME IInv, NEW b \in Batches, NEW w \in Workers, Leave(w),
         UNCHANGED <<owner, target, sent, gone, seen, closer>>, batch[b].st \in BatchActive,
         NEW c, NEW d,
         RowTo(b, "failed", batch[b].live, batch[b].op, c, batch[b].fin, d, batch[b].rel),
         batch[b].cst # "NULL" => c # "NULL",
         Settles(b, Verdicts)
         \/ (Settles(b, {"cancelled"}) /\ batch[b].st = "cancelling" /\ alloc[b] \in Ended
             /\ d = "FENCED"),
         Touches(why', why, b, {"no", "owner", "recovery"}),
         why'[b] = why[b]
         \/ (d = "FINALIZED" /\ w = "drain" /\ (~batch[b].op \/ batch[b].fin))
  PROVE  IInv'
<1>0. /\ alloc' = alloc /\ start' = start /\ tree' = tree /\ gone' = gone /\ sent' = sent
      /\ seen' = seen /\ closer' = closer /\ owner' = owner
  BY DEF target
<1>1. /\ Shape /\ batch[b] \in BatchRows /\ owner[b] \in Owners
      /\ LaunchInv(batch[b], owner[b], alloc[b], start[b], tree[b], sent[b])
      /\ OwnerInv(batch[b], owner[b], alloc[b], tree[b], gone[b], seen[b], Canc(b))
      /\ ReplayInv(batch[b], alloc[b], start[b], why[b], closer[b])
  BY BatchFacts
<1>2. ~HasCancelled(b) /\ why[b] # "recovery" /\ ~batch[b].rel
  <2>1. batch[b].st # "failed"
    BY DEF BatchActive, Executing
  <2>2. QED
    BY <1>1, <2>1, NoneAssumption DEF IInv, JobInv, HasCancelled, ReplayInv, OwnerInv
<1>3. Canc(b)' => batch[b].st = "cancelling" /\ d = "FENCED"
  <2>1. batch'[b].st = "failed"
    BY DEF RowTo
  <2>2. CASE Settles(b, Verdicts)
    <3>1. \A j \in Jobs : job'[j] = job[j] \/ job'[j].st # "cancelled"
      BY <2>2 DEF Settles, Verdicts
    <3>2. ~HasCancelled(b)'
      BY <1>2, <3>1 DEF HasCancelled
    <3>3. QED
      BY <2>1, <3>2 DEF Canc
  <2>3. QED
    BY <2>2
<1>4. LaunchInv(batch'[b], owner[b], alloc[b], start[b], tree[b], sent[b])
  BY <1>1 DEF LaunchInv, RowTo, BatchActive, Executing
<1>5. OwnerInv(batch'[b], owner[b], alloc[b], tree[b], gone[b], seen[b], Canc(b)')
  <2>1. batch[b].st = "cancelling" => Canc(b)
    BY DEF Canc
  <2> DEFINE n == Canc(b)'
  <2>2. n => Canc(b) /\ d = "FENCED"
    BY <1>3, <2>1
  <2> HIDE DEF n
  <2>3. OwnerInv(batch'[b], owner[b], alloc[b], tree[b], gone[b], seen[b], n)
    BY <1>1, <1>2, <2>2 DEF OwnerInv, RowTo, BatchActive, Executing
  <2>4. QED
    BY <2>3 DEF n
<1>6. ReplayInv(batch'[b], alloc[b], start[b], why'[b], closer[b])
  BY <1>1, <1>2 DEF ReplayInv, RowTo, BatchActive, Executing
<1>7. BatchInv(b)'
  BY <1>0, <1>4, <1>5, <1>6 DEF BatchInv
<1>8. Mono(b)
  <2>1. Canc(b)' => Canc(b)
    BY <1>3 DEF Canc
  <2>2. batch'[b].op = batch[b].op
    BY <1>1 DEF RowTo, BatchRows
  <2>3. QED
    BY <1>0, <1>1, <1>2, <2>1, <2>2 DEF Mono, RowTo, Ended, BatchActive, Executing
<1>9. JobsOf(b) /\ job' \in [Jobs -> JobRows]
  BY DEF JobsOf, Settles, Members
<1>10. WorkerInv(w)' /\ WorkerTo(w, "idle", None, "none", "NULL")
  BY <1>1, WorkerFacts
<1>11. Local(b)
  <2>1. Touches(batch', batch, b, BatchRows) /\ worker' \in [Workers -> WorkerRows]
    BY <1>10 DEF RowTo, Touches, WorkerTo
  <2>2. QED
    BY <1>0, <1>1, <1>9, <2>1 DEF Local, Touches, Shape, TargetTypes, TargetSame
<1>12. ASSUME NEW v \in Workers PROVE PassOk(v)
  <2>1. CASE v = w
    BY <1>10, <2>1 DEF PassOk
  <2>2. CASE v # w
    <3>1. worker'[v] = worker[v]
      BY <1>10, <2>2 DEF WorkerTo
    <3>2. \A q \in Batches : why'[q] = "recovery" =>
             why[q] = "recovery" \/ (batch[q].st \in BatchActive /\ v = "oper")
      BY <1>2, <2>2 DEF Touches, Workers
    <3>3. QED
      BY <3>1, <3>2 DEF PassOk
  <2>3. QED
    BY <2>1, <2>2
<1>13. ASSUME NEW j \in Jobs PROVE JobOk(j)
  <2>1. CASE job'[j] = job[j]
    BY <2>1 DEF JobOk
  <2>2. CASE job'[j].bat = b /\ job'[j].st \in Verdicts
    BY <2>2 DEF JobOk, JobInv, Verdicts
  <2>3. CASE job'[j].bat = b /\ job'[j].st = "cancelled" /\ alloc[b] \in Ended
    BY <1>0, <2>3 DEF JobOk, JobInv, RowTo
  <2>4. CASE job'[j].bat = None /\ job'[j].st = "queued" /\ job'[j].att < MaxAttempts
    BY <2>4 DEF JobOk, JobInv
  <2>5. QED
    BY <2>1, <2>2, <2>3, <2>4 DEF Settles
<1>14. QED
  BY <1>7, <1>8, <1>11, <1>12, <1>13, LocalStep

\* The operator marks a batch for cancellation before it touches the target.
LEMMA CancelActiveStep ==
  ASSUME IInv, NEW b \in Batches, CancelActive(b)
  PROVE  IInv'
<1>0. /\ MayBeginCancellation(b) /\ BeginActiveCancellation(b) /\ job' = job
      /\ Take("oper", b, "cancelling", "c-status") /\ "oper" \in Workers
      /\ alloc' = alloc /\ start' = start /\ tree' = tree /\ gone' = gone /\ sent' = sent
      /\ seen' = seen /\ closer' = closer /\ owner' = owner /\ why' = why
  BY DEF CancelActive, target, history, BeginActiveCancellation, Workers
<1>1. /\ Shape /\ batch[b] \in BatchRows /\ owner[b] \in Owners
      /\ LaunchInv(batch[b], owner[b], alloc[b], start[b], tree[b], sent[b])
      /\ OwnerInv(batch[b], owner[b], alloc[b], tree[b], gone[b], seen[b], Canc(b))
      /\ ReplayInv(batch[b], alloc[b], start[b], why[b], closer[b])
  BY BatchFacts
<1>2. /\ batch[b].op /\ batch[b].cst = "NULL" /\ ~batch[b].fin /\ batch[b].st \in BatchActive
  BY <1>0 DEF MayBeginCancellation, BatchActive
<1>3. RowTo(b, "cancelling", batch[b].live, batch[b].op, batch[b].cst, batch[b].fin, "FENCED",
            batch[b].rel)
  BY <1>0, <1>1, CloseFacts DEF BeginActiveCancellation, BatchActive, Dispositions
<1>4. gone[b] = {} /\ owner[b].pc \notin {"rmstage", "rmdurable"} /\ ~batch[b].rel
      /\ why[b] # "recovery"
  BY <1>1, <1>2 DEF OwnerInv, ReplayInv, BatchActive, Executing
<1>5. LaunchInv(batch'[b], owner[b], alloc[b], start[b], tree[b], sent[b])
  BY <1>1, <1>2, <1>3 DEF LaunchInv, RowTo, BatchActive, Executing
<1>6. OwnerInv(batch'[b], owner[b], alloc[b], tree[b], gone[b], seen[b], Canc(b)')
  BY <1>1, <1>2, <1>3, <1>4 DEF OwnerInv, RowTo
<1>7. ReplayInv(batch'[b], alloc[b], start[b], why[b], closer[b])
  BY <1>2, <1>3, <1>4 DEF ReplayInv, RowTo
<1>8. BatchInv(b)'
  BY <1>0, <1>5, <1>6, <1>7 DEF BatchInv
<1>9. Mono(b)
  <2>1. batch'[b].op = batch[b].op
    BY <1>1, <1>3 DEF RowTo, BatchRows
  <2>2. QED
    BY <1>0, <1>2, <1>3, <1>4, <2>1 DEF Mono, RowTo, Ended, BatchActive, Executing
<1>10. WorkerTo("oper", "c-status", b, "cancelling", "NULL")
  BY <1>0, <1>1, WorkerFacts DEF WorkerPlaces, Modes
<1>11. WorkerInv("oper")'
  <2>1. PassInv(worker'["oper"], batch'[b], alloc'[b], start'[b], why'[b], Canc(b)')
    BY <1>0, <1>4, <1>10 DEF PassInv, WorkerTo, Deleting
  <2>2. QED
    BY <1>0, <1>10, <2>1, PassGoes
<1>12. Local(b)
  BY <1>0, <1>1, <1>3, <1>10 DEF Local, Touches, RowTo, WorkerTo, Shape, TargetTypes, TargetSame,
     JobsOf
<1>13. (\A v \in Workers : PassOk(v)) /\ (\A j \in Jobs : JobOk(j))
  BY <1>0, <1>10, <1>11 DEF PassOk, JobOk, WorkerTo
<1>14. QED
  BY <1>8, <1>9, <1>12, <1>13, LocalStep

\* expire_stale_batch, and the record of a stopped operation.
LEMMA EndSteps ==
  ASSUME IInv, NEW w \in Workers, Expire(w) \/ RecordStop(w)
  PROVE  IInv'
<1> DEFINE b == Of(w)
<1>0. /\ worker[w].pc # "idle" /\ Leave(w) /\ UNCHANGED <<owner, target, sent, gone, seen, closer>>
  BY Zenon DEF Expire, RecordStop, Doing, history
<1>1. /\ b \in Batches /\ worker[w] \in WorkerRows
      /\ PassInv(worker[w], batch[b], alloc[b], start[b], why[b], Canc(b))
      /\ w = "oper" => worker[w].mode \notin {"stale", "terminal"}
  BY <1>0, PassFacts
<1> HIDE DEF b
<1>2. Shape /\ batch[b] \in BatchRows /\ why \in [Batches -> {"no", "owner", "recovery"}]
      /\ ReplayInv(batch[b], alloc[b], start[b], why[b], closer[b])
      /\ OwnerInv(batch[b], owner[b], alloc[b], tree[b], gone[b], seen[b], Canc(b))
  <2>1. Shape /\ batch[b] \in BatchRows
        /\ ReplayInv(batch[b], alloc[b], start[b], why[b], closer[b])
        /\ OwnerInv(batch[b], owner[b], alloc[b], tree[b], gone[b], seen[b], Canc(b))
    BY <1>1, BatchFacts
  <2>2. QED
    BY <2>1 DEF Shape
<1>3. ASSUME why' = why
      PROVE  Touches(why', why, b, {"no", "owner", "recovery"}) /\ why'[b] = why[b]
  BY <1>2, <1>3 DEF Touches
<1>4. ASSUME UNCHANGED queue, why' = why PROVE IInv'
  <2>1. TargetTypes' /\ TargetMoves(b) /\ \A q \in Batches \ {b} : TargetSame(q)
    BY <1>0, <1>1, TargetRests
  <2>2. QED
    BY <1>0, <1>1, <1>4, <2>1, PassLeaves DEF queue
<1>5. ASSUME Close(b, "failed", "FENCED"), JobsBecome(b, "completion_unknown"),
             batch[b].st \in BatchActive, why' = why
      PROVE  IInv'
  <2>1. RowTo(b, "failed", batch[b].live, batch[b].op, batch[b].cst, batch[b].fin, "FENCED",
              batch[b].rel)
    BY <1>1, <1>2, <1>5, CloseFacts DEF Dispositions
  <2>2. Settles(b, Verdicts)
    <3>1. Settles(b, {"completion_unknown"})
      BY <1>1, <1>2, <1>5, SettleFacts DEF JobOutcomes
    <3>2. QED
      BY <3>1 DEF Settles, Verdicts
  <2>3. QED
    BY <1>0, <1>1, <1>3, <1>5, <2>1, <2>2, PassCloseStep
<1>6. CASE Expire(w)
  <2>1. \/ /\ worker[w].pc = "replay" /\ MayExpire(b, TRUE) /\ ExpireReplay(b)
           /\ Requeued(b, "recovery")
        \/ MayExpire(b, FALSE) /\ ExpireUnknown(b) /\ why' = why
        \/ UNCHANGED queue /\ why' = why
    BY <1>6, Zenon DEF Expire, Doing, b
  <2>2. CASE MayExpire(b, FALSE) /\ ExpireUnknown(b) /\ why' = why
    BY <1>5, <2>2 DEF MayExpire, StaleTarget, ExpireUnknown
  <2>3. CASE /\ worker[w].pc = "replay" /\ MayExpire(b, TRUE) /\ ExpireReplay(b)
             /\ Requeued(b, "recovery")
    <3>1. /\ batch[b].st \in BatchActive /\ (~batch[b].op \/ batch[b].fin)
          /\ Close(b, "failed", "FINALIZED") /\ FinishBatchFailure(b, MaxAttempts)
      BY <2>3 DEF MayExpire, StaleTarget, ExpireReplay
    <3>2. w = "drain"
      BY <1>1, <2>3 DEF PassInv, Workers
    <3>3. RowTo(b, "failed", batch[b].live, batch[b].op, batch[b].cst, batch[b].fin, "FINALIZED",
                batch[b].rel)
      BY <1>1, <1>2, <3>1, CloseFacts DEF Dispositions
    <3>4. Settles(b, Verdicts)
      BY <1>1, <1>2, <3>1, SettleFacts
    <3>5. Touches(why', why, b, {"no", "owner", "recovery"})
      BY <1>1, <1>2, <2>3 DEF Requeued, Touches
    <3>6. QED
      BY <1>0, <1>1, <3>1, <3>2, <3>3, <3>4, <3>5, PassCloseStep
  <2>4. QED
    BY <1>4, <2>1, <2>2, <2>3
<1>7. CASE RecordStop(w)
  <2>1. /\ why' = why
        /\ \/ UNCHANGED queue
           \/ Cancelling(b) /\ MarkActiveCancellationUnknown(b)
           \/ /\ worker[w].pc = "c-stopped" /\ Cancelling(b)
              /\ CancelActiveBatch(b, worker[w].cs)
           \/ /\ worker[w].pc = "c-stopped" /\ FencedRow(b)
              /\ RecordFencedCancellation(b, worker[w].cs)
    BY <1>7 DEF RecordStop, Doing, history, b
  <2>2. CASE Cancelling(b) /\ MarkActiveCancellationUnknown(b)
    BY <1>5, <2>1, <2>2 DEF Cancelling, MarkActiveCancellationUnknown, BatchActive
  <2>3. worker[w].pc = "c-stopped" =>
          worker[w].cs \in Ended /\ alloc[b] = worker[w].cs /\ worker[w].cs # "NULL"
    BY <1>1 DEF PassInv, WorkerRows
  <2>4. CASE worker[w].pc = "c-stopped" /\ Cancelling(b) /\ CancelActiveBatch(b, worker[w].cs)
    <3>1. batch[b].st = "cancelling" /\ batch[b].disp = "FENCED" /\ batch[b].st \in BatchActive
      BY <2>4 DEF Cancelling, BatchActive
    <3>2. RowTo(b, "failed", batch[b].live, batch[b].op, worker[w].cs, batch[b].fin, batch[b].disp,
                batch[b].rel)
      BY <1>1, <1>2, <2>3, <2>4, CleanupFacts
    <3>3. Settles(b, {"cancelled"})
      BY <1>1, <1>2, <2>4, SettleFacts DEF CancelActiveBatch, JobOutcomes
    <3>4. QED
      BY <1>0, <1>1, <1>3, <2>1, <2>3, <2>4, <3>1, <3>2, <3>3, PassCloseStep
  <2>5. CASE /\ worker[w].pc = "c-stopped" /\ FencedRow(b)
             /\ RecordFencedCancellation(b, worker[w].cs)
    <3>1. RowTo(b, batch[b].st, batch[b].live, batch[b].op, worker[w].cs, batch[b].fin,
                batch[b].disp, batch[b].rel)
      BY <1>1, <1>2, <2>3, <2>5, CleanupFacts
    <3>2. job' = job /\ batch[b].st = "failed"
      BY <2>5 DEF RecordFencedCancellation, FencedRow
    <3>3. /\ Touches(batch', batch, b, BatchRows)
          /\ Touches(gone', gone, b, SUBSET {"stage", "durable"})
          /\ Touches(closer', closer, b, Workers \cup {"no", "owner"})
          /\ gone'[b] = gone[b] /\ closer'[b] = closer[b]
      BY <1>0, <1>2, <3>1 DEF Touches, RowTo, Shape
    <3>4. PassWrites(batch[b], batch'[b], alloc[b], start[b], gone[b], gone'[b], closer[b],
                     closer'[b], why[b], Canc(b))
      BY <1>2, <2>3, <2>5, <3>1, <3>2, <3>3
         DEF PassWrites, OwnerInv, RowTo, BatchActive, Executing
    <3>5. QED
      BY <1>0, <1>1, <2>1, <3>2, <3>3, <3>4, PassWriteStep
  <2>6. QED
    BY <1>4, <2>1, <2>2, <2>4, <2>5
<1>8. QED
  BY <1>6, <1>7

-----------------------------------------------------------------------------
(* The invariant.                                                          *)

\* Nothing is claimed, asked or deleted yet.
LEMMA InvInit ==
  ASSUME Init
  PROVE  IInv
<1>0. /\ job = [j \in Jobs |-> [st |-> "queued", att |-> 0, bat |-> None]]
      /\ batch = [b \in Batches |-> NoBatch] /\ owner = [b \in Batches |-> NoOwner]
      /\ worker = [w \in Workers |-> IdleWorker] /\ gone = [b \in Batches |-> {}]
      /\ seen = [b \in Batches |-> "no"] /\ why = [b \in Batches |-> "no"]
      /\ closer = [b \in Batches |-> "no"]
      /\ alloc = [b \in Batches |-> "NONE"] /\ start = [b \in Batches |-> "NO"]
      /\ tree = [b \in Batches |-> "none"]
  BY DEF Init, QueueInit, T!Init
<1>1. sent \in [Batches -> BOOLEAN] /\ \A b \in Batches : ~sent[b]
  BY DEF Init
<1>2. /\ NoBatch \in BatchRows /\ ~NoBatch.op /\ NoBatch.cst = "NULL" /\ ~NoBatch.fin
      /\ ~NoBatch.rel /\ NoBatch.st = "none" /\ NoBatch.op \in BOOLEAN
  BY DEF NoBatch, BatchRows, Dispositions, BatchActive
<1>3. /\ NoOwner \in Owners /\ NoOwner.res = "none" /\ NoOwner.cs = "NULL" /\ NoOwner.pc = "none"
      /\ NoOwner.bs = "none"
  BY DEF NoOwner, Owners, OwnerPlaces, Results
<1>4. IdleWorker \in WorkerRows /\ IdleWorker.pc = "idle"
  <2>1. NoSnap \in Snaps
    BY DEF NoSnap, Snaps
  <2>2. QED
    BY <2>1 DEF IdleWorker, WorkerRows, WorkerPlaces, Modes
<1>5. Shape
  <2>1. [st |-> "queued", att |-> 0, bat |-> None] \in JobRows
    BY MaxAttemptsAssumption DEF JobRows
  <2>2. job \in [Jobs -> JobRows] /\ batch \in [Batches -> BatchRows]
        /\ owner \in [Batches -> Owners] /\ worker \in [Workers -> WorkerRows]
    BY <1>0, <1>2, <1>3, <1>4, <2>1
  <2>3. QED
    BY <1>0, <1>1, <2>2 DEF Shape, T!Allocs, T!Starts, T!Trees
<1>6. ASSUME NEW b \in Batches PROVE BatchInv(b)
  <2>1. ~Canc(b)
    BY <1>0, <1>2 DEF Canc, HasCancelled
  <2>2. LaunchInv(batch[b], owner[b], alloc[b], start[b], tree[b], sent[b])
    BY <1>0, <1>1, <1>2, <1>3 DEF LaunchInv, Ended, Recorded, Early, Past
  <2>3. OwnerInv(batch[b], owner[b], alloc[b], tree[b], gone[b], seen[b], Canc(b))
    BY <1>0, <1>2, <1>3, <2>1 DEF OwnerInv, Ended
  <2>4. ReplayInv(batch[b], alloc[b], start[b], why[b], closer[b])
    BY <1>0, <1>2 DEF ReplayInv
  <2>5. QED
    BY <2>2, <2>3, <2>4 DEF BatchInv
<1>7. \A w \in Workers : WorkerInv(w)
  BY <1>0, <1>4 DEF WorkerInv
<1>8. \A j \in Jobs : JobInv(j)
  BY <1>0, MaxAttemptsAssumption DEF JobInv
<1>9. QED
  BY <1>5, <1>6, <1>7, <1>8 DEF IInv

\* Every step keeps it: the owner's, the drain loop's, the operator's, the
\* target's and time's.
LEMMA InvStep ==
  ASSUME IInv, [Next]_vars
  PROVE  IInv'
<1>1. CASE TargetReboots \/ ReleaseAuthorizes
  BY <1>1, RebootStep, ReleaseSteps
<1>2. ASSUME NEW w \in Workers, WorkerStep(w) PROVE IInv'
  BY <1>2, CleanSteps, AskSteps, CloseCleanupStep, EndSteps DEF WorkerStep
<1>3. ASSUME NEW j \in Jobs, Dequeue(j) PROVE IInv'
  BY <1>3, DequeueStep
<1>4. ASSUME NEW b \in Batches,
             \/ \E S \in SUBSET Jobs : Claim(b, S)
             \/ OwnerStep(b) \/ TargetStep(b) \/ Lapses(b)
      PROVE  IInv'
  BY <1>4, ClaimStep, OwnerSteps, TargetSteps, LapseStep
<1>5. ASSUME NEW b \in Batches,
             \/ SelectStale(b) \/ SelectTerminal(b) \/ CancelActive(b) \/ CancelFenced(b)
             \/ Acknowledge(b) \/ ReleaseAsks(b)
      PROVE  IInv'
  BY <1>5, SelectSteps, CancelActiveStep, ReleaseSteps
<1>6. CASE UNCHANGED vars
  <2>1. UNCHANGED <<job, batch, owner, worker, alloc, start, tree, sent, gone, seen, why, closer>>
    BY <1>6 DEF vars, queue, target, history
  <2>2. Shape'
    BY <2>1 DEF IInv, Shape
  <2>3. \A b \in Batches : BatchInv(b)' /\ Mono(b)
    <3>1. TAKE b \in Batches
    <3>2. Canc(b)' <=> Canc(b)
      BY <2>1 DEF Canc, HasCancelled
    <3>3. BatchInv(b)'
      BY <2>1, <3>2 DEF IInv, BatchInv, OwnerInv
    <3>4. Mono(b)
      BY <2>1, <3>2 DEF Mono
    <3>5. QED
      BY <3>3, <3>4
  <2>4. (\A w \in Workers : PassOk(w)) /\ (\A j \in Jobs : JobOk(j))
    BY <2>1 DEF PassOk, JobOk
  <2>5. QED
    BY <2>2, <2>3, <2>4, CombineAll
<1>7. QED
  BY <1>1, <1>2, <1>3, <1>4, <1>5, <1>6 DEF Next

\* So it holds of every behaviour.
LEMMA Invariance == Spec => []IInv
<1>1. Init => IInv
  BY InvInit
<1>2. IInv /\ [Next]_vars => IInv'
  BY InvStep
<1>3. QED
  BY <1>1, <1>2, PTL DEF Spec

-----------------------------------------------------------------------------
(* The theorems.                                                           *)

\* The jobs, rows and target states that the transactions and remote calls
\* of the dispatcher leave behind have their types.
THEOREM DispatchTypes == Spec => []TypeOK
<1>1. IInv => TypeOK
  <2>1. SUFFICES ASSUME IInv PROVE TypeOK
    OBVIOUS
  <2>2. Shape
    BY <2>1 DEF IInv
  <2>3. ASSUME NEW b \in Batches
        PROVE  /\ batch[b].st \in BatchActive \cup {"none", "done", "failed"}
               /\ batch[b].disp \in Dispositions /\ batch[b].cst \in CleanupStates \cup {"NULL"}
               /\ gone[b] \subseteq {"stage", "durable"}
    <3>1. batch[b] \in BatchRows /\ gone[b] \in SUBSET {"stage", "durable"}
      BY <2>2 DEF Shape
    <3>2. QED
      BY <3>1 DEF BatchRows, Ended, CleanupStates
  <2>4. QED
    BY <2>2, <2>3 DEF TypeOK, Shape, JobRows
<1>2. QED
  BY <1>1, Invariance, PTL

\* expire_stale_batch requeues only what did not run: a batch that recovery
\* itself found unstarted stays unstarted, however late its launch request
\* arrives, unless the owner had recorded the finalization.
THEOREM RecoveryIsRight == Spec => []RecoveryJudgesRight
<1>1. IInv => RecoveryJudgesRight
  <2>1. SUFFICES ASSUME IInv, NEW b \in Batches, why[b] = "recovery", Ran(b)
                 PROVE  closer[b] = "owner"
    BY DEF RecoveryJudgesRight
  <2>2. /\ LaunchInv(batch[b], owner[b], alloc[b], start[b], tree[b], sent[b])
        /\ ReplayInv(batch[b], alloc[b], start[b], why[b], closer[b])
    BY <2>1, BatchFacts
  <2>3. start[b] # "NO" /\ batch[b].op
    BY <2>1, <2>2 DEF LaunchInv, Ran
  <2>4. QED
    BY <2>1, <2>2, <2>3 DEF ReplayInv, Unstarted
<1>2. QED
  BY <1>1, Invariance, PTL

\* complete_batch and the cancellations write a job's outcome only when it is
\* true of the target, and it stays true.
THEOREM OutcomesTrue == Spec => []OutcomesAreTrue
<1>1. IInv => OutcomesAreTrue
  <2>1. SUFFICES ASSUME IInv, NEW j \in Jobs
                 PROVE  LET b == job[j].bat IN
                        /\ job[j].st = "done" =>
                             b # None /\ tree[b] = "ended" /\ seen[b] \in {"ok", "items"}
                        /\ job[j].st = "cancelled" /\ b # None =>
                             tree[b] # "running" /\ alloc[b] \in T!Terminal
    BY DEF OutcomesAreTrue
  <2> DEFINE b == job[j].bat
  <2>2. JobInv(j) /\ (b = None \/ b \in Batches)
    BY <2>1 DEF IInv, Shape, JobRows
  <2>3. b \in Batches /\ alloc[b] \in Ended => tree[b] # "running"
    BY <2>1, BatchFacts DEF Honest
  <2>4. QED
    BY <2>2, <2>3 DEF JobInv, Ended, T!Terminal
<1>2. QED
  BY <1>1, Invariance, PTL

\* cleanup_terminal_target and _recover_target_row delete stage and durable
\* record under no running command, and while a cancellation is open only
\* after the operator's release.
THEOREM EvidenceKept == Spec => []EvidenceIsKept
<1>1. IInv => EvidenceIsKept
  <2>1. SUFFICES ASSUME IInv, NEW b \in Batches,
                        tree[b] = "running" \/ (Canc(b) /\ ~batch[b].rel)
                 PROVE  gone[b] = {}
    BY DEF EvidenceIsKept, Canc, HasCancelled
  <2>2. /\ LaunchInv(batch[b], owner[b], alloc[b], start[b], tree[b], sent[b])
        /\ OwnerInv(batch[b], owner[b], alloc[b], tree[b], gone[b], seen[b], Canc(b))
    BY <2>1, BatchFacts
  <2>3. QED
    BY <2>1, <2>2 DEF LaunchInv, OwnerInv
<1>2. QED
  BY <1>1, Invariance, PTL

(* A job changes only while it is queued or active.                        *)
OpenOnly == \A j \in Jobs : job'[j] = job[j] \/ job[j].st \in {"queued", "active"}

\* No transaction of the queue writes a job that has an outcome.
LEMMA OnlyOpenJobsChange ==
  ASSUME IInv, [Next]_vars
  PROVE  OpenOnly
<1>0. Shape /\ \A b \in Batches : \A V : Settles(b, V) => OpenOnly
  BY DEF IInv, Settles, Members, OpenOnly
<1>1. ASSUME job' = job PROVE OpenOnly
  BY <1>1 DEF OpenOnly
<1>2. ASSUME NEW b \in Batches, NEW s \in JobOutcomes, JobsBecome(b, s) PROVE OpenOnly
  BY <1>0, <1>2, SettleFacts
<1>3. CASE TargetReboots \/ ReleaseAuthorizes
  BY <1>1, <1>3, Zenon DEF TargetReboots, ReleaseAuthorizes, AuthorizeTargetRelease, queue
<1>4. ASSUME NEW w \in Workers, WorkerStep(w) PROVE OpenOnly
  <2>1. CASE \/ RemoveUnrecorded(w) \/ AskTarget(w) \/ CancelReserved(w) \/ CleanUp(w)
             \/ CloseCleanup(w) \/ StopAsk(w) \/ Stop(w) \/ GiveUp(w)
    <3>1. job' = job
      BY <2>1, Zenon DEF RemoveUnrecorded, AskTarget, CancelReserved, CleanUp, CloseCleanup, StopAsk,
         Stop, GiveUp, Progress, RecordCleanupProgress, RecordExpiredFinalization, queue
    <3>2. QED
      BY <1>1, <3>1
  <2>2. CASE Expire(w) \/ RecordStop(w)
    <3>1. worker[w].pc # "idle"
      BY <2>2 DEF Expire, RecordStop, Doing
    <3>2. Of(w) \in Batches
      BY <3>1, PassFacts
    <3>3. \/ job' = job \/ FinishBatchFailure(Of(w), MaxAttempts)
          \/ \E s \in JobOutcomes : JobsBecome(Of(w), s)
      <4>1. CASE Expire(w)
        BY <4>1 DEF Expire, ExpireReplay, ExpireUnknown, queue, JobOutcomes
      <4>2. CASE RecordStop(w)
        BY <4>2 DEF RecordStop, MarkActiveCancellationUnknown, CancelActiveBatch,
           RecordFencedCancellation, queue, JobOutcomes
      <4>3. QED
        BY <2>2, <4>1, <4>2
    <3>4. FinishBatchFailure(Of(w), MaxAttempts) => OpenOnly
      BY <1>0, <3>2, SettleFacts
    <3>5. QED
      BY <1>1, <1>2, <3>2, <3>3, <3>4
  <2>3. QED
    BY <1>4, <2>1, <2>2 DEF WorkerStep
<1>5. ASSUME NEW j \in Jobs, Dequeue(j) PROVE OpenOnly
  <2>1. job \in [Jobs -> JobRows]
    BY <1>0 DEF Shape
  <2>2. QED
    BY <1>5, <2>1 DEF Dequeue, LeaveQueue, OpenOnly
<1>6. ASSUME NEW b \in Batches, NEW S \in SUBSET Jobs, Claim(b, S) PROVE OpenOnly
  BY <1>6 DEF Claim, ClaimMany, OpenOnly
<1>7. ASSUME NEW b \in Batches, OwnerStep(b) PROVE OpenOnly
  <2>1. CASE \/ OwnerReserves(b) \/ OwnerRecords(b) \/ OwnerAbandons(b)
             \/ OwnerStages(b) \/ OwnerGate(b) \/ OwnerLaunches(b) \/ OwnerHears(b)
             \/ OwnerAccepts(b) \/ OwnerAsks(b) \/ OwnerAsksLedger(b) \/ OwnerSeesEnd(b)
    <3>1. job' = job
      BY <2>1, Zenon DEF OwnerReserves, OwnerRecords, OwnerAbandons, OwnerStages, OwnerGate,
         OwnerLaunches, OwnerHears, OwnerAccepts, OwnerAsks, OwnerAsksLedger, OwnerSeesEnd,
         SetBatchState, RecordTargetReservation, queue
    <3>2. QED
      BY <1>1, <3>1
  <2>2. CASE \/ OwnerSeesFailure(b) \/ OwnerReturnsOutputs(b) \/ OwnerCancels(b)
             \/ OwnerAuthorizes(b) \/ OwnerRemoves(b) \/ OwnerFinalizes(b) \/ OwnerRaises(b)
    <3>1. job' = job
      BY <2>2, Zenon DEF OwnerSeesFailure, OwnerReturnsOutputs, OwnerCancels, OwnerAuthorizes,
         OwnerRemoves, OwnerFinalizes, OwnerRaises, SetBatchState, AuthorizeTargetCleanup,
         RecordTargetFinalization, queue
    <3>2. QED
      BY <1>1, <3>1
  <2>3. CASE OwnerBegins(b)
    <3>1. job' = job \/ JobsBecome(b, "needs_review")
      BY <2>3 DEF OwnerBegins, RevokePrelaunchBatch, SetBatchState
    <3>2. QED
      BY <1>1, <1>2, <3>1 DEF JobOutcomes
  <2>4. CASE OwnerFinishes(b)
    <3>1. job' = job \/ Record(b)
      BY <2>4 DEF OwnerFinishes, SetBatchState, queue
    <3>2. Record(b) => OpenOnly
      BY <1>0, RecordFacts
    <3>3. QED
      BY <1>1, <3>1, <3>2
  <2>5. QED
    BY <1>7, <2>1, <2>2, <2>3, <2>4 DEF OwnerStep
<1>8. ASSUME NEW b \in Batches,
             \/ TargetStep(b) \/ Lapses(b)
             \/ SelectStale(b) \/ SelectTerminal(b) \/ CancelActive(b) \/ CancelFenced(b)
             \/ Acknowledge(b) \/ ReleaseAsks(b)
      PROVE  OpenOnly
  <2>1. job' = job
    BY <1>8, Zenon DEF TargetStep, Lapses, LeaseLapses, SelectStale, SelectTerminal, CancelActive,
       BeginActiveCancellation, CancelFenced, Acknowledge, AuthorizeTargetRelease, ReleaseAsks, queue
  <2>2. QED
    BY <1>1, <2>1
<1>9. CASE UNCHANGED vars
  BY <1>1, <1>9 DEF vars, queue
<1>10. QED
  BY <1>3, <1>4, <1>5, <1>6, <1>7, <1>8, <1>9 DEF Next

\* An outcome the queue database holds, unknown included, is changed by no
\* transaction of the owner, the drain loop or the operator.
THEOREM OutcomesAreFinal == Spec => OutcomesStay
<1>1. IInv /\ [Next]_vars
        => [\A j \in Jobs : job[j].st \in JobOutcomes => job'[j].st = job[j].st]_vars
  <2>1. SUFFICES ASSUME IInv, [Next]_vars
                 PROVE  \A j \in Jobs : job[j].st \in JobOutcomes => job'[j].st = job[j].st
    OBVIOUS
  <2>2. QED
    BY <2>1, OnlyOpenJobsChange DEF OpenOnly, JobOutcomes
<1>2. QED
  BY <1>1, Invariance, PTL DEF Spec, OutcomesStay

-----------------------------------------------------------------------------
(* The dispatcher relies on what the receipts of a target are worth.  These *)
(* theorems are about TargetOp itself, for any set of operations: the       *)
(* dispatcher's own variables alloc, start and tree are its parameters.     *)

\* A reservation that was never claimed has started nothing.
Unclaimed == \A o \in Batches : alloc[o] \in {"NONE", "RESERVED"} => start[o] = "NO"

TargetInv == T!TypeOK /\ Unclaimed /\ T!NoIsTrue /\ T!TerminalIsOver

\* Nothing is reserved, started or spawned yet.
LEMMA TargetInit == T!Init => TargetInv
BY DEF T!Init, TargetInv, T!TypeOK, Unclaimed, T!NoIsTrue, T!TerminalIsOver, T!Allocs,
   T!Starts, T!Trees, T!Terminal, T!Held

\* The inductive step: one case per kind of step.
LEMMA TargetInvStep == TargetInv /\ [T!Next]_(T!vars) => TargetInv'
<1> SUFFICES ASSUME TargetInv, [T!Next]_(T!vars) PROVE TargetInv'
  OBVIOUS
<1> USE DEF TargetInv, T!TypeOK, Unclaimed, T!NoIsTrue, T!TerminalIsOver, T!Allocs,
        T!Starts, T!Trees, T!Terminal, T!Held, T!Killed, T!Set
<1>1. ASSUME NEW o \in Batches, T!Reserve(o) \/ T!Expire(o) \/ T!Claim(o) PROVE TargetInv'
  BY <1>1 DEF T!Reserve, T!Expire, T!Claim
<1>2. ASSUME NEW o \in Batches, T!Spawn(o) \/ T!Begin(o) \/ T!Exit(o) PROVE TargetInv'
  BY <1>2 DEF T!Spawn, T!Begin, T!Exit
<1>3. ASSUME NEW o \in Batches, T!Maybe(o) \/ T!Confirm(o) \/ T!Deny(o) PROVE TargetInv'
  BY <1>3 DEF T!Maybe, T!Confirm, T!Deny
<1>4. ASSUME NEW o \in Batches, T!Quarantine(o) \/ T!Release(o) PROVE TargetInv'
  BY <1>4 DEF T!Quarantine, T!Release
<1>5. ASSUME NEW o \in Batches, T!Cancel(o) PROVE TargetInv'
  BY <1>5 DEF T!Cancel
<1>6. ASSUME NEW o \in Batches, T!CouldNotStop(o) PROVE TargetInv'
  BY <1>6 DEF T!CouldNotStop
<1>7. ASSUME T!Reboot PROVE TargetInv'
  BY <1>7 DEF T!Reboot
<1>8. CASE UNCHANGED T!vars
  BY <1>8 DEF T!vars
<1>9. QED
  BY <1>1, <1>2, <1>3, <1>4, <1>5, <1>6, <1>7, <1>8 DEF T!Next, T!Step

\* So the invariant holds of every behaviour of the operation.
LEMMA TargetInvariance == T!Spec => []TargetInv
BY TargetInit, TargetInvStep, PTL DEF T!Spec

\* A receipt's NO is true of the process tree whenever it is read: the claim,
\* MAYBE before the gate and the positive confirmation leave no gap.
THEOREM ReceiptsAreTrue == T!Spec => []T!NoIsTrue
<1>1. TargetInv => T!NoIsTrue
  BY DEF TargetInv
<1>2. QED
  BY <1>1, TargetInvariance, PTL

\* RELEASED, CANCELLED, EXPIRED and REBOOTED mean that nothing is running.
THEOREM TerminalMeansOver == T!Spec => []T!TerminalIsOver
<1>1. TargetInv => T!TerminalIsOver
  BY DEF TargetInv
<1>2. QED
  BY <1>1, TargetInvariance, PTL

\* A terminal NO is final: this is what makes _recover_target_row's replay of
\* such an operation sound, however long after the receipt it happens.
THEOREM TerminalNoIsFinal == T!Spec => T!NoIsFinal
<1> DEFINE A == \A o \in Batches : alloc[o] \in T!Terminal /\ start[o] = "NO"
                   => /\ alloc'[o] = alloc[o] /\ start'[o] = "NO"
                      /\ tree'[o] \notin {"running", "ended"}
<1>1. ASSUME TargetInv, [T!Next]_(T!vars) PROVE A
  <2> USE <1>1 DEF TargetInv, T!TypeOK, T!NoIsTrue, T!TerminalIsOver, T!Terminal,
          T!Held, T!Killed, T!Set
  <2>1. ASSUME NEW o \in Batches, T!Reserve(o) \/ T!Expire(o) \/ T!Claim(o) PROVE A
    BY <2>1 DEF T!Reserve, T!Expire, T!Claim
  <2>2. ASSUME NEW o \in Batches, T!Spawn(o) \/ T!Begin(o) \/ T!Exit(o) PROVE A
    BY <2>2 DEF T!Spawn, T!Begin, T!Exit
  <2>3. ASSUME NEW o \in Batches, T!Maybe(o) \/ T!Confirm(o) \/ T!Deny(o) PROVE A
    BY <2>3 DEF T!Maybe, T!Confirm, T!Deny
  <2>4. ASSUME NEW o \in Batches, T!Quarantine(o) \/ T!Release(o) PROVE A
    BY <2>4 DEF T!Quarantine, T!Release
  <2>5. ASSUME NEW o \in Batches, T!Cancel(o) PROVE A
    BY <2>5 DEF T!Cancel
  <2>6. ASSUME NEW o \in Batches, T!CouldNotStop(o) PROVE A
    BY <2>6 DEF T!CouldNotStop
  <2>7. ASSUME T!Reboot PROVE A
    BY <2>7 DEF T!Reboot
  <2>8. CASE UNCHANGED T!vars
    BY <2>8 DEF T!vars
  <2>9. QED
    BY <2>1, <2>2, <2>3, <2>4, <2>5, <2>6, <2>7, <2>8 DEF T!Next, T!Step
<1>2. QED
  BY <1>1, TargetInvariance, PTL DEF T!Spec, T!NoIsFinal
=============================================================================
