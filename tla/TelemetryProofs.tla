-------------------------- MODULE TelemetryProofs --------------------------
(***************************************************************************)
(* What the telemetry on a target promises, for any constants.             *)
(*                                                                         *)
(* The job registry (JobObserver): any number of jobs and process ids,     *)
(* however often ids are reused.  The argument is about identities: the    *)
(* observer or keeper of a job keeps the pid and the generation the job's  *)
(* row names, a group's number is not given out while a member is left,    *)
(* and a witness is a process of the job until it leaves the group for     *)
(* good.                                                                   *)
(*                                                                         *)
(* The memory guard (MemoryGuard): any jobs, workloads and sizes.  The     *)
(* argument is about who may forget a lease: a job whose group is gone may *)
(* be dropped by anyone, and a job that is gone stays gone, so the leases  *)
(* read under ledger.lock are still right when they are written.           *)
(***************************************************************************)
EXTENDS JobObserver, MemoryGuard, TLAPS

Roles == {"none", "observer", "susp", "user", "keeper", "stranger"}
Labels == {"idle", "keeper", "register", "ready", "gate", "spawn", "child", "wait", "count",
           "survivor", "unreg", "exit", "over"}
Ids == (Pids \X Nat) \cup {NoId}
Rows == [kind : {"none", "op", "posix_pgid", "windows_job_v2"}, owner : Ids, wit : Ids]

(* Labels before a process of the command runs, and after one was seen.    *)
PreSpawn == {"idle", "keeper", "register", "ready", "gate", "spawn"}
Past == {"wait", "count", "survivor", "unreg", "exit", "over"}

(* Labels at which the observer runs, holds its row, and is followed.      *)
Running == {"register", "ready", "gate", "spawn", "child", "wait", "count", "survivor",
            "unreg", "exit"}
HoldsRow == {"ready", "gate", "spawn", "child", "wait", "count", "survivor", "unreg"}
Followed == HoldsRow \cup {"exit"}

TableOK == /\ platform \in {"posix", "windows"} /\ durable \subseteq Commands
           /\ proc \in [Pids -> [role : Roles, of : Jobs \cup {"-"}, pgid : Pids \cup {0}]]
           /\ gen \in [Pids -> Nat]
ControlOK == /\ pc \in [Jobs -> Labels]
             /\ own \in [Jobs -> Ids] /\ kid \in [Jobs -> Ids] /\ next \in [Jobs -> Ids]
             /\ cancel \in [Jobs -> {"none", "open", "killed", "cancelled", "refused"}]
             /\ blind \subseteq Jobs /\ faults \in Nat
RowsOK == rows \in [Jobs -> Rows]
QueryOK == query \in [pc : {"idle", "first", "second", "done"}, rows : [Jobs -> Rows],
                      first : SUBSET Jobs, unknown : SUBSET Jobs, running : SUBSET Jobs,
                      status : {"none", "ok", "unknown"}]
TypeOK == TableOK /\ ControlOK /\ RowsOK /\ QueryOK

(* The process a job's recorded identity is given to.                      *)
OwnProcess(j, p) ==
  IF j \in Ops THEN Process("user", j, IF platform = "posix" THEN p ELSE 0)
  ELSE IF platform = "posix" THEN Process("observer", j, p) ELSE Process("keeper", j, 0)

(* What a process of each role may be.                                     *)
ProcOK(p) ==
  LET r == proc[p] IN
  /\ r.role = "none" => r = NoProc
  /\ r # NoProc => gen[p] > 0
  /\ r.role = "observer" => /\ platform = "posix" /\ r.of \in Commands /\ r.pgid = p
                            /\ Id(p) = own[r.of]
  /\ r.role = "susp" => platform = "windows" /\ r.of \in Commands /\ pc[r.of] # "idle"
  /\ r.role = "keeper" => platform = "windows" /\ r.of \in Commands
  /\ r.role = "stranger" /\ platform = "posix" => r.pgid = p
  /\ r.role = "user" => r.of \in Jobs
  /\ r.role = "user" /\ r.of \in Ops => Id(p) = own[r.of] /\ (platform = "posix" => r.pgid = p)
  /\ r.role = "user" /\ r.of \in Commands =>
       /\ pc[r.of] \notin PreSpawn
       /\ platform = "posix" => /\ own[r.of] # NoId /\ r.pgid = own[r.of][1]
                                /\ gen[own[r.of][1]] = own[r.of][2]

(* The recorded identity is of the job's own process or of a dead one.     *)
OwnOK(j) == own[j] # NoId =>
              /\ own[j][2] > 0 /\ own[j][2] <= gen[own[j][1]]
              /\ own[j][2] = gen[own[j][1]] =>
                   proc[own[j][1]] \in {NoProc, OwnProcess(j, own[j][1])}
OwnUnique == \A j, k \in Jobs : own[j] = own[k] /\ own[j] # NoId => j = k

(* A witness that is still the process it was is in the group, or left it. *)
Witness(j, id) == /\ own[j] # NoId /\ id # NoId /\ id[1] # own[j][1] /\ id[2] <= gen[id[1]]
                  /\ id[2] = gen[id[1]] =>
                       proc[id[1]] \in {NoProc, Process("user", j, own[j][1]), Outside(id[1])}

KidOK(j) == kid[j] # NoId =>
              /\ platform = "posix" => Witness(j, kid[j])
              /\ kid[j][2] <= gen[kid[j][1]]
              /\ kid[j][2] = gen[kid[j][1]] /\ proc[kid[j][1]].role = "susp" =>
                   proc[kid[j][1]].of = j
NextOK(j) == next[j] # NoId => Witness(j, next[j])

RowOK(j, r) == \/ r.kind = "none" /\ r = NoRow
               \/ /\ r.kind # "none" /\ own[j] # NoId /\ r.owner = own[j]
                  /\ pc[j] \notin {"idle", "keeper", "register"}
                  /\ r.kind = IF j \in Ops THEN "op" ELSE Kind
                  /\ \/ r.wit = own[j]
                     \/ r.kind = "posix_pgid" /\ Witness(j, r.wit) /\ pc[j] \in Past

(* Where an observer is, and what then holds of its processes and its row. *)
ObserverAlive(j) == /\ own[j] # NoId /\ own[j][2] = gen[own[j][1]]
                    /\ proc[own[j][1]] = OwnProcess(j, own[j][1])
PcOK(j) ==
  /\ pc[j] = "keeper" => platform = "windows"
  /\ pc[j] = "survivor" => platform = "posix" /\ next[j] # NoId
  /\ pc[j] \in {"idle", "keeper"} => own[j] = NoId
  /\ pc[j] \in Running => own[j] # NoId
  /\ platform = "posix" /\ pc[j] \in Running => ObserverAlive(j)
  /\ platform = "posix" /\ pc[j] \in HoldsRow => rows[j] # NoRow
  /\ pc[j] = "unreg" => JobPids(j) = {}
  /\ pc[j] \in Followed /\ JobPids(j) # {} => rows[j] # NoRow \/ j \in blind
  /\ cancel[j] # "none" => platform = "windows" /\ pc[j] # "idle"
OpOK(j) == pc[j] \in {"idle", "register", "wait", "over"} /\ (pc[j] = "idle" <=> own[j] = NoId)

(* A job the first snapshot passed over is over for good, and nothing is    *)
(* called running before the second.                                       *)
Dead(j) == /\ JobPids(j) = {} /\ pc[j] # "idle"
           /\ platform = "posix" /\ j \in Commands => pc[j] \in Past
PassedOver ==
  /\ query.pc # "done" => query.running = {}
  /\ query.pc = "second" =>
       \A j \in Jobs : query.rows[j] # NoRow /\ j \notin query.first \cup query.unknown => Dead(j)

IdInv == (\A p \in Pids : ProcOK(p)) /\ (\A j \in Jobs : OwnOK(j)) /\ OwnUnique
WitInv == \A j \in Jobs : KidOK(j) /\ NextOK(j)
RowInv == \A j \in Jobs : RowOK(j, rows[j]) /\ RowOK(j, query.rows[j])
PcInv == (\A j \in Commands : PcOK(j)) /\ (\A j \in Ops : OpOK(j))

IInv == /\ TypeOK /\ IdInv /\ WitInv /\ RowInv /\ PcInv /\ PassedOver
        /\ ObservedWhileAlive /\ CancelIsTrue

----------------------------------------------------------------------------
(* What one step may do to a process id, to a recorded identity and to     *)
(* where an observer is: every action is such a step.                      *)
Same(p) == proc'[p] = proc[p] /\ gen'[p] = gen[p]

Dies(p) == /\ proc'[p] = NoProc /\ gen'[p] = gen[p]
           /\ \/ proc[p].role # "observer"
              \/ \E k \in Jobs : own[k] = Id(p) /\ pc'[k] = "over"

Departs(p) == IsUser(p) /\ proc'[p] = Outside(p) /\ gen'[p] = gen[p]

Resumed(p) == /\ platform = "windows" /\ proc[p].role = "susp" /\ gen'[p] = gen[p]
              /\ pc[proc[p].of] = "spawn" /\ pc'[proc[p].of] = "child"
              /\ proc'[p] = Process("user", proc[p].of, proc[p].pgid)

Born(p) ==
  /\ FreePid(p) /\ gen'[p] = gen[p] + 1
  /\ \/ proc'[p] = Outside(p)
     \/ \E j \in Jobs : /\ own[j] = NoId /\ own'[j] = <<p, gen[p] + 1>>
                        /\ proc'[p] = OwnProcess(j, p)
     \/ \E j \in Commands : /\ platform = "windows" /\ pc[j] = "idle" /\ pc'[j] = "keeper"
                            /\ proc'[p] = Process("susp", j, 0)
     \/ \E j \in Commands : /\ platform = "posix" /\ pc[j] = "spawn" /\ pc'[j] = "child"
                            /\ proc'[p] = Process("user", j, own[j][1])
     \/ \E q \in Pids : IsUser(q) /\ proc'[p] = proc[q]

TableStep == /\ platform' = platform
             /\ \A p \in Pids : Same(p) \/ Dies(p) \/ Departs(p) \/ Resumed(p) \/ Born(p)

OwnStep ==
  /\ \A j \in Jobs :
       \/ own'[j] = own[j]
       \/ /\ own[j] = NoId
          /\ \E p \in Pids : /\ FreePid(p) /\ own'[j] = <<p, gen[p] + 1>>
                             /\ gen'[p] = gen[p] + 1 /\ proc'[p] = OwnProcess(j, p)
  /\ \A j, k \in Jobs : own'[j] # own[j] /\ own'[k] # own[k] => j = k

Edges == {<<"idle", "register">>, <<"idle", "keeper">>, <<"keeper", "register">>,
          <<"register", "ready">>, <<"register", "spawn">>, <<"register", "wait">>,
          <<"ready", "gate">>, <<"gate", "spawn">>, <<"spawn", "child">>, <<"child", "wait">>,
          <<"wait", "count">>, <<"count", "unreg">>, <<"count", "exit">>,
          <<"count", "survivor">>, <<"unreg", "exit">>, <<"survivor", "exit">>}
PcStep == \A j \in Jobs : pc'[j] = pc[j] \/ pc'[j] = "over" \/ <<pc[j], pc'[j]>> \in Edges

Step == TableStep /\ OwnStep /\ PcStep

(* The identities an observer remembers: its command's, when it starts it, *)
(* and a survivor's, when it finds one.                                    *)
WitStep == \A j \in Jobs :
  /\ \/ kid'[j] = kid[j]
     \/ kid'[j] = NoId
     \/ /\ platform = "posix" => j \in Commands /\ pc[j] = "spawn"
        /\ \E p \in Pids : /\ FreePid(p) /\ kid'[j] = <<p, gen[p] + 1>> /\ gen'[p] = gen[p] + 1
                           /\ proc'[p] = IF platform = "posix" THEN Process("user", j, own[j][1])
                                         ELSE Process("susp", j, 0)
  /\ \/ next'[j] = next[j]
     \/ next'[j] = NoId /\ pc'[j] = "over"
     \/ /\ platform = "posix" /\ j \in Commands /\ pc[j] = "count"
        /\ \E p \in JobPids(j) : next'[j] = Id(p) /\ Same(p)

(* Why a row goes, comes or gets another witness.                          *)
RowStep == \A j \in Jobs :
  \/ rows'[j] = rows[j]
  \/ /\ rows'[j] = NoRow
     /\ \/ Stale(j, rows[j])
        \/ platform = "windows" /\ JobPids(j) = {}
        \/ pc[j] = "unreg" /\ pc'[j] = "exit"
        \/ pc'[j] = "over" /\ (pc[j] \in PreSpawn \/ j \in blind' \/ j \in Ops)
  \/ /\ pc[j] = "register" /\ pc'[j] \notin {"idle", "keeper", "register"} /\ own[j] # NoId
     /\ rows'[j] = [kind |-> IF j \in Ops THEN "op" ELSE Kind, owner |-> own[j], wit |-> own[j]]
  \/ /\ platform = "posix" /\ j \in Commands /\ pc'[j] \in Past /\ rows[j] # NoRow
     /\ \E w \in Ids : Witness(j, w) /\ rows'[j] = [rows[j] EXCEPT !.wit = w]

(* What entering a label says, and what a cancellation or a query reads.   *)
Entered(j) ==
  /\ pc'[j] \in {"idle", "keeper"} => own'[j] = own[j]
  /\ pc'[j] # pc[j] =>
       /\ pc'[j] = "keeper" => platform = "windows"
       /\ pc'[j] = "register" => own[j] = NoId /\ own'[j] # NoId
       /\ pc[j] = "register" /\ pc'[j] # "over" => rows'[j] # NoRow
       /\ pc'[j] = "unreg" => JobPids(j) = {}
       /\ pc'[j] = "survivor" => platform = "posix" /\ next'[j] # NoId

EntryStep ==
  /\ blind \subseteq blind'
  /\ \A j \in Commands :
       /\ Entered(j)
       /\ \/ cancel'[j] = cancel[j]
          \/ /\ platform = "windows" /\ pc[j] # "idle"
             /\ cancel'[j] = "cancelled" => JobPids(j) = {}
  /\ \A j \in Ops : /\ pc'[j] \in {"idle", "register", "wait", "over"}
                    /\ pc'[j] = "idle" <=> own'[j] = NoId

QueryStep ==
  \/ query' = query
  \/ /\ UNCHANGED <<platform, proc, gen, rows, pc, own>>
     /\ \A j \in Jobs : query'.rows[j] \in {rows[j], query.rows[j], NoRow}
     /\ query'.pc = "second" => FirstSnapshot
     /\ \/ query'.pc = "done" \/ query'.running = {}
        \/ query.pc # "done" /\ query'.running = query.running

----------------------------------------------------------------------------
\* An identity once recorded stays, an observer never goes back, and a
\* generation changes only when its pid is given out.
LEMMA StepKeeps ==
  ASSUME TypeOK, Step
  PROVE  /\ platform' = platform
         /\ \A j \in Jobs : own[j] # NoId => own'[j] = own[j]
         /\ \A j \in Jobs : /\ pc[j] # "idle" => pc'[j] # "idle"
                            /\ pc[j] \notin {"idle", "keeper", "register"} =>
                                 pc'[j] \notin {"idle", "keeper", "register"}
                            /\ pc[j] \notin PreSpawn => pc'[j] \notin PreSpawn
                            /\ pc[j] \in Past => pc'[j] \in Past
         /\ \A p \in Pids : gen'[p] = gen[p] \/ (Born(p) /\ gen'[p] = gen[p] + 1)
<1>1. platform' = platform /\ \A j \in Jobs : own[j] # NoId => own'[j] = own[j]
  BY DEF Step, TableStep, OwnStep
<1>2. ASSUME NEW j \in Jobs
      PROVE  /\ pc[j] # "idle" => pc'[j] # "idle"
             /\ pc[j] \notin {"idle", "keeper", "register"} =>
                  pc'[j] \notin {"idle", "keeper", "register"}
             /\ pc[j] \notin PreSpawn => pc'[j] \notin PreSpawn
             /\ pc[j] \in Past => pc'[j] \in Past
  <2>1. pc'[j] = pc[j] \/ pc'[j] = "over" \/ <<pc[j], pc'[j]>> \in Edges
    BY DEF Step, PcStep
  <2>2. CASE <<pc[j], pc'[j]>> \in Edges
    BY <2>2 DEF Edges, PreSpawn, Past
  <2> QED
    BY <2>1, <2>2 DEF PreSpawn, Past
<1>3. \A p \in Pids : gen'[p] = gen[p] \/ (Born(p) /\ gen'[p] = gen[p] + 1)
  BY DEF Step, TableStep, Same, Dies, Departs, Resumed, Born
<1> QED
  BY <1>1, <1>2, <1>3

\* Identities are distinct and never given out twice, whatever the step.
LEMMA IdStep == TypeOK /\ TypeOK' /\ IdInv /\ PcInv /\ Step => IdInv'
<1> SUFFICES ASSUME TypeOK, TypeOK', IdInv, PcInv, Step PROVE IdInv'
  OBVIOUS
<1> USE ConstAssumption DEF TypeOK, TableOK, ControlOK, Ids, NoId, Jobs
<1>1. ASSUME NEW j \in Jobs PROVE OwnOK(j)'
  <2>1. CASE own'[j] = own[j] /\ own[j] # NoId
    <3>1. own[j] \in Pids \X Nat /\ own[j][1] \in Pids /\ own[j][2] \in Nat
      BY <2>1
    <3>2. own[j][2] > 0 /\ own[j][2] <= gen[own[j][1]]
          /\ (own[j][2] = gen[own[j][1]] => proc[own[j][1]] \in {NoProc, OwnProcess(j, own[j][1])})
      BY <2>1 DEF IdInv, OwnOK
    <3> DEFINE p == own[j][1]
    <3>3. Same(p) \/ Dies(p) \/ Departs(p) \/ Resumed(p) \/ Born(p)
      BY <3>1 DEF Step, TableStep
    <3>4. CASE Same(p) \/ Dies(p)
      BY <2>1, <3>1, <3>2, <3>4 DEF OwnOK, Same, Dies, OwnProcess, Process, Step, TableStep
    <3>5. CASE Departs(p) \/ Resumed(p)
      <4>1. own[j][2] # gen[p]
        BY <3>1, <3>2, <3>5 DEF Departs, Resumed, IsUser, OwnProcess, Process, Live, NoProc
      <4> QED
        BY <2>1, <3>1, <3>2, <3>5, <4>1 DEF OwnOK, Departs, Resumed
    <3>6. CASE Born(p)
      <4>1. gen'[p] = gen[p] + 1 /\ gen[p] \in Nat
        BY <3>1, <3>6 DEF Born
      <4> QED
        BY <2>1, <3>1, <3>2, <4>1 DEF OwnOK
    <3> QED
      BY <3>3, <3>4, <3>5, <3>6
  <2>2. CASE own'[j] # own[j]
    <3>1. PICK p \in Pids : /\ own'[j] = <<p, gen[p] + 1>> /\ gen'[p] = gen[p] + 1
                           /\ proc'[p] = OwnProcess(j, p)
      BY <2>2 DEF Step, OwnStep
    <3> QED
      BY <3>1 DEF OwnOK, OwnProcess, Step, TableStep
  <2> QED
    BY <2>1, <2>2 DEF OwnOK
<1>2. OwnUnique'
  <2> SUFFICES ASSUME NEW j \in Jobs, NEW k \in Jobs, own'[j] = own'[k], own'[j] # NoId
               PROVE  j = k
    BY DEF OwnUnique
  <2>1. CASE own'[j] = own[j] /\ own'[k] = own[k]
    BY <2>1 DEF IdInv, OwnUnique
  <2>2. ASSUME NEW i \in Jobs, NEW l \in Jobs, own'[i] # own[i], own'[l] = own[l], own'[l] # NoId
        PROVE  own'[i] # own'[l]
    <3>1. PICK p \in Pids : own'[i] = <<p, gen[p] + 1>>
      BY <2>2 DEF Step, OwnStep
    <3>2. own[l][1] = p => own[l][2] <= gen[p]
      BY <2>2 DEF IdInv, OwnOK
    <3> QED
      BY <2>2, <3>1, <3>2
  <2>3. CASE own'[j] # own[j] /\ own'[k] # own[k]
    BY <2>3 DEF Step, OwnStep
  <2> QED
    BY <2>1, <2>2, <2>3
<1>3. ASSUME NEW p \in Pids PROVE ProcOK(p)'
  <2>1. ProcOK(p) /\ proc[p] \in [role : Roles, of : Jobs \cup {"-"}, pgid : Pids \cup {0}]
        /\ gen[p] \in Nat
    BY DEF IdInv
  <2>2. Same(p) \/ Dies(p) \/ Departs(p) \/ Resumed(p) \/ Born(p)
    BY DEF Step, TableStep
  <2>3. CASE Same(p)
    <3>1. CASE proc[p].role = "user" /\ proc[p].of \in Commands
      <4> DEFINE k == proc[p].of
      <4>1. pc[k] \notin PreSpawn /\ pc'[k] \notin PreSpawn
        BY <2>1, <3>1, StepKeeps DEF ProcOK
      <4>2. ASSUME platform = "posix"
            PROVE  own'[k] # NoId /\ proc[p].pgid = own'[k][1] /\ gen'[own'[k][1]] = own'[k][2]
        <5>1. own[k] # NoId /\ proc[p].pgid = own[k][1] /\ gen[own[k][1]] = own[k][2]
          BY <2>1, <3>1, <4>2 DEF ProcOK
        <5>2. own'[k] = own[k] /\ own[k][1] \in Pids
          BY <3>1, <5>1, StepKeeps
        <5>3. p \in InGroup(own[k][1])
          BY <3>1, <5>1 DEF InGroup, Live, NoProc
        <5>4. ~ Born(own[k][1])
          BY <5>3 DEF Born, FreePid
        <5> QED
          BY <5>1, <5>2, <5>4, StepKeeps
      <4> QED
        BY <2>1, <2>3, <3>1, <4>1, <4>2, StepKeeps DEF ProcOK, Same
    <3>2. CASE proc[p].role = "observer" \/ (proc[p].role = "user" /\ proc[p].of \in Ops)
      <4>1. Id(p) = own[proc[p].of] /\ proc[p].of \in Jobs
        BY <2>1, <3>2 DEF ProcOK
      <4>2. own[proc[p].of] # NoId
        BY <4>1 DEF Id
      <4>3. own'[proc[p].of] = own[proc[p].of]
        BY <4>1, <4>2, StepKeeps
      <4>4. Id(p)' = own'[proc[p].of]
        BY <2>3, <4>1, <4>3 DEF Id, Same
      <4> QED
        BY <2>1, <2>3, <3>2, <4>4, StepKeeps DEF ProcOK, Same
    <3>3. CASE proc[p].role \notin {"observer", "user"}
      BY <2>1, <2>3, <3>3, StepKeeps DEF ProcOK, Same
    <3> QED
      BY <2>1, <3>1, <3>2, <3>3 DEF ProcOK
  <2>4. CASE Dies(p)
    BY <2>1, <2>4 DEF ProcOK, Dies, NoProc
  <2>5. CASE Departs(p)
    BY <2>1, <2>5, StepKeeps DEF ProcOK, Departs, IsUser, Live, Outside, Process
  <2>6. CASE Resumed(p)
    BY <2>1, <2>6, StepKeeps DEF ProcOK, Resumed, Process, PreSpawn, NoProc
  <2>7. CASE Born(p)
    <3>1. gen'[p] > 0 /\ gen'[p] = gen[p] + 1
      BY <2>1, <2>7 DEF Born
    <3>2. CASE proc'[p] = Outside(p)
      BY <3>1, <3>2, StepKeeps DEF ProcOK, Outside, Process
    <3>3. ASSUME NEW j \in Jobs, own'[j] = <<p, gen[p] + 1>>, proc'[p] = OwnProcess(j, p)
          PROVE  ProcOK(p)'
      BY <3>1, <3>3, StepKeeps DEF ProcOK, OwnProcess, Process, Id
    <3>4. ASSUME NEW j \in Commands, platform = "windows", pc'[j] = "keeper",
                 proc'[p] = Process("susp", j, 0)
          PROVE  ProcOK(p)'
      BY <3>1, <3>4, StepKeeps DEF ProcOK, Process
    <3>5. ASSUME NEW j \in Commands, platform = "posix", pc[j] = "spawn", pc'[j] = "child",
                 proc'[p] = Process("user", j, own[j][1])
          PROVE  ProcOK(p)'
      <4>0. ObserverAlive(j)
        BY <3>5 DEF PcInv, PcOK, Running
      <4>1. own[j] # NoId /\ own[j][2] = gen[own[j][1]] /\ own[j][1] \in Live
        BY <4>0, <3>5 DEF ObserverAlive, OwnProcess, Process, Live, NoProc
      <4>2. own[j][1] \in Pids /\ own'[j] = own[j] /\ ~ Born(own[j][1])
        BY <4>1, StepKeeps DEF Born, FreePid
      <4> QED
        BY <3>1, <3>5, <4>1, <4>2, StepKeeps DEF ProcOK, Process, PreSpawn
    <3>6. ASSUME NEW q \in Pids, IsUser(q), proc'[p] = proc[q]
          PROVE  ProcOK(p)'
      <4> DEFINE k == proc[q].of
      <4>1. ProcOK(q) /\ proc[q].role = "user" /\ k \in Commands
        BY <3>6 DEF IdInv, IsUser
      <4>2. pc'[k] \notin PreSpawn
        BY <4>1, StepKeeps DEF ProcOK
      <4>3. ASSUME platform = "posix"
            PROVE  own'[k] # NoId /\ proc[q].pgid = own'[k][1] /\ gen'[own'[k][1]] = own'[k][2]
        <5>1. own[k] # NoId /\ proc[q].pgid = own[k][1] /\ gen[own[k][1]] = own[k][2]
          BY <4>1, <4>3 DEF ProcOK
        <5>2. own'[k] = own[k] /\ own[k][1] \in Pids
          BY <4>1, <5>1, StepKeeps
        <5>3. q \in InGroup(own[k][1])
          BY <4>1, <5>1 DEF InGroup, Live, NoProc
        <5>4. ~ Born(own[k][1])
          BY <5>3 DEF Born, FreePid
        <5> QED
          BY <5>1, <5>2, <5>4, StepKeeps
      <4> QED
        BY <3>1, <3>6, <4>1, <4>2, <4>3, StepKeeps DEF ProcOK
    <3> QED
      BY <2>7, <3>2, <3>3, <3>4, <3>5, <3>6 DEF Born
  <2> QED
    BY <2>2, <2>3, <2>4, <2>5, <2>6, <2>7
<1> QED
  BY <1>1, <1>2, <1>3 DEF IdInv

\* A witness stays one.
LEMMA WitnessKept ==
  ASSUME TypeOK, Step, NEW j \in Jobs, NEW id \in Ids, Witness(j, id)
  PROVE  Witness(j, id)'
<1>1. id \in Pids \X Nat /\ id[1] \in Pids /\ id[2] \in Nat /\ own'[j] = own[j]
  BY StepKeeps DEF Witness, Ids
<1> DEFINE p == id[1]
<1>2. Same(p) \/ Dies(p) \/ Departs(p) \/ Resumed(p) \/ Born(p)
  BY <1>1 DEF Step, TableStep
<1>3. CASE Same(p) \/ Dies(p) \/ Departs(p)
  BY <1>1, <1>3, StepKeeps DEF Witness, Same, Dies, Departs, Outside
<1>4. CASE Resumed(p)
  <2>1. id[2] # gen[p]
    BY <1>4 DEF Witness, Resumed, Process, Outside, NoProc
  <2> QED
    BY <1>1, <1>4, <2>1, StepKeeps DEF Witness, Resumed
<1>5. CASE Born(p)
  <2>1. gen[p] \in Nat /\ gen'[p] = gen[p] + 1 /\ id[2] <= gen[p]
    BY <1>1, <1>5 DEF Born, Witness, TypeOK, TableOK
  <2> QED
    BY <1>1, <2>1, StepKeeps DEF Witness
<1> QED
  BY <1>2, <1>3, <1>4, <1>5

\* The command and the survivor an observer remembers are witnesses.
LEMMA WitnessStep == TypeOK /\ TypeOK' /\ IdInv /\ PcInv /\ WitInv /\ Step /\ WitStep => WitInv'
<1> SUFFICES ASSUME TypeOK, TypeOK', IdInv, PcInv, WitInv, Step, WitStep, NEW j \in Jobs
             PROVE  KidOK(j)' /\ NextOK(j)'
  BY DEF WitInv
<1>0. own[j] \in Ids /\ kid[j] \in Ids /\ next[j] \in Ids
  BY DEF TypeOK, ControlOK
<1>1. ASSUME platform = "posix", j \in Commands, pc[j] \in Running
      PROVE  own[j] # NoId /\ own[j][1] \in Live /\ proc[own[j][1]].role = "observer"
  <2>1. ObserverAlive(j) /\ own[j][1] \in Pids
    BY <1>0, <1>1, ConstAssumption DEF PcInv, PcOK, ObserverAlive, Ids
  <2> QED
    BY <1>1, <2>1, ConstAssumption DEF ObserverAlive, OwnProcess, Process, Live, NoProc
<1>2. ASSUME kid'[j] = kid[j], kid[j] # NoId PROVE KidOK(j)'
  <2>1. KidOK(j) /\ kid[j] \in Pids \X Nat /\ kid[j][1] \in Pids /\ kid[j][2] \in Nat
    BY <1>0, <1>2 DEF WitInv, Ids
  <2>2. platform = "posix" => Witness(j, kid[j])'
    BY <1>0, <1>2, <2>1, WitnessKept DEF KidOK
  <2> DEFINE p == kid[j][1]
  <2>3. gen[p] \in Nat /\ gen'[p] \in Nat /\ kid[j][2] <= gen[p]
    BY <1>2, <2>1 DEF KidOK, TypeOK, TableOK
  <2>4. kid[j][2] <= gen'[p]
    BY <2>1, <2>3, StepKeeps
  <2>5. kid[j][2] = gen'[p] /\ proc'[p].role = "susp" => proc'[p].of = j
    <3> SUFFICES ASSUME kid[j][2] = gen'[p], proc'[p].role = "susp"
                 PROVE  proc'[p].of = j
      OBVIOUS
    <3>1. ~ Born(p) /\ gen'[p] = gen[p]
      BY <2>1, <2>3, StepKeeps DEF Born
    <3>2. Same(p) \/ Dies(p) \/ Departs(p) \/ Resumed(p)
      BY <2>1, <3>1 DEF Step, TableStep
    <3>3. Same(p)
      BY <3>2 DEF Dies, Departs, Resumed, NoProc, Outside, Process
    <3> QED
      BY <1>2, <2>1, <3>1, <3>3 DEF KidOK, Same
  <2>6. (platform = "posix" => Witness(j, kid[j]))' 
    BY <2>2, StepKeeps
  <2> QED
    BY <1>2, <2>4, <2>5, <2>6 DEF KidOK
<1>3. ASSUME kid'[j] = NoId PROVE KidOK(j)'
  BY <1>3 DEF KidOK
<1>4. ASSUME kid'[j] # kid[j], kid'[j] # NoId PROVE KidOK(j)'
  <2>1. PICK p \in Pids :
           /\ FreePid(p) /\ kid'[j] = <<p, gen[p] + 1>> /\ gen'[p] = gen[p] + 1
           /\ proc'[p] = IF platform = "posix" THEN Process("user", j, own[j][1])
                         ELSE Process("susp", j, 0)
    BY <1>4 DEF WitStep
  <2>2. gen[p] \in Nat /\ kid'[j][1] = p /\ kid'[j][2] = gen'[p]
    BY <2>1 DEF TypeOK, TableOK
  <2>3. proc'[p].role = "susp" => proc'[p].of = j
    BY <2>1 DEF Process
  <2>4. ASSUME platform = "posix" PROVE Witness(j, kid[j])'
    <3>1. j \in Commands /\ pc[j] = "spawn"
      BY <1>4, <2>4 DEF WitStep
    <3>2. own[j] # NoId /\ own[j][1] # p /\ own'[j] = own[j]
      BY <1>1, <2>1, <2>4, <3>1, StepKeeps DEF Running, FreePid
    <3> QED
      BY <1>4, <2>1, <2>2, <2>4, <3>2, StepKeeps DEF Witness
  <2>5. (platform = "posix" => Witness(j, kid[j]))'
    BY <2>4, StepKeeps
  <2>6. kid'[j][2] <= gen'[kid'[j][1]]
    BY <2>1, <2>2
  <2> QED
    BY <2>2, <2>3, <2>5, <2>6 DEF KidOK
<1>5. NextOK(j)'
  <2>1. CASE next'[j] = next[j] /\ next[j] # NoId
    BY <1>0, <2>1, WitnessKept DEF NextOK, WitInv
  <2>2. CASE next'[j] = NoId
    BY <2>2 DEF NextOK
  <2>3. CASE next'[j] # next[j] /\ next'[j] # NoId
    <3>1. PICK p \in JobPids(j) : next'[j] = Id(p) /\ Same(p)
      BY <2>3 DEF WitStep
    <3>2. platform = "posix" /\ j \in Commands /\ pc[j] = "count"
      BY <2>3 DEF WitStep
    <3>3. p \in Pids /\ ProcOK(p) /\ proc[p].of = j /\ proc[p].role \in {"user", "susp"}
          /\ proc[p] \in [role : Roles, of : Jobs \cup {"-"}, pgid : Pids \cup {0}]
      BY <3>1 DEF JobPids, Live, IdInv, TypeOK, TableOK
    <3>4. proc[p].role = "user" /\ proc[p].pgid = own[j][1]
      BY <3>2, <3>3 DEF ProcOK
    <3>5. proc[p] = Process("user", j, own[j][1])
      BY <3>3, <3>4 DEF Process
    <3>6. own[j] # NoId /\ own[j][1] # p /\ own'[j] = own[j]
      BY <1>1, <3>2, <3>4, StepKeeps DEF Running
    <3>7. next'[j] = <<p, gen'[p]>> /\ gen'[p] \in Nat /\ proc'[p] = proc[p]
      BY <3>1, <3>3 DEF Id, Same, TypeOK, TableOK
    <3>8. Witness(j, next[j])'
      BY <2>3, <3>5, <3>6, <3>7 DEF Witness
    <3> QED
      BY <3>8 DEF NextOK
  <2> QED
    BY <2>1, <2>2, <2>3
<1> QED
  BY <1>2, <1>3, <1>4, <1>5

\* A job without a process gets none, unless its observer is to start it.
LEMMA NoNewPids ==
  ASSUME TypeOK, IdInv, PcInv, Step, NEW j \in Jobs, JobPids(j) = {}, pc[j] # "idle",
         ~ (platform = "posix" /\ j \in Commands /\ pc[j] = "spawn")
  PROVE  JobPids(j)' = {}
<1> SUFFICES ASSUME NEW p \in Pids, proc'[p].of = j, proc'[p].role \in {"user", "susp"}
             PROVE  FALSE
  BY DEF JobPids, Live
<1>1. Same(p) \/ Dies(p) \/ Departs(p) \/ Resumed(p) \/ Born(p)
  BY DEF Step, TableStep
<1>2. ~ (proc[p].of = j /\ proc[p].role \in {"user", "susp"})
  BY DEF JobPids, Live, NoProc
<1>3. Born(p)
  BY <1>1, <1>2 DEF Same, Dies, Departs, Resumed, NoProc, Outside, Process
<1>4. proc'[p] # Outside(p)
  BY DEF Outside, Process
<1>5. ASSUME NEW k \in Jobs, own[k] = NoId, proc'[p] = OwnProcess(k, p) PROVE FALSE
  <2>1. k = j /\ k \in Ops
    BY <1>5 DEF OwnProcess, Process
  <2> QED
    BY <1>5, <2>1 DEF PcInv, OpOK
<1>6. ASSUME NEW q \in Pids, IsUser(q), proc'[p] = proc[q] PROVE FALSE
  BY <1>6 DEF IsUser, JobPids
<1>7. ASSUME NEW k \in Commands, pc[k] = "idle", proc'[p] = Process("susp", k, 0) PROVE FALSE
  BY <1>7 DEF Process
<1>8. ASSUME NEW k \in Commands, platform = "posix", pc[k] = "spawn",
             proc'[p] = Process("user", k, own[k][1])
      PROVE  FALSE
  BY <1>8 DEF Process
<1> QED
  BY <1>3, <1>4, <1>5, <1>6, <1>7, <1>8 DEF Born

\* A command without a running process gets one only from its observer.
LEMMA NoNewMembers ==
  ASSUME TypeOK, IdInv, Step, NEW j \in Commands, Members(j) = {},
         ~ (pc[j] = "spawn" /\ pc'[j] = "child")
  PROVE  Members(j)' = {}
<1> SUFFICES ASSUME NEW p \in Pids, proc'[p].of = j, proc'[p].role = "user"
             PROVE  FALSE
  BY DEF Members, Live
<1>1. Same(p) \/ Dies(p) \/ Departs(p) \/ Resumed(p) \/ Born(p)
  BY DEF Step, TableStep
<1>2. ~ (proc[p].of = j /\ proc[p].role = "user")
  BY DEF Members, Live, NoProc
<1>3. CASE Same(p) \/ Dies(p) \/ Departs(p)
  BY <1>2, <1>3 DEF Same, Dies, Departs, NoProc, Outside, Process
<1>4. CASE Resumed(p)
  BY <1>4 DEF Resumed, Process
<1>5. CASE Born(p)
  <2>1. proc'[p] # Outside(p)
    BY DEF Outside, Process
  <2>2. ASSUME NEW k \in Jobs, proc'[p] = OwnProcess(k, p) PROVE FALSE
    BY <2>2, ConstAssumption DEF OwnProcess, Process
  <2>3. ASSUME NEW q \in Pids, IsUser(q), proc'[p] = proc[q] PROVE FALSE
    BY <2>3 DEF IsUser, Members
  <2>4. ASSUME NEW k \in Commands, proc'[p] = Process("susp", k, 0) PROVE FALSE
    BY <2>4 DEF Process
  <2>5. ASSUME NEW k \in Commands, pc[k] = "spawn", pc'[k] = "child",
               proc'[p] = Process("user", k, own[k][1])
        PROVE  FALSE
    BY <2>5 DEF Process
  <2> QED
    BY <1>5, <2>1, <2>2, <2>3, <2>4, <2>5 DEF Born
<1> QED
  BY <1>1, <1>3, <1>4, <1>5

\* A command that has not been started has no running process.
LEMMA PreSpawnEmpty ==
  ASSUME IdInv, NEW j \in Commands, pc[j] \in PreSpawn
  PROVE  Members(j) = {}
BY DEF IdInv, ProcOK, Members, Live

\* A row that samples as stale belongs to a job that is over for good.
LEMMA StaleIsDead ==
  ASSUME TypeOK, IdInv, PcInv, NEW j \in Jobs, NEW r \in Rows, r # NoRow, RowOK(j, r),
         \/ Sample(j, r) = "stale"
         \/ Stale(j, r)
  PROVE  Dead(j)
<1>1. /\ r.kind = IF j \in Ops THEN "op" ELSE Kind
      /\ own[j] # NoId /\ r.owner = own[j] /\ pc[j] \notin {"idle", "keeper", "register"}
      /\ r.wit = own[j] \/ (r.kind = "posix_pgid" /\ pc[j] \in Past)
  BY DEF RowOK
<1>2. own[j] \in Pids \X Nat /\ own[j][1] \in Pids /\ own[j][2] \in Nat
  BY <1>1 DEF TypeOK, ControlOK, Ids
<1>3. \A p \in Pids : ProcOK(p)
  BY DEF IdInv
<1>4. CASE j \in Ops
  <2>1. IdState(own[j]) # "match" /\ r.kind = "op" /\ r.wit = own[j]
    BY <1>1, <1>4 DEF Sample, Stale, OpSample
  <2>2. ASSUME NEW p \in JobPids(j) PROVE FALSE
    <3>1. p \in Live /\ p \in Pids /\ proc[p].of = j /\ proc[p].role = "user"
      BY <1>3, <1>4, ConstAssumption DEF JobPids, Live, ProcOK
    <3>2. Id(p) = own[j]
      BY <1>3, <1>4, <3>1 DEF ProcOK
    <3> QED
      BY <2>1, <3>1, <3>2 DEF IdState, Id
  <2> QED
    BY <1>1, <1>4, <2>2, ConstAssumption DEF Dead
<1>5. CASE j \in Commands /\ platform = "windows"
  <2>1. r.kind = "windows_job_v2"
    BY <1>1, <1>5, ConstAssumption DEF Kind
  <2>2. JobPids(j) = {}
    BY <2>1 DEF Sample, Stale, WindowsSample
  <2> QED
    BY <1>1, <1>5, <2>2 DEF Dead
<1>6. CASE j \in Commands /\ platform = "posix"
  <2>1. r.kind = "posix_pgid"
    BY <1>1, <1>6, ConstAssumption DEF Kind
  <2>2. IdState(r.wit) # "match" /\ Others(r) = {}
    <3>1. CASE Sample(j, r) = "stale"
      BY <2>1, <3>1 DEF Sample, PosixSample
    <3>2. CASE Stale(j, r)
      BY <2>1, <3>2 DEF Stale, Others
    <3> QED
      BY <3>1, <3>2
  <2>3. ASSUME NEW p \in JobPids(j) PROVE FALSE
    <3>1. p \in Live /\ p \in Pids /\ proc[p].of = j /\ proc[p].role = "user"
      BY <1>3, <1>6 DEF JobPids, Live, ProcOK
    <3>2. proc[p].pgid = own[j][1]
      BY <1>3, <1>6, <3>1 DEF ProcOK
    <3>3. Id(p) = own[j]
      BY <1>1, <2>2, <3>1, <3>2 DEF Others, InGroup
    <3>4. p = own[j][1] /\ gen[p] = own[j][2]
      BY <3>3 DEF Id
    <3>5. proc[p] \in {NoProc, OwnProcess(j, p)}
      BY <1>1, <3>4 DEF IdInv, OwnOK
    <3> QED
      BY <1>6, <3>1, <3>5, ConstAssumption DEF OwnProcess, Process, NoProc
  <2>4. pc[j] \in Past
    <3>1. CASE r.wit = own[j] /\ pc[j] \in Running
      <4>1. ObserverAlive(j)
        BY <1>6, <3>1 DEF PcInv, PcOK
      <4>2. own[j][1] \in Live /\ Id(own[j][1]) = own[j]
        BY <1>2, <1>6, <4>1, ConstAssumption DEF ObserverAlive, OwnProcess, Process, Live, NoProc, Id
      <4> QED
        BY <2>2, <3>1, <4>2 DEF IdState
    <3>2. CASE r.wit # own[j] \/ pc[j] \notin Running
      BY <1>1, <3>2 DEF Running, Past, TypeOK, ControlOK, Labels
    <3> QED
      BY <3>1, <3>2
  <2> QED
    BY <1>1, <1>6, <2>3, <2>4 DEF Dead
<1> QED
  BY <1>4, <1>5, <1>6 DEF Jobs, TypeOK, TableOK

\* A row that samples as live belongs to a job with a process: whatever else
\* runs under the pids and the group number the row names is told apart.
LEMMA LiveIsAlive ==
  ASSUME TypeOK, IdInv, NEW j \in Jobs, NEW r \in Rows, r # NoRow, RowOK(j, r),
         Sample(j, r) = "live"
  PROVE  JobPids(j) # {}
<1>1. /\ r.kind = IF j \in Ops THEN "op" ELSE Kind
      /\ own[j] # NoId /\ r.owner = own[j]
      /\ r.wit = own[j] \/ (r.kind = "posix_pgid" /\ Witness(j, r.wit))
  BY DEF RowOK
<1>2. own[j] \in Pids \X Nat /\ own[j][1] \in Pids /\ own[j][2] \in Nat
  BY <1>1 DEF TypeOK, ControlOK, Ids
<1>3. CASE j \in Ops
  <2>1. IdState(own[j]) = "match"
    BY <1>1, <1>3 DEF Sample, OpSample
  <2>2. own[j][1] \in Live /\ gen[own[j][1]] = own[j][2]
    BY <2>1 DEF IdState, Id
  <2>3. proc[own[j][1]] = OwnProcess(j, own[j][1])
    BY <1>1, <2>2 DEF IdInv, OwnOK, Live
  <2>4. own[j][1] \in JobPids(j)
    BY <1>3, <2>2, <2>3 DEF JobPids, OwnProcess, Process
  <2> QED
    BY <2>4
<1>4. CASE j \in Commands /\ platform = "windows"
  BY <1>1, <1>4, ConstAssumption DEF Sample, Kind, WindowsSample
<1>5. CASE j \in Commands /\ platform = "posix"
  <2>1. r.kind = "posix_pgid" /\ PosixSample(r) = "live"
    BY <1>1, <1>5, ConstAssumption DEF Sample, Kind
  <2>2. r.wit[1] \in Live /\ Id(r.wit[1]) = r.wit
    BY <2>1 DEF PosixSample, IdState
  <2>3. CASE r.wit = own[j]
    <3>1. Others(r) # {} /\ gen[own[j][1]] = own[j][2]
      BY <1>1, <2>1, <2>2, <2>3 DEF PosixSample, Id
    <3>2. PICK q \in Pids : q \in Live /\ proc[q].pgid = own[j][1] /\ Id(q) # own[j]
      BY <1>1, <3>1 DEF Others, InGroup, Live
    <3>3. q # own[j][1]
      BY <2>2, <2>3, <3>2
    <3>4. ProcOK(q) /\ proc[q].role \in Roles
      BY DEF IdInv, TypeOK, TableOK
    <3>5. proc[q].role = "user" /\ proc[q].of \in Commands
      BY <1>5, <3>2, <3>3, <3>4 DEF ProcOK, Roles, Live, Jobs
    <3> DEFINE k == proc[q].of
    <3>6. own[k] # NoId /\ own[k][1] = own[j][1] /\ own[k][2] = gen[own[k][1]]
      BY <1>5, <3>2, <3>4, <3>5 DEF ProcOK
    <3>7. own[k] \in Pids \X Nat
      BY <3>5, <3>6 DEF TypeOK, ControlOK, Ids, Jobs
    <3>8. own[k] = own[j]
      BY <1>2, <3>1, <3>6, <3>7
    <3>9. k = j
      BY <1>1, <3>5, <3>8 DEF IdInv, OwnUnique, Jobs
    <3>10. q \in JobPids(j)
      BY <3>2, <3>5, <3>9 DEF JobPids
    <3> QED
      BY <3>10
  <2>4. CASE r.wit # own[j]
    <3>1. Witness(j, r.wit) /\ proc[r.wit[1]].pgid = own[j][1]
      BY <1>1, <2>1, <2>4 DEF PosixSample
    <3>2. r.wit[2] = gen[r.wit[1]]
      BY <2>2 DEF Id
    <3>3. proc[r.wit[1]] = Process("user", j, own[j][1])
      BY <1>5, <2>2, <3>1, <3>2 DEF Witness, Outside, Process, Live
    <3>4. r.wit[1] \in JobPids(j)
      BY <2>2, <3>3 DEF JobPids, Process
    <3> QED
      BY <3>4
  <2> QED
    BY <2>3, <2>4
<1> QED
  BY <1>3, <1>4, <1>5 DEF Jobs, TypeOK, TableOK

\* A row, once right about its job, stays right.
LEMMA RowKept ==
  ASSUME TypeOK, Step, NEW j \in Jobs, NEW r \in Rows, RowOK(j, r)
  PROVE  RowOK(j, r)'
<1>1. CASE r = NoRow
  BY <1>1 DEF RowOK, NoRow
<1>2. CASE r # NoRow
  <2>1. /\ r.kind # "none" /\ own[j] # NoId /\ r.owner = own[j]
        /\ pc[j] \notin {"idle", "keeper", "register"}
        /\ r.kind = IF j \in Ops THEN "op" ELSE Kind
        /\ r.wit = own[j] \/ (r.kind = "posix_pgid" /\ Witness(j, r.wit) /\ pc[j] \in Past)
    BY <1>2 DEF RowOK
  <2>2. /\ own'[j] = own[j] /\ pc'[j] \notin {"idle", "keeper", "register"}
        /\ pc[j] \in Past => pc'[j] \in Past
    BY <2>1, StepKeeps
  <2>3. r.wit \in Ids /\ Kind' = Kind
    BY StepKeeps DEF Rows, Kind
  <2>4. Witness(j, r.wit) => Witness(j, r.wit)'
    BY <2>3, WitnessKept
  <2> QED
    BY <2>1, <2>2, <2>3, <2>4 DEF RowOK
<1> QED
  BY <1>1, <1>2

\* Rows are right about their jobs, in the registry and in a query's copy.
LEMMA RowInvStep ==
  TypeOK /\ TypeOK' /\ RowInv /\ Step /\ RowStep /\ QueryStep => RowInv'
<1> SUFFICES ASSUME TypeOK, TypeOK', RowInv, Step, RowStep, QueryStep, NEW j \in Jobs
             PROVE  RowOK(j, rows[j])' /\ RowOK(j, query.rows[j])'
  BY DEF RowInv
<1>1. rows[j] \in Rows /\ query.rows[j] \in Rows /\ RowOK(j, rows[j]) /\ RowOK(j, query.rows[j])
  BY DEF RowInv, TypeOK, RowsOK, QueryOK
<1>2. RowOK(j, NoRow)'
  BY DEF RowOK, NoRow
<1>3. RowOK(j, rows[j])'
  <2>1. CASE rows'[j] = rows[j]
    BY <1>1, <2>1, RowKept
  <2>2. CASE rows'[j] = NoRow
    BY <1>2, <2>2
  <2>3. CASE /\ pc[j] = "register" /\ pc'[j] \notin {"idle", "keeper", "register"} /\ own[j] # NoId
             /\ rows'[j] = [kind |-> IF j \in Ops THEN "op" ELSE Kind, owner |-> own[j],
                            wit |-> own[j]]
    BY <2>3, StepKeeps DEF RowOK, Kind
  <2>4. ASSUME platform = "posix", j \in Commands, pc'[j] \in Past, rows[j] # NoRow,
               NEW w \in Ids, Witness(j, w), rows'[j] = [rows[j] EXCEPT !.wit = w]
        PROVE  RowOK(j, rows[j])'
    <3>1. rows'[j].kind = rows[j].kind /\ rows'[j].owner = rows[j].owner /\ rows'[j].wit = w
      BY <1>1, <2>4 DEF Rows
    <3>2. Witness(j, w)'
      BY <2>4, WitnessKept
    <3>3. /\ rows[j].kind # "none" /\ own[j] # NoId /\ rows[j].owner = own[j]
          /\ rows[j].kind = "posix_pgid" /\ Kind = "posix_pgid"
      BY <1>1, <2>4, ConstAssumption DEF RowOK, Kind
    <3>4. own'[j] = own[j] /\ Kind' = Kind
      BY <3>3, StepKeeps DEF Kind
    <3> QED
      BY <2>4, <3>1, <3>2, <3>3, <3>4, ConstAssumption DEF RowOK, Past
  <2> QED
    BY <2>1, <2>2, <2>3, <2>4 DEF RowStep
<1>4. RowOK(j, query.rows[j])'
  <2>1. CASE query' = query
    BY <1>1, <2>1, RowKept
  <2>2. CASE query' # query
    <3>1. query'.rows[j] \in {rows[j], query.rows[j], NoRow}
      BY <2>2 DEF QueryStep
    <3> QED
      BY <1>1, <1>2, <3>1, RowKept
  <2> QED
    BY <2>1, <2>2
<1> QED
  BY <1>3, <1>4

\* The POSIX observer of a job is killed only by the end of that observer.
LEMMA ObserverStays ==
  ASSUME TypeOK, IdInv, Step, platform = "posix", NEW j \in Commands, ObserverAlive(j),
         pc'[j] # "over"
  PROVE  ObserverAlive(j)'
<1> DEFINE p == own[j][1]
<1>1. own[j] \in Pids \X Nat /\ p \in Pids /\ own'[j] = own[j]
  BY StepKeeps DEF ObserverAlive, TypeOK, ControlOK, Ids, Jobs
<1>2. proc[p] = Process("observer", j, p) /\ Id(p) = own[j] /\ own[j] # NoId
  BY <1>1, ConstAssumption DEF ObserverAlive, OwnProcess, Id
<1>3. Same(p) \/ Dies(p) \/ Departs(p) \/ Resumed(p) \/ Born(p)
  BY <1>1 DEF Step, TableStep
<1>4. ~ Departs(p) /\ ~ Resumed(p) /\ ~ Born(p)
  BY <1>1, <1>2 DEF Departs, Resumed, Born, IsUser, FreePid, Live, Process, NoProc
<1>5. ~ Dies(p)
  <2> SUFFICES ASSUME Dies(p) PROVE FALSE
    OBVIOUS
  <2>1. PICK k \in Jobs : own[k] = Id(p) /\ pc'[k] = "over"
    BY <1>2 DEF Dies, Process
  <2>2. k = j
    BY <1>2, <2>1 DEF IdInv, OwnUnique, Jobs
  <2> QED
    BY <2>1, <2>2
<1>6. Same(p)
  BY <1>3, <1>4, <1>5
<1> QED
  BY <1>1, <1>2, <1>6, StepKeeps DEF ObserverAlive, Same, OwnProcess

\* The registry loses a command's row when nothing of it is left, when its
\* start failed, or when its observer lost sight of it.
LEMMA WhyRowsGo ==
  ASSUME TypeOK, IdInv, PcInv, RowInv, Step, RowStep, NEW j \in Commands,
         rows[j] # NoRow, rows'[j] = NoRow
  PROVE  \/ JobPids(j) = {} /\ ~ (platform = "posix" /\ pc[j] \in HoldsRow)
         \/ pc[j] = "unreg" /\ pc'[j] = "exit"
         \/ pc'[j] = "over" /\ (pc[j] \in PreSpawn \/ j \in blind')
<1>1. rows[j] \in Rows /\ RowOK(j, rows[j]) /\ rows[j].kind # "none" /\ j \notin Ops /\ j \in Jobs
  BY ConstAssumption DEF RowInv, RowOK, Jobs, TypeOK, RowsOK
<1>2. CASE Stale(j, rows[j])
  <2>1. JobPids(j) = {}
    BY <1>1, <1>2, StaleIsDead DEF Dead
  <2>2. ASSUME platform = "posix", pc[j] \in HoldsRow PROVE FALSE
    <3>1. rows[j].kind = "posix_pgid" /\ rows[j].owner = own[j]
      BY <1>1, <2>2 DEF RowOK, Kind
    <3>2. InGroup(own[j][1]) = {}
      BY <1>2, <3>1 DEF Stale
    <3>3. ObserverAlive(j)
      BY <2>2 DEF PcInv, PcOK, HoldsRow, Running
    <3>4. own[j][1] \in Pids /\ proc[own[j][1]] = Process("observer", j, own[j][1])
      BY <1>1, <2>2, <3>3 DEF ObserverAlive, OwnProcess, TypeOK, ControlOK, Ids
    <3>5. own[j][1] \in InGroup(own[j][1])
      BY <3>4 DEF InGroup, Live, Process, NoProc
    <3> QED
      BY <3>2, <3>5
  <2> QED
    BY <2>1, <2>2
<1>3. CASE platform = "windows" /\ JobPids(j) = {}
  BY <1>3
<1>4. rows'[j] # [kind |-> IF j \in Ops THEN "op" ELSE Kind, owner |-> own[j], wit |-> own[j]]
  BY <1>1 DEF NoRow, Kind
<1>5. \A w \in Ids : rows'[j] # [rows[j] EXCEPT !.wit = w]
  <2> SUFFICES ASSUME NEW w \in Ids PROVE [rows[j] EXCEPT !.wit = w].kind # "none"
    BY DEF NoRow
  <2> QED
    BY <1>1 DEF Rows
<1> QED
  BY <1>1, <1>2, <1>3, <1>4, <1>5 DEF RowStep

\* Where an observer is, its process, its row and its members agree.
LEMMA PcInvStep ==
  TypeOK /\ TypeOK' /\ IdInv /\ PcInv /\ RowInv /\ RowInv' /\ Step /\ WitStep /\ RowStep
  /\ EntryStep => PcInv'
<1> SUFFICES ASSUME TypeOK, TypeOK', IdInv, PcInv, RowInv, RowInv', Step, WitStep, RowStep, EntryStep
             PROVE  PcInv'
  OBVIOUS
<1>1. \A j \in Ops : OpOK(j)'
  BY DEF EntryStep, Entered, OpOK
<1>2. ASSUME NEW j \in Commands PROVE PcOK(j)'
  <2>0. PcOK(j) /\ j \in Jobs
    BY DEF PcInv, Jobs
  <2>1. pc'[j] = pc[j] \/ pc'[j] = "over" \/ <<pc[j], pc'[j]>> \in Edges
    BY <2>0 DEF Step, PcStep
  <2>2. platform' = platform /\ (own[j] # NoId => own'[j] = own[j])
    BY <2>0, StepKeeps
  <2>3. pc'[j] = "keeper" => platform' = "windows"
    BY <2>0, <2>2 DEF PcOK, EntryStep, Entered
  <2>4. pc'[j] = "survivor" => platform' = "posix" /\ next'[j] # NoId
    <3>1. CASE pc[j] = "survivor" /\ pc'[j] = "survivor"
      BY <2>0, <2>2, <3>1 DEF PcOK, WitStep
    <3>2. CASE pc[j] # "survivor"
      BY <2>2, <3>2 DEF EntryStep, Entered
    <3> QED
      BY <3>1, <3>2
  <2>5. pc'[j] \in {"idle", "keeper"} => own'[j] = NoId
    <3> SUFFICES ASSUME pc'[j] \in {"idle", "keeper"} PROVE own'[j] = NoId
      OBVIOUS
    <3>1. pc[j] \in {"idle", "keeper"}
      BY <2>1 DEF Edges
    <3> QED
      BY <2>0, <3>1 DEF PcOK, EntryStep, Entered
  <2>6. pc'[j] \in Running =>
          \/ pc[j] \in Running /\ own[j] # NoId
          \/ pc'[j] = "register" /\ pc'[j] # pc[j] /\ own[j] = NoId /\ own'[j] # NoId
    <3> SUFFICES ASSUME pc'[j] \in Running, pc[j] \notin Running
                 PROVE  pc'[j] = "register" /\ pc'[j] # pc[j]
      BY <2>0 DEF PcOK, EntryStep, Entered
    <3> QED
      BY <2>1 DEF Edges, Running
  <2>7. pc'[j] \in Running => own'[j] # NoId
    BY <2>2, <2>6
  <2>8. ASSUME platform = "posix", pc'[j] \in Running PROVE ObserverAlive(j)'
    <3>1. CASE pc[j] \in Running
      <4>1. ObserverAlive(j) /\ pc'[j] # "over"
        BY <2>0, <2>8, <3>1 DEF PcOK, Running
      <4> QED
        BY <2>8, <4>1, ObserverStays
    <3>2. CASE own[j] = NoId /\ own'[j] # NoId
      <4>1. PICK p \in Pids : /\ own'[j] = <<p, gen[p] + 1>> /\ gen'[p] = gen[p] + 1
                             /\ proc'[p] = OwnProcess(j, p)
        BY <2>0, <3>2 DEF Step, OwnStep
      <4> QED
        BY <2>2, <3>2, <4>1 DEF ObserverAlive, OwnProcess
    <3> QED
      BY <2>6, <2>8, <3>1, <3>2
  <2>9. ASSUME platform = "posix", pc'[j] \in HoldsRow PROVE rows'[j] # NoRow
    <3>1. CASE pc[j] \in HoldsRow
      <4>1. rows[j] # NoRow
        BY <2>0, <2>9, <3>1 DEF PcOK
      <4> QED
        BY <2>9, <3>1, <4>1, WhyRowsGo DEF HoldsRow
    <3>2. CASE pc[j] \notin HoldsRow
      <4>1. pc[j] = "register" /\ pc'[j] # "over"
        BY <2>1, <2>9, <3>2 DEF Edges, HoldsRow
      <4> QED
        BY <2>9, <4>1 DEF EntryStep, Entered, HoldsRow
    <3> QED
      BY <3>1, <3>2
  <2>10. pc'[j] = "unreg" => JobPids(j)' = {}
    <3> SUFFICES ASSUME pc'[j] = "unreg" PROVE JobPids(j)' = {}
      OBVIOUS
    <3>1. pc[j] \in {"unreg", "count"}
      BY <2>1 DEF Edges
    <3>2. JobPids(j) = {}
      BY <2>0, <3>1 DEF PcOK, EntryStep, Entered
    <3> QED
      BY <2>0, <3>1, <3>2, NoNewPids
  <2>11. ASSUME pc'[j] \in Followed, JobPids(j)' # {} PROVE rows'[j] # NoRow \/ j \in blind'
    <3> SUFFICES ASSUME rows'[j] = NoRow PROVE j \in blind'
      OBVIOUS
    <3>1. ~ (platform = "posix" /\ pc'[j] \in HoldsRow)
      BY <2>9
    <3>2. pc[j] \in Followed
      <4>1. pc[j] # "register"
        BY <2>11 DEF EntryStep, Entered, Followed, HoldsRow
      <4> QED
        BY <2>1, <2>11, <4>1 DEF Edges, Followed, HoldsRow
    <3>3. ~ (platform = "posix" /\ j \in Commands /\ pc[j] = "spawn") /\ pc[j] # "idle"
      BY <2>1, <2>11, <3>1, <3>2 DEF Edges, HoldsRow, Followed
    <3>4. JobPids(j) # {}
      BY <2>0, <2>11, <3>3, NoNewPids
    <3>5. rows[j] # NoRow \/ j \in blind
      BY <2>0, <3>2, <3>4 DEF PcOK
    <3>6. pc[j] # "unreg" /\ pc'[j] # "over"
      BY <2>0, <2>11, <3>4 DEF PcOK, Followed, HoldsRow
    <3>7. rows[j] = NoRow
      BY <3>4, <3>6, WhyRowsGo
    <3> QED
      BY <3>5, <3>7 DEF EntryStep, Entered
  <2>12. cancel'[j] # "none" => platform' = "windows" /\ pc'[j] # "idle"
    <3>1. pc[j] # "idle" => pc'[j] # "idle"
      BY <2>0, StepKeeps
    <3> QED
      BY <2>0, <2>2, <3>1 DEF PcOK, EntryStep, Entered
  <2> QED
    BY <2>2, <2>3, <2>4, <2>5, <2>7, <2>8, <2>9, <2>10, <2>11, <2>12 DEF PcOK
<1> QED
  BY <1>1, <1>2 DEF PcInv

\* A job that is over stays over.
LEMMA DeadKept ==
  ASSUME TypeOK, IdInv, PcInv, Step, NEW j \in Jobs, Dead(j)
  PROVE  Dead(j)'
<1>1. JobPids(j)' = {}
  BY NoNewPids DEF Dead, Past
<1> QED
  BY <1>1, StepKeeps DEF Dead

\* The query's first snapshot passes over a job only when it is over.
LEMMA PassedOverStep ==
  TypeOK /\ IdInv /\ PcInv /\ RowInv /\ PassedOver /\ Step /\ QueryStep => PassedOver'
<1>0. PassedOver /\ QueryStep => (query'.pc # "done" => query'.running = {})
  BY DEF PassedOver, QueryStep
<1> SUFFICES ASSUME TypeOK, IdInv, PcInv, RowInv, PassedOver, Step, QueryStep,
                    query'.pc = "second", NEW j \in Jobs, query'.rows[j] # NoRow,
                    j \notin query'.first \cup query'.unknown
             PROVE  Dead(j)'
  BY <1>0 DEF PassedOver
<1>1. CASE query' = query
  BY <1>1, DeadKept DEF PassedOver
<1>2. CASE query' # query
  <2>1. FirstSnapshot
    BY <1>2 DEF QueryStep
  <2>2. /\ query'.rows = query.rows /\ query'.first = Asked(Jobs, "live")
        /\ query'.unknown = Asked(Jobs, "unknown")
    BY <2>1 DEF FirstSnapshot, UnknownRows, TypeOK, QueryOK
  <2>3. Sample(j, query.rows[j]) \notin {"live", "unknown"}
    BY <2>2 DEF Asked
  <2>4. query.rows[j] \in Rows /\ RowOK(j, query.rows[j]) /\ query.rows[j] # NoRow
    BY <2>2 DEF RowInv, TypeOK, QueryOK
  <2>5. query.rows[j].kind \in {"op", "posix_pgid", "windows_job_v2"}
    BY <2>4 DEF RowOK, Rows
  <2>6. Sample(j, query.rows[j]) = "stale"
    BY <2>3, <2>5 DEF Sample, OpSample, PosixSample, WindowsSample
  <2>7. Dead(j)
    BY <2>4, <2>6, StaleIsDead
  <2> QED
    BY <2>7, DeadKept
<1> QED
  BY <1>1, <1>2

\* Observation and cancellation.
LEMMA PromisesStep ==
  TypeOK /\ TypeOK' /\ IdInv /\ IdInv' /\ PcInv /\ PcInv' /\ RowInv /\ ObservedWhileAlive
  /\ CancelIsTrue /\ Step /\ RowStep /\ EntryStep => ObservedWhileAlive' /\ CancelIsTrue'
<1> SUFFICES ASSUME TypeOK, TypeOK', IdInv, IdInv', PcInv, PcInv', RowInv, ObservedWhileAlive,
                    CancelIsTrue, Step, RowStep, EntryStep, NEW j \in Commands
             PROVE  /\ Members(j)' # {} => rows'[j] # NoRow \/ j \in blind'
                    /\ cancel'[j] = "cancelled" => JobPids(j)' = {}
  BY DEF ObservedWhileAlive, CancelIsTrue
<1>0. j \in Jobs /\ pc[j] \in Labels /\ pc'[j] \in Labels
  BY DEF Jobs, TypeOK, ControlOK
<1>1. ASSUME Members(j)' # {}, rows'[j] = NoRow PROVE j \in blind'
  <2>1. pc'[j] \notin PreSpawn
    BY <1>1, IdInv' DEF IdInv, ProcOK, Members, Live
  <2>2. CASE pc'[j] \in Followed
    <3>1. JobPids(j)' # {}
      BY <1>1 DEF JobPids, Members
    <3> QED
      BY <1>1, <2>2, <3>1 DEF PcInv, PcOK
  <2>3. CASE pc'[j] = "over"
    <3>1. Members(j) # {}
      BY <1>1, <2>3, NoNewMembers
    <3>2. rows[j] # NoRow \/ j \in blind
      BY <3>1 DEF ObservedWhileAlive
    <3>3. JobPids(j) # {} /\ pc[j] \notin PreSpawn
      BY <3>1, PreSpawnEmpty DEF JobPids, Members
    <3>4. rows[j] # NoRow => j \in blind'
      BY <1>1, <2>3, <3>3, WhyRowsGo
    <3> QED
      BY <3>2, <3>4 DEF EntryStep, Entered
  <2> QED
    BY <1>0, <2>1, <2>2, <2>3 DEF Labels, PreSpawn, Followed, HoldsRow
<1>2. ASSUME cancel'[j] = "cancelled" PROVE JobPids(j)' = {}
  <2>1. JobPids(j) = {} /\ pc[j] # "idle" /\ platform = "windows"
    BY <1>2 DEF EntryStep, Entered, CancelIsTrue, PcInv, PcOK
  <2> QED
    BY <1>0, <2>1, NoNewPids
<1> QED
  BY <1>1, <1>2

----------------------------------------------------------------------------
(* Every action is such a step.                                            *)
Steps == TypeOK' /\ Step /\ WitStep /\ RowStep /\ EntryStep /\ QueryStep

\* One observer moves, along an edge; the others stay where they are.
LEMMA Moves ==
  ASSUME TypeOK, PcInv, NEW j \in Jobs, NEW l \in Labels, Go(j, l),
         l = "over" \/ <<pc[j], l>> \in Edges,
         \A k \in Jobs \ {j} : own'[k] = own[k], cancel' = cancel, blind \subseteq blind',
         j \in Commands => Entered(j),
         j \in Ops => l \in {"register", "wait", "over"} /\ own'[j] # NoId
  PROVE  /\ PcStep /\ EntryStep /\ pc' \in [Jobs -> Labels] /\ pc'[j] = l
         /\ \A k \in Jobs \ {j} : pc'[k] = pc[k]
<1>1. /\ pc' \in [Jobs -> Labels] /\ pc'[j] = l
      /\ \A k \in Jobs \ {j} : pc'[k] = pc[k]
  BY DEF Go, TypeOK, ControlOK
<1>2. PcStep
  BY <1>1 DEF PcStep
<1>3. \A k \in Commands : Entered(k) /\ cancel'[k] = cancel[k]
  BY <1>1 DEF Entered, Jobs
<1>4. ASSUME NEW k \in Ops
      PROVE  /\ pc'[k] \in {"idle", "register", "wait", "over"}
             /\ pc'[k] = "idle" <=> own'[k] = NoId
  <2>1. CASE k = j
    BY <1>1, <2>1
  <2>2. CASE k # j
    BY <1>1, <2>2 DEF PcInv, OpOK, Jobs
  <2> QED
    BY <2>1, <2>2
<1> QED
  BY <1>1, <1>2, <1>3, <1>4 DEF EntryStep

\* No observer moves.
LEMMA Stays ==
  ASSUME TypeOK, PcInv, UNCHANGED <<pc, own, cancel, blind>>
  PROVE  PcStep /\ EntryStep
BY DEF PcStep, EntryStep, Entered, PcInv, OpOK

\* No process comes or goes.
LEMMA Quiet ==
  ASSUME UNCHANGED <<platform, proc, gen, own>>
  PROVE  TableStep /\ OwnStep
BY DEF TableStep, OwnStep, Same

\* Processes end.
LEMMA Kills ==
  ASSUME TypeOK, NEW S, proc' = Without(S), UNCHANGED <<host, gen, own>>,
         \A p \in Pids \cap S : \/ proc[p].role # "observer"
                               \/ \E k \in Jobs : own[k] = Id(p) /\ pc'[k] = "over"
  PROVE  TableStep /\ OwnStep /\ TableOK'
<1>1. proc' \in [Pids -> [role : Roles, of : Jobs \cup {"-"}, pgid : Pids \cup {0}]]
  <2>1. NoProc \in [role : Roles, of : Jobs \cup {"-"}, pgid : Pids \cup {0}]
    BY DEF NoProc, Roles
  <2> QED
    BY <2>1 DEF Without, TypeOK, TableOK
<1>2. \A p \in Pids : Same(p) \/ Dies(p)
  <2> SUFFICES ASSUME NEW p \in Pids PROVE Same(p) \/ Dies(p)
    OBVIOUS
  <2>1. proc'[p] = IF p \in S THEN NoProc ELSE proc[p]
    BY DEF Without
  <2> QED
    BY <2>1 DEF Same, Dies, host
<1> QED
  BY <1>1, <1>2 DEF TableStep, OwnStep, TableOK, TypeOK, host

\* A process is created under a free pid.
LEMMA Births ==
  ASSUME TypeOK, NEW p \in Pids, FreePid(p),
         NEW r \in [role : Roles, of : Jobs \cup {"-"}, pgid : Pids \cup {0}], Create(p, r),
         UNCHANGED host
  PROVE  /\ TableOK' /\ proc'[p] = r /\ gen'[p] = gen[p] + 1
         /\ \A q \in Pids \ {p} : Same(q)
BY DEF TypeOK, TableOK, Create, Same, host

\* The observer, keeper or operation itself is created.
LEMMA OwnBirths ==
  ASSUME TypeOK, NEW p \in Pids, FreePid(p), NEW j \in Jobs, own[j] = NoId,
         Create(p, OwnProcess(j, p)), own' = [own EXCEPT ![j] = <<p, gen[p] + 1>>], UNCHANGED host
  PROVE  TableStep /\ OwnStep /\ TableOK' /\ own' \in [Jobs -> Ids] /\ own'[j] # NoId
         /\ \A k \in Jobs \ {j} : own'[k] = own[k]
<1>1. OwnProcess(j, p) \in [role : Roles, of : Jobs \cup {"-"}, pgid : Pids \cup {0}]
  BY DEF OwnProcess, Process, Roles
<1>2. /\ TableOK' /\ proc'[p] = OwnProcess(j, p) /\ gen'[p] = gen[p] + 1
      /\ \A q \in Pids \ {p} : Same(q)
  BY <1>1, Births
<1>3. gen[p] \in Nat /\ own'[j] = <<p, gen[p] + 1>> /\ \A k \in Jobs \ {j} : own'[k] = own[k]
  BY DEF TypeOK, TableOK, ControlOK
<1>4. own'[j] # NoId /\ <<p, gen[p] + 1>> \in Ids
  BY <1>3, ConstAssumption DEF NoId, Ids
<1>5. own' \in [Jobs -> Ids]
  BY <1>3, <1>4 DEF TypeOK, ControlOK
<1>6. Born(p)
  BY <1>2, <1>3 DEF Born
<1>7. TableStep
  BY <1>2, <1>6 DEF TableStep, host
<1>8. OwnStep
  BY <1>2, <1>3 DEF OwnStep
<1> QED
  BY <1>2, <1>3, <1>4, <1>5, <1>7, <1>8

\* Any other process is created.
LEMMA OtherBirths ==
  ASSUME TypeOK, NEW p \in Pids, FreePid(p), UNCHANGED <<host, own>>,
         NEW r \in [role : Roles, of : Jobs \cup {"-"}, pgid : Pids \cup {0}], Create(p, r),
         \/ r = Outside(p)
         \/ \E j \in Commands : /\ platform = "windows" /\ pc[j] = "idle" /\ pc'[j] = "keeper"
                                /\ r = Process("susp", j, 0)
         \/ \E j \in Commands : /\ platform = "posix" /\ pc[j] = "spawn" /\ pc'[j] = "child"
                                /\ r = Process("user", j, own[j][1])
         \/ \E q \in Pids : IsUser(q) /\ r = proc[q]
  PROVE  TableStep /\ OwnStep /\ TableOK' /\ proc'[p] = r /\ gen'[p] = gen[p] + 1
<1>1. /\ TableOK' /\ proc'[p] = r /\ gen'[p] = gen[p] + 1
      /\ \A q \in Pids \ {p} : Same(q)
  BY Births
<1>2. Born(p)
  BY <1>1 DEF Born
<1> QED
  BY <1>1, <1>2 DEF TableStep, OwnStep, host

\* Registration reclaims stale rows and inserts one.
LEMMA Registers ==
  ASSUME TypeOK, NEW j \in Jobs, NEW r \in Rows, Register(j, r)
  PROVE  /\ RowsOK' /\ rows'[j] = r
         /\ \A k \in Jobs \ {j} : \/ rows'[k] = rows[k]
                                  \/ rows'[k] = NoRow /\ Stale(k, rows[k])
<1>1. \A k \in Jobs : Cleaned[k] = IF Stale(k, rows[k]) THEN NoRow ELSE rows[k]
  BY DEF Cleaned
<1>2. NoRow \in Rows
  BY DEF NoRow, Rows, Ids
<1>3. Cleaned \in [Jobs -> Rows]
  BY <1>2 DEF Cleaned, TypeOK, RowsOK
<1>4. rows' = [Cleaned EXCEPT ![j] = r]
  BY DEF Register
<1> QED
  BY <1>1, <1>3, <1>4 DEF RowsOK

\* Taking a row away keeps the others.
LEMMA Drops ==
  ASSUME TypeOK, NEW j \in Jobs, Drop(j)
  PROVE  RowsOK' /\ rows'[j] = NoRow /\ \A k \in Jobs \ {j} : rows'[k] = rows[k]
<1>1. NoRow \in Rows
  BY DEF NoRow, Rows, Ids
<1> QED
  BY <1>1 DEF Drop, TypeOK, RowsOK

\* An observer moves and no process or row changes.
LEMMA QuietMove ==
  ASSUME TypeOK, PcInv, NEW j \in Commands, NEW l \in Labels, Go(j, l), <<pc[j], l>> \in Edges,
         UNCHANGED <<host, proc, gen, rows, own, kid, cancel, blind, query>>, faults' \in Nat,
         pc[j] # "register", l \notin {"keeper", "register"}, l = "unreg" => JobPids(j) = {},
         \/ l # "survivor" /\ next' = next
         \/ /\ l = "survivor" /\ platform = "posix"
            /\ \E p \in JobPids(j) : next' = [next EXCEPT ![j] = Id(p)]
  PROVE  Steps
<1>1. j \in Jobs /\ j \notin Ops /\ pc'[j] = l
  BY ConstAssumption DEF Jobs, Go, TypeOK, ControlOK
<1>2. next' \in [Jobs -> Ids] /\ (l = "survivor" => next'[j] # NoId)
  <2>1. CASE next' = next /\ l # "survivor"
    BY <2>1 DEF TypeOK, ControlOK
  <2>2. ASSUME NEW p \in JobPids(j), next' = [next EXCEPT ![j] = Id(p)]
        PROVE  next' \in [Jobs -> Ids] /\ next'[j] # NoId
    <3>1. Id(p) \in Ids /\ Id(p) # NoId
      BY ConstAssumption DEF JobPids, Live, Id, Ids, NoId, TypeOK, TableOK
    <3> QED
      BY <1>1, <2>2, <3>1 DEF TypeOK, ControlOK
  <2> QED
    BY <2>1, <2>2
<1>3. Entered(j)
  BY <1>1, <1>2 DEF Entered
<1>4. PcStep /\ EntryStep /\ pc' \in [Jobs -> Labels]
  BY <1>1, <1>3, Moves
<1>5. TableStep /\ OwnStep
  BY Quiet DEF host
<1>6. WitStep
  <2>1. \A k \in Jobs : kid'[k] = kid[k] /\ (k # j => next'[k] = next[k])
    BY DEF TypeOK, ControlOK
  <2>2. CASE next' = next
    BY <2>1, <2>2 DEF WitStep
  <2>3. ASSUME l = "survivor", platform = "posix", NEW p \in JobPids(j),
               next' = [next EXCEPT ![j] = Id(p)]
        PROVE  WitStep
    <3>1. pc[j] = "count"
      BY <2>3 DEF Edges
    <3>2. next'[j] = Id(p) /\ Same(p)
      BY <1>1, <2>3 DEF Same, TypeOK, ControlOK
    <3> QED
      BY <1>1, <2>1, <2>3, <3>1, <3>2 DEF WitStep
  <2> QED
    BY <2>2, <2>3
<1>7. RowStep /\ QueryStep
  BY DEF RowStep, QueryStep
<1>8. TypeOK'
  BY <1>2, <1>4 DEF TypeOK, TableOK, ControlOK, RowsOK, QueryOK, host
<1> QED
  BY <1>4, <1>5, <1>6, <1>7, <1>8 DEF Steps, Step

\* Waiting, counting and what only records where the observer is.
LEMMA WaitingSteps ==
  ASSUME TypeOK, PcInv, NEW j \in Commands,
         \/ WriteReady(j) \/ WaitGate(j) \/ Wait(j) \/ CountSurvivors(j) \/ CountFails(j)
         \/ WriteFails(j) \/ OpenGate(j)
  PROVE  Steps
<1>0. \A l \in {"gate", "spawn", "count", "unreg", "exit", "survivor", "wait"} : l \in Labels
  BY DEF Labels
<1>1. faults \in Nat /\ faults + 1 \in Nat
  BY DEF TypeOK, ControlOK
<1>2. CASE WriteReady(j)
  <2>1. pc[j] = "ready" /\ Go(j, "gate") /\ <<"ready", "gate">> \in Edges
    BY <1>2 DEF WriteReady, Edges
  <2> QED
    BY <1>0, <1>1, <1>2, <2>1, QuietMove DEF WriteReady, reg
<1>3. CASE WaitGate(j)
  <2>1. pc[j] = "gate" /\ Go(j, "spawn") /\ <<"gate", "spawn">> \in Edges
    BY <1>3 DEF WaitGate, Edges
  <2> QED
    BY <1>0, <1>1, <1>3, <2>1, QuietMove DEF WaitGate, reg
<1>4. CASE Wait(j)
  <2>1. pc[j] = "wait" /\ Go(j, "count") /\ <<"wait", "count">> \in Edges
    BY <1>4 DEF Wait, Edges
  <2> QED
    BY <1>0, <1>1, <1>4, <2>1, QuietMove DEF Wait, reg
<1>5. CASE CountSurvivors(j)
  <2>0. /\ pc[j] = "count" /\ faults' = faults
        /\ UNCHANGED <<host, proc, gen, rows, own, kid, cancel, blind, query>>
    BY <1>5 DEF CountSurvivors, reg
  <2>1. CASE JobPids(j) = {}
    <3>1. Go(j, "unreg") /\ next' = next /\ <<"count", "unreg">> \in Edges
      BY <1>5, <2>1 DEF CountSurvivors, Edges
    <3> QED
      BY <1>0, <1>1, <2>0, <2>1, <3>1, QuietMove
  <2>2. CASE JobPids(j) # {} /\ platform = "windows"
    <3>1. Go(j, "exit") /\ next' = next /\ <<"count", "exit">> \in Edges
      BY <1>5, <2>2 DEF CountSurvivors, Edges
    <3> QED
      BY <1>0, <1>1, <2>0, <3>1, QuietMove
  <2>3. CASE JobPids(j) # {} /\ platform # "windows"
    <3>1. /\ Go(j, "survivor") /\ <<"count", "survivor">> \in Edges
          /\ \E p \in JobPids(j) : next' = [next EXCEPT ![j] = Id(p)]
      BY <1>5, <2>3 DEF CountSurvivors, Edges
    <3>2. platform = "posix"
      BY <2>3 DEF TypeOK, TableOK
    <3> QED
      BY <1>0, <1>1, <2>0, <3>1, <3>2, QuietMove
  <2> QED
    BY <2>1, <2>2, <2>3
<1>6. CASE CountFails(j)
  <2>1. pc[j] = "count" /\ Go(j, "exit") /\ <<"count", "exit">> \in Edges
    BY <1>6 DEF CountFails, Edges
  <2> QED
    BY <1>0, <1>1, <1>6, <2>1, QuietMove DEF CountFails, reg, Fault
<1>7. CASE WriteFails(j)
  <2>0. /\ faults' \in Nat /\ next' = next
        /\ UNCHANGED <<host, proc, gen, rows, own, kid, cancel, blind, query>>
    BY <1>1, <1>7 DEF WriteFails, reg, Fault
  <2>1. CASE pc[j] \in {"unreg", "survivor"} /\ Go(j, "exit")
    <3>1. <<pc[j], "exit">> \in Edges
      BY <2>1 DEF Edges
    <3> QED
      BY <1>0, <2>0, <2>1, <3>1, QuietMove
  <2>2. CASE pc[j] = "child" /\ Go(j, "wait")
    <3>1. <<pc[j], "wait">> \in Edges
      BY <2>2 DEF Edges
    <3> QED
      BY <1>0, <2>0, <2>2, <3>1, QuietMove
  <2> QED
    BY <1>7, <2>1, <2>2 DEF WriteFails
<1>8. CASE OpenGate(j)
  <2>1. UNCHANGED <<host, proc, gen, rows, pc, own, kid, next, cancel, blind, query, faults>>
    BY <1>8 DEF OpenGate, reg
  <2>2. PcStep /\ EntryStep /\ TableStep /\ OwnStep
    BY <2>1, Stays, Quiet DEF host
  <2>3. WitStep /\ RowStep /\ QueryStep /\ TypeOK'
    BY <2>1 DEF WitStep, RowStep, QueryStep, TypeOK, TableOK, ControlOK, RowsOK, QueryOK, host
  <2> QED
    BY <2>2, <2>3 DEF Steps, Step
<1> QED
  BY <1>2, <1>3, <1>4, <1>5, <1>6, <1>7, <1>8

\* An observer or an operation moves and the registry is written.
LEMMA WritingMove ==
  ASSUME TypeOK, PcInv, NEW j \in Jobs, NEW l \in Labels, Go(j, l), <<pc[j], l>> \in Edges,
         UNCHANGED <<host, proc, gen, own, kid, next, cancel, query>>, faults' \in Nat,
         blind \subseteq blind', blind' \subseteq Jobs, RowsOK',
         j \in Commands => Entered(j),
         j \in Ops => l \in {"register", "wait", "over"} /\ own[j] # NoId,
         RowStep
  PROVE  Steps
<1>1. PcStep /\ EntryStep /\ pc' \in [Jobs -> Labels]
  BY Moves
<1>2. TableStep /\ OwnStep
  BY Quiet DEF host
<1>3. WitStep /\ QueryStep
  BY DEF WitStep, QueryStep
<1>4. TypeOK'
  BY <1>1 DEF TypeOK, TableOK, ControlOK, QueryOK, host
<1> QED
  BY <1>1, <1>2, <1>3, <1>4 DEF Steps, Step

\* An observer or an operation inserts its row.
LEMMA RegisterSteps ==
  ASSUME TypeOK, PcInv, NEW j \in Jobs,
         \/ j \in Commands /\ RegisterJob(j)
         \/ j \in Ops /\ OpRegisters(j)
  PROVE  Steps
<1>0. faults \in Nat /\ faults + 1 \in Nat /\ own[j] \in Ids /\ blind \subseteq Jobs /\ pc[j] \in Labels
  BY DEF TypeOK, ControlOK
<1>1. pc[j] = "register" /\ own[j] # NoId
  <2>1. pc[j] = "register"
    BY DEF RegisterJob, OpRegisters
  <2> QED
    BY <2>1 DEF PcInv, PcOK, OpOK, Running, Jobs
<1>2. CASE j \in Commands /\ RegisterJob(j)
  <2> DEFINE r == [kind |-> Kind, owner |-> own[j], wit |-> own[j]]
             l == IF j \in durable THEN "ready" ELSE "spawn"
  <2>1. r \in Rows /\ r.kind # "none"
    BY <1>0 DEF Rows, Kind
  <2>2. Register(j, r) /\ Go(j, l) /\ faults' = faults /\ blind' = blind
        /\ UNCHANGED <<host, proc, gen, own, kid, next, cancel, query>>
    BY <1>2 DEF RegisterJob
  <2>3. /\ RowsOK' /\ rows'[j] = r
        /\ \A k \in Jobs \ {j} : rows'[k] = rows[k] \/ (rows'[k] = NoRow /\ Stale(k, rows[k]))
    BY <2>1, <2>2, Registers
  <2>4. l \in Labels /\ <<pc[j], l>> \in Edges /\ l \notin {"idle", "keeper", "register"}
        /\ l \notin {"unreg", "survivor"} /\ pc'[j] = l
    BY <1>1, <2>2 DEF Labels, Edges, Go, TypeOK, ControlOK
  <2>5. rows'[j] # NoRow /\ j \notin Ops
    BY <1>2, <2>1, <2>3, ConstAssumption DEF NoRow
  <2>6. Entered(j)
    BY <2>4, <2>5 DEF Entered
  <2>7. RowStep
    BY <1>1, <2>3, <2>4, <2>5 DEF RowStep
  <2> QED
    BY <1>0, <2>2, <2>3, <2>4, <2>5, <2>6, <2>7, WritingMove
<1>3. CASE j \in Ops /\ OpRegisters(j)
  <2> DEFINE r == [kind |-> "op", owner |-> own[j], wit |-> own[j]]
  <2>1. r \in Rows /\ "wait" \in Labels /\ <<"register", "wait">> \in Edges
    BY <1>0 DEF Rows, Labels, Edges
  <2>2. Go(j, "wait") /\ UNCHANGED <<host, proc, gen, own, kid, next, cancel, query>>
        /\ faults' \in Nat /\ blind \subseteq blind' /\ blind' \subseteq Jobs /\ pc'[j] = "wait"
    BY <1>0, <1>3 DEF OpRegisters, Fault, Go, TypeOK, ControlOK
  <2>3. RowsOK' /\ RowStep
    <3>1. CASE Register(j, r)
      <4>1. /\ RowsOK' /\ rows'[j] = r
            /\ \A k \in Jobs \ {j} : rows'[k] = rows[k] \/ (rows'[k] = NoRow /\ Stale(k, rows[k]))
        BY <2>1, <3>1, Registers
      <4> QED
        BY <1>1, <1>3, <2>2, <4>1 DEF RowStep
    <3>2. CASE UNCHANGED rows
      BY <3>2 DEF RowStep, RowsOK, TypeOK
    <3> QED
      BY <1>3, <3>1, <3>2 DEF OpRegisters
  <2>4. j \notin Commands
    BY <1>3, ConstAssumption
  <2> QED
    BY <1>1, <2>1, <2>2, <2>3, <2>4, WritingMove
<1> QED
  BY <1>2, <1>3

\* Another witness is recorded for a job whose row is there.
LEMMA NewWitness ==
  ASSUME TypeOK, RowInv, PcInv, NEW j \in Commands, platform = "posix", pc[j] \in HoldsRow,
         NEW w \in Ids, Witness(j, w), pc'[j] \in Past,
         rows' = [rows EXCEPT ![j].wit = IF @ = NoId THEN NoId ELSE w]
  PROVE  RowsOK' /\ RowStep
<1>1. rows[j] # NoRow /\ rows[j] \in Rows /\ RowOK(j, rows[j]) /\ j \in Jobs
  BY DEF PcInv, PcOK, RowInv, TypeOK, RowsOK, Jobs
<1>2. rows[j].wit # NoId
  BY <1>1 DEF RowOK, Witness
<1>3. rows'[j] = [rows[j] EXCEPT !.wit = w]
  BY <1>1, <1>2 DEF TypeOK, RowsOK
<1>4. [rows[j] EXCEPT !.wit = w] \in Rows
  BY <1>1 DEF Rows
<1>5. \A k \in Jobs \ {j} : rows'[k] = rows[k]
  BY DEF TypeOK, RowsOK
<1>6. rows' \in [Jobs -> Rows]
  BY <1>1, <1>3, <1>4, <1>5 DEF TypeOK, RowsOK
<1>7. RowStep
  BY <1>1, <1>3, <1>5 DEF RowStep
<1> QED
  BY <1>6, <1>7 DEF RowsOK

\* The child, or a survivor, becomes the witness; or the row goes.
LEMMA RecordSteps ==
  ASSUME TypeOK, PcInv, WitInv, RowInv, NEW j \in Commands,
         RecordChild(j) \/ RecordSurvivor(j) \/ Unregister(j)
  PROVE  Steps
<1>0. j \in Jobs /\ j \notin Ops /\ faults \in Nat /\ blind \subseteq Jobs /\ rows[j] \in Rows
      /\ kid[j] \in Ids /\ next[j] \in Ids
  BY ConstAssumption DEF Jobs, TypeOK, ControlOK, RowsOK
<1>1. CASE RecordChild(j)
  <2>1. /\ pc[j] = "child" /\ Go(j, "wait") /\ faults' \in Nat /\ blind' = blind
        /\ UNCHANGED <<host, proc, gen, own, kid, next, cancel, query>>
    BY <1>0, <1>1 DEF RecordChild, Fault
  <2>2. "wait" \in Labels /\ <<pc[j], "wait">> \in Edges /\ pc'[j] = "wait"
    BY <1>0, <2>1 DEF Labels, Edges, Go, TypeOK, ControlOK
  <2>3. RowsOK' /\ RowStep
    <3>1. CASE /\ platform = "posix" /\ IdState(kid[j]) = "match"
               /\ rows' = [rows EXCEPT ![j].wit = IF @ = NoId THEN NoId ELSE kid[j]]
      <4>1. kid[j] # NoId
        BY <3>1, ConstAssumption DEF IdState, NoId, Live
      <4>2. Witness(j, kid[j])
        BY <1>0, <3>1, <4>1 DEF WitInv, KidOK
      <4> QED
        BY <1>0, <2>1, <2>2, <3>1, <4>2, NewWitness DEF HoldsRow, Past
    <3>2. CASE rows' = rows
      BY <3>2 DEF RowStep, RowsOK, TypeOK
    <3> QED
      BY <1>1, <3>1, <3>2 DEF RecordChild
  <2>4. Entered(j)
    BY <2>1, <2>2 DEF Entered
  <2> QED
    BY <1>0, <2>1, <2>2, <2>3, <2>4, WritingMove
<1>2. CASE RecordSurvivor(j)
  <2>1. /\ pc[j] = "survivor" /\ Go(j, "exit") /\ faults' = faults /\ blind' = blind
        /\ UNCHANGED <<host, proc, gen, own, kid, next, cancel, query>>
        /\ rows' = [rows EXCEPT ![j].wit = IF @ = NoId THEN NoId ELSE next[j]]
    BY <1>2 DEF RecordSurvivor
  <2>2. "exit" \in Labels /\ <<pc[j], "exit">> \in Edges /\ pc'[j] = "exit"
    BY <1>0, <2>1 DEF Labels, Edges, Go, TypeOK, ControlOK
  <2>3. platform = "posix" /\ Witness(j, next[j])
    BY <1>0, <2>1 DEF PcInv, PcOK, WitInv, NextOK
  <2>4. RowsOK' /\ RowStep
    BY <1>0, <2>1, <2>2, <2>3, NewWitness DEF HoldsRow, Past
  <2>5. Entered(j)
    BY <2>1, <2>2 DEF Entered
  <2> QED
    BY <1>0, <2>1, <2>2, <2>4, <2>5, WritingMove
<1>3. CASE Unregister(j)
  <2>1. /\ pc[j] = "unreg" /\ Go(j, "exit") /\ faults' = faults /\ blind' = blind /\ Drop(j)
        /\ UNCHANGED <<host, proc, gen, own, kid, next, cancel, query>>
    BY <1>3 DEF Unregister
  <2>2. "exit" \in Labels /\ <<pc[j], "exit">> \in Edges /\ pc'[j] = "exit"
    BY <1>0, <2>1 DEF Labels, Edges, Go, TypeOK, ControlOK
  <2>3. RowsOK' /\ rows'[j] = NoRow /\ \A k \in Jobs \ {j} : rows'[k] = rows[k]
    BY <1>0, <2>1, Drops
  <2>4. RowStep
    BY <2>1, <2>2, <2>3 DEF RowStep
  <2>5. Entered(j)
    BY <2>1, <2>2 DEF Entered
  <2> QED
    BY <1>0, <2>1, <2>2, <2>3, <2>4, <2>5, WritingMove
<1> QED
  BY <1>1, <1>2, <1>3

\* An observer or an operation moves while processes come or go.
LEMMA TableMove ==
  ASSUME TypeOK, PcInv, NEW j \in Jobs, NEW l \in Labels, Go(j, l),
         l = "over" \/ <<pc[j], l>> \in Edges,
         TableStep, OwnStep, TableOK', own' \in [Jobs -> Ids], UNCHANGED <<cancel, query>>,
         \A k \in Jobs \ {j} : own'[k] = own[k],
         kid' \in [Jobs -> Ids], next' \in [Jobs -> Ids], faults' \in Nat,
         blind \subseteq blind', blind' \subseteq Jobs, RowsOK',
         j \in Commands => Entered(j),
         j \in Ops => l \in {"register", "wait", "over"} /\ own'[j] # NoId,
         WitStep, RowStep
  PROVE  Steps
<1>1. PcStep /\ EntryStep /\ pc' \in [Jobs -> Labels]
  BY Moves
<1>2. QueryStep
  BY DEF QueryStep
<1>3. TypeOK'
  BY <1>1 DEF TypeOK, ControlOK, QueryOK
<1> QED
  BY <1>1, <1>2, <1>3 DEF Steps, Step

\* An observer, a keeper or an operation starts.
LEMMA OwnSteps ==
  ASSUME TypeOK, PcInv, NEW j \in Jobs,
         \/ j \in Commands /\ (OwnGroup(j) \/ CreateKeeper(j))
         \/ j \in Ops /\ OpStarts(j)
  PROVE  Steps
<1>1. own[j] = NoId /\ pc[j] \in {"idle", "keeper"}
  <2>1. CASE j \in Commands
    BY <2>1, ConstAssumption DEF OwnGroup, CreateKeeper, OpStarts, PcInv, PcOK
  <2>2. CASE j \in Ops
    BY <2>2, ConstAssumption DEF OwnGroup, CreateKeeper, OpStarts, PcInv, OpOK
  <2> QED
    BY <2>1, <2>2 DEF Jobs
<1>2. PICK p \in Pids : /\ FreePid(p) /\ Create(p, OwnProcess(j, p))
                        /\ own' = [own EXCEPT ![j] = <<p, gen[p] + 1>>]
  <2>1. CASE j \in Commands /\ OwnGroup(j)
    BY <2>1, ConstAssumption DEF OwnGroup, OwnProcess
  <2>2. CASE j \in Commands /\ CreateKeeper(j)
    <3>1. platform = "windows"
      BY <2>2 DEF PcInv, PcOK, CreateKeeper
    <3> QED
      BY <2>2, <3>1, ConstAssumption DEF CreateKeeper, OwnProcess
  <2>3. CASE j \in Ops /\ OpStarts(j)
    BY <2>3 DEF OpStarts, OwnProcess
  <2> QED
    BY <2>1, <2>2, <2>3
<1>3. /\ UNCHANGED <<host, rows, kid, next, cancel, blind, query, faults>> /\ Go(j, "register")
  BY DEF OwnGroup, CreateKeeper, OpStarts
<1>4. TableStep /\ OwnStep /\ TableOK' /\ own' \in [Jobs -> Ids] /\ own'[j] # NoId
      /\ \A k \in Jobs \ {j} : own'[k] = own[k]
  BY <1>1, <1>2, <1>3, OwnBirths
<1>5. "register" \in Labels /\ <<pc[j], "register">> \in Edges /\ pc'[j] = "register"
  BY <1>1, <1>3 DEF Labels, Edges, Go, TypeOK, ControlOK
<1>6. Entered(j)
  BY <1>1, <1>4, <1>5 DEF Entered
<1>7. WitStep /\ RowStep /\ RowsOK'
  BY <1>3 DEF WitStep, RowStep, RowsOK, TypeOK
<1>8. kid' \in [Jobs -> Ids] /\ next' \in [Jobs -> Ids] /\ faults' \in Nat /\ blind' \subseteq Jobs
      /\ blind \subseteq blind'
  BY <1>3 DEF TypeOK, ControlOK
<1> QED
  BY <1>3, <1>4, <1>5, <1>6, <1>7, <1>8, TableMove

\* The command is created, suspended or in the observer's group.
LEMMA KidSteps ==
  ASSUME TypeOK, PcInv, NEW j \in Commands, CreateSuspended(j) \/ Popen(j)
  PROVE  Steps
<1>0. j \in Jobs /\ j \notin Ops
  BY ConstAssumption DEF Jobs
<1> DEFINE l == IF platform = "posix" THEN "child" ELSE "keeper"
           r == IF platform = "posix" THEN Process("user", j, own[j][1]) ELSE Process("susp", j, 0)
<1>1. PICK p \in Pids : FreePid(p) /\ Create(p, r) /\ kid' = [kid EXCEPT ![j] = <<p, gen[p] + 1>>]
  BY DEF CreateSuspended, Popen
<1>2. /\ UNCHANGED <<host, own, rows, next, cancel, blind, query, faults>> /\ Go(j, l)
      /\ pc[j] = IF platform = "posix" THEN "spawn" ELSE "idle"
      /\ platform \in {"posix", "windows"}
  BY DEF CreateSuspended, Popen
<1>3. l \in Labels /\ <<pc[j], l>> \in Edges /\ pc'[j] = l
  BY <1>0, <1>2 DEF Labels, Edges, Go, TypeOK, ControlOK
<1>4. r \in [role : Roles, of : Jobs \cup {"-"}, pgid : Pids \cup {0}]
  <2>1. own[j][1] \in Pids \cup {0}
    BY <1>0 DEF TypeOK, ControlOK, Ids, NoId
  <2> QED
    BY <1>0, <2>1 DEF Process, Roles
<1>5. TableStep /\ OwnStep /\ TableOK' /\ proc'[p] = r /\ gen'[p] = gen[p] + 1
  BY <1>1, <1>2, <1>3, <1>4, OtherBirths
<1>6. Entered(j)
  BY <1>2, <1>3 DEF Entered
<1>7. gen[p] \in Nat /\ <<p, gen[p] + 1>> \in Ids
  BY DEF TypeOK, TableOK, Ids
<1>8. kid' \in [Jobs -> Ids] /\ kid'[j] = <<p, gen[p] + 1>> /\ \A k \in Jobs \ {j} : kid'[k] = kid[k]
  BY <1>0, <1>1, <1>7 DEF TypeOK, ControlOK
<1>9. WitStep
  <2>1. \A k \in Jobs : next'[k] = next[k]
    BY <1>2
  <2> QED
    BY <1>0, <1>1, <1>2, <1>5, <1>8, <2>1 DEF WitStep
<1>10. RowStep /\ RowsOK' /\ next' \in [Jobs -> Ids] /\ faults' \in Nat /\ blind' \subseteq Jobs
       /\ blind \subseteq blind' /\ own' \in [Jobs -> Ids] /\ \A k \in Jobs \ {j} : own'[k] = own[k]
  BY <1>2 DEF RowStep, RowsOK, TypeOK, ControlOK
<1> QED
  BY <1>0, <1>2, <1>3, <1>5, <1>6, <1>8, <1>9, <1>10, TableMove

\* A process outside the job's group, or a fork of a member.
LEMMA OtherSteps ==
  ASSUME TypeOK, PcInv, NEW p \in Pids, Fork(p) \/ Stranger(p)
  PROVE  Steps
<1>1. UNCHANGED <<host, rows, pc, own, kid, next, gate, cancel, blind, query, faults>>
  BY DEF Fork, Stranger
<1>2. TableStep /\ OwnStep /\ TableOK'
  <2>1. CASE Fork(p)
    <3>1. PICK c \in Pids : IsUser(p) /\ FreePid(c) /\ Create(c, proc[p])
      BY <2>1 DEF Fork
    <3>2. proc[p] \in [role : Roles, of : Jobs \cup {"-"}, pgid : Pids \cup {0}]
      BY DEF TypeOK, TableOK
    <3> QED
      BY <1>1, <3>1, <3>2, OtherBirths
  <2>2. CASE Stranger(p)
    <3>1. Outside(p) \in [role : Roles, of : Jobs \cup {"-"}, pgid : Pids \cup {0}]
      BY DEF Outside, Process, Roles
    <3> QED
      BY <1>1, <2>2, <3>1, OtherBirths DEF Stranger
  <2> QED
    BY <2>1, <2>2
<1>3. PcStep /\ EntryStep
  BY <1>1, Stays
<1>4. WitStep /\ RowStep /\ QueryStep /\ RowsOK' /\ ControlOK' /\ QueryOK'
  BY <1>1 DEF WitStep, RowStep, QueryStep, TypeOK, ControlOK, RowsOK, QueryOK
<1> QED
  BY <1>2, <1>3, <1>4 DEF Steps, Step, TypeOK

\* What an ending observer or a failed start may kill.
LEMMA MayKill ==
  ASSUME TypeOK, NEW j \in Jobs, NEW p \in Pids, p \in Abandoned(j), pc'[j] = "over"
  PROVE  \/ proc[p].role # "observer"
         \/ \E k \in Jobs : own[k] = Id(p) /\ pc'[k] = "over"
<1>1. CASE p \in Pid(own[j])
  <2>1. own[j] # NoId /\ gen[own[j][1]] = own[j][2] /\ p = own[j][1]
    BY <1>1 DEF Pid
  <2>2. own[j] \in Pids \X Nat
    BY <2>1 DEF TypeOK, ControlOK, Ids
  <2>3. own[j] = Id(p)
    BY <2>1, <2>2 DEF Id
  <2> QED
    BY <2>3
<1>2. CASE proc[p].role = "susp"
  BY <1>2
<1> QED
  BY <1>1, <1>2 DEF Abandoned

\* An observer ends, or is killed, or gives the start up.
LEMMA EndMove ==
  ASSUME TypeOK, PcInv, NEW j \in Jobs, Go(j, "over"), TableStep, OwnStep, TableOK',
         UNCHANGED <<own, cancel, query>>,
         \/ UNCHANGED <<kid, next>>
         \/ kid' = [kid EXCEPT ![j] = NoId] /\ next' = [next EXCEPT ![j] = NoId],
         faults' \in Nat, blind \subseteq blind', blind' \subseteq Jobs, j \in Ops => own[j] # NoId,
         \/ UNCHANGED rows
         \/ Drop(j) /\ (pc[j] \in PreSpawn \/ j \in blind' \/ j \in Ops)
  PROVE  Steps
<1>1. "over" \in Labels /\ pc'[j] = "over" /\ own' \in [Jobs -> Ids]
  BY DEF Labels, Go, TypeOK, ControlOK
<1>2. /\ kid' \in [Jobs -> Ids] /\ next' \in [Jobs -> Ids]
      /\ \A k \in Jobs : \/ kid'[k] = kid[k] /\ next'[k] = next[k]
                         \/ kid'[k] = NoId /\ next'[k] = NoId /\ k = j
  <2>1. NoId \in Ids
    BY DEF Ids
  <2> QED
    BY <2>1 DEF TypeOK, ControlOK
<1>3. WitStep
  BY <1>1, <1>2 DEF WitStep
<1>4. RowsOK' /\ RowStep
  <2>1. CASE UNCHANGED rows
    BY <2>1 DEF RowStep, RowsOK, TypeOK
  <2>2. CASE Drop(j) /\ (pc[j] \in PreSpawn \/ j \in blind' \/ j \in Ops)
    BY <1>1, <2>2, Drops DEF RowStep
  <2> QED
    BY <2>1, <2>2
<1>5. Entered(j)
  BY <1>1 DEF Entered
<1>6. j \in Ops => "over" \in {"register", "wait", "over"} /\ own'[j] # NoId
  OBVIOUS
<1> QED
  BY <1>1, <1>2, <1>3, <1>4, <1>5, <1>6, TableMove

\* Failed starts, exits and kills of observers, and the end of an operation.
LEMMA EndSteps ==
  ASSUME TypeOK, PcInv, WitInv, NEW j \in Jobs,
         \/ j \in Commands /\ (StartFails(j) \/ ChildUnseen(j) \/ Exit(j) \/ Killed(j))
         \/ j \in Ops /\ OpEnds(j)
  PROVE  Steps
<1>0. faults \in Nat /\ faults + 1 \in Nat /\ blind \subseteq Jobs
  BY DEF TypeOK, ControlOK
<1>1. /\ Go(j, "over") /\ UNCHANGED <<host, gen, own, cancel, query>>
      /\ faults' \in Nat /\ blind \subseteq blind' /\ blind' \subseteq Jobs
  BY <1>0 DEF StartFails, ChildUnseen, Exit, Killed, OpEnds, Gone, Fault, reg
<1>2. pc'[j] = "over"
  BY <1>1 DEF Go, TypeOK, ControlOK
<1>3. \/ proc' = Without(Abandoned(j))
      \/ proc' = Without(Pid(own[j]))
      \/ platform = "posix" /\ proc' = Without(Pid(own[j]) \cup Pid(kid[j]))
      \/ proc' = proc
  BY DEF StartFails, ChildUnseen, Exit, Killed, OpEnds, Gone
<1>4. TableStep /\ OwnStep /\ TableOK'
  <2>1. CASE proc' = Without(Abandoned(j))
    <3>1. \A p \in Pids \cap Abandoned(j) :
            \/ proc[p].role # "observer" \/ \E k \in Jobs : own[k] = Id(p) /\ pc'[k] = "over"
      BY <1>2, MayKill
    <3> QED
      BY <1>1, <2>1, <3>1, Kills
  <2>2. CASE proc' = Without(Pid(own[j]))
    <3>1. \A p \in Pids \cap Pid(own[j]) :
            \/ proc[p].role # "observer" \/ \E k \in Jobs : own[k] = Id(p) /\ pc'[k] = "over"
      BY <1>2, MayKill DEF Abandoned
    <3> QED
      BY <1>1, <2>2, <3>1, Kills
  <2>3. CASE platform = "posix" /\ proc' = Without(Pid(own[j]) \cup Pid(kid[j]))
    <3>1. ASSUME NEW p \in Pids, p \in Pid(kid[j]) PROVE proc[p].role # "observer"
      <4>1. kid[j] # NoId /\ p = kid[j][1] /\ kid[j][2] = gen[p]
        BY <3>1 DEF Pid
      <4>2. proc[p] \in {NoProc, Process("user", j, own[j][1]), Outside(p)}
        BY <2>3, <4>1 DEF WitInv, KidOK, Witness
      <4> QED
        BY <4>2 DEF NoProc, Process, Outside
    <3>2. \A p \in Pids \cap (Pid(own[j]) \cup Pid(kid[j])) :
            \/ proc[p].role # "observer" \/ \E k \in Jobs : own[k] = Id(p) /\ pc'[k] = "over"
      BY <1>2, <3>1, MayKill DEF Abandoned
    <3> QED
      BY <1>1, <2>3, <3>2, Kills
  <2>4. CASE proc' = proc
    BY <1>1, <2>4, Quiet DEF TypeOK, TableOK, host
  <2> QED
    BY <1>3, <2>1, <2>2, <2>3, <2>4
<1>5. \/ UNCHANGED <<kid, next>>
      \/ kid' = [kid EXCEPT ![j] = NoId] /\ next' = [next EXCEPT ![j] = NoId]
  BY DEF StartFails, ChildUnseen, Exit, Killed, OpEnds, Gone
<1>6. j \in Ops => own[j] # NoId
  BY ConstAssumption DEF OpEnds, PcInv, OpOK
<1>7. \/ UNCHANGED rows
      \/ Drop(j) /\ (pc[j] \in PreSpawn \/ j \in blind' \/ j \in Ops)
  <2>1. CASE StartFails(j)
    BY <2>1 DEF StartFails, PreSpawn
  <2>2. CASE ChildUnseen(j)
    BY <2>2 DEF ChildUnseen
  <2>3. CASE Exit(j) \/ Killed(j)
    BY <2>3 DEF Exit, Killed, reg
  <2>4. CASE j \in Ops /\ OpEnds(j)
    BY <2>4 DEF OpEnds
  <2> QED
    BY <2>1, <2>2, <2>3, <2>4
<1> QED
  BY <1>1, <1>4, <1>5, <1>6, <1>7, EndMove

\* The command runs without an observer, or with a ready file not at all.
LEMMA UnobservedSteps ==
  ASSUME TypeOK, PcInv, NEW j \in Commands, Fallback(j) \/ KeeperFails(j) \/ RegisterFails(j)
  PROVE  Steps
<1>0. j \in Jobs /\ j \notin Ops /\ faults \in Nat /\ faults + 1 \in Nat /\ blind \subseteq Jobs
  BY ConstAssumption DEF Jobs, TypeOK, ControlOK
<1>1. /\ Go(j, "over") /\ UNCHANGED <<host, rows, own, kid, next, cancel, blind, query>>
      /\ faults' \in Nat
  BY <1>0 DEF Fallback, KeeperFails, RegisterFails, Unobserved, Fault
<1>2. pc'[j] = "over"
  BY <1>0, <1>1 DEF Go, TypeOK, ControlOK
<1>3. \A p \in Pids : Outside(p) \in [role : Roles, of : Jobs \cup {"-"}, pgid : Pids \cup {0}]
  BY DEF Outside, Process, Roles
<1>4. TableStep /\ OwnStep /\ TableOK'
  <2>1. CASE Fallback(j)
    BY <1>1, <1>3, <2>1, OtherBirths DEF Fallback
  <2>2. CASE Unobserved(j) /\ j \in durable
    <3>1. proc' = Without(Abandoned(j)) /\ gen' = gen
      BY <2>2 DEF Unobserved
    <3>2. \A p \in Pids \cap Abandoned(j) :
            \/ proc[p].role # "observer" \/ \E k \in Jobs : own[k] = Id(p) /\ pc'[k] = "over"
      BY <1>0, <1>2, MayKill
    <3> QED
      BY <1>1, <3>1, <3>2, Kills
  <2>3. CASE Unobserved(j) /\ j \notin durable
    <3>1. PICK p \in Pids : /\ FreePid(p) /\ gen' = [gen EXCEPT ![p] = @ + 1]
                            /\ proc' = [Without(Abandoned(j)) EXCEPT ![p] = Outside(p)]
      BY <2>3 DEF Unobserved
    <3>2. \A q \in Pids \ {p} : /\ gen'[q] = gen[q]
                                /\ proc'[q] = IF q \in Abandoned(j) THEN NoProc ELSE proc[q]
      BY <3>1 DEF Without, TypeOK, TableOK
    <3>3. gen'[p] = gen[p] + 1 /\ proc'[p] = Outside(p)
      BY <3>1 DEF Without, TypeOK, TableOK
    <3>4. NoProc \in [role : Roles, of : Jobs \cup {"-"}, pgid : Pids \cup {0}]
      BY DEF NoProc, Roles
    <3>5. Without(Abandoned(j)) \in [Pids -> [role : Roles, of : Jobs \cup {"-"}, pgid : Pids \cup {0}]]
      BY <3>4 DEF Without, TypeOK, TableOK
    <3>6. TableOK'
      BY <1>1, <1>3, <3>1, <3>5 DEF TypeOK, TableOK, host
    <3>7. Born(p)
      BY <3>1, <3>3 DEF Born
    <3>8. \A q \in Pids \ {p} : Same(q) \/ Dies(q)
      BY <1>0, <1>2, <3>2, MayKill DEF Same, Dies
    <3> QED
      BY <1>1, <3>6, <3>7, <3>8 DEF TableStep, OwnStep, host
  <2> QED
    BY <2>1, <2>2, <2>3 DEF KeeperFails, RegisterFails
<1> QED
  BY <1>0, <1>1, <1>4, EndMove

\* Keepers and user processes end; a user process leaves its group.
LEMMA ProcessSteps ==
  ASSUME TypeOK, PcInv, IdInv, NEW p \in Pids,
         KeeperEnds(p) \/ KeeperKilled(p) \/ Ends(p) \/ Leaves(p)
  PROVE  Steps
<1>0. faults \in Nat /\ faults + 1 \in Nat
  BY DEF TypeOK, ControlOK
<1>1. /\ UNCHANGED <<host, gen, pc, own, kid, next, cancel, blind, query>> /\ faults' \in Nat
  BY <1>0 DEF KeeperEnds, KeeperKilled, Ends, Leaves, reg, Fault
<1>2. TableStep /\ OwnStep /\ TableOK'
  <2>1. CASE KeeperEnds(p) \/ KeeperKilled(p) \/ Ends(p)
    <3>1. proc' = Without({p}) /\ proc[p].role # "observer"
      BY <2>1 DEF KeeperEnds, KeeperKilled, Ends, IsKeeper, IsUser
    <3> QED
      BY <1>1, <3>1, Kills
  <2>2. CASE Leaves(p)
    <3>1. IsUser(p) /\ proc' = [proc EXCEPT ![p] = Outside(p)]
      BY <2>2 DEF Leaves
    <3>2. Outside(p) \in [role : Roles, of : Jobs \cup {"-"}, pgid : Pids \cup {0}]
      BY DEF Outside, Process, Roles
    <3>3. TableOK'
      BY <1>1, <3>1, <3>2 DEF TypeOK, TableOK, host
    <3>4. Departs(p) /\ \A q \in Pids \ {p} : Same(q)
      BY <1>1, <3>1 DEF Departs, Same, TypeOK, TableOK
    <3> QED
      BY <1>1, <3>3, <3>4 DEF TableStep, OwnStep, host
  <2> QED
    BY <2>1, <2>2
<1>3. RowsOK' /\ RowStep
  <2>1. CASE UNCHANGED rows
    BY <2>1 DEF RowStep, RowsOK, TypeOK
  <2>2. CASE KeeperEnds(p) /\ Drop(proc[p].of)
    <3>1. ProcOK(p) /\ proc[p].role = "keeper"
      BY <2>2 DEF IdInv, KeeperEnds, IsKeeper
    <3>2. platform = "windows" /\ proc[p].of \in Jobs /\ JobPids(proc[p].of) = {}
      BY <2>2, <3>1 DEF ProcOK, KeeperEnds, Jobs
    <3> QED
      BY <2>2, <3>2, Drops DEF RowStep
  <2> QED
    BY <2>1, <2>2 DEF KeeperEnds, KeeperKilled, Ends, Leaves, reg
<1>4. PcStep /\ EntryStep
  BY <1>1, Stays
<1>5. WitStep /\ QueryStep /\ ControlOK' /\ QueryOK'
  BY <1>1 DEF WitStep, QueryStep, TypeOK, ControlOK, QueryOK
<1> QED
  BY <1>2, <1>3, <1>4, <1>5 DEF Steps, Step, TypeOK

\* The suspended command is resumed, unless it was terminated meanwhile.
LEMMA ResumeSteps ==
  ASSUME TypeOK, PcInv, WitInv, NEW j \in Commands, Resume(j)
  PROVE  Steps
<1>0. j \in Jobs /\ j \notin Ops /\ kid[j] \in Ids
  BY ConstAssumption DEF Jobs, TypeOK, ControlOK
<1>1. /\ platform = "windows" /\ pc[j] = "spawn" /\ Go(j, "child")
      /\ UNCHANGED <<host, rows, gen, own, kid, next, gate, cancel, blind, query, faults>>
  BY DEF Resume, reg
<1>2. "child" \in Labels /\ <<pc[j], "child">> \in Edges /\ pc'[j] = "child"
  BY <1>0, <1>1 DEF Labels, Edges, Go, TypeOK, ControlOK
<1>3. TableStep /\ OwnStep /\ TableOK'
  <2>1. CASE UNCHANGED proc
    BY <1>1, <2>1, Quiet DEF TypeOK, TableOK, host
  <2>2. ASSUME NEW p \in Pid(kid[j]), proc[p].role = "susp",
               proc' = [proc EXCEPT ![kid[j][1]].role = "user"]
        PROVE  TableStep /\ OwnStep /\ TableOK'
    <3>1. kid[j] # NoId /\ p = kid[j][1] /\ gen[p] = kid[j][2]
      BY <2>2 DEF Pid
    <3>2. p \in Pids
      BY <1>0, <3>1 DEF Ids
    <3>3. proc[p].of = j
      BY <1>0, <2>2, <3>1 DEF WitInv, KidOK
    <3>4. proc[p] \in [role : Roles, of : Jobs \cup {"-"}, pgid : Pids \cup {0}]
      BY <3>2 DEF TypeOK, TableOK
    <3>5. [proc[p] EXCEPT !.role = "user"] = Process("user", j, proc[p].pgid)
      BY <3>3, <3>4 DEF Process
    <3>6. Process("user", j, proc[p].pgid) \in [role : Roles, of : Jobs \cup {"-"}, pgid : Pids \cup {0}]
      BY <1>0, <3>4 DEF Process, Roles
    <3>7. proc' = [proc EXCEPT ![p] = Process("user", j, proc[p].pgid)]
      BY <2>2, <3>1, <3>5
    <3>8. TableOK'
      BY <1>1, <3>2, <3>6, <3>7 DEF TypeOK, TableOK, host
    <3>9. Resumed(p) /\ \A q \in Pids \ {p} : Same(q)
      BY <1>1, <1>2, <2>2, <3>2, <3>3, <3>7 DEF Resumed, Same, TypeOK, TableOK
    <3> QED
      BY <1>1, <3>8, <3>9 DEF TableStep, OwnStep, host
  <2> QED
    BY <2>1, <2>2 DEF Resume
<1>4. Entered(j)
  BY <1>1, <1>2 DEF Entered
<1>5. WitStep /\ RowStep /\ RowsOK'
  BY <1>1 DEF WitStep, RowStep, RowsOK, TypeOK
<1>6. kid' \in [Jobs -> Ids] /\ next' \in [Jobs -> Ids] /\ faults' \in Nat /\ blind' \subseteq Jobs
      /\ blind \subseteq blind' /\ own' \in [Jobs -> Ids] /\ \A k \in Jobs \ {j} : own'[k] = own[k]
  BY <1>1 DEF TypeOK, ControlOK
<1> QED
  BY <1>0, <1>1, <1>2, <1>3, <1>4, <1>5, <1>6, TableMove

\* A cancellation reads the registry, terminates the Job, and sees it empty.
LEMMA CancelSteps ==
  ASSUME TypeOK, PcInv, NEW j \in Commands, Cancel(j)
  PROVE  Steps
<1>1. UNCHANGED <<host, rows, gen, pc, own, kid, next, gate, blind, query, faults>>
  BY DEF Cancel, CancelOpen, CancelTerminate, CancelConfirm, Kept, reg
<1>2. PICK s \in {"open", "killed", "cancelled", "refused"} :
        cancel' = [cancel EXCEPT ![j] = s] /\ (s = "cancelled" => JobPids(j) = {})
  BY DEF Cancel, CancelOpen, CancelTerminate, CancelConfirm, Cancelling
<1>3. platform = "windows" /\ pc[j] # "idle"
  BY DEF Cancel, CancelOpen, CancelTerminate, CancelConfirm, PcInv, PcOK
<1>4. TableStep /\ OwnStep /\ TableOK'
  <2>1. CASE proc' = proc
    BY <1>1, <2>1, Quiet DEF TypeOK, TableOK, host
  <2>2. CASE proc' = Without(JobPids(j))
    <3>1. \A p \in Pids \cap JobPids(j) : proc[p].role # "observer"
      BY DEF JobPids
    <3> QED
      BY <1>1, <2>2, <3>1, Kills
  <2> QED
    BY <2>1, <2>2 DEF Cancel, CancelOpen, CancelTerminate, CancelConfirm
<1>5. PcStep
  BY <1>1 DEF PcStep
<1>6. j \in Jobs /\ cancel' \in [Jobs -> {"none", "open", "killed", "cancelled", "refused"}]
      /\ cancel'[j] = s /\ \A k \in Jobs \ {j} : cancel'[k] = cancel[k]
  BY <1>2 DEF TypeOK, ControlOK, Jobs
<1>7. EntryStep
  <2>1. \A k \in Commands : Entered(k)
    BY <1>1 DEF Entered
  <2>2. \A k \in Ops : /\ pc'[k] \in {"idle", "register", "wait", "over"}
                       /\ pc'[k] = "idle" <=> own'[k] = NoId
    BY <1>1 DEF PcInv, OpOK
  <2>3. \A k \in Commands : k # j => cancel'[k] = cancel[k]
    BY <1>6 DEF Jobs
  <2> QED
    BY <1>1, <1>2, <1>3, <1>6, <2>1, <2>2, <2>3 DEF EntryStep
<1>8. WitStep /\ RowStep /\ QueryStep /\ RowsOK' /\ QueryOK' /\ ControlOK'
  BY <1>1, <1>6 DEF WitStep, RowStep, QueryStep, TypeOK, ControlOK, RowsOK, QueryOK
<1> QED
  BY <1>4, <1>5, <1>7, <1>8 DEF Steps, Step, TypeOK

\* The query only reads.
LEMMA QuerySteps ==
  ASSUME TypeOK, PcInv, Query
  PROVE  Steps
<1>1. UNCHANGED <<host, proc, rows, gen, pc, own, kid, next, gate, cancel, blind>>
  BY DEF Query, ReadRecords, FirstSnapshot, SecondSnapshot, QueryFails, Answered, Rest, reg
<1>2. faults' \in Nat
  BY DEF Query, ReadRecords, FirstSnapshot, SecondSnapshot, QueryFails, Answered, Fault, TypeOK,
         ControlOK
<1>3. NoRow \in Rows /\ Idle \in [pc : {"idle", "first", "second", "done"}, rows : [Jobs -> Rows],
                      first : SUBSET Jobs, unknown : SUBSET Jobs, running : SUBSET Jobs,
                      status : {"none", "ok", "unknown"}]
  <2>1. NoRow \in Rows
    BY DEF NoRow, Rows, Ids
  <2>2. [j \in Jobs |-> NoRow] \in [Jobs -> Rows]
    BY <2>1
  <2> QED
    BY <2>1, <2>2 DEF Idle
<1>4. \A S \in SUBSET Jobs : \A x : Asked(S, x) \subseteq Jobs
  BY DEF Asked
<1>5. QueryOK' /\ (\A j \in Jobs : query'.rows[j] \in {rows[j], query.rows[j], NoRow})
      /\ (query'.pc = "second" => FirstSnapshot)
      /\ \/ query'.pc = "done" \/ query'.running = {}
         \/ query.pc # "done" /\ query'.running = query.running
  <2>1. CASE ReadRecords
    <3>1. query' = [Idle EXCEPT !.pc = "first", !.rows = rows]
      BY <2>1 DEF ReadRecords
    <3>2. query'.pc = "first" /\ query'.rows = rows /\ query'.running = {}
      BY <3>1 DEF Idle
    <3>3. QueryOK'
      BY <1>3, <3>1 DEF QueryOK, TypeOK, RowsOK
    <3> QED
      BY <3>2, <3>3
  <2>2. CASE FirstSnapshot
    <3>1. query'.rows = query.rows /\ QueryOK' /\ query'.running = query.running
          /\ query.pc = "first"
      BY <1>4, <2>2 DEF FirstSnapshot, UnknownRows, TypeOK, QueryOK
    <3> QED
      BY <2>2, <3>1
  <2>3. CASE SecondSnapshot
    <3>1. query.first \subseteq Jobs /\ query.unknown \subseteq Jobs
      BY DEF TypeOK, QueryOK
    <3>2. query'.rows = query.rows /\ query'.pc = "done" /\ QueryOK'
      BY <1>4, <2>3, <3>1 DEF SecondSnapshot, UnknownRows, RunningRows, TypeOK, QueryOK
    <3> QED
      BY <3>2
  <2>4. CASE QueryFails
    <3>1. query'.rows = query.rows /\ query'.pc = "done" /\ QueryOK'
      BY <2>4 DEF QueryFails, TypeOK, QueryOK
    <3> QED
      BY <3>1
  <2>5. CASE Answered
    <3>1. query' = Idle
      BY <2>5 DEF Answered
    <3> QED
      BY <1>3, <3>1 DEF QueryOK, Idle
  <2> QED
    BY <2>1, <2>2, <2>3, <2>4, <2>5 DEF Query
<1>6. QueryStep
  BY <1>1, <1>5 DEF QueryStep, host
<1>7. PcStep /\ EntryStep /\ TableStep /\ OwnStep
  BY <1>1, Stays, Quiet DEF host
<1>8. WitStep /\ RowStep /\ RowsOK' /\ ControlOK' /\ TableOK'
  BY <1>1, <1>2 DEF WitStep, RowStep, RowsOK, TypeOK, ControlOK, TableOK, host
<1> QED
  BY <1>5, <1>6, <1>7, <1>8 DEF Steps, Step, TypeOK

\* Every action of the specification.
LEMMA NextSteps ==
  ASSUME IInv, [Next]_vars
  PROVE  Steps
<1> USE DEF IInv
<1>1. CASE UNCHANGED vars
  <2>1. UNCHANGED <<host, proc, rows, gen, pc, own, kid, next, gate, cancel, blind, query, faults>>
    BY <1>1 DEF vars
  <2>2. PcStep /\ EntryStep /\ TableStep /\ OwnStep
    BY <2>1, Stays, Quiet DEF host
  <2>3. WitStep /\ RowStep /\ QueryStep /\ RowsOK' /\ ControlOK' /\ TableOK' /\ QueryOK'
    BY <2>1 DEF WitStep, RowStep, QueryStep, RowsOK, TypeOK, ControlOK, TableOK, QueryOK, host
  <2> QED
    BY <2>2, <2>3 DEF Steps, Step, TypeOK
<1>2. ASSUME NEW j \in Commands, Observer(j) \/ Killed(j) \/ OpenGate(j) \/ Cancel(j)
      PROVE  Steps
  <2>1. j \in Jobs
    BY DEF Jobs
  <2> QED
    BY <1>2, <2>1, OwnSteps, KidSteps, UnobservedSteps, RegisterSteps, WaitingSteps, EndSteps,
       ResumeSteps, RecordSteps, CancelSteps DEF Observer
<1>3. ASSUME NEW j \in Ops, OpStarts(j) \/ OpRegisters(j) \/ OpEnds(j)
      PROVE  Steps
  BY <1>3, OwnSteps, RegisterSteps, EndSteps DEF Jobs
<1>4. ASSUME NEW p \in Pids, KeeperEnds(p) \/ KeeperKilled(p) \/ Fork(p) \/ Ends(p) \/ Leaves(p)
                             \/ Stranger(p)
      PROVE  Steps
  BY <1>4, OtherSteps, ProcessSteps
<1>5. CASE Query
  BY <1>5, QuerySteps
<1> QED
  BY <1>1, <1>2, <1>3, <1>4, <1>5 DEF Next

\* No process, no row, no query.
LEMMA InvInit == Init => IInv
<1> SUFFICES ASSUME Init PROVE IInv
  OBVIOUS
<1> USE DEF Init
<1>1. NoProc \in [role : Roles, of : Jobs \cup {"-"}, pgid : Pids \cup {0}] /\ NoId \in Ids
      /\ NoRow \in Rows
  BY DEF NoProc, Roles, Ids, NoRow, Rows
<1>2. TableOK /\ ControlOK /\ RowsOK
  BY <1>1 DEF TableOK, ControlOK, RowsOK, Labels
<1>3. query.rows = [j \in Jobs |-> NoRow] /\ query.pc = "idle" /\ query.running = {}
  BY DEF Idle
<1>4. QueryOK
  <2>1. [j \in Jobs |-> NoRow] \in [Jobs -> Rows]
    BY <1>1
  <2> QED
    BY <2>1 DEF QueryOK, Idle
<1>5. Live = {}
  BY DEF Live
<1>6. \A p \in Pids : ProcOK(p)
  BY DEF ProcOK, NoProc
<1>7. (\A j \in Jobs : OwnOK(j)) /\ OwnUnique /\ WitInv
  BY DEF OwnOK, OwnUnique, WitInv, KidOK, NextOK
<1>8. RowInv
  BY <1>3 DEF RowInv, RowOK, NoRow
<1>9. \A j : JobPids(j) = {} /\ Members(j) = {}
  BY <1>5 DEF JobPids, Members
<1>10. PcInv
  BY <1>9 DEF PcInv, PcOK, OpOK, Running, HoldsRow, Followed, Jobs
<1>11. PassedOver /\ ObservedWhileAlive /\ CancelIsTrue
  BY <1>3, <1>9 DEF PassedOver, ObservedWhileAlive, CancelIsTrue, Jobs
<1> QED
  BY <1>2, <1>4, <1>6, <1>7, <1>8, <1>10, <1>11 DEF IInv, TypeOK, IdInv

\* The invariant is inductive.
LEMMA InvStep == IInv /\ [Next]_vars => IInv'
<1> SUFFICES ASSUME IInv, [Next]_vars PROVE IInv'
  OBVIOUS
<1>1. TypeOK' /\ Step /\ WitStep /\ RowStep /\ EntryStep /\ QueryStep
  BY NextSteps DEF Steps
<1>2. TypeOK /\ IdInv /\ WitInv /\ RowInv /\ PcInv /\ PassedOver /\ ObservedWhileAlive /\ CancelIsTrue
  BY DEF IInv
<1>3. IdInv' /\ WitInv' /\ RowInv'
  BY <1>1, <1>2, IdStep, WitnessStep, RowInvStep
<1>4. PcInv' /\ PassedOver'
  BY <1>1, <1>2, <1>3, PcInvStep, PassedOverStep
<1>5. ObservedWhileAlive' /\ CancelIsTrue'
  BY <1>1, <1>2, <1>3, <1>4, PromisesStep
<1> QED
  BY <1>1, <1>3, <1>4, <1>5 DEF IInv

\* The invariant holds in every reachable state.
LEMMA Invariance == Spec => []IInv
<1> QED
  BY InvInit, InvStep, PTL DEF Spec

\* The module's types (_posix_telemetry, _telemetry): every row, identity and
\* process is of the shape the registry's schema gives it.
THEOREM TypeCorrect == Spec => []TypeOK
<1>1. IInv => TypeOK
  BY DEF IInv
<1> QED
  BY <1>1, Invariance, PTL

\* A command's processes are registered for as long as one of them is left,
\* unless the observer lost sight of the start, for any number of jobs whose
\* registrations reclaim rows and whose pids are reused.
THEOREM Observed == Spec => []ObservedWhileAlive
<1>1. IInv => ObservedWhileAlive
  BY DEF IInv
<1> QED
  BY <1>1, Invariance, PTL

\* A confirmed cancellation of a Windows run left no process of the Job, and
\* none is started afterwards.
THEOREM Cancelled == Spec => []CancelIsTrue
<1>1. IInv => CancelIsTrue
  BY DEF IInv
<1> QED
  BY <1>1, Invariance, PTL

\* What a query answers is true of the moment it answers: RUNNING jobs have a
\* process, and a registered job that has one is running or unknown.
THEOREM Answers == Spec => QueryIsTrue
<1> DEFINE A == query.pc # "done" /\ query'.pc = "done" =>
       \A j \in Jobs :
         /\ j \in query'.running => JobPids(j) # {}
         /\ query.rows[j] # NoRow /\ Members(j) # {} /\ query'.status = "ok"
              => j \in query'.running \cup query'.unknown
<1>1. IInv /\ [Next]_vars => A
  <2> SUFFICES ASSUME IInv, [Next]_vars, query.pc # "done", query'.pc = "done", NEW j \in Jobs
               PROVE  /\ j \in query'.running => JobPids(j) # {}
                      /\ query.rows[j] # NoRow /\ Members(j) # {} /\ query'.status = "ok"
                           => j \in query'.running \cup query'.unknown
    OBVIOUS
  <2> USE DEF IInv
  <2>1. query' # query => Query
    <3> SUFFICES ASSUME query' # query, ~ Query PROVE FALSE
      OBVIOUS
    <3>1. Next
      BY DEF vars
    <3>2. ASSUME NEW i \in Commands, Observer(i) \/ Killed(i) \/ OpenGate(i) \/ Cancel(i) PROVE FALSE
      BY <3>2 DEF Observer, OwnGroup, CreateSuspended, CreateKeeper, Fallback, KeeperFails,
         RegisterJob, RegisterFails, Unobserved, WriteReady, WaitGate, StartFails, Popen, Resume,
         RecordChild, ChildUnseen, Wait, CountSurvivors, CountFails, Unregister, RecordSurvivor,
         WriteFails, Exit, Killed, OpenGate, Cancel, CancelOpen, CancelTerminate, CancelConfirm, Kept
    <3>3. ASSUME NEW i \in Ops, OpStarts(i) \/ OpRegisters(i) \/ OpEnds(i) PROVE FALSE
      BY <3>3 DEF OpStarts, OpRegisters, OpEnds
    <3>4. ASSUME NEW p \in Pids, KeeperEnds(p) \/ KeeperKilled(p) \/ Fork(p) \/ Ends(p) \/ Leaves(p)
                                 \/ Stranger(p)
          PROVE  FALSE
      BY <3>4 DEF KeeperEnds, KeeperKilled, Fork, Ends, Leaves, Stranger
    <3> QED
      BY <3>1, <3>2, <3>3, <3>4 DEF Next
  <2>2. query \in [pc : {"idle", "first", "second", "done"}, rows : [Jobs -> Rows],
                      first : SUBSET Jobs, unknown : SUBSET Jobs, running : SUBSET Jobs,
                      status : {"none", "ok", "unknown"}]
        /\ query.rows[j] \in Rows /\ RowOK(j, query.rows[j])
    BY DEF TypeOK, QueryOK, RowInv
  <2>3. ASSUME query.rows[j] # NoRow, Members(j) # {}
        PROVE  Sample(j, query.rows[j]) \in {"live", "unknown"}
    <3>1. query.rows[j].kind \in {"op", "posix_pgid", "windows_job_v2"}
      BY <2>2, <2>3 DEF RowOK, Rows
    <3>2. Sample(j, query.rows[j]) # "stale"
      <4>1. JobPids(j) # {}
        BY <2>3 DEF JobPids, Members
      <4> QED
        BY <2>2, <2>3, <4>1, StaleIsDead DEF Dead
    <3> QED
      BY <3>1, <3>2 DEF Sample, OpSample, PosixSample, WindowsSample
  <2>4. CASE FirstSnapshot
    <3>1. Asked(Jobs, "live") = {} /\ query'.unknown = Asked(Jobs, "unknown")
          /\ query'.running = query.running
      BY <2>2, <2>4 DEF FirstSnapshot, UnknownRows
    <3>2. query.rows[j] # NoRow /\ Members(j) # {} => j \in query'.unknown
      BY <2>3, <3>1 DEF Asked
    <3>3. query.running = {}
      BY DEF PassedOver
    <3> QED
      BY <3>1, <3>2, <3>3
  <2>5. CASE SecondSnapshot
    <3>1. /\ query'.running = Asked(query.first, "live") /\ query.pc = "second"
          /\ query'.unknown = query.unknown \cup Asked(query.first, "unknown")
      BY <2>2, <2>5 DEF SecondSnapshot, RunningRows, UnknownRows
    <3>2. ASSUME j \in query'.running PROVE JobPids(j) # {}
      BY <2>2, <3>1, <3>2, LiveIsAlive DEF Asked
    <3>3. ASSUME query.rows[j] # NoRow, Members(j) # {}
          PROVE  j \in query'.running \cup query'.unknown
      <4>1. JobPids(j) # {}
        BY <3>3 DEF JobPids, Members
      <4>2. j \in query.first \cup query.unknown
        BY <3>1, <3>3, <4>1 DEF PassedOver, Dead
      <4> QED
        BY <2>3, <3>1, <3>3, <4>2 DEF Asked
    <3> QED
      BY <3>2, <3>3
  <2>6. CASE QueryFails
    <3>1. query'.status = "unknown" /\ query'.running = {}
      BY <2>2, <2>6 DEF QueryFails
    <3> QED
      BY <3>1
  <2> QED
    BY <2>1, <2>4, <2>5, <2>6 DEF Query, ReadRecords, Answered, Idle
<1> QED
  BY <1>1, Invariance, PTL DEF Spec, QueryIsTrue

-----------------------------------------------------------------------------
(* The memory guard (MemoryGuard), for any jobs, workloads and sizes, and  *)
(* without the bounds of its instance for TLC: the ledger never forgets a  *)
(* command's group, and a refusal that a controller reports is true.       *)

Leased == {"none", "reserved", "running", "quarantined"}
Kinds == {"gate", "cmd", "esc"}
Wrote == {"none", "open", "confirmed", "silent", "failed"}
HelperPlaces == {"none", "flying", "spawned", "claiming", "broken", "claimed", "released",
                 "watch", "drain", "free", "hold", "xfree", "xhold", "done", "killed"}
(* From the claim to the end of finalize_claimed_lease. *)
Claimed == {"claimed", "released", "watch", "drain", "free", "hold", "xfree", "xhold"}
PreSend == {"admit", "reserved", "renewing", "send", "release", "notstarted"}
ControllerPlaces == Outcomes \cup PreSend \cup {"sent", "lost", "finish"}

(* Nothing of the job's group runs or may still pass the gate, and no      *)
(* helper counts on the lease: the ledger may forget the job.              *)
GroupGoneIn(t, e, h) == h \notin Claimed /\ "cmd" \notin t /\ ("gate" \in t => e # "open")
GroupGone(j) == GroupGoneIn(tree[j], exec[j], hp[j])

(* One job: the state st of its lease, its processes t, what the control   *)
(* process wrote e, helper h, controller c, the start s it was told of and *)
(* whether the command was started.                                        *)
JobOK(st, t, e, h, c, s, started) ==
  /\ ~GroupGoneIn(t, e, h) => st \in {"running", "quarantined"}
  /\ st = "quarantined" => h = "done"
  /\ e \in {"none", "open", "failed"} => ~started /\ t \subseteq {"gate"}
  /\ e = "failed" => t = {}
  /\ h \in {"none", "flying"} => t = {} /\ e = "none"
  /\ h \in {"spawned", "claiming", "broken", "claimed"} => e = "none"
  /\ h \in {"free", "xfree"} => t = {}
  /\ c \in PreSend => h = "none"
  /\ c = "finish" => h \in {"done", "killed"}
  /\ c \in {"refused", "error-false"} => h = "done" /\ s = "false"
  /\ h = "none" => s = "null"
  /\ s = "false" => /\ ~started /\ e # "open"
                    /\ h \in {"free", "hold", "xfree", "xhold", "done", "killed"}
JobInv(j) == JobOK(ledger[j].st, tree[j], exec[j], hp[j], cp[j], res[j].started, ran[j])

LedgerShape(ls) ==
  /\ ls = [j \in Guarded |-> ls[j]]
  /\ \A j \in Guarded : "st" \in DOMAIN ls[j] /\ ls[j].st \in Leased
GuardShape ==
  /\ LedgerShape(ledger)
  /\ tree \in [Guarded -> SUBSET Kinds] /\ exec \in [Guarded -> Wrote]
  /\ hp \in [Guarded -> HelperPlaces] /\ cp \in [Guarded -> ControllerPlaces]
  /\ res = [j \in Guarded |-> res[j]]
  /\ \A j \in Guarded : res[j].started \in {"null", "true", "false"}
  /\ ran \in [Guarded -> BOOLEAN]

(* The leases that an operation under the lock works on are those of the   *)
(* ledger, but for its own and for jobs that are gone.                     *)
OwnTx(op, phase, st, h, c) ==
  \/ op = "reserve" /\ c = "admit" /\ (phase = "final" => st = "reserved")
  \/ op = "renew" /\ c = "renewing" /\ st = "reserved"
  \/ op = "claim" /\ h = "claiming" /\ st = "running"
TxInv ==
  /\ "op" \in DOMAIN tx
  /\ tx.op # "none" =>
       /\ {"op", "job", "phase", "ls"} \subseteq DOMAIN tx /\ tx.job \in Guarded
       /\ LedgerShape(tx.ls)
       /\ OwnTx(tx.op, tx.phase, tx.ls[tx.job].st, hp[tx.job], cp[tx.job])
       /\ \A k \in Guarded \ {tx.job} :
            tx.ls[k] = ledger[k] \/ (tx.ls[k] = NoLease /\ GroupGone(k))

GuardInv == GuardShape /\ TxInv /\ \A j \in Guarded : JobInv(j)

-----------------------------------------------------------------------------
(* Leases are records: what matters is their state.                        *)

\* An operation on a lease gives a lease in the same state.
LEMMA ResizedFacts ==
  ASSUME NEW l, "st" \in DOMAIN l, NEW r, NEW b
  PROVE  "st" \in DOMAIN Resized(l, r, b) /\ Resized(l, r, b).st = l.st
BY Zenon DEF Resized

\* A new reservation is a lease that is reserved; no lease is in state none.
LEMMA NewLeaseFacts ==
  ASSUME NEW j, NEW allow, NEW rem
  PROVE  /\ "st" \in DOMAIN NewLease(j, allow, rem)
         /\ NewLease(j, allow, rem).st = "reserved"
         /\ "st" \in DOMAIN NoLease /\ NoLease.st = "none"
<1>1. "st" \in DOMAIN NoLease /\ NoLease.st = "none"
  BY DEF NoLease
<1>2. QED
  BY <1>1, Zenon DEF NewLease

\* A reservation is dropped, or it keeps its state.
LEMMA ReservedFacts ==
  ASSUME NEW ls, NEW free, NEW priv, NEW j, "st" \in DOMAIN ls[j]
  PROVE  LET r == ReservedLease(ls, free, priv, j)
         IN r = NoLease \/ ("st" \in DOMAIN r /\ r.st = ls[j].st)
BY Zenon DEF ReservedLease

\* The same when it is renewed ...
LEMMA RenewedFacts ==
  ASSUME NEW ls, NEW free, NEW priv, NEW j, NEW ok, "st" \in DOMAIN ls[j]
  PROVE  LET r == RenewedLease(ls, free, priv, j, ok)
         IN r = NoLease \/ ("st" \in DOMAIN r /\ r.st = ls[j].st)
BY Zenon DEF RenewedLease

\* ... and when the helper claims it.
LEMMA ClaimedFacts ==
  ASSUME NEW ls, NEW free, NEW priv, NEW peak, NEW j, "st" \in DOMAIN ls[j]
  PROVE  LET r == ClaimedLease(ls, free, priv, peak, j)
         IN r = NoLease \/ ("st" \in DOMAIN r /\ r.st = ls[j].st)
BY Zenon DEF ClaimedLease

\* One lease of a ledger is replaced.
LEMMA PutFacts ==
  ASSUME NEW ls, LedgerShape(ls), NEW j \in Guarded, NEW l, "st" \in DOMAIN l, l.st \in Leased
  PROVE  /\ LedgerShape([ls EXCEPT ![j] = l]) /\ [ls EXCEPT ![j] = l][j] = l
         /\ \A k \in Guarded \ {j} : [ls EXCEPT ![j] = l][k] = ls[k]
BY Zenon DEF LedgerShape

\* What reaping drops is gone: its helper has ended, or it quarantined the
\* lease, and nothing of its group is alive.
LEMMA ReapedFacts ==
  ASSUME GuardInv
  PROVE  /\ LedgerShape(Reaped)
         /\ \A k \in Guarded :
                 Reaped[k] = ledger[k] \/ (Reaped[k] = NoLease /\ GroupGone(k))
<1>1. ASSUME NEW k \in Guarded, StaleLease(k) PROVE GroupGone(k)
  <2>1. JobInv(k) /\ ledger[k].st \in Leased /\ tree[k] \in SUBSET Kinds
          /\ hp[k] \in HelperPlaces
    BY DEF GuardInv, GuardShape, LedgerShape
  <2>2. CASE ledger[k].st = "reserved"
    BY <2>1, <2>2 DEF JobInv, JobOK, GroupGone
  <2>3. CASE ledger[k].st = "running" /\ ~OwnerAlive(k)
    BY <2>1, <2>3 DEF OwnerAlive, GroupGone, GroupGoneIn, HelperPlaces, Claimed
  <2>4. CASE ledger[k].st = "quarantined" /\ ~SurvivorAlive(k)
    BY <2>1, <2>4 DEF SurvivorAlive, GroupGone, GroupGoneIn, JobInv, JobOK, Claimed
  <2>5. QED
    BY <1>1, <2>2, <2>3, <2>4 DEF StaleLease
<1>2. \A k \in Guarded : Reaped[k] = IF StaleLease(k) THEN NoLease ELSE ledger[k]
  BY DEF Reaped
<1>3. Reaped = [k \in Guarded |-> Reaped[k]]
  BY DEF Reaped
<1>4. "st" \in DOMAIN NoLease /\ NoLease.st \in Leased
  BY DEF NoLease, Leased
<1>5. \A k \in Guarded : "st" \in DOMAIN ledger[k] /\ ledger[k].st \in Leased
  BY DEF GuardInv, GuardShape, LedgerShape
<1>6. QED
  BY <1>1, <1>2, <1>3, <1>4, <1>5, Zenon DEF LedgerShape

(* What an operation under ledger.lock keeps while it takes its readings.  *)
TxSame ==
  /\ "op" \in DOMAIN tx' /\ tx'.op = tx.op
  /\ tx.op # "none" =>
       /\ {"op", "job", "phase", "ls"} \subseteq DOMAIN tx'
       /\ tx'.job = tx.job /\ tx'.phase = tx.phase /\ tx'.ls = tx.ls

\* The readings and the moves of memory between them.
LEMMA TxFacts ==
  ASSUME TxInv
  PROVE  /\ UNCHANGED tx => TxSame
         /\ SampleHost \/ SamplePrivate \/ Moving => TxSame
         /\ \A j, n : Uses(j, n) => TxSame
<1>1. /\ "op" \in DOMAIN tx
      /\ tx.op # "none" => "job" \in DOMAIN tx /\ "phase" \in DOMAIN tx /\ "ls" \in DOMAIN tx
  BY Zenon DEF TxInv
<1>2. UNCHANGED tx => TxSame
  BY <1>1, Zenon DEF TxSame
<1>3. Moving => TxSame
  BY <1>1, <1>2, Zenon DEF Moving, TxSame
<1>4. SampleHost => TxSame
  BY <1>1, Zenon DEF SampleHost, TxSame
<1>5. SamplePrivate => TxSame
  BY <1>1, Zenon DEF SamplePrivate, TxSame
<1>6. QED
  BY <1>2, <1>3, <1>4, <1>5, Zenon DEF Uses

(* A step touches one job's processes, positions and result.               *)
Touches(j) ==
  /\ tree' \in [Guarded -> SUBSET Kinds] /\ exec' \in [Guarded -> Wrote]
  /\ hp' \in [Guarded -> HelperPlaces] /\ cp' \in [Guarded -> ControllerPlaces]
  /\ res' = [k \in Guarded |-> res'[k]] /\ res'[j].started \in {"null", "true", "false"}
  /\ ran' \in [Guarded -> BOOLEAN]
  /\ \A k \in Guarded \ {j} : /\ tree'[k] = tree[k] /\ exec'[k] = exec[k] /\ hp'[k] = hp[k]
                           /\ cp'[k] = cp[k] /\ res'[k] = res[k] /\ ran'[k] = ran[k]
(* The leases of the other jobs stay, or are those of jobs that are gone.  *)
Spares(j) ==
  /\ LedgerShape(ledger')
  /\ \A k \in Guarded \ {j} :
          ledger'[k] = ledger[k] \/ (ledger'[k] = NoLease /\ GroupGone(k))

\* A step outside the operations under the lock: what it must show of the job
\* it touches.
LEMMA LocalStep ==
  ASSUME GuardInv, NEW j \in Guarded, Touches(j), Spares(j), JobInv(j)',
         \/ tx' = NoTx
         \/ /\ TxSame /\ (tx.op # "none" => ledger' = ledger)
            /\ GroupGone(j) => GroupGone(j)'
            /\ tx.op # "none" /\ tx.job = j
                 => OwnTx(tx.op, tx.phase, tx.ls[j].st, hp'[j], cp'[j])
  PROVE  GuardInv'
<1>1. GuardShape'
  <2>1. \A k \in Guarded : res'[k].started \in {"null", "true", "false"}
    BY DEF Touches, GuardInv, GuardShape
  <2>2. QED
    BY <2>1, Zenon DEF Touches, Spares, GuardShape
<1>2. ASSUME NEW k \in Guarded \ {j} PROVE JobInv(k)' /\ (GroupGone(k) => GroupGone(k)')
  <2>1. /\ JobInv(k) /\ tree'[k] = tree[k] /\ exec'[k] = exec[k] /\ hp'[k] = hp[k]
        /\ cp'[k] = cp[k] /\ res'[k] = res[k] /\ ran'[k] = ran[k]
    BY <1>2 DEF GuardInv, Touches
  <2>2. CASE ledger'[k] = ledger[k]
    BY <2>1, <2>2 DEF JobInv, GroupGone
  <2>3. CASE ledger'[k] = NoLease /\ GroupGone(k)
    <3>1. ledger'[k].st = "none"
      BY <2>3 DEF NoLease
    <3>2. QED
      BY <2>1, <2>3, <3>1 DEF JobInv, JobOK, GroupGone
  <2>4. QED
    BY <1>2, <2>2, <2>3 DEF Spares
<1>3. TxInv'
  <2>1. CASE tx' = NoTx
    <3>1. "op" \in DOMAIN NoTx /\ NoTx.op = "none"
      BY DEF NoTx
    <3>2. QED
      BY <2>1, <3>1, Zenon DEF TxInv
  <2>2. CASE TxSame /\ tx.op = "none"
    BY <2>2, Zenon DEF TxSame, TxInv
  <2>3. CASE /\ TxSame /\ tx.op # "none" /\ ledger' = ledger /\ (GroupGone(j) => GroupGone(j)')
             /\ tx.job = j => OwnTx(tx.op, tx.phase, tx.ls[j].st, hp'[j], cp'[j])
    <3>1. /\ tx.job \in Guarded /\ LedgerShape(tx.ls)
          /\ OwnTx(tx.op, tx.phase, tx.ls[tx.job].st, hp[tx.job], cp[tx.job])
          /\ \A k \in Guarded \ {tx.job} :
                  tx.ls[k] = ledger[k] \/ (tx.ls[k] = NoLease /\ GroupGone(k))
      BY <2>3, Zenon DEF GuardInv, TxInv
    <3>2. OwnTx(tx.op, tx.phase, tx.ls[tx.job].st, hp'[tx.job], cp'[tx.job])
      <4>1. CASE tx.job = j
        BY <2>3, <4>1
      <4>2. CASE tx.job # j
        BY <3>1, <4>2 DEF Touches
      <4>3. QED
        BY <4>1, <4>2
    <3>3. \A k \in Guarded \ {tx.job} :
               tx.ls[k] = ledger'[k] \/ (tx.ls[k] = NoLease /\ GroupGone(k)')
      BY <1>2, <2>3, <3>1
    <3>4. QED
      BY <2>3, <3>1, <3>2, <3>3, Zenon DEF TxSame, TxInv
  <2>4. QED
    BY <2>1, <2>2, <2>3
<1>4. QED
  BY <1>1, <1>2, <1>3 DEF GuardInv

-----------------------------------------------------------------------------
(* What is known of one job before a step.                                 *)
JobKnown(j) ==
  /\ JobInv(j) /\ ledger[j].st \in Leased /\ tree[j] \in SUBSET Kinds /\ exec[j] \in Wrote
  /\ hp[j] \in HelperPlaces /\ cp[j] \in ControllerPlaces /\ ran[j] \in BOOLEAN
  /\ res[j].started \in {"null", "true", "false"}
  /\ tx.op # "none" /\ tx.job = j => OwnTx(tx.op, tx.phase, tx.ls[j].st, hp[j], cp[j])
GuardFuns ==
  /\ tree \in [Guarded -> SUBSET Kinds] /\ exec \in [Guarded -> Wrote]
  /\ hp \in [Guarded -> HelperPlaces] /\ cp \in [Guarded -> ControllerPlaces]
  /\ res = [j \in Guarded |-> res[j]]
  /\ \A j \in Guarded : res[j].started \in {"null", "true", "false"}
  /\ ran \in [Guarded -> BOOLEAN]

\* The invariant, read at one job.
LEMMA JobFacts ==
  ASSUME GuardInv, NEW j \in Guarded
  PROVE  JobKnown(j) /\ GuardFuns /\ TxInv
<1>1. GuardFuns /\ TxInv /\ JobInv(j) /\ ledger[j].st \in Leased
  BY DEF GuardInv, GuardShape, GuardFuns, LedgerShape
<1>2. tx.op # "none" /\ tx.job = j => OwnTx(tx.op, tx.phase, tx.ls[j].st, hp[j], cp[j])
  BY <1>1, Zenon DEF TxInv
<1>3. QED
  BY <1>1, <1>2 DEF GuardFuns, JobKnown

(* What _release_memory_lease may do to the ledger.                        *)
DropsLease(j, states) ==
  /\ Spares(j) /\ (tx.op # "none" => ledger' = ledger)
  /\ \/ ledger'[j].st = ledger[j].st
     \/ ledger'[j].st = "none" /\ (GroupGone(j) \/ ledger[j].st \in states)

\* A ledger that is left alone spares every job.
LEMMA KeepFacts ==
  ASSUME GuardInv, NEW j \in Guarded, UNCHANGED ledger
  PROVE  Spares(j) /\ DropsLease(j, {}) /\ ledger'[j].st = ledger[j].st
<1>1. LedgerShape(ledger)
  BY DEF GuardInv, GuardShape
<1>2. QED
  BY <1>1 DEF Spares, DropsLease

\* A release reaps, and then drops the lease it is called for if its state is
\* one of those given.
LEMMA ReleaseFacts ==
  ASSUME GuardInv, NEW j \in Guarded, NEW states, BestEffortRelease(j, states)
  PROVE  DropsLease(j, states)
<1>1. CASE Keep
  BY <1>1, KeepFacts DEF Keep, DropsLease
<1>2. CASE Release(j, states)
  <2> DEFINE l == IF Reaped[j].st \in states THEN NoLease ELSE Reaped[j]
             ls == [Reaped EXCEPT ![j] = l]
  <2>1. /\ LedgerShape(Reaped)
        /\ \A k \in Guarded :
                Reaped[k] = ledger[k] \/ (Reaped[k] = NoLease /\ GroupGone(k))
    BY ReapedFacts
  <2>2. "st" \in DOMAIN NoLease /\ NoLease.st = "none"
    BY DEF NoLease
  <2>3. "st" \in DOMAIN l /\ l.st \in Leased
    BY <2>1, <2>2, Zenon DEF LedgerShape, Leased
  <2>4. /\ LedgerShape(ls) /\ ls[j] = l
        /\ \A k \in Guarded \ {j} : ls[k] = Reaped[k]
    <3> HIDE DEF l
    <3>1. QED
      BY <2>1, <2>3, PutFacts
  <2>5. tx.op = "none" /\ (ledger' = ledger \/ ledger' = ls)
    BY <1>2, Zenon DEF Release, Keep, Write
  <2>6. CASE ledger' = ledger
    BY <2>6, KeepFacts DEF DropsLease
  <2>7. CASE ledger' = ls
    <3>1. Spares(j)
      BY <2>1, <2>4, <2>7 DEF Spares
    <3>2. \/ ledger'[j].st = ledger[j].st
          \/ ledger'[j].st = "none" /\ (GroupGone(j) \/ ledger[j].st \in states)
      BY <2>1, <2>2, <2>4, <2>7
    <3>3. QED
      BY <2>5, <3>1, <3>2 DEF DropsLease
  <2>8. QED
    BY <2>5, <2>6, <2>7
<1>3. QED
  BY <1>1, <1>2 DEF BestEffortRelease

\* A result that is told replaces the one of that job.
LEMMA ResultFacts ==
  ASSUME NEW j \in Guarded, GuardFuns, NEW s
  PROVE  /\ (\E status : Result(j, status, s))
              => res' = [res EXCEPT ![j] = res'[j]] /\ res'[j].started = s
         /\ NoResult(j) => res' = [res EXCEPT ![j] = res'[j]] /\ res'[j].started = "null"
<1>1. ASSUME NEW r, res' = [res EXCEPT ![j] = r]
      PROVE  res' = [res EXCEPT ![j] = res'[j]] /\ res'[j] = r
  BY <1>1 DEF GuardFuns
<1>2. ASSUME NEW status, Result(j, status, s)
      PROVE  res' = [res EXCEPT ![j] = res'[j]] /\ res'[j].started = s
  <2> DEFINE r == [status |-> status, started |-> s,
                   lease |-> IF hp[j] \in {"flying", "spawned", "claiming", "broken"}
                             THEN rcpt[j] ELSE ledger[j]]
  <2>1. res' = [res EXCEPT ![j] = r] /\ r.started = s
    BY <1>2 DEF Result
  <2>2. QED
    BY <1>1, <2>1
<1>3. ASSUME NoResult(j)
      PROVE  res' = [res EXCEPT ![j] = res'[j]] /\ res'[j].started = "null"
  <2>1. res' = [res EXCEPT ![j] = NoRes] /\ NoRes.started = "null"
    BY <1>3 DEF NoResult, NoRes
  <2>2. QED
    BY <1>1, <2>1
<1>4. QED
  BY <1>2, <1>3

\* A step of one job that only releases, if it does anything to the ledger.
LEMMA JobStep ==
  ASSUME GuardInv, NEW j \in Guarded, NEW states, Touches(j), DropsLease(j, states),
         JobInv(j)', GroupGone(j) => GroupGone(j)',
         \/ tx' = NoTx
         \/ /\ TxSame
            /\ tx.op # "none" /\ tx.job = j
                 => OwnTx(tx.op, tx.phase, tx.ls[j].st, hp'[j], cp'[j])
  PROVE  GuardInv'
BY LocalStep DEF DropsLease

-----------------------------------------------------------------------------
(* The control process and the command.                                    *)

\* The gate starts, opens or closes; processes of the group exit or leave it.
LEMMA TargetSteps ==
  ASSUME GuardInv, NEW j \in Guarded,
         \/ GateStarts(j) \/ GateFails(j) \/ GateCloses(j) \/ GateRelays(j)
         \/ CommandExits(j) \/ EscapeeExits(j) \/ Escapes(j)
  PROVE  GuardInv'
<1>0. JobKnown(j) /\ GuardFuns /\ TxInv
  BY JobFacts
<1>1. ASSUME UNCHANGED <<ledger, hp, cp, res>>, Touches(j), TxSame,
             JobInv(j)', GroupGone(j) => GroupGone(j)'
      PROVE  GuardInv'
  BY <1>0, <1>1, KeepFacts, JobStep DEF JobKnown
<1>2. CASE GateStarts(j)
  <2>1. /\ UNCHANGED <<ledger, tx, hp, cp, res>> /\ "gate" \in tree[j] /\ exec[j] = "open"
        /\ tree' = [tree EXCEPT ![j] = @ \cup {"cmd"}] /\ ran' = [ran EXCEPT ![j] = TRUE]
        /\ \E e \in {"confirmed", "silent"} : exec' = [exec EXCEPT ![j] = e]
    BY <1>2 DEF GateStarts
  <2>2. Touches(j)
    BY <1>0, <2>1 DEF Touches, GuardFuns, Kinds, Wrote
  <2>3. /\ tree'[j] = tree[j] \cup {"cmd"} /\ exec'[j] \in {"confirmed", "silent"}
        /\ ran'[j] = TRUE
    BY <1>0, <2>1 DEF GuardFuns
  <2>4. JobInv(j)' /\ (GroupGone(j) => GroupGone(j)')
    BY <1>0, <2>1, <2>3 DEF JobKnown, JobInv, JobOK, GroupGone, GroupGoneIn, Claimed, PreSend
  <2>5. QED
    BY <1>0, <1>1, <2>1, <2>2, <2>4, TxFacts
<1>3. CASE GateFails(j)
  <2>1. /\ UNCHANGED <<ledger, hp, cp, res, ran>> /\ TxSame
        /\ "gate" \in tree[j] /\ exec[j] = "open"
        /\ tree' = [tree EXCEPT ![j] = {}] /\ exec' = [exec EXCEPT ![j] = "failed"]
    BY <1>0, <1>3, TxFacts DEF GateFails, Clear
  <2>2. Touches(j)
    BY <1>0, <2>1 DEF Touches, GuardFuns, Kinds, Wrote
  <2>3. tree'[j] = {} /\ exec'[j] = "failed"
    BY <1>0, <2>1 DEF GuardFuns
  <2>4. JobInv(j)' /\ (GroupGone(j) => GroupGone(j)')
    BY <1>0, <2>1, <2>3 DEF JobKnown, JobInv, JobOK, GroupGone, GroupGoneIn, Claimed, PreSend
  <2>5. QED
    BY <1>1, <2>1, <2>2, <2>4
<1>4. CASE GateCloses(j) \/ GateRelays(j) \/ CommandExits(j) \/ EscapeeExits(j)
  <2>1. /\ UNCHANGED <<ledger, exec, hp, cp, res, ran>> /\ TxSame
        /\ \E t \in SUBSET tree[j] : tree' = [tree EXCEPT ![j] = t]
    BY <1>0, <1>4, TxFacts DEF GateCloses, GateRelays, CommandExits,
       EscapeeExits, ProcessEnds, Clear
  <2>2. Touches(j)
    BY <1>0, <2>1 DEF Touches, GuardFuns, Kinds, Wrote
  <2>3. tree'[j] \subseteq tree[j]
    BY <1>0, <2>1 DEF GuardFuns
  <2>4. JobInv(j)' /\ (GroupGone(j) => GroupGone(j)')
    BY <1>0, <2>1, <2>3 DEF JobKnown, JobInv, JobOK, GroupGone, GroupGoneIn
  <2>5. QED
    BY <1>1, <2>1, <2>2, <2>4
<1>5. CASE Escapes(j)
  <2>1. /\ UNCHANGED <<ledger, tx, exec, hp, cp, res, ran>>
        /\ "cmd" \in tree[j] /\ hp[j] = "watch"
        /\ tree' = [tree EXCEPT ![j] = @ \cup {"esc"}]
    BY <1>5 DEF Escapes
  <2>2. Touches(j)
    BY <1>0, <2>1 DEF Touches, GuardFuns, Kinds, Wrote
  <2>3. tree'[j] = tree[j] \cup {"esc"}
    BY <1>0, <2>1 DEF GuardFuns
  <2>4. JobInv(j)' /\ (GroupGone(j) => GroupGone(j)')
    BY <1>0, <2>1, <2>3 DEF JobKnown, JobInv, JobOK, GroupGone, GroupGoneIn, PreSend
  <2>5. QED
    BY <1>0, <1>1, <2>1, <2>2, <2>4, TxFacts
<1>6. QED
  BY <1>2, <1>3, <1>4, <1>5

-----------------------------------------------------------------------------
(* The helper.                                                             *)

\* A helper that has not claimed the lease, or that gives up at its claim,
\* ends: nothing was started.
LEMMA HelperEnds ==
  ASSUME GuardInv, NEW j \in Guarded,
         \/ HelperRefuses(j) \/ ClaimRefused(j)
         \/ hp[j] \in {"broken", "claimed"} /\ Except(j, FALSE, FALSE)
  PROVE  GuardInv'
<1>0. JobKnown(j) /\ GuardFuns /\ TxInv
  BY JobFacts
<1>1. /\ hp[j] \in {"flying", "spawned", "broken", "claimed"} /\ DropsLease(j, {"reserved"})
      /\ TxSame /\ UNCHANGED <<exec, ran, cp>> /\ hp' = [hp EXCEPT ![j] = "done"]
      /\ \E t \in SUBSET tree[j] : tree' = [tree EXCEPT ![j] = t]
      /\ res' = [res EXCEPT ![j] = res'[j]] /\ res'[j].started = "false"
      /\ hp[j] = "claimed" => tree' = [tree EXCEPT ![j] = {}]
  <2>1. CASE HelperRefuses(j)
    <3>1. tree' = [tree EXCEPT ![j] = tree[j]]
      BY <1>0, <2>1 DEF HelperRefuses, GuardFuns
    <3>2. DropsLease(j, {"reserved"}) /\ TxSame
      BY <1>0, <2>1, ReleaseFacts, TxFacts DEF HelperRefuses
    <3>3. QED
      BY <1>0, <2>1, <3>1, <3>2, ResultFacts DEF HelperRefuses, HelperAt
  <2>2. CASE ClaimRefused(j)
    <3>1. BestEffortRelease(j, {"reserved"}) /\ TxSame
      BY <1>0, <2>2, TxFacts, Zenon DEF ClaimRefused, BestEffortRelease, Clear
    <3>2. DropsLease(j, {"reserved"})
      BY <3>1, ReleaseFacts
    <3>3. QED
      BY <1>0, <2>2, <3>1, <3>2, ResultFacts DEF ClaimRefused, HelperAt, Clear
  <2>3. CASE hp[j] \in {"broken", "claimed"} /\ Except(j, FALSE, FALSE)
    <3>1. TxSame /\ DropsLease(j, {"reserved"})
      BY <1>0, <2>3, ReleaseFacts, TxFacts DEF Except, Clear
    <3>2. QED
      BY <1>0, <2>3, <3>1, ResultFacts DEF Except, HelperAt, Clear
  <2>4. QED
    BY <2>1, <2>2, <2>3
<1>2. /\ hp'[j] = "done" /\ tree'[j] \subseteq tree[j]
      /\ hp[j] = "claimed" => tree'[j] = {}
  BY <1>0, <1>1 DEF GuardFuns
<1>3. Touches(j)
  <2>1. PICK t \in SUBSET tree[j] : tree' = [tree EXCEPT ![j] = t]
    BY <1>1
  <2>2. /\ tree' \in [Guarded -> SUBSET Kinds]
        /\ \A k \in Guarded \ {j} : tree'[k] = tree[k]
    BY <1>0, <2>1 DEF GuardFuns
  <2>3. /\ hp' \in [Guarded -> HelperPlaces]
        /\ \A k \in Guarded \ {j} : hp'[k] = hp[k] /\ res'[k] = res[k]
        /\ res' = [k \in Guarded |-> res'[k]]
    BY <1>0, <1>1 DEF GuardFuns, HelperPlaces
  <2>4. QED
    BY <1>0, <1>1, <2>2, <2>3 DEF Touches, GuardFuns
<1>4. GroupGone(j)'
  BY <1>0, <1>1, <1>2 DEF JobKnown, JobInv, JobOK, GroupGone, GroupGoneIn, Claimed
<1>5. JobInv(j)'
  BY <1>0, <1>1, <1>2, <1>4 DEF JobKnown, JobInv, JobOK, GroupGone, GroupGoneIn, PreSend,
     DropsLease, Claimed
<1>6. tx.op # "none" => tx.job # j
  BY <1>0, <1>1 DEF JobKnown, OwnTx, JobInv, JobOK, PreSend
<1>7. QED
  BY <1>1, <1>3, <1>4, <1>5, <1>6, JobStep

\* The places before the tree is ended.
LEMMA HelperMoves ==
  ASSUME GuardInv, NEW j \in Guarded,
         \/ HelperSpawns(j) \/ HelperBreaks(j) \/ ReleaseGate(j) \/ ExecConfirmed(j)
         \/ DirectExits(j) \/ SignalEscapes(j) \/ HelperKilled(j)
  PROVE  GuardInv'
<1>0. JobKnown(j) /\ GuardFuns /\ TxInv
  BY JobFacts
<1>1. ASSUME UNCHANGED <<ledger, cp, res, ran>>, Touches(j), JobInv(j)', GroupGone(j)
               => GroupGone(j)',
             tx' = NoTx \/ (TxSame /\ (tx.op # "none" => tx.job # j))
      PROVE  GuardInv'
  BY <1>0, <1>1, KeepFacts, JobStep DEF JobKnown
<1>2. CASE HelperSpawns(j)
  <2>1. /\ UNCHANGED <<ledger, cp, res, ran, exec>> /\ hp[j] = "flying" /\ TxSame
        /\ tree' = [tree EXCEPT ![j] = {"gate"}] /\ hp' = [hp EXCEPT ![j] = "spawned"]
    BY <1>0, <1>2, TxFacts DEF HelperSpawns, HelperAt
  <2>2. Touches(j)
    BY <1>0, <2>1 DEF Touches, GuardFuns, Kinds, HelperPlaces
  <2>3. tree'[j] = {"gate"} /\ hp'[j] = "spawned"
    BY <1>0, <2>1 DEF GuardFuns
  <2>4. JobInv(j)' /\ (GroupGone(j) => GroupGone(j)') /\ (tx.op # "none" => tx.job # j)
    BY <1>0, <2>1, <2>3 DEF JobKnown, JobInv, JobOK, GroupGone, GroupGoneIn, Claimed, PreSend,
       OwnTx
  <2>5. QED
    BY <1>1, <2>1, <2>2, <2>4
<1>3. CASE HelperBreaks(j)
  <2>1. /\ UNCHANGED <<ledger, cp, res, ran, exec, tree>> /\ hp[j] \in {"spawned", "claiming"}
        /\ hp' = [hp EXCEPT ![j] = "broken"] /\ tx' = IF hp[j] = "claiming" THEN NoTx ELSE tx
    BY <1>3 DEF HelperBreaks, HelperAt
  <2>2. Touches(j) /\ hp'[j] = "broken"
    BY <1>0, <2>1 DEF Touches, GuardFuns, HelperPlaces
  <2>3. JobInv(j)' /\ (GroupGone(j) => GroupGone(j)')
    BY <1>0, <2>1, <2>2 DEF JobKnown, JobInv, JobOK, GroupGone, GroupGoneIn, Claimed, PreSend
  <2>4. CASE hp[j] = "claiming"
    BY <1>1, <2>1, <2>2, <2>3, <2>4, Zenon
  <2>5. CASE hp[j] = "spawned"
    <3>1. tx.op # "none" => tx.job # j
      BY <1>0, <2>5 DEF JobKnown, JobInv, JobOK, PreSend, OwnTx
    <3>2. TxSame
      BY <1>0, <2>1, <2>5, TxFacts
    <3>3. QED
      BY <1>1, <2>1, <2>2, <2>3, <3>1, <3>2, Zenon
  <2>6. QED
    BY <2>1, <2>4, <2>5
<1>4. CASE ReleaseGate(j)
  <2>1. /\ UNCHANGED <<ledger, cp, res, ran, tree>> /\ hp[j] = "claimed" /\ TxSame
        /\ hp' = [hp EXCEPT ![j] = "released"] /\ exec' = [exec EXCEPT ![j] = "open"]
    BY <1>0, <1>4, TxFacts DEF ReleaseGate, HelperAt
  <2>2. Touches(j) /\ hp'[j] = "released" /\ exec'[j] = "open"
    BY <1>0, <2>1 DEF Touches, GuardFuns, HelperPlaces, Wrote
  <2>3. JobInv(j)' /\ (GroupGone(j) => GroupGone(j)') /\ (tx.op # "none" => tx.job # j)
    BY <1>0, <2>1, <2>2 DEF JobKnown, JobInv, JobOK, GroupGone, GroupGoneIn, Claimed, PreSend,
       OwnTx
  <2>4. QED
    BY <1>1, <2>1, <2>2, <2>3
<1>5. CASE ExecConfirmed(j) \/ DirectExits(j)
  <2>1. /\ UNCHANGED <<ledger, cp, res, ran, tree, exec>> /\ TxSame
        /\ hp[j] \in {"released", "watch"}
        /\ \E h \in {"watch", "drain"} : hp' = [hp EXCEPT ![j] = h]
    BY <1>0, <1>5, TxFacts DEF ExecConfirmed, DirectExits, HelperAt
  <2>2. Touches(j) /\ hp'[j] \in {"watch", "drain"}
    BY <1>0, <2>1 DEF Touches, GuardFuns, HelperPlaces
  <2>3. JobInv(j)' /\ (GroupGone(j) => GroupGone(j)') /\ (tx.op # "none" => tx.job # j)
    BY <1>0, <2>1, <2>2 DEF JobKnown, JobInv, JobOK, GroupGone, GroupGoneIn, Claimed, PreSend,
       OwnTx
  <2>4. QED
    BY <1>1, <2>1, <2>2, <2>3
<1>6. CASE SignalEscapes(j) \/ HelperKilled(j)
  <2>1. /\ UNCHANGED <<ledger, cp, res, ran, tree, exec>>
        /\ hp[j] \notin {"none", "flying", "done", "killed"}
        /\ hp' = [hp EXCEPT ![j] = "killed"]
        /\ tx' = tx \/ tx' = NoTx
        /\ tx.op = "claim" /\ tx.job = j /\ hp[j] \notin {"xfree", "xhold"} => tx' = NoTx
    BY <1>6, Zenon DEF SignalEscapes, HelperKilled, HelperAt
  <2>2. Touches(j) /\ hp'[j] = "killed"
    BY <1>0, <2>1 DEF Touches, GuardFuns, HelperPlaces
  <2>3. JobInv(j)' /\ (GroupGone(j) => GroupGone(j)')
    BY <1>0, <2>1, <2>2 DEF JobKnown, JobInv, JobOK, GroupGone, GroupGoneIn, Claimed, PreSend
  <2>4. CASE tx' = NoTx
    BY <1>1, <2>1, <2>2, <2>3, <2>4
  <2>5. CASE tx' = tx /\ tx' # NoTx
    <3>1. tx.op # "none" => tx.job # j
      BY <1>0, <2>1, <2>5 DEF JobKnown, JobInv, JobOK, PreSend, OwnTx
    <3>2. TxSame
      BY <1>0, <2>5, TxFacts
    <3>3. QED
      BY <1>1, <2>1, <2>2, <2>3, <3>1, <3>2
  <2>6. QED
    BY <2>1, <2>4, <2>5
<1>7. QED
  BY <1>2, <1>3, <1>4, <1>5, <1>6

\* The tree of a claimed job is ended, wholly or not; the lease is kept for
\* finalize_claimed_lease.
LEMMA TerminateStep ==
  ASSUME GuardInv, NEW j \in Guarded,
         NEW after \in {Normal, Handler}, Terminate(j, after),
         hp[j] \in Claimed, UNCHANGED <<ledger, exec, ran, cp>>,
         res' = [res EXCEPT ![j] = res'[j]], res'[j].started \in {"null", "true", "false"},
         res'[j].started = "false" => exec[j] \in {"none", "failed"}
  PROVE  GuardInv'
<1>0. JobKnown(j) /\ GuardFuns /\ TxInv
  BY JobFacts
<1>1. /\ TxSame
      /\ \E t \in SUBSET tree[j], h \in {"free", "hold", "xfree", "xhold"} :
            /\ tree' = [tree EXCEPT ![j] = t] /\ hp' = [hp EXCEPT ![j] = h]
            /\ h \in {"free", "xfree"} => t = {}
  <2>0. after.free \in {"free", "xfree"} /\ after.hold \in {"hold", "xhold"}
    BY DEF Normal, Handler
  <2>1. CASE Clear(j) /\ HelperAt(j, after.free)
    BY <1>0, <2>0, <2>1, TxFacts DEF Clear, HelperAt
  <2>2. CASE /\ \E left \in (SUBSET tree[j]) \ {{}} : tree' = [tree EXCEPT ![j] = left]
             /\ HelperAt(j, after.hold) /\ UNCHANGED tx
    BY <1>0, <2>0, <2>2, TxFacts DEF HelperAt
  <2>3. QED
    BY <2>1, <2>2 DEF Terminate
<1>2. /\ tree'[j] \subseteq tree[j] /\ hp'[j] \in {"free", "hold", "xfree", "xhold"}
      /\ hp'[j] \in {"free", "xfree"} => tree'[j] = {}
  BY <1>0, <1>1 DEF GuardFuns
<1>3. Touches(j)
  BY <1>0, <1>1, <1>2 DEF Touches, GuardFuns, HelperPlaces
<1>4. JobInv(j)' /\ (GroupGone(j) => GroupGone(j)') /\ (tx.op # "none" => tx.job # j)
  BY <1>0, <1>1, <1>2 DEF JobKnown, JobInv, JobOK, GroupGone, GroupGoneIn, Claimed, PreSend,
     OwnTx
<1>5. QED
  BY <1>1, <1>3, <1>4, KeepFacts, JobStep

\* The steps that end it.
LEMMA TerminateSteps ==
  ASSUME GuardInv, NEW j \in Guarded,
         \/ ExecFailed(j) \/ SampleStops(j) \/ Drained(j)
         \/ \E att \in BOOLEAN : /\ Except(j, TRUE, att) /\ hp[j] \in Claimed
                                 /\ ~att => hp[j] = "claimed"
  PROVE  GuardInv'
<1>0. JobKnown(j) /\ GuardFuns /\ TxInv
  BY JobFacts
<1> DEFINE Told == /\ res' = [res EXCEPT ![j] = res'[j]]
                   /\ res'[j].started \in {"null", "true", "false"}
                   /\ res'[j].started = "false" => exec[j] \in {"none", "failed"}
<1>1. CASE ExecFailed(j)
  <2>1. /\ Terminate(j, Normal) /\ hp[j] \in Claimed
        /\ UNCHANGED <<ledger, exec, ran, cp>>
        /\ \E status : Result(j, status, "false")
    BY <1>1, Zenon DEF ExecFailed, Claimed
  <2>2. Told
    BY <1>0, <1>1, <2>1, ResultFacts DEF ExecFailed
  <2>3. QED
    BY <2>1, <2>2, TerminateStep
<1>2. CASE SampleStops(j) \/ Drained(j)
  <2>1. /\ Terminate(j, Normal) /\ hp[j] \in Claimed
        /\ UNCHANGED <<ledger, exec, ran, cp>>
        /\ \E status : Result(j, status, "true")
    BY <1>2, Zenon DEF SampleStops, Drained, Claimed
  <2>2. Told
    <3>1. res' = [res EXCEPT ![j] = res'[j]] /\ res'[j].started = "true"
      BY <1>0, <2>1, ResultFacts
    <3>2. QED
      BY <3>1
  <2>3. QED
    BY <2>1, <2>2, TerminateStep
<1>3. ASSUME NEW att \in BOOLEAN, Except(j, TRUE, att), hp[j] \in Claimed,
             ~att => hp[j] = "claimed"
      PROVE  GuardInv'
  <2>1. Terminate(j, Handler) /\ UNCHANGED <<ledger, exec, ran, cp>>
    BY <1>3 DEF Except, Keep
  <2>2. \/ NoResult(j) \/ (\E status : Result(j, status, "true"))
        \/ ~att /\ \E status : Result(j, status, "false")
    BY <1>3, Zenon DEF Except
  <2>3. ~att => exec[j] = "none"
    BY <1>0, <1>3 DEF JobKnown, JobInv, JobOK
  <2>4. Told
    <3>1. CASE NoResult(j)
      BY <1>0, <3>1, ResultFacts
    <3>2. CASE \E status : Result(j, status, "true")
      <4>1. res' = [res EXCEPT ![j] = res'[j]] /\ res'[j].started = "true"
        BY <1>0, <3>2, ResultFacts
      <4>2. QED
        BY <4>1
    <3>3. CASE ~att /\ \E status : Result(j, status, "false")
      <4>1. res' = [res EXCEPT ![j] = res'[j]] /\ res'[j].started = "false"
        BY <1>0, <3>3, ResultFacts
      <4>2. QED
        BY <2>3, <3>3, <4>1
    <3>4. QED
      BY <2>2, <3>1, <3>2, <3>3
  <2>5. QED
    BY <1>3, <2>1, <2>4, TerminateStep
<1>4. QED
  BY <1>1, <1>2, <1>3

\* finalize_claimed_lease: the lease goes when the tree is gone, and is
\* quarantined when it is not.
LEMMA FinalizeSteps ==
  ASSUME GuardInv, NEW j \in Guarded, HelperFrees(j) \/ HoldEnds(j) \/ Quarantine(j)
  PROVE  GuardInv'
<1>0. JobKnown(j) /\ GuardFuns /\ TxInv
  BY JobFacts
<1>1. /\ UNCHANGED <<tx, tree, exec, res, ran, cp>> /\ hp' = [hp EXCEPT ![j] = "done"]
      /\ hp[j] \in {"free", "xfree", "hold", "xhold"}
  BY DEF HelperFrees, HoldEnds, Quarantine, HelperAt
<1>2. Touches(j) /\ hp'[j] = "done"
  BY <1>0, <1>1 DEF Touches, GuardFuns, HelperPlaces
<1>3. /\ GroupGone(j) => GroupGone(j)'
      /\ tx.op # "none" => tx.job # j
  BY <1>0, <1>1, <1>2 DEF JobKnown, JobInv, JobOK, GroupGone, GroupGoneIn, Claimed, PreSend,
     OwnTx
<1>4. TxSame
  BY <1>0, <1>1, TxFacts
<1>5. CASE HelperFrees(j) \/ HoldEnds(j)
  <2>1. DropsLease(j, {"reserved", "running"}) /\ tree[j] = {}
    BY <1>0, <1>5, ReleaseFacts DEF HelperFrees, HoldEnds, JobKnown, JobInv, JobOK
  <2>2. JobInv(j)'
    BY <1>0, <1>1, <1>2, <2>1 DEF JobKnown, JobInv, JobOK, GroupGoneIn, Claimed, PreSend,
       DropsLease
  <2>3. QED
    BY <1>2, <1>3, <1>4, <2>1, <2>2, JobStep
<1>6. CASE Quarantine(j)
  <2> DEFINE l == [[ledger[j] EXCEPT !.st = "quarantined"] EXCEPT !.surv = tree[j]]
  <2>1. ledger' = [ledger EXCEPT ![j] = l] /\ tx.op = "none"
    BY <1>6, Zenon DEF Quarantine, Write
  <2>2. LedgerShape(ledger)
    BY DEF GuardInv, GuardShape
  <2>3. "st" \in DOMAIN l /\ l.st = "quarantined"
    BY <2>2, Zenon DEF LedgerShape
  <2>4. /\ LedgerShape(ledger') /\ ledger'[j] = l
        /\ \A k \in Guarded \ {j} : ledger'[k] = ledger[k]
    <3> HIDE DEF l
    <3>1. l.st \in Leased
      BY <2>3 DEF Leased
    <3> DEFINE ls == [ledger EXCEPT ![j] = l]
    <3>2. LedgerShape(ls) /\ ls[j] = l /\ \A k \in Guarded \ {j} : ls[k] = ledger[k]
      BY <2>2, <2>3, <3>1, PutFacts
    <3> HIDE DEF ls
    <3>3. ledger' = ls
      BY <2>1 DEF ls
    <3>4. QED
      BY <3>2, <3>3
  <2>5. ledger'[j].st = "quarantined"
    BY <2>3, <2>4
  <2>6. Spares(j)
    BY <2>4 DEF Spares
  <2>7. JobInv(j)'
    BY <1>0, <1>1, <1>2, <2>5 DEF JobKnown, JobInv, JobOK, Claimed, PreSend
  <2>8. QED
    BY <1>2, <1>3, <1>4, <2>1, <2>6, <2>7, LocalStep
<1>7. QED
  BY <1>5, <1>6

\* Every step of a helper that is not under ledger.lock.
LEMMA HelperSteps ==
  ASSUME GuardInv, NEW j \in Guarded, Helper(j) \/ ClaimRefused(j)
  PROVE  GuardInv'
<1>1. CASE BreakEnds(j)
  BY <1>1, HelperEnds DEF BreakEnds
<1>2. CASE ExecUnknown(j)
  BY <1>2, TerminateSteps DEF ExecUnknown, Claimed
<1>3. CASE SignalStops(j)
  <2>1. CASE /\ hp[j] = "claimed"
             /\ \/ Except(j, FALSE, FALSE) \/ Except(j, TRUE, FALSE)
                \/ Except(j, TRUE, TRUE)
    BY <2>1, HelperEnds, TerminateSteps DEF Claimed
  <2>2. CASE /\ hp[j] \in {"released", "watch", "drain", "free", "hold"}
             /\ Except(j, TRUE, TRUE)
    BY <2>2, TerminateSteps DEF Claimed
  <2>3. QED
    BY <1>3, <2>1, <2>2 DEF SignalStops
<1>4. QED
  BY <1>1, <1>2, <1>3, HelperEnds, HelperMoves, TerminateSteps, FinalizeSteps, Zenon
     DEF Helper

-----------------------------------------------------------------------------
(* The controller.                                                         *)

\* A write of the reaped ledger.
LEMMA ReapFacts ==
  ASSUME GuardInv, NEW j \in Guarded, WriteIfReaped \/ Keep
  PROVE  /\ Spares(j)
         /\ ledger'[j].st = ledger[j].st \/ (ledger'[j].st = "none" /\ GroupGone(j))
<1>1. ledger' = ledger \/ ledger' = Reaped
  BY Zenon DEF WriteIfReaped, Keep, Write
<1>2. CASE ledger' = ledger
  BY <1>2, KeepFacts
<1>3. CASE ledger' = Reaped
  BY <1>3, ReapedFacts DEF Spares, NoLease
<1>4. QED
  BY <1>1, <1>2, <1>3

\* The controller sends, loses the connection, releases and reports; or its
\* reservation or renewal is refused at once.
LEMMA ControllerSteps ==
  ASSUME GuardInv, NEW j \in Guarded,
         Controller(j) \/ ReserveRefused(j) \/ RenewRefused(j)
  PROVE  GuardInv'
<1>0. JobKnown(j) /\ GuardFuns /\ TxInv
  BY JobFacts
<1>1. CASE Send(j)
  <2>1. /\ UNCHANGED <<ledger, tx, tree, exec, res, ran>> /\ cp[j] = "send"
        /\ cp' = [cp EXCEPT ![j] = "sent"] /\ hp' = [hp EXCEPT ![j] = "flying"]
    BY <1>1 DEF Send
  <2>2. Touches(j) /\ cp'[j] = "sent" /\ hp'[j] = "flying"
    BY <1>0, <2>1 DEF Touches, GuardFuns, HelperPlaces, ControllerPlaces
  <2>3. JobInv(j)' /\ (GroupGone(j) => GroupGone(j)') /\ (tx.op # "none" => tx.job # j)
    BY <1>0, <2>1, <2>2 DEF JobKnown, JobInv, JobOK, GroupGone, GroupGoneIn, Claimed, PreSend,
       OwnTx
  <2>4. QED
    BY <1>0, <2>1, <2>2, <2>3, TxFacts, KeepFacts, JobStep
<1>2. CASE GiveUp(j) \/ Returns(j) \/ Breaks(j) \/ ReserveRefused(j)
  <2>1. /\ UNCHANGED <<ledger, tx, tree, exec, res, ran, hp>>
        /\ \/ cp[j] \in {"reserved", "send"} /\ cp' = [cp EXCEPT ![j] = "release"]
           \/ cp[j] = "sent" /\ hp[j] \in {"done", "killed"} /\ cp' = [cp EXCEPT ![j] = "finish"]
           \/ cp[j] = "sent" /\ cp' = [cp EXCEPT ![j] = "lost"]
           \/ cp[j] = "admit" /\ tx.op = "none" /\ cp' = [cp EXCEPT ![j] = "notstarted"]
    BY <1>2 DEF GiveUp, Returns, Breaks, ReserveRefused, procs
  <2>2. /\ Touches(j)
        /\ \/ cp[j] \in {"reserved", "send"} /\ cp'[j] = "release"
           \/ cp[j] = "sent" /\ hp[j] \in {"done", "killed"} /\ cp'[j] = "finish"
           \/ cp[j] = "sent" /\ cp'[j] = "lost"
           \/ cp[j] = "admit" /\ tx.op = "none" /\ cp'[j] = "notstarted"
    BY <1>0, <2>1 DEF Touches, GuardFuns, ControllerPlaces, Outcomes, PreSend
  <2>3. /\ JobInv(j)' /\ (GroupGone(j) => GroupGone(j)')
        /\ tx.op # "none" /\ tx.job = j
             => OwnTx(tx.op, tx.phase, tx.ls[j].st, hp'[j], cp'[j])
    BY <1>0, <2>1, <2>2, KeepFacts DEF JobKnown, JobInv, JobOK, GroupGone, GroupGoneIn, Claimed,
       PreSend, OwnTx
  <2>4. QED
    BY <1>0, <2>1, <2>2, <2>3, TxFacts, KeepFacts, JobStep
<1>3. CASE RenewRefused(j)
  <2>1. /\ UNCHANGED <<tx, tree, exec, res, ran, hp>> /\ tx.op = "none"
        /\ cp[j] = "reserved" /\ cp' = [cp EXCEPT ![j] = "release"]
        /\ WriteIfReaped \/ Keep
    BY <1>3, Zenon DEF RenewRefused, procs
  <2>2. Touches(j) /\ cp'[j] = "release"
    BY <1>0, <2>1 DEF Touches, GuardFuns, ControllerPlaces, PreSend
  <2>3. /\ Spares(j)
        /\ ledger'[j].st = ledger[j].st \/ (ledger'[j].st = "none" /\ GroupGone(j))
    BY <2>1, ReapFacts
  <2>4. JobInv(j)' /\ (GroupGone(j) => GroupGone(j)')
    BY <1>0, <2>1, <2>2, <2>3 DEF JobKnown, JobInv, JobOK, GroupGone, GroupGoneIn, Claimed,
       PreSend
  <2>5. TxSame
    BY <1>0, <2>1, TxFacts
  <2>6. QED
    BY <2>1, <2>2, <2>3, <2>4, <2>5, LocalStep
<1>4. CASE ControllerRelease(j)
  <2>1. /\ UNCHANGED <<tx, tree, exec, res, ran, hp>> /\ BestEffortRelease(j, {"reserved"})
        /\ cp[j] \in {"release", "lost", "finish"}
        /\ cp' = [cp EXCEPT ![j] = CASE cp[j] = "release" -> "notstarted"
                                     [] cp[j] = "lost" -> "unknown" [] OTHER -> Outcome(j)]
    BY <1>4 DEF ControllerRelease, procs
  <2>2. /\ Outcome(j)
             \in {"refused", "stopped", "ok", "unknown", "error-true", "error-false"}
        /\ Outcome(j) \in {"refused", "error-false"}
             => hp[j] # "killed" /\ res[j].started = "false"
    BY DEF Outcome, StartEvidence
  <2>3. \/ cp[j] = "release" /\ cp' = [cp EXCEPT ![j] = "notstarted"]
        \/ cp[j] = "lost" /\ cp' = [cp EXCEPT ![j] = "unknown"]
        \/ cp[j] = "finish" /\ cp' = [cp EXCEPT ![j] = Outcome(j)]
    BY <2>1
  <2>4. /\ Touches(j)
        /\ \/ cp[j] = "release" /\ cp'[j] = "notstarted"
           \/ cp[j] = "lost" /\ cp'[j] = "unknown"
           \/ cp[j] = "finish" /\ cp'[j] = Outcome(j)
    BY <1>0, <2>1, <2>2, <2>3 DEF Touches, GuardFuns, ControllerPlaces, Outcomes
  <2>5. DropsLease(j, {"reserved"})
    BY <2>1, ReleaseFacts
  <2>6. JobInv(j)' /\ (GroupGone(j) => GroupGone(j)')
    BY <1>0, <2>1, <2>2, <2>4, <2>5 DEF JobKnown, JobInv, JobOK, GroupGone, GroupGoneIn,
       Claimed, PreSend, DropsLease
  <2>7. tx.op # "none" /\ tx.job = j => OwnTx(tx.op, tx.phase, tx.ls[j].st, hp'[j], cp'[j])
    BY <1>0, <2>1, <2>4 DEF JobKnown, JobInv, JobOK, OwnTx, PreSend
  <2>8. TxSame
    BY <1>0, <2>1, TxFacts
  <2>9. QED
    BY <2>4, <2>5, <2>6, <2>7, <2>8, JobStep
<1>5. QED
  BY <1>1, <1>2, <1>3, <1>4 DEF Controller

-----------------------------------------------------------------------------
(* The operations under ledger.lock.                                       *)

\* Readings and moves of memory leave everything else alone.
LEMMA StillStep ==
  ASSUME GuardInv, TxSame, UNCHANGED <<ledger, tree, exec, hp, cp, res, ran>>
  PROVE  GuardInv'
<1>1. GuardShape' /\ \A j \in Guarded : JobInv(j)' /\ (GroupGone(j) => GroupGone(j)')
  BY Zenon DEF GuardInv, GuardShape, JobInv, GroupGone
<1>2. TxInv'
  <2>1. CASE tx.op = "none"
    BY <2>1, Zenon DEF TxSame, TxInv
  <2>2. CASE tx.op # "none"
    <3>1. TxInv
      BY DEF GuardInv
    <3>2. QED
      BY <1>1, <2>2, <3>1, Zenon DEF TxSame, TxInv
  <2>3. QED
    BY <2>1, <2>2
<1>3. QED
  BY <1>1, <1>2 DEF GuardInv

\* An operation takes the lock, or starts its second bracket.
LEMMA EnterStep ==
  ASSUME GuardInv, NEW j \in Guarded, Touches(j), JobInv(j)', UNCHANGED ledger,
         NEW op \in {"reserve", "renew", "claim"}, NEW phase, NEW ls, NEW ok,
         tx' = Bracket(op, j, phase, ls, ok), LedgerShape(ls),
         OwnTx(op, phase, ls[j].st, hp'[j], cp'[j]),
         \A k \in Guarded \ {j} : ls[k] = ledger[k] \/ (ls[k] = NoLease /\ GroupGone(k))
  PROVE  GuardInv'
<1>1. /\ {"op", "job", "phase", "ls"} \subseteq DOMAIN tx' /\ tx'.op = op /\ tx'.job = j
      /\ tx'.phase = phase /\ tx'.ls = ls
  BY DEF Bracket
<1>2. GuardShape'
  <2>1. \A k \in Guarded : res'[k].started \in {"null", "true", "false"}
    BY DEF Touches, GuardInv, GuardShape
  <2>2. LedgerShape(ledger')
    BY KeepFacts DEF Spares
  <2>3. QED
    BY <2>1, <2>2, Zenon DEF Touches, GuardShape
<1>3. ASSUME NEW k \in Guarded \ {j} PROVE JobInv(k)' /\ (GroupGone(k) => GroupGone(k)')
  BY <1>3 DEF GuardInv, Touches, JobInv, GroupGone
<1>4. TxInv'
  <2>1. \A k \in Guarded \ {j} : ls[k] = ledger'[k] \/ (ls[k] = NoLease /\ GroupGone(k)')
    BY <1>3
  <2>2. QED
    BY <1>1, <2>1, Zenon DEF TxInv
<1>5. QED
  BY <1>2, <1>3, <1>4 DEF GuardInv

\* An operation gives the lock back: it wrote its own lease beside those it
\* found, or nothing.
LEMMA FinishStep ==
  ASSUME GuardInv, NEW j \in Guarded, tx.op # "none", tx.job = j, tx' = NoTx, Touches(j),
         JobInv(j)',
         \/ UNCHANGED ledger
         \/ \E l : /\ "st" \in DOMAIN l /\ l.st \in Leased
                   /\ ledger' = [tx.ls EXCEPT ![j] = l]
  PROVE  GuardInv'
<1>1. CASE UNCHANGED ledger
  BY <1>1, KeepFacts, LocalStep
<1>2. ASSUME NEW l, "st" \in DOMAIN l, l.st \in Leased, ledger' = [tx.ls EXCEPT ![j] = l]
      PROVE  GuardInv'
  <2> DEFINE ls == [tx.ls EXCEPT ![j] = l]
  <2>1. /\ LedgerShape(tx.ls)
        /\ \A k \in Guarded \ {j} :
                tx.ls[k] = ledger[k] \/ (tx.ls[k] = NoLease /\ GroupGone(k))
    BY Zenon DEF GuardInv, TxInv
  <2>2. LedgerShape(ls) /\ \A k \in Guarded \ {j} : ls[k] = tx.ls[k]
    BY <1>2, <2>1, PutFacts
  <2>3. Spares(j)
    <3> HIDE DEF ls
    <3>1. ledger' = ls
      BY <1>2 DEF ls
    <3>2. QED
      BY <2>1, <2>2, <3>1 DEF Spares
  <2>4. QED
    BY <2>3, LocalStep
<1>3. QED
  BY <1>1, <1>2

\* What the operation under the lock knows of its own job.
LEMMA HolderFacts ==
  ASSUME GuardInv, tx.op # "none", NEW j, j = tx.job
  PROVE  /\ j \in Guarded /\ LedgerShape(tx.ls) /\ "st" \in DOMAIN tx.ls[j]
         /\ OwnTx(tx.op, tx.phase, tx.ls[j].st, hp[j], cp[j])
         /\ \A k \in Guarded \ {j} :
                 tx.ls[k] = ledger[k] \/ (tx.ls[k] = NoLease /\ GroupGone(k))
<1>1. /\ tx.job \in Guarded /\ LedgerShape(tx.ls)
      /\ OwnTx(tx.op, tx.phase, tx.ls[tx.job].st, hp[tx.job], cp[tx.job])
      /\ \A k \in Guarded \ {tx.job} :
              tx.ls[k] = ledger[k] \/ (tx.ls[k] = NoLease /\ GroupGone(k))
  BY Zenon DEF GuardInv, TxInv
<1>2. QED
  BY <1>1, Zenon DEF LedgerShape

\* An operation takes ledger.lock, reaps and opens its first bracket.
LEMMA EnterSteps ==
  ASSUME GuardInv, NEW j \in Guarded,
         ReserveEnter(j) \/ RenewEnter(j) \/ ClaimEnter(j)
  PROVE  GuardInv'
<1>0. JobKnown(j) /\ GuardFuns /\ TxInv
  BY JobFacts
<1>1. /\ LedgerShape(Reaped) /\ "st" \in DOMAIN Reaped[j]
      /\ \A k \in Guarded \ {j} :
              Reaped[k] = ledger[k] \/ (Reaped[k] = NoLease /\ GroupGone(k))
  BY ReapedFacts, Zenon DEF LedgerShape
<1>2. CASE ReserveEnter(j)
  <2>1. /\ UNCHANGED <<ledger, tree, exec, res, ran, hp, cp>> /\ cp[j] = "admit"
        /\ \/ tx' = Bracket("reserve", j, "size", Reaped, TRUE)
           \/ \E allow, rem :
                tx' = Bracket("reserve", j, "final",
                              [Reaped EXCEPT ![j] = NewLease(j, allow, rem)], TRUE)
    BY <1>2, Zenon DEF ReserveEnter, procs
  <2>2. Touches(j) /\ JobInv(j)'
    BY <1>0, <2>1 DEF Touches, GuardFuns, JobKnown, JobInv
  <2>3. CASE tx' = Bracket("reserve", j, "size", Reaped, TRUE)
    <3>1. OwnTx("reserve", "size", Reaped[j].st, hp'[j], cp'[j])
      BY <2>1 DEF OwnTx
    <3>2. QED
      BY <1>1, <2>1, <2>2, <2>3, <3>1, EnterStep
  <2>4. ASSUME NEW allow, NEW rem,
               tx' = Bracket("reserve", j, "final",
                             [Reaped EXCEPT ![j] = NewLease(j, allow, rem)], TRUE)
        PROVE  GuardInv'
    <3> DEFINE l == NewLease(j, allow, rem)
               ls == [Reaped EXCEPT ![j] = l]
    <3>1. "st" \in DOMAIN l /\ l.st = "reserved" /\ l.st \in Leased
      BY NewLeaseFacts DEF Leased
    <3> HIDE DEF l
    <3>2. LedgerShape(ls) /\ ls[j] = l /\ \A k \in Guarded \ {j} : ls[k] = Reaped[k]
      BY <1>1, <3>1, PutFacts
    <3>3. tx' = Bracket("reserve", j, "final", ls, TRUE)
      BY <2>4 DEF l
    <3> HIDE DEF ls
    <3>4. OwnTx("reserve", "final", ls[j].st, hp'[j], cp'[j])
      BY <2>1, <3>1, <3>2 DEF OwnTx
    <3>5. \A k \in Guarded \ {j} : ls[k] = ledger[k] \/ (ls[k] = NoLease /\ GroupGone(k))
      BY <1>1, <3>2
    <3>6. QED
      BY <2>1, <2>2, <3>2, <3>3, <3>4, <3>5, EnterStep
  <2>5. QED
    BY <2>1, <2>3, <2>4
<1>3. CASE RenewEnter(j)
  <2>1. /\ UNCHANGED <<ledger, tree, exec, res, ran, hp>>
        /\ cp[j] = "reserved" /\ cp' = [cp EXCEPT ![j] = "renewing"]
             /\ Reaped[j].st = "reserved"
        /\ \E phase : tx' = Bracket("renew", j, phase, Reaped, TRUE)
    BY <1>3, Zenon DEF RenewEnter, Renewable, procs
  <2>2. Touches(j) /\ cp'[j] = "renewing"
    BY <1>0, <2>1 DEF Touches, GuardFuns, ControllerPlaces, PreSend
  <2>3. JobInv(j)'
    BY <1>0, <2>1, <2>2, KeepFacts DEF JobKnown, JobInv, JobOK, PreSend
  <2>4. \A phase : OwnTx("renew", phase, Reaped[j].st, hp'[j], cp'[j])
    BY <2>1, <2>2 DEF OwnTx
  <2>5. PICK phase : tx' = Bracket("renew", j, phase, Reaped, TRUE)
    BY <2>1
  <2>6. QED
    BY <1>1, <2>1, <2>2, <2>3, <2>4, <2>5, EnterStep
<1>4. CASE ClaimEnter(j)
  <2> DEFINE l == [Reaped[j] EXCEPT !.st = "running"]
             ls == [Reaped EXCEPT ![j] = l]
  <2>1. /\ UNCHANGED <<ledger, tree, exec, res, ran, cp>>
        /\ hp[j] = "spawned" /\ hp' = [hp EXCEPT ![j] = "claiming"]
        /\ tx' = Bracket("claim", j, "final", ls, TRUE)
    BY <1>4, Zenon DEF ClaimEnter, HelperAt
  <2>2. "st" \in DOMAIN l /\ l.st = "running"
    BY <1>1, Zenon
  <2>3. l.st \in Leased
    BY <2>2 DEF Leased
  <2> HIDE DEF l
  <2>4. LedgerShape(ls) /\ ls[j] = l /\ \A k \in Guarded \ {j} : ls[k] = Reaped[k]
    BY <1>1, <2>2, <2>3, PutFacts
  <2> HIDE DEF ls
  <2>5. Touches(j) /\ hp'[j] = "claiming"
    BY <1>0, <2>1 DEF Touches, GuardFuns, HelperPlaces
  <2>6. JobInv(j)'
    BY <1>0, <2>1, <2>5, KeepFacts DEF JobKnown, JobInv, JobOK, GroupGoneIn, Claimed, PreSend
  <2>7. OwnTx("claim", "final", ls[j].st, hp'[j], cp'[j])
    BY <2>2, <2>4, <2>5 DEF OwnTx
  <2>8. \A k \in Guarded \ {j} : ls[k] = ledger[k] \/ (ls[k] = NoLease /\ GroupGone(k))
    BY <1>1, <2>4
  <2>9. QED
    BY <2>1, <2>4, <2>5, <2>6, <2>7, <2>8, EnterStep
<1>5. QED
  BY <1>2, <1>3, <1>4

\* The second bracket of a reservation or a renewal, or its refusal.
LEMMA SizeSteps ==
  ASSUME GuardInv, NEW j, tx.job = j, ReserveSize \/ RenewSize
  PROVE  GuardInv'
<1>0. tx.op # "none"
  BY DEF ReserveSize, RenewSize
<1>1. /\ j \in Guarded /\ LedgerShape(tx.ls) /\ "st" \in DOMAIN tx.ls[j]
      /\ OwnTx(tx.op, tx.phase, tx.ls[j].st, hp[j], cp[j])
      /\ \A k \in Guarded \ {j} :
              tx.ls[k] = ledger[k] \/ (tx.ls[k] = NoLease /\ GroupGone(k))
  BY <1>0, HolderFacts
<1>2. JobKnown(j) /\ GuardFuns /\ TxInv
  BY <1>1, JobFacts
<1>3. UNCHANGED <<ledger, tree, exec, res, ran, hp>>
  BY DEF ReserveSize, RenewSize, procs
<1>4. ASSUME UNCHANGED cp, NEW op \in {"reserve", "renew"}, op = tx.op, NEW l, NEW ok,
             "st" \in DOMAIN l, l.st = "reserved",
             tx' = Bracket(op, j, "final", [tx.ls EXCEPT ![j] = l], ok)
      PROVE  GuardInv'
  <2> DEFINE ls == [tx.ls EXCEPT ![j] = l]
  <2>1. LedgerShape(ls) /\ ls[j] = l /\ \A k \in Guarded \ {j} : ls[k] = tx.ls[k]
    <3>1. l.st \in Leased
      BY <1>4 DEF Leased
    <3>2. QED
      BY <1>1, <1>4, <3>1, PutFacts
  <2>2. Touches(j) /\ JobInv(j)'
    BY <1>2, <1>3, <1>4 DEF Touches, GuardFuns, JobKnown, JobInv
  <2> HIDE DEF ls
  <2>3. OwnTx(op, "final", ls[j].st, hp'[j], cp'[j])
    BY <1>1, <1>3, <1>4, <2>1 DEF OwnTx
  <2>4. \A k \in Guarded \ {j} : ls[k] = ledger[k] \/ (ls[k] = NoLease /\ GroupGone(k))
    BY <1>1, <2>1
  <2>5. tx' = Bracket(op, j, "final", ls, ok)
    BY <1>4 DEF ls
  <2>6. QED
    BY <1>1, <1>3, <2>1, <2>2, <2>3, <2>4, <2>5, EnterStep
<1>5. CASE ReserveSize
  <2>1. tx.op = "reserve"
    BY <1>5 DEF ReserveSize
  <2>2. CASE tx' = NoTx /\ cp' = [cp EXCEPT ![j] = "notstarted"]
    <3>1. Touches(j) /\ cp'[j] = "notstarted"
      BY <1>1, <1>2, <1>3, <2>2 DEF Touches, GuardFuns, ControllerPlaces, PreSend
    <3>2. cp[j] = "admit"
      BY <1>1, <2>1 DEF OwnTx
    <3>3. JobInv(j)'
      BY <1>2, <1>3, <3>1, <3>2, KeepFacts DEF JobKnown, JobInv, JobOK, PreSend
    <3>4. QED
      BY <1>0, <1>1, <1>3, <2>2, <3>1, <3>3, FinishStep
  <2>3. CASE /\ UNCHANGED cp
             /\ \E allow, rem :
                  tx' = Bracket("reserve", j, "final",
                                [tx.ls EXCEPT ![j] = NewLease(j, allow, rem)], TRUE)
    <3>1. PICK allow, rem :
             tx' = Bracket("reserve", j, "final",
                           [tx.ls EXCEPT ![j] = NewLease(j, allow, rem)], TRUE)
      BY <2>3
    <3> DEFINE l == NewLease(j, allow, rem)
    <3>2. "st" \in DOMAIN l /\ l.st = "reserved"
      BY NewLeaseFacts
    <3>3. tx' = Bracket("reserve", j, "final", [tx.ls EXCEPT ![j] = l], TRUE)
      BY <3>1
    <3> HIDE DEF l
    <3>4. QED
      BY <1>4, <2>1, <2>3, <3>2, <3>3
  <2>4. QED
    BY <1>5, <2>2, <2>3, Zenon DEF ReserveSize
<1>6. CASE RenewSize
  <2>1. /\ tx.op = "renew" /\ UNCHANGED cp
        /\ \E r, b, ok :
             tx' = Bracket("renew", j, "final",
                           [tx.ls EXCEPT ![j] = Resized(tx.ls[j], r, b)], ok)
    BY <1>6, Zenon DEF RenewSize
  <2>2. tx.ls[j].st = "reserved"
    BY <1>1, <2>1 DEF OwnTx
  <2>3. QED
    BY <1>1, <1>4, <2>1, <2>2, ResizedFacts
<1>7. QED
  BY <1>5, <1>6

\* A reservation is written, renewed, claimed or refused.
LEMMA FinishSteps ==
  ASSUME GuardInv, NEW j, tx.job = j,
         ReserveFinish \/ RenewFinish \/ ClaimFinish \/ TxFails
  PROVE  GuardInv'
<1>0. tx.op # "none" /\ tx' = NoTx
  BY DEF ReserveFinish, RenewFinish, ClaimFinish, TxFails
<1>1. /\ j \in Guarded /\ LedgerShape(tx.ls) /\ "st" \in DOMAIN tx.ls[j]
      /\ OwnTx(tx.op, tx.phase, tx.ls[j].st, hp[j], cp[j])
      /\ \A k \in Guarded \ {j} :
              tx.ls[k] = ledger[k] \/ (tx.ls[k] = NoLease /\ GroupGone(k))
  BY <1>0, HolderFacts
<1>2. JobKnown(j) /\ GuardFuns /\ TxInv
  BY <1>1, JobFacts
<1>3. "st" \in DOMAIN NoLease /\ NoLease.st = "none"
  BY DEF NoLease
<1>4. ASSUME NEW l, "st" \in DOMAIN l, l.st \in Leased, ledger' = [tx.ls EXCEPT ![j] = l]
      PROVE  ledger'[j] = l
  <2> DEFINE ls == [tx.ls EXCEPT ![j] = l]
  <2>1. ls[j] = l
    BY <1>1, <1>4, PutFacts
  <2>2. QED
    BY <1>4, <2>1
<1>5. CASE ReserveFinish \/ RenewFinish
  <2>1. UNCHANGED <<tree, exec, res, ran, hp>> /\ cp[j] \in {"admit", "renewing"}
    BY <1>1, <1>5 DEF ReserveFinish, RenewFinish, procs, OwnTx
  <2>2. \/ WriteIfReaped /\ cp' = [cp EXCEPT ![j] = "notstarted"]
        \/ \E l : /\ "st" \in DOMAIN l /\ l.st \in {"none", "reserved"}
                  /\ ledger' = [tx.ls EXCEPT ![j] = l]
                  /\ \E c \in {"reserved", "notstarted", "send", "release"} :
                        cp' = [cp EXCEPT ![j] = c]
    <3>1. CASE ReserveFinish
      <4>1. tx.ls[j].st = "reserved"
        BY <1>1, <3>1 DEF ReserveFinish, OwnTx
      <4>2. CASE WriteIfReaped /\ cp' = [cp EXCEPT ![j] = "notstarted"]
        BY <4>2
      <4>3. ASSUME NEW l, l = ReservedLease(tx.ls, LastHost, tx.priv, j),
                   l # NoLease,
                   ledger' = [tx.ls EXCEPT ![j] = l],
                   \/ cp' = [cp EXCEPT ![j] = "reserved"]
                   \/ cp' = [cp EXCEPT ![j] = "notstarted"]
            PROVE  \E ll : /\ "st" \in DOMAIN ll /\ ll.st \in {"none", "reserved"}
                           /\ ledger' = [tx.ls EXCEPT ![j] = ll]
                           /\ \E c \in {"reserved", "notstarted", "send", "release"} :
                                 cp' = [cp EXCEPT ![j] = c]
        <5>1. "st" \in DOMAIN l /\ l.st = "reserved"
          BY <1>1, <4>1, <4>3, ReservedFacts
        <5>2. QED
          BY <4>3, <5>1
      <4>4. QED
        BY <3>1, <4>2, <4>3, Zenon DEF ReserveFinish, Write
    <3>2. CASE RenewFinish
      <4> DEFINE l == RenewedLease(tx.ls, LastHost, tx.priv, j, tx.ok)
      <4>1. tx.ls[j].st = "reserved"
        BY <1>1, <3>2 DEF RenewFinish, OwnTx
      <4>2. l = NoLease \/ ("st" \in DOMAIN l /\ l.st = "reserved")
        BY <1>1, <4>1, RenewedFacts
      <4>3. /\ ledger' = [tx.ls EXCEPT ![j] = l]
            /\ cp' = [cp EXCEPT ![j] = "send"] \/ cp' = [cp EXCEPT ![j] = "release"]
        BY <3>2, Zenon DEF RenewFinish, Write
      <4>4. "st" \in DOMAIN l /\ l.st \in {"none", "reserved"}
        <5> HIDE DEF l
        <5>1. QED
          BY <1>3, <4>2
      <4> HIDE DEF l
      <4>5. QED
        BY <4>3, <4>4
    <3>3. QED
      BY <1>5, <3>1, <3>2
  <2>3. /\ Touches(j) /\ cp'[j] \in {"reserved", "notstarted", "send", "release"}
    BY <1>1, <1>2, <2>1, <2>2 DEF Touches, GuardFuns, ControllerPlaces, PreSend
  <2>4. ASSUME ledger'[j].st = ledger[j].st \/ ledger'[j].st \in {"none", "reserved"}
        PROVE  JobInv(j)'
    BY <1>2, <2>1, <2>3, <2>4 DEF JobKnown, JobInv, JobOK, GroupGoneIn, Claimed, PreSend
  <2>5. CASE WriteIfReaped
    <3>1. /\ Spares(j)
          /\ ledger'[j].st = ledger[j].st \/ ledger'[j].st = "none"
      BY <1>1, <2>5, ReapFacts
    <3>2. JobInv(j)'
      BY <2>4, <3>1
    <3>3. QED
      BY <1>0, <1>1, <2>3, <3>1, <3>2, LocalStep
  <2>6. ASSUME NEW l, "st" \in DOMAIN l, l.st \in {"none", "reserved"},
               ledger' = [tx.ls EXCEPT ![j] = l]
        PROVE  GuardInv'
    <3>1. l.st \in Leased
      BY <2>6 DEF Leased
    <3>2. ledger'[j].st \in {"none", "reserved"}
      BY <1>4, <2>6, <3>1
    <3>3. JobInv(j)'
      BY <2>4, <3>2
    <3>4. QED
      BY <1>0, <1>1, <2>3, <2>6, <3>1, <3>3, FinishStep
  <2>7. QED
    BY <2>2, <2>5, <2>6
<1>6. CASE ClaimFinish
  <2> DEFINE l == ClaimedLease(tx.ls, LastHost, tx.priv, tx.peak, j)
  <2>1. hp[j] = "claiming" /\ tx.ls[j].st = "running" /\ UNCHANGED <<exec, ran, cp>>
    BY <1>1, <1>6 DEF ClaimFinish, OwnTx
  <2>2. l = NoLease \/ ("st" \in DOMAIN l /\ l.st = "running")
    BY <1>1, <2>1, ClaimedFacts
  <2>3. /\ ledger' = [tx.ls EXCEPT ![j] = l]
        /\ \/ l # NoLease /\ hp' = [hp EXCEPT ![j] = "claimed"] /\ UNCHANGED <<res, tree>>
           \/ /\ hp' = [hp EXCEPT ![j] = "done"] /\ (\E status : Result(j, status, "false"))
              /\ tree' = [tree EXCEPT ![j] = {}]
    BY <1>6, Zenon DEF ClaimFinish, Write, HelperAt
  <2> HIDE DEF l
  <2>4. "st" \in DOMAIN l /\ l.st \in Leased
    BY <1>3, <2>2 DEF Leased
  <2>5. ledger'[j] = l
    BY <1>4, <2>3, <2>4
  <2>6. /\ Touches(j)
        /\ \/ l # NoLease /\ hp'[j] = "claimed" /\ UNCHANGED <<res, tree>>
           \/ hp'[j] = "done" /\ tree'[j] = {} /\ res'[j].started = "false"
    <3>1. CASE l # NoLease /\ hp' = [hp EXCEPT ![j] = "claimed"] /\ UNCHANGED <<res, tree>>
      BY <1>1, <1>2, <2>1, <3>1 DEF Touches, GuardFuns, HelperPlaces
    <3>2. CASE /\ hp' = [hp EXCEPT ![j] = "done"] /\ (\E status : Result(j, status, "false"))
               /\ tree' = [tree EXCEPT ![j] = {}]
      <4>1. res' = [res EXCEPT ![j] = res'[j]] /\ res'[j].started = "false"
        BY <1>1, <1>2, <3>2, ResultFacts
      <4>2. QED
        BY <1>1, <1>2, <2>1, <3>2, <4>1 DEF Touches, GuardFuns, HelperPlaces
    <3>3. QED
      BY <2>3, <3>1, <3>2
  <2>7. JobInv(j)'
    <3>1. CASE l # NoLease /\ hp'[j] = "claimed" /\ UNCHANGED <<res, tree>>
      <4>1. ledger'[j].st = "running"
        BY <2>2, <2>5, <3>1
      <4>2. QED
        BY <1>2, <2>1, <3>1, <4>1 DEF JobKnown, JobInv, JobOK, PreSend
    <3>2. CASE hp'[j] = "done" /\ tree'[j] = {} /\ res'[j].started = "false"
      BY <1>2, <2>1, <3>2 DEF JobKnown, JobInv, JobOK, GroupGoneIn, Claimed, PreSend
    <3>3. QED
      BY <2>6, <3>1, <3>2
  <2>8. QED
    BY <1>0, <1>1, <2>3, <2>4, <2>6, <2>7, FinishStep
<1>7. CASE TxFails
  <2>1. /\ UNCHANGED <<ledger, tree, exec, res, ran, hp>> /\ cp[j] \in {"admit", "renewing"}
        /\ \E c \in {"notstarted", "release"} : cp' = [cp EXCEPT ![j] = c]
    BY <1>1, <1>7 DEF TxFails, procs, OwnTx
  <2>2. Touches(j) /\ cp'[j] \in {"notstarted", "release"}
    BY <1>1, <1>2, <2>1 DEF Touches, GuardFuns, ControllerPlaces, PreSend
  <2>3. JobInv(j)'
    BY <1>2, <2>1, <2>2, KeepFacts DEF JobKnown, JobInv, JobOK, PreSend
  <2>4. QED
    BY <1>0, <1>1, <2>1, <2>2, <2>3, FinishStep
<1>8. QED
  BY <1>5, <1>6, <1>7

\* A reservation's expiry passes.
LEMMA TimeStep ==
  ASSUME GuardInv, NEW j \in Guarded, TimePasses(j)
  PROVE  GuardInv'
<1>0. JobKnown(j) /\ GuardFuns /\ TxInv
  BY JobFacts
<1> DEFINE l == [ledger[j] EXCEPT !.due = TRUE]
           ls == [ledger EXCEPT ![j] = l]
<1>1. /\ ledger' = ls /\ tx.op = "none" /\ UNCHANGED <<tx, tree, exec, res, ran, hp, cp>>
  BY Zenon DEF TimePasses, procs
<1>2. LedgerShape(ledger)
  BY DEF GuardInv, GuardShape
<1>3. "st" \in DOMAIN l /\ l.st = ledger[j].st
  BY <1>2, Zenon DEF LedgerShape
<1>4. l.st \in Leased
  BY <1>0, <1>3 DEF JobKnown
<1> HIDE DEF l
<1>5. LedgerShape(ls) /\ ls[j] = l /\ \A k \in Guarded \ {j} : ls[k] = ledger[k]
  BY <1>2, <1>3, <1>4, PutFacts
<1> HIDE DEF ls
<1>6. Spares(j)
  BY <1>1, <1>5 DEF Spares
<1>7. Touches(j) /\ JobInv(j)' /\ (GroupGone(j) => GroupGone(j)')
  BY <1>0, <1>1, <1>3, <1>5 DEF Touches, GuardFuns, JobKnown, JobInv, GroupGone
<1>8. TxSame
  BY <1>0, <1>1, TxFacts
<1>9. QED
  BY <1>1, <1>6, <1>7, <1>8, LocalStep

-----------------------------------------------------------------------------
(* The invariant.                                                          *)

\* No leases, no processes: the invariant holds at the start.
LEMMA GuardInvInit == GuardInit => GuardInv
<1> SUFFICES ASSUME GuardInit PROVE GuardInv
  OBVIOUS
<1>1. /\ "st" \in DOMAIN NoLease /\ NoLease.st = "none"
      /\ "op" \in DOMAIN NoTx /\ NoTx.op = "none"
      /\ NoRes.started = "null"
  BY DEF NoLease, NoTx, NoRes
<1>2. LedgerShape(ledger) /\ \A j \in Guarded : ledger[j].st = "none"
  BY <1>1, Zenon DEF GuardInit, LedgerShape, Leased
<1>3. TxInv
  BY <1>1, Zenon DEF GuardInit, TxInv
<1>4. GuardFuns
  BY <1>1 DEF GuardInit, GuardFuns, Wrote, HelperPlaces, ControllerPlaces, PreSend
<1>5. \A j \in Guarded : JobInv(j)
  BY <1>1, <1>2 DEF GuardInit, JobInv, JobOK, GroupGoneIn, Claimed, PreSend
<1>6. QED
  BY <1>2, <1>3, <1>4, <1>5 DEF GuardInv, GuardShape, GuardFuns

\* The inductive step: one case per group of actions.
LEMMA GuardStep == GuardInv /\ [GuardNext]_guardVars => GuardInv'
<1> SUFFICES ASSUME GuardInv, [GuardNext]_guardVars PROVE GuardInv'
  OBVIOUS
<1>0. TxInv
  BY DEF GuardInv
<1>1. CASE \E j \in Guarded : Admission(j)
  BY <1>1, EnterSteps, ControllerSteps, HelperSteps DEF Admission
<1>2. CASE \E j \in Guarded : Controller(j) \/ Helper(j)
  BY <1>2, ControllerSteps, HelperSteps
<1>3. ASSUME SampleHost \/ SamplePrivate \/ MayMove,
             UNCHANGED <<ledger, tree, exec, hp, cp, res, ran>>
      PROVE  GuardInv'
  BY <1>0, <1>3, TxFacts, StillStep DEF MayMove
<1>4. CASE \E j \in Guarded : Target(j)
  <2>1. ASSUME NEW j \in Guarded, Allocate(j) \/ Free(j) PROVE GuardInv'
    BY <1>3, <2>1 DEF Allocate, Free, MayMove, procs
  <2>2. QED
    BY <1>4, <2>1, TargetSteps, TimeStep DEF Target
<1>5. CASE SampleHost \/ SamplePrivate \/ OthersAllocate \/ OthersFree
  BY <1>3, <1>5 DEF SampleHost, SamplePrivate, OthersAllocate, OthersFree,
     MayMove, procs
<1>6. CASE ReserveSize \/ RenewSize
  BY <1>6, SizeSteps
<1>7. CASE ReserveFinish \/ RenewFinish \/ ClaimFinish \/ TxFails
  BY <1>7, FinishSteps
<1>8. CASE UNCHANGED guardVars
  BY <1>0, <1>8, TxFacts, StillStep DEF guardVars
<1>9. QED
  BY <1>1, <1>2, <1>4, <1>5, <1>6, <1>7, <1>8 DEF GuardNext

\* So the invariant holds of every behaviour of the guard.
LEMMA GuardInvariance == GuardSpec => []GuardInv
BY GuardInvInit, GuardStep, PTL DEF GuardSpec

\* A command's group is accounted for as long as one of its processes lives,
\* whatever signals, kills, failed cleanups and reaping by other jobs do.
THEOREM GroupsAccounted == GuardSpec => []GroupIsAccounted
<1>1. GuardInv => GroupIsAccounted
  BY DEF GuardInv, GroupIsAccounted, JobInv, JobOK, GroupGoneIn
<1>2. QED
  BY <1>1, GuardInvariance, PTL

\* A refusal that a controller reports is true: the command never ran.
THEOREM RefusalsTrue == GuardSpec => []RefusalIsTrue
<1>1. GuardInv => RefusalIsTrue
  BY DEF GuardInv, RefusalIsTrue, JobInv, JobOK, PreSend
<1>2. QED
  BY <1>1, GuardInvariance, PTL
=============================================================================
