------------------------------ MODULE Placement ------------------------------
(***************************************************************************)
(* Placement of one group of compatible jobs: which device, or devices,    *)
(* the planner gives them.  Pure functions of what was probed (snap), what *)
(* was learned about each device's run times (prof) and the work already   *)
(* in flight on each device (backlog).  Every job is one unit of work, and *)
(* free memory already carries the configured safety fraction.  The text   *)
(* that explains a choice is left out.                                     *)
(***************************************************************************)
EXTENDS Naturals, FiniteSets, Sequences, SequencesExt

CONSTANTS DeviceOrder,        \* the devices, in the order of their names
          None,               \* not known, not given
          Idle                \* no entry in the backlog: nothing in flight

Devices == Range(DeviceOrder)
Known(x) == x # None

-----------------------------------------------------------------------------
(* fits: may the device host the task now?  A task t has a pin (the forced  *)
(* device), cand (its candidates), kind, gpu, slot (its exploration slot is *)
(* zero) and what it is predicted to need on each device.                   *)

RouteEligible(t, d, s) == s.route = "eligible" \/ (s.route = "explicit_only" /\ t.pin = d)

AtMost(need, free) == Known(free) => need <= free
MemoryFits(t, d, s) ==
    LET rss == t.rss[d]  vram == t.vram[d]
    IN IF ~t.gpu THEN AtMost(rss, s.ram)
       ELSE IF s.topology \in {"unknown", "none"} THEN FALSE
       ELSE IF s.topology = "discrete"
       THEN /\ AtMost(vram, s.vramTotal)
            /\ t.nonelastic => AtMost(vram, s.vramFree)
            /\ AtMost(rss, s.ram)
       ELSE AtMost(IF vram > rss THEN vram ELSE rss, s.ram)

Fits(t, d, s, allowUnknown) ==
    /\ RouteEligible(t, d, s) /\ s.up /\ s.active < s.max
    /\ t.kind = "task" => /\ s.pool # 0
                          /\ s.engine = "present" \/ (s.engine = "unknown" /\ allowUnknown)
    /\ MemoryFits(t, d, s)

-----------------------------------------------------------------------------
(* Estimates.  prof[d]: obs accepted observations; fixed and var, None until *)
(* a model is ready; lo..hi, the range it was learned on.                    *)

\* estimate_finish for n jobs; nothing to do takes no time
EstimateFinish(prof, n, d) ==
    IF n = 0 THEN 0
    ELSE IF ~Known(prof[d].fixed) \/ n < prof[d].lo \/ n > prof[d].hi THEN None
    ELSE prof[d].fixed + prof[d].var * n

Wait(backlog, d) == IF backlog[d] = Idle THEN 0 ELSE backlog[d]
Estimable(prof, backlog, n, d) == Known(EstimateFinish(prof, n, d)) /\ Known(Wait(backlog, d))
Effective(prof, backlog, n, d) == Wait(backlog, d) + EstimateFinish(prof, n, d)

\* min over a key; ties go to the device that is named first
Position(d) == CHOOSE i \in 1..Len(DeviceOrder) : DeviceOrder[i] = d
Fastest(S, prof, backlog, n) ==
    CHOOSE d \in S : \A e \in S \ {d} :
        LET x == Effective(prof, backlog, n, d)  y == Effective(prof, backlog, n, e)
        IN x < y \/ (x = y /\ Position(d) < Position(e))
LeastObserved(S, prof, snap) ==
    CHOOSE d \in S : \A e \in S \ {d} :
        \/ prof[d].obs < prof[e].obs
        \/ prof[d].obs = prof[e].obs /\ snap[d].active < snap[e].active
        \/ prof[d].obs = prof[e].obs /\ snap[d].active = snap[e].active
           /\ Position(d) < Position(e)

-----------------------------------------------------------------------------
(* _greedy_split: each job goes where the resulting makespan is smallest.   *)
(* It reads the backlog of every device without a default, so a device that *)
(* is idle (and has no entry) leaves no choice at all: ValueError.          *)

Largest(S) == CHOOSE x \in S : \A y \in S : y <= x

Makespan(assign, S, prof, backlog) ==
    Largest({Effective(prof, backlog, Cardinality(assign[e]), e) : e \in S})
SplitChoices(assign, j, S, prof, backlog) ==
    {d \in S : /\ Known(EstimateFinish(prof, Cardinality(assign[d]) + 1, d))
               /\ \A e \in S : Known(backlog[e]) /\ backlog[e] # Idle
               /\ \A e \in S \ {d} : Known(EstimateFinish(prof, Cardinality(assign[e]), e))}
GreedySplit(G, S, prof, backlog) ==
    LET give(assign, j) ==
          IF assign = None \/ SplitChoices(assign, j, S, prof, backlog) = {} THEN None
          ELSE LET with(d) == [assign EXCEPT ![d] = @ \cup {j}]
                   best == CHOOSE d \in SplitChoices(assign, j, S, prof, backlog) :
                             \A e \in SplitChoices(assign, j, S, prof, backlog) \ {d} :
                               LET x == Makespan(with(d), S, prof, backlog)
                                   y == Makespan(with(e), S, prof, backlog)
                               IN x < y \/ (x = y /\ Position(d) < Position(e))
               IN with(best)
    IN FoldLeft(give, [d \in S |-> {}], SetToSeq(G))

-----------------------------------------------------------------------------
(* assign_group: the set of batches [dev, jobs, est] for the jobs G, or     *)
(* None when the planner raises.                                            *)

Batch(d, G, prof, backlog) ==
    [dev |-> d, jobs |-> G,
     est |-> IF Known(Wait(backlog, d)) THEN EstimateFinish(prof, Cardinality(G), d) ELSE None]

FittingDevices(t, S, snap) == {d \in t.cand \cap S : Fits(t, d, snap[d], FALSE)}

\* Devices whose run time is still being learned: four observations at once,
\* then, in the task's exploration slot, up to eight or while out of range.
Calibrating(S, prof, backlog) == {d \in S : Known(Wait(backlog, d)) /\ prof[d].obs < 4}
Exploring(t, S, prof, backlog) ==
    {d \in S : t.slot /\ Known(Wait(backlog, d)) /\ (Known(prof[d].fixed) \/ prof[d].obs < 8)}

AssignGroup(G, t, S, snap, prof, backlog) ==
    LET n == Cardinality(G)
        fit == FittingDevices(t, S, snap)
        estimable == {d \in fit : Estimable(prof, backlog, n, d)}
        rest == fit \ estimable
        all(d) == {Batch(d, G, prof, backlog)}
        one == Fastest(estimable, prof, backlog, n)
        split == GreedySplit(G, estimable, prof, backlog)
        shares == {d \in DOMAIN split : split[d] # {}}
        spread == Largest({Effective(prof, backlog, Cardinality(split[d]), d) : d \in shares})
    IN CASE Known(t.pin) -> IF t.pin \in S /\ Fits(t, t.pin, snap[t.pin], TRUE)
                            THEN all(t.pin) ELSE {}
         [] ~Known(t.pin) /\ fit = {} -> {}
         [] ~Known(t.pin) /\ Cardinality(fit) = 1 -> all(CHOOSE d \in fit : TRUE)
         [] ~Known(t.pin) /\ Cardinality(fit) > 1 /\ estimable = {} ->
              all(LeastObserved(fit, prof, snap))
         [] OTHER ->
              IF Calibrating(rest, prof, backlog) # {}
              THEN all(LeastObserved(Calibrating(rest, prof, backlog), prof, snap))
              ELSE IF Exploring(t, rest, prof, backlog) # {}
              THEN all(LeastObserved(Exploring(t, rest, prof, backlog), prof, snap))
              ELSE IF n < 2 \/ Cardinality(estimable) < 2 \/ rest # {} THEN all(one)
              ELSE IF split = None THEN None
              ELSE IF spread + t.margin < Effective(prof, backlog, n, one)
              THEN {Batch(d, split[d], prof, backlog) : d \in shares}
              ELSE all(one)
=============================================================================
