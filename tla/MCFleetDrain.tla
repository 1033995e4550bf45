---------------------------- MODULE MCFleetDrain ----------------------------
(* Two devices and a drain, beside callers, an ad hoc run and an operator. *)
EXTENDS FleetDrain

CONSTANTS j1, j2, j3, d1, d2, w1, w2

MCDeviceOrder == <<d1, d2>>
\* Both devices serve the task; the free memory of d1 is not known.
MCMachine == [d \in {d1, d2} |->
    [route |-> "eligible", up |-> TRUE, active |-> 0, max |-> 2, pool |-> 1, engine |-> "present",
     ram |-> IF d = d1 THEN None ELSE 4, vramTotal |-> None, vramFree |-> None,
     topology |-> "unknown"]]
MCDemand == [cand |-> {d1, d2}, gpu |-> FALSE, slot |-> FALSE, nonelastic |-> FALSE, margin |-> 0,
             rss |-> [d \in {d1, d2} |-> 3], vram |-> [d \in {d1, d2} |-> 0]]

\* nothing learned yet, or both devices known: the first is the faster one
Unlearned == [d \in {d1, d2} |-> [obs |-> 0, fixed |-> None, var |-> None, lo |-> 1, hi |-> 2]]
Learned == [d \in {d1, d2} |-> [obs |-> 9, fixed |-> 1, var |-> IF d = d1 THEN 1 ELSE 2,
                                lo |-> 1, hi |-> 2]]

Task(W, pin, fall) == [kind |-> "task", works |-> W, pin |-> pin, fall |-> fall]
Both == Task({w1, w2}, None, FALSE)
Pinned == Task({w1}, d1, TRUE)
Cmd == [kind |-> "command", works |-> {w1}, pin |-> d2, fall |-> FALSE]

Zero == [calls |-> 0, plans |-> 0, edits |-> 0, adhoc |-> 0, ticks |-> 0, lapses |-> 0,
         clears |-> 0, cancels |-> 0, stops |-> 0, orders |-> {}]
Scene(profile, b) == [prof |-> profile, budget |-> b]
MCScenes == {
    \* callers that retry and race, and definitions that change
    Scene(Unlearned, [Zero EXCEPT !.calls = 3, !.plans = 1, !.edits = 2, !.orders = {Pinned}]),
    \* a stop while two items are placed, with and without estimates
    Scene(Unlearned, [Zero EXCEPT !.calls = 1, !.ticks = 1, !.stops = 1, !.orders = {Both}]),
    Scene(Unlearned, [Zero EXCEPT !.calls = 1, !.ticks = 2, !.stops = 1, !.orders = {Pinned}]),
    Scene(Learned, [Zero EXCEPT !.calls = 1, !.ticks = 1, !.stops = 1, !.orders = {Both}]),
    \* two groups, two devices
    Scene(Learned, [Zero EXCEPT !.calls = 2, !.ticks = 1, !.orders = {Pinned, Cmd}]),
    \* a lost lease, and a resubmission
    Scene(Unlearned, [Zero EXCEPT !.calls = 2, !.ticks = 2, !.lapses = 1, !.edits = 1,
                                  !.orders = {Pinned}]),
    \* an ad hoc run beside the drain
    Scene(Learned, [Zero EXCEPT !.calls = 1, !.ticks = 1, !.adhoc = 1, !.edits = 1,
                                !.orders = {Pinned}]),
    \* a lost lease, a clear, and a resubmission
    Scene(Unlearned, [Zero EXCEPT !.calls = 2, !.ticks = 2, !.lapses = 1, !.clears = 1,
                                  !.orders = {Pinned}]),
    \* the operator
    Scene(Unlearned, [Zero EXCEPT !.calls = 1, !.ticks = 2, !.lapses = 1, !.clears = 1, !.cancels = 1,
                                  !.orders = {Cmd}])}
=============================================================================
