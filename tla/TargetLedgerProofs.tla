------------------------- MODULE TargetLedgerProofs -------------------------
(***************************************************************************)
(* The target ledger for any operations, keys and number of reboots, and   *)
(* without the bounds of its instance for TLC: no two commands share a     *)
(* resource key, and every operation on its own implements TargetOp, whose *)
(* promises a controller's recovery decisions rest on.                     *)
(***************************************************************************)
EXTENDS MCTargetLedger, TLAPS

Places == {"none", "boot", "await", "claim", "accept", "maybe", "mark", "gate", "watch",
           "confirm", "report", "exit", "write", "fail", "failed", "end",
           "o-claim", "o-maybe", "o-gate", "o-exec", "o-wait", "o-fail"}

Trees == {"none", "starting", "waiting", "refused", "running", "linger", "ended", "dead"}
Rows == [state : Live \cup Terminal \cup {"NONE"}, start : {"NO", "MAYBE", "YES"},
         stale : BOOLEAN, due : BOOLEAN, old : BOOLEAN]
Sups == [pc : Places, started : {"null", "false", "true"}, acc : BOOLEAN, got : Receipts]

(* The types of what the argument is about: rows, holds, trees, control    *)
(* files and the supervisors.                                              *)
Shape ==
  /\ row \in [Ops -> Rows] /\ hold \in [Keys -> Ops \cup {Nobody}]
  /\ tree \in [Ops -> Trees] /\ files \in [Ops -> SUBSET {"ready", "gate", "started", "refused"}]
  /\ sup \in [Ops -> Sups]

(* The holds are those of the live rows, all keys of each.                 *)
HoldInv ==
  /\ \A k \in Keys : hold[k] # Nobody => row[hold[k]].state \in Live
  /\ \A o \in Ops : row[o].state \in Live => \A k \in KeysOf[o] : hold[k] = o

(* The supervisor has claimed the row and is on its way to the gate.       *)
Entered == {"accept", "maybe", "mark", "gate", "o-maybe", "o-gate"}

(* One operation, from its row to its process tree: the tree exists before *)
(* the claim, the gate is written after it, and as long as such a tree is  *)
(* alive the row stays held.                                               *)
OpInv(r, p, t, f) ==
  /\ r.state = "NONE" => ~r.old /\ p = "none"
  /\ r.state \in {"NONE", "RESERVED"} => r.start = "NO"
  /\ r.state \in Held => t # "none" /\ p \notin {"none", "boot"}
  /\ r.state \in Held /\ r.old => p = "end"
  /\ p \in {"none", "boot"} => t = "none" /\ f = {}
  /\ t = "starting" => "ready" \notin f /\ "gate" \notin f /\ p \notin Entered
                   /\ p \notin {"claim", "o-claim"}
  /\ p \in {"await", "claim", "o-claim"} => t # "none"
  /\ "gate" \in f => p \notin {"none", "boot", "await", "claim", "accept", "maybe", "mark",
                               "o-claim", "o-maybe"}
  /\ (p \in Entered \/ "gate" \in f)
     /\ t \in {"starting", "waiting", "refused", "running", "linger"}
       => r.state \in Held /\ ~r.old
  /\ p \in {"mark", "gate", "o-gate", "o-exec"} => r.start = "MAYBE"
  /\ "gate" \in f /\ t = "waiting" => r.start = "MAYBE"
  /\ p = "confirm" => "started" \in f
  /\ "started" \in f => t \in {"running", "linger", "ended"}
  /\ "refused" \in f => t \in {"refused", "dead"}
  /\ t \in {"running", "linger", "ended"} => "gate" \in f

IInv == /\ Shape /\ HoldInv
        /\ \A o \in Ops : OpInv(row[o], sup[o].pc, tree[o], files[o])

-----------------------------------------------------------------------------
(* The system as one operation o sees it.  Its row may be reconciled by    *)
(* anyone's ledger call.                                                   *)
RowIs(o, s, c) == row'[o].state = s /\ row'[o].start = c /\ row'[o].old = row[o].old
RowSame(o) == RowIs(o, row[o].state, row[o].start)
Fresh(o) == ~row[o].old
PlaceSame(o) == sup'[o].pc = sup[o].pc
TreeSame(o) == tree'[o] = tree[o]
FilesSame(o) == files'[o] = files[o]

(* r is row[o] after a reconciliation.                                     *)
Rec(o, r) ==
  /\ r.start = row[o].start /\ r.old = row[o].old /\ r.stale = row[o].stale
  /\ \/ r.state = row[o].state /\ (row[o].state \in Live => Fresh(o))
     \/ row[o].state \in Live /\ row[o].old /\ r.state = "REBOOTED"
     \/ row[o].state = "RESERVED" /\ Fresh(o) /\ r.state = "EXPIRED"
     \/ row[o].state \in Held /\ Fresh(o) /\ ~Alive(o) /\ r.state = "RELEASED"
     \/ row[o].state = "CLAIMED" /\ Fresh(o) /\ r.state = "QUARANTINED"

Stays(o) == (RowSame(o) \/ Rec(o, row'[o])) /\ PlaceSame(o) /\ TreeSame(o) /\ FilesSame(o)

(* Places that promise nothing about the row or the tree.                  *)
Quiet == {"watch", "report", "exit", "write", "fail", "failed", "end", "o-wait", "o-fail"}

(* The ledger's calls for o: reserve, cancel, claim, start certainty, end. *)
ReserveMove(o) == /\ row[o].state = "NONE" /\ RowIs(o, "RESERVED", row[o].start)
                  /\ PlaceSame(o) /\ TreeSame(o) /\ FilesSame(o)
CancelMove(o) == /\ row[o].state = "RESERVED" /\ Fresh(o) /\ RowIs(o, "CANCELLED", row[o].start)
                 /\ PlaceSame(o) /\ TreeSame(o) /\ FilesSame(o)
StopMove(o) == /\ row[o].state \in Held /\ Fresh(o) /\ RowIs(o, "CANCELLED", row[o].start)
               /\ tree'[o] = Killed(tree[o]) /\ PlaceSame(o) /\ FilesSame(o)
ClaimMove(o) == /\ row[o].state = "RESERVED" /\ Fresh(o) /\ RowIs(o, "CLAIMED", row[o].start)
                /\ \/ sup[o].pc = "claim" /\ sup'[o].pc \in {"accept", "fail"}
                   \/ sup[o].pc = "o-claim" /\ sup'[o].pc = "o-maybe"
                /\ TreeSame(o) /\ FilesSame(o)
MaybeMove(o) == /\ row[o].state = "CLAIMED" /\ Fresh(o) /\ row[o].start = "NO"
                /\ RowIs(o, "CLAIMED", "MAYBE")
                /\ \/ sup[o].pc = "maybe" /\ sup'[o].pc \in {"mark", "fail"}
                   \/ sup[o].pc = "o-maybe" /\ sup'[o].pc = "o-gate"
                /\ TreeSame(o) /\ FilesSame(o)
ConfirmMove(o) == /\ row[o].state = "CLAIMED" /\ Fresh(o) /\ row[o].start = "MAYBE"
                  /\ RowIs(o, "CLAIMED", "YES") /\ "started" \in files[o]
                  /\ sup[o].pc \in {"confirm", "o-exec"} /\ sup'[o].pc \in Quiet
                  /\ TreeSame(o) /\ FilesSame(o)
DenyMove(o) == /\ row[o].state = "CLAIMED" /\ Fresh(o) /\ RowIs(o, "CLAIMED", "NO")
               /\ sup[o].pc = "o-exec" /\ sup'[o].pc \in Quiet /\ "refused" \in files[o]
               /\ TreeSame(o) /\ FilesSame(o)
ReleaseMove(o) == /\ row[o].state \in Held /\ Fresh(o) /\ ~Alive(o)
                  /\ RowIs(o, "RELEASED", row[o].start)
                  /\ sup[o].pc \notin Stopped /\ sup'[o].pc \in Quiet
                  /\ TreeSame(o) /\ FilesSame(o)
QuarantineMove(o) == /\ row[o].state \in Held /\ Fresh(o)
                     /\ RowIs(o, "QUARANTINED", row[o].start)
                     /\ PlaceSame(o) \/ (sup[o].pc \notin Stopped /\ sup'[o].pc \in Quiet)
                     /\ tree'[o] \in {tree[o], Killed(tree[o])} /\ FilesSame(o)

(* The supervisor's or owner's own steps.                                  *)
LaunchMove(o) == /\ sup[o].pc = "none" /\ row[o].state # "NONE" /\ sup'[o].pc = "boot"
                 /\ RowSame(o) /\ TreeSame(o) /\ FilesSame(o)
SpawnMove(o) == /\ \/ /\ sup[o].pc = "none" /\ row[o].state # "NONE" /\ sup'[o].pc = "o-claim"
                      /\ tree'[o] = "waiting"
                   \/ sup[o].pc = "boot" /\ sup'[o].pc = "await" /\ tree'[o] = "starting"
                /\ RowSame(o) /\ FilesSame(o)
PlaceMove(o) == /\ \/ sup[o].pc = "await" /\ "ready" \in files[o] /\ sup'[o].pc = "claim"
                   \/ sup[o].pc = "accept" /\ sup'[o].pc = "maybe"
                   \/ sup[o].pc = "mark" /\ sup'[o].pc = "gate"
                   \/ sup[o].pc = "watch" /\ "started" \in files[o] /\ sup'[o].pc = "confirm"
                /\ RowSame(o) /\ TreeSame(o) /\ FilesSame(o)
GateMove(o) == /\ \/ sup[o].pc = "gate" /\ sup'[o].pc = "watch"
                  \/ sup[o].pc = "o-gate" /\ sup'[o].pc = "o-exec"
               /\ files'[o] = files[o] \cup {"gate"} /\ RowSame(o) /\ TreeSame(o)
QuietMove(o) == /\ sup[o].pc \notin Stopped /\ sup'[o].pc \in Quiet
                /\ tree'[o] \in {tree[o], Killed(tree[o])} /\ RowSame(o) /\ FilesSame(o)

(* The process tree's own steps.                                           *)
BeginMove(o) == /\ tree[o] = "waiting" /\ "gate" \in files[o] /\ tree'[o] = "running"
                /\ RowSame(o) /\ PlaceSame(o) /\ FilesSame(o)
ReportMove(o) == /\ \/ tree[o] = "starting" /\ tree'[o] = "waiting"
                       /\ files'[o] = files[o] \cup {"ready"}
                    \/ tree[o] = "waiting" /\ "gate" \in files[o] /\ tree'[o] = "refused"
                       /\ files'[o] = files[o] \cup {"refused"}
                    \/ tree[o] = "running" /\ TreeSame(o)
                       /\ files'[o] = files[o] \cup {"started"}
                 /\ RowSame(o) /\ PlaceSame(o)
ExitMove(o) == /\ \/ Alive(o) /\ tree'[o] = Killed(tree[o])
                  \/ tree[o] = "running" /\ tree'[o] = "linger"
               /\ RowSame(o) /\ PlaceSame(o) /\ FilesSame(o)

RebootMove(o) ==
  /\ row'[o].state = row[o].state /\ row'[o].start = row[o].start
  /\ row'[o].old <=> (row[o].old \/ row[o].state \in Live)
  /\ tree'[o] = Killed(tree[o]) /\ FilesSame(o)
  /\ sup'[o].pc = IF sup[o].pc \in Stopped THEN sup[o].pc ELSE "end"

LedgerMove(o) == \/ ReserveMove(o) \/ CancelMove(o) \/ StopMove(o) \/ ClaimMove(o) \/ MaybeMove(o)
                 \/ ConfirmMove(o) \/ DenyMove(o) \/ ReleaseMove(o) \/ QuarantineMove(o)
OwnMove(o) == LaunchMove(o) \/ SpawnMove(o) \/ PlaceMove(o) \/ GateMove(o) \/ QuietMove(o)
TreeMove(o) == BeginMove(o) \/ ReportMove(o) \/ ExitMove(o)
OpMove(o) == Stays(o) \/ LedgerMove(o) \/ OwnMove(o) \/ TreeMove(o) \/ RebootMove(o)

\* What a kill makes of each tree (_terminate_resource_owner).
LEMMA KilledFacts ==
  \A t \in Trees : \/ t \in {"running", "linger"} /\ Killed(t) = "ended"
                   \/ t \in {"starting", "waiting", "refused"} /\ Killed(t) = "dead"
                   \/ t \in {"none", "ended", "dead"} /\ Killed(t) = t
BY DEF Killed, Trees

\* One operation's invariant survives everything that can happen to it.
LEMMA OpInvStep ==
  ASSUME Shape, Shape', NEW o \in Ops, OpInv(row[o], sup[o].pc, tree[o], files[o]), OpMove(o)
  PROVE  OpInv(row[o], sup[o].pc, tree[o], files[o])'
<1>0. /\ row[o] \in Rows /\ row'[o] \in Rows /\ tree[o] \in Trees
      /\ sup[o].pc \in Places /\ sup'[o].pc \in Places
      /\ row[o].old \in BOOLEAN /\ row'[o].old \in BOOLEAN
  BY DEF Shape, Sups, Rows
<1>k. \/ tree[o] \in {"running", "linger"} /\ Killed(tree[o]) = "ended"
      \/ tree[o] \in {"starting", "waiting", "refused"} /\ Killed(tree[o]) = "dead"
      \/ tree[o] \in {"none", "ended", "dead"} /\ Killed(tree[o]) = tree[o]
  BY <1>0, KilledFacts
<1> USE <1>0, <1>k DEF OpInv, Entered, Held, Live, Terminal, Stopped, Quiet, RowSame, RowIs,
        Fresh, PlaceSame, TreeSame, FilesSame, Alive
<1>1. CASE Stays(o)
  BY <1>1 DEF Stays, Rec
<1>2. CASE ReserveMove(o)
  BY <1>2 DEF ReserveMove
<1>3. CASE CancelMove(o)
  BY <1>3 DEF CancelMove
<1>4. CASE StopMove(o)
  BY <1>4 DEF StopMove
<1>5. CASE ClaimMove(o)
  BY <1>5 DEF ClaimMove
<1>6. CASE MaybeMove(o)
  BY <1>6 DEF MaybeMove
<1>7. CASE ConfirmMove(o)
  BY <1>7 DEF ConfirmMove
<1>8. CASE DenyMove(o)
  BY <1>8 DEF DenyMove
<1>9. CASE ReleaseMove(o)
  BY <1>9 DEF ReleaseMove
<1>10. CASE QuarantineMove(o)
  BY <1>10 DEF QuarantineMove
<1>11. CASE LaunchMove(o)
  BY <1>11 DEF LaunchMove
<1>12. CASE SpawnMove(o)
  BY <1>12 DEF SpawnMove
<1>13. CASE PlaceMove(o)
  BY <1>13 DEF PlaceMove
<1>14. CASE GateMove(o)
  BY <1>14 DEF GateMove
<1>15. CASE QuietMove(o)
  BY <1>15 DEF QuietMove
<1>16. CASE BeginMove(o)
  BY <1>16 DEF BeginMove
<1>17. CASE ReportMove(o)
  BY <1>17 DEF ReportMove
<1>18. CASE ExitMove(o)
  BY <1>18 DEF ExitMove
<1>19. CASE RebootMove(o)
  BY <1>19 DEF RebootMove
<1>20. QED
  BY <1>1, <1>2, <1>3, <1>4, <1>5, <1>6, <1>7, <1>8, <1>9, <1>10, <1>11, <1>12, <1>13, <1>14,
     <1>15, <1>16, <1>17, <1>18, <1>19
     DEF OpMove, LedgerMove, OwnMove, TreeMove

-----------------------------------------------------------------------------
(* Every step of the system is such a move of each operation.              *)

\* _reconcile_resources, row by row.
LEMMA RecFacts ==
  ASSUME Shape, NEW rows \in Reconciliations
  PROVE  rows \in [Ops -> Rows] /\ \A o \in Ops : Rec(o, rows[o])
<1>1. ASSUME NEW o \in Ops PROVE rows[o] \in Rows /\ Rec(o, rows[o])
  <2>1. PICK p \in Probes(o) : rows[o] = Reconciled(o, p)
    BY DEF Reconciliations, Outcomes
  <2>2. p = "gone" => ~Alive(o)
    BY DEF Probes
  <2> DEFINE r == row[o]
             s == IF r.state \in Live /\ r.old THEN "REBOOTED"
                  ELSE IF r.state = "RESERVED" /\ r.due THEN "EXPIRED"
                  ELSE IF r.state \in Held /\ p = "gone" THEN "RELEASED"
                  ELSE IF r.state = "CLAIMED" /\ p = "unknown" THEN "QUARANTINED"
                  ELSE r.state
  <2>3. rows[o] = [r EXCEPT !.due = FALSE, !.state = s]
    BY <2>1 DEF Reconciled
  <2>4. \/ s = r.state /\ (r.state \in Live => ~r.old)
        \/ r.state \in Live /\ r.old /\ s = "REBOOTED"
        \/ r.state = "RESERVED" /\ ~r.old /\ s = "EXPIRED"
        \/ r.state \in Held /\ ~r.old /\ p = "gone" /\ s = "RELEASED"
        \/ r.state = "CLAIMED" /\ ~r.old /\ s = "QUARANTINED"
    BY DEF Live, Held
  <2>5. r \in Rows
    BY DEF Shape
  <2> HIDE DEF s
  <2>6. s \in Live \cup Terminal \cup {"NONE"}
    BY <2>4, <2>5 DEF Rows, Live, Held, Terminal
  <2>7. QED
    BY <2>2, <2>3, <2>4, <2>5, <2>6 DEF Rec, Fresh, Rows
<1>2. QED
  BY <1>1 DEF Reconciliations

\* A ledger call that makes no row live leaves the holds with the live rows.
LEMMA CommitFacts ==
  ASSUME IInv, NEW rows \in [Ops -> Rows], Commit(rows, hold),
         \A o \in Ops : /\ rows[o].state \in Live => row[o].state \in Live
                        /\ row[o].state \in Live => rows[o].state \in Live \cup Terminal
  PROVE  row' = rows /\ hold' \in [Keys -> Ops \cup {Nobody}] /\ HoldInv'
<1>1. row' = rows /\ hold' = Freed(hold, rows)
  BY DEF Commit
<1>2. /\ hold \in [Keys -> Ops \cup {Nobody}]
      /\ \A k \in Keys : hold'[k] = IF hold[k] # Nobody /\ rows[hold[k]].state \in Terminal
                                    THEN Nobody ELSE hold[k]
  BY <1>1 DEF Freed, IInv, Shape
<1>3. \A o \in Ops : KeysOf[o] \subseteq Keys /\ o # Nobody
  BY LedgerAssumption
<1>4. HoldInv'
  <2>1. ASSUME NEW k \in Keys, hold'[k] # Nobody PROVE row'[hold'[k]].state \in Live
    BY <1>1, <1>2, <2>1 DEF IInv, HoldInv
  <2>2. ASSUME NEW o \in Ops, row'[o].state \in Live, NEW k \in KeysOf[o] PROVE hold'[k] = o
    BY <1>1, <1>2, <1>3, <2>2 DEF IInv, HoldInv, Live, Held, Terminal
  <2>3. QED
    BY <2>1, <2>2 DEF HoldInv
<1>5. hold' \in [Keys -> Ops \cup {Nobody}]
  BY <1>1, <1>2 DEF Freed
<1>6. QED
  BY <1>1, <1>4, <1>5

\* A reconciled row is not more alive than it was.
LEMMA RecLive ==
  ASSUME NEW o \in Ops, NEW r, Rec(o, r)
  PROVE  /\ r.state \in Live => row[o].state \in Live
         /\ row[o].state \in Live => r.state \in Live \cup Terminal
BY DEF Rec, Live, Held, Terminal

\* A ledger call that only reconciles is a move of every operation.
LEMMA ReconcileMoves ==
  ASSUME IInv, NEW rows \in Reconciliations, Commit(rows, hold)
  PROVE  /\ row' = rows /\ row' \in [Ops -> Rows] /\ hold' \in [Keys -> Ops \cup {Nobody}]
         /\ HoldInv' /\ \A o \in Ops : Rec(o, row'[o])
BY RecFacts, RecLive, CommitFacts DEF IInv

\* The supervisor of o goes to x, or keeps its place when x is where it is.
Moved(o, x) == /\ sup' \in [Ops -> Sups] /\ sup'[o].pc = x
               /\ \A q \in Ops \ {o} : sup'[q] = sup[q]

\* What the moves of a supervisor write.
LEMMA MovedFacts ==
  ASSUME Shape, NEW o \in Ops
  PROVE  /\ \A x \in Places : Go(o, x) => Moved(o, x)
         /\ \A x \in Places, m \in {"null", "false", "true"} : Remember(o, x, m) => Moved(o, x)
         /\ Ends(o) => Moved(o, "end")
<1>1. ASSUME NEW x \in Places, Go(o, x) PROVE Moved(o, x)
  BY <1>1 DEF Go, Moved, Shape, Sups
<1>2. ASSUME NEW x \in Places, NEW m \in {"null", "false", "true"}, Remember(o, x, m)
      PROVE  Moved(o, x)
  <2>1. sup \in [Ops -> Sups] /\ sup[o] \in Sups
    BY DEF Shape
  <2>2. /\ sup'[o] = [sup[o] EXCEPT !.pc = x, !.started = m]
        /\ \A q \in Ops \ {o} : sup'[q] = sup[q]
        /\ DOMAIN sup' = Ops /\ sup' = [q \in Ops |-> sup'[q]]
    BY <1>2, <2>1 DEF Remember
  <2>3. sup'[o] \in Sups /\ sup'[o].pc = x
    BY <2>1, <2>2 DEF Sups
  <2>4. QED
    BY <2>1, <2>2, <2>3 DEF Moved
<1>3. ASSUME Ends(o) PROVE Moved(o, "end")
  <2>1. [NoSup EXCEPT !.pc = "end"] \in Sups /\ [NoSup EXCEPT !.pc = "end"].pc = "end"
    BY DEF NoSup, NoReceipt, Sups, Receipts, Places
  <2>2. QED
    BY <1>3, <2>1 DEF Ends, Moved, Shape
<1>4. QED
  BY <1>1, <1>2, <1>3

\* The same of the step that also records the acceptance.
LEMMA AcceptFacts ==
  ASSUME Shape, NEW o \in Ops, NEW x \in Places, NEW b \in BOOLEAN,
         NEW m \in {"null", "false", "true"},
         \/ sup' = [sup EXCEPT ![o] = [@ EXCEPT !.pc = x, !.started = m, !.acc = b]]
         \/ sup' = [sup EXCEPT ![o].pc = x, ![o].acc = b]
  PROVE  Moved(o, x)
<1>1. sup[o] \in Sups /\ sup \in [Ops -> Sups]
  BY DEF Shape
<1>2. [sup[o] EXCEPT !.pc = x, !.started = m, !.acc = b] \in Sups
  BY <1>1 DEF Sups
<1>3. [sup[o] EXCEPT !.pc = x, !.acc = b] \in Sups
  BY <1>1 DEF Sups
<1>4. CASE sup' = [sup EXCEPT ![o] = [@ EXCEPT !.pc = x, !.started = m, !.acc = b]]
  BY <1>1, <1>2, <1>4 DEF Moved, Sups
<1>5. CASE sup' = [sup EXCEPT ![o].pc = x, ![o].acc = b]
  BY <1>1, <1>3, <1>5 DEF Moved, Sups
<1>6. QED
  BY <1>4, <1>5

Projects == Shape' /\ HoldInv' /\ \A o \in Ops : OpMove(o)

(* Nothing but o's place, tree and files changes.                          *)
Only(o, x) == /\ UNCHANGED <<row, hold>> /\ Moved(o, x)
              /\ tree' \in [Ops -> Trees]
              /\ files' \in [Ops -> SUBSET {"ready", "gate", "started", "refused"}]
              /\ \A q \in Ops \ {o} : TreeSame(q) /\ FilesSame(q)

\* A step of one operation is a move of it, and the others stay.
LEMMA OnlyProjects ==
  ASSUME IInv, NEW o \in Ops, NEW x, Only(o, x),
         RowSame(o) => OwnMove(o) \/ TreeMove(o) \/ Stays(o)
  PROVE  Projects
<1>1. Shape' /\ HoldInv'
  BY DEF Only, Moved, IInv, Shape, HoldInv
<1>2. RowSame(o)
  BY DEF Only, RowSame, RowIs
<1>3. \A q \in Ops \ {o} : Stays(q)
  BY DEF Only, Moved, Stays, RowSame, RowIs, PlaceSame
<1>4. QED
  BY <1>1, <1>2, <1>3 DEF Projects, OpMove

\* The supervisor's steps between two ledger calls, and its death.
LEMMA SupOwnSteps ==
  ASSUME IInv, NEW o \in Ops,
         \/ Launch(o) \/ SupStart(o) \/ SupAwait(o) \/ SupAccept(o) \/ SupMark(o) \/ SupGate(o)
         \/ SupWatch(o) \/ SupReport(o) \/ SupWrite(o) \/ SupFailed(o) \/ SupDies(o)
  PROVE  Projects
<1>0. Shape /\ sup[o].pc \in Places /\ OpInv(row[o], sup[o].pc, tree[o], files[o])
  BY DEF IInv, Shape, Sups
<1> USE <1>0, MovedFacts, OnlyProjects DEF Only, TreeSame, FilesSame, At, Ledger, Stopped, Quiet,
   Places
<1>1. CASE Launch(o)
  BY <1>1 DEF Launch, OwnMove, LaunchMove, Shape, Moved
<1>2. CASE SupStart(o)
  <2>1. CASE Ends(o) /\ UNCHANGED tree
    BY <1>2, <2>1 DEF SupStart, OwnMove, QuietMove, Shape, Moved
  <2>2. CASE Go(o, "await") /\ SetTree(o, "starting")
    BY <1>2, <2>2 DEF SupStart, SetTree, OwnMove, SpawnMove, Shape, Moved, Trees
  <2>3. CASE Go(o, "fail") /\ UNCHANGED tree
    BY <1>2, <2>3 DEF SupStart, OwnMove, QuietMove, Shape, Moved
  <2>4. QED
    BY <1>2, <2>1, <2>2, <2>3, Zenon DEF SupStart
<1>3. CASE SupAwait(o)
  BY <1>3 DEF SupAwait, OwnMove, PlaceMove, QuietMove, Shape, Moved
<1>4. CASE SupAccept(o)
  <2>2. UNCHANGED <<row, hold, tree, files>> /\ (Moved(o, "maybe") \/ Moved(o, "fail"))
    BY <1>4, AcceptFacts, Zenon DEF SupAccept
  <2>3. QED
    BY <1>4, <2>2 DEF SupAccept, OwnMove, PlaceMove, QuietMove, Shape, Moved
<1>5. CASE SupMark(o)
  BY <1>5 DEF SupMark, OwnMove, PlaceMove, QuietMove, Shape, Moved
<1>6. CASE SupGate(o)
  BY <1>6 DEF SupGate, WriteFile, OwnMove, GateMove, QuietMove, Shape, Moved
<1>7. CASE SupWatch(o)
  BY <1>7 DEF SupWatch, OwnMove, PlaceMove, QuietMove, Shape, Moved
<1>8. CASE SupReport(o)
  BY <1>8 DEF SupReport, OwnMove, QuietMove, Shape, Moved
<1>9. CASE SupWrite(o)
  BY <1>9 DEF SupWrite, OwnMove, QuietMove, Shape, Moved
<1>10. CASE SupFailed(o)
  BY <1>10 DEF SupFailed, OwnMove, QuietMove, Shape, Moved
<1>11. CASE SupDies(o)
  BY <1>11 DEF SupDies, OwnMove, QuietMove, Shape, Moved
<1>12. QED
  BY <1>1, <1>2, <1>3, <1>4, <1>5, <1>6, <1>7, <1>8, <1>9, <1>10, <1>11

\* The direct owner's steps between two ledger calls, and the process tree's.
LEMMA OwnerAndTreeSteps ==
  ASSUME IInv, NEW o \in Ops, OwnerFork(o) \/ OwnerGate(o) \/ Command(o)
  PROVE  Projects
<1>0. Shape /\ sup[o].pc \in Places /\ tree[o] \in Trees /\ Killed(tree[o]) \in Trees
  BY KilledFacts DEF IInv, Shape, Sups, Trees
<1> USE <1>0, OnlyProjects DEF Only, TreeSame, FilesSame, Ledger, Shape
<1>1. CASE OwnerFork(o)
  BY <1>1, MovedFacts DEF OwnerFork, At, SetTree, OwnMove, SpawnMove, Moved, Trees, Places
<1>2. CASE OwnerGate(o)
  BY <1>2, MovedFacts DEF OwnerGate, At, WriteFile, OwnMove, GateMove, QuietMove, Moved, Stopped,
     Quiet, Places
<1>3. CASE Command(o)
  <2>1. UNCHANGED <<row, hold, sup>> /\ Moved(o, sup[o].pc)
    BY <1>3 DEF Command, ObserverReady, OpenGate, ExecRefused, ReportStarted, TreeExit, Moved
  <2> USE <2>1 DEF TreeMove, PlaceSame, Trees
  <2>2. CASE ObserverReady(o)
    BY <2>2 DEF ObserverReady, SetTree, WriteFile, ReportMove
  <2>3. CASE OpenGate(o)
    BY <2>3 DEF OpenGate, SetTree, BeginMove
  <2>4. CASE ExecRefused(o)
    BY <2>4 DEF ExecRefused, SetTree, WriteFile, ReportMove
  <2>5. CASE ReportStarted(o)
    BY <2>5 DEF ReportStarted, SetTree, WriteFile, ReportMove
  <2>6. CASE TreeExit(o)
    BY <2>6 DEF TreeExit, SetTree, ExitMove
  <2>7. QED
    BY <1>3, <2>2, <2>3, <2>4, <2>5, <2>6 DEF Command
<1>4. QED
  BY <1>1, <1>2, <1>3

-----------------------------------------------------------------------------
(* Ledger calls.                                                           *)

\* A ledger call for o leaves the trees and files of the others alone.
LEMMA CallProjects ==
  ASSUME IInv, NEW o \in Ops, NEW x, Moved(o, x) \/ UNCHANGED sup,
         row' \in [Ops -> Rows], hold' \in [Keys -> Ops \cup {Nobody}], HoldInv',
         tree' \in [Ops -> Trees], UNCHANGED files,
         \A q \in Ops \ {o} : (RowSame(q) \/ Rec(q, row'[q])) /\ TreeSame(q),
         OpMove(o)
  PROVE  Projects
<1>1. sup' \in [Ops -> Sups] /\ \A q \in Ops \ {o} : PlaceSame(q)
  BY DEF Moved, PlaceSame, IInv, Shape
<1>2. Shape'
  BY <1>1 DEF Shape, IInv
<1>3. \A q \in Ops \ {o} : Stays(q)
  BY <1>1 DEF Stays, FilesSame
<1>4. QED
  BY <1>2, <1>3 DEF Projects, OpMove

\* A call that only reconciles.
LEMMA ReconcileProjects ==
  ASSUME IInv, NEW rows \in Reconciliations, Commit(rows, hold), UNCHANGED <<tree, files, sup>>
  PROVE  Projects
<1>1. /\ row' \in [Ops -> Rows] /\ hold' \in [Keys -> Ops \cup {Nobody}]
      /\ HoldInv' /\ \A o \in Ops : Rec(o, row'[o])
  BY ReconcileMoves
<1>2. Shape'
  BY <1>1 DEF Shape, IInv
<1>3. \A o \in Ops : Stays(o)
  BY <1>1 DEF Stays, PlaceSame, TreeSame, FilesSame
<1>4. QED
  BY <1>1, <1>2, <1>3 DEF Projects, OpMove

\* A call that, after an optional reconciliation, sets the state of o's live row.
LEMMA SetStateFacts ==
  ASSUME IInv, NEW o \in Ops, NEW s \in Live \cup Terminal, NEW rows \in [Ops -> Rows],
         \A q \in Ops : rows[q] = row[q] \/ Rec(q, rows[q]),
         rows[o].state \in Live, Commit(SetState(rows, o, s), hold)
  PROVE  /\ row' \in [Ops -> Rows] /\ hold' \in [Keys -> Ops \cup {Nobody}] /\ HoldInv'
         /\ RowIs(o, s, row[o].start)
         /\ \A q \in Ops \ {o} : RowSame(q) \/ Rec(q, row'[q])
<1> DEFINE new == SetState(rows, o, s)
<1>1. /\ new \in [Ops -> Rows] /\ new[o].state = s
      /\ new[o].start = rows[o].start /\ new[o].old = rows[o].old
      /\ \A q \in Ops \ {o} : new[q] = rows[q]
  BY DEF SetState, Rows
<1>2. \A q \in Ops : /\ rows[q].state \in Live => row[q].state \in Live
                     /\ row[q].state \in Live => rows[q].state \in Live \cup Terminal
  BY RecLive
<1>3. rows[o].start = row[o].start /\ rows[o].old = row[o].old
  BY DEF Rec
<1> HIDE DEF new
<1>4. \A q \in Ops : /\ new[q].state \in Live => row[q].state \in Live
                     /\ row[q].state \in Live => new[q].state \in Live \cup Terminal
  BY <1>1, <1>2
<1>5. row' = new /\ hold' \in [Keys -> Ops \cup {Nobody}] /\ HoldInv'
  BY <1>1, <1>4, CommitFacts DEF new
<1>6. QED
  BY <1>1, <1>3, <1>5 DEF RowIs, RowSame

\* A call that sets what the row says of the start.
LEMMA SetStartFacts ==
  ASSUME IInv, NEW o \in Ops, NEW c \in {"NO", "MAYBE", "YES"}, SetStart(o, c)
  PROVE  /\ row' \in [Ops -> Rows] /\ hold' \in [Keys -> Ops \cup {Nobody}] /\ HoldInv'
         /\ RowIs(o, row[o].state, c)
         /\ \A q \in Ops \ {o} : RowSame(q)
<1>1. row \in [Ops -> Rows] /\ row' = [row EXCEPT ![o].start = c] /\ hold' = hold
  BY DEF SetStart, IInv, Shape
<1>2. /\ row' \in [Ops -> Rows] /\ RowIs(o, row[o].state, c)
      /\ \A q \in Ops \ {o} : row'[q] = row[q]
  BY <1>1 DEF Rows, RowIs
<1>3. \A q \in Ops : row'[q].state = row[q].state
  BY <1>2 DEF RowIs
<1>4. HoldInv'
  BY <1>1, <1>3 DEF IInv, HoldInv, Shape
<1>5. QED
  BY <1>1, <1>2, <1>4 DEF RowSame, RowIs, IInv, Shape

\* A receipt the supervisor keeps is one.
LEMMA GotFacts ==
  ASSUME Shape, NEW o \in Ops, NEW x \in Places, NEW r \in Rows,
         sup' = [sup EXCEPT ![o].pc = x, ![o].got = Receipt(r)]
  PROVE  Moved(o, x)
<1>1. Receipt(r) \in Receipts
  BY DEF Receipt, Receipts, Rows
<1>2. sup[o] \in Sups /\ sup \in [Ops -> Sups]
  BY DEF Shape
<1>3. QED
  BY <1>1, <1>2 DEF Moved, Sups

\* The controller's calls for o.
LEMMA ReserveStep ==
  ASSUME IInv, NEW o \in Ops, Reserve(o)
  PROVE  Projects
<1>1. PICK rows \in Reconciliations :
        LET h == Freed(hold, rows) IN
        /\ rows[o].state = "NONE"
        /\ IF \E k \in KeysOf[o] : h[k] # Nobody
           THEN Commit(rows, h)
           ELSE Commit([rows EXCEPT ![o].state = "RESERVED", ![o].stale = FALSE],
                       [k \in Keys |-> IF k \in KeysOf[o] THEN o ELSE h[k]])
  BY DEF Reserve
<1> DEFINE h == Freed(hold, rows)
           new == [rows EXCEPT ![o].state = "RESERVED", ![o].stale = FALSE]
<1>2. UNCHANGED <<tree, files, sup>>
  BY DEF Reserve, Processes
<1>3. rows \in [Ops -> Rows] /\ \A q \in Ops : Rec(q, rows[q])
  BY RecFacts DEF IInv
<1>4. hold \in [Keys -> Ops \cup {Nobody}] /\ \A q \in Ops : KeysOf[q] \subseteq Keys /\ q # Nobody
  BY LedgerAssumption DEF IInv, Shape
<1>5. \A k \in Keys : h[k] = IF hold[k] # Nobody /\ rows[hold[k]].state \in Terminal
                             THEN Nobody ELSE hold[k]
  BY DEF Freed
<1>6. CASE \E k \in KeysOf[o] : h[k] # Nobody
  <2>1. Commit(rows, h)
    BY <1>1, <1>6
  <2>2. Freed(h, rows) = h
    BY <1>4, <1>5 DEF Freed
  <2>3. Commit(rows, hold)
    BY <2>1, <2>2 DEF Commit
  <2>4. QED
    BY <1>2, <2>3, ReconcileProjects
<1>7. CASE ~ \E k \in KeysOf[o] : h[k] # Nobody
  <2> DEFINE g == [k \in Keys |-> IF k \in KeysOf[o] THEN o ELSE h[k]]
  <2>1. row' = new /\ hold' = Freed(g, new)
    BY <1>1, <1>7 DEF Commit
  <2>2. /\ new \in [Ops -> Rows] /\ new[o].state = "RESERVED" /\ new[o].start = rows[o].start
        /\ new[o].old = rows[o].old /\ \A q \in Ops \ {o} : new[q] = rows[q]
    BY <1>3 DEF Rows, Live
  <2>3. \A q \in Ops : /\ rows[q].state \in Live => row[q].state \in Live
                       /\ row[q].state \in Live => rows[q].state \in Live \cup Terminal
    BY <1>3, RecLive
  <2>4. row[o].state = "NONE" /\ RowIs(o, "RESERVED", row[o].start)
    BY <1>1, <1>3, <2>1, <2>2 DEF Rec, RowIs, Live, Held
  <2> HIDE DEF new, h
  <2>5. \A k \in Keys : hold'[k] = IF k \in KeysOf[o] THEN o ELSE h[k]
    BY <1>3, <1>4, <1>5, <2>1, <2>2 DEF Freed, Terminal, IInv, HoldInv
  <2>6. hold' \in [Keys -> Ops \cup {Nobody}]
    BY <1>4, <1>5, <2>1, <2>5 DEF Freed
  <2>7. HoldInv'
    <3>1. ASSUME NEW k \in Keys, hold'[k] # Nobody PROVE row'[hold'[k]].state \in Live
      BY <1>4, <1>5, <2>1, <2>2, <2>3, <2>5, <3>1 DEF IInv, HoldInv, Live
    <3>2. ASSUME NEW q \in Ops, row'[q].state \in Live, NEW k \in KeysOf[q] PROVE hold'[k] = q
      BY <1>4, <1>5, <1>7, <2>1, <2>2, <2>3, <2>5, <3>2 DEF IInv, HoldInv, Live, Held, Terminal
    <3>3. QED
      BY <3>1, <3>2 DEF HoldInv
  <2>8. \A q \in Ops \ {o} : Rec(q, row'[q]) /\ TreeSame(q)
    BY <1>2, <1>3, <2>1, <2>2 DEF TreeSame
  <2>9. OpMove(o)
    BY <1>2, <2>4 DEF OpMove, LedgerMove, ReserveMove, PlaceSame, TreeSame, FilesSame
  <2>10. tree' \in [Ops -> Trees]
    BY <1>2 DEF IInv, Shape
  <2>11. QED
    BY <1>2, <2>1, <2>2, <2>6, <2>7, <2>8, <2>9, <2>10, CallProjects
<1>8. QED
  BY <1>6, <1>7

\* Cancel kills the tree of a held row before the row becomes terminal.
LEMMA CancelStep ==
  ASSUME IInv, NEW o \in Ops, Cancel(o)
  PROVE  Projects
<1>1. PICK rows \in Reconciliations :
          CASE rows[o].state \in Terminal -> Commit(rows, hold) /\ UNCHANGED tree
            [] rows[o].state = "RESERVED" ->
                 Commit(SetState(rows, o, "CANCELLED"), hold) /\ UNCHANGED tree
            [] rows[o].state \in Held ->
                 \E t \in Terminations(o) :
                    /\ tree' = [tree EXCEPT ![o] = t[2]]
                    /\ Commit(SetState(rows, o, IF t[1] THEN "CANCELLED" ELSE "QUARANTINED"),
                              hold)
  BY DEF Cancel
<1>2. UNCHANGED <<files, sup>> /\ row[o].state # "NONE"
  BY DEF Cancel
<1>3. /\ rows \in [Ops -> Rows] /\ \A q \in Ops : Rec(q, rows[q])
      /\ tree \in [Ops -> Trees] /\ row \in [Ops -> Rows]
  BY RecFacts DEF IInv, Shape
<1>4. /\ rows[o].state \in Terminal \/ rows[o].state = "RESERVED" \/ rows[o].state \in Held
      /\ rows[o].state \in {"RESERVED"} \cup Held =>
           /\ Fresh(o) /\ rows[o].state \in Live /\ rows[o].state \notin Terminal
           /\ row[o].state = "RESERVED" <=> rows[o].state = "RESERVED"
           /\ row[o].state \in Held <=> rows[o].state \in Held
  BY <1>2, <1>3 DEF Rec, Rows, Live, Held, Terminal
<1>5. CASE rows[o].state \in Terminal
  <2>1. Commit(rows, hold) /\ UNCHANGED tree
    BY <1>1, <1>5 DEF Terminal, Held
  <2>2. QED
    BY <1>2, <2>1, ReconcileProjects
<1>6. CASE rows[o].state = "RESERVED"
  <2>1. Commit(SetState(rows, o, "CANCELLED"), hold) /\ UNCHANGED tree
    BY <1>1, <1>6 DEF Terminal, Held
  <2>2. /\ row' \in [Ops -> Rows] /\ hold' \in [Keys -> Ops \cup {Nobody}] /\ HoldInv'
        /\ RowIs(o, "CANCELLED", row[o].start)
        /\ \A q \in Ops \ {o} : RowSame(q) \/ Rec(q, row'[q])
    BY <1>3, <1>4, <1>6, <2>1, SetStateFacts DEF Terminal
  <2>3. OpMove(o)
    BY <1>2, <1>4, <1>6, <2>1, <2>2 DEF OpMove, LedgerMove, CancelMove, PlaceSame, TreeSame,
       FilesSame
  <2>4. QED
    BY <1>2, <1>3, <2>1, <2>2, <2>3, CallProjects DEF TreeSame
<1>7. CASE rows[o].state \in Held
  <2>1. PICK t \in Terminations(o) :
          /\ tree' = [tree EXCEPT ![o] = t[2]]
          /\ Commit(SetState(rows, o, IF t[1] THEN "CANCELLED" ELSE "QUARANTINED"), hold)
    BY <1>1, <1>7 DEF Terminal, Held
  <2>2. /\ tree[o] \in Trees /\ Killed(tree[o]) \in Trees
        /\ ~Alive(o) => Killed(tree[o]) = tree[o]
    BY <1>3, KilledFacts DEF Trees, Alive
  <2>3. \/ t[1] /\ t[2] = Killed(tree[o])
        \/ ~t[1] /\ t[2] \in {tree[o], Killed(tree[o])}
    <3>1. \/ t = <<TRUE, Killed(tree[o])>>
          \/ t = <<FALSE, Killed(tree[o])>>
          \/ t = <<FALSE, tree[o]>>
      <4>1. CASE Alive(o)
        BY <4>1, Zenon DEF Terminations
      <4>2. CASE ~Alive(o)
        <5>1. t = <<TRUE, tree[o]>> \/ t = <<FALSE, tree[o]>>
          BY <4>2, Zenon DEF Terminations
        <5>2. Killed(tree[o]) = tree[o]
          BY <2>2, <4>2
        <5>3. QED
          BY <5>1, <5>2, Zenon
      <4>3. QED
        BY <4>1, <4>2
    <3>2. CASE t = <<TRUE, Killed(tree[o])>>
      <4>1. t[1]
        BY <3>2
      <4>2. t[2] = Killed(tree[o])
        BY <3>2
      <4>3. QED
        BY <4>1, <4>2
    <3>3. CASE t = <<FALSE, Killed(tree[o])>>
      <4>1. ~t[1]
        BY <3>3
      <4>2. t[2] = Killed(tree[o])
        BY <3>3
      <4>3. QED
        BY <4>1, <4>2
    <3>4. CASE t = <<FALSE, tree[o]>>
      <4>1. ~t[1]
        BY <3>4
      <4>2. t[2] = tree[o]
        BY <3>4
      <4>3. QED
        BY <4>1, <4>2
    <3>5. QED
      BY <3>1, <3>2, <3>3, <3>4
  <2>4. tree' \in [Ops -> Trees] /\ tree'[o] = t[2] /\ \A q \in Ops \ {o} : TreeSame(q)
    BY <1>3, <2>1, <2>2, <2>3 DEF TreeSame
  <2> DEFINE s == IF t[1] THEN "CANCELLED" ELSE "QUARANTINED"
  <2>5. /\ s \in Live \cup Terminal
        /\ \/ s = "CANCELLED" /\ tree'[o] = Killed(tree[o])
           \/ s = "QUARANTINED" /\ tree'[o] \in {tree[o], Killed(tree[o])}
    BY <2>3, <2>4, Zenon DEF Live, Held, Terminal
  <2> HIDE DEF s
  <2>6. /\ row' \in [Ops -> Rows] /\ hold' \in [Keys -> Ops \cup {Nobody}] /\ HoldInv'
        /\ RowIs(o, s, row[o].start)
        /\ \A q \in Ops \ {o} : RowSame(q) \/ Rec(q, row'[q])
    BY <1>3, <1>4, <1>7, <2>1, <2>5, SetStateFacts DEF s
  <2>7. OpMove(o)
    BY <1>2, <1>4, <1>7, <2>5, <2>6 DEF OpMove, LedgerMove, StopMove, QuarantineMove, PlaceSame,
       FilesSame
  <2>8. QED
    BY <1>2, <2>4, <2>6, <2>7, CallProjects
<1>8. QED
  BY <1>4, <1>5, <1>6, <1>7

\* The claim: only a reservation of this boot that has not expired.
LEMMA ClaimFacts ==
  ASSUME IInv, NEW o \in Ops, NEW new \in ClaimRows(o), Commit(new, hold)
  PROVE  /\ row' \in [Ops -> Rows] /\ hold' \in [Keys -> Ops \cup {Nobody}] /\ HoldInv'
         /\ row[o].state = "RESERVED" /\ Fresh(o) /\ RowIs(o, "CLAIMED", row[o].start)
         /\ \A q \in Ops \ {o} : RowSame(q) \/ Rec(q, row'[q])
<1>1. PICK rows \in Reconciliations : rows[o].state = "RESERVED" /\ new = SetState(rows, o, "CLAIMED")
  BY DEF ClaimRows
<1>2. rows \in [Ops -> Rows] /\ \A q \in Ops : Rec(q, rows[q])
  BY RecFacts DEF IInv
<1>3. row[o].state = "RESERVED" /\ Fresh(o) /\ rows[o].state \in Live /\ "CLAIMED" \in Live
  BY <1>1, <1>2 DEF Rec, Live, Held
<1>4. QED
  BY <1>1, <1>2, <1>3, SetStateFacts

\* The finish call and its like: released when nothing is left, else quarantined.
LEMMA FinishFacts ==
  ASSUME IInv, NEW o \in Ops, ~(row[o].state \in Held /\ row[o].old), NEW new \in FinishRows(o),
         Commit(new, hold)
  PROVE  /\ row' = new /\ row' \in [Ops -> Rows] /\ hold' \in [Keys -> Ops \cup {Nobody}] /\ HoldInv'
         /\ \/ RowSame(o)
            \/ /\ row[o].state \in Held /\ Fresh(o)
               /\ \/ ~Alive(o) /\ RowIs(o, "RELEASED", row[o].start)
                  \/ RowIs(o, "QUARANTINED", row[o].start)
         /\ \A q \in Ops \ {o} : RowSame(q) \/ Rec(q, row'[q])
<1>0. row \in [Ops -> Rows] /\ row' = new
  BY DEF IInv, Shape, Commit
<1>1. CASE row[o].state # "CLAIMED"
  <2>1. new = row
    BY <1>1 DEF FinishRows
  <2>2. \A q \in Ops : /\ row[q].state \in Live => row[q].state \in Live
                       /\ row[q].state \in Live => row[q].state \in Live \cup Terminal
    OBVIOUS
  <2>3. QED
    BY <1>0, <2>1, <2>2, CommitFacts DEF RowSame, RowIs
<1>2. CASE row[o].state = "CLAIMED"
  <2>1. PICK p \in Probes(o) :
          new = SetState(row, o, IF p = "gone" THEN "RELEASED" ELSE "QUARANTINED")
    BY <1>2 DEF FinishRows
  <2> DEFINE s == IF p = "gone" THEN "RELEASED" ELSE "QUARANTINED"
  <2>2. s \in Live \cup Terminal /\ row[o].state \in Live /\ row[o].state \in Held
    BY <1>2 DEF Live, Held, Terminal
  <2>3. s = "QUARANTINED" \/ (s = "RELEASED" /\ ~Alive(o))
    BY DEF Probes
  <2> HIDE DEF s
  <2>4. new = SetState(row, o, s)
    BY <2>1 DEF s
  <2>5. /\ row' \in [Ops -> Rows] /\ hold' \in [Keys -> Ops \cup {Nobody}] /\ HoldInv'
        /\ RowIs(o, s, row[o].start)
        /\ \A q \in Ops \ {o} : RowSame(q) \/ Rec(q, row'[q])
    BY <1>0, <2>2, <2>4, SetStateFacts
  <2>6. QED
    BY <1>0, <2>2, <2>3, <2>5 DEF Fresh
<1>3. QED
  BY <1>1, <1>2

\* The exception paths: a claim is quarantined.
LEMMA QuarantineFacts ==
  ASSUME IInv, NEW o \in Ops, row[o].state \in Held, Commit(QuarantineRow(o), hold)
  PROVE  /\ row' = QuarantineRow(o) /\ row' \in [Ops -> Rows]
         /\ hold' \in [Keys -> Ops \cup {Nobody}] /\ HoldInv'
         /\ RowIs(o, "QUARANTINED", row[o].start)
         /\ \A q \in Ops \ {o} : RowSame(q) \/ Rec(q, row'[q])
<1>1. row \in [Ops -> Rows] /\ row' = QuarantineRow(o)
  BY DEF IInv, Shape, Commit
<1>2. QuarantineRow(o) = SetState(row, o, "QUARANTINED")
  BY <1>1 DEF QuarantineRow, Held
<1>3. "QUARANTINED" \in Live \cup Terminal /\ row[o].state \in Live
  BY DEF Live, Held
<1>4. QED
  BY <1>1, <1>2, <1>3, SetStateFacts

\* Nothing the argument is about changes.
LEMMA IdleProjects ==
  ASSUME IInv, UNCHANGED <<row, hold, tree, files, sup>>
  PROVE  Projects
<1>1. Shape' /\ HoldInv'
  BY DEF IInv, Shape, HoldInv
<1>2. \A o \in Ops : Stays(o)
  BY DEF Stays, RowSame, RowIs, PlaceSame, TreeSame, FilesSame
<1>3. QED
  BY <1>1, <1>2 DEF Projects, OpMove

\* Renewals, and the status queries and cleanups of a controller: at most the
\* reconciliation of everything or the finish of a claim nobody supervises.
LEMMA QuerySteps ==
  ASSUME IInv, NEW o \in Ops, Renew(o) \/ Status(o) \/ Cleanup(o)
  PROVE  Projects
<1> USE DEF Ledger, Processes
<1>0. UNCHANGED <<tree, files, sup>>
  <2>1. CASE Renew(o)
    BY <2>1 DEF Renew
  <2>2. CASE Cleanup(o)
    BY <2>2, Zenon DEF Cleanup
  <2>3. CASE Status(o)
    BY <2>3 DEF Status, StatusAbsent, StatusAbandoned, StatusDeclare, StatusFetch, StatusApply,
       StatusCertify, StatusQuits
  <2>4. QED
    BY <2>1, <2>2, <2>3
<1>1. CASE \E rows \in Reconciliations : Commit(rows, hold)
  BY <1>0, <1>1, ReconcileProjects
<1>2. CASE UNCHANGED <<row, hold>>
  BY <1>0, <1>2, IdleProjects
<1>3. CASE row[o].state \in Held /\ ~row[o].old /\ \E rows \in FinishRows(o) : Commit(rows, hold)
  <2>1. /\ row' \in [Ops -> Rows] /\ hold' \in [Keys -> Ops \cup {Nobody}] /\ HoldInv'
        /\ \/ RowSame(o)
           \/ /\ row[o].state \in Held /\ Fresh(o)
              /\ \/ ~Alive(o) /\ RowIs(o, "RELEASED", row[o].start)
                 \/ RowIs(o, "QUARANTINED", row[o].start)
        /\ \A q \in Ops \ {o} : RowSame(q) \/ Rec(q, row'[q])
    BY <1>3, FinishFacts
  <2>2. /\ PlaceSame(o) /\ FilesSame(o) /\ \A q \in Ops : TreeSame(q)
        /\ tree' \in [Ops -> Trees]
    BY <1>0 DEF PlaceSame, FilesSame, TreeSame, IInv, Shape
  <2>3. CASE ~Alive(o) /\ RowIs(o, "RELEASED", row[o].start)
    <3>1. row'[o].stale = row[o].stale
      BY <1>3 DEF Commit, FinishRows, SetState, IInv, Shape, Rows
    <3>2. Rec(o, row'[o])
      BY <1>3, <2>3, <3>1 DEF Rec, RowIs, Fresh
    <3>3. OpMove(o)
      BY <2>2, <3>2 DEF OpMove, Stays
    <3>4. QED
      BY <1>0, <2>1, <2>2, <3>3, CallProjects
  <2>4. CASE RowIs(o, "QUARANTINED", row[o].start)
    <3>1. OpMove(o)
      BY <1>3, <2>2, <2>4 DEF OpMove, LedgerMove, QuarantineMove, Fresh, TreeSame
    <3>2. QED
      BY <1>0, <2>1, <2>2, <3>1, CallProjects
  <2>5. CASE RowSame(o)
    <3>1. OpMove(o)
      BY <2>2, <2>5 DEF OpMove, Stays
    <3>2. QED
      BY <1>0, <2>1, <2>2, <3>1, CallProjects
  <2>6. QED
    BY <2>1, <2>3, <2>4, <2>5
<1>4. \/ \E rows \in Reconciliations : Commit(rows, hold)
      \/ UNCHANGED <<row, hold>>
      \/ row[o].state \in Held /\ ~row[o].old /\ \E rows \in FinishRows(o) : Commit(rows, hold)
  <2>1. CASE Renew(o)
    BY <2>1 DEF Renew
  <2>2. CASE Cleanup(o)
    BY <2>2, Zenon DEF Cleanup
  <2>3. CASE Status(o)
    <3>1. CASE StatusAbandoned(o)
      <4>1. CASE row[o].state \in Held /\ ~row[o].old
        BY <3>1, <4>1, Zenon DEF StatusAbandoned
      <4>2. CASE ~(row[o].state \in Held /\ ~row[o].old)
        BY <3>1, <4>2, Zenon DEF StatusAbandoned
      <4>3. QED
        BY <4>1, <4>2
    <3>2. CASE StatusFetch(o)
      BY <3>2, Zenon DEF StatusFetch
    <3>3. CASE ~StatusAbandoned(o) /\ ~StatusFetch(o)
      BY <2>3, <3>3, Zenon DEF Status, StatusAbsent, StatusDeclare, StatusApply, StatusCertify,
         StatusQuits
    <3>4. QED
      BY <3>1, <3>2, <3>3
  <2>4. QED
    BY <2>1, <2>2, <2>3
<1>5. QED
  BY <1>1, <1>2, <1>3, <1>4

\* Time passes for a reservation, and a policy is installed.
LEMMA ClockAndPolicySteps ==
  ASSUME IInv, NEW o \in Ops, TimePasses(o) \/ PolicyInstall
  PROVE  Projects
<1>0. UNCHANGED <<hold, tree, files, sup>> /\ row \in [Ops -> Rows]
  BY DEF TimePasses, PolicyInstall, Processes, IInv, Shape
<1>1. row' \in [Ops -> Rows] /\ \A q \in Ops : RowSame(q)
  <2>1. ASSUME TimePasses(o) PROVE row' \in [Ops -> Rows] /\ \A q \in Ops : RowSame(q)
    <3>1. PICK b \in BOOLEAN : row' = [row EXCEPT ![o].due = b]
      BY <2>1, Zenon DEF TimePasses
    <3>2. QED
      BY <1>0, <3>1 DEF Rows, RowSame, RowIs
  <2>2. ASSUME PolicyInstall PROVE row' \in [Ops -> Rows] /\ \A q \in Ops : RowSame(q)
    <3>1. row' = [q \in Ops |-> [row[q] EXCEPT !.stale = row[q].state \in Live]]
      BY <2>2 DEF PolicyInstall
    <3>2. ASSUME NEW q \in Ops PROVE row'[q] \in Rows /\ RowSame(q)
      <4>1. (row[q].state \in Live) \in BOOLEAN
        OBVIOUS
      <4>2. PICK b \in BOOLEAN : row'[q] = [row[q] EXCEPT !.stale = b]
        BY <3>1, <4>1, Zenon
      <4>3. QED
        BY <1>0, <4>2 DEF Rows, RowSame, RowIs
    <3>3. QED
      BY <3>1, <3>2
  <2>3. QED
    BY <2>1, <2>2
<1>2. HoldInv'
  BY <1>0, <1>1 DEF IInv, Shape, HoldInv, RowSame, RowIs
<1>3. Shape'
  BY <1>0, <1>1 DEF IInv, Shape
<1>4. \A q \in Ops : Stays(q)
  BY <1>0, <1>1 DEF Stays, PlaceSame, TreeSame, FilesSame
<1>5. QED
  BY <1>2, <1>3, <1>4 DEF Projects, OpMove

\* A reboot ends every process and makes every live row one of an earlier boot.
LEMMA RebootStep ==
  ASSUME IInv, Reboot
  PROVE  Projects
<1>0. /\ row \in [Ops -> Rows] /\ tree \in [Ops -> Trees] /\ sup \in [Ops -> Sups]
      /\ UNCHANGED <<hold, files>>
  BY DEF IInv, Shape, Reboot
<1>1. row' \in [Ops -> Rows] /\ \A o \in Ops :
        /\ row'[o].state = row[o].state /\ row'[o].start = row[o].start
        /\ row'[o].old <=> (row[o].old \/ row[o].state \in Live)
  <2>1. row' = [o \in Ops |-> [row[o] EXCEPT !.old = @ \/ row[o].state \in Live]]
    BY DEF Reboot
  <2>2. QED
    BY <1>0, <2>1 DEF Rows
<1>2. tree' \in [Ops -> Trees] /\ \A o \in Ops : tree'[o] = Killed(tree[o])
  <2>1. tree' = [o \in Ops |-> Killed(tree[o])]
    BY DEF Reboot
  <2>2. \A o \in Ops : Killed(tree[o]) \in Trees
    BY <1>0, KilledFacts DEF Trees
  <2>3. QED
    BY <2>1, <2>2
<1>3. sup' \in [Ops -> Sups] /\ \A o \in Ops :
        sup'[o].pc = IF sup[o].pc \in Stopped THEN sup[o].pc ELSE "end"
  <2>1. [NoSup EXCEPT !.pc = "end"] \in Sups /\ [NoSup EXCEPT !.pc = "end"].pc = "end"
    BY DEF NoSup, NoReceipt, Sups, Receipts, Places
  <2>2. sup' = [o \in Ops |-> IF sup[o].pc \in Stopped THEN sup[o] ELSE [NoSup EXCEPT !.pc = "end"]]
    BY DEF Reboot
  <2>3. QED
    BY <1>0, <2>1, <2>2
<1>4. HoldInv'
  BY <1>0, <1>1 DEF IInv, Shape, HoldInv
<1>5. Shape'
  BY <1>0, <1>1, <1>2, <1>3, <1>4 DEF IInv, Shape
<1>6. \A o \in Ops : RebootMove(o)
  BY <1>0, <1>1, <1>2, <1>3 DEF RebootMove, FilesSame
<1>7. QED
  BY <1>4, <1>5, <1>6 DEF Projects, OpMove

\* A ledger call by o's own supervisor or owner: what it does to o is a move,
\* the other rows are at most reconciled.
OwnCall(o, x) ==
  /\ row' \in [Ops -> Rows] /\ hold' \in [Keys -> Ops \cup {Nobody}] /\ HoldInv'
  /\ Moved(o, x) /\ UNCHANGED <<tree, files>>
  /\ \A q \in Ops \ {o} : RowSame(q) \/ Rec(q, row'[q])

\* A step of an operation's own call moves that operation alone.
LEMMA OwnCallProjects ==
  ASSUME IInv, NEW o \in Ops, NEW x, OwnCall(o, x),
         sup'[o].pc = x /\ TreeSame(o) /\ FilesSame(o) => OpMove(o)
  PROVE  Projects
<1>1. /\ sup'[o].pc = x /\ FilesSame(o) /\ \A q \in Ops : TreeSame(q)
      /\ tree' \in [Ops -> Trees]
  BY DEF OwnCall, Moved, TreeSame, FilesSame, IInv, Shape
<1>2. QED
  BY <1>1, CallProjects DEF OwnCall

\* The call fails before it commits anything: the supervisor takes its exception path.
LEMMA NoCallProjects ==
  ASSUME IInv, NEW o \in Ops, NEW x \in Quiet, sup[o].pc \notin Stopped, Moved(o, x),
         UNCHANGED <<row, hold, tree, files>>
  PROVE  Projects
<1>1. Only(o, x)
  BY DEF Only, TreeSame, FilesSame, IInv, Shape
<1>2. RowSame(o) => OwnMove(o)
  BY DEF OwnMove, QuietMove, TreeSame, FilesSame, Moved
<1>3. QED
  BY <1>1, <1>2, OnlyProjects

\* The claims of a supervisor and of a direct owner.
LEMMA ClaimSteps ==
  ASSUME IInv, NEW o \in Ops, SupClaim(o) \/ OwnerClaim(o)
  PROVE  Projects
<1>0. Shape /\ UNCHANGED <<tree, files>> /\ sup[o].pc \notin Stopped
  BY DEF IInv, SupClaim, OwnerClaim, At, Stopped
<1>1. CASE SupClaim(o)
  <2>1. CASE UNCHANGED <<row, hold>> /\ Go(o, "fail")
    BY <1>0, <2>1, MovedFacts, NoCallProjects DEF Places, Quiet
  <2>2. ASSUME NEW new \in ClaimRows(o), Commit(new, hold), NEW x \in {"accept", "fail"}, Go(o, x)
        PROVE  Projects
    <3>1. OwnCall(o, x)
      BY <1>0, <2>2, ClaimFacts, MovedFacts DEF OwnCall, Places
    <3>2. row[o].state = "RESERVED" /\ Fresh(o) /\ RowIs(o, "CLAIMED", row[o].start)
      BY <2>2, ClaimFacts
    <3>3. sup'[o].pc = x /\ TreeSame(o) /\ FilesSame(o) => OpMove(o)
      BY <1>1, <2>2, <3>2 DEF SupClaim, At, OpMove, LedgerMove, ClaimMove
    <3>4. QED
      BY <3>1, <3>3, OwnCallProjects
  <2>3. QED
    BY <1>1, <2>1, <2>2 DEF SupClaim
<1>2. CASE OwnerClaim(o)
  <2>1. CASE UNCHANGED <<row, hold>> /\ Go(o, "o-fail")
    BY <1>0, <2>1, MovedFacts, NoCallProjects DEF Places, Quiet
  <2>2. ASSUME NEW new \in ClaimRows(o), Commit(new, hold), Moved(o, "o-maybe")
        PROVE  Projects
    <3>1. OwnCall(o, "o-maybe")
      BY <1>0, <2>2, ClaimFacts DEF OwnCall
    <3>2. row[o].state = "RESERVED" /\ Fresh(o) /\ RowIs(o, "CLAIMED", row[o].start)
      BY <2>2, ClaimFacts
    <3>3. sup'[o].pc = "o-maybe" /\ TreeSame(o) /\ FilesSame(o) => OpMove(o)
      BY <1>2, <2>2, <3>2 DEF OwnerClaim, At, OpMove, LedgerMove, ClaimMove
    <3>4. QED
      BY <3>1, <3>3, OwnCallProjects
  <2>3. \/ (\E new \in ClaimRows(o) : Commit(new, hold)) /\ Moved(o, "o-maybe")
        \/ UNCHANGED <<row, hold>> /\ Go(o, "o-fail")
    <3>1. "o-maybe" \in Places /\ "null" \in {"null", "false", "true"} /\ TRUE \in BOOLEAN
      BY DEF Places
    <3>2. QED
      BY <1>0, <1>2, <3>1, AcceptFacts, Zenon DEF OwnerClaim
  <2>4. QED
    BY <2>1, <2>2, <2>3
<1>3. QED
  BY <1>1, <1>2

\* The calls that record what is known of the start: MAYBE, YES and, for a
\* direct owner whose exec was refused, NO.
LEMMA StartSteps ==
  ASSUME IInv, NEW o \in Ops, SupMaybe(o) \/ SupConfirm(o) \/ OwnerMaybe(o) \/ OwnerExec(o)
  PROVE  Projects
<1>0. /\ Shape /\ UNCHANGED <<tree, files>> /\ sup[o].pc \notin Stopped
      /\ OpInv(row[o], sup[o].pc, tree[o], files[o])
  BY DEF IInv, SupMaybe, SupConfirm, OwnerMaybe, OwnerExec, At, Stopped
<1>1. ASSUME NEW x \in {"fail", "o-fail", "o-wait"}, UNCHANGED <<row, hold>>, Go(o, x)
      PROVE  Projects
  BY <1>0, <1>1, MovedFacts, NoCallProjects DEF Places, Quiet
<1>2. ASSUME NEW c \in {"NO", "MAYBE", "YES"}, NEW x \in Places,
             Current(o), SetStart(o, c), Go(o, x),
             \/ c = "MAYBE" /\ row[o].start = "NO" /\ sup[o].pc = "maybe" /\ x \in {"mark", "fail"}
             \/ c = "MAYBE" /\ row[o].start = "NO" /\ sup[o].pc = "o-maybe" /\ x = "o-gate"
             \/ /\ c = "YES" /\ row[o].start = "MAYBE" /\ sup[o].pc \in {"confirm", "o-exec"}
                /\ "started" \in files[o] /\ x \in Quiet
             \/ c = "NO" /\ sup[o].pc = "o-exec" /\ "refused" \in files[o] /\ x \in Quiet
      PROVE  Projects
  <2>1. OwnCall(o, x)
    BY <1>0, <1>2, SetStartFacts, MovedFacts DEF OwnCall
  <2>2. row[o].state = "CLAIMED" /\ Fresh(o) /\ RowIs(o, "CLAIMED", c)
    BY <1>2, SetStartFacts DEF Current, Fresh
  <2>3. sup'[o].pc = x /\ TreeSame(o) /\ FilesSame(o) => OpMove(o)
    BY <1>2, <2>2 DEF OpMove, LedgerMove, MaybeMove, ConfirmMove, DenyMove
  <2>4. QED
    BY <2>1, <2>3, OwnCallProjects
<1>3. CASE SupMaybe(o)
  BY <1>1, <1>2, <1>3 DEF SupMaybe, At, Places
<1>4. CASE SupConfirm(o)
  BY <1>0, <1>1, <1>2, <1>4 DEF SupConfirm, At, Places, Quiet, OpInv
<1>5. CASE OwnerMaybe(o)
  BY <1>1, <1>2, <1>5 DEF OwnerMaybe, At, Places
<1>6. CASE OwnerExec(o)
  BY <1>1, <1>2, <1>6 DEF OwnerExec, At, Places, Quiet
<1>7. QED
  BY <1>3, <1>4, <1>5, <1>6

\* How a run ends: the finish call, the exception paths and the owner's release.
LEMMA EndSteps ==
  ASSUME IInv, NEW o \in Ops, SupFinish(o) \/ SupFail(o) \/ OwnerWait(o) \/ OwnerFail(o)
  PROVE  Projects
<1>0. /\ Shape /\ UNCHANGED files /\ sup[o].pc \notin Stopped
      /\ row[o] \in Rows /\ tree[o] \in Trees
  <2>1. UNCHANGED files /\ sup[o].pc \notin Stopped
    BY Zenon DEF SupFinish, SupFail, OwnerWait, OwnerFail, At, Stopped
  <2>2. QED
    BY <2>1 DEF IInv, Shape
<1>1. ~(row[o].state \in Held /\ row[o].old)
  BY <1>0 DEF IInv, OpInv, Stopped
<1>2. ASSUME NEW x \in Quiet, Moved(o, x), UNCHANGED <<row, hold, tree>>
      PROVE  Projects
  BY <1>0, <1>2, NoCallProjects
<1>3. ASSUME NEW x \in Quiet, OwnCall(o, x),
             \/ RowSame(o)
             \/ /\ row[o].state \in Held
                /\ \/ ~Alive(o) /\ RowIs(o, "RELEASED", row[o].start)
                   \/ RowIs(o, "QUARANTINED", row[o].start)
      PROVE  Projects
  <2>1. sup'[o].pc = x /\ TreeSame(o) /\ FilesSame(o) => OpMove(o)
    BY <1>0, <1>1, <1>3 DEF OpMove, LedgerMove, OwnMove, QuietMove, ReleaseMove, QuarantineMove,
       Fresh, TreeSame
  <2>2. QED
    BY <1>3, <2>1, OwnCallProjects
<1>4. CASE SupFinish(o)
  <2>0. UNCHANGED tree
    BY <1>4 DEF SupFinish
  <2>1. CASE UNCHANGED <<row, hold>> /\ Go(o, "fail")
    BY <1>0, <1>2, <2>0, <2>1, MovedFacts DEF Places, Quiet
  <2>2. ASSUME NEW new \in FinishRows(o), Commit(new, hold),
               \/ sup' = [sup EXCEPT ![o].pc = "write", ![o].got = Receipt(new[o])]
               \/ Go(o, "fail")
        PROVE  Projects
    <3>1. /\ row' = new /\ row' \in [Ops -> Rows] /\ hold' \in [Keys -> Ops \cup {Nobody}]
          /\ HoldInv'
          /\ \/ RowSame(o)
             \/ /\ row[o].state \in Held
                /\ \/ ~Alive(o) /\ RowIs(o, "RELEASED", row[o].start)
                   \/ RowIs(o, "QUARANTINED", row[o].start)
          /\ \A q \in Ops \ {o} : RowSame(q) \/ Rec(q, row'[q])
      BY <1>1, <2>2, FinishFacts
    <3>2. \E x \in Quiet : Moved(o, x)
      BY <1>0, <2>2, <3>1, GotFacts, MovedFacts DEF Places, Quiet
    <3>3. PICK x \in Quiet : OwnCall(o, x)
      BY <1>0, <2>0, <3>1, <3>2 DEF OwnCall
    <3>4. QED
      BY <1>3, <3>1, <3>3
  <2>3. QED
    BY <1>4, <2>1, <2>2 DEF SupFinish
<1>5. CASE SupFail(o)
  <2>0. UNCHANGED tree
    BY <1>5 DEF SupFail
  <2>1. CASE UNCHANGED <<row, hold>> /\ Go(o, "failed")
    BY <1>0, <1>2, <2>0, <2>1, MovedFacts DEF Places, Quiet
  <2>2. ASSUME row[o].state \in Held, Commit(QuarantineRow(o), hold),
               \/ sup' = [sup EXCEPT ![o].pc = "failed", ![o].got = Receipt(QuarantineRow(o)[o])]
               \/ Go(o, "failed")
        PROVE  Projects
    <3>1. /\ row' = QuarantineRow(o) /\ row' \in [Ops -> Rows]
          /\ hold' \in [Keys -> Ops \cup {Nobody}] /\ HoldInv'
          /\ RowIs(o, "QUARANTINED", row[o].start)
          /\ \A q \in Ops \ {o} : RowSame(q) \/ Rec(q, row'[q])
      BY <2>2, QuarantineFacts
    <3>2. "failed" \in Quiet /\ Moved(o, "failed")
      BY <1>0, <2>2, <3>1, GotFacts, MovedFacts DEF Places, Quiet
    <3>3. OwnCall(o, "failed")
      BY <1>0, <2>0, <3>1, <3>2 DEF OwnCall
    <3>4. QED
      BY <1>3, <2>2, <3>1, <3>2, <3>3
  <2>3. QED
    BY <1>5, <2>1, <2>2 DEF SupFail
<1>6. CASE OwnerWait(o)
  <2>0. UNCHANGED tree /\ "end" \in Quiet /\ "o-fail" \in Quiet
    BY <1>6, Zenon DEF OwnerWait, Quiet
  <2>1. ASSUME row[o].state \in Held, Ends(o), Commit(QuarantineRow(o), hold) PROVE Projects
    <3>1. Moved(o, "end")
      BY <1>0, <2>1, MovedFacts
    <3>2. OwnCall(o, "end") /\ RowIs(o, "QUARANTINED", row[o].start)
      BY <1>0, <2>0, <2>1, <3>1, QuarantineFacts DEF OwnCall
    <3>3. QED
      BY <1>3, <2>0, <2>1, <3>2
  <2>2. ASSUME row[o].state \in Held, Ends(o), ~Alive(o), Commit(SetState(row, o, "RELEASED"), hold)
        PROVE  Projects
    <3>1. Moved(o, "end")
      BY <1>0, <2>2, MovedFacts
    <3>2. "RELEASED" \in Live \cup Terminal /\ row[o].state \in Live /\ row \in [Ops -> Rows]
      BY <1>0, <2>2 DEF Live, Terminal, Shape
    <3>3. OwnCall(o, "end") /\ RowIs(o, "RELEASED", row[o].start)
      BY <1>0, <2>0, <2>2, <3>1, <3>2, SetStateFacts DEF OwnCall
    <3>4. QED
      BY <1>3, <2>0, <2>2, <3>3
  <2>3. ASSUME UNCHANGED <<row, hold>>, Ends(o) \/ Go(o, "o-fail") PROVE Projects
    <3>1. Moved(o, "end") \/ Moved(o, "o-fail")
      BY <1>0, <2>3, MovedFacts DEF Places
    <3>2. QED
      BY <1>2, <2>0, <2>3, <3>1
  <2>4. QED
    BY <1>6, <2>1, <2>2, <2>3, Zenon DEF OwnerWait
<1>7. CASE OwnerFail(o)
  <2>1. /\ Moved(o, "end") /\ "end" \in Quiet
        /\ tree' = tree \/ tree' = [tree EXCEPT ![o] = Killed(tree[o])]
    <3>1. Ends(o) /\ (tree' = tree \/ tree' = [tree EXCEPT ![o] = Killed(tree[o])])
      BY <1>7, Zenon DEF OwnerFail
    <3>2. QED
      BY <1>0, <3>1, MovedFacts DEF Quiet
  <2>2. \/ row[o].state \in Held /\ Commit(QuarantineRow(o), hold)
        \/ UNCHANGED <<row, hold>>
    BY <1>7, Zenon DEF OwnerFail
  <2>3. /\ tree' \in [Ops -> Trees] /\ tree'[o] \in {tree[o], Killed(tree[o])}
        /\ \A q \in Ops \ {o} : TreeSame(q)
    <3>1. tree \in [Ops -> Trees] /\ Killed(tree[o]) \in Trees
      BY <1>0, KilledFacts DEF Shape, Trees
    <3>2. QED
      BY <2>1, <3>1 DEF TreeSame
  <2>4. CASE row[o].state \in Held /\ Commit(QuarantineRow(o), hold)
    <3>1. /\ row' \in [Ops -> Rows] /\ hold' \in [Keys -> Ops \cup {Nobody}] /\ HoldInv'
          /\ RowIs(o, "QUARANTINED", row[o].start)
          /\ \A q \in Ops \ {o} : RowSame(q) \/ Rec(q, row'[q])
      BY <2>4, QuarantineFacts
    <3>2. OpMove(o)
      BY <1>0, <1>1, <2>1, <2>3, <2>4, <3>1 DEF OpMove, LedgerMove, QuarantineMove, Fresh,
         FilesSame,
         Moved
    <3>3. QED
      BY <1>0, <2>1, <2>3, <3>1, <3>2, CallProjects
  <2>5. CASE UNCHANGED <<row, hold>>
    <3>1. Only(o, "end")
      BY <1>0, <2>1, <2>3, <2>5 DEF Only, FilesSame, Shape
    <3>2. RowSame(o) => OwnMove(o)
      BY <1>0, <2>1, <2>3 DEF OwnMove, QuietMove, FilesSame, Moved
    <3>3. QED
      BY <3>1, <3>2, OnlyProjects
  <2>6. QED
    BY <2>2, <2>4, <2>5
<1>8. QED
  BY <1>4, <1>5, <1>6, <1>7

\* Every step of the system is a move of each operation.
LEMMA StepProjects ==
  ASSUME IInv, [Next]_vars
  PROVE  Projects
<1>1. CASE UNCHANGED vars
  BY <1>1, IdleProjects DEF vars
<1>2. CASE Reboot
  BY <1>2, RebootStep
<1>3. CASE PolicyInstall
  <2>1. CASE Ops = {}
    BY <1>3, <2>1 DEF PolicyInstall, Processes, Projects, IInv, Shape, HoldInv
  <2>2. CASE Ops # {}
    BY <1>3, <2>2, ClockAndPolicySteps
  <2>3. QED
    BY <2>1, <2>2
<1>4. ASSUME NEW o \in Ops,
             \/ Controller(o) \/ Status(o) \/ Supervise(o) \/ Own(o)
             \/ SupDies(o) \/ Command(o) \/ TimePasses(o)
      PROVE  Projects
  <2>1. CASE Controller(o)
    BY <2>1, ReserveStep, QuerySteps, CancelStep, SupOwnSteps, OwnerAndTreeSteps DEF Controller
  <2>2. CASE Status(o)
    BY <2>2, QuerySteps
  <2>3. CASE Supervise(o)
    BY <2>3, SupOwnSteps, ClaimSteps, StartSteps, EndSteps DEF Supervise
  <2>4. CASE Own(o)
    BY <2>4, OwnerAndTreeSteps, ClaimSteps, StartSteps, EndSteps DEF Own
  <2>5. CASE SupDies(o)
    BY <2>5, SupOwnSteps
  <2>6. CASE Command(o)
    BY <2>6, OwnerAndTreeSteps
  <2>7. CASE TimePasses(o)
    BY <2>7, ClockAndPolicySteps
  <2>8. QED
    BY <1>4, <2>1, <2>2, <2>3, <2>4, <2>5, <2>6, <2>7
<1>5. QED
  BY <1>1, <1>2, <1>3, <1>4 DEF Next

-----------------------------------------------------------------------------
(* The invariant and what follows from it.                                 *)

\* Nothing is reserved, held or running at first.
LEMMA InvInit == Init => IInv
<1> SUFFICES ASSUME Init PROVE IInv
  OBVIOUS
<1>0. \A o \in Ops : /\ row[o] = [state |-> "NONE", start |-> "NO", stale |-> FALSE,
                                  due |-> FALSE, old |-> FALSE]
                     /\ sup[o] = NoSup /\ tree[o] = "none" /\ files[o] = {}
  BY DEF Init
<1>1. \A o \in Ops : row[o].state = "NONE" /\ row[o].start = "NO" /\ ~row[o].old /\ sup[o].pc = "none"
  BY <1>0 DEF NoSup
<1>2. [state |-> "NONE", start |-> "NO", stale |-> FALSE, due |-> FALSE, old |-> FALSE] \in Rows
  BY DEF Rows
<1>3. NoSup \in Sups
  BY DEF NoSup, NoReceipt, Sups, Receipts, Places
<1>4. Shape
  BY <1>2, <1>3 DEF Init, Shape, Trees
<1>5. HoldInv
  BY <1>1 DEF Init, HoldInv, Live, Held
<1>6. \A o \in Ops : OpInv(row[o], sup[o].pc, tree[o], files[o])
  BY <1>0, <1>1 DEF OpInv, Held, Entered
<1>7. QED
  BY <1>4, <1>5, <1>6 DEF IInv

\* Every step keeps it, operation by operation.
LEMMA InvStep == IInv /\ [Next]_vars => IInv'
<1> SUFFICES ASSUME IInv, [Next]_vars PROVE IInv'
  OBVIOUS
<1>1. Projects
  BY StepProjects
<1>2. \A o \in Ops : OpInv(row[o], sup[o].pc, tree[o], files[o])'
  BY <1>1, OpInvStep DEF Projects, IInv
<1>3. QED
  BY <1>1, <1>2 DEF Projects, IInv

\* The invariant holds in every reachable state.
LEMMA Invariance == Spec => []IInv
BY InvInit, InvStep, PTL DEF Spec

\* Two commands never run at once on a shared resource key: a running command
\* passed the gate, so its row is still held (cancel kills before it frees, and
\* _reconcile_resources frees only what is seen gone), and a held row has all
\* its keys in target_resource_holds.
THEOREM NeverShared == Spec => []ExclusiveUse
<1>1. IInv => ExclusiveUse
  <2> SUFFICES ASSUME IInv, NEW a \in Ops, NEW b \in Ops, a # b, KeysOf[a] \cap KeysOf[b] # {},
                      tree[a] \in {"running", "linger"}, tree[b] \in {"running", "linger"}
               PROVE  FALSE
    BY DEF ExclusiveUse
  <2>1. \A o \in Ops : tree[o] \in {"running", "linger"} => row[o].state \in Live
    BY DEF IInv, OpInv, Live
  <2>2. \A o \in Ops : row[o].state \in Live => \A k \in KeysOf[o] : hold[k] = o
    BY DEF IInv, HoldInv
  <2>3. QED
    BY <2>1, <2>2
<1>2. QED
  BY <1>1, Invariance, PTL

-----------------------------------------------------------------------------
(* Refinement: what a move of one operation is in terms of TargetOp.       *)

Gone(t) == IF t = "running" THEN "ended" ELSE IF t = "waiting" THEN "dead" ELSE t

(* From allocation state a, start certainty c and tree t to a2, c2 and t2. *)
AbsRow(a, t, a2) == \/ a = "NONE" /\ a2 = "RESERVED"
                    \/ a = "RESERVED" /\ a2 \in {"EXPIRED", "CANCELLED"}
                    \/ a = "RESERVED" /\ t # "none" /\ a2 = "CLAIMED"
                    \/ a \in Held /\ t \in {"ended", "dead"} /\ a2 = "RELEASED"
AbsTree(a, c, t, t2) == \/ a # "NONE" /\ t = "none" /\ t2 = "waiting"
                        \/ t = "waiting" /\ a \in Held /\ c = "MAYBE" /\ t2 = "running"
                        \/ t \in {"waiting", "running"} /\ t2 = Gone(t)
AbsStart(c, t, c2) == \/ c = "NO" /\ c2 = "MAYBE"
                      \/ c = "MAYBE" /\ t \in {"running", "ended"} /\ c2 = "YES"
                      \/ c = "MAYBE" /\ t \in {"waiting", "dead"} /\ c2 = "NO"
AbsStop(t, a2, t2) == \/ a2 = "CANCELLED" /\ t2 = Gone(t)
                      \/ a2 = "QUARANTINED" /\ t2 \in {t, Gone(t)}
AbsMove(a, c, t, a2, c2, t2) ==
  \/ a2 = a /\ c2 = c /\ t2 = t
  \/ c2 = c /\ t2 = t /\ AbsRow(a, t, a2)
  \/ a2 = a /\ c2 = c /\ AbsTree(a, c, t, t2)
  \/ a2 = a /\ t2 = t /\ a = "CLAIMED" /\ AbsStart(c, t, c2)
  \/ c2 = c /\ a \in Held /\ AbsStop(t, a2, t2)
  \/ c2 = c /\ t2 = Gone(t) /\ a2 = IF a \in Live THEN "REBOOTED" ELSE a

AbsStep(o) == AbsMove(AllocBar(o), row[o].start, TreeBar(o),
                      AllocBar(o)', row'[o].start, TreeBar(o)')

\* Every move is one of them: no command starts without a held row and a
\* recorded MAYBE, and none goes on behind a terminal row.
LEMMA MoveIsAbstract ==
  ASSUME Shape, Shape', NEW o \in Ops, OpInv(row[o], sup[o].pc, tree[o], files[o]), OpMove(o)
  PROVE  AbsStep(o)
<1>0. /\ row[o] \in Rows /\ row'[o] \in Rows /\ tree[o] \in Trees
      /\ sup[o].pc \in Places /\ sup'[o].pc \in Places
      /\ row[o].old \in BOOLEAN /\ row'[o].old \in BOOLEAN
  BY DEF Shape, Sups, Rows
<1>k. \/ tree[o] \in {"running", "linger"} /\ Killed(tree[o]) = "ended"
      \/ tree[o] \in {"starting", "waiting", "refused"} /\ Killed(tree[o]) = "dead"
      \/ tree[o] \in {"none", "ended", "dead"} /\ Killed(tree[o]) = tree[o]
  BY <1>0, KilledFacts
<1> USE <1>0, <1>k DEF OpInv, Entered, Held, Live, Terminal, Stopped, Quiet, RowSame, RowIs,
        Fresh, PlaceSame, TreeSame, FilesSame, Alive, AbsStep, AbsMove, AbsRow, AbsTree, AbsStart,
        AbsStop, AllocBar, TreeBar, Gone
<1>1. CASE Stays(o)
  BY <1>1 DEF Stays, Rec
<1>2. CASE ReserveMove(o)
  BY <1>2 DEF ReserveMove
<1>3. CASE CancelMove(o)
  BY <1>3 DEF CancelMove
<1>4. CASE StopMove(o)
  BY <1>4 DEF StopMove
<1>5. CASE ClaimMove(o)
  BY <1>5 DEF ClaimMove
<1>6. CASE MaybeMove(o)
  BY <1>6 DEF MaybeMove
<1>7. CASE ConfirmMove(o)
  BY <1>7 DEF ConfirmMove
<1>8. CASE DenyMove(o)
  BY <1>8 DEF DenyMove
<1>9. CASE ReleaseMove(o)
  BY <1>9 DEF ReleaseMove
<1>10. CASE QuarantineMove(o)
  BY <1>10 DEF QuarantineMove
<1>11. CASE OwnMove(o)
  BY <1>11 DEF OwnMove, LaunchMove, SpawnMove, PlaceMove, GateMove, QuietMove
<1>12. CASE TreeMove(o)
  BY <1>12 DEF TreeMove, BeginMove, ReportMove, ExitMove
<1>13. CASE RebootMove(o)
  BY <1>13 DEF RebootMove
<1>14. QED
  BY <1>1, <1>2, <1>3, <1>4, <1>5, <1>6, <1>7, <1>8, <1>9, <1>10, <1>11, <1>12, <1>13
     DEF OpMove, LedgerMove

\* A durable launch takes the steps TargetOp allows, one at a time.
LEMMA DurableStep ==
  ASSUME AbsStep(dur)
  PROVE  [Durable!Next]_(Durable!vars)
<1> DEFINE a == AllocBar(dur)  c == row[dur].start  t == TreeBar(dur)
           a2 == AllocBar(dur)'  c2 == row'[dur].start  t2 == TreeBar(dur)'
<1>1. /\ AllocOf({dur}) = [x \in {dur} |-> a] /\ AllocOf({dur})' = [x \in {dur} |-> a2]
      /\ StartOf({dur}) = [x \in {dur} |-> c] /\ StartOf({dur})' = [x \in {dur} |-> c2]
      /\ TreeOf({dur}) = [x \in {dur} |-> t] /\ TreeOf({dur})' = [x \in {dur} |-> t2]
  BY DEF AllocOf, StartOf, TreeOf
<1>2. AbsMove(a, c, t, a2, c2, t2)
  BY DEF AbsStep
<1> HIDE DEF a, c, t, a2, c2, t2
<1>3. CASE a2 = a /\ c2 = c /\ t2 = t
  BY <1>1, <1>3 DEF Durable!vars
<1>4. CASE c2 = c /\ t2 = Gone(t) /\ a2 = IF a \in Live THEN "REBOOTED" ELSE a
  BY <1>1, <1>4 DEF Durable!Next, Durable!Reboot, Durable!Killed, Durable!Held, Gone, Live, Held
<1>5. CASE c2 = c /\ t2 = t /\ AbsRow(a, t, a2)
  <2>1. Durable!Step(dur)
    BY <1>1, <1>5 DEF AbsRow, Held, Durable!Held, Durable!Step, Durable!Set, Durable!Reserve,
       Durable!Expire,
       Durable!Claim, Durable!Release, Durable!Cancel
  <2>2. QED
    BY <2>1 DEF Durable!Next
<1>6. CASE a2 = a /\ c2 = c /\ AbsTree(a, c, t, t2)
  <2>1. Durable!Step(dur)
    BY <1>1, <1>6 DEF AbsTree, Gone, Held, Durable!Held, Durable!Killed, Durable!Step,
       Durable!Set, Durable!Spawn,
       Durable!Begin, Durable!Exit
  <2>2. QED
    BY <2>1 DEF Durable!Next
<1>7. CASE a2 = a /\ t2 = t /\ a = "CLAIMED" /\ AbsStart(c, t, c2)
  <2>1. Durable!Step(dur)
    BY <1>1, <1>7 DEF AbsStart, Durable!Step, Durable!Set, Durable!Maybe, Durable!Confirm,
       Durable!Deny
  <2>2. QED
    BY <2>1 DEF Durable!Next
<1>8. CASE c2 = c /\ a \in Held /\ AbsStop(t, a2, t2)
  <2>1. Durable!Step(dur)
    BY <1>1, <1>8 DEF AbsStop, Gone, Held, Durable!Held, Durable!Killed, Durable!Step,
       Durable!Set, Durable!Cancel,
       Durable!CouldNotStop
  <2>2. QED
    BY <2>1 DEF Durable!Next
<1>9. QED
  BY <1>2, <1>3, <1>4, <1>5, <1>6, <1>7, <1>8 DEF AbsMove

\* A direct owner's operation takes them too.
LEMMA OwnedStep ==
  ASSUME AbsStep(dir)
  PROVE  [Owned!Next]_(Owned!vars)
<1> DEFINE a == AllocBar(dir)  c == row[dir].start  t == TreeBar(dir)
           a2 == AllocBar(dir)'  c2 == row'[dir].start  t2 == TreeBar(dir)'
<1>1. /\ AllocOf({dir}) = [x \in {dir} |-> a] /\ AllocOf({dir})' = [x \in {dir} |-> a2]
      /\ StartOf({dir}) = [x \in {dir} |-> c] /\ StartOf({dir})' = [x \in {dir} |-> c2]
      /\ TreeOf({dir}) = [x \in {dir} |-> t] /\ TreeOf({dir})' = [x \in {dir} |-> t2]
  BY DEF AllocOf, StartOf, TreeOf
<1>2. AbsMove(a, c, t, a2, c2, t2)
  BY DEF AbsStep
<1> HIDE DEF a, c, t, a2, c2, t2
<1>3. CASE a2 = a /\ c2 = c /\ t2 = t
  BY <1>1, <1>3 DEF Owned!vars
<1>4. CASE c2 = c /\ t2 = Gone(t) /\ a2 = IF a \in Live THEN "REBOOTED" ELSE a
  BY <1>1, <1>4 DEF Owned!Next, Owned!Reboot, Owned!Killed, Owned!Held, Gone, Live, Held
<1>5. CASE c2 = c /\ t2 = t /\ AbsRow(a, t, a2)
  <2>1. Owned!Step(dir)
    BY <1>1, <1>5 DEF AbsRow, Held, Owned!Held, Owned!Step, Owned!Set, Owned!Reserve, Owned!Expire,
       Owned!Claim, Owned!Release, Owned!Cancel
  <2>2. QED
    BY <2>1 DEF Owned!Next
<1>6. CASE a2 = a /\ c2 = c /\ AbsTree(a, c, t, t2)
  <2>1. Owned!Step(dir)
    BY <1>1, <1>6 DEF AbsTree, Gone, Held, Owned!Held, Owned!Killed, Owned!Step, Owned!Set,
       Owned!Spawn,
       Owned!Begin, Owned!Exit
  <2>2. QED
    BY <2>1 DEF Owned!Next
<1>7. CASE a2 = a /\ t2 = t /\ a = "CLAIMED" /\ AbsStart(c, t, c2)
  <2>1. Owned!Step(dir)
    BY <1>1, <1>7 DEF AbsStart, Owned!Step, Owned!Set, Owned!Maybe, Owned!Confirm, Owned!Deny
  <2>2. QED
    BY <2>1 DEF Owned!Next
<1>8. CASE c2 = c /\ a \in Held /\ AbsStop(t, a2, t2)
  <2>1. Owned!Step(dir)
    BY <1>1, <1>8 DEF AbsStop, Gone, Held, Owned!Held, Owned!Killed, Owned!Step, Owned!Set,
       Owned!Cancel,
       Owned!CouldNotStop
  <2>2. QED
    BY <2>1 DEF Owned!Next
<1>9. QED
  BY <1>2, <1>3, <1>4, <1>5, <1>6, <1>7, <1>8 DEF AbsMove

\* The ledger, the supervisor or owner and the start gate together implement
\* what TargetOp promises of an operation, for any operation in any company;
\* a controller draws its conclusions from that (FleetDispatchProofs).
THEOREM LedgerImplementsTargetOp == Spec => ImplementsTargetOp
<1>1. Init => Durable!Init /\ Owned!Init
  BY InstanceAssumption DEF Init, Durable!Init, Owned!Init, AllocOf, StartOf, TreeOf, AllocBar,
     TreeBar, Live, Held
<1>2. IInv /\ [Next]_vars => [Durable!Next]_(Durable!vars) /\ [Owned!Next]_(Owned!vars)
  <2> SUFFICES ASSUME IInv, [Next]_vars
               PROVE  [Durable!Next]_(Durable!vars) /\ [Owned!Next]_(Owned!vars)
    OBVIOUS
  <2>1. Projects
    BY StepProjects
  <2>2. AbsStep(dur) /\ AbsStep(dir)
    BY <2>1, MoveIsAbstract, InstanceAssumption DEF Projects, IInv
  <2>3. QED
    BY <2>2, DurableStep, OwnedStep
<1>3. QED
  BY <1>1, <1>2, Invariance, PTL DEF Spec, ImplementsTargetOp, Durable!Spec, Owned!Spec

\* A reservation that was never claimed has started nothing.
Unclaimed == AllocOf({dur})[dur] \in {"NONE", "RESERVED"} => StartOf({dur})[dur] = "NO"
DurableInv == Durable!TypeOK /\ Unclaimed /\ Durable!NoIsTrue /\ Durable!TerminalIsOver

\* TargetOp's own invariant, of the abstract operation that the ledger implements.
LEMMA DurableInvariance == Durable!Spec => []DurableInv
<1>1. Durable!Init => DurableInv
  BY DEF Durable!Init, DurableInv, Durable!TypeOK, Unclaimed, Durable!NoIsTrue,
     Durable!TerminalIsOver, Durable!Allocs, Durable!Starts, Durable!Trees, Durable!Terminal,
     Durable!Held
<1>2. DurableInv /\ [Durable!Next]_(Durable!vars) => DurableInv'
  <2> DEFINE alloc == AllocOf({dur})
             start == StartOf({dur})
             abs == TreeOf({dur})
  <2>0. SUFFICES ASSUME DurableInv, [Durable!Next]_(Durable!vars) PROVE DurableInv'
    OBVIOUS
  <2> HIDE DEF alloc, start, abs
  <2> USE <2>0
  <2> USE DEF DurableInv, Durable!TypeOK, Unclaimed, Durable!NoIsTrue, Durable!TerminalIsOver,
          Durable!Allocs, Durable!Starts, Durable!Trees, Durable!Terminal, Durable!Held,
          Durable!Killed, Durable!Set
  <2>1. CASE Durable!Reserve(dur) \/ Durable!Expire(dur) \/ Durable!Claim(dur)
    BY <2>1 DEF Durable!Reserve, Durable!Expire, Durable!Claim
  <2>2. CASE Durable!Spawn(dur) \/ Durable!Begin(dur) \/ Durable!Exit(dur)
    BY <2>2 DEF Durable!Spawn, Durable!Begin, Durable!Exit
  <2>3. CASE Durable!Maybe(dur) \/ Durable!Confirm(dur) \/ Durable!Deny(dur)
    BY <2>3 DEF Durable!Maybe, Durable!Confirm, Durable!Deny
  <2>4. CASE Durable!Quarantine(dur) \/ Durable!Release(dur)
    BY <2>4 DEF Durable!Quarantine, Durable!Release
  <2>5. CASE Durable!Cancel(dur)
    BY <2>5 DEF Durable!Cancel
  <2>6. CASE Durable!CouldNotStop(dur)
    BY <2>6 DEF Durable!CouldNotStop
  <2>7. CASE Durable!Reboot
    BY <2>7 DEF Durable!Reboot
  <2>8. CASE UNCHANGED Durable!vars
    BY <2>8 DEF Durable!vars
  <2>9. QED
    BY <2>1, <2>2, <2>3, <2>4, <2>5, <2>6, <2>7, <2>8 DEF Durable!Next, Durable!Step
<1>3. QED
  BY <1>1, <1>2, PTL DEF Durable!Spec

\* So the ledger's own receipts are worth what a controller takes them for: a
\* NO is true of the process tree, and nothing runs behind a row that is
\* terminal or of an earlier boot.
THEOREM LedgerReceiptsAreTrue ==
  Spec => [](/\ row[dur].start = "NO" => ~Ran(dur)
             /\ AllocBar(dur) \in Terminal => tree[dur] \notin {"running", "linger"})
<1> DEFINE True == /\ row[dur].start = "NO" => ~Ran(dur)
                   /\ AllocBar(dur) \in Terminal => tree[dur] \notin {"running", "linger"}
<1>1. IInv /\ DurableInv => True
  <2> SUFFICES ASSUME IInv, DurableInv PROVE True
    OBVIOUS
  <2>1. /\ row[dur].start = "NO" => TreeBar(dur) \notin {"running", "ended"}
        /\ AllocBar(dur) \in Terminal => TreeBar(dur) # "running"
    BY DEF DurableInv, Durable!NoIsTrue, Durable!TerminalIsOver, Durable!Terminal, Terminal,
       AllocOf, StartOf, TreeOf
  <2>2. tree[dur] \in Trees
    BY InstanceAssumption DEF IInv, Shape
  <2>3. QED
    BY <2>1, <2>2 DEF TreeBar, Trees, Ran
<1>2. QED
  BY <1>1, Invariance, DurableInvariance, LedgerImplementsTargetOp, PTL DEF ImplementsTargetOp
=============================================================================
