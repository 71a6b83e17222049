-------------------------- MODULE StrategyRegistry --------------------------
(***************************************************************************)
(* The strategy registry: strategyreg Register, MarkCandidate, Retire,     *)
(* Promote and Rollback over db/strategy_versions.go, for one strategy     *)
(* family, run by several operators (processes of cmd/strategy) that may   *)
(* die at any point.                                                       *)
(*                                                                         *)
(* PostgreSQL is external, at READ COMMITTED: a transaction's writes are   *)
(* buffered here and applied by its commit, while its row locks hold from  *)
(* the statement that takes them.  rows[p] is first what the statement     *)
(* that retires the active rows found, then what it retired.  Weights,     *)
(* hashes and actors are left out; a version is Eligible when the operator *)
(* has an evaluation surface that passes CheckPromoteGate for it.          *)
(* X_Mutant... is a deliberately wrong variant of X no specification uses. *)
(***************************************************************************)
EXTENDS Integers, Sequences, FiniteSets

CONSTANTS
  Operators,
  MaxVersions,  \* bound: versions registered
  Eligible,     \* versions whose surface passes the gate
  MaxCommands   \* bound: commands run, register apart

Ids  == 1..MaxVersions
None == 0

RegistryAssumption ==
  /\ MaxVersions \in Nat /\ MaxCommands \in Nat /\ Eligible \subseteq Ids

VARIABLES
  status,        \* strategy_versions.status ("none": no such row)
  active, prev,  \* the strategy_active row: version_id (None: no row), prev_version_id
  moves,         \* strategy_promotions: its promote and rollback rows, in order
  issued,        \* commands begun
  pc, cmd,       \* each operator: statement it is at, command it runs
  target,        \* the version it works on
  from,          \* the current version its transaction read
  rows,          \* the rows its transaction retires
  \* History, read by the properties only:
  overtaken,     \* operators whose command began before a move another one committed
  overwritten    \* a candidate or retire command overwrote the status of an active row

db        == <<status, active, prev, moves>>
operators == <<issued, pc, cmd, target, from, rows>>
history   == <<overtaken, overwritten>>
vars      == <<db, operators, history>>

Statuses == {"none", "draft", "candidate", "active", "retired"}
Actions  == {"register", "promote", "rollback", "candidate", "retire"}
Places   == {"idle", "note", "mark", "lockVersion", "lockPointer",
             "findActive", "retireActive", "setActive", "upsert"}
Move     == [action : {"promote", "rollback"}, from : Ids \cup {None}, to : Ids]

TypeOK ==
  /\ status \in [Ids -> Statuses]
  /\ active \in Ids \cup {None} /\ prev \in Ids \cup {None}
  /\ moves \in Seq(Move) /\ issued \in 0..MaxCommands
  /\ pc \in [Operators -> Places] /\ cmd \in [Operators -> Actions]
  /\ target \in [Operators -> Ids \cup {None}]
  /\ from \in [Operators -> Ids \cup {None}] /\ rows \in [Operators -> SUBSET Ids]
  /\ overtaken \subseteq {p \in Operators : pc[p] # "idle"} /\ overwritten \in BOOLEAN
  /\ \A p \in Operators :
       /\ pc[p] # "idle" => target[p] \in Ids
       /\ pc[p] \notin {"idle", "note", "mark"} => cmd[p] \in {"promote", "rollback"}

Init ==
  /\ status = [v \in Ids |-> "none"] /\ active = None /\ prev = None
  /\ moves = <<>> /\ issued = 0
  /\ pc = [p \in Operators |-> "idle"] /\ cmd = [p \in Operators |-> "register"]
  /\ target = [p \in Operators |-> None] /\ from = [p \in Operators |-> None]
  /\ rows = [p \in Operators |-> {}]
  /\ overtaken = {} /\ overwritten = FALSE

Registered(v) == status[v] # "none"

Goto(p, place) == pc' = [pc EXCEPT ![p] = place]

\* The command is over: a transaction ends and its locks go.
Finish(p) ==
  /\ Goto(p, "idle")
  /\ target' = [target EXCEPT ![p] = None]
  /\ from' = [from EXCEPT ![p] = None] /\ rows' = [rows EXCEPT ![p] = {}]
  /\ cmd' = [cmd EXCEPT ![p] = "register"] /\ UNCHANGED <<issued, overwritten>>

\* A command ends without having moved the pointer, or having moved it.
Leave(p)    == overtaken' = overtaken \ {p}
Overtake(p) == overtaken' = {q \in Operators \ {p} : pc[q] # "idle"}

Begin(p, c, v, place) ==
  /\ pc[p] = "idle" /\ issued < MaxCommands /\ issued' = issued + 1
  /\ cmd' = [cmd EXCEPT ![p] = c] /\ target' = [target EXCEPT ![p] = v] /\ Goto(p, place)
  /\ UNCHANGED <<db, from, rows, history>>

-----------------------------------------------------------------------------
(* The locks of open transactions.                                         *)

InTransaction(p) ==
  pc[p] \in {"lockPointer", "findActive", "retireActive", "setActive", "upsert"}

HoldsRow(p, v) ==
  \/ InTransaction(p) /\ v = target[p]
  \/ pc[p] \in {"setActive", "upsert"} /\ v \in rows[p]

\* SELECT ... FOR UPDATE locks the strategy_active row when there is one.
HoldsPointer(p) == InTransaction(p) /\ from[p] # None

RowFree(p, v)  == \A q \in Operators \ {p} : ~HoldsRow(q, v)
PointerFree(p) == \A q \in Operators \ {p} : ~HoldsPointer(q)

\* At most one row is active (a unique index): a transaction that makes one active
\* waits for any other that did, or that retires the one there is.
IndexFree(p) ==
  \A q \in Operators \ {p} :
    /\ pc[q] # "upsert"
    /\ pc[q] = "setActive" => \A v \in rows[q] : status[v] # "active"

-----------------------------------------------------------------------------
(* Register, MarkCandidate, Retire: statements of their own, then a note.  *)

Register(p) ==
  /\ pc[p] = "idle"
  /\ \E v \in Ids :
       /\ ~Registered(v) /\ \A w \in 1..(v - 1) : Registered(w)
       /\ status' = [status EXCEPT ![v] = "draft"] /\ target' = [target EXCEPT ![p] = v]
  /\ cmd' = [cmd EXCEPT ![p] = "register"] /\ Goto(p, "note")
  /\ UNCHANGED <<active, prev, moves, issued, from, rows, history>>

\* The status is checked here and written later.
BeginMark(p) ==
  \E c \in {"candidate", "retire"}, v \in Ids :
    Registered(v) /\ status[v] # "active" /\ Begin(p, c, v, "mark")

Mark(p) ==
  /\ pc[p] = "mark" /\ RowFree(p, target[p])
  /\ status' = [status EXCEPT ![target[p]] = IF cmd[p] = "retire" THEN "retired" ELSE "candidate"]
  /\ overwritten' = (overwritten \/ status[target[p]] = "active")
  /\ Goto(p, "note")
  /\ UNCHANGED <<active, prev, moves, issued, cmd, target, from, rows, overtaken>>

\* The audit row of the other commands; it is not in moves.
Note(p) ==
  /\ pc[p] = "note"
  /\ Finish(p) /\ Leave(p) /\ UNCHANGED db

-----------------------------------------------------------------------------
(* Promote and Rollback: what each checks, then ActivateStrategyVersion.   *)

BeginPromote(p) ==
  \E v \in Eligible : Registered(v) /\ Begin(p, "promote", v, "lockVersion")

BeginRollback_MutantLatest(p) ==
  \E v \in Ids :
    /\ prev # None /\ status[v] = "retired" /\ \A w \in (v + 1)..MaxVersions : status[w] # "retired"
    /\ Begin(p, "rollback", v, "lockVersion")

\* prev_version_id is read before the transaction.
BeginRollback(p) ==
  active # None /\ prev # None /\ Begin(p, "rollback", prev, "lockVersion")

LockVersion(p) ==
  /\ pc[p] = "lockVersion" /\ RowFree(p, target[p])
  /\ Goto(p, "lockPointer")
  /\ UNCHANGED <<db, issued, cmd, target, from, rows, history>>

LockPointer_MutantNoCommit(p) ==
  /\ pc[p] = "lockPointer"
  /\ active # None => PointerFree(p)
  /\ active # target[p]
  /\ from' = [from EXCEPT ![p] = active] /\ Goto(p, "findActive")
  /\ UNCHANGED <<issued, cmd, target, rows, db, history>>

\* The version may be the current one already: then nothing is left to do, unless its
\* status (still the one read with the lock) is not active.
LockPointer(p) ==
  /\ pc[p] = "lockPointer"
  /\ active # None => PointerFree(p)
  /\ \/ active = target[p] /\ status[target[p]] = "active" /\ Finish(p) /\ Leave(p)
     \/ /\ ~(active = target[p] /\ status[target[p]] = "active")
        /\ from' = [from EXCEPT ![p] = active] /\ Goto(p, "findActive")
        /\ UNCHANGED <<issued, cmd, target, rows, history>>
  /\ UNCHANGED db

\* UPDATE ... WHERE status = 'active' AND id <> target: find the rows, ...
FindActive(p) ==
  /\ pc[p] = "findActive"
  /\ rows' = [rows EXCEPT ![p] = {v \in Ids \ {target[p]} : status[v] = "active"}]
  /\ Goto(p, "retireActive")
  /\ UNCHANGED <<db, issued, cmd, target, from, history>>

\* ... wait for their locks and update those that still qualify.
RetireActive(p) ==
  /\ pc[p] = "retireActive"
  /\ \A v \in rows[p] : RowFree(p, v)
  /\ rows' = [rows EXCEPT ![p] = {v \in @ : status[v] = "active"}]
  /\ Goto(p, "setActive")
  /\ UNCHANGED <<db, issued, cmd, target, from, history>>

SetActive_MutantNoIndex(p) ==
  /\ pc[p] = "setActive"
  /\ Goto(p, "upsert") /\ UNCHANGED <<issued, cmd, target, from, rows, history>>
  /\ UNCHANGED db

\* A second active row violates the unique index and the transaction fails.
SetActive(p) ==
  /\ pc[p] = "setActive" /\ IndexFree(p)
  /\ LET others == {v \in Ids \ {target[p]} : status[v] = "active"} \ rows[p]
     IN  \/ /\ others = {} /\ Goto(p, "upsert")
            /\ UNCHANGED <<issued, cmd, target, from, rows, history>>
         \/ others # {} /\ Finish(p) /\ Leave(p)
  /\ UNCHANGED db

Commit_MutantNoAudit(p) ==
  /\ pc[p] = "upsert" /\ PointerFree(p)
  /\ status' = [v \in Ids |-> IF v = target[p] THEN "active"
                              ELSE IF v \in rows[p] THEN "retired" ELSE status[v]]
  /\ active' = target[p]
  /\ prev' = IF cmd[p] = "rollback" THEN None ELSE from[p]
  /\ UNCHANGED moves
  /\ Finish(p) /\ Leave(p)

\* Upsert of strategy_active, audit row and commit.  A promote keeps the version it
\* replaces for a rollback, a rollback clears it.  A transaction that found its version
\* current only repairs the status.
Commit(p) ==
  /\ pc[p] = "upsert" /\ PointerFree(p)
  /\ status' = [v \in Ids |-> IF v = target[p] THEN "active"
                              ELSE IF v \in rows[p] THEN "retired" ELSE status[v]]
  /\ \/ from[p] = target[p] /\ Leave(p) /\ UNCHANGED <<active, prev, moves>>
     \/ /\ from[p] # target[p]
        /\ active' = target[p]
        /\ prev' = IF cmd[p] = "rollback" THEN None ELSE from[p]
        /\ moves' = Append(moves, [action |-> cmd[p], from |-> from[p], to |-> target[p]])
        /\ Overtake(p)
  /\ Finish(p)

Activate(p) ==
  \/ LockVersion(p) \/ LockPointer(p) \/ FindActive(p)
  \/ RetireActive(p) \/ SetActive(p) \/ Commit(p)

-----------------------------------------------------------------------------
(* The process dies, a statement fails, or PostgreSQL breaks a deadlock.   *)

Die(p) == pc[p] # "idle" /\ Finish(p) /\ Leave(p) /\ UNCHANGED db

WaitsFor(p, q) ==
  \/ pc[p] \in {"mark", "lockVersion"} /\ HoldsRow(q, target[p])
  \/ pc[p] = "lockPointer" /\ active # None /\ HoldsPointer(q)
  \/ pc[p] = "retireActive" /\ \E v \in rows[p] : HoldsRow(q, v)
  \/ /\ pc[p] = "setActive"
     /\ \/ pc[q] = "upsert"
        \/ pc[q] = "setActive" /\ \E v \in rows[q] : status[v] = "active"
  \/ pc[p] = "upsert" /\ HoldsPointer(q)

Deadlocked(p) ==
  \E S \in SUBSET Operators :
    p \in S /\ \A q \in S : \E r \in S \ {q} : WaitsFor(q, r)

DeadlockVictim(p) == Deadlocked(p) /\ Finish(p) /\ Leave(p) /\ UNCHANGED db

-----------------------------------------------------------------------------
Step(p) == Mark(p) \/ Note(p) \/ Activate(p)

BeginCommand(p) == Register(p) \/ BeginMark(p) \/ BeginPromote(p) \/ BeginRollback(p)

Next == \E p \in Operators : BeginCommand(p) \/ Step(p) \/ Die(p) \/ DeadlockVictim(p)

Spec == Init /\ [][Next]_vars

(* A live process goes on; PostgreSQL detects deadlocks.                   *)
Fairness ==
  /\ \A p \in Operators : WF_vars(Step(p))
  /\ WF_vars(\E p \in Operators : DeadlockVictim(p))

FairSpec == Spec /\ Fairness

-----------------------------------------------------------------------------
(* Properties.                                                             *)

\* The pointer and the statuses, kept in two tables, agree: the version edge-scan loads is
\* the active one, and no other is.
ActiveAgrees ==
  {v \in Ids : status[v] = "active"} = {active} \ {None}

\* They do whatever promotes and rollbacks race and die, until a candidate or retire
\* command that checked the status earlier overwrites the active one.
AgreesUnlessOverwritten == overwritten \/ ActiveAgrees

\* The audit trail ends at the live version.
AuditNamesActive ==
  active = IF moves = <<>> THEN None ELSE moves[Len(moves)].to

\* What is live, and what a rollback would make live, once passed the promote gate.
LivePassedGate == {active, prev} \ {None} \subseteq Eligible

NewMove(action) == Len(moves') > Len(moves) /\ moves'[Len(moves')].action = action

RollsBack(p) == NewMove("rollback") /\ pc[p] = "upsert" /\ pc'[p] = "idle"

\* "restores prev_version_id once": a rollback makes live what was the previous version
\* until then, unless a move committed after it had read what that is.
RollbackRestoresPrev ==
  [][\A p \in Operators \ overtaken : RollsBack(p) => active' = prev]_vars

\* A command whose process lives ends: no lock is left behind, every wait is resolved.
CommandsEnd == \A p \in Operators : pc[p] # "idle" ~> pc[p] = "idle"
=============================================================================
