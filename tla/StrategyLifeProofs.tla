------------------------- MODULE StrategyLifeProofs -------------------------
(***************************************************************************)
(* What is proved of a strategy's life: of the registry, from              *)
(* VersionsExist, its types, the audit trail, the pointer and the rollback *)
(* (in Reg!...), and with OperatorsFinite that its commands run out; of    *)
(* the backtest, from BacktestAssumption, that it looks at no later row    *)
(* and at no window outside of what was loaded, and that its drawdown is   *)
(* the largest loss.                                                       *)
(***************************************************************************)
EXTENDS StrategyLife, FiniteSetTheorems, SequenceTheorems, WellFoundedInduction, TLAPS

-----------------------------------------------------------------------------
(* Types.                                                                  *)

\* The registry starts with its types.
LEMMA InitTypes == Reg!Init => Reg!TypeOK
<1> SUFFICES ASSUME Reg!Init PROVE Reg!TypeOK
  OBVIOUS
<1>1. moves \in Seq(Reg!Move)
  BY DEF Reg!Init
<1>2. overwritten \in BOOLEAN
  BY DEF Reg!Init
<1>3. overtaken \subseteq {p \in Operators : pc[p] # "idle"}
  BY DEF Reg!Init
<1> QED
  BY <1>1, <1>2, <1>3, VersionsExist DEF Reg!RegistryAssumption, Reg!Init, Reg!TypeOK, Reg!Ids,
     Reg!None, Reg!Statuses, Reg!Actions, Reg!Places

\* The end of a command keeps the types.
LEMMA FinishTypes ==
  ASSUME Reg!TypeOK, NEW p \in Operators, Reg!Finish(p)
  PROVE  /\ pc' \in [Operators -> Reg!Places] /\ cmd' \in [Operators -> Reg!Actions]
         /\ issued' \in 0..MaxCommands
         /\ target' \in [Operators -> Reg!Ids \cup {Reg!None}]
         /\ from' \in [Operators -> Reg!Ids \cup {Reg!None}]
         /\ rows' \in [Operators -> SUBSET Reg!Ids]
         /\ \A q \in Operators :
              /\ pc'[q] # "idle" => target'[q] \in Reg!Ids
              /\ pc'[q] \notin {"idle", "note", "mark"} => cmd'[q] \in {"promote", "rollback"}
         /\ pc'[p] = "idle" /\ \A q \in Operators \ {p} : pc'[q] = pc[q]
         /\ overwritten' \in BOOLEAN
BY DEF Reg!TypeOK, Reg!Finish, Reg!Goto, Reg!Places, Reg!Actions

\* A command that leaves its transaction keeps the types.
LEMMA LeaveTypes ==
  ASSUME Reg!TypeOK, NEW p \in Operators, Reg!Finish(p), Reg!Leave(p), UNCHANGED Reg!db
  PROVE  Reg!TypeOK'
BY FinishTypes DEF Reg!TypeOK, Reg!Leave, Reg!db

\* A command that begins keeps the types.
LEMMA BeginTypes ==
  ASSUME Reg!TypeOK, NEW p \in Operators, NEW c \in Reg!Actions, NEW v \in Reg!Ids,
         NEW place \in Reg!Places,
         place = "mark" \/ c \in {"promote", "rollback"},
         Reg!Begin(p, c, v, place)
  PROVE  Reg!TypeOK'
BY VersionsExist DEF Reg!RegistryAssumption, Reg!TypeOK, Reg!Begin, Reg!Goto, Reg!db,
   Reg!history, Reg!Actions, Reg!None

\* Every step of the registry keeps its types.
LEMMA NextTypes ==
  ASSUME Reg!TypeOK, [Reg!Next]_(Reg!vars) PROVE Reg!TypeOK'
<1>1. CASE UNCHANGED Reg!vars
  BY <1>1 DEF Reg!TypeOK, Reg!vars, Reg!db, Reg!operators, Reg!history
<1>2. ASSUME NEW p \in Operators, Reg!Register(p) PROVE Reg!TypeOK'
  BY <1>2 DEF Reg!TypeOK, Reg!history, Reg!Register, Reg!Goto, Reg!Statuses, Reg!Actions,
     Reg!Places, Reg!None
<1>3. ASSUME NEW p \in Operators, Reg!BeginMark(p) PROVE Reg!TypeOK'
  BY <1>3, BeginTypes DEF Reg!BeginMark, Reg!Places, Reg!Actions
<1>4. ASSUME NEW p \in Operators, Reg!BeginPromote(p) PROVE Reg!TypeOK'
  BY <1>4, BeginTypes, VersionsExist
  DEF Reg!RegistryAssumption, Reg!BeginPromote, Reg!Places, Reg!Actions
<1>5. ASSUME NEW p \in Operators, Reg!BeginRollback(p) PROVE Reg!TypeOK'
  BY <1>5, BeginTypes DEF Reg!BeginRollback, Reg!Places, Reg!Actions, Reg!TypeOK
<1>6. ASSUME NEW p \in Operators, Reg!Mark(p) PROVE Reg!TypeOK'
  BY <1>6 DEF Reg!TypeOK, Reg!Mark, Reg!Goto, Reg!Statuses, Reg!Places
<1>7. ASSUME NEW p \in Operators, Reg!Note(p) PROVE Reg!TypeOK'
  BY <1>7, LeaveTypes DEF Reg!Note
<1>8. ASSUME NEW p \in Operators, Reg!LockVersion(p) PROVE Reg!TypeOK'
  BY <1>8 DEF Reg!TypeOK, Reg!LockVersion, Reg!Goto, Reg!Places, Reg!db, Reg!history
<1>9. ASSUME NEW p \in Operators, Reg!LockPointer(p) PROVE Reg!TypeOK'
  <2>1. CASE Reg!Finish(p)
    <3>1. Reg!Leave(p) /\ UNCHANGED Reg!db
      BY <1>9, <2>1 DEF Reg!LockPointer, Reg!Finish, Reg!Goto, Reg!TypeOK
    <3> QED BY <2>1, <3>1, LeaveTypes
  <2>2. CASE ~Reg!Finish(p)
    BY <1>9, <2>2 DEF Reg!TypeOK, Reg!LockPointer, Reg!Goto, Reg!Places, Reg!db, Reg!history
  <2> QED BY <2>1, <2>2
<1>10. ASSUME NEW p \in Operators, Reg!FindActive(p) PROVE Reg!TypeOK'
  BY <1>10 DEF Reg!TypeOK, Reg!FindActive, Reg!Goto, Reg!Places, Reg!db, Reg!history
<1>11. ASSUME NEW p \in Operators, Reg!RetireActive(p) PROVE Reg!TypeOK'
  BY <1>11 DEF Reg!TypeOK, Reg!RetireActive, Reg!Goto, Reg!Places, Reg!db, Reg!history
<1>12. ASSUME NEW p \in Operators, Reg!SetActive(p) PROVE Reg!TypeOK'
  <2>1. CASE Reg!Finish(p)
    <3>1. Reg!Leave(p) /\ UNCHANGED Reg!db
      BY <1>12, <2>1 DEF Reg!SetActive, Reg!Finish, Reg!Goto, Reg!TypeOK
    <3> QED BY <2>1, <3>1, LeaveTypes
  <2>2. CASE ~Reg!Finish(p)
    BY <1>12, <2>2 DEF Reg!TypeOK, Reg!SetActive, Reg!Goto, Reg!Places, Reg!db, Reg!history
  <2> QED BY <2>1, <2>2
<1>13. ASSUME NEW p \in Operators, Reg!Commit(p) PROVE Reg!TypeOK'
  <2>1. target[p] \in Reg!Ids /\ from[p] \in Reg!Ids \cup {Reg!None}
    BY <1>13 DEF Reg!Commit, Reg!TypeOK
  <2>2. status' \in [Reg!Ids -> Reg!Statuses]
    BY <1>13 DEF Reg!Commit, Reg!TypeOK, Reg!Statuses
  <2>3. active' \in Reg!Ids \cup {Reg!None} /\ prev' \in Reg!Ids \cup {Reg!None}
    BY <1>13, <2>1 DEF Reg!Commit, Reg!TypeOK
  <2>4. moves' \in Seq(Reg!Move)
    <3>1. CASE from[p] = target[p]
      BY <1>13, <3>1 DEF Reg!Commit, Reg!TypeOK
    <3>2. CASE from[p] # target[p]
      <4>1. cmd[p] \in {"promote", "rollback"}
        BY <1>13 DEF Reg!Commit, Reg!TypeOK
      <4>2. [action |-> cmd[p], from |-> from[p], to |-> target[p]] \in Reg!Move
        BY <4>1, <2>1 DEF Reg!Move
      <4>3. moves \in Seq(Reg!Move)
        BY DEF Reg!TypeOK
      <4>4. Append(moves, [action |-> cmd[p], from |-> from[p],
      to |-> target[p]]) \in Seq(Reg!Move)
        BY <4>2, <4>3, AppendProperties
      <4> QED BY <1>13, <3>2, <4>4 DEF Reg!Commit, Reg!TypeOK
    <3> QED BY <3>1, <3>2
  <2> QED BY <1>13, <2>2, <2>3, <2>4, FinishTypes
  DEF Reg!Commit, Reg!TypeOK, Reg!Leave, Reg!Overtake
<1>14. ASSUME NEW p \in Operators, Reg!Die(p) \/ Reg!DeadlockVictim(p) PROVE Reg!TypeOK'
  BY <1>14, LeaveTypes DEF Reg!Die, Reg!DeadlockVictim
<1> QED
  BY <1>1, <1>2, <1>3, <1>4, <1>5, <1>6, <1>7, <1>8, <1>9, <1>10, <1>11, <1>12, <1>13, <1>14
  DEF Reg!Next, Reg!BeginCommand, Reg!Step, Reg!Activate

\* Every variable has its type: a command that is under way has a version to work on, and
\* only promotes and rollbacks reach ActivateStrategyVersion.
THEOREM RegistryTypes == Reg!Spec => []Reg!TypeOK
<1>1. Reg!Init => Reg!TypeOK
  BY InitTypes
<1>2. Reg!TypeOK /\ [Reg!Next]_(Reg!vars) => Reg!TypeOK'
  BY NextTypes
<1> QED BY <1>1, <1>2, PTL DEF Reg!Spec

-----------------------------------------------------------------------------
(* The audit trail, whatever the commands.                                 *)

\* A commit adds one row to the audit trail, and moves the pointer to the version it names.
LEMMA CommitMoves ==
  ASSUME Reg!TypeOK, NEW p \in Operators, Reg!Commit(p), Reg!AuditNamesActive
  PROVE  Reg!AuditNamesActive'
<1>1. CASE from[p] = target[p]
  BY <1>1 DEF Reg!Commit, Reg!AuditNamesActive
<1>2. CASE from[p] # target[p]
  <2> DEFINE move == [action |-> cmd[p], from |-> from[p], to |-> target[p]]
  <2>1. /\ cmd[p] \in {"promote", "rollback"}
        /\ target[p] \in Reg!Ids /\ from[p] \in Reg!Ids \cup {Reg!None}
    BY DEF Reg!Commit, Reg!TypeOK
  <2>2. move \in Reg!Move
    BY <2>1 DEF Reg!Move
  <2>3. moves \in Seq(Reg!Move)
    BY DEF Reg!TypeOK
  <2>4. moves' = Append(moves, move) /\ active' = target[p]
    BY <1>2 DEF Reg!Commit
  <2> HIDE DEF move
  <2>5. moves' # <<>> /\ Len(moves') = Len(moves) + 1 /\ moves'[Len(moves) + 1] = move
    BY <2>2, <2>3, <2>4, AppendProperties
  <2>6. moves'[Len(moves')].to = target[p]
    BY <2>5 DEF move
  <2> QED BY <2>4, <2>5, <2>6 DEF Reg!AuditNamesActive
<1> QED BY <1>1, <1>2

\* The last promote or rollback row of strategy_promotions names the live version: pointer
\* and audit row are written together, and nothing else moves the pointer.
THEOREM AuditIsComplete == Reg!Spec => []AuditNamesActive
<1>1. Reg!Init => Reg!AuditNamesActive
  BY DEF Reg!Init, Reg!AuditNamesActive
<1>2. Reg!TypeOK /\ Reg!AuditNamesActive /\ [Reg!Next]_(Reg!vars) => Reg!AuditNamesActive'
  <2> SUFFICES ASSUME Reg!TypeOK, Reg!AuditNamesActive, [Reg!Next]_(Reg!vars)
               PROVE  Reg!AuditNamesActive'
    OBVIOUS
  <2>1. CASE UNCHANGED <<active, moves>>
    BY <2>1 DEF Reg!AuditNamesActive
  <2>2. CASE \E p \in Operators : Reg!Commit(p)
    BY <2>2, CommitMoves
  <2> QED
    BY <2>1, <2>2 DEF Reg!Next, Reg!vars, Reg!db, Reg!BeginCommand, Reg!Register, Reg!BeginMark,
       Reg!BeginPromote, Reg!BeginRollback,
       Reg!Begin, Reg!Step, Reg!Mark, Reg!Note, Reg!Activate, Reg!LockVersion, Reg!LockPointer,
       Reg!FindActive, Reg!RetireActive,
       Reg!SetActive, Reg!Die, Reg!DeadlockVictim
<1>3. Reg!AuditNamesActive => AuditNamesActive
  BY DEF AuditNamesActive
<1> QED BY <1>1, <1>2, <1>3, RegistryTypes, PTL DEF Reg!Spec

-----------------------------------------------------------------------------
(* The promote gate, whatever the commands.                                *)

\* A version on its way to the pointer, and the one a transaction read there, have passed.
WorkPassedGate ==
  \A p \in Operators :
    /\ pc[p] \notin {"idle", "note", "mark"} => target[p] \in Eligible
    /\ from[p] \in Eligible \cup {Reg!None}

GateInv == Reg!LivePassedGate /\ WorkPassedGate

\* Every step keeps it.
LEMMA GateStep ==
  ASSUME Reg!TypeOK, GateInv, [Reg!Next]_(Reg!vars) PROVE GateInv'
<1> USE DEF GateInv, Reg!LivePassedGate, WorkPassedGate
<1>1. CASE UNCHANGED Reg!vars
  BY <1>1 DEF Reg!vars, Reg!db, Reg!operators
<1>2. ASSUME NEW p \in Operators, Reg!Register(p) \/ Reg!Mark(p) PROVE GateInv'
  BY <1>2 DEF Reg!Register, Reg!Mark, Reg!Goto, Reg!TypeOK
<1>3. ASSUME NEW p \in Operators, Reg!BeginMark(p) \/ Reg!BeginPromote(p) PROVE GateInv'
  BY <1>3 DEF Reg!BeginMark, Reg!BeginPromote, Reg!Begin, Reg!Goto, Reg!TypeOK, Reg!db
<1>4. ASSUME NEW p \in Operators, Reg!BeginRollback(p) PROVE GateInv'
  BY <1>4 DEF Reg!BeginRollback, Reg!Begin, Reg!Goto, Reg!TypeOK, Reg!db
<1>5. ASSUME NEW p \in Operators, Reg!Finish(p), UNCHANGED <<active, prev>> PROVE GateInv'
  BY <1>5 DEF Reg!Finish, Reg!Goto, Reg!TypeOK
<1>6. ASSUME NEW p \in Operators, Reg!LockVersion(p) \/ Reg!FindActive(p) \/ Reg!RetireActive(p)
      PROVE  GateInv'
  BY <1>6 DEF Reg!LockVersion, Reg!FindActive, Reg!RetireActive, Reg!Goto, Reg!TypeOK, Reg!db
<1>7. ASSUME NEW p \in Operators, Reg!LockPointer(p), ~Reg!Finish(p) PROVE GateInv'
  BY <1>7 DEF Reg!LockPointer, Reg!Goto, Reg!TypeOK, Reg!db
<1>8. ASSUME NEW p \in Operators, Reg!SetActive(p), ~Reg!Finish(p) PROVE GateInv'
  BY <1>8 DEF Reg!SetActive, Reg!Goto, Reg!TypeOK, Reg!db
<1>9. ASSUME NEW p \in Operators, Reg!Commit(p) PROVE GateInv'
  <2>1. target[p] \in Eligible /\ from[p] \in Eligible \cup {Reg!None}
    BY <1>9 DEF Reg!Commit
  <2>2. Reg!LivePassedGate'
    BY <1>9, <2>1 DEF Reg!Commit
  <2>3. WorkPassedGate'
    BY <1>9 DEF Reg!Commit, Reg!Finish, Reg!Goto, Reg!TypeOK
  <2> QED BY <2>2, <2>3
<1> QED
  BY <1>1, <1>2, <1>3, <1>4, <1>5, <1>6, <1>7, <1>8, <1>9
  DEF Reg!Next, Reg!BeginCommand, Reg!Step, Reg!Activate, Reg!Note, Reg!LockPointer,
      Reg!SetActive, Reg!Die, Reg!DeadlockVictim, Reg!db

\* No version is live, or one rollback away from it, that never passed the promote gate: a
\* rollback's target is a version a promote made live before, however stale the read of it.
THEOREM OnlyGatedVersionsGoLive == Reg!Spec => []Reg!LivePassedGate
<1>1. Reg!Init => GateInv
  BY DEF Reg!Init, GateInv, Reg!LivePassedGate, WorkPassedGate
<1>2. Reg!TypeOK /\ GateInv /\ [Reg!Next]_(Reg!vars) => GateInv'
  BY GateStep
<1>3. GateInv => Reg!LivePassedGate
  BY DEF GateInv
<1> QED BY <1>1, <1>2, <1>3, RegistryTypes, PTL DEF Reg!Spec

-----------------------------------------------------------------------------
(* Pointer and statuses.                                                   *)

\* Until a status is overwritten outside a transaction: the unique index lets one
\* transaction at a time past SetActive, and that one retires every other active row; and
\* no transaction has to repair the status of the current version.
MovesAgree ==
  /\ Reg!ActiveAgrees
  /\ \A p, q \in Operators : pc[p] = "upsert" /\ pc[q] = "upsert" => p = q
  /\ \A p \in Operators : pc[p] = "upsert" =>
       \A v \in Reg!Ids : status[v] = "active" => v = target[p] \/ v \in rows[p]
  /\ \A p \in Operators : pc[p] \in {"findActive", "retireActive", "setActive", "upsert"} =>
       from[p] # target[p]

AgreeInv == overwritten \/ MovesAgree

\* Every step that overwrites no status keeps it.
LEMMA AgreeStep ==
  ASSUME Reg!TypeOK, MovesAgree, ~overwritten', [Reg!Next]_(Reg!vars) PROVE MovesAgree'
<1> USE DEF MovesAgree, Reg!ActiveAgrees
<1>1. CASE UNCHANGED Reg!vars
  BY <1>1 DEF Reg!vars, Reg!db, Reg!operators
<1>2. ASSUME NEW p \in Operators, Reg!Register(p) PROVE MovesAgree'
  <2>1. \A v \in Reg!Ids : status'[v] = "active" <=> status[v] = "active"
    BY <1>2 DEF Reg!Register, Reg!Registered, Reg!TypeOK
  <2> QED BY <1>2, <2>1 DEF Reg!Register, Reg!Goto, Reg!TypeOK
<1>3. ASSUME NEW p \in Operators, Reg!BeginMark(p) \/ Reg!BeginPromote(p) \/ Reg!BeginRollback(p)
      PROVE  MovesAgree'
  BY <1>3 DEF Reg!BeginMark, Reg!BeginPromote, Reg!BeginRollback, Reg!Begin, Reg!Goto,
     Reg!TypeOK, Reg!db
<1>4. ASSUME NEW p \in Operators, Reg!Finish(p), UNCHANGED <<status, active>> PROVE MovesAgree'
  BY <1>4 DEF Reg!Finish, Reg!Goto, Reg!TypeOK
<1>5. ASSUME NEW p \in Operators, Reg!Mark(p) PROVE MovesAgree'
  <2>1. status[target[p]] # "active"
    BY <1>5 DEF Reg!Mark
  <2>2. \A v \in Reg!Ids : status'[v] = "active" <=> status[v] = "active"
    BY <1>5, <2>1 DEF Reg!Mark, Reg!TypeOK
  <2> QED BY <1>5, <2>2 DEF Reg!Mark, Reg!Goto, Reg!TypeOK
<1>6. ASSUME NEW p \in Operators, Reg!LockVersion(p) \/ Reg!FindActive(p) \/ Reg!RetireActive(p)
      PROVE  MovesAgree'
  <2>1. UNCHANGED <<status, active, target, from>> /\ pc'[p] # "upsert"
    BY <1>6 DEF Reg!LockVersion, Reg!FindActive, Reg!RetireActive, Reg!Goto, Reg!TypeOK, Reg!db
  <2>2. \A q \in Operators \ {p} : pc'[q] = pc[q] /\ rows'[q] = rows[q]
    BY <1>6 DEF Reg!LockVersion, Reg!FindActive, Reg!RetireActive, Reg!Goto, Reg!TypeOK
  <2>3. pc'[p] \in {"findActive", "retireActive", "setActive"} =>
          pc[p] \in {"findActive", "retireActive"}
    BY <1>6 DEF Reg!LockVersion, Reg!FindActive, Reg!RetireActive, Reg!Goto, Reg!TypeOK
  <2> QED BY <2>1, <2>2, <2>3
<1>7. ASSUME NEW p \in Operators, Reg!LockPointer(p), ~Reg!Finish(p) PROVE MovesAgree'
  <2>1. active # target[p]
    BY <1>7 DEF Reg!LockPointer, Reg!TypeOK, Reg!None, Reg!Ids
  <2>2. /\ UNCHANGED <<status, active, target, rows>>
        /\ pc'[p] = "findActive" /\ from'[p] = active
    BY <1>7 DEF Reg!LockPointer, Reg!Goto, Reg!TypeOK, Reg!db
  <2>3. \A q \in Operators \ {p} : pc'[q] = pc[q] /\ from'[q] = from[q]
    BY <1>7 DEF Reg!LockPointer, Reg!Goto, Reg!TypeOK
  <2> QED BY <2>1, <2>2, <2>3
<1>8. ASSUME NEW p \in Operators, Reg!SetActive(p), ~Reg!Finish(p) PROVE MovesAgree'
  <2>1. {v \in Reg!Ids \ {target[p]} : status[v] = "active"} \ rows[p] = {}
    BY <1>8 DEF Reg!SetActive
  <2>2. \A q \in Operators \ {p} : pc[q] # "upsert"
    BY <1>8 DEF Reg!SetActive, Reg!IndexFree
  <2> QED BY <1>8, <2>1, <2>2 DEF Reg!SetActive, Reg!Goto, Reg!TypeOK, Reg!db
<1>9. ASSUME NEW p \in Operators, Reg!Commit(p) PROVE MovesAgree'
  <2>1. from[p] # target[p] /\ target[p] \in Reg!Ids
    BY <1>9 DEF Reg!Commit, Reg!TypeOK
  <2>2. \A v \in Reg!Ids : status'[v] = "active" <=> v = target[p]
    BY <1>9 DEF Reg!Commit, Reg!TypeOK
  <2>3. \A q \in Operators : pc'[q] # "upsert"
    BY <1>9 DEF Reg!Commit, Reg!Finish, Reg!Goto, Reg!TypeOK
  <2>4. active' = target[p]
    BY <1>9, <2>1 DEF Reg!Commit
  <2>5. Reg!ActiveAgrees'
    BY <2>1, <2>2, <2>4 DEF Reg!None, Reg!Ids
  <2> QED BY <1>9, <2>3, <2>5 DEF Reg!Commit, Reg!Finish, Reg!Goto, Reg!TypeOK
<1> QED
  BY <1>1, <1>2, <1>3, <1>4, <1>5, <1>6, <1>7, <1>8, <1>9
  DEF Reg!Next, Reg!BeginCommand, Reg!Step, Reg!Activate, Reg!Note, Reg!LockPointer,
      Reg!SetActive, Reg!Die, Reg!DeadlockVictim, Reg!db

\* Once overwritten, always overwritten.
LEMMA OverwrittenStays ==
  ASSUME Reg!TypeOK, overwritten, [Reg!Next]_(Reg!vars) PROVE overwritten'
BY DEF Reg!TypeOK, Reg!Next, Reg!vars, Reg!history, Reg!BeginCommand, Reg!Register,
       Reg!BeginMark, Reg!BeginPromote, Reg!BeginRollback, Reg!Begin,
   Reg!Step, Reg!Mark, Reg!Note, Reg!Activate, Reg!LockVersion, Reg!LockPointer, Reg!FindActive,
   Reg!RetireActive, Reg!SetActive,
   Reg!Commit, Reg!Die, Reg!DeadlockVictim, Reg!Finish

\* However many promotes and rollbacks race and wherever they die, the pointer's version is
\* the one active row, until a candidate or retire command overwrites an active status.
THEOREM PointerAgrees == Reg!Spec => []AgreesUnlessOverwritten
<1>1. Reg!Init => AgreeInv
  BY DEF Reg!Init, AgreeInv, MovesAgree, Reg!ActiveAgrees
<1>2. Reg!TypeOK /\ AgreeInv /\ [Reg!Next]_(Reg!vars) => AgreeInv'
  <2> SUFFICES ASSUME Reg!TypeOK, AgreeInv, [Reg!Next]_(Reg!vars) PROVE AgreeInv'
    OBVIOUS
  <2>1. CASE overwritten
    BY <2>1, OverwrittenStays DEF AgreeInv
  <2>2. CASE ~overwritten
    BY <2>2, AgreeStep DEF AgreeInv
  <2> QED BY <2>1, <2>2
<1>3. AgreeInv => AgreesUnlessOverwritten
  BY DEF AgreeInv, AgreesUnlessOverwritten, MovesAgree, Reg!AgreesUnlessOverwritten
<1> QED BY <1>1, <1>2, <1>3, RegistryTypes, PTL DEF Reg!Spec
-----------------------------------------------------------------------------
(* Rollbacks.                                                              *)

\* A rollback under way goes to the previous version, unless a move overtook it.
WorksOnPrev ==
  \A p \in Operators \ overtaken : pc[p] # "idle" /\ cmd[p] = "rollback" => target[p] = prev

\* Every step keeps it.
LEMMA WorksOnPrevStep ==
  ASSUME Reg!TypeOK, WorksOnPrev, [Reg!Next]_(Reg!vars) PROVE WorksOnPrev'
<1> USE DEF WorksOnPrev
<1>1. CASE UNCHANGED Reg!vars
  BY <1>1 DEF Reg!vars, Reg!db, Reg!operators, Reg!history
<1>2. ASSUME NEW p \in Operators, Reg!Register(p) PROVE WorksOnPrev'
  BY <1>2 DEF Reg!Register, Reg!Goto, Reg!TypeOK, Reg!history
<1>3. ASSUME NEW p \in Operators, Reg!BeginMark(p) \/ Reg!BeginPromote(p) \/ Reg!BeginRollback(p)
      PROVE  WorksOnPrev'
  BY <1>3 DEF Reg!BeginMark, Reg!BeginPromote, Reg!BeginRollback, Reg!Begin, Reg!Goto,
     Reg!TypeOK, Reg!db, Reg!history
<1>4. ASSUME NEW p \in Operators, Reg!Finish(p), Reg!Leave(p), UNCHANGED prev PROVE WorksOnPrev'
  BY <1>4 DEF Reg!Finish, Reg!Leave, Reg!Goto, Reg!TypeOK
<1>5. ASSUME NEW p \in Operators, Reg!Mark(p) PROVE WorksOnPrev'
  BY <1>5 DEF Reg!Mark, Reg!Goto, Reg!TypeOK
<1>6. ASSUME NEW p \in Operators, Reg!LockVersion(p) \/ Reg!FindActive(p) \/ Reg!RetireActive(p)
      PROVE  WorksOnPrev'
  BY <1>6 DEF Reg!LockVersion, Reg!FindActive, Reg!RetireActive, Reg!Goto, Reg!TypeOK, Reg!db,
     Reg!history
<1>7. ASSUME NEW p \in Operators, Reg!LockPointer(p), ~Reg!Finish(p) PROVE WorksOnPrev'
  BY <1>7 DEF Reg!LockPointer, Reg!Goto, Reg!TypeOK, Reg!db, Reg!history
<1>8. ASSUME NEW p \in Operators, Reg!SetActive(p), ~Reg!Finish(p) PROVE WorksOnPrev'
  BY <1>8 DEF Reg!SetActive, Reg!Goto, Reg!TypeOK, Reg!db, Reg!history
<1>9. ASSUME NEW p \in Operators, Reg!Commit(p) PROVE WorksOnPrev'
  <2>1. CASE UNCHANGED prev /\ Reg!Leave(p)
    BY <1>4, <1>9, <2>1 DEF Reg!Commit
  <2>2. CASE Reg!Overtake(p)
    BY <1>9, <2>2 DEF Reg!Commit, Reg!Finish, Reg!Overtake, Reg!Goto, Reg!TypeOK
  <2> QED BY <1>9, <2>1, <2>2 DEF Reg!Commit
<1>10. ASSUME NEW p \in Operators, Reg!LockPointer(p), Reg!Finish(p) PROVE WorksOnPrev'
  BY <1>4, <1>10 DEF Reg!LockPointer, Reg!Finish, Reg!Goto, Reg!TypeOK, Reg!db
<1>11. ASSUME NEW p \in Operators, Reg!SetActive(p), Reg!Finish(p) PROVE WorksOnPrev'
  BY <1>4, <1>11 DEF Reg!SetActive, Reg!Finish, Reg!Goto, Reg!TypeOK, Reg!db
<1>12. ASSUME NEW p \in Operators, Reg!Note(p) \/ Reg!Die(p) \/ Reg!DeadlockVictim(p)
       PROVE  WorksOnPrev'
  BY <1>4, <1>12 DEF Reg!Note, Reg!Die, Reg!DeadlockVictim, Reg!db
<1> QED
  BY <1>1, <1>2, <1>3, <1>5, <1>6, <1>7, <1>8, <1>9, <1>10, <1>11, <1>12
  DEF Reg!Next, Reg!BeginCommand, Reg!Step, Reg!Activate

\* Only a commit adds a row to the audit trail, and the row is that of its command.
LEMMA MoveIsOfCommand ==
  ASSUME Reg!TypeOK, NEW p \in Operators, Reg!Commit(p), NEW action, Reg!NewMove(action)
  PROVE  cmd[p] = action /\ active' = target[p]
<1>1. from[p] # target[p]
  BY DEF Reg!Commit, Reg!NewMove, Reg!TypeOK
<1> DEFINE move == [action |-> cmd[p], from |-> from[p], to |-> target[p]]
<1>2. /\ cmd[p] \in {"promote", "rollback"}
      /\ target[p] \in Reg!Ids /\ from[p] \in Reg!Ids \cup {Reg!None}
  BY DEF Reg!Commit, Reg!TypeOK
<1>3. move \in Reg!Move
  BY <1>2 DEF Reg!Move
<1>4. moves \in Seq(Reg!Move)
  BY DEF Reg!TypeOK
<1>5. moves' = Append(moves, move) /\ active' = target[p]
  BY <1>1 DEF Reg!Commit
<1> HIDE DEF move
<1>6. moves'[Len(moves')] = move
  BY <1>3, <1>4, <1>5, AppendProperties
<1> QED BY <1>5, <1>6 DEF Reg!NewMove, move

\* A rollback that commits makes the previous version live.
LEMMA RollsBackToPrev ==
  ASSUME Reg!TypeOK, WorksOnPrev, [Reg!Next]_(Reg!vars), NEW p \in Operators \ overtaken,
         Reg!RollsBack(p)
  PROVE  active' = prev
<1>1. moves' # moves
  BY DEF Reg!RollsBack, Reg!NewMove, Reg!TypeOK
<1>2. PICK q \in Operators : Reg!Commit(q)
  BY <1>1 DEF Reg!Next, Reg!vars, Reg!db, Reg!BeginCommand, Reg!Register, Reg!BeginMark,
     Reg!BeginPromote, Reg!BeginRollback,
     Reg!Begin, Reg!Step, Reg!Mark, Reg!Note, Reg!Activate, Reg!LockVersion, Reg!LockPointer,
     Reg!FindActive, Reg!RetireActive,
     Reg!SetActive, Reg!Die, Reg!DeadlockVictim
<1>3. q = p
  BY <1>2 DEF Reg!RollsBack, Reg!Commit, Reg!Finish, Reg!Goto, Reg!TypeOK
<1>4. cmd[p] = "rollback" /\ active' = target[p]
  BY <1>2, <1>3, MoveIsOfCommand DEF Reg!RollsBack
<1> QED BY <1>4 DEF WorksOnPrev, Reg!RollsBack

\* A rollback makes live the version that was the previous one until its commit, whatever
\* runs and dies beside it, unless a move committed after it had read which one that is.
THEOREM RollbackRestores == Reg!Spec => RollbackRestoresPrev
<1>1. Reg!Init => WorksOnPrev
  BY DEF Reg!Init, WorksOnPrev
<1>2. Reg!TypeOK /\ WorksOnPrev /\ [Reg!Next]_(Reg!vars) => WorksOnPrev'
  BY WorksOnPrevStep
<1>3. Reg!TypeOK /\ WorksOnPrev /\ [Reg!Next]_(Reg!vars)
        => [\A p \in Operators \ overtaken : Reg!RollsBack(p) => active' = prev]_(Reg!vars)
  BY RollsBackToPrev
<1> QED BY <1>1, <1>2, <1>3, RegistryTypes, PTL
       DEF Reg!Spec, RollbackRestoresPrev, Reg!RollbackRestoresPrev

-----------------------------------------------------------------------------
(* Every command ends.                                                     *)

\* Operator p can go on: the locks it waits for are free, or it waits for none.
CanStep(p) ==
  \/ pc[p] \in {"note", "findActive"}
  \/ pc[p] \in {"mark", "lockVersion"} /\ Reg!RowFree(p, target[p])
  \/ pc[p] = "lockPointer" /\ (active # Reg!None => Reg!PointerFree(p))
  \/ pc[p] = "retireActive" /\ \A v \in rows[p] : Reg!RowFree(p, v)
  \/ pc[p] = "setActive" /\ Reg!IndexFree(p)
  \/ pc[p] = "upsert" /\ Reg!PointerFree(p)

\* A command that cannot go on waits for another one, which is under way itself: no lock
\* outlives the transaction that took it.
LEMMA WaitsForBusy ==
  ASSUME Reg!TypeOK, NEW p \in Operators, pc[p] # "idle"
  PROVE  ~CanStep(p) <=> \E q \in Operators \ {p} : pc[q] # "idle" /\ Reg!WaitsFor(p, q)
<1>1. pc[p] \in Reg!Places
  BY DEF Reg!TypeOK
<1>2. ASSUME NEW q \in Operators, Reg!WaitsFor(p, q) PROVE pc[q] # "idle"
  BY <1>2 DEF Reg!WaitsFor, Reg!HoldsRow, Reg!HoldsPointer, Reg!InTransaction
<1>3. ASSUME NEW q \in Operators \ {p}, Reg!WaitsFor(p, q) PROVE ~CanStep(p)
  BY <1>3 DEF CanStep, Reg!WaitsFor, Reg!RowFree, Reg!PointerFree, Reg!IndexFree
<1>4. ASSUME ~CanStep(p) PROVE \E q \in Operators \ {p} : Reg!WaitsFor(p, q)
  <2>1. CASE pc[p] \in {"mark", "lockVersion"}
    BY <1>4, <2>1 DEF CanStep, Reg!WaitsFor, Reg!RowFree
  <2>2. CASE pc[p] = "lockPointer"
    BY <1>4, <2>2 DEF CanStep, Reg!WaitsFor, Reg!PointerFree
  <2>3. CASE pc[p] = "retireActive"
    BY <1>4, <2>3 DEF CanStep, Reg!WaitsFor, Reg!RowFree
  <2>4. CASE pc[p] = "setActive"
    BY <1>4, <2>4 DEF CanStep, Reg!WaitsFor, Reg!IndexFree
  <2>5. CASE pc[p] = "upsert"
    BY <1>4, <2>5 DEF CanStep, Reg!WaitsFor, Reg!PointerFree
  <2> QED
    BY <1>1, <1>4, <2>1, <2>2, <2>3, <2>4, <2>5 DEF Reg!Places, CanStep
<1> QED
  BY <1>2, <1>3, <1>4

\* Some command under way can go on, or all of them wait in a ring, which PostgreSQL
\* notices and breaks; and it breaks none that could go on.
EveryWaitEnds ==
  /\ (\E p \in Operators : pc[p] # "idle") =>
        \E p \in Operators : pc[p] # "idle" /\ (CanStep(p) \/ Reg!Deadlocked(p))
  /\ \A p \in Operators : Reg!Deadlocked(p) => ~CanStep(p)

\* Whatever promotes, rollbacks and status commands run at once and wherever they die, no
\* command waits for a lock that nobody will release.
THEOREM NoWaitIsForEver == Reg!Spec => []EveryWaitEnds
<1>1. Reg!TypeOK => EveryWaitEnds
  <2> SUFFICES ASSUME Reg!TypeOK PROVE EveryWaitEnds
    OBVIOUS
  <2>1. ASSUME NEW p \in Operators, pc[p] # "idle"
        PROVE  \E q \in Operators : pc[q] # "idle" /\ (CanStep(q) \/ Reg!Deadlocked(q))
    <3> DEFINE S == {q \in Operators : pc[q] # "idle"}
    <3> SUFFICES ASSUME \A q \in S : ~CanStep(q) PROVE Reg!Deadlocked(p)
      BY <2>1
    <3>1. ASSUME NEW q \in S PROVE \E r \in S \ {q} : Reg!WaitsFor(q, r)
      BY WaitsForBusy
    <3>2. p \in S /\ S \in SUBSET Operators
      BY <2>1
    <3> QED
      BY <3>1, <3>2 DEF Reg!Deadlocked
  <2>2. ASSUME NEW p \in Operators, Reg!Deadlocked(p) PROVE ~CanStep(p)
    <3>1. PICK S \in SUBSET Operators :
            p \in S /\ \A q \in S : \E r \in S \ {q} : Reg!WaitsFor(q, r)
      BY <2>2 DEF Reg!Deadlocked
    <3>2. PICK r \in S \ {p} : Reg!WaitsFor(p, r)
      BY <3>1
    <3>3. CASE pc[p] = "idle"
      BY <3>3 DEF CanStep
    <3>4. CASE pc[p] # "idle"
      <4>1. pc[r] # "idle"
        BY <3>2 DEF Reg!WaitsFor, Reg!HoldsRow, Reg!HoldsPointer, Reg!InTransaction
      <4> QED
        BY <3>1, <3>2, <3>4, <4>1, WaitsForBusy
    <3> QED
      BY <3>3, <3>4
  <2> QED
    BY <2>1, <2>2 DEF EveryWaitEnds
<1> QED
  BY <1>1, RegistryTypes, PTL

\* How much is left to do: the steps left to each command under way, those of each command
\* and each registration still to come.
StepsLeft(place) ==
  CASE place = "lockVersion" -> 6 [] place = "lockPointer" -> 5 [] place = "findActive" -> 4
    [] place = "retireActive" -> 3 [] place \in {"setActive", "mark"} -> 2
    [] place \in {"upsert", "note"} -> 1 [] OTHER -> 0
At(place)    == {p \in Operators : pc[p] = place}
Many(place)  == Cardinality(At(place))
Unregistered == {v \in Reg!Ids : status[v] = "none"}
CommandWork  ==
  6 * Many("lockVersion") + 5 * Many("lockPointer") + 4 * Many("findActive")
    + 3 * Many("retireActive") + 2 * Many("setActive") + 2 * Many("mark")
    + Many("upsert") + Many("note")
Work == CommandWork + 7 * (MaxCommands - issued) + 2 * Cardinality(Unregistered)

\* Every part of the work is a natural number.
LEMMA WorkIsNat ==
  /\ \A place : IsFiniteSet(At(place)) /\ Many(place) \in Nat
  /\ CommandWork \in Nat
  /\ IsFiniteSet(Unregistered) /\ Cardinality(Unregistered) \in Nat
<1>1. ASSUME NEW place PROVE IsFiniteSet(At(place)) /\ Many(place) \in Nat
  BY OperatorsFinite, FS_Subset, FS_CardinalityType DEF Many, At
<1>2. CommandWork \in Nat
  BY <1>1 DEF CommandWork
<1>3. IsFiniteSet(Unregistered)
  <2>1. IsFiniteSet(1..MaxVersions)
    BY VersionsExist, FS_Interval DEF Reg!RegistryAssumption
  <2> QED
    BY <2>1, FS_Subset DEF Unregistered, Reg!Ids
<1> QED
  BY <1>1, <1>2, <1>3, FS_CardinalityType

\* A command that moves takes itself from one place to another.
LEMMA PlaceMoves ==
  ASSUME Reg!TypeOK, NEW p \in Operators, NEW b \in Reg!Places, Reg!Goto(p, b), NEW s
  PROVE  Many(s)' = Many(s) + (IF b = s THEN 1 ELSE 0) - (IF pc[p] = s THEN 1 ELSE 0)
<1>1. IsFiniteSet(At(s)) /\ Many(s) \in Nat
  BY WorkIsNat
<1>2. At(s)' = {q \in Operators : IF q = p THEN b = s ELSE pc[q] = s}
  BY DEF At, Reg!TypeOK, Reg!Goto
<1>3. CASE b = s /\ pc[p] # s
  <2>1. At(s)' = At(s) \cup {p} /\ p \notin At(s)
    BY <1>2, <1>3 DEF At
  <2>2. Many(s)' = Many(s) + 1
    BY <1>1, <2>1, FS_AddElement DEF Many
  <2> QED
    BY <1>1, <1>3, <2>2
<1>4. CASE b # s /\ pc[p] = s
  <2>1. At(s)' = At(s) \ {p} /\ p \in At(s)
    BY <1>2, <1>4 DEF At
  <2>2. Many(s)' = Many(s) - 1
    BY <1>1, <2>1, FS_RemoveElement DEF Many
  <2> QED
    BY <1>1, <1>4, <2>2
<1>5. CASE (b = s) <=> (pc[p] = s)
  <2>1. At(s)' = At(s)
    BY <1>2, <1>5 DEF At
  <2>2. Many(s)' = Many(s)
    BY <2>1 DEF Many
  <2> QED
    BY <1>1, <1>5, <2>2
<1> QED
  BY <1>3, <1>4, <1>5

\* What a command that moves does to the work of the commands.
LEMMA CommandMoves ==
  ASSUME Reg!TypeOK, NEW p \in Operators, NEW b \in Reg!Places, Reg!Goto(p, b)
  PROVE  CommandWork' = CommandWork + StepsLeft(b) - StepsLeft(pc[p])
<1> DEFINE a == pc[p]
           In(x, s) == IF x = s THEN 1 ELSE 0
           Weight(x) == 6 * In(x, "lockVersion") + 5 * In(x, "lockPointer")
             + 4 * In(x, "findActive") + 3 * In(x, "retireActive") + 2 * In(x, "setActive")
             + 2 * In(x, "mark") + In(x, "upsert") + In(x, "note")
<1>1. a \in Reg!Places
  BY DEF Reg!TypeOK
<1>2. \A s : Many(s)' = Many(s) + In(b, s) - In(a, s)
  BY PlaceMoves
<1>3. \A x, s : In(x, s) \in Int
  OBVIOUS
<1>4. \A s : Many(s) \in Int
  <2>1. \A s : Many(s) \in Nat
    BY WorkIsNat
  <2> QED
    BY <2>1
<1>5. ASSUME NEW x \in Reg!Places PROVE StepsLeft(x) = Weight(x)
  BY DEF StepsLeft, Reg!Places
<1> HIDE DEF a, In
<1>6. CommandWork' = 6 * Many("lockVersion")' + 5 * Many("lockPointer")'
        + 4 * Many("findActive")' + 3 * Many("retireActive")' + 2 * Many("setActive")'
        + 2 * Many("mark")' + Many("upsert")' + Many("note")'
  BY DEF CommandWork
<1>7. CommandWork' = CommandWork + Weight(b) - Weight(a)
  BY <1>2, <1>3, <1>4, <1>6 DEF CommandWork
<1>8. CommandWork' = CommandWork + StepsLeft(b) - StepsLeft(a)
  BY <1>1, <1>5, <1>7
<1> QED
  BY <1>8 DEF a

\* A step of a command under way uses up work when it leads to a later place and
\* unregisters nothing.
LEMMA StepUsesWork ==
  ASSUME Reg!TypeOK, NEW p \in Operators, NEW b \in Reg!Places, Reg!Goto(p, b),
         StepsLeft(b) < StepsLeft(pc[p]), UNCHANGED issued, Unregistered' \subseteq Unregistered
  PROVE  Work' < Work
<1>1. CommandWork' = CommandWork + StepsLeft(b) - StepsLeft(pc[p])
  BY CommandMoves
<1>2. StepsLeft(b) \in Int /\ StepsLeft(pc[p]) \in Int
  BY DEF StepsLeft
<1>3. Cardinality(Unregistered') <= Cardinality(Unregistered)
      /\ Cardinality(Unregistered') \in Nat
  BY WorkIsNat, FS_Subset, FS_CardinalityType
<1>4. Cardinality(Unregistered)' = Cardinality(Unregistered')
  OBVIOUS
<1>5. issued \in Int /\ MaxCommands \in Int
  BY VersionsExist DEF Reg!TypeOK, Reg!RegistryAssumption
<1> QED
  BY <1>1, <1>2, <1>3, <1>4, <1>5, WorkIsNat DEF Work

\* A command that begins uses up its place among the commands still to come.
LEMMA BeginUsesWork ==
  ASSUME Reg!TypeOK, NEW p \in Operators, NEW c, NEW v, NEW place \in Reg!Places,
         Reg!Begin(p, c, v, place)
  PROVE  Work' < Work
<1>1. pc[p] = "idle" /\ issued' = issued + 1 /\ Reg!Goto(p, place) /\ UNCHANGED status
  BY DEF Reg!Begin, Reg!db
<1>2. CommandWork' = CommandWork + StepsLeft(place) - StepsLeft("idle")
  BY <1>1, CommandMoves
<1>3. StepsLeft("idle") = 0 /\ StepsLeft(place) \in 0..6
  BY DEF StepsLeft
<1>4. Cardinality(Unregistered)' = Cardinality(Unregistered)
  BY <1>1 DEF Unregistered
<1>5. issued \in Int /\ MaxCommands \in Int
  BY VersionsExist DEF Reg!TypeOK, Reg!RegistryAssumption
<1> QED
  BY <1>1, <1>2, <1>3, <1>4, <1>5, WorkIsNat DEF Work

\* A registration uses up a version that was not registered.
LEMMA RegisterUsesWork ==
  ASSUME Reg!TypeOK, NEW p \in Operators, Reg!Register(p)
  PROVE  Work' < Work
<1>1. pc[p] = "idle" /\ Reg!Goto(p, "note") /\ UNCHANGED issued
  BY DEF Reg!Register
<1>2. PICK v \in Reg!Ids : ~Reg!Registered(v) /\ status' = [status EXCEPT ![v] = "draft"]
  BY DEF Reg!Register
<1>3. Unregistered' = Unregistered \ {v} /\ v \in Unregistered
  BY <1>2 DEF Unregistered, Reg!Registered, Reg!TypeOK
<1>4. Cardinality(Unregistered)' = Cardinality(Unregistered) - 1
  BY <1>3, WorkIsNat, FS_RemoveElement
<1>5. CommandWork' = CommandWork + StepsLeft("note") - StepsLeft("idle")
  BY <1>1, CommandMoves DEF Reg!Places
<1>6. StepsLeft("note") = 1 /\ StepsLeft("idle") = 0
  BY DEF StepsLeft
<1>7. issued \in Int /\ MaxCommands \in Int
  BY VersionsExist DEF Reg!TypeOK, Reg!RegistryAssumption
<1> QED
  BY <1>1, <1>4, <1>5, <1>6, <1>7, WorkIsNat DEF Work

\* The steps of a command under way, its end included, lead to later places.
LEMMA CommandUsesWork ==
  ASSUME Reg!TypeOK, NEW p \in Operators, Reg!Step(p) \/ Reg!Die(p) \/ Reg!DeadlockVictim(p)
  PROVE  Work' < Work
<1> DEFINE Later(b) == /\ b \in Reg!Places /\ Reg!Goto(p, b)
                       /\ StepsLeft(b) < StepsLeft(pc[p]) /\ UNCHANGED issued
           Kept     == Unregistered' \subseteq Unregistered
<1>0. pc[p] \in Reg!Places /\ "idle" \in Reg!Places
  BY DEF Reg!TypeOK, Reg!Places
<1>1. ASSUME pc[p] # "idle", Reg!Finish(p) PROVE Later("idle")
  BY <1>0, <1>1 DEF Reg!Finish, StepsLeft, Reg!Places
<1>2. UNCHANGED status => Kept
  BY DEF Unregistered
<1>3. UNCHANGED Reg!db => Kept
  BY <1>2 DEF Reg!db
<1>4. ASSUME NEW b, Later(b), Kept PROVE Work' < Work
  BY <1>4, StepUsesWork
<1>5. CASE Reg!Mark(p)
  <2>1. Later("note")
    BY <1>5 DEF Reg!Mark, StepsLeft, Reg!Places
  <2>2. Kept
    BY <1>5 DEF Reg!Mark, Unregistered, Reg!TypeOK
  <2> QED
    BY <1>4, <2>1, <2>2
<1>6. CASE Reg!Note(p)
  <2>1. Later("idle") /\ Kept
    BY <1>1, <1>3, <1>6 DEF Reg!Note
  <2> QED
    BY <1>4, <2>1
<1>7. CASE Reg!LockVersion(p)
  <2>1. Later("lockPointer")
    BY <1>7 DEF Reg!LockVersion, StepsLeft, Reg!Places
  <2>2. Kept
    BY <1>3, <1>7 DEF Reg!LockVersion
  <2> QED
    BY <1>4, <2>1, <2>2
<1>8. CASE Reg!LockPointer(p)
  <2>1. Kept
    BY <1>3, <1>8 DEF Reg!LockPointer
  <2>2. Later("findActive") \/ Later("idle")
    BY <1>1, <1>8 DEF Reg!LockPointer, StepsLeft, Reg!Places
  <2> QED
    BY <1>4, <2>1, <2>2
<1>9. CASE Reg!FindActive(p)
  <2>1. Later("retireActive")
    BY <1>9 DEF Reg!FindActive, StepsLeft, Reg!Places
  <2>2. Kept
    BY <1>3, <1>9 DEF Reg!FindActive
  <2> QED
    BY <1>4, <2>1, <2>2
<1>10. CASE Reg!RetireActive(p)
  <2>1. Later("setActive")
    BY <1>10 DEF Reg!RetireActive, StepsLeft, Reg!Places
  <2>2. Kept
    BY <1>3, <1>10 DEF Reg!RetireActive
  <2> QED
    BY <1>4, <2>1, <2>2
<1>11. CASE Reg!SetActive(p)
  <2>1. Kept
    BY <1>3, <1>11 DEF Reg!SetActive
  <2>2. Later("upsert") \/ Later("idle")
    BY <1>1, <1>11 DEF Reg!SetActive, StepsLeft, Reg!Places
  <2> QED
    BY <1>4, <2>1, <2>2
<1>12. CASE Reg!Commit(p)
  <2>1. Later("idle")
    BY <1>1, <1>12 DEF Reg!Commit
  <2>2. Kept
    BY <1>12 DEF Reg!Commit, Unregistered, Reg!TypeOK
  <2> QED
    BY <1>4, <2>1, <2>2
<1>13. CASE Reg!Die(p) \/ Reg!DeadlockVictim(p)
  <2>1. pc[p] # "idle"
    <3>1. CASE Reg!Die(p)
      BY <3>1 DEF Reg!Die
    <3>2. CASE Reg!DeadlockVictim(p)
      <4>1. \E q \in Operators : Reg!WaitsFor(p, q)
        BY <3>2 DEF Reg!DeadlockVictim, Reg!Deadlocked
      <4> QED
        BY <4>1 DEF Reg!WaitsFor
    <3> QED
      BY <1>13, <3>1, <3>2
  <2>2. Later("idle") /\ Kept
    BY <1>1, <1>3, <1>13, <2>1 DEF Reg!Die, Reg!DeadlockVictim
  <2> QED
    BY <1>4, <2>2
<1> QED
  BY <1>5, <1>6, <1>7, <1>8, <1>9, <1>10, <1>11, <1>12, <1>13 DEF Reg!Step, Reg!Activate

\* The registry runs out: a natural number bounds the steps still to come, and every step,
\* of a command, a process that dies or a transaction that is broken off, uses up at least
\* one.  With NoWaitIsForEver, all that a command of a live process needs in order to end
\* is that its steps are taken and that PostgreSQL breaks deadlocks.
THEOREM RegistryRunsOut == Reg!Spec => [](Work \in Nat) /\ [][Work' < Work]_(Reg!vars)
<1>1. Reg!TypeOK => Work \in Nat
  <2> SUFFICES ASSUME Reg!TypeOK PROVE Work \in Nat
    OBVIOUS
  <2>1. MaxCommands - issued \in Nat
    BY VersionsExist DEF Reg!TypeOK, Reg!RegistryAssumption
  <2> QED
    BY <2>1, WorkIsNat DEF Work
<1>2. Reg!TypeOK /\ [Reg!Next]_(Reg!vars) => [Work' < Work]_(Reg!vars)
  <2> SUFFICES ASSUME Reg!TypeOK, Reg!Next PROVE Work' < Work
    OBVIOUS
  <2>1. PICK p \in Operators :
          Reg!BeginCommand(p) \/ Reg!Step(p) \/ Reg!Die(p) \/ Reg!DeadlockVictim(p)
    BY DEF Reg!Next
  <2>2. CASE Reg!BeginCommand(p)
    <3>1. \/ Reg!Register(p)
          \/ \E c \in Reg!Actions, v \in Reg!Ids : Reg!Begin(p, c, v, "mark")
          \/ \E c \in Reg!Actions : \E v : Reg!Begin(p, c, v, "lockVersion")
      BY <2>2 DEF Reg!BeginCommand, Reg!BeginMark, Reg!BeginPromote, Reg!BeginRollback,
         Reg!Actions
    <3> QED
      BY <3>1, RegisterUsesWork, BeginUsesWork DEF Reg!Places
  <2> QED
    BY <2>1, <2>2, CommandUsesWork
<1> QED
  BY <1>1, <1>2, RegistryTypes, PTL DEF Reg!Spec

-----------------------------------------------------------------------------
(* The history up to a time.                                               *)

\* A set with a greatest and a least element.
HasBoth(S) == (\E x \in S : \A y \in S : x >= y) /\ (\E x \in S : \A y \in S : x <= y)

\* A finite set of naturals that is not empty has a greatest and a least element: a least
\* number of elements of a set that has none would be one more than that of a set without
\* one of them, which has both.
LEMMA Extremes ==
  ASSUME NEW S \in SUBSET Nat, IsFiniteSet(S), S # {}
  PROVE  HasBoth(S)
<1> DEFINE Bad == {n \in Nat : \E T \in SUBSET S : T # {} /\ Cardinality(T) = n /\ ~HasBoth(T)}
<1>1. SUFFICES ASSUME ~HasBoth(S) PROVE FALSE
  OBVIOUS
<1>2. \A T \in SUBSET S : IsFiniteSet(T) /\ Cardinality(T) \in Nat
  BY FS_Subset, FS_CardinalityType
<1>3. Bad \in SUBSET Nat /\ Cardinality(S) \in Bad
  BY <1>1, <1>2
<1>4. PICK n \in Bad : \A m \in Bad : ~(<<m, n>> \in OpToRel(<, Nat))
  <2> HIDE DEF Bad
  <2>1. Bad \in SUBSET Nat /\ Bad # {}
    BY <1>3
  <2> QED
    BY <2>1, NatLessThanWellFounded, WFMin, Zenon
<1>5. PICK T \in SUBSET S : T # {} /\ Cardinality(T) = n /\ ~HasBoth(T)
  OBVIOUS
<1>6. PICK a \in T : TRUE
  BY <1>5
<1> DEFINE R == T \ {a}
<1>7. R \in SUBSET S /\ Cardinality(R) = n - 1 /\ Cardinality(R) \in Nat /\ n \in Nat
  BY <1>2, <1>5, <1>6, FS_RemoveElement
<1>8. CASE R = {}
  <2>1. T = {a} /\ a \in Nat
    BY <1>6, <1>8
  <2>2. HasBoth(T)
    BY <2>1 DEF HasBoth
  <2> QED
    BY <1>5, <2>2
<1>9. CASE R # {}
  <2>1. Cardinality(R) \notin Bad
    <3>1. Cardinality(R) < n /\ n \in Nat /\ Cardinality(R) \in Nat
      BY <1>7
    <3>2. <<Cardinality(R), n>> \in OpToRel(<, Nat)
      BY <3>1 DEF OpToRel
    <3> QED
      BY <1>4, <3>2
  <2>2. HasBoth(R)
    BY <1>7, <1>9, <2>1
  <2>3. PICK x \in R : \A y \in R : x >= y
    BY <2>2 DEF HasBoth
  <2>4. PICK z \in R : \A y \in R : z <= y
    BY <2>2 DEF HasBoth
  <2>5. a \in Nat /\ x \in Nat /\ z \in Nat /\ R \subseteq Nat /\ T = R \cup {a}
    BY <1>6
  <2> HIDE DEF R
  <2>6. (\A y \in T : (IF a >= x THEN a ELSE x) >= y) /\ (IF a >= x THEN a ELSE x) \in T
    BY <2>3, <2>5
  <2>7. (\A y \in T : (IF a <= z THEN a ELSE z) <= y) /\ (IF a <= z THEN a ELSE z) \in T
    BY <2>4, <2>5
  <2>8. HasBoth(T)
    BY <2>6, <2>7 DEF HasBoth
  <2> QED
    BY <1>5, <2>8
<1> QED
  BY <1>8, <1>9

\* The greatest and the least of a finite set of naturals belong to it.
LEMMA MaxMin ==
  ASSUME NEW S \in SUBSET Nat, IsFiniteSet(S), S # {}
  PROVE  /\ Max(S) \in S /\ \A y \in S : y <= Max(S)
         /\ Min(S) \in S /\ \A y \in S : Min(S) <= y
<1>1. HasBoth(S)
  BY Extremes
<1>2. Max(S) \in S /\ \A y \in S : Max(S) >= y
  BY <1>1 DEF HasBoth, Max
<1>3. Min(S) \in S /\ \A y \in S : Min(S) <= y
  BY <1>1 DEF HasBoth, Min
<1> QED
  BY <1>2, <1>3

\* The last sample so far is one of the samples so far.
LEMMA LastOfPast ==
  ASSUME NEW s, History(s), NEW t \in Int, Past(s, t) # {}
  PROVE  /\ Max(Past(s, t)) \in Past(s, t)
         /\ \A u \in Past(s, t) : u <= Max(Past(s, t))
<1>1. Past(s, t) \in SUBSET Nat /\ IsFiniteSet(Past(s, t))
  BY FS_Subset DEF History, Past
<1> QED
  BY <1>1, MaxMin

\* A series cut off at t.
Cut(s, t) == Restrict(s, Past(s, t))

\* The cut is a history, and it has the same samples at or before the cut.
LEMMA CutKeeps ==
  ASSUME NEW s, History(s), NEW t \in Int, NEW u \in Int, u <= t
  PROVE  /\ Past(Cut(s, t), u) = Past(s, u)
         /\ \A v \in Past(s, u) : Cut(s, t)[v] = s[v]
BY DEF History, Past, Cut, Restrict

\* Up to the cut the mids are the same.
LEMMA CutMid ==
  ASSUME NEW s, History(s), NEW t \in Int, NEW u \in Int, u <= t
  PROVE  MidAsOf(Cut(s, t), u) = MidAsOf(s, u)
<1>1. Past(Cut(s, t), u) = Past(s, u) /\ \A v \in Past(s, u) : Cut(s, t)[v] = s[v]
  BY CutKeeps
<1>2. Past(s, u) # {} => Max(Past(s, u)) \in Past(s, u)
  BY LastOfPast
<1> QED
  BY <1>1, <1>2 DEF MidAsOf

\* So is the window of the features.
LEMMA CutWindow ==
  ASSUME NEW s, History(s), NEW t \in Int
  PROVE  Window(Cut(s, t), t) = Window(s, t) /\ Window(s, t) \in SUBSET Past(s, t)
BY CutKeeps DEF Window

\* So are the returns, whose windows only reach back.
LEMMA CutAbsRet ==
  ASSUME NEW s, History(s), NEW t \in Int, NEW window \in Nat
  PROVE  AbsRet(Cut(s, t), t, window) = AbsRet(s, t, window)
<1>1. MidAsOf(Cut(s, t), t) = MidAsOf(s, t)
  BY CutMid
<1>2. MidAsOf(Cut(s, t), t - window) = MidAsOf(s, t - window)
  BY CutMid
<1> QED
  BY <1>1, <1>2 DEF AbsRet

\* So is the way the mid went, which is summed over the samples of the window.
LEMMA CutActivity ==
  ASSUME NEW s, History(s), NEW t \in Int
  PROVE  PathActivity(Cut(s, t), t) = PathActivity(s, t)
<1> DEFINE w == Window(s, t)
           c == Cut(s, t)
           before(u) == Max({v \in w : v < u})
           later == {v \in w : v > Min(w)}
<1>1. w \in SUBSET Nat /\ IsFiniteSet(w) /\ w \subseteq Past(s, t)
  <2>1. w \subseteq DOMAIN s
    BY DEF Window, Past
  <2> QED
    BY <2>1, CutWindow, FS_Subset DEF History
<1>2. \A v \in w : c[v] = s[v]
  BY <1>1, CutKeeps
<1>3. ASSUME NEW u \in later PROVE c[u] = s[u] /\ c[before(u)] = s[before(u)]
  <2>1. w # {} /\ Min(w) \in w
    BY <1>1, MaxMin
  <2>2. {v \in w : v < u} # {}
    BY <1>1, <2>1
  <2>3. {v \in w : v < u} \in SUBSET Nat /\ IsFiniteSet({v \in w : v < u})
    BY <1>1, FS_Subset
  <2>4. before(u) \in w
    BY <2>2, <2>3, MaxMin
  <2> QED
    BY <1>2, <2>4
<1>4. Window(c, t) = w
  BY CutWindow
<1> HIDE DEF w, c
<1>5. [u \in later |-> E!AbsDiff(c[u], c[before(u)])]
        = [u \in later |-> E!AbsDiff(s[u], s[before(u)])]
  BY <1>3
<1>6. PathActivity(c, t) = SumFunction([u \in later |-> E!AbsDiff(c[u], c[before(u)])])
  BY <1>4 DEF PathActivity
<1>7. PathActivity(s, t) = SumFunction([u \in later |-> E!AbsDiff(s[u], s[before(u)])])
  BY DEF PathActivity, w
<1> QED
  BY <1>5, <1>6, <1>7 DEF c

\* Books in memory are numbered.
Shelf(b) == IsFiniteSet(DOMAIN b) /\ DOMAIN b \subseteq Nat

\* The last book so far is that of the books so far, wherever they stand in the slice.
LEMMA CutBook ==
  ASSUME NEW b, Shelf(b), NEW t \in Int
  PROVE  BookAsOf(Restrict(b, {i \in DOMAIN b : b[i].time <= t}), t) = BookAsOf(b, t)
<1> DEFINE past == {i \in DOMAIN b : b[i].time <= t}
           cut  == Restrict(b, past)
<1>1. past \in SUBSET Nat /\ IsFiniteSet(past)
  BY FS_Subset DEF Shelf
<1>2. past # {} => Max(past) \in past
  BY <1>1, MaxMin
<1>3. DOMAIN cut = past /\ \A i \in past : cut[i] = b[i]
  BY DEF Restrict
<1>4. {i \in DOMAIN cut : cut[i].time <= t} = past
  BY <1>3
<1> HIDE DEF cut
<1>5. BookAsOf(cut, t) = IF past # {} /\ t - cut[Max(past)].time <= BookAge
                         THEN {cut[Max(past)]} ELSE {}
  BY <1>4 DEF BookAsOf
<1>6. BookAsOf(b, t) = IF past # {} /\ t - b[Max(past)].time <= BookAge
                       THEN {b[Max(past)]} ELSE {}
  BY DEF BookAsOf
<1>7. past # {} => cut[Max(past)] = b[Max(past)]
  BY <1>2, <1>3
<1> HIDE DEF past
<1>8. BookAsOf(cut, t) = BookAsOf(b, t)
  BY <1>5, <1>6, <1>7
<1> QED
  BY <1>8 DEF cut, past

\* The last board snapshot so far is that of the snapshots so far.
LEMMA CutBoard ==
  ASSUME History(runs), NEW t \in Int, NEW c
  PROVE  LookupCond(RunsUpTo(t), t, c) = LookupCond(runs, t, c)
<1>1. RunsUpTo(t) = Cut(runs, t)
  BY DEF RunsUpTo, Cut
<1>2. Past(RunsUpTo(t), t) = Past(runs, t) /\ \A u \in Past(runs, t) : RunsUpTo(t)[u] = runs[u]
  BY <1>1, CutKeeps
<1>3. Past(runs, t) # {} => Max(Past(runs, t)) \in Past(runs, t)
  BY LastOfPast
<1> QED
  BY <1>2, <1>3 DEF LookupCond

\* What a decision at t reads is the same of the series cut off at t.
LEMMA CutSeries ==
  ASSUME NEW ps, \A c \in DOMAIN ps : History(ps[c]), NEW t \in Int
  PROVE  /\ DOMAIN UpTo(t, ps) \subseteq DOMAIN ps
         /\ \A c \in DOMAIN UpTo(t, ps) : UpTo(t, ps)[c] = Cut(ps[c], t)
         /\ \A c \in DOMAIN ps : MidAsOf(ps[c], t) # NoMid => c \in DOMAIN UpTo(t, ps)
         /\ \A c \in DOMAIN UpTo(t, ps) : MidAsOf(UpTo(t, ps)[c], t) = MidAsOf(ps[c], t)
<1>1. DOMAIN UpTo(t, ps) = {d \in DOMAIN ps : Past(ps[d], t) # {}}
  BY DEF UpTo
<1>2. \A c \in DOMAIN UpTo(t, ps) : UpTo(t, ps)[c] = Cut(ps[c], t)
  BY DEF UpTo, Cut
<1>3. \A c \in DOMAIN ps : MidAsOf(ps[c], t) # NoMid => Past(ps[c], t) # {}
  BY DEF MidAsOf
<1>4. \A c \in DOMAIN ps : MidAsOf(Cut(ps[c], t), t) = MidAsOf(ps[c], t)
  BY CutMid
<1> QED
  BY <1>1, <1>2, <1>3, <1>4

\* The same markets are live.
LEMMA CutLive ==
  ASSUME NEW ps, \A c \in DOMAIN ps : History(ps[c]), NEW t \in Int
  PROVE  Live(t, UpTo(t, ps)) = Live(t, ps)
BY CutSeries DEF Live

\* The mids of a group are the same, and with them its members.
LEMMA CutGroup ==
  ASSUME NEW ps, \A c \in DOMAIN ps : History(ps[c]), NEW t \in Int, History(runs), NEW c
  PROVE  GroupMidsAtT(t, c, UpTo(t, ps), RunsUpTo(t)) = GroupMidsAtT(t, c, ps, runs)
<1> DEFINE up == UpTo(t, ps)
           g  == GroupAt(runs, t, c)
           in(qs) == {d \in DOMAIN qs : (d = c \/ GroupToday[d] = g) /\ MidAsOf(qs[d], t) # NoMid}
           kept(qs) == IF g = 0 \/ Cardinality(in(qs)) < 2 THEN {} ELSE in(qs)
<1>1. GroupAt(RunsUpTo(t), t, c) = g
  <2>1. LookupCond(RunsUpTo(t), t, c) = LookupCond(runs, t, c)
    BY CutBoard
  <2> QED
    BY <2>1 DEF GroupAt
<1>2. in(up) = in(ps)
  BY CutSeries
<1>3. \A d \in in(ps) : MidAsOf(up[d], t) = MidAsOf(ps[d], t)
  BY <1>2, CutSeries
<1>4. \A d \in kept(ps) : MidAsOf(up[d], t) = MidAsOf(ps[d], t)
  BY <1>3
<1>5. GroupMidsAtT(t, c, up, RunsUpTo(t)) = [d \in kept(up) |-> MidAsOf(up[d], t)]
  BY <1>1 DEF GroupMidsAtT
<1>6. GroupMidsAtT(t, c, ps, runs) = [d \in kept(ps) |-> MidAsOf(ps[d], t)]
  BY DEF GroupMidsAtT
<1>7. kept(up) = kept(ps)
  BY <1>2
<1> HIDE DEF up, g, in, kept
<1> QED
  BY <1>4, <1>5, <1>6, <1>7 DEF up

\* A market point is the same.
LEMMA CutPoint ==
  ASSUME NEW ps, \A c \in DOMAIN ps : History(ps[c]),
         NEW bs, \A c \in DOMAIN bs : Shelf(bs[c]),
         NEW t \in Int, History(runs), NEW c \in Live(t, ps)
  PROVE  Point(t, c, UpTo(t, ps), BooksUpTo(t, bs), RunsUpTo(t)) = Point(t, c, ps, bs, runs)
<1> DEFINE up == UpTo(t, ps)
           bu == BooksUpTo(t, bs)
           ru == RunsUpTo(t)
           book(qs) == IF c \in DOMAIN qs THEN BookAsOf(qs[c], t) ELSE {}
<1>1. c \in DOMAIN ps /\ History(ps[c]) /\ up[c] = Cut(ps[c], t)
  <2>1. c \in DOMAIN ps /\ MidAsOf(ps[c], t) # NoMid
    BY DEF Live
  <2> QED
    BY <2>1, CutSeries
<1>2. MidAsOf(up[c], t) = MidAsOf(ps[c], t)
  BY <1>1, CutMid
<1>3. PointCount(up[c], t) = PointCount(ps[c], t)
  BY <1>1, CutWindow DEF PointCount
<1>4. PathActivity(up[c], t) = PathActivity(ps[c], t)
  BY <1>1, CutActivity
<1>5. AbsRet(up[c], t, 1) = AbsRet(ps[c], t, 1)
  BY <1>1, CutAbsRet
<1>6. AbsRet(up[c], t, Day) = AbsRet(ps[c], t, Day)
  BY <1>1, CutAbsRet, BacktestAssumption
<1>7. book(bu) = book(bs)
  <2>1. DOMAIN bu = DOMAIN bs
    BY DEF BooksUpTo
  <2>2. ASSUME c \in DOMAIN bs PROVE BookAsOf(bu[c], t) = BookAsOf(bs[c], t)
    <3>1. bu[c] = Restrict(bs[c], {i \in DOMAIN bs[c] : bs[c][i].time <= t})
      BY <2>2 DEF BooksUpTo
    <3>2. Shelf(bs[c])
      BY <2>2
    <3> QED
      BY <3>1, <3>2, CutBook
  <2> QED
    BY <2>1, <2>2
<1>8. GroupMidsAtT(t, c, up, ru) = GroupMidsAtT(t, c, ps, runs)
  BY CutGroup
<1>9. LookupCond(ru, t, c) = LookupCond(runs, t, c)
  BY CutBoard
<1> HIDE DEF up, bu, ru, book
<1>10. FeaturesAsOf(t, c, up[c], book(bu)) = FeaturesAsOf(t, c, ps[c], book(bs))
  BY <1>3, <1>4, <1>5, <1>6, <1>7 DEF FeaturesAsOf
<1>11. Point(t, c, up, bu, ru) =
         [rank |-> rank[c], mid |-> MidAsOf(up[c], t), f |-> FeaturesAsOf(t, c, up[c], book(bu)),
          mids |-> GroupMidsAtT(t, c, up, ru),
          volume |-> IF \E r \in LookupCond(ru, t, c) : r.volume > 0
                     THEN (CHOOSE r \in LookupCond(ru, t, c) : TRUE).volume
                     ELSE PointCount(up[c], t),
          activity |-> PathActivity(up[c], t)]
  BY DEF Point, book
<1>12. Point(t, c, ps, bs, runs) =
         [rank |-> rank[c], mid |-> MidAsOf(ps[c], t), f |-> FeaturesAsOf(t, c, ps[c], book(bs)),
          mids |-> GroupMidsAtT(t, c, ps, runs),
          volume |-> IF \E r \in LookupCond(runs, t, c) : r.volume > 0
                     THEN (CHOOSE r \in LookupCond(runs, t, c) : TRUE).volume
                     ELSE PointCount(ps[c], t),
          activity |-> PathActivity(ps[c], t)]
  BY DEF Point, book
<1>13. Point(t, c, up, bu, ru) = Point(t, c, ps, bs, runs)
  BY <1>2, <1>3, <1>4, <1>8, <1>9, <1>10, <1>11, <1>12
<1> QED
  BY <1>13 DEF up, bu, ru

\* The points of a time are those of the history up to that time.
LEMMA CutPoints ==
  ASSUME NEW ps, \A c \in DOMAIN ps : History(ps[c]),
         NEW bs, \A c \in DOMAIN bs : Shelf(bs[c]),
         NEW t \in Int, History(runs)
  PROVE  PointsAt(t, UpTo(t, ps), BooksUpTo(t, bs), RunsUpTo(t)) = PointsAt(t, ps, bs, runs)
BY CutLive, CutPoint DEF PointsAt

-----------------------------------------------------------------------------
(* The run.                                                                *)

AsLoaded == series = LoadPriceSeries /\ bookSeries = LoadBookSeries

\* What the replay has written, when there was anything to replay.
Replayed ==
  /\ snaps = [t \in DecisionTimes |-> Universe(PointsAt(t, series, bookSeries, runs))]
  /\ labels = UNION {LabelsAt(t, snaps[t]) : t \in DecisionTimes}

NotReplayed == snaps = <<>> /\ labels = {}

RunInv ==
  /\ prices \in Histories /\ books \in BookHistories /\ runs \in BoardHistories
  /\ stage \in {"load", "fill", "replay", "gate", "nothing"}
  /\ stage \in {"load", "fill", "replay"} => NotReplayed
  /\ stage \in {"gate", "nothing"} => Replayed \/ NotReplayed
  /\ stage = "fill" => synth
  /\ ~synth /\ stage # "load" => AsLoaded

\* The invariant of a run holds when it starts.
LEMMA RunInvInit == ASSUME Init PROVE RunInv
BY DEF Init, RunInv, NotReplayed

\* What was loaded is what the tables hold, as long as neither changes.
LEMMA TablesStay ==
  ASSUME UNCHANGED tables, UNCHANGED <<series, bookSeries>>, AsLoaded
  PROVE  AsLoaded'
BY DEF tables, AsLoaded, LoadPriceSeries, LoadBookSeries, StoredBook

\* What was replayed is what memory holds, as long as neither changes.
LEMMA ReplayStays ==
  ASSUME UNCHANGED tables, UNCHANGED <<rank, series, bookSeries, snaps, labels>>, Replayed
  PROVE  Replayed'
BY DEF tables, Replayed, PointsAt, Point, LabelsAt

\* Every step of a run keeps the invariant.
LEMMA RunInvStep ==
  ASSUME RunInv, [Next]_vars
  PROVE  RunInv'
<1>1. CASE Load
  <2>1. AsLoaded'
    BY <1>1 DEF Load, AsLoaded, tables, LoadPriceSeries, LoadBookSeries, StoredBook
  <2>2. stage' \in {"gate", "fill", "replay"} /\ (stage' = "fill" => synth)
    BY <1>1 DEF Load
  <2>3. NotReplayed'
    BY <1>1 DEF Load, RunInv, NotReplayed
  <2>4. UNCHANGED <<prices, books, runs, synth>>
    BY <1>1 DEF Load, tables
  <2> QED
    BY <2>1, <2>2, <2>3, <2>4 DEF RunInv
<1>2. CASE FillGaps
  <2>1. stage = "fill" /\ stage' = "replay" /\ UNCHANGED <<prices, books, runs, synth>>
        /\ UNCHANGED <<snaps, labels>>
    BY <1>2 DEF FillGaps, tables
  <2> QED
    BY <2>1 DEF RunInv, NotReplayed
<1>3. CASE Replay
  <2>1. Replayed'
    BY <1>3 DEF Replay, Replayed, tables, PointsAt, Point, LabelsAt
  <2>2. ~synth => AsLoaded'
    BY <1>3, TablesStay DEF Replay, RunInv
  <2>3. stage' = "gate" /\ UNCHANGED <<prices, books, runs, synth>>
    BY <1>3 DEF Replay, tables
  <2> QED
    BY <2>1, <2>2, <2>3 DEF RunInv
<1>4. CASE Gate
  <2>1. stage = "gate" /\ stage' = "nothing" /\ UNCHANGED tables
        /\ UNCHANGED <<rank, series, bookSeries, snaps, labels>>
    BY <1>4 DEF Gate
  <2>2. (Replayed => Replayed') /\ (NotReplayed => NotReplayed')
    BY <2>1, ReplayStays DEF NotReplayed
  <2>3. AsLoaded => AsLoaded'
    BY <2>1, TablesStay
  <2>4. UNCHANGED <<prices, books, runs, synth>>
    BY <2>1 DEF tables
  <2> QED
    BY <2>1, <2>2, <2>3, <2>4 DEF RunInv
<1>5. CASE UNCHANGED vars
  <2>1. UNCHANGED tables /\ UNCHANGED <<stage, rank, series, bookSeries, snaps, labels>>
    BY <1>5 DEF vars, tables
  <2>2. (Replayed => Replayed') /\ (NotReplayed => NotReplayed') /\ (AsLoaded => AsLoaded')
    BY <2>1, ReplayStays, TablesStay DEF NotReplayed
  <2>3. UNCHANGED <<prices, books, runs, synth>>
    BY <2>1 DEF tables
  <2> QED
    BY <2>1, <2>2, <2>3 DEF RunInv
<1> QED
  BY <1>1, <1>2, <1>3, <1>4, <1>5 DEF Next

\* The invariant holds throughout a run.
LEMMA RunInvariance == Spec => []RunInv
<1>1. Init => RunInv
  BY RunInvInit
<1>2. RunInv /\ [Next]_vars => RunInv'
  BY RunInvStep
<1> QED
  BY <1>1, <1>2, PTL DEF Spec

-----------------------------------------------------------------------------
(* What the tables and the memory hold.                                    *)

\* The decision times and the first time loaded are times.
LEMMA TimesAreNat ==
  /\ MaxHorizon \in Horizons /\ MaxHorizon \in Nat /\ \A h \in Horizons : h <= MaxHorizon
  /\ FirstTime \in Int /\ From = FirstTime - Day
  /\ DecisionTimes \subseteq Int
  /\ \A t \in DecisionTimes : FirstTime <= t /\ t + MaxHorizon <= End
<1>1. MaxHorizon \in Horizons /\ \A h \in Horizons : h <= MaxHorizon
  BY BacktestAssumption, MaxMin DEF MaxHorizon
<1>2. MaxHorizon \in Nat /\ End \in Nat /\ Lookback \in Nat /\ Day \in Nat
  BY <1>1, BacktestAssumption
<1> QED
  BY <1>1, <1>2 DEF FirstTime, From, DecisionTimes

\* A loaded series is a history, the rows of the table inside the period.
LEMMA LoadedSeries ==
  ASSUME prices \in Histories, NEW c \in DOMAIN LoadPriceSeries
  PROVE  /\ c \in Conds /\ History(prices[c]) /\ History(LoadPriceSeries[c])
         /\ DOMAIN LoadPriceSeries[c] = DOMAIN prices[c] \cap Loaded
         /\ \A t \in DOMAIN LoadPriceSeries[c] : LoadPriceSeries[c][t] = prices[c][t]
<1>1. c \in Conds /\ History(prices[c])
  BY BacktestAssumption DEF LoadPriceSeries
<1>2. LoadPriceSeries[c] = [t \in DOMAIN prices[c] \cap Loaded |-> prices[c][t]]
  BY DEF LoadPriceSeries
<1>3. History([t \in DOMAIN prices[c] \cap Loaded |-> prices[c][t]])
  BY <1>1, FS_Intersection DEF History
<1> QED
  BY <1>1, <1>2, <1>3

\* The loaded books are a shelf.
LEMMA LoadedBooks ==
  ASSUME books \in BookHistories, NEW c \in DOMAIN LoadBookSeries
  PROVE  Shelf(LoadBookSeries[c])
<1> DEFINE S == DOMAIN books[c] \cap Loaded
<1>1. History(books[c])
  BY BacktestAssumption DEF LoadBookSeries
<1>2. IsFiniteSet(S) /\ Cardinality(S) \in Nat
  BY <1>1, FS_Intersection, FS_CardinalityType DEF History
<1>3. DOMAIN LoadBookSeries[c] = 1..Cardinality(S)
  BY DEF LoadBookSeries, InOrder
<1>4. IsFiniteSet(1..Cardinality(S)) /\ 1..Cardinality(S) \subseteq Nat
  BY <1>2, FS_Interval
<1> QED
  BY <1>3, <1>4 DEF Shelf

\* No later row comes into a decision, whatever the tables hold.
THEOREM NoLookahead == Spec => []PointInTime
<1>1. RunInv => PointInTime
  <2> SUFFICES ASSUME RunInv, ~synth, NEW t \in DOMAIN snaps PROVE SeenInTime(t)
    BY DEF PointInTime
  <2>1. DOMAIN snaps # {}
    OBVIOUS
  <2>2. Replayed /\ stage # "load"
    <3>1. ~NotReplayed
      BY <2>1 DEF NotReplayed
    <3> QED
      BY <3>1 DEF RunInv
  <2>3. series = LoadPriceSeries /\ bookSeries = LoadBookSeries
    BY <2>2 DEF RunInv, AsLoaded
  <2>4. t \in DecisionTimes /\ snaps[t] = Universe(PointsAt(t, series, bookSeries, runs))
    BY <2>2 DEF Replayed
  <2>5. \A c \in DOMAIN series : History(series[c])
    BY <2>3, LoadedSeries DEF RunInv
  <2>6. \A c \in DOMAIN bookSeries : Shelf(bookSeries[c])
    BY <2>3, LoadedBooks DEF RunInv
  <2>7. History(runs) /\ t \in Int
    BY <2>4, TimesAreNat, BacktestAssumption DEF RunInv
  <2>8. PointsAt(t, UpTo(t, series), BooksUpTo(t, bookSeries), RunsUpTo(t))
          = PointsAt(t, series, bookSeries, runs)
    BY <2>5, <2>6, <2>7, CutPoints
  <2> QED
    BY <2>3, <2>4, <2>8 DEF SeenInTime
<1> QED
  BY <1>1, RunInvariance, PTL

-----------------------------------------------------------------------------
(* Windows and horizons.                                                   *)

\* A cut of the board leaves markets of the universe, the universe live ones.
LEMMA TopNAmong ==
  ASSUME NEW pts, NEW n, NEW key
  PROVE  DOMAIN TopN(pts, n, key) \subseteq DOMAIN pts
BY DEF TopN

\* A board chooses among the points.
LEMMA BoardAmong ==
  ASSUME NEW policy \in Policies, NEW pts
  PROVE  DOMAIN BoardOf(policy, pts) \subseteq DOMAIN pts
<1>1. CASE policy = "candidate"
  <2>1. DOMAIN CandidateBoard(pts) \subseteq {c \in DOMAIN pts : ~E!Extreme(pts[c].f)}
    BY TopNAmong DEF CandidateBoard, Restrict
  <2> QED
    BY <1>1, <2>1 DEF BoardOf
<1>2. CASE policy # "candidate"
  BY <1>2, TopNAmong DEF BoardOf, Policies
<1> QED
  BY <1>1, <1>2

\* A universe chooses among the live markets.
LEMMA UniverseAmong ==
  ASSUME NEW t, NEW ps, NEW bs, NEW rs
  PROVE  DOMAIN Universe(PointsAt(t, ps, bs, rs)) \subseteq Live(t, ps)
<1>1. DOMAIN PointsAt(t, ps, bs, rs) = Live(t, ps)
  BY DEF PointsAt
<1> QED
  BY <1>1, TopNAmong DEF Universe

\* A label is of a decision time, a horizon and a market that was live.
LEMMA LabelOf ==
  ASSUME Replayed, NEW l \in labels
  PROVE  /\ l.time \in DecisionTimes /\ l.horizon \in Horizons
         /\ l.cond \in DOMAIN series /\ MidAsOf(series[l.cond], l.time) # NoMid
<1>1. PICK t \in DecisionTimes : l \in LabelsAt(t, snaps[t])
  BY DEF Replayed
<1>2. PICK policy \in Policies, h \in Horizons :
        \E c \in DOMAIN BoardOf(policy, snaps[t]) : l.time = t /\ l.horizon = h /\ l.cond = c
  <2>1. PICK policy \in Policies, h \in Horizons :
          l \in {[time |-> t, horizon |-> h, cond |-> c, policy |-> policy,
                  ret |-> Move(policy, c, BoardOf(policy, snaps[t])[c], MidAsOf(series[c], t + h))
                            - CostBps(BoardOf(policy, snaps[t])[c].f)] :
                   c \in {d \in DOMAIN BoardOf(policy, snaps[t]) :
                            EndDate[d] = 0 \/ EndDate[d] >= t + h}}
    BY <1>1 DEF LabelsAt
  <2> QED
    BY <2>1
<1>3. l.cond \in Live(t, series)
  BY <1>2, BoardAmong, UniverseAmong DEF Replayed
<1> QED
  BY <1>2, <1>3 DEF Live

\* With the last row before the horizon in the period, the period has the same last row.
LEMMA LoadedMid ==
  ASSUME NEW s, History(s), NEW t \in Int, NEW u \in Int, t <= u, u <= End,
         NEW q, q = [v \in DOMAIN s \cap Loaded |-> s[v]], Past(q, t) # {}
  PROVE  MidAsOf(q, u) = MidAsOf(s, u)
<1>0. From \in Int /\ End \in Int
  BY TimesAreNat, BacktestAssumption
<1>1. PICK first \in Past(q, t) : TRUE
  OBVIOUS
<1>2. History(q)
  BY FS_Intersection DEF History
<1>3. first \in DOMAIN s /\ first \in Loaded /\ first \in Int /\ first <= t /\ From <= first
  BY <1>0, <1>1 DEF Past, Loaded, History
<1>4. first \in Past(s, u) /\ first \in Past(q, u)
  BY <1>3 DEF Past, History
<1>5. /\ Max(Past(s, u)) \in Past(s, u) /\ \A v \in Past(s, u) : v <= Max(Past(s, u))
      /\ Max(Past(q, u)) \in Past(q, u) /\ \A v \in Past(q, u) : v <= Max(Past(q, u))
  BY <1>2, <1>4, LastOfPast
<1>6. Max(Past(s, u)) \in Past(q, u)
  <2>1. Max(Past(s, u)) \in DOMAIN s /\ Max(Past(s, u)) <= u /\ first <= Max(Past(s, u))
    BY <1>4, <1>5 DEF Past
  <2>2. Max(Past(s, u)) \in Int
    BY <2>1 DEF History
  <2>3. Max(Past(s, u)) \in Loaded
    BY <1>0, <1>3, <2>1, <2>2 DEF Loaded
  <2> QED
    BY <2>1, <2>3 DEF Past
<1>7. Max(Past(q, u)) \in Past(s, u)
  BY <1>5 DEF Past
<1>8. Max(Past(q, u)) \in Int /\ Max(Past(s, u)) \in Int
  BY <1>5, <1>7 DEF Past, History
<1>9. Max(Past(q, u)) = Max(Past(s, u))
  BY <1>5, <1>6, <1>7, <1>8
<1>10. Max(Past(s, u)) \in DOMAIN s \cap Loaded
  BY <1>6 DEF Past
<1> QED
  BY <1>4, <1>9, <1>10 DEF MidAsOf

\* No window of a decision and no horizon of a label reaches outside of what was loaded,
\* whatever the period, the horizons and the tables.
THEOREM EveryWindowIsLoaded == Spec => []WindowsAreLoaded
<1>1. RunInv => WindowsAreLoaded
  <2> SUFFICES ASSUME RunInv, ~synth PROVE WindowsAreLoaded
    BY DEF WindowsAreLoaded
  <2>1. CASE NotReplayed
    BY <2>1 DEF NotReplayed, WindowsAreLoaded
  <2>2. CASE ~NotReplayed
    <3>1. Replayed /\ AsLoaded
      BY <2>2 DEF RunInv
    <3>2. ASSUME NEW c \in DOMAIN series
          PROVE  /\ History(prices[c])
                 /\ series[c] = [v \in DOMAIN prices[c] \cap Loaded |-> prices[c][v]]
      <4>1. c \in DOMAIN LoadPriceSeries /\ series[c] = LoadPriceSeries[c]
        BY <3>1, <3>2 DEF AsLoaded
      <4>2. History(prices[c])
        BY <4>1, LoadedSeries DEF RunInv
      <4> QED
        BY <4>1, <4>2 DEF LoadPriceSeries
    <3>3. ASSUME NEW t \in DOMAIN snaps, NEW c \in DOMAIN series
          PROVE  PointCount(series[c], t) = PointCount(prices[c], t)
      <4>1. t \in DecisionTimes /\ t \in Int /\ FirstTime <= t /\ t + MaxHorizon <= End
        BY <3>1, TimesAreNat DEF Replayed
      <4>2. DOMAIN prices[c] \subseteq Nat /\ DOMAIN series[c] = DOMAIN prices[c] \cap Loaded
        BY <3>2 DEF History
      <4>3. ASSUME NEW u \in Nat, u <= t, u > t - Day PROVE u \in Loaded
        BY <4>1, <4>3, TimesAreNat, BacktestAssumption DEF Loaded
      <4>4. Window(series[c], t) = Window(prices[c], t)
        BY <4>2, <4>3 DEF Window, Past
      <4> QED
        BY <4>4 DEF PointCount
    <3>4. ASSUME NEW l \in labels
          PROVE  /\ l.time + l.horizon <= End
                 /\ MidAsOf(series[l.cond], l.time + l.horizon)
                      = MidAsOf(prices[l.cond], l.time + l.horizon)
      <4>1. /\ l.time \in DecisionTimes /\ l.horizon \in Horizons
            /\ l.cond \in DOMAIN series /\ MidAsOf(series[l.cond], l.time) # NoMid
        BY <3>1, <3>4, LabelOf
      <4>2. /\ l.time \in Int /\ l.horizon \in Nat /\ l.horizon <= MaxHorizon
            /\ l.time + MaxHorizon <= End
        BY <4>1, TimesAreNat, BacktestAssumption
      <4>3. /\ l.time + l.horizon \in Int /\ l.time <= l.time + l.horizon
            /\ l.time + l.horizon <= End
        BY <4>2, TimesAreNat, BacktestAssumption
      <4>4. Past(series[l.cond], l.time) # {}
        BY <4>1 DEF MidAsOf
      <4>5. /\ History(prices[l.cond])
            /\ series[l.cond] = [v \in DOMAIN prices[l.cond] \cap Loaded |-> prices[l.cond][v]]
        BY <3>2, <4>1
      <4>6. MidAsOf(series[l.cond], l.time + l.horizon)
              = MidAsOf(prices[l.cond], l.time + l.horizon)
        BY ONLY <4>2, <4>3, <4>4, <4>5, LoadedMid
      <4> QED
        BY <4>3, <4>6
    <3> QED
      BY <3>3, <3>4 DEF WindowsAreLoaded
  <2> QED
    BY <2>1, <2>2
<1> QED
  BY <1>1, RunInvariance, PTL

-----------------------------------------------------------------------------
(* Iterations.                                                             *)

\* A set of naturals has a least element.
LEMMA LeastOf ==
  ASSUME NEW N \in SUBSET Nat, N # {}
  PROVE  \E m \in N : \A n \in N : m <= n
<1>1. PICK m \in N : \A n \in N : ~(<<n, m>> \in OpToRel(<, Nat))
  BY NatLessThanWellFounded, WFMin, Zenon
<1>2. ASSUME NEW n \in N PROVE m <= n
  <2>1. n \in Nat /\ m \in Nat
    OBVIOUS
  <2>2. n < m => <<n, m>> \in OpToRel(<, Nat)
    BY <2>1 DEF OpToRel
  <2>3. ~(n < m)
    BY <1>1, <2>2, Zenon
  <2> QED
    BY <2>1, <2>3
<1> QED
  BY <1>2

\* What holds of 0, and of k if of k - 1, holds up to n.
LEMMA ReachesAll ==
  ASSUME NEW n \in Nat, NEW G \in SUBSET (0..n), 0 \in G, \A k \in 1..n : k - 1 \in G => k \in G
  PROVE  G = 0..n
<1>1. SUFFICES ASSUME (0..n) \ G # {} PROVE FALSE
  OBVIOUS
<1>2. PICK k \in (0..n) \ G : \A j \in (0..n) \ G : k <= j
  <2> DEFINE B == (0..n) \ G
  <2>1. B \in SUBSET Nat /\ B # {}
    BY <1>1
  <2> HIDE DEF B
  <2>2. \E k \in B : \A j \in B : k <= j
    BY <2>1, LeastOf
  <2> QED
    BY <2>2 DEF B
<1>3. k \in 1..n /\ k - 1 \in 0..n /\ ~(k <= k - 1)
  BY <1>2
<1>4. k - 1 \in G
  BY <1>2, <1>3
<1> QED
  BY <1>2, <1>3, <1>4

\* n steps from a first value.
IsIteration(f, n, X, base, step) ==
  f \in [0..n -> X] /\ f[0] = base /\ \A k \in 1..n : f[k] = step[k][f[k - 1]]

\* An iteration stays within a set its steps stay within.
LEMMA Iterates ==
  ASSUME NEW n \in Nat, NEW X, NEW base \in X, NEW step \in [1..n -> [X -> X]]
  PROVE  \E f : IsIteration(f, n, X, base, step)
<1> DEFINE Upto(m) ==
             \E f \in [0..m -> X] : f[0] = base /\ \A k \in 1..m : f[k] = step[k][f[k - 1]]
           G == {m \in 0..n : Upto(m)}
<1>1. Upto(0)
  <2> DEFINE f == [k \in 0..0 |-> base]
  <2>1. f \in [0..0 -> X] /\ f[0] = base /\ 1..0 = {}
    OBVIOUS
  <2> QED
    BY <2>1
<1>2. ASSUME NEW m \in 1..n, Upto(m - 1) PROVE Upto(m)
  <2>1. PICK f \in [0..(m - 1) -> X] :
          f[0] = base /\ \A k \in 1..(m - 1) : f[k] = step[k][f[k - 1]]
    BY <1>2
  <2> DEFINE h == [k \in 0..m |-> IF k = m THEN step[m][f[m - 1]] ELSE f[k]]
  <2>2. m - 1 \in 0..(m - 1) /\ f[m - 1] \in X
    BY <2>1
  <2>3. step[m][f[m - 1]] \in X
    BY <2>2
  <2>4. h \in [0..m -> X]
    BY <2>1, <2>3
  <2>5. h[0] = base
    BY <2>1
  <2>6. \A k \in 1..m : h[k] = step[k][h[k - 1]]
    <3>1. ASSUME NEW k \in 1..m PROVE h[k] = step[k][h[k - 1]]
      <4>1. k - 1 \in 0..(m - 1) /\ h[k - 1] = f[k - 1]
        OBVIOUS
      <4>2. CASE k = m
        BY <4>1, <4>2
      <4>3. CASE k # m
        BY <2>1, <4>1, <4>3
      <4> QED
        BY <4>2, <4>3
    <3> QED
      BY <3>1
  <2> HIDE DEF h
  <2> QED
    BY <2>4, <2>5, <2>6
<1> HIDE DEF Upto
<1>3. G = 0..n
  <2>1. G \in SUBSET (0..n) /\ 0 \in G /\ \A k \in 1..n : k - 1 \in G => k \in G
    BY <1>1, <1>2
  <2> HIDE DEF G
  <2> QED
    BY <2>1, ReachesAll
<1>4. Upto(n)
  BY <1>3
<1> QED
  BY <1>4 DEF Upto, IsIteration

-----------------------------------------------------------------------------
(* The drawdown.                                                           *)

Equities == [equity : Int, peak : Int, worst : Int]

\* The state after a return is made of integers.
LEMMA AfterReturnTyped ==
  ASSUME NEW acc \in Equities, NEW r \in Int
  PROVE  AfterReturn(acc, r) \in Equities
BY DEF Equities, AfterReturn, E!LargerOf

\* The equity curve is the iteration of AfterReturn.
LEMMA CurveIs ==
  ASSUME NEW r \in Seq(Int)
  PROVE  /\ Curve(r) \in [0..Len(r) -> Equities]
         /\ Curve(r)[0] = Flat
         /\ \A k \in 1..Len(r) : Curve(r)[k] = AfterReturn(Curve(r)[k - 1], r[k])
<1> DEFINE n == Len(r)
           Is(f) == f = [k \in 0..n |-> IF k = 0 THEN Flat ELSE AfterReturn(f[k - 1], r[k])]
           step == [k \in 1..n |-> [acc \in Equities |-> AfterReturn(acc, r[k])]]
<1>1. n \in Nat /\ \A k \in 1..n : r[k] \in Int
  OBVIOUS
<1>2. step \in [1..n -> [Equities -> Equities]]
  BY <1>1, AfterReturnTyped
<1>3. Flat \in Equities
  BY DEF Flat, Equities
<1>4. PICK f : IsIteration(f, n, Equities, Flat, step)
  <2> HIDE DEF step, n
  <2> QED
    BY <1>1, <1>2, <1>3, Iterates
<1>5. \A k \in 1..n : f[k] = AfterReturn(f[k - 1], r[k])
  <2>1. ASSUME NEW k \in 1..n PROVE f[k] = AfterReturn(f[k - 1], r[k])
    <3>1. k - 1 \in 0..n /\ f[k - 1] \in Equities
      BY <1>1, <1>4 DEF IsIteration
    <3> QED
      BY <1>4, <3>1 DEF IsIteration
  <2> QED
    BY <2>1
<1>6. Is(f)
  <2>1. \A k \in 0..n : f[k] = IF k = 0 THEN Flat ELSE AfterReturn(f[k - 1], r[k])
    BY <1>1, <1>4, <1>5 DEF IsIteration
  <2>2. f = [k \in 0..n |-> f[k]]
    BY <1>4 DEF IsIteration
  <2> QED
    BY <2>1, <2>2
<1>7. Curve(r) = CHOOSE c : Is(c)
  BY DEF Curve
<1>8. Is(Curve(r))
  BY <1>6, <1>7
<1> DEFINE c == Curve(r)
<1>9. DOMAIN c = 0..n /\ \A k \in 0..n : c[k] = IF k = 0 THEN Flat ELSE AfterReturn(c[k - 1], r[k])
  BY <1>8
<1> HIDE DEF c, step, Is
<1>10. c[0] = Flat /\ \A k \in 1..n : c[k] = AfterReturn(c[k - 1], r[k])
  BY <1>1, <1>9
<1>11. {k \in 0..n : c[k] \in Equities} = 0..n
  <2> DEFINE G == {k \in 0..n : c[k] \in Equities}
  <2>1. 0 \in G
    BY <1>1, <1>3, <1>10
  <2>2. \A k \in 1..n : k - 1 \in G => k \in G
    BY <1>1, <1>10, AfterReturnTyped
  <2> HIDE DEF G
  <2>3. G \in SUBSET (0..n)
    BY DEF G
  <2>4. G = 0..n
    BY <1>1, <2>1, <2>2, <2>3, ReachesAll
  <2> QED
    BY <2>4 DEF G
<1>12. c \in [0..n -> Equities]
  <2>1. c = [k \in 0..n |-> c[k]]
    BY <1>8, <1>9 DEF Is, c
  <2>2. \A k \in 0..n : c[k] \in Equities
    BY <1>11
  <2> QED
    BY <2>1, <2>2
<1> QED
  BY <1>10, <1>12 DEF c

\* The gains are the running sums of the returns.
LEMMA GainedIs ==
  ASSUME NEW r \in Seq(Int)
  PROVE  /\ Gained(r)[0] = 0
         /\ \A k \in 0..Len(r) : Gained(r)[k] \in Int
         /\ \A k \in 1..Len(r) : Gained(r)[k] = Gained(r)[k - 1] + r[k]
<1> DEFINE n == Len(r)
           Is(f) == f = [k \in 0..n |-> IF k = 0 THEN 0 ELSE f[k - 1] + r[k]]
           step == [k \in 1..n |-> [acc \in Int |-> acc + r[k]]]
<1>1. n \in Nat /\ \A k \in 1..n : r[k] \in Int
  OBVIOUS
<1>2. step \in [1..n -> [Int -> Int]]
  BY <1>1
<1>3. PICK f : IsIteration(f, n, Int, 0, step)
  <2>1. 0 \in Int
    OBVIOUS
  <2> HIDE DEF step, n
  <2> QED
    BY <1>1, <1>2, <2>1, Iterates, Zenon
<1>4. \A k \in 1..n : f[k] = f[k - 1] + r[k]
  <2>1. ASSUME NEW k \in 1..n PROVE f[k] = f[k - 1] + r[k]
    <3>1. k - 1 \in 0..n /\ f[k - 1] \in Int
      <4>1. k - 1 \in 0..n
        BY <1>1
      <4>2. f \in [0..n -> Int]
        BY <1>3 DEF IsIteration
      <4> HIDE DEF n
      <4> QED
        BY <4>1, <4>2
    <3> QED
      BY <1>3, <3>1 DEF IsIteration
  <2> QED
    BY <2>1
<1>5. Is(f)
  <2>1. \A k \in 0..n : f[k] = IF k = 0 THEN 0 ELSE f[k - 1] + r[k]
    BY <1>1, <1>3, <1>4 DEF IsIteration
  <2>2. f = [k \in 0..n |-> f[k]]
    BY <1>3 DEF IsIteration
  <2> QED
    BY <2>1, <2>2
<1>6. Gained(r) = CHOOSE c : Is(c)
  BY DEF Gained
<1>7. Is(Gained(r))
  BY <1>5, <1>6
<1> DEFINE c == Gained(r)
<1>8. \A k \in 0..n : c[k] = IF k = 0 THEN 0 ELSE c[k - 1] + r[k]
  BY <1>7
<1> HIDE DEF c, step, Is
<1>9. c[0] = 0 /\ \A k \in 1..n : c[k] = c[k - 1] + r[k]
  BY <1>1, <1>8
<1>10. {k \in 0..n : c[k] \in Int} = 0..n
  <2> DEFINE G == {k \in 0..n : c[k] \in Int}
  <2>1. 0 \in G
    BY <1>1, <1>9
  <2>2. \A k \in 1..n : k - 1 \in G => k \in G
    BY <1>1, <1>9
  <2> HIDE DEF G
  <2>3. G \in SUBSET (0..n)
    BY DEF G
  <2>4. G = 0..n
    BY <1>1, <2>1, <2>2, <2>3, ReachesAll
  <2> QED
    BY <2>4 DEF G
<1> QED
  BY <1>9, <1>10 DEF c

\* One pass over the returns finds the largest loss of any stretch of them: after k of them
\* the peak is the largest gain so far, and the worst fall the largest loss so far.
THEOREM DrawdownIsLargestLoss ==
  ASSUME NEW r \in Seq(Int)
  PROVE  LargestLoss(MaxDrawdown(r), r)
<1> DEFINE n == Len(r)
           c == Curve(r)
           g == Gained(r)
           Peak(k) == /\ \A i \in 0..k : g[i] <= c[k].peak
                      /\ \E i \in 0..k : g[i] = c[k].peak
           Worst(k) == /\ \A i, j \in 0..k : i <= j => g[i] - g[j] <= c[k].worst
                       /\ \E i, j \in 0..k : i <= j /\ g[i] - g[j] = c[k].worst
           G == {k \in 0..n : c[k].equity = g[k] /\ Peak(k) /\ Worst(k)}
<1>1. n \in Nat /\ \A k \in 1..n : r[k] \in Int
  OBVIOUS
<1>2. /\ \A k \in 0..n : c[k].equity \in Int /\ c[k].peak \in Int /\ c[k].worst \in Int
      /\ c[0].equity = 0 /\ c[0].peak = 0 /\ c[0].worst = 0
      /\ \A k \in 1..n : c[k] = AfterReturn(c[k - 1], r[k])
  <2>1. c \in [0..n -> Equities] /\ c[0] = Flat
        /\ \A k \in 1..n : c[k] = AfterReturn(c[k - 1], r[k])
    BY CurveIs
  <2> HIDE DEF c, n
  <2>2. ASSUME NEW k \in 0..n
        PROVE  c[k].equity \in Int /\ c[k].peak \in Int /\ c[k].worst \in Int
    <3>1. c[k] \in Equities
      BY <2>1
    <3> QED
      BY <3>1 DEF Equities
  <2>3. Flat.equity = 0 /\ Flat.peak = 0 /\ Flat.worst = 0
    BY DEF Flat
  <2> QED
    BY <2>1, <2>2, <2>3
<1>3. g[0] = 0 /\ (\A k \in 0..n : g[k] \in Int) /\ \A k \in 1..n : g[k] = g[k - 1] + r[k]
  BY GainedIs
<1> HIDE DEF c, g, n
<1>4. 0 \in G
  BY <1>1, <1>2, <1>3
<1>5. ASSUME NEW k \in 1..n, k - 1 \in G PROVE k \in G
  <2> DEFINE p == c[k - 1]
             q == c[k]
  <2>1. /\ k \in Nat /\ k - 1 \in 0..n /\ k \in 0..n /\ 0..k = (0..(k - 1)) \cup {k}
        /\ \A i \in 0..k : i \in 0..n
    BY <1>1
  <2>2. /\ p.equity = g[k - 1] /\ Peak(k - 1) /\ Worst(k - 1)
        /\ p.peak \in Int /\ p.worst \in Int
    BY <1>2, <1>5, <2>1
  <2>3. g[k] = g[k - 1] + r[k] /\ g[k] \in Int
    BY <1>3, <2>1
  <2>4. /\ q.equity = p.equity + r[k]
        /\ q.peak = E!LargerOf(p.peak, q.equity)
        /\ q.worst = E!LargerOf(p.worst, q.peak - q.equity)
    <3>1. q = AfterReturn(p, r[k])
      BY <1>2
    <3> HIDE DEF p, q
    <3> QED
      BY <3>1 DEF AfterReturn
  <2>5. q.equity = g[k]
    BY <2>2, <2>3, <2>4
  <2>6. q.peak = IF p.peak > g[k] THEN p.peak ELSE g[k]
    BY <2>4, <2>5 DEF E!LargerOf
  <2>7. q.worst = IF p.worst > q.peak - g[k] THEN p.worst ELSE q.peak - g[k]
    BY <2>4, <2>5 DEF E!LargerOf
  <2>8. q.peak \in Int /\ q.worst \in Int /\ \A i \in 0..k : g[i] \in Int
    BY <1>2, <1>3, <2>1
  <2>9. \A i \in 0..(k - 1) : g[i] <= p.peak
    BY <2>2
  <2>10. PICK top \in 0..(k - 1) : g[top] = p.peak
    BY <2>2
  <2>11. \A i, j \in 0..(k - 1) : i <= j => g[i] - g[j] <= p.worst
    BY <2>2
  <2>12. PICK a \in 0..(k - 1), b \in 0..(k - 1) : a <= b /\ g[a] - g[b] = p.worst
    BY <2>2
  <2> HIDE DEF p, q
  <2>13. \A i \in 0..k : g[i] <= q.peak
    <3>1. p.peak <= q.peak /\ g[k] <= q.peak /\ p.peak \in Int
      BY ONLY <2>2, <2>3, <2>6
    <3>2. ASSUME NEW i \in 0..k PROVE g[i] <= q.peak
      <4>1. CASE i = k
        BY <3>1, <4>1
      <4>2. CASE i # k
        <5>1. i \in 0..(k - 1)
          BY <2>1, <4>2
        <5>2. g[i] <= p.peak /\ g[i] \in Int
          BY <2>8, <2>9, <5>1
        <5> QED
          BY ONLY <2>8, <3>1, <5>2
      <4> QED
        BY <4>1, <4>2
    <3> QED
      BY <3>2
  <2>14. PICK high \in 0..k : g[high] = q.peak
    BY ONLY <2>1, <2>6, <2>10
  <2>15. p.worst <= q.worst /\ q.peak - g[k] <= q.worst
    BY ONLY <2>2, <2>3, <2>7, <2>8
  <2>16. ASSUME NEW i \in 0..k, NEW j \in 0..k, i <= j PROVE g[i] - g[j] <= q.worst
    <3>1. CASE j = k
      <4>1. g[i] <= q.peak /\ g[i] \in Int
        BY <2>8, <2>13
      <4> QED
        BY ONLY <2>3, <2>8, <2>15, <3>1, <4>1
    <3>2. CASE j # k
      <4>1. i \in 0..(k - 1) /\ j \in 0..(k - 1)
        BY <2>1, <2>16, <3>2
      <4>2. g[i] - g[j] <= p.worst /\ g[i] \in Int /\ g[j] \in Int
        BY <2>8, <2>11, <2>16, <4>1
      <4>3. p.worst \in Int /\ q.worst \in Int /\ p.worst <= q.worst
        BY <2>2, <2>8, <2>15
      <4> QED
        BY ONLY <4>2, <4>3
    <3> QED
      BY <3>1, <3>2
  <2>17. \E i, j \in 0..k : i <= j /\ g[i] - g[j] = q.worst
    <3>1. CASE q.worst = p.worst
      BY <2>1, <2>12, <3>1
    <3>2. CASE q.worst = q.peak - g[k]
      <4>1. high <= k /\ k \in 0..k /\ g[high] - g[k] = q.worst
        BY <2>1, <2>14, <3>2
      <4> QED
        BY <2>14, <4>1
    <3> QED
      BY ONLY <2>7, <3>1, <3>2
  <2>18. Peak(k) /\ Worst(k)
    <3>1. Peak(k)
      BY <2>13, <2>14 DEF q
    <3>2. Worst(k)
      BY <2>16, <2>17 DEF q
    <3> QED
      BY <3>1, <3>2
  <2> QED
    BY <2>1, <2>5, <2>18 DEF q
<1> HIDE DEF Peak, Worst
<1>6. G = 0..n
  <2> DEFINE H == G
  <2>1. H \in SUBSET (0..n) /\ 0 \in H /\ \A k \in 1..n : k - 1 \in H => k \in H
    BY <1>4, <1>5
  <2> HIDE DEF H
  <2>2. H = 0..n
    BY <1>1, <2>1, ReachesAll
  <2> QED
    BY <2>2 DEF H
<1>7. Worst(n)
  BY <1>1, <1>6
<1>8. MaxDrawdown(r) = c[n].worst
  BY DEF MaxDrawdown, c, n
<1> QED
  BY <1>7, <1>8 DEF LargestLoss, Worst, g, n

-----------------------------------------------------------------------------
(* Numbering a finite set.                                                 *)

\* Numbers up to the size of a set that tell its elements apart are all taken.
LEMMA OneToOneIsOnto ==
  ASSUME NEW S, IsFiniteSet(S), NEW f \in [S -> 1..Cardinality(S)],
         \A x, y \in S : f[x] = f[y] => x = y
  PROVE  \A k \in 1..Cardinality(S) : \E x \in S : f[x] = k
<1> DEFINE n == Cardinality(S)
<1>1. n \in Nat
  BY FS_CardinalityType
<1>2. IsFiniteSet(1..n) /\ Cardinality(1..n) = n
  BY <1>1, FS_Interval
<1>3. f \in Injection(S, 1..n)
  BY DEF Injection, IsInjective
<1>4. f \in Surjection(S, 1..n)
  BY <1>2, <1>3, FS_Injection
<1> QED
  BY <1>4 DEF Surjection

\* The number of elements up to one of them is a place.
LEMMA PlaceOf ==
  ASSUME NEW S, IsFiniteSet(S), NEW T \in SUBSET S, NEW x \in T
  PROVE  /\ Cardinality(T) \in 1..Cardinality(S)
         /\ \A U \in SUBSET (T \ {x}) : Cardinality(U) # Cardinality(T)
<1>1. /\ Cardinality(S) \in Nat
      /\ IsFiniteSet(T) /\ Cardinality(T) \in Nat /\ Cardinality(T) <= Cardinality(S)
  BY FS_Subset, FS_CardinalityType
<1>2. IsFiniteSet(T \ {x}) /\ Cardinality(T \ {x}) = Cardinality(T) - 1
      /\ Cardinality(T \ {x}) \in Nat
  BY <1>1, FS_RemoveElement, FS_CardinalityType
<1>3. ASSUME NEW U \in SUBSET (T \ {x}) PROVE Cardinality(U) # Cardinality(T)
  <2>1. Cardinality(U) <= Cardinality(T \ {x}) /\ Cardinality(U) \in Nat
    BY <1>2, FS_Subset, FS_CardinalityType
  <2> QED
    BY <1>1, <1>2, <2>1
<1> QED
  BY <1>1, <1>2, <1>3

\* A finite set of integers in order has its elements, as many as there are.
LEMMA InOrderIn ==
  ASSUME NEW S \in SUBSET Int, IsFiniteSet(S)
  PROVE  DOMAIN InOrder(S) = 1..Cardinality(S) /\ \A k \in DOMAIN InOrder(S) : InOrder(S)[k] \in S
<1> DEFINE upto(x) == {y \in S : y <= x}
           f == [x \in S |-> Cardinality(upto(x))]
<1>1. ASSUME NEW x \in S PROVE upto(x) \in SUBSET S /\ x \in upto(x)
  OBVIOUS
<1>2. f \in [S -> 1..Cardinality(S)]
  <2>1. ASSUME NEW x \in S PROVE Cardinality(upto(x)) \in 1..Cardinality(S)
    BY <1>1, PlaceOf
  <2> QED
    BY <2>1
<1>3. ASSUME NEW x \in S, NEW y \in S, x < y PROVE Cardinality(upto(x)) # Cardinality(upto(y))
  <2>1. upto(x) \in SUBSET (upto(y) \ {y})
    <3>1. ASSUME NEW z \in upto(x) PROVE z \in upto(y) \ {y}
      <4>1. z \in S /\ z <= x /\ z \in Int /\ x \in Int /\ y \in Int
        OBVIOUS
      <4>2. z <= y /\ z # y
        BY ONLY <1>3, <4>1
      <4> QED
        BY <4>1, <4>2
    <3> QED
      BY <3>1
  <2>2. upto(y) \in SUBSET S /\ y \in upto(y)
    BY <1>1
  <2> HIDE DEF upto
  <2> QED
    BY <2>1, <2>2, PlaceOf
<1>4. \A x, y \in S : f[x] = f[y] => x = y
  <2>1. ASSUME NEW x \in S, NEW y \in S, f[x] = f[y] PROVE x = y
    <3>1. x \in Int /\ y \in Int /\ ~(x < y) /\ ~(y < x)
      BY <1>3, <2>1
    <3> QED
      BY <3>1
  <2> QED
    BY <2>1
<1>5. \A k \in 1..Cardinality(S) : \E x \in S : f[x] = k
  <2> HIDE DEF f
  <2> QED
    BY <1>2, <1>4, OneToOneIsOnto
<1>6. \A k \in 1..Cardinality(S) : \E x \in S : Cardinality({y \in S : y <= x}) = k
  BY <1>5
<1>7. \A k \in 1..Cardinality(S) :
        (CHOOSE x \in S : Cardinality({y \in S : y <= x}) = k) \in S
  BY <1>6
<1> QED
  BY <1>7 DEF InOrder

-----------------------------------------------------------------------------
(* Types of the history in memory.                                         *)

PriceRows(s) == History(s) /\ \A t \in DOMAIN s : s[t] \in Int

Books == [time : Int, source : {"venue", "synth"}, bid : Int, ask : Int, depth : Int, bids : Int]

\* A mid is an integer.
LEMMA MidTyped ==
  ASSUME NEW s, PriceRows(s), NEW t \in Int
  PROVE  MidAsOf(s, t) \in Int
<1>1. CASE Past(s, t) = {}
  BY <1>1 DEF MidAsOf, NoMid
<1>2. CASE Past(s, t) # {}
  <2>1. Max(Past(s, t)) \in DOMAIN s
    BY <1>2, LastOfPast DEF PriceRows, Past
  <2> QED
    BY <1>2, <2>1 DEF MidAsOf, PriceRows
<1> QED
  BY <1>1, <1>2

\* Loaded prices are integers.
LEMMA LoadedPricesTyped ==
  ASSUME prices \in Histories, NEW c \in DOMAIN LoadPriceSeries
  PROVE  c \in Conds /\ PriceRows(LoadPriceSeries[c])
<1>1. c \in Conds /\ History(LoadPriceSeries[c])
  BY LoadedSeries
<1>2. \A t \in DOMAIN prices[c] : prices[c][t] \in Nat
  BY <1>1, BacktestAssumption
<1>3. ASSUME NEW t \in DOMAIN LoadPriceSeries[c] PROVE LoadPriceSeries[c][t] \in Int
  <2>1. t \in DOMAIN prices[c] /\ LoadPriceSeries[c][t] = prices[c][t]
    BY LoadedSeries
  <2> QED
    BY <1>2, <2>1
<1> QED
  BY <1>1, <1>3 DEF PriceRows

\* Loaded books are a sequence of books.
LEMMA LoadedBooksTyped ==
  ASSUME books \in BookHistories, NEW c \in DOMAIN LoadBookSeries
  PROVE  LoadBookSeries[c] \in Seq(Books)
<1> DEFINE S == DOMAIN books[c] \cap Loaded
           n == Cardinality(S)
<1>1. c \in Conds /\ History(books[c]) /\ \A t \in DOMAIN books[c] : IsQuote(books[c][t])
  BY BacktestAssumption DEF LoadBookSeries
<1>2. S \in SUBSET Int /\ IsFiniteSet(S)
  BY <1>1, FS_Intersection DEF History
<1>3. n \in Nat
  BY <1>2, FS_CardinalityType
<1>4. DOMAIN InOrder(S) = 1..n /\ \A k \in 1..n : InOrder(S)[k] \in S
  BY <1>2, InOrderIn
<1>5. LoadBookSeries[c] = [k \in 1..n |-> StoredBook(c, InOrder(S)[k])]
  BY <1>4 DEF LoadBookSeries
<1>6. ASSUME NEW t \in S PROVE StoredBook(c, t) \in Books
  <2>1. t \in Int /\ IsQuote(books[c][t])
    BY <1>1, <1>2
  <2> QED
    BY <2>1 DEF StoredBook, Books, IsQuote
<1>7. \A k \in 1..n : StoredBook(c, InOrder(S)[k]) \in Books
  BY <1>4, <1>6
<1> HIDE DEF S, n
<1>8. [k \in 1..n |-> StoredBook(c, InOrder(S)[k])] \in Seq(Books)
  BY <1>3, <1>7, IsASeq
<1> QED
  BY <1>5, <1>8

-----------------------------------------------------------------------------
(* Sums and costs are integers.                                            *)

\* The element a sum begins with.
Pick(s) == CHOOSE x \in s : TRUE

\* What a sum over the subsets of S must be.
IsFold(m, S, f) ==
  f = [s \in SUBSET S |-> IF s = {} THEN 0 ELSE m[Pick(s)] + f[s \ {Pick(s)}]]

\* A sum over a finite set is an integer: the fold it is defined by exists, since it exists
\* for the subsets of up to n elements for every n, and has integer values only.
LEMMA SumIsInt ==
  ASSUME NEW S, IsFiniteSet(S), NEW m \in [S -> Int]
  PROVE  SumFunction(m) \in Int
<1> DEFINE Eq(f, D) == \A s \in D : f[s] = IF s = {} THEN 0 ELSE m[Pick(s)] + f[s \ {Pick(s)}]
           Below(n) == {s \in SUBSET S : Cardinality(s) <= n}
           Has(n) == \E f \in [Below(n) -> Int] : Eq(f, Below(n))
           K == Cardinality(S)
<1>0. \A x \in S : m[x] \in Int
  OBVIOUS
<1>1. \A s \in SUBSET S : IsFiniteSet(s) /\ Cardinality(s) \in Nat /\ Cardinality(s) <= K
  BY FS_Subset, FS_CardinalityType
<1>2. ASSUME NEW s \in SUBSET S, s # {}
      PROVE  /\ Pick(s) \in s /\ s \ {Pick(s)} \in SUBSET S
             /\ Cardinality(s \ {Pick(s)}) = Cardinality(s) - 1
  <2>1. Pick(s) \in s
    BY <1>2 DEF Pick
  <2> QED
    BY <2>1, <1>1, FS_RemoveElement
<1>3. ASSUME NEW n \in Nat, Has(n) PROVE Has(n + 1)
  <2>0. PICK f \in [Below(n) -> Int] : Eq(f, Below(n))
    BY <1>3
  <2> DEFINE g == [s \in Below(n + 1) |->
                     IF s = {} THEN 0
                     ELSE m[Pick(s)] + f[s \ {Pick(s)}]]
  <2>1. \A s \in Below(n + 1) : s # {} => s \ {Pick(s)} \in Below(n) /\ m[Pick(s)] \in Int
    BY <1>0, <1>1, <1>2
  <2>2. g \in [Below(n + 1) -> Int]
    BY <2>1
  <2>3. \A s \in Below(n) : g[s] = f[s] /\ s \in Below(n + 1)
    BY <1>1, <2>0
  <2>4. Eq(g, Below(n + 1))
    BY <2>1, <2>3
  <2> QED
    BY <2>2, <2>4
<1>4. Has(0)
  <2> DEFINE g == [s \in Below(0) |-> 0]
  <2>1. \A s \in Below(0) : s = {}
    BY <1>1, FS_EmptySet
  <2>2. g \in [Below(0) -> Int] /\ Eq(g, Below(0))
    BY <2>1
  <2> QED
    BY <2>2
<1>5. Has(K)
  <2> SUFFICES ASSUME {n \in Nat : ~Has(n)} # {} PROVE FALSE
    BY <1>1
  <2> HIDE DEF Has
  <2>1. PICK n \in {k \in Nat : ~Has(k)} : \A k \in {k \in Nat : ~Has(k)} : n <= k
    BY LeastOf
  <2>2. n # 0 /\ n - 1 \in Nat /\ Has(n - 1)
    BY <1>4, <2>1
  <2> QED
    BY <1>3, <2>1, <2>2
<1>6. PICK f \in [SUBSET S -> Int] : Eq(f, SUBSET S)
  <2>1. Below(K) = SUBSET S
    BY <1>1
  <2> QED
    BY <1>5, <2>1
<1>7. IsFold(m, S, f)
  BY <1>6 DEF IsFold
<1> DEFINE iter == CHOOSE g : IsFold(m, S, g)
<1>8. IsFold(m, S, iter)
  BY <1>7
<1>9. SumFunction(m) = iter[S]
  BY DEF SumFunction, SumFunctionOnSet, FoldFunctionOnSet, MapThenFoldSet, IsFold, Pick
<1>10. iter[S] \in Int
  <2> HIDE DEF iter
  <2> DEFINE Bad == {s \in SUBSET S : iter[s] \notin Int}
  <2> SUFFICES ASSUME Bad # {} PROVE FALSE
    OBVIOUS
  <2>1. {Cardinality(s) : s \in Bad} \in SUBSET Nat /\ {Cardinality(s) : s \in Bad} # {}
    BY <1>1
  <2>2. PICK n \in {Cardinality(s) : s \in Bad} : \A k \in {Cardinality(s) : s \in Bad} : n <= k
    BY <2>1, LeastOf
  <2>3. PICK s \in Bad : \A t \in Bad : Cardinality(s) <= Cardinality(t)
    BY <2>2
  <2>4. s # {}
    BY <1>8 DEF IsFold
  <2>5. s \ {Pick(s)} \in SUBSET S /\ s \ {Pick(s)} \notin Bad
    BY <1>1, <1>2, <2>3, <2>4
  <2>6. iter[s] = m[Pick(s)] + iter[s \ {Pick(s)}]
    BY <1>8, <2>4 DEF IsFold
  <2>7. m[Pick(s)] \in Int /\ iter[s \ {Pick(s)}] \in Int /\ iter[s] \notin Int
    BY <1>0, <1>2, <2>3, <2>4, <2>5
  <2> QED
    BY ONLY <2>6, <2>7
<1> QED
  BY <1>9, <1>10

\* A natural number has a whole root.
LEMMA RootIsWhole ==
  ASSUME NEW n \in Nat
  PROVE  E!SquareRoot(n) \in Nat
<1> DEFINE Over == {k \in Nat : k * k > n}
<1>1. (n + 1) * (n + 1) > n
  OBVIOUS
<1>2. n + 1 \in Over
  BY <1>1
<1>3. PICK k \in Over : \A j \in Over : k <= j
  BY <1>2, LeastOf
<1>4. k # 0
  BY <1>3
<1>5. k - 1 \in Nat /\ k - 1 \notin Over
  BY <1>3, <1>4
<1>6. (k - 1) * (k - 1) <= n
  BY <1>5
<1>7. k - 1 <= (k - 1) * (k - 1) \/ k = 1
  BY <1>5
<1>8. (k - 1) + 1 = k /\ k * k > n
  BY <1>3
<1> DEFINE IsRoot(r) == r * r <= n /\ (r + 1) * (r + 1) > n
<1>9. k - 1 \in 0..n /\ IsRoot(k - 1)
  BY <1>3, <1>5, <1>6, <1>7, <1>8
<1>10. E!SquareRoot(n) = CHOOSE r \in 0..n : IsRoot(r)
  BY DEF E!SquareRoot
<1>11. 0..n \subseteq Nat
  OBVIOUS
<1> HIDE DEF IsRoot
<1> QED
  BY <1>9, <1>10, <1>11

\* Features of a book with whole prices.
Whole(f) == f.bid \in Int /\ f.ask \in Int /\ f.depth \in Int

\* The cost of a trade is an integer.
LEMMA CostIsInt ==
  ASSUME NEW f, Whole(f)
  PROVE  CostBps(f) \in Int
<1>1. CASE ~E!HasBook(f)
  BY <1>1 DEF CostBps
<1>2. CASE E!HasBook(f)
  <2>1. E!Mid(f) \in Nat /\ E!Mid(f) > 0 /\ f.bid \in Int /\ f.ask \in Int /\ f.depth \in Int
    BY <1>2 DEF Whole, E!Mid, E!HasBook
  <2>2. E!HalfSpreadBps(f) \in Int
    BY <2>1 DEF E!HalfSpreadBps
  <2>3. E!LargerOf(1, f.depth * E!Mid(f)) \in Nat \ {0}
    <3>1. f.depth * E!Mid(f) \in Int
      BY <2>1
    <3> QED
      BY <3>1 DEF E!LargerOf
  <2>4. E!SmallerOf(250000, (250000 * 200) \div E!LargerOf(1, f.depth * E!Mid(f))) \in Nat
    <3>1. ASSUME NEW d \in Nat \ {0} PROVE (250000 * 200) \div d \in Nat
      OBVIOUS
    <3>2. (250000 * 200) \div E!LargerOf(1, f.depth * E!Mid(f)) \in Nat
      BY <2>3, <3>1
    <3> QED
      BY <3>2 DEF E!SmallerOf
  <2>5. E!ImpactBps(f) \in Int
    BY <2>4, RootIsWhole DEF E!ImpactBps
  <2> QED
    BY <1>2, <2>2, <2>5 DEF CostBps
<1> QED
  BY <1>1, <1>2

-----------------------------------------------------------------------------
(* Filling gaps leaves prices integers and books sequences of books.       *)

\* The rows with a price are a history of integers.
LEMMA AnchorsTyped ==
  ASSUME NEW s, PriceRows(s)
  PROVE  PriceRows(Anchors(s))
<1> DEFINE S == {t \in DOMAIN s : s[t] > 0}
<1>1. IsFiniteSet(S) /\ S \subseteq Nat /\ \A t \in S : s[t] \in Int
  BY FS_Subset DEF PriceRows, History
<1>2. DOMAIN Anchors(s) = S /\ \A t \in S : Anchors(s)[t] = s[t]
  BY DEF Anchors, Restrict
<1> HIDE DEF S
<1> QED
  BY <1>1, <1>2 DEF PriceRows, History

\* A price made up is an integer.
LEMMA SynthTyped ==
  ASSUME NEW s, PriceRows(s), NEW t \in Int
  PROVE  SynthAt(s, t) \in Int
<1> DEFINE left  == {u \in DOMAIN s : u <= t}
           right == {u \in DOMAIN s : u > t}
           l     == Max(left)
           r     == Min(right)
           slope == (t - l) * (s[r] - s[l])
<1>1. left \in SUBSET Nat /\ IsFiniteSet(left) /\ right \in SUBSET Nat /\ IsFiniteSet(right)
  BY FS_Subset DEF PriceRows, History
<1>2. ASSUME left # {} PROVE l \in left /\ l \in Int /\ s[l] \in Int
  <2>1. l \in left
    BY <1>1, <1>2, MaxMin
  <2> QED
    BY <1>1, <2>1 DEF PriceRows
<1>3. ASSUME right # {} PROVE r \in right /\ r \in Int /\ s[r] \in Int
  <2>1. r \in right
    BY <1>1, <1>3, MaxMin
  <2> QED
    BY <1>1, <2>1 DEF PriceRows
<1>4. SynthAt(s, t) =
        IF left # {} /\ right # {} /\ r - l <= MaxGap
        THEN s[l] + slope \div (r - l)
        ELSE IF left # {} /\ t - l <= HoldMax THEN s[l]
        ELSE IF right # {} /\ r - t <= HoldMax THEN s[r] ELSE NoMid
  BY DEF SynthAt
<1>5. ASSUME left # {}, right # {} PROVE s[l] + slope \div (r - l) \in Int
  <2>1. r - l \in Nat \ {0}
    BY <1>2, <1>3, <1>5
  <2>2. slope \in Int
    BY <1>2, <1>3, <1>5
  <2> HIDE DEF slope, l, r
  <2>3. slope \div (r - l) \in Int
    BY <2>1, <2>2
  <2> QED
    BY <1>2, <1>5, <2>3
<1> HIDE DEF left, right, l, r, slope
<1> QED
  BY <1>2, <1>3, <1>4, <1>5 DEF NoMid

\* A filled series is a history of integers.
LEMMA FilledTyped ==
  ASSUME NEW s, PriceRows(s)
  PROVE  PriceRows(FillPrices(s))
<1> DEFINE a == Anchors(s)
           D == DOMAIN a \cup MadeUp(a)
<1>1. PriceRows(a)
  BY AnchorsTyped
<1> HIDE DEF a
<1>2. DecisionTimes \in SUBSET Nat /\ IsFiniteSet(DecisionTimes)
  <2>1. MaxHorizon \in Nat /\ End \in Nat /\ Lookback \in Nat /\ Day \in Nat
        /\ MaxHorizon + Lookback + Day <= End
    BY TimesAreNat, BacktestAssumption
  <2>2. FirstTime \in Nat /\ End - MaxHorizon \in Int
    BY <2>1 DEF FirstTime
  <2> QED
    BY <2>2, FS_Interval DEF DecisionTimes
<1>3. MadeUp(a) \in SUBSET DecisionTimes
  BY DEF MadeUp
<1>4. IsFiniteSet(D) /\ D \subseteq Nat
  <2>1. IsFiniteSet(MadeUp(a)) /\ IsFiniteSet(DOMAIN a) /\ DOMAIN a \subseteq Nat
    BY <1>1, <1>2, <1>3, FS_Subset DEF PriceRows, History
  <2> QED
    BY <1>2, <1>3, <2>1, FS_Union
<1>5. FillPrices(s) = [t \in D |-> IF t \in DOMAIN a THEN a[t] ELSE SynthAt(a, t)]
  BY DEF FillPrices, a
<1>6. ASSUME NEW t \in D PROVE FillPrices(s)[t] \in Int
  <2>1. t \in Int
    BY <1>4
  <2>2. FillPrices(s)[t] = IF t \in DOMAIN a THEN a[t] ELSE SynthAt(a, t)
    BY <1>5
  <2>3. t \in DOMAIN a => a[t] \in Int
    BY <1>1 DEF PriceRows
  <2> QED
    BY <1>1, <2>1, <2>2, <2>3, SynthTyped
<1>7. DOMAIN FillPrices(s) = D
  BY <1>5
<1> HIDE DEF D
<1> QED
  BY <1>4, <1>6, <1>7 DEF PriceRows, History

\* What is so at first and stays so is always so.
LEMMA StaysIn ==
  ASSUME NEW n \in Nat, NEW X, NEW c, c[0] \in X, \A k \in 1..n : c[k - 1] \in X => c[k] \in X
  PROVE  \A k \in 0..n : c[k] \in X
<1> DEFINE G == {k \in 0..n : c[k] \in X}
<1>1. G \in SUBSET (0..n) /\ 0 \in G
  OBVIOUS
<1>2. \A k \in 1..n : k - 1 \in G => k \in G
  OBVIOUS
<1> HIDE DEF G
<1>3. G = 0..n
  BY <1>1, <1>2, ReachesAll
<1> QED
  BY <1>3 DEF G

\* The bounds of the search stay inside the slice.
Bounds(n) == [i : 0..n, j : 0..n]

\* One step of the search keeps the bounds inside.
LEMMA BisectTyped ==
  ASSUME NEW bs, NEW t, NEW n \in Nat, NEW at \in Bounds(n)
  PROVE  Bisect(bs, t, at) \in Bounds(n)
<1> DEFINE h == (at.i + at.j) \div 2
<1>1. at.i \in 0..n /\ at.j \in 0..n
  BY DEF Bounds
<1>2. at.i < at.j => h \in 0..n /\ h + 1 \in 0..n
  BY <1>1
<1>3. Bisect(bs, t, at) = IF at.i >= at.j THEN at
        ELSE IF bs[h + 1].time > t THEN [at EXCEPT !.j = h] ELSE [at EXCEPT !.i = h + 1]
  BY DEF Bisect
<1> HIDE DEF h
<1> QED
  BY <1>1, <1>2, <1>3 DEF Bounds

\* The search ends at a book, or at 0.
LEMMA LastBookTyped ==
  ASSUME NEW bs \in Seq(Books), NEW t
  PROVE  LastBook(bs, t) \in 0..Len(bs)
<1> DEFINE n == Len(bs)
           base == [i |-> 0, j |-> n]
           Is(f) == f = [k \in 0..n |-> IF k = 0 THEN [i |-> 0, j |-> n]
                                        ELSE Bisect(bs, t, f[k - 1])]
           step == [k \in 1..n |-> [at \in Bounds(n) |-> Bisect(bs, t, at)]]
<1>1. n \in Nat
  OBVIOUS
<1>2. base \in Bounds(n)
  BY <1>1 DEF Bounds
<1>3. step \in [1..n -> [Bounds(n) -> Bounds(n)]]
  BY <1>1, BisectTyped
<1>4. PICK f : IsIteration(f, n, Bounds(n), base, step)
  <2> HIDE DEF step, n, base
  <2> QED
    BY <1>1, <1>2, <1>3, Iterates
<1>5. \A k \in 1..n : f[k] = Bisect(bs, t, f[k - 1])
  <2>1. ASSUME NEW k \in 1..n PROVE f[k] = Bisect(bs, t, f[k - 1])
    <3>1. k - 1 \in 0..n /\ f[k - 1] \in Bounds(n)
      BY <1>1, <1>4 DEF IsIteration
    <3> QED
      BY <1>4, <3>1 DEF IsIteration
  <2> QED
    BY <2>1
<1>6. Is(f)
  <2>1. ASSUME NEW k \in 0..n
        PROVE  f[k] = IF k = 0 THEN base ELSE Bisect(bs, t, f[k - 1])
    <3>1. CASE k = 0
      <4> HIDE DEF base, n
      <4> QED
        BY <1>4, <3>1 DEF IsIteration
    <3>2. CASE k # 0
      <4>1. k \in 1..n
        BY <1>1, <3>2
      <4> QED
        BY <1>5, <3>2, <4>1
    <3> QED
      BY <3>1, <3>2
  <2>2. f = [k \in 0..n |-> f[k]]
    BY <1>4 DEF IsIteration
  <2> QED
    BY <2>1, <2>2
<1> DEFINE c == CHOOSE f_ : Is(f_)
<1>7. LastBook(bs, t) = c[n].i
  BY DEF LastBook
<1>8. Is(c)
  BY <1>6
<1>9. c[0] = base /\ \A k \in 1..n : c[k] = Bisect(bs, t, c[k - 1])
  <2>1. \A k \in 0..n : c[k] = IF k = 0 THEN base ELSE Bisect(bs, t, c[k - 1])
    BY <1>8
  <2> HIDE DEF c
  <2> QED
    BY <1>1, <2>1
<1> HIDE DEF c, Is, base, step
<1>10. \A k \in 1..n : c[k - 1] \in Bounds(n) => c[k] \in Bounds(n)
  BY <1>1, <1>9, BisectTyped
<1>11. c[n] \in Bounds(n)
  <2> HIDE DEF n
  <2>1. \A k \in 0..n : c[k] \in Bounds(n)
    BY <1>1, <1>2, <1>9, <1>10, StaysIn
  <2> QED
    BY <1>1, <2>1
<1> QED
  BY <1>7, <1>11 DEF Bounds

\* A book made up is a book.
LEMMA SynthBookTyped ==
  ASSUME NEW bs \in Seq(Books), NEW t \in Int, NEW mid \in Int
  PROVE  SynthBook(bs, t, mid) \in Books
<1> DEFINE last   == LastBook(bs, t)
           recent == last > 0 /\ t - bs[last].time <= BookReuseMax
           wide   == IF recent /\ bs[last].ask > bs[last].bid THEN bs[last].ask - bs[last].bid
                     ELSE 0
           deep   == recent /\ bs[last].depth > 0
           low    == (mid - wide) \div 2
           bid    == E!LargerOf(1, low)
           ask    == E!LargerOf(bid, E!SmallerOf(99, mid - low))
           depth  == IF deep THEN bs[last].depth ELSE 100
           bids   == IF deep THEN bs[last].bids ELSE 50
<1>1. recent => bs[last] \in Books
  <2>1. last \in 0..Len(bs)
    BY LastBookTyped
  <2> QED
    BY <2>1
<1>2. depth \in Int /\ bids \in Int /\ wide \in Int
  BY <1>1 DEF Books
<1>3. SynthBook(bs, t, mid) =
        [time |-> t, source |-> "synth", depth |-> depth, bids |-> bids, bid |-> bid, ask |-> ask]
  BY DEF SynthBook
<1> HIDE DEF depth, bids, wide
<1>4. low \in Int /\ mid - low \in Int
  BY <1>2
<1> HIDE DEF low
<1>5. bid \in Int /\ ask \in Int
  BY <1>4 DEF E!LargerOf, E!SmallerOf
<1> HIDE DEF bid, ask
<1> QED
  BY <1>2, <1>3, <1>5 DEF Books

\* Dropping the books with a side missing leaves books.
LEMMA QuotedTyped ==
  ASSUME NEW bs \in Seq(Books)
  PROVE  Quoted(bs) \in Seq(Books)
<1> DEFINE S == {i \in DOMAIN bs : bs[i].bid > 0 /\ bs[i].ask > 0}
           n == Cardinality(S)
<1>1. IsFiniteSet(DOMAIN bs) /\ DOMAIN bs \subseteq Int
  <2>1. Len(bs) \in Nat /\ DOMAIN bs = 1..Len(bs)
    OBVIOUS
  <2> QED
    BY <2>1, FS_Interval
<1>2. S \in SUBSET Int /\ IsFiniteSet(S) /\ n \in Nat
  BY <1>1, FS_Subset, FS_CardinalityType
<1>3. DOMAIN InOrder(S) = 1..n /\ \A k \in 1..n : InOrder(S)[k] \in S
  BY <1>2, InOrderIn
<1>4. Quoted(bs) = [k \in 1..n |-> bs[InOrder(S)[k]]]
  BY <1>3 DEF Quoted
<1>5. \A k \in 1..n : bs[InOrder(S)[k]] \in Books
  <2>1. \A i \in S : bs[i] \in Books
    OBVIOUS
  <2> QED
    BY <1>3, <2>1
<1> HIDE DEF S, n
<1>6. [k \in 1..n |-> bs[InOrder(S)[k]]] \in Seq(Books)
  BY <1>2, <1>5, IsASeq
<1> QED
  BY <1>4, <1>6

\* Sorting books leaves books: every book has a place of its own.
LEMMA ByTimeTyped ==
  ASSUME NEW bs \in Seq(Books)
  PROVE  ByTime(bs) \in Seq(Books)
<1> DEFINE n == Len(bs)
           D == DOMAIN bs
           upto(i) == {j \in D : bs[j].time < bs[i].time \/ (bs[j].time = bs[i].time /\ j <= i)}
           f == [i \in D |-> Cardinality(upto(i))]
<1>1. n \in Nat /\ D = 1..n /\ IsFiniteSet(D) /\ Cardinality(D) = n
  <2>1. n \in Nat /\ D = 1..n
    OBVIOUS
  <2> QED
    BY <2>1, FS_Interval
<1>2. \A i \in D : i \in Int /\ bs[i].time \in Int /\ bs[i] \in Books
  <2>1. \A i \in D : i \in Int /\ bs[i] \in Books
    OBVIOUS
  <2> QED
    BY <2>1 DEF Books
<1>3. ASSUME NEW i \in D PROVE upto(i) \in SUBSET D /\ i \in upto(i)
  BY <1>2
<1>4. f \in [D -> 1..Cardinality(D)]
  <2>1. ASSUME NEW i \in D PROVE Cardinality(upto(i)) \in 1..Cardinality(D)
    BY <1>1, <1>3, PlaceOf
  <2> QED
    BY <2>1
<1>5. ASSUME NEW i \in D, NEW j \in D,
             bs[i].time < bs[j].time \/ (bs[i].time = bs[j].time /\ i < j)
      PROVE  Cardinality(upto(i)) # Cardinality(upto(j))
  <2>1. upto(i) \in SUBSET (upto(j) \ {j})
    <3>1. ASSUME NEW k \in upto(i) PROVE k \in upto(j) \ {j}
      <4>1. k \in D /\ (bs[k].time < bs[i].time \/ (bs[k].time = bs[i].time /\ k <= i))
        OBVIOUS
      <4>2. /\ k \in Int /\ i \in Int /\ j \in Int
            /\ bs[k].time \in Int /\ bs[i].time \in Int /\ bs[j].time \in Int
        BY <1>2, <4>1
      <4>3. k # j /\ (bs[k].time < bs[j].time \/ (bs[k].time = bs[j].time /\ k <= j))
        BY ONLY <1>5, <4>1, <4>2
      <4> QED
        BY <4>1, <4>3
    <3> QED
      BY <3>1
  <2>2. upto(j) \in SUBSET D /\ j \in upto(j)
    BY <1>3
  <2> HIDE DEF upto
  <2> QED
    BY <1>1, <2>1, <2>2, PlaceOf
<1>6. \A i, j \in D : f[i] = f[j] => i = j
  <2>1. ASSUME NEW i \in D, NEW j \in D, f[i] = f[j] PROVE i = j
    <3>1. /\ ~(bs[i].time < bs[j].time \/ (bs[i].time = bs[j].time /\ i < j))
          /\ ~(bs[j].time < bs[i].time \/ (bs[j].time = bs[i].time /\ j < i))
      BY <1>5, <2>1
    <3> QED
      BY <1>2, <3>1
  <2> QED
    BY <2>1
<1>7. \A k \in 1..Cardinality(D) : \E i \in D : f[i] = k
  <2>1. IsFiniteSet(D)
    BY <1>1
  <2> HIDE DEF f, upto
  <2> QED
    BY <2>1, <1>4, <1>6, OneToOneIsOnto
<1>8. \A k \in D : (CHOOSE i \in D : Cardinality(upto(i)) = k) \in D
  BY <1>1, <1>7
<1>9. ByTime(bs) = [k \in 1..n |-> bs[CHOOSE i \in D : Cardinality(upto(i)) = k]]
  BY <1>1 DEF ByTime
<1>10. \A k \in 1..n : bs[CHOOSE i \in D : Cardinality(upto(i)) = k] \in Books
  BY <1>1, <1>2, <1>8
<1> HIDE DEF D, upto, n
<1>11. [k \in 1..n |-> bs[CHOOSE i \in D : Cardinality(upto(i)) = k]] \in Seq(Books)
  BY <1>1, <1>10, IsASeq
<1> QED
  BY <1>9, <1>11

\* Adding a book leaves books.
LEMMA AddBookTyped ==
  ASSUME NEW bs \in Seq(Books), NEW s, PriceRows(s), NEW t \in Int
  PROVE  AddBook(bs, s, t) \in Seq(Books)
<1>1. SynthBook(bs, t, MidAsOf(s, t)) \in Books
  BY MidTyped, SynthBookTyped
<1> QED
  BY <1>1 DEF AddBook

\* Filled books are books.
LEMMA FillBooksTyped ==
  ASSUME NEW bs \in Seq(Books), NEW s, PriceRows(s)
  PROVE  FillBooks(bs, s) \in Seq(Books)
<1> DEFINE n == Lookback + 1
           base == Quoted(bs)
           Is(f) == f = [k \in 0..n |-> IF k = 0 THEN Quoted(bs)
                                        ELSE AddBook(f[k - 1], s, FirstTime + k - 1)]
           step == [k \in 1..n |-> [b \in Seq(Books) |-> AddBook(b, s, FirstTime + k - 1)]]
<1>1. n \in Nat /\ \A k \in 1..n : FirstTime + k - 1 \in Int
  BY TimesAreNat, BacktestAssumption
<1>2. base \in Seq(Books)
  BY QuotedTyped
<1>3. step \in [1..n -> [Seq(Books) -> Seq(Books)]]
  BY <1>1, AddBookTyped
<1>4. PICK f : IsIteration(f, n, Seq(Books), base, step)
  <2> HIDE DEF step, n, base
  <2> QED
    BY <1>1, <1>2, <1>3, Iterates
<1>5. \A k \in 1..n : f[k] = AddBook(f[k - 1], s, FirstTime + k - 1)
  <2>1. ASSUME NEW k \in 1..n PROVE f[k] = AddBook(f[k - 1], s, FirstTime + k - 1)
    <3>1. k - 1 \in 0..n /\ f[k - 1] \in Seq(Books)
      BY <1>1, <1>4 DEF IsIteration
    <3> QED
      BY <1>4, <3>1 DEF IsIteration
  <2> QED
    BY <2>1
<1>6. Is(f)
  <2>1. ASSUME NEW k \in 0..n
        PROVE  f[k] = IF k = 0 THEN base ELSE AddBook(f[k - 1], s, FirstTime + k - 1)
    <3>1. CASE k = 0
      <4> HIDE DEF base, n
      <4> QED
        BY <1>4, <3>1 DEF IsIteration
    <3>2. CASE k # 0
      <4>1. k \in 1..n
        BY <1>1, <3>2
      <4> QED
        BY <1>5, <3>2, <4>1
    <3> QED
      BY <3>1, <3>2
  <2>2. f = [k \in 0..n |-> f[k]]
    BY <1>4 DEF IsIteration
  <2> QED
    BY <2>1, <2>2
<1> DEFINE c == CHOOSE f_ : Is(f_)
<1>7. FillBooks(bs, s) = ByTime(c[n])
  BY DEF FillBooks
<1>8. Is(c)
  BY <1>6
<1>9. c[0] = base /\ \A k \in 1..n : c[k] = AddBook(c[k - 1], s, FirstTime + k - 1)
  <2>1. \A k \in 0..n : c[k] = IF k = 0 THEN base ELSE AddBook(c[k - 1], s, FirstTime + k - 1)
    BY <1>8
  <2> HIDE DEF c
  <2> QED
    BY <1>1, <2>1
<1> HIDE DEF c, Is, base, step
<1>10. \A k \in 1..n : c[k - 1] \in Seq(Books) => c[k] \in Seq(Books)
  BY <1>1, <1>9, AddBookTyped
<1>11. c[n] \in Seq(Books)
  <2> HIDE DEF n
  <2>1. \A k \in 0..n : c[k] \in Seq(Books)
    BY <1>1, <1>2, <1>9, <1>10, StaysIn
  <2> QED
    BY <1>1, <2>1
<1> QED
  BY <1>7, <1>11, ByTimeTyped

-----------------------------------------------------------------------------
(* Market points, and the labels of a replay.                              *)

\* A book read as of a time is a book.
LEMMA AsOfTyped ==
  ASSUME NEW bs \in Seq(Books), NEW t \in Int
  PROVE  \A b \in BookAsOf(bs, t) : b \in Books
<1> DEFINE past == {i \in DOMAIN bs : bs[i].time <= t}
<1>1. past \in SUBSET Nat /\ IsFiniteSet(past) /\ \A i \in past : bs[i] \in Books
  <2>1. Len(bs) \in Nat /\ DOMAIN bs = 1..Len(bs)
    OBVIOUS
  <2>2. IsFiniteSet(DOMAIN bs) /\ DOMAIN bs \subseteq Nat
    BY <2>1, FS_Interval
  <2>3. past \in SUBSET (DOMAIN bs)
    OBVIOUS
  <2>4. IsFiniteSet(past)
    BY <2>2, <2>3, FS_Subset
  <2> QED
    BY <2>1, <2>2, <2>3, <2>4
<1>2. past # {} => Max(past) \in past
  BY <1>1, MaxMin
<1>3. \A b \in BookAsOf(bs, t) : past # {} /\ b = bs[Max(past)]
  BY DEF BookAsOf
<1> HIDE DEF past
<1> QED
  BY <1>1, <1>2, <1>3

\* What the sums below need of a market point.
IsPoint(p) == "mid" \in DOMAIN p /\ "f" \in DOMAIN p /\ p.mid \in Int /\ Whole(p.f)

Points(pts) == \A c \in DOMAIN pts : IsPoint(pts[c])

\* The features of a market are whole numbers.
LEMMA FeaturesTyped ==
  ASSUME NEW t, NEW c, NEW s, NEW book, \A b \in book : b \in Books
  PROVE  Whole(FeaturesAsOf(t, c, s, book))
<1>1. book # {} => (CHOOSE b \in book : TRUE) \in Books
  OBVIOUS
<1> DEFINE b == CHOOSE q \in book : TRUE
           f == FeaturesAsOf(t, c, s, book)
<1>2. /\ f.bid = IF book = {} THEN 0 ELSE b.bid
      /\ f.ask = IF book = {} THEN 0 ELSE b.ask
      /\ f.depth = IF book = {} THEN 0 ELSE b.depth
  BY DEF FeaturesAsOf
<1>3. book # {} => b.bid \in Int /\ b.ask \in Int /\ b.depth \in Int
  BY <1>1 DEF Books
<1> HIDE DEF b, f
<1> QED
  BY <1>2, <1>3 DEF Whole, f

\* What is in memory: prices by condition, and books.
SeriesTyped == DOMAIN series \subseteq Conds /\ \A c \in DOMAIN series : PriceRows(series[c])

BooksTyped == \A c \in DOMAIN bookSeries : bookSeries[c] \in Seq(Books)

\* The market points of a time.
LEMMA PointsTyped ==
  ASSUME SeriesTyped, BooksTyped, NEW t \in Int
  PROVE  Points(PointsAt(t, series, bookSeries, runs))
<1>1. ASSUME NEW c \in Live(t, series)
      PROVE  IsPoint(Point(t, c, series, bookSeries, runs))
  <2> DEFINE book == IF c \in DOMAIN bookSeries THEN BookAsOf(bookSeries[c], t) ELSE {}
             p == Point(t, c, series, bookSeries, runs)
  <2>1. MidAsOf(series[c], t) \in Int
    BY MidTyped DEF SeriesTyped, Live
  <2>2. \A b \in book : b \in Books
    BY AsOfTyped DEF BooksTyped
  <2>3. Whole(FeaturesAsOf(t, c, series[c], book))
    <3> HIDE DEF book
    <3> QED
      BY <2>2, FeaturesTyped
  <2>4. /\ "mid" \in DOMAIN p /\ "f" \in DOMAIN p
        /\ p.mid = MidAsOf(series[c], t) /\ p.f = FeaturesAsOf(t, c, series[c], book)
    BY DEF Point
  <2> HIDE DEF p, book
  <2>5. IsPoint(p)
    BY <2>1, <2>3, <2>4 DEF IsPoint
  <2> QED
    BY <2>5 DEF p
<1> QED
  BY <1>1 DEF Points, PointsAt

\* A choice among points is of points.
LEMMA TopNTyped ==
  ASSUME NEW pts, Points(pts), NEW n, NEW key
  PROVE  Points(TopN(pts, n, key))
<1> DEFINE top == TopN(pts, n, key)
<1>1. ASSUME NEW c \in DOMAIN top PROVE IsPoint(top[c])
  <2>1. c \in DOMAIN pts /\ \E k : top[c] = [pts[c] EXCEPT !.rank = k]
    BY DEF TopN
  <2>2. IsPoint(pts[c])
    BY <2>1 DEF Points
  <2>3. PICK k : top[c] = [pts[c] EXCEPT !.rank = k]
    BY <2>1
  <2>4. DOMAIN top[c] = DOMAIN pts[c] /\ top[c].mid = pts[c].mid /\ top[c].f = pts[c].f
    BY <2>2, <2>3 DEF IsPoint
  <2> QED
    BY <2>2, <2>4 DEF IsPoint
<1> QED
  BY <1>1 DEF Points

\* A universe is of points.
LEMMA UniverseTyped ==
  ASSUME NEW pts, Points(pts)
  PROVE  Points(Universe(pts))
BY TopNTyped DEF Universe

\* A board is of points.
LEMMA BoardTyped ==
  ASSUME NEW policy, NEW pts, Points(pts)
  PROVE  Points(BoardOf(policy, pts))
<1>1. Points(CandidateBoard(pts))
  <2> DEFINE S == {c \in DOMAIN pts : ~E!Extreme(pts[c].f)}
  <2>1. DOMAIN Restrict(pts, S) = S /\ \A c \in S : Restrict(pts, S)[c] = pts[c]
    BY DEF Restrict
  <2>2. Points(Restrict(pts, S))
    BY <2>1 DEF Points
  <2> QED
    BY <2>2, TopNTyped DEF CandidateBoard
<1>2. CASE policy = "candidate"
  BY <1>1, <1>2 DEF BoardOf
<1>3. CASE policy # "candidate"
  BY <1>3, TopNTyped DEF BoardOf
<1> QED
  BY <1>2, <1>3

\* The labels of a replay of what is in memory.
Pts(t) == Universe(PointsAt(t, series, bookSeries, runs))

LabelFor(t, policy, h, c) ==
  [time |-> t, horizon |-> h, cond |-> c, policy |-> policy,
   ret |-> Move(policy, c, BoardOf(policy, Pts(t))[c], MidAsOf(series[c], t + h))
             - CostBps(BoardOf(policy, Pts(t))[c].f)]

\* A label is of a decision time, a policy, a horizon and a condition, which determine it,
\* and its return is an integer.
LEMMA LabelTyped ==
  ASSUME SeriesTyped, BooksTyped, NEW t \in DecisionTimes, NEW l \in LabelsAt(t, Pts(t))
  PROVE  /\ \E policy \in Policies, h \in Horizons, c \in Conds : l = LabelFor(t, policy, h, c)
         /\ l.ret \in Int
<1>1. PICK policy \in Policies, h \in Horizons :
        \E c \in DOMAIN BoardOf(policy, Pts(t)) : l = LabelFor(t, policy, h, c)
  <2>1. PICK policy \in Policies, h \in Horizons :
          l \in {[time |-> t, horizon |-> h, cond |-> c, policy |-> policy,
                  ret |-> Move(policy, c, BoardOf(policy, Pts(t))[c], MidAsOf(series[c], t + h))
                            - CostBps(BoardOf(policy, Pts(t))[c].f)] :
                   c \in {d \in DOMAIN BoardOf(policy, Pts(t)) :
                            EndDate[d] = 0 \/ EndDate[d] >= t + h}}
    BY DEF LabelsAt
  <2> QED
    BY <2>1 DEF LabelFor
<1> DEFINE board == BoardOf(policy, Pts(t))
<1>2. PICK c \in DOMAIN board : l = LabelFor(t, policy, h, c)
  BY <1>1
<1>3. t \in Int /\ h \in Int
  BY TimesAreNat, BacktestAssumption
<1>4. IsPoint(board[c])
  BY <1>3, PointsTyped, UniverseTyped, BoardTyped DEF Pts, Points
<1>5. c \in DOMAIN series
  BY BoardAmong, UniverseAmong DEF Pts, Live
<1>6. c \in Conds /\ MidAsOf(series[c], t + h) \in Int
  BY <1>3, <1>5, MidTyped DEF SeriesTyped
<1>7. CostBps(board[c].f) \in Int
  BY <1>4, CostIsInt DEF IsPoint
<1>8. Move(policy, c, board[c], MidAsOf(series[c], t + h)) \in Int
  BY <1>4, <1>6 DEF Move, IsPoint
<1>9. l.ret = Move(policy, c, board[c], MidAsOf(series[c], t + h)) - CostBps(board[c].f)
  BY <1>2 DEF LabelFor
<1>10. l.ret \in Int
  BY ONLY <1>7, <1>8, <1>9
<1> QED
  BY <1>2, <1>6, <1>10

\* The values of a function on a finite set are finitely many.
LEMMA ImageIsFinite ==
  ASSUME NEW S, IsFiniteSet(S), NEW f, DOMAIN f = S, NEW T, \A y \in T : \E x \in S : y = f[x]
  PROVE  IsFiniteSet(T)
<1> DEFINE I == {f[x] : x \in S}
           g == [x \in S |-> f[x]]
<1>1. g \in Surjection(S, I)
  BY DEF Surjection
<1>2. IsFiniteSet(I)
  <2> HIDE DEF g, I
  <2> QED
    BY <1>1, FS_Surjection
<1>3. T \in SUBSET I
  OBVIOUS
<1> HIDE DEF I
<1> QED
  BY <1>2, <1>3, FS_Subset

LabelsTyped == IsFiniteSet(labels) /\ \A l \in labels : l.ret \in Int

\* A replay has finitely many labels, with whole returns.
LEMMA ReplayTyped ==
  ASSUME SeriesTyped, BooksTyped
  PROVE  LET ls == UNION {LabelsAt(t, Pts(t)) : t \in DecisionTimes}
         IN  IsFiniteSet(ls) /\ \A l \in ls : l.ret \in Int
<1> DEFINE ls == UNION {LabelsAt(t, Pts(t)) : t \in DecisionTimes}
           Q == ((DecisionTimes \X Policies) \X Horizons) \X Conds
           f == [q \in Q |-> LabelFor(q[1][1][1], q[1][1][2], q[1][2], q[2])]
<1>1. IsFiniteSet(Q)
  <2>1. IsFiniteSet(DecisionTimes)
    <3>1. FirstTime \in Int /\ End - MaxHorizon \in Int
      BY TimesAreNat, BacktestAssumption
    <3> QED
      BY <3>1, FS_Interval DEF DecisionTimes
  <2>2. IsFiniteSet(Policies)
    <3>1. IsFiniteSet({} \cup {"candidate"})
      BY FS_EmptySet, FS_AddElement
    <3>2. IsFiniteSet(({} \cup {"candidate"}) \cup {"volume_top_n"})
      BY <3>1, FS_AddElement
    <3>3. IsFiniteSet((({} \cup {"candidate"}) \cup {"volume_top_n"}) \cup {"activity_stage1"})
      BY <3>2, FS_AddElement
    <3>4. Policies = (({} \cup {"candidate"}) \cup {"volume_top_n"}) \cup {"activity_stage1"}
      BY DEF Policies
    <3> QED
      BY <3>3, <3>4
  <2>3. IsFiniteSet(DecisionTimes \X Policies)
    BY <2>1, <2>2, FS_Product
  <2>4. IsFiniteSet((DecisionTimes \X Policies) \X Horizons)
    BY <2>3, FS_Product, BacktestAssumption
  <2> QED
    BY <2>4, FS_Product, BacktestAssumption
<1>2. ASSUME NEW l \in ls PROVE l.ret \in Int /\ \E q \in Q : l = f[q]
  <2>1. PICK t \in DecisionTimes : l \in LabelsAt(t, Pts(t))
    OBVIOUS
  <2>2. PICK policy \in Policies, h \in Horizons, c \in Conds : l = LabelFor(t, policy, h, c)
    BY <2>1, LabelTyped
  <2> DEFINE q == <<<<<<t, policy>>, h>>, c>>
  <2>3. q \in Q /\ q[1][1][1] = t /\ q[1][1][2] = policy /\ q[1][2] = h /\ q[2] = c
    OBVIOUS
  <2> HIDE DEF q, Q
  <2>4. f[q] = LabelFor(t, policy, h, c)
    BY <2>3
  <2> QED
    BY <2>1, <2>2, <2>3, <2>4, LabelTyped
<1>3. IsFiniteSet(ls)
  <2>1. DOMAIN f = Q
    OBVIOUS
  <2> HIDE DEF f, Q, ls
  <2> QED
    BY <1>1, <1>2, <2>1, ImageIsFinite
<1> QED
  BY <1>2, <1>3

\* The returns of the periods are integers.
LEMMA ReturnsTyped ==
  ASSUME LabelsTyped
  PROVE  PeriodReturns \in Seq(Int)
<1> DEFINE Of(k) == {l \in Chosen("candidate") : l.time = FirstTime + k - 1}
           Ret(k) == IF Of(k) = {} THEN 0 ELSE (6 * Total(Of(k))) \div Cardinality(Of(k))
<1>1. ASSUME NEW k \in 1..(Lookback + 1) PROVE Ret(k) \in Int
  <2>1. Of(k) \in SUBSET labels
    BY DEF Chosen
  <2> HIDE DEF Of
  <2>2. IsFiniteSet(Of(k)) /\ \A l \in Of(k) : l.ret \in Int
    BY <2>1, FS_Subset DEF LabelsTyped
  <2>3. Total(Of(k)) \in Int
    <3>1. [l \in Of(k) |-> l.ret] \in [Of(k) -> Int]
      BY <2>2
    <3> QED
      BY <2>2, <3>1, SumIsInt DEF Total
  <2>4. Of(k) # {} => Cardinality(Of(k)) \in Nat \ {0}
    BY <2>2, FS_CardinalityType, FS_EmptySet
  <2>5. ASSUME NEW d \in Nat \ {0} PROVE (6 * Total(Of(k))) \div d \in Int
    BY <2>3
  <2> QED
    BY <2>4, <2>5
<1>2. PeriodReturns = [k \in 1..(Lookback + 1) |-> Ret(k)]
  BY DEF PeriodReturns
<1>3. Lookback + 1 \in Nat
  BY BacktestAssumption
<1> HIDE DEF Ret
<1>4. [k \in 1..(Lookback + 1) |-> Ret(k)] \in Seq(Int)
  BY <1>1, <1>3, IsASeq
<1> QED
  BY <1>2, <1>4

-----------------------------------------------------------------------------
(* The drawdown reported.                                                  *)

\* What a run has in memory is typed, and the drawdown is that of the returns.
MemInv ==
  /\ prices \in Histories /\ books \in BookHistories
  /\ SeriesTyped /\ BooksTyped /\ LabelsTyped
  /\ stage = "nothing" => surface.drawdown = MaxDrawdown(PeriodReturns)

\* What is in memory is typed when a run starts.
LEMMA MemInvInit == ASSUME Init PROVE MemInv
<1>1. IsFiniteSet(labels) /\ \A l \in labels : l.ret \in Int
  BY FS_EmptySet DEF Init
<1>2. DOMAIN series = {} /\ DOMAIN bookSeries = {}
  BY DEF Init
<1> QED
  BY <1>1, <1>2 DEF Init, MemInv, SeriesTyped, BooksTyped, LabelsTyped

\* Nothing but the memory matters to its types and to the returns.
LEMMA MemoryStays ==
  ASSUME UNCHANGED <<series, bookSeries, labels>>, SeriesTyped, BooksTyped, LabelsTyped
  PROVE  SeriesTyped' /\ BooksTyped' /\ LabelsTyped' /\ PeriodReturns' = PeriodReturns
<1>1. SeriesTyped' /\ BooksTyped' /\ LabelsTyped'
  BY DEF SeriesTyped, BooksTyped, LabelsTyped
<1>2. labels' = labels
  OBVIOUS
<1>3. PeriodReturns' = PeriodReturns
  BY <1>2 DEF PeriodReturns, Chosen
<1> QED
  BY <1>1, <1>3

\* Filling the gaps keeps the prices and the books typed.
LEMMA FillTyped ==
  ASSUME FillGaps, SeriesTyped, BooksTyped
  PROVE  SeriesTyped' /\ BooksTyped'
<1> DEFINE filled == FilledBooks
<1>1. /\ series' = FilledSeries
      /\ bookSeries' = [c \in DOMAIN bookSeries \cup DOMAIN series |->
                          IF c \in DOMAIN series /\ filled[c] # <<>> THEN filled[c]
                          ELSE StoredBooks(c)]
  BY DEF FillGaps
<1>2. DOMAIN FilledSeries = DOMAIN series
  BY DEF FilledSeries
<1>3. ASSUME NEW c \in DOMAIN series PROVE PriceRows(FilledSeries[c])
  <2>1. FilledSeries[c] = FillPrices(series[c])
    BY DEF FilledSeries
  <2>2. PriceRows(series[c])
    BY DEF SeriesTyped
  <2> QED
    BY <2>1, <2>2, FilledTyped
<1>4. ASSUME NEW c PROVE StoredBooks(c) \in Seq(Books)
  <2>1. CASE c \in DOMAIN bookSeries
    BY <2>1 DEF StoredBooks, BooksTyped
  <2>2. CASE c \notin DOMAIN bookSeries
    BY <2>2 DEF StoredBooks
  <2> QED
    BY <2>1, <2>2
<1>5. ASSUME NEW c \in DOMAIN series PROVE filled[c] \in Seq(Books)
  <2>1. filled[c] = FillBooks(StoredBooks(c), FilledSeries[c])
    BY DEF FilledBooks
  <2> QED
    BY <1>3, <1>4, <2>1, FillBooksTyped
<1> HIDE DEF filled
<1>6. SeriesTyped'
  BY <1>1, <1>2, <1>3 DEF SeriesTyped
<1>7. BooksTyped'
  BY <1>1, <1>4, <1>5 DEF BooksTyped
<1> QED
  BY <1>6, <1>7

\* Every step keeps the memory typed.
LEMMA MemInvStep ==
  ASSUME MemInv, [Next]_vars
  PROVE  MemInv'
<1> USE DEF MemInv
<1>1. CASE Load
  <2>1. /\ series' = LoadPriceSeries /\ bookSeries' = LoadBookSeries
        /\ UNCHANGED <<prices, books, labels>> /\ stage' # "nothing"
    BY <1>1 DEF Load, tables
  <2>2. DOMAIN LoadPriceSeries \subseteq Conds
        /\ \A c \in DOMAIN LoadPriceSeries : PriceRows(LoadPriceSeries[c])
    BY LoadedPricesTyped
  <2>3. \A c \in DOMAIN LoadBookSeries : LoadBookSeries[c] \in Seq(Books)
    BY LoadedBooksTyped
  <2>4. SeriesTyped' /\ BooksTyped'
    BY <2>1, <2>2, <2>3 DEF SeriesTyped, BooksTyped
  <2>5. LabelsTyped'
    BY <2>1 DEF LabelsTyped
  <2> QED
    BY <2>1, <2>4, <2>5
<1>2. CASE FillGaps
  <2>1. UNCHANGED <<prices, books, labels>> /\ stage' # "nothing"
    BY <1>2 DEF FillGaps, tables
  <2>2. SeriesTyped' /\ BooksTyped'
    BY <1>2, FillTyped
  <2>3. LabelsTyped'
    BY <2>1 DEF LabelsTyped
  <2> QED
    BY <2>1, <2>2, <2>3
<1>3. CASE Replay
  <2>1. UNCHANGED <<prices, books, series, bookSeries>> /\ stage' # "nothing"
    BY <1>3 DEF Replay, tables
  <2>2. /\ snaps' = [t \in DecisionTimes |-> Pts(t)]
        /\ labels' = UNION {LabelsAt(t, snaps'[t]) : t \in DecisionTimes}
    BY <1>3 DEF Replay, Pts
  <2>3. labels' = UNION {LabelsAt(t, Pts(t)) : t \in DecisionTimes}
    BY <2>2
  <2>4. LabelsTyped'
    BY <2>3, ReplayTyped DEF LabelsTyped
  <2>5. SeriesTyped' /\ BooksTyped'
    BY <2>1 DEF SeriesTyped, BooksTyped
  <2> QED
    BY <2>1, <2>4, <2>5
<1>4. CASE Gate
  <2>1. /\ UNCHANGED <<prices, books>> /\ UNCHANGED <<series, bookSeries, labels>>
        /\ surface'.drawdown = MaxDrawdown(PeriodReturns)
    BY <1>4 DEF Gate, tables
  <2>2. SeriesTyped' /\ BooksTyped' /\ LabelsTyped' /\ PeriodReturns' = PeriodReturns
    BY <2>1, MemoryStays
  <2>3. MaxDrawdown(PeriodReturns)' = MaxDrawdown(PeriodReturns)
    BY <2>2 DEF MaxDrawdown, Curve
  <2> QED
    BY <2>1, <2>2, <2>3
<1>5. CASE UNCHANGED vars
  <2>1. /\ UNCHANGED <<prices, books>> /\ UNCHANGED <<series, bookSeries, labels>>
        /\ UNCHANGED <<stage, surface>>
    BY <1>5 DEF vars
  <2>2. SeriesTyped' /\ BooksTyped' /\ LabelsTyped' /\ PeriodReturns' = PeriodReturns
    BY <2>1, MemoryStays
  <2>3. MaxDrawdown(PeriodReturns)' = MaxDrawdown(PeriodReturns)
    BY <2>2 DEF MaxDrawdown, Curve
  <2> QED
    BY <2>1, <2>2, <2>3
<1> QED
  BY <1>1, <1>2, <1>3, <1>4, <1>5 DEF Next

\* The drawdown a surface reports is the largest loss of any stretch of consecutive
\* decisions of that run, whatever the tables held and however they were filled
\* (BuildPortfolioMetrics, over the labels of RunBacktest).
THEOREM ReportedDrawdownIsWorst == Spec => []DrawdownIsWorst
<1>1. Init => MemInv
  BY MemInvInit
<1>2. MemInv /\ [Next]_vars => MemInv'
  BY MemInvStep
<1>3. MemInv => DrawdownIsWorst
  <2> SUFFICES ASSUME MemInv, stage = "nothing"
               PROVE  LargestLoss(surface.drawdown, PeriodReturns)
    BY DEF DrawdownIsWorst
  <2>1. PeriodReturns \in Seq(Int)
    BY ReturnsTyped DEF MemInv
  <2>2. LargestLoss(MaxDrawdown(PeriodReturns), PeriodReturns)
    BY <2>1, DrawdownIsLargestLoss
  <2> QED
    BY <2>2 DEF MemInv
<1> QED
  BY <1>1, <1>2, <1>3, PTL DEF Spec

=============================================================================
