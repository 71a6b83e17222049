---------------------------- MODULE StrategyLife -----------------------------
(***************************************************************************)
(* The life of a strategy: the backtest that decides whether it may be     *)
(* promoted (Backtest), and the registry that promotes versions whose      *)
(* surface passed (StrategyRegistry, whose Eligible is what the backtest   *)
(* answers).  The two share no state: a surface is a file.                 *)
(***************************************************************************)
EXTENDS Backtest

CONSTANTS Operators, MaxVersions, Eligible, MaxCommands   \* of StrategyRegistry

VARIABLES status, active, prev, moves, issued, pc, cmd, target, from, rows, overtaken, overwritten

Reg == INSTANCE StrategyRegistry

regVars == <<status, active, prev, moves, issued, pc, cmd, target, from, rows, overtaken,
             overwritten>>

ASSUME VersionsExist   == Reg!RegistryAssumption
ASSUME OperatorsFinite == IsFiniteSet(Operators)

-----------------------------------------------------------------------------
(* Properties.                                                             *)

\* The pointer's version is the active one, until a status is overwritten
\* (StrategyRegistry).
AgreesUnlessOverwritten == Reg!AgreesUnlessOverwritten

\* The audit trail ends at the live version (StrategyRegistry).
AuditNamesActive == Reg!AuditNamesActive

\* A rollback makes live the version before, unless it was overtaken (StrategyRegistry).
RollbackRestoresPrev == Reg!RollbackRestoresPrev

\* Every command of a live process ends (StrategyRegistry).
CommandsEnd == Reg!CommandsEnd
=============================================================================
