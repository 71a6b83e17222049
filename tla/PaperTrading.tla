----------------------------- MODULE PaperTrading -----------------------------
(***************************************************************************)
(* The paper trading of cmd/ws-listener and of what signal-eval makes of   *)
(* it: the simulation of a stored period (PaperSim), the resolutions of    *)
(* markets (Resolution) and the signals (Signals).  They meet in tables    *)
(* only, of which each module takes any content.                           *)
(***************************************************************************)
EXTENDS PaperSim

CONSTANTS
  Markets, Winners, LastStamp, MaxEvents, MaxScans,   \* of Resolution
  Rows, Books, MinEdge, Cooldown, Reissue, Buffer, Scale,
  SlotLimit, GrossLimit, MaxTicks, MaxRestarts        \* of Signals

VARIABLES
  board, scans, meta, pending, desired, resolvedConds, resolvedAssets, late, raced,
  queue, batch, row, missed, newest, events

Res == INSTANCE Resolution

VARIABLES sigMode, now, sigLast, out, inserting, resolved, stored, boot

Sig == INSTANCE Signals WITH
  mode <- sigMode, last <- sigLast, MaxPositions <- SlotLimit, MaxGross <- GrossLimit

ASSUME OneWinner == Res!OneWinner
ASSUME BoardIsScored == Sig!SignalsAssumption

-----------------------------------------------------------------------------
(* Properties.                                                             *)

\* The table ends with the label announced last (Resolution).
LabelsAreKept == Res!LabelsAreKept

\* A resolved market leaves the stream (Resolution).
ResolvedOffStream == Res!ResolvedOffStream

\* Signals of one market and side are spaced (Signals).
SpacedSignals == Sig!SpacedSignals
=============================================================================
