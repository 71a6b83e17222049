------------------------------- MODULE MCPaper -------------------------------
(***************************************************************************)
(* TLC instance of PaperTrading.  So that the product of the three parts   *)
(* stays small, each moves only while the others have not begun.           *)
(***************************************************************************)
EXTENDS PaperTrading, TLC

CONSTANTS c1, c2, c3, m1, yes

ThreeConditions == {c1, c2, c3}
AllModes        == {"strict", "burst", "auction"}
LossAndGain     == {-2, 1}

\* A board of two markets.
R(path, value, urgency) == [path |-> path, value |-> value, urgency |-> urgency]
TwoRows == <<R("fair_value", 50, 0), R("model_edge", 60, 1)>>
ThreeBooks == {[mid |-> 49, cost |-> 20], [mid |-> 49, cost |-> 60], [mid |-> 51, cost |-> 20]}

-----------------------------------------------------------------------------
resVars == <<board, scans, meta, pending, desired, resolvedConds, resolvedAssets, late, raced,
             queue, batch, row, missed, newest, events>>
sigVars == <<sigMode, now, sigLast, out, inserting, resolved, stored, boot>>

NoSimYet        == Init /\ mode = "strict"
NoResolutionYet == Res!Init /\ row[m1].is = "open"
NoSignalYet     == Sig!Init /\ sigMode = "board"

PaperInit == Init /\ Res!Init /\ Sig!Init

PaperNext ==
  \/ NoResolutionYet /\ NoSignalYet /\ Next /\ UNCHANGED <<resVars, sigVars>>
  \/ NoSimYet /\ NoSignalYet /\ Res!Next /\ UNCHANGED <<vars, sigVars>>
  \/ NoSimYet /\ NoResolutionYet /\ Sig!Next /\ UNCHANGED <<vars, resVars>>

PaperSpec == PaperInit /\ [][PaperNext]_<<vars, resVars, sigVars>>

AnyOrder == Permutations(ThreeConditions)
=============================================================================
