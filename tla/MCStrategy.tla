----------------------------- MODULE MCStrategy ------------------------------
(***************************************************************************)
(* TLC instance of StrategyLife.  So that the product of the two parts     *)
(* stays small, each moves only while the other has not begun.             *)
(***************************************************************************)
EXTENDS StrategyLife, TLC

CONSTANTS o1, o2

TwoOperators == {o1, o2}

-----------------------------------------------------------------------------
(* What the tables may hold, for two markets of one group.                 *)

Partial(S, R) == UNION {[D -> R] : D \in SUBSET S}

Few   == {<<>>, (1 :> 100) @@ (4 :> 60)}
Quote == [bid |-> 38, ask |-> 42, depth |-> 400, bids |-> 60]

PriceTables == {(1 :> h) @@ (2 :> k) : h \in Partial(1..6, {80, 120}), k \in Few}
BookTables  == {(1 :> b) @@ (2 :> <<>>) : b \in {<<>>, (3 :> Quote) @@ (4 :> Quote)}}
BoardTables == {<<>>, 3 :> ((1 :> [group |-> 1, volume |-> 9])
                            @@ (2 :> [group |-> 1, volume |-> 0]))}

TwoConds    == {1, 2}
NoGroup     == <<0, 1>>
TwoEnds     == <<0, 5>>
TwoHorizons == {1, 2}

-----------------------------------------------------------------------------
NoCommandYet == Reg!Init

\* No run yet, and nothing to run it on.
NoBacktestYet ==
  /\ stage = "load" /\ ~synth /\ runs = <<>>
  /\ \A c \in {1, 2} : prices[c] = <<>> /\ books[c] = <<>>

StrategyNext ==
  \/ NoCommandYet /\ Next /\ UNCHANGED regVars
  \/ NoBacktestYet /\ Reg!Next /\ UNCHANGED vars

StrategyInit == Init /\ Reg!Init

StrategySpec == StrategyInit /\ [][StrategyNext]_<<vars, regVars>>

\* The fairness of StrategyRegistry, for its half of the steps.
FairStrategy ==
  /\ StrategySpec
  /\ \A p \in Operators : WF_<<vars, regVars>>(NoBacktestYet /\ Reg!Step(p) /\ UNCHANGED vars)
  /\ WF_<<vars, regVars>>(NoBacktestYet /\ (\E p \in Operators : Reg!DeadlockVictim(p))
                                       /\ UNCHANGED vars)
=============================================================================
