------------------------------ MODULE PaperSim ------------------------------
(* internal/signaleval: Simulate.  It offers the signals of a period to the   *)
(* risk manager, opens a paper trade for each one accepted, and closes trades *)
(* at their planned exit, at a max-drawdown halt, or at the end.              *)
(*                                                                            *)
(* Signals come strictly one by one, or in windows that are re-ranked by      *)
(* opportunity ("burst", "auction").  A window here is one time per condition *)
(* (dedupeBestPerCondition, on by default) and is offered in any order, since *)
(* the score is data.  Closing walks a Go map, so the trades that are due are *)
(* closed in any order, each at its own planned exit.  The profit of a trade  *)
(* is any member of PnLs: prices and fills are data too.                      *)
(*                                                                            *)
(* Bounds: MaxTime, the time of the last signal; Horizons; PnLs.              *)
EXTENDS RiskManager, Sequences

CONSTANTS
  Modes,                 \* the configurations to explore: "strict", "burst", "auction"
  Window,                \* AllocWindowSec or BatchWindowMs
  Horizons,              \* HorizonSec of a signal
  HorizonDef,            \* DefaultHorizon
  PnLs,
  MaxTime

ASSUME SimAssumption ==
  /\ Modes \subseteq {"strict", "burst", "auction"}
  /\ Window \in Nat /\ MaxTime \in Nat
  /\ Horizons \subseteq Positive /\ HorizonDef \in Positive
  /\ PnLs \subseteq Int

VARIABLES
  mode,                  \* the configuration of this simulation
  window,                \* signals of the window not offered yet: condition -> time
  from, last,            \* when the next window may begin; the latest signal time seen
  sig,                   \* the signal processOne works on, or the end of the period
  phase,                 \* where Simulate is
  trades,                \* trades
  openByCond             \* condition -> index of its open trade

simVars == <<mode, window, from, last, sig, phase, trades, openByCond>>
vars == <<riskVars, simVars>>

Nobody == "nobody"
Phases == {"next", "due", "flatten", "accept", "endDue", "endForce", "done"}
Trade == [cond : Conditions, size : Positive, entry : Nat, exit : Nat,
          pnl : Int, closed : BOOLEAN]

Init ==
  /\ RiskInit
  /\ mode \in Modes
  /\ window = Empty /\ from = 0 /\ last = 0
  /\ sig = [cond |-> Nobody, time |-> 0]
  /\ phase = "next"
  /\ trades = <<>> /\ openByCond = Empty

----------------------------------------------------------------------------
\* The next signal (strict), or every signal within Window of the next one.
Reach(start) == IF mode = "strict" THEN start ELSE start + Window
NextSignals ==
  /\ phase = "next" /\ window = Empty
  /\ \E start \in from .. MaxTime, batch \in SUBSET Conditions :
       /\ mode = "strict" => Cardinality(batch) = 1
       /\ \E times \in [batch -> start .. Reach(start)] :
            /\ \E c \in batch : times[c] = start
            /\ \E c \in batch : /\ \A d \in batch : times[d] <= times[c]
                                /\ times[c] <= MaxTime
                                /\ last' = times[c]
            /\ window' = times
       /\ from' = IF mode = "strict" THEN start ELSE start + Window + 1
  /\ UNCHANGED <<riskVars, mode, sig, phase, trades, openByCond>>

\* Auction: the budget is found bound, so this signal is outranked.  (A halted manager
\* is never "bound": its signals go through processOne and are refused there.)
Bound == mode = "auction" /\ state = "OK" /\ BudgetBound
Outrank(c) ==
  /\ phase = "next" /\ c \in DOMAIN window /\ Bound
  /\ window' = Without(window, c)
  /\ UNCHANGED <<riskVars, mode, from, last, sig, phase, trades, openByCond>>

\* processOne begins.
Offer(c) ==
  /\ phase = "next" /\ c \in DOMAIN window /\ ~Bound
  /\ sig' = [cond |-> c, time |-> window[c]]
  /\ window' = Without(window, c)
  /\ phase' = "due"
  /\ UNCHANGED <<riskVars, mode, from, last, trades, openByCond>>

----------------------------------------------------------------------------
Due(c) == trades[openByCond[c]].exit <= sig.time

\* closeTrade: the trade of condition c ends at time t with some profit or loss.
CloseTrade_MutantKeepsMap(c, t) ==
  \E pnl \in PnLs :
    /\ OnClose(c, pnl, t)
    /\ trades' = [trades EXCEPT ![openByCond[c]] =
                    [@ EXCEPT !.exit = t, !.pnl = pnl, !.closed = TRUE]]
    /\ openByCond' = openByCond
CloseTrade(c, t) ==
  \E pnl \in PnLs :
    /\ OnClose(c, pnl, t)
    /\ trades' = [trades EXCEPT ![openByCond[c]] =
                    [@ EXCEPT !.exit = t, !.pnl = pnl, !.closed = TRUE]]
    /\ openByCond' = Without(openByCond, c)

\* closeDue: one more trade that is due, at its planned exit.
CloseDue_MutantEarly(c) ==
  /\ phase \in {"due", "endDue"} /\ c \in DOMAIN openByCond
  /\ trades[openByCond[c]].exit <= sig.time + 1
  /\ CloseTrade(c, trades[openByCond[c]].exit)
  /\ UNCHANGED <<mode, window, from, last, sig, phase>>
CloseDue(c) ==
  /\ phase \in {"due", "endDue"} /\ c \in DOMAIN openByCond
  /\ Due(c)
  /\ CloseTrade(c, trades[openByCond[c]].exit)
  /\ UNCHANGED <<mode, window, from, last, sig, phase>>

\* closeDue has been through the map; ShouldFlattenAll decides what follows.
DueClosed ==
  /\ phase = "due" /\ \A c \in DOMAIN openByCond : ~Due(c)
  /\ phase' = IF state = "HALTED_DD" THEN "flatten" ELSE "accept"
  /\ UNCHANGED <<riskVars, mode, window, from, last, sig, trades, openByCond>>

\* flattenAll, and the forced close at the end: everything that is open ends now.
CloseNow(c) ==
  /\ phase \in {"flatten", "endForce"} /\ c \in DOMAIN openByCond
  /\ CloseTrade(c, sig.time)
  /\ UNCHANGED <<mode, window, from, last, sig, phase>>
Flattened ==
  /\ phase = "flatten" /\ openByCond = Empty
  /\ phase' = "accept"
  /\ UNCHANGED <<riskVars, mode, window, from, last, sig, trades, openByCond>>

----------------------------------------------------------------------------
\* Accept says no, or it says yes and there is no mid to fill at.
Reject ==
  /\ phase = "accept"
  /\ LookAt(sig.time)
  /\ phase' = "next"
  /\ UNCHANGED <<positions, mode, window, from, last, sig, trades, openByCond>>

\* Accept says yes: the trade is recorded, and the manager is told.
Open ==
  /\ phase = "accept"
  /\ \E size \in MinSize .. MaxPosition, horizon \in Horizons :
       /\ Accepts(sig.cond, size, sig.time)
       /\ LookAt(sig.time)
       /\ trades' = Append(trades, [cond |-> sig.cond, size |-> size,
                                    entry |-> sig.time, exit |-> sig.time + horizon,
                                    pnl |-> 0, closed |-> FALSE])
       /\ openByCond' = With(openByCond, sig.cond, Len(trades) + 1)
       /\ OnOpen(sig.cond, size)
  /\ phase' = "next"
  /\ UNCHANGED <<mode, window, from, last, sig>>

----------------------------------------------------------------------------
\* No signals are left: close what is due by the end, force the rest.
EndBegins ==
  /\ phase = "next" /\ window = Empty
  /\ sig' = [cond |-> Nobody, time |-> last + HorizonDef]
  /\ phase' = "endDue"
  /\ UNCHANGED <<riskVars, mode, window, from, last, trades, openByCond>>
EndDueClosed ==
  /\ phase = "endDue" /\ \A c \in DOMAIN openByCond : ~Due(c)
  /\ phase' = "endForce"
  /\ UNCHANGED <<riskVars, mode, window, from, last, sig, trades, openByCond>>
Done ==
  /\ phase = "endForce" /\ openByCond = Empty
  /\ phase' = "done"
  /\ UNCHANGED <<riskVars, mode, window, from, last, sig, trades, openByCond>>

Next ==
  \/ NextSignals \/ DueClosed \/ Flattened \/ Reject \/ Open
  \/ EndBegins \/ EndDueClosed \/ Done
  \/ \E c \in Conditions : Outrank(c) \/ Offer(c) \/ CloseDue(c) \/ CloseNow(c)

Spec == Init /\ [][Next]_vars

----------------------------------------------------------------------------
TypeOK ==
  /\ equity \in Int /\ peak \in Int /\ dayOpen \in Int
  /\ day \in Nat \union {NoDay}
  /\ state \in States
  /\ IsMap(positions, Positive)
  /\ mode \in Modes
  /\ IsMap(window, Nat)
  /\ from \in Nat /\ last \in Nat
  /\ sig \in [cond : Conditions \union {Nobody}, time : Nat]
  /\ phase \in Phases
  /\ trades \in Seq(Trade)
  /\ IsMap(openByCond, 1 .. Len(trades))

\* The manager's positions, the simulation's index and the trades that are not closed
\* are three views of one book, at every step: no position is without a trade that will
\* close it, none is counted after its trade ended.
BooksAgree ==
  /\ DOMAIN positions = DOMAIN openByCond
  /\ \A c \in DOMAIN openByCond :
       LET i == openByCond[c] IN
       i \in DOMAIN trades /\ trades[i].cond = c /\ ~trades[i].closed
                           /\ trades[i].size = positions[c]
  /\ \A i \in DOMAIN trades : ~trades[i].closed =>
       trades[i].cond \in DOMAIN openByCond /\ openByCond[trades[i].cond] = i

\* A halt is never late or lost: while the manager says OK, equity is within both limits,
\* whatever order the exits and the day changes came in.
OKMeansWithinLimits == state = "OK" =>
  /\ ~Breach(peak, equity, MaxDrawdownBps)
  /\ ~Breach(dayOpen, equity, MaxDailyDrawdownBps)

\* The max-drawdown halt is for ever: no new day lifts it and no trade is opened under it.
HaltIsFinal ==
  [][state = "HALTED_DD" => state' = "HALTED_DD" /\ Len(trades') = Len(trades)]_vars

\* Nothing is held when the next signal is judged under the max-drawdown halt, nor when
\* the simulation is over, whatever horizons the trades had.
FlatWhenItMust ==
  (state = "HALTED_DD" /\ phase = "accept") \/ phase = "done" => positions = Empty

\* The budget is kept, however many signals are accepted between two closes: in the
\* manager's own view at every step, and in simulated time when the order is strict (a
\* re-ranked window may open a trade before the exit that made room for it).
Spanning(t) == {i \in DOMAIN trades : trades[i].entry <= t /\ t < trades[i].exit}
BudgetHolds ==
  /\ Cardinality(DOMAIN positions) <= MaxPositions /\ GrossExposure <= MaxGross
  /\ mode = "strict" => \A t \in 0 .. MaxTime :
       /\ Cardinality(Spanning(t)) <= MaxPositions
       /\ Total([i \in Spanning(t) |-> trades[i].size]) <= MaxGross
=============================================================================
