---------------------------- MODULE RiskManager ----------------------------
(* internal/risk: the paper portfolio's budget, its drawdown limits and the   *)
(* halt state machine.  One simulation owns a Manager, nothing runs beside it.*)
(*                                                                            *)
(* Money and time are integers, a limit is the fraction of basis points the   *)
(* code compares with (multiplied out, so that nothing is rounded).           *)
(* computeSize is abstracted to "any size up to MaxPosition".  Normalize      *)
(* replaces every non-positive limit by a positive default, hence             *)
(* RiskAssumption.                                                            *)
EXTENDS Integers, FiniteSets, Functions

CONSTANTS
  Conditions,            \* the markets a signal can be about
  StartingEquity,
  MaxPositions,
  MaxGross,
  MaxPosition,
  MinSize,
  MaxDrawdownBps,
  MaxDailyDrawdownBps,
  DayLen                 \* time units in a UTC day

Positive == Nat \ {0}

ASSUME RiskAssumption ==
  /\ StartingEquity \in Positive /\ MaxPositions \in Positive /\ MaxGross \in Positive
  /\ MaxPosition \in Positive /\ MinSize \in Positive
  /\ MaxDrawdownBps \in Positive /\ MaxDailyDrawdownBps \in Positive
  /\ DayLen \in Positive

VARIABLES
  equity, peak, dayOpen, \* Equity, PeakEquity, DayOpenEq
  day,                   \* DayUTC; NoDay before the first time is seen
  state,                 \* State
  positions              \* Positions: condition -> SizeUSD

riskVars == <<equity, peak, dayOpen, day, state, positions>>

NoDay == -1
States == {"OK", "HALTED_DAY", "HALTED_DD"}
DayOf(t) == t \div DayLen

\* Go maps from a condition to something.
IsMap(f, T) == DOMAIN f \subseteq Conditions /\ f \in [DOMAIN f -> T]
Empty == [c \in {} |-> 0]
Without(f, c) == [d \in DOMAIN f \ {c} |-> f[d]]
With(f, c, x) == [d \in DOMAIN f \union {c} |-> IF d = c THEN x ELSE f[d]]

RiskInit ==
  /\ equity = StartingEquity /\ peak = StartingEquity /\ dayOpen = StartingEquity
  /\ day = NoDay
  /\ state = "OK"
  /\ positions = Empty

\* DrawdownBps() >= limit, measured from top.
Breach(top, eq, bps) == top > 0 /\ (top - eq) * 10000 >= bps * top

Total(sizes) == FoldFunction(LAMBDA a, b : a + b, 0, sizes)
GrossExposure == Total(positions)
Full == Cardinality(DOMAIN positions) >= MaxPositions
Room == MaxGross - GrossExposure
BudgetBound == Full \/ Room < MinSize

----------------------------------------------------------------------------
\* maybeRollDay: time t opens a new day, from the equity held before it.
NewDay(t) == DayOf(t) > day
Resumed(t) == IF NewDay(t) /\ state = "HALTED_DAY" THEN "OK" ELSE state
RollDay_MutantKeepsOpen(t) ==
  /\ day' = IF NewDay(t) THEN DayOf(t) ELSE day
  /\ dayOpen' = dayOpen
RollDay(t) ==
  /\ day' = IF NewDay(t) THEN DayOf(t) ELSE day
  /\ dayOpen' = IF NewDay(t) THEN equity ELSE dayOpen

\* checkHalts, on the figures ApplyPnL has just written.
Checked(s) ==
  IF Breach(peak', equity', MaxDrawdownBps) THEN "HALTED_DD"
  ELSE IF Breach(dayOpen', equity', MaxDailyDrawdownBps) /\ s = "OK" THEN "HALTED_DAY"
  ELSE s

\* ApplyPnL: the profit or loss of a trade that ended at time t.
ApplyPnL(pnl, t) ==
  /\ RollDay(t)
  /\ equity' = equity + pnl
  /\ peak' = IF equity' > peak THEN equity' ELSE peak
  /\ state' = Checked(Resumed(t))

OnClose(c, pnl, t) ==
  /\ positions' = Without(positions, c)
  /\ ApplyPnL(pnl, t)

----------------------------------------------------------------------------
\* What Accept does to the manager, whatever it decides.
LookAt(t) ==
  /\ RollDay(t)
  /\ state' = Resumed(t)
  /\ UNCHANGED <<equity, peak>>

\* Accept says yes to size: what computeSize wants, or the room left when it wants more.
Accepts(c, size, t) ==
  /\ Resumed(t) = "OK"
  /\ c \notin DOMAIN positions
  /\ ~Full
  /\ MinSize <= size /\ size <= Room

OnOpen(c, size) ==
  positions' = With(positions, c, size)
=============================================================================
