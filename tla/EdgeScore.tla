------------------------------ MODULE EdgeScore ------------------------------
(***************************************************************************)
(* The cost-aware score of one market (internal/edge, and the features     *)
(* that edgescan/stage2.go gives it).  Prices are in cents, mids in half   *)
(* cents (bid + ask), so that a half cent is 50 bps of a dollar; divisions *)
(* round down where the code has floats.                                   *)
(*                                                                         *)
(* A feature record holds the best bid and ask (0 when the book has none), *)
(* the shares on the ask side, the one-day move in bps, the share of bids  *)
(* in the depth in percent, the hours left, and the log-scaled volume.     *)
(* Fees are zero.  The scan never fills in the OI change, the order flow   *)
(* or an underlying price, and its snapshots are never older than its      *)
(* clock: the OI and flow families, the external provider and the stale    *)
(* penalty contribute nothing.                                             *)
(***************************************************************************)
EXTENDS Integers, FiniteSets, FiniteSetsExt

CONSTANTS
  Conds,      \* conditions, the numbers 1..n: their order settles ties
  GroupOf,    \* the neg-risk group of each condition, or 0
  Features    \* the feature records markets may have

ASSUME ScoreAssumption ==
  /\ IsFiniteSet(Conds) /\ Conds \subseteq Nat \ {0} /\ GroupOf \in [Conds -> Nat]
  /\ \A f \in Features :
       f.bid \in Nat /\ f.ask \in Nat /\ f.depth \in Nat /\ f.move \in Nat
       /\ f.bids \in 0..100 /\ f.hours \in Int /\ f.volume \in Nat

SmallerOf(a, b) == IF a < b THEN a ELSE b
LargerOf(a, b) == IF a > b THEN a ELSE b
AbsDiff(a, b) == LargerOf(a - b, b - a)

\* The whole part of a square root.
SquareRoot(n) == CHOOSE r \in 0..n : r * r <= n /\ (r + 1) * (r + 1) > n

-----------------------------------------------------------------------------
(* Book and cost.                                                          *)

\* FillBookDerived and ComputeCost: both sides, not crossed.
HasBook(f) == f.bid > 0 /\ f.ask >= f.bid

Mid(f) == f.bid + f.ask

\* IsExtremeMid with the default bounds of 5 and 95 cents.
Extreme(f) == HasBook(f) /\ (Mid(f) < 10 \/ Mid(f) > 190)

HalfSpreadBps(f) == (10000 * (f.ask - f.bid)) \div Mid(f)

\* 50 bps times the root of the probe of 100 USD over the ask depth in USD.
ImpactBps(f) == SquareRoot(SmallerOf(250000, (250000 * 200) \div LargerOf(1, f.depth * Mid(f))))

CostTable == [f \in {g \in Features : HasBook(g)} |-> HalfSpreadBps(f) + ImpactBps(f)]

-----------------------------------------------------------------------------
(* Neg-risk groups.  mids: the mids of the members of a group whose book   *)
(* was fetched, by condition.                                              *)

GroupMids(g, booked, f) ==
  [c \in {d \in booked : g # 0 /\ GroupOf[d] = g /\ HasBook(f[d])} |-> Mid(f[c])]

SumOf(mids, S) == MapThenSumSet(LAMBDA c : mids[c], S)

\* |sum of the mids - 1| in bps, nothing for an incomplete group.
Residual(mids) ==
  IF Cardinality(DOMAIN mids) < 2 THEN 0 ELSE 50 * AbsDiff(SumOf(mids, DOMAIN mids), 200)

NoQuote == -1

Others(c, mids) == {d \in DOMAIN mids \ {c} : mids[d] < 200}

\* One minus the mids of the others, in half cents.
FairValue(c, mids) == LargerOf(2, SmallerOf(198, 200 - SumOf(mids, Others(c, mids))))

\* Coverage of the group in percent, better when its mids add up, worse when far off.
Confidence(c, mids, size) ==
  LET n    == Cardinality(Others(c, mids)) + 1
      seen == (100 * n) \div LargerOf(size, n)
      off  == AbsDiff(SumOf(mids, Others(c, mids)) + mids[c], 200)
  IN  SmallerOf(100, IF c \notin DOMAIN mids THEN seen
                     ELSE IF off < 10 THEN seen + 15
                     ELSE IF off > 50 THEN LargerOf(0, seen - 15) ELSE seen)

\* FVChain.Resolve: the complement, if another leg is there and it is confident.
Quote(c, mids, size) ==
  IF Others(c, mids) # {} /\ Confidence(c, mids, size) >= 40
  THEN FairValue(c, mids) ELSE NoQuote

-----------------------------------------------------------------------------
(* Opportunity and score.                                                  *)

TimeFamily(f) ==
  IF f.hours <= 0 THEN 0
  ELSE IF f.hours < 24 THEN 20
  ELSE IF f.hours < 96 THEN 60
  ELSE IF f.hours <= 504 THEN 100
  ELSE IF f.hours <= 1080 THEN 50 ELSE 25

ImbalanceFamily(f, booked) == IF ~booked \/ f.bids <= 0 THEN 0 ELSE 2 * AbsDiff(f.bids, 50)

\* The weighted families in bps, with the default weights and caps.
Opportunity(f, booked, residual) ==
  (30 * SmallerOf(500, f.move) + 10 * ImbalanceFamily(f, booked) + 15 * TimeFamily(f)
     + 15 * SmallerOf(200, residual) + 10 * SmallerOf(100, f.volume)) \div 100

ModelEdge(c, f, mids, size) == 50 * (Quote(c, mids, size) - Mid(f))

\* Score: a fair value less mid, cost and buffer; else opportunity less cost; and a
\* market without a usable book stays on, 500 bps down.
Score(c, f, booked, mids, size) ==
  IF ~booked \/ ~HasBook(f) THEN Opportunity(f, booked, Residual(mids)) - 500
  ELSE IF Quote(c, mids, size) # NoQuote
       THEN ModelEdge(c, f, mids, size) - CostTable[f] - 20
       ELSE Opportunity(f, booked, Residual(mids)) - CostTable[f]
=============================================================================
