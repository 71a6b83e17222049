------------------------------ MODULE Backtest ------------------------------
(***************************************************************************)
(* One run of edge-eval (internal/eval, internal/datagap): the price, book *)
(* and board history is loaded, optionally filled where it has gaps, the   *)
(* board is chosen again at every decision time from what was known then,  *)
(* each choice is labelled with the price a horizon later, and the gates   *)
(* decide whether the strategy may be promoted.                            *)
(*                                                                         *)
(* Time is counted in ticks of the hourly grid; a market has one token.    *)
(* Prices are in half cents and scores in bps, as in EdgeScore.  A table   *)
(* that could not be read is an empty one.  The random baseline is left    *)
(* out: no gate compares it.  The gates on strata, on the fill model, on   *)
(* the baseline's presence and on documentation are left out as met.  The  *)
(* legs a board row lists are those of its group.                          *)
(***************************************************************************)
EXTENDS Integers, Sequences, FiniteSets, FiniteSetsExt, Functions

CONSTANTS
  Conds,          \* conditions, the numbers 1..n
  Histories,      \* what prices_history may hold: condition -> time -> price
  BookHistories,  \* what orderbook_snapshots may hold: condition -> time -> quote
  BoardHistories, \* what edge_board_snapshots may hold: time -> condition -> [group, volume]
  GroupToday,     \* the group the board of now gives each condition, or 0
  EndDate,        \* when each market ends, or 0
  End,            \* the time of the run
  Lookback, Day,  \* the period replayed, and the window of the features
  Horizons, Primary,
  BoardN, UniverseCap,
  BookAge,        \* the age up to which a stored book is used
  MaxGap, HoldMax, GridStep, BookReuseMax,   \* datagap.Opts
  MinSample, PromoteMaxPct, SignificantPct

\* A table is read as a function from the times it has rows of.
History(s) == IsFiniteSet(DOMAIN s) /\ DOMAIN s \subseteq Nat

IsQuote(b) == b.bid \in Nat /\ b.ask \in Nat /\ b.depth \in Nat /\ b.bids \in 0..100

ASSUME BacktestAssumption ==
  /\ IsFiniteSet(Conds) /\ Conds \subseteq Nat \ {0}
  /\ GroupToday \in [Conds -> Nat] /\ EndDate \in [Conds -> Nat]
  /\ IsFiniteSet(Horizons) /\ Horizons \subseteq Nat \ {0} /\ Primary \in Horizons
  /\ End \in Nat /\ Lookback \in Nat /\ Day \in Nat \ {0} /\ BookAge \in Nat
  /\ BoardN \in Nat \ {0} /\ UniverseCap \in Nat \ {0}
  /\ \A h \in Horizons : h + Lookback + Day <= End
  /\ \A ps \in Histories : \A c \in Conds :
       History(ps[c]) /\ \A t \in DOMAIN ps[c] : ps[c][t] \in Nat
  /\ \A bs \in BookHistories : \A c \in Conds :
       History(bs[c]) /\ \A t \in DOMAIN bs[c] : IsQuote(bs[c][t])
  /\ \A rs \in BoardHistories : History(rs)

E == INSTANCE EdgeScore WITH GroupOf <- GroupToday, Features <- {}

VARIABLES
  prices, books, runs,  \* the tables
  synth,                \* --synth-fill
  stage,                \* what comes next: load, fill, replay, gate, nothing
  rank,                 \* the order in which the universe map was walked
  series, bookSeries,   \* what is in memory: time -> price, and books in order
  quality,              \* points from the venue and synthetic ones, when filled
  snaps,                \* the universe at each decision time: condition -> market point
  labels,
  surface               \* the artifact

vars == <<prices, books, runs, synth, stage, rank, series, bookSeries, quality, snaps, labels,
          surface>>

NoMid == 0

None == [venue |-> 0, made |-> 0, bookVenue |-> 0, bookMade |-> 0]

Blank == [n |-> 0, ok |-> FALSE, lookahead |-> "none", promote |-> FALSE, drawdown |-> 0]

-----------------------------------------------------------------------------
(* Series.                                                                 *)

InOrder(S) == [k \in 1..Cardinality(S) |-> CHOOSE x \in S : Cardinality({y \in S : y <= x}) = k]

\* The samples at or before a time.
Past(s, t) == {u \in DOMAIN s : u <= t}

MidAsOf_MutantNext(s, t) == LET near == {u \in DOMAIN s : u <= t + 1} IN
  IF near = {} THEN NoMid ELSE s[Max(near)]

MidAsOf(s, t) == IF Past(s, t) = {} THEN NoMid ELSE s[Max(Past(s, t))]

\* In bps of the earlier mid.
AbsRet(s, t, window) ==
  LET mid == MidAsOf(s, t - window) IN
  IF mid = NoMid THEN 0 ELSE (10000 * E!AbsDiff(MidAsOf(s, t), mid)) \div mid

Window(s, t) == {u \in Past(s, t) : u > t - Day}

PointCount(s, t) == Cardinality(Window(s, t))

\* The way the mid went inside the window.
PathActivity(s, t) ==
  LET w == Window(s, t) IN
  SumFunction([u \in {v \in w : v > Min(w)} |-> E!AbsDiff(s[u], s[Max({v \in w : v < u})])])

\* BookSeries.AsOf: the last book that is not too old.
BookAsOf(bs, t) ==
  LET past == {i \in DOMAIN bs : bs[i].time <= t} IN
  IF past # {} /\ t - bs[Max(past)].time <= BookAge THEN {bs[Max(past)]} ELSE {}

-----------------------------------------------------------------------------
(* Filling gaps.                                                           *)

MaxHorizon == Max(Horizons)

DecisionTimes_MutantToEnd == (End - Lookback)..End

FirstTime == End - MaxHorizon - Lookback

DecisionTimes == FirstTime..(End - MaxHorizon)

\* synthAt: between two anchors, else the last price, else the next one.
SynthAt(s, t) ==
  LET left  == {u \in DOMAIN s : u <= t}
      right == {u \in DOMAIN s : u > t}
      l     == Max(left)
      r     == Min(right)
  IN  IF left # {} /\ right # {} /\ r - l <= MaxGap
      THEN s[l] + ((t - l) * (s[r] - s[l])) \div (r - l)
      ELSE IF left # {} /\ t - l <= HoldMax THEN s[l]
      ELSE IF right # {} /\ r - t <= HoldMax THEN s[r] ELSE NoMid

\* The decision times without a venue price for which one can be made up.
MadeUp(s) == {t \in DecisionTimes \ DOMAIN s : SynthAt(s, t) # NoMid}

\* The rows with a price.
Anchors(s) == Restrict(s, {t \in DOMAIN s : s[t] > 0})

FillPrices(s) ==
  LET a == Anchors(s)
  IN  [t \in DOMAIN a \cup MadeUp(a) |-> IF t \in DOMAIN a THEN a[t] ELSE SynthAt(a, t)]

\* sort.Search for the last book at or before t, on a slice that need not be in order.
Bisect(bs, t, at) ==
  LET h == (at.i + at.j) \div 2 IN
  IF at.i >= at.j THEN at
  ELSE IF bs[h + 1].time > t THEN [at EXCEPT !.j = h] ELSE [at EXCEPT !.i = h + 1]

LastBook(bs, t) ==
  LET at[k \in 0..Len(bs)] == IF k = 0 THEN [i |-> 0, j |-> Len(bs)] ELSE Bisect(bs, t, at[k - 1])
  IN  at[Len(bs)].i

\* bookCovers: a book at most a step old.
Covered(bs, t) == LastBook(bs, t) > 0 /\ t - bs[LastBook(bs, t)].time <= GridStep

\* The spread of a recent book around the mid, else 25 bps on each side; the floor and
\* the ceiling are the first and the last cent.
SynthBook(bs, t, mid) ==
  LET last   == LastBook(bs, t)
      recent == last > 0 /\ t - bs[last].time <= BookReuseMax
      wide   == IF recent /\ bs[last].ask > bs[last].bid THEN bs[last].ask - bs[last].bid ELSE 0
      deep   == recent /\ bs[last].depth > 0
      low    == (mid - wide) \div 2
      bid    == E!LargerOf(1, low)
  IN  [time |-> t, source |-> "synth",
       depth |-> IF deep THEN bs[last].depth ELSE 100, bids |-> IF deep THEN bs[last].bids ELSE 50,
       bid |-> bid, ask |-> E!LargerOf(bid, E!SmallerOf(99, mid - low))]

ByTime(bs) ==
  LET place(i) == Cardinality({j \in DOMAIN bs :
                    bs[j].time < bs[i].time \/ (bs[j].time = bs[i].time /\ j <= i)})
  IN  [k \in DOMAIN bs |-> bs[CHOOSE i \in DOMAIN bs : place(i) = k]]

\* Stored books with a side missing are dropped.
Quoted(bs) ==
  LET kept == InOrder({i \in DOMAIN bs : bs[i].bid > 0 /\ bs[i].ask > 0})
  IN  [k \in DOMAIN kept |-> bs[kept[k]]]

\* FillBooks: what it makes up is appended, and sorted in only when all is done.
AddBook(bs, s, t) ==
  IF Covered(bs, t) \/ MidAsOf(s, t) = NoMid THEN bs
  ELSE Append(bs, SynthBook(bs, t, MidAsOf(s, t)))

FillBooks(bs, s) ==
  LET filled[k \in 0..(Lookback + 1)] ==
        IF k = 0 THEN Quoted(bs) ELSE AddBook(filled[k - 1], s, FirstTime + k - 1)
  IN  ByTime(filled[Lookback + 1])

Made(bs) == Cardinality({i \in DOMAIN bs : bs[i].source = "synth"})

\* Mix.Add over all tokens.
Mix(ps, bs) ==
  LET venue == SumFunction([c \in DOMAIN series |-> Cardinality(DOMAIN Anchors(series[c]))])
      made  == SumFunction([c \in DOMAIN bs |-> Made(bs[c])])
  IN  [venue |-> venue,
       made |-> SumFunction([c \in DOMAIN ps |-> Cardinality(DOMAIN ps[c])]) - venue,
       bookVenue |-> SumFunction([c \in DOMAIN bs |-> Len(bs[c])]) - made,
       bookMade |-> made]

\* SynthShare compared with a limit in percent, the larger of prices and books.
ShareAbove(q, pct) ==
  100 * q.made > pct * (q.venue + q.made) \/ 100 * q.bookMade > pct * (q.bookVenue + q.bookMade)

ShareAtLeast(q, pct) ==
  \/ q.made > 0 /\ 100 * q.made >= pct * (q.venue + q.made)
  \/ q.bookMade > 0 /\ 100 * q.bookMade >= pct * (q.bookVenue + q.bookMade)

-----------------------------------------------------------------------------
(* The universe at a decision time.                                        *)

\* SnapIndex.LookupCond: the row of the last snapshot so far, if it has one.
LookupCond(rs, t, c) ==
  IF Past(rs, t) # {} /\ c \in DOMAIN rs[Max(Past(rs, t))] THEN {rs[Max(Past(rs, t))][c]} ELSE {}

\* The group of the snapshot, else the one of now.
GroupAt(rs, t, c) ==
  IF \E r \in LookupCond(rs, t, c) : r.group # 0
  THEN (CHOOSE r \in LookupCond(rs, t, c) : TRUE).group ELSE GroupToday[c]

\* The mids of a group of two or more; the others are members by the board of now.
GroupMidsAtT(t, c, ps, rs) ==
  LET g       == GroupAt(rs, t, c)
      members == {d \in DOMAIN ps : (d = c \/ GroupToday[d] = g) /\ MidAsOf(ps[d], t) # NoMid}
  IN  [d \in IF g = 0 \/ Cardinality(members) < 2 THEN {} ELSE members |-> MidAsOf(ps[d], t)]

\* Doublings up to a million, in percent (activityFamily on SeriesActivityProxy).
LogScale(v) == E!SmallerOf(100, 5 * (CHOOSE k \in 0..30 : 2^k <= v + 1 /\ v + 1 < 2^(k + 1)))

\* FeaturesAsOf: windows below an hour reach the sample before this tick.
FeaturesAsOf(t, c, s, book) ==
  [bid   |-> IF book = {} THEN 0 ELSE (CHOOSE b \in book : TRUE).bid,
   ask   |-> IF book = {} THEN 0 ELSE (CHOOSE b \in book : TRUE).ask,
   depth |-> IF book = {} THEN 0 ELSE (CHOOSE b \in book : TRUE).depth,
   bids  |-> IF book = {} THEN 0 ELSE (CHOOSE b \in book : TRUE).bids,
   move  |-> IF AbsRet(s, t, 1) > 0 THEN AbsRet(s, t, 1) ELSE AbsRet(s, t, Day),
   hours |-> IF EndDate[c] = 0 THEN 0 ELSE (24 * (EndDate[c] - t)) \div Day,
   volume |-> LogScale(1000 * PointCount(s, t) + 500 * PathActivity(s, t))]

\* A market point: what the replay knows of c at t.
Point(t, c, ps, bs, rs) ==
  [rank |-> rank[c], mid |-> MidAsOf(ps[c], t),
   f |-> FeaturesAsOf(t, c, ps[c], IF c \in DOMAIN bs THEN BookAsOf(bs[c], t) ELSE {}),
   mids |-> GroupMidsAtT(t, c, ps, rs),
   volume |-> IF \E r \in LookupCond(rs, t, c) : r.volume > 0
              THEN (CHOOSE r \in LookupCond(rs, t, c) : TRUE).volume ELSE PointCount(ps[c], t),
   activity |-> PathActivity(ps[c], t)]

\* Markets with a series and a mid that have not ended.
Live(t, ps) ==
  {c \in DOMAIN ps : (EndDate[c] = 0 \/ EndDate[c] > t) /\ MidAsOf(ps[c], t) # NoMid}

PointsAt(t, ps, bs, rs) == [c \in Live(t, ps) |-> Point(t, c, ps, bs, rs)]

-----------------------------------------------------------------------------
(* Boards and labels.                                                      *)

Higher(k, l) == k[1] > l[1] \/ (k[1] = l[1] /\ k[2] > l[2])

\* A stable sort by key, highest first, cut.
TopN(pts, n, key) ==
  LET place(c) == Cardinality({d \in DOMAIN pts :
                    \/ Higher(key[d], key[c])
                    \/ pts[d].rank <= pts[c].rank /\ ~Higher(key[c], key[d])})
  IN  [c \in {d \in DOMAIN pts : place(d) <= n} |-> [pts[c] EXCEPT !.rank = place(c)]]

Volumes(pts) == [c \in DOMAIN pts |-> <<pts[c].volume, 0>>]

Universe(pts) ==
  IF Cardinality(DOMAIN pts) > UniverseCap THEN TopN(pts, UniverseCap, Volumes(pts)) ELSE pts

CostBps(f) == IF E!HasBook(f) THEN E!HalfSpreadBps(f) + E!ImpactBps(f) ELSE 0

\* Score without residual, which the replay does not compute.
EdgeBps(c, p) ==
  LET booked == E!HasBook(p.f)
      size   == Cardinality(DOMAIN p.mids)
  IN  IF booked /\ E!Quote(c, p.mids, size) # E!NoQuote
      THEN E!ModelEdge(c, p.f, p.mids, size) - CostBps(p.f) - 20
      ELSE E!Opportunity(p.f, booked, 0) - CostBps(p.f) - IF booked THEN 0 ELSE 500

\* SelectBoard.
CandidateBoard(pts) ==
  LET kept == Restrict(pts, {c \in DOMAIN pts : ~E!Extreme(pts[c].f)})
  IN  TopN(kept, BoardN, [c \in DOMAIN kept |-> <<EdgeBps(c, kept[c]), kept[c].volume>>])

Policies == {"candidate", "volume_top_n", "activity_stage1"}

BoardOf(policy, pts) ==
  CASE policy = "candidate"    -> CandidateBoard(pts)
    [] policy = "volume_top_n" -> TopN(pts, BoardN, Volumes(pts))
    [] OTHER                   -> TopN(pts, BoardN, [c \in DOMAIN pts |-> <<pts[c].activity, 0>>])

\* RawMoveBps, against the market when the edge of a candidate is negative.
Move(policy, c, p, out) ==
  IF policy = "candidate" /\ EdgeBps(c, p) < 0 THEN 50 * (p.mid - out) ELSE 50 * (out - p.mid)

\* A choice that outlives its market has no label.
LabelsAt(t, pts) ==
  UNION {LET board == BoardOf(policy, pts) IN
         {[time |-> t, horizon |-> h, cond |-> c, policy |-> policy,
           ret |-> Move(policy, c, board[c], MidAsOf(series[c], t + h)) - CostBps(board[c].f)] :
            c \in {d \in DOMAIN board : EndDate[d] = 0 \/ EndDate[d] >= t + h}} :
         policy \in Policies, h \in Horizons}

-----------------------------------------------------------------------------
(* Metrics and gates.                                                      *)

Chosen(policy) == {l \in labels : l.policy = policy /\ l.horizon = Primary}

Total(ls) == SumFunction([l \in ls |-> l.ret])

\* AfterCostReturnBps of the first above that of the second; none counts as 0.
MeanAbove(a, b) ==
  Total(a) * E!LargerOf(1, Cardinality(b)) > Total(b) * E!LargerOf(1, Cardinality(a))

\* The mean of the candidates of each time, in sixths of a basis point; a time without
\* any adds nothing to the equity.
PeriodReturns ==
  [k \in 1..(Lookback + 1) |->
     LET ls == {l \in Chosen("candidate") : l.time = FirstTime + k - 1}
     IN  IF ls = {} THEN 0 ELSE (6 * Total(ls)) \div Cardinality(ls)]

\* The equity after each return, its peak, and the deepest fall below a peak so far.
Flat == [equity |-> 0, peak |-> 0, worst |-> 0]

AfterReturn_MutantLast(acc, r) ==
  LET equity == acc.equity + r
      peak   == E!LargerOf(acc.peak, equity)
  IN  [equity |-> equity, peak |-> peak, worst |-> peak - equity]

AfterReturn(acc, r) ==
  LET equity == acc.equity + r
      peak   == E!LargerOf(acc.peak, equity)
  IN  [equity |-> equity, peak |-> peak, worst |-> E!LargerOf(acc.worst, peak - equity)]

Curve(returns) ==
  LET curve[k \in 0..Len(returns)] ==
        IF k = 0 THEN Flat ELSE AfterReturn(curve[k - 1], returns[k])
  IN  curve

\* BuildPortfolioMetrics.
MaxDrawdown(returns) == Curve(returns)[Len(returns)].worst

-----------------------------------------------------------------------------
(* The run.                                                                *)

Init ==
  /\ prices \in Histories
  /\ books \in BookHistories
  /\ runs \in BoardHistories
  /\ synth \in BOOLEAN
  /\ stage = "load"
  /\ rank = <<>>
  /\ series = <<>> /\ bookSeries = <<>>
  /\ quality = None
  /\ snaps = <<>>
  /\ labels = {}
  /\ surface = Blank

tables == <<prices, books, runs, synth>>

From == End - Lookback - MaxHorizon - Day

Loaded == From..End

\* The rows of the period, by condition; conditions without any are left out.
LoadPriceSeries ==
  [c \in {d \in Conds : DOMAIN prices[d] \cap Loaded # {}} |->
     [t \in DOMAIN prices[c] \cap Loaded |-> prices[c][t]]]

StoredBook(c, t) ==
  [time |-> t, source |-> "venue", bid |-> books[c][t].bid, ask |-> books[c][t].ask,
   depth |-> books[c][t].depth, bids |-> books[c][t].bids]

LoadBookSeries ==
  [c \in {d \in Conds : DOMAIN books[d] \cap Loaded # {}} |->
     LET times == InOrder(DOMAIN books[c] \cap Loaded)
     IN  [i \in DOMAIN times |-> StoredBook(c, times[i])]]

\* loadUniverse: the top volume and the board, in the order in which a map is walked.
LoadUniverse == Injection(Conds, 1..Cardinality(Conds))

\* Without a single price the surface is empty, and fails for want of a sample.
Load ==
  /\ stage = "load"
  /\ rank' \in LoadUniverse
  /\ series' = LoadPriceSeries
  /\ bookSeries' = LoadBookSeries
  /\ stage' = IF DOMAIN series' = {} THEN "gate" ELSE IF synth THEN "fill" ELSE "replay"
  /\ UNCHANGED <<tables, quality, snaps, labels, surface>>

\* applySynthFill: the prices first, then books around the filled mids.
StoredBooks(c) == IF c \in DOMAIN bookSeries THEN bookSeries[c] ELSE <<>>

FilledSeries == [c \in DOMAIN series |-> FillPrices(series[c])]

FilledBooks == [c \in DOMAIN series |-> FillBooks(StoredBooks(c), FilledSeries[c])]

\* Where nothing is left to fill with, the stored books stay.
FillGaps ==
  /\ stage = "fill"
  /\ series' = FilledSeries
  /\ bookSeries' =
       LET filled == FilledBooks
       IN  [c \in DOMAIN bookSeries \cup DOMAIN series |->
              IF c \in DOMAIN series /\ filled[c] # <<>> THEN filled[c] ELSE StoredBooks(c)]
  /\ quality' = Mix(FilledSeries, FilledBooks)
  /\ stage' = "replay"
  /\ UNCHANGED <<tables, rank, snaps, labels, surface>>

\* The loop over the decision times, and RunBacktest.
Replay ==
  /\ stage = "replay"
  /\ snaps' = [t \in DecisionTimes |-> Universe(PointsAt(t, series, bookSeries, runs))]
  /\ labels' = UNION {LabelsAt(t, snaps'[t]) : t \in DecisionTimes}
  /\ stage' = "gate"
  /\ UNCHANGED <<tables, rank, series, bookSeries, quality, surface>>

\* EvaluateGates: the label protocol is written down by the runner, not found out, and
\* by the configuration when there was nothing to replay.
Gate ==
  LET cand == Chosen("candidate")
      ok   == /\ Cardinality(cand) >= MinSample
              /\ MeanAbove(cand, Chosen("volume_top_n"))
              /\ MeanAbove(cand, Chosen("activity_stage1"))
              /\ ~ShareAbove(quality, PromoteMaxPct)
              /\ ~ShareAtLeast(quality, SignificantPct)
  IN  /\ stage = "gate"
      /\ surface' = [n |-> Cardinality(cand), ok |-> ok, lookahead |-> "passed",
                     promote |-> ok /\ Total(cand) > 0, drawdown |-> MaxDrawdown(PeriodReturns)]
      /\ stage' = "nothing"
      /\ UNCHANGED <<tables, rank, series, bookSeries, quality, snaps, labels>>

Next == Load \/ FillGaps \/ Replay \/ Gate

Spec == Init /\ [][Next]_vars

-----------------------------------------------------------------------------
(* Properties.                                                             *)

\* The history up to t and no further.
UpTo(t, ps) ==
  [c \in {d \in DOMAIN ps : Past(ps[d], t) # {}} |-> Restrict(ps[c], Past(ps[c], t))]

BooksUpTo(t, bs) ==
  [c \in DOMAIN bs |-> Restrict(bs[c], {i \in DOMAIN bs[c] : bs[c][i].time <= t})]

RunsUpTo(t) == Restrict(runs, Past(runs, t))

SeenInTime(t) ==
  snaps[t] = Universe(PointsAt(t, UpTo(t, LoadPriceSeries), BooksUpTo(t, LoadBookSeries),
                               RunsUpTo(t)))

\* Without --synth-fill the universe of a decision time is the one the history up to
\* that time gives: no later price, book or board row comes into it (MidAsOf, AsOf,
\* PointCount, PathActivity, SnapIndex.NearestAtOrBefore).
PointInTime == ~synth => \A t \in DOMAIN snaps : SeenInTime(t)

\* Every window a decision or a label looks at was loaded: the samples of the day before
\* each decision are those of the table, and each label's horizon is over when the run
\* starts and priced by the last row before it (RunDBOnly's from and to, DecisionTimes).
WindowsAreLoaded ==
  ~synth =>
    /\ \A t \in DOMAIN snaps, c \in DOMAIN series :
         PointCount(series[c], t) = PointCount(prices[c], t)
    /\ \A l \in labels :
         /\ l.time + l.horizon <= End
         /\ MidAsOf(series[l.cond], l.time + l.horizon)
              = MidAsOf(prices[l.cond], l.time + l.horizon)

\* The drawdown reported is the largest loss of any stretch of consecutive decisions,
\* however the equity moved before it (BuildPortfolioMetrics).
Gained(returns) ==
  LET gained[k \in 0..Len(returns)] == IF k = 0 THEN 0 ELSE gained[k - 1] + returns[k]
  IN  gained

LargestLoss(worst, returns) ==
  LET n == Len(returns)
      g == Gained(returns)
  IN  /\ \A i, j \in 0..n : i <= j => g[i] - g[j] <= worst
      /\ \E i, j \in 0..n : i <= j /\ g[i] - g[j] = worst

DrawdownIsWorst == stage = "nothing" => LargestLoss(surface.drawdown, PeriodReturns)

\* A book is made up only where no stored book is at most a step old (the comment of
\* datagap/books.go: "adds synthetic BBA at grid times where no book exists
\* at-or-before within reuse window").
MadeUpOnlyInGaps ==
  quality # None =>
    \A c \in DOMAIN bookSeries : \A i, j \in DOMAIN bookSeries[c] :
      LET made  == bookSeries[c][i]
          venue == bookSeries[c][j]
      IN  ~(/\ made.source = "synth" /\ venue.source = "venue"
            /\ venue.time <= made.time /\ made.time - venue.time <= GridStep)

=============================================================================
