------------------------------- MODULE EdgeScan -------------------------------
(***************************************************************************)
(* The edge scan: RunCycle of edgescan/cycle.go with its two cuts          *)
(* (SelectStage1, BuildEdgeBoard), ReplaceEdgeBoard and the board history, *)
(* run by the processes of cmd/edge-scan that share one strategy's board:  *)
(* a daemon, and one started with -once beside it.                         *)
(*                                                                         *)
(* A cycle touches shared state when it loads the sticky set and when it   *)
(* writes: fetching, scoring and cutting are one step.  What a market is   *)
(* listed with may change from cycle to cycle; a condition may be listed   *)
(* by two events.  The prices stage is in PriceHistory.                    *)
(***************************************************************************)
EXTENDS EdgeScore, TLC

CONSTANTS
  Scanners,     \* the processes
  Listings,     \* how a condition may be listed: [times, act, f]
  Stage1MaxN, BoardMaxN, ExpandCap,
  MaxRuns       \* bound: cycles, over all scanners

ASSUME ScanAssumption ==
  /\ \A l \in Listings : l.times \in 0..2 /\ l.act \in Nat /\ l.f \in Features
  /\ BoardMaxN \in Nat \ {0} /\ Stage1MaxN \in Nat /\ Stage1MaxN >= BoardMaxN
  /\ ExpandCap \in Nat /\ MaxRuns \in Nat

VARIABLES
  board,      \* edge_board of the strategy: rows [cond, rank, run]
  history,    \* runs with rows in edge_board_snapshots
  scan,       \* each scanner's cycle
  runs,       \* cycles started
  committed   \* runs whose board was committed

vars == <<board, history, scan, runs, committed>>

Idle == [at |-> "idle"]
Init ==
  /\ board = {} /\ history = {} /\ scan = [s \in Scanners |-> Idle]
  /\ runs = 0 /\ committed = {}

OnBoard == {r.cond : r \in board}

-----------------------------------------------------------------------------
(* Cuts.  A candidate is the nth listing of a condition; the key it is     *)
(* sorted by is its activity, and then its edge.                           *)

Above(d, e) ==
  \/ d.key > e.key
  \/ d.key = e.key /\ (d.cond < e.cond \/ (d.cond = e.cond /\ d.nth < e.nth))

Rank(e, S) == 1 + Cardinality({d \in S : Above(d, e)})

Top(n, S) == {e \in S : Rank(e, S) <= n}

\* One candidate per condition, the higher.
Distinct(S) == {e \in S : \A d \in S : d.cond = e.cond => ~Above(d, e)}

StickyCut_MutantByKey(n, S, sticky) ==
  IF Cardinality(S) <= n THEN S ELSE Top(n, Distinct(S))

\* selectBoard and selectTopNByEdge: above n, the sticky ones first, then by key; only
\* then is a condition kept once.
StickyCut(n, S, sticky) ==
  IF Cardinality(S) <= n THEN S
  ELSE LET one  == Distinct(S)
           kept == Top(n, {e \in one : e.cond \in sticky})
       IN  kept \cup Top(n - Cardinality(kept), one \ kept)

\* FlattenCandidates of the fetched events, with their activity.
Pool(list) ==
  {[cond |-> e[1], nth |-> e[2], key |-> list[e[1]].act] :
     e \in {d \in Conds \X (1..2) : d[2] <= list[d[1]].times}}

\* The hard filters; a market that passes has an activity above zero.
Passing(list) == {e \in Pool(list) : e.key > 0}

CondsOf(S) == {e.cond : e \in S}

\* RankMarkets cuts first, and then the sticky ones that still pass come back.
Stage1(list, sticky) ==
  LET ranked == Top(Stage1MaxN, Passing(list))
      back   == {e \in Passing(list) : /\ e.cond \in sticky \ CondsOf(ranked)
                                       /\ e.nth = list[e.cond].times}
  IN  StickyCut(Stage1MaxN, ranked \cup back, sticky)

\* ExpandGroupCandidates: the stage's conditions and up to ExpandCap siblings of their
\* groups, in the order of a map.
Expanded(list, S) ==
  LET own  == CondsOf(S)
      sibs == {c \in CondsOf(Pool(list)) \ own :
                 GroupOf[c] # 0 /\ GroupOf[c] \in {GroupOf[d] : d \in own}}
  IN  {own \cup more : more \in {m \in SUBSET sibs :
         Cardinality(m) = SmallerOf(ExpandCap, Cardinality(sibs))}}

GroupSize(list, g) == Cardinality({c \in CondsOf(Pool(list)) : GroupOf[c] = g})

\* featureFromCandidate and Score; the edge in whole bps, then the activity.
EdgeKey(list, booked, c) ==
  LET f == [d \in Conds |-> list[d].f]
  IN  100 * Score(c, f[c], c \in booked, GroupMids(GroupOf[c], booked, f),
                  GroupSize(list, GroupOf[c])) + list[c].act

\* SelectBoard: extreme prices are dropped, the rest is sorted by edge.
Survivors(list, booked, S) ==
  {[e EXCEPT !.key = EdgeKey(list, booked, e.cond)] :
     e \in {d \in S : ~(d.cond \in booked /\ Extreme(list[d.cond].f))}}

\* BuildEdgeBoard and materializeRows.  A condition listed twice may come out twice, at
\* two ranks.
Board(list, booked, S, sticky) ==
  LET cut == StickyCut(BoardMaxN, Survivors(list, booked, S), sticky)
  IN  {[cond |-> e.cond, rank |-> Rank(e, cut)] : e \in cut}

\* Sticky conditions that still pass and whose price is not known to be extreme.
Due(list, booked, sticky) ==
  {c \in sticky : list[c].times > 0 /\ list[c].act > 0
                  /\ ~(c \in booked /\ Extreme(list[c].f))}

\* One of the stage's candidates has a usable book (PublishRequireBooks).
Booked(list, booked, S) == \E c \in CondsOf(S) \cap booked : HasBook(list[c].f)

\* The rows a cycle may build from the sticky set, with those due that are lost, and no
\* rows if nothing passes, no usable book came, or nothing is left.  Books come for any
\* part of what was asked for, a failed batch losing the rest.
Built(sticky) ==
  LET Of(list, booked, S) ==
        IF ~Booked(list, booked, S) THEN [rows |-> {}, lost |-> {}]
        ELSE LET rows == Board(list, booked, S, sticky)
             IN  [rows |-> rows,
                  lost |-> IF Cardinality(sticky) > BoardMaxN THEN {}
                           ELSE Due(list, booked, sticky) \ {r.cond : r \in rows}]
  IN  UNION {LET S == Stage1(list, sticky) IN
               UNION {{Of(list, booked, S) : booked \in SUBSET asked} :
                      asked \in Expanded(list, S)} :
             list \in [Conds -> Listings]}

\* What a cycle may come to for every sticky set: a board, or no rows.
Outcomes ==
  UNION {{[sticky |-> sticky, rows |-> b.rows, lost |-> b.lost] : b \in Built(sticky)} :
         sticky \in SUBSET Conds}

Boards(sticky) == {b \in Outcomes : b.sticky = sticky /\ b.rows # {}}

MayBeEmpty(sticky) == \E b \in Outcomes : b.sticky = sticky /\ b.rows = {}

-----------------------------------------------------------------------------
(* A cycle.                                                                *)

Go(s, c) == scan' = [scan EXCEPT ![s] = c]

\* The sticky set is the board's; if it cannot be read, the cycle goes on without.
Begin(s) ==
  /\ scan[s].at = "idle" /\ runs < MaxRuns /\ runs' = runs + 1
  /\ \E sticky \in {OnBoard, {}} :
       Go(s, [at |-> "scanning", run |-> runs + 1, sticky |-> sticky])
  /\ UNCHANGED <<board, history, committed>>

\* The keyset fetch failed.
KeysetFails(s) ==
  /\ scan[s].at = "scanning" /\ Go(s, Idle)
  /\ UNCHANGED <<board, history, runs, committed>>

KeepsPrior_MutantPublishes(s) ==
  /\ scan[s].at = "scanning"
  /\ MayBeEmpty(scan[s].sticky)
  /\ Go(s, [at |-> "replacing", run |-> scan[s].run, rows |-> {}, lost |-> {}])
  /\ UNCHANGED <<board, history, runs, committed>>

\* Nothing to publish: the prior board stays.
KeepsPrior(s) ==
  /\ scan[s].at = "scanning"
  /\ MayBeEmpty(scan[s].sticky)
  /\ Go(s, Idle)
  /\ UNCHANGED <<board, history, runs, committed>>

Ranks(s) ==
  /\ scan[s].at = "scanning"
  /\ \E b \in Boards(scan[s].sticky) :
       Go(s, [at |-> "replacing", run |-> scan[s].run, lost |-> b.lost,
                 rows |-> {[cond |-> r.cond, rank |-> r.rank, run |-> scan[s].run] :
                             r \in b.rows}])
  /\ UNCHANGED <<board, history, runs, committed>>

-----------------------------------------------------------------------------
(* ReplaceEdgeBoard, one transaction under READ COMMITTED.                 *)

\* DELETE takes the rows that are committed when it starts...
Delete(s) ==
  /\ scan[s].at = "replacing"
  /\ Go(s, [at |-> "deleting", run |-> scan[s].run, rows |-> scan[s].rows, gone |-> board])
  /\ UNCHANGED <<board, history, runs, committed>>

\* ...and waits for those another transaction has deleted.
Deleted(s) ==
  /\ scan[s].at = "deleting"
  /\ \A o \in Scanners \ {s} :
       scan[o].at = "inserting" => scan[o].gone \cap scan[s].gone = {}
  /\ Go(s, [scan[s] EXCEPT !.at = "inserting", !.gone = @ \cap board])
  /\ UNCHANGED <<board, history, runs, committed>>

\* A condition that is still there, or comes twice in the rows: the primary key.
Clash(s) ==
  \/ \E r \in scan[s].rows : r.cond \in {b.cond : b \in board \ scan[s].gone}
  \/ \E r, q \in scan[s].rows : r.cond = q.cond /\ r # q

Commit_MutantSkipsClash(s) ==
  /\ scan[s].at = "inserting"
  /\ board' = (board \ scan[s].gone) \cup
              {r \in scan[s].rows : r.cond \notin {b.cond : b \in board \ scan[s].gone}}
  /\ committed' = committed \cup {scan[s].run}
  /\ Go(s, [at |-> "recording", run |-> scan[s].run])
  /\ UNCHANGED <<history, runs>>

\* The answer to the commit may be lost: then the board is there, and reported failed.
Commit(s) ==
  /\ scan[s].at = "inserting" /\ ~Clash(s)
  /\ board' = (board \ scan[s].gone) \cup scan[s].rows
  /\ committed' = committed \cup {scan[s].run}
  /\ \/ Go(s, [at |-> "recording", run |-> scan[s].run])
     \/ Go(s, Idle)
  /\ UNCHANGED <<history, runs>>

WriteFails_MutantRecords(s) ==
  /\ scan[s].at \in {"replacing", "deleting", "inserting"}
  /\ Go(s, [at |-> "recording", run |-> scan[s].run])
  /\ UNCHANGED <<board, history, runs, committed>>

\* The clash, or the database: rolled back, and no history is written.
WriteFails(s) ==
  /\ scan[s].at \in {"replacing", "deleting", "inserting"} /\ Go(s, Idle)
  /\ UNCHANGED <<board, history, runs, committed>>

\* InsertEdgeBoardSnapshots, best effort: the cycle is OK either way.
Record(s) ==
  /\ scan[s].at = "recording" /\ Go(s, Idle)
  /\ history' \in {history, history \cup {scan[s].run}}
  /\ UNCHANGED <<board, runs, committed>>

\* The process dies, or ends on a signal, in the middle of a cycle, and is started again.
Crash(s) ==
  /\ scan[s].at # "idle" /\ Go(s, Idle)
  /\ UNCHANGED <<board, history, runs, committed>>

Step(s) ==
  \/ KeysetFails(s) \/ KeepsPrior(s) \/ Ranks(s)
  \/ Delete(s) \/ Deleted(s) \/ Commit(s) \/ WriteFails(s) \/ Record(s)

Next == \E s \in Scanners : Begin(s) \/ Step(s) \/ Crash(s)

Spec == Init /\ [][Next]_vars

-----------------------------------------------------------------------------
(* Properties.                                                             *)

\* A failed scan never takes the board away from its readers: whatever fails, and
\* however the scanners' transactions interleave, a board once there is never emptied.
NeverEmptied == [][board' = {} => board = {}]_vars

\* A reader never sees part of a run: the rows of each run that is on the board have
\* the ranks 1..n, and no condition is on it twice.
WholeRuns ==
  /\ \A r \in board : {q.rank : q \in {b \in board : b.run = r.run}} =
                      1..Cardinality({b \in board : b.run = r.run})
  /\ \A r, q \in board : r.cond = q.cond => r = q

\* Retention: a member of the board the cycle started from that still passes the filters,
\* and whose price is not extreme, is in the rows it is about to publish, through both
\* cuts, however the others score.
StickyKept ==
  [][\A s \in Scanners :
       scan[s].at = "scanning" /\ scan'[s].at = "replacing" => scan'[s].lost = {}]_vars

\* A board that evaluation replays from the history was live: no run is in the history
\* whose board was rolled back.
HistoryWasLive == history \subseteq committed
=============================================================================
