------------------------------- MODULE Signals -------------------------------
(***************************************************************************)
(* Paper signals of cmd/ws-listener: on each tick every market of the      *)
(* board is scored from its live book (signals/paper.go); in board mode    *)
(* capital is allocated over the whole board (alloc/alloc.go, risk/rank.go)*)
(* and in firehose mode each market must pass the gates alone.  What is    *)
(* not in its cooldown is stored, and starts a cooldown once it is stored. *)
(*                                                                         *)
(* Markets are named by their place on the board.  Prices are cents; net   *)
(* edges and costs are basis points; sizes are ProbeSizeUSD / (4 Scale).   *)
(***************************************************************************)
EXTENDS Integers, FiniteSets, Sequences, SequencesExt

CONSTANTS
  Rows,         \* the board: for each market its path, the value on it, and its urgency
  Books,        \* live books that pass the age and spread gates: mid and cost
  MinEdge, Cooldown, Reissue, Buffer, Scale,
  MaxPositions, MaxGross,
  MaxTicks,     \* bound: ticks
  MaxRestarts   \* bound: restarts

SignalsAssumption ==
  /\ Rows \in Seq([path : {"fair_value", "model_edge", "board_edge", "none"},
                   value : Int, urgency : Int])
  /\ Books \subseteq [mid : Int, cost : Int]
  /\ Buffer \in Int /\ Cooldown \in Int /\ Reissue \in Int

VARIABLES
  mode,      \* the flag -signal-mode
  now,       \* the tick
  last,      \* Emitter.last
  out,       \* what the tick is about to store
  inserting, \* the tick is about to store it
  resolved,  \* resolvedConds
  stored,    \* the rows of the table signals
  boot       \* restarts

vars == <<mode, now, last, out, inserting, resolved, stored, boot>>

Conds == 1..Len(Rows)
Size(n) == IF n < 0 THEN 0 - n ELSE n
Side(n) == IF n < 0 THEN "SELL" ELSE "BUY"

Init ==
  /\ mode \in {"board", "firehose"}
  /\ now = 0 /\ last = <<>> /\ out = {} /\ inserting = FALSE
  /\ resolved = {} /\ stored = {} /\ boot = 0

-----------------------------------------------------------------------------
(* Scoring.                                                                *)

\* opportunityBps and evaluate: the residual of a fair value against the live mid pays the
\* live cost, a net edge of the scan does not, and a row without either does.
SignedNet(row, bk) ==
  LET opp == CASE row.path = "fair_value"                  -> (row.value - bk.mid) * 100
               [] row.path \in {"model_edge", "board_edge"} -> row.value
               [] row.path = "none"                        -> 0
      alreadyNet == row.path \in {"model_edge", "board_edge"}
  IN  opp - (IF alreadyNet THEN 0 ELSE bk.cost) - Buffer

BlockedByCooldown(c, net) ==
  /\ c \in DOMAIN last /\ Side(last[c].net) = Side(net)
  /\ now' - last[c].at < Cooldown
  /\ Size(Size(net) - Size(last[c].net)) < Reissue

-----------------------------------------------------------------------------
(* Capital over the whole board.                                           *)

Least(a, b) == IF a < b THEN a ELSE b

\* OpportunityScore, times 2 * Scale: the edge, the conviction and the urgency.
OpportunityScore(c, net) ==
  (2 * Scale * Size(net)) \div 100 + 2 * Least(Size(net), Scale) + (Scale * Rows[c].urgency) \div 5

SizeUSD(net) == Scale + 3 * Least(Size(net), Scale)

\* BuildRankOrder: by score, then by place on the board.
RankOrder(net) ==
  LET Before(c, d) ==
        LET sc == OpportunityScore(c, net[c])
            sd == OpportunityScore(d, net[d])
        IN  sc > sd \/ (sc = sd /\ c < d)
  IN  SetToSortSeq(DOMAIN net, Before)

\* alloc.Run: worthy names in rank order, while positions and gross last; a smaller name
\* may still fit after a larger one did not.
Taken(net) ==
  LET worthy == {c \in DOMAIN net : Size(net[c]) >= MinEdge}
      Take(acc, c) ==
        IF /\ Cardinality(acc.names) < MaxPositions
           /\ MaxGross > 0 => acc.gross + SizeUSD(net[c]) <= MaxGross
        THEN [names |-> acc.names \cup {c}, gross |-> acc.gross + SizeUSD(net[c])]
        ELSE acc
  IN  FoldLeft(Take, [names |-> {}, gross |-> 0], RankOrder([c \in worthy |-> net[c]])).names

-----------------------------------------------------------------------------
(* The tick.                                                               *)

\* Markets scored: those on the board with a book that passes, and not resolved.
Live(bk) == DOMAIN bk \ resolved

\* The PaperSignal of evaluate.
Signal(c, net) == [cond |-> c, net |-> net]

\* The tick scores the board and picks what to store.
Score ==
  /\ ~inserting /\ now < MaxTicks /\ now' = now + 1
  /\ \E seen \in SUBSET Conds : \E bk \in [seen -> Books] :
       LET net   == [c \in Live(bk) |-> SignedNet(Rows[c], bk[c])]
           takes == IF mode = "board" THEN Taken(net)
                    ELSE {c \in DOMAIN net : Size(net[c]) > MinEdge}
           free  == {c \in DOMAIN net : c \in takes /\ ~BlockedByCooldown(c, net[c])}
       IN  out' = {Signal(c, net[c]) : c \in free}
  /\ inserting' = (out' # {})
  /\ UNCHANGED <<mode, last, resolved, stored, boot>>

Row(s, heard) ==
  [cond |-> s.cond, net |-> s.net, at |-> now, boot |-> boot, heard |-> heard]

Committed_MutantKeepsFirst ==
  LET conds == {s.cond : s \in out}
  IN  [c \in DOMAIN last \cup conds |->
         IF c \in DOMAIN last THEN last[c]
         ELSE [net |-> (CHOOSE s \in out : s.cond = c).net, at |-> now]]

\* Commit, for all of the batch.
Committed ==
  LET conds == {s.cond : s \in out}
  IN  [c \in DOMAIN last \cup conds |->
         IF c \in conds THEN [net |-> (CHOOSE s \in out : s.cond = c).net, at |-> now] ELSE last[c]]

\* InsertSignals fails: one statement for each row, in one implicit transaction.
InsertFails ==
  /\ inserting /\ inserting' = FALSE /\ out' = {}
  /\ UNCHANGED <<mode, now, last, resolved, stored, boot>>

\* It is stored; when the answer is lost, no cooldown starts.
Inserted(heard) ==
  /\ inserting /\ inserting' = FALSE /\ out' = {}
  /\ stored' = stored \cup {Row(s, heard) : s \in out}
  /\ last' = IF heard THEN Committed ELSE last
  /\ UNCHANGED <<mode, now, resolved, boot>>

\* The market_resolved handler, at any time.
Resolved(c) ==
  /\ c \notin resolved
  /\ resolved' = resolved \cup {c}
  /\ UNCHANGED <<mode, now, last, out, inserting, stored, boot>>

\* Cooldowns and resolved markets are in memory only.
Restart ==
  /\ boot < MaxRestarts /\ boot' = boot + 1
  /\ last' = <<>> /\ out' = {} /\ inserting' = FALSE /\ resolved' = {}
  /\ UNCHANGED <<mode, now, stored>>

Next ==
  \/ Score \/ InsertFails \/ \E heard \in BOOLEAN : Inserted(heard)
  \/ \E c \in Conds : Resolved(c)
  \/ Restart

Spec == Init /\ [][Next]_vars

-----------------------------------------------------------------------------
(* Properties.                                                             *)

\* Two stored signals of one market on one side, the first of them heard and none heard in
\* between, are a cooldown apart or differ by the reissue delta, in one run of the process.
SpacedSignals ==
  \A a, b \in stored :
    /\ a.cond = b.cond /\ a.boot = b.boot /\ a.at < b.at /\ a.heard
    /\ ~\E c \in stored : c.cond = a.cond /\ c.heard /\ a.at < c.at /\ c.at < b.at
    => \/ Side(a.net) # Side(b.net) \/ b.at - a.at >= Cooldown
       \/ Size(Size(a.net) - Size(b.net)) >= Reissue

=============================================================================
