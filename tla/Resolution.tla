----------------------------- MODULE Resolution -----------------------------
(***************************************************************************)
(* Resolved markets in cmd/ws-listener: the market_resolved handler, the   *)
(* board refresh that keeps resolved markets off the stream, the queue of  *)
(* resolutions (ws/market/resolve_queue.go) and its flush into             *)
(* plymkt_markets (db/market_resolve.go).                                  *)
(*                                                                         *)
(* A market has one token.  A message names its market by condition id or  *)
(* only by Gamma id, may lack the winner or the tokens, and may come twice *)
(* or late.  How the stream follows the desired set is in Subscription.    *)
(***************************************************************************)
EXTENDS Integers, FiniteSets

CONSTANTS
  Markets,
  Winners,    \* winning outcomes
  LastStamp,  \* timestamps of messages are 1..LastStamp
  MaxEvents,  \* bound: messages
  MaxScans    \* bound: boards published

NoWinner == "none"

\* A market has one winner, whatever is announced and however often.
OneWinner == NoWinner \notin Winners /\ \A v, w \in Winners : v = w

VARIABLES
  board,     \* markets on the published edge board
  scans,     \* boards published
  meta,      \* boardMeta: all of the last refresh, and its primaries not resolved
  pending,   \* what the refresh is about to give to SetDesired, or NoSet
  desired,   \* markets whose token the client wants streamed
  resolvedConds, resolvedAssets,
  late,      \* markets resolved since the refresh filtered its set
  raced,     \* markets resolved between the last refresh's filter and its SetDesired
  queue,     \* ResolveQueue.byKey
  batch,     \* taken by the flush: its resolutions, and those not applied yet
  row,       \* plymkt_markets: no row, open or closed, and the winner
  missed,    \* keys that were applied when their market had no row
  newest,    \* the newest resolution announced under each key
  events     \* messages so far

streamVars == <<board, scans, meta, pending, desired, resolvedConds, resolvedAssets, late, raced>>
queueVars  == <<queue, batch, row, missed, newest, events>>
vars       == <<streamVars, queueVars>>

Keys == Markets \X {"condition", "gamma"}
NoSet == [at |-> "idle"]
Resolutions == [key : Keys, stamp : 1..LastStamp, win : Winners \cup {NoWinner}]

TypeOK ==
  /\ board \subseteq Markets /\ scans \in 0..MaxScans
  /\ meta \in [all : SUBSET Markets, primaries : SUBSET Markets]
  /\ pending \in {NoSet} \cup [at : {"filtered"}, set : SUBSET Markets]
  /\ desired \subseteq Markets
  /\ resolvedConds \subseteq Markets /\ resolvedAssets \subseteq Markets
  /\ late \subseteq Markets /\ raced \subseteq Markets
  /\ queue \subseteq Resolutions /\ newest \subseteq Resolutions
  /\ batch \in [taken : SUBSET Resolutions, todo : SUBSET Resolutions]
  /\ row \in [Markets -> [is : {"absent", "open", "closed"}, win : Winners \cup {NoWinner}]]
  /\ missed \subseteq Keys /\ events \in 0..MaxEvents

NoBatch == [taken |-> {}, todo |-> {}]

Init ==
  /\ board = Markets /\ scans = 0
  /\ meta = [all |-> {}, primaries |-> {}] /\ pending = NoSet /\ desired = {}
  /\ resolvedConds = {} /\ resolvedAssets = {} /\ late = {} /\ raced = {}
  /\ queue = {} /\ batch = NoBatch /\ missed = {} /\ newest = {} /\ events = 0
  /\ row \in [Markets -> [is : {"absent", "open"}, win : {NoWinner}]]

-----------------------------------------------------------------------------
(* The queue: one resolution for each key.                                 *)

\* mergeResolution.
Merged(old, new) == [new EXCEPT !.win = IF @ = NoWinner THEN old.win ELSE @]

Enqueued_MutantOverwrites(q, r) == {e \in q : e.key # r.key} \cup {r}

\* Enqueue: the newer one stays; of two with one stamp, r, with what it lacks.
Enqueued(q, r) ==
  LET old == {e \in q : e.key = r.key}
  IN  IF \E e \in old : r.stamp < e.stamp THEN q
      ELSE (q \ old) \cup {IF \E e \in old : e.stamp = r.stamp
                           THEN Merged(CHOOSE e \in old : TRUE, r) ELSE r}

\* A failed batch goes back into q: one resolution for each key.
Requeued(q, S) ==
  LET Back(r) == CHOOSE e \in Enqueued(q, r) : e.key = r.key
  IN  {e \in q : \A r \in S : r.key # e.key} \cup {Back(r) : r \in S}

-----------------------------------------------------------------------------
(* The stream.                                                             *)

Resolve_MutantKeepsStream(m, drops) ==
  /\ resolvedAssets' = resolvedAssets \cup (IF drops THEN {m} ELSE {})
  /\ desired' = desired

\* The tokens of the message, or else of the board's market with its condition id.
Resolve(m, drops) ==
  /\ resolvedAssets' = resolvedAssets \cup (IF drops THEN {m} ELSE {})
  /\ desired' = desired \ (IF drops THEN {m} ELSE {})

\* The market_resolved handler.
MarketResolved(r, withTokens) ==
  /\ events < MaxEvents /\ events' = events + 1
  /\ queue' = Enqueued(queue, r) /\ newest' = Enqueued(newest, r)
  /\ LET m     == r.key[1]
         drops == withTokens \/ (r.key[2] = "condition" /\ m \in meta.all)
     IN  /\ resolvedConds' = resolvedConds \cup (IF r.key[2] = "condition" THEN {m} ELSE {})
         /\ Resolve(m, drops)
         /\ late' = late \cup (IF drops THEN {m} ELSE {})
  /\ UNCHANGED <<board, scans, meta, pending, raced, batch, row, missed>>

\* The edge scan publishes another board.
Publish ==
  /\ scans < MaxScans /\ scans' = scans + 1
  /\ \E b \in SUBSET Markets : board' = b
  /\ UNCHANGED <<meta, pending, desired, resolvedConds, resolvedAssets, late, raced, queueVars>>

\* The refresh: markets that left the board are forgotten, resolved ones filtered out.
Refresh ==
  /\ pending = NoSet
  /\ resolvedConds' = resolvedConds \cap board
  /\ resolvedAssets' = resolvedAssets \cap board
  /\ meta' = [all |-> board, primaries |-> board \ resolvedConds']
  /\ pending' = [at |-> "filtered", set |-> board \ resolvedAssets'] /\ late' = {}
  /\ UNCHANGED <<board, scans, desired, raced, queueVars>>

\* ...and then, without a lock in common with the handler, SetDesired.
SetDesired ==
  /\ pending # NoSet /\ pending' = NoSet
  /\ desired' = pending.set /\ raced' = late
  /\ UNCHANGED <<board, scans, meta, resolvedConds, resolvedAssets, late, queueVars>>

-----------------------------------------------------------------------------
(* The flush.                                                              *)

TakeAll ==
  /\ batch = NoBatch /\ queue # {}
  /\ batch' = [taken |-> queue, todo |-> queue] /\ queue' = {}
  /\ UNCHANGED <<streamVars, row, missed, newest, events>>

\* One UPDATE of ApplyMarketResolutions, in the order of a map.  No row is no error.
ApplyRow ==
  /\ \E r \in batch.todo :
       LET m == r.key[1] IN
       /\ batch' = IF batch.todo = {r} THEN NoBatch ELSE [batch EXCEPT !.todo = @ \ {r}]
       /\ row' = [row EXCEPT ![m] =
                    IF @.is = "absent" THEN @
                    ELSE [is  |-> "closed", win |-> IF r.win = NoWinner THEN @.win ELSE r.win]]
       /\ missed' = missed \cup (IF row[m].is = "absent" THEN {r.key} ELSE {})
  /\ UNCHANGED <<streamVars, queue, newest, events>>

\* A statement fails: the whole batch goes back, what was applied included.
ApplyFails ==
  /\ batch.todo # {} /\ batch' = NoBatch
  /\ queue' = Requeued(queue, batch.taken)
  /\ UNCHANGED <<streamVars, row, missed, newest, events>>

\* top-markets or a scan saves the market from a listing of open ones, fetched before or
\* after: the row is open (again), and its winner stays.
MarketSaved ==
  /\ \E m \in Markets : row[m].is # "open" /\ row' = [row EXCEPT ![m].is = "open"]
  /\ UNCHANGED <<streamVars, queue, batch, missed, newest, events>>

\* The process stops and is started again.  The flush at the end runs under the context
\* that was just cancelled, so its statements fail; the queue is lost.
Restart ==
  /\ queue' = {} /\ batch' = NoBatch /\ newest' = {} /\ missed' = {}
  /\ meta' = [all |-> {}, primaries |-> {}] /\ pending' = NoSet /\ desired' = {}
  /\ resolvedConds' = {} /\ resolvedAssets' = {} /\ late' = {} /\ raced' = {}
  /\ UNCHANGED <<board, scans, row, events>>

Next ==
  \/ \E r \in Resolutions, withTokens \in BOOLEAN : MarketResolved(r, withTokens)
  \/ Publish \/ Refresh \/ SetDesired
  \/ TakeAll \/ ApplyRow \/ ApplyFails \/ MarketSaved \/ Restart

Spec == Init /\ [][Next]_vars

-----------------------------------------------------------------------------
(* Properties.                                                             *)

\* The winner announced last under a key is not lost while the process runs, whatever
\* flushes fail half-way and whatever was announced meanwhile: it waits, is being applied,
\* or is in the database, unless the market had no row when it was applied.
LabelsAreKept ==
  \A r \in newest : r.win # NoWinner =>
    \/ \E e \in queue \cup batch.todo : e.key = r.key /\ e.win = r.win
    \/ row[r.key[1]].win # NoWinner
    \/ r.key \in missed

\* A resolved market on the board stays off the stream, but for a refresh caught between
\* its filter and SetDesired, and then until the next.
ResolvedOffStream == desired \cap resolvedAssets \subseteq raced
=============================================================================
