----------------------------- MODULE BookStore -----------------------------
(***************************************************************************)
(* internal/ws/market/book.go and the two flush loops of cmd/ws-listener:  *)
(* a replica of the exchange's order books, kept by events, and written    *)
(* to features_latest (peek, upsert, mark) and orderbook_snapshots (take,  *)
(* insert) by goroutines that interleave with the events.                  *)
(*                                                                         *)
(* The exchange is external: its true levels are in srv, its events arrive *)
(* in order while the session lasts, a new session starts with a dump.     *)
(* Prices are integers, Epsilon is in the same unit; sizes only matter as  *)
(* zero or not, so a side of a book is the set of prices it has a level    *)
(* at.  X_Mutant... is a deliberately wrong variant of X that no           *)
(* specification uses.                                                     *)
(***************************************************************************)
EXTENDS Integers, FiniteSets, FiniteSetsExt

CONSTANTS
  Tokens, Prices,
  Epsilon,        \* smallest change of a price that counts
  MaxBatch,       \* cap of one flush (100)
  FeaturesOn, SnapshotsOn,   \* -features-flush > 0; -snapshot-flush > 0 and not -no-snapshots
  TradePrices,    \* prices trades are reported at
  MaxChanges      \* bound: levels that come or go on the exchange

ASSUME BookAssumption ==
  /\ IsFiniteSet(Tokens) /\ IsFiniteSet(Prices) /\ Prices \subseteq Nat \ {0}
  /\ Epsilon \in Nat \ {0} /\ MaxBatch \in Nat \ {0}
  /\ TradePrices \subseteq Prices /\ MaxChanges \in Nat
  /\ FeaturesOn \in BOOLEAN /\ SnapshotsOn \in BOOLEAN

VARIABLES
  srv,      \* srv[t]: the exchange's levels, [bids, asks]
  changes,  \* how often they changed
  live,     \* tokens with a session that has sent its dump
  owed,     \* owed[t]: the price_change the exchange has yet to send, or Nothing
  known,    \* tokens with a BookState
  book,     \* book[t]: its BookState (Fresh when t is not known)
  flush, peeked,   \* features loop: where it is, and the copies it holds
  feat,     \* features_latest
  snapping, taken, \* snapshot loop
  snap,     \* the last row of each token in orderbook_snapshots
  \* History, read by the properties only: tokens
  racing,   \* with an event since they were peeked, their flush not being over,
  loose,    \* marked as flushed when racing, or left clean with an ask that had moved,
  kept,     \* whose last best bid/ask had a zero where the book kept a price,
  missed    \* whose last taken snapshot was not inserted

exchange == <<srv, changes, live, owed>>
store    == <<known, book>>
features == <<flush, peeked, feat>>
snaps    == <<snapping, taken, snap>>
history  == <<racing, loose, kept, missed>>
vars     == <<exchange, store, features, snaps, history>>

Price0 == Prices \cup {0}
Levels == [bids : SUBSET Prices, asks : SUBSET Prices]
Uncrossed(l) == \A bid \in l.bids, ask \in l.asks : bid < ask
Sides  == {"BUY", "SELL"}
Nothing == [side |-> "none", price |-> 0, on |-> FALSE]

BestBidOf(bids) == IF bids = {} THEN 0 ELSE Max(bids)
BestAskOf(asks) == IF asks = {} THEN 0 ELSE Min(asks)

\* Mid is kept doubled, so that it stays an integer.
Mid2(bb, ba) == IF bb <= 0 \/ ba <= 0 \/ ba < bb THEN 0 ELSE bb + ba
ValidBook(b) == b.bestBid > 0 /\ b.bestAsk >= b.bestBid
Far(x, y)    == x - y >= Epsilon \/ y - x >= Epsilon
FarMid(x, y) == x - y >= 2 * Epsilon \/ y - x >= 2 * Epsilon

Fresh == [bids |-> {}, asks |-> {}, bestBid |-> 0, bestAsk |-> 0, trade |-> 0,
          dirty |-> FALSE, flushMid |-> 0, flushBB |-> 0, flushBA |-> 0,
          snapMid |-> 0, snapBB |-> 0, snapBA |-> 0]

\* What a flush copies out of a book.
Row(b) == [bestBid |-> b.bestBid, bestAsk |-> b.bestAsk, trade |-> b.trade]
NoRow  == [bestBid |-> -1, bestAsk |-> -1, trade |-> -1]

TypeOK ==
  /\ srv \in [Tokens -> Levels] /\ changes \in 0..MaxChanges /\ live \subseteq Tokens
  /\ owed \in [Tokens -> [side : Sides, price : Prices, on : BOOLEAN] \cup {Nothing}]
  /\ known \subseteq Tokens
  /\ \A t \in Tokens :
       /\ book[t].bids \subseteq Prices /\ book[t].asks \subseteq Prices
       /\ {book[t].bestBid, book[t].bestAsk, book[t].trade} \subseteq Price0
       /\ t \notin known => book[t] = Fresh
  /\ flush \in {"idle", "upserting", "marking"} /\ DOMAIN peeked \subseteq Tokens
  /\ Cardinality(DOMAIN peeked) <= MaxBatch
  /\ flush = "idle" <=> DOMAIN peeked = {}
  /\ snapping \in {"idle", "inserting"} /\ DOMAIN taken \subseteq Tokens
  /\ Cardinality(DOMAIN taken) <= MaxBatch
  /\ racing \subseteq DOMAIN peeked /\ loose \cup kept \cup missed \subseteq Tokens
  /\ \A t \in DOMAIN taken : taken[t].bestBid > 0 /\ taken[t].bestAsk >= taken[t].bestBid

Init ==
  /\ srv \in [Tokens -> {l \in Levels : Uncrossed(l)}]
  /\ changes = 0 /\ live = {} /\ owed = [t \in Tokens |-> Nothing]
  /\ known = {} /\ book = [t \in Tokens |-> Fresh]
  /\ flush = "idle" /\ peeked = [t \in {} |-> NoRow] /\ feat = [t \in Tokens |-> NoRow]
  /\ snapping = "idle" /\ taken = [t \in {} |-> NoRow] /\ snap = [t \in Tokens |-> NoRow]
  /\ racing = {} /\ loose = {} /\ kept = {} /\ missed = {}

-----------------------------------------------------------------------------
(* BookStore.Apply.                                                        *)

Update(t, b) ==
  /\ known' = known \cup {t}
  /\ book' = [book EXCEPT ![t] = b]

RecomputeTop(b) == [b EXCEPT !.bestBid = BestBidOf(b.bids), !.bestAsk = BestAskOf(b.asks)]

\* What the message says of the top of the book, where it says anything.
TakeTop(b, bb, ba) == [b EXCEPT !.bestBid = IF bb > 0 THEN bb ELSE @,
                                !.bestAsk = IF ba > 0 THEN ba ELSE @]

ChangedEnough(b) ==
  \/ b.flushMid = 0 /\ b.flushBB = 0
  \/ FarMid(Mid2(b.bestBid, b.bestAsk), b.flushMid)
  \/ Far(b.bestBid, b.flushBB) \/ Far(b.bestAsk, b.flushBA)

ApplyBook(t, dump) ==
  Update(t, [RecomputeTop([book[t] EXCEPT !.bids = dump.bids, !.asks = dump.asks])
             EXCEPT !.dirty = TRUE])

\* One level set (on) or removed.
WithLevel(b, side, price, on) ==
  IF side = "BUY"
  THEN [b EXCEPT !.bids = IF on THEN @ \cup {price} ELSE @ \ {price}]
  ELSE [b EXCEPT !.asks = IF on THEN @ \cup {price} ELSE @ \ {price}]

ApplyPriceChange_MutantKeepsTop(t, c, bb, ba) ==
  LET level == WithLevel(book[t], c.side, c.price, c.on)
      b == IF ~c.on THEN level
           ELSE IF bb > 0 \/ ba > 0 THEN TakeTop(level, bb, ba) ELSE RecomputeTop(level)
  IN  Update(t, [b EXCEPT !.dirty = @ \/ ChangedEnough(b)])

ApplyPriceChange(t, c, bb, ba) ==
  LET level == WithLevel(book[t], c.side, c.price, c.on)
      b == IF bb > 0 \/ ba > 0 THEN TakeTop(level, bb, ba) ELSE RecomputeTop(level)
  IN  Update(t, [b EXCEPT !.dirty = @ \/ ChangedEnough(b)])

\* Dirty only when the mid moves at once by Epsilon or the bid is away from the last
\* flush; not when the ask is.
ApplyBBA(t, bb, ba) ==
  LET old == book[t]
      b == TakeTop(old, bb, ba)
  IN  Update(t, [b EXCEPT !.dirty =
        \/ @ \/ FarMid(Mid2(b.bestBid, b.bestAsk), Mid2(old.bestBid, old.bestAsk))
        \/ Far(b.bestBid, b.flushBB)])

ApplyTrade(t, price) ==
  Update(t, [book[t] EXCEPT !.trade = price, !.dirty = TRUE])

-----------------------------------------------------------------------------
(* The exchange and its messages.  The reader applies each message before  *)
(* it reads the next.                                                      *)

With(S, t, in) == IF in THEN S \cup {t} ELSE S \ {t}

\* What an event of t adds to the history.
Noted(t, keeps, drifts) ==
  /\ racing' = With(racing, t, t \in DOMAIN peeked)
  /\ kept' = With(kept, t, keeps)
  /\ loose' = With(loose, t, t \in loose \/ drifts)
  /\ UNCHANGED missed

\* The message has a zero for a side the book has a price of.
Ignored(t, bb, ba) ==
  (bb = 0 /\ book[t].bestBid > 0) \/ (ba = 0 /\ book[t].bestAsk > 0)

Dump(t) ==
  /\ t \notin live
  /\ live' = live \cup {t} /\ ApplyBook(t, srv[t]) /\ Noted(t, FALSE, FALSE)
  /\ UNCHANGED <<srv, changes, owed, features, snaps>>

\* A level comes or goes on the exchange, whose books are never crossed.
LevelChange(t, side, price, on) ==
  LET new == WithLevel(srv[t], side, price, on)
  IN  /\ owed[t] = Nothing /\ new # srv[t]
      /\ changes < MaxChanges /\ changes' = changes + 1
      /\ Uncrossed(new)
      /\ srv' = [srv EXCEPT ![t] = new]
      /\ owed' = IF t \in live
                 THEN [owed EXCEPT ![t] = [side |-> side, price |-> price, on |-> on]]
                 ELSE owed
      /\ UNCHANGED <<live, store, features, snaps, history>>

\* A message with or without the best bid and ask (legs).  The exchange says best_bid
\* "0" of a side without orders.
PriceChange(t, legs) ==
  LET bb == IF legs THEN BestBidOf(srv[t].bids) ELSE 0
      ba == IF legs THEN BestAskOf(srv[t].asks) ELSE 0
  IN  /\ owed[t] # Nothing
      /\ owed' = [owed EXCEPT ![t] = Nothing]
      /\ ApplyPriceChange(t, owed[t], bb, ba)
      /\ Noted(t, (bb > 0 \/ ba > 0) /\ Ignored(t, bb, ba), FALSE)
      /\ UNCHANGED <<srv, changes, live, features, snaps>>

\* best_bid_ask may come before or after the price_change that caused it.
BestBidAsk(t) ==
  LET bb == BestBidOf(srv[t].bids)
      ba == BestAskOf(srv[t].asks)
  IN  /\ t \in live
      /\ ApplyBBA(t, bb, ba)
      /\ Noted(t, Ignored(t, bb, ba), ~book'[t].dirty /\ Far(book'[t].bestAsk, book[t].flushBA))
      /\ UNCHANGED <<exchange, features, snaps>>

Trade(t, price) ==
  /\ t \in live
  /\ ApplyTrade(t, price) /\ Noted(t, t \in kept, FALSE)
  /\ UNCHANGED <<exchange, features, snaps>>

\* The session ends: what was not delivered is lost, the store keeps its books.
SessionEnd ==
  /\ live # {} /\ live' = {}
  /\ owed' = [t \in Tokens |-> Nothing]
  /\ UNCHANGED <<srv, changes, store, features, snaps, history>>

\* market_resolved: RemoveTokens and no more events of t (in this session).
Resolved(t) ==
  /\ t \in live
  /\ live' = live \ {t} /\ owed' = [owed EXCEPT ![t] = Nothing]
  /\ known' = known \ {t} /\ book' = [book EXCEPT ![t] = Fresh]
  /\ Noted(t, FALSE, FALSE)
  /\ UNCHANGED <<srv, changes, features, snaps>>

-----------------------------------------------------------------------------
(* Features flush: PeekDirty, UpsertFeaturesLatest, MarkFlushed.           *)

Dirty == {t \in known : book[t].dirty}

\* A map's iteration order is random: any MaxBatch of the candidates.
SomeOf(S) ==
  IF Cardinality(S) <= MaxBatch THEN {S} ELSE {B \in SUBSET S : Cardinality(B) = MaxBatch}

PeekDirty(B) ==
  /\ FeaturesOn /\ flush = "idle" /\ B # {}
  /\ peeked' = [t \in B |-> Row(book[t])] /\ flush' = "upserting"
  /\ UNCHANGED <<exchange, store, feat, snaps, history>>

\* The batch auto-commits row by row: some rows may be there when it fails.
UpsertFeatures(written) ==
  feat' = [t \in Tokens |-> IF t \in written THEN peeked[t] ELSE feat[t]]

UpsertOK ==
  /\ flush = "upserting" /\ flush' = "marking"
  /\ UpsertFeatures(DOMAIN peeked)
  /\ UNCHANGED <<exchange, store, peeked, snaps, history>>

UpsertFails_MutantMarks(written) ==
  /\ flush = "upserting" /\ flush' = "marking"
  /\ UpsertFeatures(written)
  /\ UNCHANGED <<exchange, store, peeked, snaps, history>>

UpsertFails(written) ==
  /\ flush = "upserting" /\ flush' = "idle"
  /\ UpsertFeatures(written)
  /\ peeked' = [t \in {} |-> NoRow] /\ racing' = {}
  /\ UNCHANGED <<exchange, store, snaps, loose, kept, missed>>

\* Clears Dirty and takes the last-flush marks from the book as it is now.
MarkFlushed ==
  /\ flush = "marking" /\ flush' = "idle"
  /\ book' = [t \in Tokens |->
       IF t \in DOMAIN peeked \cap known
       THEN [book[t] EXCEPT !.dirty = FALSE, !.flushMid = Mid2(book[t].bestBid, book[t].bestAsk),
                            !.flushBB = book[t].bestBid, !.flushBA = book[t].bestAsk]
       ELSE book[t]]
  /\ peeked' = [t \in {} |-> NoRow]
  /\ racing' = {} /\ loose' = (loose \ DOMAIN peeked) \cup racing
  /\ UNCHANGED <<exchange, known, feat, snaps, kept, missed>>

-----------------------------------------------------------------------------
(* Snapshot flush: TakeChangedForSnapshot marks at once, then the insert.  *)

Moved_MutantMidOnly(b) ==
  b.snapMid = 0 \/ FarMid(Mid2(b.bestBid, b.bestAsk), b.snapMid)

Moved(b) ==
  \/ b.snapMid = 0
  \/ FarMid(Mid2(b.bestBid, b.bestAsk), b.snapMid)
  \/ Far(b.bestBid, b.snapBB) \/ Far(b.bestAsk, b.snapBA)

Changed == {t \in known : ValidBook(book[t]) /\ Moved(book[t])}

TakeChanged(B) ==
  /\ SnapshotsOn /\ snapping = "idle" /\ B # {}
  /\ book' = [t \in Tokens |->
       IF t \in B
       THEN [book[t] EXCEPT !.snapMid = Mid2(book[t].bestBid, book[t].bestAsk),
                            !.snapBB = book[t].bestBid, !.snapBA = book[t].bestAsk]
       ELSE book[t]]
  /\ taken' = [t \in B |-> Row(book[t])] /\ snapping' = "inserting"
  /\ UNCHANGED <<exchange, known, features, snap, history>>

InsertOK ==
  /\ snapping = "inserting" /\ snapping' = "idle"
  /\ snap' = [t \in Tokens |-> IF t \in DOMAIN taken THEN taken[t] ELSE snap[t]]
  /\ taken' = [t \in {} |-> NoRow] /\ missed' = missed \ DOMAIN taken
  /\ UNCHANGED <<exchange, store, features, racing, loose, kept>>

InsertFails ==
  /\ snapping = "inserting" /\ snapping' = "idle"
  /\ taken' = [t \in {} |-> NoRow] /\ missed' = missed \cup DOMAIN taken
  /\ UNCHANGED <<exchange, store, features, snap, racing, loose, kept>>

-----------------------------------------------------------------------------
Exchange ==
  \E t \in Tokens :
    \/ Dump(t) \/ BestBidAsk(t) \/ Resolved(t)
    \/ \E legs \in BOOLEAN : PriceChange(t, legs)
    \/ \E price \in TradePrices : Trade(t, price)
    \/ \E side \in Sides, price \in Prices, on \in BOOLEAN : LevelChange(t, side, price, on)

FeaturesFlush ==
  \/ \E B \in SomeOf(Dirty) : PeekDirty(B)
  \/ UpsertOK \/ \E written \in SUBSET DOMAIN peeked : UpsertFails(written)
  \/ MarkFlushed

SnapshotFlush ==
  \/ \E B \in SomeOf(Changed) : TakeChanged(B)
  \/ InsertOK \/ InsertFails

Next == Exchange \/ SessionEnd \/ FeaturesFlush \/ SnapshotFlush

Spec == Init /\ [][Next]_vars

-----------------------------------------------------------------------------
(* Properties.                                                             *)

\* A streamed book has the exchange's best bid and ask, zero for a side without orders
\* (book_test.go, TestPriceChangeSizeZeroRemovesLevel), unless the last message that
\* named them had a zero the store ignored.
TopMirrorsUnlessKept ==
  \A t \in live \ kept : owed[t] = Nothing =>
    book[t].bestBid = BestBidOf(srv[t].bids) /\ book[t].bestAsk = BestAskOf(srv[t].asks)

\* The features row of a book agrees with it within Epsilon, and has its last trade.
Durable(t) ==
  /\ ~Far(feat[t].bestBid, book[t].bestBid) /\ ~Far(feat[t].bestAsk, book[t].bestAsk)
  /\ feat[t].trade = book[t].trade

\* "Clears Dirty ... after durable write": a clean book is durable.
CleanMeansDurable == \A t \in known : book[t].dirty \/ Durable(t)

\* A clean book that is not durable either had an event while its flush was under way
\* (MarkFlushed then marks what was not written) or a best_bid_ask that moved only its
\* ask (applyBBA does not look at it).
StaleMeansLoose == \A t \in known \ loose : book[t].dirty \/ Durable(t)

\* "books whose BBA/mid moved enough since last snapshot write": a valid book the next
\* snapshot would skip is within Epsilon of its last row, unless its last insert failed
\* (the marks are set before the insert).
SkippedMeansStored ==
  \A t \in known \ (missed \cup DOMAIN taken) :
    ValidBook(book[t]) /\ ~Moved(book[t]) =>
      ~Far(snap[t].bestBid, book[t].bestBid) /\ ~Far(snap[t].bestAsk, book[t].bestAsk)
=============================================================================
