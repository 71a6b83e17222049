------------------------- MODULE MarketChannelProofs -------------------------
(***************************************************************************)
(* Proofs about MarketChannel: the books, for every set of tokens and of   *)
(* prices, threshold, cap of a flush and choice of flushes; the            *)
(* subscription, for every cap and number of boards, connections and       *)
(* resolutions.                                                            *)
(***************************************************************************)
EXTENDS MarketChannel, FiniteSetTheorems, WellFoundedInduction, TLAPS

-----------------------------------------------------------------------------
(* The books: the best prices of a set of levels.                          *)

Price == Prices \cup {0}

\* A finite set of naturals that is not empty has a greatest and a least element: a least
\* number of elements of a set that has none would be one more than that of a set without
\* one of them, which has both.
HasBoth(S) == (\E x \in S : \A y \in S : x >= y) /\ (\E x \in S : \A y \in S : x <= y)

LEMMA Extremes ==
  ASSUME NEW S \in SUBSET Nat, IsFiniteSet(S), S # {}
  PROVE  HasBoth(S)
<1> DEFINE Bad == {n \in Nat : \E T \in SUBSET S : T # {} /\ Cardinality(T) = n /\ ~HasBoth(T)}
<1>1. SUFFICES ASSUME ~HasBoth(S) PROVE FALSE
  OBVIOUS
<1>2. \A T \in SUBSET S : IsFiniteSet(T) /\ Cardinality(T) \in Nat
  BY FS_Subset, FS_CardinalityType
<1>3. Bad \in SUBSET Nat /\ Cardinality(S) \in Bad
  BY <1>1, <1>2
<1>4. PICK n \in Bad : \A m \in Bad : ~(<<m, n>> \in OpToRel(<, Nat))
  <2> HIDE DEF Bad
  <2>1. Bad \in SUBSET Nat /\ Bad # {}
    BY <1>3
  <2> QED
    BY <2>1, NatLessThanWellFounded, WFMin, Zenon
<1>5. PICK T \in SUBSET S : T # {} /\ Cardinality(T) = n /\ ~HasBoth(T)
  OBVIOUS
<1>6. PICK a \in T : TRUE
  BY <1>5
<1> DEFINE R == T \ {a}
<1>7. R \in SUBSET S /\ Cardinality(R) = n - 1 /\ Cardinality(R) \in Nat /\ n \in Nat
  BY <1>2, <1>5, <1>6, FS_RemoveElement
<1>8. CASE R = {}
  <2>1. T = {a} /\ a \in Nat
    BY <1>6, <1>8
  <2>2. HasBoth(T)
    BY <2>1 DEF HasBoth
  <2> QED
    BY <1>5, <2>2
<1>9. CASE R # {}
  <2>1. Cardinality(R) \notin Bad
    <3>1. Cardinality(R) < n /\ n \in Nat /\ Cardinality(R) \in Nat
      BY <1>7
    <3>2. <<Cardinality(R), n>> \in OpToRel(<, Nat)
      BY <3>1 DEF OpToRel
    <3> QED
      BY <1>4, <3>2
  <2>2. HasBoth(R)
    BY <1>7, <1>9, <2>1
  <2>3. PICK x \in R : \A y \in R : x >= y
    BY <2>2 DEF HasBoth
  <2>4. PICK z \in R : \A y \in R : z <= y
    BY <2>2 DEF HasBoth
  <2>5. a \in Nat /\ x \in Nat /\ z \in Nat /\ R \subseteq Nat /\ T = R \cup {a}
    BY <1>6
  <2> HIDE DEF R
  <2>6. (\A y \in T : (IF a >= x THEN a ELSE x) >= y) /\ (IF a >= x THEN a ELSE x) \in T
    BY <2>3, <2>5
  <2>7. (\A y \in T : (IF a <= z THEN a ELSE z) <= y) /\ (IF a <= z THEN a ELSE z) \in T
    BY <2>4, <2>5
  <2>8. HasBoth(T)
    BY <2>6, <2>7 DEF HasBoth
  <2> QED
    BY <1>5, <2>8
<1> QED
  BY <1>8, <1>9

\* The best prices are prices, or zero.
LEMMA BestTyped ==
  ASSUME BookAssumption, NEW S \in SUBSET Prices
  PROVE  BestBidOf(S) \in Price /\ BestAskOf(S) \in Price
<1>1. CASE S = {}
  BY <1>1 DEF BestBidOf, BestAskOf, Price
<1>2. CASE S # {}
  <2>1. S \in SUBSET Nat /\ IsFiniteSet(S)
    BY FS_Subset DEF BookAssumption
  <2>2. HasBoth(S)
    BY <1>2, <2>1, Extremes
  <2>3. Max(S) \in S /\ Min(S) \in S
    BY <2>2 DEF HasBoth, Max, Min
  <2> QED
    BY <1>2, <2>3 DEF BestBidOf, BestAskOf, Price
<1> QED
  BY <1>1, <1>2

\* Prices are naturals.
LEMMA PriceIsNat == ASSUME BookAssumption PROVE Price \subseteq Nat /\ Price0 = Price
BY DEF BookAssumption, Price, Price0

\* What is far from a price is far from it, seen from either.
LEMMA FarIsSymmetric ==
  ASSUME NEW x, NEW y
  PROVE  Far(x, y) <=> Far(y, x)
BY DEF Far

-----------------------------------------------------------------------------
(* Books and what is applied to them.                                      *)

Book == [bids : SUBSET Prices, asks : SUBSET Prices, bestBid : Price, bestAsk : Price,
         trade : Price, dirty : BOOLEAN, flushMid : Nat, flushBB : Price, flushBA : Price,
         snapMid : Nat, snapBB : Price, snapBA : Price]

\* A level that is set or removed changes one side and nothing else.
LEMMA WithLevelIs ==
  ASSUME NEW b \in Book, NEW side \in Sides, NEW price \in Prices, NEW on \in BOOLEAN
  PROVE  LET l == WithLevel(b, side, price, on) IN
           /\ l \in Book /\ l.bestBid = b.bestBid /\ l.bestAsk = b.bestAsk
           /\ l.trade = b.trade /\ l.dirty = b.dirty
           /\ l.flushMid = b.flushMid /\ l.flushBB = b.flushBB /\ l.flushBA = b.flushBA
           /\ l.snapMid = b.snapMid /\ l.snapBB = b.snapBB /\ l.snapBA = b.snapBA
BY DEF WithLevel, Book

\* Two books with one's levels have them after the same change.
LEMMA SameChange ==
  ASSUME NEW b \in Book, NEW l \in Levels, b.bids = l.bids, b.asks = l.asks,
         NEW side, NEW price, NEW on
  PROVE  /\ WithLevel(b, side, price, on).bids = WithLevel(l, side, price, on).bids
         /\ WithLevel(b, side, price, on).asks = WithLevel(l, side, price, on).asks
BY DEF WithLevel, Book, Levels

\* A change of the exchange's levels leaves levels.
LEMMA LevelTyped ==
  ASSUME NEW l \in Levels, NEW side, NEW price \in Prices, NEW on
  PROVE  WithLevel(l, side, price, on) \in Levels
BY DEF WithLevel, Levels

\* The top taken from the levels, or from a message.
LEMMA TopIs ==
  ASSUME BookAssumption, NEW b \in Book
  PROVE  LET r == RecomputeTop(b) IN
           /\ r \in Book /\ r.bids = b.bids /\ r.asks = b.asks
           /\ r.bestBid = BestBidOf(b.bids) /\ r.bestAsk = BestAskOf(b.asks)
           /\ r.trade = b.trade /\ r.dirty = b.dirty
           /\ r.flushMid = b.flushMid /\ r.flushBB = b.flushBB /\ r.flushBA = b.flushBA
           /\ r.snapMid = b.snapMid /\ r.snapBB = b.snapBB /\ r.snapBA = b.snapBA
<1>1. b.bids \in SUBSET Prices /\ b.asks \in SUBSET Prices
  BY DEF Book
<1>2. BestBidOf(b.bids) \in Price /\ BestAskOf(b.asks) \in Price
  BY <1>1, BestTyped
<1> QED
  BY <1>2 DEF RecomputeTop, Book

\* The top taken from a message: a zero leaves what the book has.
LEMMA TakenTopIs ==
  ASSUME NEW b \in Book, NEW bb \in Price, NEW ba \in Price
  PROVE  LET r == TakeTop(b, bb, ba) IN
           /\ r \in Book /\ r.bids = b.bids /\ r.asks = b.asks
           /\ r.bestBid = (IF bb > 0 THEN bb ELSE b.bestBid)
           /\ r.bestAsk = (IF ba > 0 THEN ba ELSE b.bestAsk)
           /\ r.trade = b.trade /\ r.dirty = b.dirty
           /\ r.flushMid = b.flushMid /\ r.flushBB = b.flushBB /\ r.flushBA = b.flushBA
           /\ r.snapMid = b.snapMid /\ r.snapBB = b.snapBB /\ r.snapBA = b.snapBA
BY DEF TakeTop, Book

\* The mid of prices is a natural.
LEMMA MidTyped ==
  ASSUME BookAssumption, NEW b \in Book
  PROVE  Mid2(b.bestBid, b.bestAsk) \in Nat
BY PriceIsNat DEF Mid2, Book

-----------------------------------------------------------------------------
(* Types.                                                                  *)

Changes == [side : Sides, price : Prices, on : BOOLEAN]

Types ==
  /\ srv \in [Tokens -> Levels] /\ live \subseteq Tokens /\ known \subseteq Tokens
  /\ owed \in [Tokens -> Changes \cup {Nothing}]
  /\ book \in [Tokens -> Book] /\ \A t \in Tokens \ known : book[t] = Fresh
  /\ DOMAIN peeked \subseteq Tokens /\ DOMAIN taken \subseteq Tokens
  /\ racing \subseteq DOMAIN peeked

\* What the reader does to the book b of t: the marks of the flushes stay, a book that is
\* new becomes dirty, and one that is left clean has its trade and, unless it is loose,
\* its top near the last flush.
Event(t, b) ==
  /\ t \in Tokens /\ b \in Book
  /\ book' = [book EXCEPT ![t] = b] /\ known' = known \cup {t}
  /\ b.flushBB = book[t].flushBB /\ b.flushBA = book[t].flushBA
  /\ b.snapMid = book[t].snapMid /\ b.snapBB = book[t].snapBB /\ b.snapBA = book[t].snapBA
  /\ t \in known \/ b.dirty
  /\ b.dirty \/ (~book[t].dirty /\ b.trade = book[t].trade /\ ~Far(b.bestBid, b.flushBB))
  /\ b.dirty \/ ~Far(b.bestAsk, b.flushBA) \/ t \in loose'
  /\ racing' = With(racing, t, t \in DOMAIN peeked)
  /\ loose \subseteq loose' /\ loose' \subseteq loose \cup {t}
  /\ kept' \ {t} = kept \ {t}
  /\ UNCHANGED <<missed, features, snaps>>

\* The exchange's levels and best prices are prices, and a token's book is a book.
LEMMA SrvTyped ==
  ASSUME BookAssumption, Types, NEW t \in Tokens
  PROVE  /\ srv[t].bids \in SUBSET Prices /\ srv[t].asks \in SUBSET Prices
         /\ BestBidOf(srv[t].bids) \in Price /\ BestAskOf(srv[t].asks) \in Price
         /\ book[t] \in Book
<1>1. srv[t].bids \in SUBSET Prices /\ srv[t].asks \in SUBSET Prices /\ book[t] \in Book
  BY DEF Types, Levels
<1> QED
  BY <1>1, BestTyped

\* The dump sets the book to the exchange's levels.
LEMMA DumpIs ==
  ASSUME BookAssumption, Types, NEW t \in Tokens, Dump(t)
  PROVE  \E b : /\ Event(t, b) /\ b.bids = srv[t].bids /\ b.asks = srv[t].asks
                /\ b.bestBid = BestBidOf(srv[t].bids) /\ b.bestAsk = BestAskOf(srv[t].asks)
                /\ live' = live \cup {t} /\ UNCHANGED <<srv, owed>> /\ t \notin live
<1> DEFINE c == [book[t] EXCEPT !.bids = srv[t].bids, !.asks = srv[t].asks]
           r == RecomputeTop(c)
           b == [r EXCEPT !.dirty = TRUE]
<1>1. book[t] \in Book /\ srv[t].bids \in SUBSET Prices /\ srv[t].asks \in SUBSET Prices
  BY SrvTyped
<1>2. /\ c \in Book /\ c.bids = srv[t].bids /\ c.asks = srv[t].asks
      /\ c.flushBB = book[t].flushBB /\ c.flushBA = book[t].flushBA
      /\ c.snapMid = book[t].snapMid /\ c.snapBB = book[t].snapBB /\ c.snapBA = book[t].snapBA
  BY <1>1 DEF Book
<1>3. Update(t, b) /\ Noted(t, FALSE, FALSE) /\ live' = live \cup {t} /\ t \notin live
      /\ UNCHANGED <<srv, owed, features, snaps>>
  BY DEF Dump, ApplyBook
<1> HIDE DEF c
<1>4. /\ r \in Book /\ r.bids = c.bids /\ r.asks = c.asks
      /\ r.bestBid = BestBidOf(c.bids) /\ r.bestAsk = BestAskOf(c.asks)
      /\ r.flushBB = c.flushBB /\ r.flushBA = c.flushBA
      /\ r.snapMid = c.snapMid /\ r.snapBB = c.snapBB /\ r.snapBA = c.snapBA
  BY <1>2, TopIs
<1> HIDE DEF r
<1>5. /\ b \in Book /\ b.dirty /\ b.bids = r.bids /\ b.asks = r.asks
      /\ b.bestBid = r.bestBid /\ b.bestAsk = r.bestAsk
      /\ b.flushBB = r.flushBB /\ b.flushBA = r.flushBA
      /\ b.snapMid = r.snapMid /\ b.snapBB = r.snapBB /\ b.snapBA = r.snapBA
  BY <1>4 DEF Book
<1> HIDE DEF b
<1>6. Event(t, b)
  BY <1>2, <1>3, <1>4, <1>5 DEF Event, Update, Noted, With
<1>7. /\ b.bids = srv[t].bids /\ b.asks = srv[t].asks
      /\ b.bestBid = BestBidOf(srv[t].bids) /\ b.bestAsk = BestAskOf(srv[t].asks)
  BY <1>2, <1>4, <1>5
<1> QED
  BY <1>3, <1>6, <1>7

\* A price_change applies the change owed; its top, unless it is ignored, is that of the
\* exchange if the levels are.
LEMMA PriceChangeIs ==
  ASSUME BookAssumption, Types, NEW t \in Tokens, NEW legs \in BOOLEAN, PriceChange(t, legs),
         t \in known
  PROVE  LET l == WithLevel(book[t], owed[t].side, owed[t].price, owed[t].on) IN
         \E b : /\ Event(t, b) /\ b.bids = l.bids /\ b.asks = l.asks
                /\ owed' = [owed EXCEPT ![t] = Nothing] /\ UNCHANGED <<srv, live>>
                /\ owed[t] # Nothing
                /\ l.bids = srv[t].bids /\ l.asks = srv[t].asks /\ t \notin kept' =>
                     /\ b.bestBid = BestBidOf(srv[t].bids)
                     /\ b.bestAsk = BestAskOf(srv[t].asks)
<1> DEFINE l == WithLevel(book[t], owed[t].side, owed[t].price, owed[t].on)
           bb == IF legs THEN BestBidOf(srv[t].bids) ELSE 0
           ba == IF legs THEN BestAskOf(srv[t].asks) ELSE 0
           named == bb > 0 \/ ba > 0
           c == IF named THEN TakeTop(l, bb, ba) ELSE RecomputeTop(l)
           b == [c EXCEPT !.dirty = c.dirty \/ ChangedEnough(c)]
<1>1. /\ owed[t] # Nothing /\ owed' = [owed EXCEPT ![t] = Nothing] /\ UNCHANGED <<srv, live>>
      /\ Update(t, b) /\ Noted(t, named /\ Ignored(t, bb, ba), FALSE)
      /\ UNCHANGED <<features, snaps>>
  BY DEF PriceChange, ApplyPriceChange
<1>2. /\ srv[t].bids \in SUBSET Prices /\ srv[t].asks \in SUBSET Prices /\ book[t] \in Book
      /\ BestBidOf(srv[t].bids) \in Price /\ BestAskOf(srv[t].asks) \in Price
  BY SrvTyped
<1>3. 0 \in Price /\ Price \subseteq Nat
  BY PriceIsNat DEF Price
<1>4. bb \in Price /\ ba \in Price
  BY <1>2, <1>3
<1>5. owed[t].side \in Sides /\ owed[t].price \in Prices /\ owed[t].on \in BOOLEAN
  <2>1. owed[t] \in Changes
    BY <1>1 DEF Types
  <2> QED
    BY <2>1 DEF Changes
<1>6. /\ l \in Book /\ l.bestBid = book[t].bestBid /\ l.bestAsk = book[t].bestAsk
      /\ l.trade = book[t].trade /\ l.dirty = book[t].dirty
      /\ l.flushMid = book[t].flushMid /\ l.flushBB = book[t].flushBB
      /\ l.flushBA = book[t].flushBA /\ l.snapMid = book[t].snapMid
      /\ l.snapBB = book[t].snapBB /\ l.snapBA = book[t].snapBA
  BY ONLY <1>2, <1>5, WithLevelIs
<1> HIDE DEF l, bb, ba
<1>7. /\ c \in Book /\ c.bids = l.bids /\ c.asks = l.asks
      /\ c.trade = l.trade /\ c.dirty = l.dirty
      /\ c.flushMid = l.flushMid /\ c.flushBB = l.flushBB /\ c.flushBA = l.flushBA
      /\ c.snapMid = l.snapMid /\ c.snapBB = l.snapBB /\ c.snapBA = l.snapBA
      /\ named => /\ c.bestBid = (IF bb > 0 THEN bb ELSE l.bestBid)
                  /\ c.bestAsk = (IF ba > 0 THEN ba ELSE l.bestAsk)
      /\ ~named => c.bestBid = BestBidOf(l.bids) /\ c.bestAsk = BestAskOf(l.asks)
  <2>1. CASE named
    <3>1. c = TakeTop(l, bb, ba)
      BY <2>1
    <3> QED
      BY <1>4, <1>6, <2>1, <3>1, TakenTopIs
  <2>2. CASE ~named
    <3>1. c = RecomputeTop(l)
      BY <2>2
    <3> QED
      BY <1>6, <2>2, <3>1, TopIs
  <2> QED
    BY <2>1, <2>2
<1> DEFINE enough == ChangedEnough(c)
<1>8. enough \in BOOLEAN
  BY DEF ChangedEnough
<1>9. enough \/ (~Far(c.bestBid, c.flushBB) /\ ~Far(c.bestAsk, c.flushBA))
  BY DEF ChangedEnough
<1> HIDE DEF c, enough
<1>10. /\ b \in Book /\ b.dirty = (c.dirty \/ enough) /\ b.bids = c.bids /\ b.asks = c.asks
       /\ b.bestBid = c.bestBid /\ b.bestAsk = c.bestAsk /\ b.trade = c.trade
       /\ b.flushBB = c.flushBB /\ b.flushBA = c.flushBA
       /\ b.snapMid = c.snapMid /\ b.snapBB = c.snapBB /\ b.snapBA = c.snapBA
  <2>1. b = [c EXCEPT !.dirty = c.dirty \/ enough]
    BY DEF enough
  <2>2. c.dirty \/ enough \in BOOLEAN
    BY <1>7, <1>8 DEF Book
  <2> HIDE DEF b
  <2> QED
    BY <1>7, <2>1, <2>2 DEF Book
<1> HIDE DEF b
<1>11. book' = [book EXCEPT ![t] = b] /\ known' = known \cup {t}
  BY <1>1 DEF Update
<1>12. /\ b.dirty \/ (~book[t].dirty /\ b.trade = book[t].trade /\ ~Far(b.bestBid, b.flushBB))
       /\ b.dirty \/ ~Far(b.bestAsk, b.flushBA)
  BY <1>6, <1>7, <1>9, <1>10
<1>13. Event(t, b)
  BY <1>1, <1>6, <1>7, <1>10, <1>11, <1>12 DEF Event, Noted, With
<1>14. ASSUME l.bids = srv[t].bids, l.asks = srv[t].asks, t \notin kept'
       PROVE  b.bestBid = BestBidOf(srv[t].bids) /\ b.bestAsk = BestAskOf(srv[t].asks)
  <2>1. CASE ~named
    BY <1>7, <1>10, <1>14, <2>1
  <2>2. CASE named
    <3>1. ~Ignored(t, bb, ba)
      BY <1>1, <1>14, <2>2 DEF Noted, With
    <3>2. bb = BestBidOf(srv[t].bids) /\ ba = BestAskOf(srv[t].asks)
      BY <1>3, <2>2 DEF bb, ba
    <3>3. book[t].bestBid \in Nat /\ book[t].bestAsk \in Nat /\ bb \in Nat /\ ba \in Nat
      BY <1>2, <1>3, <1>4 DEF Book
    <3>4. c.bestBid = bb /\ c.bestAsk = ba
      <4> HIDE DEF named
      <4>1. /\ bb > 0 \/ (bb = 0 /\ book[t].bestBid = 0)
            /\ ba > 0 \/ (ba = 0 /\ book[t].bestAsk = 0)
        BY <3>1, <3>3 DEF Ignored
      <4> QED
        BY <1>6, <1>7, <2>2, <3>3, <4>1
    <3> QED
      BY <1>10, <3>2, <3>4
  <2> QED
    BY <2>1, <2>2
<1> QED
  BY <1>1, <1>7, <1>10, <1>13, <1>14 DEF l

\* A best_bid_ask leaves the levels alone and, unless it is ignored, has the right top.
LEMMA BestBidAskIs ==
  ASSUME BookAssumption, Types, NEW t \in Tokens, BestBidAsk(t), t \in known
  PROVE  \E b : /\ Event(t, b) /\ b.bids = book[t].bids /\ b.asks = book[t].asks
                /\ UNCHANGED <<srv, live, owed>>
                /\ t \notin kept' => /\ b.bestBid = BestBidOf(srv[t].bids)
                                     /\ b.bestAsk = BestAskOf(srv[t].asks)
<1> DEFINE bb == BestBidOf(srv[t].bids)
           ba == BestAskOf(srv[t].asks)
           old == book[t]
           c == TakeTop(old, bb, ba)
           d == \/ c.dirty
                \/ FarMid(Mid2(c.bestBid, c.bestAsk), Mid2(old.bestBid, old.bestAsk))
                \/ Far(c.bestBid, c.flushBB)
           b == [c EXCEPT !.dirty = d]
<1>1. /\ Update(t, b) /\ UNCHANGED <<srv, live, owed>>
      /\ Noted(t, Ignored(t, bb, ba), ~book'[t].dirty /\ Far(book'[t].bestAsk, book[t].flushBA))
      /\ UNCHANGED <<features, snaps>>
  BY DEF BestBidAsk, ApplyBBA, exchange
<1>2. book[t] \in Book /\ bb \in Price /\ ba \in Price
  BY SrvTyped
<1> HIDE DEF bb, ba
<1>3. /\ c \in Book /\ c.bids = old.bids /\ c.asks = old.asks
      /\ c.bestBid = (IF bb > 0 THEN bb ELSE old.bestBid)
      /\ c.bestAsk = (IF ba > 0 THEN ba ELSE old.bestAsk)
      /\ c.trade = old.trade /\ c.dirty = old.dirty
      /\ c.flushBB = old.flushBB /\ c.flushBA = old.flushBA
      /\ c.snapMid = old.snapMid /\ c.snapBB = old.snapBB /\ c.snapBA = old.snapBA
  BY <1>2, TakenTopIs
<1>4. d \in BOOLEAN /\ (c.dirty => d) /\ (Far(c.bestBid, c.flushBB) => d)
  BY <1>3 DEF Book, FarMid, Far
<1> HIDE DEF c, d
<1>5. /\ b \in Book /\ b.dirty = d /\ b.bids = c.bids /\ b.asks = c.asks
      /\ b.bestBid = c.bestBid /\ b.bestAsk = c.bestAsk /\ b.trade = c.trade
      /\ b.flushBB = c.flushBB /\ b.flushBA = c.flushBA
      /\ b.snapMid = c.snapMid /\ b.snapBB = c.snapBB /\ b.snapBA = c.snapBA
  BY <1>3, <1>4 DEF Book
<1> HIDE DEF b
<1>6. book' = [book EXCEPT ![t] = b] /\ known' = known \cup {t} /\ book'[t] = b
  BY <1>1 DEF Update, Types
<1>7. /\ b.dirty \/ (~book[t].dirty /\ b.trade = book[t].trade /\ ~Far(b.bestBid, b.flushBB))
      /\ b.dirty \/ ~Far(b.bestAsk, b.flushBA) \/ t \in loose'
  <2>1. t \in loose \/ (~b.dirty /\ Far(b.bestAsk, b.flushBA)) => t \in loose'
    BY <1>1, <1>3, <1>5, <1>6 DEF Noted, With
  <2> QED
    BY <1>3, <1>4, <1>5, <2>1
<1>8. Event(t, b)
  BY <1>1, <1>3, <1>5, <1>6, <1>7 DEF Event, Noted, With
<1>9. ASSUME t \notin kept' PROVE b.bestBid = bb /\ b.bestAsk = ba
  <2>1. ~Ignored(t, bb, ba)
    BY <1>1, <1>9 DEF Noted, With
  <2>2. book[t].bestBid \in Nat /\ book[t].bestAsk \in Nat /\ bb \in Nat /\ ba \in Nat
    BY <1>2, PriceIsNat DEF Book
  <2>3. (bb > 0 \/ (bb = 0 /\ book[t].bestBid = 0)) /\ (ba > 0 \/ (ba = 0 /\ book[t].bestAsk = 0))
    BY <2>1, <2>2 DEF Ignored
  <2> QED
    BY <1>3, <1>5, <2>2, <2>3
<1> QED
  BY <1>1, <1>3, <1>5, <1>8, <1>9 DEF bb, ba

\* A trade sets the last trade and leaves the rest alone.
LEMMA TradeIs ==
  ASSUME BookAssumption, Types, NEW t \in Tokens, NEW price \in TradePrices, Trade(t, price)
  PROVE  \E b : /\ Event(t, b) /\ b.bids = book[t].bids /\ b.asks = book[t].asks
                /\ b.bestBid = book[t].bestBid /\ b.bestAsk = book[t].bestAsk
                /\ UNCHANGED <<srv, live, owed>> /\ (t \in kept => t \in kept')
<1> DEFINE b == [book[t] EXCEPT !.trade = price, !.dirty = TRUE]
<1>1. Update(t, b) /\ Noted(t, t \in kept, FALSE) /\ UNCHANGED <<srv, live, owed, features, snaps>>
  BY DEF Trade, ApplyTrade, exchange
<1>2. book[t] \in Book /\ price \in Price
  BY DEF Types, BookAssumption, Price
<1>3. /\ b \in Book /\ b.dirty /\ b.bids = book[t].bids /\ b.asks = book[t].asks
      /\ b.bestBid = book[t].bestBid /\ b.bestAsk = book[t].bestAsk
      /\ b.flushBB = book[t].flushBB /\ b.flushBA = book[t].flushBA
      /\ b.snapMid = book[t].snapMid /\ b.snapBB = book[t].snapBB /\ b.snapBA = book[t].snapBA
  BY <1>2 DEF Book
<1> HIDE DEF b
<1>4. Event(t, b)
  BY <1>1, <1>3 DEF Event, Update, Noted, With
<1>5. t \in kept => t \in kept'
  BY <1>1 DEF Noted, With
<1> QED
  BY <1>1, <1>3, <1>4, <1>5

-----------------------------------------------------------------------------
(* The invariants.                                                         *)

\* The book of a streamed token has the exchange's levels, but for the change owed.
Follows(t) ==
  /\ owed[t] = Nothing => book[t].bids = srv[t].bids /\ book[t].asks = srv[t].asks
  /\ owed[t] # Nothing =>
       LET l == WithLevel(book[t], owed[t].side, owed[t].price, owed[t].on) IN
         l.bids = srv[t].bids /\ l.asks = srv[t].asks

Mirror ==
  /\ \A t \in Tokens : t \notin live => owed[t] = Nothing
  /\ live \subseteq known
  /\ \A t \in live : Follows(t)

\* A clean book is near its marks, and the features row has them and its trade.
Marked(t) ==
  /\ feat[t].bestBid = book[t].flushBB /\ feat[t].bestAsk = book[t].flushBA
  /\ feat[t].trade = book[t].trade
  /\ ~Far(book[t].bestBid, book[t].flushBB) /\ ~Far(book[t].bestAsk, book[t].flushBA)

Flushed == \A t \in known \ loose : book[t].dirty \/ Marked(t)

\* A book that is being flushed is dirty until it is marked, and is what was copied unless
\* it had an event since.
Peeks ==
  /\ flush = "idle" => DOMAIN peeked = {}
  /\ \A t \in DOMAIN peeked : t \in known => book[t].dirty
  /\ \A t \in DOMAIN peeked \ racing : t \in known /\ peeked[t] = Row(book[t])
  /\ flush = "marking" => \A t \in DOMAIN peeked : feat[t] = peeked[t]

\* The snapshot marks are those of the row being inserted, or of the last row.
Snapped ==
  /\ snapping = "idle" => DOMAIN taken = {}
  /\ \A t \in known : book[t].snapMid # 0 =>
       /\ t \in DOMAIN taken =>
            taken[t].bestBid = book[t].snapBB /\ taken[t].bestAsk = book[t].snapBA
       /\ t \notin DOMAIN taken \cup missed =>
            snap[t].bestBid = book[t].snapBB /\ snap[t].bestAsk = book[t].snapBA

IInv == Types /\ Mirror /\ TopMirrorsUnlessKept /\ Flushed /\ Peeks /\ Snapped

\* What the reader does keeps what the flushes rely on.
LEMMA EventKeeps ==
  ASSUME Types, Flushed, Peeks, Snapped, NEW u, NEW b, Event(u, b)
  PROVE  /\ Flushed' /\ Peeks' /\ Snapped'
         /\ book' \in [Tokens -> Book] /\ known' \subseteq Tokens
         /\ DOMAIN peeked' \subseteq Tokens /\ DOMAIN taken' \subseteq Tokens
         /\ racing' \subseteq DOMAIN peeked' /\ \A t \in Tokens \ known' : book'[t] = Fresh
<1>1. /\ u \in Tokens /\ b \in Book /\ book' = [book EXCEPT ![u] = b] /\ known' = known \cup {u}
      /\ UNCHANGED <<flush, peeked, feat, snapping, taken, snap, missed>>
      /\ racing' = With(racing, u, u \in DOMAIN peeked)
      /\ loose \subseteq loose' /\ loose' \subseteq loose \cup {u}
  BY DEF Event, features, snaps
<1>2. /\ b.flushBB = book[u].flushBB /\ b.flushBA = book[u].flushBA
      /\ b.snapMid = book[u].snapMid /\ b.snapBB = book[u].snapBB /\ b.snapBA = book[u].snapBA
      /\ u \in known \/ b.dirty
      /\ b.dirty \/ (~book[u].dirty /\ b.trade = book[u].trade /\ ~Far(b.bestBid, b.flushBB))
      /\ b.dirty \/ ~Far(b.bestAsk, b.flushBA) \/ u \in loose'
  BY DEF Event
<1>3. /\ book'[u] = b /\ \A t \in Tokens \ {u} : book'[t] = book[t]
      /\ known \subseteq Tokens /\ DOMAIN peeked \subseteq Tokens /\ racing \subseteq DOMAIN peeked
      /\ DOMAIN taken \subseteq Tokens
  BY <1>1 DEF Types
<1>4. book' \in [Tokens -> Book] /\ known' \subseteq Tokens
  BY <1>1 DEF Types
<1>5. Flushed'
  <2> SUFFICES ASSUME NEW t \in known' \ loose' PROVE book'[t].dirty \/ Marked(t)'
    BY DEF Flushed
  <2>1. CASE t = u
    <3> SUFFICES ASSUME ~b.dirty PROVE Marked(t)'
      BY <1>3, <2>1
    <3>1. u \in known /\ u \notin loose /\ ~book[u].dirty
      BY <1>1, <1>2, <2>1
    <3>2. Marked(u)
      BY <3>1 DEF Flushed
    <3> QED
      BY <1>1, <1>2, <1>3, <2>1, <3>2 DEF Marked
  <2>2. CASE t # u
    <3>1. t \in known \ loose /\ t \in Tokens
      BY <1>1, <1>3, <2>2
    <3>2. book[t].dirty \/ Marked(t)
      BY <3>1 DEF Flushed
    <3> QED
      BY <1>1, <1>3, <2>2, <3>1, <3>2 DEF Marked
  <2> QED
    BY <2>1, <2>2
<1>6. Peeks'
  <2>1. \A t \in DOMAIN peeked' : t \in known' => book'[t].dirty
    <3> SUFFICES ASSUME NEW t \in DOMAIN peeked, t \in known' PROVE book'[t].dirty
      BY <1>1
    <3>1. t \in known => book[t].dirty
      BY DEF Peeks
    <3> QED
      BY <1>1, <1>2, <1>3, <3>1
  <2>2. \A t \in DOMAIN peeked' \ racing' : t \in known' /\ peeked'[t] = Row(book'[t])
    <3> SUFFICES ASSUME NEW t \in DOMAIN peeked, t \notin racing'
                 PROVE  t \in known' /\ peeked[t] = Row(book'[t])
      BY <1>1
    <3>1. t # u /\ t \notin racing /\ t \in Tokens
      BY <1>1, <1>3 DEF With
    <3>2. t \in known /\ peeked[t] = Row(book[t])
      BY <3>1 DEF Peeks
    <3> QED
      BY <1>1, <1>3, <3>1, <3>2
  <2>3. flush' = "marking" => \A t \in DOMAIN peeked' : feat'[t] = peeked'[t]
    BY <1>1 DEF Peeks
  <2>4. flush' = "idle" => DOMAIN peeked' = {}
    BY <1>1 DEF Peeks
  <2> QED
    BY <2>1, <2>2, <2>3, <2>4 DEF Peeks
<1>7. Snapped'
  <2> SUFFICES ASSUME NEW t \in known', book'[t].snapMid # 0
               PROVE  /\ t \in DOMAIN taken =>
                           taken[t].bestBid = book'[t].snapBB /\ taken[t].bestAsk = book'[t].snapBA
                      /\ t \notin DOMAIN taken \cup missed =>
                           snap[t].bestBid = book'[t].snapBB /\ snap[t].bestAsk = book'[t].snapBA
    BY <1>1 DEF Snapped
  <2>1. book[t].snapMid = book'[t].snapMid /\ book[t].snapBB = book'[t].snapBB
        /\ book[t].snapBA = book'[t].snapBA
    BY <1>1, <1>2, <1>3
  <2>2. t \in known
    <3>1. t \notin known => book[t].snapMid = 0
      BY <1>1, <1>3 DEF Types, Fresh
    <3> QED
      BY <2>1, <3>1
  <2> QED
    BY <2>1, <2>2 DEF Snapped
<1>8. racing' \subseteq DOMAIN peeked'
  BY <1>1, <1>3 DEF With
<1>9. \A t \in Tokens \ known' : book'[t] = Fresh
  BY <1>1, <1>3 DEF Types
<1> QED
  BY <1>1, <1>3, <1>4, <1>5, <1>6, <1>7, <1>8, <1>9

\* Steps that leave the exchange and the tops and levels of the books alone.
LEMMA MirrorStays ==
  ASSUME Types, Mirror, TopMirrorsUnlessKept, UNCHANGED <<exchange, known, kept>>,
         book' \in [Tokens -> Book],
         \A t \in Tokens : /\ book'[t].bids = book[t].bids /\ book'[t].asks = book[t].asks
                           /\ book'[t].bestBid = book[t].bestBid
                           /\ book'[t].bestAsk = book[t].bestAsk
  PROVE  Mirror' /\ TopMirrorsUnlessKept'
<1>1. live \subseteq Tokens /\ book \in [Tokens -> Book]
  BY DEF Types
<1>2. \A t \in Tokens :
        /\ WithLevel(book'[t], owed[t].side, owed[t].price, owed[t].on).bids =
             WithLevel(book[t], owed[t].side, owed[t].price, owed[t].on).bids
        /\ WithLevel(book'[t], owed[t].side, owed[t].price, owed[t].on).asks =
             WithLevel(book[t], owed[t].side, owed[t].price, owed[t].on).asks
  <2> SUFFICES ASSUME NEW t \in Tokens,
                      NEW side, NEW price, NEW on
               PROVE  /\ WithLevel(book'[t], side, price, on).bids =
                           WithLevel(book[t], side, price, on).bids
                      /\ WithLevel(book'[t], side, price, on).asks =
                           WithLevel(book[t], side, price, on).asks
    OBVIOUS
  <2>1. book'[t] \in Book /\ book[t] \in Book
        /\ book'[t].bids = book[t].bids /\ book'[t].asks = book[t].asks
    BY <1>1
  <2> QED
    BY ONLY <2>1 DEF WithLevel, Book
<1>3. \A t \in live : Follows(t)'
  <2> SUFFICES ASSUME NEW t \in live PROVE Follows(t)'
    OBVIOUS
  <2>1. Follows(t) /\ t \in Tokens
    BY <1>1 DEF Mirror
  <2>2. owed' = owed /\ srv' = srv
    BY DEF exchange
  <2> QED
    BY <1>2, <2>1, <2>2 DEF Follows
<1>4. Mirror'
  BY <1>3 DEF Mirror, exchange
<1>5. TopMirrorsUnlessKept'
  BY <1>1 DEF TopMirrorsUnlessKept, exchange
<1> QED
  BY <1>4, <1>5

\* An event of u whose book follows the exchange from now on.
LEMMA EventMirrors ==
  ASSUME Types, Mirror, TopMirrorsUnlessKept, NEW u, NEW b, Event(u, b),
         live' \in {live, live \cup {u}}, u \in live', srv' = srv,
         \A t \in Tokens \ {u} : owed'[t] = owed[t],
         owed'[u] = Nothing => b.bids = srv[u].bids /\ b.asks = srv[u].asks,
         owed'[u] # Nothing =>
           /\ owed'[u] = owed[u]
           /\ b.bids = book[u].bids /\ b.asks = book[u].asks /\ u \in live,
         owed'[u] = Nothing /\ u \notin kept' =>
           b.bestBid = BestBidOf(srv[u].bids) /\ b.bestAsk = BestAskOf(srv[u].asks)
  PROVE  Mirror' /\ TopMirrorsUnlessKept'
<1>1. /\ u \in Tokens /\ b \in Book /\ book' = [book EXCEPT ![u] = b] /\ known' = known \cup {u}
      /\ kept' \ {u} = kept \ {u}
  BY DEF Event
<1>2. /\ book'[u] = b /\ \A t \in Tokens \ {u} : book'[t] = book[t]
      /\ live \subseteq Tokens /\ book[u] \in Book
  BY <1>1 DEF Types
<1>3. \A t \in Tokens : t \notin live' => owed'[t] = Nothing
  <2> SUFFICES ASSUME NEW t \in Tokens, t \notin live' PROVE owed'[t] = Nothing
    OBVIOUS
  <2>1. t # u /\ t \notin live
    OBVIOUS
  <2> QED
    BY <2>1 DEF Mirror
<1>4. live' \subseteq known'
  BY <1>1 DEF Mirror
<1>5. ASSUME NEW t \in live' PROVE Follows(t)'
  <2>1. CASE t # u
    <3>1. t \in live /\ t \in Tokens /\ Follows(t)
      BY <1>2, <2>1 DEF Mirror
    <3>2. owed'[t] = owed[t] /\ book'[t] = book[t] /\ srv' = srv
      BY <1>2, <2>1, <3>1
    <3> QED
      BY <3>1, <3>2 DEF Follows
  <2>2. CASE t = u /\ owed'[u] = Nothing
    BY <1>2, <2>2 DEF Follows
  <2>3. CASE t = u /\ owed'[u] # Nothing
    <3>1. owed'[u] = owed[u] /\ Follows(u) /\ owed[u] # Nothing
      BY <2>3 DEF Mirror
    <3> DEFINE l == WithLevel(book[u], owed[u].side, owed[u].price, owed[u].on)
               m == WithLevel(b, owed[u].side, owed[u].price, owed[u].on)
    <3>2. l.bids = srv[u].bids /\ l.asks = srv[u].asks
      BY <3>1 DEF Follows
    <3>3. b.bids = book[u].bids /\ b.asks = book[u].asks
      BY <2>3
    <3>4. m.bids = l.bids /\ m.asks = l.asks
      BY ONLY <1>1, <1>2, <3>3 DEF WithLevel, Book
    <3>5. m.bids = srv'[u].bids /\ m.asks = srv'[u].asks
      BY <3>2, <3>4
    <3> HIDE DEF l
    <3> QED
      BY <1>2, <2>3, <3>1, <3>5 DEF Follows
  <2> QED
    BY <2>1, <2>2, <2>3
<1>6. Mirror'
  BY <1>3, <1>4, <1>5 DEF Mirror
<1>7. TopMirrorsUnlessKept'
  <2> SUFFICES ASSUME NEW t \in live' \ kept', owed'[t] = Nothing
               PROVE  /\ book'[t].bestBid = BestBidOf(srv'[t].bids)
                      /\ book'[t].bestAsk = BestAskOf(srv'[t].asks)
    BY DEF TopMirrorsUnlessKept
  <2>1. CASE t = u
    BY <1>2, <2>1
  <2>2. CASE t # u
    <3>1. t \in live \ kept /\ t \in Tokens /\ owed[t] = Nothing
      BY <1>1, <1>2, <2>2
    <3> QED
      BY <1>2, <2>2, <3>1 DEF TopMirrorsUnlessKept
  <2> QED
    BY <2>1, <2>2
<1> QED
  BY <1>6, <1>7

\* Messages to the reader keep the invariant.
LEMMA MessageKeeps ==
  ASSUME BookAssumption, IInv, NEW t \in Tokens,
         \/ Dump(t) \/ BestBidAsk(t) \/ \E legs \in BOOLEAN : PriceChange(t, legs)
         \/ \E price \in TradePrices : Trade(t, price)
  PROVE  IInv'
<1>0. Types /\ Mirror /\ TopMirrorsUnlessKept /\ Flushed /\ Peeks /\ Snapped
  BY DEF IInv
<1>1. /\ srv \in [Tokens -> Levels] /\ live \subseteq Tokens
      /\ owed \in [Tokens -> Changes \cup {Nothing}]
      /\ live \subseteq known
  BY <1>0 DEF Types, Mirror
<1>2. CASE Dump(t)
  <2>1. PICK b : /\ Event(t, b) /\ b.bids = srv[t].bids /\ b.asks = srv[t].asks
                 /\ b.bestBid = BestBidOf(srv[t].bids) /\ b.bestAsk = BestAskOf(srv[t].asks)
                 /\ live' = live \cup {t} /\ UNCHANGED <<srv, owed>> /\ t \notin live
    BY <1>0, <1>2, DumpIs
  <2>2. owed'[t] = Nothing
    BY <1>0, <2>1 DEF Mirror
  <2>3. Mirror' /\ TopMirrorsUnlessKept'
    BY <1>0, <2>1, <2>2, EventMirrors
  <2>4. Types' /\ Flushed' /\ Peeks' /\ Snapped'
    BY <1>0, <1>1, <2>1, EventKeeps DEF Types
  <2> QED
    BY <2>3, <2>4 DEF IInv
<1>3. CASE BestBidAsk(t)
  <2>1. t \in live /\ t \in known
    BY <1>1, <1>3 DEF BestBidAsk
  <2>2. PICK b : /\ Event(t, b) /\ b.bids = book[t].bids /\ b.asks = book[t].asks
                 /\ UNCHANGED <<srv, live, owed>>
                 /\ t \notin kept' => /\ b.bestBid = BestBidOf(srv[t].bids)
                                      /\ b.bestAsk = BestAskOf(srv[t].asks)
    BY <1>0, <1>3, <2>1, BestBidAskIs
  <2>3. owed'[t] = Nothing => b.bids = srv[t].bids /\ b.asks = srv[t].asks
    BY <1>0, <2>1, <2>2 DEF Mirror, Follows
  <2>4. Mirror' /\ TopMirrorsUnlessKept'
    BY <1>0, <2>1, <2>2, <2>3, EventMirrors
  <2>5. Types' /\ Flushed' /\ Peeks' /\ Snapped'
    BY <1>0, <1>1, <2>2, EventKeeps DEF Types
  <2> QED
    BY <2>4, <2>5 DEF IInv
<1>4. ASSUME NEW legs \in BOOLEAN, PriceChange(t, legs) PROVE IInv'
  <2>1. t \in live /\ t \in known /\ owed[t] # Nothing
    BY <1>0, <1>1, <1>4 DEF PriceChange, Mirror
  <2> DEFINE l == WithLevel(book[t], owed[t].side, owed[t].price, owed[t].on)
  <2>2. PICK b : /\ Event(t, b) /\ b.bids = l.bids /\ b.asks = l.asks
                 /\ owed' = [owed EXCEPT ![t] = Nothing] /\ UNCHANGED <<srv, live>>
                 /\ owed[t] # Nothing
                 /\ l.bids = srv[t].bids /\ l.asks = srv[t].asks /\ t \notin kept' =>
                      /\ b.bestBid = BestBidOf(srv[t].bids)
                      /\ b.bestAsk = BestAskOf(srv[t].asks)
    BY <1>0, <1>4, <2>1, PriceChangeIs
  <2>3. l.bids = srv[t].bids /\ l.asks = srv[t].asks
    BY <1>0, <2>1 DEF Mirror, Follows
  <2> HIDE DEF l
  <2>4. owed'[t] = Nothing /\ \A s \in Tokens \ {t} : owed'[s] = owed[s]
    BY <1>1, <2>2
  <2>5. Mirror' /\ TopMirrorsUnlessKept'
    BY <1>0, <2>1, <2>2, <2>3, <2>4, EventMirrors
  <2>6. owed' \in [Tokens -> Changes \cup {Nothing}]
    BY <1>1, <2>2
  <2>7. Types' /\ Flushed' /\ Peeks' /\ Snapped'
    BY <1>0, <1>1, <2>2, <2>6, EventKeeps DEF Types
  <2> QED
    BY <2>5, <2>7 DEF IInv
<1>5. ASSUME NEW price \in TradePrices, Trade(t, price) PROVE IInv'
  <2>1. t \in live /\ t \in known
    BY <1>1, <1>5 DEF Trade
  <2>2. PICK b : /\ Event(t, b) /\ b.bids = book[t].bids /\ b.asks = book[t].asks
                 /\ b.bestBid = book[t].bestBid /\ b.bestAsk = book[t].bestAsk
                 /\ UNCHANGED <<srv, live, owed>> /\ (t \in kept => t \in kept')
    BY <1>0, <1>5, TradeIs
  <2>3. owed'[t] = Nothing => b.bids = srv[t].bids /\ b.asks = srv[t].asks
    BY <1>0, <2>1, <2>2 DEF Mirror, Follows
  <2>4. owed'[t] = Nothing /\ t \notin kept' =>
          b.bestBid = BestBidOf(srv[t].bids) /\ b.bestAsk = BestAskOf(srv[t].asks)
    BY <1>0, <2>1, <2>2 DEF TopMirrorsUnlessKept
  <2>5. Mirror' /\ TopMirrorsUnlessKept'
    BY <1>0, <2>1, <2>2, <2>3, <2>4, EventMirrors
  <2>6. Types' /\ Flushed' /\ Peeks' /\ Snapped'
    BY <1>0, <1>1, <2>2, EventKeeps DEF Types
  <2> QED
    BY <2>5, <2>6 DEF IInv
<1> QED
  BY <1>2, <1>3, <1>4, <1>5

\* Steps that leave the store and the flushes alone.
LEMMA FlushesStay ==
  ASSUME IInv, UNCHANGED <<store, features, snaps, history>>
  PROVE  Flushed' /\ Peeks' /\ Snapped'
<1> USE DEF store, features, snaps, history
<1>1. Flushed'
  BY DEF IInv, Flushed, Marked
<1>2. Peeks'
  BY DEF IInv, Peeks
<1>3. Snapped'
  BY DEF IInv, Snapped
<1> QED
  BY <1>1, <1>2, <1>3

\* The exchange changes a level, and owes a streamed token the message.
LEMMA LevelChangeKeeps ==
  ASSUME BookAssumption, IInv, NEW t \in Tokens, NEW side \in Sides, NEW price \in Prices,
         NEW on \in BOOLEAN, LevelChange(t, side, price, on)
  PROVE  IInv'
<1> DEFINE new == WithLevel(srv[t], side, price, on)
           c == [side |-> side, price |-> price, on |-> on]
<1>0. Types /\ Mirror /\ TopMirrorsUnlessKept
  BY DEF IInv
<1>1. /\ srv \in [Tokens -> Levels] /\ live \subseteq Tokens
      /\ owed \in [Tokens -> Changes \cup {Nothing}] /\ book \in [Tokens -> Book]
  BY <1>0 DEF Types
<1>2. /\ owed[t] = Nothing /\ srv' = [srv EXCEPT ![t] = new]
      /\ owed' = IF t \in live THEN [owed EXCEPT ![t] = c] ELSE owed
      /\ UNCHANGED <<live, store, features, snaps, history>>
  BY DEF LevelChange
<1>3. new \in Levels /\ c \in Changes /\ c # Nothing
      /\ c.side = side /\ c.price = price /\ c.on = on
  <2>1. new \in Levels
    BY <1>1, LevelTyped
  <2>2. c.side # Nothing.side
    BY DEF Nothing, Sides
  <2> QED
    BY <2>1, <2>2 DEF Changes
<1>4. Flushed' /\ Peeks' /\ Snapped'
  BY <1>2, FlushesStay
<1>5. Types'
  <2> HIDE DEF new, c
  <2>1. srv' \in [Tokens -> Levels] /\ owed' \in [Tokens -> Changes \cup {Nothing}]
    BY <1>1, <1>2, <1>3
  <2> QED
    BY <1>0, <1>2, <2>1 DEF Types, store, features, snaps, history
<1>6. \A s \in Tokens \ {t} : srv'[s] = srv[s] /\ owed'[s] = owed[s]
  <2> HIDE DEF new, c
  <2> QED BY <1>1, <1>2
<1>7. srv'[t] = new /\ (t \in live => owed'[t] = c) /\ (t \notin live => owed'[t] = Nothing)
  <2> HIDE DEF new, c
  <2> QED BY <1>1, <1>2
<1>8. ASSUME NEW s \in live' PROVE Follows(s)'
  <2>1. s \in live /\ s \in Tokens /\ Follows(s) /\ book' = book
    BY <1>0, <1>1, <1>2 DEF Mirror, store
  <2>2. CASE s # t
    <3>1. srv'[s] = srv[s] /\ owed'[s] = owed[s]
      BY <1>6, <2>1, <2>2
    <3> QED
      BY <2>1, <3>1 DEF Follows
  <2>3. CASE s = t
    <3> DEFINE l == WithLevel(book[t], side, price, on)
    <3>1. book[t] \in Book /\ srv[t] \in Levels
      BY <1>1
    <3>2. book[t].bids = srv[t].bids /\ book[t].asks = srv[t].asks
      BY <1>2, <2>1, <2>3 DEF Follows
    <3>3. l.bids = new.bids /\ l.asks = new.asks
      BY ONLY <3>1, <3>2 DEF WithLevel, Book, Levels
    <3> HIDE DEF l, new, c
    <3>4. owed'[t] = c /\ srv'[t] = new /\ owed'[t] # Nothing
      BY <1>3, <1>7, <2>1, <2>3
    <3>5. WithLevel(book'[t], owed'[t].side, owed'[t].price, owed'[t].on) = l
      BY <1>3, <2>1, <3>4 DEF l
    <3> QED
      BY <2>3, <3>3, <3>4, <3>5 DEF Follows
  <2> QED
    BY <2>2, <2>3
<1>9. Mirror'
  <2> HIDE DEF new, c
  <2>1. \A s \in Tokens : s \notin live' => owed'[s] = Nothing
    BY <1>0, <1>2, <1>6, <1>7 DEF Mirror
  <2>2. live' \subseteq known'
    BY <1>0, <1>2 DEF Mirror, store
  <2> QED
    BY <1>8, <2>1, <2>2 DEF Mirror
<1>10. TopMirrorsUnlessKept'
  <2> HIDE DEF new, c
  <2> SUFFICES ASSUME NEW s \in live' \ kept', owed'[s] = Nothing
               PROVE  /\ book'[s].bestBid = BestBidOf(srv'[s].bids)
                      /\ book'[s].bestAsk = BestAskOf(srv'[s].asks)
    BY DEF TopMirrorsUnlessKept
  <2>1. s \in live \ kept /\ s \in Tokens /\ book' = book /\ s # t
    BY <1>1, <1>2, <1>3, <1>7 DEF store, history
  <2> QED
    BY <1>0, <1>6, <2>1 DEF TopMirrorsUnlessKept
<1> QED
  BY <1>4, <1>5, <1>9, <1>10 DEF IInv

\* The session ends: nothing is streamed, nothing is owed.
LEMMA SessionEndKeeps ==
  ASSUME IInv, SessionEnd
  PROVE  IInv'
<1>1. /\ live' = {} /\ owed' = [t \in Tokens |-> Nothing] /\ srv' = srv
      /\ UNCHANGED <<store, features, snaps, history>>
  BY DEF SessionEnd
<1>2. Flushed' /\ Peeks' /\ Snapped'
  BY <1>1, FlushesStay
<1>3. Types'
  BY <1>1 DEF IInv, Types, store, features, snaps, history
<1>4. Mirror' /\ TopMirrorsUnlessKept'
  BY <1>1 DEF Mirror, TopMirrorsUnlessKept
<1> QED
  BY <1>2, <1>3, <1>4 DEF IInv

\* A market resolves: its book is gone, whatever a flush holds of it.
LEMMA ResolvedKeeps ==
  ASSUME BookAssumption, IInv, NEW u \in Tokens, Resolved(u)
  PROVE  IInv'
<1>0. Types /\ Mirror /\ TopMirrorsUnlessKept /\ Flushed /\ Peeks /\ Snapped
  BY DEF IInv
<1>1. /\ live' = live \ {u} /\ owed' = [owed EXCEPT ![u] = Nothing]
      /\ known' = known \ {u} /\ book' = [book EXCEPT ![u] = Fresh]
      /\ racing' = With(racing, u, u \in DOMAIN peeked) /\ kept' = With(kept, u, FALSE)
      /\ loose' = With(loose, u, u \in loose)
      /\ UNCHANGED <<srv, flush, peeked, feat, snapping, taken, snap, missed>>
  BY DEF Resolved, Noted, features, snaps
<1>2. /\ book \in [Tokens -> Book] /\ owed \in [Tokens -> Changes \cup {Nothing}]
      /\ known \subseteq Tokens /\ live \subseteq Tokens
      /\ DOMAIN peeked \subseteq Tokens /\ racing \subseteq DOMAIN peeked
  BY <1>0 DEF Types
<1>3. Fresh \in Book
  BY DEF Fresh, Book, Price
<1>4. book'[u] = Fresh /\ owed'[u] = Nothing
      /\ \A t \in Tokens \ {u} : book'[t] = book[t] /\ owed'[t] = owed[t]
  BY <1>1, <1>2
<1>5. Types'
  <2>1. book' \in [Tokens -> Book] /\ owed' \in [Tokens -> Changes \cup {Nothing}]
    BY <1>1, <1>2, <1>3
  <2>2. \A t \in Tokens \ known' : book'[t] = Fresh
    BY <1>0, <1>1, <1>4 DEF Types
  <2>3. racing' \subseteq DOMAIN peeked'
    BY <1>1, <1>2 DEF With
  <2> QED
    BY <1>0, <1>1, <2>1, <2>2, <2>3 DEF Types
<1>6. ASSUME NEW t \in live' PROVE Follows(t)'
  <2>1. t \in live /\ t \in Tokens /\ t # u /\ Follows(t)
    BY <1>0, <1>1, <1>2 DEF Mirror
  <2>2. book'[t] = book[t] /\ owed'[t] = owed[t] /\ srv' = srv
    BY <1>1, <1>4, <2>1
  <2> QED
    BY <2>1, <2>2 DEF Follows
<1>7. Mirror'
  BY <1>0, <1>1, <1>4, <1>6 DEF Mirror
<1>8. TopMirrorsUnlessKept'
  <2> SUFFICES ASSUME NEW t \in live' \ kept', owed'[t] = Nothing
               PROVE  /\ book'[t].bestBid = BestBidOf(srv'[t].bids)
                      /\ book'[t].bestAsk = BestAskOf(srv'[t].asks)
    BY DEF TopMirrorsUnlessKept
  <2>1. t \in live \ kept /\ t \in Tokens /\ t # u
    BY <1>1, <1>2 DEF With
  <2> QED
    BY <1>0, <1>1, <1>4, <2>1 DEF TopMirrorsUnlessKept
<1>9. Flushed'
  <2> SUFFICES ASSUME NEW t \in known' \ loose' PROVE book'[t].dirty \/ Marked(t)'
    BY DEF Flushed
  <2>1. t \in known \ loose /\ t \in Tokens /\ t # u
    BY <1>1, <1>2 DEF With
  <2>2. book[t].dirty \/ Marked(t)
    BY <1>0, <2>1 DEF Flushed
  <2> QED
    BY <1>1, <1>4, <2>1, <2>2 DEF Marked
<1>10. Peeks'
  <2>1. \A t \in DOMAIN peeked : t \in known' => book'[t].dirty
    BY <1>0, <1>1, <1>2, <1>4 DEF Peeks
  <2>2. \A t \in DOMAIN peeked \ racing' : t \in known' /\ peeked[t] = Row(book'[t])
    <3> SUFFICES ASSUME NEW t \in DOMAIN peeked \ racing'
                 PROVE  t \in known' /\ peeked[t] = Row(book'[t])
      OBVIOUS
    <3>1. t # u /\ t \notin racing /\ t \in Tokens
      BY <1>1, <1>2 DEF With
    <3>2. t \in known /\ peeked[t] = Row(book[t])
      BY <1>0, <3>1 DEF Peeks
    <3> QED
      BY <1>1, <1>4, <3>1, <3>2
  <2>3. flush' = "marking" => \A t \in DOMAIN peeked : feat'[t] = peeked[t]
    BY <1>0, <1>1 DEF Peeks
  <2>4. flush' = "idle" => DOMAIN peeked' = {}
    BY <1>0, <1>1 DEF Peeks
  <2> QED
    BY <1>1, <2>1, <2>2, <2>3, <2>4 DEF Peeks
<1>11. Snapped'
  BY <1>0, <1>1, <1>2, <1>4 DEF Snapped
<1> QED
  BY <1>5, <1>7, <1>8, <1>9, <1>10, <1>11 DEF IInv

\* A flush takes some of its candidates.
LEMMA SomeAre == ASSUME NEW S, NEW B \in SomeOf(S) PROVE B \subseteq S
BY DEF SomeOf

\* Steps of the flushes that leave the books alone.
LEMMA BooksStay ==
  ASSUME IInv, UNCHANGED <<exchange, store, kept>>
  PROVE  Mirror' /\ TopMirrorsUnlessKept'
<1>1. book \in [Tokens -> Book]
  BY DEF IInv, Types
<1> QED
  BY <1>1, MirrorStays DEF IInv, store

\* PeekDirty copies dirty books as they are.
LEMMA PeekKeeps ==
  ASSUME IInv, NEW B \in SomeOf(Dirty), PeekDirty(B)
  PROVE  IInv'
<1>0. Types /\ Flushed /\ Peeks /\ Snapped
  BY DEF IInv
<1>1. /\ flush = "idle" /\ peeked' = [t \in B |-> Row(book[t])] /\ flush' = "upserting"
      /\ UNCHANGED <<exchange, store, feat, snaps, history>>
  BY DEF PeekDirty
<1>2. B \subseteq known /\ \A t \in B : book[t].dirty
  BY SomeAre DEF Dirty
<1>3. Mirror' /\ TopMirrorsUnlessKept'
  BY <1>1, BooksStay DEF history
<1>4. DOMAIN peeked' = B /\ racing = {} /\ racing' = {}
  BY <1>0, <1>1 DEF Types, Peeks, history
<1>5. Types'
  BY <1>0, <1>1, <1>2, <1>4 DEF Types, exchange, store, snaps
<1>6. Peeks'
  <2>1. flush' # "marking" /\ flush' # "idle"
    BY <1>1
  <2>2. \A t \in B : t \in known' /\ book'[t].dirty /\ peeked'[t] = Row(book'[t])
    BY <1>1, <1>2 DEF store
  <2> QED
    BY <1>4, <2>1, <2>2 DEF Peeks
<1>7. Flushed' /\ Snapped'
  BY <1>0, <1>1 DEF Flushed, Marked, Snapped, store, history, snaps
<1> QED
  BY <1>3, <1>5, <1>6, <1>7 DEF IInv

\* Rows are written of books that are dirty, if they are still there.
LEMMA WrittenFlushed ==
  ASSUME IInv, NEW written \in SUBSET DOMAIN peeked, UpsertFeatures(written),
         UNCHANGED <<store, loose>>
  PROVE  Flushed'
<1>1. /\ feat' = [t \in Tokens |-> IF t \in written THEN peeked[t] ELSE feat[t]]
      /\ book' = book /\ known' = known /\ loose' = loose /\ known \subseteq Tokens
  BY DEF UpsertFeatures, store, IInv, Types
<1> SUFFICES ASSUME NEW t \in known' \ loose' PROVE book'[t].dirty \/ Marked(t)'
  BY DEF Flushed
<1>2. t \in known /\ t \in Tokens /\ (book[t].dirty \/ Marked(t))
  BY <1>1 DEF IInv, Flushed
<1>3. CASE t \in written
  BY <1>1, <1>2, <1>3 DEF IInv, Peeks
<1>4. CASE t \notin written
  BY <1>1, <1>2, <1>4 DEF Marked
<1> QED
  BY <1>3, <1>4

\* A flush that fails keeps its books dirty, whatever rows it has written.
LEMMA UpsertKeeps ==
  ASSUME IInv, UpsertOK \/ \E written \in SUBSET DOMAIN peeked : UpsertFails(written)
  PROVE  IInv'
<1>0. Types /\ Flushed /\ Peeks /\ Snapped
  BY DEF IInv
<1>1. CASE UpsertOK
  <2>1. /\ flush' = "marking" /\ UpsertFeatures(DOMAIN peeked)
        /\ UNCHANGED <<exchange, store, peeked, snaps, history>>
    BY <1>1 DEF UpsertOK
  <2>2. Mirror' /\ TopMirrorsUnlessKept'
    BY <2>1, BooksStay DEF history
  <2>3. Flushed'
    BY <2>1, WrittenFlushed DEF history
  <2>4. Types' /\ Snapped'
    BY <1>0, <2>1 DEF Types, Snapped, exchange, store, snaps, history
  <2>5. Peeks'
    <3>1. \A t \in DOMAIN peeked : feat'[t] = peeked[t]
      BY <1>0, <2>1 DEF UpsertFeatures, Types
    <3> QED
      BY <1>0, <2>1, <3>1 DEF Peeks, store, history
  <2> QED
    BY <2>2, <2>3, <2>4, <2>5 DEF IInv
<1>2. ASSUME NEW written \in SUBSET DOMAIN peeked, UpsertFails(written) PROVE IInv'
  <2>1. /\ flush' = "idle" /\ UpsertFeatures(written)
        /\ peeked' = [t \in {} |-> NoRow] /\ racing' = {}
        /\ UNCHANGED <<exchange, store, snaps, loose, kept, missed>>
    BY <1>2 DEF UpsertFails
  <2>2. DOMAIN peeked' = {}
    BY <2>1
  <2>3. Mirror' /\ TopMirrorsUnlessKept'
    BY <2>1, BooksStay
  <2>4. Flushed'
    BY <2>1, WrittenFlushed
  <2>5. Types' /\ Snapped'
    BY <1>0, <2>1, <2>2 DEF Types, Snapped, exchange, store, snaps
  <2>6. Peeks'
    BY <2>1, <2>2 DEF Peeks
  <2> QED
    BY <2>3, <2>4, <2>5, <2>6 DEF IInv
<1> QED
  BY <1>1, <1>2

\* A book that is marked without an event since it was copied is as it was written.
LEMMA MarkKeeps ==
  ASSUME BookAssumption, IInv, MarkFlushed
  PROVE  IInv'
<1> DEFINE Flat(t) == [book[t] EXCEPT !.dirty = FALSE,
                                      !.flushMid = Mid2(book[t].bestBid, book[t].bestAsk),
                                      !.flushBB = book[t].bestBid,
                                      !.flushBA = book[t].bestAsk]
<1>0. Types /\ Mirror /\ TopMirrorsUnlessKept /\ Flushed /\ Peeks /\ Snapped
  BY DEF IInv
<1>1. /\ flush = "marking" /\ flush' = "idle"
      /\ book' = [t \in Tokens |-> IF t \in DOMAIN peeked \cap known THEN Flat(t) ELSE book[t]]
      /\ peeked' = [t \in {} |-> NoRow] /\ racing' = {}
      /\ loose' = (loose \ DOMAIN peeked) \cup racing
      /\ UNCHANGED <<exchange, known, feat, snaps, kept, missed>>
  BY DEF MarkFlushed
<1>2. book \in [Tokens -> Book] /\ known \subseteq Tokens /\ DOMAIN peeked' = {}
  BY <1>0, <1>1 DEF Types
<1>3. ASSUME NEW t \in Tokens
      PROVE  /\ Flat(t) \in Book /\ Flat(t).bids = book[t].bids /\ Flat(t).asks = book[t].asks
             /\ Flat(t).bestBid = book[t].bestBid /\ Flat(t).bestAsk = book[t].bestAsk
             /\ Flat(t).trade = book[t].trade
             /\ Flat(t).flushBB = book[t].bestBid /\ Flat(t).flushBA = book[t].bestAsk
             /\ Flat(t).snapMid = book[t].snapMid /\ Flat(t).snapBB = book[t].snapBB
             /\ Flat(t).snapBA = book[t].snapBA
  <2>1. book[t] \in Book /\ Mid2(book[t].bestBid, book[t].bestAsk) \in Nat
    BY <1>2, MidTyped
  <2> QED
    BY <2>1 DEF Book
<1>4. ASSUME NEW t \in Tokens
      PROVE  /\ book'[t] \in Book /\ book'[t].bids = book[t].bids /\ book'[t].asks = book[t].asks
             /\ book'[t].bestBid = book[t].bestBid /\ book'[t].bestAsk = book[t].bestAsk
             /\ book'[t].trade = book[t].trade
             /\ book'[t].snapMid = book[t].snapMid /\ book'[t].snapBB = book[t].snapBB
             /\ book'[t].snapBA = book[t].snapBA
             /\ t \in DOMAIN peeked \cap known =>
                  book'[t].flushBB = book[t].bestBid /\ book'[t].flushBA = book[t].bestAsk
             /\ t \notin DOMAIN peeked \cap known => book'[t] = book[t]
  <2>1. CASE t \in DOMAIN peeked \cap known
    <3>1. book'[t] = Flat(t)
      BY <1>1, <2>1
    <3> HIDE DEF Flat
    <3> QED
      BY <1>3, <2>1, <3>1
  <2>2. CASE t \notin DOMAIN peeked \cap known
    <3>1. book'[t] = book[t] /\ book[t] \in Book
      BY <1>1, <1>2, <2>2
    <3> QED
      BY <2>2, <3>1
  <2> QED
    BY <2>1, <2>2
<1> HIDE DEF Flat
<1>5. book' \in [Tokens -> Book]
  BY <1>1, <1>4
<1>6. Mirror' /\ TopMirrorsUnlessKept'
  BY <1>0, <1>1, <1>4, <1>5, MirrorStays
<1>7. Types'
  <2>1. \A t \in Tokens \ known' : book'[t] = Fresh
    BY <1>0, <1>1, <1>4 DEF Types
  <2> QED
    BY <1>0, <1>1, <1>2, <1>5, <2>1 DEF Types, exchange, snaps
<1>8. Flushed'
  <2> SUFFICES ASSUME NEW t \in known' \ loose' PROVE book'[t].dirty \/ Marked(t)'
    BY DEF Flushed
  <2>0. t \in known /\ t \in Tokens
    BY <1>1, <1>2
  <2>1. CASE t \in DOMAIN peeked
    <3>1. t \notin racing
      BY <1>1
    <3>2. peeked[t] = Row(book[t]) /\ feat[t] = peeked[t]
      BY <1>0, <1>1, <2>1, <3>1 DEF Peeks
    <3>3. /\ feat'[t].bestBid = book[t].bestBid /\ feat'[t].bestAsk = book[t].bestAsk
          /\ feat'[t].trade = book[t].trade
      BY <1>1, <3>2 DEF Row
    <3>4. /\ book'[t].bestBid = book[t].bestBid /\ book'[t].bestAsk = book[t].bestAsk
          /\ book'[t].trade = book[t].trade
          /\ book'[t].flushBB = book[t].bestBid /\ book'[t].flushBA = book[t].bestAsk
      BY <1>4, <2>0, <2>1
    <3>5. book[t].bestBid \in Nat /\ book[t].bestAsk \in Nat /\ Epsilon \in Nat \ {0}
      BY <1>2, <2>0, PriceIsNat DEF Book, BookAssumption
    <3>6. ~Far(book'[t].bestBid, book'[t].flushBB) /\ ~Far(book'[t].bestAsk, book'[t].flushBA)
      BY <3>4, <3>5 DEF Far
    <3> QED
      BY <3>3, <3>4, <3>6 DEF Marked
  <2>2. CASE t \notin DOMAIN peeked
    <3>1. t \notin loose /\ book'[t] = book[t] /\ feat' = feat
      BY <1>1, <1>4, <2>0, <2>2
    <3>2. book[t].dirty \/ Marked(t)
      BY <1>0, <2>0, <3>1 DEF Flushed
    <3> QED
      BY <3>1, <3>2 DEF Marked
  <2> QED
    BY <2>1, <2>2
<1>9. Peeks'
  BY <1>1, <1>2 DEF Peeks
<1>10. Snapped'
  BY <1>0, <1>1, <1>2, <1>4 DEF Snapped, snaps
<1> QED
  BY <1>6, <1>7, <1>8, <1>9, <1>10 DEF IInv

\* The marks of a snapshot are taken with its rows.
LEMMA TakeKeeps ==
  ASSUME BookAssumption, IInv, NEW B \in SomeOf(Changed), TakeChanged(B)
  PROVE  IInv'
<1> DEFINE Shot(t) == [book[t] EXCEPT !.snapMid = Mid2(book[t].bestBid, book[t].bestAsk),
                                      !.snapBB = book[t].bestBid, !.snapBA = book[t].bestAsk]
<1>0. Types /\ Mirror /\ TopMirrorsUnlessKept /\ Flushed /\ Peeks /\ Snapped
  BY DEF IInv
<1>1. /\ snapping = "idle" /\ snapping' = "inserting"
      /\ book' = [t \in Tokens |-> IF t \in B THEN Shot(t) ELSE book[t]]
      /\ taken' = [t \in B |-> Row(book[t])]
      /\ UNCHANGED <<exchange, known, features, snap, history>>
  BY DEF TakeChanged
<1>2. book \in [Tokens -> Book] /\ known \subseteq Tokens /\ DOMAIN taken' = B /\ B \subseteq known
      /\ DOMAIN taken = {} /\ DOMAIN peeked \subseteq Tokens
  BY <1>0, <1>1, SomeAre DEF Types, Changed, Snapped
<1>3. ASSUME NEW t \in Tokens
      PROVE  /\ Shot(t) \in Book /\ Shot(t).bids = book[t].bids /\ Shot(t).asks = book[t].asks
             /\ Shot(t).bestBid = book[t].bestBid /\ Shot(t).bestAsk = book[t].bestAsk
             /\ Shot(t).trade = book[t].trade /\ Shot(t).dirty = book[t].dirty
             /\ Shot(t).flushBB = book[t].flushBB /\ Shot(t).flushBA = book[t].flushBA
             /\ Shot(t).snapBB = book[t].bestBid /\ Shot(t).snapBA = book[t].bestAsk
  <2>1. book[t] \in Book /\ Mid2(book[t].bestBid, book[t].bestAsk) \in Nat
    BY <1>2, MidTyped
  <2> QED
    BY <2>1 DEF Book
<1>4. ASSUME NEW t \in Tokens
      PROVE  /\ book'[t] \in Book /\ book'[t].bids = book[t].bids /\ book'[t].asks = book[t].asks
             /\ book'[t].bestBid = book[t].bestBid /\ book'[t].bestAsk = book[t].bestAsk
             /\ book'[t].trade = book[t].trade /\ book'[t].dirty = book[t].dirty
             /\ book'[t].flushBB = book[t].flushBB /\ book'[t].flushBA = book[t].flushBA
             /\ t \in B =>
                  book'[t].snapBB = book[t].bestBid /\ book'[t].snapBA = book[t].bestAsk
             /\ t \notin B => book'[t] = book[t]
  <2>1. CASE t \in B
    <3>1. book'[t] = Shot(t)
      BY <1>1, <2>1
    <3> HIDE DEF Shot
    <3> QED
      BY <1>3, <2>1, <3>1
  <2>2. CASE t \notin B
    <3>1. book'[t] = book[t] /\ book[t] \in Book
      BY <1>1, <1>2, <2>2
    <3> QED
      BY <2>2, <3>1
  <2> QED
    BY <2>1, <2>2
<1> HIDE DEF Shot
<1>5. book' \in [Tokens -> Book]
  BY <1>1, <1>4
<1>6. Mirror' /\ TopMirrorsUnlessKept'
  BY <1>0, <1>1, <1>4, <1>5, MirrorStays DEF history
<1>7. Types'
  <2>1. \A t \in Tokens \ known' : book'[t] = Fresh
    BY <1>0, <1>1, <1>2, <1>4 DEF Types
  <2> QED
    BY <1>0, <1>1, <1>2, <1>5, <2>1 DEF Types, exchange, features, history
<1>8. Flushed'
  <2> SUFFICES ASSUME NEW t \in known' \ loose' PROVE book'[t].dirty \/ Marked(t)'
    BY DEF Flushed
  <2>1. t \in known \ loose /\ t \in Tokens /\ feat' = feat
    BY <1>1, <1>2 DEF features, history
  <2>2. book[t].dirty \/ Marked(t)
    BY <1>0, <2>1 DEF Flushed
  <2> QED
    BY <1>4, <2>1, <2>2 DEF Marked
<1>9. Peeks'
  <2>1. UNCHANGED <<flush, peeked, feat, known, racing>>
    BY <1>1 DEF features, history
  <2>2. \A t \in Tokens : book'[t].dirty = book[t].dirty /\ Row(book'[t]) = Row(book[t])
    BY <1>4 DEF Row
  <2> QED
    BY <1>0, <1>2, <2>1, <2>2 DEF Peeks
<1>10. Snapped'
  <2> SUFFICES ASSUME NEW t \in known', book'[t].snapMid # 0
               PROVE  /\ t \in B =>
                           /\ taken'[t].bestBid = book'[t].snapBB
                            /\ taken'[t].bestAsk = book'[t].snapBA
                      /\ t \notin B \cup missed =>
                           snap[t].bestBid = book'[t].snapBB /\ snap[t].bestAsk = book'[t].snapBA
    BY <1>1, <1>2 DEF Snapped, history
  <2>1. t \in Tokens /\ t \in known
    BY <1>1, <1>2
  <2>2. CASE t \in B
    BY <1>1, <1>4, <2>1, <2>2 DEF Row
  <2>3. CASE t \notin B
    <3>1. book'[t] = book[t]
      BY <1>4, <2>1, <2>3
    <3> QED
      BY <1>0, <1>2, <2>1, <2>3, <3>1 DEF Snapped
  <2> QED
    BY <2>2, <2>3
<1> QED
  BY <1>6, <1>7, <1>8, <1>9, <1>10 DEF IInv

\* An insert that fails leaves the tokens it held missed.
LEMMA InsertKeeps ==
  ASSUME IInv, InsertOK \/ InsertFails
  PROVE  IInv'
<1>0. Types /\ Flushed /\ Peeks /\ Snapped
  BY DEF IInv
<1>1. /\ snapping' = "idle" /\ taken' = [t \in {} |-> NoRow]
      /\ UNCHANGED <<exchange, store, features, racing, loose, kept>>
      /\ \/ /\ snap' = [t \in Tokens |-> IF t \in DOMAIN taken THEN taken[t] ELSE snap[t]]
            /\ missed' = missed \ DOMAIN taken
         \/ snap' = snap /\ missed' = missed \cup DOMAIN taken
  BY DEF InsertOK, InsertFails
<1>2. DOMAIN taken' = {} /\ known \subseteq Tokens
  BY <1>0, <1>1 DEF Types
<1>3. Mirror' /\ TopMirrorsUnlessKept'
  BY <1>1, BooksStay
<1>4. Types' /\ Flushed' /\ Peeks'
  BY <1>0, <1>1, <1>2 DEF Types, Flushed, Marked, Peeks, exchange, store, features
<1>5. Snapped'
  <2> SUFFICES ASSUME NEW t \in known', book'[t].snapMid # 0, t \notin missed'
               PROVE  snap'[t].bestBid = book'[t].snapBB /\ snap'[t].bestAsk = book'[t].snapBA
    BY <1>1, <1>2 DEF Snapped
  <2>1. t \in known /\ t \in Tokens /\ book' = book
    BY <1>1, <1>2 DEF store
  <2>2. /\ t \in DOMAIN taken =>
             taken[t].bestBid = book[t].snapBB /\ taken[t].bestAsk = book[t].snapBA
        /\ t \notin DOMAIN taken \cup missed =>
             snap[t].bestBid = book[t].snapBB /\ snap[t].bestAsk = book[t].snapBA
    BY <1>0, <2>1 DEF Snapped
  <2> QED
    BY <1>1, <2>1, <2>2
<1> QED
  BY <1>3, <1>4, <1>5 DEF IInv

\* The invariant holds before the first message,
LEMMA InvInit ==
  ASSUME BookAssumption, Init
  PROVE  IInv
<1>1. Fresh \in Book
  BY DEF Fresh, Book, Price
<1>2. Types
  BY <1>1 DEF Init, Types
<1> QED
  BY <1>2 DEF Init, IInv, Mirror, TopMirrorsUnlessKept, Flushed, Peeks, Snapped

\* every step keeps it,
LEMMA InvKept ==
  ASSUME BookAssumption, IInv, [Next]_vars
  PROVE  IInv'
<1>1. ASSUME NEW t \in Tokens,
             \/ Dump(t) \/ BestBidAsk(t) \/ \E legs \in BOOLEAN : PriceChange(t, legs)
             \/ \E price \in TradePrices : Trade(t, price)
      PROVE  IInv'
  BY <1>1, MessageKeeps
<1>2. ASSUME NEW t \in Tokens, Resolved(t) PROVE IInv'
  BY <1>2, ResolvedKeeps
<1>3. ASSUME NEW t \in Tokens, NEW side \in Sides, NEW price \in Prices, NEW on \in BOOLEAN,
             LevelChange(t, side, price, on)
      PROVE  IInv'
  BY <1>3, LevelChangeKeeps
<1>4. CASE SessionEnd
  BY <1>4, SessionEndKeeps
<1>5. CASE FeaturesFlush
  BY <1>5, PeekKeeps, UpsertKeeps, MarkKeeps DEF FeaturesFlush
<1>6. CASE SnapshotFlush
  BY <1>6, TakeKeeps, InsertKeeps DEF SnapshotFlush
<1>7. CASE UNCHANGED vars
  <2>1. UNCHANGED <<exchange, store, kept>> /\ UNCHANGED <<store, features, snaps, history>>
    BY <1>7 DEF vars, history
  <2>2. Mirror' /\ TopMirrorsUnlessKept' /\ Flushed' /\ Peeks' /\ Snapped'
    BY <2>1, BooksStay, FlushesStay
  <2>3. Types'
    BY <2>1 DEF IInv, Types, exchange, store, features, snaps, history
  <2> QED
    BY <2>2, <2>3 DEF IInv
<1> QED
  BY <1>1, <1>2, <1>3, <1>4, <1>5, <1>6, <1>7 DEF Next, Exchange

\* and so it holds of every reachable state.
LEMMA Invariance ==
  Spec => []IInv
<1>1. Init => IInv
  BY BookAssumption, InvInit
<1>2. IInv /\ [Next]_vars => IInv'
  BY BookAssumption, InvKept
<1> QED
  BY <1>1, <1>2, PTL DEF Spec

\* The book's best prices are those of the exchange, unless a zero in a message was
\* ignored, a message is due, or the session has not sent its dump.
THEOREM TopMirrors ==
  Spec => []TopMirrorsUnlessKept
<1>1. IInv => TopMirrorsUnlessKept
  BY DEF IInv
<1> QED
  BY <1>1, Invariance, PTL

\* A clean book is written: its row in features_latest is near it, unless it had an event
\* while it was being flushed.
THEOREM StaleIsLoose ==
  Spec => []StaleMeansLoose
<1>1. IInv => StaleMeansLoose
  <2> SUFFICES ASSUME IInv, NEW t \in known \ loose, ~book[t].dirty PROVE Durable(t)
    BY DEF StaleMeansLoose
  <2>1. Marked(t)
    BY DEF IInv, Flushed
  <2> QED
    BY <2>1, FarIsSymmetric DEF Marked, Durable
<1> QED
  BY <1>1, Invariance, PTL

\* A token whose snapshot is skipped has a row near it in orderbook_snapshots, unless its
\* last insert failed or is under way.
THEOREM SkippedIsStored ==
  Spec => []SkippedMeansStored
<1>1. IInv => SkippedMeansStored
  <2> SUFFICES ASSUME IInv, NEW t \in known \ (missed \cup DOMAIN taken), ~Moved(book[t])
               PROVE  /\ ~Far(snap[t].bestBid, book[t].bestBid)
                      /\ ~Far(snap[t].bestAsk, book[t].bestAsk)
    BY DEF SkippedMeansStored
  <2>1. snap[t].bestBid = book[t].snapBB /\ snap[t].bestAsk = book[t].snapBA
    BY DEF IInv, Snapped, Moved
  <2>2. ~Far(book[t].bestBid, book[t].snapBB) /\ ~Far(book[t].bestAsk, book[t].snapBA)
    BY DEF Moved
  <2> QED
    BY <2>1, <2>2, FarIsSymmetric
<1> QED
  BY <1>1, Invariance, PTL

-----------------------------------------------------------------------------
(* The subscription.                                                       *)

\* Subscription has its own copy of Cardinality.
LEMMA SameCardinality ==
  ASSUME NEW T
  PROVE  Sub!Cardinality(T) = Cardinality(T)
BY DEF Sub!Cardinality, Cardinality

\* The places of SetDesired outside the mutex.
Diffing == {"unsubscribe", "subscribe", "record"}

\* A caller that sends has taken the connection it sends on.
SubTypes ==
  /\ Sub!TypeOK
  /\ pc \in [Sub!Callers -> Sub!PollerPc \cup Sub!SessionPc]
  /\ \A p \in Sub!Callers : pc[p] \in Diffing => used[p] # 0

\* A caller in the middle of a diff: what it took is what the client still has on record,
\* what it wants covers what is desired, and the exchange streams what the diff has left.
Diff(p) ==
  /\ used[p] = conn /\ cur[p] = subscribed /\ desired \subseteq arg[p]
  /\ pc[p] = "unsubscribe" => cur[p] \subseteq streamed
  /\ pc[p] = "subscribe" => cur[p] \cap arg[p] \subseteq streamed
  /\ pc[p] = "record" => arg[p] \subseteq streamed

\* On a live connection on which no calls overlapped, one caller at most is in its window,
\* and without one all that is desired is on record and streamed.
Untangled ==
  ~tangled /\ conn # 0 /\ link = conn =>
    /\ ~(Sub!InWindow(Sub!Poller) /\ Sub!InWindow(Sub!Session))
    /\ \A p \in Sub!Callers : pc[p] \in Diffing => Diff(p)
    /\ pc[Sub!Session] \in {"initial", "recordInitial"} =>
         desired \subseteq arg[Sub!Session] /\ subscribed = {}
    /\ pc[Sub!Session] = "recordInitial" => arg[Sub!Session] \subseteq streamed
    /\ ~Sub!InWindow(Sub!Poller) /\ ~Sub!InWindow(Sub!Session) =>
         desired \subseteq subscribed /\ subscribed \subseteq streamed

SubInv == SubTypes /\ Untangled

\* Every step keeps the types.
LEMMA TypesKept ==
  ASSUME Sub!SubscriptionAssumption, SubTypes, [Sub!Next]_(Sub!vars)
  PROVE  SubTypes'
<1> USE DEF Sub!SubscriptionAssumption, SubTypes, Sub!TypeOK, Sub!Callers, Sub!Poller, Sub!Session,
            Sub!PollerPc, Sub!SessionPc, Diffing, Sub!Goto, Sub!Return, Sub!listener, Sub!client,
            Sub!exchange, Sub!calls
<1>1. ASSUME NEW p \in Sub!Callers, Sub!SetDesiredLock(p) PROVE SubTypes'
  BY <1>1 DEF Sub!SetDesiredLock
<1>2. ASSUME NEW p \in Sub!Callers, Sub!Unsubscribe(p) PROVE SubTypes'
  BY <1>2 DEF Sub!Unsubscribe, Sub!Sent, Sub!NotSent
<1>3. ASSUME NEW p \in Sub!Callers, Sub!Subscribe(p) PROVE SubTypes'
  BY <1>3 DEF Sub!Subscribe, Sub!Sent, Sub!NotSent
<1>4. ASSUME NEW p \in Sub!Callers, Sub!Record(p) PROVE SubTypes'
  BY <1>4 DEF Sub!Record
<1>5. CASE Sub!LoadBoard
  BY <1>5 DEF Sub!LoadBoard
<1>6. CASE Sub!Filter
  BY <1>6 DEF Sub!Filter
<1>7. CASE Sub!Dial
  BY <1>7 DEF Sub!Dial
<1>8. CASE Sub!InitialSubscribe
  BY <1>8 DEF Sub!InitialSubscribe, Sub!Sent, Sub!EndSession
<1>9. CASE Sub!RecordInitial
  BY <1>9 DEF Sub!RecordInitial
<1>10. CASE Sub!ReadFails
  BY <1>10 DEF Sub!ReadFails, Sub!EndSession
<1>11. ASSUME NEW a \in Tokens, Sub!MarketResolved(a) PROVE SubTypes'
  BY <1>11 DEF Sub!MarketResolved
<1>12. CASE Sub!RemoveAssets
  BY <1>12 DEF Sub!RemoveAssets
<1>13. CASE Sub!NewBoard
  BY <1>13 DEF Sub!NewBoard
<1>14. CASE Sub!Break
  BY <1>14 DEF Sub!Break
<1>15. CASE UNCHANGED Sub!vars
  BY <1>15 DEF Sub!vars
<1> QED
  BY <1>1, <1>2, <1>3, <1>4, <1>5, <1>6, <1>7, <1>8, <1>9, <1>10, <1>11, <1>12, <1>13, <1>14, <1>15
  DEF Sub!Next, Sub!BoardPoll, Sub!ClientSession, Sub!World, Sub!SetDesired

\* Every step keeps what is streamed in line with what is on record and desired.
LEMMA UntangledKept ==
  ASSUME Sub!SubscriptionAssumption, SubTypes, SubTypes', Untangled, [Sub!Next]_(Sub!vars)
  PROVE  Untangled'
<1> USE DEF Sub!SubscriptionAssumption, SubTypes, Sub!TypeOK, Sub!Callers, Sub!Poller, Sub!Session,
            Sub!PollerPc, Sub!SessionPc, Diffing, Sub!Goto, Sub!Return, Untangled, Diff,
            Sub!InWindow, Sub!listener, Sub!client, Sub!exchange, Sub!calls
<1>1. ASSUME NEW p \in Sub!Callers, Sub!SetDesiredLock(p) PROVE Untangled'
  <2>1. PICK o \in Sub!Callers : Sub!Callers = {p, o} /\ o # p
    OBVIOUS
  <2>2. CASE conn = 0
    BY <1>1, <2>2 DEF Sub!SetDesiredLock
  <2>3. CASE conn # 0 /\ Sub!InWindow(o)
    BY <1>1, <2>1, <2>3 DEF Sub!SetDesiredLock
  <2>4. CASE conn # 0 /\ ~Sub!InWindow(o)
    BY <1>1, <2>1, <2>4 DEF Sub!SetDesiredLock
  <2> QED
    BY <2>2, <2>3, <2>4
<1>2. ASSUME NEW p \in Sub!Callers, Sub!Unsubscribe(p) PROVE Untangled'
  BY <1>2 DEF Sub!Unsubscribe, Sub!Sent, Sub!NotSent
<1>3. ASSUME NEW p \in Sub!Callers, Sub!Subscribe(p) PROVE Untangled'
  BY <1>3 DEF Sub!Subscribe, Sub!Sent, Sub!NotSent
<1>4. ASSUME NEW p \in Sub!Callers, Sub!Record(p) PROVE Untangled'
  BY <1>4 DEF Sub!Record
<1>5. CASE Sub!LoadBoard
  BY <1>5 DEF Sub!LoadBoard
<1>6. CASE Sub!Filter
  BY <1>6 DEF Sub!Filter
<1>7. CASE Sub!Dial
  BY <1>7 DEF Sub!Dial
<1>8. CASE Sub!InitialSubscribe
  BY <1>8 DEF Sub!InitialSubscribe, Sub!Sent, Sub!EndSession
<1>9. CASE Sub!RecordInitial
  BY <1>9 DEF Sub!RecordInitial
<1>10. CASE Sub!ReadFails
  BY <1>10 DEF Sub!ReadFails, Sub!EndSession
<1>11. ASSUME NEW a \in Tokens, Sub!MarketResolved(a) PROVE Untangled'
  BY <1>11 DEF Sub!MarketResolved
<1>12. CASE Sub!RemoveAssets
  BY <1>12 DEF Sub!RemoveAssets
<1>13. CASE Sub!NewBoard
  BY <1>13 DEF Sub!NewBoard
<1>14. CASE Sub!Break
  BY <1>14 DEF Sub!Break
<1>15. CASE UNCHANGED Sub!vars
  BY <1>15 DEF Sub!vars
<1> QED
  BY <1>1, <1>2, <1>3, <1>4, <1>5, <1>6, <1>7, <1>8, <1>9, <1>10, <1>11, <1>12, <1>13, <1>14, <1>15
  DEF Sub!Next, Sub!BoardPoll, Sub!ClientSession, Sub!World, Sub!SetDesired

\* Types and the diffs under way, in every reachable state.
THEOREM SubInvariance ==
  Sub!Spec => []SubInv
<1>1. Sub!Init => SubInv
  <2> SUFFICES ASSUME Sub!Init PROVE SubInv
    OBVIOUS
  <2> USE DEF Sub!Callers, Sub!Poller, Sub!Session
  <2>1. board = {} /\ Cardinality(board) = 0
    BY FS_EmptySet, SameCardinality DEF Sub!Init
  <2>2. Sub!TypeOK
    <3>1. pc[Sub!Poller] = "idle" /\ pc[Sub!Session] = "down"
      BY DEF Sub!Init
    <3>2. /\ arg \in [Sub!Callers -> SUBSET Tokens] /\ cur \in [Sub!Callers -> SUBSET Tokens]
          /\ used \in [Sub!Callers -> 0..MaxSessions]
      BY TokensAreAssets DEF Sub!SubscriptionAssumption, Sub!Init
    <3>3. /\ board \subseteq Tokens /\ Cardinality(board) <= MaxAssets /\ boards \in 0..MaxBoards
          /\ conn \in 0..MaxSessions /\ sessions \in 0..MaxSessions
      BY TokensAreAssets, <2>1 DEF Sub!SubscriptionAssumption, Sub!Init
    <3>4. /\ resolvedAssets \subseteq resolved /\ resolved \subseteq Tokens
          /\ desired \subseteq Tokens /\ subscribed \subseteq Tokens /\ tangled \in BOOLEAN
          /\ link \in {0, conn} /\ streamed \subseteq Tokens /\ streamed = {} /\ conn = 0
      BY DEF Sub!Init
    <3> QED
      BY ONLY <3>1, <3>2, <3>3, <3>4, SameCardinality DEF Sub!TypeOK, Sub!PollerPc, Sub!SessionPc
  <2>3. SubTypes
    BY <2>2 DEF Sub!Init, SubTypes, Sub!PollerPc, Sub!SessionPc, Diffing
  <2>4. Untangled
    BY DEF Sub!Init, Untangled
  <2> QED
    BY <2>3, <2>4 DEF SubInv
<1>2. SubInv /\ [Sub!Next]_(Sub!vars) => SubInv'
  BY TokensAreAssets, TypesKept, UntangledKept DEF SubInv
<1> QED
  BY <1>1, <1>2, PTL DEF Sub!Spec

\* While connected, with no call under way and none having overlapped another on this
\* connection, every desired asset is streamed, whatever connections broke and messages
\* were lost before.
THEOREM DesiredAssetsAreStreamed ==
  Sub!Spec => []DesiredIsStreamed
<1>1. SubInv => DesiredIsStreamed
  BY DEF SubInv, SubTypes, Sub!TypeOK, Untangled, DesiredIsStreamed, Sub!DesiredIsStreamed,
         Sub!Quiet, Sub!InWindow, Sub!Poller, Sub!Session
<1> QED
  BY <1>1, SubInvariance, PTL

=============================================================================
