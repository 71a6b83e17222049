------------------------- MODULE SubgraphSyncProofs -------------------------
(***************************************************************************)
(* Proofs about SubgraphSync for every number of items and assignment of   *)
(* conditions, page, chunk and limit sizes, number of retries and cap.     *)
(***************************************************************************)
EXTENDS SubgraphSync, FiniteSetTheorems, WellFoundedInduction, TLAPS

-----------------------------------------------------------------------------
(* Pages: the first items of a set, and the last of them.                  *)

\* Sets of items are finite,
LEMMA ItemsFinite ==
  ASSUME SyncAssumption, NEW S \in SUBSET Ids
  PROVE  IsFiniteSet(S) /\ Cardinality(S) \in Nat
<1>1. LastId \in Nat
  BY DEF SyncAssumption
<1>2. IsFiniteSet(Ids)
  BY <1>1, FS_Interval DEF Ids
<1> QED
  BY <1>2, FS_Subset, FS_CardinalityType

\* and have a last one.
LEMMA LastIs ==
  ASSUME SyncAssumption, NEW S \in SUBSET Ids, S # {}
  PROVE  LastOf(S) \in S /\ \A j \in S : j <= LastOf(S)
<1> DEFINE T == {LastId - x : x \in S}
<1>1. LastId \in Nat /\ \A x \in S : x \in 1..LastId
  BY DEF SyncAssumption, Ids
<1>2. T \in SUBSET Nat /\ T # {}
  <2>1. \A x \in S : LastId - x \in Nat
    BY <1>1
  <2>2. T \subseteq Nat
    BY <2>1
  <2>3. PICK x \in S : TRUE
    OBVIOUS
  <2>4. LastId - x \in T
    OBVIOUS
  <2> QED
    BY <2>2, <2>4
<1>3. PICK m \in T : \A y \in T : ~(<<y, m>> \in OpToRel(<, Nat))
  <2> HIDE DEF T
  <2> QED BY <1>2, NatLessThanWellFounded, WFMin, Zenon
<1>4. PICK x \in S : m = LastId - x
  BY <1>3
<1>5. ASSUME NEW j \in S PROVE j <= x
  <2>1. LastId - j \in Nat /\ LastId - x \in Nat /\ LastId - j \in T
    BY <1>1
  <2>2. LastId - j < m => <<LastId - j, m>> \in OpToRel(<, Nat)
    BY <1>4, <2>1 DEF OpToRel
  <2>3. ~(LastId - j < LastId - x)
    BY <1>3, <1>4, <2>1, <2>2
  <2> QED
    BY <1>1, <2>1, <2>3
<1>6. x \in S /\ \A j \in S : j <= x
  BY <1>5
<1> QED
  BY <1>6, Zenon DEF LastOf

\* A set of items that is not empty has a first one.
LEMMA FirstIs ==
  ASSUME NEW S \in SUBSET Ids, S # {}
  PROVE  \E m \in S : \A x \in S : m <= x
<1>1. S \in SUBSET Nat
  BY DEF Ids
<1>2. PICK m \in S : \A x \in S : ~(<<x, m>> \in OpToRel(<, Nat))
  BY <1>1, NatLessThanWellFounded, WFMin, Zenon
<1>3. ASSUME NEW x \in S PROVE m <= x
  <2>1. x \in Nat /\ m \in Nat
    BY <1>1
  <2>2. x < m => <<x, m>> \in OpToRel(<, Nat)
    BY <2>1 DEF OpToRel
  <2>3. ~(x < m)
    BY <1>2, <2>2, Zenon
  <2> QED
    BY <2>1, <2>3
<1> QED
  BY <1>3

\* The rank grows with the item.
LEMMA RankGrows ==
  ASSUME SyncAssumption, NEW S \in SUBSET Ids, NEW i \in S, NEW j \in S, i <= j
  PROVE  Rank(i, S) \in Nat /\ Rank(j, S) \in Nat /\ Rank(i, S) <= Rank(j, S)
<1> DEFINE A == {k \in S : k <= i}
           B == {k \in S : k <= j}
<1>1. A \in SUBSET Ids /\ B \in SUBSET Ids
  OBVIOUS
<1>2. A \subseteq B
  <2>1. i \in Int /\ j \in Int /\ \A k \in S : k \in Int
    BY DEF Ids
  <2>2. \A k \in S : k <= i => k <= j
    BY <2>1
  <2> QED
    BY <2>2
<1>3. Rank(i, S) = Cardinality(A) /\ Rank(j, S) = Cardinality(B)
  BY DEF Rank
<1> HIDE DEF A, B
<1>4. IsFiniteSet(A) /\ IsFiniteSet(B) /\ Cardinality(A) \in Nat /\ Cardinality(B) \in Nat
  BY <1>1, ItemsFinite
<1>5. Cardinality(A) <= Cardinality(B)
  BY <1>2, <1>4, FS_Subset
<1> QED
  BY <1>3, <1>4, <1>5

\* The first n of a set have, with an item, those before it.
LEMMA FirstDown ==
  ASSUME SyncAssumption, NEW n \in Nat, NEW S \in SUBSET Ids,
         NEW j \in FirstOf(n, S), NEW i \in S, i <= j
  PROVE  i \in FirstOf(n, S)
<1>1. j \in S /\ Rank(j, S) <= n
  BY DEF FirstOf
<1>2. Rank(i, S) \in Nat /\ Rank(j, S) \in Nat /\ Rank(i, S) <= Rank(j, S)
  BY <1>1, RankGrows
<1> QED
  BY <1>1, <1>2 DEF FirstOf

\* A page of fewer than n items is all of the set.
LEMMA FirstAll ==
  ASSUME SyncAssumption, NEW n \in Nat, NEW S \in SUBSET Ids, Cardinality(FirstOf(n, S)) < n
  PROVE  FirstOf(n, S) = S
<1> DEFINE F == FirstOf(n, S)
           R == S \ F
<1>1. F \in SUBSET Ids /\ F \subseteq S
  BY DEF FirstOf
<1> SUFFICES ASSUME R # {} PROVE FALSE
  BY <1>1
<1>2. R \in SUBSET Ids
  OBVIOUS
<1>3. PICK x \in R : \A y \in R : x <= y
  <2> HIDE DEF R
  <2> QED BY <1>2, FirstIs
<1> DEFINE D == {j \in S : j <= x}
           E == D \ {x}
<1>4. x \in D /\ E \subseteq F /\ D \in SUBSET Ids
  <2>1. \A j \in E : j \in S /\ j <= x /\ j # x
    OBVIOUS
  <2>2. \A j \in E : j \in Nat /\ x \in Nat
    BY DEF Ids
  <2>3. \A j \in E : ~(x <= j)
    BY <2>1, <2>2
  <2>4. \A j \in E : j \in F
    BY <1>3, <2>1, <2>3
  <2>5. x \in D
    BY DEF Ids
  <2> QED
    BY <2>4, <2>5
<1>5. Rank(x, S) = Cardinality(D) /\ ~(Cardinality(D) <= n)
  <2>1. Rank(x, S) = Cardinality(D)
    BY DEF Rank
  <2>2. ~(Rank(x, S) <= n)
    BY DEF FirstOf
  <2> QED
    BY <2>1, <2>2
<1>6. Cardinality(F) < n
  OBVIOUS
<1> HIDE DEF D, E, F, R
<1>7. IsFiniteSet(D) /\ Cardinality(D) \in Nat /\ IsFiniteSet(F) /\ Cardinality(F) \in Nat
  BY <1>1, <1>4, ItemsFinite
<1>8. Cardinality(E) = Cardinality(D) - 1
  BY <1>4, <1>7, FS_RemoveElement DEF E
<1>9. Cardinality(E) <= Cardinality(F)
  BY <1>4, <1>7, FS_Subset
<1> QED
  BY <1>5, <1>6, <1>7, <1>8, <1>9

\* The chunks of a set of conditions are its parts, and nothing is left out.
LEMMA Chunked ==
  ASSUME NEW C
  PROVE  Chunks(C) \subseteq SUBSET C /\ UNION Chunks(C) = C
<1> DEFINE Of(d) == {c \in C : (Rank(c, C) - 1) \div ChunkSize = (Rank(d, C) - 1) \div ChunkSize}
<1>1. Chunks(C) = {Of(d) : d \in C}
  BY DEF Chunks
<1>2. \A d \in C : d \in Of(d) /\ Of(d) \subseteq C
  OBVIOUS
<1> HIDE DEF Of
<1> QED
  BY <1>1, <1>2

\* Keys are ids, those of accounts their own.
LEMMA KeysOf ==
  ASSUME SyncAssumption, NEW S \in SUBSET Ids
  PROVE  Keys(S) \in SUBSET Ids /\ (entity # "fpmms" => Keys(S) = S)
BY DEF Keys, Key, SyncAssumption

\* Multiples.
LEMMA Multiples ==
  ASSUME NEW a \in Nat, NEW b \in Nat, NEW f \in Nat
  PROVE  (a + 1) * f = a * f + f /\ (a <= b => a * f <= b * f)
<1>1. (a + 1) * f = a * f + f
  OBVIOUS
<1>2. ASSUME a <= b PROVE a * f <= b * f
  <2> DEFINE d == b - a
  <2>1. d \in Nat /\ b = a + d
    BY <1>2
  <2> HIDE DEF d
  <2>2. d * f \in Nat /\ a * f \in Nat
    BY <2>1
  <2>3. b * f = a * f + d * f
    BY <2>1
  <2> QED
    BY <2>2, <2>3
<1> QED
  BY <1>1, <1>2

-----------------------------------------------------------------------------
(* Types, and what follows from them of a page and of the output.          *)

\* The request that a page is after it has been clamped to the page limit.
LEMMA ClampedTyped ==
  ASSUME SyncAssumption, TypeOK, page.at = "asked"
  PROVE  /\ page \in PageRequest /\ Clamped \in PageRequest
         /\ Clamped.after = page.after /\ Clamped.no = page.no /\ Clamped.tries = page.tries
         /\ Clamped.at = "asked"
         /\ Clamped.first = SmallerOf(page.first, limit)
<1>1. page \in PageRequest
  BY DEF TypeOK, NoPage, PageAnswer
<1>2. limit \in 1..FullPage /\ FullPage \in Nat
  BY DEF TypeOK, SyncAssumption
<1>3. SmallerOf(page.first, limit) \in 1..FullPage
  BY <1>1, <1>2 DEF SmallerOf, PageRequest
<1>4. Clamped = [page EXCEPT !.first = SmallerOf(page.first, limit)]
  BY DEF Clamped
<1> QED
  BY <1>1, <1>3, <1>4 DEF PageRequest

\* A page that has been answered.
LEMMA AnswerTyped ==
  ASSUME SyncAssumption, TypeOK, page.at = "fetched"
  PROVE  page \in PageAnswer
BY DEF TypeOK, NoPage, PageRequest

\* The next page of an answer.
LEMMA NextTyped ==
  ASSUME SyncAssumption, TypeOK, page.at = "fetched"
  PROVE  /\ NextPage \in {NoPage} \cup PageRequest
         /\ MorePages => page.items # {}
         /\ page.items # {} => LastOf(page.items) \in Ids
<1>1. page \in PageAnswer /\ page.items \in SUBSET Ids
  BY AnswerTyped DEF PageAnswer
<1>2. page.items # {} => LastOf(page.items) \in Ids
  BY <1>1, LastIs
<1>3. FullPage \in Nat \ {0} /\ LastId \in Nat
  BY DEF SyncAssumption
<1>4. MorePages => page.items # {}
  <2>1. Cardinality({}) = 0
    BY FS_EmptySet
  <2> QED
    BY <1>3, <2>1 DEF MorePages
<1>5. ASSUME MorePages, ~Capped PROVE NextPage \in PageRequest
  <2>1. LastOf(page.items) \in 0..LastId
    BY <1>2, <1>3, <1>4, <1>5 DEF Ids
  <2>2. page.first \in 1..FullPage /\ page.no \in Nat \ {0}
    BY <1>1 DEF PageAnswer
  <2>3. 0 \in 0..MaxRetries
    BY DEF SyncAssumption
  <2>4. NextPage = [at |-> "asked", first |-> page.first, after |-> LastOf(page.items),
                    no |-> IF entity = "accounts" THEN page.no + 1 ELSE 1, tries |-> 0]
    BY <1>5 DEF NextPage
  <2> QED
    BY <2>1, <2>2, <2>3, <2>4 DEF PageRequest
<1>6. ~(MorePages /\ ~Capped) => NextPage = NoPage
  BY DEF NextPage
<1> QED
  BY <1>2, <1>4, <1>5, <1>6

\* The output in the router's hands.
LEMMA OutTyped ==
  ASSUME TypeOK, out # NoOut
  PROVE  out \in Output /\ out.derived \in SUBSET (SUBSET Ids) /\ out.rows \in SUBSET Ids
BY DEF TypeOK, Output

\* Once more at the end of a process everything is as at its start.
LEMMA EndTyped ==
  ASSUME SyncAssumption, TypeOK, End
  PROVE  TypeOK'
BY DEF End, TypeOK, durable, SyncAssumption, Ids

\* A new process starts from typed memory.
LEMMA LaunchTyped ==
  ASSUME SyncAssumption, TypeOK, NEW id \in 0..LastId, Launch(id), row' \in Row
  PROVE  TypeOK'
<1>1. FirstPage(id) \in PageRequest
  BY DEF FirstPage, PageRequest, SyncAssumption
<1>2. {i \in remote : i > id} \in SUBSET Ids
  BY DEF TypeOK
<1> QED
  BY <1>1, <1>2 DEF Launch, TypeOK

\* Every step keeps the types.
LEMMA Typed ==
  ASSUME SyncAssumption, TypeOK, [Next]_vars
  PROVE  TypeOK'
<1> USE DEF durable, memory, history
<1>1. CASE Resume \/ StartFresh \/ FullSync
  <2>0. row \in Row /\ LastId \in Nat
    BY DEF TypeOK, SyncAssumption
  <2>1. row' \in Row
    BY <1>1, <2>0 DEF Resume, StartFresh, FullSync, Announced, Row
  <2>2. PICK id \in 0..LastId : Launch(id)
    BY <1>1, <2>0 DEF Resume, StartFresh, FullSync, Row
  <2> QED
    BY <2>1, <2>2, LaunchTyped
<1>2. CASE GiveUp
  BY <1>2 DEF GiveUp, Fault, TypeOK
<1>3. CASE Crash \/ Exit
  BY <1>3, EndTyped DEF Crash, Exit
<1>4. CASE Complete
  <2>1. row' \in Row
    BY <1>4 DEF Complete, TypeOK, Row
  <2> QED
    BY <1>4, <2>1 DEF Complete, TypeOK
<1>5. CASE PageFetched
  <2> DEFINE items == FirstOf(Clamped.first, After(page.after))
  <2>1. Clamped \in PageRequest /\ page \in PageRequest
    BY <1>5, ClampedTyped DEF PageFetched
  <2>2. items \in SUBSET Ids
    BY DEF FirstOf, After, TypeOK
  <2>3. page' = [at |-> "fetched", first |-> Clamped.first, after |-> page.after,
                 no |-> page.no, items |-> items]
    BY <1>5 DEF PageFetched
  <2>4. seen' = IF clean THEN seen \cup items ELSE seen
    BY <1>5 DEF PageFetched
  <2> HIDE DEF items
  <2>5. page' \in PageAnswer
    BY <2>1, <2>2, <2>3 DEF PageAnswer, PageRequest
  <2>6. seen' \in SUBSET Ids
    BY <2>2, <2>4 DEF TypeOK
  <2> QED
    BY <1>5, <2>5, <2>6 DEF PageFetched, TypeOK
<1>6. CASE AttemptFails \/ IndexerUnavailable
  <2>1. Clamped \in PageRequest /\ page \in PageRequest /\ Clamped.tries = page.tries
    BY <1>6, ClampedTyped DEF AttemptFails, IndexerUnavailable
  <2>2. Retry
    BY <1>6 DEF AttemptFails, IndexerUnavailable
  <2>3. page' \in {NoPage} \cup PageRequest
    <3>1. CASE page.tries < MaxRetries
      <4>1. page' = [Clamped EXCEPT !.tries = Clamped.tries + 1]
        BY <2>2, <3>1 DEF Retry
      <4>2. Clamped.tries + 1 \in 0..MaxRetries
        BY <2>1, <3>1 DEF SyncAssumption, PageRequest
      <4> QED
        BY <2>1, <4>1, <4>2 DEF PageRequest
    <3>2. CASE ~(page.tries < MaxRetries)
      BY <2>2, <3>2 DEF Retry
    <3> QED
      BY <3>1, <3>2
  <2>4. limit' \in 1..FullPage
    <3>1. limit \in 1..FullPage /\ FullPage \in Nat /\ MinLimit \in 1..FullPage
      BY DEF TypeOK, SyncAssumption
    <3>2. limit' = limit \/ limit' = MinLimit
          \/ (limit' = limit \div 2 /\ ~(limit \div 2 < MinLimit))
      BY <1>6 DEF AttemptFails, IndexerUnavailable
    <3> QED
      BY <3>1, <3>2
  <2>5. goal' \in SUBSET Ids /\ seen' \in SUBSET Ids /\ clean' \in BOOLEAN
    BY <2>2 DEF Retry, Fault, NoFault, TypeOK
  <2> QED
    BY <1>6, <2>3, <2>4, <2>5 DEF AttemptFails, IndexerUnavailable, TypeOK
<1>7. CASE PageProcessed
  <2>1. page \in PageAnswer /\ page.items \in SUBSET Ids
    BY <1>7, AnswerTyped DEF PageProcessed, PageAnswer
  <2>2. /\ NextPage \in {NoPage} \cup PageRequest
        /\ page.items # {} => LastOf(page.items) \in Ids
    BY <1>7, NextTyped DEF PageProcessed
  <2>3. NewConditions \in SUBSET Ids
    BY <2>1, KeysOf DEF NewConditions
  <2>4. Chunks(NewConditions) \in SUBSET (SUBSET Ids)
    BY <2>3, Chunked
  <2> DEFINE c == IF page.items = {} \/ Capped THEN 0 ELSE LastOf(page.items)
             r == IF entity = "accounts" THEN page.items ELSE {}
  <2>5. c \in 0..LastId /\ r \in SUBSET Ids
    <3>1. LastId \in Nat /\ \A i \in Ids : i \in 0..LastId
      BY DEF Ids, SyncAssumption
    <3>2. c \in 0..LastId
      BY ONLY <2>2, <3>1
    <3> QED
      BY <2>1, <3>2
  <2>6. out' = [at |-> "saving", rows |-> r, cursor |-> c, derived |-> Chunks(NewConditions),
                next |-> NextPage]
    BY <1>7 DEF PageProcessed
  <2> HIDE DEF c, r
  <2>7. out' \in Output
    BY <2>2, <2>4, <2>5, <2>6 DEF Output
  <2>8. processed' \in SUBSET Ids
    BY <1>7, <2>3 DEF PageProcessed, TypeOK
  <2> QED
    BY <1>7, <2>7, <2>8 DEF PageProcessed, TypeOK
<1>8. CASE PageRejected
  BY <1>8 DEF PageRejected, Fault, TypeOK
<1>9. CASE RouteRows
  <2>1. out \in Output /\ out.rows \in SUBSET Ids
    BY <1>9, OutTyped DEF RouteRows, NoOut
  <2>2. out' \in Output
    BY <1>9, <2>1 DEF RouteRows, Output
  <2>3. queue' \in SUBSET (SUBSET Ids)
    BY <1>9, <2>1 DEF RouteRows, TypeOK
  <2> QED
    BY <1>9, <2>2, <2>3 DEF RouteRows, TypeOK
<1>10. CASE RouteCursor
  <2>1. out \in Output /\ out.cursor \in 0..LastId
    BY <1>10, OutTyped DEF RouteCursor, NoOut, Output
  <2>2. out' \in Output
    BY <1>10, <2>1 DEF RouteCursor, Output
  <2>3. row' \in Row /\ lastCursor' \in 0..LastId
    BY <1>10, <2>1 DEF RouteCursor, TypeOK, Row
  <2>4. goal' \in SUBSET Ids /\ seen' \in SUBSET Ids /\ clean' \in BOOLEAN
    BY <1>10 DEF RouteCursor, Fault, NoFault, TypeOK
  <2> QED
    BY <1>10, <2>2, <2>3, <2>4 DEF RouteCursor, TypeOK
<1>11. CASE RouteFollowUps
  <2>1. out \in Output /\ out.derived \in SUBSET (SUBSET Ids)
    BY <1>11, OutTyped DEF RouteFollowUps, NoOut
  <2>2. out.next \in {NoPage} \cup PageRequest
    BY <2>1 DEF Output
  <2> QED
    BY <1>11, <2>1, <2>2 DEF RouteFollowUps, TypeOK
<1>12. CASE Follow
  <2>1. PICK c \in markets : MarketsFetched(c) \/ MarketsFail(c)
    BY <1>12 DEF Follow
  <2>2. c \in SUBSET Ids
    BY DEF TypeOK
  <2>3. markets' \in SUBSET (SUBSET Ids) /\ queue' \in SUBSET (SUBSET Ids)
    BY <2>1, <2>2 DEF MarketsFetched, MarketsFail, TypeOK
  <2> QED
    BY <2>1, <2>3 DEF MarketsFetched, MarketsFail, Fault, TypeOK
<1>13. CASE Saving
  <2>1. PICK b \in queue : Save(b) \/ SaveFails(b)
    BY <1>13 DEF Saving
  <2>2. queue' \in SUBSET (SUBSET Ids) /\ stored' \in SUBSET Ids
    BY <2>1 DEF Save, SaveFails, TypeOK
  <2> QED
    BY <2>1, <2>2 DEF Save, SaveFails, Fault, TypeOK
<1>14. CASE \E i \in Ids : Appear(i)
  BY <1>14 DEF Appear, TypeOK
<1>15. CASE UNCHANGED vars
  BY <1>15 DEF vars, TypeOK
<1> QED
  BY <1>1, <1>2, <1>3, <1>4, <1>5, <1>6, <1>7, <1>8, <1>9, <1>10, <1>11, <1>12, <1>13, <1>14,
     <1>15 DEF Next, Job, Fetching, Processing, Routing

-----------------------------------------------------------------------------
(* What this run has read stays in its hands.                              *)

\* A process that is not running has nothing in its memory or its history.
AtRest ==
  up = "down" =>
    /\ page = NoPage /\ out = NoOut /\ markets = {} /\ queue = {} /\ processed = {}
    /\ seen = {} /\ goal = {}

\* The router has an answer's output only after the answer is gone.
OneHand == out # NoOut => page = NoPage

\* What the router has still to hand over: requests for markets, and rows.
Derived == IF out = NoOut THEN {} ELSE UNION out.derived
Rows == IF out.at = "saving" THEN out.rows ELSE {}
Beyond == stored \cup (UNION queue) \cup (UNION markets) \cup Derived

\* A condition the processor will not ask for again is stored or on its way.
ProcessedKept == clean => processed \subseteq Beyond

Hand == AtRest /\ OneHand /\ ProcessedKept /\ ReadIsKept

\* The router's part in two.
LEMMA RouterIs ==
  InRouter = Derived \cup Rows /\ (out = NoOut => Derived = {} /\ Rows = {})
BY DEF InRouter, Derived, Rows, NoOut

\* ReadIsKept in these words.
LEMMA KeptIs ==
  ReadIsKept <=> (clean => Keys(seen) \subseteq Beyond \cup Rows \cup InPage)
BY RouterIs DEF ReadIsKept, Beyond

\* A step that drops nothing, and adds no more to what has been read than to the hands.
LEMMA NothingDropped ==
  ASSUME Hand, entity' = entity, clean' => clean, AtRest', OneHand',
         clean => processed' \subseteq processed \cup Beyond',
         clean => Beyond \subseteq Beyond',
         clean => Keys(seen)' \subseteq Keys(seen) \cup InPage',
         clean => Rows \cup InPage \subseteq Beyond' \cup Rows' \cup InPage'
  PROVE  Hand'
<1>1. ProcessedKept'
  BY DEF ProcessedKept, Hand
<1>2. clean => Keys(seen) \subseteq Beyond \cup Rows \cup InPage
  BY KeptIs DEF Hand
<1>3. clean' => Keys(seen)' \subseteq Beyond' \cup Rows' \cup InPage'
  BY <1>2
<1>4. InRouter' = Derived' \cup Rows'
  BY DEF InRouter, Derived, Rows, NoOut
<1>5. ReadIsKept'
  BY <1>3, <1>4 DEF ReadIsKept, Beyond
<1> QED
  BY <1>1, <1>5 DEF Hand

\* Something was lost, and with it this run's history.
LEMMA AllDropped ==
  ASSUME AtRest', OneHand', ~clean'
  PROVE  Hand'
BY DEF Hand, ProcessedKept, ReadIsKept

\* Nothing has been read yet.
LEMMA NothingRead ==
  ASSUME AtRest', OneHand', seen' = {}, processed' = {}
  PROVE  Hand'
<1>1. ProcessedKept'
  BY DEF ProcessedKept
<1>2. Keys(seen)' = {}
  BY DEF Keys
<1>3. ReadIsKept'
  BY <1>2 DEF ReadIsKept
<1> QED
  BY <1>1, <1>3 DEF Hand

\* Before the first process nothing has been read.
LEMMA HandInit == ASSUME Init PROVE Hand
<1>1. Keys(seen) = {}
  BY DEF Init, Keys
<1> QED
  BY <1>1 DEF Init, Hand, AtRest, OneHand, ProcessedKept, ReadIsKept

\* Every step keeps what has been read.
LEMMA HandKept ==
  ASSUME SyncAssumption, TypeOK, Hand, [Next]_vars
  PROVE  Hand'
<1> USE DEF durable, memory, history
<1>0. AtRest /\ OneHand
  BY DEF Hand
<1>1. CASE Resume \/ StartFresh \/ FullSync
  <2>1. PICK id : Launch(id)
    BY <1>1 DEF Resume, StartFresh, FullSync
  <2>2. seen' = {} /\ processed' = {} /\ out' = NoOut /\ up' = "running"
    BY <1>0, <2>1 DEF Launch, AtRest
  <2>3. AtRest' /\ OneHand'
    BY <2>2 DEF AtRest, OneHand
  <2> QED
    BY <2>2, <2>3, NothingRead
<1>2. CASE GiveUp
  <2>1. AtRest' /\ OneHand' /\ ~clean'
    BY <1>0, <1>2 DEF GiveUp, Fault, AtRest, OneHand
  <2> QED
    BY <2>1, AllDropped
<1>3. CASE Crash \/ Exit
  <2>1. AtRest' /\ OneHand' /\ seen' = {} /\ processed' = {}
    BY <1>3 DEF Crash, Exit, End, AtRest, OneHand
  <2> QED
    BY <2>1, NothingRead
<1>4. CASE Complete \/ UNCHANGED vars \/ \E i \in Ids : Appear(i)
  <2>1. UNCHANGED <<entity, stored, memory, history>>
    BY <1>4 DEF Complete, vars, Appear
  <2>2. Beyond' = Beyond /\ Rows' = Rows /\ InPage' = InPage /\ Keys(seen)' = Keys(seen)
    BY <2>1 DEF Beyond, Derived, Rows, InPage, Keys, Key
  <2>3. OneHand' /\ AtRest'
    BY <1>0, <1>4, <2>1 DEF OneHand, AtRest, Complete, vars, Appear
  <2> QED
    BY <2>1, <2>2, <2>3, NothingDropped
<1>5. CASE PageFetched
  <2> DEFINE items == FirstOf(Clamped.first, After(page.after))
  <2>1. /\ UNCHANGED <<entity, stored, up, out, markets, queue, processed, clean>>
        /\ page' = [at |-> "fetched", first |-> Clamped.first, after |-> page.after,
                    no |-> page.no, items |-> items]
        /\ page.at = "asked" /\ page # NoPage /\ page'.at = "fetched" /\ page'.items = items
        /\ seen' = IF clean THEN seen \cup items ELSE seen
    BY <1>5 DEF PageFetched, NoPage
  <2> HIDE DEF items
  <2>2. Beyond' = Beyond /\ Rows' = Rows /\ InPage = {}
    BY <2>1 DEF Beyond, Derived, Rows, InPage
  <2> DEFINE got == {IF entity = "fpmms" THEN CondOf[i] ELSE i : i \in items}
  <2>3. InPage' = got
    BY <2>1 DEF InPage, Keys, Key
  <2>4. clean => Keys(seen)' \subseteq Keys(seen) \cup InPage'
    <3>1. Keys(seen)' = {IF entity = "fpmms" THEN CondOf[i] ELSE i : i \in seen'}
      BY <2>1 DEF Keys, Key
    <3>2. Keys(seen) = {IF entity = "fpmms" THEN CondOf[i] ELSE i : i \in seen}
      BY DEF Keys, Key
    <3>3. clean => \A i \in seen' : i \in seen \/ i \in items
      BY <2>1
    <3>4. clean => Keys(seen)' \subseteq Keys(seen) \cup got
      BY ONLY <3>1, <3>2, <3>3
    <3> QED
      BY <2>3, <3>4
  <2>5. OneHand' /\ AtRest'
    BY <1>0, <2>1 DEF OneHand, AtRest
  <2> QED
    BY <2>1, <2>2, <2>4, <2>5, NothingDropped
<1>6. CASE AttemptFails \/ IndexerUnavailable
  <2>1. /\ UNCHANGED <<entity, stored, up, out, markets, queue, processed>>
        /\ page.at = "asked" /\ Retry /\ page # NoPage
    BY <1>6 DEF AttemptFails, IndexerUnavailable, NoPage
  <2>2. Clamped.at = "asked" /\ Clamped \in PageRequest
    BY <2>1, ClampedTyped
  <2>3. up # "down" /\ out = NoOut
    BY <1>0, <2>1 DEF AtRest, OneHand
  <2>4. OneHand' /\ AtRest'
    BY <2>1, <2>3 DEF OneHand, AtRest
  <2>5. CASE Fault
    BY <2>4, <2>5, AllDropped DEF Fault
  <2>6. CASE NoFault /\ page' = [Clamped EXCEPT !.tries = Clamped.tries + 1]
    <3>1. page'.at = "asked"
      BY <2>2, <2>6 DEF PageRequest
    <3>2. InPage = {} /\ InPage' = {} /\ Beyond' = Beyond /\ Rows' = Rows
      BY <2>1, <3>1 DEF InPage, Beyond, Derived, Rows
    <3>3. Keys(seen)' = Keys(seen) /\ clean' = clean
      BY <2>1, <2>6 DEF NoFault, Keys, Key
    <3> QED
      BY <2>1, <2>4, <3>2, <3>3, NothingDropped
  <2> QED
    BY <2>1, <2>5, <2>6 DEF Retry
<1>7. CASE PageProcessed
  <2>1. page \in PageAnswer /\ page.items \in SUBSET Ids
    BY <1>7, AnswerTyped DEF PageProcessed, PageAnswer
  <2> DEFINE rows == IF entity = "accounts" THEN page.items ELSE {}
  <2>2. /\ UNCHANGED <<entity, stored, up, markets, queue, seen, clean>>
        /\ out = NoOut /\ page.at = "fetched" /\ page' = NoPage
        /\ out'.at = "saving" /\ out' # NoOut /\ out'.rows = rows
        /\ out'.derived = Chunks(NewConditions)
        /\ processed' = processed \cup NewConditions
    BY <1>7 DEF PageProcessed, NoOut
  <2> HIDE DEF rows
  <2>3. Derived' = NewConditions
    <3>1. Derived' = UNION out'.derived
      BY <2>2 DEF Derived
    <3>2. UNION Chunks(NewConditions) = NewConditions
      BY Chunked
    <3> QED
      BY <2>2, <3>1, <3>2
  <2>4. Derived = {} /\ Rows = {} /\ Rows' = rows /\ InPage = Keys(page.items)
    BY <2>2, RouterIs DEF Rows, InPage
  <2>5. Beyond \subseteq Beyond' /\ NewConditions \subseteq Beyond'
    BY <2>2, <2>3, <2>4 DEF Beyond
  <2>6. clean => Keys(page.items) \subseteq Beyond' \cup Rows'
    <3>1. CASE entity = "fpmms"
      <4>1. Keys(page.items) \subseteq NewConditions \cup processed
        BY <3>1 DEF NewConditions
      <4>2. clean => processed \subseteq Beyond
        BY DEF Hand, ProcessedKept
      <4> QED
        BY <2>5, <4>1, <4>2
    <3>2. CASE entity = "accounts"
      BY <2>1, <2>4, <3>2, KeysOf DEF rows
    <3> QED
      BY <3>1, <3>2 DEF TypeOK
  <2>7. Keys(seen)' = Keys(seen)
    BY <2>2 DEF Keys, Key
  <2>8. OneHand' /\ AtRest'
    BY <1>0, <2>2 DEF OneHand, AtRest, NoPage
  <2> QED
    BY <2>2, <2>4, <2>5, <2>6, <2>7, <2>8, NothingDropped
<1>8. CASE PageRejected
  <2>1. AtRest' /\ OneHand' /\ ~clean'
    BY <1>0, <1>8 DEF PageRejected, Fault, AtRest, OneHand
  <2> QED
    BY <2>1, AllDropped
<1>9. CASE RouteRows
  <2>1. out \in Output /\ out.rows \in SUBSET Ids
    BY <1>9, OutTyped DEF RouteRows, NoOut
  <2>2. /\ UNCHANGED <<entity, stored, up, page, markets, processed, seen, clean>>
        /\ out.at = "saving" /\ out # NoOut /\ out' # NoOut /\ out'.at = "cursor"
        /\ out'.derived = out.derived
        /\ queue' = IF out.rows = {} THEN queue ELSE queue \cup {out.rows}
    BY <1>9, <2>1 DEF RouteRows, Output, NoOut
  <2>3. Derived' = Derived /\ Rows = out.rows /\ Rows' = {} /\ InPage' = InPage
        /\ Keys(seen)' = Keys(seen)
    BY <2>2 DEF Derived, Rows, InPage, Keys, Key
  <2>4. UNION queue \subseteq UNION queue' /\ out.rows \subseteq UNION queue'
    BY <2>2
  <2>5. Beyond \subseteq Beyond' /\ Rows \subseteq Beyond'
    BY <2>2, <2>3, <2>4 DEF Beyond
  <2>6. OneHand' /\ AtRest'
    BY <1>0, <2>2 DEF OneHand, AtRest
  <2> QED
    BY <2>2, <2>3, <2>5, <2>6, NothingDropped
<1>10. CASE RouteCursor
  <2>1. out \in Output
    BY <1>10, OutTyped DEF RouteCursor, NoOut
  <2>2. /\ UNCHANGED <<entity, stored, up, page, markets, queue, processed>>
        /\ out.at = "cursor" /\ out # NoOut /\ out' # NoOut /\ out'.at = "follow"
        /\ out'.derived = out.derived
    BY <1>10, <2>1 DEF RouteCursor, Output, NoOut
  <2>3. Fault \/ NoFault
    BY <1>10 DEF RouteCursor
  <2>4. OneHand' /\ AtRest'
    BY <1>0, <2>2 DEF OneHand, AtRest
  <2>5. CASE Fault
    BY <2>4, <2>5, AllDropped DEF Fault
  <2>6. CASE NoFault
    <3>1. clean' = clean /\ Keys(seen)' = Keys(seen)
      BY <2>2, <2>6 DEF NoFault, Keys, Key
    <3>2. Beyond' = Beyond /\ Rows = {} /\ Rows' = {} /\ InPage' = InPage
      BY <2>2 DEF Beyond, Derived, Rows, InPage, Keys, Key
    <3> QED
      BY <2>2, <2>4, <3>1, <3>2, NothingDropped
  <2> QED
    BY <2>3, <2>5, <2>6
<1>11. CASE RouteFollowUps
  <2>1. out \in Output
    BY <1>11, OutTyped DEF RouteFollowUps, NoOut
  <2>2. out.next \in {NoPage} \cup PageRequest
    BY <2>1 DEF Output
  <2>3. /\ UNCHANGED <<entity, stored, up, queue, processed, seen, clean>>
        /\ out.at = "follow" /\ out # NoOut /\ out' = NoOut /\ page = NoPage /\ page' = out.next
        /\ markets' = markets \cup out.derived
    BY <1>11 DEF RouteFollowUps, NoOut
  <2>4. InPage = {} /\ InPage' = {} /\ Rows = {} /\ Rows' = {} /\ Derived' = {}
    BY <2>2, <2>3 DEF InPage, NoPage, PageRequest, Rows, NoOut, Derived
  <2>5. Derived = UNION out.derived /\ UNION markets' = (UNION markets) \cup Derived
    BY <2>3 DEF Derived
  <2>6. Beyond' = Beyond
    BY <2>3, <2>4, <2>5 DEF Beyond
  <2>7. Keys(seen)' = Keys(seen)
    BY <2>3 DEF Keys, Key
  <2>8. OneHand' /\ AtRest'
    BY <1>0, <2>3 DEF OneHand, AtRest
  <2> QED
    BY <2>3, <2>4, <2>6, <2>7, <2>8, NothingDropped
<1>12. CASE Follow
  <2>1. PICK c \in markets : MarketsFetched(c) \/ MarketsFail(c)
    BY <1>12 DEF Follow
  <2>2. CASE MarketsFail(c)
    <3>1. AtRest' /\ OneHand' /\ ~clean'
      BY <1>0, <2>2 DEF MarketsFail, Fault, AtRest, OneHand
    <3> QED
      BY <3>1, AllDropped
  <2>3. CASE MarketsFetched(c)
    <3>1. /\ UNCHANGED <<entity, stored, up, page, out, processed, seen, clean>>
          /\ markets' = markets \ {c} /\ queue' = queue \cup {c}
      BY <2>3 DEF MarketsFetched
    <3>2. (UNION queue) \cup (UNION markets) \subseteq (UNION queue') \cup (UNION markets')
      BY <3>1
    <3>3. Derived' = Derived /\ Rows' = Rows /\ InPage' = InPage /\ Keys(seen)' = Keys(seen)
      BY <3>1 DEF Derived, Rows, InPage, Keys, Key
    <3>4. Beyond \subseteq Beyond'
      BY <3>1, <3>2, <3>3 DEF Beyond
    <3>5. OneHand' /\ AtRest'
      BY <1>0, <2>1, <3>1 DEF OneHand, AtRest
    <3> QED
      BY <3>1, <3>3, <3>4, <3>5, NothingDropped
  <2> QED
    BY <2>1, <2>2, <2>3
<1>13. CASE Saving
  <2>1. PICK b \in queue : Save(b) \/ SaveFails(b)
    BY <1>13 DEF Saving
  <2>2. CASE SaveFails(b)
    <3>1. AtRest' /\ OneHand' /\ ~clean'
      BY <1>0, <2>1, <2>2 DEF SaveFails, Fault, AtRest, OneHand
    <3> QED
      BY <3>1, AllDropped
  <2>3. CASE Save(b)
    <3>1. /\ UNCHANGED <<entity, up, page, out, markets, processed, seen, clean>>
          /\ queue' = queue \ {b} /\ stored' = stored \cup b
      BY <2>3 DEF Save
    <3>2. stored \cup (UNION queue) \subseteq stored' \cup (UNION queue')
      BY <3>1
    <3>3. Derived' = Derived /\ Rows' = Rows /\ InPage' = InPage /\ Keys(seen)' = Keys(seen)
      BY <3>1 DEF Derived, Rows, InPage, Keys, Key
    <3>4. Beyond \subseteq Beyond'
      BY <3>1, <3>2, <3>3 DEF Beyond
    <3>5. OneHand' /\ AtRest'
      BY <1>0, <2>1, <3>1 DEF OneHand, AtRest
    <3> QED
      BY <3>1, <3>3, <3>4, <3>5, NothingDropped
  <2> QED
    BY <2>1, <2>2, <2>3
<1> QED
  BY <1>1, <1>2, <1>3, <1>4, <1>5, <1>6, <1>7, <1>8, <1>9, <1>10, <1>11, <1>12, <1>13
  DEF Next, Job, Fetching, Processing, Routing

-----------------------------------------------------------------------------
(* What a run without a failure has read of what there was.                *)

\* The fetcher lowers its page limit, never below the least, and never raises it.
LimitKept == limit \in MinLimit..FullPage

\* A request r reads on from the last of what has been read; the pages before it were full.
Ahead(r) ==
  /\ \A i \in seen : i <= r.after
  /\ \A i \in goal : i \in seen \/ i > r.after
  /\ limit = FullPage => r.first = FullPage
  /\ entity = "accounts" => Cardinality(seen) >= (r.no - 1) * FullPage

\* An answer r has the next of the items, and all of them when it is short.
Answered(r) ==
  /\ \A i \in r.items : i > r.after
  /\ \A i \in r.items : i \in seen
  /\ \A i \in seen : i \in r.items \/ i <= r.after
  /\ \A i \in goal : i \in seen \/ \A j \in r.items : i > j
  /\ limit = FullPage /\ Cardinality(r.items) < FullPage => goal \subseteq seen
  /\ limit = FullPage => r.first = FullPage
  /\ entity = "accounts" =>
       Cardinality(seen) >= (r.no - 1) * FullPage + Cardinality(r.items)

\* There is no more to read.
AllRead ==
  \/ goal \subseteq seen
  \/ limit < FullPage
  \/ entity = "accounts" /\ Cardinality(seen) >= MaxPages * FullPage

\* The request to come, if there is one, is ahead of what has been read.
Onward(r) == IF r = NoPage THEN AllRead ELSE Ahead(r)

Progress ==
  up = "running" /\ clean =>
    /\ goal \subseteq remote
    /\ page.at = "asked" => Ahead(page)
    /\ page.at = "fetched" => Answered(page)
    /\ page = NoPage => Onward(IF out = NoOut THEN NoPage ELSE out.next)

\* A page fetched answers the request it was ahead with.
LEMMA AnswerIs ==
  ASSUME SyncAssumption, TypeOK, LimitKept, Ahead(page), PageFetched, clean,
         goal \subseteq remote
  PROVE  Answered(page)'
<1> DEFINE items == FirstOf(Clamped.first, After(page.after))
           n == Clamped.first
<1>1. /\ UNCHANGED <<entity, limit, goal>> /\ page.at = "asked"
      /\ page' = [at |-> "fetched", first |-> n, after |-> page.after,
                  no |-> page.no, items |-> items]
      /\ seen' = seen \cup items
  BY DEF PageFetched, durable, memory, history
<1>2. /\ page \in PageRequest /\ Clamped \in PageRequest /\ n = SmallerOf(page.first, limit)
      /\ n \in Nat /\ page.after \in Nat /\ page.no \in Nat \ {0} /\ limit \in Nat
      /\ FullPage \in Nat
  <2>1. page \in PageRequest /\ Clamped \in PageRequest /\ n = SmallerOf(page.first, limit)
    BY <1>1, ClampedTyped
  <2>2. FullPage \in Nat /\ limit \in Nat /\ LastId \in Nat
    BY DEF SyncAssumption, TypeOK
  <2>3. n \in 1..FullPage /\ page.after \in 0..LastId /\ page.no \in Nat \ {0}
    BY <2>1 DEF PageRequest
  <2> QED
    BY <2>1, <2>2, <2>3
<1>3. After(page.after) \in SUBSET Ids /\ items \in SUBSET Ids /\ seen \in SUBSET Ids
      /\ goal \in SUBSET Ids
  BY DEF After, FirstOf, TypeOK
<1>4. \A i \in items : i > page.after
  BY DEF FirstOf, After
<1>5. \A i \in goal : i \in seen \/ i \in After(page.after)
  BY DEF Ahead, After
<1>6. \A i \in goal : i \in seen' \/ \A j \in items : i > j
  <2> SUFFICES ASSUME NEW i \in goal, i \notin seen', NEW j \in items PROVE i > j
    OBVIOUS
  <2>1. i \in After(page.after) /\ i \notin items
    BY <1>1, <1>5
  <2>2. ~(i <= j)
    <3> HIDE DEF items
    <3>1. SUFFICES ASSUME i <= j PROVE FALSE
      OBVIOUS
    <3> QED
      BY <1>2, <1>3, <2>1, <3>1, FirstDown DEF items
  <2>3. i \in Int /\ j \in Int
    BY <1>3 DEF Ids
  <2> QED
    BY <2>2, <2>3
<1>7. limit = FullPage => n = FullPage
  BY <1>2 DEF Ahead, SmallerOf
<1>8. limit = FullPage /\ Cardinality(items) < FullPage => goal \subseteq seen'
  <2> SUFFICES ASSUME limit = FullPage, Cardinality(items) < FullPage PROVE goal \subseteq seen'
    OBVIOUS
  <2>1. items = After(page.after)
    BY <1>2, <1>3, <1>7, FirstAll
  <2> QED
    BY <1>1, <1>5, <2>1
<1>9. Cardinality(seen') = Cardinality(seen) + Cardinality(items)
      /\ Cardinality(seen) \in Nat /\ Cardinality(items) \in Nat
  <2> HIDE DEF items
  <2>1. IsFiniteSet(seen) /\ IsFiniteSet(items)
        /\ Cardinality(seen) \in Nat /\ Cardinality(items) \in Nat
    BY <1>3, ItemsFinite
  <2>2. \A i \in seen : i <= page.after /\ i \in Nat
    BY <1>3 DEF Ahead, Ids
  <2>3. seen \cap items = {}
    BY <1>2, <1>4, <2>2
  <2>4. Cardinality(seen \cap items) = 0
    BY <2>3, FS_EmptySet
  <2>5. Cardinality(seen \cup items) =
          Cardinality(seen) + Cardinality(items) - Cardinality(seen \cap items)
    BY <2>1, FS_Union
  <2> QED
    BY <1>1, <2>1, <2>4, <2>5
<1>10. entity = "accounts" => Cardinality(seen) >= (page.no - 1) * FullPage
  BY DEF Ahead
<1>11. (page.no - 1) * FullPage \in Int
  BY <1>2
<1>12. entity = "accounts" => Cardinality(seen') >= (page.no - 1) * FullPage + Cardinality(items)
  BY <1>9, <1>10, <1>11
<1>13. \A i \in seen : i <= page.after
  BY DEF Ahead
<1> HIDE DEF items, n
<1>14. page'.after = page.after /\ page'.items = items /\ page'.first = n /\ page'.no = page.no
  BY <1>1
<1>15. /\ \A i \in items : i \in seen'
       /\ \A i \in seen' : i \in items \/ i <= page.after
  BY <1>1, <1>13
<1> QED
  BY <1>1, <1>4, <1>6, <1>7, <1>8, <1>12, <1>14, <1>15 DEF Answered

\* A request that is made again, clamped to the limit, is as far ahead.
LEMMA RetryIs ==
  ASSUME SyncAssumption, TypeOK, LimitKept, Ahead(page), page.at = "asked", NoFault,
         UNCHANGED entity, limit' \in MinLimit..limit,
         page' = [Clamped EXCEPT !.tries = Clamped.tries + 1]
  PROVE  Ahead(page)' /\ page'.at = "asked" /\ page' # NoPage
<1>1. /\ page \in PageRequest /\ Clamped \in PageRequest /\ Clamped.after = page.after
      /\ Clamped.no = page.no /\ Clamped.at = "asked"
      /\ Clamped.first = SmallerOf(page.first, limit)
  BY ClampedTyped
<1>2. page'.after = page.after /\ page'.no = page.no /\ page'.at = "asked"
      /\ page'.first = SmallerOf(page.first, limit)
  BY <1>1 DEF PageRequest
<1>3. limit \in MinLimit..FullPage /\ FullPage \in Nat /\ MinLimit \in Nat
  BY DEF LimitKept, SyncAssumption
<1>4. limit' = FullPage => limit = FullPage
  BY <1>3
<1>5. limit = FullPage => page.first = FullPage
  BY DEF Ahead
<1>6. limit' = FullPage => page'.first = FullPage
  BY <1>2, <1>3, <1>4, <1>5 DEF SmallerOf
<1>7. UNCHANGED <<seen, goal>>
  BY DEF NoFault
<1>8. Ahead(page)'
  BY <1>2, <1>6, <1>7 DEF Ahead
<1> QED
  BY <1>2, <1>8 DEF NoPage

\* After an answer the next page is ahead of what has been read, if there is one.
LEMMA NextIs ==
  ASSUME SyncAssumption, TypeOK, LimitKept, Answered(page), page.at = "fetched"
  PROVE  Onward(NextPage)
<1>1. page \in PageAnswer /\ page.items \in SUBSET Ids /\ page.no \in Nat \ {0}
      /\ page.after \in Nat
  <2>1. page \in PageAnswer /\ LastId \in Nat
    BY AnswerTyped DEF SyncAssumption
  <2> QED
    BY <2>1 DEF PageAnswer
<1>2. IsFiniteSet(page.items) /\ Cardinality(page.items) \in Nat
      /\ Cardinality(seen) \in Nat /\ FullPage \in Nat /\ MaxPages \in Nat /\ seen \in SUBSET Ids
      /\ limit \in 1..FullPage
  BY <1>1, ItemsFinite DEF SyncAssumption, TypeOK
<1> DEFINE k == page.no - 1
<1>3. k \in Nat /\ page.no = k + 1
  BY <1>1
<1>4. page.no * FullPage = k * FullPage + FullPage /\ k * FullPage \in Nat
      /\ page.no * FullPage \in Nat
  <2> HIDE DEF k
  <2>1. (k + 1) * FullPage = k * FullPage + FullPage
    BY <1>2, <1>3, Multiples
  <2>2. k * FullPage \in Nat
    BY <1>2, <1>3
  <2> QED
    BY <1>2, <1>3, <2>1, <2>2
<1>5. entity = "accounts" => Cardinality(seen) >= k * FullPage + Cardinality(page.items)
  BY DEF Answered
<1> HIDE DEF k
<1>6. entity = "accounts" /\ MorePages => Cardinality(seen) >= page.no * FullPage
  <2>1. MorePages => Cardinality(page.items) >= FullPage
    BY DEF MorePages
  <2> QED
    BY <1>2, <1>4, <1>5, <2>1
<1>7. CASE ~MorePages
  <2>1. Cardinality(page.items) < FullPage
    BY <1>2, <1>7 DEF MorePages
  <2>2. limit = FullPage => goal \subseteq seen
    BY <2>1 DEF Answered
  <2>3. limit < FullPage \/ goal \subseteq seen
    BY <1>2, <2>2
  <2>4. NextPage = NoPage
    BY <1>7 DEF NextPage
  <2> QED
    BY <2>3, <2>4 DEF Onward, AllRead
<1>8. CASE Capped
  <2>1. MorePages /\ entity = "accounts" /\ page.no >= MaxPages
    BY <1>8 DEF Capped
  <2>2. MaxPages * FullPage <= page.no * FullPage /\ MaxPages * FullPage \in Nat
    BY <1>1, <1>2, <2>1, Multiples
  <2>3. Cardinality(seen) >= MaxPages * FullPage
    BY <1>2, <1>4, <1>6, <2>1, <2>2
  <2>4. NextPage = NoPage
    BY <1>8 DEF NextPage
  <2> QED
    BY <2>1, <2>3, <2>4 DEF Onward, AllRead
<1>9. CASE MorePages /\ ~Capped
  <2> DEFINE no == IF entity = "accounts" THEN page.no + 1 ELSE 1
  <2>1. NextPage = [at |-> "asked", first |-> page.first, after |-> LastOf(page.items),
                    no |-> no, tries |-> 0]
    BY <1>9 DEF NextPage
  <2>2. /\ NextPage.first = page.first /\ NextPage.after = LastOf(page.items)
        /\ NextPage.no = no /\ NextPage # NoPage
    BY <2>1 DEF NoPage
  <2>3. /\ LastOf(page.items) \in page.items
        /\ \A j \in page.items : j <= LastOf(page.items)
    BY <1>1, <1>9, LastIs, NextTyped
  <2> DEFINE last == LastOf(page.items)
  <2>4. last \in Nat /\ page.after \in Nat /\ \A i \in seen : i \in Nat
    <3>1. Ids \subseteq Nat
      BY DEF Ids
    <3>2. last \in Ids
      BY <1>1, <2>3
    <3>3. seen \subseteq Ids
      BY <1>2
    <3> HIDE DEF last
    <3> QED
      BY ONLY <1>1, <3>1, <3>2, <3>3
  <2>5. last > page.after
    BY <2>3 DEF Answered
  <2>6. \A i \in seen : i <= last
    <3>1. \A i \in seen : i \in page.items \/ i <= page.after
      BY DEF Answered
    <3> HIDE DEF last
    <3>2. \A i \in seen : i <= page.after => i <= last
      BY <2>4, <2>5
    <3> QED
      BY <2>3, <3>1, <3>2 DEF last
  <2>7. \A i \in goal : i \in seen \/ i > last
    BY <2>3 DEF Answered
  <2>8. limit = FullPage => page.first = FullPage
    BY DEF Answered
  <2>9. entity = "accounts" => Cardinality(seen) >= (no - 1) * FullPage
    <3>1. entity = "accounts" => no - 1 = page.no
      BY <1>1
    <3> QED
      BY <1>6, <1>9, <3>1
  <2> HIDE DEF no, last
  <2>10. Ahead(NextPage)
    BY <2>2, <2>6, <2>7, <2>8, <2>9 DEF Ahead, last
  <2> QED
    BY <2>2, <2>10 DEF Onward
<1> QED
  BY <1>7, <1>8, <1>9

\* A run that ended without a failure has nothing left to do, and has stored everything.
Ended == up = "stopping" /\ clean => Idle
RunInv == TypeOK /\ Hand /\ LimitKept /\ Progress /\ Ended /\ CompleteUnlessCut

\* The invariant holds of a database in which nothing has been synced,
LEMMA RunInit == ASSUME SyncAssumption, Init PROVE RunInv
<1>1. TypeOK
  <2>1. FullPage \in 1..FullPage /\ 0 \in 0..LastId
    BY DEF SyncAssumption
  <2>2. row \in Row
    BY <2>1 DEF Init, Row
  <2> QED
    BY <2>1, <2>2 DEF Init, TypeOK
<1>2. LimitKept
  BY DEF Init, LimitKept, SyncAssumption
<1> QED
  BY <1>1, <1>2, HandInit DEF Init, RunInv, Progress, Ended, CompleteUnlessCut

\* Only a bad indexer and a new process change the page limit.
LEMMA LimitIsKept ==
  ASSUME SyncAssumption, LimitKept, [Next]_vars
  PROVE  LimitKept' /\ (limit' = limit \/ IndexerUnavailable \/ End)
<1> USE DEF durable, memory, history
<1>1. limit' = limit \/ IndexerUnavailable \/ End
  BY Zenon DEF Next, Job, Resume, StartFresh, FullSync, Launch, GiveUp, Crash, Complete, Exit,
     Fetching, PageFetched, AttemptFails, Processing, PageProcessed, PageRejected, Routing,
     RouteRows, RouteCursor, RouteFollowUps, Follow, MarketsFetched, MarketsFail, Saving, Save,
     SaveFails, Appear, vars
<1>2. limit \in MinLimit..FullPage /\ MinLimit \in 1..FullPage /\ FullPage \in Nat
  BY DEF LimitKept, SyncAssumption
<1>3. CASE IndexerUnavailable
  <2>1. limit' = MinLimit \/ (limit' = limit \div 2 /\ ~(limit \div 2 < MinLimit))
    BY <1>3 DEF IndexerUnavailable
  <2>2. LimitKept'
    BY <1>2, <2>1 DEF LimitKept
  <2> QED
    BY <1>3, <2>2
<1>4. CASE End
  BY <1>2, <1>4 DEF End, LimitKept
<1> QED
  BY <1>1, <1>2, <1>3, <1>4 DEF LimitKept

\* Steps that leave the requests, the output and what has been read as they were.
LEMMA ProgressStays ==
  ASSUME Progress, up' = up, clean' => clean,
         clean' => UNCHANGED <<entity, limit, page, out, goal, seen>>,
         remote \subseteq remote'
  PROVE  Progress'
<1> SUFFICES ASSUME up' = "running", clean' PROVE Progress'
  BY DEF Progress
<1>1. /\ goal \subseteq remote
      /\ page.at = "asked" => Ahead(page)
      /\ page.at = "fetched" => Answered(page)
      /\ page = NoPage => Onward(IF out = NoOut THEN NoPage ELSE out.next)
  BY DEF Progress
<1>2. page.at = "asked" => Ahead(page)'
  BY <1>1 DEF Ahead
<1>3. page.at = "fetched" => Answered(page)'
  BY <1>1 DEF Answered
<1> DEFINE r == IF out = NoOut THEN NoPage ELSE out.next
<1>4. r' = r
  OBVIOUS
<1>5. page = NoPage => Onward(r)
  BY <1>1
<1> HIDE DEF r
<1>6. page = NoPage => Onward(r)'
  BY <1>4, <1>5 DEF Onward, Ahead, AllRead
<1> USE DEF r
<1> QED
  BY <1>1, <1>2, <1>3, <1>6 DEF Progress

\* Every step of a run reads on where the last one left off.
LEMMA ProgressKept ==
  ASSUME SyncAssumption, RunInv, [Next]_vars
  PROVE  Progress'
<1> USE DEF durable, memory, history
<1>0. TypeOK /\ AtRest /\ OneHand /\ LimitKept /\ Progress
  BY DEF RunInv, Hand
<1>1. CASE Resume \/ StartFresh \/ FullSync
  <2>1. PICK id : Launch(id)
    BY <1>1 DEF Resume, StartFresh, FullSync
  <2>2. seen = {} /\ seen' = {} /\ page' = FirstPage(id) /\ goal' = {i \in remote : i > id}
        /\ remote' = remote
    BY <1>0, <2>1 DEF Launch, AtRest
  <2>3. /\ page'.at = "asked" /\ page' # NoPage /\ page'.first = FullPage /\ page'.no = 1
        /\ page'.after = id
    BY <2>2 DEF FirstPage, NoPage
  <2>4. Cardinality(seen') >= (page'.no - 1) * FullPage
    <3>1. Cardinality({}) = 0
      BY FS_EmptySet
    <3>2. (page'.no - 1) * FullPage = 0
      BY <2>3 DEF SyncAssumption
    <3> QED
      BY <2>2, <3>1, <3>2
  <2>5. Ahead(page)'
    BY <2>2, <2>3, <2>4 DEF Ahead
  <2>6. goal' \subseteq remote'
    BY <2>2
  <2> QED
    BY <2>3, <2>5, <2>6 DEF Progress
<1>2. CASE GiveUp \/ Crash \/ Exit \/ Complete
  BY <1>2 DEF GiveUp, Crash, Exit, End, Complete, Progress
<1>3. CASE UNCHANGED vars \/ \E i \in Ids : Appear(i)
  <2>1. UNCHANGED <<entity, up, memory, history>> /\ remote \subseteq remote'
    BY <1>3 DEF vars, Appear
  <2> QED
    BY <1>0, <2>1, ProgressStays
<1>4. CASE PageFetched
  <2> SUFFICES ASSUME up' = "running", clean' PROVE Progress'
    BY DEF Progress
  <2>1. up = "running" /\ clean /\ goal' = goal /\ remote' = remote /\ page.at = "asked"
        /\ page'.at = "fetched" /\ page' # NoPage
    BY <1>4 DEF PageFetched, NoPage
  <2>2. goal \subseteq remote /\ Ahead(page)
    BY <1>0, <2>1 DEF Progress
  <2>3. Answered(page)'
    BY <1>0, <1>4, <2>1, <2>2, AnswerIs
  <2> QED
    BY <2>1, <2>2, <2>3 DEF Progress
<1>5. CASE AttemptFails \/ IndexerUnavailable
  <2> SUFFICES ASSUME up' = "running", clean' PROVE Progress'
    BY DEF Progress
  <2>1. /\ up = "running" /\ UNCHANGED <<entity, remote>> /\ page.at = "asked" /\ Retry
    BY <1>5 DEF AttemptFails, IndexerUnavailable
  <2>2. NoFault /\ page' = [Clamped EXCEPT !.tries = Clamped.tries + 1]
    BY <2>1 DEF Retry, Fault
  <2>3. clean /\ goal' = goal
    BY <2>2 DEF NoFault
  <2>4. goal \subseteq remote /\ Ahead(page)
    BY <1>0, <2>1, <2>3 DEF Progress
  <2>5. limit' \in MinLimit..limit
    <3>1. limit \in MinLimit..FullPage /\ MinLimit \in 1..FullPage /\ FullPage \in Nat
      BY <1>0 DEF LimitKept, SyncAssumption
    <3>2. limit' = limit \/ limit' = MinLimit
          \/ (limit' = limit \div 2 /\ ~(limit \div 2 < MinLimit))
      BY <1>5 DEF AttemptFails, IndexerUnavailable
    <3> QED
      BY <3>1, <3>2
  <2>6. Ahead(page)' /\ page'.at = "asked" /\ page' # NoPage
    BY <1>0, <2>1, <2>2, <2>4, <2>5, RetryIs
  <2> QED
    BY <2>1, <2>3, <2>4, <2>6 DEF Progress
<1>6. CASE PageProcessed
  <2> SUFFICES ASSUME up' = "running", clean' PROVE Progress'
    BY DEF Progress
  <2>1. /\ up = "running" /\ clean /\ page.at = "fetched"
        /\ UNCHANGED <<entity, remote, limit, goal, seen>>
        /\ page' = NoPage /\ out' # NoOut /\ out'.next = NextPage
    BY <1>6 DEF PageProcessed, NoOut
  <2>2. goal \subseteq remote /\ Answered(page)
    BY <1>0, <2>1 DEF Progress
  <2>3. Onward(NextPage)
    BY <1>0, <2>1, <2>2, NextIs
  <2>4. Onward(out'.next)
    BY <2>1, <2>3
  <2>5. Onward(out.next)'
    BY <2>1, <2>4 DEF Onward, Ahead, AllRead
  <2> QED
    BY <2>1, <2>2, <2>5 DEF Progress, NoPage
<1>7. CASE PageRejected
  BY <1>7 DEF PageRejected, Fault, Progress
<1>8. CASE RouteRows \/ RouteCursor
  <2> SUFFICES ASSUME up' = "running", clean' PROVE Progress'
    BY DEF Progress
  <2>0. out # NoOut
    <3>1. out.at = "saving" \/ out.at = "cursor"
      BY <1>8 DEF RouteRows, RouteCursor
    <3>2. NoOut.at = "none"
      BY DEF NoOut
    <3> QED
      BY ONLY <3>1, <3>2
  <2>1. out \in Output /\ out # NoOut
    BY <1>0, <2>0, OutTyped
  <2>2. /\ up = "running" /\ clean /\ UNCHANGED <<entity, remote, limit, page, goal, seen>>
        /\ out' # NoOut /\ out'.next = out.next
    BY <1>8, <2>1 DEF RouteRows, RouteCursor, Fault, NoFault, Output, NoOut
  <2>3. page = NoPage /\ page' = NoPage /\ goal \subseteq remote /\ Onward(out.next)
    BY <1>0, <2>1, <2>2 DEF Progress, OneHand
  <2>4. Onward(out.next)'
    BY <2>2, <2>3 DEF Onward, Ahead, AllRead
  <2> QED
    BY <2>2, <2>3, <2>4 DEF Progress, NoPage
<1>9. CASE RouteFollowUps
  <2> SUFFICES ASSUME up' = "running", clean' PROVE Progress'
    BY DEF Progress
  <2>1. /\ up = "running" /\ clean /\ UNCHANGED <<entity, remote, limit, goal, seen>>
        /\ out # NoOut /\ out' = NoOut /\ page = NoPage /\ page' = out.next
    BY <1>9 DEF RouteFollowUps, NoOut
  <2>2. out.next \in {NoPage} \cup PageRequest
    BY <1>0, <2>1, OutTyped DEF Output
  <2>3. goal \subseteq remote /\ Onward(out.next)
    BY <1>0, <2>1 DEF Progress
  <2>4. CASE out.next = NoPage
    <3>1. AllRead'
      BY <2>1, <2>3, <2>4 DEF Onward, AllRead
    <3> QED
      BY <2>1, <2>3, <2>4, <3>1 DEF Progress, NoPage, Onward
  <2>5. CASE out.next # NoPage
    <3>1. Ahead(page)'
      BY <2>1, <2>3, <2>5 DEF Onward, Ahead
    <3>2. page' # NoPage /\ page'.at = "asked"
      BY <2>1, <2>2, <2>5 DEF PageRequest
    <3> QED
      BY <2>1, <2>3, <3>1, <3>2 DEF Progress
  <2> QED
    BY <2>4, <2>5
<1>10. CASE Follow
  <2>1. PICK c \in markets : MarketsFetched(c) \/ MarketsFail(c)
    BY <1>10 DEF Follow
  <2> QED
    BY <1>0, <2>1, ProgressStays DEF MarketsFetched, MarketsFail, Fault
<1>11. CASE Saving
  <2>1. PICK b \in queue : Save(b) \/ SaveFails(b)
    BY <1>11 DEF Saving
  <2> QED
    BY <1>0, <2>1, ProgressStays DEF Save, SaveFails, Fault
<1> QED
  BY <1>1, <1>2, <1>3, <1>4, <1>5, <1>6, <1>7, <1>8, <1>9, <1>10, <1>11
  DEF Next, Job, Fetching, Processing, Routing

\* A run that returned from its batch without a failure.
LEMMA EndedKept ==
  ASSUME SyncAssumption, RunInv, [Next]_vars
  PROVE  Ended' /\ CompleteUnlessCut'
<1> USE DEF durable, memory, history
<1> SUFFICES ASSUME up' = "stopping", clean' PROVE Ended' /\ CompleteUnlessCut'
  BY DEF Ended, CompleteUnlessCut
<1>1. CASE Complete
  <2>1. /\ up = "running" /\ clean /\ Idle /\ UNCHANGED <<entity, stored, memory, history>>
    BY <1>1 DEF Complete
  <2>2. Idle'
    BY <2>1 DEF Idle
  <2>3. AllRead
    BY <2>1 DEF RunInv, Progress, Idle, Onward
  <2>4. Keys(seen) \subseteq stored
    <3>1. Keys(seen) \subseteq Beyond \cup Rows \cup InPage
      BY <2>1, KeptIs DEF RunInv, Hand
    <3>2. (UNION queue) = {} /\ (UNION markets) = {}
      BY <2>1 DEF Idle
    <3>3. Rows = {} /\ Derived = {} /\ InPage = {}
      BY <2>1, RouterIs DEF Idle, InPage, NoPage
    <3> QED
      BY <3>1, <3>2, <3>3 DEF Beyond
  <2>5. goal \subseteq seen => Keys(goal) \subseteq Keys(seen)
    BY DEF Keys
  <2>6. Keys(goal)' = Keys(goal)
    BY <2>1 DEF Keys, Key
  <2>7. CompleteUnlessCut'
    <3>1. CASE goal \subseteq seen
      BY <2>1, <2>4, <2>5, <2>6, <3>1 DEF CompleteUnlessCut
    <3>2. CASE limit < FullPage
      BY <2>1, <3>2 DEF CompleteUnlessCut
    <3>3. CASE entity = "accounts" /\ Cardinality(seen) >= MaxPages * FullPage
      BY <2>1, <3>3 DEF CompleteUnlessCut
    <3> QED
      BY <2>3, <3>1, <3>2, <3>3 DEF AllRead
  <2> QED
    BY <2>1, <2>2, <2>7 DEF Ended
<1>2. CASE UNCHANGED vars \/ \E i \in Ids : Appear(i)
  <2>1. UNCHANGED <<entity, stored, up, memory, history>>
    BY <1>2 DEF vars, Appear
  <2>2. Idle /\ Idle'
    BY <2>1 DEF RunInv, Ended, Idle
  <2>3. Keys(goal)' = Keys(goal)
    BY <2>1 DEF Keys, Key
  <2>4. CompleteUnlessCut
    BY DEF RunInv
  <2>5. CompleteUnlessCut'
    BY <2>1, <2>3, <2>4 DEF CompleteUnlessCut
  <2> QED
    BY <2>2, <2>5 DEF Ended
<1>3. CASE Job \/ Exit
  BY <1>3 DEF Job, Resume, StartFresh, FullSync, Launch, GiveUp, Crash, Fault, Exit, End
<1>4. CASE Fetching \/ Processing \/ Routing \/ Follow \/ Saving
  <2>1. up = "stopping" /\ clean
    BY <1>4 DEF Fetching, PageFetched, AttemptFails, IndexerUnavailable, Retry, Processing,
       PageProcessed, PageRejected, Routing, RouteRows, RouteCursor, RouteFollowUps, Follow,
       MarketsFetched, MarketsFail, Saving, Save, SaveFails, Fault, NoFault
  <2>2. page = NoPage /\ out = NoOut /\ markets = {} /\ queue = {}
    BY <2>1 DEF RunInv, Ended, Idle
  <2>3. page.at = "none" /\ out.at = "none"
    BY <2>2 DEF NoPage, NoOut
  <2> QED
    BY <1>4, <2>2, <2>3 DEF Fetching, PageFetched, AttemptFails, IndexerUnavailable, Processing,
       PageProcessed, PageRejected, Routing, RouteRows, RouteCursor, RouteFollowUps, Follow, Saving
<1> QED
  BY <1>1, <1>2, <1>3, <1>4 DEF Next

\* and every step keeps it.
LEMMA RunInvariance ==
  ASSUME SyncAssumption
  PROVE  Spec => []RunInv
<1>1. Init => RunInv
  BY RunInit
<1>2. RunInv /\ [Next]_vars => RunInv'
  <2> SUFFICES ASSUME RunInv, [Next]_vars PROVE RunInv'
    OBVIOUS
  <2>1. TypeOK'
    BY Typed DEF RunInv
  <2>2. Hand'
    BY HandKept DEF RunInv
  <2>3. LimitKept'
    BY LimitIsKept DEF RunInv
  <2>4. Progress'
    BY ProgressKept
  <2>5. Ended' /\ CompleteUnlessCut'
    BY EndedKept
  <2> QED
    BY <2>1, <2>2, <2>3, <2>4, <2>5 DEF RunInv
<1> QED
  BY <1>1, <1>2, PTL DEF Spec

\* Requests, answers, the output of the processor and the sync_state row have their types.
THEOREM TypeCorrect == ASSUME SyncAssumption PROVE Spec => []TypeOK
<1>1. RunInv => TypeOK
  BY DEF RunInv
<1> QED
  BY <1>1, RunInvariance, PTL

\* Until something fails, what a run has read is stored or in its hands.
THEOREM ReadStaysInHand == ASSUME SyncAssumption PROVE Spec => []ReadIsKept
<1>1. RunInv => ReadIsKept
  BY DEF RunInv, Hand
<1> QED
  BY <1>1, RunInvariance, PTL

\* A run that ends without a failure has stored everything there was when it began, unless
\* a lowered page limit or the cap cut it short.
THEOREM RunsAreComplete == ASSUME SyncAssumption PROVE Spec => []CompleteUnlessCut
<1>1. RunInv => CompleteUnlessCut
  BY DEF RunInv
<1> QED
  BY <1>1, RunInvariance, PTL

-----------------------------------------------------------------------------
(* Every run comes to an end: RunEnds but for the fairness, without which  *)
(* nothing at all need happen.                                             *)

\* Something other than a crash is open to the process: an attempt, an answer to process,
\* a part of the output to route, a market request or a batch to finish, or the end itself.
CanMove ==
  \/ page.at = "asked"
  \/ page.at = "fetched" /\ out = NoOut
  \/ out.at \in {"saving", "cursor"}
  \/ out.at = "follow" /\ page = NoPage
  \/ markets # {}
  \/ queue # {}
  \/ Idle

\* Market requests one page can lead to, at most, and the steps of one page: through the
\* processor and the router, and with its attempts.
MostDerived == Cardinality(SUBSET Ids)
AfterFetch == 2 * MostDerived + 5
PerPage == AfterFetch + MaxRetries + 1

\* The steps a page may still take, those of the pages that can follow it included.
PageWork(r) ==
  CASE r.at = "asked" -> (LastId - r.after) * PerPage + AfterFetch + 1 + (MaxRetries - r.tries)
    [] r.at = "fetched" -> (LastId - r.after) * PerPage + AfterFetch
    [] OTHER -> 0

\* The steps of an output in the router's hands, of the market requests, of the batches,
\* of the process, and the items that can still appear.
OutWork(o) ==
  IF o.at = "none" THEN 0
  ELSE (CASE o.at = "saving" -> IF o.rows = {} THEN 3 ELSE 4
          [] o.at = "cursor" -> 2
          [] OTHER -> 1)
       + 2 * Cardinality(o.derived) + PageWork(o.next)
FlowWork == 2 * Cardinality(markets) + Cardinality(queue)
UpWork == CASE up = "running" -> 2 [] up = "stopping" -> 1 [] OTHER -> 0
Work == PageWork(page) + OutWork(out) + FlowWork + UpWork + Cardinality(Ids \ remote)

\* A job starts.
Launches == up = "down" /\ up' = "running"

\* Sets of conditions are finite, and so are the requests one page can lead to.
LEMMA DerivedFinite ==
  ASSUME SyncAssumption, NEW S \in SUBSET (SUBSET Ids)
  PROVE  /\ IsFiniteSet(S) /\ Cardinality(S) \in Nat /\ Cardinality(S) <= MostDerived
         /\ MostDerived \in Nat
<1>1. IsFiniteSet(Ids)
  BY ItemsFinite
<1>2. IsFiniteSet(SUBSET Ids)
  BY <1>1, FS_SUBSET
<1> QED
  BY <1>2, FS_Subset, FS_CardinalityType DEF MostDerived

\* The numbers the weights are made of.
LEMMA PerPageIs ==
  ASSUME SyncAssumption
  PROVE  /\ LastId \in Nat /\ MaxRetries \in Nat /\ MostDerived \in Nat
         /\ AfterFetch = 2 * MostDerived + 5 /\ AfterFetch \in Nat
         /\ PerPage = AfterFetch + MaxRetries + 1 /\ PerPage \in Nat
<1>1. LastId \in Nat /\ MaxRetries \in Nat /\ MostDerived \in Nat
  BY DerivedFinite DEF SyncAssumption
<1> QED
  BY <1>1 DEF AfterFetch, PerPage

\* What the weight of a request, of an answer and of no page is.
LEMMA PageWorkIs ==
  ASSUME SyncAssumption, NEW r \in {NoPage} \cup PageRequest \cup PageAnswer
  PROVE  /\ PageWork(r) \in Nat
         /\ (LastId - r.after) * PerPage \in Nat \/ r = NoPage
         /\ r.at = "asked" =>
              /\ PageWork(r) = (LastId - r.after) * PerPage + AfterFetch + 1
                                 + (MaxRetries - r.tries)
              /\ (LastId - r.after) * PerPage \in Nat /\ MaxRetries - r.tries \in Nat
         /\ r.at = "fetched" =>
              /\ PageWork(r) = (LastId - r.after) * PerPage + AfterFetch
              /\ (LastId - r.after) * PerPage \in Nat
         /\ r = NoPage => PageWork(r) = 0
<1>1. CASE r = NoPage
  BY <1>1 DEF NoPage, PageWork
<1>2. CASE r # NoPage
  <2>1. r.after \in 0..LastId
    BY <1>2 DEF PageRequest, PageAnswer
  <2>2. LastId - r.after \in Nat
    BY <2>1, PerPageIs
  <2>3. (LastId - r.after) * PerPage \in Nat
    <3>1. \A k \in Nat : k * PerPage \in Nat
      BY PerPageIs
    <3> QED
      BY <2>2, <3>1
  <2>4. r.at = "asked" => MaxRetries - r.tries \in Nat
    <3>1. r.at = "asked" => r.tries \in 0..MaxRetries
      BY <1>2 DEF PageRequest, PageAnswer
    <3> QED
      BY <3>1, PerPageIs
  <2>5. r.at = "asked" => PageWork(r) = (LastId - r.after) * PerPage + AfterFetch + 1
                                          + (MaxRetries - r.tries)
    BY DEF PageWork
  <2>6. r.at = "fetched" => PageWork(r) = (LastId - r.after) * PerPage + AfterFetch
    BY DEF PageWork
  <2>7. r.at = "asked" \/ r.at = "fetched"
    BY <1>2 DEF PageRequest, PageAnswer
  <2> DEFINE w == (LastId - r.after) * PerPage
             t == MaxRetries - r.tries
  <2> HIDE DEF w, t
  <2>8. PageWork(r) \in Nat
    <3>1. w \in Nat /\ AfterFetch \in Nat
      BY <2>3, PerPageIs DEF w
    <3>2. CASE r.at = "asked"
      <4>1. t \in Nat /\ PageWork(r) = w + AfterFetch + 1 + t
        BY <2>4, <2>5, <3>2 DEF w, t
      <4> QED
        BY <3>1, <4>1
    <3>3. CASE r.at = "fetched"
      BY <2>6, <3>1, <3>3 DEF w
    <3> QED
      BY <2>7, <3>2, <3>3
  <2> QED
    BY <1>2, <2>3, <2>4, <2>5, <2>6, <2>8
<1> QED
  BY <1>1, <1>2

\* What an output weighs.
LEMMA OutWorkIs ==
  ASSUME SyncAssumption, NEW o \in {NoOut} \cup Output
  PROVE  /\ OutWork(o) \in Nat
         /\ o = NoOut => OutWork(o) = 0
         /\ o # NoOut =>
              /\ OutWork(o) = (CASE o.at = "saving" -> IF o.rows = {} THEN 3 ELSE 4
                                 [] o.at = "cursor" -> 2
                                 [] OTHER -> 1)
                              + 2 * Cardinality(o.derived) + PageWork(o.next)
              /\ Cardinality(o.derived) \in Nat /\ PageWork(o.next) \in Nat
              /\ o.derived \in SUBSET (SUBSET Ids) /\ o.next \in {NoPage} \cup PageRequest
<1>1. CASE o = NoOut
  BY <1>1 DEF NoOut, OutWork
<1>2. CASE o # NoOut
  <2> DEFINE n == CASE o.at = "saving" -> IF o.rows = {} THEN 3 ELSE 4
                    [] o.at = "cursor" -> 2
                    [] OTHER -> 1
  <2>1. o.at # "none" /\ o.derived \in SUBSET (SUBSET Ids) /\ o.next \in {NoPage} \cup PageRequest
    BY <1>2 DEF Output
  <2>2. Cardinality(o.derived) \in Nat /\ PageWork(o.next) \in Nat
    BY <2>1, DerivedFinite, PageWorkIs
  <2>3. n \in Nat
    OBVIOUS
  <2>4. OutWork(o) = n + 2 * Cardinality(o.derived) + PageWork(o.next)
    BY <2>1 DEF OutWork
  <2>5. OutWork(o) \in Nat
    <3> HIDE DEF n
    <3> QED
      BY <2>2, <2>3, <2>4
  <2> QED
    BY <1>2, <2>1, <2>2, <2>4, <2>5
<1> QED
  BY <1>1, <1>2

\* Every weight is a natural number.
LEMMA WorkIs ==
  ASSUME SyncAssumption, TypeOK
  PROVE  /\ PageWork(page) \in Nat /\ OutWork(out) \in Nat
         /\ Cardinality(markets) \in Nat /\ Cardinality(queue) \in Nat
         /\ IsFiniteSet(markets) /\ IsFiniteSet(queue) /\ IsFiniteSet(Ids \ remote)
         /\ UpWork \in 0..2 /\ Cardinality(Ids \ remote) \in Nat
         /\ Work \in Nat
<1>1. PageWork(page) \in Nat /\ OutWork(out) \in Nat
  BY PageWorkIs, OutWorkIs DEF TypeOK
<1>2. /\ Cardinality(markets) \in Nat /\ Cardinality(queue) \in Nat
      /\ IsFiniteSet(markets) /\ IsFiniteSet(queue)
  BY DerivedFinite DEF TypeOK
<1>3. UpWork \in 0..2
  BY DEF UpWork
<1>4. IsFiniteSet(Ids \ remote) /\ Cardinality(Ids \ remote) \in Nat
  BY ItemsFinite
<1>5. Work \in Nat
  BY <1>1, <1>2, <1>3, <1>4 DEF Work, FlowWork
<1> QED
  BY <1>1, <1>2, <1>3, <1>4, <1>5

\* An answer has only items after its cursor, also when something of the run failed.
Advances == page.at = "fetched" => \A i \in page.items : i > page.after

\* Every step keeps it: only an answer makes an answer.
LEMMA AdvancesKept ==
  ASSUME SyncAssumption, TypeOK, Advances, [Next]_vars
  PROVE  Advances'
<1> USE DEF durable, memory, history
<1>1. CASE PageFetched
  <2>1. \A i \in FirstOf(Clamped.first, After(page.after)) : i > page.after
    BY DEF FirstOf, After
  <2> QED
    BY <1>1, <2>1 DEF PageFetched, Advances
<1>2. CASE AttemptFails \/ IndexerUnavailable
  <2>1. Clamped \in PageRequest /\ Retry
    BY <1>2, ClampedTyped DEF AttemptFails, IndexerUnavailable
  <2>2. page'.at # "fetched"
    BY <2>1 DEF Retry, PageRequest, NoPage
  <2> QED
    BY <2>2 DEF Advances
<1>3. CASE RouteFollowUps
  <2>1. out \in Output /\ page' = out.next
    BY <1>3, OutTyped DEF RouteFollowUps, NoOut
  <2>2. page'.at # "fetched"
    BY <2>1 DEF Output, PageRequest, NoPage
  <2> QED
    BY <2>2 DEF Advances
<1>4. CASE UNCHANGED page
  BY <1>4 DEF Advances
<1>5. CASE page'.at # "fetched"
  BY <1>5 DEF Advances
<1>6. ASSUME Next, ~PageFetched, ~AttemptFails, ~IndexerUnavailable, ~RouteFollowUps
      PROVE  UNCHANGED page \/ page'.at # "fetched"
  BY <1>6 DEF Next, Job, Resume, StartFresh, FullSync, Launch, FirstPage, GiveUp, Crash, Exit, End,
     Complete, Fetching, Processing, PageProcessed, PageRejected, Routing, RouteRows, RouteCursor,
     Follow, MarketsFetched, MarketsFail, Saving, Save, SaveFails, Appear, NoPage
<1>7. UNCHANGED vars => UNCHANGED page
  BY DEF vars
<1> QED
  BY <1>1, <1>2, <1>3, <1>4, <1>5, <1>6, <1>7

\* The page after one advances by an item at least: it weighs a page less.
LEMMA NextWeighsLess ==
  ASSUME SyncAssumption, TypeOK, Advances, page.at = "fetched"
  PROVE  3 + 1 + 2 * MostDerived + PageWork(NextPage) < PageWork(page)
<1>1. page \in PageAnswer /\ page.items \in SUBSET Ids
  BY AnswerTyped DEF PageAnswer
<1>2. PageWork(page) = (LastId - page.after) * PerPage + AfterFetch
      /\ (LastId - page.after) * PerPage \in Nat
  BY <1>1, PageWorkIs
<1>3. CASE NextPage = NoPage
  <2>1. PageWork(NextPage) = 0
    BY <1>3 DEF PageWork, NoPage
  <2> DEFINE w == (LastId - page.after) * PerPage
  <2> HIDE DEF w
  <2>2. PageWork(page) = w + AfterFetch /\ w \in Nat
    BY <1>2 DEF w
  <2>3. MostDerived \in Nat /\ AfterFetch = 2 * MostDerived + 5
    BY PerPageIs
  <2> QED
    BY <2>1, <2>2, <2>3
<1>4. CASE NextPage # NoPage
  <2> DEFINE last == LastOf(page.items)
  <2>1. NextPage \in PageRequest /\ NextPage.after = last /\ NextPage.tries = 0 /\ MorePages
        /\ NextPage.at = "asked"
    BY <1>4, NextTyped DEF NextPage
  <2>2. last \in page.items /\ last > page.after
    BY <1>1, <2>1, LastIs, NextTyped DEF Advances
  <2>3. last \in 1..LastId /\ page.after \in 0..LastId /\ LastId \in Nat
    <3>1. last \in Ids
      BY <1>1, <2>2
    <3>2. page.after \in 0..LastId
      BY <1>1 DEF PageAnswer
    <3> QED
      BY <3>1, <3>2, PerPageIs DEF Ids
  <2> DEFINE a == LastId - last
             b == LastId - page.after
  <2> HIDE DEF last
  <2>4. a \in Nat /\ b \in Nat /\ a + 1 <= b
    BY <2>2, <2>3
  <2> HIDE DEF a, b
  <2>5. (a + 1) * PerPage = a * PerPage + PerPage /\ (a + 1) * PerPage <= b * PerPage
    <3>1. PerPage \in Nat /\ a + 1 \in Nat
      BY <2>4, PerPageIs
    <3> QED
      BY <2>4, <3>1, Multiples
  <2> DEFINE v == a * PerPage
             w == b * PerPage
  <2>6. PageWork(page) = w + AfterFetch /\ w \in Nat
    BY <1>2 DEF b
  <2>7. PageWork(NextPage) = v + AfterFetch + 1 + (MaxRetries - 0) /\ v \in Nat
    <3>1. NextPage \in {NoPage} \cup PageRequest \cup PageAnswer
      BY <2>1
    <3> QED
      BY <2>1, <3>1, PageWorkIs DEF a
  <2>8. v + PerPage <= w
    BY <2>5, <2>6, <2>7, PerPageIs
  <2> HIDE DEF v, w
  <2> QED
    BY <2>6, <2>7, <2>8, PerPageIs
<1> QED
  BY <1>3, <1>4

\* Adding a set to some, and taking one away.
LEMMA OneMore ==
  ASSUME NEW S, IsFiniteSet(S), NEW x
  PROVE  /\ Cardinality(S \cup {x}) <= Cardinality(S) + 1
         /\ x \in S => Cardinality(S \ {x}) = Cardinality(S) - 1
         /\ Cardinality(S) \in Nat /\ Cardinality(S \cup {x}) \in Nat
         /\ Cardinality(S \ {x}) \in Nat
<1>1. IsFiniteSet(S \cup {x}) /\ IsFiniteSet(S \ {x})
  BY FS_AddElement, FS_RemoveElement
<1>2. Cardinality(S) \in Nat /\ Cardinality(S \cup {x}) \in Nat /\ Cardinality(S \ {x}) \in Nat
  BY <1>1, FS_CardinalityType
<1>3. Cardinality(S \cup {x}) = IF x \in S THEN Cardinality(S) ELSE Cardinality(S) + 1
  BY FS_AddElement
<1>4. Cardinality(S \ {x}) = IF x \in S THEN Cardinality(S) - 1 ELSE Cardinality(S)
  BY FS_RemoveElement
<1>5. Cardinality(S \cup {x}) <= Cardinality(S) + 1
  BY <1>2, <1>3
<1> QED
  BY <1>2, <1>4, <1>5

-----------------------------------------------------------------------------
(* Every step but the start of a job lowers Work.                          *)


\* The end of the process leaves nothing to do.
LEMMA EndUsesWork ==
  ASSUME SyncAssumption, TypeOK, up # "down", End
  PROVE  Work' < Work
<1>1. /\ PageWork(page) \in Nat /\ OutWork(out) \in Nat
      /\ Cardinality(markets) \in Nat /\ Cardinality(queue) \in Nat
      /\ Cardinality(Ids \ remote) \in Nat
  BY WorkIs
<1>2. page' = NoPage /\ out' = NoOut /\ markets' = {} /\ queue' = {} /\ up' = "down"
      /\ remote' = remote
  BY DEF End, durable
<1>3. PageWork(page') = 0 /\ OutWork(out') = 0 /\ Cardinality({}) = 0
  BY <1>2, FS_EmptySet DEF PageWork, OutWork, NoPage, NoOut
<1>4. UpWork' = 0 /\ UpWork \in {1, 2}
  BY <1>2 DEF UpWork, TypeOK
<1>5. Work' = 0 + 0 + (2 * 0 + 0) + 0 + Cardinality(Ids \ remote)
  BY <1>2, <1>3, <1>4 DEF Work, FlowWork
<1>6. Work = PageWork(page) + OutWork(out) + (2 * Cardinality(markets) + Cardinality(queue))
               + UpWork + Cardinality(Ids \ remote)
  BY DEF Work, FlowWork
<1> QED
  BY ONLY <1>1, <1>4, <1>5, <1>6

\* The job's other steps take the process one stage on.
LEMMA JobUsesWork ==
  ASSUME SyncAssumption, TypeOK, Job \/ Complete \/ Exit
  PROVE  Launches \/ Work' < Work
<1> USE DEF durable, memory, history
<1>1. CASE Resume \/ StartFresh \/ FullSync
  BY <1>1 DEF Resume, StartFresh, FullSync, Launch, Launches
<1>2. CASE Complete \/ GiveUp
  <2>1. UNCHANGED <<page, out, markets, queue, remote>> /\ up = "running" /\ up' = "stopping"
    BY <1>2 DEF Complete, GiveUp
  <2>2. UpWork = 2 /\ UpWork' = 1
    BY <2>1 DEF UpWork
  <2>3. /\ PageWork(page) \in Nat /\ OutWork(out) \in Nat
        /\ Cardinality(markets) \in Nat /\ Cardinality(queue) \in Nat
        /\ Cardinality(Ids \ remote) \in Nat
    BY WorkIs
  <2>4. Work = PageWork(page) + OutWork(out) + (2 * Cardinality(markets) + Cardinality(queue))
                 + 2 + Cardinality(Ids \ remote)
    BY <2>2 DEF Work, FlowWork
  <2>5. Work' = PageWork(page) + OutWork(out) + (2 * Cardinality(markets) + Cardinality(queue))
                  + 1 + Cardinality(Ids \ remote)
    BY <2>1, <2>2 DEF Work, FlowWork
  <2>6. Work' < Work
    BY ONLY <2>3, <2>4, <2>5
  <2> QED
    BY <2>6
<1>3. CASE Crash \/ Exit
  <2>1. End /\ up # "down"
    BY <1>3 DEF Crash, Exit
  <2> QED
    BY <2>1, EndUsesWork
<1> QED
  BY <1>1, <1>2, <1>3 DEF Job

\* An attempt, an answer, and a page that is given up.
LEMMA FetchUsesWork ==
  ASSUME SyncAssumption, TypeOK, TypeOK', Fetching \/ PageRejected
  PROVE  Work' < Work
<1> USE DEF durable, memory, history
<1>1. UNCHANGED <<out, markets, queue, up, remote>>
  BY DEF Fetching, PageFetched, AttemptFails, IndexerUnavailable, PageRejected
<1>2. /\ PageWork(page) \in Nat /\ OutWork(out) \in Nat
      /\ Cardinality(markets) \in Nat /\ Cardinality(queue) \in Nat
      /\ Cardinality(Ids \ remote) \in Nat /\ UpWork \in 0..2
  BY WorkIs
<1>3. page' \in {NoPage} \cup PageRequest \cup PageAnswer
  BY DEF TypeOK
<1> DEFINE w == (LastId - page.after) * PerPage
<1>4. PageWork(page') < PageWork(page)
  <2>1. CASE PageFetched
    <3>1. page.at = "asked" /\ page'.at = "fetched" /\ page'.after = page.after
      BY <2>1 DEF PageFetched
    <3>2. page \in PageRequest
      BY <3>1, ClampedTyped
    <3>3. PageWork(page') = w + AfterFetch /\ w \in Nat
      BY <1>3, <3>1, PageWorkIs
    <3>4. PageWork(page) = w + AfterFetch + 1 + (MaxRetries - page.tries)
          /\ MaxRetries - page.tries \in Nat
      BY <3>1, <3>2, PageWorkIs
    <3> DEFINE t == MaxRetries - page.tries
    <3> HIDE DEF w, t
    <3> QED
      BY <3>3, <3>4, PerPageIs DEF t
  <2>2. CASE AttemptFails \/ IndexerUnavailable
    <3>1. page.at = "asked" /\ Retry
      BY <2>2 DEF AttemptFails, IndexerUnavailable
    <3>2. page \in PageRequest /\ Clamped \in PageRequest /\ Clamped.after = page.after
          /\ Clamped.tries = page.tries /\ Clamped.at = "asked"
      BY <3>1, ClampedTyped
    <3>3. PageWork(page) = w + AfterFetch + 1 + (MaxRetries - page.tries)
          /\ w \in Nat /\ MaxRetries - page.tries \in Nat
      BY <3>1, <3>2, PageWorkIs
    <3>4. CASE page.tries < MaxRetries
      <4>1. page' = [Clamped EXCEPT !.tries = Clamped.tries + 1]
        BY <3>1, <3>4 DEF Retry
      <4>2. page'.at = "asked" /\ page'.after = page.after /\ page'.tries = page.tries + 1
        BY <3>2, <4>1 DEF PageRequest
      <4>3. PageWork(page') = w + AfterFetch + 1 + (MaxRetries - (page.tries + 1))
        BY <4>2, <1>3, PageWorkIs
      <4>4. page.tries \in Nat /\ MaxRetries \in Nat
        BY <3>2, PerPageIs DEF PageRequest
      <4> HIDE DEF w
      <4> QED
        BY <3>3, <4>3, <4>4, PerPageIs
    <3>5. CASE ~(page.tries < MaxRetries)
      <4>1. page' = NoPage
        BY <3>1, <3>5 DEF Retry
      <4>2. PageWork(page') = 0
        BY <1>3, <4>1, PageWorkIs
      <4> DEFINE t == MaxRetries - page.tries
      <4> HIDE DEF w, t
      <4> QED
        BY <3>3, <4>2, PerPageIs DEF t
    <3> QED
      BY <3>4, <3>5
  <2>3. CASE PageRejected
    <3>1. page.at = "fetched" /\ page' = NoPage
      BY <2>3 DEF PageRejected
    <3>2. page \in PageAnswer
      BY <3>1, AnswerTyped
    <3>3. PageWork(page) = w + AfterFetch /\ w \in Nat
      BY <3>1, <3>2, PageWorkIs
    <3>4. PageWork(page') = 0
      BY <1>3, <3>1, PageWorkIs
    <3> HIDE DEF w
    <3> QED
      BY <3>3, <3>4, PerPageIs
  <2> QED
    BY <2>1, <2>2, <2>3 DEF Fetching
<1>5. PageWork(page') \in Nat
  BY <1>3, PageWorkIs
<1>6. Work = PageWork(page) + OutWork(out) + (2 * Cardinality(markets) + Cardinality(queue))
               + UpWork + Cardinality(Ids \ remote)
  BY DEF Work, FlowWork
<1>7. Work' = PageWork(page') + OutWork(out) + (2 * Cardinality(markets) + Cardinality(queue))
                + UpWork + Cardinality(Ids \ remote)
  BY <1>1 DEF Work, FlowWork, UpWork
<1> QED
  BY ONLY <1>2, <1>4, <1>5, <1>6, <1>7

\* An output weighs less than the page it comes from, with the page that follows it.
LEMMA ProcessingUsesWork ==
  ASSUME SyncAssumption, TypeOK, TypeOK', Advances, PageProcessed
  PROVE  Work' < Work
<1> USE DEF durable, memory, history
<1>1. /\ UNCHANGED <<markets, queue, up, remote>> /\ page.at = "fetched" /\ page' = NoPage
      /\ out = NoOut /\ out'.at = "saving" /\ out'.next = NextPage /\ out' # NoOut
  BY DEF PageProcessed, NoOut
<1>2. /\ PageWork(page) \in Nat
      /\ Cardinality(markets) \in Nat /\ Cardinality(queue) \in Nat
      /\ Cardinality(Ids \ remote) \in Nat /\ UpWork \in 0..2
  BY WorkIs
<1>3. 3 + 1 + 2 * MostDerived + PageWork(NextPage) < PageWork(page)
  BY <1>1, NextWeighsLess
<1>4. PageWork(page') = 0 /\ OutWork(out) = 0
  BY <1>1 DEF PageWork, OutWork, NoPage, NoOut
<1>5. out' \in {NoOut} \cup Output
  BY DEF TypeOK
<1> DEFINE n == IF out'.rows = {} THEN 3 ELSE 4
           d == Cardinality(out'.derived)
<1>6. OutWork(out') = n + 2 * d + PageWork(NextPage)
  <2>1. OutWork(out') = (CASE out'.at = "saving" -> IF out'.rows = {} THEN 3 ELSE 4
                           [] out'.at = "cursor" -> 2
                           [] OTHER -> 1)
                        + 2 * Cardinality(out'.derived) + PageWork(out'.next)
    BY <1>1, <1>5, OutWorkIs
  <2>2. (CASE out'.at = "saving" -> IF out'.rows = {} THEN 3 ELSE 4
           [] out'.at = "cursor" -> 2
           [] OTHER -> 1) = n
    BY <1>1
  <2> QED
    BY <1>1, <2>1, <2>2
<1>7. n \in {3, 4} /\ d \in Nat /\ PageWork(NextPage) \in Nat /\ d <= MostDerived
      /\ MostDerived \in Nat
  BY <1>1, <1>5, OutWorkIs, DerivedFinite
<1>8. Work = PageWork(page) + 0 + (2 * Cardinality(markets) + Cardinality(queue))
               + UpWork + Cardinality(Ids \ remote)
  BY <1>4 DEF Work, FlowWork
<1>9. Work' = 0 + OutWork(out') + (2 * Cardinality(markets) + Cardinality(queue))
                + UpWork + Cardinality(Ids \ remote)
  BY <1>1, <1>4 DEF Work, FlowWork, UpWork
<1> HIDE DEF n, d
<1>10. OutWork(out') < PageWork(page) /\ OutWork(out') \in Nat
  BY ONLY <1>2, <1>3, <1>6, <1>7
<1> QED
  BY ONLY <1>2, <1>8, <1>9, <1>10

\* Each hand-over of the router leaves less than it takes on.
LEMMA RoutingUsesWork ==
  ASSUME SyncAssumption, TypeOK, TypeOK', Routing
  PROVE  Work' < Work
<1> USE DEF durable, memory, history
<1>1. UNCHANGED <<up, remote>> /\ out # NoOut
  BY DEF Routing, RouteRows, RouteCursor, RouteFollowUps, NoOut
<1>2. /\ PageWork(page) \in Nat /\ OutWork(out) \in Nat
      /\ Cardinality(markets) \in Nat /\ Cardinality(queue) \in Nat
      /\ IsFiniteSet(markets) /\ IsFiniteSet(queue)
      /\ Cardinality(Ids \ remote) \in Nat /\ UpWork \in 0..2
  BY WorkIs
<1>3. out \in Output /\ out.derived \in SUBSET (SUBSET Ids) /\ out.rows \in SUBSET Ids
      /\ out' \in {NoOut} \cup Output
  BY <1>1, OutTyped DEF TypeOK
<1> DEFINE d == Cardinality(out.derived)
           x == PageWork(out.next)
<1>4. d \in Nat /\ x \in Nat
  BY <1>1, <1>3, OutWorkIs
<1>5. OutWork(out) = (CASE out.at = "saving" -> IF out.rows = {} THEN 3 ELSE 4
                        [] out.at = "cursor" -> 2
                        [] OTHER -> 1) + 2 * d + x
  BY <1>1, <1>3, OutWorkIs
<1>6. Work = PageWork(page) + OutWork(out) + (2 * Cardinality(markets) + Cardinality(queue))
               + UpWork + Cardinality(Ids \ remote)
  BY DEF Work, FlowWork
<1>7. Work' = PageWork(page') + OutWork(out') + (2 * Cardinality(markets') + Cardinality(queue'))
                + UpWork + Cardinality(Ids \ remote)
  BY <1>1 DEF Work, FlowWork, UpWork
<1>8. CASE RouteRows
  <2>1. /\ UNCHANGED <<page, markets>> /\ out.at = "saving" /\ out' = [out EXCEPT !.at = "cursor"]
        /\ queue' = IF out.rows = {} THEN queue ELSE queue \cup {out.rows}
    BY <1>8 DEF RouteRows
  <2>2. out'.at = "cursor" /\ out'.derived = out.derived /\ out'.next = out.next /\ out' # NoOut
    BY <1>3, <2>1 DEF Output, NoOut
  <2>3. OutWork(out') = 2 + 2 * d + x
    BY <1>3, <2>2, OutWorkIs
  <2>4. CASE out.rows = {}
    <3>1. OutWork(out) = 3 + 2 * d + x /\ queue' = queue
      BY <1>5, <2>1, <2>4
    <3> HIDE DEF d, x
    <3>2. Work' = PageWork(page) + OutWork(out') + (2 * Cardinality(markets) + Cardinality(queue))
                    + UpWork + Cardinality(Ids \ remote)
      BY <1>7, <2>1, <3>1
    <3> QED
      BY ONLY <1>2, <1>4, <1>6, <2>3, <3>1, <3>2
  <2>5. CASE out.rows # {}
    <3>1. OutWork(out) = 4 + 2 * d + x /\ queue' = queue \cup {out.rows}
      BY <1>5, <2>1, <2>5
    <3>2. Cardinality(queue') <= Cardinality(queue) + 1 /\ Cardinality(queue') \in Nat
      BY <1>2, <3>1, OneMore
    <3> HIDE DEF d, x
    <3>3. Work' = PageWork(page) + OutWork(out') + (2 * Cardinality(markets) + Cardinality(queue'))
                    + UpWork + Cardinality(Ids \ remote)
      BY <1>7, <2>1
    <3> QED
      BY ONLY <1>2, <1>4, <1>6, <2>3, <3>1, <3>2, <3>3
  <2> QED
    BY <2>4, <2>5
<1>9. CASE RouteCursor
  <2>1. /\ UNCHANGED <<page, markets, queue>> /\ out.at = "cursor"
        /\ out' = [out EXCEPT !.at = "follow"]
    BY <1>9 DEF RouteCursor
  <2>2. out'.at = "follow" /\ out'.derived = out.derived /\ out'.next = out.next /\ out' # NoOut
    BY <1>3, <2>1 DEF Output, NoOut
  <2>3. OutWork(out') = 1 + 2 * d + x
    BY <1>3, <2>2, OutWorkIs
  <2>4. OutWork(out) = 2 + 2 * d + x
    BY <1>5, <2>1
  <2> HIDE DEF d, x
  <2>5. Work' = PageWork(page) + OutWork(out') + (2 * Cardinality(markets) + Cardinality(queue))
                  + UpWork + Cardinality(Ids \ remote)
    BY <1>7, <2>1
  <2> QED
    BY ONLY <1>2, <1>4, <1>6, <2>3, <2>4, <2>5
<1>10. CASE RouteFollowUps
  <2>1. /\ out.at = "follow" /\ page = NoPage /\ UNCHANGED queue
        /\ markets' = markets \cup out.derived /\ page' = out.next /\ out' = NoOut
    BY <1>10 DEF RouteFollowUps
  <2>2. OutWork(out') = 0 /\ PageWork(page) = 0 /\ PageWork(page') = x
    BY <2>1 DEF OutWork, NoOut, PageWork, NoPage
  <2>3. OutWork(out) = 1 + 2 * d + x
    BY <1>5, <2>1
  <2>4. Cardinality(markets') <= Cardinality(markets) + d /\ Cardinality(markets') \in Nat
    <3>1. IsFiniteSet(out.derived)
      BY <1>3, DerivedFinite
    <3>2. Cardinality(markets') = Cardinality(markets) + d - Cardinality(markets \cap out.derived)
      BY <1>2, <2>1, <3>1, FS_Union
    <3>3. IsFiniteSet(markets') /\ IsFiniteSet(markets \cap out.derived)
      BY <1>2, <2>1, <3>1, FS_Union, FS_Intersection
    <3>4. Cardinality(markets') \in Nat /\ Cardinality(markets \cap out.derived) \in Nat
      BY <3>3, FS_CardinalityType
    <3> HIDE DEF d
    <3> QED
      BY <1>2, <1>4, <3>2, <3>4
  <2> HIDE DEF d, x
  <2>5. Work' = x + 0 + (2 * Cardinality(markets') + Cardinality(queue))
                  + UpWork + Cardinality(Ids \ remote)
    BY <1>7, <2>1, <2>2
  <2> QED
    BY ONLY <1>2, <1>4, <1>6, <2>2, <2>3, <2>4, <2>5
<1> QED
  BY <1>8, <1>9, <1>10 DEF Routing

\* A request for markets becomes a batch at most, and a batch is written or lost.
LEMMA FlowUsesWork ==
  ASSUME SyncAssumption, TypeOK, Follow \/ Saving
  PROVE  Work' < Work
<1> USE DEF durable, memory, history
<1>1. UNCHANGED <<page, out, up, remote>>
  BY DEF Follow, Saving, MarketsFetched, MarketsFail, Save, SaveFails
<1>2. /\ PageWork(page) \in Nat /\ OutWork(out) \in Nat
      /\ Cardinality(markets) \in Nat /\ Cardinality(queue) \in Nat
      /\ IsFiniteSet(markets) /\ IsFiniteSet(queue)
      /\ Cardinality(Ids \ remote) \in Nat /\ UpWork \in 0..2
  BY WorkIs
<1>3. FlowWork' < FlowWork
  <2>1. CASE Follow
    <3>1. PICK c \in markets : /\ markets' = markets \ {c}
                               /\ queue' = queue \/ queue' = queue \cup {c}
      BY <2>1 DEF Follow, MarketsFetched, MarketsFail
    <3>2. Cardinality(markets') = Cardinality(markets) - 1
      BY <1>2, <3>1, OneMore
    <3>3. Cardinality(queue') <= Cardinality(queue) + 1 /\ Cardinality(queue') \in Nat
      <4>1. Cardinality(queue \cup {c}) <= Cardinality(queue) + 1
            /\ Cardinality(queue \cup {c}) \in Nat
        BY <1>2, OneMore
      <4>2. CASE queue' = queue
        BY <1>2, <4>2
      <4>3. CASE queue' = queue \cup {c}
        BY <4>1, <4>3
      <4> QED
        BY <3>1, <4>2, <4>3
    <3> QED
      BY <1>2, <3>2, <3>3 DEF FlowWork
  <2>2. CASE Saving
    <3>1. PICK b \in queue : queue' = queue \ {b} /\ markets' = markets
      BY <2>2 DEF Saving, Save, SaveFails
    <3>2. Cardinality(queue') = Cardinality(queue) - 1
      BY <1>2, <3>1, OneMore
    <3> QED
      BY <1>2, <3>1, <3>2 DEF FlowWork
  <2> QED
    BY <2>1, <2>2
<1>4. FlowWork \in Nat
  BY <1>2 DEF FlowWork
<1>5. FlowWork' \in Int
  <2>1. (markets' = markets \/ \E c \in markets : markets' = markets \ {c})
        /\ (queue' = queue \/ \E c : queue' = queue \ {c} \/ queue' = queue \cup {c})
    BY DEF Follow, Saving, MarketsFetched, MarketsFail, Save, SaveFails
  <2>2. Cardinality(markets') \in Nat /\ Cardinality(queue') \in Nat
    BY <1>2, <2>1, OneMore
  <2> QED
    BY <2>2 DEF FlowWork
<1>6. Work = PageWork(page) + OutWork(out) + FlowWork + UpWork + Cardinality(Ids \ remote)
  BY DEF Work
<1>7. Work' = PageWork(page) + OutWork(out) + FlowWork' + UpWork + Cardinality(Ids \ remote)
  BY <1>1 DEF Work, UpWork
<1> QED
  BY ONLY <1>2, <1>3, <1>4, <1>5, <1>6, <1>7

\* An item that appears cannot appear again.
LEMMA AppearUsesWork ==
  ASSUME SyncAssumption, TypeOK, NEW i \in Ids, Appear(i)
  PROVE  Work' < Work
<1>1. UNCHANGED <<page, out, markets, queue, up>> /\ remote' = remote \cup {i} /\ i \notin remote
  BY DEF Appear, memory, history
<1>2. /\ PageWork(page) \in Nat /\ OutWork(out) \in Nat
      /\ Cardinality(markets) \in Nat /\ Cardinality(queue) \in Nat
      /\ IsFiniteSet(Ids \ remote)
      /\ Cardinality(Ids \ remote) \in Nat /\ UpWork \in 0..2
  BY WorkIs
<1>3. Ids \ remote' = (Ids \ remote) \ {i} /\ i \in Ids \ remote
  BY <1>1
<1>4. Cardinality(Ids \ remote') = Cardinality(Ids \ remote) - 1
  BY <1>2, <1>3, OneMore
<1>5. Work = PageWork(page) + OutWork(out) + (2 * Cardinality(markets) + Cardinality(queue))
               + UpWork + Cardinality(Ids \ remote)
  BY DEF Work, FlowWork
<1>6. Work' = PageWork(page) + OutWork(out) + (2 * Cardinality(markets) + Cardinality(queue))
                + UpWork + Cardinality(Ids \ remote')
  BY <1>1 DEF Work, FlowWork, UpWork
<1> QED
  BY ONLY <1>2, <1>4, <1>5, <1>6

\* A process that is up always has a step other than dying open to it: the processor finds
\* the router free when an answer is there, the router the page gone when it has follow-ups
\* to hand on, and the job ends when nothing is under way.
THEOREM RunNeverStalls == ASSUME SyncAssumption PROVE Spec => [](up # "down" => CanMove)
<1>1. RunInv => (up # "down" => CanMove)
  <2> SUFFICES ASSUME RunInv PROVE CanMove
    OBVIOUS
  <2>1. page.at = "asked" \/ page.at = "fetched" \/ page = NoPage
    BY DEF RunInv, TypeOK, PageRequest, PageAnswer
  <2>2. out = NoOut \/ out.at \in {"saving", "cursor", "follow"}
    BY DEF RunInv, TypeOK, Output
  <2>3. OneHand
    BY DEF RunInv, Hand
  <2>4. page.at = "fetched" => out = NoOut
    BY <2>3 DEF OneHand, NoPage
  <2>5. out.at = "follow" => page = NoPage
    BY <2>3 DEF OneHand, NoOut
  <2> QED
    BY <2>1, <2>2, <2>4, <2>5 DEF CanMove, Idle
<1> QED
  BY <1>1, RunInvariance, PTL

\* A run comes to an end, whatever is asked again, given up or lost: every step but the
\* start of a job lowers Work.  A page costs at most PerPage steps with its attempts, its
\* market requests and their batches, and the next page lies behind one more item at least;
\* a lowered page limit does not make it ask for the same page again.
THEOREM RunIsFinite ==
  ASSUME SyncAssumption
  PROVE  Spec => [](Work \in Nat) /\ [][Launches \/ Work' < Work]_vars
<1>1. TypeOK => Work \in Nat
  BY WorkIs
<1>2. Init => Advances
  BY DEF Init, Advances, NoPage
<1>3. TypeOK /\ Advances /\ [Next]_vars => Advances'
  BY AdvancesKept
<1>4. TypeOK /\ TypeOK' /\ Advances /\ [Next]_vars => [Launches \/ Work' < Work]_vars
  <2> SUFFICES ASSUME TypeOK, TypeOK', Advances, Next PROVE Launches \/ Work' < Work
    OBVIOUS
  <2>1. CASE Job \/ Complete \/ Exit
    BY <2>1, JobUsesWork
  <2>2. CASE Fetching \/ PageRejected
    BY <2>2, FetchUsesWork
  <2>3. CASE PageProcessed
    BY <2>3, ProcessingUsesWork
  <2>4. CASE Routing
    BY <2>4, RoutingUsesWork
  <2>5. CASE Follow \/ Saving
    BY <2>5, FlowUsesWork
  <2>6. CASE \E i \in Ids : Appear(i)
    BY <2>6, AppearUsesWork
  <2> QED
    BY <2>1, <2>2, <2>3, <2>4, <2>5, <2>6 DEF Next, Processing
<1> QED
  BY <1>1, <1>2, <1>3, <1>4, TypeCorrect, PTL DEF Spec

=============================================================================
