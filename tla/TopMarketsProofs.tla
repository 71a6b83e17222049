-------------------------- MODULE TopMarketsProofs --------------------------
(***************************************************************************)
(* Proofs about TopMarkets: the price history, for every set of tokens,    *)
(* lookback, batch size and pause between two cycles; the tags, for every  *)
(* answer of /sports and /teams, walk and failure.                         *)
(***************************************************************************)
EXTENDS TopMarkets, FiniteSetTheorems, WellFoundedInduction, TLAPS

(***************************************************************************)
(* PriceHistory.  A mark is the largest hour of a finite set and the start *)
(* of a batch the smallest mark of one: that both exist follows from the   *)
(* well-foundedness of <.                                                  *)
(***************************************************************************)
\* PriceHistory has its own copies of the library's operators.
LEMMA SameOperators ==
  ASSUME NEW S
  PROVE  P!Min(S) = Min(S) /\ P!Max(S) = Max(S) /\ P!Cardinality(S) = Cardinality(S)
BY DEF P!Min, Min, P!Max, Max, P!Cardinality, Cardinality

\* A set of naturals has a least element.
LEMMA MinOf ==
  ASSUME NEW S \in SUBSET Nat, S # {}
  PROVE  Min(S) \in S /\ \A x \in S : Min(S) <= x
<1>1. PICK m \in S : \A x \in S : ~(<<x, m>> \in OpToRel(<, Nat))
  BY NatLessThanWellFounded, WFMin, Zenon
<1>2. ASSUME NEW x \in S PROVE m <= x
  <2>1. x \in Nat /\ m \in Nat
    OBVIOUS
  <2>2. x < m => <<x, m>> \in OpToRel(<, Nat)
    BY <2>1 DEF OpToRel
  <2>3. ~(x < m)
    BY <1>1, <2>2, Zenon
  <2> QED
    BY <2>1, <2>3
<1> QED
  BY <1>2 DEF Min

\* A bounded one has a greatest.
LEMMA MaxOf ==
  ASSUME NEW n \in Nat, NEW S \in SUBSET (1..n), S # {}
  PROVE  Max(S) \in S /\ \A x \in S : x <= Max(S)
<1> DEFINE T == {n - x : x \in S}
<1>1. T \in SUBSET Nat /\ T # {}
  <2>1. \A x \in S : n - x \in Nat
    OBVIOUS
  <2>2. T \subseteq Nat
    BY <2>1
  <2>3. PICK x \in S : TRUE
    OBVIOUS
  <2>4. n - x \in T
    OBVIOUS
  <2> QED
    BY <2>2, <2>4
<1>2. Min(T) \in T /\ \A y \in T : Min(T) <= y
  <2> HIDE DEF T
  <2> QED BY <1>1, MinOf
<1>3. PICK m \in S : Min(T) = n - m
  BY <1>2
<1>4. \A x \in S : n - m <= n - x
  BY <1>2, <1>3
<1>5. \A x \in S : m >= x
  BY <1>4
<1> QED
  BY <1>5 DEF Max

\* chunkTokenIDs: the k-th token is in one of the chunks,
LEMMA ChunkOf ==
  ASSUME NEW b \in Nat \ {0}, NEW n \in Nat, NEW k \in 1..n
  PROVE  (k - 1) \div b + 1 \in 1..((n + b - 1) \div b)
<1> DEFINE p == (k - 1) \div b
<1> DEFINE q == (n + b - 1) \div b
<1>1. p \in Int /\ b * p <= k - 1 /\ 0 <= p
  OBVIOUS
<1>2. q \in Int /\ n + b - 1 < b * q + b
  OBVIOUS
<1>3. b * p < b * q
  BY <1>1, <1>2
<1>4. p < q
  BY <1>1, <1>2, <1>3
<1> QED
  BY <1>1, <1>2, <1>4

\* and every chunk has a token.
LEMMA ChunkStart ==
  ASSUME NEW b \in Nat \ {0}, NEW n \in Nat, NEW i \in 1..((n + b - 1) \div b)
  PROVE  \E k \in 1..n : (k - 1) \div b = i - 1
<1> DEFINE q == (n + b - 1) \div b
<1> DEFINE k == (i - 1) * b + 1
<1>1. q \in Int /\ b * q <= n + b - 1
  OBVIOUS
<1>2. i \in Int /\ 1 <= i /\ i <= q
  BY <1>1
<1>3. b * i <= b * q
  BY <1>1, <1>2
<1>4. (i - 1) * b = b * i - b /\ b * i \in Int
  BY <1>2
<1>5. (i - 1) * b >= 0 /\ (i - 1) * b \in Int
  BY <1>2
<1>6. k \in 1..n
  BY <1>1, <1>3, <1>4, <1>5
<1>7. ((i - 1) * b) \div b = i - 1
  BY <1>2
<1>8. (k - 1) \div b = i - 1
  BY <1>5, <1>7
<1> QED
  BY <1>6, <1>8

-----------------------------------------------------------------------------
\* The chunks of a list cover it, and none is empty.
LEMMA ChunksOf ==
  ASSUME P!PriceAssumption, NEW S \in SUBSET Tokens, NEW ids \in P!Orders(S)
  PROVE  /\ P!Chunks(ids) \in Seq(SUBSET Tokens)
         /\ \A i \in DOMAIN P!Chunks(ids) : P!Chunks(ids)[i] \subseteq S
         /\ \A i \in DOMAIN P!Chunks(ids) : P!Chunks(ids)[i] # {}
         /\ \A t \in S : \E i \in DOMAIN P!Chunks(ids) : t \in P!Chunks(ids)[i]
<1> DEFINE n == Cardinality(S)
<1> DEFINE chunks == (n + BatchSize - 1) \div BatchSize
<1>1. IsFiniteSet(S) /\ n \in Nat
  BY FS_Subset, FS_CardinalityType, SameOperators DEF P!PriceAssumption, P!IsFiniteSet, IsFiniteSet
<1>2. ids \in [1..n -> S] /\ \A i, j \in 1..n : ids[i] = ids[j] => i = j
  BY SameOperators DEF P!Orders
<1>3. ids \in Seq(S) /\ Len(ids) = n /\ DOMAIN ids = 1..n
  BY <1>1, <1>2
<1>4. ASSUME NEW t \in S PROVE \E k \in 1..n : ids[k] = t
  <2>1. IsFiniteSet(1..n) /\ Cardinality(1..n) = n
    BY <1>1, FS_Interval
  <2>2. ids \in Injection(1..n, S)
    BY <1>2 DEF Injection, IsInjective
  <2>3. ids \in Surjection(1..n, S)
    BY <1>1, <2>1, <2>2, FS_Injection
  <2> QED
    BY <2>3 DEF Surjection
<1>5. chunks \in Nat
  <2>1. n + BatchSize - 1 \in Nat /\ BatchSize \in Nat \ {0}
    BY <1>1 DEF P!PriceAssumption
  <2> QED
    BY <2>1
<1>6. P!Chunks(ids) = [i \in 1..chunks |->
                       {ids[j] : j \in {k \in 1..n : (k - 1) \div BatchSize = i - 1}}]
  BY <1>3 DEF P!Chunks
<1>7. /\ P!Chunks(ids) \in Seq(SUBSET Tokens)
      /\ \A i \in DOMAIN P!Chunks(ids) : P!Chunks(ids)[i] \subseteq S
  BY <1>2, <1>5, <1>6
<1>8. ASSUME NEW t \in S PROVE \E i \in DOMAIN P!Chunks(ids) : t \in P!Chunks(ids)[i]
  <2>1. PICK k \in 1..n : ids[k] = t
    BY <1>4
  <2> DEFINE i == (k - 1) \div BatchSize + 1
  <2>2. i \in 1..chunks
    BY <1>1, ChunkOf DEF P!PriceAssumption
  <2>3. (k - 1) \div BatchSize = i - 1
    BY <1>1 DEF P!PriceAssumption
  <2> HIDE DEF i
  <2> QED
    BY <1>6, <2>1, <2>2, <2>3
<1>9. ASSUME NEW i \in DOMAIN P!Chunks(ids) PROVE P!Chunks(ids)[i] # {}
  <2>1. i \in 1..chunks
    BY <1>6
  <2>2. PICK k \in 1..n : (k - 1) \div BatchSize = i - 1
    BY <1>1, <2>1, ChunkStart DEF P!PriceAssumption
  <2>3. ids[k] \in P!Chunks(ids)[i]
    BY <1>6, <2>1, <2>2
  <2> QED
    BY <2>3
<1> QED
  BY <1>7, <1>8, <1>9

\* A high-water mark is the last hour stored, or 0.
LEMMA Marks ==
  ASSUME P!PriceAssumption, P!TypeOK, NEW t \in Tokens
  PROVE  /\ P!HWM(t) \in 0..LastHour
         /\ \A k \in stored[t] : k <= P!HWM(t)
         /\ P!HWM(t) # 0 => P!HWM(t) \in stored[t]
<1>1. stored[t] \in SUBSET (1..LastHour) /\ LastHour \in Nat
  BY DEF P!TypeOK, P!PriceAssumption
<1>2. stored[t] # {} => Max(stored[t]) \in stored[t] /\ \A x \in stored[t] : x <= Max(stored[t])
  BY <1>1, MaxOf
<1> QED
  BY <1>1, <1>2, SameOperators DEF P!HWM

\* A warm batch starts no later than the oldest of its marks, or at the cold start.
LEMMA Starts ==
  ASSUME P!PriceAssumption, P!TypeOK, NEW ids \in SUBSET Tokens, ids # {}
  PROVE  /\ P!WarmStart(ids) \in (1 - Lookback)..LastHour
         /\ \A t \in ids : P!WarmStart(ids) <= P!ColdStart \/ P!WarmStart(ids) <= P!HWM(t) + 1
<1> DEFINE M == {P!HWM(t) : t \in ids}
<1>1. M \in SUBSET (0..LastHour) /\ M # {}
  BY Marks
<1>2. Min(M) \in M /\ \A x \in M : Min(M) <= x
  <2> HIDE DEF M
  <2>1. M \in SUBSET Nat
    BY <1>1
  <2> QED
    BY <1>1, <2>1, MinOf
<1>3. Min(M) \in 0..LastHour /\ \A t \in ids : Min(M) <= P!HWM(t)
  BY <1>1, <1>2
<1>4. now \in 1..LastHour /\ LastHour \in Nat /\ Lookback \in Nat \ {0}
  BY DEF P!TypeOK, P!PriceAssumption
<1>5. P!WarmStart(ids) = P!LargerOf(P!ColdStart, Min(M) - 1)
  BY SameOperators DEF P!WarmStart
<1>6. \A t \in ids : P!HWM(t) \in 0..LastHour
  BY Marks
<1> HIDE DEF M
<1> QED
  BY <1>3, <1>4, <1>5, <1>6 DEF P!LargerOf, P!ColdStart

-----------------------------------------------------------------------------
\* No batch that EnsurePrices plans starts above what is stored of its tokens.
Planned ==
  \A i \in DOMAIN plan : \A t \in plan[i].ids \ touched :
    plan[i].start <= P!ColdStart \/ plan[i].start <= P!HWM(t) + 1

\* Of a token ranked throughout, every point up to the last cycle is stored or asked for.
Requested ==
  /\ last <= now
  /\ \A t \in steady :
       last # 0 => \A k \in P!LargerOf(1, last - Lookback)..last :
                     k \in stored[t] \/ \E r \in asked : t \in r.ids /\ r.start <= k

PriceInv == P!TypeOK /\ Planned /\ P!HolesOnlyByTopMarkets /\ Requested

\* The types of the clock and of the bounds.
LEMMA PriceNumbers ==
  ASSUME P!PriceAssumption, P!TypeOK
  PROVE  /\ LastHour \in Nat /\ Lookback \in Nat \ {0}
         /\ now \in 1..LastHour /\ last \in 0..LastHour
         /\ P!ColdStart \in (1 - Lookback)..LastHour /\ P!ColdStart = now - Lookback
  BY DEF P!PriceAssumption, P!TypeOK, P!ColdStart

\* An insert only adds, and only for the tokens it has.
LEMMA Upserted ==
  ASSUME P!PriceAssumption, P!TypeOK, NEW r \in P!Request, NEW got \in SUBSET Tokens,
         P!Upsert(r, got)
  PROVE  /\ stored' \in [Tokens -> SUBSET (1..LastHour)]
         /\ \A t \in Tokens : stored[t] \subseteq stored'[t]
         /\ \A t \in Tokens \ got : stored'[t] = stored[t]
         /\ \A t \in got : stored'[t] = stored[t] \cup (P!LargerOf(1, r.start)..now)
<1>1. r.start \in Int
  BY PriceNumbers DEF P!Request
<1>2. P!LargerOf(1, r.start) \in Int /\ 1 <= P!LargerOf(1, r.start)
  BY <1>1 DEF P!LargerOf
<1>3. P!LargerOf(1, r.start)..now \in SUBSET (1..LastHour)
  BY <1>2, PriceNumbers
<1> QED
  BY <1>3 DEF P!Upsert, P!TypeOK

\* A function from 1..n is a sequence.
LEMMA ListOf ==
  ASSUME NEW n \in Nat, NEW f, f = [i \in 1..n |-> f[i]], NEW T, \A i \in 1..n : f[i] \in T
  PROVE  f \in Seq(T) /\ Len(f) = n
  OBVIOUS

\* Every step keeps the types.
LEMMA PriceTyped ==
  ASSUME P!PriceAssumption, P!TypeOK, [P!Next]_(P!vars)
  PROVE  P!TypeOK'
<1> USE PriceNumbers
<1>1. CASE P!EnsurePrices
  <2>1. PICK S \in P!Selections, allCold \in BOOLEAN :
          LET cold == IF allCold THEN S ELSE {t \in S : P!HWM(t) = 0}
              warm == {t \in S \ cold : P!HWM(t) < now}
          IN  \E c \in P!Orders(cold), w \in P!OldestFirst(warm) :
                plan' = P!ColdPlan(c) \o P!WarmPlan(w)
    BY <1>1, Zenon DEF P!EnsurePrices
  <2> DEFINE cold == IF allCold THEN S ELSE {t \in S : P!HWM(t) = 0}
  <2> DEFINE warm == {t \in S \ cold : P!HWM(t) < now}
  <2>2. cold \in SUBSET Tokens /\ warm \in SUBSET Tokens
    BY DEF P!Selections
  <2>3. PICK c \in P!Orders(cold), w \in P!OldestFirst(warm) :
          plan' = P!ColdPlan(c) \o P!WarmPlan(w)
    BY <2>1, Zenon
  <2> HIDE DEF cold, warm
  <2>4. w \in P!Orders(warm)
    BY DEF P!OldestFirst
  <2>5. /\ P!Chunks(c) \in Seq(SUBSET Tokens) /\ P!Chunks(w) \in Seq(SUBSET Tokens)
        /\ \A i \in DOMAIN P!Chunks(w) : P!Chunks(w)[i] # {}
    BY <2>2, <2>4, ChunksOf
  <2>6. P!ColdPlan(c) \in Seq(P!Request)
    <3>1. Len(P!Chunks(c)) \in Nat /\ DOMAIN P!Chunks(c) = 1..Len(P!Chunks(c))
      BY <2>5
    <3>2. \A i \in DOMAIN P!Chunks(c) :
            [ids |-> P!Chunks(c)[i], start |-> P!ColdStart] \in P!Request
      BY <2>5 DEF P!Request
    <3>3. P!ColdPlan(c) = [i \in DOMAIN P!Chunks(c) |->
                           [ids |-> P!Chunks(c)[i], start |-> P!ColdStart]]
      BY DEF P!ColdPlan
    <3>4. /\ P!ColdPlan(c) = [i \in DOMAIN P!Chunks(c) |-> P!ColdPlan(c)[i]]
          /\ \A i \in DOMAIN P!Chunks(c) : P!ColdPlan(c)[i] \in P!Request
      BY ONLY <3>2, <3>3
    <3> QED
      BY <3>1, <3>4, ListOf
  <2>7. \A i \in DOMAIN P!Chunks(w) : P!WarmStart(P!Chunks(w)[i]) \in (1 - Lookback)..LastHour
    BY <2>5, Starts
  <2>8. P!WarmPlan(w) \in Seq(P!Request)
    <3>1. Len(P!Chunks(w)) \in Nat /\ DOMAIN P!Chunks(w) = 1..Len(P!Chunks(w))
      BY <2>5
    <3>2. \A i \in DOMAIN P!Chunks(w) :
            [ids |-> P!Chunks(w)[i], start |-> P!WarmStart(P!Chunks(w)[i])] \in P!Request
      BY <2>5, <2>7 DEF P!Request
    <3>3. P!WarmPlan(w) = [i \in DOMAIN P!Chunks(w) |->
                           [ids |-> P!Chunks(w)[i], start |-> P!WarmStart(P!Chunks(w)[i])]]
      BY DEF P!WarmPlan
    <3>4. /\ P!WarmPlan(w) = [i \in DOMAIN P!Chunks(w) |-> P!WarmPlan(w)[i]]
          /\ \A i \in DOMAIN P!Chunks(w) : P!WarmPlan(w)[i] \in P!Request
      BY ONLY <3>2, <3>3
    <3> QED
      BY <3>1, <3>4, ListOf
  <2>9. plan' \in Seq(P!Request)
    BY <2>3, <2>6, <2>8
  <2> QED
    BY <1>1, <2>9 DEF P!EnsurePrices, P!TypeOK
<1>2. CASE P!ChunkStored
  <2>1. /\ plan # <<>> /\ plan \in Seq(P!Request)
        /\ Head(plan) \in P!Request /\ Tail(plan) \in Seq(P!Request)
    BY <1>2 DEF P!ChunkStored, P!TypeOK
  <2>2. PICK got \in SUBSET Head(plan).ids : P!Upsert(Head(plan), got)
    BY <1>2 DEF P!ChunkStored
  <2>3. got \in SUBSET Tokens
    BY <2>1 DEF P!Request
  <2>4. stored' \in [Tokens -> SUBSET (1..LastHour)]
    BY <2>1, <2>2, <2>3, Upserted
  <2> QED
    BY <1>2, <2>1, <2>4 DEF P!ChunkStored, P!TypeOK
<1>3. CASE P!ChunkFails
  BY <1>3 DEF P!ChunkFails, P!TypeOK
<1>4. CASE P!ScanCrash
  BY <1>4 DEF P!ScanCrash, P!TypeOK
<1>5. CASE P!SubmitEnrichment
  <2>0. PICK ranked \in SUBSET Tokens : \E ids \in P!Orders(ranked) :
          /\ asked' = {[ids |-> P!Chunks(ids)[i], start |-> P!FetchFrom] :
                       i \in DOMAIN P!Chunks(ids)}
          /\ steady' = steady \cap ranked
    BY <1>5 DEF P!SubmitEnrichment
  <2>1. PICK ids \in P!Orders(ranked) :
          /\ asked' = {[ids |-> P!Chunks(ids)[i], start |-> P!FetchFrom] :
                       i \in DOMAIN P!Chunks(ids)}
          /\ steady' = steady \cap ranked
    BY <2>0
  <2>2. P!Chunks(ids) \in Seq(SUBSET Tokens)
    BY ChunksOf
  <2>3. P!FetchFrom \in (1 - Lookback)..LastHour
    BY DEF P!FetchFrom
  <2>4. asked' \subseteq P!Request
    BY <2>1, <2>2, <2>3 DEF P!Request
  <2> QED
    BY <1>5, <2>1, <2>4 DEF P!SubmitEnrichment, P!TypeOK
<1>6. CASE P!PricesSaved
  <2>0. PICK r \in asked : \E got \in SUBSET r.ids :
          /\ P!Upsert(r, got) /\ asked' = asked \ {r}
          /\ touched' = touched \cup got /\ steady' = steady \ (r.ids \ got)
    BY <1>6 DEF P!PricesSaved
  <2>1. PICK got \in SUBSET r.ids :
          /\ P!Upsert(r, got) /\ asked' = asked \ {r}
          /\ touched' = touched \cup got /\ steady' = steady \ (r.ids \ got)
    BY <2>0
  <2>2. r \in P!Request /\ got \in SUBSET Tokens
    BY DEF P!TypeOK, P!Request
  <2>3. stored' \in [Tokens -> SUBSET (1..LastHour)]
    BY <2>1, <2>2, Upserted
  <2> QED
    BY <1>6, <2>1, <2>2, <2>3 DEF P!PricesSaved, P!TypeOK
<1>7. CASE P!PricesLost
  BY <1>7 DEF P!PricesLost, P!TypeOK
<1>8. CASE P!TopRestart
  BY <1>8 DEF P!TopRestart, P!TypeOK
<1>9. CASE P!Tick
  BY <1>9 DEF P!Tick, P!TypeOK
<1>10. CASE UNCHANGED P!vars
  BY <1>10 DEF P!vars, P!TypeOK
<1> QED
  BY <1>1, <1>2, <1>3, <1>4, <1>5, <1>6, <1>7, <1>8, <1>9, <1>10 DEF P!Next, P!Ensure

\* A mark never falls.
LEMMA MarksGrow ==
  ASSUME P!PriceAssumption, P!TypeOK, P!TypeOK', NEW t \in Tokens, stored[t] \subseteq stored'[t]
  PROVE  /\ P!HWM(t)' \in 0..LastHour /\ P!HWM(t) <= P!HWM(t)'
         /\ P!HWM(t)' # 0 => P!HWM(t)' \in stored'[t]
         /\ \A k \in stored'[t] : k <= P!HWM(t)'
<1>1. stored'[t] \in SUBSET (1..LastHour) /\ LastHour \in Nat
  BY DEF P!TypeOK, P!PriceAssumption
<1>2. stored'[t] # {} =>
        Max(stored'[t]) \in stored'[t] /\ \A x \in stored'[t] : x <= Max(stored'[t])
  BY <1>1, MaxOf
<1>3. P!HWM(t)' = IF stored'[t] = {} THEN 0 ELSE Max(stored'[t])
  BY SameOperators DEF P!HWM
<1>4. /\ P!HWM(t)' \in 0..LastHour
      /\ P!HWM(t)' # 0 => P!HWM(t)' \in stored'[t]
      /\ \A k \in stored'[t] : k <= P!HWM(t)'
  BY <1>1, <1>2, <1>3
<1>5. P!HWM(t) <= P!HWM(t)'
  BY <1>4, Marks
<1> QED
  BY <1>4, <1>5

\* A later window begins no earlier.
LEMMA Later ==
  ASSUME NEW m \in Int, NEW n \in Int, m <= n, NEW d \in Int, NEW h \in Int
  PROVE  /\ m - d <= n - d /\ m - d \in Int /\ n - d \in Int
         /\ P!LargerOf(1, n - d)..h \subseteq P!LargerOf(1, m - d)..h
  BY DEF P!LargerOf

\* What a step that fetches nothing does to the marks and to the windows: no more than time.
LEMMA WindowsShrink ==
  ASSUME P!PriceAssumption, P!TypeOK, P!TypeOK', stored' = stored, now <= now', touched' = touched,
         P!HolesOnlyByTopMarkets
  PROVE  /\ P!HolesOnlyByTopMarkets'
         /\ P!ColdStart <= P!ColdStart' /\ P!ColdStart' \in Int
<1>1. now \in Int /\ now' \in Int /\ Lookback \in Int
  BY PriceNumbers DEF P!TypeOK
<1>2. P!ColdStart = now - Lookback /\ P!ColdStart' = now' - Lookback
  BY DEF P!ColdStart
<1>3. P!ColdStart <= P!ColdStart' /\ P!ColdStart' \in Int
  BY <1>1, <1>2, Later
<1>4. ASSUME NEW t \in Tokens \ touched PROVE P!Window(t)' \subseteq stored'[t]
  <2>1. P!HWM(t)' = P!HWM(t) /\ P!HWM(t) \in Int
    BY Marks DEF P!HWM
  <2>2. /\ P!Window(t) = P!LargerOf(1, now - Lookback)..P!HWM(t)
        /\ P!Window(t)' = P!LargerOf(1, now' - Lookback)..P!HWM(t)
    BY <1>2, <2>1 DEF P!Window, P!LargerOf
  <2>3. P!Window(t)' \subseteq P!Window(t)
    BY <1>1, <2>1, <2>2, Later
  <2> QED
    BY <2>3 DEF P!HolesOnlyByTopMarkets
<1>5. P!HolesOnlyByTopMarkets'
  BY <1>4 DEF P!HolesOnlyByTopMarkets, P!Window, P!HWM, P!ColdStart
<1> QED
  BY <1>3, <1>5

\* The batches planned stay right when time goes by.
LEMMA PlanKept ==
  ASSUME P!PriceAssumption, P!TypeOK, P!TypeOK', P!HolesOnlyByTopMarkets, Planned,
         stored' = stored, now <= now', touched' = touched, plan' = plan
  PROVE  Planned'
<1>1. plan \in Seq(P!Request)
  BY DEF P!TypeOK
<1>2. ASSUME NEW i \in DOMAIN plan, NEW t \in plan[i].ids \ touched
      PROVE  plan[i].start <= P!ColdStart' \/ plan[i].start <= P!HWM(t)' + 1
  <2>1. plan[i] \in P!Request
    BY <1>1
  <2>2. plan[i].start \in Int /\ t \in Tokens
    BY <2>1, PriceNumbers DEF P!Request
  <2>3. P!ColdStart \in Int /\ P!ColdStart <= P!ColdStart' /\ P!ColdStart' \in Int
    BY WindowsShrink, PriceNumbers
  <2>4. P!HWM(t)' = P!HWM(t)
    BY DEF P!HWM
  <2>5. plan[i].start <= P!ColdStart \/ plan[i].start <= P!HWM(t) + 1
    BY DEF Planned
  <2> QED
    BY <2>2, <2>3, <2>4, <2>5
<1> QED
  BY <1>2 DEF Planned

\* The points a batch brings close the gap between what was stored and now.
LEMMA StoredWhole ==
  ASSUME P!PriceAssumption, P!TypeOK, P!TypeOK', P!HolesOnlyByTopMarkets, now' = now,
         NEW r \in P!Request, NEW got \in SUBSET Tokens, P!Upsert(r, got),
         NEW t \in Tokens \ touched,
         t \in got => r.start <= P!ColdStart \/ r.start <= P!HWM(t) + 1
  PROVE  P!Window(t)' \subseteq stored'[t]
<1>1. /\ stored[t] \subseteq stored'[t]
      /\ t \notin got => stored'[t] = stored[t]
      /\ t \in got => stored'[t] = stored[t] \cup (P!LargerOf(1, r.start)..now)
  BY Upserted
<1>2. P!Window(t) \subseteq stored[t]
  BY DEF P!HolesOnlyByTopMarkets
<1>3. P!ColdStart' = P!ColdStart
  BY DEF P!ColdStart
<1>4. /\ P!HWM(t) \in Int /\ P!HWM(t)' \in Int
      /\ P!HWM(t)' # 0 => P!HWM(t)' \in stored'[t]
      /\ \A k \in stored[t] : k <= P!HWM(t)
  BY <1>1, Marks, MarksGrow
<1>5. CASE t \notin got
  BY <1>1, <1>2, <1>3, <1>5 DEF P!Window, P!HWM
<1>6. CASE t \in got
  <2>1. r.start \in Int /\ P!ColdStart \in Int /\ now \in Int
    BY PriceNumbers DEF P!Request
  <2> SUFFICES ASSUME NEW k \in P!LargerOf(1, P!ColdStart)..P!HWM(t)', k > P!HWM(t)
               PROVE  k \in stored'[t]
    BY <1>1, <1>2, <1>3, <1>4, <2>1 DEF P!Window, P!LargerOf
  <2>2. k \in Int /\ 1 <= k /\ P!ColdStart <= k /\ k <= P!HWM(t)'
    BY <1>4, <2>1 DEF P!LargerOf
  <2>3. P!HWM(t)' \in P!LargerOf(1, r.start)..now
    BY <1>1, <1>4, <1>6, <2>2
  <2>4. P!LargerOf(1, r.start) <= k
    BY <1>4, <1>6, <2>1, <2>2 DEF P!LargerOf
  <2>5. P!LargerOf(1, r.start) \in Int
    BY <2>1 DEF P!LargerOf
  <2> QED
    BY <1>1, <1>4, <1>6, <2>1, <2>2, <2>3, <2>4, <2>5
<1> QED
  BY <1>5, <1>6

\* They stay right when points are stored.
LEMMA PlannedAfterStoring ==
  ASSUME P!PriceAssumption, P!TypeOK, P!TypeOK', Planned, now' = now,
         NEW r \in P!Request, NEW got \in SUBSET Tokens, P!Upsert(r, got),
         touched \subseteq touched',
         \A i \in DOMAIN plan' : \E j \in DOMAIN plan : plan'[i] = plan[j]
  PROVE  Planned'
<1>1. plan \in Seq(P!Request) /\ P!ColdStart' = P!ColdStart
  BY DEF P!TypeOK, P!ColdStart
<1>2. ASSUME NEW i \in DOMAIN plan', NEW t \in plan'[i].ids \ touched'
      PROVE  plan'[i].start <= P!ColdStart' \/ plan'[i].start <= P!HWM(t)' + 1
  <2>1. PICK j \in DOMAIN plan : plan'[i] = plan[j]
    OBVIOUS
  <2>2. plan[j] \in P!Request
    BY <1>1
  <2>3. plan[j].start \in Int /\ t \in Tokens /\ t \in plan[j].ids \ touched
    BY <2>1, <2>2, PriceNumbers DEF P!Request
  <2>4. P!HWM(t) \in Int /\ P!HWM(t)' \in Int /\ P!HWM(t) <= P!HWM(t)'
    BY <2>3, Upserted, Marks, MarksGrow
  <2>5. plan[j].start <= P!ColdStart \/ plan[j].start <= P!HWM(t) + 1
    BY <2>3 DEF Planned
  <2>6. PICK h \in Int : h = P!HWM(t)' /\ P!HWM(t) <= h
    BY <2>4
  <2>7. plan[j].start <= P!ColdStart \/ plan[j].start <= h + 1
    BY <2>3, <2>4, <2>5, <2>6
  <2> QED
    BY <1>1, <2>1, <2>6, <2>7
<1> QED
  BY <1>2 DEF Planned

\* The elements of a concatenation.
LEMMA Joined ==
  ASSUME NEW T, NEW a \in Seq(T), NEW b \in Seq(T), NEW m, NEW n, m = Len(a), n = Len(b)
  PROVE  /\ DOMAIN (a \o b) = 1..(m + n)
         /\ \A i \in 1..m : (a \o b)[i] = a[i]
         /\ \A i \in (m + 1)..(m + n) : i - m \in 1..n /\ (a \o b)[i] = b[i - m]
  OBVIOUS

\* They are right when they are planned: warm ones start at the oldest mark of the batch.
LEMMA PlannedByEnsure ==
  ASSUME P!PriceAssumption, P!TypeOK, P!EnsurePrices
  PROVE  Planned'
<1>1. PICK S \in P!Selections, allCold \in BOOLEAN :
        LET cold == IF allCold THEN S ELSE {t \in S : P!HWM(t) = 0}
            warm == {t \in S \ cold : P!HWM(t) < now}
        IN  \E c \in P!Orders(cold), w \in P!OldestFirst(warm) :
              plan' = P!ColdPlan(c) \o P!WarmPlan(w)
  BY Zenon DEF P!EnsurePrices
<1> DEFINE cold == IF allCold THEN S ELSE {t \in S : P!HWM(t) = 0}
<1> DEFINE warm == {t \in S \ cold : P!HWM(t) < now}
<1>2. cold \in SUBSET Tokens /\ warm \in SUBSET Tokens
  BY DEF P!Selections
<1>3. PICK c \in P!Orders(cold), w \in P!OldestFirst(warm) : plan' = P!ColdPlan(c) \o P!WarmPlan(w)
  BY <1>1, Zenon
<1> HIDE DEF cold, warm
<1>4. w \in P!Orders(warm)
  BY DEF P!OldestFirst
<1>5. /\ P!Chunks(c) \in Seq(SUBSET Tokens) /\ P!Chunks(w) \in Seq(SUBSET Tokens)
      /\ \A j \in DOMAIN P!Chunks(w) : P!Chunks(w)[j] # {}
  BY <1>2, <1>4, ChunksOf
<1> DEFINE m == Len(P!Chunks(c))
<1> DEFINE n == Len(P!Chunks(w))
<1>6. /\ m \in Nat /\ DOMAIN P!Chunks(c) = 1..m /\ n \in Nat /\ DOMAIN P!Chunks(w) = 1..n
  BY <1>5
<1>7. /\ P!ColdPlan(c) = [i \in 1..m |-> [ids |-> P!Chunks(c)[i], start |-> P!ColdStart]]
      /\ P!WarmPlan(w) = [i \in 1..n |->
                         [ids |-> P!Chunks(w)[i], start |-> P!WarmStart(P!Chunks(w)[i])]]
  BY <1>6 DEF P!ColdPlan, P!WarmPlan
<1> HIDE DEF m, n
<1>8. /\ DOMAIN plan' = 1..(m + n)
      /\ \A i \in 1..m : plan'[i] = P!ColdPlan(c)[i]
      /\ \A i \in (m + 1)..(m + n) : i - m \in 1..n /\ plan'[i] = P!WarmPlan(w)[i - m]
  <2> DEFINE T == {P!ColdPlan(c)[i] : i \in 1..m} \cup {P!WarmPlan(w)[i] : i \in 1..n}
  <2>1. /\ P!ColdPlan(c) \in Seq(T) /\ Len(P!ColdPlan(c)) = m
        /\ P!WarmPlan(w) \in Seq(T) /\ Len(P!WarmPlan(w)) = n
    <3>1. /\ \A i \in 1..m : P!ColdPlan(c)[i] \in T
          /\ \A i \in 1..n : P!WarmPlan(w)[i] \in T
      BY Zenon
    <3> HIDE DEF T
    <3>2. P!ColdPlan(c) = [i \in 1..m |-> P!ColdPlan(c)[i]] /\ m \in Nat
      BY <1>6, <1>7
    <3>3. P!ColdPlan(c) \in Seq(T) /\ Len(P!ColdPlan(c)) = m
      BY <3>1, <3>2, ListOf
    <3>4. P!WarmPlan(w) = [i \in 1..n |-> P!WarmPlan(w)[i]] /\ n \in Nat
      BY <1>6, <1>7
    <3>5. P!WarmPlan(w) \in Seq(T) /\ Len(P!WarmPlan(w)) = n
      BY <3>1, <3>4, ListOf
    <3> QED
      BY <3>3, <3>5
  <2> HIDE DEF T
  <2> QED
    BY <1>3, <2>1, Joined
<1>9. P!ColdStart' = P!ColdStart /\ P!ColdStart \in Int /\ stored' = stored
  BY PriceNumbers DEF P!ColdStart, P!EnsurePrices
<1>10. ASSUME NEW i \in DOMAIN plan', NEW t \in plan'[i].ids \ touched'
       PROVE  plan'[i].start <= P!ColdStart' \/ plan'[i].start <= P!HWM(t)' + 1
  <2>1. P!HWM(t)' = P!HWM(t)
    BY <1>9 DEF P!HWM
  <2>2. CASE i \in 1..m
    <3>1. plan'[i] = [ids |-> P!Chunks(c)[i], start |-> P!ColdStart]
      BY <1>7, <1>8, <2>2
    <3>2. plan'[i].start = P!ColdStart
      BY <3>1
    <3> QED
      BY <1>9, <3>2
  <2>3. CASE i \in (m + 1)..(m + n)
    <3>1. plan'[i] = [ids |-> P!Chunks(w)[i - m], start |-> P!WarmStart(P!Chunks(w)[i - m])]
      BY <1>7, <1>8, <2>3
    <3>2. i - m \in DOMAIN P!Chunks(w) /\ t \in P!Chunks(w)[i - m]
      BY <1>6, <1>8, <2>3, <3>1
    <3>3. P!Chunks(w)[i - m] \in SUBSET Tokens
      BY <1>5, <3>2
    <3>4. \/ P!WarmStart(P!Chunks(w)[i - m]) <= P!ColdStart
          \/ P!WarmStart(P!Chunks(w)[i - m]) <= P!HWM(t) + 1
      BY <1>5, <3>2, <3>3, Starts
    <3> QED
      BY <1>9, <2>1, <3>1, <3>4
  <2> QED
    BY <1>6, <1>8, <2>2, <2>3
<1> QED
  BY <1>10 DEF Planned

\* Every step keeps the plan right and the edge scan's tokens whole.
LEMMA Whole ==
  ASSUME P!PriceAssumption, PriceInv, [P!Next]_(P!vars), P!TypeOK'
  PROVE  Planned' /\ P!HolesOnlyByTopMarkets'
<1> USE DEF PriceInv
<1>1. CASE P!EnsurePrices
  <2>1. P!HolesOnlyByTopMarkets'
    <3>1. now <= now'
      BY <1>1, PriceNumbers DEF P!EnsurePrices
    <3> QED
      BY <1>1, <3>1, WindowsShrink DEF P!EnsurePrices
  <2> QED
    BY <1>1, <2>1, PlannedByEnsure
<1>2. CASE P!ChunkStored
  <2>1. plan # <<>> /\ plan \in Seq(P!Request) /\ plan' = Tail(plan) /\ Head(plan) = plan[1]
    BY <1>2 DEF P!ChunkStored, P!TypeOK
  <2>2. PICK got \in SUBSET Head(plan).ids : P!Upsert(Head(plan), got)
    BY <1>2 DEF P!ChunkStored
  <2>3. Head(plan) \in P!Request /\ 1 \in DOMAIN plan
    BY <2>1
  <2>4. got \in SUBSET Tokens /\ now' = now /\ touched' = touched
    BY <1>2, <2>3 DEF P!Request, P!ChunkStored
  <2>5. \A i \in DOMAIN plan' : i + 1 \in DOMAIN plan /\ plan'[i] = plan[i + 1]
    BY <2>1
  <2>6. Planned'
    BY <2>2, <2>3, <2>4, <2>5, PlannedAfterStoring
  <2>7. ASSUME NEW t \in Tokens \ touched PROVE P!Window(t)' \subseteq stored'[t]
    <3>1. t \in got => Head(plan).start <= P!ColdStart \/ Head(plan).start <= P!HWM(t) + 1
      BY <2>1, <2>3 DEF Planned
    <3> QED
      BY <2>2, <2>3, <2>4, <3>1, StoredWhole
  <2> QED
    BY <2>4, <2>6, <2>7 DEF P!HolesOnlyByTopMarkets
<1>3. CASE P!ChunkFails \/ P!ScanCrash
  <2>1. /\ stored' = stored /\ now <= now' /\ touched' = touched
        /\ plan # <<>> /\ (plan' = Tail(plan) \/ plan' = <<>>) /\ P!ColdStart' = P!ColdStart
    BY <1>3, PriceNumbers DEF P!ChunkFails, P!ScanCrash, P!ColdStart
  <2>2. plan \in Seq(P!Request)
    BY DEF P!TypeOK
  <2>3. \A i \in DOMAIN plan' : i + 1 \in DOMAIN plan /\ plan'[i] = plan[i + 1]
    BY <2>1, <2>2
  <2>4. ASSUME NEW i \in DOMAIN plan', NEW t \in plan'[i].ids \ touched'
        PROVE  plan'[i].start <= P!ColdStart' \/ plan'[i].start <= P!HWM(t)' + 1
    <3>1. P!HWM(t)' = P!HWM(t)
      BY <2>1 DEF P!HWM
    <3> QED
      BY <2>1, <2>3, <3>1 DEF Planned
  <2>5. Planned'
    BY <2>4 DEF Planned
  <2> QED
    BY <2>1, <2>5, WindowsShrink
<1>4. CASE P!SubmitEnrichment \/ P!PricesLost \/ P!TopRestart \/ UNCHANGED P!vars
  <2>1. stored' = stored /\ now' = now /\ touched' = touched /\ plan' = plan
    BY <1>4 DEF P!SubmitEnrichment, P!PricesLost, P!TopRestart, P!vars
  <2>2. now <= now'
    BY <2>1, PriceNumbers
  <2> QED
    BY <2>1, <2>2, PlanKept, WindowsShrink
<1>5. CASE P!PricesSaved
  <2>1. PICK r \in asked : \E got \in SUBSET r.ids : P!Upsert(r, got) /\ touched' = touched \cup got
    BY <1>5 DEF P!PricesSaved
  <2>2. PICK got \in SUBSET r.ids : P!Upsert(r, got) /\ touched' = touched \cup got
    BY <2>1
  <2>3. r \in P!Request /\ got \in SUBSET Tokens /\ plan' = plan /\ now' = now
    BY <1>5 DEF P!TypeOK, P!Request, P!PricesSaved
  <2>4. Planned'
    BY <2>2, <2>3, PlannedAfterStoring
  <2>5. ASSUME NEW t \in Tokens \ touched' PROVE P!Window(t)' \subseteq stored'[t]
    BY <2>2, <2>3, StoredWhole
  <2> QED
    BY <2>4, <2>5 DEF P!HolesOnlyByTopMarkets
<1>6. CASE P!Tick
  <2>1. stored' = stored /\ now' = now + 1 /\ touched' = touched /\ plan' = plan
    BY <1>6 DEF P!Tick
  <2>2. now <= now'
    BY <2>1, PriceNumbers
  <2> QED
    BY <2>1, <2>2, PlanKept, WindowsShrink
<1> QED
  BY <1>1, <1>2, <1>3, <1>4, <1>5, <1>6 DEF P!Next, P!Ensure

-----------------------------------------------------------------------------
\* Every step keeps what top-markets owes a token stored or asked for.
LEMMA RequestedStep ==
  ASSUME P!PriceAssumption, PriceInv, [P!Next]_(P!vars)
  PROVE  Requested'
<1> USE DEF PriceInv
<1>1. /\ now \in Int /\ last \in Int /\ last <= now /\ Lookback \in Nat \ {0} /\ 0 <= last
  BY PriceNumbers DEF Requested
<1>2. CASE P!Ensure \/ P!ScanCrash
  <2>1. /\ last' = last /\ now' = now /\ asked' = asked /\ steady' = steady
        /\ \A t \in Tokens : stored[t] \subseteq stored'[t]
    <3>1. CASE P!EnsurePrices \/ P!ChunkFails \/ P!ScanCrash
      BY <3>1 DEF P!EnsurePrices, P!ChunkFails, P!ScanCrash
    <3>2. CASE P!ChunkStored
      <4>1. PICK got \in SUBSET Head(plan).ids : P!Upsert(Head(plan), got)
        BY <3>2 DEF P!ChunkStored
      <4>2. Head(plan) \in P!Request
        BY <3>2 DEF P!ChunkStored, P!TypeOK
      <4>3. got \in SUBSET Tokens
        BY <4>2 DEF P!Request
      <4> QED
        BY <3>2, <4>1, <4>2, <4>3, Upserted DEF P!ChunkStored
    <3> QED
      BY <1>2, <3>1, <3>2 DEF P!Ensure
  <2>2. steady \subseteq Tokens
    BY DEF P!TypeOK
  <2> QED
    BY <1>1, <2>1, <2>2 DEF Requested
<1>3. CASE P!SubmitEnrichment
  <2>0. PICK ranked \in SUBSET Tokens : \E ids \in P!Orders(ranked) :
          /\ asked' = {[ids |-> P!Chunks(ids)[i], start |-> P!FetchFrom] :
                       i \in DOMAIN P!Chunks(ids)}
          /\ steady' = steady \cap ranked
    BY <1>3 DEF P!SubmitEnrichment
  <2>1. PICK ids \in P!Orders(ranked) :
          /\ asked' = {[ids |-> P!Chunks(ids)[i], start |-> P!FetchFrom] :
                       i \in DOMAIN P!Chunks(ids)}
          /\ steady' = steady \cap ranked
    BY <2>0
  <2>2. asked = {} /\ last' = now /\ now' = now /\ stored' = stored
    BY <1>3 DEF P!SubmitEnrichment
  <2>3. ASSUME NEW t \in steady', NEW k \in P!LargerOf(1, now - Lookback)..now
        PROVE  k \in stored[t] \/ \E r \in asked' : t \in r.ids /\ r.start <= k
    <3>1. PICK i \in DOMAIN P!Chunks(ids) : t \in P!Chunks(ids)[i]
      BY <2>1, ChunksOf
    <3>2. [ids |-> P!Chunks(ids)[i], start |-> P!FetchFrom] \in asked'
      BY <2>1
    <3>3. k \in Int /\ 1 <= k /\ now - Lookback <= k
      BY <1>1 DEF P!LargerOf
    <3>4. CASE P!FetchFrom <= k
      BY <3>1, <3>2, <3>4
    <3>5. CASE ~(P!FetchFrom <= k)
      <4>1. last # 0 /\ k < last - 1
        BY <1>1, <3>3, <3>5 DEF P!FetchFrom, P!ColdStart
      <4>2. k \in P!LargerOf(1, last - Lookback)..last
        BY <1>1, <3>3, <4>1 DEF P!LargerOf
      <4>3. t \in steady
        BY <2>1
      <4> QED
        BY <2>2, <4>1, <4>2, <4>3 DEF Requested
    <3> QED
      BY <3>4, <3>5
  <2> QED
    BY <1>1, <2>2, <2>3 DEF Requested
<1>4. CASE P!PricesSaved
  <2>0. PICK r \in asked : \E got \in SUBSET r.ids :
          /\ P!Upsert(r, got) /\ asked' = asked \ {r} /\ steady' = steady \ (r.ids \ got)
    BY <1>4 DEF P!PricesSaved
  <2>1. PICK got \in SUBSET r.ids :
          /\ P!Upsert(r, got) /\ asked' = asked \ {r} /\ steady' = steady \ (r.ids \ got)
    BY <2>0
  <2>2. r \in P!Request /\ got \in SUBSET Tokens /\ last' = last /\ now' = now
    BY <1>4 DEF P!TypeOK, P!Request, P!PricesSaved
  <2>3. ASSUME NEW t \in steady', last # 0, NEW k \in P!LargerOf(1, last - Lookback)..last
        PROVE  k \in stored'[t] \/ \E q \in asked' : t \in q.ids /\ q.start <= k
    <3>1. t \in Tokens /\ t \in steady /\ t \notin r.ids \ got
      BY <2>1 DEF P!TypeOK
    <3>2. stored[t] \subseteq stored'[t]
      BY <2>1, <2>2, <3>1, Upserted
    <3>3. CASE k \in stored[t]
      BY <3>2, <3>3
    <3>4. CASE k \notin stored[t]
      <4>1. PICK q \in asked : t \in q.ids /\ q.start <= k
        BY <3>1, <3>4, <2>3 DEF Requested
      <4>2. CASE q # r
        BY <2>1, <4>1, <4>2
      <4>3. CASE q = r
        <5>1. t \in got /\ stored'[t] = stored[t] \cup (P!LargerOf(1, r.start)..now)
          BY <2>1, <2>2, <3>1, <4>1, <4>3, Upserted
        <5>2. r.start \in Int
          BY <2>2, PriceNumbers DEF P!Request
        <5>3. k \in P!LargerOf(1, r.start)..now
          BY <1>1, <4>1, <4>3, <5>2 DEF P!LargerOf
        <5> QED
          BY <5>1, <5>3
      <4> QED
        BY <4>2, <4>3
    <3> QED
      BY <3>3, <3>4
  <2> QED
    BY <1>1, <2>2, <2>3 DEF Requested
<1>5. CASE P!PricesLost
  <2>1. PICK r \in asked : asked' = asked \ {r} /\ steady' = steady \ r.ids
    BY <1>5 DEF P!PricesLost
  <2>2. last' = last /\ now' = now /\ stored' = stored
    BY <1>5 DEF P!PricesLost
  <2>3. ASSUME NEW t \in steady', last # 0, NEW k \in P!LargerOf(1, last - Lookback)..last
        PROVE  k \in stored[t] \/ \E q \in asked' : t \in q.ids /\ q.start <= k
    BY <2>1, <2>3 DEF Requested
  <2> QED
    BY <1>1, <2>2, <2>3 DEF Requested
<1>6. CASE P!TopRestart
  BY <1>1, <1>6 DEF P!TopRestart, Requested
<1>7. CASE P!Tick
  BY <1>1, <1>7 DEF P!Tick, Requested
<1>8. CASE UNCHANGED P!vars
  BY <1>8 DEF P!vars, Requested
<1> QED
  BY <1>2, <1>3, <1>4, <1>5, <1>6, <1>7, <1>8 DEF P!Next

-----------------------------------------------------------------------------
\* In every reachable state the tables and the requests have their types, no batch starts
\* above what its tokens have, no hole is behind the mark of a token that only the edge
\* scan writes, and what top-markets owes a token is stored or asked for.
THEOREM PriceInvariance ==
  ASSUME P!PriceAssumption
  PROVE  P!Spec => []PriceInv
<1>1. P!Init => PriceInv
  <2> SUFFICES ASSUME P!Init PROVE PriceInv
    OBVIOUS
  <2>1. LastHour \in Nat \ {0} /\ Lookback \in Nat \ {0}
    BY DEF P!PriceAssumption
  <2>2. P!TypeOK
    BY <2>1 DEF P!Init, P!TypeOK
  <2>3. Planned /\ Requested
    BY DEF P!Init, Planned, Requested
  <2>4. P!HolesOnlyByTopMarkets
    BY <2>1 DEF P!Init, P!HolesOnlyByTopMarkets, P!Window, P!HWM, P!LargerOf, P!ColdStart
  <2> QED
    BY <2>2, <2>3, <2>4 DEF PriceInv
<1>2. PriceInv /\ [P!Next]_(P!vars) => PriceInv'
  BY PriceTyped, Whole, RequestedStep DEF PriceInv
<1> QED
  BY <1>1, <1>2, PTL DEF P!Spec

\* EnsurePrices never leaves a hole below a high-water mark: a later cycle that starts at
\* the mark misses nothing, whatever requests and writes failed and whoever stopped between.
THEOREM NoHoleByEnsurePrices ==
  ASSUME P!PriceAssumption
  PROVE  P!Spec => []HolesOnlyByTopMarkets
<1>1. PriceInv => HolesOnlyByTopMarkets
  BY DEF PriceInv, HolesOnlyByTopMarkets
<1> QED
  BY <1>1, PriceInvariance, PTL

\* The windows of consecutive cycles of top-markets overlap, for every lookback, batch size
\* and length of a pause between them: a token in all of them has every point.
THEOREM TopMarketsCyclesOverlap ==
  ASSUME P!PriceAssumption
  PROVE  P!Spec => []RankedThroughoutIsWhole
<1>1. PriceInv => RankedThroughoutIsWhole
  <2> SUFFICES ASSUME PriceInv, NEW t \in steady, last # 0, \A r \in asked : t \notin r.ids,
                      NEW k \in P!LargerOf(1, last - Lookback)..last
               PROVE  k \in stored[t]
    BY DEF RankedThroughoutIsWhole, P!RankedThroughoutIsWhole
  <2> QED
    BY DEF PriceInv, Requested
<1> QED
  BY <1>1, PriceInvariance, PTL

(***************************************************************************)
(* The sports hierarchy.                                                   *)
(***************************************************************************)
\* Rows as /sports answers them, and the table leagues.
Rows(r) ==
  /\ IsSeq(r)
  /\ \A i \in DOMAIN r : IsSeq(r[i].tags) /\ ToSet(r[i].tags) \cap NoTags = {}

\* The indices of a sequence.
LEMMA Indices ==
  ASSUME NEW s, IsSeq(s)
  PROVE  Len(s) \in Nat /\ DOMAIN s = 1..Len(s)
BY DEF IsSeq

\* FirstIn finds nothing or an element of both.
LEMMA FirstFound ==
  ASSUME NEW s, IsSeq(s), NEW A
  PROVE  FirstIn(s, A) = None \/ FirstIn(s, A) \in A \cap ToSet(s)
<1> DEFINE places == {i \in DOMAIN s : s[i] \in A}
<1>1. places \in SUBSET Nat
  BY Indices
<1>2. CASE places = {}
  BY <1>2 DEF FirstIn
<1>3. CASE places # {}
  <2>1. Min(places) \in places
    <3> HIDE DEF places
    <3> QED BY <1>1, <1>3, MinOf
  <2>2. s[Min(places)] \in A \cap ToSet(s)
    BY <2>1 DEF ToSet
  <2> QED
    BY <1>3, <2>2 DEF FirstIn
<1> QED
  BY <1>2, <1>3

\* A family that is no seed is a tag of /sports.
LEMMA FrequentTag ==
  ASSUME NEW r, NEW t \in AutoFamilies(r), t \notin SeedFamilies
  PROVE  t \in (UNION {ToSet(r[i].tags) : i \in DOMAIN r}) \ {Sports}
BY Zenon DEF AutoFamilies

\* Families are tags of /sports or seeds, and neither Sports nor the root.
LEMMA Families ==
  ASSUME TagAssumption, NEW r, Rows(r)
  PROVE  /\ SeedFamilies \subseteq AutoFamilies(r)
         /\ AutoFamilies(r) \subseteq AllTagIDsFromSports(r) \ {Sports}
         /\ AllTagIDsFromSports(r) \cap NoTags = {}
         /\ \A i \in DOMAIN r : ToSet(r[i].tags) \subseteq AllTagIDsFromSports(r)
<1>1. Sports \notin SeedFamilies \cup NoTags /\ SeedFamilies \cap NoTags = {}
  BY DEF TagAssumption
<1>2. AllTagIDsFromSports(r) \cap NoTags = {}
  BY <1>1 DEF AllTagIDsFromSports, Rows
<1>3. SeedFamilies \subseteq AutoFamilies(r)
  BY DEF AutoFamilies
<1>4. AutoFamilies(r) \subseteq AllTagIDsFromSports(r) \ {Sports}
  <2>1. ASSUME NEW t \in AutoFamilies(r), t \notin SeedFamilies
        PROVE  t \in AllTagIDsFromSports(r) /\ t # Sports
    <3>1. t \in (UNION {ToSet(r[i].tags) : i \in DOMAIN r}) \ {Sports}
      BY <2>1, FrequentTag, Zenon
    <3>2. t # Sports
      BY ONLY <3>1
    <3>3. t \in AllTagIDsFromSports(r)
      BY ONLY <3>1, Zenon DEF AllTagIDsFromSports
    <3> QED
      BY <3>2, <3>3
  <2>2. SeedFamilies \subseteq AllTagIDsFromSports(r)
    BY DEF AllTagIDsFromSports
  <2> QED
    BY <1>1, <2>1, <2>2
<1>5. \A i \in DOMAIN r : ToSet(r[i].tags) \subseteq AllTagIDsFromSports(r)
  BY DEF AllTagIDsFromSports
<1> QED
  BY <1>2, <1>3, <1>4, <1>5

\* The family of a league is a family.
LEMMA FamilyOf ==
  ASSUME TagAssumption, NEW r, Rows(r), NEW i \in DOMAIN r
  PROVE  LET f == FamilyTagForLeague(r[i], AutoFamilies(r))
         IN  f = None \/ f \in AutoFamilies(r)
<1> DEFINE fams == AutoFamilies(r)
<1>1. FirstIn(r[i].tags, fams) = None \/ FirstIn(r[i].tags, fams) \in fams
  BY FirstFound DEF Rows
<1>2. \A k \in DOMAIN Inject : Inject[k] \in fams
  BY Families DEF TagAssumption
<1> QED
  BY <1>1, <1>2 DEF FamilyTagForLeague

\* The edges of one league: all of its tags but the other families have a parent, the
\* families Sports and the rest a family that is there too.
LEMMA EdgesOfLeague ==
  ASSUME TagAssumption, NEW r, Rows(r), NEW i \in DOMAIN r
  PROVE  LET fams == AutoFamilies(r)
             e    == BuildParentEdges(r[i], FamilyTagForLeague(r[i], fams), fams)
         IN  /\ DOMAIN e \subseteq AllTagIDsFromSports(r) \ {Sports}
             /\ ToSet(r[i].tags) \subseteq DOMAIN e \cup fams \cup {Sports}
             /\ \A t \in DOMAIN e : e[t] = Sports \/ e[t] \in fams \cap DOMAIN e
             /\ \A t \in DOMAIN e \cap fams : e[t] = Sports
<1> DEFINE fams == AutoFamilies(r)
           fam  == FamilyTagForLeague(r[i], fams)
           lv   == LeagueTitleTagIDs(r[i], fam, fams)
           f    == [t \in lv |-> IF fam = None THEN Sports ELSE fam]
           g    == [t \in {fam} \ {None} |-> Sports]
           e    == BuildParentEdges(r[i], fam, fams)
<1>1. fam = None \/ fam \in fams
  BY FamilyOf
<1>2. fams \subseteq AllTagIDsFromSports(r) \ {Sports}
      /\ ToSet(r[i].tags) \subseteq AllTagIDsFromSports(r)
      /\ None \notin AllTagIDsFromSports(r)
  BY Families DEF NoTags
<1>3. e = f ++ g
  BY DEF BuildParentEdges
<1>4. lv = ToSet(r[i].tags) \ ({Sports, fam} \cup fams)
  BY DEF LeagueTitleTagIDs
<1>5. /\ DOMAIN f = lv /\ DOMAIN g = {fam} \ {None}
      /\ \A t \in lv : f[t] = IF fam = None THEN Sports ELSE fam
      /\ fam # None => g[fam] = Sports
  OBVIOUS
<1> HIDE DEF e, f, g, lv, fam, fams
<1>6. /\ DOMAIN e = lv \cup ({fam} \ {None})
      /\ \A t \in lv : e[t] = IF fam = None THEN Sports ELSE fam
  BY <1>3, <1>5 DEF ++
<1>7. fam # None => e[fam] = Sports
  BY <1>3, <1>4, <1>5 DEF ++
<1>8. DOMAIN e \subseteq AllTagIDsFromSports(r) \ {Sports}
  BY <1>1, <1>2, <1>4, <1>6
<1>9. ToSet(r[i].tags) \subseteq DOMAIN e \cup fams \cup {Sports}
  BY <1>1, <1>2, <1>4, <1>6
<1>10. \A t \in DOMAIN e : e[t] = Sports \/ e[t] \in fams \cap DOMAIN e
  BY <1>1, <1>6, <1>7
<1>11. \A t \in DOMAIN e \cap fams : e[t] = Sports
  BY <1>4, <1>6, <1>7
<1> QED
  BY <1>8, <1>9, <1>10, <1>11 DEF e, fams, fam

\* The edges of all leagues, of which the last wins, and of the seeds: the same of all tags.
LEMMA EdgesOfSports ==
  ASSUME TagAssumption, NEW r, Rows(r)
  PROVE  LET fams == AutoFamilies(r)
             e    == BuildFromSportsMetadata(r)
         IN  /\ DOMAIN e \subseteq AllTagIDsFromSports(r) \ {Sports}
             /\ AllTagIDsFromSports(r) \subseteq DOMAIN e \cup fams \cup {Sports}
             /\ \A t \in DOMAIN e : e[t] # Sports => e[t] \in fams \cap DOMAIN e /\ e[e[t]] = Sports
<1> DEFINE fams    == AutoFamilies(r)
           league  == [i \in DOMAIN r |->
                         BuildParentEdges(r[i], FamilyTagForLeague(r[i], fams), fams)]
           with(t) == {i \in DOMAIN r : t \in DOMAIN league[i]}
           m       == [t \in UNION {DOMAIN league[i] : i \in DOMAIN r} |-> league[Max(with(t))][t]]
           seeds   == [f \in SeedFamilies |-> Sports]
           e       == BuildFromSportsMetadata(r)
<1>1. e = m ++ seeds
  BY DEF BuildFromSportsMetadata, MergeStaticFamilyAnchors
<1>3. ASSUME NEW i \in DOMAIN r
      PROVE  /\ DOMAIN league[i] \subseteq AllTagIDsFromSports(r) \ {Sports}
             /\ ToSet(r[i].tags) \subseteq DOMAIN league[i] \cup fams \cup {Sports}
             /\ \A t \in DOMAIN league[i] :
                  league[i][t] = Sports \/ league[i][t] \in fams \cap DOMAIN league[i]
             /\ \A t \in DOMAIN league[i] \cap fams : league[i][t] = Sports
  BY EdgesOfLeague
<1>4. Len(r) \in Nat /\ DOMAIN r = 1..Len(r)
  BY Indices DEF Rows
<1>5. \A t \in DOMAIN m : \E i \in DOMAIN r : t \in DOMAIN league[i] /\ m[t] = league[i][t]
  <2> SUFFICES ASSUME NEW t \in DOMAIN m PROVE Max(with(t)) \in with(t)
    OBVIOUS
  <2>1. with(t) \in SUBSET (1..Len(r)) /\ with(t) # {}
    BY <1>4
  <2> HIDE DEF with
  <2> QED
    BY <1>4, <2>1, MaxOf
<1>6. \A i \in DOMAIN r : DOMAIN league[i] \subseteq DOMAIN m
  OBVIOUS
<1>7. DOMAIN seeds = SeedFamilies /\ \A t \in SeedFamilies : seeds[t] = Sports
  OBVIOUS
<1> HIDE DEF e, m, seeds, league, fams, with
<1>8. \A t \in DOMAIN m : e[t] = m[t]
  BY <1>1 DEF ++
<1>2. /\ DOMAIN e = DOMAIN m \cup SeedFamilies
      /\ \A t \in SeedFamilies : t \notin DOMAIN m => e[t] = Sports
  BY <1>1, <1>7 DEF ++
<1>9. /\ SeedFamilies \subseteq fams
      /\ fams \subseteq AllTagIDsFromSports(r) \ {Sports}
  BY Families DEF fams
<1>10. \A t \in DOMAIN e \cap fams : e[t] = Sports
  BY <1>2, <1>3, <1>5, <1>8
<1>11. DOMAIN e \subseteq AllTagIDsFromSports(r) \ {Sports}
  BY <1>2, <1>3, <1>5, <1>9
<1>12. AllTagIDsFromSports(r) \subseteq DOMAIN e \cup fams \cup {Sports}
  <2>1. \A t \in AllTagIDsFromSports(r) :
          t = Sports \/ t \in SeedFamilies \/ \E i \in DOMAIN r : t \in ToSet(r[i].tags)
    BY DEF AllTagIDsFromSports
  <2> QED
    BY <1>2, <1>3, <1>6, <1>9, <2>1
<1>13. \A t \in DOMAIN e : e[t] = Sports \/ e[t] \in fams \cap DOMAIN e
  BY <1>2, <1>3, <1>5, <1>6, <1>8
<1> QED
  BY <1>10, <1>11, <1>12, <1>13 DEF e, fams

(***************************************************************************)
(* Parent maps without cycles.                                             *)
(***************************************************************************)
\* No tag of D is above itself under p by way of D only.
Grounded(D, p) == \A S \in SUBSET D : S # {} => \E t \in S : p[t] \notin S

\* One level down from S, and its levels from the root.
Down(p, S) == S \cup {t \in DOMAIN p : p[t] \in S}

\* What is down from a set that begins at the root has its parent there; and a set of tags
\* with all their parents that misses the one misses the other.
LEMMA DownOne ==
  ASSUME NEW p, NEW S, \A t \in S : t = Root \/ (t \in DOMAIN p /\ p[t] \in S),
         NEW L, \A t \in L : p[t] \in L, S \cap L = {}
  PROVE  /\ \A t \in Down(p, S) : t = Root \/ (t \in DOMAIN p /\ p[t] \in Down(p, S))
         /\ Down(p, S) \cap L = {}
BY DEF Down

\* FetchTagSubtree: the parent of what it finds is found too or is the root, and what it
\* finds has no cycle.
LEMMA SubtreeOf ==
  ASSUME NEW p
  PROVE  /\ Subtree(p) \subseteq DOMAIN p \ {Root}
         /\ \A t \in Subtree(p) : p[t] \in Subtree(p) \cup {Root}
         /\ Grounded(Subtree(p), p)
<1> DEFINE d1 == Down(p, {Root})
           d2 == Down(p, d1)
           d3 == Down(p, d2)
           d4 == Down(p, d3)
           d5 == Down(p, d4)
           d6 == Down(p, d5)
           d7 == Down(p, d6)
           d8 == Down(p, d7)
           From(S) == \A t \in S : t = Root \/ (t \in DOMAIN p /\ p[t] \in S)
<1>1. Subtree(p) = d8 \ {Root}
  BY DEF Subtree, Down
<1>2. ASSUME NEW L, \A t \in L : p[t] \in L, Root \notin L
      PROVE  From(d8) /\ d8 \cap L = {}
  <2>1. From({Root}) /\ {Root} \cap L = {}
    BY <1>2
  <2>2. From(d1) /\ d1 \cap L = {}
    BY <1>2, <2>1, DownOne
  <2> HIDE DEF d1
  <2>3. From(d2) /\ d2 \cap L = {}
    BY <1>2, <2>2, DownOne
  <2> HIDE DEF d2
  <2>4. From(d3) /\ d3 \cap L = {}
    BY <1>2, <2>3, DownOne
  <2> HIDE DEF d3
  <2>5. From(d4) /\ d4 \cap L = {}
    BY <1>2, <2>4, DownOne
  <2> HIDE DEF d4
  <2>6. From(d5) /\ d5 \cap L = {}
    BY <1>2, <2>5, DownOne
  <2> HIDE DEF d5
  <2>7. From(d6) /\ d6 \cap L = {}
    BY <1>2, <2>6, DownOne
  <2> HIDE DEF d6
  <2>8. From(d7) /\ d7 \cap L = {}
    BY <1>2, <2>7, DownOne
  <2> HIDE DEF d7
  <2> QED
    BY <1>2, <2>8, DownOne
<1> HIDE DEF d8
<1>3. From(d8)
  <2>1. (\A t \in {} : p[t] \in {}) /\ Root \notin {}
    OBVIOUS
  <2>2. From(d8) /\ d8 \cap {} = {}
    BY <1>2, <2>1
  <2> QED
    BY <2>2
<1>4. Grounded(Subtree(p), p)
  <2> SUFFICES ASSUME NEW L \in SUBSET Subtree(p), L # {}, \A t \in L : p[t] \in L
               PROVE  FALSE
    BY DEF Grounded
  <2>1. Root \notin L
    BY <1>1
  <2>2. d8 \cap L = {}
    BY <1>2, <2>1
  <2> QED
    BY <1>1, <2>2
<1> QED
  BY <1>1, <1>3, <1>4

\* A map stays without cycles outside A if the new parents are in A or the root, or have the
\* root for a parent.
LEMMA GroundedOver ==
  ASSUME NEW A, NEW p, NEW q, Grounded(DOMAIN p \ A, p), Root \notin DOMAIN q,
         \A c \in DOMAIN q \ A : \/ q[c] \in A \cup {Root}
                                 \/ c \in DOMAIN p /\ q[c] = p[c]
                                 \/ q[q[c]] = Root
  PROVE  Grounded(DOMAIN q \ A, q)
<1> SUFFICES ASSUME NEW S \in SUBSET (DOMAIN q \ A), S # {}, \A t \in S : q[t] \in S
             PROVE  FALSE
  BY DEF Grounded
<1>1. \A c \in S : c \in DOMAIN p \ A /\ q[c] = p[c]
  <2> SUFFICES ASSUME NEW c \in S PROVE c \in DOMAIN p \ A /\ q[c] = p[c]
    OBVIOUS
  <2>1. q[c] \in S /\ q[q[c]] \in S /\ Root \notin S
    OBVIOUS
  <2> QED
    BY <2>1
<1> QED
  BY <1>1 DEF Grounded

\* So does the table when a catalog without cycles is written over it, of which every tag
\* has its parent in it, in A or at the root.
LEMMA GroundedBoth ==
  ASSUME NEW A, NEW p, NEW c, NEW q, Grounded(DOMAIN p \ A, p), Grounded(DOMAIN c \ A, c),
         None \notin DOMAIN q, Root \in DOMAIN q => q[Root] = None,
         \A t \in DOMAIN c \ A : c[t] \in DOMAIN c \cup A \cup {Root},
         \A t \in DOMAIN q \ (A \cup {Root}) :
           IF t \in DOMAIN c THEN q[t] = c[t] ELSE t \in DOMAIN p /\ q[t] = p[t]
  PROVE  Grounded(DOMAIN q \ A, q)
<1> SUFFICES ASSUME NEW S \in SUBSET (DOMAIN q \ A), S # {}, \A t \in S : q[t] \in S
             PROVE  FALSE
  BY DEF Grounded
<1>1. Root \notin S
  OBVIOUS
<1> DEFINE inC == S \cap DOMAIN c
<1>2. CASE inC # {}
  <2>1. \A t \in inC : c[t] = q[t] /\ q[t] \in S
    BY <1>1
  <2>2. \A t \in inC : c[t] \in inC
    BY <1>1, <2>1
  <2>3. inC \in SUBSET (DOMAIN c \ A)
    OBVIOUS
  <2> HIDE DEF inC
  <2> QED
    BY <1>2, <2>2, <2>3 DEF Grounded
<1>3. CASE inC = {}
  <2>1. \A t \in S : t \in DOMAIN p \ A /\ p[t] = q[t]
    BY <1>1, <1>3
  <2> QED
    BY <2>1 DEF Grounded
<1> QED
  BY <1>2, <1>3

(***************************************************************************)
(* The invariant of TagTree.                                               *)
(***************************************************************************)
\* The tags of /sports and the seeds, and Sports itself.
SportTags == AllTagIDsFromSports(rows)

\* The root, where it is a row at all, has no parent.
NoOddTags(p) == None \notin DOMAIN p /\ (Root \in DOMAIN p => p[Root] = None)

\* Edges of an overlay: up from a tag in A, the tags of /sports, Sports is one or two edges
\* away.
SportsEdges(A, e) ==
  /\ DOMAIN e \cap ({Sports} \cup NoTags) = {}
  /\ \A t \in DOMAIN e : e[t] \in A
  /\ \A t \in DOMAIN e \cap A : e[t] # Sports => e[t] \in DOMAIN e /\ e[e[t]] = Sports

\* A catalog of either program has no cycle outside A.
Catalog(A, c) ==
  /\ DOMAIN c \cap NoTags = {}
  /\ \A t \in DOMAIN c \ A : c[t] \in DOMAIN c \cup A \cup {Root}
  /\ Grounded(DOMAIN c \ A, c)

\* Definitions on their way to the table are of tags of /sports.
Definitions == \A r \in queue : r[1] = "tags_definitions" => r[2] \in SportTags

\* A map in which Sports is under the root and the edges e, where it has their tags, hold.
Follows(p, e) ==
  Sports \in DOMAIN p /\ p[Sports] = Root /\ \A t \in DOMAIN e \cap DOMAIN p : p[t] = e[t]

Merged ==
  at = "write" =>
    /\ Follows(cat, edges)
    /\ overlaid = "read" => DOMAIN edges \cap DOMAIN tags \subseteq DOMAIN cat

Written == overlaid = "written" /\ ~dropped => Follows(tags, edges)

\* The cycles that are left could only be among tags of /sports.
Rest == ~dropped => Grounded(DOMAIN tags \ SportTags, tags)

Inputs == rows \in RowSets /\ named \in TeamSets

TagInv ==
  /\ Inputs /\ NoOddTags(tags) /\ SportsEdges(SportTags, edges)
  /\ Catalog(SportTags, cat) /\ Catalog(SportTags, topCat)
  /\ Definitions /\ Merged /\ SportsParentsWin /\ Written /\ Rest /\ FreshMeansStored

\* What /sports answers are rows.
LEMMA RowsAnswered ==
  ASSUME TagAssumption, rows \in RowSets
  PROVE  Rows(rows) /\ SportTags \cap NoTags = {} /\ Sports \in SportTags
                    /\ SeedFamilies \subseteq SportTags
<1>1. Rows(rows)
  BY DEF TagAssumption, Rows
<1> QED
  BY <1>1, Families DEF SportTags, AllTagIDsFromSports

\* The rows of the table leagues, in whatever order, have the tags of /sports.
LEMMA RowsRead ==
  ASSUME TagAssumption, rows \in RowSets, NEW r \in FetchLeagueTagRows
  PROVE  /\ Rows(r) /\ AllTagIDsFromSports(r) \subseteq SportTags
         /\ DOMAIN r # {} => AllTagIDsFromSports(r) = SportTags
<1>1. Rows(rows)
  BY RowsAnswered
<1>2. CASE r = rows
  BY <1>1, <1>2 DEF SportTags
<1>3. CASE r = Reverse(rows)
  <2>1. Len(rows) \in Nat /\ DOMAIN rows = 1..Len(rows) /\ rows \in Seq(ToSet(rows))
    BY <1>1, Indices DEF Rows, IsSeq
  <2>2. r = [i \in 1..Len(rows) |-> rows[(Len(rows) - i) + 1]]
    BY <1>3 DEF Reverse
  <2>3. DOMAIN r = DOMAIN rows /\ \A i \in DOMAIN r : r[i] = rows[(Len(rows) - i) + 1]
    BY <2>1, <2>2
  <2>4. \A i \in DOMAIN r : (Len(rows) - i) + 1 \in DOMAIN rows
                            /\ (Len(rows) - ((Len(rows) - i) + 1)) + 1 = i
    BY <2>1, <2>3
  <2>5. (\A i \in DOMAIN r : \E j \in DOMAIN rows : r[i] = rows[j])
        /\ (\A j \in DOMAIN rows : \E i \in DOMAIN r : r[i] = rows[j])
    BY <2>3, <2>4
  <2>6. ToSet(r) = ToSet(rows)
    BY <2>5 DEF ToSet
  <2>7. IsSeq(r)
    <3>1. r \in [1..Len(rows) -> ToSet(r)]
      BY <2>1, <2>2, <2>3 DEF ToSet
    <3> QED
      BY <2>1, <3>1 DEF IsSeq
  <2>8. Rows(r)
    BY <1>1, <2>5, <2>7 DEF Rows
  <2>9. ASSUME NEW t
        PROVE  t \in UNION {ToSet(r[i].tags) : i \in DOMAIN r}
               <=> t \in UNION {ToSet(rows[i].tags) : i \in DOMAIN rows}
    <3>1. t \in UNION {ToSet(r[i].tags) : i \in DOMAIN r}
          <=> \E i \in DOMAIN r : t \in ToSet(r[i].tags)
      BY ONLY Zenon
    <3>2. t \in UNION {ToSet(rows[i].tags) : i \in DOMAIN rows}
          <=> \E i \in DOMAIN rows : t \in ToSet(rows[i].tags)
      BY ONLY Zenon
    <3> QED
      BY ONLY <2>5, <3>1, <3>2
  <2>10. UNION {ToSet(r[i].tags) : i \in DOMAIN r}
         = UNION {ToSet(rows[i].tags) : i \in DOMAIN rows}
    BY ONLY <2>9, Zenon
  <2>11. AllTagIDsFromSports(r) = SportTags
    BY ONLY <2>10, Zenon DEF AllTagIDsFromSports, SportTags
  <2> QED
    BY <2>8, <2>11
<1>4. CASE r = <<>>
  <2>1. DOMAIN r = {}
    BY <1>4
  <2>2. r \in Seq(ToSet(r))
    BY <1>4
  <2>3. AllTagIDsFromSports(r) \subseteq {Sports} \cup SeedFamilies
    BY <2>1 DEF AllTagIDsFromSports
  <2> QED
    BY <2>1, <2>2, <2>3, RowsAnswered DEF Rows, IsSeq
<1> QED
  BY <1>2, <1>3, <1>4 DEF FetchLeagueTagRows

\* The title of a league is one of its tags, and no family.
LEMMA Titles ==
  ASSUME TagAssumption, NEW r, Rows(r), NEW k \in DOMAIN LeagueTitleByKey(r)
  PROVE  LeagueTitleByKey(r)[k] \in AllTagIDsFromSports(r) \cup {None} /\ DOMAIN r # {}
<1>1. PICK j \in DOMAIN r : r[j].sport = k
  BY DEF LeagueTitleByKey
<1> DEFINE i == CHOOSE x \in DOMAIN r : r[x].sport = k
<1>2. i \in DOMAIN r
  BY <1>1
<1>3. LeagueTitleByKey(r)[k] = LeagueTitleTag(r, r[i])
  BY DEF LeagueTitleByKey
<1> HIDE DEF i
<1>4. LeagueTitleTag(r, r[i]) \in ToSet(r[i].tags) \cup {None}
  BY <1>2, FirstFound DEF LeagueTitleTag, Rows
<1>5. ToSet(r[i].tags) \subseteq AllTagIDsFromSports(r)
  BY <1>2, Families
<1> QED
  BY <1>2, <1>3, <1>4, <1>5

\* The edges of teams go from a tag that is there, and no family, to a tag of /sports.
LEMMA EdgesOfTeams ==
  ASSUME TagAssumption, named \in TeamSets, NEW r, Rows(r)
  PROVE  LET e == buildTeamParentEdges(r)
         IN  /\ DOMAIN e \subseteq DOMAIN tags \ ({Sports} \cup AutoFamilies(r) \cup NoTags)
             /\ \A t \in DOMAIN e : e[t] \in AllTagIDsFromSports(r)
             /\ DOMAIN e # {} => DOMAIN r # {}
<1> DEFINE ms == MatchTeamsToTags(r, named, DOMAIN tags)
           e  == buildTeamParentEdges(r)
<1>1. ASSUME NEW m \in ms
      PROVE  /\ m.tag \in DOMAIN tags \ ({Sports} \cup AutoFamilies(r) \cup NoTags)
             /\ m.title \in AllTagIDsFromSports(r)
             /\ DOMAIN r # {}
  <2>1. PICK n \in named : /\ m = [tag |-> n.tag, title |-> LeagueTitleByKey(r)[n.league]]
                           /\ n.league \in DOMAIN LeagueTitleByKey(r)
                           /\ LeagueTitleByKey(r)[n.league] \notin {None, n.tag}
                           /\ n.tag \in DOMAIN tags \ ({Sports} \cup AutoFamilies(r))
    BY <1>1, Zenon DEF MatchTeamsToTags
  <2>2. m.tag = n.tag /\ m.title = LeagueTitleByKey(r)[n.league]
    BY <2>1
  <2>3. n.tag \notin NoTags
    BY <2>1 DEF TagAssumption
  <2>4. m.title \in AllTagIDsFromSports(r) /\ DOMAIN r # {}
    BY <2>1, <2>2, Titles
  <2> QED
    BY <2>1, <2>2, <2>3, <2>4
<1>2. e = [t \in {m.tag : m \in ms} |-> (CHOOSE m \in ms : m.tag = t).title]
  BY DEF buildTeamParentEdges, TeamParentEdges
<1> HIDE DEF ms, e
<1>3. \A t \in DOMAIN e : \E m \in ms : m.tag = t
  BY <1>2
<1>4. ASSUME NEW t \in DOMAIN e
      PROVE  \E m \in ms : m.tag = t /\ e[t] = m.title
  <2>1. (CHOOSE m \in ms : m.tag = t) \in ms /\ (CHOOSE m \in ms : m.tag = t).tag = t
    BY <1>3, Zenon
  <2>2. e[t] = (CHOOSE m \in ms : m.tag = t).title
    BY <1>2, Zenon
  <2> QED
    BY <2>1, <2>2
<1>5. \A t \in DOMAIN e : /\ t \in DOMAIN tags \ ({Sports} \cup AutoFamilies(r) \cup NoTags)
                          /\ e[t] \in AllTagIDsFromSports(r) /\ DOMAIN r # {}
  BY <1>1, <1>4
<1> QED
  BY <1>5 DEF e

\* What OverlaySportsHierarchy reads are such edges.
LEMMA EdgesOfOverlay ==
  ASSUME TagAssumption, Inputs, NEW e \in SportsParentEdges
  PROVE  SportsEdges(SportTags, e)
<1>1. PICK r \in FetchLeagueTagRows :
        e = BuildFromSportsMetadata(r) ++ (IF teams THEN buildTeamParentEdges(r) ELSE Empty)
  BY DEF SportsParentEdges
<1> DEFINE b == BuildFromSportsMetadata(r)
           m == IF teams THEN buildTeamParentEdges(r) ELSE Empty
<1>2. /\ Rows(r) /\ AllTagIDsFromSports(r) \subseteq SportTags
      /\ DOMAIN r # {} => AllTagIDsFromSports(r) = SportTags
  BY RowsRead DEF Inputs
<1>3. /\ DOMAIN b \subseteq AllTagIDsFromSports(r) \ {Sports}
      /\ AllTagIDsFromSports(r) \subseteq DOMAIN b \cup AutoFamilies(r) \cup {Sports}
      /\ \A t \in DOMAIN b :
           b[t] # Sports => b[t] \in AutoFamilies(r) \cap DOMAIN b /\ b[b[t]] = Sports
  BY <1>2, EdgesOfSports
<1>4. /\ DOMAIN m \subseteq DOMAIN tags \ ({Sports} \cup AutoFamilies(r) \cup NoTags)
      /\ \A t \in DOMAIN m : m[t] \in AllTagIDsFromSports(r)
      /\ DOMAIN m # {} => DOMAIN r # {}
  <2>1. CASE teams
    BY <1>2, <2>1, EdgesOfTeams DEF Inputs
  <2>2. CASE ~teams
    <3>1. m = Empty
      BY <2>2
    <3>2. DOMAIN m = {}
      BY <3>1 DEF Empty
    <3> HIDE DEF m
    <3> QED
      BY <3>2
  <2> QED
    BY <2>1, <2>2
<1>5. e = b ++ m
  BY <1>1
<1> HIDE DEF b, m
<1>6. /\ DOMAIN e = DOMAIN b \cup DOMAIN m
      /\ \A t \in DOMAIN b : e[t] = b[t]
      /\ \A t \in DOMAIN m : t \notin DOMAIN b => e[t] = m[t]
  BY <1>5 DEF ++
<1>7. Sports \in AllTagIDsFromSports(r) /\ AllTagIDsFromSports(r) \cap NoTags = {}
  BY <1>2, Families DEF AllTagIDsFromSports
<1>8. DOMAIN e \cap ({Sports} \cup NoTags) = {}
  BY <1>3, <1>4, <1>6, <1>7
<1>9. \A t \in DOMAIN e : e[t] \in SportTags
  BY <1>2, <1>3, <1>4, <1>6, <1>7
<1>10. ASSUME NEW t \in DOMAIN e \cap SportTags, e[t] # Sports
       PROVE  e[t] \in DOMAIN e /\ e[e[t]] = Sports
  <2>1. t \in DOMAIN b
    BY <1>2, <1>3, <1>4, <1>6, <1>10
  <2> QED
    BY <1>3, <1>6, <1>10, <2>1
<1> QED
  BY <1>8, <1>9, <1>10 DEF SportsEdges

\* The catalogs: of the table,
LEMMA LoadedCatalog ==
  ASSUME NoOddTags(tags), NEW A
  PROVE  Catalog(A, LoadCategoriesFromDB)
<1> DEFINE c == LoadCategoriesFromDB
<1>1. /\ Subtree(tags) \subseteq DOMAIN tags \ {Root}
      /\ \A t \in Subtree(tags) : tags[t] \in Subtree(tags) \cup {Root}
      /\ Grounded(Subtree(tags), tags)
  BY SubtreeOf
<1>2. DOMAIN c = Subtree(tags) /\ \A t \in Subtree(tags) : c[t] = tags[t]
  BY DEF LoadCategoriesFromDB
<1> HIDE DEF c
<1>3. Grounded(DOMAIN c \ A, c)
  BY <1>1, <1>2 DEF Grounded
<1>4. DOMAIN c \cap NoTags = {}
  BY <1>1, <1>2 DEF NoTags, NoOddTags
<1> QED
  BY <1>1, <1>2, <1>3, <1>4 DEF Catalog, c

\* of a walk,
LEMMA WalkedCatalog ==
  ASSUME TagAssumption, NEW w \in Walks, NEW A
  PROVE  Catalog(A, w)
<1>1. PICK found \in SUBSET WalkTags : w \in [found -> found \cup {Root}]
  BY DEF Walks
<1>2. Subtree(w) = DOMAIN w
  BY DEF Walks
<1>3. WalkTags \cap NoTags = {}
  BY DEF TagAssumption
<1>4. /\ \A t \in Subtree(w) : w[t] \in Subtree(w) \cup {Root}
      /\ Grounded(Subtree(w), w)
  BY SubtreeOf
<1>5. Grounded(DOMAIN w \ A, w)
  BY <1>2, <1>4 DEF Grounded
<1> QED
  BY <1>1, <1>2, <1>3, <1>4, <1>5 DEF Catalog

\* empty,
LEMMA EmptyCatalog ==
  ASSUME NEW A
  PROVE  Catalog(A, Empty) /\ DOMAIN Empty = {}
<1>1. DOMAIN Empty = {}
  BY DEF Empty
<1> QED
  BY <1>1 DEF Catalog, Grounded

\* after mergeSportsTagsIntoCatalog, where the edges hold,
LEMMA MergedCatalog ==
  ASSUME TagAssumption, Inputs, NoOddTags(tags), NEW c, Catalog(SportTags, c),
         NEW e, SportsEdges(SportTags, e)
  PROVE  LET m == MergeSports(c, e)
         IN  /\ Catalog(SportTags, m) /\ Follows(m, e)
             /\ DOMAIN e \cap DOMAIN tags \subseteq DOMAIN m
<1> DEFINE m    == MergeSports(c, e)
           ends == DOMAIN e \cup {e[t] : t \in DOMAIN e}
           all  == DOMAIN c \cup {Sports} \cup (ends \cap DOMAIN tags) \cup (DOMAIN e \cap Known)
<1>1. m = [t \in all |-> IF t = Sports THEN Root
                         ELSE IF t \in DOMAIN e THEN e[t]
                         ELSE IF t \in DOMAIN c THEN c[t] ELSE tags[t]]
  BY DEF MergeSports
<1>2. SportTags \cap NoTags = {} /\ Sports \in SportTags /\ Sports \notin DOMAIN e
  BY RowsAnswered DEF Inputs, SportsEdges
<1>3. ends \subseteq DOMAIN e \cup SportTags
  BY DEF SportsEdges
<1>4. all \cap NoTags = {}
  BY <1>2, <1>3 DEF SportsEdges, Catalog
<1>5. \A t \in all \ SportTags : t \in DOMAIN e \/ t \in DOMAIN c
  BY <1>2, <1>3
<1>6. DOMAIN c \subseteq all /\ Sports \in all /\ DOMAIN e \cap DOMAIN tags \subseteq all
  OBVIOUS
<1> HIDE DEF ends, all
<1>7. DOMAIN m = all /\ m[Sports] = Root
  BY <1>1, <1>6
<1>8. \A t \in DOMAIN e \cap all : m[t] = e[t]
  BY <1>1, <1>2
<1>9. \A t \in all \ SportTags : t \notin DOMAIN e => m[t] = c[t] /\ t \in DOMAIN c
  BY <1>1, <1>2, <1>5
<1> HIDE DEF m
<1>10. Root \notin DOMAIN m
  BY <1>4, <1>7 DEF NoTags
<1>11. \A t \in DOMAIN m \ SportTags : m[t] \in SportTags \/ (t \in DOMAIN c /\ m[t] = c[t])
  BY <1>7, <1>8, <1>9 DEF SportsEdges
<1>12. Grounded(DOMAIN m \ SportTags, m)
  <2>1. Grounded(DOMAIN c \ SportTags, c)
    BY DEF Catalog
  <2> QED
    BY <1>10, <1>11, <2>1, GroundedOver
<1>13. \A t \in DOMAIN m \ SportTags : m[t] \in DOMAIN m \cup SportTags \cup {Root}
  BY <1>6, <1>7, <1>11 DEF Catalog
<1>14. Catalog(SportTags, m)
  BY <1>4, <1>7, <1>12, <1>13 DEF Catalog
<1>15. Follows(m, e)
  BY <1>6, <1>7, <1>8 DEF Follows
<1> QED
  BY <1>6, <1>7, <1>14, <1>15 DEF m

\* What Aggregate discovers is one tag, with its parent by the edges or high up.
LEMMA DiscoveredTag ==
  ASSUME NEW c, NEW e, NEW d, d \in Discovered(c, e), d # c
  PROVE  \E t \in EventTags \ DOMAIN c :
           /\ DOMAIN d = DOMAIN c \cup {t} /\ d[t] \in Under(c, e, t)
           /\ \A s \in DOMAIN c : d[s] = c[s]
<1>1. PICK t \in EventTags \ DOMAIN c : \E p \in Under(c, e, t) : d = c ++ [s \in {t} |-> p]
  BY Zenon DEF Discovered
<1>2. PICK p \in Under(c, e, t) : d = c ++ [s \in {t} |-> p]
  BY <1>1
<1> QED
  BY <1>2 DEF ++

\* and after Aggregate, which leaves what is there.
LEMMA DiscoveredCatalog ==
  ASSUME TagAssumption, NEW A, NEW c, Catalog(A, c), NEW e, SportsEdges(A, e),
         NEW d \in Discovered(c, e)
  PROVE  /\ Catalog(A, d) /\ DOMAIN c \subseteq DOMAIN d
         /\ \A t \in DOMAIN c : d[t] = c[t]
         /\ \A t \in DOMAIN d \cap DOMAIN e : t \notin DOMAIN c => d[t] = e[t]
<1>1. CASE d = c
  BY <1>1
<1>2. CASE d # c
  <2>1. PICK t \in EventTags \ DOMAIN c :
          /\ DOMAIN d = DOMAIN c \cup {t} /\ d[t] \in Under(c, e, t)
          /\ \A s \in DOMAIN c : d[s] = c[s]
    BY ONLY <1>2, d \in Discovered(c, e), DiscoveredTag
  <2>2. /\ DOMAIN d = DOMAIN c \cup {t} /\ d[t] \in Under(c, e, t)
        /\ \A s \in DOMAIN c : d[s] = c[s]
    BY <2>1
  <2>3. t \notin NoTags
    BY <2>1 DEF TagAssumption
  <2>4. DOMAIN d \cap NoTags = {} /\ Root \notin DOMAIN d
    BY <2>2, <2>3 DEF Catalog, NoTags
  <2>5. d[t] \in A \/ d[t] = Root \/ (d[t] \in DOMAIN c /\ d[d[t]] = Root)
    BY <2>1, <2>2 DEF SportsEdges, Under
  <2>6. Grounded(DOMAIN c \ A, c)
    BY DEF Catalog
  <2>7. Grounded(DOMAIN d \ A, d)
    <3>1. \A s \in DOMAIN d \ A : \/ d[s] \in A \cup {Root}
                                  \/ s \in DOMAIN c /\ d[s] = c[s]
                                  \/ d[d[s]] = Root
      BY <2>2, <2>5
    <3> QED
      BY <2>4, <2>6, <3>1, GroundedOver
  <2>8. \A s \in DOMAIN d \ A : d[s] \in DOMAIN d \cup A \cup {Root}
    BY <2>2, <2>5 DEF Catalog
  <2>9. Catalog(A, d)
    BY ONLY <2>4, <2>7, <2>8 DEF Catalog
  <2> QED
    BY <2>2, <2>9 DEF Under
<1> QED
  BY <1>1, <1>2

(***************************************************************************)
(* Writes of the table.                                                    *)
(***************************************************************************)
\* A table p after parents of /sports have been written: q.
Parented(A, p, q) ==
  /\ DOMAIN p \subseteq DOMAIN q /\ None \notin DOMAIN q
  /\ Root \in DOMAIN q => Root \in DOMAIN p /\ q[Root] = p[Root]
  /\ \A c \in DOMAIN q \ A : c \in DOMAIN p /\ (q[c] = p[c] \/ q[c] \in A)

\* The rest stays without cycles.
LEMMA ParentedRest ==
  ASSUME NEW A, NEW p, NEW q, Parented(A, p, q), NoOddTags(p)
  PROVE  NoOddTags(q) /\ (Grounded(DOMAIN p \ A, p) => Grounded(DOMAIN q \ A, q))
<1>1. NoOddTags(q)
  BY DEF NoOddTags, Parented
<1>2. ASSUME Grounded(DOMAIN p \ A, p), NEW S \in SUBSET (DOMAIN q \ A), S # {},
             \A t \in S : q[t] \in S
      PROVE  FALSE
  <2>1. \A t \in S : t \in DOMAIN p \ A /\ q[t] = p[t]
    BY <1>2 DEF Parented
  <2> QED
    BY <1>2, <2>1 DEF Grounded
<1> QED
  BY <1>1, <1>2 DEF Grounded

\* ApplySportsParentTags.
LEMMA ParentsApplied ==
  ASSUME TagAssumption, rows \in RowSets, NoOddTags(tags), NEW e,
         DOMAIN e \cap NoTags = {}, \A t \in DOMAIN e : e[t] \in SportTags
  PROVE  Parented(SportTags, tags, ApplySportsParentTags(e).tags)
<1> DEFINE p    == MergeStaticFamilyAnchors(e)
           t    == seedKnownTag
           here == DOMAIN p \cap DOMAIN t
           h    == [c \in here |-> p[c]]
           q    == ApplySportsParentTags(e).tags
<1>1. q = t \/ q = h ++ t
  BY DEF ApplySportsParentTags
<1>2. /\ SportTags \cap NoTags = {} /\ Sports \in SportTags
      /\ SeedFamilies \subseteq SportTags
  BY RowsAnswered
<1>3. /\ DOMAIN p = DOMAIN e \cup SeedFamilies
      /\ \A c \in DOMAIN p : p[c] \in SportTags
  <2>1. p = e ++ [f \in SeedFamilies |-> Sports]
    BY DEF MergeStaticFamilyAnchors
  <2> HIDE DEF p
  <2> QED
    BY <1>2, <2>1 DEF ++
<1>4. /\ DOMAIN t = DOMAIN tags \cup Known
      /\ \A c \in DOMAIN tags : t[c] = tags[c]
  BY DEF seedKnownTag, ++
<1>5. Known \subseteq SportTags
  BY <1>2 DEF Known
<1>6. DOMAIN p \cap NoTags = {}
  BY <1>2, <1>3
<1> HIDE DEF p, t, q
<1>7. DOMAIN h = here /\ \A c \in here : h[c] \in SportTags
  BY <1>3
<1> HIDE DEF h
<1>8. /\ DOMAIN q = DOMAIN t
      /\ \A c \in DOMAIN t : q[c] = t[c] \/ (c \in here /\ q[c] \in SportTags)
  <2>1. CASE q = t
    BY <2>1
  <2>2. CASE q = h ++ t
    BY <1>7, <2>2 DEF ++
  <2> QED
    BY <1>1, <2>1, <2>2
<1>9. DOMAIN tags \subseteq DOMAIN q /\ None \notin DOMAIN q
  BY <1>2, <1>4, <1>5, <1>8 DEF NoOddTags, NoTags
<1>10. Root \in DOMAIN q => Root \in DOMAIN tags /\ q[Root] = tags[Root]
  BY <1>2, <1>4, <1>5, <1>6, <1>8 DEF NoTags
<1>11. \A c \in DOMAIN q \ SportTags : c \in DOMAIN tags /\ (q[c] = tags[c] \/ q[c] \in SportTags)
  BY <1>4, <1>5, <1>8
<1> QED
  BY <1>9, <1>10, <1>11 DEF Parented, q

\* BuildFromSportsMetadata has such parents,
LEMMA LeagueParents ==
  ASSUME TagAssumption, rows \in RowSets
  PROVE  LET e == BuildFromSportsMetadata(rows)
         IN  DOMAIN e \cap NoTags = {} /\ \A t \in DOMAIN e : e[t] \in SportTags
<1> DEFINE e == BuildFromSportsMetadata(rows)
<1>1. Rows(rows) /\ SportTags \cap NoTags = {} /\ Sports \in SportTags
  BY RowsAnswered
<1>2. /\ DOMAIN e \subseteq SportTags \ {Sports}
      /\ \A t \in DOMAIN e :
           e[t] # Sports => e[t] \in AutoFamilies(rows) \cap DOMAIN e /\ e[e[t]] = Sports
  BY <1>1, EdgesOfSports DEF SportTags
<1> HIDE DEF e
<1>3. DOMAIN e \cap NoTags = {} /\ \A t \in DOMAIN e : e[t] \in SportTags
  BY <1>1, <1>2
<1> QED
  BY <1>3 DEF e

\* and so have the teams.
LEMMA TeamParents ==
  ASSUME TagAssumption, Inputs
  PROVE  LET e == filterEdgesExistingTags(buildTeamParentEdges(rows))
         IN  DOMAIN e \cap NoTags = {} /\ \A t \in DOMAIN e : e[t] \in SportTags
<1> DEFINE b == buildTeamParentEdges(rows)
           e == filterEdgesExistingTags(b)
<1>1. /\ DOMAIN b \subseteq DOMAIN tags \ ({Sports} \cup AutoFamilies(rows) \cup NoTags)
      /\ \A t \in DOMAIN b : b[t] \in SportTags
  BY RowsAnswered, EdgesOfTeams DEF Inputs, SportTags
<1> HIDE DEF b
<1>2. DOMAIN e \subseteq DOMAIN b /\ \A t \in DOMAIN e : e[t] = b[t]
  BY DEF filterEdgesExistingTags
<1> HIDE DEF e
<1>3. DOMAIN e \cap NoTags = {} /\ \A t \in DOMAIN e : e[t] \in SportTags
  BY <1>1, <1>2
<1> QED
  BY <1>3 DEF e, b

\* Any write of the sports sync and its saver.
LEMMA SyncWrites ==
  ASSUME TagAssumption, TagInv,
         \/ ApplyLeagueParents \/ ApplyTeamParents \/ SaverWorks
  PROVE  Parented(SportTags, tags, tags')
<1>1. NoOddTags(tags) /\ Inputs /\ rows \in RowSets /\ Definitions
  BY DEF TagInv, Inputs
<1>2. /\ SportTags \cap NoTags = {}
  BY <1>1, RowsAnswered
<1>3. Parented(SportTags, tags, tags)
  BY <1>1 DEF Parented, NoOddTags
<1>4. Parented(SportTags, tags, ApplySportsParentTags(BuildFromSportsMetadata(rows)).tags)
  BY <1>1, LeagueParents, ParentsApplied
<1>5. CASE ApplyLeagueParents
  <2>1. tags' = ApplySportsParentTags(BuildFromSportsMetadata(rows)).tags
    BY <1>5 DEF ApplyLeagueParents
  <2> QED
    BY ONLY <1>4, <2>1
<1>6. CASE ApplyTeamParents
  <2> DEFINE e == filterEdgesExistingTags(buildTeamParentEdges(rows))
  <2>1. tags' = tags \/ tags' = ApplySportsParentTags(e).tags
    BY <1>6 DEF ApplyTeamParents
  <2>2. DOMAIN e \cap NoTags = {} /\ \A t \in DOMAIN e : e[t] \in SportTags
    BY <1>1, TeamParents
  <2> HIDE DEF e
  <2>3. Parented(SportTags, tags, ApplySportsParentTags(e).tags)
    BY <1>1, <2>2, ParentsApplied
  <2> QED
    BY ONLY <1>3, <2>1, <2>3
<1>7. CASE SaverWorks
  <2>1. PICK r \in queue :
          \/ tags' = tags
          \/ batchInsertTagsDefinitions(r)
          \/ batchInsertLeagueHierarchy(r)
    BY <1>7 DEF SaverWorks, batchInsertLeagues, batchInsertTeams
  <2>2. CASE tags' = tags
    BY ONLY <1>3, <2>2
  <2>3. CASE batchInsertTagsDefinitions(r)
    <3>1. r[2] \in SportTags /\ tags' = tags ++ [t \in {r[2]} |-> None]
      BY <1>1, <2>3 DEF Definitions, batchInsertTagsDefinitions
    <3>2. /\ DOMAIN tags' = DOMAIN tags \cup {r[2]}
          /\ \A t \in DOMAIN tags : tags'[t] = tags[t]
      BY <3>1 DEF ++
    <3>3. r[2] \notin NoTags
      BY <1>2, <3>1
    <3> QED
      BY <1>1, <3>1, <3>2, <3>3 DEF Parented, NoTags, NoOddTags
  <2>4. CASE batchInsertLeagueHierarchy(r)
    <3>1. tags' = ApplySportsParentTags(BuildFromSportsMetadata(rows)).tags
      BY <2>4 DEF batchInsertLeagueHierarchy
    <3> QED
      BY ONLY <1>4, <3>1
  <2> QED
    BY <2>1, <2>2, <2>3, <2>4
<1> QED
  BY <1>5, <1>6, <1>7

\* UpdateTags with a catalog and the root: whatever it does not drop it writes, and the rest
\* of the table it leaves alone.
LEMMA Updated ==
  ASSUME TagAssumption, NoOddTags(tags), NEW c, DOMAIN c \cap NoTags = {},
         Store(c ++ [t \in {Root} |-> None])
  PROVE  /\ DOMAIN tags' = DOMAIN tags \cup DOMAIN c \cup {Root}
         /\ NoOddTags(tags')
         /\ \A t \in DOMAIN c : c[t] # None /\ c[t] \in DOMAIN tags' => tags'[t] = c[t]
         /\ ~dropped' => ~dropped /\ \A t \in DOMAIN c : tags'[t] = c[t]
         /\ \A t \in DOMAIN tags : t \notin DOMAIN c /\ t # Root => tags'[t] = tags[t]
         /\ due' \subseteq due \cup DOMAIN tags'
<1> DEFINE p == c ++ [t \in {Root} |-> None]
           q == sanitizeTagParents(p)
           n == [t \in {u \in DOMAIN q : q[u] # None} |-> q[t]]
<1>1. /\ DOMAIN p = DOMAIN c \cup {Root}
      /\ p[Root] = None /\ \A t \in DOMAIN c : p[t] = c[t]
  BY DEF ++, NoTags
<1>2. /\ tags' = n ++ tags ++ q
      /\ due' = due \cup (pending \cap DOMAIN p)
      /\ dropped' = (dropped \/ \E t \in DOMAIN p \ {Root} : q[t] = None)
  BY DEF Store, UpdateTags
<1> HIDE DEF p
<1>3. /\ DOMAIN q = DOMAIN p
      /\ \A t \in DOMAIN p :
           q[t] = IF p[t] \in DOMAIN p \cup DOMAIN tags THEN p[t] ELSE None
  BY DEF sanitizeTagParents
<1>4. q[Root] = None
  BY <1>1, <1>3
<1> HIDE DEF q
<1>5. DOMAIN n = {t \in DOMAIN q : q[t] # None} /\ \A t \in DOMAIN n : n[t] = q[t]
  OBVIOUS
<1> HIDE DEF n
<1>6. /\ DOMAIN tags' = DOMAIN tags \cup DOMAIN q
      /\ \A t \in DOMAIN q : q[t] # None => tags'[t] = q[t]
      /\ \A t \in DOMAIN tags : (t \in DOMAIN q => q[t] = None) => tags'[t] = tags[t]
      /\ \A t \in DOMAIN q : q[t] = None /\ t \notin DOMAIN tags => tags'[t] = None
  BY <1>2, <1>5 DEF ++
<1>7. DOMAIN tags' = DOMAIN tags \cup DOMAIN c \cup {Root}
  BY <1>1, <1>3, <1>6
<1>8. NoOddTags(tags')
  BY <1>1, <1>3, <1>4, <1>6, <1>7 DEF NoOddTags, NoTags, TagAssumption
<1>9. \A t \in DOMAIN c : c[t] # None /\ c[t] \in DOMAIN tags' => tags'[t] = c[t]
  BY <1>1, <1>3, <1>6, <1>7
<1>10. ASSUME ~dropped' PROVE ~dropped /\ \A t \in DOMAIN c : tags'[t] = c[t]
  <2>1. ~dropped /\ \A t \in DOMAIN p \ {Root} : q[t] # None
    BY <1>2, <1>10
  <2>2. \A t \in DOMAIN c : q[t] = c[t] /\ q[t] # None
    BY <1>1, <1>3, <2>1 DEF NoTags
  <2> QED
    BY <1>1, <1>3, <1>6, <2>1, <2>2
<1>11. \A t \in DOMAIN tags : t \notin DOMAIN c /\ t # Root => tags'[t] = tags[t]
  BY <1>1, <1>3, <1>6
<1>12. due' \subseteq due \cup DOMAIN tags'
  BY <1>1, <1>2, <1>7
<1> QED
  BY <1>7, <1>8, <1>9, <1>10, <1>11, <1>12

(***************************************************************************)
(* The steps.                                                              *)
(***************************************************************************)
\* The empty table.
LEMMA TagInit ==
  ASSUME TagAssumption, Init
  PROVE  TagInv
<1>1. Catalog(SportTags, Empty) /\ DOMAIN Empty = {}
  BY EmptyCatalog
<1>2. tags = Empty /\ edges = Empty /\ cat = Empty /\ topCat = Empty
  BY DEF Init
<1>3. Inputs /\ Definitions /\ Merged /\ SportsParentsWin /\ Written /\ FreshMeansStored
  BY DEF Init, Inputs, Definitions, Merged, SportsParentsWin, Written, FreshMeansStored
<1>4. NoOddTags(Empty) /\ SportsEdges(SportTags, Empty) /\ Grounded(DOMAIN Empty \ SportTags, Empty)
  BY <1>1 DEF NoOddTags, SportsEdges, Grounded
<1> QED
  BY <1>1, <1>2, <1>3, <1>4 DEF TagInv, Rest

\* Only the answers of /sports and /teams stay what they are, whatever happens.
LEMMA InputsStay ==
  ASSUME Next \/ UNCHANGED vars
  PROVE  rows' = rows /\ named' = named
BY DEF Next, vars, input, FetchFails, FetchSports, ApplyLeagueParents, ApplyTeamParents,
       SyncWaited, SaverWorks, StartCycle, Refresh, RefreshFails, Overlay, Write, CycleFails,
       Reset, Restart, Expire, TopLoad, TopWrite

\* What depends on the table, its ghosts and the edges stays with them.
LEMMA TableStays ==
  ASSUME TagInv, rows' = rows, named' = named, tags' = tags, edges' = edges,
         dropped' = dropped, overlaid' = "written" => overlaid = "written",
         (due' \subseteq due /\ (wm' = "fresh" => wm = "fresh")) \/ due' = {}
  PROVE  /\ Inputs' /\ NoOddTags(tags') /\ SportsEdges(SportTags', edges')
         /\ SportsParentsWin' /\ Written' /\ Rest' /\ FreshMeansStored'
<1>1. Inputs' /\ NoOddTags(tags') /\ SportTags' = SportTags
  BY DEF TagInv, Inputs, SportTags
<1>2. SportsEdges(SportTags', edges')
  BY <1>1 DEF TagInv
<1>3. SportsParentsWin'
  BY DEF TagInv, SportsParentsWin
<1>4. Written'
  BY DEF TagInv, Written
<1>5. Rest'
  BY <1>1 DEF TagInv, Rest
<1>6. FreshMeansStored'
  BY DEF TagInv, FreshMeansStored
<1> QED
  BY <1>1, <1>2, <1>3, <1>4, <1>5, <1>6

\* Steps of the sync, and of the cycle before its overlay: of the catalogs they take none
\* but those that LoadedCatalog, WalkedCatalog and MergedCatalog speak of.
LEMMA EarlyStep ==
  ASSUME TagAssumption, TagInv,
         FetchFails \/ FetchSports \/ SyncWaited \/ StartCycle \/ Refresh \/ RefreshFails
         \/ CycleFails \/ Restart \/ Expire \/ TopLoad
  PROVE  TagInv'
<1> USE DEF input, sync, cycle, top, fresh, ghost, count
<1>1. rows' = rows /\ named' = named /\ SportTags' = SportTags
  BY InputsStay DEF Next, SportTags
<1>2. /\ tags' = tags /\ edges' = edges /\ dropped' = dropped /\ overlaid' = overlaid
  BY DEF FetchFails, FetchSports, SyncWaited, StartCycle, Refresh, RefreshFails,
         CycleFails, Restart, Expire, TopLoad
<1>3. (due' \subseteq due /\ (wm' = "fresh" => wm = "fresh")) \/ due' = {}
  BY DEF FetchFails, FetchSports, SyncWaited, StartCycle, Refresh, RefreshFails,
         CycleFails, Restart, Expire, TopLoad, Promise
<1>4. /\ Inputs' /\ NoOddTags(tags') /\ SportsEdges(SportTags', edges')
      /\ SportsParentsWin' /\ Written' /\ Rest' /\ FreshMeansStored'
  BY <1>1, <1>2, <1>3, TableStays
<1>5. Definitions'
  <2>1. \A r \in queue' : r[1] = "tags_definitions" => r \in queue \/ r[2] \in SportTags
    <3>1. CASE FetchSports
      <4>1. PICK defs \in FetchedTagDefs(AllTagIDsFromSports(rows) \ Known) :
              queue' = {<<"leagues">>} \cup {<<"tags_definitions", t>> : t \in defs}
        BY <3>1 DEF FetchSports
      <4>2. defs \subseteq SportTags
        BY <4>1 DEF FetchedTagDefs, SportTags
      <4> QED
        BY <4>1, <4>2
    <3>2. CASE ~FetchSports
      <4>1. queue' \subseteq queue
        BY <3>2 DEF FetchFails, SyncFails, SyncWaited, StartCycle, Refresh, RefreshFails,
                    CycleFails, Restart, Expire, TopLoad
      <4> QED
        BY <4>1
    <3> QED
      BY <3>1, <3>2
  <2> QED
    BY <1>1, <2>1 DEF TagInv, Definitions
<1>6. /\ Inputs /\ NoOddTags(tags) /\ SportsEdges(SportTags, edges)
      /\ Catalog(SportTags, cat) /\ Catalog(SportTags, topCat) /\ Merged
  BY DEF TagInv
<1>7. /\ Catalog(SportTags, Empty) /\ Catalog(SportTags, LoadCategoriesFromDB)
      /\ \A w \in Walks : Catalog(SportTags, w)
  BY <1>6, EmptyCatalog, LoadedCatalog, WalkedCatalog
<1>8. Catalog(SportTags, cat')
  <2>1. CASE Refresh
    <3>1. PICK w \in Walks, e \in SportsParentEdges : cat' = MergeSports(w, e)
      BY <2>1 DEF Refresh
    <3>2. Catalog(SportTags, w) /\ SportsEdges(SportTags, e)
      BY <1>6, <1>7, EdgesOfOverlay
    <3>3. Catalog(SportTags, MergeSports(w, e))
      BY <1>6, <3>2, MergedCatalog
    <3> QED
      BY ONLY <3>1, <3>3
  <2>2. CASE ~Refresh
    <3>1. cat' \in {cat, Empty, LoadCategoriesFromDB}
      BY <2>2 DEF FetchFails, FetchSports, SyncWaited, StartCycle, RefreshFails, CycleFails,
                  Restart, Expire, TopLoad
    <3> QED
      BY ONLY <1>6, <1>7, <3>1
  <2> QED
    BY <2>1, <2>2
<1>9. Catalog(SportTags, topCat')
  <2>1. topCat' \in {topCat, LoadCategoriesFromDB} \cup Walks
    BY DEF FetchFails, FetchSports, SyncWaited, StartCycle, Refresh, RefreshFails, CycleFails,
           Restart, Expire, TopLoad
  <2> QED
    BY ONLY <1>6, <1>7, <2>1
<1>10. Merged'
  <2>1. at' = "write" => at = "write" /\ cat' = cat
    BY DEF FetchFails, SyncFails, Returns, FetchSports, SyncWaited, StartCycle, Refresh,
           RefreshFails, CycleFails, Restart, Expire, TopLoad
  <2> QED
    BY <1>2, <1>6, <2>1 DEF Merged
<1> QED
  BY <1>1, <1>4, <1>5, <1>8, <1>9, <1>10 DEF TagInv

\* Writes of the sync.
LEMMA SyncStep ==
  ASSUME TagAssumption, TagInv, ApplyLeagueParents \/ ApplyTeamParents \/ SaverWorks
  PROVE  TagInv'
<1> USE DEF input, sync, cycle, top, fresh, ghost, count
<1>1. /\ rows' = rows /\ named' = named /\ SportTags' = SportTags
  BY InputsStay DEF Next, SportTags
<1>2. Parented(SportTags, tags, tags')
  BY SyncWrites
<1>3. /\ cat' = cat /\ edges' = edges /\ topCat' = topCat /\ dropped' = dropped
      /\ due' = due /\ wm' = wm /\ pending' = pending
  BY DEF ApplyLeagueParents, ApplyTeamParents, SaverWorks
<1>4. overlaid' = "no" \/ (overlaid' = overlaid /\ tags' = tags)
  BY DEF ApplyLeagueParents, ApplyTeamParents, SaverWorks
<1>5. at' = "write" => at = "write"
  BY DEF ApplyLeagueParents, ApplyTeamParents, SaverWorks, SyncFails, Returns
<1>6. NoOddTags(tags') /\ Rest'
  BY <1>1, <1>2, <1>3, ParentedRest DEF TagInv, Rest
<1>7. Definitions'
  <2>1. \A r \in queue' : r[1] = "tags_definitions" => r \in queue
    <3>1. CASE ApplyTeamParents
      <4>1. queue' = queue \cup {<<"league_hierarchy">>} \cup {<<"teams">> : n \in named}
        BY <3>1 DEF ApplyTeamParents
      <4> QED
        BY <4>1
    <3>2. CASE ApplyLeagueParents
      BY <3>2 DEF ApplyLeagueParents, SyncFails
    <3>3. CASE SaverWorks
      BY <3>3 DEF SaverWorks
    <3> QED
      BY <3>1, <3>2, <3>3
  <2> QED
    BY <1>1, <2>1 DEF TagInv, Definitions
<1>8. Merged'
  BY <1>3, <1>4, <1>5 DEF TagInv, Merged
<1>9. SportsParentsWin' /\ Written'
  BY <1>3, <1>4 DEF TagInv, SportsParentsWin, Written
<1>10. FreshMeansStored'
  BY <1>2, <1>3 DEF TagInv, FreshMeansStored, Parented
<1>11. Inputs' /\ SportsEdges(SportTags', edges') /\ Catalog(SportTags', cat')
       /\ Catalog(SportTags', topCat')
  BY <1>1, <1>3 DEF TagInv, Inputs
<1> QED
  BY <1>6, <1>7, <1>8, <1>9, <1>10, <1>11 DEF TagInv

\* The overlay.
LEMMA OverlayStep ==
  ASSUME TagAssumption, TagInv, Overlay
  PROVE  TagInv'
<1> USE DEF input, sync, cycle, top, fresh, ghost, count
<1>1. /\ rows' = rows /\ named' = named /\ SportTags' = SportTags
  BY InputsStay DEF Next, SportTags
<1>2. /\ tags' = tags /\ queue' = queue /\ topCat' = topCat /\ dropped' = dropped
      /\ wm' = wm /\ due' = due /\ overlaid' = "read"
  BY DEF Overlay
<1>3. PICK e \in SportsParentEdges : edges' = e /\ cat' = MergeSports(cat, e)
  BY DEF Overlay
<1>4. SportsEdges(SportTags, e)
  BY EdgesOfOverlay DEF TagInv
<1>5. /\ Catalog(SportTags, MergeSports(cat, e)) /\ Follows(MergeSports(cat, e), e)
      /\ DOMAIN e \cap DOMAIN tags \subseteq DOMAIN MergeSports(cat, e)
  BY <1>4, MergedCatalog DEF TagInv
<1>6. Merged'
  BY <1>2, <1>3, <1>5 DEF Merged
<1>7. Catalog(SportTags', cat') /\ SportsEdges(SportTags', edges')
  BY <1>1, <1>3, <1>4, <1>5
<1>8. SportsParentsWin' /\ Written'
  BY <1>2 DEF SportsParentsWin, Written
<1>9. Inputs' /\ NoOddTags(tags') /\ Catalog(SportTags', topCat') /\ Definitions'
  BY <1>1, <1>2 DEF TagInv, Inputs, Definitions
<1>10. Rest' /\ FreshMeansStored'
  BY <1>1, <1>2 DEF TagInv, Rest, FreshMeansStored
<1> QED
  BY <1>6, <1>7, <1>8, <1>9, <1>10 DEF TagInv

\* A catalog that is written over a table leaves no cycle in the rest of it.
LEMMA WrittenRest ==
  ASSUME TagAssumption, TagInv, NEW c, Catalog(SportTags, c),
         Store(c ++ [t \in {Root} |-> None])
  PROVE  ~dropped' => Grounded(DOMAIN tags' \ SportTags, tags')
<1> SUFFICES ASSUME ~dropped' PROVE Grounded(DOMAIN tags' \ SportTags, tags')
  OBVIOUS
<1>0. DOMAIN c \cap NoTags = {} /\ NoOddTags(tags)
  BY DEF TagInv, Catalog
<1>1. /\ DOMAIN tags' = DOMAIN tags \cup DOMAIN c \cup {Root}
      /\ NoOddTags(tags')
      /\ ~dropped /\ \A t \in DOMAIN c : tags'[t] = c[t]
      /\ \A t \in DOMAIN tags : t \notin DOMAIN c /\ t # Root => tags'[t] = tags[t]
  BY <1>0, Updated
<1> DEFINE q == tags'
<1> HIDE DEF q
<1>2. Grounded(DOMAIN tags \ SportTags, tags)
  BY <1>1 DEF TagInv, Rest
<1>3. /\ Grounded(DOMAIN c \ SportTags, c)
      /\ \A t \in DOMAIN c \ SportTags : c[t] \in DOMAIN c \cup SportTags \cup {Root}
  BY DEF Catalog
<1>4. None \notin DOMAIN q /\ (Root \in DOMAIN q => q[Root] = None)
  BY <1>1 DEF NoOddTags, q
<1>5. \A t \in DOMAIN q \ (SportTags \cup {Root}) :
        IF t \in DOMAIN c THEN q[t] = c[t] ELSE t \in DOMAIN tags /\ q[t] = tags[t]
  BY <1>1 DEF q
<1>6. Grounded(DOMAIN q \ SportTags, q)
  BY <1>2, <1>3, <1>4, <1>5, GroundedBoth
<1> QED
  BY <1>6 DEF q

\* The write of a cycle of catalog-markets: what the overlay said is in the table.
LEMMA WriteStep ==
  ASSUME TagAssumption, TagInv, Write
  PROVE  TagInv'
<1> USE DEF input, sync, cycle, top, fresh, ghost, count
<1>1. /\ rows' = rows /\ named' = named /\ SportTags' = SportTags
  BY InputsStay DEF Next, SportTags
<1>2. /\ queue' = queue /\ topCat' = topCat /\ edges' = edges /\ wm' = wm /\ at = "write"
      /\ at' = "idle" /\ cat' = Empty
      /\ overlaid' = IF overlaid = "read" THEN "written" ELSE "no"
  BY DEF Write
<1>3. PICK c \in Discovered(cat, edges) : Store(c ++ [t \in {Root} |-> None])
  BY DEF Write
<1>4. /\ Inputs /\ NoOddTags(tags) /\ SportsEdges(SportTags, edges)
      /\ Catalog(SportTags, cat) /\ Merged
  BY DEF TagInv
<1>5. /\ Catalog(SportTags, c) /\ DOMAIN cat \subseteq DOMAIN c
      /\ \A t \in DOMAIN cat : c[t] = cat[t]
      /\ \A t \in DOMAIN c \cap DOMAIN edges : t \notin DOMAIN cat => c[t] = edges[t]
  BY <1>4, DiscoveredCatalog
<1>6. DOMAIN c \cap NoTags = {}
  BY <1>5 DEF Catalog
<1>7. /\ DOMAIN tags' = DOMAIN tags \cup DOMAIN c \cup {Root}
      /\ NoOddTags(tags')
      /\ \A t \in DOMAIN c : c[t] # None /\ c[t] \in DOMAIN tags' => tags'[t] = c[t]
      /\ ~dropped' => ~dropped /\ \A t \in DOMAIN c : tags'[t] = c[t]
      /\ \A t \in DOMAIN tags : t \notin DOMAIN c /\ t # Root => tags'[t] = tags[t]
      /\ due' \subseteq due \cup DOMAIN tags'
  BY <1>3, <1>4, <1>6, Updated
<1>8. /\ Follows(cat, edges)
      /\ overlaid = "read" => DOMAIN edges \cap DOMAIN tags \subseteq DOMAIN cat
  BY <1>2, <1>4 DEF Merged
<1>9. overlaid = "read" =>
        \A t \in DOMAIN edges \cap DOMAIN tags' : t \in DOMAIN c /\ c[t] = edges[t]
  <2> SUFFICES ASSUME overlaid = "read", NEW t \in DOMAIN edges, t \in DOMAIN tags'
               PROVE  t \in DOMAIN c /\ c[t] = edges[t]
    OBVIOUS
  <2>1. t # Root
    BY <1>4 DEF SportsEdges, NoTags
  <2>2. t \in DOMAIN c
    BY <1>5, <1>7, <1>8, <2>1
  <2> QED
    BY <1>5, <1>8, <2>2 DEF Follows
<1>10. SportsParentsWin'
  <2> SUFFICES ASSUME overlaid = "read", NEW t \in DOMAIN edges, t \in DOMAIN tags',
                      edges[t] \in DOMAIN tags'
               PROVE  tags'[t] = edges[t]
    BY <1>2 DEF SportsParentsWin
  <2>1. edges[t] # None
    BY <1>7 DEF NoOddTags
  <2> QED
    BY <1>7, <1>9, <2>1
<1>11. Written'
  <2> SUFFICES ASSUME overlaid = "read", ~dropped' PROVE Follows(tags', edges)
    BY <1>2 DEF Written
  <2>1. \A t \in DOMAIN c : tags'[t] = c[t]
    BY <1>7
  <2>2. \A t \in DOMAIN edges \cap DOMAIN tags' : tags'[t] = edges[t]
    BY <1>9, <2>1
  <2>3. Sports \in DOMAIN tags' /\ tags'[Sports] = Root
    BY <1>5, <1>7, <1>8, <2>1 DEF Follows
  <2> QED
    BY <2>2, <2>3 DEF Follows
<1>12. Rest'
  BY <1>1, <1>3, <1>5, WrittenRest DEF Rest
<1>13. FreshMeansStored'
  BY <1>2, <1>7 DEF TagInv, FreshMeansStored
<1>14. Definitions' /\ Merged'
  BY <1>1, <1>2 DEF TagInv, Definitions, Merged
<1>15. Inputs' /\ SportsEdges(SportTags', edges') /\ Catalog(SportTags', topCat')
  BY <1>1, <1>2 DEF TagInv, Inputs
<1>16. Catalog(SportTags', cat')
  BY <1>2, EmptyCatalog
<1> QED
  BY <1>7, <1>10, <1>11, <1>12, <1>13, <1>14, <1>15, <1>16 DEF TagInv

\* That of top-markets.
LEMMA TopWriteStep ==
  ASSUME TagAssumption, TagInv, TopWrite
  PROVE  TagInv'
<1> USE DEF input, sync, cycle, top, fresh, ghost, count
<1>1. /\ rows' = rows /\ named' = named /\ SportTags' = SportTags
  BY InputsStay DEF Next, SportTags
<1>2. /\ queue' = queue /\ cat' = cat /\ edges' = edges /\ wm' = wm /\ at' = at
      /\ topCat' = Empty
  BY DEF TopWrite
<1>3. Inputs' /\ SportsEdges(SportTags', edges') /\ Catalog(SportTags', topCat')
      /\ Catalog(SportTags', cat') /\ Definitions'
  BY <1>1, <1>2, EmptyCatalog DEF TagInv, Inputs, Definitions
<1>4. CASE UNCHANGED <<tags, pending, due, ghost>>
  <2>1. tags' = tags /\ due' = due /\ overlaid' = overlaid /\ dropped' = dropped
    BY <1>4
  <2>2. NoOddTags(tags') /\ Rest' /\ FreshMeansStored'
    BY <1>1, <1>2, <2>1 DEF TagInv, Rest, FreshMeansStored
  <2>3. Merged' /\ SportsParentsWin' /\ Written'
    BY <1>2, <2>1 DEF TagInv, Merged, SportsParentsWin, Written
  <2> QED
    BY <1>3, <2>2, <2>3 DEF TagInv
<1>5. CASE ~UNCHANGED <<tags, pending, due, ghost>>
  <2>1. overlaid' = "no"
    BY <1>5 DEF TopWrite
  <2>2. PICK c \in Discovered(topCat, Empty) : Store(c ++ [t \in {Root} |-> None])
    BY <1>5 DEF TopWrite
  <2>3. SportsEdges(SportTags, Empty)
    BY EmptyCatalog DEF SportsEdges
  <2>4. Catalog(SportTags, c)
    BY <2>3, DiscoveredCatalog DEF TagInv
  <2>5. DOMAIN c \cap NoTags = {} /\ NoOddTags(tags)
    BY <2>4 DEF Catalog, TagInv
  <2>6. /\ DOMAIN tags' = DOMAIN tags \cup DOMAIN c \cup {Root}
        /\ NoOddTags(tags')
        /\ due' \subseteq due \cup DOMAIN tags'
    BY <2>2, <2>5, Updated
  <2>7. Rest'
    BY <1>1, <2>2, <2>4, WrittenRest DEF Rest
  <2>8. FreshMeansStored'
    BY <1>2, <2>6 DEF TagInv, FreshMeansStored
  <2>9. Merged' /\ SportsParentsWin' /\ Written'
    BY <1>2, <2>1 DEF TagInv, Merged, SportsParentsWin, Written
  <2> QED
    BY <1>3, <2>6, <2>7, <2>8, <2>9 DEF TagInv
<1> QED
  BY <1>4, <1>5

\* A reset.
LEMMA ResetStep ==
  ASSUME TagAssumption, TagInv, Reset
  PROVE  TagInv'
<1> USE DEF input, sync, cycle, top, fresh, ghost, count
<1>1. /\ rows' = rows /\ named' = named /\ SportTags' = SportTags
  BY InputsStay DEF Next, SportTags
<1>2. /\ tags' = Empty /\ DOMAIN Empty = {}
  BY EmptyCatalog DEF Reset
<1>3. /\ queue' = {} /\ cat' = cat /\ edges' = edges /\ topCat' = topCat /\ wm' = "none"
      /\ overlaid' = "no" /\ at' = "sports"
  BY DEF Reset
<1>4. NoOddTags(tags') /\ Rest'
  BY <1>2 DEF NoOddTags, Rest, Grounded
<1>5. Definitions' /\ Merged' /\ SportsParentsWin' /\ Written' /\ FreshMeansStored'
  BY <1>3 DEF Definitions, Merged, SportsParentsWin, Written, FreshMeansStored
<1>6. Inputs' /\ SportsEdges(SportTags', edges') /\ Catalog(SportTags', cat')
      /\ Catalog(SportTags', topCat')
  BY <1>1, <1>3 DEF TagInv, Inputs
<1> QED
  BY <1>4, <1>5, <1>6 DEF TagInv

\* The invariant holds in every state of both programs.
THEOREM TagInvariance ==
  ASSUME TagAssumption
  PROVE  Spec => []TagInv
<1>1. Init => TagInv
  BY TagInit
<1>2. TagInv /\ [Next]_vars => TagInv'
  <2> SUFFICES ASSUME TagInv, [Next]_vars PROVE TagInv'
    OBVIOUS
  <2>1. CASE FetchFails \/ FetchSports \/ SyncWaited \/ StartCycle \/ Refresh \/ RefreshFails
             \/ CycleFails \/ Restart \/ Expire \/ TopLoad
    BY <2>1, EarlyStep
  <2>2. CASE ApplyLeagueParents \/ ApplyTeamParents \/ SaverWorks
    BY <2>2, SyncStep
  <2>3. CASE Overlay
    BY <2>3, OverlayStep
  <2>4. CASE Write
    BY <2>4, WriteStep
  <2>5. CASE TopWrite
    BY <2>5, TopWriteStep
  <2>6. CASE Reset
    BY <2>6, ResetStep
  <2>7. CASE UNCHANGED vars
    BY <2>7 DEF vars, input, sync, cycle, top, fresh, ghost, count, TagInv, Inputs, SportTags,
                Definitions, Merged, SportsParentsWin, Written, Rest, FreshMeansStored
  <2> QED
    BY <2>1, <2>2, <2>3, <2>4, <2>5, <2>6, <2>7 DEF Next
<1> QED
  BY <1>1, <1>2, PTL DEF Spec

\* Whatever /sports answers, its edges are a tree of three levels.
THEOREM SportsEdgesAreATree ==
  ASSUME TagAssumption
  PROVE  Spec => []EdgesAreTree
<1>1. TagInv => EdgesAreTree
  <2> SUFFICES ASSUME TagInv PROVE EdgesAreTree
    OBVIOUS
  <2>1. Rows(rows)
    BY RowsAnswered DEF TagInv, Inputs
  <2> QED
    BY <2>1, EdgesOfSports DEF EdgesAreTree
<1> QED
  BY <1>1, TagInvariance, PTL

\* What a fresh watermark speaks of and a cycle has written is in the table.
THEOREM WatermarkKeepsItsWord ==
  ASSUME TagAssumption
  PROVE  Spec => []FreshMeansStored
<1>1. TagInv => FreshMeansStored
  BY DEF TagInv
<1> QED
  BY <1>1, TagInvariance, PTL

\* After a cycle of catalog-markets the sports hierarchy has the last word.
THEOREM HierarchyWins ==
  ASSUME TagAssumption
  PROVE  Spec => []SportsParentsWin
<1>1. TagInv => SportsParentsWin
  BY DEF TagInv
<1> QED
  BY <1>1, TagInvariance, PTL

\* And the table is a tree: a tag of /sports is under Sports and with it under the root, and
\* the rest has no cycle whatever the two programs, the saver and the sync wrote.
THEOREM NoTagAboveItself ==
  ASSUME TagAssumption
  PROVE  Spec => []StaysATree
<1>1. TagInv => StaysATree
  <2> SUFFICES ASSUME TagInv, overlaid = "written", SportTags \ {Sports} \subseteq DOMAIN edges,
                      ~dropped, NEW S \in SUBSET DOMAIN tags, S # {}, \A t \in S : tags[t] \in S
               PROVE  FALSE
    BY DEF StaysATree, SportTags
  <2>1. /\ Follows(tags, edges) /\ NoOddTags(tags) /\ SportsEdges(SportTags, edges)
        /\ Grounded(DOMAIN tags \ SportTags, tags)
    BY DEF TagInv, Written, Rest
  <2>2. Sports \notin S
    <3>1. Sports \in S => Root \in S
      BY <2>1 DEF Follows
    <3>2. Root \in S => None \in S
      BY <2>1 DEF NoOddTags
    <3> QED
      BY <2>1, <3>1, <3>2 DEF NoOddTags
  <2>3. S \cap SportTags = {}
    <3> SUFFICES ASSUME NEW t \in S \cap SportTags PROVE FALSE
      OBVIOUS
    <3>1. t \in DOMAIN edges /\ tags[t] = edges[t] /\ edges[t] \in S
      BY <2>1, <2>2 DEF Follows
    <3>2. edges[t] # Sports
      BY <2>2, <3>1
    <3>3. edges[t] \in DOMAIN edges /\ edges[edges[t]] = Sports
      BY <2>1, <3>1, <3>2 DEF SportsEdges
    <3>4. tags[edges[t]] = Sports
      BY <2>1, <3>1, <3>3 DEF Follows
    <3> QED
      BY <2>2, <3>1, <3>4
  <2> QED
    BY <2>1, <2>3 DEF Grounded
<1> QED
  BY <1>1, TagInvariance, PTL
=============================================================================
