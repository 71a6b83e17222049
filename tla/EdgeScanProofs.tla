---------------------------- MODULE EdgeScanProofs ----------------------------
(***************************************************************************)
(* Proofs about EdgeScan for every set of conditions, way to list and to   *)
(* group them, sizes of the cuts, and number of scanners and cycles.       *)
(***************************************************************************)
EXTENDS EdgeScan, FiniteSetTheorems, WellFoundedInduction, TLAPS

-----------------------------------------------------------------------------
(* The score is an integer, so that candidates can be compared.            *)

Pick(s) == CHOOSE x \in s : TRUE

\* A set of naturals has a least element.
LEMMA LeastOf ==
  ASSUME NEW N \in SUBSET Nat, N # {}
  PROVE  \E m \in N : \A n \in N : m <= n
<1>1. PICK m \in N : \A n \in N : ~(<<n, m>> \in OpToRel(<, Nat))
  BY NatLessThanWellFounded, WFMin, Zenon
<1>2. ASSUME NEW n \in N PROVE m <= n
  <2>1. n \in Nat /\ m \in Nat
    OBVIOUS
  <2>2. n < m => <<n, m>> \in OpToRel(<, Nat)
    BY <2>1 DEF OpToRel
  <2>3. ~(n < m)
    BY <1>1, <2>2, Zenon
  <2> QED
    BY <2>1, <2>3
<1> QED
  BY <1>2

\* What a fold over the subsets of S must be.
IsFold(m, S, f) ==
  f = [s \in SUBSET S |-> IF s = {} THEN 0 ELSE m[Pick(s)] + f[s \ {Pick(s)}]]

\* A sum over a finite set is an integer: the fold it is defined by exists, since it exists
\* for the subsets of up to n elements for every n, and has integer values only.
LEMMA SumIsWhole ==
  ASSUME NEW S, IsFiniteSet(S), NEW m, \A x \in S : m[x] \in Int
  PROVE  SumOf(m, S) \in Int
<1> DEFINE Eq(f, D) == \A s \in D : f[s] = IF s = {} THEN 0 ELSE m[Pick(s)] + f[s \ {Pick(s)}]
           Below(n) == {s \in SUBSET S : Cardinality(s) <= n}
           Has(n) == \E f \in [Below(n) -> Int] : Eq(f, Below(n))
           K == Cardinality(S)
<1>1. \A s \in SUBSET S : IsFiniteSet(s) /\ Cardinality(s) \in Nat /\ Cardinality(s) <= K
  BY FS_Subset, FS_CardinalityType
<1>2. ASSUME NEW s \in SUBSET S, s # {}
      PROVE  /\ Pick(s) \in s /\ s \ {Pick(s)} \in SUBSET S
             /\ Cardinality(s \ {Pick(s)}) = Cardinality(s) - 1
  <2>1. Pick(s) \in s
    BY <1>2 DEF Pick
  <2> QED
    BY <2>1, <1>1, FS_RemoveElement
<1>3. ASSUME NEW n \in Nat, Has(n) PROVE Has(n + 1)
  <2>0. PICK f \in [Below(n) -> Int] : Eq(f, Below(n))
    BY <1>3
  <2> DEFINE g == [s \in Below(n + 1) |->
                     IF s = {} THEN 0
                     ELSE m[Pick(s)] + f[s \ {Pick(s)}]]
  <2>1. \A s \in Below(n + 1) : s # {} => s \ {Pick(s)} \in Below(n) /\ m[Pick(s)] \in Int
    BY <1>1, <1>2
  <2>2. g \in [Below(n + 1) -> Int]
    BY <2>1
  <2>3. \A s \in Below(n) : g[s] = f[s] /\ s \in Below(n + 1)
    BY <1>1, <2>0
  <2>4. Eq(g, Below(n + 1))
    BY <2>1, <2>3
  <2> QED
    BY <2>2, <2>4
<1>4. Has(0)
  <2> DEFINE g == [s \in Below(0) |-> 0]
  <2>1. \A s \in Below(0) : s = {}
    BY <1>1, FS_EmptySet
  <2>2. g \in [Below(0) -> Int] /\ Eq(g, Below(0))
    BY <2>1
  <2> QED
    BY <2>2
<1>5. Has(K)
  <2> SUFFICES ASSUME {n \in Nat : ~Has(n)} # {} PROVE FALSE
    BY <1>1
  <2> HIDE DEF Has
  <2>1. PICK n \in {k \in Nat : ~Has(k)} : \A k \in {k \in Nat : ~Has(k)} : n <= k
    BY LeastOf
  <2>2. n # 0 /\ n - 1 \in Nat /\ Has(n - 1)
    BY <1>4, <2>1
  <2> QED
    BY <1>3, <2>1, <2>2
<1>6. PICK f \in [SUBSET S -> Int] : Eq(f, SUBSET S)
  <2>1. Below(K) = SUBSET S
    BY <1>1
  <2> QED
    BY <1>5, <2>1
<1>7. IsFold(m, S, f)
  BY <1>6 DEF IsFold
<1> DEFINE iter == CHOOSE g : IsFold(m, S, g)
<1>8. IsFold(m, S, iter)
  BY <1>7
<1>9. SumOf(m, S) = iter[S]
  BY DEF SumOf, MapThenSumSet, MapThenFoldSet, IsFold, Pick
<1>10. iter[S] \in Int
  <2> HIDE DEF iter
  <2> DEFINE Bad == {s \in SUBSET S : iter[s] \notin Int}
  <2> SUFFICES ASSUME Bad # {} PROVE FALSE
    OBVIOUS
  <2>1. {Cardinality(s) : s \in Bad} \in SUBSET Nat /\ {Cardinality(s) : s \in Bad} # {}
    BY <1>1
  <2>2. PICK n \in {Cardinality(s) : s \in Bad} : \A k \in {Cardinality(s) : s \in Bad} : n <= k
    BY <2>1, LeastOf
  <2>3. PICK s \in Bad : \A t \in Bad : Cardinality(s) <= Cardinality(t)
    BY <2>2
  <2>4. s # {}
    BY <1>8 DEF IsFold
  <2>5. s \ {Pick(s)} \in SUBSET S /\ s \ {Pick(s)} \notin Bad
    BY <1>1, <1>2, <2>3, <2>4
  <2>6. iter[s] = m[Pick(s)] + iter[s \ {Pick(s)}]
    BY <1>8, <2>4 DEF IsFold
  <2> QED
    BY <1>2, <2>3, <2>4, <2>5, <2>6
<1> QED
  BY <1>9, <1>10

\* A natural number has a whole root.
LEMMA RootIsWhole ==
  ASSUME NEW n \in Nat
  PROVE  SquareRoot(n) \in Nat
<1> DEFINE Over == {k \in Nat : k * k > n}
<1>1. (n + 1) * (n + 1) > n
  OBVIOUS
<1>2. n + 1 \in Over
  BY <1>1
<1>3. PICK k \in Over : \A j \in Over : k <= j
  BY <1>2, LeastOf
<1>4. k # 0
  BY <1>3
<1>5. k - 1 \in Nat /\ k - 1 \notin Over
  BY <1>3, <1>4
<1>6. (k - 1) * (k - 1) <= n
  BY <1>5
<1>7. k - 1 <= (k - 1) * (k - 1) \/ k = 1
  BY <1>5
<1>8. (k - 1) + 1 = k /\ k * k > n
  BY <1>3
<1> DEFINE IsRoot(r) == r * r <= n /\ (r + 1) * (r + 1) > n
<1>9. k - 1 \in 0..n /\ IsRoot(k - 1)
  BY <1>3, <1>5, <1>6, <1>7, <1>8
<1>10. SquareRoot(n) = CHOOSE r \in 0..n : IsRoot(r)
  BY DEF SquareRoot
<1>11. 0..n \subseteq Nat
  OBVIOUS
<1> HIDE DEF IsRoot
<1> QED
  BY <1>9, <1>10, <1>11

\* The cost of a usable book.
LEMMA CostIsWhole ==
  ASSUME ScoreAssumption, NEW f \in Features, HasBook(f)
  PROVE  CostTable[f] \in Int
<1>1. f.bid \in Nat /\ f.ask \in Nat /\ f.depth \in Nat
  BY ScoreAssumption
<1>2. Mid(f) \in Nat /\ Mid(f) > 0
  BY <1>1 DEF Mid, HasBook
<1>3. HalfSpreadBps(f) \in Int
  BY <1>1, <1>2 DEF HalfSpreadBps
<1>4. LargerOf(1, f.depth * Mid(f)) \in Nat \ {0}
  <2>1. f.depth * Mid(f) \in Nat
    BY <1>1, <1>2
  <2> QED
    BY <2>1 DEF LargerOf
<1>5. SmallerOf(250000, (250000 * 200) \div LargerOf(1, f.depth * Mid(f))) \in Nat
  <2>1. ASSUME NEW d \in Nat \ {0} PROVE (250000 * 200) \div d \in Nat
    OBVIOUS
  <2>2. (250000 * 200) \div LargerOf(1, f.depth * Mid(f)) \in Nat
    BY <1>4, <2>1
  <2> QED
    BY <2>2 DEF SmallerOf
<1>6. ImpactBps(f) \in Int
  <2>1. ASSUME NEW n \in Nat PROVE 50 * SquareRoot(n) \in Int /\ SquareRoot(n) \in Int
    BY RootIsWhole
  <2> QED
    BY <1>5, <2>1 DEF ImpactBps
<1> QED
  BY <1>3, <1>6 DEF CostTable


\* The group's terms.
LEMMA GroupTermsAreWhole ==
  ASSUME NEW mids, IsFiniteSet(DOMAIN mids), \A d \in DOMAIN mids : mids[d] \in Nat,
         NEW c, NEW size \in Nat
  PROVE  /\ Residual(mids) \in Int
         /\ Quote(c, mids, size) \in Int
<1>1. SumOf(mids, DOMAIN mids) \in Int /\ SumOf(mids, Others(c, mids)) \in Int
  <2>1. IsFiniteSet(Others(c, mids)) /\ Others(c, mids) \subseteq DOMAIN mids
    BY FS_Subset DEF Others
  <2>2. \A d \in DOMAIN mids : mids[d] \in Int
    OBVIOUS
  <2> QED
    BY <2>1, <2>2, SumIsWhole
<1>2. \A a, b \in Int : AbsDiff(a, b) \in Int
  BY DEF AbsDiff, LargerOf
<1>3. FairValue(c, mids) \in Int
  BY <1>1 DEF FairValue, LargerOf, SmallerOf
<1>4. Residual(mids) \in Int
  <2>1. AbsDiff(SumOf(mids, DOMAIN mids), 200) \in Int
    BY <1>1, <1>2
  <2> QED
    BY <2>1 DEF Residual
<1>5. Quote(c, mids, size) \in Int
  BY <1>3 DEF Quote, NoQuote
<1> QED
  BY <1>4, <1>5

\* The score of a market, of whatever kind.
LEMMA ScoreIsWhole ==
  ASSUME ScoreAssumption, NEW f \in Features, NEW booked \in BOOLEAN, NEW c,
         NEW mids, IsFiniteSet(DOMAIN mids), \A d \in DOMAIN mids : mids[d] \in Nat,
         NEW size \in Nat
  PROVE  Score(c, f, booked, mids, size) \in Int
<1>1. /\ f.bid \in Nat /\ f.ask \in Nat /\ f.move \in Nat /\ f.bids \in 0..100
      /\ f.hours \in Int /\ f.volume \in Nat
  BY ScoreAssumption
<1>2. Residual(mids) \in Int /\ Quote(c, mids, size) \in Int
  BY GroupTermsAreWhole
<1>3. Opportunity(f, booked, Residual(mids)) \in Int
  <2>1. TimeFamily(f) \in Int
    BY DEF TimeFamily
  <2>2. ImbalanceFamily(f, booked) \in Int
    BY <1>1 DEF ImbalanceFamily, AbsDiff, LargerOf
  <2>3. /\ SmallerOf(500, f.move) \in Int /\ SmallerOf(200, Residual(mids)) \in Int
        /\ SmallerOf(100, f.volume) \in Int
    BY <1>1, <1>2 DEF SmallerOf
  <2> QED
    BY <2>1, <2>2, <2>3 DEF Opportunity
<1>4. ModelEdge(c, f, mids, size) \in Int
  BY <1>1, <1>2 DEF ModelEdge, Mid
<1> QED
  BY <1>3, <1>4, CostIsWhole DEF Score

\* The key that the second cut sorts by.
LEMMA KeyIsWhole ==
  ASSUME ScoreAssumption, ScanAssumption,
         NEW list \in [Conds -> Listings], NEW booked \in SUBSET Conds, NEW c \in Conds
  PROVE  EdgeKey(list, booked, c) \in Int
<1> DEFINE f == [d \in Conds |-> list[d].f]
           mids == GroupMids(GroupOf[c], booked, f)
           size == GroupSize(list, GroupOf[c])
<1>1. f \in [Conds -> Features] /\ list[c].act \in Nat
  BY ScanAssumption
<1>2. IsFiniteSet(DOMAIN mids) /\ DOMAIN mids \subseteq Conds
  BY ScoreAssumption, FS_Subset DEF GroupMids
<1>3. \A d \in DOMAIN mids : mids[d] \in Nat
  <2>1. ASSUME NEW g \in Features PROVE Mid(g) \in Nat
    BY ScoreAssumption DEF Mid
  <2> HIDE DEF f
  <2>2. ASSUME NEW d \in DOMAIN mids PROVE mids[d] = Mid(f[d]) /\ f[d] \in Features
    BY <1>1, <1>2 DEF GroupMids
  <2> QED
    BY <2>1, <2>2
<1>4. size \in Nat
  <2>1. {d \in CondsOf(Pool(list)) : GroupOf[d] = GroupOf[c]} \in SUBSET Conds
    BY DEF CondsOf, Pool
  <2> QED
    BY <2>1, ScoreAssumption, FS_Subset, FS_CardinalityType DEF GroupSize
<1> HIDE DEF f, mids, size
<1>5. Score(c, f[c], c \in booked, mids, size) \in Int
  <2>1. ASSUME NEW b \in BOOLEAN PROVE Score(c, f[c], b, mids, size) \in Int
    BY <1>1, <1>2, <1>3, <1>4, ScoreAssumption, ScoreIsWhole, Zenon
  <2>2. (c \in booked) \in BOOLEAN
    OBVIOUS
  <2> QED
    BY <2>1, <2>2, Zenon
<1>6. EdgeKey(list, booked, c) = 100 * Score(c, f[c], c \in booked, mids, size) + list[c].act
  BY DEF EdgeKey, f, mids, size
<1> QED
  BY <1>1, <1>5, <1>6

-----------------------------------------------------------------------------
(* The cuts.  Candidates are strictly and totally ordered.                 *)

Cand == [cond : Conds, nth : 1..2, key : Int]

\* The numbers a candidate is sorted by.
LEMMA CandNumbers ==
  ASSUME ScoreAssumption, NEW d \in Cand
  PROVE  d.cond \in Int /\ d.nth \in Int /\ d.key \in Int
<1>1. d.cond \in Conds /\ d.nth \in 1..2 /\ d.key \in Int
  BY DEF Cand
<1>2. \A c \in Conds : c \in Int
  BY ScoreAssumption
<1>3. \A n \in 1..2 : n \in Int
  OBVIOUS
<1> QED
  BY ONLY <1>1, <1>2, <1>3

\* Of two candidates one is above the other.
LEMMA OrderIsTotal ==
  ASSUME ScoreAssumption, NEW d \in Cand, NEW e \in Cand
  PROVE  /\ ~Above(d, d) /\ (Above(d, e) => ~Above(e, d))
         /\ d # e => Above(d, e) \/ Above(e, d)
<1>1. /\ d.cond \in Int /\ d.nth \in Int /\ d.key \in Int
      /\ e.cond \in Int /\ e.nth \in Int /\ e.key \in Int
  BY CandNumbers
<1>2. d # e => d.cond # e.cond \/ d.nth # e.nth \/ d.key # e.key
  BY DEF Cand
<1> QED
  BY ONLY <1>1, <1>2 DEF Above

\* What is above a candidate is above those below it.
LEMMA OrderIsTransitive ==
  ASSUME ScoreAssumption, NEW c \in Cand, NEW d \in Cand, NEW e \in Cand,
         Above(c, d), Above(d, e)
  PROVE  Above(c, e)
<1>1. /\ c.cond \in Int /\ c.nth \in Int /\ c.key \in Int
      /\ d.cond \in Int /\ d.nth \in Int /\ d.key \in Int
      /\ e.cond \in Int /\ e.nth \in Int /\ e.key \in Int
  BY CandNumbers
<1> QED
  BY ONLY <1>1, Above(c, d), Above(d, e) DEF Above

\* Ranks lie between 1 and the number of candidates, and follow the order.
LEMMA RankFollowsOrder ==
  ASSUME ScoreAssumption, NEW S \in SUBSET Cand, IsFiniteSet(S), NEW e \in S
  PROVE  /\ Rank(e, S) \in 1..Cardinality(S)
         /\ \A d \in S : Above(d, e) => Rank(d, S) < Rank(e, S)
<1> DEFINE Higher(x) == {d \in S : Above(d, x)}
<1>1. \A x \in S : IsFiniteSet(Higher(x)) /\ Cardinality(Higher(x)) \in Nat
  BY FS_Subset, FS_CardinalityType
<1>2. Cardinality(S) \in Nat
  BY FS_CardinalityType
<1>3. Cardinality(Higher(e)) < Cardinality(S)
  <2>1. e \notin Higher(e)
    BY OrderIsTotal
  <2>2. Higher(e) \in SUBSET S /\ Higher(e) # S
    BY <2>1
  <2> QED
    BY <1>1, <1>2, <2>2, FS_Subset
<1>4. ASSUME NEW d \in S, Above(d, e) PROVE Cardinality(Higher(d)) < Cardinality(Higher(e))
  <2>1. Higher(d) \in SUBSET Higher(e)
    BY <1>4, OrderIsTransitive
  <2>2. d \in Higher(e) /\ d \notin Higher(d)
    BY <1>4, OrderIsTotal
  <2>3. Higher(d) # Higher(e)
    BY <2>2
  <2>4. /\ Cardinality(Higher(d)) <= Cardinality(Higher(e))
        /\ Cardinality(Higher(d)) # Cardinality(Higher(e))
    BY <1>1, <2>1, <2>3, FS_Subset
  <2>5. Cardinality(Higher(d)) \in Nat /\ Cardinality(Higher(e)) \in Nat
    BY <1>1
  <2> QED
    BY <2>4, <2>5
<1>5. \A x \in S : Rank(x, S) = 1 + Cardinality(Higher(x))
  BY DEF Rank
<1> HIDE DEF Higher
<1> QED
  BY <1>1, <1>2, <1>3, <1>4, <1>5

\* The ranks of a finite set are 1..n, one for each candidate.
LEMMA RanksAreWhole ==
  ASSUME ScoreAssumption, NEW S \in SUBSET Cand, IsFiniteSet(S)
  PROVE  /\ {Rank(e, S) : e \in S} = 1..Cardinality(S)
         /\ \A d, e \in S : Rank(d, S) = Rank(e, S) => d = e
<1> DEFINE rank == [e \in S |-> Rank(e, S)]
           n == Cardinality(S)
<1>1. \A d \in S : Rank(d, S) \in 1..n
  BY RankFollowsOrder
<1>2. n \in Nat /\ IsFiniteSet(1..n) /\ Cardinality(1..n) = n
  BY FS_CardinalityType, FS_Interval
<1>3. \A d, e \in S : Rank(d, S) = Rank(e, S) => d = e
  <2> SUFFICES ASSUME NEW d \in S, NEW e \in S, d # e PROVE Rank(d, S) # Rank(e, S)
    OBVIOUS
  <2>1. Rank(d, S) \in Int /\ Rank(e, S) \in Int
    BY <1>1, <1>2
  <2>2. Above(d, e) \/ Above(e, d)
    BY OrderIsTotal
  <2>3. Rank(d, S) < Rank(e, S) \/ Rank(e, S) < Rank(d, S)
    BY <2>2, RankFollowsOrder
  <2> QED
    BY <2>1, <2>3
<1>4. rank \in Injection(S, 1..n)
  BY <1>1, <1>3 DEF Injection, IsInjective
<1>5. rank \in Surjection(S, 1..n)
  BY <1>2, <1>4, FS_Injection
<1>6. \A k \in 1..n : \E e \in S : Rank(e, S) = k
  BY <1>5 DEF Surjection
<1> QED
  BY <1>1, <1>3, <1>6

\* A cut that has room for all takes all.
LEMMA TopTakesAll ==
  ASSUME ScoreAssumption, NEW S \in SUBSET Cand, IsFiniteSet(S), NEW n \in Nat,
         Cardinality(S) <= n
  PROVE  Top(n, S) = S
<1>1. Cardinality(S) \in Nat /\ \A e \in S : Rank(e, S) \in 1..Cardinality(S)
  BY FS_CardinalityType, RankFollowsOrder
<1> QED
  BY <1>1 DEF Top

\* One candidate of every condition stays.
LEMMA DistinctKeepsOne ==
  ASSUME ScoreAssumption, NEW S \in SUBSET Cand, IsFiniteSet(S)
  PROVE  /\ Distinct(S) \subseteq S
         /\ \A d, e \in Distinct(S) : d.cond = e.cond => d = e
         /\ \A e \in S : \E d \in Distinct(S) : d.cond = e.cond
<1>1. Distinct(S) \subseteq S
  BY DEF Distinct
<1>2. \A d, e \in Distinct(S) : d.cond = e.cond => d = e
  BY OrderIsTotal DEF Distinct
<1>3. ASSUME NEW e \in S PROVE \E d \in Distinct(S) : d.cond = e.cond
  <2> DEFINE ranks == {Rank(d, S) : d \in {x \in S : x.cond = e.cond}}
  <2>1. \A d \in S : Rank(d, S) \in Nat
    BY RankFollowsOrder, FS_CardinalityType
  <2> HIDE DEF ranks
  <2>0. ranks \in SUBSET Nat /\ ranks # {}
    BY <2>1 DEF ranks
  <2>2. PICK k \in ranks : \A j \in ranks : k <= j
    BY <2>0, LeastOf
  <2> USE DEF ranks
  <2>3. PICK d \in S : d.cond = e.cond /\ Rank(d, S) = k
    BY <2>2
  <2>4. ASSUME NEW x \in S, x.cond = d.cond, Above(x, d) PROVE FALSE
    <3>1. Rank(x, S) < Rank(d, S)
      BY <2>4, RankFollowsOrder
    <3>2. k <= Rank(x, S)
      BY <2>2, <2>3, <2>4
    <3> QED
      BY <2>1, <2>3, <3>1, <3>2
  <2> QED
    BY <2>3, <2>4 DEF Distinct
<1> QED
  BY <1>1, <1>2, <1>3

\* A cut is a part of what is cut.
LEMMA CutIsPart ==
  ASSUME NEW n, NEW S, NEW sticky
  PROVE  StickyCut(n, S, sticky) \subseteq S
BY DEF StickyCut, Top, Distinct

\* Sticky conditions that fit in are never cut, whatever their keys.
LEMMA StickyOnesStay ==
  ASSUME ScoreAssumption, NEW S \in SUBSET Cand, IsFiniteSet(S), NEW n \in Nat,
         NEW sticky, IsFiniteSet(sticky), Cardinality(sticky) <= n,
         NEW c \in sticky, c \in CondsOf(S)
  PROVE  c \in CondsOf(StickyCut(n, S, sticky))
<1>1. CASE Cardinality(S) <= n
  BY <1>1 DEF StickyCut
<1>2. CASE ~(Cardinality(S) <= n)
  <2> DEFINE kept == {e \in Distinct(S) : e.cond \in sticky}
             condOf == [e \in kept |-> e.cond]
  <2>1. kept \in SUBSET Cand /\ IsFiniteSet(kept)
    BY DistinctKeepsOne, FS_Subset
  <2>2. condOf \in Injection(kept, sticky)
    BY DistinctKeepsOne DEF Injection, IsInjective
  <2>3. Cardinality(kept) <= n
    BY <2>1, <2>2, FS_Injection, FS_CardinalityType
  <2>4. Top(n, kept) = kept
    BY <2>1, <2>3, TopTakesAll
  <2>5. PICK e \in S : e.cond = c
    BY DEF CondsOf
  <2>6. PICK d \in Distinct(S) : d.cond = c
    BY <2>5, DistinctKeepsOne
  <2>7. Top(n, kept) \subseteq StickyCut(n, S, sticky)
    BY <1>2 DEF StickyCut
  <2> QED
    BY <2>4, <2>6, <2>7 DEF CondsOf
<1> QED
  BY <1>1, <1>2

\* There are finitely many listings of finitely many conditions.
LEMMA ListingsAreFinite ==
  ASSUME ScoreAssumption, NEW S \in SUBSET Cand,
         \A d, e \in S : d.cond = e.cond /\ d.nth = e.nth => d = e
  PROVE  IsFiniteSet(S)
<1> DEFINE place == [e \in S |-> <<e.cond, e.nth>>]
<1>1. place \in Injection(S, Conds \X (1..2))
  BY DEF Injection, IsInjective, Cand
<1>2. IsFiniteSet(Conds \X (1..2))
  <2>1. IsFiniteSet(Conds)
    BY ScoreAssumption
  <2>2. IsFiniteSet(1..2)
    <3>1. \A k \in Nat : IsFiniteSet(1..k)
      BY FS_Interval
    <3> QED
      BY <3>1
  <2> QED
    BY <2>1, <2>2, FS_Product
<1> QED
  BY <1>1, <1>2, FS_Injection

-----------------------------------------------------------------------------
(* What a cycle may come to.                                               *)

\* Rows have the ranks 1..n, each once.
IsRun(rows) == {r.rank : r \in rows} = 1..Cardinality(rows)

\* The fetched listings are candidates, one for each condition and event.
LEMMA PoolIsCandidates ==
  ASSUME ScoreAssumption, ScanAssumption, NEW list \in [Conds -> Listings]
  PROVE  /\ Pool(list) \in SUBSET Cand
         /\ \A d, e \in Pool(list) : d.cond = e.cond /\ d.nth = e.nth => d = e
<1>1. ASSUME NEW c \in Conds PROVE list[c].act \in Int
  BY ScanAssumption
<1>2. ASSUME NEW d \in Pool(list)
      PROVE  \E c \in Conds, n \in 1..2 : d = [cond |-> c, nth |-> n, key |-> list[c].act]
  <2>1. PICK e \in Conds \X (1..2) : d = [cond |-> e[1], nth |-> e[2], key |-> list[e[1]].act]
    BY DEF Pool
  <2>2. e[1] \in Conds /\ e[2] \in 1..2
    OBVIOUS
  <2> QED
    BY <2>1, <2>2
<1>3. Pool(list) \in SUBSET Cand
  BY <1>1, <1>2 DEF Cand
<1>4. \A d, e \in Pool(list) : d.cond = e.cond /\ d.nth = e.nth => d = e
  BY <1>2
<1> QED
  BY <1>3, <1>4

\* Nor do the first cut and the survivors of the second stage hold more.
LEMMA StagesAreCandidates ==
  ASSUME ScoreAssumption, ScanAssumption, NEW list \in [Conds -> Listings],
         NEW booked \in SUBSET Conds, NEW sticky
  PROVE  /\ Stage1(list, sticky) \subseteq Passing(list)
         /\ Passing(list) \in SUBSET Cand /\ IsFiniteSet(Passing(list))
         /\ Survivors(list, booked, Stage1(list, sticky)) \in SUBSET Cand
         /\ IsFiniteSet(Survivors(list, booked, Stage1(list, sticky)))
<1>1. Stage1(list, sticky) \subseteq Passing(list)
  BY CutIsPart DEF Stage1, Top
<1>2. /\ Passing(list) \in SUBSET Cand
      /\ \A d, e \in Passing(list) : d.cond = e.cond /\ d.nth = e.nth => d = e
  BY PoolIsCandidates DEF Passing
<1>3. IsFiniteSet(Passing(list))
  BY <1>2, ListingsAreFinite
<1> DEFINE S == Stage1(list, sticky)
           T == Survivors(list, booked, S)
<1>4. /\ S \in SUBSET Cand
      /\ \A d, e \in S : d.cond = e.cond /\ d.nth = e.nth => d = e
  BY <1>1, <1>2
<1> HIDE DEF S
<1>5. \A c \in Conds : EdgeKey(list, booked, c) \in Int
  BY KeyIsWhole
<1>6. ASSUME NEW d \in T
      PROVE  \E e \in S : d = [cond |-> e.cond, nth |-> e.nth,
                               key |-> EdgeKey(list, booked, e.cond)]
  BY <1>4, <1>6 DEF Survivors, Cand
<1>7. T \in SUBSET Cand
  BY <1>4, <1>5, <1>6 DEF Cand
<1>8. \A d, e \in T : d.cond = e.cond /\ d.nth = e.nth => d = e
  BY <1>6
<1>9. IsFiniteSet(T)
  BY <1>7, <1>8, ListingsAreFinite
<1> QED
  BY <1>1, <1>2, <1>3, <1>7, <1>9 DEF S

\* The rows of a board have the ranks 1..n, though a condition may have two.
LEMMA BoardIsRun ==
  ASSUME ScoreAssumption, ScanAssumption, NEW list \in [Conds -> Listings],
         NEW booked \in SUBSET Conds, NEW sticky
  PROVE  LET rows == Board(list, booked, Stage1(list, sticky), sticky)
         IN  IsFiniteSet(rows) /\ IsRun(rows) /\ rows \in SUBSET [cond : Conds, rank : Nat]
<1> DEFINE cut == StickyCut(BoardMaxN, Survivors(list, booked, Stage1(list, sticky)), sticky)
           row == [e \in cut |-> [cond |-> e.cond, rank |-> Rank(e, cut)]]
           rows == Board(list, booked, Stage1(list, sticky), sticky)
<1>1. cut \in SUBSET Cand /\ IsFiniteSet(cut)
  BY StagesAreCandidates, CutIsPart, FS_Subset
<1>2. rows = {[cond |-> e.cond, rank |-> Rank(e, cut)] : e \in cut}
  BY DEF Board
<1> HIDE DEF cut, rows
<1>3. /\ {Rank(e, cut) : e \in cut} = 1..Cardinality(cut)
      /\ \A d, e \in cut : Rank(d, cut) = Rank(e, cut) => d = e
  BY <1>1, RanksAreWhole
<1>4. row \in Surjection(cut, rows) /\ row \in Injection(cut, rows)
  BY <1>2, <1>3 DEF Surjection, Injection, IsInjective
<1>5. IsFiniteSet(rows) /\ Cardinality(rows) = Cardinality(cut)
  BY <1>1, <1>4, FS_Surjection
<1>6. {r.rank : r \in rows} = {Rank(e, cut) : e \in cut}
  <2>1. ASSUME NEW r \in rows PROVE \E e \in cut : r.rank = Rank(e, cut)
    BY <1>2
  <2>2. ASSUME NEW e \in cut PROVE \E r \in rows : r.rank = Rank(e, cut)
    <3>1. [cond |-> e.cond, rank |-> Rank(e, cut)] \in rows
      BY <1>2
    <3> QED
      BY <3>1
  <2> QED
    BY <2>1, <2>2
<1>7. rows \in SUBSET [cond : Conds, rank : Nat]
  <2>1. \A e \in cut : e.cond \in Conds
    BY <1>1 DEF Cand
  <2>2. \A e \in cut : Rank(e, cut) \in Nat
    BY <1>1, RankFollowsOrder, FS_CardinalityType
  <2> QED
    BY <1>2, <2>1, <2>2
<1> QED
  BY <1>3, <1>5, <1>6, <1>7 DEF IsRun, rows

\* A sticky condition that is due is in the rows: neither cut can take it, if the sticky
\* set is no larger than a board.
LEMMA DueIsPublished ==
  ASSUME ScoreAssumption, ScanAssumption, NEW list \in [Conds -> Listings],
         NEW booked \in SUBSET Conds, NEW sticky \in SUBSET Conds,
         Cardinality(sticky) <= BoardMaxN, NEW c \in Due(list, booked, sticky)
  PROVE  c \in {r.cond : r \in Board(list, booked, Stage1(list, sticky), sticky)}
<1> DEFINE S == Stage1(list, sticky)
           T == Survivors(list, booked, S)
           ranked == Top(Stage1MaxN, Passing(list))
           back == {e \in Passing(list) : /\ e.cond \in sticky \ CondsOf(ranked)
                                          /\ e.nth = list[e.cond].times}
<1>1. /\ c \in sticky /\ c \in Conds /\ list[c].times > 0 /\ list[c].act > 0
      /\ ~(c \in booked /\ Extreme(list[c].f))
  BY DEF Due
<1>2. IsFiniteSet(sticky) /\ Cardinality(sticky) \in Nat
  BY ScoreAssumption, FS_Subset, FS_CardinalityType
<1>3. BoardMaxN \in Nat /\ Stage1MaxN \in Nat /\ Cardinality(sticky) <= Stage1MaxN
  BY <1>2, ScanAssumption
<1>4. \E e \in Passing(list) : e.cond = c /\ e.nth = list[c].times
  <2>1. list[c].times \in 1..2
    BY <1>1, ScanAssumption
  <2> DEFINE e == [cond |-> c, nth |-> list[c].times, key |-> list[c].act]
  <2>2. <<c, list[c].times>> \in {d \in Conds \X (1..2) : d[2] <= list[d[1]].times}
    BY <1>1, <2>1
  <2>3. e \in Pool(list)
    BY <2>2 DEF Pool
  <2> QED
    BY <1>1, <2>3 DEF Passing
<1>5. c \in CondsOf(ranked \cup back)
  BY <1>1, <1>4 DEF CondsOf
<1>6. ranked \cup back \in SUBSET Cand /\ IsFiniteSet(ranked \cup back)
  BY StagesAreCandidates, FS_Subset DEF Top
<1>7. c \in CondsOf(S)
  BY <1>1, <1>2, <1>3, <1>5, <1>6, StickyOnesStay DEF Stage1
<1> HIDE DEF S, ranked, back
<1>8. c \in CondsOf(T)
  <2>1. PICK e \in S : e.cond = c /\ e \in Cand
    BY <1>7, StagesAreCandidates DEF CondsOf, S
  <2> DEFINE d == [e EXCEPT !.key = EdgeKey(list, booked, e.cond)]
  <2>2. d.cond = c
    BY <2>1 DEF Cand
  <2>3. d \in T
    BY <1>1, <2>1 DEF Survivors
  <2> QED
    BY <2>2, <2>3 DEF CondsOf
<1>9. T \in SUBSET Cand /\ IsFiniteSet(T)
  BY StagesAreCandidates DEF S
<1>10. c \in CondsOf(StickyCut(BoardMaxN, T, sticky))
  BY <1>1, <1>2, <1>3, <1>8, <1>9, StickyOnesStay
<1>11. PICK e \in StickyCut(BoardMaxN, T, sticky) : e.cond = c
  BY <1>10 DEF CondsOf
<1>12. \E k : [cond |-> c, rank |-> k] \in Board(list, booked, S, sticky)
  BY <1>11 DEF Board
<1> QED
  BY <1>12 DEF S

\* What a cycle may publish: the ranks 1..n, and no sticky condition that is due is lost.
LEMMA BoardsAreRuns ==
  ASSUME ScoreAssumption, ScanAssumption, NEW sticky, NEW b \in Boards(sticky)
  PROVE  /\ b.rows # {} /\ IsFiniteSet(b.rows) /\ IsRun(b.rows)
         /\ b.rows \in SUBSET [cond : Conds, rank : Nat]
         /\ b.lost = {}
<1>1. b \in Outcomes /\ b.sticky = sticky /\ b.rows # {}
  BY DEF Boards
<1>2. PICK st \in SUBSET Conds : \E a \in Built(st) :
         b = [sticky |-> st, rows |-> a.rows, lost |-> a.lost]
  BY <1>1 DEF Outcomes
<1>3. PICK a \in Built(st) : b = [sticky |-> st, rows |-> a.rows, lost |-> a.lost]
  BY <1>2
<1> DEFINE Of(li, bo, S) ==
             IF ~Booked(li, bo, S) THEN [rows |-> {}, lost |-> {}]
             ELSE LET rows == Board(li, bo, S, st)
                  IN  [rows |-> rows,
                       lost |-> IF Cardinality(st) > BoardMaxN THEN {}
                                ELSE Due(li, bo, st) \ {r.cond : r \in rows}]
           Asked(li, S) == UNION {{Of(li, booked, S) : booked \in SUBSET asked} :
                                   asked \in Expanded(li, S)}
<1>4. Built(st) = UNION {Asked(li, Stage1(li, st)) : li \in [Conds -> Listings]}
  BY DEF Built
<1> HIDE DEF Of
<1>5. PICK list \in [Conds -> Listings] : a \in Asked(list, Stage1(list, st))
  BY <1>4
<1>6. PICK asked \in Expanded(list, Stage1(list, st)) :
         a \in {Of(list, booked, Stage1(list, st)) : booked \in SUBSET asked}
  BY <1>5
<1>7. PICK booked \in SUBSET asked : a = Of(list, booked, Stage1(list, st))
  BY <1>6
<1>8. asked \in SUBSET Conds
  <2>1. Stage1(list, st) \subseteq Passing(list) /\ Passing(list) \subseteq Pool(list)
    BY CutIsPart DEF Stage1, Top, Passing
  <2>2. \A e \in Pool(list) : e.cond \in Conds
    BY PoolIsCandidates DEF Cand
  <2>3. CondsOf(Pool(list)) \subseteq Conds /\ CondsOf(Stage1(list, st)) \subseteq Conds
    BY <2>1, <2>2 DEF CondsOf
  <2> QED
    BY <2>3 DEF Expanded
<1>9. booked \in SUBSET Conds
  BY <1>7, <1>8
<1> DEFINE rows == Board(list, booked, Stage1(list, st), st)
<1>10. a.rows = rows /\ a.lost = IF Cardinality(st) > BoardMaxN THEN {}
                                ELSE Due(list, booked, st) \ {r.cond : r \in rows}
  BY <1>1, <1>3, <1>7 DEF Of
<1>11. IsFiniteSet(rows) /\ IsRun(rows) /\ rows \in SUBSET [cond : Conds, rank : Nat]
  BY <1>9, BoardIsRun
<1>12. a.lost = {}
  <2>1. Cardinality(st) \in Nat /\ BoardMaxN \in Nat
    BY ScoreAssumption, ScanAssumption, FS_Subset, FS_CardinalityType
  <2>2. CASE Cardinality(st) <= BoardMaxN
    <3>1. Due(list, booked, st) \subseteq {r.cond : r \in rows}
      BY <1>9, <2>2, DueIsPublished
    <3>2. ~(Cardinality(st) > BoardMaxN)
      BY <2>1, <2>2
    <3> QED
      BY <1>10, <3>1, <3>2
  <2>3. CASE Cardinality(st) > BoardMaxN
    BY <1>10, <2>3
  <2> QED
    BY <2>1, <2>2, <2>3
<1> HIDE DEF rows
<1> QED
  BY <1>1, <1>3, <1>10, <1>11, <1>12

-----------------------------------------------------------------------------
(* The board and the cycles under way.                                     *)

BoardRow == [cond : Conds, rank : Nat, run : Nat]

Cycles ==
  [at : {"idle"}]
  \cup [at : {"scanning"}, run : Nat, sticky : SUBSET Conds]
  \cup [at : {"replacing"}, run : Nat, rows : SUBSET BoardRow, lost : SUBSET Conds]
  \cup [at : {"deleting", "inserting"}, run : Nat, rows : SUBSET BoardRow, gone : SUBSET BoardRow]
  \cup [at : {"recording"}, run : Nat]

Types ==
  /\ board \in SUBSET BoardRow /\ runs \in Nat /\ committed \in SUBSET (1..runs)
  /\ scan \in [Scanners -> Cycles]

Writing  == {"replacing", "deleting", "inserting"}
Deleting == {"deleting", "inserting"}

\* Every cycle has a run of its own, which is new until it is committed.
Numbered ==
  \A s \in Scanners :
    /\ scan[s].at # "idle" => scan[s].run \in 1..runs
    /\ \A o \in Scanners \ {s} :
         scan[s].at # "idle" /\ scan[o].at # "idle" => scan[s].run # scan[o].run
    /\ scan[s].at \in Writing \cup {"scanning"} => scan[s].run \notin committed

\* Rows on the board, and rows about to be deleted, come from runs that are committed, and
\* so do the runs in the history.
FromCommitted ==
  /\ \A b \in board : b.run \in committed
  /\ \A s \in Scanners :
       /\ scan[s].at \in Deleting => \A b \in scan[s].gone : b.run \in committed
       /\ scan[s].at = "recording" => scan[s].run \in committed
  /\ HistoryWasLive

\* What a cycle is about to write is a whole run of its own.
Ready ==
  \A s \in Scanners : scan[s].at \in Writing =>
    /\ scan[s].rows # {} /\ IsRun(scan[s].rows)
    /\ \A r \in scan[s].rows : r.run = scan[s].run

\* What a cycle is about to delete holds all rows of a run that the board has, or none.
DeletesWhole ==
  \A s \in Scanners : scan[s].at \in Deleting =>
    \A b, c \in board : b.run = c.run /\ b \in scan[s].gone => c \in scan[s].gone

IInv == Types /\ Numbered /\ FromCommitted /\ Ready /\ DeletesWhole /\ WholeRuns

\* Rows with a run's number are as many, with the same ranks.
LEMMA StampedIsRun ==
  ASSUME NEW rows \in SUBSET [cond : Conds, rank : Nat], IsFiniteSet(rows), IsRun(rows),
         rows # {}, NEW k \in Nat
  PROVE  LET R == {[cond |-> r.cond, rank |-> r.rank, run |-> k] : r \in rows}
         IN  R # {} /\ IsRun(R) /\ R \in SUBSET BoardRow /\ \A r \in R : r.run = k
<1> DEFINE R == {[cond |-> r.cond, rank |-> r.rank, run |-> k] : r \in rows}
           stamp == [r \in rows |-> [cond |-> r.cond, rank |-> r.rank, run |-> k]]
<1>1. stamp \in Surjection(rows, R)
  BY DEF Surjection
<1>2. stamp \in Injection(rows, R)
  BY DEF Injection, IsInjective
<1>3. Cardinality(R) = Cardinality(rows)
  BY <1>1, <1>2, FS_Surjection
<1>4. {r.rank : r \in R} = {r.rank : r \in rows}
  <2>1. \A r \in R : \E q \in rows : r.rank = q.rank
    OBVIOUS
  <2>2. ASSUME NEW q \in rows PROVE \E r \in R : r.rank = q.rank
    <3>1. [cond |-> q.cond, rank |-> q.rank, run |-> k] \in R
      OBVIOUS
    <3> QED
      BY <3>1
  <2> QED
    BY <2>1, <2>2
<1>5. R # {} /\ R \in SUBSET BoardRow /\ \A r \in R : r.run = k
  <2>1. \A r \in rows : r.cond \in Conds /\ r.rank \in Nat
    OBVIOUS
  <2>2. R \in SUBSET BoardRow
    BY <2>1 DEF BoardRow
  <2>3. R # {}
    OBVIOUS
  <2>4. \A r \in R : r.run = k
    OBVIOUS
  <2> QED
    BY <2>2, <2>3, <2>4
<1> HIDE DEF R
<1>6. IsRun(R)
  BY <1>3, <1>4 DEF IsRun
<1> QED
  BY <1>5, <1>6 DEF R

\* A cycle that ends leaves the rest as it is.
LEMMA AfterEnd ==
  ASSUME IInv, NEW s \in Scanners, Go(s, Idle), UNCHANGED <<board, history, runs, committed>>
  PROVE  IInv'
<1>1. scan' \in [Scanners -> Cycles] /\ scan'[s].at = "idle"
      /\ \A o \in Scanners \ {s} : scan'[o] = scan[o]
  BY DEF IInv, Types, Go, Idle, Cycles
<1>2. Types'
  BY <1>1 DEF IInv, Types
<1>3. Numbered'
  BY <1>1 DEF IInv, Numbered, Writing
<1>4. FromCommitted'
  BY <1>1 DEF IInv, FromCommitted, Deleting, HistoryWasLive
<1>5. Ready'
  BY <1>1 DEF IInv, Ready, Writing
<1>6. DeletesWhole'
  BY <1>1 DEF IInv, DeletesWhole, Deleting
<1>7. WholeRuns'
  BY DEF IInv, WholeRuns
<1> QED
  BY <1>2, <1>3, <1>4, <1>5, <1>6, <1>7 DEF IInv

\* A cycle begins.
LEMMA AfterBegin ==
  ASSUME IInv, NEW s \in Scanners, Begin(s)
  PROVE  IInv'
<1>1. PICK sticky \in {OnBoard, {}} :
        Go(s, [at |-> "scanning", run |-> runs + 1, sticky |-> sticky])
  BY DEF Begin
<1> DEFINE c == [at |-> "scanning", run |-> runs + 1, sticky |-> sticky]
<1>2. sticky \in SUBSET Conds /\ runs \in Nat /\ runs' = runs + 1
      /\ UNCHANGED <<board, history, committed>>
  BY DEF IInv, Types, BoardRow, OnBoard, Begin
<1>3. c \in Cycles
  BY <1>2 DEF Cycles
<1>4. scan' \in [Scanners -> Cycles] /\ scan'[s] = c
      /\ \A o \in Scanners \ {s} : scan'[o] = scan[o]
  BY <1>1, <1>3 DEF IInv, Types, Go
<1>5. c.at = "scanning" /\ c.run = runs + 1
  OBVIOUS
<1> HIDE DEF c
<1>6. Types'
  BY <1>2, <1>4 DEF IInv, Types
<1>7. Numbered'
  BY <1>2, <1>4, <1>5 DEF IInv, Types, Numbered, Writing
<1>8. FromCommitted'
  BY <1>2, <1>4, <1>5 DEF IInv, FromCommitted, Deleting, HistoryWasLive
<1>9. Ready'
  BY <1>4, <1>5 DEF IInv, Ready, Writing
<1>10. DeletesWhole'
  BY <1>2, <1>4, <1>5 DEF IInv, DeletesWhole, Deleting
<1>11. WholeRuns'
  BY <1>2 DEF IInv, WholeRuns
<1> QED
  BY <1>6, <1>7, <1>8, <1>9, <1>10, <1>11 DEF IInv

\* A cycle has its rows.
LEMMA AfterRanks ==
  ASSUME ScoreAssumption, ScanAssumption, IInv, NEW s \in Scanners, Ranks(s)
  PROVE  IInv'
<1>1. scan[s].at = "scanning" /\ UNCHANGED <<board, history, runs, committed>>
  BY DEF Ranks
<1>2. PICK b \in Boards(scan[s].sticky) :
        Go(s, [at |-> "replacing", run |-> scan[s].run, lost |-> b.lost,
               rows |-> {[cond |-> r.cond, rank |-> r.rank, run |-> scan[s].run] :
                           r \in b.rows}])
  BY DEF Ranks
<1> DEFINE R == {[cond |-> r.cond, rank |-> r.rank, run |-> scan[s].run] : r \in b.rows}
           c == [at |-> "replacing", run |-> scan[s].run, lost |-> b.lost, rows |-> R]
<1>3. scan[s].run \in Nat
  BY <1>1 DEF IInv, Types, Cycles
<1>4. R # {} /\ IsRun(R) /\ R \in SUBSET BoardRow /\ \A r \in R : r.run = scan[s].run
  <2>1. /\ b.rows # {} /\ IsFiniteSet(b.rows) /\ IsRun(b.rows)
        /\ b.rows \in SUBSET [cond : Conds, rank : Nat]
    BY BoardsAreRuns
  <2> QED
    BY <1>3, <2>1, StampedIsRun
<1>5. b.lost \in SUBSET Conds
  BY BoardsAreRuns
<1> HIDE DEF R
<1>6. c \in Cycles
  BY <1>3, <1>4, <1>5 DEF Cycles
<1>7. scan' \in [Scanners -> Cycles] /\ scan'[s] = c
      /\ \A o \in Scanners \ {s} : scan'[o] = scan[o]
  BY <1>2, <1>6 DEF IInv, Types, Go, R
<1>8. c.at = "replacing" /\ c.run = scan[s].run /\ c.rows = R
  OBVIOUS
<1> HIDE DEF c
<1>9. Types'
  BY <1>1, <1>7 DEF IInv, Types
<1>10. Numbered'
  BY <1>1, <1>7, <1>8 DEF IInv, Numbered, Writing
<1>11. FromCommitted'
  BY <1>1, <1>7, <1>8 DEF IInv, FromCommitted, Deleting, HistoryWasLive
<1>12. Ready'
  BY <1>4, <1>7, <1>8 DEF IInv, Ready, Writing
<1>13. DeletesWhole'
  BY <1>1, <1>7, <1>8 DEF IInv, DeletesWhole, Deleting
<1>14. WholeRuns'
  BY <1>1 DEF IInv, WholeRuns
<1> QED
  BY <1>9, <1>10, <1>11, <1>12, <1>13, <1>14 DEF IInv

\* DELETE has seen the board, or has got its rows.
LEMMA AfterDelete ==
  ASSUME IInv, NEW s \in Scanners, Delete(s) \/ Deleted(s)
  PROVE  IInv'
<1>1. scan[s].at \in {"replacing", "deleting"} /\ UNCHANGED <<board, history, runs, committed>>
  BY DEF Delete, Deleted
<1>2. scan[s].run \in Nat /\ scan[s].rows \in SUBSET BoardRow
  BY <1>1 DEF IInv, Types, Cycles
<1>3. PICK c \in Cycles :
        /\ Go(s, c) /\ c.at \in Deleting /\ c.run = scan[s].run /\ c.rows = scan[s].rows
        /\ \A b \in c.gone : b \in board
        /\ c.gone = board \/ (scan[s].at = "deleting" /\ c.gone = scan[s].gone \cap board)
  <2>1. CASE Delete(s)
    <3> DEFINE c == [at |-> "deleting", run |-> scan[s].run, rows |-> scan[s].rows,
                     gone |-> board]
    <3>1. c \in Cycles
      BY <1>2 DEF IInv, Types, Cycles
    <3> QED
      BY <2>1, <3>1 DEF Delete, Deleting
  <2>2. CASE Deleted(s)
    <3>1. scan[s].at = "deleting"
      BY <2>2 DEF Deleted
    <3>2. scan[s] \in [at : {"deleting", "inserting"}, run : Nat, rows : SUBSET BoardRow,
                       gone : SUBSET BoardRow]
      BY <3>1 DEF IInv, Types, Cycles
    <3> DEFINE c == [scan[s] EXCEPT !.at = "inserting", !.gone = @ \cap board]
    <3>3. /\ c \in [at : {"deleting", "inserting"}, run : Nat, rows : SUBSET BoardRow,
                    gone : SUBSET BoardRow]
          /\ c.at = "inserting" /\ c.run = scan[s].run /\ c.rows = scan[s].rows
          /\ c.gone = scan[s].gone \cap board
      BY <3>2
    <3>4. Go(s, c)
      BY <2>2 DEF Deleted
    <3> HIDE DEF c
    <3>5. c \in Cycles
      BY <3>3 DEF Cycles
    <3> QED
      BY <3>1, <3>3, <3>4, <3>5 DEF Deleting
  <2> QED
    BY <2>1, <2>2
<1>4. scan' \in [Scanners -> Cycles] /\ scan'[s] = c
      /\ \A o \in Scanners \ {s} : scan'[o] = scan[o]
  BY <1>3 DEF IInv, Types, Go
<1>5. Types'
  BY <1>1, <1>4 DEF IInv, Types
<1>6. Numbered'
  BY <1>1, <1>3, <1>4 DEF IInv, Numbered, Writing, Deleting
<1>7. FromCommitted'
  BY <1>1, <1>3, <1>4 DEF IInv, FromCommitted, Deleting, HistoryWasLive
<1>8. Ready'
  BY <1>1, <1>3, <1>4 DEF IInv, Ready, Writing, Deleting
<1>9. DeletesWhole'
  BY <1>1, <1>3, <1>4 DEF IInv, DeletesWhole, Deleting
<1>10. WholeRuns'
  BY <1>1 DEF IInv, WholeRuns
<1> QED
  BY <1>5, <1>6, <1>7, <1>8, <1>9, <1>10 DEF IInv

\* The rows of each run on the new board are those it had, none, or the cycle's own.
LEMMA CommitIsWhole ==
  ASSUME IInv, NEW s \in Scanners, Commit(s), NEW r \in board'
  PROVE  /\ r.run = scan[s].run => {b \in board' : b.run = r.run} = scan[s].rows
         /\ r.run # scan[s].run =>
              r \in board /\ {b \in board' : b.run = r.run} = {b \in board : b.run = r.run}
<1>1. scan[s].at = "inserting" /\ board' = (board \ scan[s].gone) \cup scan[s].rows
  BY DEF Commit
<1>2. scan[s].run \notin committed /\ \A b \in board : b.run \in committed
  BY <1>1 DEF IInv, Numbered, FromCommitted, Writing
<1>3. \A q \in scan[s].rows : q.run = scan[s].run
  BY <1>1 DEF IInv, Ready, Writing
<1>4. \A b, c \in board : b.run = c.run /\ b \in scan[s].gone => c \in scan[s].gone
  BY <1>1 DEF IInv, DeletesWhole, Deleting
<1> QED
  BY <1>1, <1>2, <1>3, <1>4

\* A board is committed.
LEMMA AfterCommit ==
  ASSUME IInv, NEW s \in Scanners, Commit(s)
  PROVE  IInv'
<1>1. /\ scan[s].at = "inserting" /\ ~Clash(s) /\ UNCHANGED <<history, runs>>
      /\ board' = (board \ scan[s].gone) \cup scan[s].rows
      /\ committed' = committed \cup {scan[s].run}
  BY DEF Commit
<1>2. scan[s].run \in 1..runs /\ scan[s].rows \in SUBSET BoardRow /\ scan[s].run \in Nat
  BY <1>1 DEF IInv, Types, Numbered, Cycles
<1>3. PICK c \in Cycles : /\ Go(s, c) /\ c.at \in {"idle", "recording"}
                          /\ c.at = "recording" => c.run = scan[s].run
  BY <1>2 DEF Commit, Cycles, Idle
<1>4. scan' \in [Scanners -> Cycles] /\ scan'[s] = c
      /\ \A o \in Scanners \ {s} : scan'[o] = scan[o]
  BY <1>3 DEF IInv, Types, Go
<1>5. Types'
  <2>1. committed' \in SUBSET (1..runs)
    BY <1>1, <1>2 DEF IInv, Types
  <2>2. board' \in SUBSET BoardRow
    BY <1>1, <1>2 DEF IInv, Types
  <2> QED
    BY <1>1, <1>4, <2>1, <2>2 DEF IInv, Types
<1>6. Numbered'
  BY <1>1, <1>2, <1>3, <1>4 DEF IInv, Numbered, Writing
<1>7. FromCommitted'
  <2>1. \A b \in board' : b.run \in committed'
    BY <1>1 DEF IInv, FromCommitted, Ready, Writing
  <2> QED
    BY <1>1, <1>3, <1>4, <2>1 DEF IInv, FromCommitted, Deleting, HistoryWasLive
<1>8. Ready'
  BY <1>3, <1>4 DEF IInv, Ready, Writing
<1>9. DeletesWhole'
  <2> SUFFICES ASSUME NEW o \in Scanners, scan'[o].at \in Deleting,
                      NEW b \in board', NEW d \in board', b.run = d.run, b \in scan'[o].gone
               PROVE  d \in scan'[o].gone
    BY DEF DeletesWhole
  <2>1. o # s /\ scan'[o] = scan[o]
    BY <1>3, <1>4 DEF Deleting
  <2>2. b.run # scan[s].run
    BY <1>1, <2>1 DEF IInv, Numbered, FromCommitted, Writing
  <2>3. b \in board /\ d \in board
    BY <2>2, CommitIsWhole
  <2> QED
    BY <2>1, <2>3 DEF IInv, DeletesWhole
<1>10. WholeRuns'
  <2>1. ASSUME NEW r \in board'
        PROVE  {q.rank : q \in {b \in board' : b.run = r.run}} =
                 1..Cardinality({b \in board' : b.run = r.run})
    <3>1. CASE r.run = scan[s].run
      <4>1. {b \in board' : b.run = r.run} = scan[s].rows
        BY <3>1, CommitIsWhole
      <4>2. {q.rank : q \in scan[s].rows} = 1..Cardinality(scan[s].rows)
        BY <1>1 DEF IInv, Ready, Writing, IsRun
      <4> QED
        BY ONLY <4>1, <4>2
    <3>2. CASE r.run # scan[s].run
      <4>1. r \in board /\ {b \in board' : b.run = r.run} = {b \in board : b.run = r.run}
        BY <3>2, CommitIsWhole
      <4>2. {q.rank : q \in {b \in board : b.run = r.run}} =
              1..Cardinality({b \in board : b.run = r.run})
        BY <4>1 DEF IInv, WholeRuns
      <4> QED
        BY ONLY <4>1, <4>2
    <3> QED
      BY <3>1, <3>2
  <2>2. \A r, q \in board' : r.cond = q.cond => r = q
    BY <1>1 DEF IInv, WholeRuns, Clash
  <2> QED
    BY <2>1, <2>2 DEF WholeRuns
<1> QED
  BY <1>5, <1>6, <1>7, <1>8, <1>9, <1>10 DEF IInv

\* The history is written, or not.
LEMMA AfterRecord ==
  ASSUME IInv, NEW s \in Scanners, Record(s)
  PROVE  IInv'
<1>1. /\ scan[s].at = "recording" /\ Go(s, Idle) /\ UNCHANGED <<board, runs, committed>>
      /\ history' \in {history, history \cup {scan[s].run}}
  BY DEF Record
<1>2. scan' \in [Scanners -> Cycles] /\ scan'[s].at = "idle"
      /\ \A o \in Scanners \ {s} : scan'[o] = scan[o]
  BY <1>1 DEF IInv, Types, Go, Idle, Cycles
<1>3. Types'
  BY <1>1, <1>2 DEF IInv, Types
<1>4. Numbered'
  BY <1>1, <1>2 DEF IInv, Numbered, Writing
<1>5. FromCommitted'
  BY <1>1, <1>2 DEF IInv, FromCommitted, Deleting, HistoryWasLive
<1>6. Ready'
  BY <1>1, <1>2 DEF IInv, Ready, Writing
<1>7. DeletesWhole'
  BY <1>1, <1>2 DEF IInv, DeletesWhole, Deleting
<1>8. WholeRuns'
  BY <1>1 DEF IInv, WholeRuns
<1> QED
  BY <1>3, <1>4, <1>5, <1>6, <1>7, <1>8 DEF IInv

-----------------------------------------------------------------------------
\* Types, runs and what every cycle is about to write and delete, in every reachable state.
THEOREM Invariance ==
  ASSUME ScoreAssumption, ScanAssumption
  PROVE  Spec => []IInv
<1>1. Init => IInv
  <2> SUFFICES ASSUME Init PROVE IInv
    OBVIOUS
  <2>1. Types
    BY DEF Init, Types, Idle, Cycles
  <2>2. \A s \in Scanners : scan[s].at = "idle"
    BY DEF Init, Idle
  <2> QED
    BY <2>1, <2>2 DEF Init, IInv, Numbered, FromCommitted, Ready, DeletesWhole, WholeRuns,
                      Writing, Deleting, HistoryWasLive
<1>2. IInv /\ [Next]_vars => IInv'
  <2> SUFFICES ASSUME IInv, [Next]_vars PROVE IInv'
    OBVIOUS
  <2>1. CASE UNCHANGED vars
    BY <2>1 DEF vars, IInv, Types, Numbered, FromCommitted, Ready, DeletesWhole, WholeRuns,
                HistoryWasLive
  <2>2. ASSUME NEW s \in Scanners, Begin(s) \/ Step(s) \/ Crash(s) PROVE IInv'
    <3>1. CASE Begin(s)
      BY <3>1, AfterBegin
    <3>2. CASE KeysetFails(s) \/ KeepsPrior(s) \/ WriteFails(s) \/ Crash(s)
      BY <3>2, AfterEnd DEF KeysetFails, KeepsPrior, WriteFails, Crash
    <3>3. CASE Ranks(s)
      BY <3>3, AfterRanks
    <3>4. CASE Delete(s) \/ Deleted(s)
      BY <3>4, AfterDelete
    <3>5. CASE Commit(s)
      BY <3>5, AfterCommit
    <3>6. CASE Record(s)
      BY <3>6, AfterRecord
    <3> QED
      BY <2>2, <3>1, <3>2, <3>3, <3>4, <3>5, <3>6 DEF Step
  <2> QED
    BY <2>1, <2>2 DEF Next
<1> QED
  BY <1>1, <1>2, PTL DEF Spec

\* A reader never sees part of a run or a condition twice, however many scanners replace the
\* board at once and wherever they stop.
THEOREM ReadersSeeWholeRuns ==
  ASSUME ScoreAssumption, ScanAssumption
  PROVE  Spec => []WholeRuns
<1>1. IInv => WholeRuns
  BY DEF IInv
<1> QED
  BY <1>1, Invariance, PTL

\* Every run in the history was on the board.
THEOREM HistoryIsOfLiveRuns ==
  ASSUME ScoreAssumption, ScanAssumption
  PROVE  Spec => []HistoryWasLive
<1>1. IInv => HistoryWasLive
  BY DEF IInv, FromCommitted
<1> QED
  BY <1>1, Invariance, PTL

\* A board once there is never emptied: what replaces it has rows.
THEOREM BoardStays ==
  ASSUME ScoreAssumption, ScanAssumption
  PROVE  Spec => NeverEmptied
<1>1. IInv /\ [Next]_vars => [board' = {} => board = {}]_vars
  <2> SUFFICES ASSUME IInv, Next, board' = {} PROVE board = {}
    OBVIOUS
  <2>1. PICK s \in Scanners : Begin(s) \/ Step(s) \/ Crash(s)
    BY DEF Next
  <2>2. CASE Commit(s)
    BY <2>2 DEF Commit, IInv, Ready, Writing
  <2>3. CASE ~Commit(s)
    BY <2>1, <2>3 DEF Begin, Step, Crash, KeysetFails, KeepsPrior, Ranks, Delete, Deleted,
                      WriteFails, Record
  <2> QED
    BY <2>2, <2>3
<1> QED
  BY <1>1, Invariance, PTL DEF Spec, NeverEmptied

\* Retention, for every size of the cuts: a cycle about to publish has lost no sticky
\* condition that is due.
THEOREM NoStickyOneIsLost ==
  ASSUME ScoreAssumption, ScanAssumption
  PROVE  Spec => StickyKept
<1> DEFINE Kept == \A s \in Scanners :
             scan[s].at = "scanning" /\ scan'[s].at = "replacing" => scan'[s].lost = {}
<1>1. IInv /\ [Next]_vars => [Kept]_vars
  <2> SUFFICES ASSUME IInv, Next, NEW o \in Scanners,
                      scan[o].at = "scanning", scan'[o].at = "replacing"
               PROVE  scan'[o].lost = {}
    OBVIOUS
  <2>1. PICK s \in Scanners : Begin(s) \/ Step(s) \/ Crash(s)
    BY DEF Next
  <2>2. \E c : scan' = [scan EXCEPT ![s] = c]
    BY <2>1 DEF Begin, Step, Crash, KeysetFails, KeepsPrior, Ranks, Delete, Deleted, Commit,
                WriteFails, Record, Go
  <2>3. o = s
    BY <2>2 DEF IInv, Types
  <2>4. Ranks(s)
    BY <2>1, <2>3 DEF IInv, Types, Begin, Step, Crash, KeysetFails, KeepsPrior, Delete, Deleted,
                      Commit, WriteFails, Record, Go, Idle
  <2>5. PICK b \in Boards(scan[s].sticky) : scan'[s].lost = b.lost
    BY <2>4 DEF Ranks, Go, IInv, Types
  <2> QED
    BY <2>3, <2>5, BoardsAreRuns
<1> QED
  BY <1>1, Invariance, PTL DEF Spec, StickyKept
=============================================================================
