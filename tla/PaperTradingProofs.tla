-------------------------- MODULE PaperTradingProofs --------------------------
(***************************************************************************)
(* Proofs about PaperTrading: the simulation, for every set of markets,    *)
(* budget, limit, window, horizon and profit; the resolutions, for every   *)
(* set of markets and messages; the signals, for every board, book,        *)
(* cooldown and delta.                                                     *)
(***************************************************************************)
EXTENDS PaperTrading, FiniteSetTheorems, WellFoundedInduction, TLAPS

(***************************************************************************)
(* Sums over finite sets: what Total is.                                   *)
(***************************************************************************)
\* The element that a sum begins with.
Pick(s) == CHOOSE x \in s : TRUE

\* A set of naturals has a least element.
LEMMA LeastOf ==
  ASSUME NEW N \in SUBSET Nat, N # {}
  PROVE  \E m \in N : \A n \in N : m <= n
<1>1. PICK m \in N : \A n \in N : ~(<<n, m>> \in OpToRel(<, Nat))
  BY NatLessThanWellFounded, WFMin, Zenon
<1>2. ASSUME NEW n \in N PROVE m <= n
  <2>1. n \in Nat /\ m \in Nat
    OBVIOUS
  <2>2. n < m => <<n, m>> \in OpToRel(<, Nat)
    BY <2>1 DEF OpToRel
  <2>3. ~(n < m)
    BY <1>1, <2>2, Zenon
  <2> QED
    BY <2>1, <2>3
<1> QED
  BY <1>2

\* Of some subsets of a finite set one is as small as any.
LEMMA SmallestOf ==
  ASSUME NEW S, IsFiniteSet(S), NEW B \in SUBSET (SUBSET S), B # {}
  PROVE  \E s \in B : \A t \in B : Cardinality(s) <= Cardinality(t)
<1>1. \A s \in B : Cardinality(s) \in Nat
  BY FS_Subset, FS_CardinalityType
<1>2. {Cardinality(s) : s \in B} \in SUBSET Nat /\ {Cardinality(s) : s \in B} # {}
  BY <1>1
<1>3. PICK n \in {Cardinality(s) : s \in B} : \A k \in {Cardinality(s) : s \in B} : n <= k
  BY <1>2, LeastOf
<1> QED
  BY <1>3

\* Removing an element makes a finite set smaller.
LEMMA Smaller ==
  ASSUME NEW S, IsFiniteSet(S), NEW s \in SUBSET S, NEW x \in s
  PROVE  /\ s \ {x} \in SUBSET S
         /\ Cardinality(s) \in Nat /\ Cardinality(s \ {x}) \in Nat
         /\ Cardinality(s \ {x}) < Cardinality(s)
<1>1. IsFiniteSet(s)
  BY FS_Subset
<1>2. IsFiniteSet(s \ {x}) /\ Cardinality(s \ {x}) = Cardinality(s) - 1
  BY <1>1, FS_RemoveElement
<1> QED
  BY <1>1, <1>2, FS_CardinalityType

\* The element picked is one of the set.
LEMMA PickedIn == ASSUME NEW s, s # {} PROVE Pick(s) \in s
  BY DEF Pick

\* g gives the sum of f over each subset of S, summed up one element after the other.
IsFold(f, S, g) ==
  g = [s \in SUBSET S |-> IF s = {} THEN 0 ELSE f[Pick(s)] + g[s \ {Pick(s)}]]

\* Over a finite set there is such a g.
LEMMA FoldExists ==
  ASSUME NEW S, IsFiniteSet(S), NEW f, \A x \in S : f[x] \in Int
  PROVE  \E g : IsFold(f, S, g)
<1> DEFINE Sums(g, D) == \A s \in D : g[s] = IF s = {} THEN 0 ELSE f[Pick(s)] + g[s \ {Pick(s)}]
           Below(n) == {s \in SUBSET S : Cardinality(s) <= n}
           Has(n) == \E g \in [Below(n) -> Int] : Sums(g, Below(n))
           K == Cardinality(S)
<1>1. \A s \in SUBSET S : IsFiniteSet(s) /\ Cardinality(s) \in Nat /\ Cardinality(s) <= K
  BY FS_Subset, FS_CardinalityType
<1>2. ASSUME NEW s \in SUBSET S, s # {}
      PROVE  /\ Pick(s) \in s /\ s \ {Pick(s)} \in SUBSET S
             /\ Cardinality(s \ {Pick(s)}) < Cardinality(s)
  BY <1>2, PickedIn, Smaller
<1>3. ASSUME NEW n \in Nat, Has(n) PROVE Has(n + 1)
  <2>0. PICK g \in [Below(n) -> Int] : Sums(g, Below(n))
    BY <1>3
  <2> DEFINE h == [s \in Below(n + 1) |->
                     IF s = {} THEN 0 ELSE f[Pick(s)] + g[s \ {Pick(s)}]]
  <2>1. \A s \in Below(n + 1) : s # {} => s \ {Pick(s)} \in Below(n) /\ f[Pick(s)] \in Int
    BY <1>1, <1>2
  <2>2. h \in [Below(n + 1) -> Int]
    BY <2>1
  <2>3. \A s \in Below(n) : h[s] = g[s] /\ s \in Below(n + 1)
    BY <1>1, <2>0
  <2>4. Sums(h, Below(n + 1))
    BY <2>1, <2>3
  <2> QED
    BY <2>2, <2>4
<1>4. Has(0)
  <2> DEFINE h == [s \in Below(0) |-> 0]
  <2>1. \A s \in Below(0) : s = {}
    BY <1>1, FS_EmptySet
  <2>2. h \in [Below(0) -> Int] /\ Sums(h, Below(0))
    BY <2>1
  <2> QED
    BY <2>2
<1>5. Has(K)
  <2> SUFFICES ASSUME {n \in Nat : ~Has(n)} # {} PROVE FALSE
    BY <1>1
  <2> HIDE DEF Has
  <2>1. PICK n \in {k \in Nat : ~Has(k)} : \A k \in {k \in Nat : ~Has(k)} : n <= k
    BY LeastOf
  <2>2. n # 0 /\ n - 1 \in Nat /\ Has(n - 1)
    BY <1>4, <2>1
  <2> QED
    BY <1>3, <2>1, <2>2
<1>6. PICK g \in [SUBSET S -> Int] : Sums(g, SUBSET S)
  <2>1. Below(K) = SUBSET S
    BY <1>1
  <2> QED
    BY <1>5, <2>1
<1> QED
  BY <1>6 DEF IsFold

\* What holds of a fold, and that the order does not matter.
LEMMA FoldIs ==
  ASSUME NEW S, IsFiniteSet(S), NEW f, \A x \in S : f[x] \in Int, NEW g, IsFold(f, S, g)
  PROVE  /\ g[{}] = 0
         /\ \A s \in SUBSET S : g[s] \in Int
         /\ \A s \in SUBSET S : \A x \in s : g[s] = f[x] + g[s \ {x}]
<1>1. \A s \in SUBSET S : g[s] = IF s = {} THEN 0 ELSE f[Pick(s)] + g[s \ {Pick(s)}]
  BY DEF IsFold
<1>2. \A s \in SUBSET S : g[s] \in Int
  <2> DEFINE Bad == {s \in SUBSET S : g[s] \notin Int}
  <2> SUFFICES ASSUME Bad # {} PROVE FALSE
    OBVIOUS
  <2>1. PICK s \in Bad : \A t \in Bad : Cardinality(s) <= Cardinality(t)
    BY SmallestOf
  <2>2. s \in SUBSET S /\ g[s] \notin Int
    BY <2>1
  <2>3. s # {}
    BY <1>1, <2>2
  <2>4. Pick(s) \in s /\ g[s] = f[Pick(s)] + g[s \ {Pick(s)}]
    BY <1>1, <2>2, <2>3, PickedIn
  <2>5. s \ {Pick(s)} \in SUBSET S /\ ~(Cardinality(s) <= Cardinality(s \ {Pick(s)}))
    BY <2>2, <2>4, Smaller
  <2>6. g[s \ {Pick(s)}] \in Int
    BY <2>1, <2>5
  <2>7. f[Pick(s)] \in Int
    BY <2>2, <2>4
  <2> QED
    BY ONLY <2>2, <2>4, <2>6, <2>7
<1>3. \A s \in SUBSET S : \A x \in s : g[s] = f[x] + g[s \ {x}]
  <2> DEFINE Bad == {s \in SUBSET S : \E x \in s : g[s] # f[x] + g[s \ {x}]}
  <2> SUFFICES ASSUME Bad # {} PROVE FALSE
    OBVIOUS
  <2>1. PICK s \in Bad : \A t \in Bad : Cardinality(s) <= Cardinality(t)
    BY SmallestOf
  <2>2. PICK x \in s : g[s] # f[x] + g[s \ {x}]
    BY <2>1
  <2> DEFINE p == Pick(s)
  <2>3. s \in SUBSET S /\ p \in s
    BY <2>1, <2>2, PickedIn
  <2> HIDE DEF p
  <2>4. g[s] = f[p] + g[s \ {p}]
    BY <1>1, <2>3 DEF p
  <2>5. p # x
    BY <2>2, <2>4
  <2>6. ASSUME NEW y \in s PROVE s \ {y} \in SUBSET S /\ s \ {y} \notin Bad
    <3>1. s \ {y} \in SUBSET S /\ ~(Cardinality(s) <= Cardinality(s \ {y}))
      BY <2>3, Smaller
    <3> QED
      BY <2>1, <3>1
  <2>7. ASSUME NEW t \in SUBSET S, t \notin Bad, NEW y \in t
        PROVE  g[t] = f[y] + g[t \ {y}]
    BY <2>7
  <2> HIDE DEF Bad
  <2> DEFINE rest == g[(s \ {x}) \ {p}]
  <2>8. x \in s \ {p} /\ p \in s \ {x} /\ (s \ {p}) \ {x} = (s \ {x}) \ {p}
    BY <2>2, <2>3, <2>5
  <2>9. g[s \ {p}] = f[x] + g[(s \ {p}) \ {x}]
    BY <2>2, <2>3, <2>6, <2>7, <2>8
  <2>10. g[s \ {p}] = f[x] + rest
    BY <2>8, <2>9
  <2>11. g[s \ {x}] = f[p] + rest
    BY <2>2, <2>3, <2>6, <2>7, <2>8
  <2>12. f[p] \in Int /\ f[x] \in Int /\ rest \in Int
    BY <1>2, <2>2, <2>3
  <2> HIDE DEF rest
  <2> QED
    BY ONLY <2>2, <2>4, <2>10, <2>11, <2>12
<1> QED
  BY <1>1, <1>2, <1>3

\* A total is a fold.
LEMMA TotalIsFold ==
  ASSUME NEW S, IsFiniteSet(S), NEW f \in [S -> Int]
  PROVE  \E g : IsFold(f, S, g) /\ Total(f) = g[S]
<1> DEFINE iter == CHOOSE g : IsFold(f, S, g)
<1>1. Total(f) = iter[S]
  BY DEF Total, FoldFunction, FoldFunctionOnSet, MapThenFoldSet, IsFold, Pick
<1>2. IsFold(f, S, iter)
  BY FoldExists
<1> QED
  BY <1>1, <1>2

\* Sums over sets that a one-to-one map relates are equal if the terms are.
LEMMA FoldsAgree ==
  ASSUME NEW S, IsFiniteSet(S), NEW f, \A x \in S : f[x] \in Int, NEW g, IsFold(f, S, g),
         NEW T, IsFiniteSet(T), NEW e, \A y \in T : e[y] \in Int, NEW h, IsFold(e, T, h),
         NEW m \in Injection(S, T), \A x \in S : f[x] = e[m[x]],
         NEW s \in SUBSET S
  PROVE  g[s] = h[{m[x] : x \in s}]
<1>0. \A u \in SUBSET T : \A y \in u : h[u] = e[y] + h[u \ {y}]
  <2>1. /\ h[{}] = 0
        /\ \A u \in SUBSET T : h[u] \in Int
        /\ \A u \in SUBSET T : \A y \in u : h[u] = e[y] + h[u \ {y}]
    BY FoldIs
  <2> QED
    BY <2>1
<1> DEFINE Image(t) == {m[x] : x \in t}
           Bad == {t \in SUBSET S : g[t] # h[Image(t)]}
<1> SUFFICES ASSUME Bad # {} PROVE FALSE
  OBVIOUS
<1>1. PICK t \in Bad : \A u \in Bad : Cardinality(t) <= Cardinality(u)
  BY SmallestOf
<1>2. t \in SUBSET S /\ g[t] # h[Image(t)]
  BY <1>1
<1>3. m \in [S -> T] /\ \A x, y \in S : m[x] = m[y] => x = y
  BY DEF Injection, IsInjective
<1>4. Image(t) \in SUBSET T
  BY <1>2, <1>3
<1>5. t # {}
  <2>1. Image({}) = {}
    OBVIOUS
  <2> HIDE DEF Image
  <2>2. g[{}] = 0 /\ h[{}] = 0
    BY FoldIs
  <2> QED
    BY <1>2, <2>1, <2>2
<1>6. PICK x \in t : TRUE
  BY <1>5
<1>7. Image(t) \ {m[x]} = Image(t \ {x}) /\ m[x] \in Image(t)
  <2>1. ASSUME NEW y \in Image(t) \ {m[x]} PROVE y \in Image(t \ {x})
    OBVIOUS
  <2>2. ASSUME NEW y \in Image(t \ {x}) PROVE y \in Image(t) \ {m[x]}
    <3>1. PICK z \in t \ {x} : y = m[z]
      BY <2>2
    <3>2. m[z] # m[x]
      BY <1>2, <1>3, <1>6, <3>1
    <3> QED
      BY <3>1, <3>2
  <2>3. m[x] \in Image(t)
    BY <1>6
  <2> HIDE DEF Image
  <2> QED
    BY <2>1, <2>2, <2>3
<1> HIDE DEF Image
<1>8. g[t] = f[x] + g[t \ {x}]
  BY <1>2, <1>6, FoldIs
<1>9. h[Image(t)] = e[m[x]] + h[Image(t) \ {m[x]}]
  <2>1. ASSUME NEW u \in SUBSET T, NEW y \in u PROVE h[u] = e[y] + h[u \ {y}]
    BY ONLY <1>0, u \in SUBSET T, y \in u
  <2> QED
    BY ONLY <1>4, <1>7, <2>1
<1>10. t \ {x} \in SUBSET S /\ ~(Cardinality(t) <= Cardinality(t \ {x}))
  BY <1>2, <1>6, Smaller
<1>11. g[t \ {x}] = h[Image(t \ {x})]
  BY <1>1, <1>10
<1>12. f[x] = e[m[x]]
  BY <1>2, <1>6
<1> QED
  BY <1>2, <1>7, <1>8, <1>9, <1>11, <1>12

\* More terms add to a sum, if none is negative.
LEMMA FoldGrows ==
  ASSUME NEW T, IsFiniteSet(T), NEW e, \A y \in T : e[y] \in Nat, NEW h, IsFold(e, T, h),
         NEW t \in SUBSET T
  PROVE  h[t] <= h[T]
<1>0. \A y \in T : e[y] \in Int
  OBVIOUS
<1>1. /\ \A u \in SUBSET T : h[u] \in Int
      /\ \A u \in SUBSET T : \A x \in u : h[u] = e[x] + h[u \ {x}]
  BY <1>0, FoldIs
<1> DEFINE Bad == {d \in SUBSET T : ~(h[T \ d] <= h[T])}
<1>2. Bad = {}
  <2> SUFFICES ASSUME Bad # {} PROVE FALSE
    OBVIOUS
  <2>1. PICK d \in Bad : \A u \in Bad : Cardinality(d) <= Cardinality(u)
    BY SmallestOf
  <2>2. d \in SUBSET T /\ ~(h[T \ d] <= h[T])
    BY <2>1
  <2>3. d # {}
    <3>1. h[T] \in Int
      BY <1>1
    <3>2. h[T] <= h[T]
      BY ONLY <3>1
    <3>3. d = {} => T \ d = T
      OBVIOUS
    <3> QED
      BY ONLY <2>2, <3>2, <3>3
  <2>4. PICK x \in d : TRUE
    BY <2>3
  <2>5. d \ {x} \in SUBSET T /\ ~(Cardinality(d) <= Cardinality(d \ {x}))
    BY <2>2, <2>4, Smaller
  <2>6. h[T \ (d \ {x})] <= h[T]
    BY <2>1, <2>5
  <2>7. x \in T \ (d \ {x}) /\ (T \ (d \ {x})) \ {x} = T \ d
    BY <2>2, <2>4
  <2>8. h[T \ (d \ {x})] = e[x] + h[T \ d]
    BY <1>1, <2>7
  <2>9. e[x] \in Nat /\ h[T \ d] \in Int /\ h[T] \in Int
    BY <1>1, <2>2, <2>4
  <2>10. ~(h[T \ d] <= h[T])
    BY <2>2
  <2> HIDE DEF Bad
  <2> DEFINE a == h[T \ d]
             b == h[T \ (d \ {x})]
             c == h[T]
             k == e[x]
  <2>11. k \in Nat /\ a \in Int /\ c \in Int /\ b <= c /\ b = k + a /\ ~(a <= c)
    BY <2>6, <2>8, <2>9, <2>10
  <2> HIDE DEF a, b, c, k
  <2> QED
    BY ONLY <2>11
<1>3. T \ (T \ t) = t /\ T \ t \in SUBSET T
  OBVIOUS
<1> QED
  BY <1>2, <1>3

\* A total is an integer, and that of the empty function is 0.
LEMMA TotalType ==
  ASSUME NEW S, IsFiniteSet(S), NEW f \in [S -> Int]
  PROVE  Total(f) \in Int /\ (S = {} => Total(f) = 0)
<1>1. PICK g : IsFold(f, S, g) /\ Total(f) = g[S]
  BY TotalIsFold
<1>2. \A x \in S : f[x] \in Int
  OBVIOUS
<1>3. g[{}] = 0 /\ \A s \in SUBSET S : g[s] \in Int
  BY <1>1, <1>2, FoldIs
<1>4. S \in SUBSET S
  OBVIOUS
<1>5. Total(f) \in Int
  BY ONLY <1>1, <1>3, <1>4
<1>6. S = {} => Total(f) = 0
  BY ONLY <1>1, <1>3
<1> QED
  BY <1>5, <1>6

\* One term more.
LEMMA TotalOfMore ==
  ASSUME NEW S, IsFiniteSet(S), NEW f \in [S -> Int], NEW c, c \notin S, NEW k \in Int,
         NEW e \in [S \cup {c} -> Int], e[c] = k, \A x \in S : e[x] = f[x]
  PROVE  Total(e) = Total(f) + k
<1> DEFINE T == S \cup {c}
           same == [x \in S |-> x]
<1>1. IsFiniteSet(T)
  BY FS_AddElement
<1>2. PICK g : IsFold(f, S, g) /\ Total(f) = g[S]
  BY TotalIsFold
<1>3. PICK h : IsFold(e, T, h) /\ Total(e) = h[T]
  BY <1>1, TotalIsFold
<1>4. (\A x \in S : f[x] \in Int) /\ (\A x \in T : e[x] \in Int)
  OBVIOUS
<1>5. same \in Injection(S, T) /\ \A x \in S : f[x] = e[same[x]]
  BY DEF Injection, IsInjective
<1>6. {same[x] : x \in S} = S
  OBVIOUS
<1> HIDE DEF same
<1>7. g[S] = h[S]
  <2>1. g[S] = h[{same[x] : x \in S}]
    BY <1>1, <1>2, <1>3, <1>4, <1>5, FoldsAgree
  <2> QED
    BY <1>6, <2>1
<1>8. h[T] = e[c] + h[T \ {c}] /\ h[S] \in Int
  BY <1>1, <1>3, <1>4, FoldIs
<1>9. T \ {c} = S
  OBVIOUS
<1> HIDE DEF T
<1>10. Total(e) = k + h[S]
  BY ONLY <1>3, <1>8, <1>9, e[c] = k
<1>11. Total(f) = h[S]
  BY ONLY <1>2, <1>7
<1>12. h[S] \in Int /\ k \in Int
  BY <1>8
<1> QED
  BY ONLY <1>10, <1>11, <1>12

\* Terms that are some of those of another total, one to one, add up to no more.
LEMMA TotalOfSome ==
  ASSUME NEW T, IsFiniteSet(T), NEW e \in [T -> Nat],
         NEW S, NEW m \in Injection(S, T), NEW f \in [S -> Nat], \A x \in S : f[x] = e[m[x]]
  PROVE  Total(f) <= Total(e) /\ Cardinality(S) <= Cardinality(T) /\ IsFiniteSet(S)
<1>1. IsFiniteSet(S) /\ Cardinality(S) <= Cardinality(T)
  BY FS_Injection
<1>2. f \in [S -> Int] /\ e \in [T -> Int] /\ (\A x \in S : f[x] \in Int)
      /\ (\A x \in T : e[x] \in Int) /\ (\A x \in T : e[x] \in Nat)
  OBVIOUS
<1>3. PICK g : IsFold(f, S, g) /\ Total(f) = g[S]
  BY <1>1, <1>2, TotalIsFold
<1>4. PICK h : IsFold(e, T, h) /\ Total(e) = h[T]
  BY <1>2, TotalIsFold
<1>5. g[S] = h[{m[x] : x \in S}]
  BY <1>1, <1>2, <1>3, <1>4, FoldsAgree
<1>6. {m[x] : x \in S} \in SUBSET T
  BY DEF Injection
<1>7. h[{m[x] : x \in S}] <= h[T]
  BY <1>2, <1>4, <1>6, FoldGrows
<1> QED
  BY <1>1, <1>3, <1>4, <1>5, <1>7

(***************************************************************************)
(* PaperSim.                                                               *)
(***************************************************************************)
\* A signal being judged names a market.
Judging == phase \in {"due", "flatten", "accept"} => sig.cond \in Conditions

\* A map without a key has the other keys, and their values.
LEMMA MapWithout ==
  ASSUME NEW T, NEW f, IsMap(f, T), NEW c
  PROVE  /\ IsMap(Without(f, c), T)
         /\ DOMAIN Without(f, c) = DOMAIN f \ {c}
         /\ \A d \in DOMAIN f \ {c} : Without(f, c)[d] = f[d]
<1> DEFINE g == Without(f, c)
<1>1. /\ g = [d \in DOMAIN f \ {c} |-> f[d]]
      /\ DOMAIN g = DOMAIN f \ {c}
      /\ \A d \in DOMAIN f \ {c} : g[d] = f[d]
  BY DEF Without
<1>2. IsMap(g, T)
  BY <1>1 DEF IsMap
<1> HIDE DEF g
<1>3. /\ IsMap(Without(f, c), T)
      /\ DOMAIN Without(f, c) = DOMAIN f \ {c}
      /\ \A d \in DOMAIN f \ {c} : Without(f, c)[d] = f[d]
  BY <1>1, <1>2 DEF g
<1> QED
  BY <1>3

\* A map with a key has it besides the others, whose values stay.
LEMMA MapWith ==
  ASSUME NEW T, NEW f, IsMap(f, T), NEW c \in Conditions, NEW x \in T
  PROVE  /\ IsMap(With(f, c, x), T)
         /\ DOMAIN With(f, c, x) = DOMAIN f \union {c}
         /\ With(f, c, x)[c] = x
         /\ \A d \in DOMAIN f \ {c} : With(f, c, x)[d] = f[d]
<1> DEFINE g == With(f, c, x)
<1>1. /\ g = [d \in DOMAIN f \union {c} |-> IF d = c THEN x ELSE f[d]]
      /\ DOMAIN g = DOMAIN f \union {c}
      /\ g[c] = x
      /\ \A d \in DOMAIN f \ {c} : g[d] = f[d]
  BY DEF With
<1>2. IsMap(g, T)
  BY <1>1 DEF IsMap
<1> HIDE DEF g
<1>3. /\ IsMap(With(f, c, x), T)
      /\ DOMAIN With(f, c, x) = DOMAIN f \union {c}
      /\ With(f, c, x)[c] = x
      /\ \A d \in DOMAIN f \ {c} : With(f, c, x)[d] = f[d]
  BY <1>1, <1>2 DEF g
<1> QED
  BY <1>3

\* The empty map has no key, so any type of values.
LEMMA EmptyMap == ASSUME NEW T PROVE IsMap(Empty, T) /\ DOMAIN Empty = {}
  BY DEF Empty, IsMap

-----------------------------------------------------------------------------
(* The manager: its figures keep their types and its halts what they promise. *)

FigureTypes ==
  /\ equity \in Int /\ peak \in Int /\ dayOpen \in Int
  /\ day \in Nat \union {NoDay}
  /\ state \in States

\* OKMeansWithinLimits is not inductive: a day halt is lifted by a new day, which sets
\* the day's opening equity but not the peak, so that a manager under a day halt must be
\* within the max-drawdown limit as well.
HaltsAgree ==
  /\ state # "HALTED_DD" => ~Breach(peak, equity, MaxDrawdownBps)
  /\ state = "OK" => ~Breach(dayOpen, equity, MaxDailyDrawdownBps)

\* The day of an instant is a natural number.
LEMMA DayIsNat == ASSUME NEW t \in Nat PROVE DayOf(t) \in Nat
  BY RiskAssumption DEF DayOf, Positive

\* No loss is no breach.
LEMMA NoLossNoBreach ==
  ASSUME NEW eq \in Int, NEW bps \in Positive
  PROVE  ~Breach(eq, eq, bps)
<1>1. eq - eq = 0 /\ 0 * 10000 = 0
  OBVIOUS
<1>2. eq > 0 => bps * eq > 0
  BY DEF Positive
<1> QED
  BY <1>1, <1>2 DEF Breach, Positive

\* A new day keeps the types of the figures.
LEMMA RollTypes ==
  ASSUME FigureTypes, NEW t \in Nat, RollDay(t)
  PROVE  /\ day' \in Nat \union {NoDay} /\ dayOpen' \in Int
         /\ Resumed(t) \in States
  BY DayIsNat DEF FigureTypes, RollDay, Resumed, NewDay, States, NoDay

\* A day that is not new has been seen.
LEMMA DayRolled ==
  ASSUME FigureTypes, NEW t \in Nat
  PROVE  /\ DayOf(t) \in Nat
         /\ ~NewDay(t) => day \in Nat
  BY DayIsNat DEF FigureTypes, NewDay, NoDay

\* A look at the time rolls the day and lifts a halt of the day, and nothing else.
LEMMA LookAtKeeps ==
  ASSUME FigureTypes, HaltsAgree, NEW t \in Nat, LookAt(t)
  PROVE  FigureTypes' /\ HaltsAgree'
<1>1. FigureTypes'
  BY RollTypes DEF LookAt, FigureTypes
<1>2. state' # "HALTED_DD" => ~Breach(peak', equity', MaxDrawdownBps)
  BY DEF LookAt, HaltsAgree, Resumed
<1>3. state' = "OK" => ~Breach(dayOpen', equity', MaxDailyDrawdownBps)
  <2>1. CASE NewDay(t)
    <3>1. dayOpen' = equity /\ equity' = equity
      BY <2>1 DEF LookAt, RollDay
    <3> QED
      BY <3>1, NoLossNoBreach, RiskAssumption DEF FigureTypes
  <2>2. CASE ~NewDay(t)
    BY <2>2 DEF LookAt, RollDay, Resumed, HaltsAgree
  <2> QED
    BY <2>1, <2>2
<1> QED
  BY <1>1, <1>2, <1>3 DEF HaltsAgree

\* A profit or loss leaves a halt wherever it breaches a limit.
LEMMA ApplyPnLKeeps ==
  ASSUME FigureTypes, NEW t \in Nat, NEW pnl \in Int, ApplyPnL(pnl, t)
  PROVE  FigureTypes' /\ HaltsAgree'
<1>1. equity' \in Int /\ peak' \in Int
  BY DEF ApplyPnL, FigureTypes
<1>2. /\ day' \in Nat /\ dayOpen' \in Int
      /\ Resumed(t) \in States
  BY RollTypes, DayRolled DEF ApplyPnL, RollDay
<1>3. state' \in States
  BY <1>2 DEF ApplyPnL, Checked, States, FigureTypes
<1>4. HaltsAgree'
  BY <1>2 DEF ApplyPnL, Checked, States, HaltsAgree
<1> QED
  BY <1>1, <1>2, <1>3, <1>4 DEF FigureTypes

-----------------------------------------------------------------------------
(* The simulation: closing, opening, and the steps that only move on.         *)

IInv == TypeOK /\ Judging /\ BooksAgree /\ HaltsAgree

\* The figures are part of the types.
LEMMA TypeHasFigures == ASSUME TypeOK PROVE FigureTypes
  BY DEF TypeOK, FigureTypes

\* A close takes one trade out of the books and out of the manager at once.
LEMMA CloseKeeps ==
  ASSUME TypeOK, BooksAgree, NEW c \in DOMAIN openByCond, NEW t \in Nat, CloseTrade(c, t)
  PROVE  /\ FigureTypes' /\ HaltsAgree'
         /\ IsMap(positions', Positive)
         /\ trades' \in Seq(Trade)
         /\ IsMap(openByCond', 1 .. Len(trades'))
         /\ BooksAgree'
         /\ Len(trades') = Len(trades)
<1> DEFINE i == openByCond[c]
<1>1. PICK pnl \in PnLs :
        /\ OnClose(c, pnl, t)
        /\ trades' = [trades EXCEPT ![i] =
                        [@ EXCEPT !.exit = t, !.pnl = pnl, !.closed = TRUE]]
        /\ openByCond' = Without(openByCond, c)
  BY DEF CloseTrade
<1>2. pnl \in Int
  BY SimAssumption
<1>3. FigureTypes' /\ HaltsAgree'
  BY <1>1, <1>2, TypeHasFigures, ApplyPnLKeeps DEF OnClose
<1>4. i \in DOMAIN trades /\ trades \in Seq(Trade) /\ trades[i] \in Trade
  BY DEF BooksAgree, TypeOK
<1>5. /\ trades' \in Seq(Trade) /\ Len(trades') = Len(trades)
      /\ DOMAIN trades' = DOMAIN trades
      /\ \A j \in DOMAIN trades \ {i} : trades'[j] = trades[j]
      /\ trades'[i].closed = TRUE
  <2> DEFINE ended == [trades[i] EXCEPT !.exit = t, !.pnl = pnl, !.closed = TRUE]
  <2>1. ended \in Trade /\ ended.closed = TRUE
    BY <1>2, <1>4 DEF Trade
  <2>2. trades' = [trades EXCEPT ![i] = ended]
    BY <1>1
  <2> HIDE DEF ended
  <2> QED
    BY <1>4, <2>1, <2>2
<1>6. /\ positions' = Without(positions, c)
      /\ IsMap(positions', Positive)
      /\ DOMAIN positions' = DOMAIN positions \ {c}
      /\ \A d \in DOMAIN positions \ {c} : positions'[d] = positions[d]
  <2>1. positions' = Without(positions, c)
    BY <1>1 DEF OnClose
  <2>2. IsMap(positions, Positive) /\ c \in DOMAIN positions
    BY DEF TypeOK, BooksAgree
  <2>3. /\ IsMap(Without(positions, c), Positive)
        /\ DOMAIN Without(positions, c) = DOMAIN positions \ {c}
        /\ \A d \in DOMAIN positions \ {c} : Without(positions, c)[d] = positions[d]
    BY <2>2, MapWithout
  <2> QED
    BY <2>1, <2>3
<1>7. /\ IsMap(openByCond', 1 .. Len(trades'))
      /\ DOMAIN openByCond' = DOMAIN openByCond \ {c}
      /\ \A d \in DOMAIN openByCond \ {c} : openByCond'[d] = openByCond[d]
  <2> DEFINE Indices == 1 .. Len(trades')
  <2>1. IsMap(openByCond, Indices)
    BY <1>5 DEF TypeOK
  <2> HIDE DEF Indices
  <2>2. /\ IsMap(Without(openByCond, c), Indices)
        /\ DOMAIN Without(openByCond, c) = DOMAIN openByCond \ {c}
        /\ \A d \in DOMAIN openByCond \ {c} : Without(openByCond, c)[d] = openByCond[d]
    BY <2>1, MapWithout
  <2> QED
    BY <1>1, <2>2 DEF Indices
<1>8. BooksAgree'
  <2>1. DOMAIN positions' = DOMAIN openByCond'
    BY <1>6, <1>7 DEF BooksAgree
  <2>2. ASSUME NEW d \in DOMAIN openByCond'
        PROVE  /\ openByCond'[d] \in DOMAIN trades'
               /\ trades'[openByCond'[d]].cond = d
               /\ ~trades'[openByCond'[d]].closed
               /\ trades'[openByCond'[d]].size = positions'[d]
    <3>1. d \in DOMAIN openByCond /\ d # c /\ openByCond'[d] = openByCond[d]
      BY <1>7
    <3>2. openByCond[d] # i
      BY <3>1 DEF BooksAgree
    <3> QED
      BY <3>1, <3>2, <1>5, <1>6, <2>1 DEF BooksAgree
  <2>3. ASSUME NEW j \in DOMAIN trades', ~trades'[j].closed
        PROVE  trades'[j].cond \in DOMAIN openByCond' /\ openByCond'[trades'[j].cond] = j
    <3>1. j # i /\ trades'[j] = trades[j]
      BY <2>3, <1>5
    <3>2. trades[j].cond \in DOMAIN openByCond /\ openByCond[trades[j].cond] = j
      BY <2>3, <3>1, <1>5 DEF BooksAgree
    <3> QED
      BY <3>1, <3>2, <1>7
  <2> QED
    BY <2>1, <2>2, <2>3 DEF BooksAgree
<1> QED
  BY <1>3, <1>5, <1>6, <1>7, <1>8

\* An open puts one trade in both, and only with the consent of the manager.
LEMMA OpenKeeps ==
  ASSUME IInv, Open
  PROVE  IInv'
<1>1. phase = "accept" /\ sig.cond \in Conditions /\ sig.time \in Nat
  BY DEF Open, IInv, Judging, TypeOK
<1>2. PICK size \in MinSize .. MaxPosition, horizon \in Horizons :
       /\ Accepts(sig.cond, size, sig.time)
       /\ LookAt(sig.time)
       /\ trades' = Append(trades, [cond |-> sig.cond, size |-> size,
                                    entry |-> sig.time, exit |-> sig.time + horizon,
                                    pnl |-> 0, closed |-> FALSE])
       /\ openByCond' = With(openByCond, sig.cond, Len(trades) + 1)
       /\ OnOpen(sig.cond, size)
  BY DEF Open
<1> DEFINE new == [cond |-> sig.cond, size |-> size, entry |-> sig.time,
                   exit |-> sig.time + horizon, pnl |-> 0, closed |-> FALSE]
<1>3. size \in Positive /\ horizon \in Nat /\ new \in Trade
  BY <1>1, <1>2, RiskAssumption, SimAssumption DEF Trade, Positive
<1>4. FigureTypes' /\ HaltsAgree'
  BY <1>1, <1>2, LookAtKeeps, TypeHasFigures DEF IInv
<1>5. /\ trades \in Seq(Trade) /\ trades' \in Seq(Trade)
      /\ Len(trades') = Len(trades) + 1
      /\ trades'[Len(trades) + 1] = new
      /\ \A j \in 1 .. Len(trades) : trades'[j] = trades[j]
  BY <1>2, <1>3 DEF IInv, TypeOK
<1>6. /\ IsMap(positions', Positive)
      /\ DOMAIN positions' = DOMAIN positions \union {sig.cond}
      /\ positions'[sig.cond] = size
      /\ \A d \in DOMAIN positions \ {sig.cond} : positions'[d] = positions[d]
  <2> DEFINE granted == size
  <2>1. positions' = With(positions, sig.cond, granted)
    BY <1>2 DEF OnOpen
  <2>2. IsMap(positions, Positive)
    BY DEF IInv, TypeOK
  <2>3. granted \in Positive
    BY <1>3
  <2> HIDE DEF granted
  <2> DEFINE after == With(positions, sig.cond, granted)
  <2>4. /\ IsMap(after, Positive)
        /\ DOMAIN after = DOMAIN positions \union {sig.cond}
        /\ after[sig.cond] = granted
        /\ \A d \in DOMAIN positions \ {sig.cond} : after[d] = positions[d]
    BY <1>1, <2>2, <2>3, MapWith
  <2> QED
    BY <2>1, <2>4 DEF granted
<1>7. /\ IsMap(openByCond', 1 .. Len(trades'))
      /\ DOMAIN openByCond' = DOMAIN openByCond \union {sig.cond}
      /\ openByCond'[sig.cond] = Len(trades) + 1
      /\ \A d \in DOMAIN openByCond \ {sig.cond} : openByCond'[d] = openByCond[d]
  <2> DEFINE Indices == 1 .. Len(trades')
             next == Len(trades) + 1
  <2>1. IsMap(openByCond, Indices)
    BY <1>5 DEF IInv, TypeOK, IsMap
  <2>2. next \in Indices
    BY <1>5
  <2>3. openByCond' = With(openByCond, sig.cond, next)
    BY <1>2
  <2> HIDE DEF Indices, next
  <2> DEFINE after == With(openByCond, sig.cond, next)
  <2>4. /\ IsMap(after, Indices)
        /\ DOMAIN after = DOMAIN openByCond \union {sig.cond}
        /\ after[sig.cond] = next
        /\ \A d \in DOMAIN openByCond \ {sig.cond} : after[d] = openByCond[d]
    BY <1>1, <2>1, <2>2, MapWith
  <2> QED
    BY <2>3, <2>4 DEF Indices, next
<1>8. sig.cond \notin DOMAIN openByCond
  BY <1>2 DEF Accepts, IInv, BooksAgree
<1>9. BooksAgree'
  <2>1. DOMAIN positions' = DOMAIN openByCond'
    BY <1>6, <1>7 DEF IInv, BooksAgree
  <2>2. ASSUME NEW d \in DOMAIN openByCond'
        PROVE  /\ openByCond'[d] \in DOMAIN trades'
               /\ trades'[openByCond'[d]].cond = d
               /\ ~trades'[openByCond'[d]].closed
               /\ trades'[openByCond'[d]].size = positions'[d]
    <3>1. CASE d = sig.cond
      BY <3>1, <1>5, <1>6, <1>7
    <3>2. CASE d # sig.cond
      <4>1. /\ d \in DOMAIN openByCond /\ openByCond'[d] = openByCond[d]
            /\ openByCond[d] \in 1 .. Len(trades)
            /\ d \in DOMAIN positions
        BY <3>2, <1>7, <1>5 DEF IInv, BooksAgree
      <4> QED
        BY <3>2, <4>1, <1>5, <1>6 DEF IInv, BooksAgree
    <3> QED
      BY <3>1, <3>2
  <2>3. ASSUME NEW j \in DOMAIN trades', ~trades'[j].closed
        PROVE  trades'[j].cond \in DOMAIN openByCond' /\ openByCond'[trades'[j].cond] = j
    <3>1. CASE j = Len(trades) + 1
      BY <3>1, <1>5, <1>7
    <3>2. CASE j # Len(trades) + 1
      <4>1. j \in 1 .. Len(trades) /\ trades'[j] = trades[j]
        BY <3>2, <1>5
      <4>2. trades[j].cond \in DOMAIN openByCond /\ openByCond[trades[j].cond] = j
        BY <2>3, <4>1, <1>5 DEF IInv, BooksAgree
      <4> QED
        BY <4>1, <4>2, <1>7, <1>8
    <3> QED
      BY <3>1, <3>2
  <2> QED
    BY <2>1, <2>2, <2>3 DEF BooksAgree
<1>10. TypeOK' /\ Judging'
  BY <1>4, <1>5, <1>6, <1>7 DEF Open, IInv, TypeOK, FigureTypes, Phases, Judging
<1> QED
  BY <1>4, <1>9, <1>10 DEF IInv

LEMMA InitHolds == Init => IInv
<1> SUFFICES ASSUME Init PROVE IInv
  OBVIOUS
<1>1. TypeOK
  <2>1. /\ IsMap(positions, Positive) /\ IsMap(window, Nat)
        /\ IsMap(openByCond, 1 .. Len(trades))
    BY EmptyMap DEF Init, RiskInit
  <2> QED
    BY <2>1, RiskAssumption, SimAssumption
       DEF Init, RiskInit, TypeOK, States, Phases, NoDay, Positive
<1>2. Judging
  BY DEF Init, Judging
<1>3. BooksAgree
  BY EmptyMap DEF Init, RiskInit, BooksAgree
<1>4. HaltsAgree
  BY NoLossNoBreach, RiskAssumption DEF Init, RiskInit, HaltsAgree, Positive
<1> QED
  BY <1>1, <1>2, <1>3, <1>4 DEF IInv

\* Steps that leave the books alone only have the pointers of the loop to account for.
LEMMA MovingOn ==
  ASSUME IInv, UNCHANGED <<riskVars, mode, trades, openByCond>>,
         IsMap(window', Nat), from' \in Nat, last' \in Nat,
         sig' \in [cond : Conditions \union {Nobody}, time : Nat],
         phase' \in Phases, Judging'
  PROVE  IInv'
<1>1. TypeOK'
  BY DEF IInv, TypeOK, riskVars
<1>2. BooksAgree' /\ HaltsAgree'
  BY DEF IInv, BooksAgree, HaltsAgree, Breach, riskVars
<1> QED
  BY <1>1, <1>2 DEF IInv

\* The next instant takes up its signals.
LEMMA NextSignalsKeeps == ASSUME IInv, NextSignals PROVE IInv'
<1>1. PICK start \in from .. MaxTime, round \in SUBSET Conditions :
        /\ \E times \in [round -> start .. Reach(start)] :
             /\ \E c \in round : last' = times[c]
             /\ window' = times
        /\ from' = IF mode = "strict" THEN start ELSE start + Window + 1
  BY DEF NextSignals
<1>2. start \in Nat /\ Reach(start) \in Nat /\ from' \in Nat
  BY <1>1, SimAssumption DEF IInv, TypeOK, Reach
<1>3. IsMap(window', Nat) /\ last' \in Nat
  BY <1>1, <1>2 DEF IsMap
<1> QED
  BY <1>2, <1>3, MovingOn DEF NextSignals, IInv, TypeOK, Judging

\* A signal that is outranked is dropped from the auction.
LEMMA OutrankKeeps == ASSUME IInv, NEW c \in Conditions, Outrank(c) PROVE IInv'
<1>1. IsMap(window', Nat)
  <2>1. IsMap(window, Nat)
    BY DEF IInv, TypeOK
  <2> QED
    BY <2>1, MapWithout DEF Outrank
<1> QED
  BY <1>1, MovingOn DEF Outrank, IInv, TypeOK, Judging

\* A signal offered is the one being decided.
LEMMA OfferKeeps == ASSUME IInv, NEW c \in Conditions, Offer(c) PROVE IInv'
<1>1. IsMap(window', Nat) /\ window[c] \in Nat
  <2>1. IsMap(window, Nat)
    BY DEF IInv, TypeOK
  <2> QED
    BY <2>1, MapWithout DEF Offer, IsMap
<1>2. phase' \in Phases /\ Judging' /\ sig' \in [cond : Conditions \union {Nobody}, time : Nat]
  BY <1>1 DEF Offer, Phases, Judging
<1> QED
  BY <1>1, <1>2, MovingOn DEF Offer, IInv, TypeOK

\* An open trade has a planned exit.
LEMMA ExitPlanned ==
  ASSUME IInv, NEW c \in DOMAIN openByCond PROVE trades[openByCond[c]].exit \in Nat
<1>1. openByCond[c] \in 1 .. Len(trades) /\ trades \in Seq(Trade)
  BY DEF IInv, TypeOK, IsMap
<1>2. trades[openByCond[c]] \in Trade
  BY <1>1
<1> QED
  BY <1>2 DEF Trade

\* A close that is due is a close.
LEMMA CloseDueKeeps == ASSUME IInv, NEW c \in Conditions, CloseDue(c) PROVE IInv'
<1>1. c \in DOMAIN openByCond /\ trades[openByCond[c]].exit \in Nat
  BY ExitPlanned DEF CloseDue
<1>2. CloseTrade(c, trades[openByCond[c]].exit)
  BY DEF CloseDue
<1>3. /\ FigureTypes' /\ HaltsAgree' /\ BooksAgree'
      /\ IsMap(positions', Positive) /\ trades' \in Seq(Trade)
      /\ IsMap(openByCond', 1 .. Len(trades'))
  BY <1>1, <1>2, CloseKeeps DEF IInv
<1> QED
  BY <1>3 DEF CloseDue, IInv, TypeOK, FigureTypes, Judging

\* So is one at the end of the simulation.
LEMMA CloseNowKeeps == ASSUME IInv, NEW c \in Conditions, CloseNow(c) PROVE IInv'
<1>1. c \in DOMAIN openByCond /\ sig.time \in Nat /\ CloseTrade(c, sig.time)
  BY DEF CloseNow, IInv, TypeOK
<1>2. /\ FigureTypes' /\ HaltsAgree' /\ BooksAgree'
      /\ IsMap(positions', Positive) /\ trades' \in Seq(Trade)
      /\ IsMap(openByCond', 1 .. Len(trades'))
  BY <1>1, CloseKeeps DEF IInv
<1> QED
  BY <1>2 DEF CloseNow, IInv, TypeOK, FigureTypes, Judging

\* A rejection touches no book.
LEMMA RejectKeeps == ASSUME IInv, Reject PROVE IInv'
<1>1. FigureTypes' /\ HaltsAgree'
  BY LookAtKeeps, TypeHasFigures DEF Reject, IInv, TypeOK
<1>2. BooksAgree'
  BY DEF Reject, IInv, BooksAgree
<1> QED
  BY <1>1, <1>2 DEF Reject, IInv, TypeOK, FigureTypes, Judging, Phases

\* The ends of the phases touch no book.
LEMMA PhaseKeeps ==
  ASSUME IInv, DueClosed \/ Flattened \/ EndBegins \/ EndDueClosed \/ Done
  PROVE  IInv'
<1>1. CASE EndBegins
  <2>1. sig' \in [cond : Conditions \union {Nobody}, time : Nat]
    BY <1>1, SimAssumption DEF EndBegins, IInv, TypeOK, Positive
  <2> QED
    BY <1>1, <2>1, MovingOn DEF EndBegins, IInv, TypeOK, Phases, Judging
<1>2. CASE DueClosed
  BY <1>2, MovingOn DEF DueClosed, IInv, TypeOK, Phases, Judging
<1>3. CASE Flattened
  BY <1>3, MovingOn DEF Flattened, IInv, TypeOK, Phases, Judging
<1>4. CASE EndDueClosed
  BY <1>4, MovingOn DEF EndDueClosed, IInv, TypeOK, Phases, Judging
<1>5. CASE Done
  BY <1>5, MovingOn DEF Done, IInv, TypeOK, Phases, Judging
<1> QED
  BY <1>1, <1>2, <1>3, <1>4, <1>5

\* Every step keeps the inductive invariant.
LEMMA StepKeeps == IInv /\ [Next]_vars => IInv'
<1> SUFFICES ASSUME IInv, [Next]_vars PROVE IInv'
  OBVIOUS
<1>1. CASE NextSignals
  BY <1>1, NextSignalsKeeps
<1>2. CASE DueClosed \/ Flattened \/ EndBegins \/ EndDueClosed \/ Done
  BY <1>2, PhaseKeeps
<1>3. CASE Reject
  BY <1>3, RejectKeeps
<1>4. CASE Open
  BY <1>4, OpenKeeps
<1>5. ASSUME NEW c \in Conditions, Outrank(c) \/ Offer(c) \/ CloseDue(c) \/ CloseNow(c)
      PROVE  IInv'
  BY <1>5, OutrankKeeps, OfferKeeps, CloseDueKeeps, CloseNowKeeps
<1>6. CASE UNCHANGED vars
  BY <1>6, MovingOn DEF IInv, TypeOK, Judging, vars, simVars
<1> QED
  BY <1>1, <1>2, <1>3, <1>4, <1>5, <1>6 DEF Next

\* The inductive invariant holds throughout.
LEMMA Invariance == Spec => []IInv
  BY InitHolds, StepKeeps, PTL DEF Spec

-----------------------------------------------------------------------------
\* Every variable of the simulation and of its manager keeps its type.
THEOREM TypeCorrect == Spec => []TypeOK
<1>1. IInv => TypeOK
  BY DEF IInv
<1> QED
  BY Invariance, <1>1, PTL

\* Positions, index and open trades are one book at every step (openByCond, Positions).
THEOREM BooksBalance == Spec => []BooksAgree
<1>1. IInv => BooksAgree
  BY DEF IInv
<1> QED
  BY Invariance, <1>1, PTL

\* A manager that says OK is within both drawdown limits (checkHalts, maybeRollDay).
THEOREM LimitsAreWatched == Spec => []OKMeansWithinLimits
<1>1. IInv => OKMeansWithinLimits
  BY DEF IInv, HaltsAgree, OKMeansWithinLimits, States
<1> QED
  BY Invariance, <1>1, PTL

\* The max-drawdown halt is never lifted and nothing is opened under it.
THEOREM HaltStays == Spec => HaltIsFinal
<1> DEFINE Stays == state = "HALTED_DD" => state' = "HALTED_DD" /\ Len(trades') = Len(trades)
<1>1. IInv /\ [Next]_vars => [Stays]_vars
  <2> SUFFICES ASSUME IInv, Next, state = "HALTED_DD"
               PROVE  state' = "HALTED_DD" /\ Len(trades') = Len(trades)
    BY DEF vars
  <2>1. \A t : Resumed(t) = "HALTED_DD"
    BY DEF Resumed
  <2>2. ASSUME NEW c \in DOMAIN openByCond, NEW t \in Nat, CloseTrade(c, t)
        PROVE  state' = "HALTED_DD" /\ Len(trades') = Len(trades)
    <3>1. Len(trades') = Len(trades)
      BY <2>2, CloseKeeps DEF IInv
    <3> QED
      BY <2>1, <2>2, <3>1 DEF CloseTrade, OnClose, ApplyPnL, Checked
  <2>3. ASSUME NEW c \in Conditions, CloseDue(c) \/ CloseNow(c)
        PROVE  state' = "HALTED_DD" /\ Len(trades') = Len(trades)
    <3>1. CASE CloseDue(c)
      BY <2>2, <3>1, ExitPlanned DEF CloseDue
    <3>2. CASE CloseNow(c)
      BY <2>2, <3>2 DEF CloseNow, IInv, TypeOK
    <3> QED
      BY <2>3, <3>1, <3>2
  <2>4. ~Open
    BY <2>1 DEF Open, Accepts
  <2>5. CASE Reject
    BY <2>1, <2>5 DEF Reject, LookAt
  <2>6. CASE \/ NextSignals \/ DueClosed \/ Flattened \/ EndBegins \/ EndDueClosed \/ Done
             \/ \E c \in Conditions : Outrank(c) \/ Offer(c)
    BY <2>6 DEF NextSignals, DueClosed, Flattened, EndBegins, EndDueClosed, Done,
                Outrank, Offer, riskVars
  <2> QED
    BY <2>3, <2>4, <2>5, <2>6 DEF Next
<1> QED
  BY Invariance, <1>1, PTL DEF Spec, HaltIsFinal

\* flattenAll and the closes at the end leave nothing that is held.
THEOREM FlatInTheEnd == Spec => []FlatWhenItMust
<1>1. Init => FlatWhenItMust
  BY DEF Init, FlatWhenItMust
<1>2. IInv /\ FlatWhenItMust /\ [Next]_vars => FlatWhenItMust'
  <2> SUFFICES ASSUME IInv, FlatWhenItMust, [Next]_vars,
                      (state = "HALTED_DD" /\ phase = "accept")' \/ (phase = "done")'
               PROVE  (positions = Empty)'
    BY DEF FlatWhenItMust
  <2>1. CASE Flattened \/ Done
    <3>1. DOMAIN positions = {} /\ positions' = positions
      BY <2>1, EmptyMap DEF Flattened, Done, IInv, BooksAgree, riskVars
    <3>2. positions = [c \in DOMAIN positions |-> positions[c]]
      BY DEF IInv, TypeOK, IsMap
    <3>3. positions = Empty
      BY <3>1, <3>2 DEF Empty
    <3> QED
      BY <3>1, <3>3 DEF Empty
  <2>2. CASE UNCHANGED vars
    BY <2>2 DEF FlatWhenItMust, vars, riskVars, simVars, Empty
  <2>3. CASE NextSignals \/ \E c \in Conditions : Outrank(c) \/ Offer(c)
    BY <2>3 DEF NextSignals, Outrank, Offer
  <2>4. CASE DueClosed
    BY <2>4 DEF DueClosed, riskVars
  <2>5. CASE Reject \/ Open
    BY <2>5 DEF Reject, Open
  <2>6. CASE \E c \in Conditions : CloseDue(c) \/ CloseNow(c)
    BY <2>6 DEF CloseDue, CloseNow
  <2>7. CASE EndBegins \/ EndDueClosed
    BY <2>7 DEF EndBegins, EndDueClosed
  <2> QED
    BY <2>1, <2>2, <2>3, <2>4, <2>5, <2>6, <2>7 DEF Next
<1> QED
  BY Invariance, <1>1, <1>2, PTL DEF Spec

-----------------------------------------------------------------------------
(* The budget.  In the manager's view it holds because Accept leaves room; in *)
(* simulated time, because signals in strict order find every trade that has  *)
(* ended by then closed.                                                      *)

WithinBudget ==
  /\ IsFiniteSet(DOMAIN positions)
  /\ Cardinality(DOMAIN positions) <= MaxPositions
  /\ GrossExposure <= MaxGross

InOrder == mode = "strict" =>
  /\ last = from /\ \A c \in DOMAIN window : window[c] = from
  /\ phase \notin {"endDue", "endForce", "done"} => sig.time <= from
  /\ \A i \in DOMAIN trades :
       /\ trades[i].entry <= sig.time
       /\ trades[i].closed => trades[i].exit <= sig.time
       /\ phase \in {"flatten", "endForce"} /\ ~trades[i].closed => sig.time < trades[i].exit

Fits(t) ==
  /\ IsFiniteSet(Spanning(t)) /\ Cardinality(Spanning(t)) <= MaxPositions
  /\ Total([i \in Spanning(t) |-> trades[i].size]) <= MaxGross
AlwaysFits == mode = "strict" => \A t \in Nat : Fits(t)

\* Fewer of the same positions or trades are within what the others are within.
LEMMA FewerFit ==
  ASSUME NEW T, IsFiniteSet(T), NEW e, \A x \in T : e[x] \in Positive, NEW S \in SUBSET T
  PROVE  /\ IsFiniteSet(S) /\ Cardinality(S) <= Cardinality(T)
         /\ Total([x \in S |-> e[x]]) <= Total([x \in T |-> e[x]])
<1> DEFINE f == [x \in S |-> e[x]]
           g == [x \in T |-> e[x]]
           same == [x \in S |-> x]
<1>1. same \in Injection(S, T)
  BY DEF Injection, IsInjective
<1>2. f \in [S -> Nat] /\ g \in [T -> Nat]
  BY DEF Positive
<1>3. \A x \in S : f[x] = g[same[x]]
  OBVIOUS
<1> HIDE DEF f, g, same
<1>4. Total(f) <= Total(g) /\ Cardinality(S) <= Cardinality(T) /\ IsFiniteSet(S)
  BY <1>1, <1>2, <1>3, TotalOfSome
<1> QED
  BY <1>4 DEF f, g

\* A map is the function of its values.
LEMMA MapIs ==
  ASSUME NEW T, NEW f, IsMap(f, T)
  PROVE  f = [x \in DOMAIN f |-> f[x]] /\ \A x \in DOMAIN f : f[x] \in T
BY DEF IsMap

\* What leaves the positions alone keeps the budget.
LEMMA SameBudget ==
  ASSUME WithinBudget, UNCHANGED positions PROVE WithinBudget'
BY DEF WithinBudget, GrossExposure

\* A close lowers the exposure.
LEMMA CloseWithin ==
  ASSUME TypeOK, WithinBudget, NEW c, positions' = Without(positions, c)
  PROVE  WithinBudget'
<1> DEFINE S == DOMAIN positions \ {c}
           T == DOMAIN positions
           p == positions
<1>1. p = [x \in T |-> p[x]] /\ \A x \in T : p[x] \in Positive
  BY MapIs DEF TypeOK
<1>2. positions' = [x \in S |-> p[x]]
  BY DEF Without
<1>3. IsFiniteSet(T)
  BY DEF WithinBudget
<1>4. /\ IsFiniteSet(S) /\ Cardinality(S) <= Cardinality(T)
      /\ Total([x \in S |-> p[x]]) <= Total([x \in T |-> p[x]])
  BY <1>1, <1>3, FewerFit
<1>5. Total([x \in S |-> p[x]]) \in Int /\ Total(p) \in Int
  <2>1. [x \in S |-> p[x]] \in [S -> Int] /\ p \in [T -> Int]
    BY <1>1 DEF Positive
  <2> QED
    BY <1>3, <1>4, <2>1, TotalType
<1>6. Cardinality(S) \in Nat /\ Cardinality(T) \in Nat
  BY <1>3, <1>4, FS_CardinalityType
<1>7. DOMAIN positions' = S
  BY <1>2
<1>8. Total(positions') <= MaxGross
  BY <1>1, <1>2, <1>4, <1>5, RiskAssumption DEF WithinBudget, GrossExposure, Positive
<1>9. Cardinality(S) <= MaxPositions
  BY <1>4, <1>6, RiskAssumption DEF WithinBudget, Positive
<1> QED
  BY <1>4, <1>7, <1>8, <1>9 DEF WithinBudget, GrossExposure

\* An open that is accepted fits in what is left of the budget.
LEMMA OpenWithin ==
  ASSUME TypeOK, WithinBudget, NEW c \in Conditions, NEW size \in Positive, NEW t,
         Accepts(c, size, t), positions' = With(positions, c, size)
  PROVE  WithinBudget'
<1> DEFINE T == DOMAIN positions
           p == positions
           q == With(positions, c, size)
<1>1. p = [x \in T |-> p[x]] /\ \A x \in T : p[x] \in Positive
  BY MapIs DEF TypeOK
<1>2. c \notin T /\ IsFiniteSet(T) /\ ~(Cardinality(T) >= MaxPositions) /\ size <= Room
  BY DEF Accepts, WithinBudget, Full
<1>3. DOMAIN q = T \cup {c} /\ q[c] = size /\ \A x \in T : q[x] = p[x]
  BY <1>2 DEF With
<1>4. q = [x \in T \cup {c} |-> q[x]]
  BY <1>3 DEF With
<1>5. p \in [T -> Int] /\ q \in [T \cup {c} -> Int] /\ size \in Int
  BY <1>1, <1>3, <1>4 DEF Positive
<1> HIDE DEF q
<1>6. Total(q) = Total(p) + size
  BY <1>2, <1>3, <1>5, TotalOfMore
<1>7. Total(p) \in Int
  BY <1>2, <1>5, TotalType
<1>8. Total(q) <= MaxGross
  BY <1>2, <1>5, <1>6, <1>7, RiskAssumption DEF Room, GrossExposure, Positive
<1>9. /\ IsFiniteSet(T \cup {c})
      /\ Cardinality(T \cup {c}) = Cardinality(T) + 1
  BY <1>2, FS_AddElement
<1>10. Cardinality(T \cup {c}) <= MaxPositions
  BY <1>2, <1>9, FS_CardinalityType, RiskAssumption DEF Positive
<1>11. positions' = q
  BY DEF q
<1> QED
  BY <1>3, <1>8, <1>9, <1>10, <1>11 DEF WithinBudget, GrossExposure

\* What closing the trade of condition c at time t does to the trades.
LEMMA TradesClosed ==
  ASSUME TypeOK, BooksAgree, NEW c \in DOMAIN openByCond, NEW t \in Nat, CloseTrade(c, t)
  PROVE  LET i == openByCond[c] IN
         /\ i \in DOMAIN trades /\ ~trades[i].closed
         /\ DOMAIN trades' = DOMAIN trades
         /\ \A j \in DOMAIN trades \ {i} : trades'[j] = trades[j]
         /\ trades'[i].entry = trades[i].entry /\ trades'[i].size = trades[i].size
         /\ trades'[i].exit = t /\ trades'[i].closed
<1> DEFINE i == openByCond[c]
<1>1. PICK pnl \in PnLs :
        trades' = [trades EXCEPT ![i] = [@ EXCEPT !.exit = t, !.pnl = pnl, !.closed = TRUE]]
  BY DEF CloseTrade
<1>2. i \in DOMAIN trades /\ ~trades[i].closed /\ trades \in Seq(Trade) /\ trades[i] \in Trade
  BY DEF BooksAgree, TypeOK
<1> DEFINE ended == [trades[i] EXCEPT !.exit = t, !.pnl = pnl, !.closed = TRUE]
<1>3. /\ ended.entry = trades[i].entry /\ ended.size = trades[i].size
      /\ ended.exit = t /\ ended.closed
  BY <1>2 DEF Trade
<1>4. trades' = [trades EXCEPT ![i] = ended]
  BY <1>1
<1> HIDE DEF ended
<1>5. /\ DOMAIN trades' = DOMAIN trades
      /\ \A j \in DOMAIN trades \ {i} : trades'[j] = trades[j]
      /\ trades'[i] = ended
  BY <1>2, <1>4
<1> QED
  BY <1>2, <1>3, <1>5

\* The trades' times are what they should be.
LEMMA TradeTypes ==
  ASSUME TypeOK, NEW i \in DOMAIN trades
  PROVE  /\ trades[i].entry \in Nat /\ trades[i].exit \in Nat /\ trades[i].size \in Positive
         /\ trades[i].closed \in BOOLEAN /\ trades[i].cond \in Conditions
<1>1. trades[i] \in Trade
  BY DEF TypeOK
<1> QED
  BY <1>1 DEF Trade

\* A close takes no trade ahead of its time.
LEMMA CloseInOrder ==
  ASSUME IInv, InOrder, NEW c \in Conditions, CloseDue(c) \/ CloseNow(c)
  PROVE  InOrder'
<1>1. PICK t \in Nat : c \in DOMAIN openByCond /\ CloseTrade(c, t) /\ t <= sig.time
  <2>1. CASE CloseDue(c)
    <3>1. c \in DOMAIN openByCond /\ trades[openByCond[c]].exit \in Nat
      BY <2>1, ExitPlanned DEF CloseDue
    <3> QED
      BY <2>1, <3>1 DEF CloseDue, Due
  <2>2. CASE CloseNow(c)
    <3>1. sig.time \in Nat /\ sig.time <= sig.time
      BY DEF IInv, TypeOK
    <3> QED
      BY <2>2, <3>1 DEF CloseNow
  <2> QED
    BY <2>1, <2>2
<1> DEFINE i == openByCond[c]
<1>2. /\ i \in DOMAIN trades /\ ~trades[i].closed
      /\ DOMAIN trades' = DOMAIN trades
      /\ \A j \in DOMAIN trades \ {i} : trades'[j] = trades[j]
      /\ trades'[i].entry = trades[i].entry
      /\ trades'[i].exit = t /\ trades'[i].closed
  BY <1>1, TradesClosed DEF IInv
<1>3. UNCHANGED <<mode, window, from, last, sig, phase>>
  BY DEF CloseDue, CloseNow
<1> QED
  BY <1>1, <1>2, <1>3 DEF InOrder

\* An open is at the instant of its signal.
LEMMA OpenInOrder ==
  ASSUME IInv, InOrder, Open
  PROVE  InOrder'
<1>1. PICK size \in MinSize .. MaxPosition, horizon \in Horizons :
       trades' = Append(trades, [cond |-> sig.cond, size |-> size,
                                 entry |-> sig.time, exit |-> sig.time + horizon,
                                 pnl |-> 0, closed |-> FALSE])
  BY DEF Open
<1> DEFINE new == [cond |-> sig.cond, size |-> size, entry |-> sig.time,
                   exit |-> sig.time + horizon, pnl |-> 0, closed |-> FALSE]
<1>2. /\ DOMAIN trades' = DOMAIN trades \cup {Len(trades) + 1}
      /\ trades'[Len(trades) + 1] = new
      /\ \A j \in DOMAIN trades : trades'[j] = trades[j]
  BY <1>1 DEF IInv, TypeOK
<1>3. new.entry = sig.time /\ ~new.closed /\ sig.time <= sig.time
  BY DEF IInv, TypeOK
<1> HIDE DEF new
<1>4. UNCHANGED <<mode, window, from, last, sig>> /\ phase = "accept" /\ phase' = "next"
  BY DEF Open
<1> QED
  BY <1>2, <1>3, <1>4 DEF InOrder

\* Every step keeps the order.
LEMMA InOrderKept ==
  ASSUME IInv, InOrder, [Next]_vars
  PROVE  InOrder'
<1>1. sig.time \in Nat /\ from \in Nat /\ last \in Nat
  BY DEF IInv, TypeOK
<1>2. \A i \in DOMAIN trades : trades[i].entry \in Nat /\ trades[i].exit \in Nat
  BY TradeTypes DEF IInv
<1>3. CASE NextSignals
  <2>1. SUFFICES ASSUME mode = "strict" PROVE InOrder'
    BY <1>3 DEF NextSignals, InOrder
  <2>2. PICK start \in from .. MaxTime, round \in SUBSET Conditions :
          \E times \in [round -> start .. start] :
            /\ \E c \in round : last' = times[c]
            /\ window' = times
            /\ from' = start
    BY <1>3, <2>1 DEF NextSignals, Reach
  <2>3. PICK times \in [round -> start .. start] :
          /\ \E c \in round : last' = times[c]
          /\ window' = times
          /\ from' = start
    BY <2>2
  <2>4. start \in Int /\ from <= start
    BY <1>1, SimAssumption
  <2>5. \A c \in round : times[c] = start
    BY <2>3, <2>4
  <2>6. last' = from' /\ \A c \in DOMAIN window' : window'[c] = from'
    BY <2>3, <2>5
  <2>7. from <= from'
    BY <2>3, <2>4
  <2> QED
    BY <1>1, <1>3, <2>3, <2>4, <2>6 DEF NextSignals, InOrder
<1>4. ASSUME NEW c \in Conditions, Outrank(c) PROVE InOrder'
  BY <1>4 DEF Outrank, Bound, InOrder
<1>5. ASSUME NEW c \in Conditions, Offer(c) PROVE InOrder'
  <2>1. SUFFICES ASSUME mode = "strict" PROVE InOrder'
    BY <1>5 DEF Offer, InOrder
  <2>2. window[c] = from /\ from <= from /\ sig'.time = from /\ sig.time <= from
    BY <1>1, <1>5, <2>1 DEF Offer, InOrder
  <2>3. \A d \in DOMAIN window' : d \in DOMAIN window /\ window'[d] = window[d]
    BY <1>5 DEF Offer, Without
  <2> QED
    BY <1>1, <1>2, <1>5, <2>1, <2>2, <2>3 DEF Offer, InOrder
<1>6. CASE DueClosed \/ EndDueClosed
  <2>1. ASSUME NEW i \in DOMAIN trades, ~trades[i].closed PROVE sig.time < trades[i].exit
    <3>1. trades[i].cond \in DOMAIN openByCond /\ openByCond[trades[i].cond] = i
      BY <2>1 DEF IInv, BooksAgree
    <3>2. ~(trades[i].exit <= sig.time)
      BY <1>6, <3>1 DEF DueClosed, EndDueClosed, Due
    <3> QED
      BY <1>1, <1>2, <3>2
  <2>2. /\ UNCHANGED <<mode, window, from, last, sig, trades>>
        /\ (phase = "due" /\ phase' \in {"flatten", "accept"}) \/ phase' = "endForce"
    BY <1>6 DEF DueClosed, EndDueClosed
  <2> QED
    BY <2>1, <2>2 DEF InOrder
<1>7. CASE EndBegins
  BY <1>1, <1>2, <1>7, SimAssumption DEF EndBegins, InOrder, Positive
<1>8. CASE Flattened \/ Done \/ Reject
  BY <1>8 DEF Flattened, Done, Reject, InOrder
<1>9. CASE UNCHANGED vars
  BY <1>9 DEF vars, simVars, InOrder
<1> QED
  BY <1>3, <1>4, <1>5, <1>6, <1>7, <1>8, <1>9, OpenInOrder, CloseInOrder DEF Next

\* Closing a trade, no later than it would have ended, makes no trade span more.
LEMMA CloseFits ==
  ASSUME IInv, InOrder, AlwaysFits, NEW c \in Conditions, CloseDue(c) \/ CloseNow(c)
  PROVE  AlwaysFits'
<1> SUFFICES ASSUME mode = "strict", NEW t \in Nat PROVE Fits(t)'
  BY DEF AlwaysFits, CloseDue, CloseNow
<1> DEFINE i == openByCond[c]
<1>1. PICK e \in Nat : c \in DOMAIN openByCond /\ CloseTrade(c, e) /\ e <= trades[i].exit
  <2>1. CASE CloseDue(c)
    <3>1. c \in DOMAIN openByCond /\ trades[openByCond[c]].exit \in Nat
      BY <2>1, ExitPlanned DEF CloseDue
    <3> QED
      BY <2>1, <3>1 DEF CloseDue
  <2>2. CASE CloseNow(c)
    <3>1. sig.time \in Nat /\ c \in DOMAIN openByCond /\ CloseTrade(c, sig.time)
      BY <2>2 DEF IInv, TypeOK, CloseNow
    <3>2. i \in DOMAIN trades /\ ~trades[i].closed
      BY <3>1 DEF IInv, BooksAgree
    <3>3. sig.time < trades[i].exit
      BY <2>2, <3>2 DEF CloseNow, InOrder
    <3>4. trades[i].exit \in Nat
      BY <3>2, TradeTypes DEF IInv
    <3> QED
      BY <3>1, <3>3, <3>4
  <2> QED
    BY <2>1, <2>2
<1>2. /\ i \in DOMAIN trades
      /\ DOMAIN trades' = DOMAIN trades
      /\ \A j \in DOMAIN trades \ {i} : trades'[j] = trades[j]
      /\ trades'[i].entry = trades[i].entry /\ trades'[i].size = trades[i].size
      /\ trades'[i].exit = e
  BY <1>1, TradesClosed DEF IInv
<1>3. trades[i].exit \in Nat
  BY <1>2, TradeTypes DEF IInv
<1>4. \A j \in DOMAIN trades : trades'[j].size = trades[j].size
  BY <1>2
<1>5. Spanning(t)' \in SUBSET Spanning(t)
  <2>1. ASSUME NEW j \in Spanning(t)' PROVE j \in Spanning(t)
    <3>1. j \in DOMAIN trades /\ trades'[j].entry <= t /\ t < trades'[j].exit
      BY <1>2 DEF Spanning
    <3>2. CASE j = i
      BY <1>1, <1>2, <1>3, <3>1, <3>2 DEF Spanning
    <3>3. CASE j # i
      BY <1>2, <3>1, <3>3 DEF Spanning
    <3> QED
      BY <3>2, <3>3
  <2> QED
    BY <2>1
<1> DEFINE T == Spanning(t)
           S == Spanning(t)'
           sizes == [j \in DOMAIN trades |-> trades[j].size]
<1>6. T \subseteq DOMAIN trades /\ S \subseteq DOMAIN trades
  BY <1>2 DEF Spanning
<1>7. \A j \in T : sizes[j] \in Positive
  BY <1>6, TradeTypes DEF IInv
<1>8. /\ [j \in T |-> trades[j].size] = [j \in T |-> sizes[j]]
      /\ [j \in S |-> trades'[j].size] = [j \in S |-> sizes[j]]
  BY <1>4, <1>6
<1>9. /\ IsFiniteSet(T) /\ Cardinality(T) <= MaxPositions
      /\ Total([j \in T |-> trades[j].size]) <= MaxGross
  BY DEF AlwaysFits, Fits
<1> HIDE DEF sizes, T, S
<1>10. S \in SUBSET T
  BY <1>5 DEF S, T
<1>11. /\ IsFiniteSet(S) /\ Cardinality(S) <= Cardinality(T)
       /\ Total([j \in S |-> sizes[j]]) <= Total([j \in T |-> sizes[j]])
  BY <1>7, <1>9, <1>10, FewerFit
<1>12. Cardinality(S) <= MaxPositions
  BY <1>9, <1>11, FS_CardinalityType, RiskAssumption DEF Positive
<1>13. /\ Total([j \in S |-> sizes[j]]) \in Int
       /\ Total([j \in T |-> sizes[j]]) \in Int
  <2>1. [j \in S |-> sizes[j]] \in [S -> Int] /\ [j \in T |-> sizes[j]] \in [T -> Int]
    BY <1>7, <1>10 DEF Positive
  <2> QED
    BY <1>9, <1>11, <2>1, TotalType
<1>14. Total([j \in S |-> sizes[j]]) <= MaxGross
  BY <1>8, <1>9, <1>11, <1>13, RiskAssumption DEF Positive
<1> QED
  BY <1>8, <1>11, <1>12, <1>14 DEF Fits, S

\* A trade that is opened spans times at which only open trades span.
LEMMA OpenFits ==
  ASSUME IInv, IInv', WithinBudget', InOrder, AlwaysFits, Open
  PROVE  AlwaysFits'
<1> SUFFICES ASSUME mode = "strict", NEW t \in Nat PROVE Fits(t)'
  BY DEF AlwaysFits, Open
<1>1. PICK size \in MinSize .. MaxPosition, horizon \in Horizons :
       trades' = Append(trades, [cond |-> sig.cond, size |-> size,
                                 entry |-> sig.time, exit |-> sig.time + horizon,
                                 pnl |-> 0, closed |-> FALSE])
  BY DEF Open
<1> DEFINE new == [cond |-> sig.cond, size |-> size, entry |-> sig.time,
                   exit |-> sig.time + horizon, pnl |-> 0, closed |-> FALSE]
           n == Len(trades) + 1
<1>2. /\ DOMAIN trades' = DOMAIN trades \cup {n} /\ n \notin DOMAIN trades
      /\ trades'[n] = new
      /\ \A j \in DOMAIN trades : trades'[j] = trades[j]
  BY <1>1 DEF IInv, TypeOK
<1>3. sig.time \in Nat /\ new.entry = sig.time
  BY DEF IInv, TypeOK
<1> HIDE DEF new, n
<1>4. CASE t < sig.time
  <2>1. ~(trades'[n].entry <= t)
    BY <1>2, <1>3, <1>4
  <2>2. Spanning(t)' = Spanning(t)
    BY <1>2, <2>1 DEF Spanning
  <2>3. \A j \in Spanning(t) : trades'[j].size = trades[j].size
    BY <1>2 DEF Spanning
  <2>4. [j \in Spanning(t)' |-> trades'[j].size] = [j \in Spanning(t) |-> trades[j].size]
    BY <2>2, <2>3
  <2> QED
    BY <2>2, <2>4 DEF AlwaysFits, Fits
<1>5. CASE sig.time <= t
  <2> DEFINE S == Spanning(t)'
             T == DOMAIN positions'
             p == positions'
             m == [j \in S |-> trades'[j].cond]
             f == [j \in S |-> trades'[j].size]
  <2>1. ASSUME NEW j \in S
        PROVE  /\ trades'[j].cond \in T
               /\ openByCond'[trades'[j].cond] = j
               /\ trades'[j].size = p[trades'[j].cond]
    <3>1. j \in DOMAIN trades' /\ t < trades'[j].exit
      BY DEF Spanning
    <3>2. ~trades'[j].closed
      <4>1. CASE j = n
        BY <1>2, <4>1 DEF new
      <4>2. CASE j # n
        <5>1. j \in DOMAIN trades /\ trades'[j] = trades[j]
          BY <1>2, <3>1, <4>2
        <5>2. trades[j].closed => trades[j].exit <= sig.time
          BY <5>1 DEF InOrder
        <5>3. trades[j].exit \in Nat
          BY <5>1, TradeTypes DEF IInv
        <5> QED
          BY <1>3, <1>5, <3>1, <5>1, <5>2, <5>3
      <4> QED
        BY <4>1, <4>2
    <3> QED
      BY <3>1, <3>2 DEF IInv, BooksAgree
  <2>2. p \in [T -> Nat]
    <3>1. p = [x \in T |-> p[x]] /\ \A x \in T : p[x] \in Positive
      BY MapIs DEF IInv, TypeOK
    <3> QED
      BY <3>1 DEF Positive
  <2>3. IsFiniteSet(T) /\ Cardinality(T) <= MaxPositions /\ Total(p) <= MaxGross
    BY DEF WithinBudget, GrossExposure
  <2> HIDE DEF T, S, p
  <2>4. m \in Injection(S, T)
    BY <2>1 DEF Injection, IsInjective
  <2>5. f \in [S -> Nat] /\ \A j \in S : f[j] = p[m[j]]
    BY <2>1, <2>2
  <2> HIDE DEF m, f
  <2>6. Total(f) <= Total(p) /\ Cardinality(S) <= Cardinality(T) /\ IsFiniteSet(S)
    BY <2>2, <2>3, <2>4, <2>5, TotalOfSome
  <2>7. Total(f) \in Int /\ Total(p) \in Int
    <3>1. f \in [S -> Int] /\ p \in [T -> Int]
      BY <2>2, <2>5
    <3> QED
      BY <2>3, <2>6, <3>1, TotalType
  <2>8. Cardinality(S) <= MaxPositions
    BY <2>3, <2>6, FS_CardinalityType, RiskAssumption DEF Positive
  <2>9. Total(f) <= MaxGross
    BY <2>3, <2>6, <2>7, RiskAssumption DEF Positive
  <2> QED
    BY <2>6, <2>8, <2>9 DEF Fits, S, f
<1> QED
  BY <1>3, <1>4, <1>5

Budget == WithinBudget /\ InOrder /\ AlwaysFits

\* There is no exposure at first.
LEMMA BudgetAtFirst == Init => Budget
<1> SUFFICES ASSUME Init PROVE Budget
  OBVIOUS
<1>1. DOMAIN positions = {} /\ positions \in [{} -> Int]
  BY EmptyMap DEF Init, RiskInit, Empty
<1>0. /\ IsFiniteSet({}) /\ Cardinality({}) = 0
      /\ 0 <= MaxPositions /\ 0 <= MaxGross
      /\ \A g \in [{} -> Int] : Total(g) = 0
  BY FS_EmptySet, TotalType, RiskAssumption DEF Positive
<1>2. WithinBudget
  BY <1>0, <1>1 DEF WithinBudget, GrossExposure
<1>3. InOrder
  BY EmptyMap DEF Init, InOrder
<1>4. ASSUME NEW t \in Nat PROVE Fits(t)
  <2>1. Spanning(t) = {}
    BY DEF Init, Spanning
  <2>2. [i \in Spanning(t) |-> trades[i].size] \in [{} -> Int]
    BY <2>1
  <2> QED
    BY ONLY <1>0, <2>1, <2>2 DEF Fits
<1> QED
  BY <1>2, <1>3, <1>4 DEF Budget, AlwaysFits

\* Every step keeps the budget.
LEMMA BudgetKept ==
  ASSUME IInv, IInv', Budget, [Next]_vars
  PROVE  Budget'
<1> USE DEF Budget
<1>1. InOrder'
  BY InOrderKept
<1>2. CASE Open
  <2>1. PICK size \in MinSize .. MaxPosition :
          Accepts(sig.cond, size, sig.time) /\ OnOpen(sig.cond, size)
    BY <1>2 DEF Open
  <2>2. sig.cond \in Conditions /\ size \in Positive
    BY <1>2, <2>1, RiskAssumption DEF Open, IInv, Judging, Positive
  <2>3. WithinBudget'
    BY <2>1, <2>2, OpenWithin DEF OnOpen, IInv
  <2> QED
    BY <1>1, <1>2, <2>3, OpenFits
<1>3. ASSUME NEW c \in Conditions, CloseDue(c) \/ CloseNow(c) PROVE Budget'
  <2>1. positions' = Without(positions, c)
    BY <1>3 DEF CloseDue, CloseNow, CloseTrade, OnClose
  <2> QED
    BY <1>1, <1>3, <2>1, CloseWithin, CloseFits DEF IInv
<1>4. ASSUME UNCHANGED <<positions, mode, trades>> PROVE Budget'
  BY <1>1, <1>4, SameBudget DEF AlwaysFits, Fits, Spanning
<1>5. \/ NextSignals \/ DueClosed \/ Flattened \/ Reject \/ EndBegins \/ EndDueClosed \/ Done
      \/ (\E c \in Conditions : Outrank(c) \/ Offer(c)) \/ UNCHANGED vars
      => UNCHANGED <<positions, mode, trades>>
  BY DEF NextSignals, DueClosed, Flattened, Reject, EndBegins, EndDueClosed, Done, Outrank,
         Offer, vars, simVars, riskVars
<1> QED
  BY <1>2, <1>3, <1>4, <1>5 DEF Next

\* The budget is kept in the manager's view, and in simulated time when signals come in
\* strict order: at no time do more trades span it, or bigger ones, than the budget has
\* room for (Accept, OnOpen, OnClose, closeDue).
THEOREM BudgetIsKept == Spec => []BudgetHolds
<1>1. Budget => BudgetHolds
  BY SimAssumption DEF Budget, WithinBudget, AlwaysFits, Fits, BudgetHolds
<1>2. Spec => []Budget
  BY Invariance, BudgetAtFirst, BudgetKept, PTL DEF Spec
<1> QED
  BY <1>1, <1>2, PTL

(***************************************************************************)
(* Resolution.                                                             *)
(***************************************************************************)
-----------------------------------------------------------------------------
(* The stream.                                                             *)

\* What the refresh holds was filtered: only a market resolved since then is in it.
OffStream ==
  /\ pending # Res!NoSet => pending.set \cap resolvedAssets \subseteq late
  /\ Res!ResolvedOffStream

\* A resolved market is on the stream only between a refresh that had filtered its set
\* before the message, and the next refresh.
THEOREM ResolvedLeaveStream == Res!Spec => []ResolvedOffStream
<1>1. Res!Init => OffStream
  BY DEF Res!Init, OffStream, Res!ResolvedOffStream
<1>2. OffStream /\ [Res!Next]_(Res!vars) => OffStream'
  <2> SUFFICES ASSUME OffStream, [Res!Next]_(Res!vars) PROVE OffStream'
    OBVIOUS
  <2> USE DEF OffStream, Res!ResolvedOffStream
  <2>1. ASSUME NEW r \in Res!Resolutions, NEW withTokens \in BOOLEAN,
               Res!MarketResolved(r, withTokens)
        PROVE  OffStream'
    BY <2>1 DEF Res!MarketResolved, Res!Resolve
  <2>2. CASE Res!Publish
    BY <2>2 DEF Res!Publish
  <2>3. CASE Res!Refresh
    BY <2>3 DEF Res!Refresh
  <2>4. CASE Res!SetDesired
    BY <2>4 DEF Res!SetDesired
  <2>5. CASE Res!TakeAll \/ Res!ApplyRow \/ Res!ApplyFails \/ Res!MarketSaved \/ UNCHANGED Res!vars
    BY <2>5 DEF Res!TakeAll, Res!ApplyRow, Res!ApplyFails, Res!MarketSaved, Res!vars, Res!streamVars
  <2>6. CASE Res!Restart
    BY <2>6 DEF Res!Restart
  <2> QED
    BY <2>1, <2>2, <2>3, <2>4, <2>5, <2>6 DEF Res!Next
<1> QED
  BY <1>1, <1>2, PTL DEF Res!Spec, OffStream, ResolvedOffStream

-----------------------------------------------------------------------------
(* The queue.                                                              *)

OnePerKey(q) == q \subseteq Res!Resolutions /\ \A a, b \in q : a.key = b.key => a = b

\* A resolution with a winner for the message a, as recent as it.
Backs(e, a) == e.key = a.key /\ e.stamp = a.stamp /\ e.win # Res!NoWinner

\* Enqueue changes one key, never for an older message, and keeps the winner of the
\* messages of one stamp.
LEMMA EnqueuedIs ==
  ASSUME NEW q, OnePerKey(q), NEW r \in Res!Resolutions
  PROVE  /\ OnePerKey(Res!Enqueued(q, r))
         /\ \A a \in q : a.key # r.key => a \in Res!Enqueued(q, r)
         /\ \A a \in Res!Enqueued(q, r) : a.key # r.key => a \in q
         /\ \E a \in Res!Enqueued(q, r) :
              /\ a.key = r.key /\ r.stamp <= a.stamp
              /\ \A b \in q : b.key = r.key => b.stamp <= a.stamp
              /\ a.stamp = r.stamp \/ a \in q
              /\ \A b \in q : Backs(b, a) => a.win # Res!NoWinner
              /\ Backs(r, a) => a.win # Res!NoWinner
              /\ a.win # Res!NoWinner => Backs(r, a) \/ \E b \in q : Backs(b, a)
<1> DEFINE old == {e \in q : e.key = r.key}
<1> USE DEF Res!Resolutions, OnePerKey, Backs
<1>1. CASE old = {}
  <2>1. Res!Enqueued(q, r) = q \cup {r}
    BY <1>1 DEF Res!Enqueued
  <2> QED
    BY <1>1, <2>1
<1>2. ASSUME NEW e \in q, e.key = r.key, r.stamp < e.stamp
      PROVE  Res!Enqueued(q, r) = q
  BY <1>2 DEF Res!Enqueued
<1>3. ASSUME NEW e \in q, e.key = r.key, e.stamp < r.stamp
      PROVE  Res!Enqueued(q, r) = (q \ {e}) \cup {r}
  <2>1. old = {e} /\ ~(r.stamp < e.stamp) /\ e.stamp # r.stamp
    BY <1>3
  <2> QED
    BY <2>1 DEF Res!Enqueued
<1>4. ASSUME NEW e \in q, e.key = r.key, e.stamp = r.stamp
      PROVE  Res!Enqueued(q, r) = (q \ {e}) \cup {Res!Merged(e, r)}
  <2>1. old = {e} /\ ~(r.stamp < e.stamp)
    BY <1>4
  <2> QED
    BY <1>4, <2>1 DEF Res!Enqueued
<1>5. ASSUME NEW e \in q
      PROVE  /\ Res!Merged(e, r) \in Res!Resolutions /\ Res!Merged(e, r).key = r.key
             /\ Res!Merged(e, r).stamp = r.stamp
             /\ Res!Merged(e, r).win = IF r.win = Res!NoWinner THEN e.win ELSE r.win
  BY DEF Res!Merged
<1>6. CASE old # {}
  <2>1. PICK e \in q : e.key = r.key
    BY <1>6
  <2>2. e.stamp \in Int /\ r.stamp \in Int
    OBVIOUS
  <2>3. CASE r.stamp < e.stamp
    BY <1>2, <2>1, <2>2, <2>3
  <2>4. CASE e.stamp < r.stamp
    BY <1>3, <2>1, <2>2, <2>4
  <2>5. CASE e.stamp = r.stamp
    <3> DEFINE m == Res!Merged(e, r)
    <3>1. Res!Enqueued(q, r) = (q \ {e}) \cup {m}
      BY <1>4, <2>1, <2>5
    <3>2. m \in Res!Resolutions /\ m.key = r.key /\ m.stamp = r.stamp
          /\ m.win = IF r.win = Res!NoWinner THEN e.win ELSE r.win
      BY <1>5
    <3> HIDE DEF m
    <3> QED
      BY <2>1, <2>2, <2>5, <3>1, <3>2
  <2> QED
    BY <2>2, <2>3, <2>4, <2>5
<1> QED
  BY <1>1, <1>6

\* Of the key it enters, the queue holds the message alone; the others stay.
LEMMA OneForKey ==
  ASSUME NEW q, OnePerKey(q), NEW r \in Res!Resolutions, NEW n \in Res!Enqueued(q, r), n.key = r.key
  PROVE  /\ \A m \in Res!Enqueued(q, r) : m.key = r.key => m = n
         /\ \A m \in Res!Enqueued(q, r) : m.key # r.key => m \in q
         /\ \A m \in q : m.key # r.key => m \in Res!Enqueued(q, r)
<1>1. OnePerKey(Res!Enqueued(q, r))
  BY EnqueuedIs
<1>2. \A m \in Res!Enqueued(q, r) : m.key = r.key => m = n
  BY <1>1 DEF OnePerKey
<1> QED
  BY <1>2, EnqueuedIs

\* A batch that is put back changes the keys it has, each as Enqueue would.
LEMMA RequeuedIs ==
  ASSUME NEW q, OnePerKey(q), NEW S, OnePerKey(S)
  PROVE  /\ OnePerKey(Res!Requeued(q, S))
         /\ \A a \in q : (\A r \in S : r.key # a.key) => a \in Res!Requeued(q, S)
         /\ \A a \in Res!Requeued(q, S) :
              a \in q \/ \E r \in S : a \in Res!Enqueued(q, r) /\ a.key = r.key
         /\ \A r \in S : \A a \in Res!Enqueued(q, r) : a.key = r.key => a \in Res!Requeued(q, S)
<1> DEFINE Back(r) == CHOOSE e \in Res!Enqueued(q, r) : e.key = r.key
<1> DEFINE rest == {e \in q : \A r \in S : r.key # e.key}
<1>1. Res!Requeued(q, S) = rest \cup {Back(r) : r \in S}
  BY DEF Res!Requeued
<1>2. ASSUME NEW r \in S
      PROVE  /\ OnePerKey(Res!Enqueued(q, r))
             /\ Back(r) \in Res!Enqueued(q, r) /\ Back(r).key = r.key
             /\ \A a \in Res!Enqueued(q, r) : a.key = r.key => a = Back(r)
  <2>1. r \in Res!Resolutions
    BY DEF OnePerKey
  <2>2. OnePerKey(Res!Enqueued(q, r)) /\ \E a \in Res!Enqueued(q, r) : a.key = r.key
    BY <2>1, EnqueuedIs
  <2> QED
    BY <2>2 DEF OnePerKey
<1> HIDE DEF Back
<1>3. Res!Requeued(q, S) \subseteq Res!Resolutions
  BY <1>1, <1>2 DEF OnePerKey
<1>4. ASSUME NEW a \in Res!Requeued(q, S), NEW b \in Res!Requeued(q, S), a.key = b.key
      PROVE  a = b
  <2>1. CASE a \in rest
    BY <1>1, <1>2, <1>4, <2>1 DEF OnePerKey
  <2>2. CASE b \in rest
    BY <1>1, <1>2, <1>4, <2>2 DEF OnePerKey
  <2>3. ASSUME NEW r \in S, NEW s \in S, a = Back(r), b = Back(s)
        PROVE  a = b
    BY <1>2, <1>4, <2>3 DEF OnePerKey
  <2> QED
    BY <1>1, <2>1, <2>2, <2>3
<1> QED
  BY <1>1, <1>2, <1>3, <1>4 DEF OnePerKey

-----------------------------------------------------------------------------
(* The labels.                                                             *)

\* One resolution for each key in the queue, in the batch and among the newest.
Keyed ==
  /\ OnePerKey(queue) /\ OnePerKey(newest) /\ OnePerKey(batch.taken)
  /\ batch \in [taken : SUBSET Res!Resolutions, todo : SUBSET Res!Resolutions]
  /\ batch.todo \subseteq batch.taken

\* Nothing that waits or is being applied is newer than the newest.
NoneNewer ==
  \A e \in queue \cup batch.taken : \E r \in newest : r.key = e.key /\ e.stamp <= r.stamp

Landed(k) == row[k[1]].win # Res!NoWinner \/ k \in missed

\* A winner of the newest message waits in one as recent, or is in the database.
Kept ==
  \A r \in newest : r.win # Res!NoWinner =>
    (\E e \in queue \cup batch.todo : Backs(e, r)) \/ Landed(r.key)

RowTypes ==
  row \in [Markets -> [is : {"absent", "open", "closed"}, win : Winners \cup {Res!NoWinner}]]

QueueInv == Keyed /\ NoneNewer /\ Kept /\ RowTypes

\* The handler enters a message in the queue and among the newest alike.
LEMMA AfterMessage ==
  ASSUME QueueInv, NEW r \in Res!Resolutions, NEW withTokens \in BOOLEAN,
         Res!MarketResolved(r, withTokens)
  PROVE  QueueInv'
<1> USE DEF QueueInv, Res!Resolutions
<1>1. /\ queue' = Res!Enqueued(queue, r) /\ newest' = Res!Enqueued(newest, r)
      /\ batch' = batch /\ row' = row /\ missed' = missed
  BY DEF Res!MarketResolved
<1>2. Keyed'
  BY <1>1, EnqueuedIs DEF Keyed
<1>3. RowTypes'
  BY <1>1 DEF RowTypes
<1>4. PICK n \in newest' :
        /\ n.key = r.key /\ r.stamp <= n.stamp
        /\ \A b \in newest : b.key = r.key => b.stamp <= n.stamp
        /\ n.stamp = r.stamp \/ n \in newest
        /\ n.win # Res!NoWinner => Backs(r, n) \/ \E b \in newest : Backs(b, n)
  BY <1>1, EnqueuedIs DEF Keyed
<1>5. PICK a \in queue' :
        /\ a.key = r.key /\ r.stamp <= a.stamp
        /\ a.stamp = r.stamp \/ a \in queue
        /\ \A b \in queue : b.key = r.key => b.stamp <= a.stamp
        /\ \A b \in queue : Backs(b, a) => a.win # Res!NoWinner
        /\ Backs(r, a) => a.win # Res!NoWinner
  BY <1>1, EnqueuedIs DEF Keyed
<1>6. /\ \A m \in newest' : m.key = r.key => m = n
      /\ \A m \in newest' : m.key # r.key => m \in newest
      /\ \A m \in newest : m.key # r.key => m \in newest'
      /\ \A e \in queue' : e.key = r.key => e = a
      /\ \A e \in queue' : e.key # r.key => e \in queue
      /\ \A e \in queue : e.key # r.key => e \in queue'
  <2>1. OnePerKey(newest) /\ OnePerKey(queue)
    BY DEF Keyed
  <2>2. /\ \A m \in newest' : m.key = r.key => m = n
        /\ \A m \in newest' : m.key # r.key => m \in newest
        /\ \A m \in newest : m.key # r.key => m \in newest'
    BY <1>1, <1>4, <2>1, OneForKey
  <2>3. /\ \A e \in queue' : e.key = r.key => e = a
        /\ \A e \in queue' : e.key # r.key => e \in queue
        /\ \A e \in queue : e.key # r.key => e \in queue'
    BY <1>1, <1>5, <2>1, OneForKey
  <2> QED
    BY <2>2, <2>3
<1>7. /\ queue \subseteq Res!Resolutions /\ newest \subseteq Res!Resolutions
      /\ batch.taken \subseteq Res!Resolutions /\ n \in Res!Resolutions /\ a \in Res!Resolutions
      /\ \A e \in Res!Resolutions : e.stamp \in Int
  BY <1>2, <1>4, <1>5 DEF Keyed, OnePerKey
<1>8. a.stamp <= n.stamp
  BY <1>4, <1>5, <1>7 DEF NoneNewer
<1>9. NoneNewer'
  <2>1. ASSUME NEW e \in queue' \cup batch.taken
        PROVE  \E m \in newest' : m.key = e.key /\ e.stamp <= m.stamp
    <3>1. CASE e.key # r.key
      BY <1>6, <3>1 DEF NoneNewer
    <3>2. CASE e.key = r.key /\ e \in queue'
      BY <1>6, <1>8, <3>2, <1>4
    <3>3. CASE e.key = r.key /\ e \in batch.taken
      <4>1. PICK m \in newest : m.key = e.key /\ e.stamp <= m.stamp
        BY <3>3 DEF NoneNewer
      <4> QED
        BY <1>4, <1>7, <3>3, <4>1
    <3> QED
      BY <3>1, <3>2, <3>3
  <2> QED
    BY <1>1, <2>1 DEF NoneNewer
<1>10. Kept'
  <2>1. ASSUME NEW m \in newest', m.win # Res!NoWinner
        PROVE  (\E e \in queue' \cup batch.todo : Backs(e, m)) \/ Landed(m.key)
    <3>1. CASE m.key # r.key
      BY <1>6, <2>1, <3>1 DEF Kept, Backs
    <3>2. CASE m.key = r.key /\ Backs(r, n)
      <4>1. m = n /\ a.stamp = n.stamp
        BY <1>5, <1>6, <1>7, <1>8, <3>2 DEF Backs
      <4> QED
        BY <1>4, <1>5, <3>2, <4>1 DEF Backs
    <3>3. CASE m.key = r.key /\ \E b \in newest : Backs(b, n)
      <4>1. PICK b \in newest : Backs(b, n) /\ m = n
        BY <1>6, <3>3
      <4>2. (\E e \in queue \cup batch.todo : Backs(e, b)) \/ Landed(b.key)
        BY <4>1 DEF Kept, Backs
      <4>3. CASE Landed(b.key) \/ \E e \in batch.todo : Backs(e, b)
        BY <4>1, <4>3 DEF Backs
      <4>4. ASSUME NEW e \in queue, Backs(e, b)
            PROVE  Backs(a, m)
        <5>1. e.key = r.key /\ e.stamp = n.stamp /\ a.stamp = n.stamp
          BY <1>4, <1>5, <1>7, <1>8, <4>1, <4>4 DEF Backs
        <5> QED
          BY <1>4, <1>5, <4>1, <4>4, <5>1 DEF Backs
      <4> QED
        BY <4>2, <4>3, <4>4
    <3> QED
      BY <1>4, <1>6, <2>1, <3>1, <3>2, <3>3
  <2> QED
    BY <1>1, <2>1 DEF Kept, Landed
<1> QED
  BY <1>2, <1>3, <1>9, <1>10

\* A batch that is put back leaves each label in the queue, or a newer one in its place.
LEMMA AfterFailure ==
  ASSUME QueueInv, Res!ApplyFails
  PROVE  QueueInv'
<1> USE DEF QueueInv, Res!Resolutions
<1> DEFINE S == batch.taken
<1>1. /\ queue' = Res!Requeued(queue, S) /\ newest' = newest /\ row' = row /\ missed' = missed
      /\ batch' = [taken |-> {}, todo |-> {}]
  BY DEF Res!ApplyFails, Res!NoBatch
<1>2. OnePerKey(queue) /\ OnePerKey(S) /\ batch.todo \subseteq S /\ OnePerKey(newest)
  BY DEF Keyed
<1>3. Keyed' /\ RowTypes'
  <2>1. OnePerKey(queue')
    BY <1>1, <1>2, RequeuedIs
  <2>2. OnePerKey({})
    BY DEF OnePerKey
  <2> QED
    BY <1>1, <1>2, <2>1, <2>2 DEF Keyed, RowTypes
<1>4. /\ queue \subseteq Res!Resolutions /\ S \subseteq Res!Resolutions
      /\ newest \subseteq Res!Resolutions
      /\ \A e \in Res!Resolutions : e.stamp \in Int
  BY <1>2 DEF OnePerKey
<1>5. ASSUME NEW r \in S
      PROVE  \E a \in queue' :
               /\ a.key = r.key /\ r.stamp <= a.stamp
               /\ a.stamp = r.stamp \/ a \in queue
               /\ \A b \in queue : b.key = r.key => b.stamp <= a.stamp
               /\ \A b \in queue : Backs(b, a) => a.win # Res!NoWinner
               /\ Backs(r, a) => a.win # Res!NoWinner
  <2>1. PICK a \in Res!Enqueued(queue, r) :
           /\ a.key = r.key /\ r.stamp <= a.stamp
           /\ a.stamp = r.stamp \/ a \in queue
           /\ \A b \in queue : b.key = r.key => b.stamp <= a.stamp
           /\ \A b \in queue : Backs(b, a) => a.win # Res!NoWinner
           /\ Backs(r, a) => a.win # Res!NoWinner
    <3>1. OnePerKey(queue) /\ r \in Res!Resolutions
      BY <1>2, <1>4
    <3> QED
      BY <3>1, EnqueuedIs
  <2>2. a \in queue'
    BY <1>1, <1>2, <2>1, RequeuedIs
  <2> QED
    BY <2>1, <2>2
<1>6. NoneNewer'
  <2>1. ASSUME NEW e \in queue' PROVE \E m \in newest : m.key = e.key /\ e.stamp <= m.stamp
    <3>1. CASE e \in queue
      BY <3>1 DEF NoneNewer
    <3>2. ASSUME NEW r \in S, e \in Res!Enqueued(queue, r), e.key = r.key
          PROVE  \E m \in newest : m.key = e.key /\ e.stamp <= m.stamp
      <4>1. e.stamp = r.stamp \/ e \in queue
        BY <1>2, <1>4, <3>2, EnqueuedIs DEF OnePerKey
      <4> QED
        BY <3>1, <3>2, <4>1 DEF NoneNewer
    <3> QED
      BY <1>1, <1>2, <3>1, <3>2, RequeuedIs
  <2> QED
    BY <1>1, <2>1 DEF NoneNewer
<1>7. Kept'
  <2>1. ASSUME NEW m \in newest, m.win # Res!NoWinner, ~Landed(m.key)
        PROVE  \E a \in queue' : Backs(a, m)
    <3>1. PICK e \in queue \cup batch.todo : Backs(e, m)
      BY <2>1 DEF Kept
    <3>2. \A f \in queue \cup S : f.key = m.key => f.stamp <= m.stamp
      BY <1>2 DEF NoneNewer, OnePerKey
    <3>3. CASE \E r \in S : r.key = m.key
      <4>1. PICK r \in S : r.key = m.key
        BY <3>3
      <4>2. PICK a \in queue' :
               /\ a.key = r.key /\ r.stamp <= a.stamp
               /\ a.stamp = r.stamp \/ a \in queue
               /\ \A b \in queue : b.key = r.key => b.stamp <= a.stamp
               /\ \A b \in queue : Backs(b, a) => a.win # Res!NoWinner
               /\ Backs(r, a) => a.win # Res!NoWinner
        BY <1>5
      <4>3. a.stamp <= m.stamp
        BY <3>2, <4>1, <4>2
      <4>4. a \in Res!Resolutions
        BY <1>3, <1>1, <4>2 DEF Keyed, OnePerKey
      <4>5. CASE e \in queue
        BY <1>4, <3>1, <4>1, <4>2, <4>3, <4>4, <4>5 DEF Backs
      <4>6. CASE e \in batch.todo
        <5>1. e = r
          BY <1>2, <3>1, <4>1, <4>6 DEF OnePerKey, Backs
        <5> QED
          BY <1>4, <3>1, <4>1, <4>2, <4>3, <4>4, <5>1 DEF Backs
      <4> QED
        BY <3>1, <4>5, <4>6
    <3>4. CASE ~\E r \in S : r.key = m.key
      BY <1>1, <1>2, <3>1, <3>4, RequeuedIs DEF Backs
    <3> QED
      BY <3>3, <3>4
  <2> QED
    BY <1>1, <2>1 DEF Kept, Landed
<1> QED
  BY <1>3, <1>6, <1>7

\* A label whose row was updated is in the database, or its market had no row.
LEMMA AfterUpdate ==
  ASSUME QueueInv, Res!ApplyRow
  PROVE  QueueInv'
<1> USE DEF QueueInv
<1>1. PICK r \in batch.todo :
        /\ batch' = IF batch.todo = {r} THEN Res!NoBatch ELSE [batch EXCEPT !.todo = @ \ {r}]
        /\ row' = [row EXCEPT ![r.key[1]] =
                     IF @.is = "absent" THEN @
                     ELSE [is  |-> "closed", win |-> IF r.win = Res!NoWinner THEN @.win ELSE r.win]]
        /\ missed' = missed \cup (IF row[r.key[1]].is = "absent" THEN {r.key} ELSE {})
  BY DEF Res!ApplyRow
<1>2. queue' = queue /\ newest' = newest
  BY DEF Res!ApplyRow
<1>3. r \in Res!Resolutions /\ r.key[1] \in Markets /\ r.win \in Winners \cup {Res!NoWinner}
  BY DEF Keyed, OnePerKey, Res!Resolutions, Res!Keys
<1>4. batch'.taken \subseteq batch.taken /\ batch'.todo \subseteq batch'.taken
  <2>1. CASE batch.todo = {r}
    BY <1>1, <2>1 DEF Res!NoBatch
  <2>2. CASE batch.todo # {r}
    BY <1>1, <2>2 DEF Keyed
  <2> QED
    BY <2>1, <2>2
<1>5. Keyed'
  <2>1. batch' \in [taken : SUBSET Res!Resolutions, todo : SUBSET Res!Resolutions]
    BY <1>1 DEF Keyed, Res!NoBatch
  <2> QED
    BY <1>2, <1>4, <2>1 DEF Keyed, OnePerKey
<1>6. NoneNewer'
  BY <1>2, <1>4 DEF NoneNewer
<1>7. RowTypes'
  <2>1. [is  |-> "closed", win |-> IF r.win = Res!NoWinner THEN row[r.key[1]].win ELSE r.win]
          \in [is : {"absent", "open", "closed"}, win : Winners \cup {Res!NoWinner}]
    BY <1>3 DEF RowTypes
  <2> QED
    BY <1>1, <2>1 DEF RowTypes
<1>8. ASSUME NEW m \in Markets
      PROVE  /\ row[m].win # Res!NoWinner => row'[m].win # Res!NoWinner
             /\ m = r.key[1] /\ row[m].is # "absent" /\ r.win # Res!NoWinner =>
                  row'[m].win # Res!NoWinner
  <2>1. CASE m # r.key[1] \/ row[m].is = "absent"
    BY <1>1, <1>3, <2>1 DEF RowTypes
  <2>2. CASE m = r.key[1] /\ row[m].is # "absent"
    <3>1. row'[m].win = IF r.win = Res!NoWinner THEN row[m].win ELSE r.win
      BY <1>1, <1>3, <2>2 DEF RowTypes
    <3> QED
      BY <2>2, <3>1
  <2> QED
    BY <2>1, <2>2
<1>9. Kept'
  <2>1. ASSUME NEW n \in newest, n.win # Res!NoWinner
        PROVE  (\E e \in queue \cup batch'.todo : Backs(e, n)) \/ Landed(n.key)'
    <3>1. n.key[1] \in Markets
      BY DEF Keyed, OnePerKey, Res!Resolutions, Res!Keys
    <3>2. CASE Landed(n.key)
      BY <1>1, <1>8, <3>1, <3>2 DEF Landed
    <3>3. ASSUME NEW e \in queue \cup batch.todo, Backs(e, n)
          PROVE  (\E f \in queue \cup batch'.todo : Backs(f, n)) \/ Landed(n.key)'
      <4>1. CASE e = r
        BY <1>1, <1>8, <3>1, <3>3, <4>1 DEF Landed, Backs
      <4>2. CASE e # r
        <5>1. e \in queue \cup batch'.todo
          <6>1. CASE e \in queue
            BY <6>1
          <6>2. CASE e \in batch.todo
            <7>1. batch.todo # {r}
              BY <4>2, <6>2
            <7>2. batch'.todo = batch.todo \ {r}
              BY <1>1, <7>1 DEF Keyed
            <7> QED
              BY <4>2, <6>2, <7>2
          <6> QED
            BY <6>1, <6>2
        <5> QED
          BY <3>3, <5>1
      <4> QED
        BY <4>1, <4>2
    <3> QED
      BY <2>1, <3>2, <3>3 DEF Kept
  <2> QED
    BY <1>2, <2>1 DEF Kept
<1> QED
  BY <1>5, <1>6, <1>7, <1>9

\* The queue, the batch and the table, in every reachable state.
THEOREM QueueInvariance == Res!Spec => []QueueInv
<1>1. Res!Init => QueueInv
  <2> SUFFICES ASSUME Res!Init PROVE QueueInv
    OBVIOUS
  <2>1. RowTypes
    BY DEF Res!Init, RowTypes
  <2>2. Keyed /\ NoneNewer /\ Kept
    BY DEF Res!Init, Keyed, OnePerKey, NoneNewer, Kept, Res!NoBatch
  <2> QED
    BY <2>1, <2>2 DEF QueueInv
<1>2. QueueInv /\ [Res!Next]_(Res!vars) => QueueInv'
  <2> SUFFICES ASSUME QueueInv, [Res!Next]_(Res!vars) PROVE QueueInv'
    OBVIOUS
  <2> USE DEF QueueInv
  <2>1. CASE Res!Publish \/ Res!Refresh \/ Res!SetDesired \/ UNCHANGED Res!vars
    BY <2>1 DEF Res!Publish, Res!Refresh, Res!SetDesired, Res!vars, Res!queueVars,
                Keyed, NoneNewer, Kept, Landed, RowTypes
  <2>2. CASE Res!TakeAll
    <3>1. /\ queue' = {} /\ batch' = [taken |-> queue, todo |-> queue]
          /\ newest' = newest /\ row' = row /\ missed' = missed
          /\ batch = [taken |-> {}, todo |-> {}]
      BY <2>2 DEF Res!TakeAll, Res!NoBatch
    <3>2. Keyed'
      BY <3>1 DEF Keyed, OnePerKey
    <3>3. NoneNewer' /\ Kept' /\ RowTypes'
      BY <3>1 DEF NoneNewer, Kept, Landed, RowTypes
    <3> QED
      BY <3>2, <3>3
  <2>3. CASE Res!MarketSaved
    <3>1. /\ queue' = queue /\ batch' = batch /\ newest' = newest /\ missed' = missed
      BY <2>3 DEF Res!MarketSaved
    <3>2. PICK m \in Markets : row' = [row EXCEPT ![m].is = "open"]
      BY <2>3 DEF Res!MarketSaved
    <3>3. RowTypes' /\ \A n \in Markets : row'[n].win = row[n].win
      BY <3>2 DEF RowTypes
    <3>4. \A n \in newest : n.key[1] \in Markets
      BY DEF Keyed, OnePerKey, Res!Resolutions, Res!Keys
    <3>5. Keyed' /\ NoneNewer'
      BY <3>1 DEF Keyed, NoneNewer
    <3>6. Kept'
      BY <3>1, <3>3, <3>4 DEF Kept, Landed
    <3> QED
      BY <3>3, <3>5, <3>6
  <2>4. CASE Res!Restart
    <3>1. /\ queue' = {} /\ batch' = [taken |-> {}, todo |-> {}] /\ newest' = {} /\ row' = row
      BY <2>4 DEF Res!Restart, Res!NoBatch
    <3> QED
      BY <3>1 DEF Keyed, OnePerKey, NoneNewer, Kept, RowTypes
  <2> QED
    BY <2>1, <2>2, <2>3, <2>4, AfterMessage, AfterUpdate, AfterFailure DEF Res!Next
<1> QED
  BY <1>1, <1>2, PTL DEF Res!Spec

\* The label announced last is never lost while the process runs, whatever flushes fail,
\* are repeated or overtaken by messages that are late or lack the winner.
THEOREM NoLabelLost ==
  ASSUME Res!OneWinner
  PROVE  Res!Spec => []LabelsAreKept
<1>1. QueueInv => LabelsAreKept
  <2> SUFFICES ASSUME QueueInv, NEW r \in newest, r.win # Res!NoWinner
               PROVE  \/ \E e \in queue \cup batch.todo : e.key = r.key /\ e.win = r.win
                      \/ Landed(r.key)
    BY DEF LabelsAreKept, Res!LabelsAreKept, Landed
  <2>1. CASE Landed(r.key)
    BY <2>1
  <2>2. ASSUME NEW e \in queue \cup batch.todo, Backs(e, r)
        PROVE  e.key = r.key /\ e.win = r.win
    <3>1. e \in Res!Resolutions /\ r \in Res!Resolutions
      BY DEF QueueInv, Keyed, OnePerKey
    <3> QED
      BY <2>2, <3>1 DEF Backs, Res!Resolutions, Res!OneWinner
  <2> QED
    BY <2>1, <2>2 DEF QueueInv, Kept
<1> QED
  BY <1>1, QueueInvariance, PTL

(***************************************************************************)
(* Signals.                                                                *)
(***************************************************************************)
SigNets == [cond : Sig!Conds, net : Int]

SigTypes ==
  /\ now \in Nat /\ boot \in Nat /\ inserting \in BOOLEAN
  /\ out \subseteq SigNets
  /\ stored \subseteq [cond : Sig!Conds, net : Int, at : Nat, boot : Nat, heard : BOOLEAN]
  /\ DOMAIN sigLast \subseteq Sig!Conds
  /\ \A c \in DOMAIN sigLast : sigLast[c] \in [net : Int, at : Nat]

\* What the tick is about to store has one signal of a market, none within its cooldown.
OutIsFree ==
  /\ \A s, r \in out : s.cond = r.cond => s = r
  /\ \A s \in out :
       s.cond \in DOMAIN sigLast =>
         \/ Sig!Side(sigLast[s.cond].net) # Sig!Side(s.net)
         \/ now - sigLast[s.cond].at >= Cooldown
         \/ Sig!Size(Sig!Size(s.net) - Sig!Size(sigLast[s.cond].net)) >= Reissue

\* A tick stores once, and no two signals of one market.
StoredOnce ==
  /\ \A a \in stored : a.at <= now /\ (inserting => a.at < now)
  /\ \A a, b \in stored : a.cond = b.cond /\ a.at = b.at => a = b

\* The emitter remembers the last signal of this run that it heard stored.
LastIsLast ==
  /\ \A a \in stored :
       a.boot = boot /\ a.heard => a.cond \in DOMAIN sigLast /\ a.at <= sigLast[a.cond].at
  /\ \A c \in DOMAIN sigLast :
       \E a \in stored : a.cond = c /\ a.heard /\ a.at = sigLast[c].at /\ a.net = sigLast[c].net

BootsPassed == \A a \in stored : a.boot <= boot

SigInv == SigTypes /\ OutIsFree /\ StoredOnce /\ LastIsLast /\ BootsPassed /\ Sig!SpacedSignals

\* The size of a net edge is a number, the same for a buy and a sell.
LEMMA SizeType == \A n \in Int : Sig!Size(n) \in Int /\ Sig!Size(0 - n) = Sig!Size(n)
  BY DEF Sig!Size

\* A row of the board and a live book give a net edge.
LEMMA NetType ==
  ASSUME Sig!SignalsAssumption,
         NEW line \in [path : {"fair_value", "model_edge", "board_edge", "none"},
                                         value : Int, urgency : Int], NEW bk \in Books
  PROVE  Sig!SignedNet(line, bk) \in Int
<1> USE DEF Sig!SignalsAssumption
<1>1. CASE line.path = "fair_value"
  BY <1>1 DEF Sig!SignedNet
<1>2. CASE line.path = "model_edge" \/ line.path = "board_edge"
  BY <1>2 DEF Sig!SignedNet
<1>3. CASE line.path = "none"
  BY <1>3 DEF Sig!SignedNet
<1> QED
  BY <1>1, <1>2, <1>3

\* A tick picks signals that are free of their cooldown, one of a market.
LEMMA AfterScore ==
  ASSUME Sig!SignalsAssumption, SigInv, Sig!Score
  PROVE  SigInv'
<1> USE DEF SigInv
<1>1. PICK seen \in SUBSET Sig!Conds : \E bk \in [seen -> Books] :
        LET net   == [c \in Sig!Live(bk) |-> Sig!SignedNet(Rows[c], bk[c])]
            takes == IF sigMode = "board" THEN Sig!Taken(net)
                     ELSE {c \in DOMAIN net : Sig!Size(net[c]) > MinEdge}
            free  == {c \in DOMAIN net : c \in takes /\ ~Sig!BlockedByCooldown(c, net[c])}
        IN  out' = {Sig!Signal(c, net[c]) : c \in free}
  BY Zenon DEF Sig!Score
<1>2. PICK bk \in [seen -> Books] :
        LET net   == [c \in Sig!Live(bk) |-> Sig!SignedNet(Rows[c], bk[c])]
            takes == IF sigMode = "board" THEN Sig!Taken(net)
                     ELSE {c \in DOMAIN net : Sig!Size(net[c]) > MinEdge}
            free  == {c \in DOMAIN net : c \in takes /\ ~Sig!BlockedByCooldown(c, net[c])}
        IN  out' = {Sig!Signal(c, net[c]) : c \in free}
  BY <1>1, Zenon
<1> DEFINE net == [c \in Sig!Live(bk) |-> Sig!SignedNet(Rows[c], bk[c])]
<1>3. \E S \in SUBSET (DOMAIN net) :
        /\ \A c \in S : ~Sig!BlockedByCooldown(c, net[c])
        /\ out' = {Sig!Signal(c, net[c]) : c \in S}
  <2> DEFINE takes == IF sigMode = "board" THEN Sig!Taken(net)
                      ELSE {c \in DOMAIN net : Sig!Size(net[c]) > MinEdge}
  <2> DEFINE S == {c \in DOMAIN net : c \in takes /\ ~Sig!BlockedByCooldown(c, net[c])}
  <2>1. out' = {Sig!Signal(c, net[c]) : c \in S}
    BY <1>2, Zenon
  <2>2. S \in SUBSET (DOMAIN net) /\ \A c \in S : ~Sig!BlockedByCooldown(c, net[c])
    BY Zenon
  <2> HIDE DEF S, net
  <2> QED
    BY <2>1, <2>2, Zenon
<1>4. DOMAIN net \subseteq Sig!Conds /\ \A c \in DOMAIN net : net[c] \in Int
  <2>1. DOMAIN net = seen \ resolved /\ seen \subseteq Sig!Conds
    BY DEF Sig!Live
  <2>2. ASSUME NEW c \in DOMAIN net PROVE net[c] \in Int
    <3>1. c \in seen /\ c \in Sig!Conds /\ bk[c] \in Books
      BY <2>1
    <3> DEFINE Kind == [path : {"fair_value", "model_edge", "board_edge", "none"},
                        value : Int, urgency : Int]
    <3>2. Rows[c] \in Kind
      <4>1. Rows \in Seq(Kind)
        BY DEF Sig!SignalsAssumption
      <4> HIDE DEF Kind
      <4> QED
        BY <3>1, <4>1 DEF Sig!Conds
    <3>3. net[c] = Sig!SignedNet(Rows[c], bk[c])
      BY <2>1
    <3> HIDE DEF net
    <3> QED
      BY <3>1, <3>2, <3>3, NetType
  <2> QED
    BY <2>1, <2>2
<1> HIDE DEF net
<1>5. PICK S \in SUBSET (DOMAIN net) :
        /\ \A c \in S : ~Sig!BlockedByCooldown(c, net[c])
        /\ out' = {[cond |-> c, net |-> net[c]] : c \in S}
  BY <1>3 DEF Sig!Signal
<1>6. /\ now' = now + 1 /\ sigLast' = sigLast /\ stored' = stored /\ boot' = boot
      /\ inserting' \in BOOLEAN
  BY DEF Sig!Score
<1>7. SigTypes'
  BY <1>4, <1>5, <1>6 DEF SigTypes, SigNets
<1>8. ASSUME NEW s \in out', s.cond \in DOMAIN sigLast
      PROVE  \/ Sig!Side(sigLast[s.cond].net) # Sig!Side(s.net)
             \/ now' - sigLast[s.cond].at >= Cooldown
             \/ Sig!Size(Sig!Size(s.net) - Sig!Size(sigLast[s.cond].net)) >= Reissue
  <2>1. PICK c \in S : s = [cond |-> c, net |-> net[c]]
    BY <1>5
  <2>2. ~Sig!BlockedByCooldown(c, net[c]) /\ s.cond = c /\ s.net = net[c] /\ net[c] \in Int
    BY <1>4, <1>5, <2>1
  <2>3. sigLast[c].net \in Int /\ sigLast[c].at \in Int /\ now' \in Int
    BY <1>6, <1>8, <2>2 DEF SigTypes
  <2>4. Sig!Size(Sig!Size(net[c]) - Sig!Size(sigLast[c].net)) \in Int
    BY <2>2, <2>3, SizeType
  <2>5. \/ Sig!Side(sigLast[c].net) # Sig!Side(net[c]) \/ ~(now' - sigLast[c].at < Cooldown)
        \/ ~(Sig!Size(Sig!Size(net[c]) - Sig!Size(sigLast[c].net)) < Reissue)
    BY <1>8, <2>2 DEF Sig!BlockedByCooldown
  <2> QED
    BY <2>2, <2>3, <2>4, <2>5 DEF Sig!SignalsAssumption
<1>9. OutIsFree'
  BY <1>5, <1>6, <1>8 DEF OutIsFree
<1>10. StoredOnce' /\ LastIsLast' /\ BootsPassed' /\ Sig!SpacedSignals'
  BY <1>6 DEF StoredOnce, LastIsLast, BootsPassed, Sig!SpacedSignals, SigTypes
<1> QED
  BY <1>7, <1>9, <1>10

\* What is stored keeps its distance to what was heard stored, or went unheard.
LEMMA AfterInsert ==
  ASSUME Sig!SignalsAssumption, SigInv, NEW heard \in BOOLEAN, Sig!Inserted(heard)
  PROVE  SigInv'
<1> USE DEF SigInv
<1>1. /\ inserting = TRUE /\ inserting' = FALSE /\ out' = {} /\ now' = now /\ boot' = boot
      /\ stored' = stored \cup {Sig!Row(s, heard) : s \in out}
      /\ sigLast' = IF heard THEN Sig!Committed ELSE sigLast
  BY DEF Sig!Inserted, SigTypes
<1>2. ASSUME NEW s \in out
      PROVE  /\ Sig!Row(s, heard) \in [cond : Sig!Conds, net : Int, at : Nat, boot : Nat,
                                     heard : BOOLEAN]
             /\ Sig!Row(s, heard).cond = s.cond /\ Sig!Row(s, heard).net = s.net
             /\ Sig!Row(s, heard).at = now /\ Sig!Row(s, heard).boot = boot
              /\ Sig!Row(s, heard).heard = heard
  BY DEF Sig!Row, SigTypes, SigNets
<1>3. heard => /\ DOMAIN sigLast' = DOMAIN sigLast \cup {s.cond : s \in out}
               /\ \A s \in out : sigLast'[s.cond] = [net |-> s.net, at |-> now]
               /\ \A c \in DOMAIN sigLast :
                            (\A s \in out : s.cond # c) => sigLast'[c] = sigLast[c]
  <2> SUFFICES ASSUME heard
               PROVE  /\ DOMAIN sigLast' = DOMAIN sigLast \cup {s.cond : s \in out}
                      /\ \A s \in out : sigLast'[s.cond] = [net |-> s.net, at |-> now]
                      /\ \A c \in DOMAIN sigLast :
                            (\A s \in out : s.cond # c) => sigLast'[c] = sigLast[c]
    OBVIOUS
  <2>1. sigLast' = [c \in DOMAIN sigLast \cup {s.cond : s \in out} |->
                   IF c \in {s.cond : s \in out}
                   THEN [net |-> (CHOOSE s \in out : s.cond = c).net, at |-> now] ELSE sigLast[c]]
    BY <1>1 DEF Sig!Committed
  <2>2. \A s \in out : (CHOOSE r \in out : r.cond = s.cond) = s
    BY DEF OutIsFree
  <2> QED
    BY <2>1, <2>2
<1>4. SigTypes'
  <2>1. stored' \subseteq [cond : Sig!Conds, net : Int, at : Nat, boot : Nat, heard : BOOLEAN]
    BY <1>1, <1>2 DEF SigTypes
  <2>2. CASE heard
    <3>1. DOMAIN sigLast' \subseteq Sig!Conds
      BY <1>3, <2>2 DEF SigTypes, SigNets
    <3>2. ASSUME NEW c \in DOMAIN sigLast' PROVE sigLast'[c] \in [net : Int, at : Nat]
      <4>1. ASSUME NEW s \in out, s.cond = c PROVE sigLast'[c] \in [net : Int, at : Nat]
        <5>1. sigLast'[c] = [net |-> s.net, at |-> now]
          BY <1>3, <2>2, <4>1
        <5>2. s.net \in Int /\ now \in Nat
          BY DEF SigTypes, SigNets
        <5> QED
          BY <5>1, <5>2
      <4>2. CASE \A s \in out : s.cond # c
        <5>1. c \in DOMAIN sigLast
          BY <1>3, <2>2, <4>2
        <5>2. sigLast'[c] = sigLast[c]
          BY <1>3, <2>2, <4>2, <5>1
        <5> QED
          BY <5>1, <5>2 DEF SigTypes
      <4> QED
        BY <4>1, <4>2
    <3> QED
      BY <1>1, <2>1, <3>1, <3>2 DEF SigTypes
  <2>3. CASE ~heard
    BY <1>1, <2>1, <2>3 DEF SigTypes
  <2> QED
    BY <2>2, <2>3
<1>5. OutIsFree' /\ BootsPassed'
  BY <1>1, <1>2 DEF OutIsFree, BootsPassed, SigTypes
<1>6. StoredOnce'
  BY <1>1, <1>2 DEF StoredOnce, OutIsFree, SigTypes
<1>7. LastIsLast'
  <2>1. CASE ~heard
    BY <1>1, <1>2, <2>1 DEF LastIsLast
  <2>2. CASE heard
    <3>1. ASSUME NEW a \in stored', a.boot = boot, a.heard
          PROVE  a.cond \in DOMAIN sigLast' /\ a.at <= sigLast'[a.cond].at
      <4>1. ASSUME NEW s \in out, s.cond = a.cond
            PROVE  a.cond \in DOMAIN sigLast' /\ a.at <= sigLast'[a.cond].at
        <5>1. a.at <= now
          BY <1>1, <1>2 DEF StoredOnce, SigTypes
        <5>2. s.cond \in DOMAIN sigLast' /\ sigLast'[s.cond] = [net |-> s.net, at |-> now]
          BY <1>3, <2>2
        <5>3. sigLast'[a.cond].at = now
          BY <4>1, <5>2
        <5> QED
          BY <4>1, <5>1, <5>2, <5>3
      <4>2. CASE \A s \in out : s.cond # a.cond
        <5>1. a \in stored
          BY <1>1, <1>2, <4>2
        <5>2. a.cond \in DOMAIN sigLast /\ a.at <= sigLast[a.cond].at
          BY <3>1, <5>1 DEF LastIsLast
        <5>3. sigLast'[a.cond] = sigLast[a.cond] /\ a.cond \in DOMAIN sigLast'
          BY <1>3, <2>2, <4>2, <5>2
        <5> QED
          BY <5>2, <5>3
      <4> QED
        BY <4>1, <4>2
    <3>2. ASSUME NEW c \in DOMAIN sigLast'
          PROVE  \E a \in stored' : /\ a.cond = c /\ a.heard
                                    /\ a.at = sigLast'[c].at /\ a.net = sigLast'[c].net
      <4>1. ASSUME NEW s \in out, s.cond = c
            PROVE  \E a \in stored' : /\ a.cond = c /\ a.heard
                                      /\ a.at = sigLast'[c].at /\ a.net = sigLast'[c].net
        <5>1. sigLast'[s.cond] = [net |-> s.net, at |-> now]
          BY <1>3, <2>2
        <5>2. sigLast'[c].net = s.net /\ sigLast'[c].at = now
          BY <4>1, <5>1
        <5>3. Sig!Row(s, heard) \in stored'
          BY <1>1
        <5> HIDE DEF Sig!Row
        <5> QED
          BY <1>2, <2>2, <4>1, <5>2, <5>3
      <4>2. CASE \A s \in out : s.cond # c
        <5>1. c \in DOMAIN sigLast
          BY <1>3, <2>2, <4>2
        <5>2. sigLast'[c] = sigLast[c]
          BY <1>3, <2>2, <4>2, <5>1
        <5>3. PICK a \in stored :
                 a.cond = c /\ a.heard /\ a.at = sigLast[c].at /\ a.net = sigLast[c].net
          BY <5>1 DEF LastIsLast
        <5>4. a \in stored'
          BY <1>1
        <5> QED
          BY <5>2, <5>3, <5>4
      <4> QED
        BY <4>1, <4>2
    <3> QED
      BY <1>1, <3>1, <3>2 DEF LastIsLast
  <2> QED
    BY <2>1, <2>2
<1>8. Sig!SpacedSignals'
  <2> SUFFICES ASSUME NEW a \in stored', NEW b \in stored',
                      a.cond = b.cond, a.boot = b.boot, a.at < b.at, a.heard,
                      ~\E c \in stored' : c.cond = a.cond /\ c.heard /\ a.at < c.at /\ c.at < b.at
               PROVE  \/ Sig!Side(a.net) # Sig!Side(b.net) \/ b.at - a.at >= Cooldown
                      \/ Sig!Size(Sig!Size(a.net) - Sig!Size(b.net)) >= Reissue
    BY DEF Sig!SpacedSignals
  <2>1. a.at \in Int /\ b.at \in Int /\ a.net \in Int /\ b.net \in Int
    BY <1>4 DEF SigTypes
  <2>2. a \in stored /\ a.at < now
    BY <1>1, <1>2, <2>1 DEF StoredOnce, SigTypes
  <2>3. CASE b \in stored
    BY <1>1, <2>2, <2>3 DEF Sig!SpacedSignals
  <2>4. ASSUME NEW s \in out, b = Sig!Row(s, heard)
        PROVE  \/ Sig!Side(a.net) # Sig!Side(b.net) \/ b.at - a.at >= Cooldown
               \/ Sig!Size(Sig!Size(a.net) - Sig!Size(b.net)) >= Reissue
    <3>1. b.cond = s.cond /\ b.net = s.net /\ b.at = now /\ b.boot = boot
      BY <1>2, <2>4
    <3>2. a.cond \in DOMAIN sigLast /\ a.at <= sigLast[a.cond].at
      BY <2>2, <3>1 DEF LastIsLast
    <3>3. PICK e \in stored : /\ e.cond = a.cond /\ e.heard
                              /\ e.at = sigLast[a.cond].at /\ e.net = sigLast[a.cond].net
      BY <3>2 DEF LastIsLast
    <3>4. e.at \in Int /\ e.at < now /\ e \in stored'
      BY <1>1, <3>3 DEF StoredOnce, SigTypes
    <3>5. e.at = a.at
      BY <2>1, <3>1, <3>2, <3>3, <3>4
    <3>6. sigLast[a.cond].net = a.net /\ sigLast[a.cond].at = a.at
      BY <2>2, <3>3, <3>5 DEF StoredOnce
    <3>7. \/ Sig!Side(a.net) # Sig!Side(b.net) \/ b.at - a.at >= Cooldown
          \/ Sig!Size(Sig!Size(b.net) - Sig!Size(a.net)) >= Reissue
      BY <3>1, <3>2, <3>6 DEF OutIsFree
    <3>8. Sig!Size(Sig!Size(b.net) - Sig!Size(a.net)) = Sig!Size(Sig!Size(a.net) - Sig!Size(b.net))
      BY <2>1, SizeType DEF Sig!Size
    <3> QED
      BY <3>7, <3>8
  <2> QED
    BY <1>1, <2>3, <2>4
<1> QED
  BY <1>4, <1>5, <1>6, <1>7, <1>8

\* Types, the emitter's memory and the spacing, in every reachable state.
THEOREM SignalInvariance ==
  ASSUME Sig!SignalsAssumption
  PROVE  Sig!Spec => []SigInv
<1>1. Sig!Init => SigInv
  <2> SUFFICES ASSUME Sig!Init PROVE SigInv
    OBVIOUS
  <2>1. DOMAIN sigLast = {} /\ out = {} /\ stored = {} /\ now = 0 /\ boot = 0 /\ inserting = FALSE
    BY DEF Sig!Init
  <2>2. SigTypes
    BY <2>1 DEF SigTypes
  <2>3. OutIsFree /\ StoredOnce /\ LastIsLast /\ BootsPassed /\ Sig!SpacedSignals
    BY <2>1 DEF OutIsFree, StoredOnce, LastIsLast, BootsPassed, Sig!SpacedSignals
  <2> QED
    BY <2>2, <2>3 DEF SigInv
<1>2. SigInv /\ [Sig!Next]_(Sig!vars) => SigInv'
  <2> SUFFICES ASSUME SigInv, [Sig!Next]_(Sig!vars) PROVE SigInv'
    OBVIOUS
  <2> USE DEF SigInv, SigTypes, OutIsFree, StoredOnce, LastIsLast, BootsPassed, Sig!SpacedSignals
  <2>1. CASE Sig!InsertFails
    BY <2>1 DEF Sig!InsertFails
  <2>2. ASSUME NEW c \in Sig!Conds, Sig!Resolved(c) PROVE SigInv'
    BY <2>2 DEF Sig!Resolved
  <2>3. CASE Sig!Restart
    <3>1. /\ DOMAIN sigLast' = {} /\ out' = {} /\ stored' = stored /\ now' = now
          /\ boot' = boot + 1 /\ inserting' = FALSE
      BY <2>3 DEF Sig!Restart
    <3>2. SigTypes'
      <4>1. DOMAIN sigLast' \subseteq Sig!Conds /\ \A c \in DOMAIN sigLast' : FALSE
        BY ONLY <3>1
      <4>2. now \in Nat /\ boot \in Nat
        OBVIOUS
      <4>3. now' \in Nat /\ boot' \in Nat
        BY ONLY <3>1, <4>2
      <4>4. inserting' \in BOOLEAN /\ out' \subseteq SigNets
        BY ONLY <3>1, Zenon
      <4>5. stored' \subseteq [cond : Sig!Conds, net : Int, at : Nat, boot : Nat, heard : BOOLEAN]
        BY <3>1
      <4> QED
        BY <4>1, <4>3, <4>4, <4>5
    <3>3. \A a \in stored : a.boot # boot' /\ a.boot <= boot'
      BY <3>1
    <3>4. OutIsFree'
      BY <3>1
    <3>5. StoredOnce'
      BY <3>1
    <3>6. LastIsLast'
      BY <3>1, <3>3
    <3>7. BootsPassed'
      BY <3>1, <3>3
    <3>8. Sig!SpacedSignals'
      BY <3>1
    <3> QED
      BY <3>2, <3>4, <3>5, <3>6, <3>7, <3>8
  <2>4. CASE UNCHANGED Sig!vars
    BY <2>4 DEF Sig!vars
  <2> HIDE DEF SigInv
  <2> QED
    BY <2>1, <2>2, <2>3, <2>4, AfterScore, AfterInsert DEF Sig!Next
<1> QED
  BY <1>1, <1>2, PTL DEF Sig!Spec

\* Signals of one market and side are a cooldown apart or differ by the reissue delta,
\* whatever inserts fail or go unanswered and whatever the allocation takes.
THEOREM SignalsAreSpaced ==
  ASSUME Sig!SignalsAssumption
  PROVE  Sig!Spec => []SpacedSignals
<1>1. SigInv => SpacedSignals
  BY DEF SigInv, SpacedSignals
<1> QED
  BY <1>1, SignalInvariance, PTL
==============================================================================
