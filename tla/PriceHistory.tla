---------------------------- MODULE PriceHistory ----------------------------
(***************************************************************************)
(* The two writers of prices_history: EnsurePrices of enrich/prices.go,    *)
(* which the edge scan calls for the tokens of its board and those of the  *)
(* top volume, and the price requests of cmd/top-markets, which go through *)
(* the pipeline and know nothing of what is stored.                        *)
(*                                                                         *)
(* Time is counted in hours: the venue has one point for each token and    *)
(* hour, an answer holds the points from its start on, and a token whose   *)
(* last point is of this hour is fresh.  The statements of one batch are   *)
(* one transaction.  A writer that stops may be started again.             *)
(***************************************************************************)
EXTENDS Integers, FiniteSets, FiniteSetsExt, Sequences

CONSTANTS
  Tokens,     \* numbers, in the order of their ids
  Lookback,   \* PriceLookback (30 days)
  TokenCap,   \* PriceTokenCap (300)
  BatchSize,  \* tokens of one request (20, 40)
  LastHour    \* bound: the venue's last hour

PriceAssumption ==
  /\ Tokens \subseteq Nat /\ IsFiniteSet(Tokens)
  /\ Lookback \in Nat \ {0} /\ TokenCap \in Nat \ {0} /\ BatchSize \in Nat \ {0}
  /\ LastHour \in Nat \ {0}

VARIABLES
  now,      \* the hour
  stored,   \* prices_history: the hours stored, by token
  plan,     \* requests EnsurePrices has still to make: [ids, start]
  last,     \* lastPriceFetchTs of top-markets, 0 in a fresh process
  asked,    \* its price requests in the pipeline
  touched,  \* tokens with a point that top-markets wrote
  steady    \* tokens of every cycle of this top-markets process, with no request failed

vars == <<now, stored, plan, last, asked, touched, steady>>

Request == [ids : SUBSET Tokens, start : (1 - Lookback)..LastHour]

TypeOK ==
  /\ now \in 1..LastHour /\ last \in 0..LastHour
  /\ stored \in [Tokens -> SUBSET (1..LastHour)]
  /\ plan \in Seq(Request) /\ asked \subseteq Request
  /\ touched \subseteq Tokens /\ steady \subseteq Tokens

Init ==
  /\ now = 1 /\ stored = [t \in Tokens |-> {}] /\ plan = <<>>
  /\ last = 0 /\ asked = {} /\ touched = {} /\ steady = Tokens

-----------------------------------------------------------------------------
(* Choosing what to ask for.                                               *)

\* SelectPriceTokens: the board's tokens, then those of the top volume, up to the cap.
Selections ==
  {S \in SUBSET Tokens : Cardinality(S) <= TokenCap}

\* LoadMaxPriceTimestamp, 0 without a point.
HWM(t) == IF stored[t] = {} THEN 0 ELSE Max(stored[t])

ColdStart == now - Lookback

LargerOf(a, b) == IF a > b THEN a ELSE b

Orders(S) ==
  {ids \in [1..Cardinality(S) -> S] : \A i, j \in 1..Cardinality(S) : ids[i] = ids[j] => i = j}

\* sortTokenIDsByHWMAsc.
OldestFirst(S) ==
  {ids \in Orders(S) :
     \A i, j \in DOMAIN ids :
       i < j => \/ HWM(ids[i]) < HWM(ids[j])
                \/ HWM(ids[i]) = HWM(ids[j]) /\ ids[i] < ids[j]}

\* chunkTokenIDs.
Chunks(ids) ==
  [i \in 1..((Len(ids) + BatchSize - 1) \div BatchSize) |->
     {ids[j] : j \in {k \in DOMAIN ids : (k - 1) \div BatchSize = i - 1}}]

ColdPlan(ids) ==
  [i \in DOMAIN Chunks(ids) |-> [ids |-> Chunks(ids)[i], start |-> ColdStart]]

WarmStart_MutantLastHour(ids) == now - 1

\* earliestStartTS: an hour before the oldest high-water mark of the batch.
WarmStart(ids) == LargerOf(ColdStart, Min({HWM(t) : t \in ids}) - 1)

WarmPlan(ids) ==
  [i \in DOMAIN Chunks(ids) |-> [ids |-> Chunks(ids)[i], start |-> WarmStart(Chunks(ids)[i])]]

-----------------------------------------------------------------------------
(* EnsurePrices, in the edge scan.                                         *)

\* Tokens without a point are cold, and all are if the marks could not be read or cold
\* prices are forced; fresh tokens are left out.  The prices of the last cycle are done.
EnsurePrices ==
  /\ plan = <<>>
  /\ \E S \in Selections, allCold \in BOOLEAN :
       LET cold == IF allCold THEN S ELSE {t \in S : HWM(t) = 0}
           warm == {t \in S \ cold : HWM(t) < now}
       IN  \E c \in Orders(cold), w \in OldestFirst(warm) :
             plan' = ColdPlan(c) \o WarmPlan(w)
  /\ UNCHANGED <<now, stored, last, asked, touched, steady>>

\* The answer to r, for the tokens the venue gives: every point from the start on.
Upsert(r, got) ==
  stored' = [t \in Tokens |->
               stored[t] \cup (IF t \in got THEN LargerOf(1, r.start)..now ELSE {})]

ChunkStored ==
  /\ plan # <<>> /\ plan' = Tail(plan)
  /\ \E got \in SUBSET Head(plan).ids : Upsert(Head(plan), got)
  /\ UNCHANGED <<now, last, asked, touched, steady>>

\* The fetch, its decoding or the insert failed: an error in the result, and on it goes.
ChunkFails ==
  /\ plan # <<>> /\ plan' = Tail(plan)
  /\ UNCHANGED <<now, stored, last, asked, touched, steady>>

ScanCrash ==
  /\ plan # <<>> /\ plan' = <<>>
  /\ UNCHANGED <<now, stored, last, asked, touched, steady>>

-----------------------------------------------------------------------------
(* The price requests of top-markets.                                      *)

FetchFrom_MutantUpdated == IF last = 0 THEN ColdStart ELSE now

\* From the last cycle's time, an hour earlier, for all of the tokens alike.
FetchFrom == IF last = 0 THEN ColdStart ELSE last - 1

\* submitEnrichment for the ranked tokens; the time moves on before any answer is there.
SubmitEnrichment ==
  /\ asked = {} /\ last' = now
  /\ \E ranked \in SUBSET Tokens :
       \E ids \in Orders(ranked) :
         /\ asked' = {[ids |-> Chunks(ids)[i], start |-> FetchFrom] : i \in DOMAIN Chunks(ids)}
         /\ steady' = steady \cap ranked
  /\ UNCHANGED <<now, stored, plan, touched>>

\* Fetched, processed by processTopMarketsPrices and saved, in any order.
PricesSaved ==
  /\ \E r \in asked :
       \E got \in SUBSET r.ids :
         /\ Upsert(r, got) /\ asked' = asked \ {r}
         /\ touched' = touched \cup got /\ steady' = steady \ (r.ids \ got)
  /\ UNCHANGED <<now, plan, last>>

\* Dropped with all its attempts used up, refused by the venue, or the save failed.
PricesLost ==
  /\ \E r \in asked : asked' = asked \ {r} /\ steady' = steady \ r.ids
  /\ UNCHANGED <<now, stored, plan, last, touched>>

\* Only the process remembers the time of its last cycle.
TopRestart ==
  /\ last # 0 /\ last' = 0 /\ asked' = {} /\ steady' = Tokens
  /\ UNCHANGED <<now, stored, plan, touched>>

Tick ==
  /\ now < LastHour /\ now' = now + 1
  /\ UNCHANGED <<stored, plan, last, asked, touched, steady>>

Ensure == EnsurePrices \/ ChunkStored \/ ChunkFails

Next ==
  \/ Ensure \/ ScanCrash
  \/ SubmitEnrichment \/ PricesSaved \/ PricesLost \/ TopRestart \/ Tick

Spec == Init /\ [][Next]_vars

-----------------------------------------------------------------------------
(* Properties.                                                             *)

Window(t) == LargerOf(1, ColdStart)..HWM(t)

\* The high-water mark of a token that only the edge scan writes vouches for everything
\* below it: within the lookback there is no hole that an incremental fetch would skip
\* for ever, whatever fetches and writes failed and whoever restarted.  top-markets does
\* leave such holes: it starts at its own last cycle, not at the token's mark.
HolesOnlyByTopMarkets == \A t \in Tokens \ touched : Window(t) \subseteq stored[t]

\* A token that was ranked in every cycle of a top-markets process, and of which no
\* request failed, has every point from the lookback before the first cycle to the last
\* finished one: the cycles' windows overlap.
RankedThroughoutIsWhole ==
  \A t \in steady :
    last # 0 /\ (\A r \in asked : t \notin r.ids)
      => LargerOf(1, last - Lookback)..last \subseteq stored[t]
=============================================================================
