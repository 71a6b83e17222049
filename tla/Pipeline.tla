------------------------------ MODULE Pipeline ------------------------------
(***************************************************************************)
(* internal/pipeline: one batch of requests through                        *)
(*                                                                         *)
(*   RunBatch -> fetcher pool -> Bridge -> processor pool -> router        *)
(*                    ^                                       |   |        *)
(*                    +-- requeue workers <-- requeue, overflow   +-> saver *)
(*                                                                         *)
(* and WaitUntilIdle polling the counters.  The three pools are WorkerPool *)
(* components; here each is its two channels, its busy workers and its     *)
(* Pending() counter, moved in the same order as there.  Requests differ   *)
(* in nothing the properties can tell, so each place holds a number of     *)
(* requests.  Which results are errors, how many payloads and follow-up    *)
(* requests an output carries (at most MaxPayloads, and Budget follow-ups  *)
(* in all) is left open.  Shutdown and cancellation are in WorkerPool, the *)
(* sync cursor the router writes is in SubgraphSync.  X_Mutant... is a     *)
(* deliberately wrong variant of X that no specification uses.             *)
(***************************************************************************)
EXTENDS Integers, FiniteSets

CONSTANTS
  Seeds,          \* requests RunBatch is called with
  Budget,         \* follow-up requests the remote data gives rise to, in all
  MaxPayloads,    \* saver payloads of one processor output
  Fetchers, Processors, Savers,     \* number of workers of each pool
  FetchQ, ProcQ, SaveQ,             \* capacities of the input channels
  FetchOut, ProcOut,                \* capacities of the output channels
  RequeueWorkers, \* the goroutines draining requeue (4 in the code)
  RequeueCap,     \* capacity of requeue (256 or twice the fetcher queue)
  MaxOverflow,    \* cap of the overflow list (50000)
  Waiting,        \* TRUE: the caller is RunBatch and waits; FALSE: SubmitFetch only
  StablePolls     \* idle polls in a row before WaitUntilIdle returns

ASSUME PipelineAssumption ==
  /\ Seeds \in Nat /\ Budget \in Nat /\ MaxPayloads \in Nat
  /\ Fetchers \in Nat \ {0} /\ Processors \in Nat \ {0} /\ Savers \in Nat \ {0}
  /\ FetchQ \in Nat \ {0} /\ ProcQ \in Nat \ {0} /\ SaveQ \in Nat \ {0}
  /\ FetchOut \in Nat \ {0} /\ ProcOut \in Nat \ {0}
  /\ IsFiniteSet(RequeueWorkers) /\ RequeueWorkers # {}
  /\ RequeueCap \in Nat \ {0} /\ MaxOverflow \in Nat
  /\ Waiting \in BOOLEAN /\ StablePolls \in Nat \ {0}

VARIABLES
  seeds, seedPc,       \* RunBatch: requests left, and where its SubmitWait stands
  budget,              \* follow-up requests still to come
  at,                  \* requests (saver records) in each channel or worker
  bridge,              \* the Bridge goroutine between fetcher and processor
  router, payloads, followUps,   \* the router, and what is left of its current output
  rw,                  \* rw[q]: requeue worker q
  pend,                \* Pending() of each pool
  routerInflight,      \* the counter WaitUntilIdle looks at
  pollPc, stable       \* WaitUntilIdle

batch == <<seeds, seedPc>>
route == <<router, payloads, followUps, budget>>
poll  == <<pollPc, stable>>
vars  == <<batch, at, bridge, route, rw, pend, routerInflight, poll>>

\* in: input channel; run: processItem before the counter moves; send: after it, in
\* sendResult; out: output channel.
Place == {"fIn", "fRun", "fSend", "fOut", "pIn", "pRun", "pSend", "pOut",
          "sIn", "sRun", "requeue", "overflow"}
Stage == {"fetcher", "processor", "saver"}

RouterPc == {"receive", "received", "saving", "submittingSave", "deriving", "enqueue", "spill"}
RequeuePc == {"poll", "pop", "block", "holding", "submitting", "decrement"}

TypeOK ==
  /\ seeds \in 0..Seeds /\ seedPc \in {"next", "submitting", "done"}
  /\ budget \in 0..Budget
  /\ at \in [Place -> Nat]
  /\ at["fIn"] <= FetchQ /\ at["fRun"] + at["fSend"] <= Fetchers /\ at["fOut"] <= FetchOut
  /\ at["pIn"] <= ProcQ /\ at["pRun"] + at["pSend"] <= Processors /\ at["pOut"] <= ProcOut
  /\ at["sIn"] <= SaveQ /\ at["sRun"] <= Savers
  /\ at["requeue"] <= RequeueCap /\ at["overflow"] <= MaxOverflow
  /\ bridge \in {"receive", "holding", "submitting"}
  /\ router \in RouterPc /\ payloads \in 0..MaxPayloads /\ followUps \in 0..Budget
  /\ rw \in [RequeueWorkers -> RequeuePc]
  /\ pend \in [Stage -> Nat] /\ routerInflight \in Nat
  /\ pollPc \in {"router", "fetcher", "processor", "saver", "returned"}
  /\ stable \in 0..StablePolls

Init ==
  /\ seeds = Seeds /\ seedPc = "next" /\ budget = Budget
  /\ at = [p \in Place |-> 0]
  /\ bridge = "receive"
  /\ router = "receive" /\ payloads = 0 /\ followUps = 0
  /\ rw = [q \in RequeueWorkers |-> "poll"]
  /\ pend = [s \in Stage |-> 0] /\ routerInflight = 0
  /\ pollPc = "router" /\ stable = 0

\* Moving one request from one place to another, taking one out, putting one in.
Move(from, to) == at[from] > 0 /\ at' = [at EXCEPT ![from] = @ - 1, ![to] = @ + 1]
Leave(from)    == at[from] > 0 /\ at' = [at EXCEPT ![from] = @ - 1]
Enter(to)      == at' = [at EXCEPT ![to] = @ + 1]

\* Submitted.Add(1), and Completed/Failed.Add(1), as seen through Pending().
Count(s)   == pend' = [pend EXCEPT ![s] = @ + 1]
Uncount(s) == pend' = [pend EXCEPT ![s] = @ - 1]

-----------------------------------------------------------------------------
(* RunBatch: SubmitWait for each request, then WaitUntilIdle.              *)

SubmitSeed ==
  /\ seedPc = "next"
  /\ IF seeds = 0
     THEN seedPc' = "done" /\ UNCHANGED <<seeds, pend>>
     ELSE seedPc' = "submitting" /\ seeds' = seeds - 1 /\ Count("fetcher")
  /\ UNCHANGED <<at, bridge, route, rw, routerInflight, poll>>

SeedAccepted ==
  /\ seedPc = "submitting" /\ at["fIn"] < FetchQ
  /\ seedPc' = "next" /\ Enter("fIn")
  /\ UNCHANGED <<seeds, bridge, route, rw, pend, routerInflight, poll>>

-----------------------------------------------------------------------------
(* The worker loops of the three pools.                                    *)

StartFetch ==
  /\ at["fRun"] + at["fSend"] < Fetchers /\ Move("fIn", "fRun")
  /\ UNCHANGED <<batch, bridge, route, rw, pend, routerInflight, poll>>

FinishFetch ==
  /\ Move("fRun", "fSend") /\ Uncount("fetcher")
  /\ UNCHANGED <<batch, bridge, route, rw, routerInflight, poll>>

SendFetched ==
  /\ at["fOut"] < FetchOut /\ Move("fSend", "fOut")
  /\ UNCHANGED <<batch, bridge, route, rw, pend, routerInflight, poll>>

StartProcess ==
  /\ at["pRun"] + at["pSend"] < Processors /\ Move("pIn", "pRun")
  /\ UNCHANGED <<batch, bridge, route, rw, pend, routerInflight, poll>>

FinishProcess ==
  /\ Move("pRun", "pSend") /\ Uncount("processor")
  /\ UNCHANGED <<batch, bridge, route, rw, routerInflight, poll>>

SendProcessed ==
  /\ at["pOut"] < ProcOut /\ Move("pSend", "pOut")
  /\ UNCHANGED <<batch, bridge, route, rw, pend, routerInflight, poll>>

StartSave ==
  /\ at["sRun"] < Savers /\ Move("sIn", "sRun")
  /\ UNCHANGED <<batch, bridge, route, rw, pend, routerInflight, poll>>

FinishSave ==
  /\ Leave("sRun") /\ Uncount("saver")
  /\ UNCHANGED <<batch, bridge, route, rw, routerInflight, poll>>

-----------------------------------------------------------------------------
(* Bridge: receive a result, skip an error, SubmitWait a value.            *)

BridgeReceive ==
  /\ bridge = "receive" /\ Leave("fOut")
  /\ bridge' \in {"holding", "receive"}
  /\ UNCHANGED <<batch, route, rw, pend, routerInflight, poll>>

BridgeCount ==
  /\ bridge = "holding" /\ bridge' = "submitting" /\ Count("processor")
  /\ UNCHANGED <<batch, at, route, rw, routerInflight, poll>>

BridgeSend ==
  /\ bridge = "submitting" /\ at["pIn"] < ProcQ
  /\ bridge' = "receive" /\ Enter("pIn")
  /\ UNCHANGED <<batch, route, rw, pend, routerInflight, poll>>

-----------------------------------------------------------------------------
(* routeProcessorOutput.                                                   *)

RouterReceive ==
  /\ router = "receive" /\ Leave("pOut")
  /\ router' = "received"
  /\ UNCHANGED <<batch, bridge, payloads, followUps, budget, rw, pend, routerInflight, poll>>

\* An error result or a nil output is skipped.
RouterSkip ==
  /\ router = "received" /\ router' = "receive"
  /\ UNCHANGED <<batch, at, bridge, payloads, followUps, budget, rw, pend, routerInflight, poll>>

RouterBegin ==
  /\ router = "received" /\ router' = "saving"
  /\ payloads' \in 0..MaxPayloads /\ followUps' \in 0..budget
  /\ budget' = budget - followUps'
  /\ routerInflight' = routerInflight + 1
  /\ UNCHANGED <<batch, at, bridge, rw, pend, poll>>

RouterSave ==
  /\ router = "saving"
  /\ IF payloads = 0
     THEN router' = "deriving" /\ UNCHANGED <<payloads, pend>>
     ELSE router' = "submittingSave" /\ payloads' = payloads - 1 /\ Count("saver")
  /\ UNCHANGED <<batch, at, bridge, followUps, budget, rw, routerInflight, poll>>

RouterSaveAccepted ==
  /\ router = "submittingSave" /\ at["sIn"] < SaveQ
  /\ router' = "saving" /\ Enter("sIn")
  /\ UNCHANGED <<batch, bridge, payloads, followUps, budget, rw, pend, routerInflight, poll>>

\* Next follow-up (derived request or next page), or the end of this output.
RouterDerive ==
  /\ router = "deriving"
  /\ IF followUps = 0
     THEN /\ router' = "receive" /\ routerInflight' = routerInflight - 1
          /\ UNCHANGED followUps
     ELSE /\ router' = "enqueue" /\ routerInflight' = routerInflight + 1
          /\ followUps' = followUps - 1
  /\ UNCHANGED <<batch, at, bridge, payloads, budget, rw, pend, poll>>

EnqueueFetch_MutantBlocking ==
  /\ router = "enqueue"
  /\ \/ /\ at["requeue"] < RequeueCap /\ Enter("requeue") /\ router' = "deriving"
        /\ UNCHANGED <<pend, routerInflight>>
     \/ /\ at["requeue"] = RequeueCap /\ at["fIn"] < FetchQ
        /\ Enter("fIn") /\ router' = "deriving"
        /\ Count("fetcher") /\ routerInflight' = routerInflight - 1
  /\ UNCHANGED <<batch, bridge, payloads, followUps, budget, rw, poll>>

EnqueueFetch_MutantKeepsInflight ==
  /\ router = "enqueue"
  /\ \/ /\ at["requeue"] < RequeueCap /\ Enter("requeue") /\ router' = "deriving"
        /\ UNCHANGED pend
     \/ /\ at["requeue"] = RequeueCap /\ at["fIn"] < FetchQ
        /\ Enter("fIn") /\ router' = "deriving"
        /\ Count("fetcher")
     \/ /\ at["requeue"] = RequeueCap /\ at["fIn"] = FetchQ
        /\ router' = "spill"
        /\ UNCHANGED <<at, pend>>
  /\ UNCHANGED <<batch, bridge, payloads, followUps, budget, rw, routerInflight, poll>>

\* enqueueFetch: the requeue channel, else a non-blocking Submit to the fetcher, else
\* on to the overflow list.  It never blocks the router.
EnqueueFetch ==
  /\ router = "enqueue"
  /\ \/ /\ at["requeue"] < RequeueCap /\ Enter("requeue") /\ router' = "deriving"
        /\ UNCHANGED <<pend, routerInflight>>
     \/ /\ at["requeue"] = RequeueCap /\ at["fIn"] < FetchQ
        /\ Enter("fIn") /\ router' = "deriving"
        /\ Count("fetcher") /\ routerInflight' = routerInflight - 1
     \/ /\ at["requeue"] = RequeueCap /\ at["fIn"] = FetchQ
        /\ router' = "spill"
        /\ UNCHANGED <<at, pend, routerInflight>>
  /\ UNCHANGED <<batch, bridge, payloads, followUps, budget, rw, poll>>

\* The append to the overflow list, under its own lock: both channels were full a
\* moment ago and need not be any more.  At MaxOverflow the request is dropped.
Spill ==
  /\ router = "spill" /\ router' = "deriving"
  /\ IF at["overflow"] < MaxOverflow
     THEN Enter("overflow") /\ UNCHANGED routerInflight
     ELSE routerInflight' = routerInflight - 1 /\ UNCHANGED at
  /\ UNCHANGED <<batch, bridge, payloads, followUps, budget, rw, pend, poll>>

-----------------------------------------------------------------------------
(* A requeue worker: a non-blocking receive, then the overflow list, then  *)
(* a blocking receive; what it holds goes to fetcher.SubmitWait.           *)

RequeuePoll(q) ==
  /\ rw[q] = "poll"
  /\ \/ Leave("requeue") /\ rw' = [rw EXCEPT ![q] = "holding"]
     \/ at["requeue"] = 0 /\ rw' = [rw EXCEPT ![q] = "pop"] /\ UNCHANGED at
  /\ UNCHANGED <<batch, bridge, route, pend, routerInflight, poll>>

PopOverflow(q) ==
  /\ rw[q] = "pop"
  /\ \/ Leave("overflow") /\ rw' = [rw EXCEPT ![q] = "holding"]
     \/ at["overflow"] = 0 /\ rw' = [rw EXCEPT ![q] = "block"] /\ UNCHANGED at
  /\ UNCHANGED <<batch, bridge, route, pend, routerInflight, poll>>

RequeueBlock(q) ==
  /\ rw[q] = "block" /\ Leave("requeue")
  /\ rw' = [rw EXCEPT ![q] = "holding"]
  /\ UNCHANGED <<batch, bridge, route, pend, routerInflight, poll>>

RequeueCount(q) ==
  /\ rw[q] = "holding" /\ rw' = [rw EXCEPT ![q] = "submitting"] /\ Count("fetcher")
  /\ UNCHANGED <<batch, at, bridge, route, routerInflight, poll>>

RequeueSend(q) ==
  /\ rw[q] = "submitting" /\ at["fIn"] < FetchQ
  /\ rw' = [rw EXCEPT ![q] = "decrement"] /\ Enter("fIn")
  /\ UNCHANGED <<batch, bridge, route, pend, routerInflight, poll>>

RequeueDecrement_MutantSkipped(q) ==
  /\ rw[q] = "decrement" /\ rw' = [rw EXCEPT ![q] = "poll"]
  /\ UNCHANGED <<batch, at, bridge, route, pend, routerInflight, poll>>

RequeueDecrement(q) ==
  /\ rw[q] = "decrement" /\ rw' = [rw EXCEPT ![q] = "poll"]
  /\ routerInflight' = routerInflight - 1
  /\ UNCHANGED <<batch, at, bridge, route, pend, poll>>

-----------------------------------------------------------------------------
(* WaitUntilIdle, entered once RunBatch has submitted its seeds: isIdle    *)
(* reads four counters one after the other, every tick.  A pool's Pending  *)
(* is read in one step here (three atomic loads in the code).              *)

Reading(pc) ==
  CASE pc = "router"    -> routerInflight
    [] pc = "fetcher"   -> pend["fetcher"]
    [] pc = "processor" -> pend["processor"]
    [] pc = "saver"     -> pend["saver"]

After(pc) ==
  CASE pc = "router"    -> "fetcher"
    [] pc = "fetcher"   -> "processor"
    [] pc = "processor" -> "saver"

IdlePoll ==
  /\ Waiting /\ seedPc = "done" /\ pollPc # "returned"
  /\ \/ Reading(pollPc) # 0 /\ pollPc' = "router" /\ stable' = 0
     \/ Reading(pollPc) = 0 /\ pollPc # "saver" /\ pollPc' = After(pollPc) /\ UNCHANGED stable
     \/ /\ Reading(pollPc) = 0 /\ pollPc = "saver"
        /\ stable' = stable + 1
        /\ pollPc' = IF stable' >= StablePolls THEN "returned" ELSE "router"
  /\ UNCHANGED <<batch, at, bridge, route, rw, pend, routerInflight>>

-----------------------------------------------------------------------------
RunBatchStep == SubmitSeed \/ SeedAccepted
FetcherStep == StartFetch \/ FinishFetch \/ SendFetched
ProcessorStep == StartProcess \/ FinishProcess \/ SendProcessed
SaverStep == StartSave \/ FinishSave
BridgeStep == BridgeReceive \/ BridgeCount \/ BridgeSend
RouterStep ==
  \/ RouterReceive \/ RouterSkip \/ RouterBegin \/ RouterSave \/ RouterSaveAccepted
  \/ RouterDerive \/ EnqueueFetch \/ Spill
RequeueStep(q) ==
  \/ RequeuePoll(q) \/ PopOverflow(q) \/ RequeueBlock(q)
  \/ RequeueCount(q) \/ RequeueSend(q) \/ RequeueDecrement(q)

Next ==
  \/ RunBatchStep \/ FetcherStep \/ ProcessorStep \/ SaverStep
  \/ BridgeStep \/ RouterStep \/ \E q \in RequeueWorkers : RequeueStep(q)
  \/ IdlePoll

Spec == Init /\ [][Next]_vars

(* Each goroutine is eventually scheduled; requests, processing and saves  *)
(* take finite time (30 s HTTP timeout, four attempts); waiting senders    *)
(* on a channel are served in turn, hence strong fairness of the two kinds *)
(* of goroutine that wait for room in the fetcher queue.                   *)
Fairness ==
  /\ SF_vars(RunBatchStep)
  /\ WF_vars(StartFetch) /\ WF_vars(FinishFetch) /\ WF_vars(SendFetched)
  /\ WF_vars(StartProcess) /\ WF_vars(FinishProcess) /\ WF_vars(SendProcessed)
  /\ WF_vars(StartSave) /\ WF_vars(FinishSave)
  /\ WF_vars(BridgeStep) /\ WF_vars(RouterStep)
  /\ \A q \in RequeueWorkers : SF_vars(RequeueStep(q))
  /\ WF_vars(IdlePoll)

FairSpec == Spec /\ Fairness

-----------------------------------------------------------------------------
(* Properties.                                                             *)

One(b) == IF b THEN 1 ELSE 0
RequeueIn(S) == {q \in RequeueWorkers : rw[q] \in S}

\* routerInflight counts the output being routed plus every follow-up between the
\* router's decision and the fetcher's Submitted counter; Pending of each pool counts
\* its blocked submitters, queued and running items.  Nothing is counted twice, and no
\* hand-over between two counters leaves a follow-up uncounted.
CountersExact ==
  /\ routerInflight =
       One(router \notin {"receive", "received"}) + One(router \in {"enqueue", "spill"})
       + at["requeue"] + at["overflow"]
       + Cardinality(RequeueIn({"holding", "submitting", "decrement"}))
  /\ pend["fetcher"] = at["fIn"] + at["fRun"] + One(seedPc = "submitting")
                        + Cardinality(RequeueIn({"submitting"}))
  /\ pend["processor"] = at["pIn"] + at["pRun"] + One(bridge = "submitting")
  /\ pend["saver"] = at["sIn"] + at["sRun"] + One(router = "submittingSave")

\* The blind spot of isIdle, exactly: when all four counters are zero at one instant,
\* work can only be in a pool's output hand-over (a worker's sendResult, an output
\* channel, the hands of Bridge or of the router before they count it).  No follow-up
\* waits in requeue or overflow and no record waits for the saver.
QuietMeansHandoffOnly ==
  routerInflight = 0 /\ (\A s \in Stage : pend[s] = 0) =>
    /\ \A p \in Place \ {"fSend", "fOut", "pSend", "pOut"} : at[p] = 0
    /\ bridge # "submitting" /\ seedPc # "submitting"
    /\ router \in {"receive", "received"}
    /\ \A q \in RequeueWorkers : rw[q] \in {"poll", "pop", "block"}

\* Some goroutine besides the poller can move: a channel it waits for is not empty or has
\* room, or it waits for nothing.
CanMove ==
  \/ seedPc = "next" \/ (seedPc = "submitting" /\ at["fIn"] < FetchQ)
  \/ at["fIn"] > 0 /\ at["fRun"] + at["fSend"] < Fetchers
  \/ at["fRun"] > 0 \/ (at["fSend"] > 0 /\ at["fOut"] < FetchOut)
  \/ bridge = "receive" /\ at["fOut"] > 0
  \/ bridge = "holding" \/ (bridge = "submitting" /\ at["pIn"] < ProcQ)
  \/ at["pIn"] > 0 /\ at["pRun"] + at["pSend"] < Processors
  \/ at["pRun"] > 0 \/ (at["pSend"] > 0 /\ at["pOut"] < ProcOut)
  \/ router = "receive" /\ at["pOut"] > 0
  \/ router = "submittingSave" /\ at["sIn"] < SaveQ
  \/ router \notin {"receive", "submittingSave"}
  \/ at["sIn"] > 0 /\ at["sRun"] < Savers
  \/ at["sRun"] > 0
  \/ \E q \in RequeueWorkers :
       \/ rw[q] \in {"poll", "pop", "holding", "decrement"}
       \/ rw[q] = "block" /\ at["requeue"] > 0
       \/ rw[q] = "submitting" /\ at["fIn"] < FetchQ

\* All that was submitted or derived has gone through, but for the overflow list.
AllThrough ==
  /\ seedPc = "done" /\ bridge = "receive" /\ router = "receive"
  /\ \A q \in RequeueWorkers : rw[q] = "block"
  /\ \A p \in Place \ {"overflow"} : at[p] = 0

\* The cycle fetcher -> processor -> router -> fetcher cannot deadlock, however full its
\* queues, because the router never waits for the fetcher: when no goroutine can move,
\* all work is done but what may sit on the overflow list.
MovesOrThrough == CanMove \/ AllThrough

\* The same of the next-state relation itself: unless a poller spins, it allows a step
\* exactly when CanMove says so.
NeverWedged == ~Waiting => (CanMove <=> ENABLED Next) /\ MovesOrThrough

\* WaitUntilIdle returns once the remote data is exhausted, unless a request stays on
\* the overflow list for ever.
WaitReturnsOrStranded == <>(pollPc = "returned") \/ <>[](at["overflow"] > 0)

\* WaitUntilIdle returns once the remote data is exhausted.
WaitReturns == <>(pollPc = "returned")
=============================================================================
