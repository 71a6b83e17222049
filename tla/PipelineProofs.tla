--------------------------- MODULE PipelineProofs ---------------------------
(***************************************************************************)
(* Proofs about Pipeline for every capacity, number of workers and volume  *)
(* of requests: the counters WaitUntilIdle reads are exact, the cycle      *)
(* fetcher -> processor -> router -> fetcher cannot deadlock, and a batch  *)
(* is finitely many steps.                                                 *)
(***************************************************************************)
EXTENDS Pipeline, FiniteSetTheorems, TLAPS

\* Requeue workers holding a request: before, during and just after SubmitWait.
Carrying   == RequeueIn({"holding", "submitting", "decrement"})
Submitting == RequeueIn({"submitting"})

\* The inductive invariant.
IInv ==
  /\ TypeOK
  /\ CountersExact
  /\ pollPc # "returned" => stable < StablePolls

-----------------------------------------------------------------------------
\* What one step of requeue worker q does to the number of workers in a set of states.
LEMMA RequeueMove ==
  ASSUME rw \in [RequeueWorkers -> RequeuePc], NEW q \in RequeueWorkers,
         NEW b \in RequeuePc, rw' = [rw EXCEPT ![q] = b], NEW S
  PROVE  Cardinality(RequeueIn(S)') =
           Cardinality(RequeueIn(S)) + One(b \in S) - One(rw[q] \in S)
<1>1. IsFiniteSet(RequeueIn(S)) /\ Cardinality(RequeueIn(S)) \in Nat
  BY PipelineAssumption, FS_Subset, FS_CardinalityType DEF RequeueIn
<1>2. CASE b \in S /\ rw[q] \notin S
  <2>1. RequeueIn(S)' = RequeueIn(S) \cup {q} /\ q \notin RequeueIn(S)
    BY <1>2 DEF RequeueIn
  <2>2. Cardinality(RequeueIn(S)') = Cardinality(RequeueIn(S)) + 1
    BY <1>1, <2>1, FS_AddElement
  <2> QED BY <1>1, <1>2, <2>2 DEF One
<1>3. CASE b \notin S /\ rw[q] \in S
  <2>1. RequeueIn(S)' = RequeueIn(S) \ {q} /\ q \in RequeueIn(S)
    BY <1>3 DEF RequeueIn
  <2>2. Cardinality(RequeueIn(S)') = Cardinality(RequeueIn(S)) - 1
    BY <1>1, <2>1, FS_RemoveElement
  <2> QED BY <1>1, <1>3, <2>2 DEF One
<1>4. CASE (b \in S) <=> (rw[q] \in S)
  <2>1. RequeueIn(S)' = RequeueIn(S)
    BY <1>4 DEF RequeueIn
  <2> QED BY <1>1, <1>4, <2>1 DEF One
<1> QED BY <1>2, <1>3, <1>4

\* The numbers of requeue workers that hold a request are natural numbers, and change only
\* with the workers.
LEMMA RequeueCounts ==
  /\ Cardinality(Carrying) \in Nat /\ Cardinality(Submitting) \in Nat
  /\ UNCHANGED rw => Carrying' = Carrying /\ Submitting' = Submitting
<1>1. IsFiniteSet(Carrying) /\ IsFiniteSet(Submitting)
  BY PipelineAssumption, FS_Subset DEF Carrying, Submitting, RequeueIn
<1> QED BY <1>1, FS_CardinalityType DEF Carrying, Submitting, RequeueIn

\* The follow-ups of an output come out of the budget.
LEMMA Share ==
  ASSUME NEW B \in Nat, NEW b \in 0..B, NEW f \in 0..b
  PROVE  f \in 0..B /\ b - f \in 0..B
OBVIOUS

\* Nothing is counted, and nothing is anywhere, before the first seed.
LEMMA InitIInv == Init => IInv
<1> SUFFICES ASSUME Init PROVE IInv
  OBVIOUS
<1>1. \A S : (\A s \in S : s # "poll") => Cardinality(RequeueIn(S)) = 0
  BY FS_EmptySet DEF Init, RequeueIn
<1>2. Cardinality(RequeueIn({"submitting"})) = 0
      /\ Cardinality(RequeueIn({"holding", "submitting", "decrement"})) = 0
  BY <1>1
<1>3. TypeOK
  BY PipelineAssumption DEF Init, TypeOK, Place, Stage, RouterPc, RequeuePc
<1>4. CountersExact
  BY <1>2 DEF Init, CountersExact, Place, Stage, One
<1> QED BY <1>3, <1>4, PipelineAssumption DEF Init, IInv

-----------------------------------------------------------------------------
\* Steps of RunBatch, the pools, the bridge and the poller leave the requeue workers
\* alone and move requests between places whose sum their counter tracks.
LEMMA PoolStepsKeep ==
  ASSUME IInv, RunBatchStep \/ FetcherStep \/ ProcessorStep \/ SaverStep \/ BridgeStep
  PROVE  IInv'
<1> USE PipelineAssumption, RequeueCounts
    DEF batch, route, poll, Move, Leave, Enter, Count, Uncount, Place, Stage
<1>1. UNCHANGED <<rw, router, payloads, followUps, budget, routerInflight, pollPc, stable>>
  BY DEF RunBatchStep, SubmitSeed, SeedAccepted, FetcherStep, StartFetch, FinishFetch, SendFetched,
     ProcessorStep, StartProcess, FinishProcess, SendProcessed, SaverStep, StartSave, FinishSave,
     BridgeStep, BridgeReceive, BridgeCount, BridgeSend
<1>2. TypeOK' /\ CountersExact'
  <2>1. CASE SubmitSeed
    BY <1>1, <2>1 DEF IInv, TypeOK, CountersExact, One, Carrying, Submitting, SubmitSeed
  <2>2. CASE SeedAccepted
    BY <1>1, <2>2 DEF IInv, TypeOK, CountersExact, One, Carrying, Submitting, SeedAccepted
  <2>3. CASE StartFetch
    BY <1>1, <2>3 DEF IInv, TypeOK, CountersExact, One, Carrying, Submitting, StartFetch
  <2>4. CASE FinishFetch
    BY <1>1, <2>4 DEF IInv, TypeOK, CountersExact, One, Carrying, Submitting, FinishFetch
  <2>5. CASE SendFetched
    BY <1>1, <2>5 DEF IInv, TypeOK, CountersExact, One, Carrying, Submitting, SendFetched
  <2>6. CASE StartProcess
    BY <1>1, <2>6 DEF IInv, TypeOK, CountersExact, One, Carrying, Submitting, StartProcess
  <2>7. CASE FinishProcess
    BY <1>1, <2>7 DEF IInv, TypeOK, CountersExact, One, Carrying, Submitting, FinishProcess
  <2>8. CASE SendProcessed
    BY <1>1, <2>8 DEF IInv, TypeOK, CountersExact, One, Carrying, Submitting, SendProcessed
  <2>9. CASE StartSave
    BY <1>1, <2>9 DEF IInv, TypeOK, CountersExact, One, Carrying, Submitting, StartSave
  <2>10. CASE FinishSave
    BY <1>1, <2>10 DEF IInv, TypeOK, CountersExact, One, Carrying, Submitting, FinishSave
  <2>11. CASE BridgeReceive
    BY <1>1, <2>11 DEF IInv, TypeOK, CountersExact, One, Carrying, Submitting, BridgeReceive
  <2>12. CASE BridgeCount
    BY <1>1, <2>12 DEF IInv, TypeOK, CountersExact, One, Carrying, Submitting, BridgeCount
  <2>13. CASE BridgeSend
    BY <1>1, <2>13 DEF IInv, TypeOK, CountersExact, One, Carrying, Submitting, BridgeSend
  <2> QED
    BY <2>1, <2>2, <2>3, <2>4, <2>5, <2>6, <2>7, <2>8, <2>9, <2>10, <2>11, <2>12, <2>13
    DEF RunBatchStep, FetcherStep, ProcessorStep, SaverStep, BridgeStep
<1> QED BY <1>1, <1>2 DEF IInv

\* The router's own share of routerInflight follows its program counter.
LEMMA RouterStepsKeep ==
  ASSUME IInv, RouterStep
  PROVE  IInv'
<1> USE PipelineAssumption, RequeueCounts
    DEF batch, route, poll, Move, Leave, Enter, Count, Uncount, Place, Stage
<1>1. UNCHANGED <<rw, seeds, seedPc, bridge, pollPc, stable>>
  BY DEF RouterStep, RouterReceive, RouterSkip, RouterBegin, RouterSave, RouterSaveAccepted,
     RouterDerive, EnqueueFetch, Spill
<1>2. TypeOK' /\ CountersExact'
  <2>1. CASE RouterReceive
    BY <1>1, <2>1
    DEF IInv, TypeOK, CountersExact, One, Carrying, Submitting, RouterPc, RouterReceive
  <2>2. CASE RouterSkip
    BY <1>1, <2>2 DEF IInv, TypeOK, CountersExact, One, Carrying, Submitting, RouterPc, RouterSkip
  <2>3. CASE RouterBegin
    <3> HIDE DEF batch, route, poll, Move, Leave, Enter, Count, Uncount, Place, Stage
    <3>a. Budget \in Nat /\ budget \in 0..Budget
      BY DEF IInv, TypeOK
    <3>b. followUps' \in 0..budget /\ budget' = budget - followUps'
      BY <2>3 DEF RouterBegin
    <3>1. followUps' \in 0..Budget /\ budget' \in 0..Budget
      BY <3>a, <3>b, Share
    <3>c. routerInflight' \in Nat
      BY <2>3 DEF IInv, TypeOK, RouterBegin
    <3>2. TypeOK'
      BY <1>1, <2>3, <3>1, <3>c DEF IInv, TypeOK, RouterPc, RouterBegin, batch, poll
    <3>3. UNCHANGED <<at, bridge, rw, pend, seedPc>> /\ router = "received" /\ router' = "saving"
      BY <1>1, <2>3 DEF RouterBegin
    <3>4. routerInflight' = routerInflight + 1
      BY <2>3 DEF RouterBegin
    <3>5. routerInflight = at["requeue"] + at["overflow"] + Cardinality(Carrying)
      BY <3>3, at["requeue"] \in Nat, at["overflow"] \in Nat
      DEF IInv, TypeOK, CountersExact, One, Carrying, Place
    <3>6. CountersExact'
      BY <3>3, <3>4, <3>5, at["requeue"] \in Nat, at["overflow"] \in Nat
      DEF IInv, TypeOK, CountersExact, One, Carrying, Submitting, Place
    <3> QED BY <3>2, <3>6
  <2>4. CASE RouterSave
    BY <1>1, <2>4 DEF IInv, TypeOK, CountersExact, One, Carrying, Submitting, RouterPc, RouterSave
  <2>5. CASE RouterSaveAccepted
    BY <1>1, <2>5
    DEF IInv, TypeOK, CountersExact, One, Carrying, Submitting, RouterPc, RouterSaveAccepted
  <2>6. CASE RouterDerive
    BY <1>1, <2>6 DEF IInv, TypeOK, CountersExact, One, Carrying, Submitting, RouterPc, RouterDerive
  <2>7. CASE EnqueueFetch
    BY <1>1, <2>7 DEF IInv, TypeOK, CountersExact, One, Carrying, Submitting, RouterPc, EnqueueFetch
  <2>8. CASE Spill
    BY <1>1, <2>8 DEF IInv, TypeOK, CountersExact, One, Carrying, Submitting, RouterPc, Spill
  <2> QED
    BY <2>1, <2>2, <2>3, <2>4, <2>5, <2>6, <2>7, <2>8 DEF RouterStep
<1> QED BY <1>1, <1>2 DEF IInv

\* A requeue worker carries its request from the lists to the fetcher's counter and
\* only then takes it out of routerInflight.
LEMMA RequeueStepsKeep ==
  ASSUME IInv, NEW q \in RequeueWorkers, RequeueStep(q)
  PROVE  IInv'
<1> USE PipelineAssumption, RequeueCounts
    DEF batch, route, poll, Move, Leave, Enter, Count, Uncount, Place, Stage
<1>1. UNCHANGED <<seeds, seedPc, bridge, router, payloads, followUps, budget, pollPc, stable>>
  BY DEF RequeueStep, RequeuePoll, PopOverflow, RequeueBlock, RequeueCount, RequeueSend,
     RequeueDecrement
<1>2. PICK b \in RequeuePc : rw' = [rw EXCEPT ![q] = b]
  BY DEF RequeuePc, RequeueStep, RequeuePoll, PopOverflow, RequeueBlock, RequeueCount, RequeueSend,
     RequeueDecrement
<1>3. rw \in [RequeueWorkers -> RequeuePc] /\ rw' \in [RequeueWorkers -> RequeuePc] /\ rw'[q] = b
  BY <1>2 DEF IInv, TypeOK
<1>4. Cardinality(Carrying') = Cardinality(Carrying)
          + One(b \in {"holding", "submitting", "decrement"})
          - One(rw[q] \in {"holding", "submitting", "decrement"})
  BY <1>2, <1>3, RequeueMove DEF Carrying
<1>5. Cardinality(Submitting') = Cardinality(Submitting)
          + One(b \in {"submitting"}) - One(rw[q] \in {"submitting"})
  BY <1>2, <1>3, RequeueMove DEF Submitting
<1>6. TypeOK' /\ CountersExact'
  <2>1. CASE RequeuePoll(q)
    <3>1. TypeOK'
      BY <1>1, <1>3, <2>1 DEF IInv, TypeOK, RequeuePoll
    <3>2. rw[q] = "poll" /\ (b = "holding" \/ b = "pop")
      BY <1>3, <2>1 DEF RequeuePoll
    <3>3. /\ Cardinality(Carrying') = Cardinality(Carrying) + One(b = "holding")
          /\ Cardinality(Submitting') = Cardinality(Submitting)
      BY <1>4, <1>5, <3>2 DEF One
    <3>4. at'["requeue"] = at["requeue"] - One(b = "holding")
          /\ \A p \in Place \ {"requeue"} : at'[p] = at[p]
      BY <1>3, <2>1, <3>2 DEF IInv, TypeOK, RequeuePoll, One
    <3>5. UNCHANGED <<pend, routerInflight>>
      BY <2>1 DEF RequeuePoll
    <3>6. CountersExact'
      BY <1>1, <3>2, <3>3, <3>4, <3>5 DEF IInv, TypeOK, CountersExact, One, Carrying, Submitting
    <3> QED BY <3>1, <3>6
  <2>2. CASE PopOverflow(q)
    BY <1>1, <1>3, <1>4, <1>5, <2>2
    DEF IInv, TypeOK, CountersExact, One, Carrying, Submitting, RequeuePc, PopOverflow
  <2>3. CASE RequeueBlock(q)
    BY <1>1, <1>3, <1>4, <1>5, <2>3
    DEF IInv, TypeOK, CountersExact, One, Carrying, Submitting, RequeuePc, RequeueBlock
  <2>4. CASE RequeueCount(q)
    BY <1>1, <1>3, <1>4, <1>5, <2>4
    DEF IInv, TypeOK, CountersExact, One, Carrying, Submitting, RequeuePc, RequeueCount
  <2>5. CASE RequeueSend(q)
    <3>1. rw[q] = "submitting" /\ b = "decrement"
      BY <1>3, <2>5 DEF RequeueSend
    <3>2. /\ Cardinality(Carrying') = Cardinality(Carrying) - 0
          /\ Cardinality(Submitting') = Cardinality(Submitting) - 1
      BY <1>4, <1>5, <3>1 DEF One
    <3>3. CountersExact'
      BY <1>1, <2>5, <3>2 DEF IInv, TypeOK, CountersExact, One, Carrying, Submitting, RequeueSend
    <3>4. TypeOK'
      BY <1>1, <1>3, <2>5, <3>2
      DEF IInv, TypeOK, CountersExact, One, Carrying, Submitting, RequeueSend
    <3> QED BY <3>3, <3>4
  <2>6. CASE RequeueDecrement(q)
    <3>1. rw[q] = "decrement" /\ b = "poll"
      BY <1>3, <2>6 DEF RequeueDecrement
    <3>2. /\ Cardinality(Carrying') = Cardinality(Carrying) - 1
          /\ Cardinality(Submitting') = Cardinality(Submitting) - 0
      BY <1>4, <1>5, <3>1 DEF One
    <3>3. CountersExact'
      BY <1>1, <2>6, <3>2
      DEF IInv, TypeOK, CountersExact, One, Carrying, Submitting, RequeueDecrement
    <3>4. Cardinality(Carrying') \in Nat
      BY <1>2, <1>3, FS_Subset, FS_CardinalityType DEF Carrying, RequeueIn
    <3>5. routerInflight' \in Nat
      BY <1>1, <2>6, <3>2, <3>3, <3>4
      DEF IInv, TypeOK, CountersExact, Carrying, One, RequeueDecrement
    <3>6. TypeOK'
      BY <1>1, <1>3, <2>6, <3>5 DEF IInv, TypeOK, RequeueDecrement
    <3> QED BY <3>3, <3>6
  <2> QED
    BY <2>1, <2>2, <2>3, <2>4, <2>5, <2>6 DEF RequeueStep
<1> QED BY <1>1, <1>6 DEF IInv

\* Polling only reads the counters; stable stays below its limit until it returns.
LEMMA PollKeeps ==
  ASSUME IInv, IdlePoll \/ UNCHANGED vars
  PROVE  IInv'
<1> USE PipelineAssumption DEF batch, route, poll, vars
<1>1. UNCHANGED <<batch, at, bridge, route, rw, pend, routerInflight>>
  BY DEF IdlePoll
<1>2. CountersExact'
  BY <1>1 DEF IInv, CountersExact, RequeueIn
<1>3. pollPc' \in {"router", "fetcher", "processor", "saver", "returned"}
      /\ stable' \in 0..StablePolls
      /\ (pollPc' # "returned" => stable' < StablePolls)
  BY DEF IInv, TypeOK, IdlePoll, After
<1> QED BY <1>1, <1>2, <1>3 DEF IInv, TypeOK

-----------------------------------------------------------------------------
\* The strengthened invariant holds in every reachable state.
THEOREM Inductive == Spec => []IInv
<1>1. IInv /\ [Next]_vars => IInv'
  BY PoolStepsKeep, RouterStepsKeep, RequeueStepsKeep, PollKeeps DEF Next
<1> QED BY InitIInv, <1>1, PTL DEF Spec

\* Channels, worker groups and the overflow list stay within their capacities and no
\* counter goes below zero.
THEOREM TypeCorrect == Spec => []TypeOK
<1>1. IInv => TypeOK
  BY DEF IInv
<1> QED BY <1>1, Inductive, PTL

\* routerInflight and every Pending() count exactly what they stand for.
THEOREM CountersAreExact == Spec => []CountersExact
<1>1. IInv => CountersExact
  BY DEF IInv
<1> QED BY <1>1, Inductive, PTL

\* All counters zero at one instant: only output hand-overs can hold work, so isIdle's
\* blind spot is no larger than that, at any capacity and load.
THEOREM QuietIsHandoffOnly == Spec => []QuietMeansHandoffOnly
<1>1. IInv => QuietMeansHandoffOnly
  <2> SUFFICES ASSUME IInv, routerInflight = 0, \A s \in Stage : pend[s] = 0
               PROVE  /\ \A p \in Place \ {"fSend", "fOut", "pSend", "pOut"} : at[p] = 0
                      /\ bridge # "submitting" /\ seedPc # "submitting"
                      /\ router \in {"receive", "received"}
                      /\ \A q \in RequeueWorkers : rw[q] \in {"poll", "pop", "block"}
    BY DEF QuietMeansHandoffOnly
  <2>1. \A p \in Place : at[p] \in Nat
    BY DEF IInv, TypeOK
  <2>2. Cardinality(Carrying) \in Nat /\ Cardinality(Submitting) \in Nat
    BY RequeueCounts
  <2>3. pend["fetcher"] = 0 /\ pend["processor"] = 0 /\ pend["saver"] = 0
    BY DEF Stage
  <2>4. /\ router \in {"receive", "received"}
        /\ at["requeue"] = 0 /\ at["overflow"] = 0 /\ Cardinality(Carrying) = 0
    BY <2>1, <2>2 DEF IInv, TypeOK, CountersExact, Carrying, Place, One, RouterPc
  <2>5. at["fIn"] = 0 /\ at["fRun"] = 0 /\ seedPc # "submitting"
    <3>1. 0 = at["fIn"] + at["fRun"] + One(seedPc = "submitting") + Cardinality(Submitting)
      BY <2>3 DEF IInv, CountersExact, Submitting
    <3>2. at["fIn"] \in Nat /\ at["fRun"] \in Nat
      BY <2>1 DEF Place
    <3>3. CASE seedPc = "submitting"
      <4>1. One(seedPc = "submitting") = 1
        BY <3>3 DEF One
      <4> QED BY <2>2, <3>1, <3>2, <4>1
    <3>4. CASE seedPc # "submitting"
      <4>1. One(seedPc = "submitting") = 0
        BY <3>4 DEF One
      <4> QED BY <2>2, <3>1, <3>2, <3>4, <4>1
    <3> QED BY <3>3, <3>4
  <2>6. at["pIn"] = 0 /\ at["pRun"] = 0 /\ bridge # "submitting"
    BY <2>1, <2>3 DEF IInv, CountersExact, Place, One
  <2>7. at["sIn"] = 0 /\ at["sRun"] = 0
    <3>1. 0 = at["sIn"] + at["sRun"] + One(router = "submittingSave")
      BY <2>3 DEF IInv, CountersExact
    <3>2. at["sIn"] \in Nat /\ at["sRun"] \in Nat
      BY <2>1 DEF Place
    <3> QED BY <3>1, <3>2 DEF One
  <2>8. Carrying = {}
    BY <2>4, PipelineAssumption, FS_Subset, FS_EmptySet DEF Carrying, RequeueIn
  <2>9. \A q \in RequeueWorkers : rw[q] \in {"poll", "pop", "block"}
    BY <2>8 DEF Carrying, RequeueIn, IInv, TypeOK, RequeuePc
  <2> QED BY <2>4, <2>5, <2>6, <2>7, <2>9 DEF Place
<1> QED BY <1>1, Inductive, PTL

-----------------------------------------------------------------------------
(* Nothing gets stuck.                                                     *)

\* Whatever the capacities, the workers and the load, some goroutine can move or all work
\* has gone through: a full queue is followed, through workers that are all sending, to a
\* full queue further on, up to the router, which waits for the saver only, and the saver
\* for nobody.
THEOREM CycleNeverWedges == Spec => []MovesOrThrough
<1>1. IInv => MovesOrThrough
  <2> SUFFICES ASSUME TypeOK, ~CanMove PROVE AllThrough
    BY DEF IInv, MovesOrThrough
  <2>0. \A p \in Place : at[p] \in Nat
    BY DEF TypeOK
  <2> USE DEF Place
  <2>1. at["sRun"] = 0 /\ at["sIn"] = 0
    BY <2>0, PipelineAssumption DEF CanMove
  <2>2. router = "receive"
    BY <2>1, PipelineAssumption DEF CanMove
  <2>3. at["pOut"] = 0 /\ at["pRun"] = 0
    BY <2>0, <2>2 DEF CanMove
  <2>4. at["pSend"] = 0
    BY <2>0, <2>3, PipelineAssumption DEF CanMove
  <2>5. at["pIn"] = 0
    BY <2>0, <2>3, <2>4, PipelineAssumption DEF CanMove
  <2>6. bridge = "receive"
    BY <2>5, PipelineAssumption DEF CanMove, TypeOK
  <2>7. at["fOut"] = 0 /\ at["fRun"] = 0
    BY <2>0, <2>6 DEF CanMove
  <2>8. at["fSend"] = 0
    BY <2>0, <2>7, PipelineAssumption DEF CanMove
  <2>9. at["fIn"] = 0
    BY <2>0, <2>7, <2>8, PipelineAssumption DEF CanMove
  <2>10. seedPc = "done"
    BY <2>9, PipelineAssumption DEF CanMove, TypeOK
  <2>11. ASSUME NEW q \in RequeueWorkers PROVE rw[q] = "block"
    <3>1. rw[q] \in RequeuePc
      BY DEF TypeOK
    <3> QED
      BY <2>9, <3>1, PipelineAssumption DEF CanMove, RequeuePc
  <2>12. at["requeue"] = 0
    BY <2>0, <2>11, PipelineAssumption DEF CanMove
  <2> QED
    BY <2>1, <2>2, <2>3, <2>4, <2>5, <2>6, <2>7, <2>8, <2>9, <2>10, <2>11, <2>12
    DEF AllThrough
<1> QED
  BY <1>1, Inductive, PTL

-----------------------------------------------------------------------------
(* Every batch is finitely many steps.                                     *)

\* How many steps a request may still give rise to, without its follow-ups: from each place
\* on, where a place later on the way has less.
PerPayload == 4
Received   == 3 + PerPayload * MaxPayloads
Fetched    == Received + 10
Requeued   == Fetched + 6
FollowUp   == Requeued + 3

Steps == [p \in Place |->
  CASE p = "fIn"   -> Fetched       [] p = "fRun"  -> Fetched - 1
    [] p = "fSend" -> Fetched - 2   [] p = "fOut"  -> Fetched - 3
    [] p = "pIn"   -> Received + 4  [] p = "pRun"  -> Received + 3
    [] p = "pSend" -> Received + 2  [] p = "pOut"  -> Received + 1
    [] p = "sIn"   -> 2             [] p = "sRun"  -> 1
    [] OTHER       -> Requeued]

SeedSteps == [pc \in {"next", "submitting", "done"} |->
  CASE pc = "next" -> 1 [] pc = "submitting" -> Fetched + 2 [] OTHER -> 0]

BridgeSteps == [pc \in {"receive", "holding", "submitting"} |->
  CASE pc = "holding" -> Received + 6 [] pc = "submitting" -> Received + 5 [] OTHER -> 0]

RouterSteps == [pc \in RouterPc |->
  CASE pc = "receive" -> 0  [] pc = "received" -> Received [] pc = "saving" -> 2
    [] pc = "submittingSave" -> 5 [] pc = "deriving" -> 1
    [] pc = "enqueue" -> Requeued + 3 [] OTHER -> Requeued + 2]

RequeueSteps == [pc \in RequeuePc |->
  CASE pc = "poll" -> 2 [] pc = "pop" -> 1 [] pc = "block" -> 0
    [] pc = "holding" -> Fetched + 5 [] pc = "submitting" -> Fetched + 4 [] OTHER -> 3]

\* The sum over the places.
OverPlaces(f) ==
  f["fIn"] + f["fRun"] + f["fSend"] + f["fOut"] + f["pIn"] + f["pRun"] + f["pSend"] + f["pOut"]
    + f["sIn"] + f["sRun"] + f["requeue"] + f["overflow"]

SeedWork    == (Fetched + 2) * seeds + SeedSteps[seedPc]
PlaceWork   == OverPlaces([p \in Place |-> Steps[p] * at[p]])
OutputWork  == PerPayload * payloads + FollowUp * (budget + followUps)
Workers(pc) == RequeueSteps[pc] * Cardinality(RequeueIn({pc}))
RouterWork  == RouterSteps[router]
BridgeWork  == BridgeSteps[bridge]
RequeueWork ==
  Workers("poll") + Workers("pop") + Workers("block") + Workers("holding")
    + Workers("submitting") + Workers("decrement")

\* How many steps may still be taken, not counting those of the poller.
Work == SeedWork + PlaceWork + OutputWork + RouterWork + BridgeWork + RequeueWork

\* The weights are natural numbers.
LEMMA StepsAreNat ==
  /\ Received \in Nat /\ Fetched \in Nat /\ Requeued \in Nat /\ FollowUp \in Nat
  /\ Received = 3 + 4 * MaxPayloads
  /\ Fetched = Received + 10 /\ Requeued = Fetched + 6 /\ FollowUp = Requeued + 3
  /\ Steps \in [Place -> Nat] /\ SeedSteps \in [{"next", "submitting", "done"} -> Nat]
  /\ BridgeSteps \in [{"receive", "holding", "submitting"} -> Nat]
  /\ RouterSteps \in [RouterPc -> Nat] /\ RequeueSteps \in [RequeuePc -> Nat]
<1>1. /\ Received \in Nat /\ Fetched \in Nat /\ Requeued \in Nat /\ FollowUp \in Nat
      /\ Received = 3 + 4 * MaxPayloads
      /\ Fetched = Received + 10 /\ Requeued = Fetched + 6 /\ FollowUp = Requeued + 3
  BY PipelineAssumption DEF Received, Fetched, Requeued, FollowUp, PerPayload
<1> USE <1>1
<1>2. Steps \in [Place -> Nat]
  BY DEF Steps, Place
<1>3. SeedSteps \in [{"next", "submitting", "done"} -> Nat]
  BY DEF SeedSteps
<1>4. BridgeSteps \in [{"receive", "holding", "submitting"} -> Nat]
  BY DEF BridgeSteps
<1>5. RouterSteps \in [RouterPc -> Nat]
  BY DEF RouterSteps, RouterPc
<1>6. RequeueSteps \in [RequeuePc -> Nat]
  BY DEF RequeueSteps, RequeuePc
<1> QED
  BY <1>1, <1>2, <1>3, <1>4, <1>5, <1>6

\* One more or one less, times a weight.
LEMMA OneStep ==
  ASSUME NEW w \in Int, NEW n \in Int
  PROVE  w * (n + 1) = w * n + w /\ w * (n - 1) = w * n - w /\ w * n \in Int
OBVIOUS

\* A sum over the places changes as its one place does.
LEMMA OnePlace ==
  ASSUME NEW f \in [Place -> Int], NEW p \in Place, NEW d \in Int
  PROVE  OverPlaces([f EXCEPT ![p] = f[p] + d]) = OverPlaces(f) + d
<1> DEFINE g == [f EXCEPT ![p] = f[p] + d]
<1>1. \A r \in Place : f[r] \in Int /\ g[r] = IF r = p THEN f[r] + d ELSE f[r]
  OBVIOUS
<1> HIDE DEF g
<1>2. OverPlaces(g) = OverPlaces(f) + d
  BY <1>1 DEF OverPlaces, Place
<1> QED
  BY <1>2 DEF g

\* The work at the places is a natural number.
LEMMA PlaceWorkIsNat ==
  ASSUME at \in [Place -> Nat]
  PROVE  PlaceWork \in Nat
<1>1. \A p \in Place : Steps[p] * at[p] \in Nat
  <2>1. ASSUME NEW p \in Place PROVE Steps[p] * at[p] \in Nat
    <3>1. Steps[p] \in Nat /\ at[p] \in Nat
      BY StepsAreNat
    <3> QED
      BY <3>1
  <2> QED
    BY <2>1
<1> DEFINE f == [p \in Place |-> Steps[p] * at[p]]
<1>2. f \in [Place -> Nat]
  BY <1>1
<1> HIDE DEF f
<1>3. OverPlaces(f) \in Nat
  BY <1>2 DEF OverPlaces, Place
<1> QED
  BY <1>3 DEF f, PlaceWork

\* A request that enters a place brings its steps, one that leaves takes them.
LEMMA WorkEnters ==
  ASSUME NEW a \in [Place -> Nat], NEW p \in Place, NEW b, b = [a EXCEPT ![p] = @ + 1]
  PROVE  OverPlaces([r \in Place |-> Steps[r] * b[r]])
           = OverPlaces([r \in Place |-> Steps[r] * a[r]]) + Steps[p]
<1> DEFINE f == [r \in Place |-> Steps[r] * a[r]]
<1>1. ASSUME NEW r \in Place PROVE Steps[r] \in Int /\ a[r] \in Int
  <2>1. Steps[r] \in Nat
    BY StepsAreNat
  <2> QED
    BY <2>1
<1>2. f \in [Place -> Int]
  BY <1>1, OneStep
<1>3. [r \in Place |-> Steps[r] * b[r]] = [f EXCEPT ![p] = f[p] + Steps[p]]
  <2>1. Steps[p] * (a[p] + 1) = Steps[p] * a[p] + Steps[p]
    BY <1>1, OneStep
  <2> QED
    BY <1>1, <2>1
<1> HIDE DEF f
<1>4. OverPlaces([f EXCEPT ![p] = f[p] + Steps[p]]) = OverPlaces(f) + Steps[p]
  BY <1>1, <1>2, OnePlace
<1> QED
  BY <1>3, <1>4 DEF f

\* What a step does to the work at the places.
LEMMA PlaceMoves ==
  ASSUME TypeOK, NEW p \in Place
  PROVE  /\ Enter(p) => PlaceWork' = PlaceWork + Steps[p]
         /\ Leave(p) => PlaceWork' = PlaceWork - Steps[p]
         /\ \A q \in Place \ {p} : Move(p, q) => PlaceWork' = PlaceWork - Steps[p] + Steps[q]
         /\ UNCHANGED at => PlaceWork' = PlaceWork
<1>0. at \in [Place -> Nat] /\ PlaceWork \in Int /\ Steps[p] \in Int
  <2>1. at \in [Place -> Nat]
    BY DEF TypeOK
  <2>2. Steps[p] \in Nat
    BY StepsAreNat
  <2> QED
    BY <2>1, <2>2, PlaceWorkIsNat
<1>1. ASSUME Enter(p) PROVE PlaceWork' = PlaceWork + Steps[p]
  <2>1. at' = [at EXCEPT ![p] = @ + 1]
    BY <1>1 DEF Enter
  <2> QED
    BY <1>0, <2>1, WorkEnters DEF PlaceWork
<1> DEFINE left == [at EXCEPT ![p] = @ - 1]
           Sum(a) == OverPlaces([r \in Place |-> Steps[r] * a[r]])
<1>2. ASSUME at[p] > 0 PROVE left \in [Place -> Nat] /\ Sum(left) = PlaceWork - Steps[p]
  <2>1. left \in [Place -> Nat]
    BY <1>0, <1>2
  <2>2. at = [left EXCEPT ![p] = @ + 1]
    <3>1. ASSUME NEW r \in Place PROVE at[r] = [left EXCEPT ![p] = @ + 1][r]
      <4>1. at[r] \in Int /\ at[p] \in Int
        BY <1>0
      <4> QED
        BY <1>0, <4>1
    <3> DEFINE back == [left EXCEPT ![p] = @ + 1]
    <3>2. back \in [Place -> Int]
      BY <2>1
    <3>3. \A r \in Place : at[r] = back[r]
      BY <3>1
    <3> HIDE DEF back, left
    <3>4. at = back
      BY <1>0, <3>2, <3>3
    <3> QED
      BY <3>4 DEF back
  <2> HIDE DEF left
  <2>3. Sum(at) = Sum(left) + Steps[p]
    BY <2>1, <2>2, WorkEnters
  <2>4. Sum(at) = PlaceWork
    BY DEF PlaceWork
  <2>5. Sum(left) \in Int
    <3>1. ASSUME NEW r \in Place PROVE Steps[r] * left[r] \in Int
      <4>1. Steps[r] \in Nat /\ left[r] \in Nat
        BY <2>1, StepsAreNat
      <4> QED
        BY <4>1
    <3> QED
      BY <3>1 DEF OverPlaces, Place
  <2> HIDE DEF Sum
  <2> QED
    BY <1>0, <2>1, <2>3, <2>4, <2>5
<1>3. ASSUME Leave(p) PROVE PlaceWork' = PlaceWork - Steps[p]
  <2>1. at[p] > 0 /\ at' = left
    BY <1>3 DEF Leave
  <2>2. Sum(left) = PlaceWork - Steps[p]
    BY <1>2, <2>1
  <2> HIDE DEF left
  <2> QED
    BY <2>1, <2>2 DEF PlaceWork
<1>4. ASSUME NEW q \in Place \ {p}, Move(p, q)
      PROVE  PlaceWork' = PlaceWork - Steps[p] + Steps[q]
  <2>1. at[p] > 0 /\ at' = [left EXCEPT ![q] = @ + 1]
    BY <1>0, <1>4 DEF Move
  <2>2. left \in [Place -> Nat] /\ Sum(left) = PlaceWork - Steps[p]
    BY <1>2, <2>1
  <2> HIDE DEF left
  <2>3. Sum(at') = Sum(left) + Steps[q]
    <3>1. q \in Place /\ left \in [Place -> Nat]
      BY <2>2
    <3>2. ASSUME NEW c, c = [left EXCEPT ![q] = @ + 1]
          PROVE  Sum(c) = Sum(left) + Steps[q]
      BY <3>1, <3>2, WorkEnters
    <3> HIDE DEF Sum
    <3> QED
      BY <2>1, <3>2
  <2>4. Sum(at') = PlaceWork'
    BY DEF PlaceWork
  <2> HIDE DEF Sum
  <2> QED
    BY <2>2, <2>3, <2>4
<1>5. ASSUME UNCHANGED at PROVE PlaceWork' = PlaceWork
  BY <1>5 DEF PlaceWork
<1> QED
  BY <1>1, <1>3, <1>4, <1>5

\* The work of the requeue workers is a natural number.
LEMMA RequeueWorkIsNat == RequeueWork \in Nat
<1>1. ASSUME NEW pc \in RequeuePc PROVE Workers(pc) \in Nat
  <2>1. RequeueSteps[pc] \in Nat
    BY StepsAreNat
  <2>2. Cardinality(RequeueIn({pc})) \in Nat
    BY PipelineAssumption, FS_Subset, FS_CardinalityType DEF RequeueIn
  <2> QED
    BY <2>1, <2>2 DEF Workers
<1> QED
  BY <1>1 DEF RequeueWork, RequeuePc

\* What a step of a requeue worker does to their work.
LEMMA RequeueWorkMoves ==
  ASSUME rw \in [RequeueWorkers -> RequeuePc], NEW q \in RequeueWorkers,
         NEW b \in RequeuePc, rw' = [rw EXCEPT ![q] = b]
  PROVE  RequeueWork' = RequeueWork + RequeueSteps[b] - RequeueSteps[rw[q]]
<1> DEFINE a == rw[q]
           In(x, pc) == IF x = pc THEN RequeueSteps[pc] ELSE 0
<1>1. a \in RequeuePc
  OBVIOUS
<1>2. ASSUME NEW pc \in RequeuePc
      PROVE  Workers(pc)' = Workers(pc) + In(b, pc) - In(a, pc) /\ Workers(pc) \in Int
             /\ RequeueSteps[pc] \in Int
  <2> DEFINE n == Cardinality(RequeueIn({pc}))
  <2>1. RequeueSteps[pc] \in Int
    <3>1. RequeueSteps[pc] \in Nat
      BY StepsAreNat
    <3> QED
      BY <3>1
  <2>2. n \in Nat
    BY PipelineAssumption, FS_Subset, FS_CardinalityType DEF RequeueIn
  <2>3. Cardinality(RequeueIn({pc})') = n + One(b \in {pc}) - One(a \in {pc})
    BY RequeueMove
  <2>4. Workers(pc)' = RequeueSteps[pc] * Cardinality(RequeueIn({pc})')
    BY DEF Workers
  <2>5. Workers(pc) = RequeueSteps[pc] * n
    BY DEF Workers
  <2> HIDE DEF n, a
  <2>6. Workers(pc)' = RequeueSteps[pc] * (n + One(b = pc) - One(a = pc))
    BY <2>3, <2>4
  <2>7. In(b, pc) \in Int /\ In(a, pc) \in Int
    BY <2>1
  <2> DEFINE w == RequeueSteps[pc]
  <2>8. w * (n + 1) = w * n + w /\ w * (n - 1) = w * n - w /\ w * n \in Int
    BY <2>1, <2>2, OneStep
  <2>9. Workers(pc)' = w * n + In(b, pc) - In(a, pc)
    <3> HIDE DEF w
    <3> USE <2>2, <2>6, <2>8 DEF One
    <3>1. w \in Int /\ w = RequeueSteps[pc]
      BY <2>1 DEF w
    <3>2. CASE b = pc /\ a = pc
      BY ONLY <2>2, <2>6, <2>8, <3>1, <3>2 DEF One, In
    <3>3. CASE b = pc /\ a # pc
      BY ONLY <2>2, <2>6, <2>8, <3>1, <3>3 DEF One, In
    <3>4. CASE b # pc /\ a = pc
      BY ONLY <2>2, <2>6, <2>8, <3>1, <3>4 DEF One, In
    <3>5. CASE b # pc /\ a # pc
      BY ONLY <2>2, <2>6, <2>8, <3>1, <3>5 DEF One, In
    <3> QED
      BY <3>2, <3>3, <3>4, <3>5
  <2> QED
    BY <2>1, <2>5, <2>8, <2>9
<1> HIDE DEF a
<1>3. /\ RequeueWork' = Workers("poll")' + Workers("pop")' + Workers("block")'
        + Workers("holding")' + Workers("submitting")' + Workers("decrement")'
      /\ RequeueWork = Workers("poll") + Workers("pop") + Workers("block")
        + Workers("holding") + Workers("submitting") + Workers("decrement")
  BY DEF RequeueWork
<1>4. RequeueWork' = RequeueWork + RequeueSteps[b] - RequeueSteps[a]
  <2> HIDE DEF In
  <2>1. RequeueWork' = RequeueWork
          + (In(b, "poll") + In(b, "pop") + In(b, "block") + In(b, "holding")
              + In(b, "submitting") + In(b, "decrement"))
          - (In(a, "poll") + In(a, "pop") + In(a, "block") + In(a, "holding")
              + In(a, "submitting") + In(a, "decrement"))
    <3>1. \A x, pc \in RequeuePc : In(x, pc) \in Int
      BY <1>2 DEF In
    <3> QED
      BY <1>1, <1>2, <1>3, <3>1 DEF RequeuePc
  <2>2. ASSUME NEW x \in RequeuePc
        PROVE  In(x, "poll") + In(x, "pop") + In(x, "block") + In(x, "holding")
                 + In(x, "submitting") + In(x, "decrement") = RequeueSteps[x]
    BY <1>2 DEF In, RequeuePc
  <2>3. RequeueWork \in Int
    BY RequeueWorkIsNat
  <2> QED
    BY <1>1, <2>1, <2>2, <2>3
<1> QED
  BY <1>4 DEF a

\* Every part of the work is a natural number.
LEMMA WorkIsNat ==
  ASSUME TypeOK
  PROVE  /\ SeedWork \in Nat /\ PlaceWork \in Nat /\ OutputWork \in Nat
         /\ RouterWork \in Nat /\ BridgeWork \in Nat /\ RequeueWork \in Nat
         /\ Work \in Nat
<1>1. SeedWork \in Nat
  <2>1. seeds \in Nat /\ SeedSteps[seedPc] \in Nat
    BY PipelineAssumption, StepsAreNat DEF TypeOK
  <2>2. (Fetched + 2) * seeds \in Nat
    BY <2>1, StepsAreNat
  <2> QED
    BY <2>1, <2>2 DEF SeedWork
<1>2. PlaceWork \in Nat
  BY PlaceWorkIsNat DEF TypeOK
<1>3. OutputWork \in Nat
  <2>1. payloads \in Nat /\ budget + followUps \in Nat
    BY PipelineAssumption DEF TypeOK
  <2>2. FollowUp * (budget + followUps) \in Nat
    BY <2>1, StepsAreNat
  <2> QED
    BY <2>1, <2>2 DEF OutputWork, PerPayload
<1>4. RouterWork \in Nat /\ BridgeWork \in Nat
  BY StepsAreNat DEF TypeOK, RouterWork, BridgeWork
<1>5. RequeueWork \in Nat
  BY RequeueWorkIsNat
<1> QED
  BY <1>1, <1>2, <1>3, <1>4, <1>5 DEF Work

\* What a step leaves alone keeps its work.
LEMMA WorkStays ==
  /\ UNCHANGED batch => SeedWork' = SeedWork
  /\ UNCHANGED at => PlaceWork' = PlaceWork
  /\ UNCHANGED route => OutputWork' = OutputWork
  /\ UNCHANGED <<payloads, followUps, budget>> => OutputWork' = OutputWork
  /\ UNCHANGED router => RouterWork' = RouterWork
  /\ UNCHANGED bridge => BridgeWork' = BridgeWork
  /\ UNCHANGED rw => RequeueWork' = RequeueWork
<1>1. UNCHANGED batch => SeedWork' = SeedWork
  BY DEF batch, SeedWork
<1>2. UNCHANGED at => PlaceWork' = PlaceWork
  BY DEF PlaceWork
<1>3. UNCHANGED <<payloads, followUps, budget>> => OutputWork' = OutputWork
  BY DEF OutputWork
<1>4. UNCHANGED route => UNCHANGED <<payloads, followUps, budget>>
  BY DEF route
<1>5. UNCHANGED router => RouterWork' = RouterWork
  BY DEF RouterWork
<1>6. UNCHANGED bridge => BridgeWork' = BridgeWork
  BY DEF BridgeWork
<1>7. UNCHANGED rw => RequeueWork' = RequeueWork
  BY DEF RequeueWork, Workers, RequeueIn
<1> QED
  BY <1>1, <1>2, <1>3, <1>4, <1>5, <1>6, <1>7

\* Submitting the seeds uses up work: a seed has the steps of a request, and two of its own.
LEMMA SeedsUseWork ==
  ASSUME TypeOK, RunBatchStep
  PROVE  Work' < Work
<1> USE StepsAreNat, WorkIsNat
<1>0. seeds \in Nat /\ Steps["fIn"] = Fetched
      /\ SeedSteps["next"] = 1 /\ SeedSteps["submitting"] = Fetched + 2 /\ SeedSteps["done"] = 0
  BY PipelineAssumption DEF TypeOK, Steps, Place, SeedSteps
<1>1. UNCHANGED <<bridge, rw>> /\ UNCHANGED route /\ UNCHANGED router
  BY DEF RunBatchStep, SubmitSeed, SeedAccepted, route
<1>2. OutputWork' = OutputWork /\ RouterWork' = RouterWork /\ BridgeWork' = BridgeWork
      /\ RequeueWork' = RequeueWork
  BY <1>1, WorkStays
<1>3. SeedWork' + PlaceWork' = SeedWork + PlaceWork - 1
  <2>1. CASE SubmitSeed /\ seeds = 0
    <3>1. seedPc = "next" /\ seedPc' = "done" /\ UNCHANGED seeds /\ UNCHANGED at
      BY <2>1 DEF SubmitSeed
    <3>2. PlaceWork' = PlaceWork
      BY <3>1, WorkStays
    <3>3. SeedWork' = SeedWork - 1
      BY <1>0, <2>1, <3>1 DEF SeedWork
    <3> QED
      BY <3>2, <3>3
  <2>2. CASE SubmitSeed /\ seeds # 0
    <3>1. seedPc = "next" /\ seedPc' = "submitting" /\ seeds' = seeds - 1 /\ UNCHANGED at
      BY <2>2 DEF SubmitSeed
    <3>2. PlaceWork' = PlaceWork
      BY <3>1, WorkStays
    <3>3. (Fetched + 2) * seeds' = (Fetched + 2) * seeds - (Fetched + 2)
          /\ (Fetched + 2) * seeds \in Int
      BY <1>0, <3>1, OneStep
    <3>4. SeedWork' = SeedWork - 1
      BY <1>0, <3>1, <3>3 DEF SeedWork
    <3> QED
      BY <3>2, <3>4
  <2>3. CASE SeedAccepted
    <3>1. seedPc = "submitting" /\ seedPc' = "next" /\ UNCHANGED seeds /\ Enter("fIn")
      BY <2>3 DEF SeedAccepted
    <3>2. PlaceWork' = PlaceWork + Fetched
      BY <1>0, <3>1, PlaceMoves DEF Place
    <3>3. (Fetched + 2) * seeds \in Int
      BY <1>0
    <3>4. SeedWork' = SeedWork - (Fetched + 1)
      BY <1>0, <3>1, <3>3 DEF SeedWork
    <3> QED
      BY <3>2, <3>4
  <2> QED
    BY <2>1, <2>2, <2>3 DEF RunBatchStep
<1>4. SeedWork' \in Int /\ PlaceWork' \in Int
  <2>1. seeds' \in Int /\ SeedSteps[seedPc'] \in Int
    BY <1>0 DEF RunBatchStep, SubmitSeed, SeedAccepted
  <2>2. (Fetched + 2) * seeds' \in Int
    BY <2>1
  <2>3. SeedWork' \in Int
    BY <2>1, <2>2 DEF SeedWork
  <2>4. PlaceWork' \in Int
    <3>1. CASE UNCHANGED at
      BY <3>1, WorkStays
    <3>2. CASE Enter("fIn")
      BY <1>0, <3>2, PlaceMoves DEF Place
    <3> QED
      BY <3>1, <3>2 DEF RunBatchStep, SubmitSeed, SeedAccepted
  <2> QED
    BY <2>3, <2>4
<1> QED
  BY <1>2, <1>3, <1>4 DEF Work

\* What a request has still to do from each place on the way of the pools.
LEMMA StepsAtPools ==
  /\ Steps["fIn"] = Fetched /\ Steps["fRun"] = Fetched - 1
  /\ Steps["fSend"] = Fetched - 2 /\ Steps["fOut"] = Fetched - 3
  /\ Steps["pIn"] = Received + 4 /\ Steps["pRun"] = Received + 3
  /\ Steps["pSend"] = Received + 2 /\ Steps["pOut"] = Received + 1
  /\ Steps["sIn"] = 2 /\ Steps["sRun"] = 1
  /\ Steps["requeue"] = Requeued /\ Steps["overflow"] = Requeued
BY DEF Steps, Place

\* Each step of a worker of a pool uses up one step of its request.
LEMMA PoolsUseWork ==
  ASSUME TypeOK, FetcherStep \/ ProcessorStep \/ SaverStep
  PROVE  Work' < Work
<1> USE StepsAreNat, StepsAtPools, WorkIsNat
<1>1. UNCHANGED <<bridge, rw, router>> /\ UNCHANGED batch /\ UNCHANGED route
  BY DEF FetcherStep, StartFetch, FinishFetch, SendFetched, ProcessorStep, StartProcess,
     FinishProcess, SendProcessed, SaverStep, StartSave, FinishSave, route
<1>2. SeedWork' = SeedWork /\ OutputWork' = OutputWork /\ RouterWork' = RouterWork
      /\ BridgeWork' = BridgeWork /\ RequeueWork' = RequeueWork
  BY <1>1, WorkStays
<1>3. ASSUME NEW p \in Place, NEW r \in Place \ {p}, Move(p, r), Steps[r] = Steps[p] - 1
      PROVE  PlaceWork' = PlaceWork - 1
  <2>1. Steps[p] \in Int /\ Steps[r] \in Int
    OBVIOUS
  <2> QED
    BY <1>3, <2>1, PlaceMoves
<1>4. PlaceWork' = PlaceWork - 1
  <2>1. CASE StartFetch
    BY <1>3, <2>1 DEF StartFetch, Place
  <2>2. CASE FinishFetch
    BY <1>3, <2>2 DEF FinishFetch, Place
  <2>3. CASE SendFetched
    BY <1>3, <2>3 DEF SendFetched, Place
  <2>4. CASE StartProcess
    BY <1>3, <2>4 DEF StartProcess, Place
  <2>5. CASE FinishProcess
    BY <1>3, <2>5 DEF FinishProcess, Place
  <2>6. CASE SendProcessed
    BY <1>3, <2>6 DEF SendProcessed, Place
  <2>7. CASE StartSave
    BY <1>3, <2>7 DEF StartSave, Place
  <2>8. CASE FinishSave
    BY <2>8, PlaceMoves DEF FinishSave, Place
  <2> QED
    BY <2>1, <2>2, <2>3, <2>4, <2>5, <2>6, <2>7, <2>8
    DEF FetcherStep, ProcessorStep, SaverStep
<1> QED
  BY <1>2, <1>4 DEF Work

\* The bridge uses up work: what it drops had more steps to do than what it passes on.
LEMMA BridgeUsesWork ==
  ASSUME TypeOK, BridgeStep
  PROVE  Work' < Work
<1> USE StepsAreNat, StepsAtPools, WorkIsNat
<1>0. BridgeSteps["receive"] = 0 /\ BridgeSteps["holding"] = Received + 6
      /\ BridgeSteps["submitting"] = Received + 5
  BY DEF BridgeSteps
<1>1. UNCHANGED <<rw, router>> /\ UNCHANGED batch /\ UNCHANGED route
  BY DEF BridgeStep, BridgeReceive, BridgeCount, BridgeSend, route
<1>2. SeedWork' = SeedWork /\ OutputWork' = OutputWork /\ RouterWork' = RouterWork
      /\ RequeueWork' = RequeueWork
  BY <1>1, WorkStays
<1>3. CASE BridgeReceive
  <2>1. bridge = "receive" /\ bridge' \in {"holding", "receive"} /\ Leave("fOut")
    BY <1>3 DEF BridgeReceive
  <2>2. PlaceWork' = PlaceWork - (Received + 7)
    BY <2>1, PlaceMoves DEF Place
  <2>3. BridgeWork = 0 /\ BridgeWork' \in {0, Received + 6}
    BY <1>0, <2>1 DEF BridgeWork
  <2> QED
    BY <1>2, <2>2, <2>3 DEF Work
<1>4. CASE BridgeCount
  <2>1. bridge = "holding" /\ bridge' = "submitting" /\ UNCHANGED at
    BY <1>4 DEF BridgeCount
  <2>2. PlaceWork' = PlaceWork
    BY <2>1, WorkStays
  <2>3. BridgeWork' = BridgeWork - 1
    BY <1>0, <2>1 DEF BridgeWork
  <2> QED
    BY <1>2, <2>2, <2>3 DEF Work
<1>5. CASE BridgeSend
  <2>1. bridge = "submitting" /\ bridge' = "receive" /\ Enter("pIn")
    BY <1>5 DEF BridgeSend
  <2>2. PlaceWork' = PlaceWork + (Received + 4)
    BY <2>1, PlaceMoves DEF Place
  <2>3. BridgeWork' = BridgeWork - (Received + 5)
    BY <1>0, <2>1 DEF BridgeWork
  <2> QED
    BY <1>2, <2>2, <2>3 DEF Work
<1> QED
  BY <1>3, <1>4, <1>5 DEF BridgeStep

\* A requeue worker uses up work: a request it takes has the steps of the fetcher and its
\* own five before it, and the three that lead the worker back to waiting.
LEMMA RequeueWorkersUseWork ==
  ASSUME TypeOK, NEW q \in RequeueWorkers, RequeueStep(q)
  PROVE  Work' < Work
<1> USE StepsAreNat, StepsAtPools, WorkIsNat
<1>0. /\ RequeueSteps["poll"] = 2 /\ RequeueSteps["pop"] = 1 /\ RequeueSteps["block"] = 0
      /\ RequeueSteps["holding"] = Fetched + 5 /\ RequeueSteps["submitting"] = Fetched + 4
      /\ RequeueSteps["decrement"] = 3
  BY DEF RequeueSteps, RequeuePc
<1>1. UNCHANGED <<bridge, router>> /\ UNCHANGED batch /\ UNCHANGED route
  BY DEF RequeueStep, RequeuePoll, PopOverflow, RequeueBlock, RequeueCount, RequeueSend,
     RequeueDecrement, route
<1>2. SeedWork' = SeedWork /\ OutputWork' = OutputWork /\ RouterWork' = RouterWork
      /\ BridgeWork' = BridgeWork
  BY <1>1, WorkStays
<1>3. ASSUME NEW b \in RequeuePc, rw' = [rw EXCEPT ![q] = b]
      PROVE  RequeueWork' = RequeueWork + RequeueSteps[b] - RequeueSteps[rw[q]]
  <2>1. rw \in [RequeueWorkers -> RequeuePc]
    BY DEF TypeOK
  <2> QED
    BY <1>3, <2>1, RequeueWorkMoves
<1>4. CASE Leave("requeue") \/ Leave("overflow")
  <2>1. PlaceWork' = PlaceWork - Requeued
    BY <1>4, PlaceMoves DEF Place
  <2>2. rw[q] \in {"poll", "pop", "block"} /\ rw' = [rw EXCEPT ![q] = "holding"]
    <3>1. at["requeue"] # at'["requeue"] \/ at["overflow"] # at'["overflow"]
      BY <1>4 DEF Leave, TypeOK, Place
    <3>2. Leave("requeue") \/ Leave("overflow") => ~ Enter("fIn")
      BY DEF Leave, Enter, TypeOK, Place
    <3> QED
      BY <1>4, <3>1, <3>2 DEF RequeueStep, RequeuePoll, PopOverflow, RequeueBlock, RequeueCount,
         RequeueSend, RequeueDecrement
  <2>3. RequeueWork' = RequeueWork + RequeueSteps["holding"] - RequeueSteps[rw[q]]
    BY <1>3, <2>2 DEF RequeuePc
  <2>4. RequeueWork' <= RequeueWork + (Fetched + 5)
    BY <1>0, <2>2, <2>3
  <2>5. RequeueWork' \in Int
    BY <1>0, <2>2, <2>3
  <2> QED
    BY <1>2, <2>1, <2>4, <2>5 DEF Work
<1>5. CASE UNCHANGED at
  <2>1. PlaceWork' = PlaceWork
    BY <1>5, WorkStays
  <2>2. \/ rw[q] = "poll" /\ rw' = [rw EXCEPT ![q] = "pop"]
        \/ rw[q] = "pop" /\ rw' = [rw EXCEPT ![q] = "block"]
        \/ rw[q] = "holding" /\ rw' = [rw EXCEPT ![q] = "submitting"]
        \/ rw[q] = "decrement" /\ rw' = [rw EXCEPT ![q] = "poll"]
    <3>1. ~ Leave("requeue") /\ ~ Leave("overflow") /\ ~ Enter("fIn")
      BY <1>5 DEF Leave, Enter, TypeOK, Place
    <3> QED
      BY <3>1 DEF RequeueStep, RequeuePoll, PopOverflow, RequeueBlock, RequeueCount,
         RequeueSend, RequeueDecrement
  <2>3. RequeueWork' = RequeueWork - 1
    BY <1>0, <1>3, <2>2 DEF RequeuePc
  <2> QED
    BY <1>2, <2>1, <2>3 DEF Work
<1>6. CASE RequeueSend(q)
  <2>1. rw[q] = "submitting" /\ rw' = [rw EXCEPT ![q] = "decrement"] /\ Enter("fIn")
    BY <1>6 DEF RequeueSend
  <2>2. PlaceWork' = PlaceWork + Fetched
    BY <2>1, PlaceMoves DEF Place
  <2>3. RequeueWork' = RequeueWork - (Fetched + 1)
    BY <1>0, <1>3, <2>1 DEF RequeuePc
  <2> QED
    BY <1>2, <2>2, <2>3 DEF Work
<1> QED
  BY <1>4, <1>5, <1>6 DEF RequeueStep, RequeuePoll, PopOverflow, RequeueBlock, RequeueCount,
     RequeueDecrement

\* The router uses up work: an output has the steps of every payload it may carry, and
\* each of its follow-ups was counted from the start.
LEMMA RouterUsesWork ==
  ASSUME TypeOK, RouterStep
  PROVE  Work' < Work
<1> USE StepsAreNat, StepsAtPools, WorkIsNat
<1>0. /\ RouterSteps["receive"] = 0 /\ RouterSteps["received"] = Received
      /\ RouterSteps["saving"] = 2 /\ RouterSteps["submittingSave"] = 5
      /\ RouterSteps["deriving"] = 1 /\ RouterSteps["enqueue"] = Requeued + 3
      /\ RouterSteps["spill"] = Requeued + 2
  BY DEF RouterSteps, RouterPc
<1>1. UNCHANGED <<bridge, rw>> /\ UNCHANGED batch
  BY DEF RouterStep, RouterReceive, RouterSkip, RouterBegin, RouterSave, RouterSaveAccepted,
     RouterDerive, EnqueueFetch, Spill
<1>2. SeedWork' = SeedWork /\ BridgeWork' = BridgeWork /\ RequeueWork' = RequeueWork
  BY <1>1, WorkStays
<1>3. payloads \in Nat /\ budget \in Nat /\ followUps \in Nat
  BY PipelineAssumption DEF TypeOK
<1>4. CASE RouterReceive
  <2>1. router = "receive" /\ router' = "received" /\ Leave("pOut")
        /\ UNCHANGED <<payloads, followUps, budget>>
    BY <1>4 DEF RouterReceive
  <2>2. PlaceWork' = PlaceWork - (Received + 1)
    BY <2>1, PlaceMoves DEF Place
  <2>3. RouterWork' = RouterWork + Received /\ OutputWork' = OutputWork
    BY <1>0, <2>1, WorkStays DEF RouterWork
  <2> QED
    BY <1>2, <2>2, <2>3 DEF Work
<1>5. CASE RouterSkip
  <2>1. router = "received" /\ router' = "receive" /\ UNCHANGED at
        /\ UNCHANGED <<payloads, followUps, budget>>
    BY <1>5 DEF RouterSkip
  <2>2. PlaceWork' = PlaceWork /\ RouterWork' = RouterWork - Received /\ OutputWork' = OutputWork
    BY <1>0, <2>1, WorkStays DEF RouterWork
  <2>3. Received > 0
    BY PipelineAssumption
  <2> QED
    BY <1>2, <2>2, <2>3 DEF Work
<1>6. CASE RouterBegin
  <2>1. router = "received" /\ router' = "saving" /\ UNCHANGED at
        /\ payloads' \in 0..MaxPayloads /\ followUps' \in 0..budget
        /\ budget' = budget - followUps'
    BY <1>6 DEF RouterBegin
  <2>2. PlaceWork' = PlaceWork /\ RouterWork' = RouterWork - (Received - 2)
    BY <1>0, <2>1, WorkStays DEF RouterWork
  <2>3. payloads' \in Nat /\ payloads' <= MaxPayloads /\ budget' + followUps' = budget
    <3>1. ASSUME NEW m \in Nat, NEW n \in 0..m PROVE n \in Nat /\ n <= m /\ (m - n) + n = m
      OBVIOUS
    <3>2. MaxPayloads \in Nat /\ payloads' \in 0..MaxPayloads
      BY <2>1, PipelineAssumption
    <3>3. payloads' \in Nat /\ payloads' <= MaxPayloads
      BY ONLY <3>1, <3>2
    <3>4. (budget - followUps') + followUps' = budget
      BY ONLY <1>3, <2>1, <3>1
    <3> QED
      BY <2>1, <3>3, <3>4
  <2>4. OutputWork' = 4 * payloads' + FollowUp * budget
    BY <2>3 DEF OutputWork, PerPayload
  <2>5. /\ FollowUp * (budget + followUps) = FollowUp * budget + FollowUp * followUps
        /\ FollowUp * budget \in Nat /\ FollowUp * followUps \in Nat
    BY <1>3
  <2>6. OutputWork >= FollowUp * budget
    BY <1>3, <2>5 DEF OutputWork, PerPayload
  <2>7. OutputWork' <= OutputWork + (Received - 3) /\ OutputWork' \in Int
    BY <2>3, <2>4, <2>5, <2>6, PipelineAssumption
  <2> QED
    BY <1>2, <2>2, <2>7 DEF Work
<1>7. CASE RouterSave
  <2>1. router = "saving" /\ UNCHANGED <<followUps, budget>> /\ UNCHANGED at
        /\ \/ UNCHANGED payloads /\ router' = "deriving"
           \/ payloads' = payloads - 1 /\ router' = "submittingSave"
    BY <1>7 DEF RouterSave
  <2>2. PlaceWork' = PlaceWork
    BY <2>1, WorkStays
  <2>3. FollowUp * (budget + followUps) \in Int
    BY <1>3
  <2>4. OutputWork' + RouterWork' = OutputWork + RouterWork - 1
        /\ OutputWork' \in Int /\ RouterWork' \in Int
    BY <1>0, <1>3, <2>1, <2>3 DEF OutputWork, RouterWork, PerPayload
  <2> QED
    BY <1>2, <2>2, <2>4 DEF Work
<1>8. CASE RouterSaveAccepted
  <2>1. router = "submittingSave" /\ router' = "saving" /\ Enter("sIn")
        /\ UNCHANGED <<payloads, followUps, budget>>
    BY <1>8 DEF RouterSaveAccepted
  <2>2. PlaceWork' = PlaceWork + 2
    BY <2>1, PlaceMoves DEF Place
  <2>3. RouterWork' = RouterWork - 3 /\ OutputWork' = OutputWork
    BY <1>0, <2>1, WorkStays DEF RouterWork
  <2> QED
    BY <1>2, <2>2, <2>3 DEF Work
<1>9. CASE RouterDerive
  <2>1. router = "deriving" /\ UNCHANGED <<payloads, budget>> /\ UNCHANGED at
        /\ \/ UNCHANGED followUps /\ router' = "receive"
           \/ followUps' = followUps - 1 /\ router' = "enqueue"
    BY <1>9 DEF RouterDerive
  <2>2. PlaceWork' = PlaceWork
    BY <2>1, WorkStays
  <2>3. CASE UNCHANGED followUps /\ router' = "receive"
    <3>1. OutputWork' = OutputWork /\ RouterWork' = RouterWork - 1
      BY <1>0, <2>1, <2>3, WorkStays DEF RouterWork
    <3> QED
      BY <1>2, <2>2, <3>1 DEF Work
  <2>4. CASE followUps' = followUps - 1 /\ router' = "enqueue"
    <3>1. budget' + followUps' = (budget + followUps) - 1 /\ budget + followUps \in Int
      BY <1>3, <2>1, <2>4
    <3>2. FollowUp * (budget' + followUps') = FollowUp * (budget + followUps) - FollowUp
          /\ FollowUp * (budget + followUps) \in Int
      BY <3>1, OneStep
    <3>3. OutputWork' = OutputWork - FollowUp
      BY <1>3, <2>1, <3>2 DEF OutputWork, PerPayload
    <3>4. RouterWork' = RouterWork + (Requeued + 2)
      BY <1>0, <2>1, <2>4 DEF RouterWork
    <3> QED
      BY <1>2, <2>2, <3>3, <3>4 DEF Work
  <2> QED
    BY <2>1, <2>3, <2>4
<1>10. CASE EnqueueFetch
  <2>1. router = "enqueue" /\ UNCHANGED <<payloads, followUps, budget>>
        /\ \/ Enter("requeue") /\ router' = "deriving"
           \/ Enter("fIn") /\ router' = "deriving"
           \/ UNCHANGED at /\ router' = "spill"
    BY <1>10 DEF EnqueueFetch
  <2>2. OutputWork' = OutputWork
    BY <2>1, WorkStays
  <2>3. CASE Enter("requeue") /\ router' = "deriving"
    <3>1. PlaceWork' = PlaceWork + Requeued
      BY <2>3, PlaceMoves DEF Place
    <3>2. RouterWork' = RouterWork - (Requeued + 2)
      BY <1>0, <2>1, <2>3 DEF RouterWork
    <3> QED
      BY <1>2, <2>2, <3>1, <3>2 DEF Work
  <2>4. CASE Enter("fIn") /\ router' = "deriving"
    <3>1. PlaceWork' = PlaceWork + Fetched
      BY <2>4, PlaceMoves DEF Place
    <3>2. RouterWork' = RouterWork - (Requeued + 2)
      BY <1>0, <2>1, <2>4 DEF RouterWork
    <3> QED
      BY <1>2, <2>2, <3>1, <3>2 DEF Work
  <2>5. CASE UNCHANGED at /\ router' = "spill"
    <3>1. PlaceWork' = PlaceWork /\ RouterWork' = RouterWork - 1
      BY <1>0, <2>1, <2>5, WorkStays DEF RouterWork
    <3> QED
      BY <1>2, <2>2, <3>1 DEF Work
  <2> QED
    BY <2>1, <2>3, <2>4, <2>5
<1>11. CASE Spill
  <2>1. router = "spill" /\ router' = "deriving" /\ UNCHANGED <<payloads, followUps, budget>>
        /\ (Enter("overflow") \/ UNCHANGED at)
    BY <1>11 DEF Spill
  <2>2. RouterWork' = RouterWork - (Requeued + 1) /\ OutputWork' = OutputWork
    BY <1>0, <2>1, WorkStays DEF RouterWork
  <2>3. PlaceWork' = PlaceWork \/ PlaceWork' = PlaceWork + Requeued
    BY <2>1, WorkStays, PlaceMoves DEF Place
  <2> QED
    BY <1>2, <2>2, <2>3 DEF Work
<1> QED
  BY <1>4, <1>5, <1>6, <1>7, <1>8, <1>9, <1>10, <1>11 DEF RouterStep

\* Every batch is finitely many steps: a natural number bounds the steps still to come,
\* whatever the remote side answers within its budget, and every step but a poll uses up
\* at least one.  No retry of the channels, no trip through requeue or the overflow list
\* can go round for ever, and with CycleNeverWedges the pipeline comes to rest only when
\* its work is done, but for what the overflow list may keep.
THEOREM BatchRunsOut == Spec => [](Work \in Nat) /\ [][IdlePoll \/ Work' < Work]_vars
<1>1. IInv => Work \in Nat
  BY WorkIsNat DEF IInv
<1>2. IInv /\ [Next]_vars => [IdlePoll \/ Work' < Work]_vars
  <2> SUFFICES ASSUME IInv, Next PROVE IdlePoll \/ Work' < Work
    OBVIOUS
  <2>1. TypeOK
    BY DEF IInv
  <2> QED
    BY <2>1, SeedsUseWork, PoolsUseWork, BridgeUsesWork, RouterUsesWork, RequeueWorkersUseWork
    DEF Next
<1> QED
  BY <1>1, <1>2, Inductive, PTL DEF Spec
=============================================================================
