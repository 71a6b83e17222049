-------------------------- MODULE WorkerPoolProofs --------------------------
(***************************************************************************)
(* Proofs about WorkerPool for any number of jobs and workers and any      *)
(* queue size: what it counts and keeps, that it implements JobPool, that  *)
(* nothing gets stuck and that everything ends.                            *)
(***************************************************************************)
EXTENDS WorkerPool, FiniteSetTheorems, TLAPS

\* The workers inside processItem.
Busy == {w \in Workers : wk[w] \in With("running")}

\* A worker holds exactly the jobs that are running or being sent, one each.
Holding ==
  /\ \A w \in Workers : wk[w] \in Jobs => st[wk[w]] \in {"running", "sending"}
  /\ \A j \in Jobs : st[j] \in {"running", "sending"} => \E w \in Workers : wk[w] = j
  /\ \A v, w \in Workers : wk[v] \in Jobs /\ wk[v] = wk[w] => v = w

Counting ==
  /\ submitted = completed + failed + Cardinality(PendingJobs)
  /\ inProgress = Cardinality(Busy)

\* Where each shutdown sequence stands, in terms of what it has done so far.
Sequencing ==
  /\ (mode = "none") <=> (stopPc = "none")
  /\ stopped <=> mode # "none"
  /\ inClosed <=> \/ stopPc \in {"closed", "waited", "finished"}
                  \/ mode = "Stop" /\ stopPc = "cancelled"
  /\ poolDone => mode = "StopNow" \/ (mode = "Stop" /\ stopPc \in {"cancelled", "finished"})
  /\ outClosed => stopPc = "finished"

AllExited == \A w \in Workers : wk[w] = Exited

\* wg.Wait has returned.
Waited ==
  stopPc \in {"waited", "finished"} \/ (mode = "Stop" /\ stopPc = "cancelled") => AllExited

\* Without an outer cancellation and without StopNow a worker leaves only after
\* the queue was closed and emptied, and no result is dropped.
Draining ==
  ~parentDone /\ mode # "StopNow" =>
    /\ (\E w \in Workers : wk[w] = Exited) => inClosed /\ With("queued") = {}
    /\ With("lost") = {}

\* No call in flight when the flag was raised means none after, and no panic.
Quiesced ==
  /\ hurried => mode # "none"
  /\ ~hurried =>
       /\ stopped => With("checked") = {} /\ With("counted") = {}
       /\ ~panicked

IInv == TypeOK /\ Holding /\ Counting /\ Sequencing /\ Waited /\ Draining /\ Quiesced

-----------------------------------------------------------------------------
\* The jobs that are pending and the workers that are busy can be counted.
LEMMA FiniteParts ==
  ASSUME TypeOK
  PROVE  /\ IsFiniteSet(PendingJobs) /\ IsFiniteSet(Busy)
         /\ Cardinality(PendingJobs) \in Nat
         /\ Cardinality(Busy) \in 0..Cardinality(Workers)
<1>1. IsFiniteSet(PendingJobs) /\ Cardinality(PendingJobs) \in Nat
  BY PoolAssumption, FS_Subset, FS_CardinalityType DEF PendingJobs
<1>2. IsFiniteSet(Busy) /\ Cardinality(Busy) <= Cardinality(Workers)
  BY PoolAssumption, FS_Subset DEF Busy
<1>3. Cardinality(Busy) \in Nat /\ Cardinality(Workers) \in Nat
  BY <1>2, PoolAssumption, FS_CardinalityType
<1> QED BY <1>1, <1>2, <1>3

\* A new pool has no job, no busy worker and no shutdown.
LEMMA InitIInv == Init => IInv
<1> SUFFICES ASSUME Init PROVE IInv
  OBVIOUS
<1>1. PendingJobs = {} /\ Busy = {}
  BY PoolAssumption DEF Init, PendingJobs, Busy, With
<1>2. Cardinality({}) = 0
  BY FS_EmptySet
<1>3. Cardinality(Workers) \in Nat
  BY PoolAssumption, FS_CardinalityType
<1>4. TypeOK
  <2>1. inProgress \in 0..Cardinality(Workers)
    BY <1>3 DEF Init
  <2>2. st \in [Jobs -> JobStatus] /\ wk \in [Workers -> Jobs \cup {Idle, Exited}]
    BY DEF Init, JobStatus
  <2> QED BY <2>1, <2>2 DEF Init, TypeOK, StopStep
<1>5. Holding /\ Sequencing /\ Waited /\ Draining /\ Quiesced
  BY PoolAssumption DEF Init, Holding, Sequencing, Waited, AllExited, Draining, Quiesced, With
<1>6. Counting
  BY <1>1, <1>2 DEF Init, Counting
<1> QED BY <1>4, <1>5, <1>6 DEF IInv

-----------------------------------------------------------------------------
\* One lemma per action: the inductive invariant survives it.

\* The read of stopped refuses the call or lets it pass.
LEMMA CheckStoppedStep ==
  ASSUME IInv, NEW j \in Jobs, CheckStopped(j)
  PROVE  IInv'
<1> USE DEF CheckStopped, stats, chans, ctxs, stop
<1>1. PendingJobs' = PendingJobs /\ Busy' = Busy
  BY DEF IInv, TypeOK, PendingJobs, Busy, With
<1>2. TypeOK' /\ Holding'
  BY DEF IInv, TypeOK, JobStatus, Holding
<1>3. Counting' /\ Sequencing' /\ Waited'
  BY <1>1 DEF IInv, Counting, Sequencing, Waited, AllExited
<1>4. Draining' /\ Quiesced'
  BY DEF IInv, TypeOK, Draining, Quiesced, Sequencing, With
<1> QED BY <1>2, <1>3, <1>4 DEF IInv

\* Submitted.Add(1) makes the call pending.
LEMMA CountSubmitStep ==
  ASSUME IInv, NEW j \in Jobs, CountSubmit(j)
  PROVE  IInv'
<1> USE DEF CountSubmit, stats, chans, ctxs, stop
<1>1. PendingJobs' = PendingJobs \cup {j} /\ j \notin PendingJobs /\ Busy' = Busy
  BY DEF IInv, TypeOK, PendingJobs, Busy, With
<1>2. Cardinality(PendingJobs') = Cardinality(PendingJobs) + 1
  BY <1>1, FiniteParts, FS_AddElement DEF IInv
<1>3. TypeOK' /\ Holding'
  BY DEF IInv, TypeOK, JobStatus, Holding
<1>4. Counting'
  BY <1>1, <1>2, FiniteParts DEF IInv, TypeOK, Counting
<1>5. Sequencing' /\ Waited' /\ Draining' /\ Quiesced'
  BY DEF IInv, TypeOK, Sequencing, Waited, AllExited, Draining, Quiesced, With
<1> QED BY <1>3, <1>4, <1>5 DEF IInv

\* A job that enters the queue stays pending.
LEMMA EnqueueStep ==
  ASSUME IInv, NEW j \in Jobs, Enqueue(j)
  PROVE  IInv'
<1> USE DEF Enqueue, stats, chans, ctxs, stop
<1>1. PendingJobs' = PendingJobs /\ Busy' = Busy
  BY DEF IInv, TypeOK, PendingJobs, Busy, With
<1>2. TypeOK' /\ Holding'
  BY DEF IInv, TypeOK, JobStatus, Holding
<1>3. Counting' /\ Sequencing' /\ Waited'
  BY <1>1 DEF IInv, Counting, Sequencing, Waited, AllExited
<1>4. Draining' /\ Quiesced'
  BY DEF IInv, TypeOK, Draining, Quiesced, With
<1> QED BY <1>2, <1>3, <1>4 DEF IInv

\* Only a call in flight when the shutdown began finds the queue closed.
LEMMA SendOnClosedStep ==
  ASSUME IInv, NEW j \in Jobs, SendOnClosed(j)
  PROVE  IInv'
<1> USE DEF SendOnClosed, stats, chans, ctxs, stop
<1>1. PendingJobs' = PendingJobs /\ Busy' = Busy
  BY DEF PendingJobs, Busy, With
<1>2. TypeOK' /\ Holding' /\ Counting' /\ Sequencing' /\ Waited' /\ Draining'
  BY <1>1 DEF IInv, TypeOK, Holding, Counting, Sequencing, Waited, AllExited, Draining, With
<1>3. hurried
  BY DEF IInv, Sequencing, Quiesced, With
<1> QED BY <1>2, <1>3 DEF IInv, Quiesced

\* A call that gives up takes itself back out of Submitted.
LEMMA WithdrawStep ==
  ASSUME IInv, NEW j \in Jobs, Withdraw(j)
  PROVE  IInv'
<1> USE DEF Withdraw, stats, chans, ctxs, stop
<1>1. PendingJobs' = PendingJobs \ {j} /\ j \in PendingJobs /\ Busy' = Busy
  BY DEF IInv, TypeOK, PendingJobs, Busy, With
<1>2. Cardinality(PendingJobs') = Cardinality(PendingJobs) - 1
  BY <1>1, FiniteParts, FS_RemoveElement DEF IInv
<1>3. Cardinality(PendingJobs') \in Nat
  BY <1>1, FiniteParts, FS_RemoveElement, FS_CardinalityType DEF IInv
<1>4. TypeOK' /\ Counting'
  BY <1>1, <1>2, <1>3, FiniteParts DEF IInv, TypeOK, JobStatus, Counting
<1>5. Holding'
  BY DEF IInv, TypeOK, Holding
<1>6. Sequencing' /\ Waited' /\ Draining' /\ Quiesced'
  BY DEF IInv, TypeOK, Sequencing, Waited, AllExited, Draining, Quiesced, With
<1> QED BY <1>4, <1>5, <1>6 DEF IInv

\* A worker takes one queued job, and nobody else holds it.
LEMMA ReceiveStep ==
  ASSUME IInv, NEW w \in Workers, NEW j \in Jobs, Receive(w, j)
  PROVE  IInv'
<1> USE DEF Receive, stats, chans, ctxs, stop
<1>1. PendingJobs' = PendingJobs
  BY DEF IInv, TypeOK, PendingJobs, With
<1>2. Busy' = Busy \cup {w} /\ w \notin Busy
  BY PoolAssumption DEF IInv, TypeOK, Holding, Busy, With
<1>3. Cardinality(Busy') = Cardinality(Busy) + 1
  BY <1>2, FiniteParts, FS_AddElement DEF IInv
<1>4. Cardinality(Busy') <= Cardinality(Workers) /\ Cardinality(Workers) \in Nat
  BY PoolAssumption, FS_Subset, FS_CardinalityType DEF Busy
<1>5. TypeOK' /\ Counting'
  BY <1>1, <1>3, <1>4, FiniteParts DEF IInv, TypeOK, JobStatus, Counting
<1>6. Holding'
  BY PoolAssumption DEF IInv, TypeOK, Holding
<1>7. Sequencing' /\ Waited' /\ Quiesced'
  BY PoolAssumption DEF IInv, TypeOK, Sequencing, Waited, AllExited, Quiesced, With
<1>8. Draining'
  BY PoolAssumption DEF IInv, TypeOK, Draining, With
<1> QED BY <1>5, <1>6, <1>7, <1>8 DEF IInv

\* A job that has been run is no longer pending.
LEMMA ProcessItemStep ==
  ASSUME IInv, NEW w \in Workers, NEW ok \in BOOLEAN, ProcessItem(w, ok)
  PROVE  IInv'
<1> DEFINE j == wk[w]
<1> USE DEF ProcessItem, stats, chans, ctxs, stop
<1>1. j \in Jobs /\ st[j] = "running" /\ \A v \in Workers : wk[v] = j => v = w
  BY DEF IInv, Holding, With
<1>2. PendingJobs' = PendingJobs \ {j} /\ j \in PendingJobs
  BY <1>1 DEF IInv, TypeOK, PendingJobs
<1>3. Cardinality(PendingJobs') = Cardinality(PendingJobs) - 1
  BY <1>2, FiniteParts, FS_RemoveElement DEF IInv
<1>4. Busy' = Busy \ {w} /\ w \in Busy
  BY <1>1, PoolAssumption DEF IInv, TypeOK, Busy, With
<1>5. Cardinality(Busy') = Cardinality(Busy) - 1 /\ Cardinality(Busy') \in Nat
  BY <1>4, FiniteParts, FS_RemoveElement, FS_CardinalityType DEF IInv
<1>6. Cardinality(Workers) \in Nat
  BY PoolAssumption, FS_CardinalityType
<1>7. TypeOK'
  <2>1. st' \in [Jobs -> JobStatus] /\ wk' \in [Workers -> Jobs \cup {Idle, Exited}]
    BY <1>1 DEF IInv, TypeOK, JobStatus
  <2>2. inProgress' \in 0..Cardinality(Workers) /\ completed' \in Nat /\ failed' \in Nat
    BY <1>5, <1>6, FiniteParts DEF IInv, TypeOK, Counting
  <2> QED BY <2>1, <2>2 DEF IInv, TypeOK
<1>8. Counting'
  BY <1>3, <1>5, FiniteParts DEF IInv, TypeOK, Counting
<1>9. Holding'
  BY <1>1, PoolAssumption DEF IInv, TypeOK, Holding
<1>10. Sequencing' /\ Waited' /\ Draining' /\ Quiesced'
  BY <1>1, PoolAssumption DEF IInv, TypeOK, Sequencing, Waited, AllExited, Draining, Quiesced, With
<1> QED BY <1>7, <1>8, <1>9, <1>10 DEF IInv

\* A result leaves its worker: handed over, or lost once the pool is cut short.
LEMMA SendResultStep ==
  ASSUME IInv, NEW w \in Workers, SendResult(w)
  PROVE  IInv'
<1> DEFINE j == wk[w]
<1> USE DEF stats, chans, ctxs, stop
<1>1. j \in Jobs /\ st[j] = "sending" /\ \A v \in Workers : wk[v] = j => v = w
  BY DEF IInv, Holding, With, SendResult
<1>2. ~outClosed
  BY <1>1, PoolAssumption DEF IInv, Sequencing, Waited, AllExited
<1>3. \/ st' = [st EXCEPT ![j] = "out"]
      \/ ctxDone /\ st' = [st EXCEPT ![j] = "lost"]
  BY <1>2 DEF SendResult
<1>4. wk' = [wk EXCEPT ![w] = Idle] /\ UNCHANGED <<stats, chans, ctxs, stop, panicked>>
  BY <1>2 DEF SendResult
<1>5. PendingJobs' = PendingJobs /\ Busy' = Busy
  BY <1>1, <1>3, <1>4, PoolAssumption DEF IInv, TypeOK, PendingJobs, Busy, With
<1>6. TypeOK'
  BY <1>1, <1>3, <1>4 DEF IInv, TypeOK, JobStatus
<1>7. Counting'
  BY <1>4, <1>5 DEF IInv, Counting
<1>8. Holding'
  BY <1>1, <1>3, <1>4, PoolAssumption DEF IInv, TypeOK, Holding
<1>9. Sequencing' /\ Waited'
  BY <1>1, <1>4, PoolAssumption DEF IInv, TypeOK, Sequencing, Waited, AllExited
<1>10. Draining'
  <2>1. ctxDone => parentDone \/ mode = "StopNow"
    BY <1>1, PoolAssumption DEF IInv, Sequencing, Waited, AllExited, ctxDone
  <2> QED BY <1>1, <1>3, <1>4, <2>1, PoolAssumption DEF IInv, TypeOK, Draining, With
<1>11. Quiesced'
  BY <1>1, <1>3, <1>4 DEF IInv, TypeOK, Quiesced, With
<1> QED BY <1>6, <1>7, <1>8, <1>9, <1>10, <1>11 DEF IInv

\* A worker leaves only when nothing is queued or the pool is cut short.
LEMMA WorkerExitStep ==
  ASSUME IInv, NEW w \in Workers, WorkerExit(w)
  PROVE  IInv'
<1> USE DEF WorkerExit, stats, chans, ctxs, stop
<1>1. PendingJobs' = PendingJobs /\ Busy' = Busy
  BY PoolAssumption DEF IInv, TypeOK, PendingJobs, Busy, With
<1>2. TypeOK' /\ Holding'
  BY PoolAssumption DEF IInv, TypeOK, Holding
<1>3. Counting' /\ Sequencing' /\ Waited' /\ Quiesced'
  BY <1>1 DEF IInv, TypeOK, Counting, Sequencing, Waited, AllExited, Quiesced, With
<1>4. Draining'
  <2>1. ctxDone /\ ~parentDone /\ mode # "StopNow" => \E v \in Workers : wk[v] = Exited
    BY PoolAssumption DEF IInv, Sequencing, Waited, AllExited, ctxDone
  <2> QED BY <2>1 DEF IInv, Draining, With
<1> QED BY <1>2, <1>3, <1>4 DEF IInv

\* The steps of a shutdown keep the types and move no job.
LEMMA StopStepsKeepTypes ==
  ASSUME TypeOK, (\E m \in {"Stop", "StopNow"} : StopBegin(m)) \/ Stopping
  PROVE  TypeOK'
<1> USE DEF stats, chans, ctxs, stop
<1>1. UNCHANGED <<st, wk, stats, parentDone, callerDone, panicked>>
  BY DEF StopBegin, Stopping, CancelStep, CloseInput, WaitWorkers, CloseOutput
<1>2. /\ stopped' \in BOOLEAN /\ inClosed' \in BOOLEAN /\ outClosed' \in BOOLEAN
      /\ poolDone' \in BOOLEAN /\ mode' \in {"none", "Stop", "StopNow"}
      /\ stopPc' \in StopStep /\ hurried' \in BOOLEAN
  <2>1. ASSUME NEW m \in {"Stop", "StopNow"}, StopBegin(m) PROVE <1>2!:
    BY <2>1 DEF TypeOK, StopStep, StopBegin
  <2>2. CASE CancelStep
    BY <2>2 DEF TypeOK, StopStep, CancelStep
  <2>3. CASE CloseInput
    BY <2>3 DEF TypeOK, StopStep, CloseInput
  <2>4. CASE WaitWorkers
    BY <2>4 DEF TypeOK, StopStep, WaitWorkers
  <2>5. CASE CloseOutput
    BY <2>5, PoolAssumption DEF TypeOK, StopStep, CloseOutput
  <2> QED
    BY <2>1, <2>2, <2>3, <2>4, <2>5 DEF Stopping
<1> QED
  BY <1>1, <1>2 DEF TypeOK

\* The steps of a shutdown keep the order of its flag, its closes and its wait.
LEMMA StopStepsKeep ==
  ASSUME IInv, (\E m \in {"Stop", "StopNow"} : StopBegin(m)) \/ Stopping
  PROVE  IInv'
<1> USE DEF stats, chans, ctxs, stop
<1>1. UNCHANGED <<st, wk, stats, parentDone, callerDone, panicked>>
  BY DEF StopBegin, Stopping, CancelStep, CloseInput, WaitWorkers, CloseOutput
<1>2. PendingJobs' = PendingJobs /\ Busy' = Busy
  BY <1>1 DEF PendingJobs, Busy, With
<1>3. TypeOK'
  BY StopStepsKeepTypes DEF IInv
<1>4. Holding' /\ Counting'
  BY <1>1, <1>2 DEF IInv, Holding, Counting
<1>5. Sequencing' /\ Waited'
  <2>1. ASSUME NEW m \in {"Stop", "StopNow"}, StopBegin(m) PROVE Sequencing' /\ Waited'
    BY <1>1, <2>1 DEF IInv, TypeOK, Sequencing, Waited, AllExited, StopBegin
  <2>2. CASE CancelStep
    BY <1>1, <2>2 DEF IInv, TypeOK, Sequencing, Waited, AllExited, CancelStep
  <2>3. CASE CloseInput
    BY <1>1, <2>3 DEF IInv, TypeOK, Sequencing, Waited, AllExited, CloseInput
  <2>4. CASE WaitWorkers
    BY <1>1, <2>4 DEF IInv, TypeOK, Sequencing, Waited, AllExited, WaitWorkers
  <2>5. CASE CloseOutput
    BY <1>1, <2>5 DEF IInv, TypeOK, Sequencing, Waited, AllExited, CloseOutput
  <2> QED
    BY <2>1, <2>2, <2>3, <2>4, <2>5 DEF Stopping
<1>6. Draining'
  <2>1. ASSUME NEW m \in {"Stop", "StopNow"}, StopBegin(m) PROVE Draining'
    BY <1>1, <2>1 DEF IInv, Draining, With, StopBegin
  <2>2. CASE Stopping
    BY <1>1, <2>2 DEF IInv, Draining, With, Stopping, CancelStep, CloseInput, WaitWorkers,
       CloseOutput
  <2> QED
    BY <2>1, <2>2
<1>7. Quiesced'
  <2>1. CASE Stopping
    BY <1>1, <2>1
    DEF IInv, Quiesced, With, Stopping, CancelStep, CloseInput, WaitWorkers, CloseOutput
  <2>2. ASSUME NEW m \in {"Stop", "StopNow"}, StopBegin(m) PROVE Quiesced'
    <3>1. ~hurried /\ ~panicked /\ mode' # "none"
      BY <2>2 DEF IInv, Quiesced, StopBegin
    <3>2. ~hurried' => With("checked") = {} /\ With("counted") = {}
      BY <2>2 DEF StopBegin
    <3> QED BY <1>1, <3>1, <3>2 DEF Quiesced, With
  <2> QED BY <2>1, <2>2
<1> QED BY <1>3, <1>4, <1>5, <1>6, <1>7 DEF IInv

\* The reader and the contexts touch no counter.
LEMMA OtherStepsKeep ==
  ASSUME IInv, Consumer \/ CancelParent \/ CancelCaller \/ UNCHANGED vars
  PROVE  IInv'
<1> USE DEF stats, chans, ctxs, stop, Consumer, Drain, CancelParent, CancelCaller, vars
<1>1. PendingJobs' = PendingJobs /\ Busy' = Busy
  BY DEF IInv, TypeOK, Holding, PendingJobs, Busy, With
<1>2. TypeOK'
  <2>1. CASE Consumer
    BY <2>1 DEF IInv, TypeOK, JobStatus
  <2>2. CASE CancelParent
    BY <2>2 DEF IInv, TypeOK, JobStatus
  <2>3. CASE CancelCaller
    BY <2>3 DEF IInv, TypeOK, JobStatus
  <2>4. CASE UNCHANGED vars
    BY <2>4 DEF IInv, TypeOK, JobStatus
  <2> QED BY <2>1, <2>2, <2>3, <2>4
<1>3. Holding'
  BY DEF IInv, TypeOK, Holding
<1>4. Counting' /\ Sequencing' /\ Waited'
  BY <1>1 DEF IInv, Counting, Sequencing, Waited, AllExited
<1>5. Draining' /\ Quiesced'
  BY DEF IInv, TypeOK, Draining, Quiesced, With
<1> QED BY <1>2, <1>3, <1>4, <1>5 DEF IInv

-----------------------------------------------------------------------------
\* The strengthened invariant holds in every reachable state.
THEOREM Inductive == Spec => []IInv
<1>1. IInv /\ [Next]_vars => IInv'
  <2> SUFFICES ASSUME IInv, [Next]_vars PROVE IInv'
    OBVIOUS
  <2>1. CASE \E j \in Jobs : Caller(j)
    BY <2>1, CheckStoppedStep, CountSubmitStep, EnqueueStep, SendOnClosedStep, WithdrawStep
    DEF Caller
  <2>2. CASE \E w \in Workers : Worker(w)
    BY <2>2, ReceiveStep, ProcessItemStep, SendResultStep, WorkerExitStep DEF Worker
  <2>3. CASE Stopping
    BY <2>3, StopStepsKeep
  <2>4. CASE Consumer
    BY <2>4, OtherStepsKeep
  <2>5. CASE Environment
    BY <2>5, StopStepsKeep, OtherStepsKeep DEF Environment
  <2>6. CASE UNCHANGED vars
    BY <2>6, OtherStepsKeep
  <2> QED BY <2>1, <2>2, <2>3, <2>4, <2>5, <2>6 DEF Next
<1> QED BY InitIInv, <1>1, PTL DEF Spec

\* Every variable keeps its type; in particular Submitted never goes below zero
\* and InProgress never exceeds the number of workers.
THEOREM TypeCorrect == Spec => []TypeOK
<1>1. IInv => TypeOK
  BY DEF IInv
<1> QED BY <1>1, Inductive, PTL

\* Pending() is exact for any number of callers and workers, whatever mixture of
\* refusals, errors and shutdowns happens.
THEOREM PendingIsExact == Spec => []PendingExact
<1>1. IInv => PendingExact
  BY FiniteParts DEF IInv, TypeOK, Counting, PendingExact, Pending
<1> QED BY <1>1, Inductive, PTL

\* A graceful Stop that returned has run and handed over every accepted item.
THEOREM StopDrains == Spec => []GracefulStopKeepsAccepted
<1>1. IInv => GracefulStopKeepsAccepted
  <2> SUFFICES ASSUME IInv, mode = "Stop", stopPc = "finished", ~parentDone, NEW j \in Jobs
               PROVE  st[j] \notin {"queued", "running", "sending", "lost"}
    BY DEF GracefulStopKeepsAccepted
  <2>1. AllExited
    BY DEF IInv, Waited
  <2>2. st[j] \notin {"running", "sending"}
    BY <2>1, PoolAssumption DEF IInv, Holding, AllExited
  <2>3. With("queued") = {} /\ With("lost") = {}
    BY <2>1, PoolAssumption DEF IInv, Draining, AllExited
  <2> QED BY <2>2, <2>3 DEF With
<1> QED BY <1>1, Inductive, PTL

\* If Stop or StopNow began while no Submit* call was in flight, then no send on a
\* closed channel ever happens, not even from a call that starts later.
THEOREM QuiescedNeverPanics == Spec => []OnlyHurriedStopPanics
<1>1. IInv => OnlyHurriedStopPanics
  BY DEF IInv, Quiesced, OnlyHurriedStopPanics
<1> QED BY <1>1, Inductive, PTL

-----------------------------------------------------------------------------
\* The refinement: each step is a step of JobPool or leaves what it shows as it was.

\* A job that moves is seen to move alone.
LEMMA JobMoves ==
  ASSUME TypeOK, NEW j \in Jobs, NEW s \in JobStatus, st' = [st EXCEPT ![j] = s]
  PROVE  [k \in Jobs |-> View(st[k])]' = [[k \in Jobs |-> View(st[k])] EXCEPT ![j] = View(s)]
BY DEF TypeOK

\* A job that moves, with the gate, the cut and the process as they were, is seen to move
\* from one of JobPool's places to another, or not to move.
LEMMA JobShows ==
  ASSUME TypeOK, ~panicked, NEW j \in Jobs, NEW s \in JobStatus, st' = [st EXCEPT ![j] = s],
         UNCHANGED <<Gate, parentDone \/ mode = "StopNow", panicked>>,
         \/ View(s) = View(st[j])
         \/ View(st[j]) = "new" /\ View(s) = "refused"
         \/ View(st[j]) = "new" /\ View(s) = "taken" /\ Gate = "open"
         \/ View(st[j]) = "taken" /\ View(s) = "done"
         \/ View(st[j]) = "done" /\ View(s) = "delivered"
         \/ View(st[j]) = "taken" /\ View(s) = "lost" /\ (parentDone \/ mode = "StopNow")
  PROVE  [Abs!PoolNext]_(Abs!poolVars)
<1> DEFINE job == [k \in Jobs |-> View(st[k])]
<1>1. job' = [job EXCEPT ![j] = View(s)] /\ job[j] = View(st[j])
  BY JobMoves
<1>2. CASE View(s) = View(st[j])
  <2>1. job' = job
    BY <1>1, <1>2
  <2> QED BY <2>1 DEF Abs!poolVars
<1>3. CASE View(st[j]) = "new" /\ View(s) = "refused"
  <2>1. Abs!Refuse(j)
    BY <1>1, <1>3 DEF Abs!Refuse, Abs!Set
  <2> QED BY <2>1 DEF Abs!PoolNext
<1>4. CASE View(st[j]) = "new" /\ View(s) = "taken" /\ Gate = "open"
  <2>1. Abs!Take(j)
    BY <1>1, <1>4 DEF Abs!Take, Abs!Set
  <2> QED BY <2>1 DEF Abs!PoolNext
<1>5. CASE View(st[j]) = "taken" /\ View(s) = "done"
  <2>1. Abs!HandOver(j)
    BY <1>1, <1>5 DEF Abs!HandOver, Abs!Set
  <2> QED BY <2>1 DEF Abs!PoolNext
<1>6. CASE View(st[j]) = "done" /\ View(s) = "delivered"
  <2>1. Abs!Deliver(j)
    BY <1>1, <1>6 DEF Abs!Deliver, Abs!Set
  <2> QED BY <2>1 DEF Abs!PoolNext
<1>7. CASE View(st[j]) = "taken" /\ View(s) = "lost" /\ (parentDone \/ mode = "StopNow")
  <2>1. Abs!Lose(j)
    BY <1>1, <1>7 DEF Abs!Lose, Abs!Set
  <2> QED BY <2>1 DEF Abs!PoolNext
<1> QED
  BY <1>2, <1>3, <1>4, <1>5, <1>6, <1>7

\* A step that moves no job and no gate shows nothing.
LEMMA StillShows ==
  ASSUME st' = st, UNCHANGED <<Gate, parentDone \/ mode = "StopNow", panicked>>
  PROVE  UNCHANGED Abs!poolVars
BY DEF Abs!poolVars

\* The steps of a caller: still new, refused, or taken while the gate is open.
LEMMA CallerShows ==
  ASSUME IInv, ~panicked, NEW j \in Jobs,
         CheckStopped(j) \/ CountSubmit(j) \/ Enqueue(j) \/ SendOnClosed(j) \/ Withdraw(j)
  PROVE  [Abs!PoolNext]_(Abs!poolVars)
<1> USE DEF stats, chans, ctxs, stop
<1>1. TypeOK /\ UNCHANGED <<Gate, parentDone \/ mode = "StopNow">>
  BY DEF CheckStopped, CountSubmit, Enqueue, SendOnClosed, Withdraw, Gate, IInv
<1>2. CASE CheckStopped(j)
  BY <1>1, <1>2, JobShows DEF CheckStopped, View, JobStatus
<1>3. CASE CountSubmit(j)
  BY <1>1, <1>3, JobShows DEF CountSubmit, View, JobStatus
<1>4. CASE Enqueue(j)
  <2>1. Gate = "open"
    BY <1>4 DEF Enqueue, Gate, IInv, Sequencing
  <2> QED BY <1>1, <1>4, <2>1, JobShows DEF Enqueue, View, JobStatus
<1>5. CASE SendOnClosed(j)
  <2>1. Abs!Crash
    BY <1>1, <1>5 DEF SendOnClosed, Gate, Abs!Crash
  <2> QED BY <2>1 DEF Abs!PoolNext
<1>6. CASE Withdraw(j)
  BY <1>1, <1>6, JobShows DEF Withdraw, View, JobStatus
<1> QED
  BY <1>2, <1>3, <1>4, <1>5, <1>6

\* The steps of a worker: a job taken is done, handed over, or lost in a pool cut short.
LEMMA WorkerShows ==
  ASSUME IInv, ~panicked, NEW w \in Workers,
         \/ \E j \in Jobs : Receive(w, j)
         \/ \E ok \in BOOLEAN : ProcessItem(w, ok)
         \/ SendResult(w) \/ WorkerExit(w)
  PROVE  [Abs!PoolNext]_(Abs!poolVars)
<1> USE DEF stats, chans, ctxs, stop
<1>1. TypeOK /\ UNCHANGED <<Gate, parentDone \/ mode = "StopNow">>
  BY DEF Receive, ProcessItem, SendResult, WorkerExit, Gate, IInv
<1>2. ASSUME NEW j \in Jobs, Receive(w, j) PROVE [Abs!PoolNext]_(Abs!poolVars)
  BY <1>1, <1>2, JobShows DEF Receive, View, JobStatus
<1>3. ASSUME NEW ok \in BOOLEAN, ProcessItem(w, ok) PROVE [Abs!PoolNext]_(Abs!poolVars)
  <2> DEFINE j == wk[w]
  <2>1. j \in Jobs /\ st[j] = "running"
    BY <1>3 DEF ProcessItem, With
  <2>2. PICK s \in {"taken", "sending"} :
          st' = [st EXCEPT ![j] = s] /\ (s = "taken" => DiscardOutput)
    BY <1>3 DEF ProcessItem
  <2>3. panicked' = panicked
    BY <1>3 DEF ProcessItem
  <2> QED BY <1>1, <2>1, <2>2, <2>3, JobShows DEF View, JobStatus
<1>4. CASE SendResult(w)
  <2> DEFINE j == wk[w]
  <2>1. j \in Jobs /\ st[j] = "sending"
    BY <1>4 DEF SendResult, With
  <2>2. ~outClosed /\ (poolDone => mode = "StopNow")
    BY <2>1, PoolAssumption DEF IInv, Sequencing, Waited, AllExited
  <2>3. PICK s \in {"out", "lost"} :
          st' = [st EXCEPT ![j] = s] /\ (s = "lost" => ctxDone) /\ panicked' = panicked
    BY <1>4, <2>2 DEF SendResult
  <2> QED BY <1>1, <2>1, <2>2, <2>3, JobShows DEF View, JobStatus, ctxDone
<1>5. CASE WorkerExit(w)
  BY <1>1, <1>5, StillShows DEF WorkerExit
<1> QED
  BY <1>2, <1>3, <1>4, <1>5

\* The steps of a shutdown: the gate closes, and Stop returns when the jobs are through.
LEMMA StoppingShows ==
  ASSUME IInv, ~panicked, (\E m \in {"Stop", "StopNow"} : StopBegin(m)) \/ Stopping
  PROVE  [Abs!PoolNext]_(Abs!poolVars)
<1> USE DEF stats, chans, ctxs, stop
<1> DEFINE job == [k \in Jobs |-> View(st[k])]
<1>1. UNCHANGED <<st, parentDone, panicked>>
  BY DEF StopBegin, Stopping, CancelStep, CloseInput, WaitWorkers, CloseOutput
<1>2. ASSUME NEW m \in {"Stop", "StopNow"}, StopBegin(m) PROVE [Abs!PoolNext]_(Abs!poolVars)
  <2>1. Gate' = Gate
    BY <1>2 DEF StopBegin, Gate, IInv, Sequencing
  <2>2. CASE m = "Stop"
    BY <1>1, <1>2, <2>1, <2>2, StillShows DEF StopBegin
  <2>3. CASE m = "StopNow"
    <3>1. Abs!Cut
      BY <1>1, <1>2, <2>1, <2>3 DEF StopBegin, Abs!Cut
    <3> QED BY <3>1 DEF Abs!PoolNext
  <2> QED BY <2>2, <2>3
<1>3. CASE Stopping
  <2>1. mode' = mode
    BY <1>3 DEF Stopping, CancelStep, CloseInput, WaitWorkers, CloseOutput
  <2>2. CASE CancelStep
    BY <1>1, <2>1, <2>2, StillShows DEF CancelStep, Gate
  <2>3. CASE CloseInput
    <3>1. Gate = "open" /\ Gate' = "closed"
      BY <2>3 DEF CloseInput, Gate, IInv, Sequencing
    <3>2. Abs!Close
      BY <1>1, <2>1, <3>1 DEF Abs!Close
    <3> QED BY <3>2 DEF Abs!PoolNext
  <2>4. CASE WaitWorkers
    BY <1>1, <2>1, <2>4, StillShows DEF WaitWorkers, Gate
  <2>5. CASE CloseOutput
    <3>1. Gate = "closed" /\ Gate' = "returned"
      BY <2>5 DEF CloseOutput, Gate, IInv, Sequencing
    <3>2. ASSUME ~(parentDone \/ mode = "StopNow"), NEW j \in Jobs PROVE View(st[j]) # "taken"
      <4>1. AllExited
        BY <2>5, <3>2 DEF CloseOutput, IInv, Waited
      <4>2. st[j] \notin {"running", "sending"}
        BY <4>1, PoolAssumption DEF IInv, Holding, AllExited
      <4>3. st[j] # "queued"
        BY <3>2, <4>1, PoolAssumption DEF IInv, Draining, AllExited, With
      <4> QED BY <4>2, <4>3 DEF View, IInv, TypeOK, JobStatus
    <3>3. Abs!Return
      BY <1>1, <2>1, <3>1, <3>2 DEF Abs!Return
    <3> QED BY <3>3 DEF Abs!PoolNext
  <2> QED BY <1>3, <2>2, <2>3, <2>4, <2>5 DEF Stopping
<1> QED BY <1>2, <1>3

\* The reader delivers; the end of a context may cut the pool short.
LEMMA OtherStepsShow ==
  ASSUME IInv, ~panicked, Consumer \/ CancelParent \/ CancelCaller
  PROVE  [Abs!PoolNext]_(Abs!poolVars)
<1> USE DEF stats, chans, ctxs, stop
<1>1. TypeOK /\ Gate' = Gate
  BY DEF Consumer, Drain, CancelParent, CancelCaller, Gate, IInv
<1>2. CASE Consumer
  <2>1. PICK j \in Jobs : Drain(j)
    BY <1>2 DEF Consumer
  <2> QED BY <1>1, <2>1, JobShows DEF Drain, View, JobStatus
<1>3. CASE CancelParent
  <2>1. Abs!Cut
    BY <1>1, <1>3 DEF CancelParent, Abs!Cut
  <2> QED BY <2>1 DEF Abs!PoolNext
<1>4. CASE CancelCaller
  BY <1>1, <1>4, StillShows DEF CancelCaller
<1> QED BY <1>2, <1>3, <1>4

\* The pool implements JobPool for any number of jobs and workers and any queue size: no
\* job is taken twice or after the gate closed, none is lost unless the pool was cut
\* short, and Stop returns only when every job taken has been run.
THEOREM ImplementsJobPool == Spec => Abs!PoolSafety
<1>1. Init => Abs!PoolInit
  BY DEF Init, Abs!PoolInit, View, Gate
<1>2. IInv /\ [Next]_vars => [Abs!PoolNext]_(Abs!poolVars)
  <2> SUFFICES ASSUME IInv, [Next]_vars PROVE [Abs!PoolNext]_(Abs!poolVars)
    OBVIOUS
  <2>1. CASE \E j \in Jobs : Caller(j)
    BY <2>1, CallerShows DEF Caller
  <2>2. CASE \E w \in Workers : Worker(w)
    BY <2>2, WorkerShows DEF Worker
  <2>3. CASE Stopping
    BY <2>3, StoppingShows DEF Stopping
  <2>4. CASE Consumer
    BY <2>4, OtherStepsShow DEF Consumer
  <2>5. CASE Environment
    BY <2>5, StoppingShows, OtherStepsShow DEF Environment
  <2>6. CASE UNCHANGED vars
    BY <2>6, StillShows DEF vars, stats, chans, ctxs, stop, Gate
  <2> QED BY <2>1, <2>2, <2>3, <2>4, <2>5, <2>6 DEF Next
<1> QED BY <1>1, <1>2, Inductive, PTL DEF Spec, Abs!PoolSafety

-----------------------------------------------------------------------------
(* Nothing gets stuck, and everything ends.                                *)

\* What the goroutines wait for: a call for the queue, an ended context or nothing, a worker
\* for a job, room or the end, Stop for the workers, the reader for a result.
CallerCanMove(j) ==
  \/ st[j] \in {"idle", "checked"}
  \/ st[j] = "counted" /\ (inClosed \/ InRoom \/ callerDone \/ ctxDone \/ j \in NonBlocking)
WorkerCanMove(w) ==
  \/ wk[w] = Idle /\ (With("queued") # {} \/ ctxDone \/ inClosed)
  \/ wk[w] \in With("running")
  \/ wk[w] \in With("sending") /\ (outClosed \/ OutRoom \/ ctxDone)
StopCanMove == stopPc \in {"flagged", "cancelled", "waited"} \/ (stopPc = "closed" /\ AllExited)
ReaderCanMove == ~parentDone /\ With("out") # {}

CanMove ==
  \/ \E j \in Jobs : CallerCanMove(j)
  \/ \E w \in Workers : WorkerCanMove(w)
  \/ StopCanMove \/ ReaderCanMove

\* Every call has its answer, no worker holds a job, no shutdown is under way, and jobs are
\* left in a channel only where nobody is meant to read it any more.
AtRest ==
  /\ \A j \in Jobs : st[j] \notin {"idle", "checked", "counted", "running", "sending"}
  /\ mode = "none" \/ stopPc = "finished"
  /\ ~parentDone => With("out") = {}
  /\ ~parentDone /\ mode # "StopNow" => With("queued") = {}

\* Nothing gets stuck, with any number of callers, any queue sizes and any order of Stop,
\* StopNow and cancellations: while a call is not answered, a worker holds a job or a
\* shutdown has not returned, some goroutine can move; when none can, what was accepted has
\* gone through, unless the pool was cut short.
THEOREM NeverStuck == Spec => [](panicked \/ CanMove \/ AtRest)
<1>1. IInv => panicked \/ CanMove \/ AtRest
  <2> SUFFICES ASSUME IInv, ~CanMove PROVE AtRest
    OBVIOUS
  <2>0. /\ \A j \in Jobs : st[j] \in JobStatus
        /\ \A w \in Workers : wk[w] \in Jobs \cup {Idle, Exited}
    BY DEF IInv, TypeOK
  <2>1. ASSUME NEW w \in Workers, wk[w] = Idle
        PROVE  With("queued") = {} /\ ~ctxDone /\ ~inClosed
    BY <2>1 DEF CanMove, WorkerCanMove
  <2>2. ASSUME NEW j \in Jobs PROVE st[j] # "running"
    BY DEF IInv, Holding, CanMove, WorkerCanMove, With
  <2>3. ASSUME NEW j \in Jobs PROVE st[j] # "sending"
    <3> SUFFICES ASSUME st[j] = "sending" PROVE FALSE
      OBVIOUS
    <3>1. ~OutRoom /\ ~ctxDone
      BY DEF IInv, Holding, CanMove, WorkerCanMove, With
    <3>2. With("out") = {}
      BY <3>1 DEF CanMove, ReaderCanMove, ctxDone
    <3>3. Cardinality(With("out")) = 0
      BY <3>2, FS_EmptySet
    <3>4. Cardinality(Workers) \in Nat /\ Cardinality(Workers) # 0
      BY PoolAssumption, FS_CardinalityType, FS_EmptySet
    <3>5. QueueSize * OutFactor \in Nat
      BY PoolAssumption
    <3> QED
      BY <3>1, <3>3, <3>4, <3>5 DEF OutRoom, OutSize
  <2>4. ASSUME NEW w \in Workers PROVE wk[w] \in {Idle, Exited}
    BY <2>0, <2>2, <2>3 DEF IInv, Holding
  <2>5. stopPc \in {"none", "closed", "finished"}
    BY DEF IInv, TypeOK, StopStep, CanMove, StopCanMove
  <2>6. stopPc # "closed"
    <3> SUFFICES ASSUME stopPc = "closed" PROVE FALSE
      OBVIOUS
    <3>1. inClosed
      BY DEF IInv, Sequencing
    <3>2. AllExited
      BY <2>1, <2>4, <3>1 DEF AllExited
    <3> QED
      BY <3>2 DEF CanMove, StopCanMove
  <2>7. mode = "none" \/ stopPc = "finished"
    BY <2>5, <2>6 DEF IInv, Sequencing
  <2>8. ASSUME ~parentDone, mode # "StopNow" PROVE With("queued") = {}
    BY <2>1, <2>4, <2>8, PoolAssumption DEF IInv, Draining
  <2>9. ASSUME NEW j \in Jobs PROVE st[j] # "counted"
    <3> SUFFICES ASSUME st[j] = "counted" PROVE FALSE
      OBVIOUS
    <3>1. ~inClosed /\ ~InRoom /\ ~ctxDone
      BY DEF CanMove, CallerCanMove
    <3>2. stopPc # "finished"
      BY <3>1 DEF IInv, Sequencing
    <3>3. With("queued") = {}
      BY <2>7, <2>8, <3>1, <3>2 DEF ctxDone
    <3> QED
      BY <3>1, <3>3, FS_EmptySet, PoolAssumption DEF InRoom
  <2>10. ASSUME NEW j \in Jobs PROVE st[j] \notin {"idle", "checked"}
    BY DEF CanMove, CallerCanMove
  <2>11. ~parentDone => With("out") = {}
    BY DEF CanMove, ReaderCanMove
  <2> QED
    BY <2>2, <2>3, <2>7, <2>8, <2>9, <2>10, <2>11 DEF AtRest
<1> QED
  BY <1>1, Inductive, PTL

\* How much is left to do: the steps each job may still take, a step for each worker that
\* has not left, what is left of a shutdown, and each thing that can happen once.
One(b)   == IF b THEN 1 ELSE 0
Many(s)  == Cardinality(With(s))
JobWork  ==
  7 * Many("idle") + 6 * Many("checked") + 5 * Many("counted") + 4 * Many("queued")
    + 3 * Many("running") + 2 * Many("sending") + Many("out")
Present  == {w \in Workers : wk[w] # Exited}
StopWork ==
  CASE stopPc = "none"      -> 5
    [] stopPc = "flagged"   -> 4
    [] stopPc = "closed"    -> IF mode = "Stop" THEN 3 ELSE 2
    [] stopPc = "waited"    -> IF mode = "Stop" THEN 2 ELSE 1
    [] stopPc = "cancelled" -> IF mode = "Stop" THEN 1 ELSE 3
    [] OTHER                -> 0
OnceWork == One(~panicked) + One(~parentDone) + One(~callerDone)
Work     == JobWork + Cardinality(Present) + StopWork + OnceWork

\* The steps left to a job.
StepsLeft(s) ==
  CASE s = "idle" -> 7 [] s = "checked" -> 6 [] s = "counted" -> 5 [] s = "queued" -> 4
    [] s = "running" -> 3 [] s = "sending" -> 2 [] s = "out" -> 1 [] OTHER -> 0

\* Every part of the work is a natural number.
LEMMA WorkIsNat ==
  /\ \A s : Many(s) \in Nat
  /\ JobWork \in Nat /\ Cardinality(Present) \in Nat /\ StopWork \in Nat /\ OnceWork \in Nat
  /\ Work \in Nat
<1>1. ASSUME NEW s PROVE Many(s) \in Nat
  BY PoolAssumption, FS_Subset, FS_CardinalityType DEF Many, With
<1>2. JobWork \in Nat
  BY <1>1 DEF JobWork
<1>3. Cardinality(Present) \in Nat
  BY PoolAssumption, FS_Subset, FS_CardinalityType DEF Present
<1>4. StopWork \in Nat
  BY DEF StopWork
<1>5. OnceWork \in Nat
  BY DEF OnceWork, One
<1> QED
  BY <1>1, <1>2, <1>3, <1>4, <1>5 DEF Work

\* A job that moves takes itself from the jobs of one status to those of another.
LEMMA StatusMoves ==
  ASSUME TypeOK, NEW j \in Jobs, NEW b \in JobStatus, st' = [st EXCEPT ![j] = b], NEW s
  PROVE  Many(s)' = Many(s) + One(b = s) - One(st[j] = s)
<1>1. IsFiniteSet(With(s)) /\ Many(s) \in Nat
  BY PoolAssumption, FS_Subset, WorkIsNat DEF With
<1>2. With(s)' = {k \in Jobs : IF k = j THEN b = s ELSE st[k] = s}
  BY DEF With, TypeOK
<1>3. CASE b = s /\ st[j] # s
  <2>1. With(s)' = With(s) \cup {j} /\ j \notin With(s)
    BY <1>2, <1>3 DEF With
  <2>2. Many(s)' = Many(s) + 1
    BY <1>1, <2>1, FS_AddElement DEF Many
  <2> QED
    BY <1>1, <1>3, <2>2 DEF One
<1>4. CASE b # s /\ st[j] = s
  <2>1. With(s)' = With(s) \ {j} /\ j \in With(s)
    BY <1>2, <1>4 DEF With
  <2>2. Many(s)' = Many(s) - 1
    BY <1>1, <2>1, FS_RemoveElement DEF Many
  <2> QED
    BY <1>1, <1>4, <2>2 DEF One
<1>5. CASE (b = s) <=> (st[j] = s)
  <2>1. With(s)' = With(s)
    BY <1>2, <1>5 DEF With
  <2>2. Many(s)' = Many(s)
    BY <2>1 DEF Many
  <2> QED
    BY <1>1, <1>5, <2>2 DEF One
<1> QED
  BY <1>3, <1>4, <1>5

\* What a job that moves does to the work of the jobs.
LEMMA JobWorkMoves ==
  ASSUME TypeOK, NEW j \in Jobs, NEW b \in JobStatus, st' = [st EXCEPT ![j] = b]
  PROVE  JobWork' = JobWork + StepsLeft(b) - StepsLeft(st[j])
<1> DEFINE a == st[j]
           In(x, s) == One(x = s)
<1>1. a \in JobStatus
  BY DEF TypeOK
<1>2. \A s : Many(s)' = Many(s) + In(b, s) - In(a, s)
  BY StatusMoves
<1>3. \A x, s : In(x, s) \in Int
  BY DEF One
<1>4. \A s : Many(s) \in Int
  <2>1. \A s : Many(s) \in Nat
    BY WorkIsNat
  <2> QED
    BY <2>1
<1>5. ASSUME NEW x \in JobStatus
      PROVE  StepsLeft(x) = 7 * In(x, "idle") + 6 * In(x, "checked") + 5 * In(x, "counted")
               + 4 * In(x, "queued") + 3 * In(x, "running") + 2 * In(x, "sending") + In(x, "out")
  BY DEF StepsLeft, One, JobStatus
<1> HIDE DEF a, In
<1>6. JobWork' = 7 * Many("idle")' + 6 * Many("checked")' + 5 * Many("counted")'
        + 4 * Many("queued")' + 3 * Many("running")' + 2 * Many("sending")' + Many("out")'
  BY DEF JobWork
<1>7. JobWork' = JobWork
        + (7 * In(b, "idle") + 6 * In(b, "checked") + 5 * In(b, "counted")
            + 4 * In(b, "queued") + 3 * In(b, "running") + 2 * In(b, "sending") + In(b, "out"))
        - (7 * In(a, "idle") + 6 * In(a, "checked") + 5 * In(a, "counted")
            + 4 * In(a, "queued") + 3 * In(a, "running") + 2 * In(a, "sending") + In(a, "out"))
  BY <1>2, <1>3, <1>4, <1>6 DEF JobWork
<1>8. JobWork' = JobWork + StepsLeft(b) - StepsLeft(a)
  BY <1>1, <1>5, <1>7
<1> QED
  BY <1>8 DEF a

\* What a step leaves alone keeps its work.
LEMMA WorkStays ==
  /\ UNCHANGED st => JobWork' = JobWork
  /\ UNCHANGED Present => Cardinality(Present)' = Cardinality(Present)
  /\ UNCHANGED <<mode, stopPc>> => StopWork' = StopWork
  /\ UNCHANGED <<panicked, parentDone, callerDone>> => OnceWork' = OnceWork
<1>1. UNCHANGED st => JobWork' = JobWork
  BY DEF JobWork, Many, With
<1>2. UNCHANGED Present => Cardinality(Present)' = Cardinality(Present)
  OBVIOUS
<1>3. UNCHANGED <<mode, stopPc>> => StopWork' = StopWork
  BY DEF StopWork
<1>4. UNCHANGED <<panicked, parentDone, callerDone>> => OnceWork' = OnceWork
  BY DEF OnceWork
<1> QED
  BY <1>1, <1>2, <1>3, <1>4

\* A step of a job from one status to a later one, by whichever goroutine, uses up work.
LEMMA JobStepUsesWork ==
  ASSUME TypeOK, NEW j \in Jobs, NEW b \in JobStatus, st' = [st EXCEPT ![j] = b],
         StepsLeft(b) < StepsLeft(st[j]),
         UNCHANGED <<Present, mode, stopPc, panicked, parentDone, callerDone>>
  PROVE  Work' < Work
<1>1. st[j] \in JobStatus
  BY DEF TypeOK
<1>2. StepsLeft(b) \in Int /\ StepsLeft(st[j]) \in Int
  BY DEF StepsLeft
<1>3. JobWork' = JobWork + StepsLeft(b) - StepsLeft(st[j])
  BY JobWorkMoves
<1>4. Cardinality(Present)' = Cardinality(Present) /\ StopWork' = StopWork /\ OnceWork' = OnceWork
  BY WorkStays
<1> QED
  BY <1>2, <1>3, <1>4, WorkIsNat DEF Work

\* So do the steps of the callers and of the reader, and a send on a closed channel ends
\* the process once.
LEMMA CallerUsesWork ==
  ASSUME TypeOK, NEW j \in Jobs, Caller(j) \/ Drain(j)
  PROVE  Work' < Work
<1>1. CASE SendOnClosed(j)
  <2>1. ~panicked /\ panicked' /\ UNCHANGED <<st, Present, mode, stopPc, parentDone, callerDone>>
    BY <1>1 DEF Caller, SendOnClosed, Present, ctxs, stop, CheckStopped, CountSubmit, Enqueue,
       Withdraw, Drain
  <2>2. JobWork' = JobWork /\ Cardinality(Present)' = Cardinality(Present)
        /\ StopWork' = StopWork
    BY <2>1, WorkStays
  <2>3. OnceWork' = OnceWork - 1
    BY <2>1 DEF OnceWork, One
  <2> QED
    BY <2>2, <2>3, WorkIsNat DEF Work
<1>2. CASE ~SendOnClosed(j)
  <2>1. UNCHANGED <<Present, mode, stopPc, panicked, parentDone, callerDone>>
    BY <1>2 DEF Caller, CheckStopped, CountSubmit, Enqueue, Withdraw, Drain, Present, ctxs, stop
  <2>2. \E b \in JobStatus : st' = [st EXCEPT ![j] = b] /\ StepsLeft(b) < StepsLeft(st[j])
    BY <1>2 DEF Caller, CheckStopped, CountSubmit, Enqueue, Withdraw, Drain, StepsLeft, JobStatus
  <2> QED
    BY <2>1, <2>2, JobStepUsesWork
<1> QED
  BY <1>1, <1>2

\* A worker uses up work: it moves its job on, panics once or leaves.
LEMMA WorkerUsesWork ==
  ASSUME TypeOK, NEW w \in Workers, Worker(w)
  PROVE  Work' < Work
<1>1. CASE WorkerExit(w)
  <2>1. UNCHANGED <<st, mode, stopPc, panicked, parentDone, callerDone>>
    BY <1>1 DEF WorkerExit, ctxs, stop
  <2>2. JobWork' = JobWork /\ StopWork' = StopWork /\ OnceWork' = OnceWork
    BY <2>1, WorkStays
  <2>3. Present' = Present \ {w} /\ w \in Present
    BY <1>1, PoolAssumption DEF WorkerExit, Present, TypeOK
  <2>4. Cardinality(Present)' = Cardinality(Present) - 1
    BY <2>3, PoolAssumption, FS_Subset, FS_RemoveElement DEF Present
  <2> QED
    BY <2>2, <2>4, WorkIsNat DEF Work
<1>2. CASE SendResult(w) /\ panicked'
  <2>1. ~panicked /\ UNCHANGED <<st, Present, mode, stopPc, parentDone, callerDone>>
    BY <1>2 DEF Worker, SendResult, Present, ctxs, stop
  <2>2. JobWork' = JobWork /\ Cardinality(Present)' = Cardinality(Present)
        /\ StopWork' = StopWork
    BY <2>1, WorkStays
  <2>3. OnceWork' = OnceWork - 1
    BY <1>2, <2>1 DEF OnceWork, One
  <2> QED
    BY <2>2, <2>3, WorkIsNat DEF Work
<1>3. ASSUME NEW j \in Jobs, Receive(w, j) PROVE Work' < Work
  <2>1. UNCHANGED <<Present, mode, stopPc, panicked, parentDone, callerDone>>
    BY <1>3, PoolAssumption DEF Receive, Present, TypeOK, ctxs, stop
  <2>2. st' = [st EXCEPT ![j] = "running"] /\ StepsLeft("running") < StepsLeft(st[j])
    BY <1>3 DEF Receive, StepsLeft
  <2> QED
    BY <2>1, <2>2, JobStepUsesWork DEF JobStatus
<1>4. ASSUME NEW ok \in BOOLEAN, ProcessItem(w, ok) PROVE Work' < Work
  <2>1. wk[w] \in Jobs /\ st[wk[w]] = "running"
    BY <1>4 DEF ProcessItem, With
  <2>2. UNCHANGED <<Present, mode, stopPc, panicked, parentDone, callerDone>>
    BY <1>4, <2>1, PoolAssumption DEF ProcessItem, Present, TypeOK, ctxs, stop
  <2>3. \E b \in JobStatus : st' = [st EXCEPT ![wk[w]] = b] /\ StepsLeft(b) < StepsLeft(st[wk[w]])
    <3>1. st' = [st EXCEPT ![wk[w]] = IF DiscardOutput THEN "taken" ELSE "sending"]
      BY <1>4 DEF ProcessItem
    <3>2. StepsLeft("taken") = 0 /\ StepsLeft("sending") = 2 /\ StepsLeft("running") = 3
      BY DEF StepsLeft
    <3>3. PICK b \in {"taken", "sending"} : st' = [st EXCEPT ![wk[w]] = b]
      <4>1. CASE DiscardOutput
        BY <3>1, <4>1
      <4>2. CASE ~DiscardOutput
        BY <3>1, <4>2
      <4> QED
        BY <4>1, <4>2
    <3>4. b \in JobStatus /\ StepsLeft(b) < StepsLeft(st[wk[w]])
      BY <2>1, <3>2, <3>3 DEF JobStatus
    <3> QED
      BY <3>3, <3>4
  <2> QED
    BY <2>1, <2>2, <2>3, JobStepUsesWork
<1>5. CASE SendResult(w) /\ ~panicked'
  <2>1. wk[w] \in Jobs /\ st[wk[w]] = "sending"
    BY <1>5 DEF SendResult, With
  <2>2. wk' = [wk EXCEPT ![w] = Idle]
        /\ UNCHANGED <<mode, stopPc, panicked, parentDone, callerDone>>
        /\ (st' = [st EXCEPT ![wk[w]] = "out"] \/ st' = [st EXCEPT ![wk[w]] = "lost"])
    BY <1>5 DEF SendResult, ctxs, stop
  <2>3. UNCHANGED Present
    BY <2>1, <2>2, PoolAssumption DEF Present, TypeOK
  <2>4. \E b \in JobStatus : st' = [st EXCEPT ![wk[w]] = b] /\ StepsLeft(b) < StepsLeft(st[wk[w]])
    BY <2>1, <2>2 DEF StepsLeft, JobStatus
  <2> QED
    BY <2>1, <2>2, <2>3, <2>4, JobStepUsesWork
<1> QED
  BY <1>1, <1>2, <1>3, <1>4, <1>5 DEF Worker

\* Stop and StopNow take at most five steps; a context ends once.
LEMMA StoppingUsesWork ==
  ASSUME IInv, Stopping \/ Environment
  PROVE  Work' < Work
<1>1. UNCHANGED st /\ UNCHANGED Present
  BY DEF Stopping, CancelStep, CloseInput, WaitWorkers, CloseOutput, Environment, StopBegin,
     CancelParent, CancelCaller, Present
<1>2. JobWork' = JobWork /\ Cardinality(Present)' = Cardinality(Present)
  BY <1>1, WorkStays
<1>3. CASE Stopping \/ \E m \in {"Stop", "StopNow"} : StopBegin(m)
  <2>1. OnceWork' = OnceWork
    BY <1>3 DEF Stopping, CancelStep, CloseInput, WaitWorkers, CloseOutput, StopBegin, OnceWork,
       ctxs
  <2>2. StopWork' = StopWork - 1
    BY <1>3 DEF Stopping, CancelStep, CloseInput, WaitWorkers, CloseOutput, StopBegin, StopWork,
       IInv, Sequencing, TypeOK, StopStep
  <2> QED
    BY <1>2, <2>1, <2>2, WorkIsNat DEF Work
<1>4. CASE CancelParent \/ CancelCaller
  <2>1. StopWork' = StopWork
    BY <1>4 DEF CancelParent, CancelCaller, StopWork, stop
  <2>2. OnceWork' = OnceWork - 1
    BY <1>4 DEF CancelParent, CancelCaller, OnceWork, One
  <2> QED
    BY <1>2, <2>1, <2>2, WorkIsNat DEF Work
<1> QED
  BY <1>3, <1>4 DEF Environment

\* The pool runs out: a natural number bounds the steps still to come, and every step of
\* every goroutine, of a shutdown or of the environment uses up at least one.  No job is
\* handed round, no shutdown spins; with NeverStuck, whatever order the goroutines run in,
\* they end in a panic or at rest, every call answered and every shutdown returned.
THEOREM PoolRunsOut == Spec => [](Work \in Nat) /\ [][Work' < Work]_vars
<1>1. IInv => Work \in Nat
  BY WorkIsNat
<1>2. IInv /\ [Next]_vars => [Work' < Work]_vars
  <2> SUFFICES ASSUME IInv, Next PROVE Work' < Work
    OBVIOUS
  <2>1. TypeOK
    BY DEF IInv
  <2> QED
    BY <2>1, CallerUsesWork, WorkerUsesWork, StoppingUsesWork DEF Next, Consumer
<1> QED
  BY <1>1, <1>2, Inductive, PTL DEF Spec
=============================================================================
