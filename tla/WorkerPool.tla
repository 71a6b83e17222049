----------------------------- MODULE WorkerPool -----------------------------
(***************************************************************************)
(* internal/workerpool: a bounded input channel, a set of worker           *)
(* goroutines running processFunc, a bounded output channel, atomic        *)
(* counters, and the two shutdown sequences Stop and StopNow.              *)
(*                                                                         *)
(* A job stands for one call of Submit or SubmitWait by a goroutine of its *)
(* own, so every interleaving of callers, workers, the consumer of         *)
(* OutputQ and the stopping goroutine is explored.  st[j] is how far the   *)
(* job has come; both channels are the sets of jobs with the matching      *)
(* status (the order inside a channel distinguishes no property here).     *)
(*   idle -> checked   stopped.Load() returned false                       *)
(*        -> counted   Submitted.Add(1) done, in the select of Submit*     *)
(*        -> queued    in InputQ                                           *)
(*        -> running   in processFunc (InProgress incremented)             *)
(*        -> sending   Completed or Failed incremented, in sendResult      *)
(*        -> out       in OutputQ                                          *)
(*        -> taken     received by the consumer                            *)
(*   refused: the caller got an error; lost: sendResult saw ctx.Done().    *)
(*                                                                         *)
(* Go semantics kept: a select with several ready cases picks any of them; *)
(* a send on a closed channel is a ready case and panics, ending the       *)
(* process (panicked).                                                     *)
(***************************************************************************)
EXTENDS Integers, FiniteSets

CONSTANTS
  Jobs,            \* calls of Submit / SubmitWait
  NonBlocking,     \* the jobs submitted with Submit; the others use SubmitWait
  Workers,         \* worker goroutines
  QueueSize,       \* capacity of InputQ
  OutFactor,       \* OutputQ holds QueueSize * OutFactor + workers (2 in the code)
  DiscardOutput,   \* TRUE for a terminal stage (WithDiscardOutput)
  Idle, Exited     \* what a worker that holds no job is doing

ASSUME PoolAssumption ==
  /\ IsFiniteSet(Jobs) /\ NonBlocking \subseteq Jobs
  /\ IsFiniteSet(Workers) /\ Workers # {}
  /\ QueueSize \in Nat \ {0} /\ OutFactor \in Nat
  /\ DiscardOutput \in BOOLEAN
  /\ Idle \notin Jobs /\ Exited \notin Jobs /\ Idle # Exited

VARIABLES
  st,            \* st[j]: progress of job j
  wk,            \* wk[w]: the job worker w holds, Idle or Exited
  submitted, completed, failed, inProgress,   \* Stats
  stopped,       \* the stopped flag read by Submit*
  inClosed, outClosed,     \* close(InputQ), close(OutputQ) happened
  poolDone,      \* p.cancel() called
  parentDone,    \* the context the pool was built from is done
  callerDone,    \* the context the callers pass is done
  mode,          \* "none", or which of Stop / StopNow won stopOnce
  stopPc,        \* progress of that goroutine
  hurried,       \* history: it began while a Submit* call was in flight
  panicked       \* a send on a closed channel ended the process

stats == <<submitted, completed, failed, inProgress>>
chans == <<inClosed, outClosed>>
ctxs  == <<poolDone, parentDone, callerDone>>
stop  == <<mode, stopPc, stopped, hurried>>
vars  == <<st, wk, stats, chans, ctxs, stop, panicked>>

JobStatus == {"idle", "checked", "counted", "queued", "running", "sending",
              "out", "taken", "refused", "lost"}
StopStep  == {"none", "flagged", "closed", "cancelled", "waited", "finished"}

With(s) == {j \in Jobs : st[j] = s}

\* The pool's context: cancelled by Stop / StopNow or with its parent.
ctxDone == poolDone \/ parentDone

\* NewPool: outSize := queueSize*2 + numWorkers; a run takes a smaller factor so
\* that a handful of jobs fills OutputQ.
OutSize == QueueSize * OutFactor + Cardinality(Workers)
InRoom  == Cardinality(With("queued")) < QueueSize
OutRoom == Cardinality(With("out")) < OutSize

\* Stats.Pending: Submitted - Completed - Failed, never below zero.
Pending == LET p == submitted - completed - failed IN IF p < 0 THEN 0 ELSE p

TypeOK ==
  /\ st \in [Jobs -> JobStatus]
  /\ wk \in [Workers -> Jobs \cup {Idle, Exited}]
  /\ submitted \in Nat /\ completed \in Nat /\ failed \in Nat
  /\ inProgress \in 0..Cardinality(Workers)
  /\ stopped \in BOOLEAN /\ inClosed \in BOOLEAN /\ outClosed \in BOOLEAN
  /\ poolDone \in BOOLEAN /\ parentDone \in BOOLEAN /\ callerDone \in BOOLEAN
  /\ mode \in {"none", "Stop", "StopNow"} /\ stopPc \in StopStep
  /\ hurried \in BOOLEAN /\ panicked \in BOOLEAN

Init ==
  /\ st = [j \in Jobs |-> "idle"] /\ wk = [w \in Workers |-> Idle]
  /\ submitted = 0 /\ completed = 0 /\ failed = 0 /\ inProgress = 0
  /\ stopped = FALSE /\ inClosed = FALSE /\ outClosed = FALSE
  /\ poolDone = FALSE /\ parentDone = FALSE /\ callerDone = FALSE
  /\ mode = "none" /\ stopPc = "none" /\ hurried = FALSE /\ panicked = FALSE

-----------------------------------------------------------------------------
(* Submit and SubmitWait, one atomic operation per step.                   *)

CheckStopped(j) ==
  /\ st[j] = "idle"
  /\ st' = [st EXCEPT ![j] = IF stopped THEN "refused" ELSE "checked"]
  /\ UNCHANGED <<wk, stats, chans, ctxs, stop, panicked>>

CountSubmit(j) ==
  /\ st[j] = "checked"
  /\ st' = [st EXCEPT ![j] = "counted"]
  /\ submitted' = submitted + 1
  /\ UNCHANGED <<wk, completed, failed, inProgress, chans, ctxs, stop, panicked>>

Enqueue(j) ==
  /\ st[j] = "counted" /\ ~inClosed /\ InRoom
  /\ st' = [st EXCEPT ![j] = "queued"]
  /\ UNCHANGED <<wk, stats, chans, ctxs, stop, panicked>>

SendOnClosed(j) ==
  /\ st[j] = "counted" /\ inClosed
  /\ panicked' = TRUE
  /\ UNCHANGED <<st, wk, stats, chans, ctxs, stop>>

Withdraw_MutantKeepsCount(j) ==
  /\ st[j] = "counted"
  /\ \/ callerDone \/ ctxDone
     \/ j \in NonBlocking /\ ~inClosed /\ ~InRoom
  /\ st' = [st EXCEPT ![j] = "refused"]
  /\ UNCHANGED <<wk, stats, chans, ctxs, stop, panicked>>

\* The select leaves without sending: its own or the pool's context is done,
\* or (Submit only, and only if no other case is ready) the queue is full.
Withdraw(j) ==
  /\ st[j] = "counted"
  /\ \/ callerDone \/ ctxDone
     \/ j \in NonBlocking /\ ~inClosed /\ ~InRoom
  /\ st' = [st EXCEPT ![j] = "refused"]
  /\ submitted' = submitted - 1
  /\ UNCHANGED <<wk, completed, failed, inProgress, chans, ctxs, stop, panicked>>

-----------------------------------------------------------------------------
(* worker, processItem, sendResult.  InProgress.Add is merged with the     *)
(* receive and with the Completed/Failed update it stands next to: no code *)
(* in the repository branches on it.                                       *)
(*                                                                         *)
(* A definition named X_Mutant... is a deliberately wrong variant of X; no *)
(* specification uses it.  Each one shows that some property notices it.   *)

Receive(w, j) ==
  /\ wk[w] = Idle /\ st[j] = "queued"
  /\ wk' = [wk EXCEPT ![w] = j]
  /\ st' = [st EXCEPT ![j] = "running"]
  /\ inProgress' = inProgress + 1
  /\ UNCHANGED <<submitted, completed, failed, chans, ctxs, stop, panicked>>

\* processFunc returned a value (ok) or an error; a terminal stage keeps no result.
ProcessItem(w, ok) ==
  /\ wk[w] \in With("running")
  /\ st' = [st EXCEPT ![wk[w]] = IF DiscardOutput THEN "taken" ELSE "sending"]
  /\ wk' = IF DiscardOutput THEN [wk EXCEPT ![w] = Idle] ELSE wk
  /\ completed' = IF ok THEN completed + 1 ELSE completed
  /\ failed' = IF ok THEN failed ELSE failed + 1
  /\ inProgress' = inProgress - 1
  /\ UNCHANGED <<submitted, chans, ctxs, stop, panicked>>

SendResult_MutantNoContextCase(w) ==
  /\ wk[w] \in With("sending")
  /\ ~outClosed /\ OutRoom
  /\ st' = [st EXCEPT ![wk[w]] = "out"]
  /\ wk' = [wk EXCEPT ![w] = Idle]
  /\ UNCHANGED <<stats, chans, ctxs, stop, panicked>>

SendResult_MutantDropsWhenFull(w) ==
  /\ wk[w] \in With("sending")
  /\ ~outClosed
  /\ st' = [st EXCEPT ![wk[w]] = IF OutRoom THEN "out" ELSE "lost"]
  /\ wk' = [wk EXCEPT ![w] = Idle]
  /\ UNCHANGED <<stats, chans, ctxs, stop, panicked>>

SendResult(w) ==
  /\ wk[w] \in With("sending")
  /\ \/ /\ outClosed
        /\ panicked' = TRUE
        /\ UNCHANGED <<st, wk>>
     \/ /\ ~outClosed /\ OutRoom
        /\ st' = [st EXCEPT ![wk[w]] = "out"]
        /\ wk' = [wk EXCEPT ![w] = Idle]
        /\ UNCHANGED panicked
     \/ /\ ctxDone
        /\ st' = [st EXCEPT ![wk[w]] = "lost"]
        /\ wk' = [wk EXCEPT ![w] = Idle]
        /\ UNCHANGED panicked
  /\ UNCHANGED <<stats, chans, ctxs, stop>>

WorkerExit_MutantLeavesQueue(w) ==
  /\ wk[w] = Idle
  /\ ctxDone \/ inClosed
  /\ wk' = [wk EXCEPT ![w] = Exited]
  /\ UNCHANGED <<st, stats, chans, ctxs, stop, panicked>>

WorkerExit(w) ==
  /\ wk[w] = Idle
  /\ ctxDone \/ (inClosed /\ With("queued") = {})
  /\ wk' = [wk EXCEPT ![w] = Exited]
  /\ UNCHANGED <<st, stats, chans, ctxs, stop, panicked>>

-----------------------------------------------------------------------------
(* Stop: flag, close(InputQ), wg.Wait, cancel, close(OutputQ).             *)
(* StopNow: flag, cancel, close(InputQ), wg.Wait, close(OutputQ).          *)
(* stopOnce lets one call in; a later one only waits for it.               *)

StopBegin_MutantNoFlag(m) ==
  /\ mode = "none"
  /\ mode' = m /\ stopPc' = "flagged"
  /\ hurried' = (With("checked") \cup With("counted") # {})
  /\ UNCHANGED <<st, wk, stats, chans, ctxs, stopped, panicked>>

StopBegin(m) ==
  /\ mode = "none"
  /\ mode' = m /\ stopPc' = "flagged" /\ stopped' = TRUE
  /\ hurried' = (With("checked") \cup With("counted") # {})
  /\ UNCHANGED <<st, wk, stats, chans, ctxs, panicked>>

CancelStep ==
  /\ \/ mode = "StopNow" /\ stopPc = "flagged" /\ stopPc' = "cancelled"
     \/ mode = "Stop" /\ stopPc = "waited" /\ stopPc' = "cancelled"
  /\ poolDone' = TRUE
  /\ UNCHANGED <<st, wk, stats, chans, parentDone, callerDone, mode, stopped, hurried, panicked>>

CloseInput ==
  /\ \/ mode = "Stop" /\ stopPc = "flagged"
     \/ mode = "StopNow" /\ stopPc = "cancelled"
  /\ inClosed' = TRUE /\ stopPc' = "closed"
  /\ UNCHANGED <<st, wk, stats, outClosed, ctxs, mode, stopped, hurried, panicked>>

WaitWorkers ==
  /\ stopPc = "closed"
  /\ \A w \in Workers : wk[w] = Exited
  /\ stopPc' = "waited"
  /\ UNCHANGED <<st, wk, stats, chans, ctxs, mode, stopped, hurried, panicked>>

CloseOutput ==
  /\ \/ mode = "Stop" /\ stopPc = "cancelled"
     \/ mode = "StopNow" /\ stopPc = "waited"
  /\ outClosed' = ~DiscardOutput /\ stopPc' = "finished"
  /\ UNCHANGED <<st, wk, stats, inClosed, ctxs, mode, stopped, hurried, panicked>>

-----------------------------------------------------------------------------
(* The reader of OutputQ (Bridge or Drain).  It runs under the parent      *)
(* context and stops reading when that is done.                            *)

Drain(j) ==
  /\ st[j] = "out"
  /\ st' = [st EXCEPT ![j] = "taken"]
  /\ UNCHANGED <<wk, stats, chans, ctxs, stop, panicked>>

CancelParent ==
  /\ ~parentDone /\ parentDone' = TRUE
  /\ UNCHANGED <<st, wk, stats, chans, poolDone, callerDone, stop, panicked>>

CancelCaller ==
  /\ ~callerDone /\ callerDone' = TRUE
  /\ UNCHANGED <<st, wk, stats, chans, poolDone, parentDone, stop, panicked>>

-----------------------------------------------------------------------------
Caller(j) ==
  /\ ~panicked
  /\ CheckStopped(j) \/ CountSubmit(j) \/ Enqueue(j) \/ SendOnClosed(j) \/ Withdraw(j)

Worker(w) ==
  /\ ~panicked
  /\ \/ \E j \in Jobs : Receive(w, j)
     \/ \E ok \in BOOLEAN : ProcessItem(w, ok)
     \/ SendResult(w)
     \/ WorkerExit(w)

Stopping ==
  /\ ~panicked
  /\ CancelStep \/ CloseInput \/ WaitWorkers \/ CloseOutput

Consumer == ~panicked /\ ~parentDone /\ \E j \in Jobs : Drain(j)

Environment ==
  /\ ~panicked
  /\ (\E m \in {"Stop", "StopNow"} : StopBegin(m)) \/ CancelParent \/ CancelCaller

Next ==
  \/ \E j \in Jobs : Caller(j)
  \/ \E w \in Workers : Worker(w)
  \/ Stopping
  \/ Consumer
  \/ Environment

Spec == Init /\ [][Next]_vars

(* Every goroutine is eventually scheduled, processFunc returns, and the   *)
(* consumer keeps reading.  Nothing obliges the environment to stop the    *)
(* pool or to cancel a context.                                            *)
Fairness ==
  /\ \A j \in Jobs : WF_vars(Caller(j))
  /\ \A w \in Workers : WF_vars(Worker(w))
  /\ WF_vars(Stopping) /\ WF_vars(Consumer)

FairSpec == Spec /\ Fairness

-----------------------------------------------------------------------------
(* Properties.                                                             *)

\* Pending() counts exactly the calls past Submitted.Add(1) whose item has not
\* been completed or failed: a refused call takes itself back out, an item is
\* never counted twice, and items abandoned by StopNow stay pending for good.
PendingJobs  == {j \in Jobs : st[j] \in {"counted", "queued", "running"}}
PendingExact == submitted >= completed + failed /\ Pending = Cardinality(PendingJobs)

\* Stop ("close input so workers drain, wait, close output"): when it has
\* returned and no outer context ended, every item some Submit* call accepted
\* has been run and its result handed to OutputQ; none is left or dropped.
GracefulStopKeepsAccepted ==
  mode = "Stop" /\ stopPc = "finished" /\ ~parentDone =>
    \A j \in Jobs : st[j] \notin {"queued", "running", "sending", "lost"}

\* A send on a closed channel needs a Submit* call that was already in flight when
\* Stop or StopNow began; calls that start later are refused, workers never do it.
OnlyHurriedStopPanics == panicked => hurried

\* Stop and StopNow return: the workers notice the closed input or the ended
\* context even when OutputQ is full and nobody reads it any more.
StopTerminates == mode # "none" ~> (stopPc = "finished" \/ panicked)

-----------------------------------------------------------------------------
(* The pool as its callers see it.                                         *)

\* What has become of a job, whichever worker or channel it is in.
View(s) ==
  CASE s \in {"idle", "checked", "counted"}   -> "new"
    [] s \in {"queued", "running", "sending"} -> "taken"
    [] s = "out"                              -> "done"
    [] s = "taken"                            -> IF DiscardOutput THEN "done" ELSE "delivered"
    [] OTHER                                  -> s

Gate == IF stopPc = "finished" THEN "returned" ELSE IF inClosed THEN "closed" ELSE "open"

Abs == INSTANCE JobPool WITH
  Discards <- DiscardOutput, job <- [j \in Jobs |-> View(st[j])], gate <- Gate,
  cut <- parentDone \/ mode = "StopNow", crashed <- panicked

\* The pool keeps every promise of JobPool, whatever the order of callers, workers, the
\* reader and the two ways to stop: in particular a job is run and handed over once, and
\* its result arrives unless StopNow ran or an outer context ended.
Refines == Abs!PoolSpec
=============================================================================
