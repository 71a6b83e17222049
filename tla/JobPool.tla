------------------------------- MODULE JobPool -------------------------------
(***************************************************************************)
(* What internal/workerpool promises to a caller of Submit, SubmitWait,    *)
(* Stop and StopNow, and to the reader of OutputQ: a job is refused or     *)
(* taken, what is taken is run once and its result is handed over once,    *)
(* and only a pool cut short (StopNow, or the context it was built from is *)
(* done) loses a job.  No worker, queue or counter appears here.           *)
(* WorkerPool is shown to implement it.                                    *)
(***************************************************************************)
CONSTANTS
  Jobs,
  Discards     \* nobody reads the results

VARIABLES
  job,       \* job[j]: "new", "refused", "taken", "done", "delivered" or "lost"
  gate,      \* "open", "closed" to new jobs, or "returned": Stop or StopNow is over
  cut,       \* the pool was cut short
  crashed    \* the process is gone

poolVars == <<job, gate, cut, crashed>>

PoolInit ==
  /\ job = [j \in Jobs |-> "new"]
  /\ gate = "open" /\ cut = FALSE /\ crashed = FALSE

Set(j, from, to) ==
  /\ job[j] = from /\ job' = [job EXCEPT ![j] = to]
  /\ UNCHANGED <<gate, cut, crashed>>

\* The caller gets an error: the pool is stopped or full, or a context is done.
Refuse(j) == Set(j, "new", "refused")

Take(j) == gate = "open" /\ Set(j, "new", "taken")

\* The job has been run, and its result is there for the reader.
HandOver(j) == Set(j, "taken", "done")

Deliver(j) == Set(j, "done", "delivered")

Lose(j) == cut /\ Set(j, "taken", "lost")

Cut == cut' = TRUE /\ UNCHANGED <<job, gate, crashed>>

Close == gate = "open" /\ gate' = "closed" /\ UNCHANGED <<job, cut, crashed>>

\* Stop returns when every job taken has been run; StopNow leaves the rest behind.
Return ==
  /\ gate = "closed" /\ gate' = "returned"
  /\ cut \/ \A j \in Jobs : job[j] # "taken"
  /\ UNCHANGED <<job, cut, crashed>>

\* A send on a closed channel ends the process.
Crash == gate # "open" /\ crashed' = TRUE /\ UNCHANGED <<job, gate, cut>>

PoolNext ==
  /\ ~crashed
  /\ \/ \E j \in Jobs : Refuse(j) \/ Take(j) \/ HandOver(j) \/ Deliver(j) \/ Lose(j)
     \/ Cut \/ Close \/ Return \/ Crash

PoolSafety == PoolInit /\ [][PoolNext]_poolVars

\* A pool that is not cut short runs what it took, and delivers it to its reader.
PoolSpec ==
  /\ PoolSafety
  /\ \A j \in Jobs : WF_poolVars(~crashed /\ ~cut /\ (HandOver(j) \/ (~Discards /\ Deliver(j))))
=============================================================================
