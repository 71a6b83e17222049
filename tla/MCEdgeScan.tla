----------------------------- MODULE MCEdgeScan -----------------------------
(***************************************************************************)
(* TLC instance of EdgeScan; and, since its state space is small, of the   *)
(* Pipeline of the other programs under full queues, to see whether they   *)
(* can wedge it.  The two have no state in common; so that the product     *)
(* stays small, each moves only while the other has not begun.             *)
(***************************************************************************)
EXTENDS EdgeScan

-----------------------------------------------------------------------------
(* Three conditions, two of them legs of one group.                        *)

Quoted(bid, ask, move) ==
  [bid |-> bid, ask |-> ask, depth |-> 400, move |-> move, bids |-> 60, hours |-> 100,
   volume |-> 50]

Even   == Quoted(48, 52, 300)
Cheap  == Quoted(30, 32, 0)
Long   == Quoted(97, 99, 0)
NoSide == Quoted(0, 50, 100)

FewFeatures == {Even, Cheap, Long, NoSide}

FewListings ==
  {[times |-> 0, act |-> 0, f |-> Even],  [times |-> 1, act |-> 0, f |-> Even],
   [times |-> 1, act |-> 2, f |-> Even],  [times |-> 1, act |-> 1, f |-> Cheap],
   [times |-> 1, act |-> 2, f |-> Long],  [times |-> 2, act |-> 1, f |-> Cheap],
   [times |-> 1, act |-> 1, f |-> NoSide]}

OneGroup == [c \in Conds |-> IF c = 3 THEN 0 ELSE 1]

-----------------------------------------------------------------------------
\* A pipeline nobody waits for, with enough follow-ups to fill every queue and one requeue
\* worker.
VARIABLES seeds, seedPc, budget, bridge, router, payloads, followUps, rw, pend,
          routerInflight, pollPc, stable, place

pipeVars == <<seeds, seedPc, budget, bridge, router, payloads, followUps, rw, pend,
              routerInflight, pollPc, stable, place>>

Pipe == INSTANCE Pipeline WITH
  at <- place, Seeds <- 1, Budget <- 10, MaxPayloads <- 0, Waiting <- FALSE, StablePolls <- 1,
  Fetchers <- 1, Processors <- 1, Savers <- 1, FetchQ <- 1, ProcQ <- 1, SaveQ <- 1,
  FetchOut <- 1, ProcOut <- 1, RequeueWorkers <- {"q"}, RequeueCap <- 1, MaxOverflow <- 1

-----------------------------------------------------------------------------
NoScanYet     == Init
NoRequestsYet == Pipe!Init

ScanInit == Init /\ Pipe!Init

ScanNext ==
  \/ NoRequestsYet /\ Next /\ UNCHANGED pipeVars
  \/ NoScanYet /\ Pipe!Next /\ UNCHANGED vars

ScanSpec == ScanInit /\ [][ScanNext]_<<vars, pipeVars>>

Alike == Permutations(Scanners)

\* The pipeline cannot wedge, however full its queues (Pipeline).
NeverWedged == Pipe!NeverWedged
=============================================================================
