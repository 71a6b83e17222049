---------------------------- MODULE MCWorkerPool ----------------------------
\* TLC instance of WorkerPool: three jobs, one of them submitted without waiting.
EXTENDS WorkerPool, TLC

CONSTANTS j1, j2, j3, w1, w2

AllJobs == {j1, j2, j3}
OneTry  == {j3}
TwoWorkers == {w1, w2}
=============================================================================
