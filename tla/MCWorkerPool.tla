---------------------------- MODULE MCWorkerPool ----------------------------
(***************************************************************************)
(* Instances of WorkerPool for TLC.                                        *)
(***************************************************************************)
EXTENDS WorkerPool

CONSTANTS c1, c2, c3, c4, c5, w1, w2

FiveCallers  == {c1, c2, c3, c4, c5}
TwoWorkers   == {w1, w2}

============================================================================
