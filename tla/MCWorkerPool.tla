---------------------------- MODULE MCWorkerPool ----------------------------
(***************************************************************************)
(* Model checking of WorkerPool: two workers, a few jobs and attempts.     *)
(***************************************************************************)
EXTENDS WorkerPool, TLC

\* Workers are alike, so permuting them changes nothing (safety runs only).
WorkerSymmetry == Permutations(Worker)

TwoPriorities == {0, 5}

OnePriority == {0}
=============================================================================
