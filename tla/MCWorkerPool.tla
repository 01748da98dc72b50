---------------------------- MODULE MCWorkerPool ----------------------------
(* Instances of WorkerPool for TLC.                                         *)
EXTENDS WorkerPool, TLC

\* One hook call, for all the items there are.
OneEvent == {Jobs}

\* The items of one hook call are interchangeable.
Symmetry == Permutations(Jobs)
============================================================================
