---------------------------- MODULE MCWorkerPool ----------------------------
EXTENDS WorkerPool, TLC

Symmetry == Permutations(Worker)
=============================================================================
