----------------------------- MODULE MCWorkerPool -----------------------------
EXTENDS WorkerPool, TLC

\* Callers are interchangeable: no operator tells one from another.
CallerSymmetry == Permutations(Callers)
=============================================================================
