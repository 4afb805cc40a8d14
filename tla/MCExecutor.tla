------------------------------ MODULE MCExecutor ------------------------------
EXTENDS Executor, TLC

\* Calls are interchangeable: no operator tells one from another.
JobSymmetry == Permutations(Jobs)
=============================================================================
