------------------------------ MODULE MCFileStore ------------------------------
EXTENDS FileStore, TLC

\* IDs and requests are interchangeable: no operator tells one from another.
StoreSymmetry == Permutations(IDs) \cup Permutations(Clients)
=============================================================================
