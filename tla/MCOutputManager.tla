---------------------------- MODULE MCOutputManager ----------------------------
EXTENDS OutputManager, TLC

\* Executions are interchangeable, and so are deletes.
OutputSymmetry == Permutations(Execs) \cup Permutations(Deleters)
                    \cup Permutations(Readers)
=============================================================================
