------------------------- MODULE MCGroupCommitLock -------------------------
EXTENDS GroupCommitLock, TLC

\* Threads and callbacks are interchangeable.
Symmetry == Permutations(Thread) \cup Permutations(Callback)
=============================================================================
