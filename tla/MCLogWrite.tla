----------------------------- MODULE MCLogWrite -----------------------------
EXTENDS LogWrite, TLC

\* Threads are interchangeable.
Symmetry == Permutations(Thread)
=============================================================================
