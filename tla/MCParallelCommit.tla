-------------------------- MODULE MCParallelCommit --------------------------
EXTENDS ParallelCommit

OneBatch == <<1, 1>>
TwoBatches == <<1, 1, 2>>
=============================================================================
