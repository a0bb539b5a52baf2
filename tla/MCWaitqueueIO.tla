---------------------------- MODULE MCWaitqueueIO ----------------------------
EXTENDS WaitqueueIO, TLC

\* Readers that block are interchangeable, and so are writers.
Symmetry == Permutations(Readers \ Nonblock) \cup Permutations(Writers)
=============================================================================
