--------------------------- MODULE MCButtonDriver ---------------------------
EXTENDS ButtonDriver, TLC

\* The files are interchangeable, and so are the addresses of buffers.
Symmetry == Permutations(Files) \cup Permutations(Buffers)
=============================================================================
