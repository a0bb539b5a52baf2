--------------------------- MODULE MCRegisterReads ---------------------------
EXTENDS RegisterReads, TLC

\* The programs are interchangeable, and no property is temporal.
Symmetry == Permutations(Programs)
=============================================================================
