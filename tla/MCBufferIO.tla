----------------------------- MODULE MCBufferIO -----------------------------
EXTENDS BufferIO, BufferTables, TLC

Symmetry == Permutations(Procs) \cup Permutations(Bytes)
=============================================================================
