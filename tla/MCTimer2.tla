------------------------------ MODULE MCTimer2 -------------------------------
\* Timer2 for TLC: handlers and memory cells are interchangeable.
EXTENDS Timer2, TLC

HeapSymmetry == Permutations(Keys) \cup Permutations(Cells)
=============================================================================
