------------------------------- MODULE MCTimer -------------------------------
\* Timer for TLC: the handlers are interchangeable.
EXTENDS Timer

KeySymmetry == Permutations(Keys)
=============================================================================
