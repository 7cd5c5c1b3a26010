--------------------------- MODULE MCPostHandlers ---------------------------
EXTENDS PostHandlers, TLC

Symmetry == Permutations(Workers) \cup Permutations(Conns) \cup Permutations(Times)
=============================================================================
