--------------------------- MODULE MCGARTMapping ---------------------------
EXTENDS GARTMapping, TLC

Symmetry == Permutations(Buffers) \cup Permutations(Objects)
=============================================================================
