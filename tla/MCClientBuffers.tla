-------------------------- MODULE MCClientBuffers --------------------------
EXTENDS ClientBuffers, TLC

\* Clients, ranges and tokens are interchangeable: no definition orders them.
Symmetry == Permutations(Clients) \cup Permutations(Blocks) \cup Permutations(Tokens)
=============================================================================
