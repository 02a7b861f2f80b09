-------------------------- MODULE MCDriverSession --------------------------
EXTENDS DriverSession, TLC

Symmetry == Permutations(Clients) \cup Permutations(Slots) \cup Permutations(Queues)
=============================================================================
