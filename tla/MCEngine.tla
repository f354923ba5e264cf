-------------------------------- MODULE MCEngine --------------------------------
EXTENDS Engine, TLC

\* Callers are interchangeable.
Symmetry == Permutations(Clients)
=============================================================================
