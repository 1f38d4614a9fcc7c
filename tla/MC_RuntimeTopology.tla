-------------------------- MODULE MC_RuntimeTopology --------------------------
EXTENDS RuntimeTopology, TLC

MCSettings == {
    [cache |-> "none", verify |-> TRUE, fallback |-> None],
    [cache |-> "lru", verify |-> TRUE, fallback |-> Fallback],
    [cache |-> "lru", verify |-> FALSE, fallback |-> None],
    [cache |-> "memory", verify |-> TRUE, fallback |-> None] }

Symmetry == Permutations(Requests)
=============================================================================
