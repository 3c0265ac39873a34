------------------------------ MODULE MCKeyCache ------------------------------
EXTENDS KeyCache, TLC

CONSTANTS k1, k2, k3, r1, r2

Symmetry ==
    Permutations(Rotating) \cup Permutations(Kids \ Rotating) \cup Permutations(Requests)
================================================================================
