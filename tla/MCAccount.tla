----------------------------- MODULE MCAccount ------------------------------
EXTENDS Account, TLC
CONSTANTS d1, d2, p1, p2, k1, k2, k3
Symmetry == Permutations({d1, d2}) \cup Permutations({p1, p2}) \cup Permutations({k1, k2, k3})
=============================================================================
