----------------------------- MODULE MCRecords ------------------------------
EXTENDS Records, TLC
CONSTANTS d1, d2, i1, i2, i3, e1, e2
Symmetry ==
  Permutations({d1, d2}) \cup Permutations({i2, i3}) \cup Permutations({e1, e2})
=============================================================================
