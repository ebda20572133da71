----------------------------- MODULE MCSession -----------------------------
(* Session on small instances.  Unlocks and operations are interchangeable *)
(* within their sets; the symmetry serves the runs that check safety only. *)
EXTENDS Session, TLC

Symmetry == Permutations(Unlocks) \cup Permutations(Ops)
=============================================================================
