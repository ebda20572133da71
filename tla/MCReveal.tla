------------------------------ MODULE MCReveal ------------------------------
(* Reveal on small instances.  Attempts, fields and keys are               *)
(* interchangeable: the symmetry is used where only safety is checked.     *)
EXTENDS Reveal, TLC

Symmetry == Permutations(Fields) \cup Permutations(Attempts) \cup Permutations(Keys)
=============================================================================
