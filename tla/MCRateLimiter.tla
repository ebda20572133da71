--------------------------- MODULE MCRateLimiter ---------------------------
(* RateLimiter on a small instance.  Keys are model values; no symmetry,   *)
(* since the run checks a refinement.                                      *)
EXTENDS RateLimiter, TLC
=============================================================================
