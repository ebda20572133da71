---------------------------- MODULE MCClipboard ----------------------------
(* Clipboard on small instances.  No symmetry: the run also checks a       *)
(* liveness property.                                                      *)
EXTENDS Clipboard, TLC
=============================================================================
