----------------------------- MODULE MCVramFacts -----------------------------
(* Model-checking instance of VramFacts. *)
EXTENDS VramFacts, TLC

Symmetry == Permutations(Workers)
=============================================================================
