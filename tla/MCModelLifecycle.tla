-------------------------- MODULE MCModelLifecycle --------------------------
(* Model-checking instance of ModelLifecycle: model names and worker       *)
(* threads are interchangeable in every safety run.                        *)
EXTENDS ModelLifecycle, TLC

Symmetry == Permutations(Models) \cup Permutations(Workers)
=============================================================================
