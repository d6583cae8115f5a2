--------------------------- MODULE MCServerManager ---------------------------
(* Model-checking instance of ServerManager: operators and process ids are *)
(* interchangeable.                                                        *)
EXTENDS ServerManager, TLC

Symmetry == Permutations(Operators) \cup Permutations(Pids)
=============================================================================
