--------------------------- MODULE MCDiskModelCache ---------------------------
(* Model-checking instance of DiskModelCache: shards and workers are       *)
(* interchangeable.                                                        *)
EXTENDS DiskModelCache, TLC

Symmetry == Permutations(Shards) \cup Permutations(Workers)
=============================================================================
