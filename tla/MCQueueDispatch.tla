--------------------------- MODULE MCQueueDispatch ---------------------------
(* Model-checking instance of QueueDispatch. *)
EXTENDS QueueDispatch, TLC

Symmetry == Permutations(Requests)
=============================================================================
