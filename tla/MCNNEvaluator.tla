--------------------------- MODULE MCNNEvaluator ---------------------------
(* Three clients and two server threads around a ring of arrays of two rows. *)
EXTENDS NNEvaluator
=============================================================================
