---------------------------- MODULE MCSearchNode ----------------------------
(* Arrays of one, two and three slots, so that a node grows twice. *)
EXTENDS SearchNode
=============================================================================
