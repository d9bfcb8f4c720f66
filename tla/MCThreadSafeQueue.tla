-------------------------- MODULE MCThreadSafeQueue --------------------------
(* Two producers and two consumers around a queue of one or two places. *)
EXTENDS ThreadSafeQueue
=============================================================================
