------------------------------ MODULE ChildList ------------------------------
(***************************************************************************)
(* What a node of the search tree promises the threads that share it,      *)
(* without arrays, states or copies: it is evaluated once, and from then   *)
(* on it has a list of children that only grows and never repeats a move.  *)
(***************************************************************************)
EXTENDS Naturals, Sequences

CONSTANT Moves
VARIABLES evaluated, list

vars == <<evaluated, list>>

Init == evaluated = FALSE /\ list = <<>>

Evaluate == ~evaluated /\ evaluated' = TRUE /\ UNCHANGED list

Add(m) == /\ evaluated
          /\ \A i \in 1..Len(list) : list[i] # m
          /\ list' = Append(list, m)
          /\ UNCHANGED evaluated

Next == Evaluate \/ \E m \in Moves : Add(m)

Spec == Init /\ [][Next]_vars
=============================================================================
