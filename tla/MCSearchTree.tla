---------------------------- MODULE MCSearchTree ----------------------------
(* Two positions that both lead to a third, and lead to each other.        *)
EXTENDS SearchTree
CONSTANTS n1, n2, n3
MCShardOf == [n \in Node |-> IF n = n1 THEN 0 ELSE IF n = n2 THEN 1 ELSE 2]
MCLeadsTo == [v \in Vertex |-> IF v = Root THEN {n1}
                               ELSE IF v = n1 THEN {n2, n3}
                               ELSE IF v = n2 THEN {n1, n3} ELSE {}]
=============================================================================
