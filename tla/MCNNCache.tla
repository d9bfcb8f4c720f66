------------------------------ MODULE MCNNCache ------------------------------
(* The positions after the same first move in two directions, and a game   *)
(* that was resigned there.  All share the entry of the table.             *)
EXTENDS NNCache
LOCAL INSTANCE TLC
Corner == getSpot(0, 0)
After(dir) == [board |-> [EmptyBoard EXCEPT !.colors[Corner] = C_BLACK,
                                           !.pos_hash = {<<Corner, C_BLACK>>},
                                           !.lastLoc = [spot |-> Corner, dir |-> dir]],
               pla |-> C_WHITE, isGameFinished |-> FALSE]
MCPosition == {After(D_WEST), After(D_NORTH), [After(D_NORTH) EXCEPT !.isGameFinished = TRUE]}
MCIndex(hash) == Cardinality(hash[1]) % tableSize
MCMaySkip == {[position |-> After(D_NORTH), includeOwnerMap |-> TRUE]}
MCSymmetry == Permutations(Client) \cup Permutations(Evaluation)
=============================================================================
