---------------------------- MODULE MCCoffeeBoard ----------------------------
(* The two components on the board of Coffee, in one state space: a game,   *)
(* or the cache of the evaluator that is asked for positions of games.     *)
EXTENDS BoardHistory, MCNNCache

BoardInit == Init /\ CacheInit
BoardNext == \/ CacheInit /\ Next /\ UNCHANGED cacheVars
             \/ Init /\ CacheNext /\ UNCHANGED vars
BoardSpec == BoardInit /\ [][BoardNext]_<<vars, cacheVars>>
=============================================================================
