--------------------------- MODULE MCBotCommands ---------------------------
(* Three requests: the second is the most urgent one and reports as it goes. *)
(* Five positions, one of which is reached in two ways; the first run of     *)
(* genbook may expand two of them at the same time, the second one more.     *)
EXTENDS BotCommands
MCPriority == <<0, 1, 0>>
MCSucc == <<{2, 3}, {4}, {4, 5}, {}, {}>>
MCNumIterations == <<3, 1>>
=============================================================================
