---------------------------- MODULE BotCommands ----------------------------
(***************************************************************************)
(* The commands that search positions they are given or choose.  The first *)
(* argument of the program names one (handleSubcommand in main.cpp):       *)
(* analysis, which is AnalysisEngine; one of those that make their calls   *)
(* from one thread and in any order, of which gtp is the chief one: there  *)
(* the bot is AsyncBot with no more said about its user; or genbook, whose *)
(* threads call Search themselves, which is GenBook.                       *)
(***************************************************************************)
EXTENDS AnalysisEngine, GenBook

VARIABLE subcommand

commandVars == <<vars, bookVars, subcommand>>

handleSubcommand == EngineInit /\ BookInit /\ subcommand \in {"analysis", "gtp", "genbook"}

analysis(A) == subcommand = "analysis" /\ A /\ UNCHANGED <<bookVars, subcommand>>
gtp(A)      == subcommand = "gtp" /\ A /\ UNCHANGED <<engineVars, bookVars, subcommand>>
genbook(A)  == subcommand = "genbook" /\ A /\ UNCHANGED <<vars, subcommand>>

CommandNext == analysis(EngineNext) \/ gtp(Next) \/ genbook(BookNext)

\* The fairness of AsyncBot, of AnalysisEngine and of GenBook.
CommandFairness ==
    /\ WF_commandVars(analysis(MainGoesOn) \/ genbook(ExpandsBook))
    /\ \A t \in GameThread : WF_commandVars(genbook(loopExpandingNodes(t)))
    /\ \A b \in Bot :
         /\ WF_commandVars(analysis(ThreadGoesOn(b)) \/ gtp(UserGoesOn(b)))
         /\ WF_commandVars(analysis(SearchThread(b)) \/ gtp(SearchGoesOn(b)))
         /\ WF_commandVars(gtp(\E stops \in BOOLEAN : SearchBegins(b, stops)))
         /\ WF_commandVars(\/ analysis(LoopGoesOn(b) \/ ReportsDuringSearch(b))
                           \/ gtp(CallbackGoesOn(b)))

CommandSpec == handleSubcommand /\ [][CommandNext]_commandVars /\ CommandFairness

-----------------------------------------------------------------------------
\* A request is not used after it was freed, nor stopped in place of another
\* one, with the thread that analyses it and the thread that terminates it at
\* work on it at the same time (analysis.cpp:393 and 420).
RequestsAreSafe ==
    /\ EngineTypeOK
    /\ subcommand = "analysis" => FreedIsUnreachable /\ StopHitsItsRequest

\* Every call comes back and whoever is told to end, ends, however a stop, a
\* kill or a termination meets the start and the end of a search: the calls of
\* the user, the requests, the analysis command after quitWithoutWaiting, and
\* genbook, with its book saved.
EveryCallEnds ==
    /\ CallsReturn /\ RequestsEnd
    /\ subcommand = "genbook" => BookIsSaved
=============================================================================
