--------------------------- MODULE AnalysisEngine ---------------------------
(***************************************************************************)
(* The analysis command (command/analysis.cpp): a main thread reads        *)
(* requests and orders to terminate them, analysis threads take the        *)
(* requests from a priority queue, and each has a bot of its own to search *)
(* with.  A bot is the whole of AsyncBot: its user is the analysis thread  *)
(* of the same name, and the main thread is the other thread that may call *)
(* stopWithoutWait and setKilled.                                          *)
(*                                                                         *)
(* Requests are numbered as internalIdCounter numbers them.  A request     *)
(* whose line is refused never comes into being.  out[r] is what was put   *)
(* into the write queue for r, repeated reports during the search counting *)
(* once; that queue is a ThreadSafeQueue, so it is also what is printed.   *)
(***************************************************************************)
EXTENDS AsyncBot, Integers, FiniteSetsExt, SequencesExt

CONSTANTS MaxRequests,    \* bound: requests opened in a behaviour
          Priority,       \* the priority the user gives to each request
          Reporting,      \* the requests with reportDuringSearch
          NoRequest

Request == 1..MaxRequests

ASSUME RequestAssumption ==
    /\ MaxRequests \in Nat /\ NoRequest \notin Request
    /\ Priority \in [Request -> Int] /\ Reporting \subseteq Request

\* The states of a request that no thread searches for.  In the code they are
\* the negative values of status, whose others are indices of threads.
Unassigned == {"unborn", "in_queue", "popped", "terminated"}

ASSUME StatusAssumption == Bot \cap Unassigned = {}

VARIABLES
    numRequests,      \* requests opened so far
    status,           \* status[r], the atomic of the request
    toAnalyze, toAnalyzeReadOnly,
    openRequests, deleted,
    out, writeOpen,
    threadPc, request, \* of each analysis thread
    hasResults,       \* hasResults[b]: the root of b's search has an evaluation
    mainPc, todo,     \* of the main thread; todo is what its loop has left
    victim            \* the search it is about to stop: a request and a bot

requests   == <<numRequests, status, openRequests, deleted>>
queueVars  == <<toAnalyze, toAnalyzeReadOnly>>
outVars    == <<out, writeOpen>>
threadVars == <<threadPc, request, hasResults>>
mainVars   == <<mainPc, todo, victim>>
engineVars == <<requests, queueVars, outVars, threadVars, mainVars>>
vars       == <<botVars, engineVars>>

EngineInit ==
    /\ Init
    /\ numRequests = 0
    /\ status = [r \in Request |-> "unborn"]
    /\ toAnalyze = {} /\ toAnalyzeReadOnly = FALSE
    /\ openRequests = {} /\ deleted = {}
    /\ out = [r \in Request |-> <<>>] /\ writeOpen = TRUE
    /\ threadPc = [b \in Bot |-> "pop"]
    /\ request = [b \in Bot |-> NoRequest]
    /\ hasResults = [b \in Bot |-> FALSE]
    /\ mainPc = "read" /\ todo = {} /\ victim = <<>>

\* pushToWrite: a closed queue drops the message.
Written(r, kind) ==
    IF \/ ~writeOpen
       \/ kind = "during" /\ out[r] # <<>> /\ Last(out[r]) = "during"
    THEN out[r] ELSE Append(out[r], kind)
Write(r, kind) == out' = [out EXCEPT ![r] = Written(r, kind)]

-----------------------------------------------------------------------------
(* The analysis threads.                                                   *)

ThreadGoto(b, next) == threadPc' = [threadPc EXCEPT ![b] = next]

\* The queue orders by priority, then by the order of arrival.
Precedes(r, s) == \/ Priority[r] > Priority[s]
                  \/ Priority[r] = Priority[s] /\ r < s

Pops(b) ==
    /\ threadPc[b] = "pop"
    /\ \/ /\ toAnalyze = {} /\ toAnalyzeReadOnly
          /\ ThreadGoto(b, "finished")
          /\ UNCHANGED <<toAnalyze, request>>
       \/ \E r \in toAnalyze :
            /\ \A s \in toAnalyze \ {r} : Precedes(r, s)
            /\ toAnalyze' = toAnalyze \ {r}
            /\ request' = [request EXCEPT ![b] = r]
            /\ ThreadGoto(b, "claim")
    /\ UNCHANGED <<botVars, requests, toAnalyzeReadOnly, outVars, hasResults, mainVars>>

\* The first compare_exchange: the request may be terminated already.
Claims(b) ==
    /\ threadPc[b] = "claim"
    /\ LET r == request[b] IN
       IF status[r] = "in_queue"
       THEN /\ status' = [status EXCEPT ![r] = "popped"]
            /\ ThreadGoto(b, "setup")
       ELSE UNCHANGED status /\ ThreadGoto(b, "clear")
    /\ UNCHANGED <<botVars, numRequests, openRequests, deleted, queueVars, outVars,
                   request, hasResults, mainVars>>

\* The setters before the search, as one, and clearSearch after it.
Sets(b) ==
    /\ threadPc[b] \in {"setup", "clear"}
    /\ Call(b, "set")
    /\ ThreadGoto(b, IF threadPc[b] = "setup" THEN "ask" ELSE "erase")
    /\ UNCHANGED <<requests, queueVars, outVars, request, hasResults, mainVars>>

SetterDone(b) ==
    /\ SetterReturns(b)
    /\ hasResults' = [hasResults EXCEPT ![b] = FALSE]
    /\ UNCHANGED <<requests, queueVars, outVars, threadPc, request, mainVars>>

Asks(b) ==
    /\ threadPc[b] = "ask"
    /\ Call(b, "genMoveSynchronous")
    /\ ThreadGoto(b, "report")
    /\ UNCHANGED <<requests, queueVars, outVars, request, hasResults, mainVars>>

SearchAsked(b) ==
    /\ StartsSearch(b, IF request[b] \in Reporting THEN "periodic" ELSE "none")
    /\ UNCHANGED engineVars

\* onSearchBegun: the second compare_exchange.  Its failure means that the
\* order to terminate came between the two, and the search is stopped.
BeginsAnyhow(b) ==  \* mutant of Begins: the failed exchange does not stop the search
    /\ searchPc[b] = "begin"
    /\ SearchBegins(b, FALSE)
    /\ status' = [status EXCEPT ![request[b]] = IF @ = "popped" THEN b ELSE @]
    /\ UNCHANGED <<numRequests, openRequests, deleted, queueVars, outVars,
                   threadVars, mainVars>>

Begins(b) ==
    /\ searchPc[b] = "begin"
    /\ LET r == request[b] IN
       IF status[r] = "popped"
       THEN SearchBegins(b, FALSE) /\ status' = [status EXCEPT ![r] = b]
       ELSE SearchBegins(b, TRUE) /\ UNCHANGED status
    /\ UNCHANGED <<numRequests, openRequests, deleted, queueVars, outVars,
                   threadVars, mainVars>>

\* A search that is not interrupted has evaluated its root.
Ends(b) ==
    /\ SearchEnds(b)
    /\ \E has \in BOOLEAN :
         /\ ~shouldStopNow[b] => has
         /\ hasResults' = [hasResults EXCEPT ![b] = has]
    /\ UNCHANGED <<requests, queueVars, outVars, threadPc, request, mainVars>>

\* The analysis callback; it writes nothing while there are no results yet.
ReportsDuringSearch(b) ==
    /\ CallbackReturns(b)
    /\ Write(request[b], "during") \/ UNCHANGED out
    /\ UNCHANGED <<requests, queueVars, writeOpen, threadVars, mainVars>>

Reports(b) ==
    /\ threadPc[b] = "report" /\ userPc[b] = "idle"
    /\ LET r == request[b] IN
       IF hasResults[b] THEN Write(r, "final")
       ELSE IF status[r] = "terminated" THEN Write(r, "noResults")
       ELSE UNCHANGED out
    /\ ThreadGoto(b, "clear")
    /\ UNCHANGED <<botVars, requests, queueVars, writeOpen, request, hasResults, mainVars>>

MutexFreeAtStop == mainPc # "terminate"  \* mutant of MutexFree: unlocked before the stop

MutexFree == mainPc \notin {"terminate", "stopBot"}

Erases(b) ==
    /\ threadPc[b] = "erase" /\ userPc[b] = "idle" /\ MutexFree
    /\ openRequests' = openRequests \ {request[b]}
    /\ ThreadGoto(b, "delete")
    /\ UNCHANGED <<botVars, numRequests, status, deleted, queueVars, outVars,
                   request, hasResults, mainVars>>

Deletes(b) ==
    /\ threadPc[b] = "delete"
    /\ deleted' = deleted \cup {request[b]}
    /\ request' = [request EXCEPT ![b] = NoRequest]
    /\ ThreadGoto(b, "pop")
    /\ UNCHANGED <<botVars, numRequests, status, openRequests, queueVars, outVars,
                   hasResults, mainVars>>

-----------------------------------------------------------------------------
(* The main thread.                                                        *)

MainGoto(next, left) == mainPc' = next /\ todo' = left /\ victim' = <<>>

\* The next step of a loop over todo that has come to x.
After(pc, x, done) ==
    MainGoto(IF todo = {x} THEN done ELSE pc, todo \ {x})

\* One line opens a request for each turn it names, then pushes them.
Opens ==
    /\ mainPc = "read"
    /\ \E last \in (numRequests + 1)..MaxRequests :
         LET new == (numRequests + 1)..last IN
         /\ numRequests' = last
         /\ status' = [r \in Request |-> IF r \in new THEN "in_queue" ELSE status[r]]
         /\ openRequests' = openRequests \cup new
         /\ MainGoto("push", new)
    /\ UNCHANGED <<botVars, deleted, queueVars, outVars, threadVars>>

Pushes ==
    /\ mainPc = "push"
    /\ LET r == Min(todo) IN
       /\ toAnalyze' = toAnalyze \cup {r}
       /\ After("push", r, "read")
    /\ UNCHANGED <<botVars, requests, toAnalyzeReadOnly, outVars, threadVars>>

\* terminate and terminate_all, for the open requests that the order names.
\* The map is walked under openRequestsMutex.  An order that finds only requests
\* that are terminated already changes nothing and is left out.
OrdersTermination ==
    /\ mainPc = "read"
    /\ \E named \in SUBSET openRequests :
         /\ \E r \in named : status[r] # "terminated"
         /\ MainGoto("terminate", named)
    /\ UNCHANGED <<botVars, requests, queueVars, outVars, threadVars>>

\* mutant of TerminatesNext: answers a popped request, which its thread does too
TerminatesAndAnswers ==
    /\ mainPc = "terminate"
    /\ LET r == Min(todo)
           previous == status[r]
       IN  /\ status' = [status EXCEPT ![r] = "terminated"]
           /\ IF previous \in {"in_queue", "popped"} THEN Write(r, "noResults")
              ELSE UNCHANGED out
           /\ IF previous \in Bot
              THEN mainPc' = "stopBot" /\ victim' = <<r, previous>> /\ UNCHANGED todo
              ELSE After("terminate", r, "read")
    /\ UNCHANGED <<botVars, numRequests, openRequests, deleted, queueVars, writeOpen,
                   threadVars>>

\* terminateRequest up to the stop: the exchange tells who must answer.
TerminatesNext ==
    /\ mainPc = "terminate"
    /\ LET r == Min(todo)
           previous == status[r]
       IN  /\ status' = [status EXCEPT ![r] = "terminated"]
           /\ IF previous = "in_queue" THEN Write(r, "noResults") ELSE UNCHANGED out
           /\ IF previous \in Bot
              THEN mainPc' = "stopBot" /\ victim' = <<r, previous>> /\ UNCHANGED todo
              ELSE After("terminate", r, "read")
    /\ UNCHANGED <<botVars, numRequests, openRequests, deleted, queueVars, writeOpen,
                   threadVars>>

StopsBot ==
    /\ mainPc = "stopBot"
    /\ stopWithoutWait(victim[2])
    /\ After("terminate", victim[1], "read")
    /\ UNCHANGED <<requests, queueVars, outVars, threadVars>>

\* The end of the input, with or without quitWithoutWaiting.
Closes ==
    /\ mainPc = "read"
    /\ toAnalyzeReadOnly' = TRUE
    /\ \/ writeOpen' = FALSE /\ MainGoto("stopAll", Bot)
       \/ writeOpen' = writeOpen /\ MainGoto("join", {})
    /\ UNCHANGED <<botVars, requests, toAnalyze, out, threadVars>>

\* First every bot is stopped, then every bot is killed, in any order.
StopsAll ==
    /\ mainPc \in {"stopAll", "killAll"}
    /\ \E b \in todo :
         IF mainPc = "stopAll"
         THEN /\ stopWithoutWait(b)
              /\ IF todo = {b} THEN MainGoto("killAll", Bot)
                 ELSE MainGoto("stopAll", todo \ {b})
         ELSE setKilled(b) /\ After("killAll", b, "join")
    /\ UNCHANGED <<requests, queueVars, outVars, threadVars>>

\* The threads are joined and the bots are deleted.
JoinsAndDeletes ==
    /\ mainPc = "join"
    /\ \A b \in Bot : threadPc[b] = "finished"
    /\ \E b \in Bot : Call(b, "destroy")
    /\ UNCHANGED engineVars

-----------------------------------------------------------------------------
\* The steps of a bot's threads that do not touch the engine.
CallGoesOn(b) ==
    /\ \/ waitForSearchToEnd(b) \/ StopReturns(b) \/ StartsNothing(b)
       \/ NotifiesSearch(b) \/ AwaitsMove(b) \/ Destroys(b)
    /\ UNCHANGED engineVars

RoundGoesOn(b) ==
    /\ \/ SearchSleeps(b) \/ SearchExits(b) \/ SearchTakes(b) \/ SearchAnnounces(b)
       \/ SearchStopsLoop(b) \/ SearchJoins(b) \/ SearchFinishes(b)
    /\ UNCHANGED engineVars

LoopGoesOn(b) ==
    /\ CallbackAwaitsBegin(b) \/ CallbackWaitEnds(b)
    /\ UNCHANGED engineVars

ThreadGoesOn(b) ==
    \/ CallGoesOn(b) \/ SearchAsked(b) \/ SetterDone(b)
    \/ Pops(b) \/ Claims(b) \/ Sets(b) \/ Asks(b)
    \/ Reports(b) \/ Erases(b) \/ Deletes(b)

\* A search that nobody stops may go on for ever.
SearchThread(b) == RoundGoesOn(b) \/ Begins(b) \/ (shouldStopNow[b] /\ Ends(b))

MainGoesOn == Pushes \/ TerminatesNext \/ StopsBot \/ StopsAll \/ JoinsAndDeletes

EngineNext ==
    \/ Opens \/ OrdersTermination \/ Closes \/ MainGoesOn
    \/ \E b \in Bot :
         \/ ThreadGoesOn(b) \/ SearchThread(b) \/ Ends(b)
         \/ LoopGoesOn(b) \/ ReportsDuringSearch(b)

\* Every thread runs.  Nobody has to ask, to terminate or to close.
EngineFairness ==
    /\ WF_vars(MainGoesOn)
    /\ \A b \in Bot : /\ WF_vars(ThreadGoesOn(b))
                      /\ WF_vars(SearchThread(b))
                      /\ WF_vars(LoopGoesOn(b) \/ ReportsDuringSearch(b))

EngineSpec == EngineInit /\ [][EngineNext]_vars /\ EngineFairness

-----------------------------------------------------------------------------
(* What the engine promises.                                               *)

EngineTypeOK ==
    /\ TypeOK
    /\ numRequests \in 0..MaxRequests
    /\ status \in [Request -> Unassigned \cup Bot]
    /\ toAnalyze \subseteq Request /\ toAnalyzeReadOnly \in BOOLEAN
    /\ openRequests \subseteq Request /\ deleted \subseteq Request
    /\ out \in [Request -> Seq({"during", "final", "noResults"})] /\ writeOpen \in BOOLEAN
    /\ threadPc \in [Bot -> {"pop", "claim", "setup", "ask", "report", "clear",
                             "erase", "delete", "finished"}]
    /\ request \in [Bot -> Request \cup {NoRequest}]
    /\ hasResults \in [Bot -> BOOLEAN]
    /\ mainPc \in {"read", "push", "terminate", "stopBot", "stopAll", "killAll", "join"}
    /\ todo \subseteq Request \cup Bot
    /\ victim = <<>> \/ victim \in Request \X Bot

\* A request is freed only when nobody can reach it: not the map that an order
\* to terminate walks, not the walk itself, not the queue, not a callback of
\* the search it was given to.
FreedIsUnreachable ==
    /\ deleted \cap (openRequests \cup toAnalyze) = {}
    /\ mainPc \in {"push", "terminate", "stopBot"} => todo \cap deleted = {}
    /\ \A b \in Bot : callbackPc[b] \in {"period", "calling"} => request[b] \in openRequests

\* The order to terminate a request stops the search for that request and no
\* other: between reading the bot from the status and stopping that bot, the
\* thread may finish the request but not take the next one.
StopHitsItsRequest ==
    mainPc = "stopBot" => request[victim[2]] = victim[1]

IsAnswered(r) == \E i \in DOMAIN out[r] : out[r][i] # "during"

\* Each request that is over was answered by exactly one last message, as
\* docs/Analysis_Engine.md promises even of one that is terminated, and no
\* report of its search comes after it; only quitWithoutWaiting may drop it.
AnsweredOnce ==
    \A r \in Request :
        /\ \A i \in DOMAIN out[r] : out[r][i] # "during" => i = Len(out[r])
        /\ r \in deleted /\ writeOpen => IsAnswered(r)

\* A request that the user terminates is answered, wherever the order finds it
\* and though its search might go on for ever.
TerminatedIsAnswered ==
    \A r \in Request : []<>(status[r] = "terminated" /\ writeOpen => IsAnswered(r))

\* After the input has ended, quitWithoutWaiting brings every thread home and
\* every bot down.
QuitEnds ==
    []<>(~writeOpen => \A b \in Bot : threadPc[b] = "finished" /\ userPc[b] = "deleted")

\* Whoever is told to end, ends: a request by the order to terminate it, all
\* of the command by quitWithoutWaiting.
RequestsEnd == TerminatedIsAnswered /\ QuitEnds
=============================================================================
