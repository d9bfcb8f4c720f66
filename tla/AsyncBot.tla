------------------------------ MODULE AsyncBot ------------------------------
(***************************************************************************)
(* AsyncBot (search/asyncbot.cpp): a user thread asks for searches, a      *)
(* search thread runs them one after the other, and a search that reports  *)
(* while it runs has a callback thread of its own.                         *)
(*                                                                         *)
(* There are several bots, each with its own threads; every variable is a  *)
(* function over Bot.  A critical section of controlMutex is one step, and *)
(* so is a piece of code between two of them that other threads can        *)
(* observe.  asleep[b] holds the threads of b that wait on a condition     *)
(* variable: each of them waits on one at most, so a notification is the   *)
(* removal of the thread that may wait there.                              *)
(*                                                                         *)
(* One thread, the user, makes the calls that asyncbot.h says are          *)
(* single-threaded; stopWithoutWait and setKilled may come from any thread *)
(* at any time.  owed is not in the code: it says that a move was promised *)
(* and onMove not called yet.                                              *)
(***************************************************************************)
CONSTANTS Bot,
          Callbacks   \* the kinds of analysis callback the user may ask for

VARIABLES isRunning, isKilled, shouldStopNow, queuedOnMove, analyzeCallback,
          searchPc, isSearchBegun, callbackPc, callbackLoopShouldStop,
          asleep, userPc, userCall, owed

control == <<isRunning, isKilled, queuedOnMove, analyzeCallback, owed>>
loop    == <<isSearchBegun, callbackPc, callbackLoopShouldStop>>
user    == <<userPc, userCall>>
botVars == <<control, shouldStopNow, searchPc, loop, asleep, user>>

\* "once": no period, so the loop returns after the first callback;
\* "skip": a period but no first time, so it returns before it.
CallbackKind == {"none", "once", "periodic", "skip"}

ASSUME CallbacksAssumption == Callbacks \subseteq CallbackKind

\* The calls that start a search, and "set", which stands for every call
\* that waits for a full stop and then works on the search itself.
Starts == {"genMoveAsync", "genMoveSynchronous", "analyzeAsync", "ponder"}
Calls  == Starts \cup {"set", "stopAndWait", "destroy"}

Init ==
    /\ isRunning = [b \in Bot |-> FALSE]
    /\ isKilled = [b \in Bot |-> FALSE]
    /\ shouldStopNow = [b \in Bot |-> FALSE]
    /\ queuedOnMove = [b \in Bot |-> FALSE]
    /\ analyzeCallback = [b \in Bot |-> "none"]
    /\ owed = [b \in Bot |-> FALSE]
    /\ searchPc = [b \in Bot |-> "top"]
    /\ isSearchBegun = [b \in Bot |-> FALSE]
    /\ callbackPc = [b \in Bot |-> "none"]
    /\ callbackLoopShouldStop = [b \in Bot |-> FALSE]
    /\ asleep = [b \in Bot |-> {}]
    /\ userPc = [b \in Bot |-> "idle"]
    /\ userCall = [b \in Bot |-> "none"]

Awake(b, t) == t \notin asleep[b]
Sleep(b, t) == asleep' = [asleep EXCEPT ![b] = @ \cup {t}]
Notify(b, t) == asleep' = [asleep EXCEPT ![b] = @ \ {t}]

-----------------------------------------------------------------------------
(* The user.                                                               *)

\* Every call but ponder stores shouldStopNow and then waits while a search
\* runs.  Calls that start a search do both under the mutex: no step that the
\* mutex excludes reads shouldStopNow, so the store may come apart.
Call(b, call) ==
    /\ userPc[b] = "idle"
    /\ userPc' = [userPc EXCEPT ![b] = "wait"]
    /\ userCall' = [userCall EXCEPT ![b] = call]
    /\ shouldStopNow' = [shouldStopNow EXCEPT ![b] = @ \/ call # "ponder"]
    /\ UNCHANGED <<control, searchPc, loop, asleep>>

waitForSearchToEnd(b) ==
    /\ userPc[b] = "wait" /\ Awake(b, "user")
    /\ isRunning[b] /\ userCall[b] # "ponder"
    /\ Sleep(b, "user")
    /\ UNCHANGED <<control, shouldStopNow, searchPc, loop, user>>

\* mutant of Stopped: the order to stop is taken for the stop
StoppedOrTold(b) ==
    userPc[b] = "wait" /\ Awake(b, "user") /\ (isRunning[b] => shouldStopNow[b])

Stopped(b) == userPc[b] = "wait" /\ Awake(b, "user") /\ ~isRunning[b]

Return(b, next) ==
    /\ userPc' = [userPc EXCEPT ![b] = next]
    /\ UNCHANGED <<control, shouldStopNow, searchPc, loop, asleep, userCall>>

\* The wait is over; the caller goes on, without the mutex.
StopReturns(b) ==
    /\ Stopped(b)
    /\ \/ userCall[b] \in {"stopAndWait", "result"} /\ Return(b, "idle")
       \/ userCall[b] = "set" /\ Return(b, "mutate")
       \/ userCall[b] = "destroy" /\ Return(b, "kill")

\* setPosition, makeMove, clearSearch and the other setters.
SetterReturns(b) == userPc[b] = "mutate" /\ Return(b, "idle")

StartsNothing(b) ==
    /\ userPc[b] = "wait" /\ Awake(b, "user") /\ userCall[b] \in Starts
    /\ IF userCall[b] = "ponder" THEN isRunning[b] \/ isKilled[b]
                                 ELSE ~isRunning[b] /\ isKilled[b]
    /\ Return(b, IF userCall[b] = "genMoveSynchronous" THEN "result" ELSE "idle")

\* mutant of StartsSearch: onMove is not reset by the calls that have none
StartsSearchKeepingMove(b, callback) ==
    /\ Stopped(b) /\ ~isKilled[b] /\ userCall[b] \in Starts
    /\ isRunning' = [isRunning EXCEPT ![b] = TRUE]
    /\ shouldStopNow' = [shouldStopNow EXCEPT ![b] = FALSE]
    /\ LET hasMove == userCall[b] \in {"genMoveAsync", "genMoveSynchronous"}
       IN  /\ queuedOnMove' = [queuedOnMove EXCEPT ![b] = @ \/ hasMove]
           /\ owed' = [owed EXCEPT ![b] = hasMove]
    /\ analyzeCallback' =
         [analyzeCallback EXCEPT ![b] = IF userCall[b] = "ponder" THEN "none" ELSE callback]
    /\ userPc' = [userPc EXCEPT ![b] = "notify"]
    /\ UNCHANGED <<isKilled, searchPc, loop, asleep, userCall>>

StartsSearch(b, callback) ==
    /\ Stopped(b) /\ ~isKilled[b] /\ userCall[b] \in Starts
    /\ isRunning' = [isRunning EXCEPT ![b] = TRUE]
    /\ shouldStopNow' = [shouldStopNow EXCEPT ![b] = FALSE]
    /\ LET hasMove == userCall[b] \in {"genMoveAsync", "genMoveSynchronous"}
       IN  /\ queuedOnMove' = [queuedOnMove EXCEPT ![b] = hasMove]
           /\ owed' = [owed EXCEPT ![b] = hasMove]
    /\ analyzeCallback' =
         [analyzeCallback EXCEPT ![b] = IF userCall[b] = "ponder" THEN "none" ELSE callback]
    /\ userPc' = [userPc EXCEPT ![b] = "notify"]
    /\ UNCHANGED <<isKilled, searchPc, loop, asleep, userCall>>

\* After the mutex is released.
NotifiesSearch(b) ==
    /\ userPc[b] = "notify"
    /\ Notify(b, "search")
    /\ userPc' = [userPc EXCEPT ![b] = IF userCall[b] = "genMoveSynchronous"
                                       THEN "result" ELSE "idle"]
    /\ UNCHANGED <<control, shouldStopNow, searchPc, loop, userCall>>

\* genMoveSynchronous goes on to wait for the move, without a stop.
AwaitsMove(b) ==
    /\ userPc[b] = "result"
    /\ userPc' = [userPc EXCEPT ![b] = "wait"]
    /\ userCall' = [userCall EXCEPT ![b] = "result"]
    /\ UNCHANGED <<control, shouldStopNow, searchPc, loop, asleep>>

\* The destructor, once the search has stopped.
Destroys(b) ==
    /\ \/ /\ userPc[b] = "kill"
          /\ isKilled' = [isKilled EXCEPT ![b] = TRUE]
          /\ Notify(b, "search")
          /\ userPc' = [userPc EXCEPT ![b] = "join"]
       \/ /\ userPc[b] = "join" /\ searchPc[b] = "exited"
          /\ userPc' = [userPc EXCEPT ![b] = "deleted"]
          /\ UNCHANGED <<isKilled, asleep>>
    /\ UNCHANGED <<isRunning, queuedOnMove, analyzeCallback, owed,
                   shouldStopNow, searchPc, loop, userCall>>

-----------------------------------------------------------------------------
(* Any other thread, while the bot exists.                                 *)

stopWithoutWait(b) ==
    /\ userPc[b] # "deleted"
    /\ shouldStopNow' = [shouldStopNow EXCEPT ![b] = TRUE]
    /\ UNCHANGED <<control, searchPc, loop, asleep, user>>

setKilled(b) ==
    /\ userPc[b] # "deleted"
    /\ isKilled' = [isKilled EXCEPT ![b] = TRUE]
    /\ shouldStopNow' = [shouldStopNow EXCEPT ![b] = TRUE]
    /\ Notify(b, "search")
    /\ UNCHANGED <<isRunning, queuedOnMove, analyzeCallback, owed, searchPc, loop, user>>

-----------------------------------------------------------------------------
(* The search thread.                                                      *)

SearchGoto(b, next) == searchPc' = [searchPc EXCEPT ![b] = next]

SearchSleeps(b) ==
    /\ searchPc[b] = "top" /\ Awake(b, "search")
    /\ ~isRunning[b] /\ ~isKilled[b]
    /\ Sleep(b, "search")
    /\ UNCHANGED <<control, shouldStopNow, searchPc, loop, user>>

SearchExits(b) ==
    /\ searchPc[b] = "top" /\ Awake(b, "search") /\ isKilled[b]
    /\ isRunning' = [isRunning EXCEPT ![b] = FALSE]
    /\ Notify(b, "user")
    /\ SearchGoto(b, "exited")
    /\ UNCHANGED <<isKilled, queuedOnMove, analyzeCallback, owed, shouldStopNow, loop, user>>

UsesCallbackLoop(b) == analyzeCallback[b] # "none"

\* The locals of a round are fresh and, with a callback, its thread is started.
SearchTakes(b) ==
    /\ searchPc[b] = "top" /\ Awake(b, "search")
    /\ isRunning[b] /\ ~isKilled[b]
    /\ SearchGoto(b, "begin")
    /\ isSearchBegun' = [isSearchBegun EXCEPT ![b] = FALSE]
    /\ callbackLoopShouldStop' = [callbackLoopShouldStop EXCEPT ![b] = FALSE]
    /\ callbackPc' = [callbackPc EXCEPT ![b] = IF UsesCallbackLoop(b) THEN "start" ELSE "none"]
    /\ UNCHANGED <<control, shouldStopNow, asleep, user>>

\* runWholeSearch has prepared the root and calls searchBegun, which calls the
\* user's searchBegunCallback first: it may call stopWithoutWait.
SearchBegins(b, stops) ==
    /\ searchPc[b] = "begin"
    /\ SearchGoto(b, IF UsesCallbackLoop(b) THEN "announce" ELSE "search")
    /\ shouldStopNow' = [shouldStopNow EXCEPT ![b] = @ \/ stops]
    /\ UNCHANGED <<control, loop, asleep, user>>

SearchAnnounces(b) ==
    /\ searchPc[b] = "announce"
    /\ isSearchBegun' = [isSearchBegun EXCEPT ![b] = TRUE]
    /\ Notify(b, "callback")
    /\ SearchGoto(b, "search")
    /\ UNCHANGED <<control, shouldStopNow, callbackPc, callbackLoopShouldStop, user>>

\* Some search thread has reached a limit or seen shouldStopNow; it stores
\* shouldStopNow so that the others stop too, and they are joined.
SearchEnds(b) ==
    /\ searchPc[b] = "search"
    /\ shouldStopNow' = [shouldStopNow EXCEPT ![b] = TRUE]
    /\ SearchGoto(b, IF UsesCallbackLoop(b) THEN "stopLoop" ELSE "finish")
    /\ UNCHANGED <<control, loop, asleep, user>>

SearchStopsLoop(b) ==
    /\ searchPc[b] = "stopLoop"
    /\ callbackLoopShouldStop' = [callbackLoopShouldStop EXCEPT ![b] = TRUE]
    /\ Notify(b, "callback")
    /\ SearchGoto(b, "join")
    /\ UNCHANGED <<control, shouldStopNow, isSearchBegun, callbackPc, user>>

\* mutant of SearchJoins: the callback thread is told to stop but not joined
SearchDetaches(b) ==
    /\ searchPc[b] = "join" /\ callbackLoopShouldStop[b]
    /\ SearchGoto(b, "finish")
    /\ UNCHANGED <<control, shouldStopNow, loop, asleep, user>>

SearchJoins(b) ==
    /\ searchPc[b] = "join" /\ callbackPc[b] = "done"
    /\ SearchGoto(b, "finish")
    /\ UNCHANGED <<control, shouldStopNow, loop, asleep, user>>

SearchFinishes(b) ==
    /\ searchPc[b] = "finish"
    /\ owed' = [owed EXCEPT ![b] = @ /\ ~queuedOnMove[b]]
    /\ isRunning' = [isRunning EXCEPT ![b] = FALSE]
    /\ Notify(b, "user")
    /\ SearchGoto(b, "top")
    /\ UNCHANGED <<isKilled, queuedOnMove, analyzeCallback, shouldStopNow, loop, user>>

-----------------------------------------------------------------------------
(* The callback thread of one search.                                      *)

CallbackGoto(b, next) ==
    /\ callbackPc' = [callbackPc EXCEPT ![b] = next]
    /\ UNCHANGED <<control, shouldStopNow, searchPc, isSearchBegun,
                   callbackLoopShouldStop, user>>

\* It tests callbackLoopShouldStop after a wait, not before the first one.
CallbackAwaitsBegin(b) ==
    /\ callbackPc[b] \in {"start", "woken"} /\ Awake(b, "callback")
    /\ \/ /\ callbackPc[b] = "woken" /\ callbackLoopShouldStop[b]
          /\ CallbackGoto(b, "done") /\ UNCHANGED asleep
       \/ /\ ~(callbackPc[b] = "woken" /\ callbackLoopShouldStop[b])
          /\ IF isSearchBegun[b]
             THEN /\ CallbackGoto(b, IF analyzeCallback[b] = "skip" THEN "done" ELSE "period")
                  /\ UNCHANGED asleep
             ELSE CallbackGoto(b, "woken") /\ Sleep(b, "callback")

\* wait_for ends by time or by the notification, whatever comes first.
CallbackWaitEnds(b) ==
    /\ callbackPc[b] = "period"
    /\ CallbackGoto(b, IF callbackLoopShouldStop[b] THEN "done" ELSE "calling")
    /\ UNCHANGED asleep

CallbackReturns(b) ==
    /\ callbackPc[b] = "calling"
    /\ CallbackGoto(b, IF analyzeCallback[b] = "once" THEN "done" ELSE "period")
    /\ UNCHANGED asleep

-----------------------------------------------------------------------------
UserGoesOn(b) ==
    \/ waitForSearchToEnd(b) \/ StopReturns(b) \/ SetterReturns(b)
    \/ StartsNothing(b) \/ NotifiesSearch(b) \/ AwaitsMove(b) \/ Destroys(b)
    \/ \E callback \in Callbacks : StartsSearch(b, callback)

SearchGoesOn(b) ==
    \/ SearchSleeps(b) \/ SearchExits(b) \/ SearchTakes(b)
    \/ SearchAnnounces(b) \/ SearchStopsLoop(b) \/ SearchJoins(b) \/ SearchFinishes(b)
    \/ shouldStopNow[b] /\ SearchEnds(b)

CallbackGoesOn(b) ==
    CallbackAwaitsBegin(b) \/ CallbackWaitEnds(b) \/ CallbackReturns(b)

Next == \E b \in Bot :
    \/ \E call \in Calls : Call(b, call)
    \/ UserGoesOn(b)
    \/ stopWithoutWait(b) \/ setKilled(b)
    \/ SearchGoesOn(b) \/ SearchEnds(b)
    \/ \E stops \in BOOLEAN : SearchBegins(b, stops)
    \/ CallbackGoesOn(b)

\* Threads run; a search ends if shouldStopNow is set and, otherwise, it may
\* go on for ever.  The user need not call anything.
Fairness == \A b \in Bot :
    /\ WF_botVars(UserGoesOn(b))
    /\ WF_botVars(SearchGoesOn(b))
    /\ WF_botVars(\E stops \in BOOLEAN : SearchBegins(b, stops))
    /\ WF_botVars(CallbackGoesOn(b))

Spec == Init /\ [][Next]_botVars /\ Fairness

-----------------------------------------------------------------------------
(* What the bot promises.                                                  *)

TypeOK ==
    /\ isRunning \in [Bot -> BOOLEAN] /\ isKilled \in [Bot -> BOOLEAN]
    /\ shouldStopNow \in [Bot -> BOOLEAN] /\ queuedOnMove \in [Bot -> BOOLEAN]
    /\ analyzeCallback \in [Bot -> CallbackKind] /\ owed \in [Bot -> BOOLEAN]
    /\ searchPc \in [Bot -> {"top", "begin", "announce", "search", "stopLoop",
                             "join", "finish", "exited"}]
    /\ isSearchBegun \in [Bot -> BOOLEAN]
    /\ callbackPc \in [Bot -> {"none", "start", "woken", "period", "calling", "done"}]
    /\ callbackLoopShouldStop \in [Bot -> BOOLEAN]
    /\ asleep \in [Bot -> SUBSET {"user", "search", "callback"}]
    /\ userPc \in [Bot -> {"idle", "wait", "mutate", "notify", "result",
                           "kill", "join", "deleted"}]
    /\ userCall \in [Bot -> Calls \cup {"none", "result"}]

\* No thread of the bot is at work on the search object: the search thread is
\* between two rounds, or has returned, and no callback can run any more.
Quiet(b) == searchPc[b] \in {"top", "exited"} /\ callbackPc[b] \in {"none", "done"}

\* While a setter changes the search, and once the destructor has freed it,
\* neither the search thread nor a callback uses it (asyncbot.h:37: "Calling
\* any of these will stop any ongoing search, waiting for a full stop").
UserHasSearchAlone ==
    \A b \in Bot : userPc[b] \in {"mutate", "deleted"} => Quiet(b)

\* analyzeCallback is called only with a search that has begun and whose
\* round is not over: the callback thread learns of the begin and of the end
\* under controlMutex, the search goes on without it.
CallbackSeesItsSearch ==
    \A b \in Bot : callbackPc[b] = "calling" =>
        isSearchBegun[b] /\ searchPc[b] \in {"search", "stopLoop", "join"}

\* onMove is called once for each genMove the bot has accepted, before it is
\* idle again, and never for a ponder or an analysis that comes later; only a
\* bot that is killed may drop the move.
MoveIsReportedOnce ==
    \A b \in Bot : \/ owed[b] <=> (isRunning[b] /\ queuedOnMove[b])
                   \/ isKilled[b] /\ searchPc[b] = "exited"

\* Every call comes back, however the stop meets the start, the end or the
\* callbacks of the search; only a genMoveSynchronous may stay for a search
\* that nobody stops.  And a kill is never lost: if it meets a genMove that has
\* just reset shouldStopNow, the search still ends, and no other one starts.
CallsReturn ==
    \A b \in Bot :
        /\ []<>(\/ userPc[b] \in {"idle", "deleted"}
                \/ userCall[b] = "result" /\ ~shouldStopNow[b])
        /\ []<>(isKilled[b] => searchPc[b] = "exited" /\ ~isRunning[b])
=============================================================================
