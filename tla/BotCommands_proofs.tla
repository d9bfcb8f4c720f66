------------------------- MODULE BotCommands_proofs -------------------------
(***************************************************************************)
(* What AsyncBot promises, for any number of bots and any callbacks, and   *)
(* what the analysis command adds to it, for any number of requests.       *)
(*                                                                         *)
(* No promise is inductive alone.  Of a bot, Sound says what isRunning     *)
(* tells of the search thread, what the search thread has left of the      *)
(* callback thread at each of its steps, and that a user who was told that *)
(* the search has stopped is the only one who can start another.  Of the   *)
(* command, EngineSound says where each request is: with the main thread,  *)
(* in the queue, or with the one thread that works on it, whose bot runs   *)
(* only while the thread waits for the result; and what its status and its *)
(* output tell of that.                                                    *)
(***************************************************************************)
EXTENDS BotCommands, FoldFacts, FiniteSetTheorems, TLAPS

\* The search thread is in a round while isRunning, and only a kill ends it.
Round(b) ==
    /\ ~isRunning[b] => searchPc[b] \in {"top", "exited"}
    /\ searchPc[b] = "exited" => isKilled[b] /\ ~isRunning[b]

\* The callback thread lives in a round and reports after the begin.
Loop(b) ==
    /\ searchPc[b] \in {"top", "finish", "exited"} => callbackPc[b] \in {"none", "done"}
    /\ searchPc[b] \in {"begin", "announce", "search"} /\ ~UsesCallbackLoop(b)
         => callbackPc[b] = "none"
    /\ searchPc[b] \in {"begin", "announce"} => ~isSearchBegun[b]
    /\ callbackPc[b] \in {"period", "calling"} => isSearchBegun[b]

\* Nobody starts a search while the one user works on what he has stopped.
HasStopped(b) == userPc[b] \in {"mutate", "kill", "join", "deleted"} => ~isRunning[b]

\* A promised move is the move of the search that runs.
Owes(b) == \/ owed[b] <=> (isRunning[b] /\ queuedOnMove[b])
           \/ isKilled[b] /\ searchPc[b] = "exited"

\* What is known of one bot, and of all.
Sound(b) == Round(b) /\ Loop(b) /\ HasStopped(b) /\ Owes(b)
AllSound == \A b \in Bot : Sound(b)
\* The inductive invariant of the bots.
IInv == TypeOK /\ AllSound

-----------------------------------------------------------------------------
\* A new bot is sound: its search thread waits at the top.
LEMMA InitSound == Init => IInv
  BY DEF Init, IInv, AllSound, TypeOK, Sound, Round, Loop, HasStopped, Owes,
         CallbackKind, UsesCallbackLoop

\* A step of the user.
LEMMA UserStep ==
  ASSUME IInv, NEW b \in Bot,
         \/ UserGoesOn(b)
         \/ \E call \in Calls : Call(b, call)
         \/ \E callback \in CallbackKind : StartsSearch(b, callback)
  PROVE  IInv'
<1> USE DEF IInv, AllSound, TypeOK, Awake, Sleep, Notify, control, loop, user
<1>1. ASSUME NEW call \in Calls, Call(b, call) PROVE IInv'
  <2>1. TypeOK' BY <1>1 DEF Call
  <2>2. AllSound'
    BY <1>1 DEF Call, Sound, Round, Loop, HasStopped, Owes, UsesCallbackLoop
  <2> QED BY <2>1, <2>2
<1>2. CASE waitForSearchToEnd(b)
  <2>1. TypeOK' BY <1>2 DEF waitForSearchToEnd
  <2>2. AllSound'
    BY <1>2 DEF waitForSearchToEnd, Sound, Round, Loop, HasStopped, Owes, UsesCallbackLoop
  <2> QED BY <2>1, <2>2
<1>3. CASE StopReturns(b)
  <2>1. TypeOK' BY <1>3 DEF StopReturns, Return
  <2>2. AllSound'
    BY <1>3 DEF StopReturns, Stopped, Return, Sound, Round, Loop, HasStopped, Owes, UsesCallbackLoop
  <2> QED BY <2>1, <2>2
<1>4. CASE SetterReturns(b)
  <2>1. TypeOK' BY <1>4 DEF SetterReturns, Return
  <2>2. AllSound'
    BY <1>4 DEF SetterReturns, Return, Sound, Round, Loop, HasStopped, Owes, UsesCallbackLoop
  <2> QED BY <2>1, <2>2
<1>5. CASE StartsNothing(b)
  <2>1. TypeOK' BY <1>5 DEF StartsNothing, Return
  <2>2. AllSound'
    BY <1>5 DEF StartsNothing, Return, Sound, Round, Loop, HasStopped, Owes, UsesCallbackLoop
  <2> QED BY <2>1, <2>2
<1>6. CASE NotifiesSearch(b)
  <2>1. TypeOK' BY <1>6 DEF NotifiesSearch
  <2>2. AllSound'
    BY <1>6 DEF NotifiesSearch, Sound, Round, Loop, HasStopped, Owes, UsesCallbackLoop
  <2> QED BY <2>1, <2>2
<1>7. CASE AwaitsMove(b)
  <2>1. TypeOK' BY <1>7 DEF AwaitsMove
  <2>2. AllSound'
    BY <1>7 DEF AwaitsMove, Sound, Round, Loop, HasStopped, Owes, UsesCallbackLoop
  <2> QED BY <2>1, <2>2
<1>8. CASE Destroys(b)
  <2>1. TypeOK'
    <3>1. userPc' \in [Bot -> {"idle", "wait", "mutate", "notify", "result",
                               "kill", "join", "deleted"}]
      BY <1>8 DEF Destroys
    <3>2. isKilled' \in [Bot -> BOOLEAN]
      BY <1>8 DEF Destroys
    <3>3. asleep' \in [Bot -> SUBSET {"user", "search", "callback"}]
      BY <1>8 DEF Destroys
    <3> QED BY <1>8, <3>1, <3>2, <3>3 DEF Destroys
  <2>2. AllSound'
    BY <1>8 DEF Destroys, Sound, Round, Loop, HasStopped, Owes, UsesCallbackLoop
  <2> QED BY <2>1, <2>2
<1>9. ASSUME NEW callback \in CallbackKind, StartsSearch(b, callback) PROVE IInv'
  <2>2. TypeOK' BY <1>9 DEF StartsSearch, CallbackKind
  <2>3. AllSound'
    BY <1>9 DEF StartsSearch, Stopped, Sound, Round, Loop, HasStopped, Owes,
                      UsesCallbackLoop
  <2> QED BY <2>2, <2>3
<1> QED BY <1>1, <1>2, <1>3, <1>4, <1>5, <1>6, <1>7, <1>8, <1>9, CallbacksAssumption
        DEF UserGoesOn

\* A step of another thread that stops or kills the bot.
LEMMA OrderStep ==
  ASSUME IInv, NEW b \in Bot, stopWithoutWait(b) \/ setKilled(b)
  PROVE  IInv'
<1> USE DEF IInv, AllSound, TypeOK, Notify, control, loop, user
<1>1. CASE stopWithoutWait(b)
  <2>1. TypeOK' BY <1>1 DEF stopWithoutWait
  <2>2. AllSound'
    BY <1>1 DEF stopWithoutWait, Sound, Round, Loop, HasStopped, Owes, UsesCallbackLoop
  <2> QED BY <2>1, <2>2
<1>2. CASE setKilled(b)
  <2>1. TypeOK' BY <1>2 DEF setKilled
  <2>2. AllSound'
    BY <1>2 DEF setKilled, Sound, Round, Loop, HasStopped, Owes, UsesCallbackLoop
  <2> QED BY <2>1, <2>2
<1> QED BY <1>1, <1>2

\* A step of the search thread.
LEMMA SearchStep ==
  ASSUME IInv, NEW b \in Bot,
         SearchGoesOn(b) \/ SearchEnds(b) \/ \E stops \in BOOLEAN : SearchBegins(b, stops)
  PROVE  IInv'
<1> USE DEF IInv, AllSound, TypeOK, Awake, Sleep, Notify, control, loop, user, SearchGoto
<1>1. CASE SearchSleeps(b)
  <2>1. TypeOK' BY <1>1 DEF SearchSleeps
  <2>2. AllSound'
    BY <1>1 DEF SearchSleeps, Sound, Round, Loop, HasStopped, Owes, UsesCallbackLoop
  <2> QED BY <2>1, <2>2
<1>2. CASE SearchExits(b)
  <2>1. TypeOK' BY <1>2 DEF SearchExits
  <2>2. AllSound'
    BY <1>2 DEF SearchExits, Sound, Round, Loop, HasStopped, Owes, UsesCallbackLoop
  <2> QED BY <2>1, <2>2
<1>3. CASE SearchTakes(b)
  <2>1. TypeOK' BY <1>3 DEF SearchTakes
  <2>2. AllSound'
    BY <1>3 DEF SearchTakes, Sound, Round, Loop, HasStopped, Owes, UsesCallbackLoop
  <2> QED BY <2>1, <2>2
<1>4. ASSUME NEW stops \in BOOLEAN, SearchBegins(b, stops) PROVE IInv'
  <2>1. TypeOK' BY <1>4 DEF SearchBegins
  <2>2. AllSound'
    BY <1>4 DEF SearchBegins, Sound, Round, Loop, HasStopped, Owes, UsesCallbackLoop
  <2> QED BY <2>1, <2>2
<1>5. CASE SearchAnnounces(b)
  <2>1. TypeOK' BY <1>5 DEF SearchAnnounces
  <2>2. AllSound'
    BY <1>5 DEF SearchAnnounces, Sound, Round, Loop, HasStopped, Owes, UsesCallbackLoop
  <2> QED BY <2>1, <2>2
<1>6. CASE SearchEnds(b)
  <2>1. TypeOK' BY <1>6 DEF SearchEnds
  <2>2. AllSound'
    BY <1>6 DEF SearchEnds, Sound, Round, Loop, HasStopped, Owes, UsesCallbackLoop
  <2> QED BY <2>1, <2>2
<1>7. CASE SearchStopsLoop(b)
  <2>1. TypeOK' BY <1>7 DEF SearchStopsLoop
  <2>2. AllSound'
    BY <1>7 DEF SearchStopsLoop, Sound, Round, Loop, HasStopped, Owes, UsesCallbackLoop
  <2> QED BY <2>1, <2>2
<1>8. CASE SearchJoins(b)
  <2>1. TypeOK' BY <1>8 DEF SearchJoins
  <2>2. AllSound'
    BY <1>8 DEF SearchJoins, Sound, Round, Loop, HasStopped, Owes, UsesCallbackLoop
  <2> QED BY <2>1, <2>2
<1>9. CASE SearchFinishes(b)
  <2>1. TypeOK' BY <1>9 DEF SearchFinishes
  <2>2. AllSound'
    BY <1>9 DEF SearchFinishes, Sound, Round, Loop, HasStopped, Owes, UsesCallbackLoop
  <2> QED BY <2>1, <2>2
<1> QED BY <1>1, <1>2, <1>3, <1>4, <1>5, <1>6, <1>7, <1>8, <1>9 DEF SearchGoesOn

\* A step of the callback thread.
LEMMA CallbackStep ==
  ASSUME IInv, NEW b \in Bot, CallbackGoesOn(b)
  PROVE  IInv'
<1> USE DEF IInv, AllSound, TypeOK, Awake, Sleep, control, user, CallbackGoto
<1>1. CASE CallbackAwaitsBegin(b)
  <2>1. TypeOK' BY <1>1 DEF CallbackAwaitsBegin
  <2>2. AllSound'
    BY <1>1 DEF CallbackAwaitsBegin, Sound, Round, Loop, HasStopped, Owes, UsesCallbackLoop
  <2> QED BY <2>1, <2>2
<1>2. CASE CallbackWaitEnds(b)
  <2>1. TypeOK' BY <1>2 DEF CallbackWaitEnds
  <2>2. AllSound'
    BY <1>2 DEF CallbackWaitEnds, Sound, Round, Loop, HasStopped, Owes, UsesCallbackLoop
  <2> QED BY <2>1, <2>2
<1>3. CASE CallbackReturns(b)
  <2>1. TypeOK' BY <1>3 DEF CallbackReturns
  <2>2. AllSound'
    BY <1>3 DEF CallbackReturns, Sound, Round, Loop, HasStopped, Owes, UsesCallbackLoop
  <2> QED BY <2>1, <2>2
<1> QED BY <1>1, <1>2, <1>3 DEF CallbackGoesOn

\* Every step, of whichever bot, keeps every bot sound.
LEMMA NextSound == IInv /\ [Next]_botVars => IInv'
<1> SUFFICES ASSUME IInv, [Next]_botVars PROVE IInv'
    OBVIOUS
<1>1. CASE Next
  <2> PICK b \in Bot :
         \/ \E call \in Calls : Call(b, call)
         \/ UserGoesOn(b)
         \/ stopWithoutWait(b) \/ setKilled(b)
         \/ SearchGoesOn(b) \/ SearchEnds(b)
         \/ \E stops \in BOOLEAN : SearchBegins(b, stops)
         \/ CallbackGoesOn(b)
      BY <1>1 DEF Next
  <2> QED BY UserStep, OrderStep, SearchStep, CallbackStep
<1>2. CASE UNCHANGED botVars
  BY <1>2 DEF botVars, control, loop, user, IInv, AllSound, TypeOK, Sound, Round, Loop,
              HasStopped, Owes, UsesCallbackLoop
<1> QED BY <1>1, <1>2

\* The invariant of every bot at once.
LEMMA AlwaysSound == Spec => []IInv
  BY InitSound, NextSound, PTL DEF Spec

-----------------------------------------------------------------------------
\* The types of the bots, whatever their users call and whoever kills them.
THEOREM TypesHold == Spec => []TypeOK
<1>1. IInv => TypeOK BY DEF IInv
<1> QED BY <1>1, AlwaysSound, PTL

\* A setter that has waited, and the destructor that frees the search, find
\* neither the search thread nor a callback at work (waitForSearchToEnd).
THEOREM Alone == Spec => []UserHasSearchAlone
<1>1. IInv => UserHasSearchAlone
  BY DEF IInv, AllSound, Sound, Round, Loop, HasStopped, UserHasSearchAlone, Quiet
<1> QED BY <1>1, AlwaysSound, PTL

\* The callback thread never reports on a search that has not begun, nor on one
\* whose round is over (callbackLoop).
THEOREM SeesItsSearch == Spec => []CallbackSeesItsSearch
<1>1. IInv => CallbackSeesItsSearch
  BY DEF IInv, AllSound, TypeOK, Sound, Loop, CallbackSeesItsSearch
<1> QED BY <1>1, AlwaysSound, PTL

\* Each accepted genMove is told its move once, and no other search tells it
\* (queuedOnMove).
THEOREM ReportedOnce == Spec => []MoveIsReportedOnce
<1>1. IInv => MoveIsReportedOnce
  BY DEF IInv, AllSound, Sound, Owes, MoveIsReportedOnce
<1> QED BY <1>1, AlwaysSound, PTL

-----------------------------------------------------------------------------
(* The analysis command.                                                   *)

\* A thread that has claimed its request and not reported yet, and one that has.
Working == {"setup", "ask", "report"}
Past    == {"clear", "erase", "delete"}

\* The call that searches, up to its stop.
Calling(b) ==
    threadPc[b] = "report" /\ ~(userPc[b] = "wait" /\ userCall[b] = "genMoveSynchronous")

\* The user of a bot is its thread, which waits for every call it makes; so the
\* bot runs only during the call that searches.
UserIsThread(b) ==
    /\ threadPc[b] \in {"pop", "claim", "setup", "clear", "delete"} => userPc[b] = "idle"
    /\ threadPc[b] \in {"ask", "erase"} =>
         userPc[b] \in {"idle", "wait", "mutate"} /\ userCall[b] = "set"
    /\ threadPc[b] = "report" =>
         \/ userCall[b] = "genMoveSynchronous" /\ userPc[b] \in {"wait", "notify", "result"}
         \/ userCall[b] = "result" /\ userPc[b] \in {"wait", "idle"}
    /\ threadPc[b] = "finished" =>
         \/ userPc[b] = "idle"
         \/ userCall[b] = "destroy" /\ userPc[b] \in {"wait", "kill", "join", "deleted"}
    /\ isRunning[b] => Calling(b) /\ userPc[b] # "idle"
    /\ isKilled[b] => ~writeOpen \/ threadPc[b] = "finished"

\* A request is with one thread at most, which no list but the map then knows.
HasRequest(b) ==
    /\ threadPc[b] \in {"pop", "finished"} <=> request[b] = NoRequest
    /\ request[b] # NoRequest =>
         /\ request[b] \in 1..numRequests
         /\ request[b] \notin toAnalyze \cup deleted
         /\ threadPc[b] = "delete" <=> request[b] \notin openRequests
         /\ \A c \in Bot : request[c] = request[b] => c = b

\* What is queued is open, and what was freed is not.
ListsAgree ==
    /\ openRequests \subseteq 1..numRequests /\ deleted \subseteq 1..numRequests
    /\ toAnalyze \subseteq openRequests /\ deleted \cap openRequests = {}

\* What the main thread walks over is open and, before the push, nobody else's.
WalkIsOpen ==
    /\ mainPc \in {"push", "terminate", "stopBot"} => todo \subseteq openRequests /\ todo # {}
    /\ mainPc = "push" =>
         /\ todo \cap toAnalyze = {}
         /\ \A r \in todo : status[r] = "in_queue"
         /\ \A b \in Bot : request[b] \notin todo
    /\ mainPc \in {"stopAll", "killAll"} => todo \subseteq Bot /\ ~writeOpen
    /\ mainPc = "stopBot" =>
         /\ victim \in todo \X Bot
         /\ request[victim[2]] = victim[1] /\ status[victim[1]] = "terminated"

\* Whoever terminates a request that no thread has claimed answers it.
Waits(r) ==
    \/ status[r] = "in_queue"
    \/ status[r] = "terminated" /\ (writeOpen => IsAnswered(r))

\* The answer of a request comes after its reports.
LastIsLast(r) == \A i \in DOMAIN out[r] : out[r][i] # "during" => i = Len(out[r])

\* What the status of a request and its output tell of it.
RequestsAgree ==
    /\ \A r \in openRequests : status[r] \in Bot => request[status[r]] = r
    /\ \A r \in toAnalyze : Waits(r)
    /\ \A r \in Request : status[r] = "unborn" => r > numRequests
    /\ \A r \in Request : r > numRequests \/ status[r] = "in_queue" => out[r] = <<>>
    /\ \A r \in Request : LastIsLast(r)
    /\ \A r \in deleted : writeOpen => IsAnswered(r)

\* The search the thread has claimed the request for, and that has not begun.
Unbegun(b) ==
    \/ threadPc[b] \in {"setup", "ask"}
    \/ threadPc[b] = "report" /\ ~Calling(b)
    \/ threadPc[b] = "report" /\ isRunning[b] /\ searchPc[b] \in {"top", "begin"}

\* The status names no bot before the search begins; the search is stopped by
\* the order to terminate or by nobody, and ends by that order or with a result.
StopsForReason(b) ==
    /\ Unbegun(b) => status[request[b]] \notin Bot
    /\ writeOpen /\ Calling(b) =>
        IF isRunning[b] /\ searchPc[b] \in {"top", "begin", "announce", "search"}
        THEN shouldStopNow[b] => status[request[b]] = "terminated"
        ELSE hasResults[b] \/ status[request[b]] = "terminated"

\* A thread answers the request it has claimed, and nobody else does.
ThreadAnswers(b) ==
    /\ threadPc[b] = "claim" => Waits(request[b])
    /\ threadPc[b] \in Working =>
         status[request[b]] # "in_queue" /\ ~IsAnswered(request[b])
    /\ threadPc[b] \in Past /\ writeOpen => IsAnswered(request[b])
    /\ StopsForReason(b)

\* The types of the analysis command.
EngineTypes ==
    /\ numRequests \in 0..MaxRequests
    /\ status \in [Request -> Unassigned \cup Bot]
    /\ toAnalyze \subseteq Request /\ toAnalyzeReadOnly \in BOOLEAN
    /\ openRequests \subseteq Request /\ deleted \subseteq Request
    /\ out \in [Request -> Seq({"during", "final", "noResults"})] /\ writeOpen \in BOOLEAN
    /\ threadPc \in [Bot -> {"pop", "claim", "setup", "ask", "report", "clear",
                             "erase", "delete", "finished"}]
    /\ request \in [Bot -> Request \cup {NoRequest}]
    /\ hasResults \in [Bot -> BOOLEAN]
    /\ mainPc \in {"read", "push", "terminate", "stopBot", "stopAll", "killAll", "join"}
    /\ todo \subseteq Request \cup Bot
    /\ victim = <<>> \/ victim \in Request \X Bot

\* What is known of each analysis thread, and of the whole command.
ThreadsSound == \A b \in Bot : UserIsThread(b) /\ HasRequest(b) /\ ThreadAnswers(b)
EngineSound  == ListsAgree /\ WalkIsOpen /\ RequestsAgree /\ ThreadsSound
\* Its inductive invariant.
EngineInv    == IInv /\ EngineTypes /\ EngineSound

-----------------------------------------------------------------------------
\* Nothing of the bots changes, so they stay sound.
LEMMA BotsRest ==
  ASSUME IInv, UNCHANGED botVars
  PROVE  IInv'
  BY NextSound

\* The engine is a user of its bots like any other.
LEMMA EngineKeepsBots ==
  ASSUME EngineInv, EngineNext
  PROVE  IInv'
<1>1. IInv BY DEF EngineInv
<1>2. CASE Opens BY <1>1, <1>2, BotsRest DEF Opens
<1>3. CASE OrdersTermination BY <1>1, <1>3, BotsRest DEF OrdersTermination
<1>4. CASE Closes BY <1>1, <1>4, BotsRest DEF Closes
<1>5. CASE MainGoesOn
  <2>1. CASE Pushes BY <1>1, <2>1, BotsRest DEF Pushes
  <2>2. CASE TerminatesNext BY <1>1, <2>2, BotsRest DEF TerminatesNext
  <2>3. CASE StopsBot
    <3>1. victim[2] \in Bot
      BY <2>3 DEF StopsBot, EngineInv, EngineSound, WalkIsOpen
    <3> QED BY <1>1, <2>3, <3>1, OrderStep DEF StopsBot
  <2>4. CASE StopsAll
    <3>1. todo \subseteq Bot
      BY <2>4 DEF StopsAll, EngineInv, EngineSound, WalkIsOpen
    <3> QED BY <1>1, <2>4, <3>1, OrderStep DEF StopsAll
  <2>5. CASE JoinsAndDeletes BY <1>1, <2>5, UserStep DEF JoinsAndDeletes, Calls
  <2> QED BY <1>5, <2>1, <2>2, <2>3, <2>4, <2>5 DEF MainGoesOn
<1>6. ASSUME NEW b \in Bot, ThreadGoesOn(b) PROVE IInv'
  <2>1. CASE CallGoesOn(b) BY <1>1, <2>1, UserStep DEF CallGoesOn, UserGoesOn
  <2>2. CASE SearchAsked(b) BY <1>1, <2>2, UserStep DEF SearchAsked, CallbackKind
  <2>3. CASE SetterDone(b) BY <1>1, <2>3, UserStep DEF SetterDone, UserGoesOn
  <2>4. CASE Pops(b) BY <1>1, <2>4, BotsRest DEF Pops
  <2>5. CASE Claims(b) BY <1>1, <2>5, BotsRest DEF Claims
  <2>6. CASE Sets(b) BY <1>1, <2>6, UserStep DEF Sets, Calls
  <2>7. CASE Asks(b) BY <1>1, <2>7, UserStep DEF Asks, Calls, Starts
  <2>8. CASE Reports(b) BY <1>1, <2>8, BotsRest DEF Reports
  <2>9. CASE Erases(b) BY <1>1, <2>9, BotsRest DEF Erases
  <2>10. CASE Deletes(b) BY <1>1, <2>10, BotsRest DEF Deletes
  <2> QED BY <1>6, <2>1, <2>2, <2>3, <2>4, <2>5, <2>6, <2>7, <2>8, <2>9, <2>10
          DEF ThreadGoesOn
<1>7. ASSUME NEW b \in Bot, SearchThread(b) \/ Ends(b) PROVE IInv'
  <2>1. CASE RoundGoesOn(b) BY <1>1, <2>1, SearchStep DEF RoundGoesOn, SearchGoesOn
  <2>2. CASE Begins(b) BY <1>1, <2>2, SearchStep DEF Begins
  <2>3. CASE Ends(b) BY <1>1, <2>3, SearchStep DEF Ends
  <2> QED BY <1>7, <2>1, <2>2, <2>3 DEF SearchThread
<1>8. ASSUME NEW b \in Bot, LoopGoesOn(b) \/ ReportsDuringSearch(b) PROVE IInv'
  BY <1>1, <1>8, CallbackStep DEF LoopGoesOn, ReportsDuringSearch, CallbackGoesOn
<1> QED BY <1>2, <1>3, <1>4, <1>5, <1>6, <1>7, <1>8 DEF EngineNext

\* What is known of a step that leaves some part alone.
LEMMA EngineFacts ==
  ASSUME EngineInv
  PROVE  /\ TypeOK /\ EngineTypes /\ ListsAgree /\ WalkIsOpen /\ RequestsAgree
         /\ \A b \in Bot : UserIsThread(b) /\ HasRequest(b) /\ ThreadAnswers(b)
  BY DEF EngineInv, IInv, EngineSound, ThreadsSound

-----------------------------------------------------------------------------
(* Steps of a bot that the engine has no part in.                          *)

\* They disturb only what is said of the user and of the end of a search.
LEMMA BotAlone ==
  ASSUME EngineInv, UNCHANGED engineVars,
         \A c \in Bot : UserIsThread(c)' /\ StopsForReason(c)'
  PROVE  EngineTypes' /\ EngineSound'
<1> USE DEF EngineInv, engineVars, requests, queueVars, outVars, threadVars, mainVars
<1>1. EngineTypes' BY DEF EngineTypes
<1>2. ListsAgree' BY DEF EngineSound, ListsAgree
<1>3. WalkIsOpen' BY DEF EngineSound, WalkIsOpen
<1>4. RequestsAgree' BY DEF EngineSound, RequestsAgree, Waits, IsAnswered, LastIsLast
<1>5. ASSUME NEW c \in Bot PROVE HasRequest(c)' /\ ThreadAnswers(c)'
  BY DEF EngineSound, ThreadsSound, HasRequest, ThreadAnswers, Waits, IsAnswered
<1> QED BY <1>1, <1>2, <1>3, <1>4, <1>5 DEF EngineSound, ThreadsSound

\* The thread's call goes on: it waits, it is told of the stop, it starts
\* nothing because the bot is killed, it is deleted.
LEMMA CallGoesOnSound ==
  ASSUME EngineInv, NEW b \in Bot, CallGoesOn(b)
  PROVE  EngineTypes' /\ EngineSound'
<1> USE DEF EngineInv, EngineSound, ThreadsSound, ThreadAnswers, IInv, TypeOK, Calling,
            UserIsThread, StopsForReason, Unbegun, control, loop, user,
            engineVars, requests, queueVars, outVars, threadVars, mainVars
<1>1. UNCHANGED engineVars BY DEF CallGoesOn
<1>2. ASSUME NEW c \in Bot PROVE UserIsThread(c)' /\ StopsForReason(c)'
  <2>1. CASE waitForSearchToEnd(b) BY <1>1, <2>1 DEF waitForSearchToEnd, Sleep
  <2>2. CASE StopReturns(b)
    <3>1. UserIsThread(c)' BY <1>1, <2>2 DEF StopReturns, Stopped, Return, Starts
    <3>2. StopsForReason(c)' BY <1>1, <2>2 DEF StopReturns, Stopped, Return, ThreadAnswers
    <3> QED BY <3>1, <3>2
  <2>3. CASE StartsNothing(b) BY <1>1, <2>3 DEF StartsNothing, Return, Starts
  <2>4. CASE NotifiesSearch(b) BY <1>1, <2>4 DEF NotifiesSearch, Notify
  <2>5. CASE AwaitsMove(b)
    <3>1. threadPc[b] = "report" BY <2>5 DEF AwaitsMove, EngineTypes
    <3>2. CASE c = b BY <1>1, <2>5, <3>1, <3>2 DEF AwaitsMove
    <3>3. CASE c # b BY <1>1, <2>5, <3>3 DEF AwaitsMove
    <3> QED BY <3>2, <3>3
  <2>6. CASE Destroys(b)
    <3>1. threadPc[b] = "finished" /\ userCall[b] = "destroy"
      BY <2>6 DEF Destroys, EngineTypes
    <3>2. CASE c = b BY <1>1, <2>6, <3>1, <3>2 DEF Destroys
    <3>3. CASE c # b BY <1>1, <2>6, <3>3 DEF Destroys
    <3> QED BY <3>2, <3>3
  <2> QED BY <2>1, <2>2, <2>3, <2>4, <2>5, <2>6 DEF CallGoesOn
<1> QED BY <1>1, <1>2, BotAlone

\* The search thread's round goes on.
LEMMA RoundGoesOnSound ==
  ASSUME EngineInv, NEW b \in Bot, RoundGoesOn(b)
  PROVE  EngineTypes' /\ EngineSound'
<1> USE DEF EngineInv, EngineSound, ThreadsSound, ThreadAnswers, IInv, TypeOK, Calling,
            UserIsThread, StopsForReason, Unbegun, control, loop, user, SearchGoto, Notify,
            engineVars, requests, queueVars, outVars, threadVars, mainVars
<1>1. UNCHANGED engineVars BY DEF RoundGoesOn
<1>2. ASSUME NEW c \in Bot PROVE UserIsThread(c)' /\ StopsForReason(c)'
  <2>1. CASE SearchSleeps(b) BY <1>1, <2>1 DEF SearchSleeps, Sleep
  <2>2. CASE SearchExits(b) BY <1>1, <2>2 DEF SearchExits
  <2>3. CASE SearchTakes(b) BY <1>1, <2>3 DEF SearchTakes
  <2>4. CASE SearchAnnounces(b) BY <1>1, <2>4 DEF SearchAnnounces
  <2>5. CASE SearchStopsLoop(b) BY <1>1, <2>5 DEF SearchStopsLoop
  <2>6. CASE SearchJoins(b) BY <1>1, <2>6 DEF SearchJoins
  <2>7. CASE SearchFinishes(b) BY <1>1, <2>7 DEF SearchFinishes
  <2> QED BY <2>1, <2>2, <2>3, <2>4, <2>5, <2>6, <2>7 DEF RoundGoesOn
<1> QED BY <1>1, <1>2, BotAlone

\* The callback thread waits; the search is started; a bot is being deleted.
LEMMA LoopGoesOnSound ==
  ASSUME EngineInv, NEW b \in Bot, LoopGoesOn(b)
  PROVE  EngineTypes' /\ EngineSound'
<1> USE DEF EngineInv, EngineSound, ThreadsSound, ThreadAnswers, IInv, TypeOK, Calling,
            UserIsThread, StopsForReason, Unbegun, control, loop, user, CallbackGoto, Sleep,
            engineVars, requests, queueVars, outVars, threadVars, mainVars
<1>1. UNCHANGED engineVars BY DEF LoopGoesOn
<1>2. ASSUME NEW c \in Bot PROVE UserIsThread(c)' /\ StopsForReason(c)'
  BY <1>1 DEF LoopGoesOn, CallbackAwaitsBegin, CallbackWaitEnds
<1> QED BY <1>1, <1>2, BotAlone

\* The thread asks its bot for the search, of a request that is its own.
LEMMA SearchAskedSound ==
  ASSUME EngineInv, NEW b \in Bot, SearchAsked(b)
  PROVE  EngineTypes' /\ EngineSound'
<1> USE DEF EngineInv, EngineSound, ThreadsSound, ThreadAnswers, IInv, AllSound, Sound, Round,
            TypeOK, Calling, UserIsThread, StopsForReason, Unbegun, control, loop, user,
            engineVars, requests, queueVars, outVars, threadVars, mainVars
<1>1. UNCHANGED engineVars BY DEF SearchAsked
<1>2. ASSUME NEW c \in Bot PROVE UserIsThread(c)'
  <2>1. /\ userPc[b] = "wait" /\ userCall[b] \in Starts /\ ~isKilled[b]
        /\ isRunning' = [isRunning EXCEPT ![b] = TRUE]
        /\ userPc' = [userPc EXCEPT ![b] = "notify"]
        /\ UNCHANGED <<isKilled, userCall>>
    BY DEF SearchAsked, StartsSearch, Stopped
  <2>2. UNCHANGED <<threadPc, writeOpen>> BY <1>1
  <2>3. threadPc[b] = "report" /\ userCall[b] = "genMoveSynchronous"
    BY <2>1, EngineFacts DEF Starts, EngineTypes
  <2>4. CASE c = b BY <2>1, <2>2, <2>3, <2>4
  <2>5. CASE c # b BY <2>1, <2>2, <2>5
  <2> QED BY <2>4, <2>5
<1>3. ASSUME NEW c \in Bot PROVE StopsForReason(c)'
  BY <1>1 DEF SearchAsked, StartsSearch, Stopped, Starts
<1> QED BY <1>1, <1>2, <1>3, BotAlone

\* When all threads have ended the main thread frees what is left.
LEMMA JoinsAndDeletesSound ==
  ASSUME EngineInv, JoinsAndDeletes
  PROVE  EngineTypes' /\ EngineSound'
<1> USE DEF EngineInv, EngineSound, ThreadsSound, ThreadAnswers, IInv,
            TypeOK, Calling, UserIsThread, StopsForReason, Unbegun, control, loop, user,
            engineVars, requests, queueVars, outVars, threadVars, mainVars
<1>1. UNCHANGED engineVars BY DEF JoinsAndDeletes
<1>2. ASSUME NEW c \in Bot PROVE UserIsThread(c)' /\ StopsForReason(c)'
  BY <1>1 DEF JoinsAndDeletes, Call
<1> QED BY <1>1, <1>2, BotAlone

-----------------------------------------------------------------------------
(* Steps of the analysis threads.                                          *)

\* What a message that is put into the write queue does to the output.
LEMMA Writes ==
  ASSUME EngineTypes, NEW r \in Request, NEW kind \in {"during", "final", "noResults"},
         Write(r, kind), ~IsAnswered(r)
  PROVE  /\ out' \in [Request -> Seq({"during", "final", "noResults"})]
         /\ \A q \in Request \ {r} :
              /\ out'[q] = out[q]
              /\ IsAnswered(q)' <=> IsAnswered(q)
              /\ LastIsLast(q)' <=> LastIsLast(q)
         /\ LastIsLast(r)'
         /\ kind = "during" => ~IsAnswered(r)'
         /\ kind # "during" /\ writeOpen => IsAnswered(r)'
<1> DEFINE Kinds == {"during", "final", "noResults"}
<1>1. out[r] \in Seq(Kinds) BY DEF EngineTypes
<1>2. Append(out[r], kind) \in Seq(Kinds) BY <1>1
<1>3. out'[r] = out[r] \/ out'[r] = Append(out[r], kind)
  BY DEF Write, Written, EngineTypes
<1>4. out' \in [Request -> Seq(Kinds)] /\ \A q \in Request \ {r} : out'[q] = out[q]
  BY <1>1, <1>2 DEF Write, Written, EngineTypes
<1>5. \A i \in DOMAIN out[r] : out[r][i] = "during" BY DEF IsAnswered
<1>6. LastIsLast(r)' BY <1>1, <1>3, <1>5 DEF LastIsLast
<1>7. kind = "during" => ~IsAnswered(r)' BY <1>1, <1>3, <1>5 DEF IsAnswered
<1>8. ASSUME kind # "during", writeOpen PROVE IsAnswered(r)'
  <2>1. out'[r] = Append(out[r], kind) BY <1>8 DEF Write, Written, EngineTypes
  <2>2. Len(out[r]) + 1 \in DOMAIN out'[r] /\ out'[r][Len(out[r]) + 1] = kind
    BY <1>1, <2>1
  <2> QED BY <1>8, <2>2 DEF IsAnswered
<1>9. \A q \in Request \ {r} :
        /\ out'[q] = out[q]
        /\ IsAnswered(q)' <=> IsAnswered(q)
        /\ LastIsLast(q)' <=> LastIsLast(q)
  BY <1>4 DEF IsAnswered, LastIsLast
<1> QED BY <1>4, <1>6, <1>7, <1>8, <1>9

\* It takes the request out of the queue, or finds the queue closed.
LEMMA PopsSound ==
  ASSUME EngineInv, NEW b \in Bot, Pops(b)
  PROVE  EngineTypes' /\ EngineSound'
<1>1. UNCHANGED <<botVars, requests, toAnalyzeReadOnly, outVars, hasResults, mainVars>>
  BY DEF Pops
<1>2. CASE /\ toAnalyze' = toAnalyze /\ request' = request
           /\ threadPc[b] = "pop" /\ threadPc' = [threadPc EXCEPT ![b] = "finished"]
  <2> USE <1>1, <1>2, EngineFacts
      DEF control, loop, user, botVars, requests, outVars, mainVars
  <2>1. EngineTypes' BY DEF EngineTypes
  <2>2. ListsAgree' /\ WalkIsOpen' BY DEF ListsAgree, WalkIsOpen
  <2>3. RequestsAgree' BY DEF RequestsAgree, Waits, IsAnswered, LastIsLast
  <2>4. ASSUME NEW c \in Bot PROVE UserIsThread(c)' /\ HasRequest(c)' /\ ThreadAnswers(c)'
    BY DEF EngineTypes, UserIsThread, Calling, HasRequest, ThreadAnswers, StopsForReason, Unbegun,
           Working, Past, Waits, IsAnswered
  <2> QED BY <2>1, <2>2, <2>3, <2>4 DEF EngineSound, ThreadsSound
<1>3. ASSUME NEW r \in toAnalyze, toAnalyze' = toAnalyze \ {r}, threadPc[b] = "pop",
             request' = [request EXCEPT ![b] = r], threadPc' = [threadPc EXCEPT ![b] = "claim"]
      PROVE  EngineTypes' /\ EngineSound'
  <2> USE <1>1, <1>3, EngineFacts DEF control, loop, user, botVars, requests, outVars, mainVars
  <2>1. r \in Request /\ r \in openRequests /\ r \in 1..numRequests /\ r \notin deleted
    BY DEF EngineTypes, ListsAgree
  <2>2. request[b] = NoRequest /\ r # NoRequest
    BY <2>1, RequestAssumption DEF HasRequest
  <2>3. request'[b] = r /\ \A c \in Bot \ {b} : request'[c] = request[c]
    BY DEF EngineTypes
  <2>4. \A c \in Bot \ {b} : request[c] # r
    BY <2>2 DEF HasRequest
  <2>5. EngineTypes' BY <2>1 DEF EngineTypes
  <2>6. ListsAgree' BY DEF ListsAgree
  <2>7. WalkIsOpen'
    <3>1. mainPc' = "push" => todo' \cap toAnalyze' = {} /\ \A r1 \in todo' : status'[r1] = "in_queue"
      BY DEF WalkIsOpen
    <3>2. ASSUME mainPc = "push", NEW c \in Bot PROVE request'[c] \notin todo'
      BY <2>3, <3>2 DEF WalkIsOpen
    <3>3. ASSUME mainPc = "stopBot" PROVE request'[victim[2]] = victim[1]
      <4>1. victim[2] \in Bot /\ victim[1] \in todo /\ request[victim[2]] = victim[1]
        BY <3>3 DEF WalkIsOpen
      <4>2. victim[2] # b
        BY <3>3, <4>1, <2>2, RequestAssumption DEF WalkIsOpen, EngineTypes
      <4> QED BY <4>1, <4>2, <2>3
    <3> QED BY <3>1, <3>2, <3>3 DEF WalkIsOpen
  <2>8. RequestsAgree'
    <3>1. ASSUME NEW q \in openRequests, status[q] \in Bot PROVE request'[status[q]] = q
      <4>1. request[status[q]] = q BY <3>1 DEF RequestsAgree
      <4>2. status[q] # b BY <4>1, <2>2, RequestAssumption DEF EngineTypes
      <4> QED BY <3>1, <4>1, <4>2, <2>3
    <3> QED BY <3>1 DEF RequestsAgree, Waits, IsAnswered, LastIsLast
  <2>9. ASSUME NEW c \in Bot PROVE UserIsThread(c)'
    BY DEF EngineTypes, UserIsThread, Calling
  <2>10. ASSUME NEW c \in Bot PROVE HasRequest(c)'
    BY <2>1, <2>2, <2>3, <2>4 DEF EngineTypes, HasRequest
  <2>11. ASSUME NEW c \in Bot PROVE ThreadAnswers(c)'
    <3>1. CASE c = b
      BY <3>1, <2>3 DEF EngineTypes, ThreadAnswers, StopsForReason, Unbegun, Calling, Working, Past,
                        RequestsAgree, Waits, IsAnswered
    <3>2. CASE c # b
      BY <3>2, <2>3 DEF EngineTypes, ThreadAnswers, StopsForReason, Unbegun, Calling, Waits, IsAnswered
    <3> QED BY <3>1, <3>2
  <2> QED BY <2>5, <2>6, <2>7, <2>8, <2>9, <2>10, <2>11 DEF EngineSound, ThreadsSound
<1> QED BY <1>1, <1>2, <1>3 DEF Pops, ThreadGoto

\* It claims the request, unless that is terminated.
LEMMA ClaimsSound ==
  ASSUME EngineInv, NEW b \in Bot, Claims(b)
  PROVE  EngineTypes' /\ EngineSound'
<1> DEFINE r == request[b]
<1>1. /\ UNCHANGED <<botVars, numRequests, openRequests, deleted, queueVars, outVars,
                     request, hasResults, mainVars>>
      /\ threadPc[b] = "claim"
  BY DEF Claims
<1>2. r # NoRequest /\ r \in Request /\ r \in openRequests /\ r \in 1..numRequests /\ r \notin toAnalyze
  BY <1>1, EngineFacts DEF HasRequest, EngineTypes
<1>3. Waits(r) BY <1>1, EngineFacts DEF ThreadAnswers
<1>4. \A c \in Bot \ {b} : request[c] # r
  BY <1>2, EngineFacts DEF HasRequest
<1>5. CASE /\ status[r] = "in_queue" /\ status' = [status EXCEPT ![r] = "popped"]
           /\ threadPc' = [threadPc EXCEPT ![b] = "setup"]
  <2> HIDE DEF r
  <2> USE <1>1, <1>2, <1>5, EngineFacts
      DEF control, loop, user, botVars, queueVars, outVars, mainVars
  <2>1. out[r] = <<>> BY DEF RequestsAgree
  <2>2. ~IsAnswered(r) BY <2>1 DEF IsAnswered
  <2>3. status'[r] = "popped" /\ \A q \in Request \ {r} : status'[q] = status[q]
    BY DEF EngineTypes
  <2>4. EngineTypes' BY DEF EngineTypes, Unassigned
  <2>5. ListsAgree' BY DEF ListsAgree
  <2>6. WalkIsOpen'
    <3>1. mainPc = "push" => r \notin todo BY DEF WalkIsOpen, r
    <3>2. mainPc = "stopBot" => victim[1] # r BY DEF WalkIsOpen
    <3>3. mainPc = "stopBot" => victim[1] \in Request BY DEF WalkIsOpen, EngineTypes
    <3>4. mainPc = "push" => todo \subseteq Request BY DEF WalkIsOpen, EngineTypes
    <3> QED BY <3>1, <3>2, <3>3, <3>4, <2>3 DEF WalkIsOpen
  <2>7. RequestsAgree'
    <3>1. status'[r] \notin Bot BY <2>3, StatusAssumption DEF Unassigned
    <3>2. \A q \in toAnalyze : Waits(q)'
      BY <2>3 DEF RequestsAgree, Waits, IsAnswered, EngineTypes
    <3>3. \A q \in openRequests : status'[q] \in Bot => request[status'[q]] = q
      BY <3>1, <2>3 DEF RequestsAgree, EngineTypes
    <3>4. \A q \in Request : q > numRequests \/ status'[q] = "in_queue" => out[q] = <<>>
      BY <2>1, <2>3 DEF RequestsAgree
    <3>5. \A q \in Request : status'[q] = "unborn" => q > numRequests
      BY <2>3 DEF RequestsAgree
    <3> QED BY <3>2, <3>3, <3>4, <3>5 DEF RequestsAgree, IsAnswered, LastIsLast
  <2>8. ASSUME NEW c \in Bot PROVE UserIsThread(c)'
    BY DEF EngineTypes, UserIsThread, Calling
  <2>9. ASSUME NEW c \in Bot PROVE HasRequest(c)'
    BY DEF EngineTypes, HasRequest, ListsAgree
  <2>10. ASSUME NEW c \in Bot PROVE ThreadAnswers(c)'
    <3>1. CASE c = b
      BY <3>1, <2>2, <2>3, StatusAssumption
      DEF r, EngineTypes, ThreadAnswers, StopsForReason, Unbegun, Calling, Working, Past,
          IsAnswered, Unassigned
    <3>2. CASE c # b
      <4>1. threadPc'[c] = threadPc[c] BY <3>2 DEF EngineTypes
      <4>2. CASE request[c] = NoRequest
        BY <4>1, <4>2 DEF HasRequest, ThreadAnswers, Working, Past, StopsForReason, Unbegun, Calling
      <4>3. CASE request[c] # NoRequest
        <5>1. request[c] \in Request \ {r} BY <3>2, <4>3, <1>4 DEF EngineTypes
        <5>2. status'[request[c]] = status[request[c]] BY <5>1, <2>3
        <5> QED BY <4>1, <5>2 DEF ThreadAnswers, Waits, IsAnswered, StopsForReason, Unbegun, Calling
      <4> QED BY <4>2, <4>3
    <3> QED BY <3>1, <3>2
  <2> QED BY <2>4, <2>5, <2>6, <2>7, <2>8, <2>9, <2>10 DEF EngineSound, ThreadsSound
<1>6. CASE /\ status[r] # "in_queue" /\ status' = status
           /\ threadPc' = [threadPc EXCEPT ![b] = "clear"]
  <2> USE <1>1, <1>2, <1>6, EngineFacts
      DEF control, loop, user, botVars, queueVars, outVars, mainVars
  <2>1. writeOpen => IsAnswered(r) BY <1>3 DEF Waits
  <2>2. EngineTypes' BY DEF EngineTypes
  <2>3. ListsAgree' /\ WalkIsOpen' BY DEF ListsAgree, WalkIsOpen
  <2>4. RequestsAgree' BY DEF RequestsAgree, Waits, IsAnswered, LastIsLast
  <2>5. ASSUME NEW c \in Bot PROVE UserIsThread(c)' /\ HasRequest(c)'
    BY DEF EngineTypes, UserIsThread, Calling, HasRequest
  <2>6. ASSUME NEW c \in Bot PROVE ThreadAnswers(c)'
    BY <2>1 DEF EngineTypes, ThreadAnswers, StopsForReason, Unbegun, Calling, Working, Past, Waits, IsAnswered
  <2> QED BY <2>2, <2>3, <2>4, <2>5, <2>6 DEF EngineSound, ThreadsSound
<1> QED BY <1>1, <1>5, <1>6 DEF Claims, ThreadGoto

\* It sets up the bot, or clears its search.
LEMMA SetsSound ==
  ASSUME EngineInv, NEW b \in Bot, Sets(b)
  PROVE  EngineTypes' /\ EngineSound'
<1> USE DEF EngineInv, EngineSound, ThreadsSound, botVars, control, loop, user, requests, queueVars,
            outVars, threadVars, mainVars, ThreadGoto, Sets, Call
<1>1. EngineTypes' BY DEF EngineTypes
<1>2. ListsAgree' BY DEF EngineTypes, ListsAgree, HasRequest
<1>3. WalkIsOpen' BY DEF EngineTypes, WalkIsOpen
<1>4. RequestsAgree' BY DEF EngineTypes, RequestsAgree, Waits, IsAnswered, LastIsLast
<1>5. ASSUME NEW c \in Bot PROVE UserIsThread(c)'
  BY DEF EngineTypes, IInv, TypeOK, UserIsThread, Calling
<1>6. ASSUME NEW c \in Bot PROVE HasRequest(c)'
  BY DEF EngineTypes, HasRequest, ListsAgree
<1>7. ASSUME NEW c \in Bot PROVE StopsForReason(c)'
  BY DEF EngineTypes, IInv, TypeOK, ThreadAnswers, StopsForReason, Unbegun, Calling, UserIsThread
<1>8. ASSUME NEW c \in Bot PROVE ThreadAnswers(c)'
  BY <1>7 DEF EngineTypes, Working, Past, HasRequest, ThreadAnswers, Waits, IsAnswered
<1> QED BY <1>1, <1>2, <1>3, <1>4, <1>5, <1>6, <1>8

\* The setters are done.
LEMMA SetterDoneSound ==
  ASSUME EngineInv, NEW b \in Bot, SetterDone(b)
  PROVE  EngineTypes' /\ EngineSound'
<1> USE DEF EngineInv, EngineSound, ThreadsSound, botVars, control, loop, user, requests, queueVars,
            outVars, threadVars, mainVars, ThreadGoto, SetterDone, SetterReturns, Return
<1>1. EngineTypes' BY DEF EngineTypes
<1>2. ListsAgree' BY DEF EngineTypes, ListsAgree, HasRequest
<1>3. WalkIsOpen' BY DEF EngineTypes, WalkIsOpen
<1>4. RequestsAgree' BY DEF EngineTypes, RequestsAgree, Waits, IsAnswered, LastIsLast
<1>5. ASSUME NEW c \in Bot PROVE UserIsThread(c)'
  BY DEF EngineTypes, IInv, TypeOK, UserIsThread, Calling
<1>6. ASSUME NEW c \in Bot PROVE HasRequest(c)'
  BY DEF EngineTypes, HasRequest, ListsAgree
<1>7. ASSUME NEW c \in Bot PROVE StopsForReason(c)'
  <2>1. userPc[b] = "mutate" /\ threadPc[b] # "report" /\ UNCHANGED <<threadPc, request>>
    BY EngineFacts DEF UserIsThread
  <2>2. CASE c = b BY <2>1, <2>2, EngineFacts DEF ThreadAnswers, StopsForReason, Unbegun, Calling
  <2>3. CASE c # b
    BY <2>1, <2>3, EngineFacts DEF TypeOK, EngineTypes, ThreadAnswers, StopsForReason, Unbegun, Calling
  <2> QED BY <2>2, <2>3
<1>8. ASSUME NEW c \in Bot PROVE ThreadAnswers(c)'
  BY <1>7 DEF EngineTypes, Working, Past, HasRequest, ThreadAnswers, Waits, IsAnswered
<1> QED BY <1>1, <1>2, <1>3, <1>4, <1>5, <1>6, <1>8

\* It asks for the search.
LEMMA AsksSound ==
  ASSUME EngineInv, NEW b \in Bot, Asks(b)
  PROVE  EngineTypes' /\ EngineSound'
<1> USE DEF EngineInv, EngineSound, ThreadsSound, botVars, control, loop, user, requests, queueVars,
            outVars, threadVars, mainVars, ThreadGoto, Asks, Call
<1>1. EngineTypes' BY DEF EngineTypes
<1>2. ListsAgree' BY DEF EngineTypes, ListsAgree, HasRequest
<1>3. WalkIsOpen' BY DEF EngineTypes, WalkIsOpen
<1>4. RequestsAgree' BY DEF EngineTypes, RequestsAgree, Waits, IsAnswered, LastIsLast
<1>5. ASSUME NEW c \in Bot PROVE UserIsThread(c)'
  BY DEF EngineTypes, IInv, TypeOK, UserIsThread, Calling
<1>6. ASSUME NEW c \in Bot PROVE HasRequest(c)'
  BY DEF EngineTypes, HasRequest, ListsAgree
<1>7. ASSUME NEW c \in Bot PROVE StopsForReason(c)'
  BY DEF EngineTypes, IInv, TypeOK, ThreadAnswers, StopsForReason, Unbegun, Calling, UserIsThread
<1>8. ASSUME NEW c \in Bot PROVE ThreadAnswers(c)'
  BY <1>7 DEF EngineTypes, Working, Past, HasRequest, ThreadAnswers, Waits, IsAnswered
<1> QED BY <1>1, <1>2, <1>3, <1>4, <1>5, <1>6, <1>8

\* It erases the request from the map, and the request is its own to free.
LEMMA ErasesSound ==
  ASSUME EngineInv, NEW b \in Bot, Erases(b)
  PROVE  EngineTypes' /\ EngineSound'
<1> DEFINE r == request[b]
<1>1. /\ UNCHANGED <<botVars, numRequests, status, deleted, queueVars, outVars,
                     request, hasResults, mainVars>>
      /\ threadPc[b] = "erase" /\ userPc[b] = "idle" /\ MutexFree
      /\ threadPc' = [threadPc EXCEPT ![b] = "delete"]
      /\ openRequests' = openRequests \ {r}
  BY DEF Erases, ThreadGoto
<1>2. /\ r # NoRequest /\ r \in Request /\ r \in openRequests /\ r \notin toAnalyze
      /\ \A c \in Bot \ {b} : request[c] # r
  BY <1>1, EngineFacts DEF HasRequest, EngineTypes
<1> HIDE DEF r
<1> USE <1>1, <1>2, EngineFacts DEF control, loop, user, botVars, queueVars, outVars, mainVars
<1>3. EngineTypes' BY DEF EngineTypes
<1>4. ListsAgree' BY DEF ListsAgree
<1>5. WalkIsOpen'
  <2>1. mainPc = "push" => r \notin todo BY DEF WalkIsOpen, r
  <2> QED BY <2>1 DEF WalkIsOpen, MutexFree
<1>6. RequestsAgree' BY DEF RequestsAgree, Waits, IsAnswered, LastIsLast
<1>7. ASSUME NEW c \in Bot PROVE UserIsThread(c)'
  BY DEF EngineTypes, UserIsThread, Calling
<1>8. ASSUME NEW c \in Bot PROVE HasRequest(c)'
  BY DEF EngineTypes, HasRequest, r
<1>9. ASSUME NEW c \in Bot PROVE ThreadAnswers(c)'
  BY DEF EngineTypes, ThreadAnswers, StopsForReason, Unbegun, Calling, Working, Past, Waits, IsAnswered
<1> QED BY <1>3, <1>4, <1>5, <1>6, <1>7, <1>8, <1>9 DEF EngineSound, ThreadsSound

\* It frees the request.
LEMMA DeletesSound ==
  ASSUME EngineInv, NEW b \in Bot, Deletes(b)
  PROVE  EngineTypes' /\ EngineSound'
<1> DEFINE r == request[b]
<1>1. /\ UNCHANGED <<botVars, numRequests, status, openRequests, queueVars, outVars,
                     hasResults, mainVars>>
      /\ threadPc[b] = "delete" /\ threadPc' = [threadPc EXCEPT ![b] = "pop"]
      /\ deleted' = deleted \cup {r} /\ request' = [request EXCEPT ![b] = NoRequest]
  BY DEF Deletes, ThreadGoto
<1>2. /\ r # NoRequest /\ r \in Request /\ r \in 1..numRequests /\ r \notin openRequests
      /\ \A c \in Bot \ {b} : request[c] # r
  BY <1>1, EngineFacts DEF HasRequest, EngineTypes
<1>3. request'[b] = NoRequest /\ \A c \in Bot \ {b} : request'[c] = request[c]
  BY <1>1, EngineFacts DEF EngineTypes
<1>4. writeOpen => IsAnswered(r)
  BY <1>1, EngineFacts DEF ThreadAnswers, Past
<1>5. request[b] = r OBVIOUS
<1> HIDE DEF r
<1> USE <1>1, <1>2, EngineFacts DEF control, loop, user, botVars, queueVars, outVars, mainVars
<1>6. EngineTypes' BY DEF EngineTypes
<1>7. ListsAgree' BY DEF ListsAgree
<1>8. WalkIsOpen'
  <2>1. ASSUME mainPc = "push", NEW c \in Bot PROVE request'[c] \notin todo
    <3>1. todo \subseteq Request BY <2>1 DEF WalkIsOpen, EngineTypes
    <3> QED BY <2>1, <3>1, <1>3, RequestAssumption DEF WalkIsOpen
  <2>2. ASSUME mainPc = "stopBot" PROVE request'[victim[2]] = victim[1]
    <3>1. victim[2] \in Bot /\ victim[1] \in openRequests /\ request[victim[2]] = victim[1]
      BY <2>2 DEF WalkIsOpen
    <3> QED BY <3>1, <1>3, <1>5
  <2> QED BY <2>1, <2>2 DEF WalkIsOpen
<1>9. RequestsAgree'
  <2>1. ASSUME NEW q \in openRequests, status[q] \in Bot PROVE request'[status[q]] = q
    <3>1. request[status[q]] = q BY <2>1 DEF RequestsAgree
    <3> QED BY <2>1, <3>1, <1>3, <1>5
  <2>2. \A q \in deleted' : writeOpen' => IsAnswered(q)'
    BY <1>4 DEF RequestsAgree, IsAnswered
  <2> QED BY <2>1, <2>2 DEF RequestsAgree, Waits, IsAnswered, LastIsLast
<1>10. ASSUME NEW c \in Bot PROVE UserIsThread(c)'
  BY DEF EngineTypes, UserIsThread, Calling
<1>11. ASSUME NEW c \in Bot PROVE HasRequest(c)'
  BY <1>3, <1>5 DEF EngineTypes, HasRequest
<1>12. ASSUME NEW c \in Bot PROVE ThreadAnswers(c)'
  <2>1. CASE c = b
    BY <2>1 DEF EngineTypes, ThreadAnswers, StopsForReason, Unbegun, Calling, Working, Past
  <2>2. CASE c # b
    BY <2>2, <1>3 DEF EngineTypes, ThreadAnswers, StopsForReason, Unbegun, Calling, Waits, IsAnswered
  <2> QED BY <2>1, <2>2
<1> QED BY <1>6, <1>7, <1>8, <1>9, <1>10, <1>11, <1>12 DEF EngineSound, ThreadsSound

\* A thread that works has an open request to itself, and it is not answered.
LEMMA WorkingThread ==
  ASSUME EngineInv, NEW b \in Bot, threadPc[b] \in Working
  PROVE  /\ request[b] # NoRequest /\ request[b] \in Request /\ request[b] \in 1..numRequests
         /\ request[b] \in openRequests /\ request[b] \notin toAnalyze \cup deleted
         /\ \A c \in Bot \ {b} : request[c] # request[b]
         /\ status[request[b]] # "in_queue" /\ ~IsAnswered(request[b])
<1>1. request[b] # NoRequest BY EngineFacts DEF HasRequest, Working
<1>2. /\ request[b] \in 1..numRequests /\ request[b] \notin toAnalyze \cup deleted
      /\ request[b] \in openRequests /\ \A c \in Bot \ {b} : request[c] # request[b]
  BY <1>1, EngineFacts DEF HasRequest, Working
<1>3. status[request[b]] # "in_queue" /\ ~IsAnswered(request[b])
  BY EngineFacts DEF ThreadAnswers
<1>4. request[b] \in Request BY <1>1, EngineFacts DEF EngineTypes
<1> QED BY <1>1, <1>2, <1>3, <1>4

\* While the bot runs, its thread waits for the result of the request.
LEMMA RunningThread ==
  ASSUME EngineInv, NEW b \in Bot, isRunning[b]
  PROVE  threadPc[b] = "report" /\ threadPc[b] \in Working /\ Calling(b) /\ userPc[b] # "idle"
  BY EngineFacts DEF UserIsThread, Calling, Working

\* The search begins: the bot is the request's, or the search is stopped at once.
LEMMA BeginsSound ==
  ASSUME EngineInv, NEW b \in Bot, Begins(b)
  PROVE  EngineTypes' /\ EngineSound'
<1> DEFINE r == request[b]
<1>1. /\ searchPc[b] = "begin"
      /\ UNCHANGED <<numRequests, openRequests, deleted, queueVars, outVars, threadVars, mainVars,
                     control, loop, asleep, user>>
      /\ searchPc' = [searchPc EXCEPT ![b] = IF UsesCallbackLoop(b) THEN "announce" ELSE "search"]
      /\ \/ /\ status[r] = "popped" /\ status' = [status EXCEPT ![r] = b]
            /\ shouldStopNow' = [shouldStopNow EXCEPT ![b] = @ \/ FALSE]
         \/ /\ status[r] # "popped" /\ status' = status
            /\ shouldStopNow' = [shouldStopNow EXCEPT ![b] = @ \/ TRUE]
  BY DEF Begins, SearchBegins, SearchGoto
<1>2. isRunning[b]
  BY <1>1 DEF EngineInv, IInv, AllSound, Sound, Round
<1>3. /\ threadPc[b] = "report" /\ Calling(b) /\ userPc[b] # "idle"
      /\ r # NoRequest /\ r \in Request /\ r \in openRequests /\ r \notin toAnalyze
      /\ \A c \in Bot \ {b} : request[c] # r
      /\ status[r] # "in_queue" /\ ~IsAnswered(r) /\ r \in 1..numRequests
  BY <1>2, RunningThread, WorkingThread
<1>4. request[b] = r OBVIOUS
<1>5. status[r] \notin Bot
  BY <1>1, <1>2, <1>3, EngineFacts DEF ThreadAnswers, StopsForReason, Unbegun
<1>6. /\ \A c \in Bot \ {b} : searchPc'[c] = searchPc[c] /\ shouldStopNow'[c] = shouldStopNow[c]
      /\ searchPc'[b] \in {"announce", "search"}
  BY <1>1, EngineFacts DEF TypeOK
<1>7. \A q \in Request \ {r} : status'[q] = status[q]
  BY <1>1, <1>3, EngineFacts DEF EngineTypes
<1>8. /\ status[r] = "popped" => status'[r] = b /\ shouldStopNow'[b] = shouldStopNow[b]
      /\ status[r] # "popped" => status[r] = "terminated" /\ status'[r] = status[r]
  <2>1. status'[r] = IF status[r] = "popped" THEN b ELSE status[r]
    BY <1>1, <1>3, EngineFacts DEF EngineTypes
  <2>2. status[r] \in {"unborn", "popped", "terminated"}
    BY <1>3, <1>5, EngineFacts DEF EngineTypes, Unassigned
  <2>3. status[r] # "unborn"
    <3>1. r <= numRequests /\ r \in Int /\ numRequests \in Int BY <1>3, EngineFacts DEF EngineTypes
    <3> QED BY <1>3, <3>1, EngineFacts DEF RequestsAgree
  <2>4. status[r] = "popped" => shouldStopNow'[b] = shouldStopNow[b]
    BY <1>1, EngineFacts DEF TypeOK
  <2> QED BY <2>1, <2>2, <2>3, <2>4
<1> HIDE DEF r
<1>9. EngineTypes'
  BY <1>1, <1>3, EngineFacts DEF EngineTypes, queueVars, outVars, threadVars, mainVars
<1> USE EngineFacts, <1>1, <1>3, <1>4, <1>6, <1>7, <1>8
    DEF control, loop, user, queueVars, outVars, threadVars, mainVars
<1>10. ListsAgree' BY DEF ListsAgree
<1>11. WalkIsOpen'
  <2>1. mainPc = "push" => r \notin todo /\ todo \subseteq Request
    BY DEF WalkIsOpen, EngineTypes
  <2>2. mainPc = "stopBot" => victim[1] \in Request /\ status'[victim[1]] = "terminated"
    BY DEF WalkIsOpen, EngineTypes
  <2> QED BY <2>1, <2>2 DEF WalkIsOpen
<1>12. RequestsAgree'
  <2>1. \A q \in openRequests : status'[q] \in Bot => request[status'[q]] = q
    <3>1. status'[r] \in Bot => request[status'[r]] = r BY <1>5
    <3>2. \A q \in openRequests : q # r => status'[q] = status[q] BY DEF EngineTypes
    <3> QED BY <3>1, <3>2 DEF RequestsAgree
  <2>2. \A q \in toAnalyze : Waits(q)'
    BY DEF RequestsAgree, Waits, IsAnswered, EngineTypes
  <2>3. \A q \in Request : status'[q] = "unborn" => q > numRequests
    BY StatusAssumption DEF RequestsAgree, Unassigned
  <2>4. \A q \in Request : q > numRequests \/ status'[q] = "in_queue" => out[q] = <<>>
    BY StatusAssumption DEF RequestsAgree, Unassigned
  <2> QED BY <2>1, <2>2, <2>3, <2>4 DEF RequestsAgree, IsAnswered, LastIsLast
<1>13. ASSUME NEW c \in Bot PROVE UserIsThread(c)' /\ HasRequest(c)'
  BY DEF UserIsThread, HasRequest, Calling
<1>14. ASSUME NEW c \in Bot PROVE ThreadAnswers(c)'
  <2>1. CASE c = b
    BY <2>1, <1>2, StatusAssumption
    DEF ThreadAnswers, StopsForReason, Unbegun, Calling, Working, Past, IsAnswered, Unassigned
  <2>2. CASE c # b /\ request[c] # NoRequest
    <3>1. status'[request[c]] = status[request[c]] BY <2>2 DEF EngineTypes
    <3> QED BY <2>2, <3>1
            DEF ThreadAnswers, StopsForReason, Unbegun, Calling, Waits, IsAnswered
  <2>3. CASE c # b /\ request[c] = NoRequest
    BY <2>3 DEF HasRequest, ThreadAnswers, StopsForReason, Unbegun, Calling, Working, Past
  <2> QED BY <2>1, <2>2, <2>3
<1> QED BY <1>9, <1>10, <1>11, <1>12, <1>13, <1>14 DEF EngineSound, ThreadsSound

\* The search ends, with a result unless it was stopped.
LEMMA EndsSound ==
  ASSUME EngineInv, NEW b \in Bot, Ends(b)
  PROVE  EngineTypes' /\ EngineSound'
<1>1. /\ UNCHANGED <<requests, queueVars, outVars, threadPc, request, mainVars, control, user>>
      /\ searchPc[b] = "search" /\ shouldStopNow' = [shouldStopNow EXCEPT ![b] = TRUE]
      /\ searchPc' = [searchPc EXCEPT ![b] = IF UsesCallbackLoop(b) THEN "stopLoop" ELSE "finish"]
  BY DEF Ends, SearchEnds, SearchGoto
<1>2. PICK has \in BOOLEAN : /\ ~shouldStopNow[b] => has
                             /\ hasResults' = [hasResults EXCEPT ![b] = has]
  BY DEF Ends
<1>3. isRunning[b] /\ Calling(b) /\ threadPc[b] = "report"
  BY <1>1, RunningThread DEF EngineInv, IInv, AllSound, Sound, Round
<1> USE EngineFacts, <1>1, <1>2, <1>3
    DEF control, loop, user, requests, queueVars, outVars, mainVars
<1>4. EngineTypes' BY DEF EngineTypes
<1>5. ListsAgree' /\ WalkIsOpen' BY DEF ListsAgree, WalkIsOpen
<1>6. RequestsAgree' BY DEF RequestsAgree, Waits, IsAnswered, LastIsLast
<1>7. ASSUME NEW c \in Bot PROVE UserIsThread(c)' /\ HasRequest(c)'
  BY DEF UserIsThread, HasRequest, Calling
<1>8. ASSUME NEW c \in Bot PROVE ThreadAnswers(c)'
  <2>1. CASE c = b
    <3>1. searchPc'[b] \in {"stopLoop", "finish"} /\ hasResults'[b] = has
      BY DEF TypeOK, EngineTypes
    <3>2. writeOpen /\ shouldStopNow[b] => status[request[b]] = "terminated"
      BY DEF ThreadAnswers, StopsForReason
    <3> QED BY <2>1, <3>1, <3>2
        DEF ThreadAnswers, StopsForReason, Unbegun, Calling, Waits, IsAnswered, Working, Past
  <2>2. CASE c # b
    <3>1. UNCHANGED <<searchPc[c], shouldStopNow[c], hasResults[c]>>
      BY <2>2 DEF TypeOK, EngineTypes
    <3> QED BY <3>1 DEF ThreadAnswers, StopsForReason, Unbegun, Calling, Waits, IsAnswered
  <2> QED BY <2>1, <2>2
<1> QED BY <1>4, <1>5, <1>6, <1>7, <1>8 DEF EngineSound, ThreadsSound

\* The callback reports, while the thread waits for the search.
LEMMA ReportsDuringSearchSound ==
  ASSUME EngineInv, NEW b \in Bot, ReportsDuringSearch(b)
  PROVE  EngineTypes' /\ EngineSound'
<1>1. /\ UNCHANGED <<requests, queueVars, writeOpen, threadVars, mainVars,
                     control, shouldStopNow, searchPc, user>>
      /\ callbackPc[b] = "calling"
      /\ Write(request[b], "during") \/ UNCHANGED out
  BY DEF ReportsDuringSearch, CallbackReturns, CallbackGoto
<1>2. isRunning[b]
  BY <1>1 DEF EngineInv, IInv, AllSound, Sound, Round, Loop
<1>3. PICK r \in Request :
      /\ request[b] = r /\ threadPc[b] = "report" /\ r # NoRequest /\ r \in openRequests
      /\ r \in 1..numRequests /\ r \notin toAnalyze \cup deleted
      /\ \A c \in Bot \ {b} : request[c] # r
      /\ status[r] # "in_queue" /\ ~IsAnswered(r)
  BY <1>2, RunningThread, WorkingThread
<1>4. CASE UNCHANGED out
  <2>1. UNCHANGED engineVars BY <1>1, <1>4 DEF engineVars, outVars
  <2>2. ASSUME NEW c \in Bot PROVE UserIsThread(c)' /\ StopsForReason(c)'
    BY <1>1, EngineFacts
    DEF UserIsThread, Calling, ThreadAnswers, StopsForReason, Unbegun, control, user,
        requests, threadVars
  <2> QED BY <2>1, <2>2, BotAlone
<1>5. CASE Write(r, "during")
  <2> USE EngineFacts, <1>1
      DEF control, loop, user, requests, queueVars, outVars, threadVars, mainVars
  <2>1. /\ out' \in [Request -> Seq({"during", "final", "noResults"})]
        /\ LastIsLast(r)' /\ ~IsAnswered(r)'
        /\ \A q \in Request \ {r} :
             /\ out'[q] = out[q]
             /\ IsAnswered(q)' <=> IsAnswered(q)
             /\ LastIsLast(q)' <=> LastIsLast(q)
    BY <1>3, <1>5, Writes
  <2>3. EngineTypes' BY <2>1 DEF EngineTypes
  <2>4. ListsAgree' /\ WalkIsOpen' BY DEF ListsAgree, WalkIsOpen
  <2>5. RequestsAgree'
    <3>1. \A q \in toAnalyze : Waits(q)'
      BY <1>3, <2>1 DEF RequestsAgree, Waits, EngineTypes
    <3>2. \A q \in Request : q > numRequests \/ status[q] = "in_queue" => out'[q] = <<>>
      <4>1. r <= numRequests /\ r \in Int /\ numRequests \in Int BY <1>3 DEF EngineTypes
      <4> QED BY <1>3, <2>1, <4>1 DEF RequestsAgree
    <3>3. \A q \in deleted : writeOpen => IsAnswered(q)'
      BY <1>3, <2>1 DEF RequestsAgree, EngineTypes
    <3>4. \A q \in Request : LastIsLast(q)' BY <2>1 DEF RequestsAgree
    <3>5. /\ \A q \in openRequests : status[q] \in Bot => request[status[q]] = q
          /\ \A q \in Request : status[q] = "unborn" => q > numRequests
      BY DEF RequestsAgree
    <3> QED BY <3>1, <3>2, <3>3, <3>4, <3>5 DEF RequestsAgree
  <2>6. ASSUME NEW c \in Bot PROVE UserIsThread(c)' /\ HasRequest(c)'
    BY DEF UserIsThread, HasRequest, Calling
  <2>7. ASSUME NEW c \in Bot PROVE ThreadAnswers(c)'
    <3>1. StopsForReason(c)' BY DEF ThreadAnswers, StopsForReason, Unbegun, Calling
    <3>2. CASE c = b
      BY <1>3, <2>1, <3>1, <3>2 DEF ThreadAnswers, Working, Past
    <3>3. CASE c # b /\ request[c] # NoRequest
      <4>1. request[c] \in Request \ {r} BY <1>3, <3>3 DEF EngineTypes
      <4>2. IsAnswered(request[c])' <=> IsAnswered(request[c]) BY <2>1, <4>1
      <4> QED BY <3>1, <4>2 DEF ThreadAnswers, Waits
    <3>4. CASE c # b /\ request[c] = NoRequest
      BY <3>1, <3>4 DEF HasRequest, ThreadAnswers, Working, Past
    <3> QED BY <3>2, <3>3, <3>4
  <2> QED BY <2>3, <2>4, <2>5, <2>6, <2>7 DEF EngineSound, ThreadsSound
<1> QED BY <1>1, <1>3, <1>4, <1>5

\* The thread reports the result, or that there is none.
LEMMA ReportsSound ==
  ASSUME EngineInv, NEW b \in Bot, Reports(b)
  PROVE  EngineTypes' /\ EngineSound'
<1>1. /\ UNCHANGED <<botVars, requests, queueVars, writeOpen, request, hasResults, mainVars>>
      /\ threadPc[b] = "report" /\ userPc[b] = "idle"
      /\ threadPc' = [threadPc EXCEPT ![b] = "clear"]
      /\ IF hasResults[b] THEN Write(request[b], "final")
         ELSE IF status[request[b]] = "terminated" THEN Write(request[b], "noResults")
         ELSE UNCHANGED out
  BY DEF Reports, ThreadGoto
<1>2. PICK r \in Request :
      /\ request[b] = r /\ r # NoRequest /\ r \in openRequests
      /\ r \in 1..numRequests /\ r \notin toAnalyze \cup deleted
      /\ \A c \in Bot \ {b} : request[c] # r
      /\ status[r] # "in_queue" /\ ~IsAnswered(r)
  BY <1>1, WorkingThread DEF Working
<1>3. writeOpen => hasResults[b] \/ status[r] = "terminated"
  BY <1>1, <1>2, EngineFacts DEF UserIsThread, ThreadAnswers, StopsForReason, Calling
<1>4. /\ out' \in [Request -> Seq({"during", "final", "noResults"})]
      /\ \A q \in Request \ {r} :
           /\ out'[q] = out[q]
           /\ IsAnswered(q)' <=> IsAnswered(q)
           /\ LastIsLast(q)' <=> LastIsLast(q)
      /\ LastIsLast(r)'
      /\ writeOpen => IsAnswered(r)'
  <2>1. CASE Write(r, "final") BY <1>2, <2>1, EngineFacts, Writes
  <2>2. CASE Write(r, "noResults") BY <1>2, <2>2, EngineFacts, Writes
  <2>3. CASE UNCHANGED out /\ ~writeOpen
    BY <2>3, EngineFacts DEF EngineTypes, RequestsAgree, IsAnswered, LastIsLast
  <2> QED BY <1>1, <1>2, <1>3, <2>1, <2>2, <2>3
<1> USE EngineFacts, <1>1, <1>2, <1>4
    DEF botVars, control, loop, user, requests, queueVars, mainVars
<1>5. EngineTypes' BY DEF EngineTypes
<1>6. ListsAgree' /\ WalkIsOpen' BY DEF ListsAgree, WalkIsOpen
<1>7. RequestsAgree'
  <2>1. \A q \in toAnalyze : Waits(q)'
    BY DEF RequestsAgree, Waits, EngineTypes
  <2>2. \A q \in Request : q > numRequests \/ status[q] = "in_queue" => out'[q] = <<>>
    <3>1. r <= numRequests /\ r \in Int /\ numRequests \in Int BY DEF EngineTypes
    <3>2. ASSUME NEW q \in Request, q > numRequests \/ status[q] = "in_queue"
          PROVE  out'[q] = <<>>
      <4>1. q # r BY <3>1, <3>2
      <4>2. out[q] = <<>> BY <3>2 DEF RequestsAgree
      <4> QED BY <4>1, <4>2
    <3> QED BY <3>2
  <2>3. \A q \in deleted : writeOpen => IsAnswered(q)'
    BY DEF RequestsAgree, EngineTypes
  <2>4. \A q \in Request : LastIsLast(q)' BY DEF RequestsAgree
  <2>5. /\ \A q \in openRequests : status[q] \in Bot => request[status[q]] = q
        /\ \A q \in Request : status[q] = "unborn" => q > numRequests
    BY DEF RequestsAgree
  <2> QED BY <2>1, <2>2, <2>3, <2>4, <2>5 DEF RequestsAgree
<1>8. ASSUME NEW c \in Bot PROVE UserIsThread(c)' /\ HasRequest(c)'
  <2>1. CASE c = b BY <2>1 DEF EngineTypes, UserIsThread, HasRequest, Calling
  <2>2. CASE c # b BY <2>2 DEF EngineTypes, UserIsThread, HasRequest, Calling
  <2> QED BY <2>1, <2>2
<1>9. ASSUME NEW c \in Bot PROVE ThreadAnswers(c)'
  <2>1. CASE c = b
    <3>1. threadPc'[c] = "clear" BY <2>1 DEF EngineTypes
    <3> QED BY <2>1, <3>1 DEF ThreadAnswers, StopsForReason, Unbegun, Calling, Working, Past
  <2>2. CASE c # b /\ request[c] # NoRequest
    <3>1. request[c] \in Request \ {r} BY <2>2 DEF EngineTypes
    <3>2. IsAnswered(request[c])' <=> IsAnswered(request[c]) BY <3>1
    <3>3. threadPc'[c] = threadPc[c] BY <2>2 DEF EngineTypes
    <3> QED BY <3>2, <3>3 DEF ThreadAnswers, Waits, StopsForReason, Unbegun, Calling
  <2>3. CASE c # b /\ request[c] = NoRequest
    <3>1. threadPc'[c] = threadPc[c] BY <2>3 DEF EngineTypes
    <3> QED BY <2>3, <3>1
        DEF HasRequest, ThreadAnswers, Working, Past, StopsForReason, Unbegun, Calling
  <2> QED BY <2>1, <2>2, <2>3
<1> QED BY <1>5, <1>6, <1>7, <1>8, <1>9 DEF EngineSound, ThreadsSound

-----------------------------------------------------------------------------
(* Steps of the main thread.                                               *)

\* While it walks, the next one is an open request.
LEMMA NextOpen ==
  ASSUME EngineInv, mainPc \in {"push", "terminate", "stopBot"}
  PROVE  /\ Min(todo) \in todo /\ Min(todo) \in Request /\ Min(todo) \in openRequests
         /\ Min(todo) \in 1..numRequests /\ todo \subseteq Request
<1>1. todo \subseteq openRequests /\ todo # {} /\ openRequests \subseteq Request
  BY EngineFacts DEF WalkIsOpen, EngineTypes
<1>2. todo \subseteq Nat BY <1>1 DEF Request
<1>3. Min(todo) \in todo BY <1>1, <1>2, LeastIsMember
<1> QED BY <1>1, <1>3, EngineFacts DEF ListsAgree

\* A line opens its requests.
LEMMA OpensSound ==
  ASSUME EngineInv, Opens
  PROVE  EngineTypes' /\ EngineSound'
<1>1. mainPc = "read" /\ UNCHANGED <<botVars, deleted, queueVars, outVars, threadVars>>
  BY DEF Opens
<1>2. PICK last \in (numRequests + 1)..MaxRequests :
        LET new == (numRequests + 1)..last IN
        /\ numRequests' = last
        /\ status' = [r \in Request |-> IF r \in new THEN "in_queue" ELSE status[r]]
        /\ openRequests' = openRequests \cup new
        /\ MainGoto("push", new)
  BY DEF Opens
<1> DEFINE new == (numRequests + 1)..last
<1>3. /\ numRequests \in Nat /\ last \in Nat /\ last > numRequests /\ last <= MaxRequests
      /\ MaxRequests \in Nat
  BY RequestAssumption, EngineFacts DEF EngineTypes
<1>4. new \subseteq Request /\ new # {} /\ new \cap (1..numRequests) = {} /\ new \subseteq 1..last
  <2>1. numRequests + 1 \in new BY <1>3
  <2>2. new \cap (1..numRequests) = {} BY <1>3
  <2>3. new \subseteq 1..last /\ new \subseteq 1..MaxRequests BY <1>3
  <2> HIDE DEF new
  <2> QED BY <2>1, <2>2, <2>3 DEF Request
<1>5. /\ numRequests' = last /\ openRequests' = openRequests \cup new
      /\ \A r \in new : status'[r] = "in_queue"
      /\ \A r \in Request \ new : status'[r] = status[r]
      /\ status' \in [Request -> Unassigned \cup Bot]
      /\ mainPc' = "push" /\ todo' = new /\ victim' = <<>>
  <2>1. /\ numRequests' = last /\ openRequests' = openRequests \cup new
        /\ mainPc' = "push" /\ todo' = new /\ victim' = <<>>
    BY <1>2 DEF MainGoto
  <2>2. status' = [r \in Request |-> IF r \in new THEN "in_queue" ELSE status[r]]
    BY <1>2
  <2> HIDE DEF new
  <2>3. "in_queue" \in Unassigned BY DEF Unassigned
  <2>4. status' \in [Request -> Unassigned \cup Bot]
    BY <2>2, <2>3, EngineFacts DEF EngineTypes
  <2>5. \A r \in new : status'[r] = "in_queue" BY <2>2, <1>4
  <2>6. \A r \in Request \ new : status'[r] = status[r] BY <2>2
  <2> QED BY <2>1, <2>4, <2>5, <2>6
<1>6. 1..numRequests \subseteq 1..last BY <1>3
<1> HIDE DEF new
<1> USE EngineFacts, <1>1, <1>4, <1>5, <1>6
    DEF botVars, control, loop, user, queueVars, outVars, threadVars
<1>7. EngineTypes'
  <2>1. numRequests' \in 0..MaxRequests BY <1>3
  <2> QED BY <2>1 DEF EngineTypes
<1>8. \A b \in Bot : request[b] \notin new
  <2>1. NoRequest \notin new BY RequestAssumption
  <2> QED BY <2>1 DEF HasRequest
<1>9. ListsAgree' BY DEF ListsAgree
<1>10. WalkIsOpen' BY <1>8 DEF WalkIsOpen, ListsAgree
<1>11. RequestsAgree'
  <2>1. \A q \in openRequests' : status'[q] \in Bot => request'[status'[q]] = q
    <3>1. \A q \in new : status'[q] \notin Bot BY StatusAssumption DEF Unassigned
    <3>2. \A q \in openRequests \ new : status'[q] = status[q] BY DEF EngineTypes
    <3> QED BY <3>1, <3>2 DEF RequestsAgree
  <2>2. \A q \in toAnalyze : Waits(q)'
    <3>1. \A q \in toAnalyze : q \in Request \ new BY DEF ListsAgree, EngineTypes
    <3> QED BY <3>1 DEF RequestsAgree, Waits, IsAnswered
  <2>3. \A q \in Request : status'[q] = "unborn" => q > last
    <3>1. ASSUME NEW q \in Request, status'[q] = "unborn" PROVE q > last
      <4>1. q \notin new BY <3>1
      <4>2. q > numRequests BY <3>1, <4>1 DEF RequestsAgree
      <4> QED BY <1>3, <4>1, <4>2 DEF new, Request
    <3> QED BY <3>1
  <2>4. \A q \in Request : q > last \/ status'[q] = "in_queue" => out[q] = <<>>
    <3>1. ASSUME NEW q \in Request, q > last \/ status'[q] = "in_queue" PROVE out[q] = <<>>
      <4>1. q \in new => q > numRequests BY <1>3 DEF new
      <4>2. q > last => q > numRequests BY <1>3 DEF Request
      <4> QED BY <3>1, <4>1, <4>2 DEF RequestsAgree
    <3> QED BY <3>1
  <2> QED BY <2>1, <2>2, <2>3, <2>4 DEF RequestsAgree, IsAnswered, LastIsLast
<1>12. ASSUME NEW c \in Bot PROVE UserIsThread(c)'
  BY DEF UserIsThread, Calling
<1>13. ASSUME NEW c \in Bot PROVE HasRequest(c)'
  BY <1>8 DEF HasRequest
<1>14. ASSUME NEW c \in Bot PROVE ThreadAnswers(c)'
  <2>1. CASE request[c] = NoRequest
    BY <2>1 DEF HasRequest, ThreadAnswers, StopsForReason, Unbegun, Calling, Working, Past
  <2>2. CASE request[c] # NoRequest
    <3>1. status'[request[c]] = status[request[c]] BY <2>2, <1>8 DEF EngineTypes
    <3> QED BY <3>1 DEF ThreadAnswers, Waits, IsAnswered, StopsForReason, Unbegun, Calling
  <2> QED BY <2>1, <2>2
<1> QED BY <1>7, <1>9, <1>10, <1>11, <1>12, <1>13, <1>14 DEF EngineSound, ThreadsSound

\* It pushes the next one.
LEMMA PushesSound ==
  ASSUME EngineInv, Pushes
  PROVE  EngineTypes' /\ EngineSound'
<1>1. /\ mainPc = "push" /\ toAnalyze' = toAnalyze \cup {Min(todo)}
      /\ UNCHANGED <<botVars, requests, toAnalyzeReadOnly, outVars, threadVars>>
      /\ mainPc' = IF todo = {Min(todo)} THEN "read" ELSE "push"
      /\ todo' = todo \ {Min(todo)} /\ victim' = <<>>
  BY DEF Pushes, After, MainGoto
<1>2. PICK r \in todo : /\ r = Min(todo) /\ r \in Request /\ r \in openRequests
                        /\ todo \subseteq Request
  BY <1>1, NextOpen
<1>3. /\ toAnalyze' = toAnalyze \cup {r} /\ todo' = todo \ {r}
      /\ mainPc' = IF todo = {r} THEN "read" ELSE "push"
  BY <1>1, <1>2
<1>4. status[r] = "in_queue" /\ \A c \in Bot : request[c] # r
  BY <1>1, EngineFacts DEF WalkIsOpen
<1> USE EngineFacts, <1>1, <1>2, <1>3, <1>4
    DEF botVars, control, loop, user, requests, outVars, threadVars
<1>5. EngineTypes' BY DEF EngineTypes
<1>6. ListsAgree' BY DEF ListsAgree
<1>7. WalkIsOpen' BY DEF WalkIsOpen
<1>8. RequestsAgree'
  BY DEF RequestsAgree, Waits, IsAnswered, LastIsLast
<1>9. ASSUME NEW c \in Bot PROVE UserIsThread(c)' /\ HasRequest(c)'
  BY DEF UserIsThread, Calling, HasRequest
<1>10. ASSUME NEW c \in Bot PROVE ThreadAnswers(c)'
  BY DEF ThreadAnswers, Waits, IsAnswered, StopsForReason, Unbegun, Calling
<1> QED BY <1>5, <1>6, <1>7, <1>8, <1>9, <1>10 DEF EngineSound, ThreadsSound

\* An order to terminate names open requests; the input ends.
LEMMA MainReadsSound ==
  ASSUME EngineInv, OrdersTermination \/ Closes
  PROVE  EngineTypes' /\ EngineSound'
<1>1. /\ UNCHANGED <<botVars, requests, toAnalyze, out, threadVars>> /\ victim' = <<>>
      /\ \/ /\ UNCHANGED <<toAnalyzeReadOnly, writeOpen>> /\ mainPc' = "terminate"
            /\ todo' \subseteq openRequests /\ todo' # {}
         \/ /\ toAnalyzeReadOnly' = TRUE
            /\ \/ writeOpen' = FALSE /\ mainPc' = "stopAll" /\ todo' = Bot
               \/ writeOpen' = writeOpen /\ mainPc' = "join" /\ todo' = {}
  BY DEF OrdersTermination, Closes, MainGoto, queueVars, outVars
<1> USE EngineFacts, <1>1
    DEF botVars, control, loop, user, requests, threadVars
<1>2. writeOpen' => writeOpen BY DEF EngineTypes
<1>3. EngineTypes' BY DEF EngineTypes
<1>4. ListsAgree' /\ WalkIsOpen' BY DEF ListsAgree, WalkIsOpen
<1>5. RequestsAgree' BY <1>2 DEF RequestsAgree, Waits, IsAnswered, LastIsLast
<1>6. ASSUME NEW c \in Bot PROVE UserIsThread(c)' /\ HasRequest(c)'
  BY <1>2 DEF UserIsThread, Calling, HasRequest
<1>7. ASSUME NEW c \in Bot PROVE ThreadAnswers(c)'
  BY <1>2 DEF ThreadAnswers, Waits, IsAnswered, StopsForReason, Unbegun, Calling, Working, Past
<1> QED BY <1>3, <1>4, <1>5, <1>6, <1>7 DEF EngineSound, ThreadsSound

\* It terminates the next one.
LEMMA TerminatesNextSound ==
  ASSUME EngineInv, TerminatesNext
  PROVE  EngineTypes' /\ EngineSound'
<1>1. /\ mainPc = "terminate"
      /\ UNCHANGED <<botVars, numRequests, openRequests, deleted, queueVars, writeOpen,
                     threadVars>>
      /\ status' = [status EXCEPT ![Min(todo)] = "terminated"]
      /\ IF status[Min(todo)] = "in_queue" THEN Write(Min(todo), "noResults") ELSE UNCHANGED out
      /\ IF status[Min(todo)] \in Bot
         THEN mainPc' = "stopBot" /\ victim' = <<Min(todo), status[Min(todo)]>> /\ UNCHANGED todo
         ELSE After("terminate", Min(todo), "read")
  BY DEF TerminatesNext
<1>2. PICK r \in todo : /\ r = Min(todo) /\ r \in Request /\ r \in openRequests
                        /\ todo \subseteq Request /\ r \in 1..numRequests
  BY <1>1, NextOpen
<1>3. /\ status'[r] = "terminated" /\ \A q \in Request \ {r} : status'[q] = status[q]
      /\ status' \in [Request -> Unassigned \cup Bot]
  BY <1>1, <1>2, EngineFacts DEF EngineTypes, Unassigned
<1>4. /\ out' \in [Request -> Seq({"during", "final", "noResults"})]
      /\ \A q \in Request \ {r} :
           /\ out'[q] = out[q]
           /\ IsAnswered(q)' <=> IsAnswered(q)
           /\ LastIsLast(q)' <=> LastIsLast(q)
      /\ LastIsLast(r)'
      /\ status[r] = "in_queue" /\ writeOpen => IsAnswered(r)'
      /\ status[r] # "in_queue" => (IsAnswered(r)' <=> IsAnswered(r))
      /\ IsAnswered(r) => IsAnswered(r)'
  <2>1. CASE status[r] = "in_queue"
    <3>1. ~IsAnswered(r) BY <1>2, <2>1, EngineFacts DEF RequestsAgree, IsAnswered
    <3>2. Write(r, "noResults") BY <1>1, <1>2, <2>1
    <3> QED BY <1>2, <2>1, <3>1, <3>2, EngineFacts, Writes
  <2>2. CASE status[r] # "in_queue"
    <3>1. out' = out BY <1>1, <1>2, <2>2
    <3> QED BY <1>2, <2>2, <3>1, EngineFacts DEF EngineTypes, RequestsAgree, IsAnswered, LastIsLast
  <2> QED BY <2>1, <2>2
<1>5. \/ /\ status[r] \in Bot /\ mainPc' = "stopBot" /\ victim' = <<r, status[r]>>
         /\ todo' = todo
      \/ /\ status[r] \notin Bot /\ victim' = <<>> /\ todo' = todo \ {r}
         /\ mainPc' = IF todo = {r} THEN "read" ELSE "terminate"
  BY <1>1, <1>2 DEF After, MainGoto
<1>6. UNCHANGED <<botVars, numRequests, openRequests, deleted, queueVars, writeOpen, threadVars>>
  BY <1>1
<1> USE EngineFacts, <1>2, <1>3, <1>4, <1>6
    DEF botVars, control, loop, user, queueVars, threadVars
<1>7. EngineTypes'
  <2>1. /\ mainPc' \in {"read", "terminate", "stopBot"} /\ todo' \subseteq Request
        /\ victim' = <<>> \/ victim' \in Request \X Bot
    BY <1>5
  <2> QED BY <2>1 DEF EngineTypes
<1>8. ListsAgree' BY DEF ListsAgree
<1>9. WalkIsOpen'
  <2>1. todo \subseteq openRequests /\ todo # {} BY <1>1 DEF WalkIsOpen
  <2>2. CASE status[r] \in Bot
    <3>1. request[status[r]] = r BY <2>2 DEF RequestsAgree
    <3>2. mainPc' = "stopBot" /\ victim' = <<r, status[r]>> /\ todo' = todo BY <2>2, <1>5
    <3> QED BY <2>1, <2>2, <3>1, <3>2 DEF WalkIsOpen
  <2>3. CASE status[r] \notin Bot
    <3>1. /\ todo' = todo \ {r}
          /\ mainPc' = IF todo = {r} THEN "read" ELSE "terminate" BY <2>3, <1>5
    <3> QED BY <2>1, <3>1 DEF WalkIsOpen
  <2> QED BY <2>2, <2>3
<1>10. RequestsAgree'
  <2>1. "terminated" \notin Bot BY StatusAssumption DEF Unassigned
  <2>2. \A q \in openRequests : status'[q] \in Bot => request[status'[q]] = q
    <3>1. ASSUME NEW q \in openRequests, status'[q] \in Bot PROVE request[status'[q]] = q
      <4>1. q # r /\ q \in Request BY <2>1, <3>1 DEF EngineTypes
      <4> QED BY <3>1, <4>1 DEF RequestsAgree
    <3> QED BY <3>1
  <2>3. ASSUME NEW q \in toAnalyze PROVE Waits(q)'
    <3>1. Waits(q) /\ q \in Request BY DEF RequestsAgree, EngineTypes
    <3>2. CASE q = r BY <3>1, <3>2 DEF Waits
    <3>3. CASE q # r BY <3>1, <3>3 DEF Waits
    <3> QED BY <3>2, <3>3
  <2>4. ASSUME NEW q \in Request
        PROVE  /\ status'[q] = "unborn" => q > numRequests
               /\ q > numRequests \/ status'[q] = "in_queue" => out'[q] = <<>>
    <3>1. CASE q = r
      <4>1. r <= numRequests /\ r \in Int /\ numRequests \in Int BY DEF EngineTypes
      <4> QED BY <3>1, <4>1
    <3>2. CASE q # r
      <4>1. status'[q] = status[q] /\ out'[q] = out[q] BY <3>2
      <4> QED BY <4>1 DEF RequestsAgree
    <3> QED BY <3>1, <3>2
  <2>5. \A q \in Request : LastIsLast(q)' BY DEF RequestsAgree
  <2>6. ASSUME NEW q \in deleted, writeOpen PROVE IsAnswered(q)'
    <3>1. IsAnswered(q) /\ q \in Request BY <2>6 DEF RequestsAgree, EngineTypes
    <3> QED BY <3>1
  <2> QED BY <2>2, <2>3, <2>4, <2>5, <2>6 DEF RequestsAgree
<1>11. ASSUME NEW c \in Bot PROVE UserIsThread(c)' /\ HasRequest(c)'
  BY DEF UserIsThread, Calling, HasRequest
<1>12. ASSUME NEW c \in Bot PROVE ThreadAnswers(c)'
  <2>1. "terminated" \notin Bot BY StatusAssumption DEF Unassigned
  <2>2. CASE request[c] = NoRequest
    BY <2>2 DEF HasRequest, ThreadAnswers, Working, Past, StopsForReason, Unbegun, Calling
  <2>3. CASE request[c] = r
    <3>1. StopsForReason(c)'
      BY <2>1, <2>3 DEF ThreadAnswers, StopsForReason, Unbegun, Calling
    <3>2. threadPc[c] = "claim" => Waits(r) BY <2>3 DEF ThreadAnswers
    <3>3. threadPc[c] = "claim" => Waits(r)' BY <3>2 DEF Waits
    <3>4. threadPc[c] \in Working => status[r] # "in_queue" /\ ~IsAnswered(r)
      BY <2>3 DEF ThreadAnswers
    <3>5. threadPc[c] \in Past /\ writeOpen => IsAnswered(r) BY <2>3 DEF ThreadAnswers
    <3> QED BY <2>3, <3>1, <3>3, <3>4, <3>5 DEF ThreadAnswers
  <2>4. CASE request[c] # NoRequest /\ request[c] # r
    <3>1. request[c] \in Request \ {r} BY <2>4 DEF EngineTypes
    <3>2. status'[request[c]] = status[request[c]] BY <3>1
    <3>3. IsAnswered(request[c])' <=> IsAnswered(request[c]) BY <3>1
    <3> QED BY <3>2, <3>3 DEF ThreadAnswers, Waits, StopsForReason, Unbegun, Calling
  <2> QED BY <2>2, <2>3, <2>4
<1> QED BY <1>7, <1>8, <1>9, <1>10, <1>11, <1>12 DEF EngineSound, ThreadsSound

\* It stops the bot that searches for the request it has terminated.
LEMMA StopsBotSound ==
  ASSUME EngineInv, StopsBot
  PROVE  EngineTypes' /\ EngineSound'
<1>1. /\ mainPc = "stopBot"
      /\ victim[2] \in Bot /\ victim[1] \in todo /\ request[victim[2]] = victim[1]
      /\ status[victim[1]] = "terminated" /\ todo \subseteq openRequests
  BY EngineFacts DEF StopsBot, WalkIsOpen
<1>2. PICK b \in Bot : b = victim[2] BY <1>1
<1>3. /\ shouldStopNow' = [shouldStopNow EXCEPT ![b] = TRUE]
      /\ UNCHANGED <<control, searchPc, loop, asleep, user, requests, queueVars, outVars,
                     threadVars>>
      /\ mainPc' \in {"read", "terminate"} /\ todo' = todo \ {victim[1]} /\ victim' = <<>>
      /\ mainPc' = "terminate" => todo' # {}
  BY <1>1, <1>2 DEF StopsBot, stopWithoutWait, After, MainGoto
<1>4. status[request[b]] = "terminated" BY <1>1, <1>2
<1> USE EngineFacts, <1>3
    DEF control, loop, user, requests, queueVars, outVars, threadVars
<1>5. EngineTypes' BY DEF EngineTypes
<1>6. ListsAgree' /\ WalkIsOpen' BY <1>1 DEF ListsAgree, WalkIsOpen
<1>7. RequestsAgree' BY DEF RequestsAgree, Waits, IsAnswered, LastIsLast
<1>8. ASSUME NEW c \in Bot PROVE UserIsThread(c)' /\ HasRequest(c)'
  BY DEF UserIsThread, Calling, HasRequest
<1>9. ASSUME NEW c \in Bot PROVE ThreadAnswers(c)'
  <2>1. shouldStopNow'[c] => shouldStopNow[c] \/ c = b BY DEF TypeOK
  <2>2. StopsForReason(c)'
    BY <1>4, <2>1 DEF ThreadAnswers, StopsForReason, Unbegun, Calling
  <2> QED BY <2>2 DEF ThreadAnswers, Waits, IsAnswered
<1> QED BY <1>5, <1>6, <1>7, <1>8, <1>9 DEF EngineSound, ThreadsSound

\* It stops and kills every bot, once the write queue is closed.
LEMMA StopsAllSound ==
  ASSUME EngineInv, StopsAll
  PROVE  EngineTypes' /\ EngineSound'
<1>1. /\ UNCHANGED <<isRunning, searchPc, user, requests, queueVars, outVars, threadVars>>
      /\ ~writeOpen /\ todo \subseteq Bot
      /\ victim' = <<>> /\ mainPc' \in {"stopAll", "killAll", "join"}
      /\ todo' \subseteq Bot
  <2>1. ~writeOpen /\ todo \subseteq Bot BY EngineFacts DEF StopsAll, WalkIsOpen
  <2>2. UNCHANGED <<isRunning, searchPc, user, requests, queueVars, outVars, threadVars>>
    BY DEF StopsAll, stopWithoutWait, setKilled, control
  <2>3. victim' = <<>> /\ mainPc' \in {"stopAll", "killAll", "join"} /\ todo' \subseteq Bot
    BY <2>1 DEF StopsAll, After, MainGoto
  <2> QED BY <2>1, <2>2, <2>3
<1> USE EngineFacts, <1>1 DEF user, requests, queueVars, outVars, threadVars
<1>2. EngineTypes' BY DEF EngineTypes
<1>3. ListsAgree' /\ WalkIsOpen' BY DEF ListsAgree, WalkIsOpen
<1>4. RequestsAgree' BY DEF RequestsAgree, Waits, IsAnswered, LastIsLast
<1>5. ASSUME NEW c \in Bot PROVE UserIsThread(c)' /\ HasRequest(c)'
  BY DEF UserIsThread, Calling, HasRequest
<1>6. ASSUME NEW c \in Bot PROVE ThreadAnswers(c)'
  BY DEF ThreadAnswers, Waits, IsAnswered, StopsForReason, Unbegun, Calling
<1> QED BY <1>2, <1>3, <1>4, <1>5, <1>6 DEF EngineSound, ThreadsSound

-----------------------------------------------------------------------------
\* Every step of the command keeps its bots and its requests sound.
LEMMA EngineStep ==
  ASSUME EngineInv, EngineNext
  PROVE  EngineInv'
<1>1. IInv' BY EngineKeepsBots
<1>2. EngineTypes' /\ EngineSound'
  <2>1. CASE Opens BY <2>1, OpensSound
  <2>2. CASE OrdersTermination \/ Closes BY <2>2, MainReadsSound
  <2>3. CASE MainGoesOn
    BY <2>3, PushesSound, TerminatesNextSound, StopsBotSound, StopsAllSound,
       JoinsAndDeletesSound DEF MainGoesOn
  <2>4. ASSUME NEW b \in Bot, ThreadGoesOn(b) PROVE EngineTypes' /\ EngineSound'
    BY <2>4, CallGoesOnSound, SearchAskedSound, SetterDoneSound, PopsSound, ClaimsSound,
       SetsSound, AsksSound, ReportsSound, ErasesSound, DeletesSound DEF ThreadGoesOn
  <2>5. ASSUME NEW b \in Bot, SearchThread(b) \/ Ends(b) PROVE EngineTypes' /\ EngineSound'
    BY <2>5, RoundGoesOnSound, BeginsSound, EndsSound DEF SearchThread
  <2>6. ASSUME NEW b \in Bot, LoopGoesOn(b) \/ ReportsDuringSearch(b)
        PROVE  EngineTypes' /\ EngineSound'
    BY <2>6, LoopGoesOnSound, ReportsDuringSearchSound
  <2> QED BY <2>1, <2>2, <2>3, <2>4, <2>5, <2>6 DEF EngineNext
<1> QED BY <1>1, <1>2 DEF EngineInv

\* What holds of whichever command runs: the others leave the requests alone.
CommandInv ==
    /\ IInv /\ EngineTypes /\ AnsweredOnce
    /\ subcommand = "analysis" => EngineSound

\* A request that is over has its one answer, since its thread or the order to
\* terminate it wrote it before it was freed.
LEMMA SoundIsAnswered == EngineSound => AnsweredOnce
  BY DEF EngineSound, RequestsAgree, LastIsLast, AnsweredOnce

\* Each command begins well.
LEMMA InitIsSound == handleSubcommand => CommandInv
<1> SUFFICES ASSUME handleSubcommand PROVE CommandInv OBVIOUS
<1> USE DEF handleSubcommand, EngineInit
<1>1. IInv BY InitSound
<1>2. EngineTypes
  <2>1. <<>> \in Seq({"during", "final", "noResults"}) OBVIOUS
  <2>2. 0 \in 0..MaxRequests BY RequestAssumption
  <2> QED BY <2>1, <2>2 DEF EngineTypes, Unassigned
<1>3. ListsAgree /\ WalkIsOpen BY DEF ListsAgree, WalkIsOpen
<1>4. RequestsAgree
  BY StatusAssumption, RequestAssumption
  DEF RequestsAgree, Unassigned, LastIsLast, Request
<1>5. ASSUME NEW b \in Bot PROVE UserIsThread(b) /\ HasRequest(b) /\ ThreadAnswers(b)
  <2>1. threadPc[b] = "pop" /\ request[b] = NoRequest OBVIOUS
  <2>2. userPc[b] = "idle" /\ ~isRunning[b] /\ ~isKilled[b] BY DEF Init
  <2> HIDE DEF EngineInit
  <2> QED
    BY <2>1, <2>2
    DEF UserIsThread, HasRequest, ThreadAnswers, StopsForReason, Unbegun, Calling, Working, Past
<1> QED BY <1>1, <1>2, <1>3, <1>4, <1>5, SoundIsAnswered DEF CommandInv, EngineSound, ThreadsSound

\* Every step keeps the invariant of the command that runs.
LEMMA CommandStep == CommandInv /\ [CommandNext]_commandVars => CommandInv'
<1> SUFFICES ASSUME CommandInv, [CommandNext]_commandVars PROVE CommandInv' OBVIOUS
<1>1. CASE analysis(EngineNext)
  <2>1. EngineInv /\ EngineNext /\ UNCHANGED subcommand
    BY <1>1 DEF analysis, CommandInv, EngineInv
  <2>2. EngineInv' BY <2>1, EngineStep
  <2> QED BY <2>2, SoundIsAnswered, PTL DEF CommandInv, EngineInv
<1>2. CASE gtp(Next)
  <2>1. IInv' BY <1>2, NextSound DEF gtp, CommandInv
  <2> QED
    BY <1>2, <2>1
    DEF gtp, CommandInv, EngineTypes, AnsweredOnce, IsAnswered, engineVars, requests, queueVars,
        outVars, threadVars, mainVars
<1>3. CASE genbook(BookNext) \/ UNCHANGED commandVars
  <2>1. UNCHANGED <<vars, subcommand>> BY <1>3 DEF genbook, commandVars
  <2>2. IInv' BY <2>1, BotsRest DEF vars, CommandInv
  <2>3. EngineTypes' /\ AnsweredOnce'
    BY <2>1 DEF vars, CommandInv, EngineTypes, AnsweredOnce, IsAnswered, engineVars, requests,
                queueVars, outVars, threadVars, mainVars
  <2>4. subcommand' = "analysis" => EngineSound'
    <3> SUFFICES ASSUME subcommand' = "analysis" PROVE EngineSound' OBVIOUS
    <3>1. EngineInv /\ UNCHANGED engineVars /\ UNCHANGED botVars
      BY <2>1 DEF vars, CommandInv, EngineInv
    <3>2. \A c \in Bot : UserIsThread(c)' /\ StopsForReason(c)'
      BY <3>1, EngineFacts
      DEF ThreadAnswers, UserIsThread, StopsForReason, Unbegun, Calling, engineVars, requests,
          queueVars, outVars, threadVars, mainVars, botVars, control, loop, user
    <3> QED BY <3>1, <3>2, BotAlone
  <2> QED BY <2>2, <2>3, <2>4 DEF CommandInv
<1> QED BY <1>1, <1>2, <1>3 DEF CommandNext

\* It always holds.
LEMMA AlwaysCommandInv == CommandSpec => []CommandInv
  BY InitIsSound, CommandStep, PTL DEF CommandSpec

\* The promises of the bots under every command that uses them: a setter and the
\* destructor find no thread at work, no callback reports on a search that is not
\* there, and each accepted genMove is told its move once.
THEOREM CommandsKeepBots ==
  CommandSpec => [](UserHasSearchAlone /\ CallbackSeesItsSearch /\ MoveIsReportedOnce)
<1>1. CommandInv => UserHasSearchAlone /\ CallbackSeesItsSearch /\ MoveIsReportedOnce
  BY DEF CommandInv, IInv, AllSound, TypeOK, Sound, Round, Loop, HasStopped, Owes,
         UserHasSearchAlone, Quiet, CallbackSeesItsSearch, MoveIsReportedOnce
<1> QED BY <1>1, AlwaysCommandInv, PTL

\* A request of the analysis command is not used after its thread has freed it,
\* and an order to terminate one stops the search for that one and no other
\* (openRequestsMutex is held from the exchange of the status to the stop).
THEOREM RequestsStaySafe == CommandSpec => []RequestsAreSafe
<1>1. CommandInv => RequestsAreSafe
  <2> SUFFICES ASSUME CommandInv PROVE RequestsAreSafe OBVIOUS
  <2>1. EngineTypeOK BY DEF CommandInv, IInv, EngineTypes, EngineTypeOK
  <2>2. ASSUME subcommand = "analysis" PROVE FreedIsUnreachable /\ StopHitsItsRequest
    <3>1. EngineInv BY <2>2 DEF CommandInv, EngineInv
    <3>2. deleted \cap (openRequests \cup toAnalyze) = {}
      BY <3>1, EngineFacts DEF ListsAgree
    <3>3. mainPc \in {"push", "terminate", "stopBot"} => todo \cap deleted = {}
      BY <3>1, EngineFacts DEF ListsAgree, WalkIsOpen
    <3>4. ASSUME NEW b \in Bot, callbackPc[b] \in {"period", "calling"}
          PROVE  request[b] \in openRequests
      <4>1. isRunning[b]
        BY <3>1, <3>4 DEF EngineInv, IInv, TypeOK, AllSound, Sound, Round, Loop
      <4> QED BY <3>1, <4>1, RunningThread, WorkingThread
    <3>5. StopHitsItsRequest BY <3>1, EngineFacts DEF WalkIsOpen, StopHitsItsRequest
    <3> QED BY <3>2, <3>3, <3>4, <3>5 DEF FreedIsUnreachable
  <2> QED BY <2>1, <2>2 DEF RequestsAreSafe
<1> QED BY <1>1, AlwaysCommandInv, PTL

\* Each request that is over was answered by one last message, with no report
\* after it, whether its search ended, was stopped, or never began.
THEOREM RequestsAreAnsweredOnce == CommandSpec => []AnsweredOnce
<1>1. CommandInv => AnsweredOnce BY DEF CommandInv
<1> QED BY <1>1, AlwaysCommandInv, PTL

-----------------------------------------------------------------------------
(* The opening book.  BookSound says which node some thread still has to   *)
(* write the values of, and AloneOK which it has to note as changed, while *)
(* no two nodes are expanded at the same time.  When the book is saved no  *)
(* thread is at work, so that neither is left.                             *)

\* The graph of the positions, and the classes of visits.
LEMMA BookFacts ==
    /\ NumNodes \in Nat \ {0} /\ Node = 1..NumNodes /\ IsFiniteSet(Node)
    /\ Root \in Node /\ Node \subseteq Nat
    /\ \A n \in Node : Succ[n] \subseteq Node /\ \A c \in Succ[n] : n < c
    /\ Visits \subseteq Nat /\ Max(Visits) = 3
<1>1. NumNodes \in Nat \ {0} /\ Node = 1..NumNodes /\ Root \in Node /\ Node \subseteq Nat
  BY GenBookAssumption DEF Node, Root
<1>2. IsFiniteSet(Node) BY <1>1, FS_Interval
<1>3. \A n \in Node : Succ[n] \subseteq Node /\ \A c \in Succ[n] : n < c
  BY GenBookAssumption
<1>4. Max(Visits) = 3
  <2>1. 3 \in Visits /\ \A y \in Visits : 3 >= y BY DEF Visits
  <2>2. \A x \in Visits : (\A y \in Visits : x >= y) => x = 3 BY DEF Visits
  <2> QED BY <2>1, <2>2 DEF Max
<1> QED BY <1>1, <1>2, <1>3, <1>4 DEF Visits

\* What the visits of a node make depends on its own moves only.
LEMMA NodeValuesAre ==
    ASSUME NEW n \in Node, NEW f \in [Node -> Visits], NEW book,
           book.moves[n] \subseteq Node, book.visits[n] \in Visits
    PROVE  /\ recomputeNodeValues(n, f, book) \in Visits
           /\ book.moves[n] = {} => recomputeNodeValues(n, f, book) = book.visits[n]
           /\ \A g : (\A c \in book.moves[n] : g[c] = f[c]) =>
                recomputeNodeValues(n, g, book) = recomputeNodeValues(n, f, book)
<1> DEFINE S == book.moves[n]
           v == book.visits[n]
<1>1. IsFiniteSet(S) /\ \A c \in S : f[c] \in Nat BY BookFacts, FS_Subset
<1>2. SumOver(f, S) \in Nat /\ SumOver(f, {}) = 0 BY <1>1, SumStep
<1>3. \A g : recomputeNodeValues(n, g, book) = Min({3, v + SumOver(g, S)})
  BY BookFacts, Zenon DEF recomputeNodeValues, SumOver
<1>4. v \in 0..3 BY DEF Visits
<1> HIDE DEF S, v
<1>5. ASSUME NEW k \in Nat PROVE Min({3, k}) = IF k <= 3 THEN k ELSE 3
  <2> DEFINE m == IF k <= 3 THEN k ELSE 3
  <2>1. m \in {3, k} /\ \A y \in {3, k} : m <= y OBVIOUS
  <2>2. \A x \in {3, k} : (\A y \in {3, k} : x <= y) => x = m OBVIOUS
  <2> HIDE DEF m
  <2> QED BY <2>1, <2>2 DEF Min, m
<1> DEFINE k == SumOver(f, S)
           m == Min({3, v + k})
<1>6. m = (IF v + k <= 3 THEN v + k ELSE 3) /\ k \in Nat
  <2>1. v + k \in Nat BY <1>2, <1>4
  <2> QED BY <1>2, <1>5, <2>1
<1>7. recomputeNodeValues(n, f, book) \in Visits /\ (S = {} => recomputeNodeValues(n, f, book) = v)
  <2>1. recomputeNodeValues(n, f, book) = m /\ (S = {} => k = 0) BY <1>2, <1>3
  <2> HIDE DEF k, m
  <2>2. m \in 0..3 /\ (k = 0 => m = v) BY <1>4, <1>6
  <2> QED BY <2>1, <2>2 DEF Visits
<1>8. ASSUME NEW g, \A c \in S : g[c] = f[c]
      PROVE  recomputeNodeValues(n, g, book) = recomputeNodeValues(n, f, book)
  <2>1. SumOver(g, S) = SumOver(f, S) BY <1>1, <1>8, SumOfSame
  <2> QED BY <1>3, <2>1
<1> QED BY <1>7, <1>8 DEF S, v

\* The recursive values are what the visits and those of the children make.
LEMMA RecomputedIs ==
    ASSUME NEW old \in [Node -> Visits], NEW dirty, NEW book,
           \A n \in Node : book.moves[n] \subseteq Succ[n] /\ book.visits[n] \in Visits
    PROVE  /\ Recomputed(old, dirty, book) \in [Node -> Visits]
           /\ \A n \in Node : Recomputed(old, dirty, book)[n] =
                IF n \in dirty THEN recomputeNodeValues(n, Recomputed(old, dirty, book), book)
                               ELSE old[n]
<1> DEFINE F == [Node -> Visits]
           Is(r) == r = [n \in Node |-> IF n \in dirty THEN recomputeNodeValues(n, r, book) ELSE old[n]]
           h == [p \in Node \X F |-> IF p[1] \in dirty THEN recomputeNodeValues(p[1], p[2], book)
                                                       ELSE old[p[1]]]
<1>1. \A n \in Node : book.moves[n] \subseteq Node BY BookFacts
<1>2. \A n \in Node, f \in F :
        /\ h[<<n, f>>] = IF n \in dirty THEN recomputeNodeValues(n, f, book) ELSE old[n]
        /\ h[<<n, f>>] \in Visits
  BY <1>1, NodeValuesAre
<1>3. h \in [Node \X F -> Visits]
  <2>1. \A p \in Node \X F : h[p] \in Visits BY <1>2
  <2> QED BY <2>1
<1>4. ASSUME NEW n \in Node, NEW f \in F, NEW g \in F, \A c \in Node : n < c => f[c] = g[c]
      PROVE  h[<<n, f>>] = h[<<n, g>>]
  <2>1. \A c \in book.moves[n] : c \in Node /\ n < c BY BookFacts
  <2>2. \A c \in book.moves[n] : g[c] = f[c] BY <1>4, <2>1
  <2>3. recomputeNodeValues(n, g, book) = recomputeNodeValues(n, f, book) BY <1>1, <2>2, NodeValuesAre
  <2> HIDE DEF h, F
  <2> QED BY <1>2, <2>3
<1>5. \E r \in F : \A n \in Node : r[n] = h[<<n, r>>]
  <2>1. 0 \in Visits BY DEF Visits
  <2>2. Node = 1..NumNodes /\ NumNodes \in Nat BY BookFacts
  <2> HIDE DEF h
  <2>3. FromAbove(h, NumNodes, Visits) BY <1>3, <1>4 DEF FromAbove, Node
  <2> QED BY <2>1, <2>2, <2>3, RecursionFromAbove
<1>6. \E r : Is(r)
  <2>1. PICK r \in F : \A n \in Node : r[n] = h[<<n, r>>] BY <1>5
  <2>2. \A n \in Node : r[n] = IF n \in dirty THEN recomputeNodeValues(n, r, book) ELSE old[n]
    BY <1>2, <2>1
  <2>3. Is(r)
    <3>1. r = [n \in Node |-> r[n]] OBVIOUS
    <3> HIDE DEF h
    <3> QED BY <2>2, <3>1
  <2> QED BY <2>3
<1>7. Recomputed(old, dirty, book) = CHOOSE r : Is(r) BY DEF Recomputed
<1>8. Is(Recomputed(old, dirty, book)) BY <1>6, <1>7, Zenon
<1> DEFINE R == Recomputed(old, dirty, book)
<1>9. /\ DOMAIN R = Node
      /\ \A n \in Node : R[n] = IF n \in dirty THEN recomputeNodeValues(n, R, book) ELSE old[n]
  <2> HIDE DEF R
  <2> QED BY <1>8 DEF R
<1>10. R \in F
  <2> DEFINE T == {n \in Node : R[n] \notin Visits}
  <2>1. T = {}
    <3> SUFFICES ASSUME T # {} PROVE FALSE OBVIOUS
    <3> DEFINE m == Max(T)
    <3>1. m \in T /\ \A k \in T : k <= m
      <4>1. NumNodes \in Nat /\ T \in SUBSET (1..NumNodes) BY BookFacts
      <4> HIDE DEF T
      <4> QED BY <4>1, GreatestIsMember
    <3> DEFINE f == [c \in Node |-> IF R[c] \in Visits THEN R[c] ELSE 0]
    <3>2. f \in F BY DEF Visits
    <3> HIDE DEF m, R
    <3>3. m \in Node BY <3>1
    <3>4. \A c \in book.moves[m] : c \in Node /\ m < c BY <3>3, BookFacts
    <3>5. \A c \in book.moves[m] : R[c] \in Visits
      <4> SUFFICES ASSUME NEW c \in book.moves[m], R[c] \notin Visits PROVE FALSE OBVIOUS
      <4>1. c \in T /\ c \in Nat /\ m \in Nat BY <3>3, <3>4, BookFacts
      <4>2. c <= m BY <3>1, <4>1
      <4> QED BY <3>4, <4>1, <4>2
    <3>6. \A c \in book.moves[m] : R[c] = f[c] BY <3>4, <3>5
    <3> HIDE DEF f
    <3>7. recomputeNodeValues(m, R, book) \in Visits
      <4>1. recomputeNodeValues(m, R, book) = recomputeNodeValues(m, f, book)
        BY <1>1, <3>2, <3>3, <3>6, NodeValuesAre
      <4>2. recomputeNodeValues(m, f, book) \in Visits BY <1>1, <3>2, <3>3, NodeValuesAre
      <4> QED BY <4>1, <4>2
    <3>8. R[m] \in Visits BY <1>9, <3>3, <3>7
    <3> QED BY <3>1, <3>8
  <2>2. R = [n \in Node |-> R[n]]
    <3> HIDE DEF R
    <3> QED BY <1>8 DEF R
  <2> HIDE DEF R
  <2> QED BY <2>1, <2>2
<1> HIDE DEF R
<1> QED BY <1>9, <1>10 DEF R

\* A node is dirty when it changed or one of its children is.
LEMMA DirtyIs ==
    ASSUME NEW changed, \A n \in Node : moves[n] \subseteq Succ[n]
    PROVE  /\ Dirty(changed) \subseteq Node
           /\ \A n \in Node : n \in Dirty(changed) <=>
                n \in changed \/ \E c \in moves[n] : c \in Dirty(changed)
<1> DEFINE F == [Node -> BOOLEAN]
           Is(r) == r = [n \in Node |-> n \in changed \/ \E c \in moves[n] : r[c]]
           h == [p \in Node \X F |-> p[1] \in changed \/ \E c \in moves[p[1]] : p[2][c]]
<1>1. \A n \in Node : \A c \in moves[n] : c \in Node /\ n < c BY BookFacts
<1>2. \A n \in Node, f \in F :
        /\ h[<<n, f>>] = (n \in changed \/ \E c \in moves[n] : f[c])
        /\ h[<<n, f>>] \in BOOLEAN
  OBVIOUS
<1>3. h \in [Node \X F -> BOOLEAN] OBVIOUS
<1>4. ASSUME NEW n \in Node, NEW f \in F, NEW g \in F, \A c \in Node : n < c => f[c] = g[c]
      PROVE  h[<<n, f>>] = h[<<n, g>>]
  <2>1. \A c \in moves[n] : g[c] = f[c] BY <1>1, <1>4
  <2> HIDE DEF h, F
  <2> QED BY <1>2, <2>1
<1>5. \E r \in F : \A n \in Node : r[n] = h[<<n, r>>]
  <2>1. NumNodes \in Nat BY BookFacts
  <2> HIDE DEF h
  <2>2. FromAbove(h, NumNodes, BOOLEAN) BY <1>3, <1>4 DEF FromAbove, Node
  <2>3. \A V, base : base \in V /\ FromAbove(h, NumNodes, V) =>
          \E r \in [1..NumNodes -> V] : \A n \in 1..NumNodes : r[n] = h[<<n, r>>]
    BY <2>1, RecursionFromAbove
  <2>4. TRUE \in BOOLEAN OBVIOUS
  <2>5. \E r \in [1..NumNodes -> BOOLEAN] : \A n \in 1..NumNodes : r[n] = h[<<n, r>>]
    BY <2>2, <2>3, <2>4, Zenon
  <2> QED BY <2>5 DEF Node
<1>6. \E r : Is(r)
  <2>1. PICK r \in F : \A n \in Node : r[n] = h[<<n, r>>] BY <1>5
  <2>2. \A n \in Node : r[n] = (n \in changed \/ \E c \in moves[n] : r[c]) BY <1>2, <2>1
  <2>3. Is(r)
    <3>1. r = [n \in Node |-> r[n]] OBVIOUS
    <3> HIDE DEF h
    <3> QED BY <2>2, <3>1
  <2> QED BY <2>3
<1> DEFINE R == CHOOSE r : Is(r)
<1>7. Is(R) BY <1>6, Zenon
<1>8. Dirty(changed) = {n \in Node : R[n]} BY DEF Dirty
<1>9. \A n \in Node : R[n] <=> n \in changed \/ \E c \in moves[n] : R[c]
  <2> HIDE DEF R
  <2> QED BY <1>7
<1> HIDE DEF R, Is, h, F
<1> QED BY <1>1, <1>8, <1>9

\* The steps of a game thread: with nothing recorded yet, with the search tree,
\* and with no node of its own.
Fresh     == {"none", "pop", "find", "search"}
Recording == {"record", "set", "topOff"}
Resting   == {"none", "pop"}
GamePc    == Fresh \cup Recording \cup {"update", "write", "push"}

\* What a thread knows.
LevelType == {level \in [node : Node, left : SUBSET Node, looped : BOOLEAN, bestIsSmall : BOOLEAN,
                         anythingAdded : BOOLEAN, anyRecursion : BOOLEAN] :
                level.left \subseteq Succ[level.node]}
JobType == [node : Node \cup {NoNode}, avoid : SUBSET Node, stack : Seq(LevelType),
            nodesHashesToSearch : SUBSET Node, nodesHashesToUpdate : SUBSET Node,
            found : {<<>>} \cup (Node \X SearchVisits) \cup (Node \X SUBSET Node),
            read : SUBSET Node]

\* The nodes of its levels, and those of them that got a move.
LevelNodes(j) == {j.stack[i].node : i \in DOMAIN j.stack}
Added(j) == {n \in Node : \E i \in DOMAIN j.stack : j.stack[i].node = n /\ j.stack[i].anythingAdded}

\* Who recorded a move knows it by its level, and as a node to update.
LEMMA RecordedIs ==
    ASSUME NEW j \in JobType, j.stack # <<>>, NEW c \in Node, NEW v \in SearchVisits
    PROVE  /\ Recorded(j, c, v) \in JobType /\ Recorded(j, c, v).stack # <<>>
           /\ LevelNodes(Recorded(j, c, v)) = LevelNodes(j)
           /\ Added(Recorded(j, c, v)) =
                Added(j) \cup {n \in {j.stack[Len(j.stack)].node} : c \notin moves[n]}
           /\ Recorded(j, c, v).nodesHashesToSearch = j.nodesHashesToSearch
           /\ j.nodesHashesToUpdate \subseteq Recorded(j, c, v).nodesHashesToUpdate
           /\ Recorded(j, c, v).found = <<c, v>>
           /\ Recorded(j, c, v).node = j.node
<1> DEFINE s == j.stack
           d == Len(s)
           isNew == c \notin moves[s[d].node]
           level == [s[d] EXCEPT !.left = @ \ {c}, !.looped = TRUE,
                                 !.bestIsSmall = @ \/ v < maxVisitsForLeaves,
                                 !.anythingAdded = @ \/ isNew]
           r == [s EXCEPT ![d] = level]
           jr == [j EXCEPT !.stack = r,
                           !.nodesHashesToUpdate = IF isNew THEN @ \cup {c} ELSE @,
                           !.found = <<c, v>>]
<1>1. s \in Seq(LevelType) /\ s # <<>> BY DEF JobType
<1>2. d \in 1..Len(s) /\ s[d] \in LevelType BY <1>1
<1>3. /\ level \in LevelType /\ level.node = s[d].node
      /\ level.anythingAdded <=> s[d].anythingAdded \/ isNew
  BY <1>2 DEF LevelType
<1>4. r \in Seq(LevelType) /\ Len(r) = Len(s) /\ r # <<>>
  <2> HIDE DEF level
  <2> QED BY <1>1, <1>2, <1>3
<1>5. DOMAIN r = DOMAIN s /\ \A i \in DOMAIN s : r[i] = IF i = d THEN level ELSE s[i]
  <2>1. DOMAIN s = 1..Len(s) /\ d \in DOMAIN s /\ s = [i \in DOMAIN s |-> s[i]] BY <1>1, <1>2
  <2>2. r = [s EXCEPT ![d] = level] OBVIOUS
  <2> HIDE DEF level, d, s, r
  <2> QED BY <2>1, <2>2
<1>6. Recorded(j, c, v) = jr BY DEF Recorded
<1>7. /\ jr \in JobType /\ jr.stack = r /\ jr.nodesHashesToSearch = j.nodesHashesToSearch
      /\ j.nodesHashesToUpdate \subseteq jr.nodesHashesToUpdate
      /\ jr.found = <<c, v>> /\ jr.node = j.node
  <2> HIDE DEF level, r, isNew
  <2> QED BY <1>4 DEF JobType
<1> HIDE DEF level, r, jr
<1>8. LevelNodes(jr) = LevelNodes(j) BY <1>3, <1>5, <1>7 DEF LevelNodes
<1>9. DOMAIN s = 1..Len(s) /\ d \in DOMAIN s BY <1>1, <1>2
<1>10. Added(jr) = Added(j) \cup {n \in {s[d].node} : c \notin moves[n]}
  <2>1. s[d].node \in Node BY <1>2 DEF LevelType
  <2>2. \A n \in Node : n \in Added(jr) <=> \E i \in DOMAIN s : r[i].node = n /\ r[i].anythingAdded
    BY <1>5, <1>7 DEF Added
  <2>3. \A n \in Node : n \in Added(j) <=> \E i \in DOMAIN s : s[i].node = n /\ s[i].anythingAdded
    BY DEF Added
  <2>4. \A i \in DOMAIN s : /\ r[i].node = s[i].node
                            /\ r[i].anythingAdded <=> s[i].anythingAdded \/ (i = d /\ isNew)
    BY <1>3, <1>5
  <2>5. Added(jr) \subseteq Node /\ Added(j) \subseteq Node BY DEF Added
  <2> QED BY <1>9, <2>1, <2>2, <2>3, <2>4, <2>5
<1> QED BY <1>4, <1>6, <1>7, <1>8, <1>10

\* A leaf with too few visits is to be searched.
LEMMA ToppedOffIs ==
    ASSUME NEW j \in JobType, NEW c \in Node
    PROVE  /\ ToppedOff(j, c) \in JobType
           /\ ToppedOff(j, c).stack = j.stack
           /\ ToppedOff(j, c).nodesHashesToUpdate = j.nodesHashesToUpdate
           /\ ToppedOff(j, c).found = j.found /\ ToppedOff(j, c).node = j.node
           /\ ToppedOff(j, c).nodesHashesToSearch = j.nodesHashesToSearch \cup
                {n \in {c} : moves[n] = {} /\ recursiveVisits[n] < maxVisitsForLeaves}
  BY DEF ToppedOff, JobType

\* A call for a child may begin a level, to which nothing was added.
LEMMA DescendedIs ==
    ASSUME NEW j \in JobType, j.stack # <<>>, NEW c \in Node, NEW v
    PROVE  /\ Descended(j, c, v) \in JobType /\ Descended(j, c, v).stack # <<>>
           /\ LevelNodes(Descended(j, c, v)) \subseteq LevelNodes(j) \cup {c}
           /\ Added(Descended(j, c, v)) = Added(j)
           /\ Descended(j, c, v).nodesHashesToSearch = j.nodesHashesToSearch
           /\ Descended(j, c, v).nodesHashesToUpdate = j.nodesHashesToUpdate
           /\ Descended(j, c, v).found = j.found
           /\ Descended(j, c, v).node = j.node
<1> DEFINE s == j.stack
           d == Len(s)
           level == [s[d] EXCEPT !.anyRecursion = TRUE]
           m == [s EXCEPT ![d] = level]
           marked == [j EXCEPT !.stack = m]
           below == Level(c, Succ[c])
           deeper == [marked EXCEPT !.stack = Append(@, below)]
<1>1. s \in Seq(LevelType) /\ s # <<>> /\ d \in 1..Len(s) /\ s[d] \in LevelType BY DEF JobType
<1>2. DOMAIN s = 1..d /\ d \in Nat BY <1>1
<1>3. level \in LevelType /\ level.node = s[d].node /\ (level.anythingAdded <=> s[d].anythingAdded)
  BY <1>1 DEF LevelType
<1>4. below \in LevelType /\ below.node = c /\ ~below.anythingAdded
  BY BookFacts DEF Level, LevelType
<1> HIDE DEF level, below
<1>5. /\ m \in Seq(LevelType) /\ Len(m) = d /\ m # <<>>
      /\ \A i \in 1..d : m[i] = IF i = d THEN level ELSE s[i]
  BY <1>1, <1>2, <1>3
<1> HIDE DEF m
<1>6. /\ Append(m, below) \in Seq(LevelType) /\ Append(m, below) # <<>>
      /\ DOMAIN Append(m, below) = 1..(d + 1) /\ Append(m, below)[d + 1] = below
      /\ \A i \in 1..d : Append(m, below)[i] = m[i]
      /\ DOMAIN m = 1..d
  BY <1>2, <1>4, <1>5
<1>7. /\ marked \in JobType /\ marked.stack = m
      /\ marked.nodesHashesToSearch = j.nodesHashesToSearch
      /\ marked.nodesHashesToUpdate = j.nodesHashesToUpdate
      /\ marked.found = j.found /\ marked.node = j.node
  BY <1>5 DEF JobType
<1>8. /\ deeper \in JobType /\ deeper.stack = Append(m, below)
      /\ deeper.nodesHashesToSearch = j.nodesHashesToSearch
      /\ deeper.nodesHashesToUpdate = j.nodesHashesToUpdate
      /\ deeper.found = j.found /\ deeper.node = j.node
  <2> DEFINE a == Append(m, below)
  <2>1. deeper = [j EXCEPT !.stack = a] BY DEF JobType
  <2>2. a \in Seq(LevelType) BY <1>6
  <2> HIDE DEF a
  <2> QED BY <2>1, <2>2 DEF JobType, a
<1>9. LevelNodes(marked) = LevelNodes(j) /\ Added(marked) = Added(j)
  <2>1. \A i \in 1..d : m[i].node = s[i].node /\ (m[i].anythingAdded <=> s[i].anythingAdded)
    BY <1>3, <1>5
  <2> HIDE DEF marked
  <2> QED BY <1>2, <1>6, <1>7, <2>1 DEF LevelNodes, Added
<1>10. LevelNodes(deeper) \subseteq LevelNodes(j) \cup {c} /\ Added(deeper) = Added(j)
  <2> DEFINE a == Append(m, below)
  <2>1. \A i \in 1..d : a[i].node = s[i].node /\ (a[i].anythingAdded <=> s[i].anythingAdded)
    BY <1>3, <1>5, <1>6
  <2>2. DOMAIN a = 1..d \cup {d + 1} /\ a[d + 1].node = c /\ ~a[d + 1].anythingAdded
    BY <1>2, <1>4, <1>6
  <2>3. deeper.stack = a BY <1>8
  <2> HIDE DEF a, deeper, marked
  <2>4. LevelNodes(deeper) \subseteq LevelNodes(j) \cup {c}
    BY <1>2, <2>1, <2>2, <2>3 DEF LevelNodes
  <2>5. Added(deeper) = Added(j)
    <3>1. \A n \in Node : (\E i \in DOMAIN a : a[i].node = n /\ a[i].anythingAdded)
                          <=> \E i \in 1..d : s[i].node = n /\ s[i].anythingAdded
      BY <2>1, <2>2
    <3> QED BY <1>2, <2>3, <3>1 DEF Added
  <2> QED BY <2>4, <2>5
<1>11. Descended(j, c, v) \in {j, marked, deeper}
  <2>1. Descended(j, c, v) = IF v < minTreeVisitsToRecord \/ isGameFinished(c) THEN j
                             ELSE IF d >= maxDepthToRecord THEN marked ELSE deeper
    BY DEF Descended, marked, m, level, below
  <2> HIDE DEF marked, deeper
  <2> QED BY <2>1
<1> HIDE DEF marked, deeper
<1> QED BY <1>1, <1>5, <1>6, <1>7, <1>8, <1>9, <1>10, <1>11

\* A level that ends leaves its node to be searched if it got a move.
LEMMA EndedIs ==
    ASSUME NEW j \in JobType, j.stack # <<>>
    PROVE  /\ Ended(j) \in JobType
           /\ Ended(j).stack = <<>> <=> Len(j.stack) = 1
           /\ LevelNodes(Ended(j)) \subseteq LevelNodes(j)
           /\ Added(j) \subseteq Added(Ended(j)) \cup Ended(j).nodesHashesToSearch
           /\ Added(j) \subseteq Added(Ended(j)) \cup Ended(j).nodesHashesToUpdate
           /\ j.nodesHashesToSearch \subseteq Ended(j).nodesHashesToSearch
           /\ j.nodesHashesToUpdate \subseteq Ended(j).nodesHashesToUpdate
           /\ Ended(j).nodesHashesToSearch \subseteq j.nodesHashesToSearch \cup LevelNodes(j)
           /\ Ended(j).nodesHashesToSearch \subseteq
                j.nodesHashesToSearch \cup Ended(j).nodesHashesToUpdate
           /\ Ended(j).found = j.found /\ Ended(j).node = j.node
<1> DEFINE s == j.stack
           d == Len(s)
           level == s[d]
           m == SubSeq(s, 1, d - 1)
           jn == Ended(j)
<1>1. s \in Seq(LevelType) /\ s # <<>> /\ d \in Nat \ {0} /\ level \in LevelType BY DEF JobType
<1>2. DOMAIN s = 1..d /\ d \in DOMAIN s BY <1>1
<1>3. m \in Seq(LevelType) /\ DOMAIN m = 1..(d - 1) /\ \A i \in 1..(d - 1) : m[i] = s[i]
  <2>1. PICK k \in Nat : k = d - 1
    <3> HIDE DEF d
    <3> QED BY <1>1
  <2>2. m = SubSeq(s, 1, k) /\ Len(s) = k + 1
    <3>1. d = k + 1
      <4> HIDE DEF d
      <4> QED BY <1>1, <2>1
    <3> QED BY <2>1, <3>1
  <2>3. m \in Seq(LevelType) /\ DOMAIN m = 1..k /\ \A i \in 1..k : m[i] = s[i]
    <3> HIDE DEF m, d
    <3> QED BY <1>1, <2>2
  <2> DEFINE e == d - 1
  <2>4. e = k BY <2>1
  <2>5. m \in Seq(LevelType) /\ DOMAIN m = 1..e /\ \A i \in 1..e : m[i] = s[i]
    <3> HIDE DEF m, e
    <3> QED BY <2>3, <2>4
  <2> QED BY <2>5
<1>4. m = <<>> <=> d = 1
  <2> HIDE DEF m, d
  <2> QED BY <1>1, <1>3
<1>5. /\ level.node \in Node /\ level.anythingAdded \in BOOLEAN
      /\ ToSearch(level) = {n \in {level.node} : level.anythingAdded}
      /\ ToSearch(level) \subseteq ToUpdate(level) /\ ToUpdate(level) \subseteq {level.node}
  BY <1>1 DEF LevelType, ToSearch, ToUpdate
<1> HIDE DEF m, level
<1>6. /\ jn \in JobType /\ jn.stack = m /\ jn.found = j.found /\ jn.node = j.node
      /\ jn.nodesHashesToSearch = j.nodesHashesToSearch \cup ToSearch(level)
      /\ jn.nodesHashesToUpdate = j.nodesHashesToUpdate \cup ToUpdate(level)
  <2> DEFINE T == ToSearch(level)
             U == ToUpdate(level)
  <2>1. jn = [j EXCEPT !.stack = m, !.nodesHashesToUpdate = @ \cup U, !.nodesHashesToSearch = @ \cup T]
    BY DEF Ended, m, level
  <2>2. T \subseteq Node /\ U \subseteq Node BY <1>5
  <2> HIDE DEF T, U, jn
  <2> QED BY <1>3, <2>1, <2>2 DEF JobType, T, U
<1> HIDE DEF jn
<1>7. LevelNodes(jn) \subseteq LevelNodes(j) BY <1>2, <1>3, <1>6 DEF LevelNodes
<1>8. level.node \in LevelNodes(j) BY <1>2 DEF LevelNodes, level
<1>9. Added(j) \subseteq Added(jn) \cup ToSearch(level)
  <2> SUFFICES ASSUME NEW n \in Added(j) PROVE n \in Added(jn) \cup ToSearch(level) OBVIOUS
  <2>1. n \in Node BY DEF Added
  <2>2. PICK i \in 1..d : s[i].node = n /\ s[i].anythingAdded BY <1>2 DEF Added
  <2>3. CASE i = d BY <1>5, <2>2, <2>3 DEF level
  <2>4. CASE i # d
    <3>1. i \in 1..(d - 1) BY <1>1, <2>4
    <3> QED BY <1>3, <1>6, <2>1, <2>2, <3>1 DEF Added
  <2> QED BY <2>3, <2>4
<1> QED BY <1>4, <1>5, <1>6, <1>7, <1>8, <1>9 DEF jn

-----------------------------------------------------------------------------
\* The nodes of the book: the root, and what a move of the book leads to.
NodesOf(m) == {Root} \cup UNION {m[n] : n \in Node}

\* A book in memory or in its file: what is not in it was never touched.
BookTyped(m, v, a, e) ==
    /\ m \in [Node -> SUBSET Node] /\ \A n \in Node : m[n] \subseteq Succ[n]
    /\ v \in [Node -> Visits] /\ a \in [Node -> (SUBSET Node) \cup {NoValues}]
    /\ e \in SUBSET Node
    /\ \A n \in Node \ NodesOf(m) : m[n] = {} /\ v[n] = 0

\* The types, and that nobody is at work between two iterations.
BookTypes ==
    /\ BookTyped(moves, visits, avoided, canExpand)
    /\ recursiveVisits \in [Node -> Visits]
    /\ \A n \in Node \ NodesOf(moves) : recursiveVisits[n] = 0
    /\ gamePc \in [GameThread -> GamePc] /\ job \in [GameThread -> JobType]
    /\ positionsToSearch \subseteq NodesOf(moves) /\ newAndChangedNodes \subseteq Node
    /\ alone \in BOOLEAN
    /\ bookPc # "join" => \A t \in GameThread : gamePc[t] = "none"

\* What a thread at step p may know.  The values it found for a child were not
\* enough when it recorded the child, by what was last recomputed.
JobFits(j, p) ==
    /\ p \in Fresh => j.nodesHashesToSearch = {} /\ j.nodesHashesToUpdate = {}
    /\ p \in Recording <=> j.stack # <<>>
    /\ p = "push" => j.nodesHashesToSearch = {}
    /\ p \notin Resting => j.node \in NodesOf(moves)
    /\ LevelNodes(j) \cup j.nodesHashesToSearch \subseteq NodesOf(moves)
    /\ p \in {"set", "topOff"} => j.found \in NodesOf(moves) \X SearchVisits
    /\ p = "set" => recursiveVisits[j.found[1]] < j.found[2]
    /\ p = "write" => /\ j.found \in NodesOf(moves) \X SUBSET Node
                      /\ j.found[2] \subseteq moves[j.found[1]]

\* A node whose values a thread at step p is going to write, ...
Searching(j, p, n) == n \in j.nodesHashesToSearch \/ (p = "write" /\ j.found[1] = n)
\* ... and one that will be searched, or get its values at once.
Awaited(j, p, n) == Searching(j, p, n) \/ n \in Added(j) \/ (p = "set" /\ j.found[1] = n)

\* ... and with enough visits for a leaf.
ToppedUp(j, p, n) ==
    \/ Searching(j, p, n)
    \/ p \in {"set", "topOff"} /\ j.found[1] = n /\ recursiveVisits[n] < maxVisitsForLeaves

\* A node of the book has values, or somebody will write them; a leaf has enough visits, or will.
ValuesCome == \A n \in NodesOf(moves) : (n # Root \/ moves[n] # {}) =>
    avoided[n] # NoValues \/ \E t \in GameThread : Awaited(job[t], gamePc[t], n)
VisitsCome == \A n \in NodesOf(moves) : n # Root /\ moves[n] = {} =>
    visits[n] >= maxVisitsForLeaves \/ \E t \in GameThread : ToppedUp(job[t], gamePc[t], n)

\* What was saved has both.
FileIsSearched ==
    LET b == bookFile IN
    /\ BookTyped(b.moves, b.visits, b.avoided, b.canExpand)
    /\ \A n \in NodesOf(b.moves) :
         /\ (n # Root \/ b.moves[n] # {}) => b.avoided[n] # NoValues
         /\ n # Root /\ b.moves[n] = {} => b.visits[n] >= maxVisitsForLeaves

\* The inductive invariant of the book, in all interleavings.
BookSound ==
    /\ BookTypes /\ (\A t \in GameThread : JobFits(job[t], gamePc[t]))
    /\ ValuesCome /\ VisitsCome /\ FileIsSearched

\* A thread goes to step p, with what it knows then.
Moved(t, j, p) == job' = [job EXCEPT ![t] = j] /\ gamePc' = [gamePc EXCEPT ![t] = p]

\* InBook, as an operator on the moves.
LEMMA InBookIs == InBook = NodesOf(moves) BY DEF InBook, NodesOf

\* The book grows with its moves, and has only nodes.
LEMMA NodesGrow ==
    ASSUME \A n \in Node : moves[n] \subseteq moves'[n]
    PROVE  NodesOf(moves) \subseteq NodesOf(moves')
  BY DEF NodesOf

\* The nodes of a book are nodes of the graph.
LEMMA NodesAreNodes ==
    ASSUME NEW m, \A n \in Node : m[n] \subseteq Node PROVE NodesOf(m) \subseteq Node
  BY BookFacts DEF NodesOf

\* What a step to j at p leaves of the duties of t: those for a node with a new
\* move, and for a node that is new in the book, are its own.
Discharges(t, j, p) ==
    /\ \A n \in Node : /\ avoided[n] # NoValues => avoided'[n] # NoValues
                       /\ Awaited(job[t], gamePc[t], n) => Awaited(j, p, n) \/ avoided'[n] # NoValues
                       /\ moves'[n] # moves[n] => Awaited(j, p, n)
    /\ \A n \in Node : moves'[n] = {} =>
         /\ visits[n] >= maxVisitsForLeaves =>
              visits'[n] >= maxVisitsForLeaves \/ ToppedUp(j, p, n)
         /\ ToppedUp(job[t], gamePc[t], n) =>
              visits'[n] >= maxVisitsForLeaves \/ ToppedUp(j, p, n)
    /\ \A n \in NodesOf(moves') \ NodesOf(moves) : Awaited(j, p, n) /\ ToppedUp(j, p, n)

\* A step of a thread takes nothing out of the book.
BookGrows ==
    /\ \A n \in Node : moves[n] \subseteq moves'[n]
    /\ BookTyped(moves', visits', avoided', canExpand')
    /\ positionsToSearch' \subseteq positionsToSearch /\ newAndChangedNodes' \subseteq Node

\* A step of a thread keeps the invariant if what it leaves of its duties is done.
LEMMA ThreadMoves ==
    ASSUME BookSound, NEW t \in GameThread, NEW j \in JobType, NEW p \in GamePc, Moved(t, j, p),
           UNCHANGED <<recursiveVisits, bookPc, bookFile>>, bookPc = "join", alone' \in BOOLEAN,
           BookGrows, JobFits(j, p)', Discharges(t, j, p)
    PROVE  BookSound'
<1> USE DEF BookGrows, Discharges
<1>1. NodesOf(moves) \subseteq NodesOf(moves') BY NodesGrow
<1>2. NodesOf(moves') \subseteq Node /\ NodesOf(moves) \subseteq Node
  BY NodesAreNodes DEF BookTyped, BookSound, BookTypes
<1>3. /\ job'[t] = j /\ gamePc'[t] = p
      /\ \A u \in GameThread : u # t => job'[u] = job[u] /\ gamePc'[u] = gamePc[u]
      /\ job' \in [GameThread -> JobType] /\ gamePc' \in [GameThread -> GamePc]
  BY DEF Moved, BookSound, BookTypes
<1>4. BookTypes'
  <2>1. \A n \in Node \ NodesOf(moves') : recursiveVisits'[n] = 0
    BY <1>1 DEF BookSound, BookTypes
  <2> QED BY <1>1, <1>3, <2>1 DEF BookSound, BookTypes
<1>5. ASSUME NEW u \in GameThread PROVE JobFits(job[u], gamePc[u])'
  <2>1. CASE u = t BY <1>3, <2>1 DEF JobFits
  <2>2. CASE u # t
    <3> DEFINE k == job[u]
               q == gamePc[u]
    <3>1. job'[u] = k /\ gamePc'[u] = q BY <1>3, <2>2
    <3>2. JobFits(k, q) BY DEF BookSound
    <3>3. q = "write" => k.found[1] \in Node BY <1>2, <3>2 DEF JobFits
    <3> HIDE DEF k, q
    <3>4. q = "write" => k.found[2] \subseteq moves'[k.found[1]] BY <3>2, <3>3 DEF JobFits
    <3>5. \A N : k.found \in NodesOf(moves) \X N => k.found \in NodesOf(moves') \X N BY <1>1
    <3>6. recursiveVisits' = recursiveVisits OBVIOUS
    <3> QED BY <1>1, <3>1, <3>2, <3>4, <3>5, <3>6 DEF JobFits
  <2> QED BY <2>1, <2>2
<1>6. ASSUME NEW n \in Node, \E u \in GameThread : Awaited(job[u], gamePc[u], n)
      PROVE  avoided'[n] # NoValues \/ \E u \in GameThread : Awaited(job'[u], gamePc'[u], n)
  <2>1. PICK u \in GameThread : Awaited(job[u], gamePc[u], n) BY <1>6
  <2>2. CASE u = t BY <1>3, <2>1, <2>2
  <2>3. CASE u # t BY <1>3, <2>1, <2>3
  <2> QED BY <2>2, <2>3
<1>7. ASSUME NEW n \in NodesOf(moves'), n # Root \/ moves'[n] # {}
      PROVE  avoided'[n] # NoValues \/ \E u \in GameThread : Awaited(job'[u], gamePc'[u], n)
  <2>1. n \in Node BY <1>2
  <2>2. CASE moves'[n] # moves[n] \/ n \notin NodesOf(moves) BY <1>3, <2>1, <2>2
  <2>3. CASE moves'[n] = moves[n] /\ n \in NodesOf(moves)
    <3>1. avoided[n] # NoValues \/ \E u \in GameThread : Awaited(job[u], gamePc[u], n)
      BY <1>7, <2>3 DEF BookSound, ValuesCome
    <3> QED BY <1>6, <2>1, <3>1
  <2> QED BY <2>2, <2>3
<1>8. ASSUME NEW u \in GameThread, NEW n, u # t, ToppedUp(job[u], gamePc[u], n)
      PROVE  ToppedUp(job[u], gamePc[u], n)'
  BY <1>3, <1>8 DEF ToppedUp
<1>9. \A n : ToppedUp(j, p, n) => ToppedUp(job[t], gamePc[t], n)' BY <1>3 DEF ToppedUp
<1>10. ASSUME NEW n \in NodesOf(moves'), n # Root /\ moves'[n] = {}
       PROVE  visits'[n] >= maxVisitsForLeaves \/ \E u \in GameThread : ToppedUp(job[u], gamePc[u], n)'
  <2>1. n \in Node BY <1>2
  <2>2. CASE n \notin NodesOf(moves) BY <1>9, <2>1, <2>2
  <2>3. CASE n \in NodesOf(moves)
    <3>1. moves[n] = {} BY <1>10, <2>1
    <3>2. visits[n] >= maxVisitsForLeaves \/ \E u \in GameThread : ToppedUp(job[u], gamePc[u], n)
      BY <1>10, <2>3, <3>1 DEF BookSound, VisitsCome
    <3>3. CASE visits[n] >= maxVisitsForLeaves BY <1>9, <1>10, <2>1, <3>3
    <3>4. CASE \E u \in GameThread : ToppedUp(job[u], gamePc[u], n)
      <4>1. PICK u \in GameThread : ToppedUp(job[u], gamePc[u], n) BY <3>4
      <4>2. CASE u = t BY <1>9, <1>10, <2>1, <4>1, <4>2
      <4>3. CASE u # t BY <1>8, <4>1, <4>3
      <4> QED BY <4>2, <4>3
    <3> QED BY <3>2, <3>3, <3>4
  <2> QED BY <2>2, <2>3
<1>11. ValuesCome' BY <1>7 DEF ValuesCome
<1>12. VisitsCome' BY <1>10 DEF VisitsCome
<1>13. FileIsSearched' BY DEF BookSound, FileIsSearched
<1> QED BY <1>4, <1>5, <1>11, <1>12, <1>13 DEF BookSound
\* What the invariant says of one thread.
LEMMA ThreadFacts ==
    ASSUME BookSound, NEW t \in GameThread
    PROVE  /\ job[t] \in JobType /\ gamePc[t] \in GamePc /\ JobFits(job[t], gamePc[t])
           /\ NodesOf(moves) \subseteq Node /\ (gamePc[t] # "none" => bookPc = "join")
           /\ job \in [GameThread -> JobType] /\ gamePc \in [GameThread -> GamePc]
           /\ alone \in BOOLEAN /\ newAndChangedNodes \subseteq Node
           /\ moves \in [Node -> SUBSET Node] /\ visits \in [Node -> Visits]
           /\ \A n \in Node : moves[n] \subseteq Succ[n]
           /\ recursiveVisits \in [Node -> Visits]
<1>1. NodesOf(moves) \subseteq Node
  BY NodesAreNodes DEF BookTyped, BookSound, BookTypes
<1> QED BY <1>1 DEF BookSound, BookTypes, BookTyped

\* A call that has begun, or ended, knows nothing.
LEMMA JobIs ==
    ASSUME NEW n \in Node \cup {NoNode}
    PROVE  /\ Job(n) \in JobType /\ Job(n).stack = <<>> /\ Job(n).node = n
           /\ Job(n).nodesHashesToSearch = {} /\ Job(n).nodesHashesToUpdate = {}
  BY DEF Job, JobType

\* Without a search tree there are no levels.
LEMMA NoLevels ==
    ASSUME NEW j, j.stack = <<>> PROVE LevelNodes(j) = {} /\ Added(j) = {}
  BY DEF LevelNodes, Added

\* A thread that goes on with what it knew.
LEMMA StandsStill ==
    ASSUME BookSound, NEW t \in GameThread, UNCHANGED job, NEW p, gamePc' = [gamePc EXCEPT ![t] = p]
    PROVE  Moved(t, job[t], p)
  BY ThreadFacts DEF Moved

\* A thread that is not expanding a node has no duties.
LEMMA RestingIsIdle ==
    ASSUME BookSound, NEW t \in GameThread, gamePc[t] \in Resting
    PROVE  /\ job[t].stack = <<>> /\ job[t].nodesHashesToSearch = {}
           /\ job[t].nodesHashesToUpdate = {}
           /\ LevelNodes(job[t]) = {} /\ Added(job[t]) = {}
           /\ \A n : /\ ~Searching(job[t], gamePc[t], n) /\ ~Awaited(job[t], gamePc[t], n)
                     /\ ~ToppedUp(job[t], gamePc[t], n)
<1>1. /\ job[t].stack = <<>> /\ job[t].nodesHashesToSearch = {}
      /\ job[t].nodesHashesToUpdate = {}
  BY ThreadFacts DEF JobFits, Resting, Fresh, Recording
<1>2. LevelNodes(job[t]) = {} /\ Added(job[t]) = {} BY <1>1, NoLevels
<1> QED BY <1>1, <1>2 DEF Awaited, ToppedUp, Searching, Resting

\* A thread at rest knows nothing.
LEMMA RestingFits ==
    ASSUME NEW j, NEW p \in Resting, j.stack = <<>>, j.nodesHashesToSearch = {},
           j.nodesHashesToUpdate = {}
    PROVE  JobFits(j, p)
  BY NoLevels DEF JobFits, Resting, Fresh, Recording

\* While nodes are expanded one at a time: what a thread at step p has read is
\* still so, and it knows the changed nodes that it searches.
AloneFits(j, p) ==
    /\ p = "set" => moves[j.found[1]] = {}
    /\ p = "write" => j.found[2] = moves[j.found[1]]
    /\ p = "push" => j.read = newAndChangedNodes /\ j.nodesHashesToUpdate \subseteq newAndChangedNodes
    /\ \A n \in Node : Searching(j, p, n) /\ moves[n] # {} => n \in j.nodesHashesToUpdate \cup Added(j)

\* A node whose moves to avoid are going to be written, and one that will be recomputed.
AvoidsCome(j, p, n) == Searching(j, p, n) \/ n \in Added(j)
ChangeDue(n) == /\ bookPc = "join"
                /\ \/ n \in newAndChangedNodes
                   \/ \E t \in GameThread : n \in job[t].nodesHashesToUpdate \cup Added(job[t])

\* The recursive visits of n are what those of its children make.
Made(n) == recursiveVisits[n] = recomputeNodeValues(n, recursiveVisits, Contents)

\* The values in the file avoid the moves in the file.
FileIsConsistent == \A n \in Node : bookFile.avoided[n] \in {NoValues, bookFile.moves[n]}

\* What holds in addition as long as no two threads have expanded at the same time.
AloneOK ==
    /\ \A t, u \in GameThread : t # u => gamePc[t] \in Resting \/ gamePc[u] \in Resting
    /\ \A t \in GameThread : AloneFits(job[t], gamePc[t])
    /\ \A n \in Node : \/ avoided[n] \in {NoValues, moves[n]}
                       \/ \E t \in GameThread : AvoidsCome(job[t], gamePc[t], n)
    /\ \A n \in Node : moves[n] # {} => Made(n) \/ ChangeDue(n)
    /\ FileIsConsistent

\* Nobody but t is at work.
OthersRest(t) == \A u \in GameThread \ {t} : gamePc[u] \in Resting

\* A step to j at p leaves no node with other moves to avoid than its own, and none
\* whose recursive values are not right, but those that its thread knows.
KeepsAlone(t, j, p) == \A n \in Node :
    /\ (AvoidsCome(job[t], gamePc[t], n) \/ moves'[n] # moves[n] \/ avoided'[n] # avoided[n])
         => AvoidsCome(j, p, n) \/ avoided'[n] = moves'[n]
    /\ (\/ n \in newAndChangedNodes \cup job[t].nodesHashesToUpdate \cup Added(job[t])
        \/ moves'[n] # {} /\ (moves'[n] # moves[n] \/ visits'[n] # visits[n]))
         => n \in newAndChangedNodes' \cup j.nodesHashesToUpdate \cup Added(j)

\* A step that writes nothing in the book leaves the duties of its thread to it.
Leaves(t, j, p) == \A n \in Node :
    /\ Awaited(job[t], gamePc[t], n) => Awaited(j, p, n) \/ avoided[n] # NoValues
    /\ ToppedUp(job[t], gamePc[t], n) =>
         ToppedUp(j, p, n) \/ visits[n] >= maxVisitsForLeaves \/ moves[n] # {}

\* A step that writes nothing in the book keeps the invariant.
LEMMA ThreadThinks ==
    ASSUME BookSound, NEW t \in GameThread, NEW j \in JobType, NEW p \in GamePc, Moved(t, j, p),
           UNCHANGED <<moves, values, recursiveVisits, bookPc, bookFile>>,
           bookPc = "join", alone' \in BOOLEAN, canExpand' \subseteq canExpand,
           positionsToSearch' \subseteq positionsToSearch, newAndChangedNodes' \subseteq Node,
           JobFits(j, p), Leaves(t, j, p)
    PROVE  BookSound'
<1>1. UNCHANGED <<moves, visits, avoided, recursiveVisits>> BY DEF values
<1>2. BookGrows
  <2>1. BookTyped(moves', visits', avoided', canExpand')
    BY <1>1 DEF BookSound, BookTypes, BookTyped
  <2> QED BY <1>1, <2>1 DEF BookGrows
<1>3. JobFits(j, p)' BY <1>1 DEF JobFits
<1>4. Discharges(t, j, p) BY <1>1 DEF Leaves, Discharges
<1> QED BY <1>2, <1>3, <1>4, ThreadMoves

\* Of the book, only the entry of the node counts.
LEMMA ValuesOfOne ==
    ASSUME NEW n, NEW f, NEW b, NEW c, b.visits[n] = c.visits[n], b.moves[n] = c.moves[n]
    PROVE  recomputeNodeValues(n, f, b) = recomputeNodeValues(n, f, c)
  BY DEF recomputeNodeValues

\* Values stay right as long as nothing they are made of changes.
LEMMA StaysMade ==
    ASSUME BookSound, NEW n \in Node, Made(n), moves'[n] = moves[n], visits'[n] = visits[n],
           UNCHANGED recursiveVisits
    PROVE  Made(n)'
<1>1. PICK b : b = Contents OBVIOUS
<1>2. PICK c : c = Contents' OBVIOUS
<1>3. PICK r : r = recursiveVisits OBVIOUS
<1>4. b.visits[n] = c.visits[n] /\ b.moves[n] = c.moves[n] BY <1>1, <1>2 DEF Contents
<1>5. recomputeNodeValues(n, r, b) = recomputeNodeValues(n, r, c) BY <1>4, ValuesOfOne
<1>6. r[n] = recomputeNodeValues(n, r, b) BY <1>1, <1>3, Zenon DEF Made
<1>7. r[n] = recomputeNodeValues(n, r, c) BY <1>5, <1>6
<1>8. recursiveVisits' = r BY <1>3
<1> QED BY <1>2, <1>7, <1>8, Zenon DEF Made

\* Steps of the one thread that is at work keep the book consistent.
LEMMA AloneMoves ==
    ASSUME BookSound, AloneOK, NEW t \in GameThread, NEW j \in JobType, NEW p \in GamePc,
           Moved(t, j, p), UNCHANGED <<recursiveVisits, bookPc, bookFile>>, bookPc = "join",
           OthersRest(t), AloneFits(j, p)', KeepsAlone(t, j, p)
    PROVE  AloneOK'
<1>1. /\ job'[t] = j /\ gamePc'[t] = p
      /\ \A u \in GameThread \ {t} : job'[u] = job[u] /\ gamePc'[u] = gamePc[u]
  BY ThreadFacts DEF Moved
<1>2. \A u \in GameThread \ {t} :
        /\ gamePc'[u] \in Resting /\ job[u].nodesHashesToUpdate = {} /\ Added(job[u]) = {}
        /\ \A n : ~AvoidsCome(job[u], gamePc[u], n) /\ ~Searching(job[u], gamePc[u], n)
  BY <1>1, RestingIsIdle DEF OthersRest, AvoidsCome
<1>3. \A u, w \in GameThread : u # w => gamePc'[u] \in Resting \/ gamePc'[w] \in Resting BY <1>2
<1>4. ASSUME NEW u \in GameThread PROVE AloneFits(job[u], gamePc[u])'
  <2>1. CASE u = t BY <1>1, <2>1 DEF AloneFits
  <2>2. CASE u # t
    <3>1. PICK k, q : k = job[u] /\ q = gamePc[u] OBVIOUS
    <3>2. job'[u] = k /\ gamePc'[u] = q BY <1>1, <2>2, <3>1
    <3>3. q \in Resting /\ \A n : ~Searching(k, q, n) BY <1>2, <2>2, <3>1, <3>2
    <3>4. AloneFits(k, q)' BY <3>3 DEF AloneFits, Resting
    <3> QED BY <3>2, <3>4 DEF AloneFits
  <2> QED BY <2>1, <2>2
<1>5. ASSUME NEW n \in Node
      PROVE  \/ avoided'[n] \in {NoValues, moves'[n]}
             \/ \E u \in GameThread : AvoidsCome(job'[u], gamePc'[u], n)
  <2>1. CASE AvoidsCome(job[t], gamePc[t], n) \/ moves'[n] # moves[n] \/ avoided'[n] # avoided[n]
    BY <1>1, <2>1 DEF KeepsAlone
  <2>2. CASE /\ ~AvoidsCome(job[t], gamePc[t], n)
             /\ moves'[n] = moves[n] /\ avoided'[n] = avoided[n]
    <3>1. \A u \in GameThread : ~AvoidsCome(job[u], gamePc[u], n) BY <1>2, <2>2
    <3> QED BY <2>2, <3>1 DEF AloneOK
  <2> QED BY <2>1, <2>2
<1>6. ASSUME NEW n \in Node, moves'[n] # {} PROVE Made(n)' \/ ChangeDue(n)'
  <2>1. CASE \/ n \in newAndChangedNodes \cup job[t].nodesHashesToUpdate \cup Added(job[t])
             \/ moves'[n] # moves[n] \/ visits'[n] # visits[n]
    <3>1. n \in newAndChangedNodes' \cup j.nodesHashesToUpdate \cup Added(j)
      BY <1>6, <2>1 DEF KeepsAlone
    <3>2. \/ n \in newAndChangedNodes'
          \/ \E u \in GameThread : n \in job'[u].nodesHashesToUpdate \cup Added(job'[u])
      BY <1>1, <3>1
    <3> QED BY <3>2 DEF ChangeDue, Added
  <2>2. CASE /\ n \notin newAndChangedNodes \cup job[t].nodesHashesToUpdate \cup Added(job[t])
             /\ moves'[n] = moves[n] /\ visits'[n] = visits[n]
    <3>1. ~ChangeDue(n) BY <1>2, <2>2 DEF ChangeDue
    <3>2. Made(n) BY <1>6, <2>2, <3>1 DEF AloneOK
    <3>3. Made(n)' BY <2>2, <3>2, StaysMade
    <3> QED BY <3>3
  <2> QED BY <2>1, <2>2
<1>7. FileIsConsistent' BY DEF AloneOK, FileIsConsistent
<1>8. (\A n \in Node : \/ avoided[n] \in {NoValues, moves[n]}
                      \/ \E u \in GameThread : AvoidsCome(job[u], gamePc[u], n))'
  BY <1>5 DEF AvoidsCome, Searching, Added
<1> QED BY <1>3, <1>4, <1>6, <1>7, <1>8 DEF AloneOK

\* So do steps of threads that are not at work, and of the main thread.
LEMMA AloneStays ==
    ASSUME BookSound, AloneOK,
           UNCHANGED <<moves, values, recursiveVisits, job, newAndChangedNodes>>,
           bookFile' = bookFile \/ FileIsConsistent',
           \A t \in GameThread : gamePc'[t] = gamePc[t] \/ {gamePc[t], gamePc'[t]} \subseteq Resting,
           bookPc' = bookPc \/ bookPc # "join"
    PROVE  AloneOK'
<1>1. UNCHANGED <<moves, visits, avoided>> BY DEF values
<1>2. \A t \in GameThread : \A n : Searching(job'[t], gamePc'[t], n) <=> Searching(job[t], gamePc[t], n)
  BY DEF Searching, Resting
<1>3. \A t, u \in GameThread : t # u => gamePc'[t] \in Resting \/ gamePc'[u] \in Resting BY DEF AloneOK
<1>4. \A t \in GameThread : AloneFits(job[t], gamePc[t])'
  <2> SUFFICES ASSUME NEW t \in GameThread PROVE AloneFits(job[t], gamePc[t])' OBVIOUS
  <2>1. AloneFits(job[t], gamePc[t]) BY DEF AloneOK
  <2>2. \A q \in {"set", "write", "push"} : gamePc'[t] = q => gamePc[t] = q BY DEF Resting
  <2> QED BY <1>1, <1>2, <2>1, <2>2 DEF AloneFits, Added, Searching
<1>5. (\A n \in Node : \/ avoided[n] \in {NoValues, moves[n]}
                      \/ \E u \in GameThread : AvoidsCome(job[u], gamePc[u], n))'
  BY <1>1, <1>2 DEF AvoidsCome, Searching, Added, AloneOK
<1>6. ASSUME NEW n \in Node, moves'[n] # {} PROVE Made(n)' \/ ChangeDue(n)'
  <2>1. Made(n) \/ ChangeDue(n) BY <1>1, <1>6 DEF AloneOK
  <2>2. CASE Made(n) BY <1>1, <2>2, StaysMade
  <2>3. CASE ChangeDue(n) BY <2>3 DEF ChangeDue, Added
  <2> QED BY <2>1, <2>2, <2>3
<1>7. FileIsConsistent' BY DEF AloneOK, FileIsConsistent
<1> QED BY <1>3, <1>4, <1>5, <1>6, <1>7 DEF AloneOK
\* The invariant.
BookInv == BookSound /\ (alone => AloneOK)

\* A step to j at p while no other thread is at work, before or after it.
AloneGoesOn(t, j, p) == alone /\ OthersRest(t) /\ AloneFits(j, p)' /\ KeepsAlone(t, j, p)

\* No other thread is at work with the one that is.
LEMMA ExpandsAlone ==
    ASSUME BookSound, alone => AloneOK, NEW t \in GameThread, gamePc[t] \notin Resting
    PROVE  alone => OthersRest(t) /\ AloneFits(job[t], gamePc[t])
  BY DEF AloneOK, OthersRest

\* What a step of a thread has to show.
LEMMA ExpansionGoesOn ==
    ASSUME BookSound, alone => AloneOK, NEW t \in GameThread, NEW j \in JobType, NEW p \in GamePc,
           Moved(t, j, p), UNCHANGED <<recursiveVisits, bookPc, bookFile>>, bookPc = "join",
           BookSound', alone' => AloneGoesOn(t, j, p)
    PROVE  BookInv'
<1>1. ASSUME alone' PROVE AloneOK' BY <1>1, AloneMoves DEF AloneGoesOn
<1> QED BY <1>1 DEF BookInv

-----------------------------------------------------------------------------
(* The steps of a game thread.                                             *)

\* A thread takes a node to expand.
LEMMA PopsNodeSound ==
    ASSUME BookSound, alone => AloneOK, NEW t \in GameThread, PopsNode(t) PROVE BookInv'
<1>1. gamePc[t] = "pop" /\ UNCHANGED <<moves, values, newAndChangedNodes, bookMainVars>> BY DEF PopsNode
<1>2. UNCHANGED <<recursiveVisits, bookPc, bookFile>> BY <1>1 DEF bookMainVars, disk
<1>3. PICK n \in positionsToSearch :
        /\ positionsToSearch' = positionsToSearch \ {n}
        /\ \/ canExpand' = canExpand \ {n} /\ UNCHANGED <<gamePc, job, alone>>
           \/ /\ gamePc' = [gamePc EXCEPT ![t] = "find"] /\ job' = [job EXCEPT ![t] = Job(n)]
              /\ UNCHANGED canExpand /\ alone' \in BOOLEAN /\ (alone' => alone /\ OthersRest(t))
  BY DEF PopsNode, Goto, OthersRest, Resting
<1>4. n \in NodesOf(moves) /\ n \in Node BY ThreadFacts DEF BookSound, BookTypes
<1>5. job[t].stack = <<>> /\ job[t].nodesHashesToSearch = {}
  BY <1>1, ThreadFacts DEF JobFits, Fresh, Recording, Resting
<1>6. \A m : ~Awaited(job[t], gamePc[t], m) /\ ~ToppedUp(job[t], gamePc[t], m)
  BY <1>1, <1>5, NoLevels DEF Awaited, ToppedUp, Searching
<1>7. \A j, p : Leaves(t, j, p) BY <1>6 DEF Leaves
<1>8. bookPc = "join" BY <1>1, ThreadFacts
<1>9. CASE canExpand' = canExpand \ {n} /\ UNCHANGED <<gamePc, job, alone>>
  <2>1. Moved(t, job[t], gamePc[t]) BY <1>9, ThreadFacts DEF Moved
  <2>2. BookSound' BY <1>1, <1>2, <1>3, <1>7, <1>8, <1>9, <2>1, ThreadFacts, ThreadThinks
  <2>3. alone' => AloneOK' BY <1>1, <1>2, <1>9, AloneStays
  <2> QED BY <2>2, <2>3 DEF BookInv
<1>10. CASE /\ gamePc' = [gamePc EXCEPT ![t] = "find"] /\ job' = [job EXCEPT ![t] = Job(n)]
            /\ UNCHANGED canExpand /\ alone' \in BOOLEAN /\ (alone' => alone /\ OthersRest(t))
  <2>1. Moved(t, Job(n), "find") BY <1>10 DEF Moved
  <2>2. JobFits(Job(n), "find") BY <1>4, JobIs, NoLevels DEF JobFits, Fresh, Recording, Resting
  <2>3. Job(n) \in JobType /\ "find" \in GamePc BY <1>4, JobIs DEF GamePc, Fresh
  <2>4. BookSound' BY <1>1, <1>2, <1>3, <1>7, <1>8, <1>10, <2>1, <2>2, <2>3, ThreadFacts, ThreadThinks
  <2>5. PICK j \in JobType : j = Job(n) BY <2>3
  <2>6. AloneFits(j, "find")' BY <1>4, <2>5, JobIs DEF AloneFits, Searching
  <2>7. KeepsAlone(t, j, "find")
    <3>1. job[t].nodesHashesToUpdate = {} /\ Added(job[t]) = {}
          /\ \A m : ~AvoidsCome(job[t], gamePc[t], m)
      BY <1>1, RestingIsIdle DEF Resting, AvoidsCome
    <3> QED BY <1>1, <3>1 DEF KeepsAlone, values
  <2>8. alone' => AloneGoesOn(t, j, "find") BY <1>10, <2>6, <2>7 DEF AloneGoesOn
  <2> QED BY <1>2, <1>8, <2>1, <2>3, <2>4, <2>5, <2>8, ExpansionGoesOn
<1> QED BY <1>3, <1>9, <1>10

\* It finds none left, and exits.
LEMMA ExitsSound ==
    ASSUME BookSound, alone => AloneOK, NEW t \in GameThread, Exits(t) PROVE BookInv'
<1>1. /\ gamePc[t] = "pop" /\ gamePc' = [gamePc EXCEPT ![t] = "none"]
      /\ UNCHANGED <<moves, values, switches, job, positionsToSearch, newAndChangedNodes,
                     bookMainVars, alone>>
  BY DEF Exits, Goto
<1>2. UNCHANGED <<recursiveVisits, bookPc, bookFile, canExpand>>
  BY <1>1 DEF bookMainVars, disk, switches
<1>3. Moved(t, job[t], "none") BY <1>1, StandsStill
<1>4. JobFits(job[t], "none") BY <1>1, ThreadFacts DEF JobFits, Fresh, Recording, Resting
<1>5. Leaves(t, job[t], "none") BY <1>1 DEF Leaves, Awaited, ToppedUp, Searching
<1>6. "none" \in GamePc /\ bookPc = "join" BY <1>1, ThreadFacts DEF GamePc, Fresh
<1>7. BookSound' BY <1>1, <1>2, <1>3, <1>4, <1>5, <1>6, ThreadFacts, ThreadThinks
<1>8. \A u \in GameThread : gamePc'[u] = gamePc[u] \/ {gamePc[u], gamePc'[u]} \subseteq Resting
  BY <1>1, ThreadFacts DEF Resting
<1>9. alone' => AloneOK' BY <1>1, <1>2, <1>8, AloneStays
<1> QED BY <1>7, <1>9 DEF BookInv

\* It looks which moves the search is to avoid.
LEMMA FindsNewMovesSound ==
    ASSUME BookSound, alone => AloneOK, NEW t \in GameThread, FindsNewMoves(t) PROVE BookInv'
<1>1. gamePc[t] = "find" /\ UNCHANGED <<moves, values, canReExpand, positionsToSearch,
                                        newAndChangedNodes, bookMainVars, alone>>
  BY DEF FindsNewMoves
<1>2. UNCHANGED <<recursiveVisits, bookPc, bookFile>> BY <1>1 DEF bookMainVars, disk
<1>3. PICK avoid \in {{}, moves[job[t].node]} :
        \/ canExpand' = canExpand \ {job[t].node} /\ Goto(t, "pop") /\ UNCHANGED job
        \/ job' = [job EXCEPT ![t].avoid = avoid] /\ Goto(t, "search") /\ UNCHANGED canExpand
  BY DEF FindsNewMoves
<1>4. bookPc = "join" BY <1>1, ThreadFacts
<1>a. /\ job[t].nodesHashesToUpdate = {} /\ job[t].nodesHashesToSearch = {} /\ job[t].stack = <<>>
      /\ Added(job[t]) = {} /\ \A m : ~AvoidsCome(job[t], gamePc[t], m)
  <2>1. /\ job[t].nodesHashesToUpdate = {} /\ job[t].nodesHashesToSearch = {}
        /\ job[t].stack = <<>>
    BY <1>1, ThreadFacts DEF JobFits, Fresh, Recording
  <2> QED BY <1>1, <2>1, NoLevels DEF AvoidsCome, Searching
<1>b. alone' => alone /\ OthersRest(t) BY <1>1, ExpandsAlone DEF Resting
<1>c. ASSUME NEW j, NEW p, j.nodesHashesToSearch = {}, p \in {"pop", "search"}
      PROVE  alone' => AloneGoesOn(t, j, p)
  <2>1. AloneFits(j, p)' BY <1>c DEF AloneFits, Searching
  <2>2. KeepsAlone(t, j, p) BY <1>1, <1>a DEF KeepsAlone, values
  <2> QED BY <1>b, <2>1, <2>2 DEF AloneGoesOn
<1>5. CASE canExpand' = canExpand \ {job[t].node} /\ Goto(t, "pop") /\ UNCHANGED job
  <2>1. Moved(t, job[t], "pop") BY <1>5, StandsStill DEF Goto
  <2>2. JobFits(job[t], "pop") BY <1>1, ThreadFacts DEF JobFits, Fresh, Recording, Resting
  <2>3. Leaves(t, job[t], "pop") BY <1>1 DEF Leaves, Awaited, ToppedUp, Searching
  <2>4. "pop" \in GamePc BY DEF GamePc, Fresh
  <2>5. BookSound' BY <1>1, <1>2, <1>4, <1>5, <2>1, <2>2, <2>3, <2>4, ThreadFacts, ThreadThinks
  <2>6. PICK j \in JobType : j = job[t] BY ThreadFacts
  <2>7. alone' => AloneGoesOn(t, j, "pop") BY <1>a, <1>c, <2>6
  <2> QED BY <1>2, <1>4, <2>1, <2>4, <2>5, <2>6, <2>7, ExpansionGoesOn
<1>6. CASE job' = [job EXCEPT ![t].avoid = avoid] /\ Goto(t, "search") /\ UNCHANGED canExpand
  <2> DEFINE j == [job[t] EXCEPT !.avoid = avoid]
  <2>1. Moved(t, j, "search") BY <1>6 DEF Goto, Moved
  <2>2. avoid \subseteq Node
    <3>1. job[t].node \in Node BY <1>1, ThreadFacts DEF JobFits, Resting
    <3> QED BY <3>1, ThreadFacts
  <2>3. /\ j \in JobType /\ j.stack = job[t].stack /\ j.node = job[t].node /\ j.found = job[t].found
        /\ j.nodesHashesToSearch = job[t].nodesHashesToSearch
        /\ j.nodesHashesToUpdate = job[t].nodesHashesToUpdate
    BY <2>2, ThreadFacts DEF JobType
  <2> HIDE DEF j
  <2>4. LevelNodes(j) = LevelNodes(job[t]) /\ Added(j) = Added(job[t])
    BY <2>3 DEF LevelNodes, Added
  <2>5. JobFits(j, "search") BY <1>1, <2>3, <2>4, ThreadFacts DEF JobFits, Fresh, Recording, Resting
  <2>6. Leaves(t, j, "search") BY <1>1, <2>3, <2>4 DEF Leaves, Awaited, ToppedUp, Searching
  <2>7. "search" \in GamePc BY DEF GamePc, Fresh
  <2>8. BookSound' BY <1>1, <1>2, <1>4, <1>6, <2>1, <2>3, <2>5, <2>6, <2>7, ThreadFacts, ThreadThinks
  <2>9. PICK k \in JobType : k = j BY <2>3
  <2>10. alone' => AloneGoesOn(t, k, "search") BY <1>a, <1>c, <2>3, <2>9
  <2> QED BY <1>2, <1>4, <2>1, <2>7, <2>8, <2>9, <2>10, ExpansionGoesOn
<1> QED BY <1>3, <1>5, <1>6

\* The search is over: its tree is walked next.
LEMMA WholeSearchEndsSound ==
    ASSUME BookSound, alone => AloneOK, NEW t \in GameThread, WholeSearchEnds(t) PROVE BookInv'
<1> DEFINE level == Level(job[t].node, Succ[job[t].node] \ job[t].avoid)
           j == [job[t] EXCEPT !.stack = <<level>>]
<1>1. /\ gamePc[t] = "search"
      /\ UNCHANGED <<moves, values, switches, positionsToSearch, newAndChangedNodes,
                     bookMainVars, alone>>
      /\ \/ Goto(t, "pop") /\ UNCHANGED job
         \/ job' = [job EXCEPT ![t] = j] /\ Goto(t, "record")
  BY DEF WholeSearchEnds
<1>2. UNCHANGED <<recursiveVisits, bookPc, bookFile, canExpand>>
  BY <1>1 DEF bookMainVars, disk, switches
<1>3. bookPc = "join" BY <1>1, ThreadFacts
<1>a. /\ job[t].nodesHashesToUpdate = {} /\ job[t].nodesHashesToSearch = {}
      /\ Added(job[t]) = {} /\ \A m : ~AvoidsCome(job[t], gamePc[t], m)
  <2>1. /\ job[t].nodesHashesToUpdate = {} /\ job[t].nodesHashesToSearch = {}
        /\ job[t].stack = <<>>
    BY <1>1, ThreadFacts DEF JobFits, Fresh, Recording
  <2> QED BY <1>1, <2>1, NoLevels DEF AvoidsCome, Searching
<1>b. alone' => alone /\ OthersRest(t) BY <1>1, ExpandsAlone DEF Resting
<1>c. ASSUME NEW k, NEW p, k.nodesHashesToSearch = {}, p \in {"pop", "record"}
      PROVE  alone' => AloneGoesOn(t, k, p)
  <2>1. AloneFits(k, p)' BY <1>c DEF AloneFits, Searching
  <2>2. KeepsAlone(t, k, p) BY <1>1, <1>a DEF KeepsAlone, values
  <2> QED BY <1>b, <2>1, <2>2 DEF AloneGoesOn
<1>4. CASE Goto(t, "pop") /\ UNCHANGED job
  <2>1. Moved(t, job[t], "pop") BY <1>4, StandsStill DEF Goto
  <2>2. JobFits(job[t], "pop") BY <1>1, ThreadFacts DEF JobFits, Fresh, Recording, Resting
  <2>3. Leaves(t, job[t], "pop") BY <1>1 DEF Leaves, Awaited, ToppedUp, Searching
  <2>4. "pop" \in GamePc BY DEF GamePc, Fresh
  <2>5. BookSound' BY <1>1, <1>2, <1>3, <2>1, <2>2, <2>3, <2>4, ThreadFacts, ThreadThinks
  <2>6. PICK k \in JobType : k = job[t] BY ThreadFacts
  <2>7. alone' => AloneGoesOn(t, k, "pop") BY <1>a, <1>c, <2>6
  <2> QED BY <1>2, <1>3, <2>1, <2>4, <2>5, <2>6, <2>7, ExpansionGoesOn
<1>5. CASE job' = [job EXCEPT ![t] = j] /\ Goto(t, "record")
  <2>1. Moved(t, j, "record") BY <1>5 DEF Goto, Moved
  <2>2. job[t].node \in NodesOf(moves) /\ job[t].node \in Node /\ job[t].stack = <<>>
    BY <1>1, ThreadFacts DEF JobFits, Fresh, Recording, Resting
  <2>3. level \in LevelType /\ level.node = job[t].node /\ ~level.anythingAdded
    BY <2>2, BookFacts DEF Level, LevelType
  <2> HIDE DEF level
  <2>4. /\ j \in JobType /\ j.stack = <<level>> /\ j.node = job[t].node
        /\ j.nodesHashesToSearch = job[t].nodesHashesToSearch
        /\ j.nodesHashesToUpdate = job[t].nodesHashesToUpdate
    <3> DEFINE s == <<level>>
    <3>1. s \in Seq(LevelType) BY <2>3
    <3> HIDE DEF s
    <3>2. /\ [job[t] EXCEPT !.stack = s] \in JobType /\ [job[t] EXCEPT !.stack = s].stack = s
          /\ [job[t] EXCEPT !.stack = s].node = job[t].node
          /\ [job[t] EXCEPT !.stack = s].nodesHashesToSearch = job[t].nodesHashesToSearch
          /\ [job[t] EXCEPT !.stack = s].nodesHashesToUpdate = job[t].nodesHashesToUpdate
      BY <3>1, ThreadFacts DEF JobType
    <3> QED BY <3>2 DEF s
  <2> HIDE DEF j
  <2>5. LevelNodes(j) = {job[t].node} /\ Added(j) = {} /\ j.stack # <<>>
    <3>1. DOMAIN j.stack = {1} /\ j.stack[1] = level BY <2>4
    <3> QED BY <2>3, <2>4, <3>1 DEF LevelNodes, Added
  <2>6. Added(job[t]) = {} BY <2>2, NoLevels
  <2>7. JobFits(j, "record") BY <1>1, <2>2, <2>4, <2>5, ThreadFacts DEF JobFits, Fresh, Recording, Resting
  <2>8. Leaves(t, j, "record") BY <1>1, <2>4, <2>5, <2>6 DEF Leaves, Awaited, ToppedUp, Searching
  <2>9. "record" \in GamePc BY DEF GamePc, Recording
  <2>10. BookSound' BY <1>1, <1>2, <1>3, <2>1, <2>4, <2>7, <2>8, <2>9, ThreadFacts, ThreadThinks
  <2>11. PICK k \in JobType : k = j BY <2>4
  <2>12. alone' => AloneGoesOn(t, k, "record") BY <1>a, <1>c, <2>4, <2>11
  <2> QED BY <1>2, <1>3, <2>1, <2>9, <2>10, <2>11, <2>12, ExpansionGoesOn
<1> QED BY <1>1, <1>4, <1>5

\* A child of the walk is recorded in the book, new or not.
LEMMA RecordsChildSound ==
    ASSUME BookSound, alone => AloneOK, NEW t \in GameThread, RecordsChild(t) PROVE BookInv'
<1> DEFINE parent == job[t].stack[Len(job[t].stack)].node
<1>1. /\ gamePc[t] = "record" /\ job[t].stack # <<>>
      /\ UNCHANGED <<values, switches, positionsToSearch, newAndChangedNodes, bookMainVars, alone>>
  BY DEF RecordsChild
<1>2. UNCHANGED <<visits, avoided, recursiveVisits, bookPc, bookFile, canExpand>>
  BY <1>1 DEF bookMainVars, disk, switches, values
<1>3. PICK c \in job[t].stack[Len(job[t].stack)].left, v \in SearchVisits :
        /\ moves' = [moves EXCEPT ![parent] = @ \cup {c}]
        /\ LET j == Recorded(job[t], c, v) IN
           \/ /\ c \notin InBook \/ (moves[c] = {} /\ recursiveVisits[c] < v)
              /\ job' = [job EXCEPT ![t] = j] /\ Goto(t, "set")
           \/ /\ c \in InBook
              /\ job' = [job EXCEPT ![t] = Descended(ToppedOff([j EXCEPT !.found = <<>>], c), c, v)]
              /\ UNCHANGED gamePc
  BY DEF RecordsChild
<1>4. /\ bookPc = "join" /\ job[t] \in JobType /\ moves \in [Node -> SUBSET Node]
      /\ gamePc \in [GameThread -> GamePc] /\ NodesOf(moves) \subseteq Node
  BY <1>1, ThreadFacts
<1>5. parent \in NodesOf(moves) /\ parent \in Node /\ c \in Succ[parent] /\ c \in Node
  <2> DEFINE s == job[t].stack
  <2>1. s \in Seq(LevelType) /\ s # <<>> BY <1>1, <1>4 DEF JobType
  <2>2. Len(s) \in DOMAIN s /\ s[Len(s)] \in LevelType BY <2>1
  <2>3. parent \in LevelNodes(job[t]) BY <2>2 DEF LevelNodes
  <2>4. parent \in NodesOf(moves) BY <2>3, ThreadFacts DEF JobFits
  <2>5. parent \in Node /\ c \in Succ[parent] BY <2>2 DEF LevelType
  <2> QED BY <2>4, <2>5, BookFacts
<1> HIDE DEF parent
<1>6. /\ moves' \in [Node -> SUBSET Node] /\ moves'[parent] = moves[parent] \cup {c}
      /\ \A n \in Node \ {parent} : moves'[n] = moves[n]
  BY <1>3, <1>4, <1>5
<1>7. NodesOf(moves') = NodesOf(moves) \cup {c}
  BY <1>5, <1>6 DEF NodesOf
<1>8. BookGrows
  <2>1. BookTyped(moves', visits', avoided', canExpand')
    <3>1. \A n \in Node : moves'[n] \subseteq Succ[n] BY <1>5, <1>6, ThreadFacts
    <3>2. \A n \in Node \ NodesOf(moves') : moves'[n] = {} /\ visits[n] = 0
      BY <1>5, <1>6, <1>7 DEF BookSound, BookTypes, BookTyped
    <3> QED BY <1>2, <1>6, <3>1, <3>2 DEF BookSound, BookTypes, BookTyped
  <2> QED BY <1>1, <1>6, <2>1, ThreadFacts DEF BookGrows
<1>9. PICK j \in JobType :
      /\ j = Recorded(job[t], c, v) /\ j.stack # <<>>
      /\ LevelNodes(j) = LevelNodes(job[t])
      /\ Added(j) = Added(job[t]) \cup {n \in {parent} : c \notin moves[n]}
      /\ j.nodesHashesToSearch = job[t].nodesHashesToSearch
      /\ job[t].nodesHashesToUpdate \subseteq j.nodesHashesToUpdate
      /\ j.found = <<c, v>> /\ j.node = job[t].node
  BY <1>1, <1>4, <1>5, RecordedIs DEF parent
<1>10. /\ LevelNodes(job[t]) \cup job[t].nodesHashesToSearch \subseteq NodesOf(moves')
       /\ LevelNodes(job[t]) \cup job[t].nodesHashesToSearch \subseteq NodesOf(moves)
       /\ job[t].node \in NodesOf(moves')
  BY <1>1, <1>7, ThreadFacts DEF JobFits, Resting
<1>11. \A n \in Node : moves'[n] # moves[n] => n \in Added(j) BY <1>6, <1>9
<1>a. alone' => alone /\ OthersRest(t) /\ AloneFits(job[t], "record")
  BY <1>1, ExpandsAlone DEF Resting
<1>b. ASSUME NEW l \in JobType, NEW p, p # "write",
             Added(j) \subseteq Added(l), j.nodesHashesToSearch \subseteq l.nodesHashesToSearch,
             j.nodesHashesToUpdate \subseteq l.nodesHashesToUpdate
      PROVE  KeepsAlone(t, l, p)
  <2>1. \A n \in Node : /\ AvoidsCome(job[t], gamePc[t], n) => AvoidsCome(l, p, n)
                        /\ moves'[n] # moves[n] => n \in Added(l)
    BY <1>1, <1>9, <1>11, <1>b DEF AvoidsCome, Searching
  <2> QED BY <1>1, <1>2, <1>9, <1>b, <2>1 DEF KeepsAlone, AvoidsCome
<1>12. CASE /\ c \notin InBook \/ (moves[c] = {} /\ recursiveVisits[c] < v)
            /\ job' = [job EXCEPT ![t] = j] /\ Goto(t, "set")
  <2>1. Moved(t, j, "set") /\ "set" \in GamePc BY <1>9, <1>12 DEF Moved, Goto, GamePc, Recording
  <2>2. recursiveVisits[c] < v
    <3>1. CASE c \notin InBook
      <4>1. recursiveVisits[c] = 0 BY <1>5, <3>1, InBookIs DEF BookSound, BookTypes
      <4> QED BY <4>1 DEF SearchVisits
    <3> QED BY <1>12, <3>1
  <2>3. JobFits(j, "set")' BY <1>2, <1>7, <1>9, <1>10, <2>2 DEF JobFits, Fresh, Recording, Resting
  <2>4. Discharges(t, j, "set")
    <3>1. \A n : Awaited(job[t], gamePc[t], n) => Awaited(j, "set", n)
      BY <1>1, <1>9 DEF Awaited, Searching
    <3>2. \A n : ToppedUp(job[t], gamePc[t], n) => ToppedUp(j, "set", n)
      BY <1>1, <1>9 DEF ToppedUp, Searching
    <3>3. \A n \in Node : moves'[n] # moves[n] => Awaited(j, "set", n) BY <1>11 DEF Awaited
    <3>4. ASSUME NEW n \in NodesOf(moves') \ NodesOf(moves)
          PROVE  Awaited(j, "set", n) /\ ToppedUp(j, "set", n)
      <4>1. n = c /\ recursiveVisits[c] = 0
        BY <1>5, <1>7 DEF BookSound, BookTypes
      <4> QED BY <1>9, <4>1 DEF Awaited, ToppedUp, maxVisitsForLeaves
    <3> QED BY <1>2, <3>1, <3>2, <3>3, <3>4 DEF Discharges
  <2>5. BookSound' BY <1>1, <1>2, <1>4, <1>8, <1>9, <2>1, <2>3, <2>4, ThreadFacts, ThreadMoves
  <2>6. ASSUME alone' PROVE AloneFits(j, "set")'
    <3>1. moves[c] = {} BY <1>5, <1>12, InBookIs DEF BookSound, BookTypes, BookTyped
    <3>2. c # parent BY <1>5, BookFacts
    <3>3. moves'[c] = {} BY <1>5, <1>6, <3>1, <3>2
    <3>4. \A n \in Node : n \in j.nodesHashesToSearch /\ moves'[n] # {} =>
            n \in j.nodesHashesToUpdate \cup Added(j)
      BY <1>a, <1>9, <1>11, <2>6 DEF AloneFits, Searching
    <3> QED BY <1>9, <3>3, <3>4 DEF AloneFits, Searching, Added
  <2>7. KeepsAlone(t, j, "set") BY <1>b
  <2>8. alone' => AloneGoesOn(t, j, "set") BY <1>a, <2>6, <2>7 DEF AloneGoesOn
  <2> QED BY <1>2, <1>4, <2>1, <2>5, <2>8, ExpansionGoesOn
<1>13. CASE /\ c \in InBook
            /\ job' = [job EXCEPT ![t] = Descended(ToppedOff([j EXCEPT !.found = <<>>], c), c, v)]
            /\ UNCHANGED gamePc
  <2> DEFINE i == [j EXCEPT !.found = <<>>]
             k == ToppedOff(i, c)
  <2>1. /\ i \in JobType /\ i.stack = j.stack /\ i.found = <<>> /\ i.node = j.node
        /\ i.nodesHashesToSearch = j.nodesHashesToSearch
        /\ i.nodesHashesToUpdate = j.nodesHashesToUpdate
    BY <1>9 DEF JobType
  <2>2. LevelNodes(i) = LevelNodes(j) /\ Added(i) = Added(j) BY <2>1 DEF LevelNodes, Added
  <2> HIDE DEF i
  <2>3. /\ k \in JobType /\ k.stack = i.stack /\ k.node = i.node
        /\ k.nodesHashesToSearch \subseteq i.nodesHashesToSearch \cup {n \in {c} : moves[n] = {}}
        /\ i.nodesHashesToSearch \subseteq k.nodesHashesToSearch
        /\ k.nodesHashesToUpdate = i.nodesHashesToUpdate
    BY <1>5, <2>1, ToppedOffIs
  <2>4. LevelNodes(k) = LevelNodes(i) /\ Added(k) = Added(i) BY <2>3 DEF LevelNodes, Added
  <2> HIDE DEF k
  <2>5. PICK l \in JobType :
        /\ l = Descended(k, c, v) /\ l.stack # <<>> /\ LevelNodes(l) \subseteq LevelNodes(k) \cup {c}
        /\ Added(l) = Added(k) /\ l.nodesHashesToSearch = k.nodesHashesToSearch
        /\ l.node = k.node /\ l.nodesHashesToUpdate = k.nodesHashesToUpdate
    BY <1>5, <1>9, <2>1, <2>3, DescendedIs
  <2>6. Moved(t, l, "record")
    <3>1. gamePc' = [gamePc EXCEPT ![t] = "record"] BY <1>1, <1>4, <1>13
    <3> QED BY <1>13, <2>5, <3>1 DEF Moved, k, i
  <2>7. c \in NodesOf(moves) /\ NodesOf(moves') = NodesOf(moves) BY <1>7, <1>13, InBookIs
  <2>8. JobFits(l, "record")'
    BY <1>2, <1>9, <1>10, <2>1, <2>2, <2>3, <2>4, <2>5, <2>7 DEF JobFits, Fresh, Recording, Resting
  <2>9. Discharges(t, l, "record")
    <3>1. Added(j) \subseteq Added(l) /\ j.nodesHashesToSearch \subseteq l.nodesHashesToSearch
      BY <2>1, <2>2, <2>3, <2>4, <2>5
    <3>2. \A n : Awaited(job[t], gamePc[t], n) => Awaited(l, "record", n)
      BY <1>1, <1>9, <3>1 DEF Awaited, Searching
    <3>3. \A n : ToppedUp(job[t], gamePc[t], n) => ToppedUp(l, "record", n)
      BY <1>1, <1>9, <3>1 DEF ToppedUp, Searching
    <3>4. \A n \in Node : moves'[n] # moves[n] => Awaited(l, "record", n)
      BY <1>11, <3>1 DEF Awaited
    <3> QED BY <1>2, <2>7, <3>2, <3>3, <3>4 DEF Discharges
  <2>10. "record" \in GamePc BY DEF GamePc, Recording
  <2>11. BookSound' BY <1>1, <1>2, <1>4, <1>8, <2>5, <2>6, <2>8, <2>9, <2>10, ThreadFacts, ThreadMoves
  <2>12. /\ Added(l) = Added(j) /\ l.nodesHashesToUpdate = j.nodesHashesToUpdate
         /\ j.nodesHashesToSearch \subseteq l.nodesHashesToSearch
         /\ l.nodesHashesToSearch \subseteq j.nodesHashesToSearch \cup {n \in {c} : moves[n] = {}}
    BY <2>1, <2>2, <2>3, <2>4, <2>5
  <2>13. ASSUME alone' PROVE AloneFits(l, "record")'
    <3>1. c # parent BY <1>5, BookFacts
    <3>2. \A n \in Node : n \in l.nodesHashesToSearch /\ moves'[n] # {} =>
            n \in l.nodesHashesToUpdate \cup Added(l)
      BY <1>a, <1>6, <1>9, <1>11, <2>12, <2>13, <3>1 DEF AloneFits, Searching
    <3> QED BY <3>2 DEF AloneFits, Searching, Added
  <2>14. KeepsAlone(t, l, "record") BY <1>b, <2>12
  <2>15. alone' => AloneGoesOn(t, l, "record") BY <1>a, <2>13, <2>14 DEF AloneGoesOn
  <2> QED BY <1>2, <1>4, <2>5, <2>6, <2>10, <2>11, <2>15, ExpansionGoesOn
<1> QED BY <1>3, <1>9, <1>12, <1>13

\* A child gets the values that the deep search had for it.
LEMMA SetsValuesSound ==
    ASSUME BookSound, alone => AloneOK, NEW t \in GameThread, SetsValues(t) PROVE BookInv'
<1>1. /\ gamePc[t] = "set" /\ gamePc' = [gamePc EXCEPT ![t] = "topOff"] /\ UNCHANGED job
      /\ UNCHANGED <<moves, switches, positionsToSearch, newAndChangedNodes, bookMainVars, alone>>
      /\ visits' = [visits EXCEPT ![job[t].found[1]] = job[t].found[2]]
      /\ avoided' = [avoided EXCEPT ![job[t].found[1]] = {}]
  BY DEF SetsValues, Goto
<1>2. UNCHANGED <<recursiveVisits, bookPc, bookFile, canExpand>>
  BY <1>1 DEF bookMainVars, disk, switches
<1>3. PICK j \in JobType, c \in NodesOf(moves), v \in SearchVisits :
        j = job[t] /\ j.found = <<c, v>> /\ recursiveVisits[c] < v
  BY <1>1, ThreadFacts DEF JobFits
<1>4. bookPc = "join" /\ c \in Node /\ recursiveVisits[c] \in Visits BY <1>1, ThreadFacts
<1>5. /\ avoided \in [Node -> (SUBSET Node) \cup {NoValues}] /\ visits \in [Node -> Visits]
      /\ \A n \in Node \ NodesOf(moves) : moves[n] = {} /\ visits[n] = 0
  BY DEF BookSound, BookTypes, BookTyped
<1>6. /\ avoided' \in [Node -> (SUBSET Node) \cup {NoValues}] /\ visits' \in [Node -> Visits]
      /\ avoided'[c] = {} /\ visits'[c] = v
      /\ \A n \in Node \ {c} : avoided'[n] = avoided[n] /\ visits'[n] = visits[n]
  <2>1. j.found[1] = c /\ j.found[2] = v BY <1>3
  <2>2. /\ visits' = [visits EXCEPT ![c] = v] /\ avoided' = [avoided EXCEPT ![c] = {}]
        /\ v \in Visits
    BY <1>1, <1>3, <2>1 DEF SearchVisits, Visits
  <2> QED BY <1>4, <1>5, <2>2
<1>7. {} # NoValues BY GenBookAssumption
<1>8. BookGrows
  <2>1. BookTyped(moves', visits', avoided', canExpand')
    BY <1>1, <1>2, <1>5, <1>6 DEF BookSound, BookTypes, BookTyped
  <2> QED BY <1>1, <2>1, ThreadFacts DEF BookGrows
<1>9. Moved(t, j, "topOff") /\ "topOff" \in GamePc
  BY <1>1, <1>3, StandsStill DEF GamePc, Recording
<1>10. JobFits(j, "topOff")'
  <2>1. JobFits(j, "set") BY <1>1, <1>3, ThreadFacts
  <2> QED BY <1>1, <1>2, <1>3, <2>1 DEF JobFits, Fresh, Recording, Resting
<1>11. Discharges(t, j, "topOff")
  <2>1. v \in {1, 3} /\ recursiveVisits[c] \in 0..3 /\ maxVisitsForLeaves = 2
    BY <1>4 DEF SearchVisits, Visits, maxVisitsForLeaves
  <2>2. visits'[c] >= maxVisitsForLeaves \/ ToppedUp(j, "topOff", c)
    <3>1. v >= 2 \/ recursiveVisits[c] < 2 BY <1>3, <2>1
    <3> QED BY <1>3, <1>6, <2>1, <3>1 DEF ToppedUp
  <2>3. ASSUME NEW n, n # c, ToppedUp(job[t], gamePc[t], n) PROVE ToppedUp(j, "topOff", n)
    BY <1>1, <1>3, <2>3 DEF ToppedUp, Searching
  <2>4. ASSUME NEW n, n # c, Awaited(job[t], gamePc[t], n) PROVE Awaited(j, "topOff", n)
    BY <1>1, <1>3, <2>4 DEF Awaited, Searching
  <2> QED BY <1>1, <1>6, <1>7, <2>2, <2>3, <2>4 DEF Discharges
<1>12. BookSound' BY <1>1, <1>2, <1>4, <1>8, <1>9, <1>10, <1>11, ThreadFacts, ThreadMoves
<1>13. ASSUME alone' PROVE AloneGoesOn(t, j, "topOff")
  <2>1. alone /\ OthersRest(t) /\ AloneFits(j, "set") BY <1>1, <1>3, <1>13, ExpandsAlone DEF Resting
  <2>2. moves[c] = {} BY <1>3, <2>1 DEF AloneFits
  <2>3. AloneFits(j, "topOff")'
    <3>1. \A n \in Node : n \in j.nodesHashesToSearch /\ moves[n] # {} =>
            n \in j.nodesHashesToUpdate \cup Added(j)
      BY <2>1 DEF AloneFits, Searching
    <3> QED BY <1>1, <3>1 DEF AloneFits, Searching, Added
  <2>4. KeepsAlone(t, j, "topOff")
    <3>1. \A n \in Node : AvoidsCome(job[t], gamePc[t], n) => AvoidsCome(j, "topOff", n)
      BY <1>1, <1>3 DEF AvoidsCome, Searching
    <3> QED BY <1>1, <1>3, <1>6, <2>2, <3>1 DEF KeepsAlone
  <2> QED BY <2>1, <2>3, <2>4 DEF AloneGoesOn
<1> QED BY <1>2, <1>4, <1>9, <1>12, <1>13, ExpansionGoesOn

\* A leaf gets them too, or is to be searched again.
LEMMA TopsOffSound ==
    ASSUME BookSound, alone => AloneOK, NEW t \in GameThread, TopsOff(t) PROVE BookInv'
<1>1. /\ gamePc[t] = "topOff" /\ gamePc' = [gamePc EXCEPT ![t] = "record"]
      /\ UNCHANGED <<moves, values, switches, positionsToSearch, newAndChangedNodes,
                     bookMainVars, alone>>
      /\ job' = [job EXCEPT ![t] = Descended(ToppedOff([job[t] EXCEPT !.found = <<>>],
                                                       job[t].found[1]),
                                             job[t].found[1], job[t].found[2])]
  BY DEF TopsOff, Goto
<1>2. UNCHANGED <<recursiveVisits, bookPc, bookFile, canExpand>>
  BY <1>1 DEF bookMainVars, disk, switches
<1>3. PICK j \in JobType, c \in NodesOf(moves), v \in SearchVisits : j = job[t] /\ j.found = <<c, v>>
  BY <1>1, ThreadFacts DEF JobFits
<1>4. /\ bookPc = "join" /\ c \in Node /\ job \in [GameThread -> JobType] /\ j.stack # <<>>
      /\ JobFits(j, "topOff")
  BY <1>1, <1>3, ThreadFacts DEF JobFits, Recording
<1> DEFINE i == [j EXCEPT !.found = <<>>]
           k == ToppedOff(i, c)
<1>5. /\ i \in JobType /\ i.stack = j.stack /\ i.found = <<>> /\ i.node = j.node
      /\ i.nodesHashesToSearch = j.nodesHashesToSearch
      /\ i.nodesHashesToUpdate = j.nodesHashesToUpdate
  BY DEF JobType
<1>6. LevelNodes(i) = LevelNodes(j) /\ Added(i) = Added(j) BY <1>5 DEF LevelNodes, Added
<1> HIDE DEF i
<1>7. /\ k \in JobType /\ k.stack = i.stack /\ k.node = i.node
      /\ k.nodesHashesToSearch = i.nodesHashesToSearch \cup
           {n \in {c} : moves[n] = {} /\ recursiveVisits[n] < maxVisitsForLeaves}
      /\ k.nodesHashesToUpdate = i.nodesHashesToUpdate
  BY <1>4, <1>5, ToppedOffIs
<1>8. LevelNodes(k) = LevelNodes(i) /\ Added(k) = Added(i) BY <1>7 DEF LevelNodes, Added
<1> HIDE DEF k
<1>9. PICK l \in JobType :
        /\ l = Descended(k, c, v) /\ l.stack # <<>> /\ LevelNodes(l) \subseteq LevelNodes(k) \cup {c}
        /\ Added(l) = Added(k) /\ l.nodesHashesToSearch = k.nodesHashesToSearch
        /\ l.node = k.node /\ l.nodesHashesToUpdate = k.nodesHashesToUpdate
  BY <1>4, <1>5, <1>7, DescendedIs
<1>10. Moved(t, l, "record") /\ "record" \in GamePc
  <2>1. job[t].found[1] = c /\ job[t].found[2] = v /\ i = [job[t] EXCEPT !.found = <<>>]
    BY <1>3 DEF i
  <2> QED BY <1>1, <1>9, <2>1 DEF Moved, k, GamePc, Recording
<1>11. JobFits(l, "record")
  BY <1>4, <1>5, <1>6, <1>7, <1>8, <1>9 DEF JobFits, Fresh, Recording, Resting
<1>12. Leaves(t, l, "record")
  <2>1. \A n : Awaited(j, "topOff", n) => Awaited(l, "record", n)
    BY <1>5, <1>6, <1>7, <1>8, <1>9 DEF Awaited, Searching
  <2>2. ASSUME NEW n \in Node, ToppedUp(j, "topOff", n)
        PROVE  ToppedUp(l, "record", n) \/ moves[n] # {}
    <3>1. n \in j.nodesHashesToSearch \/ (n = c /\ recursiveVisits[n] < maxVisitsForLeaves)
      BY <1>3, <2>2 DEF ToppedUp, Searching
    <3> QED BY <1>5, <1>7, <1>9, <3>1 DEF ToppedUp, Searching
  <2> QED BY <1>1, <1>3, <2>1, <2>2 DEF Leaves
<1>13. BookSound' BY <1>1, <1>2, <1>4, <1>10, <1>11, <1>12, ThreadFacts, ThreadThinks
<1>14. ASSUME alone' PROVE AloneGoesOn(t, l, "record")
  <2>1. alone /\ OthersRest(t) /\ AloneFits(j, "topOff")
    BY <1>1, <1>3, <1>14, ExpandsAlone DEF Resting
  <2>2. /\ Added(l) = Added(j) /\ l.nodesHashesToUpdate = j.nodesHashesToUpdate
        /\ l.nodesHashesToSearch \subseteq j.nodesHashesToSearch \cup {n \in {c} : moves[n] = {}}
        /\ j.nodesHashesToSearch \subseteq l.nodesHashesToSearch
    BY <1>5, <1>6, <1>7, <1>8, <1>9
  <2>3. AloneFits(l, "record")'
    <3>1. \A n \in Node : n \in l.nodesHashesToSearch /\ moves[n] # {} =>
            n \in l.nodesHashesToUpdate \cup Added(l)
      BY <2>1, <2>2 DEF AloneFits, Searching
    <3> QED BY <1>1, <3>1 DEF AloneFits, Searching, Added
  <2>4. KeepsAlone(t, l, "record")
    <3>1. \A n \in Node : AvoidsCome(job[t], gamePc[t], n) => AvoidsCome(l, "record", n)
      BY <1>1, <1>3, <2>2 DEF AvoidsCome, Searching
    <3> QED BY <1>1, <1>3, <2>2, <3>1 DEF KeepsAlone, values
  <2> QED BY <2>1, <2>3, <2>4 DEF AloneGoesOn
<1> QED BY <1>2, <1>4, <1>9, <1>10, <1>13, <1>14, ExpansionGoesOn

\* The walk goes up again.
LEMMA EndsLevelSound ==
    ASSUME BookSound, alone => AloneOK, NEW t \in GameThread, EndsLevel(t) PROVE BookInv'
<1>1. /\ gamePc[t] = "record" /\ job[t].stack # <<>>
      /\ job' = [job EXCEPT ![t] = Ended(job[t])]
      /\ UNCHANGED <<moves, values, switches, positionsToSearch, newAndChangedNodes,
                     bookMainVars, alone>>
      /\ IF Len(job[t].stack) = 1 THEN gamePc' = [gamePc EXCEPT ![t] = "update"] ELSE UNCHANGED gamePc
  BY DEF EndsLevel, Goto
<1>2. UNCHANGED <<recursiveVisits, bookPc, bookFile, canExpand>>
  BY <1>1 DEF bookMainVars, disk, switches
<1>3. /\ bookPc = "join" /\ job[t] \in JobType /\ gamePc \in [GameThread -> GamePc]
      /\ JobFits(job[t], "record")
  BY <1>1, ThreadFacts
<1>4. PICK p \in {"update", "record"} :
        (p = "update" <=> Len(job[t].stack) = 1) /\ gamePc' = [gamePc EXCEPT ![t] = p]
  <2>1. CASE Len(job[t].stack) = 1 BY <1>1, <2>1
  <2>2. CASE Len(job[t].stack) # 1
    <3>1. gamePc' = [gamePc EXCEPT ![t] = "record"] BY <1>1, <1>3, <2>2
    <3> QED BY <2>2, <3>1
  <2> QED BY <2>1, <2>2
<1>5. PICK j \in JobType :
        /\ j = Ended(job[t]) /\ (j.stack = <<>> <=> Len(job[t].stack) = 1)
        /\ j.node = job[t].node
        /\ LevelNodes(j) \subseteq LevelNodes(job[t])
        /\ Added(job[t]) \subseteq Added(j) \cup j.nodesHashesToSearch
        /\ Added(job[t]) \subseteq Added(j) \cup j.nodesHashesToUpdate
        /\ job[t].nodesHashesToUpdate \subseteq j.nodesHashesToUpdate
        /\ job[t].nodesHashesToSearch \subseteq j.nodesHashesToSearch
        /\ j.nodesHashesToSearch \subseteq job[t].nodesHashesToSearch \cup j.nodesHashesToUpdate
        /\ j.nodesHashesToSearch \subseteq job[t].nodesHashesToSearch \cup LevelNodes(job[t])
  BY <1>1, <1>3, EndedIs
<1>6. Moved(t, j, p) /\ p \in GamePc BY <1>1, <1>4, <1>5 DEF Moved, GamePc, Recording
<1>7. JobFits(j, p) BY <1>3, <1>4, <1>5 DEF JobFits, Fresh, Recording, Resting
<1>8. Leaves(t, j, p) BY <1>1, <1>4, <1>5 DEF Leaves, Awaited, ToppedUp, Searching
<1>9. BookSound' BY <1>1, <1>2, <1>3, <1>6, <1>7, <1>8, ThreadFacts, ThreadThinks
<1>10. ASSUME alone' PROVE AloneGoesOn(t, j, p)
  <2>1. alone /\ OthersRest(t) /\ AloneFits(job[t], "record")
    BY <1>1, <1>10, ExpandsAlone DEF Resting
  <2>2. AloneFits(j, p)'
    <3>1. \A n \in Node : n \in j.nodesHashesToSearch /\ moves[n] # {} =>
            n \in j.nodesHashesToUpdate \cup Added(j)
      BY <1>5, <2>1 DEF AloneFits, Searching
    <3> QED BY <1>1, <3>1 DEF AloneFits, Searching, Added
  <2>3. KeepsAlone(t, j, p)
    <3>1. \A n \in Node : AvoidsCome(job[t], gamePc[t], n) => AvoidsCome(j, p, n)
      BY <1>1, <1>5 DEF AvoidsCome, Searching
    <3> QED BY <1>1, <1>5, <3>1 DEF KeepsAlone, values
  <2> QED BY <2>1, <2>2, <2>3 DEF AloneGoesOn
<1> QED BY <1>2, <1>3, <1>6, <1>9, <1>10, ExpansionGoesOn

\* A new or changed node is searched.
LEMMA SearchesSound ==
    ASSUME BookSound, alone => AloneOK, NEW t \in GameThread, Searches(t) PROVE BookInv'
<1> DEFINE S == job[t].nodesHashesToSearch
<1>1. /\ gamePc[t] = "update" /\ S # {} /\ gamePc' = [gamePc EXCEPT ![t] = "write"]
      /\ job' = [job EXCEPT ![t].nodesHashesToSearch = S \ {Min(S)},
                            ![t].found = <<Min(S), moves[Min(S)]>>]
      /\ UNCHANGED <<moves, values, switches, positionsToSearch, newAndChangedNodes,
                     bookMainVars, alone>>
  BY DEF Searches, Goto
<1>2. UNCHANGED <<recursiveVisits, bookPc, bookFile, canExpand>>
  BY <1>1 DEF bookMainVars, disk, switches
<1>3. /\ bookPc = "join" /\ job \in [GameThread -> JobType] /\ JobFits(job[t], "update")
      /\ S \subseteq NodesOf(moves) /\ NodesOf(moves) \subseteq Node /\ moves \in [Node -> SUBSET Node]
  <2>1. JobFits(job[t], "update") BY <1>1, ThreadFacts
  <2>2. S \subseteq NodesOf(moves) BY <2>1 DEF JobFits
  <2> QED BY <1>1, <2>1, <2>2, ThreadFacts
<1>4. PICK n \in S : n = Min(S)
  <2> HIDE DEF S
  <2>1. S \subseteq Nat BY <1>3, BookFacts
  <2> QED BY <1>1, <2>1, LeastIsMember DEF Min
<1>5. PICK j \in JobType :
        /\ j = [job[t] EXCEPT !.nodesHashesToSearch = S \ {n}, !.found = <<n, moves[n]>>]
        /\ j.nodesHashesToSearch = S \ {n} /\ j.found = <<n, moves[n]>> /\ j.stack = job[t].stack
        /\ j.node = job[t].node /\ j.nodesHashesToUpdate = job[t].nodesHashesToUpdate
  <2> DEFINE T == S \ {n}
             f == <<n, moves[n]>>
             j == [job[t] EXCEPT !.nodesHashesToSearch = T, !.found = f]
  <2>1. T \subseteq Node /\ f \in Node \X SUBSET Node /\ job[t] \in JobType BY <1>3, <1>4
  <2>2. /\ j \in JobType /\ j.nodesHashesToSearch = T /\ j.found = f
        /\ j.stack = job[t].stack /\ j.node = job[t].node
        /\ j.nodesHashesToUpdate = job[t].nodesHashesToUpdate
    <3> HIDE DEF T, f
    <3> QED BY <2>1 DEF JobType
  <2> QED BY <2>2
<1>6. Moved(t, j, "write") /\ "write" \in GamePc BY <1>1, <1>3, <1>4, <1>5 DEF Moved, GamePc
<1>7. LevelNodes(j) = LevelNodes(job[t]) /\ Added(j) = Added(job[t])
  BY <1>5 DEF LevelNodes, Added
<1>8. JobFits(j, "write")
  <2>1. j.found \in NodesOf(moves) \X SUBSET Node /\ j.found[2] \subseteq moves[j.found[1]]
    BY <1>3, <1>4, <1>5
  <2> QED BY <1>3, <1>5, <1>7, <2>1 DEF JobFits, Fresh, Recording, Resting
<1>9. Leaves(t, j, "write")
  <2>1. \A m : Searching(job[t], gamePc[t], m) => Searching(j, "write", m)
    BY <1>1, <1>4, <1>5 DEF Searching
  <2> QED BY <1>1, <1>7, <2>1 DEF Leaves, Awaited, ToppedUp
<1>10. BookSound' BY <1>1, <1>2, <1>3, <1>6, <1>8, <1>9, ThreadFacts, ThreadThinks
<1>11. ASSUME alone' PROVE AloneGoesOn(t, j, "write")
  <2>1. alone /\ OthersRest(t) /\ AloneFits(job[t], "update")
    BY <1>1, <1>11, ExpandsAlone DEF Resting
  <2>2. \A m : Searching(job[t], gamePc[t], m) <=> Searching(j, "write", m)
    BY <1>1, <1>4, <1>5 DEF Searching
  <2>3. AloneFits(j, "write")'
    <3>1. \A m \in Node : Searching(j, "write", m) /\ moves[m] # {} =>
            m \in j.nodesHashesToUpdate \cup Added(j)
      BY <1>1, <1>5, <1>7, <2>1, <2>2 DEF AloneFits
    <3>2. j.found[2] = moves[j.found[1]] BY <1>5
    <3> QED BY <1>1, <3>1, <3>2 DEF AloneFits, Searching, Added
  <2>4. KeepsAlone(t, j, "write")
    BY <1>1, <1>5, <1>7, <2>2 DEF KeepsAlone, AvoidsCome, values
  <2> QED BY <2>1, <2>3, <2>4 DEF AloneGoesOn
<1> QED BY <1>2, <1>3, <1>6, <1>10, <1>11, ExpansionGoesOn

\* Its values are written.
LEMMA UpdatesValuesSound ==
    ASSUME BookSound, alone => AloneOK, NEW t \in GameThread, UpdatesValues(t) PROVE BookInv'
<1> DEFINE f == job[t].found
           hasNewMoves == f[2] # Succ[f[1]]
<1>1. /\ gamePc[t] = "write" /\ gamePc' = [gamePc EXCEPT ![t] = "update"]
      /\ job' = [job EXCEPT ![t].found = <<>>]
      /\ UNCHANGED <<moves, canReExpand, positionsToSearch, newAndChangedNodes, bookMainVars, alone>>
      /\ visits' = [visits EXCEPT ![f[1]] = IF hasNewMoves \/ isGameFinished(f[1])
                                            THEN maxVisitsForLeaves ELSE 0]
      /\ avoided' = [avoided EXCEPT ![f[1]] = f[2]]
      /\ canExpand' \in {canExpand, canExpand \ {f[1]}}
  BY DEF UpdatesValues, Goto
<1>2. UNCHANGED <<recursiveVisits, bookPc, bookFile>> BY <1>1 DEF bookMainVars, disk
<1>3. /\ bookPc = "join" /\ job \in [GameThread -> JobType] /\ JobFits(job[t], "write")
      /\ f \in NodesOf(moves) \X SUBSET Node /\ f[2] \subseteq moves[f[1]]
  <2>1. JobFits(job[t], "write") BY <1>1, ThreadFacts
  <2> QED BY <1>1, <2>1, ThreadFacts DEF JobFits
<1>4. PICK n \in NodesOf(moves), a \in SUBSET Node : f = <<n, a>> /\ a \subseteq moves[n] BY <1>3
<1>5. n \in Node BY ThreadFacts
<1>6. /\ avoided \in [Node -> (SUBSET Node) \cup {NoValues}] /\ visits \in [Node -> Visits]
      /\ \A m \in Node \ NodesOf(moves) : moves[m] = {} /\ visits[m] = 0
  BY DEF BookSound, BookTypes, BookTyped
<1>7. /\ avoided' \in [Node -> (SUBSET Node) \cup {NoValues}] /\ visits' \in [Node -> Visits]
      /\ avoided'[n] = a /\ (moves[n] = {} => visits'[n] = maxVisitsForLeaves)
      /\ \A m \in Node \ {n} : avoided'[m] = avoided[m] /\ visits'[m] = visits[m]
  <2> DEFINE v == IF a # Succ[n] \/ isGameFinished(n) THEN maxVisitsForLeaves ELSE 0
  <2>1. f[1] = n /\ f[2] = a BY <1>4
  <2>2. visits' = [visits EXCEPT ![n] = v] /\ avoided' = [avoided EXCEPT ![n] = a]
    BY <1>1, <2>1
  <2>3. v \in Visits /\ (a = {} => v = maxVisitsForLeaves)
    BY DEF Visits, maxVisitsForLeaves, isGameFinished
  <2> HIDE DEF v
  <2> QED BY <1>4, <1>5, <1>6, <2>2, <2>3
<1>8. a # NoValues BY GenBookAssumption
<1>9. BookGrows
  <2>1. canExpand' \in SUBSET Node BY <1>1 DEF BookSound, BookTypes, BookTyped
  <2>2. \A m \in Node \ NodesOf(moves') : moves'[m] = {} /\ visits'[m] = 0 BY <1>1, <1>6, <1>7
  <2>3. BookTyped(moves', visits', avoided', canExpand')
    BY <1>1, <1>7, <2>1, <2>2, ThreadFacts DEF BookTyped
  <2> QED BY <1>1, <2>3, ThreadFacts DEF BookGrows
<1>10. PICK j \in JobType :
         /\ j = [job[t] EXCEPT !.found = <<>>] /\ j.stack = job[t].stack
         /\ j.nodesHashesToSearch = job[t].nodesHashesToSearch /\ j.node = job[t].node
         /\ j.nodesHashesToUpdate = job[t].nodesHashesToUpdate
  <2>1. job[t] \in JobType BY <1>3
  <2>2. [job[t] EXCEPT !.found = <<>>] \in JobType BY <2>1 DEF JobType
  <2> QED BY <2>1, <2>2 DEF JobType
<1>11. LevelNodes(j) = LevelNodes(job[t]) /\ Added(j) = Added(job[t])
  BY <1>10 DEF LevelNodes, Added
<1>12. Moved(t, j, "update") /\ "update" \in GamePc BY <1>1, <1>3, <1>10 DEF Moved, GamePc
<1>13. JobFits(j, "update")' BY <1>1, <1>3, <1>10, <1>11 DEF JobFits, Fresh, Recording, Resting
<1>14. Discharges(t, j, "update")
  <2>1. \A m : m # n /\ Searching(job[t], gamePc[t], m) => Searching(j, "update", m)
    BY <1>4, <1>10 DEF Searching
  <2>2. \A m : m # n /\ Awaited(job[t], gamePc[t], m) => Awaited(j, "update", m)
    BY <1>1, <1>11, <2>1 DEF Awaited
  <2>3. \A m : m # n /\ ToppedUp(job[t], gamePc[t], m) => ToppedUp(j, "update", m)
    BY <1>1, <2>1 DEF ToppedUp
  <2>4. maxVisitsForLeaves >= maxVisitsForLeaves BY DEF maxVisitsForLeaves
  <2> QED BY <1>1, <1>7, <1>8, <2>2, <2>3, <2>4 DEF Discharges
<1>15. BookSound' BY <1>1, <1>2, <1>3, <1>9, <1>12, <1>13, <1>14, ThreadFacts, ThreadMoves
<1>16. ASSUME alone' PROVE AloneGoesOn(t, j, "update")
  <2>1. alone /\ OthersRest(t) /\ AloneFits(job[t], "write")
    BY <1>1, <1>16, ExpandsAlone DEF Resting
  <2>2. a = moves[n] BY <1>4, <2>1 DEF AloneFits
  <2>3. \A m \in Node : Searching(job[t], "write", m) /\ moves[m] # {} =>
          m \in j.nodesHashesToUpdate \cup Added(j)
    BY <1>10, <1>11, <2>1 DEF AloneFits
  <2>4. AloneFits(j, "update")'
    <3>1. \A m \in Node : m \in j.nodesHashesToSearch /\ moves[m] # {} =>
            m \in j.nodesHashesToUpdate \cup Added(j)
      BY <1>10, <2>3 DEF Searching
    <3> QED BY <1>1, <3>1 DEF AloneFits, Searching, Added
  <2>5. KeepsAlone(t, j, "update")
    <3>1. \A m \in Node : m # n /\ AvoidsCome(job[t], gamePc[t], m) => AvoidsCome(j, "update", m)
      BY <1>1, <1>4, <1>10, <1>11 DEF AvoidsCome, Searching
    <3>2. moves[n] # {} => n \in j.nodesHashesToUpdate \cup Added(j)
      BY <1>4, <1>5, <2>3 DEF Searching
    <3> QED BY <1>1, <1>7, <1>10, <1>11, <2>2, <3>1, <3>2 DEF KeepsAlone
  <2> QED BY <2>1, <2>4, <2>5 DEF AloneGoesOn
<1> QED BY <1>2, <1>3, <1>12, <1>15, <1>16, ExpansionGoesOn

\* The changed nodes are read from the list that the threads share, ...
LEMMA NotesChangesSound ==
    ASSUME BookSound, alone => AloneOK, NEW t \in GameThread, NotesChanges(t) PROVE BookInv'
<1>1. /\ gamePc[t] = "update" /\ job[t].nodesHashesToSearch = {}
      /\ gamePc' = [gamePc EXCEPT ![t] = "push"]
      /\ newAndChangedNodes' = newAndChangedNodes \cup job[t].nodesHashesToUpdate
      /\ job' = [job EXCEPT ![t].read = newAndChangedNodes']
      /\ UNCHANGED <<moves, values, canExpand, positionsToSearch, bookMainVars, alone>>
  BY DEF NotesChanges, IsSearched, Goto
<1>2. UNCHANGED <<recursiveVisits, bookPc, bookFile>> BY <1>1 DEF bookMainVars, disk
<1>3. /\ bookPc = "join" /\ job \in [GameThread -> JobType] /\ JobFits(job[t], "update")
  BY <1>1, ThreadFacts
<1>4. newAndChangedNodes' \subseteq Node BY <1>1, <1>3, ThreadFacts DEF JobType
<1>5. PICK new \in SUBSET Node : new = newAndChangedNodes' BY <1>4
<1>6. PICK j \in JobType :
        /\ j = [job[t] EXCEPT !.read = new] /\ j.stack = job[t].stack /\ j.found = job[t].found
        /\ j.nodesHashesToSearch = job[t].nodesHashesToSearch /\ j.node = job[t].node
        /\ j.nodesHashesToUpdate = job[t].nodesHashesToUpdate /\ j.read = new
  <2>1. job[t] \in JobType BY <1>3
  <2>2. [job[t] EXCEPT !.read = new] \in JobType BY <2>1 DEF JobType
  <2> QED BY <2>1, <2>2 DEF JobType
<1>7. LevelNodes(j) = LevelNodes(job[t]) /\ Added(j) = Added(job[t])
  BY <1>6 DEF LevelNodes, Added
<1>8. Moved(t, j, "push") /\ "push" \in GamePc BY <1>1, <1>3, <1>5, <1>6 DEF Moved, GamePc
<1>9. JobFits(j, "push") BY <1>1, <1>3, <1>6, <1>7 DEF JobFits, Fresh, Recording, Resting
<1>10. Leaves(t, j, "push")
  BY <1>1, <1>6, <1>7 DEF Leaves, Awaited, ToppedUp, Searching
<1>11. BookSound' BY <1>1, <1>2, <1>3, <1>4, <1>8, <1>9, <1>10, ThreadFacts, ThreadThinks
<1>12. ASSUME alone' PROVE AloneGoesOn(t, j, "push")
  <2>1. alone /\ OthersRest(t) BY <1>1, <1>12, ExpandsAlone DEF Resting
  <2>2. AloneFits(j, "push")'
    <3>1. j.nodesHashesToUpdate \subseteq newAndChangedNodes' BY <1>1, <1>6
    <3> QED BY <1>1, <1>5, <1>6, <3>1 DEF AloneFits, Searching
  <2>3. KeepsAlone(t, j, "push")
    <3>1. \A n \in Node : AvoidsCome(job[t], gamePc[t], n) => AvoidsCome(j, "push", n)
      BY <1>1, <1>6, <1>7 DEF AvoidsCome, Searching
    <3> QED BY <1>1, <1>6, <1>7, <3>1 DEF KeepsAlone, values
  <2> QED BY <2>1, <2>2, <2>3 DEF AloneGoesOn
<1> QED BY <1>2, <1>3, <1>8, <1>11, <1>12, ExpansionGoesOn

\* ... and written back with those of this thread.
LEMMA EndsPushSound ==
    ASSUME BookSound, alone => AloneOK, NEW t \in GameThread, EndsPush(t) PROVE BookInv'
<1>1. /\ gamePc[t] = "push" /\ gamePc' = [gamePc EXCEPT ![t] = "pop"]
      /\ \/ newAndChangedNodes' = newAndChangedNodes \cup {job[t].node}
         \/ /\ newAndChangedNodes # job[t].read
            /\ newAndChangedNodes' \in {newAndChangedNodes, job[t].read \cup {job[t].node}}
      /\ job' = [job EXCEPT ![t] = Job(NoNode)]
      /\ UNCHANGED <<moves, values, switches, positionsToSearch, bookMainVars, alone>>
  BY DEF EndsPush, Goto
<1>2. UNCHANGED <<recursiveVisits, bookPc, bookFile, canExpand>>
  BY <1>1 DEF bookMainVars, disk, switches
<1>3. bookPc = "join" /\ job[t] \in JobType /\ JobFits(job[t], "push") BY <1>1, ThreadFacts
<1>4. job[t].stack = <<>> /\ job[t].nodesHashesToSearch = {} BY <1>3 DEF JobFits, Recording
<1>5. Leaves(t, Job(NoNode), "pop")
  BY <1>1, <1>4, NoLevels DEF Leaves, Awaited, ToppedUp, Searching
<1>6. JobFits(Job(NoNode), "pop") /\ Job(NoNode) \in JobType
  BY JobIs, NoLevels DEF JobFits, Fresh, Recording, Resting
<1>7. Moved(t, Job(NoNode), "pop") /\ "pop" \in GamePc BY <1>1 DEF Moved, GamePc, Fresh
<1>8. newAndChangedNodes' \subseteq Node
  <2>1. job[t].node \in Node BY <1>3, ThreadFacts DEF JobFits, Resting
  <2>2. job[t].read \subseteq Node /\ newAndChangedNodes \subseteq Node
    BY <1>3, ThreadFacts DEF JobType
  <2> QED BY <1>1, <2>1, <2>2
<1>9. BookSound' BY <1>1, <1>2, <1>3, <1>5, <1>6, <1>7, <1>8, ThreadFacts, ThreadThinks
<1>10. PICK j \in JobType : j = Job(NoNode) BY <1>6
<1>11. ASSUME alone' PROVE AloneGoesOn(t, j, "pop")
  <2>1. alone /\ OthersRest(t) /\ AloneFits(job[t], "push")
    BY <1>1, <1>11, ExpandsAlone DEF Resting
  <2>2. AloneFits(j, "pop")' BY <1>10, JobIs DEF AloneFits, Searching
  <2>3. KeepsAlone(t, j, "pop")
    <3>1. Added(job[t]) = {} BY <1>4, NoLevels
    <3>2. \A n \in Node : ~AvoidsCome(job[t], gamePc[t], n)
      BY <1>1, <1>4, <3>1 DEF AvoidsCome, Searching
    <3>3. newAndChangedNodes \subseteq newAndChangedNodes'
          /\ job[t].nodesHashesToUpdate \subseteq newAndChangedNodes'
      BY <1>1, <2>1 DEF AloneFits
    <3> QED BY <1>1, <3>1, <3>2, <3>3 DEF KeepsAlone, values
  <2> QED BY <2>1, <2>2, <2>3 DEF AloneGoesOn
<1> QED BY <1>2, <1>3, <1>7, <1>9, <1>10, <1>11, ExpansionGoesOn
-----------------------------------------------------------------------------
(* The steps of the main thread.                                           *)

\* When no thread is at work, every node of the book is as it has to be in the file.
LEMMA IdleBookIsSearched ==
    ASSUME BookSound, bookPc # "join"
    PROVE  \A n \in NodesOf(moves) :
             /\ (n # Root \/ moves[n] # {}) => avoided[n] # NoValues
             /\ n # Root /\ moves[n] = {} => visits[n] >= maxVisitsForLeaves
<1>1. \A t \in GameThread : gamePc[t] \in Resting BY DEF BookSound, BookTypes, Resting
<1>2. \A t \in GameThread : \A n : /\ ~Awaited(job[t], gamePc[t], n)
                                   /\ ~ToppedUp(job[t], gamePc[t], n)
  BY <1>1, RestingIsIdle
<1> QED BY <1>2 DEF BookSound, ValuesCome, VisitsCome

\* Nor is any node waiting to be written again or recomputed.
LEMMA IdleBookIsConsistent ==
    ASSUME BookSound, AloneOK, bookPc # "join"
    PROVE  \A n \in Node : avoided[n] \in {NoValues, moves[n]} /\ (moves[n] # {} => Made(n))
<1>1. \A t \in GameThread : gamePc[t] \in Resting BY DEF BookSound, BookTypes, Resting
<1>2. \A t \in GameThread : \A n : ~AvoidsCome(job[t], gamePc[t], n)
  BY <1>1, RestingIsIdle DEF AvoidsCome
<1> QED BY <1>2 DEF AloneOK, ChangeDue

\* Steps of the main thread that touch neither the book nor the threads' work.
LEMMA MainStepSound ==
    ASSUME BookSound,
           UNCHANGED <<moves, values, canExpand, recursiveVisits, gamePc, job, positionsToSearch,
                       newAndChangedNodes, alone>>,
           bookPc' # "join" => bookPc # "join" \/ \A t \in GameThread : gamePc[t] = "none",
           alone => AloneOK,
           bookPc' = bookPc \/ bookPc # "join", FileIsSearched',
           bookFile' = bookFile \/ (alone => FileIsConsistent')
    PROVE  BookInv'
<1>1. UNCHANGED <<moves, visits, avoided>> BY DEF values
<1>2. BookTypes' BY <1>1 DEF BookSound, BookTypes
<1>3. \A t \in GameThread : JobFits(job[t], gamePc[t])'
  <2> SUFFICES ASSUME NEW t \in GameThread PROVE JobFits(job[t], gamePc[t])' OBVIOUS
  <2>1. JobFits(job[t], gamePc[t]) BY DEF BookSound
  <2> QED BY <1>1, <2>1 DEF JobFits
<1>4. ValuesCome' BY <1>1 DEF BookSound, ValuesCome, Awaited, Searching
<1>5. VisitsCome' BY <1>1 DEF BookSound, VisitsCome, ToppedUp, Searching
<1>6. alone' => AloneOK' BY AloneStays
<1> QED BY <1>2, <1>3, <1>4, <1>5, <1>6 DEF BookSound, BookInv

\* A step of the iterations.
LEMMA IteratesSound ==
    ASSUME BookSound, alone => AloneOK, Iterates PROVE BookInv'
<1>1. /\ bookPc = "loop"
      /\ UNCHANGED <<moves, values, canExpand, recursiveVisits, gamePc, job, positionsToSearch,
                     newAndChangedNodes, bookFile, alone>>
  BY DEF Iterates, bookContents, threads, disk, switches
<1>2. FileIsSearched' BY <1>1 DEF BookSound, FileIsSearched
<1> QED BY <1>1, <1>2, MainStepSound

\* A signal.
LEMMA SignalHandlerSound ==
    ASSUME BookSound, alone => AloneOK, signalHandler PROVE BookInv'
<1>1. UNCHANGED <<moves, values, canExpand, recursiveVisits, gamePc, job, positionsToSearch,
                  newAndChangedNodes, bookFile, alone, bookPc>>
  BY DEF signalHandler, bookContents, threads, disk, switches
<1>2. FileIsSearched' BY <1>1 DEF BookSound, FileIsSearched
<1> QED BY <1>1, <1>2, MainStepSound

\* The book is saved between two iterations, when every thread is at rest.
LEMMA SaveToFileSound ==
    ASSUME BookSound, alone => AloneOK, saveToFile PROVE BookInv'
<1>1. /\ bookPc # "join" /\ bookFile' = Contents
      /\ UNCHANGED <<moves, values, canExpand, recursiveVisits, gamePc, job, positionsToSearch,
                     newAndChangedNodes, alone>>
  BY DEF saveToFile, bookContents, threads, switches
<1>2. /\ bookFile'.moves = moves /\ bookFile'.visits = visits /\ bookFile'.avoided = avoided
      /\ bookFile'.canExpand = canExpand
  BY <1>1 DEF Contents
<1>3. BookTyped(moves, visits, avoided, canExpand) BY DEF BookSound, BookTypes
<1>4. FileIsSearched' BY <1>1, <1>2, <1>3, IdleBookIsSearched DEF FileIsSearched
<1>5. alone => FileIsConsistent' BY <1>1, <1>2, IdleBookIsConsistent DEF FileIsConsistent
<1> QED BY <1>1, <1>4, <1>5, MainStepSound

\* An iteration begins.
LEMMA BeginsIterationSound ==
    ASSUME BookSound, alone => AloneOK, BeginsIteration PROVE BookInv'
<1>1. /\ bookPc = "expand" /\ gamePc' = [t \in GameThread |-> "pop"] /\ bookPc' = "join"
      /\ UNCHANGED <<moves, visits, avoided, canExpand, recursiveVisits, job, bookFile, alone>>
  BY DEF BeginsIteration, bookContents, values, switches, disk
<1>2. positionsToSearch' \subseteq NodesOf(moves) /\ newAndChangedNodes' \subseteq NodesOf(moves)
  BY InBookIs DEF BeginsIteration, kSubset
<1>3. \A t \in GameThread : gamePc[t] = "none" /\ gamePc'[t] = "pop"
  BY <1>1 DEF BookSound, BookTypes
<1>4. BookTypes'
  <2>1. NodesOf(moves) \subseteq Node BY NodesAreNodes DEF BookTyped, BookSound, BookTypes
  <2>2. gamePc' \in [GameThread -> GamePc] BY <1>1 DEF GamePc, Fresh
  <2> QED BY <1>1, <1>2, <2>1, <2>2 DEF BookSound, BookTypes
<1>5. \A t \in GameThread : JobFits(job[t], gamePc[t])'
  <2> SUFFICES ASSUME NEW t \in GameThread PROVE JobFits(job[t], gamePc[t])' OBVIOUS
  <2>1. JobFits(job[t], "none") BY <1>3 DEF BookSound
  <2> QED BY <1>1, <1>3, <2>1 DEF JobFits, Fresh, Recording, Resting
<1>6. \A n \in NodesOf(moves) :
        /\ (n # Root \/ moves[n] # {}) => avoided[n] # NoValues
        /\ n # Root /\ moves[n] = {} => visits[n] >= maxVisitsForLeaves
  BY <1>1, IdleBookIsSearched
<1>7. ValuesCome' BY <1>1, <1>6 DEF ValuesCome
<1>8. VisitsCome' BY <1>1, <1>6 DEF VisitsCome
<1>9. FileIsSearched' BY <1>1 DEF BookSound, FileIsSearched
<1>10. ASSUME alone' PROVE AloneOK'
  <2>1. AloneOK /\ bookPc # "join" BY <1>1, <1>10
  <2>2. \A t \in GameThread : \A n : ~Searching(job[t], gamePc'[t], n)
    BY <1>3, RestingIsIdle DEF Searching, Resting
  <2>3. \A t \in GameThread : AloneFits(job[t], gamePc[t])'
    BY <1>1, <1>3, <2>2 DEF AloneFits, Searching
  <2>4. \A n \in Node : avoided[n] \in {NoValues, moves[n]} /\ (moves[n] # {} => Made(n)')
    BY <1>1, <2>1, IdleBookIsConsistent, StaysMade
  <2>5. FileIsConsistent' BY <1>1, <2>1 DEF AloneOK, FileIsConsistent
  <2> QED BY <1>1, <1>3, <2>3, <2>4, <2>5 DEF AloneOK, Resting
<1> QED BY <1>4, <1>5, <1>7, <1>8, <1>9, <1>10 DEF BookSound, BookInv

\* The moves and visits of a book, in memory or in its file.
BookShape(b) == \A n \in Node :
    /\ b.moves[n] \subseteq Succ[n] /\ b.visits[n] \in Visits
    /\ n \notin NodesOf(b.moves) => b.moves[n] = {} /\ b.visits[n] = 0

\* What was recomputed has its type, and is nothing for what is not in the book.
LEMMA RecomputedFits ==
    ASSUME NEW b, BookShape(b),
           NEW old \in [Node -> Visits], \A n \in Node \ NodesOf(b.moves) : old[n] = 0, NEW dirty
    PROVE  /\ Recomputed(old, dirty, b) \in [Node -> Visits]
           /\ \A n \in Node \ NodesOf(b.moves) : Recomputed(old, dirty, b)[n] = 0
           /\ \A n \in Node : Recomputed(old, dirty, b)[n] =
                IF n \in dirty THEN recomputeNodeValues(n, Recomputed(old, dirty, b), b) ELSE old[n]
<1> DEFINE R == Recomputed(old, dirty, b)
<1>1. \A n \in Node : b.moves[n] \subseteq Succ[n] /\ b.visits[n] \in Visits
                      /\ b.moves[n] \subseteq Node
  BY BookFacts DEF BookShape
<1>2. R \in [Node -> Visits] /\ \A n \in Node : R[n] = IF n \in dirty THEN recomputeNodeValues(n, R, b)
                                                                      ELSE old[n]
  BY <1>1, RecomputedIs
<1> HIDE DEF R
<1>3. ASSUME NEW n \in Node \ NodesOf(b.moves) PROVE R[n] = 0
  <2>1. b.moves[n] = {} /\ b.visits[n] = 0 BY DEF BookShape
  <2>2. recomputeNodeValues(n, R, b) = 0 BY <1>1, <1>2, <2>1, NodeValuesAre
  <2> QED BY <1>2, <2>2
<1> QED BY <1>2, <1>3 DEF R

\* Recomputing the dirty nodes makes the values of all right, of which those that
\* changed were not.
LEMMA RecomputedIsMade ==
    ASSUME BookSound, UNCHANGED <<moves, visits>>,
           recursiveVisits' = Recomputed(recursiveVisits, Dirty(newAndChangedNodes), Contents),
           NEW n \in Node, Made(n) \/ n \in newAndChangedNodes
    PROVE  Made(n)'
<1> DEFINE D == Dirty(newAndChangedNodes)
           b == Contents
           R == Recomputed(recursiveVisits, D, b)
<1>1. \A m \in Node : moves[m] \subseteq Succ[m] BY DEF BookSound, BookTypes, BookTyped
<1>2. n \in newAndChangedNodes => n \in D BY <1>1, DirtyIs
<1>3. n \notin D => \A c \in moves[n] : c \notin D BY <1>1, DirtyIs
<1>4. b.moves = moves /\ b.visits = visits BY DEF Contents
<1>5. BookShape(b) BY <1>4 DEF BookSound, BookTypes, BookTyped, BookShape
<1>6. recursiveVisits \in [Node -> Visits] /\ \A m \in Node \ NodesOf(b.moves) : recursiveVisits[m] = 0
  BY <1>4 DEF BookSound, BookTypes
<1> HIDE DEF b, D
<1>7. \A m \in Node : R[m] = IF m \in D THEN recomputeNodeValues(m, R, b) ELSE recursiveVisits[m]
  BY <1>5, <1>6, RecomputedFits
<1> HIDE DEF R
<1>8. R[n] = recomputeNodeValues(n, R, b)
  <2>1. CASE n \in D BY <1>7, <2>1
  <2>2. CASE n \notin D
    <3>1. recursiveVisits[n] = recomputeNodeValues(n, recursiveVisits, b)
      BY <1>2, <2>2 DEF Made, b
    <3>2. \A c \in b.moves[n] : R[c] = recursiveVisits[c]
      <4>1. moves[n] \subseteq Node BY <1>1, BookFacts
      <4> QED BY <1>3, <1>4, <1>7, <2>2, <4>1
    <3>3. b.moves[n] \subseteq Node /\ b.visits[n] \in Visits BY <1>5, BookFacts DEF BookShape
    <3>4. recomputeNodeValues(n, R, b) = recomputeNodeValues(n, recursiveVisits, b)
      BY <1>6, <3>2, <3>3, NodeValuesAre
    <3> QED BY <1>7, <2>2, <3>1, <3>4
  <2> QED BY <2>1, <2>2
<1>9. PICK r : r = R OBVIOUS
<1>10. PICK c : c = b OBVIOUS
<1>11. PICK d : d = Contents' OBVIOUS
<1>12. c.visits[n] = d.visits[n] /\ c.moves[n] = d.moves[n] BY <1>4, <1>10, <1>11 DEF Contents
<1>13. r[n] = recomputeNodeValues(n, r, d)
  <2>1. r[n] = recomputeNodeValues(n, r, c) BY <1>8, <1>9, <1>10, Zenon
  <2>2. recomputeNodeValues(n, r, c) = recomputeNodeValues(n, r, d) BY <1>12, ValuesOfOne
  <2> QED BY <2>1, <2>2
<1>14. recursiveVisits' = r BY <1>9 DEF R, D, b
<1> QED BY <1>11, <1>13, <1>14, Zenon DEF Made

\* The threads are joined and what changed is recomputed.
LEMMA EndsIterationSound ==
    ASSUME BookSound, alone => AloneOK, EndsIteration PROVE BookInv'
<1>1. /\ \A t \in GameThread : gamePc[t] = "none"
      /\ recursiveVisits' = Recomputed(recursiveVisits, Dirty(newAndChangedNodes), Contents)
      /\ UNCHANGED <<moves, visits, avoided, canExpand, gamePc, job, positionsToSearch,
                     newAndChangedNodes, bookFile, alone>>
  BY DEF EndsIteration, bookContents, values, switches, threads, disk
<1>2. recursiveVisits' \in [Node -> Visits] /\ \A n \in Node \ NodesOf(moves) : recursiveVisits'[n] = 0
  <2> DEFINE b == Contents
  <2>1. b.moves = moves /\ b.visits = visits BY DEF Contents
  <2>2. BookShape(b) BY <2>1 DEF BookSound, BookTypes, BookTyped, BookShape
  <2>3. recursiveVisits \in [Node -> Visits] /\ \A n \in Node \ NodesOf(b.moves) : recursiveVisits[n] = 0
    BY <2>1 DEF BookSound, BookTypes
  <2> HIDE DEF b
  <2>4. /\ Recomputed(recursiveVisits, Dirty(newAndChangedNodes), b) \in [Node -> Visits]
        /\ \A n \in Node \ NodesOf(b.moves) : Recomputed(recursiveVisits, Dirty(newAndChangedNodes), b)[n] = 0
    BY <2>2, <2>3, RecomputedFits
  <2> QED BY <1>1, <2>1, <2>4 DEF b
<1>3. BookTypes' BY <1>1, <1>2 DEF BookSound, BookTypes
<1>4. \A t \in GameThread : JobFits(job[t], gamePc[t])'
  <2> SUFFICES ASSUME NEW t \in GameThread PROVE JobFits(job[t], gamePc[t])' OBVIOUS
  <2>1. JobFits(job[t], "none") BY <1>1 DEF BookSound
  <2> QED BY <1>1, <2>1 DEF JobFits
<1>5. \A t \in GameThread : \A n : /\ ~Awaited(job[t], gamePc[t], n)
                                   /\ ~ToppedUp(job[t], gamePc[t], n)
  BY <1>1, RestingIsIdle DEF Resting
<1>6. ValuesCome' BY <1>1, <1>5 DEF BookSound, ValuesCome
<1>7. VisitsCome' BY <1>1, <1>5 DEF BookSound, VisitsCome
<1>8. FileIsSearched' BY <1>1 DEF BookSound, FileIsSearched
<1>9. ASSUME alone' PROVE AloneOK'
  <2>1. AloneOK BY <1>1, <1>9
  <2>2. \A t \in GameThread :
          /\ job[t].nodesHashesToUpdate = {} /\ Added(job[t]) = {}
          /\ \A n : ~Searching(job[t], gamePc[t], n) /\ ~AvoidsCome(job[t], gamePc[t], n)
    BY <1>1, RestingIsIdle DEF Resting, AvoidsCome
  <2>3. \A t \in GameThread : AloneFits(job[t], gamePc[t])'
    BY <1>1, <2>2 DEF AloneFits, Searching
  <2>4. \A n \in Node : avoided[n] \in {NoValues, moves[n]} BY <2>1, <2>2 DEF AloneOK
  <2>5. ASSUME NEW n \in Node, moves[n] # {} PROVE Made(n)'
    <3>1. Made(n) \/ n \in newAndChangedNodes BY <2>1, <2>2, <2>5 DEF AloneOK, ChangeDue
    <3> QED BY <1>1, <2>5, <3>1, RecomputedIsMade
  <2>6. FileIsConsistent' BY <1>1, <2>1 DEF AloneOK, FileIsConsistent
  <2> QED BY <1>1, <2>3, <2>4, <2>5, <2>6 DEF AloneOK, Resting
<1> QED BY <1>3, <1>4, <1>6, <1>7, <1>8, <1>9 DEF BookSound, BookInv

\* The file of a new book, and the book that is made of a file.
LoadedBook ==
    /\ moves = bookFile.moves /\ visits = bookFile.visits /\ avoided = bookFile.avoided
    /\ canExpand = bookFile.canExpand
    /\ recursiveVisits = Recomputed(bookFile.visits, Node, bookFile)
    /\ gamePc = [t \in GameThread |-> "none"]
    /\ job = [t \in GameThread |-> Job(NoNode)]
    /\ positionsToSearch = {} /\ newAndChangedNodes = {}
    /\ bookPc = "loop" /\ alone \in BOOLEAN

\* A book that was loaded is what its file is.
LEMMA LoadedBookIsSound == FileIsSearched /\ LoadedBook => BookSound
<1> SUFFICES ASSUME FileIsSearched, LoadedBook PROVE BookSound OBVIOUS
<1>1. /\ BookTyped(bookFile.moves, bookFile.visits, bookFile.avoided, bookFile.canExpand)
      /\ bookFile.moves = moves /\ bookFile.visits = visits
      /\ \A n \in NodesOf(moves) :
           /\ (n # Root \/ moves[n] # {}) => avoided[n] # NoValues
           /\ n # Root /\ moves[n] = {} => visits[n] >= maxVisitsForLeaves
  BY DEF FileIsSearched, LoadedBook
<1>2. visits \in [Node -> Visits] /\ \A n \in Node \ NodesOf(moves) : visits[n] = 0
  BY <1>1 DEF BookTyped
<1>3. /\ recursiveVisits \in [Node -> Visits]
      /\ \A n \in Node \ NodesOf(moves) : recursiveVisits[n] = 0
  <2> DEFINE b == bookFile
  <2>1. /\ BookShape(b)
        /\ visits \in [Node -> Visits] /\ \A n \in Node \ NodesOf(b.moves) : visits[n] = 0
    BY <1>1, <1>2 DEF BookTyped, BookShape
  <2> HIDE DEF b
  <2>2. /\ Recomputed(visits, Node, b) \in [Node -> Visits]
        /\ \A n \in Node \ NodesOf(b.moves) : Recomputed(visits, Node, b)[n] = 0
    BY <2>1, RecomputedFits
  <2> QED BY <1>1, <2>2 DEF b, LoadedBook
<1>4. BookTypes
  <2>1. gamePc \in [GameThread -> GamePc] BY DEF LoadedBook, GamePc, Fresh
  <2>2. job \in [GameThread -> JobType] BY JobIs DEF LoadedBook
  <2>3. BookTyped(moves, visits, avoided, canExpand) BY <1>1 DEF LoadedBook
  <2> QED BY <1>3, <2>1, <2>2, <2>3 DEF BookTypes, LoadedBook
<1>5. ASSUME NEW t \in GameThread PROVE JobFits(job[t], gamePc[t])
  <2>1. job[t] = Job(NoNode) /\ gamePc[t] \in Resting BY DEF LoadedBook, Resting
  <2> QED BY <2>1, JobIs, RestingFits
<1> QED BY <1>1, <1>4, <1>5 DEF BookSound, ValuesCome, VisitsCome

\* A book that was just loaded is as consistent as its file.
LEMMA LoadedBookIsConsistent == BookSound /\ FileIsConsistent /\ LoadedBook => AloneOK
<1> SUFFICES ASSUME BookSound, FileIsConsistent, LoadedBook PROVE AloneOK OBVIOUS
<1>1. \A t \in GameThread : gamePc[t] \in Resting BY DEF LoadedBook, Resting
<1>2. \A t \in GameThread : AloneFits(job[t], gamePc[t])
  BY <1>1, RestingIsIdle DEF AloneFits, Resting
<1>3. \A n \in Node : avoided[n] \in {NoValues, moves[n]} BY DEF FileIsConsistent, LoadedBook
<1>4. ASSUME NEW n \in Node PROVE Made(n)
  <2> DEFINE b == bookFile
             R == Recomputed(visits, Node, b)
  <2>1. b.moves = moves /\ b.visits = visits /\ R = recursiveVisits BY DEF LoadedBook
  <2>2. BookShape(b) BY <2>1 DEF BookSound, BookTypes, BookTyped, BookShape
  <2>3. visits \in [Node -> Visits] /\ \A m \in Node \ NodesOf(b.moves) : visits[m] = 0
    BY <2>1 DEF BookSound, BookTypes, BookTyped
  <2> HIDE DEF b
  <2>4. R[n] = recomputeNodeValues(n, R, b) BY <2>2, <2>3, RecomputedFits
  <2> HIDE DEF R
  <2>5. recomputeNodeValues(n, R, b) = recomputeNodeValues(n, R, Contents)
    BY <2>1, ValuesOfOne DEF Contents
  <2> QED BY <2>1, <2>4, <2>5 DEF Made
<1> QED BY <1>1, <1>2, <1>3, <1>4 DEF AloneOK

\* The book is loaded by a new run.
LEMMA LoadFromFileSound ==
    ASSUME BookSound, alone => AloneOK, loadFromFile PROVE BookInv'
<1>1. FileIsSearched' BY DEF BookSound, FileIsSearched, loadFromFile
<1>2. LoadedBook' BY DEF LoadedBook, loadFromFile, BookSound, BookTypes
<1>3. alone' => FileIsConsistent' BY DEF AloneOK, FileIsConsistent, loadFromFile
<1>4. BookSound' BY <1>1, <1>2, LoadedBookIsSound, PTL
<1>5. BookSound' /\ FileIsConsistent' => AloneOK' BY <1>2, LoadedBookIsConsistent, PTL
<1> QED BY <1>3, <1>4, <1>5 DEF BookInv

\* A new book has the root only.
LEMMA BookInitSound == ASSUME BookInit PROVE BookInv
<1>1. /\ bookFile.moves = [n \in Node |-> {}] /\ bookFile.visits = [n \in Node |-> 0]
      /\ bookFile.avoided = [n \in Node |-> NoValues] /\ bookFile.canExpand = Node
  BY DEF BookInit, NewBook
<1>2. NodesOf(bookFile.moves) = {Root} BY <1>1 DEF NodesOf
<1>3. BookTyped(bookFile.moves, bookFile.visits, bookFile.avoided, bookFile.canExpand)
  <2>1. \A n \in Node : bookFile.moves[n] = {} /\ bookFile.visits[n] = 0 BY <1>1
  <2>2. 0 \in Visits BY DEF Visits
  <2>3. /\ bookFile.moves \in [Node -> SUBSET Node] /\ bookFile.visits \in [Node -> Visits]
        /\ bookFile.avoided \in [Node -> (SUBSET Node) \cup {NoValues}]
        /\ bookFile.canExpand \in SUBSET Node
    <3>1. bookFile.moves \in [Node -> SUBSET Node] BY <1>1
    <3>2. bookFile.visits \in [Node -> Visits] BY <1>1, <2>2
    <3>3. bookFile.avoided \in [Node -> (SUBSET Node) \cup {NoValues}]
      <4> DEFINE V == (SUBSET Node) \cup {NoValues}
      <4>1. NoValues \in V OBVIOUS
      <4> HIDE DEF V
      <4>2. [n \in Node |-> NoValues] \in [Node -> V] BY <4>1
      <4> QED BY <1>1, <4>2 DEF V
    <3>4. bookFile.canExpand \in SUBSET Node BY <1>1
    <3> QED BY <3>1, <3>2, <3>3, <3>4
  <2> QED BY <2>1, <2>3 DEF BookTyped
<1>4. FileIsSearched BY <1>1, <1>2, <1>3, BookFacts DEF FileIsSearched
<1>5. LoadedBook BY DEF LoadedBook, BookInit
<1>6. FileIsConsistent BY <1>1 DEF FileIsConsistent
<1>7. BookSound BY <1>4, <1>5, LoadedBookIsSound
<1> QED BY <1>5, <1>6, <1>7, LoadedBookIsConsistent DEF BookInv

\* The invariant is one.
LEMMA BookNextSound == BookInv /\ [BookNext]_bookVars => BookInv'
<1> SUFFICES ASSUME BookSound, alone => AloneOK, [BookNext]_bookVars PROVE BookInv' BY DEF BookInv
<1>1. CASE Iterates BY <1>1, IteratesSound
<1>2. CASE saveToFile BY <1>2, SaveToFileSound
<1>3. CASE BeginsIteration BY <1>3, BeginsIterationSound
<1>4. CASE EndsIteration BY <1>4, EndsIterationSound
<1>5. CASE signalHandler BY <1>5, SignalHandlerSound
<1>6. CASE loadFromFile BY <1>6, LoadFromFileSound
<1>7. ASSUME NEW t \in GameThread, loopExpandingNodes(t) PROVE BookInv'
  <2>1. CASE PopsNode(t) BY <2>1, PopsNodeSound
  <2>2. CASE Exits(t) BY <2>2, ExitsSound
  <2>3. CASE FindsNewMoves(t) BY <2>3, FindsNewMovesSound
  <2>4. CASE WholeSearchEnds(t) BY <2>4, WholeSearchEndsSound
  <2>5. CASE RecordsChild(t) BY <2>5, RecordsChildSound
  <2>6. CASE SetsValues(t) BY <2>6, SetsValuesSound
  <2>7. CASE TopsOff(t) BY <2>7, TopsOffSound
  <2>8. CASE EndsLevel(t) BY <2>8, EndsLevelSound
  <2>9. CASE Searches(t) BY <2>9, SearchesSound
  <2>10. CASE UpdatesValues(t) BY <2>10, UpdatesValuesSound
  <2>11. CASE NotesChanges(t) BY <2>11, NotesChangesSound
  <2>12. CASE EndsPush(t) BY <2>12, EndsPushSound
  <2> QED BY <1>7, <2>1, <2>2, <2>3, <2>4, <2>5, <2>6, <2>7, <2>8, <2>9, <2>10, <2>11, <2>12
           DEF loopExpandingNodes, expandNode
<1>8. CASE UNCHANGED bookVars
  <2>1. /\ UNCHANGED <<moves, values, canExpand, recursiveVisits, gamePc, job, positionsToSearch,
                       newAndChangedNodes, alone, bookPc, bookFile>>
    BY <1>8 DEF bookVars, switches, disk
  <2>2. FileIsSearched' BY <2>1 DEF BookSound, FileIsSearched
  <2> QED BY <2>1, <2>2, MainStepSound
<1> QED BY <1>1, <1>2, <1>3, <1>4, <1>5, <1>6, <1>7, <1>8 DEF BookNext, ExpandsBook

\* The invariant of the book always holds.
LEMMA AlwaysBookInv == CommandSpec => []BookInv
<1>1. handleSubcommand => BookInv BY BookInitSound DEF handleSubcommand
<1>2. BookInv /\ [CommandNext]_commandVars => BookInv'
  <2>1. [CommandNext]_commandVars => [BookNext]_bookVars
    BY DEF CommandNext, analysis, gtp, genbook, commandVars
  <2> QED BY <2>1, BookNextSound
<1> QED BY <1>1, <1>2, PTL DEF CommandSpec

\* Whenever the book is saved, each of its nodes has the values of a search, and
\* each leaf those of one with enough visits: for any positions, any number of
\* threads and iterations, and after any signals and restarts.
THEOREM SavedBooksAreSearched == CommandSpec => []SavedBookIsSearched
<1>1. BookInv => SavedBookIsSearched
  <2> SUFFICES ASSUME BookSound, Saves PROVE SavedBookIsSearched BY DEF SavedBookIsSearched, BookInv
  <2>1. bookPc # "join" BY DEF Saves
  <2> QED BY <2>1, IdleBookIsSearched, InBookIs DEF SavedBookIsSearched
<1> QED BY <1>1, AlwaysBookInv, PTL

\* A book that is saved when no two nodes were expanded at the same time has
\* values of searches without its own moves, and recursive values that are what
\* those of the children make: no change of a node is left out of the next pass of
\* recomputeNodeValues.
THEOREM SavedBooksAreConsistent == CommandSpec => []BookIsConsistent
<1>1. BookInv => BookIsConsistent
  <2> SUFFICES ASSUME BookSound, AloneOK, Saves PROVE BookIsConsistent
    BY DEF BookIsConsistent, BookInv
  <2>1. bookPc # "join" BY DEF Saves
  <2>2. InBook \subseteq Node BY InBookIs, NodesAreNodes DEF BookSound, BookTypes, BookTyped
  <2> QED BY <2>1, <2>2, IdleBookIsConsistent DEF BookIsConsistent, Made
<1> QED BY <1>1, AlwaysBookInv, PTL
=============================================================================
