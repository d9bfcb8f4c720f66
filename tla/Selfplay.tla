------------------------------ MODULE Selfplay ------------------------------
(***************************************************************************)
(* The selfplay command (command/selfplay.cpp): game threads that play     *)
(* with the latest net of a SelfplayManager and hand their games to it, a  *)
(* thread that loads new nets, and the main thread, which waits for them   *)
(* and deletes the manager.  Of Play::runGame there is what concerns the   *)
(* nets: it evaluates rows, may be given another net between two moves,    *)
(* and ends, or is interrupted by a signal to stop.                        *)
(*                                                                         *)
(* The training pipeline gives every net a name of its own; the nets are   *)
(* numbered in the order in which it makes them.                           *)
(***************************************************************************)
EXTENDS SelfplayManager

CONSTANTS Thread,          \* the game threads
          MaxGamesTotal,
          NoModel

\* There is a net at the start, and a game thread (numGameThreads is at least 1).
ASSUME SelfplayAssumption ==
    /\ IsFiniteSet(Model) /\ Model # {} /\ Model = 1..Cardinality(Model)
    /\ IsFiniteSet(Thread) /\ Thread # {}
    /\ Manager = {"selfplay"} /\ AutoCleanup
    /\ MaxGamesTotal \in Nat /\ Game = 1..MaxGamesTotal
    /\ NoModel \notin Model

VARIABLES shouldStop, numGamesStarted,
          gamePc, gameIdx,
          nnEval,      \* the variable of the game loop, which the callback changes
          newNNEval,   \* that of checkForNewNNEval
          botNNEval,   \* the net in the bots of a game
          loaderPc, mainPc,
          finished     \* the games that were played to their end

gameVars == <<numGamesStarted, gamePc, gameIdx, nnEval, newNNEval, botNNEval, finished>>
vars == <<managerVars, shouldStop, gameVars, loaderPc, mainPc>>

manager == "selfplay"

\* main has loaded the first net before it starts the threads.
Init ==
    /\ LET first == 1 IN
       /\ modelDatas = [g \in Manager |-> <<first>>]
       /\ allocated = [g \in Manager |-> {first}]
       /\ writerPc = [g \in Manager |-> [n \in Model |-> IF n = first THEN "pop" ELSE "none"]]
       /\ numDataWriteLoopsActive = [g \in Manager |-> 1]
       /\ acquireCount = [g \in Manager |-> [n \in Model |-> 0]]
       /\ leaving = [g \in Manager |-> {}]
       /\ withWriters = [g \in Manager |-> FALSE]
       /\ finishedGameQueue = [g \in Manager |-> [n \in Model |-> <<>>]]
       /\ readOnly = [g \in Manager |-> {}]
       /\ written = [g \in Manager |-> {}]
       /\ rows = [g \in Manager |-> [n \in Model |-> 0]]
       /\ totalNumRowsProcessed = [g \in Manager |-> 0]
       /\ destructorPc = [g \in Manager |-> "none"]
    /\ shouldStop = FALSE /\ numGamesStarted = 0
    /\ gamePc = [t \in Thread |-> "top"]
    /\ gameIdx = [t \in Thread |-> 0]
    /\ nnEval = [t \in Thread |-> NoModel]
    /\ newNNEval = [t \in Thread |-> NoModel]
    /\ botNNEval = [t \in Thread |-> NoModel]
    /\ loaderPc = "check" /\ mainPc = "join"
    /\ finished = {}

-----------------------------------------------------------------------------
(* A game thread.                                                          *)

GameGoto(t, next) == gamePc' = [gamePc EXCEPT ![t] = next]
OthersUnchanged == UNCHANGED <<shouldStop, loaderPc, mainPc>>

\* The test of shouldStop, then acquireLatest.
StartsLoop(t) ==
    /\ gamePc[t] = "top"
    /\ GameGoto(t, IF shouldStop THEN "exited" ELSE "acquire")
    /\ OthersUnchanged
    /\ UNCHANGED <<managerVars, numGamesStarted, gameIdx, nnEval, newNNEval, botNNEval, finished>>

AcquiresLatest(t) ==
    /\ gamePc[t] = "acquire"
    /\ acquire(manager, Latest(manager))
    /\ nnEval' = [nnEval EXCEPT ![t] = Latest(manager)]
    /\ GameGoto(t, "start")
    /\ OthersUnchanged
    /\ UNCHANGED <<numGamesStarted, gameIdx, newNNEval, botNNEval, finished>>

\* countOneGameStarted, which looks the model up, is part of the step.
StartsGame(t) ==
    /\ gamePc[t] = "start"
    /\ numGamesStarted' = numGamesStarted + 1
    /\ IF numGamesStarted < MaxGamesTotal
       THEN /\ gameIdx' = [gameIdx EXCEPT ![t] = numGamesStarted + 1]
            /\ botNNEval' = [botNNEval EXCEPT ![t] = nnEval[t]]
            /\ GameGoto(t, "play")
       ELSE GameGoto(t, "release") /\ UNCHANGED <<gameIdx, botNNEval>>
    /\ OthersUnchanged
    /\ UNCHANGED <<managerVars, nnEval, newNNEval, finished>>

Plays(t) ==
    /\ gamePc[t] = "play"
    /\ Evaluates(manager, botNNEval[t])
    /\ OthersUnchanged /\ UNCHANGED gameVars

\* checkForNewNNEval acquires the latest net first and then releases one of
\* the two; the bots are given the new one afterwards.
ChecksForNewNNEval(t) ==
    /\ gamePc[t] = "play"
    /\ acquire(manager, Latest(manager))
    /\ newNNEval' = [newNNEval EXCEPT ![t] = Latest(manager)]
    /\ GameGoto(t, "compare")
    /\ OthersUnchanged
    /\ UNCHANGED <<numGamesStarted, gameIdx, nnEval, botNNEval, finished>>

ReleasesOneOfTwo(t) ==
    /\ gamePc[t] = "compare"
    /\ release(manager, nnEval[t])
    /\ nnEval' = [nnEval EXCEPT ![t] = newNNEval[t]]
    /\ newNNEval' = [newNNEval EXCEPT ![t] = NoModel]
    /\ GameGoto(t, IF newNNEval[t] = nnEval[t] THEN "play" ELSE "switch")
    /\ OthersUnchanged
    /\ UNCHANGED <<numGamesStarted, gameIdx, botNNEval, finished>>

SwitchesBots(t) ==
    /\ gamePc[t] = "switch"
    /\ botNNEval' = [botNNEval EXCEPT ![t] = nnEval[t]]
    /\ GameGoto(t, "play")
    /\ OthersUnchanged
    /\ UNCHANGED <<managerVars, numGamesStarted, gameIdx, nnEval, newNNEval, finished>>

\* The bots are deleted; a game that sees the signal at its end is dropped.
EndsGame(t) ==
    /\ gamePc[t] = "play"
    /\ IF shouldStop
       THEN /\ gameIdx' = [gameIdx EXCEPT ![t] = 0]
            /\ GameGoto(t, "release") /\ UNCHANGED finished
       ELSE /\ finished' = finished \cup {gameIdx[t]}
            /\ GameGoto(t, "lookup") /\ UNCHANGED gameIdx
    /\ botNNEval' = [botNNEval EXCEPT ![t] = NoModel]
    /\ OthersUnchanged
    /\ UNCHANGED <<managerVars, numGamesStarted, nnEval, newNNEval>>

\* enqueueDataToWrite finds the model under the mutex and pushes without it.
LooksUp(t) ==
    /\ gamePc[t] = "lookup" /\ MutexFree(manager)
    /\ hasModel(manager, nnEval[t])
    /\ GameGoto(t, "push")
    /\ OthersUnchanged
    /\ UNCHANGED <<managerVars, numGamesStarted, gameIdx, nnEval, newNNEval, botNNEval, finished>>

Enqueues(t) ==
    /\ gamePc[t] = "push"
    /\ push(manager, nnEval[t], gameIdx[t])
    /\ GameGoto(t, "release")
    /\ OthersUnchanged
    /\ UNCHANGED <<numGamesStarted, gameIdx, nnEval, newNNEval, botNNEval, finished>>

\* Without a game there will be no other.
EndsLoop(t) ==
    /\ gamePc[t] = "release"
    /\ release(manager, nnEval[t])
    /\ nnEval' = [nnEval EXCEPT ![t] = NoModel]
    /\ gameIdx' = [gameIdx EXCEPT ![t] = 0]
    /\ GameGoto(t, IF gameIdx[t] = 0 THEN "exited" ELSE "top")
    /\ OthersUnchanged
    /\ UNCHANGED <<numGamesStarted, newNNEval, botNNEval, finished>>

-----------------------------------------------------------------------------
(* The loading thread, the main thread, and a signal.                      *)

LoaderGoto(next) ==
    loaderPc' = next /\ UNCHANGED <<shouldStop, gameVars, mainPc>>

\* The name of the latest net is read first.  If there is a newer net it is
\* loaded, which takes long; a failure to make the directories gives it up.
\* The nets are numbered in the order in which they are loaded: one that was
\* overtaken before the loader looked again has no number.
LoaderChecks ==
    /\ loaderPc = "check" /\ MutexFree(manager)
    /\ IF shouldStop THEN LoaderGoto("exited")
       ELSE \/ LoaderGoto("sleep")
            \/ Latest(manager) < Cardinality(Model) /\ LoaderGoto("load")
    /\ UNCHANGED managerVars

LoaderLoads ==
    /\ loaderPc = "load"
    /\ load(manager, Latest(manager) + 1, TRUE)
    /\ LoaderGoto("sleep")

LoaderSleeps ==
    /\ loaderPc = "sleep"
    /\ LoaderGoto(IF shouldStop THEN "exited" ELSE "check")
    /\ UNCHANGED managerVars

signalHandler ==
    /\ ~shouldStop /\ shouldStop' = TRUE
    /\ UNCHANGED <<managerVars, gameVars, loaderPc, mainPc>>

MainJoins ==
    \/ /\ mainPc = "join" /\ \A t \in Thread : gamePc[t] = "exited"
       /\ shouldStop' = TRUE /\ mainPc' = "joinLoader"
       /\ UNCHANGED <<managerVars, gameVars, loaderPc>>
    \/ /\ mainPc = "joinLoader" /\ loaderPc = "exited"
       /\ mainPc' = "delete"
       /\ UNCHANGED <<managerVars, shouldStop, gameVars, loaderPc>>

MainDeletesManager ==
    /\ mainPc = "delete"
    /\ \/ (Destroys(manager) \/ DestructorWaits(manager)) /\ UNCHANGED mainPc
       \/ destructorPc[manager] = "done" /\ mainPc' = "done" /\ UNCHANGED managerVars
    /\ UNCHANGED <<shouldStop, gameVars, loaderPc>>

-----------------------------------------------------------------------------
\* Whoever is unloading models goes on; the mutex is his.
UnloadingGoesOn == Erases(manager) /\ UNCHANGED <<shouldStop, gameVars, loaderPc, mainPc>>

GameGoesOn(t) ==
    \/ StartsLoop(t) \/ AcquiresLatest(t) \/ StartsGame(t) \/ ReleasesOneOfTwo(t)
    \/ SwitchesBots(t) \/ LooksUp(t) \/ Enqueues(t) \/ EndsLoop(t)

LoaderGoesOn == LoaderChecks \/ LoaderLoads \/ LoaderSleeps
MainGoesOn == MainJoins \/ MainDeletesManager
DataLoopGoesOn(n) ==
    WriterGoesOn(manager, n) /\ UNCHANGED <<shouldStop, gameVars, loaderPc, mainPc>>

Next ==
    \/ UnloadingGoesOn \/ signalHandler \/ LoaderGoesOn \/ MainGoesOn
    \/ \E t \in Thread : GameGoesOn(t) \/ Plays(t) \/ ChecksForNewNNEval(t) \/ EndsGame(t)
    \/ \E n \in Model : DataLoopGoesOn(n)

\* Every thread runs, and a game comes to an end however often it looks for a
\* new net.  Weak fairness is enough for the rest: the steps that find the
\* mutex taken are as few as the models.
Fairness ==
    /\ WF_vars(UnloadingGoesOn) /\ WF_vars(LoaderGoesOn) /\ WF_vars(MainGoesOn)
    /\ \A t \in Thread : WF_vars(GameGoesOn(t)) /\ SF_vars(EndsGame(t))
    /\ \A n \in Model : WF_vars(DataLoopGoesOn(n))

Spec == Init /\ [][Next]_vars /\ Fairness

-----------------------------------------------------------------------------
(* What the command promises.                                              *)

TypeOK ==
    /\ ManagerTypeOK
    /\ shouldStop \in BOOLEAN /\ numGamesStarted \in Nat
    /\ gamePc \in [Thread -> {"top", "acquire", "start", "play", "compare", "switch",
                              "lookup", "push", "release", "exited"}]
    /\ gameIdx \in [Thread -> Game \cup {0}]
    /\ nnEval \in [Thread -> Model \cup {NoModel}]
    /\ newNNEval \in [Thread -> Model \cup {NoModel}]
    /\ botNNEval \in [Thread -> Model \cup {NoModel}]
    /\ loaderPc \in {"check", "load", "sleep", "exited"}
    /\ mainPc \in {"join", "joinLoader", "delete", "done"}
    /\ finished \subseteq Game

\* The nets a thread has acquired and not released yet.
Held(t) == {nnEval[t], newNNEval[t]} \ {NoModel}

\* A net lives as long as somebody may use it: it is loaded and its memory is
\* not given back while a thread holds it, the game it plays uses no other
\* than the one it holds, except between releasing the old one and handing the
\* new one to the bots, where nothing is evaluated (play.cpp:1207); and the
\* manager counts its holders.
HeldNetsAreAlive ==
    /\ \A t \in Thread :
         /\ Held(t) \subseteq ToSet(modelDatas[manager]) \cap allocated[manager]
         /\ gamePc[t] \in {"play", "compare"} => botNNEval[t] = nnEval[t]
    /\ \A n \in Model :
         acquireCount[manager][n] =
            Cardinality({t \in Thread : n = nnEval[t]})
            + Cardinality({t \in Thread : n = newNNEval[t]})

\* A game that was played to its end is written once, though its thread changed
\* nets, its net was unloaded or the command was told to stop in the meantime:
\* it is with its thread, in the queue of a net whose writer is at work, or on
\* disk, and on disk before the command returns.
FinishedGamesAreKept ==
    /\ \A game \in finished :
         Cardinality({t \in Thread : gamePc[t] \in {"lookup", "push"} /\ gameIdx[t] = game})
         + Cardinality({n \in Model : /\ writerPc[manager][n] = "pop"
                                      /\ game \in ToSet(finishedGameQueue[manager][n])})
         + Cardinality({game} \cap written[manager]) = 1
    /\ mainPc = "done" => finished = written[manager]

\* Every row is counted once in the total of the manager: what the nets that
\* are loaded count and what was added when others were unloaded.  No row comes
\* after its net was counted.
RowsAreCountedOnce ==
    LET Sum(S) == MapThenSumSet(LAMBDA n : rows[manager][n], S)
    IN  totalNumRowsProcessed[manager] + Sum(ToSet(modelDatas[manager])) = Sum(Model)

\* The manager is consistent in itself: its assertions hold with its lock
\* dropped and taken by game threads, writers, the loader and main, and its
\* rows add up.
ManagerIsConsistent == TypeOK /\ ManagerAsserts /\ RowsAreCountedOnce

\* After a signal the command comes to its end: the games are interrupted, the
\* writers write what they have, and the destructor of the manager returns.
SignalEndsCommand == []<>(shouldStop => mainPc = "done")

\* The memory of a net that is no longer the latest is given back, though the
\* games go on.
OldNetsAreFreed ==
    \A n \in Model : []<>(n \in allocated[manager] /\ modelDatas[manager] # <<>>
                          => n = Latest(manager))

\* Nothing stays for ever: not the command after a signal, not an old net.
CommandAndNetsEnd == SignalEndsCommand /\ OldNetsAreFreed
=============================================================================
