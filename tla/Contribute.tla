----------------------------- MODULE Contribute -----------------------------
(***************************************************************************)
(* The contribute command (command/contribute.cpp): task loops that ask a  *)
(* server what to play, load nets into two SelfplayManagers and push one   *)
(* GameTask for each game into a queue of one place; game threads that pop *)
(* them, play, upload and release the nets; a user who pauses, resumes and *)
(* quits; and the main thread, which shuts everything down.                *)
(*                                                                         *)
(* The pause is a WaitableFlag, modelled by its own module.  A GameTask is *)
(* its two nets, each with its manager, and whether it is a rating game.   *)
(* Of a game there is its pause, its end and its upload.  The server may   *)
(* give any task, a download may fail and a file may vanish; an error that *)
(* ends the process is left out, and so is the loop that downloads ahead.  *)
(***************************************************************************)
EXTENDS SelfplayManager

CONSTANTS Loop, GameThread,
          TaskRepFactor, MaxRatingMatches,
          MaxTasks,        \* bound: tasks the server gives
          NoTask, NoOne

Worker == Loop \cup GameThread
Net    == Manager \X Model
GameTask == [nets : Net \X Net, isRating : BOOLEAN]

ASSUME ContributeAssumption ==
    /\ Manager = {"selfplay", "rating"} /\ ~AutoCleanup
    /\ TaskRepFactor \in Nat \ {0} /\ MaxRatingMatches \in Nat /\ MaxTasks \in Nat
    /\ IsFiniteSet(Worker) /\ Loop \cap GameThread = {} /\ GameThread # {}
    /\ NoTask \notin GameTask /\ NoOne \notin Loop

VARIABLES
    shouldPause, finished, condVar, waitPc, want, \* the WaitableFlag
    shouldStop, shouldStopGracefully,
    taskLoopMutex,            \* who holds it
    numTasks,
    gameTaskQueue, queueReadOnly,
    numRatingGamesActive,
    pc,                       \* of the task loops and of the game threads
    task,                     \* of a task loop: what the server asked for
    nets,                     \* its nets, each with the manager chosen for it
    rep,
    gameTask,                 \* the GameTask a worker has in hand
    mainPc

flagVars  == <<shouldPause, finished, condVar, waitPc, want>>
stopVars  == <<shouldStop, shouldStopGracefully>>
queueVars == <<gameTaskQueue, queueReadOnly>>
loopVars  == <<taskLoopMutex, numTasks, task, nets, rep>>
vars == <<managerVars, flagVars, stopVars, queueVars, loopVars,
          numRatingGamesActive, pc, gameTask, mainPc>>

flag == INSTANCE WaitableFlag WITH value <- shouldPause, pc <- waitPc, Threads <- Worker

Init ==
    /\ ManagerInit /\ flag!Init
    /\ shouldStop = FALSE /\ shouldStopGracefully = FALSE
    /\ taskLoopMutex = NoOne /\ numTasks = 0
    /\ gameTaskQueue = <<>> /\ queueReadOnly = FALSE
    /\ numRatingGamesActive = 0
    /\ pc = [w \in Worker |-> IF w \in Loop THEN "top" ELSE "pop"]
    /\ task = [l \in Loop |-> NoTask]
    /\ nets = [l \in Loop |-> <<>>]
    /\ rep = [l \in Loop |-> 0]
    /\ gameTask = [w \in Worker |-> NoTask]
    /\ mainPc = "run"

Goto(w, next) == pc' = [pc EXCEPT ![w] = next]
Graceful == shouldStopGracefully \/ shouldStop

-----------------------------------------------------------------------------
(* Pausing: shouldPause->waitUntilFalse(), in a task loop, before a game    *)
(* and in a game.                                                           *)

PausesAt == {"pauseLoop", "pauseGame", "play"}
AfterPause(w) == IF pc[w] = "pauseLoop" THEN "lock"
                 ELSE IF pc[w] = "pauseGame" THEN "check" ELSE "play"

NotPaused(w) ==
    /\ pc[w] \in {"pauseLoop", "pauseGame"} /\ waitPc[w] = "idle" /\ ~shouldPause
    /\ Goto(w, AfterPause(w))
    /\ UNCHANGED <<managerVars, flagVars, stopVars, queueVars, loopVars,
                   numRatingGamesActive, gameTask, mainPc>>

Pauses(w) ==
    /\ pc[w] \in PausesAt
    /\ \/ (flag!WaitUntil(w, FALSE) \/ flag!LockAndWait(w)) /\ UNCHANGED pc
       \/ /\ flag!Wake(w)
          /\ Goto(w, IF waitPc'[w] = "idle" THEN AfterPause(w) ELSE pc[w])
    /\ UNCHANGED <<managerVars, stopVars, queueVars, loopVars,
                   numRatingGamesActive, gameTask, mainPc>>

-----------------------------------------------------------------------------
(* A task loop.                                                            *)

LoopUnchanged == UNCHANGED <<flagVars, stopVars, queueVars, numRatingGamesActive,
                             gameTask, mainPc>>

\* The lock is dropped by its destructor at every end of an iteration.  (It is
\* a PriorityLock, which locks with high priority whichever lock it is asked
\* for, so it is a plain mutex.)
EndsIteration(l, next) ==
    /\ taskLoopMutex' = NoOne /\ Goto(l, next)
    /\ task' = [task EXCEPT ![l] = NoTask]
    /\ nets' = [nets EXCEPT ![l] = <<>>]
    /\ rep' = [rep EXCEPT ![l] = 0]
    /\ UNCHANGED numTasks

StartsIteration(l) ==
    /\ pc[l] = "top"
    /\ Goto(l, IF Graceful THEN "exited" ELSE "pauseLoop")
    /\ LoopUnchanged /\ UNCHANGED <<managerVars, loopVars>>

\* The performance report changes nothing.  The test of the time since the
\* last query may end the iteration.
TakesLock(l) ==
    /\ pc[l] = "lock" /\ taskLoopMutex = NoOne
    /\ \/ EndsIteration(l, IF Graceful THEN "exited" ELSE "top")
       \/ /\ ~Graceful /\ taskLoopMutex' = l
          /\ Goto(l, "cleanRatingFirst")
          /\ UNCHANGED <<numTasks, task, nets, rep>>
    /\ LoopUnchanged /\ UNCHANGED managerVars

AllowRatingTask ==
    /\ MaxRatingMatches > 0
    /\ numRatingGamesActive <= (MaxRatingMatches - 1) * TaskRepFactor
    /\ Len(modelDatas["rating"]) <= MaxRatingMatches * 2 - 2

\* getNextTask: no task, or a selfplay task for one net, or a rating task.
GetsTask(l) ==
    /\ pc[l] = "query" /\ MutexFree("rating")
    /\ \/ EndsIteration(l, "top")
       \/ /\ numTasks < MaxTasks
          /\ \E black, white \in Model, isRating \in BOOLEAN :
               /\ isRating => AllowRatingTask
               /\ ~isRating => black = white
               /\ task' = [task EXCEPT ![l] = [models |-> <<black, white>>,
                                               isRating |-> isRating]]
          /\ numTasks' = numTasks + 1
          /\ Goto(l, "present")
          /\ UNCHANGED <<taskLoopMutex, nets, rep>>
    /\ LoopUnchanged /\ UNCHANGED managerVars

\* The lock is dropped for a download if a file is missing; it may be missing
\* again when the lock is held again.
LooksForFiles(l) ==
    /\ pc[l] = "present"
    /\ \/ IF Graceful THEN EndsIteration(l, "exited")
          ELSE Goto(l, "cleanSelfplay") /\ UNCHANGED loopVars
       \/ /\ taskLoopMutex' = NoOne /\ Goto(l, "download")
          /\ UNCHANGED <<numTasks, task, nets, rep>>
    /\ LoopUnchanged /\ UNCHANGED managerVars

Downloads(l) ==
    /\ pc[l] = "download"
    /\ \E next \in {"relock", "relockFailed"} : Goto(l, next)
    /\ LoopUnchanged /\ UNCHANGED <<managerVars, loopVars>>

\* shouldStopGracefully leaves the loop, whatever the download did.
Relocks(l) ==
    /\ pc[l] \in {"relock", "relockFailed"} /\ taskLoopMutex = NoOne
    /\ IF Graceful \/ pc[l] = "relockFailed"
       THEN EndsIteration(l, IF Graceful THEN "exited" ELSE "top")
       ELSE /\ taskLoopMutex' = l
            /\ Goto(l, "present")
            /\ UNCHANGED <<numTasks, task, nets, rep>>
    /\ LoopUnchanged /\ UNCHANGED managerVars

\* Before the query, so that the ratings that are over are known, and after it.
CleansUp(l) ==
    /\ \/ /\ pc[l] = "cleanRatingFirst"
          /\ cleanupUnusedModelsOlderThan("rating") /\ Goto(l, "query")
       \/ /\ pc[l] = "cleanSelfplay"
          /\ cleanupUnusedModelsOlderThan("selfplay") /\ Goto(l, "cleanRating")
       \/ /\ pc[l] = "cleanRating"
          /\ cleanupUnusedModelsOlderThan("rating") /\ Goto(l, "choose")
    /\ LoopUnchanged /\ UNCHANGED <<loopVars>>

\* A net of a rating game that is loaded for selfplay is taken from there.
ChoosesManagers(l) ==
    /\ pc[l] = "choose" /\ MutexFree("selfplay")
    /\ LET managerOf(n) == IF task[l].isRating /\ ~hasModel("selfplay", n)
                           THEN "rating" ELSE "selfplay"
       IN  nets' = [nets EXCEPT ![l] = [i \in 1..2 |->
                      <<managerOf(task[l].models[i]), task[l].models[i]>>]]
    /\ Goto(l, "loadBlack")
    /\ LoopUnchanged
    /\ UNCHANGED <<managerVars, taskLoopMutex, numTasks, task, rep>>

\* loadNeuralNetIntoManager.  It may find the file modified and rename it, or
\* find that the GPU computes nonsense and stop the command.
LoadsInto(l, net, next) ==
    \/ /\ MutexFree(net[1]) /\ hasModel(net[1], net[2])
       /\ Goto(l, next)
       /\ UNCHANGED <<managerVars, flagVars, stopVars, loopVars>>
    \/ /\ load(net[1], net[2], FALSE)
       /\ Goto(l, next)
       /\ UNCHANGED <<flagVars, stopVars, loopVars>>
    \/ /\ MutexFree(net[1]) /\ ~hasModel(net[1], net[2])
       /\ EndsIteration(l, "top")
       /\ UNCHANGED managerVars
       /\ \/ UNCHANGED <<flagVars, stopVars>>
          \/ /\ shouldStop' = TRUE /\ shouldStopGracefully' = TRUE
             /\ flag!setPermanently(FALSE) \/ (finished /\ UNCHANGED flagVars)

Loads(l) ==
    /\ \/ pc[l] = "loadBlack" /\ LoadsInto(l, nets[l][1], "loadWhite")
       \/ pc[l] = "loadWhite" /\ LoadsInto(l, nets[l][2], "loaded")
    /\ UNCHANGED <<queueVars, numRatingGamesActive, gameTask, mainPc>>

HasLoaded(l) ==
    /\ pc[l] = "loaded"
    /\ IF Graceful THEN EndsIteration(l, "exited")
       ELSE Goto(l, "acquireBlack") /\ UNCHANGED loopVars
    /\ LoopUnchanged /\ UNCHANGED managerVars

\* allocateGameTask, which swaps black and white at random.
Allocates(l) ==
    /\ \/ /\ pc[l] = "acquireBlack"
          /\ acquire(nets[l][1][1], nets[l][1][2])
          /\ Goto(l, "acquireWhite")
          /\ UNCHANGED <<gameTask, numRatingGamesActive>>
       \/ /\ pc[l] = "acquireWhite"
          /\ acquire(nets[l][2][1], nets[l][2][2])
          /\ \E blackAndWhite \in {nets[l], <<nets[l][2], nets[l][1]>>} :
               gameTask' = [gameTask EXCEPT ![l] = [nets |-> blackAndWhite,
                                                    isRating |-> task[l].isRating]]
          /\ numRatingGamesActive' = numRatingGamesActive + (IF task[l].isRating THEN 1 ELSE 0)
          /\ Goto(l, "push")
    /\ UNCHANGED <<flagVars, stopVars, queueVars, loopVars, mainPc>>

\* mutant of PushesTask: a task that could not be pushed is forgotten
PushesTaskOrForgets(l) ==
    /\ pc[l] = "push"
    /\ queueReadOnly \/ gameTaskQueue = <<>>
    /\ gameTaskQueue' = IF queueReadOnly THEN gameTaskQueue ELSE <<gameTask[l]>>
    /\ gameTask' = [gameTask EXCEPT ![l] = NoTask]
    /\ EndsIteration(l, "top")
    /\ UNCHANGED <<managerVars, flagVars, stopVars, queueReadOnly,
                   numRatingGamesActive, mainPc>>

\* waitPush: it blocks while the one place is taken, unless the queue is closed
\* to pushes.  A task that could not be pushed is freed.
PushesTask(l) ==
    /\ pc[l] = "push"
    /\ IF queueReadOnly
       THEN Goto(l, "releaseBlack") /\ UNCHANGED <<gameTaskQueue, gameTask, loopVars>>
       ELSE /\ gameTaskQueue = <<>>
            /\ gameTaskQueue' = <<gameTask[l]>>
            /\ gameTask' = [gameTask EXCEPT ![l] = NoTask]
            /\ IF rep[l] + 1 < TaskRepFactor
               THEN /\ rep' = [rep EXCEPT ![l] = @ + 1]
                    /\ Goto(l, "acquireBlack")
                    /\ UNCHANGED <<taskLoopMutex, numTasks, task, nets>>
               ELSE EndsIteration(l, "top")
    /\ UNCHANGED <<managerVars, flagVars, stopVars, queueReadOnly,
                   numRatingGamesActive, mainPc>>

\* freeGameTask, in a task loop and in a game thread: until it is no longer
\* counted, a rating game keeps others from being asked for though its nets are
\* given back.  clearUnusedModelCaches changes nothing here.
Frees(w) ==
    /\ \/ /\ pc[w] = "releaseBlack"
          /\ release(gameTask[w].nets[1][1], gameTask[w].nets[1][2])
          /\ Goto(w, "releaseWhite")
          /\ UNCHANGED <<gameTask, numRatingGamesActive, loopVars>>
       \/ /\ pc[w] = "releaseWhite"
          /\ release(gameTask[w].nets[2][1], gameTask[w].nets[2][2])
          /\ Goto(w, "uncount")
          /\ UNCHANGED <<gameTask, numRatingGamesActive, loopVars>>
       \/ /\ pc[w] = "uncount"
          /\ gameTask' = [gameTask EXCEPT ![w] = NoTask]
          /\ numRatingGamesActive' =
               numRatingGamesActive - (IF gameTask[w].isRating THEN 1 ELSE 0)
          /\ IF w \in Loop THEN EndsIteration(w, "top") ELSE Goto(w, "pop") /\ UNCHANGED loopVars
          /\ UNCHANGED managerVars
    /\ UNCHANGED <<flagVars, stopVars, queueVars, mainPc>>

-----------------------------------------------------------------------------
(* A game thread.                                                          *)

PopsTaskOrSleeps(t) ==  \* mutant of PopsTask: setReadOnly does not wake who pops
    /\ pc[t] = "pop" /\ gameTaskQueue # <<>>
    /\ gameTask' = [gameTask EXCEPT ![t] = Head(gameTaskQueue)]
    /\ gameTaskQueue' = Tail(gameTaskQueue)
    /\ Goto(t, "pauseGame")
    /\ UNCHANGED <<managerVars, flagVars, stopVars, queueReadOnly, loopVars,
                   numRatingGamesActive, mainPc>>

PopsTask(t) ==
    /\ pc[t] = "pop"
    /\ \/ /\ gameTaskQueue # <<>>
          /\ gameTask' = [gameTask EXCEPT ![t] = Head(gameTaskQueue)]
          /\ gameTaskQueue' = Tail(gameTaskQueue)
          /\ Goto(t, "pauseGame")
       \/ /\ gameTaskQueue = <<>> /\ queueReadOnly
          /\ Goto(t, "exited")
          /\ UNCHANGED <<gameTask, gameTaskQueue>>
    /\ UNCHANGED <<managerVars, flagVars, stopVars, queueReadOnly, loopVars,
                   numRatingGamesActive, mainPc>>

\* A game is skipped after a signal, and its result after the second signal, or
\* when its file cannot be written or it took days.  The upload of training data
\* runs under the mutex of the manager.
Games(t) ==
    /\ \/ /\ pc[t] = "check"
          /\ Goto(t, IF Graceful THEN "releaseBlack" ELSE "play")
          /\ UNCHANGED managerVars
       \/ /\ pc[t] = "play" /\ waitPc[t] = "idle"
          /\ \/ Goto(t, "releaseBlack")
             \/ ~shouldStop /\ ~gameTask[t].isRating /\ Goto(t, "upload")
          /\ UNCHANGED managerVars
       \/ /\ pc[t] = "upload"
          /\ withDataWriters(gameTask[t].nets[1][1], gameTask[t].nets[1][2])
          /\ Goto(t, "uploading")
       \/ /\ pc[t] = "uploading"
          /\ withDataWritersReturns(gameTask[t].nets[1][1])
          /\ Goto(t, "releaseBlack")
    /\ UNCHANGED <<flagVars, stopVars, queueVars, loopVars,
                   numRatingGamesActive, gameTask, mainPc>>

-----------------------------------------------------------------------------
(* The user, the signals, the disk and the main thread.                    *)

ControlUnchanged == UNCHANGED <<managerVars, queueVars, loopVars, numRatingGamesActive,
                                pc, gameTask, mainPc>>

\* A line of the control loop, under controlMutex; after the main thread has
\* set shouldStop there it does nothing.
controlLoop ==
    /\ ~shouldStop
    /\ \/ \E b \in BOOLEAN : flag!set(b) /\ UNCHANGED stopVars
       \/ shouldStopGracefully' = TRUE /\ UNCHANGED <<shouldStop, flagVars>>
       \/ /\ shouldStop' = TRUE /\ shouldStopGracefully' = TRUE
          /\ flag!setPermanently(FALSE)
    /\ ControlUnchanged

signalHandler ==
    /\ IF shouldStopGracefully THEN shouldStop' = TRUE /\ UNCHANGED shouldStopGracefully
                               ELSE shouldStopGracefully' = TRUE /\ UNCHANGED shouldStop
    /\ ControlUnchanged /\ UNCHANGED flagVars

\* shouldStopFunc, which the stop loops call all the time.
SeesStop ==
    /\ shouldStop /\ flag!setPermanently(FALSE)
    /\ ControlUnchanged /\ UNCHANGED stopVars

MainGoto(from, next) == mainPc = from /\ mainPc' = next
MainUnchanged == UNCHANGED <<loopVars, numRatingGamesActive, pc, gameTask>>

Shutdown ==
    /\ \/ /\ MainGoto("run", "joinLoops") /\ Graceful
          /\ queueReadOnly' = TRUE /\ shouldStopGracefully' = TRUE
          /\ UNCHANGED <<managerVars, flagVars, gameTaskQueue, shouldStop>>
       \/ /\ MainGoto("joinLoops", "joinGames") /\ \A l \in Loop : pc[l] = "exited"
          /\ UNCHANGED <<managerVars, flagVars, queueVars, stopVars>>
       \/ /\ MainGoto("joinGames", "unpause") /\ \A t \in GameThread : pc[t] = "exited"
          /\ shouldStop' = TRUE
          /\ UNCHANGED <<managerVars, flagVars, queueVars, shouldStopGracefully>>
       \/ /\ MainGoto("unpause", "delete")
          /\ flag!setPermanently(FALSE) \/ (finished /\ UNCHANGED flagVars)
          /\ UNCHANGED <<managerVars, queueVars, stopVars>>
       \/ /\ mainPc = "delete"
          /\ \/ /\ Destroys("selfplay") \/ DestructorWaits("selfplay")
                /\ UNCHANGED mainPc
             \/ /\ destructorPc["selfplay"] = "done"
                /\ Destroys("rating") \/ DestructorWaits("rating")
                /\ UNCHANGED mainPc
             \/ /\ destructorPc["rating"] = "done" /\ mainPc' = "done"
                /\ UNCHANGED managerVars
          /\ UNCHANGED <<flagVars, queueVars, stopVars>>
    /\ MainUnchanged

UnloadingGoesOn ==
    /\ \E g \in Manager : Erases(g)
    /\ UNCHANGED <<flagVars, stopVars, queueVars, loopVars,
                   numRatingGamesActive, pc, gameTask, mainPc>>

LoopGoesOn(l) ==
    \/ StartsIteration(l) \/ TakesLock(l) \/ CleansUp(l) \/ GetsTask(l)
    \/ LooksForFiles(l) \/ Downloads(l) \/ Relocks(l)
    \/ ChoosesManagers(l) \/ Loads(l) \/ HasLoaded(l) \/ Allocates(l) \/ PushesTask(l)

WorkerGoesOn(w) == NotPaused(w) \/ Pauses(w) \/ Frees(w)

Next ==
    \/ \E l \in Loop : LoopGoesOn(l)
    \/ \E t \in GameThread : PopsTask(t) \/ Games(t)
    \/ \E w \in Worker : WorkerGoesOn(w)
    \/ UnloadingGoesOn \/ Shutdown \/ SeesStop
    \/ controlLoop \/ signalHandler

\* Every thread runs, downloads, uploads and games come to an end.  The user
\* and the signals owe nothing.
Fairness ==
    /\ WF_vars(UnloadingGoesOn) /\ WF_vars(Shutdown) /\ WF_vars(SeesStop)
    /\ \A l \in Loop : WF_vars(LoopGoesOn(l) \/ WorkerGoesOn(l))
    /\ \A t \in GameThread : WF_vars(PopsTask(t) \/ Games(t) \/ WorkerGoesOn(t))

Spec == Init /\ [][Next]_vars /\ Fairness

-----------------------------------------------------------------------------
(* What the command promises.                                              *)

TypeOK ==
    /\ ManagerTypeOK
    /\ {shouldPause, finished, shouldStop, shouldStopGracefully, queueReadOnly} \subseteq BOOLEAN
    /\ taskLoopMutex \in Loop \cup {NoOne}
    /\ numTasks \in 0..MaxTasks /\ numRatingGamesActive \in Nat
    /\ gameTaskQueue \in Seq(GameTask) /\ Len(gameTaskQueue) <= 1
    /\ gameTask \in [Worker -> GameTask \cup {NoTask}]
    /\ \A l \in Loop : nets[l] = <<>> \/ nets[l] \in Net \X Net

\* acquireModel is never answered with NULL: between asking whether a net is
\* loaded and acquiring it for the last game of the task, nobody unloads it,
\* though the two managers are cleaned up by several loops.
NetsOfTaskAreLoaded ==
    \A l \in Loop :
        /\ pc[l] \in {"loaded", "acquireBlack", "acquireWhite"} =>
             \A i \in 1..2 : hasModel(nets[l][i][1], nets[l][i][2])
        /\ pc[l] = "loadWhite" => hasModel(nets[l][1][1], nets[l][1][2])

\* How often the two nets of a task, or only the second, are this net.
Uses(gt, from, net) == Cardinality({i \in from..2 : gt.nets[i] = net})

\* How often each worker refers to a net: while it acquires the second net of
\* its task, by the first, while it releases the second, by that, and after it
\* by none.
InHand(net) ==
    [w \in Worker |->
       IF w \in Loop /\ pc[w] = "acquireWhite" /\ nets[w][1] = net THEN 1
       ELSE IF gameTask[w] = NoTask \/ pc[w] = "uncount" THEN 0
       ELSE Uses(gameTask[w], IF pc[w] = "releaseWhite" THEN 2 ELSE 1, net)]

\* The nets that workers and the queue refer to, as often as they do.
References(g, n) ==
    MapThenSumSet(LAMBDA w : InHand(<<g, n>>)[w], Worker)
    + (IF gameTaskQueue = <<>> THEN 0 ELSE Uses(Head(gameTaskQueue), 1, <<g, n>>))

\* A net is counted by its manager as often as a task refers to it, wherever
\* the task is, also on the ways out: a task that could not be pushed, a game
\* that is skipped or interrupted.  So none is unloaded in use, and nothing is
\* left when the managers are deleted.
ReferencesAreCounted ==
    /\ \A g \in Manager, n \in Model :
         /\ acquireCount[g][n] = References(g, n)
         /\ References(g, n) > 0 => n \in allocated[g] /\ hasModel(g, n) /\ n \notin leaving[g]
    /\ mainPc = "done" => allocated = [g \in Manager |-> {}] /\ numRatingGamesActive = 0

\* The nets of tasks and the two managers agree, with every worker anywhere.
NetsAreCountedAndLoaded ==
    TypeOK /\ ManagerAsserts /\ NetsOfTaskAreLoaded /\ ReferencesAreCounted

\* A worker sleeps that no notification will wake: it had read shouldPause when
\* the flag was set for good.
SleepsForEver == \E w \in Worker : finished /\ w \in condVar[FALSE]

\* forcequit, a second signal or a broken GPU end the command, unless a worker
\* has missed that the pause is over.
StopEndsCommand == []<>(shouldStop => mainPc = "done" \/ SleepsForEver)

\* A graceful quit ends the command once the user does not pause it any more:
\* the loops stop to push, the queue is drained and every game is let finish.
QuitEndsCommand ==
    []<>(shouldStopGracefully => mainPc = "done" \/ shouldPause \/ condVar[FALSE] # {})

\* Both ways to quit end the command.
CommandEnds == StopEndsCommand /\ QuitEndsCommand
=============================================================================
