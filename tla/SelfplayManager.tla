-------------------------- MODULE SelfplayManager --------------------------
(***************************************************************************)
(* SelfplayManager (program/selfplaymanager.cpp): the neural nets that     *)
(* game threads share, and for each of them a thread that writes the       *)
(* finished games.                                                         *)
(*                                                                         *)
(* There may be several managers; every variable is a function over        *)
(* Manager.  A ModelData is named by its manager and its model: a name is  *)
(* loaded again only when nothing is left of the ModelData that had it.    *)
(* The operations are given as actions without a next-state relation: the  *)
(* modules of the commands that own managers supply it.                    *)
(*                                                                         *)
(* A critical section of managerMutex is one step, with two exceptions.    *)
(* When ModelDatas are unloaded, their queues become read-only before they *)
(* are erased, and the threads that write see the queues without the       *)
(* mutex.  So unloading takes two steps, and leaving # {} between them     *)
(* says that the mutex is held; so does withWriters.                       *)
(***************************************************************************)
EXTENDS Integers, Sequences, FiniteSetsExt, SequencesExt

CONSTANTS Manager, Model, Game,
          AutoCleanup,      \* autoCleanupAllButLatestIfUnused
          MaxDataQueueSize,
          MaxRows           \* bound: the rows a net evaluates in its life

ASSUME ManagerAssumption ==
    AutoCleanup \in BOOLEAN /\ MaxDataQueueSize \in Nat \ {0} /\ MaxRows \in Nat

VARIABLES
    modelDatas,           \* names, from the earliest to the latest
    acquireCount,
    allocated,            \* the ModelDatas, with their nnEval, not deleted yet
    leaving,
    withWriters,          \* the function given to withDataWriters runs
    finishedGameQueue, readOnly,
    writerPc,             \* "none" is a model without a data write loop
    written,              \* the games on disk
    numDataWriteLoopsActive,
    rows,                 \* nnEval->numRowsProcessed()
    totalNumRowsProcessed,
    destructorPc

dataVars == <<finishedGameQueue, written>>
rowVars  == <<rows, totalNumRowsProcessed>>
managerVars == <<modelDatas, acquireCount, allocated, leaving, withWriters, dataVars, readOnly,
                 writerPc, numDataWriteLoopsActive, rowVars, destructorPc>>

ManagerInit ==
    /\ modelDatas = [g \in Manager |-> <<>>]
    /\ acquireCount = [g \in Manager |-> [n \in Model |-> 0]]
    /\ allocated = [g \in Manager |-> {}]
    /\ leaving = [g \in Manager |-> {}]
    /\ withWriters = [g \in Manager |-> FALSE]
    /\ finishedGameQueue = [g \in Manager |-> [n \in Model |-> <<>>]]
    /\ readOnly = [g \in Manager |-> {}]
    /\ writerPc = [g \in Manager |-> [n \in Model |-> "none"]]
    /\ written = [g \in Manager |-> {}]
    /\ numDataWriteLoopsActive = [g \in Manager |-> 0]
    /\ rows = [g \in Manager |-> [n \in Model |-> 0]]
    /\ totalNumRowsProcessed = [g \in Manager |-> 0]
    /\ destructorPc = [g \in Manager |-> "none"]

MutexFree(g) == leaving[g] = {} /\ ~withWriters[g]
hasModel(g, n) == n \in ToSet(modelDatas[g])
Latest(g) == Last(modelDatas[g])

-----------------------------------------------------------------------------
(* Unloading.                                                              *)

\* The mutex is taken, the queues of gone become read-only.
Unload(g, gone) ==
    /\ readOnly' = [readOnly EXCEPT ![g] = @ \cup gone]
    /\ leaving' = [leaving EXCEPT ![g] = gone]

\* The erasing in place, which leaves the others in their order.
Without(datas, gone) ==
    FoldLeft(LAMBDA kept, n : IF n \in gone THEN kept ELSE Append(kept, n), <<>>, datas)

\* The rest: the rows are counted, a ModelData without a data write loop is
\* deleted here, the others by their loops.
Erases(g) ==
    /\ leaving[g] # {}
    /\ totalNumRowsProcessed' = [totalNumRowsProcessed EXCEPT
         ![g] = @ + MapThenSumSet(LAMBDA n : rows[g][n], leaving[g])]
    /\ allocated' = [allocated EXCEPT ![g] = {n \in @ : n \in leaving[g] => writerPc[g][n] # "none"}]
    /\ modelDatas' = [modelDatas EXCEPT ![g] = Without(@, leaving[g])]
    /\ leaving' = [leaving EXCEPT ![g] = {}]
    /\ UNCHANGED <<acquireCount, withWriters, dataVars, readOnly, writerPc,
                   numDataWriteLoopsActive, rows, destructorPc>>

\* maybeAutoCleanupAlreadyLocked, for the models and counts it is called with.
\* mutant of Unused: off by one
HeldOnceAtMost(datas, count) == {n \in ToSet(datas) : count[n] <= 1}

Unused(datas, count) == {n \in ToSet(datas) : count[n] = 0}
AutoCleaned(datas, count) ==
    IF AutoCleanup /\ datas # <<>> THEN Unused(Front(datas), count) ELSE {}

\* Which of the unused models are old is up to the clock.
cleanupUnusedModelsOlderThan(g) ==
    /\ MutexFree(g)
    /\ \E old \in SUBSET Unused(modelDatas[g], acquireCount[g]) : Unload(g, old)
    /\ UNCHANGED <<modelDatas, acquireCount, allocated, withWriters, dataVars, writerPc,
                   numDataWriteLoopsActive, rowVars, destructorPc>>

-----------------------------------------------------------------------------
(* Loading, acquiring and releasing.                                       *)

\* The thrown error for a name that is in use is the guard's negation.
load(g, n, hasDataWriteLoop) ==
    /\ MutexFree(g) /\ ~hasModel(g, n)
    /\ modelDatas' = [modelDatas EXCEPT ![g] = Append(@, n)]
    /\ allocated' = [allocated EXCEPT ![g] = @ \cup {n}]
    /\ LET gone == AutoCleaned(Append(modelDatas[g], n), acquireCount[g])
       IN  /\ readOnly' = [readOnly EXCEPT ![g] = (@ \ {n}) \cup gone]
           /\ leaving' = [leaving EXCEPT ![g] = gone]
    /\ rows' = [rows EXCEPT ![g][n] = 0]
    /\ IF hasDataWriteLoop
       THEN /\ writerPc' = [writerPc EXCEPT ![g][n] = "pop"]
            /\ numDataWriteLoopsActive' = [numDataWriteLoopsActive EXCEPT ![g] = @ + 1]
       ELSE UNCHANGED <<writerPc, numDataWriteLoopsActive>>
    /\ UNCHANGED <<acquireCount, withWriters, dataVars, totalNumRowsProcessed, destructorPc>>

\* acquireLatest and acquireModel; NULL is the negation of hasModel.
acquire(g, n) ==
    /\ MutexFree(g) /\ hasModel(g, n)
    /\ acquireCount' = [acquireCount EXCEPT ![g][n] = @ + 1]
    /\ UNCHANGED <<modelDatas, allocated, leaving, withWriters, dataVars, readOnly, writerPc,
                   numDataWriteLoopsActive, rowVars, destructorPc>>

release(g, n) ==
    /\ MutexFree(g)
    /\ IF hasModel(g, n)
       THEN LET count == [acquireCount[g] EXCEPT ![n] = @ - 1]
            IN  /\ acquireCount' = [acquireCount EXCEPT ![g] = count]
                /\ Unload(g, AutoCleaned(modelDatas[g], count))
       ELSE UNCHANGED <<acquireCount, readOnly, leaving>>
    /\ UNCHANGED <<modelDatas, allocated, withWriters, dataVars, writerPc, numDataWriteLoopsActive,
                   rowVars, destructorPc>>

\* withDataWriters for a model without a data write loop: the function that
\* it is given runs under the mutex.
withDataWriters(g, n) ==
    /\ MutexFree(g) /\ hasModel(g, n) /\ writerPc[g][n] = "none"
    /\ withWriters' = [withWriters EXCEPT ![g] = TRUE]
    /\ UNCHANGED <<modelDatas, acquireCount, allocated, leaving, dataVars, readOnly,
                   writerPc, numDataWriteLoopsActive, rowVars, destructorPc>>

withDataWritersReturns(g) ==
    /\ withWriters[g]
    /\ withWriters' = [withWriters EXCEPT ![g] = FALSE]
    /\ UNCHANGED <<modelDatas, acquireCount, allocated, leaving, dataVars, readOnly,
                   writerPc, numDataWriteLoopsActive, rowVars, destructorPc>>

\* A row that is evaluated for somebody who holds the net.
Evaluates(g, n) ==
    /\ rows[g][n] < MaxRows
    /\ rows' = [rows EXCEPT ![g][n] = @ + 1]
    /\ UNCHANGED <<modelDatas, acquireCount, allocated, leaving, withWriters, dataVars, readOnly,
                   writerPc, numDataWriteLoopsActive, totalNumRowsProcessed, destructorPc>>

\* The second half of enqueueDataToWrite, without the mutex: waitPush.  It
\* drops the game if the queue is read-only.
push(g, n, game) ==
    /\ n \in readOnly[g] \/ Len(finishedGameQueue[g][n]) < MaxDataQueueSize
    /\ finishedGameQueue' = IF n \in readOnly[g] THEN finishedGameQueue
                            ELSE [finishedGameQueue EXCEPT ![g][n] = Append(@, game)]
    /\ UNCHANGED <<withWriters, modelDatas, acquireCount, allocated, leaving, readOnly, writerPc, written,
                   numDataWriteLoopsActive, rowVars, destructorPc>>

-----------------------------------------------------------------------------
(* The data write loop of a model.                                         *)

WriterGoto(g, n, next) == writerPc' = [writerPc EXCEPT ![g][n] = next]

\* What it pops it writes; nobody can tell the two apart.
Writes(g, n) ==
    /\ writerPc[g][n] = "pop" /\ finishedGameQueue[g][n] # <<>>
    /\ finishedGameQueue' = [finishedGameQueue EXCEPT ![g][n] = Tail(@)]
    /\ written' = [written EXCEPT ![g] = @ \cup {Head(finishedGameQueue[g][n])}]
    /\ UNCHANGED <<withWriters, modelDatas, acquireCount, allocated, leaving, readOnly, writerPc,
                   numDataWriteLoopsActive, rowVars, destructorPc>>

\* mutant of WriterEnds: the queue is closed, not only made read-only
WriterEndsAtOnce(g, n) ==
    /\ writerPc[g][n] = "pop" /\ n \in readOnly[g]
    /\ WriterGoto(g, n, "lock")
    /\ UNCHANGED <<modelDatas, acquireCount, allocated, leaving, withWriters, dataVars, readOnly,
                   numDataWriteLoopsActive, rowVars, destructorPc>>

\* waitPop fails; the writer is flushed.
WriterEnds(g, n) ==
    /\ writerPc[g][n] = "pop" /\ finishedGameQueue[g][n] = <<>> /\ n \in readOnly[g]
    /\ WriterGoto(g, n, "lock")
    /\ UNCHANGED <<modelDatas, acquireCount, allocated, leaving, withWriters, dataVars, readOnly,
                   numDataWriteLoopsActive, rowVars, destructorPc>>

\* mutant of WriterLocks: the mutex is not taken before the model is deleted
WriterRushes(g, n) ==
    /\ writerPc[g][n] = "lock"
    /\ WriterGoto(g, n, "delete")
    /\ UNCHANGED <<modelDatas, acquireCount, allocated, leaving, withWriters, dataVars, readOnly,
                   numDataWriteLoopsActive, rowVars, destructorPc>>

\* The mutex is taken only to wait for whoever is unloading the model.
WriterLocks(g, n) ==
    /\ writerPc[g][n] = "lock" /\ MutexFree(g)
    /\ WriterGoto(g, n, "delete")
    /\ UNCHANGED <<modelDatas, acquireCount, allocated, leaving, withWriters, dataVars, readOnly,
                   numDataWriteLoopsActive, rowVars, destructorPc>>

WriterDeletes(g, n) ==
    /\ writerPc[g][n] = "delete"
    /\ allocated' = [allocated EXCEPT ![g] = @ \ {n}]
    /\ WriterGoto(g, n, "checkin")
    /\ UNCHANGED <<modelDatas, acquireCount, leaving, withWriters, dataVars, readOnly,
                   numDataWriteLoopsActive, rowVars, destructorPc>>

\* mutant of WriterChecksIn: the last writer does not notify
WriterLeaves(g, n) ==
    /\ writerPc[g][n] = "checkin" /\ MutexFree(g)
    /\ numDataWriteLoopsActive' = [numDataWriteLoopsActive EXCEPT ![g] = @ - 1]
    /\ WriterGoto(g, n, "exited")
    /\ UNCHANGED <<modelDatas, acquireCount, allocated, leaving, withWriters, dataVars, readOnly,
                   rowVars, destructorPc>>

WriterChecksIn(g, n) ==
    /\ writerPc[g][n] = "checkin" /\ MutexFree(g)
    /\ numDataWriteLoopsActive' = [numDataWriteLoopsActive EXCEPT ![g] = @ - 1]
    /\ destructorPc' = IF numDataWriteLoopsActive[g] = 1 /\ destructorPc[g] = "asleep"
                       THEN [destructorPc EXCEPT ![g] = "wait"] ELSE destructorPc
    /\ WriterGoto(g, n, "exited")
    /\ UNCHANGED <<modelDatas, acquireCount, allocated, leaving, withWriters, dataVars, readOnly, rowVars>>

WriterGoesOn(g, n) ==
    \/ Writes(g, n) \/ WriterEnds(g, n) \/ WriterLocks(g, n)
    \/ WriterDeletes(g, n) \/ WriterChecksIn(g, n)

-----------------------------------------------------------------------------
(* The destructor: everything is unloaded, then it waits for the writers.  *)

Destroys(g) ==
    /\ destructorPc[g] = "none" /\ MutexFree(g)
    /\ Unload(g, ToSet(modelDatas[g]))
    /\ destructorPc' = [destructorPc EXCEPT ![g] = "wait"]
    /\ UNCHANGED <<modelDatas, acquireCount, allocated, withWriters, dataVars, writerPc,
                   numDataWriteLoopsActive, rowVars>>

DestructorWaits(g) ==
    /\ destructorPc[g] = "wait" /\ MutexFree(g)
    /\ destructorPc' = [destructorPc EXCEPT
         ![g] = IF numDataWriteLoopsActive[g] = 0 THEN "done" ELSE "asleep"]
    /\ UNCHANGED <<modelDatas, acquireCount, allocated, leaving, withWriters, dataVars, readOnly,
                   writerPc, numDataWriteLoopsActive, rowVars>>

-----------------------------------------------------------------------------
(* What the manager promises.                                              *)

ManagerTypeOK ==
    /\ modelDatas \in [Manager -> Seq(Model)]
    /\ acquireCount \in [Manager -> [Model -> Nat]]
    /\ allocated \in [Manager -> SUBSET Model] /\ leaving \in [Manager -> SUBSET Model]
    /\ withWriters \in [Manager -> BOOLEAN]
    /\ finishedGameQueue \in [Manager -> [Model -> Seq(Game)]]
    /\ readOnly \in [Manager -> SUBSET Model] /\ written \in [Manager -> SUBSET Game]
    /\ writerPc \in [Manager -> [Model -> {"none", "pop", "lock", "delete", "checkin", "exited"}]]
    /\ numDataWriteLoopsActive \in [Manager -> Nat]
    /\ rows \in [Manager -> [Model -> Nat]] /\ totalNumRowsProcessed \in [Manager -> Nat]
    /\ destructorPc \in [Manager -> {"none", "wait", "asleep", "done"}]

\* What the code asserts: a model that is unloaded, or whose writer has ended,
\* is held by nobody (selfplaymanager.cpp:48, 80, 366); a writer that deletes
\* its model finds it erased (378); when the last writer has checked in, no
\* model is left (402).  And whoever works under the mutex works with
\* ModelDatas that still exist: the writer, which learns of the end from its
\* queue, does not delete one before it is erased.
ManagerAsserts ==
    \A g \in Manager :
        /\ \A n \in Model :
             /\ n \in leaving[g] \/ writerPc[g][n] \in {"lock", "delete"}
                => acquireCount[g][n] = 0
             /\ writerPc[g][n] = "delete" => ~hasModel(g, n)
             /\ writerPc[g][n] = "exited" /\ numDataWriteLoopsActive[g] = 0
                => modelDatas[g] = <<>>
        /\ ToSet(modelDatas[g]) \subseteq allocated[g]
=============================================================================
