-------------------------- MODULE Contribute_proofs --------------------------
(***************************************************************************)
(* The contribute command, for any number of task loops and game threads,  *)
(* of nets, tasks and rating games.                                        *)
(*                                                                         *)
(* A task loop holds taskLoopMutex from its query to its last push, so     *)
(* that nobody else unloads a net: one that was found or loaded stays      *)
(* until it is acquired.  From then on it is counted, and what is counted  *)
(* is what the tasks refer to that are in a hand or in the queue.          *)
(***************************************************************************)
EXTENDS Contribute, FoldFacts, FiniteSetTheorems, TLAPS

\* Where a task loop, and where a game thread may be.
LoopPcs == {"top", "pauseLoop", "lock", "cleanRatingFirst", "query", "present", "download", "relock",
            "relockFailed", "cleanSelfplay", "cleanRating", "choose", "loadBlack", "loadWhite", "loaded",
            "acquireBlack", "acquireWhite", "push", "releaseBlack", "releaseWhite", "uncount",
            "exited"}
GamePcs == {"pop", "pauseGame", "check", "play", "upload", "uploading", "releaseBlack", "releaseWhite",
            "uncount", "exited"}

\* Where a worker has a GameTask in hand.
Carrying == {"push", "pauseGame", "check", "play", "upload", "uploading", "releaseBlack", "releaseWhite",
             "uncount"}

\* Where a task loop knows what to play, and with which nets.
HasNets == {"loadBlack", "loadWhite", "loaded", "acquireBlack", "acquireWhite", "push",
            "releaseBlack", "releaseWhite", "uncount"}
HasTask == HasNets \cup {"present", "download", "relock", "relockFailed", "cleanSelfplay", "cleanRating",
                         "choose"}

\* Where it holds taskLoopMutex.
Holding == (HasTask \ {"download", "relock", "relockFailed"}) \cup {"cleanRatingFirst", "query"}

\* What the server may ask for.
Asked == [models : Model \X Model, isRating : BOOLEAN]

\* A net that is loaded and not about to be unloaded.
Stays(net) == hasModel(net[1], net[2]) /\ net[2] \notin leaving[net[1]]

\* The types, with those of the program counters and of what a loop knows.
Types ==
    /\ TypeOK
    /\ pc \in [Worker -> LoopPcs \cup GamePcs]
    /\ task \in [Loop -> Asked \cup {NoTask}]
    /\ nets \in [Loop -> (Net \X Net) \cup {<<>>}]

\* No net has a writer here: it is deleted where it is erased.
ManagerOK(g) ==
    /\ \A n \in Model : writerPc[g][n] = "none"
    /\ numDataWriteLoopsActive[g] = 0
    /\ allocated[g] = ToSet(modelDatas[g])
    /\ leaving[g] \subseteq ToSet(modelDatas[g])
    /\ destructorPc[g] # "none" => leaving[g] = ToSet(modelDatas[g])
    /\ destructorPc[g] \in {"asleep", "done"} => modelDatas[g] = <<>>

\* The mutex is held by the loop that uses it, and the nets it has found or loaded stay.
LoopOK(l) ==
    /\ pc[l] \in LoopPcs
    /\ taskLoopMutex = l <=> pc[l] \in Holding
    /\ pc[l] \in HasTask => task[l] \in Asked
    /\ pc[l] \in HasNets => nets[l] \in Net \X Net
    /\ pc[l] \in {"loadWhite", "loaded", "acquireBlack", "acquireWhite", "push"} => Stays(nets[l][1])
    /\ pc[l] \in {"loaded", "acquireBlack", "acquireWhite", "push"} => Stays(nets[l][2])

\* A game thread ends when the queue takes nothing any more and is empty.
GameOK(t) ==
    /\ pc[t] \in GamePcs
    /\ pc[t] = "exited" => queueReadOnly /\ gameTaskQueue = <<>>

\* A worker has a GameTask in hand exactly where it carries one.
HandOK(w) == gameTask[w] # NoTask <=> pc[w] \in Carrying

\* A net is counted as often as it is referred to, and one that is counted stays.
Counted(g, n) ==
    /\ acquireCount[g][n] = References(g, n)
    /\ acquireCount[g][n] > 0 => Stays(<<g, n>>)

\* The workers that have the task of a rating game in hand.
Rating == {w \in Worker : gameTask[w] # NoTask /\ gameTask[w].isRating}
\* The counter of the rating games counts the tasks in a hand or in the queue.
RatingCounted ==
    numRatingGamesActive =
        Cardinality(Rating)
        + (IF gameTaskQueue # <<>> /\ Head(gameTaskQueue).isRating THEN 1 ELSE 0)

\* The order of the shutdown.
Phases ==
    /\ mainPc \in {"run", "joinLoops", "joinGames", "unpause", "delete", "done"}
    /\ mainPc \in {"joinGames", "unpause", "delete", "done"} => \A l \in Loop : pc[l] = "exited"
    /\ mainPc \in {"unpause", "delete", "done"} => \A t \in GameThread : pc[t] = "exited"
    /\ mainPc \notin {"delete", "done"} => \A g \in Manager : destructorPc[g] = "none"
    /\ destructorPc["rating"] # "none" => destructorPc["selfplay"] = "done"
    /\ mainPc = "done" => destructorPc["rating"] = "done"

\* The inductive invariant.
IInv ==
    /\ Types
    /\ \A g \in Manager : ManagerOK(g)
    /\ \A l \in Loop : LoopOK(l)
    /\ \A t \in GameThread : GameOK(t)
    /\ \A w \in Worker : HandOK(w)
    /\ \A g \in Manager, n \in Model : Counted(g, n)
    /\ RatingCounted
    /\ Phases
-----------------------------------------------------------------------------
(* The managers.                                                           *)

\* What the managers keep by themselves.
ManagersOK == ManagerTypeOK /\ \A g \in Manager : ManagerOK(g)

\* Nothing that was to stay is lost.
AllStay == \A net \in Net : Stays(net) => Stays(net)'

\* The nets about to be unloaded can be numbered.
LEMMA LeavingIsFinite ==
  ASSUME ManagersOK, NEW g \in Manager
  PROVE  IsFiniteSet(leaving[g]) /\ leaving[g] \subseteq Model /\ ToSet(modelDatas[g]) \subseteq Model
<1>1. modelDatas[g] \in Seq(Model) BY DEF ManagersOK, ManagerTypeOK
<1>2. ToSet(modelDatas[g]) \subseteq Model BY <1>1 DEF ToSet
<1>3. IsFiniteSet(DOMAIN modelDatas[g])
  <2>1. PICK m \in Nat : m = Len(modelDatas[g]) BY <1>1
  <2>2. IsFiniteSet(1..m) BY <2>1, FS_Interval
  <2> QED BY <1>1, <2>1, <2>2
<1>4. IsFiniteSet(ToSet(modelDatas[g]))
  <2>1. modelDatas[g] \in Surjection(DOMAIN modelDatas[g], ToSet(modelDatas[g]))
    BY <1>1 DEF Surjection, ToSet
  <2> QED BY <1>3, <2>1, FS_Surjection
<1>5. leaving[g] \subseteq ToSet(modelDatas[g]) BY DEF ManagersOK, ManagerOK
<1> QED BY <1>2, <1>4, <1>5, FS_Subset

\* Other managers than g are as they were.
Others(g) ==
    \A h \in Manager \ {g} :
        /\ modelDatas'[h] = modelDatas[h] /\ allocated'[h] = allocated[h] /\ leaving'[h] = leaving[h]
        /\ destructorPc'[h] = destructorPc[h]

\* What has to be shown of an operation of manager g.
LEMMA OnlyManager ==
  ASSUME ManagersOK, NEW g \in Manager, Others(g), ManagerTypeOK', ManagerOK(g)',
         UNCHANGED <<writerPc, numDataWriteLoopsActive>>
  PROVE  ManagersOK'
<1>1. ASSUME NEW h \in Manager, h # g PROVE ManagerOK(h)'
  BY <1>1 DEF ManagersOK, ManagerOK, Others
<1> QED BY <1>1 DEF ManagersOK

\* A clean-up marks only nets that nobody uses.
LEMMA CleanupKeeps ==
  ASSUME ManagersOK, NEW g \in Manager, cleanupUnusedModelsOlderThan(g), destructorPc[g] = "none"
  PROVE  /\ ManagersOK' /\ UNCHANGED <<acquireCount, destructorPc>>
         /\ \A net \in Net : Stays(net) /\ acquireCount[net[1]][net[2]] > 0 => Stays(net)'
<1>1. PICK old \in SUBSET Unused(modelDatas[g], acquireCount[g]) : Unload(g, old)
  BY DEF cleanupUnusedModelsOlderThan
<1>2. /\ readOnly' = [readOnly EXCEPT ![g] = @ \cup old] /\ leaving' = [leaving EXCEPT ![g] = old]
      /\ old \subseteq ToSet(modelDatas[g]) /\ \A n \in old : acquireCount[g][n] = 0
  BY <1>1 DEF Unload, Unused
<1>3. UNCHANGED <<modelDatas, acquireCount, allocated, withWriters, dataVars, writerPc,
                   numDataWriteLoopsActive, rowVars, destructorPc>>
  BY DEF cleanupUnusedModelsOlderThan
<1>4. old \subseteq Model BY <1>2, LeavingIsFinite
<1>5. ManagerTypeOK'
  <2>1. leaving' \in [Manager -> SUBSET Model] /\ readOnly' \in [Manager -> SUBSET Model]
    BY <1>2, <1>4 DEF ManagersOK, ManagerTypeOK
  <2> QED BY <1>3, <2>1 DEF ManagersOK, ManagerTypeOK, dataVars, rowVars
<1>6. leaving'[g] = old /\ \A h \in Manager \ {g} : leaving'[h] = leaving[h]
  BY <1>2 DEF ManagersOK, ManagerTypeOK
<1>7. Others(g) BY <1>3, <1>6 DEF Others
<1>8. ManagerOK(g)' BY <1>2, <1>3, <1>6 DEF ManagersOK, ManagerOK
<1>9. ASSUME NEW net \in Net, Stays(net), acquireCount[net[1]][net[2]] > 0 PROVE Stays(net)'
  <2>1. net[1] \in Manager BY DEF Net
  <2>2. net[1] = g => net[2] \notin old BY <1>2, <1>9
  <2> QED BY <1>3, <1>6, <1>9, <2>1, <2>2 DEF Stays, hasModel
<1> QED BY <1>3, <1>5, <1>7, <1>8, <1>9, OnlyManager

\* Nothing is cleaned up when a net is loaded or released.
LEMMA NothingIsCleaned == ASSUME NEW datas, NEW count PROVE AutoCleaned(datas, count) = {}
BY ContributeAssumption DEF AutoCleaned

\* A net that is loaded stays, like the others.
LEMMA LoadKeeps ==
  ASSUME ManagersOK, NEW g \in Manager, NEW n \in Model, load(g, n, FALSE), destructorPc[g] = "none"
  PROVE  /\ ManagersOK' /\ UNCHANGED <<acquireCount, destructorPc>>
         /\ AllStay /\ Stays(<<g, n>>)'
<1>1. /\ leaving[g] = {} /\ ~hasModel(g, n)
      /\ modelDatas' = [modelDatas EXCEPT ![g] = Append(@, n)]
      /\ allocated' = [allocated EXCEPT ![g] = @ \cup {n}]
      /\ rows' = [rows EXCEPT ![g][n] = 0]
      /\ UNCHANGED <<writerPc, numDataWriteLoopsActive, acquireCount, withWriters, dataVars,
                     totalNumRowsProcessed, destructorPc>>
  BY DEF load, MutexFree
<1>2. /\ readOnly' = [readOnly EXCEPT ![g] = (@ \ {n}) \cup {}]
      /\ leaving' = [leaving EXCEPT ![g] = {}]
  BY NothingIsCleaned DEF load
<1>3. modelDatas[g] \in Seq(Model) BY DEF ManagersOK, ManagerTypeOK
<1>4. Append(modelDatas[g], n) \in Seq(Model)
      /\ ToSet(Append(modelDatas[g], n)) = ToSet(modelDatas[g]) \cup {n}
  BY <1>3, Appended
<1>5. ManagerTypeOK'
  <2>1. modelDatas' \in [Manager -> Seq(Model)] BY <1>1, <1>4 DEF ManagersOK, ManagerTypeOK
  <2>2. allocated' \in [Manager -> SUBSET Model] BY <1>1 DEF ManagersOK, ManagerTypeOK
  <2>3. leaving' \in [Manager -> SUBSET Model] /\ readOnly' \in [Manager -> SUBSET Model]
    BY <1>2 DEF ManagersOK, ManagerTypeOK
  <2>4. rows' \in [Manager -> [Model -> Nat]] BY <1>1 DEF ManagersOK, ManagerTypeOK
  <2> QED BY <1>1, <2>1, <2>2, <2>3, <2>4 DEF ManagersOK, ManagerTypeOK, dataVars
<1>6. /\ leaving'[g] = {} /\ modelDatas'[g] = Append(modelDatas[g], n)
      /\ allocated'[g] = allocated[g] \cup {n}
      /\ \A h \in Manager \ {g} : /\ leaving'[h] = leaving[h] /\ modelDatas'[h] = modelDatas[h]
                                  /\ allocated'[h] = allocated[h]
  BY <1>1, <1>2 DEF ManagersOK, ManagerTypeOK
<1>7. Others(g) BY <1>1, <1>6 DEF Others
<1>8. ManagerOK(g)' BY <1>1, <1>4, <1>6 DEF ManagersOK, ManagerOK
<1>9. ASSUME NEW net \in Net, Stays(net) PROVE Stays(net)'
  <2>1. net[1] \in Manager BY DEF Net
  <2> QED BY <1>4, <1>6, <1>9, <2>1 DEF Stays, hasModel
<1>10. Stays(<<g, n>>)' BY <1>4, <1>6 DEF Stays, hasModel
<1> QED BY <1>1, <1>5, <1>7, <1>8, <1>9, <1>10, OnlyManager DEF AllStay

\* Acquiring a net that stays counts it once more.
LEMMA AcquireKeeps ==
  ASSUME ManagersOK, NEW g \in Manager, NEW n \in Model, acquire(g, n)
  PROVE  /\ ManagersOK' /\ UNCHANGED <<leaving, modelDatas, destructorPc>> /\ Stays(<<g, n>>)
         /\ acquireCount' = [acquireCount EXCEPT ![g][n] = @ + 1]
<1>1. /\ leaving[g] = {} /\ hasModel(g, n)
      /\ acquireCount' = [acquireCount EXCEPT ![g][n] = @ + 1]
      /\ UNCHANGED <<modelDatas, allocated, leaving, withWriters, dataVars, readOnly, writerPc,
                     numDataWriteLoopsActive, rowVars, destructorPc>>
  BY DEF acquire, MutexFree
<1>2. acquireCount' \in [Manager -> [Model -> Nat]] BY <1>1 DEF ManagersOK, ManagerTypeOK
<1>3. ManagerTypeOK' BY <1>1, <1>2 DEF ManagersOK, ManagerTypeOK, dataVars, rowVars
<1>4. \A h \in Manager : ManagerOK(h)' BY <1>1 DEF ManagersOK, ManagerOK
<1> QED BY <1>1, <1>3, <1>4 DEF ManagersOK, Stays

\* Releasing a net counts it once less, and unloads nothing without AutoCleanup.
LEMMA ReleaseKeeps ==
  ASSUME ManagersOK, NEW g \in Manager, NEW n \in Model, release(g, n), Stays(<<g, n>>),
         acquireCount[g][n] > 0
  PROVE  /\ ManagersOK' /\ UNCHANGED <<leaving, modelDatas, destructorPc>>
         /\ acquireCount' = [acquireCount EXCEPT ![g][n] = @ - 1]
<1>1. leaving[g] = {} /\ hasModel(g, n) BY DEF release, MutexFree, Stays
<1>2. /\ acquireCount' = [acquireCount EXCEPT ![g] = [acquireCount[g] EXCEPT ![n] = @ - 1]]
      /\ Unload(g, {})
      /\ UNCHANGED <<modelDatas, allocated, withWriters, dataVars, writerPc, numDataWriteLoopsActive,
                     rowVars, destructorPc>>
  BY <1>1, NothingIsCleaned DEF release
<1>3. leaving' = leaving /\ readOnly' = readOnly
  BY <1>1, <1>2 DEF Unload, ManagersOK, ManagerTypeOK
<1>4. acquireCount' = [acquireCount EXCEPT ![g][n] = @ - 1] BY <1>2
<1>5. acquireCount[g][n] - 1 \in Nat /\ acquireCount \in [Manager -> [Model -> Nat]]
  BY DEF ManagersOK, ManagerTypeOK
<1>6. acquireCount' \in [Manager -> [Model -> Nat]] BY <1>4, <1>5
<1>7. ManagerTypeOK' BY <1>2, <1>3, <1>6 DEF ManagersOK, ManagerTypeOK, dataVars, rowVars
<1>8. \A h \in Manager : ManagerOK(h)' BY <1>2, <1>3 DEF ManagersOK, ManagerOK
<1> QED BY <1>2, <1>3, <1>4, <1>7, <1>8 DEF ManagersOK

\* The end of unloading: what leaves is erased and, without a writer, deleted.
LEMMA EraseKeeps ==
  ASSUME ManagersOK, NEW g \in Manager, Erases(g)
  PROVE  /\ ManagersOK' /\ UNCHANGED <<acquireCount, destructorPc>> /\ AllStay
<1>1. /\ totalNumRowsProcessed' =
           [totalNumRowsProcessed EXCEPT ![g] = @ + SumOver(rows[g], leaving[g])]
      /\ allocated' = [allocated EXCEPT ![g] = {n \in @ : n \in leaving[g] => writerPc[g][n] # "none"}]
      /\ modelDatas' = [modelDatas EXCEPT ![g] = Kept(@, leaving[g])]
      /\ leaving' = [leaving EXCEPT ![g] = {}]
      /\ UNCHANGED <<acquireCount, withWriters, dataVars, readOnly, writerPc,
                     numDataWriteLoopsActive, rows, destructorPc>>
  <2>1. totalNumRowsProcessed' =
           [totalNumRowsProcessed EXCEPT ![g] = @ + SumOver(rows[g], leaving[g])]
    BY DEF Erases, SumOver
  <2>2. Without(modelDatas[g], leaving[g]) = Kept(modelDatas[g], leaving[g]) BY DEF Without, Kept
  <2>3. modelDatas' = [modelDatas EXCEPT ![g] = Kept(@, leaving[g])] BY <2>2 DEF Erases
  <2> QED BY <2>1, <2>3 DEF Erases
<1>2. SumOver(rows[g], leaving[g]) \in Nat
  <2>1. \A n \in leaving[g] : rows[g][n] \in Nat
    BY LeavingIsFinite DEF ManagersOK, ManagerTypeOK
  <2> QED BY <2>1, LeavingIsFinite, SumStep
<1>3. modelDatas[g] \in Seq(Model) BY DEF ManagersOK, ManagerTypeOK
<1>4. Kept(modelDatas[g], leaving[g]) \in Seq(Model)
      /\ ToSet(Kept(modelDatas[g], leaving[g])) = ToSet(modelDatas[g]) \ leaving[g]
  BY <1>3, KeptIs
<1>5. ManagerTypeOK'
  <2>1. modelDatas' \in [Manager -> Seq(Model)] BY <1>1, <1>4 DEF ManagersOK, ManagerTypeOK
  <2>2. allocated' \in [Manager -> SUBSET Model] BY <1>1 DEF ManagersOK, ManagerTypeOK
  <2>3. leaving' \in [Manager -> SUBSET Model] BY <1>1 DEF ManagersOK, ManagerTypeOK
  <2>4. totalNumRowsProcessed' \in [Manager -> Nat] BY <1>1, <1>2 DEF ManagersOK, ManagerTypeOK
  <2> QED BY <1>1, <2>1, <2>2, <2>3, <2>4 DEF ManagersOK, ManagerTypeOK, dataVars
<1>6. /\ leaving'[g] = {} /\ modelDatas'[g] = Kept(modelDatas[g], leaving[g])
      /\ allocated'[g] = {n \in allocated[g] : n \in leaving[g] => writerPc[g][n] # "none"}
      /\ \A h \in Manager \ {g} : /\ leaving'[h] = leaving[h] /\ modelDatas'[h] = modelDatas[h]
                                  /\ allocated'[h] = allocated[h]
  BY <1>1 DEF ManagersOK, ManagerTypeOK
<1>7. Others(g) BY <1>1, <1>6 DEF Others
<1>8. ToSet(modelDatas'[g]) = ToSet(modelDatas[g]) \ leaving[g] BY <1>4, <1>6
<1>9. ManagerOK(g)'
  <2>1. allocated'[g] = ToSet(modelDatas'[g])
    BY <1>6, <1>8, LeavingIsFinite DEF ManagersOK, ManagerOK
  <2>2. destructorPc[g] # "none" => leaving'[g] = ToSet(modelDatas'[g])
    BY <1>6, <1>8 DEF ManagersOK, ManagerOK
  <2>3. destructorPc[g] \in {"asleep", "done"} => FALSE
    <3>1. ASSUME modelDatas[g] = <<>> PROVE ToSet(modelDatas[g]) = {} BY <3>1 DEF ToSet
    <3>2. leaving[g] # {} /\ leaving[g] \subseteq ToSet(modelDatas[g])
      BY DEF Erases, ManagersOK, ManagerOK
    <3> QED BY <3>1, <3>2 DEF ManagersOK, ManagerOK
  <2>4. writerPc'[g] = writerPc[g] /\ numDataWriteLoopsActive'[g] = numDataWriteLoopsActive[g]
        /\ destructorPc'[g] = destructorPc[g]
    BY <1>1
  <2> QED BY <1>6, <2>1, <2>2, <2>3, <2>4 DEF ManagersOK, ManagerOK
<1>10. ASSUME NEW net \in Net, Stays(net) PROVE Stays(net)'
  <2>1. net[1] \in Manager BY DEF Net
  <2> QED BY <1>6, <1>8, <1>10, <2>1 DEF Stays, hasModel
<1> QED BY <1>1, <1>5, <1>7, <1>9, <1>10, OnlyManager DEF AllStay

\* What an upload of data does to the manager.
LEMMA UploadKeeps ==
  ASSUME ManagersOK, NEW g \in Manager, NEW n,
         withDataWriters(g, n) \/ withDataWritersReturns(g)
  PROVE  /\ ManagersOK' /\ UNCHANGED <<acquireCount, leaving, modelDatas, destructorPc>>
<1>1. /\ \E b \in BOOLEAN : withWriters' = [withWriters EXCEPT ![g] = b]
      /\ UNCHANGED <<modelDatas, acquireCount, allocated, leaving, dataVars, readOnly,
                     writerPc, numDataWriteLoopsActive, rowVars, destructorPc>>
  BY DEF withDataWriters, withDataWritersReturns
<1>2. ManagerTypeOK' BY <1>1 DEF ManagersOK, ManagerTypeOK, dataVars, rowVars
<1>3. \A h \in Manager : ManagerOK(h)' BY <1>1 DEF ManagersOK, ManagerOK
<1> QED BY <1>1, <1>2, <1>3 DEF ManagersOK

\* The destructor marks all nets, of which nobody uses one.
LEMMA DestroyKeeps ==
  ASSUME ManagersOK, NEW g \in Manager, Destroys(g)
  PROVE  /\ ManagersOK' /\ UNCHANGED acquireCount /\ destructorPc[g] = "none"
         /\ destructorPc' = [destructorPc EXCEPT ![g] = "wait"]
         /\ \A net \in Net : Stays(net) /\ net[1] # g => Stays(net)'
<1>1. /\ destructorPc[g] = "none" /\ leaving[g] = {}
      /\ readOnly' = [readOnly EXCEPT ![g] = @ \cup ToSet(modelDatas[g])]
      /\ leaving' = [leaving EXCEPT ![g] = ToSet(modelDatas[g])]
      /\ destructorPc' = [destructorPc EXCEPT ![g] = "wait"]
      /\ UNCHANGED <<modelDatas, acquireCount, allocated, withWriters, dataVars, writerPc,
                     numDataWriteLoopsActive, rowVars>>
  BY DEF Destroys, MutexFree, Unload
<1>2. ToSet(modelDatas[g]) \subseteq Model BY LeavingIsFinite
<1>3. ManagerTypeOK'
  <2>1. leaving' \in [Manager -> SUBSET Model] /\ readOnly' \in [Manager -> SUBSET Model]
        /\ destructorPc' \in [Manager -> {"none", "wait", "asleep", "done"}]
    BY <1>1, <1>2 DEF ManagersOK, ManagerTypeOK
  <2> QED BY <1>1, <2>1 DEF ManagersOK, ManagerTypeOK, dataVars, rowVars
<1>4. /\ leaving'[g] = ToSet(modelDatas[g]) /\ destructorPc'[g] = "wait"
      /\ \A h \in Manager \ {g} : leaving'[h] = leaving[h] /\ destructorPc'[h] = destructorPc[h]
  BY <1>1 DEF ManagersOK, ManagerTypeOK
<1>5. Others(g) BY <1>1, <1>4 DEF Others
<1>6. ManagerOK(g)' BY <1>1, <1>4 DEF ManagersOK, ManagerOK
<1>7. ASSUME NEW net \in Net, Stays(net), net[1] # g PROVE Stays(net)'
  <2>1. net[1] \in Manager BY DEF Net
  <2> QED BY <1>1, <1>4, <1>7, <2>1 DEF Stays, hasModel
<1> QED BY <1>1, <1>3, <1>5, <1>6, <1>7, OnlyManager

\* No writer is waited for.
LEMMA WaitKeeps ==
  ASSUME ManagersOK, NEW g \in Manager, DestructorWaits(g)
  PROVE  /\ ManagersOK' /\ UNCHANGED <<acquireCount, leaving, modelDatas>> /\ destructorPc[g] = "wait"
         /\ destructorPc' = [destructorPc EXCEPT ![g] = "done"]
<1>1. /\ destructorPc[g] = "wait" /\ leaving[g] = {}
      /\ destructorPc' = [destructorPc EXCEPT ![g] = "done"]
      /\ UNCHANGED <<modelDatas, acquireCount, allocated, leaving, withWriters, dataVars, readOnly,
                     writerPc, numDataWriteLoopsActive, rowVars>>
  BY DEF DestructorWaits, MutexFree, ManagersOK, ManagerOK
<1>2. ManagerTypeOK'
  <2>1. destructorPc' \in [Manager -> {"none", "wait", "asleep", "done"}]
    BY <1>1 DEF ManagersOK, ManagerTypeOK
  <2> QED BY <1>1, <2>1 DEF ManagersOK, ManagerTypeOK, dataVars, rowVars
<1>3. destructorPc'[g] = "done" /\ \A h \in Manager \ {g} : destructorPc'[h] = destructorPc[h]
  BY <1>1 DEF ManagersOK, ManagerTypeOK
<1>4. Others(g) BY <1>1, <1>3 DEF Others
<1>5. modelDatas[g] = <<>>
  <2>1. ToSet(modelDatas[g]) = {} BY <1>1 DEF ManagersOK, ManagerOK
  <2>2. modelDatas[g] \in Seq(Model) BY DEF ManagersOK, ManagerTypeOK
  <2>3. modelDatas[g] # <<>> => modelDatas[g][1] \in ToSet(modelDatas[g])
    <3>1. modelDatas[g] # <<>> => 1 \in DOMAIN modelDatas[g] BY <2>2
    <3> QED BY <3>1 DEF ToSet
  <2> QED BY <2>1, <2>3
<1>6. ManagerOK(g)' BY <1>1, <1>3, <1>5 DEF ManagersOK, ManagerOK
<1> QED BY <1>1, <1>2, <1>4, <1>6, OnlyManager

\* A step that leaves the managers alone.
LEMMA ManagersRest ==
  ASSUME ManagersOK, UNCHANGED managerVars
  PROVE  /\ ManagersOK' /\ UNCHANGED <<acquireCount, leaving, modelDatas, destructorPc>>
<1>1. ManagerTypeOK' BY DEF ManagersOK, ManagerTypeOK, managerVars, dataVars, rowVars
<1>2. \A h \in Manager : ManagerOK(h)' BY DEF ManagersOK, ManagerOK, managerVars
<1> QED BY <1>1, <1>2 DEF ManagersOK, managerVars

\* If the lists of the managers do not change, what stays still stays.
LEMMA SameStay ==
  ASSUME NEW net, UNCHANGED <<leaving, modelDatas>>
  PROVE  Stays(net)' <=> Stays(net)
BY DEF Stays, hasModel

-----------------------------------------------------------------------------
(* What the workers refer to.                                              *)

\* 1 for true, 0 for false.
One(b) == IF b THEN 1 ELSE 0

\* How often a worker does who is at at, with nets own and with the GameTask gt.
Bears(at, own, gt, net) ==
    IF at = "acquireWhite" THEN One(own[1] = net)
    ELSE IF at \notin Carrying \ {"uncount"} THEN 0
    ELSE IF at = "releaseWhite" THEN One(gt.nets[2] = net)
    ELSE One(gt.nets[1] = net) + One(gt.nets[2] = net)

\* How often the task in the queue does.
Queued(queue, net) ==
    IF queue = <<>> THEN 0
    ELSE One(Head(queue).nets[1] = net) + One(Head(queue).nets[2] = net)

\* One element more or less is counted.
LEMMA OneMember ==
  ASSUME NEW S, IsFiniteSet(S), NEW A \in SUBSET S, NEW B \in SUBSET S, NEW w, A \ {w} = B \ {w}
  PROVE  /\ Cardinality(A) \in Nat /\ Cardinality(B) \in Nat
         /\ Cardinality(B) + (IF w \in A THEN 1 ELSE 0) = Cardinality(A) + (IF w \in B THEN 1 ELSE 0)
<1> DEFINE C == A \ {w}
<1>1. IsFiniteSet(A) /\ IsFiniteSet(B) /\ IsFiniteSet(C) BY FS_Subset
<1>2. Cardinality(A) \in Nat /\ Cardinality(B) \in Nat /\ Cardinality(C) \in Nat
  BY <1>1, FS_CardinalityType
<1>3. ASSUME NEW T, IsFiniteSet(T), T \ {w} = C
      PROVE  Cardinality(T) = Cardinality(C) + (IF w \in T THEN 1 ELSE 0)
  <2> HIDE DEF C
  <2>1. CASE w \in T
    <3>1. Cardinality(C) = Cardinality(T) - 1 /\ Cardinality(T) \in Nat
      BY <1>3, <2>1, FS_RemoveElement, FS_CardinalityType
    <3> QED BY <1>2, <2>1, <3>1
  <2>2. CASE w \notin T
    <3>1. T = C BY <1>3, <2>2
    <3> QED BY <1>2, <2>2, <3>1
  <2> QED BY <2>1, <2>2
<1> HIDE DEF C
<1>4. Cardinality(A) = Cardinality(C) + (IF w \in A THEN 1 ELSE 0) BY <1>1, <1>3 DEF C
<1>5. Cardinality(B) = Cardinality(C) + (IF w \in B THEN 1 ELSE 0) BY <1>1, <1>3 DEF C
<1> QED BY <1>2, <1>4, <1>5

\* The uses of the nets of a task, counted one by one.
LEMMA UsesAre ==
  ASSUME NEW gt, NEW net
  PROVE  /\ Uses(gt, 2, net) = One(gt.nets[2] = net)
         /\ Uses(gt, 1, net) = One(gt.nets[1] = net) + One(gt.nets[2] = net)
<1> DEFINE S == 1..2
           A == {i \in 1..2 : gt.nets[i] = net}
           B == {i \in 2..2 : gt.nets[i] = net}
<1>1. IsFiniteSet(S) /\ A \in SUBSET S /\ B \in SUBSET S
  <2>1. IsFiniteSet(S)
    <3>1. 1 \in Int /\ 2 \in Int OBVIOUS
    <3> QED BY <3>1, FS_Interval, Zenon
  <2>2. A \in SUBSET S /\ B \in SUBSET S OBVIOUS
  <2> QED BY <2>1, <2>2
<1>2. B = IF gt.nets[2] = net THEN {2} ELSE {} OBVIOUS
<1>3. A \ {1} = B \ {1} /\ 1 \notin B /\ (1 \in A <=> gt.nets[1] = net)
  <2>1. 1..2 = {1, 2} /\ 2..2 = {2} OBVIOUS
  <2> QED BY <2>1
<1>4. Cardinality(B) = One(gt.nets[2] = net)
  <2>1. Cardinality({2}) = 1 /\ Cardinality({}) = 0 BY FS_Singleton, FS_EmptySet
  <2> HIDE DEF B
  <2> QED BY <1>2, <2>1 DEF One
<1> HIDE DEF A, B, S
<1>5. /\ Cardinality(A) \in Nat /\ Cardinality(B) \in Nat
      /\ Cardinality(B) + (IF 1 \in A THEN 1 ELSE 0) = Cardinality(A) + (IF 1 \in B THEN 1 ELSE 0)
  BY <1>1, <1>3, OneMember
<1>6. Cardinality(A) = One(gt.nets[1] = net) + Cardinality(B) BY <1>3, <1>5 DEF One
<1> QED BY <1>4, <1>6 DEF Uses, A, B

\* A worker is a task loop or a game thread, and not both.
LEMMA WorkersAre ==
  /\ IsFiniteSet(Worker) /\ Loop \subseteq Worker /\ GameThread \subseteq Worker
  /\ \A w \in Worker : (w \in Loop) # (w \in GameThread)
BY ContributeAssumption DEF Worker

\* What a worker has to be like for its references to be as Bears counts them.
Counts(w) == HandOK(w) /\ (w \in GameThread => GameOK(w))

\* They are, before a step and after it.
LEMMA InHandIs ==
  ASSUME NEW w \in Worker, NEW net
  PROVE  /\ Counts(w) => InHand(net)[w] = Bears(pc[w], nets[w], gameTask[w], net)
         /\ (Counts(w) => InHand(net)[w] = Bears(pc[w], nets[w], gameTask[w], net))'
<1>1. Counts(w) => InHand(net)[w] = Bears(pc[w], nets[w], gameTask[w], net)
  <2> SUFFICES ASSUME Counts(w) PROVE InHand(net)[w] = Bears(pc[w], nets[w], gameTask[w], net)
    OBVIOUS
  <2>1. w \in Loop \/ pc[w] \in GamePcs BY WorkersAre DEF Counts, GameOK
  <2>2. /\ Uses(gameTask[w], 2, net) = One(gameTask[w].nets[2] = net)
        /\ Uses(gameTask[w], 1, net) = One(gameTask[w].nets[1] = net) + One(gameTask[w].nets[2] = net)
    BY UsesAre
  <2> QED BY <2>1, <2>2 DEF Counts, HandOK, InHand, Bears, One, Carrying, GamePcs
<1> QED BY <1>1, PTL

\* The references are those in the hands and those of the queue.
LEMMA ReferencesAre ==
  ASSUME NEW g, NEW n
  PROVE  /\ References(g, n) = SumOver(InHand(<<g, n>>), Worker) + Queued(gameTaskQueue, <<g, n>>)
         /\ References(g, n)' = SumOver(InHand(<<g, n>>)', Worker) + Queued(gameTaskQueue', <<g, n>>)
<1>1. \A queue, net : (IF queue = <<>> THEN 0 ELSE Uses(Head(queue), 1, net)) = Queued(queue, net)
  BY UsesAre DEF Queued
<1>2. References(g, n) = SumOver(InHand(<<g, n>>), Worker) + Queued(gameTaskQueue, <<g, n>>)
  BY <1>1 DEF References, SumOver
<1>3. (References(g, n) = SumOver(InHand(<<g, n>>), Worker) + Queued(gameTaskQueue, <<g, n>>))'
  BY <1>2, PTL
<1> QED BY <1>2, <1>3

\* They are numbers.
LEMMA BearsNat ==
  \A at, own, gt, net : Bears(at, own, gt, net) \in Nat
BY DEF Bears, One

-----------------------------------------------------------------------------
(* The step of one worker.                                                 *)

\* What all workers are like.
WorkersOK == (\A t \in GameThread : GameOK(t)) /\ (\A w \in Worker : HandOK(w))

\* Only worker w moves, and takes the mutex only if it is free.
OnlyWorker(w) ==
    /\ \A v \in Worker \ {w} : pc'[v] = pc[v] /\ gameTask'[v] = gameTask[v]
    /\ \A l \in Loop \ {w} : task'[l] = task[l] /\ nets'[l] = nets[l]
    /\ taskLoopMutex' = taskLoopMutex \/ {taskLoopMutex, taskLoopMutex'} \subseteq {w, NoOne}

\* What w refers to.
Bearing(w, net) == Bears(pc[w], nets[w], gameTask[w], net)

\* When one worker moves, the references change by what it and the queue refer to.
LEMMA ReferencesMove ==
  ASSUME WorkersOK, WorkersOK', NEW w \in Worker, OnlyWorker(w), NEW g, NEW n
  PROVE  /\ References(g, n) \in Nat /\ References(g, n)' \in Nat
         /\ References(g, n)' + Bearing(w, <<g, n>>) + Queued(gameTaskQueue, <<g, n>>)
              = References(g, n) + Bearing(w, <<g, n>>)' + Queued(gameTaskQueue', <<g, n>>)
<1> DEFINE net == <<g, n>>
           f == InHand(net)
           e == InHand(net)'
           R == Worker \ {w}
<1>1. IsFiniteSet(Worker) /\ IsFiniteSet(R) /\ R \subseteq Worker
  BY WorkersAre, FS_Subset
<1>2. \A v \in Worker : Counts(v) /\ Counts(v)' BY DEF WorkersOK, Counts
<1>3. \A v \in Worker : f[v] = Bears(pc[v], nets[v], gameTask[v], net) BY <1>2, InHandIs
<1>4. \A v \in Worker : e[v] = Bears(pc'[v], nets'[v], gameTask'[v], net) BY <1>2, InHandIs
<1>5. \A v \in R : e[v] = f[v]
  <2> SUFFICES ASSUME NEW v \in R PROVE e[v] = f[v] OBVIOUS
  <2>1. pc'[v] = pc[v] /\ gameTask'[v] = gameTask[v] /\ (v \in Loop => nets'[v] = nets[v])
    BY WorkersAre DEF OnlyWorker
  <2>2. v \in Loop \/ pc[v] # "acquireWhite"
    BY WorkersAre DEF WorkersOK, GameOK, GamePcs
  <2>3. Bears(pc'[v], nets'[v], gameTask'[v], net) = Bears(pc[v], nets[v], gameTask[v], net)
    BY <2>1, <2>2 DEF Bears
  <2>4. f[v] = Bears(pc[v], nets[v], gameTask[v], net) BY <1>3
  <2>5. e[v] = Bears(pc'[v], nets'[v], gameTask'[v], net) BY <1>4
  <2> HIDE DEF f, e
  <2> QED BY <2>3, <2>4, <2>5
<1>6. \A v \in Worker : f[v] \in Nat /\ e[v] \in Nat
  <2> HIDE DEF f, e
  <2> QED BY <1>3, <1>4, BearsNat
<1>7. f[w] = Bearing(w, net) /\ e[w] = Bearing(w, net)'
  <2>1. f[w] = Bears(pc[w], nets[w], gameTask[w], net) BY <1>3
  <2>2. e[w] = Bears(pc'[w], nets'[w], gameTask'[w], net) BY <1>4
  <2> HIDE DEF f, e
  <2> QED BY <2>1, <2>2 DEF Bearing
<1>8. /\ References(g, n) = SumOver(f, Worker) + Queued(gameTaskQueue, net)
      /\ References(g, n)' = SumOver(e, Worker) + Queued(gameTaskQueue', net)
  BY ReferencesAre
<1>9. Queued(gameTaskQueue, net) \in Nat /\ Queued(gameTaskQueue', net) \in Nat
  BY DEF Queued, One
<1> HIDE DEF f, e, R, net
<1>10. /\ SumOver(f, Worker) \in Nat /\ SumOver(e, Worker) \in Nat
       /\ SumOver(f, Worker) = f[w] + SumOver(f, R) /\ SumOver(e, Worker) = e[w] + SumOver(e, R)
  BY <1>1, <1>6, SumStep DEF R
<1>11. SumOver(e, R) = SumOver(f, R) /\ SumOver(f, R) \in Nat
  <2>1. \A x \in R : f[x] \in Nat /\ e[x] = f[x] BY <1>1, <1>5, <1>6
  <2> QED BY <1>1, <2>1, SumOfSame, SumStep
<1>12. f[w] \in Nat /\ e[w] \in Nat BY <1>6
<1>13. /\ References(g, n) \in Nat /\ References(g, n)' \in Nat
       /\ References(g, n)' + f[w] + Queued(gameTaskQueue, net)
            = References(g, n) + e[w] + Queued(gameTaskQueue', net)
  BY <1>8, <1>9, <1>10, <1>11, <1>12
<1> QED BY <1>7, <1>13 DEF net

\* Whether a task in hand, or the one in the queue, is for a rating game.
RatingOf(gt) == IF gt # NoTask /\ gt.isRating THEN 1 ELSE 0
QueuedRating(queue) == IF queue # <<>> /\ Head(queue).isRating THEN 1 ELSE 0

\* When one worker moves, the rating games change by what it has in hand.
LEMMA RatingMoves ==
  ASSUME NEW w \in Worker, OnlyWorker(w)
  PROVE  /\ Cardinality(Rating) \in Nat /\ Cardinality(Rating') \in Nat
         /\ Cardinality(Rating') + RatingOf(gameTask[w])
              = Cardinality(Rating) + RatingOf(gameTask'[w])
<1>1. IsFiniteSet(Worker) /\ Rating \in SUBSET Worker /\ Rating' \in SUBSET Worker
  BY WorkersAre DEF Rating
<1>2. Rating \ {w} = Rating' \ {w} BY DEF Rating, OnlyWorker
<1>3. /\ RatingOf(gameTask[w]) = IF w \in Rating THEN 1 ELSE 0
      /\ RatingOf(gameTask'[w]) = IF w \in Rating' THEN 1 ELSE 0
  BY DEF Rating, RatingOf
<1>4. /\ Cardinality(Rating) \in Nat /\ Cardinality(Rating') \in Nat
      /\ Cardinality(Rating') + (IF w \in Rating THEN 1 ELSE 0)
           = Cardinality(Rating) + (IF w \in Rating' THEN 1 ELSE 0)
  BY <1>1, <1>2, OneMember
<1> QED BY <1>3, <1>4

\* What has to be shown of the step of a worker.
Balanced(w) ==
    /\ \A g \in Manager, n \in Model :
         /\ acquireCount'[g][n] + Bearing(w, <<g, n>>) + Queued(gameTaskQueue, <<g, n>>)
              = acquireCount[g][n] + Bearing(w, <<g, n>>)' + Queued(gameTaskQueue', <<g, n>>)
         /\ acquireCount'[g][n] > acquireCount[g][n] => Stays(<<g, n>>)'
    /\ numRatingGamesActive' + RatingOf(gameTask[w]) + QueuedRating(gameTaskQueue)
         = numRatingGamesActive + RatingOf(gameTask'[w])
           + QueuedRating(gameTaskQueue')

\* The sums are equal after the step because the changes are.
LEMMA StillEqual ==
  ASSUME NEW a \in Nat, NEW b \in Nat, NEW c \in Nat, NEW m \in Nat, NEW aa \in Nat, NEW bb \in Nat,
         NEW cc \in Nat, NEW mm \in Nat,
         a = b + c, aa + m + c = a + mm + cc, bb + m = b + mm
  PROVE  aa = bb + cc
OBVIOUS

\* The counter of the rating games moves with the tasks.
LEMMA RatingKeeps ==
  ASSUME NEW w \in Worker, OnlyWorker(w), RatingCounted,
         numRatingGamesActive \in Nat, numRatingGamesActive' \in Nat,
         numRatingGamesActive' + RatingOf(gameTask[w]) + QueuedRating(gameTaskQueue)
           = numRatingGamesActive + RatingOf(gameTask'[w]) + QueuedRating(gameTaskQueue')
  PROVE  RatingCounted'
<1>1. /\ Cardinality(Rating) \in Nat /\ Cardinality(Rating') \in Nat
      /\ Cardinality(Rating') + RatingOf(gameTask[w]) = Cardinality(Rating) + RatingOf(gameTask'[w])
  BY RatingMoves
<1>2. numRatingGamesActive = Cardinality(Rating) + QueuedRating(gameTaskQueue)
  BY DEF RatingCounted, QueuedRating
<1>3. /\ QueuedRating(gameTaskQueue) \in Nat /\ QueuedRating(gameTaskQueue') \in Nat
      /\ RatingOf(gameTask[w]) \in Nat /\ RatingOf(gameTask'[w]) \in Nat
  BY DEF QueuedRating, RatingOf
<1>4. numRatingGamesActive' = Cardinality(Rating') + QueuedRating(gameTaskQueue')
  BY <1>1, <1>2, <1>3, StillEqual
<1> QED BY <1>4 DEF RatingCounted, QueuedRating

\* The step of a worker that keeps its own part of the invariant and the balance keeps it all.
LEMMA WorkerKeeps ==
  ASSUME IInv, NEW w \in Worker, pc[w] # "exited", OnlyWorker(w), Types', ManagersOK',
         UNCHANGED <<mainPc, destructorPc, queueReadOnly>>,
         w \in Loop => LoopOK(w)', w \in GameThread => GameOK(w)', HandOK(w)',
         ~queueReadOnly \/ gameTaskQueue' = gameTaskQueue \/ gameTaskQueue' = <<>>,
         \A net \in Net : Stays(net) =>
            Stays(net)' \/ (w \in Loop /\ pc[w] \in Holding /\ acquireCount[net[1]][net[2]] = 0),
         Balanced(w)
  PROVE  IInv'
<1>1. /\ \A g \in Manager : ManagerOK(g)
      /\ \A l \in Loop : LoopOK(l)
      /\ \A t \in GameThread : GameOK(t)
      /\ \A v \in Worker : HandOK(v)
      /\ \A g \in Manager, n \in Model : Counted(g, n)
      /\ RatingCounted /\ Phases /\ Types
  BY DEF IInv
<1>2. ASSUME NEW l \in Loop PROVE LoopOK(l)'
  <2>1. CASE l = w BY <2>1
  <2>2. CASE l # w
    <3>1. pc'[l] = pc[l] /\ task'[l] = task[l] /\ nets'[l] = nets[l] /\ l \in Worker
      BY <2>2, WorkersAre DEF OnlyWorker
    <3>2. LoopOK(l) BY <1>1
    <3>3. taskLoopMutex' = l <=> taskLoopMutex = l
      BY <2>2, ContributeAssumption DEF OnlyWorker
    <3>4. pc[l] \in Holding => ~(w \in Loop /\ pc[w] \in Holding)
      BY <1>1, <2>2, <3>2 DEF LoopOK
    <3>5. ASSUME NEW i \in 1..2, pc[l] \in HasNets, pc[l] \in Holding, Stays(nets[l][i])
          PROVE  Stays(nets[l][i])'
      <4>1. nets[l] \in Net \X Net BY <3>2, <3>5 DEF LoopOK
      <4>2. nets[l][i] \in Net
        <5>1. i = 1 \/ i = 2 OBVIOUS
        <5> QED BY <4>1, <5>1
      <4>3. PICK net \in Net : net = nets[l][i] BY <4>2
      <4>4. Stays(net) BY <3>5, <4>3
      <4>5. Stays(net)' BY <3>4, <3>5, <4>4
      <4> QED BY <3>1, <4>3, <4>5 DEF Stays
    <3>6. {"loadWhite", "loaded", "acquireBlack", "acquireWhite", "push"} \subseteq HasNets \cap Holding
      BY DEF HasNets, Holding, HasTask
    <3>7. /\ pc[l] \in {"loadWhite", "loaded", "acquireBlack", "acquireWhite", "push"} => Stays(nets[l][1])'
          /\ pc[l] \in {"loaded", "acquireBlack", "acquireWhite", "push"} => Stays(nets[l][2])'
      <4>1. 1 \in 1..2 /\ 2 \in 1..2 OBVIOUS
      <4>2. pc[l] \in {"loadWhite", "loaded", "acquireBlack", "acquireWhite", "push"} => Stays(nets[l][1])'
        BY <3>2, <3>5, <3>6, <4>1 DEF LoopOK
      <4>3. pc[l] \in {"loaded", "acquireBlack", "acquireWhite", "push"} => Stays(nets[l][2])'
        BY <3>2, <3>5, <3>6, <4>1 DEF LoopOK
      <4> QED BY <4>2, <4>3
    <3> QED BY <3>1, <3>2, <3>3, <3>7 DEF LoopOK
  <2> QED BY <2>1, <2>2
<1>3. ASSUME NEW t \in GameThread PROVE GameOK(t)'
  <2>1. CASE t = w BY <2>1
  <2>2. CASE t # w
    <3>1. pc'[t] = pc[t] BY <2>2, WorkersAre DEF OnlyWorker
    <3>2. queueReadOnly /\ gameTaskQueue = <<>> => gameTaskQueue' = <<>> OBVIOUS
    <3> QED BY <1>1, <3>1, <3>2 DEF GameOK
  <2> QED BY <2>1, <2>2
<1>4. ASSUME NEW v \in Worker PROVE HandOK(v)'
  BY <1>1 DEF HandOK, OnlyWorker
<1>5. WorkersOK /\ WorkersOK' BY <1>1, <1>3, <1>4 DEF WorkersOK
<1>6. ASSUME NEW g \in Manager, NEW n \in Model PROVE Counted(g, n)'
  <2>1. acquireCount[g][n] \in Nat /\ acquireCount'[g][n] \in Nat
    BY <1>1 DEF Types, TypeOK, ManagersOK, ManagerTypeOK
  <2>2. Bearing(w, <<g, n>>) \in Nat /\ Bearing(w, <<g, n>>)' \in Nat BY BearsNat DEF Bearing
  <2>3. Queued(gameTaskQueue, <<g, n>>) \in Nat /\ Queued(gameTaskQueue', <<g, n>>) \in Nat
    BY DEF Queued, One
  <2>4. acquireCount'[g][n] = References(g, n)'
    <3>1. acquireCount[g][n] = References(g, n) BY <1>1 DEF Counted
    <3>2. /\ References(g, n) \in Nat /\ References(g, n)' \in Nat
          /\ References(g, n)' + Bearing(w, <<g, n>>) + Queued(gameTaskQueue, <<g, n>>)
               = References(g, n) + Bearing(w, <<g, n>>)' + Queued(gameTaskQueue', <<g, n>>)
      BY <1>5, ReferencesMove
    <3>3. acquireCount'[g][n] + Bearing(w, <<g, n>>) + Queued(gameTaskQueue, <<g, n>>)
              = acquireCount[g][n] + Bearing(w, <<g, n>>)' + Queued(gameTaskQueue', <<g, n>>)
      BY DEF Balanced
    <3> QED BY <2>1, <2>2, <2>3, <3>1, <3>2, <3>3
  <2>5. acquireCount'[g][n] > 0 => Stays(<<g, n>>)'
    <3>1. CASE acquireCount'[g][n] > acquireCount[g][n] BY <3>1 DEF Balanced
    <3>2. CASE ~(acquireCount'[g][n] > acquireCount[g][n]) /\ acquireCount'[g][n] > 0
      <4>1. acquireCount[g][n] > 0 BY <2>1, <3>2
      <4>2. Stays(<<g, n>>) /\ acquireCount[g][n] # 0 BY <1>1, <2>1, <4>1 DEF Counted
      <4>3. PICK net \in Net : net = <<g, n>> BY DEF Net
      <4>4. Stays(net) /\ acquireCount[net[1]][net[2]] # 0 BY <4>2, <4>3
      <4>5. Stays(net)' BY <4>4
      <4> QED BY <4>3, <4>5
    <3> QED BY <3>1, <3>2
  <2> QED BY <2>4, <2>5 DEF Counted
<1>7. RatingCounted' BY <1>1, RatingKeeps DEF Types, TypeOK, Balanced
<1>8. Phases'
  <2>1. (\A l \in Loop : pc[l] = "exited") => w \notin Loop /\ \A l \in Loop : pc'[l] = "exited"
    BY WorkersAre DEF OnlyWorker
  <2>2. (\A t \in GameThread : pc[t] = "exited") =>
           w \notin GameThread /\ \A t \in GameThread : pc'[t] = "exited"
    BY WorkersAre DEF OnlyWorker
  <2> QED BY <1>1, <2>1, <2>2 DEF Phases
<1>9. \A g \in Manager : ManagerOK(g)' BY DEF ManagersOK
<1> QED BY <1>2, <1>3, <1>4, <1>6, <1>7, <1>8, <1>9 DEF IInv

\* A worker goes on with the same GameTask, or without one, and nothing is
\* acquired or released.
LEMMA SameTask ==
  ASSUME IInv, NEW w \in Worker, pc[w] # "exited", OnlyWorker(w), Types', gameTask'[w] = gameTask[w],
         ManagersOK', UNCHANGED <<acquireCount, destructorPc, queueVars, numRatingGamesActive, mainPc>>,
         w \in Loop => LoopOK(w)', w \in GameThread => GameOK(w)',
         \A net \in Net : Stays(net) =>
            Stays(net)' \/ (w \in Loop /\ pc[w] \in Holding /\ acquireCount[net[1]][net[2]] = 0),
         \/ {pc[w], pc'[w]} \cap (Carrying \cup {"acquireWhite"}) = {}
         \/ {pc[w], pc'[w]} \subseteq Carrying \ {"releaseWhite", "uncount"}
  PROVE  IInv'
<1>1. HandOK(w)' BY DEF IInv, HandOK
<1>2. ASSUME NEW net PROVE Bearing(w, net)' = Bearing(w, net) /\ Bearing(w, net) \in Nat
  BY BearsNat DEF Bearing, Bears, Carrying
<1>3. Balanced(w)
  <2>1. ASSUME NEW g \in Manager, NEW n \in Model
        PROVE  /\ acquireCount'[g][n] + Bearing(w, <<g, n>>) + Queued(gameTaskQueue, <<g, n>>)
                    = acquireCount[g][n] + Bearing(w, <<g, n>>)' + Queued(gameTaskQueue', <<g, n>>)
               /\ ~(acquireCount'[g][n] > acquireCount[g][n])
    <3>1. acquireCount'[g][n] = acquireCount[g][n] /\ acquireCount[g][n] \in Nat
      BY DEF IInv, Types, TypeOK, ManagerTypeOK
    <3>2. gameTaskQueue' = gameTaskQueue BY DEF queueVars
    <3> QED BY <1>2, <3>1, <3>2
  <2>2. numRatingGamesActive' + RatingOf(gameTask[w]) + QueuedRating(gameTaskQueue)
           = numRatingGamesActive + RatingOf(gameTask'[w]) + QueuedRating(gameTaskQueue')
    BY DEF queueVars
  <2> QED BY <2>1, <2>2 DEF Balanced
<1>4. UNCHANGED <<queueReadOnly, gameTaskQueue>> BY DEF queueVars
<1> QED BY <1>1, <1>3, <1>4, WorkerKeeps

\* It does not touch the managers.
LEMMA QuietStep ==
  ASSUME IInv, NEW w \in Worker, pc[w] # "exited", OnlyWorker(w), Types', gameTask'[w] = gameTask[w],
         UNCHANGED <<managerVars, queueVars, numRatingGamesActive, mainPc>>,
         w \in Loop => LoopOK(w)', w \in GameThread => GameOK(w)',
         \/ {pc[w], pc'[w]} \cap (Carrying \cup {"acquireWhite"}) = {}
         \/ {pc[w], pc'[w]} \subseteq Carrying \ {"releaseWhite", "uncount"}
  PROVE  IInv'
<1>1. ManagersOK' /\ UNCHANGED <<acquireCount, leaving, modelDatas, destructorPc>>
  BY ManagersRest DEF IInv, Types, TypeOK, ManagersOK
<1>2. \A net \in Net : Stays(net) => Stays(net)' BY <1>1, SameStay
<1> QED BY <1>1, <1>2, SameTask

\* No worker moves: a step of the main thread, of the user or of a manager.
LEMMA NobodyMoves ==
  ASSUME IInv, Types', ManagersOK', Phases',
         UNCHANGED <<loopVars, pc, gameTask, gameTaskQueue, numRatingGamesActive, acquireCount>>,
         queueReadOnly => queueReadOnly',
         \A net \in Net : Stays(net) =>
            Stays(net)' \/ ((\A l \in Loop : pc[l] = "exited") /\ acquireCount[net[1]][net[2]] = 0)
  PROVE  IInv'
<1>1. /\ \A l \in Loop : LoopOK(l)
      /\ \A t \in GameThread : GameOK(t)
      /\ \A v \in Worker : HandOK(v)
      /\ \A g \in Manager, n \in Model : Counted(g, n)
      /\ RatingCounted /\ Types
  BY DEF IInv
<1>2. ASSUME NEW l \in Loop PROVE LoopOK(l)'
  <2>1. pc'[l] = pc[l] /\ task'[l] = task[l] /\ nets'[l] = nets[l] /\ taskLoopMutex' = taskLoopMutex
    BY DEF loopVars
  <2>2. LoopOK(l) BY <1>1
  <2>3. ASSUME NEW i \in 1..2, pc[l] \in HasNets, pc[l] # "exited", Stays(nets[l][i])
        PROVE  Stays(nets[l][i])'
    <3>1. nets[l] \in Net \X Net BY <2>2, <2>3 DEF LoopOK
    <3>2. nets[l][i] \in Net
      <4>1. i = 1 \/ i = 2 OBVIOUS
      <4> QED BY <3>1, <4>1
    <3>3. PICK net \in Net : net = nets[l][i] BY <3>2
    <3>4. Stays(net) BY <2>3, <3>3
    <3>5. Stays(net)' BY <2>3, <3>4
    <3> QED BY <2>1, <3>3, <3>5 DEF Stays
  <2>4. /\ pc[l] \in {"loadWhite", "loaded", "acquireBlack", "acquireWhite", "push"} => Stays(nets[l][1])'
        /\ pc[l] \in {"loaded", "acquireBlack", "acquireWhite", "push"} => Stays(nets[l][2])'
    <3>1. 1 \in 1..2 /\ 2 \in 1..2 OBVIOUS
    <3>2. {"loadWhite", "loaded", "acquireBlack", "acquireWhite", "push"} \subseteq HasNets \ {"exited"}
      BY DEF HasNets
    <3> QED BY <2>2, <2>3, <3>1, <3>2 DEF LoopOK
  <2> QED BY <2>1, <2>2, <2>4 DEF LoopOK
<1>3. \A t \in GameThread : GameOK(t)' BY <1>1 DEF GameOK
<1>4. \A v \in Worker : HandOK(v)' BY <1>1 DEF HandOK
<1>5. ASSUME NEW g \in Manager, NEW n \in Model PROVE Counted(g, n)'
  <2>1. InHand(<<g, n>>)' = InHand(<<g, n>>) BY DEF InHand, loopVars
  <2>2. References(g, n)' = References(g, n) BY <2>1, ReferencesAre
  <2>3. acquireCount'[g][n] = References(g, n)' BY <1>1, <2>2 DEF Counted
  <2>4. ASSUME acquireCount'[g][n] > 0 PROVE Stays(<<g, n>>)'
    <3>1. PICK net \in Net : net = <<g, n>> BY DEF Net
    <3>2. Stays(net) /\ acquireCount[net[1]][net[2]] # 0
      <4>1. Stays(<<g, n>>) /\ acquireCount[g][n] # 0 BY <1>1, <2>4 DEF Counted
      <4> QED BY <3>1, <4>1
    <3> QED BY <3>1, <3>2
  <2> QED BY <2>3, <2>4 DEF Counted
<1>6. RatingCounted' BY <1>1 DEF RatingCounted, Rating
<1>7. \A g \in Manager : ManagerOK(g)' BY DEF ManagersOK
<1> QED BY <1>2, <1>3, <1>4, <1>5, <1>6, <1>7 DEF IInv

-----------------------------------------------------------------------------
(* What the steps of a task loop have in common.                           *)

\* The types of what a task loop changes.
LoopTypes ==
    /\ taskLoopMutex \in Loop \cup {NoOne} /\ numTasks \in 0..MaxTasks
    /\ pc \in [Worker -> LoopPcs \cup GamePcs]
    /\ task \in [Loop -> Asked \cup {NoTask}]
    /\ nets \in [Loop -> (Net \X Net) \cup {<<>>}]

\* The loop is somewhere else, and nobody else is.
LoopMoved(l) ==
    /\ LoopTypes' /\ LoopOK(l)'
    /\ \A v \in Worker \ {l} : pc'[v] = pc[v]
    /\ \A m \in Loop \ {l} : task'[m] = task[m] /\ nets'[m] = nets[m]
    /\ taskLoopMutex' = taskLoopMutex \/ {taskLoopMutex, taskLoopMutex'} \subseteq {l, NoOne}

\* Where a loop has its first net for sure, and where both.
WithOneNet == {"loadWhite", "loaded", "acquireBlack", "acquireWhite", "push"}
WithBothNets == {"loaded", "acquireBlack", "acquireWhite", "push"}

\* They are among the types.
LEMMA LoopTypesHold ==
  ASSUME Types
  PROVE  LoopTypes
BY DEF Types, TypeOK, LoopTypes

\* Only the worker that moves is somewhere else.
LEMMA Moves ==
  ASSUME Types, NEW w \in Worker, NEW next \in LoopPcs \cup GamePcs, Goto(w, next)
  PROVE  /\ pc' \in [Worker -> LoopPcs \cup GamePcs] /\ pc'[w] = next
         /\ \A v \in Worker \ {w} : pc'[v] = pc[v]
BY DEF Types, Goto

\* An iteration that ends gives up the mutex if this loop holds it.
LEMMA IterationEnds ==
  ASSUME IInv, NEW l \in Loop, NEW next \in {"top", "exited"}, EndsIteration(l, next),
         taskLoopMutex \in {l, NoOne}
  PROVE  LoopMoved(l) /\ pc'[l] = next
<1>1. Types /\ l \in Worker /\ next \in LoopPcs \cup GamePcs BY WorkersAre DEF IInv, LoopPcs
<1>2. Goto(l, next) BY DEF EndsIteration
<1>3. /\ pc' \in [Worker -> LoopPcs \cup GamePcs] /\ pc'[l] = next
      /\ \A v \in Worker \ {l} : pc'[v] = pc[v]
  BY <1>1, <1>2, Moves
<1>4. /\ taskLoopMutex' = NoOne /\ numTasks' = numTasks
      /\ task' \in [Loop -> Asked \cup {NoTask}] /\ nets' \in [Loop -> (Net \X Net) \cup {<<>>}]
      /\ \A m \in Loop \ {l} : task'[m] = task[m] /\ nets'[m] = nets[m]
  BY <1>1 DEF EndsIteration, Types
<1>5. LoopTypes' BY <1>1, <1>3, <1>4, LoopTypesHold DEF LoopTypes
<1>6. LoopOK(l)'
  BY <1>3, <1>4, ContributeAssumption DEF LoopOK, LoopPcs, Holding, HasTask, HasNets
<1> QED BY <1>3, <1>4, <1>5, <1>6 DEF LoopMoved

\* A loop that goes on keeps the mutex, and what it has to know.
LEMMA LoopGoesTo ==
  ASSUME IInv, NEW l \in Loop, NEW next \in LoopPcs, Goto(l, next),
         UNCHANGED <<loopVars, leaving, modelDatas>>, pc[l] \in Holding <=> next \in Holding,
         next \in HasTask => pc[l] \in HasTask, next \in HasNets => pc[l] \in HasNets,
         next \in WithOneNet => Stays(nets[l][1]), next \in WithBothNets => Stays(nets[l][2])
  PROVE  LoopMoved(l) /\ pc'[l] = next
<1>1. Types /\ LoopOK(l) /\ l \in Worker /\ next \in LoopPcs \cup GamePcs BY WorkersAre DEF IInv
<1>2. /\ pc' \in [Worker -> LoopPcs \cup GamePcs] /\ pc'[l] = next
      /\ \A v \in Worker \ {l} : pc'[v] = pc[v]
  BY <1>1, Moves
<1>3. UNCHANGED <<taskLoopMutex, numTasks, task, nets>> BY DEF loopVars
<1>4. LoopTypes' BY <1>1, <1>2, <1>3, LoopTypesHold DEF LoopTypes
<1>5. /\ next \in WithOneNet => Stays(nets[l][1])'
      /\ next \in WithBothNets => Stays(nets[l][2])'
  BY <1>3 DEF Stays, hasModel
<1>6. LoopOK(l)' BY <1>1, <1>2, <1>3, <1>5 DEF LoopOK, WithOneNet, WithBothNets
<1> QED BY <1>2, <1>3, <1>4, <1>6 DEF LoopMoved

\* A loop takes the mutex, or drops it for a download.
LEMMA LoopLocks ==
  ASSUME IInv, NEW l \in Loop, NEW next \in LoopPcs, Goto(l, next), UNCHANGED <<numTasks, task, nets, rep>>,
         taskLoopMutex \in {l, NoOne},
         taskLoopMutex' = IF next \in Holding THEN l ELSE NoOne,
         next \in HasTask => pc[l] \in HasTask, next \notin HasNets
  PROVE  LoopMoved(l) /\ pc'[l] = next
<1>1. Types /\ LoopOK(l) /\ l \in Worker /\ next \in LoopPcs \cup GamePcs BY WorkersAre DEF IInv
<1>2. /\ pc' \in [Worker -> LoopPcs \cup GamePcs] /\ pc'[l] = next
      /\ \A v \in Worker \ {l} : pc'[v] = pc[v]
  BY <1>1, Moves
<1>3. LoopTypes' BY <1>1, <1>2, LoopTypesHold DEF LoopTypes
<1>4. WithOneNet \subseteq HasNets /\ WithBothNets \subseteq HasNets
  BY DEF WithOneNet, WithBothNets, HasNets
<1>5. LoopOK(l)' BY <1>1, <1>2, <1>4, ContributeAssumption DEF LoopOK, WithOneNet, WithBothNets
<1> QED BY <1>2, <1>3, <1>5 DEF LoopMoved

\* The step of a loop that changes nothing else.
LEMMA LoopQuiet ==
  ASSUME IInv, NEW l \in Loop, LoopUnchanged, UNCHANGED managerVars, LoopMoved(l), pc[l] # "exited",
         {pc[l], pc'[l]} \cap (Carrying \cup {"acquireWhite"}) = {}
  PROVE  IInv'
<1>1. Types /\ ManagersOK /\ l \in Worker BY WorkersAre DEF IInv, ManagersOK, Types, TypeOK
<1>2. ManagerTypeOK' BY <1>1, ManagersRest DEF ManagersOK
<1>3. Types'
  BY <1>1, <1>2 DEF Types, TypeOK, LoopMoved, LoopTypes, LoopUnchanged, flagVars, stopVars, queueVars
<1>4. OnlyWorker(l) /\ gameTask'[l] = gameTask[l] BY <1>1 DEF OnlyWorker, LoopMoved, LoopUnchanged
<1>5. l \notin GameThread BY WorkersAre
<1>6. UNCHANGED <<managerVars, queueVars, numRatingGamesActive, mainPc>> /\ LoopOK(l)'
  BY DEF LoopUnchanged, LoopMoved
<1> QED BY <1>1, <1>3, <1>4, <1>5, <1>6, QuietStep

-----------------------------------------------------------------------------
(* The steps of a task loop that ask, download and choose.                 *)


\* A task loop begins an iteration, or exits.
LEMMA StartKeeps ==
  ASSUME IInv, NEW l \in Loop, StartsIteration(l)
  PROVE  IInv'
<1>1. /\ pc[l] = "top" /\ LoopUnchanged /\ UNCHANGED <<managerVars, loopVars>>
      /\ \E next \in {"exited", "pauseLoop"} : Goto(l, next)
  BY DEF StartsIteration
<1>2. PICK next \in {"exited", "pauseLoop"} : Goto(l, next) BY <1>1
<1>3. LoopMoved(l) /\ pc'[l] = next
  <2>1. next \in LoopPcs /\ next \notin Holding \cup HasTask \cup HasNets \cup WithOneNet \cup WithBothNets
        /\ pc[l] \notin Holding
    BY <1>1 DEF LoopPcs, Holding, HasTask, HasNets, WithOneNet, WithBothNets
  <2> QED BY <1>1, <1>2, <2>1, LoopGoesTo DEF managerVars
<1> QED BY <1>1, <1>3, LoopQuiet DEF Carrying

\* It locks taskLoopMutex.
LEMMA LockKeeps ==
  ASSUME IInv, NEW l \in Loop, TakesLock(l)
  PROVE  IInv'
<1>1. pc[l] = "lock" /\ taskLoopMutex = NoOne /\ LoopUnchanged /\ UNCHANGED managerVars
  BY DEF TakesLock
<1>2. CASE \E next \in {"top", "exited"} : EndsIteration(l, next)
  <2>1. PICK next \in {"top", "exited"} : EndsIteration(l, next) BY <1>2
  <2>2. LoopMoved(l) /\ pc'[l] = next BY <1>1, <2>1, IterationEnds
  <2> QED BY <1>1, <2>2, LoopQuiet DEF Carrying
<1>3. CASE taskLoopMutex' = l /\ Goto(l, "cleanRatingFirst") /\ UNCHANGED <<numTasks, task, nets, rep>>
  <2>1. "cleanRatingFirst" \in LoopPcs \cap Holding /\ "cleanRatingFirst" \notin HasTask \cup HasNets
    BY DEF LoopPcs, Holding, HasTask, HasNets
  <2>2. LoopMoved(l) /\ pc'[l] = "cleanRatingFirst" BY <1>1, <1>3, <2>1, LoopLocks
  <2> QED BY <1>1, <2>2, LoopQuiet DEF Carrying
<1> QED BY <1>2, <1>3 DEF TakesLock

\* It is given a task, or none.
LEMMA GetTaskKeeps ==
  ASSUME IInv, NEW l \in Loop, GetsTask(l)
  PROVE  IInv'
<1>1. pc[l] = "query" /\ LoopUnchanged /\ UNCHANGED managerVars BY DEF GetsTask
<1>2. Types /\ LoopOK(l) /\ l \in Worker BY WorkersAre DEF IInv
<1>3. taskLoopMutex = l BY <1>1, <1>2 DEF LoopOK, Holding
<1>4. CASE EndsIteration(l, "top")
  <2>1. LoopMoved(l) /\ pc'[l] = "top" BY <1>3, <1>4, IterationEnds
  <2> QED BY <1>1, <2>1, LoopQuiet DEF Carrying
<1>5. CASE /\ numTasks < MaxTasks /\ numTasks' = numTasks + 1 /\ Goto(l, "present")
           /\ \E asked \in Asked : task' = [task EXCEPT ![l] = asked]
           /\ UNCHANGED <<taskLoopMutex, nets, rep>>
  <2>1. "present" \in LoopPcs \cap Holding \cap HasTask
        /\ "present" \notin HasNets \cup WithOneNet \cup WithBothNets
    BY DEF LoopPcs, Holding, HasTask, HasNets, WithOneNet, WithBothNets
  <2>2. /\ pc' \in [Worker -> LoopPcs \cup GamePcs] /\ pc'[l] = "present"
        /\ \A v \in Worker \ {l} : pc'[v] = pc[v]
    BY <1>2, <1>5, <2>1, Moves
  <2>3. /\ task' \in [Loop -> Asked \cup {NoTask}] /\ task'[l] \in Asked
        /\ \A m \in Loop \ {l} : task'[m] = task[m]
    BY <1>2, <1>5 DEF Types
  <2>4. numTasks' \in 0..MaxTasks BY <1>2, <1>5, ContributeAssumption DEF Types, TypeOK
  <2>5. LoopTypes' BY <1>2, <1>5, <2>2, <2>3, <2>4, LoopTypesHold DEF LoopTypes
  <2>6. LoopOK(l)' BY <1>3, <1>5, <2>1, <2>2, <2>3 DEF LoopOK, WithOneNet, WithBothNets
  <2>7. LoopMoved(l) BY <1>5, <2>2, <2>3, <2>5, <2>6 DEF LoopMoved
  <2> QED BY <1>1, <2>2, <2>7, LoopQuiet DEF Carrying
<1>6. \A black, white \in Model, isRating \in BOOLEAN :
        [models |-> <<black, white>>, isRating |-> isRating] \in Asked
  BY DEF Asked
<1> QED BY <1>4, <1>5, <1>6 DEF GetsTask

\* It looks whether it has to download a net.
LEMMA LookKeeps ==
  ASSUME IInv, NEW l \in Loop, LooksForFiles(l)
  PROVE  IInv'
<1>1. pc[l] = "present" /\ LoopUnchanged /\ UNCHANGED managerVars BY DEF LooksForFiles
<1>2. LoopOK(l) BY DEF IInv
<1>3. taskLoopMutex = l /\ pc[l] \in HasTask \cap Holding BY <1>1, <1>2 DEF LoopOK, Holding, HasTask
<1>4. CASE EndsIteration(l, "exited")
  <2>1. LoopMoved(l) /\ pc'[l] = "exited" BY <1>3, <1>4, IterationEnds
  <2> QED BY <1>1, <2>1, LoopQuiet DEF Carrying
<1>5. CASE Goto(l, "cleanSelfplay") /\ UNCHANGED loopVars
  <2>1. /\ "cleanSelfplay" \in LoopPcs \cap Holding
        /\ "cleanSelfplay" \notin HasNets \cup WithOneNet \cup WithBothNets
    BY DEF LoopPcs, Holding, HasTask, HasNets, WithOneNet, WithBothNets
  <2>2. LoopMoved(l) /\ pc'[l] = "cleanSelfplay" BY <1>1, <1>3, <1>5, <2>1, LoopGoesTo DEF managerVars
  <2> QED BY <1>1, <2>2, LoopQuiet DEF Carrying
<1>6. CASE taskLoopMutex' = NoOne /\ Goto(l, "download") /\ UNCHANGED <<numTasks, task, nets, rep>>
  <2>1. "download" \in LoopPcs /\ "download" \notin Holding \cup HasNets
    BY DEF LoopPcs, Holding, HasTask, HasNets
  <2>2. LoopMoved(l) /\ pc'[l] = "download" BY <1>3, <1>6, <2>1, LoopLocks
  <2> QED BY <1>1, <2>2, LoopQuiet DEF Carrying
<1> QED BY <1>4, <1>5, <1>6 DEF LooksForFiles

\* It downloads without the mutex.
LEMMA DownloadKeeps ==
  ASSUME IInv, NEW l \in Loop, Downloads(l)
  PROVE  IInv'
<1>1. pc[l] = "download" /\ LoopUnchanged /\ UNCHANGED <<managerVars, loopVars>> BY DEF Downloads
<1>2. PICK next \in {"relock", "relockFailed"} : Goto(l, next) BY DEF Downloads
<1>3. /\ next \in LoopPcs /\ next \notin Holding \cup HasNets \cup WithOneNet \cup WithBothNets
      /\ pc[l] \in HasTask /\ pc[l] \notin Holding
  BY <1>1 DEF LoopPcs, Holding, HasTask, HasNets, WithOneNet, WithBothNets
<1>4. LoopMoved(l) /\ pc'[l] = next BY <1>1, <1>2, <1>3, LoopGoesTo DEF managerVars
<1> QED BY <1>1, <1>4, LoopQuiet DEF Carrying

\* It locks the mutex again.
LEMMA RelockKeeps ==
  ASSUME IInv, NEW l \in Loop, Relocks(l)
  PROVE  IInv'
<1>1. /\ pc[l] \in {"relock", "relockFailed"} /\ taskLoopMutex = NoOne
      /\ LoopUnchanged /\ UNCHANGED managerVars
  BY DEF Relocks
<1>2. CASE \E next \in {"top", "exited"} : EndsIteration(l, next)
  <2>1. PICK next \in {"top", "exited"} : EndsIteration(l, next) BY <1>2
  <2>2. LoopMoved(l) /\ pc'[l] = next BY <1>1, <2>1, IterationEnds
  <2> QED BY <1>1, <2>2, LoopQuiet DEF Carrying
<1>3. CASE taskLoopMutex' = l /\ Goto(l, "present") /\ UNCHANGED <<numTasks, task, nets, rep>>
  <2>1. "present" \in LoopPcs \cap Holding /\ "present" \notin HasNets /\ pc[l] \in HasTask
    BY <1>1 DEF LoopPcs, Holding, HasTask, HasNets
  <2>2. LoopMoved(l) /\ pc'[l] = "present" BY <1>1, <1>3, <2>1, LoopLocks
  <2> QED BY <1>1, <2>2, LoopQuiet DEF Carrying
<1> QED BY <1>2, <1>3 DEF Relocks

\* It chooses the managers, and so the nets.
LEMMA ChooseKeeps ==
  ASSUME IInv, NEW l \in Loop, ChoosesManagers(l)
  PROVE  IInv'
<1>1. /\ pc[l] = "choose" /\ Goto(l, "loadBlack") /\ LoopUnchanged
      /\ UNCHANGED <<managerVars, taskLoopMutex, numTasks, task, rep>>
  BY DEF ChoosesManagers
<1>2. Types /\ LoopOK(l) /\ l \in Worker BY WorkersAre DEF IInv
<1>3. taskLoopMutex = l /\ task[l] \in Asked BY <1>1, <1>2 DEF LoopOK, Holding, HasTask
<1>4. PICK pair \in Net \X Net : nets' = [nets EXCEPT ![l] = pair]
  <2> DEFINE managerOf(n) == IF task[l].isRating /\ ~hasModel("selfplay", n) THEN "rating" ELSE "selfplay"
             pair == [i \in 1..2 |-> <<managerOf(task[l].models[i]), task[l].models[i]>>]
  <2>1. nets' = [nets EXCEPT ![l] = pair] BY DEF ChoosesManagers
  <2>2. \A i \in 1..2 : task[l].models[i] \in Model
    <3>1. task[l].models \in Model \X Model BY <1>3 DEF Asked
    <3>2. \A i \in 1..2 : i = 1 \/ i = 2 OBVIOUS
    <3> QED BY <3>1, <3>2
  <2>3. \A i \in 1..2 : pair[i] \in Net BY <2>2, ContributeAssumption DEF Net
  <2>4. pair = <<pair[1], pair[2]>> OBVIOUS
  <2> HIDE DEF pair
  <2>5. pair \in Net \X Net BY <2>3, <2>4
  <2> QED BY <2>1, <2>5
<1>5. /\ "loadBlack" \in LoopPcs \cap Holding \cap HasTask \cap HasNets
      /\ "loadBlack" \notin WithOneNet \cup WithBothNets
  BY DEF LoopPcs, Holding, HasTask, HasNets, WithOneNet, WithBothNets
<1>6. /\ pc' \in [Worker -> LoopPcs \cup GamePcs] /\ pc'[l] = "loadBlack"
      /\ \A v \in Worker \ {l} : pc'[v] = pc[v]
  BY <1>1, <1>2, <1>5, Moves
<1>7. /\ nets' \in [Loop -> (Net \X Net) \cup {<<>>}] /\ nets'[l] \in Net \X Net
      /\ \A m \in Loop \ {l} : nets'[m] = nets[m]
  BY <1>2, <1>4 DEF Types
<1>8. LoopTypes' BY <1>1, <1>2, <1>6, <1>7, LoopTypesHold DEF LoopTypes
<1>9. LoopOK(l)' BY <1>1, <1>3, <1>5, <1>6, <1>7 DEF LoopOK, WithOneNet, WithBothNets
<1>10. LoopMoved(l) BY <1>1, <1>6, <1>7, <1>8, <1>9 DEF LoopMoved
<1> QED BY <1>1, <1>6, <1>10, LoopQuiet DEF Carrying

\* It has loaded both nets.
LEMMA HasLoadedKeeps ==
  ASSUME IInv, NEW l \in Loop, HasLoaded(l)
  PROVE  IInv'
<1>1. pc[l] = "loaded" /\ LoopUnchanged /\ UNCHANGED managerVars BY DEF HasLoaded
<1>2. LoopOK(l) BY DEF IInv
<1>3. taskLoopMutex = l /\ Stays(nets[l][1]) /\ Stays(nets[l][2])
  BY <1>1, <1>2 DEF LoopOK, Holding, HasTask, HasNets
<1>4. CASE EndsIteration(l, "exited")
  <2>1. LoopMoved(l) /\ pc'[l] = "exited" BY <1>3, <1>4, IterationEnds
  <2> QED BY <1>1, <2>1, LoopQuiet DEF Carrying
<1>5. CASE Goto(l, "acquireBlack") /\ UNCHANGED loopVars
  <2>1. "acquireBlack" \in LoopPcs \cap Holding /\ pc[l] \in Holding \cap HasTask \cap HasNets
    BY <1>1 DEF LoopPcs, Holding, HasTask, HasNets
  <2>2. LoopMoved(l) /\ pc'[l] = "acquireBlack" BY <1>1, <1>3, <1>5, <2>1, LoopGoesTo DEF managerVars
  <2> QED BY <1>1, <2>2, LoopQuiet DEF Carrying
<1> QED BY <1>4, <1>5 DEF HasLoaded

-----------------------------------------------------------------------------
(* Pauses, and the steps of a task loop that use the managers.             *)

\* While a worker runs, nobody destroys a manager.
LEMMA NotExited ==
  ASSUME IInv, NEW w \in Worker, pc[w] # "exited"
  PROVE  \A g \in Manager : destructorPc[g] = "none"
BY WorkersAre DEF IInv, Phases

\* A pause that begins, goes on or ends.
LEMMA PauseStep ==
  ASSUME IInv, NEW w \in Worker, pc[w] \in PausesAt, NEW next \in {pc[w], AfterPause(w)}, Goto(w, next),
         shouldPause' \in BOOLEAN, finished' \in BOOLEAN,
         UNCHANGED <<managerVars, stopVars, queueVars, loopVars, numRatingGamesActive, gameTask, mainPc>>
  PROVE  IInv'
<1>1. /\ Types /\ ManagersOK /\ HandOK(w)
      /\ w \in Loop => LoopOK(w)
      /\ w \in GameThread => GameOK(w)
  BY DEF IInv, ManagersOK, Types, TypeOK
<1>2. (pc[w] = "pauseLoop" /\ next \in {"pauseLoop", "lock"})
      \/ (pc[w] \in {"pauseGame", "play"} /\ next \in {"pauseGame", "check", "play"})
  BY DEF PausesAt, AfterPause
<1>3. next \in LoopPcs \cup GamePcs BY <1>2 DEF LoopPcs, GamePcs
<1>4. /\ pc' \in [Worker -> LoopPcs \cup GamePcs] /\ pc'[w] = next
      /\ \A v \in Worker \ {w} : pc'[v] = pc[v]
  BY <1>1, <1>3, Moves
<1>5. ManagerTypeOK' BY <1>1, ManagersRest DEF ManagersOK
<1>6. Types' BY <1>1, <1>4, <1>5 DEF Types, TypeOK, stopVars, queueVars, loopVars
<1>7. OnlyWorker(w) /\ gameTask'[w] = gameTask[w] BY <1>4 DEF OnlyWorker, loopVars
<1>8. ASSUME w \in Loop PROVE LoopOK(w)'
  <2>1. pc[w] = "pauseLoop" /\ next \in {"pauseLoop", "lock"} BY <1>1, <1>2, <1>8 DEF LoopOK, LoopPcs
  <2>2. /\ next \in LoopPcs
        /\ {pc[w], next} \cap (Holding \cup HasTask \cup HasNets \cup WithOneNet \cup WithBothNets) = {}
    BY <2>1 DEF LoopPcs, Holding, HasTask, HasNets, WithOneNet, WithBothNets
  <2> QED BY <1>8, <2>2, LoopGoesTo DEF LoopMoved, managerVars
<1>9. ASSUME w \in GameThread PROVE GameOK(w)'
  <2>1. next \in {"pauseGame", "check", "play"} BY <1>1, <1>2, <1>9 DEF GameOK, GamePcs
  <2> QED BY <1>4, <2>1 DEF GameOK, GamePcs
<1>10. \/ {pc[w], pc'[w]} \cap (Carrying \cup {"acquireWhite"}) = {}
       \/ {pc[w], pc'[w]} \subseteq Carrying \ {"releaseWhite", "uncount"}
  BY <1>2, <1>4 DEF Carrying
<1>11. pc[w] # "exited" BY <1>2
<1> QED BY <1>6, <1>7, <1>8, <1>9, <1>10, <1>11, QuietStep

\* A worker pauses, or does not.
LEMMA PausesKeep ==
  ASSUME IInv, NEW w \in Worker, NotPaused(w) \/ Pauses(w)
  PROVE  IInv'
<1>1. pc \in [Worker -> LoopPcs \cup GamePcs] /\ shouldPause \in BOOLEAN /\ finished \in BOOLEAN
  BY DEF IInv, Types, TypeOK
<1>2. CASE NotPaused(w)
  <2>1. /\ pc[w] \in PausesAt /\ Goto(w, AfterPause(w))
        /\ UNCHANGED <<managerVars, stopVars, queueVars, loopVars, numRatingGamesActive, gameTask, mainPc,
                       shouldPause, finished>>
    BY <1>2 DEF NotPaused, PausesAt, flagVars
  <2> QED BY <1>1, <2>1, PauseStep
<1>3. CASE Pauses(w)
  <2>1. /\ pc[w] \in PausesAt /\ UNCHANGED <<shouldPause, finished>>
        /\ UNCHANGED <<managerVars, stopVars, queueVars, loopVars, numRatingGamesActive, gameTask, mainPc>>
    BY <1>3 DEF Pauses, flag!WaitUntil, flag!LockAndWait, flag!Wake
  <2>2. \E next \in {pc[w], AfterPause(w)} : Goto(w, next)
    <3>1. UNCHANGED pc \/ (\E next \in {pc[w], AfterPause(w)} : Goto(w, next))
      BY <1>3 DEF Pauses
    <3>2. UNCHANGED pc => Goto(w, pc[w]) BY <1>1 DEF Goto
    <3> QED BY <3>1, <3>2
  <2> QED BY <1>1, <2>1, <2>2, PauseStep
<1> QED BY <1>2, <1>3

\* A loop that uses a manager, without a GameTask in hand.
LEMMA LoopManages ==
  ASSUME IInv, NEW l \in Loop, LoopMoved(l), pc[l] # "exited",
         {pc[l], pc'[l]} \cap (Carrying \cup {"acquireWhite"}) = {},
         ManagersOK',
         UNCHANGED <<acquireCount, destructorPc, queueVars, numRatingGamesActive, gameTask, mainPc>>,
         {shouldPause', finished', shouldStop', shouldStopGracefully'} \subseteq BOOLEAN,
         \A net \in Net : Stays(net) =>
            Stays(net)' \/ (pc[l] \in Holding /\ acquireCount[net[1]][net[2]] = 0)
  PROVE  IInv'
<1>1. Types /\ l \in Worker /\ l \notin GameThread BY WorkersAre DEF IInv
<1>2. Types' BY <1>1 DEF Types, TypeOK, LoopMoved, LoopTypes, ManagersOK, queueVars
<1>3. OnlyWorker(l) /\ gameTask'[l] = gameTask[l] BY <1>1 DEF OnlyWorker, LoopMoved
<1>4. LoopOK(l)' BY DEF LoopMoved
<1> QED BY <1>1, <1>2, <1>3, <1>4, SameTask

\* A task loop unloads the nets nobody uses; those it has not got yet may be among them.
LEMMA CleanKeeps ==
  ASSUME IInv, NEW l \in Loop, CleansUp(l)
  PROVE  IInv'
<1>1. LoopUnchanged /\ UNCHANGED loopVars /\ Types /\ ManagersOK /\ LoopOK(l) /\ l \in Worker
  BY WorkersAre DEF IInv, CleansUp, ManagersOK, Types, TypeOK
<1>2. PICK g \in Manager, next \in {"query", "cleanRating", "choose"} :
        /\ cleanupUnusedModelsOlderThan(g) /\ Goto(l, next)
        /\ pc[l] \in {"cleanRatingFirst", "cleanSelfplay", "cleanRating"}
        /\ next # "query" => pc[l] # "cleanRatingFirst"
  BY ContributeAssumption DEF CleansUp
<1>3. /\ pc[l] \in Holding /\ next \in Holding \cap LoopPcs
      /\ next \notin HasNets \cup WithOneNet \cup WithBothNets
      /\ next \in HasTask => pc[l] \in HasTask
      /\ {pc[l], next} \cap (Carrying \cup {"acquireWhite"}) = {} /\ pc[l] # "exited"
  BY <1>2 DEF LoopPcs, Holding, HasTask, HasNets, WithOneNet, WithBothNets, Carrying
<1>4. destructorPc[g] = "none" BY <1>1, <1>3, NotExited
<1>5. /\ ManagersOK' /\ UNCHANGED <<acquireCount, destructorPc>>
      /\ \A net \in Net : Stays(net) /\ acquireCount[net[1]][net[2]] > 0 => Stays(net)'
  BY <1>1, <1>2, <1>4, CleanupKeeps
<1>6. \A net \in Net : acquireCount[net[1]][net[2]] \in Nat
  BY <1>1 DEF ManagersOK, ManagerTypeOK, Net
<1>7. \A net \in Net : Stays(net) => Stays(net)' \/ (pc[l] \in Holding /\ acquireCount[net[1]][net[2]] = 0)
  BY <1>3, <1>5, <1>6
<1>8. /\ pc' \in [Worker -> LoopPcs \cup GamePcs] /\ pc'[l] = next
      /\ \A v \in Worker \ {l} : pc'[v] = pc[v]
  BY <1>1, <1>2, <1>3, Moves
<1>9. LoopMoved(l)
  <2>1. LoopTypes' BY <1>1, <1>8, LoopTypesHold DEF LoopTypes, loopVars
  <2>2. LoopOK(l)' BY <1>1, <1>3, <1>8 DEF LoopOK, loopVars, WithOneNet, WithBothNets
  <2> QED BY <1>1, <1>8, <2>1, <2>2 DEF LoopMoved, loopVars
<1>10. {shouldPause', finished', shouldStop', shouldStopGracefully'} \subseteq BOOLEAN
  BY <1>1 DEF LoopUnchanged, flagVars, stopVars, Types, TypeOK
<1> QED BY <1>1, <1>3, <1>5, <1>7, <1>8, <1>9, <1>10, LoopManages DEF LoopUnchanged

\* A net is there, or is loaded, or the loop gives up.
LEMMA LoadIntoKeeps ==
  ASSUME IInv, NEW l \in Loop, NEW i \in {1, 2}, NEW next, LoadsInto(l, nets[l][i], next),
         pc[l] = IF i = 1 THEN "loadBlack" ELSE "loadWhite",
         next = IF i = 1 THEN "loadWhite" ELSE "loaded",
         UNCHANGED <<queueVars, numRatingGamesActive, gameTask, mainPc>>
  PROVE  IInv'
<1>1. Types /\ ManagersOK /\ LoopOK(l) /\ l \in Worker
  BY WorkersAre DEF IInv, ManagersOK, Types, TypeOK
<1>2. /\ {pc[l], next} \subseteq LoopPcs \cap Holding \cap HasTask \cap HasNets
      /\ {pc[l], next} \cap (Carrying \cup {"acquireWhite", "exited"}) = {}
  BY DEF LoopPcs, Holding, HasTask, HasNets, Carrying
<1>3. PICK net \in Net : net = nets[l][i]
  <2>1. nets[l] \in Net \X Net BY <1>1, <1>2 DEF LoopOK
  <2> QED BY <2>1
<1>4. net[1] \in Manager /\ net[2] \in Model /\ net = <<net[1], net[2]>> BY DEF Net
<1>5. taskLoopMutex = l BY <1>1, <1>2 DEF LoopOK
<1>6. destructorPc[net[1]] = "none" BY <1>1, <1>2, <1>4, NotExited
<1>7. {shouldPause, finished, shouldStop, shouldStopGracefully} \subseteq BOOLEAN
  BY <1>1 DEF Types, TypeOK
<1>8. ASSUME Goto(l, next), UNCHANGED <<flagVars, stopVars, loopVars>>,
             ManagersOK', UNCHANGED <<acquireCount, destructorPc>>, AllStay, Stays(net)'
      PROVE  IInv'
  <2>1. /\ pc' \in [Worker -> LoopPcs \cup GamePcs] /\ pc'[l] = next
        /\ \A v \in Worker \ {l} : pc'[v] = pc[v]
    BY <1>1, <1>2, <1>8, Moves
  <2>2. UNCHANGED <<taskLoopMutex, numTasks, task, nets>> BY <1>8 DEF loopVars
  <2>3. LoopTypes' BY <1>1, <2>1, <2>2, LoopTypesHold DEF LoopTypes
  <2>4. Stays(nets[l][i])' BY <1>3, <1>8, <2>2 DEF Stays
  <2>5. i = 2 => Stays(nets[l][1])'
    <3> SUFFICES ASSUME i = 2 PROVE Stays(nets[l][1])' OBVIOUS
    <3>1. Stays(nets[l][1]) /\ nets[l] \in Net \X Net BY <1>1, <1>2 DEF LoopOK
    <3>2. PICK other \in Net : other = nets[l][1] BY <3>1
    <3>3. Stays(other)' BY <1>8, <3>1, <3>2 DEF AllStay
    <3> QED BY <2>2, <3>2, <3>3 DEF Stays
  <2>6. LoopOK(l)'
    <3>1. i = 1 => next \notin WithBothNets BY DEF WithBothNets
    <3>2. (next \in WithOneNet => Stays(nets[l][1])') /\ (next \in WithBothNets => Stays(nets[l][2])')
      BY <2>4, <2>5, <3>1
    <3> QED BY <1>1, <1>2, <2>1, <2>2, <3>2 DEF LoopOK, WithOneNet, WithBothNets
  <2>7. LoopMoved(l) BY <2>1, <2>2, <2>3, <2>6 DEF LoopMoved
  <2>8. {shouldPause', finished', shouldStop', shouldStopGracefully'} \subseteq BOOLEAN
    BY <1>7, <1>8 DEF flagVars, stopVars
  <2> QED BY <1>2, <1>8, <2>1, <2>7, <2>8, LoopManages DEF AllStay
<1>9. CASE /\ MutexFree(net[1]) /\ hasModel(net[1], net[2]) /\ Goto(l, next)
           /\ UNCHANGED <<managerVars, flagVars, stopVars, loopVars>>
  <2>1. ManagersOK' /\ UNCHANGED <<acquireCount, leaving, modelDatas, destructorPc>>
    BY <1>1, <1>9, ManagersRest
  <2>2. Stays(net) BY <1>9 DEF MutexFree, Stays
  <2>3. AllStay BY <2>1, SameStay DEF AllStay
  <2> QED BY <1>8, <1>9, <2>1, <2>2, <2>3 DEF AllStay
<1>10. CASE load(net[1], net[2], FALSE) /\ Goto(l, next) /\ UNCHANGED <<flagVars, stopVars, loopVars>>
  <2>1. /\ ManagersOK' /\ UNCHANGED <<acquireCount, destructorPc>>
        /\ AllStay /\ Stays(<<net[1], net[2]>>)'
    BY <1>1, <1>4, <1>6, <1>10, LoadKeeps
  <2> QED BY <1>4, <1>8, <1>10, <2>1
<1>11. CASE /\ EndsIteration(l, "top") /\ UNCHANGED managerVars
            /\ \/ UNCHANGED <<flagVars, stopVars>>
               \/ /\ shouldStop' = TRUE /\ shouldStopGracefully' = TRUE
                  /\ flag!setPermanently(FALSE) \/ (finished /\ UNCHANGED flagVars)
  <2>1. LoopMoved(l) /\ pc'[l] = "top" BY <1>5, <1>11, IterationEnds
  <2>2. ManagersOK' /\ UNCHANGED <<acquireCount, leaving, modelDatas, destructorPc>>
    BY <1>1, <1>11, ManagersRest
  <2>3. {shouldPause', finished', shouldStop', shouldStopGracefully'} \subseteq BOOLEAN
    BY <1>7, <1>11 DEF flagVars, stopVars, flag!setPermanently
  <2>4. \A n \in Net : Stays(n) => Stays(n)' BY <2>2, SameStay
  <2>5. "top" \notin Carrying \cup {"acquireWhite"} BY DEF Carrying
  <2> QED BY <1>2, <2>1, <2>2, <2>3, <2>4, <2>5, LoopManages
<1> QED BY <1>3, <1>9, <1>10, <1>11 DEF LoadsInto

\* A task loop finds or loads a net.
LEMMA LoadsKeep ==
  ASSUME IInv, NEW l \in Loop, Loads(l)
  PROVE  IInv'
<1>1. UNCHANGED <<queueVars, numRatingGamesActive, gameTask, mainPc>> BY DEF Loads
<1>2. CASE pc[l] = "loadBlack" /\ LoadsInto(l, nets[l][1], "loadWhite") BY <1>1, <1>2, LoadIntoKeeps
<1>3. CASE pc[l] = "loadWhite" /\ LoadsInto(l, nets[l][2], "loaded") BY <1>1, <1>3, LoadIntoKeeps
<1> QED BY <1>2, <1>3 DEF Loads

-----------------------------------------------------------------------------
(* The steps that acquire and release, and those that hand on a GameTask.  *)

\* The types, when a worker changes what is counted.
LEMMA TypesKeep ==
  ASSUME Types, ManagersOK', LoopTypes', UNCHANGED <<flagVars, stopVars, queueReadOnly>>,
         gameTaskQueue' \in Seq(GameTask), Len(gameTaskQueue') <= 1,
         gameTask' \in [Worker -> GameTask \cup {NoTask}], numRatingGamesActive' \in Nat
  PROVE  Types'
BY DEF Types, TypeOK, LoopTypes, ManagersOK, flagVars, stopVars

\* The count of one net is one more.
LEMMA CountsMore ==
  ASSUME ManagersOK, NEW net \in Net,
         acquireCount' = [acquireCount EXCEPT ![net[1]][net[2]] = @ + 1]
  PROVE  \A g \in Manager, n \in Model :
            acquireCount'[g][n] = acquireCount[g][n] + One(net = <<g, n>>)
<1>1. net[1] \in Manager /\ net[2] \in Model /\ net = <<net[1], net[2]>> BY DEF Net
<1>2. acquireCount \in [Manager -> [Model -> Nat]] BY DEF ManagersOK, ManagerTypeOK
<1> SUFFICES ASSUME NEW g \in Manager, NEW n \in Model
             PROVE  acquireCount'[g][n] = acquireCount[g][n] + One(net = <<g, n>>)
  OBVIOUS
<1>3. CASE net = <<g, n>> BY <1>1, <1>2, <1>3 DEF One
<1>4. CASE net # <<g, n>>
  <2>1. net[1] # g \/ net[2] # n BY <1>1, <1>4
  <2>2. acquireCount'[g][n] = acquireCount[g][n] BY <1>1, <1>2, <2>1
  <2>3. One(net = <<g, n>>) = 0 BY <1>4 DEF One
  <2>4. acquireCount[g][n] \in Nat BY <1>2
  <2> QED BY <2>2, <2>3, <2>4
<1> QED BY <1>3, <1>4

\* The count of one net is one less.
LEMMA CountsLess ==
  ASSUME ManagersOK, NEW net \in Net,
         acquireCount' = [acquireCount EXCEPT ![net[1]][net[2]] = @ - 1]
  PROVE  \A g \in Manager, n \in Model :
            acquireCount'[g][n] + One(net = <<g, n>>) = acquireCount[g][n]
<1>1. net[1] \in Manager /\ net[2] \in Model /\ net = <<net[1], net[2]>> BY DEF Net
<1>2. acquireCount \in [Manager -> [Model -> Nat]] BY DEF ManagersOK, ManagerTypeOK
<1> SUFFICES ASSUME NEW g \in Manager, NEW n \in Model
             PROVE  acquireCount'[g][n] + One(net = <<g, n>>) = acquireCount[g][n]
  OBVIOUS
<1>3. acquireCount[g][n] \in Nat BY <1>2
<1>4. CASE net = <<g, n>>
  <2>1. acquireCount'[g][n] = acquireCount[g][n] - 1 BY <1>1, <1>2, <1>4
  <2> QED BY <1>3, <1>4, <2>1 DEF One
<1>5. CASE net # <<g, n>>
  <2>1. net[1] # g \/ net[2] # n BY <1>1, <1>5
  <2>2. acquireCount'[g][n] = acquireCount[g][n] BY <1>1, <1>2, <2>1
  <2>3. One(net = <<g, n>>) = 0 BY <1>5 DEF One
  <2> QED BY <1>3, <2>2, <2>3
<1> QED BY <1>4, <1>5

\* Two nets make a GameTask.
LEMMA TwoNets ==
  ASSUME NEW pair \in Net \X Net, NEW isRating \in BOOLEAN
  PROVE  [nets |-> pair, isRating |-> isRating] \in GameTask \ {NoTask}
BY ContributeAssumption DEF GameTask

\* The first net is counted, and the loop refers to it.
LEMMA AcquireBlackKeeps ==
  ASSUME IInv, NEW l \in Loop, pc[l] = "acquireBlack", acquire(nets[l][1][1], nets[l][1][2]),
         Goto(l, "acquireWhite"),
         UNCHANGED <<gameTask, numRatingGamesActive, flagVars, stopVars, queueVars, loopVars, mainPc>>
  PROVE  IInv'
<1>1. Types /\ ManagersOK /\ LoopOK(l) /\ HandOK(l) /\ l \in Worker /\ l \notin GameThread
  BY WorkersAre DEF IInv, ManagersOK, Types, TypeOK
<1>2. nets[l] \in Net \X Net /\ Stays(nets[l][1]) /\ Stays(nets[l][2])
  BY <1>1 DEF LoopOK, HasNets
<1>3. PICK net \in Net : net = nets[l][1] BY <1>2
<1>4. net[1] \in Manager /\ net[2] \in Model /\ net = <<net[1], net[2]>> BY DEF Net
<1>5. /\ ManagersOK' /\ UNCHANGED <<leaving, modelDatas, destructorPc>> /\ Stays(net)
      /\ acquireCount' = [acquireCount EXCEPT ![net[1]][net[2]] = @ + 1]
  BY <1>1, <1>3, <1>4, AcquireKeeps
<1>6. \A g \in Manager, n \in Model : acquireCount'[g][n] = acquireCount[g][n] + One(net = <<g, n>>)
  BY <1>1, <1>5, CountsMore
<1>7. LoopMoved(l) /\ pc'[l] = "acquireWhite"
  <2>1. {"acquireBlack", "acquireWhite"} \subseteq LoopPcs \cap Holding \cap HasTask \cap HasNets
    BY DEF LoopPcs, Holding, HasTask, HasNets
  <2> QED BY <1>2, <1>5, <2>1, LoopGoesTo
<1>8. Types'
  <2>1. /\ gameTask \in [Worker -> GameTask \cup {NoTask}] /\ numRatingGamesActive \in Nat
        /\ gameTaskQueue \in Seq(GameTask) /\ Len(gameTaskQueue) <= 1
    BY <1>1 DEF Types, TypeOK
  <2> QED BY <1>1, <1>5, <1>7, <2>1, TypesKeep DEF LoopMoved, queueVars
<1>9. OnlyWorker(l) BY <1>7 DEF OnlyWorker, LoopMoved
<1>10. HandOK(l)' BY <1>1, <1>7 DEF HandOK, Carrying
<1>11. \A n \in Net : Stays(n) => Stays(n)' BY <1>5, SameStay
<1>12. Balanced(l)
  <2>1. ASSUME NEW g \in Manager, NEW n \in Model
        PROVE  /\ acquireCount'[g][n] + Bearing(l, <<g, n>>) + Queued(gameTaskQueue, <<g, n>>)
                    = acquireCount[g][n] + Bearing(l, <<g, n>>)' + Queued(gameTaskQueue', <<g, n>>)
               /\ acquireCount'[g][n] > acquireCount[g][n] => Stays(<<g, n>>)'
    <3>1. Bearing(l, <<g, n>>) = 0 BY DEF Bearing, Bears, Carrying
    <3>2. Bearing(l, <<g, n>>)' = One(net = <<g, n>>)
      BY <1>3, <1>7 DEF Bearing, Bears, loopVars
    <3>3. acquireCount'[g][n] = acquireCount[g][n] + One(net = <<g, n>>) BY <1>6
    <3>4. acquireCount[g][n] \in Nat /\ One(net = <<g, n>>) \in Nat
      BY <1>1 DEF ManagersOK, ManagerTypeOK, One
    <3>5. gameTaskQueue' = gameTaskQueue /\ Queued(gameTaskQueue, <<g, n>>) \in Nat
      BY DEF queueVars, Queued, One
    <3>6. acquireCount'[g][n] > acquireCount[g][n] => net = <<g, n>>
      BY <3>3, <3>4 DEF One
    <3> QED BY <1>5, <1>11, <3>1, <3>2, <3>3, <3>4, <3>5, <3>6
  <2>2. numRatingGamesActive' + RatingOf(gameTask[l]) + QueuedRating(gameTaskQueue)
           = numRatingGamesActive + RatingOf(gameTask'[l]) + QueuedRating(gameTaskQueue')
    BY DEF queueVars
  <2> QED BY <2>1, <2>2 DEF Balanced
<1>13. LoopOK(l)' /\ UNCHANGED <<mainPc, destructorPc, queueReadOnly, gameTaskQueue>>
  BY <1>5, <1>7 DEF LoopMoved, queueVars
<1> QED BY <1>1, <1>5, <1>8, <1>9, <1>10, <1>11, <1>12, <1>13, WorkerKeeps

\* The second net is counted, and the loop has the GameTask of both in hand.
LEMMA AcquireWhiteKeeps ==
  ASSUME IInv, NEW l \in Loop, pc[l] = "acquireWhite", acquire(nets[l][2][1], nets[l][2][2]),
         NEW pair \in {nets[l], <<nets[l][2], nets[l][1]>>},
         gameTask' = [gameTask EXCEPT ![l] = [nets |-> pair, isRating |-> task[l].isRating]],
         numRatingGamesActive' = numRatingGamesActive + (IF task[l].isRating THEN 1 ELSE 0),
         Goto(l, "push"), UNCHANGED <<flagVars, stopVars, queueVars, loopVars, mainPc>>
  PROVE  IInv'
<1>1. Types /\ ManagersOK /\ LoopOK(l) /\ HandOK(l) /\ l \in Worker /\ l \notin GameThread
  BY WorkersAre DEF IInv, ManagersOK, Types, TypeOK
<1>2. nets[l] \in Net \X Net /\ Stays(nets[l][1]) /\ Stays(nets[l][2]) /\ task[l] \in Asked
  BY <1>1 DEF LoopOK, HasNets, HasTask
<1>3. PICK net \in Net : net = nets[l][2] BY <1>2
<1>4. net[1] \in Manager /\ net[2] \in Model /\ net = <<net[1], net[2]>> BY DEF Net
<1>5. /\ ManagersOK' /\ UNCHANGED <<leaving, modelDatas, destructorPc>> /\ Stays(net)
      /\ acquireCount' = [acquireCount EXCEPT ![net[1]][net[2]] = @ + 1]
  BY <1>1, <1>3, <1>4, AcquireKeeps
<1>6. \A g \in Manager, n \in Model : acquireCount'[g][n] = acquireCount[g][n] + One(net = <<g, n>>)
  BY <1>1, <1>5, CountsMore
<1>7. LoopMoved(l) /\ pc'[l] = "push"
  <2>1. {"acquireWhite", "push"} \subseteq LoopPcs \cap Holding \cap HasTask \cap HasNets
    BY DEF LoopPcs, Holding, HasTask, HasNets
  <2> QED BY <1>2, <1>5, <2>1, LoopGoesTo
<1>8. /\ gameTask \in [Worker -> GameTask \cup {NoTask}] /\ numRatingGamesActive \in Nat
      /\ gameTaskQueue \in Seq(GameTask) /\ Len(gameTaskQueue) <= 1
  BY <1>1 DEF Types, TypeOK
<1>9. PICK gt \in GameTask \ {NoTask} :
        gt = [nets |-> pair, isRating |-> task[l].isRating]
  <2>1. task[l].isRating \in BOOLEAN BY <1>2 DEF Asked
  <2>2. pair \in Net \X Net BY <1>2
  <2> QED BY <2>1, <2>2, TwoNets
<1>10. gt.nets = pair /\ RatingOf(gt) = (IF task[l].isRating THEN 1 ELSE 0)
  BY <1>9 DEF RatingOf
<1>11. /\ gameTask' \in [Worker -> GameTask \cup {NoTask}] /\ gameTask'[l] = gt
       /\ \A v \in Worker \ {l} : gameTask'[v] = gameTask[v]
  BY <1>1, <1>8, <1>9
<1>12. Types'
  <2>1. numRatingGamesActive' \in Nat BY <1>8
  <2> QED BY <1>1, <1>5, <1>7, <1>8, <1>11, <2>1, TypesKeep DEF LoopMoved, queueVars
<1>13. OnlyWorker(l) BY <1>7, <1>11 DEF OnlyWorker, LoopMoved
<1>14. HandOK(l)' BY <1>7, <1>9, <1>11 DEF HandOK, Carrying
<1>15. \A n \in Net : Stays(n) => Stays(n)' BY <1>5, SameStay
<1>16. Balanced(l)
  <2>1. ASSUME NEW g \in Manager, NEW n \in Model
        PROVE  /\ acquireCount'[g][n] + Bearing(l, <<g, n>>) + Queued(gameTaskQueue, <<g, n>>)
                    = acquireCount[g][n] + Bearing(l, <<g, n>>)' + Queued(gameTaskQueue', <<g, n>>)
               /\ acquireCount'[g][n] > acquireCount[g][n] => Stays(<<g, n>>)'
    <3>1. Bearing(l, <<g, n>>) = One(nets[l][1] = <<g, n>>) BY DEF Bearing, Bears
    <3>2. Bearing(l, <<g, n>>)' = One(nets[l][1] = <<g, n>>) + One(net = <<g, n>>)
      <4>1. Bearing(l, <<g, n>>)' = One(pair[1] = <<g, n>>) + One(pair[2] = <<g, n>>)
        BY <1>7, <1>10, <1>11 DEF Bearing, Bears, Carrying
      <4>2. \/ pair[1] = nets[l][1] /\ pair[2] = net
            \/ pair[1] = net /\ pair[2] = nets[l][1]
        BY <1>3
      <4> QED BY <4>1, <4>2 DEF One
    <3>3. acquireCount'[g][n] = acquireCount[g][n] + One(net = <<g, n>>) BY <1>6
    <3>4. /\ acquireCount[g][n] \in Nat /\ One(net = <<g, n>>) \in Nat
          /\ One(nets[l][1] = <<g, n>>) \in Nat
      BY <1>1 DEF ManagersOK, ManagerTypeOK, One
    <3>5. gameTaskQueue' = gameTaskQueue /\ Queued(gameTaskQueue, <<g, n>>) \in Nat
      BY DEF queueVars, Queued, One
    <3>6. acquireCount'[g][n] > acquireCount[g][n] => net = <<g, n>>
      BY <3>3, <3>4 DEF One
    <3>7. acquireCount'[g][n] + Bearing(l, <<g, n>>) + Queued(gameTaskQueue, <<g, n>>)
            = acquireCount[g][n] + Bearing(l, <<g, n>>)' + Queued(gameTaskQueue', <<g, n>>)
      <4> DEFINE a == acquireCount[g][n]
                 b == One(nets[l][1] = <<g, n>>)
                 c == One(net = <<g, n>>)
                 q == Queued(gameTaskQueue, <<g, n>>)
      <4>1. a \in Nat /\ b \in Nat /\ c \in Nat /\ q \in Nat BY <3>4, <3>5
      <4>2. /\ acquireCount'[g][n] = a + c /\ Bearing(l, <<g, n>>) = b
            /\ Bearing(l, <<g, n>>)' = b + c /\ Queued(gameTaskQueue', <<g, n>>) = q
        BY <3>1, <3>2, <3>3, <3>5
      <4> HIDE DEF a, b, c, q
      <4>3. (a + c) + b + q = a + (b + c) + q BY <4>1
      <4> QED BY <4>2, <4>3 DEF a, q
    <3> QED BY <1>5, <1>15, <3>6, <3>7
  <2>2. numRatingGamesActive' + RatingOf(gameTask[l]) + QueuedRating(gameTaskQueue)
           = numRatingGamesActive + RatingOf(gameTask'[l]) + QueuedRating(gameTaskQueue')
    <3>1. RatingOf(gameTask[l]) = 0 BY <1>1 DEF HandOK, Carrying, RatingOf
    <3>2. numRatingGamesActive' = numRatingGamesActive + RatingOf(gameTask'[l]) BY <1>10, <1>11
    <3>3. /\ gameTaskQueue' = gameTaskQueue
          /\ QueuedRating(gameTaskQueue) \in Nat /\ RatingOf(gameTask'[l]) \in Nat
      BY DEF queueVars, QueuedRating, RatingOf
    <3> QED BY <1>8, <3>1, <3>2, <3>3
  <2> QED BY <2>1, <2>2 DEF Balanced
<1>17. LoopOK(l)' /\ UNCHANGED <<mainPc, destructorPc, queueReadOnly, gameTaskQueue>>
  BY <1>5, <1>7 DEF LoopMoved, queueVars
<1> QED BY <1>1, <1>5, <1>12, <1>13, <1>14, <1>15, <1>16, <1>17, WorkerKeeps

\* A task loop acquires its two nets, for one game.
LEMMA AllocatesKeep ==
  ASSUME IInv, NEW l \in Loop, Allocates(l)
  PROVE  IInv'
<1>1. UNCHANGED <<flagVars, stopVars, queueVars, loopVars, mainPc>> BY DEF Allocates
<1>2. CASE /\ pc[l] = "acquireBlack" /\ acquire(nets[l][1][1], nets[l][1][2]) /\ Goto(l, "acquireWhite")
           /\ UNCHANGED <<gameTask, numRatingGamesActive>>
  BY <1>1, <1>2, AcquireBlackKeeps
<1>3. CASE /\ pc[l] = "acquireWhite" /\ acquire(nets[l][2][1], nets[l][2][2])
           /\ \E pair \in {nets[l], <<nets[l][2], nets[l][1]>>} :
                gameTask' = [gameTask EXCEPT ![l] = [nets |-> pair, isRating |-> task[l].isRating]]
           /\ numRatingGamesActive' = numRatingGamesActive + (IF task[l].isRating THEN 1 ELSE 0)
           /\ Goto(l, "push")
  BY <1>1, <1>3, AcquireWhiteKeeps
<1> QED BY <1>2, <1>3 DEF Allocates

\* The queue takes the GameTask over.
LEMMA PushKeeps ==
  ASSUME IInv, NEW l \in Loop, PushesTask(l)
  PROVE  IInv'
<1>1. Types /\ ManagersOK /\ LoopOK(l) /\ HandOK(l) /\ l \in Worker /\ l \notin GameThread
  BY WorkersAre DEF IInv, ManagersOK, Types, TypeOK
<1>2. /\ pc[l] = "push"
      /\ UNCHANGED <<managerVars, flagVars, stopVars, queueReadOnly, numRatingGamesActive, mainPc>>
  BY DEF PushesTask
<1>3. /\ nets[l] \in Net \X Net /\ Stays(nets[l][1]) /\ Stays(nets[l][2]) /\ taskLoopMutex = l
      /\ gameTask[l] # NoTask
  BY <1>1, <1>2 DEF LoopOK, HasNets, HasTask, Holding, HandOK, Carrying
<1>4. ManagersOK' /\ UNCHANGED <<acquireCount, leaving, modelDatas, destructorPc>>
  BY <1>1, <1>2, ManagersRest
<1>5. /\ gameTask \in [Worker -> GameTask \cup {NoTask}] /\ numRatingGamesActive \in Nat
      /\ gameTaskQueue \in Seq(GameTask) /\ Len(gameTaskQueue) <= 1
  BY <1>1 DEF Types, TypeOK
<1>6. \A n \in Net : Stays(n) => Stays(n)' BY <1>4, SameStay
<1>7. CASE queueReadOnly
  <2>1. Goto(l, "releaseBlack") /\ UNCHANGED <<gameTaskQueue, gameTask, loopVars>>
    BY <1>7 DEF PushesTask
  <2>2. {"push", "releaseBlack"} \subseteq LoopPcs \cap Holding \cap HasTask \cap HasNets
        /\ "releaseBlack" \notin WithOneNet \cup WithBothNets
    BY DEF LoopPcs, Holding, HasTask, HasNets, WithOneNet, WithBothNets
  <2>3. LoopMoved(l) /\ pc'[l] = "releaseBlack" BY <1>2, <1>4, <2>1, <2>2, LoopGoesTo
  <2>4. Types' BY <1>1, <1>2, <1>4, <1>5, <2>1, <2>3, TypesKeep DEF LoopMoved
  <2>5. OnlyWorker(l) BY <2>1, <2>3 DEF OnlyWorker, LoopMoved
  <2>6. {pc[l], pc'[l]} \subseteq Carrying \ {"releaseWhite", "uncount"} BY <1>2, <2>3 DEF Carrying
  <2>7. LoopOK(l)' /\ UNCHANGED queueVars BY <1>2, <2>1, <2>3 DEF LoopMoved, queueVars
  <2> QED BY <1>1, <1>2, <2>1, <2>4, <2>5, <2>6, <2>7, QuietStep
<1>8. CASE ~queueReadOnly
  <2>1. /\ gameTaskQueue = <<>> /\ gameTaskQueue' = <<gameTask[l]>>
        /\ gameTask' = [gameTask EXCEPT ![l] = NoTask]
    BY <1>8 DEF PushesTask
  <2>2. LoopMoved(l) /\ pc'[l] \in {"acquireBlack", "top"}
    <3>1. CASE /\ rep' = [rep EXCEPT ![l] = @ + 1] /\ Goto(l, "acquireBlack")
               /\ UNCHANGED <<taskLoopMutex, numTasks, task, nets>>
      <4>1. {"push", "acquireBlack"} \subseteq LoopPcs \cap Holding \cap HasTask \cap HasNets
        BY DEF LoopPcs, Holding, HasTask, HasNets
      <4>2. /\ pc' \in [Worker -> LoopPcs \cup GamePcs] /\ pc'[l] = "acquireBlack"
            /\ \A v \in Worker \ {l} : pc'[v] = pc[v]
        BY <1>1, <3>1, <4>1, Moves
      <4>3. LoopTypes' BY <1>1, <3>1, <4>2, LoopTypesHold DEF LoopTypes
      <4>4. Stays(nets[l][1])' /\ Stays(nets[l][2])' BY <1>3, <1>4, <3>1 DEF Stays, hasModel
      <4>5. LoopOK(l)' BY <1>1, <1>2, <3>1, <4>1, <4>2, <4>4 DEF LoopOK
      <4> QED BY <3>1, <4>2, <4>3, <4>5 DEF LoopMoved
    <3>2. CASE EndsIteration(l, "top") BY <1>3, <3>2, IterationEnds
    <3> QED BY <1>8, <3>1, <3>2 DEF PushesTask
  <2>3. /\ gameTask' \in [Worker -> GameTask \cup {NoTask}] /\ gameTask'[l] = NoTask
        /\ \A v \in Worker \ {l} : gameTask'[v] = gameTask[v]
    BY <1>1, <1>5, <2>1
  <2>4. /\ gameTaskQueue' \in Seq(GameTask) /\ Len(gameTaskQueue') <= 1
        /\ gameTaskQueue' # <<>> /\ Head(gameTaskQueue') = gameTask[l]
    BY <1>1, <1>3, <1>5, <2>1
  <2>5. Types' BY <1>1, <1>2, <1>4, <1>5, <2>2, <2>3, <2>4, TypesKeep DEF LoopMoved
  <2>6. OnlyWorker(l) BY <2>2, <2>3 DEF OnlyWorker, LoopMoved
  <2>7. HandOK(l)' BY <2>2, <2>3 DEF HandOK, Carrying
  <2>8. Balanced(l)
    <3>1. ASSUME NEW g \in Manager, NEW n \in Model
          PROVE  /\ acquireCount'[g][n] + Bearing(l, <<g, n>>) + Queued(gameTaskQueue, <<g, n>>)
                      = acquireCount[g][n] + Bearing(l, <<g, n>>)' + Queued(gameTaskQueue', <<g, n>>)
                 /\ ~(acquireCount'[g][n] > acquireCount[g][n])
      <4>1. Bearing(l, <<g, n>>) = One(gameTask[l].nets[1] = <<g, n>>) + One(gameTask[l].nets[2] = <<g, n>>)
        BY <1>2 DEF Bearing, Bears, Carrying
      <4>2. Bearing(l, <<g, n>>)' = 0 BY <2>2 DEF Bearing, Bears, Carrying
      <4>3. Queued(gameTaskQueue, <<g, n>>) = 0 BY <2>1 DEF Queued
      <4>4. Queued(gameTaskQueue', <<g, n>>)
              = One(gameTask[l].nets[1] = <<g, n>>) + One(gameTask[l].nets[2] = <<g, n>>)
        BY <2>4 DEF Queued
      <4>5. acquireCount'[g][n] = acquireCount[g][n] /\ acquireCount[g][n] \in Nat
        BY <1>1, <1>4 DEF ManagersOK, ManagerTypeOK
      <4>6. One(gameTask[l].nets[1] = <<g, n>>) \in Nat /\ One(gameTask[l].nets[2] = <<g, n>>) \in Nat
        BY DEF One
      <4> QED BY <4>1, <4>2, <4>3, <4>4, <4>5, <4>6
    <3>2. numRatingGamesActive' + RatingOf(gameTask[l]) + QueuedRating(gameTaskQueue)
             = numRatingGamesActive + RatingOf(gameTask'[l]) + QueuedRating(gameTaskQueue')
      <4>1. RatingOf(gameTask'[l]) = 0 /\ QueuedRating(gameTaskQueue) = 0
        BY <2>1, <2>3 DEF RatingOf, QueuedRating
      <4>2. QueuedRating(gameTaskQueue') = RatingOf(gameTask[l])
        BY <1>3, <2>4 DEF RatingOf, QueuedRating
      <4>3. RatingOf(gameTask[l]) \in Nat BY DEF RatingOf
      <4> QED BY <1>2, <1>5, <4>1, <4>2, <4>3
    <3> QED BY <3>1, <3>2 DEF Balanced
  <2>9. LoopOK(l)' BY <2>2 DEF LoopMoved
  <2> QED BY <1>1, <1>2, <1>4, <1>6, <1>8, <2>5, <2>6, <2>7, <2>8, <2>9, WorkerKeeps
<1> QED BY <1>7, <1>8

\* A worker is somewhere else, and nobody else is.
WorkerMoved(w) ==
    /\ LoopTypes' /\ (w \in Loop => LoopOK(w)') /\ (w \in GameThread => GameOK(w)')
    /\ \A v \in Worker \ {w} : pc'[v] = pc[v]
    /\ \A l \in Loop \ {w} : task'[l] = task[l] /\ nets'[l] = nets[l]
    /\ taskLoopMutex' = taskLoopMutex \/ {taskLoopMutex, taskLoopMutex'} \subseteq {w, NoOne}

\* A loop that moves is a worker that moves.
LEMMA LoopIsWorker ==
  ASSUME NEW l \in Loop, LoopMoved(l)
  PROVE  WorkerMoved(l)
<1>1. l \notin GameThread BY WorkersAre
<1> QED BY <1>1 DEF WorkerMoved, LoopMoved

\* A game thread goes on, and exits only when there is nothing more to pop.
LEMMA GameGoesTo ==
  ASSUME IInv, NEW t \in GameThread, NEW next \in GamePcs, Goto(t, next), UNCHANGED loopVars,
         next = "exited" => queueReadOnly' /\ gameTaskQueue' = <<>>
  PROVE  WorkerMoved(t) /\ pc'[t] = next
<1>1. Types /\ t \in Worker /\ t \notin Loop /\ next \in LoopPcs \cup GamePcs BY WorkersAre DEF IInv
<1>2. /\ pc' \in [Worker -> LoopPcs \cup GamePcs] /\ pc'[t] = next
      /\ \A v \in Worker \ {t} : pc'[v] = pc[v]
  BY <1>1, Moves
<1>3. LoopTypes' BY <1>1, <1>2, LoopTypesHold DEF LoopTypes, loopVars
<1>4. GameOK(t)' BY <1>2 DEF GameOK
<1> QED BY <1>1, <1>2, <1>3, <1>4 DEF WorkerMoved, loopVars

\* What a worker refers to is counted.
LEMMA InUse ==
  ASSUME IInv, NEW w \in Worker, NEW g \in Manager, NEW n \in Model, Bearing(w, <<g, n>>) > 0
  PROVE  acquireCount[g][n] > 0 /\ Stays(<<g, n>>)
<1> DEFINE f == InHand(<<g, n>>)
           R == Worker \ {w}
<1>1. Counted(g, n) /\ \A v \in Worker : Counts(v) BY DEF IInv, Counts
<1>2. IsFiniteSet(Worker) /\ IsFiniteSet(R) /\ R \subseteq Worker BY WorkersAre, FS_Subset
<1>3. \A v \in Worker : f[v] = Bears(pc[v], nets[v], gameTask[v], <<g, n>>) BY <1>1, InHandIs
<1>4. (\A v \in Worker : f[v] \in Nat) /\ f[w] = Bearing(w, <<g, n>>)
  <2> HIDE DEF f
  <2> QED BY <1>3, BearsNat DEF Bearing
<1>5. Queued(gameTaskQueue, <<g, n>>) \in Nat BY DEF Queued, One
<1>6. References(g, n) = SumOver(f, Worker) + Queued(gameTaskQueue, <<g, n>>) BY ReferencesAre
<1> HIDE DEF f, R
<1>7. SumOver(f, Worker) = f[w] + SumOver(f, R) BY <1>2, <1>4, SumStep DEF R
<1>8. SumOver(f, R) \in Nat BY <1>2, <1>4, SumStep
<1>9. References(g, n) > 0 BY <1>4, <1>5, <1>6, <1>7, <1>8
<1> QED BY <1>1, <1>9 DEF Counted

\* A worker that frees its GameTask.
LEMMA FreeKeeps ==
  ASSUME IInv, NEW w \in Worker, Frees(w)
  PROVE  IInv'
<1>1. /\ Types /\ ManagersOK /\ HandOK(w) /\ (w \in Loop => LoopOK(w)) /\ (w \in GameThread => GameOK(w))
      /\ (w \in Loop) # (w \in GameThread)
  BY WorkersAre DEF IInv, ManagersOK, Types, TypeOK
<1>2. /\ gameTask \in [Worker -> GameTask \cup {NoTask}] /\ numRatingGamesActive \in Nat
      /\ gameTaskQueue \in Seq(GameTask) /\ Len(gameTaskQueue) <= 1
  BY <1>1 DEF Types, TypeOK
<1>3. UNCHANGED <<flagVars, stopVars, queueVars, mainPc>> BY DEF Frees
<1>4. pc[w] \in {"releaseBlack", "releaseWhite", "uncount"} BY DEF Frees
<1>5. gameTask[w] \in GameTask /\ gameTask[w] # NoTask BY <1>1, <1>2, <1>4 DEF HandOK, Carrying
<1>6. gameTask[w].nets \in Net \X Net BY <1>5 DEF GameTask
<1>7. w \in Loop => taskLoopMutex = w /\ pc[w] \in Holding \cap HasTask \cap HasNets
  BY <1>1, <1>4 DEF LoopOK, Holding, HasTask, HasNets
<1>8. CASE /\ pc[w] = "releaseBlack" /\ release(gameTask[w].nets[1][1], gameTask[w].nets[1][2])
           /\ Goto(w, "releaseWhite") /\ UNCHANGED <<gameTask, numRatingGamesActive, loopVars>>
  <2>1. PICK net \in Net : net = gameTask[w].nets[1] BY <1>6
  <2>2. net[1] \in Manager /\ net[2] \in Model /\ net = <<net[1], net[2]>> BY DEF Net
  <2>3. \A g, n : Bearing(w, <<g, n>>) = One(net = <<g, n>>) + One(gameTask[w].nets[2] = <<g, n>>)
    BY <1>8, <2>1 DEF Bearing, Bears, Carrying
  <2>4. acquireCount[net[1]][net[2]] > 0 /\ Stays(<<net[1], net[2]>>)
    <3>1. Bearing(w, <<net[1], net[2]>>) > 0 BY <2>2, <2>3 DEF One
    <3> QED BY <2>2, <3>1, InUse
  <2>5. /\ ManagersOK' /\ UNCHANGED <<leaving, modelDatas, destructorPc>>
        /\ acquireCount' = [acquireCount EXCEPT ![net[1]][net[2]] = @ - 1]
    BY <1>1, <1>8, <2>1, <2>2, <2>4, ReleaseKeeps
  <2>6. \A g \in Manager, n \in Model : acquireCount'[g][n] + One(net = <<g, n>>) = acquireCount[g][n]
    BY <1>1, <2>5, CountsLess
  <2>7. WorkerMoved(w) /\ pc'[w] = "releaseWhite"
    <3>1. CASE w \in Loop
      <4>1. "releaseWhite" \in LoopPcs \cap Holding /\ "releaseWhite" \notin WithOneNet \cup WithBothNets
        BY DEF LoopPcs, Holding, HasTask, HasNets, WithOneNet, WithBothNets
      <4>2. LoopMoved(w) /\ pc'[w] = "releaseWhite" BY <1>7, <1>8, <2>5, <3>1, <4>1, LoopGoesTo
      <4> QED BY <3>1, <4>2, LoopIsWorker
    <3>2. CASE w \in GameThread
      <4>1. "releaseWhite" \in GamePcs BY DEF GamePcs
      <4> QED BY <1>8, <3>2, <4>1, GameGoesTo
    <3> QED BY <1>1, <3>1, <3>2
  <2>8. Types' BY <1>1, <1>2, <1>3, <1>8, <2>5, <2>7, TypesKeep DEF WorkerMoved, queueVars
  <2>9. OnlyWorker(w) BY <1>8, <2>7 DEF OnlyWorker, WorkerMoved
  <2>10. HandOK(w)' BY <1>5, <1>8, <2>7 DEF HandOK, Carrying
  <2>11. \A n \in Net : Stays(n) => Stays(n)' BY <2>5, SameStay
  <2>12. Balanced(w)
    <3>1. ASSUME NEW g \in Manager, NEW n \in Model
          PROVE  /\ acquireCount'[g][n] + Bearing(w, <<g, n>>) + Queued(gameTaskQueue, <<g, n>>)
                      = acquireCount[g][n] + Bearing(w, <<g, n>>)' + Queued(gameTaskQueue', <<g, n>>)
                 /\ ~(acquireCount'[g][n] > acquireCount[g][n])
      <4>1. Bearing(w, <<g, n>>) = One(net = <<g, n>>) + One(gameTask[w].nets[2] = <<g, n>>) BY <2>3
      <4>2. Bearing(w, <<g, n>>)' = One(gameTask[w].nets[2] = <<g, n>>)
        BY <1>8, <2>7 DEF Bearing, Bears, Carrying
      <4>3. acquireCount'[g][n] + One(net = <<g, n>>) = acquireCount[g][n] BY <2>6
      <4>4. /\ acquireCount[g][n] \in Nat /\ acquireCount'[g][n] \in Nat /\ One(net = <<g, n>>) \in Nat
            /\ One(gameTask[w].nets[2] = <<g, n>>) \in Nat
        <5>1. acquireCount \in [Manager -> [Model -> Nat]] /\ acquireCount' \in [Manager -> [Model -> Nat]]
          BY <1>1, <2>5 DEF ManagersOK, ManagerTypeOK
        <5> QED BY <5>1 DEF One
      <4>5. gameTaskQueue' = gameTaskQueue /\ Queued(gameTaskQueue, <<g, n>>) \in Nat
        BY <1>3 DEF queueVars, Queued, One
      <4> QED BY <4>1, <4>2, <4>3, <4>4, <4>5
    <3>2. numRatingGamesActive' + RatingOf(gameTask[w]) + QueuedRating(gameTaskQueue)
             = numRatingGamesActive + RatingOf(gameTask'[w]) + QueuedRating(gameTaskQueue')
      BY <1>3, <1>8 DEF queueVars
    <3> QED BY <3>1, <3>2 DEF Balanced
  <2>13. UNCHANGED <<mainPc, destructorPc, queueReadOnly, gameTaskQueue>> BY <1>3, <2>5 DEF queueVars
  <2> QED BY <1>8, <2>5, <2>7, <2>8, <2>9, <2>10, <2>11, <2>12, <2>13, WorkerKeeps DEF WorkerMoved
<1>9. CASE /\ pc[w] = "releaseWhite" /\ release(gameTask[w].nets[2][1], gameTask[w].nets[2][2])
           /\ Goto(w, "uncount") /\ UNCHANGED <<gameTask, numRatingGamesActive, loopVars>>
  <2>1. PICK net \in Net : net = gameTask[w].nets[2] BY <1>6
  <2>2. net[1] \in Manager /\ net[2] \in Model /\ net = <<net[1], net[2]>> BY DEF Net
  <2>3. \A g, n : Bearing(w, <<g, n>>) = One(net = <<g, n>>)
    BY <1>9, <2>1 DEF Bearing, Bears, Carrying
  <2>4. acquireCount[net[1]][net[2]] > 0 /\ Stays(<<net[1], net[2]>>)
    <3>1. Bearing(w, <<net[1], net[2]>>) > 0 BY <2>2, <2>3 DEF One
    <3> QED BY <2>2, <3>1, InUse
  <2>5. /\ ManagersOK' /\ UNCHANGED <<leaving, modelDatas, destructorPc>>
        /\ acquireCount' = [acquireCount EXCEPT ![net[1]][net[2]] = @ - 1]
    BY <1>1, <1>9, <2>1, <2>2, <2>4, ReleaseKeeps
  <2>6. \A g \in Manager, n \in Model : acquireCount'[g][n] + One(net = <<g, n>>) = acquireCount[g][n]
    BY <1>1, <2>5, CountsLess
  <2>7. WorkerMoved(w) /\ pc'[w] = "uncount"
    <3>1. CASE w \in Loop
      <4>1. "uncount" \in LoopPcs \cap Holding /\ "uncount" \notin WithOneNet \cup WithBothNets
        BY DEF LoopPcs, Holding, HasTask, HasNets, WithOneNet, WithBothNets
      <4>2. LoopMoved(w) /\ pc'[w] = "uncount" BY <1>7, <1>9, <2>5, <3>1, <4>1, LoopGoesTo
      <4> QED BY <3>1, <4>2, LoopIsWorker
    <3>2. CASE w \in GameThread
      <4>1. "uncount" \in GamePcs BY DEF GamePcs
      <4> QED BY <1>9, <3>2, <4>1, GameGoesTo
    <3> QED BY <1>1, <3>1, <3>2
  <2>8. Types' BY <1>1, <1>2, <1>3, <1>9, <2>5, <2>7, TypesKeep DEF WorkerMoved, queueVars
  <2>9. OnlyWorker(w) BY <1>9, <2>7 DEF OnlyWorker, WorkerMoved
  <2>10. HandOK(w)' BY <1>5, <1>9, <2>7 DEF HandOK, Carrying
  <2>11. \A n \in Net : Stays(n) => Stays(n)' BY <2>5, SameStay
  <2>12. Balanced(w)
    <3>1. ASSUME NEW g \in Manager, NEW n \in Model
          PROVE  /\ acquireCount'[g][n] + Bearing(w, <<g, n>>) + Queued(gameTaskQueue, <<g, n>>)
                      = acquireCount[g][n] + Bearing(w, <<g, n>>)' + Queued(gameTaskQueue', <<g, n>>)
                 /\ ~(acquireCount'[g][n] > acquireCount[g][n])
      <4>1. Bearing(w, <<g, n>>) = One(net = <<g, n>>) BY <2>3
      <4>2. Bearing(w, <<g, n>>)' = 0
        BY <1>9, <2>7 DEF Bearing, Bears, Carrying
      <4>3. acquireCount'[g][n] + One(net = <<g, n>>) = acquireCount[g][n] BY <2>6
      <4>4. /\ acquireCount[g][n] \in Nat /\ acquireCount'[g][n] \in Nat /\ One(net = <<g, n>>) \in Nat
        <5>1. acquireCount \in [Manager -> [Model -> Nat]] /\ acquireCount' \in [Manager -> [Model -> Nat]]
          BY <1>1, <2>5 DEF ManagersOK, ManagerTypeOK
        <5> QED BY <5>1 DEF One
      <4>5. gameTaskQueue' = gameTaskQueue /\ Queued(gameTaskQueue, <<g, n>>) \in Nat
        BY <1>3 DEF queueVars, Queued, One
      <4> QED BY <4>1, <4>2, <4>3, <4>4, <4>5
    <3>2. numRatingGamesActive' + RatingOf(gameTask[w]) + QueuedRating(gameTaskQueue)
             = numRatingGamesActive + RatingOf(gameTask'[w]) + QueuedRating(gameTaskQueue')
      BY <1>3, <1>9 DEF queueVars
    <3> QED BY <3>1, <3>2 DEF Balanced
  <2>13. UNCHANGED <<mainPc, destructorPc, queueReadOnly, gameTaskQueue>> BY <1>3, <2>5 DEF queueVars
  <2> QED BY <1>9, <2>5, <2>7, <2>8, <2>9, <2>10, <2>11, <2>12, <2>13, WorkerKeeps DEF WorkerMoved
<1>10. CASE /\ pc[w] = "uncount" /\ UNCHANGED managerVars
            /\ gameTask' = [gameTask EXCEPT ![w] = NoTask]
           /\ numRatingGamesActive' = numRatingGamesActive - (IF gameTask[w].isRating THEN 1 ELSE 0)
           /\ IF w \in Loop THEN EndsIteration(w, "top") ELSE Goto(w, "pop") /\ UNCHANGED loopVars
  <2>5. ManagersOK' /\ UNCHANGED <<acquireCount, leaving, modelDatas, destructorPc>>
    BY <1>1, <1>10, ManagersRest
  <2>7. WorkerMoved(w) /\ pc'[w] \in {"top", "pop"}
    <3>1. CASE w \in Loop
      <4>1. LoopMoved(w) /\ pc'[w] = "top" BY <1>7, <1>10, <3>1, IterationEnds
      <4> QED BY <3>1, <4>1, LoopIsWorker
    <3>2. CASE w \in GameThread
      <4>1. "pop" \in GamePcs /\ w \notin Loop BY <3>2, WorkersAre DEF GamePcs
      <4> QED BY <1>10, <3>2, <4>1, GameGoesTo
    <3> QED BY <1>1, <3>1, <3>2
  <2>8. /\ gameTask' \in [Worker -> GameTask \cup {NoTask}] /\ gameTask'[w] = NoTask
        /\ \A v \in Worker \ {w} : gameTask'[v] = gameTask[v]
    BY <1>2, <1>10
  <2>9. numRatingGamesActive' = numRatingGamesActive - RatingOf(gameTask[w])
        /\ numRatingGamesActive' \in Nat
    <3>1. numRatingGamesActive' = numRatingGamesActive - RatingOf(gameTask[w])
      BY <1>5, <1>10 DEF RatingOf
    <3>2. RatingOf(gameTask[w]) <= numRatingGamesActive /\ RatingOf(gameTask[w]) \in Nat
      <4>1. /\ Cardinality(Rating) \in Nat
            /\ RatingOf(gameTask[w]) > 0 => Cardinality(Rating) # 0
        <5>1. IsFiniteSet(Rating) BY WorkersAre, FS_Subset DEF Rating
        <5>2. RatingOf(gameTask[w]) > 0 => w \in Rating BY DEF RatingOf, Rating
        <5> QED BY <5>1, <5>2, FS_CardinalityType, FS_EmptySet
      <4>2. numRatingGamesActive = Cardinality(Rating) + QueuedRating(gameTaskQueue)
        BY DEF IInv, RatingCounted, QueuedRating
      <4>3. QueuedRating(gameTaskQueue) \in Nat /\ RatingOf(gameTask[w]) \in {0, 1}
        BY DEF QueuedRating, RatingOf
      <4> QED BY <4>1, <4>2, <4>3
    <3> QED BY <1>2, <3>1, <3>2
  <2>10. Types' BY <1>1, <1>2, <1>3, <2>5, <2>7, <2>8, <2>9, TypesKeep DEF WorkerMoved, queueVars
  <2>11. OnlyWorker(w) BY <2>7, <2>8 DEF OnlyWorker, WorkerMoved
  <2>12. HandOK(w)' BY <2>7, <2>8 DEF HandOK, Carrying
  <2>13. \A n \in Net : Stays(n) => Stays(n)' BY <2>5, SameStay
  <2>14. Balanced(w)
    <3>1. ASSUME NEW g \in Manager, NEW n \in Model
          PROVE  /\ acquireCount'[g][n] + Bearing(w, <<g, n>>) + Queued(gameTaskQueue, <<g, n>>)
                      = acquireCount[g][n] + Bearing(w, <<g, n>>)' + Queued(gameTaskQueue', <<g, n>>)
                 /\ ~(acquireCount'[g][n] > acquireCount[g][n])
      <4>1. Bearing(w, <<g, n>>) = 0 BY <1>10 DEF Bearing, Bears
      <4>2. Bearing(w, <<g, n>>)' = 0 BY <2>7 DEF Bearing, Bears, Carrying
      <4>3. acquireCount'[g][n] = acquireCount[g][n] /\ acquireCount[g][n] \in Nat
        BY <1>1, <2>5 DEF ManagersOK, ManagerTypeOK
      <4>4. gameTaskQueue' = gameTaskQueue /\ Queued(gameTaskQueue, <<g, n>>) \in Nat
        BY <1>3 DEF queueVars, Queued, One
      <4> QED BY <4>1, <4>2, <4>3, <4>4
    <3>2. numRatingGamesActive' + RatingOf(gameTask[w]) + QueuedRating(gameTaskQueue)
             = numRatingGamesActive + RatingOf(gameTask'[w]) + QueuedRating(gameTaskQueue')
      <4>1. RatingOf(gameTask'[w]) = 0 BY <2>8 DEF RatingOf
      <4>2. gameTaskQueue' = gameTaskQueue /\ QueuedRating(gameTaskQueue) \in Nat
            /\ RatingOf(gameTask[w]) \in Nat
        BY <1>3 DEF queueVars, QueuedRating, RatingOf
      <4> QED BY <1>2, <2>9, <4>1, <4>2
    <3> QED BY <3>1, <3>2 DEF Balanced
  <2>15. UNCHANGED <<mainPc, destructorPc, queueReadOnly, gameTaskQueue>> BY <1>3, <2>5 DEF queueVars
  <2> QED BY <1>10, <2>5, <2>7, <2>10, <2>11, <2>12, <2>13, <2>14, <2>15, WorkerKeeps DEF WorkerMoved
<1> QED BY <1>8, <1>9, <1>10 DEF Frees

-----------------------------------------------------------------------------
(* The steps of a game thread.                                             *)

\* A game thread that does not acquire or release.
LEMMA GameStep ==
  ASSUME IInv, NEW t \in GameThread, NEW next \in GamePcs \ {"exited"}, Goto(t, next),
         ManagersOK', UNCHANGED <<acquireCount, leaving, modelDatas, destructorPc>>,
         UNCHANGED <<flagVars, stopVars, queueVars, loopVars, numRatingGamesActive, gameTask, mainPc>>,
         {pc[t], next} \subseteq Carrying \ {"releaseWhite", "uncount"}
  PROVE  IInv'
<1>1. Types /\ t \in Worker /\ pc[t] # "exited" BY WorkersAre DEF IInv, Carrying
<1>2. WorkerMoved(t) /\ pc'[t] = next BY GameGoesTo
<1>3. Types'
  <2>1. /\ gameTask \in [Worker -> GameTask \cup {NoTask}] /\ numRatingGamesActive \in Nat
        /\ gameTaskQueue \in Seq(GameTask) /\ Len(gameTaskQueue) <= 1
    BY <1>1 DEF Types, TypeOK
  <2> QED BY <1>1, <1>2, <2>1, TypesKeep DEF WorkerMoved, queueVars
<1>4. OnlyWorker(t) BY <1>2 DEF OnlyWorker, WorkerMoved
<1>5. \A net \in Net : Stays(net) => Stays(net)' BY SameStay
<1> QED BY <1>1, <1>2, <1>3, <1>4, <1>5, SameTask DEF WorkerMoved

\* A game thread plays, uploads and releases the nets.
LEMMA GamesKeep ==
  ASSUME IInv, NEW t \in GameThread, Games(t)
  PROVE  IInv'
<1>1. Types /\ ManagersOK /\ HandOK(t) /\ t \in Worker
  BY WorkersAre DEF IInv, ManagersOK, Types, TypeOK
<1>2. UNCHANGED <<flagVars, stopVars, queueVars, loopVars, numRatingGamesActive, gameTask, mainPc>>
  BY DEF Games
<1>3. {"check", "play", "upload", "uploading", "releaseBlack"} \subseteq
        (Carrying \ {"releaseWhite", "uncount"}) \cap (GamePcs \ {"exited"})
  BY DEF Carrying, GamePcs
<1>4. ASSUME UNCHANGED managerVars, pc[t] \in {"check", "play"},
             \E next \in {"releaseBlack", "play", "upload"} : Goto(t, next)
      PROVE  IInv'
  <2>1. ManagersOK' /\ UNCHANGED <<acquireCount, leaving, modelDatas, destructorPc>>
    BY <1>1, <1>4, ManagersRest
  <2>2. PICK next \in {"releaseBlack", "play", "upload"} : Goto(t, next) BY <1>4
  <2> QED BY <1>2, <1>3, <1>4, <2>1, <2>2, GameStep
<1>5. ASSUME NEW g \in Manager, NEW n, withDataWriters(g, n) \/ withDataWritersReturns(g),
             pc[t] \in {"upload", "uploading"}, \E next \in {"uploading", "releaseBlack"} : Goto(t, next)
      PROVE  IInv'
  <2>1. ManagersOK' /\ UNCHANGED <<acquireCount, leaving, modelDatas, destructorPc>>
    BY <1>1, <1>5, UploadKeeps
  <2>2. PICK next \in {"uploading", "releaseBlack"} : Goto(t, next) BY <1>5
  <2> QED BY <1>2, <1>3, <1>5, <2>1, <2>2, GameStep
<1>6. CASE pc[t] = "check" /\ Goto(t, IF Graceful THEN "releaseBlack" ELSE "play") /\ UNCHANGED managerVars
  BY <1>4, <1>6
<1>7. CASE /\ pc[t] = "play" /\ UNCHANGED managerVars
           /\ Goto(t, "releaseBlack") \/ Goto(t, "upload")
  BY <1>4, <1>7
<1>8. ASSUME pc[t] \in {"upload", "uploading"} PROVE gameTask[t].nets[1][1] \in Manager
  <2>1. gameTask[t] \in GameTask
    <3>1. gameTask \in [Worker -> GameTask \cup {NoTask}] BY <1>1 DEF Types, TypeOK
    <3>2. gameTask[t] # NoTask BY <1>1, <1>8 DEF HandOK, Carrying
    <3> QED BY <1>1, <3>1, <3>2
  <2> QED BY <2>1 DEF GameTask, Net
<1>9. CASE /\ pc[t] = "upload" /\ withDataWriters(gameTask[t].nets[1][1], gameTask[t].nets[1][2])
           /\ Goto(t, "uploading")
  BY <1>5, <1>8, <1>9
<1>10. CASE /\ pc[t] = "uploading" /\ withDataWritersReturns(gameTask[t].nets[1][1])
            /\ Goto(t, "releaseBlack")
  BY <1>5, <1>8, <1>10
<1> QED BY <1>6, <1>7, <1>9, <1>10 DEF Games

\* A sequence of length 0 is the empty one.
LEMMA NoneLeft == ASSUME NEW S, NEW q \in Seq(S), Len(q) = 0 PROVE q = <<>>
OBVIOUS

\* The GameTask goes from the queue to the hand.
LEMMA PopKeeps ==
  ASSUME IInv, NEW t \in GameThread, PopsTask(t)
  PROVE  IInv'
<1>1. Types /\ ManagersOK /\ HandOK(t) /\ t \in Worker /\ t \notin Loop
  BY WorkersAre DEF IInv, ManagersOK, Types, TypeOK
<1>2. /\ pc[t] = "pop"
      /\ UNCHANGED <<managerVars, flagVars, stopVars, queueReadOnly, loopVars, numRatingGamesActive, mainPc>>
  BY DEF PopsTask
<1>3. /\ gameTask \in [Worker -> GameTask \cup {NoTask}] /\ numRatingGamesActive \in Nat
      /\ gameTaskQueue \in Seq(GameTask) /\ Len(gameTaskQueue) <= 1
  BY <1>1 DEF Types, TypeOK
<1>4. ManagersOK' /\ UNCHANGED <<acquireCount, leaving, modelDatas, destructorPc>>
  BY <1>1, <1>2, ManagersRest
<1>5. CASE /\ gameTaskQueue # <<>> /\ gameTask' = [gameTask EXCEPT ![t] = Head(gameTaskQueue)]
           /\ gameTaskQueue' = Tail(gameTaskQueue) /\ Goto(t, "pauseGame")
  <2>1. Head(gameTaskQueue) \in GameTask /\ Tail(gameTaskQueue) = <<>>
    <3>1. PICK n \in Nat : n = Len(gameTaskQueue) BY <1>3
    <3>2. n = 1 BY <1>3, <1>5, <3>1
    <3>3. Tail(gameTaskQueue) \in Seq(GameTask) /\ Len(Tail(gameTaskQueue)) = 0
      <4> DEFINE q == gameTaskQueue
      <4>1. q \in Seq(GameTask) /\ Len(q) = 1 /\ q # <<>> BY <1>3, <1>5, <3>1, <3>2
      <4> HIDE DEF q
      <4>2. Tail(q) \in Seq(GameTask) BY <4>1
      <4>3. Len(Tail(q)) = Len(q) - 1 BY <4>1
      <4>4. Len(Tail(q)) = 0 BY <4>1, <4>3
      <4> QED BY <4>2, <4>4 DEF q
    <3>4. Tail(gameTaskQueue) = <<>> BY <3>3, NoneLeft
    <3>5. Head(gameTaskQueue) \in GameTask BY <1>3, <1>5
    <3> QED BY <3>4, <3>5
  <2>2. PICK gt \in GameTask : gt = Head(gameTaskQueue) BY <2>1
  <2>3. gt # NoTask BY ContributeAssumption
  <2>4. gameTask' \in [Worker -> GameTask \cup {NoTask}] /\ gameTask'[t] = gt
        /\ \A v \in Worker \ {t} : gameTask'[v] = gameTask[v]
    BY <1>1, <1>3, <1>5, <2>2
  <2>5. gameTaskQueue' = <<>> BY <1>5, <2>1
  <2>6. WorkerMoved(t) /\ pc'[t] = "pauseGame"
    <3>1. "pauseGame" \in GamePcs BY DEF GamePcs
    <3> QED BY <1>2, <1>5, <3>1, GameGoesTo
  <2>7. Types'
    <3>1. gameTaskQueue' \in Seq(GameTask) /\ Len(gameTaskQueue') <= 1 BY <2>5
    <3> QED BY <1>1, <1>2, <1>3, <1>4, <2>4, <2>6, <3>1, TypesKeep DEF WorkerMoved
  <2>8. OnlyWorker(t) BY <2>4, <2>6 DEF OnlyWorker, WorkerMoved
  <2>9. HandOK(t)' BY <2>3, <2>4, <2>6 DEF HandOK, Carrying
  <2>10. \A n \in Net : Stays(n) => Stays(n)' BY <1>4, SameStay
  <2>11. Balanced(t)
    <3>1. ASSUME NEW g \in Manager, NEW n \in Model
          PROVE  /\ acquireCount'[g][n] + Bearing(t, <<g, n>>) + Queued(gameTaskQueue, <<g, n>>)
                      = acquireCount[g][n] + Bearing(t, <<g, n>>)' + Queued(gameTaskQueue', <<g, n>>)
                 /\ ~(acquireCount'[g][n] > acquireCount[g][n])
      <4>1. Bearing(t, <<g, n>>) = 0 BY <1>2 DEF Bearing, Bears, Carrying
      <4>2. Bearing(t, <<g, n>>)' = One(gt.nets[1] = <<g, n>>) + One(gt.nets[2] = <<g, n>>)
        BY <2>4, <2>6 DEF Bearing, Bears, Carrying
      <4>3. Queued(gameTaskQueue, <<g, n>>) = One(gt.nets[1] = <<g, n>>) + One(gt.nets[2] = <<g, n>>)
        BY <1>5, <2>2 DEF Queued
      <4>4. Queued(gameTaskQueue', <<g, n>>) = 0 BY <2>5 DEF Queued
      <4>5. acquireCount'[g][n] = acquireCount[g][n] /\ acquireCount[g][n] \in Nat
        BY <1>1, <1>4 DEF ManagersOK, ManagerTypeOK
      <4>6. One(gt.nets[1] = <<g, n>>) \in Nat /\ One(gt.nets[2] = <<g, n>>) \in Nat
        BY DEF One
      <4> QED BY <4>1, <4>2, <4>3, <4>4, <4>5, <4>6
    <3>2. numRatingGamesActive' + RatingOf(gameTask[t]) + QueuedRating(gameTaskQueue)
             = numRatingGamesActive + RatingOf(gameTask'[t]) + QueuedRating(gameTaskQueue')
      <4>1. RatingOf(gameTask[t]) = 0 /\ QueuedRating(gameTaskQueue') = 0
        BY <1>1, <1>2, <2>5 DEF HandOK, Carrying, RatingOf, QueuedRating
      <4>2. QueuedRating(gameTaskQueue) = RatingOf(gameTask'[t])
        BY <1>5, <2>2, <2>3, <2>4 DEF RatingOf, QueuedRating
      <4>3. RatingOf(gameTask'[t]) \in Nat BY DEF RatingOf
      <4> QED BY <1>2, <1>3, <4>1, <4>2, <4>3
    <3> QED BY <3>1, <3>2 DEF Balanced
  <2> QED BY <1>1, <1>2, <1>4, <2>5, <2>6, <2>7, <2>8, <2>9, <2>10, <2>11, WorkerKeeps DEF WorkerMoved
<1>6. CASE /\ gameTaskQueue = <<>> /\ queueReadOnly /\ Goto(t, "exited")
           /\ UNCHANGED <<gameTask, gameTaskQueue>>
  <2>1. WorkerMoved(t) /\ pc'[t] = "exited"
    <3>1. "exited" \in GamePcs BY DEF GamePcs
    <3> QED BY <1>2, <1>6, <3>1, GameGoesTo
  <2>2. Types' BY <1>1, <1>2, <1>3, <1>4, <1>6, <2>1, TypesKeep DEF WorkerMoved
  <2>3. OnlyWorker(t) BY <1>6, <2>1 DEF OnlyWorker, WorkerMoved
  <2>4. {pc[t], pc'[t]} \cap (Carrying \cup {"acquireWhite"}) = {} BY <1>2, <2>1 DEF Carrying
  <2>5. UNCHANGED queueVars BY <1>2, <1>6 DEF queueVars
  <2> QED BY <1>1, <1>2, <1>6, <2>1, <2>2, <2>3, <2>4, <2>5, QuietStep DEF WorkerMoved
<1> QED BY <1>5, <1>6 DEF PopsTask

-----------------------------------------------------------------------------
(* The other steps.                                                        *)

\* A step that touches at most the flags, the main thread and the managers.
LEMMA OtherStep ==
  ASSUME IInv, ManagersOK', Phases', queueReadOnly' \in BOOLEAN, queueReadOnly => queueReadOnly',
         {shouldPause', finished', shouldStop', shouldStopGracefully'} \subseteq BOOLEAN,
         UNCHANGED <<loopVars, pc, gameTask, gameTaskQueue, numRatingGamesActive, acquireCount>>,
         \A net \in Net : Stays(net) =>
            Stays(net)' \/ ((\A l \in Loop : pc[l] = "exited") /\ acquireCount[net[1]][net[2]] = 0)
  PROVE  IInv'
<1>1. Types' BY DEF IInv, Types, TypeOK, ManagersOK, loopVars
<1> QED BY <1>1, NobodyMoves

\* The user, a signal, and the stop that is seen.
LEMMA ControlKeeps ==
  ASSUME IInv, controlLoop \/ signalHandler \/ SeesStop
  PROVE  IInv'
<1>1. ControlUnchanged /\ Types /\ ManagersOK /\ Phases
  BY DEF IInv, ManagersOK, Types, TypeOK, controlLoop, signalHandler, SeesStop
<1>2. {shouldPause', finished', shouldStop', shouldStopGracefully'} \subseteq BOOLEAN
  <2>1. {shouldPause, finished, shouldStop, shouldStopGracefully} \subseteq BOOLEAN
    BY <1>1 DEF Types, TypeOK
  <2>2. CASE controlLoop
    BY <2>1, <2>2 DEF controlLoop, stopVars, flagVars, flag!set, flag!setPermanently
  <2>3. CASE signalHandler BY <2>1, <2>3 DEF signalHandler, flagVars
  <2>4. CASE SeesStop BY <2>1, <2>4 DEF SeesStop, stopVars, flag!setPermanently
  <2> QED BY <2>2, <2>3, <2>4
<1>3. ManagersOK' /\ UNCHANGED <<acquireCount, leaving, modelDatas, destructorPc>>
  BY <1>1, ManagersRest DEF ControlUnchanged
<1>4. \A net \in Net : Stays(net) => Stays(net)' BY <1>3, SameStay
<1>5. Phases' BY <1>1, <1>3 DEF Phases, ControlUnchanged
<1>6. queueReadOnly' = queueReadOnly /\ queueReadOnly \in BOOLEAN
      /\ UNCHANGED <<loopVars, pc, gameTask, gameTaskQueue, numRatingGamesActive>>
  BY <1>1 DEF ControlUnchanged, queueVars, Types, TypeOK
<1> QED BY <1>2, <1>3, <1>4, <1>5, <1>6, OtherStep

\* The nets that are about to be unloaded are.
LEMMA UnloadingKeeps ==
  ASSUME IInv, UnloadingGoesOn
  PROVE  IInv'
<1>1. Types /\ ManagersOK /\ Phases BY DEF IInv, ManagersOK, Types, TypeOK
<1>2. PICK g \in Manager : Erases(g) BY DEF UnloadingGoesOn
<1>3. UNCHANGED <<flagVars, stopVars, queueVars, loopVars, numRatingGamesActive, pc, gameTask, mainPc>>
  BY DEF UnloadingGoesOn
<1>4. ManagersOK' /\ UNCHANGED <<acquireCount, destructorPc>> /\ AllStay BY <1>1, <1>2, EraseKeeps
<1>5. Phases' BY <1>1, <1>3, <1>4 DEF Phases
<1>6. {shouldPause', finished', shouldStop', shouldStopGracefully'} \subseteq BOOLEAN
      /\ queueReadOnly' = queueReadOnly /\ queueReadOnly \in BOOLEAN /\ gameTaskQueue' = gameTaskQueue
  BY <1>1, <1>3 DEF Types, TypeOK, flagVars, stopVars, queueVars
<1> QED BY <1>3, <1>4, <1>5, <1>6, OtherStep DEF AllStay

\* When everybody has exited nothing is referred to: the queue is empty as well.
LEMMA NothingIsCounted ==
  ASSUME IInv, \A l \in Loop : pc[l] = "exited", \A t \in GameThread : pc[t] = "exited"
  PROVE  /\ \A g \in Manager, n \in Model : acquireCount[g][n] = 0
         /\ numRatingGamesActive = 0
<1>1. \A w \in Worker : pc[w] = "exited" BY DEF Worker
<1>2. gameTaskQueue = <<>>
  <2>1. PICK t \in GameThread : TRUE BY ContributeAssumption
  <2> QED BY <2>1 DEF IInv, GameOK
<1>3. ASSUME NEW g \in Manager, NEW n \in Model PROVE acquireCount[g][n] = 0
  <2> DEFINE f == InHand(<<g, n>>)
  <2>1. Counted(g, n) /\ \A v \in Worker : Counts(v) BY DEF IInv, Counts
  <2>2. \A v \in Worker : f[v] = 0
    <3>1. \A v \in Worker : f[v] = Bears(pc[v], nets[v], gameTask[v], <<g, n>>) BY <2>1, InHandIs
    <3> HIDE DEF f
    <3> QED BY <1>1, <3>1 DEF Bears, Carrying
  <2>3. References(g, n) = SumOver(f, Worker) + Queued(gameTaskQueue, <<g, n>>) BY ReferencesAre
  <2> HIDE DEF f
  <2>4. SumOver(f, Worker) = 0 BY <2>2, WorkersAre, SumOfZeros
  <2>5. Queued(gameTaskQueue, <<g, n>>) = 0 BY <1>2 DEF Queued
  <2> QED BY <2>1, <2>3, <2>4, <2>5 DEF Counted
<1>4. numRatingGamesActive = 0
  <2>1. Rating = {} BY <1>1 DEF IInv, HandOK, Carrying, Rating
  <2>2. Cardinality(Rating) = 0 BY <2>1, FS_EmptySet
  <2> QED BY <1>2, <2>2 DEF IInv, RatingCounted
<1> QED BY <1>3, <1>4

\* The main thread destroys the managers when nobody uses them.
LEMMA ShutdownKeeps ==
  ASSUME IInv, Shutdown
  PROVE  IInv'
<1>1. Types /\ ManagersOK /\ Phases BY DEF IInv, ManagersOK, Types, TypeOK
<1>2. UNCHANGED <<loopVars, numRatingGamesActive, pc, gameTask>> BY DEF Shutdown, MainUnchanged
<1>3. {shouldPause, finished, shouldStop, shouldStopGracefully, queueReadOnly} \subseteq BOOLEAN
  BY <1>1 DEF Types, TypeOK
<1>4. /\ {shouldPause', finished', shouldStop', shouldStopGracefully'} \subseteq BOOLEAN
      /\ queueReadOnly' \in BOOLEAN /\ (queueReadOnly => queueReadOnly') /\ gameTaskQueue' = gameTaskQueue
  <2>1. UNCHANGED <<shouldPause, finished>> \/ (shouldPause' = FALSE /\ finished' = TRUE)
    BY DEF Shutdown, flagVars, flag!setPermanently
  <2>2. gameTaskQueue' = gameTaskQueue /\ queueReadOnly' \in {queueReadOnly, TRUE}
    BY DEF Shutdown, queueVars
  <2>3. shouldStop' \in {shouldStop, TRUE} /\ shouldStopGracefully' \in {shouldStopGracefully, TRUE}
    BY DEF Shutdown, stopVars
  <2>4. shouldPause \in BOOLEAN /\ finished \in BOOLEAN /\ shouldStop \in BOOLEAN
        /\ shouldStopGracefully \in BOOLEAN /\ queueReadOnly \in BOOLEAN
    BY <1>3
  <2>5. shouldPause' \in BOOLEAN /\ finished' \in BOOLEAN /\ shouldStop' \in BOOLEAN
        /\ shouldStopGracefully' \in BOOLEAN
    BY <2>1, <2>3, <2>4
  <2>6. queueReadOnly' \in BOOLEAN /\ (queueReadOnly => queueReadOnly') BY <2>2, <2>4
  <2> QED BY <2>2, <2>5, <2>6
<1>5. ASSUME UNCHANGED managerVars, mainPc' # mainPc,
             \/ mainPc = "run" /\ mainPc' = "joinLoops"
             \/ mainPc = "joinLoops" /\ mainPc' = "joinGames" /\ \A l \in Loop : pc[l] = "exited"
             \/ mainPc = "joinGames" /\ mainPc' = "unpause" /\ \A t \in GameThread : pc[t] = "exited"
             \/ mainPc = "unpause" /\ mainPc' = "delete"
             \/ mainPc = "delete" /\ mainPc' = "done" /\ destructorPc["rating"] = "done"
      PROVE  IInv'
  <2>1. ManagersOK' /\ UNCHANGED <<acquireCount, leaving, modelDatas, destructorPc>>
    BY <1>1, <1>5, ManagersRest
  <2>2. \A net \in Net : Stays(net) => Stays(net)' BY <2>1, SameStay
  <2>3. Phases' BY <1>1, <1>2, <1>5, <2>1 DEF Phases
  <2> QED BY <1>2, <1>4, <2>1, <2>2, <2>3, OtherStep
<1>6. ASSUME NEW g \in Manager, Destroys(g) \/ DestructorWaits(g), mainPc = "delete", UNCHANGED mainPc,
             g = "rating" => destructorPc["selfplay"] = "done"
      PROVE  IInv'
  <2>1. (\A l \in Loop : pc[l] = "exited") /\ (\A t \in GameThread : pc[t] = "exited")
    BY <1>1, <1>6 DEF Phases
  <2>2. \A net \in Net : acquireCount[net[1]][net[2]] = 0 BY <2>1, NothingIsCounted DEF Net
  <2>3. /\ ManagersOK' /\ UNCHANGED acquireCount
        /\ \E next \in {"wait", "done"} : destructorPc' = [destructorPc EXCEPT ![g] = next]
        /\ destructorPc[g] # "done"
    <3>1. CASE Destroys(g) BY <1>1, <3>1, DestroyKeeps
    <3>2. CASE DestructorWaits(g) BY <1>1, <3>2, WaitKeeps
    <3> QED BY <1>6, <3>1, <3>2
  <2>4. Phases'
    <3>1. "selfplay" \in Manager /\ "rating" \in Manager /\ g \in {"selfplay", "rating"}
      BY ContributeAssumption
    <3>2. destructorPc \in [Manager -> {"none", "wait", "asleep", "done"}]
      BY <1>1 DEF ManagersOK, ManagerTypeOK
    <3>3. destructorPc'["rating"] # "none" => destructorPc'["selfplay"] = "done"
      BY <1>1, <1>6, <2>3, <3>1, <3>2 DEF Phases
    <3> QED BY <1>1, <1>2, <1>6, <3>3 DEF Phases
  <2> QED BY <1>2, <1>4, <2>1, <2>2, <2>3, <2>4, OtherStep
<1>7. "selfplay" \in Manager /\ "rating" \in Manager BY ContributeAssumption
<1>8. CASE \/ MainGoto("run", "joinLoops") /\ UNCHANGED managerVars
           \/ /\ MainGoto("joinLoops", "joinGames") /\ \A l \in Loop : pc[l] = "exited"
              /\ UNCHANGED managerVars
           \/ /\ MainGoto("joinGames", "unpause") /\ \A t \in GameThread : pc[t] = "exited"
              /\ UNCHANGED managerVars
           \/ MainGoto("unpause", "delete") /\ UNCHANGED managerVars
           \/ /\ mainPc = "delete" /\ mainPc' = "done" /\ destructorPc["rating"] = "done"
              /\ UNCHANGED managerVars
  BY <1>5, <1>8 DEF MainGoto
<1>9. CASE /\ mainPc = "delete" /\ UNCHANGED mainPc
           /\ \/ Destroys("selfplay") \/ DestructorWaits("selfplay")
              \/ destructorPc["selfplay"] = "done" /\ (Destroys("rating") \/ DestructorWaits("rating"))
  BY <1>6, <1>7, <1>9
<1> QED BY <1>8, <1>9 DEF Shutdown
-----------------------------------------------------------------------------
(* The theorem.                                                            *)

\* The invariant holds when the command starts.
LEMMA InitIsSound == Init => IInv
<1> SUFFICES ASSUME Init PROVE IInv OBVIOUS
<1> USE DEF Init
<1>1. ManagerTypeOK /\ \A g \in Manager : ManagerOK(g)
  <2>1. ToSet(<<>>) = {} BY DEF ToSet
  <2> QED BY <2>1 DEF ManagerInit, ManagerTypeOK, ManagerOK
<1>2. Types
  <2>1. \A w \in Worker : pc[w] \in LoopPcs \cup GamePcs BY DEF LoopPcs, GamePcs
  <2>2. {shouldPause, finished, shouldStop, shouldStopGracefully, queueReadOnly} \subseteq BOOLEAN
    BY DEF flag!Init
  <2>3. taskLoopMutex \in Loop \cup {NoOne} /\ numTasks \in 0..MaxTasks /\ numRatingGamesActive \in Nat
    BY ContributeAssumption
  <2>4. gameTaskQueue \in Seq(GameTask) /\ Len(gameTaskQueue) <= 1 OBVIOUS
  <2>5. gameTask \in [Worker -> GameTask \cup {NoTask}] OBVIOUS
  <2>6. \A l \in Loop : nets[l] = <<>> OBVIOUS
  <2>7. TypeOK BY <1>1, <2>2, <2>3, <2>4, <2>5, <2>6 DEF TypeOK
  <2>8. pc \in [Worker -> LoopPcs \cup GamePcs] BY <2>1
  <2>9. task \in [Loop -> Asked \cup {NoTask}] /\ nets \in [Loop -> (Net \X Net) \cup {<<>>}] OBVIOUS
  <2> QED BY <2>7, <2>8, <2>9 DEF Types
<1>3. \A l \in Loop : LoopOK(l)
  BY WorkersAre, ContributeAssumption DEF LoopOK, LoopPcs, Holding, HasTask, HasNets
<1>4. \A t \in GameThread : GameOK(t) BY WorkersAre DEF GameOK, GamePcs
<1>5. \A w \in Worker : HandOK(w) BY DEF HandOK, Carrying
<1>6. ASSUME NEW g \in Manager, NEW n \in Model PROVE Counted(g, n)
  <2> DEFINE f == InHand(<<g, n>>)
  <2>1. \A v \in Worker : Counts(v) BY <1>4, <1>5 DEF Counts
  <2>2. \A v \in Worker : f[v] = 0
    <3>1. \A v \in Worker : f[v] = Bears(pc[v], nets[v], gameTask[v], <<g, n>>) BY <2>1, InHandIs
    <3> HIDE DEF f
    <3> QED BY <3>1 DEF Bears, Carrying
  <2>3. References(g, n) = SumOver(f, Worker) + Queued(gameTaskQueue, <<g, n>>) BY ReferencesAre
  <2> HIDE DEF f
  <2>4. SumOver(f, Worker) = 0 BY <2>2, WorkersAre, SumOfZeros
  <2>5. Queued(gameTaskQueue, <<g, n>>) = 0 BY DEF Queued
  <2>6. acquireCount[g][n] = 0 BY DEF ManagerInit
  <2> QED BY <2>3, <2>4, <2>5, <2>6 DEF Counted
<1>7. RatingCounted
  <2>1. Rating = {} BY DEF Rating
  <2> QED BY <2>1, FS_EmptySet DEF RatingCounted
<1>8. Phases BY ContributeAssumption DEF Phases, ManagerInit
<1> QED BY <1>1, <1>2, <1>3, <1>4, <1>5, <1>6, <1>7, <1>8 DEF IInv

\* Every step keeps it.
LEMMA NextKeepsInv == IInv /\ [Next]_vars => IInv'
<1> SUFFICES ASSUME IInv, [Next]_vars PROVE IInv' OBVIOUS
<1>1. ASSUME NEW l \in Loop, LoopGoesOn(l) PROVE IInv'
  BY <1>1, StartKeeps, LockKeeps, CleanKeeps, GetTaskKeeps, LookKeeps, DownloadKeeps, RelockKeeps,
     ChooseKeeps, LoadsKeep, HasLoadedKeeps, AllocatesKeep, PushKeeps
  DEF LoopGoesOn
<1>2. ASSUME NEW t \in GameThread, PopsTask(t) \/ Games(t) PROVE IInv' BY <1>2, PopKeeps, GamesKeep
<1>3. ASSUME NEW w \in Worker, WorkerGoesOn(w) PROVE IInv' BY <1>3, PausesKeep, FreeKeeps DEF WorkerGoesOn
<1>4. CASE UnloadingGoesOn BY <1>4, UnloadingKeeps
<1>5. CASE Shutdown BY <1>5, ShutdownKeeps
<1>6. CASE controlLoop \/ signalHandler \/ SeesStop BY <1>6, ControlKeeps
<1>7. CASE UNCHANGED vars
  <2>1. UNCHANGED <<managerVars, flagVars, stopVars, queueVars, loopVars, numRatingGamesActive, pc,
                    gameTask, mainPc>>
    BY <1>7 DEF vars
  <2>2. Types /\ ManagersOK /\ Phases BY DEF IInv, ManagersOK, Types, TypeOK
  <2>3. ManagersOK' /\ UNCHANGED <<acquireCount, leaving, modelDatas, destructorPc>>
    BY <2>1, <2>2, ManagersRest
  <2>4. \A net \in Net : Stays(net) => Stays(net)' BY <2>3, SameStay
  <2>5. Phases' BY <2>1, <2>2, <2>3 DEF Phases
  <2>6. {shouldPause', finished', shouldStop', shouldStopGracefully'} \subseteq BOOLEAN
        /\ queueReadOnly' = queueReadOnly /\ queueReadOnly \in BOOLEAN /\ gameTaskQueue' = gameTaskQueue
    BY <2>1, <2>2 DEF Types, TypeOK, flagVars, stopVars, queueVars
  <2> QED BY <2>1, <2>3, <2>4, <2>5, <2>6, OtherStep
<1> QED BY <1>1, <1>2, <1>3, <1>4, <1>5, <1>6, <1>7 DEF Next

\* What the run checks follows from the invariant.
LEMMA InvIsEnough == IInv => NetsAreCountedAndLoaded
<1> SUFFICES ASSUME IInv PROVE NetsAreCountedAndLoaded OBVIOUS
<1>1. Types /\ ManagersOK /\ Phases BY DEF IInv, ManagersOK, Types, TypeOK
<1>2. ASSUME NEW g \in Manager, NEW n \in Model
      PROVE  /\ acquireCount[g][n] = References(g, n) /\ acquireCount[g][n] \in Nat
             /\ acquireCount[g][n] > 0 => hasModel(g, n) /\ n \notin leaving[g]
  <2>1. Counted(g, n) BY DEF IInv
  <2>2. acquireCount[g][n] \in Nat BY <1>1 DEF ManagersOK, ManagerTypeOK
  <2> QED BY <2>1, <2>2 DEF Counted, Stays
<1>3. ManagerAsserts
  <2>1. ASSUME NEW g \in Manager, NEW n \in Model
        PROVE  /\ n \in leaving[g] \/ writerPc[g][n] \in {"lock", "delete"} => acquireCount[g][n] = 0
               /\ writerPc[g][n] \notin {"delete", "exited"}
    BY <1>1, <1>2 DEF ManagersOK, ManagerOK
  <2>2. \A g \in Manager : ToSet(modelDatas[g]) \subseteq allocated[g] BY <1>1 DEF ManagersOK, ManagerOK
  <2> QED BY <2>1, <2>2 DEF ManagerAsserts
<1>4. NetsOfTaskAreLoaded
  <2> SUFFICES ASSUME NEW l \in Loop
               PROVE  /\ pc[l] \in {"loaded", "acquireBlack", "acquireWhite"} =>
                           \A i \in 1..2 : hasModel(nets[l][i][1], nets[l][i][2])
                      /\ pc[l] = "loadWhite" => hasModel(nets[l][1][1], nets[l][1][2])
    BY DEF NetsOfTaskAreLoaded
  <2>1. LoopOK(l) BY DEF IInv
  <2>2. \A i \in 1..2 : i = 1 \/ i = 2 OBVIOUS
  <2> QED BY <2>1, <2>2 DEF LoopOK, Stays
<1>5. ReferencesAreCounted
  <2>1. ASSUME NEW g \in Manager, NEW n \in Model
        PROVE  /\ acquireCount[g][n] = References(g, n)
               /\ References(g, n) > 0 => n \in allocated[g] /\ hasModel(g, n) /\ n \notin leaving[g]
    BY <1>1, <1>2 DEF ManagersOK, ManagerOK, hasModel
  <2>2. ASSUME mainPc = "done"
        PROVE  allocated = [g \in Manager |-> {}] /\ numRatingGamesActive = 0
    <3>1. \A g \in Manager : destructorPc[g] = "done" BY <1>1, <2>2, ContributeAssumption DEF Phases
    <3>2. ToSet(<<>>) = {} BY DEF ToSet
    <3>3. \A g \in Manager : allocated[g] = {} BY <1>1, <3>1, <3>2 DEF ManagersOK, ManagerOK
    <3>4. allocated = [g \in Manager |-> {}] BY <1>1, <3>3 DEF ManagersOK, ManagerTypeOK
    <3> QED BY <1>1, <2>2, <3>4, NothingIsCounted DEF Phases
  <2> QED BY <2>1, <2>2 DEF ReferencesAreCounted
<1> QED BY <1>1, <1>3, <1>4, <1>5 DEF NetsAreCountedAndLoaded, Types

\* With any number of task loops and of game threads: the nets of a task stay
\* loaded until they are acquired, and a manager counts a net as often as tasks
\* refer to it, so that no net is unloaded in use and none is left at the end.
THEOREM NetsStayCountedAndLoaded == Spec => []NetsAreCountedAndLoaded
<1>1. Init => IInv BY InitIsSound
<1>2. IInv /\ [Next]_vars => IInv' BY NextKeepsInv
<1>3. IInv => NetsAreCountedAndLoaded BY InvIsEnough
<1> QED BY <1>1, <1>2, <1>3, PTL DEF Spec

=============================================================================
