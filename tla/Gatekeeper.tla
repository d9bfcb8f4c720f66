----------------------------- MODULE Gatekeeper -----------------------------
(***************************************************************************)
(* The gatekeeper command (command/gatekeeper.cpp): the main thread takes  *)
(* the newest net that waits for a test, has game threads play it against  *)
(* the newest accepted one, and moves it to the accepted or the rejected   *)
(* ones when a data write loop has counted the games.                      *)
(*                                                                         *)
(* Nets are numbered by the time of their files; 0 is the accepted net at  *)
(* the start, or the random one if there is none.  Points are counted in   *)
(* halves: a game gives two, and a draw gives each side one.  The result   *)
(* of a game, which nobody sees before, is chosen when it is tallied.      *)
(* Sections of netAndStuffMutex are one step; numGameThreads, which is     *)
(* never read, is left out, and so is what the write loop logs after its   *)
(* last use of the match.                                                  *)
(***************************************************************************)
EXTENDS Integers, FiniteSetsExt

CONSTANTS Thread,       \* the game threads
          NumGamesPerGating,
          MaxCandidates,   \* bound: the nets that ever arrive
          NoNet

VARIABLES shouldStop,
          noAutoRejectOldModels, quitIfNoNetsToTest,      \* switches of the command
          testModels, acceptedModels, rejectedModels,     \* the directories
          netAndStuff,                                    \* the net under test
          isDraining, finishedGameQueue, terminated,      \* of netAndStuff
          numGamesStartedSoFar,
          numGamesTallied, numBaselineWinPoints, numCandidateWinPoints,
          netAndStuffDataIsWritten,
          writerPc, gamePc, mainPc

switches    == <<noAutoRejectOldModels, quitIfNoNetsToTest>>
directories == <<testModels, acceptedModels, rejectedModels>>
tally       == <<numGamesTallied, numBaselineWinPoints, numCandidateWinPoints>>
match       == <<isDraining, finishedGameQueue, terminated, numGamesStartedSoFar, tally,
                 netAndStuffDataIsWritten, writerPc, gamePc>>
vars == <<shouldStop, switches, directories, netAndStuff, match, mainPc>>

Candidate == 1..MaxCandidates

NewMatch ==
    /\ isDraining' = FALSE /\ finishedGameQueue' = 0 /\ terminated' = FALSE
    /\ numGamesStartedSoFar' = 0
    /\ numGamesTallied' = 0 /\ numBaselineWinPoints' = 0 /\ numCandidateWinPoints' = 0

Init ==
    /\ shouldStop = FALSE
    /\ noAutoRejectOldModels \in BOOLEAN /\ quitIfNoNetsToTest \in BOOLEAN
    /\ testModels = {} /\ acceptedModels = {0} /\ rejectedModels = {}
    /\ netAndStuff = NoNet
    /\ isDraining = FALSE /\ finishedGameQueue = 0 /\ terminated = FALSE
    /\ numGamesStartedSoFar = 0
    /\ numGamesTallied = 0 /\ numBaselineWinPoints = 0 /\ numCandidateWinPoints = 0
    /\ netAndStuffDataIsWritten = FALSE
    /\ writerPc = "none" /\ gamePc = [t \in Thread |-> "none"] /\ mainPc = "poll"

\* The training exports a net for a test.
NetArrives ==
    LET next == Cardinality(testModels \cup acceptedModels \cup rejectedModels)
    IN  /\ next \in Candidate
        /\ testModels' = testModels \cup {next}
        /\ UNCHANGED <<shouldStop, switches, acceptedModels, rejectedModels, netAndStuff,
                       match, mainPc>>

signalHandler ==
    /\ ~shouldStop /\ shouldStop' = TRUE
    /\ UNCHANGED <<switches, directories, netAndStuff, match, mainPc>>

shouldStopFunc == shouldStop \/ terminated

-----------------------------------------------------------------------------
(* A game thread.                                                          *)

GameGoto(t, next) == gamePc' = [gamePc EXCEPT ![t] = next]
OthersUnchanged ==
    UNCHANGED <<shouldStop, switches, directories, netAndStuff, isDraining, terminated, tally,
                netAndStuffDataIsWritten, writerPc, mainPc>>

\* The test is made with the mutex, before every game.
LooksForGame(t) ==
    /\ gamePc[t] = "loop"
    /\ GameGoto(t, IF shouldStopFunc THEN "exited" ELSE "matchup")
    /\ UNCHANGED <<finishedGameQueue, numGamesStartedSoFar>> /\ OthersUnchanged

getMatchup(t) ==
    /\ gamePc[t] = "matchup"
    /\ IF numGamesStartedSoFar >= NumGamesPerGating
       THEN GameGoto(t, "exited") /\ UNCHANGED numGamesStartedSoFar
       ELSE GameGoto(t, "play") /\ numGamesStartedSoFar' = numGamesStartedSoFar + 1
    /\ UNCHANGED finishedGameQueue /\ OthersUnchanged

\* A game that finds an order to stop at its end is deleted.
EndsGame(t) ==
    /\ gamePc[t] = "play"
    /\ GameGoto(t, IF shouldStopFunc THEN "exited" ELSE "push")
    /\ UNCHANGED <<finishedGameQueue, numGamesStartedSoFar>> /\ OthersUnchanged

PushesGame(t) ==
    /\ gamePc[t] = "push"
    /\ finishedGameQueue' = finishedGameQueue + 1
    /\ GameGoto(t, "loop")
    /\ UNCHANGED numGamesStartedSoFar /\ OthersUnchanged

-----------------------------------------------------------------------------
(* The data write loop.                                                    *)

WriterUnchanged ==
    UNCHANGED <<shouldStop, switches, directories, netAndStuff, isDraining, numGamesStartedSoFar,
                gamePc, mainPc>>

\* One side leads by more than the rest of the games can give the other.
Decided(baseline, candidate, tallied) ==
    LET remaining == 2 * (NumGamesPerGating - tallied)
    IN  /\ remaining > 0
        /\ candidate >= baseline + remaining \/ baseline > candidate + remaining

TalliesGame(points) ==
    /\ writerPc = "pop" /\ finishedGameQueue > 0
    /\ finishedGameQueue' = finishedGameQueue - 1
    /\ numGamesTallied' = numGamesTallied + 1
    /\ numCandidateWinPoints' = numCandidateWinPoints + points
    /\ numBaselineWinPoints' = numBaselineWinPoints + (2 - points)
    /\ terminated' = (terminated \/ Decided(numBaselineWinPoints', numCandidateWinPoints',
                                            numGamesTallied'))
    /\ UNCHANGED <<netAndStuffDataIsWritten, writerPc>> /\ WriterUnchanged

\* The pop fails; then, with the mutex, the flag.
EndsWriting ==
    /\ \/ /\ writerPc = "pop" /\ finishedGameQueue = 0 /\ isDraining
          /\ writerPc' = "flag" /\ UNCHANGED netAndStuffDataIsWritten
       \/ /\ writerPc = "flag"
          /\ netAndStuffDataIsWritten' = TRUE /\ writerPc' = "none"
    /\ UNCHANGED <<finishedGameQueue, terminated, tally>> /\ WriterUnchanged

-----------------------------------------------------------------------------
(* The main thread.                                                        *)

findLatestModel(dir) == Max(dir)

Quits ==
    /\ mainPc = "poll" /\ shouldStop
    /\ mainPc' = "done"
    /\ UNCHANGED <<shouldStop, switches, directories, netAndStuff, match>>

\* Without a net it sleeps and polls again, or orders itself to stop.
FindsNoNet ==
    /\ mainPc = "poll" /\ ~shouldStop /\ testModels = {} /\ quitIfNoNetsToTest
    /\ shouldStop' = TRUE
    /\ UNCHANGED <<switches, directories, netAndStuff, match, mainPc>>

IsOld(net) == findLatestModel(acceptedModels) > net /\ ~noAutoRejectOldModels

RejectsOldNet ==
    /\ mainPc = "poll" /\ ~shouldStop /\ testModels # {}
    /\ LET net == findLatestModel(testModels)
       IN  /\ IsOld(net)
           /\ testModels' = testModels \ {net}
           /\ rejectedModels' = rejectedModels \cup {net}
    /\ UNCHANGED <<shouldStop, switches, acceptedModels, netAndStuff, match, mainPc>>

\* A load takes long.
loadLatestNeuralNet ==
    /\ mainPc = "poll" /\ ~shouldStop /\ testModels # {}
    /\ ~IsOld(findLatestModel(testModels))
    /\ netAndStuff' = findLatestModel(testModels)
    /\ NewMatch
    /\ mainPc' = "spawn"
    /\ UNCHANGED <<shouldStop, switches, directories, netAndStuffDataIsWritten, writerPc, gamePc>>

DeletesNet == netAndStuff' = NoNet /\ mainPc' = "done" /\ UNCHANGED match

StartsMatch ==
    /\ mainPc = "spawn"
    /\ \/ shouldStop /\ DeletesNet
       \/ /\ ~shouldStop
          /\ netAndStuffDataIsWritten' = FALSE
          /\ writerPc' = "pop" /\ gamePc' = [t \in Thread |-> "loop"]
          /\ mainPc' = "join"
          /\ UNCHANGED <<netAndStuff, isDraining, finishedGameQueue, terminated,
                         numGamesStartedSoFar, tally>>
    /\ UNCHANGED <<shouldStop, switches, directories>>

\* When the game threads have returned.
markAsDraining ==
    /\ mainPc = "join" /\ \A t \in Thread : gamePc[t] = "exited"
    /\ isDraining' = TRUE
    /\ mainPc' = "await"
    /\ UNCHANGED <<shouldStop, switches, directories, netAndStuff, finishedGameQueue, terminated,
                   numGamesStartedSoFar, tally, netAndStuffDataIsWritten, writerPc, gamePc>>

\* mutant of EndsMatch: the match counts although a signal may have cut it short
EndsMatchAnyhow ==
    /\ mainPc = "await" /\ netAndStuffDataIsWritten
    /\ mainPc' = "judge"
    /\ UNCHANGED <<netAndStuff, match, shouldStop, switches, directories>>

\* A match that a signal may have cut short is forgotten.
EndsMatch ==
    /\ mainPc = "await" /\ netAndStuffDataIsWritten
    /\ IF shouldStop THEN DeletesNet
                     ELSE mainPc' = "judge" /\ UNCHANGED <<netAndStuff, match>>
    /\ UNCHANGED <<shouldStop, switches, directories>>

Judges ==
    /\ mainPc = "judge"
    /\ testModels' = testModels \ {netAndStuff}
    /\ IF numBaselineWinPoints > numCandidateWinPoints
       THEN /\ rejectedModels' = rejectedModels \cup {netAndStuff}
            /\ UNCHANGED acceptedModels
       ELSE /\ acceptedModels' = acceptedModels \cup {netAndStuff}
            /\ UNCHANGED rejectedModels
    /\ netAndStuff' = NoNet
    /\ mainPc' = "poll"
    /\ UNCHANGED <<shouldStop, switches, match>>

-----------------------------------------------------------------------------
GameThread(t) == LooksForGame(t) \/ getMatchup(t) \/ EndsGame(t) \/ PushesGame(t)
runWriteDataLoop == EndsWriting \/ \E points \in 0..2 : TalliesGame(points)
MainThread ==
    \/ Quits \/ FindsNoNet \/ RejectsOldNet \/ loadLatestNeuralNet
    \/ StartsMatch \/ markAsDraining \/ EndsMatch \/ Judges

Next ==
    \/ NetArrives \/ signalHandler \/ MainThread \/ runWriteDataLoop
    \/ \E t \in Thread : GameThread(t)

\* Every thread runs and games end; nets and signals need not come.
Fairness ==
    /\ WF_vars(MainThread) /\ WF_vars(runWriteDataLoop)
    /\ \A t \in Thread : WF_vars(GameThread(t))

Spec == Init /\ [][Next]_vars /\ Fairness

-----------------------------------------------------------------------------
TypeOK ==
    /\ shouldStop \in BOOLEAN
    /\ testModels \subseteq Candidate /\ rejectedModels \subseteq Candidate
    /\ acceptedModels \subseteq Candidate \cup {0}
    /\ netAndStuff \in Candidate \cup {NoNet}
    /\ isDraining \in BOOLEAN /\ terminated \in BOOLEAN /\ finishedGameQueue \in Nat
    /\ numGamesStartedSoFar \in 0..NumGamesPerGating
    /\ numGamesTallied \in Nat
    /\ numBaselineWinPoints \in Nat /\ numCandidateWinPoints \in Nat
    /\ netAndStuffDataIsWritten \in BOOLEAN
    /\ writerPc \in {"none", "pop", "flag"}
    /\ gamePc \in [Thread -> {"none", "loop", "matchup", "play", "push", "exited"}]
    /\ mainPc \in {"poll", "spawn", "join", "await", "judge", "done"}

\* A net is accepted or rejected by the score that all games would have given,
\* however the games end that were not started, were cut short by the early
\* decision, or by a signal; none was lost on the way to the write loop, whose
\* assertion that no game is left below zero holds (gatekeeper.cpp:177).
VerdictIsFinal ==
    /\ numGamesTallied + finishedGameQueue <= numGamesStartedSoFar
    /\ mainPc = "judge" =>
         LET remaining == 2 * (NumGamesPerGating - numGamesTallied)
         IN  \A points \in 0..remaining :
               (numBaselineWinPoints > numCandidateWinPoints)
               <=> (numBaselineWinPoints + (remaining - points) > numCandidateWinPoints + points)

\* Game threads and the write loop read netAndStuff without the mutex: main
\* has not deleted it while one of them is left.
MatchOutlivesItsThreads ==
    writerPc # "none" \/ (\E t \in Thread : gamePc[t] \notin {"none", "exited"})
        => netAndStuff # NoNet /\ mainPc \in {"join", "await"}

\* The command ends when it is told to, and otherwise every net that waits for
\* a test is accepted or rejected in the end.
GatingGoesOn ==
    /\ []<>(shouldStop => mainPc = "done")
    /\ \A net \in Candidate : []<>(net \in testModels => shouldStop)
=============================================================================
