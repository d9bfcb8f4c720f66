-------------------------- MODULE TrainingCommands --------------------------
(***************************************************************************)
(* The commands of a training run that play games on their own: the first  *)
(* argument of the program names selfplay or gatekeeper (handleSubcommand  *)
(* in main.cpp).  Selfplay is extended; the variables of Gatekeeper that   *)
(* have a name it uses too are given the prefix gate_ here.                *)
(***************************************************************************)
EXTENDS Selfplay

CONSTANTS NumGamesPerGating, MaxCandidates, NoNet

ASSUME GatingAssumption ==
    /\ NumGamesPerGating \in Nat /\ MaxCandidates \in Nat
    /\ NoNet \notin 1..MaxCandidates

VARIABLES gate_shouldStop, noAutoRejectOldModels, quitIfNoNetsToTest,
          testModels, acceptedModels, rejectedModels, netAndStuff, isDraining,
          gate_finishedGameQueue, terminated, numGamesStartedSoFar, numGamesTallied,
          numBaselineWinPoints, numCandidateWinPoints, netAndStuffDataIsWritten,
          gate_writerPc, gate_gamePc, gate_mainPc,
          subcommand

gate == INSTANCE Gatekeeper WITH
    shouldStop <- gate_shouldStop, finishedGameQueue <- gate_finishedGameQueue,
    writerPc <- gate_writerPc, gamePc <- gate_gamePc, mainPc <- gate_mainPc

gateVars == <<gate_shouldStop, noAutoRejectOldModels, quitIfNoNetsToTest,
              testModels, acceptedModels, rejectedModels, netAndStuff, isDraining,
              gate_finishedGameQueue, terminated, numGamesStartedSoFar, numGamesTallied,
              numBaselineWinPoints, numCandidateWinPoints, netAndStuffDataIsWritten,
              gate_writerPc, gate_gamePc, gate_mainPc>>

commandVars == <<vars, gateVars, subcommand>>

\* The switches are those of gatekeeper.
handleSubcommand ==
    /\ Init /\ gate!Init
    /\ \/ subcommand = "gatekeeper"
       \/ subcommand = "selfplay" /\ ~noAutoRejectOldModels /\ ~quitIfNoNetsToTest

selfplay(A)   == subcommand = "selfplay" /\ A /\ UNCHANGED <<gateVars, subcommand>>
gatekeeper(A) == subcommand = "gatekeeper" /\ A /\ UNCHANGED <<vars, subcommand>>

CommandNext == selfplay(Next) \/ gatekeeper(gate!Next)

\* The fairness of Selfplay and of Gatekeeper.
CommandFairness ==
    /\ WF_commandVars(selfplay(UnloadingGoesOn)) /\ WF_commandVars(selfplay(LoaderGoesOn))
    /\ WF_commandVars(selfplay(MainGoesOn) \/ gatekeeper(gate!MainThread))
    /\ WF_commandVars(gatekeeper(gate!runWriteDataLoop))
    /\ \A t \in Thread : /\ WF_commandVars(selfplay(GameGoesOn(t)) \/ gatekeeper(gate!GameThread(t)))
                         /\ SF_commandVars(selfplay(EndsGame(t)))
    /\ \A n \in Model : WF_commandVars(selfplay(DataLoopGoesOn(n)))

CommandSpec == handleSubcommand /\ [][CommandNext]_commandVars /\ CommandFairness

-----------------------------------------------------------------------------
\* The managers and matches are consistent in themselves: the assertions of
\* SelfplayManager hold, and each row is counted once (selfplaymanager.cpp:391).
PipelineIsConsistent == ManagerIsConsistent /\ gate!TypeOK

\* No thread uses a net, or the match it belongs to, after its memory was given
\* back: a game may have been given another net in its middle (play.cpp:1207),
\* and the threads of a match look at it without the mutex (gatekeeper.cpp:463).
NetsInUseAreAlive == HeldNetsAreAlive /\ gate!MatchOutlivesItsThreads

\* A net is accepted or rejected by the score that all games of its match would
\* have given, though the match may end early (gatekeeper.cpp:179), and the
\* write loop has every game that was played.
VerdictIsFinal == gate!VerdictIsFinal

\* Nothing stays for ever: not a command that is told to stop, not the memory of
\* an old net, not a net that waits for its test.
PipelineGoesOn == CommandAndNetsEnd /\ gate!GatingGoesOn
=============================================================================
