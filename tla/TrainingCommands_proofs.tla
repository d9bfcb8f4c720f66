---------------------- MODULE TrainingCommands_proofs ----------------------
(***************************************************************************)
(* The commands selfplay and gatekeeper, for any number of game threads,   *)
(* games, nets and candidates.                                             *)
(*                                                                         *)
(* The verdict of the gatekeeper is right for one of two reasons: a side   *)
(* leads by more than is left, or every game was tallied.  The second      *)
(* holds because a thread leaves a match that nobody stopped only when all *)
(* games were started, and those are tallied, in the queue, or being       *)
(* played.                                                                 *)
(*                                                                         *)
(* Selfplay has one manager, whose state is given names of its own, so     *)
(* that its operations are functions of that state alone.  A net is loaded *)
(* and not leaving while it is counted, its queue is open as long as it is *)
(* loaded and not leaving, its writer goes on only when the queue is       *)
(* closed and empty; so a game that a thread pushes is never dropped, and  *)
(* the memory of a net outlives those who use it.                          *)
(***************************************************************************)
EXTENDS TrainingCommands, FoldFacts, FiniteSetTheorems, TLAPS

-----------------------------------------------------------------------------
(* Sequences of nets and of games.                                         *)

\* No two places of a sequence have the same element.
OnceEach(s) == \A i, k \in 1..Len(s) : s[i] = s[k] => i = k

\* A new element is appended.
LEMMA AppendedOnce ==
  ASSUME NEW V, NEW s \in Seq(V), NEW x \in V, OnceEach(s), x \notin ToSet(s)
  PROVE  OnceEach(Append(s, x))
<1>1. /\ Len(Append(s, x)) = Len(s) + 1 /\ Len(s) \in Nat
      /\ \A i \in 1..(Len(s) + 1) : Append(s, x)[i] = IF i = Len(s) + 1 THEN x ELSE s[i]
  OBVIOUS
<1>2. \A i \in 1..Len(s) : s[i] # x BY DEF ToSet
<1> QED BY <1>1, <1>2 DEF OnceEach

\* The head is taken off.
LEMMA TailOf ==
  ASSUME NEW V, NEW s \in Seq(V), s # <<>>, OnceEach(s)
  PROVE  /\ Head(s) \in ToSet(s) /\ Tail(s) \in Seq(V) /\ OnceEach(Tail(s))
         /\ ToSet(Tail(s)) = ToSet(s) \ {Head(s)} /\ ToSet(s) \subseteq V
<1>1. /\ Tail(s) \in Seq(V) /\ Len(s) \in Nat \ {0} /\ Len(Tail(s)) = Len(s) - 1 /\ Head(s) = s[1]
      /\ \A i \in 1..(Len(s) - 1) : Tail(s)[i] = s[i + 1]
  OBVIOUS
<1>2. Head(s) \in ToSet(s) BY <1>1 DEF ToSet
<1>3. OnceEach(Tail(s)) BY <1>1 DEF OnceEach
<1>4. ToSet(Tail(s)) = ToSet(s) \ {Head(s)}
  <2>1. ASSUME NEW y \in ToSet(Tail(s)) PROVE y \in ToSet(s) \ {Head(s)}
    <3>1. PICK i \in 1..(Len(s) - 1) : y = Tail(s)[i] BY <1>1 DEF ToSet
    <3>2. i + 1 \in 1..Len(s) /\ y = s[i + 1] /\ i + 1 # 1 /\ 1 \in 1..Len(s) BY <1>1, <3>1
    <3> QED BY <1>1, <3>2 DEF ToSet, OnceEach
  <2>2. ASSUME NEW y \in ToSet(s) \ {Head(s)} PROVE y \in ToSet(Tail(s))
    <3>1. PICK i \in 1..Len(s) : y = s[i] BY DEF ToSet
    <3>2. i # 1 BY <1>1, <3>1
    <3>3. PICK k \in 1..(Len(s) - 1) : k + 1 = i BY <1>1, <3>2
    <3>4. y = Tail(s)[k] BY <1>1, <3>1, <3>3
    <3>5. DOMAIN Tail(s) = 1..(Len(s) - 1) BY <1>1
    <3> QED BY <1>1, <3>4, <3>5 DEF ToSet
  <2> QED BY <2>1, <2>2
<1>5. ToSet(s) \subseteq V BY DEF ToSet
<1> QED BY <1>1, <1>2, <1>3, <1>4, <1>5

\* The last is left out.
LEMMA FrontOf ==
  ASSUME NEW V, NEW s \in Seq(V), s # <<>>, OnceEach(s)
  PROVE  /\ Last(s) \in ToSet(s) /\ ToSet(s) \subseteq V
         /\ ToSet(Front(s)) = ToSet(s) \ {Last(s)}
<1>1. Len(s) \in Nat \ {0} OBVIOUS
<1>2. PICK n \in Nat : n = Len(s) - 1 BY <1>1
<1>3. Front(s) = SubSeq(s, 1, n) BY <1>2 DEF Front
<1>4. Len(Front(s)) = n /\ \A i \in 1..n : Front(s)[i] = s[i]
  BY <1>1, <1>2, <1>3
<1>5. Last(s) = s[n + 1] /\ Len(s) = n + 1 BY <1>1, <1>2 DEF Last
<1>6. Last(s) \in ToSet(s) BY <1>1, <1>5 DEF ToSet
<1>7. ToSet(s) \subseteq V BY DEF ToSet
<1>8. ASSUME NEW y \in ToSet(Front(s)) PROVE y \in ToSet(s) \ {Last(s)}
  <2>1. PICK i \in 1..n : y = s[i] BY <1>4 DEF ToSet
  <2>2. i \in 1..Len(s) /\ n + 1 \in 1..Len(s) /\ i # n + 1 BY <1>5
  <2> QED BY <1>5, <2>1, <2>2 DEF ToSet, OnceEach
<1>9. ASSUME NEW y \in ToSet(s) \ {Last(s)} PROVE y \in ToSet(Front(s))
  <2>1. PICK i \in 1..Len(s) : y = s[i] BY DEF ToSet
  <2>2. i \in 1..n BY <1>5, <2>1
  <2> QED BY <1>4, <2>1, <2>2 DEF ToSet
<1> QED BY <1>6, <1>7, <1>8, <1>9

-----------------------------------------------------------------------------
(* The match of the gatekeeper.                                           *)
\* The game threads that have a game in hand.
Busy == {t \in Thread : gate_gamePc[t] \in {"play", "push"}}

\* The thread is not at work in a match.
NotInMatch(t) == gate_gamePc[t] \in {"none", "exited"}

\* No game is lost unless a stop was ordered.
MatchGamesAreKept ==
    /\ numGamesTallied + gate_finishedGameQueue + Cardinality(Busy) <= numGamesStartedSoFar
    /\ ~gate!shouldStopFunc =>
         numGamesTallied + gate_finishedGameQueue + Cardinality(Busy) = numGamesStartedSoFar

\* A lead that decides the match is never lost.
LeadIsKept ==
    LET remaining == 2 * (NumGamesPerGating - numGamesTallied)
    IN  terminated => \/ numCandidateWinPoints >= numBaselineWinPoints + remaining
                      \/ numBaselineWinPoints > numCandidateWinPoints + remaining

\* A thread leaves a match that goes on when there is no game left to start.
LeavesForReason ==
    gate_mainPc \in {"join", "await"} =>
        \A t \in Thread : gate_gamePc[t] = "exited" =>
            gate!shouldStopFunc \/ numGamesStartedSoFar = NumGamesPerGating

\* Who is at work while the main thread is at one of its steps.
MatchPhases ==
    /\ gate_mainPc \notin {"join", "await"} => gate_writerPc = "none" /\ \A t \in Thread : NotInMatch(t)
    /\ gate_mainPc = "spawn" => ~isDraining
    /\ gate_mainPc = "join" => gate_writerPc = "pop" /\ ~isDraining /\ ~netAndStuffDataIsWritten
    /\ gate_mainPc = "await" =>
         /\ \A t \in Thread : gate_gamePc[t] = "exited"
         /\ netAndStuffDataIsWritten => gate_writerPc = "none" /\ gate_finishedGameQueue = 0
    /\ gate_writerPc = "flag" => gate_mainPc = "await" /\ gate_finishedGameQueue = 0
    /\ gate_mainPc \in {"spawn", "join", "await", "judge"} => netAndStuff # NoNet
    /\ gate_mainPc = "judge" => terminated \/ numGamesTallied = NumGamesPerGating

\* The inductive invariant of the gatekeeper.
MatchInv == gate!TypeOK /\ MatchGamesAreKept /\ LeadIsKept /\ LeavesForReason /\ MatchPhases

\* What the assumptions say of a match: it has a thread, and games.
LEMMA Setting ==
  /\ IsFiniteSet(Thread) /\ Thread # {}
  /\ NumGamesPerGating \in Nat /\ MaxCandidates \in Nat /\ NoNet \notin gate!Candidate
BY SelfplayAssumption, GatingAssumption DEF gate!Candidate

-----------------------------------------------------------------------------
\* The threads with a game in hand are finitely many.
LEMMA BusyIsFinite ==
  IsFiniteSet(Busy) /\ Cardinality(Busy) \in Nat
<1>1. Busy \subseteq Thread BY DEF Busy
<1> QED BY <1>1, FS_Subset, FS_CardinalityType, Setting

\* A thread that neither takes nor drops a game leaves their number alone.
LEMMA BusyStays ==
  ASSUME gate!TypeOK, NEW t \in Thread, NEW next \in {"matchup", "play", "push", "exited"},
         gate!GameGoto(t, next), gate_gamePc[t] \in {"play", "push"} <=> next \in {"play", "push"}
  PROVE  Busy' = Busy
BY DEF Busy, gate!GameGoto, gate!TypeOK

\* One that gets a matchup has one more.
LEMMA BusyGrows ==
  ASSUME gate!TypeOK, NEW t \in Thread, gate_gamePc[t] = "matchup", gate!GameGoto(t, "play")
  PROVE  Cardinality(Busy') = Cardinality(Busy) + 1
<1>1. Busy' = Busy \cup {t} BY DEF Busy, gate!GameGoto, gate!TypeOK
<1>2. t \notin Busy BY DEF Busy
<1> QED BY <1>1, <1>2, BusyIsFinite, FS_AddElement

\* One that has pushed its game or thrown it away has one less.
LEMMA BusyShrinks ==
  ASSUME gate!TypeOK, NEW t \in Thread, gate_gamePc[t] \in {"play", "push"},
         NEW next \in {"loop", "exited"}, gate!GameGoto(t, next)
  PROVE  Cardinality(Busy') = Cardinality(Busy) - 1
<1>1. Busy' = Busy \ {t} BY DEF Busy, gate!GameGoto, gate!TypeOK
<1>2. t \in Busy BY DEF Busy
<1> QED BY <1>1, <1>2, BusyIsFinite, FS_RemoveElement

\* Nobody has a game in hand outside of a match.
LEMMA NobodyIsBusy ==
  ASSUME \A t \in Thread : NotInMatch(t)
  PROVE  Busy = {} /\ Cardinality(Busy) = 0
BY FS_EmptySet DEF Busy, NotInMatch

-----------------------------------------------------------------------------
\* The command starts without a match.
LEMMA MatchStarts == gate!Init => MatchInv
<1> SUFFICES ASSUME gate!Init PROVE MatchInv OBVIOUS
<1>1. gate!TypeOK
  <2>1. numGamesStartedSoFar \in 0..NumGamesPerGating BY Setting DEF gate!Init
  <2>2. gate_gamePc \in [Thread -> {"none", "loop", "matchup", "play", "push", "exited"}]
    BY DEF gate!Init
  <2> QED BY <2>1, <2>2 DEF gate!Init, gate!TypeOK
<1>2. \A t \in Thread : NotInMatch(t) BY DEF gate!Init, NotInMatch
<1>3. MatchGamesAreKept BY <1>2, NobodyIsBusy DEF gate!Init, MatchGamesAreKept
<1> QED BY <1>1, <1>2, <1>3 DEF gate!Init, MatchInv, LeadIsKept, LeavesForReason, MatchPhases

\* A step of a game thread.
LEMMA MatchThreadStep ==
  ASSUME MatchInv, NEW t \in Thread, gate!GameThread(t)
  PROVE  MatchInv'
<1> USE DEF MatchInv, gate!GameGoto, gate!OthersUnchanged, gate!tally, gate!switches,
            gate!directories, gate!shouldStopFunc
<1>1. gate_mainPc = "join" /\ gate_writerPc = "pop"
  BY DEF gate!GameThread, gate!LooksForGame, gate!getMatchup, gate!EndsGame, gate!PushesGame,
         MatchPhases, NotInMatch
<1>2. gate!TypeOK'
  BY Setting DEF gate!GameThread, gate!LooksForGame, gate!getMatchup, gate!EndsGame,
                 gate!PushesGame, gate!TypeOK
<1>3. LeadIsKept'
  BY DEF gate!GameThread, gate!LooksForGame, gate!getMatchup, gate!EndsGame, gate!PushesGame,
         LeadIsKept
<1>4. LeavesForReason'
  BY <1>1, Setting DEF gate!GameThread, gate!LooksForGame, gate!getMatchup, gate!EndsGame,
                       gate!PushesGame, LeavesForReason,
              gate!TypeOK
<1>5. MatchPhases'
  BY <1>1 DEF gate!GameThread, gate!LooksForGame, gate!getMatchup, gate!EndsGame, gate!PushesGame,
              MatchPhases, gate!TypeOK
<1>6. MatchGamesAreKept'
  <2>1. CASE gate!LooksForGame(t)
    <3>1. Busy' = Busy
      BY <2>1 DEF gate!LooksForGame, Busy, gate!TypeOK
    <3> QED BY <2>1, <3>1 DEF gate!LooksForGame, MatchGamesAreKept
  <2>2. CASE gate!getMatchup(t) /\ numGamesStartedSoFar >= NumGamesPerGating
    <3>1. Busy' = Busy
      BY <2>2 DEF gate!getMatchup, Busy, gate!TypeOK
    <3> QED BY <2>2, <3>1 DEF gate!getMatchup, MatchGamesAreKept
  <2>3. CASE gate!getMatchup(t) /\ ~(numGamesStartedSoFar >= NumGamesPerGating)
    <3>1. Cardinality(Busy') = Cardinality(Busy) + 1
      BY <2>3, BusyGrows DEF gate!getMatchup
    <3> QED BY <2>3, <3>1, BusyIsFinite DEF gate!getMatchup, MatchGamesAreKept, gate!TypeOK
  <2>4. CASE gate!EndsGame(t) /\ gate!shouldStopFunc
    <3>1. Cardinality(Busy') = Cardinality(Busy) - 1
      BY <2>4, BusyShrinks DEF gate!EndsGame
    <3> QED BY <2>4, <3>1, BusyIsFinite DEF gate!EndsGame, MatchGamesAreKept, gate!TypeOK
  <2>5. CASE gate!EndsGame(t) /\ ~gate!shouldStopFunc
    <3>1. Busy' = Busy
      BY <2>5 DEF gate!EndsGame, Busy, gate!TypeOK
    <3> QED BY <2>5, <3>1 DEF gate!EndsGame, MatchGamesAreKept
  <2>6. CASE gate!PushesGame(t)
    <3>1. Cardinality(Busy') = Cardinality(Busy) - 1
      BY <2>6, BusyShrinks DEF gate!PushesGame
    <3> QED BY <2>6, <3>1, BusyIsFinite DEF gate!PushesGame, MatchGamesAreKept, gate!TypeOK
  <2> QED BY <2>1, <2>2, <2>3, <2>4, <2>5, <2>6 DEF gate!GameThread
<1> QED BY <1>2, <1>3, <1>4, <1>5, <1>6

\* A step of the data write loop.
LEMMA WriteLoopStep ==
  ASSUME MatchInv, gate!runWriteDataLoop
  PROVE  MatchInv'
<1> USE DEF MatchInv, gate!WriterUnchanged, gate!tally, gate!switches, gate!directories,
            gate!shouldStopFunc
<1>1. CASE gate!EndsWriting
  <2>1. gate!TypeOK' BY <1>1 DEF gate!EndsWriting, gate!TypeOK
  <2>2. Busy' = Busy BY <1>1 DEF gate!EndsWriting, Busy
  <2>3. MatchGamesAreKept' BY <1>1, <2>2 DEF gate!EndsWriting, MatchGamesAreKept
  <2>4. LeadIsKept' /\ LeavesForReason' BY <1>1 DEF gate!EndsWriting, LeadIsKept, LeavesForReason
  <2>5. MatchPhases' BY <1>1 DEF gate!EndsWriting, MatchPhases, NotInMatch, gate!TypeOK
  <2> QED BY <2>1, <2>3, <2>4, <2>5
<1>2. ASSUME NEW points \in 0..2, gate!TalliesGame(points) PROVE MatchInv'
  <2>1. gate!TypeOK' BY <1>2 DEF gate!TalliesGame, gate!TypeOK, gate!Decided
  <2>2. Busy' = Busy BY <1>2 DEF gate!TalliesGame, Busy
  <2>3. MatchGamesAreKept' BY <1>2, <2>2, BusyIsFinite DEF gate!TalliesGame, MatchGamesAreKept,
      gate!TypeOK
  <2>4. LeadIsKept'
    <3>1. CASE terminated BY <1>2, <3>1, Setting DEF gate!TalliesGame, LeadIsKept, gate!TypeOK
    <3>2. CASE ~terminated BY <1>2, <3>2 DEF gate!TalliesGame, LeadIsKept, gate!Decided
    <3> QED BY <3>1, <3>2
  <2>5. LeavesForReason' BY <1>2 DEF gate!TalliesGame, LeavesForReason
  <2>6. MatchPhases' BY <1>2 DEF gate!TalliesGame, MatchPhases, NotInMatch, gate!TypeOK
  <2> QED BY <2>1, <2>3, <2>4, <2>5, <2>6
<1> QED BY <1>1, <1>2 DEF gate!runWriteDataLoop

\* The latest of some nets is one of them.
LEMMA LatestIsOne ==
  ASSUME NEW nets \in SUBSET gate!Candidate, nets # {}
  PROVE  gate!findLatestModel(nets) \in nets
<1>1. MaxCandidates \in Nat /\ nets \in SUBSET (1..MaxCandidates)
  BY Setting DEF gate!Candidate
<1>2. Max(nets) \in nets BY <1>1, GreatestIsMember
<1> QED BY <1>2 DEF gate!findLatestModel, gate!Max, Max

\* A step of the main thread.  The only one that ends a match with a verdict is
\* EndsMatch: all threads have left, the queue is empty, nobody has a game.
LEMMA MatchMainStep ==
  ASSUME MatchInv, gate!MainThread
  PROVE  MatchInv'
<1> USE DEF MatchInv, gate!tally, gate!match, gate!switches, gate!directories, gate!shouldStopFunc
<1>1. CASE gate!Quits \/ gate!FindsNoNet \/ gate!RejectsOldNet \/ gate!Judges
  <2>1. Busy' = Busy
    BY <1>1 DEF gate!Quits, gate!FindsNoNet, gate!RejectsOldNet, gate!Judges, Busy
  <2>2. gate!TypeOK'
    <3>1. testModels' \subseteq gate!Candidate /\ rejectedModels' \subseteq gate!Candidate
      <4>1. CASE gate!RejectsOldNet
        BY <4>1, LatestIsOne DEF gate!RejectsOldNet, gate!TypeOK
      <4>2. CASE gate!Quits \/ gate!FindsNoNet \/ gate!Judges
        BY <4>2 DEF gate!Quits, gate!FindsNoNet, gate!Judges, gate!TypeOK, MatchPhases
      <4> QED BY <1>1, <4>1, <4>2
    <3>2. acceptedModels' \subseteq gate!Candidate \cup {0}
      BY <1>1 DEF gate!Quits, gate!FindsNoNet, gate!RejectsOldNet, gate!Judges, gate!TypeOK,
                  MatchPhases
    <3> QED BY <1>1, <3>1, <3>2 DEF gate!Quits, gate!FindsNoNet, gate!RejectsOldNet, gate!Judges,
        gate!TypeOK
  <2>3. MatchGamesAreKept'
    BY <1>1, <2>1 DEF gate!Quits, gate!FindsNoNet, gate!RejectsOldNet, gate!Judges,
                      MatchGamesAreKept
  <2>4. LeadIsKept' /\ LeavesForReason'
    BY <1>1 DEF gate!Quits, gate!FindsNoNet, gate!RejectsOldNet, gate!Judges, LeadIsKept,
                LeavesForReason
  <2>5. MatchPhases'
    BY <1>1 DEF gate!Quits, gate!FindsNoNet, gate!RejectsOldNet, gate!Judges, MatchPhases,
                NotInMatch
  <2> QED BY <2>2, <2>3, <2>4, <2>5
<1>2. CASE gate!loadLatestNeuralNet
  <2>1. Busy' = {} /\ Cardinality(Busy') = 0
    <3>1. \A t \in Thread : NotInMatch(t) BY <1>2 DEF gate!loadLatestNeuralNet, MatchPhases
    <3>2. Busy' = Busy BY <1>2 DEF gate!loadLatestNeuralNet, Busy
    <3> QED BY <3>1, <3>2, NobodyIsBusy
  <2>2. netAndStuff' \in gate!Candidate
    <3>1. gate!findLatestModel(testModels) \in testModels
      BY <1>2, LatestIsOne DEF gate!loadLatestNeuralNet, gate!TypeOK
    <3> QED BY <1>2, <3>1 DEF gate!loadLatestNeuralNet, gate!TypeOK
  <2>3. gate!TypeOK'
    <3>1. numGamesStartedSoFar' \in 0..NumGamesPerGating
      BY <1>2, Setting DEF gate!loadLatestNeuralNet, gate!NewMatch
    <3> QED BY <1>2, <2>2, <3>1 DEF gate!loadLatestNeuralNet, gate!NewMatch, gate!TypeOK
  <2>4. MatchGamesAreKept' BY <1>2, <2>1 DEF gate!loadLatestNeuralNet, gate!NewMatch,
      MatchGamesAreKept
  <2>5. LeadIsKept' /\ LeavesForReason'
    BY <1>2 DEF gate!loadLatestNeuralNet, gate!NewMatch, LeadIsKept, LeavesForReason
  <2>6. MatchPhases'
    BY <1>2, <2>2, Setting DEF gate!loadLatestNeuralNet, gate!NewMatch, MatchPhases, NotInMatch
  <2> QED BY <2>3, <2>4, <2>5, <2>6
<1>3. CASE gate!StartsMatch
  <2>1. \A t \in Thread : NotInMatch(t) BY <1>3 DEF gate!StartsMatch, MatchPhases
  <2>2. Busy' = Busy BY <1>3, <2>1 DEF gate!StartsMatch, gate!DeletesNet, Busy, NotInMatch
  <2>3. gate!TypeOK'
    <3>1. CASE gate_shouldStop BY <1>3, <3>1 DEF gate!StartsMatch, gate!DeletesNet, gate!TypeOK
    <3>2. CASE ~gate_shouldStop BY <1>3, <3>2 DEF gate!StartsMatch, gate!TypeOK
    <3> QED BY <3>1, <3>2
  <2>4. MatchGamesAreKept' BY <1>3, <2>2 DEF gate!StartsMatch, gate!DeletesNet, MatchGamesAreKept
  <2>5. LeadIsKept' /\ LeavesForReason'
    BY <1>3 DEF gate!StartsMatch, gate!DeletesNet, LeadIsKept, LeavesForReason
  <2>6. MatchPhases' BY <1>3, <2>1 DEF gate!StartsMatch, gate!DeletesNet, MatchPhases, NotInMatch
  <2> QED BY <2>3, <2>4, <2>5, <2>6
<1>4. CASE gate!markAsDraining
  <2>1. Busy' = Busy BY <1>4 DEF gate!markAsDraining, Busy
  <2>2. gate!TypeOK' BY <1>4 DEF gate!markAsDraining, gate!TypeOK
  <2>3. MatchGamesAreKept' BY <1>4, <2>1 DEF gate!markAsDraining, MatchGamesAreKept
  <2>4. LeadIsKept' /\ LeavesForReason'
    BY <1>4 DEF gate!markAsDraining, LeadIsKept, LeavesForReason
  <2>5. MatchPhases' BY <1>4 DEF gate!markAsDraining, MatchPhases
  <2> QED BY <2>2, <2>3, <2>4, <2>5
<1>5. CASE gate!EndsMatch
  <2>1. Busy' = Busy BY <1>5 DEF gate!EndsMatch, gate!DeletesNet, Busy
  <2>2. gate!TypeOK' BY <1>5 DEF gate!EndsMatch, gate!DeletesNet, gate!TypeOK
  <2>3. MatchGamesAreKept' BY <1>5, <2>1 DEF gate!EndsMatch, gate!DeletesNet, MatchGamesAreKept
  <2>4. LeadIsKept' /\ LeavesForReason'
    BY <1>5 DEF gate!EndsMatch, gate!DeletesNet, LeadIsKept, LeavesForReason
  <2>5. \A t \in Thread : gate_gamePc[t] = "exited" BY <1>5 DEF gate!EndsMatch, MatchPhases
  <2>6. ~gate_shouldStop => terminated \/ numGamesTallied = NumGamesPerGating
    <3>1. Cardinality(Busy) = 0 BY <2>5, NobodyIsBusy DEF NotInMatch
    <3>2. gate_finishedGameQueue = 0 BY <1>5 DEF gate!EndsMatch, MatchPhases
    <3>3. gate!shouldStopFunc \/ numGamesStartedSoFar = NumGamesPerGating
      BY <1>5, <2>5, Setting DEF gate!EndsMatch, LeavesForReason
    <3> QED BY <3>1, <3>2, <3>3 DEF MatchGamesAreKept, gate!TypeOK
  <2>7. MatchPhases' BY <1>5, <2>5, <2>6 DEF gate!EndsMatch, gate!DeletesNet, MatchPhases,
      NotInMatch
  <2> QED BY <2>2, <2>3, <2>4, <2>7
<1> QED BY <1>1, <1>2, <1>3, <1>4, <1>5 DEF gate!MainThread

\* Every step keeps the invariant.
LEMMA MatchStep ==
  ASSUME MatchInv, gate!Next \/ UNCHANGED gateVars
  PROVE  MatchInv'
<1> USE DEF MatchInv, gate!tally, gate!match, gate!switches, gate!directories
<1>1. CASE gate!NetArrives \/ gate!signalHandler \/ UNCHANGED gateVars
  <2>1. Busy' = Busy BY <1>1 DEF gate!NetArrives, gate!signalHandler, gateVars, Busy
  <2>2. gate!TypeOK'
    <3>1. testModels' \subseteq gate!Candidate
      BY <1>1 DEF gate!NetArrives, gate!signalHandler, gateVars, gate!TypeOK
    <3> QED BY <1>1, <3>1 DEF gate!NetArrives, gate!signalHandler, gateVars, gate!TypeOK
  <2>3. MatchGamesAreKept'
    BY <1>1, <2>1 DEF gate!NetArrives, gate!signalHandler, gateVars, MatchGamesAreKept,
                      gate!shouldStopFunc
  <2>4. LeadIsKept' BY <1>1 DEF gate!NetArrives, gate!signalHandler, gateVars, LeadIsKept
  <2>5. LeavesForReason'
    BY <1>1 DEF gate!NetArrives, gate!signalHandler, gateVars, LeavesForReason, gate!shouldStopFunc
  <2>6. MatchPhases' BY <1>1 DEF gate!NetArrives, gate!signalHandler, gateVars, MatchPhases,
      NotInMatch
  <2> QED BY <2>2, <2>3, <2>4, <2>5, <2>6
<1> QED BY <1>1, MatchThreadStep, WriteLoopStep, MatchMainStep DEF gate!Next

\* What the invariant says of the verdict and of the match.
LEMMA MatchInvImplies == MatchInv => gate!TypeOK /\ VerdictIsFinal /\ gate!MatchOutlivesItsThreads
<1> SUFFICES ASSUME MatchInv PROVE gate!TypeOK /\ VerdictIsFinal /\ gate!MatchOutlivesItsThreads
  OBVIOUS
<1> USE DEF MatchInv
<1>1. numGamesTallied + gate_finishedGameQueue <= numGamesStartedSoFar
  BY BusyIsFinite, Setting DEF MatchGamesAreKept, gate!TypeOK
<1>2. ASSUME gate_mainPc = "judge", NEW points \in 0..(2 * (NumGamesPerGating - numGamesTallied))
      PROVE  (numBaselineWinPoints > numCandidateWinPoints)
             <=> (numBaselineWinPoints + (2 * (NumGamesPerGating - numGamesTallied) - points)
                  > numCandidateWinPoints + points)
  <2>1. CASE terminated BY <1>2, <2>1, Setting DEF LeadIsKept, gate!TypeOK
  <2>2. CASE numGamesTallied = NumGamesPerGating BY <1>2, <2>2, Setting DEF gate!TypeOK
  <2> QED BY <1>2, <2>1, <2>2 DEF MatchPhases
<1>3. VerdictIsFinal BY <1>1, <1>2 DEF VerdictIsFinal, gate!VerdictIsFinal
<1>4. gate!MatchOutlivesItsThreads
  BY DEF MatchPhases, NotInMatch, gate!MatchOutlivesItsThreads, gate!TypeOK
<1> QED BY <1>3, <1>4

-----------------------------------------------------------------------------
(* The command selfplay.                                                   *)

\* The state of its manager.
Datas   == modelDatas[manager]
Count   == acquireCount[manager]
Alloc   == allocated[manager]
Leaving == leaving[manager]
Queue   == finishedGameQueue[manager]
Closed  == readOnly[manager]
Writer  == writerPc[manager]
Written == written[manager]
Active  == numDataWriteLoopsActive[manager]
Rows    == rows[manager]
Total   == totalNumRowsProcessed[manager]
Ending  == destructorPc[manager]

\* There is no other, and no function works under its mutex.
OneManager ==
    /\ modelDatas = [g \in Manager |-> Datas] /\ acquireCount = [g \in Manager |-> Count]
    /\ allocated = [g \in Manager |-> Alloc] /\ leaving = [g \in Manager |-> Leaving]
    /\ withWriters = [g \in Manager |-> FALSE]
    /\ finishedGameQueue = [g \in Manager |-> Queue] /\ readOnly = [g \in Manager |-> Closed]
    /\ writerPc = [g \in Manager |-> Writer] /\ written = [g \in Manager |-> Written]
    /\ numDataWriteLoopsActive = [g \in Manager |-> Active]
    /\ rows = [g \in Manager |-> Rows] /\ totalNumRowsProcessed = [g \in Manager |-> Total]
    /\ destructorPc = [g \in Manager |-> Ending]

\* The types of the manager, and of the threads below.
Types ==
    /\ Datas \in Seq(Model) /\ Count \in [Model -> Nat]
    /\ Alloc \in SUBSET Model /\ Leaving \in SUBSET Model /\ Closed \in SUBSET Model
    /\ Queue \in [Model -> Seq(Game)] /\ Written \in SUBSET Game
    /\ Writer \in [Model -> {"none", "pop", "lock", "delete", "checkin", "exited"}]
    /\ Active \in Nat /\ Rows \in [Model -> Nat] /\ Total \in Nat
    /\ Ending \in {"none", "wait", "asleep", "done"}

\* The types of what the threads know.
ThreadTypes ==
    /\ shouldStop \in BOOLEAN /\ numGamesStarted \in Nat
    /\ gamePc \in [Thread -> {"top", "acquire", "start", "play", "compare", "switch",
                              "lookup", "push", "release", "exited"}]
    /\ gameIdx \in [Thread -> Game \cup {0}]
    /\ nnEval \in [Thread -> Model \cup {NoModel}]
    /\ newNNEval \in [Thread -> Model \cup {NoModel}]
    /\ botNNEval \in [Thread -> Model \cup {NoModel}]
    /\ loaderPc \in {"check", "load", "sleep", "exited"}
    /\ mainPc \in {"join", "joinLoader", "delete", "done"}
    /\ finished \in SUBSET Game

\* A thread holds a net from acquireLatest to the release at the end of its
\* loop, and a second one while it compares the two.
ThreadsHoldNets ==
    \A t \in Thread :
      /\ nnEval[t] # NoModel <=> gamePc[t] \notin {"top", "acquire", "exited"}
      /\ newNNEval[t] # NoModel <=> gamePc[t] = "compare"
      /\ gamePc[t] \in {"play", "compare"} => botNNEval[t] = nnEval[t]

\* The count of a net is that of the threads that hold it, once or twice.
HoldersCounted ==
    \A n \in Model : Count[n] = Cardinality({t \in Thread : n = nnEval[t]})
                                + Cardinality({t \in Thread : n = newNNEval[t]})

\* A net that is held is loaded, and nobody is unloading it.
HeldStay == \A n \in Model : Count[n] # 0 => n \in ToSet(Datas) \ Leaving

\* The queue of a net is closed when the net is leaving and stays so; its writer
\* goes on only when the queue is closed and empty, and deletes the net only
\* when it is not among the others any more.
WritersFollow ==
    /\ Leaving \subseteq ToSet(Datas) /\ Leaving \subseteq Closed
    /\ \A n \in Model :
         /\ n \in ToSet(Datas) => Writer[n] \in {"pop", "lock"} /\ n \in Alloc
         /\ n \in ToSet(Datas) \cap Closed => n \in Leaving
         /\ Writer[n] \in {"lock", "delete", "checkin", "exited"} => n \in Closed
         /\ Writer[n] # "pop" => Queue[n] = <<>>

\* The active writers are those that were started and have not checked in.
WritersCounted == Active = Cardinality({n \in Model : Writer[n] \notin {"none", "exited"}})

\* The latest net is loaded and stays until the destructor takes all; those that
\* come after it are untouched.
LatestStays ==
    /\ OnceEach(Datas)
    /\ \A n \in Model : Writer[n] = "none" => Rows[n] = 0
    /\ Ending = "none" => /\ Datas # <<>> /\ Last(Datas) \notin Leaving
                          /\ \A n \in Model : Writer[n] = "none" <=> n > Last(Datas)
    /\ Ending # "none" => ToSet(Datas) \subseteq Leaving
    /\ Ending = "done" => Active = 0

\* Who is left when main is at one of its steps.
Phases ==
    /\ mainPc # "join" => \A t \in Thread : gamePc[t] = "exited"
    /\ mainPc \in {"delete", "done"} => loaderPc = "exited"
    /\ Ending # "none" => mainPc \in {"delete", "done"}
    /\ mainPc = "done" => Ending = "done"
    /\ loaderPc = "load" => Last(Datas) < Cardinality(Model)

\* The games of the threads are different ones, and those in play not finished.
GamesInPlay ==
    /\ \A t \in Thread :
         /\ gamePc[t] \in {"top", "acquire", "start", "exited"} => gameIdx[t] = 0
         /\ gamePc[t] \in {"play", "compare", "switch"} => gameIdx[t] # 0 /\ gameIdx[t] \notin finished
         /\ gamePc[t] \in {"lookup", "push"} => gameIdx[t] # 0 /\ gameIdx[t] \in finished
         /\ gameIdx[t] <= numGamesStarted
    /\ \A t, u \in Thread : gameIdx[t] = gameIdx[u] /\ gameIdx[t] # 0 => t = u
    /\ \A game \in finished : game <= numGamesStarted

\* A finished game is in one place only.
GamesInOnePlace ==
    /\ \A t \in Thread : gamePc[t] \in {"lookup", "push"} =>
         /\ gameIdx[t] \notin Written
         /\ \A n \in Model : gameIdx[t] \notin ToSet(Queue[n])
    /\ \A n \in Model : /\ ToSet(Queue[n]) \subseteq finished \ Written
                        /\ OnceEach(Queue[n])
    /\ \A n, m \in Model : \A game \in ToSet(Queue[n]) \cap ToSet(Queue[m]) : n = m
    /\ Written \subseteq finished

\* A finished game that is not written is with its thread or in a queue.
GamesSomewhere ==
    \A game \in finished \ Written :
        \/ \E t \in Thread : gamePc[t] \in {"lookup", "push"} /\ gameIdx[t] = game
        \/ \E n \in Model : game \in ToSet(Queue[n])

\* The rows of each net are in the total once: added when it leaves, counted with it before.
RowsInTotal == Total + SumOver(Rows, ToSet(Datas)) = SumOver(Rows, Model)

-----------------------------------------------------------------------------
(* What the operations of the manager do to its state.                     *)

\* The command has one manager.
LEMMA TheManager == Manager = {manager}
BY SelfplayAssumption DEF manager

\* What leaves when only the latest net is kept.
Idle(datas, count) == {n \in ToSet(Front(datas)) : count[n] = 0}

\* Automatic cleaning takes the idle ones.
LEMMA CleanedAreIdle ==
  ASSUME NEW datas, datas # <<>>, NEW count
  PROVE  AutoCleaned(datas, count) = Idle(datas, count)
BY SelfplayAssumption DEF AutoCleaned, Unused, Idle

\* Nothing happens to the manager.
LEMMA Rests ==
  ASSUME OneManager, UNCHANGED managerVars
  PROVE  /\ OneManager'
         /\ UNCHANGED <<Datas, Count, Alloc, Leaving, Queue, Closed, Writer, Written, Active,
                        Rows, Total, Ending>>
BY DEF OneManager, managerVars, dataVars, rowVars, Datas, Count, Alloc, Leaving, Queue, Closed,
       Writer,
       Written, Active, Rows, Total, Ending

\* Nobody is unloading while the mutex is free.
LEMMA MutexIsFree == ASSUME OneManager, MutexFree(manager) PROVE Leaving = {}
BY DEF MutexFree, Leaving

\* acquireModel, of a net that is loaded.
LEMMA Acquires ==
  ASSUME OneManager, Types, NEW n \in Model, acquire(manager, n)
  PROVE  /\ OneManager' /\ Leaving = {} /\ n \in ToSet(Datas)
         /\ Count' = [Count EXCEPT ![n] = Count[n] + 1]
         /\ UNCHANGED <<Datas, Alloc, Leaving, Queue, Closed, Writer, Written, Active, Rows,
                        Total, Ending>>
BY TheManager DEF OneManager, Types, acquire, MutexFree, hasModel, dataVars, rowVars, Datas,
                  Count, Alloc, Leaving, Queue, Closed, Writer,
       Written, Active, Rows, Total, Ending

\* release, of a net that is loaded.
LEMMA Releases ==
  ASSUME OneManager, Types, NEW n \in Model, n \in ToSet(Datas), Datas # <<>>, release(manager, n)
  PROVE  /\ OneManager' /\ Leaving = {}
         /\ Count' = [Count EXCEPT ![n] = Count[n] - 1]
         /\ Leaving' = Idle(Datas, Count') /\ Closed' = Closed \cup Leaving'
         /\ UNCHANGED <<Datas, Alloc, Queue, Writer, Written, Active, Rows, Total, Ending>>
<1>1. hasModel(manager, n) BY DEF hasModel, Datas
<1>2. Leaving = {} BY MutexIsFree DEF release
<1>3. /\ acquireCount' = [acquireCount EXCEPT ![manager] = [Count EXCEPT ![n] = Count[n] - 1]]
      /\ Unload(manager, AutoCleaned(Datas, [Count EXCEPT ![n] = Count[n] - 1]))
      /\ UNCHANGED <<modelDatas, allocated, withWriters, dataVars, writerPc,
                     numDataWriteLoopsActive,
                   rowVars, destructorPc>>
  BY <1>1 DEF release, Datas, Count
<1>4. Count' = [Count EXCEPT ![n] = Count[n] - 1]
      /\ acquireCount' = [g \in Manager |-> Count']
  BY <1>3, TheManager DEF OneManager, Count
<1>5. Unload(manager, Idle(Datas, Count'))
  BY <1>3, <1>4, CleanedAreIdle
<1>6. Leaving' = Idle(Datas, Count') /\ Closed' = Closed \cup Idle(Datas, Count')
      /\ leaving' = [g \in Manager |-> Leaving'] /\ readOnly' = [g \in Manager |-> Closed']
  BY <1>5, TheManager DEF Unload, OneManager, Leaving, Closed
<1> QED BY <1>2, <1>3, <1>4, <1>6 DEF OneManager, dataVars, rowVars, Datas, Alloc, Queue, Writer,
       Written, Active, Rows, Total, Ending

\* loadModelAndStartDataWriting.
LEMMA Loads ==
  ASSUME OneManager, Types, NEW n \in Model, load(manager, n, TRUE)
  PROVE  /\ OneManager' /\ Leaving = {} /\ n \notin ToSet(Datas)
         /\ Datas' = Append(Datas, n)
         /\ Alloc' = Alloc \cup {n}
         /\ Leaving' = Idle(Datas', Count) /\ Closed' = (Closed \ {n}) \cup Leaving'
         /\ Writer' = [Writer EXCEPT ![n] = "pop"] /\ Active' = Active + 1
         /\ Rows' = [Rows EXCEPT ![n] = 0]
         /\ UNCHANGED <<Count, Queue, Written, Total, Ending>>
<1>1. Leaving = {} BY MutexIsFree DEF load
<1>2. n \notin ToSet(Datas) BY DEF load, hasModel, Datas
<1>3. Datas' = Append(Datas, n) /\ modelDatas' = [g \in Manager |-> Datas']
  BY TheManager DEF load, OneManager, Datas
<1>4. Append(Datas, n) # <<>> BY Appended DEF Types
<1>5. AutoCleaned(Append(modelDatas[manager], n), acquireCount[manager]) = Idle(Datas', Count)
  BY <1>3, <1>4, CleanedAreIdle DEF Datas, Count
<1>6. Leaving' = Idle(Datas', Count) /\ Closed' = (Closed \ {n}) \cup Idle(Datas', Count)
      /\ leaving' = [g \in Manager |-> Leaving'] /\ readOnly' = [g \in Manager |-> Closed']
  BY <1>5, TheManager DEF load, OneManager, Leaving, Closed
<1>7. Alloc' = Alloc \cup {n} /\ allocated' = [g \in Manager |-> Alloc']
  BY TheManager DEF load, OneManager, Alloc
<1>8. Writer' = [Writer EXCEPT ![n] = "pop"] /\ writerPc' = [g \in Manager |-> Writer']
  BY TheManager DEF load, OneManager, Writer
<1>9. Active' = Active + 1 /\ numDataWriteLoopsActive' = [g \in Manager |-> Active']
  BY TheManager DEF load, OneManager, Active
<1>10. Rows' = [Rows EXCEPT ![n] = 0] /\ rows' = [g \in Manager |-> Rows']
  BY TheManager DEF load, OneManager, Rows
<1>11. UNCHANGED <<acquireCount, withWriters, dataVars, totalNumRowsProcessed, destructorPc>>
  BY DEF load
<1> QED BY <1>1, <1>2, <1>3, <1>6, <1>7, <1>8, <1>9, <1>10, <1>11
    DEF OneManager, dataVars, Count, Queue, Written, Total, Ending

\* The end of unloading.
LEMMA ErasesAll ==
  ASSUME OneManager, Types, Erases(manager)
  PROVE  /\ OneManager' /\ Leaving # {} /\ Leaving' = {}
         /\ Datas' = Kept(Datas, Leaving)
         /\ Alloc' = {n \in Alloc : n \in Leaving => Writer[n] # "none"}
         /\ Total' = Total + SumOver(Rows, Leaving)
         /\ UNCHANGED <<Count, Queue, Closed, Writer, Written, Active, Rows, Ending>>
<1>1. Without(Datas, Leaving) = Kept(Datas, Leaving) BY DEF Without, Kept
<1>2. Datas' = Without(Datas, Leaving) /\ modelDatas' = [g \in Manager |-> Datas']
  BY TheManager DEF Erases, OneManager, Datas, Leaving
<1>3. Alloc' = {n \in Alloc : n \in Leaving => Writer[n] # "none"} /\ allocated' = [g \in Manager |-> Alloc']
  BY TheManager DEF Erases, OneManager, Alloc, Leaving, Writer
<1>4. Total' = Total + SumOver(Rows, Leaving) /\ totalNumRowsProcessed' = [g \in Manager |-> Total']
  <2>1. totalNumRowsProcessed' =
          [totalNumRowsProcessed EXCEPT ![manager] = @ + SumOver(rows[manager], leaving[manager])]
    BY DEF Erases, SumOver
  <2> QED BY <2>1, TheManager DEF OneManager, Total, Rows, Leaving
<1>5. Leaving # {} /\ Leaving' = {} /\ leaving' = [g \in Manager |-> Leaving']
  BY TheManager DEF Erases, OneManager, Leaving
<1>6. UNCHANGED <<acquireCount, withWriters, dataVars, readOnly, writerPc,
                   numDataWriteLoopsActive, rows, destructorPc>>
  BY DEF Erases
<1> QED BY <1>1, <1>2, <1>3, <1>4, <1>5, <1>6
    DEF OneManager, dataVars, Count, Queue, Closed, Writer, Written, Active, Rows, Ending

\* A row is evaluated.
LEMMA EvaluatesRow ==
  ASSUME OneManager, Types, NEW n \in Model, Evaluates(manager, n)
  PROVE  /\ OneManager' /\ Rows' = [Rows EXCEPT ![n] = Rows[n] + 1]
         /\ UNCHANGED <<Datas, Count, Alloc, Leaving, Queue, Closed, Writer, Written, Active,
                        Total, Ending>>
BY TheManager DEF OneManager, Types, Evaluates, dataVars, Datas, Count, Alloc, Leaving, Queue,
                  Closed, Writer,
       Written, Active, Rows, Total, Ending

\* waitPush, to a queue that is open.
LEMMA Pushes ==
  ASSUME OneManager, Types, NEW n \in Model, n \notin Closed, NEW game, push(manager, n, game)
  PROVE  /\ OneManager' /\ Queue' = [Queue EXCEPT ![n] = Append(Queue[n], game)]
         /\ UNCHANGED <<Datas, Count, Alloc, Leaving, Closed, Writer, Written, Active, Rows,
                        Total, Ending>>
BY TheManager DEF OneManager, Types, push, rowVars, Datas, Count, Alloc, Leaving, Queue, Closed,
                  Writer,
       Written, Active, Rows, Total, Ending

\* The data write loop pops a game and writes it.
LEMMA WritesGame ==
  ASSUME OneManager, Types, NEW n \in Model, Writes(manager, n)
  PROVE  /\ OneManager' /\ Writer[n] = "pop" /\ Queue[n] # <<>>
         /\ Queue' = [Queue EXCEPT ![n] = Tail(Queue[n])]
         /\ Written' = Written \cup {Head(Queue[n])}
         /\ UNCHANGED <<Datas, Count, Alloc, Leaving, Closed, Writer, Active, Rows, Total, Ending>>
BY TheManager DEF OneManager, Types, Writes, rowVars, Datas, Count, Alloc, Leaving, Queue, Closed,
                  Writer,
       Written, Active, Rows, Total, Ending

\* The steps of a writer after the last game.
LEMMA WriterFinishes ==
  ASSUME OneManager, Types, NEW n \in Model, WriterEnds(manager, n) \/ WriterLocks(manager, n)
  PROVE  /\ OneManager'
         /\ \/ Writer[n] = "pop" /\ Queue[n] = <<>> /\ n \in Closed /\ Writer' = [Writer EXCEPT ![n] = "lock"]
            \/ Writer[n] = "lock" /\ Leaving = {} /\ Writer' = [Writer EXCEPT ![n] = "delete"]
         /\ UNCHANGED <<Datas, Count, Alloc, Leaving, Queue, Closed, Written, Active, Rows, Total,
                        Ending>>
BY TheManager DEF OneManager, Types, WriterEnds, WriterLocks, MutexFree, WriterGoto, dataVars,
                  rowVars, Datas, Count, Alloc, Leaving, Queue, Closed, Writer,
       Written, Active, Rows, Total, Ending

\* The loop deletes its ModelData.
LEMMA WriterGivesBack ==
  ASSUME OneManager, Types, NEW n \in Model, WriterDeletes(manager, n)
  PROVE  /\ OneManager' /\ Writer[n] = "delete"
         /\ Writer' = [Writer EXCEPT ![n] = "checkin"] /\ Alloc' = Alloc \ {n}
         /\ UNCHANGED <<Datas, Count, Leaving, Queue, Closed, Written, Active, Rows, Total, Ending>>
BY TheManager DEF OneManager, Types, WriterDeletes, WriterGoto, dataVars, rowVars, Datas, Count,
                  Alloc, Leaving, Queue, Closed, Writer,
       Written, Active, Rows, Total, Ending

\* The loop checks in.
LEMMA WriterIsGone ==
  ASSUME OneManager, Types, NEW n \in Model, WriterChecksIn(manager, n)
  PROVE  /\ OneManager' /\ Writer[n] = "checkin" /\ Leaving = {}
         /\ Writer' = [Writer EXCEPT ![n] = "exited"] /\ Active' = Active - 1
         /\ \/ UNCHANGED Ending
            \/ Ending = "asleep" /\ Ending' = "wait"
         /\ UNCHANGED <<Datas, Count, Alloc, Leaving, Queue, Closed, Written, Rows, Total>>
<1>1. UNCHANGED <<modelDatas, acquireCount, allocated, leaving, withWriters, dataVars, readOnly,
                  rows,
                  totalNumRowsProcessed>>
  BY DEF WriterChecksIn, rowVars
<1>2. Writer' = [Writer EXCEPT ![n] = "exited"] /\ writerPc' = [g \in Manager |-> Writer']
  BY TheManager DEF WriterChecksIn, WriterGoto, OneManager, Writer
<1>3. Active' = Active - 1 /\ numDataWriteLoopsActive' = [g \in Manager |-> Active']
  BY TheManager DEF WriterChecksIn, OneManager, Active
<1>4. destructorPc' = [g \in Manager |-> Ending']
      /\ (Ending' = Ending \/ (Ending = "asleep" /\ Ending' = "wait"))
  <2>1. destructorPc = [g \in Manager |-> Ending] BY DEF OneManager
  <2>2. CASE UNCHANGED destructorPc
    <3>1. Ending' = Ending BY <2>2 DEF Ending
    <3> QED BY <2>1, <2>2, <3>1
  <2>3. CASE Ending = "asleep" /\ destructorPc' = [destructorPc EXCEPT ![manager] = "wait"]
    <3>1. destructorPc' = [g \in Manager |-> "wait"] BY <2>1, <2>3, TheManager
    <3>2. Ending' = "wait" BY <3>1, TheManager DEF Ending
    <3> QED BY <2>3, <3>1, <3>2
  <2> QED BY <2>2, <2>3 DEF WriterChecksIn, Ending
<1>5. Leaving = {} BY MutexIsFree DEF WriterChecksIn
<1>6. Writer[n] = "checkin" BY DEF WriterChecksIn, Writer
<1> QED BY <1>1, <1>2, <1>3, <1>4, <1>5, <1>6
    DEF OneManager, dataVars, Datas, Count, Alloc, Leaving, Queue, Closed, Written, Rows, Total

\* The destructor takes everything.
LEMMA DestroysAll ==
  ASSUME OneManager, Types, Destroys(manager)
  PROVE  /\ OneManager' /\ Ending = "none" /\ Ending' = "wait" /\ Leaving = {}
         /\ Leaving' = ToSet(Datas) /\ Closed' = Closed \cup ToSet(Datas)
         /\ UNCHANGED <<Datas, Count, Alloc, Queue, Writer, Written, Active, Rows, Total>>
BY TheManager DEF OneManager, Types, Destroys, Unload, MutexFree, dataVars, rowVars, Datas, Count,
                  Alloc, Leaving, Queue, Closed, Writer,
       Written, Active, Rows, Total, Ending

\* The destructor looks at the count of the writers.
LEMMA WaitsForWriters ==
  ASSUME OneManager, Types, DestructorWaits(manager)
  PROVE  /\ OneManager' /\ Ending = "wait" /\ Leaving = {}
         /\ Ending' = IF Active = 0 THEN "done" ELSE "asleep"
         /\ UNCHANGED <<Datas, Count, Alloc, Leaving, Queue, Closed, Writer, Written, Active,
                        Rows, Total>>
BY TheManager DEF OneManager, Types, DestructorWaits, MutexFree, dataVars, rowVars, Datas, Count,
                  Alloc, Leaving, Queue, Closed, Writer,
       Written, Active, Rows, Total, Ending

-----------------------------------------------------------------------------
(* The manager keeps its invariant, as long as its callers keep the rules. *)

\* The inductive invariant of the manager.
ManagerInv ==
    OneManager /\ Types /\ HeldStay /\ WritersFollow /\ WritersCounted /\ LatestStays /\ RowsInTotal

\* The nets whose writer is active.
Writing == {n \in Model : Writer[n] \notin {"none", "exited"}}

\* The nets are finitely many.
LEMMA Models ==
  /\ IsFiniteSet(Model) /\ Cardinality(Model) \in Nat /\ Model = 1..Cardinality(Model)
  /\ Model \subseteq Nat
  /\ \A S \in SUBSET Model : IsFiniteSet(S)
  /\ IsFiniteSet(Writing) /\ Cardinality(Writing) \in Nat
<1>1. IsFiniteSet(Model) /\ Cardinality(Model) \in Nat /\ Model = 1..Cardinality(Model)
  BY SelfplayAssumption, FS_CardinalityType
<1>2. \A S \in SUBSET Model : IsFiniteSet(S) BY <1>1, FS_Subset
<1>3. IsFiniteSet(Writing) /\ Cardinality(Writing) \in Nat
  <2>1. Writing \in SUBSET Model BY DEF Writing
  <2> QED BY <1>2, <2>1, FS_CardinalityType
<1>4. Model \subseteq Nat
  <2>1. PICK top \in Nat : Model = 1..top BY <1>1
  <2> QED BY <2>1
<1> QED BY <1>1, <1>2, <1>3, <1>4

\* Without a step of the manager.
LEMMA RestKeeps ==
  ASSUME ManagerInv, UNCHANGED managerVars
  PROVE  ManagerInv'
<1> USE DEF ManagerInv
<1>1. /\ OneManager'
      /\ UNCHANGED <<Datas, Count, Alloc, Leaving, Queue, Closed, Writer, Written, Active, Rows,
                     Total, Ending>>
  BY Rests
<1> QED BY <1>1 DEF Types, HeldStay, WritersFollow, WritersCounted, LatestStays, RowsInTotal

\* Only the latest net is acquired.
LEMMA AcquireKeeps ==
  ASSUME ManagerInv, Ending = "none", NEW n \in Model, n = Last(Datas), acquire(manager, n)
  PROVE  ManagerInv'
<1> USE DEF ManagerInv
<1>1. /\ OneManager' /\ Leaving = {} /\ n \in ToSet(Datas)
      /\ Count' = [Count EXCEPT ![n] = Count[n] + 1]
      /\ UNCHANGED <<Datas, Alloc, Leaving, Queue, Closed, Writer, Written, Active, Rows, Total,
                     Ending>>
  BY Acquires
<1>2. Types' BY <1>1 DEF Types
<1>3. HeldStay' BY <1>1 DEF HeldStay, Types
<1>4. WritersFollow' /\ WritersCounted' /\ LatestStays' /\ RowsInTotal'
  BY <1>1 DEF WritersFollow, WritersCounted, LatestStays, RowsInTotal
<1> QED BY <1>1, <1>2, <1>3, <1>4

\* Only a net that is held is released; what leaves is held by nobody.
LEMMA ReleaseKeeps ==
  ASSUME ManagerInv, Ending = "none", NEW n \in Model, Count[n] # 0, release(manager, n)
  PROVE  ManagerInv'
<1> USE DEF ManagerInv
<1>1. n \in ToSet(Datas) /\ Datas # <<>> BY DEF HeldStay, LatestStays
<1>2. /\ OneManager' /\ Leaving = {}
      /\ Count' = [Count EXCEPT ![n] = Count[n] - 1]
      /\ Leaving' = Idle(Datas, Count') /\ Closed' = Closed \cup Leaving'
      /\ UNCHANGED <<Datas, Alloc, Queue, Writer, Written, Active, Rows, Total, Ending>>
  BY <1>1, Releases
<1>3. Count' \in [Model -> Nat] BY <1>2 DEF Types
<1>4. ToSet(Front(Datas)) = ToSet(Datas) \ {Last(Datas)} /\ ToSet(Datas) \subseteq Model
  BY <1>1, FrontOf DEF Types, LatestStays
<1>5. Leaving' = {m \in ToSet(Datas) : m # Last(Datas) /\ Count'[m] = 0}
  BY <1>2, <1>4 DEF Idle
<1>6. Types' BY <1>2, <1>3, <1>4, <1>5 DEF Types
<1>7. HeldStay' BY <1>2, <1>3, <1>5 DEF HeldStay, Types
<1>8. WritersFollow' BY <1>2, <1>5 DEF WritersFollow
<1>9. LatestStays' BY <1>2, <1>5 DEF LatestStays
<1>10. WritersCounted' /\ RowsInTotal' BY <1>2 DEF WritersCounted, RowsInTotal
<1> QED BY <1>2, <1>6, <1>7, <1>8, <1>9, <1>10

\* The loading thread loads the net after the latest.
LEMMA LoadKeeps ==
  ASSUME ManagerInv, Ending = "none", Last(Datas) < Cardinality(Model),
         NEW n, n = Last(Datas) + 1, load(manager, n, TRUE)
  PROVE  ManagerInv' /\ n \in Model /\ Last(Datas') = n
<1> USE DEF ManagerInv
<1>1. Datas # <<>> BY DEF LatestStays
<1>2. Last(Datas) \in ToSet(Datas) /\ ToSet(Datas) \subseteq Model
  BY <1>1, FrontOf DEF Types, LatestStays
<1>3. n \in Model
  <2>1. PICK top \in Nat : top = Cardinality(Model) /\ Model = 1..top BY Models
  <2>2. PICK latest \in 1..top : latest = Last(Datas) BY <1>2, <2>1
  <2>3. latest < top /\ n = latest + 1 BY <2>1, <2>2
  <2>4. latest + 1 \in 1..top BY <2>1, <2>2, <2>3
  <2> QED BY <2>1, <2>3, <2>4
<1>4. /\ OneManager' /\ Leaving = {} /\ n \notin ToSet(Datas)
      /\ Datas' = Append(Datas, n)
      /\ Alloc' = Alloc \cup {n}
      /\ Leaving' = Idle(Datas', Count) /\ Closed' = (Closed \ {n}) \cup Leaving'
      /\ Writer' = [Writer EXCEPT ![n] = "pop"] /\ Active' = Active + 1
      /\ Rows' = [Rows EXCEPT ![n] = 0]
      /\ UNCHANGED <<Count, Queue, Written, Total, Ending>>
  BY <1>3, Loads
<1>5. /\ Datas' \in Seq(Model) /\ Datas' # <<>> /\ Last(Datas') = n
      /\ ToSet(Datas') = ToSet(Datas) \cup {n} /\ OnceEach(Datas')
  BY <1>3, <1>4, Appended, AppendedOnce DEF Types, LatestStays
<1>6. ToSet(Front(Datas')) = ToSet(Datas') \ {n}
  BY <1>5, FrontOf
<1>7. Leaving' = {m \in ToSet(Datas) : Count[m] = 0}
  BY <1>4, <1>5, <1>6 DEF Idle
<1>8. Writer[n] = "none" /\ Rows[n] = 0
  BY <1>2, <1>3, Models DEF LatestStays
<1>9. Rows' = Rows BY <1>3, <1>4, <1>8 DEF Types
<1>10. Types'
  <2>1. Alloc' \in SUBSET Model /\ Leaving' \in SUBSET Model /\ Closed' \in SUBSET Model
    BY <1>2, <1>3, <1>4, <1>7 DEF Types
  <2>2. Writer' \in [Model -> {"none", "pop", "lock", "delete", "checkin", "exited"}]
    BY <1>4 DEF Types
  <2>3. Active' \in Nat /\ Rows' \in [Model -> Nat]
    <3>1. Active \in Nat /\ Rows \in [Model -> Nat] BY DEF Types
    <3>2. Active' = Active + 1 BY <1>4
    <3> QED BY <1>9, <3>1, <3>2
  <2>4. /\ Count' \in [Model -> Nat] /\ Queue' \in [Model -> Seq(Game)] /\ Written' \in SUBSET Game
        /\ Total' \in Nat /\ Ending' \in {"none", "wait", "asleep", "done"}
    BY <1>4 DEF Types
  <2> QED BY <1>5, <2>1, <2>2, <2>3, <2>4 DEF Types
<1>11. HeldStay' BY <1>4, <1>5, <1>7 DEF HeldStay
<1>12. WritersFollow' BY <1>3, <1>4, <1>5, <1>7 DEF WritersFollow, Types
<1>13. LatestStays'
  <2>1. Ending' = "none" BY <1>4
  <2>2. n \notin Leaving' BY <1>4, <1>7
  <2>3. \A m \in Model : Writer'[m] = "none" => Rows'[m] = 0
    BY <1>3, <1>4, <1>9 DEF LatestStays, Types
  <2>4. ASSUME NEW m \in Model PROVE Writer'[m] = "none" <=> m > n
    <3>1. m \in Nat /\ Last(Datas) \in Nat BY <1>2, Models
    <3>2. Writer[m] = "none" <=> m > Last(Datas) BY DEF LatestStays
    <3>3. Writer'[m] = IF m = n THEN "pop" ELSE Writer[m] BY <1>3, <1>4 DEF Types
    <3> QED BY <3>1, <3>2, <3>3
  <2> QED BY <1>5, <2>1, <2>2, <2>3, <2>4 DEF LatestStays
<1>14. WritersCounted'
  <2>1. Writing' = Writing \cup {n} /\ n \notin Writing
    BY <1>3, <1>4, <1>8 DEF Writing, Types
  <2>2. Cardinality(Writing') = Cardinality(Writing) + 1 BY <2>1, Models, FS_AddElement
  <2> QED BY <1>4, <2>2 DEF WritersCounted, Writing
<1>15. RowsInTotal'
  <2>1. IsFiniteSet(ToSet(Datas)) BY <1>2, Models
  <2>2. \A m \in ToSet(Datas) \cup {n} : Rows[m] \in Nat BY <1>2, <1>3 DEF Types
  <2>3. SumOver(Rows, ToSet(Datas) \cup {n}) = SumOver(Rows, ToSet(Datas)) + Rows[n]
    BY <1>4, <2>1, <2>2, SumOfMore
  <2>4. SumOver(Rows, ToSet(Datas)) \in Nat BY <2>1, <2>2, SumStep
  <2>5. SumOver(Rows', ToSet(Datas')) = SumOver(Rows, ToSet(Datas))
    BY <1>5, <1>8, <1>9, <2>3, <2>4
  <2> QED BY <1>4, <1>9, <2>5 DEF RowsInTotal
<1> QED BY <1>3, <1>4, <1>5, <1>10, <1>11, <1>12, <1>13, <1>14, <1>15

\* The nets that leave take their rows with them.
LEMMA EraseKeeps ==
  ASSUME ManagerInv, Erases(manager)
  PROVE  /\ ManagerInv' /\ UNCHANGED <<Count, Queue, Closed, Writer, Written, Active, Rows, Ending>>
         /\ Ending = "none" => Last(Datas') = Last(Datas)
<1> USE DEF ManagerInv
<1>1. /\ OneManager' /\ Leaving # {} /\ Leaving' = {}
      /\ Datas' = Kept(Datas, Leaving)
      /\ Alloc' = {n \in Alloc : n \in Leaving => Writer[n] # "none"}
      /\ Total' = Total + SumOver(Rows, Leaving)
      /\ UNCHANGED <<Count, Queue, Closed, Writer, Written, Active, Rows, Ending>>
  BY ErasesAll
<1>2. /\ Datas' \in Seq(Model) /\ ToSet(Datas') = ToSet(Datas) \ Leaving
      /\ OnceEach(Datas')
      /\ Datas # <<>> /\ Last(Datas) \notin Leaving => Datas' # <<>> /\ Last(Datas') = Last(Datas)
  <2>1. Datas \in Seq(Model) /\ DOMAIN Datas = 1..Len(Datas) BY DEF Types
  <2>2. /\ Kept(Datas, Leaving) \in Seq(Model)
        /\ ToSet(Kept(Datas, Leaving)) = ToSet(Datas) \ Leaving
        /\ (\A i, j \in DOMAIN Datas : Datas[i] = Datas[j] => i = j) =>
              \A i, j \in DOMAIN Kept(Datas, Leaving) :
                  Kept(Datas, Leaving)[i] = Kept(Datas, Leaving)[j] => i = j
        /\ Datas # <<>> /\ Last(Datas) \notin Leaving =>
             Kept(Datas, Leaving) # <<>> /\ Last(Kept(Datas, Leaving)) = Last(Datas)
    BY <2>1, KeptIs
  <2>3. DOMAIN Datas' = 1..Len(Datas') BY <1>1, <2>2
  <2>4. OnceEach(Datas') BY <1>1, <2>1, <2>2, <2>3 DEF LatestStays, OnceEach
  <2> QED BY <1>1, <2>2, <2>4
<1>3. ToSet(Datas) \subseteq Model BY DEF ToSet, Types
<1>4. SumOver(Rows, Leaving) \in Nat
  <2>1. IsFiniteSet(Leaving) BY Models DEF Types
  <2> QED BY <2>1, SumStep DEF Types
<1>5. Types'
  <2>1. Alloc' \in SUBSET Model BY <1>1 DEF Types
  <2>2. Total' \in Nat BY <1>1, <1>4 DEF Types
  <2>3. Leaving' \in SUBSET Model BY <1>1
  <2> QED BY <1>1, <1>2, <2>1, <2>2, <2>3 DEF Types
<1>6. HeldStay' BY <1>1, <1>2 DEF HeldStay
<1>7. WritersFollow' BY <1>1, <1>2, <1>3 DEF WritersFollow
<1>8. WritersCounted' BY <1>1 DEF WritersCounted
<1>9. LatestStays' BY <1>1, <1>2 DEF LatestStays
<1>10. RowsInTotal'
  <2> DEFINE Rest == ToSet(Datas) \ Leaving
  <2>1. Leaving \cup Rest = ToSet(Datas) /\ Leaving \cap Rest = {} BY DEF WritersFollow
  <2>2. IsFiniteSet(Leaving) /\ IsFiniteSet(Rest) BY <1>3, Models DEF Types
  <2>3. \A m \in Leaving \cup Rest : Rows[m] \in Nat BY <1>3, <2>1 DEF Types
  <2>4. SumOver(Rows, Rest) \in Nat BY <2>2, <2>3, SumStep
  <2>5. SumOver(Rows, Leaving \cup Rest) = SumOver(Rows, Leaving) + SumOver(Rows, Rest)
    <3> HIDE DEF Rest
    <3> QED BY <2>1, <2>2, <2>3, SumOfUnion
  <2>6. ToSet(Datas') = Rest BY <1>2
  <2>7. Total \in Nat BY DEF Types
  <2>8. Total + SumOver(Rows, Leaving \cup Rest) = SumOver(Rows, Model) BY <2>1 DEF RowsInTotal
  <2>9. Total' + SumOver(Rows, Rest) = SumOver(Rows, Model)
    <3> HIDE DEF Rest
    <3> QED BY <1>1, <1>4, <2>4, <2>5, <2>7, <2>8
  <2> HIDE DEF Rest
  <2>10. Rows' = Rows BY <1>1
  <2> QED BY <2>6, <2>9, <2>10 DEF RowsInTotal
<1> QED BY <1>1, <1>2, <1>5, <1>6, <1>7, <1>8, <1>9, <1>10 DEF LatestStays

\* A net that is evaluated is loaded: its row is among those of the loaded ones.
LEMMA EvaluateKeeps ==
  ASSUME ManagerInv, NEW n \in Model, n \in ToSet(Datas), Evaluates(manager, n)
  PROVE  ManagerInv' /\ UNCHANGED <<Datas, Count, Alloc, Leaving, Queue, Closed, Writer, Written,
                                    Active, Total, Ending>>
<1> USE DEF ManagerInv
<1>1. /\ OneManager' /\ Rows' = [Rows EXCEPT ![n] = Rows[n] + 1]
      /\ UNCHANGED <<Datas, Count, Alloc, Leaving, Queue, Closed, Writer, Written, Active, Total,
                     Ending>>
  BY EvaluatesRow
<1>2. Rows \in [Model -> Nat] /\ Rows' \in [Model -> Nat] BY <1>1 DEF Types
<1>3. Types' BY <1>1, <1>2 DEF Types
<1>4. Writer[n] # "none" BY DEF WritersFollow
<1>5. LatestStays' BY <1>1, <1>2, <1>4 DEF LatestStays
<1>6. HeldStay' /\ WritersFollow' /\ WritersCounted' BY <1>1 DEF HeldStay, WritersFollow,
    WritersCounted
<1>7. ASSUME NEW S \in SUBSET Model, n \in S
      PROVE  SumOver(Rows', S) = SumOver(Rows, S) + 1 /\ SumOver(Rows, S) \in Nat
  <2>1. IsFiniteSet(S) /\ IsFiniteSet(S \ {n}) BY Models, <1>7
  <2> PICK more \in [Model -> Nat] : more = Rows' BY <1>2
  <2>2. \A m \in S : more[m] \in Nat /\ Rows[m] \in Nat BY <1>2
  <2>3. \A m \in S \ {n} : Rows[m] \in Nat /\ more[m] = Rows[m] BY <1>1, <1>2
  <2>4. SumOver(more, S) = more[n] + SumOver(more, S \ {n})
    BY <1>7, <2>1, <2>2, SumStep
  <2>5. SumOver(Rows, S) = Rows[n] + SumOver(Rows, S \ {n}) /\ SumOver(Rows, S) \in Nat
    BY <1>7, <2>1, <2>2, SumStep
  <2>6. SumOver(more, S \ {n}) = SumOver(Rows, S \ {n})
    BY <2>1, <2>3, SumOfSame
  <2>7. SumOver(Rows, S \ {n}) \in Nat BY <2>1, <2>3, SumStep
  <2>8. more[n] = Rows[n] + 1 /\ Rows[n] \in Nat BY <1>1, <1>2
  <2> QED BY <2>4, <2>5, <2>6, <2>7, <2>8
<1>8. RowsInTotal'
  <2>1. ToSet(Datas) \in SUBSET Model BY DEF ToSet, Types
  <2>2. /\ SumOver(Rows', ToSet(Datas)) = SumOver(Rows, ToSet(Datas)) + 1
        /\ SumOver(Rows, ToSet(Datas)) \in Nat
    BY <1>7, <2>1
  <2>3. SumOver(Rows', Model) = SumOver(Rows, Model) + 1 /\ SumOver(Rows, Model) \in Nat BY <1>7
  <2>4. Total \in Nat BY DEF Types
  <2>5. Total + SumOver(Rows', ToSet(Datas)) = SumOver(Rows', Model)
    BY <2>2, <2>3, <2>4 DEF RowsInTotal
  <2> QED BY <1>1, <2>5 DEF RowsInTotal
<1> QED BY <1>1, <1>3, <1>5, <1>6, <1>8

\* A game is pushed to the queue of a net that is held.
LEMMA PushKeeps ==
  ASSUME ManagerInv, NEW n \in Model, Count[n] # 0, NEW game \in Game, push(manager, n, game)
  PROVE  /\ ManagerInv' /\ Queue' = [Queue EXCEPT ![n] = Append(Queue[n], game)]
         /\ UNCHANGED <<Datas, Count, Alloc, Leaving, Closed, Writer, Written, Active, Rows,
                        Total, Ending>>
<1> USE DEF ManagerInv
<1>1. n \in ToSet(Datas) \ Leaving BY DEF HeldStay
<1>2. n \notin Closed BY <1>1 DEF WritersFollow
<1>3. /\ OneManager' /\ Queue' = [Queue EXCEPT ![n] = Append(Queue[n], game)]
      /\ UNCHANGED <<Datas, Count, Alloc, Leaving, Closed, Writer, Written, Active, Rows, Total,
                     Ending>>
  BY <1>2, Pushes
<1>4. Writer[n] = "pop" BY <1>1, <1>2 DEF WritersFollow, Types
<1>5. Queue' \in [Model -> Seq(Game)] BY <1>3 DEF Types
<1>6. Types' BY <1>3, <1>5 DEF Types
<1>7. WritersFollow' BY <1>3, <1>4 DEF WritersFollow, Types
<1> QED BY <1>3, <1>6, <1>7 DEF HeldStay, WritersCounted, LatestStays, RowsInTotal

\* A game goes to disk.
LEMMA WriteKeeps ==
  ASSUME ManagerInv, NEW n \in Model, Writes(manager, n)
  PROVE  /\ ManagerInv' /\ Queue[n] # <<>> /\ Queue' = [Queue EXCEPT ![n] = Tail(Queue[n])]
         /\ Written' = Written \cup {Head(Queue[n])}
         /\ UNCHANGED <<Datas, Count, Alloc, Leaving, Closed, Writer, Active, Rows, Total, Ending>>
<1> USE DEF ManagerInv
<1>1. /\ OneManager' /\ Writer[n] = "pop" /\ Queue[n] # <<>>
      /\ Queue' = [Queue EXCEPT ![n] = Tail(Queue[n])]
      /\ Written' = Written \cup {Head(Queue[n])}
      /\ UNCHANGED <<Datas, Count, Alloc, Leaving, Closed, Writer, Active, Rows, Total, Ending>>
  BY WritesGame
<1>2. Head(Queue[n]) \in Game /\ Tail(Queue[n]) \in Seq(Game)
  <2>1. Queue[n] \in Seq(Game) BY DEF Types
  <2> QED BY <1>1, <2>1
<1>3. Queue' \in [Model -> Seq(Game)] /\ Written' \in SUBSET Game BY <1>1, <1>2 DEF Types
<1>4. Types' BY <1>1, <1>3 DEF Types
<1>5. WritersFollow' BY <1>1 DEF WritersFollow, Types
<1> QED BY <1>1, <1>4, <1>5 DEF HeldStay, WritersCounted, LatestStays, RowsInTotal

\* A writer that is at its end: its queue is closed and empty, and before it
\* deletes the net it has waited for who was unloading it.
LEMMA WriterStepKeeps ==
  ASSUME ManagerInv, NEW n \in Model,
         \/ WriterEnds(manager, n) \/ WriterLocks(manager, n)
         \/ WriterDeletes(manager, n) \/ WriterChecksIn(manager, n)
  PROVE  /\ ManagerInv'
         /\ UNCHANGED <<Datas, Count, Leaving, Queue, Closed, Written, Rows, Total>>
         /\ Ending' = Ending \/ (Ending = "asleep" /\ Ending' = "wait")
<1> USE DEF ManagerInv
<1>1. CASE WriterEnds(manager, n) \/ WriterLocks(manager, n)
  <2>1. /\ OneManager'
        /\ \/ Writer[n] = "pop" /\ Queue[n] = <<>> /\ n \in Closed /\ Writer' = [Writer EXCEPT ![n] = "lock"]
           \/ Writer[n] = "lock" /\ Leaving = {} /\ Writer' = [Writer EXCEPT ![n] = "delete"]
        /\ UNCHANGED <<Datas, Count, Alloc, Leaving, Queue, Closed, Written, Active, Rows, Total,
                       Ending>>
    BY <1>1, WriterFinishes
  <2>2. Types' BY <2>1 DEF Types
  <2>3. WritersFollow' BY <2>1 DEF WritersFollow, Types
  <2>4. Writing' = Writing BY <2>1 DEF Writing, Types
  <2>5. WritersCounted' BY <2>1, <2>4 DEF WritersCounted, Writing
  <2>6. LatestStays' BY <2>1 DEF LatestStays, Types
  <2> QED BY <2>1, <2>2, <2>3, <2>5, <2>6 DEF HeldStay, RowsInTotal
<1>2. CASE WriterDeletes(manager, n)
  <2>1. /\ OneManager' /\ Writer[n] = "delete"
        /\ Writer' = [Writer EXCEPT ![n] = "checkin"] /\ Alloc' = Alloc \ {n}
        /\ UNCHANGED <<Datas, Count, Leaving, Queue, Closed, Written, Active, Rows, Total, Ending>>
    BY <1>2, WriterGivesBack
  <2>2. Types' BY <2>1 DEF Types
  <2>3. WritersFollow' BY <2>1 DEF WritersFollow, Types
  <2>4. Writing' = Writing BY <2>1 DEF Writing, Types
  <2>5. WritersCounted' BY <2>1, <2>4 DEF WritersCounted, Writing
  <2>6. LatestStays' BY <2>1 DEF LatestStays, Types
  <2> QED BY <2>1, <2>2, <2>3, <2>5, <2>6 DEF HeldStay, RowsInTotal
<1>3. CASE WriterChecksIn(manager, n)
  <2>1. /\ OneManager' /\ Writer[n] = "checkin" /\ Leaving = {}
        /\ Writer' = [Writer EXCEPT ![n] = "exited"] /\ Active' = Active - 1
        /\ \/ UNCHANGED Ending
           \/ Ending = "asleep" /\ Ending' = "wait"
        /\ UNCHANGED <<Datas, Count, Alloc, Leaving, Queue, Closed, Written, Rows, Total>>
    BY <1>3, WriterIsGone
  <2>2. Writing' = Writing \ {n} /\ n \in Writing BY <2>1 DEF Writing, Types
  <2>3. Cardinality(Writing') = Cardinality(Writing) - 1 BY <2>2, Models, FS_RemoveElement
  <2>4. Cardinality(Writing) # 0 BY <2>2, Models, FS_EmptySet
  <2>5. Active = Cardinality(Writing) BY DEF WritersCounted, Writing
  <2>6. Active' \in Nat BY <2>1, <2>4, <2>5, Models
  <2>7. Types' BY <2>1, <2>6 DEF Types
  <2>8. WritersFollow' BY <2>1 DEF WritersFollow, Types
  <2>9. WritersCounted' BY <2>1, <2>3, <2>5 DEF WritersCounted, Writing
  <2>10. LatestStays'
    <3>1. Ending # "done" BY <2>4, <2>5 DEF LatestStays
    <3> QED BY <2>1, <3>1 DEF LatestStays, Types
  <2> QED BY <2>1, <2>7, <2>8, <2>9, <2>10 DEF HeldStay, RowsInTotal
<1> QED BY <1>1, <1>2, <1>3, WriterFinishes, WriterGivesBack

\* The destructor takes all nets when nobody holds one.
LEMMA DestroyKeeps ==
  ASSUME ManagerInv, \A n \in Model : Count[n] = 0, Destroys(manager)
  PROVE  /\ ManagerInv' /\ Ending' = "wait"
         /\ UNCHANGED <<Datas, Count, Alloc, Queue, Writer, Written, Active, Rows, Total>>
<1> USE DEF ManagerInv
<1>1. /\ OneManager' /\ Ending = "none" /\ Ending' = "wait" /\ Leaving = {}
      /\ Leaving' = ToSet(Datas) /\ Closed' = Closed \cup ToSet(Datas)
      /\ UNCHANGED <<Datas, Count, Alloc, Queue, Writer, Written, Active, Rows, Total>>
  BY DestroysAll
<1>2. ToSet(Datas) \in SUBSET Model BY DEF ToSet, Types
<1>3. Types' BY <1>1, <1>2 DEF Types
<1> QED BY <1>1, <1>3 DEF HeldStay, WritersFollow, WritersCounted, LatestStays, RowsInTotal

\* The destructor sleeps or is done.
LEMMA WaitKeeps ==
  ASSUME ManagerInv, DestructorWaits(manager)
  PROVE  /\ ManagerInv' /\ Ending = "wait" /\ Ending' \in {"done", "asleep"}
         /\ UNCHANGED <<Datas, Count, Alloc, Leaving, Queue, Closed, Writer, Written, Active,
                        Rows, Total>>
<1> USE DEF ManagerInv
<1>1. /\ OneManager' /\ Ending = "wait" /\ Leaving = {}
      /\ Ending' = IF Active = 0 THEN "done" ELSE "asleep"
      /\ UNCHANGED <<Datas, Count, Alloc, Leaving, Queue, Closed, Writer, Written, Active, Rows,
                     Total>>
  BY WaitsForWriters
<1>2. Types' BY <1>1 DEF Types
<1> QED BY <1>1, <1>2 DEF HeldStay, WritersFollow, WritersCounted, LatestStays, RowsInTotal

-----------------------------------------------------------------------------
(* The threads keep theirs.                                                *)

\* What is known of the games, and of the command as a whole.
GameInv == GamesInPlay /\ GamesInOnePlace /\ GamesSomewhere

\* The inductive invariant of selfplay.
SelfplayInv ==
    ManagerInv /\ ThreadTypes /\ ThreadsHoldNets /\ HoldersCounted /\ Phases /\ GameInv

\* The threads that hold n by f.
HoldersOf(f, n) == {u \in Thread : n = f[u]}

\* The holders of a net are finitely many, a thread that has it is one of them.
LEMMA HoldersAre ==
  ASSUME NEW f, NEW n, NEW t \in Thread
  PROVE  /\ IsFiniteSet(HoldersOf(f, n)) /\ Cardinality(HoldersOf(f, n)) \in Nat
         /\ n = f[t] => Cardinality(HoldersOf(f, n)) # 0
<1>1. IsFiniteSet(HoldersOf(f, n))
  <2>1. HoldersOf(f, n) \subseteq Thread BY DEF HoldersOf
  <2> QED BY <2>1, SelfplayAssumption, FS_Subset
<1>2. Cardinality(HoldersOf(f, n)) \in Nat BY <1>1, FS_CardinalityType
<1>3. n = f[t] => t \in HoldersOf(f, n) BY DEF HoldersOf
<1>4. n = f[t] => Cardinality(HoldersOf(f, n)) # 0 BY <1>1, <1>3, FS_EmptySet
<1> QED BY <1>1, <1>2, <1>4

\* What a thread has instead of what it had.
LEMMA HoldersChange ==
  ASSUME NEW f, NEW t \in Thread, NEW b,
         NEW e, e[t] = b, \A u \in Thread \ {t} : e[u] = f[u], NEW n
  PROVE  /\ (n = f[t] <=> n = b) => Cardinality(HoldersOf(e, n)) = Cardinality(HoldersOf(f, n))
         /\ n = f[t] /\ n # b => Cardinality(HoldersOf(e, n)) = Cardinality(HoldersOf(f, n)) - 1
         /\ n # f[t] /\ n = b => Cardinality(HoldersOf(e, n)) = Cardinality(HoldersOf(f, n)) + 1
<1>1. IsFiniteSet(HoldersOf(f, n)) /\ IsFiniteSet(HoldersOf(e, n)) BY HoldersAre
<1>4. (n = f[t] <=> n = b) => HoldersOf(e, n) = HoldersOf(f, n) BY DEF HoldersOf
<1>5. n = f[t] /\ n # b => Cardinality(HoldersOf(e, n)) = Cardinality(HoldersOf(f, n)) - 1
  <2> HAVE n = f[t] /\ n # b
  <2>1. HoldersOf(e, n) = HoldersOf(f, n) \ {t} /\ t \in HoldersOf(f, n) BY DEF HoldersOf
  <2> QED BY <1>1, <2>1, FS_RemoveElement
<1>6. n # f[t] /\ n = b => Cardinality(HoldersOf(e, n)) = Cardinality(HoldersOf(f, n)) + 1
  <2> HAVE n # f[t] /\ n = b
  <2>1. HoldersOf(e, n) = HoldersOf(f, n) \cup {t} /\ t \notin HoldersOf(f, n) BY DEF HoldersOf
  <2> QED BY <1>1, <2>1, FS_AddElement
<1> QED BY <1>4, <1>5, <1>6

\* While a thread is left nothing is ended.
LEMMA ThreadIsLeft ==
  ASSUME ManagerInv, Phases, NEW t \in Thread, gamePc[t] # "exited"
  PROVE  /\ Ending = "none" /\ mainPc = "join"
         /\ Datas # <<>> /\ Latest(manager) = Last(Datas) /\ Last(Datas) \in Model
<1>1. mainPc = "join" /\ Ending = "none" BY DEF Phases
<1>2. Datas # <<>> BY <1>1 DEF ManagerInv, LatestStays
<1>3. Last(Datas) \in Model
  BY <1>2, FrontOf DEF ManagerInv, LatestStays, Types
<1> QED BY <1>1, <1>2, <1>3 DEF Latest, Datas

\* A net that a thread holds is counted and loaded.
LEMMA HeldIsCounted ==
  ASSUME ManagerInv, ThreadTypes, HoldersCounted, NEW t \in Thread, NEW n \in Model,
         n = nnEval[t] \/ n = newNNEval[t]
  PROVE  Count[n] # 0 /\ n \in ToSet(Datas) /\ n \in Alloc
<1>1. /\ Cardinality(HoldersOf(nnEval, n)) \in Nat
      /\ n = nnEval[t] => Cardinality(HoldersOf(nnEval, n)) # 0
  BY HoldersAre
<1>2. /\ Cardinality(HoldersOf(newNNEval, n)) \in Nat
      /\ n = newNNEval[t] => Cardinality(HoldersOf(newNNEval, n)) # 0
  BY HoldersAre
<1>3. Count[n] = Cardinality(HoldersOf(nnEval, n)) + Cardinality(HoldersOf(newNNEval, n))
  BY DEF HoldersCounted, HoldersOf
<1>4. Count[n] # 0 BY <1>1, <1>2, <1>3
<1> QED BY <1>4 DEF ManagerInv, HeldStay, WritersFollow

\* The games do not mind a step that starts, ends and moves none.
LEMMA GamesRest ==
  ASSUME GameInv, UNCHANGED <<numGamesStarted, gamePc, gameIdx, finished>>, UNCHANGED <<Queue,
                              Written>>
  PROVE  GameInv'
BY DEF GameInv, GamesInPlay, GamesInOnePlace, GamesSomewhere

\* Where a thread has no game, plays one, and hands it on.
Idling == {"top", "acquire", "start", "exited"}
Playing == {"play", "compare", "switch"}
Handing == {"lookup", "push"}

\* Nor a step from one place of the game loop to another of the same kind.
LEMMA GamesGoOn ==
  ASSUME GameInv, ThreadTypes, NEW t \in Thread, NEW next, GameGoto(t, next),
         \/ gamePc[t] \in Idling /\ next \in Idling
         \/ gamePc[t] \in Playing /\ next \in Playing
         \/ gamePc[t] \in Handing /\ next \in Handing,
         UNCHANGED <<numGamesStarted, gameIdx, finished>>, UNCHANGED <<Queue, Written>>
  PROVE  GameInv'
<1> USE DEF GameInv, GameGoto, Idling, Playing, Handing
<1>1. \A u \in Thread : gamePc'[u] = IF u = t THEN next ELSE gamePc[u] BY DEF ThreadTypes
<1>2. \A u \in Thread : /\ gamePc'[u] \in Idling <=> gamePc[u] \in Idling
                        /\ gamePc'[u] \in Playing <=> gamePc[u] \in Playing
                        /\ gamePc'[u] \in Handing <=> gamePc[u] \in Handing
  BY <1>1
<1>3. GamesInPlay' BY <1>2 DEF GamesInPlay
<1>4. GamesInOnePlace' BY <1>2 DEF GamesInOnePlace
<1>5. GamesSomewhere' BY <1>2 DEF GamesSomewhere
<1> QED BY <1>3, <1>4, <1>5

\* A game is started: it has a number that no other has.
LEMMA GameStarts ==
  ASSUME GameInv, ThreadTypes, NEW t \in Thread, StartsGame(t), UNCHANGED <<Queue, Written>>
  PROVE  GameInv'
<1> USE DEF GameInv, GameGoto
<1>1. CASE numGamesStarted < MaxGamesTotal
  <2> PICK next \in Nat : next = numGamesStarted + 1 BY DEF ThreadTypes
  <2>1. /\ gamePc[t] = "start" /\ numGamesStarted' = next /\ finished' = finished
        /\ \A u \in Thread : /\ gamePc'[u] = IF u = t THEN "play" ELSE gamePc[u]
                             /\ gameIdx'[u] = IF u = t THEN next ELSE gameIdx[u]
    BY <1>1 DEF StartsGame, ThreadTypes
  <2>2. numGamesStarted \in Nat /\ next > numGamesStarted /\ next # 0 BY DEF ThreadTypes
  <2>3. /\ \A u \in Thread : gameIdx[u] \in Nat /\ gameIdx[u] <= numGamesStarted
        /\ \A game \in finished : game \in Nat /\ game <= numGamesStarted
    BY SelfplayAssumption DEF GamesInPlay, ThreadTypes
  <2>4. next \notin finished /\ \A u \in Thread : gameIdx[u] # next BY <2>2, <2>3
  <2>5. GamesInPlay' BY <2>1, <2>2, <2>3, <2>4 DEF GamesInPlay
  <2>6. GamesInOnePlace' BY <2>1 DEF GamesInOnePlace
  <2>7. GamesSomewhere' BY <2>1 DEF GamesSomewhere
  <2> QED BY <2>5, <2>6, <2>7
<1>2. CASE ~(numGamesStarted < MaxGamesTotal)
  <2>1. /\ gamePc[t] = "start" /\ numGamesStarted' = numGamesStarted + 1
        /\ finished' = finished /\ gameIdx' = gameIdx
        /\ \A u \in Thread : gamePc'[u] = IF u = t THEN "release" ELSE gamePc[u]
    BY <1>2 DEF StartsGame, ThreadTypes
  <2>2. /\ numGamesStarted \in Nat
        /\ \A u \in Thread : gameIdx[u] \in Nat
        /\ \A game \in finished : game \in Nat
    BY SelfplayAssumption DEF ThreadTypes
  <2>3. GamesInPlay' BY <2>1, <2>2 DEF GamesInPlay
  <2>4. GamesInOnePlace' BY <2>1 DEF GamesInOnePlace
  <2>5. GamesSomewhere' BY <2>1 DEF GamesSomewhere
  <2> QED BY <2>3, <2>4, <2>5
<1> QED BY <1>1, <1>2

\* A game is dropped, or finished and with its thread.
LEMMA GameEnds ==
  ASSUME GameInv, ThreadTypes, NEW t \in Thread, EndsGame(t), UNCHANGED <<Queue, Written>>
  PROVE  GameInv'
<1> USE DEF GameInv, GameGoto
<1>1. CASE shouldStop
  <2>1. /\ gamePc[t] = "play" /\ numGamesStarted' = numGamesStarted /\ finished' = finished
        /\ \A u \in Thread : /\ gamePc'[u] = IF u = t THEN "release" ELSE gamePc[u]
                             /\ gameIdx'[u] = IF u = t THEN 0 ELSE gameIdx[u]
    BY <1>1 DEF EndsGame, ThreadTypes
  <2>2. numGamesStarted \in Nat BY DEF ThreadTypes
  <2>3. GamesInPlay' BY <2>1, <2>2 DEF GamesInPlay
  <2>4. GamesInOnePlace' BY <2>1 DEF GamesInOnePlace
  <2>5. GamesSomewhere' BY <2>1 DEF GamesSomewhere
  <2> QED BY <2>3, <2>4, <2>5
<1>2. CASE ~shouldStop
  <2> PICK game \in Game \cup {0} : game = gameIdx[t] BY DEF ThreadTypes
  <2>1. /\ gamePc[t] = "play" /\ UNCHANGED <<numGamesStarted, gameIdx>>
        /\ finished' = finished \cup {game}
        /\ \A u \in Thread : gamePc'[u] = IF u = t THEN "lookup" ELSE gamePc[u]
    BY <1>2 DEF EndsGame, ThreadTypes
  <2>2. game # 0 /\ game \notin finished /\ game <= numGamesStarted
        /\ \A u \in Thread : gameIdx[u] = game => u = t
    BY <2>1 DEF GamesInPlay
  <2>3. GamesInPlay' BY <2>1, <2>2 DEF GamesInPlay
  <2>4. game \notin Written /\ \A n \in Model : game \notin ToSet(Queue[n])
    BY <2>2 DEF GamesInOnePlace
  <2>5. GamesInOnePlace'
    <3>1. \A u \in Thread : gamePc'[u] \in {"lookup", "push"} =>
             /\ gameIdx[u] \notin Written
             /\ \A n \in Model : gameIdx[u] \notin ToSet(Queue[n])
      BY <2>1, <2>4 DEF GamesInOnePlace
    <3> QED BY <2>1, <3>1 DEF GamesInOnePlace
  <2>6. GamesSomewhere' BY <2>1 DEF GamesSomewhere
  <2> QED BY <2>3, <2>5, <2>6
<1> QED BY <1>1, <1>2

\* The game goes from its thread to a queue.
LEMMA GameIsPushed ==
  ASSUME GameInv, ThreadTypes, Types, NEW t \in Thread, gamePc[t] = "push", GameGoto(t, "release"),
         NEW n \in Model, Queue' = [Queue EXCEPT ![n] = Append(Queue[n], gameIdx[t])],
         UNCHANGED <<numGamesStarted, gameIdx, finished, Written>>
  PROVE  GameInv'
<1> USE DEF GameInv, GameGoto
<1>1. PICK game \in Game : game = gameIdx[t] BY DEF GamesInPlay, ThreadTypes
<1>2. \A u \in Thread : gamePc'[u] = IF u = t THEN "release" ELSE gamePc[u] BY DEF ThreadTypes
<1>3. \A u \in Thread : gameIdx[u] = game => u = t
  BY <1>1 DEF GamesInPlay
<1>4. game \in finished /\ game \notin Written /\ \A m \in Model : game \notin ToSet(Queue[m])
  BY <1>1 DEF GamesInPlay, GamesInOnePlace
<1>5. Queue[n] \in Seq(Game) /\ OnceEach(Queue[n]) BY DEF Types, GamesInOnePlace
<1>6. /\ ToSet(Queue'[n]) = ToSet(Queue[n]) \cup {game} /\ OnceEach(Queue'[n])
      /\ \A m \in Model \ {n} : Queue'[m] = Queue[m]
  <2>1. Queue'[n] = Append(Queue[n], game) BY <1>1 DEF Types
  <2> QED BY <1>4, <1>5, <2>1, Appended, AppendedOnce DEF Types
<1>7. GamesInPlay' BY <1>2 DEF GamesInPlay
<1>8. GamesInOnePlace'
  <2>1. ASSUME NEW u \in Thread, gamePc'[u] \in {"lookup", "push"}
        PROVE  /\ gameIdx[u] \notin Written
               /\ \A m \in Model : gameIdx[u] \notin ToSet(Queue'[m])
    <3>1. gamePc[u] \in {"lookup", "push"} /\ gameIdx[u] # game BY <1>2, <1>3, <2>1
    <3> QED BY <1>6, <3>1 DEF GamesInOnePlace
  <2>2. ASSUME NEW m \in Model
        PROVE  ToSet(Queue'[m]) \subseteq finished \ Written /\ OnceEach(Queue'[m])
    BY <1>4, <1>6 DEF GamesInOnePlace
  <2>3. ASSUME NEW m \in Model, NEW k \in Model, NEW one \in ToSet(Queue'[m]) \cap ToSet(Queue'[k])
        PROVE  m = k
    BY <1>4, <1>6 DEF GamesInOnePlace
  <2>4. Written \subseteq finished BY DEF GamesInOnePlace
  <2> QED BY <2>1, <2>2, <2>3, <2>4 DEF GamesInOnePlace
<1>9. GamesSomewhere'
  <2> SUFFICES ASSUME NEW one \in finished \ Written
               PROVE  \/ \E u \in Thread : gamePc'[u] \in {"lookup", "push"} /\ gameIdx[u] = one
                      \/ \E m \in Model : one \in ToSet(Queue'[m])
    BY DEF GamesSomewhere
  <2>1. CASE \E m \in Model : one \in ToSet(Queue[m]) BY <1>6, <2>1
  <2>2. CASE one = game BY <1>6, <2>2
  <2>3. CASE one # game /\ \E u \in Thread : gamePc[u] \in {"lookup", "push"} /\ gameIdx[u] = one
    BY <1>1, <1>2, <2>3
  <2> QED BY <2>1, <2>2, <2>3 DEF GamesSomewhere
<1> QED BY <1>7, <1>8, <1>9

\* It goes from the queue to the disk.
LEMMA GameIsWritten ==
  ASSUME GameInv, ThreadTypes, Types, NEW n \in Model, Queue[n] # <<>>,
         Queue' = [Queue EXCEPT ![n] = Tail(Queue[n])], Written' = Written \cup {Head(Queue[n])},
         UNCHANGED <<numGamesStarted, gamePc, gameIdx, finished>>
  PROVE  GameInv'
<1> USE DEF GameInv
<1>1. Queue[n] \in Seq(Game) /\ OnceEach(Queue[n]) BY DEF Types, GamesInOnePlace
<1>2. PICK game : game = Head(Queue[n]) OBVIOUS
<1>3. /\ game \in ToSet(Queue[n]) /\ ToSet(Queue'[n]) = ToSet(Queue[n]) \ {game}
      /\ OnceEach(Queue'[n]) /\ Written' = Written \cup {game}
      /\ \A m \in Model \ {n} : Queue'[m] = Queue[m]
  <2>1. Queue'[n] = Tail(Queue[n]) BY DEF Types
  <2> QED BY <1>1, <1>2, <2>1, TailOf DEF Types
<1>4. /\ game \in finished
      /\ \A m \in Model \ {n} : game \notin ToSet(Queue[m])
      /\ \A u \in Thread : gamePc[u] \in {"lookup", "push"} => gameIdx[u] # game
  BY <1>3 DEF GamesInOnePlace
<1>5. GamesInPlay' BY DEF GamesInPlay
<1>6. GamesInOnePlace'
  <2>1. ASSUME NEW u \in Thread, gamePc[u] \in {"lookup", "push"}
        PROVE  /\ gameIdx[u] \notin Written'
               /\ \A m \in Model : gameIdx[u] \notin ToSet(Queue'[m])
    BY <1>3, <1>4, <2>1 DEF GamesInOnePlace
  <2>2. ASSUME NEW m \in Model
        PROVE  ToSet(Queue'[m]) \subseteq finished \ Written' /\ OnceEach(Queue'[m])
    BY <1>3, <1>4 DEF GamesInOnePlace
  <2>3. ASSUME NEW m \in Model, NEW k \in Model, NEW one \in ToSet(Queue'[m]) \cap ToSet(Queue'[k])
        PROVE  m = k
    BY <1>3 DEF GamesInOnePlace
  <2>4. Written' \subseteq finished BY <1>3, <1>4 DEF GamesInOnePlace
  <2> QED BY <2>1, <2>2, <2>3, <2>4 DEF GamesInOnePlace
<1>7. GamesSomewhere' BY <1>3 DEF GamesSomewhere
<1> QED BY <1>5, <1>6, <1>7

\* The thread forgets its game, which it has pushed or never had.
LEMMA GameIsForgotten ==
  ASSUME GameInv, ThreadTypes, NEW t \in Thread, EndsLoop(t), UNCHANGED <<Queue, Written>>
  PROVE  GameInv'
<1> USE DEF GameInv, GameGoto
<1>1. /\ gamePc[t] = "release" /\ UNCHANGED <<numGamesStarted, finished>>
      /\ \A u \in Thread : /\ gamePc'[u] = IF u = t THEN (IF gameIdx[t] = 0 THEN "exited" ELSE "top")
                                           ELSE gamePc[u]
                           /\ gameIdx'[u] = IF u = t THEN 0 ELSE gameIdx[u]
  BY DEF EndsLoop, ThreadTypes
<1>2. numGamesStarted \in Nat BY DEF ThreadTypes
<1>3. GamesInPlay' BY <1>1, <1>2 DEF GamesInPlay
<1>4. GamesInOnePlace' BY <1>1 DEF GamesInOnePlace
<1>5. GamesSomewhere' BY <1>1 DEF GamesSomewhere
<1> QED BY <1>3, <1>4, <1>5

-----------------------------------------------------------------------------
(* The steps of the command.                                               *)

\* A step of a thread leaves main and the loading thread where they are.
LEMMA PhasesStay ==
  ASSUME ManagerInv, ThreadTypes, Phases, NEW t \in Thread, gamePc[t] # "exited",
         \A u \in Thread \ {t} : gamePc'[u] = gamePc[u],
         UNCHANGED <<mainPc, loaderPc>>, UNCHANGED <<Ending, Datas>>
  PROVE  Phases'
<1>1. mainPc = "join" /\ Ending = "none" BY DEF Phases
<1> QED BY <1>1 DEF Phases

\* A thread that takes and gives no net changes none of this.
LEMMA HoldersStay ==
  ASSUME HoldersCounted, UNCHANGED <<nnEval, newNNEval>>, UNCHANGED Count
  PROVE  HoldersCounted'
BY DEF HoldersCounted

\* The steps that only move the thread on, or give its bots their net.
LEMMA ThreadMovesOn ==
  ASSUME SelfplayInv, NEW t \in Thread,
         StartsLoop(t) \/ StartsGame(t) \/ SwitchesBots(t) \/ EndsGame(t) \/ LooksUp(t)
  PROVE  SelfplayInv'
<1> USE DEF SelfplayInv, GameGoto, OthersUnchanged
<1>1. /\ UNCHANGED managerVars /\ UNCHANGED <<nnEval, newNNEval, mainPc, loaderPc>>
      /\ gamePc[t] # "exited"
  BY DEF StartsLoop, StartsGame, SwitchesBots, EndsGame, LooksUp
<1>2. ManagerInv' /\ UNCHANGED <<Datas, Count, Queue, Written, Ending>>
  BY <1>1, RestKeeps, Rests DEF ManagerInv
<1>3. ThreadTypes'
  <2>1. CASE StartsGame(t)
    <3>1. numGamesStarted < MaxGamesTotal => numGamesStarted + 1 \in Game
      BY SelfplayAssumption DEF ThreadTypes
    <3> QED BY <2>1, <3>1 DEF StartsGame, ThreadTypes
  <2>2. CASE EndsGame(t)
    <3>1. ~shouldStop => gameIdx[t] \in Game
      BY <2>2 DEF EndsGame, ThreadTypes, GameInv, GamesInPlay
    <3> QED BY <2>2, <3>1 DEF EndsGame, ThreadTypes
  <2>3. CASE StartsLoop(t) \/ SwitchesBots(t) \/ LooksUp(t)
    BY <2>3 DEF StartsLoop, SwitchesBots, LooksUp, ThreadTypes
  <2> QED BY <2>1, <2>2, <2>3
<1>4. ThreadsHoldNets'
  BY <1>1 DEF StartsLoop, StartsGame, SwitchesBots, EndsGame, LooksUp, ThreadsHoldNets, ThreadTypes
<1>5. HoldersCounted' BY <1>1, <1>2, HoldersStay
<1>6. Phases'
  <2>1. \A u \in Thread \ {t} : gamePc'[u] = gamePc[u]
    BY DEF StartsLoop, StartsGame, SwitchesBots, EndsGame, LooksUp, ThreadTypes
  <2> QED BY <1>1, <1>2, <2>1, PhasesStay
<1>7. GameInv'
  <2>1. CASE StartsGame(t) BY <1>2, <2>1, GameStarts
  <2>2. CASE EndsGame(t) BY <1>2, <2>2, GameEnds
  <2>3. CASE StartsLoop(t)
    <3> DEFINE next == IF shouldStop THEN "exited" ELSE "acquire"
    <3>1. GameGoto(t, next) /\ gamePc[t] \in Idling /\ next \in Idling
      BY <2>3 DEF StartsLoop, Idling
    <3>2. UNCHANGED <<numGamesStarted, gameIdx, finished>> BY <2>3 DEF StartsLoop
    <3> HIDE DEF next, GameGoto
    <3> QED BY <1>2, <3>1, <3>2, GamesGoOn
  <2>4. CASE SwitchesBots(t)
    <3>1. GameGoto(t, "play") /\ gamePc[t] \in Playing /\ "play" \in Playing
          /\ UNCHANGED <<numGamesStarted, gameIdx, finished>>
      BY <2>4 DEF SwitchesBots, Playing
    <3> HIDE DEF GameGoto
    <3> QED BY <1>2, <3>1, GamesGoOn
  <2>5. CASE LooksUp(t)
    <3>1. GameGoto(t, "push") /\ gamePc[t] \in Handing /\ "push" \in Handing
          /\ UNCHANGED <<numGamesStarted, gameIdx, finished>>
      BY <2>5 DEF LooksUp, Handing
    <3> HIDE DEF GameGoto
    <3> QED BY <1>2, <3>1, GamesGoOn
  <2> QED BY <2>1, <2>2, <2>3, <2>4, <2>5
<1> QED BY <1>2, <1>3, <1>4, <1>5, <1>6, <1>7

\* The row is one of a net that is held.
LEMMA ThreadPlays ==
  ASSUME SelfplayInv, NEW t \in Thread, Plays(t)
  PROVE  SelfplayInv'
<1> USE DEF SelfplayInv, OthersUnchanged, gameVars
<1>1. /\ gamePc[t] = "play" /\ Evaluates(manager, botNNEval[t])
      /\ UNCHANGED <<shouldStop, loaderPc, mainPc, numGamesStarted, gamePc, gameIdx, nnEval,
                     newNNEval,
                     botNNEval, finished>>
  BY DEF Plays
<1>2. PICK n \in Model : n = nnEval[t] /\ n = botNNEval[t]
  BY <1>1 DEF ThreadsHoldNets, ThreadTypes
<1>3. n \in ToSet(Datas) BY <1>2, HeldIsCounted
<1>4. ManagerInv' /\ UNCHANGED <<Datas, Count, Queue, Written, Ending>>
  BY <1>1, <1>2, <1>3, EvaluateKeeps
<1>5. ThreadTypes' /\ ThreadsHoldNets' BY <1>1 DEF ThreadTypes, ThreadsHoldNets
<1>6. HoldersCounted' BY <1>1, <1>4, HoldersStay
<1>7. Phases' BY <1>1, <1>4 DEF Phases
<1>8. GameInv' BY <1>1, <1>4, GamesRest
<1> QED BY <1>4, <1>5, <1>6, <1>7, <1>8

\* A net is counted once more when a thread takes it.
LEMMA ThreadAcquires ==
  ASSUME SelfplayInv, NEW t \in Thread, AcquiresLatest(t) \/ ChecksForNewNNEval(t)
  PROVE  SelfplayInv'
<1> USE DEF SelfplayInv, OthersUnchanged
<1>1. gamePc[t] # "exited" BY DEF AcquiresLatest, ChecksForNewNNEval
<1>2. PICK n \in Model : n = Last(Datas) BY <1>1, ThreadIsLeft
<1>3. Ending = "none" /\ Latest(manager) = n BY <1>1, <1>2, ThreadIsLeft
<1>4. acquire(manager, n) BY <1>3 DEF AcquiresLatest, ChecksForNewNNEval
<1>5. ManagerInv' BY <1>2, <1>3, <1>4, AcquireKeeps
<1>6. /\ Count' = [Count EXCEPT ![n] = Count[n] + 1]
      /\ UNCHANGED <<Datas, Queue, Written, Ending>>
  BY <1>4, Acquires DEF ManagerInv
<1>7. Count \in [Model -> Nat] BY DEF ManagerInv, Types
<1>8. n # NoModel BY SelfplayAssumption
<1>9. CASE AcquiresLatest(t)
  <2>1. /\ gamePc[t] = "acquire" /\ GameGoto(t, "start")
        /\ \A u \in Thread : /\ gamePc'[u] = IF u = t THEN "start" ELSE gamePc[u]
                             /\ nnEval'[u] = IF u = t THEN n ELSE nnEval[u]
        /\ UNCHANGED <<shouldStop, loaderPc, mainPc, numGamesStarted, gameIdx, newNNEval,
                       botNNEval, finished>>
    BY <1>3, <1>9 DEF AcquiresLatest, GameGoto, ThreadTypes
  <2>2. ThreadTypes' BY <1>3, <1>9 DEF AcquiresLatest, GameGoto, ThreadTypes
  <2>3. ThreadsHoldNets' BY <2>1, <1>8 DEF ThreadsHoldNets
  <2>4. HoldersCounted'
    <3> SUFFICES ASSUME NEW m \in Model
                 PROVE  Count'[m] = Cardinality(HoldersOf(nnEval', m)) + Cardinality(HoldersOf(newNNEval', m))
      BY DEF HoldersCounted, HoldersOf
    <3>1. Count[m] = Cardinality(HoldersOf(nnEval, m)) + Cardinality(HoldersOf(newNNEval, m))
      BY DEF HoldersCounted, HoldersOf
    <3>2. nnEval[t] = NoModel /\ m # NoModel BY <2>1, SelfplayAssumption DEF ThreadsHoldNets
    <3>3. /\ m # n => Cardinality(HoldersOf(nnEval', m)) = Cardinality(HoldersOf(nnEval, m))
          /\ m = n => Cardinality(HoldersOf(nnEval', m)) = Cardinality(HoldersOf(nnEval, m)) + 1
      <4> DEFINE e == nnEval'
      <4>1. e[t] = n /\ \A u \in Thread \ {t} : e[u] = nnEval[u] BY <2>1
      <4> HIDE DEF e
      <4>2. /\ m # n => Cardinality(HoldersOf(e, m)) = Cardinality(HoldersOf(nnEval, m))
            /\ m = n => Cardinality(HoldersOf(e, m)) = Cardinality(HoldersOf(nnEval, m)) + 1
        BY <3>2, <4>1, HoldersChange
      <4> QED BY <4>2 DEF e
    <3>4. Cardinality(HoldersOf(nnEval, m)) \in Nat /\ Cardinality(HoldersOf(newNNEval, m)) \in Nat
      BY HoldersAre
    <3>5. newNNEval' = newNNEval BY <2>1
    <3> QED BY <1>6, <1>7, <3>1, <3>3, <3>4, <3>5
  <2>5. Phases' BY <1>1, <1>6, <2>1, PhasesStay
  <2>6. GameInv'
    <3>1. gamePc[t] \in Idling /\ "start" \in Idling BY <2>1 DEF Idling
    <3> QED BY <1>6, <2>1, <3>1, GamesGoOn
  <2> QED BY <1>5, <2>2, <2>3, <2>4, <2>5, <2>6
<1>10. CASE ChecksForNewNNEval(t)
  <2>1. /\ gamePc[t] = "play" /\ GameGoto(t, "compare")
        /\ \A u \in Thread : /\ gamePc'[u] = IF u = t THEN "compare" ELSE gamePc[u]
                             /\ newNNEval'[u] = IF u = t THEN n ELSE newNNEval[u]
        /\ UNCHANGED <<shouldStop, loaderPc, mainPc, numGamesStarted, gameIdx, nnEval, botNNEval,
                       finished>>
    BY <1>3, <1>10 DEF ChecksForNewNNEval, GameGoto, ThreadTypes
  <2>2. ThreadTypes' BY <1>3, <1>10 DEF ChecksForNewNNEval, GameGoto, ThreadTypes
  <2>3. ThreadsHoldNets' BY <2>1, <1>8 DEF ThreadsHoldNets
  <2>4. HoldersCounted'
    <3> SUFFICES ASSUME NEW m \in Model
                 PROVE  Count'[m] = Cardinality(HoldersOf(nnEval', m)) + Cardinality(HoldersOf(newNNEval', m))
      BY DEF HoldersCounted, HoldersOf
    <3>1. Count[m] = Cardinality(HoldersOf(nnEval, m)) + Cardinality(HoldersOf(newNNEval, m))
      BY DEF HoldersCounted, HoldersOf
    <3>2. newNNEval[t] = NoModel /\ m # NoModel BY <2>1, SelfplayAssumption DEF ThreadsHoldNets
    <3>3. /\ m # n => Cardinality(HoldersOf(newNNEval', m)) = Cardinality(HoldersOf(newNNEval, m))
          /\ m = n => Cardinality(HoldersOf(newNNEval', m)) = Cardinality(HoldersOf(newNNEval, m)) + 1
      <4> DEFINE e == newNNEval'
      <4>1. e[t] = n /\ \A u \in Thread \ {t} : e[u] = newNNEval[u] BY <2>1
      <4> HIDE DEF e
      <4>2. /\ m # n => Cardinality(HoldersOf(e, m)) = Cardinality(HoldersOf(newNNEval, m))
            /\ m = n => Cardinality(HoldersOf(e, m)) = Cardinality(HoldersOf(newNNEval, m)) + 1
        BY <3>2, <4>1, HoldersChange
      <4> QED BY <4>2 DEF e
    <3>4. Cardinality(HoldersOf(nnEval, m)) \in Nat /\ Cardinality(HoldersOf(newNNEval, m)) \in Nat
      BY HoldersAre
    <3>5. nnEval' = nnEval BY <2>1
    <3> QED BY <1>6, <1>7, <3>1, <3>3, <3>4, <3>5
  <2>5. Phases' BY <1>1, <1>6, <2>1, PhasesStay
  <2>6. GameInv'
    <3>1. gamePc[t] \in Playing /\ "compare" \in Playing BY <2>1 DEF Playing
    <3> QED BY <1>6, <2>1, <3>1, GamesGoOn
  <2> QED BY <1>5, <2>2, <2>3, <2>4, <2>5, <2>6
<1> QED BY <1>9, <1>10

\* The net that a thread gives back is counted once less.
LEMMA NetIsReleased ==
  ASSUME SelfplayInv, NEW t \in Thread, gamePc[t] \in {"compare", "release"},
         release(manager, nnEval[t])
  PROVE  /\ ManagerInv' /\ nnEval[t] \in Model /\ Count \in [Model -> Nat]
         /\ Count' = [Count EXCEPT ![nnEval[t]] = Count[nnEval[t]] - 1]
         /\ UNCHANGED <<Datas, Queue, Written, Ending>>
<1> USE DEF SelfplayInv
<1>1. gamePc[t] # "exited" OBVIOUS
<1>2. PICK n \in Model : n = nnEval[t] BY DEF ThreadsHoldNets, ThreadTypes
<1>3. Ending = "none" /\ Datas # <<>> BY <1>1, ThreadIsLeft
<1>4. Count[n] # 0 /\ n \in ToSet(Datas) BY <1>2, HeldIsCounted
<1>5. ManagerInv' BY <1>2, <1>3, <1>4, ReleaseKeeps
<1>6. /\ Count' = [Count EXCEPT ![n] = Count[n] - 1]
      /\ UNCHANGED <<Datas, Queue, Written, Ending>>
  BY <1>2, <1>3, <1>4, Releases DEF ManagerInv
<1>7. Count \in [Model -> Nat] BY DEF ManagerInv, Types
<1> QED BY <1>2, <1>5, <1>6, <1>7

\* Of its two nets the thread keeps the newer one, which may be the same.
LEMMA ThreadComparesNets ==
  ASSUME SelfplayInv, NEW t \in Thread, ReleasesOneOfTwo(t)
  PROVE  SelfplayInv'
<1> USE DEF SelfplayInv, OthersUnchanged
<1>1. gamePc[t] = "compare" /\ release(manager, nnEval[t]) BY DEF ReleasesOneOfTwo
<1>2. PICK n \in Model : n = nnEval[t] BY <1>1 DEF ThreadsHoldNets, ThreadTypes
<1>3. PICK k \in Model : k = newNNEval[t] BY <1>1 DEF ThreadsHoldNets, ThreadTypes
<1>4. /\ ManagerInv' /\ Count \in [Model -> Nat] /\ Count' = [Count EXCEPT ![n] = Count[n] - 1]
      /\ UNCHANGED <<Datas, Queue, Written, Ending>>
  BY <1>1, <1>2, NetIsReleased
<1>5. PICK next : next = IF k = n THEN "play" ELSE "switch" OBVIOUS
<1>6. /\ GameGoto(t, next)
      /\ \A u \in Thread : /\ gamePc'[u] = IF u = t THEN next ELSE gamePc[u]
                           /\ nnEval'[u] = IF u = t THEN k ELSE nnEval[u]
                           /\ newNNEval'[u] = IF u = t THEN NoModel ELSE newNNEval[u]
      /\ UNCHANGED <<shouldStop, loaderPc, mainPc, numGamesStarted, gameIdx, botNNEval, finished>>
  BY <1>2, <1>3, <1>5 DEF ReleasesOneOfTwo, GameGoto, ThreadTypes
<1>7. ThreadTypes' BY <1>3, <1>5, <1>6 DEF ReleasesOneOfTwo, GameGoto, ThreadTypes
<1>8. ThreadsHoldNets'
  <2>1. k # NoModel BY SelfplayAssumption
  <2>2. botNNEval[t] = n BY <1>1, <1>2 DEF ThreadsHoldNets
  <2> QED BY <1>1, <1>5, <1>6, <2>1, <2>2 DEF ThreadsHoldNets
<1>9. HoldersCounted'
  <2> SUFFICES ASSUME NEW m \in Model
               PROVE  Count'[m] = Cardinality(HoldersOf(nnEval', m)) + Cardinality(HoldersOf(newNNEval', m))
    BY DEF HoldersCounted, HoldersOf
  <2> DEFINE e == nnEval'
             f == newNNEval'
  <2>1. Count[m] = Cardinality(HoldersOf(nnEval, m)) + Cardinality(HoldersOf(newNNEval, m))
    BY DEF HoldersCounted, HoldersOf
  <2>2. m # NoModel BY SelfplayAssumption
  <2>3. /\ e[t] = k /\ \A u \in Thread \ {t} : e[u] = nnEval[u]
        /\ f[t] = NoModel /\ \A u \in Thread \ {t} : f[u] = newNNEval[u]
    BY <1>6
  <2> HIDE DEF e, f
  <2>4. /\ (m = n <=> m = k) => Cardinality(HoldersOf(e, m)) = Cardinality(HoldersOf(nnEval, m))
        /\ m = n /\ m # k => Cardinality(HoldersOf(e, m)) = Cardinality(HoldersOf(nnEval, m)) - 1
        /\ m # n /\ m = k => Cardinality(HoldersOf(e, m)) = Cardinality(HoldersOf(nnEval, m)) + 1
    BY <1>2, <2>3, HoldersChange
  <2>5. /\ m # k => Cardinality(HoldersOf(f, m)) = Cardinality(HoldersOf(newNNEval, m))
        /\ m = k => Cardinality(HoldersOf(f, m)) = Cardinality(HoldersOf(newNNEval, m)) - 1
    BY <1>3, <2>2, <2>3, HoldersChange
  <2>6. Cardinality(HoldersOf(nnEval, m)) \in Nat /\ Cardinality(HoldersOf(newNNEval, m)) \in Nat
    BY HoldersAre
  <2>7. Count'[m] = IF m = n THEN Count[m] - 1 ELSE Count[m] BY <1>4
  <2>8. Count'[m] = Cardinality(HoldersOf(e, m)) + Cardinality(HoldersOf(f, m))
    BY <2>1, <2>4, <2>5, <2>6, <2>7
  <2> QED BY <2>8 DEF e, f
<1>10. Phases'
  <2>1. gamePc[t] # "exited" /\ \A u \in Thread \ {t} : gamePc'[u] = gamePc[u] BY <1>1, <1>6
  <2> QED BY <1>4, <1>6, <2>1, PhasesStay
<1>11. GameInv'
  <2>1. gamePc[t] \in Playing /\ next \in Playing BY <1>1, <1>5 DEF Playing
  <2> QED BY <1>4, <1>6, <2>1, GamesGoOn
<1> QED BY <1>4, <1>7, <1>8, <1>9, <1>10, <1>11

\* A thread gives back its only net at the end of its loop.
LEMMA ThreadEndsLoop ==
  ASSUME SelfplayInv, NEW t \in Thread, EndsLoop(t)
  PROVE  SelfplayInv'
<1> USE DEF SelfplayInv, OthersUnchanged
<1>1. gamePc[t] = "release" /\ release(manager, nnEval[t]) BY DEF EndsLoop
<1>2. PICK n \in Model : n = nnEval[t] BY <1>1 DEF ThreadsHoldNets, ThreadTypes
<1>3. /\ ManagerInv' /\ Count \in [Model -> Nat] /\ Count' = [Count EXCEPT ![n] = Count[n] - 1]
      /\ UNCHANGED <<Datas, Queue, Written, Ending>>
  BY <1>1, <1>2, NetIsReleased
<1>4. PICK next : next = IF gameIdx[t] = 0 THEN "exited" ELSE "top" OBVIOUS
<1>5. /\ \A u \in Thread : /\ gamePc'[u] = IF u = t THEN next ELSE gamePc[u]
                           /\ nnEval'[u] = IF u = t THEN NoModel ELSE nnEval[u]
      /\ UNCHANGED <<shouldStop, loaderPc, mainPc, numGamesStarted, newNNEval, botNNEval, finished>>
  BY <1>4 DEF EndsLoop, GameGoto, ThreadTypes
<1>6. ThreadTypes' BY <1>4 DEF EndsLoop, GameGoto, ThreadTypes
<1>7. ThreadsHoldNets' BY <1>1, <1>4, <1>5 DEF ThreadsHoldNets
<1>8. HoldersCounted'
  <2> SUFFICES ASSUME NEW m \in Model
               PROVE  Count'[m] = Cardinality(HoldersOf(nnEval', m)) + Cardinality(HoldersOf(newNNEval', m))
    BY DEF HoldersCounted, HoldersOf
  <2> DEFINE e == nnEval'
  <2>1. Count[m] = Cardinality(HoldersOf(nnEval, m)) + Cardinality(HoldersOf(newNNEval, m))
    BY DEF HoldersCounted, HoldersOf
  <2>2. m # NoModel BY SelfplayAssumption
  <2>3. e[t] = NoModel /\ \A u \in Thread \ {t} : e[u] = nnEval[u]
    BY <1>5
  <2> HIDE DEF e
  <2>4. /\ m # n => Cardinality(HoldersOf(e, m)) = Cardinality(HoldersOf(nnEval, m))
        /\ m = n => Cardinality(HoldersOf(e, m)) = Cardinality(HoldersOf(nnEval, m)) - 1
    BY <1>2, <2>2, <2>3, HoldersChange
  <2>5. Cardinality(HoldersOf(nnEval, m)) \in Nat /\ Cardinality(HoldersOf(newNNEval, m)) \in Nat
    BY HoldersAre
  <2>6. Count'[m] = IF m = n THEN Count[m] - 1 ELSE Count[m] BY <1>3
  <2>7. Count'[m] = Cardinality(HoldersOf(e, m)) + Cardinality(HoldersOf(newNNEval, m))
    BY <2>1, <2>4, <2>5, <2>6
  <2> QED BY <1>5, <2>7 DEF e
<1>9. Phases'
  <2>1. gamePc[t] # "exited" /\ \A u \in Thread \ {t} : gamePc'[u] = gamePc[u] BY <1>1, <1>5
  <2> QED BY <1>3, <1>5, <2>1, PhasesStay
<1>10. GameInv' BY <1>3, GameIsForgotten
<1> QED BY <1>3, <1>6, <1>7, <1>8, <1>9, <1>10

\* The net of a thread that pushes has an open queue.
LEMMA ThreadPushes ==
  ASSUME SelfplayInv, NEW t \in Thread, Enqueues(t)
  PROVE  SelfplayInv'
<1> USE DEF SelfplayInv, OthersUnchanged
<1>1. /\ gamePc[t] = "push" /\ push(manager, nnEval[t], gameIdx[t]) /\ GameGoto(t, "release")
      /\ UNCHANGED <<shouldStop, loaderPc, mainPc, numGamesStarted, gameIdx, nnEval, newNNEval,
                     botNNEval,
                     finished>>
  BY DEF Enqueues
<1>2. PICK n \in Model : n = nnEval[t] BY <1>1 DEF ThreadsHoldNets, ThreadTypes
<1>3. PICK game \in Game : game = gameIdx[t] BY <1>1 DEF GameInv, GamesInPlay, ThreadTypes
<1>4. Count[n] # 0 BY <1>2, HeldIsCounted
<1>5. /\ ManagerInv' /\ Queue' = [Queue EXCEPT ![n] = Append(Queue[n], game)]
      /\ UNCHANGED <<Datas, Count, Written, Ending>>
  BY <1>1, <1>2, <1>3, <1>4, PushKeeps
<1>6. ThreadTypes' /\ ThreadsHoldNets' BY <1>1 DEF GameGoto, ThreadTypes, ThreadsHoldNets
<1>7. HoldersCounted' BY <1>1, <1>5, HoldersStay
<1>8. Phases'
  <2>1. gamePc[t] # "exited" /\ \A u \in Thread \ {t} : gamePc'[u] = gamePc[u]
    BY <1>1 DEF GameGoto, ThreadTypes
  <2> QED BY <1>1, <1>5, <2>1, PhasesStay
<1>9. GameInv' BY <1>1, <1>3, <1>5, GameIsPushed DEF ManagerInv
<1> QED BY <1>5, <1>6, <1>7, <1>8, <1>9

\* A step of a data write loop.
LEMMA DataLoopStep ==
  ASSUME SelfplayInv, NEW n \in Model, DataLoopGoesOn(n)
  PROVE  SelfplayInv'
<1> USE DEF SelfplayInv, gameVars
<1>1. UNCHANGED <<shouldStop, loaderPc, mainPc, numGamesStarted, gamePc, gameIdx, nnEval, newNNEval,
                  botNNEval, finished>>
  BY DEF DataLoopGoesOn
<1>2. ThreadTypes' /\ ThreadsHoldNets' BY <1>1 DEF ThreadTypes, ThreadsHoldNets
<1>3. CASE Writes(manager, n)
  <2>1. /\ ManagerInv' /\ Queue[n] # <<>> /\ Queue' = [Queue EXCEPT ![n] = Tail(Queue[n])]
        /\ Written' = Written \cup {Head(Queue[n])}
        /\ UNCHANGED <<Datas, Count, Ending>>
    BY <1>3, WriteKeeps
  <2>2. GameInv' BY <1>1, <2>1, GameIsWritten DEF ManagerInv
  <2>3. HoldersCounted' BY <1>1, <2>1, HoldersStay
  <2>4. Phases' BY <1>1, <2>1 DEF Phases
  <2> QED BY <1>2, <2>1, <2>2, <2>3, <2>4
<1>4. CASE \/ WriterEnds(manager, n) \/ WriterLocks(manager, n)
           \/ WriterDeletes(manager, n) \/ WriterChecksIn(manager, n)
  <2>1. /\ ManagerInv' /\ UNCHANGED <<Datas, Count, Queue, Written>>
        /\ Ending' = Ending \/ (Ending = "asleep" /\ Ending' = "wait")
    BY <1>4, WriterStepKeeps
  <2>2. GameInv' BY <1>1, <2>1, GamesRest
  <2>3. HoldersCounted' BY <1>1, <2>1, HoldersStay
  <2>4. Phases' BY <1>1, <2>1 DEF Phases
  <2> QED BY <1>2, <2>1, <2>2, <2>3, <2>4
<1> QED BY <1>3, <1>4 DEF DataLoopGoesOn, WriterGoesOn

\* The end of unloading disturbs no thread.
LEMMA UnloadingStep ==
  ASSUME SelfplayInv, UnloadingGoesOn
  PROVE  SelfplayInv'
<1> USE DEF SelfplayInv, gameVars
<1>1. UNCHANGED <<shouldStop, loaderPc, mainPc, numGamesStarted, gamePc, gameIdx, nnEval, newNNEval,
                  botNNEval, finished>>
  BY DEF UnloadingGoesOn
<1>2. ThreadTypes' /\ ThreadsHoldNets' BY <1>1 DEF ThreadTypes, ThreadsHoldNets
<1>3. /\ ManagerInv' /\ UNCHANGED <<Count, Queue, Written, Ending>>
      /\ Ending = "none" => Last(Datas') = Last(Datas)
  BY EraseKeeps DEF UnloadingGoesOn
<1>4. GameInv' BY <1>1, <1>3, GamesRest
<1>5. HoldersCounted' BY <1>1, <1>3, HoldersStay
<1>6. Phases'
  <2>1. loaderPc = "load" => Ending = "none" BY DEF Phases
  <2> QED BY <1>1, <1>3, <2>1 DEF Phases
<1> QED BY <1>2, <1>3, <1>4, <1>5, <1>6

\* A step of the loading thread.
LEMMA LoaderStep ==
  ASSUME SelfplayInv, LoaderGoesOn
  PROVE  SelfplayInv'
<1> USE DEF SelfplayInv, gameVars
<1>1. UNCHANGED <<shouldStop, mainPc, numGamesStarted, gamePc, gameIdx, nnEval, newNNEval,
                  botNNEval,
                  finished>>
  BY DEF LoaderGoesOn, LoaderChecks, LoaderLoads, LoaderSleeps, LoaderGoto
<1>2. loaderPc # "exited" /\ Ending = "none"
  BY DEF LoaderGoesOn, LoaderChecks, LoaderLoads, LoaderSleeps, Phases
<1>3. ThreadTypes' /\ ThreadsHoldNets'
  BY <1>1 DEF LoaderGoesOn, LoaderChecks, LoaderLoads, LoaderSleeps, LoaderGoto, ThreadTypes,
              ThreadsHoldNets
<1>4. CASE LoaderLoads
  <2>1. loaderPc = "load" /\ loaderPc' = "sleep" /\ load(manager, Last(Datas) + 1, TRUE)
    BY <1>4 DEF LoaderLoads, LoaderGoto, Latest, Datas
  <2>2. Last(Datas) < Cardinality(Model) BY <2>1 DEF Phases
  <2> PICK n : n = Last(Datas) + 1 OBVIOUS
  <2>3. ManagerInv' /\ n \in Model BY <1>2, <2>1, <2>2, LoadKeeps
  <2>4. UNCHANGED <<Count, Queue, Written, Ending>> BY <2>1, <2>3, Loads DEF ManagerInv
  <2>5. GameInv' BY <1>1, <2>4, GamesRest
  <2>6. HoldersCounted' BY <1>1, <2>4, HoldersStay
  <2>7. Phases' BY <1>1, <2>1, <2>4 DEF Phases
  <2> QED BY <1>3, <2>3, <2>5, <2>6, <2>7
<1>5. CASE LoaderChecks \/ LoaderSleeps
  <2>1. UNCHANGED managerVars BY <1>5 DEF LoaderChecks, LoaderSleeps
  <2>2. ManagerInv' /\ UNCHANGED <<Datas, Count, Queue, Written, Ending>>
    BY <2>1, RestKeeps, Rests DEF ManagerInv
  <2>3. GameInv' BY <1>1, <2>2, GamesRest
  <2>4. HoldersCounted' BY <1>1, <2>2, HoldersStay
  <2>5. mainPc \in {"join", "joinLoader"} BY <1>2 DEF Phases, ThreadTypes
  <2>6. loaderPc' = "load" => Last(Datas) < Cardinality(Model)
    BY <1>5 DEF LoaderChecks, LoaderSleeps, LoaderGoto, Latest, Datas
  <2>7. Phases' BY <1>1, <1>2, <2>2, <2>5, <2>6 DEF Phases
  <2> QED BY <1>3, <2>2, <2>3, <2>4, <2>7
<1> QED BY <1>4, <1>5 DEF LoaderGoesOn

\* When main destroys the manager nobody is left to hold a net.
LEMMA MainStep ==
  ASSUME SelfplayInv, MainGoesOn
  PROVE  SelfplayInv'
<1> USE DEF SelfplayInv, gameVars
<1>1. UNCHANGED <<loaderPc, numGamesStarted, gamePc, gameIdx, nnEval, newNNEval, botNNEval,
                  finished>>
  BY DEF MainGoesOn, MainJoins, MainDeletesManager
<1>2. ThreadTypes' /\ ThreadsHoldNets'
  BY <1>1 DEF MainGoesOn, MainJoins, MainDeletesManager, ThreadTypes, ThreadsHoldNets
<1>3. CASE UNCHANGED managerVars
  <2>1. ManagerInv' /\ UNCHANGED <<Datas, Count, Queue, Written, Ending>>
    BY <1>3, RestKeeps, Rests DEF ManagerInv
  <2>2. GameInv' BY <1>1, <2>1, GamesRest
  <2>3. HoldersCounted' BY <1>1, <2>1, HoldersStay
  <2>4. Phases'
    <3>1. CASE MainJoins BY <1>1, <2>1, <3>1 DEF MainJoins, Phases
    <3>2. CASE mainPc = "delete" /\ destructorPc[manager] = "done" /\ mainPc' = "done"
      BY <1>1, <2>1, <3>2 DEF Phases, Ending
    <3>3. CASE mainPc = "delete" /\ UNCHANGED mainPc BY <1>1, <2>1, <3>3 DEF Phases
    <3> QED BY <3>1, <3>2, <3>3 DEF MainGoesOn, MainDeletesManager
  <2> QED BY <1>2, <2>1, <2>2, <2>3, <2>4
<1>4. CASE Destroys(manager) /\ mainPc = "delete" /\ UNCHANGED mainPc
  <2>1. \A t \in Thread : gamePc[t] = "exited" BY <1>4 DEF Phases
  <2>2. \A t \in Thread : nnEval[t] = NoModel /\ newNNEval[t] = NoModel
    BY <2>1 DEF ThreadsHoldNets
  <2>3. ASSUME NEW n \in Model PROVE Count[n] = 0
    <3>1. HoldersOf(nnEval, n) = {} /\ HoldersOf(newNNEval, n) = {}
      BY <2>2, SelfplayAssumption DEF HoldersOf
    <3>2. Count[n] = Cardinality({}) + Cardinality({})
      BY <3>1 DEF HoldersCounted, HoldersOf
    <3> QED BY <3>2, FS_EmptySet
  <2>4. ManagerInv' /\ Ending' = "wait" /\ UNCHANGED <<Datas, Count, Queue, Written>>
    BY <1>4, <2>3, DestroyKeeps
  <2>5. GameInv' BY <1>1, <2>4, GamesRest
  <2>6. HoldersCounted' BY <1>1, <2>4, HoldersStay
  <2>7. Phases' BY <1>1, <1>4, <2>4 DEF Phases
  <2> QED BY <1>2, <2>4, <2>5, <2>6, <2>7
<1>5. CASE DestructorWaits(manager) /\ mainPc = "delete" /\ UNCHANGED mainPc
  <2>1. /\ ManagerInv' /\ Ending = "wait" /\ Ending' \in {"done", "asleep"}
        /\ UNCHANGED <<Datas, Count, Queue, Written>>
    BY <1>5, WaitKeeps
  <2>2. GameInv' BY <1>1, <2>1, GamesRest
  <2>3. HoldersCounted' BY <1>1, <2>1, HoldersStay
  <2>4. Phases' BY <1>1, <1>5, <2>1 DEF Phases
  <2> QED BY <1>2, <2>1, <2>2, <2>3, <2>4
<1> QED BY <1>3, <1>4, <1>5 DEF MainGoesOn, MainJoins, MainDeletesManager

\* Every step keeps the invariant.
LEMMA SelfplayStep ==
  ASSUME SelfplayInv, Next \/ UNCHANGED vars
  PROVE  SelfplayInv'
<1>1. CASE signalHandler \/ UNCHANGED vars
  <2>1. /\ UNCHANGED managerVars
        /\ UNCHANGED <<loaderPc, mainPc, numGamesStarted, gamePc, gameIdx, nnEval, newNNEval,
                       botNNEval,
                       finished>>
        /\ shouldStop' \in {shouldStop, TRUE}
    BY <1>1 DEF signalHandler, vars, gameVars
  <2>2. ManagerInv' /\ UNCHANGED <<Datas, Count, Queue, Written, Ending>>
    BY <2>1, RestKeeps, Rests DEF ManagerInv, SelfplayInv
  <2>3. GameInv' BY <2>1, <2>2, GamesRest DEF SelfplayInv
  <2>4. HoldersCounted' BY <2>1, <2>2, HoldersStay DEF SelfplayInv
  <2>5. Phases' /\ ThreadTypes' /\ ThreadsHoldNets'
    BY <2>1, <2>2 DEF Phases, ThreadTypes, ThreadsHoldNets, SelfplayInv
  <2> QED BY <2>2, <2>3, <2>4, <2>5 DEF SelfplayInv
<1>2. ASSUME NEW t \in Thread, GameGoesOn(t) \/ Plays(t) \/ ChecksForNewNNEval(t) \/ EndsGame(t)
      PROVE  SelfplayInv'
  BY <1>2, ThreadMovesOn, ThreadPlays, ThreadAcquires, ThreadComparesNets, ThreadEndsLoop,
  ThreadPushes
  DEF GameGoesOn
<1> QED BY <1>1, <1>2, DataLoopStep, UnloadingStep, LoaderStep, MainStep DEF Next

\* The command starts with the first net, which nobody holds.
LEMMA SelfplayStarts == ASSUME Init PROVE SelfplayInv
<1>1. 1 \in Model
  <2>1. PICK top \in Nat : top = Cardinality(Model) /\ Model = 1..top BY Models
  <2>2. PICK n \in Model : TRUE BY SelfplayAssumption
  <2>3. n \in 1..top BY <2>1, <2>2
  <2>4. 1 \in 1..top BY <2>3
  <2> QED BY <2>1, <2>4
<1>2. /\ Datas = <<1>> /\ Alloc = {1} /\ Active = 1
      /\ Writer = [n \in Model |-> IF n = 1 THEN "pop" ELSE "none"]
  BY TheManager DEF Init, Datas, Alloc, Active, Writer
<1>3. /\ Count = [n \in Model |-> 0] /\ Leaving = {} /\ Queue = [n \in Model |-> <<>>]
      /\ Closed = {} /\ Written = {} /\ Rows = [n \in Model |-> 0] /\ Total = 0 /\ Ending = "none"
  BY TheManager DEF Init, Count, Leaving, Queue, Closed, Written, Rows, Total, Ending
<1>4. OneManager
  <2>1. /\ modelDatas = [g \in Manager |-> Datas] /\ allocated = [g \in Manager |-> Alloc]
        /\ writerPc = [g \in Manager |-> Writer] /\ numDataWriteLoopsActive = [g \in Manager |-> Active]
    BY <1>2 DEF Init
  <2>2. /\ acquireCount = [g \in Manager |-> Count] /\ leaving = [g \in Manager |-> Leaving]
        /\ withWriters = [g \in Manager |-> FALSE]
        /\ finishedGameQueue = [g \in Manager |-> Queue] /\ readOnly = [g \in Manager |-> Closed]
        /\ written = [g \in Manager |-> Written] /\ rows = [g \in Manager |-> Rows]
        /\ totalNumRowsProcessed = [g \in Manager |-> Total] /\ destructorPc = [g \in Manager |-> Ending]
    BY <1>3 DEF Init
  <2> QED BY <2>1, <2>2 DEF OneManager
<1>5. Types
  <2>1. Datas \in Seq(Model) /\ Alloc \in SUBSET Model BY <1>1, <1>2
  <2>2. Writer \in [Model -> {"none", "pop", "lock", "delete", "checkin", "exited"}] BY <1>2
  <2>3. Count \in [Model -> Nat] /\ Rows \in [Model -> Nat] /\ Queue \in [Model -> Seq(Game)] BY <1>3
  <2> QED BY <1>2, <1>3, <2>1, <2>2, <2>3 DEF Types
<1>6. ToSet(Datas) = {1} /\ Last(Datas) = 1 /\ Datas # <<>> /\ OnceEach(Datas)
  BY <1>2 DEF ToSet, Last, OnceEach
<1>7. HeldStay BY <1>3 DEF HeldStay
<1>8. WritersFollow BY <1>2, <1>3, <1>6 DEF WritersFollow
<1>9. WritersCounted
  <2>1. Writing = {1} BY <1>1, <1>2 DEF Writing
  <2>2. Cardinality({1}) = 1 BY FS_Singleton
  <2> QED BY <1>2, <2>1, <2>2 DEF WritersCounted, Writing
<1>10. LatestStays
  <2>1. \A n \in Model : Writer[n] = "none" <=> n > 1
    <3>1. PICK top \in Nat : Model = 1..top BY Models
    <3> QED BY <1>2, <3>1
  <2> QED BY <1>3, <1>6, <2>1 DEF LatestStays
<1>11. RowsInTotal
  <2>1. ASSUME NEW S \in SUBSET Model PROVE SumOver(Rows, S) = 0
    <3> DEFINE Off == {T \in SUBSET Model : SumOver(Rows, T) # 0}
    <3> SUFFICES ASSUME Off # {} PROVE FALSE OBVIOUS
    <3>1. PICK T \in Off : \A U \in Off : U \subseteq T => U = T
      <4>1. Off \subseteq SUBSET Model OBVIOUS
      <4>2. IsFiniteSet(Model) BY Models
      <4> HIDE DEF Off
      <4> QED BY <4>1, <4>2, LeastSubset
    <3>2. IsFiniteSet(T) /\ \A n \in T : Rows[n] = 0 /\ Rows[n] \in Nat BY <1>3, Models
    <3>3. T # {} BY <3>2, SumStep
    <3>4. PICK n \in T : TRUE BY <3>3
    <3>5. SumOver(Rows, T) = Rows[n] + SumOver(Rows, T \ {n}) BY <3>2, SumStep
    <3>6. T \ {n} \notin Off BY <3>1, <3>4
    <3>7. SumOver(Rows, T \ {n}) = 0 BY <3>6
    <3> QED BY <3>2, <3>5, <3>7
  <2>2. SumOver(Rows, ToSet(Datas)) = 0 /\ SumOver(Rows, Model) = 0 BY <1>1, <1>6, <2>1
  <2> QED BY <1>3, <2>2 DEF RowsInTotal
<1>12. ManagerInv BY <1>4, <1>5, <1>7, <1>8, <1>9, <1>10, <1>11 DEF ManagerInv
<1>13. ThreadTypes /\ ThreadsHoldNets BY DEF Init, ThreadTypes, ThreadsHoldNets
<1>14. HoldersCounted
  <2> SUFFICES ASSUME NEW n \in Model
               PROVE  Count[n] = Cardinality(HoldersOf(nnEval,
               n)) + Cardinality(HoldersOf(newNNEval, n))
    BY DEF HoldersCounted, HoldersOf
  <2>1. HoldersOf(nnEval, n) = {} /\ HoldersOf(newNNEval, n) = {}
    BY SelfplayAssumption DEF Init, HoldersOf
  <2> QED BY <1>3, <2>1, FS_EmptySet
<1>15. Phases BY <1>3 DEF Init, Phases
<1>16. GameInv
  <2>1. finished = {} /\ numGamesStarted = 0
        /\ \A t \in Thread : gamePc[t] = "top" /\ gameIdx[t] = 0
    BY DEF Init
  <2>2. \A n \in Model : Queue[n] = <<>> /\ ToSet(Queue[n]) = {} /\ OnceEach(Queue[n])
    BY <1>3 DEF ToSet, OnceEach
  <2>3. GamesInPlay BY <2>1 DEF GamesInPlay
  <2>4. GamesInOnePlace BY <1>3, <2>1, <2>2 DEF GamesInOnePlace
  <2>5. GamesSomewhere BY <2>1 DEF GamesSomewhere
  <2> QED BY <2>3, <2>4, <2>5 DEF GameInv
<1> QED BY <1>12, <1>13, <1>14, <1>15, <1>16 DEF SelfplayInv

-----------------------------------------------------------------------------
(* What the invariant says of the command.                                 *)

\* The types of the state of the manager are those of its variables.
LEMMA ManagerIsTyped == ASSUME OneManager, Types PROVE ManagerTypeOK
BY DEF OneManager, Types, ManagerTypeOK

\* The assertions of the manager hold and its rows add up.
LEMMA ManagerIsSound == ASSUME SelfplayInv PROVE ManagerIsConsistent
<1> USE DEF SelfplayInv, ManagerInv
<1>1. TypeOK BY ManagerIsTyped DEF TypeOK, ThreadTypes
<1>2. ManagerAsserts
  <2> SUFFICES ASSUME NEW g \in Manager
               PROVE  /\ \A n \in Model :
                           /\ n \in Leaving \/ Writer[n] \in {"lock", "delete"} => Count[n] = 0
                           /\ Writer[n] = "delete" => n \notin ToSet(Datas)
                           /\ Writer[n] = "exited" /\ Active = 0 => Datas = <<>>
                      /\ ToSet(Datas) \subseteq Alloc
    BY TheManager DEF ManagerAsserts, Leaving, Writer, Count, Datas, Active, Alloc, hasModel
  <2>1. ToSet(Datas) \subseteq Model BY DEF ToSet, Types
  <2>2. ToSet(Datas) \subseteq Alloc BY <2>1 DEF WritersFollow
  <2>3. ASSUME NEW n \in Model
        PROVE  /\ n \in Leaving \/ Writer[n] \in {"lock", "delete"} => Count[n] = 0
               /\ Writer[n] = "delete" => n \notin ToSet(Datas)
    BY DEF WritersFollow, HeldStay
  <2>4. Active = 0 => Datas = <<>>
    <3> SUFFICES ASSUME Active = 0, Datas # <<>> PROVE FALSE OBVIOUS
    <3>1. PICK m \in Model : m \in ToSet(Datas) BY FrontOf DEF Types, LatestStays
    <3>2. m \in Writing BY <3>1 DEF WritersFollow, Writing
    <3>3. Cardinality(Writing) # 0 BY <3>2, Models, FS_EmptySet
    <3> QED BY <3>3 DEF WritersCounted, Writing
  <2> QED BY <2>2, <2>3, <2>4
<1>3. RowsAreCountedOnce
  BY DEF RowsAreCountedOnce, RowsInTotal, SumOver, Total, Rows, Datas
<1> QED BY <1>1, <1>2, <1>3 DEF ManagerIsConsistent

\* Nets that are held are loaded, and counted.
LEMMA NetsAreAlive == ASSUME SelfplayInv PROVE HeldNetsAreAlive
<1> USE DEF SelfplayInv
<1>1. ASSUME NEW t \in Thread, NEW n \in Held(t) PROVE n \in ToSet(Datas) \cap Alloc
  <2>1. n \in Model /\ (n = nnEval[t] \/ n = newNNEval[t]) BY <1>1 DEF Held, ThreadTypes
  <2> QED BY <2>1, HeldIsCounted
<1>2. \A t \in Thread : gamePc[t] \in {"play", "compare"} => botNNEval[t] = nnEval[t]
  BY DEF ThreadsHoldNets
<1>3. \A n \in Model : acquireCount[manager][n] = Cardinality({t \in Thread : n = nnEval[t]})
                                                  + Cardinality({t \in Thread : n = newNNEval[t]})
  BY DEF HoldersCounted, Count
<1> QED BY <1>1, <1>2, <1>3 DEF HeldNetsAreAlive, Datas, Alloc

\* A finished game is in one place; at the end that is the disk.
LEMMA GamesAreKept == ASSUME SelfplayInv PROVE FinishedGamesAreKept
<1> USE DEF SelfplayInv, ManagerInv, GameInv
<1>1. ASSUME NEW game \in finished
      PROVE  Cardinality({t \in Thread : gamePc[t] \in {"lookup", "push"} /\ gameIdx[t] = game})
             + Cardinality({n \in Model : Writer[n] = "pop" /\ game \in ToSet(Queue[n])})
             + Cardinality({game} \cap Written) = 1
  <2> DEFINE A == {t \in Thread : gamePc[t] \in {"lookup", "push"} /\ gameIdx[t] = game}
             B == {n \in Model : Writer[n] = "pop" /\ game \in ToSet(Queue[n])}
  <2>1. \A n \in Model : game \in ToSet(Queue[n]) => Writer[n] = "pop"
    <3>1. ToSet(<<>>) = {} BY DEF ToSet
    <3> QED BY <3>1 DEF WritersFollow
  <2>2. game # 0 BY SelfplayAssumption DEF ThreadTypes
  <2>3. CASE game \in Written
    <3>1. A = {} /\ B = {} /\ {game} \cap Written = {game}
      BY <2>3 DEF GamesInOnePlace
    <3> HIDE DEF A, B
    <3>2. Cardinality(A) + Cardinality(B) + Cardinality({game} \cap Written) = 1
      BY <3>1, FS_EmptySet, FS_Singleton
    <3> QED BY <3>2 DEF A, B
  <2>4. ASSUME game \notin Written, NEW n \in Model, game \in ToSet(Queue[n])
        PROVE  Cardinality(A) + Cardinality(B) + Cardinality({game} \cap Written) = 1
    <3>1. A = {} BY <2>4 DEF GamesInOnePlace
    <3>2. B = {n} BY <2>1, <2>4 DEF GamesInOnePlace
    <3>3. {game} \cap Written = {} BY <2>4
    <3> HIDE DEF A, B
    <3> QED BY <3>1, <3>2, <3>3, FS_EmptySet, FS_Singleton
  <2>5. ASSUME game \notin Written, NEW t \in A
        PROVE  Cardinality(A) + Cardinality(B) + Cardinality({game} \cap Written) = 1
    <3>1. A = {t} BY <2>2, <2>5 DEF GamesInPlay
    <3>2. B = {} BY <2>5 DEF GamesInOnePlace
    <3>3. {game} \cap Written = {} BY <2>5
    <3> HIDE DEF A, B
    <3> QED BY <3>1, <3>2, <3>3, FS_EmptySet, FS_Singleton
  <2> QED BY <2>3, <2>4, <2>5 DEF GamesSomewhere
<1>2. mainPc = "done" => finished = Written
  <2> HAVE mainPc = "done"
  <2>1. Active = 0 BY DEF Phases, LatestStays
  <2>2. Cardinality(Writing) = 0 BY <2>1 DEF WritersCounted, Writing
  <2>3. Writing = {} BY <2>2, Models, FS_EmptySet
  <2>4. \A n \in Model : ToSet(Queue[n]) = {}
    <3>1. \A n \in Model : Writer[n] # "pop" BY <2>3 DEF Writing
    <3> QED BY <3>1 DEF WritersFollow, ToSet
  <2>5. \A t \in Thread : gamePc[t] = "exited" BY DEF Phases
  <2>6. finished \subseteq Written BY <2>4, <2>5 DEF GamesSomewhere
  <2> QED BY <2>6 DEF GamesInOnePlace
<1> QED BY <1>1, <1>2 DEF FinishedGamesAreKept, Writer, Queue, Written

-----------------------------------------------------------------------------
(* The commands.                                                           *)

\* The inductive invariant of the two commands.
CommandInv == SelfplayInv /\ MatchInv

\* Both commands start well, though only one is run.
LEMMA CommandStarts == ASSUME handleSubcommand PROVE CommandInv
BY SelfplayStarts, MatchStarts DEF handleSubcommand, CommandInv

\* The command that runs keeps its part, the other does nothing.
LEMMA CommandStep == ASSUME CommandInv, [CommandNext]_commandVars PROVE CommandInv'
<1>1. \/ (Next \/ UNCHANGED vars) /\ UNCHANGED gateVars
      \/ (gate!Next \/ UNCHANGED gateVars) /\ UNCHANGED vars
  BY DEF CommandNext, selfplay, gatekeeper, commandVars
<1> QED BY <1>1, SelfplayStep, MatchStep DEF CommandInv

\* The invariant of both commands, for any number of threads, games, nets and
\* candidates.
LEMMA CommandsKeepInv == CommandSpec => []CommandInv
<1>1. handleSubcommand => CommandInv BY CommandStarts
<1>2. CommandInv /\ [CommandNext]_commandVars => CommandInv' BY CommandStep
<1> QED BY <1>1, <1>2, PTL DEF CommandSpec

\* The assertions of the manager hold and its rows add up, in every
\* interleaving of game threads, writers, loader and main (selfplaymanager.cpp).
THEOREM PipelineStaysConsistent == CommandSpec => []PipelineIsConsistent
<1>1. CommandInv => PipelineIsConsistent
  BY ManagerIsSound, MatchInvImplies DEF CommandInv, PipelineIsConsistent
<1> QED BY <1>1, CommandsKeepInv, PTL

\* No thread uses a net or a match whose memory was given back.
THEOREM NetsInUseStayAlive == CommandSpec => []NetsInUseAreAlive
<1>1. CommandInv => NetsInUseAreAlive
  BY NetsAreAlive, MatchInvImplies DEF CommandInv, NetsInUseAreAlive
<1> QED BY <1>1, CommandsKeepInv, PTL

\* Every finished game is in one place, and on disk when the command returns.
THEOREM NoFinishedGameIsLost == CommandSpec => []FinishedGamesAreKept
<1>1. CommandInv => FinishedGamesAreKept BY GamesAreKept DEF CommandInv
<1> QED BY <1>1, CommandsKeepInv, PTL

\* The verdict of the gatekeeper is the one that the whole match would have
\* given (runWriteDataLoop and the main loop of gatekeeper.cpp).
THEOREM VerdictStaysFinal == CommandSpec => []VerdictIsFinal
<1>1. CommandInv => VerdictIsFinal BY MatchInvImplies DEF CommandInv
<1> QED BY <1>1, CommandsKeepInv, PTL
=============================================================================
