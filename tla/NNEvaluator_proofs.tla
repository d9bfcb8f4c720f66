------------------------- MODULE NNEvaluator_proofs -------------------------
(***************************************************************************)
(* For any number of clients and server threads, any batch size and any    *)
(* ring that is large enough for its clients: the types, that a client's   *)
(* row is in one place only and the ring never wraps onto rows that wait,  *)
(* that no wakeup is lost, that the counters count, that killing the       *)
(* server threads leaves nothing behind, and the refinement of             *)
(* BatchService.                                                           *)
(***************************************************************************)
EXTENDS NNEvaluator, FiniteSetTheorems, TLAPS

(* Where the main thread is, and what that says of the other threads.      *)
Phases ==
    /\ isKilled <=> mainPc \in {"killing", "joining"}
    /\ mainPc # "up" => \A c \in Clients : pc[c] = "idle"
    /\ mainPc = "down" => \A s \in Servers : serverPc[s] = "dead"
    /\ mainPc \in {"spawning", "up"} => \A s \in Servers : serverPc[s] # "dead"
    /\ mainPc # "spawning" => \A s \in Servers : serverPc[s] # "starting"

StartingThreads == {s \in Servers : serverPc[s] = "starting"}
ServingThreads == {s \in Servers : serverPc[s] = "serving"}
Waiters == {c \in Clients : pc[c] = "waitForNext"}
StartsAreCounted == numServerThreadsStartingUp = Cardinality(StartingThreads)

(* A server thread that serves is at a row, past the last one at most.     *)
ServesARow ==
    \A s \in Servers : serverPc[s] = "serving" => row[s] >= 1 /\ row[s] <= numRows[s] + 1

(* The cells in use are those of queued and of unserved rows, ...          *)
CellsInUse ==
    /\ \A i \in BufIdx, r \in Rows : m_resultBufss[i][r] # NULL <=> Queued(i, r)
    /\ \A s \in Servers, r \in Rows : resultBufs[s][r] # NULL <=> Unserved(s, r)

(* ... no two of them hold the same client, ...                            *)
CellsDiffer ==
    /\ \A i, j \in BufIdx, r, q \in Rows :
          m_resultBufss[i][r] # NULL /\ m_resultBufss[i][r] = m_resultBufss[j][q]
              => i = j /\ r = q
    /\ \A s, t \in Servers, r, q \in Rows :
          resultBufs[s][r] # NULL /\ resultBufs[s][r] = resultBufs[t][q] => s = t /\ r = q
    /\ \A i \in BufIdx, t \in Servers, r, q \in Rows :
          m_resultBufss[i][r] # NULL => m_resultBufss[i][r] # resultBufs[t][q]

(* ... and the clients they hold are those that wait for a result.         *)
Held(c) == \/ \E i \in BufIdx, r \in Rows : m_resultBufss[i][r] = c
           \/ \E s \in Servers, r \in Rows : resultBufs[s][r] = c
\* Who is held waits, and who enqueues has no result yet.
CellsAwait == /\ \A c \in Clients : Held(c) <=> Awaiting(c)
              /\ \A c \in Clients : pc[c] = "enqueue" => ~hasResult[c]

\* The inductive invariant.
IInv == /\ TypeOK /\ Phases /\ StartsAreCounted /\ WaitersAreCounted /\ RowsAreAttendedTo
        /\ ServesARow /\ CellsInUse /\ CellsDiffer /\ CellsAwait
-----------------------------------------------------------------------------
(* Arithmetic of rows and of the ring.  How many arrays after array o of   *)
(* the ring array i comes: BufsAhead(i) when o is the oldest.              *)
Distance(o, i) == (i - o + numResultBufss) % numResultBufss

(* Dividing by a positive number leaves a quotient and a smaller remainder. *)
LEMMA DivMod ==
    ASSUME NEW k \in Nat, NEW m \in Nat \ {0}
    PROVE  /\ k \div m \in Nat /\ k % m \in Nat /\ k % m < m
           /\ k = (k \div m) * m + (k % m)
OBVIOUS

(* They are the only such numbers. *)
LEMMA DivModUnique ==
    ASSUME NEW m, NEW k, NEW q, NEW r,
           m \in Nat, m >= 1, q \in Nat, r \in Nat, r < m, k = q * m + r
    PROVE  k \div m = q /\ k % m = r
OBVIOUS

(* The ring has room for two arrays more than the clients can fill. *)
LEMMA RingSize ==
    /\ numResultBufss \in Nat /\ numResultBufss >= 3
    /\ maxNumRows \in Nat /\ maxNumRows >= 1 /\ maxConcurrentEvals \in Nat
    /\ maxConcurrentEvals < (numResultBufss - 2) * maxNumRows
<1>1. /\ maxConcurrentEvals \div maxNumRows \in Nat
      /\ maxConcurrentEvals < (maxConcurrentEvals \div maxNumRows + 1) * maxNumRows
  BY EvaluatorAssumption
<1>2. QED
  BY <1>1, EvaluatorAssumption

(* The array after array i. *)
LEMMA NextIdxIs ==
    ASSUME NEW i \in BufIdx
    PROVE  /\ NextIdx(i) = IF i = numResultBufss - 1 THEN 0 ELSE i + 1
           /\ NextIdx(i) \in BufIdx
BY RingSize DEF BufIdx, NextIdx

(* Distances without remainders. *)
LEMMA DistanceIs ==
    ASSUME NEW o \in BufIdx, NEW i \in BufIdx
    PROVE  /\ Distance(o, i) = IF i >= o THEN i - o ELSE i - o + numResultBufss
           /\ Distance(o, i) \in BufIdx
BY RingSize DEF BufIdx, Distance

(* Two arrays at the same distance are the same. *)
LEMMA DistanceInjective ==
    ASSUME NEW o \in BufIdx, NEW i \in BufIdx, NEW j \in BufIdx
    PROVE  /\ Distance(o, i) = Distance(o, j) => i = j
           /\ Distance(o, i) = 0 <=> i = o
<1>1. /\ Distance(o, i) = IF i >= o THEN i - o ELSE i - o + numResultBufss
      /\ Distance(o, j) = IF j >= o THEN j - o ELSE j - o + numResultBufss
  BY DistanceIs
<1>2. QED
  BY <1>1, RingSize DEF BufIdx

(* The distance grows by one with the array, unless that is the last one, *)
(* and shrinks by one with the oldest, unless that is the array.           *)
LEMMA DistanceOfNext ==
    ASSUME NEW o \in BufIdx, NEW i \in BufIdx
    PROVE  /\ Distance(o, i) # numResultBufss - 1
                  => Distance(o, NextIdx(i)) = Distance(o, i) + 1
           /\ i # o => Distance(NextIdx(o), i) = Distance(o, i) - 1
           /\ i = o => Distance(NextIdx(o), i) = numResultBufss - 1
<1>1. /\ NextIdx(i) \in BufIdx /\ NextIdx(o) \in BufIdx
      /\ NextIdx(i) = IF i = numResultBufss - 1 THEN 0 ELSE i + 1
      /\ NextIdx(o) = IF o = numResultBufss - 1 THEN 0 ELSE o + 1
  BY NextIdxIs
<1>2. /\ Distance(o, i) = IF i >= o THEN i - o ELSE i - o + numResultBufss
      /\ Distance(o, NextIdx(i)) = IF NextIdx(i) >= o THEN NextIdx(i) - o
                                   ELSE NextIdx(i) - o + numResultBufss
      /\ Distance(NextIdx(o), i) = IF i >= NextIdx(o) THEN i - NextIdx(o)
                                   ELSE i - NextIdx(o) + numResultBufss
  BY <1>1, DistanceIs
<1>3. QED
  BY <1>1, <1>2, RingSize DEF BufIdx

(* The array at a given distance. *)
LEMMA ArrayAt ==
    ASSUME NEW o \in BufIdx, NEW d \in BufIdx
    PROVE  /\ (o + d) % numResultBufss \in BufIdx
           /\ Distance(o, (o + d) % numResultBufss) = d
<1>1. (o + d) % numResultBufss = IF o + d < numResultBufss THEN o + d
                                 ELSE o + d - numResultBufss
  BY RingSize DEF BufIdx
<1>2. (o + d) % numResultBufss \in BufIdx
  BY <1>1, RingSize DEF BufIdx
<1> DEFINE j == (o + d) % numResultBufss
<1>3. Distance(o, j) = IF j >= o THEN j - o ELSE j - o + numResultBufss
  BY <1>2, DistanceIs
<1> HIDE DEF j
<1>4. Distance(o, j) = d
  <2>1. j = IF o + d < numResultBufss THEN o + d ELSE o + d - numResultBufss
    BY <1>1 DEF j
  <2>2. QED
    BY <1>3, <2>1, RingSize DEF BufIdx
<1>5. QED
  BY <1>2, <1>4 DEF j
-----------------------------------------------------------------------------
(* How many elements of S the function f takes to w, ... *)
Count(S, f, w) == Cardinality({t \in S : f[t] = w})

(* ... and how many the function g does, which differs from f at x only.   *)
LEMMA CountExcept ==
    ASSUME NEW S, IsFiniteSet(S), NEW f, NEW g, NEW x \in S, NEW w,
           \A t \in S : t # x => g[t] = f[t]
    PROVE  /\ Count(S, f, w) \in Nat
           /\ Count(S, g, w)
                = Count(S, f, w) + (IF g[x] = w THEN 1 ELSE 0) - (IF f[x] = w THEN 1 ELSE 0)
           /\ f[x] = w => Count(S, f, w) > 0
<1> DEFINE A == {t \in S : f[t] = w}
           B == {t \in S : g[t] = w}
<1>1. IsFiniteSet(A) /\ Cardinality(A) \in Nat
  BY FS_Subset, FS_CardinalityType
<1>2. B = IF g[x] = w THEN A \cup {x} ELSE A \ {x}
  OBVIOUS
<1>3. x \in A <=> f[x] = w
  OBVIOUS
<1>4. x \in A => Cardinality(A) # 0
  BY <1>1, FS_EmptySet
<1> HIDE DEF A, B
<1>5. Cardinality(B) = Cardinality(A) + (IF g[x] = w THEN 1 ELSE 0) - (IF f[x] = w THEN 1 ELSE 0)
  <2>1. CASE g[x] = w
    <3>1. Cardinality(A \cup {x}) = IF x \in A THEN Cardinality(A) ELSE Cardinality(A) + 1
      BY <1>1, FS_AddElement
    <3>2. QED
      BY <1>1, <1>2, <1>3, <2>1, <3>1
  <2>2. CASE g[x] # w
    <3>1. Cardinality(A \ {x}) = IF x \in A THEN Cardinality(A) - 1 ELSE Cardinality(A)
      BY <1>1, FS_RemoveElement
    <3>2. QED
      BY <1>1, <1>2, <1>3, <2>2, <3>1
  <2>3. QED
    BY <2>1, <2>2
<1>6. QED
  BY <1>1, <1>3, <1>4, <1>5 DEF A, B, Count

(* The sets that the counters count are finite. *)
LEMMA CountsAreFinite ==
    /\ IsFiniteSet(Servers) /\ IsFiniteSet(Clients)
    /\ IsFiniteSet(StartingThreads) /\ Cardinality(StartingThreads) \in Nat
    /\ Cardinality(StartingThreads) <= Cardinality(Servers)
    /\ IsFiniteSet(ServingThreads) /\ Cardinality(ServingThreads) \in Nat
    /\ IsFiniteSet(Waiters) /\ Cardinality(Waiters) \in Nat
    /\ IsFiniteSet(Waiters \ waitingForFinish)
    /\ Cardinality(Waiters \ waitingForFinish) \in Nat
<1>1. IsFiniteSet(Servers) /\ IsFiniteSet(Clients)
  BY EvaluatorAssumption
<1>2. /\ StartingThreads \in SUBSET Servers /\ ServingThreads \in SUBSET Servers
      /\ Waiters \in SUBSET Clients /\ Waiters \ waitingForFinish \in SUBSET Clients
  BY DEF StartingThreads, ServingThreads, Waiters
<1>3. QED
  BY <1>1, <1>2, FS_Subset, FS_CardinalityType

(* The same of the next state. *)
LEMMA CountsStayFinite ==
    /\ IsFiniteSet(StartingThreads') /\ Cardinality(StartingThreads') \in Nat
    /\ Cardinality(StartingThreads') <= Cardinality(Servers)
    /\ IsFiniteSet(ServingThreads') /\ Cardinality(ServingThreads') \in Nat
    /\ IsFiniteSet(Waiters') /\ Cardinality(Waiters') \in Nat
    /\ IsFiniteSet((Waiters \ waitingForFinish)')
    /\ Cardinality((Waiters \ waitingForFinish)') \in Nat
<1>1. IsFiniteSet(Servers) /\ IsFiniteSet(Clients)
  BY EvaluatorAssumption
<1>2. /\ StartingThreads' \in SUBSET Servers /\ ServingThreads' \in SUBSET Servers
      /\ Waiters' \in SUBSET Clients /\ (Waiters \ waitingForFinish)' \in SUBSET Clients
  BY DEF StartingThreads, ServingThreads, Waiters
<1>3. QED
  BY <1>1, <1>2, FS_Subset, FS_CardinalityType
-----------------------------------------------------------------------------
(* The phases of the main thread, and what it counts while it spawns. *)
LEMMA PhasesStep == IInv /\ [Next]_vars => Phases' /\ StartsAreCounted'
<1> SUFFICES ASSUME IInv, [Next]_vars PROVE Phases' /\ StartsAreCounted'
  OBVIOUS
<1> USE DEF IInv
<1>0. /\ IsFiniteSet(Servers) /\ DOMAIN serverPc = Servers
      /\ numServerThreadsStartingUp = Cardinality(StartingThreads)
      /\ Cardinality(StartingThreads) \in Nat
  BY CountsAreFinite DEF TypeOK, StartsAreCounted
<1>1. CASE spawnServerThreads
  <2>1. StartingThreads' = Servers
    BY <1>1 DEF spawnServerThreads, StartingThreads
  <2>2. QED
    BY <1>1, <2>1 DEF spawnServerThreads, Phases, StartsAreCounted, clients
<1>2. CASE WaitForSpawn
  <2>1. StartingThreads' = StartingThreads
    BY <1>2 DEF WaitForSpawn, StartingThreads, servers
  <2>2. numServerThreadsStartingUp = 0 => StartingThreads = {}
    BY <1>0, CountsAreFinite, FS_EmptySet
  <2>3. QED
    BY <1>0, <1>2, <2>1, <2>2
       DEF WaitForSpawn, Phases, StartsAreCounted, StartingThreads, clients, servers
<1>3. CASE killServerThreads \/ NotifyKilled \/ JoinServerThreads
  <2>1. StartingThreads' = StartingThreads
    BY <1>3 DEF killServerThreads, NotifyKilled, JoinServerThreads, StartingThreads, servers
  <2>2. StartsAreCounted'
    BY <1>3, <2>1 DEF killServerThreads, NotifyKilled, JoinServerThreads, StartsAreCounted
  <2>3. Phases'
    BY <1>3 DEF killServerThreads, NotifyKilled, JoinServerThreads, Phases, TypeOK,
                clients, servers
  <2>4. QED
    BY <2>2, <2>3
<1>4. ASSUME NEW s \in Servers, StartUp(s) PROVE Phases' /\ StartsAreCounted'
  <2>0. /\ serverPc[s] = "starting" /\ serverPc'[s] = "looking"
        /\ \A t \in Servers : t # s => serverPc'[t] = serverPc[t]
    BY <1>0, <1>4 DEF StartUp
  <2>1. Count(Servers, serverPc', "starting") = Count(Servers, serverPc, "starting") + 0 - 1
    BY <1>0, <2>0, CountExcept
  <2>2. /\ Cardinality(StartingThreads) = Count(Servers, serverPc, "starting")
        /\ Cardinality(StartingThreads') = Count(Servers, serverPc', "starting")
    BY DEF StartingThreads, Count
  <2>3. StartsAreCounted'
    BY <1>0, <1>4, <2>1, <2>2 DEF StartUp, StartsAreCounted
  <2>4. mainPc = "spawning" /\ mainPc' = "spawning"
    BY <1>4 DEF StartUp, Phases, TypeOK
  <2>5. QED
    BY <1>0, <1>4, <2>3, <2>4 DEF StartUp, Phases, clients
<1>5. ASSUME NEW s \in Servers, WaitForBatchStart(s) \/ Exit(s) \/ TakeBatch(s)
      PROVE  Phases' /\ StartsAreCounted'
  <2>1. serverPc[s] # "starting"
    BY <1>5 DEF WaitForBatchStart, Exit, TakeBatch, Looks, Finished
  <2>2. StartingThreads' = StartingThreads
    BY <1>0, <1>5, <2>1 DEF WaitForBatchStart, Exit, TakeBatch, Leave, StartingThreads
  <2>3. StartsAreCounted'
    BY <1>5, <2>2 DEF WaitForBatchStart, Exit, TakeBatch, Leave, StartsAreCounted, lifecycle
  <2>4. Phases'
    BY <1>0, <1>5, <2>1
       DEF WaitForBatchStart, Exit, TakeBatch, Leave, Looks, Finished, Phases, lifecycle, clients
  <2>5. QED
    BY <2>3, <2>4
<1>6. ASSUME NEW s \in Servers, DeliverRow(s) PROVE Phases' /\ StartsAreCounted'
  BY <1>6 DEF DeliverRow, Phases, StartsAreCounted, StartingThreads, lifecycle
<1>7. ASSUME NEW c \in Clients,
             \/ evaluate(c) \/ Evaluating(c) \/ waitForNextNNEvalIfAny(c) \/ WakeFromWait(c)
      PROVE  Phases' /\ StartsAreCounted'
  <2>1. /\ UNCHANGED <<lifecycle, serverPc>>
        /\ pc[c] # "idle" \/ mainPc = "up"
        /\ \A d \in Clients : d # c => pc'[d] = pc[d]
    BY <1>7 DEF evaluate, Evaluating, Enqueue, WaitForResult, ReturnResult,
                waitForNextNNEvalIfAny, WakeFromWait, WaitOrReturn, servers, TypeOK
  <2>2. QED
    BY <2>1 DEF Phases, StartsAreCounted, StartingThreads, lifecycle
<1>8. CASE SpuriousWakeup \/ UNCHANGED vars
  BY <1>8 DEF SpuriousWakeup, vars, lifecycle, servers, clients, Phases, StartsAreCounted,
              StartingThreads
<1>9. QED
  BY <1>1, <1>2, <1>3, <1>4, <1>5, <1>6, <1>7, <1>8 DEF Next, Main, Server

(* The counters and the threads that they count. *)
LEMMA CountersAre ==
    /\ WaitersAreCounted <=>
           /\ numOngoingEvals = Count(Servers, serverPc, "serving")
           /\ numWaitingEvals + numEvalsToAwaken = Count(Clients, pc, "waitForNext")
           /\ numEvalsToAwaken <= Cardinality(Waiters \ waitingForFinish)
           /\ numWaitingEvals > 0 => numOngoingEvals > 0
    /\ WaitersAreCounted' <=>
           /\ numOngoingEvals' = Count(Servers, serverPc', "serving")
           /\ numWaitingEvals' + numEvalsToAwaken' = Count(Clients, pc', "waitForNext")
           /\ numEvalsToAwaken' <= Cardinality((Waiters \ waitingForFinish)')
           /\ numWaitingEvals' > 0 => numOngoingEvals' > 0
BY DEF WaitersAreCounted, Count, Waiters

(* A batch that has ended is still counted. *)
LEMMA FinishedIsCounted ==
    ASSUME IInv, NEW s \in Servers
    PROVE  serverPc[s] = "serving" => numOngoingEvals > 0
<1>1. serverPc[s] = "serving" => Count(Servers, serverPc, "serving") > 0
  BY CountsAreFinite, CountExcept DEF IInv
<1>2. QED
  BY <1>1, CountersAre DEF IInv

(* A row that is not served yet holds a client that waits for its result. *)
LEMMA UnservedRow ==
    ASSUME IInv, NEW s \in Servers, serverPc[s] = "serving", row[s] <= numRows[s]
    PROVE  /\ row[s] \in Rows /\ Unserved(s, row[s])
           /\ resultBufs[s][row[s]] \in Clients /\ resultBufs[s][row[s]] # NULL
           /\ Awaiting(resultBufs[s][row[s]])
<1>1. row[s] \in Rows /\ numRows[s] \in Rows /\ Unserved(s, row[s])
  BY RingSize DEF IInv, ServesARow, TypeOK, Rows, Unserved
<1>2. resultBufs[s][row[s]] # NULL /\ resultBufs[s][row[s]] \in Clients \cup {NULL}
  BY <1>1 DEF IInv, CellsInUse, TypeOK
<1>3. Held(resultBufs[s][row[s]])
  BY <1>1 DEF Held
<1>4. QED
  BY <1>1, <1>2, <1>3 DEF IInv, CellsAwait

(* The types. *)
LEMMA TypeStep == IInv /\ [Next]_vars => TypeOK'
<1> SUFFICES ASSUME IInv, [Next]_vars PROVE TypeOK'
  OBVIOUS
<1>0. TypeOK /\ Phases
  BY DEF IInv
<1>1. CASE Main
  <2>1. CASE spawnServerThreads
    <3>1. Cardinality(Servers) \in Nat
      BY CountsAreFinite, FS_CardinalityType
    <3>2. /\ serverWaitingForBatchStart = {}
          /\ \A s \in Servers : serverPc[s] = "dead"
      BY <1>0, <2>1 DEF spawnServerThreads, TypeOK, Phases
    <3>3. QED
      BY <1>0, <2>1, <3>1, <3>2 DEF spawnServerThreads, TypeOK, ring, counts, clients
  <2>2. CASE WaitForSpawn
    BY <1>0, <2>2 DEF WaitForSpawn, TypeOK, ring, counts, clients, servers
  <2>3. CASE killServerThreads
    BY <1>0, <2>3 DEF killServerThreads, TypeOK, ring, counts, clients, servers
  <2>4. CASE NotifyKilled
    BY <1>0, <2>4 DEF NotifyKilled, TypeOK, ring, counts, clients, servers
  <2>5. CASE JoinServerThreads
    BY <1>0, <2>5 DEF JoinServerThreads, TypeOK, ring, counts, clients, servers
  <2>6. QED
    BY <1>1, <2>1, <2>2, <2>3, <2>4, <2>5 DEF Main
<1>2. ASSUME NEW s \in Servers, StartUp(s) PROVE TypeOK'
  <2>1. /\ Cardinality(Servers) \in Nat /\ Cardinality(StartingThreads') \in Nat
        /\ Cardinality(StartingThreads') <= Cardinality(Servers)
        /\ numServerThreadsStartingUp' = Cardinality(StartingThreads')
    BY CountsAreFinite, CountsStayFinite, PhasesStep, FS_CardinalityType DEF StartsAreCounted
  <2>2. QED
    BY <1>0, <1>2, <2>1 DEF StartUp, TypeOK, ring, counts, clients
<1>3. ASSUME NEW s \in Servers, WaitForBatchStart(s) \/ Exit(s) \/ TakeBatch(s)
      PROVE  TypeOK'
  <2>1. ASSUME NEW n \in {0, 1}, CountBatches(s, n)
        PROVE  /\ numOngoingEvals' \in Nat /\ numWaitingEvals' \in Nat
               /\ numEvalsToAwaken' \in Nat /\ waitingForFinish' \subseteq waitingForFinish
    <3>1. Finished(s) => numOngoingEvals > 0
      BY FinishedIsCounted DEF Finished
    <3>2. QED
      BY <1>0, <2>1, <3>1 DEF CountBatches, AwakenWaiting, TypeOK
  <2>2. CASE TakeBatch(s)
    <3>1. m_oldestResultBufsIdx \in BufIdx /\ NextIdx(m_oldestResultBufsIdx) \in BufIdx
      BY <1>0, NextIdxIs DEF TypeOK
    <3>2. /\ m_resultBufss' \in [BufIdx -> [Rows -> Clients \cup {NULL}]]
          /\ resultBufs' \in [Servers -> [Rows -> Clients \cup {NULL}]]
      BY <1>0, <2>2, <3>1 DEF TakeBatch, TypeOK
    <3>3. /\ m_currentResultBufsLen' \in 0..maxNumRows - 1
          /\ m_currentResultBufsIdx' \in BufIdx /\ m_oldestResultBufsIdx' \in BufIdx
      BY <1>0, <2>2, <3>1, RingSize DEF TakeBatch, AdvanceOldest, TypeOK
    <3>4. numRows' \in [Servers -> 0..maxNumRows] /\ row' \in [Servers -> 0..maxNumRows + 1]
      BY <1>0, <2>2, RingSize DEF TakeBatch, TypeOK
    <3>5. s \notin serverWaitingForBatchStart
      BY <1>0, <2>2 DEF TakeBatch, Looks, Finished, TypeOK
    <3>6. /\ serverPc' \in [Servers -> {"dead", "starting", "looking", "serving"}]
          /\ serverWaitingForBatchStart' \subseteq {t \in Servers : serverPc'[t] = "looking"}
      BY <1>0, <2>2, <3>5 DEF TakeBatch, TypeOK
    <3>7. /\ numOngoingEvals' \in Nat /\ numWaitingEvals' \in Nat
          /\ numEvalsToAwaken' \in Nat /\ waitingForFinish' \subseteq waitingForFinish
      BY <2>1, <2>2 DEF TakeBatch
    <3>8. UNCHANGED <<clients, lifecycle>>
      BY <2>2 DEF TakeBatch
    <3>9. QED
      BY <1>0, <3>2, <3>3, <3>4, <3>6, <3>7, <3>8 DEF TypeOK, clients, lifecycle
  <2>3. CASE WaitForBatchStart(s) \/ Exit(s)
    <3>1. PICK to \in {"looking", "dead"} :
             /\ Leave(s, to)
             /\ to = "looking" => serverWaitingForBatchStart' = serverWaitingForBatchStart \cup {s}
             /\ to = "dead" => serverWaitingForBatchStart' = serverWaitingForBatchStart
      BY <2>3 DEF WaitForBatchStart, Exit
    <3>2. /\ numOngoingEvals' \in Nat /\ numWaitingEvals' \in Nat
          /\ numEvalsToAwaken' \in Nat /\ waitingForFinish' \subseteq waitingForFinish
      BY <2>1, <3>1 DEF Leave
    <3>3. numRows' \in [Servers -> 0..maxNumRows] /\ row' \in [Servers -> 0..maxNumRows + 1]
      BY <1>0, <3>1, RingSize DEF Leave, TypeOK
    <3>4. s \notin serverWaitingForBatchStart
      BY <1>0, <2>3 DEF WaitForBatchStart, Exit, Looks, Finished, TypeOK
    <3>5. /\ serverPc' \in [Servers -> {"dead", "starting", "looking", "serving"}]
          /\ serverWaitingForBatchStart' \subseteq {t \in Servers : serverPc'[t] = "looking"}
      BY <1>0, <3>1, <3>4 DEF Leave, TypeOK
    <3>6. UNCHANGED <<ring, clients, resultBufs, lifecycle>>
      BY <3>1 DEF Leave
    <3>7. QED
      BY <1>0, <3>2, <3>3, <3>5, <3>6 DEF TypeOK, ring, clients, lifecycle
  <2>4. QED
    BY <1>3, <2>2, <2>3
<1>4. ASSUME NEW s \in Servers, DeliverRow(s) PROVE TypeOK'
  <2>1. row[s] \in Rows /\ resultBufs[s][row[s]] \in Clients
    BY <1>4, UnservedRow DEF DeliverRow
  <2>2. resultBufs' \in [Servers -> [Rows -> Clients \cup {NULL}]]
    BY <1>0, <1>4 DEF DeliverRow, TypeOK
  <2>3. hasResult' \in [Clients -> BOOLEAN]
    BY <1>0, <1>4, <2>1 DEF DeliverRow, TypeOK
  <2>4. row' \in [Servers -> 0..maxNumRows + 1]
    BY <1>0, <1>4, <2>1, RingSize DEF DeliverRow, TypeOK, Rows
  <2>5. QED
    BY <1>0, <1>4, <2>2, <2>3, <2>4 DEF DeliverRow, TypeOK, ring, counts, lifecycle
<1>5. ASSUME NEW c \in Clients, evaluate(c) PROVE TypeOK'
  BY <1>0, <1>5 DEF evaluate, TypeOK, ring, counts, servers, lifecycle
<1>6. ASSUME NEW c \in Clients, Enqueue(c) PROVE TypeOK'
  <2>1. m_resultBufss' \in [BufIdx -> [Rows -> Clients \cup {NULL}]]
    BY <1>0, <1>6 DEF Enqueue, TypeOK
  <2>2. /\ m_currentResultBufsLen' \in 0..maxNumRows - 1
        /\ m_currentResultBufsIdx' \in BufIdx
    BY <1>0, <1>6, RingSize, NextIdxIs DEF Enqueue, TypeOK
  <2>3. serverWaitingForBatchStart' \subseteq serverWaitingForBatchStart
    BY <1>6 DEF Enqueue, notifyServer
  <2>4. /\ pc' \in [Clients -> {"idle", "enqueue", "await", "waitForNext"}]
        /\ waitingForFinish' \subseteq {d \in Clients : pc'[d] = "waitForNext"}
        /\ clientWaitingForResult' \subseteq {d \in Clients : pc'[d] = "await"}
    BY <1>0, <1>6 DEF Enqueue, TypeOK
  <2>5. UNCHANGED <<m_oldestResultBufsIdx, counts, hasResult, servers, lifecycle>>
    BY <1>6 DEF Enqueue
  <2>6. QED
    BY <1>0, <2>1, <2>2, <2>3, <2>4, <2>5 DEF TypeOK, counts, servers, lifecycle
<1>7. ASSUME NEW c \in Clients, WaitForResult(c) \/ ReturnResult(c) PROVE TypeOK'
  BY <1>0, <1>7 DEF WaitForResult, ReturnResult, TypeOK, ring, counts, servers, lifecycle
<1>8. ASSUME NEW c \in Clients, waitForNextNNEvalIfAny(c) \/ WakeFromWait(c)
      PROVE  TypeOK'
  <2>1. PICK w \in Nat : WaitOrReturn(c, w)
    BY <1>0, <1>8 DEF waitForNextNNEvalIfAny, WakeFromWait, TypeOK
  <2>2. ~isKilled /\ c \notin waitingForFinish /\ c \notin clientWaitingForResult
    BY <1>0, <1>8 DEF waitForNextNNEvalIfAny, WakeFromWait, TypeOK, Phases
  <2>3. numWaitingEvals' \in Nat /\ numEvalsToAwaken' \in Nat
    BY <1>0, <2>1, <2>2 DEF WaitOrReturn, TypeOK
  <2>4. /\ pc' \in [Clients -> {"idle", "enqueue", "await", "waitForNext"}]
        /\ waitingForFinish' \subseteq {d \in Clients : pc'[d] = "waitForNext"}
        /\ clientWaitingForResult' \subseteq {d \in Clients : pc'[d] = "await"}
    BY <1>0, <2>1, <2>2 DEF WaitOrReturn, TypeOK
  <2>5. UNCHANGED <<ring, numOngoingEvals, hasResult, servers, lifecycle,
                    serverWaitingForBatchStart>>
    BY <2>1 DEF WaitOrReturn
  <2>6. QED
    BY <1>0, <2>3, <2>4, <2>5 DEF TypeOK, ring, servers, lifecycle
<1>9. CASE SpuriousWakeup
  BY <1>0, <1>9 DEF SpuriousWakeup, TypeOK, ring, counts, servers, lifecycle
<1>10. CASE UNCHANGED vars
  BY <1>0, <1>10 DEF TypeOK, vars, ring, counts, clients, servers, lifecycle
<1>11. QED
  BY <1>1, <1>2, <1>3, <1>4, <1>5, <1>6, <1>7, <1>8, <1>9, <1>10 DEF Next, Server, Evaluating
-----------------------------------------------------------------------------
(* The threads that wait for the end of a batch, before and after the      *)
(* state of one client changes.                                            *)
LEMMA WaitersChange ==
    ASSUME IInv, NEW c \in Clients, \A d \in Clients : d # c => pc'[d] = pc[d]
    PROVE  /\ Count(Clients, pc, "waitForNext") \in Nat
           /\ Count(Clients, pc', "waitForNext")
                = Count(Clients, pc, "waitForNext")
                  + (IF pc'[c] = "waitForNext" THEN 1 ELSE 0)
                  - (IF pc[c] = "waitForNext" THEN 1 ELSE 0)
BY CountsAreFinite, CountExcept

(* The counters count. *)
LEMMA CountersStep == IInv /\ [Next]_vars => WaitersAreCounted'
<1> SUFFICES ASSUME IInv, [Next]_vars PROVE WaitersAreCounted'
  OBVIOUS
<1> DEFINE serving == Count(Servers, serverPc, "serving")
           waiters == Count(Clients, pc, "waitForNext")
           awake == Cardinality(Waiters \ waitingForFinish)
<1>0. /\ TypeOK /\ Phases
      /\ numOngoingEvals = serving /\ numWaitingEvals + numEvalsToAwaken = waiters
      /\ numEvalsToAwaken <= awake
      /\ numWaitingEvals > 0 => numOngoingEvals > 0
      /\ awake \in Nat /\ awake' \in Nat
      /\ numOngoingEvals \in Nat /\ numWaitingEvals \in Nat /\ numEvalsToAwaken \in Nat
      /\ serving = Cardinality(ServingThreads) /\ serving' = Cardinality(ServingThreads')
      /\ waiters = Cardinality(Waiters) /\ waiters' = Cardinality(Waiters')
  BY CountersAre, CountsAreFinite, CountsStayFinite
     DEF IInv, TypeOK, Count, Waiters, ServingThreads
<1>a. ASSUME Waiters' = Waiters, waitingForFinish' \subseteq waitingForFinish
      PROVE  awake <= awake'
  <2>1. (Waiters \ waitingForFinish) \in SUBSET (Waiters' \ waitingForFinish')
    BY <1>a
  <2>2. QED
    BY <2>1, CountsStayFinite, FS_Subset
<1>b. ASSUME UNCHANGED counts, ServingThreads' = ServingThreads, Waiters' = Waiters,
             waitingForFinish' \subseteq waitingForFinish
      PROVE  WaitersAreCounted'
  <2>1. awake <= awake' /\ serving' = serving /\ waiters' = waiters
    BY <1>0, <1>a, <1>b
  <2>2. QED
    BY <1>0, <1>b, <2>1, CountersAre DEF counts
<1>1. CASE Main
  <2>1. ServingThreads' = ServingThreads
    BY <1>0, <1>1 DEF Main, spawnServerThreads, WaitForSpawn, killServerThreads, NotifyKilled,
                      JoinServerThreads, servers, ServingThreads, Phases
  <2>2. /\ UNCHANGED counts /\ Waiters' = Waiters
        /\ waitingForFinish' \subseteq waitingForFinish
    BY <1>1 DEF Main, spawnServerThreads, WaitForSpawn, killServerThreads, NotifyKilled,
                JoinServerThreads, clients, Waiters
  <2>3. QED
    BY <1>b, <2>1, <2>2
<1>2. ASSUME NEW s \in Servers, StartUp(s) \/ DeliverRow(s) PROVE WaitersAreCounted'
  <2>1. ServingThreads' = ServingThreads
    BY <1>0, <1>2 DEF StartUp, DeliverRow, ServingThreads, TypeOK
  <2>2. UNCHANGED <<counts, waitingForFinish>> /\ Waiters' = Waiters
    BY <1>2 DEF StartUp, DeliverRow, clients, Waiters
  <2>3. QED
    BY <1>b, <2>1, <2>2
<1>3. ASSUME NEW s \in Servers, WaitForBatchStart(s) \/ Exit(s) \/ TakeBatch(s)
      PROVE  WaitersAreCounted'
  <2>1. PICK n \in {0, 1} :
           /\ CountBatches(s, n) /\ UNCHANGED clients
           /\ n = 1 <=> serverPc'[s] = "serving"
           /\ \A t \in Servers : t # s => serverPc'[t] = serverPc[t]
    <3>1. CASE TakeBatch(s)
      BY <1>0, <3>1 DEF TakeBatch, TypeOK
    <3>2. CASE WaitForBatchStart(s) \/ Exit(s)
      BY <1>0, <3>2 DEF WaitForBatchStart, Exit, Leave, TypeOK
    <3>3. QED
      BY <1>3, <3>1, <3>2
  <2>2. serving' = serving + n - (IF serverPc[s] = "serving" THEN 1 ELSE 0)
    <3>1. serving' = serving + (IF serverPc'[s] = "serving" THEN 1 ELSE 0)
                     - (IF serverPc[s] = "serving" THEN 1 ELSE 0)
      BY <2>1, CountsAreFinite, CountExcept
    <3>2. QED
      BY <2>1, <3>1
  <2>3. Waiters' = Waiters
    BY <2>1 DEF Waiters, clients
  <2>4. serverPc[s] = "serving" <=> Finished(s)
    BY <1>3 DEF WaitForBatchStart, Exit, TakeBatch, Looks, Finished
  <2>5. numOngoingEvals' = serving'
    BY <1>0, <2>1, <2>2, <2>4 DEF CountBatches
  <2>6. CASE Finished(s) /\ numWaitingEvals > 0
    <3>1. /\ numEvalsToAwaken' = numEvalsToAwaken + numWaitingEvals
          /\ numWaitingEvals' = 0 /\ waitingForFinish' = {}
      BY <2>1, <2>6 DEF CountBatches, AwakenWaiting
    <3>2. (Waiters \ waitingForFinish)' = Waiters
      BY <2>3, <3>1
    <3>3. awake' = waiters /\ waiters' = waiters
      BY <1>0, <2>3, <3>2
    <3>4. QED
      BY <1>0, <2>5, <3>1, <3>3, CountersAre
  <2>7. CASE ~(Finished(s) /\ numWaitingEvals > 0)
    <3>1. UNCHANGED <<numEvalsToAwaken, numWaitingEvals, waitingForFinish>>
      BY <2>1, <2>7 DEF CountBatches, AwakenWaiting
    <3>2. awake' = awake /\ waiters' = waiters
      BY <1>0, <2>3, <3>1
    <3>3. numWaitingEvals' > 0 => numOngoingEvals' > 0
      BY <1>0, <2>1, <2>2, <2>4, <2>5, <2>7, <3>1
    <3>4. QED
      BY <1>0, <2>5, <3>1, <3>2, <3>3, CountersAre
  <2>8. QED
    BY <2>6, <2>7
<1>4. ASSUME NEW c \in Clients, evaluate(c) \/ Evaluating(c) PROVE WaitersAreCounted'
  <2>1. Waiters' = Waiters
    BY <1>0, <1>4 DEF evaluate, Evaluating, Enqueue, WaitForResult, ReturnResult, Waiters, TypeOK
  <2>2. UNCHANGED <<counts, waitingForFinish>> /\ UNCHANGED servers
    BY <1>4 DEF evaluate, Evaluating, Enqueue, WaitForResult, ReturnResult
  <2>3. QED
    BY <1>b, <2>1, <2>2 DEF servers, ServingThreads
<1>5. ASSUME NEW c \in Clients, waitForNextNNEvalIfAny(c) \/ WakeFromWait(c)
      PROVE  WaitersAreCounted'
  <2>1. PICK w \in Nat :
           /\ WaitOrReturn(c, w) /\ ~isKilled /\ c \notin waitingForFinish
           /\ \/ pc[c] = "idle" /\ numOngoingEvals > 0 /\ w = numWaitingEvals + 1
              \/ pc[c] = "waitForNext" /\ w = numWaitingEvals
    BY <1>0, <1>5 DEF waitForNextNNEvalIfAny, WakeFromWait, TypeOK, Phases
  <2>2. /\ numWaitingEvals' = w /\ numOngoingEvals' = numOngoingEvals
        /\ serving' = serving
        /\ \A d \in Clients : d # c => pc'[d] = pc[d]
    BY <1>0, <2>1 DEF WaitOrReturn, servers, TypeOK
  <2>3. waiters' = waiters + (IF pc'[c] = "waitForNext" THEN 1 ELSE 0)
                   - (IF pc[c] = "waitForNext" THEN 1 ELSE 0)
    BY <2>2, WaitersChange
  <2>4. CASE numEvalsToAwaken <= 0
    <3>1. numEvalsToAwaken' = 0 /\ pc'[c] = "waitForNext"
      BY <1>0, <2>1, <2>4 DEF WaitOrReturn, TypeOK
    <3>2. QED
      BY <1>0, <2>1, <2>2, <2>3, <2>4, <3>1, CountersAre
  <2>5. CASE numEvalsToAwaken > 0
    <3>1. /\ numEvalsToAwaken' = numEvalsToAwaken - 1 /\ pc'[c] = "idle"
          /\ waitingForFinish' = waitingForFinish
      BY <1>0, <2>1, <2>5 DEF WaitOrReturn, TypeOK
    <3>2. Waiters' = Waiters \ {c}
      BY <2>2, <3>1 DEF Waiters
    <3>3. (Waiters \ waitingForFinish)' = (Waiters \ waitingForFinish) \ {c}
      BY <3>1, <3>2
    <3>4. Cardinality((Waiters \ waitingForFinish) \ {c})
             = IF c \in Waiters \ waitingForFinish THEN awake - 1 ELSE awake
      BY CountsAreFinite, FS_RemoveElement
    <3>5. numEvalsToAwaken' <= awake'
      <4>1. awake' = IF c \in Waiters \ waitingForFinish THEN awake - 1 ELSE awake
        BY <3>3, <3>4
      <4>2. QED
        BY <1>0, <3>1, <4>1
    <3>6. QED
      BY <1>0, <2>1, <2>2, <2>3, <2>5, <3>1, <3>5, CountersAre
  <2>6. QED
    BY <1>0, <2>4, <2>5
<1>6. CASE SpuriousWakeup
  BY <1>6, <1>b DEF SpuriousWakeup, servers, ServingThreads, Waiters
<1>7. CASE UNCHANGED vars
  BY <1>7, <1>b DEF vars, clients, servers, ServingThreads, Waiters
<1>8. QED
  BY <1>1, <1>2, <1>3, <1>4, <1>5, <1>6, <1>7 DEF Next, Server
-----------------------------------------------------------------------------
(* While no client is in a call no row is queued. *)
LEMMA IdleIsEmpty ==
    ASSUME IInv, \A c \in Clients : pc[c] = "idle"
    PROVE  NothingQueued
<1>0. /\ m_oldestResultBufsIdx \in BufIdx /\ m_currentResultBufsIdx \in BufIdx
      /\ m_currentResultBufsLen \in 0..maxNumRows - 1
  BY DEF IInv, TypeOK
<1>1. \A i \in BufIdx, r \in Rows : ~Queued(i, r)
  <2>1. ASSUME NEW i \in BufIdx, NEW r \in Rows, m_resultBufss[i][r] # NULL PROVE FALSE
    <3>1. m_resultBufss[i][r] \in Clients
      BY <2>1 DEF IInv, TypeOK
    <3>2. Awaiting(m_resultBufss[i][r])
      BY <3>1 DEF IInv, CellsAwait, Held
    <3>3. QED
      BY <3>1, <3>2 DEF Awaiting
  <2>2. QED
    BY <2>1 DEF IInv, CellsInUse
<1>2. 1 \in Rows
  BY RingSize DEF Rows
<1>3. m_currentResultBufsLen <= 0
  BY <1>0, <1>1, <1>2, RingSize DEF Queued, Rows
<1>4. m_currentResultBufsIdx = m_oldestResultBufsIdx
  <2>1. ~(BufsAhead(m_oldestResultBufsIdx) < BufsAhead(m_currentResultBufsIdx))
    BY <1>0, <1>1, <1>2 DEF Queued
  <2>2. /\ BufsAhead(m_oldestResultBufsIdx)
              = Distance(m_oldestResultBufsIdx, m_oldestResultBufsIdx)
        /\ BufsAhead(m_currentResultBufsIdx)
              = Distance(m_oldestResultBufsIdx, m_currentResultBufsIdx)
    BY DEF BufsAhead, Distance
  <2>3. /\ Distance(m_oldestResultBufsIdx, m_oldestResultBufsIdx) = 0
        /\ Distance(m_oldestResultBufsIdx, m_currentResultBufsIdx) \in BufIdx
    BY <1>0, DistanceInjective, DistanceIs
  <2>4. Distance(m_oldestResultBufsIdx, m_currentResultBufsIdx) = 0
    BY <2>1, <2>2, <2>3 DEF BufIdx
  <2>5. QED
    BY <1>0, <2>4, DistanceInjective
<1>5. QED
  BY <1>3, <1>4 DEF NothingQueued

(* No wakeup is lost, and a server thread is at one of its rows. *)
LEMMA AttendedStep == IInv /\ [Next]_vars => RowsAreAttendedTo' /\ ServesARow'
<1> SUFFICES ASSUME IInv, [Next]_vars PROVE RowsAreAttendedTo' /\ ServesARow'
  OBVIOUS
<1> DEFINE Awake(s) == serverPc[s] # "dead" /\ s \notin serverWaitingForBatchStart
           Sleepers == \A c \in clientWaitingForResult : ~hasResult[c]
           SomeAwake == ~NothingQueued => \E s \in Servers : Awake(s)
<1>0. /\ TypeOK /\ Phases /\ ServesARow /\ Sleepers /\ SomeAwake /\ Servers # {}
  BY EvaluatorAssumption DEF IInv, RowsAreAttendedTo
<1>a. RowsAreAttendedTo' <=> SomeAwake' /\ Sleepers'
  BY DEF RowsAreAttendedTo
<1>b. ServesARow'
  <2>1. CASE Main
    BY <1>0, <2>1 DEF Main, spawnServerThreads, WaitForSpawn, killServerThreads, NotifyKilled,
                      JoinServerThreads, servers, ServesARow
  <2>2. ASSUME NEW s \in Servers, StartUp(s) \/ Exit(s) \/ WaitForBatchStart(s) PROVE ServesARow'
    BY <1>0, <2>2 DEF StartUp, Exit, WaitForBatchStart, Leave, ServesARow, TypeOK
  <2>3. ASSUME NEW s \in Servers, TakeBatch(s) PROVE ServesARow'
    BY <1>0, <2>3, RingSize DEF TakeBatch, ServesARow, TypeOK
  <2>4. ASSUME NEW s \in Servers, DeliverRow(s) PROVE ServesARow'
    BY <1>0, <2>4 DEF DeliverRow, ServesARow, TypeOK
  <2>5. CASE UNCHANGED servers
    BY <1>0, <2>5 DEF servers, ServesARow
  <2>6. ASSUME NEW c \in Clients,
               evaluate(c) \/ Evaluating(c) \/ waitForNextNNEvalIfAny(c) \/ WakeFromWait(c)
        PROVE  UNCHANGED servers
    BY <2>6 DEF evaluate, Evaluating, Enqueue, WaitForResult, ReturnResult,
                waitForNextNNEvalIfAny, WakeFromWait, WaitOrReturn
  <2>7. QED
    BY <2>1, <2>2, <2>3, <2>4, <2>5, <2>6 DEF Next, Server, SpuriousWakeup, vars
<1>1. ASSUME UNCHANGED ring, serverWaitingForBatchStart' \subseteq serverWaitingForBatchStart,
             \A s \in Servers : serverPc'[s] = "dead" => serverPc[s] = "dead"
      PROVE  SomeAwake'
  BY <1>0, <1>1 DEF ring, NothingQueued
<1>2. ASSUME UNCHANGED ring, NothingQueued PROVE SomeAwake'
  BY <1>2 DEF ring, NothingQueued
<1>3. ASSUME hasResult' = hasResult, clientWaitingForResult' \subseteq clientWaitingForResult
      PROVE  Sleepers'
  BY <1>0, <1>3
<1>4. CASE Main
  <2>1. CASE spawnServerThreads
    <3>1. NothingQueued
      BY <1>0, <2>1, IdleIsEmpty DEF spawnServerThreads, Phases
    <3>2. QED
      BY <1>a, <1>b, <1>2, <1>3, <2>1, <3>1 DEF spawnServerThreads, clients
  <2>2. CASE ~spawnServerThreads
    BY <1>a, <1>b, <1>1, <1>3, <1>4, <2>2
       DEF Main, WaitForSpawn, killServerThreads, NotifyKilled, JoinServerThreads, clients, servers
  <2>3. QED
    BY <2>1, <2>2
<1>5. ASSUME NEW s \in Servers, StartUp(s) PROVE RowsAreAttendedTo'
  BY <1>0, <1>a, <1>1, <1>3, <1>5 DEF StartUp, clients, TypeOK
<1>6. ASSUME NEW s \in Servers, WaitForBatchStart(s) \/ Exit(s) PROVE RowsAreAttendedTo'
  <2>1. NothingQueued
    BY <1>0, <1>6, IdleIsEmpty DEF WaitForBatchStart, Exit, Phases
  <2>2. QED
    BY <1>a, <1>2, <1>3, <1>6, <2>1 DEF WaitForBatchStart, Exit, Leave, clients
<1>7. ASSUME NEW s \in Servers, TakeBatch(s) PROVE RowsAreAttendedTo'
  <2>1. s \notin serverWaitingForBatchStart
    BY <1>0, <1>7 DEF TakeBatch, Looks, Finished, TypeOK
  <2>2. serverPc'[s] = "serving" /\ s \notin serverWaitingForBatchStart'
    BY <1>0, <1>7, <2>1 DEF TakeBatch, TypeOK
  <2>3. QED
    BY <1>a, <1>3, <1>7, <2>2 DEF TakeBatch, clients
<1>8. ASSUME NEW s \in Servers, DeliverRow(s) PROVE RowsAreAttendedTo'
  <2>1. SomeAwake'
    BY <1>1, <1>8 DEF DeliverRow
  <2>2. Sleepers'
    BY <1>0, <1>8 DEF DeliverRow, TypeOK
  <2>3. QED
    BY <1>a, <2>1, <2>2
<1>9. ASSUME NEW c \in Clients, evaluate(c) PROVE RowsAreAttendedTo'
  <2>1. SomeAwake'
    BY <1>1, <1>9 DEF evaluate, servers
  <2>2. Sleepers'
    BY <1>0, <1>9 DEF evaluate, TypeOK
  <2>3. QED
    BY <1>a, <2>1, <2>2
<1>10. ASSUME NEW c \in Clients, Enqueue(c) PROVE RowsAreAttendedTo'
  <2>1. Sleepers'
    BY <1>3, <1>10 DEF Enqueue
  <2>2. \A s \in Servers : serverPc'[s] = serverPc[s] /\ serverPc[s] # "dead"
    BY <1>0, <1>10 DEF Enqueue, Phases, TypeOK, servers
  <2>3. CASE serverWaitingForBatchStart = {}
    BY <1>0, <1>a, <1>10, <2>1, <2>2, <2>3 DEF Enqueue, notifyServer
  <2>4. CASE serverWaitingForBatchStart # {} /\ NothingQueued
    <3>1. m_currentResultBufsLen = 0 /\ m_currentResultBufsIdx = m_oldestResultBufsIdx
      BY <1>0, <2>4 DEF NothingQueued, TypeOK
    <3>2. PICK s \in serverWaitingForBatchStart :
              serverWaitingForBatchStart' = serverWaitingForBatchStart \ {s}
      BY <1>10, <2>4, <3>1 DEF Enqueue, notifyServer
    <3>3. s \in Servers /\ Awake(s)'
      BY <1>0, <2>2, <3>2 DEF TypeOK
    <3>4. QED
      BY <1>a, <2>1, <3>3
  <2>5. CASE ~NothingQueued
    <3>1. PICK s \in Servers : Awake(s)
      BY <1>0, <2>5
    <3>2. serverWaitingForBatchStart' \subseteq serverWaitingForBatchStart
      BY <1>10 DEF Enqueue, notifyServer
    <3>3. Awake(s)'
      BY <2>2, <3>1, <3>2
    <3>4. QED
      BY <1>a, <2>1, <3>3
  <2>6. QED
    BY <2>3, <2>4, <2>5
<1>11. ASSUME NEW c \in Clients, WaitForResult(c) \/ ReturnResult(c) PROVE RowsAreAttendedTo'
  <2>1. SomeAwake'
    BY <1>1, <1>11 DEF WaitForResult, ReturnResult, servers
  <2>2. Sleepers'
    BY <1>0, <1>11 DEF WaitForResult, ReturnResult
  <2>3. QED
    BY <1>a, <2>1, <2>2
<1>12. ASSUME NEW c \in Clients, waitForNextNNEvalIfAny(c) \/ WakeFromWait(c)
       PROVE  RowsAreAttendedTo'
  BY <1>a, <1>1, <1>3, <1>12 DEF waitForNextNNEvalIfAny, WakeFromWait, WaitOrReturn, servers
<1>13. CASE SpuriousWakeup
  BY <1>a, <1>b, <1>1, <1>3, <1>13 DEF SpuriousWakeup, servers
<1>14. CASE UNCHANGED vars
  BY <1>a, <1>b, <1>1, <1>3, <1>14 DEF vars, clients, servers
<1>15. QED
  BY <1>b, <1>4, <1>5, <1>6, <1>7, <1>8, <1>9, <1>10, <1>11, <1>12, <1>13, <1>14
     DEF Next, Server, Evaluating
-----------------------------------------------------------------------------
(* The queue of the refinement, cell by cell: its k-th row is row RowOf(k) *)
(* of array BufOf(k).                                                      *)
QueueLen == BufsAhead(m_currentResultBufsIdx) * maxNumRows + m_currentResultBufsLen
BufOf(k) == (m_oldestResultBufsIdx + (k - 1) \div maxNumRows) % numResultBufss
RowOf(k) == ((k - 1) % maxNumRows) + 1

(* How far the current array is from the oldest. *)
LEMMA Ahead ==
    ASSUME TypeOK
    PROVE  /\ BufsAhead(m_currentResultBufsIdx) \in BufIdx /\ QueueLen \in Nat
           /\ \A i : BufsAhead(i) = Distance(m_oldestResultBufsIdx, i)
           /\ BufsAhead(m_currentResultBufsIdx) \in Nat /\ m_currentResultBufsLen \in Nat
<1>1. \A i : BufsAhead(i) = Distance(m_oldestResultBufsIdx, i)
  BY DEF BufsAhead, Distance
<1>2. BufsAhead(m_currentResultBufsIdx) \in BufIdx
  BY <1>1, DistanceIs DEF TypeOK
<1>3. QED
  BY <1>1, <1>2, RingSize DEF TypeOK, BufIdx, QueueLen

(* The cell of a queued row is one, and tells which row it is. *)
LEMMA CellOf ==
    ASSUME TypeOK, NEW k \in 1..QueueLen
    PROVE  /\ BufOf(k) \in BufIdx /\ RowOf(k) \in Rows
           /\ BufsAhead(BufOf(k)) = (k - 1) \div maxNumRows
           /\ k = BufsAhead(BufOf(k)) * maxNumRows + RowOf(k)
           /\ Queued(BufOf(k), RowOf(k))
<1> DEFINE a == BufsAhead(m_currentResultBufsIdx)
           q == (k - 1) \div maxNumRows
           x == (k - 1) % maxNumRows
<1>0. /\ maxNumRows \in Nat /\ maxNumRows >= 1 /\ numResultBufss \in Nat
      /\ a \in Nat /\ a \in BufIdx /\ m_currentResultBufsLen \in Nat
      /\ m_currentResultBufsLen < maxNumRows
      /\ k - 1 \in Nat /\ k - 1 < a * maxNumRows + m_currentResultBufsLen
      /\ m_oldestResultBufsIdx \in BufIdx /\ m_currentResultBufsIdx \in BufIdx
  BY Ahead, RingSize DEF TypeOK, QueueLen
<1>1. q \in Nat /\ x \in Nat /\ x < maxNumRows /\ k - 1 = q * maxNumRows + x
  BY <1>0, DivMod
<1> HIDE DEF a, q, x
<1>2. q <= a
  <2>1. q * maxNumRows < (a + 1) * maxNumRows
    BY <1>0, <1>1
  <2>2. QED
    BY <1>0, <1>1, <2>1
<1>3. q \in BufIdx
  BY <1>0, <1>1, <1>2 DEF BufIdx
<1>4. /\ BufOf(k) \in BufIdx /\ Distance(m_oldestResultBufsIdx, BufOf(k)) = q
  BY <1>0, <1>3, ArrayAt DEF BufOf, q
<1>5. RowOf(k) = x + 1 /\ RowOf(k) \in Rows
  BY <1>0, <1>1 DEF RowOf, Rows, x
<1>6. BufsAhead(BufOf(k)) = q
  BY <1>4, Ahead
<1>7. Queued(BufOf(k), RowOf(k))
  <2>1. CASE q < a
    BY <1>6, <2>1 DEF Queued, a
  <2>2. CASE q = a
    <3>1. BufOf(k) = m_currentResultBufsIdx
      BY <1>0, <1>4, <2>2, Ahead, DistanceInjective DEF a
    <3>2. x + 1 <= m_currentResultBufsLen
      BY <1>0, <1>1, <2>2
    <3>3. QED
      BY <1>5, <3>1, <3>2 DEF Queued
  <2>3. QED
    BY <1>0, <1>1, <1>2, <2>1, <2>2
<1>8. QED
  BY <1>0, <1>1, <1>4, <1>5, <1>6, <1>7 DEF q

(* The queue holds each client once, so that the ring never fills up. *)
LEMMA QueueFits ==
    ASSUME IInv
    PROVE  /\ \A k \in 1..QueueLen : m_resultBufss[BufOf(k)][RowOf(k)] \in Clients
           /\ BufsAhead(m_currentResultBufsIdx) < numResultBufss - 2
<1>0. TypeOK
  BY DEF IInv
<1>1. ASSUME NEW k \in 1..QueueLen
      PROVE  m_resultBufss[BufOf(k)][RowOf(k)] \in Clients
  BY <1>0, CellOf DEF IInv, CellsInUse, TypeOK
<1> DEFINE f == [k \in 1..QueueLen |-> m_resultBufss[BufOf(k)][RowOf(k)]]
<1>2. ASSUME NEW k \in 1..QueueLen, NEW l \in 1..QueueLen, f[k] = f[l]
      PROVE  k = l
  <2>1. /\ BufOf(k) \in BufIdx /\ RowOf(k) \in Rows /\ BufOf(l) \in BufIdx /\ RowOf(l) \in Rows
        /\ k = BufsAhead(BufOf(k)) * maxNumRows + RowOf(k)
        /\ l = BufsAhead(BufOf(l)) * maxNumRows + RowOf(l)
        /\ Queued(BufOf(k), RowOf(k))
    BY <1>0, CellOf
  <2>2. m_resultBufss[BufOf(k)][RowOf(k)] # NULL
    BY <2>1 DEF IInv, CellsInUse
  <2>3. BufOf(k) = BufOf(l) /\ RowOf(k) = RowOf(l)
    BY <1>2, <2>1, <2>2 DEF IInv, CellsDiffer
  <2>4. QED
    BY <2>1, <2>3
<1>3. f \in Injection(1..QueueLen, Clients)
  <2>1. f \in [1..QueueLen -> Clients]
    BY <1>1
  <2> HIDE DEF f
  <2>2. QED
    BY <1>2, <2>1 DEF Injection, IsInjective
<1>4. QueueLen <= maxConcurrentEvals
  <2>1. QueueLen \in Nat
    BY <1>0, Ahead
  <2>2. Cardinality(1..QueueLen) = QueueLen
    BY <2>1, FS_Interval
  <2>3. Cardinality(1..QueueLen) <= Cardinality(Clients)
    BY <1>3, CountsAreFinite, FS_Injection
  <2>4. Cardinality(Clients) \in Nat /\ Cardinality(Clients) <= maxConcurrentEvals
    BY CountsAreFinite, FS_CardinalityType, EvaluatorAssumption
  <2>5. QED
    BY <2>1, <2>2, <2>3, <2>4, RingSize
<1>5. BufsAhead(m_currentResultBufsIdx) < numResultBufss - 2
  <2> DEFINE a == BufsAhead(m_currentResultBufsIdx)
  <2>1. a \in Nat /\ m_currentResultBufsLen \in Nat
    BY <1>0, Ahead
  <2>2. a * maxNumRows + m_currentResultBufsLen < (numResultBufss - 2) * maxNumRows
    BY <1>4, <2>1, RingSize DEF QueueLen
  <2> HIDE DEF a
  <2>3. a * maxNumRows < (numResultBufss - 2) * maxNumRows
    BY <2>1, <2>2, RingSize
  <2>4. a < numResultBufss - 2
    BY <2>1, <2>3, RingSize
  <2>5. QED
    BY <2>4 DEF a
<1>6. QED
  BY <1>1, <1>5
-----------------------------------------------------------------------------
(* A request goes into the first free cell of the current array. *)
LEMMA EnqueueCells ==
    ASSUME IInv, NEW c \in Clients, Enqueue(c)
    PROVE  CellsInUse' /\ CellsDiffer' /\ CellsAwait'
<1> DEFINE i0 == m_currentResultBufsIdx
           r0 == m_currentResultBufsLen + 1
           a == BufsAhead(i0)
<1>0. /\ TypeOK /\ i0 \in BufIdx /\ r0 \in Rows /\ m_currentResultBufsLen \in Nat
      /\ m_oldestResultBufsIdx \in BufIdx /\ NULL \notin Clients /\ a \in Nat
  BY RingSize, EvaluatorAssumption, Ahead DEF IInv, TypeOK, Rows
<1>1. /\ m_resultBufss[i0][r0] = NULL /\ ~Queued(i0, r0)
      /\ m_resultBufss'[i0][r0] = c
      /\ \A i \in BufIdx, r \in Rows :
            ~(i = i0 /\ r = r0) => m_resultBufss'[i][r] = m_resultBufss[i][r]
  <2>1. ~Queued(i0, r0)
    BY <1>0 DEF Queued
  <2>2. m_resultBufss' = [m_resultBufss EXCEPT ![i0][r0] = c]
    BY DEF Enqueue
  <2> HIDE DEF i0, r0
  <2>3. QED
    BY <1>0, <2>1, <2>2 DEF TypeOK, IInv, CellsInUse
<1>2. ASSUME NEW i \in BufIdx, NEW r \in Rows
      PROVE  Queued(i, r)' <=> Queued(i, r) \/ (i = i0 /\ r = r0)
  <2>1. /\ BufsAhead(i) = Distance(m_oldestResultBufsIdx, i)
        /\ BufsAhead(i)' = Distance(m_oldestResultBufsIdx, i)
        /\ a = Distance(m_oldestResultBufsIdx, i0)
        /\ Distance(m_oldestResultBufsIdx, i) \in Nat
    BY <1>0, DistanceIs DEF BufsAhead, Distance, Enqueue, BufIdx
  <2>2. CASE r0 < maxNumRows
    <3>1. m_currentResultBufsIdx' = i0 /\ m_currentResultBufsLen' = r0
      BY <1>0, <2>2, RingSize DEF Enqueue, Rows
    <3>2. BufsAhead(m_currentResultBufsIdx)' = a
      BY <3>1 DEF BufsAhead, Enqueue
    <3>3. QED
      BY <1>0, <2>1, <3>1, <3>2 DEF Queued, Rows
  <2>3. CASE r0 = maxNumRows
    <3>1. m_currentResultBufsIdx' = NextIdx(i0) /\ m_currentResultBufsLen' = 0
      BY <2>3, RingSize DEF Enqueue
    <3>2. BufsAhead(m_currentResultBufsIdx)' = Distance(m_oldestResultBufsIdx, NextIdx(i0))
      BY <3>1 DEF BufsAhead, Distance, Enqueue
    <3>3. Distance(m_oldestResultBufsIdx, NextIdx(i0)) = a + 1
      <4>1. a < numResultBufss - 2
        BY QueueFits
      <4>2. QED
        BY <1>0, <2>1, <4>1, RingSize, DistanceOfNext
    <3>4. Queued(i, r)' <=> BufsAhead(i) < a + 1
      BY <1>0, <2>1, <3>1, <3>2, <3>3 DEF Queued, Rows
    <3>5. BufsAhead(i) = a <=> i = i0
      BY <1>0, <2>1, DistanceInjective
    <3>6. QED
      BY <1>0, <2>1, <2>3, <3>4, <3>5, RingSize DEF Queued, Rows
  <2>4. QED
    BY <1>0, <2>2, <2>3, RingSize DEF Rows
<1>3. ~Held(c)
  BY <1>0 DEF IInv, CellsAwait, Awaiting, Enqueue
<1>4. resultBufs' = resultBufs /\ \A s \in Servers, r \in Rows : Unserved(s, r)' <=> Unserved(s, r)
  BY DEF Enqueue, servers, Unserved
<1> HIDE DEF i0, r0, a
<1>5. CellsInUse'
  BY <1>0, <1>1, <1>2, <1>4 DEF IInv, CellsInUse
<1>6. CellsDiffer'
  BY <1>0, <1>1, <1>3, <1>4 DEF IInv, CellsDiffer, Held
<1>7. CellsAwait'
  <2>1. ASSUME NEW d \in Clients PROVE Held(d)' <=> Held(d) \/ d = c
    BY <1>0, <1>1, <1>4, <2>1 DEF Held
  <2>2. ASSUME NEW d \in Clients PROVE Awaiting(d)' <=> Awaiting(d) \/ d = c
    BY <1>0 DEF IInv, CellsAwait, Awaiting, Enqueue, TypeOK
  <2>3. QED
    BY <1>0, <2>1, <2>2 DEF IInv, CellsAwait, Enqueue, TypeOK
<1>8. QED
  BY <1>5, <1>6, <1>7

(* The oldest array changes hands with the empty one of the server thread. *)
LEMMA TakeBatchCells ==
    ASSUME IInv, NEW s \in Servers, TakeBatch(s)
    PROVE  /\ CellsInUse' /\ CellsDiffer' /\ CellsAwait'
           /\ \A r \in Rows : resultBufs[s][r] = NULL
           /\ \A i \in BufIdx, r \in Rows :
                 /\ m_resultBufss'[i][r] = IF i = m_oldestResultBufsIdx THEN NULL
                                           ELSE m_resultBufss[i][r]
                 /\ resultBufs'[s][r] = m_resultBufss[m_oldestResultBufsIdx][r]
<1> DEFINE o == m_oldestResultBufsIdx
           cur == m_currentResultBufsIdx
           len == m_currentResultBufsLen
<1>0. /\ TypeOK /\ o \in BufIdx /\ cur \in BufIdx /\ len \in Nat /\ len < maxNumRows
      /\ NULL \notin Clients /\ NextIdx(o) \in BufIdx
      /\ CellsInUse /\ CellsDiffer /\ CellsAwait
  BY RingSize, EvaluatorAssumption, NextIdxIs DEF IInv, TypeOK
<1>1. \A r \in Rows : resultBufs[s][r] = NULL
  BY <1>0 DEF CellsInUse, Unserved, TakeBatch, Looks, Finished, Rows, TypeOK
<1>2. /\ \A i \in BufIdx, r \in Rows :
            m_resultBufss'[i][r] = IF i = o THEN NULL ELSE m_resultBufss[i][r]
      /\ \A r \in Rows : resultBufs'[s][r] = m_resultBufss[o][r]
      /\ \A t \in Servers : t # s => resultBufs'[t] = resultBufs[t]
  BY <1>0, <1>1 DEF TakeBatch, TypeOK
<1>3. ASSUME NEW i \in BufIdx, NEW r \in Rows PROVE Queued(i, r)' <=> Queued(i, r) /\ i # o
  <2>1. /\ BufsAhead(i) = Distance(o, i) /\ BufsAhead(i)' = Distance(NextIdx(o), i)
        /\ BufsAhead(cur) = Distance(o, cur)
        /\ Distance(o, i) \in Nat /\ Distance(o, cur) \in Nat
        /\ Distance(o, i) < numResultBufss /\ Distance(o, cur) < numResultBufss
    BY <1>0, DistanceIs, RingSize DEF BufsAhead, Distance, TakeBatch, AdvanceOldest, BufIdx
  <2>2. CASE cur = o
    <3>1. /\ m_currentResultBufsIdx' = m_oldestResultBufsIdx' /\ m_currentResultBufsLen' = 0
          /\ m_oldestResultBufsIdx' = NextIdx(o)
      BY <2>2 DEF TakeBatch, AdvanceOldest
    <3>2. BufsAhead(m_currentResultBufsIdx)' = 0 /\ BufsAhead(i)' \in Nat
      <4>1. BufsAhead(m_currentResultBufsIdx)' = Distance(NextIdx(o), NextIdx(o))
        BY <3>1 DEF BufsAhead, Distance
      <4>2. Distance(NextIdx(o), i) \in Nat
        <5>1. Distance(NextIdx(o), i) \in BufIdx
          BY <1>0, DistanceIs
        <5>2. QED
          BY <5>1, RingSize DEF BufIdx
      <4>3. QED
        BY <1>0, <2>1, <4>1, <4>2, DistanceInjective
    <3>3. ~Queued(i, r)'
      BY <3>1, <3>2 DEF Queued, Rows
    <3>4. BufsAhead(cur) = 0
      BY <1>0, <2>1, <2>2, DistanceInjective
    <3>5. QED
      BY <2>1, <2>2, <3>3, <3>4 DEF Queued
  <2>3. CASE cur # o
    <3>1. /\ m_currentResultBufsIdx' = cur /\ m_currentResultBufsLen' = len
          /\ m_oldestResultBufsIdx' = NextIdx(o)
      BY <2>3 DEF TakeBatch, AdvanceOldest
    <3>2. BufsAhead(m_currentResultBufsIdx)' = Distance(NextIdx(o), cur)
      BY <3>1 DEF BufsAhead, Distance
    <3>3. Distance(NextIdx(o), cur) = Distance(o, cur) - 1
      BY <1>0, <2>3, DistanceOfNext
    <3>4. CASE i # o
      <4>1. Distance(NextIdx(o), i) = Distance(o, i) - 1
        BY <1>0, <3>4, DistanceOfNext
      <4>2. QED
        BY <2>1, <3>1, <3>2, <3>3, <3>4, <4>1 DEF Queued
    <3>5. CASE i = o
      <4>1. Distance(NextIdx(o), i) = numResultBufss - 1
        BY <1>0, <3>5, DistanceOfNext
      <4>2. QED
        BY <2>1, <2>3, <3>1, <3>2, <3>3, <3>5, <4>1, RingSize DEF Queued
    <3>6. QED
      BY <3>4, <3>5
  <2>4. QED
    BY <2>2, <2>3
<1>4. ASSUME NEW r \in Rows PROVE Unserved(s, r)' <=> Queued(o, r)
  <2>1. serverPc'[s] = "serving" /\ row'[s] = 1
    BY <1>0 DEF TakeBatch, TypeOK
  <2>2. numRows'[s] = IF cur = o THEN len ELSE maxNumRows
    BY <1>0 DEF TakeBatch, TypeOK
  <2>3. /\ BufsAhead(o) = 0 /\ BufsAhead(cur) \in Nat /\ (BufsAhead(cur) = 0 <=> cur = o)
    BY <1>0, Ahead, DistanceInjective
  <2>4. QED
    BY <1>0, <2>1, <2>2, <2>3, RingSize DEF Unserved, Queued, Rows
<1>5. ASSUME NEW t \in Servers, t # s, NEW r \in Rows PROVE Unserved(t, r)' <=> Unserved(t, r)
  BY <1>0, <1>5 DEF Unserved, TakeBatch, TypeOK
<1>6. \A d \in Clients : Awaiting(d)' <=> Awaiting(d)
  BY DEF Awaiting, TakeBatch, clients
<1> HIDE DEF o, cur, len
<1>7. CellsInUse'
  <2>1. ASSUME NEW t \in Servers, NEW r \in Rows
        PROVE  (resultBufs'[t][r] # NULL) <=> Unserved(t, r)'
    <3>1. CASE t = s
      BY <1>0, <1>2, <1>4, <3>1 DEF CellsInUse
    <3>2. CASE t # s
      BY <1>0, <1>2, <1>5, <3>2 DEF CellsInUse
    <3>3. QED
      BY <3>1, <3>2
  <2>2. QED
    BY <1>0, <1>2, <1>3, <2>1 DEF CellsInUse
<1>8. CellsDiffer'
  <2>1. ASSUME NEW i \in BufIdx, NEW j \in BufIdx, NEW r \in Rows, NEW q \in Rows,
               m_resultBufss'[i][r] # NULL, m_resultBufss'[i][r] = m_resultBufss'[j][q]
        PROVE  i = j /\ r = q
    BY <1>0, <1>2, <2>1 DEF CellsDiffer
  <2>2. ASSUME NEW t \in Servers, NEW u \in Servers, NEW r \in Rows, NEW q \in Rows,
               resultBufs'[t][r] # NULL, resultBufs'[t][r] = resultBufs'[u][q]
        PROVE  t = u /\ r = q
    <3>1. CASE t = s /\ u = s
      BY <1>0, <1>2, <2>2, <3>1 DEF CellsDiffer
    <3>2. CASE t = s /\ u # s
      BY <1>0, <1>2, <2>2, <3>2 DEF CellsDiffer
    <3>3. CASE t # s /\ u = s
      BY <1>0, <1>2, <2>2, <3>3 DEF CellsDiffer
    <3>4. CASE t # s /\ u # s
      BY <1>0, <1>2, <2>2, <3>4 DEF CellsDiffer
    <3>5. QED
      BY <3>1, <3>2, <3>3, <3>4
  <2>3. ASSUME NEW i \in BufIdx, NEW t \in Servers, NEW r \in Rows, NEW q \in Rows,
               m_resultBufss'[i][r] # NULL
        PROVE  m_resultBufss'[i][r] # resultBufs'[t][q]
    <3>1. i # o /\ m_resultBufss'[i][r] = m_resultBufss[i][r]
      BY <1>2, <2>3
    <3>2. CASE t = s
      BY <1>0, <1>2, <2>3, <3>1, <3>2 DEF CellsDiffer
    <3>3. CASE t # s
      BY <1>0, <1>2, <2>3, <3>1, <3>3 DEF CellsDiffer
    <3>4. QED
      BY <3>2, <3>3
  <2>4. QED
    BY <2>1, <2>2, <2>3 DEF CellsDiffer
<1>9. CellsAwait'
  <2>1. ASSUME NEW d \in Clients, Held(d) PROVE Held(d)'
    <3>1. CASE \E i \in BufIdx, r \in Rows : m_resultBufss[i][r] = d
      <4>1. PICK i \in BufIdx, r \in Rows : m_resultBufss[i][r] = d
        BY <3>1
      <4>2. CASE i = o
        BY <1>2, <4>1, <4>2 DEF Held
      <4>3. CASE i # o
        BY <1>2, <4>1, <4>3 DEF Held
      <4>4. QED
        BY <4>2, <4>3
    <3>2. CASE \E t \in Servers, r \in Rows : resultBufs[t][r] = d
      <4>1. PICK t \in Servers, r \in Rows : resultBufs[t][r] = d
        BY <3>2
      <4>2. t # s
        BY <1>0, <1>1, <4>1
      <4>3. QED
        BY <1>2, <4>1, <4>2 DEF Held
    <3>3. QED
      BY <2>1, <3>1, <3>2 DEF Held
  <2>2. ASSUME NEW d \in Clients, Held(d)' PROVE Held(d)
    <3>1. CASE \E i \in BufIdx, r \in Rows : m_resultBufss'[i][r] = d
      BY <1>0, <1>2, <3>1 DEF Held
    <3>2. CASE \E t \in Servers, r \in Rows : resultBufs'[t][r] = d
      <4>1. PICK t \in Servers, r \in Rows : resultBufs'[t][r] = d
        BY <3>2
      <4>2. CASE t = s
        BY <1>0, <1>2, <4>1, <4>2 DEF Held
      <4>3. CASE t # s
        BY <1>2, <4>1, <4>3 DEF Held
      <4>4. QED
        BY <4>2, <4>3
    <3>3. QED
      BY <2>2, <3>1, <3>2 DEF Held
  <2>3. UNCHANGED clients
    BY DEF TakeBatch
  <2>4. QED
    BY <1>0, <1>6, <2>1, <2>2, <2>3 DEF CellsAwait, clients
<1>10. QED
  BY <1>1, <1>2, <1>7, <1>8, <1>9 DEF o

(* A result is handed out: the row leaves the server thread's array. *)
LEMMA DeliverRowCells ==
    ASSUME IInv, NEW s \in Servers, DeliverRow(s)
    PROVE  CellsInUse' /\ CellsDiffer' /\ CellsAwait'
<1> DEFINE r0 == row[s]
           c == resultBufs[s][r0]
<1>0. /\ TypeOK /\ CellsInUse /\ CellsDiffer /\ CellsAwait /\ NULL \notin Clients
      /\ r0 \in Rows /\ c \in Clients /\ c # NULL /\ Awaiting(c)
      /\ serverPc[s] = "serving" /\ numRows[s] \in Nat
  BY UnservedRow, EvaluatorAssumption, RingSize DEF IInv, DeliverRow, TypeOK, Rows
<1>1. /\ m_resultBufss' = m_resultBufss
      /\ \A t \in Servers, r \in Rows :
            resultBufs'[t][r] = IF t = s /\ r = r0 THEN NULL ELSE resultBufs[t][r]
  BY <1>0 DEF DeliverRow, TypeOK, ring
<1>2. ASSUME NEW t \in Servers, NEW r \in Rows
      PROVE  Unserved(t, r)' <=> Unserved(t, r) /\ ~(t = s /\ r = r0)
  <2>1. /\ serverPc' = serverPc /\ numRows' = numRows
        /\ row' = [row EXCEPT ![s] = r0 + 1]
    BY DEF DeliverRow
  <2> HIDE DEF r0
  <2>2. row'[s] = r0 + 1 /\ r0 = row[s] /\ (t # s => row'[t] = row[t])
    BY <1>0, <2>1 DEF TypeOK, r0
  <2>3. QED
    BY <1>0, <2>1, <2>2 DEF Unserved, Rows, TypeOK
<1>3. \A i \in BufIdx, r \in Rows : Queued(i, r)' <=> Queued(i, r)
  BY DEF Queued, BufsAhead, DeliverRow, ring
<1>4. \A d \in Clients : Awaiting(d)' <=> Awaiting(d) /\ d # c
  BY <1>0 DEF Awaiting, DeliverRow, TypeOK
<1>5. \A d \in Clients : pc[d] = "enqueue" => pc'[d] = "enqueue" /\ d # c
  BY <1>0 DEF Awaiting, DeliverRow
<1>6. \A d \in Clients : d # c => hasResult'[d] = hasResult[d]
  BY <1>0 DEF DeliverRow, TypeOK
<1>7. c = resultBufs[s][r0] /\ pc' = pc
  BY DEF DeliverRow
<1> HIDE DEF r0, c
<1>8. CellsInUse'
  BY <1>0, <1>1, <1>2, <1>3 DEF CellsInUse
<1>9. CellsDiffer'
  <2>1. ASSUME NEW t \in Servers, NEW u \in Servers, NEW r \in Rows, NEW q \in Rows,
               resultBufs'[t][r] # NULL, resultBufs'[t][r] = resultBufs'[u][q]
        PROVE  t = u /\ r = q
    <3>1. /\ resultBufs'[t][r] = resultBufs[t][r] /\ resultBufs'[u][q] = resultBufs[u][q]
      BY <1>1, <2>1
    <3>2. resultBufs[t][r] # NULL /\ resultBufs[t][r] = resultBufs[u][q]
      BY <2>1, <3>1
    <3>3. QED
      BY <1>0, <3>2 DEF CellsDiffer
  <2>2. ASSUME NEW i \in BufIdx, NEW t \in Servers, NEW r \in Rows, NEW q \in Rows,
               m_resultBufss'[i][r] # NULL
        PROVE  m_resultBufss'[i][r] # resultBufs'[t][q]
    BY <1>0, <1>1, <2>2 DEF CellsDiffer
  <2>3. QED
    BY <1>0, <1>1, <2>1, <2>2 DEF CellsDiffer
<1>10. CellsAwait'
  <2>1. ASSUME NEW d \in Clients PROVE Held(d)' <=> Held(d) /\ d # c
    <3>1. ASSUME NEW i \in BufIdx, NEW r \in Rows PROVE m_resultBufss[i][r] # c
      BY <1>0, <1>7, <3>1 DEF CellsDiffer
    <3>2. ASSUME NEW t \in Servers, NEW r \in Rows PROVE resultBufs'[t][r] # c
      BY <1>0, <1>1, <1>7, <3>2 DEF CellsDiffer
    <3>3. ASSUME Held(d)' PROVE Held(d) /\ d # c
      <4>1. CASE \E i \in BufIdx, r \in Rows : m_resultBufss'[i][r] = d
        BY <1>1, <3>1, <4>1 DEF Held
      <4>2. CASE \E t \in Servers, r \in Rows : resultBufs'[t][r] = d
        BY <1>0, <1>1, <2>1, <3>2, <4>2 DEF Held
      <4>3. QED
        BY <3>3, <4>1, <4>2 DEF Held
    <3>4. ASSUME Held(d), d # c PROVE Held(d)'
      <4>1. CASE \E i \in BufIdx, r \in Rows : m_resultBufss[i][r] = d
        BY <1>1, <4>1 DEF Held
      <4>2. CASE \E t \in Servers, r \in Rows : resultBufs[t][r] = d
        BY <1>1, <1>7, <3>4, <4>2 DEF Held
      <4>3. QED
        BY <3>4, <4>1, <4>2 DEF Held
    <3>5. QED
      BY <3>3, <3>4
  <2>2. ASSUME NEW d \in Clients, pc'[d] = "enqueue" PROVE ~hasResult'[d]
    BY <1>0, <1>5, <1>6, <1>7, <2>2 DEF CellsAwait
  <2>3. QED
    BY <1>0, <1>4, <2>1, <2>2 DEF CellsAwait
<1>11. QED
  BY <1>8, <1>9, <1>10

(* Every cell in use holds the row of one client that waits for its result. *)
LEMMA CellsStep == IInv /\ [Next]_vars => CellsInUse' /\ CellsDiffer' /\ CellsAwait'
<1> SUFFICES ASSUME IInv, [Next]_vars PROVE CellsInUse' /\ CellsDiffer' /\ CellsAwait'
  OBVIOUS
<1>0. /\ TypeOK /\ Phases /\ CellsInUse /\ CellsDiffer /\ CellsAwait
  BY DEF IInv
<1>1. ASSUME UNCHANGED <<ring, resultBufs>>,
             \A s \in Servers, r \in Rows : Unserved(s, r)' <=> Unserved(s, r),
             \A c \in Clients : Awaiting(c)' <=> Awaiting(c),
             \A c \in Clients : pc'[c] = "enqueue" => ~hasResult'[c]
      PROVE  CellsInUse' /\ CellsDiffer' /\ CellsAwait'
  <2>1. \A i \in BufIdx, r \in Rows : Queued(i, r)' <=> Queued(i, r)
    BY <1>1 DEF ring, Queued, BufsAhead
  <2>2. \A c \in Clients : Held(c)' <=> Held(c)
    BY <1>1 DEF ring, Held
  <2>3. QED
    BY <1>0, <1>1, <2>1, <2>2 DEF CellsInUse, CellsDiffer, CellsAwait, ring
<1>2. ASSUME UNCHANGED clients
      PROVE  /\ \A c \in Clients : Awaiting(c)' <=> Awaiting(c)
             /\ \A c \in Clients : pc'[c] = "enqueue" => ~hasResult'[c]
  BY <1>0, <1>2 DEF clients, Awaiting, CellsAwait
<1>3. CASE Main
  <2>1. UNCHANGED <<ring, resultBufs, clients>>
    BY <1>3 DEF Main, spawnServerThreads, WaitForSpawn, killServerThreads, NotifyKilled,
                JoinServerThreads, servers
  <2>2. \A s \in Servers, r \in Rows : Unserved(s, r)' <=> Unserved(s, r)
    <3>1. CASE spawnServerThreads
      BY <1>0, <3>1 DEF spawnServerThreads, Unserved, Phases
    <3>2. CASE ~spawnServerThreads
      BY <1>3, <3>2 DEF Main, WaitForSpawn, killServerThreads, NotifyKilled, JoinServerThreads,
                        servers, Unserved
    <3>3. QED
      BY <3>1, <3>2
  <2>3. QED
    BY <1>1, <1>2, <2>1, <2>2
<1>4. ASSUME NEW s \in Servers, StartUp(s) \/ WaitForBatchStart(s) \/ Exit(s)
      PROVE  CellsInUse' /\ CellsDiffer' /\ CellsAwait'
  <2>1. UNCHANGED <<ring, resultBufs, clients>>
    BY <1>4 DEF StartUp, WaitForBatchStart, Exit, Leave
  <2>2. ASSUME NEW t \in Servers, NEW r \in Rows PROVE Unserved(t, r)' <=> Unserved(t, r)
    <3>1. ~Unserved(s, r) /\ ~Unserved(s, r)'
      BY <1>0, <1>4 DEF StartUp, WaitForBatchStart, Exit, Leave, Looks, Finished, Unserved,
                        Rows, TypeOK
    <3>2. t # s => serverPc'[t] = serverPc[t] /\ row'[t] = row[t] /\ numRows'[t] = numRows[t]
      BY <1>0, <1>4 DEF StartUp, WaitForBatchStart, Exit, Leave, TypeOK
    <3>3. QED
      BY <3>1, <3>2 DEF Unserved
  <2>3. QED
    BY <1>1, <1>2, <2>1, <2>2
<1>5. ASSUME UNCHANGED servers
      PROVE  UNCHANGED resultBufs /\ \A s \in Servers, r \in Rows : Unserved(s, r)' <=> Unserved(s, r)
  BY <1>5 DEF servers, Unserved
<1>6. ASSUME NEW c \in Clients,
             \/ evaluate(c) \/ WaitForResult(c) \/ ReturnResult(c)
             \/ waitForNextNNEvalIfAny(c) \/ WakeFromWait(c)
      PROVE  CellsInUse' /\ CellsDiffer' /\ CellsAwait'
  <2>1. UNCHANGED <<ring, servers>>
    BY <1>6 DEF evaluate, WaitForResult, ReturnResult, waitForNextNNEvalIfAny, WakeFromWait,
                WaitOrReturn
  <2>2. \A d \in Clients : Awaiting(d)' <=> Awaiting(d)
    BY <1>0, <1>6 DEF evaluate, WaitForResult, ReturnResult, waitForNextNNEvalIfAny,
                      WakeFromWait, WaitOrReturn, Awaiting, TypeOK
  <2>3. \A d \in Clients : pc'[d] = "enqueue" => ~hasResult'[d]
    BY <1>0, <1>6 DEF evaluate, WaitForResult, ReturnResult, waitForNextNNEvalIfAny,
                      WakeFromWait, WaitOrReturn, CellsAwait, TypeOK
  <2>4. QED
    BY <1>1, <1>5, <2>1, <2>2, <2>3
<1>7. CASE SpuriousWakeup \/ UNCHANGED vars
  <2>1. UNCHANGED <<ring, servers, pc, hasResult>>
    BY <1>7 DEF SpuriousWakeup, vars, clients
  <2>2. QED
    BY <1>0, <1>1, <1>5, <2>1 DEF Awaiting, CellsAwait
<1>8. QED
  BY <1>3, <1>4, <1>6, <1>7, EnqueueCells, TakeBatchCells, DeliverRowCells
     DEF Next, Server, Evaluating
-----------------------------------------------------------------------------
(* The invariant holds at first. *)
LEMMA InitIInv == Init => IInv
<1> SUFFICES ASSUME Init PROVE IInv
  OBVIOUS
<1>0. Init /\ NULL \notin Clients
  BY EvaluatorAssumption
<1>1. TypeOK
  <2>1. Cardinality(Servers) \in Nat
    BY CountsAreFinite, FS_CardinalityType
  <2>2. 0 \in BufIdx /\ 0 \in 0..maxNumRows - 1
    BY RingSize DEF BufIdx
  <2>3. EmptyBufs \in [Rows -> Clients \cup {NULL}]
    BY DEF EmptyBufs
  <2>4. /\ m_resultBufss \in [BufIdx -> [Rows -> Clients \cup {NULL}]]
        /\ resultBufs \in [Servers -> [Rows -> Clients \cup {NULL}]]
    BY <1>0, <2>3 DEF Init
  <2>5. /\ pc \in [Clients -> {"idle", "enqueue", "await", "waitForNext"}]
        /\ hasResult \in [Clients -> BOOLEAN]
        /\ serverPc \in [Servers -> {"dead", "starting", "looking", "serving"}]
    BY <1>0 DEF Init
  <2>6. numRows \in [Servers -> 0..maxNumRows] /\ row \in [Servers -> 0..maxNumRows + 1]
    BY <1>0, RingSize DEF Init
  <2>7. numServerThreadsStartingUp \in 0..Cardinality(Servers)
    BY <1>0, <2>1 DEF Init
  <2>8. /\ isKilled \in BOOLEAN /\ mainThreadWaitingForSpawn \in BOOLEAN
        /\ mainPc \in {"down", "spawning", "up", "killing", "joining"}
    BY <1>0 DEF Init
  <2>9. /\ numOngoingEvals \in Nat /\ numWaitingEvals \in Nat /\ numEvalsToAwaken \in Nat
        /\ m_currentResultBufsLen \in 0..maxNumRows - 1
        /\ m_currentResultBufsIdx \in BufIdx /\ m_oldestResultBufsIdx \in BufIdx
    BY <1>0, <2>2 DEF Init
  <2>10. /\ serverWaitingForBatchStart \subseteq {s \in Servers : serverPc[s] = "looking"}
         /\ waitingForFinish \subseteq {c \in Clients : pc[c] = "waitForNext"}
         /\ clientWaitingForResult \subseteq {c \in Clients : pc[c] = "await"}
    BY <1>0 DEF Init
  <2>11. QED
    BY <2>4, <2>5, <2>6, <2>7, <2>8, <2>9, <2>10 DEF TypeOK
<1>2. Phases /\ ServesARow
  BY <1>0 DEF Init, Phases, ServesARow
<1>3. StartsAreCounted
  <2>1. StartingThreads = {}
    BY <1>0 DEF Init, StartingThreads
  <2>2. QED
    BY <1>0, <2>1, FS_EmptySet DEF Init, StartsAreCounted
<1>4. WaitersAreCounted
  <2>1. ServingThreads = {} /\ Waiters = {} /\ Waiters \ waitingForFinish = {}
    BY <1>0 DEF Init, ServingThreads, Waiters
  <2>2. /\ Count(Servers, serverPc, "serving") = 0 /\ Count(Clients, pc, "waitForNext") = 0
        /\ Cardinality(Waiters \ waitingForFinish) = 0
    BY <2>1, FS_EmptySet DEF Count, ServingThreads, Waiters
  <2>3. QED
    BY <1>0, <2>2, CountersAre DEF Init
<1>5. RowsAreAttendedTo
  BY <1>0 DEF Init, RowsAreAttendedTo, NothingQueued
<1>6. /\ \A i \in BufIdx, r \in Rows : m_resultBufss[i][r] = NULL
      /\ \A s \in Servers, r \in Rows : resultBufs[s][r] = NULL
  BY <1>0 DEF Init, EmptyBufs
<1>7. \A i \in BufIdx, r \in Rows : ~Queued(i, r)
  <2>1. BufsAhead(m_currentResultBufsIdx) = 0
    <3>1. Distance(m_oldestResultBufsIdx, m_oldestResultBufsIdx) = 0
      BY <1>1, DistanceInjective DEF TypeOK
    <3>2. QED
      BY <1>0, <3>1 DEF BufsAhead, Distance, Init
  <2>2. ASSUME NEW i \in BufIdx PROVE BufsAhead(i) \in Nat
    <3>1. BufsAhead(i) \in BufIdx
      BY <1>1, Ahead, DistanceIs DEF TypeOK
    <3>2. QED
      BY <3>1, RingSize DEF BufIdx
  <2>3. QED
    BY <1>0, <2>1, <2>2 DEF Init, Queued, Rows
<1>8. CellsInUse
  BY <1>0, <1>6, <1>7 DEF CellsInUse, Unserved, Init
<1>9. CellsDiffer
  BY <1>6 DEF CellsDiffer
<1>10. CellsAwait
  BY <1>0, <1>6 DEF CellsAwait, Held, Awaiting, Init
<1>11. QED
  BY <1>1, <1>2, <1>3, <1>4, <1>5, <1>8, <1>9, <1>10 DEF IInv

(* The invariant is inductive. *)
THEOREM Inductive == Spec => []IInv
<1>1. Init => IInv
  BY InitIInv
<1>2. IInv /\ [Next]_vars => IInv'
  BY PhasesStep, TypeStep, CountersStep, AttendedStep, CellsStep DEF IInv
<1>3. QED
  BY <1>1, <1>2, PTL DEF Spec
-----------------------------------------------------------------------------
(* Where a client's row is, counted. *)
LEMMA HeldCells ==
    ASSUME IInv, NEW c \in Clients
    PROVE  Cardinality(Holding(c)) + Cardinality(Serving(c)) = IF Awaiting(c) THEN 1 ELSE 0
<1>0. /\ CellsInUse /\ CellsDiffer /\ (Held(c) <=> Awaiting(c)) /\ c # NULL
  BY EvaluatorAssumption DEF IInv, CellsAwait
<1>e. Cardinality({}) = 0
  BY FS_EmptySet
<1>1. CASE ~Awaiting(c)
  <2>1. Holding(c) = {} /\ Serving(c) = {}
    BY <1>0, <1>1 DEF Held, Holding, Serving
  <2>2. QED
    BY <1>1, <1>e, <2>1
<1>2. CASE \E i \in BufIdx, r \in Rows : m_resultBufss[i][r] = c
  <2>1. PICK i \in BufIdx, r \in Rows : m_resultBufss[i][r] = c
    BY <1>2
  <2>2. Holding(c) = {<<i, r>>}
    <3>1. <<i, r>> \in Holding(c)
      BY <2>1 DEF Holding
    <3>2. ASSUME NEW p \in Holding(c) PROVE p = <<i, r>>
      <4>1. p \in BufIdx \X Rows /\ m_resultBufss[p[1]][p[2]] = c
        BY <3>2 DEF Holding
      <4>2. p[1] = i /\ p[2] = r
        BY <1>0, <2>1, <4>1 DEF CellsDiffer
      <4>3. QED
        BY <4>1, <4>2
    <3>3. QED
      BY <3>1, <3>2
  <2>3. Serving(c) = {}
    BY <1>0, <2>1 DEF Serving, CellsDiffer
  <2>4. Awaiting(c)
    BY <1>0, <2>1 DEF Held
  <2>5. Cardinality({<<i, r>>}) = 1
    BY FS_Singleton
  <2>6. QED
    BY <1>e, <2>2, <2>3, <2>4, <2>5
<1>3. CASE \E s \in Servers, r \in Rows : resultBufs[s][r] = c
  <2>1. PICK s \in Servers, r \in Rows : resultBufs[s][r] = c
    BY <1>3
  <2>2. Serving(c) = {<<s, r>>}
    <3>1. <<s, r>> \in Serving(c)
      BY <2>1 DEF Serving
    <3>2. ASSUME NEW p \in Serving(c) PROVE p = <<s, r>>
      <4>1. p \in Servers \X Rows /\ resultBufs[p[1]][p[2]] = c
        BY <3>2 DEF Serving
      <4>2. p[1] = s /\ p[2] = r
        BY <1>0, <2>1, <4>1 DEF CellsDiffer
      <4>3. QED
        BY <4>1, <4>2
    <3>3. QED
      BY <3>1, <3>2
  <2>3. Holding(c) = {}
    BY <1>0, <2>1 DEF Holding, CellsDiffer
  <2>4. Awaiting(c)
    BY <1>0, <2>1 DEF Held
  <2>5. Cardinality({<<s, r>>}) = 1
    BY FS_Singleton
  <2>6. QED
    BY <1>e, <2>2, <2>3, <2>4, <2>5
<1>4. QED
  BY <1>0, <1>1, <1>2, <1>3 DEF Held

(* The cells of the ring in use are those from the oldest array to the     *)
(* current one, and a client that waits for a result has its row in        *)
(* exactly one cell, of the ring or of a server thread.                    *)
THEOREM EvaluatorHoldsRowsOnce == Spec => []RowsAreHeldOnce
<1>1. IInv => RowsAreHeldOnce
  BY HeldCells DEF RowsAreHeldOnce, CellsInUse, IInv
<1>2. QED
  BY <1>1, Inductive, PTL

(* Nobody sleeps, client or server thread, with nobody left to wake him.   *)
THEOREM EvaluatorLosesNoWakeup == Spec => []SleepersAreAttendedTo
<1>1. IInv => SleepersAreAttendedTo
  BY DEF IInv, SleepersAreAttendedTo
<1>2. QED
  BY <1>1, Inductive, PTL

(* The assertions at the end of killServerThreads: once the server threads *)
(* are joined the counters are zero, nothing is queued and nobody waits.   *)
THEOREM EvaluatorEndsClean == Spec => []KillLeavesNothing
<1>1. ASSUME IInv, mainPc = "down"
      PROVE  /\ numOngoingEvals = 0 /\ numWaitingEvals = 0 /\ numEvalsToAwaken = 0
             /\ NothingQueued /\ serverWaitingForBatchStart = {}
  <2>1. /\ \A c \in Clients : pc[c] = "idle"
        /\ \A s \in Servers : serverPc[s] = "dead"
    BY <1>1 DEF IInv, Phases
  <2>2. NothingQueued
    BY <1>1, <2>1, IdleIsEmpty
  <2>3. Count(Servers, serverPc, "serving") = 0 /\ Count(Clients, pc, "waitForNext") = 0
    <3>1. {s \in Servers : serverPc[s] = "serving"} = {} /\ {c \in Clients : pc[c] = "waitForNext"} = {}
      BY <2>1
    <3>2. QED
      BY <3>1, FS_EmptySet DEF Count
  <2>4. QED
    BY <1>1, <2>1, <2>2, <2>3, CountersAre DEF IInv, TypeOK
<1>2. IInv => KillLeavesNothing
  BY <1>1 DEF KillLeavesNothing
<1>3. QED
  BY <1>2, Inductive, PTL
-----------------------------------------------------------------------------
(* The refinement.  The clients with an answer to fetch. *)
Answered == {c \in Clients : pc[c] = "await" /\ hasResult[c]}

(* The queue is the sequence of the rows in its cells, ... *)
LEMMA QueueIs ==
    ASSUME IInv
    PROVE  /\ QueueLen \in Nat
           /\ Queue = [k \in 1..QueueLen |-> m_resultBufss[BufOf(k)][RowOf(k)]]
           /\ Queue \in Seq(Clients) /\ Len(Queue) = QueueLen
           /\ \A k \in 1..QueueLen : Awaiting(Queue[k])
<1>1. QueueLen \in Nat
  BY Ahead DEF IInv
<1>2. Queue = [k \in 1..QueueLen |-> m_resultBufss[BufOf(k)][RowOf(k)]]
  BY DEF Queue, QueueLen, BufOf, RowOf
<1>3. \A k \in 1..QueueLen : m_resultBufss[BufOf(k)][RowOf(k)] \in Clients
  BY QueueFits
<1>4. Queue \in Seq(Clients) /\ Len(Queue) = QueueLen
  BY <1>1, <1>2, <1>3
<1>5. ASSUME NEW k \in 1..QueueLen PROVE Awaiting(Queue[k])
  <2>1. /\ Queue[k] = m_resultBufss[BufOf(k)][RowOf(k)] /\ Queue[k] \in Clients
        /\ BufOf(k) \in BufIdx /\ RowOf(k) \in Rows
    BY <1>2, <1>3, CellOf DEF IInv
  <2>2. QED
    BY <2>1 DEF IInv, CellsAwait, Held
<1>6. QED
  BY <1>1, <1>2, <1>4, <1>5

(* ... and a batch is the sequence of the rows that its server thread has  *)
(* not served.                                                             *)
LEMMA BatchIs ==
    ASSUME IInv, NEW s \in Servers
    PROVE  /\ serverPc[s] = "serving" /\ row[s] <= numRows[s] =>
                 /\ Batch[s] = [k \in 1..numRows[s] - row[s] + 1 |-> resultBufs[s][row[s] + k - 1]]
                 /\ Batch[s] \in Seq(Clients) /\ Len(Batch[s]) = numRows[s] - row[s] + 1
                 /\ \A k \in 1..Len(Batch[s]) : Awaiting(Batch[s][k])
           /\ ~(serverPc[s] = "serving" /\ row[s] <= numRows[s]) => Batch[s] = <<>>
<1>0. /\ row[s] \in Nat /\ numRows[s] \in Nat /\ numRows[s] <= maxNumRows /\ maxNumRows \in Nat
      /\ serverPc[s] = "serving" => row[s] >= 1 /\ row[s] <= numRows[s] + 1
  BY RingSize DEF IInv, TypeOK, ServesARow
<1>1. CASE serverPc[s] = "serving" /\ row[s] <= numRows[s]
  <2> DEFINE n == numRows[s] - row[s] + 1
             b == [k \in 1..n |-> resultBufs[s][row[s] + k - 1]]
  <2>0. n \in Nat
    BY <1>0, <1>1
  <2>1. Batch[s] = b
    <3>1. Batch[s] = SubSeq(resultBufs[s], row[s], numRows[s])
      BY <1>1 DEF Batch
    <3>2. SubSeq(resultBufs[s], row[s], numRows[s]) = b
      BY <1>0
    <3>3. QED
      BY <3>1, <3>2
  <2>2. ASSUME NEW k \in 1..n
        PROVE  resultBufs[s][row[s] + k - 1] \in Clients /\ Awaiting(resultBufs[s][row[s] + k - 1])
    <3> DEFINE r == row[s] + k - 1
    <3>1. r \in Rows /\ Unserved(s, r)
      BY <1>0, <1>1 DEF Rows, Unserved
    <3> HIDE DEF r
    <3>2. resultBufs[s][r] \in Clients
      BY <3>1 DEF IInv, CellsInUse, TypeOK
    <3>3. Awaiting(resultBufs[s][r])
      BY <3>1, <3>2 DEF IInv, CellsAwait, Held
    <3>4. QED
      BY <3>2, <3>3 DEF r
  <2>3. b \in Seq(Clients) /\ Len(b) = n
    BY <2>0, <2>2
  <2>4. \A k \in 1..n : Awaiting(b[k])
    BY <2>2
  <2>5. QED
    BY <1>1, <2>1, <2>3, <2>4
<1>2. CASE serverPc[s] = "serving" /\ ~(row[s] <= numRows[s])
  <2>1. Batch[s] = SubSeq(resultBufs[s], row[s], numRows[s])
    BY <1>2 DEF Batch
  <2>2. row[s] > numRows[s]
    BY <1>0, <1>2
  <2>3. SubSeq(resultBufs[s], row[s], numRows[s]) = <<>>
    BY <1>0, <2>2
  <2>4. QED
    BY <1>2, <2>1, <2>3
<1>3. CASE serverPc[s] # "serving"
  BY <1>3 DEF Batch
<1>4. QED
  BY <1>1, <1>2, <1>3

(* What is queued or in a batch is awaited, and not answered. *)
LEMMA AskingAwaits ==
    ASSUME IInv, NEW c \in Service!Asking
    PROVE  Awaiting(c)
<1>1. CASE c \in {Queue[i] : i \in 1..Len(Queue)}
  BY <1>1, QueueIs
<1>2. CASE c \in UNION {{Batch[s][i] : i \in 1..Len(Batch[s])} : s \in Servers}
  <2>1. PICK s \in Servers : c \in {Batch[s][i] : i \in 1..Len(Batch[s])}
    BY <1>2
  <2>2. PICK i \in 1..Len(Batch[s]) : c = Batch[s][i]
    BY <2>1
  <2>3. Batch[s] # <<>>
    BY <2>2
  <2>4. QED
    BY <2>2, <2>3, BatchIs
<1>3. QED
  BY <1>1, <1>2 DEF Service!Asking

(* Putting a row into the current array appends it to the queue. *)
LEMMA EnqueueAppends ==
    ASSUME IInv, IInv', NEW c \in Clients, Enqueue(c)
    PROVE  Queue' = Append(Queue, c)
<1> DEFINE a == BufsAhead(m_currentResultBufsIdx)
           len == m_currentResultBufsLen
           o == m_oldestResultBufsIdx
           cur == m_currentResultBufsIdx
<1>0. /\ TypeOK /\ a \in Nat /\ a \in BufIdx /\ len \in Nat /\ len < maxNumRows
      /\ o \in BufIdx /\ cur \in BufIdx
      /\ a = Distance(o, cur) /\ a < numResultBufss - 2
      /\ maxNumRows \in Nat /\ numResultBufss \in Nat
      /\ QueueLen = a * maxNumRows + len
  BY Ahead, QueueFits, RingSize DEF IInv, TypeOK, QueueLen
<1>1. QueueLen' = QueueLen + 1
  <2>1. CASE len + 1 < maxNumRows
    <3>1. /\ m_currentResultBufsIdx' = cur /\ m_currentResultBufsLen' = len + 1
          /\ m_oldestResultBufsIdx' = o
      BY <1>0, <2>1 DEF Enqueue
    <3>2. BufsAhead(m_currentResultBufsIdx)' = a
      BY <3>1 DEF BufsAhead
    <3>3. QueueLen' = a * maxNumRows + (len + 1)
      BY <3>1, <3>2 DEF QueueLen
    <3> HIDE DEF a
    <3>4. QED
      BY <1>0, <3>3
  <2>2. CASE len + 1 = maxNumRows
    <3>1. /\ m_currentResultBufsIdx' = NextIdx(cur) /\ m_currentResultBufsLen' = 0
          /\ m_oldestResultBufsIdx' = o
      BY <1>0, <2>2 DEF Enqueue
    <3>2. BufsAhead(m_currentResultBufsIdx)' = Distance(o, NextIdx(cur))
      BY <3>1 DEF BufsAhead, Distance
    <3>3. Distance(o, NextIdx(cur)) = a + 1
      BY <1>0, DistanceOfNext
    <3>4. QueueLen' = (a + 1) * maxNumRows + 0
      BY <3>1, <3>2, <3>3 DEF QueueLen
    <3> HIDE DEF a
    <3>5. QED
      BY <1>0, <2>2, <3>4
  <2>3. QED
    BY <1>0, <2>1, <2>2
<1>2. m_oldestResultBufsIdx' = o /\ \A k : BufOf(k)' = BufOf(k)
  BY DEF Enqueue, BufOf
<1>3. m_resultBufss' = [m_resultBufss EXCEPT ![cur][len + 1] = c]
  BY DEF Enqueue
<1>4. ASSUME NEW k \in 1..QueueLen
      PROVE  m_resultBufss'[BufOf(k)][RowOf(k)] = m_resultBufss[BufOf(k)][RowOf(k)]
  <2>1. /\ BufOf(k) \in BufIdx /\ RowOf(k) \in Rows /\ Queued(BufOf(k), RowOf(k))
    BY <1>0, CellOf
  <2>2. ~(BufOf(k) = cur /\ RowOf(k) = len + 1)
    BY <1>0, <2>1 DEF Queued
  <2> HIDE DEF cur, len
  <2>3. QED
    BY <1>0, <1>3, <2>1, <2>2 DEF TypeOK
<1>5. /\ BufOf(QueueLen + 1) = cur /\ RowOf(QueueLen + 1) = len + 1
  <2>1. (QueueLen + 1) - 1 = a * maxNumRows + len
    BY <1>0
  <2>2. ((QueueLen + 1) - 1) \div maxNumRows = a /\ ((QueueLen + 1) - 1) % maxNumRows = len
    <3> HIDE DEF a, len
    <3>1. /\ maxNumRows \in Nat /\ maxNumRows >= 1 /\ a \in Nat /\ len \in Nat
          /\ len < maxNumRows /\ (QueueLen + 1) - 1 = a * maxNumRows + len
      BY <1>0, <2>1, RingSize
    <3>2. QED
      BY <3>1, DivModUnique, Zenon
  <2>3. BufOf(QueueLen + 1) = (o + a) % numResultBufss /\ RowOf(QueueLen + 1) = len + 1
    BY <1>0, <2>2 DEF BufOf, RowOf
  <2>4. (o + a) % numResultBufss \in BufIdx /\ Distance(o, (o + a) % numResultBufss) = a
    BY <1>0, ArrayAt
  <2>5. (o + a) % numResultBufss = cur
    <3> HIDE DEF o, cur, a
    <3>1. QED
      BY <1>0, <2>4, DistanceInjective
  <2>6. QED
    BY <2>3, <2>5
<1>6. m_resultBufss'[cur][len + 1] = c
  <2>1. cur \in BufIdx /\ len + 1 \in Rows
    BY <1>0 DEF Rows
  <2> HIDE DEF cur, len
  <2>2. QED
    BY <1>0, <1>3, <2>1 DEF TypeOK
<1>7. /\ QueueLen \in Nat /\ Queue \in Seq(Clients) /\ Len(Queue) = QueueLen
      /\ Queue = [k \in 1..QueueLen |-> m_resultBufss[BufOf(k)][RowOf(k)]]
  BY QueueIs
<1>8. Queue' = [k \in 1..QueueLen + 1 |-> m_resultBufss'[BufOf(k)][RowOf(k)]]
  <2>1. /\ Queue' = [k \in 1..QueueLen' |-> m_resultBufss'[BufOf(k)'][RowOf(k)']]
        /\ \A k : RowOf(k)' = RowOf(k)
    BY DEF Queue, QueueLen, BufOf, RowOf
  <2>2. QED
    BY <1>1, <1>2, <2>1
<1> HIDE DEF a, len, o, cur
<1>9. \A k \in 1..QueueLen + 1 :
          m_resultBufss'[BufOf(k)][RowOf(k)] = IF k <= QueueLen THEN Queue[k] ELSE c
  <2>1. TAKE k \in 1..QueueLen + 1
  <2>2. CASE k <= QueueLen
    BY <1>4, <1>7, <2>2
  <2>3. CASE ~(k <= QueueLen)
    <3>1. k = QueueLen + 1
      BY <1>7, <2>3
    <3>2. QED
      BY <1>5, <1>6, <2>3, <3>1
  <2>4. QED
    BY <2>2, <2>3
<1>10. Append(Queue, c) = [k \in 1..QueueLen + 1 |-> IF k <= QueueLen THEN Queue[k] ELSE c]
  BY <1>7
<1>11. QED
  BY <1>8, <1>9, <1>10

(* Taking the oldest array takes the front of the queue. *)
LEMMA TakeTakesTheFront ==
    ASSUME IInv, IInv', NEW s \in Servers, TakeBatch(s)
    PROVE  LET n == IF Len(Queue) < maxNumRows THEN Len(Queue) ELSE maxNumRows IN
           /\ Batch[s] = <<>> /\ Queue # <<>>
           /\ Batch' = [Batch EXCEPT ![s] = SubSeq(Queue, 1, n)]
           /\ Queue' = SubSeq(Queue, n + 1, Len(Queue))
<1> DEFINE a == BufsAhead(m_currentResultBufsIdx)
           len == m_currentResultBufsLen
           o == m_oldestResultBufsIdx
           cur == m_currentResultBufsIdx
           n == IF Len(Queue) < maxNumRows THEN Len(Queue) ELSE maxNumRows
<1>0. /\ TypeOK /\ a \in Nat /\ a \in BufIdx /\ len \in Nat /\ len < maxNumRows
      /\ o \in BufIdx /\ cur \in BufIdx
      /\ a = Distance(o, cur) /\ (a = 0 <=> cur = o) /\ a < numResultBufss - 2
      /\ maxNumRows \in Nat /\ maxNumRows >= 1 /\ numResultBufss \in Nat
      /\ QueueLen = a * maxNumRows + len /\ QueueLen \in Nat
  BY Ahead, QueueFits, RingSize, DistanceInjective DEF IInv, TypeOK, QueueLen
<1>1. /\ Queue \in Seq(Clients) /\ Len(Queue) = QueueLen
      /\ Queue = [k \in 1..QueueLen |-> m_resultBufss[BufOf(k)][RowOf(k)]]
  BY QueueIs
<1>2. numRows'[s] = n /\ n \in 1..QueueLen /\ n <= maxNumRows
  <2>1. numRows'[s] = IF cur = o THEN len ELSE maxNumRows
    BY <1>0 DEF TakeBatch, TypeOK
  <2>2. ~(len <= 0 /\ cur = o)
    BY DEF TakeBatch, NothingQueued
  <2>3. CASE cur = o
    <3>1. QueueLen = len /\ len > 0
      BY <1>0, <2>2, <2>3
    <3>2. QED
      BY <1>0, <1>1, <2>1, <2>3, <3>1
  <2>4. CASE cur # o
    <3>1. a >= 1
      BY <1>0, <2>4
    <3> HIDE DEF a
    <3>2. a * maxNumRows >= maxNumRows
      BY <1>0, <3>1
    <3>3. QueueLen >= maxNumRows
      BY <1>0, <3>1, <3>2
    <3>4. QED
      BY <1>0, <1>1, <2>1, <2>4, <3>3
  <2>5. QED
    BY <2>3, <2>4
<1>3. Batch[s] = <<>> /\ Queue # <<>>
  <2>1. ~(serverPc[s] = "serving" /\ row[s] <= numRows[s])
    BY <1>0 DEF TakeBatch, Looks, Finished, TypeOK
  <2>2. Batch[s] = <<>>
    BY <2>1, BatchIs
  <2>3. Len(Queue) # 0
    BY <1>0, <1>1, <1>2
  <2>4. QED
    BY <2>2, <2>3
<1> HIDE DEF n
<1>4. Batch' = [Batch EXCEPT ![s] = SubSeq(Queue, 1, n)]
  <2>1. \A r \in Rows : resultBufs'[s][r] = m_resultBufss[o][r]
    BY <1>0, TakeBatchCells
  <2>2. serverPc'[s] = "serving" /\ row'[s] = 1 /\ resultBufs'[s] = m_resultBufss[o]
    BY <1>0 DEF TakeBatch, TypeOK
  <2>3. Batch'[s] = SubSeq(m_resultBufss[o], 1, n)
    BY <1>2, <2>2 DEF Batch
  <2>4. ASSUME NEW k \in 1..n PROVE m_resultBufss[o][k] = Queue[k]
    <3>1. k - 1 \in 0..maxNumRows - 1 /\ k \in 1..QueueLen
      BY <1>0, <1>2
    <3>2. (k - 1) \div maxNumRows = 0 /\ (k - 1) % maxNumRows = k - 1
      <4>1. /\ k - 1 \in Nat /\ k - 1 < maxNumRows /\ k - 1 = 0 * maxNumRows + (k - 1)
            /\ 0 \in Nat /\ maxNumRows \in Nat /\ maxNumRows >= 1
        BY <1>0, <3>1
      <4>2. QED
        BY <4>1, DivModUnique, Zenon
    <3>3. BufOf(k) = o
      <4>1. BufOf(k) = (o + 0) % numResultBufss
        BY <3>2 DEF BufOf
      <4>2. (o + 0) % numResultBufss = o
        BY <1>0, RingSize DEF BufIdx
      <4>3. QED
        BY <4>1, <4>2
    <3>4. RowOf(k) = k
      BY <3>1, <3>2, <1>0 DEF RowOf
    <3>5. QED
      BY <1>1, <3>1, <3>3, <3>4
  <2>5. SubSeq(m_resultBufss[o], 1, n) = SubSeq(Queue, 1, n)
    <3>1. SubSeq(m_resultBufss[o], 1, n) = [k \in 1..n |-> m_resultBufss[o][k]]
      BY <1>0, <1>2
    <3>2. SubSeq(Queue, 1, n) = [k \in 1..n |-> Queue[k]]
      BY <1>0, <1>1, <1>2
    <3>3. QED
      BY <2>4, <3>1, <3>2
  <2>6. \A t \in Servers : t # s => Batch'[t] = Batch[t]
    BY <1>0 DEF Batch, TakeBatch, TypeOK
  <2>7. DOMAIN Batch' = Servers /\ DOMAIN Batch = Servers
    BY DEF Batch
  <2>8. Batch' = [t \in Servers |-> Batch'[t]]
    BY DEF Batch
  <2>9. Batch = [t \in Servers |-> Batch[t]]
    BY DEF Batch
  <2>10. QED
    BY <2>3, <2>5, <2>6, <2>7, <2>8, <2>9
<1>5. ASSUME NEW k \in 1..QueueLen - n
      PROVE  /\ k + n \in 1..QueueLen
             /\ BufOf(k)' = BufOf(k + n) /\ RowOf(k)' = RowOf(k + n)
             /\ m_resultBufss'[BufOf(k + n)][RowOf(k + n)] = Queue[k + n]
  <2>1. n = maxNumRows /\ cur # o /\ k + n \in 1..QueueLen
    <3>1. n = maxNumRows
      BY <1>0, <1>1, <1>2 DEF n
    <3>2. cur # o
      BY <1>0, <1>2, <3>1
    <3>3. QED
      BY <1>0, <1>2, <3>1, <3>2
  <2> DEFINE q == (k - 1) \div maxNumRows
             x == (k - 1) % maxNumRows
  <2>2. q \in Nat /\ x \in Nat /\ x < maxNumRows /\ k - 1 = q * maxNumRows + x
    <3>1. k - 1 \in Nat
      BY <1>0, <1>2
    <3>2. QED
      BY <1>0, <3>1, DivMod
  <2> HIDE DEF q, x
  <2>3. ((k + n) - 1) \div maxNumRows = q + 1 /\ ((k + n) - 1) % maxNumRows = x
    <3>1. /\ maxNumRows \in Nat /\ maxNumRows >= 1 /\ q + 1 \in Nat /\ x \in Nat
          /\ x < maxNumRows /\ (k + n) - 1 = (q + 1) * maxNumRows + x
      BY <1>0, <2>1, <2>2
    <3>2. QED
      BY <3>1, DivModUnique, Zenon
  <2>4. RowOf(k)' = RowOf(k + n)
    <3>1. RowOf(k)' = x + 1
      BY DEF RowOf, x
    <3>2. RowOf(k + n) = (((k + n) - 1) % maxNumRows) + 1
      BY DEF RowOf
    <3>3. QED
      BY <2>3, <3>1, <3>2
  <2>5. /\ BufOf(k + n) \in BufIdx /\ RowOf(k + n) \in Rows
        /\ BufsAhead(BufOf(k + n)) = q + 1
    BY <1>0, <2>1, <2>3, CellOf
  <2>6. BufOf(k)' = BufOf(k + n)
    <3>1. m_oldestResultBufsIdx' = NextIdx(o)
      BY DEF TakeBatch, AdvanceOldest
    <3>2. BufOf(k)' = (NextIdx(o) + q) % numResultBufss
      BY <3>1 DEF BufOf, q
    <3>3. BufOf(k + n) = (o + (q + 1)) % numResultBufss
      <4>1. BufOf(k + n) = (o + (((k + n) - 1) \div maxNumRows)) % numResultBufss
        BY DEF BufOf
      <4>2. QED
        BY <2>3, <4>1
    <3>4. NextIdx(o) = IF o = numResultBufss - 1 THEN 0 ELSE o + 1
      BY <1>0, NextIdxIs
    <3> HIDE DEF o
    <3>5. q + 1 < numResultBufss
      <4>1. BufsAhead(BufOf(k + n)) = Distance(m_oldestResultBufsIdx, BufOf(k + n))
        BY <1>0, Ahead
      <4>2. Distance(m_oldestResultBufsIdx, BufOf(k + n)) \in BufIdx
        BY <1>0, <2>5, DistanceIs DEF TypeOK
      <4>3. QED
        BY <1>0, <2>2, <2>5, <4>1, <4>2 DEF BufIdx
    <3>6. (NextIdx(o) + q) % numResultBufss = (o + (q + 1)) % numResultBufss
      <4>1. o \in Nat /\ o < numResultBufss /\ q \in Nat /\ numResultBufss \in Nat
        BY <1>0, <2>2 DEF BufIdx, o
      <4>2. CASE o = numResultBufss - 1
        <5>1. (0 + q) % numResultBufss = q
          BY <3>5, <4>1
        <5>2. (o + (q + 1)) % numResultBufss = q
          <6>1. o + (q + 1) = 1 * numResultBufss + q
            BY <4>1, <4>2
          <6>2. QED
            BY <3>5, <4>1, <6>1
        <5>3. QED
          BY <3>4, <4>2, <5>1, <5>2
      <4>3. CASE o # numResultBufss - 1
        <5>1. o + 1 + q = o + (q + 1)
          BY <4>1
        <5>2. QED
          BY <3>4, <4>3, <5>1
      <4>4. QED
        BY <4>2, <4>3
    <3>7. QED
      BY <3>2, <3>3, <3>6
  <2>7. BufOf(k + n) # o
    <3>1. BufsAhead(o) = 0
      BY <1>0, Ahead, DistanceInjective
    <3>2. q + 1 # 0
      BY <2>2
    <3>3. QED
      BY <2>5, <3>1, <3>2
  <2>8. m_resultBufss'[BufOf(k + n)][RowOf(k + n)] = m_resultBufss[BufOf(k + n)][RowOf(k + n)]
    BY <2>5, <2>7, TakeBatchCells
  <2>9. QED
    BY <1>1, <2>1, <2>4, <2>6, <2>8
<1>6. QueueLen' = QueueLen - n
  <2>1. CASE cur = o
    <3>1. n = QueueLen
      BY <1>0, <1>1, <2>1 DEF n
    <3>2. /\ m_currentResultBufsIdx' = m_oldestResultBufsIdx' /\ m_currentResultBufsLen' = 0
          /\ m_oldestResultBufsIdx' = NextIdx(o)
      BY <2>1 DEF TakeBatch, AdvanceOldest
    <3>3. BufsAhead(m_currentResultBufsIdx)' = Distance(NextIdx(o), NextIdx(o))
      BY <3>2 DEF BufsAhead, Distance
    <3>4. Distance(NextIdx(o), NextIdx(o)) = 0
      BY <1>0, NextIdxIs, DistanceInjective
    <3>5. QueueLen' = 0 * maxNumRows + 0
      BY <3>2, <3>3, <3>4 DEF QueueLen
    <3>6. QED
      BY <1>0, <3>1, <3>5
  <2>2. CASE cur # o
    <3>1. /\ m_currentResultBufsIdx' = cur /\ m_currentResultBufsLen' = len
          /\ m_oldestResultBufsIdx' = NextIdx(o)
      BY <2>2 DEF TakeBatch, AdvanceOldest
    <3>2. BufsAhead(m_currentResultBufsIdx)' = Distance(NextIdx(o), cur)
      BY <3>1 DEF BufsAhead, Distance
    <3>3. Distance(NextIdx(o), cur) = a - 1
      BY <1>0, <2>2, DistanceOfNext
    <3>4. QueueLen' = (a - 1) * maxNumRows + len
      BY <3>1, <3>2, <3>3 DEF QueueLen
    <3>5. a >= 1
      BY <1>0, <2>2
    <3> HIDE DEF a
    <3>6. a * maxNumRows >= maxNumRows /\ (a - 1) * maxNumRows = a * maxNumRows - maxNumRows
      BY <1>0, <3>5
    <3>7. n = maxNumRows
      BY <1>0, <1>1, <3>6 DEF n
    <3>8. QED
      BY <1>0, <3>4, <3>6, <3>7
  <2>3. QED
    BY <2>1, <2>2
<1>7. Queue' = SubSeq(Queue, n + 1, Len(Queue))
  <2>1. Queue' = [k \in 1..QueueLen' |-> m_resultBufss'[BufOf(k)'][RowOf(k)']]
    BY DEF Queue, QueueLen, BufOf, RowOf
  <2>2. SubSeq(Queue, n + 1, Len(Queue)) = [k \in 1..QueueLen - n |-> Queue[k + n]]
    BY <1>0, <1>1, <1>2
  <2>3. QED
    BY <1>5, <1>6, <2>1, <2>2
<1>8. QED
  BY <1>3, <1>4, <1>7 DEF n

(* Handing out a result takes the first row off the batch. *)
LEMMA DeliverAnswersFirst ==
    ASSUME IInv, NEW s \in Servers, DeliverRow(s)
    PROVE  /\ Batch[s] # <<>>
           /\ Batch' = [Batch EXCEPT ![s] = Tail(Batch[s])]
           /\ Answered' = Answered \cup {Head(Batch[s])}
           /\ Queue' = Queue
<1> DEFINE c == resultBufs[s][row[s]]
           n == numRows[s] - row[s] + 1
<1>0. /\ TypeOK /\ serverPc[s] = "serving" /\ row[s] <= numRows[s]
      /\ row[s] \in Rows /\ c \in Clients /\ Awaiting(c)
      /\ row[s] \in Nat /\ row[s] >= 1 /\ numRows[s] \in Nat /\ n \in Nat /\ n >= 1
      /\ numRows[s] <= maxNumRows /\ maxNumRows \in Nat
  <2>1. /\ TypeOK /\ serverPc[s] = "serving" /\ row[s] <= numRows[s]
        /\ row[s] \in Rows /\ c \in Clients /\ Awaiting(c)
    BY UnservedRow DEF IInv, DeliverRow
  <2>2. numRows[s] \in 0..maxNumRows /\ maxNumRows \in Nat
    BY <2>1, RingSize DEF TypeOK
  <2>3. QED
    BY <2>1, <2>2 DEF Rows
<1>1. /\ Batch[s] = [k \in 1..n |-> resultBufs[s][row[s] + k - 1]]
      /\ Batch[s] \in Seq(Clients) /\ Len(Batch[s]) = n
  BY <1>0, BatchIs
<1>2. Batch[s] # <<>> /\ Head(Batch[s]) = c
  <2>1. Head(Batch[s]) = Batch[s][1] /\ Batch[s] # <<>>
    BY <1>0, <1>1
  <2>2. Batch[s][1] = resultBufs[s][row[s] + 1 - 1] /\ row[s] + 1 - 1 = row[s]
    BY <1>0, <1>1
  <2>3. QED
    BY <2>1, <2>2
<1>3. Batch'[s] = Tail(Batch[s])
  <2>1. /\ serverPc'[s] = "serving" /\ numRows'[s] = numRows[s] /\ row'[s] = row[s] + 1
        /\ resultBufs'[s] = [resultBufs[s] EXCEPT ![row[s]] = NULL]
    BY <1>0 DEF DeliverRow, TypeOK
  <2>2. Batch'[s] = SubSeq(resultBufs'[s], row[s] + 1, numRows[s])
    BY <2>1 DEF Batch
  <2>3. SubSeq(resultBufs'[s], row[s] + 1, numRows[s])
            = [k \in 1..n - 1 |-> resultBufs'[s][row[s] + 1 + k - 1]]
    <3>1. numRows[s] - (row[s] + 1) + 1 = n - 1
      BY <1>0
    <3> DEFINE m == row[s] + 1
    <3>2. m \in Nat /\ m >= 1 /\ m <= numRows[s] + 1 /\ numRows[s] \in Nat
      BY <1>0
    <3> HIDE DEF n, m
    <3>3. SubSeq(resultBufs'[s], m, numRows[s])
              = [k \in 1..numRows[s] - m + 1 |-> resultBufs'[s][m + k - 1]]
      BY <3>2
    <3>4. QED
      BY <3>1, <3>3 DEF m
  <2>4. Tail(Batch[s]) = [k \in 1..n - 1 |-> Batch[s][k + 1]]
    <3> HIDE DEF n
    <3>1. QED
      BY <1>0, <1>1
  <2>5. ASSUME NEW k \in 1..n - 1 PROVE resultBufs'[s][row[s] + 1 + k - 1] = Batch[s][k + 1]
    <3>1. /\ k + 1 \in 1..n /\ row[s] + (k + 1) - 1 = row[s] + 1 + k - 1
          /\ row[s] + 1 + k - 1 \in Rows /\ row[s] + 1 + k - 1 # row[s]
      BY <1>0 DEF Rows
    <3>2. Batch[s][k + 1] = resultBufs[s][row[s] + (k + 1) - 1]
      <4> HIDE DEF n
      <4>1. QED
        BY <1>1, <3>1
    <3> DEFINE r == row[s] + 1 + k - 1
    <3>3. r \in Rows /\ r # row[s] /\ Batch[s][k + 1] = resultBufs[s][r]
      BY <3>1, <3>2
    <3> HIDE DEF r
    <3>4. resultBufs'[s][r] = resultBufs[s][r]
      BY <1>0, <2>1, <3>3 DEF TypeOK
    <3>5. QED
      BY <3>3, <3>4 DEF r
  <2>6. QED
    BY <2>2, <2>3, <2>4, <2>5
<1>4. Batch' = [Batch EXCEPT ![s] = Tail(Batch[s])]
  <2>1. \A t \in Servers : t # s => Batch'[t] = Batch[t]
    BY <1>0 DEF Batch, DeliverRow, TypeOK
  <2>2. Batch' = [t \in Servers |-> Batch'[t]] /\ Batch = [t \in Servers |-> Batch[t]]
    BY DEF Batch
  <2>3. QED
    BY <1>3, <2>1, <2>2
<1>5. Answered' = Answered \cup {c}
  BY <1>0 DEF Answered, Awaiting, DeliverRow, TypeOK
<1>6. Queue' = Queue
  BY DEF Queue, BufsAhead, DeliverRow, ring
<1>7. QED
  BY <1>2, <1>4, <1>5, <1>6

(* Every step is a step of the service, or none. *)
LEMMA StepServes == IInv /\ IInv' /\ [Next]_vars => [Service!Next]_(Service!vars)
<1> SUFFICES ASSUME IInv, IInv', [Next]_vars PROVE [Service!Next]_(Service!vars)
  OBVIOUS
<1>0. TypeOK /\ Phases
  BY DEF IInv
<1>a. ASSUME Queue' = Queue, Batch' = Batch, Answered' = Answered
      PROVE  [Service!Next]_(Service!vars)
  BY <1>a DEF Service!vars, Answered
<1>b. UNCHANGED ring => Queue' = Queue
  BY DEF ring, Queue, BufsAhead
<1>c. UNCHANGED <<serverPc, resultBufs, row, numRows>> => Batch' = Batch
  BY DEF Batch
<1>d. UNCHANGED <<pc, hasResult>> => Answered' = Answered
  BY DEF Answered
<1>1. CASE Main
  <2>1. UNCHANGED <<ring, pc, hasResult>>
    BY <1>1 DEF Main, spawnServerThreads, WaitForSpawn, killServerThreads, NotifyKilled,
                JoinServerThreads, clients
  <2>2. Batch' = Batch
    <3>1. CASE spawnServerThreads
      BY <1>0, <3>1 DEF spawnServerThreads, Phases, Batch
    <3>2. CASE ~spawnServerThreads
      BY <1>1, <1>c, <3>2 DEF Main, WaitForSpawn, killServerThreads, NotifyKilled,
                              JoinServerThreads, servers
    <3>3. QED
      BY <3>1, <3>2
  <2>3. QED
    BY <1>a, <1>b, <1>d, <2>1, <2>2
<1>2. ASSUME NEW s \in Servers, StartUp(s) \/ WaitForBatchStart(s) \/ Exit(s)
      PROVE  [Service!Next]_(Service!vars)
  <2>1. UNCHANGED <<ring, pc, hasResult>>
    BY <1>2 DEF StartUp, WaitForBatchStart, Exit, Leave, clients
  <2>2. Batch[s] = <<>> /\ Batch'[s] = <<>>
    <3>1. ~(serverPc[s] = "serving" /\ row[s] <= numRows[s])
      BY <1>0, <1>2 DEF StartUp, WaitForBatchStart, Exit, Looks, Finished, TypeOK
    <3>2. serverPc'[s] # "serving"
      BY <1>0, <1>2 DEF StartUp, WaitForBatchStart, Exit, Leave, TypeOK
    <3>3. QED
      BY <3>1, <3>2, BatchIs DEF Batch
  <2>3. \A t \in Servers : t # s => Batch'[t] = Batch[t]
    BY <1>0, <1>2 DEF Batch, StartUp, WaitForBatchStart, Exit, Leave, TypeOK
  <2>4. Batch' = [t \in Servers |-> Batch'[t]] /\ Batch = [t \in Servers |-> Batch[t]]
    BY DEF Batch
  <2>5. Batch' = Batch
    BY <2>2, <2>3, <2>4
  <2>6. QED
    BY <1>a, <1>b, <1>d, <2>1, <2>5
<1>3. ASSUME NEW s \in Servers, TakeBatch(s) PROVE [Service!Next]_(Service!vars)
  <2>1. Answered' = Answered
    BY <1>3, <1>d DEF TakeBatch, clients
  <2>2. Service!Take(s)
    BY <1>3, <2>1, TakeTakesTheFront DEF Service!Take, Answered
  <2>3. QED
    BY <2>2 DEF Service!Next
<1>4. ASSUME NEW s \in Servers, DeliverRow(s) PROVE [Service!Next]_(Service!vars)
  <2>1. Service!Answer(s)
    BY <1>4, DeliverAnswersFirst DEF Service!Answer, Answered
  <2>2. QED
    BY <2>1 DEF Service!Next
<1>5. ASSUME NEW c \in Clients, Enqueue(c) PROVE [Service!Next]_(Service!vars)
  <2>1. pc[c] = "enqueue" /\ ~Awaiting(c) /\ c \notin Answered
    BY <1>5 DEF Enqueue, Awaiting, Answered
  <2>2. c \notin Service!Asking \cup Answered
    BY <2>1, AskingAwaits
  <2>3. Queue' = Append(Queue, c)
    BY <1>5, EnqueueAppends
  <2>4. Batch' = Batch
    BY <1>5, <1>c DEF Enqueue, servers
  <2>5. Answered' = Answered
    <3>1. ~hasResult[c] /\ hasResult' = hasResult
      BY <1>5 DEF Enqueue, IInv, CellsAwait
    <3>2. QED
      BY <1>0, <1>5, <3>1 DEF Enqueue, Answered, TypeOK
  <2>6. Service!Ask(c)
    BY <2>2, <2>3, <2>4, <2>5 DEF Service!Ask, Answered
  <2>7. QED
    BY <2>6 DEF Service!Next
<1>6. ASSUME NEW c \in Clients, ReturnResult(c) PROVE [Service!Next]_(Service!vars)
  <2>1. c \in Answered /\ Answered' = Answered \ {c}
    BY <1>0, <1>6 DEF ReturnResult, Answered, TypeOK
  <2>2. Queue' = Queue /\ Batch' = Batch
    BY <1>6, <1>b, <1>c DEF ReturnResult, servers
  <2>3. Service!Fetch(c)
    BY <2>1, <2>2 DEF Service!Fetch, Answered
  <2>4. QED
    BY <2>3 DEF Service!Next
<1>7. ASSUME NEW c \in Clients,
             evaluate(c) \/ WaitForResult(c) \/ waitForNextNNEvalIfAny(c) \/ WakeFromWait(c)
      PROVE  [Service!Next]_(Service!vars)
  <2>1. UNCHANGED <<ring, servers>>
    BY <1>7 DEF evaluate, WaitForResult, waitForNextNNEvalIfAny, WakeFromWait, WaitOrReturn
  <2>2. Answered' = Answered
    BY <1>0, <1>7 DEF evaluate, WaitForResult, waitForNextNNEvalIfAny, WakeFromWait,
                      WaitOrReturn, Answered, TypeOK
  <2>3. QED
    BY <1>a, <1>b, <1>c, <2>1, <2>2 DEF servers
<1>8. CASE SpuriousWakeup \/ UNCHANGED vars
  BY <1>8, <1>a, <1>b, <1>c, <1>d DEF SpuriousWakeup, vars, servers, clients
<1>9. QED
  BY <1>1, <1>2, <1>3, <1>4, <1>5, <1>6, <1>7, <1>8 DEF Next, Server, Evaluating

(* The ring and the arrays that are swapped in and out of it are a queue   *)
(* of requests that are taken in order, a batch at a time, and answered    *)
(* once.                                                                   *)
THEOREM EvaluatorImplements == Spec => IsBatchService
<1>1. Init => Service!Init
  <2> SUFFICES ASSUME Init PROVE Service!Init
    OBVIOUS
  <2>1. IInv
    BY InitIInv
  <2>2. QueueLen = 0
    <3>1. BufsAhead(m_currentResultBufsIdx) = 0
      BY <2>1, Ahead, DistanceInjective DEF IInv, TypeOK, Init
    <3>2. QueueLen = 0 * maxNumRows + 0
      BY <3>1 DEF Init, QueueLen
    <3>3. QED
      BY <3>2, RingSize
  <2>3. Queue = <<>>
    BY <2>1, <2>2, QueueIs
  <2>4. Batch = [s \in Servers |-> <<>>]
    BY DEF Init, Batch
  <2>5. Answered = {}
    BY DEF Init, Answered
  <2>6. QED
    BY <2>3, <2>4, <2>5 DEF Service!Init, Answered
<1>2. QED
  BY <1>1, StepServes, Inductive, PTL DEF Spec, IsBatchService, Service!Spec
=============================================================================
