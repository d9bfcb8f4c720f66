----------------------------- MODULE NNEvaluator -----------------------------
(***************************************************************************)
(* How NNEvaluator (src/cpp/neuralnet/nneval.h and .cpp) turns calls of    *)
(* evaluate into batches: client threads put their result buffers into a   *)
(* ring of arrays, server threads take one array at a time, and the main   *)
(* thread spawns and kills the server threads.  What evaluate does before  *)
(* and after, with its cache, is in NNCache.                               *)
(*                                                                         *)
(* A critical section of bufferMutex is one action.  That of a server      *)
(* thread runs from the end of a batch, or from the moment it wakes, to    *)
(* its next batch, its next wait or its exit.                              *)
(***************************************************************************)
EXTENDS Integers, Sequences, FiniteSets

CONSTANTS Clients, Servers,
          maxNumRows,          (* rows of one array: the batch size *)
          maxConcurrentEvals,  (* how many clients the evaluator is built for *)
          numResultBufss,      (* arrays in the ring *)
          NULL                 (* an empty row *)

(* The constructor makes the ring a power of two with room to spare, and    *)
(* setup.cpp configures at least one server thread.                         *)
ASSUME EvaluatorAssumption ==
    /\ maxNumRows \in Nat \ {0}
    /\ maxConcurrentEvals \in Nat
    /\ numResultBufss \in Nat
    /\ numResultBufss >= maxConcurrentEvals \div maxNumRows + 3
    /\ IsFiniteSet(Clients) /\ Cardinality(Clients) <= maxConcurrentEvals
    /\ NULL \notin Clients
    /\ IsFiniteSet(Servers) /\ Servers # {}

VARIABLES
    isKilled, numServerThreadsStartingUp,
    numOngoingEvals, numWaitingEvals, numEvalsToAwaken,
    m_resultBufss, m_currentResultBufsLen, m_currentResultBufsIdx, m_oldestResultBufsIdx,
    serverWaitingForBatchStart, waitingForFinish,  (* the threads waiting on each *)
    clientWaitingForResult,                        (* the clients waiting, each on its own *)
    mainThreadWaitingForSpawn,                     (* whether the main thread waits *)
    pc, hasResult,                                 (* of a client *)
    serverPc, resultBufs, numRows, row,            (* of a server thread *)
    mainPc

ring == <<m_resultBufss, m_currentResultBufsLen, m_currentResultBufsIdx, m_oldestResultBufsIdx>>
counts == <<numOngoingEvals, numWaitingEvals, numEvalsToAwaken>>
clients == <<pc, hasResult, clientWaitingForResult>>
servers == <<serverPc, resultBufs, numRows, row>>
lifecycle == <<isKilled, numServerThreadsStartingUp, mainThreadWaitingForSpawn, mainPc>>
vars == <<ring, counts, clients, servers, lifecycle,
          serverWaitingForBatchStart, waitingForFinish>>

Rows == 1..maxNumRows
BufIdx == 0..numResultBufss-1
EmptyBufs == [r \in Rows |-> NULL]
NextIdx(i) == (i + 1) % numResultBufss  (* & numResultBufssMask *)
-----------------------------------------------------------------------------
Init ==
    /\ isKilled = FALSE /\ numServerThreadsStartingUp = 0
    /\ numOngoingEvals = 0 /\ numWaitingEvals = 0 /\ numEvalsToAwaken = 0
    /\ m_resultBufss = [i \in BufIdx |-> EmptyBufs]
    /\ m_currentResultBufsLen = 0
    /\ m_currentResultBufsIdx = 0 /\ m_oldestResultBufsIdx = 0
    /\ serverWaitingForBatchStart = {} /\ waitingForFinish = {}
    /\ clientWaitingForResult = {}
    /\ mainThreadWaitingForSpawn = FALSE
    /\ pc = [c \in Clients |-> "idle"] /\ hasResult = [c \in Clients |-> FALSE]
    /\ serverPc = [s \in Servers |-> "dead"]
    /\ resultBufs = [s \in Servers |-> EmptyBufs]
    /\ numRows = [s \in Servers |-> 0] /\ row = [s \in Servers |-> 0]
    /\ mainPc = "down"
-----------------------------------------------------------------------------
(* Main thread.  Spawning and killing is not thread-safe: no client is in  *)
(* a call, nor makes one, until the server threads are up (again).         *)

spawnServerThreads ==
    /\ mainPc = "down"
    /\ mainPc' = "spawning"
    /\ numServerThreadsStartingUp' = Cardinality(Servers)
    /\ serverPc' = [s \in Servers |-> "starting"]
    /\ UNCHANGED <<ring, counts, clients, resultBufs, numRows, row, isKilled,
                   mainThreadWaitingForSpawn, serverWaitingForBatchStart, waitingForFinish>>

WaitForSpawn ==
    /\ mainPc = "spawning" /\ ~mainThreadWaitingForSpawn
    /\ IF numServerThreadsStartingUp > 0
       THEN mainThreadWaitingForSpawn' = TRUE /\ UNCHANGED mainPc
       ELSE mainPc' = "up" /\ UNCHANGED mainThreadWaitingForSpawn
    /\ UNCHANGED <<ring, counts, clients, servers, isKilled,
                   numServerThreadsStartingUp, serverWaitingForBatchStart, waitingForFinish>>

killServerThreads ==
    /\ mainPc = "up"
    /\ \A c \in Clients : pc[c] = "idle"
    /\ isKilled' = TRUE
    /\ mainPc' = "killing"
    /\ UNCHANGED <<ring, counts, clients, servers, numServerThreadsStartingUp,
                   mainThreadWaitingForSpawn, serverWaitingForBatchStart, waitingForFinish>>

NotifyKilled ==
    /\ mainPc = "killing"
    /\ mainPc' = "joining"
    /\ serverWaitingForBatchStart' = {} /\ waitingForFinish' = {}
    /\ UNCHANGED <<ring, counts, clients, servers, isKilled,
                   numServerThreadsStartingUp, mainThreadWaitingForSpawn>>

JoinServerThreads ==
    /\ mainPc = "joining" /\ \A s \in Servers : serverPc[s] = "dead"
    /\ mainPc' = "down"
    /\ isKilled' = FALSE
    /\ UNCHANGED <<ring, counts, clients, servers, numServerThreadsStartingUp,
                   mainThreadWaitingForSpawn, serverWaitingForBatchStart, waitingForFinish>>
-----------------------------------------------------------------------------
(* Server threads: serve. *)

StartUp(s) ==
    /\ serverPc[s] = "starting"
    /\ numServerThreadsStartingUp' = numServerThreadsStartingUp - 1
    /\ mainThreadWaitingForSpawn' =
           (mainThreadWaitingForSpawn /\ numServerThreadsStartingUp - 1 > 0)
    /\ serverPc' = [serverPc EXCEPT ![s] = "looking"]
    /\ UNCHANGED <<ring, counts, clients, resultBufs, numRows, row, isKilled,
                   mainPc, serverWaitingForBatchStart, waitingForFinish>>

(* s looks for a batch: it has just finished one, or it is woken or new. *)
Finished(s) == serverPc[s] = "serving" /\ row[s] > numRows[s]
Looks(s) == \/ Finished(s)
            \/ serverPc[s] = "looking" /\ s \notin serverWaitingForBatchStart

AwakenWaiting ==
    IF numWaitingEvals > 0
    THEN /\ numEvalsToAwaken' = numEvalsToAwaken + numWaitingEvals
         /\ numWaitingEvals' = 0
         /\ waitingForFinish' = {}
    ELSE UNCHANGED <<numEvalsToAwaken, numWaitingEvals, waitingForFinish>>

(* The batch that s has finished, if any, is over, and s begins `begun`. *)
CountBatches(s, begun) ==
    IF Finished(s)
    THEN numOngoingEvals' = numOngoingEvals - 1 + begun /\ AwakenWaiting
    ELSE /\ numOngoingEvals' = numOngoingEvals + begun
         /\ UNCHANGED <<numEvalsToAwaken, numWaitingEvals, waitingForFinish>>

NothingQueued ==
    m_currentResultBufsLen <= 0 /\ m_currentResultBufsIdx = m_oldestResultBufsIdx

LeaveUncounted(s, to) ==  \* mutant of Leave: the batch that ended is not counted off
    /\ serverPc' = [serverPc EXCEPT ![s] = to]
    /\ row' = [row EXCEPT ![s] = 0] /\ numRows' = [numRows EXCEPT ![s] = 0]
    /\ UNCHANGED <<ring, counts, waitingForFinish, clients, resultBufs, lifecycle>>

(* s stops serving, to wait or to exit. *)
Leave(s, to) == /\ CountBatches(s, 0)
                /\ serverPc' = [serverPc EXCEPT ![s] = to]
                /\ row' = [row EXCEPT ![s] = 0] /\ numRows' = [numRows EXCEPT ![s] = 0]
                /\ UNCHANGED <<ring, clients, resultBufs, lifecycle>>

WaitForBatchStart(s) ==
    /\ Looks(s)
    /\ NothingQueued /\ ~isKilled
    /\ serverWaitingForBatchStart' = serverWaitingForBatchStart \cup {s}
    /\ Leave(s, "looking")

Exit(s) ==
    /\ Looks(s)
    /\ isKilled
    /\ Leave(s, "dead")
    /\ UNCHANGED serverWaitingForBatchStart

AdvanceKeepingCurrent ==  \* mutant of AdvanceOldest: clients stay in the taken array
    /\ m_oldestResultBufsIdx' = NextIdx(m_oldestResultBufsIdx)
    /\ UNCHANGED <<m_currentResultBufsIdx, m_currentResultBufsLen>>

(* Past the array just taken; clients are to leave it if they were in it. *)
AdvanceOldest ==
    /\ m_oldestResultBufsIdx' = NextIdx(m_oldestResultBufsIdx)
    /\ IF m_currentResultBufsIdx = m_oldestResultBufsIdx
       THEN /\ m_currentResultBufsIdx' = NextIdx(m_oldestResultBufsIdx)
            /\ m_currentResultBufsLen' = 0
       ELSE UNCHANGED <<m_currentResultBufsIdx, m_currentResultBufsLen>>

TakeBatch(s) ==
    /\ Looks(s)
    /\ ~NothingQueued /\ ~isKilled
    /\ m_resultBufss' = [m_resultBufss EXCEPT ![m_oldestResultBufsIdx] = resultBufs[s]]
    /\ resultBufs' = [resultBufs EXCEPT ![s] = m_resultBufss[m_oldestResultBufsIdx]]
    /\ numRows' = [numRows EXCEPT ![s] =
           IF m_currentResultBufsIdx = m_oldestResultBufsIdx
           THEN m_currentResultBufsLen ELSE maxNumRows]
    /\ AdvanceOldest
    /\ CountBatches(s, 1)
    /\ row' = [row EXCEPT ![s] = 1]
    /\ serverPc' = [serverPc EXCEPT ![s] = "serving"]
    /\ UNCHANGED <<clients, lifecycle, serverWaitingForBatchStart>>

DeliverRowQuietly(s) ==  \* mutant of DeliverRow: the client is not notified
    LET c == resultBufs[s][row[s]] IN
    /\ serverPc[s] = "serving" /\ row[s] <= numRows[s]
    /\ c # NULL
    /\ resultBufs' = [resultBufs EXCEPT ![s][row[s]] = NULL]
    /\ hasResult' = [hasResult EXCEPT ![c] = TRUE]
    /\ row' = [row EXCEPT ![s] = @ + 1]
    /\ UNCHANGED <<ring, counts, pc, clientWaitingForResult, serverPc, numRows,
                   lifecycle, serverWaitingForBatchStart, waitingForFinish>>

(* One row of the loops that hand out results, under the client's resultMutex. *)
DeliverRow(s) ==
    LET c == resultBufs[s][row[s]] IN
    /\ serverPc[s] = "serving" /\ row[s] <= numRows[s]
    /\ c # NULL
    /\ resultBufs' = [resultBufs EXCEPT ![s][row[s]] = NULL]
    /\ hasResult' = [hasResult EXCEPT ![c] = TRUE]
    /\ clientWaitingForResult' = clientWaitingForResult \ {c}
    /\ row' = [row EXCEPT ![s] = @ + 1]
    /\ UNCHANGED <<ring, counts, pc, serverPc, numRows, lifecycle,
                   serverWaitingForBatchStart, waitingForFinish>>
-----------------------------------------------------------------------------
(* Client threads: evaluate, when the cache does not answer. *)

evaluateWithOldResult(c) ==  \* mutant of evaluate: hasResult is not reset
    /\ mainPc = "up" /\ pc[c] = "idle"
    /\ pc' = [pc EXCEPT ![c] = "enqueue"]
    /\ UNCHANGED <<ring, counts, hasResult, clientWaitingForResult, servers, lifecycle,
                   serverWaitingForBatchStart, waitingForFinish>>

evaluate(c) ==
    /\ mainPc = "up" /\ pc[c] = "idle"
    /\ pc' = [pc EXCEPT ![c] = "enqueue"]
    /\ hasResult' = [hasResult EXCEPT ![c] = FALSE]
    /\ UNCHANGED <<ring, counts, clientWaitingForResult, servers, lifecycle,
                   serverWaitingForBatchStart, waitingForFinish>>

notifyServerOnFull ==  \* mutant of notifyServer: when the batch is full
    IF m_currentResultBufsLen + 1 = maxNumRows
    THEN serverWaitingForBatchStart' = {}
    ELSE UNCHANGED serverWaitingForBatchStart

(* notify_one, when this is the first row of the oldest array. *)
notifyServer ==
    IF /\ m_currentResultBufsLen = 0
       /\ m_currentResultBufsIdx = m_oldestResultBufsIdx
       /\ serverWaitingForBatchStart # {}
    THEN \E s \in serverWaitingForBatchStart :
             serverWaitingForBatchStart' = serverWaitingForBatchStart \ {s}
    ELSE UNCHANGED serverWaitingForBatchStart

Enqueue(c) ==
    /\ pc[c] = "enqueue"
    /\ m_resultBufss' =
           [m_resultBufss EXCEPT ![m_currentResultBufsIdx][m_currentResultBufsLen + 1] = c]
    /\ notifyServer
    /\ IF m_currentResultBufsLen + 1 >= maxNumRows
       THEN /\ m_currentResultBufsLen' = 0
            /\ m_currentResultBufsIdx' = NextIdx(m_currentResultBufsIdx)
       ELSE /\ m_currentResultBufsLen' = m_currentResultBufsLen + 1
            /\ UNCHANGED m_currentResultBufsIdx
    /\ pc' = [pc EXCEPT ![c] = "await"]
    /\ UNCHANGED <<m_oldestResultBufsIdx, counts, hasResult,
                   clientWaitingForResult, servers, lifecycle, waitingForFinish>>

WaitForResult(c) ==
    /\ pc[c] = "await" /\ c \notin clientWaitingForResult
    /\ ~hasResult[c]
    /\ clientWaitingForResult' = clientWaitingForResult \cup {c}
    /\ UNCHANGED <<ring, counts, pc, hasResult, servers, lifecycle,
                   serverWaitingForBatchStart, waitingForFinish>>

ReturnResult(c) ==
    /\ pc[c] = "await" /\ c \notin clientWaitingForResult
    /\ hasResult[c]
    /\ pc' = [pc EXCEPT ![c] = "idle"]
    /\ UNCHANGED <<ring, counts, hasResult, clientWaitingForResult, servers,
                   lifecycle, serverWaitingForBatchStart, waitingForFinish>>

(* The loop in waitForNextNNEvalIfAny, when `waiting` threads wait in it. *)
WaitOrReturn(c, waiting) ==
    /\ numWaitingEvals' = waiting
    /\ IF numEvalsToAwaken <= 0 /\ ~isKilled
       THEN /\ pc' = [pc EXCEPT ![c] = "waitForNext"]
            /\ waitingForFinish' = waitingForFinish \cup {c}
            /\ UNCHANGED numEvalsToAwaken
       ELSE /\ pc' = [pc EXCEPT ![c] = "idle"]
            /\ numEvalsToAwaken' = numEvalsToAwaken - 1
            /\ UNCHANGED waitingForFinish
    /\ UNCHANGED <<ring, numOngoingEvals, hasResult, clientWaitingForResult,
                   servers, lifecycle, serverWaitingForBatchStart>>

waitForNextNNEvalIfAny(c) ==
    /\ mainPc = "up" /\ pc[c] = "idle"
    /\ numOngoingEvals > 0
    /\ WaitOrReturn(c, numWaitingEvals + 1)

WakeFromWait(c) ==
    /\ pc[c] = "waitForNext" /\ c \notin waitingForFinish
    /\ WaitOrReturn(c, numWaitingEvals)
-----------------------------------------------------------------------------
SpuriousWakeup ==
    /\ \/ \E s \in serverWaitingForBatchStart :
             /\ serverWaitingForBatchStart' = serverWaitingForBatchStart \ {s}
             /\ UNCHANGED <<waitingForFinish, clientWaitingForResult>>
       \/ \E c \in waitingForFinish :
             /\ waitingForFinish' = waitingForFinish \ {c}
             /\ UNCHANGED <<serverWaitingForBatchStart, clientWaitingForResult>>
       \/ \E c \in clientWaitingForResult :
             /\ clientWaitingForResult' = clientWaitingForResult \ {c}
             /\ UNCHANGED <<serverWaitingForBatchStart, waitingForFinish>>
    /\ UNCHANGED <<ring, counts, pc, hasResult, servers, lifecycle>>

Main == spawnServerThreads \/ WaitForSpawn \/ killServerThreads \/ NotifyKilled
            \/ JoinServerThreads
Server(s) == StartUp(s) \/ WaitForBatchStart(s) \/ Exit(s) \/ TakeBatch(s) \/ DeliverRow(s)
Evaluating(c) == Enqueue(c) \/ WaitForResult(c) \/ ReturnResult(c)

Next ==
    \/ Main
    \/ \E s \in Servers : Server(s)
    \/ \E c \in Clients : \/ evaluate(c) \/ Evaluating(c)
                          \/ waitForNextNNEvalIfAny(c) \/ WakeFromWait(c)
    \/ SpuriousWakeup

Spec == Init /\ [][Next]_vars

(* A thread that can go on does. *)
Fairness ==
    /\ WF_vars(WaitForSpawn \/ NotifyKilled \/ JoinServerThreads)
    /\ \A s \in Servers : WF_vars(Server(s))
    /\ \A c \in Clients : WF_vars(Evaluating(c))
FairSpec == Spec /\ Fairness
-----------------------------------------------------------------------------
(* Which cells of the ring and of a server's array are in use. *)
BufsAhead(i) == (i - m_oldestResultBufsIdx + numResultBufss) % numResultBufss
Queued(i, r) ==
    \/ BufsAhead(i) < BufsAhead(m_currentResultBufsIdx)
    \/ i = m_currentResultBufsIdx /\ r <= m_currentResultBufsLen
Unserved(s, r) == serverPc[s] = "serving" /\ r \in row[s]..numRows[s]

Awaiting(c) == pc[c] = "await" /\ ~hasResult[c]
Holding(c) == {p \in BufIdx \X Rows : m_resultBufss[p[1]][p[2]] = c}
Serving(c) == {p \in Servers \X Rows : resultBufs[p[1]][p[2]] = c}

(* Every variable has its type, and a thread waits on a condition variable *)
(* only inside the call that waits on it.                                  *)
TypeOK ==
    /\ isKilled \in BOOLEAN /\ mainThreadWaitingForSpawn \in BOOLEAN
    /\ numServerThreadsStartingUp \in 0..Cardinality(Servers)
    /\ numOngoingEvals \in Nat /\ numWaitingEvals \in Nat /\ numEvalsToAwaken \in Nat
    /\ m_resultBufss \in [BufIdx -> [Rows -> Clients \cup {NULL}]]
    /\ m_currentResultBufsLen \in 0..maxNumRows - 1
    /\ m_currentResultBufsIdx \in BufIdx /\ m_oldestResultBufsIdx \in BufIdx
    /\ serverWaitingForBatchStart \subseteq {s \in Servers : serverPc[s] = "looking"}
    /\ waitingForFinish \subseteq {c \in Clients : pc[c] = "waitForNext"}
    /\ clientWaitingForResult \subseteq {c \in Clients : pc[c] = "await"}
    /\ pc \in [Clients -> {"idle", "enqueue", "await", "waitForNext"}]
    /\ hasResult \in [Clients -> BOOLEAN]
    /\ serverPc \in [Servers -> {"dead", "starting", "looking", "serving"}]
    /\ resultBufs \in [Servers -> [Rows -> Clients \cup {NULL}]]
    /\ numRows \in [Servers -> 0..maxNumRows] /\ row \in [Servers -> 0..maxNumRows + 1]
    /\ mainPc \in {"down", "spawning", "up", "killing", "joining"}

(* The ring never wraps onto rows that wait, although no client ever waits *)
(* for a free row: the rows in use are those from the oldest array to the  *)
(* current one, the arrays that server threads swap in are empty, and a    *)
(* client that waits for a result has its buffer in exactly one place.     *)
(* This is what the assertions on overlooped, on NULL rows and on          *)
(* hasResult in nneval.cpp rest on.                                        *)
RowsAreHeldOnce ==
    /\ TypeOK
    /\ \A i \in BufIdx, r \in Rows : m_resultBufss[i][r] # NULL <=> Queued(i, r)
    /\ \A s \in Servers, r \in Rows : resultBufs[s][r] # NULL <=> Unserved(s, r)
    /\ \A c \in Clients : Cardinality(Holding(c)) + Cardinality(Serving(c))
                              = IF Awaiting(c) THEN 1 ELSE 0

(* No wakeup is lost, although a client notifies one server thread, and    *)
(* only with the first row of the oldest array: while rows are queued some *)
(* server thread is awake to take them, and no client sleeps on a result   *)
(* it has.                                                                *)
RowsAreAttendedTo ==
    /\ ~NothingQueued => \E s \in Servers : /\ serverPc[s] # "dead"
                                            /\ s \notin serverWaitingForBatchStart
    /\ \A c \in clientWaitingForResult : ~hasResult[c]

(* The three counters count what they say: batches being served; threads   *)
(* in waitForNextNNEvalIfAny that no batch has released; and those that    *)
(* one has, who are awake to notice.  One that is not released has a batch *)
(* to release it.                                                         *)
WaitersAreCounted ==
    LET waiters == {c \in Clients : pc[c] = "waitForNext"} IN
    /\ numOngoingEvals = Cardinality({s \in Servers : serverPc[s] = "serving"})
    /\ numWaitingEvals + numEvalsToAwaken = Cardinality(waiters)
    /\ numEvalsToAwaken <= Cardinality(waiters \ waitingForFinish)
    /\ numWaitingEvals > 0 => numOngoingEvals > 0

(* Whoever sleeps, of clients and server threads, has somebody to wake him. *)
SleepersAreAttendedTo == RowsAreAttendedTo /\ WaitersAreCounted

(* Once the server threads are joined nothing is left over: the assertions *)
(* at the end of killServerThreads, and an empty ring.                     *)
KillLeavesNothing ==
    mainPc = "down" => /\ numOngoingEvals = 0 /\ numWaitingEvals = 0 /\ numEvalsToAwaken = 0
                       /\ NothingQueued /\ serverWaitingForBatchStart = {}

(* The ring with its swapped arrays is a queue of requests that are taken  *)
(* in order, maxNumRows at a time or all there are, and answered once.     *)
Queue == [i \in 1..BufsAhead(m_currentResultBufsIdx) * maxNumRows + m_currentResultBufsLen |->
            m_resultBufss[(m_oldestResultBufsIdx + (i - 1) \div maxNumRows) % numResultBufss]
                         [((i - 1) % maxNumRows) + 1]]
Batch == [s \in Servers |->
            IF serverPc[s] = "serving" THEN SubSeq(resultBufs[s], row[s], numRows[s]) ELSE <<>>]
Service == INSTANCE BatchService WITH
               queue <- Queue,
               batch <- Batch,
               answered <- {c \in Clients : pc[c] = "await" /\ hasResult[c]}
IsBatchService == Service!Spec

(* Every call of evaluate returns. *)
EvaluateReturns ==
    \A c \in Clients : pc[c] \in {"enqueue", "await"} ~> pc[c] = "idle"

(* A thread asleep in waitForNextNNEvalIfAny is woken by the end of a batch. *)
WaiterIsWoken == \A c \in Clients : c \in waitingForFinish ~> c \notin waitingForFinish

(* Spawning and killing the server threads come to an end. *)
LifecycleGoesOn == /\ mainPc = "spawning" ~> mainPc = "up"
                   /\ mainPc \in {"killing", "joining"} ~> mainPc = "down"

(* Whatever blocks goes on. *)
CallsGoOn == EvaluateReturns /\ WaiterIsWoken /\ LifecycleGoesOn
=============================================================================
