-------------------------- MODULE SearchTree_proofs --------------------------
(***************************************************************************)
(* The pool of threads and the tree between searches, for any number of    *)
(* threads, nodes and shards, and any graph that may grow.                 *)
(***************************************************************************)
EXTENDS SearchTree, ThreadSafeQueue, FoldFacts, FiniteSetTheorems, TLAPS

\* What thread t works on is at hand: it has begun, and not ended.
Busy == {"begin", "walk", "call", "sweep", "deleteAll", "search", "playout"}
\* The tasks in which every thread goes through its part of the table.
Sweeping == {"sweep", "deleteAll"}

\* The workers that have not checked in from the task at hand.
Owing == {w \in 1..helpers : w > pushed \/ threadTasks[w] # <<>> \/ task[w] # NULL}

\* The owner has the task its agenda begins with, gives it to the helpers and then takes part itself.
OwnerOK ==
    /\ pc[0] # "checkIn"
    /\ pc[0] = "idle" <=> task[0] = NULL
    /\ task[0] # NULL => agenda # <<>> /\ task[0] = Head(agenda)
    /\ pc[0] \in {"idle", "spawn"} => helpers = 0 /\ pushed = 0
    /\ pc[0] = "push" => pushed < helpers
    /\ pc[0] \notin {"idle", "spawn", "push"} => pushed = helpers
    /\ helpers < numThreads
    /\ pc[0] \notin {"idle", "spawn"} /\ task[0] # "search" => helpers = numThreads - 1

\* A worker has a task, or has it queued, only when it is the one at hand and was pushed to it.
WorkerOK(w) ==
    /\ pc[w] \in Busy \cup {"idle", "checkIn"}
    /\ pc[w] = "idle" <=> task[w] = NULL
    /\ task[w] # NULL => w <= pushed /\ threadTasks[w] = <<>> /\ task[w] = task[0]
    /\ threadTasks[w] # <<>> => w <= pushed /\ threadTasks[w] = <<task[0]>>

\* A thread does what its task says.
WorksOnTask(t) ==
    /\ pc[t] \in {"walk", "call"} => task[t] \in Walks
    /\ pc[t] = "call" => task[t] = "recompute"
    /\ pc[t] \in Sweeping \cup {"search"} => task[t] = pc[t]
    /\ pc[t] = "playout" => task[t] = "search"

\* The counter of the remaining tasks is the number of the workers that have not checked in.
PoolOK ==
    /\ OwnerOK
    /\ \A w \in Worker : WorkerOK(w)
    /\ \A t \in Thread : WorksOnTask(t)
    /\ threadTasksRemaining = Cardinality(Owing)

\* The threads whose playouts have reached the limit.
AtLimit == {t \in 0..helpers : numPlayouts[t] >= MaxPlayouts}

\* Together the threads overshoot the limit of playouts by less than the number of those that reached it.
LimitOK ==
    /\ numPlayoutsShared < MaxPlayouts + Cardinality(AtLimit)
    /\ \A t \in Thread : /\ numPlayouts[t] <= numPlayoutsShared
                         /\ pc[t] = "playout" => numPlayouts[t] < MaxPlayouts
    /\ pc[0] \in {"idle", "spawn"} => numPlayoutsShared = 0

\* The steps of an agenda: the tasks of the pool, and what the owner does alone.
AllTasks == Tasks \cup {"reset", "newRoot", "age"}

\* A sweep comes after a walk and the reset after the nodes are deleted.
MayFollow(x, y) ==
    /\ y \notin Walks \cup {"deleteAll"}
    /\ y = "sweep" => x \in Walks
    /\ y = "reset" <=> x = "deleteAll"

\* An agenda of the owner, whose steps follow each other as they may.
Planned(tasks) ==
    /\ tasks \in Seq(AllTasks)
    /\ tasks # <<>> => tasks[Len(tasks)] # "deleteAll"
    /\ \A i \in 1..Len(tasks) - 1 : MayFollow(tasks[i], tasks[i + 1])

\* The agenda begins with one of these.
Due(tasks) == agenda # <<>> /\ Head(agenda) \in tasks

\* The mark of this age is on what is reachable, and on nothing else.
Marked == \A v \in Vertex : Done(v) <=> v \in Reachable

\* The tree has no edge out of the table but while it is torn down, and what a sweep keeps is marked.
TreeOK ==
    /\ Planned(agenda)
    /\ \A v \in Vertex : nodeAge[v] <= searchNodeAge
    /\ \A n \in Node \ table : children[n] = {} /\ nodeAge[n] = 0
    /\ ~hasRoot => table = {}
    /\ Due({"reset"}) => table = {}
    /\ Due(Walks \cup {"sweep"}) => hasRoot
    /\ ~Due({"deleteAll", "reset", "sweep"}) => \A v \in Vertex : children[v] \subseteq table
    /\ Due({"sweep"}) => Marked /\ \A v \in Reachable : children[v] \subseteq table

\* What a node leads to.
ReachedFrom(v) == ReachableFrom({v})

\* Some walk has v on its path.
OnSomePath(v) == \E t \in Thread : OnPath(t, v)

\* What a walk has left behind at a node of its path is done, or is still on its path.
FrameOK(t, i) ==
    LET v == path[t][i].node
        todo == path[t][i].todo
    IN  IF i = 1
        THEN /\ v = NULL /\ todo \subseteq {Root}
             /\ Root \in todo \/ Done(Root) \/ OnPath(t, Root)
        ELSE /\ v \in Reachable /\ todo \subseteq children[v]
             /\ \A c \in children[v] \ todo : Done(c) \/ OnPath(t, c)
             /\ \A j \in i..Len(path[t]) : path[t][j].node \in ReachedFrom(v)

\* A walk that calls is at a node whose children are done, and nobody else calls there.
WalkerOK(t) ==
    /\ path[t] = <<>> <=> pc[t] \notin {"walk", "call"}
    /\ \A i \in DOMAIN path[t] : FrameOK(t, i)
    /\ pc[t] = "call" =>
         /\ Len(path[t]) > 1 /\ Top(t).todo = {} /\ ~Done(Top(t).node)
         /\ \A u \in Thread \ {t} : pc[u] = "call" => Top(u).node # Top(t).node

\* The mutexes held are those of the calls, and what is done was visited once, its children before it.
WalkOK ==
    /\ \A t \in Thread : WalkerOK(t)
    /\ locked = {Top(t).node : t \in {u \in Thread : pc[u] = "call"}}
    /\ task[0] \notin Walks => \A v \in Vertex : visited[v] = 0
    /\ task[0] \in Walks =>
         \A v \in Vertex :
            /\ visited[v] = IF Done(v) \/ v \in locked THEN 1 ELSE 0
            /\ Done(v) => v \in Reachable /\ \A c \in children[v] : Done(c) \/ OnSomePath(c)
            /\ visited[v] = 1 => \A c \in children[v] : Done(c) \/ v \in ReachedFrom(c)
    /\ task[0] \in Walks /\ pc[0] \in {"wait", "asleep"} => Done(Root)

\* Thread t is through with its part of the table.
Swept(t) == IF t = 0 THEN pc[0] \in {"wait", "asleep"}
            ELSE t <= pushed /\ threadTasks[t] = <<>> /\ pc[t] \in {"idle", "checkIn"}
\* The parts of those that are through hold nothing that is to go.
SweepOK ==
    \A t \in Thread : Swept(t) =>
        /\ task[0] = "sweep" => \A n \in Part(t) : Done(n)
        /\ task[0] = "deleteAll" => Part(t) = {}

\* The inductive invariant.
IInv == TypeOK /\ PoolOK /\ LimitOK /\ TreeOK /\ WalkOK /\ SweepOK

-----------------------------------------------------------------------------
(* Sets closed under children.                                           *)

\* The children are nodes.
Graph == children \in [Vertex -> SUBSET Node]

\* What is reached is closed.
LEMMA ReachIsClosed ==
  ASSUME NEW vs, Graph
  PROVE  /\ ReachableFrom(vs) \subseteq Vertex
         /\ \A v \in vs \cap Vertex : v \in ReachableFrom(vs)
         /\ \A u \in ReachableFrom(vs) : \A c \in children[u] : c \in ReachableFrom(vs)
<1>1. \A u \in Vertex : children[u] \subseteq Vertex BY DEF Graph, Vertex
<1> QED BY <1>1 DEF ReachableFrom

\* It is the least such set.
LEMMA ReachIsLeast ==
  ASSUME NEW cl \in SUBSET Vertex, NEW vs \in SUBSET cl,
         \A u \in cl : children[u] \subseteq cl
  PROVE  ReachableFrom(vs) \subseteq cl
BY DEF ReachableFrom

\* What is not reached may change.
LEMMA ReachStays ==
  ASSUME NEW vs, Graph, Graph', \A v \in ReachableFrom(vs) : children'[v] = children[v]
  PROVE  ReachableFrom(vs)' = ReachableFrom(vs)
<1> DEFINE R == ReachableFrom(vs)
           Q == ReachableFrom(vs)'
<1>1. \A u \in Vertex : children[u] \subseteq Vertex /\ children'[u] \subseteq Vertex
  BY DEF Graph, Vertex
<1>2. CASE ~(vs \subseteq Vertex)
  BY <1>2 DEF ReachableFrom
<1>3. CASE vs \subseteq Vertex
  <2>1. R \subseteq Vertex /\ vs \subseteq R /\ \A u \in R : children[u] \subseteq R
    BY <1>1, <1>3, ReachIsClosed
  <2>2. Q \subseteq Vertex /\ vs \subseteq Q /\ \A u \in Q : children'[u] \subseteq Q
    BY <1>1, <1>3 DEF ReachableFrom
  <2>3. Q \subseteq R
    <3>1. \A u \in R : children'[u] \subseteq R BY <2>1
    <3> QED BY <2>1, <3>1 DEF ReachableFrom
  <2>4. \A u \in Q : children[u] \subseteq Q BY <2>2, <2>3
  <2>5. R \subseteq Q BY <2>2, <2>4 DEF ReachableFrom
  <2> QED BY <2>3, <2>5
<1> QED BY <1>2, <1>3

-----------------------------------------------------------------------------
(* Types.                                                                  *)

\* The owner is thread 0, the workers are the others.
LEMMA ThreadsAre ==
  /\ 0 \in Thread /\ Worker \subseteq Thread /\ Thread \subseteq Nat /\ 0 \notin Worker
  /\ Thread = Worker \cup {0} /\ Worker = 1..MaxThreads - 1
BY TreeAssumption DEF Thread, Worker

\* The least of two numbers.
LEMMA LeastOfTwo ==
  ASSUME NEW a \in Nat, NEW b \in Nat
  PROVE  Min({a, b}) \in {a, b} /\ Min({a, b}) <= a /\ Min({a, b}) <= b
BY LeastIsMember, {a, b} \subseteq Nat, {a, b} # {}, a \in {a, b}, b \in {a, b}

\* Two parts of a frame make one.
LEMMA FramesAre ==
  ASSUME NEW v \in Vertex \cup {NULL}, NEW todo \in SUBSET Vertex
  PROVE  [node |-> v, todo |-> todo] \in Frame
BY DEF Frame

\* The root is a vertex that no node is, and NULL is none.
LEMMA NullIsNoVertex == NULL \notin Vertex /\ Root \in Vertex /\ Root \notin Node /\ Node \subseteq Vertex
BY TreeAssumption DEF Vertex

\* A sequence without its last element.
LEMMA FrontIs ==
  ASSUME NEW V, NEW s \in Seq(V), s # <<>>
  PROVE  /\ Front(s) \in Seq(V) /\ Len(s) \in Nat \ {0} /\ Len(Front(s)) = Len(s) - 1
         /\ \A i \in 1..Len(s) - 1 : Front(s)[i] = s[i]
         /\ Last(s) = s[Len(s)] /\ Last(s) \in V
<1>1. Len(s) \in Nat \ {0} OBVIOUS
<1>2. PICK n \in Nat : n = Len(s) - 1 BY <1>1
<1>3. Front(s) = SubSeq(s, 1, n) BY <1>2 DEF Front
<1>4. Front(s) \in Seq(V) /\ Len(Front(s)) = n /\ \A i \in 1..n : Front(s)[i] = s[i]
  BY <1>1, <1>2, <1>3
<1> QED BY <1>1, <1>2, <1>4 DEF Last

\* A sequence whose last element is replaced.
LEMMA ReplacedIs ==
  ASSUME NEW V, NEW s \in Seq(V), s # <<>>, NEW x \in V
  PROVE  LET r == Append(Front(s), x)
         IN  /\ r \in Seq(V) /\ Len(r) = Len(s) /\ r # <<>> /\ Len(s) \in Nat \ {0}
             /\ \A i \in 1..Len(s) : r[i] = IF i = Len(s) THEN x ELSE s[i]
<1>1. Front(s) \in Seq(V) /\ Len(s) \in Nat \ {0} /\ Len(Front(s)) = Len(s) - 1
      /\ \A i \in 1..Len(s) - 1 : Front(s)[i] = s[i]
  BY FrontIs
<1> DEFINE f == Front(s)
<1>2. f \in Seq(V) /\ Len(f) = Len(s) - 1 /\ \A i \in 1..Len(s) - 1 : f[i] = s[i] BY <1>1
<1> HIDE DEF f
<1>3. Append(f, x) \in Seq(V) /\ Len(Append(f, x)) = Len(s)
  BY <1>1, <1>2
<1>4. \A i \in 1..Len(s) : Append(f, x)[i] = IF i = Len(s) THEN x ELSE s[i]
  BY <1>1, <1>2
<1>5. Append(f, x) # <<>> BY <1>1, <1>3
<1> QED BY <1>1, <1>3, <1>4, <1>5 DEF f

\* The rest of the agenda is a plan too.
LEMMA PlanGoesOn ==
  ASSUME NEW a, Planned(a), a # <<>>
  PROVE  /\ a \in Seq(AllTasks) /\ Head(a) \in AllTasks
         /\ Planned(Tail(a)) /\ Tail(a) # a
         /\ Head(a) = "deleteAll" => Tail(a) # <<>>
         /\ Tail(a) # <<>> => MayFollow(Head(a), Head(Tail(a)))
<1>1. a \in Seq(AllTasks) /\ Len(a) \in Nat \ {0} /\ Head(a) = a[1] /\ Head(a) \in AllTasks
  BY DEF Planned
<1>2. PICK n \in Nat : Len(a) = n + 1 BY <1>1
<1>3. Tail(a) \in Seq(AllTasks) /\ Len(Tail(a)) = n /\ \A i \in 1..n : Tail(a)[i] = a[i + 1]
  BY <1>1, <1>2
<1>4. Tail(a) # a BY <1>2, <1>3
<1>5. Head(a) = "deleteAll" => n # 0 BY <1>1, <1>2 DEF Planned
<1>6. Tail(a) # <<>> <=> n # 0 BY <1>3
<1>7. n # 0 => Tail(a)[n] # "deleteAll" BY <1>2, <1>3 DEF Planned
<1>8. \A i \in 1..n - 1 : MayFollow(Tail(a)[i], Tail(a)[i + 1])
  <2> SUFFICES ASSUME NEW i \in 1..n - 1 PROVE MayFollow(Tail(a)[i], Tail(a)[i + 1]) OBVIOUS
  <2>1. i + 1 \in 1..Len(a) - 1 /\ i \in 1..n /\ i + 1 \in 1..n BY <1>2
  <2>2. MayFollow(a[i + 1], a[i + 1 + 1]) BY <2>1 DEF Planned
  <2> QED BY <1>3, <2>1, <2>2
<1>9. n # 0 => MayFollow(Head(a), Head(Tail(a)))
  <2> HAVE n # 0
  <2>1. 1 \in 1..Len(a) - 1 /\ 1 \in 1..n BY <1>2
  <2>2. MayFollow(a[1], a[1 + 1]) BY <2>1 DEF Planned
  <2>3. Head(Tail(a)) = a[1 + 1] BY <1>3, <2>1
  <2> QED BY <1>1, <2>2, <2>3
<1> QED BY <1>1, <1>3, <1>4, <1>5, <1>6, <1>7, <1>8, <1>9 DEF Planned

\* What the owner plans.
LEMMA PlansAre ==
  /\ Planned(<<>>) /\ Planned(<<"mark", "sweep">>)
  /\ Planned(<<"reset">>) /\ Planned(<<"deleteAll", "reset">>)
  /\ Planned(<<"reset">> \o <<"newRoot", "age", "search">>)
  /\ Planned(<<"deleteAll", "reset">> \o <<"newRoot", "age", "search">>)
  /\ \A first \in {<<"recompute">>, <<"mark">>} :
        Planned(first \o <<"sweep">> \o <<"age", "search">>)
  /\ Planned(<<"recompute">> \o <<>> \o <<"age", "search">>)
  /\ Planned(<<>> \o <<>> \o <<"age", "search">>)
<1> USE DEF Planned, MayFollow, AllTasks, Tasks, Walks
<1>1. Planned(<<>>) /\ Planned(<<"mark", "sweep">>) OBVIOUS
<1>2. Planned(<<"reset">>) /\ Planned(<<"deleteAll", "reset">>) OBVIOUS
<1>3. Planned(<<"reset">> \o <<"newRoot", "age", "search">>) OBVIOUS
<1>4. Planned(<<"deleteAll", "reset">> \o <<"newRoot", "age", "search">>) OBVIOUS
<1>5. Planned(<<"recompute">> \o <<"sweep">> \o <<"age", "search">>) OBVIOUS
<1>6. Planned(<<"mark">> \o <<"sweep">> \o <<"age", "search">>) OBVIOUS
<1>7. Planned(<<"recompute">> \o <<>> \o <<"age", "search">>) OBVIOUS
<1>8. Planned(<<>> \o <<>> \o <<"age", "search">>) OBVIOUS
<1> QED BY <1>1, <1>2, <1>3, <1>4, <1>5, <1>6, <1>7, <1>8

-----------------------------------------------------------------------------
(* Types hold.                                                             *)

\* Where a thread may be.
PcTypes == {"idle", "spawn", "push", "begin", "walk", "call", "sweep", "deleteAll",
            "search", "playout", "checkIn", "wait", "asleep"}

\* The types, where the owner changes the tree and its agenda.
LEMMA OwnerTypes ==
  ASSUME TypeOK, TreeOK, Owner \/ OwnerGoesOn
  PROVE  TypeOK'
<1> USE DEF TypeOK, poolVars, walkVars, searchVars, treeVars, ageVars
<1>p. Planned(agenda') => agenda' \in Seq(Tasks \cup {"reset", "newRoot", "age"})
  BY DEF Planned, AllTasks
<1>q. Root \in Vertex BY NullIsNoVertex
<1>1. CASE clearSearch
  <2>1. Planned(agenda') BY <1>1, PlansAre DEF clearSearch, Clear
  <2> QED BY <1>1, <1>p, <2>1 DEF clearSearch, OwnerUnchanged
<1>2. CASE setNumThreads
  BY <1>2 DEF setNumThreads, OwnerUnchanged
<1>3. CASE makeMove
  <2>1. Planned(agenda') BY <1>3, PlansAre DEF makeMove
  <2>2. PICK child \in children[Root] :
          /\ children' = [children EXCEPT ![Root] = children[child]]
          /\ nodeAge' = [nodeAge EXCEPT ![Root] = nodeAge[child]]
    BY <1>3 DEF makeMove
  <2>3. child \in Vertex BY <1>q, NullIsNoVertex
  <2>4. children' \in [Vertex -> SUBSET Node] /\ nodeAge' \in [Vertex -> Nat] BY <1>q, <2>2, <2>3
  <2> QED BY <1>3, <1>p, <2>1, <2>4 DEF makeMove, OwnerUnchanged
<1>4. CASE runWholeSearch
  <2>1. CASE ~hasRoot \/ searchNodeAge > MaxAge
    <3>1. Planned(agenda') BY <1>4, <2>1, PlansAre DEF runWholeSearch, Clear
    <3> QED BY <1>4, <1>p, <2>1, <3>1 DEF runWholeSearch, OwnerUnchanged
  <2>2. CASE ~(~hasRoot \/ searchNodeAge > MaxAge)
    <3>1. PICK filtered \in SUBSET children[Root], biased \in BOOLEAN :
            /\ children' = [children EXCEPT ![Root] = @ \ filtered]
            /\ agenda' = (IF biased THEN <<"recompute">>
                          ELSE IF filtered # {} THEN <<"mark">> ELSE <<>>)
                         \o (IF filtered # {} THEN <<"sweep">> ELSE <<>>)
                         \o <<"age", "search">>
      BY <1>4, <2>2 DEF runWholeSearch
    <3>2. Planned(agenda')
      <4>1. CASE filtered # {} BY <3>1, <4>1, PlansAre
      <4>2. CASE filtered = {} BY <3>1, <4>2, PlansAre
      <4> QED BY <4>1, <4>2
    <3>3. children' \in [Vertex -> SUBSET Node] BY <1>q, <3>1
    <3> QED BY <1>4, <1>p, <3>2, <3>3 DEF runWholeSearch, OwnerUnchanged
  <2> QED BY <2>1, <2>2
<1>5. CASE OwnerGoesOn
  <2>1. Planned(agenda') BY <1>5, PlanGoesOn DEF OwnerGoesOn, TreeOK
  <2>2. /\ hasRoot' \in BOOLEAN /\ children' \in [Vertex -> SUBSET Node]
        /\ nodeAge' \in [Vertex -> Nat] /\ searchNodeAge' \in Nat
    <3>1. CASE /\ hasRoot' = FALSE /\ children' = [children EXCEPT ![Root] = {}]
               /\ nodeAge' = [nodeAge EXCEPT ![Root] = 0] /\ searchNodeAge' = 0
      BY <1>q, <3>1
    <3>2. CASE hasRoot' = TRUE /\ UNCHANGED <<children, nodeAge, searchNodeAge>> BY <3>2
    <3>3. CASE searchNodeAge' = searchNodeAge + 1 /\ UNCHANGED <<hasRoot, children, nodeAge>> BY <3>3
    <3> QED BY <1>5, <3>1, <3>2, <3>3 DEF OwnerGoesOn
  <2> QED BY <1>5, <1>p, <2>1, <2>2 DEF OwnerGoesOn
<1> QED BY <1>1, <1>2, <1>3, <1>4, <1>5 DEF Owner

\* The tasks of the pool, as far as the owner gives them.
LEMMA PoolTypes ==
  ASSUME TypeOK, PoolOK, TreeOK, PreparesTask \/ SpawnsThreads \/ PushesTask \/ waitUntilZero
  PROVE  TypeOK'
<1> USE DEF TypeOK, poolVars, walkVars, searchVars, treeVars, ageVars, Goto
<1>a. /\ MaxThreads \in Nat \ {0} /\ 0 \in Thread /\ Worker = 1..MaxThreads - 1 /\ numThreads \in Nat
  BY ThreadsAre, TreeAssumption
<1>1. CASE PreparesTask
  BY <1>1, <1>a DEF PreparesTask
<1>2. CASE SpawnsThreads
  <2>1. PICK capThreads \in 1..MaxThreads : helpers' = Min({capThreads - 1, numThreads - 1})
    <3>1. PICK capThreads \in IF task[0] = "search" THEN 1..MaxThreads ELSE {MaxThreads} :
            helpers' = Min({capThreads - 1, numThreads - 1})
      BY <1>2 DEF SpawnsThreads
    <3>2. capThreads \in 1..MaxThreads BY <1>a
    <3> QED BY <3>1, <3>2
  <2>2. helpers' \in 0..MaxThreads - 1
    <3>1. capThreads - 1 \in Nat /\ numThreads - 1 \in Nat BY <1>a
    <3>2. helpers' \in {capThreads - 1, numThreads - 1} BY <2>1, <3>1, LeastOfTwo
    <3> QED BY <1>a, <3>1, <3>2
  <2>3. numThreadsSpawned' \in 0..MaxThreads - 1 BY <1>2, <1>a DEF SpawnsThreads
  <2>4. threadTasksRemaining' \in Nat /\ pushed' = 0 /\ pc' \in [Thread -> PcTypes]
    BY <1>2, <1>a, <2>2 DEF SpawnsThreads, PcTypes
  <2> QED BY <1>2, <1>a, <2>2, <2>3, <2>4 DEF SpawnsThreads, PcTypes
<1>3. CASE PushesTask
  <2>1. pushed < helpers /\ task[0] \in Tasks
    <3>1. pushed < helpers /\ task[0] # NULL BY <1>3 DEF PushesTask, PoolOK, OwnerOK
    <3> QED BY <1>a, <3>1
  <2>2. pushed' \in 0..MaxThreads - 1 /\ pushed' \in Worker BY <1>3, <1>a, <2>1 DEF PushesTask
  <2>3. threadTasks' \in [Worker -> Seq(Tasks)] BY <1>3, <2>1, <2>2 DEF PushesTask
  <2>4. pc' \in [Thread -> PcTypes] BY <1>3, <1>a DEF PushesTask, PcTypes
  <2> QED BY <1>3, <2>2, <2>3, <2>4 DEF PushesTask, PcTypes
<1>4. CASE waitUntilZero
  <2>1. pc' \in [Thread -> PcTypes] /\ task' \in [Thread -> Tasks \cup {NULL}]
    BY <1>4, <1>a DEF waitUntilZero, PcTypes
  <2>2. agenda' \in Seq(Tasks \cup {"reset", "newRoot", "age"})
    <3>1. agenda # <<>> BY <1>4 DEF waitUntilZero, PoolOK, OwnerOK
    <3>2. agenda' \in {agenda, Tail(agenda)} BY <1>4 DEF waitUntilZero
    <3> DEFINE S == Tasks \cup {"reset", "newRoot", "age"}
    <3>3. agenda \in Seq(S) OBVIOUS
    <3> HIDE DEF S, TypeOK
    <3>4. agenda' \in Seq(S) BY <3>1, <3>2, <3>3
    <3> QED BY <3>4 DEF S
  <2>3. /\ helpers' \in 0..MaxThreads - 1 /\ pushed' \in 0..MaxThreads - 1
        /\ visited' \in [Vertex -> Nat] /\ numPlayoutsShared' \in Nat
        /\ numPlayouts' \in [Thread -> Nat] /\ shouldStopNow' \in BOOLEAN
    <3>1. CASE LocalsEnd
      <4>1. /\ helpers' = 0 /\ pushed' = 0 /\ visited' = [v \in Vertex |-> 0]
            /\ numPlayoutsShared' = 0 /\ numPlayouts' = [t \in Thread |-> 0] /\ shouldStopNow' = FALSE
        BY <3>1 DEF LocalsEnd
      <4>2. 0 \in 0..MaxThreads - 1 BY <1>a
      <4> QED BY <4>1, <4>2
    <3>2. CASE UNCHANGED <<helpers, pushed, visited, searchVars>> BY <3>2
    <3> QED BY <1>4, <3>1, <3>2 DEF waitUntilZero
  <2> QED BY <1>4, <2>1, <2>2, <2>3 DEF waitUntilZero, PcTypes
<1> QED BY <1>1, <1>2, <1>3, <1>4

\* The place of a walk.
LEMMA TopIs ==
  ASSUME TypeOK, WalkOK, NEW t \in Thread, pc[t] \in {"walk", "call"}
  PROVE  /\ path[t] \in Seq(Frame) /\ path[t] # <<>> /\ Len(path[t]) \in Nat \ {0}
         /\ Top(t) = path[t][Len(path[t])] /\ Top(t) \in Frame
         /\ Top(t).node \in Vertex \cup {NULL} /\ Top(t).todo \in SUBSET Vertex
         /\ Below(t) \in Seq(Frame) /\ Len(Below(t)) = Len(path[t]) - 1
         /\ \A i \in 1..Len(path[t]) - 1 : Below(t)[i] = path[t][i]
<1>1. path[t] \in Seq(Frame) BY DEF TypeOK
<1>2. path[t] # <<>> BY DEF WalkOK, WalkerOK
<1>3. Top(t) \in Frame BY <1>1, <1>2, FrontIs DEF Top
<1> QED BY <1>1, <1>2, <1>3, FrontIs DEF Top, Below, Frame

\* Above the first, the frames of a walk are of nodes that are reachable.
LEMMA FramesReach ==
  ASSUME TypeOK, WalkOK, NEW t \in Thread, NEW i \in 2..Len(path[t])
  PROVE  path[t][i].node \in Reachable /\ path[t][i].node \in Vertex
<1>1. path[t] \in Seq(Frame) BY DEF TypeOK
<1>2. i \in DOMAIN path[t] /\ i # 1 BY <1>1
<1>3. path[t][i].node \in Reachable BY <1>2 DEF WalkOK, WalkerOK, FrameOK
<1> QED BY <1>3 DEF Reachable, ReachableFrom

\* A call is made on a node.
LEMMA CallIs ==
  ASSUME TypeOK, WalkOK, NEW t \in Thread, pc[t] = "call"
  PROVE  Top(t).node \in Reachable /\ Top(t).node \in Vertex /\ Top(t).todo = {} /\ Len(path[t]) > 1
<1>1. Len(path[t]) > 1 /\ Top(t).todo = {} BY DEF WalkOK, WalkerOK
<1>2. Len(path[t]) \in 2..Len(path[t]) BY <1>1, TopIs
<1> QED BY <1>1, <1>2, FramesReach, TopIs

\* The owing workers can be counted.
LEMMA OwingIs ==
  ASSUME TypeOK
  PROVE  /\ Owing \subseteq Worker /\ IsFiniteSet(Owing) /\ Cardinality(Owing) \in Nat
         /\ IsFiniteSet(1..helpers) /\ Cardinality(1..helpers) = helpers
<1>1. helpers \in 0..MaxThreads - 1 /\ MaxThreads \in Nat \ {0} /\ Worker = 1..MaxThreads - 1
  BY ThreadsAre, TreeAssumption DEF TypeOK
<1>2. 1..helpers \subseteq Worker /\ Owing \subseteq 1..helpers BY <1>1 DEF Owing
<1>3. IsFiniteSet(1..helpers) /\ Cardinality(1..helpers) = helpers BY <1>1, FS_Interval
<1> QED BY <1>2, <1>3, FS_Subset, FS_CardinalityType

\* A worker with a task has not checked in.
LEMMA WorkerOwes ==
  ASSUME TypeOK, PoolOK, NEW w \in Worker, task[w] # NULL
  PROVE  w \in Owing /\ threadTasksRemaining \in Nat \ {0}
<1>1. w <= pushed BY DEF PoolOK, WorkerOK
<1>2. pushed <= helpers BY DEF PoolOK, OwnerOK, TypeOK
<1>3. helpers \in Nat /\ pushed \in Nat /\ w \in Nat /\ w >= 1 BY ThreadsAre DEF TypeOK
<1>4. w \in Owing BY <1>1, <1>2, <1>3 DEF Owing
<1>5. Cardinality(Owing) # 0 BY <1>4, OwingIs, FS_EmptySet
<1> QED BY <1>4, <1>5, OwingIs DEF PoolOK

\* The types, where a thread works on its task.
LEMMA WorkTypes ==
  ASSUME TypeOK, PoolOK, WalkOK, NEW t \in Thread, Works(t)
  PROVE  TypeOK'
<1> USE DEF poolVars, walkVars, searchVars, treeVars, ageVars, Goto, EndsTask
<1>a. pc \in [Thread -> PcTypes] /\ path \in [Thread -> Seq(Frame)] BY DEF TypeOK, PcTypes
<1>p. ASSUME pc' \in [Thread -> PcTypes], UNCHANGED <<treeVars, ageVars, agenda, numThreads, poolVars, task>>,
             path' \in [Thread -> Seq(Frame)], locked' \subseteq Vertex, visited' \in [Vertex -> Nat],
             UNCHANGED searchVars
      PROVE  TypeOK'
  BY <1>p DEF TypeOK, PcTypes
<1>w. ASSUME pc' \in [Thread -> PcTypes], nodeAge' \in [Vertex -> Nat], WalkUnchanged,
             path' \in [Thread -> Seq(Frame)], locked' \subseteq Vertex, visited' \in [Vertex -> Nat]
      PROVE  TypeOK'
  BY <1>w DEF TypeOK, PcTypes, WalkUnchanged
<1>t. ASSUME pc[t] \in {"walk", "call"}
      PROVE  /\ Top(t) \in Frame /\ Below(t) \in Seq(Frame)
             /\ Top(t).node \in Vertex \cup {NULL} /\ Top(t).todo \in SUBSET Vertex
  BY <1>t, TopIs
<1>e. ASSUME pc' = [pc EXCEPT ![t] = IF t = 0 THEN "wait" ELSE "checkIn"]
      PROVE  pc' \in [Thread -> PcTypes]
  BY <1>a, <1>e DEF PcTypes
<1>1. CASE BeginsTask(t)
  <2>1. task[t] \in Tasks
    BY <1>1, ThreadsAre DEF BeginsTask, PoolOK, OwnerOK, WorkerOK, TypeOK
  <2>2. pc' \in [Thread -> PcTypes] BY <1>1, <1>a, <2>1 DEF BeginsTask, PcTypes, Tasks, Walks
  <2>3. path' \in [Thread -> Seq(Frame)]
    <3>1. [node |-> NULL, todo |-> {Root}] \in Frame BY FramesAre, NullIsNoVertex
    <3>2. <<[node |-> NULL, todo |-> {Root}]>> \in Seq(Frame) BY <3>1
    <3> QED BY <1>1, <1>a, <3>2 DEF BeginsTask
  <2>4. numPlayouts' \in [Thread -> Nat] BY <1>1 DEF BeginsTask, TypeOK
  <2> QED BY <1>1, <2>2, <2>3, <2>4 DEF BeginsTask, TypeOK, PcTypes
<1>2. CASE Enters(t)
  <2>1. PICK v \in Top(t).todo :
          LET rest == Append(Below(t), [Top(t) EXCEPT !.todo = @ \ {v}])
          IN  path' = [path EXCEPT ![t] =
                         IF Done(v) \/ OnPath(t, v) THEN rest
                         ELSE Append(rest, [node |-> v, todo |-> children[v]])]
    BY <1>2 DEF Enters
  <2>2. v \in Vertex BY <1>2, <1>t DEF Enters
  <2>3. children[v] \in SUBSET Vertex BY <2>2, NullIsNoVertex DEF TypeOK
  <2>4. [node |-> v, todo |-> children[v]] \in Frame BY <2>2, <2>3, FramesAre
  <2>5. [Top(t) EXCEPT !.todo = @ \ {v}] \in Frame BY <1>2, <1>t DEF Enters, Frame
  <2> DEFINE rest == Append(Below(t), [Top(t) EXCEPT !.todo = @ \ {v}])
             frame == [node |-> v, todo |-> children[v]]
  <2>6. rest \in Seq(Frame) BY <1>2, <1>t, <2>5 DEF Enters
  <2>7. Append(rest, frame) \in Seq(Frame)
    <3> HIDE DEF rest, frame
    <3> QED BY <2>4, <2>6 DEF frame
  <2>8. path' \in [Thread -> Seq(Frame)]
    <3>1. path' = [path EXCEPT ![t] = IF Done(v) \/ OnPath(t, v) THEN rest ELSE Append(rest, frame)]
      BY <2>1
    <3> HIDE DEF rest, frame
    <3> QED BY <1>a, <2>6, <2>7, <3>1
  <2> QED BY <1>2, <1>a, <1>w, <2>8 DEF Enters, TypeOK
<1>3. CASE Marks(t)
  <2>1. Top(t).node \in Vertex BY <1>3, <1>t DEF Marks
  <2>2. nodeAge' \in [Vertex -> Nat] /\ visited' \in [Vertex -> Nat] BY <1>3, <2>1 DEF Marks, TypeOK
  <2>3. path' \in [Thread -> Seq(Frame)] BY <1>3, <1>a, <1>t DEF Marks
  <2> QED BY <1>3, <1>a, <1>w, <2>2, <2>3 DEF Marks, TypeOK
<1>4. CASE Calls(t)
  <2>1. Top(t).node \in Vertex BY <1>4, <1>t DEF Calls
  <2>2. pc' \in [Thread -> PcTypes] /\ visited' \in [Vertex -> Nat] /\ locked' \subseteq Vertex
        /\ nodeAge' \in [Vertex -> Nat]
    <3>1. CASE Done(Top(t).node) BY <1>4, <1>a, <3>1 DEF Calls, TypeOK
    <3>2. CASE ~Done(Top(t).node)
      <4>1. pc' \in [Thread -> PcTypes] BY <1>4, <1>a, <3>2 DEF Calls, PcTypes
      <4>2. visited' \in [Vertex -> Nat] /\ locked' \subseteq Vertex /\ nodeAge' \in [Vertex -> Nat]
        BY <1>4, <2>1, <3>2 DEF Calls, TypeOK
      <4> QED BY <4>1, <4>2
    <3> QED BY <3>1, <3>2
  <2>3. path' \in [Thread -> Seq(Frame)] BY <1>4, <1>a, <1>t DEF Calls
  <2> QED BY <1>4, <1>w, <2>2, <2>3 DEF Calls
<1>5. CASE CallReturns(t)
  <2>1. Top(t).node \in Vertex
    BY <1>5, CallIs DEF CallReturns
  <2>2. nodeAge' \in [Vertex -> Nat] /\ locked' \subseteq Vertex /\ pc' \in [Thread -> PcTypes]
    BY <1>5, <1>a, <2>1 DEF CallReturns, TypeOK, PcTypes
  <2>3. path' \in [Thread -> Seq(Frame)] BY <1>5, <1>a, <1>t DEF CallReturns
  <2> QED BY <1>5, <1>w, <2>2, <2>3 DEF CallReturns, TypeOK
<1>6. CASE EndsWalk(t)
  BY <1>6, <1>a, <1>e, <1>w DEF EndsWalk, TypeOK
<1>7. CASE Sweeps(t)
  <2>1. PICK gone \in SUBSET table : TRUE /\ table' = table \ gone
                 /\ children' = [v \in Vertex |-> IF v \in gone THEN {} ELSE children[v]]
                 /\ nodeAge' = [v \in Vertex |-> IF v \in gone THEN 0 ELSE nodeAge[v]]
    BY <1>7 DEF Sweeps, Part
  <2>2. table' \subseteq Node /\ children' \in [Vertex -> SUBSET Node] /\ nodeAge' \in [Vertex -> Nat]
    BY <2>1 DEF TypeOK
  <2> QED BY <1>7, <1>e, <2>2 DEF Sweeps, TypeOK, PcTypes
<1>8. CASE ChecksLimits(t)
  <2>1. pc' \in [Thread -> PcTypes] /\ shouldStopNow' \in BOOLEAN
    BY <1>8, <1>a, <1>e DEF ChecksLimits, PcTypes, TypeOK
  <2> QED BY <1>8, <2>1 DEF ChecksLimits, SearchUnchanged, TypeOK, PcTypes
<1>9. CASE runSinglePlayout(t)
  <2>1. pc' \in [Thread -> PcTypes] /\ numPlayoutsShared' \in Nat /\ numPlayouts' \in [Thread -> Nat]
    BY <1>9, <1>a DEF runSinglePlayout, PcTypes, TypeOK
  <2>2. table' \subseteq Node /\ children' \in [Vertex -> SUBSET Node] /\ nodeAge' \in [Vertex -> Nat]
    <3>1. CASE UNCHANGED <<table, children>> /\ nodeAge' = [nodeAge EXCEPT ![Root] = searchNodeAge]
      BY <3>1 DEF TypeOK
    <3>2. ASSUME NEW v \in Reachable, NEW evaluated \in BOOLEAN, NEW linked \in BOOLEAN,
                 NEW n \in leadsTo[v] \ children[v], table' = table \cup {n},
                 children' = IF linked THEN [children EXCEPT ![v] = @ \cup {n}] ELSE children,
                 nodeAge' = [nodeAge EXCEPT ![Root] = searchNodeAge,
                                            ![n] = IF evaluated THEN searchNodeAge ELSE @]
          PROVE  /\ table' \subseteq Node /\ children' \in [Vertex -> SUBSET Node]
                 /\ nodeAge' \in [Vertex -> Nat]
      <4>1. v \in Vertex BY DEF Reachable, ReachableFrom
      <4>2. n \in Node BY <4>1, TreeAssumption DEF Vertex
      <4> QED BY <3>2, <4>1, <4>2 DEF TypeOK
    <3> QED BY <1>9, <3>1, <3>2 DEF runSinglePlayout
  <2> QED BY <1>9, <2>1, <2>2 DEF runSinglePlayout, SearchUnchanged, TypeOK, PcTypes
<1> QED BY <1>1, <1>2, <1>3, <1>4, <1>5, <1>6, <1>7, <1>8, <1>9 DEF Works

\* Every step keeps the types.
LEMMA TypesStep ==
  ASSUME IInv, [Next]_vars
  PROVE  TypeOK'
<1> USE DEF IInv
<1>1. CASE Owner \/ OwnerGoesOn BY <1>1, OwnerTypes
<1>2. CASE PreparesTask \/ SpawnsThreads \/ PushesTask \/ waitUntilZero BY <1>2, PoolTypes
<1>3. CASE \E t \in Thread : Works(t) BY <1>3, WorkTypes
<1>4. CASE Stop
  BY <1>4 DEF Stop, TypeOK, poolVars, walkVars, treeVars, ageVars
<1>5. ASSUME NEW w \in Worker, PopsTask(w) PROVE TypeOK'
  <2>1. Head(threadTasks[w]) \in Tasks /\ Tail(threadTasks[w]) \in Seq(Tasks) /\ w \in Thread
    BY <1>5, ThreadsAre DEF PopsTask, TypeOK
  <2> QED BY <1>5, <2>1 DEF PopsTask, TypeOK, Goto, walkVars, searchVars, treeVars, ageVars
<1>6. ASSUME NEW w \in Worker, ChecksIn(w) PROVE TypeOK'
  <2>1. threadTasksRemaining' \in Nat
    <3>1. task[w] # NULL BY <1>6 DEF ChecksIn, PoolOK, WorkerOK
    <3> QED BY <1>6, <3>1, WorkerOwes DEF ChecksIn
  <2>2. pc' \in [Thread -> PcTypes] /\ task' \in [Thread -> Tasks \cup {NULL}]
    BY <1>6, ThreadsAre DEF ChecksIn, TypeOK, PcTypes
  <2> QED BY <1>6, <2>1, <2>2 DEF ChecksIn, TypeOK, PcTypes, walkVars, searchVars, treeVars, ageVars
<1>7. CASE UNCHANGED vars
  BY <1>7 DEF TypeOK, vars, poolVars, walkVars, searchVars, treeVars, ageVars
<1> QED BY <1>1, <1>2, <1>3, <1>4, <1>5, <1>6, <1>7, ThreadsAre DEF Next, Pool, WorkerGoesOn

-----------------------------------------------------------------------------
(* The pool.                                                               *)

\* A thread that is busy goes on, or ends its task.
LEMMA BusyGoesOn ==
  ASSUME TypeOK, PoolOK, NEW t \in Thread, pc[t] \in Busy,
         NEW next, next \in Busy \/ next = IF t = 0 THEN "wait" ELSE "checkIn",
         pc' = [pc EXCEPT ![t] = next],
         next \in {"walk", "call"} => task[t] \in Walks,
         next = "call" => task[t] = "recompute",
         next \in Sweeping \cup {"search"} => task[t] = next,
         next = "playout" => task[t] = "search",
         UNCHANGED <<agenda, numThreads, poolVars, task>>
  PROVE  PoolOK'
<1> USE DEF poolVars
<1>a. /\ \A u \in Thread : pc'[u] = IF u = t THEN next ELSE pc[u]
      /\ 0 \in Thread /\ Worker \subseteq Thread /\ 0 \notin Worker
  BY ThreadsAre DEF TypeOK
<1>b. next \notin {"idle", "spawn", "push", "asleep"} BY DEF Busy
<1>1. OwnerOK'
  <2>1. CASE t = 0
    <3>1. pc[0] \notin {"idle", "spawn", "push"} /\ pc'[0] = next /\ next # "checkIn"
      BY <1>a, <2>1 DEF Busy
    <3> QED BY <1>b, <3>1 DEF PoolOK, OwnerOK
  <2>2. CASE t # 0
    <3>1. pc'[0] = pc[0] BY <1>a, <2>2
    <3> QED BY <3>1 DEF PoolOK, OwnerOK
  <2> QED BY <2>1, <2>2
<1>2. ASSUME NEW w \in Worker PROVE WorkerOK(w)'
  <2>1. CASE w = t
    <3>1. pc[w] # "idle" /\ pc'[w] = next /\ next # "idle" /\ next \in Busy \cup {"checkIn"}
      BY <1>a, <1>b, <2>1 DEF Busy
    <3> QED BY <3>1 DEF PoolOK, WorkerOK
  <2>2. CASE w # t
    <3>1. pc'[w] = pc[w] BY <1>a, <2>2
    <3> QED BY <3>1 DEF PoolOK, WorkerOK
  <2> QED BY <2>1, <2>2
<1>3. ASSUME NEW u \in Thread PROVE WorksOnTask(u)'
  BY <1>a DEF PoolOK, WorksOnTask, Sweeping
<1>4. (threadTasksRemaining = Cardinality(Owing))'
  BY DEF PoolOK, Owing
<1> QED BY <1>1, <1>2, <1>3, <1>4 DEF PoolOK

\* A step that gives and ends no task.
LEMMA PoolRests ==
  ASSUME PoolOK, UNCHANGED <<agenda, numThreads, poolVars, pc, task>>
  PROVE  PoolOK'
BY DEF PoolOK, OwnerOK, WorkerOK, WorksOnTask, Owing, poolVars

\* A thread without a task waits for one.
LEMMA RestingOwner ==
  ASSUME TypeOK, PoolOK, pc[0] \in {"idle", "spawn"}
  PROVE  /\ helpers = 0 /\ pushed = 0 /\ Owing = {} /\ threadTasksRemaining = 0
         /\ \A w \in Worker : pc[w] = "idle" /\ task[w] = NULL /\ threadTasks[w] = <<>>
<1>1. helpers = 0 /\ pushed = 0 BY DEF PoolOK, OwnerOK
<1>2. ASSUME NEW w \in Worker PROVE pc[w] = "idle" /\ task[w] = NULL /\ threadTasks[w] = <<>>
  <2>1. ~(w <= pushed) BY <1>1, ThreadsAre
  <2> QED BY <2>1 DEF PoolOK, WorkerOK
<1>3. Owing = {} BY <1>1, ThreadsAre DEF Owing
<1> QED BY <1>1, <1>2, <1>3, FS_EmptySet DEF PoolOK

\* The owner's own steps between tasks.
LEMMA PoolWhenFree ==
  ASSUME TypeOK, PoolOK, pc[0] = "idle", UNCHANGED <<poolVars, pc, task>>, numThreads' \in 1..MaxThreads
  PROVE  PoolOK'
<1>1. helpers = 0 /\ task[0] = NULL BY DEF PoolOK, OwnerOK
<1>2. OwnerOK' BY <1>1, TreeAssumption DEF PoolOK, OwnerOK, poolVars
<1> QED BY <1>2 DEF PoolOK, WorkerOK, WorksOnTask, Owing, poolVars

\* Every step keeps the counting of the pool.
LEMMA PoolStep ==
  ASSUME IInv, [Next]_vars
  PROVE  PoolOK'
<1> USE DEF IInv
<1>a. /\ 0 \in Thread /\ Worker \subseteq Thread /\ 0 \notin Worker /\ Worker = 1..MaxThreads - 1
      /\ MaxThreads \in Nat \ {0} /\ Thread = Worker \cup {0}
  BY ThreadsAre, TreeAssumption
<1>1. CASE Owner
  BY <1>1, <1>a, TypesStep, PoolWhenFree
     DEF Owner, clearSearch, setNumThreads, makeMove, runWholeSearch, OwnerIsFree, OwnerUnchanged, TypeOK
<1>2. CASE OwnerGoesOn
  BY <1>2, TypesStep, PoolWhenFree DEF OwnerGoesOn, TypeOK
<1>3. CASE PreparesTask
  <2>1. /\ pc'[0] = "spawn" /\ task'[0] = Head(agenda) /\ agenda # <<>> /\ Head(agenda) \in Tasks
        /\ pc[0] = "idle" /\ UNCHANGED <<agenda, numThreads, poolVars>>
        /\ \A w \in Worker : pc'[w] = pc[w] /\ task'[w] = task[w]
    BY <1>3, <1>a DEF PreparesTask, Goto, TypeOK
  <2>2. Head(agenda) # NULL BY <2>1, TreeAssumption
  <2>3. OwnerOK' BY <2>1, <2>2 DEF PoolOK, OwnerOK, poolVars
  <2>4. ASSUME NEW w \in Worker PROVE WorkerOK(w)'
    <3>1. task[w] = NULL /\ threadTasks[w] = <<>> BY <2>1, RestingOwner
    <3> QED BY <2>1, <3>1 DEF PoolOK, WorkerOK, poolVars
  <2>5. ASSUME NEW t \in Thread PROVE WorksOnTask(t)'
    BY <1>a, <2>1 DEF PoolOK, WorksOnTask, Sweeping
  <2>6. (threadTasksRemaining = Cardinality(Owing))'
    <3>1. Owing' = Owing
      <4>1. 1..helpers \subseteq Worker BY <1>a DEF TypeOK
      <4> QED BY <2>1, <4>1 DEF Owing, poolVars
    <3> QED BY <2>1, <3>1 DEF PoolOK, poolVars
  <2> QED BY <2>3, <2>4, <2>5, <2>6 DEF PoolOK
<1>4. CASE SpawnsThreads
  <2>1. /\ pc[0] = "spawn" /\ pushed' = 0 /\ threadTasksRemaining' = threadTasksRemaining + helpers'
        /\ UNCHANGED <<agenda, numThreads, threadTasks, task>>
        /\ pc' = [pc EXCEPT ![0] = IF helpers' = 0 THEN "begin" ELSE "push"]
    BY <1>4 DEF SpawnsThreads, Goto
  <2>2. /\ pc'[0] = IF helpers' = 0 THEN "begin" ELSE "push"
        /\ \A w \in Worker : pc'[w] = pc[w]
    BY <1>a, <2>1 DEF TypeOK
  <2>3. PICK capThreads \in IF task[0] = "search" THEN 1..MaxThreads ELSE {MaxThreads} :
          helpers' = Min({capThreads - 1, numThreads - 1})
    BY <1>4 DEF SpawnsThreads
  <2>4. capThreads - 1 \in Nat /\ numThreads - 1 \in Nat /\ numThreads - 1 <= MaxThreads - 1
    BY <1>a DEF TypeOK
  <2>5. /\ helpers' \in {capThreads - 1, numThreads - 1}
        /\ helpers' <= capThreads - 1 /\ helpers' <= numThreads - 1
    BY <2>3, <2>4, LeastOfTwo
  <2>6. task[0] # "search" => helpers' = numThreads - 1 BY <2>3, <2>4, <2>5
  <2>7. OwnerOK'
    <3>1. task[0] # NULL /\ agenda # <<>> /\ task[0] = Head(agenda) BY <2>1 DEF PoolOK, OwnerOK
    <3>2. helpers' \in Nat /\ helpers' < numThreads BY <2>4, <2>5, <1>a DEF TypeOK
    <3> QED BY <2>1, <2>2, <2>6, <3>1, <3>2 DEF OwnerOK
  <2>8. ASSUME NEW w \in Worker PROVE WorkerOK(w)'
    BY <2>1, <2>2, RestingOwner DEF PoolOK, WorkerOK
  <2>9. ASSUME NEW t \in Thread PROVE WorksOnTask(t)'
    BY <1>a, <2>1, <2>2 DEF PoolOK, WorksOnTask, Sweeping
  <2>10. (threadTasksRemaining = Cardinality(Owing))'
    <3>1. threadTasksRemaining = 0 BY <2>1, RestingOwner
    <3>2. helpers' \in Nat BY <2>4, <2>5
    <3>3. Owing' = 1..helpers' BY <2>1, <3>2 DEF Owing
    <3>4. Cardinality(1..helpers') = helpers' BY <3>2, FS_Interval
    <3> QED BY <2>1, <3>1, <3>2, <3>3, <3>4
  <2> QED BY <2>7, <2>8, <2>9, <2>10 DEF PoolOK
<1>5. CASE PushesTask
  <2>1. /\ pc[0] = "push" /\ pushed' = pushed + 1
        /\ threadTasks' = [threadTasks EXCEPT ![pushed'] = Append(@, task[0])]
        /\ UNCHANGED <<agenda, numThreads, threadTasksRemaining, helpers, task>>
        /\ pc' = [pc EXCEPT ![0] = IF pushed' = helpers THEN "begin" ELSE "push"]
    BY <1>5 DEF PushesTask, Goto
  <2>2. /\ pc'[0] = IF pushed' = helpers THEN "begin" ELSE "push"
        /\ \A w \in Worker : pc'[w] = pc[w]
    BY <1>a, <2>1 DEF TypeOK
  <2>3. pushed < helpers /\ helpers \in Nat /\ pushed \in Nat /\ pushed' \in 1..helpers /\ pushed' \in Worker
    BY <1>a, <2>1 DEF PoolOK, OwnerOK, TypeOK
  <2>4. threadTasks[pushed'] = <<>> /\ task[pushed'] = NULL
    <3>1. ~(pushed' <= pushed) BY <2>1, <2>3
    <3> QED BY <2>3, <3>1 DEF PoolOK, WorkerOK
  <2>5. \A w \in Worker : threadTasks'[w] = IF w = pushed' THEN <<task[0]>> ELSE threadTasks[w]
    <3>1. Append(threadTasks[pushed'], task[0]) = <<task[0]>> BY <2>4
    <3> QED BY <2>1, <2>3, <3>1 DEF TypeOK
  <2>6. OwnerOK' BY <2>1, <2>2, <2>3 DEF PoolOK, OwnerOK
  <2>7. ASSUME NEW w \in Worker PROVE WorkerOK(w)'
    <3>1. w <= pushed => w <= pushed' BY <1>a, <2>1, <2>3
    <3> QED BY <2>1, <2>2, <2>3, <2>4, <2>5, <3>1 DEF PoolOK, WorkerOK
  <2>8. ASSUME NEW t \in Thread PROVE WorksOnTask(t)'
    BY <1>a, <2>1, <2>2 DEF PoolOK, WorksOnTask, Sweeping
  <2>9. Owing' = Owing
    <3>1. 1..helpers \subseteq Worker BY <1>a DEF TypeOK
    <3>2. ASSUME NEW w \in 1..helpers
          PROVE  (w > pushed \/ threadTasks[w] # <<>> \/ task[w] # NULL)
                 <=> (w > pushed' \/ threadTasks'[w] # <<>> \/ task'[w] # NULL)
      <4>1. w > pushed <=> w > pushed' \/ w = pushed' BY <2>1, <2>3
      <4>2. threadTasks'[w] = IF w = pushed' THEN <<task[0]>> ELSE threadTasks[w] BY <2>5, <3>1
      <4> QED BY <2>1, <4>1, <4>2
    <3> QED BY <2>1, <3>2 DEF Owing
  <2> QED BY <2>1, <2>6, <2>7, <2>8, <2>9 DEF PoolOK
<1>6. CASE waitUntilZero
  <2>1. pc[0] = "wait" /\ UNCHANGED <<numThreads, threadTasks, threadTasksRemaining>>
    BY <1>6 DEF waitUntilZero
  <2>2. CASE helpers = 0 \/ threadTasksRemaining = 0
    <3>1. /\ pc' = [pc EXCEPT ![0] = "idle"] /\ task' = [task EXCEPT ![0] = NULL]
          /\ helpers' = 0 /\ pushed' = 0
      BY <1>6, <2>2 DEF waitUntilZero, LocalsEnd, Goto
    <3>2. Owing = {}
      <4>1. CASE helpers = 0 BY <4>1 DEF Owing
      <4>2. CASE threadTasksRemaining = 0 BY <4>2, OwingIs, FS_EmptySet DEF PoolOK
      <4> QED BY <2>2, <4>1, <4>2
    <3>3. pushed = helpers /\ pushed \in Nat BY <2>1 DEF PoolOK, OwnerOK, TypeOK
    <3>4. \A w \in Worker : task[w] = NULL /\ threadTasks[w] = <<>> /\ pc[w] = "idle"
      <4> SUFFICES ASSUME NEW w \in Worker PROVE task[w] = NULL /\ threadTasks[w] = <<>> /\ pc[w] = "idle"
        OBVIOUS
      <4>1. CASE w <= pushed
        <5>1. w \in 1..helpers BY <1>a, <3>3, <4>1
        <5> QED BY <3>2, <5>1 DEF Owing, PoolOK, WorkerOK
      <4>2. CASE ~(w <= pushed) BY <4>2 DEF PoolOK, WorkerOK
      <4> QED BY <4>1, <4>2
    <3>5. /\ pc'[0] = "idle" /\ task'[0] = NULL
          /\ \A w \in Worker : pc'[w] = pc[w] /\ task'[w] = task[w]
      BY <1>a, <3>1 DEF TypeOK
    <3>6. OwnerOK'
      <4>1. numThreads \in Nat /\ 0 < numThreads BY DEF TypeOK
      <4> QED BY <2>1, <3>1, <3>5, <4>1 DEF OwnerOK
    <3>7. \A w \in Worker : WorkerOK(w)' BY <2>1, <3>4, <3>5 DEF WorkerOK
    <3>8. \A t \in Thread : WorksOnTask(t)' BY <1>a, <3>4, <3>5 DEF WorksOnTask, Sweeping
    <3>9. Owing' = {} BY <3>1 DEF Owing
    <3>10. threadTasksRemaining' = 0 BY <2>1, <3>2, FS_EmptySet DEF PoolOK
    <3> QED BY <3>6, <3>7, <3>8, <3>9, <3>10, FS_EmptySet DEF PoolOK
  <2>3. CASE ~(helpers = 0 \/ threadTasksRemaining = 0)
    <3>1. pc' = [pc EXCEPT ![0] = "asleep"] /\ UNCHANGED <<task, agenda, helpers, pushed>>
      BY <1>6, <2>3 DEF waitUntilZero, Goto
    <3>2. pc'[0] = "asleep" /\ \A w \in Worker : pc'[w] = pc[w] BY <1>a, <3>1 DEF TypeOK
    <3>3. OwnerOK' BY <2>1, <3>1, <3>2 DEF PoolOK, OwnerOK
    <3>4. \A w \in Worker : WorkerOK(w)' BY <2>1, <3>1, <3>2 DEF PoolOK, WorkerOK
    <3>5. \A t \in Thread : WorksOnTask(t)' BY <1>a, <3>1, <3>2 DEF PoolOK, WorksOnTask, Sweeping
    <3>6. Owing' = Owing BY <2>1, <3>1 DEF Owing
    <3> QED BY <2>1, <3>3, <3>4, <3>5, <3>6 DEF PoolOK
  <2> QED BY <2>2, <2>3
<1>7. CASE Stop
  BY <1>7, PoolRests DEF Stop
<1>8. ASSUME NEW t \in Thread, Works(t) PROVE PoolOK'
  <2> USE DEF Goto, EndsTask
  <2>a. pc[t] \in Busy /\ WorksOnTask(t)
    BY <1>8 DEF Works, BeginsTask, Enters, Marks, Calls, CallReturns, EndsWalk, Sweeps, ChecksLimits,
                runSinglePlayout, Busy, PoolOK
  <2>b. pc \in [Thread -> PcTypes] BY DEF TypeOK, PcTypes
  <2>1. CASE BeginsTask(t)
    <3>1. task[t] \in Tasks BY <2>1, <1>a DEF BeginsTask, PoolOK, OwnerOK, WorkerOK, TypeOK
    <3> DEFINE next == IF task[t] \in Walks THEN "walk" ELSE task[t]
    <3>2. /\ next \in Busy /\ next # "call" /\ next # "playout"
          /\ next \in Sweeping \cup {"search"} => task[t] = next
          /\ next = "walk" => task[t] \in Walks
      BY <3>1 DEF Tasks, Walks, Busy, Sweeping
    <3>3. pc' = [pc EXCEPT ![t] = next] /\ UNCHANGED <<agenda, numThreads, poolVars, task>>
      BY <2>1 DEF BeginsTask
    <3> HIDE DEF next
    <3> QED BY <2>a, <3>2, <3>3, BusyGoesOn
  <2>2. CASE Enters(t) \/ Marks(t)
    BY <2>2, PoolRests DEF Enters, Marks, WalkUnchanged
  <2>3. CASE Calls(t)
    <3>1. CASE Done(Top(t).node)
      BY <2>3, <3>1, PoolRests DEF Calls, WalkUnchanged
    <3>2. CASE ~Done(Top(t).node)
      <4>1. pc' = [pc EXCEPT ![t] = "call"] /\ task[t] = "recompute"
            /\ UNCHANGED <<agenda, numThreads, poolVars, task>>
        BY <2>3, <3>2 DEF Calls, WalkUnchanged
      <4> QED BY <2>a, <4>1, BusyGoesOn DEF Busy, Sweeping, Walks
    <3> QED BY <3>1, <3>2
  <2>4. CASE CallReturns(t)
    <3>1. pc' = [pc EXCEPT ![t] = "walk"] /\ task[t] \in Walks
          /\ UNCHANGED <<agenda, numThreads, poolVars, task>>
      BY <2>4, <2>a DEF CallReturns, WalkUnchanged, WorksOnTask
    <3> QED BY <2>a, <3>1, BusyGoesOn DEF Busy, Sweeping
  <2>e. ASSUME pc' = [pc EXCEPT ![t] = IF t = 0 THEN "wait" ELSE "checkIn"],
               UNCHANGED <<agenda, numThreads, poolVars, task>>
        PROVE  PoolOK'
    <3> DEFINE next == IF t = 0 THEN "wait" ELSE "checkIn"
    <3>1. next \notin {"walk", "call", "sweep", "deleteAll", "search", "playout"} OBVIOUS
    <3>2. pc' = [pc EXCEPT ![t] = next] BY <2>e
    <3>3. next = IF t = 0 THEN "wait" ELSE "checkIn" OBVIOUS
    <3> HIDE DEF next
    <3> QED BY <2>a, <2>e, <3>1, <3>2, <3>3, BusyGoesOn DEF Sweeping
  <2>5. CASE EndsWalk(t)
    BY <2>5, <2>e DEF EndsWalk, WalkUnchanged
  <2>6. CASE Sweeps(t)
    BY <2>6, <2>e DEF Sweeps
  <2>7. CASE ChecksLimits(t)
    <3>1. task[t] = "search" /\ UNCHANGED <<agenda, numThreads, poolVars, task>>
      BY <2>7, <2>a DEF ChecksLimits, WorksOnTask, SearchUnchanged, Sweeping
    <3>2. CASE numPlayouts[t] >= MaxPlayouts \/ shouldStopNow
      BY <2>7, <2>e, <3>1, <3>2 DEF ChecksLimits
    <3>3. CASE ~(numPlayouts[t] >= MaxPlayouts \/ shouldStopNow)
      <4>1. pc' = [pc EXCEPT ![t] = "playout"] BY <2>7, <3>3 DEF ChecksLimits
      <4> QED BY <2>a, <3>1, <4>1, BusyGoesOn DEF Busy, Sweeping
    <3> QED BY <3>2, <3>3
  <2>8. CASE runSinglePlayout(t)
    <3>1. pc' = [pc EXCEPT ![t] = "search"] /\ task[t] = "search"
          /\ UNCHANGED <<agenda, numThreads, poolVars, task>>
      BY <2>8, <2>a DEF runSinglePlayout, WorksOnTask, SearchUnchanged
    <3> QED BY <2>a, <3>1, BusyGoesOn DEF Busy, Sweeping
  <2> QED BY <1>8, <2>1, <2>2, <2>3, <2>4, <2>5, <2>6, <2>7, <2>8 DEF Works
<1>9. ASSUME NEW w \in Worker, PopsTask(w) PROVE PoolOK'
  <2>1. /\ pc[w] = "idle" /\ threadTasks[w] # <<>>
        /\ task' = [task EXCEPT ![w] = Head(threadTasks[w])]
        /\ threadTasks' = [threadTasks EXCEPT ![w] = Tail(@)]
        /\ pc' = [pc EXCEPT ![w] = "begin"]
        /\ UNCHANGED <<agenda, numThreads, threadTasksRemaining, helpers, pushed>>
    BY <1>9 DEF PopsTask, Goto
  <2>2. threadTasks[w] = <<task[0]>> /\ w <= pushed /\ task[w] = NULL
    BY <2>1 DEF PoolOK, WorkerOK
  <2>3. Head(threadTasks[w]) = task[0] /\ Tail(threadTasks[w]) = <<>> BY <2>2
  <2>4. pc'[0] = pc[0] /\ task'[0] = task[0] BY <1>a, <2>1 DEF TypeOK
  <2>5. \A v \in Worker : /\ pc'[v] = IF v = w THEN "begin" ELSE pc[v]
                          /\ task'[v] = IF v = w THEN task[0] ELSE task[v]
                          /\ threadTasks'[v] = IF v = w THEN <<>> ELSE threadTasks[v]
    BY <1>a, <2>1, <2>3 DEF TypeOK
  <2>6. task[0] # NULL
    <3>1. threadTasks[w] \in Seq(Tasks) BY DEF TypeOK
    <3>2. task[0] \in Tasks BY <2>2, <2>3, <3>1
    <3> QED BY <3>2, TreeAssumption
  <2>7. OwnerOK' BY <2>1, <2>4 DEF PoolOK, OwnerOK
  <2>8. ASSUME NEW v \in Worker PROVE WorkerOK(v)'
    BY <2>1, <2>2, <2>4, <2>5, <2>6 DEF PoolOK, WorkerOK, Busy
  <2>9. ASSUME NEW t \in Thread PROVE WorksOnTask(t)'
    BY <1>a, <2>4, <2>5 DEF PoolOK, WorksOnTask, Sweeping
  <2>10. Owing' = Owing
    <3>1. 1..helpers \subseteq Worker BY <1>a DEF TypeOK
    <3>2. \A v \in 1..helpers : v > pushed \/ threadTasks[v] # <<>> \/ task[v] # NULL
                            <=> v > pushed \/ threadTasks'[v] # <<>> \/ task'[v] # NULL
      BY <2>1, <2>5, <2>6, <3>1
    <3> QED BY <2>1, <3>2 DEF Owing
  <2> QED BY <2>1, <2>7, <2>8, <2>9, <2>10 DEF PoolOK
<1>10. ASSUME NEW w \in Worker, ChecksIn(w) PROVE PoolOK'
  <2>1. /\ pc[w] = "checkIn" /\ threadTasksRemaining' = threadTasksRemaining - 1
        /\ task' = [task EXCEPT ![w] = NULL]
        /\ UNCHANGED <<agenda, numThreads, threadTasks, helpers, pushed>>
        /\ pc' = [pc EXCEPT ![w] = "idle",
                            ![0] = IF threadTasksRemaining' = 0 /\ @ = "asleep" THEN "wait" ELSE @]
    BY <1>10 DEF ChecksIn
  <2>2. task[w] # NULL BY <2>1 DEF PoolOK, WorkerOK
  <2>3. w \in Owing /\ threadTasksRemaining \in Nat \ {0} BY <2>2, WorkerOwes
  <2>4. /\ pc'[0] = pc[0] \/ (pc[0] = "asleep" /\ pc'[0] = "wait")
        /\ task'[0] = task[0]
    <3>1. pc'[0] = IF threadTasksRemaining' = 0 /\ pc[0] = "asleep" THEN "wait" ELSE pc[0]
      BY <1>a, <2>1 DEF TypeOK
    <3>2. task'[0] = task[0] BY <1>a, <2>1 DEF TypeOK
    <3> QED BY <3>1, <3>2
  <2>5. \A v \in Worker : /\ pc'[v] = IF v = w THEN "idle" ELSE pc[v]
                          /\ task'[v] = IF v = w THEN NULL ELSE task[v]
    BY <1>a, <2>1 DEF TypeOK
  <2>6. OwnerOK' BY <2>1, <2>4 DEF PoolOK, OwnerOK
  <2>7. threadTasks[w] = <<>> /\ w <= pushed BY <2>2 DEF PoolOK, WorkerOK
  <2>8. ASSUME NEW v \in Worker PROVE WorkerOK(v)'
    <3>1. WorkerOK(v) BY DEF PoolOK
    <3>2. CASE v = w
      <4>1. pc'[v] = "idle" /\ task'[v] = NULL /\ threadTasks'[v] = <<>> BY <2>1, <2>5, <2>7, <3>2
      <4> QED BY <4>1 DEF WorkerOK
    <3>3. CASE v # w
      <4>1. pc'[v] = pc[v] /\ task'[v] = task[v] /\ task'[0] = task[0] BY <2>4, <2>5, <3>3
      <4> QED BY <2>1, <3>1, <4>1 DEF WorkerOK
    <3> QED BY <3>2, <3>3
  <2>9. ASSUME NEW t \in Thread PROVE WorksOnTask(t)'
    BY <1>a, <2>4, <2>5 DEF PoolOK, WorksOnTask, Sweeping
  <2>10. Owing' = Owing \ {w}
    <3>1. 1..helpers \subseteq Worker /\ pushed \in Nat /\ w \in Nat BY <1>a DEF TypeOK
    <3>2. \A v \in 1..helpers : v > pushed \/ threadTasks'[v] # <<>> \/ task'[v] # NULL
                            <=> v # w /\ (v > pushed \/ threadTasks[v] # <<>> \/ task[v] # NULL)
      BY <2>1, <2>5, <2>7, <3>1
    <3> QED BY <2>1, <3>2 DEF Owing
  <2>11. Cardinality(Owing \ {w}) = Cardinality(Owing) - 1
    BY <2>3, OwingIs, FS_RemoveElement
  <2> QED BY <2>1, <2>6, <2>8, <2>9, <2>10, <2>11 DEF PoolOK
<1>11. CASE UNCHANGED vars
  BY <1>11, PoolRests DEF vars
<1> QED BY <1>1, <1>2, <1>3, <1>4, <1>5, <1>6, <1>7, <1>8, <1>9, <1>10, <1>11, ThreadsAre
        DEF Next, Pool, WorkerGoesOn

-----------------------------------------------------------------------------
(* The limit of playouts.                                                  *)

\* Who has begun no playout has reached the limit only if there are none.
LEMMA PlayersAtLimit ==
  ASSUME NEW h \in 0..MaxThreads - 1, NEW played \in [Thread -> Nat]
  PROVE  LET atLimit == {t \in 0..h : played[t] >= MaxPlayouts}
         IN  /\ atLimit \subseteq 0..h /\ IsFiniteSet(atLimit)
             /\ Cardinality(atLimit) \in Nat /\ Cardinality(atLimit) <= h + 1
             /\ 0..h \subseteq Thread
             /\ (\A t \in Thread : played[t] = 0) => 0 < MaxPlayouts + Cardinality(atLimit)
<1> DEFINE atLimit == {t \in 0..h : played[t] >= MaxPlayouts}
<1>1. h \in Nat /\ MaxThreads \in Nat \ {0} /\ MaxPlayouts \in Nat BY TreeAssumption
<1>2. IsFiniteSet(0..h) /\ Cardinality(0..h) = h + 1 BY <1>1, FS_Interval
<1>3. atLimit \subseteq 0..h OBVIOUS
<1>4. 0..h \subseteq Thread BY <1>1 DEF Thread
<1>5. IsFiniteSet(atLimit) /\ Cardinality(atLimit) \in Nat /\ Cardinality(atLimit) <= h + 1
  BY <1>1, <1>2, <1>3, FS_Subset, FS_CardinalityType
<1>6. ASSUME \A t \in Thread : played[t] = 0, MaxPlayouts = 0 PROVE Cardinality(atLimit) # 0
  <2>1. 0 \in atLimit BY <1>1, <1>6, ThreadsAre
  <2> HIDE DEF atLimit
  <2> QED BY <1>5, <2>1, FS_EmptySet
<1> HIDE DEF atLimit
<1>7. (\A t \in Thread : played[t] = 0) => 0 < MaxPlayouts + Cardinality(atLimit)
  BY <1>1, <1>5, <1>6
<1> QED BY <1>3, <1>4, <1>5, <1>7 DEF atLimit

\* Those at the limit are finitely many threads.
LEMMA AtLimitIs ==
  ASSUME TypeOK
  PROVE  /\ AtLimit \subseteq 0..helpers /\ IsFiniteSet(AtLimit)
         /\ Cardinality(AtLimit) \in Nat /\ Cardinality(AtLimit) <= helpers + 1
         /\ 0..helpers \subseteq Thread
BY PlayersAtLimit DEF AtLimit, TypeOK

\* A step without a playout.
LEMMA LimitRests ==
  ASSUME LimitOK, UNCHANGED <<helpers, numPlayouts, numPlayoutsShared>>,
         \A t \in Thread : pc'[t] = "playout" => pc[t] = "playout" \/ numPlayouts[t] < MaxPlayouts,
         pc'[0] \in {"idle", "spawn"} => pc[0] \in {"idle", "spawn"}
  PROVE  LimitOK'
<1>1. AtLimit' = AtLimit BY DEF AtLimit
<1> QED BY <1>1 DEF LimitOK

\* Every step keeps the overshoot.
LEMMA LimitStep ==
  ASSUME IInv, [Next]_vars
  PROVE  LimitOK'
<1> USE DEF IInv
<1>t. TypeOK' BY TypesStep
<1>p. PoolOK' BY PoolStep
<1>l. /\ IsFiniteSet(AtLimit') /\ Cardinality(AtLimit') \in Nat
      /\ (\A t \in Thread : numPlayouts'[t] = 0) => 0 < MaxPlayouts + Cardinality(AtLimit')
  <2>1. helpers' \in 0..MaxThreads - 1 /\ numPlayouts' \in [Thread -> Nat] BY <1>t DEF TypeOK
  <2> QED BY <2>1, PlayersAtLimit DEF AtLimit
<1>a. 0 \in Thread /\ Worker \subseteq Thread /\ 0 \notin Worker /\ MaxPlayouts \in Nat
      /\ pc \in [Thread -> PcTypes]
  BY ThreadsAre, TreeAssumption DEF TypeOK, PcTypes
<1>z. ASSUME pc[0] \in {"idle", "spawn"}
      PROVE  numPlayoutsShared = 0 /\ \A t \in Thread : numPlayouts[t] = 0
  BY <1>z DEF LimitOK, TypeOK
<1>1. CASE Owner \/ OwnerGoesOn \/ Stop \/ UNCHANGED vars
  BY <1>1, LimitRests
     DEF Owner, clearSearch, setNumThreads, makeMove, runWholeSearch, OwnerUnchanged, OwnerGoesOn, Stop,
         vars, poolVars, searchVars
<1>2. CASE PreparesTask \/ PushesTask
  <2>1. UNCHANGED <<helpers, numPlayouts, numPlayoutsShared>>
    BY <1>2 DEF PreparesTask, PushesTask, poolVars, searchVars
  <2>2. /\ pc[0] \in {"idle", "push"} /\ (pc[0] = "idle" => pc'[0] = "spawn")
        /\ pc[0] = "push" => pc'[0] \in {"begin", "push"}
        /\ \A w \in Worker : pc'[w] = pc[w]
    BY <1>2, <1>a DEF PreparesTask, PushesTask, Goto
  <2>3. \A t \in Thread : pc'[t] = "playout" => pc[t] = "playout" BY <2>2, ThreadsAre
  <2>4. pc'[0] \in {"idle", "spawn"} => pc[0] \in {"idle", "spawn"} BY <2>2
  <2> QED BY <2>1, <2>3, <2>4, LimitRests
<1>3. CASE SpawnsThreads
  <2>1. pc[0] = "spawn" /\ UNCHANGED searchVars BY <1>3 DEF SpawnsThreads
  <2>2. (numPlayoutsShared = 0 /\ \A t \in Thread : numPlayouts[t] = 0)'
    BY <1>z, <2>1 DEF searchVars
  <2>3. \A t \in Thread : pc'[t] # "playout"
    <3>1. pc'[0] \in {"begin", "push"} /\ \A w \in Worker : pc'[w] = pc[w]
      BY <1>3, <1>a DEF SpawnsThreads, Goto
    <3>2. \A w \in Worker : pc[w] = "idle" BY <2>1, RestingOwner
    <3> QED BY <3>1, <3>2, ThreadsAre
  <2>4. (numPlayoutsShared < MaxPlayouts + Cardinality(AtLimit))' BY <1>l, <2>2
  <2> QED BY <2>2, <2>3, <2>4 DEF LimitOK
<1>4. CASE waitUntilZero
  <2>1. CASE LocalsEnd
    <3>1. (numPlayoutsShared = 0 /\ \A t \in Thread : numPlayouts[t] = 0)' BY <2>1 DEF LocalsEnd
    <3>2. (numPlayoutsShared < MaxPlayouts + Cardinality(AtLimit))' BY <1>l, <3>1
    <3>3. \A t \in Thread : pc'[t] # "playout"
      <4>1. helpers' = 0 BY <2>1 DEF LocalsEnd
      <4>2. pc'[0] \in {"idle", "asleep"} BY <1>4, <1>a DEF waitUntilZero, Goto
      <4>3. ASSUME NEW w \in Worker PROVE pc'[w] # "playout"
        <5>1. pushed' = 0 /\ ~(w <= pushed') BY <2>1, ThreadsAre DEF LocalsEnd
        <5>2. task'[w] = NULL BY <1>p, <4>3, <5>1 DEF PoolOK, WorkerOK
        <5> QED BY <1>p, <4>3, <5>2 DEF PoolOK, WorkerOK
      <4> QED BY <4>2, <4>3, ThreadsAre
    <3> QED BY <3>1, <3>2, <3>3 DEF LimitOK
  <2>2. CASE Goto(0, "asleep") /\ UNCHANGED <<helpers, searchVars>>
    <3>1. pc'[0] = "asleep" /\ \A w \in Worker : pc'[w] = pc[w] BY <1>a, <2>2 DEF Goto
    <3>2. \A t \in Thread : pc'[t] = "playout" => pc[t] = "playout" BY <3>1, ThreadsAre
    <3> QED BY <2>2, <3>1, <3>2, LimitRests DEF searchVars
  <2> QED BY <1>4, <2>1, <2>2 DEF waitUntilZero
<1>5. ASSUME NEW w \in Worker, PopsTask(w) \/ ChecksIn(w) PROVE LimitOK'
  <2>1. UNCHANGED <<helpers, numPlayouts, numPlayoutsShared>>
    BY <1>5 DEF PopsTask, ChecksIn, searchVars
  <2>2. \A t \in Thread : pc'[t] = pc[t] \/ pc'[t] \in {"begin", "idle", "wait"}
    BY <1>5, <1>a DEF PopsTask, ChecksIn, Goto
  <2>3. pc'[0] = pc[0] \/ pc'[0] = "wait"
    <3>1. CASE PopsTask(w) BY <1>a, <3>1 DEF PopsTask, Goto
    <3>2. CASE ChecksIn(w)
      <4>1. pc'[0] = IF threadTasksRemaining' = 0 /\ pc[0] = "asleep" THEN "wait" ELSE pc[0]
        BY <1>a, <3>2 DEF ChecksIn
      <4> QED BY <4>1
    <3> QED BY <1>5, <3>1, <3>2
  <2>4. \A t \in Thread : pc'[t] = "playout" => pc[t] = "playout" BY <2>2
  <2>5. pc'[0] \in {"idle", "spawn"} => pc[0] \in {"idle", "spawn"} BY <2>3
  <2> QED BY <2>1, <2>4, <2>5, LimitRests
<1>6. ASSUME NEW t \in Thread, Works(t) PROVE LimitOK'
  <2> USE DEF Goto, EndsTask
  <2>t. pc[t] \in Busy
    BY <1>6 DEF Works, BeginsTask, Enters, Marks, Calls, CallReturns, EndsWalk, Sweeps, ChecksLimits,
                runSinglePlayout, Busy
  <2>0. pc'[0] \in {"idle", "spawn"} => pc[0] \in {"idle", "spawn"}
    <3>1. pc'[0] = pc[0] \/ pc'[0] \in Busy \cup {"wait"}
      <4>1. CASE BeginsTask(t)
        <5>1. task[t] \in Tasks BY <4>1, ThreadsAre DEF BeginsTask, PoolOK, OwnerOK, WorkerOK, TypeOK
        <5> QED BY <1>a, <4>1, <5>1 DEF BeginsTask, Busy, Tasks, Walks
      <4>2. CASE Enters(t) \/ Marks(t) \/ Calls(t) \/ CallReturns(t) \/ EndsWalk(t)
        BY <1>a, <4>2 DEF Enters, Marks, Calls, CallReturns, EndsWalk, Busy
      <4>3. CASE Sweeps(t) \/ ChecksLimits(t) \/ runSinglePlayout(t)
        BY <1>a, <4>3 DEF Sweeps, ChecksLimits, runSinglePlayout, Busy
      <4> QED BY <1>6, <4>1, <4>2, <4>3 DEF Works
    <3> QED BY <3>1 DEF Busy
  <2>1. CASE BeginsTask(t)
    <3>1. \A u \in Thread : pc'[u] = pc[u] \/ pc'[u] # "playout"
      <4>1. task[t] \in Tasks BY <2>1, ThreadsAre DEF BeginsTask, PoolOK, OwnerOK, WorkerOK, TypeOK
      <4> QED BY <1>a, <2>1, <4>1 DEF BeginsTask, Tasks, Walks
    <3>2. CASE task[t] # "search"
      BY <2>0, <2>1, <3>1, <3>2, LimitRests DEF BeginsTask, poolVars
    <3>3. CASE task[t] = "search"
      <4>1. numPlayouts' = [numPlayouts EXCEPT ![t] = numPlayoutsShared]
            /\ UNCHANGED <<helpers, numPlayoutsShared>>
        BY <2>1, <3>3 DEF BeginsTask, poolVars
      <4>2. \A u \in Thread : numPlayouts[u] <= numPlayouts'[u] /\ numPlayouts'[u] <= numPlayoutsShared
                              /\ (u # t => numPlayouts'[u] = numPlayouts[u])
        BY <4>1 DEF LimitOK, TypeOK
      <4>3. AtLimit \subseteq AtLimit'
        <5>1. \A u \in 0..helpers : u \in Thread BY AtLimitIs
        <5>2. \A u \in Thread : numPlayouts[u] \in Nat /\ numPlayouts'[u] \in Nat BY <1>t DEF TypeOK
        <5> QED BY <1>a, <4>1, <4>2, <5>1, <5>2 DEF AtLimit
      <4>4. Cardinality(AtLimit) <= Cardinality(AtLimit') /\ Cardinality(AtLimit') \in Nat
            /\ Cardinality(AtLimit) \in Nat
        <5> QED BY <1>l, <4>3, FS_Subset, AtLimitIs
      <4>5. \A u \in Thread : pc'[u] = "playout" => numPlayouts'[u] < MaxPlayouts
        <5>1. pc'[t] = "search" /\ \A u \in Thread \ {t} : pc'[u] = pc[u]
          BY <1>a, <2>1, <3>3 DEF BeginsTask, Walks
        <5> QED BY <4>2, <5>1 DEF LimitOK
      <4>6. pc'[0] \notin {"idle", "spawn"} \/ numPlayoutsShared' = 0 BY <2>0, <4>1 DEF LimitOK
      <4>7. numPlayoutsShared' < MaxPlayouts + Cardinality(AtLimit')
        BY <1>a, <4>1, <4>4 DEF LimitOK, TypeOK
      <4> QED BY <4>1, <4>2, <4>5, <4>6, <4>7 DEF LimitOK
    <3> QED BY <3>2, <3>3
  <2>2. CASE Enters(t) \/ Marks(t) \/ Calls(t) \/ CallReturns(t) \/ EndsWalk(t)
    <3>1. UNCHANGED <<helpers, numPlayouts, numPlayoutsShared>>
      BY <2>2 DEF Enters, Marks, Calls, CallReturns, EndsWalk, WalkUnchanged, poolVars, searchVars
    <3>2. \A u \in Thread : pc'[u] = "playout" => pc[u] = "playout"
      BY <1>a, <2>2 DEF Enters, Marks, Calls, CallReturns, EndsWalk
    <3> QED BY <2>0, <3>1, <3>2, LimitRests
  <2>3. CASE Sweeps(t)
    <3>1. UNCHANGED <<helpers, numPlayouts, numPlayoutsShared>> BY <2>3 DEF Sweeps, poolVars, searchVars
    <3>2. \A u \in Thread : pc'[u] = "playout" => pc[u] = "playout" BY <1>a, <2>3 DEF Sweeps
    <3> QED BY <2>0, <3>1, <3>2, LimitRests
  <2>4. CASE ChecksLimits(t)
    <3>1. UNCHANGED <<helpers, numPlayouts, numPlayoutsShared>>
      BY <2>4 DEF ChecksLimits, SearchUnchanged, poolVars
    <3>2. \A u \in Thread : pc'[u] = "playout" => pc[u] = "playout" \/ numPlayouts[u] < MaxPlayouts
      <4>1. \A u \in Thread : numPlayouts[u] \in Nat BY DEF TypeOK
      <4> QED BY <1>a, <2>4, <4>1 DEF ChecksLimits
    <3> QED BY <2>0, <3>1, <3>2, LimitRests
  <2>5. CASE runSinglePlayout(t)
    <3>1. /\ numPlayoutsShared' = numPlayoutsShared + 1
          /\ numPlayouts' = [numPlayouts EXCEPT ![t] = numPlayoutsShared + 1]
          /\ UNCHANGED helpers /\ pc[t] = "playout"
          /\ pc' = [pc EXCEPT ![t] = "search"]
      BY <2>5 DEF runSinglePlayout, SearchUnchanged, poolVars
    <3>2. numPlayouts[t] < MaxPlayouts BY <3>1 DEF LimitOK
    <3>3. \A u \in Thread : numPlayouts'[u] = IF u = t THEN numPlayoutsShared + 1 ELSE numPlayouts[u]
      BY <3>1 DEF TypeOK
    <3>4. \A u \in Thread : numPlayouts'[u] <= numPlayoutsShared' BY <3>1, <3>3 DEF LimitOK, TypeOK
    <3>5. \A u \in Thread : pc'[u] = "playout" => u # t /\ pc[u] = "playout" BY <1>a, <3>1
    <3>6. \A u \in Thread : pc'[u] = "playout" => numPlayouts'[u] < MaxPlayouts
      BY <3>3, <3>5 DEF LimitOK
    <3>7. numPlayoutsShared' < MaxPlayouts + Cardinality(AtLimit')
      <4>1. CASE numPlayoutsShared + 1 < MaxPlayouts
        <5> QED BY <1>a, <1>l, <3>1, <4>1 DEF TypeOK
      <4>2. CASE ~(numPlayoutsShared + 1 < MaxPlayouts)
        <5>1. t \in 0..helpers
          <6>1. task[t] # NULL /\ pushed \in Nat /\ helpers \in Nat
            BY <3>1, ThreadsAre DEF PoolOK, OwnerOK, WorkerOK, TypeOK
          <6>2. pushed <= helpers BY DEF PoolOK, OwnerOK, TypeOK
          <6>3. t = 0 \/ t <= pushed BY <6>1, ThreadsAre DEF PoolOK, WorkerOK
          <6> QED BY <6>1, <6>2, <6>3, ThreadsAre
        <5>2. t \notin AtLimit BY <1>a, <3>2 DEF AtLimit, TypeOK
        <5>3. AtLimit' = AtLimit \cup {t}
          <6>1. \A u \in 0..helpers : u \in Thread BY AtLimitIs
          <6> QED BY <1>a, <3>1, <3>3, <4>2, <5>1, <6>1 DEF AtLimit, TypeOK
        <5>4. Cardinality(AtLimit') = Cardinality(AtLimit) + 1
          BY <5>2, <5>3, AtLimitIs, FS_AddElement
        <5>5. /\ Cardinality(AtLimit) \in Nat /\ numPlayoutsShared \in Nat
              /\ numPlayoutsShared < MaxPlayouts + Cardinality(AtLimit)
          BY AtLimitIs DEF LimitOK, TypeOK
        <5> QED BY <1>a, <3>1, <5>4, <5>5
      <4> QED BY <4>1, <4>2
    <3>8. pc'[0] \notin {"idle", "spawn"}
      <4>1. pc[0] \notin {"idle", "spawn"}
        <5>1. CASE t = 0 BY <3>1, <5>1
        <5>2. CASE t # 0
          <6>1. pc[t] # "idle" /\ t \in Worker BY <3>1, <5>2, ThreadsAre
          <6> QED BY <6>1, RestingOwner
        <5> QED BY <5>1, <5>2
      <4> QED BY <2>0, <4>1
    <3> QED BY <3>4, <3>6, <3>7, <3>8 DEF LimitOK
  <2> QED BY <1>6, <2>1, <2>2, <2>3, <2>4, <2>5 DEF Works
<1> QED BY <1>1, <1>2, <1>3, <1>4, <1>5, <1>6, ThreadsAre DEF Next, Pool, WorkerGoesOn

-----------------------------------------------------------------------------
(* The tree.                                                               *)

\* The first number with a property up to n.
LEMMA ShardsAreShared ==
  ASSUME NEW k \in Nat \ {0}, NEW s \in 0..NumShards - 1
  PROVE  \E t \in 0..k - 1 :
            s \in (t * NumShards) \div k .. ((t + 1) * NumShards) \div k - 1
<1> DEFINE upTo(t) == (t * NumShards) \div k
           after == {t \in 0..k - 1 : s < upTo(t + 1)}
<1>1. NumShards \in Nat \ {0} BY TreeAssumption
<1>2. \A t \in Nat : t * NumShards \in Nat BY <1>1
<1>3. \A m \in Nat : m \div k \in Nat OBVIOUS
<1>4. \A t \in Nat : upTo(t) \in Nat BY <1>2, <1>3
<1>5. upTo(0) = 0
  <2>1. 0 * NumShards = 0 BY <1>1
  <2>2. 0 \div k = 0 OBVIOUS
  <2> QED BY <2>1, <2>2
<1>6. upTo(k) = NumShards
  <2>1. k * NumShards = NumShards * k BY <1>1
  <2>2. \A m \in Nat : (m * k) \div k = m OBVIOUS
  <2> QED BY <1>1, <2>1, <2>2
<1> HIDE DEF upTo
<1>7. k - 1 \in after
  <2>1. k - 1 \in 0..k - 1 /\ k - 1 + 1 = k /\ s < NumShards BY <1>1
  <2>2. upTo(k - 1 + 1) = NumShards BY <1>6, <2>1, Zenon
  <2> QED BY <2>1, <2>2
<1>8. after \subseteq Nat /\ after # {}
  <2>1. after \subseteq Nat OBVIOUS
  <2> HIDE DEF after
  <2> QED BY <1>7, <2>1
<1>9. PICK t \in after : \A u \in after : t <= u
  <2> HIDE DEF after
  <2> QED BY <1>8, LeastIsMember
<1>10. t \in Nat /\ t \in 0..k - 1 /\ s < upTo(t + 1) BY <1>9
<1>11. upTo(t) <= s
  <2>1. CASE t = 0 BY <1>1, <1>5, <2>1
  <2>2. CASE t # 0
    <3>1. t - 1 \in 0..k - 1 /\ ~(t <= t - 1) BY <1>10, <2>2
    <3>2. ~(s < upTo(t - 1 + 1)) BY <1>9, <3>1
    <3>3. t - 1 + 1 = t BY <1>10
    <3> QED BY <1>1, <1>4, <1>10, <3>2, <3>3
  <2> QED BY <2>1, <2>2
<1>12. s \in upTo(t) .. upTo(t + 1) - 1 BY <1>1, <1>4, <1>10, <1>11
<1> QED BY <1>10, <1>12 DEF upTo

\* The parts of the threads are the whole table.
LEMMA PartsCover ==
  ASSUME TypeOK, NEW n \in table
  PROVE  \E t \in 0..numThreads - 1 : t \in Thread /\ n \in Part(t)
<1>1. numThreads \in Nat \ {0} /\ numThreads <= MaxThreads /\ MaxThreads \in Nat
  BY TreeAssumption DEF TypeOK
<1>2. shardOf[n] \in 0..NumShards - 1 BY TreeAssumption DEF TypeOK
<1>3. PICK t \in 0..numThreads - 1 :
         shardOf[n] \in (t * NumShards) \div numThreads .. ((t + 1) * NumShards) \div numThreads - 1
  BY <1>1, <1>2, ShardsAreShared
<1>4. n \in Part(t) BY <1>3 DEF Part
<1>5. t \in Thread BY <1>1 DEF Thread
<1> QED BY <1>3, <1>4, <1>5

\* All threads work on the task at hand.
LEMMA TaskAtHand ==
  ASSUME TypeOK, PoolOK, NEW t \in Thread, task[t] # NULL
  PROVE  task[0] = task[t] /\ task[t] \in Tasks /\ agenda # <<>> /\ Head(agenda) = task[t]
         /\ pc[0] # "idle"
<1>1. task[t] \in Tasks BY DEF TypeOK
<1>2. task[0] = task[t] BY ThreadsAre DEF PoolOK, WorkerOK
<1> QED BY <1>1, <1>2 DEF PoolOK, OwnerOK

\* When the owner is let go all have checked in.
LEMMA AllAreIn ==
  ASSUME TypeOK, PoolOK, pc[0] = "wait", helpers = 0 \/ threadTasksRemaining = 0
  PROVE  /\ \A w \in Worker : task[w] = NULL /\ pc[w] = "idle" /\ threadTasks[w] = <<>>
         /\ pushed = helpers
<1>1. pushed = helpers BY DEF PoolOK, OwnerOK
<1>2. Owing = {}
  <2>1. CASE helpers = 0 BY <2>1 DEF Owing
  <2>2. CASE threadTasksRemaining = 0 BY <2>2, OwingIs, FS_EmptySet DEF PoolOK
  <2> QED BY <2>1, <2>2
<1>3. ASSUME NEW w \in Worker PROVE task[w] = NULL /\ threadTasks[w] = <<>>
  <2>1. w \in Nat /\ w >= 1 /\ helpers \in Nat BY ThreadsAre DEF TypeOK
  <2>2. CASE w <= helpers BY <1>2, <2>1, <2>2 DEF Owing
  <2>3. CASE ~(w <= helpers) BY <1>1, <2>3 DEF PoolOK, WorkerOK
  <2> QED BY <2>2, <2>3
<1> QED BY <1>1, <1>3 DEF PoolOK, WorkerOK

\* What the tree leads to, while no nodes are deleted.
LEMMA ReachableIs ==
  ASSUME TypeOK
  PROVE  /\ Reachable \subseteq Vertex /\ (hasRoot => Root \in Reachable)
         /\ \A v \in Reachable : \A c \in children[v] : c \in Reachable
         /\ Reachable # {} => hasRoot
BY ReachIsClosed, NullIsNoVertex DEF Reachable, Graph, TypeOK

\* A closed set with the root has what is reachable.
LEMMA ReachableIsLeast ==
  ASSUME TypeOK, NEW cl \in SUBSET Vertex, hasRoot => Root \in cl,
         \A u \in cl : children[u] \subseteq cl
  PROVE  Reachable \subseteq cl
BY ReachIsLeast DEF Reachable

\* What is reachable is in the table, when the tree is whole or is about to be swept.
LEMMA ReachInTable ==
  ASSUME TypeOK, TreeOK, ~Due({"deleteAll", "reset", "sweep"}) \/ Due({"sweep"})
  PROVE  Reachable \subseteq table \cup {Root} /\ \A v \in Reachable : children[v] \subseteq table
<1>1. \A v \in Reachable : children[v] \subseteq table BY ReachableIs DEF TreeOK
<1> DEFINE cl == {v \in Reachable : v \in table \cup {Root}}
<1>2. hasRoot => Root \in cl BY ReachableIs
<1>3. cl \in SUBSET Vertex BY ReachableIs
<1>4. \A u \in cl : children[u] \subseteq cl BY <1>1, ReachableIs
<1>5. Reachable \subseteq cl
  <2> HIDE DEF cl
  <2> QED BY <1>2, <1>3, <1>4, ReachableIsLeast
<1> QED BY <1>1, <1>5

\* When a walk is over, it has marked what is reachable.
LEMMA WalkEnds ==
  ASSUME TypeOK, PoolOK, TreeOK, WalkOK, pc[0] = "wait",
         helpers = 0 \/ threadTasksRemaining = 0, task[0] \in Walks
  PROVE  Marked
<1>1. \A t \in Thread : path[t] = <<>>
  <2>1. \A t \in Thread : pc[t] \notin {"walk", "call"} BY AllAreIn, ThreadsAre
  <2> QED BY <2>1 DEF WalkOK, WalkerOK
<1>2. \A v \in Vertex : ~OnSomePath(v) BY <1>1 DEF OnSomePath, OnPath
<1>3. \A v \in Vertex : Done(v) => v \in Reachable /\ \A c \in children[v] : Done(c)
  <2>1. \A v \in Vertex : children[v] \subseteq Vertex BY NullIsNoVertex DEF TypeOK
  <2> QED BY <1>2, <2>1 DEF WalkOK
<1>4. Done(Root) BY DEF WalkOK
<1> DEFINE cl == {v \in Vertex : Done(v)}
<1>5. Reachable \subseteq cl
  <2>1. Root \in cl BY <1>4, NullIsNoVertex
  <2>2. \A u \in cl : children[u] \subseteq cl BY <1>3, NullIsNoVertex DEF TypeOK
  <2> HIDE DEF cl
  <2>3. cl \in SUBSET Vertex BY DEF cl
  <2> QED BY <2>1, <2>2, <2>3, ReachableIsLeast
<1> QED BY <1>3, <1>5 DEF Marked

\* When a sweep is over, all threads have swept their parts.
LEMMA SweepEnds ==
  ASSUME TypeOK, PoolOK, SweepOK, pc[0] = "wait", helpers = 0 \/ threadTasksRemaining = 0
  PROVE  /\ task[0] = "sweep" => \A n \in table : Done(n)
         /\ task[0] = "deleteAll" => table = {}
<1>1. CASE task[0] \in Sweeping
  <2>1. ASSUME NEW n \in table
        PROVE  \E t \in Thread : n \in Part(t) /\ Swept(t)
    <3>1. PICK t \in 0..numThreads - 1 : t \in Thread /\ n \in Part(t) BY PartsCover
    <3>2. pushed = numThreads - 1 BY <1>1, AllAreIn DEF PoolOK, OwnerOK, Sweeping
    <3>3. numThreads \in Nat BY DEF TypeOK
    <3>4. t # 0 => t \in Worker /\ t <= pushed BY <3>1, <3>2, <3>3, ThreadsAre
    <3>5. Swept(t) BY <3>4, AllAreIn DEF Swept
    <3> QED BY <3>1, <3>5
  <2> QED BY <2>1 DEF SweepOK
<1> QED BY <1>1 DEF Sweeping

\* What a task leaves behind, when the owner goes on.
LEMMA TreeRests ==
  ASSUME TreeOK, UNCHANGED <<agenda, treeVars, ageVars>>
  PROVE  TreeOK'
BY DEF TreeOK, Due, Marked, Done, Reachable, ReachableFrom, treeVars, ageVars

\* After a task that is neither a walk nor the deletion there is none that
\* needs what such a task leaves behind.
LEMMA NextIsDue ==
  ASSUME Planned(agenda), agenda # <<>>, agenda' = Tail(agenda)
  PROVE  /\ Planned(agenda') /\ ~Due(Walks \cup {"deleteAll"})'
         /\ Due({"sweep"})' => Head(agenda) \in Walks
         /\ Due({"reset"})' <=> Head(agenda) = "deleteAll"
<1>1. /\ Planned(Tail(agenda))
      /\ Head(agenda) = "deleteAll" => Tail(agenda) # <<>>
      /\ Tail(agenda) # <<>> => MayFollow(Head(agenda), Head(Tail(agenda)))
  BY PlanGoesOn
<1> QED BY <1>1 DEF MayFollow, Due

\* What the owner does alone: the plans, the reset, the new root and the new age.
LEMMA OwnerKeepsTree ==
  ASSUME TypeOK, TreeOK, Owner \/ OwnerGoesOn
  PROVE  TreeOK'
<1>a. Root \in Vertex /\ Root \notin Node /\ Node \subseteq Vertex /\ \A v \in Vertex : v = Root \/ v \in Node
  BY NullIsNoVertex DEF Vertex
<1>b. ASSUME agenda = <<>> PROVE \A v \in Vertex : children[v] \subseteq table
  BY <1>b DEF TreeOK, Due
<1>c. children \in [Vertex -> SUBSET Node] /\ nodeAge \in [Vertex -> Nat] /\ searchNodeAge \in Nat
  BY DEF TypeOK
<1>1. CASE clearSearch
  <2>1. Planned(agenda') BY <1>1, PlansAre DEF clearSearch, Clear
  <2>2. /\ UNCHANGED <<treeVars, ageVars>>
        /\ Due({"deleteAll", "reset"})' /\ (Due({"reset"})' => ~hasRoot)
        /\ ~Due(Walks \cup {"sweep"})'
    BY <1>1 DEF clearSearch, Clear, Due, OwnerUnchanged, treeVars, ageVars, Walks
  <2> QED BY <2>1, <2>2 DEF TreeOK, Due, treeVars, ageVars
<1>2. CASE setNumThreads
  BY <1>2, TreeRests DEF setNumThreads, OwnerUnchanged, treeVars, ageVars
<1>3. CASE makeMove
  <2>1. Planned(agenda') BY <1>3, PlansAre DEF makeMove
  <2>2. PICK child \in children[Root] :
          /\ children' = [children EXCEPT ![Root] = children[child]]
          /\ nodeAge' = [nodeAge EXCEPT ![Root] = nodeAge[child]]
    BY <1>3 DEF makeMove
  <2>3. child \in Vertex BY <1>a, <1>c, <2>2
  <2>4. /\ UNCHANGED <<table, searchNodeAge>> /\ hasRoot' /\ agenda = <<>>
        /\ Due(Walks)' /\ ~Due({"sweep", "reset", "deleteAll"})'
    BY <1>3 DEF makeMove, OwnerUnchanged, OwnerIsFree, Due, Walks
  <2>5. \A v \in Vertex : /\ children'[v] = IF v = Root THEN children[child] ELSE children[v]
                          /\ nodeAge'[v] = IF v = Root THEN nodeAge[child] ELSE nodeAge[v]
    BY <1>c, <2>2
  <2>6. \A v \in Vertex : children'[v] \subseteq table' /\ nodeAge'[v] <= searchNodeAge'
    BY <1>b, <2>3, <2>4, <2>5 DEF TreeOK
  <2>7. \A n \in Node \ table' : children'[n] = {} /\ nodeAge'[n] = 0
    BY <1>a, <2>4, <2>5 DEF TreeOK
  <2> QED BY <2>1, <2>4, <2>6, <2>7 DEF TreeOK, Due
<1>4. CASE runWholeSearch
  <2>0. UNCHANGED <<table, hasRoot, ageVars>> /\ agenda = <<>>
    BY <1>4 DEF runWholeSearch, OwnerUnchanged, OwnerIsFree, ageVars
  <2>1. CASE ~hasRoot \/ searchNodeAge > MaxAge
    <3>1. Planned(agenda') BY <1>4, <2>1, PlansAre DEF runWholeSearch, Clear
    <3>2. /\ UNCHANGED children
          /\ Due({"deleteAll", "reset"})' /\ (Due({"reset"})' => ~hasRoot)
          /\ ~Due(Walks \cup {"sweep"})'
      BY <1>4, <2>1 DEF runWholeSearch, Clear, Due, Walks
    <3> QED BY <2>0, <3>1, <3>2 DEF TreeOK, Due, ageVars
  <2>2. CASE ~(~hasRoot \/ searchNodeAge > MaxAge)
    <3>1. PICK filtered \in SUBSET children[Root], biased \in BOOLEAN :
            /\ children' = [children EXCEPT ![Root] = @ \ filtered]
            /\ agenda' = (IF biased THEN <<"recompute">>
                          ELSE IF filtered # {} THEN <<"mark">> ELSE <<>>)
                         \o (IF filtered # {} THEN <<"sweep">> ELSE <<>>)
                         \o <<"age", "search">>
      BY <1>4, <2>2 DEF runWholeSearch
    <3>2. Planned(agenda')
      <4>1. CASE filtered # {} BY <3>1, <4>1, PlansAre
      <4>2. CASE filtered = {} BY <3>1, <4>2, PlansAre
      <4> QED BY <4>1, <4>2
    <3>3. ~Due({"sweep", "reset", "deleteAll"})'
      <4>1. agenda'[1] \in Walks \cup {"age"} /\ Head(agenda') = agenda'[1]
        <5>1. CASE filtered # {} BY <3>1, <5>1 DEF Walks
        <5>2. CASE filtered = {} BY <3>1, <5>2 DEF Walks
        <5> QED BY <5>1, <5>2
      <4> QED BY <4>1 DEF Due, Walks
    <3>4. \A v \in Vertex : children'[v] = IF v = Root THEN children[v] \ filtered ELSE children[v]
      BY <1>c, <3>1
    <3>5. \A v \in Vertex : children'[v] \subseteq table' BY <1>b, <2>0, <3>4
    <3>6. \A n \in Node \ table' : children'[n] = {} /\ nodeAge'[n] = 0
      BY <1>a, <2>0, <3>4 DEF TreeOK, ageVars
    <3> QED BY <2>0, <2>2, <3>2, <3>3, <3>5, <3>6 DEF TreeOK, Due, ageVars
  <2> QED BY <2>1, <2>2
<1>5. CASE OwnerGoesOn
  <2>1. /\ agenda # <<>> /\ agenda' = Tail(agenda) /\ Head(agenda) \in {"reset", "newRoot", "age"}
        /\ UNCHANGED table /\ Planned(agenda)
    BY <1>5 DEF OwnerGoesOn, TreeOK
  <2>2. Planned(agenda') /\ ~Due(Walks \cup {"sweep", "reset", "deleteAll"})'
    BY <2>1, NextIsDue DEF Due, Walks
  <2>3. CASE Head(agenda) = "reset"
    <3>1. /\ hasRoot' = FALSE /\ children' = [children EXCEPT ![Root] = {}]
          /\ nodeAge' = [nodeAge EXCEPT ![Root] = 0] /\ searchNodeAge' = 0
      BY <1>5, <2>3 DEF OwnerGoesOn
    <3>2. table = {} BY <2>1, <2>3 DEF TreeOK, Due
    <3>3. \A v \in Vertex : children'[v] = {} /\ nodeAge'[v] = 0
      BY <1>a, <1>c, <3>1, <3>2 DEF TreeOK
    <3> QED BY <1>a, <2>1, <2>2, <3>1, <3>2, <3>3 DEF TreeOK, Due
  <2>4. CASE Head(agenda) \in {"newRoot", "age"}
    <3>1. UNCHANGED <<children, nodeAge>> /\ (~hasRoot' => ~hasRoot)
          /\ searchNodeAge' \in {searchNodeAge, searchNodeAge + 1}
      BY <1>5, <2>4 DEF OwnerGoesOn
    <3>2. \A v \in Vertex : children[v] \subseteq table BY <2>4 DEF TreeOK, Due
    <3>3. \A v \in Vertex : nodeAge'[v] <= searchNodeAge' BY <1>c, <3>1 DEF TreeOK
    <3> QED BY <2>1, <2>2, <3>1, <3>2, <3>3 DEF TreeOK, Due
  <2> QED BY <2>1, <2>3, <2>4
<1> QED BY <1>1, <1>2, <1>3, <1>4, <1>5 DEF Owner

\* Giving a task to the pool leaves the tree alone, and its end leaves the tree as the next step needs it.
LEMMA PoolKeepsTree ==
  ASSUME IInv, PreparesTask \/ SpawnsThreads \/ PushesTask \/ waitUntilZero
  PROVE  TreeOK'
<1> USE DEF IInv
<1>1. CASE PreparesTask
  <2>1. /\ UNCHANGED <<agenda, treeVars, nodeAge>> /\ agenda # <<>>
        /\ searchNodeAge' = searchNodeAge + (IF Head(agenda) \in Walks THEN 1 ELSE 0)
    BY <1>1 DEF PreparesTask
  <2>2. CASE Head(agenda) \notin Walks
    <3>1. searchNodeAge' = searchNodeAge BY <2>1, <2>2 DEF TypeOK
    <3> QED BY <2>1, <3>1, TreeRests DEF ageVars
  <2>3. CASE Head(agenda) \in Walks
    <3>1. ~Due({"sweep"}) /\ ~Due({"sweep"})' BY <2>1, <2>3 DEF Due, Walks
    <3>2. \A v \in Vertex : nodeAge'[v] <= searchNodeAge' BY <2>1, <2>3 DEF TypeOK, TreeOK
    <3> QED BY <2>1, <3>1, <3>2 DEF TreeOK, Due, treeVars
  <2> QED BY <2>2, <2>3
<1>2. CASE SpawnsThreads \/ PushesTask
  BY <1>2, TreeRests DEF SpawnsThreads, PushesTask, ageVars
<1>3. CASE waitUntilZero
  <2>1. UNCHANGED <<treeVars, ageVars>> BY <1>3 DEF waitUntilZero
  <2>2. CASE ~(helpers = 0 \/ threadTasksRemaining = 0)
    BY <1>3, <2>1, <2>2, TreeRests DEF waitUntilZero
  <2>3. CASE helpers = 0 \/ threadTasksRemaining = 0
    <3>1. agenda' = Tail(agenda) /\ pc[0] = "wait" BY <1>3, <2>3 DEF waitUntilZero
    <3>2. agenda # <<>> /\ Head(agenda) = task[0] /\ task[0] \in Tasks /\ task[0] # NULL
      BY <3>1, TaskAtHand, ThreadsAre DEF PoolOK, OwnerOK
    <3>3. /\ Planned(agenda') /\ ~Due(Walks \cup {"deleteAll"})'
          /\ Due({"sweep"})' => task[0] \in Walks
          /\ Due({"reset"})' <=> task[0] = "deleteAll"
      BY <3>1, <3>2, NextIsDue DEF TreeOK
    <3>4. task[0] = "deleteAll" => table = {} BY <2>3, <3>1, SweepEnds
    <3>5. task[0] \in Walks => Marked /\ hasRoot BY <2>3, <3>1, <3>2, WalkEnds DEF TreeOK, Due
    <3>6. task[0] \notin {"sweep", "deleteAll"} => \A v \in Vertex : children[v] \subseteq table
      BY <3>2 DEF TreeOK, Due, Tasks, Walks
    <3>7. task[0] = "sweep" => \A v \in Vertex : children[v] \subseteq table
      <4> HAVE task[0] = "sweep"
      <4>1. Marked /\ hasRoot /\ \A v \in Reachable : children[v] \subseteq table
        BY <3>2 DEF TreeOK, Due
      <4>2. \A n \in table : n \in Reachable
        BY <2>3, <3>1, <4>1, SweepEnds, NullIsNoVertex DEF Marked, TypeOK
      <4>3. Root \in Reachable BY <4>1, ReachableIs
      <4>4. \A n \in Node \ table : children[n] = {} BY DEF TreeOK
      <4> QED BY <4>1, <4>2, <4>3, <4>4 DEF Vertex
    <3>8. Marked' <=> Marked
      BY <2>1 DEF Marked, Done, Reachable, ReachableFrom, treeVars, ageVars
    <3>9. Reachable' = Reachable BY <2>1 DEF Reachable, ReachableFrom, treeVars
    <3>10. Due(Walks \cup {"sweep"})' => hasRoot' BY <2>1, <3>3, <3>5 DEF Due, treeVars
    <3>11. Due({"reset"})' => table' = {} BY <2>1, <3>3, <3>4 DEF treeVars
    <3>12. ~Due({"deleteAll", "reset", "sweep"})' => \A v \in Vertex : children'[v] \subseteq table'
      BY <2>1, <3>3, <3>6, <3>7 DEF Due, treeVars
    <3>13. Due({"sweep"})' => Marked' /\ \A v \in Reachable' : children'[v] \subseteq table'
      <4> HAVE Due({"sweep"})'
      <4>1. Marked' BY <3>3, <3>5, <3>8
      <4>2. \A v \in Vertex : children[v] \subseteq table BY <3>3, <3>6 DEF Walks
      <4>3. \A v \in Reachable : children'[v] \subseteq table' BY <2>1, <4>2, ReachableIs DEF treeVars
      <4> QED BY <3>9, <4>1, <4>3
    <3> QED BY <2>1, <3>3, <3>10, <3>11, <3>12, <3>13 DEF TreeOK, treeVars, ageVars
  <2> QED BY <2>2, <2>3
<1> QED BY <1>1, <1>2, <1>3

\* A walk is at a task that walks, the one at the head of the agenda.
LEMMA WalkIsAtTask ==
  ASSUME TypeOK, PoolOK, NEW t \in Thread, pc[t] \in {"walk", "call"}
  PROVE  task[t] \in Walks /\ task[0] \in Walks /\ Due(Walks)
<1>1. task[t] \in Walks BY DEF PoolOK, WorksOnTask
<1>2. task[t] # NULL BY <1>1, TreeAssumption DEF Tasks
<1> QED BY <1>1, <1>2, TaskAtHand DEF Due

\* The node a walk is at is reachable.
LEMMA WalkIsAt ==
  ASSUME TypeOK, PoolOK, WalkOK, NEW t \in Thread, pc[t] \in {"walk", "call"},
         pc[t] = "walk" => Top(t).node # NULL
  PROVE  /\ Len(path[t]) \in 2..Len(path[t]) /\ Len(path[t]) \in DOMAIN path[t]
         /\ Top(t).node \in Reachable /\ Top(t).node \in Vertex
         /\ task[t] \in Walks /\ task[0] \in Walks /\ Due(Walks)
<1>1. Len(path[t]) > 1
  <2>1. CASE pc[t] = "call" BY <2>1 DEF WalkOK, WalkerOK
  <2>2. CASE pc[t] = "walk"
    <3>1. Len(path[t]) # 1
      <4>1. SUFFICES ASSUME Len(path[t]) = 1 PROVE FALSE OBVIOUS
      <4>2. path[t] \in Seq(Frame) /\ Top(t) = path[t][1] BY <4>1, TopIs
      <4>3. 1 \in DOMAIN path[t] BY <4>1, <4>2
      <4>4. FrameOK(t, 1) BY <4>3 DEF WalkOK, WalkerOK
      <4>5. path[t][1].node = NULL BY <4>4 DEF FrameOK
      <4> QED BY <2>2, <4>2, <4>5
    <3>2. PICK n \in Nat \ {0} : Len(path[t]) = n BY TopIs
    <3>3. n > 1 BY <3>1, <3>2
    <3> QED BY <3>2, <3>3, Zenon
  <2> QED BY <2>1, <2>2
<1>2. path[t] \in Seq(Frame) /\ Len(path[t]) \in 2..Len(path[t]) /\ Top(t) = path[t][Len(path[t])]
  BY <1>1, TopIs
<1>3. Top(t).node \in Reachable /\ Top(t).node \in Vertex BY <1>2, FramesReach
<1> QED BY <1>2, <1>3, WalkIsAtTask

\* A node is marked.
LEMMA MarkKeepsTree ==
  ASSUME TypeOK, TreeOK, Due(Walks), NEW v \in Reachable,
         nodeAge' = [nodeAge EXCEPT ![v] = searchNodeAge],
         UNCHANGED <<agenda, treeVars, searchNodeAge>>
  PROVE  TreeOK'
<1>1. ~Due({"deleteAll", "reset", "sweep"}) /\ ~Due({"sweep"})' BY DEF Due, Walks
<1>2. v \in table \cup {Root} /\ v \in Vertex BY <1>1, ReachInTable, ReachableIs
<1>3. \A u \in Vertex : nodeAge'[u] = IF u = v THEN searchNodeAge ELSE nodeAge[u] BY DEF TypeOK
<1>4. \A u \in Vertex : nodeAge'[u] <= searchNodeAge' BY <1>3 DEF TreeOK, TypeOK
<1>5. \A n \in Node \ table : nodeAge'[n] = 0 BY <1>2, <1>3, NullIsNoVertex DEF TreeOK
<1> QED BY <1>1, <1>4, <1>5 DEF TreeOK, Due, treeVars

\* A part is swept.
LEMMA SweepKeepsTree ==
  ASSUME TypeOK, PoolOK, TreeOK, NEW t \in Thread, Sweeps(t)
  PROVE  /\ TreeOK'
         /\ task[0] = "sweep" => Reachable' = Reachable /\ \A v \in Reachable : children'[v] = children[v]
<1>1. task[t] = pc[t] /\ task[0] = pc[t] /\ agenda # <<>> /\ Head(agenda) = pc[t]
      /\ pc[t] \in Sweeping /\ UNCHANGED <<hasRoot, searchNodeAge, agenda>>
  <2>1. pc[t] \in Sweeping /\ task[t] = pc[t] BY DEF Sweeps, Sweeping, PoolOK, WorksOnTask
  <2>2. task[t] # NULL BY <2>1, TreeAssumption DEF Sweeping, Tasks
  <2> QED BY <2>1, <2>2, TaskAtHand DEF Sweeps
<1>2. PICK gone :
        /\ gone = {n \in Part(t) : pc[t] = "deleteAll" \/ nodeAge[n] < searchNodeAge}
        /\ table' = table \ gone
        /\ children' = [v \in Vertex |-> IF v \in gone THEN {} ELSE children[v]]
        /\ nodeAge' = [v \in Vertex |-> IF v \in gone THEN 0 ELSE nodeAge[v]]
  BY DEF Sweeps
<1>3. gone \subseteq table /\ gone \subseteq Vertex BY <1>2, NullIsNoVertex DEF Part, TypeOK
<1>4. \A n \in Node \ table' : children'[n] = {} /\ nodeAge'[n] = 0
  BY <1>2, <1>3, NullIsNoVertex DEF TreeOK
<1>5. \A v \in Vertex : nodeAge'[v] <= searchNodeAge' BY <1>1, <1>2 DEF TreeOK, TypeOK
<1>6. ~hasRoot' => table' = {} BY <1>1, <1>2 DEF TreeOK
<1>7. CASE pc[t] = "deleteAll"
  <2>1. /\ ~Due({"reset"})' /\ ~Due(Walks \cup {"sweep"})' /\ ~Due({"sweep"})'
        /\ Due({"deleteAll", "reset", "sweep"})'
    BY <1>1, <1>7 DEF Due, Walks
  <2>2. Planned(agenda') BY <1>1 DEF TreeOK
  <2>3. task[0] # "sweep" BY <1>1, <1>7
  <2> QED BY <1>4, <1>5, <1>6, <1>7, <2>1, <2>2, <2>3 DEF TreeOK
<1>8. CASE pc[t] = "sweep"
  <2>1. ~Due({"reset"})' /\ Due({"deleteAll", "reset", "sweep"})' /\ Due({"sweep"}) /\ hasRoot
    BY <1>1, <1>8 DEF Due, TreeOK
  <2>2. Marked /\ \A v \in Reachable : children[v] \subseteq table BY <2>1 DEF TreeOK
  <2>3. \A n \in gone : ~Done(n) BY <1>2, <1>3, <1>8 DEF Done, TypeOK
  <2>4. gone \cap Reachable = {} BY <1>3, <2>2, <2>3 DEF Marked
  <2>5. \A v \in Reachable : children'[v] = children[v] BY <1>2, <2>4, ReachableIs
  <2>6. Reachable' = Reachable
    <3>1. children' \in [Vertex -> SUBSET Node] BY <1>2 DEF TypeOK
    <3> QED BY <1>1, <2>1, <2>5, <3>1, ReachStays DEF Reachable, Graph, TypeOK
  <2>7. ASSUME NEW v \in Vertex PROVE Done(v)' <=> v \in Reachable'
    <3>1. CASE v \notin gone
      BY <1>1, <1>2, <2>2, <2>6, <3>1 DEF Marked, Done
    <3>2. CASE v \in gone
      <4>1. nodeAge[v] < searchNodeAge /\ nodeAge[v] \in Nat /\ searchNodeAge \in Nat
        BY <1>2, <1>8, <3>2 DEF TypeOK
      <4>2. nodeAge'[v] = 0 /\ searchNodeAge' # 0 BY <1>1, <1>2, <3>2, <4>1
      <4> QED BY <2>4, <2>6, <3>2, <4>2 DEF Done
    <3> QED BY <3>1, <3>2
  <2>8. \A v \in Reachable' : children'[v] \subseteq table'
    BY <1>2, <2>2, <2>4, <2>5, <2>6, ReachableIs
  <2>9. Planned(agenda') BY <1>1 DEF TreeOK
  <2>10. hasRoot' /\ Marked' BY <1>1, <2>1, <2>7 DEF Marked
  <2>11. TreeOK' BY <1>4, <1>5, <2>1, <2>8, <2>9, <2>10 DEF TreeOK
  <2> QED BY <2>5, <2>6, <2>11
<1> QED BY <1>1, <1>7, <1>8 DEF Sweeping

\* A playout.
LEMMA PlayoutKeepsTree ==
  ASSUME TypeOK, PoolOK, TreeOK, NEW t \in Thread, runSinglePlayout(t)
  PROVE  TreeOK'
<1>1. task[t] = "search" /\ UNCHANGED <<agenda, hasRoot, searchNodeAge>>
  BY DEF runSinglePlayout, PoolOK, WorksOnTask, SearchUnchanged
<1>2. agenda # <<>> /\ Head(agenda) = "search"
  BY <1>1, TaskAtHand, TreeAssumption DEF Tasks
<1>3. ~Due({"deleteAll", "reset", "sweep"}) /\ ~Due({"reset"} \cup Walks \cup {"sweep"})'
  BY <1>1, <1>2 DEF Due, Walks
<1>4. \A v \in Vertex : children[v] \subseteq table BY <1>3 DEF TreeOK
<1>q. Root \in Vertex /\ Root \notin Node /\ Node \subseteq Vertex BY NullIsNoVertex
<1>c. children \in [Vertex -> SUBSET Node] /\ nodeAge \in [Vertex -> Nat] /\ searchNodeAge \in Nat
  BY DEF TypeOK
<1>5. CASE UNCHANGED <<table, children>> /\ nodeAge' = [nodeAge EXCEPT ![Root] = searchNodeAge]
  <2>1. \A v \in Vertex : nodeAge'[v] = IF v = Root THEN searchNodeAge ELSE nodeAge[v]
    BY <1>5, <1>c
  <2>2. \A v \in Vertex : nodeAge'[v] <= searchNodeAge' BY <1>1, <1>c, <2>1 DEF TreeOK
  <2>3. \A n \in Node \ table' : children'[n] = {} /\ nodeAge'[n] = 0
    BY <1>5, <1>q, <2>1 DEF TreeOK
  <2> QED BY <1>1, <1>3, <1>4, <1>5, <2>2, <2>3 DEF TreeOK, Due
<1>6. ASSUME NEW v \in Reachable, NEW evaluated \in BOOLEAN, NEW linked \in BOOLEAN,
             NEW n \in leadsTo[v] \ children[v], table' = table \cup {n},
             children' = IF linked THEN [children EXCEPT ![v] = @ \cup {n}] ELSE children,
             nodeAge' = [nodeAge EXCEPT ![Root] = searchNodeAge,
                                        ![n] = IF evaluated THEN searchNodeAge ELSE @]
      PROVE  TreeOK'
  <2>1. v \in Vertex /\ n \in Node /\ hasRoot BY ReachableIs, TreeAssumption DEF Vertex
  <2>2. \A u \in Vertex : children'[u] \in {children[u], children[u] \cup {n}}
                          /\ (u # v => children'[u] = children[u])
    BY <1>6, <1>c, <2>1
  <2>3. \A u \in Vertex : nodeAge'[u] \in {nodeAge[u], searchNodeAge}
                          /\ (u # Root /\ u # n => nodeAge'[u] = nodeAge[u])
    BY <1>6, <1>c, <1>q, <2>1
  <2>4. \A u \in Vertex : nodeAge'[u] <= searchNodeAge' BY <1>1, <1>c, <2>3 DEF TreeOK
  <2>5. \A u \in Vertex : children'[u] \subseteq table' BY <1>4, <1>6, <2>2
  <2>6. v \in table \cup {Root} BY <1>3, ReachInTable
  <2>7. ASSUME NEW m \in Node \ table' PROVE children'[m] = {} /\ nodeAge'[m] = 0
    <3>1. m \in Node \ table /\ m # n /\ m # Root /\ m # v BY <1>6, <1>q, <2>6
    <3> QED BY <1>q, <2>2, <2>3, <3>1 DEF TreeOK
  <2> QED BY <1>1, <1>3, <2>1, <2>4, <2>5, <2>7 DEF TreeOK, Due
<1> QED BY <1>5, <1>6 DEF runSinglePlayout

\* Every step keeps the tree.
LEMMA TreeStep ==
  ASSUME IInv, [Next]_vars
  PROVE  TreeOK'
<1> USE DEF IInv
<1>1. CASE Owner \/ OwnerGoesOn BY <1>1, OwnerKeepsTree
<1>2. CASE PreparesTask \/ SpawnsThreads \/ PushesTask \/ waitUntilZero BY <1>2, PoolKeepsTree
<1>3. CASE Stop \/ UNCHANGED vars BY <1>3, TreeRests DEF Stop, vars
<1>4. ASSUME NEW w \in Worker, PopsTask(w) \/ ChecksIn(w) PROVE TreeOK'
  BY <1>4, TreeRests DEF PopsTask, ChecksIn
<1>5. ASSUME NEW t \in Thread, Works(t) PROVE TreeOK'
  <2>1. CASE BeginsTask(t) BY <2>1, TreeRests DEF BeginsTask
  <2>2. CASE Enters(t) \/ Calls(t) \/ EndsWalk(t)
    BY <2>2, TreeRests DEF Enters, Calls, EndsWalk, WalkUnchanged, ageVars
  <2>3. CASE Marks(t) BY <2>3, WalkIsAt, MarkKeepsTree DEF Marks, WalkUnchanged
  <2>4. CASE CallReturns(t) BY <2>4, WalkIsAt, MarkKeepsTree DEF CallReturns, WalkUnchanged
  <2>5. CASE Sweeps(t) BY <2>5, SweepKeepsTree
  <2>6. CASE ChecksLimits(t)
    BY <2>6, TreeRests DEF ChecksLimits, SearchUnchanged, treeVars, ageVars
  <2>7. CASE runSinglePlayout(t) BY <2>7, PlayoutKeepsTree
  <2> QED BY <1>5, <2>1, <2>2, <2>3, <2>4, <2>5, <2>6, <2>7 DEF Works
<1> QED BY <1>1, <1>2, <1>3, <1>4, <1>5, ThreadsAre DEF Next, Pool, WorkerGoesOn

-----------------------------------------------------------------------------
(* The walks.                                                              *)

\* Between walks.
LEMMA NobodyWalks ==
  ASSUME TypeOK, PoolOK, WalkOK, task[0] \notin Walks
  PROVE  /\ \A t \in Thread : pc[t] \notin {"walk", "call"} /\ path[t] = <<>>
         /\ locked = {} /\ \A v \in Vertex : visited[v] = 0
<1>1. ASSUME NEW t \in Thread PROVE pc[t] \notin {"walk", "call"}
  <2>1. SUFFICES ASSUME pc[t] \in {"walk", "call"} PROVE FALSE OBVIOUS
  <2>2. task[t] \in Walks /\ task[t] # NULL BY <2>1, TreeAssumption DEF PoolOK, WorksOnTask, Tasks
  <2> QED BY <2>2, TaskAtHand
<1> QED BY <1>1 DEF WalkOK, WalkerOK

\* A step after which nobody walks.
LEMMA NobodyWalksThen ==
  ASSUME \A t \in Thread : pc'[t] \notin {"walk", "call"} /\ path'[t] = <<>>,
         locked' = {}, \A v \in Vertex : visited'[v] = 0, task'[0] \notin Walks
  PROVE  WalkOK'
<1>1. \A t \in Thread : WalkerOK(t)' BY DEF WalkerOK
<1>2. {u \in Thread : pc'[u] = "call"} = {} OBVIOUS
<1> QED BY <1>1, <1>2 DEF WalkOK

\* What has nothing to do with walks.
LEMMA WalkRests ==
  ASSUME WalkOK, UNCHANGED <<treeVars, ageVars, path, locked, visited>>, task'[0] = task[0],
         \A t \in Thread : \/ pc'[t] = pc[t]
                           \/ pc[t] \notin {"walk", "call"} /\ pc'[t] \notin {"walk", "call"},
         task[0] \in Walks /\ pc'[0] \in {"wait", "asleep"} => pc[0] \in {"wait", "asleep"}
  PROVE  WalkOK'
<1> USE DEF treeVars, ageVars
<1>1. \A v : Done(v)' = Done(v) /\ OnSomePath(v)' = OnSomePath(v)
  BY DEF Done, OnSomePath, OnPath
<1>2. \A v : ReachedFrom(v)' = ReachedFrom(v) BY DEF ReachedFrom, ReachableFrom
<1>3. Reachable' = Reachable BY DEF Reachable, ReachableFrom
<1>4. \A t \in Thread : Top(t)' = Top(t) BY DEF Top
<1>5. \A t \in Thread : pc'[t] = "call" <=> pc[t] = "call" OBVIOUS
<1>6. ASSUME NEW t \in Thread PROVE WalkerOK(t)'
  <2>1. WalkerOK(t) BY DEF WalkOK
  <2>2. \A i \in DOMAIN path'[t] : FrameOK(t, i)'
    <3>1. \A i : FrameOK(t, i)' = FrameOK(t, i)
      BY DEF FrameOK, OnPath, Done, Reachable, ReachedFrom, ReachableFrom
    <3> QED BY <2>1, <3>1 DEF WalkerOK
  <2>3. path'[t] = <<>> <=> pc'[t] \notin {"walk", "call"} BY <2>1 DEF WalkerOK
  <2>4. pc'[t] = "call" =>
          /\ Len(path'[t]) > 1 /\ Top(t)'.todo = {} /\ ~Done(Top(t).node)'
          /\ \A u \in Thread \ {t} : pc'[u] = "call" => Top(u)'.node # Top(t)'.node
    BY <1>4, <1>5, <2>1 DEF WalkerOK, Done
  <2> QED BY <2>2, <2>3, <2>4 DEF WalkerOK
<1>7. locked' = {Top(t)'.node : t \in {u \in Thread : pc'[u] = "call"}}
  <2>1. {u \in Thread : pc'[u] = "call"} = {u \in Thread : pc[u] = "call"} BY <1>5
  <2> QED BY <1>4, <2>1 DEF WalkOK
<1>8. task'[0] \notin Walks => \A v \in Vertex : visited'[v] = 0 BY DEF WalkOK
<1>9. task'[0] \in Walks /\ pc'[0] \in {"wait", "asleep"} => Done(Root)'
  BY <1>1 DEF WalkOK
<1>10. task'[0] \in Walks =>
         \A v \in Vertex :
            /\ visited'[v] = IF Done(v)' \/ v \in locked' THEN 1 ELSE 0
            /\ Done(v)' => v \in Reachable' /\ \A c \in children'[v] : Done(c)' \/ OnSomePath(c)'
            /\ visited'[v] = 1 => \A c \in children'[v] : Done(c)' \/ v \in ReachedFrom(c)'
  BY <1>1, <1>2, <1>3 DEF WalkOK
<1> QED BY <1>6, <1>7, <1>8, <1>9, <1>10 DEF WalkOK

\* A step that leaves the tree alone leaves what is reachable alone.
LEMMA GraphStays ==
  ASSUME UNCHANGED treeVars
  PROVE  /\ Reachable' = Reachable /\ \A v : ReachedFrom(v)' = ReachedFrom(v)
         /\ children' = children /\ hasRoot' = hasRoot
BY DEF Reachable, ReachedFrom, ReachableFrom, treeVars

\* The nodes whose mutex is held are those of the calls.
LEMMA LockedIs ==
  ASSUME WalkOK
  PROVE  \A v : v \in locked <=> \E u \in Thread : pc[u] = "call" /\ Top(u).node = v
BY DEF WalkOK

\* A thread's own walk is not disturbed by what others mark.
LEMMA OtherWalks ==
  ASSUME TypeOK, UNCHANGED treeVars, NEW t \in Thread, NEW u \in Thread, u # t, WalkerOK(u),
         \A x \in Thread \ {t} : pc'[x] = pc[x] /\ path'[x] = path[x],
         \A v \in Vertex : Done(v) => Done(v)',
         pc[u] = "call" => ~Done(Top(u).node)' /\ (pc'[t] = "call" => Top(t)'.node # Top(u).node)
  PROVE  WalkerOK(u)'
<1>1. /\ Reachable' = Reachable /\ children' = children
      /\ \A v : ReachedFrom(v)' = ReachedFrom(v)
  BY GraphStays
<1>2. pc'[u] = pc[u] /\ path'[u] = path[u] OBVIOUS
<1>3. \A v : OnPath(u, v)' = OnPath(u, v) BY <1>2 DEF OnPath
<1>4. \A x \in Thread \ {t} : Top(x)' = Top(x) BY DEF Top
<1>5. ASSUME NEW i \in DOMAIN path'[u] PROVE FrameOK(u, i)'
  <2>1. FrameOK(u, i) BY <1>2 DEF WalkerOK
  <2>2. CASE i = 1
    BY <1>2, <1>3, <2>1, <2>2, NullIsNoVertex DEF FrameOK
  <2>3. CASE i # 1
    <3>1. path[u][i].node \in Reachable BY <2>1, <2>3 DEF FrameOK
    <3>2. children[path[u][i].node] \subseteq Vertex
      BY <3>1, ReachableIs, NullIsNoVertex DEF TypeOK
    <3>3. \A c \in children[path[u][i].node] \ path[u][i].todo : Done(c)' \/ OnPath(u, c)'
      BY <1>3, <2>1, <2>3, <3>2 DEF FrameOK
    <3> QED BY <1>1, <1>2, <2>1, <2>3, <3>3 DEF FrameOK
  <2> QED BY <2>2, <2>3
<1>6. path'[u] = <<>> <=> pc'[u] \notin {"walk", "call"} BY <1>2 DEF WalkerOK
<1>7. pc'[u] = "call" =>
          /\ Len(path'[u]) > 1 /\ Top(u)'.todo = {} /\ ~Done(Top(u).node)'
          /\ \A x \in Thread \ {u} : pc'[x] = "call" => Top(x)'.node # Top(u)'.node
  <2> HAVE pc'[u] = "call"
  <2>1. pc[u] = "call" /\ Top(u)' = Top(u) /\ ~Done(Top(u).node)' BY <1>2, <1>4
  <2>2. Len(path'[u]) > 1 /\ Top(u)'.todo = {} BY <1>2, <2>1 DEF WalkerOK
  <2>3. \A x \in Thread \ {u} : pc'[x] = "call" => Top(x)'.node # Top(u)'.node
    BY <1>4, <2>1 DEF WalkerOK
  <2> QED BY <2>1, <2>2, <2>3
<1> QED BY <1>5, <1>6, <1>7 DEF WalkerOK

\* The children of the node where a walk is, when none is to come.
LEMMA TopSees ==
  ASSUME TypeOK, PoolOK, WalkOK, NEW t \in Thread, pc[t] \in {"walk", "call"},
         pc[t] = "walk" => Top(t).node # NULL, Top(t).todo = {},
         NEW c \in children[Top(t).node]
  PROVE  /\ Done(c) \/ OnPath(t, c)
         /\ Done(c) \/ Top(t).node \in ReachedFrom(c)
         /\ c \in Vertex /\ Top(t).node \in Reachable
<1>1. /\ Len(path[t]) \in 2..Len(path[t]) /\ Len(path[t]) \in DOMAIN path[t]
      /\ Top(t).node \in Reachable /\ Top(t).node \in Vertex
  BY WalkIsAt
<1>2. Top(t) = path[t][Len(path[t])] /\ path[t] \in Seq(Frame) BY TopIs
<1>3. c \in Vertex BY <1>1, NullIsNoVertex DEF TypeOK
<1>4. FrameOK(t, Len(path[t])) BY <1>1 DEF WalkOK, WalkerOK
<1>5. Len(path[t]) # 1 BY <1>1
<1>6. Done(c) \/ OnPath(t, c) BY <1>2, <1>4, <1>5 DEF FrameOK
<1>7. ASSUME OnPath(t, c) PROVE Top(t).node \in ReachedFrom(c)
  <2>1. PICK i \in DOMAIN path[t] : path[t][i].node = c BY <1>7 DEF OnPath
  <2>2. FrameOK(t, i) BY DEF WalkOK, WalkerOK
  <2>3. i # 1 BY <1>3, <2>1, <2>2, NullIsNoVertex DEF FrameOK
  <2>4. Len(path[t]) \in i..Len(path[t]) BY <1>1, <1>2
  <2> QED BY <1>2, <2>1, <2>2, <2>3, <2>4 DEF FrameOK
<1> QED BY <1>1, <1>3, <1>6, <1>7

\* Whoever leaves a node that is done leaves the walk in order.
LEMMA Leaves ==
  ASSUME TypeOK, PoolOK, WalkOK, NEW t \in Thread, pc[t] \in {"walk", "call"},
         pc[t] = "walk" => Top(t).node # NULL, Top(t).todo = {},
         path' = [path EXCEPT ![t] = Below(t)], pc' = [pc EXCEPT ![t] = "walk"],
         UNCHANGED <<treeVars, searchNodeAge>>, task'[0] = task[0],
         nodeAge' \in {nodeAge, [nodeAge EXCEPT ![Top(t).node] = searchNodeAge]},
         nodeAge'[Top(t).node] = searchNodeAge,
         \A u \in Thread \ {t} : pc[u] = "call" => Top(u).node # Top(t).node,
         locked' = IF pc[t] = "call" THEN locked \ {Top(t).node} ELSE locked,
         \A v \in Vertex : visited'[v] = IF Done(v)' \/ v \in locked' THEN 1 ELSE 0
  PROVE  WalkOK'
<1> DEFINE node == Top(t).node
           n == Len(path[t])
<1>a. /\ n \in Nat /\ n > 1 /\ n \in DOMAIN path[t] /\ node \in Reachable /\ node \in Vertex
      /\ task[0] \in Walks
  BY WalkIsAt
<1>b. /\ path[t] \in Seq(Frame) /\ path[t] # <<>> /\ node = path[t][n].node
      /\ Below(t) \in Seq(Frame) /\ Len(Below(t)) = n - 1
      /\ \A i \in 1..n - 1 : Below(t)[i] = path[t][i]
  BY TopIs
<1>g. /\ Reachable' = Reachable /\ children' = children
      /\ \A v : ReachedFrom(v)' = ReachedFrom(v)
  BY GraphStays
<1>d. \A v \in Vertex : Done(v)' <=> Done(v) \/ v = node
  <2>1. \A v \in Vertex \ {node} : nodeAge'[v] = nodeAge[v] BY DEF TypeOK
  <2>2. \A v \in Vertex : v = node => nodeAge'[v] = searchNodeAge' OBVIOUS
  <2> HIDE DEF node
  <2> QED BY <2>1, <2>2 DEF Done
<1>w. \A v \in Vertex :
        /\ visited[v] = IF Done(v) \/ v \in locked THEN 1 ELSE 0
        /\ Done(v) => v \in Reachable /\ \A c \in children[v] : Done(c) \/ OnSomePath(c)
        /\ visited[v] = 1 => \A c \in children[v] : Done(c) \/ v \in ReachedFrom(c)
  BY <1>a DEF WalkOK
<1>o. /\ \A x \in Thread \ {t} : pc'[x] = pc[x] /\ path'[x] = path[x]
      /\ pc'[t] = "walk" /\ path'[t] = Below(t)
  BY DEF TypeOK
<1>p. \A v : OnPath(t, v) => OnPath(t, v)' \/ v = node
  <2> SUFFICES ASSUME NEW v, OnPath(t, v), v # node PROVE OnPath(t, v)' OBVIOUS
  <2>1. PICK i \in DOMAIN path[t] : path[t][i].node = v BY DEF OnPath
  <2>2. i \in 1..n - 1 BY <1>a, <1>b, <2>1
  <2>3. i \in DOMAIN path'[t] /\ path'[t][i].node = v BY <1>a, <1>b, <1>o, <2>1, <2>2
  <2> QED BY <2>3 DEF OnPath
<1>q. \A v : OnSomePath(v) => OnSomePath(v)' \/ v = node
  <2> SUFFICES ASSUME NEW v, OnSomePath(v), v # node PROVE OnSomePath(v)' OBVIOUS
  <2>1. PICK u \in Thread : OnPath(u, v) BY DEF OnSomePath
  <2>2. OnPath(u, v)'
    <3>1. CASE u = t BY <1>p, <2>1, <3>1
    <3>2. CASE u # t BY <1>o, <2>1, <3>2 DEF OnPath
    <3> QED BY <3>1, <3>2
  <2> QED BY <2>2 DEF OnSomePath
<1>1. ASSUME NEW u \in Thread PROVE WalkerOK(u)'
  <2>1. CASE u # t
    <3>1. WalkerOK(u) BY DEF WalkOK
    <3>2. pc[u] = "call" => ~Done(Top(u).node)'
      <4> HAVE pc[u] = "call"
      <4>1. Top(u).node \in Vertex /\ ~Done(Top(u).node) BY <3>1, CallIs DEF WalkerOK
      <4>2. Top(u).node # node /\ Top(u)' = Top(u) BY <1>o, <2>1 DEF Top
      <4> QED BY <1>d, <4>1, <4>2
    <3> QED BY <1>d, <1>o, <2>1, <3>1, <3>2, OtherWalks
  <2>2. CASE u = t
    <3>0. WalkerOK(t) BY DEF WalkOK
    <3>1. path'[t] # <<>> BY <1>a, <1>b, <1>o
    <3>2. ASSUME NEW i \in DOMAIN path'[t] PROVE FrameOK(t, i)'
      <4>1. i \in 1..n - 1 /\ i \in DOMAIN path[t] /\ path'[t][i] = path[t][i] /\ Len(path'[t]) = n - 1
        BY <1>a, <1>b, <1>o
      <4>2. FrameOK(t, i) BY <3>0, <4>1 DEF WalkerOK
      <4>3. CASE i = 1 BY <1>d, <1>p, <4>1, <4>2, <4>3, NullIsNoVertex DEF FrameOK
      <4>4. CASE i # 1
        <5>0. PICK v, todo : v = path[t][i].node /\ todo = path[t][i].todo OBVIOUS
        <5>1. /\ v \in Reachable /\ todo \subseteq children[v]
              /\ \A c \in children[v] \ todo : Done(c) \/ OnPath(t, c)
              /\ \A j \in i..n : path[t][j].node \in ReachedFrom(v)
          BY <4>2, <4>4, <5>0 DEF FrameOK
        <5>2. children[v] \subseteq Vertex BY <5>1, ReachableIs, NullIsNoVertex DEF TypeOK
        <5>3. \A c \in children[v] \ todo : Done(c)' \/ OnPath(t, c)' BY <1>d, <1>p, <5>1, <5>2
        <5>4. ASSUME NEW j \in i..n - 1 PROVE path'[t][j].node \in ReachedFrom(v)
          <6>1. j \in 1..n - 1 /\ j \in i..n BY <1>a, <4>1
          <6>2. path'[t][j] = path[t][j] BY <1>b, <1>o, <6>1
          <6> QED BY <5>1, <6>1, <6>2
        <5>5. path'[t][i].node = v /\ path'[t][i].todo = todo /\ Len(path'[t]) = n - 1 BY <4>1, <5>0
        <5>6. v \in Reachable' /\ todo \subseteq children'[v] BY <1>g, <5>1
        <5>7. \A c \in children'[v] \ todo : Done(c)' \/ OnPath(t, c)' BY <1>g, <5>3
        <5>8. \A j \in i..Len(path'[t]) : path'[t][j].node \in ReachedFrom(v)' BY <1>g, <5>4, <5>5
        <5> HIDE DEF n
        <5> QED BY <4>4, <5>5, <5>6, <5>7, <5>8 DEF FrameOK
      <4> QED BY <4>3, <4>4
    <3> QED BY <1>o, <2>2, <3>1, <3>2 DEF WalkerOK
  <2> QED BY <2>1, <2>2
<1>2. locked' = {Top(u)'.node : u \in {u \in Thread : pc'[u] = "call"}}
  <2>1. \A u \in Thread : pc'[u] = "call" <=> u # t /\ pc[u] = "call" BY <1>o
  <2>2. \A u \in Thread \ {t} : Top(u)' = Top(u) BY <1>o DEF Top
  <2>3. \A v : v \in locked' <=> \E u \in Thread \ {t} : pc[u] = "call" /\ Top(u).node = v
    BY LockedIs
  <2> QED BY <2>1, <2>2, <2>3
<1>3. ASSUME NEW v \in Vertex
      PROVE  /\ Done(v)' => v \in Reachable' /\ \A c \in children'[v] : Done(c)' \/ OnSomePath(c)'
             /\ visited'[v] = 1 => \A c \in children'[v] : Done(c)' \/ v \in ReachedFrom(c)'
  <2>1. CASE v = node
    <3>1. ASSUME NEW c \in children[v] PROVE Done(c) \/ OnPath(t, c) BY <2>1, TopSees
    <3>2. ASSUME NEW c \in children[v] PROVE c \in Vertex /\ (Done(c) \/ v \in ReachedFrom(c))
      BY <2>1, TopSees
    <3>3. \A c \in children[v] : Done(c)' \/ OnSomePath(c)'
      BY <1>d, <1>q, <3>1, <3>2 DEF OnSomePath
    <3>4. \A c \in children[v] : Done(c)' \/ v \in ReachedFrom(c) BY <1>d, <3>2
    <3>5. \A c \in children'[v] : Done(c)' \/ v \in ReachedFrom(c)' BY <1>g, <3>4, Zenon
    <3> QED BY <1>a, <1>g, <2>1, <3>3, <3>5
  <2>2. CASE v # node
    <3>0. children[v] \subseteq Vertex BY NullIsNoVertex DEF TypeOK
    <3>1. Done(v)' => Done(v) BY <1>d, <2>2
    <3>2. Done(v) => v \in Reachable /\ \A c \in children[v] : Done(c) \/ OnSomePath(c)
      BY <1>w
    <3>3. \A c \in children[v] : Done(c) \/ OnSomePath(c) => Done(c)' \/ OnSomePath(c)'
      BY <1>d, <1>q, <3>0
    <3>4. visited'[v] = 1 => visited[v] = 1
      <4>1. visited[v] = IF Done(v) \/ v \in locked THEN 1 ELSE 0 BY <1>w
      <4>2. v \in locked' => v \in locked OBVIOUS
      <4> QED BY <3>1, <4>1, <4>2
    <3>5. visited[v] = 1 => \A c \in children[v] : Done(c) \/ v \in ReachedFrom(c)
      BY <1>w, Zenon
    <3>6. visited'[v] = 1 => \A c \in children[v] : Done(c)' \/ v \in ReachedFrom(c)
      BY <1>d, <3>0, <3>4, <3>5
    <3>7. v \in Reachable' <=> v \in Reachable BY <1>g
    <3>8. (\A c \in children'[v] : Done(c)' \/ OnSomePath(c)')
          <=> (\A c \in children[v] : Done(c)' \/ OnSomePath(c)')
      BY <1>g
    <3>9. visited'[v] = 1 => \A c \in children'[v] : Done(c)' \/ v \in ReachedFrom(c)'
      BY <1>g, <3>6, Zenon
    <3> QED BY <1>g, <3>1, <3>2, <3>3, <3>9
  <2> QED BY <2>1, <2>2
<1>4. pc'[0] \in {"wait", "asleep"} => Done(Root)'
  <2>1. pc'[0] \in {"wait", "asleep"} => pc[0] \in {"wait", "asleep"} BY <1>o, ThreadsAre
  <2> QED BY <1>a, <1>d, <2>1, NullIsNoVertex DEF WalkOK
<1> QED BY <1>1, <1>2, <1>3, <1>4, <1>a DEF WalkOK

\* Where a walk is after it has entered a child, or has skipped it.
LEMMA EnteredIs ==
  ASSUME TypeOK, PoolOK, TreeOK, WalkOK, NEW t \in Thread, Enters(t)
  PROVE  \E v \in Reachable, n \in Nat \ {0}, m \in Nat :
           /\ n = Len(path[t]) /\ m = Len(path'[t]) /\ v \in Vertex
           /\ path[t] \in Seq(Frame) /\ DOMAIN path'[t] = 1..m
           /\ \A i \in 1..n : path'[t][i].node = path[t][i].node
           /\ \A i \in 1..n - 1 : path'[t][i].todo = path[t][i].todo
           /\ path'[t][n].todo = path[t][n].todo \ {v}
           /\ \/ m = n /\ (Done(v) \/ OnPath(t, v))
              \/ m = n + 1 /\ path'[t][m].node = v /\ path'[t][m].todo = children[v]
           /\ n = 1 => v = Root
           /\ n # 1 => v \in children[path[t][n].node]
<1>1. PICK v \in Top(t).todo :
        LET rest == Append(Below(t), [Top(t) EXCEPT !.todo = @ \ {v}])
        IN  path' = [path EXCEPT ![t] =
                       IF Done(v) \/ OnPath(t, v) THEN rest
                       ELSE Append(rest, [node |-> v, todo |-> children[v]])]
  BY DEF Enters
<1>2. pc[t] = "walk" /\ task[t] \in Walks BY DEF Enters, PoolOK, WorksOnTask
<1>3. hasRoot
  <2>1. task[t] # NULL BY <1>2, TreeAssumption DEF Tasks
  <2> QED BY <1>2, <2>1, TaskAtHand DEF TreeOK, Due
<1>4. PICK n \in Nat \ {0} : n = Len(path[t]) BY <1>2, TopIs
<1>5. /\ path[t] \in Seq(Frame) /\ path[t] # <<>> /\ Top(t) = path[t][n] /\ Top(t) \in Frame
      /\ Below(t) \in Seq(Frame) /\ Len(Below(t)) = n - 1
      /\ \A i \in 1..n - 1 : Below(t)[i] = path[t][i]
  BY <1>2, <1>4, TopIs
<1>6. FrameOK(t, n) BY <1>4, <1>5 DEF WalkOK, WalkerOK
<1>7. v \in Vertex BY <1>2, TopIs
<1>8. n = 1 => v = Root BY <1>5, <1>6 DEF FrameOK
<1>9. n # 1 => path[t][n].node \in Reachable /\ v \in children[path[t][n].node]
  BY <1>5, <1>6 DEF FrameOK
<1>10. v \in Reachable BY <1>3, <1>8, <1>9, ReachableIs
<1>11. PICK top \in Frame : /\ top = [Top(t) EXCEPT !.todo = @ \ {v}]
                            /\ top.node = path[t][n].node /\ top.todo = path[t][n].todo \ {v}
  <2>1. PICK x \in Vertex \cup {NULL}, todo \in SUBSET Vertex : Top(t) = [node |-> x, todo |-> todo]
    BY <1>5 DEF Frame
  <2>2. [Top(t) EXCEPT !.todo = @ \ {v}] = [node |-> x, todo |-> todo \ {v}] BY <2>1
  <2>3. [node |-> x, todo |-> todo \ {v}] \in Frame BY FramesAre
  <2>4. path[t][n].node = x /\ path[t][n].todo = todo BY <1>5, <2>1
  <2> QED BY <2>2, <2>3, <2>4
<1>12. PICK below \in Seq(Frame) : below = Below(t) BY <1>5
<1>13. PICK rest : rest = Append(below, top) OBVIOUS
<1>14. /\ rest \in Seq(Frame) /\ Len(rest) = n
       /\ \A i \in 1..n - 1 : rest[i] = path[t][i]
       /\ rest[n] = top
  <2>1. Len(below) = n - 1 /\ \A i \in 1..n - 1 : below[i] = path[t][i] BY <1>5, <1>12
  <2> QED BY <1>4, <1>13, <2>1
<1>15. /\ \A i \in 1..n : rest[i].node = path[t][i].node
       /\ \A i \in 1..n - 1 : rest[i].todo = path[t][i].todo
       /\ rest[n].todo = path[t][n].todo \ {v}
  <2>1. \A i \in 1..n : i = n \/ i \in 1..n - 1 BY <1>4
  <2>2. rest[n].node = path[t][n].node /\ rest[n].todo = path[t][n].todo \ {v} BY <1>11, <1>14
  <2>3. \A i \in 1..n - 1 : rest[i].node = path[t][i].node /\ rest[i].todo = path[t][i].todo BY <1>14
  <2> QED BY <2>1, <2>2, <2>3
<1>16. CASE Done(v) \/ OnPath(t, v)
  <2>1. path'[t] = rest BY <1>1, <1>11, <1>12, <1>13, <1>16 DEF TypeOK
  <2>2. n = Len(path'[t]) /\ DOMAIN path'[t] = 1..n BY <1>14, <2>1
  <2> QED BY <1>4, <1>5, <1>7, <1>8, <1>9, <1>10, <1>15, <1>16, <2>1, <2>2
<1>17. CASE ~(Done(v) \/ OnPath(t, v))
  <2>1. PICK frame \in Frame : frame = [node |-> v, todo |-> children[v]]
    BY <1>7, NullIsNoVertex, FramesAre DEF TypeOK
  <2>2. path'[t] = Append(rest, frame) BY <1>1, <1>11, <1>12, <1>13, <1>17, <2>1 DEF TypeOK
  <2>3. /\ n + 1 = Len(path'[t]) /\ DOMAIN path'[t] = 1..n + 1 /\ path'[t][n + 1] = frame
        /\ \A i \in 1..n : path'[t][i] = rest[i]
    BY <1>14, <2>2
  <2>4. /\ \A i \in 1..n : path'[t][i].node = path[t][i].node
        /\ \A i \in 1..n - 1 : path'[t][i].todo = path[t][i].todo
        /\ path'[t][n].todo = path[t][n].todo \ {v}
    <3>1. n \in 1..n /\ \A i \in 1..n - 1 : i \in 1..n BY <1>4
    <3> QED BY <1>15, <2>3, <3>1
  <2>5. path'[t][n + 1].node = v /\ path'[t][n + 1].todo = children[v] BY <2>1, <2>3
  <2>6. PICK m \in Nat : m = n + 1 BY <1>4
  <2>7. m = Len(path'[t]) /\ DOMAIN path'[t] = 1..m BY <2>3, <2>6
  <2>8. m = n + 1 /\ path'[t][m].node = v /\ path'[t][m].todo = children[v] BY <2>5, <2>6
  <2>9. /\ n = Len(path[t]) /\ m = Len(path'[t]) /\ v \in Vertex
        /\ path[t] \in Seq(Frame) /\ DOMAIN path'[t] = 1..m
        /\ \A i \in 1..n : path'[t][i].node = path[t][i].node
        /\ \A i \in 1..n - 1 : path'[t][i].todo = path[t][i].todo
        /\ path'[t][n].todo = path[t][n].todo \ {v}
        /\ \/ m = n /\ (Done(v) \/ OnPath(t, v))
           \/ m = n + 1 /\ path'[t][m].node = v /\ path'[t][m].todo = children[v]
        /\ n = 1 => v = Root
        /\ n # 1 => v \in children[path[t][n].node]
    BY <1>4, <1>5, <1>7, <1>8, <1>9, <2>4, <2>7, <2>8
  <2> QED BY <1>4, <1>10, <2>6, <2>9, Zenon
<1> QED BY <1>16, <1>17

\* A walk goes down to a child, or takes it off its list because it is done or on its own path.
LEMMA EntersKeepsWalk ==
  ASSUME TypeOK, PoolOK, TreeOK, WalkOK, NEW t \in Thread, Enters(t)
  PROVE  WalkOK'
<1>1. PICK v \in Reachable, n \in Nat \ {0}, m \in Nat :
           /\ n = Len(path[t]) /\ m = Len(path'[t]) /\ v \in Vertex
           /\ path[t] \in Seq(Frame) /\ DOMAIN path'[t] = 1..m
           /\ \A i \in 1..n : path'[t][i].node = path[t][i].node
           /\ \A i \in 1..n - 1 : path'[t][i].todo = path[t][i].todo
           /\ path'[t][n].todo = path[t][n].todo \ {v}
           /\ \/ m = n /\ (Done(v) \/ OnPath(t, v))
              \/ m = n + 1 /\ path'[t][m].node = v /\ path'[t][m].todo = children[v]
           /\ n = 1 => v = Root
           /\ n # 1 => v \in children[path[t][n].node]
  BY EnteredIs
<1>2. /\ pc[t] = "walk" /\ UNCHANGED <<treeVars, ageVars, pc, task, locked, visited>>
      /\ \A x \in Thread \ {t} : path'[x] = path[x]
  BY DEF Enters, WalkUnchanged, ageVars, TypeOK
<1>g. /\ Reachable' = Reachable /\ children' = children
      /\ \A x : ReachedFrom(x)' = ReachedFrom(x)
  BY <1>2, GraphStays
<1>d. \A x : Done(x)' = Done(x) BY <1>2 DEF Done, ageVars
<1>n. DOMAIN path[t] = 1..n /\ n <= m /\ n \in 1..n /\ n \in Nat \ {0} BY <1>1
<1>p. \A x : OnPath(t, x) => OnPath(t, x)'
  <2> SUFFICES ASSUME NEW x, OnPath(t, x) PROVE OnPath(t, x)' OBVIOUS
  <2>1. PICK i \in 1..n : path[t][i].node = x BY <1>n DEF OnPath
  <2>2. i \in 1..m /\ path'[t][i].node = x BY <1>1, <1>n, <2>1
  <2> QED BY <1>1, <2>2 DEF OnPath
<1>v. Done(v)' \/ OnPath(t, v)'
  <2>1. CASE m = n BY <1>1, <1>d, <1>p, <2>1
  <2>2. CASE m = n + 1
    <3>1. m \in 1..m /\ path'[t][m].node = v BY <1>1, <2>2
    <3> QED BY <1>1, <3>1 DEF OnPath
  <2> QED BY <1>1, <2>1, <2>2
<1>o. \A x : OnSomePath(x) => OnSomePath(x)'
  <2> SUFFICES ASSUME NEW x, OnSomePath(x) PROVE OnSomePath(x)' OBVIOUS
  <2>1. PICK u \in Thread : OnPath(u, x) BY DEF OnSomePath
  <2>2. OnPath(u, x)'
    <3>1. CASE u = t BY <1>p, <2>1, <3>1
    <3>2. CASE u # t BY <1>2, <2>1, <3>2 DEF OnPath
    <3> QED BY <3>1, <3>2
  <2> QED BY <2>2 DEF OnSomePath
<1>3. ASSUME NEW i \in 1..m PROVE FrameOK(t, i)'
  <2>1. CASE i = 1
    <3>1. FrameOK(t, 1) BY <1>n, <1>1 DEF WalkOK, WalkerOK
    <3>2. /\ path[t][1].node = NULL /\ path[t][1].todo \subseteq {Root}
          /\ Root \in path[t][1].todo \/ Done(Root) \/ OnPath(t, Root)
      BY <3>1 DEF FrameOK
    <3>3. path'[t][1].node = NULL BY <1>1, <1>n, <3>2
    <3>4. CASE n = 1
      <4>1. path'[t][1].todo = path[t][1].todo \ {v} /\ v = Root BY <1>1, <3>4
      <4> QED BY <1>d, <1>v, <2>1, <3>2, <3>3, <4>1 DEF FrameOK
    <3>5. CASE n # 1
      <4>0. 1 \in 1..n - 1 BY <1>n, <3>5
      <4>1. path'[t][1].todo = path[t][1].todo BY <1>1, <4>0
      <4> QED BY <1>d, <1>p, <2>1, <3>2, <3>3, <4>1 DEF FrameOK
    <3> QED BY <3>4, <3>5
  <2>2. CASE i # 1 /\ i \in 1..n
    <3>1. FrameOK(t, i) BY <1>n, <2>2 DEF WalkOK, WalkerOK
    <3>2. PICK x, todo : x = path[t][i].node /\ todo = path[t][i].todo OBVIOUS
    <3>3. /\ x \in Reachable /\ todo \subseteq children[x]
          /\ \A c \in children[x] \ todo : Done(c) \/ OnPath(t, c)
          /\ \A j \in i..n : path[t][j].node \in ReachedFrom(x)
      BY <1>1, <2>2, <3>1, <3>2 DEF FrameOK
    <3>4. PICK todo2 : todo2 = path'[t][i].todo /\ todo2 \subseteq todo /\ todo \subseteq todo2 \cup {v}
      BY <1>1, <2>2, <3>2
    <3>5. path'[t][i].node = x BY <1>1, <2>2, <3>2
    <3>6. x \in Reachable' /\ todo2 \subseteq children'[x] BY <1>g, <3>3, <3>4
    <3>7. \A c \in children'[x] \ todo2 : Done(c)' \/ OnPath(t, c)'
      BY <1>d, <1>g, <1>p, <1>v, <3>3, <3>4
    <3>8. ASSUME NEW j \in i..m PROVE path'[t][j].node \in ReachedFrom(x)
      <4>1. CASE j \in 1..n
        <5>1. j \in i..n BY <4>1, <2>2
        <5> QED BY <1>1, <3>3, <4>1, <5>1
      <4>2. CASE j \notin 1..n
        <5>1. j = m /\ m = n + 1 /\ n \in i..n /\ n # 1 BY <1>1, <2>2, <4>2
        <5>2. v \in children[path[t][n].node] /\ path[t][n].node \in ReachedFrom(x)
          BY <1>1, <3>3, <5>1
        <5>3. v \in ReachedFrom(x) BY <5>2, ReachIsClosed DEF ReachedFrom, Graph, TypeOK
        <5> QED BY <1>1, <5>1, <5>3
      <4> QED BY <4>1, <4>2
    <3>9. \A j \in i..Len(path'[t]) : path'[t][j].node \in ReachedFrom(x)' BY <1>1, <1>g, <3>8
    <3> QED BY <2>2, <3>4, <3>5, <3>6, <3>7, <3>9 DEF FrameOK
  <2>3. CASE i \notin 1..n
    <3>1. i = m /\ m = n + 1 /\ i # 1 BY <1>1, <2>3
    <3>2. path'[t][i].node = v /\ path'[t][i].todo = children'[v] BY <1>1, <1>g, <3>1
    <3>3. \A j \in i..Len(path'[t]) : path'[t][j].node \in ReachedFrom(v)'
      <4>1. v \in ReachedFrom(v)
        BY <1>1, ReachIsClosed DEF ReachedFrom, Graph, TypeOK
      <4>2. \A j \in i..Len(path'[t]) : j = m BY <1>1, <3>1
      <4> QED BY <1>1, <1>g, <3>1, <4>1, <4>2
    <3>4. v \in Reachable' BY <1>g
    <3> QED BY <3>1, <3>2, <3>3, <3>4 DEF FrameOK
  <2> QED BY <2>1, <2>2, <2>3
<1>4. ASSUME NEW u \in Thread PROVE WalkerOK(u)'
  <2>0. WalkerOK(u) BY DEF WalkOK
  <2>1. CASE u # t
    <3>1. pc[u] = "call" => ~Done(Top(u).node)'
      <4>1. Top(u)' = Top(u) BY <1>2, <2>1 DEF Top
      <4> QED BY <1>d, <2>0, <4>1 DEF WalkerOK
    <3> QED BY <1>2, <1>d, <2>0, <2>1, <3>1, OtherWalks
  <2>2. CASE u = t
    <3>1. path'[t] # <<>> /\ pc'[t] = "walk" BY <1>1, <1>2, <1>n
    <3> QED BY <1>1, <1>3, <2>2, <3>1 DEF WalkerOK
  <2> QED BY <2>1, <2>2
<1>5. locked' = {Top(u)'.node : u \in {u \in Thread : pc'[u] = "call"}}
  <2>1. \A u \in {u \in Thread : pc'[u] = "call"} : Top(u)' = Top(u) BY <1>2 DEF Top
  <2> QED BY <1>2, <2>1 DEF WalkOK
<1>6. task[0] \in Walks BY <1>2, WalkIsAtTask
<1>7. pc'[0] \in {"wait", "asleep"} => Done(Root)' BY <1>2, <1>6, <1>d DEF WalkOK
<1>8. \A x \in Vertex :
        /\ visited'[x] = IF Done(x)' \/ x \in locked' THEN 1 ELSE 0
        /\ Done(x)' => x \in Reachable' /\ \A c \in children'[x] : Done(c)' \/ OnSomePath(c)'
        /\ visited'[x] = 1 => \A c \in children'[x] : Done(c)' \/ x \in ReachedFrom(c)'
  BY <1>2, <1>6, <1>d, <1>g, <1>o DEF WalkOK
<1> QED BY <1>2, <1>4, <1>5, <1>6, <1>7, <1>8 DEF WalkOK

\* A walk begins.
LEMMA BeginsKeepsWalk ==
  ASSUME TypeOK, PoolOK, WalkOK, NEW t \in Thread, BeginsTask(t)
  PROVE  WalkOK'
<1>1. /\ pc[t] = "begin" /\ UNCHANGED <<treeVars, ageVars, task, locked, visited>>
      /\ pc' = [pc EXCEPT ![t] = IF task[t] \in Walks THEN "walk" ELSE task[t]]
  BY DEF BeginsTask, Goto
<1>2. task[t] \in Tasks /\ task[t] # NULL /\ task[0] = task[t]
  <2>1. task[t] # NULL BY <1>1, ThreadsAre DEF PoolOK, OwnerOK, WorkerOK
  <2> QED BY <2>1, TaskAtHand
<1>o. \A x \in Thread : pc'[x] = IF x = t THEN IF task[t] \in Walks THEN "walk" ELSE task[t] ELSE pc[x]
  BY <1>1 DEF TypeOK
<1>3. CASE task[t] \notin Walks
  <2>1. UNCHANGED path BY <1>3 DEF BeginsTask
  <2>2. task[t] \in {"sweep", "deleteAll", "search"} BY <1>2, <1>3 DEF Tasks
  <2> QED BY <1>1, <1>o, <2>1, <2>2, <1>3, WalkRests DEF Walks
<1>4. CASE task[t] \in Walks
  <2>1. path' = [path EXCEPT ![t] = <<[node |-> NULL, todo |-> {Root}]>>] BY <1>4 DEF BeginsTask
  <2>2. path'[t] = <<[node |-> NULL, todo |-> {Root}]>> /\ \A x \in Thread \ {t} : path'[x] = path[x]
    BY <2>1 DEF TypeOK
  <2>3. path[t] = <<>> BY <1>1 DEF WalkOK, WalkerOK
  <2>g. /\ Reachable' = Reachable /\ children' = children
        /\ \A x : ReachedFrom(x)' = ReachedFrom(x)
    BY <1>1, GraphStays
  <2>d. \A x : Done(x)' = Done(x) BY <1>1 DEF Done, ageVars
  <2>o. \A x : OnSomePath(x) => OnSomePath(x)'
    <3> SUFFICES ASSUME NEW x, OnSomePath(x) PROVE OnSomePath(x)' OBVIOUS
    <3>1. PICK u \in Thread : OnPath(u, x) BY DEF OnSomePath
    <3>2. u # t BY <2>3, <3>1 DEF OnPath
    <3>3. OnPath(u, x)' BY <2>2, <3>1, <3>2 DEF OnPath
    <3> QED BY <3>3 DEF OnSomePath
  <2>4. ASSUME NEW u \in Thread PROVE WalkerOK(u)'
    <3>0. WalkerOK(u) BY DEF WalkOK
    <3>1. CASE u # t
      <4>1. pc[u] = "call" => ~Done(Top(u).node)'
        <5>1. Top(u)' = Top(u) BY <2>2, <3>1 DEF Top
        <5> QED BY <2>d, <3>0, <5>1 DEF WalkerOK
      <4>2. pc'[t] # "call" BY <1>o, <1>4
      <4> QED BY <1>1, <1>o, <2>2, <2>d, <3>0, <3>1, <4>1, <4>2, OtherWalks
    <3>2. CASE u = t
      <4>1. path'[t] # <<>> /\ pc'[t] = "walk" BY <1>o, <1>4, <2>2
      <4>2. \A i \in DOMAIN path'[t] : i = 1 BY <2>2
      <4>3. FrameOK(t, 1)'
        <5>1. path'[t][1].node = NULL /\ path'[t][1].todo = {Root} BY <2>2
        <5> QED BY <5>1 DEF FrameOK
      <4> QED BY <3>2, <4>1, <4>2, <4>3 DEF WalkerOK
    <3> QED BY <3>1, <3>2
  <2>5. locked' = {Top(u)'.node : u \in {u \in Thread : pc'[u] = "call"}}
    <3>1. {u \in Thread : pc'[u] = "call"} = {u \in Thread : pc[u] = "call"} BY <1>1, <1>o, <1>4
    <3>2. \A u \in {u \in Thread : pc[u] = "call"} : Top(u)' = Top(u) BY <1>1, <2>2 DEF Top
    <3> QED BY <1>1, <3>1, <3>2 DEF WalkOK
  <2>6. pc'[0] \in {"wait", "asleep"} => Done(Root)'
    <3>1. pc'[0] \in {"wait", "asleep"} => pc[0] \in {"wait", "asleep"} BY <1>4, <1>o, ThreadsAre
    <3> QED BY <1>2, <1>4, <2>d, <3>1 DEF WalkOK
  <2>7. \A x \in Vertex :
          /\ visited'[x] = IF Done(x)' \/ x \in locked' THEN 1 ELSE 0
          /\ Done(x)' => x \in Reachable' /\ \A c \in children'[x] : Done(c)' \/ OnSomePath(c)'
          /\ visited'[x] = 1 => \A c \in children'[x] : Done(c)' \/ x \in ReachedFrom(c)'
    BY <1>1, <1>2, <1>4, <2>d, <2>g, <2>o DEF WalkOK
  <2> QED BY <1>1, <1>2, <1>4, <2>4, <2>5, <2>6, <2>7 DEF WalkOK
<1> QED BY <1>3, <1>4

\* A walk ends when it is back at the root.
LEMMA EndKeepsWalk ==
  ASSUME TypeOK, PoolOK, WalkOK, NEW t \in Thread, EndsWalk(t)
  PROVE  WalkOK'
<1>1. /\ pc[t] = "walk" /\ Top(t).node = NULL /\ Top(t).todo = {}
      /\ path' = [path EXCEPT ![t] = <<>>] /\ UNCHANGED <<treeVars, ageVars, task, locked, visited>>
      /\ pc' = [pc EXCEPT ![t] = IF t = 0 THEN "wait" ELSE "checkIn"]
  BY DEF EndsWalk, EndsTask, Goto, WalkUnchanged, ageVars
<1>2. task[0] \in Walks BY <1>1, WalkIsAtTask
<1>o. \A x \in Thread : /\ pc'[x] = IF x = t THEN IF t = 0 THEN "wait" ELSE "checkIn" ELSE pc[x]
                        /\ path'[x] = IF x = t THEN <<>> ELSE path[x]
  BY <1>1 DEF TypeOK
<1>3. Len(path[t]) = 1 /\ path[t] \in Seq(Frame) /\ path[t][1] = Top(t)
  <2>1. PICK n \in Nat \ {0} : n = Len(path[t]) BY <1>1, TopIs
  <2>2. path[t] \in Seq(Frame) /\ path[t][n] = Top(t) BY <1>1, <2>1, TopIs
  <2>3. n = 1
    <3>1. SUFFICES ASSUME n # 1 PROVE FALSE OBVIOUS
    <3>2. n \in 2..n BY <3>1
    <3>3. n \in 2..Len(path[t]) BY <2>1, <3>2
    <3>4. path[t][n].node \in Vertex BY <3>3, FramesReach
    <3> QED BY <1>1, <2>2, <3>4, NullIsNoVertex
  <2> QED BY <2>1, <2>2, <2>3
<1>4. \A v \in Vertex : ~OnPath(t, v)
  <2>1. \A i \in DOMAIN path[t] : i = 1 BY <1>3
  <2> QED BY <1>1, <1>3, <2>1, NullIsNoVertex DEF OnPath
<1>5. Done(Root)
  <2>1. FrameOK(t, 1) BY <1>3 DEF WalkOK, WalkerOK
  <2>2. Root \in path[t][1].todo \/ Done(Root) \/ OnPath(t, Root) BY <2>1 DEF FrameOK
  <2> QED BY <1>1, <1>3, <1>4, <2>2, NullIsNoVertex
<1>g. /\ Reachable' = Reachable /\ children' = children
      /\ \A x : ReachedFrom(x)' = ReachedFrom(x)
  BY <1>1, GraphStays
<1>d. \A x : Done(x)' = Done(x) BY <1>1 DEF Done, ageVars
<1>p. \A x \in Vertex : OnSomePath(x) => OnSomePath(x)'
  <2> SUFFICES ASSUME NEW x \in Vertex, OnSomePath(x) PROVE OnSomePath(x)' OBVIOUS
  <2>1. PICK u \in Thread : OnPath(u, x) BY DEF OnSomePath
  <2>2. u # t BY <1>4, <2>1
  <2>3. OnPath(u, x)' BY <1>o, <2>1, <2>2 DEF OnPath
  <2> QED BY <2>3 DEF OnSomePath
<1>6. ASSUME NEW u \in Thread PROVE WalkerOK(u)'
  <2>0. WalkerOK(u) BY DEF WalkOK
  <2>1. CASE u # t
    <3>1. pc[u] = "call" => ~Done(Top(u).node)'
      <4>1. Top(u)' = Top(u) BY <1>o, <2>1 DEF Top
      <4> QED BY <1>d, <2>0, <4>1 DEF WalkerOK
    <3>2. pc'[t] # "call" BY <1>o
    <3> QED BY <1>1, <1>o, <1>d, <2>0, <2>1, <3>1, <3>2, OtherWalks
  <2>2. CASE u = t
    <3>1. path'[t] = <<>> /\ pc'[t] \notin {"walk", "call"} BY <1>o
    <3> QED BY <2>2, <3>1 DEF WalkerOK
  <2> QED BY <2>1, <2>2
<1>7. locked' = {Top(u)'.node : u \in {u \in Thread : pc'[u] = "call"}}
  <2>1. {u \in Thread : pc'[u] = "call"} = {u \in Thread : pc[u] = "call"} BY <1>1, <1>o
  <2>2. \A u \in {u \in Thread : pc[u] = "call"} : Top(u)' = Top(u) BY <1>1, <1>o DEF Top
  <2> QED BY <1>1, <2>1, <2>2 DEF WalkOK
<1>8. ASSUME NEW x \in Vertex
      PROVE  /\ visited'[x] = IF Done(x)' \/ x \in locked' THEN 1 ELSE 0
             /\ Done(x)' => x \in Reachable' /\ \A c \in children'[x] : Done(c)' \/ OnSomePath(c)'
             /\ visited'[x] = 1 => \A c \in children'[x] : Done(c)' \/ x \in ReachedFrom(c)'
  <2>1. \A c \in children[x] : c \in Vertex BY NullIsNoVertex DEF TypeOK
  <2> QED BY <1>1, <1>2, <1>d, <1>g, <1>p, <2>1 DEF WalkOK
<1> QED BY <1>1, <1>2, <1>d, <1>5, <1>6, <1>7, <1>8 DEF WalkOK

\* What is known of visited while a walk goes on.
LEMMA VisitedIs ==
  ASSUME WalkOK, task[0] \in Walks, NEW v \in Vertex
  PROVE  /\ visited[v] = IF Done(v) \/ v \in locked THEN 1 ELSE 0
         /\ Done(v) => v \in Reachable /\ \A c \in children[v] : Done(c) \/ OnSomePath(c)
         /\ visited[v] = 1 => \A c \in children[v] : Done(c) \/ v \in ReachedFrom(c)
BY DEF WalkOK

\* A walk that marks, at a node with nothing left to do.
LEMMA MarksKeepsWalk ==
  ASSUME TypeOK, PoolOK, WalkOK, NEW t \in Thread, Marks(t)
  PROVE  WalkOK'
<1>1. /\ pc[t] = "walk" /\ task[t] = "mark" /\ Top(t).todo = {} /\ Top(t).node # NULL
      /\ visited' = IF Done(Top(t).node) THEN visited ELSE [visited EXCEPT ![Top(t).node] = @ + 1]
      /\ nodeAge' = [nodeAge EXCEPT ![Top(t).node] = searchNodeAge]
      /\ path' = [path EXCEPT ![t] = Below(t)]
      /\ UNCHANGED <<treeVars, searchNodeAge, task, pc, locked>>
  BY DEF Marks, WalkUnchanged
<1>2. Top(t).node \in Vertex /\ task[0] \in Walks /\ task[t] # NULL
  BY <1>1, WalkIsAt, WalkIsAtTask, TreeAssumption DEF Tasks
<1>3. task[0] = "mark" BY <1>1, <1>2, TaskAtHand
<1>4. \A u \in Thread : pc[u] # "call"
  <2> SUFFICES ASSUME NEW u \in Thread, pc[u] = "call" PROVE FALSE OBVIOUS
  <2>1. task[u] = "recompute" BY DEF PoolOK, WorksOnTask
  <2>2. task[u] # NULL BY <2>1, TreeAssumption DEF Tasks, Walks
  <2> QED BY <1>3, <2>1, <2>2, TaskAtHand
<1>5. locked = {} BY <1>4, LockedIs
<1>6. pc' = [pc EXCEPT ![t] = "walk"] BY <1>1 DEF TypeOK
<1>7. nodeAge'[Top(t).node] = searchNodeAge BY <1>1, <1>2 DEF TypeOK
<1>8. ASSUME NEW v \in Vertex PROVE visited'[v] = IF Done(v)' \/ v \in locked' THEN 1 ELSE 0
  <2>1. visited[v] = IF Done(v) THEN 1 ELSE 0 BY <1>2, <1>5, VisitedIs
  <2>2. CASE v = Top(t).node
    <3>1. Done(v)' BY <1>1, <1>7, <2>2 DEF Done
    <3>2. CASE Done(v) BY <1>1, <2>1, <2>2, <3>1, <3>2
    <3>3. CASE ~Done(v)
      <4>1. visited'[v] = visited[v] + 1 BY <1>1, <2>2, <3>3 DEF TypeOK
      <4> QED BY <2>1, <3>1, <3>3, <4>1
    <3> QED BY <3>2, <3>3
  <2>3. CASE v # Top(t).node
    <3>1. visited'[v] = visited[v] /\ nodeAge'[v] = nodeAge[v] BY <1>1, <2>3 DEF TypeOK
    <3>2. Done(v)' <=> Done(v) BY <1>1, <3>1 DEF Done
    <3> QED BY <1>1, <1>5, <2>1, <3>1, <3>2
  <2> QED BY <2>2, <2>3
<1> QED BY <1>1, <1>4, <1>6, <1>7, <1>8, Leaves

\* A call returns: its node is done.
LEMMA CallReturnsKeepsWalk ==
  ASSUME TypeOK, PoolOK, WalkOK, NEW t \in Thread, CallReturns(t)
  PROVE  WalkOK'
<1>1. /\ pc[t] = "call"
      /\ nodeAge' = [nodeAge EXCEPT ![Top(t).node] = searchNodeAge]
      /\ locked' = locked \ {Top(t).node}
      /\ path' = [path EXCEPT ![t] = Below(t)] /\ pc' = [pc EXCEPT ![t] = "walk"]
      /\ UNCHANGED <<treeVars, searchNodeAge, task, visited>>
  BY DEF CallReturns, WalkUnchanged, Goto
<1>2. Top(t).node \in Vertex /\ Top(t).todo = {} /\ task[0] \in Walks BY <1>1, WalkIsAt, WalkIsAtTask, CallIs
<1>3. Top(t).node \in locked BY <1>1, LockedIs
<1>4. \A u \in Thread \ {t} : pc[u] = "call" => Top(u).node # Top(t).node
  BY <1>1 DEF WalkOK, WalkerOK
<1>5. nodeAge'[Top(t).node] = searchNodeAge BY <1>1, <1>2 DEF TypeOK
<1>6. ASSUME NEW v \in Vertex PROVE visited'[v] = IF Done(v)' \/ v \in locked' THEN 1 ELSE 0
  <2>1. visited'[v] = IF Done(v) \/ v \in locked THEN 1 ELSE 0 BY <1>1, <1>2, VisitedIs
  <2>2. CASE v = Top(t).node
    <3>1. Done(v)' BY <1>1, <1>5, <2>2 DEF Done
    <3> QED BY <1>3, <2>1, <2>2, <3>1
  <2>3. CASE v # Top(t).node
    <3>1. nodeAge'[v] = nodeAge[v] BY <1>1, <2>3 DEF TypeOK
    <3>2. Done(v)' <=> Done(v) BY <1>1, <3>1 DEF Done
    <3> QED BY <1>1, <2>1, <2>3, <3>2
  <2> QED BY <2>2, <2>3
<1> QED BY <1>1, <1>2, <1>4, <1>5, <1>6, Leaves

\* A call begins, at a node with nothing left to do.
LEMMA CallsKeepsWalk ==
  ASSUME TypeOK, PoolOK, WalkOK, NEW t \in Thread, Calls(t)
  PROVE  WalkOK'
<1>1. /\ pc[t] = "walk" /\ Top(t).todo = {} /\ Top(t).node # NULL /\ Top(t).node \notin locked
      /\ UNCHANGED <<treeVars, ageVars, task>>
  BY DEF Calls, WalkUnchanged, ageVars
<1>2. /\ Top(t).node \in Vertex /\ task[0] \in Walks /\ Top(t).node \in Reachable
      /\ Len(path[t]) \in 2..Len(path[t])
  BY <1>1, WalkIsAt
<1>3. CASE Done(Top(t).node)
  <2>1. path' = [path EXCEPT ![t] = Below(t)] /\ UNCHANGED <<pc, locked, visited>> BY <1>3 DEF Calls
  <2>2. pc' = [pc EXCEPT ![t] = "walk"] BY <1>1, <2>1 DEF TypeOK
  <2>3. \A v : Done(v)' = Done(v) BY <1>1 DEF Done, ageVars
  <2>4. \A v \in Vertex : visited'[v] = IF Done(v)' \/ v \in locked' THEN 1 ELSE 0
    BY <1>2, <2>1, <2>3, VisitedIs
  <2>5. \A u \in Thread \ {t} : pc[u] = "call" => Top(u).node # Top(t).node
    BY <1>3 DEF WalkOK, WalkerOK
  <2>6. nodeAge'[Top(t).node] = searchNodeAge BY <1>1, <1>3 DEF Done, ageVars
  <2> QED BY <1>1, <2>1, <2>2, <2>4, <2>5, <2>6, Leaves DEF ageVars
<1>4. CASE ~Done(Top(t).node)
  <2>1. /\ locked' = locked \cup {Top(t).node}
        /\ visited' = [visited EXCEPT ![Top(t).node] = @ + 1]
        /\ pc' = [pc EXCEPT ![t] = "call"] /\ UNCHANGED path
    BY <1>4 DEF Calls, Goto
  <2>g. /\ Reachable' = Reachable /\ children' = children
        /\ \A x : ReachedFrom(x)' = ReachedFrom(x)
    BY <1>1, GraphStays
  <2>d. \A x : Done(x)' = Done(x) /\ OnSomePath(x)' = OnSomePath(x)
    BY <1>1, <2>1 DEF Done, ageVars, OnSomePath, OnPath
  <2>t. \A u \in Thread : Top(u)' = Top(u) BY <2>1 DEF Top
  <2>o. \A x \in Thread : pc'[x] = IF x = t THEN "call" ELSE pc[x] BY <2>1 DEF TypeOK
  <2>2. \A u \in Thread : pc[u] = "call" => Top(u).node # Top(t).node BY <1>1, LockedIs
  <2>3. ASSUME NEW u \in Thread PROVE WalkerOK(u)'
    <3>0. WalkerOK(u) BY DEF WalkOK
    <3>1. CASE u # t
      <4>1. pc[u] = "call" => ~Done(Top(u).node)'
        BY <2>d, <2>t, <3>0 DEF WalkerOK
      <4>2. pc[u] = "call" => Top(t)'.node # Top(u).node BY <2>2, <2>t
      <4> QED BY <1>1, <2>1, <2>o, <2>d, <3>0, <3>1, <4>1, <4>2, OtherWalks
    <3>2. CASE u = t
      <4>1. path'[t] # <<>> /\ pc'[t] = "call" BY <1>1, <2>1, <2>o, TopIs
      <4>2. \A i \in DOMAIN path'[t] : FrameOK(t, i)'
        <5>1. \A i : FrameOK(t, i)' = FrameOK(t, i)
          BY <1>1, <2>1 DEF FrameOK, OnPath, Done, Reachable, ReachedFrom, ReachableFrom, treeVars, ageVars
        <5> QED BY <2>1, <3>0, <3>2, <5>1 DEF WalkerOK
      <4>3. Len(path'[t]) > 1 /\ Top(t)'.todo = {}
        <5>1. Len(path[t]) > 1
          <6>1. PICK n \in Nat \ {0} : n = Len(path[t]) BY <1>1, TopIs
          <6>2. n \in 2..n BY <1>2, <6>1
          <6>3. n > 1 BY <6>2
          <6> QED BY <6>1, <6>3
        <5> QED BY <1>1, <2>1, <2>t, <5>1
      <4>4. ~Done(Top(t).node)' BY <1>4, <2>d, <2>t
      <4>5. \A x \in Thread \ {t} : pc'[x] = "call" => Top(x)'.node # Top(t)'.node
        BY <2>2, <2>o, <2>t
      <4> QED BY <3>2, <4>1, <4>2, <4>3, <4>4, <4>5 DEF WalkerOK
    <3> QED BY <3>1, <3>2
  <2>4. locked' = {Top(u)'.node : u \in {u \in Thread : pc'[u] = "call"}}
    <3>1. \A v : v \in locked' <=> \E u \in Thread : pc'[u] = "call" /\ Top(u).node = v
      BY <2>1, <2>o, LockedIs
    <3> QED BY <2>t, <3>1
  <2>5. pc'[0] \in {"wait", "asleep"} => Done(Root)'
    <3>1. pc'[0] \in {"wait", "asleep"} => pc[0] \in {"wait", "asleep"} BY <2>o, ThreadsAre
    <3> QED BY <1>2, <2>d, <3>1 DEF WalkOK
  <2>6. ASSUME NEW v \in Vertex
        PROVE  /\ visited'[v] = IF Done(v)' \/ v \in locked' THEN 1 ELSE 0
               /\ Done(v)' => v \in Reachable' /\ \A c \in children'[v] : Done(c)' \/ OnSomePath(c)'
               /\ visited'[v] = 1 => \A c \in children'[v] : Done(c)' \/ v \in ReachedFrom(c)'
    <3>0. /\ visited[v] = IF Done(v) \/ v \in locked THEN 1 ELSE 0
          /\ Done(v) => v \in Reachable /\ \A c \in children[v] : Done(c) \/ OnSomePath(c)
          /\ visited[v] = 1 => \A c \in children[v] : Done(c) \/ v \in ReachedFrom(c)
      BY <1>2, VisitedIs
    <3>1. Done(v)' => v \in Reachable' /\ \A c \in children'[v] : Done(c)' \/ OnSomePath(c)'
      BY <2>d, <2>g, <3>0
    <3>2. CASE v = Top(t).node
      <4>1. visited'[v] = visited[v] + 1 BY <2>1, <3>2 DEF TypeOK
      <4>2. visited'[v] = 1 /\ v \in locked' BY <1>1, <1>4, <2>1, <3>0, <3>2, <4>1
      <4>3. ASSUME NEW c \in children[v] PROVE Done(c) \/ v \in ReachedFrom(c)
        BY <1>1, <3>2, TopSees
      <4>4. \A c \in children'[v] : Done(c)' \/ v \in ReachedFrom(c)' BY <2>d, <2>g, <4>3
      <4> QED BY <3>1, <4>2, <4>4
    <3>3. CASE v # Top(t).node
      <4>1. visited'[v] = visited[v] /\ (v \in locked' <=> v \in locked) BY <2>1, <3>3 DEF TypeOK
      <4>2. visited'[v] = IF Done(v)' \/ v \in locked' THEN 1 ELSE 0 BY <2>d, <3>0, <4>1
      <4>3. visited'[v] = 1 => \A c \in children'[v] : Done(c)' \/ v \in ReachedFrom(c)'
        BY <2>d, <2>g, <3>0, <4>1
      <4> QED BY <3>1, <4>2, <4>3
    <3> QED BY <3>2, <3>3
  <2> QED BY <1>1, <1>2, <2>3, <2>4, <2>5, <2>6 DEF WalkOK
<1> QED BY <1>3, <1>4

\* Every step keeps the walks.
LEMMA WalkStep ==
  ASSUME IInv, [Next]_vars
  PROVE  WalkOK'
<1> USE DEF IInv
<1>a. /\ 0 \in Thread /\ Worker \subseteq Thread /\ 0 \notin Worker /\ NULL \notin Tasks
      /\ pc \in [Thread -> PcTypes] /\ task \in [Thread -> Tasks \cup {NULL}]
  BY ThreadsAre, TreeAssumption DEF TypeOK, PcTypes
<1>z. ASSUME task[0] \notin Walks, UNCHANGED <<path, locked, visited>>, task'[0] \notin Walks,
             \A t \in Thread : pc'[t] = pc[t] \/ pc'[t] \notin {"walk", "call"}
      PROVE  WalkOK'
  <2>1. /\ \A t \in Thread : pc[t] \notin {"walk", "call"} /\ path[t] = <<>>
        /\ locked = {} /\ \A v \in Vertex : visited[v] = 0
    BY <1>z, NobodyWalks
  <2>2. \A t \in Thread : pc'[t] \notin {"walk", "call"} /\ path'[t] = <<>> BY <1>z, <2>1
  <2>3. locked' = {} /\ \A v \in Vertex : visited'[v] = 0 BY <1>z, <2>1
  <2> QED BY <1>z, <2>2, <2>3, NobodyWalksThen
<1>i. pc[0] = "idle" => task[0] \notin Walks BY <1>a DEF PoolOK, OwnerOK, Tasks
<1>1. CASE Owner \/ OwnerGoesOn
  <2>1. pc[0] = "idle" /\ UNCHANGED <<path, locked, visited, pc, task>>
    BY <1>1 DEF Owner, clearSearch, setNumThreads, makeMove, runWholeSearch, OwnerGoesOn, OwnerIsFree,
                OwnerUnchanged, walkVars
  <2> QED BY <1>i, <1>z, <2>1
<1>2. CASE PreparesTask
  <2>1. /\ pc[0] = "idle" /\ UNCHANGED <<treeVars, nodeAge, path, locked, visited>>
        /\ searchNodeAge' = searchNodeAge + (IF Head(agenda) \in Walks THEN 1 ELSE 0)
        /\ task' = [task EXCEPT ![0] = Head(agenda)] /\ pc' = [pc EXCEPT ![0] = "spawn"]
    BY <1>2 DEF PreparesTask, walkVars, Goto
  <2>2. /\ \A t \in Thread : pc[t] \notin {"walk", "call"} /\ path[t] = <<>>
        /\ locked = {} /\ \A v \in Vertex : visited[v] = 0
    BY <1>i, <2>1, NobodyWalks
  <2>3. task'[0] = Head(agenda) /\ pc'[0] = "spawn" /\ \A t \in Thread : pc'[t] \notin {"walk", "call"}
    BY <1>a, <2>1, <2>2
  <2>4. CASE Head(agenda) \notin Walks BY <1>i, <1>z, <2>1, <2>3, <2>4
  <2>5. CASE Head(agenda) \in Walks
    <3>1. \A v \in Vertex : ~Done(v)'
      <4>1. \A v \in Vertex : nodeAge[v] \in Nat /\ nodeAge[v] <= searchNodeAge BY DEF TreeOK, TypeOK
      <4>2. searchNodeAge' = searchNodeAge + 1 /\ searchNodeAge \in Nat BY <2>1, <2>5 DEF TypeOK
      <4>3. \A v \in Vertex : nodeAge'[v] # searchNodeAge' BY <2>1, <4>1, <4>2
      <4> QED BY <4>3 DEF Done
    <3>2. \A t \in Thread : WalkerOK(t)' BY <2>1, <2>2, <2>3 DEF WalkerOK
    <3>3. {u \in Thread : pc'[u] = "call"} = {} BY <2>3
    <3>4. locked' = {Top(u)'.node : u \in {u \in Thread : pc'[u] = "call"}} BY <2>1, <2>2, <3>3
    <3>5. \A v \in Vertex : visited'[v] = 0 /\ v \notin locked' BY <2>1, <2>2
    <3> QED BY <2>3, <2>5, <3>1, <3>2, <3>4, <3>5 DEF WalkOK
  <2> QED BY <2>4, <2>5
<1>3. CASE SpawnsThreads \/ PushesTask
  <2>1. /\ pc[0] \in {"spawn", "push"} /\ UNCHANGED <<treeVars, ageVars, path, locked, visited, task>>
        /\ pc'[0] \in {"begin", "push"} /\ \A w \in Worker : pc'[w] = pc[w]
    BY <1>3, <1>a DEF SpawnsThreads, PushesTask, Goto, walkVars
  <2>2. \A t \in Thread : \/ pc'[t] = pc[t]
                          \/ pc[t] \notin {"walk", "call"} /\ pc'[t] \notin {"walk", "call"}
    BY <2>1, ThreadsAre
  <2> QED BY <2>1, <2>2, WalkRests
<1>4. CASE waitUntilZero
  <2>1. UNCHANGED <<treeVars, ageVars, path, locked>> /\ pc[0] = "wait" BY <1>4 DEF waitUntilZero
  <2>2. CASE ~(helpers = 0 \/ threadTasksRemaining = 0)
    <3>1. UNCHANGED <<task, visited>> /\ pc' = [pc EXCEPT ![0] = "asleep"]
      BY <1>4, <2>2 DEF waitUntilZero, Goto
    <3>2. \A t \in Thread : \/ pc'[t] = pc[t]
                            \/ pc[t] \notin {"walk", "call"} /\ pc'[t] \notin {"walk", "call"}
      BY <1>a, <2>1, <3>1
    <3> QED BY <2>1, <3>1, <3>2, WalkRests
  <2>3. CASE helpers = 0 \/ threadTasksRemaining = 0
    <3>1. /\ pc' = [pc EXCEPT ![0] = "idle"] /\ task' = [task EXCEPT ![0] = NULL]
          /\ visited' = [v \in Vertex |-> 0]
      BY <1>4, <2>3 DEF waitUntilZero, Goto, LocalsEnd
    <3>2. \A t \in Thread : pc[t] \notin {"walk", "call"} BY <2>1, <2>3, AllAreIn, ThreadsAre
    <3>3. \A t \in Thread : pc'[t] \notin {"walk", "call"} BY <1>a, <3>1, <3>2
    <3>4. \A t \in Thread : path[t] = <<>> BY <3>2 DEF WalkOK, WalkerOK
    <3>5. locked = {} BY <3>2, LockedIs
    <3>6. task'[0] \notin Walks BY <1>a, <3>1 DEF Tasks
    <3>7. (\A v \in Vertex : visited'[v] = 0) /\ locked' = {} /\ \A t \in Thread : path'[t] = <<>>
      BY <2>1, <3>1, <3>4, <3>5
    <3> QED BY <3>3, <3>6, <3>7, NobodyWalksThen
  <2> QED BY <2>2, <2>3
<1>5. ASSUME NEW w \in Worker, PopsTask(w) \/ ChecksIn(w) PROVE WalkOK'
  <2>1. UNCHANGED <<treeVars, ageVars, path, locked, visited>> /\ pc[w] \in {"idle", "checkIn"}
    BY <1>5 DEF PopsTask, ChecksIn, walkVars
  <2>2. task'[0] = task[0] BY <1>5, <1>a DEF PopsTask, ChecksIn
  <2>3. \A t \in Thread : \/ pc'[t] = pc[t]
                          \/ t = w /\ pc'[t] \in {"begin", "idle"}
                          \/ pc[t] = "asleep" /\ pc'[t] = "wait"
    <3>1. CASE PopsTask(w) BY <1>a, <3>1 DEF PopsTask, Goto
    <3>2. CASE ChecksIn(w)
      <4>1. /\ pc'[w] = "idle"
            /\ pc'[0] = IF threadTasksRemaining' = 0 /\ pc[0] = "asleep" THEN "wait" ELSE pc[0]
            /\ \A t \in Thread \ {0, w} : pc'[t] = pc[t]
        BY <1>a, <3>2 DEF ChecksIn
      <4> QED BY <4>1
    <3> QED BY <1>5, <3>1, <3>2
  <2>4. \A t \in Thread : \/ pc'[t] = pc[t]
                          \/ pc[t] \notin {"walk", "call"} /\ pc'[t] \notin {"walk", "call"}
    BY <2>1, <2>3
  <2>5. pc'[0] \in {"wait", "asleep"} => pc[0] \in {"wait", "asleep"} BY <1>a, <2>3
  <2> QED BY <2>1, <2>2, <2>4, <2>5, WalkRests
<1>6. CASE Stop \/ UNCHANGED vars
  BY <1>6, WalkRests DEF Stop, vars, walkVars
<1>7. ASSUME NEW t \in Thread, Works(t) PROVE WalkOK'
  <2>1. CASE BeginsTask(t) BY <2>1, BeginsKeepsWalk
  <2>2. CASE Enters(t) BY <2>2, EntersKeepsWalk
  <2>3. CASE Marks(t) BY <2>3, MarksKeepsWalk
  <2>4. CASE Calls(t) BY <2>4, CallsKeepsWalk
  <2>5. CASE CallReturns(t) BY <2>5, CallReturnsKeepsWalk
  <2>6. CASE EndsWalk(t) BY <2>6, EndKeepsWalk
  <2>7. CASE Sweeps(t) \/ ChecksLimits(t) \/ runSinglePlayout(t)
    <3>1. pc[t] \in {"sweep", "deleteAll", "search", "playout"} /\ UNCHANGED <<path, locked, visited, task>>
      BY <2>7 DEF Sweeps, ChecksLimits, runSinglePlayout, SearchUnchanged, walkVars
    <3>2. task[t] \in {"sweep", "deleteAll", "search"} BY <3>1 DEF PoolOK, WorksOnTask, Sweeping
    <3>3. task[0] = task[t]
      <4>1. task[t] # NULL BY <1>a, <3>2 DEF Tasks
      <4> QED BY <4>1, TaskAtHand
    <3>4. task[0] \notin Walks BY <3>2, <3>3 DEF Walks
    <3>5. \A u \in Thread : pc'[u] = pc[u] \/ pc'[u] \notin {"walk", "call"}
      BY <1>a, <2>7 DEF Sweeps, ChecksLimits, runSinglePlayout, EndsTask, Goto
    <3> QED BY <1>z, <3>1, <3>4, <3>5
  <2> QED BY <1>7, <2>1, <2>2, <2>3, <2>4, <2>5, <2>6, <2>7 DEF Works
<1> QED BY <1>1, <1>2, <1>3, <1>4, <1>5, <1>6, <1>7, ThreadsAre DEF Next, Pool, WorkerGoesOn

-----------------------------------------------------------------------------
(* The sweep.                                                              *)

\* A step outside the sweeps, or one that ends no part of one.
LEMMA SweepRests ==
  ASSUME SweepOK,
         task'[0] \notin Sweeping
         \/ /\ UNCHANGED <<table, nodeAge, searchNodeAge, numThreads>> /\ task'[0] = task[0]
            /\ \A t \in Thread : Swept(t)' => Swept(t)
  PROVE  SweepOK'
<1>1. CASE task'[0] \notin Sweeping BY <1>1 DEF SweepOK, Sweeping
<1>2. CASE /\ UNCHANGED <<table, nodeAge, searchNodeAge, numThreads>> /\ task'[0] = task[0]
           /\ \A t \in Thread : Swept(t)' => Swept(t)
  <2>1. \A t : Part(t)' = Part(t) BY <1>2 DEF Part
  <2>2. \A n : Done(n)' = Done(n) BY <1>2 DEF Done
  <2> QED BY <1>2, <2>1, <2>2 DEF SweepOK
<1> QED BY <1>1, <1>2

\* A thread sweeps its part, and leaves the parts of the others no worse.
LEMMA SweepKeepsSwept ==
  ASSUME TypeOK, PoolOK, TreeOK, SweepOK, NEW t \in Thread, Sweeps(t)
  PROVE  SweepOK'
<1>1. PICK gone :
        /\ gone = {n \in Part(t) : pc[t] = "deleteAll" \/ nodeAge[n] < searchNodeAge}
        /\ table' = table \ gone
        /\ nodeAge' = [v \in Vertex |-> IF v \in gone THEN 0 ELSE nodeAge[v]]
  BY DEF Sweeps
<1>2. /\ pc[t] \in Sweeping /\ UNCHANGED <<task, numThreads, searchNodeAge, pushed, threadTasks>>
      /\ \A u \in Thread \ {t} : pc'[u] = pc[u]
  BY DEF Sweeps, EndsTask, Goto, TypeOK, poolVars, Sweeping
<1>3. task[0] = pc[t]
  <2>1. task[t] = pc[t] BY <1>2 DEF PoolOK, WorksOnTask
  <2>2. task[t] # NULL BY <1>2, <2>1, TreeAssumption DEF Sweeping, Tasks
  <2> QED BY <2>1, <2>2, TaskAtHand
<1>4. \A u : Part(u)' = Part(u) \ gone BY <1>1, <1>2 DEF Part
<1>5. \A n \in table \ gone : Done(n)' <=> Done(n)
  BY <1>1, <1>2, NullIsNoVertex DEF Done, TypeOK
<1>6. \A u : Part(u) \subseteq table BY DEF Part
<1>7. ASSUME NEW u \in Thread, Swept(u)'
      PROVE  /\ task'[0] = "sweep" => \A n \in Part(u)' : Done(n)'
             /\ task'[0] = "deleteAll" => Part(u)' = {}
  <2>1. CASE u = t
    <3>1. task'[0] = "deleteAll" => Part(u)' = {} BY <1>1, <1>2, <1>3, <1>4, <2>1
    <3>2. \A n \in Part(t) \ gone : ~(nodeAge[n] < searchNodeAge) BY <1>1
    <3>3. ASSUME task'[0] = "sweep", NEW n \in Part(t) \ gone PROVE Done(n)
      <4>1. n \in Vertex BY <1>6, NullIsNoVertex DEF TypeOK
      <4>2. nodeAge[n] \in Nat /\ searchNodeAge \in Nat /\ nodeAge[n] <= searchNodeAge
        BY <4>1 DEF TypeOK, TreeOK
      <4> QED BY <3>2, <4>2 DEF Done
    <3> QED BY <1>4, <1>5, <1>6, <2>1, <3>1, <3>3
  <2>2. CASE u # t
    <3>1. Swept(u) BY <1>2, <1>7, <2>2 DEF Swept
    <3>2. /\ task[0] = "sweep" => \A n \in Part(u) : Done(n)
          /\ task[0] = "deleteAll" => Part(u) = {}
      BY <3>1 DEF SweepOK
    <3> QED BY <1>2, <1>4, <1>5, <1>6, <3>2
  <2> QED BY <2>1, <2>2
<1> QED BY <1>7 DEF SweepOK

\* Every step keeps what was swept.
LEMMA SweepStep ==
  ASSUME IInv, [Next]_vars
  PROVE  SweepOK'
<1> USE DEF IInv
<1>a. /\ 0 \in Thread /\ Worker \subseteq Thread /\ 0 \notin Worker /\ Worker \subseteq Nat \ {0}
      /\ NULL \notin Tasks /\ Thread = Worker \cup {0}
      /\ pc \in [Thread -> PcTypes] /\ task \in [Thread -> Tasks \cup {NULL}]
  BY ThreadsAre, TreeAssumption DEF TypeOK, PcTypes
<1>i. pc[0] \in {"idle", "spawn"} => pushed = 0 /\ (pc[0] = "idle" => task[0] \notin Sweeping)
  BY <1>a DEF PoolOK, OwnerOK, Tasks, Sweeping
<1>1. CASE Owner \/ OwnerGoesOn
  <2>1. pc[0] = "idle" /\ UNCHANGED task
    BY <1>1 DEF Owner, clearSearch, setNumThreads, makeMove, runWholeSearch, OwnerGoesOn, OwnerIsFree,
                OwnerUnchanged
  <2> QED BY <1>i, <2>1, SweepRests
<1>2. CASE PreparesTask \/ SpawnsThreads
  <2>1. pushed' = 0 /\ pc'[0] \notin {"wait", "asleep"}
    BY <1>2, <1>a, <1>i DEF PreparesTask, SpawnsThreads, poolVars, Goto
  <2>2. \A t \in Thread : ~Swept(t)' BY <1>a, <2>1 DEF Swept
  <2> QED BY <2>2 DEF SweepOK
<1>3. CASE PushesTask
  <2>1. /\ pc[0] = "push" /\ pushed' = pushed + 1
        /\ threadTasks' = [threadTasks EXCEPT ![pushed + 1] = Append(@, task[0])]
        /\ UNCHANGED <<treeVars, ageVars, numThreads, task>>
        /\ pc'[0] \in {"begin", "push"} /\ \A w \in Worker : pc'[w] = pc[w]
    BY <1>3, <1>a DEF PushesTask, Goto
  <2>2. pushed \in Nat /\ pushed + 1 \in Worker
    <3>1. pushed < helpers BY <2>1 DEF PoolOK, OwnerOK
    <3> QED BY <3>1, ThreadsAre, TreeAssumption DEF TypeOK
  <2>3. threadTasks'[pushed + 1] # <<>>
    <3>1. task[0] \in Tasks BY <1>a, <2>1 DEF PoolOK, OwnerOK
    <3>2. threadTasks[pushed + 1] \in Seq(Tasks) BY <2>2 DEF TypeOK
    <3>3. Append(threadTasks[pushed + 1], task[0]) # <<>> BY <3>1, <3>2
    <3> QED BY <2>1, <2>2, <3>3 DEF TypeOK
  <2>4. \A w \in Worker \ {pushed + 1} : threadTasks'[w] = threadTasks[w] BY <2>1 DEF TypeOK
  <2>5. ASSUME NEW t \in Thread, Swept(t)' PROVE Swept(t)
    <3>1. t # 0 /\ t \in Worker BY <1>a, <2>1, <2>5 DEF Swept
    <3>2. t <= pushed + 1 /\ threadTasks'[t] = <<>> /\ pc[t] \in {"idle", "checkIn"}
      BY <2>1, <2>5, <3>1 DEF Swept
    <3>3. t # pushed + 1 BY <2>3, <3>2
    <3>4. t <= pushed BY <1>a, <2>2, <3>1, <3>2, <3>3
    <3> QED BY <2>4, <3>1, <3>2, <3>3, <3>4 DEF Swept
  <2> QED BY <2>1, <2>5, SweepRests DEF treeVars, ageVars
<1>4. CASE waitUntilZero
  <2>1. pc[0] = "wait" /\ UNCHANGED <<treeVars, ageVars, numThreads, threadTasks>> BY <1>4 DEF waitUntilZero
  <2>2. CASE task'[0] = NULL BY <1>a, <2>2, SweepRests DEF Sweeping, Tasks
  <2>3. CASE task'[0] # NULL
    <3>1. UNCHANGED <<task, pushed>> /\ pc' = [pc EXCEPT ![0] = "asleep"]
      BY <1>4, <1>a, <2>3 DEF waitUntilZero, Goto
    <3>2. \A w \in Worker : pc'[w] = pc[w] BY <1>a, <3>1
    <3>3. \A t \in Thread : Swept(t)' => Swept(t) BY <1>a, <2>1, <3>1, <3>2 DEF Swept
    <3> QED BY <2>1, <3>1, <3>3, SweepRests DEF treeVars, ageVars
  <2> QED BY <2>2, <2>3
<1>5. ASSUME NEW w \in Worker, PopsTask(w) PROVE SweepOK'
  <2>1. /\ UNCHANGED <<treeVars, ageVars, numThreads, pushed>>
        /\ pc' = [pc EXCEPT ![w] = "begin"] /\ threadTasks' = [threadTasks EXCEPT ![w] = Tail(@)]
        /\ task'[0] = task[0]
    BY <1>5, <1>a DEF PopsTask, Goto
  <2>2. /\ \A t \in Thread : pc'[t] = IF t = w THEN "begin" ELSE pc[t]
        /\ \A u \in Worker \ {w} : threadTasks'[u] = threadTasks[u]
    BY <1>a, <2>1 DEF TypeOK
  <2>3. ASSUME NEW t \in Thread, Swept(t)' PROVE Swept(t)
    <3>1. t # w BY <1>a, <2>2, <2>3 DEF Swept
    <3> QED BY <1>a, <2>1, <2>2, <2>3, <3>1 DEF Swept
  <2> QED BY <2>1, <2>3, SweepRests DEF treeVars, ageVars
<1>6. ASSUME NEW w \in Worker, ChecksIn(w) PROVE SweepOK'
  <2>1. /\ UNCHANGED <<treeVars, ageVars, numThreads, pushed, threadTasks>> /\ pc[w] = "checkIn"
        /\ task'[0] = task[0]
        /\ pc' = [pc EXCEPT ![w] = "idle",
                            ![0] = IF threadTasksRemaining' = 0 /\ @ = "asleep" THEN "wait" ELSE @]
    BY <1>6, <1>a DEF ChecksIn
  <2>2. /\ \A u \in Worker \ {w} : pc'[u] = pc[u]
        /\ pc'[0] = pc[0] \/ pc[0] = "asleep"
    BY <1>a, <2>1
  <2>3. \A t \in Thread : Swept(t)' => Swept(t) BY <1>a, <2>1, <2>2 DEF Swept
  <2> QED BY <2>1, <2>3, SweepRests DEF treeVars, ageVars
<1>7. CASE Stop \/ UNCHANGED vars
  <2>1. UNCHANGED <<treeVars, ageVars, numThreads, pushed, threadTasks, pc, task>>
    BY <1>7 DEF Stop, vars, poolVars
  <2>2. \A t \in Thread : Swept(t)' => Swept(t) BY <2>1 DEF Swept
  <2> QED BY <2>1, <2>2, SweepRests DEF treeVars, ageVars
<1>8. ASSUME NEW t \in Thread, Works(t) PROVE SweepOK'
  <2>1. CASE BeginsTask(t)
    <3>1. /\ UNCHANGED <<treeVars, ageVars, numThreads, pushed, threadTasks, task>> /\ pc[t] = "begin"
          /\ \A u \in Thread \ {t} : pc'[u] = pc[u]
      BY <1>a, <2>1 DEF BeginsTask, Goto, poolVars
    <3>2. pc'[t] \notin {"idle", "checkIn", "wait", "asleep"}
      <4>1. task[t] # NULL BY <3>1, <1>a DEF PoolOK, OwnerOK, WorkerOK
      <4>2. task[t] \in Tasks BY <4>1, TaskAtHand
      <4> QED BY <1>a, <2>1, <4>2 DEF BeginsTask, Goto, Tasks, Walks
    <3>3. \A u \in Thread : Swept(u)' => Swept(u)
      <4> SUFFICES ASSUME NEW u \in Thread, Swept(u)' PROVE Swept(u) OBVIOUS
      <4>1. u # t BY <3>2 DEF Swept
      <4> QED BY <1>a, <3>1, <4>1 DEF Swept
    <3> QED BY <3>1, <3>3, SweepRests DEF treeVars, ageVars
  <2>2. CASE Enters(t) \/ Marks(t) \/ Calls(t) \/ CallReturns(t) \/ EndsWalk(t)
    <3>1. pc[t] \in {"walk", "call"} /\ UNCHANGED task
      BY <2>2 DEF Enters, Marks, Calls, CallReturns, EndsWalk, WalkUnchanged
    <3>2. task[0] \in Walks BY <3>1, WalkIsAtTask
    <3> QED BY <3>1, <3>2, SweepRests DEF Walks, Sweeping
  <2>3. CASE Sweeps(t) BY <2>3, SweepKeepsSwept
  <2>4. CASE ChecksLimits(t) \/ runSinglePlayout(t)
    <3>1. pc[t] \in {"search", "playout"} /\ UNCHANGED task
      BY <2>4 DEF ChecksLimits, runSinglePlayout, SearchUnchanged
    <3>2. task[t] = "search" /\ task[t] # NULL
      BY <1>a, <3>1 DEF PoolOK, WorksOnTask, Tasks, Sweeping
    <3>3. task[0] = "search" BY <3>2, TaskAtHand
    <3> QED BY <3>1, <3>3, SweepRests DEF Sweeping
  <2> QED BY <1>8, <2>1, <2>2, <2>3, <2>4 DEF Works
<1> QED BY <1>1, <1>2, <1>3, <1>4, <1>5, <1>6, <1>7, <1>8, ThreadsAre DEF Next, Pool, WorkerGoesOn

-----------------------------------------------------------------------------
(* The theorems.                                                           *)

\* The invariant holds before the first search.
LEMMA InitIsSound == Init => IInv
<1> SUFFICES ASSUME Init PROVE IInv OBVIOUS
<1> USE DEF Init
<1>a. /\ 0 \in Thread /\ Worker \subseteq Thread /\ Worker \subseteq Nat \ {0} /\ MaxPlayouts \in Nat
      /\ MaxThreads \in Nat \ {0} /\ NULL \notin Walks
  BY ThreadsAre, TreeAssumption DEF Tasks
<1>1. TypeOK
  <2>1. pc \in [Thread -> {"idle"}] /\ task \in [Thread -> {NULL}] BY <1>a
  <2>2. 0 \in 0..MaxThreads - 1 BY <1>a
  <2>3. agenda \in Seq(Tasks \cup {"reset", "newRoot", "age"}) OBVIOUS
  <2>4. threadTasks \in [Worker -> Seq(Tasks)] OBVIOUS
  <2>5. path \in [Thread -> Seq(Frame)] OBVIOUS
  <2>6. /\ table \subseteq Node /\ children \in [Vertex -> SUBSET Node] /\ nodeAge \in [Vertex -> Nat]
        /\ visited \in [Vertex -> Nat] /\ numPlayouts \in [Thread -> Nat] /\ numThreads \in 1..MaxThreads
    OBVIOUS
  <2> QED BY <2>1, <2>2, <2>3, <2>4, <2>5, <2>6 DEF TypeOK
<1>2. PoolOK
  <2>1. Owing = {} BY <1>a DEF Owing
  <2>2. threadTasksRemaining = Cardinality(Owing) BY <2>1, FS_EmptySet
  <2>3. OwnerOK BY <1>a DEF OwnerOK
  <2>4. \A w \in Worker : WorkerOK(w) BY <1>a DEF WorkerOK
  <2>5. \A t \in Thread : WorksOnTask(t) BY DEF WorksOnTask, Sweeping
  <2> QED BY <2>2, <2>3, <2>4, <2>5 DEF PoolOK
<1>3. LimitOK
  <2>1. helpers \in 0..MaxThreads - 1 /\ numPlayouts \in [Thread -> Nat] BY <1>1 DEF TypeOK
  <2>2. 0 < MaxPlayouts + Cardinality(AtLimit) BY <2>1, PlayersAtLimit DEF AtLimit
  <2> QED BY <2>2 DEF LimitOK
<1>4. TreeOK
  <2>1. ~Due({"reset"}) /\ ~Due(Walks \cup {"sweep"}) /\ ~Due({"sweep"}) BY DEF Due
  <2>2. Planned(agenda) BY PlansAre
  <2>3. \A v \in Vertex : nodeAge[v] <= searchNodeAge OBVIOUS
  <2>4. \A n \in Node \ table : children[n] = {} /\ nodeAge[n] = 0 BY DEF Vertex
  <2>5. \A v \in Vertex : children[v] \subseteq table OBVIOUS
  <2>6. ~hasRoot => table = {} OBVIOUS
  <2> QED BY <2>1, <2>2, <2>3, <2>4, <2>5, <2>6 DEF TreeOK
<1>5. WalkOK
  <2>1. \A t \in Thread : WalkerOK(t) BY DEF WalkerOK
  <2>2. {u \in Thread : pc[u] = "call"} = {} OBVIOUS
  <2> QED BY <1>a, <2>1, <2>2 DEF WalkOK
<1>6. SweepOK
  <2>1. \A t \in Thread : ~Swept(t) BY <1>a, ThreadsAre DEF Swept
  <2> QED BY <2>1 DEF SweepOK
<1> QED BY <1>1, <1>2, <1>3, <1>4, <1>5, <1>6 DEF IInv

\* It always holds.
LEMMA IInvHolds == Spec => []IInv
<1>1. IInv /\ [Next]_vars => IInv'
  BY TypesStep, PoolStep, LimitStep, TreeStep, WalkStep, SweepStep DEF IInv
<1> QED BY InitIsSound, <1>1, PTL DEF Spec

\* The pool: the task of performTaskWithThreads, which is an object of the
\* function that called it, is not used when it has returned, and no more
\* playouts are begun than maxPlayouts and one for each helper.
THEOREM PoolStaysSound == Spec => []PoolIsSound
<1>1. ASSUME IInv PROVE PoolIsSound
  <2> USE DEF IInv
  <2>1. TaskOutlivesItsWorkers
    <3>1. ASSUME NEW w \in Worker PROVE task[w] # NULL => task[w] = task[0]
      BY <1>1 DEF PoolOK, WorkerOK
    <3>2. ASSUME NEW w \in Worker, NEW i \in DOMAIN threadTasks[w]
          PROVE  task[w] = NULL /\ threadTasks[w][i] = task[0]
      <4>1. threadTasks[w] # <<>> BY <1>1 DEF TypeOK
      <4>2. threadTasks[w] = <<task[0]>> /\ task[w] = NULL BY <1>1, <4>1 DEF PoolOK, WorkerOK
      <4> QED BY <4>2
    <3> QED BY <3>1, <3>2 DEF TaskOutlivesItsWorkers
  <2>2. PlayoutsAreLimited
    <3>1. numPlayoutsShared < MaxPlayouts + Cardinality(AtLimit) BY <1>1 DEF LimitOK
    <3>2. Cardinality(AtLimit) \in Nat /\ Cardinality(AtLimit) <= helpers + 1 BY <1>1, AtLimitIs
    <3>3. numPlayoutsShared \in Nat /\ helpers \in Nat /\ MaxPlayouts \in Nat
      BY <1>1, TreeAssumption DEF TypeOK
    <3> QED BY <3>1, <3>2, <3>3 DEF PlayoutsAreLimited
  <2> QED BY <1>1, <2>1, <2>2 DEF PoolIsSound
<1> QED BY IInvHolds, <1>1, PTL

\* The tree: walks by several threads call once on each node, after its
\* children, and mark what is reachable, all of which stays in the table.
THEOREM TreeStaysSound == Spec => []TreeIsSound
<1>1. ASSUME IInv PROVE TreeIsSound
  <2>1. WalkOnceChildrenFirst
    <3>1. ASSUME task[0] \in Walks, NEW v \in Vertex
          PROVE  /\ visited[v] <= 1
                 /\ visited[v] = 1 => \A c \in children[v] : Done(c) \/ v \in ReachableFrom({c})
      BY <1>1, <3>1, VisitedIs DEF IInv, ReachedFrom
    <3>2. pc[0] = "idle" /\ agenda # <<>> /\ Head(agenda) = "sweep" =>
            \A v \in Vertex : Done(v) <=> v \in Reachable
      BY <1>1 DEF IInv, TreeOK, Due, Marked
    <3> QED BY <3>1, <3>2 DEF WalkOnceChildrenFirst
  <2>2. ReachableIsInTable
    <3> SUFFICES ASSUME agenda # <<>> => Head(agenda) \notin {"deleteAll", "reset"}
                 PROVE  Reachable \subseteq table \cup {Root}
      BY DEF ReachableIsInTable
    <3>1. ~Due({"deleteAll", "reset", "sweep"}) \/ Due({"sweep"}) BY DEF Due
    <3> QED BY <1>1, <3>1, ReachInTable DEF IInv
  <2> QED BY <2>1, <2>2 DEF TreeIsSound
<1> QED BY IInvHolds, <1>1, PTL

\* A sweep by any number of threads leaves in the table what the new tree
\* leads to and nothing else, whichever shards they take; a search that is
\* cleared leaves nothing.
THEOREM SweepsLeaveTheTree == Spec => SweepLeavesTheTree
<1>1. ASSUME IInv, Next
      PROVE  agenda # <<>> /\ agenda' = Tail(agenda) /\ Head(agenda) \in {"sweep", "deleteAll"}
             => table = IF Head(agenda) = "sweep" THEN Reachable \ {Root} ELSE {}
  <2> USE DEF IInv
  <2> SUFFICES ASSUME agenda # <<>>, agenda' = Tail(agenda), Head(agenda) \in {"sweep", "deleteAll"}
               PROVE  table = IF Head(agenda) = "sweep" THEN Reachable \ {Root} ELSE {}
    OBVIOUS
  <2>1. agenda' # agenda BY <1>1, PlanGoesOn DEF TreeOK
  <2>2. waitUntilZero
    <3>1. ~Owner BY DEF Owner, clearSearch, setNumThreads, makeMove, runWholeSearch, OwnerIsFree
    <3>2. ~OwnerGoesOn BY DEF OwnerGoesOn
    <3>3. ~(PreparesTask \/ SpawnsThreads \/ PushesTask \/ Stop)
      BY <2>1 DEF PreparesTask, SpawnsThreads, PushesTask, Stop
    <3>4. ASSUME NEW t \in Thread PROVE ~Works(t)
      BY <2>1 DEF Works, BeginsTask, Enters, Marks, Calls, CallReturns, EndsWalk, WalkUnchanged, Sweeps,
                  ChecksLimits, runSinglePlayout, SearchUnchanged
    <3>5. ASSUME NEW w \in Worker PROVE ~WorkerGoesOn(w)
      BY <2>1, <3>4, ThreadsAre DEF WorkerGoesOn, PopsTask, ChecksIn
    <3> QED BY <1>1, <3>1, <3>2, <3>3, <3>4, <3>5, ThreadsAre DEF Next, Pool
  <2>3. pc[0] = "wait" /\ (helpers = 0 \/ threadTasksRemaining = 0)
    BY <2>1, <2>2 DEF waitUntilZero
  <2>4. task[0] = Head(agenda)
    <3>1. task[0] # NULL BY <1>1, <2>3 DEF PoolOK, OwnerOK
    <3> QED BY <1>1, <3>1 DEF PoolOK, OwnerOK
  <2>5. CASE Head(agenda) = "deleteAll" BY <1>1, <2>3, <2>4, <2>5, SweepEnds
  <2>6. CASE Head(agenda) = "sweep"
    <3>1. Marked /\ Due({"sweep"}) BY <1>1, <2>6 DEF TreeOK, Due
    <3>2. \A n \in table : Done(n) BY <1>1, <2>3, <2>4, <2>6, SweepEnds
    <3>3. table \subseteq Vertex /\ Root \notin table BY <1>1, NullIsNoVertex DEF TypeOK
    <3>4. table \subseteq Reachable \ {Root} BY <3>1, <3>2, <3>3 DEF Marked
    <3>5. Reachable \ {Root} \subseteq table BY <1>1, <3>1, ReachInTable
    <3> QED BY <2>6, <3>4, <3>5
  <2> QED BY <2>5, <2>6
<1>2. IInv /\ [Next]_vars =>
        [/\ agenda # <<>> /\ agenda' = Tail(agenda) /\ Head(agenda) \in {"sweep", "deleteAll"}
         => table = IF Head(agenda) = "sweep" THEN Reachable \ {Root} ELSE {}]_vars
  BY <1>1
<1> QED BY IInvHolds, <1>2, PTL DEF Spec, SweepLeavesTheTree
-----------------------------------------------------------------------------
(* The queue through which the workers get their tasks, for any number of  *)
(* producers and consumers, any capacity and any number of elements: the   *)
(* types, that no wakeup is lost, that the vector holds what went in and   *)
(* did not come out, and the FIFO refinement.                              *)

\* The inductive invariant of the queue.
QueueInv == QueueTypeOK /\ NoLostWakeup /\ HoldsTheRest

(* A pop from an open, non-empty queue keeps what is left in its order and *)
(* delivers the first element that was not delivered yet.                  *)
LEMMA PopLemma ==
    ASSUME QueueTypeOK, HoldsTheRest, ~closed, sizeUnsynchronized > 0,
           popUnsynchronized, UNCHANGED <<closed, readOnly>>
    PROVE  /\ elts' \in Seq(Elements) /\ headIdx' \in Nat
           /\ delivered' \in Seq(Elements) /\ accepted' \in Seq(Elements)
           /\ HoldsTheRest'
           /\ sizeUnsynchronized' = sizeUnsynchronized - 1
           /\ Len(delivered) < Len(accepted)
           /\ delivered' = Append(delivered, accepted[Len(delivered) + 1])
<1> USE DEF sizeUnsynchronized
<1>1. /\ headIdx \in Nat /\ elts \in Seq(Elements)
      /\ accepted \in Seq(Elements) /\ delivered \in Seq(Elements)
      /\ headIdx <= Len(elts) \div 2 /\ headIdx < Len(elts)
      /\ Len(accepted) = Len(delivered) + (Len(elts) - headIdx)
      /\ \A i \in 1..(Len(elts) - headIdx) : elts[headIdx + i] = accepted[Len(delivered) + i]
  BY DEF QueueTypeOK, HoldsTheRest
<1>2. elts[headIdx + 1] = accepted[Len(delivered) + 1] /\ elts[headIdx + 1] \in Elements
  BY <1>1
<1>3. /\ delivered' = Append(delivered, elts[headIdx + 1])
      /\ accepted' = accepted
  BY DEF popUnsynchronized
<1>4. delivered' \in Seq(Elements) /\ Len(delivered') = Len(delivered) + 1
  BY <1>1, <1>2, <1>3
<1>5. /\ Len(elts) \in Nat /\ Len(delivered) \in Nat /\ Len(accepted) \in Nat
      /\ headIdx < Len(elts) /\ headIdx \in Nat
      /\ Len(accepted) = Len(delivered) + (Len(elts) - headIdx)
  BY <1>1
<1>6. \A i \in 1..(Len(elts) - headIdx - 1) :
         elts[headIdx + 1 + i] = accepted[Len(delivered) + 1 + i]
  <2>1. TAKE i \in 1..(Len(elts) - headIdx - 1)
  <2>2. i + 1 \in 1..(Len(elts) - headIdx)
    BY <1>5, <2>1
  <2>3. elts[headIdx + (i + 1)] = accepted[Len(delivered) + (i + 1)]
    BY <1>1, <2>2
  <2>4. /\ headIdx + (i + 1) = headIdx + 1 + i
        /\ Len(delivered) + (i + 1) = Len(delivered) + 1 + i
    BY <1>5, <2>1
  <2>5. QED
    BY <2>3, <2>4
<1>7. CASE headIdx + 1 > Len(elts) \div 2
  <2>0. headIdx' = 0
    BY <1>7 DEF popUnsynchronized, Compact
  <2>1. elts' = SubSeq(elts, headIdx + 2, Len(elts))
    BY <1>7 DEF popUnsynchronized, Compact
  <2>2. /\ elts' \in Seq(Elements) /\ Len(elts') = Len(elts) - headIdx - 1
        /\ Len(elts') \in Nat
    BY <1>1, <1>5, <2>1
  <2>3. \A i \in 1..(Len(elts) - headIdx - 1) : elts'[i] = elts[headIdx + 1 + i]
    BY <1>1, <1>5, <2>1
  <2>4. \A i \in 1..Len(elts') : elts'[headIdx' + i] = accepted'[Len(delivered') + i]
    BY <1>3, <1>4, <1>6, <2>0, <2>2, <2>3
  <2>5. Len(accepted') = Len(delivered') + (Len(elts') - headIdx')
    <3>1. Len(accepted') = Len(accepted) /\ Len(delivered') = Len(delivered) + 1
      BY <1>3, <1>4
    <3>2. QED
      BY <1>5, <2>0, <2>2, <3>1
  <2>6. headIdx' <= Len(elts') \div 2
    BY <2>0, <2>2
  <2>7. HoldsTheRest'
    BY <2>0, <2>2, <2>4, <2>5, <2>6 DEF HoldsTheRest
  <2>8. QED
    BY <1>1, <1>2, <1>3, <1>4, <1>5, <2>0, <2>2, <2>7
<1>8. CASE ~(headIdx + 1 > Len(elts) \div 2)
  <2>1. elts' = elts /\ headIdx' = headIdx + 1
    BY <1>8 DEF popUnsynchronized
  <2>2. \A i \in 1..(Len(elts') - headIdx') : elts'[headIdx' + i] = accepted'[Len(delivered') + i]
    BY <1>3, <1>4, <1>5, <1>6, <2>1
  <2>3. Len(accepted') = Len(delivered') + (Len(elts') - headIdx')
    BY <1>3, <1>4, <1>5, <2>1
  <2>4. headIdx' <= Len(elts') \div 2
    BY <1>5, <1>8, <2>1
  <2>5. HoldsTheRest'
    BY <2>2, <2>3, <2>4 DEF HoldsTheRest
  <2>6. QED
    BY <1>1, <1>2, <1>3, <1>4, <1>5, <2>1, <2>5
<1>9. QED
  BY <1>7, <1>8

(* A push to an open queue puts the element behind those it holds. *)
LEMMA PushLemma ==
    ASSUME QueueTypeOK, HoldsTheRest, ~closed, NEW e \in Elements,
           pushUnsynchronized(e), UNCHANGED <<closed, readOnly>>
    PROVE  /\ elts' \in Seq(Elements) /\ headIdx' \in Nat
           /\ delivered' \in Seq(Elements) /\ accepted' \in Seq(Elements)
           /\ HoldsTheRest'
           /\ sizeUnsynchronized' = sizeUnsynchronized + 1
           /\ sizeUnsynchronized >= 0
<1> USE DEF sizeUnsynchronized
<1>1. /\ headIdx \in Nat /\ elts \in Seq(Elements)
      /\ accepted \in Seq(Elements) /\ delivered \in Seq(Elements)
      /\ headIdx <= Len(elts) \div 2
      /\ Len(accepted) = Len(delivered) + (Len(elts) - headIdx)
      /\ \A i \in 1..(Len(elts) - headIdx) : elts[headIdx + i] = accepted[Len(delivered) + i]
  BY DEF QueueTypeOK, HoldsTheRest
<1>2. /\ elts' = Append(elts, e) /\ accepted' = Append(accepted, e)
      /\ headIdx' = headIdx /\ delivered' = delivered
  BY DEF pushUnsynchronized
<1>3. /\ Len(elts) \in Nat /\ Len(accepted) \in Nat /\ Len(delivered) \in Nat
      /\ elts' \in Seq(Elements) /\ Len(elts') = Len(elts) + 1
      /\ accepted' \in Seq(Elements) /\ Len(accepted') = Len(accepted) + 1
      /\ elts'[Len(elts) + 1] = e /\ accepted'[Len(accepted) + 1] = e
      /\ \A i \in 1..Len(elts) : elts'[i] = elts[i]
      /\ \A i \in 1..Len(accepted) : accepted'[i] = accepted[i]
  <2>1. elts \in Seq(Elements) /\ accepted \in Seq(Elements) /\ delivered \in Seq(Elements)
    BY <1>1
  <2>2. QED
    BY <1>2, <2>1
<1>4. headIdx' <= Len(elts') \div 2
  BY <1>1, <1>2, <1>3
<1>4a. headIdx' = headIdx /\ delivered' = delivered /\ Len(accepted) = Len(delivered) + (Len(elts) - headIdx)
       /\ headIdx \in Nat /\ headIdx <= Len(elts) /\ Len(elts') = Len(elts) + 1
       /\ Len(elts) \in Nat /\ Len(delivered) \in Nat /\ Len(accepted) \in Nat
  BY <1>1, <1>2, <1>3
<1>5. \A i \in 1..(Len(elts') - headIdx') : elts'[headIdx' + i] = accepted'[Len(delivered') + i]
  <2>1. TAKE i \in 1..(Len(elts') - headIdx')
  <2>2. CASE i = Len(elts') - headIdx'
    BY <1>3, <1>4a, <2>2
  <2>3. CASE i # Len(elts') - headIdx'
    <3>1. /\ i \in 1..(Len(elts) - headIdx)
          /\ headIdx + i \in 1..Len(elts)
          /\ Len(delivered) + i \in 1..Len(accepted)
      BY <1>4a, <2>1, <2>3
    <3>2. QED
      BY <1>1, <1>3, <1>4a, <3>1
  <2>4. QED
    BY <2>2, <2>3
<1>6. HoldsTheRest'
  BY <1>3, <1>4, <1>4a, <1>5 DEF HoldsTheRest
<1>7. QED
  BY <1>1, <1>3, <1>4a, <1>6
-----------------------------------------------------------------------------
(* The inductive invariant holds of an open, empty queue nobody uses yet. *)
LEMMA QueueInitInv == QueueInit => QueueInv
<1>1. SUFFICES ASSUME QueueInit PROVE QueueInv
  OBVIOUS
<1>2. QueueTypeOK
  <2>1. <<>> \in Seq(Elements) /\ 0 \in 0..MaxSends
    BY QueueAssumption
  <2>2. \A p \in Producers : inCall[p] = "idle"
    BY <1>1 DEF QueueInit, Threads
  <2>3. QED
    BY <1>1, <2>1, <2>2 DEF QueueInit, QueueTypeOK
<1>3. NoLostWakeup
  BY <1>1 DEF QueueInit, NoLostWakeup
<1>4. HoldsTheRest
  BY <1>1 DEF QueueInit, HoldsTheRest, sizeUnsynchronized
<1>5. QED
  BY <1>2, <1>3, <1>4 DEF QueueInv

(* What the end of a push preserves, whatever call it is the end of. *)
LEMMA FinishPushInv ==
    ASSUME QueueInv, NEW p \in Producers, sent[p] < MaxSends, FinishPush(p),
           \/ inCall[p] = "idle" /\ UNCHANGED inCall
           \/ inCall[p] = "waitPush" /\ p \notin notFullCondVar /\ Return(p)
    PROVE  QueueInv'
<1> USE QueueAssumption
<1>1. QueueTypeOK /\ NoLostWakeup /\ HoldsTheRest
  BY DEF QueueInv
<1>2. /\ sent' = [sent EXCEPT ![p] = @ + 1]
      /\ notFullCondVar' = notFullCondVar
      /\ closed' = closed /\ readOnly' = readOnly
      /\ notEmptyCondVar' \subseteq notEmptyCondVar
  BY DEF FinishPush, notifyNotEmpty
<1>3. /\ inCall' \in [Threads -> {"idle", "waitPush", "waitPop", "stopped"}]
      /\ \A t \in Threads : t # p => inCall'[t] = inCall[t]
      /\ inCall'[p] = "idle"
      /\ p \in Threads /\ p \notin notFullCondVar /\ p \notin Consumers
  BY <1>1 DEF Return, QueueTypeOK, Threads
<1>4. /\ sent' \in [Producers -> 0..MaxSends]
      /\ \A q \in Producers : inCall'[q] = "waitPush" => sent'[q] < MaxSends
      /\ notFullCondVar' \subseteq {q \in Producers : inCall'[q] = "waitPush"}
      /\ notEmptyCondVar' \subseteq {c \in Consumers : inCall'[c] = "waitPop"}
  <2>1. /\ sent \in [Producers -> 0..MaxSends] /\ sent[p] + 1 \in 0..MaxSends
        /\ \A q \in Producers : inCall[q] = "waitPush" => sent[q] < MaxSends
    BY <1>1 DEF QueueTypeOK
  <2>2. sent' \in [Producers -> 0..MaxSends]
    BY <1>2, <2>1
  <2>3. \A q \in Producers : inCall'[q] = "waitPush" => sent'[q] < MaxSends
    BY <1>2, <1>3, <2>1 DEF Threads
  <2>4. notFullCondVar' \subseteq {q \in Producers : inCall'[q] = "waitPush"}
    BY <1>1, <1>2, <1>3 DEF QueueTypeOK, Threads
  <2>5. notEmptyCondVar' \subseteq {c \in Consumers : inCall'[c] = "waitPop"}
    BY <1>1, <1>2, <1>3 DEF QueueTypeOK, Threads
  <2>6. QED
    BY <2>2, <2>3, <2>4, <2>5
<1>5. CASE /\ closed \/ readOnly
           /\ UNCHANGED <<elts, headIdx, history, notEmptyCondVar>>
  <2>1. QueueTypeOK'
    BY <1>1, <1>2, <1>3, <1>4, <1>5 DEF QueueTypeOK, history
  <2>2. NoLostWakeup' /\ HoldsTheRest'
    BY <1>1, <1>2, <1>5 DEF NoLostWakeup, HoldsTheRest, history, sizeUnsynchronized,
                            MustWaitToPop, MustWaitToPush
  <2>3. QED
    BY <2>1, <2>2 DEF QueueInv
<1>6. CASE /\ ~closed /\ ~readOnly
           /\ pushUnsynchronized(<<p, sent[p] + 1>>)
           /\ notifyNotEmpty
  <2>1. <<p, sent[p] + 1>> \in Elements
    BY <1>1 DEF QueueTypeOK, Elements
  <2>2. /\ elts' \in Seq(Elements) /\ headIdx' \in Nat
        /\ delivered' \in Seq(Elements) /\ accepted' \in Seq(Elements)
        /\ HoldsTheRest'
        /\ sizeUnsynchronized' = sizeUnsynchronized + 1
        /\ sizeUnsynchronized >= 0
    BY <1>1, <1>2, <1>6, <2>1, PushLemma
  <2>3. QueueTypeOK'
    BY <1>1, <1>2, <1>3, <1>4, <2>2 DEF QueueTypeOK
  <2>4. sizeUnsynchronized \in Int
    BY <1>1 DEF QueueTypeOK, sizeUnsynchronized
  <2>5. NoLostWakeup'
    BY <1>1, <1>2, <1>6, <2>2, <2>4 DEF NoLostWakeup, MustWaitToPop, MustWaitToPush, notifyNotEmpty
  <2>6. QED
    BY <2>2, <2>3, <2>5 DEF QueueInv
<1>7. QED
  BY <1>5, <1>6 DEF FinishPush

(* What the end of a pop preserves, in tryPop and in waitPop. *)
LEMMA FinishPopInv ==
    ASSUME QueueInv, NEW c \in Consumers, ~closed, sizeUnsynchronized > 0, FinishPop,
           \/ UNCHANGED inCall
           \/ c \notin notEmptyCondVar /\ Return(c)
    PROVE  QueueInv'
<1> USE QueueAssumption
<1>1. QueueTypeOK /\ NoLostWakeup /\ HoldsTheRest
  BY DEF QueueInv
<1>2. /\ sent' = sent /\ notEmptyCondVar' = notEmptyCondVar
      /\ closed' = closed /\ readOnly' = readOnly
      /\ notFullCondVar' \subseteq notFullCondVar
  BY DEF FinishPop, notifyNotFull
<1>3. /\ elts' \in Seq(Elements) /\ headIdx' \in Nat
      /\ delivered' \in Seq(Elements) /\ accepted' \in Seq(Elements)
      /\ HoldsTheRest'
      /\ sizeUnsynchronized' = sizeUnsynchronized - 1
  BY <1>1, <1>2, PopLemma DEF FinishPop
<1>4. /\ inCall' \in [Threads -> {"idle", "waitPush", "waitPop", "stopped"}]
      /\ \A p \in Producers : inCall'[p] = inCall[p]
      /\ notEmptyCondVar' \subseteq {d \in Consumers : inCall'[d] = "waitPop"}
  BY <1>1, <1>2 DEF Return, QueueTypeOK, Threads
<1>5. QueueTypeOK'
  BY <1>1, <1>2, <1>3, <1>4 DEF QueueTypeOK
<1>6. sizeUnsynchronized \in Int
  BY <1>1 DEF QueueTypeOK, sizeUnsynchronized
<1>7. NoLostWakeup'
  <2>1. notEmptyCondVar' = {}
    BY <1>1, <1>2, <1>6 DEF NoLostWakeup, MustWaitToPop
  <2>2. notFullCondVar' # {} => MustWaitToPush'
    BY <1>1, <1>2, <1>3, <1>6 DEF NoLostWakeup, MustWaitToPush, FinishPop, notifyNotFull
  <2>3. QED
    BY <2>1, <2>2 DEF NoLostWakeup
<1>8. QED
  BY <1>3, <1>5, <1>7 DEF QueueInv
-----------------------------------------------------------------------------
(* Every call, wait, return and wakeup preserves the inductive invariant. *)
LEMMA QueueNextInv == QueueInv /\ [QueueNext]_allVars => QueueInv'
<1> USE QueueAssumption
<1>1. SUFFICES ASSUME QueueInv, [QueueNext]_allVars PROVE QueueInv'
  OBVIOUS
<1>2. QueueTypeOK /\ NoLostWakeup /\ HoldsTheRest
  BY <1>1 DEF QueueInv
<1>3. ASSUME NEW p \in Producers, CallWaitPush(p) PROVE QueueInv'
  <2>1. QueueTypeOK'
    BY <1>2, <1>3 DEF CallWaitPush, QueueTypeOK, queueVars, history, Threads
  <2>2. NoLostWakeup' /\ HoldsTheRest'
    BY <1>2, <1>3 DEF CallWaitPush, queueVars, history, NoLostWakeup, HoldsTheRest,
                      MustWaitToPush, MustWaitToPop, sizeUnsynchronized
  <2>3. QED
    BY <2>1, <2>2 DEF QueueInv
<1>4. ASSUME NEW p \in Producers, WaitToPush(p) PROVE QueueInv'
  <2>1. QueueTypeOK'
    BY <1>2, <1>4 DEF WaitToPush, QueueTypeOK, queueVars, history, Threads
  <2>2. NoLostWakeup' /\ HoldsTheRest'
    BY <1>2, <1>4 DEF WaitToPush, queueVars, history, NoLostWakeup, HoldsTheRest,
                      MustWaitToPush, MustWaitToPop, sizeUnsynchronized
  <2>3. QED
    BY <2>1, <2>2 DEF QueueInv
<1>5. ASSUME NEW p \in Producers, waitPush(p) PROVE QueueInv'
  <2>1. sent[p] < MaxSends
    BY <1>2, <1>5 DEF waitPush, QueueTypeOK
  <2>2. QED
    BY <1>1, <1>5, <2>1, FinishPushInv DEF waitPush
<1>6. ASSUME NEW p \in Producers, forcePush(p) PROVE QueueInv'
  BY <1>1, <1>6, FinishPushInv DEF forcePush
<1>7. ASSUME NEW c \in Consumers, CallWaitPop(c) PROVE QueueInv'
  <2>1. QueueTypeOK'
    BY <1>2, <1>7 DEF CallWaitPop, QueueTypeOK, queueVars, history, Threads
  <2>2. NoLostWakeup' /\ HoldsTheRest'
    BY <1>2, <1>7 DEF CallWaitPop, queueVars, history, NoLostWakeup, HoldsTheRest,
                      MustWaitToPush, MustWaitToPop, sizeUnsynchronized
  <2>3. QED
    BY <2>1, <2>2 DEF QueueInv
<1>8. ASSUME NEW c \in Consumers, WaitToPop(c) PROVE QueueInv'
  <2>1. QueueTypeOK'
    BY <1>2, <1>8 DEF WaitToPop, QueueTypeOK, queueVars, history, Threads
  <2>2. NoLostWakeup' /\ HoldsTheRest'
    BY <1>2, <1>8 DEF WaitToPop, queueVars, history, NoLostWakeup, HoldsTheRest,
                      MustWaitToPush, MustWaitToPop, sizeUnsynchronized
  <2>3. QED
    BY <2>1, <2>2 DEF QueueInv
<1>9. ASSUME NEW c \in Consumers, waitPop(c) PROVE QueueInv'
  <2>1. CASE ~closed /\ sizeUnsynchronized > 0 /\ FinishPop /\ Return(c)
    BY <1>1, <1>9, <2>1, FinishPopInv DEF waitPop
  <2>2. CASE /\ inCall' = [inCall EXCEPT ![c] = "stopped"]
             /\ UNCHANGED <<queueVars, notEmptyCondVar, notFullCondVar, sent, history>>
    <3>1. c \notin notEmptyCondVar /\ c \notin Producers
      BY <1>9 DEF waitPop
    <3>2. QueueTypeOK'
      BY <1>2, <2>2, <3>1 DEF QueueTypeOK, queueVars, history, Threads
    <3>3. NoLostWakeup' /\ HoldsTheRest'
      BY <1>2, <2>2 DEF queueVars, history, NoLostWakeup, HoldsTheRest,
                        MustWaitToPush, MustWaitToPop, sizeUnsynchronized
    <3>4. QED
      BY <3>2, <3>3 DEF QueueInv
  <2>3. QED
    BY <1>9, <2>1, <2>2 DEF waitPop
<1>10. ASSUME NEW c \in Consumers, tryPop(c) PROVE QueueInv'
  BY <1>1, <1>10, FinishPopInv DEF tryPop
<1>11. ASSUME close PROVE QueueInv'
  <2>1. <<>> \in Seq(Elements)
    OBVIOUS
  <2>2. QueueTypeOK'
    BY <1>2, <1>11, <2>1 DEF close, QueueTypeOK, history
  <2>3. NoLostWakeup' /\ HoldsTheRest'
    BY <1>11 DEF close, NoLostWakeup, HoldsTheRest
  <2>4. QED
    BY <2>2, <2>3 DEF QueueInv
<1>12. ASSUME setReadOnly PROVE QueueInv'
  <2>1. QueueTypeOK'
    BY <1>2, <1>12 DEF setReadOnly, QueueTypeOK, history
  <2>2. NoLostWakeup' /\ HoldsTheRest'
    BY <1>2, <1>12 DEF setReadOnly, history, NoLostWakeup, HoldsTheRest, sizeUnsynchronized
  <2>3. QED
    BY <2>1, <2>2 DEF QueueInv
<1>13. ASSUME NEW t \in Threads, SpuriousWakeup(t) PROVE QueueInv'
  <2>1. QueueTypeOK'
    BY <1>2, <1>13 DEF SpuriousWakeup, QueueTypeOK, queueVars, history
  <2>2. NoLostWakeup' /\ HoldsTheRest'
    BY <1>2, <1>13 DEF SpuriousWakeup, queueVars, history, NoLostWakeup, HoldsTheRest,
                       MustWaitToPush, MustWaitToPop, sizeUnsynchronized
  <2>3. QED
    BY <2>1, <2>2 DEF QueueInv
<1>14. ASSUME UNCHANGED allVars PROVE QueueInv'
  <2>1. QueueTypeOK'
    BY <1>2, <1>14 DEF allVars, QueueTypeOK, queueVars, history
  <2>2. NoLostWakeup' /\ HoldsTheRest'
    BY <1>2, <1>14 DEF allVars, queueVars, history, NoLostWakeup, HoldsTheRest,
                       MustWaitToPush, MustWaitToPop, sizeUnsynchronized
  <2>3. QED
    BY <2>1, <2>2 DEF QueueInv
<1>15. QED
  BY <1>1, <1>3, <1>4, <1>5, <1>6, <1>7, <1>8, <1>9, <1>10, <1>11, <1>12, <1>13, <1>14
     DEF QueueNext, Produce, Consume

(* So every reachable state satisfies it. *)
LEMMA QueueInvariance == QueueSpec => []QueueInv
BY QueueInitInv, QueueNextInv, PTL DEF QueueSpec

(* The types hold whatever the sets of threads and the capacity. *)
THEOREM QueueTypesHold == QueueSpec => []QueueTypeOK
<1>1. QueueInv => QueueTypeOK
  BY DEF QueueInv
<1>2. QED
  BY <1>1, QueueInvariance, PTL

(* No thread is left waiting for what the queue can already give it. *)
THEOREM NoWakeupIsLost == QueueSpec => []NoLostWakeup
<1>1. QueueInv => NoLostWakeup
  BY DEF QueueInv
<1>2. QED
  BY <1>1, QueueInvariance, PTL

(* The vector, from headIdx on, is what went in and did not come out. *)
THEOREM VectorHoldsTheRest == QueueSpec => []HoldsTheRest
<1>1. QueueInv => HoldsTheRest
  BY DEF QueueInv
<1>2. QED
  BY <1>1, QueueInvariance, PTL
-----------------------------------------------------------------------------
(* Every step of the queue is a step of the FIFO channel or a stutter.     *)
LEMMA StepRefines == QueueInv /\ [QueueNext]_allVars => [Channel!Next]_(Channel!vars)
<1> USE DEF Channel!Next, Channel!vars
<1>1. SUFFICES ASSUME QueueInv, [QueueNext]_allVars PROVE [Channel!Next]_(Channel!vars)
  OBVIOUS
<1>2. QueueTypeOK /\ HoldsTheRest
  BY <1>1 DEF QueueInv
<1>3. ASSUME NEW p \in Producers, FinishPush(p), sent[p] < MaxSends
      PROVE [Channel!Next]_(Channel!vars)
  <2>1. <<p, sent[p] + 1>> \in Elements
    BY <1>2, <1>3, QueueAssumption DEF QueueTypeOK, Elements
  <2>2. CASE UNCHANGED <<elts, headIdx, history, notEmptyCondVar>>
    BY <1>3, <2>2 DEF FinishPush, history
  <2>3. CASE ~closed /\ ~readOnly /\ pushUnsynchronized(<<p, sent[p] + 1>>)
    <3>1. Channel!Put(<<p, sent[p] + 1>>)
      BY <1>3, <2>3 DEF FinishPush, pushUnsynchronized, Channel!Put
    <3>2. QED
      BY <2>1, <3>1
  <2>4. QED
    BY <1>3, <2>2, <2>3 DEF FinishPush
<1>4. ASSUME ~closed, sizeUnsynchronized > 0, FinishPop
      PROVE [Channel!Next]_(Channel!vars)
  <2>1. /\ Len(delivered) < Len(accepted)
        /\ delivered' = Append(delivered, accepted[Len(delivered) + 1])
    BY <1>2, <1>4, PopLemma DEF FinishPop
  <2>2. Channel!Get
    BY <1>4, <2>1 DEF FinishPop, popUnsynchronized, Channel!Get
  <2>3. QED
    BY <2>2
<1>5. ASSUME NEW p \in Producers, Produce(p) PROVE [Channel!Next]_(Channel!vars)
  <2>1. CASE CallWaitPush(p) \/ WaitToPush(p)
    BY <2>1 DEF CallWaitPush, WaitToPush, queueVars, history
  <2>2. CASE waitPush(p)
    BY <1>2, <1>3, <2>2 DEF waitPush, QueueTypeOK
  <2>3. CASE forcePush(p)
    BY <1>3, <2>3 DEF forcePush
  <2>4. QED
    BY <1>5, <2>1, <2>2, <2>3 DEF Produce
<1>6. ASSUME NEW c \in Consumers, Consume(c) \/ tryPop(c) PROVE [Channel!Next]_(Channel!vars)
  <2>1. CASE CallWaitPop(c) \/ WaitToPop(c)
    BY <2>1 DEF CallWaitPop, WaitToPop, queueVars, history
  <2>2. CASE waitPop(c)
    <3>1. CASE ~closed /\ sizeUnsynchronized > 0 /\ FinishPop
      BY <1>4, <3>1
    <3>2. CASE UNCHANGED <<queueVars, notEmptyCondVar, notFullCondVar, sent, history>>
      BY <3>2 DEF queueVars, history
    <3>3. QED
      BY <2>2, <3>1, <3>2 DEF waitPop
  <2>3. CASE tryPop(c)
    BY <1>4, <2>3 DEF tryPop
  <2>4. QED
    BY <1>6, <2>1, <2>2, <2>3 DEF Consume
<1>7. ASSUME close PROVE [Channel!Next]_(Channel!vars)
  BY <1>7 DEF close, history, Channel!StopAll
<1>8. ASSUME setReadOnly PROVE [Channel!Next]_(Channel!vars)
  BY <1>8 DEF setReadOnly, history, Channel!StopWriting
<1>9. ASSUME NEW t \in Threads, SpuriousWakeup(t) PROVE [Channel!Next]_(Channel!vars)
  BY <1>9 DEF SpuriousWakeup, queueVars, history
<1>10. ASSUME UNCHANGED allVars PROVE [Channel!Next]_(Channel!vars)
  BY <1>10 DEF allVars, queueVars, history
<1>11. QED
  BY <1>1, <1>5, <1>6, <1>7, <1>8, <1>9, <1>10 DEF QueueNext

(* The queue implements the FIFO channel, for every set of threads. *)
THEOREM QueueIsFifo == QueueSpec => IsFifoChannel
<1>1. QueueInit => Channel!Init
  BY DEF QueueInit, Channel!Init
<1>2. QED
  BY <1>1, StepRefines, QueueInvariance, PTL DEF QueueSpec, IsFifoChannel, Channel!Spec
=============================================================================
