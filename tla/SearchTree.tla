----------------------------- MODULE SearchTree -----------------------------
(***************************************************************************)
(* The search tree as a whole and the threads that work on it: the pool    *)
(* (performTaskWithThreads and threadTaskLoop in                           *)
(* search/searchmultithreadhelpers.cpp, ThreadSafeCounter in               *)
(* core/threadsafecounter.h) and its tasks, which are to walk over the     *)
(* tree and mark it, to sweep the node table, and to search (search.cpp).  *)
(*                                                                         *)
(* The owner of the Search, which is thread 0 of every task, makes moves,  *)
(* begins searches, clears and changes numThreads, in any order.  A node   *)
(* is its children, its age and whether it is in the table; a transposed   *)
(* position makes it the child of several nodes.  The walk is written for  *)
(* any graph, cycles included, and so any graph may grow here, though the  *)
(* rules of Coffee, where every turn adds a stone, only make acyclic ones. *)
(* What a playout does to a node is the subject of SearchNode.             *)
(***************************************************************************)
EXTENDS Integers, Sequences, FiniteSetsExt, SequencesExt

CONSTANTS Node,             \* the nodes of the table
          Root, NULL,
          MaxThreads,       \* the largest numThreads
          NumShards,        \* of the table
          shardOf,          \* the shard of a node
          MaxPlayouts,      \* searchParams.maxPlayouts
          leadsTo,          \* bound: the children a node may get
          MaxAge            \* bound: no search begins at this age

\* What is done with threads.
Walks == {"mark", "recompute"}
Tasks == Walks \cup {"sweep", "deleteAll", "search"}

ASSUME TreeAssumption ==
    /\ Root \notin Node /\ NULL \notin Node \cup {Root} \cup Tasks
    /\ MaxThreads \in Nat \ {0} /\ NumShards \in Nat \ {0}
    /\ shardOf \in [Node -> 0..NumShards - 1]
    /\ leadsTo \in [Node \cup {Root} -> SUBSET Node]
    /\ MaxPlayouts \in Nat /\ MaxAge \in Nat

Thread == 0..MaxThreads - 1
Worker == Thread \ {0}
Vertex == Node \cup {Root}

VARIABLES
    table, children, hasRoot,
    nodeAge, searchNodeAge,
    agenda,                  \* the tasks the owner still has to perform, with what follows them
    numThreads, numThreadsSpawned,
    threadTasks,             \* the queue of each worker
    threadTasksRemaining,
    helpers, pushed,         \* the workers the task at hand is for, and those that have it
    pc,
    task,                    \* what a thread works on
    path,                    \* of a walk: the nodes entered, each with the children to come
    locked,                  \* the nodes whose mutex is held by a walk
    visited,                 \* how often the function has been called, in this walk
    numPlayoutsShared, numPlayouts, shouldStopNow

treeVars   == <<table, children, hasRoot>>
ageVars    == <<nodeAge, searchNodeAge>>
poolVars   == <<numThreadsSpawned, threadTasks, threadTasksRemaining, helpers, pushed>>
walkVars   == <<path, locked, visited>>
searchVars == <<numPlayoutsShared, numPlayouts, shouldStopNow>>
vars == <<treeVars, ageVars, agenda, numThreads, poolVars, pc, task, walkVars, searchVars>>

Init ==
    /\ table = {} /\ children = [v \in Vertex |-> {}] /\ hasRoot = FALSE
    /\ nodeAge = [v \in Vertex |-> 0] /\ searchNodeAge = 0
    /\ agenda = <<>>
    /\ numThreads \in 1..MaxThreads /\ numThreadsSpawned = 0
    /\ threadTasks = [w \in Worker |-> <<>>] /\ threadTasksRemaining = 0
    /\ helpers = 0 /\ pushed = 0
    /\ pc = [t \in Thread |-> "idle"]
    /\ task = [t \in Thread |-> NULL]
    /\ path = [t \in Thread |-> <<>>] /\ locked = {} /\ visited = [v \in Vertex |-> 0]
    /\ numPlayoutsShared = 0 /\ numPlayouts = [t \in Thread |-> 0] /\ shouldStopNow = FALSE

\* What is in every set that has vs and the children of its members.
ReachableFrom(vs) ==
    {v \in Vertex : \A closed \in SUBSET Vertex :
        vs \subseteq closed /\ (\A u \in closed : children[u] \subseteq closed) => v \in closed}
Reachable == IF hasRoot THEN ReachableFrom({Root}) ELSE {}

Goto(t, next) == pc' = [pc EXCEPT ![t] = next]

-----------------------------------------------------------------------------
(* The owner of the Search, between two tasks.                             *)

OwnerIsFree == pc[0] = "idle" /\ agenda = <<>>
OwnerUnchanged == UNCHANGED <<table, searchNodeAge, poolVars, pc, task, walkVars, searchVars>>

Clear == IF hasRoot THEN <<"deleteAll", "reset">> ELSE <<"reset">>

clearSearch ==
    /\ OwnerIsFree
    /\ agenda' = Clear
    /\ OwnerUnchanged /\ UNCHANGED <<children, hasRoot, nodeAge, numThreads>>

\* setParamsNoClearing.
setNumThreads ==
    /\ OwnerIsFree
    /\ \E k \in 1..MaxThreads : k # numThreads /\ numThreads' = k
    /\ OwnerUnchanged /\ UNCHANGED <<children, hasRoot, nodeAge, agenda>>

\* The new root is a copy of the child; the child itself is swept if nothing
\* in the new tree leads to it.  A move without a child clears the search.
makeMove ==
    /\ OwnerIsFree /\ hasRoot
    /\ searchNodeAge <= MaxAge      \* bound: a cycle would let moves go on for ever
    /\ \E child \in children[Root] :
         /\ children' = [children EXCEPT ![Root] = children[child]]
         /\ nodeAge' = [nodeAge EXCEPT ![Root] = nodeAge[child]]
         /\ agenda' = <<"mark", "sweep">>
    /\ OwnerUnchanged /\ UNCHANGED <<hasRoot, numThreads>>

\* beginSearch and the search.  Some children of the root may not be allowed
\* there.  With a subtree value bias or a pattern bonus the statistics are
\* recomputed.  MaxAge is the code's 0x3FFFFFFF.
runWholeSearch ==
    /\ OwnerIsFree
    /\ IF ~hasRoot \/ searchNodeAge > MaxAge
       THEN /\ agenda' = Clear \o <<"newRoot", "age", "search">>
            /\ UNCHANGED children
       ELSE \E filtered \in SUBSET children[Root], biased \in BOOLEAN :
              /\ children' = [children EXCEPT ![Root] = @ \ filtered]
              /\ agenda' = (IF biased THEN <<"recompute">>
                            ELSE IF filtered # {} THEN <<"mark">> ELSE <<>>)
                           \o (IF filtered # {} THEN <<"sweep">> ELSE <<>>)
                           \o <<"age", "search">>
    /\ OwnerUnchanged /\ UNCHANGED <<hasRoot, nodeAge, numThreads>>

\* What the owner does itself.
OwnerGoesOn ==
    /\ pc[0] = "idle" /\ agenda # <<>>
    /\ \/ /\ Head(agenda) = "reset"
          /\ hasRoot' = FALSE /\ children' = [children EXCEPT ![Root] = {}]
          /\ nodeAge' = [nodeAge EXCEPT ![Root] = 0] /\ searchNodeAge' = 0
       \/ /\ Head(agenda) = "newRoot"
          /\ hasRoot' = TRUE
          /\ UNCHANGED <<children, nodeAge, searchNodeAge>>
       \/ /\ Head(agenda) = "age"
          /\ searchNodeAge' = searchNodeAge + 1
          /\ UNCHANGED <<hasRoot, children, nodeAge>>
    /\ agenda' = Tail(agenda)
    /\ UNCHANGED <<table, numThreads, poolVars, pc, task, walkVars, searchVars>>

-----------------------------------------------------------------------------
(* performTaskWithThreads and threadTaskLoop.                              *)

\* A walk begins by making every node old.
PreparesTask ==
    /\ pc[0] = "idle" /\ agenda # <<>> /\ Head(agenda) \in Tasks
    /\ searchNodeAge' = searchNodeAge + (IF Head(agenda) \in Walks THEN 1 ELSE 0)
    /\ task' = [task EXCEPT ![0] = Head(agenda)]
    /\ Goto(0, "spawn")
    /\ UNCHANGED <<treeVars, nodeAge, agenda, numThreads, poolVars, walkVars, searchVars>>

\* spawnThreadsIfNeeded: if there are too few, all are killed, which joins
\* them, and spawned anew; it never makes them fewer.  A search may use less
\* threads than there are.
SpawnsThreads ==
    /\ pc[0] = "spawn"
    /\ IF numThreadsSpawned >= numThreads - 1
       THEN UNCHANGED numThreadsSpawned
       ELSE /\ \A w \in Worker : pc[w] = "idle" /\ threadTasks[w] = <<>>
            /\ numThreadsSpawned' = numThreads - 1
    /\ \E capThreads \in IF task[0] = "search" THEN 1..MaxThreads ELSE {MaxThreads} :
         helpers' = Min({capThreads - 1, numThreads - 1})
    /\ threadTasksRemaining' = threadTasksRemaining + helpers'
    /\ pushed' = 0
    /\ Goto(0, IF helpers' = 0 THEN "begin" ELSE "push")
    /\ UNCHANGED <<treeVars, ageVars, agenda, numThreads, threadTasks, task, walkVars, searchVars>>

PushesTask ==
    /\ pc[0] = "push"
    /\ pushed' = pushed + 1
    /\ threadTasks' = [threadTasks EXCEPT ![pushed'] = Append(@, task[0])]
    /\ Goto(0, IF pushed' = helpers THEN "begin" ELSE "push")
    /\ UNCHANGED <<treeVars, ageVars, agenda, numThreads, numThreadsSpawned,
                   threadTasksRemaining, helpers, task, walkVars, searchVars>>

PopsTask(w) ==
    /\ pc[w] = "idle" /\ w <= numThreadsSpawned /\ threadTasks[w] # <<>>
    /\ task' = [task EXCEPT ![w] = Head(threadTasks[w])]
    /\ threadTasks' = [threadTasks EXCEPT ![w] = Tail(@)]
    /\ Goto(w, "begin")
    /\ UNCHANGED <<treeVars, ageVars, agenda, numThreads, numThreadsSpawned,
                   threadTasksRemaining, helpers, pushed, walkVars, searchVars>>

BeginsTask(t) ==
    /\ pc[t] = "begin"
    /\ Goto(t, IF task[t] \in Walks THEN "walk" ELSE task[t])
    /\ path' = IF task[t] \in Walks
               THEN [path EXCEPT ![t] = <<[node |-> NULL, todo |-> {Root}]>>] ELSE path
    /\ numPlayouts' = IF task[t] = "search"
                      THEN [numPlayouts EXCEPT ![t] = numPlayoutsShared] ELSE numPlayouts
    /\ UNCHANGED <<treeVars, ageVars, agenda, numThreads, poolVars, task, locked, visited,
                   numPlayoutsShared, shouldStopNow>>

EndsTask(t) == Goto(t, IF t = 0 THEN "wait" ELSE "checkIn")

ChecksInQuietly(w) ==  \* mutant of ChecksIn: the last one does not notify
    /\ pc[w] = "checkIn"
    /\ threadTasksRemaining' = threadTasksRemaining - 1
    /\ task' = [task EXCEPT ![w] = NULL]
    /\ Goto(w, "idle")
    /\ UNCHANGED <<treeVars, ageVars, agenda, numThreads, numThreadsSpawned, threadTasks,
                   helpers, pushed, walkVars, searchVars>>

ChecksIn(w) ==
    /\ pc[w] = "checkIn"
    /\ threadTasksRemaining' = threadTasksRemaining - 1
    /\ task' = [task EXCEPT ![w] = NULL]
    /\ pc' = [pc EXCEPT ![w] = "idle",
                        ![0] = IF threadTasksRemaining' = 0 /\ @ = "asleep" THEN "wait" ELSE @]
    /\ UNCHANGED <<treeVars, ageVars, agenda, numThreads, numThreadsSpawned, threadTasks,
                   helpers, pushed, walkVars, searchVars>>

\* The variables of the functions that return.
LocalsEnd ==
    /\ helpers' = 0 /\ pushed' = 0 /\ visited' = [v \in Vertex |-> 0]
    /\ numPlayoutsShared' = 0 /\ numPlayouts' = [t \in Thread |-> 0] /\ shouldStopNow' = FALSE

waitForQueues ==  \* mutant of waitUntilZero: waits until the task is taken, not done
    /\ pc[0] = "wait" /\ \A w \in Worker : threadTasks[w] = <<>>
    /\ Goto(0, "idle")
    /\ task' = [task EXCEPT ![0] = NULL]
    /\ agenda' = Tail(agenda)
    /\ LocalsEnd
    /\ UNCHANGED <<treeVars, ageVars, numThreads, numThreadsSpawned, threadTasks,
                   threadTasksRemaining, path, locked>>

\* waitUntilZero, if there are helpers.
waitUntilZero ==
    /\ pc[0] = "wait"
    /\ IF helpers = 0 \/ threadTasksRemaining = 0
       THEN /\ Goto(0, "idle")
            /\ task' = [task EXCEPT ![0] = NULL]
            /\ agenda' = Tail(agenda)
            /\ LocalsEnd
       ELSE Goto(0, "asleep") /\ UNCHANGED <<task, agenda, helpers, pushed, visited, searchVars>>
    /\ UNCHANGED <<treeVars, ageVars, numThreads, numThreadsSpawned, threadTasks,
                   threadTasksRemaining, path, locked>>

-----------------------------------------------------------------------------
(* A walk.  Every thread walks over the whole tree, each in an order of its *)
(* own, and skips what another has done.                                   *)

Top(t) == Last(path[t])
Below(t) == Front(path[t])
Done(v) == nodeAge[v] = searchNodeAge
OnPath(t, v) == \E i \in DOMAIN path[t] : path[t][i].node = v
WalkUnchanged == UNCHANGED <<treeVars, searchNodeAge, agenda, numThreads, poolVars, task, searchVars>>

Enters(t) ==
    /\ pc[t] = "walk"
    /\ \E v \in Top(t).todo :
         LET rest == Append(Below(t), [Top(t) EXCEPT !.todo = @ \ {v}])
         IN  path' = [path EXCEPT ![t] =
                        IF Done(v) \/ OnPath(t, v) THEN rest
                        ELSE Append(rest, [node |-> v, todo |-> children[v]])]
    /\ WalkUnchanged /\ UNCHANGED <<nodeAge, pc, locked, visited>>

\* Any order: the exchange of the age decides which thread calls.
Marks(t) ==
    /\ pc[t] = "walk" /\ task[t] = "mark" /\ Top(t).todo = {} /\ Top(t).node # NULL
    /\ visited' = IF Done(Top(t).node) THEN visited ELSE [visited EXCEPT ![Top(t).node] = @ + 1]
    /\ nodeAge' = [nodeAge EXCEPT ![Top(t).node] = searchNodeAge]
    /\ path' = [path EXCEPT ![t] = Below(t)]
    /\ WalkUnchanged /\ UNCHANGED <<pc, locked>>

\* mutant of Calls: the age is not read again under the mutex
CallsUnchecked(t) ==
    /\ pc[t] = "walk" /\ task[t] = "recompute" /\ Top(t).todo = {} /\ Top(t).node # NULL
    /\ Top(t).node \notin locked
    /\ locked' = locked \cup {Top(t).node}
    /\ visited' = [visited EXCEPT ![Top(t).node] = @ + 1]
    /\ Goto(t, "call")
    /\ WalkUnchanged /\ UNCHANGED <<nodeAge, path>>

\* Post-order: the call is made under the mutex of the node (which other
\* nodes may share; that only delays the walk).
Calls(t) ==
    /\ pc[t] = "walk" /\ task[t] = "recompute" /\ Top(t).todo = {} /\ Top(t).node # NULL
    /\ Top(t).node \notin locked
    /\ IF Done(Top(t).node)
       THEN path' = [path EXCEPT ![t] = Below(t)] /\ UNCHANGED <<pc, locked, visited>>
       ELSE /\ locked' = locked \cup {Top(t).node}
            /\ visited' = [visited EXCEPT ![Top(t).node] = @ + 1]
            /\ Goto(t, "call") /\ UNCHANGED path
    /\ WalkUnchanged /\ UNCHANGED nodeAge

CallReturns(t) ==
    /\ pc[t] = "call"
    /\ nodeAge' = [nodeAge EXCEPT ![Top(t).node] = searchNodeAge]
    /\ locked' = locked \ {Top(t).node}
    /\ path' = [path EXCEPT ![t] = Below(t)]
    /\ Goto(t, "walk")
    /\ WalkUnchanged /\ UNCHANGED visited

EndsWalk(t) ==
    /\ pc[t] = "walk" /\ Top(t).node = NULL /\ Top(t).todo = {}
    /\ path' = [path EXCEPT ![t] = <<>>]
    /\ EndsTask(t)
    /\ WalkUnchanged /\ UNCHANGED <<nodeAge, locked, visited>>

-----------------------------------------------------------------------------
(* A sweep: every thread has its part of the shards, which nobody else     *)
(* reads, so that it is one step.                                          *)

\* mutant of Part: the parts of all that are spawned, though fewer may be at work
PartOfSpawned(t) ==
    {n \in table :
        shardOf[n] \in (t * NumShards) \div (numThreadsSpawned + 1)
                       .. ((t + 1) * NumShards) \div (numThreadsSpawned + 1) - 1}

Part(t) == {n \in table :
              shardOf[n] \in (t * NumShards) \div numThreads
                             .. ((t + 1) * NumShards) \div numThreads - 1}

Sweeps(t) ==
    /\ pc[t] \in {"sweep", "deleteAll"}
    /\ LET gone == {n \in Part(t) : pc[t] = "deleteAll" \/ nodeAge[n] < searchNodeAge}
       IN  /\ table' = table \ gone
           /\ children' = [v \in Vertex |-> IF v \in gone THEN {} ELSE children[v]]
           /\ nodeAge' = [v \in Vertex |-> IF v \in gone THEN 0 ELSE nodeAge[v]]
    /\ EndsTask(t)
    /\ UNCHANGED <<hasRoot, searchNodeAge, agenda, numThreads, poolVars, task, walkVars, searchVars>>

-----------------------------------------------------------------------------
(* A search.  The limits of time and of visits end it like maxPlayouts     *)
(* does, or like a stop; a playout that does not finish changes nothing.   *)

SearchUnchanged == UNCHANGED <<searchNodeAge, hasRoot, agenda, numThreads, poolVars, task, walkVars>>

ChecksLimits(t) ==
    /\ pc[t] = "search"
    /\ IF numPlayouts[t] >= MaxPlayouts \/ shouldStopNow
       THEN shouldStopNow' = TRUE /\ EndsTask(t)
       ELSE UNCHANGED shouldStopNow /\ Goto(t, "playout")
    /\ SearchUnchanged /\ UNCHANGED <<table, children, nodeAge, numPlayoutsShared, numPlayouts>>

\* It may visit what there is, or give a node another child, which is new or
\* known from a transposition.  A new node is evaluated, unless the game is
\* over there, and stays an orphan if another thread took its place.
runSinglePlayout(t) ==
    /\ pc[t] = "playout"
    /\ \/ UNCHANGED <<table, children>>
          /\ nodeAge' = [nodeAge EXCEPT ![Root] = searchNodeAge]
       \/ \E v \in Reachable, evaluated, linked \in BOOLEAN : \E n \in leadsTo[v] \ children[v] :
            /\ (evaluated => linked) /\ n \in table => linked /\ ~evaluated
            /\ table' = table \cup {n}
            /\ children' = IF linked THEN [children EXCEPT ![v] = @ \cup {n}] ELSE children
            /\ nodeAge' = [nodeAge EXCEPT ![Root] = searchNodeAge,
                                          ![n] = IF evaluated THEN searchNodeAge ELSE @]
    /\ numPlayoutsShared' = numPlayoutsShared + 1
    /\ numPlayouts' = [numPlayouts EXCEPT ![t] = numPlayoutsShared']
    /\ Goto(t, "search")
    /\ SearchUnchanged /\ UNCHANGED shouldStopNow

\* Whoever has started the search stops it.
Stop ==
    /\ task[0] = "search" /\ ~shouldStopNow
    /\ shouldStopNow' = TRUE
    /\ UNCHANGED <<treeVars, ageVars, agenda, numThreads, poolVars, pc, task, walkVars,
                   numPlayoutsShared, numPlayouts>>

-----------------------------------------------------------------------------
Owner == clearSearch \/ setNumThreads \/ makeMove \/ runWholeSearch
Pool == OwnerGoesOn \/ PreparesTask \/ SpawnsThreads \/ PushesTask \/ waitUntilZero
Works(t) ==
    \/ BeginsTask(t) \/ Enters(t) \/ Marks(t) \/ Calls(t) \/ CallReturns(t) \/ EndsWalk(t)
    \/ Sweeps(t) \/ ChecksLimits(t) \/ runSinglePlayout(t)
WorkerGoesOn(w) == PopsTask(w) \/ ChecksIn(w) \/ Works(w)

Next ==
    \/ Owner \/ Pool \/ Stop \/ Works(0)
    \/ \E w \in Worker : WorkerGoesOn(w)

\* Threads that can run, run.  Nobody has to make a move or to stop a search.
Fairness == WF_vars(Pool \/ Works(0)) /\ \A w \in Worker : WF_vars(WorkerGoesOn(w))
Spec == Init /\ [][Next]_vars /\ Fairness

-----------------------------------------------------------------------------
Frame == [node : Vertex \cup {NULL}, todo : SUBSET Vertex]

\* Every variable holds values of its kind.
TypeOK ==
    /\ table \subseteq Node /\ children \in [Vertex -> SUBSET Node] /\ hasRoot \in BOOLEAN
    /\ nodeAge \in [Vertex -> Nat] /\ searchNodeAge \in Nat
    /\ agenda \in Seq(Tasks \cup {"reset", "newRoot", "age"})
    /\ numThreads \in 1..MaxThreads /\ numThreadsSpawned \in 0..MaxThreads - 1
    /\ threadTasks \in [Worker -> Seq(Tasks)] /\ threadTasksRemaining \in Nat
    /\ helpers \in 0..MaxThreads - 1 /\ pushed \in 0..MaxThreads - 1
    /\ pc \in [Thread -> {"idle", "spawn", "push", "begin", "walk", "call", "sweep", "deleteAll",
                          "search", "playout", "checkIn", "wait", "asleep"}]
    /\ task \in [Thread -> Tasks \cup {NULL}]
    /\ path \in [Thread -> Seq(Frame)] /\ locked \subseteq Vertex
    /\ visited \in [Vertex -> Nat]
    /\ numPlayoutsShared \in Nat /\ numPlayouts \in [Thread -> Nat] /\ shouldStopNow \in BOOLEAN

\* performTaskWithThreads returns when nobody works on the task any more: the
\* task is an object of the function that called it.
TaskOutlivesItsWorkers ==
    \A w \in Worker :
        /\ task[w] # NULL => task[w] = task[0]
        /\ \A i \in DOMAIN threadTasks[w] : task[w] = NULL /\ threadTasks[w][i] = task[0]

\* A walk calls its function on a node once, and in post-order on its children
\* before: a child that is still to come is on a cycle with the node.  When
\* the walk is over it has called on every reachable node, and on no other.
WalkOnceChildrenFirst ==
    /\ task[0] \in Walks =>
         \A v \in Vertex :
            /\ visited[v] <= 1
            /\ visited[v] = 1 => \A c \in children[v] : Done(c) \/ v \in ReachableFrom({c})
    /\ pc[0] = "idle" /\ agenda # <<>> /\ Head(agenda) = "sweep" =>
         \A v \in Vertex : Done(v) <=> v \in Reachable

\* What the tree leads to is in the table, also while other threads sweep it:
\* no thread can meet a deleted node.  Only a search that is cleared is not
\* left by its nodes one by one.
ReachableIsInTable ==
    (agenda # <<>> => Head(agenda) \notin {"deleteAll", "reset"})
    => Reachable \subseteq table \cup {Root}

\* The threads that work on the last playouts may exceed the limit by one each.
PlayoutsAreLimited == numPlayoutsShared <= MaxPlayouts + helpers

\* The pool: no task is used after its end, and no playout is begun too many.
PoolIsSound == TypeOK /\ TaskOutlivesItsWorkers /\ PlayoutsAreLimited

\* The tree: walks by several threads mark what is reachable, all of which
\* stays in the table.
TreeIsSound == WalkOnceChildrenFirst /\ ReachableIsInTable

\* A sweep leaves in the table what the new tree leads to, and nothing else;
\* a search that is cleared leaves nothing.
SweepLeavesTheTree ==
    [][/\ agenda # <<>> /\ agenda' = Tail(agenda) /\ Head(agenda) \in {"sweep", "deleteAll"}
       => table = IF Head(agenda) = "sweep" THEN Reachable \ {Root} ELSE {}]_vars

\* Every task of the owner comes to an end.
TasksEnd == []<>OwnerIsFree
=============================================================================
