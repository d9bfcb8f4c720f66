------------------------------ MODULE GenBook ------------------------------
(***************************************************************************)
(* The genbook command (command/genbook.cpp): a main thread that repeats   *)
(* iterations, and in each of them game threads that expand nodes of one   *)
(* book, which bookMutex guards: a thread searches a node without the      *)
(* mutex, records the moves of its search tree in the book, and searches   *)
(* again whatever that changed.  At the end of an iteration the main       *)
(* thread recomputes the changed nodes and all above them.                 *)
(*                                                                         *)
(* Positions are nodes of a given graph, and a move is its child node, as  *)
(* the book looks for nodes by hash.  Of values there are the visits, in   *)
(* four classes, and the moves that their search avoided.  Only expansion  *)
(* is here, not the tracing of another book.                               *)
(***************************************************************************)
EXTENDS Naturals, FiniteSets, Sequences, FiniteSetsExt, SequencesExt

CONSTANTS NumNodes, Succ,     \* Succ[n]: the positions one move after n
          GameThread,
          MaxRuns,            \* bound: how often the command is run
          numIterations,      \* of each run, as its command line says
          numToExpandPerIteration, saveEveryIterations,
          maxDepthToRecord, minTreeVisitsToRecord,
          NoValues

\* A move adds a stone, so positions can be numbered with those before it first.
Node == 1..NumNodes
Root == 1
NoNode == 0

\* Visits: none, fewer than maxVisitsForLeaves, as many, and more.
Visits == 0..3
maxVisitsForLeaves == 2
SearchVisits == {1, 3}

ASSUME GenBookAssumption ==
    /\ NumNodes \in Nat \ {0} /\ Succ \in [Node -> SUBSET Node] /\ Succ[Root] # {}
    /\ \A n \in Node : \A c \in Succ[n] : n < c
    /\ \A s \in SUBSET Node : NoValues # s
    /\ numIterations \in [1..MaxRuns -> Nat \ {0}] /\ numToExpandPerIteration \in Nat \ {0}
    /\ saveEveryIterations \in Nat \ {0}
    /\ maxDepthToRecord \in Nat \ {0} /\ minTreeVisitsToRecord \in Visits \ {0}
    /\ MaxRuns \in Nat \ {0}

VARIABLES
    moves,                \* moves[n]: the moves of n that are in the book
    visits,               \* of thisValuesNotInBook,
    avoided,              \* and the moves that its search was to avoid
    recursiveVisits,
    canExpand, canReExpand,
    gamePc, job,          \* of each game thread
    positionsToSearch, newAndChangedNodes,
    bookPc, iteration, shouldStop,
    bookFile, runs,       \* what was saved last, and the runs so far
    alone                 \* history: no two threads have expanded at the same time

values    == <<visits, avoided>>
switches  == <<canExpand, canReExpand>>
disk      == <<bookFile, runs>>
bookMainVars  == <<recursiveVisits, bookPc, iteration, shouldStop, disk>>
bookVars  == <<moves, values, recursiveVisits, switches, gamePc, job, positionsToSearch,
               newAndChangedNodes, bookPc, iteration, shouldStop, disk, alone>>

InBook == {Root} \cup UNION {moves[n] : n \in Node}

isGameFinished(n) == Succ[n] = {}

\* What a call of expandNode knows: found is a child it has just recorded, or
\* the node it searches again, and read the list it is about to push to.
Job(n) == [node |-> n, avoid |-> {}, stack |-> <<>>, nodesHashesToSearch |-> {},
           nodesHashesToUpdate |-> {}, found |-> <<>>, read |-> {}]

\* A level of expandFromSearchResultRecursively.
Level(n, children) == [node |-> n, left |-> children, looped |-> FALSE, bestIsSmall |-> FALSE,
                       anythingAdded |-> FALSE, anyRecursion |-> FALSE]

\* What the file keeps of the book.
Contents == [moves |-> moves, visits |-> visits, avoided |-> avoided, canExpand |-> canExpand]
NewBook  == [moves |-> [n \in Node |-> {}], visits |-> [n \in Node |-> 0],
             avoided |-> [n \in Node |-> NoValues], canExpand |-> Node]

\* What the visits of a node and the recursive ones of its children make.
recomputeNodeValues(n, recursive, book) ==
    Min({Max(Visits), book.visits[n] + MapThenSumSet(LAMBDA c : recursive[c], book.moves[n])})

\* The changed nodes and all from which one of them is reached.
Dirty(changed) ==
    LET dirty[n \in Node] == n \in changed \/ \E c \in moves[n] : dirty[c]
    IN  {n \in Node : dirty[n]}

\* The dirty nodes are recomputed, children first.
Recomputed(old, dirty, book) ==
    LET recursive[n \in Node] == IF n \in dirty THEN recomputeNodeValues(n, recursive, book)
                                                ELSE old[n]
    IN  recursive

\* The book is a new one, which was saved at once.
BookInit ==
    /\ bookFile = NewBook
    /\ moves = bookFile.moves /\ visits = bookFile.visits /\ avoided = bookFile.avoided
    /\ canExpand = bookFile.canExpand /\ canReExpand = Node
    /\ recursiveVisits = Recomputed(bookFile.visits, Node, bookFile)
    /\ gamePc = [t \in GameThread |-> "none"]
    /\ job = [t \in GameThread |-> Job(NoNode)]
    /\ positionsToSearch = {} /\ newAndChangedNodes = {}
    /\ bookPc = "loop" /\ iteration = 0 /\ shouldStop = FALSE
    /\ runs = 1 /\ alone = TRUE

-----------------------------------------------------------------------------
(* A game thread.                                                          *)

Goto(t, pc) == gamePc' = [gamePc EXCEPT ![t] = pc]

\* loopExpandingNodes, which ends at once when it is told to stop.
PopsNode(t) ==
    /\ gamePc[t] = "pop" /\ ~shouldStop
    /\ \E n \in positionsToSearch :
         /\ positionsToSearch' = positionsToSearch \ {n}
         /\ IF isGameFinished(n)
            THEN canExpand' = canExpand \ {n} /\ UNCHANGED <<gamePc, job, alone>>
            ELSE /\ Goto(t, "find") /\ job' = [job EXCEPT ![t] = Job(n)]
                 /\ alone' = (alone /\ \A u \in GameThread \ {t} : gamePc[u] \in {"pop", "none"})
                 /\ UNCHANGED canExpand
    /\ UNCHANGED <<moves, values, canReExpand, newAndChangedNodes, bookMainVars>>

Exits(t) ==
    /\ gamePc[t] = "pop" /\ (shouldStop \/ positionsToSearch = {})
    /\ Goto(t, "none")
    /\ UNCHANGED <<moves, values, switches, job, positionsToSearch, newAndChangedNodes, bookMainVars, alone>>

\* findNewMovesAlreadyLocked: a node may be searched as if it had no moves; the
\* number of visits that forbids it is left open.
FindsNewMoves(t) ==
    /\ gamePc[t] = "find"
    /\ LET n == job[t].node IN
       \E isReExpansion \in BOOLEAN :
         /\ isReExpansion => n \in canReExpand
         /\ LET avoid == IF isReExpansion THEN {} ELSE moves[n] IN
            IF avoid = Succ[n]
            THEN canExpand' = canExpand \ {n} /\ Goto(t, "pop") /\ UNCHANGED job
            ELSE /\ job' = [job EXCEPT ![t].avoid = avoid]
                 /\ Goto(t, "search") /\ UNCHANGED canExpand
    /\ UNCHANGED <<moves, values, canReExpand, positionsToSearch, newAndChangedNodes, bookMainVars, alone>>

\* runWholeSearch.  A thread that is told to stop leaves the book as it was.
WholeSearchEnds(t) ==
    /\ gamePc[t] = "search"
    /\ IF shouldStop
       THEN Goto(t, "pop") /\ UNCHANGED job
       ELSE /\ job' = [job EXCEPT ![t].stack =
                          <<Level(job[t].node, Succ[job[t].node] \ job[t].avoid)>>]
            /\ Goto(t, "record")
    /\ UNCHANGED <<moves, values, switches, positionsToSearch, newAndChangedNodes, bookMainVars, alone>>

\* The child is a leaf that still has too few visits, by what was last recomputed.
ToppedOff(j, c) ==
    IF moves[c] = {} /\ recursiveVisits[c] < maxVisitsForLeaves
    THEN [j EXCEPT !.nodesHashesToSearch = @ \cup {c}] ELSE j

\* The recursive call; at the last depth it returns at once, but counts.
Descended(j, c, v) ==
    LET depth == Len(j.stack)
        marked == [j EXCEPT !.stack[depth].anyRecursion = TRUE]
    IN  IF v < minTreeVisitsToRecord \/ isGameFinished(c) THEN j
        ELSE IF depth >= maxDepthToRecord THEN marked
        ELSE [marked EXCEPT !.stack = Append(@, Level(c, Succ[c]))]

\* What a call knows when it has recorded c at its level, with v visits.
Recorded(j, c, v) ==
    LET depth == Len(j.stack)
        isNew == c \notin moves[j.stack[depth].node]
        level == [j.stack[depth] EXCEPT !.left = @ \ {c}, !.looped = TRUE,
                                        !.bestIsSmall = @ \/ v < maxVisitsForLeaves,
                                        !.anythingAdded = @ \/ isNew]
    IN  [j EXCEPT !.stack[depth] = level,
                  !.nodesHashesToUpdate = IF isNew THEN @ \cup {c} ELSE @,
                  !.found = <<c, v>>]

\* The loop over the children of a search node, as far as it holds bookMutex.  A
\* child is recorded if it has many visits, or is the best one.  The mutex is
\* released before the values of a child are set, and not taken again.
RecordsChild(t) ==
    /\ gamePc[t] = "record" /\ job[t].stack # <<>>
    /\ LET level == job[t].stack[Len(job[t].stack)] IN
       \E c \in level.left, v \in SearchVisits :
         LET isLeaf == moves[c] = {} /\ recursiveVisits[c] < v
             j == Recorded(job[t], c, v)
         IN  /\ v < maxVisitsForLeaves => ~level.bestIsSmall
             /\ moves' = [moves EXCEPT ![level.node] = @ \cup {c}]
             /\ IF c \notin InBook \/ isLeaf
                THEN job' = [job EXCEPT ![t] = j] /\ Goto(t, "set")
                ELSE /\ job' = [job EXCEPT ![t] = Descended(ToppedOff([j EXCEPT !.found = <<>>], c), c, v)]
                     /\ UNCHANGED gamePc
    /\ UNCHANGED <<values, switches, positionsToSearch, newAndChangedNodes, bookMainVars, alone>>

\* setNodeThisValuesFromFinishedSearch, with the mutex.
SetsValues(t) ==
    /\ gamePc[t] = "set"
    /\ LET c == job[t].found[1] IN
       visits' = [visits EXCEPT ![c] = job[t].found[2]] /\ avoided' = [avoided EXCEPT ![c] = {}]
    /\ Goto(t, "topOff")
    /\ UNCHANGED <<moves, switches, job, positionsToSearch, newAndChangedNodes, bookMainVars, alone>>

TopsOff(t) ==
    /\ gamePc[t] = "topOff"
    /\ LET c == job[t].found[1] IN
       job' = [job EXCEPT ![t] = Descended(ToppedOff([@ EXCEPT !.found = <<>>], c), c, @.found[2])]
    /\ Goto(t, "record")
    /\ UNCHANGED <<moves, values, switches, positionsToSearch, newAndChangedNodes, bookMainVars, alone>>

\* mutant of ToSearch: a node is not searched if a call for a child was made
ToSearchIfLast(level) == IF level.anythingAdded /\ ~level.anyRecursion THEN {level.node} ELSE {}

\* A node with a new move, and one that, or below which something, may have changed.
ToSearch(level) == IF level.anythingAdded THEN {level.node} ELSE {}
ToUpdate(level) == IF level.anythingAdded \/ level.anyRecursion THEN {level.node} ELSE {}

\* What a call knows when its last level has ended.
Ended(j) ==
    LET depth == Len(j.stack)
        level == j.stack[depth]
    IN  [j EXCEPT !.stack = SubSeq(@, 1, depth - 1),
                  !.nodesHashesToUpdate = @ \cup ToUpdate(level),
                  !.nodesHashesToSearch = @ \cup ToSearch(level)]

\* The end of a call of expandFromSearchResultRecursively.  Only the tree below
\* a child may turn out to have nothing to record.
EndsLevel(t) ==
    /\ gamePc[t] = "record" /\ job[t].stack # <<>>
    /\ LET depth == Len(job[t].stack) IN
       /\ job[t].stack[depth].looped \/ depth > 1
       /\ IF depth = 1 THEN Goto(t, "update") ELSE UNCHANGED gamePc
    /\ job' = [job EXCEPT ![t] = Ended(@)]
    /\ UNCHANGED <<moves, values, switches, positionsToSearch, newAndChangedNodes, bookMainVars, alone>>

\* searchAndUpdateNodeThisValues, in the order of the set: the moves to avoid are
\* read before the search, and the values written after it; the search has as many
\* visits as a leaf needs, if the configuration allows one so many.
Searches(t) ==
    /\ gamePc[t] = "update" /\ job[t].nodesHashesToSearch # {}
    /\ LET n == Min(job[t].nodesHashesToSearch) IN
       job' = [job EXCEPT ![t].nodesHashesToSearch = @ \ {n}, ![t].found = <<n, moves[n]>>]
    /\ Goto(t, "write")
    /\ UNCHANGED <<moves, values, switches, positionsToSearch, newAndChangedNodes, bookMainVars, alone>>

UpdatesValues(t) ==
    /\ gamePc[t] = "write"
    /\ LET n == job[t].found[1]
           avoid == job[t].found[2]
           hasNewMoves == avoid # Succ[n]
       IN
       /\ visits' = [visits EXCEPT ![n] = IF hasNewMoves \/ isGameFinished(n)
                                          THEN maxVisitsForLeaves ELSE 0]
       /\ avoided' = [avoided EXCEPT ![n] = avoid]
       /\ canExpand' = IF hasNewMoves THEN canExpand ELSE canExpand \ {n}
    /\ Goto(t, "update") /\ job' = [job EXCEPT ![t].found = <<>>]
    /\ UNCHANGED <<moves, canReExpand, positionsToSearch, newAndChangedNodes, bookMainVars, alone>>

\* mutant of IsSearched: the searches are given up at a signal
IsSearchedOrStopped(t) == job[t].nodesHashesToSearch = {} \/ shouldStop

\* All are searched, even after a signal.
IsSearched(t) == job[t].nodesHashesToSearch = {}

\* The changed nodes are pushed with the mutex, the expanded one after it: what
\* that push reads of the list may be read as soon as the others are in it.
NotesChanges(t) ==
    /\ gamePc[t] = "update" /\ IsSearched(t)
    /\ newAndChangedNodes' = newAndChangedNodes \cup job[t].nodesHashesToUpdate
    /\ canReExpand' = canReExpand \ {job[t].node}
    /\ job' = [job EXCEPT ![t].read = newAndChangedNodes']
    /\ Goto(t, "push")
    /\ UNCHANGED <<moves, values, canExpand, positionsToSearch, bookMainVars, alone>>

\* If another thread has pushed meanwhile, either push may be lost.
EndsPush(t) ==
    /\ gamePc[t] = "push"
    /\ LET pushed == {job[t].node} IN
       \/ newAndChangedNodes' = newAndChangedNodes \cup pushed
       \/ /\ newAndChangedNodes # job[t].read
          /\ newAndChangedNodes' \in {newAndChangedNodes, job[t].read \cup pushed}
    /\ Goto(t, "pop") /\ job' = [job EXCEPT ![t] = Job(NoNode)]
    /\ UNCHANGED <<moves, values, switches, positionsToSearch, bookMainVars, alone>>

expandNode(t) ==
    \/ FindsNewMoves(t) \/ WholeSearchEnds(t)
    \/ RecordsChild(t) \/ SetsValues(t) \/ TopsOff(t) \/ EndsLevel(t)
    \/ Searches(t) \/ UpdatesValues(t) \/ NotesChanges(t) \/ EndsPush(t)

loopExpandingNodes(t) == PopsNode(t) \/ Exits(t) \/ expandNode(t)

-----------------------------------------------------------------------------
(* The main thread.                                                        *)

bookContents == <<moves, values, switches>>
threads      == <<gamePc, job, positionsToSearch, newAndChangedNodes>>

\* The top of the loop over iterations, and the saves in it and after it.
Iterates ==
    /\ bookPc = "loop"
    /\ bookPc' = IF shouldStop \/ iteration = numIterations[runs] THEN "lastSave"
                 ELSE IF iteration # 0 /\ iteration % saveEveryIterations = 0 THEN "save"
                 ELSE "expand"
    /\ UNCHANGED <<bookContents, recursiveVisits, threads, iteration, shouldStop, disk, alone>>

\* To a file of another name, which is then renamed.
saveToFile ==
    /\ \/ bookPc = "save" /\ bookPc' = "expand"
       \/ bookPc = "lastSave" /\ bookPc' = "done"
    /\ bookFile' = Contents
    /\ UNCHANGED <<bookContents, recursiveVisits, threads, iteration, shouldStop, runs, alone>>

\* getNextNToExpand, by costs that may have any order, but that a node which
\* cannot be expanded costs 1e100 (book.cpp:1571): it comes after the others, and
\* the filter that follows leaves none out while there are enough.
BeginsIteration ==
    /\ bookPc = "expand"
    /\ LET expandable == canExpand \cap InBook
           n == Min({1 + (iteration \div 2), numToExpandPerIteration, Cardinality(expandable)})
       IN \E nodesToExpand \in kSubset(n, expandable) :
            positionsToSearch' = nodesToExpand /\ newAndChangedNodes' = nodesToExpand
    /\ gamePc' = [t \in GameThread |-> "pop"]
    /\ bookPc' = "join"
    /\ UNCHANGED <<bookContents, recursiveVisits, job, iteration, shouldStop, disk, alone>>

EndsIteration ==
    /\ bookPc = "join" /\ \A t \in GameThread : gamePc[t] = "none"
    /\ recursiveVisits' = Recomputed(recursiveVisits, Dirty(newAndChangedNodes), Contents)
    /\ iteration' = iteration + 1 /\ bookPc' = "loop"
    /\ UNCHANGED <<bookContents, threads, shouldStop, disk, alone>>

signalHandler ==
    /\ bookPc # "done" /\ ~shouldStop /\ shouldStop' = TRUE
    /\ UNCHANGED <<bookContents, recursiveVisits, threads, bookPc, iteration, disk, alone>>

\* The command is run again with its book, after it ended or was killed.
loadFromFile ==
    /\ runs < MaxRuns /\ runs' = runs + 1
    /\ moves' = bookFile.moves /\ visits' = bookFile.visits /\ avoided' = bookFile.avoided
    /\ canExpand' = bookFile.canExpand /\ canReExpand' = Node
    /\ recursiveVisits' = Recomputed(bookFile.visits, Node, bookFile)
    /\ gamePc' = [t \in GameThread |-> "none"]
    /\ job' = [t \in GameThread |-> Job(NoNode)]
    /\ positionsToSearch' = {} /\ newAndChangedNodes' = {}
    /\ bookPc' = "loop" /\ iteration' = 0 /\ shouldStop' = FALSE
    /\ UNCHANGED <<bookFile, alone>>

ExpandsBook == Iterates \/ saveToFile \/ BeginsIteration \/ EndsIteration

BookNext == \/ ExpandsBook \/ signalHandler \/ loadFromFile
            \/ \E t \in GameThread : loopExpandingNodes(t)

BookSpec == BookInit /\ [][BookNext]_bookVars /\ WF_bookVars(ExpandsBook)
                     /\ \A t \in GameThread : WF_bookVars(loopExpandingNodes(t))

-----------------------------------------------------------------------------
Saves == bookPc \in {"save", "lastSave"}

\* Whenever the book is saved, each of its nodes has values of a search, and each
\* leaf has those of one with enough visits: also if a signal came while nodes
\* were expanded, as the comment at genbook.cpp:1217 wants, and although a
\* thread tops off its leaves by what the last iteration had computed.
SavedBookIsSearched ==
    Saves => \A n \in InBook :
                 /\ (n # Root \/ moves[n] # {}) => avoided[n] # NoValues
                 /\ n # Root /\ moves[n] = {} => visits[n] >= maxVisitsForLeaves

\* As long as no two nodes were expanded at the same time, a book that is saved
\* is consistent: values are those of a search "excluding all current book nodes"
\* (book.h:112), and the recursive ones of a node with moves are what its own and
\* those of its children make (book.cpp:1277), which no later pass corrects.
BookIsConsistent ==
    Saves /\ alone => \A n \in InBook :
        /\ avoided[n] \in {NoValues, moves[n]}
        /\ moves[n] # {} => recursiveVisits[n] = recomputeNodeValues(n, recursiveVisits, Contents)

\* A run of the command ends, with the book saved.
BookIsSaved == []<>(bookPc = "done")
=============================================================================
