# KataCoffee: TLA+ models, checks and proofs

KataCoffee plays the game of Coffee with KataGo's engine: a Monte Carlo tree
search whose threads share one tree and send positions to a neural net in
batches, and around it the programs that play, analyse and train. The models
here are of `src/cpp`; every module names the files it models in its header, and
`PROJECT.json` maps each definition to its lines.

## The system

| component | state | operations | what must hold |
|---|---|---|---|
| `Board` (game/board) | colours of a padded array, Zobrist hash, last move, `win_len` | isLegal, playMoveAssumeLegal, copy, checkConsistency | walks in the array agree with the rules; the hash is that of the stones |
| `BoardHistory` (game/boardhistory) | initial board, moves, ring of recent boards, result | clear, makeBoardMove, makeBoardMoveAssumeLegal, setWinnerByResignation | the game is over exactly when a row was made; the ring holds recent boards |
| `ThreadSafeQueue` (core) | vector, head index, closed/readOnly, two condition variables | waitPush, forcePush, tryPop, waitPop, close, setReadOnly, size | FIFO, no lost wakeup, blocked calls return |
| `WaitableFlag`, `ThreadSafeCounter`, `PriorityMutex` (core) | a value and its condition variables | set, wait, add, waitUntilZero, lock | every waiter is released |
| `NNEvaluator` (neuralnet/nneval) | ring of arrays of result buffers, counters, condition variables | evaluate, serve, waitForNextNNEvalIfAny, spawn and kill | every evaluation is answered once, in a batch; sleepers wake; kill leaves nothing |
| `NNCacheTable` and `evaluate` around a batch (nneval) | table of shared outputs | get, set, clear, postprocess, upgrade | a result is of the position asked for, complete, and final once shared |
| search tree (search/searchnode, search) | per node: state, output, arrays of children, visits, virtual losses | playoutDescend and what it calls, by many threads | no child lost or doubled, virtual losses balance, visits are counted |
| the tree between searches (search) | root, table of nodes, ages | makeMove, clearSearch, beginSearch, the sweep | what is deleted is exactly what the root no longer reaches |
| search threads (searchmultithreadhelpers) | a task queue per thread, a counter of running tasks | spawn, performTaskWithThreads, two walks over the graph | a task is not used after its end; a walk does each node once |
| `AsyncBot` (search/asyncbot) | control mutex, running and killed flags, a search thread, a callback thread per search | genMoveAsync, genMoveSynchronous, analyzeAsync, ponder, setters, stopAndWait, setKilled | who waited for a stop has the search alone; each move is reported once; calls return |
| `SelfplayManager` (program) | models with use counts, a queue of finished games and a writer thread each | load, acquire, release, enqueue, withDataWriters, clean-up, destructor | no model is freed while used; each finished game is written once |
| commands (main, analysis, gtp, selfplay, contribute) | requests, task loops, game threads, stop flags | read, queue, terminate, pause, stop | requests are answered once; nets are held while used; the command ends |
| `gatekeeper` (command) | nets to test, a match with its tally, a write loop, game threads | load, play, tally, stop early, accept or reject | the verdict is that of the whole match; each net gets one |
| opening book (book, command/genbook) | a graph of positions with values of a search and recursive ones, a file | expand, record, search again, recompute, save, load | what is saved has been searched, and its values agree with its moves |

They interact by calls and shared memory: a search thread holds a `Board` and a
`BoardHistory`, calls `evaluate` and sleeps on the result buffer it owns; server
threads of the evaluator take arrays of such buffers; the outputs are shared by
the cache and every node that got one; search tasks reach the search threads
through queues; an `AsyncBot` runs its search for a command, whose other threads
stop it; game threads acquire nets from a manager, switch to newer ones in
mid-game, and their finished games go to a writer thread through a queue of the
manager. The behaviours that are hard to get right are the interleavings of
these threads, the condition variables that are notified sparingly, state read
under one lock and used under another, the lock-free growth of a node, and the
long sequences of legal moves that decide what is legal next. `PROJECT.json`
lists them under `hazards`.

## Modules

Pure rules and the game:

* `CoffeeBoard` is the board as constant operators: the padded array, the walks
  that decide legality and runs, playing a move, the copy constructor (which leaves
  `win_len` unset) and what `checkConsistency` recomputes. The hash is the set of
  (spot, colour) words folded into it, so folding one twice takes it out, as
  exclusive or does.
* `BoardHistory` is a game: the driver's board, the history with its ring, the
  player to move, one action per operation. `MCBoardHistory` gives it sizes, and
  `MCCoffeeBoard` puts a game and a result cache, which share nothing, side by side
  for the run `boards`.
  `CoffeeBoard_proofs` has the theorems about both, and about the cache below.

The queue:

* `FifoChannel` is what a queue promises: elements come out once and in order,
  writing may stop, and so may reading.
* `ThreadSafeQueue` is the container with its threads. The mutex is held from the
  start of a call to its return or its wait, so that stretch is one action; a
  thread that waits is in a wait set, and leaves it when notified or
  spontaneously. `MCThreadSafeQueue` gives it threads. Its theorems are in
  `SearchTree_proofs`, beside those of the pool that uses such queues.

The evaluator:

* `BatchService` is what it promises: requests queue, are taken in order in
  batches of at most `maxNumRows`, and each is answered once.
* `NNEvaluator` is the ring of arrays and its indices, with one action per
  critical section of `bufferMutex` and of a client's `resultMutex`; client
  threads, server threads and the main thread that spawns and kills them.
  `MCNNEvaluator` gives it threads.
* `NNEvaluator_proofs` has its theorems and its refinement of `BatchService`.

The search tree:

* `ChildList` is what a node promises: it is evaluated once, and then has a list of
  distinct children that only grows.
* `SearchNode` is one node and the threads whose playouts pass it. Each access to
  a shared atomic is a step (the load of the state, a compare-and-exchange, the
  read of one slot, the copy of one slot, an edge visit), and the critical section
  that stores a child is one step. The recomputation of the statistics loads the
  state, reads the children of that array one by one, while others store children
  and add visits, and then stores what it has. The fetch of a child and its first
  virtual loss are one step, because no modelled step reads what the other writes.
  The weights that were read (`statsBuf`) are held in `childWeights` from the first
  one on, before the store: one thread at a time recomputes, which
  `StatsAreUpToDate` checks, and nobody else reads them meanwhile. A thread may
  choose any child it sees or any move it does not see, because the values that
  decide are left out; what goes on in the child is abstracted to whether the
  playout visits it or fails. Shared children, reached by other paths of the graph
  search, get visits from elsewhere. `MCSearchNode` gives it sizes.
* `SearchNode_proofs` has its theorems, in four parts: the invariant and the types,
  the list of children, the statistics, and the refinement of `ChildList`.

* `SearchTree` is the search as its owner sees it: the graph of nodes with its
  table in shards, the calls between searches (`clearSearch`, `makeMove`, a new
  number of threads), and a search as its tasks one after the other: the filter of
  the root's children, the marking walk, the sweep, the recomputation, the
  playouts. `agenda` holds the tasks that are still to come. A task is run by the
  owner (thread 0) and by workers, each with a queue; a walk's stack of frames,
  the lock of a node and the load of its age are steps. `leadsTo` says which
  positions lead to which, cycles included.
* `SearchTree_proofs` has its theorems: the pool of threads, the tree, and the queue.

The evaluator's cache:

* `NNCache` is `evaluate` around the batch, which is one step here because
  `NNEvaluator` shows that it answers: the lookup, the answer of the server into a
  new output or one to be upgraded, post-processing, the insertion, and the
  exceptions that leave `evaluate` on the way. Outputs are
  objects of a heap that the table and clients share; `DeleteUnused` is the count
  of `shared_ptr`. It uses the boards of `CoffeeBoard`, since what a cached policy
  is worth depends on which moves are legal. `CoffeeBoard_proofs` has its theorems.

Bots and their commands:

* `AsyncBot` is any number of bots, each a user, a search thread and a callback
  thread. A critical section of `controlMutex` is one step; so are the stores of
  `shouldStopNow`, the begin and the end of the search, and a callback.
* `AnalysisEngine` extends it with the analysis command: requests with their status
  word, the priority queue, one analysis thread for each bot that makes the bot's
  calls, the lines written, and the main thread that terminates requests and quits.
* `GenBook` is the command that builds an opening book, with a search for each game
  thread instead of a bot: a main thread that repeats iterations, saves, and
  recomputes when its threads have been joined, and the threads, whose critical
  sections of `bookMutex` are steps, as are the searches between them. Positions are
  the nodes of a given graph, the visits of a search one of four classes, and of a
  node's values there are its visits and the moves the search avoided. `alone` is a
  history variable: no two threads have expanded nodes at the same time.
* `BotCommands` is the main program with any of them: `analysis`, `gtp` as a user that
  makes any call, or `genbook`. One state space holds the first two, so the properties
  of the bot are checked under all that a user may do and under what the engine does.
  `BotCommands_proofs` has the theorems about bots, requests and the book.

Self-play:

* `SelfplayManager` is the manager without a `Next` of its own: its actions, for any
  set of managers, with a writer for each model. `leaving` holds models that were
  taken out and whose memory is given back while the mutex is still held.
* `Selfplay` composes it with the command: game threads that check for a newer net
  in mid-game, the thread that loads nets, the signal and the main thread.
* `Gatekeeper` is the command that tests nets: the main thread, the game threads of a
  match and its write loop. Results are points in halves of a game, chosen when a
  game is tallied.
* `TrainingCommands` is the main program with either of the two, in one state space;
  it extends `Selfplay`, instantiates `Gatekeeper` and names the properties of both.
  `TrainingCommands_proofs` has the theorems about both.
* `Contribute` composes two managers (self-play and rating), the task queue and
  `WaitableFlag` with the other command: task loops that ask the server for a task,
  download, load, acquire and push, game threads that play, upload and release, the
  control loop of the user, and the shutdown. `Contribute_proofs` has its theorem.

Folds:

* `FoldFacts` has lemmas about the sums and filtered sequences of the community
  modules that the proofs about counts use: what a sum over a finite set is, and how
  it changes with the set and with the summands; and what appending to a sequence
  does to its elements.

The flag:

* `WaitableFlag` (with `MCWaitableFlag`) is the flag with the read before the
  lock as a step of its own.

Conditions on variables that a model waits for without a wait set (a pop of the
task queue in `Contribute`, the queues in `SelfplayManager` and `SearchTree`) stand
on `ThreadSafeQueue`, where the wakeups are checked and proved.

## Runs

Passing runs.

* `boards`: a 3x2 board, three in a row, at most five stones, one `clear`. Every
  line shape occurs (rows, columns cut short by the wall, both diagonals), walls
  are met on all four sides, games are won in full rows, are resigned, go on
  without a legal move, and the ring of four boards wraps. Longer boards add
  lengths of walks, not cases. Or the cache, with two clients, the positions after
  one move in two directions and after a resignation, a table of one entry, two
  evaluations the net may give. All positions share the entry, so each lookup can
  find another's output, one that lacks the owner map, or none; a third client would
  evict once more. One kind of request may skip the cache (`MaySkip`), as the search
  does for the further symmetries of its root; to let all of them skip it triples the
  states and adds no case. An evaluator without a cache (`tableSize` 0) is covered by
  the theorems and not by the run.
* `queue`: two producers, two consumers, limit two, three pushes each, any mix of
  waitPush and forcePush, close and setReadOnly at any time, spurious wakeups.
  Two of each are needed for a wakeup to reach the wrong thread or too few; six
  elements let the vector be compacted at every length it takes here. `CallsGoOn`
  says that blocked calls return, that what is accepted is delivered if somebody
  pops, and that a waiting push returns.
* `nn_eval`: three clients, two server threads, arrays of two rows, the ring of
  four that the constructor makes for these sizes, and the main thread killing and
  spawning the servers again without bound. Arrays are taken full and partial, the
  indices wrap, both servers can serve, sleep or look at once, and a client
  can be in `waitForNextNNEvalIfAny` with releases outstanding. `CallsGoOn` says
  that an evaluation returns, that a waiting thread is woken, and that spawning and
  killing come to their ends.
* `search_node`: two threads, arrays of one, two and three slots, three moves, four
  playouts, one visit of a shared child from elsewhere. The node is evaluated by
  both threads at once, grows twice while the other thread selects, inserts or has
  chosen a slot, and is updated by one thread for both, which reads some children
  before and some after the other thread's visits. A slot can be contended by
  the two only; a third thread adds another loser, not another case. After four
  playouts no thread begins another, so the run stops there.
* `search_tree`: three nodes and the root, with two nodes that lead to each other and
  both to a third, two threads, three playouts of a search, two searches. Two threads meet in
  a node, on a cycle and at the end of a walk; nodes become unreachable by a move
  and by the filter of the root's children, are swept in shards by different
  threads, and grow again. Deadlock is checked. The marking walk decides by the
  exchange of the age which thread does a node, the other walk by the age under the
  mutex of the node; both are checked against what is reachable.
* `bots`: one bot and three requests, of which the second is the most urgent one and
  reports while its search runs. A request can be terminated in the queue, between
  its pop and its search, in its search, after it, and when the next one is in the
  same bot. Two bots share nothing but the queue, which one bot pops in every order.
  Or `genbook` with two threads: three iterations, the last of which expands two nodes
  at once, over five positions, one of them reached in two ways, with searches recorded
  to the second depth; a signal at any step, and a second run of one iteration after
  the first one ended or was killed. A node is then new, a transposition, a leaf or
  one with moves when either thread comes to it. `SavedBookIsSearched` holds in all
  interleavings; `BookIsConsistent` needs its `alone`, since without it this
  instance violates it (see below).
* `training`: the selfplay command with two game threads, two nets, two games and a
  queue of one game. A net is replaced while one thread plays with it and another has
  it in hand to push a game; the writers end in any order with the destructor. Or the
  gatekeeper with two game threads, two nets that may arrive and matches of three
  games: a match can be decided by its second game while the third is played, end in
  full, or be cut short by a signal with a game in progress or in the queue; the older
  of two nets is tested or rejected unseen.
* `contribute`: two task loops, one game thread, a net in two managers, two tasks of
  up to two games, one rating match. A loop unloads what another has looked up,
  waits for the lock after a download, or finds the queue full; the stop comes
  at any step. With one net, black and white of a task are always the same; rating
  tasks of two nets, and the swap of their colours, are covered by the theorem,
  which is for any nets, and not by the run.

The type invariants of the queue and of the node are not run, as they are proved for
all values of the constants. Combined properties: `BoardConsistent`, `RowsAreHeldOnce`, `PipelineIsConsistent`,
`NetsAreCountedAndLoaded`, `PoolIsSound`, `RequestsAreSafe` and
`ResultIsWhatWasAsked` include their module's type invariant. `EveryCallEnds` is `CallsReturn` of `AsyncBot`
with `RequestsEnd` of `AnalysisEngine` and `BookIsSaved` of `GenBook`; `NetsInUseAreAlive` and `PipelineGoesOn` join
what `Selfplay` and `Gatekeeper` say.

Runs that end in a violation, each a disagreement between the code and what its
own documentation or assertions say: `copied_board`, `recent_boards`, `waitable_flag`,
`state_hash`.
The entry under `findings` quotes the line and says what happens. What
`state_hash` shows concerns the graph search too: `allocateOrFindNode` finds a node
by a hash of the same parts. `recent_boards` needs one `makeBoardMove`. The search
records its own moves with `makeBoardMoveAssumeLegal`, after which index 1 is one
move ago (`AssumedLegalMovesAreRecent`, in `boards`); replays record with the other.
`contribute` is where the flag of `waitable_flag` is
used; `CommandEnds` holds there only with its exception, a worker that sleeps on the
flag after it was set for good.

Other disagreements met on the way, which no run checks:

* `setStone` (board.cpp:264) does not update `pos_hash`. Positions are set up with it by
  the record of a game (sgf.cpp:1430), by the analysis command (analysis.cpp:1101) and by
  `getSymBoard` (nninputs.cpp:448); `checkConsistency` throws on such a board, and the
  hash of the cache takes it for the empty one.
* A game can go on without a legal move for the player to move, which `evaluate`
  asserts cannot be (nneval.cpp:730).
* `close` of a queue clears the vector and not `headIdx` (threadsafequeue.h:181), and
  `size()` subtracts one from the other; no caller asks for the size of a closed
  queue.
* A thread that enters `waitForNextNNEvalIfAny` can take the release of one that waits
  there already (nneval.cpp:574) and return although no evaluation finished.
* `GraphHash::getGraphHashFromScratch` replays `moveHistory`, where moves recorded with
  `makeBoardMoveAssumeLegal` are not.
* `PriorityLock::lockLowPriority` (prioritymutex.h:91) locks with high priority; as its
  one user never locks otherwise, the mutex is a plain one there.
* A search that throws leaves `isRunning` set, and whoever waits for its stop waits for
  ever (asyncbot.cpp:470).
* The detached write loop of the gatekeeper logs once more after it has reported that
  it is done (gatekeeper.cpp:359), when `main` may already have destroyed its logger.
* In `expandNode`, the push of the expanded node (genbook.cpp:1215) is outside of
  `bookMutex`, where other threads push too: beyond being a data race, it can lose a
  node that changed, which is then not recomputed, and the book is saved so.
* A search of `genbook` avoids the moves in the book when it begins; if another thread
  adds one before its values are written, they include a move of the book, though
  book.h:112 says "excluding all current book nodes". It takes six positions or more.
* A child that was just given the values of a deep search is still searched again with
  fewer visits (genbook.cpp:1032), because the test reads recursive visits that are not
  computed yet, although the comment says "if as a leaf it doesn't have enough and our
  search also doesn't have enough".
* A leaf that is already in the book and gets new values (genbook.cpp:985, or by its
  new search) is not among the nodes to recompute unless a move was added to it, so its
  recursive values stay what they were until the book is loaded again, although the
  comment at genbook.cpp:1050 says "recomputed at the end if it changed".
* `gatekeeper.cpp` scores a game that reached the limit of moves with
  `endAndScoreGameNow`, and reads `isNoResult`, neither of which a history has here;
  the model lets every game have any result.

## Fairness

Every thread has weak fairness of its own: one that is not waiting and has a step
to take takes one. The operating system schedules runnable threads, and mutexes
are held for bounded stretches. Nothing forces a client to make another call, the
driver to move, the main thread to kill the servers, a user to command anything, a
signal to come, or a wakeup to be spurious.

For the queue, a consumer is a loop of `waitPop` until it fails, as in the writers
that use it, so its next call is fair too; a producer need not push. In the search
a playout that has begun goes on: no thread waits for a lock held across steps, and
one that finds the node growing yields and looks again, so it is not kept there once
the growing thread, whose steps are fair as well, has published the new array.

A search may go on for ever until it is told to stop, so `SearchEnds` is fair only
while `shouldStopNow` is set: its threads look at it before every playout. Calls of
the user are not fair, and a setter returns. In `Selfplay` a game ends (`EndsGame`)
with strong fairness, because it may look for a new net again and again before it
does and is not continuously able to end; the length of a game is bounded by the
limit on its moves. A game of `Gatekeeper` ends by the same limit, and
the write loop and the main thread are fair; nets and signals need not come.
The main thread of `GenBook` and each game thread are fair; its searches end by their
limit on visits, and signals, kills and new runs need not come.
Downloads, uploads and games of `Contribute` end, with or
without success. In `SearchTree` the owner's work and each worker are fair, the
owner's next call is not.

## Proofs

Each theorem holds for every value of the constants that the assumptions of its
module allow: any numbers of threads, moves, requests, nets or games, any sizes of
boards, rings, batches and arrays. No safety property below is inductive alone. The
argument is the same everywhere: an invariant that adds what each thread relies on
at its step, one lemma for each action, and under it one step for each conjunct
the action can disturb.

**The game** (`CoffeeBoard_proofs`). `BoardConsistent` is inductive: a legal move is
on an empty cell, so its word is not yet in the hash and folding it in adds exactly
the new stone. That the cells lie inside of the padded array is a lemma of its own
(`SpotsAreInside`). `AssumedLegalMovesAreRecent` is inductive with the end of
`past` (`Recent`); the lemmas `LooksPast` and `LooksAtPushed` do the arithmetic of
the index, for one push and for two. `LegalIsByTheRules` and `EndIsByTheRules` compare the walks of the
code with the rules told in coordinates, for every size of board. A walk stops at
the least number of steps where something is met (`LeastOf` shows there is
one), and the cell it stands on is k steps along a direction of coordinates as
long as it has not left the frame (`SpotAlong`, `WalkIsLine`): the left and the right
wall are the same column of the array, so that is where a walk could go astray. That
some other cell of the line is empty after each move (`LinesAgree`) must be part of
the invariant, because a walk that met no empty cell would be decided by the wall.

**The queue** (`SearchTree_proofs`, its last part): types, `NoLostWakeup`, `HoldsTheRest`, and
that the queue implements `FifoChannel`. The invariant is inductive as the
conjunction of the three: that no wakeup is lost needs that the size is what was
pushed and not popped; that pop delivers the right element needs that at most half
of the vector is popped, because compaction shifts indices. Two lemmas say what
a push and a pop do to the vector; one step per action of `Next` follows.

**The evaluator** (`NNEvaluator_proofs`), for any finite sets of clients and server
threads (at least one, as setup.cpp configures) and any batch size, with a ring as long
as the constructor makes it. `IInv` says which
phase the main thread is in and what that says of the others; that the counters count
(`StartsAreCounted`, `WaitersAreCounted`); that a queue that is not empty has a
thread that looks after it (`RowsAreAttendedTo`); and which cells of which arrays
hold a client (`CellsInUse`, `CellsDiffer`, `CellsAwait`). The ring is the hard part:
`Distance` is how far an index is past the oldest, and as a client waits in one cell
only, there are never more rows queued than clients, which is less than the ring
holds (`QueueFits`), so no client laps the oldest array. The refinement maps the
queue of `BatchService` to the cells from the oldest to the current one, in order
(`CellOf`); a client appends to it, a server thread takes its front, whether the
array is full or not.

**The cache** (`CoffeeBoard_proofs`): what a client returns is of the position it asked
for, and what is shared is never written. The invariant says who may write an output:
from the answer of the server to the recording of the hash it belongs to one
client, to which alone it is known (`OwnsAlone`); everything else that anybody points
to suits each position with its hash (`TableIsFinal`, `HashTells`). The heap has an
object for each pointer there is, so one is free whenever a client makes a new
output (`FreeObject`).

**The search node** (`SearchNode_proofs`): types, `PublishedIsReady`, `ChildrenAgree`,
`VirtualLossesBalance`, `StatsAreUpToDate`, and that the node implements
`ChildList`, for any finite sets of threads and moves and any growing sizes of the
three arrays, the last with room for every move. The invariant `IInv` adds `Tree`,
what each thread relies on at its step: a thread that evaluates, that it is the only
one and the state is what it found; one that selects, that the slots it read still
hold what it read; one that has chosen a new child, that the slots before its choice
are taken, by other moves; one that copies, that the state is one that nobody else
may leave and that what it has copied still has the same moves. `OthersStay` shows
that a thread goes on relying on this while others step, because the node only
grows; so each action needs only what it does itself, through `TreeStep`. That a
choice fits the largest array is a pigeonhole argument over the moves seen
(`ChoiceIsSound`). A thread that stores a child finds its slot free, so the
array is not full and no later one exists: it is the one in use, and the child is
appended to the list (`StoreKeepsList`, `ListGrows`).

The statistics need a second invariant, `Counted`. In the middle of an update the
visits and the weights lag behind the edges, by the threads that have counted their
edge and not announced it and by what `dirtyCounter` still owes (`Pending`); what
they lack of the edges of the array in use is no more than what is pending and what
was added without an update (`Covered`). Nothing is pending when no thread is in the
node, which leaves `StatsAreUpToDate`. It is an inequality because visits that are
added to a slot after it was copied are not in the new array (`SumsPublished`); what
was copied is never more than what the slot has (`EdgeOK`). While a thread reads, a
slot it has not come to counts as it is (`ToRead`), so that when it begins nothing is
missed (`NothingMissed`), and reading a slot or coming to the end loses nothing
(`WeightsRead`). A visit that is added to a slot behind it, or in a larger array than
the one it reads, is announced by its thread afterwards, and `UndoDirty` subtracts
only what the reader had taken before it began (`Taken`); so that visit stays pending
and the children are read again.

**The pool of search threads** (`SearchTree_proofs`), for any number of threads,
nodes, shards and playouts. The pool knows its workers by a counter alone. `PoolOK`
says that it counts the workers that have not checked in (`Owing`: not pushed to yet,
with the task in their queue, or in their hands), which needs that a worker gets one
task at a time and only the task at hand (`WorkerOK`, `OwnerOK`). So when the counter
is zero nobody has the task any more, and the owner may free it. `LimitOK` says by
how much the threads exceed the limit of playouts: by less than the number of those
whose own count of what all have done has reached it (`AtLimit`), as each of these
began no further one.

**The tree between searches** (`SearchTree_proofs`). `TreeOK` ties the tree to the
`agenda`: what the owner is still to do tells whether nodes may point out of the
table, whether the marks are those of this search, and whether the nodes may go; each
step of a plan leaves what the next one needs (`Planned`, `PlansAre`). The walks are
the hard part, because a thread passes over a child that another thread has on its
path, and leaves its own node before that child is done. `WalkOK` therefore speaks of
all paths at once: every child of a finished node is finished or on some path; what a
walk has left behind at a node of its path is finished or on that path; and each node
of a path leads to those above it. When all threads are through there are no paths,
the root is finished, and so the finished nodes are closed under children, hence all
that is reachable is finished (`ReachIsLeast`: what is reachable is the least closed
set with the root, which no induction over paths is needed for). That a child of a
visited node that is not finished leads back to it is a cycle of the graph through the
path. `SweepOK` adds, for each thread that is through with its part, that its part
holds only what may stay; the parts of all threads cover the table (`Part`).

**Bots and requests** (`BotCommands_proofs`). Of one bot, `Sound` says what `isRunning`
tells of its search thread (`Round`), what that has left of the callback thread at
each of its steps (`Loop`), that a user who was told of the stop is the only one who
can start another search (`HasStopped`), and whose move is owed (`Owes`).
`UserHasSearchAlone` needs the first three: the user knows only `isRunning`, which is
cleared after the callback thread was joined. The analysis command adds
`EngineSound`: a request is with main, in the queue or with one thread, its bot runs
only while that thread waits for the result (`UserIsThread`, `HasRequest`), the list
of open requests and the one main walks over name only those that were not freed
(`ListsAgree`, `WalkIsOpen`), and whoever changed its status word from the common
value answers it (`RequestsAgree`, `ThreadAnswers`). Stop orders go to bots and not to
requests, so that they meet only the right one (`StopsForReason`) is a fact about all
of these.

**The opening book** (`BotCommands_proofs`), for any graph of positions, any number of
threads and iterations: a saved book holds no node that was not searched, and its
values agree with its moves if no two threads expanded at the same time (without that
condition the second is false, see the `bots` run).
`BookSound` says what each thread knows of its node at its step (`JobFits`), that a
node whose values are missing, or a leaf with too few visits, has a thread that will
write them (`ValuesCome`, `VisitsCome`), and that the file is searched. `AloneOK` adds,
while `alone` holds, that one thread at most is at work, that what it read is still so
(`AloneFits`), and that a node whose avoided moves have changed, or whose recursive
values are not right (`Made`), is still to be written or recomputed (`ChangeDue`). An
action shows that each duty is met or handed on by the thread that steps
(`Discharges`); a thread at rest has none (`RestingIsIdle`), and a save finds all at rest.
That a recomputation makes the values right (`RecomputedIsMade`) needs its two
recursive functions to exist, which they do because each move leads to a position
with a later number (`RecursionFromAbove`).

**Self-play and the gatekeeper** (`TrainingCommands_proofs`). Of the manager,
`ManagerInv` says that each loaded net that is not on its way out has a writer that
reads its queue (`WritersFollow`), that the count of a net is that of its holders
(`HoldersCounted`), and that rows are counted once (`RowsInTotal`, a sum over nets);
`GameInv`, that a finished game is with its thread, in a queue that somebody reads,
or written. The lemmas about the manager's operations speak of its state only,
those about threads cite them. A verdict of the gatekeeper is right because the
leader's lead exceeds what is left (`LeadIsKept`: each result takes no more from the
lead than from the rest), or because all games were tallied. The second needs a
count: as long as nobody ordered a stop, the games started are those tallied, in the
queue, or in the hands of a thread (`MatchGamesAreKept`), a thread leaves only when
all were started (`LeavesForReason`), and main looks at the order to stop after the
threads have left. That the net under test is one of those that wait is the existence
of a largest element (`LatestIsOne`).

**Contribute** (`Contribute_proofs`), for any finite sets of task loops and game
threads, any nets, tasks and rating games. Between finding a net loaded and acquiring
it a task loop does nothing that would keep it: it has only `taskLoopMutex`. `LoopOK`
says that a loop holds it exactly where it uses the managers, and that a net it has found
or loaded stays; only the holder cleans up, and a clean-up unloads no net that is
counted, so a net once found can go only by the loop's own clean-up, which it does before
(`LoopGoesTo`, `WorkerKeeps`). Downloads drop the mutex, and nothing is claimed of the
nets before. From the acquisition on a net is counted: `Counted` says that
the count of each net is how often it is in a hand or in the queue (`References`, a sum
over the workers). A step of one worker changes that sum by what this worker and the
queue refer to before and after (`ReferencesMove`, by the lemmas on folds), so each action
has to balance that and its own acquire or release (`Balanced`); the counter of
rating games moves in the same way (`RatingKeeps`). `Phases` and `GameOK` order the
shutdown: loops exit before games, a game thread exits when the queue takes nothing more
and is empty, managers are destroyed when all have exited, and then nothing is counted
(`NothingIsCounted`). The manager alone is the subject of the lemmas on
`ManagersOK`.

**Folds** (`FoldFacts`). The sums of the community modules are recursive functions, and
what a recursive function computes would be shown by an induction that takes an
operator. Instead, the set of subsets where the claim fails is a constant, and if it
is not empty it has a least member, because the subsets of a finite set are
well-founded (`LeastSubset`); the claim for that member follows from the claims for
smaller ones. In the same way `RecursionFromAbove` defines a function on numbers from
its values at greater ones.

Assumptions on constants beyond types: `EvaluatorAssumption` (finite sets, a server
thread at least), `CacheAssumption` (a finite set of clients, boards of games),
`NodeAssumption` (growing sizes, room for every move), `StatusAssumption` (a status
word that names no thread is not a bot), `SelfplayAssumption` and `GatingAssumption`
(finite sets, at least one game thread, which the programs check, and one net),
`GenBookAssumption` (positions numbered so that moves lead to later ones: a game only
grows; positive numbers of iterations and visits), `ContributeAssumption` (finite sets of
task loops and game threads, at least one of these: contribute.cpp:536 asks for at least one
game at a time).

Only model-checked: liveness under fairness, which the prover cannot express, and
`WaitableFlag`, whose run shows what its wait misses. Every invariant and every action
property of the other runs is a theorem, with its refinements.

## Plan

1. The composition of `SearchNode` with `SearchTree`: nodes of several levels with their
   arrays while the tree is walked.

## Not modelled

The map covers the parts of `src/cpp` where threads, locks, counts or legality decide
what happens. Most of the source is something else: the back ends of the neural
net, their kernels and tuner, the values and costs of the opening book, the results and values of the search
(floating point), feature extraction, training data, sgf files, configuration,
logging, the text protocols, one-off programs in `command/misc.cpp` and
`command/sandbox.cpp`, and the tests. It is numeric or textual code without
interleavings, or talks to devices and servers outside the repository; a state
machine of it would only restate it. Floating-point statistics of the search are
abstracted to the choices they decide. The Python training code is a separate
program.

Inside the modelled commands: the thread of `contribute` that downloads nets ahead of
their use (it shares only files with the others), the reports of performance, the
retries of a single HTTP request, and `match`, which runs the game loop of
`gatekeeper` over nets that do not change and gives no verdict. Of `genbook`, the
tracing of another book or of an sgf file and the export to html, and the errors it
only logs.

At this commit `game/board.cpp` (lines 214 and 220) and `game/boardhistory.cpp`
(lines 181 and 192) redefine names and do not compile as they stand; the
models take the definitions that the headers declare and the callers use.
