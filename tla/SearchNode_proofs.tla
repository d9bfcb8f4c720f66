------------------------- MODULE SearchNode_proofs --------------------------
(***************************************************************************)
(* For any number of threads, any moves and any sizes of the three arrays: *)
(* what a state promises is there, the children fill the arrays as one list *)
(* of distinct moves, virtual losses balance, one thread at a time         *)
(* recomputes the statistics, which are up to date when no thread is in the *)
(* node, and the node with its states, arrays and copies implements        *)
(* ChildList.                                                              *)
(*                                                                         *)
(* First comes what the threads at a node rely on at each step (the        *)
(* inductive invariant IInv), what a step leaves of it, and that every     *)
(* step keeps the types: no counter goes below zero.                       *)
(***************************************************************************)
EXTENDS SearchNode, FoldFacts, SequenceTheorems

\* The move in slot i of array k.
Mv(k, i) == children[k][i].move

\* Where a thread evaluates the node, brings a new child into it, and goes through an edge.
EvalSteps == {"addLeafValue", "claim", "initializeChildren", "expand0"}
NewSteps == {"grow", "copy", "store"}
EdgeSteps == {"reuse", "visitAgain", "descend", "reload", "count"}

(* What the state says of the arrays and of the output. *)
NodeOK ==
    /\ state >= 1 => nnOutput
    /\ state >= 2 => visits >= 1
    /\ state < 2 => \A i \in 1..Len(children[1]) : Mv(1, i) = NULL
    /\ state >= 2 => Len(children[1]) = Sizes[1]
    /\ Len(children[2]) = IF state >= 4 THEN Sizes[2] ELSE 0
    /\ Len(children[3]) = IF state >= 6 THEN Sizes[3] ELSE 0

(* The children fill each array from its first slot on, with distinct moves, *)
(* and a later array begins with those of a full earlier one.               *)
Packed(k) == \E n \in 0..Len(children[k]) :
                 \A i \in 1..Len(children[k]) : Mv(k, i) # NULL <=> i <= n
Distinct(k) == \A i, j \in 1..Len(children[k]) :
                   Mv(k, i) # NULL /\ Mv(k, i) = Mv(k, j) => i = j
Prefix(k) == Len(children[k + 1]) > 0 =>
                 /\ Len(children[k]) = Sizes[k]
                 /\ \A i \in 1..Sizes[k] : Mv(k, i) # NULL /\ Mv(k, i) = Mv(k + 1, i)
ListOK == /\ \A k \in 1..3 : Packed(k) /\ Distinct(k)
          /\ Prefix(1) /\ Prefix(2)

(* What a thread relies on at its step: a thread that evaluates, on the     *)
(* state it found; one that selects, on the slots it read; one that has     *)
(* chosen, on the slots before its choice; one that copies, on being the    *)
(* one that grows the node.                                                *)
Cap(t) == Capacity(nodeState[t])
Arr(t) == ArrayOf(nodeState[t])
EvalOK(t) ==
    /\ pc[t] \in EvalSteps => nnOutput
    /\ pc[t] \in {"addLeafValue", "claim"} => state = 0
    /\ pc[t] \in {"initializeChildren", "expand0"} => state = 1
    /\ pc[t] \in EvalSteps \ {"addLeafValue"} => visits >= 1
    /\ pc[t] = "expand0" => Len(children[1]) = Sizes[1]
ViewOK(t) ==
    /\ nodeState[t] <= state
    /\ pc[t] \notin EvalSteps \cup {"idle", "initNodeNNOutput"} => nodeState[t] >= 2
    /\ pc[t] = "select" => /\ Len(seen[t]) <= Cap(t)
                           /\ \A i \in 1..Len(seen[t]) : Mv(Arr(t), i) = seen[t][i]
    /\ pc[t] \in NewSteps =>
          /\ best[t].idx \in 1..(Cap(t) + 1) /\ best[t].move \in Moves
          /\ \A i \in 1..(best[t].idx - 1) : Mv(Arr(t), i) \notin {NULL, best[t].move}
    /\ pc[t] = "store" => best[t].idx <= Cap(t)
    /\ pc[t] \in EdgeSteps => best[t].idx \in 1..Cap(t)
    /\ pc[t] \in EdgeSteps \cup OnTheWay => best[t].move \in Moves
CopyOK(t) ==
    /\ pc[t] = "copy" => /\ state = nodeState[t] /\ state \in {3, 5}
                         /\ best[t].idx = Cap(t) + 1
                         /\ Len(copied[t]) <= Cap(t)
                         /\ \A i \in 1..Len(copied[t]) : copied[t][i].move = Mv(Arr(t), i)
    /\ pc[t] # "copy" => copied[t] = <<>>
ThreadOK(t) == EvalOK(t) /\ ViewOK(t) /\ CopyOK(t)

(* One thread evaluates the node, and one grows it. *)
Alone == \A t, u \in Threads :
    (pc[t] \in EvalSteps /\ pc[u] \in EvalSteps) \/ (pc[t] = "copy" /\ pc[u] = "copy") => t = u

(* One thread recomputes if the counter says so, for no more than it says. *)
DirtyOK == \/ dirtyCounter = 0 /\ Recomputing = {}
           \/ \E t \in Threads : /\ Recomputing = {t}
                                 /\ numVisitsCompleted[t] \in 1..dirtyCounter

\* What is known of the node and of each thread.
Tree == NodeOK /\ ListOK /\ Alone /\ \A t \in Threads : ThreadOK(t)
\* The inductive invariant.
IInv == TypeOK /\ Tree /\ VirtualLossesBalance /\ DirtyOK
-----------------------------------------------------------------------------
(* The sizes of the arrays, and which array a state names. *)
LEMMA SizesAreSizes ==
    /\ \A k \in 1..3 : Sizes[k] \in Nat \ {0}
    /\ \A k \in 1..2 : Sizes[k] < Sizes[k + 1]
    /\ Sizes[1] < Sizes[2] /\ Sizes[2] < Sizes[3] /\ Sizes[3] = CHILDREN2SIZE
BY NodeAssumption DEF Sizes

(* Which array a state names. *)
LEMMA ArraysOfStates ==
    /\ \A s \in 0..6 : /\ ArrayOf(s) \in 1..3 /\ Capacity(s) = Sizes[ArrayOf(s)]
                       /\ s < 4 => ArrayOf(s) = 1
                       /\ s \in {4, 5} => ArrayOf(s) = 2
                       /\ s = 6 => ArrayOf(s) = 3
BY DEF ArrayOf, Capacity, STATE_EXPANDED1, STATE_EXPANDED2

(* A later state names the same array or a larger one. *)
LEMMA LaterStates ==
    \A r, s \in 0..6 : r <= s => ArrayOf(r) <= ArrayOf(s) /\ Capacity(r) <= Capacity(s)
BY ArraysOfStates, SizesAreSizes

(* The array a state names is there once the node has come to the state. *)
LEMMA ArrayIsThere ==
    ASSUME TypeOK, NodeOK, NEW s \in 2..6, s <= state
    PROVE  Len(children[ArrayOf(s)]) = Capacity(s) /\ Capacity(s) \in Nat \ {0}
<1>1. state \in 0..6
  BY DEF TypeOK, STATE_UNEVALUATED, STATE_EXPANDED2
<1>2. s \in 0..6 /\ ArrayOf(s) \in 1..3 /\ Capacity(s) = Sizes[ArrayOf(s)]
  BY ArraysOfStates
<1>3. CASE s < 4
  BY <1>1, <1>2, <1>3, ArraysOfStates, SizesAreSizes DEF NodeOK
<1>4. CASE s \in {4, 5}
  BY <1>1, <1>2, <1>4, ArraysOfStates, SizesAreSizes DEF NodeOK
<1>5. CASE s = 6
  BY <1>1, <1>2, <1>5, ArraysOfStates, SizesAreSizes DEF NodeOK
<1>6. QED
  BY <1>3, <1>4, <1>5
-----------------------------------------------------------------------------
(* The types of one thread's variables. *)
LEMMA ThreadTypes ==
    ASSUME TypeOK, NEW t \in Threads
    PROVE  /\ pc[t] \in Steps /\ nodeState[t] \in 0..6
           /\ seen[t] \in Seq(Moves) /\ copied[t] \in Seq(Slots)
           /\ best[t] \in [idx : 0..CHILDREN2SIZE, move : Moves \cup {NULL}]
           /\ best[t].idx \in Nat /\ numVisitsCompleted[t] \in Nat
<1>1. CHILDREN2SIZE \in Nat
  BY NodeAssumption
<1>2. best[t] \in [idx : 0..CHILDREN2SIZE, move : Moves \cup {NULL}]
  BY DEF TypeOK
<1>3. best[t].idx \in Nat
  BY <1>1, <1>2
<1>4. QED
  BY <1>2, <1>3 DEF TypeOK, STATE_UNEVALUATED, STATE_EXPANDED2

(* What a step may do to the node, and what it leaves of a thread. *)
NodeGrows ==
    /\ state' >= state /\ (nnOutput => nnOutput') /\ visits' >= visits
    /\ \A k \in 1..3 : Len(children[k]) > 0 => Len(children'[k]) = Len(children[k])
    /\ \A k \in 1..3 : \A i \in 1..Len(children[k]) :
          Mv(k, i) # NULL => children'[k][i].move = children[k][i].move
\* A step of others leaves u where it was.
Steady(u) == UNCHANGED <<pc[u], nodeState[u], seen[u], best[u], copied[u]>>

(* A thread that does nothing may go on relying on what it relied on, if   *)
(* the node only grows, and nobody but it changes the state while it       *)
(* evaluates or grows the node.                                            *)
LEMMA OthersStay ==
    ASSUME TypeOK, TypeOK', NodeOK, NEW u \in Threads, ThreadOK(u), NodeGrows, Steady(u),
           pc[u] \in EvalSteps \cup {"copy"} => state' = state
    PROVE  ThreadOK(u)'
<1>0. /\ state \in 0..6 /\ state' \in 0..6 /\ nodeState[u] \in 0..6
      /\ visits \in Nat /\ visits' \in Nat
      /\ seen[u] \in Seq(Moves) /\ best[u].idx \in Nat
      /\ state' >= state /\ visits' >= visits
  BY ThreadTypes DEF TypeOK, NodeGrows, STATE_UNEVALUATED, STATE_EXPANDED2
<1>1. EvalOK(u)'
  <2>1. pc[u] = "expand0" => Len(children[1]) > 0 /\ Len(children'[1]) = Len(children[1])
    BY SizesAreSizes DEF ThreadOK, EvalOK, NodeGrows
  <2>2. /\ pc'[u] = pc[u] /\ (nnOutput => nnOutput')
        /\ pc[u] \in EvalSteps => state' = state
    BY DEF Steady, NodeGrows
  <2>3. QED
    BY <1>0, <2>1, <2>2 DEF ThreadOK, EvalOK, EvalSteps
<1>2. ASSUME nodeState[u] >= 2
      PROVE  /\ Arr(u) \in 1..3 /\ Cap(u) \in Nat /\ Len(children[Arr(u)]) = Cap(u)
             /\ \A i \in 1..Cap(u) : Mv(Arr(u), i) # NULL =>
                    Mv(Arr(u), i)' = Mv(Arr(u), i)
  <2>1. nodeState[u] \in 2..6 /\ nodeState[u] <= state
    BY <1>0, <1>2 DEF ThreadOK, ViewOK
  <2>2. /\ Arr(u) \in 1..3 /\ Len(children[Arr(u)]) = Cap(u) /\ Cap(u) \in Nat
    BY <1>0, <2>1, ArrayIsThere, ArraysOfStates DEF Arr, Cap
  <2>3. Arr(u)' = Arr(u)
    BY DEF Steady, Arr
  <2>4. QED
    BY <2>2, <2>3 DEF NodeGrows, Mv
<1>3. ViewOK(u)'
  <2>0. /\ pc'[u] = pc[u] /\ nodeState'[u] = nodeState[u] /\ seen'[u] = seen[u]
        /\ best'[u] = best[u] /\ Cap(u)' = Cap(u) /\ Arr(u)' = Arr(u)
    BY DEF Steady, Cap, Arr
  <2>1. ViewOK(u)
    BY DEF ThreadOK
  <2>2. ASSUME pc[u] = "select", NEW i \in 1..Len(seen[u])
        PROVE  Mv(Arr(u), i)' = seen[u][i]
    <3>1. nodeState[u] >= 2 /\ Len(seen[u]) <= Cap(u) /\ Mv(Arr(u), i) = seen[u][i]
      BY <2>1, <2>2 DEF ViewOK, EvalSteps
    <3>2. seen[u][i] # NULL
      BY <1>0, <2>2, NodeAssumption, ElementOfSeq
    <3>3. i \in 1..Cap(u)
      BY <1>0, <1>2, <3>1, <2>2, LenProperties
    <3>4. QED
      BY <1>2, <3>1, <3>2, <3>3
  <2>3. ASSUME pc[u] \in NewSteps, NEW i \in 1..(best[u].idx - 1)
        PROVE  Mv(Arr(u), i)' \notin {NULL, best[u].move}
    <3>1. /\ nodeState[u] >= 2 /\ best[u].idx \in 1..(Cap(u) + 1)
          /\ Mv(Arr(u), i) \notin {NULL, best[u].move}
      BY <2>1, <2>3 DEF ViewOK, EvalSteps, NewSteps
    <3>2. i \in 1..Cap(u)
      BY <1>0, <1>2, <3>1, <2>3
    <3>3. QED
      BY <1>2, <3>1, <3>2
  <2>4. nodeState'[u] <= state'
    BY <1>0, <2>0, <2>1 DEF ViewOK
  <2>5. QED
    BY <2>0, <2>1, <2>2, <2>3, <2>4 DEF ViewOK
<1>4. CopyOK(u)'
  <2>0. /\ pc'[u] = pc[u] /\ nodeState'[u] = nodeState[u] /\ copied'[u] = copied[u]
        /\ best'[u] = best[u] /\ Cap(u)' = Cap(u) /\ Arr(u)' = Arr(u)
    BY DEF Steady, Cap, Arr
  <2>1. ViewOK(u) /\ CopyOK(u) /\ (pc[u] = "copy" => state' = state)
    BY DEF ThreadOK
  <2>2. ASSUME pc[u] = "copy", NEW i \in 1..Len(copied[u])
        PROVE  copied[u][i].move = Mv(Arr(u), i)'
    <3>1. /\ nodeState[u] >= 2 /\ best[u].idx = Cap(u) + 1 /\ Len(copied[u]) <= Cap(u)
          /\ copied[u][i].move = Mv(Arr(u), i)
          /\ \A j \in 1..(best[u].idx - 1) : Mv(Arr(u), j) # NULL
      BY <2>1, <2>2 DEF ViewOK, CopyOK, EvalSteps, NewSteps
    <3>2. copied[u] \in Seq(Slots) /\ Len(copied[u]) \in Nat
      BY LenProperties DEF TypeOK
    <3>3. i \in 1..Cap(u) /\ i \in 1..(best[u].idx - 1)
      BY <1>0, <1>2, <2>2, <3>1, <3>2
    <3>4. QED
      BY <1>2, <3>1, <3>3
  <2>3. QED
    BY <2>0, <2>1, <2>2 DEF CopyOK
<1>5. QED
  BY <1>1, <1>3, <1>4 DEF ThreadOK

(* A step of t keeps the tree in order if the node only grows, t has what  *)
(* its next step relies on, and t does not become a second thread that     *)
(* evaluates or grows the node.                                           *)
Only(t) == \A u \in Threads \ {t} : Steady(u)
MayChangeState(t) == \/ pc[t] \in EvalSteps \cup {"copy"}
                     \/ pc[t] = "grow" /\ state \in {2, 4}
(* ... so such a step keeps the tree in order. *)
LEMMA TreeStep ==
    ASSUME TypeOK, TypeOK', Tree, NEW t \in Threads, Only(t), NodeGrows,
           state' = state \/ MayChangeState(t),
           pc'[t] \in EvalSteps => pc[t] \in EvalSteps \/ ~nnOutput,
           pc'[t] = "copy" => pc[t] = "copy" \/ state \notin {3, 5},
           NodeOK', ListOK', ThreadOK(t)'
    PROVE  Tree'
<1>1. ASSUME NEW u \in Threads, u # t
      PROVE  ThreadOK(u)' /\ pc'[u] = pc[u]
    <2>1. ThreadOK(u) /\ ThreadOK(t) /\ Steady(u) /\ NodeOK
      BY <1>1 DEF Tree, Only
    <2>2. ASSUME pc[u] \in EvalSteps, state' # state
          PROVE  FALSE
      <3>1. state \in {0, 1}
        BY <2>1, <2>2 DEF ThreadOK, EvalOK, EvalSteps
      <3>2. pc[t] \notin EvalSteps
        BY <1>1, <2>2 DEF Tree, Alone
      <3>3. pc[t] = "copy" => state \in {3, 5}
        BY <2>1 DEF ThreadOK, CopyOK
      <3>4. QED
        BY <2>2, <3>1, <3>2, <3>3 DEF MayChangeState
    <2>3. ASSUME pc[u] = "copy", state' # state
          PROVE  FALSE
      <3>1. state \in {3, 5}
        BY <2>1, <2>3 DEF ThreadOK, CopyOK
      <3>2. pc[t] \in EvalSteps => state \in {0, 1}
        BY <2>1 DEF ThreadOK, EvalOK, EvalSteps
      <3>3. pc[t] # "copy"
        BY <1>1, <2>3 DEF Tree, Alone
      <3>4. QED
        BY <2>3, <3>1, <3>2, <3>3 DEF MayChangeState
    <2>4. pc[u] \in EvalSteps \cup {"copy"} => state' = state
      BY <2>2, <2>3
    <2>5. QED
      BY <2>1, <2>4, OthersStay DEF Steady
<1>2. \A u \in Threads : ThreadOK(u)'
  BY <1>1
<1>3. Alone'
  <2>1. ASSUME NEW u \in Threads, u # t
        PROVE  /\ ~(pc'[t] \in EvalSteps /\ pc'[u] \in EvalSteps)
               /\ ~(pc'[t] = "copy" /\ pc'[u] = "copy")
    <3>1. ThreadOK(u) /\ pc'[u] = pc[u]
      BY <1>1, <2>1 DEF Tree
    <3>2. pc[u] \in EvalSteps => nnOutput /\ pc[t] \notin EvalSteps
      BY <2>1, <3>1 DEF Tree, Alone, ThreadOK, EvalOK
    <3>3. pc[u] = "copy" => state \in {3, 5} /\ pc[t] # "copy"
      BY <2>1, <3>1 DEF Tree, Alone, ThreadOK, CopyOK
    <3>4. QED
      BY <3>1, <3>2, <3>3
  <2>2. ASSUME NEW u \in Threads, NEW v \in Threads, u # t, v # t,
               \/ pc'[u] \in EvalSteps /\ pc'[v] \in EvalSteps
               \/ pc'[u] = "copy" /\ pc'[v] = "copy"
        PROVE  u = v
    BY <1>1, <2>2 DEF Tree, Alone
  <2>3. QED
    BY <2>1, <2>2 DEF Alone
<1>4. QED
  BY <1>2, <1>3 DEF Tree

(* A step that leaves the state, the output and the arrays alone. *)
LEMMA NodeSame ==
    ASSUME TypeOK, TypeOK', Tree, visits' >= visits, UNCHANGED node
    PROVE  NodeGrows /\ NodeOK' /\ ListOK' /\ state' = state
<1>1. state \in 0..6 /\ visits \in Nat /\ visits' \in Nat
  BY DEF TypeOK, STATE_UNEVALUATED, STATE_EXPANDED2
<1>2. UNCHANGED <<state, nnOutput, children>>
  BY DEF node
<1>3. NodeGrows
  BY <1>1, <1>2 DEF NodeGrows
<1>4. NodeOK'
  BY <1>1, <1>2 DEF Tree, NodeOK, Mv
<1>5. ListOK'
  BY <1>2 DEF Tree, ListOK, Packed, Distinct, Prefix, Mv
<1>6. QED
  BY <1>2, <1>3, <1>4, <1>5

(* A step that leaves the moves of the arrays alone. *)
SameMoves == \A k \in 1..3 : /\ Len(children'[k]) = Len(children[k])
                             /\ \A i \in 1..Len(children[k]) :
                                    children'[k][i].move = children[k][i].move
(* The list stays one when no move of it changes. *)
LEMMA MovesSame ==
    ASSUME TypeOK, TypeOK', Tree, SameMoves, UNCHANGED <<state, nnOutput, visits>>
    PROVE  NodeGrows /\ NodeOK' /\ ListOK'
<1>1. state \in 0..6 /\ visits \in Nat
  BY DEF TypeOK, STATE_UNEVALUATED, STATE_EXPANDED2
<1>2. NodeGrows
  BY <1>1 DEF NodeGrows, SameMoves
<1>3. NodeOK'
  BY <1>1 DEF Tree, NodeOK, Mv, SameMoves
<1>4. \A k \in 1..3 : Packed(k)' /\ Distinct(k)'
  <2>1. ASSUME NEW k \in 1..3
        PROVE  Packed(k)' /\ Distinct(k)'
    <3>1. Packed(k) /\ Distinct(k)
      BY DEF Tree, ListOK
    <3>2. /\ Len(children'[k]) = Len(children[k])
          /\ \A i \in 1..Len(children[k]) : Mv(k, i)' = Mv(k, i)
      BY DEF SameMoves, Mv
    <3>3. Packed(k)'
      BY <3>1, <3>2 DEF Packed
    <3>4. Distinct(k)'
      BY <3>1, <3>2 DEF Distinct
    <3>5. QED
      BY <3>3, <3>4
  <2>2. QED
    BY <2>1
<1>5. Prefix(1)' /\ Prefix(2)'
  <2>1. ASSUME NEW k \in 1..2
        PROVE  Prefix(k)'
    <3>1. k \in 1..3 /\ k + 1 \in 1..3 /\ Prefix(k)
      BY DEF Tree, ListOK
    <3>2. /\ Len(children'[k]) = Len(children[k])
          /\ Len(children'[k + 1]) = Len(children[k + 1])
      BY <3>1 DEF SameMoves
    <3>3. SUFFICES ASSUME Len(children[k + 1]) > 0
                   PROVE  /\ Len(children[k]) = Sizes[k]
                          /\ \A i \in 1..Sizes[k] :
                                Mv(k, i)' # NULL /\ Mv(k, i)' = Mv(k + 1, i)'
      BY <3>2 DEF Prefix
    <3>4. /\ Len(children[k]) = Sizes[k] /\ Sizes[k] < Len(children[k + 1])
          /\ Sizes[k] \in Nat
      <4>1. Len(children[k + 1]) \in {0, Sizes[k + 1]}
        BY <3>1 DEF TypeOK
      <4>2. Len(children[k + 1]) = Sizes[k + 1]
        BY <3>3, <4>1
      <4>3. Sizes[k] < Sizes[k + 1] /\ Sizes[k] \in Nat
        BY <3>1, SizesAreSizes
      <4>4. QED
        BY <3>1, <3>3, <4>2, <4>3 DEF Prefix
    <3>5. ASSUME NEW i \in 1..Sizes[k]
          PROVE  Mv(k, i)' # NULL /\ Mv(k, i)' = Mv(k + 1, i)'
      <4>1. i \in 1..Len(children[k]) /\ i \in 1..Len(children[k + 1])
        BY <3>1, <3>4, LenProperties DEF TypeOK
      <4>2. Mv(k, i)' = Mv(k, i) /\ Mv(k + 1, i)' = Mv(k + 1, i)
        BY <3>1, <4>1 DEF SameMoves, Mv
      <4>3. QED
        BY <3>1, <3>3, <4>2 DEF Prefix
    <3>6. QED
      BY <3>4, <3>5
  <2>2. QED
    BY <2>1
<1>6. QED
  BY <1>2, <1>3, <1>4, <1>5 DEF ListOK
-----------------------------------------------------------------------------
(* Virtual losses: those of a child are counted by the threads on their way. *)
Passing(m) == {t \in Threads : pc[t] \in OnTheWay /\ best[t].move = m}

(* There are finitely many threads on their way through a child. *)
LEMMA LossesOfPassing ==
    ASSUME NEW m \in Moves
    PROVE  /\ IsFiniteSet(Passing(m)) /\ Cardinality(Passing(m)) \in Nat
           /\ VirtualLossesBalance => virtualLosses[m] = Cardinality(Passing(m))
<1>1. IsFiniteSet(Passing(m))
  BY NodeAssumption, FS_Subset DEF Passing
<1>2. QED
  BY <1>1, FS_CardinalityType DEF VirtualLossesBalance, Passing

(* A child that a thread is on its way through has a virtual loss to take off. *)
LEMMA LossIsThere ==
    ASSUME VirtualLossesBalance, NEW t \in Threads, pc[t] \in OnTheWay,
           best[t].move \in Moves
    PROVE  virtualLosses[best[t].move] >= 1
<1>1. t \in Passing(best[t].move)
  BY DEF Passing
<1>2. Cardinality(Passing(best[t].move)) # 0
  BY <1>1, FS_EmptySet, LossesOfPassing
<1>3. QED
  BY <1>2, LossesOfPassing

(* The balance stays when a thread neither sets out nor returns, ... *)
LEMMA LossSame ==
    ASSUME VirtualLossesBalance, NEW t \in Threads, Only(t), UNCHANGED virtualLosses,
           pc'[t] \in OnTheWay <=> pc[t] \in OnTheWay,
           pc[t] \in OnTheWay => best'[t] = best[t]
    PROVE  VirtualLossesBalance'
<1>1. ASSUME NEW m \in Moves
      PROVE  Passing(m)' = Passing(m)
  BY DEF Passing, Only, Steady
<1>2. QED
  BY <1>1 DEF VirtualLossesBalance, Passing

(* ... when it sets out and adds its virtual loss, ... *)
LEMMA LossAdded ==
    ASSUME TypeOK, VirtualLossesBalance, NEW t \in Threads, Only(t), AddVirtualLoss(t, 1),
           pc[t] \notin OnTheWay, pc'[t] \in OnTheWay,
           best'[t] = best[t], best[t].move \in Moves
    PROVE  VirtualLossesBalance'
<1>1. ASSUME NEW m \in Moves, m # best[t].move
      PROVE  Passing(m)' = Passing(m) /\ virtualLosses'[m] = virtualLosses[m]
  BY <1>1 DEF Passing, Only, Steady, AddVirtualLoss, TypeOK
<1>2. ASSUME NEW m \in Moves, m = best[t].move
      PROVE  Cardinality(Passing(m)') = Cardinality(Passing(m)) + 1
             /\ virtualLosses'[m] = virtualLosses[m] + 1
  <2>1. Passing(m)' = Passing(m) \cup {t} /\ t \notin Passing(m)
    BY <1>2 DEF Passing, Only, Steady
  <2>2. Cardinality(Passing(m)') = Cardinality(Passing(m)) + 1
    BY <2>1, LossesOfPassing, FS_AddElement
  <2>3. virtualLosses'[m] = virtualLosses[m] + 1
    BY <1>2 DEF AddVirtualLoss, TypeOK
  <2>4. QED
    BY <2>2, <2>3
<1>3. \A m \in Moves : virtualLosses'[m] = Cardinality(Passing(m)')
  BY <1>1, <1>2, LossesOfPassing
<1>4. QED
  BY <1>3 DEF VirtualLossesBalance, Passing

(* ... and when it returns or gives up and takes it off. *)
LEMMA LossTaken ==
    ASSUME TypeOK, VirtualLossesBalance, NEW t \in Threads, Only(t), AddVirtualLoss(t, -1),
           pc[t] \in OnTheWay, pc'[t] \notin OnTheWay, best[t].move \in Moves
    PROVE  VirtualLossesBalance'
<1>1. ASSUME NEW m \in Moves, m # best[t].move
      PROVE  Passing(m)' = Passing(m) /\ virtualLosses'[m] = virtualLosses[m]
  BY <1>1 DEF Passing, Only, Steady, AddVirtualLoss, TypeOK
<1>2. ASSUME NEW m \in Moves, m = best[t].move
      PROVE  Cardinality(Passing(m)') = Cardinality(Passing(m)) - 1
             /\ virtualLosses'[m] = virtualLosses[m] - 1
  <2>1. Passing(m)' = Passing(m) \ {t} /\ t \in Passing(m)
    BY <1>2 DEF Passing, Only, Steady
  <2>2. Cardinality(Passing(m)') = Cardinality(Passing(m)) - 1
    BY <2>1, LossesOfPassing, FS_RemoveElement
  <2>3. virtualLosses'[m] = virtualLosses[m] - 1
    BY <1>2 DEF AddVirtualLoss, TypeOK
  <2>4. QED
    BY <2>2, <2>3
<1>3. \A m \in Moves : virtualLosses'[m] = Cardinality(Passing(m)')
  BY <1>1, <1>2, LossesOfPassing
<1>4. QED
  BY <1>3 DEF VirtualLossesBalance, Passing

(* The dirty counter is of no concern to a step outside of the statistics. *)
LEMMA DirtySame ==
    ASSUME DirtyOK, NEW t \in Threads, Only(t),
           UNCHANGED <<dirtyCounter, numVisitsCompleted>>,
           pc'[t] \in {"recompute", "read", "undo"} <=> pc[t] \in {"recompute", "read", "undo"}
    PROVE  DirtyOK'
<1>1. Recomputing' = Recomputing
  BY DEF Recomputing, Only, Steady
<1>2. QED
  BY <1>1 DEF DirtyOK
-----------------------------------------------------------------------------
(* A new array. *)
LEMMA TypeOfSlots ==
    ASSUME NEW n \in Nat
    PROVE  /\ NewArray(n) \in Seq(Slots) /\ Len(NewArray(n)) = n
           /\ \A i \in 1..n : NewArray(n)[i].move = NULL
<1>1. EmptySlot \in Slots /\ EmptySlot.move = NULL
  BY DEF EmptySlot, Slots
<1>2. QED
  BY <1>1 DEF NewArray
-----------------------------------------------------------------------------
(* Whatever a thread does, it leaves the other threads' views alone. *)
LEMMA StepOfOne ==
    ASSUME TypeOK, NEW t \in Threads, playoutDescend(t) \/ Playout(t)
    PROVE  Only(t)
<1> USE DEF Only, Steady, TypeOK, GoTo, Return, Select, locals, choice
<1>1. CASE playoutDescend(t)
  BY <1>1 DEF playoutDescend
<1>2. CASE Evaluate(t)
  BY <1>2 DEF Evaluate, storeNNOutputIfNull, addLeafValue, ClaimEvaluation,
              initializeChildren, Expand0
<1>3. CASE SelectChild(t)
  BY <1>3 DEF SelectChild, SeeChild, selectBestChildToDescend, SelectNothing, ReInit,
              VisitAgain
<1>4. CASE AddChild(t)
  BY <1>4 DEF AddChild, maybeExpandChildrenCapacity, CopySlot, PublishChildren,
              allocateOrFindNode, StoreChild
<1>5. CASE VisitChild(t)
  BY <1>5 DEF VisitChild, ReuseChild, maybeCatchUpEdgeVisits, Descend, ReloadState,
              CountVisit, ReleaseChild
<1>6. CASE UpdateStats(t)
  BY <1>6 DEF UpdateStats, updateStatsAfterPlayout, getChildren, ReadChild, recomputeNodeStats,
              UndoDirty
<1>7. QED
  BY <1>1, <1>2, <1>3, <1>4, <1>5, <1>6 DEF Playout

(* There are n numbers from 1 to n. *)
LEMMA IntervalSize ==
    ASSUME NEW n \in Nat
    PROVE  IsFiniteSet(1..n) /\ Cardinality(1..n) = n
<1>1. n \in Int /\ 1 \in Int
  OBVIOUS
<1>2. IsFiniteSet(1..n) /\ Cardinality(1..n) = IF 1 > n THEN 0 ELSE n - 1 + 1
  BY <1>1, FS_Interval, Zenon
<1>3. QED
  BY <1>2

(* A choice is a child that was read, or the first free slot and a move no  *)
(* child has; as many children as there are moves leave no new choice.     *)
LEMMA ChoiceIsSound ==
    ASSUME TypeOK, Tree, NEW t \in Threads, pc[t] = "select", NEW b \in Candidates(t)
    PROVE  /\ b \in [idx : 1..CHILDREN2SIZE, move : Moves] /\ b.idx \in 1..(Cap(t) + 1)
           /\ IsNew(t, b) =>
                 \A i \in 1..(b.idx - 1) : Mv(Arr(t), i) \notin {NULL, b.move}
           /\ ~IsNew(t, b) => b.idx <= Cap(t)
<1>1. /\ seen[t] \in Seq(Moves) /\ Len(seen[t]) \in Nat /\ Len(seen[t]) <= Cap(t)
      /\ \A i \in 1..Len(seen[t]) : Mv(Arr(t), i) = seen[t][i] /\ seen[t][i] \in Moves
  BY ThreadTypes, LenProperties, ElementOfSeq DEF Tree, ThreadOK, ViewOK
<1>2. /\ Arr(t) \in 1..3 /\ Cap(t) \in Nat /\ Len(children[Arr(t)]) = Cap(t)
      /\ Cap(t) <= CHILDREN2SIZE /\ CHILDREN2SIZE \in Nat
  <2>1. nodeState[t] \in 2..6 /\ nodeState[t] <= state
    BY ThreadTypes DEF Tree, ThreadOK, ViewOK, EvalSteps
  <2>2. Arr(t) \in 1..3 /\ Cap(t) = Sizes[Arr(t)]
    BY <2>1, ArraysOfStates DEF Arr, Cap
  <2>3. Cap(t) <= CHILDREN2SIZE /\ Cap(t) \in Nat
    BY <2>2, SizesAreSizes, NodeAssumption
  <2>4. Len(children[Arr(t)]) = Cap(t)
    BY <2>1, ArrayIsThere DEF Tree, Arr, Cap
  <2>5. QED
    BY <2>2, <2>3, <2>4, NodeAssumption
<1>3. CASE \E i \in 1..Len(seen[t]) : b = [idx |-> i, move |-> seen[t][i]]
  <2>1. PICK i \in 1..Len(seen[t]) : b = [idx |-> i, move |-> seen[t][i]]
    BY <1>3
  <2>2. b.idx = i /\ b.move = seen[t][i] /\ i <= Cap(t) /\ ~IsNew(t, b)
    BY <1>1, <1>2, <2>1 DEF IsNew
  <2>3. QED
    BY <1>1, <1>2, <2>1, <2>2
<1>4. CASE \E m \in Moves \ SeenMoves(t) : b = [idx |-> Len(seen[t]) + 1, move |-> m]
  <2>1. PICK m \in Moves \ SeenMoves(t) : b = [idx |-> Len(seen[t]) + 1, move |-> m]
    BY <1>4
  <2>2. b.idx = Len(seen[t]) + 1 /\ b.move = m /\ IsNew(t, b)
    BY <1>1, <2>1 DEF IsNew
  <2>3. \A i \in 1..Len(seen[t]) : seen[t][i] \in Moves \ {m} /\ seen[t][i] # NULL
    BY <1>1, <2>1, NodeAssumption DEF SeenMoves
  <2>4. \A i, j \in 1..Len(seen[t]) : seen[t][i] = seen[t][j] => i = j
    <3>1. \A i \in 1..Len(seen[t]) : i \in 1..Len(children[Arr(t)])
      BY <1>1, <1>2
    <3>2. Distinct(Arr(t))
      BY <1>2 DEF Tree, ListOK
    <3>3. QED
      BY <1>1, <2>3, <3>1, <3>2 DEF Distinct
  <2>5. Len(seen[t]) + 1 <= CHILDREN2SIZE
    <3>1. seen[t] \in [1..Len(seen[t]) -> Moves \ {m}]
      BY <1>1, <2>3, LenProperties
    <3>2. /\ IsFiniteSet(Moves \ {m})
          /\ Cardinality(Moves \ {m}) = Cardinality(Moves) - 1
      BY <2>1, NodeAssumption, FS_RemoveElement
    <3>3. IsFiniteSet(1..Len(seen[t])) /\ Cardinality(1..Len(seen[t])) = Len(seen[t])
      BY <1>1, IntervalSize
    <3>4. ~(Cardinality(Moves \ {m}) < Cardinality(1..Len(seen[t])))
      <4> DEFINE S == 1..Len(seen[t])
                 T == Moves \ {m}
                 f == seen[t]
      <4>1. IsFiniteSet(S) /\ IsFiniteSet(T) /\ f \in [S -> T]
        BY <3>1, <3>2, <3>3
      <4>2. \A x, y \in S : f[x] = f[y] => x = y
        BY <2>4
      <4> HIDE DEF S, T, f
      <4>3. ~(Cardinality(T) < Cardinality(S))
        BY <4>1, <4>2, FS_PigeonHole
      <4>4. QED
        BY <4>3 DEF S, T
    <3>5. Cardinality(Moves) \in Nat /\ Cardinality(Moves) <= CHILDREN2SIZE
      BY NodeAssumption, FS_CardinalityType
    <3>6. QED
      BY <1>1, <1>2, <3>2, <3>3, <3>4, <3>5
  <2>6. \A i \in 1..(b.idx - 1) : i \in 1..Len(seen[t])
    BY <1>1, <2>2
  <2>7. QED
    BY <1>1, <1>2, <2>1, <2>2, <2>3, <2>5, <2>6
<1>5. QED
  BY <1>3, <1>4 DEF Candidates
-----------------------------------------------------------------------------
(* The types.  Of a thread's own variables: *)
ThreadTypesOK ==
    /\ pc \in [Threads -> Steps] /\ nodeState \in [Threads -> 0..6]
    /\ seen \in [Threads -> Seq(Moves)]
    /\ best \in [Threads -> [idx : 0..CHILDREN2SIZE, move : Moves \cup {NULL}]]
    /\ retried \in [Threads -> BOOLEAN] /\ copied \in [Threads -> Seq(Slots)]
    /\ numVisitsCompleted \in [Threads -> Nat]

(* Going to a next step, returning and selecting keep the types of the threads. *)
LEMMA TypesOfSteps ==
    ASSUME TypeOK, NEW t \in Threads
    PROVE  /\ ThreadTypesOK /\ state \in 0..6
           /\ Return(t) => ThreadTypesOK'
           /\ Select(t) /\ UNCHANGED <<copied, numVisitsCompleted>>
                 /\ retried' \in [Threads -> BOOLEAN] => ThreadTypesOK'
           /\ \A step \in Steps : GoTo(t, step) /\ UNCHANGED <<choice, copied>>
                 /\ numVisitsCompleted' \in [Threads -> Nat] => ThreadTypesOK'
<1>1. ThreadTypesOK /\ state \in 0..6
  BY DEF TypeOK, ThreadTypesOK, STATE_UNEVALUATED, STATE_EXPANDED2
<1>2. NoBest \in [idx : 0..CHILDREN2SIZE, move : Moves \cup {NULL}]
      /\ <<>> \in Seq(Moves) /\ "idle" \in Steps /\ "select" \in Steps
  BY NodeAssumption DEF NoBest, Steps
<1>3. ASSUME Return(t) PROVE ThreadTypesOK'
  BY <1>1, <1>2, <1>3 DEF Return, GoTo, ThreadTypesOK, STATE_UNEVALUATED
<1>4. ASSUME Select(t), UNCHANGED <<copied, numVisitsCompleted>>,
             retried' \in [Threads -> BOOLEAN]
      PROVE  ThreadTypesOK'
  BY <1>1, <1>2, <1>4 DEF Select, GoTo, ThreadTypesOK
<1>5. ASSUME NEW step \in Steps, GoTo(t, step), UNCHANGED <<choice, copied>>,
             numVisitsCompleted' \in [Threads -> Nat]
      PROVE  ThreadTypesOK'
  BY <1>1, <1>5 DEF GoTo, choice, ThreadTypesOK
<1>6. QED
  BY <1>1, <1>3, <1>4, <1>5

(* ... and of the node: *)
NodeTypesOK ==
    /\ state \in 0..6 /\ nnOutput \in BOOLEAN
    /\ children \in [1..3 -> Seq(Slots)]
    /\ \A k \in 1..3 : Len(children[k]) \in {0, Sizes[k]}
    /\ visits \in Nat /\ dirtyCounter \in Nat /\ childWeights \in Seq(Nat)
    /\ childVisits \in [Moves -> Nat] /\ virtualLosses \in [Moves -> Nat]
    /\ uncounted \in Nat /\ begun \in Nat /\ elsewhere \in Nat

(* Together these are TypeOK. *)
LEMMA TypesAreAll == /\ TypeOK <=> ThreadTypesOK /\ NodeTypesOK
                     /\ TypeOK' <=> ThreadTypesOK' /\ NodeTypesOK'
<1>1. TypeOK <=> ThreadTypesOK /\ NodeTypesOK
  BY DEF TypeOK, ThreadTypesOK, NodeTypesOK, STATE_UNEVALUATED, STATE_EXPANDED2
<1>2. TypeOK' <=> ThreadTypesOK' /\ NodeTypesOK'
  BY DEF TypeOK, ThreadTypesOK, NodeTypesOK, STATE_UNEVALUATED, STATE_EXPANDED2
<1>3. QED
  BY <1>1, <1>2

(* The steps that evaluate the node keep the types. *)
LEMMA TypesEvaluate ==
    ASSUME TypeOK, NEW t \in Threads, playoutDescend(t) \/ Evaluate(t)
    PROVE  TypeOK'
<1>1. ThreadTypesOK /\ NodeTypesOK
  BY TypesAreAll
<1>2. CASE playoutDescend(t)
  <2>1. NodeTypesOK'
    BY <1>1, <1>2 DEF playoutDescend, NodeTypesOK, node, stats, childVars
  <2>2. ThreadTypesOK'
    BY <1>1, <1>2, TypesOfSteps DEF playoutDescend, Steps, ThreadTypesOK
  <2>3. QED
    BY <2>1, <2>2, TypesAreAll
<1>3. CASE storeNNOutputIfNull(t)
  <2>1. NodeTypesOK'
    BY <1>1, <1>3 DEF storeNNOutputIfNull, NodeTypesOK, stats, childVars, bounds
  <2>2. ThreadTypesOK'
    BY <1>1, <1>3, TypesOfSteps DEF storeNNOutputIfNull, Steps, ThreadTypesOK
  <2>3. QED
    BY <2>1, <2>2, TypesAreAll
<1>4. CASE addLeafValue(t)
  <2>1. NodeTypesOK'
    BY <1>1, <1>4 DEF addLeafValue, NodeTypesOK, node, childVars, bounds
  <2>2. ThreadTypesOK'
    BY <1>1, <1>4, TypesOfSteps DEF addLeafValue, Steps, ThreadTypesOK
  <2>3. QED
    BY <2>1, <2>2, TypesAreAll
<1>5. CASE ClaimEvaluation(t)
  <2>1. NodeTypesOK'
    BY <1>1, <1>5 DEF ClaimEvaluation, NodeTypesOK, stats, childVars, bounds, STATE_EVALUATING
  <2>2. ThreadTypesOK'
    BY <1>1, <1>5, TypesOfSteps DEF ClaimEvaluation, Steps, ThreadTypesOK
  <2>3. QED
    BY <2>1, <2>2, TypesAreAll
<1>6. CASE initializeChildren(t)
  <2>1. NodeTypesOK'
    <3>1. /\ NewArray(CHILDREN0SIZE) \in Seq(Slots)
          /\ Len(NewArray(CHILDREN0SIZE)) = CHILDREN0SIZE /\ Sizes[1] = CHILDREN0SIZE
      BY NodeAssumption, TypeOfSlots DEF Sizes
    <3>2. children' = [children EXCEPT ![1] = NewArray(CHILDREN0SIZE)]
      BY <1>6 DEF initializeChildren
    <3>3. children' \in [1..3 -> Seq(Slots)] /\ \A k \in 1..3 : Len(children'[k]) \in {0, Sizes[k]}
      BY <1>1, <3>1, <3>2 DEF NodeTypesOK
    <3>4. QED
      BY <1>1, <1>6, <3>3 DEF initializeChildren, NodeTypesOK, stats, childVars, bounds
  <2>2. ThreadTypesOK'
    BY <1>1, <1>6, TypesOfSteps DEF initializeChildren, Steps, ThreadTypesOK
  <2>3. QED
    BY <2>1, <2>2, TypesAreAll
<1>7. CASE Expand0(t)
  <2>1. NodeTypesOK'
    BY <1>1, <1>7 DEF Expand0, NodeTypesOK, stats, childVars, bounds, STATE_EXPANDED0
  <2>2. ThreadTypesOK'
    BY <1>1, <1>7, TypesOfSteps DEF Expand0, Steps, ThreadTypesOK
  <2>3. QED
    BY <2>1, <2>2, TypesAreAll
<1>8. QED
  BY <1>2, <1>3, <1>4, <1>5, <1>6, <1>7 DEF Evaluate

(* The slot a thread has chosen is in the array of its state. *)
LEMMA ChosenSlot ==
    ASSUME TypeOK, Tree, NEW t \in Threads,
           pc[t] \in EdgeSteps \/ (pc[t] \in NewSteps /\ best[t].idx <= Cap(t))
    PROVE  /\ Arr(t) \in 1..3 /\ Cap(t) \in Nat /\ Len(children[Arr(t)]) = Cap(t)
           /\ best[t].idx \in 1..Len(children[Arr(t)]) /\ best[t].move \in Moves
           /\ children[Arr(t)][best[t].idx] \in Slots
<1>1. ViewOK(t)
  BY DEF Tree, ThreadOK
<1>2. nodeState[t] \in 2..6 /\ nodeState[t] <= state
  BY <1>1, ThreadTypes DEF ViewOK, EdgeSteps, NewSteps, EvalSteps
<1>3. Arr(t) \in 1..3 /\ Cap(t) \in Nat /\ Len(children[Arr(t)]) = Cap(t)
  BY <1>2, ArrayIsThere, ArraysOfStates DEF Tree, Arr, Cap
<1>4. best[t].idx \in 1..Cap(t) /\ best[t].move \in Moves
  BY <1>1, <1>3 DEF ViewOK
<1>5. children[Arr(t)] \in Seq(Slots)
  BY <1>3 DEF TypeOK
<1>6. QED
  BY <1>3, <1>4, <1>5, ElementOfSeq

(* A visit of an edge changes no move of an array. *)
LEMMA EdgeAdded ==
    ASSUME TypeOK, Tree, NEW t \in Threads, pc[t] \in EdgeSteps, AddEdgeVisits(t)
    PROVE  children' \in [1..3 -> Seq(Slots)] /\ SameMoves
<1> DEFINE k == Arr(t)
           i == best[t].idx
           slot == [children[k][i] EXCEPT !.edgeVisits = @ + 1]
           newk == [children[k] EXCEPT ![i] = slot]
<1>1. /\ k \in 1..3 /\ i \in 1..Len(children[k]) /\ children[k][i] \in Slots
  <2>1. pc[t] \in EdgeSteps \/ (pc[t] \in NewSteps /\ best[t].idx <= Cap(t))
    OBVIOUS
  <2>2. QED
    BY <2>1, ChosenSlot
<1>2. slot \in Slots /\ slot.move = children[k][i].move
  BY <1>1 DEF Slots
<1>3. children' = [children EXCEPT ![k] = newk]
  BY <1>1 DEF AddEdgeVisits, Arr
<1>4. /\ children \in [1..3 -> Seq(Slots)] /\ newk \in Seq(Slots)
      /\ Len(newk) = Len(children[k])
      /\ \A l \in 1..Len(children[k]) : newk[l] = IF l = i THEN slot ELSE children[k][l]
  <2>1. children \in [1..3 -> Seq(Slots)] /\ children[k] \in Seq(Slots)
    BY <1>1 DEF TypeOK
  <2>2. QED
    BY <1>1, <1>2, <2>1, ExceptSeq
<1> HIDE DEF k, i, slot, newk
<1>5. /\ children' \in [1..3 -> Seq(Slots)]
      /\ \A j \in 1..3 : Len(children'[j]) = Len(children[j])
      /\ \A j \in 1..3 : \A l \in 1..Len(children[j]) :
            children'[j][l] = IF j = k /\ l = i THEN slot ELSE children[j][l]
  BY <1>1, <1>3, <1>4
<1>6. QED
  BY <1>2, <1>5 DEF SameMoves

\* The one slot that a store writes.
StoresMove(t) == children' =
                   [children EXCEPT ![Arr(t)][best[t].idx].move = best[t].move]
(* Storing a child changes one move of one array. *)
LEMMA MoveStored ==
    ASSUME TypeOK, Tree, NEW t \in Threads, pc[t] = "store", StoresMove(t)
    PROVE  /\ children' \in [1..3 -> Seq(Slots)]
           /\ \A j \in 1..3 : Len(children'[j]) = Len(children[j])
           /\ \A j \in 1..3 : \A l \in 1..Len(children[j]) :
                 /\ children'[j][l].move = IF j = Arr(t) /\ l = best[t].idx
                                           THEN best[t].move ELSE children[j][l].move
                 /\ children'[j][l].edgeVisits = children[j][l].edgeVisits
<1> DEFINE k == Arr(t)
           i == best[t].idx
           slot == [children[k][i] EXCEPT !.move = best[t].move]
           newk == [children[k] EXCEPT ![i] = slot]
<1>1. /\ k \in 1..3 /\ i \in 1..Len(children[k]) /\ children[k][i] \in Slots
      /\ best[t].move \in Moves
  <2>1. best[t].idx <= Cap(t) /\ pc[t] \in NewSteps
    BY DEF Tree, ThreadOK, ViewOK, NewSteps
  <2>2. QED
    BY <2>1, ChosenSlot
<1>2. slot \in Slots /\ slot.move = best[t].move
      /\ slot.edgeVisits = children[k][i].edgeVisits
  BY <1>1 DEF Slots
<1>3. children' = [children EXCEPT ![k] = newk]
  BY <1>1 DEF StoresMove
<1>4. /\ children \in [1..3 -> Seq(Slots)] /\ newk \in Seq(Slots)
      /\ Len(newk) = Len(children[k])
      /\ \A l \in 1..Len(children[k]) : newk[l] = IF l = i THEN slot ELSE children[k][l]
  <2>1. children \in [1..3 -> Seq(Slots)] /\ children[k] \in Seq(Slots)
    BY <1>1 DEF TypeOK
  <2>2. QED
    BY <1>1, <1>2, <2>1, ExceptSeq
<1> HIDE DEF k, i, slot, newk
<1>5. /\ children' \in [1..3 -> Seq(Slots)]
      /\ \A j \in 1..3 : Len(children'[j]) = Len(children[j])
      /\ \A j \in 1..3 : \A l \in 1..Len(children[j]) :
            children'[j][l] = IF j = k /\ l = i THEN slot ELSE children[j][l]
  BY <1>1, <1>3, <1>4
<1>6. QED
  BY <1>2, <1>5 DEF k, i

(* The new array begins with the children of the full one, and is empty    *)
(* beyond them; the others are as they were.                              *)
LEMMA ArrayPublished ==
    ASSUME TypeOK, Tree, NEW t \in Threads, PublishChildren(t)
    PROVE  /\ Arr(t) \in 1..2 /\ state = nodeState[t] /\ state \in {3, 5}
           /\ state' = state + 1 /\ Arr(t) = (IF state = 3 THEN 1 ELSE 2)
           /\ children' \in [1..3 -> Seq(Slots)]
           /\ \A j \in 1..3 : j # Arr(t) + 1 => children'[j] = children[j]
           /\ Len(children[Arr(t)]) = Sizes[Arr(t)] /\ Cap(t) = Sizes[Arr(t)]
           /\ Len(children'[Arr(t) + 1]) = Sizes[Arr(t) + 1]
           /\ Len(children[Arr(t) + 1]) = 0
           /\ \A i \in 1..Sizes[Arr(t)] : /\ Mv(Arr(t), i) # NULL
                                         /\ children'[Arr(t) + 1][i].move = Mv(Arr(t), i)
           /\ \A i \in (Sizes[Arr(t)] + 1)..Sizes[Arr(t) + 1] :
                                            children'[Arr(t) + 1][i].move = NULL
<1> DEFINE k == Arr(t)
<1>1. /\ pc[t] = "copy" /\ Len(copied[t]) = Sizes[k]
      /\ children' = [children EXCEPT ![k + 1] = copied[t] \o NewArray(Sizes[k + 1] - Sizes[k])]
      /\ state' = nodeState[t] + 1
  BY DEF PublishChildren, Arr
<1>2. /\ nodeState[t] = state /\ state \in {3, 5} /\ best[t].idx = Cap(t) + 1
      /\ \A i \in 1..Len(copied[t]) : copied[t][i].move = Mv(k, i)
      /\ \A i \in 1..(best[t].idx - 1) : Mv(k, i) # NULL
  BY <1>1 DEF Tree, ThreadOK, CopyOK, ViewOK, NewSteps
<1>3. /\ k = (IF state = 3 THEN 1 ELSE 2) /\ k \in 1..2 /\ k \in 1..3 /\ k + 1 \in 1..3
      /\ Cap(t) = Sizes[k]
  BY <1>2, ArraysOfStates DEF Arr, Cap
<1>4. /\ Sizes[k] \in Nat /\ Sizes[k + 1] \in Nat /\ Sizes[k] < Sizes[k + 1]
  BY <1>3, SizesAreSizes
<1>5. Len(children[k]) = Sizes[k] /\ Len(children[k + 1]) = 0
  BY <1>2, <1>3, SizesAreSizes DEF Tree, NodeOK
<1> DEFINE fresh == NewArray(Sizes[k + 1] - Sizes[k])
           new == copied[t] \o fresh
<1>6. /\ fresh \in Seq(Slots) /\ Len(fresh) = Sizes[k + 1] - Sizes[k]
      /\ \A i \in 1..(Sizes[k + 1] - Sizes[k]) : fresh[i].move = NULL
  <2>1. Sizes[k + 1] - Sizes[k] \in Nat
    BY <1>4
  <2>2. QED
    BY <2>1, TypeOfSlots
<1>7. copied[t] \in Seq(Slots) /\ children \in [1..3 -> Seq(Slots)]
  BY DEF TypeOK
<1> HIDE DEF fresh
<1>8. /\ new \in Seq(Slots) /\ Len(new) = Len(copied[t]) + Len(fresh)
      /\ \A i \in 1..(Len(copied[t]) + Len(fresh)) :
            new[i] = IF i <= Len(copied[t]) THEN copied[t][i] ELSE fresh[i - Len(copied[t])]
  BY <1>6, <1>7, ConcatProperties
<1>9. children' = [children EXCEPT ![k + 1] = new]
  BY <1>1 DEF fresh
<1> HIDE DEF new, k
<1>10. /\ children' \in [1..3 -> Seq(Slots)]
       /\ \A j \in 1..3 : j # k + 1 => children'[j] = children[j]
       /\ children'[k + 1] = new
  BY <1>3, <1>7, <1>8, <1>9
<1>11. /\ Len(new) = Sizes[k + 1]
       /\ \A i \in 1..Sizes[k] : new[i].move = Mv(k, i)
       /\ \A i \in (Sizes[k] + 1)..Sizes[k + 1] : new[i].move = NULL
  <2>1. Len(new) = Sizes[k + 1]
    BY <1>1, <1>4, <1>6, <1>8
  <2>2. ASSUME NEW i \in 1..Sizes[k]
        PROVE  new[i].move = Mv(k, i)
    <3>1. i \in 1..(Len(copied[t]) + Len(fresh)) /\ i <= Len(copied[t])
      BY <1>1, <1>4, <1>6
    <3>2. new[i] = copied[t][i]
      BY <1>8, <3>1
    <3>3. QED
      BY <1>1, <1>2, <3>2
  <2>3. ASSUME NEW i \in (Sizes[k] + 1)..Sizes[k + 1]
        PROVE  new[i].move = NULL
    <3>1. i \in 1..(Len(copied[t]) + Len(fresh)) /\ ~(i <= Len(copied[t]))
          /\ i - Len(copied[t]) \in 1..(Sizes[k + 1] - Sizes[k])
      BY <1>1, <1>4, <1>6
    <3>2. new[i] = fresh[i - Len(copied[t])]
      BY <1>8, <3>1
    <3>3. QED
      BY <1>6, <3>1, <3>2
  <2>4. QED
    BY <2>1, <2>2, <2>3
<1>12. \A i \in 1..Sizes[k] : Mv(k, i) # NULL
  BY <1>2, <1>3, <1>4
<1>13. QED
  BY <1>1, <1>2, <1>3, <1>5, <1>10, <1>11, <1>12 DEF k

(* The steps that choose a child keep the types. *)
LEMMA TypesSelectChild ==
    ASSUME TypeOK, Tree, NEW t \in Threads, SelectChild(t)
    PROVE  TypeOK'
<1>1. ThreadTypesOK /\ NodeTypesOK
  BY TypesAreAll
<1>2. CASE SeeChild(t)
  <2>1. NodeTypesOK'
    BY <1>1, <1>2 DEF SeeChild, NodeTypesOK, node, stats, childVars, bounds
  <2>2. NextSlot(t).move \in Moves
    <3>1. Arr(t) \in 1..3 /\ Len(children[Arr(t)]) = Cap(t) /\ Cap(t) \in Nat
      <4>1. nodeState[t] \in 2..6 /\ nodeState[t] <= state
        BY <1>2, ThreadTypes DEF SeeChild, Tree, ThreadOK, ViewOK, EvalSteps
      <4>2. QED
        BY <4>1, ArrayIsThere, ArraysOfStates DEF Tree, Arr, Cap
    <3>2. Len(seen[t]) \in Nat /\ Len(seen[t]) < Cap(t) /\ NextSlot(t).move # NULL
      BY <1>2, ThreadTypes, LenProperties DEF SeeChild, AtEnd, Cap
    <3>3. NextSlot(t) \in Slots
      <4>1. Len(seen[t]) + 1 \in 1..Len(children[Arr(t)]) /\ children[Arr(t)] \in Seq(Slots)
        BY <1>1, <3>1, <3>2 DEF NodeTypesOK
      <4>2. QED
        BY <4>1, ElementOfSeq DEF NextSlot, Arr
    <3>4. QED
      BY <3>2, <3>3 DEF Slots
  <2>3. ThreadTypesOK'
    BY <1>1, <1>2, <2>2 DEF SeeChild, ThreadTypesOK
  <2>4. QED
    BY <2>1, <2>3, TypesAreAll
<1>3. CASE selectBestChildToDescend(t)
  <2>1. NodeTypesOK'
    BY <1>1, <1>3 DEF selectBestChildToDescend, NodeTypesOK, node, stats, childVars, bounds
  <2>2. pc[t] = "select"
    BY <1>3 DEF selectBestChildToDescend
  <2>3. ThreadTypesOK'
    <3>1. PICK b \in Candidates(t) : \E step \in StepsAfter(t, b) :
            IF step = "idle" THEN Return(t)
            ELSE /\ GoTo(t, step)
                 /\ best' = [best EXCEPT ![t] = b]
                 /\ seen' = [seen EXCEPT ![t] = <<>>]
                 /\ retried' = [retried EXCEPT ![t] = FALSE]
                 /\ UNCHANGED <<nodeState, copied, numVisitsCompleted>>
      BY <1>3 DEF selectBestChildToDescend
    <3>2. b \in [idx : 0..CHILDREN2SIZE, move : Moves \cup {NULL}]
      BY <2>2, ChoiceIsSound
    <3>3. StepsAfter(t, b) \subseteq Steps
      BY DEF StepsAfter, Steps
    <3>4. CASE Return(t)
      BY <3>4, TypesOfSteps
    <3>5. CASE ~Return(t)
      <4>1. PICK step \in Steps :
                 /\ GoTo(t, step)
                 /\ best' = [best EXCEPT ![t] = b]
                 /\ seen' = [seen EXCEPT ![t] = <<>>]
                 /\ retried' = [retried EXCEPT ![t] = FALSE]
                 /\ UNCHANGED <<nodeState, copied, numVisitsCompleted>>
        BY <3>1, <3>3, <3>5
      <4>2. <<>> \in Seq(Moves)
        OBVIOUS
      <4>3. QED
        BY <1>1, <3>2, <4>1, <4>2 DEF ThreadTypesOK, GoTo
    <3>6. QED
      BY <3>4, <3>5
  <2>4. QED
    BY <2>1, <2>3, TypesAreAll
<1>4. CASE SelectNothing(t)
  <2>1. NodeTypesOK'
    BY <1>1, <1>4 DEF SelectNothing, NodeTypesOK, node, childVars, bounds
  <2>2. ThreadTypesOK'
    BY <1>4, TypesOfSteps DEF SelectNothing
  <2>3. QED
    BY <2>1, <2>2, TypesAreAll
<1>5. CASE ReInit(t)
  <2>1. NodeTypesOK'
    BY <1>1, <1>5 DEF ReInit, NodeTypesOK, stats, childVars, bounds
  <2>2. ThreadTypesOK'
    BY <1>1, <1>5, TypesOfSteps DEF ReInit, ThreadTypesOK
  <2>3. QED
    BY <2>1, <2>2, TypesAreAll
<1>6. CASE VisitAgain(t)
  <2>1. children' \in [1..3 -> Seq(Slots)] /\ SameMoves
    BY <1>6, EdgeAdded DEF VisitAgain, EdgeSteps
  <2>2. NodeTypesOK'
    BY <1>1, <1>6, <2>1 DEF VisitAgain, NodeTypesOK, SameMoves, stats, childVars, bounds
  <2>3. ThreadTypesOK'
    BY <1>6, TypesOfSteps DEF VisitAgain
  <2>4. QED
    BY <2>2, <2>3, TypesAreAll
<1>7. QED
  BY <1>2, <1>3, <1>4, <1>5, <1>6 DEF SelectChild

(* The steps that add a child keep the types. *)
LEMMA TypesAddChild ==
    ASSUME TypeOK, Tree, VirtualLossesBalance, NEW t \in Threads, AddChild(t)
    PROVE  TypeOK'
<1>1. ThreadTypesOK /\ NodeTypesOK /\ nodeState[t] \in 0..6
  BY TypesAreAll, ThreadTypes
<1>2. CASE maybeExpandChildrenCapacity(t)
  <2>1. NodeTypesOK'
    BY <1>1, <1>2 DEF maybeExpandChildrenCapacity, NodeTypesOK, stats, childVars, bounds,
                      STATE_EXPANDED0, STATE_EXPANDED1
  <2>2. ThreadTypesOK'
    <3>1. CASE Select(t)
      <4>1. UNCHANGED <<copied, numVisitsCompleted>> /\ retried' \in [Threads -> BOOLEAN]
        BY <1>1, <1>2 DEF maybeExpandChildrenCapacity, ThreadTypesOK
      <4>2. QED
        BY <3>1, <4>1, TypesOfSteps
    <3>2. CASE ~Select(t)
      <4>1. /\ pc' = [pc EXCEPT ![t] = "copy"] /\ state + 1 \in 0..6
            /\ nodeState' = [nodeState EXCEPT ![t] = state + 1]
            /\ UNCHANGED <<seen, best, retried, copied, numVisitsCompleted>>
        BY <1>1, <1>2, <3>2 DEF maybeExpandChildrenCapacity, GoTo,
                                STATE_EXPANDED0, STATE_EXPANDED1
      <4>2. "copy" \in Steps
        BY DEF Steps
      <4>3. QED
        BY <1>1, <4>1, <4>2 DEF ThreadTypesOK
    <3>3. QED
      BY <3>1, <3>2
  <2>3. QED
    BY <2>1, <2>2, TypesAreAll
<1>3. CASE CopySlot(t)
  <2>1. NodeTypesOK'
    BY <1>1, <1>3 DEF CopySlot, NodeTypesOK, node, stats, childVars, bounds
  <2>2. children[Arr(t)][Len(copied[t]) + 1] \in Slots
    <3>1. Arr(t) \in 1..3
      BY <1>1, ArraysOfStates DEF Arr
    <3>2. copied[t] \in Seq(Slots) /\ children[Arr(t)] \in Seq(Slots)
      BY <1>1, <3>1 DEF ThreadTypesOK, NodeTypesOK
    <3>3. Len(copied[t]) < Len(children[Arr(t)])
      BY <1>3 DEF CopySlot, Arr
    <3>4. Len(copied[t]) + 1 \in 1..Len(children[Arr(t)])
      BY <3>2, <3>3, LenProperties
    <3>5. QED
      BY <3>2, <3>4, ElementOfSeq
  <2>3. ThreadTypesOK'
    BY <1>1, <1>3, <2>2 DEF CopySlot, ThreadTypesOK, Arr, choice
  <2>4. QED
    BY <2>1, <2>3, TypesAreAll
<1>4. CASE PublishChildren(t)
  <2>1. /\ children' \in [1..3 -> Seq(Slots)]
        /\ \A j \in 1..3 : Len(children'[j]) \in {0, Sizes[j]}
        /\ state' \in 0..6 /\ nodeState[t] + 1 \in 0..6
    <3>1. /\ Arr(t) \in 1..2 /\ state = nodeState[t] /\ state \in {3, 5} /\ state' = state + 1
          /\ children' \in [1..3 -> Seq(Slots)]
      BY <1>4, ArrayPublished
    <3>2. ASSUME NEW j \in 1..3
          PROVE  Len(children'[j]) \in {0, Sizes[j]}
      <4>1. CASE j = Arr(t) + 1
        BY <1>4, <4>1, ArrayPublished
      <4>2. CASE j # Arr(t) + 1
        BY <1>1, <1>4, <4>2, ArrayPublished DEF NodeTypesOK
      <4>3. QED
        BY <4>1, <4>2
    <3>3. QED
      BY <3>1, <3>2
  <2>2. NodeTypesOK'
    BY <1>1, <1>4, <2>1 DEF PublishChildren, NodeTypesOK, stats, childVars, bounds
  <2>3. <<>> \in Seq(Slots)
    OBVIOUS
  <2>4. ThreadTypesOK'
    BY <1>1, <1>4, <2>1, <2>3 DEF PublishChildren, ThreadTypesOK, GoTo, Steps
  <2>5. QED
    BY <2>2, <2>4, TypesAreAll
<1>5. CASE allocateOrFindNode(t)
  <2>1. NodeTypesOK'
    <3>1. best[t].move \in Moves
      BY <1>5 DEF allocateOrFindNode, Tree, ThreadOK, ViewOK, NewSteps
    <3>2. virtualLosses' \in [Moves -> Nat]
      BY <1>1, <1>5, <3>1 DEF allocateOrFindNode, AddVirtualLoss, NodeTypesOK
    <3>3. QED
      BY <1>1, <1>5, <3>2 DEF allocateOrFindNode, NodeTypesOK, node, stats, bounds
  <2>2. ThreadTypesOK'
    BY <1>1, <1>5, TypesOfSteps DEF allocateOrFindNode, Steps, ThreadTypesOK
  <2>3. QED
    BY <2>1, <2>2, TypesAreAll
<1>6. CASE StoreChild(t)
  <2>0. pc[t] = "store" /\ best[t].move \in Moves
    BY <1>6 DEF StoreChild, Tree, ThreadOK, ViewOK, NewSteps
  <2>1. ASSUME StoresMove(t), UNCHANGED virtualLosses
        PROVE  NodeTypesOK'
    <3>1. /\ children' \in [1..3 -> Seq(Slots)]
          /\ \A j \in 1..3 : Len(children'[j]) = Len(children[j])
      BY <2>0, <2>1, MoveStored
    <3>2. QED
      BY <1>1, <1>6, <2>1, <3>1 DEF StoreChild, NodeTypesOK, stats, bounds
  <2>2. ASSUME UNCHANGED children, AddVirtualLoss(t, -1)
        PROVE  NodeTypesOK'
    <3>1. virtualLosses[best[t].move] >= 1 /\ virtualLosses[best[t].move] \in Nat
      BY <1>1, <2>0, LossIsThere DEF OnTheWay, NodeTypesOK
    <3>2. virtualLosses' \in [Moves -> Nat]
      BY <1>1, <2>0, <2>2, <3>1 DEF AddVirtualLoss, NodeTypesOK
    <3>3. QED
      BY <1>1, <1>6, <2>2, <3>2 DEF StoreChild, NodeTypesOK, stats, bounds
  <2>3. NodeTypesOK'
    BY <1>6, <2>1, <2>2 DEF StoreChild, StoresMove, Arr
  <2>4. ThreadTypesOK'
    BY <1>1, <1>6, TypesOfSteps DEF StoreChild, Steps, ThreadTypesOK
  <2>5. QED
    BY <2>3, <2>4, TypesAreAll
<1>7. QED
  BY <1>2, <1>3, <1>4, <1>5, <1>6 DEF AddChild

(* The steps down to a child and back keep the types. *)
LEMMA TypesVisitChild ==
    ASSUME TypeOK, Tree, VirtualLossesBalance, NEW t \in Threads, VisitChild(t)
    PROVE  TypeOK'
<1>1. ThreadTypesOK /\ NodeTypesOK
  BY TypesAreAll
<1>2. ASSUME best[t].move \in Moves, AddVirtualLoss(t, -1), pc[t] \in OnTheWay
      PROVE  virtualLosses' \in [Moves -> Nat]
  <2>1. virtualLosses[best[t].move] >= 1 /\ virtualLosses[best[t].move] \in Nat
    BY <1>1, <1>2, LossIsThere DEF NodeTypesOK
  <2>2. QED
    BY <1>1, <1>2, <2>1 DEF AddVirtualLoss, NodeTypesOK
<1>3. pc[t] \in EdgeSteps \cup OnTheWay => best[t].move \in Moves
  BY DEF Tree, ThreadOK, ViewOK
<1>4. ASSUME pc[t] \in EdgeSteps, AddEdgeVisits(t)
      PROVE  /\ children' \in [1..3 -> Seq(Slots)]
             /\ \A k \in 1..3 : Len(children'[k]) \in {0, Sizes[k]}
  BY <1>1, <1>4, EdgeAdded DEF SameMoves, NodeTypesOK
<1>5. CASE ReuseChild(t)
  <2>1. virtualLosses' \in [Moves -> Nat]
    BY <1>1, <1>3, <1>5 DEF ReuseChild, AddVirtualLoss, EdgeSteps, NodeTypesOK
  <2>2. NodeTypesOK'
    BY <1>1, <1>5, <2>1 DEF ReuseChild, NodeTypesOK, node, stats, bounds
  <2>3. ThreadTypesOK'
    BY <1>1, <1>5, TypesOfSteps DEF ReuseChild, Steps, ThreadTypesOK
  <2>4. QED
    BY <2>2, <2>3, TypesAreAll
<1>6. CASE maybeCatchUpEdgeVisits(t)
  <2>1. NodeTypesOK'
    BY <1>1, <1>4, <1>6 DEF maybeCatchUpEdgeVisits, NodeTypesOK, EdgeSteps, stats, childVars, bounds
  <2>2. ThreadTypesOK'
    BY <1>1, <1>6, TypesOfSteps DEF maybeCatchUpEdgeVisits, Steps, ThreadTypesOK
  <2>3. QED
    BY <2>1, <2>2, TypesAreAll
<1>7. CASE Descend(t)
  <2>1. pc[t] = "descend" /\ best[t].move \in Moves
    BY <1>3, <1>7 DEF Descend, EdgeSteps
  <2>2. /\ children' \in [1..3 -> Seq(Slots)]
        /\ \A k \in 1..3 : Len(children'[k]) \in {0, Sizes[k]}
    <3>1. AddEdgeVisits(t) \/ children' = children
      BY <1>7 DEF Descend
    <3>2. QED
      BY <1>1, <1>4, <2>1, <3>1 DEF EdgeSteps, NodeTypesOK
  <2>3. virtualLosses' \in [Moves -> Nat] /\ childVisits' \in [Moves -> Nat]
    <3>1. \/ UNCHANGED childVars
          \/ UNCHANGED virtualLosses
             /\ \E n \in 0..1 : childVisits' = [childVisits EXCEPT ![best[t].move] = @ + n]
          \/ AddVirtualLoss(t, -1) /\ UNCHANGED childVisits
      BY <1>7 DEF Descend
    <3>2. QED
      BY <1>1, <1>2, <2>1, <3>1 DEF NodeTypesOK, OnTheWay, childVars
  <2>4. NodeTypesOK'
    BY <1>1, <1>7, <2>2, <2>3 DEF Descend, NodeTypesOK, stats, bounds
  <2>5. ThreadTypesOK'
    BY <1>1, <1>7, TypesOfSteps DEF Descend, Steps, ThreadTypesOK
  <2>6. QED
    BY <2>4, <2>5, TypesAreAll
<1>8. CASE ReloadState(t)
  <2>1. NodeTypesOK'
    BY <1>1, <1>8 DEF ReloadState, NodeTypesOK, node, stats, childVars, bounds
  <2>2. ThreadTypesOK'
    BY <1>1, <1>8 DEF ReloadState, GoTo, Steps, ThreadTypesOK, NodeTypesOK
  <2>3. QED
    BY <2>1, <2>2, TypesAreAll
<1>9. CASE CountVisit(t)
  <2>1. NodeTypesOK'
    BY <1>1, <1>4, <1>9 DEF CountVisit, NodeTypesOK, EdgeSteps, stats, childVars, bounds
  <2>2. ThreadTypesOK'
    BY <1>1, <1>9, TypesOfSteps DEF CountVisit, Steps, ThreadTypesOK
  <2>3. QED
    BY <2>1, <2>2, TypesAreAll
<1>10. CASE ReleaseChild(t)
  <2>1. virtualLosses' \in [Moves -> Nat]
    BY <1>2, <1>3, <1>10 DEF ReleaseChild, OnTheWay
  <2>2. NodeTypesOK'
    BY <1>1, <1>10, <2>1 DEF ReleaseChild, NodeTypesOK, node, stats, bounds
  <2>3. ThreadTypesOK'
    BY <1>10, TypesOfSteps DEF ReleaseChild
  <2>4. QED
    BY <2>2, <2>3, TypesAreAll
<1>11. QED
  BY <1>5, <1>6, <1>7, <1>8, <1>9, <1>10 DEF VisitChild

(* The filled slots are the first ones, so their number says which. *)
LEMMA FilledAreFirst ==
    ASSUME TypeOK, NEW k \in 1..3, Packed(k)
    PROVE  /\ Cardinality(Filled(k)) \in 0..Len(children[k])
           /\ Filled(k) = 1..Cardinality(Filled(k))
<1>1. Len(children[k]) \in Nat
  BY LenProperties DEF TypeOK
<1>2. PICK n \in 0..Len(children[k]) :
               \A i \in 1..Len(children[k]) : Mv(k, i) # NULL <=> i <= n
  BY DEF Packed
<1>3. Filled(k) = 1..n /\ n \in Nat
  BY <1>1, <1>2 DEF Filled, Mv
<1>4. Cardinality(Filled(k)) = n
  BY <1>3, IntervalSize
<1>5. QED
  BY <1>1, <1>2, <1>3, <1>4

(* A thread that reads the children finds the array it looks at.  The slot *)
(* it comes to is in it, or it has come to the end of the children.        *)
LEMMA ReadsInArray ==
    ASSUME TypeOK, Tree, NEW t \in Threads, pc[t] = "read"
    PROVE  /\ Arr(t) \in 1..3 /\ Cap(t) \in Nat /\ Len(children[Arr(t)]) = Cap(t)
           /\ childWeights \in Seq(Nat) /\ Len(childWeights) \in Nat
           /\ ~AllRead(t) => /\ Len(childWeights) + 1 \in 1..Len(children[Arr(t)])
                             /\ NextChild(t) = children[Arr(t)][Len(childWeights) + 1]
                             /\ NextChild(t).edgeVisits \in Nat
           /\ AllRead(t) => \A i \in 1..Len(children[Arr(t)]) :
                                i > Len(childWeights) => Mv(Arr(t), i) = NULL
<1>1. nodeState[t] \in 2..6 /\ nodeState[t] <= state /\ NodeOK
  BY ThreadTypes DEF Tree, ThreadOK, ViewOK, EvalSteps
<1>2. Arr(t) \in 1..3 /\ Cap(t) \in Nat /\ Len(children[Arr(t)]) = Cap(t)
  BY <1>1, ArrayIsThere, ArraysOfStates DEF Arr, Cap
<1>3. childWeights \in Seq(Nat) /\ Len(childWeights) \in Nat
  BY LenProperties DEF TypeOK
<1>4. NextChild(t) = children[Arr(t)][Len(childWeights) + 1]
  BY DEF NextChild, Arr
<1>5. AllRead(t) <=> (Len(childWeights) < Cap(t) => NextChild(t).move = NULL)
  BY DEF AllRead, Cap
<1>6. ASSUME ~AllRead(t)
      PROVE  /\ Len(childWeights) + 1 \in 1..Len(children[Arr(t)])
             /\ NextChild(t).edgeVisits \in Nat
  <2>1. Len(childWeights) + 1 \in 1..Len(children[Arr(t)])
    BY <1>2, <1>3, <1>5, <1>6
  <2>2. children[Arr(t)] \in Seq(Slots)
    BY <1>2 DEF TypeOK
  <2>3. NextChild(t) \in Slots
    BY <1>4, <2>1, <2>2, ElementOfSeq
  <2>4. QED
    BY <2>1, <2>3 DEF Slots
<1>7. ASSUME AllRead(t), NEW i \in 1..Len(children[Arr(t)]), i > Len(childWeights)
      PROVE  Mv(Arr(t), i) = NULL
  <2>1. /\ Len(childWeights) < Cap(t)
        /\ Len(childWeights) + 1 \in 1..Len(children[Arr(t)])
    BY <1>2, <1>3, <1>7
  <2>2. Mv(Arr(t), Len(childWeights) + 1) = NULL
    BY <1>4, <1>5, <1>7, <2>1 DEF Mv
  <2>3. PICK n \in 0..Len(children[Arr(t)]) :
                 \A j \in 1..Len(children[Arr(t)]) : Mv(Arr(t), j) # NULL <=> j <= n
    BY <1>2 DEF Tree, ListOK, Packed
  <2>4. ~(Len(childWeights) + 1 <= n)
    BY <2>1, <2>2, <2>3
  <2>5. ~(i <= n)
    BY <1>2, <1>3, <1>7, <2>4
  <2>6. QED
    BY <2>3, <2>5
<1>8. QED
  BY <1>2, <1>3, <1>4, <1>6, <1>7

(* The thread that recomputes takes off no more than the counter has. *)
LEMMA RecomputingAlone ==
    ASSUME TypeOK, DirtyOK, NEW t \in Threads,
           pc[t] \in {"recompute", "read", "undo"}
    PROVE  Recomputing = {t} /\ numVisitsCompleted[t] \in 1..dirtyCounter
<1>1. t \in Recomputing
  BY DEF Recomputing
<1>2. QED
  BY <1>1 DEF DirtyOK

(* The steps that update the statistics keep the types: no counter gets below 0. *)
LEMMA TypesUpdateStats ==
    ASSUME TypeOK, Tree, DirtyOK, NEW t \in Threads, UpdateStats(t)
    PROVE  TypeOK'
<1>1. ThreadTypesOK /\ NodeTypesOK
  BY TypesAreAll
<1>2. CASE updateStatsAfterPlayout(t)
  <2>1. NodeTypesOK'
    BY <1>1, <1>2 DEF updateStatsAfterPlayout, NodeTypesOK, node, childVars, bounds
  <2>2. ThreadTypesOK'
    <3>1. \E step \in {"release", "recompute"} : GoTo(t, step)
      BY <1>2 DEF updateStatsAfterPlayout
    <3>2. UNCHANGED <<choice, copied>> /\ numVisitsCompleted' \in [Threads -> Nat]
      <4>1. /\ UNCHANGED <<choice, copied>>
            /\ \/ numVisitsCompleted' = numVisitsCompleted
               \/ numVisitsCompleted' = [numVisitsCompleted EXCEPT ![t] = 1]
        BY <1>2 DEF updateStatsAfterPlayout, Completed
      <4>2. QED
        BY <1>1, <4>1 DEF ThreadTypesOK
    <3>3. PICK step \in Steps : GoTo(t, step)
      BY <3>1 DEF Steps
    <3>4. QED
      BY <3>2, <3>3, TypesOfSteps
  <2>3. QED
    BY <2>1, <2>2, TypesAreAll
<1>3. CASE getChildren(t)
  <2>1. NodeTypesOK'
    BY <1>1, <1>3 DEF getChildren, NodeTypesOK, node, childVars, bounds
  <2>2. ThreadTypesOK'
    BY <1>1, <1>3 DEF getChildren, GoTo, Steps, ThreadTypesOK, NodeTypesOK
  <2>3. QED
    BY <2>1, <2>2, TypesAreAll
<1>4. CASE ReadChild(t)
  <2>1. childWeights' \in Seq(Nat)
    <3>1. /\ pc[t] = "read" /\ ~AllRead(t)
          /\ childWeights' = Append(childWeights, NextChild(t).edgeVisits)
      BY <1>4 DEF ReadChild
    <3>2. childWeights \in Seq(Nat) /\ NextChild(t).edgeVisits \in Nat
      BY <3>1, ReadsInArray
    <3>3. QED
      BY <3>1, <3>2, AppendProperties
  <2>2. NodeTypesOK'
    BY <1>1, <1>4, <2>1 DEF ReadChild, NodeTypesOK, node, childVars, bounds
  <2>3. ThreadTypesOK'
    BY <1>1, <1>4 DEF ReadChild, locals, choice, ThreadTypesOK
  <2>4. QED
    BY <2>2, <2>3, TypesAreAll
<1>5. CASE recomputeNodeStats(t)
  <2>1. NodeTypesOK'
    <3>1. visits' \in Nat
      BY <1>1, <1>5 DEF recomputeNodeStats, NodeTypesOK, ThreadTypesOK
    <3>2. QED
      BY <1>1, <1>5, <3>1 DEF recomputeNodeStats, NodeTypesOK, node, childVars, bounds
  <2>2. ThreadTypesOK'
    BY <1>1, <1>5, TypesOfSteps DEF recomputeNodeStats, Steps, ThreadTypesOK
  <2>3. QED
    BY <2>1, <2>2, TypesAreAll
<1>6. CASE UndoDirty(t)
  <2>1. dirtyCounter - numVisitsCompleted[t] \in Nat
    BY <1>1, <1>6, RecomputingAlone DEF UndoDirty, NodeTypesOK
  <2>2. NodeTypesOK'
    BY <1>1, <1>6, <2>1 DEF UndoDirty, NodeTypesOK, node, childVars, bounds
  <2>3. ThreadTypesOK'
    <3>1. \E step \in {"release", "recompute"} : GoTo(t, step)
      BY <1>6 DEF UndoDirty
    <3>2. UNCHANGED <<choice, copied>> /\ numVisitsCompleted' \in [Threads -> Nat]
      BY <1>1, <1>6, <2>1 DEF UndoDirty, Completed, ThreadTypesOK
    <3>3. PICK step \in Steps : GoTo(t, step)
      BY <3>1 DEF Steps
    <3>4. QED
      BY <3>2, <3>3, TypesOfSteps
  <2>4. QED
    BY <2>2, <2>3, TypesAreAll
<1>7. QED
  BY <1>2, <1>3, <1>4, <1>5, <1>6 DEF UpdateStats

(* A visit of a child from another node touches nothing else. *)
LEMMA VisitIsElsewhere ==
    ASSUME IInv, NEW m \in Shared, VisitFromElsewhere(m)
    PROVE  IInv'
<1>1. ThreadTypesOK /\ NodeTypesOK
  BY TypesAreAll DEF IInv
<1>2. /\ UNCHANGED <<state, nnOutput, children, visits, childWeights, dirtyCounter>>
      /\ UNCHANGED <<pc, nodeState, seen, best, retried, copied, numVisitsCompleted>>
      /\ UNCHANGED virtualLosses
  BY DEF VisitFromElsewhere, node, stats, locals, choice
<1>3. TypeOK'
  <2>1. ThreadTypesOK'
    BY <1>1, <1>2 DEF ThreadTypesOK
  <2>2. m \in Moves
    BY NodeAssumption
  <2>3. NodeTypesOK'
    BY <1>1, <1>2, <2>2 DEF VisitFromElsewhere, NodeTypesOK
  <2>4. QED
    BY <2>1, <2>3, TypesAreAll
<1>4. Tree'
  BY <1>2 DEF IInv, Tree, NodeOK, ListOK, Alone, ThreadOK, EvalOK, ViewOK, CopyOK, Packed,
              Distinct, Prefix, Mv, Cap, Arr
<1>5. VirtualLossesBalance' /\ DirtyOK'
  BY <1>2 DEF IInv, VirtualLossesBalance, DirtyOK, Recomputing
<1>6. QED
  BY <1>3, <1>4, <1>5 DEF IInv

(* A step that changes nothing keeps the invariant. *)
LEMMA Stuttering == ASSUME IInv, UNCHANGED vars PROVE IInv'
<1>1. ThreadTypesOK /\ NodeTypesOK
  BY TypesAreAll DEF IInv
<1>2. /\ UNCHANGED <<state, nnOutput, children, visits, childWeights, dirtyCounter>>
      /\ UNCHANGED <<pc, nodeState, seen, best, retried, copied, numVisitsCompleted>>
      /\ UNCHANGED <<childVisits, virtualLosses, uncounted, begun, elsewhere>>
  BY DEF vars, node, stats, childVars, locals, choice, bounds
<1>3. TypeOK'
  BY <1>1, <1>2, TypesAreAll DEF ThreadTypesOK, NodeTypesOK
<1>4. Tree'
  BY <1>2 DEF IInv, Tree, NodeOK, ListOK, Alone, ThreadOK, EvalOK, ViewOK, CopyOK, Packed,
              Distinct, Prefix, Mv, Cap, Arr
<1>5. VirtualLossesBalance' /\ DirtyOK'
  BY <1>2 DEF IInv, VirtualLossesBalance, DirtyOK, Recomputing
<1>6. QED
  BY <1>3, <1>4, <1>5 DEF IInv

(* Every step of a thread keeps the types. *)
LEMMA TypesStep ==
    ASSUME IInv, NEW t \in Threads, playoutDescend(t) \/ Playout(t)
    PROVE  TypeOK'
BY TypesEvaluate, TypesSelectChild, TypesAddChild, TypesVisitChild, TypesUpdateStats
   DEF IInv, Playout

-----------------------------------------------------------------------------
(* The tree.  What a thread relies on when it leaves the node, and when it *)
(* begins to select.                                                       *)
LEMMA ReturnsOK ==
    ASSUME TypeOK, TypeOK', NEW t \in Threads, ThreadOK(t), Return(t), pc[t] # "copy"
    PROVE  ThreadOK(t)' /\ pc'[t] = "idle"
<1>1. pc'[t] = "idle" /\ nodeState'[t] = 0 /\ copied'[t] = <<>> /\ state' \in 0..6
  BY DEF Return, GoTo, ThreadOK, CopyOK, TypeOK, STATE_UNEVALUATED, STATE_EXPANDED2
<1>2. QED
  BY <1>1 DEF ThreadOK, EvalOK, ViewOK, CopyOK, EvalSteps, NewSteps, EdgeSteps, OnTheWay

(* A thread that selects begins with no child seen. *)
LEMMA SelectsOK ==
    ASSUME TypeOK, TypeOK', NEW t \in Threads, ThreadOK(t), Select(t), pc[t] # "copy",
           state >= 2, UNCHANGED <<state, copied>>
    PROVE  ThreadOK(t)' /\ pc'[t] = "select"
<1>1. /\ pc'[t] = "select" /\ nodeState'[t] = state /\ copied'[t] = <<>> /\ seen'[t] = <<>>
      /\ state \in 0..6
  BY DEF Select, GoTo, ThreadOK, CopyOK, TypeOK, STATE_UNEVALUATED, STATE_EXPANDED2
<1>2. Cap(t)' \in Nat
  BY <1>1, ArraysOfStates, SizesAreSizes DEF Cap
<1>3. QED
  BY <1>1, <1>2 DEF ThreadOK, EvalOK, ViewOK, CopyOK, EvalSteps, NewSteps, EdgeSteps, OnTheWay

(* A step that leaves the node alone, but may count a visit. *)
LEMMA TreeAtRest ==
    ASSUME TypeOK, TypeOK', Tree, NEW t \in Threads, Only(t), UNCHANGED node,
           visits' >= visits, ThreadOK(t)',
           pc'[t] \in EvalSteps => pc[t] \in EvalSteps,
           pc'[t] = "copy" => pc[t] = "copy"
    PROVE  Tree'
BY NodeSame, TreeStep

(* A step that adds to the visits of an edge. *)
LEMMA TreeWithEdge ==
    ASSUME TypeOK, TypeOK', Tree, NEW t \in Threads, Only(t), pc[t] \in EdgeSteps,
           AddEdgeVisits(t), UNCHANGED <<state, nnOutput, visits>>, ThreadOK(t)',
           pc'[t] \notin EvalSteps \cup {"copy"}
    PROVE  Tree'
<1>1. SameMoves
  BY EdgeAdded
<1>2. QED
  BY <1>1, MovesSame, TreeStep

(* The steps of a thread that evaluates the node, or begins a playout. *)
LEMMA TreeEvaluate ==
    ASSUME IInv, TypeOK', NEW t \in Threads, playoutDescend(t) \/ Evaluate(t), Only(t)
    PROVE  Tree'
<1>1. /\ TypeOK /\ Tree /\ NodeOK /\ ListOK /\ ThreadOK(t)
      /\ state \in 0..6 /\ nodeState[t] \in 0..6 /\ visits \in Nat /\ visits' \in Nat
  BY ThreadTypes DEF IInv, Tree, TypeOK, STATE_UNEVALUATED, STATE_EXPANDED2
<1>2. CASE playoutDescend(t)
  <2>1. UNCHANGED node /\ visits' = visits /\ pc[t] = "idle" /\ UNCHANGED copied
    BY <1>2 DEF playoutDescend, stats
  <2>2. ThreadOK(t)' /\ pc'[t] \in {"initNodeNNOutput", "select"}
    <3>1. CASE state >= STATE_EXPANDED0 /\ Select(t)
      BY <1>1, <2>1, <3>1, SelectsOK DEF node, STATE_EXPANDED0
    <3>2. CASE GoTo(t, "initNodeNNOutput") /\ UNCHANGED choice
      <4>1. pc'[t] = "initNodeNNOutput" /\ nodeState'[t] = nodeState[t] /\ state' = state
            /\ copied'[t] = <<>>
        BY <1>1, <2>1, <3>2 DEF GoTo, choice, TypeOK, node, ThreadOK, CopyOK
      <4>2. QED
        BY <1>1, <4>1 DEF ThreadOK, EvalOK, ViewOK, CopyOK, EvalSteps, NewSteps, EdgeSteps,
                          OnTheWay
    <3>3. QED
      BY <1>2, <3>1, <3>2 DEF playoutDescend
  <2>3. QED
    BY <1>1, <2>1, <2>2, TreeAtRest DEF EvalSteps
<1>3. CASE storeNNOutputIfNull(t)
  <2>1. /\ pc[t] = "initNodeNNOutput" /\ nnOutput' = TRUE
        /\ UNCHANGED <<state, children, visits, copied>>
    BY <1>3 DEF storeNNOutputIfNull, stats, Return
  <2>2. NodeGrows /\ NodeOK' /\ ListOK'
    BY <1>1, <2>1 DEF NodeGrows, NodeOK, ListOK, Packed, Distinct, Prefix, Mv
  <2>3. ThreadOK(t)' /\ (pc'[t] = "idle" \/ (pc'[t] = "addLeafValue" /\ ~nnOutput))
    <3>1. CASE Return(t)
      BY <1>1, <2>1, <3>1, ReturnsOK
    <3>2. CASE ~nnOutput /\ GoTo(t, "addLeafValue") /\ UNCHANGED choice
      <4>1. pc'[t] = "addLeafValue" /\ nodeState'[t] = nodeState[t] /\ copied'[t] = <<>>
        BY <1>1, <2>1, <3>2 DEF GoTo, choice, TypeOK, ThreadOK, CopyOK
      <4>2. state = 0 /\ nodeState[t] <= state
        BY <1>1, <3>2 DEF NodeOK, ThreadOK, ViewOK
      <4>3. QED
        BY <1>1, <2>1, <3>2, <4>1, <4>2 DEF ThreadOK, EvalOK, ViewOK, CopyOK, EvalSteps,
                                             NewSteps, EdgeSteps, OnTheWay
    <3>3. QED
      BY <1>3, <3>1, <3>2 DEF storeNNOutputIfNull
  <2>4. QED
    BY <1>1, <2>1, <2>2, <2>3, TreeStep DEF EvalSteps
<1>4. CASE addLeafValue(t)
  <2>1. /\ pc[t] = "addLeafValue" /\ visits' = visits + 1 /\ UNCHANGED node
        /\ GoTo(t, "claim") /\ UNCHANGED <<choice, copied>>
    BY <1>4 DEF addLeafValue
  <2>2. pc'[t] = "claim" /\ nodeState'[t] = nodeState[t] /\ copied'[t] = <<>>
    BY <1>1, <2>1 DEF GoTo, choice, TypeOK, ThreadOK, CopyOK
  <2>3. ThreadOK(t)'
    BY <1>1, <2>1, <2>2 DEF ThreadOK, EvalOK, ViewOK, CopyOK, EvalSteps, NewSteps, EdgeSteps,
                            OnTheWay, node
  <2>4. QED
    BY <1>1, <2>1, <2>2, <2>3, TreeAtRest DEF EvalSteps
<1>5. CASE ClaimEvaluation(t)
  <2>1. /\ pc[t] = "claim" /\ state = 0 /\ state' = 1 /\ nnOutput /\ visits >= 1
        /\ GoTo(t, "initializeChildren") /\ UNCHANGED <<choice, copied>>
        /\ UNCHANGED <<nnOutput, children, visits>>
    BY <1>1, <1>5 DEF ClaimEvaluation, stats, ThreadOK, EvalOK, EvalSteps, STATE_UNEVALUATED,
                      STATE_EVALUATING
  <2>2. NodeGrows /\ NodeOK' /\ ListOK'
    BY <1>1, <2>1 DEF NodeGrows, NodeOK, ListOK, Packed, Distinct, Prefix, Mv
  <2>3. pc'[t] = "initializeChildren" /\ nodeState'[t] = nodeState[t] /\ copied'[t] = <<>>
    BY <1>1, <2>1 DEF GoTo, choice, TypeOK, ThreadOK, CopyOK
  <2>4. ThreadOK(t)'
    BY <1>1, <2>1, <2>3 DEF ThreadOK, EvalOK, ViewOK, CopyOK, EvalSteps, NewSteps, EdgeSteps,
                            OnTheWay
  <2>5. QED
    BY <1>1, <2>1, <2>2, <2>3, <2>4, TreeStep DEF EvalSteps, MayChangeState
<1>6. CASE initializeChildren(t)
  <2>1. /\ pc[t] = "initializeChildren" /\ state = 1 /\ nnOutput /\ visits >= 1
        /\ children' = [children EXCEPT ![1] = NewArray(CHILDREN0SIZE)]
        /\ GoTo(t, "expand0") /\ UNCHANGED <<choice, copied>>
        /\ UNCHANGED <<nnOutput, state, visits>>
    BY <1>1, <1>6 DEF initializeChildren, stats, ThreadOK, EvalOK, EvalSteps
  <2>2. /\ CHILDREN0SIZE \in Nat \ {0} /\ Sizes[1] = CHILDREN0SIZE
        /\ NewArray(CHILDREN0SIZE) \in Seq(Slots)
        /\ Len(NewArray(CHILDREN0SIZE)) = CHILDREN0SIZE
        /\ \A i \in 1..CHILDREN0SIZE : NewArray(CHILDREN0SIZE)[i].move = NULL
    BY NodeAssumption, TypeOfSlots DEF Sizes
  <2>3. /\ children \in [1..3 -> Seq(Slots)] /\ Len(children[1]) \in {0, Sizes[1]}
        /\ \A i \in 1..Len(children[1]) : children[1][i].move = NULL
        /\ Len(children[2]) = 0 /\ Len(children[3]) = 0
    BY <1>1, <2>1 DEF TypeOK, NodeOK, Mv
  <2>4. /\ Len(children'[1]) = Sizes[1] /\ children'[2] = children[2]
        /\ children'[3] = children[3]
        /\ \A i \in 1..Sizes[1] : children'[1][i].move = NULL
    BY <2>1, <2>2, <2>3
  <2>5. NodeGrows
    BY <1>1, <2>1, <2>2, <2>3, <2>4 DEF NodeGrows, Mv
  <2>6. NodeOK'
    BY <1>1, <2>1, <2>2, <2>3, <2>4 DEF NodeOK, Mv
  <2>7. ListOK'
    <3>1. Packed(1)' /\ Distinct(1)'
      BY <2>2, <2>4 DEF Packed, Distinct, Mv
    <3>2. \A k \in 2..3 : Packed(k)' /\ Distinct(k)'
      BY <2>3, <2>4 DEF Packed, Distinct, Mv
    <3>3. Prefix(1)' /\ Prefix(2)'
      BY <2>3, <2>4 DEF Prefix
    <3>4. QED
      BY <3>1, <3>2, <3>3 DEF ListOK
  <2>8. pc'[t] = "expand0" /\ nodeState'[t] = nodeState[t] /\ copied'[t] = <<>>
    BY <1>1, <2>1 DEF GoTo, choice, TypeOK, ThreadOK, CopyOK
  <2>9. ThreadOK(t)'
    BY <1>1, <2>1, <2>4, <2>8 DEF ThreadOK, EvalOK, ViewOK, CopyOK, EvalSteps, NewSteps,
                                  EdgeSteps, OnTheWay
  <2>10. QED
    BY <1>1, <2>1, <2>5, <2>6, <2>7, <2>8, <2>9, TreeStep DEF EvalSteps
<1>7. CASE Expand0(t)
  <2>1. /\ pc[t] = "expand0" /\ state = 1 /\ state' = 2 /\ nnOutput /\ visits >= 1
        /\ Return(t) /\ UNCHANGED <<nnOutput, children, visits>>
        /\ Len(children[1]) = Sizes[1]
    BY <1>1, <1>7 DEF Expand0, stats, ThreadOK, EvalOK, EvalSteps, STATE_EXPANDED0
  <2>2. NodeGrows /\ NodeOK' /\ ListOK'
    BY <1>1, <2>1 DEF NodeGrows, NodeOK, ListOK, Packed, Distinct, Prefix, Mv
  <2>3. ThreadOK(t)' /\ pc'[t] = "idle"
    BY <1>1, <2>1, ReturnsOK
  <2>4. QED
    BY <1>1, <2>1, <2>2, <2>3, TreeStep DEF EvalSteps, MayChangeState
<1>8. QED
  BY <1>2, <1>3, <1>4, <1>5, <1>6, <1>7 DEF Evaluate

(* The steps of a thread that chooses. *)
LEMMA TreeSelectChild ==
    ASSUME IInv, TypeOK', NEW t \in Threads, SelectChild(t), Only(t)
    PROVE  Tree'
<1>1. /\ TypeOK /\ Tree /\ NodeOK /\ ListOK /\ ThreadOK(t)
      /\ state \in 0..6 /\ nodeState[t] \in 0..6 /\ visits \in Nat /\ visits' \in Nat
      /\ nodeState[t] <= state
  BY ThreadTypes DEF IInv, Tree, TypeOK, ThreadOK, ViewOK, STATE_UNEVALUATED, STATE_EXPANDED2
<1>2. CASE SeeChild(t)
  <2>1. /\ pc[t] = "select" /\ pc' = pc /\ UNCHANGED <<node, visits>>
        /\ UNCHANGED <<nodeState, best, copied>>
        /\ seen' = [seen EXCEPT ![t] = Append(@, NextSlot(t).move)]
    BY <1>2 DEF SeeChild, stats
  <2>2. /\ seen[t] \in Seq(Moves) /\ Len(seen[t]) \in Nat
        /\ nodeState[t] >= 2 /\ Len(seen[t]) <= Cap(t)
        /\ \A i \in 1..Len(seen[t]) : Mv(Arr(t), i) = seen[t][i]
    BY <1>1, <2>1, ThreadTypes, LenProperties DEF ThreadOK, ViewOK, EvalSteps
  <2>3. Cap(t) \in Nat /\ Len(seen[t]) < Cap(t)
    <3>1. Cap(t) \in Nat
      BY <1>1, ArraysOfStates, SizesAreSizes DEF Cap
    <3>2. QED
      BY <1>2, <2>2, <3>1 DEF SeeChild, AtEnd, Cap
  <2>4. NextSlot(t).move = Mv(Arr(t), Len(seen[t]) + 1)
    BY DEF NextSlot, Mv, Arr
  <2>5. seen'[t] = Append(seen[t], Mv(Arr(t), Len(seen[t]) + 1))
    BY <1>1, <2>1, <2>4 DEF TypeOK
  <2>6. /\ Len(seen'[t]) = Len(seen[t]) + 1
        /\ seen'[t][Len(seen[t]) + 1] = Mv(Arr(t), Len(seen[t]) + 1)
        /\ \A i \in 1..Len(seen[t]) : seen'[t][i] = seen[t][i]
    BY <2>2, <2>5
  <2>7. ASSUME NEW i \in 1..Len(seen'[t])
        PROVE  Mv(Arr(t), i) = seen'[t][i]
    <3>1. i \in 1..Len(seen[t]) \/ i = Len(seen[t]) + 1
      BY <2>2, <2>6
    <3>2. QED
      BY <2>2, <2>6, <3>1
  <2>8. Mv(Arr(t), 1) = Mv(Arr(t), 1) /\ Arr(t)' = Arr(t) /\ Cap(t)' = Cap(t)
        /\ children' = children /\ state' = state
    BY <2>1 DEF Arr, Cap, node
  <2>9. \A i \in 1..Len(seen'[t]) : Mv(Arr(t), i)' = seen'[t][i]
    BY <2>7, <2>8 DEF Mv
  <2>10. ThreadOK(t)'
    BY <1>1, <2>1, <2>2, <2>3, <2>6, <2>8, <2>9
       DEF ThreadOK, EvalOK, ViewOK, CopyOK, EvalSteps, NewSteps, EdgeSteps, OnTheWay
  <2>11. QED
    BY <1>1, <2>1, <2>10, TreeAtRest
<1>3. CASE selectBestChildToDescend(t)
  <2>1. /\ pc[t] = "select" /\ UNCHANGED <<node, visits>>
    BY <1>3 DEF selectBestChildToDescend, stats
  <2>2. PICK b \in Candidates(t) : \E step \in StepsAfter(t, b) :
            IF step = "idle" THEN Return(t)
            ELSE /\ GoTo(t, step)
                 /\ best' = [best EXCEPT ![t] = b]
                 /\ seen' = [seen EXCEPT ![t] = <<>>]
                 /\ retried' = [retried EXCEPT ![t] = FALSE]
                 /\ UNCHANGED <<nodeState, copied, numVisitsCompleted>>
    BY <1>3 DEF selectBestChildToDescend
  <2>3. ThreadOK(t)' /\ pc'[t] \notin EvalSteps \cup {"copy"}
    <3>1. CASE Return(t)
      BY <1>1, <2>1, <3>1, ReturnsOK DEF EvalSteps
    <3>2. CASE ~Return(t)
      <4>1. PICK step \in StepsAfter(t, b) :
                 /\ step # "idle" /\ GoTo(t, step)
                 /\ best' = [best EXCEPT ![t] = b]
                 /\ UNCHANGED <<nodeState, copied>>
        BY <2>2, <3>2
      <4>2. step \in (IF IsNew(t, b) THEN {"grow", "reInit"}
                      ELSE {"reuse", "reInit", "visitAgain"})
        BY <4>1 DEF StepsAfter
      <4>3. /\ pc'[t] = step /\ best'[t] = b /\ nodeState'[t] = nodeState[t]
            /\ copied'[t] = <<>> /\ state' = state /\ children' = children
            /\ Arr(t)' = Arr(t) /\ Cap(t)' = Cap(t) /\ nodeState[t] >= 2
        BY <1>1, <2>1, <4>1 DEF GoTo, TypeOK, ThreadOK, CopyOK, ViewOK, EvalSteps, node, Arr, Cap
      <4>4. /\ b.idx \in 1..(Cap(t) + 1) /\ b.move \in Moves
            /\ IsNew(t, b) =>
                  \A i \in 1..(b.idx - 1) : Mv(Arr(t), i) \notin {NULL, b.move}
            /\ ~IsNew(t, b) => b.idx \in 1..Cap(t)
        <5>1. Cap(t) \in Nat
          BY <1>1, ArraysOfStates, SizesAreSizes DEF Cap
        <5>2. QED
          BY <1>1, <2>1, <5>1, ChoiceIsSound
      <4>5. \A i \in 1..(b.idx - 1) : Mv(Arr(t), i)' = Mv(Arr(t), i)
        BY <4>3 DEF Mv
      <4>6. QED
        BY <1>1, <4>2, <4>3, <4>4, <4>5
           DEF ThreadOK, EvalOK, ViewOK, CopyOK, EvalSteps, NewSteps, EdgeSteps, OnTheWay
    <3>3. QED
      BY <3>1, <3>2
  <2>4. QED
    BY <1>1, <2>1, <2>3, TreeAtRest
<1>4. CASE SelectNothing(t)
  <2>1. pc[t] = "select" /\ UNCHANGED node /\ visits' = visits + 1 /\ Return(t)
    BY <1>4 DEF SelectNothing
  <2>2. ThreadOK(t)' /\ pc'[t] = "idle"
    BY <1>1, <2>1, ReturnsOK
  <2>3. QED
    BY <1>1, <2>1, <2>2, TreeAtRest DEF EvalSteps
<1>5. CASE ReInit(t)
  <2>1. /\ pc[t] = "reInit" /\ nnOutput' = TRUE /\ Select(t)
        /\ UNCHANGED <<state, children, visits, copied>>
    BY <1>5 DEF ReInit, stats
  <2>2. NodeGrows /\ NodeOK' /\ ListOK'
    <3>1. NodeGrows
      BY <1>1, <2>1 DEF NodeGrows
    <3>2. NodeOK'
      BY <1>1, <2>1 DEF NodeOK, Mv
    <3>3. ListOK'
      BY <1>1, <2>1 DEF ListOK, Packed, Distinct, Prefix, Mv
    <3>4. QED
      BY <3>1, <3>2, <3>3
  <2>3. ThreadOK(t)' /\ pc'[t] = "select"
    <3>1. state >= 2
      BY <1>1, <2>1 DEF ThreadOK, ViewOK, EvalSteps
    <3>2. QED
      BY <1>1, <2>1, <3>1, SelectsOK
  <2>4. QED
    BY <1>1, <2>1, <2>2, <2>3, TreeStep DEF EvalSteps
<1>6. CASE VisitAgain(t)
  <2>1. /\ pc[t] = "visitAgain" /\ AddEdgeVisits(t) /\ Return(t)
        /\ UNCHANGED <<state, nnOutput, visits>>
    BY <1>6 DEF VisitAgain, stats
  <2>2. ThreadOK(t)' /\ pc'[t] = "idle"
    BY <1>1, <2>1, ReturnsOK
  <2>3. QED
    BY <1>1, <2>1, <2>2, TreeWithEdge DEF EvalSteps, EdgeSteps
<1>7. QED
  BY <1>2, <1>3, <1>4, <1>5, <1>6 DEF SelectChild

(* The steps of a thread that adds a child.  A thread that stores one puts *)
(* it behind all the children there are, so the list stays one; the arrays *)
(* before the last are full, so a free slot is in the last.                *)
LEMMA StoreKeepsList ==
    ASSUME IInv, TypeOK', NEW t \in Threads, pc[t] = "store",
           Mv(Arr(t), best[t].idx) = NULL, StoresMove(t), UNCHANGED <<state, nnOutput, visits>>
    PROVE  NodeGrows /\ NodeOK' /\ ListOK'
<1>1. /\ TypeOK /\ Tree /\ NodeOK /\ ListOK /\ ThreadOK(t) /\ state \in 0..6
      /\ nodeState[t] \in 2..6 /\ nodeState[t] <= state /\ visits \in Nat
  <2>1. TypeOK /\ Tree /\ NodeOK /\ ListOK /\ ThreadOK(t)
    BY DEF IInv, Tree
  <2>2. state \in 0..6 /\ visits \in Nat /\ nodeState[t] \in 0..6
    BY <2>1, ThreadTypes DEF TypeOK, STATE_UNEVALUATED, STATE_EXPANDED2
  <2>3. nodeState[t] >= 2 /\ nodeState[t] <= state
    BY <2>1 DEF ThreadOK, ViewOK, EvalSteps
  <2>4. QED
    BY <2>1, <2>2, <2>3
<1>0. PICK k, i, m : k = Arr(t) /\ i = best[t].idx /\ m = best[t].move
  OBVIOUS
<1>2. /\ k \in 1..3 /\ i \in 1..Len(children[k]) /\ m \in Moves /\ m # NULL
      /\ \A j \in 1..(i - 1) : Mv(k, j) \notin {NULL, m}
      /\ Mv(k, i) = NULL
  <2>1. best[t].idx <= Cap(t) /\ pc[t] \in NewSteps
        /\ \A j \in 1..(i - 1) : Mv(k, j) \notin {NULL, m}
    BY <1>0, <1>1 DEF ThreadOK, ViewOK, NewSteps
  <2>2. QED
    BY <1>0, <1>1, <2>1, ChosenSlot, NodeAssumption
<1>3. \A j \in 1..3 : Len(children'[j]) = Len(children[j])
  BY <1>1, MoveStored
<1>4. \A j \in 1..3 : \A l \in 1..Len(children[j]) :
          Mv(j, l)' = IF j = k /\ l = i THEN m ELSE Mv(j, l)
  BY <1>0, <1>1, MoveStored DEF Mv
<1>5. \A j \in 1..3 : Len(children[j]) \in Nat
  BY <1>1, LenProperties DEF TypeOK
<1>6. /\ k < 3 => Len(children[k + 1]) = 0
      /\ k = 1 => state < 4
      /\ k = 2 => state < 6
  <2>1. ASSUME k \in 1..2, Len(children[k + 1]) # 0
        PROVE  FALSE
    <3>1. Prefix(k) /\ k + 1 \in 1..3
      BY <1>1, <2>1 DEF ListOK
    <3>2. Len(children[k + 1]) > 0
      BY <1>5, <2>1, <3>1
    <3>3. Mv(k, i) # NULL
      BY <1>2, <3>1, <3>2 DEF Prefix
    <3>4. QED
      BY <1>2, <3>3
  <2>2. k < 3 => Len(children[k + 1]) = 0
    BY <1>2, <2>1
  <2>3. QED
    BY <1>1, <2>2, SizesAreSizes DEF NodeOK
<1>7. state >= 2
  BY <1>1
<1>8. NodeGrows
  <2>1. \A j \in 1..3 : \A l \in 1..Len(children[j]) : Mv(j, l) # NULL => Mv(j, l)' = Mv(j, l)
    BY <1>2, <1>4
  <2>2. QED
    BY <1>1, <1>3, <2>1 DEF NodeGrows, Mv
<1>9. NodeOK'
  BY <1>1, <1>3, <1>7 DEF NodeOK
<1>10. ASSUME NEW j \in 1..3
       PROVE  Packed(j)' /\ Distinct(j)'
  <2>1. Packed(j) /\ Distinct(j) /\ Len(children'[j]) = Len(children[j])
    BY <1>1, <1>3 DEF ListOK
  <2>2. CASE j # k
    <3>1. \A l \in 1..Len(children[j]) : Mv(j, l)' = Mv(j, l)
      BY <1>4, <2>2
    <3>2. Packed(j)'
      BY <2>1, <3>1 DEF Packed
    <3>3. Distinct(j)'
      BY <2>1, <3>1 DEF Distinct
    <3>4. QED
      BY <3>2, <3>3
  <2>3. CASE j = k
    <3>1. PICK n \in 0..Len(children[k]) :
                  \A l \in 1..Len(children[k]) : Mv(k, l) # NULL <=> l <= n
      BY <2>1, <2>3 DEF Packed
    <3>2. n = i - 1
      <4>1. ~(i <= n)
        BY <1>2, <3>1
      <4>2. i - 1 \in 1..Len(children[k]) => i - 1 <= n
        BY <1>2, <1>5, <3>1
      <4>3. QED
        BY <1>2, <1>5, <4>1, <4>2
    <3>3. \A l \in 1..Len(children[k]) : Mv(k, l)' = IF l = i THEN m ELSE Mv(k, l)
      BY <1>2, <1>4
    <3>4. \A l \in 1..Len(children[k]) : Mv(k, l)' # NULL <=> l <= i
      BY <1>2, <1>5, <3>1, <3>2, <3>3
    <3>5. Packed(k)'
      <4>1. i \in 0..Len(children'[k])
        BY <1>2, <1>3, <1>5
      <4>2. QED
        BY <1>2, <1>3, <3>4, <4>1 DEF Packed
    <3>6. Distinct(k)'
      <4>1. ASSUME NEW a \in 1..Len(children[k]), NEW b \in 1..Len(children[k]),
                   Mv(k, a)' # NULL, Mv(k, a)' = Mv(k, b)'
            PROVE  a = b
        <5>1. a <= i /\ b <= i
          BY <3>4, <4>1
        <5>2. CASE a = i /\ b # i
          <6>1. b \in 1..(i - 1) /\ Mv(k, b) = m
            BY <1>2, <1>5, <3>3, <4>1, <5>1, <5>2
          <6>2. QED
            BY <1>2, <6>1
        <5>3. CASE a # i /\ b = i
          <6>1. a \in 1..(i - 1) /\ Mv(k, a) = m
            BY <1>2, <1>5, <3>3, <4>1, <5>1, <5>3
          <6>2. QED
            BY <1>2, <6>1
        <5>4. CASE a # i /\ b # i
          BY <2>1, <2>3, <3>3, <4>1, <5>4 DEF Distinct
        <5>5. QED
          BY <5>2, <5>3, <5>4
      <4>2. QED
        BY <1>2, <1>3, <4>1 DEF Distinct
    <3>7. QED
      BY <2>3, <3>5, <3>6
  <2>4. QED
    BY <2>2, <2>3
<1>11. ASSUME NEW j \in 1..2
       PROVE  Prefix(j)'
  <2>1. /\ j \in 1..3 /\ j + 1 \in 1..3 /\ Prefix(j)
        /\ Len(children'[j]) = Len(children[j])
        /\ Len(children'[j + 1]) = Len(children[j + 1])
    BY <1>1, <1>3 DEF ListOK
  <2>2. CASE Len(children[j + 1]) = 0
    BY <2>1, <2>2 DEF Prefix
  <2>3. CASE Len(children[j + 1]) > 0
    <3>1. j # k
      BY <1>2, <1>6, <2>3
    <3>2. /\ Len(children[j]) = Sizes[j] /\ Sizes[j] \in Nat
          /\ \A l \in 1..Sizes[j] : Mv(j, l) # NULL /\ Mv(j, l) = Mv(j + 1, l)
      BY <2>1, <2>3, SizesAreSizes DEF Prefix
    <3>3. Len(children[j + 1]) = Sizes[j + 1] /\ Sizes[j] < Sizes[j + 1] /\ Sizes[j + 1] \in Nat
      <4>1. Len(children[j + 1]) \in {0, Sizes[j + 1]}
        BY <1>1, <2>1 DEF TypeOK
      <4>2. QED
        BY <2>1, <2>3, <4>1, SizesAreSizes
    <3>4. ASSUME NEW l \in 1..Sizes[j]
          PROVE  Mv(j, l)' # NULL /\ Mv(j, l)' = Mv(j + 1, l)'
      <4>1. l \in 1..Len(children[j]) /\ l \in 1..Len(children[j + 1])
        BY <3>2, <3>3
      <4>2. Mv(j, l)' = Mv(j, l)
        BY <1>4, <2>1, <3>1, <4>1
      <4>3. Mv(j + 1, l)' = Mv(j + 1, l)
        <5>1. Mv(j + 1, l) # NULL
          BY <3>2
        <5>2. QED
          BY <1>2, <1>4, <2>1, <4>1, <5>1
      <4>4. QED
        BY <3>2, <4>2, <4>3
    <3>5. QED
      BY <2>1, <3>2, <3>4 DEF Prefix
  <2>4. QED
    BY <1>5, <2>1, <2>2, <2>3
<1>12. QED
  BY <1>8, <1>9, <1>10, <1>11 DEF ListOK

(* The new array takes over the list. *)
LEMMA PublishKeepsList ==
    ASSUME IInv, TypeOK', NEW t \in Threads, PublishChildren(t)
    PROVE  NodeGrows /\ NodeOK' /\ ListOK' /\ ThreadOK(t)'
<1>1. TypeOK /\ Tree /\ NodeOK /\ ListOK /\ ThreadOK(t)
  BY DEF IInv, Tree
<1>2. PICK k \in 1..2 : k = Arr(t)
  BY <1>1, ArrayPublished
<1>3. /\ state = nodeState[t] /\ state \in {3, 5}
      /\ state' = state + 1 /\ k = (IF state = 3 THEN 1 ELSE 2)
      /\ \A j \in 1..3 : j # k + 1 => children'[j] = children[j]
      /\ Len(children[k]) = Sizes[k] /\ Cap(t) = Sizes[k]
      /\ Len(children'[k + 1]) = Sizes[k + 1] /\ Len(children[k + 1]) = 0
      /\ \A i \in 1..Sizes[k] : Mv(k, i) # NULL /\ Mv(k + 1, i)' = Mv(k, i)
      /\ \A i \in (Sizes[k] + 1)..Sizes[k + 1] : Mv(k + 1, i)' = NULL
  BY <1>1, <1>2, ArrayPublished DEF Mv
<1>4. /\ UNCHANGED <<nnOutput, visits, best>> /\ pc[t] = "copy" /\ pc'[t] = "grow"
      /\ nodeState'[t] = state + 1 /\ copied'[t] = <<>> /\ visits \in Nat
  BY <1>1, <1>3 DEF PublishChildren, GoTo, TypeOK, stats
<1>5. /\ Sizes[k] \in Nat \ {0} /\ Sizes[k + 1] \in Nat /\ Sizes[k] < Sizes[k + 1]
      /\ Sizes[1] \in Nat \ {0} /\ Sizes[2] \in Nat \ {0} /\ Sizes[3] \in Nat \ {0}
  BY SizesAreSizes
<1>6. NodeGrows
  <2>1. ASSUME NEW j \in 1..3
        PROVE  /\ Len(children[j]) > 0 => Len(children'[j]) = Len(children[j])
               /\ \A i \in 1..Len(children[j]) : Mv(j, i) # NULL => Mv(j, i)' = Mv(j, i)
    BY <1>3 DEF Mv
  <2>2. QED
    BY <1>3, <1>4, <2>1 DEF NodeGrows, Mv
<1>7. NodeOK'
  <2>1. CASE state = 3
    BY <1>1, <1>3, <1>4, <1>5, <2>1 DEF NodeOK
  <2>2. CASE state = 5
    BY <1>1, <1>3, <1>4, <1>5, <2>2 DEF NodeOK
  <2>3. QED
    BY <1>3, <2>1, <2>2
<1>8. ASSUME NEW j \in 1..3
      PROVE  Packed(j)' /\ Distinct(j)'
  <2>1. CASE j # k + 1
    <3>1. children'[j] = children[j] /\ Packed(j) /\ Distinct(j)
      BY <1>1, <1>3, <2>1 DEF ListOK
    <3>2. QED
      BY <3>1 DEF Packed, Distinct, Mv
  <2>2. CASE j = k + 1
    <3>1. \A i \in 1..Sizes[k + 1] : /\ i <= Sizes[k] => Mv(k + 1, i)' = Mv(k, i)
                                    /\ Mv(k + 1, i)' # NULL <=> i <= Sizes[k]
      <4>1. ASSUME NEW i \in 1..Sizes[k + 1]
            PROVE  /\ i <= Sizes[k] => Mv(k + 1, i)' = Mv(k, i)
                   /\ Mv(k + 1, i)' # NULL <=> i <= Sizes[k]
        <5>1. CASE i <= Sizes[k]
          BY <1>3, <1>5, <5>1
        <5>2. CASE ~(i <= Sizes[k])
          BY <1>3, <1>5, <5>2
        <5>3. QED
          BY <5>1, <5>2
      <4>2. QED
        BY <4>1
    <3>2. Packed(k + 1)'
      <4>1. Sizes[k] \in 0..Len(children'[k + 1])
        BY <1>3, <1>5
      <4>2. QED
        BY <1>3, <3>1, <4>1 DEF Packed
    <3>3. Distinct(k + 1)'
      <4>1. Distinct(k)
        BY <1>1 DEF ListOK
      <4>2. QED
        BY <1>3, <1>5, <3>1, <4>1 DEF Distinct
    <3>4. QED
      BY <2>2, <3>2, <3>3
  <2>3. QED
    BY <2>1, <2>2
<1>9. ASSUME NEW j \in 1..2
      PROVE  Prefix(j)'
  <2>1. CASE j = k
    <3>1. children'[k] = children[k]
      BY <1>3
    <3>2. \A i \in 1..Sizes[k] : /\ Mv(k, i)' = Mv(k, i) /\ Mv(k, i) # NULL
                                 /\ Mv(k + 1, i)' = Mv(k, i)
      BY <1>3, <3>1 DEF Mv
    <3>3. QED
      BY <1>3, <2>1, <3>1, <3>2 DEF Prefix
  <2>2. CASE j = k + 1
    <3>1. j = 2 /\ k = 1 /\ state = 3
      BY <1>2, <1>3, <2>2
    <3>2. Len(children'[3]) = 0
      BY <1>1, <1>3, <3>1 DEF NodeOK
    <3>3. QED
      BY <3>1, <3>2 DEF Prefix
  <2>3. CASE j < k
    <3>1. j = 1 /\ k = 2 /\ children'[1] = children[1] /\ children'[2] = children[2]
      BY <1>2, <1>3, <2>3
    <3>2. QED
      BY <1>1, <3>1 DEF ListOK, Prefix, Mv
  <2>4. QED
    BY <1>2, <2>1, <2>2, <2>3
<1>10. ThreadOK(t)'
  <2>1. Arr(t)' = k + 1 /\ Cap(t)' = Sizes[k + 1]
    <3>1. state + 1 \in {4, 6}
      BY <1>3
    <3>2. ArrayOf(state + 1) = k + 1 /\ Capacity(state + 1) = Sizes[k + 1]
      BY <1>3, <3>1, ArraysOfStates
    <3>3. QED
      BY <1>4, <3>2 DEF Arr, Cap
  <2>2. /\ best[t].idx = Cap(t) + 1 /\ best[t].move \in Moves
        /\ \A i \in 1..(best[t].idx - 1) : Mv(k, i) \notin {NULL, best[t].move}
    BY <1>1, <1>2, <1>4 DEF ThreadOK, ViewOK, CopyOK, NewSteps
  <2>3. /\ best[t].idx \in 1..(Sizes[k + 1] + 1)
        /\ \A i \in 1..(best[t].idx - 1) : Mv(k + 1, i)' \notin {NULL, best[t].move}
    <3>1. best[t].idx = Sizes[k] + 1 /\ best[t].idx - 1 = Sizes[k]
      BY <1>3, <1>5, <2>2
    <3>2. best[t].idx \in 1..(Sizes[k + 1] + 1)
      BY <1>5, <3>1
    <3>3. ASSUME NEW i \in 1..(best[t].idx - 1)
          PROVE  Mv(k + 1, i)' \notin {NULL, best[t].move}
      <4>1. i \in 1..Sizes[k] /\ Mv(k, i) \notin {NULL, best[t].move}
        BY <2>2, <3>1, <3>3
      <4>2. Mv(k + 1, i)' = Mv(k, i)
        BY <1>3, <4>1
      <4>3. QED
        BY <4>1, <4>2
    <3>4. QED
      BY <3>2, <3>3
  <2>4. EvalOK(t)'
    BY <1>4 DEF EvalOK, EvalSteps
  <2>5. ViewOK(t)'
    <3>1. \A i \in 1..(best'[t].idx - 1) : Mv(Arr(t), i)' \notin {NULL, best'[t].move}
      BY <1>4, <2>1, <2>3 DEF Mv
    <3>2. QED
      BY <1>3, <1>4, <2>1, <2>2, <2>3, <3>1
         DEF ViewOK, EvalSteps, NewSteps, EdgeSteps, OnTheWay
  <2>6. CopyOK(t)'
    BY <1>4 DEF CopyOK
  <2>7. QED
    BY <2>4, <2>5, <2>6 DEF ThreadOK
<1>11. QED
  BY <1>6, <1>7, <1>8, <1>9, <1>10 DEF ListOK

(* The steps of a thread that adds a child keep the tree in order. *)
LEMMA TreeAddChild ==
    ASSUME IInv, TypeOK', NEW t \in Threads, AddChild(t), Only(t)
    PROVE  Tree'
<1>1. /\ TypeOK /\ Tree /\ NodeOK /\ ListOK /\ ThreadOK(t)
      /\ state \in 0..6 /\ nodeState[t] \in 0..6 /\ visits \in Nat /\ visits' \in Nat
      /\ nodeState[t] <= state /\ Cap(t) \in Nat
  <2>1. TypeOK /\ Tree /\ NodeOK /\ ListOK /\ ThreadOK(t)
    BY DEF IInv, Tree
  <2>2. /\ state \in 0..6 /\ visits \in Nat /\ visits' \in Nat
        /\ nodeState[t] \in 0..6 /\ nodeState[t] <= state
    BY <2>1, ThreadTypes DEF TypeOK, STATE_UNEVALUATED, STATE_EXPANDED2, ThreadOK, ViewOK
  <2>3. Cap(t) \in Nat
    BY <2>2, ArraysOfStates, SizesAreSizes DEF Cap
  <2>4. QED
    BY <2>1, <2>2, <2>3
<1>2. CASE maybeExpandChildrenCapacity(t)
  <2>1. /\ pc[t] = "grow" /\ ~(best[t].idx <= Cap(t)) /\ UNCHANGED <<nnOutput, children, visits>>
        /\ UNCHANGED copied
    BY <1>2 DEF maybeExpandChildrenCapacity, HasRoom, Cap, stats
  <2>2. /\ nodeState[t] >= 2 /\ best[t].idx \in 1..(Cap(t) + 1) /\ best[t].move \in Moves
        /\ \A i \in 1..(best[t].idx - 1) : Mv(Arr(t), i) \notin {NULL, best[t].move}
        /\ copied[t] = <<>>
    BY <1>1, <2>1 DEF ThreadOK, ViewOK, CopyOK, EvalSteps, NewSteps
  <2>3. CASE Select(t) /\ UNCHANGED state
    <3>1. UNCHANGED node
      BY <2>1, <2>3 DEF node
    <3>2. ThreadOK(t)' /\ pc'[t] = "select"
      BY <1>1, <2>1, <2>2, <2>3, SelectsOK
    <3>3. QED
      BY <1>1, <2>1, <3>1, <3>2, TreeAtRest DEF EvalSteps
  <2>4. CASE ~(Select(t) /\ UNCHANGED state)
    <3>1. /\ state \in {2, 4} /\ state = nodeState[t] /\ state' = state + 1
          /\ pc'[t] = "copy" /\ nodeState'[t] = state + 1
          /\ UNCHANGED <<seen, best>>
      BY <1>1, <1>2, <2>4 DEF maybeExpandChildrenCapacity, GoTo, TypeOK, STATE_EXPANDED0,
                              STATE_EXPANDED1
    <3>2. NodeGrows /\ NodeOK' /\ ListOK'
      <4>1. NodeGrows
        BY <1>1, <2>1, <3>1 DEF NodeGrows
      <4>2. NodeOK'
        BY <1>1, <2>1, <3>1 DEF NodeOK, Mv
      <4>3. ListOK'
        BY <1>1, <2>1 DEF ListOK, Packed, Distinct, Prefix, Mv
      <4>4. QED
        BY <4>1, <4>2, <4>3
    <3>3. Arr(t)' = Arr(t) /\ Cap(t)' = Cap(t)
      <4>1. ArrayOf(state + 1) = ArrayOf(state) /\ Capacity(state + 1) = Capacity(state)
        BY <3>1, ArraysOfStates
      <4>2. QED
        BY <3>1, <4>1 DEF Arr, Cap
    <3>4. best[t].idx = Cap(t) + 1
      BY <1>1, <2>1, <2>2
    <3>5. ThreadOK(t)'
      <4>1. EvalOK(t)'
        BY <3>1 DEF EvalOK, EvalSteps
      <4>2. \A i \in 1..(best'[t].idx - 1) : Mv(Arr(t), i)' \notin {NULL, best'[t].move}
        BY <2>1, <2>2, <3>1, <3>3 DEF Mv
      <4>3. ViewOK(t)'
        BY <1>1, <2>2, <3>1, <3>3, <4>2 DEF ViewOK, EvalSteps, NewSteps, EdgeSteps, OnTheWay
      <4>4. CopyOK(t)'
        BY <1>1, <2>1, <2>2, <3>1, <3>3, <3>4 DEF CopyOK
      <4>5. QED
        BY <4>1, <4>3, <4>4 DEF ThreadOK
    <3>6. QED
      BY <1>1, <2>1, <3>1, <3>2, <3>5, TreeStep DEF EvalSteps, MayChangeState
  <2>5. QED
    BY <2>3, <2>4
<1>3. CASE CopySlot(t)
  <2>1. /\ pc[t] = "copy" /\ pc' = pc /\ UNCHANGED <<node, visits, nodeState, seen, best>>
        /\ copied' = [copied EXCEPT ![t] = Append(@, children[Arr(t)][Len(@) + 1])]
        /\ Len(copied[t]) < Len(children[Arr(t)])
    BY <1>3 DEF CopySlot, stats, choice, Arr
  <2>2. copied[t] \in Seq(Slots) /\ Len(copied[t]) \in Nat
    BY <1>1, ThreadTypes, LenProperties
  <2>3. copied'[t] = Append(copied[t], children[Arr(t)][Len(copied[t]) + 1])
    BY <1>1, <2>1 DEF TypeOK
  <2>4. /\ Len(copied'[t]) = Len(copied[t]) + 1
        /\ copied'[t][Len(copied[t]) + 1] = children[Arr(t)][Len(copied[t]) + 1]
        /\ \A i \in 1..Len(copied[t]) : copied'[t][i] = copied[t][i]
    BY <2>2, <2>3
  <2>5. Arr(t)' = Arr(t) /\ Cap(t)' = Cap(t) /\ children' = children /\ state' = state
        /\ nnOutput' = nnOutput
    BY <2>1 DEF Arr, Cap, node
  <2>6. ViewOK(t) /\ CopyOK(t) /\ EvalOK(t) /\ Len(children[Arr(t)]) = Cap(t)
    <3>1. nodeState[t] \in 2..6
      BY <1>1, <2>1 DEF ThreadOK, ViewOK, EvalSteps
    <3>2. QED
      BY <1>1, <3>1, ArrayIsThere DEF ThreadOK, Arr, Cap
  <2>7. ASSUME NEW i \in 1..Len(copied'[t])
        PROVE  copied'[t][i].move = Mv(Arr(t), i)'
    <3>1. i \in 1..Len(copied[t]) \/ i = Len(copied[t]) + 1
      BY <2>2, <2>4
    <3>2. copied'[t][i].move = Mv(Arr(t), i)
      BY <2>1, <2>4, <2>6, <3>1 DEF CopyOK, Mv
    <3>3. QED
      BY <2>5, <3>2 DEF Mv
  <2>8. ThreadOK(t)'
    <3>1. EvalOK(t)'
      BY <2>1, <2>5, <2>6 DEF EvalOK, EvalSteps
    <3>2. \A i \in 1..(best'[t].idx - 1) : Mv(Arr(t), i)' \notin {NULL, best'[t].move}
      BY <2>1, <2>5, <2>6 DEF ViewOK, NewSteps, Mv
    <3>3. ViewOK(t)'
      BY <2>1, <2>5, <2>6, <3>2 DEF ViewOK, EvalSteps, NewSteps, EdgeSteps, OnTheWay
    <3>4. Len(copied'[t]) <= Cap(t)
      BY <1>1, <2>1, <2>2, <2>4, <2>6
    <3>5. CopyOK(t)'
      BY <2>1, <2>5, <2>6, <2>7, <3>4 DEF CopyOK
    <3>6. QED
      BY <3>1, <3>3, <3>5 DEF ThreadOK
  <2>9. QED
    BY <1>1, <2>1, <2>8, TreeAtRest
<1>4. CASE PublishChildren(t)
  <2>1. NodeGrows /\ NodeOK' /\ ListOK' /\ ThreadOK(t)'
    BY <1>4, PublishKeepsList
  <2>2. pc[t] = "copy" /\ pc'[t] = "grow"
    BY <1>1, <1>4 DEF PublishChildren, GoTo, TypeOK
  <2>3. QED
    BY <1>1, <2>1, <2>2, TreeStep DEF EvalSteps, MayChangeState
<1>5. CASE allocateOrFindNode(t)
  <2>1. /\ pc[t] = "grow" /\ best[t].idx <= Cap(t) /\ GoTo(t, "store")
        /\ UNCHANGED <<node, visits, choice, copied>>
    BY <1>5 DEF allocateOrFindNode, HasRoom, Cap, stats
  <2>2. /\ pc'[t] = "store" /\ copied'[t] = <<>> /\ state' = state /\ children' = children
        /\ UNCHANGED <<nodeState, seen, best>> /\ Arr(t)' = Arr(t) /\ Cap(t)' = Cap(t)
    BY <1>1, <2>1 DEF GoTo, choice, TypeOK, ThreadOK, CopyOK, node, Arr, Cap
  <2>3. ThreadOK(t)'
    <3>1. \A i \in 1..(best'[t].idx - 1) : Mv(Arr(t), i)' \notin {NULL, best'[t].move}
      BY <1>1, <2>1, <2>2 DEF ThreadOK, ViewOK, NewSteps, Mv
    <3>2. ViewOK(t)'
      BY <1>1, <2>1, <2>2, <3>1 DEF ThreadOK, ViewOK, EvalSteps, NewSteps, EdgeSteps, OnTheWay
    <3>3. QED
      BY <2>2, <3>2 DEF ThreadOK, EvalOK, CopyOK, EvalSteps
  <2>4. QED
    BY <1>1, <2>1, <2>2, <2>3, TreeAtRest DEF EvalSteps
<1>6. CASE StoreChild(t)
  <2>1. pc[t] = "store" /\ UNCHANGED <<state, nnOutput, visits>>
    BY <1>6 DEF StoreChild, stats
  <2>2. CASE /\ Mv(Arr(t), best[t].idx) = NULL /\ StoresMove(t)
             /\ GoTo(t, "descend") /\ UNCHANGED <<choice, copied>>
    <3>1. NodeGrows /\ NodeOK' /\ ListOK'
      BY <2>1, <2>2, StoreKeepsList
    <3>2. /\ pc'[t] = "descend" /\ copied'[t] = <<>>
          /\ UNCHANGED <<nodeState, seen, best>> /\ Cap(t)' = Cap(t)
      BY <1>1, <2>1, <2>2 DEF GoTo, choice, TypeOK, ThreadOK, CopyOK, Cap
    <3>3. /\ best[t].idx \in 1..Cap(t) /\ best[t].move \in Moves /\ nodeState[t] >= 2
      BY <1>1, <2>1 DEF ThreadOK, ViewOK, EvalSteps, NewSteps
    <3>4. ThreadOK(t)'
      BY <1>1, <2>1, <3>2, <3>3 DEF ThreadOK, EvalOK, ViewOK, CopyOK, EvalSteps, NewSteps,
                                    EdgeSteps, OnTheWay
    <3>5. QED
      BY <1>1, <2>1, <3>1, <3>2, <3>4, TreeStep DEF EvalSteps
  <2>3. CASE Return(t) /\ UNCHANGED children
    <3>1. ThreadOK(t)' /\ pc'[t] = "idle" /\ UNCHANGED node
      BY <1>1, <2>1, <2>3, ReturnsOK DEF node
    <3>2. QED
      BY <1>1, <2>1, <3>1, TreeAtRest DEF EvalSteps
  <2>4. QED
    BY <1>6, <2>2, <2>3 DEF StoreChild, StoresMove, Mv, Arr
<1>7. QED
  BY <1>2, <1>3, <1>4, <1>5, <1>6 DEF AddChild

(* The steps of a thread that goes down to a child and back. *)
LEMMA TreeVisitChild ==
    ASSUME IInv, TypeOK', NEW t \in Threads, VisitChild(t), Only(t)
    PROVE  Tree'
<1>1. /\ TypeOK /\ Tree /\ NodeOK /\ ListOK /\ ThreadOK(t)
      /\ state \in 0..6 /\ nodeState[t] \in 0..6 /\ visits \in Nat /\ visits' \in Nat
      /\ nodeState[t] <= state
  <2>1. TypeOK /\ Tree /\ NodeOK /\ ListOK /\ ThreadOK(t)
    BY DEF IInv, Tree
  <2>2. /\ state \in 0..6 /\ visits \in Nat /\ visits' \in Nat
        /\ nodeState[t] \in 0..6 /\ nodeState[t] <= state
    BY <2>1, ThreadTypes DEF TypeOK, STATE_UNEVALUATED, STATE_EXPANDED2, ThreadOK, ViewOK
  <2>3. QED
    BY <2>1, <2>2
<1>2. ASSUME NEW step \in {"descend", "reload", "update"}, GoTo(t, step),
             UNCHANGED <<state, visits, choice, copied>>, pc[t] \in {"reuse", "descend", "count"}
      PROVE  ThreadOK(t)' /\ pc'[t] = step
  <2>1. /\ pc'[t] = step /\ copied'[t] = <<>> /\ UNCHANGED <<nodeState, seen, best>>
        /\ Cap(t)' = Cap(t)
    BY <1>1, <1>2 DEF GoTo, choice, TypeOK, ThreadOK, CopyOK, Cap
  <2>2. /\ best[t].idx \in 1..Cap(t) /\ best[t].move \in Moves /\ nodeState[t] >= 2
    BY <1>1, <1>2 DEF ThreadOK, ViewOK, EvalSteps, EdgeSteps
  <2>3. QED
    BY <1>1, <1>2, <2>1, <2>2 DEF ThreadOK, EvalOK, ViewOK, CopyOK, EvalSteps, NewSteps,
                                  EdgeSteps, OnTheWay
<1>3. CASE ReuseChild(t)
  <2>1. /\ pc[t] = "reuse" /\ GoTo(t, "descend")
        /\ UNCHANGED <<node, visits, choice, copied>> /\ state' = state
    BY <1>3 DEF ReuseChild, stats, node
  <2>2. ThreadOK(t)' /\ pc'[t] = "descend"
    BY <1>2, <2>1
  <2>3. QED
    BY <1>1, <2>1, <2>2, TreeAtRest DEF EvalSteps
<1>4. CASE maybeCatchUpEdgeVisits(t)
  <2>1. /\ pc[t] = "descend" /\ GoTo(t, "update") /\ AddEdgeVisits(t)
        /\ UNCHANGED <<state, nnOutput, visits, choice, copied>>
    BY <1>4 DEF maybeCatchUpEdgeVisits, stats
  <2>2. ThreadOK(t)' /\ pc'[t] = "update"
    BY <1>2, <2>1
  <2>3. QED
    BY <1>1, <2>1, <2>2, TreeWithEdge DEF EvalSteps, EdgeSteps
<1>5. CASE Descend(t)
  <2>1. pc[t] = "descend" /\ UNCHANGED <<state, nnOutput, visits>>
    BY <1>5 DEF Descend, stats
  <2>2. CASE AddEdgeVisits(t) /\ GoTo(t, "update") /\ UNCHANGED <<choice, copied>>
    <3>1. ThreadOK(t)' /\ pc'[t] = "update"
      BY <1>2, <2>1, <2>2
    <3>2. QED
      BY <1>1, <2>1, <2>2, <3>1, TreeWithEdge DEF EvalSteps, EdgeSteps
  <2>3. CASE GoTo(t, "reload") /\ UNCHANGED <<children, choice, copied>>
    <3>1. ThreadOK(t)' /\ pc'[t] = "reload" /\ UNCHANGED node
      BY <1>2, <2>1, <2>3 DEF node
    <3>2. QED
      BY <1>1, <2>1, <3>1, TreeAtRest DEF EvalSteps
  <2>4. CASE Return(t) /\ UNCHANGED children
    <3>1. ThreadOK(t)' /\ pc'[t] = "idle" /\ UNCHANGED node
      BY <1>1, <2>1, <2>4, ReturnsOK DEF node
    <3>2. QED
      BY <1>1, <2>1, <3>1, TreeAtRest DEF EvalSteps
  <2>5. QED
    BY <1>5, <2>2, <2>3, <2>4 DEF Descend
<1>6. CASE ReloadState(t)
  <2>1. /\ pc[t] = "reload" /\ pc'[t] = "count" /\ UNCHANGED <<node, visits, best, copied>>
        /\ nodeState'[t] = state /\ state' = state /\ copied'[t] = <<>>
    BY <1>1, <1>6 DEF ReloadState, GoTo, TypeOK, stats, node, ThreadOK, CopyOK
  <2>2. /\ best[t].idx \in 1..Cap(t) /\ best[t].move \in Moves /\ nodeState[t] >= 2
    BY <1>1, <2>1 DEF ThreadOK, ViewOK, EvalSteps, EdgeSteps
  <2>3. best[t].idx \in 1..Cap(t)'
    <3>1. /\ Cap(t)' = Capacity(state) /\ Cap(t) = Capacity(nodeState[t])
          /\ Capacity(nodeState[t]) <= Capacity(state)
          /\ Capacity(state) \in Nat /\ Capacity(nodeState[t]) \in Nat
      <4>1. Capacity(nodeState[t]) <= Capacity(state)
        BY <1>1, LaterStates
      <4>2. Capacity(state) \in Nat /\ Capacity(nodeState[t]) \in Nat
        BY <1>1, ArraysOfStates, SizesAreSizes
      <4>3. QED
        BY <2>1, <4>1, <4>2 DEF Cap
    <3>2. QED
      BY <2>2, <3>1
  <2>4. ThreadOK(t)'
    BY <1>1, <2>1, <2>2, <2>3 DEF ThreadOK, EvalOK, ViewOK, CopyOK, EvalSteps, NewSteps,
                                  EdgeSteps, OnTheWay
  <2>5. QED
    BY <1>1, <2>1, <2>4, TreeAtRest DEF EvalSteps
<1>7. CASE CountVisit(t)
  <2>1. /\ pc[t] = "count" /\ GoTo(t, "update") /\ AddEdgeVisits(t)
        /\ UNCHANGED <<state, nnOutput, visits, choice, copied>>
    BY <1>7 DEF CountVisit, stats
  <2>2. ThreadOK(t)' /\ pc'[t] = "update"
    BY <1>2, <2>1
  <2>3. QED
    BY <1>1, <2>1, <2>2, TreeWithEdge DEF EvalSteps, EdgeSteps
<1>8. CASE ReleaseChild(t)
  <2>1. pc[t] = "release" /\ Return(t) /\ UNCHANGED <<node, visits>>
    BY <1>8 DEF ReleaseChild, stats
  <2>2. ThreadOK(t)' /\ pc'[t] = "idle"
    BY <1>1, <2>1, ReturnsOK
  <2>3. QED
    BY <1>1, <2>1, <2>2, TreeAtRest DEF EvalSteps
<1>9. QED
  BY <1>3, <1>4, <1>5, <1>6, <1>7, <1>8 DEF VisitChild

(* The steps of a thread that updates the statistics. *)
LEMMA TreeUpdateStats ==
    ASSUME IInv, TypeOK', NEW t \in Threads, UpdateStats(t), Only(t)
    PROVE  Tree'
<1>1. /\ TypeOK /\ Tree /\ ThreadOK(t) /\ visits \in Nat /\ numVisitsCompleted[t] \in Nat
      /\ state \in 0..6
  BY ThreadTypes DEF IInv, Tree, TypeOK, STATE_UNEVALUATED, STATE_EXPANDED2
<1>2. /\ pc[t] \in {"update", "recompute", "read", "undo"}
      /\ pc'[t] \in {"release", "recompute", "read", "undo"}
      /\ visits' >= visits /\ UNCHANGED <<node, seen, best, copied>>
      /\ nodeState'[t] \in {nodeState[t], state}
  <2>1. CASE updateStatsAfterPlayout(t)
    BY <1>1, <2>1 DEF updateStatsAfterPlayout, GoTo, TypeOK, choice
  <2>2. CASE getChildren(t)
    BY <1>1, <2>2 DEF getChildren, GoTo, TypeOK
  <2>3. CASE ReadChild(t)
    BY <1>1, <2>3 DEF ReadChild, locals, choice
  <2>4. CASE recomputeNodeStats(t)
    BY <1>1, <2>4 DEF recomputeNodeStats, GoTo, TypeOK, choice
  <2>5. CASE UndoDirty(t)
    BY <1>1, <2>5 DEF UndoDirty, GoTo, TypeOK, choice
  <2>6. QED
    BY <2>1, <2>2, <2>3, <2>4, <2>5 DEF UpdateStats
<1>3. ThreadOK(t)'
  <2>1. copied'[t] = <<>> /\ UNCHANGED <<seen, best, state>>
    BY <1>1, <1>2 DEF node, ThreadOK, CopyOK
  <2>2. /\ best[t].move \in Moves /\ nodeState[t] >= 2 /\ nodeState[t] <= state
        /\ nodeState[t] \in 0..6
    BY <1>1, <1>2, ThreadTypes DEF ThreadOK, ViewOK, EvalSteps, OnTheWay
  <2>3. nodeState'[t] >= 2 /\ nodeState'[t] <= state
    BY <1>1, <1>2, <2>2
  <2>4. QED
    BY <1>2, <2>1, <2>2, <2>3 DEF ThreadOK, EvalOK, ViewOK, CopyOK, EvalSteps, NewSteps,
                                  EdgeSteps, OnTheWay
<1>4. QED
  BY <1>1, <1>2, <1>3, TreeAtRest DEF EvalSteps

(* Every step of a thread keeps the tree in order. *)
LEMMA TreeStays ==
    ASSUME IInv, NEW t \in Threads, playoutDescend(t) \/ Playout(t)
    PROVE  Tree'
<1>1. TypeOK' /\ Only(t)
  BY TypesStep, StepOfOne DEF IInv
<1>2. QED
  BY <1>1, TreeEvaluate, TreeSelectChild, TreeAddChild, TreeVisitChild, TreeUpdateStats
     DEF Playout

-----------------------------------------------------------------------------
(* Where a choice leads. *)
LEMMA StepChosen ==
    ASSUME TypeOK, NEW t \in Threads, selectBestChildToDescend(t)
    PROVE  pc'[t] \in {"idle", "grow", "reuse", "reInit", "visitAgain"}
<1>1. PICK b \in Candidates(t) : \E step \in StepsAfter(t, b) :
              IF step = "idle" THEN Return(t) ELSE GoTo(t, step)
  BY DEF selectBestChildToDescend
<1>2. PICK step \in StepsAfter(t, b) : IF step = "idle" THEN Return(t) ELSE GoTo(t, step)
  BY <1>1
<1>3. step \in {"idle", "grow", "reuse", "reInit", "visitAgain"}
  BY <1>2 DEF StepsAfter
<1>4. pc'[t] = step
  BY <1>2 DEF Return, GoTo, TypeOK
<1>5. QED
  BY <1>3, <1>4

(* The virtual losses: a thread adds one when it sets out for a child, and *)
(* takes it off when it returns or gives the child up.                     *)
LEMMA LossesStay ==
    ASSUME IInv, NEW t \in Threads, playoutDescend(t) \/ Playout(t)
    PROVE  VirtualLossesBalance'
<1>1. /\ TypeOK /\ VirtualLossesBalance /\ Only(t) /\ ThreadOK(t)
      /\ pc[t] \in EdgeSteps \cup NewSteps \cup OnTheWay => best[t].move \in Moves
  BY StepOfOne DEF IInv, Tree, ThreadOK, ViewOK
<1>2. CASE playoutDescend(t) \/ Evaluate(t)
  <2>1. /\ pc[t] \notin OnTheWay /\ pc'[t] \notin OnTheWay /\ UNCHANGED virtualLosses
    BY <1>1, <1>2 DEF playoutDescend, Evaluate, storeNNOutputIfNull, addLeafValue,
          ClaimEvaluation, initializeChildren, Expand0, Select, Return, GoTo, OnTheWay,
          childVars, TypeOK
  <2>2. QED
    BY <1>1, <2>1, LossSame
<1>3. CASE SelectChild(t)
  <2>1. CASE selectBestChildToDescend(t)
    <3>1. pc'[t] \notin OnTheWay
      BY <1>1, <2>1, StepChosen DEF OnTheWay
    <3>2. pc[t] \notin OnTheWay /\ UNCHANGED virtualLosses
      BY <2>1 DEF selectBestChildToDescend, OnTheWay, childVars
    <3>3. QED
      BY <1>1, <3>1, <3>2, LossSame
  <2>2. CASE SeeChild(t) \/ SelectNothing(t) \/ ReInit(t) \/ VisitAgain(t)
    <3>1. /\ pc[t] \notin OnTheWay /\ pc'[t] \notin OnTheWay /\ UNCHANGED virtualLosses
      BY <1>1, <2>2 DEF SeeChild, SelectNothing, ReInit, VisitAgain, Select, Return, GoTo,
            OnTheWay, childVars, TypeOK
    <3>2. QED
      BY <1>1, <3>1, LossSame
  <2>3. QED
    BY <1>3, <2>1, <2>2 DEF SelectChild
<1>4. CASE AddChild(t)
  <2>1. CASE maybeExpandChildrenCapacity(t) \/ CopySlot(t) \/ PublishChildren(t)
    <3>1. /\ pc[t] \notin OnTheWay /\ pc'[t] \notin OnTheWay /\ UNCHANGED virtualLosses
      BY <1>1, <2>1 DEF maybeExpandChildrenCapacity, CopySlot, PublishChildren, Select, GoTo,
            OnTheWay, childVars, TypeOK
    <3>2. QED
      BY <1>1, <3>1, LossSame
  <2>2. CASE allocateOrFindNode(t)
    <3>1. /\ AddVirtualLoss(t, 1) /\ best'[t] = best[t] /\ pc[t] = "grow" /\ pc'[t] = "store"
      BY <1>1, <2>2 DEF allocateOrFindNode, GoTo, choice, TypeOK
    <3>2. QED
      BY <1>1, <3>1, LossAdded DEF OnTheWay, NewSteps
  <2>3. CASE StoreChild(t)
    <3>1. pc[t] = "store"
      BY <2>3 DEF StoreChild
    <3>2. CASE GoTo(t, "descend") /\ UNCHANGED <<choice, virtualLosses>>
      <4>1. pc'[t] = "descend" /\ best'[t] = best[t] /\ UNCHANGED virtualLosses
        BY <1>1, <3>2 DEF GoTo, choice, TypeOK
      <4>2. QED
        BY <1>1, <3>1, <4>1, LossSame DEF OnTheWay
    <3>3. CASE AddVirtualLoss(t, -1) /\ Return(t)
      <4>1. pc'[t] = "idle"
        BY <1>1, <3>3 DEF Return, GoTo, TypeOK
      <4>2. QED
        BY <1>1, <3>1, <3>3, <4>1, LossTaken DEF OnTheWay
    <3>4. QED
      BY <2>3, <3>2, <3>3 DEF StoreChild
  <2>4. QED
    BY <1>4, <2>1, <2>2, <2>3 DEF AddChild
<1>5. CASE VisitChild(t)
  <2>1. CASE ReuseChild(t)
    <3>1. /\ AddVirtualLoss(t, 1) /\ best'[t] = best[t] /\ pc[t] = "reuse"
          /\ pc'[t] = "descend"
      BY <1>1, <2>1 DEF ReuseChild, GoTo, choice, TypeOK
    <3>2. QED
      BY <1>1, <3>1, LossAdded DEF OnTheWay, EdgeSteps
  <2>2. CASE maybeCatchUpEdgeVisits(t) \/ ReloadState(t) \/ CountVisit(t)
    <3>1. /\ pc[t] \in OnTheWay /\ pc'[t] \in OnTheWay /\ UNCHANGED virtualLosses
          /\ best'[t] = best[t]
      BY <1>1, <2>2 DEF maybeCatchUpEdgeVisits, ReloadState, CountVisit, GoTo, OnTheWay,
            childVars, choice, TypeOK
    <3>2. QED
      BY <1>1, <3>1, LossSame
  <2>3. CASE Descend(t)
    <3>1. pc[t] = "descend"
      BY <2>3 DEF Descend
    <3>2. CASE AddVirtualLoss(t, -1) /\ Return(t)
      <4>1. pc'[t] = "idle"
        BY <1>1, <3>2 DEF Return, GoTo, TypeOK
      <4>2. QED
        BY <1>1, <3>1, <3>2, <4>1, LossTaken DEF OnTheWay
    <3>3. CASE (GoTo(t, "update") \/ GoTo(t, "reload")) /\ UNCHANGED <<choice, virtualLosses>>
      <4>1. pc'[t] \in OnTheWay /\ best'[t] = best[t] /\ UNCHANGED virtualLosses
        BY <1>1, <3>3 DEF GoTo, choice, TypeOK, OnTheWay
      <4>2. QED
        BY <1>1, <3>1, <4>1, LossSame DEF OnTheWay
    <3>4. QED
      BY <2>3, <3>2, <3>3 DEF Descend, childVars
  <2>4. CASE ReleaseChild(t)
    <3>1. pc[t] = "release" /\ pc'[t] = "idle" /\ AddVirtualLoss(t, -1)
      BY <1>1, <2>4 DEF ReleaseChild, Return, GoTo, TypeOK
    <3>2. QED
      BY <1>1, <3>1, LossTaken DEF OnTheWay
  <2>5. QED
    BY <1>5, <2>1, <2>2, <2>3, <2>4 DEF VisitChild
<1>6. CASE UpdateStats(t)
  <2>1. /\ pc[t] \in OnTheWay /\ pc'[t] \in OnTheWay /\ UNCHANGED virtualLosses
        /\ best'[t] = best[t]
    BY <1>1, <1>6 DEF UpdateStats, updateStatsAfterPlayout, getChildren, ReadChild,
          recomputeNodeStats, UndoDirty, GoTo, OnTheWay, childVars, locals, choice, TypeOK
  <2>2. QED
    BY <1>1, <2>1, LossSame
<1>7. QED
  BY <1>2, <1>3, <1>4, <1>5, <1>6 DEF Playout

(* The dirty counter: the first thread to raise it recomputes, and goes on *)
(* until it has taken off all that was put on it.                          *)
LEMMA DirtyStays ==
    ASSUME IInv, NEW t \in Threads, playoutDescend(t) \/ Playout(t)
    PROVE  DirtyOK'
<1>1. TypeOK /\ DirtyOK /\ Only(t) /\ dirtyCounter \in Nat /\ numVisitsCompleted[t] \in Nat
  BY StepOfOne, ThreadTypes DEF IInv, TypeOK
<1>2. CASE playoutDescend(t) \/ Evaluate(t) \/ AddChild(t) \/ VisitChild(t)
  <2>1. /\ pc[t] \notin {"recompute", "read", "undo"}
        /\ pc'[t] \notin {"recompute", "read", "undo"}
    <3>1. CASE playoutDescend(t) \/ Evaluate(t)
      BY <1>1, <3>1 DEF playoutDescend, Evaluate, storeNNOutputIfNull, addLeafValue,
            ClaimEvaluation, initializeChildren, Expand0, Select, Return, GoTo, TypeOK
    <3>2. CASE AddChild(t)
      BY <1>1, <3>2 DEF AddChild, maybeExpandChildrenCapacity, CopySlot, PublishChildren,
            allocateOrFindNode, StoreChild, Select, Return, GoTo, TypeOK
    <3>3. CASE VisitChild(t)
      BY <1>1, <3>3 DEF VisitChild, ReuseChild, maybeCatchUpEdgeVisits, Descend, ReloadState,
            CountVisit, ReleaseChild, Return, GoTo, TypeOK
    <3>4. QED
      BY <1>2, <3>1, <3>2, <3>3
  <2>2. UNCHANGED <<dirtyCounter, numVisitsCompleted>>
    <3>1. CASE playoutDescend(t) \/ Evaluate(t)
      BY <3>1 DEF playoutDescend, Evaluate, storeNNOutputIfNull, addLeafValue,
            ClaimEvaluation, initializeChildren, Expand0, Return, stats
    <3>2. CASE AddChild(t)
      BY <3>2 DEF AddChild, maybeExpandChildrenCapacity, CopySlot, PublishChildren,
            allocateOrFindNode, StoreChild, Return, stats
    <3>3. CASE VisitChild(t)
      BY <3>3 DEF VisitChild, ReuseChild, maybeCatchUpEdgeVisits, Descend, ReloadState,
            CountVisit, ReleaseChild, Return, stats
    <3>4. QED
      BY <1>2, <3>1, <3>2, <3>3
  <2>3. QED
    BY <1>1, <2>1, <2>2, DirtySame
<1>3. CASE SelectChild(t)
  <2>1. pc[t] \in {"select", "reInit", "visitAgain"} /\ UNCHANGED <<dirtyCounter, numVisitsCompleted>>
    BY <1>3 DEF SelectChild, SeeChild, selectBestChildToDescend, SelectNothing, ReInit,
          VisitAgain, Return, stats
  <2>2. pc'[t] \notin {"recompute", "read", "undo"}
    <3>1. CASE selectBestChildToDescend(t)
      BY <1>1, <3>1, StepChosen
    <3>2. CASE SeeChild(t) \/ SelectNothing(t) \/ ReInit(t) \/ VisitAgain(t)
      BY <1>1, <3>2 DEF SeeChild, SelectNothing, ReInit, VisitAgain, Select, Return, GoTo, TypeOK
    <3>3. QED
      BY <1>3, <3>1, <3>2 DEF SelectChild
  <2>3. QED
    BY <1>1, <2>1, <2>2, DirtySame
<1>4. CASE updateStatsAfterPlayout(t)
  <2>1. pc[t] = "update" /\ dirtyCounter' = dirtyCounter + 1
    BY <1>4 DEF updateStatsAfterPlayout
  <2>2. CASE dirtyCounter > 0
    <3>1. pc'[t] = "release" /\ UNCHANGED numVisitsCompleted
      BY <1>1, <1>4, <2>2 DEF updateStatsAfterPlayout, GoTo, TypeOK
    <3>2. Recomputing' = Recomputing
      BY <1>1, <2>1, <3>1 DEF Recomputing, Only, Steady
    <3>3. PICK u \in Threads : Recomputing = {u} /\ numVisitsCompleted[u] \in 1..dirtyCounter
      BY <1>1, <2>2 DEF DirtyOK
    <3>4. Recomputing' = {u} /\ numVisitsCompleted'[u] \in 1..dirtyCounter'
      BY <1>1, <2>1, <3>1, <3>2, <3>3
    <3>5. QED
      BY <3>4 DEF DirtyOK
  <2>3. CASE dirtyCounter = 0
    <3>1. /\ pc'[t] = "recompute" /\ numVisitsCompleted'[t] = 1
      BY <1>1, <1>4, <2>3 DEF updateStatsAfterPlayout, Completed, GoTo, TypeOK
    <3>2. Recomputing = {}
      BY <1>1, <2>3 DEF DirtyOK
    <3>3. Recomputing' = {t}
      BY <1>1, <3>1, <3>2 DEF Recomputing, Only, Steady
    <3>4. QED
      BY <2>1, <2>3, <3>1, <3>3 DEF DirtyOK
  <2>4. QED
    BY <1>1, <2>2, <2>3
<1>5. CASE getChildren(t) \/ ReadChild(t) \/ recomputeNodeStats(t)
  <2>1. /\ pc[t] \in {"recompute", "read", "undo"} /\ pc'[t] \in {"recompute", "read", "undo"}
        /\ UNCHANGED <<dirtyCounter, numVisitsCompleted>>
    BY <1>1, <1>5 DEF getChildren, ReadChild, recomputeNodeStats, locals, GoTo, TypeOK
  <2>2. QED
    BY <1>1, <2>1, DirtySame
<1>6. CASE UndoDirty(t)
  <2>1. /\ pc[t] = "undo" /\ dirtyCounter' = dirtyCounter - numVisitsCompleted[t]
        /\ numVisitsCompleted'[t] = dirtyCounter'
        /\ pc'[t] = IF dirtyCounter' <= 0 THEN "release" ELSE "recompute"
    BY <1>1, <1>6 DEF UndoDirty, Completed, GoTo, TypeOK
  <2>2. Recomputing = {t} /\ numVisitsCompleted[t] \in 1..dirtyCounter
    BY <1>1, <2>1, RecomputingAlone
  <2>3. dirtyCounter' \in Nat
    BY <1>1, <2>1, <2>2
  <2>4. CASE dirtyCounter' = 0
    <3>1. Recomputing' = {}
      BY <1>1, <2>1, <2>2, <2>4 DEF Recomputing, Only, Steady
    <3>2. QED
      BY <2>4, <3>1 DEF DirtyOK
  <2>5. CASE dirtyCounter' > 0
    <3>1. Recomputing' = {t}
      BY <1>1, <2>1, <2>2, <2>3, <2>5 DEF Recomputing, Only, Steady
    <3>2. numVisitsCompleted'[t] \in 1..dirtyCounter'
      BY <2>1, <2>3, <2>5
    <3>3. QED
      BY <3>1, <3>2 DEF DirtyOK
  <2>6. QED
    BY <2>3, <2>4, <2>5
<1>7. QED
  BY <1>2, <1>3, <1>4, <1>5, <1>6 DEF Playout, UpdateStats

-----------------------------------------------------------------------------
(* The inductive invariant. *)
LEMMA InitOK == Init => IInv
<1> SUFFICES ASSUME Init PROVE IInv
  OBVIOUS
<1>1. /\ state = 0 /\ \A k \in 1..3 : children[k] = <<>> /\ Len(children[k]) = 0
      /\ \A t \in Threads : pc[t] = "idle" /\ nodeState[t] = 0 /\ copied[t] = <<>>
  BY DEF Init, STATE_UNEVALUATED
<1>2. TypeOK
  <2>1. ThreadTypesOK
    <3>1. NoBest \in [idx : 0..CHILDREN2SIZE, move : Moves \cup {NULL}] /\ "idle" \in Steps
          /\ <<>> \in Seq(Moves) /\ <<>> \in Seq(Slots)
      BY NodeAssumption DEF NoBest, Steps
    <3>2. QED
      BY <3>1 DEF Init, ThreadTypesOK, STATE_UNEVALUATED
  <2>2. NodeTypesOK
    <3>1. children \in [1..3 -> Seq(Slots)] /\ childWeights \in Seq(Nat)
      BY DEF Init
    <3>2. childVisits \in [Moves -> Nat] /\ virtualLosses \in [Moves -> Nat]
      BY DEF Init
    <3>3. /\ state \in 0..6 /\ visits \in Nat /\ dirtyCounter \in Nat
          /\ uncounted \in Nat /\ begun \in Nat /\ elsewhere \in Nat
      BY <1>1 DEF Init
    <3>4. nnOutput \in BOOLEAN
      BY Zenon DEF Init
    <3>5. QED
      BY <1>1, <3>1, <3>2, <3>3, <3>4 DEF NodeTypesOK
  <2>3. QED
    BY <2>1, <2>2, TypesAreAll
<1>3. Tree
  <2>1. NodeOK
    BY <1>1 DEF NodeOK
  <2>2. ListOK
    <3>1. \A k \in 1..3 : Packed(k) /\ Distinct(k)
      BY <1>1 DEF Packed, Distinct
    <3>2. Prefix(1) /\ Prefix(2)
      BY <1>1 DEF Prefix
    <3>3. QED
      BY <3>1, <3>2 DEF ListOK
  <2>3. \A t \in Threads : ThreadOK(t)
    BY <1>1 DEF ThreadOK, EvalOK, ViewOK, CopyOK, EvalSteps, NewSteps, EdgeSteps, OnTheWay
  <2>4. Alone
    BY <1>1 DEF Alone, EvalSteps
  <2>5. QED
    BY <2>1, <2>2, <2>3, <2>4 DEF Tree
<1>4. VirtualLossesBalance
  <2>1. ASSUME NEW m \in Moves
        PROVE  virtualLosses[m] = Cardinality(Passing(m))
    <3>1. Passing(m) = {}
      BY <1>1 DEF Passing, OnTheWay
    <3>2. virtualLosses[m] = 0
      BY DEF Init
    <3>3. QED
      BY <3>1, <3>2, FS_EmptySet
  <2>2. QED
    BY <2>1 DEF VirtualLossesBalance, Passing
<1>5. DirtyOK
  BY <1>1 DEF DirtyOK, Recomputing, Init
<1>6. QED
  BY <1>2, <1>3, <1>4, <1>5 DEF IInv

(* Every step keeps the invariant. *)
LEMMA StepOK == IInv /\ [Next]_vars => IInv'
<1> SUFFICES ASSUME IInv, [Next]_vars PROVE IInv'
  OBVIOUS
<1>1. ASSUME NEW t \in Threads, playoutDescend(t) \/ Playout(t)
      PROVE  IInv'
  BY <1>1, TypesStep, TreeStays, LossesStay, DirtyStays DEF IInv
<1>2. ASSUME NEW m \in Shared, VisitFromElsewhere(m)
      PROVE  IInv'
  BY <1>2, VisitIsElsewhere
<1>3. CASE UNCHANGED vars
  BY <1>3, Stuttering
<1>4. QED
  BY <1>1, <1>2, <1>3 DEF Next

(* What threads rely on holds always. *)
THEOREM Invariant == Spec => []IInv
<1>1. QED
  BY InitOK, StepOK, PTL DEF Spec

(* Every variable has its type in every behaviour: no counter of visits,   *)
(* virtual losses or updates to come goes below zero, however the threads  *)
(* interleave.                                                             *)
THEOREM TypesHold == Spec => []TypeOK
<1>1. IInv => TypeOK
  BY DEF IInv
<1>2. QED
  BY <1>1, Invariant, PTL

(* A thread that sees the node expanded finds the output, the first visit  *)
(* and every array up to the one its state names.                          *)
THEOREM Ready == Spec => []PublishedIsReady
<1>1. IInv => PublishedIsReady
  <2> SUFFICES ASSUME IInv PROVE PublishedIsReady
    OBVIOUS
  <2>1. TypeOK /\ NodeOK /\ state \in 0..6
    BY DEF IInv, Tree, TypeOK, STATE_UNEVALUATED, STATE_EXPANDED2
  <2>2. ASSUME NEW s \in {state} \cup {nodeState[t] : t \in Threads}, s >= 2,
               NEW k \in 1..ArrayOf(s)
        PROVE  Len(children[k]) = Sizes[k]
    <3>1. s \in 0..6 /\ s <= state
      <4>1. CASE s = state
        BY <2>1, <4>1
      <4>2. CASE \E t \in Threads : s = nodeState[t]
        BY <2>1, <4>2, ThreadTypes DEF IInv, Tree, ThreadOK, ViewOK
      <4>3. QED
        BY <4>1, <4>2
    <3>2. /\ k \in 1..3
          /\ k >= 2 => state >= 4
          /\ k = 3 => state >= 6
      BY <2>1, <2>2, <3>1, ArraysOfStates
    <3>3. QED
      BY <2>1, <2>2, <3>1, <3>2 DEF NodeOK
  <2>3. QED
    BY <2>1, <2>2 DEF PublishedIsReady, NodeOK, STATE_EXPANDED0
<1>2. QED
  BY <1>1, Invariant, PTL

(* The children are in each array once each and from its first slot on,    *)
(* and a later array begins with those of the full one it was copied from. *)
THEOREM Children == Spec => []ChildrenAgree
<1>1. IInv => ChildrenAgree
  <2> SUFFICES ASSUME IInv, NEW k \in 1..3
               PROVE  /\ Filled(k) = 1..Cardinality(Filled(k))
                      /\ \A i, j \in Filled(k) :
                            children[k][i].move = children[k][j].move => i = j
                      /\ k < 3 /\ children[k + 1] # <<>> =>
                            \A i \in 1..Sizes[k] :
                               /\ children[k][i].move # NULL
                               /\ children[k][i].move = children[k + 1][i].move
    BY DEF ChildrenAgree
  <2>1. TypeOK /\ ListOK /\ Packed(k) /\ Distinct(k)
    BY DEF IInv, Tree, ListOK
  <2>2. Filled(k) = 1..Cardinality(Filled(k))
    BY <2>1, FilledAreFirst
  <2>3. \A i, j \in Filled(k) : children[k][i].move = children[k][j].move => i = j
    BY <2>1 DEF Distinct, Filled, Mv
  <2>4. ASSUME k < 3, children[k + 1] # <<>>
        PROVE  \A i \in 1..Sizes[k] : /\ children[k][i].move # NULL
                                      /\ children[k][i].move = children[k + 1][i].move
    <3>1. Prefix(k) /\ k + 1 \in 1..3
      BY <2>1, <2>4 DEF ListOK
    <3>2. Len(children[k + 1]) > 0
      <4>1. children[k + 1] \in Seq(Slots)
        BY <2>1, <3>1 DEF TypeOK
      <4>2. Len(children[k + 1]) \in Nat /\ Len(children[k + 1]) # 0
        BY <2>4, <4>1, EmptySeq, LenProperties
      <4>3. QED
        BY <4>2
    <3>3. QED
      BY <3>1, <3>2 DEF Prefix, Mv
  <2>5. QED
    BY <2>2, <2>3, <2>4
<1>2. QED
  BY <1>1, Invariant, PTL

(* A child has as many virtual losses as there are threads on their way    *)
(* through it: the search leaves none behind.                              *)
THEOREM Losses == Spec => []VirtualLossesBalance
<1>1. IInv => VirtualLossesBalance
  BY DEF IInv
<1>2. QED
  BY <1>1, Invariant, PTL

-----------------------------------------------------------------------------
(* The statistics.  A thread that has added a visit to an edge has the     *)
(* statistics computed again, by itself or by the one that recomputes; what *)
(* they still lack is pending there.                                       *)
Updating == {t \in Threads : pc[t] = "update"}
Undoing == {t \in Threads : pc[t] = "undo"}
Accounted == IF Undoing = {} THEN 0 ELSE numVisitsCompleted[CHOOSE t \in Undoing : TRUE]
Pending == Cardinality(Updating) + dirtyCounter - Accounted

(* All slots of the array in use, the empty ones among them. *)
Now == ArrayOf(state)
Places(k) == 1..Len(children[k])
Edges(k) == [i \in Places(k) |-> children[k][i].edgeVisits]
\* What the statistics rest on of a slot: what was read of it or, while a thread reads, is to be.
Reading == {t \in Threads : pc[t] = "read"}
Reader == CHOOSE t \in Reading : TRUE
ToRead(i) == IF Reading # {} /\ i \in Places(Arr(Reader))
             THEN children[Arr(Reader)][i].edgeVisits ELSE 0
Weight(i) == IF i <= Len(childWeights) THEN childWeights[i] ELSE ToRead(i)
Excess(k) == [i \in Places(k) |-> IF children[k][i].edgeVisits > Weight(i)
                                  THEN children[k][i].edgeVisits - Weight(i) ELSE 0]
EdgeSum == SumOver(Edges(Now), Places(Now))
MissSum == SumOver(Excess(Now), Places(Now))

(* The visits have every visit of an edge but those that are pending.  The  *)
(* weights have them too, and while a thread reads also those that it reads *)
(* for; what is copied to a new array has not grown since.                 *)
Taken == IF Reading = {} THEN 0 ELSE numVisitsCompleted[Reader]
Covered == state >= 2 => /\ EdgeSum + 1 <= visits + uncounted + Pending
                         /\ MissSum + Taken <= uncounted + Pending
\* A slot without a child has no visits.
EmptyIsUnvisited == \A k \in 1..3 : \A i \in Places(k) :
                        Mv(k, i) = NULL => children[k][i].edgeVisits = 0
\* Who goes through an edge has a child there, and what was copied is not more than is there.
EdgeOK(t) ==
    /\ pc[t] \in EdgeSteps => Mv(Arr(t), best[t].idx) # NULL
    /\ pc[t] = "copy" => \A i \in 1..Len(copied[t]) :
                             copied[t][i].edgeVisits <= children[Arr(t)][i].edgeVisits
\* The second invariant.
Counted == EmptyIsUnvisited /\ Covered /\ \A t \in Threads : EdgeOK(t)

(* The weights are numbers, before a step ... *)
LEMMA WeightsAreNat == ASSUME TypeOK, NEW i \in Nat \ {0} PROVE Weight(i) \in Nat
<1>1. childWeights \in Seq(Nat) /\ Len(childWeights) \in Nat BY LenProperties DEF TypeOK
<1>2. CASE i <= Len(childWeights)
  <2>1. i \in 1..Len(childWeights) BY <1>1, <1>2
  <2>2. childWeights[i] \in Nat BY <1>1, <2>1, ElementOfSeq
  <2> QED BY <1>2, <2>2 DEF Weight
<1>3. CASE ~(i <= Len(childWeights))
  <2>1. CASE Reading # {} /\ i \in Places(Arr(Reader))
    <3>1. Reader \in Threads BY <2>1 DEF Reader, Reading
    <3>2. Arr(Reader) \in 1..3 BY <3>1, ThreadTypes, ArraysOfStates DEF Arr
    <3>3. children[Arr(Reader)] \in Seq(Slots) BY <3>2 DEF TypeOK
    <3>4. children[Arr(Reader)][i] \in Slots BY <2>1, <3>3, ElementOfSeq DEF Places
    <3> QED BY <1>3, <2>1, <3>4 DEF Weight, ToRead, Slots
  <2>2. CASE ~(Reading # {} /\ i \in Places(Arr(Reader)))
    BY <1>3, <2>2 DEF Weight, ToRead
  <2> QED BY <2>1, <2>2
<1> QED BY <1>2, <1>3

(* ... and after it. *)
LEMMA WeightsStayNat == ASSUME TypeOK', NEW i \in Nat \ {0} PROVE Weight(i)' \in Nat
<1>1. childWeights' \in Seq(Nat) /\ Len(childWeights') \in Nat BY LenProperties DEF TypeOK
<1>2. CASE i <= Len(childWeights')
  <2>1. i \in 1..Len(childWeights') BY <1>1, <1>2
  <2>2. childWeights'[i] \in Nat BY <1>1, <2>1, ElementOfSeq
  <2> QED BY <1>2, <2>2 DEF Weight
<1>3. CASE ~(i <= Len(childWeights'))
  <2>1. CASE Reading' # {} /\ i \in Places(Arr(Reader))'
    <3>1. Reader' \in Threads BY <2>1 DEF Reader, Reading
    <3>2. Arr(Reader)' \in 1..3
      <4>1. nodeState'[Reader'] \in 0..6
        BY <3>1 DEF TypeOK, STATE_UNEVALUATED, STATE_EXPANDED2
      <4> QED BY <4>1, ArraysOfStates DEF Arr
    <3>3. children'[Arr(Reader)'] \in Seq(Slots) BY <3>2 DEF TypeOK
    <3>4. children'[Arr(Reader)'][i] \in Slots BY <2>1, <3>3, ElementOfSeq DEF Places
    <3> QED BY <1>3, <2>1, <3>4 DEF Weight, ToRead, Slots
  <2>2. CASE ~(Reading' # {} /\ i \in Places(Arr(Reader))')
    BY <1>3, <2>2 DEF Weight, ToRead
  <2> QED BY <2>1, <2>2
<1> QED BY <1>2, <1>3

(* The types of the slots and of the sums. *)
LEMMA PlacesAreTyped ==
    ASSUME TypeOK, NEW k \in 1..3
    PROVE  /\ Len(children[k]) \in Nat /\ IsFiniteSet(Places(k))
           /\ \A i \in Places(k) : /\ children[k][i] \in Slots
                                   /\ children[k][i].edgeVisits \in Nat
                                   /\ Edges(k)[i] = children[k][i].edgeVisits
                                   /\ Weight(i) \in Nat /\ Excess(k)[i] \in Nat
                                   /\ Excess(k)[i] = IF children[k][i].edgeVisits > Weight(i)
                                        THEN children[k][i].edgeVisits - Weight(i) ELSE 0
<1>1. children[k] \in Seq(Slots) BY DEF TypeOK
<1>2. Len(children[k]) \in Nat BY <1>1, LenProperties
<1>3. IsFiniteSet(Places(k)) BY <1>2, FS_Interval DEF Places
<1>4. ASSUME NEW i \in Places(k)
      PROVE  /\ children[k][i] \in Slots /\ children[k][i].edgeVisits \in Nat
             /\ Edges(k)[i] = children[k][i].edgeVisits
             /\ Weight(i) \in Nat /\ Excess(k)[i] \in Nat
             /\ Excess(k)[i] = IF children[k][i].edgeVisits > Weight(i)
                               THEN children[k][i].edgeVisits - Weight(i) ELSE 0
  <2>1. i \in 1..Len(children[k]) BY DEF Places
  <2>2. children[k][i] \in Slots BY <1>1, <2>1, ElementOfSeq
  <2>3. children[k][i].edgeVisits \in Nat BY <2>2 DEF Slots
  <2>4. Weight(i) \in Nat BY <1>2, <2>1, WeightsAreNat
  <2>5. Edges(k)[i] = children[k][i].edgeVisits BY DEF Edges
  <2>6. Excess(k)[i] = IF children[k][i].edgeVisits > Weight(i)
                       THEN children[k][i].edgeVisits - Weight(i) ELSE 0
    BY DEF Excess
  <2> QED BY <2>2, <2>3, <2>4, <2>5, <2>6
<1> QED BY <1>2, <1>3, <1>4

(* The array in use is one of the three. *)
LEMMA NowIsArray == ASSUME TypeOK PROVE Now \in 1..3 /\ state \in 0..6
BY ArraysOfStates DEF Now, TypeOK, STATE_UNEVALUATED, STATE_EXPANDED2

(* Both sums are numbers. *)
LEMMA SumsAreNat == ASSUME TypeOK PROVE EdgeSum \in Nat /\ MissSum \in Nat
<1>1. Now \in 1..3 BY NowIsArray
<1>2. /\ IsFiniteSet(Places(Now)) /\ \A i \in Places(Now) : Edges(Now)[i] \in Nat
      /\ \A i \in Places(Now) : Excess(Now)[i] \in Nat
  BY <1>1, PlacesAreTyped
<1> QED BY <1>2, SumStep DEF EdgeSum, MissSum

(* What is pending is never less than nothing. *)
LEMMA PendingIsThere ==
    ASSUME TypeOK, DirtyOK
    PROVE  /\ Pending \in Nat /\ IsFiniteSet(Updating) /\ Cardinality(Updating) \in Nat
           /\ Accounted \in 0..dirtyCounter /\ dirtyCounter \in Nat
           /\ Taken \in Nat /\ Taken <= Pending
           /\ \A t \in Threads : pc[t] \in {"recompute", "read"} => Undoing = {}
           /\ \A t \in Threads : pc[t] \in {"recompute", "undo"} => Reading = {}
           /\ \A t \in Threads : pc[t] = "read" => /\ Reading = {t} /\ Reader = t
                                                  /\ Taken = numVisitsCompleted[t]
           /\ \A t \in Threads : pc[t] = "undo" => /\ Undoing = {t}
                                                  /\ Accounted = numVisitsCompleted[t]
<1>1. IsFiniteSet(Updating) BY NodeAssumption, FS_Subset DEF Updating
<1>2. Cardinality(Updating) \in Nat /\ dirtyCounter \in Nat
  BY <1>1, FS_CardinalityType DEF TypeOK
<1>3. ASSUME NEW t \in Threads, pc[t] = "undo"
      PROVE  /\ Undoing = {t} /\ Accounted = numVisitsCompleted[t]
             /\ Accounted \in 1..dirtyCounter
  <2>1. Recomputing = {t} /\ numVisitsCompleted[t] \in 1..dirtyCounter
    BY <1>3, RecomputingAlone
  <2>2. Undoing = {t} BY <1>3, <2>1 DEF Undoing, Recomputing
  <2> QED BY <2>1, <2>2 DEF Accounted
<1>4. ASSUME NEW t \in Threads, pc[t] \in {"recompute", "read"} PROVE Undoing = {}
  <2>1. Recomputing = {t} BY <1>4, RecomputingAlone
  <2> QED BY <1>4, <2>1 DEF Undoing, Recomputing
<1>5. ASSUME NEW t \in Threads, pc[t] \in {"recompute", "undo"} PROVE Reading = {}
  <2>1. Recomputing = {t} BY <1>5, RecomputingAlone
  <2> QED BY <1>5, <2>1 DEF Reading, Recomputing
<1>6. ASSUME NEW t \in Threads, pc[t] = "read"
      PROVE  /\ Reading = {t} /\ Reader = t /\ Taken = numVisitsCompleted[t]
             /\ Taken \in 1..dirtyCounter
  <2>1. Recomputing = {t} /\ numVisitsCompleted[t] \in 1..dirtyCounter
    BY <1>6, RecomputingAlone
  <2>2. Reading = {t} BY <1>6, <2>1 DEF Reading, Recomputing
  <2> QED BY <2>1, <2>2 DEF Taken, Reader
<1>7. Undoing = {} => Accounted = 0 BY DEF Accounted
<1>8. Accounted \in 0..dirtyCounter
  <2>1. CASE Undoing = {} BY <1>2, <1>7, <2>1
  <2>2. CASE Undoing # {}
    <3>1. PICK t \in Threads : pc[t] = "undo" BY <2>2 DEF Undoing
    <3> QED BY <1>2, <1>3, <3>1
  <2> QED BY <2>1, <2>2
<1>9. Pending \in Nat BY <1>2, <1>8 DEF Pending
<1>10. Taken \in Nat /\ Taken <= Pending
  <2>1. CASE Reading = {} BY <1>9, <2>1 DEF Taken
  <2>2. CASE Reading # {}
    <3>1. PICK t \in Threads : pc[t] = "read" BY <2>2 DEF Reading
    <3>2. Accounted = 0 /\ Taken \in 1..dirtyCounter BY <1>4, <1>6, <1>7, <3>1
    <3> QED BY <1>2, <3>2 DEF Pending
  <2> QED BY <2>1, <2>2
<1> QED BY <1>1, <1>2, <1>3, <1>4, <1>5, <1>6, <1>8, <1>9, <1>10

(* A step to or from no update leaves what is pending. *)
LEMMA PendingSame ==
    ASSUME TypeOK, NEW t \in Threads, Only(t), UNCHANGED <<dirtyCounter, numVisitsCompleted>>,
           pc[t] \notin {"update", "undo"}, pc'[t] \notin {"update", "undo"}
    PROVE  Pending' = Pending
<1>1. Updating' = Updating /\ Undoing' = Undoing BY DEF Updating, Undoing, Only, Steady
<1>2. Accounted' = Accounted BY <1>1 DEF Accounted
<1> QED BY <1>1, <1>2 DEF Pending

(* A thread that comes to its update adds one. *)
LEMMA PendingMore ==
    ASSUME TypeOK, DirtyOK, NEW t \in Threads, Only(t),
           UNCHANGED <<dirtyCounter, numVisitsCompleted>>,
           pc[t] \notin {"update", "undo"}, pc'[t] = "update"
    PROVE  Pending' = Pending + 1
<1>1. Updating' = Updating \cup {t} /\ t \notin Updating /\ Undoing' = Undoing
  BY DEF Updating, Undoing, Only, Steady
<1>2. Accounted' = Accounted BY <1>1 DEF Accounted
<1>3. /\ IsFiniteSet(Updating) /\ Cardinality(Updating) \in Nat
      /\ Accounted \in Int /\ dirtyCounter \in Nat
  BY PendingIsThere
<1>4. Cardinality(Updating') = Cardinality(Updating) + 1 BY <1>1, <1>3, FS_AddElement
<1> QED BY <1>2, <1>3, <1>4 DEF Pending

(* Arrays only gain visits, so other threads go on relying on what they did. *)
EdgesGrow == \A k \in 1..3 : Len(children[k]) > 0 =>
    /\ Len(children'[k]) = Len(children[k])
    /\ \A i \in Places(k) :
          /\ Mv(k, i) # NULL => children'[k][i].move = children[k][i].move
          /\ children'[k][i].edgeVisits >= children[k][i].edgeVisits

(* A step of one that does not read leaves a reader its array and its visits, *)
(* so no weight gets less.                                                  *)
WeightsGrow == \A i \in Nat \ {0} : Weight(i)' >= Weight(i)
LEMMA WeightsStay ==
    ASSUME TypeOK, TypeOK', NEW t \in Threads, Only(t), EdgesGrow, UNCHANGED childWeights,
           pc[t] # "read", pc'[t] # "read"
    PROVE  WeightsGrow
<1> SUFFICES ASSUME NEW i \in Nat \ {0} PROVE Weight(i)' >= Weight(i) BY DEF WeightsGrow
<1>1. Weight(i) \in Nat /\ Weight(i)' \in Nat BY WeightsAreNat, WeightsStayNat
<1>2. CASE i <= Len(childWeights) BY <1>1, <1>2 DEF Weight
<1>3. CASE ~(i <= Len(childWeights))
  <2>1. CASE Reading # {} /\ i \in Places(Arr(Reader))
    <3>1. Reading' = Reading /\ Reader \in Reading
      BY <2>1 DEF Reading, Reader, Only, Steady
    <3>2. Reader \in Threads \ {t} /\ Reader' = Reader BY <3>1 DEF Reading, Reader
    <3>3. Arr(Reader)' = Arr(Reader) BY <3>2 DEF Only, Steady, Arr
    <3>4. Arr(Reader) \in 1..3 BY <3>2, ThreadTypes, ArraysOfStates DEF Arr
    <3>5. Len(children[Arr(Reader)]) > 0 BY <2>1, <3>4, PlacesAreTyped DEF Places
    <3>6. /\ Len(children'[Arr(Reader)]) = Len(children[Arr(Reader)])
          /\ children'[Arr(Reader)][i].edgeVisits >= children[Arr(Reader)][i].edgeVisits
      BY <2>1, <3>4, <3>5 DEF EdgesGrow
    <3>7. Reading' # {} /\ i \in Places(Arr(Reader))' BY <2>1, <3>1, <3>3, <3>6 DEF Places
    <3> QED BY <1>3, <2>1, <3>3, <3>6, <3>7 DEF Weight, ToRead
  <2>2. CASE ~(Reading # {} /\ i \in Places(Arr(Reader)))
    <3>1. Weight(i) = 0 BY <1>3, <2>2 DEF Weight, ToRead
    <3> QED BY <1>1, <3>1
  <2> QED BY <2>1, <2>2
<1> QED BY <1>2, <1>3

(* ... nor is less taken. *)
LEMMA TakenSame ==
    ASSUME NEW t \in Threads, Only(t), pc[t] # "read", pc'[t] # "read",
           \A u \in Threads \ {t} : numVisitsCompleted'[u] = numVisitsCompleted[u]
    PROVE  Taken' = Taken
<1>1. Reading' = Reading /\ t \notin Reading /\ Reading \subseteq Threads
  BY DEF Reading, Only, Steady
<1>2. Reading # {} => Reader \in Threads \ {t} BY <1>1 DEF Reader
<1>3. Reader' = Reader BY <1>1 DEF Reader
<1> QED BY <1>1, <1>2, <1>3 DEF Taken

(* The sums do not grow with the array and the visits they are taken over if *)
(* no weight gets less, and grow by one at most with the visits of one slot. *)
LEMMA SumsStay ==
    ASSUME TypeOK, TypeOK', Now' = Now, WeightsGrow,
           Len(children'[Now]) = Len(children[Now]),
           \A i \in Places(Now) : children'[Now][i].edgeVisits = children[Now][i].edgeVisits
    PROVE  /\ EdgeSum' = EdgeSum /\ MissSum' <= MissSum
           /\ EdgeSum' \in Nat /\ MissSum' \in Nat
<1> DEFINE S == Places(Now)
           g == Excess(Now)
           h == Excess(Now)'
<1>1. Now \in 1..3 /\ Places(Now)' = S BY NowIsArray DEF Places
<1>2. Edges(Now)' = Edges(Now) BY <1>1 DEF Edges
<1>3. EdgeSum' = EdgeSum /\ EdgeSum \in Nat BY <1>1, <1>2, SumsAreNat, Zenon DEF EdgeSum
<1>4. MissSum = SumOver(g, S) BY DEF MissSum
<1>5. MissSum' = SumOver(h, S) BY <1>1, Zenon DEF MissSum
<1>6. IsFiniteSet(S) BY <1>1, PlacesAreTyped
<1>7. ASSUME NEW i \in S PROVE g[i] \in Nat /\ h[i] \in Nat /\ h[i] <= g[i]
  <2> DEFINE v == children[Now][i].edgeVisits
  <2>1. i \in Nat \ {0} BY <1>1, PlacesAreTyped DEF Places
  <2>2. /\ v \in Nat /\ Weight(i) \in Nat
        /\ g[i] = (IF v > Weight(i) THEN v - Weight(i) ELSE 0)
    BY <1>1, PlacesAreTyped
  <2>3. h[i] = (IF v > Weight(i)' THEN v - Weight(i)' ELSE 0) BY <1>1 DEF Excess
  <2>4. Weight(i)' \in Nat /\ Weight(i)' >= Weight(i)
    BY <2>1, WeightsStayNat DEF WeightsGrow
  <2> HIDE DEF v, g, h
  <2> QED BY <2>2, <2>3, <2>4
<1> HIDE DEF S, g, h
<1>8. SumOver(h, S) <= SumOver(g, S) /\ SumOver(h, S) \in Nat
  BY <1>6, <1>7, SumOfLess, SumStep
<1> QED BY <1>3, <1>4, <1>5, <1>8

(* ... and by one at most with a visit of one slot. *)
LEMMA SumsGrow ==
    ASSUME TypeOK, TypeOK', Now' = Now, WeightsGrow,
           Len(children'[Now]) = Len(children[Now]), NEW y,
           \A i \in Places(Now) : children'[Now][i].edgeVisits =
                IF i = y THEN children[Now][i].edgeVisits + 1 ELSE children[Now][i].edgeVisits
    PROVE  /\ EdgeSum' <= EdgeSum + 1 /\ MissSum' <= MissSum + 1
           /\ EdgeSum' \in Nat /\ MissSum' \in Nat
<1> DEFINE S == Places(Now)
           f == Edges(Now)
           e == Edges(Now)'
           g == Excess(Now)
           h == Excess(Now)'
<1>1. Now \in 1..3 /\ Places(Now)' = S BY NowIsArray DEF Places
<1>2. /\ IsFiniteSet(S)
      /\ \A i \in S : f[i] \in Nat /\ g[i] \in Nat
      /\ \A i \in S : f[i] = children[Now][i].edgeVisits /\ Weight(i) \in Nat
      /\ \A i \in S : g[i] = IF children[Now][i].edgeVisits > Weight(i)
                             THEN children[Now][i].edgeVisits - Weight(i) ELSE 0
  BY <1>1, PlacesAreTyped
<1>3. /\ \A i \in S : e[i] = children'[Now][i].edgeVisits
      /\ \A i \in S : h[i] = IF children'[Now][i].edgeVisits > Weight(i)'
                             THEN children'[Now][i].edgeVisits - Weight(i)' ELSE 0
      /\ \A i \in S : Weight(i)' \in Nat /\ Weight(i)' >= Weight(i)
  <2>1. \A i \in S : i \in Nat \ {0} BY <1>1, PlacesAreTyped DEF Places
  <2>2. \A i \in S : Weight(i)' \in Nat /\ Weight(i)' >= Weight(i)
    BY <2>1, WeightsStayNat DEF WeightsGrow
  <2> QED BY <1>1, <2>2 DEF Edges, Excess
<1>4. EdgeSum = SumOver(f, S) /\ MissSum = SumOver(g, S) BY DEF EdgeSum, MissSum
<1>5. EdgeSum' = SumOver(e, S) /\ MissSum' = SumOver(h, S)
  BY <1>1, Zenon DEF EdgeSum, MissSum
<1> HIDE DEF S, f, e, g, h
<1>6. \A i \in S : f[i] \in Nat /\ children'[Now][i].edgeVisits = IF i = y THEN f[i] + 1 ELSE f[i]
  BY <1>2 DEF S
<1>7. (\A i \in S : f[i] \in Nat /\ e[i] \in Nat)
      /\ (\A i \in S : e[i] <= IF i = y THEN f[i] + 1 ELSE f[i])
  BY <1>3, <1>6
<1>8. (\A i \in S : g[i] \in Nat /\ h[i] \in Nat)
      /\ (\A i \in S : h[i] <= IF i = y THEN g[i] + 1 ELSE g[i])
  <2> SUFFICES ASSUME NEW i \in S
               PROVE  g[i] \in Nat /\ h[i] \in Nat /\ h[i] <= IF i = y THEN g[i] + 1 ELSE g[i]
    OBVIOUS
  <2> DEFINE v == children[Now][i].edgeVisits
             w == children'[Now][i].edgeVisits
  <2>1. /\ v \in Nat /\ w = (IF i = y THEN v + 1 ELSE v) /\ Weight(i) \in Nat
        /\ g[i] = (IF v > Weight(i) THEN v - Weight(i) ELSE 0)
        /\ h[i] = (IF w > Weight(i)' THEN w - Weight(i)' ELSE 0)
        /\ Weight(i)' \in Nat /\ Weight(i)' >= Weight(i)
    BY <1>2, <1>3, <1>6
  <2> HIDE DEF v, w
  <2> QED BY <2>1
<1>9. SumOver(e, S) <= SumOver(f, S) + 1 BY <1>2, <1>7, SumOfOneMore
<1>10. SumOver(h, S) <= SumOver(g, S) + 1 BY <1>2, <1>8, SumOfOneMore
<1>11. SumOver(e, S) \in Nat /\ SumOver(h, S) \in Nat BY <1>2, <1>7, <1>8, SumStep
<1> QED BY <1>4, <1>5, <1>9, <1>10, <1>11

(* What a thread relies on of the edges, while another makes such a step. *)
LEMMA EdgesOfOthers ==
    ASSUME TypeOK, TypeOK', Tree, NEW u \in Threads, EdgeOK(u), EdgesGrow, Steady(u)
    PROVE  EdgeOK(u)'
<1>1. /\ pc'[u] = pc[u] /\ nodeState'[u] = nodeState[u] /\ best'[u] = best[u]
      /\ copied'[u] = copied[u] /\ Arr(u)' = Arr(u)
  BY DEF Steady, Arr
<1>2. ASSUME pc[u] \in EdgeSteps PROVE Mv(Arr(u), best[u].idx)' # NULL
  <2>1. Arr(u) \in 1..3 /\ best[u].idx \in Places(Arr(u)) BY <1>2, ChosenSlot DEF Places
  <2>2. Len(children[Arr(u)]) > 0 BY <2>1, PlacesAreTyped DEF Places
  <2>3. Mv(Arr(u), best[u].idx) # NULL BY <1>2 DEF EdgeOK
  <2>4. children'[Arr(u)][best[u].idx].move = children[Arr(u)][best[u].idx].move
    BY <2>1, <2>2, <2>3 DEF EdgesGrow
  <2> QED BY <1>1, <2>3, <2>4 DEF Mv
<1>3. ASSUME pc[u] = "copy", NEW i \in 1..Len(copied[u])
      PROVE  copied[u][i].edgeVisits <= children'[Arr(u)][i].edgeVisits
  <2>1. /\ nodeState[u] \in 2..6 /\ nodeState[u] <= state /\ Len(copied[u]) <= Cap(u)
    BY <1>3, ThreadTypes DEF Tree, ThreadOK, ViewOK, CopyOK, EvalSteps
  <2>2. Arr(u) \in 1..3 /\ Len(children[Arr(u)]) = Cap(u) /\ Cap(u) \in Nat \ {0}
    BY <2>1, ArrayIsThere, ArraysOfStates DEF Tree, Arr, Cap
  <2>3. copied[u] \in Seq(Slots) /\ Len(copied[u]) \in Nat BY LenProperties DEF TypeOK
  <2>4. i \in Places(Arr(u)) /\ i \in 1..Len(copied[u]) BY <2>1, <2>2, <2>3 DEF Places
  <2>5. copied[u][i] \in Slots BY <2>3, <2>4, ElementOfSeq
  <2>6. copied[u][i].edgeVisits \in Nat BY <2>5 DEF Slots
  <2>7. copied[u][i].edgeVisits <= children[Arr(u)][i].edgeVisits BY <1>3 DEF EdgeOK
  <2>8. /\ children'[Arr(u)][i].edgeVisits >= children[Arr(u)][i].edgeVisits
        /\ children[Arr(u)][i].edgeVisits \in Nat
        /\ Len(children'[Arr(u)]) = Len(children[Arr(u)])
    BY <2>2, <2>4, PlacesAreTyped DEF EdgesGrow
  <2>9. children'[Arr(u)][i].edgeVisits \in Nat
    <3>1. i \in Places(Arr(u))' BY <2>4, <2>8, <1>1 DEF Places
    <3>2. children' \in [1..3 -> Seq(Slots)] BY DEF TypeOK
    <3>3. children'[Arr(u)] \in Seq(Slots) /\ i \in 1..Len(children'[Arr(u)])
      BY <2>2, <2>4, <2>8, <3>2 DEF Places
    <3>4. children'[Arr(u)][i] \in Slots BY <3>3, ElementOfSeq
    <3> QED BY <3>4 DEF Slots
  <2> QED BY <2>6, <2>7, <2>8, <2>9
<1> QED BY <1>1, <1>2, <1>3 DEF EdgeOK

(* A step of t keeps count if the arrays only gain and t has what it needs. *)
LEMMA CountedStep ==
    ASSUME TypeOK, TypeOK', Tree, Counted, NEW t \in Threads, Only(t), EdgesGrow,
           EmptyIsUnvisited', EdgeOK(t)', Covered'
    PROVE  Counted'
<1>1. ASSUME NEW u \in Threads, u # t PROVE EdgeOK(u)'
  BY <1>1, EdgesOfOthers DEF Counted, Only
<1> QED BY <1>1 DEF Counted

(* Both sums may grow by what is added to the uncounted and pending ones. *)
LEMMA StillLess ==
    ASSUME NEW e \in Nat, NEW e1 \in Nat, NEW v \in Nat, NEW v1 \in Nat, NEW u \in Nat,
           NEW u1 \in Nat, NEW p \in Nat, NEW p1 \in Int, NEW d \in Nat, NEW k \in Nat,
           v1 >= v, u1 + p1 >= u + p + d, e1 <= e + d
    PROVE  /\ e + 1 <= v + u + p => e1 + 1 <= v1 + u1 + p1
           /\ e + k <= u + p => e1 + k <= u1 + p1
OBVIOUS

(* ... so the visits and weights still cover the edges. *)
LEMMA CoveredStill ==
    ASSUME TypeOK, TypeOK', DirtyOK, Covered, NEW d \in Nat,
           EdgeSum' \in Nat, MissSum' \in Nat, Pending' \in Int,
           state' >= 2 => state >= 2, EdgeSum' <= EdgeSum + d, MissSum' <= MissSum + d,
           visits' >= visits, uncounted' + Pending' >= uncounted + Pending + d, Taken' = Taken
    PROVE  Covered'
<1>1. /\ EdgeSum \in Nat /\ MissSum \in Nat /\ Pending \in Nat
      /\ visits \in Nat /\ uncounted \in Nat /\ visits' \in Nat /\ uncounted' \in Nat
      /\ Taken \in Nat
  BY SumsAreNat, PendingIsThere DEF TypeOK
<1>4. PICK e \in Nat, f \in Nat, m \in Nat, n \in Nat :
          e = EdgeSum /\ f = EdgeSum' /\ m = MissSum /\ n = MissSum'
  BY <1>1
<1>5. PICK v \in Nat, w \in Nat, u \in Nat, x \in Nat, p \in Nat, q \in Int, k \in Nat :
          /\ v = visits /\ w = visits' /\ u = uncounted /\ x = uncounted'
          /\ p = Pending /\ q = Pending' /\ k = Taken /\ k = Taken'
  BY <1>1
<1>6. w >= v /\ x + q >= u + p + d /\ f <= e + d /\ n <= m + d
  BY <1>4, <1>5, Zenon
<1>2. e + 1 <= v + u + p => f + 1 <= w + x + q BY <1>6, StillLess
<1>3. m + k <= u + p => n + k <= x + q BY <1>6, StillLess
<1> QED BY <1>2, <1>3, <1>4, <1>5, Zenon DEF Covered

(* A step that leaves the arrays and what is pending alone. *)
LEMMA CountedAtRest ==
    ASSUME TypeOK, TypeOK', Tree, DirtyOK, Counted, NEW t \in Threads, Only(t),
           UNCHANGED <<children, childWeights, uncounted>>, visits' >= visits,
           \A u \in Threads \ {t} : numVisitsCompleted'[u] = numVisitsCompleted[u],
           pc[t] # "read", pc'[t] # "read", Pending' = Pending, Now' = Now,
           state' >= 2 => state >= 2, EdgeOK(t)'
    PROVE  Counted'
<1>1. EdgesGrow
  <2>1. ASSUME NEW k \in 1..3, NEW i \in Places(k)
        PROVE  children[k][i].edgeVisits >= children[k][i].edgeVisits
    BY PlacesAreTyped
  <2> QED BY <2>1 DEF EdgesGrow
<1>2. EmptyIsUnvisited' BY DEF Counted, EmptyIsUnvisited, Mv, Places
<1>3. Covered'
  <2>1. EdgeSum' = EdgeSum /\ MissSum' <= MissSum /\ EdgeSum' \in Nat /\ MissSum' \in Nat
    BY <1>1, WeightsStay, SumsStay
  <2>2. EdgeSum \in Nat /\ MissSum \in Nat /\ Pending \in Nat /\ uncounted \in Nat
    BY SumsAreNat, PendingIsThere DEF TypeOK
  <2>5. EdgeSum' <= EdgeSum + 0 /\ MissSum' <= MissSum + 0 /\ Pending' \in Int
    BY <2>1, <2>2
  <2>6. uncounted' + Pending' >= uncounted + Pending + 0
    <3>1. uncounted' = uncounted /\ Pending' = Pending OBVIOUS
    <3> QED BY <2>2, <3>1
  <2>3. Covered /\ Taken' = Taken BY TakenSame DEF Counted
  <2>4. 0 \in Nat OBVIOUS
  <2> QED BY <2>1, <2>3, <2>4, <2>5, <2>6, CoveredStill
<1> QED BY <1>1, <1>2, <1>3, CountedStep

(* A step that adds a visit to the edge of the child a thread has chosen. *)
LEMMA VisitAdded ==
    ASSUME TypeOK, Tree, NEW t \in Threads, pc[t] \in EdgeSteps, AddEdgeVisits(t)
    PROVE  \A j \in 1..3 : /\ Len(children'[j]) = Len(children[j])
                           /\ \A l \in Places(j) :
                                /\ children'[j][l].move = children[j][l].move
                                /\ children'[j][l].edgeVisits =
                                      IF j = Arr(t) /\ l = best[t].idx
                                      THEN children[j][l].edgeVisits + 1
                                      ELSE children[j][l].edgeVisits
<1> DEFINE k == Arr(t)
           i == best[t].idx
           slot == [children[k][i] EXCEPT !.edgeVisits = @ + 1]
           newk == [children[k] EXCEPT ![i] = slot]
<1>1. /\ k \in 1..3 /\ i \in 1..Len(children[k]) /\ children[k][i] \in Slots
  <2>1. pc[t] \in EdgeSteps \/ (pc[t] \in NewSteps /\ best[t].idx <= Cap(t)) OBVIOUS
  <2> QED BY <2>1, ChosenSlot
<1>2. slot \in Slots /\ slot.move = children[k][i].move
      /\ slot.edgeVisits = children[k][i].edgeVisits + 1
  BY <1>1 DEF Slots
<1>3. children' = [children EXCEPT ![k] = newk]
  BY <1>1 DEF AddEdgeVisits, Arr
<1>4. /\ children \in [1..3 -> Seq(Slots)] /\ newk \in Seq(Slots)
      /\ Len(newk) = Len(children[k])
      /\ \A l \in 1..Len(children[k]) : newk[l] = IF l = i THEN slot ELSE children[k][l]
  <2>1. children \in [1..3 -> Seq(Slots)] /\ children[k] \in Seq(Slots)
    BY <1>1 DEF TypeOK
  <2> QED BY <1>1, <1>2, <2>1, ExceptSeq
<1> HIDE DEF k, i, slot, newk
<1>5. /\ \A j \in 1..3 : Len(children'[j]) = Len(children[j])
      /\ \A j \in 1..3 : \A l \in 1..Len(children[j]) :
            children'[j][l] = IF j = k /\ l = i THEN slot ELSE children[j][l]
  BY <1>1, <1>3, <1>4
<1> SUFFICES ASSUME NEW j \in 1..3, NEW l \in Places(j)
             PROVE  /\ children'[j][l].move = children[j][l].move
                    /\ children'[j][l].edgeVisits = IF j = k /\ l = i
                          THEN children[j][l].edgeVisits + 1 ELSE children[j][l].edgeVisits
  BY <1>5 DEF k, i
<1>6. children'[j][l] = IF j = k /\ l = i THEN slot ELSE children[j][l]
  BY <1>5 DEF Places
<1>7. CASE j = k /\ l = i BY <1>2, <1>6, <1>7
<1>8. CASE ~(j = k /\ l = i) BY <1>6, <1>8
<1> QED BY <1>7, <1>8

(* Such a step keeps count if the visit becomes pending or uncounted. *)
LEMMA CountedWithEdge ==
    ASSUME TypeOK, TypeOK', Tree, DirtyOK, Counted, NEW t \in Threads, Only(t),
           pc[t] \in EdgeSteps, AddEdgeVisits(t),
           UNCHANGED <<state, childWeights, visits, numVisitsCompleted>>,
           Pending' \in Int, uncounted' + Pending' >= uncounted + Pending + 1,
           pc'[t] \notin EdgeSteps \cup {"copy", "read"}
    PROVE  Counted'
<1>1. /\ \A j \in 1..3 : Len(children'[j]) = Len(children[j])
      /\ \A j \in 1..3 : \A l \in Places(j) :
            /\ children'[j][l].move = children[j][l].move
            /\ children'[j][l].edgeVisits = IF j = Arr(t) /\ l = best[t].idx
                  THEN children[j][l].edgeVisits + 1 ELSE children[j][l].edgeVisits
  BY VisitAdded
<1>2. EdgesGrow
  <2>1. ASSUME NEW k \in 1..3, NEW i \in Places(k)
        PROVE  /\ children'[k][i].move = children[k][i].move
               /\ children'[k][i].edgeVisits >= children[k][i].edgeVisits
    <3>1. children[k][i].edgeVisits \in Nat BY PlacesAreTyped
    <3>2. \/ children'[k][i].edgeVisits = children[k][i].edgeVisits
          \/ children'[k][i].edgeVisits = children[k][i].edgeVisits + 1
      BY <1>1
    <3> QED BY <1>1, <3>1, <3>2
  <2> QED BY <1>1, <2>1 DEF EdgesGrow
<1>3. EmptyIsUnvisited'
  <2>1. ASSUME NEW k \in 1..3, NEW i \in Places(k), children'[k][i].move = NULL
        PROVE  children'[k][i].edgeVisits = 0
    <3>1. Mv(k, i) = NULL BY <1>1, <2>1 DEF Mv
    <3>2. ~(k = Arr(t) /\ i = best[t].idx) BY <3>1 DEF Counted, EdgeOK
    <3>3. children'[k][i].edgeVisits = children[k][i].edgeVisits BY <1>1, <3>2
    <3> QED BY <3>1, <3>3 DEF Counted, EmptyIsUnvisited
  <2>2. \A k \in 1..3 : Places(k)' = Places(k) BY <1>1 DEF Places
  <2> QED BY <2>1, <2>2 DEF EmptyIsUnvisited, Mv
<1>4. EdgeOK(t)' BY DEF EdgeOK
<1>5. /\ EdgeSum' <= EdgeSum + 1 /\ MissSum' <= MissSum + 1
      /\ EdgeSum' \in Nat /\ MissSum' \in Nat
  <2>1. Now' = Now /\ Now \in 1..3 BY NowIsArray DEF Now
  <2>2. Len(children'[Now]) = Len(children[Now]) /\ WeightsGrow
    BY <1>1, <1>2, <2>1, WeightsStay DEF EdgeSteps
  <2>3. CASE Arr(t) = Now
    <3>1. \A i \in Places(Now) : children'[Now][i].edgeVisits =
             IF i = best[t].idx THEN children[Now][i].edgeVisits + 1 ELSE children[Now][i].edgeVisits
      BY <1>1, <2>1, <2>3
    <3> QED BY <2>1, <2>2, <3>1, SumsGrow
  <2>4. CASE Arr(t) # Now
    <3>1. \A i \in Places(Now) : children'[Now][i].edgeVisits = children[Now][i].edgeVisits
      BY <1>1, <2>1, <2>4
    <3> QED BY <2>1, <2>2, <3>1, SumsStay, SumsAreNat
  <2> QED BY <2>3, <2>4
<1>6. Covered'
  <2>1. visits' >= visits BY DEF TypeOK
  <2>2. Covered /\ 1 \in Nat /\ Taken' = Taken BY TakenSame DEF Counted, EdgeSteps
  <2> QED BY <1>5, <2>1, <2>2, CoveredStill
<1> QED BY <1>2, <1>3, <1>4, <1>6, CountedStep

(* An update that is announced is still pending, and no longer when it is done. *)
LEMMA PendingAnnounced ==
    ASSUME TypeOK, DirtyOK, NEW t \in Threads, Only(t), updateStatsAfterPlayout(t)
    PROVE  Pending' = Pending
<1>1. /\ pc[t] = "update" /\ dirtyCounter' = dirtyCounter + 1
      /\ pc'[t] \in {"release", "recompute"}
      /\ \/ dirtyCounter > 0 /\ numVisitsCompleted' = numVisitsCompleted
         \/ ~(dirtyCounter > 0)
  BY DEF updateStatsAfterPlayout, GoTo, TypeOK
<1>2. /\ IsFiniteSet(Updating) /\ Cardinality(Updating) \in Nat /\ dirtyCounter \in Nat
      /\ Accounted \in 0..dirtyCounter
  BY PendingIsThere
<1>3. Updating' = Updating \ {t} /\ t \in Updating /\ Undoing' = Undoing
  BY <1>1 DEF Updating, Undoing, Only, Steady
<1>4. Cardinality(Updating') = Cardinality(Updating) - 1 BY <1>2, <1>3, FS_RemoveElement
<1>5. Accounted' = Accounted
  <2>1. CASE numVisitsCompleted' = numVisitsCompleted BY <1>3, <2>1 DEF Accounted
  <2>2. CASE ~(dirtyCounter > 0)
    <3>1. Undoing = {} BY <1>2, <2>2 DEF DirtyOK, Undoing, Recomputing
    <3> QED BY <1>3, <3>1 DEF Accounted
  <2> QED BY <1>1, <2>1, <2>2
<1>6. Cardinality(Updating') + dirtyCounter' = Cardinality(Updating) + dirtyCounter
  BY <1>1, <1>2, <1>4
<1>7. Cardinality(Updating') \in Nat
  BY <1>2, <1>4, <1>3, FS_CardinalityType, FS_RemoveElement
<1> QED BY <1>1, <1>2, <1>4, <1>5, <1>7 DEF Pending

(* What was computed is no longer pending once it is taken off the counter. *)
LEMMA PendingUndone ==
    ASSUME TypeOK, DirtyOK, NEW t \in Threads, Only(t), UndoDirty(t)
    PROVE  Pending' = Pending
<1>1. /\ pc[t] = "undo" /\ dirtyCounter' = dirtyCounter - numVisitsCompleted[t]
      /\ pc'[t] \in {"release", "recompute"}
  BY DEF UndoDirty, GoTo, TypeOK
<1>2. /\ Undoing = {t} /\ Accounted = numVisitsCompleted[t] /\ dirtyCounter \in Nat
      /\ Accounted \in 0..dirtyCounter /\ Cardinality(Updating) \in Nat
  BY <1>1, PendingIsThere
<1>3. Updating' = Updating /\ Undoing' = {}
  BY <1>1, <1>2 DEF Updating, Undoing, Only, Steady
<1>4. Accounted' = 0 BY <1>3 DEF Accounted
<1>5. Cardinality(Updating') = Cardinality(Updating) BY <1>3
<1> QED BY <1>1, <1>2, <1>4, <1>5 DEF Pending

(* What is computed is accounted for, and no longer pending. *)
LEMMA PendingComputed ==
    ASSUME TypeOK, DirtyOK, NEW t \in Threads, Only(t), recomputeNodeStats(t)
    PROVE  Pending' = Pending - numVisitsCompleted[t] /\ Pending' \in Nat
<1>1. /\ pc[t] = "read" /\ pc'[t] = "undo"
      /\ UNCHANGED <<dirtyCounter, numVisitsCompleted>>
  BY DEF recomputeNodeStats, GoTo, TypeOK
<1>2. /\ Undoing = {} /\ Accounted = 0 /\ dirtyCounter \in Nat
      /\ Cardinality(Updating) \in Nat /\ numVisitsCompleted[t] \in 1..dirtyCounter
  <2>1. Undoing = {} BY <1>1, PendingIsThere
  <2> QED BY <1>1, <2>1, PendingIsThere, RecomputingAlone DEF Accounted
<1>3. Updating' = Updating /\ Undoing' = {t}
  BY <1>1, <1>2 DEF Updating, Undoing, Only, Steady
<1>4. Accounted' = numVisitsCompleted[t]
  <2>1. (CHOOSE u \in {t} : TRUE) = t OBVIOUS
  <2> QED BY <1>1, <1>3, <2>1 DEF Accounted
<1>5. Cardinality(Updating') = Cardinality(Updating) BY <1>3
<1> QED BY <1>1, <1>2, <1>4, <1>5 DEF Pending

(* A thread that begins to read is to read every slot as it is. *)
LEMMA NothingMissed ==
    ASSUME IInv, TypeOK', NEW t \in Threads, getChildren(t), Only(t)
    PROVE  /\ MissSum' = 0 /\ EdgeSum' = EdgeSum
           /\ Taken' = numVisitsCompleted[t] /\ Pending' = Pending
<1>1. /\ pc[t] = "recompute" /\ pc'[t] = "read" /\ nodeState'[t] = state
      /\ childWeights' = <<>> /\ UNCHANGED <<state, children, dirtyCounter, numVisitsCompleted>>
  BY DEF getChildren, GoTo, IInv, TypeOK, node
<1>2. /\ TypeOK /\ Now' = Now /\ Now \in 1..3 /\ Places(Now)' = Places(Now)
      /\ IsFiniteSet(Places(Now))
  <2>1. TypeOK /\ Now' = Now /\ Now \in 1..3 BY <1>1, NowIsArray DEF Now, IInv
  <2> QED BY <1>1, <2>1, PlacesAreTyped DEF Places
<1>3. Reading = {} BY <1>1, PendingIsThere DEF IInv
<1>4. Reading' = {t} /\ Reader' = t
  <2>1. Reading' = {t} BY <1>1, <1>3 DEF Reading, Only, Steady
  <2>2. (CHOOSE u \in {t} : TRUE) = t OBVIOUS
  <2> QED BY <2>1, <2>2 DEF Reader
<1>5. Arr(Reader)' = Now BY <1>1, <1>4 DEF Arr, Now
<1>6. ASSUME NEW i \in Places(Now) PROVE Excess(Now)'[i] = 0
  <2>1. children[Now][i].edgeVisits \in Nat /\ i \in Nat \ {0}
    BY <1>2, PlacesAreTyped DEF Places
  <2>2. ToRead(i)' = children[Now][i].edgeVisits BY <1>1, <1>2, <1>4, <1>5 DEF ToRead, Places
  <2>3. Weight(i)' = children[Now][i].edgeVisits BY <1>1, <2>1, <2>2 DEF Weight
  <2>4. Excess(Now)'[i] = IF children'[Now][i].edgeVisits > Weight(i)'
                          THEN children'[Now][i].edgeVisits - Weight(i)' ELSE 0
    BY <1>2 DEF Excess
  <2> QED BY <1>1, <2>1, <2>3, <2>4
<1>7. SumOver(Excess(Now)', Places(Now)) = 0 BY <1>2, <1>6, SumOfZeros
<1>8. MissSum' = 0 BY <1>2, <1>7, Zenon DEF MissSum
<1>9. EdgeSum' = EdgeSum BY <1>1, Zenon DEF EdgeSum, Edges, Places, Now
<1>10. Taken' = numVisitsCompleted[t] BY <1>1, <1>4 DEF Taken
<1>11. Pending' = Pending BY <1>1, <1>2, PendingSame
<1> QED BY <1>8, <1>9, <1>10, <1>11

(* Reading a child leaves its weight, and so does the end of the children: *)
(* beyond it there is nothing to read.                                     *)
LEMMA WeightsRead ==
    ASSUME IInv, TypeOK', Counted, NEW t \in Threads, Only(t),
           ReadChild(t) \/ recomputeNodeStats(t)
    PROVE  WeightsGrow
<1>1. TypeOK /\ Tree /\ DirtyOK /\ pc[t] = "read" BY DEF IInv, ReadChild, recomputeNodeStats
<1>2. /\ Arr(t) \in 1..3 /\ childWeights \in Seq(Nat) /\ Len(childWeights) \in Nat
      /\ Len(children[Arr(t)]) \in Nat
  BY <1>1, ReadsInArray
<1>3. Reading = {t} /\ Reader = t BY <1>1, PendingIsThere
<1> SUFFICES ASSUME NEW i \in Nat \ {0} PROVE Weight(i)' >= Weight(i) BY DEF WeightsGrow
<1>4. Weight(i) \in Nat BY <1>1, WeightsAreNat
<1>5. ToRead(i) = IF i \in Places(Arr(t)) THEN children[Arr(t)][i].edgeVisits ELSE 0
  BY <1>3 DEF ToRead
<1>6. CASE ReadChild(t)
  <2>1. /\ ~AllRead(t) /\ childWeights' = Append(childWeights, NextChild(t).edgeVisits)
        /\ UNCHANGED <<children, pc, nodeState>>
    BY <1>6 DEF ReadChild, node, locals, choice
  <2>2. Reading' = {t} /\ Reader' = t /\ Arr(t)' = Arr(t) BY <1>3, <2>1 DEF Reading, Reader, Arr
  <2>3. ToRead(i)' = ToRead(i) BY <1>3, <2>1, <2>2 DEF ToRead, Places
  <2>4. /\ Len(childWeights') = Len(childWeights) + 1
        /\ childWeights'[Len(childWeights) + 1] = NextChild(t).edgeVisits
        /\ \A j \in 1..Len(childWeights) : childWeights'[j] = childWeights[j]
    BY <1>1, <1>2, <2>1, ReadsInArray, AppendProperties
  <2>5. CASE i <= Len(childWeights) BY <1>2, <1>4, <2>4, <2>5 DEF Weight
  <2>6. CASE i = Len(childWeights) + 1
    <3>1. /\ i \in Places(Arr(t)) /\ NextChild(t).edgeVisits = children[Arr(t)][i].edgeVisits
      BY <1>1, <2>1, <2>6, ReadsInArray DEF Places
    <3>2. Weight(i) = ToRead(i) BY <1>2, <2>6 DEF Weight
    <3>3. Weight(i)' = NextChild(t).edgeVisits BY <1>2, <2>4, <2>6 DEF Weight
    <3> QED BY <1>4, <1>5, <3>1, <3>2, <3>3
  <2>7. CASE i > Len(childWeights) + 1
    <3>1. Weight(i) = ToRead(i) /\ Weight(i)' = ToRead(i)' BY <1>2, <2>4, <2>7 DEF Weight
    <3> QED BY <1>4, <2>3, <3>1
  <2> QED BY <1>2, <2>5, <2>6, <2>7
<1>7. CASE recomputeNodeStats(t)
  <2>1. AllRead(t) /\ childWeights' = childWeights BY <1>7 DEF recomputeNodeStats
  <2>2. CASE i <= Len(childWeights) BY <1>4, <2>1, <2>2 DEF Weight
  <2>3. CASE ~(i <= Len(childWeights))
    <3>1. ASSUME i \in Places(Arr(t)) PROVE children[Arr(t)][i].edgeVisits = 0
      <4>1. Mv(Arr(t), i) = NULL BY <1>1, <1>2, <2>1, <2>3, <3>1, ReadsInArray DEF Places
      <4> QED BY <1>2, <3>1, <4>1 DEF Counted, EmptyIsUnvisited
    <3>2. Weight(i) = 0 BY <1>5, <2>3, <3>1 DEF Weight
    <3>3. Weight(i)' \in Nat BY WeightsStayNat
    <3> QED BY <3>2, <3>3
  <2> QED BY <2>2, <2>3
<1> QED BY <1>6, <1>7

(* The steps that update the statistics. *)
LEMMA CountedUpdateStats ==
    ASSUME IInv, TypeOK', Counted, NEW t \in Threads, UpdateStats(t), Only(t)
    PROVE  Counted'
<1>1. TypeOK /\ Tree /\ DirtyOK BY DEF IInv
<1>2. CASE updateStatsAfterPlayout(t) \/ UndoDirty(t)
  <2>1. /\ UNCHANGED <<state, children, childWeights, uncounted, visits>>
        /\ pc'[t] \in {"release", "recompute"}
    BY <1>1, <1>2 DEF updateStatsAfterPlayout, UndoDirty, GoTo, TypeOK, node
  <2>2. Pending' = Pending BY <1>1, <1>2, PendingAnnounced, PendingUndone
  <2>3. EdgeOK(t)' /\ Now' = Now BY <2>1 DEF EdgeOK, EdgeSteps, Now
  <2>4. visits' >= visits BY <1>1, <2>1 DEF TypeOK
  <2>5. \A u \in Threads \ {t} : numVisitsCompleted'[u] = numVisitsCompleted[u]
    BY <1>1, <1>2 DEF updateStatsAfterPlayout, UndoDirty, Completed, TypeOK
  <2>6. pc[t] # "read" BY <1>2 DEF updateStatsAfterPlayout, UndoDirty
  <2> QED BY <1>1, <2>1, <2>2, <2>3, <2>4, <2>5, <2>6, CountedAtRest
<1>3. ASSUME UNCHANGED <<state, children, uncounted>>, pc'[t] \in {"read", "undo"}, Covered'
      PROVE  Counted'
  <2>1. EdgesGrow
    <3>1. ASSUME NEW k \in 1..3, NEW i \in Places(k)
          PROVE  children[k][i].edgeVisits >= children[k][i].edgeVisits
      BY <1>1, PlacesAreTyped
    <3> QED BY <1>3, <3>1 DEF EdgesGrow
  <2>2. EmptyIsUnvisited' BY <1>3 DEF Counted, EmptyIsUnvisited, Mv, Places
  <2>3. EdgeOK(t)' BY <1>3 DEF EdgeOK, EdgeSteps
  <2> QED BY <1>1, <1>3, <2>1, <2>2, <2>3, CountedStep
<1>4. CASE getChildren(t)
  <2>1. /\ UNCHANGED <<state, children, uncounted, visits>> /\ pc[t] = "recompute"
        /\ pc'[t] = "read"
    BY <1>1, <1>4 DEF getChildren, GoTo, TypeOK, node
  <2>2. /\ MissSum' = 0 /\ EdgeSum' = EdgeSum
        /\ Taken' = numVisitsCompleted[t] /\ Pending' = Pending
    BY <1>4, NothingMissed
  <2>3. numVisitsCompleted[t] <= Pending
    <3>1. /\ Undoing = {} /\ numVisitsCompleted[t] \in 1..dirtyCounter
          /\ Cardinality(Updating) \in Nat /\ dirtyCounter \in Nat
      BY <1>1, <2>1, PendingIsThere, RecomputingAlone
    <3> QED BY <3>1 DEF Pending, Accounted
  <2>4. Pending \in Nat /\ uncounted \in Nat /\ numVisitsCompleted[t] \in Nat
    BY <1>1, PendingIsThere, ThreadTypes DEF TypeOK
  <2>5. MissSum' + Taken' <= uncounted' + Pending' BY <2>1, <2>2, <2>3, <2>4
  <2>6. Covered' BY <2>1, <2>2, <2>5 DEF Counted, Covered
  <2> QED BY <1>3, <2>1, <2>6
<1>5. ASSUME ReadChild(t) \/ recomputeNodeStats(t)
      PROVE  EdgeSum' = EdgeSum /\ MissSum' <= MissSum /\ MissSum' \in Nat /\ MissSum \in Nat
  <2>1. UNCHANGED <<state, children>> BY <1>5 DEF ReadChild, recomputeNodeStats, node
  <2>2. WeightsGrow BY <1>5, WeightsRead
  <2>3. Now' = Now BY <2>1 DEF Now
  <2> QED BY <1>1, <2>1, <2>2, <2>3, SumsStay, SumsAreNat
<1>6. CASE ReadChild(t)
  <2>1. /\ UNCHANGED <<state, children, uncounted, visits, dirtyCounter>>
        /\ UNCHANGED <<pc, nodeState, best, copied, numVisitsCompleted>> /\ pc[t] = "read"
    BY <1>6 DEF ReadChild, node, locals, choice
  <2>2. Pending' = Pending /\ Taken' = Taken
    BY <2>1 DEF Pending, Updating, Accounted, Undoing, Taken, Reading, Reader
  <2>3. Pending \in Nat /\ Taken \in Nat /\ uncounted \in Nat
    BY <1>1, PendingIsThere DEF TypeOK
  <2>4. MissSum + Taken <= uncounted + Pending => MissSum' + Taken' <= uncounted' + Pending'
    BY <1>5, <1>6, <2>1, <2>2, <2>3
  <2>5. Covered' BY <1>5, <1>6, <2>1, <2>2, <2>4 DEF Counted, Covered
  <2> QED BY <1>3, <2>1, <2>5
<1>7. CASE recomputeNodeStats(t)
  <2> DEFINE n == numVisitsCompleted[t]
  <2>1. /\ UNCHANGED <<state, children, uncounted>> /\ pc[t] = "read" /\ pc'[t] = "undo"
        /\ visits' = visits + n
    BY <1>1, <1>7 DEF recomputeNodeStats, GoTo, TypeOK, node
  <2>2. Pending' = Pending - n /\ Pending' \in Nat BY <1>1, <1>7, PendingComputed
  <2>3. Taken = n /\ Taken' = 0
    <3>1. Reading = {t} /\ Taken = n BY <1>1, <2>1, PendingIsThere
    <3>2. Reading' = {} BY <2>1, <3>1 DEF Reading, Only, Steady
    <3> QED BY <3>1, <3>2 DEF Taken
  <2>4. /\ EdgeSum \in Nat /\ Pending \in Nat /\ visits \in Nat /\ n \in Nat
        /\ uncounted \in Nat
    BY <1>1, SumsAreNat, PendingIsThere, ThreadTypes DEF TypeOK
  <2> HIDE DEF n
  <2>5. visits' + uncounted' + Pending' = visits + uncounted + Pending
    BY <2>1, <2>2, <2>4
  <2>6. MissSum + Taken <= uncounted + Pending => MissSum' + Taken' <= uncounted' + Pending'
    BY <1>5, <1>7, <2>1, <2>2, <2>3, <2>4
  <2>7. Covered' BY <1>5, <1>7, <2>1, <2>5, <2>6 DEF Counted, Covered
  <2> QED BY <1>3, <2>1, <2>7
<1> QED BY <1>2, <1>4, <1>6, <1>7 DEF UpdateStats

(* A step that leaves the arrays and the statistics alone. *)
LEMMA CountedSame ==
    ASSUME TypeOK, TypeOK', Tree, DirtyOK, Counted, NEW t \in Threads, Only(t),
           UNCHANGED <<children, childWeights, uncounted, dirtyCounter, numVisitsCompleted>>,
           visits' >= visits, Now' = Now, state' >= 2 => state >= 2, EdgeOK(t)',
           pc[t] \notin {"update", "read", "undo"}, pc'[t] \notin {"update", "read", "undo"}
    PROVE  Counted'
BY PendingSame, CountedAtRest

(* A step in which a thread adds a visit and then has an update to announce. *)
LEMMA CountedWithUpdate ==
    ASSUME TypeOK, TypeOK', Tree, DirtyOK, Counted, NEW t \in Threads, Only(t),
           pc[t] \in EdgeSteps, AddEdgeVisits(t), UNCHANGED <<state, childWeights, visits>>,
           UNCHANGED <<dirtyCounter, numVisitsCompleted, uncounted>>, pc'[t] = "update"
    PROVE  Counted'
<1>1. Pending' = Pending + 1 BY PendingMore DEF EdgeSteps
<1>2. Pending \in Nat /\ uncounted \in Nat BY PendingIsThere DEF TypeOK
<1>3. Pending' \in Int /\ uncounted' + Pending' >= uncounted + Pending + 1
  <2>1. uncounted' = uncounted OBVIOUS
  <2> QED BY <1>1, <1>2, <2>1
<1>4. pc'[t] \notin EdgeSteps \cup {"copy", "read"} BY DEF EdgeSteps
<1> QED BY <1>3, <1>4, CountedWithEdge

(* The first array has no visits. *)
LEMMA CountedFirst ==
    ASSUME IInv, TypeOK', Counted, NEW t \in Threads, initializeChildren(t), Only(t)
    PROVE  Counted'
<1>1. /\ TypeOK /\ Tree /\ DirtyOK /\ NodeOK /\ pc[t] = "initializeChildren"
      /\ state' = state /\ pc'[t] = "expand0"
      /\ children' = [children EXCEPT ![1] = NewArray(CHILDREN0SIZE)]
  BY DEF IInv, Tree, initializeChildren, GoTo, TypeOK
<1>2. state = 1 BY <1>1 DEF Tree, ThreadOK, EvalOK
<1>3. /\ children \in [1..3 -> Seq(Slots)] /\ CHILDREN0SIZE \in Nat /\ Sizes[1] = CHILDREN0SIZE
      /\ Len(children[1]) \in {0, Sizes[1]}
  BY <1>1, NodeAssumption DEF TypeOK, Sizes
<1>4. /\ Len(children'[1]) = CHILDREN0SIZE
      /\ \A i \in 1..CHILDREN0SIZE : children'[1][i] = EmptySlot
      /\ \A k \in 1..3 : k # 1 => children'[k] = children[k]
  BY <1>1, <1>3 DEF NewArray
<1>5. EmptySlot.move = NULL /\ EmptySlot.edgeVisits = 0 BY DEF EmptySlot
<1>6. EdgesGrow
  <2>1. ASSUME NEW k \in 1..3, Len(children[k]) > 0, NEW i \in Places(k)
        PROVE  /\ Len(children'[k]) = Len(children[k])
               /\ Mv(k, i) # NULL => children'[k][i].move = children[k][i].move
               /\ children'[k][i].edgeVisits >= children[k][i].edgeVisits
    <3>1. CASE k = 1
      <4>1. Len(children[1]) = CHILDREN0SIZE BY <1>3, <2>1, <3>1
      <4>2. Mv(k, i) = NULL BY <1>1, <1>2, <3>1 DEF NodeOK, Places
      <4>3. children[k][i].edgeVisits = 0 BY <4>2 DEF Counted, EmptyIsUnvisited
      <4> QED BY <1>4, <1>5, <3>1, <4>1, <4>2, <4>3 DEF Places
    <3>2. CASE k # 1
      <4>1. children'[k] = children[k] /\ children[k][i].edgeVisits \in Nat
        BY <1>1, <1>4, <3>2, PlacesAreTyped
      <4> QED BY <4>1
    <3> QED BY <3>1, <3>2
  <2>2. ASSUME NEW k \in 1..3, Len(children[k]) > 0 PROVE Len(children'[k]) = Len(children[k])
    BY <1>3, <1>4, <2>2
  <2> QED BY <2>1, <2>2 DEF EdgesGrow
<1>7. EmptyIsUnvisited'
  <2>1. ASSUME NEW k \in 1..3, NEW i \in 1..Len(children'[k]), children'[k][i].move = NULL
        PROVE  children'[k][i].edgeVisits = 0
    <3>1. CASE k = 1 BY <1>4, <1>5, <2>1, <3>1
    <3>2. CASE k # 1
      BY <1>4, <2>1, <3>2 DEF Counted, EmptyIsUnvisited, Mv, Places
    <3> QED BY <3>1, <3>2
  <2> QED BY <2>1 DEF EmptyIsUnvisited, Mv, Places
<1>8. EdgeOK(t)' BY <1>1 DEF EdgeOK, EdgeSteps
<1>9. Covered' BY <1>1, <1>2 DEF Covered
<1> QED BY <1>1, <1>6, <1>7, <1>8, <1>9, CountedStep

(* The node is expanded with no child, and has a visit of its own. *)
LEMMA CountedExpanded ==
    ASSUME IInv, TypeOK', Counted, NEW t \in Threads, Expand0(t), Only(t)
    PROVE  Counted'
<1>1. /\ TypeOK /\ Tree /\ DirtyOK /\ NodeOK /\ pc[t] = "expand0" /\ pc'[t] = "idle"
      /\ state' = 2 /\ UNCHANGED <<children, visits, childWeights, uncounted>>
      /\ UNCHANGED <<dirtyCounter, numVisitsCompleted>>
  BY DEF IInv, Tree, Expand0, Return, GoTo, TypeOK, STATE_EXPANDED0, stats
<1>2. state = 1 /\ visits >= 1 BY <1>1 DEF Tree, ThreadOK, EvalOK, EvalSteps
<1>3. Now = 1 /\ Now' = 1 BY <1>1, <1>2, ArraysOfStates DEF Now
<1>4. EdgesGrow
  <2>1. ASSUME NEW k \in 1..3, NEW i \in Places(k)
        PROVE  children[k][i].edgeVisits >= children[k][i].edgeVisits
    BY <1>1, PlacesAreTyped
  <2> QED BY <1>1, <2>1 DEF EdgesGrow
<1>5. EmptyIsUnvisited' BY <1>1 DEF Counted, EmptyIsUnvisited, Mv, Places
<1>6. EdgeOK(t)' BY <1>1 DEF EdgeOK, EdgeSteps
<1>7. ASSUME NEW i \in Places(1) PROVE Edges(1)[i] = 0 /\ Excess(1)[i] = 0
  <2>1. Mv(1, i) = NULL BY <1>1, <1>2 DEF NodeOK, Places
  <2>2. children[1][i].edgeVisits = 0 BY <2>1 DEF Counted, EmptyIsUnvisited
  <2>3. /\ Edges(1)[i] = children[1][i].edgeVisits /\ Weight(i) \in Nat
        /\ Excess(1)[i] = IF children[1][i].edgeVisits > Weight(i)
                          THEN children[1][i].edgeVisits - Weight(i) ELSE 0
    BY <1>1, PlacesAreTyped
  <2> QED BY <2>2, <2>3
<1>8. EdgeSum = 0 /\ MissSum = 0
  <2>1. IsFiniteSet(Places(1)) BY <1>1, PlacesAreTyped
  <2> QED BY <1>3, <1>7, <2>1, SumOfZeros DEF EdgeSum, MissSum
<1>9. EdgeSum' = 0 /\ MissSum' = 0
  <2>1. Now' = Now /\ WeightsGrow BY <1>1, <1>3, <1>4, WeightsStay
  <2>2. /\ Len(children'[Now]) = Len(children[Now])
        /\ \A i \in Places(Now) : children'[Now][i].edgeVisits = children[Now][i].edgeVisits
    BY <1>1
  <2> QED BY <1>1, <1>8, <2>1, <2>2, SumsStay
<1>10. Covered'
  <2>1. /\ Pending' = Pending /\ Pending \in Nat /\ Taken' = Taken /\ Taken \in Nat
        /\ Taken <= Pending
    BY <1>1, PendingSame, PendingIsThere, TakenSame
  <2>2. visits \in Nat /\ uncounted \in Nat BY <1>1 DEF TypeOK
  <2>3. visits + uncounted + Pending >= 1 /\ uncounted + Pending >= Taken BY <1>2, <2>1, <2>2
  <2>4. visits' + uncounted' + Pending' >= 1 /\ uncounted' + Pending' >= Taken
    BY <1>1, <2>1, <2>3
  <2>5. 0 + 1 <= visits' + uncounted' + Pending' /\ 0 + Taken' <= uncounted' + Pending'
    BY <1>1, <2>1, <2>2, <2>4
  <2> QED BY <1>9, <2>5, Zenon DEF Covered
<1> QED BY <1>1, <1>4, <1>5, <1>6, <1>10, CountedStep

(* The steps that evaluate the node, or begin a playout, keep count. *)
LEMMA CountedEvaluate ==
    ASSUME IInv, TypeOK', Counted, NEW t \in Threads, playoutDescend(t) \/ Evaluate(t), Only(t)
    PROVE  Counted'
<1>1. TypeOK /\ Tree /\ DirtyOK /\ visits \in Nat /\ visits' \in Nat BY DEF IInv, TypeOK
<1>2. CASE playoutDescend(t) \/ storeNNOutputIfNull(t) \/ addLeafValue(t) \/ ClaimEvaluation(t)
  <2>1. /\ UNCHANGED <<children, childWeights, uncounted, dirtyCounter, numVisitsCompleted>>
        /\ visits' \in {visits, visits + 1}
        /\ state' = state \/ (state = 0 /\ state' = 1)
    BY <1>2 DEF playoutDescend, storeNNOutputIfNull, addLeafValue, ClaimEvaluation, Select,
                Return, node, stats, STATE_UNEVALUATED, STATE_EVALUATING
  <2>2. /\ pc[t] \in {"idle", "initNodeNNOutput", "addLeafValue", "claim"}
        /\ pc'[t] \in {"idle", "select", "initNodeNNOutput", "addLeafValue", "claim",
                       "initializeChildren"}
    <3>1. pc \in [Threads -> Steps] BY <1>1 DEF TypeOK
    <3>2. \E step \in {"idle", "select", "initNodeNNOutput", "addLeafValue", "claim",
                       "initializeChildren"} : GoTo(t, step)
      BY <1>2 DEF playoutDescend, storeNNOutputIfNull, addLeafValue, ClaimEvaluation, Select,
                  Return
    <3>3. pc[t] \in {"idle", "initNodeNNOutput", "addLeafValue", "claim"}
      BY <1>2 DEF playoutDescend, storeNNOutputIfNull, addLeafValue, ClaimEvaluation
    <3> QED BY <3>1, <3>2, <3>3 DEF GoTo
  <2>3. EdgeOK(t)' BY <2>2 DEF EdgeOK, EdgeSteps
  <2>4. Now' = Now BY <2>1, ArraysOfStates DEF Now
  <2>5. visits' >= visits /\ (state' >= 2 => state >= 2) BY <1>1, <2>1
  <2>6. pc[t] \notin {"update", "read", "undo"} /\ pc'[t] \notin {"update", "read", "undo"} BY <2>2
  <2> QED BY <1>1, <2>1, <2>3, <2>4, <2>5, <2>6, CountedSame
<1>3. CASE initializeChildren(t) BY <1>3, CountedFirst
<1>4. CASE Expand0(t) BY <1>4, CountedExpanded
<1> QED BY <1>2, <1>3, <1>4 DEF Evaluate

(* The steps that choose a child. *)
LEMMA CountedSelectChild ==
    ASSUME IInv, TypeOK', Counted, NEW t \in Threads, SelectChild(t), Only(t)
    PROVE  Counted'
<1>1. TypeOK /\ Tree /\ DirtyOK /\ visits \in Nat /\ visits' \in Nat BY DEF IInv, TypeOK
<1>2. ASSUME UNCHANGED <<state, children, childWeights, uncounted, dirtyCounter>>,
             UNCHANGED numVisitsCompleted, visits' \in {visits, visits + 1}, EdgeOK(t)',
             pc[t] \notin {"update", "read", "undo"}, pc'[t] \notin {"update", "read", "undo"}
      PROVE  Counted'
  <2>1. Now' = Now /\ visits' >= visits /\ (state' >= 2 => state >= 2) BY <1>1, <1>2 DEF Now
  <2> QED BY <1>1, <1>2, <2>1, CountedSame
<1>3. CASE SeeChild(t) \/ SelectNothing(t) \/ ReInit(t)
  <2>1. /\ UNCHANGED <<state, children, childWeights, uncounted, dirtyCounter>>
        /\ UNCHANGED numVisitsCompleted /\ visits' \in {visits, visits + 1}
    BY <1>3 DEF SeeChild, SelectNothing, ReInit, Return, node, stats
  <2>2. /\ pc[t] \in {"select", "reInit"} /\ pc'[t] \in {"select", "idle"}
    BY <1>1, <1>3 DEF SeeChild, SelectNothing, ReInit, Return, Select, GoTo, TypeOK
  <2>3. EdgeOK(t)' BY <2>2 DEF EdgeOK, EdgeSteps
  <2> QED BY <1>2, <2>1, <2>2, <2>3
<1>4. CASE selectBestChildToDescend(t)
  <2>1. /\ UNCHANGED <<state, children, childWeights, uncounted, dirtyCounter>>
        /\ UNCHANGED numVisitsCompleted /\ visits' \in {visits, visits + 1} /\ pc[t] = "select"
    <3>1. UNCHANGED <<node, stats, uncounted>> /\ pc[t] = "select"
      BY <1>4 DEF selectBestChildToDescend
    <3>2. UNCHANGED numVisitsCompleted BY <1>4 DEF selectBestChildToDescend, Return
    <3>3. /\ UNCHANGED <<state, children, childWeights, uncounted, dirtyCounter>>
          /\ UNCHANGED visits
      BY <3>1 DEF node, stats
    <3> QED BY <3>1, <3>2, <3>3
  <2>5. PICK b \in Candidates(t) : \E step \in StepsAfter(t, b) :
             IF step = "idle" THEN Return(t)
             ELSE /\ GoTo(t, step) /\ best' = [best EXCEPT ![t] = b]
                  /\ UNCHANGED nodeState
    BY <1>4 DEF selectBestChildToDescend
  <2>2. PICK step \in StepsAfter(t, b) :
             IF step = "idle" THEN Return(t)
             ELSE /\ GoTo(t, step) /\ best' = [best EXCEPT ![t] = b]
                  /\ UNCHANGED nodeState
    BY <2>5
  <2>3. /\ pc'[t] = step /\ pc'[t] \in {"idle", "grow", "reuse", "reInit", "visitAgain"}
        /\ step # "idle" => best'[t] = b /\ Arr(t)' = Arr(t)
    BY <1>1, <1>4, <2>2, StepChosen DEF Return, GoTo, TypeOK, Arr
  <2>4. EdgeOK(t)'
    <3>1. ASSUME pc'[t] \in EdgeSteps PROVE children'[Arr(t)'][best'[t].idx].move # NULL
      <4>1. step \in {"reuse", "visitAgain"} BY <2>3, <3>1 DEF EdgeSteps
      <4>2. ~IsNew(t, b) BY <4>1 DEF StepsAfter
      <4>3. b.idx \in 1..(Cap(t) + 1) BY <1>1, <2>1, <2>2, ChoiceIsSound
      <4>4. \E i \in 1..Len(seen[t]) : b.idx = i
        <5>1. b.idx <= Len(seen[t]) BY <4>2, <4>3, <1>1, ThreadTypes, LenProperties, <2>2
                                      DEF IsNew, Candidates
        <5> QED BY <4>2, <2>2, <1>1, ThreadTypes, LenProperties DEF IsNew, Candidates
      <4>5. PICK i \in 1..Len(seen[t]) : b.idx = i BY <4>4
      <4>6. Mv(Arr(t), i) = seen[t][i] /\ seen[t] \in Seq(Moves)
        BY <1>1, <2>1, ThreadTypes DEF Tree, ThreadOK, ViewOK
      <4>7. seen[t][i] \in Moves BY <4>6, ElementOfSeq
      <4> QED BY <2>1, <2>3, <4>1, <4>5, <4>6, <4>7, NodeAssumption DEF Mv
    <3> QED BY <2>3, <3>1 DEF EdgeOK, Mv
  <2> QED BY <1>2, <2>1, <2>3, <2>4
<1>5. CASE VisitAgain(t)
  <2>1. /\ pc[t] = "visitAgain" /\ pc'[t] = "idle" /\ AddEdgeVisits(t)
        /\ UNCHANGED <<state, childWeights, visits, dirtyCounter, numVisitsCompleted>>
        /\ uncounted' = uncounted + 1
    BY <1>1, <1>5 DEF VisitAgain, Return, GoTo, TypeOK, stats
  <2>2. Pending' = Pending BY <1>1, <2>1, PendingSame
  <2>3. Pending \in Nat /\ uncounted \in Nat BY <1>1, PendingIsThere DEF TypeOK
  <2>4. Pending' \in Int /\ uncounted' + Pending' >= uncounted + Pending + 1
    <3> QED BY <2>1, <2>2, <2>3
  <2>5. pc[t] \in EdgeSteps /\ pc'[t] \notin EdgeSteps \cup {"copy", "read"}
    BY <2>1 DEF EdgeSteps
  <2> QED BY <1>1, <2>1, <2>4, <2>5, CountedWithEdge
<1> QED BY <1>3, <1>4, <1>5 DEF SelectChild

(* The new array begins with the slots that were copied, and is empty beyond them. *)
LEMMA SlotsPublished ==
    ASSUME TypeOK, Tree, NEW t \in Threads, PublishChildren(t)
    PROVE  /\ Len(copied[t]) = Sizes[Arr(t)] /\ copied[t] \in Seq(Slots)
           /\ \A i \in 1..Sizes[Arr(t)] : children'[Arr(t) + 1][i] = copied[t][i]
           /\ \A i \in (Sizes[Arr(t)] + 1)..Sizes[Arr(t) + 1] :
                  children'[Arr(t) + 1][i] = EmptySlot
<1>1. PICK k \in 1..2 : k = Arr(t) BY ArrayPublished
<1> DEFINE fresh == NewArray(Sizes[k + 1] - Sizes[k])
<1>2. /\ Len(copied[t]) = Sizes[k] /\ copied[t] \in Seq(Slots)
      /\ children \in [1..3 -> Seq(Slots)] /\ children'[k + 1] = copied[t] \o fresh
  BY <1>1 DEF PublishChildren, Arr, TypeOK
<1>3. Sizes[k] \in Nat /\ Sizes[k + 1] \in Nat /\ Sizes[k] < Sizes[k + 1]
  BY SizesAreSizes
<1>4. Sizes[k + 1] - Sizes[k] \in Nat BY <1>3
<1>5. /\ fresh \in Seq(Slots) /\ Len(fresh) = Sizes[k + 1] - Sizes[k]
      /\ \A i \in 1..(Sizes[k + 1] - Sizes[k]) : fresh[i] = EmptySlot
  <2>1. fresh \in Seq(Slots) /\ Len(fresh) = Sizes[k + 1] - Sizes[k] BY <1>4, TypeOfSlots
  <2> QED BY <1>4, <2>1 DEF NewArray
<1> HIDE DEF fresh
<1>6. \A i \in 1..(Len(copied[t]) + Len(fresh)) : (copied[t] \o fresh)[i] =
          IF i <= Len(copied[t]) THEN copied[t][i] ELSE fresh[i - Len(copied[t])]
  BY <1>2, <1>5, ConcatProperties
<1>7. ASSUME NEW i \in 1..Sizes[k] PROVE children'[k + 1][i] = copied[t][i]
  <2>1. i \in 1..(Len(copied[t]) + Len(fresh)) /\ i <= Len(copied[t]) BY <1>2, <1>3, <1>5
  <2> QED BY <1>2, <1>6, <2>1
<1>8. ASSUME NEW i \in (Sizes[k] + 1)..Sizes[k + 1] PROVE children'[k + 1][i] = EmptySlot
  <2>1. /\ i \in 1..(Len(copied[t]) + Len(fresh)) /\ ~(i <= Len(copied[t]))
        /\ i - Len(copied[t]) \in 1..(Sizes[k + 1] - Sizes[k])
    BY <1>2, <1>3, <1>5
  <2>2. (copied[t] \o fresh)[i] = fresh[i - Len(copied[t])] BY <1>6, <2>1
  <2> QED BY <1>2, <1>5, <2>1, <2>2
<1> QED BY <1>1, <1>2, <1>7, <1>8

(* The sums over the new array are no larger than those over the old one: *)
(* visits that were added to slots copied already are lost.               *)
LEMMA SumsPublished ==
    ASSUME TypeOK, TypeOK', Tree, Counted, NEW t \in Threads, PublishChildren(t), WeightsGrow
    PROVE  /\ EdgeSum' <= EdgeSum /\ MissSum' <= MissSum
           /\ EdgeSum' \in Nat /\ MissSum' \in Nat
<1>1. PICK k \in 1..2 : k = Arr(t) BY ArrayPublished
<1>2. /\ state = nodeState[t] /\ state \in {3, 5} /\ state' = state + 1
      /\ k = (IF state = 3 THEN 1 ELSE 2) /\ k \in 1..3 /\ k + 1 \in 1..3
      /\ Len(children[k]) = Sizes[k] /\ Len(children'[k + 1]) = Sizes[k + 1]
      /\ childWeights' = childWeights /\ pc[t] = "copy"
  <2>1. childWeights' = childWeights /\ pc[t] = "copy" BY DEF PublishChildren, stats
  <2>2. /\ state = nodeState[t] /\ state \in {3, 5} /\ state' = state + 1
        /\ k = (IF state = 3 THEN 1 ELSE 2)
        /\ Len(children[k]) = Sizes[k] /\ Len(children'[k + 1]) = Sizes[k + 1]
    BY <1>1, ArrayPublished
  <2> QED BY <2>1, <2>2
<1>3. Now = k /\ Now' = k + 1 BY <1>2, ArraysOfStates DEF Now
<1>4. /\ Sizes[k] \in Nat /\ Sizes[k + 1] \in Nat /\ Sizes[k] < Sizes[k + 1]
  BY SizesAreSizes
<1>5. /\ Len(copied[t]) = Sizes[k] /\ copied[t] \in Seq(Slots)
      /\ \A i \in 1..Sizes[k] : children'[k + 1][i] = copied[t][i]
      /\ \A i \in (Sizes[k] + 1)..Sizes[k + 1] : children'[k + 1][i] = EmptySlot
  BY <1>1, SlotsPublished
<1> DEFINE R == 1..Sizes[k]
           S == 1..Sizes[k + 1]
           f == Edges(k)
           g == Excess(k)
           e == [i \in S |-> children'[k + 1][i].edgeVisits]
           h == [i \in S |-> IF children'[k + 1][i].edgeVisits > Weight(i)'
                             THEN children'[k + 1][i].edgeVisits - Weight(i)' ELSE 0]
<1>6. EdgeSum = SumOver(f, R) /\ MissSum = SumOver(g, R)
  BY <1>2, <1>3 DEF EdgeSum, MissSum, Places
<1>7. EdgeSum' = SumOver(e, S) /\ MissSum' = SumOver(h, S)
  <2>1. Places(Now)' = S BY <1>2, <1>3 DEF Places
  <2>2. Edges(Now)' = e BY <1>3, <2>1 DEF Edges
  <2>3. Excess(Now)' = h BY <1>2, <1>3, <2>1 DEF Excess
  <2> HIDE DEF S, e, h
  <2> QED BY <2>1, <2>2, <2>3, Zenon DEF EdgeSum, MissSum
<1>8. IsFiniteSet(S) /\ IsFiniteSet(R) /\ R \subseteq S BY <1>4, IntervalSize
<1>9. ASSUME NEW i \in S
      PROVE  /\ e[i] \in Nat /\ h[i] \in Nat
             /\ i \in R => /\ f[i] \in Nat /\ g[i] \in Nat
                           /\ e[i] <= f[i] /\ h[i] <= g[i]
             /\ i \notin R => e[i] = 0 /\ h[i] = 0
  <2>1. /\ e[i] = children'[k + 1][i].edgeVisits
        /\ h[i] = IF e[i] > Weight(i)' THEN e[i] - Weight(i)' ELSE 0
    OBVIOUS
  <2>2. Weight(i) \in Nat /\ Weight(i)' \in Nat /\ Weight(i)' >= Weight(i)
    <3>1. i \in Nat \ {0} BY <1>4
    <3> QED BY <3>1, WeightsAreNat, WeightsStayNat DEF WeightsGrow
  <2>3. CASE i \in R
    <3>1. i \in Places(k) BY <1>2, <2>3 DEF Places
    <3>2. /\ f[i] = children[k][i].edgeVisits /\ f[i] \in Nat
          /\ g[i] = IF children[k][i].edgeVisits > Weight(i)
                    THEN children[k][i].edgeVisits - Weight(i) ELSE 0
      BY <1>2, <3>1, PlacesAreTyped
    <3>3. e[i] = copied[t][i].edgeVisits /\ copied[t][i] \in Slots
      <4>1. i \in 1..Len(copied[t]) BY <1>5, <2>3
      <4> QED BY <1>5, <2>1, <2>3, <4>1, ElementOfSeq
    <3>4. e[i] \in Nat BY <3>3 DEF Slots
    <3>5. e[i] <= f[i]
      <4>1. EdgeOK(t) /\ i \in 1..Len(copied[t]) BY <1>5, <2>3 DEF Counted
      <4>2. copied[t][i].edgeVisits <= children[k][i].edgeVisits
        BY <1>1, <1>2, <4>1 DEF EdgeOK
      <4> QED BY <3>2, <3>3, <4>2
    <3> HIDE DEF e, f, g, h
    <3>6. g[i] = (IF f[i] > Weight(i) THEN f[i] - Weight(i) ELSE 0) BY <3>2
    <3>7. h[i] \in Nat /\ g[i] \in Nat /\ h[i] <= g[i]
      <4>1. PICK a \in Nat, b \in Nat, w \in Nat, x \in Nat :
                    a = e[i] /\ b = f[i] /\ w = Weight(i) /\ x = Weight(i)'
        BY <2>2, <3>2, <3>4
      <4>2. /\ h[i] = (IF a > x THEN a - x ELSE 0) /\ g[i] = (IF b > w THEN b - w ELSE 0)
            /\ a <= b /\ w <= x
        BY <2>1, <2>2, <3>5, <3>6, <4>1
      <4> QED BY <4>2
    <3> QED BY <2>3, <3>2, <3>4, <3>5, <3>7
  <2>4. CASE i \notin R
    <3>1. i \in (Sizes[k] + 1)..Sizes[k + 1] BY <1>4, <2>4
    <3>2. e[i] = 0 BY <1>5, <2>1, <3>1 DEF EmptySlot
    <3> QED BY <2>1, <2>2, <2>4, <3>2
  <2> QED BY <2>3, <2>4
<1> HIDE DEF R, S, e, f, g, h
<1>10. /\ SumOver(e, R) = SumOver(e, S) /\ SumOver(h, R) = SumOver(h, S)
       /\ SumOver(e, S) \in Nat /\ SumOver(h, S) \in Nat
  BY <1>8, <1>9, SumOfPart, SumStep
<1>11. \A i \in R : f[i] \in Nat /\ e[i] \in Nat /\ e[i] <= f[i] BY <1>8, <1>9
<1>12. \A i \in R : g[i] \in Nat /\ h[i] \in Nat /\ h[i] <= g[i] BY <1>8, <1>9
<1>13. SumOver(e, R) <= SumOver(f, R) BY <1>8, <1>11, SumOfLess
<1>14. SumOver(h, R) <= SumOver(g, R) BY <1>8, <1>12, SumOfLess
<1> QED BY <1>6, <1>7, <1>10, <1>13, <1>14

(* ... so a new array keeps count. *)
LEMMA CountedPublished ==
    ASSUME IInv, TypeOK', Counted, NEW t \in Threads, PublishChildren(t), Only(t)
    PROVE  Counted'
<1>1. TypeOK /\ Tree /\ DirtyOK BY DEF IInv
<1>2. PICK k \in 1..2 : k = Arr(t) BY <1>1, ArrayPublished
<1>3. /\ k + 1 \in 1..3 /\ state \in {3, 5}
      /\ \A j \in 1..3 : j # k + 1 => children'[j] = children[j]
      /\ Len(children'[k + 1]) = Sizes[k + 1] /\ Len(children[k + 1]) = 0
      /\ \A i \in 1..Sizes[k] : children'[k + 1][i].move # NULL
  BY <1>1, <1>2, ArrayPublished
<1>4. \A i \in (Sizes[k] + 1)..Sizes[k + 1] : children'[k + 1][i].edgeVisits = 0
  BY <1>1, <1>2, SlotsPublished DEF EmptySlot
<1>5. /\ UNCHANGED <<visits, childWeights, uncounted, dirtyCounter, numVisitsCompleted>>
      /\ pc[t] = "copy" /\ pc'[t] = "grow"
  BY <1>1 DEF PublishChildren, GoTo, TypeOK, stats
<1>6. EdgesGrow
  <2>1. ASSUME NEW j \in 1..3, Len(children[j]) > 0
        PROVE  children'[j] = children[j] /\ \A i \in Places(j) : children[j][i].edgeVisits \in Nat
    BY <1>1, <1>3, <2>1, PlacesAreTyped
  <2>2. ASSUME NEW j \in 1..3, Len(children[j]) > 0, NEW i \in Places(j)
        PROVE  children'[j][i].edgeVisits >= children[j][i].edgeVisits
    BY <2>1, <2>2
  <2> QED BY <2>1, <2>2 DEF EdgesGrow, Mv
<1>7. EmptyIsUnvisited'
  <2>1. ASSUME NEW j \in 1..3, NEW i \in 1..Len(children'[j]), children'[j][i].move = NULL
        PROVE  children'[j][i].edgeVisits = 0
    <3>1. CASE j = k + 1
      <4>1. Sizes[k] \in Nat /\ Sizes[k + 1] \in Nat BY SizesAreSizes
      <4>2. i \in 1..Sizes[k] \/ i \in (Sizes[k] + 1)..Sizes[k + 1] BY <1>3, <3>1, <4>1
      <4> QED BY <1>3, <1>4, <2>1, <3>1, <4>2
    <3>2. CASE j # k + 1 BY <1>3, <2>1, <3>2 DEF Counted, EmptyIsUnvisited, Mv, Places
    <3> QED BY <3>1, <3>2
  <2> QED BY <2>1 DEF EmptyIsUnvisited, Mv, Places
<1>8. EdgeOK(t)' BY <1>5 DEF EdgeOK, EdgeSteps
<1>9. Covered'
  <2>1. Pending' = Pending /\ Pending \in Nat BY <1>1, <1>5, PendingSame, PendingIsThere
  <2>2. /\ EdgeSum' <= EdgeSum /\ MissSum' <= MissSum /\ EdgeSum' \in Nat /\ MissSum' \in Nat
        /\ EdgeSum \in Nat /\ MissSum \in Nat /\ visits \in Nat /\ uncounted \in Nat
    BY <1>1, <1>5, <1>6, WeightsStay, SumsPublished, SumsAreNat DEF TypeOK
  <2>3. EdgeSum' <= EdgeSum + 0 /\ MissSum' <= MissSum + 0 BY <2>2
  <2>4. visits' >= visits /\ (state' >= 2 => state >= 2) BY <1>3, <1>5, <2>2
  <2>5. Pending' \in Int /\ uncounted' + Pending' >= uncounted + Pending + 0
    <3>1. uncounted' + Pending' = uncounted + Pending BY <1>5, <2>1
    <3> QED BY <2>1, <2>2, <3>1
  <2>6. Covered /\ 0 \in Nat /\ Taken' = Taken BY <1>5, TakenSame DEF Counted
  <2> QED BY <1>1, <2>2, <2>3, <2>4, <2>5, <2>6, CoveredStill
<1> QED BY <1>1, <1>6, <1>7, <1>8, <1>9, CountedStep

(* A child that is in an array is in the later ones. *)
LEMMA MoveCopied ==
    ASSUME TypeOK, Tree, NEW a \in 1..3, a <= Now, state >= 2,
           NEW i \in 1..Sizes[a], Mv(a, i) # NULL
    PROVE  Mv(Now, i) # NULL
<1>1. Now \in 1..3 /\ state \in 0..6 /\ NodeOK /\ ListOK BY NowIsArray DEF Tree
<1>2. \A k \in 1..3 : k <= Now => Len(children[k]) = Sizes[k] /\ Sizes[k] \in Nat \ {0}
  <2>1. (2 <= Now => state >= 4) /\ (3 <= Now => state = 6)
    BY <1>1, ArraysOfStates DEF Now
  <2> QED BY <1>1, <2>1, SizesAreSizes DEF NodeOK
<1>3. ASSUME NEW k \in 1..2, k + 1 <= Now, NEW j \in 1..Sizes[k]
      PROVE  Mv(k + 1, j) = Mv(k, j) /\ j \in 1..Sizes[k + 1]
  <2>1. Len(children[k + 1]) > 0 BY <1>1, <1>2, <1>3
  <2>2. Sizes[k] < Sizes[k + 1] /\ Sizes[k] \in Nat /\ Sizes[k + 1] \in Nat BY SizesAreSizes
  <2>3. Prefix(k) BY <1>1 DEF ListOK
  <2> QED BY <2>1, <2>2, <2>3 DEF Prefix
<1>4. CASE a = Now BY <1>4
<1>5. CASE a + 1 = Now BY <1>1, <1>3, <1>5
<1>6. CASE a = 1 /\ Now = 3
  <2>1. Mv(2, i) = Mv(1, i) /\ i \in 1..Sizes[2] BY <1>3, <1>6
  <2>2. Mv(3, i) = Mv(2, i) BY <1>3, <1>6, <2>1
  <2> QED BY <1>6, <2>1, <2>2
<1> QED BY <1>1, <1>4, <1>5, <1>6

(* The steps that add a child. *)
LEMMA CountedAddChild ==
    ASSUME IInv, TypeOK', Counted, NEW t \in Threads, AddChild(t), Only(t)
    PROVE  Counted'
<1>1. TypeOK /\ Tree /\ DirtyOK /\ ThreadOK(t) /\ visits \in Nat /\ state \in 0..6
  BY DEF IInv, Tree, TypeOK, STATE_UNEVALUATED, STATE_EXPANDED2
<1>2. CASE maybeExpandChildrenCapacity(t)
  <2>1. /\ UNCHANGED <<children, childWeights, uncounted, dirtyCounter, numVisitsCompleted>>
        /\ UNCHANGED <<visits, copied>> /\ pc[t] = "grow" /\ pc'[t] \in {"copy", "select"}
        /\ state' = state \/ (state \in {2, 4} /\ state' = state + 1)
    BY <1>1, <1>2 DEF maybeExpandChildrenCapacity, Select, GoTo, TypeOK, stats,
                      STATE_EXPANDED0, STATE_EXPANDED1
  <2>2. copied[t] = <<>> BY <1>1, <2>1 DEF ThreadOK, CopyOK
  <2>3. EdgeOK(t)' BY <2>1, <2>2 DEF EdgeOK, EdgeSteps
  <2>4. Now' = Now BY <1>1, <2>1, ArraysOfStates DEF Now
  <2>5. visits' >= visits /\ (state' >= 2 => state >= 2) BY <1>1, <2>1
  <2>6. pc[t] \notin {"update", "read", "undo"} /\ pc'[t] \notin {"update", "read", "undo"} BY <2>1
  <2> QED BY <1>1, <2>1, <2>3, <2>4, <2>5, <2>6, CountedSame
<1>3. CASE CopySlot(t)
  <2>1. /\ UNCHANGED <<children, childWeights, uncounted, dirtyCounter, numVisitsCompleted>>
        /\ UNCHANGED <<visits, state, nodeState, pc>> /\ pc[t] = "copy"
        /\ copied' = [copied EXCEPT ![t] = Append(@, children[Arr(t)][Len(@) + 1])]
        /\ Len(copied[t]) < Len(children[Arr(t)])
    BY <1>3 DEF CopySlot, stats, node, choice, Arr
  <2>2. copied[t] \in Seq(Slots) /\ Len(copied[t]) \in Nat
    BY <1>1, ThreadTypes, LenProperties
  <2>3. copied'[t] = Append(copied[t], children[Arr(t)][Len(copied[t]) + 1])
    BY <1>1, <2>1 DEF TypeOK
  <2>4. /\ Len(copied'[t]) = Len(copied[t]) + 1
        /\ copied'[t][Len(copied[t]) + 1] = children[Arr(t)][Len(copied[t]) + 1]
        /\ \A i \in 1..Len(copied[t]) : copied'[t][i] = copied[t][i]
    BY <2>2, <2>3
  <2>5. EdgeOK(t)'
    <3>1. ASSUME NEW i \in 1..Len(copied'[t])
          PROVE  copied'[t][i].edgeVisits <= children[Arr(t)][i].edgeVisits
      <4>1. i \in 1..Len(copied[t]) \/ i = Len(copied[t]) + 1 BY <2>2, <2>4
      <4>2. CASE i \in 1..Len(copied[t]) BY <2>1, <2>4, <4>2 DEF Counted, EdgeOK
      <4>3. CASE i = Len(copied[t]) + 1
        <5>1. nodeState[t] \in 2..6 BY <1>1, <2>1, ThreadTypes DEF ThreadOK, ViewOK, EvalSteps
        <5>2. Arr(t) \in 1..3 BY <5>1, ArraysOfStates DEF Arr
        <5>3. Len(children[Arr(t)]) \in Nat BY <1>1, <5>2, PlacesAreTyped
        <5>4. i \in Places(Arr(t)) BY <2>1, <2>2, <4>3, <5>3 DEF Places
        <5>5. children[Arr(t)][i].edgeVisits \in Nat BY <1>1, <5>2, <5>4, PlacesAreTyped
        <5> QED BY <2>4, <4>3, <5>5
      <4> QED BY <4>1, <4>2, <4>3
    <3>2. pc'[t] = "copy" /\ Arr(t)' = Arr(t) /\ children' = children BY <2>1 DEF Arr
    <3> QED BY <3>1, <3>2 DEF EdgeOK, EdgeSteps
  <2>6. /\ Now' = Now /\ visits' >= visits /\ (state' >= 2 => state >= 2)
        /\ pc[t] \notin {"update", "read", "undo"} /\ pc'[t] \notin {"update", "read", "undo"}
    BY <1>1, <2>1 DEF Now
  <2> QED BY <1>1, <2>1, <2>5, <2>6, CountedSame
<1>4. CASE PublishChildren(t) BY <1>4, CountedPublished
<1>5. CASE allocateOrFindNode(t)
  <2>1. /\ UNCHANGED <<children, childWeights, uncounted, dirtyCounter, numVisitsCompleted>>
        /\ UNCHANGED <<visits, state>> /\ pc[t] = "grow" /\ pc'[t] = "store"
    BY <1>1, <1>5 DEF allocateOrFindNode, stats, node, GoTo, TypeOK
  <2>2. EdgeOK(t)' BY <2>1 DEF EdgeOK, EdgeSteps
  <2>3. /\ Now' = Now /\ visits' >= visits /\ (state' >= 2 => state >= 2)
        /\ pc[t] \notin {"update", "read", "undo"} /\ pc'[t] \notin {"update", "read", "undo"}
    BY <1>1, <2>1 DEF Now
  <2> QED BY <1>1, <2>1, <2>2, <2>3, CountedSame
<1>6. CASE StoreChild(t)
  <2>1. /\ UNCHANGED <<childWeights, uncounted, dirtyCounter, numVisitsCompleted>>
        /\ UNCHANGED <<visits, state>> /\ pc[t] = "store"
    BY <1>6 DEF StoreChild, Return, stats
  <2>2. /\ Now' = Now /\ visits' >= visits /\ (state' >= 2 => state >= 2)
        /\ pc[t] \notin {"update", "read", "undo"}
    BY <1>1, <2>1 DEF Now
  <2>3. CASE Return(t) /\ UNCHANGED children
    <3>1. pc'[t] = "idle" BY <1>1, <2>3 DEF Return, GoTo, TypeOK
    <3>2. EdgeOK(t)' /\ pc'[t] \notin {"update", "read", "undo"} BY <3>1 DEF EdgeOK, EdgeSteps
    <3> QED BY <1>1, <2>1, <2>2, <2>3, <3>2, CountedSame
  <2>4. CASE /\ Mv(Arr(t), best[t].idx) = NULL /\ StoresMove(t)
             /\ GoTo(t, "descend") /\ UNCHANGED <<choice, copied>>
    <3>1. pc'[t] = "descend" /\ UNCHANGED <<nodeState, best>>
      BY <1>1, <2>4 DEF GoTo, choice, TypeOK
    <3>2. /\ \A j \in 1..3 : Len(children'[j]) = Len(children[j])
          /\ \A j \in 1..3 : \A l \in Places(j) :
                /\ children'[j][l].edgeVisits = children[j][l].edgeVisits
                /\ children'[j][l].move = IF j = Arr(t) /\ l = best[t].idx
                                          THEN best[t].move ELSE children[j][l].move
      BY <1>1, <2>1, <2>4, MoveStored DEF Places
    <3>3. /\ Arr(t) \in 1..3 /\ best[t].idx \in Places(Arr(t)) /\ best[t].move \in Moves
      <4>1. best[t].idx <= Cap(t) /\ pc[t] \in NewSteps
        BY <1>1, <2>1 DEF ThreadOK, ViewOK, NewSteps
      <4> QED BY <1>1, <4>1, ChosenSlot DEF Places
    <3>4. EdgesGrow
      <4>1. ASSUME NEW j \in 1..3, NEW l \in Places(j)
            PROVE  /\ children'[j][l].edgeVisits >= children[j][l].edgeVisits
                   /\ Mv(j, l) # NULL => children'[j][l].move = children[j][l].move
        <5>1. children[j][l].edgeVisits \in Nat BY <1>1, PlacesAreTyped
        <5>2. children'[j][l].edgeVisits >= children[j][l].edgeVisits BY <3>2, <5>1
        <5>3. Mv(j, l) # NULL => ~(j = Arr(t) /\ l = best[t].idx) BY <2>4
        <5> QED BY <3>2, <5>2, <5>3
      <4> QED BY <3>2, <4>1 DEF EdgesGrow
    <3>5. EmptyIsUnvisited'
      <4>1. ASSUME NEW j \in 1..3, NEW l \in Places(j), children'[j][l].move = NULL
            PROVE  children'[j][l].edgeVisits = 0
        <5>1. Mv(j, l) = NULL BY <2>4, <3>2, <4>1 DEF Mv
        <5> QED BY <3>2, <5>1 DEF Counted, EmptyIsUnvisited
      <4>2. \A j \in 1..3 : Places(j)' = Places(j) BY <3>2 DEF Places
      <4> QED BY <4>1, <4>2 DEF EmptyIsUnvisited, Mv
    <3>6. EdgeOK(t)'
      <4>1. children'[Arr(t)][best[t].idx].move # NULL BY <3>2, <3>3, NodeAssumption
      <4>2. Arr(t)' = Arr(t) /\ best' = best BY <3>1 DEF Arr
      <4>3. pc'[t] # "copy" BY <3>1
      <4> QED BY <4>1, <4>2, <4>3 DEF EdgeOK, Mv
    <3>7. Covered'
      <4>1. Pending' = Pending /\ Pending \in Nat /\ Taken' = Taken
        BY <1>1, <2>1, <3>1, PendingSame, PendingIsThere, TakenSame
      <4>2. /\ EdgeSum' = EdgeSum /\ MissSum' <= MissSum /\ EdgeSum' \in Nat
            /\ MissSum' \in Nat /\ EdgeSum \in Nat /\ MissSum \in Nat
        <5>1. WeightsGrow BY <1>1, <2>1, <3>1, <3>4, WeightsStay
        <5> QED BY <1>1, <2>1, <2>2, <3>2, <5>1, NowIsArray, SumsStay, SumsAreNat
      <4>3. UNCHANGED <<state, visits, uncounted>> /\ Covered /\ 0 \in Nat BY <2>1 DEF Counted
      <4>4. EdgeSum' <= EdgeSum + 0 /\ MissSum' <= MissSum + 0 BY <4>2
      <4>5. /\ Pending' \in Int /\ uncounted' + Pending' >= uncounted + Pending + 0
            /\ visits' >= visits
        <5>1. uncounted \in Nat /\ visits \in Nat BY <1>1 DEF TypeOK
        <5> QED BY <4>1, <4>3, <5>1
      <4> QED BY <1>1, <2>2, <4>1, <4>2, <4>3, <4>4, <4>5, CoveredStill
    <3> QED BY <1>1, <3>4, <3>5, <3>6, <3>7, CountedStep
  <2> QED BY <1>6, <2>3, <2>4 DEF StoreChild, StoresMove, Mv, Arr
<1> QED BY <1>2, <1>3, <1>4, <1>5, <1>6 DEF AddChild

(* The steps of a thread that goes down to a child and back. *)
LEMMA CountedVisitChild ==
    ASSUME IInv, TypeOK', Counted, NEW t \in Threads, VisitChild(t), Only(t)
    PROVE  Counted'
<1>1. TypeOK /\ Tree /\ DirtyOK /\ ThreadOK(t) /\ visits \in Nat /\ state \in 0..6
  BY DEF IInv, Tree, TypeOK, STATE_UNEVALUATED, STATE_EXPANDED2
<1>2. ASSUME UNCHANGED <<children, childWeights, uncounted, dirtyCounter, numVisitsCompleted>>,
             UNCHANGED <<visits, state>>, EdgeOK(t)',
             pc[t] \in {"reuse", "descend", "reload", "release"},
             pc'[t] \in {"descend", "reload", "count", "idle"}
      PROVE  Counted'
  <2>1. /\ Now' = Now /\ visits' >= visits /\ (state' >= 2 => state >= 2)
        /\ pc[t] \notin {"update", "read", "undo"} /\ pc'[t] \notin {"update", "read", "undo"}
    BY <1>1, <1>2 DEF Now
  <2> QED BY <1>1, <1>2, <2>1, CountedSame
<1>3. ASSUME UNCHANGED <<children, nodeState, best>>, pc[t] \in {"reuse", "descend"},
             pc'[t] \in {"descend", "reload"}
      PROVE  EdgeOK(t)'
  <2>1. Mv(Arr(t), best[t].idx) # NULL BY <1>3 DEF Counted, EdgeOK, EdgeSteps
  <2>2. Mv(Arr(t), best[t].idx)' # NULL /\ pc'[t] # "copy" BY <1>3, <2>1 DEF Mv, Arr
  <2> QED BY <2>2 DEF EdgeOK
<1>4. ASSUME pc'[t] = "idle" PROVE EdgeOK(t)' BY <1>4 DEF EdgeOK, EdgeSteps
<1>5. ASSUME pc[t] \in {"descend", "count"}, AddEdgeVisits(t), pc'[t] = "update",
             UNCHANGED <<state, childWeights, visits>>,
             UNCHANGED <<dirtyCounter, numVisitsCompleted, uncounted>>
      PROVE  Counted'
  <2>1. pc[t] \in EdgeSteps BY <1>5 DEF EdgeSteps
  <2> QED BY <1>1, <1>5, <2>1, CountedWithUpdate
<1>6. CASE ReuseChild(t)
  <2>1. /\ UNCHANGED <<children, childWeights, uncounted, dirtyCounter, numVisitsCompleted>>
        /\ UNCHANGED <<visits, state, nodeState, best>> /\ pc[t] = "reuse" /\ pc'[t] = "descend"
    BY <1>1, <1>6 DEF ReuseChild, stats, node, choice, GoTo, TypeOK
  <2>2. EdgeOK(t)' BY <1>3, <2>1
  <2> QED BY <1>2, <2>1, <2>2
<1>7. CASE maybeCatchUpEdgeVisits(t) \/ CountVisit(t)
  <2>1. /\ pc[t] \in {"descend", "count"} /\ AddEdgeVisits(t) /\ pc'[t] = "update"
        /\ UNCHANGED <<state, childWeights, visits>>
        /\ UNCHANGED <<dirtyCounter, numVisitsCompleted, uncounted>>
    BY <1>1, <1>7 DEF maybeCatchUpEdgeVisits, CountVisit, stats, GoTo, TypeOK
  <2> QED BY <1>5, <2>1
<1>8. CASE Descend(t)
  <2>1. /\ UNCHANGED <<childWeights, uncounted, dirtyCounter, numVisitsCompleted>>
        /\ UNCHANGED <<visits, state>> /\ pc[t] = "descend"
    BY <1>8 DEF Descend, Return, stats
  <2>2. CASE AddEdgeVisits(t) /\ GoTo(t, "update")
    <3>1. pc'[t] = "update" BY <1>1, <2>2 DEF GoTo, TypeOK
    <3> QED BY <1>5, <2>1, <2>2, <3>1
  <2>3. CASE GoTo(t, "reload") /\ UNCHANGED <<children, choice>>
    <3>1. pc'[t] = "reload" /\ UNCHANGED <<nodeState, best>>
      BY <1>1, <2>3 DEF GoTo, TypeOK, choice
    <3>2. EdgeOK(t)' BY <1>3, <2>1, <2>3, <3>1
    <3> QED BY <1>2, <2>1, <2>3, <3>1, <3>2
  <2>4. CASE Return(t) /\ UNCHANGED children
    <3>1. pc'[t] = "idle" BY <1>1, <2>4 DEF Return, GoTo, TypeOK
    <3> QED BY <1>2, <1>4, <2>1, <2>4, <3>1
  <2> QED BY <1>8, <2>2, <2>3, <2>4 DEF Descend
<1>9. CASE ReloadState(t)
  <2>1. /\ UNCHANGED <<children, childWeights, uncounted, dirtyCounter, numVisitsCompleted>>
        /\ UNCHANGED <<visits, state, best>> /\ pc[t] = "reload" /\ pc'[t] = "count"
        /\ nodeState'[t] = state
    BY <1>1, <1>9 DEF ReloadState, stats, node, GoTo, TypeOK
  <2>2. /\ nodeState[t] \in 2..6 /\ nodeState[t] <= state /\ best[t].idx \in 1..Cap(t)
    BY <1>1, <2>1, ThreadTypes DEF ThreadOK, ViewOK, EvalSteps, EdgeSteps
  <2>3. /\ Arr(t) \in 1..3 /\ Arr(t) <= Now /\ Cap(t) = Sizes[Arr(t)]
    <3>1. nodeState[t] \in 0..6 BY <2>2
    <3> QED BY <1>1, <2>2, <3>1, ArraysOfStates, LaterStates DEF Arr, Cap, Now
  <2>4. Mv(Arr(t), best[t].idx) # NULL BY <2>1 DEF Counted, EdgeOK, EdgeSteps
  <2>5. Mv(Now, best[t].idx) # NULL
    <3>1. state >= 2 BY <1>1, <2>2
    <3> QED BY <1>1, <2>2, <2>3, <2>4, <3>1, MoveCopied
  <2>6. Mv(Arr(t), best[t].idx)' # NULL /\ pc'[t] # "copy"
    BY <2>1, <2>5 DEF Mv, Arr, Now
  <2>7. EdgeOK(t)' BY <2>6 DEF EdgeOK
  <2> QED BY <1>2, <2>1, <2>7
<1>10. CASE ReleaseChild(t)
  <2>1. /\ UNCHANGED <<children, childWeights, uncounted, dirtyCounter, numVisitsCompleted>>
        /\ UNCHANGED <<visits, state>> /\ pc[t] = "release" /\ pc'[t] = "idle"
    BY <1>1, <1>10 DEF ReleaseChild, Return, stats, node, GoTo, TypeOK
  <2> QED BY <1>2, <1>4, <2>1
<1> QED BY <1>6, <1>7, <1>8, <1>9, <1>10 DEF VisitChild

(* Nothing is counted or pending in the beginning, and every step keeps count. *)
LEMMA InitCounted == Init => Counted
<1> SUFFICES ASSUME Init PROVE Counted OBVIOUS
<1>1. state = 0 /\ (\A k \in 1..3 : Len(children[k]) = 0) /\ (\A t \in Threads : pc[t] = "idle")
  BY DEF Init, STATE_UNEVALUATED
<1>2. EmptyIsUnvisited BY <1>1 DEF EmptyIsUnvisited, Places
<1>3. Covered BY <1>1 DEF Covered
<1>4. \A t \in Threads : EdgeOK(t) BY <1>1 DEF EdgeOK, EdgeSteps
<1> QED BY <1>2, <1>3, <1>4 DEF Counted

(* ... and every step keeps count. *)
LEMMA StepCounted == IInv /\ Counted /\ [Next]_vars => Counted'
<1> SUFFICES ASSUME IInv, Counted, [Next]_vars PROVE Counted' OBVIOUS
<1>1. ASSUME NEW t \in Threads, playoutDescend(t) \/ Playout(t) PROVE Counted'
  <2>1. TypeOK' /\ Only(t) BY <1>1, TypesStep, StepOfOne DEF IInv
  <2> QED BY <1>1, <2>1, CountedEvaluate, CountedSelectChild, CountedAddChild,
             CountedVisitChild, CountedUpdateStats DEF Playout
<1>2. CASE UNCHANGED vars \/ \E m \in Shared : VisitFromElsewhere(m)
  <2>1. /\ UNCHANGED <<state, children, visits, childWeights, dirtyCounter, uncounted>>
        /\ UNCHANGED <<pc, nodeState, best, copied, numVisitsCompleted>>
    BY <1>2 DEF VisitFromElsewhere, vars, node, stats, locals, choice
  <2>2. EdgeSum' = EdgeSum BY <2>1 DEF EdgeSum, Edges, Places, Now
  <2>3. MissSum' = MissSum
    BY <2>1 DEF MissSum, Excess, Weight, ToRead, Reading, Reader, Arr, Places, Now
  <2>4. Pending' = Pending /\ Taken' = Taken
    BY <2>1 DEF Pending, Updating, Accounted, Undoing, Taken, Reading, Reader
  <2>5. Covered' BY <2>1, <2>2, <2>3, <2>4 DEF Counted, Covered
  <2>6. EmptyIsUnvisited' BY <2>1 DEF Counted, EmptyIsUnvisited, Mv, Places
  <2>7. \A t \in Threads : EdgeOK(t)' BY <2>1 DEF Counted, EdgeOK, Mv, Arr
  <2> QED BY <2>5, <2>6, <2>7 DEF Counted
<1> QED BY <1>1, <1>2 DEF Next

(* One thread recomputes if there are updates to come, and none otherwise. *)
LEMMA OneAtATime == IInv => Cardinality(Recomputing) = IF dirtyCounter > 0 THEN 1 ELSE 0
<1> SUFFICES ASSUME IInv
             PROVE  Cardinality(Recomputing) = IF dirtyCounter > 0 THEN 1 ELSE 0
  OBVIOUS
<1>1. dirtyCounter \in Nat BY DEF IInv, TypeOK
<1>2. CASE dirtyCounter = 0 /\ Recomputing = {} BY <1>2, FS_EmptySet
<1>3. CASE \E t \in Threads : Recomputing = {t} /\ numVisitsCompleted[t] \in 1..dirtyCounter
  <2>1. PICK t \in Threads : Recomputing = {t} /\ numVisitsCompleted[t] \in 1..dirtyCounter
    BY <1>3
  <2>2. dirtyCounter > 0 BY <1>1, <2>1
  <2> QED BY <2>1, <2>2, FS_Singleton
<1> QED BY <1>2, <1>3 DEF IInv, DirtyOK

(* The total of a sequence is the sum over its places. *)
LEMMA TotalIsSum == ASSUME NEW s PROVE Total(s) = SumOver(s, DOMAIN s)
BY DEF Total, FoldSeq, FoldFunction, FoldFunctionOnSet, SumOver, MapThenSumSet, MapThenFoldSet

(* When no thread is in the node nothing is pending. *)
LEMMA NothingPending ==
    ASSUME IInv, \A t \in Threads : pc[t] = "idle"
    PROVE  Pending = 0
<1>1. Updating = {} /\ Undoing = {} /\ Recomputing = {}
  BY DEF Updating, Undoing, Recomputing
<1>2. dirtyCounter = 0 BY <1>1 DEF IInv, DirtyOK
<1>3. Cardinality(Updating) = 0 /\ Accounted = 0 BY <1>1, FS_EmptySet DEF Accounted
<1> QED BY <1>2, <1>3 DEF Pending

(* The totals are no larger than the sums over all slots. *)
LEMMA TotalsAreCovered ==
    ASSUME TypeOK, Tree, Reading = {}
    PROVE  /\ Total(EdgesNow) \in Nat /\ Total(EdgesNow) <= EdgeSum
           /\ Total(Missed) \in Nat /\ Total(Missed) <= MissSum
<1> DEFINE n == Cardinality(Filled(Now))
           S == Places(Now)
           R == 1..n
           f == Edges(Now)
           g == Excess(Now)
           e == EdgesNow
           h == Missed
<1>1. Now \in 1..3 BY NowIsArray
<1>2. n \in 0..Len(children[Now]) /\ Len(children[Now]) \in Nat /\ IsFiniteSet(S)
  BY <1>1, FilledAreFirst, PlacesAreTyped DEF Tree, ListOK
<1>3. R \subseteq S /\ n \in Nat BY <1>2 DEF Places
<1>4. IsFiniteSet(R) BY <1>3, IntervalSize
<1>5. DOMAIN e = R /\ Len(e) = n /\ \A i \in R : e[i] = children[Now][i].edgeVisits
  BY <1>3 DEF EdgesNow, EdgeVisits, Now
<1>6. DOMAIN h = R /\ \A i \in R : h[i] = IF e[i] > Weight(i) THEN e[i] - Weight(i) ELSE 0
  <2> HIDE DEF e
  <2> QED BY <1>5 DEF Missed, Weight, ToRead, e
<1>7. \A i \in S : /\ f[i] \in Nat /\ g[i] \in Nat /\ f[i] = children[Now][i].edgeVisits
                   /\ g[i] = IF children[Now][i].edgeVisits > Weight(i)
                             THEN children[Now][i].edgeVisits - Weight(i) ELSE 0
  <2>1. children[Now] = children[Now] OBVIOUS
  <2> QED BY <1>1, PlacesAreTyped
<1>8. EdgeSum = SumOver(f, S) /\ MissSum = SumOver(g, S) BY DEF EdgeSum, MissSum
<1>9. Total(e) = SumOver(e, R) /\ Total(h) = SumOver(h, R)
  <2> HIDE DEF e, h
  <2> QED BY <1>5, <1>6, TotalIsSum
<1> HIDE DEF n, S, R, f, g, e, h
<1>10. \A i \in R : f[i] \in Nat /\ e[i] = f[i] BY <1>3, <1>5, <1>7
<1>11. \A i \in R : g[i] \in Nat /\ h[i] = g[i] BY <1>3, <1>5, <1>6, <1>7
<1>12. SumOver(e, R) = SumOver(f, R) /\ SumOver(h, R) = SumOver(g, R)
  BY <1>4, <1>10, <1>11, SumOfSame
<1>13. (\A i \in S : f[i] \in Nat) /\ (\A i \in S : g[i] \in Nat)
       /\ (\A i \in R : f[i] \in Nat) /\ (\A i \in R : g[i] \in Nat)
  BY <1>7, <1>10, <1>11
<1>14. SumOver(f, R) <= SumOver(f, S) /\ SumOver(g, R) <= SumOver(g, S)
  BY <1>2, <1>3, <1>13, SumOfPart
<1>15. SumOver(f, R) \in Nat /\ SumOver(g, R) \in Nat BY <1>4, <1>13, SumStep
<1>16. Total(e) \in Nat /\ Total(e) <= EdgeSum /\ Total(h) \in Nat /\ Total(h) <= MissSum
  BY <1>8, <1>9, <1>12, <1>14, <1>15
<1> QED BY <1>16 DEF e, h

(* One thread at a time recomputes the statistics, and one does when there *)
(* are updates to come; and when no thread is in the node, its statistics  *)
(* rest on every edge visit but those that VisitAgain adds without telling, *)
(* and it has a visit for each and one of its own.                        *)
THEOREM Statistics == Spec => []StatsAreUpToDate
<1>1. IInv /\ Counted => StatsAreUpToDate
  <2> SUFFICES ASSUME IInv, Counted PROVE StatsAreUpToDate OBVIOUS
  <2>1. ASSUME \A t \in Threads : pc[t] = "idle", state >= 2
        PROVE  Total(EdgesNow) + 1 <= visits + uncounted /\ Total(Missed) <= uncounted
    <3>1. /\ Total(EdgesNow) \in Nat /\ Total(EdgesNow) <= EdgeSum
          /\ Total(Missed) \in Nat /\ Total(Missed) <= MissSum
          /\ EdgeSum \in Nat /\ MissSum \in Nat /\ visits \in Nat /\ uncounted \in Nat
      <4>1. Reading = {} BY <2>1 DEF Reading
      <4> QED BY <4>1, TotalsAreCovered, SumsAreNat DEF IInv, TypeOK
    <3>2. Pending = 0 /\ Taken \in Nat BY <2>1, NothingPending, PendingIsThere DEF IInv
    <3>3. EdgeSum + 1 <= visits + uncounted + 0 /\ MissSum + Taken <= uncounted + 0
      BY <2>1, <3>2 DEF Counted, Covered
    <3> QED BY <3>1, <3>2, <3>3
  <2> QED BY <2>1, OneAtATime DEF StatsAreUpToDate, STATE_EXPANDED0
<1>2. Init => IInv /\ Counted BY InitOK, InitCounted
<1>3. IInv /\ Counted /\ [Next]_vars => (IInv /\ Counted)' BY StepOK, StepCounted
<1> QED BY <1>1, <1>2, <1>3, PTL DEF Spec

-----------------------------------------------------------------------------
(* The refinement.  The list of an array, and the list of the node. *)
ListOf(arr) == [i \in 1..Cardinality({j \in 1..Len(arr) : arr[j].move # NULL}) |-> arr[i].move]
\* The list of the node: the moves of the edges in use.
TheList == [i \in 1..Len(EdgesNow) |-> children[ArrayOf(state)][i].move]

(* Of an array with its first n slots filled, the list has the first n moves. *)
LEMMA ListOfPacked ==
    ASSUME NEW arr, NEW n \in Nat, Len(arr) \in Nat, n <= Len(arr),
           \A i \in 1..Len(arr) : arr[i].move # NULL <=> i <= n
    PROVE  ListOf(arr) = [i \in 1..n |-> arr[i].move]
<1>1. {j \in 1..Len(arr) : arr[j].move # NULL} = 1..n
  OBVIOUS
<1>2. Cardinality({j \in 1..Len(arr) : arr[j].move # NULL}) = n
  BY <1>1, IntervalSize
<1>3. QED
  BY <1>2 DEF ListOf

(* The list of the node is the list of the array that the state names. *)
LEMMA ListIsOfArray ==
    /\ TypeOK => TheList = ListOf(children[ArrayOf(state)])
    /\ TypeOK' => TheList' = ListOf(children'[ArrayOf(state')])
<1>1. ASSUME NEW arr, NEW s, s \in Seq(Slots), arr = s
      PROVE  Cardinality({j \in 1..Len(arr) : arr[j].move # NULL}) \in Nat
  <2>1. Len(s) \in Nat
    BY <1>1, LenProperties
  <2>2. IsFiniteSet(1..Len(s))
    BY <2>1, IntervalSize
  <2>3. IsFiniteSet({j \in 1..Len(arr) : arr[j].move # NULL})
    BY <1>1, <2>2, FS_Subset
  <2>4. QED
    BY <2>3, FS_CardinalityType
<1>2. ASSUME TypeOK PROVE TheList = ListOf(children[ArrayOf(state)])
  <2>1. children[ArrayOf(state)] \in Seq(Slots)
    BY <1>2, ArraysOfStates DEF TypeOK, STATE_UNEVALUATED, STATE_EXPANDED2
  <2>2. Cardinality(Filled(ArrayOf(state))) \in Nat
    BY <1>1, <2>1 DEF Filled
  <2>3. Len(EdgesNow) = Cardinality(Filled(ArrayOf(state)))
    BY <2>2 DEF EdgesNow, EdgeVisits
  <2>4. QED
    BY <2>3 DEF TheList, ListOf, Filled
<1>3. ASSUME TypeOK' PROVE TheList' = ListOf(children'[ArrayOf(state')])
  <2>1. children'[ArrayOf(state')] \in Seq(Slots)
    BY <1>3, ArraysOfStates DEF TypeOK, STATE_UNEVALUATED, STATE_EXPANDED2
  <2>2. Cardinality(Filled(ArrayOf(state))') \in Nat
    BY <1>1, <2>1 DEF Filled
  <2>3. Len(EdgesNow') = Cardinality(Filled(ArrayOf(state))')
    BY <2>2 DEF EdgesNow, EdgeVisits
  <2>4. QED
    BY <2>3 DEF TheList, ListOf, Filled
<1>4. QED
  BY <1>2, <1>3

(* Two arrays with the same children, the first of them the same, have the *)
(* same list.                                                              *)
LEMMA SameList ==
    ASSUME NEW a, NEW b, NEW n \in Nat, Len(a) \in Nat, Len(b) \in Nat,
           n <= Len(a), n <= Len(b),
           \A i \in 1..Len(a) : a[i].move # NULL <=> i <= n,
           \A i \in 1..Len(b) : b[i].move # NULL <=> i <= n,
           \A i \in 1..n : a[i].move = b[i].move
    PROVE  ListOf(a) = ListOf(b)
<1>1. ListOf(a) = [i \in 1..n |-> a[i].move] /\ ListOf(b) = [i \in 1..n |-> b[i].move]
  BY ListOfPacked
<1>2. QED
  BY <1>1

(* A step is one of the abstract node if it leaves the list and whether it *)
(* is evaluated alone, evaluates the node, or appends a new move.          *)
LEMMA AbstractStep ==
    ASSUME \/ TheList' = TheList /\ (state' >= 2 <=> state >= 2)
           \/ TheList' = TheList /\ state < 2 /\ state' >= 2
           \/ \E m \in Moves : /\ state >= 2 /\ state' >= 2
                               /\ \A i \in 1..Len(TheList) : TheList[i] # m
                               /\ TheList' = Append(TheList, m),
           state \in 0..6, state' \in 0..6
    PROVE  [List!Next]_List!vars
<1>1. CASE TheList' = TheList /\ (state' >= 2 <=> state >= 2)
  BY <1>1 DEF List!vars, TheList, STATE_EXPANDED0
<1>2. CASE TheList' = TheList /\ state < 2 /\ state' >= 2
  BY <1>2 DEF List!Next, List!Evaluate, TheList, STATE_EXPANDED0
<1>3. CASE \E m \in Moves : /\ state >= 2 /\ state' >= 2
                            /\ \A i \in 1..Len(TheList) : TheList[i] # m
                            /\ TheList' = Append(TheList, m)
  BY <1>3 DEF List!Next, List!Add, TheList, STATE_EXPANDED0
<1>4. QED
  BY <1>1, <1>2, <1>3

(* Steps that leave the moves of the arrays alone, and the state or the    *)
(* array that it names.                                                    *)
LEMMA ListStays ==
    ASSUME IInv, IInv', SameMoves, ArrayOf(state') = ArrayOf(state)
    PROVE  TheList' = TheList
<1>1. TypeOK /\ TypeOK' /\ ListOK
  BY DEF IInv, Tree
<1>2. PICK k \in 1..3 : k = ArrayOf(state)
  BY <1>1, ArraysOfStates DEF TypeOK, STATE_UNEVALUATED, STATE_EXPANDED2
<1>3. PICK n \in 0..Len(children[k]) :
               \A i \in 1..Len(children[k]) : Mv(k, i) # NULL <=> i <= n
  BY <1>1 DEF ListOK, Packed
<1>4. Len(children[k]) \in Nat
  BY <1>1, LenProperties DEF TypeOK
<1>5. PICK a, b : a = children[k] /\ b = children'[k]
  OBVIOUS
<1>6. /\ Len(b) = Len(a) /\ Len(a) \in Nat /\ n \in Nat /\ n <= Len(a)
      /\ \A i \in 1..Len(a) : b[i].move = a[i].move
      /\ \A i \in 1..Len(a) : a[i].move # NULL <=> i <= n
  BY <1>3, <1>4, <1>5 DEF SameMoves, Mv
<1>7. ListOf(a) = ListOf(b)
  <2>1. /\ \A i \in 1..Len(b) : b[i].move # NULL <=> i <= n
        /\ \A i \in 1..n : a[i].move = b[i].move
    BY <1>6
  <2>2. QED
    BY <1>6, <2>1, SameList
<1>8. QED
  BY <1>1, <1>2, <1>5, <1>7, ListIsOfArray

(* A step that publishes an array keeps the list. *)
LEMMA ListPublished ==
    ASSUME IInv, IInv', NEW t \in Threads, PublishChildren(t)
    PROVE  TheList' = TheList /\ state \in {3, 5} /\ state' = state + 1
<1>1. TypeOK /\ Tree /\ TypeOK'
  BY DEF IInv, Tree
<1>2. PICK k \in 1..2 : k = Arr(t)
  BY <1>1, ArrayPublished
<1>3. /\ state = nodeState[t] /\ state \in {3, 5}
      /\ state' = state + 1 /\ k = (IF state = 3 THEN 1 ELSE 2)
      /\ Len(children[k]) = Sizes[k] /\ Len(children'[k + 1]) = Sizes[k + 1]
      /\ \A i \in 1..Sizes[k] : Mv(k, i) # NULL /\ children'[k + 1][i].move = Mv(k, i)
      /\ \A i \in (Sizes[k] + 1)..Sizes[k + 1] : children'[k + 1][i].move = NULL
  BY <1>1, <1>2, ArrayPublished
<1>4. Sizes[k] \in Nat /\ Sizes[k + 1] \in Nat /\ Sizes[k] < Sizes[k + 1]
  BY SizesAreSizes
<1>5. ArrayOf(state) = k /\ ArrayOf(state') = k + 1
  BY <1>3, ArraysOfStates
<1>6. PICK a, b, n : a = children[k] /\ b = children'[k + 1] /\ n = Sizes[k]
  OBVIOUS
<1>7. ListOf(a) = ListOf(b)
  <2>1. /\ Len(a) = n /\ n \in Nat /\ Len(b) \in Nat /\ n <= Len(b)
        /\ \A i \in 1..Len(a) : a[i].move # NULL <=> i <= n
        /\ \A i \in 1..n : a[i].move = b[i].move /\ a[i].move # NULL
    BY <1>3, <1>4, <1>6 DEF Mv
  <2>2. ASSUME NEW i \in 1..Len(b)
        PROVE  b[i].move # NULL <=> i <= n
    <3>1. CASE i <= n
      BY <2>1, <2>2, <3>1
    <3>2. CASE ~(i <= n)
      BY <1>3, <1>4, <1>6, <3>2
    <3>3. QED
      BY <3>1, <3>2
  <2>3. /\ n \in Nat /\ Len(a) \in Nat /\ Len(b) \in Nat /\ n <= Len(a) /\ n <= Len(b)
        /\ \A i \in 1..n : a[i].move = b[i].move
    BY <2>1
  <2>4. QED
    BY <2>1, <2>2, <2>3, SameList
<1>8. QED
  BY <1>1, <1>3, <1>5, <1>6, <1>7, ListIsOfArray

(* A step that stores a child appends it: the array of the thread's view,  *)
(* which has a free slot, is the one in use.                               *)
LEMMA ListGrows ==
    ASSUME IInv, IInv', NEW t \in Threads, pc[t] = "store",
           Mv(Arr(t), best[t].idx) = NULL, StoresMove(t), state' = state
    PROVE  /\ state >= 2 /\ best[t].move \in Moves
           /\ \A i \in 1..Len(TheList) : TheList[i] # best[t].move
           /\ TheList' = Append(TheList, best[t].move)
<1>1. /\ TypeOK /\ TypeOK' /\ Tree /\ NodeOK /\ ListOK /\ ThreadOK(t)
  BY DEF IInv, Tree
<1>2. /\ state \in 0..6 /\ nodeState[t] \in 2..6 /\ nodeState[t] <= state
  <2>1. state \in 0..6 /\ nodeState[t] \in 0..6
    BY <1>1, ThreadTypes DEF TypeOK, STATE_UNEVALUATED, STATE_EXPANDED2
  <2>2. QED
    BY <1>1, <2>1 DEF ThreadOK, ViewOK, EvalSteps
<1>3. PICK k, i, m : k = Arr(t) /\ i = best[t].idx /\ m = best[t].move
  OBVIOUS
<1>4. /\ k \in 1..3 /\ i \in 1..Len(children[k]) /\ m \in Moves /\ m # NULL
      /\ \A j \in 1..(i - 1) : Mv(k, j) \notin {NULL, m}
      /\ Mv(k, i) = NULL
  <2>1. best[t].idx <= Cap(t) /\ pc[t] \in NewSteps
        /\ \A j \in 1..(i - 1) : Mv(k, j) \notin {NULL, m}
    BY <1>1, <1>3 DEF ThreadOK, ViewOK, NewSteps
  <2>2. QED
    BY <1>1, <1>3, <2>1, ChosenSlot, NodeAssumption
<1>5. Len(children[k]) \in Nat
  BY <1>1, <1>4, LenProperties DEF TypeOK
<1>6. ArrayOf(state) = k
  <2>1. ASSUME k < 3, Len(children[k + 1]) > 0
        PROVE  FALSE
    <3>1. Prefix(k)
      BY <1>1, <1>4, <2>1 DEF ListOK
    <3>2. QED
      BY <1>4, <2>1, <3>1 DEF Prefix
  <2>2. ArrayOf(nodeState[t]) = k /\ ArrayOf(nodeState[t]) <= ArrayOf(state)
    BY <1>2, <1>3, LaterStates DEF Arr
  <2>3. ASSUME k < ArrayOf(state)
        PROVE  Len(children[k + 1]) > 0
    <3>1. /\ k = 1 => state >= 4
          /\ k = 2 => state >= 6
          /\ k \in 1..2
      BY <1>2, <1>4, <2>3, ArraysOfStates
    <3>2. QED
      BY <1>1, <1>2, <3>1, SizesAreSizes DEF NodeOK
  <2>4. QED
    BY <1>2, <1>4, <2>1, <2>2, <2>3, ArraysOfStates
<1>7. PICK a, b : a = children[k] /\ b = children'[k]
  OBVIOUS
<1>8. /\ Len(b) = Len(a) /\ Len(a) \in Nat /\ i \in 1..Len(a)
      /\ \A j \in 1..Len(a) : b[j].move = IF j = i THEN m ELSE a[j].move
      /\ a[i].move = NULL /\ \A j \in 1..(i - 1) : a[j].move \notin {NULL, m}
  <2>1. /\ \A j \in 1..3 : Len(children'[j]) = Len(children[j])
        /\ \A j \in 1..3 : \A l \in 1..Len(children[j]) :
              children'[j][l].move = IF j = k /\ l = i THEN m ELSE children[j][l].move
    BY <1>1, <1>3, MoveStored
  <2>2. QED
    BY <1>4, <1>5, <1>7, <2>1 DEF Mv
<1>9. \A j \in 1..Len(a) : a[j].move # NULL <=> j <= i - 1
  <2>1. PICK n \in 0..Len(a) : \A j \in 1..Len(a) : a[j].move # NULL <=> j <= n
    BY <1>1, <1>4, <1>7 DEF ListOK, Packed, Mv
  <2>2. ~(i <= n) /\ (i - 1 \in 1..Len(a) => i - 1 <= n)
    BY <1>8, <2>1
  <2>3. n = i - 1
    BY <1>8, <2>2
  <2>4. QED
    BY <2>1, <2>3
<1>10. \A j \in 1..Len(b) : b[j].move # NULL <=> j <= i
  BY <1>4, <1>8, <1>9
<1>11. /\ ListOf(a) = [j \in 1..(i - 1) |-> a[j].move]
       /\ ListOf(b) = [j \in 1..i |-> b[j].move]
  <2>1. i \in Nat /\ i - 1 \in Nat /\ i <= Len(b) /\ i - 1 <= Len(a) /\ Len(b) \in Nat
    BY <1>8
  <2>2. QED
    BY <1>8, <1>9, <1>10, <2>1, ListOfPacked
<1>12. /\ ListOf(b) = Append(ListOf(a), m)
       /\ \A j \in 1..Len(ListOf(a)) : ListOf(a)[j] # m
  <2>1. ListOf(a) \in Seq({a[j].move : j \in 1..Len(a)}) /\ Len(ListOf(a)) = i - 1
    <3>1. i - 1 \in Nat /\ \A j \in 1..(i - 1) : j \in 1..Len(a)
      BY <1>8
    <3>2. \A j \in 1..(i - 1) : a[j].move \in {a[l].move : l \in 1..Len(a)}
      BY <3>1
    <3>3. QED
      BY <1>11, <3>1, <3>2
  <2>2. Append(ListOf(a), m) = [j \in 1..i |-> IF j = i THEN m ELSE a[j].move]
    BY <1>8, <1>11, <2>1
  <2>3. QED
    BY <1>8, <1>11, <2>1, <2>2
<1>13. TheList = ListOf(a) /\ TheList' = ListOf(b)
  BY <1>1, <1>6, <1>7, ListIsOfArray
<1>14. QED
  BY <1>2, <1>3, <1>4, <1>12, <1>13

(* Every step of the node is one of the abstract node, or leaves it alone. *)
LEMMA StepIsAbstract == IInv /\ IInv' /\ [Next]_vars => [List!Next]_List!vars
<1> SUFFICES ASSUME IInv, IInv', [Next]_vars PROVE [List!Next]_List!vars
  OBVIOUS
<1>1. /\ TypeOK /\ Tree /\ NodeOK /\ state \in 0..6 /\ state' \in 0..6
      /\ \A t \in Threads : ThreadOK(t)
  BY DEF IInv, Tree, TypeOK, STATE_UNEVALUATED, STATE_EXPANDED2
<1>2. ASSUME SameMoves, state' = state
      PROVE  [List!Next]_List!vars
  BY <1>1, <1>2, ListStays, AbstractStep
<1>3. ASSUME UNCHANGED <<children, state>>
      PROVE  [List!Next]_List!vars
  BY <1>2, <1>3 DEF SameMoves
<1>4. CASE UNCHANGED vars \/ \E m \in Shared : VisitFromElsewhere(m)
  BY <1>3, <1>4 DEF vars, node, VisitFromElsewhere
<1>5. ASSUME NEW t \in Threads, playoutDescend(t) \/ Playout(t)
      PROVE  [List!Next]_List!vars
  <2>1. CASE playoutDescend(t) \/ UpdateStats(t)
    BY <1>3, <2>1 DEF playoutDescend, UpdateStats, updateStatsAfterPlayout, getChildren, ReadChild,
                      recomputeNodeStats, UndoDirty, node
  <2>2. CASE Evaluate(t)
    <3>1. CASE storeNNOutputIfNull(t) \/ addLeafValue(t)
      BY <1>3, <3>1 DEF storeNNOutputIfNull, addLeafValue, node
    <3>2. CASE ClaimEvaluation(t)
      <4>1. children' = children /\ (state' = state \/ (state = 0 /\ state' = 1))
        BY <3>2 DEF ClaimEvaluation, STATE_UNEVALUATED, STATE_EVALUATING
      <4>2. SameMoves /\ ArrayOf(state') = ArrayOf(state)
        BY <4>1, ArraysOfStates DEF SameMoves
      <4>3. TheList' = TheList
        BY <4>2, ListStays
      <4>4. state' >= 2 <=> state >= 2
        BY <1>1, <4>1
      <4>5. QED
        BY <1>1, <4>3, <4>4, AbstractStep
    <3>3. CASE initializeChildren(t)
      <4>1. /\ state = 1 /\ state' = 1
            /\ children' = [children EXCEPT ![1] = NewArray(CHILDREN0SIZE)]
        BY <1>1, <3>3 DEF initializeChildren, ThreadOK, EvalOK
      <4>2. /\ \A i \in 1..Len(children[1]) : children[1][i].move = NULL
            /\ \A i \in 1..Len(children'[1]) : children'[1][i].move = NULL
        BY <1>1, <4>1 DEF NodeOK, IInv, Tree, Mv
      <4>3. ArrayOf(state) = 1 /\ ArrayOf(state') = 1
        BY <4>1, ArraysOfStates
      <4>4. PICK a, b : a = children[1] /\ b = children'[1]
        OBVIOUS
      <4>5. ListOf(a) = ListOf(b)
        <5>1. /\ Len(a) \in Nat /\ Len(b) \in Nat /\ 0 <= Len(a) /\ 0 <= Len(b)
              /\ \A i \in 1..Len(a) : a[i].move # NULL <=> i <= 0
              /\ \A i \in 1..Len(b) : b[i].move # NULL <=> i <= 0
              /\ \A i \in 1..0 : a[i].move = b[i].move
          <6>1. a \in Seq(Slots) /\ b \in Seq(Slots)
            BY <4>4 DEF IInv, TypeOK
          <6>2. Len(a) \in Nat /\ Len(b) \in Nat
            BY <6>1, LenProperties
          <6>3. QED
            BY <4>2, <4>4, <6>2
        <5>2. QED
          BY <5>1, SameList
      <4>6. TheList' = TheList
        BY <4>3, <4>4, <4>5, ListIsOfArray DEF IInv
      <4>7. QED
        BY <1>1, <4>1, <4>6, AbstractStep
    <3>4. CASE Expand0(t)
      <4>1. children' = children /\ state = 1 /\ state' = 2
        BY <1>1, <3>4 DEF Expand0, STATE_EXPANDED0, ThreadOK, EvalOK
      <4>2. SameMoves /\ ArrayOf(state') = ArrayOf(state)
        BY <4>1, ArraysOfStates DEF SameMoves
      <4>3. TheList' = TheList
        BY <4>2, ListStays
      <4>4. QED
        BY <1>1, <4>1, <4>3, AbstractStep
    <3>5. QED
      BY <2>2, <3>1, <3>2, <3>3, <3>4 DEF Evaluate
  <2>3. CASE SelectChild(t)
    <3>1. CASE SeeChild(t) \/ selectBestChildToDescend(t) \/ SelectNothing(t) \/ ReInit(t)
      BY <1>3, <3>1 DEF SeeChild, selectBestChildToDescend, SelectNothing, ReInit, node
    <3>2. CASE VisitAgain(t)
      <4>1. pc[t] \in EdgeSteps /\ AddEdgeVisits(t) /\ state' = state
        BY <3>2 DEF VisitAgain, EdgeSteps
      <4>2. QED
        BY <1>1, <1>2, <4>1, EdgeAdded
    <3>3. QED
      BY <2>3, <3>1, <3>2 DEF SelectChild
  <2>4. CASE AddChild(t)
    <3>1. CASE maybeExpandChildrenCapacity(t)
      <4>1. /\ children' = children
            /\ state' = state \/ (state \in {2, 4} /\ state' = state + 1)
        BY <3>1 DEF maybeExpandChildrenCapacity, STATE_EXPANDED0, STATE_EXPANDED1
      <4>2. SameMoves /\ ArrayOf(state') = ArrayOf(state)
        BY <4>1, ArraysOfStates DEF SameMoves
      <4>3. TheList' = TheList
        BY <4>2, ListStays
      <4>4. state' >= 2 <=> state >= 2
        BY <1>1, <4>1
      <4>5. QED
        BY <1>1, <4>3, <4>4, AbstractStep
    <3>2. CASE CopySlot(t) \/ allocateOrFindNode(t)
      BY <1>3, <3>2 DEF CopySlot, allocateOrFindNode, node
    <3>3. CASE PublishChildren(t)
      <4>1. TheList' = TheList /\ state \in {3, 5} /\ state' = state + 1
        BY <3>3, ListPublished
      <4>2. QED
        BY <1>1, <4>1, AbstractStep
    <3>4. CASE StoreChild(t)
      <4>1. pc[t] = "store" /\ state' = state
        BY <3>4 DEF StoreChild
      <4>2. CASE UNCHANGED children
        BY <1>3, <4>1, <4>2
      <4>3. CASE Mv(Arr(t), best[t].idx) = NULL /\ StoresMove(t)
        BY <1>1, <4>1, <4>3, ListGrows, AbstractStep
      <4>4. QED
        BY <3>4, <4>2, <4>3 DEF StoreChild, StoresMove, Mv, Arr
    <3>5. QED
      BY <2>4, <3>1, <3>2, <3>3, <3>4 DEF AddChild
  <2>5. CASE VisitChild(t)
    <3>1. /\ state' = state
          /\ UNCHANGED children \/ (pc[t] \in EdgeSteps /\ AddEdgeVisits(t))
      BY <2>5 DEF VisitChild, ReuseChild, maybeCatchUpEdgeVisits, Descend, ReloadState,
                  CountVisit, ReleaseChild, node, EdgeSteps
    <3>2. QED
      BY <1>1, <1>2, <1>3, <3>1, EdgeAdded
  <2>6. QED
    BY <1>5, <2>1, <2>2, <2>3, <2>4, <2>5 DEF Playout
<1>6. QED
  BY <1>4, <1>5 DEF Next

(* The three arrays, the states and the copying implement one list of      *)
(* distinct children that only grows, of a node that is evaluated once.    *)
THEOREM Implements == Spec => IsChildList
<1>1. Init => List!Init
  <2> SUFFICES ASSUME Init PROVE List!Init
    OBVIOUS
  <2>1. state = 0 /\ ArrayOf(state) = 1 /\ children[1] = <<>>
    BY ArraysOfStates DEF Init, STATE_UNEVALUATED
  <2>2. Filled(1) = {} /\ Cardinality(Filled(1)) = 0
    BY <2>1, FS_EmptySet DEF Filled
  <2>3. EdgesNow = <<>>
    BY <2>1, <2>2 DEF EdgesNow, EdgeVisits
  <2>4. QED
    BY <2>1, <2>3 DEF List!Init, STATE_EXPANDED0
<1>2. QED
  BY <1>1, StepIsAbstract, Invariant, PTL DEF Spec, IsChildList, List!Spec
=============================================================================
