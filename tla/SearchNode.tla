----------------------------- MODULE SearchNode -----------------------------
(***************************************************************************)
(* One node of the search tree and the threads that play out through it:   *)
(* SearchNode (src/cpp/search/searchnode.h and .cpp) and playoutDescend    *)
(* with what it calls (search.cpp, searchnnhelpers.cpp,                    *)
(* searchexplorehelpers.cpp, searchupdatehelpers.cpp).                     *)
(*                                                                         *)
(* The node has no lock for its state or its arrays: a step is one access  *)
(* to a shared atomic, or one critical section of the mutex under which a  *)
(* child is stored.  Values and probabilities are left out, so a thread    *)
(* may choose any child it sees and any move it does not see.  The child   *)
(* reached by a move is named by the move; other nodes may lead to it.     *)
(***************************************************************************)
EXTENDS Integers, SequencesExt

CONSTANTS Threads, Moves,
          CHILDREN0SIZE, CHILDREN1SIZE, CHILDREN2SIZE,
          Doubtful,      (* moves that may be found illegal when chosen *)
          Shared,        (* moves to a child that other nodes lead to as well *)
          MaxPlayouts,   (* bound: playouts that pass this node *)
          MaxElsewhere,  (* bound: visits of a child from other nodes *)
          NULL

ASSUME NodeAssumption ==
    /\ CHILDREN0SIZE \in Nat \ {0} /\ CHILDREN1SIZE \in Nat /\ CHILDREN2SIZE \in Nat
    /\ CHILDREN0SIZE < CHILDREN1SIZE /\ CHILDREN1SIZE < CHILDREN2SIZE
    /\ IsFiniteSet(Threads)
    /\ IsFiniteSet(Moves) /\ Cardinality(Moves) <= CHILDREN2SIZE
    /\ NULL \notin Moves /\ Doubtful \subseteq Moves /\ Shared \subseteq Moves
    /\ MaxPlayouts \in Nat /\ MaxElsewhere \in Nat

VARIABLES
    state, nnOutput,
    children,                    (* children0, children1, children2; <<>> for NULL *)
    visits, childWeights,        (* the statistics: visits, and the edge visits they rest on *)
    dirtyCounter,
    childVisits, virtualLosses,  (* of each child *)
    pc, nodeState, seen, best,   (* of a thread: its step, its view of state, the     *)
    retried,                     (* children it saw, its choice, whether it re-chose, *)
    copied, numVisitsCompleted,  (* the array it fills, the visits it accounts for    *)
    uncounted,                   (* history variable: edge visits VisitAgain added *)
    begun, elsewhere             (* bound counters *)

node == <<state, nnOutput, children>>
stats == <<visits, childWeights, dirtyCounter>>
childVars == <<childVisits, virtualLosses>>
choice == <<nodeState, seen, best, retried>>
locals == <<pc, choice, copied, numVisitsCompleted>>
bounds == <<begun, elsewhere>>
vars == <<node, stats, childVars, locals, uncounted, bounds>>

STATE_UNEVALUATED == 0
STATE_EVALUATING  == 1
STATE_EXPANDED0   == 2
STATE_GROWING1    == 3
STATE_EXPANDED1   == 4
STATE_GROWING2    == 5
STATE_EXPANDED2   == 6

EmptySlot == [move |-> NULL, edgeVisits |-> 0]
NewArray(size) == [i \in 1..size |-> EmptySlot]
Sizes == <<CHILDREN0SIZE, CHILDREN1SIZE, CHILDREN2SIZE>>

(* getChildren and getChildrenCapacity: which of the three arrays to use. *)
ArrayOf(s) == IF s >= STATE_EXPANDED2 THEN 3 ELSE IF s >= STATE_EXPANDED1 THEN 2 ELSE 1
Capacity(s) == Sizes[ArrayOf(s)]
NoBest == [idx |-> 0, move |-> NULL]
-----------------------------------------------------------------------------
Init ==
    /\ state = STATE_UNEVALUATED /\ nnOutput = FALSE
    /\ children = [k \in 1..3 |-> <<>>]
    /\ visits = 0 /\ childWeights = <<>> /\ dirtyCounter = 0
    /\ childVisits = [m \in Moves |-> 0] /\ virtualLosses = [m \in Moves |-> 0]
    /\ pc = [t \in Threads |-> "idle"]
    /\ nodeState = [t \in Threads |-> STATE_UNEVALUATED]
    /\ seen = [t \in Threads |-> <<>>] /\ best = [t \in Threads |-> NoBest]
    /\ retried = [t \in Threads |-> FALSE]
    /\ copied = [t \in Threads |-> <<>>]
    /\ numVisitsCompleted = [t \in Threads |-> 0]
    /\ uncounted = 0 /\ begun = 0 /\ elsewhere = 0

GoTo(t, step) == pc' = [pc EXCEPT ![t] = step]

(* The playout of t leaves the node, finished or not. *)
Return(t) == /\ GoTo(t, "idle")
             /\ nodeState' = [nodeState EXCEPT ![t] = STATE_UNEVALUATED]
             /\ seen' = [seen EXCEPT ![t] = <<>>] /\ best' = [best EXCEPT ![t] = NoBest]
             /\ retried' = [retried EXCEPT ![t] = FALSE]
             /\ UNCHANGED <<copied, numVisitsCompleted>>

(* t looks at the children again, from the first, in the state it now sees. *)
Select(t) == /\ GoTo(t, "select")
             /\ nodeState' = [nodeState EXCEPT ![t] = state]
             /\ seen' = [seen EXCEPT ![t] = <<>>] /\ best' = [best EXCEPT ![t] = NoBest]

(* A playout that finds the node EVALUATING gives up and begins again. *)
playoutDescend(t) ==
    /\ pc[t] = "idle" /\ begun < MaxPlayouts
    /\ begun' = begun + 1
    /\ \/ /\ state = STATE_UNEVALUATED
          /\ GoTo(t, "initNodeNNOutput")
          /\ UNCHANGED choice
       \/ /\ state >= STATE_EXPANDED0
          /\ Select(t)
          /\ UNCHANGED retried
    /\ UNCHANGED <<node, stats, childVars, copied, numVisitsCompleted, uncounted, elsewhere>>
-----------------------------------------------------------------------------
(* A new node.  Every thread that finds it evaluates it; the first to      *)
(* store its output expands the node.                                     *)

storeNNOutputIfNull(t) ==
    /\ pc[t] = "initNodeNNOutput"
    /\ nnOutput' = TRUE
    /\ IF nnOutput THEN Return(t)
       ELSE /\ GoTo(t, "addLeafValue")
            /\ UNCHANGED <<choice, copied, numVisitsCompleted>>
    /\ UNCHANGED <<state, children, stats, childVars, uncounted, bounds>>

addLeafValue(t) ==
    /\ pc[t] = "addLeafValue"
    /\ visits' = visits + 1
    /\ GoTo(t, "claim")
    /\ UNCHANGED <<node, childWeights, dirtyCounter, childVars, choice, copied,
                   numVisitsCompleted, uncounted, bounds>>

ClaimExpanded(t) ==  \* mutant of ClaimEvaluation: the node is EXPANDED0 at once
    /\ pc[t] = "claim"
    /\ state' = STATE_EXPANDED0
    /\ GoTo(t, "initializeChildren")
    /\ UNCHANGED <<nnOutput, children, stats, childVars, choice, copied,
                   numVisitsCompleted, uncounted, bounds>>

ClaimEvaluation(t) ==
    /\ pc[t] = "claim"
    /\ IF state = STATE_UNEVALUATED
       THEN /\ state' = STATE_EVALUATING
            /\ GoTo(t, "initializeChildren")
            /\ UNCHANGED <<choice, copied, numVisitsCompleted>>
       ELSE Return(t) /\ UNCHANGED state
    /\ UNCHANGED <<nnOutput, children, stats, childVars, uncounted, bounds>>

initializeChildren(t) ==
    /\ pc[t] = "initializeChildren"
    /\ children' = [children EXCEPT ![1] = NewArray(CHILDREN0SIZE)]
    /\ GoTo(t, "expand0")
    /\ UNCHANGED <<state, nnOutput, stats, childVars, choice, copied,
                   numVisitsCompleted, uncounted, bounds>>

Expand0(t) ==
    /\ pc[t] = "expand0"
    /\ state' = STATE_EXPANDED0
    /\ Return(t)
    /\ UNCHANGED <<nnOutput, children, stats, childVars, uncounted, bounds>>
-----------------------------------------------------------------------------
(* Choice of a child: the slots are read one by one, up to an empty one.   *)

NextSlot(t) == children[ArrayOf(nodeState[t])][Len(seen[t]) + 1]
AtEnd(t) == Len(seen[t]) < Capacity(nodeState[t]) => NextSlot(t).move = NULL
SeenMoves(t) == {seen[t][i] : i \in 1..Len(seen[t])}

SeeChild(t) ==
    /\ pc[t] = "select" /\ ~AtEnd(t)
    /\ seen' = [seen EXCEPT ![t] = Append(@, NextSlot(t).move)]
    /\ UNCHANGED <<node, stats, childVars, pc, nodeState, best, retried, copied,
                   numVisitsCompleted, uncounted, bounds>>

(* The child that looks best, or the move that does, at the first free slot. *)
Candidates(t) == {[idx |-> i, move |-> seen[t][i]] : i \in 1..Len(seen[t])}
              \cup {[idx |-> Len(seen[t]) + 1, move |-> m] : m \in Moves \ SeenMoves(t)}
IsNew(t, b) == b.idx > Len(seen[t])

(* What t does with its choice b.  A move that is found illegal makes it   *)
(* evaluate the node and select again; of the second choice, a new child   *)
(* is given up if it is illegal, and an existing one is not descended to.  *)
StepsAfter(t, b) ==
    LET go == IF IsNew(t, b) THEN "grow" ELSE "reuse"
        orIfIllegal(step) == IF b.move \in Doubtful THEN {step} ELSE {}
    IN IF ~retried[t]      THEN {go} \cup orIfIllegal("reInit")
       ELSE IF IsNew(t, b) THEN {go} \cup orIfIllegal("idle")
       ELSE {"visitAgain"}

selectBestChildToDescend(t) ==
    /\ pc[t] = "select" /\ AtEnd(t)
    /\ \E b \in Candidates(t) : \E step \in StepsAfter(t, b) :
          IF step = "idle" THEN Return(t)
          ELSE /\ GoTo(t, step)
               /\ best' = [best EXCEPT ![t] = b]
               /\ seen' = [seen EXCEPT ![t] = <<>>]
               /\ retried' = [retried EXCEPT ![t] = FALSE]
               /\ UNCHANGED <<nodeState, copied, numVisitsCompleted>>
    /\ UNCHANGED <<node, stats, childVars, uncounted, bounds>>

(* Every move is forbidden: the node counts its own value once more. *)
SelectNothing(t) ==
    /\ pc[t] = "select" /\ AtEnd(t)
    /\ visits' = visits + 1
    /\ Return(t)
    /\ UNCHANGED <<node, childWeights, dirtyCounter, childVars, uncounted, bounds>>

(* initNodeNNOutput with isReInit: the output is replaced by a new one. *)
ReInit(t) ==
    /\ pc[t] = "reInit"
    /\ nnOutput' = TRUE
    /\ retried' = [retried EXCEPT ![t] = TRUE]
    /\ Select(t)
    /\ UNCHANGED <<state, children, stats, childVars, copied, numVisitsCompleted,
                   uncounted, bounds>>
-----------------------------------------------------------------------------
(* Edge visits of the child chosen, in the array of t's view of the state. *)
ChosenEdge(t) == children[ArrayOf(nodeState[t])][best[t].idx].edgeVisits
AddEdgeVisits(t) ==
    children' = [children EXCEPT ![ArrayOf(nodeState[t])][best[t].idx].edgeVisits = @ + 1]

VisitAgain(t) ==
    /\ pc[t] = "visitAgain"
    /\ AddEdgeVisits(t)
    /\ uncounted' = uncounted + 1
    /\ Return(t)
    /\ UNCHANGED <<state, nnOutput, stats, childVars, bounds>>
-----------------------------------------------------------------------------
(* A new child. *)

HasRoom(t) == best[t].idx <= Capacity(nodeState[t])

growWithoutClaim(t) ==  \* mutant of maybeExpandChildrenCapacity: no compare and exchange
    /\ pc[t] = "grow" /\ ~HasRoom(t)
    /\ IF nodeState[t] \in {STATE_EXPANDED0, STATE_EXPANDED1}
       THEN /\ GoTo(t, "copy")
            /\ state' = nodeState[t] + 1
            /\ nodeState' = [nodeState EXCEPT ![t] = @ + 1]
            /\ UNCHANGED <<seen, best>>
       ELSE Select(t) /\ UNCHANGED state
    /\ UNCHANGED <<nnOutput, children, stats, childVars, retried, copied,
                   numVisitsCompleted, uncounted, bounds>>

growOrSelectAsBefore(t) ==  \* mutant of maybeExpandChildrenCapacity: state is not read again
    /\ pc[t] = "grow" /\ ~HasRoom(t)
    /\ IF nodeState[t] \in {STATE_EXPANDED0, STATE_EXPANDED1} /\ state = nodeState[t]
       THEN /\ GoTo(t, "copy")
            /\ state' = state + 1
            /\ nodeState' = [nodeState EXCEPT ![t] = state + 1]
            /\ UNCHANGED best
       ELSE /\ GoTo(t, "select")
            /\ best' = [best EXCEPT ![t] = NoBest]
            /\ UNCHANGED <<state, nodeState>>
    /\ UNCHANGED <<nnOutput, children, stats, childVars, seen, retried, copied,
                   numVisitsCompleted, uncounted, bounds>>

(* maybeExpandChildrenCapacityForNewChild.  A thread that does not get to  *)
(* grow a full array, because another does or did, selects again.         *)
maybeExpandChildrenCapacity(t) ==
    /\ pc[t] = "grow" /\ ~HasRoom(t)
    /\ IF nodeState[t] \in {STATE_EXPANDED0, STATE_EXPANDED1} /\ state = nodeState[t]
       THEN /\ GoTo(t, "copy")
            /\ state' = state + 1
            /\ nodeState' = [nodeState EXCEPT ![t] = state + 1]
            /\ UNCHANGED <<seen, best>>
       ELSE Select(t) /\ UNCHANGED state
    /\ UNCHANGED <<nnOutput, children, stats, childVars, retried, copied,
                   numVisitsCompleted, uncounted, bounds>>

CopySlot(t) ==
    LET old == children[ArrayOf(nodeState[t])] IN
    /\ pc[t] = "copy" /\ Len(copied[t]) < Len(old)
    /\ copied' = [copied EXCEPT ![t] = Append(@, old[Len(@) + 1])]
    /\ UNCHANGED <<node, stats, childVars, pc, choice, numVisitsCompleted, uncounted, bounds>>

(* The new array becomes visible, and the state says so. *)
PublishChildren(t) ==
    LET k == ArrayOf(nodeState[t]) IN
    /\ pc[t] = "copy" /\ Len(copied[t]) = Sizes[k]
    /\ children' = [children EXCEPT ![k + 1] =
                       copied[t] \o NewArray(Sizes[k + 1] - Sizes[k])]
    /\ state' = nodeState[t] + 1
    /\ nodeState' = [nodeState EXCEPT ![t] = @ + 1]
    /\ copied' = [copied EXCEPT ![t] = <<>>]
    /\ GoTo(t, "grow")
    /\ UNCHANGED <<nnOutput, stats, childVars, seen, best, retried, numVisitsCompleted,
                   uncounted, bounds>>

AddVirtualLoss(t, n) == virtualLosses' = [virtualLosses EXCEPT ![best[t].move] = @ + n]

allocateOrFindNode(t) ==
    /\ pc[t] = "grow" /\ HasRoom(t)
    /\ AddVirtualLoss(t, 1)
    /\ GoTo(t, "store")
    /\ UNCHANGED <<node, stats, childVisits, choice, copied, numVisitsCompleted,
                   uncounted, bounds>>

StoreOver(t) ==  \* mutant of StoreChild: the slot is not looked at
    /\ pc[t] = "store"
    /\ children' = [children EXCEPT ![ArrayOf(nodeState[t])][best[t].idx].move = best[t].move]
    /\ GoTo(t, "descend")
    /\ UNCHANGED <<state, nnOutput, stats, childVars, choice, copied,
                   numVisitsCompleted, uncounted, bounds>>

StoreKeepingLoss(t) ==  \* mutant of StoreChild: the loser's virtual loss stays
    LET k == ArrayOf(nodeState[t]) i == best[t].idx IN
    /\ pc[t] = "store"
    /\ \/ /\ children[k][i].move = NULL
          /\ children' = [children EXCEPT ![k][i].move = best[t].move]
          /\ GoTo(t, "descend")
          /\ UNCHANGED <<choice, copied, numVisitsCompleted>>
       \/ /\ children[k][i].move # NULL
          /\ Return(t)
          /\ UNCHANGED children
    /\ UNCHANGED <<state, nnOutput, stats, childVars, uncounted, bounds>>

(* Under the node's mutex: the first to come gets the slot. *)
StoreChild(t) ==
    LET k == ArrayOf(nodeState[t]) i == best[t].idx IN
    /\ pc[t] = "store"
    /\ \/ /\ children[k][i].move = NULL
          /\ children' = [children EXCEPT ![k][i].move = best[t].move]
          /\ GoTo(t, "descend")
          /\ UNCHANGED <<choice, copied, numVisitsCompleted, virtualLosses>>
       \/ /\ children[k][i].move # NULL
          /\ AddVirtualLoss(t, -1)
          /\ Return(t)
          /\ UNCHANGED children
    /\ UNCHANGED <<state, nnOutput, stats, childVisits, uncounted, bounds>>
-----------------------------------------------------------------------------
(* Down to the child, new or not, and back. *)

ReuseChild(t) ==
    /\ pc[t] = "reuse"
    /\ AddVirtualLoss(t, 1)
    /\ GoTo(t, "descend")
    /\ UNCHANGED <<node, stats, childVisits, choice, copied, numVisitsCompleted,
                   uncounted, bounds>>

(* A child with more visits than the edge to it need not be descended to. *)
maybeCatchUpEdgeVisits(t) ==
    /\ pc[t] = "descend"
    /\ ChosenEdge(t) < childVisits[best[t].move]
    /\ AddEdgeVisits(t)
    /\ GoTo(t, "update")
    /\ UNCHANGED <<state, nnOutput, stats, childVars, choice, copied,
                   numVisitsCompleted, uncounted, bounds>>

(* Otherwise, and with some probability all the same, the playout goes on  *)
(* from the child, unless that is on its path already.  It visits the      *)
(* child, which has that visit or has one already (its own visit came from *)
(* VisitAgain, or is stored by another thread later), or fails.           *)
Descend(t) ==
    /\ pc[t] = "descend"
    /\ \/ /\ AddEdgeVisits(t)
          /\ GoTo(t, "update")
          /\ UNCHANGED <<childVars, choice, copied, numVisitsCompleted>>
       \/ /\ \E n \in 0..1 : /\ childVisits[best[t].move] + n > 0
                           /\ childVisits' = [childVisits EXCEPT ![best[t].move] = @ + n]
          /\ GoTo(t, "reload")
          /\ UNCHANGED <<children, virtualLosses, choice, copied, numVisitsCompleted>>
       \/ /\ AddVirtualLoss(t, -1)
          /\ Return(t)
          /\ UNCHANGED <<children, childVisits>>
    /\ UNCHANGED <<state, nnOutput, stats, uncounted, bounds>>

ReloadState(t) ==
    /\ pc[t] = "reload"
    /\ nodeState' = [nodeState EXCEPT ![t] = state]
    /\ GoTo(t, "count")
    /\ UNCHANGED <<node, stats, childVars, seen, best, retried, copied,
                   numVisitsCompleted, uncounted, bounds>>

CountVisit(t) ==
    /\ pc[t] = "count"
    /\ AddEdgeVisits(t)
    /\ GoTo(t, "update")
    /\ UNCHANGED <<state, nnOutput, stats, childVars, choice, copied,
                   numVisitsCompleted, uncounted, bounds>>

ReleaseChild(t) ==
    /\ pc[t] = "release"
    /\ AddVirtualLoss(t, -1)
    /\ Return(t)
    /\ UNCHANGED <<node, stats, childVisits, uncounted, bounds>>
-----------------------------------------------------------------------------
(* updateStatsAfterPlayout: a thread that finds the counter at 0 recomputes *)
(* the statistics, for itself and for all that come while it does.         *)

Completed(t, n) == numVisitsCompleted' = [numVisitsCompleted EXCEPT ![t] = n]

updateUnlessBusy(t) ==  \* mutant of updateStatsAfterPlayout: a busy node is not told
    /\ pc[t] = "update"
    /\ IF dirtyCounter > 0
       THEN GoTo(t, "release") /\ UNCHANGED <<dirtyCounter, numVisitsCompleted>>
       ELSE dirtyCounter' = 1 /\ GoTo(t, "recompute") /\ Completed(t, 1)
    /\ UNCHANGED <<node, visits, childWeights, childVars, choice, copied, uncounted, bounds>>

updateStatsAfterPlayout(t) ==
    /\ pc[t] = "update"
    /\ dirtyCounter' = dirtyCounter + 1
    /\ IF dirtyCounter > 0
       THEN GoTo(t, "release") /\ UNCHANGED numVisitsCompleted
       ELSE GoTo(t, "recompute") /\ Completed(t, 1)
    /\ UNCHANGED <<node, visits, childWeights, childVars, choice, copied, uncounted, bounds>>

(* recomputeNodeStats.  The children are read one by one, in the state that *)
(* the thread now sees.  statsBuf is childWeights already: its owner is the *)
(* only one to compute, and nobody reads the weights meanwhile.           *)
getChildren(t) ==
    /\ pc[t] = "recompute"
    /\ nodeState' = [nodeState EXCEPT ![t] = state]
    /\ childWeights' = <<>>
    /\ GoTo(t, "read")
    /\ UNCHANGED <<node, visits, dirtyCounter, childVars, seen, best, retried, copied,
                   numVisitsCompleted, uncounted, bounds>>

NextChild(t) == children[ArrayOf(nodeState[t])][Len(childWeights) + 1]
AllRead(t) == Len(childWeights) < Capacity(nodeState[t]) => NextChild(t).move = NULL

ReadChild(t) ==
    /\ pc[t] = "read" /\ ~AllRead(t)
    /\ childWeights' = Append(childWeights, NextChild(t).edgeVisits)
    /\ UNCHANGED <<node, visits, dirtyCounter, childVars, locals, uncounted, bounds>>

recomputeNodeStats(t) ==
    /\ pc[t] = "read" /\ AllRead(t)
    /\ visits' = visits + numVisitsCompleted[t]
    /\ GoTo(t, "undo")
    /\ UNCHANGED <<node, childWeights, dirtyCounter, childVars, choice, copied,
                   numVisitsCompleted, uncounted, bounds>>

UndoDirty(t) ==
    LET newDirtyCounter == dirtyCounter - numVisitsCompleted[t] IN
    /\ pc[t] = "undo"
    /\ dirtyCounter' = newDirtyCounter
    /\ Completed(t, newDirtyCounter)
    /\ GoTo(t, IF newDirtyCounter <= 0 THEN "release" ELSE "recompute")
    /\ UNCHANGED <<node, visits, childWeights, childVars, choice, copied, uncounted, bounds>>
-----------------------------------------------------------------------------
(* A playout that reaches the child of move m from another node. *)
VisitFromElsewhere(m) ==
    /\ elsewhere < MaxElsewhere
    /\ elsewhere' = elsewhere + 1
    /\ childVisits' = [childVisits EXCEPT ![m] = @ + 1]
    /\ UNCHANGED <<node, stats, virtualLosses, locals, uncounted, begun>>

Evaluate(t) == \/ storeNNOutputIfNull(t) \/ addLeafValue(t) \/ ClaimEvaluation(t)
               \/ initializeChildren(t) \/ Expand0(t)
SelectChild(t) == \/ SeeChild(t) \/ selectBestChildToDescend(t) \/ SelectNothing(t)
                  \/ ReInit(t) \/ VisitAgain(t)
AddChild(t) == \/ maybeExpandChildrenCapacity(t) \/ CopySlot(t) \/ PublishChildren(t)
               \/ allocateOrFindNode(t) \/ StoreChild(t)
VisitChild(t) == \/ ReuseChild(t) \/ maybeCatchUpEdgeVisits(t) \/ Descend(t)
                 \/ ReloadState(t) \/ CountVisit(t) \/ ReleaseChild(t)
UpdateStats(t) == \/ updateStatsAfterPlayout(t) \/ getChildren(t) \/ ReadChild(t)
                  \/ recomputeNodeStats(t) \/ UndoDirty(t)

Playout(t) == \/ Evaluate(t) \/ SelectChild(t) \/ AddChild(t) \/ VisitChild(t)
              \/ UpdateStats(t)

Next == \/ \E t \in Threads : playoutDescend(t) \/ Playout(t)
        \/ \E m \in Shared : VisitFromElsewhere(m)

Spec == Init /\ [][Next]_vars
FairSpec == Spec /\ \A t \in Threads : WF_vars(Playout(t))
-----------------------------------------------------------------------------
Steps == {"idle", "initNodeNNOutput", "addLeafValue", "claim", "initializeChildren",
          "expand0", "select", "reInit", "visitAgain", "grow", "copy", "store", "reuse",
          "descend", "reload", "count", "update", "recompute", "read", "undo", "release"}
Slots == [move : Moves \cup {NULL}, edgeVisits : Nat]

(* Every variable has its type; the counters never go below zero. *)
TypeOK ==
    /\ state \in STATE_UNEVALUATED..STATE_EXPANDED2 /\ nnOutput \in BOOLEAN
    /\ children \in [1..3 -> Seq(Slots)]
    /\ \A k \in 1..3 : Len(children[k]) \in {0, Sizes[k]}
    /\ visits \in Nat /\ dirtyCounter \in Nat /\ childWeights \in Seq(Nat)
    /\ childVisits \in [Moves -> Nat] /\ virtualLosses \in [Moves -> Nat]
    /\ pc \in [Threads -> Steps]
    /\ nodeState \in [Threads -> STATE_UNEVALUATED..STATE_EXPANDED2]
    /\ seen \in [Threads -> Seq(Moves)]
    /\ best \in [Threads -> [idx : 0..CHILDREN2SIZE, move : Moves \cup {NULL}]]
    /\ retried \in [Threads -> BOOLEAN]
    /\ copied \in [Threads -> Seq(Slots)]
    /\ numVisitsCompleted \in [Threads -> Nat]
    /\ uncounted \in Nat /\ begun \in Nat /\ elsewhere \in Nat

(* What a state promises is there before the state is: once EXPANDED0 the  *)
(* output, the first visit and the first array, and with each later state  *)
(* the array it names.  So no thread that selects meets a NULL.            *)
PublishedIsReady ==
    /\ state >= STATE_EXPANDED0 => nnOutput /\ visits >= 1
    /\ \A s \in {state} \cup {nodeState[t] : t \in Threads} :
          s >= STATE_EXPANDED0 => \A k \in 1..ArrayOf(s) : Len(children[k]) = Sizes[k]

Filled(k) == {i \in 1..Len(children[k]) : children[k][i].move # NULL}
EdgeVisits(k) == [i \in 1..Cardinality(Filled(k)) |-> children[k][i].edgeVisits]

(* A child is in the node once: the children fill each array from its      *)
(* first slot on, with a move each, and a later array begins with those of *)
(* a full earlier one, although threads select, insert and copy without a  *)
(* common lock.  The assertions on NULL and equal children rest on this,   *)
(* and the one that the probabilities visited sum to no more than 1.       *)
ChildrenAgree ==
    \A k \in 1..3 :
        /\ Filled(k) = 1..Cardinality(Filled(k))
        /\ \A i, j \in Filled(k) : children[k][i].move = children[k][j].move => i = j
        /\ k < 3 /\ children[k + 1] # <<>> =>
             \A i \in 1..Sizes[k] : /\ children[k][i].move # NULL
                                    /\ children[k][i].move = children[k + 1][i].move

(* A child has one virtual loss for each thread that is on its way through *)
(* it or about to give it up: none is left when the search ends, which     *)
(* recursivelyRecomputeStats asserts.                                     *)
OnTheWay == {"store", "descend", "reload", "count", "update", "recompute", "read", "undo",
             "release"}
VirtualLossesBalance ==
    \A m \in Moves :
        virtualLosses[m] = Cardinality({t \in Threads : pc[t] \in OnTheWay
                                                        /\ best[t].move = m})

(* The dirty counter lets one thread at a time recompute, and loses nobody: *)
(* when no thread is in the node its statistics have been computed from    *)
(* every edge visit, and it has a visit for each and one of its own.  Two  *)
(* things may differ, and the code says so: visits lost to growth make the *)
(* statistics larger, those of VisitAgain make them smaller.              *)
Total(s) == FoldSeq(LAMBDA x, y : x + y, 0, s)
Recomputing == {t \in Threads : pc[t] \in {"recompute", "read", "undo"}}
EdgesNow == EdgeVisits(ArrayOf(state))
Missed == [i \in 1..Len(EdgesNow) |->
              LET w == IF i <= Len(childWeights) THEN childWeights[i] ELSE 0
              IN IF EdgesNow[i] > w THEN EdgesNow[i] - w ELSE 0]
StatsAreUpToDate ==
    /\ Cardinality(Recomputing) = IF dirtyCounter > 0 THEN 1 ELSE 0
    /\ (\A t \in Threads : pc[t] = "idle") /\ state >= STATE_EXPANDED0 =>
           /\ Total(EdgesNow) + 1 <= visits + uncounted
           /\ Total(Missed) <= uncounted

(* The node is a list of distinct children that only grows: no child moves *)
(* or disappears, whichever array a thread looks at.                      *)
List == INSTANCE ChildList WITH
            evaluated <- state >= STATE_EXPANDED0,
            list <- [i \in 1..Len(EdgesNow) |-> children[ArrayOf(state)][i].move]
IsChildList == List!Spec

(* A playout leaves the node, so a thread is out of it again and again: one *)
(* that may not grow the array is not kept selecting for ever, nor one     *)
(* that recomputes for the others.                                        *)
PlayoutReturns == \A t \in Threads : []<>(pc[t] = "idle")
=============================================================================
