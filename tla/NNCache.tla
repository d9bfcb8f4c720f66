------------------------------ MODULE NNCache ------------------------------
(***************************************************************************)
(* The cache of the neural net evaluator: NNEvaluator::evaluate up to the  *)
(* queue and after it, and NNCacheTable (neuralnet/nneval.cpp), with the   *)
(* hash of NNInputs::getHash (nninputs.cpp).  The way of a row through     *)
(* the queue and the server threads is the subject of NNEvaluator; here a  *)
(* server answers at some time.                                            *)
(*                                                                         *)
(* NNOutputs are objects on the heap, shared by the table and the clients  *)
(* through shared pointers: an object is free again when nobody points to  *)
(* it.  Of an output there are its hash, the moves that have a probability *)
(* (those of illegal moves are set to -1), the evaluation that the rest    *)
(* comes from, and the state of its owner map.  Two evaluations of a       *)
(* position differ, by the symmetry that the server applies.               *)
(***************************************************************************)
EXTENDS CoffeeBoard, FiniteSetsExt

CONSTANTS Client,
          Position,         \* what clients ask for: boards of games, with the player to move
          Evaluation,       \* bound: how many ways an evaluation may come out
          tableSize,        \* of the NNCacheTable; 0: nnCacheTable == NULL
          index(_),         \* the entry of a hash
          MaySkip,          \* bound: what may be asked for past the cache
          NULL

\* As many as can be pointed to at once.
Object == 1..2 * Cardinality(Client) + tableSize
Entry  == 0..tableSize - 1

\* NNInputs::getHash: the stones, the player and whether the game is over.
getHash(p) == <<p.board.pos_hash, p.pla, p.isGameFinished>>
getHashEntry(p) == index(getHash(p))

\* The boards are those of games: pos_hash is of the stones on them.
ASSUME CacheAssumption ==
    /\ Position \subseteq [board : Boards, pla : Players, isGameFinished : BOOLEAN]
    /\ \A p \in Position : checkConsistency(p.board)
    /\ tableSize > 0 => \A p \in Position : getHashEntry(p) \in Entry
    /\ tableSize \in Nat /\ IsFiniteSet(Client)
    /\ NULL \notin Evaluation \cup Object

LegalMoves(p) == {loc \in Locs : isLegal(p.board, loc, p.pla)}

VARIABLES
    heap,                   \* the outputs
    entries,                \* of the table
    pc, asked,              \* of a client: what it asks for
    result,                 \* buf.result
    resultWithoutOwnerMap,
    found                   \* history variable: the evaluation found without an owner map

clientVars == <<pc, asked, result, resultWithoutOwnerMap, found>>
cacheVars == <<heap, entries, clientVars>>

Ask == [position : Position, includeOwnerMap : BOOLEAN]
NewOutput == [nnHash |-> NULL, moves |-> NULL, evaluation |-> NULL, ownerMap |-> "none"]

CacheInit ==
    /\ heap = [o \in Object |-> NewOutput]
    /\ entries = [i \in Entry |-> NULL]
    /\ pc = [c \in Client |-> "idle"]
    /\ asked = [c \in Client |-> NULL]
    /\ result = [c \in Client |-> NULL]
    /\ resultWithoutOwnerMap = [c \in Client |-> NULL]
    /\ found = [c \in Client |-> NULL]

InUse(o) ==
    \/ \E i \in Entry : entries[i] = o
    \/ \E c \in Client : o \in {result[c], resultWithoutOwnerMap[c]}

\* The objects that nobody points to after a step are deleted.
DeleteUnused(h) ==
    heap' = [o \in Object |->
               IF \/ \E i \in Entry : entries'[i] = o
                  \/ \E c \in Client : o \in {result'[c], resultWithoutOwnerMap'[c]}
               THEN h[o] ELSE NewOutput]

Goto(c, next) == pc' = [pc EXCEPT ![c] = next]

-----------------------------------------------------------------------------
\* NNCacheTable::get.
Cached(p) ==
    LET o == IF tableSize = 0 THEN NULL ELSE entries[getHashEntry(p)]
    IN  IF o # NULL /\ heap[o].nnHash = getHash(p) THEN o ELSE NULL

\* evaluate up to the queue.  A result with all that is asked for is returned
\* as it is.  Without the cache the old buf.result stays where it is.  The
\* search skips it for the further symmetries of its root (searchnnhelpers.cpp:74).
evaluate(c) ==
    /\ pc[c] = "idle"
    /\ \E a \in Ask, skipCache \in BOOLEAN :
         /\ skipCache => a \in MaySkip
         /\ LET hit == IF skipCache THEN NULL ELSE Cached(a.position)
                complete == hit # NULL /\ ~(a.includeOwnerMap /\ heap[hit].ownerMap = "none")
            IN  /\ asked' = [asked EXCEPT ![c] = a]
                /\ Goto(c, IF complete THEN "idle" ELSE "wait")
                /\ result' = [result EXCEPT ![c] = IF complete THEN hit
                                                   ELSE IF skipCache \/ tableSize = 0 THEN @
                                                   ELSE NULL]
                /\ resultWithoutOwnerMap' =
                     [resultWithoutOwnerMap EXCEPT ![c] = IF complete THEN NULL ELSE hit]
                /\ found' = [found EXCEPT ![c] = IF complete \/ hit = NULL THEN NULL
                                                 ELSE heap[hit].evaluation]
    /\ UNCHANGED entries
    /\ DeleteUnused(heap)

\* mutant of ServerAnswers: the output that lacks the owner map is completed
ServerAnswersInPlace(c) ==
    /\ pc[c] = "wait"
    /\ LET old == resultWithoutOwnerMap[c]
           o == IF old # NULL THEN old ELSE Min({x \in Object : ~InUse(x)})
       IN  /\ result' = [result EXCEPT ![c] = o]
           /\ UNCHANGED <<entries, asked, resultWithoutOwnerMap, found>>
           /\ \E e \in Evaluation :
                DeleteUnused([heap EXCEPT ![o].evaluation = e,
                                          ![o].ownerMap = IF asked[c].includeOwnerMap
                                                          THEN "raw" ELSE "none"])
    /\ Goto(c, "postprocess")

\* A server makes a new output and points buf.result to it.
ServerAnswers(c) ==
    /\ pc[c] = "wait"
    /\ LET o == Min({x \in Object : ~InUse(x)})
       IN  /\ result' = [result EXCEPT ![c] = o]
           /\ UNCHANGED <<entries, asked, resultWithoutOwnerMap, found>>
           /\ \E e \in Evaluation :
                DeleteUnused([heap EXCEPT ![o] =
                  [NewOutput EXCEPT !.evaluation = e,
                                    !.ownerMap = IF asked[c].includeOwnerMap THEN "raw" ELSE "none"]])
    /\ Goto(c, "postprocess")

\* mutant of Postprocesses: the new probabilities come with the new owner map
PostprocessesAnew(c) ==
    /\ pc[c] = "postprocess"
    /\ LET out == heap[result[c]]
       IN  heap' = [heap EXCEPT ![result[c]] =
                      [out EXCEPT !.moves = LegalMoves(asked[c].position),
                                  !.ownerMap = IF @ = "raw" THEN "white" ELSE @]]
    /\ Goto(c, "set")
    /\ UNCHANGED <<entries, asked, result, resultWithoutOwnerMap, found>>

\* What only lacked the owner map keeps its probabilities.
Postprocesses(c) ==
    /\ pc[c] = "postprocess"
    /\ LET old == resultWithoutOwnerMap[c]
           out == heap[result[c]]
       IN  heap' = [heap EXCEPT ![result[c]] =
                      [out EXCEPT
                         !.moves = IF old # NULL THEN heap[old].moves
                                   ELSE LegalMoves(asked[c].position),
                         !.evaluation = IF old # NULL THEN heap[old].evaluation ELSE @,
                         !.ownerMap = IF @ = "raw" THEN "white" ELSE @]]
    /\ Goto(c, "set")
    /\ UNCHANGED <<entries, asked, result, resultWithoutOwnerMap, found>>

\* The hash is recorded and NNCacheTable::set swaps the pointer in.
Sets(c) ==
    /\ pc[c] = "set"
    /\ entries' = IF tableSize = 0 THEN entries
                  ELSE [entries EXCEPT ![getHashEntry(asked[c].position)] = result[c]]
    /\ resultWithoutOwnerMap' = [resultWithoutOwnerMap EXCEPT ![c] = NULL]
    /\ UNCHANGED <<asked, result, found>>
    /\ DeleteUnused([heap EXCEPT ![result[c]].nnHash = getHash(asked[c].position)])
    /\ Goto(c, "idle")

\* evaluate throws: the board is too large or the buffer one of other
\* dimensions (which is seen after the lookup), or the policy or the value is
\* not finite, which is seen only where they are computed.  The caller's
\* buffer goes with it: a local variable, or the SearchThread's, deleted at
\* search.cpp:493.
Throws(c) ==
    /\ \/ pc[c] = "idle"
       \/ pc[c] = "postprocess" /\ resultWithoutOwnerMap[c] = NULL
    /\ result' = [result EXCEPT ![c] = NULL]
    /\ asked' = [asked EXCEPT ![c] = NULL]
    /\ resultWithoutOwnerMap' = [resultWithoutOwnerMap EXCEPT ![c] = NULL]
    /\ found' = [found EXCEPT ![c] = NULL]
    /\ UNCHANGED entries
    /\ DeleteUnused(heap)
    /\ Goto(c, "idle")

\* NNCacheTable::clear empties one entry after the other.
clear ==
    /\ \E i \in Entry : entries[i] # NULL /\ entries' = [entries EXCEPT ![i] = NULL]
    /\ UNCHANGED clientVars
    /\ DeleteUnused(heap)

CacheNext ==
    \/ clear
    \/ \E c \in Client :
         evaluate(c) \/ ServerAnswers(c) \/ Postprocesses(c) \/ Sets(c) \/ Throws(c)

CacheSpec == CacheInit /\ [][CacheNext]_cacheVars

-----------------------------------------------------------------------------
OutputType ==
    [nnHash : {NULL} \cup {getHash(p) : p \in Position}, moves : {NULL} \cup SUBSET Locs,
     evaluation : {NULL} \cup Evaluation, ownerMap : {"none", "raw", "white"}]

HasReturned(c) == pc[c] = "idle" /\ asked[c] # NULL

\* What evaluate returns is for the hash that was asked for and complete: it
\* is postprocessed, with an owner map if one was asked for, and where only
\* that was missing it is still the evaluation that was found.  Its moves
\* are to empty cells with another one in line, though the line of the last
\* move is not in the hash.  This holds while other clients set, upgrade and
\* evict entries.
ResultIsWhatWasAsked ==
    \A c \in Client : HasReturned(c) =>
        LET out == heap[result[c]]
            p   == asked[c].position
        IN  /\ out \in OutputType /\ out.nnHash = getHash(p)
            /\ asked[c].includeOwnerMap => out.ownerMap = "white"
            /\ found[c] # NULL => out.evaluation = found[c]
            /\ out.ownerMap # "raw"
            /\ \A loc \in out.moves :
                 isLegal([p.board EXCEPT !.lastLoc = NoLoc], loc, p.pla)

\* An output that several threads may read, because it is in the table or has
\* been returned, is never changed any more.
Published(o) ==
    (\E i \in Entry : entries[i] = o) \/ (\E c \in Client : HasReturned(c) /\ result[c] = o)

PublishedIsFinal ==
    [][\A o \in Object : Published(o) /\ Published(o)' => heap'[o] = heap[o]]_cacheVars

\* What nninputs.h says of policyProbs ("Values in here will be set to
\* negative for illegal moves"), and what graphhash.h says of the state hash
\* that the cache uses too ("taking into account all state relevant for move
\* legality"): the moves of a result are the legal moves of the position.
PolicyIsForLegalMoves ==
    \A c \in Client : HasReturned(c) =>
        heap[result[c]].moves = LegalMoves(asked[c].position)
=============================================================================
