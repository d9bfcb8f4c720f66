---------------------------- MODULE BoardHistory ----------------------------
(***************************************************************************)
(* A game: the board a driver plays on, the BoardHistory it keeps with it  *)
(* (src/cpp/game/boardhistory.h and .cpp), and whose turn the driver says  *)
(* it is.  Drivers are the self-play loop, the replays of recorded games   *)
(* and Search::makeMove; they record a move with makeBoardMove, which      *)
(* checks it, or with makeBoardMoveAssumeLegal after checking it.          *)
(***************************************************************************)
EXTENDS CoffeeBoard, Sequences

CONSTANTS NUM_RECENT_BOARDS,  (* length of the ring of recent boards *)
          MaxStones,          (* bound: no move on a board with so many *)
          MaxClears           (* bound: how often a history is cleared *)

ASSUME HistoryAssumption ==
    /\ NUM_RECENT_BOARDS \in Nat \ {0}
    /\ MaxStones \in Nat
    /\ MaxClears \in Nat

VARIABLES
    board,                (* the board passed by reference to every call *)
    nextPla,              (* the driver's player to move *)
    initialBoard, moveHistory, recentBoards, currentRecentBoardIdx,
    presumedNextMovePla, numTurns, isGameFinished, winner, isResignation,
    past,                 (* history variable: the boards since clear, latest last *)
    clears                (* bound counter *)

histVars == <<initialBoard, moveHistory, recentBoards, currentRecentBoardIdx,
              presumedNextMovePla, numTurns, isGameFinished, winner, isResignation>>
vars == <<board, nextPla, histVars, past, clears>>

Moves == [loc : Locs, pla : Players]
RingIdx == 0..NUM_RECENT_BOARDS-1

getLaterBoard(numMovesAgo) ==  \* mutant of getRecentBoard: + for -
    recentBoards[(currentRecentBoardIdx + numMovesAgo) % NUM_RECENT_BOARDS]

(* The board so many moves ago; 1 is the board the last move was played on *)
(* for Search::allocateOrFindNode and PatternBonusTable.                   *)
getRecentBoard(numMovesAgo) ==
    recentBoards[(currentRecentBoardIdx - numMovesAgo + NUM_RECENT_BOARDS)
                    % NUM_RECENT_BOARDS]
NextIdx(k) == (currentRecentBoardIdx + k) % NUM_RECENT_BOARDS
-----------------------------------------------------------------------------
(* A new history: black moves first on an empty board. *)
Init ==
    /\ board = EmptyBoard
    /\ nextPla = C_BLACK
    /\ initialBoard = board
    /\ moveHistory = <<>>
    /\ recentBoards = [i \in RingIdx |-> board]
    /\ currentRecentBoardIdx = 0
    /\ presumedNextMovePla = nextPla
    /\ numTurns = 0
    /\ isGameFinished = FALSE
    /\ winner = C_EMPTY
    /\ isResignation = FALSE
    /\ past = <<board>>
    /\ clears = 0

ClearOneSlot(b, pla) ==  \* mutant of ClearWith: fills one slot of the ring
    /\ initialBoard' = b
    /\ moveHistory' = <<>>
    /\ recentBoards' = [recentBoards EXCEPT ![0] = b]
    /\ currentRecentBoardIdx' = 0
    /\ presumedNextMovePla' = pla
    /\ numTurns' = 0
    /\ isGameFinished' = FALSE
    /\ winner' = C_EMPTY
    /\ isResignation' = FALSE
    /\ past' = <<b>>

(* clear(b, pla) *)
ClearWith(b, pla) ==
    /\ initialBoard' = b
    /\ moveHistory' = <<>>
    /\ recentBoards' = [i \in RingIdx |-> b]
    /\ currentRecentBoardIdx' = 0
    /\ presumedNextMovePla' = pla
    /\ numTurns' = 0
    /\ isGameFinished' = FALSE
    /\ winner' = C_EMPTY
    /\ isResignation' = FALSE
    /\ past' = <<b>>

(* The driver starts a new history from its board. *)
Clear(pla) ==
    /\ clears < MaxClears
    /\ clears' = clears + 1
    /\ nextPla' = pla
    /\ ClearWith(board, pla)
    /\ UNCHANGED board

(* What both ways of recording a move do; `pushes` says how many times the *)
(* new board goes into the ring.                                          *)
PlayAndPush(loc, pushes) ==
    LET b == playMoveAssumeLegal(board, loc, nextPla) IN
       /\ board' = b
       /\ recentBoards' = [i \in RingIdx |->
             IF \E k \in 1..pushes : i = NextIdx(k) THEN b ELSE recentBoards[i]]
       /\ currentRecentBoardIdx' = NextIdx(pushes)
       /\ numTurns' = numTurns + 1
       /\ isGameFinished' = checkGameEnd(b)
       /\ winner' = IF checkGameEnd(b) THEN nextPla ELSE C_EMPTY
       /\ isResignation' = FALSE
       /\ nextPla' = getOpp(nextPla)
       /\ past' = Append(past, b)
       /\ UNCHANGED <<initialBoard, clears>>

makeBoardMoveAssumeLegal(loc) ==
    /\ isLegal(board, loc, nextPla)
    /\ Cardinality(Stones(board)) < MaxStones
    /\ PlayAndPush(loc, 1)
    /\ UNCHANGED <<moveHistory, presumedNextMovePla>>

(* A move that is not legal throws and changes nothing. *)
makeBoardMove(loc) ==
    /\ isLegal(board, loc, nextPla)
    /\ Cardinality(Stones(board)) < MaxStones
    /\ PlayAndPush(loc, 2)
    /\ moveHistory' = Append(moveHistory, [loc |-> loc, pla |-> nextPla])
    /\ presumedNextMovePla' = getOpp(nextPla)

setWinnerByResignation(pla) ==
    /\ isGameFinished' = TRUE
    /\ isResignation' = TRUE
    /\ winner' = pla
    /\ UNCHANGED <<board, nextPla, initialBoard, moveHistory, recentBoards,
                   currentRecentBoardIdx, presumedNextMovePla, numTurns, past, clears>>

Next ==
    \/ \E pla \in Players : Clear(pla)
    \/ \E loc \in Locs : makeBoardMoveAssumeLegal(loc)
    \/ \E loc \in Locs : makeBoardMove(loc)
    \/ \E pla \in Players : setWinnerByResignation(pla)

Spec == Init /\ [][Next]_vars

(* A driver may go on with a copy made by the copy constructor             *)
(* (SearchThread, getGraphHashFromScratch), whose win_len is whatever the  *)
(* memory held.                                                            *)
Copy == /\ board' \in copiesOf(board, 0..WinLen + 1)
        /\ UNCHANGED <<nextPla, histVars, past, clears>>

CopySpec == Init /\ [][Next \/ Copy]_vars
-----------------------------------------------------------------------------
(* The rules in coordinates, the reference the walks over the array are    *)
(* compared with.                                                         *)

Cells == (0..XSize-1) \X (0..YSize-1)
ColorAt(b, c) == b.colors[getSpot(c[1], c[2])]
Step(d) == CASE d = D_NORTH     -> <<0, -1>>
             [] d = D_WEST      -> <<-1, 0>>
             [] d = D_NORTHWEST -> <<-1, -1>>
             [] d = D_NORTHEAST -> <<1, -1>>
OnLine(c, d, e) == (e[1] - c[1]) * Step(d)[2] = (e[2] - c[2]) * Step(d)[1]
OtherEmptyOnLine(b, c, d) ==
    \E e \in Cells \ {c} : OnLine(c, d, e) /\ ColorAt(b, e) = C_EMPTY

OnLastLine(b, spot) ==
    b.lastLoc # NoLoc =>
        \E c, e \in Cells : /\ getSpot(c[1], c[2]) = b.lastLoc.spot
                            /\ getSpot(e[1], e[2]) = spot
                            /\ OnLine(c, b.lastLoc.dir, e)

LegalByTheRules(b, c, d) ==
    /\ ColorAt(b, c) = C_EMPTY
    /\ OnLastLine(b, getSpot(c[1], c[2]))
    /\ OtherEmptyOnLine(b, c, d)

RowOfColor(b, c, d, len, color) ==
    \E start \in -len..0 :
        \A k \in start..start + len - 1 :
            LET e == <<c[1] + k * Step(d)[1], c[2] + k * Step(d)[2]>>
            IN e \in Cells /\ ColorAt(b, e) = color
-----------------------------------------------------------------------------
(* Every variable has its type; the board of the driver keeps its length   *)
(* to win.                                                                *)
TypeOK ==
    /\ board \in Boards /\ board.win_len = WinLen
    /\ initialBoard \in Boards
    /\ recentBoards \in [RingIdx -> Boards]
    /\ currentRecentBoardIdx \in RingIdx
    /\ moveHistory \in Seq(Moves)
    /\ nextPla \in Players /\ presumedNextMovePla \in Players
    /\ numTurns \in Nat
    /\ isGameFinished \in BOOLEAN /\ isResignation \in BOOLEAN
    /\ winner \in Players \cup {C_EMPTY}

(* The position hash that every move updates incrementally is the hash     *)
(* recomputed from the stones, and the wall is where it was: the call of   *)
(* rootBoard.checkConsistency() in Search::beginSearch does not throw.     *)
BoardConsistent == TypeOK /\ checkConsistency(board)

(* A player may only choose a direction that leaves the opponent an empty  *)
(* cell on the line, so whoever is to move has a cell to put a stone on.   *)
LastLineHasRoom ==
    board.lastLoc # NoLoc =>
        \E c \in Cells : /\ getSpot(c[1], c[2]) = board.lastLoc.spot
                         /\ OtherEmptyOnLine(board, c, board.lastLoc.dir)

(* isLegal, which walks offsets in an array with one shared wall column,   *)
(* accepts exactly the moves that the rules in coordinates accept, in      *)
(* every position a game leads to.                                         *)
LegalAgreesWithRules ==
    /\ \A c \in Cells, d \in Directions :
          isLegal(board, [spot |-> getSpot(c[1], c[2]), dir |-> d], nextPla)
              <=> LegalByTheRules(board, c, d)
    /\ LastLineHasRoom

(* After a move the game is over, without a resignation, exactly when the  *)
(* stone just played is in a row of WinLen stones of the player who moved, *)
(* and that player is the winner.                                         *)
FinishedIffRow ==
    (numTurns > 0 /\ ~isResignation) =>
        LET mover == getOpp(nextPla)
            row == \E c \in Cells, d \in Directions :
                      /\ getSpot(c[1], c[2]) = board.lastLoc.spot
                      /\ RowOfColor(board, c, d, WinLen, mover)
        IN /\ isGameFinished <=> row
           /\ winner = IF row THEN mover ELSE C_EMPTY

(* The board k places back in the ring is the board k moves ago, or the    *)
(* one the history began with: "0 is the current board, 1 is 1 move ago,   *)
(* etc" (boardhistory.h:53).                                               *)
RecentBoardsAreMovesAgo ==
    \A k \in RingIdx :
        getRecentBoard(k) = IF k < Len(past) THEN past[Len(past) - k] ELSE initialBoard

(* As long as every move is recorded with makeBoardMoveAssumeLegal, as the *)
(* search records them, the ring holds the boards of so many moves ago,    *)
(* through its wrap and the clearing of a history; and however they are    *)
(* recorded, the latest board of the ring is the board of the game.        *)
AssumedLegalMovesAreRecent ==
    /\ getRecentBoard(0) = board
    /\ moveHistory = <<>> => RecentBoardsAreMovesAgo
=============================================================================
