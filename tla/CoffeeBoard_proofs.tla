------------------------- MODULE CoffeeBoard_proofs -------------------------
(***************************************************************************)
(* What is proved of the two components that share the board of Coffee     *)
(* (CoffeeBoard): the game, BoardHistory, and the cache of the evaluator,  *)
(* NNCache.                                                                *)
(***************************************************************************)
EXTENDS BoardHistory, NNCache, FiniteSetTheorems, TLAPS

-----------------------------------------------------------------------------
(***************************************************************************)
(* What holds of a game on a board of any size, with a ring of any length: *)
(* the board and its history are consistent, and what the code computes by *)
(* walking over its array is what the rules say in coordinates.            *)
(***************************************************************************)

\* The cells of the board lie inside of the padded array, none at NULL_LOC.
LEMMA SpotsAreInside == Spots \subseteq 1..ArrSize-1
<1> SUFFICES ASSUME NEW x \in 0..XSize-1, NEW y \in 0..YSize-1
             PROVE  getSpot(x, y) \in 1..ArrSize-1
    BY DEF Spots
<1> DEFINE w == XSize + 1
<1>1. w \in Nat /\ w > 0 /\ x + 1 < w /\ y + 1 \in 1..YSize BY BoardAssumption
<1> DEFINE k == YSize - (y + 1)
<1>2. k \in Nat /\ YSize = (y + 1) + k BY <1>1, BoardAssumption
<1>3. w * (YSize + 2) = (y + 1) * w + (k * w + 2 * w)
  <2> HIDE DEF w, k
  <2> QED BY <1>1, <1>2
<1>4. k * w \in Nat /\ (y + 1) * w \in Nat
  <2> HIDE DEF w, k
  <2> QED BY <1>1, <1>2
<1>5. getSpot(x, y) = (x + 1) + (y + 1) * w BY DEF getSpot, Width
<1>6. ArrSize = w * (YSize + 2) + 1 BY DEF ArrSize, Width
<1> HIDE DEF w, k
<1> QED BY <1>1, <1>3, <1>4, <1>5, <1>6, BoardAssumption

\* A spot is an index of the array.
LEMMA SpotsAreIndices == \A s \in Spots : s \in 0..ArrSize-1
<1>1. ArrSize - 1 \in Int
  <2> DEFINE w == (XSize + 1) * (YSize + 2)
  <2>1. w \in Int BY BoardAssumption
  <2>2. ArrSize = w + 1 BY DEF ArrSize, Width
  <2> QED BY <2>1, <2>2
<1> DEFINE top == ArrSize - 1
<1>2. top \in Int BY <1>1
<1>3. Spots \subseteq 1..top BY SpotsAreInside
<1> HIDE DEF top
<1>4. 1..top \subseteq 0..top BY <1>2
<1>5. \A s \in Spots : s \in 0..top BY <1>3, <1>4
<1> QED BY <1>5 DEF top

\* A remainder of a number that is at most one turn of the ring too large.
LEMMA OneTurn ==
  ASSUME NEW n \in Nat \ {0}, NEW a \in 0..(2 * n - 1)
  PROVE  a % n = IF a < n THEN a ELSE a - n
OBVIOUS

-----------------------------------------------------------------------------
\* The board at the start of a game.
LEMMA EmptyBoardIsConsistent ==
  EmptyBoard \in Boards /\ EmptyBoard.win_len = WinLen /\ checkConsistency(EmptyBoard)
<1> DEFINE Colors == [s \in 0..ArrSize-1 |-> IF s \in Spots THEN C_EMPTY ELSE C_WALL]
<1>1. Colors \in [0..ArrSize-1 -> C_EMPTY..C_WALL] BY DEF C_EMPTY, C_WALL
<1>2. EmptyBoard \in Boards /\ EmptyBoard.win_len = WinLen
  BY <1>1, BoardAssumption DEF EmptyBoard, Boards
<1>3. \A s \in 0..ArrSize-1 : (EmptyBoard.colors[s] = C_WALL) <=> (s \notin Spots)
  BY DEF EmptyBoard, C_EMPTY, C_WALL
<1>4. Stones(EmptyBoard) = {}
  <2> SUFFICES ASSUME NEW s \in Spots \X Players
               PROVE  EmptyBoard.colors[s[1]] # s[2]
      BY DEF Stones
  <2>1. s[1] \in Spots /\ s[2] \in {1, 2} BY DEF Players, C_BLACK, C_WHITE
  <2>2. EmptyBoard.colors[s[1]] = 0 BY <2>1, SpotsAreIndices DEF EmptyBoard, C_EMPTY
  <2> QED BY <2>1, <2>2
<1>5. EmptyBoard.pos_hash = {} BY DEF EmptyBoard
<1> QED BY <1>2, <1>3, <1>4, <1>5 DEF checkConsistency

\* Playing a stone on an empty cell adds exactly its word to the hash of the
\* stones, and leaves the wall alone.
LEMMA PlayIsConsistent ==
  ASSUME NEW b \in Boards, b.win_len = WinLen, checkConsistency(b),
         NEW loc \in Locs, NEW pla \in Players, b.colors[loc.spot] = C_EMPTY
  PROVE  LET played == playMoveAssumeLegal(b, loc, pla)
         IN  played \in Boards /\ played.win_len = WinLen /\ checkConsistency(played)
<1> DEFINE played == playMoveAssumeLegal(b, loc, pla)
           spot == loc.spot
<1>1. spot \in Spots /\ spot \in 0..ArrSize-1 BY SpotsAreIndices DEF Locs
<1>2. played.colors = [b.colors EXCEPT ![spot] = pla] /\ played.win_len = WinLen
      /\ played.pos_hash = Fold(b.pos_hash, <<spot, pla>>) /\ played.lastLoc = loc
  BY DEF playMoveAssumeLegal, Boards
<1>3. pla \in C_EMPTY..C_WALL /\ pla # C_WALL /\ pla # C_EMPTY
  BY DEF Players, C_EMPTY, C_BLACK, C_WHITE, C_WALL
<1>4. b.colors \in [0..ArrSize-1 -> C_EMPTY..C_WALL] BY DEF Boards
<1>5. played.colors \in [0..ArrSize-1 -> C_EMPTY..C_WALL] BY <1>2, <1>3, <1>4
<1>6. <<spot, pla>> \notin b.pos_hash
  BY <1>1, <1>3 DEF checkConsistency, Stones
<1>7. played.pos_hash = b.pos_hash \cup {<<spot, pla>>} BY <1>2, <1>6 DEF Fold
<1>8. played \in Boards
  <2>1. played.pos_hash \in SUBSET (Spots \X Players) BY <1>1, <1>7 DEF Boards
  <2>2. played = [b EXCEPT !.colors = played.colors, !.pos_hash = played.pos_hash,
                           !.lastLoc = played.lastLoc]
    BY <1>2 DEF playMoveAssumeLegal, Boards
  <2> HIDE DEF played
  <2> QED BY <1>2, <1>5, <2>1, <2>2 DEF Boards
<1>9. \A s \in 0..ArrSize-1 : (played.colors[s] = C_WALL) <=> (s \notin Spots)
  BY <1>1, <1>2, <1>3, <1>4 DEF checkConsistency
<1>10. Stones(played) = Stones(b) \cup {<<spot, pla>>}
  <2> HIDE DEF played, spot
  <2>1. \A s \in Spots \X Players : s \in Stones(played) <=> s \in Stones(b) \/ s = <<spot, pla>>
    <3> TAKE s \in Spots \X Players
    <3>1. s[1] \in 0..ArrSize-1 BY SpotsAreIndices
    <3>2. CASE s[1] # spot BY <1>2, <1>4, <3>1, <3>2 DEF Stones
    <3>3. CASE s[1] = spot
      <4>1. played.colors[s[1]] = pla BY <1>1, <1>2, <1>4, <3>3
      <4>2. s \notin Stones(b) BY <3>3 DEF Stones, spot, Players, C_EMPTY, C_BLACK, C_WHITE
      <4> QED BY <3>3, <4>1, <4>2 DEF Stones
    <3> QED BY <3>2, <3>3
  <2>2. Stones(played) \subseteq Spots \X Players /\ Stones(b) \subseteq Spots \X Players
    BY DEF Stones
  <2> QED BY <1>1, <2>1, <2>2
<1>11. checkConsistency(played) BY <1>7, <1>9, <1>10 DEF checkConsistency
<1> QED BY <1>2, <1>8, <1>11

-----------------------------------------------------------------------------
\* Indices into the ring after m pushes, where cur was the latest board: one
\* looks back at a board that was in the ring, or at one that was pushed.
LEMMA Remainder ==
  ASSUME NEW n \in Nat \ {0}, NEW a \in Nat
  PROVE  a % n \in 0..n-1
OBVIOUS

\* After m pushes, k places back is k - m places back from where the index was, past what was pushed.
LEMMA LooksPast ==
  ASSUME NEW n \in Nat \ {0}, NEW cur \in 0..n-1, NEW m \in {1, 2}, NEW k \in m..n-1
  PROVE  /\ (((cur + m) % n) - k + n) % n = (cur - (k - m) + n) % n
         /\ \A p \in 1..m : (((cur + m) % n) - k + n) % n # (cur + p) % n
<1> DEFINE c == (cur + m) % n
           at == (c - k + n) % n
<1>1. n >= 2 OBVIOUS
<1>2. \A p \in 1..m : (cur + p) % n = IF cur + p < n THEN cur + p ELSE cur + p - n
  <2> TAKE p \in 1..m
  <2> DEFINE a == cur + p
  <2>1. a \in 0..(2 * n - 1) BY <1>1
  <2> HIDE DEF a
  <2>2. a % n = IF a < n THEN a ELSE a - n BY <2>1, OneTurn
  <2> QED BY <2>2 DEF a
<1>3. c = IF cur + m < n THEN cur + m ELSE cur + m - n BY <1>2
<1> HIDE DEF c
<1>4. c \in 0..n-1 BY <1>1, <1>3
<1>5. at = IF c - k + n < n THEN c - k + n ELSE c - k
  <2> DEFINE a == c - k + n
  <2>1. a \in 0..(2 * n - 1) BY <1>4
  <2>2. a - n = c - k BY <1>4
  <2> HIDE DEF a
  <2>3. a % n = IF a < n THEN a ELSE a - n BY <2>1, OneTurn
  <2> QED BY <2>2, <2>3 DEF a
<1>6. (cur - (k - m) + n) % n
        = IF cur - (k - m) + n < n THEN cur - (k - m) + n ELSE cur - (k - m)
  <2> DEFINE a == cur - (k - m) + n
  <2>1. a \in 0..(2 * n - 1) /\ a - n = cur - (k - m) OBVIOUS
  <2> HIDE DEF a
  <2>2. a % n = IF a < n THEN a ELSE a - n BY <2>1, OneTurn
  <2> QED BY <2>1, <2>2 DEF a
<1> HIDE DEF at
<1>7. at = IF cur < k - m THEN cur - (k - m) + n ELSE cur - (k - m)
  BY <1>1, <1>3, <1>4, <1>5
<1>8. at = (cur - (k - m) + n) % n BY <1>6, <1>7
<1>9. \A p \in 1..m : at # (cur + p) % n
  <2> TAKE p \in 1..m
  <2> DEFINE r == (cur + p) % n
  <2>1. r = IF cur + p < n THEN cur + p ELSE cur + p - n BY <1>2
  <2> HIDE DEF r
  <2>2. at # r BY <1>7, <2>1
  <2> QED BY <2>2 DEF r
<1> QED BY <1>8, <1>9 DEF at, c

\* And fewer than m places back is what was pushed.
LEMMA LooksAtPushed ==
  ASSUME NEW n \in Nat \ {0}, NEW cur \in 0..n-1, NEW m \in {1, 2},
         NEW k \in 0..m-1, k < n
  PROVE  (((cur + m) % n) - k + n) % n = (cur + (m - k)) % n
<1>1. CASE n = 1
  <2>1. k = 0 /\ \A a \in Nat : a % n = 0 BY <1>1
  <2>2. cur + m \in Nat /\ cur + (m - k) \in Nat OBVIOUS
  <2>3. (cur + m) % n = 0 /\ (cur + (m - k)) % n = 0 BY <2>1, <2>2
  <2>4. ((cur + m) % n) - k + n = 1 BY <1>1, <2>1, <2>3
  <2> QED BY <2>1, <2>3, <2>4
<1>2. CASE n >= 2
  <2> DEFINE a == cur + m
             e == cur + (m - k)
             c == a % n
             f == c - k + n
  <2>1. a \in 0..(2 * n - 1) /\ e \in 0..(2 * n - 1) /\ e = a - k BY <1>2
  <2> HIDE DEF a, e
  <2>2. c = IF a < n THEN a ELSE a - n BY <2>1, OneTurn
  <2>3. e % n = IF e < n THEN e ELSE e - n BY <2>1, OneTurn
  <2> HIDE DEF c
  <2>4. f \in 0..(2 * n - 1) /\ f = c - k + n BY <2>1, <2>2
  <2> HIDE DEF f
  <2>5. f % n = IF f < n THEN f ELSE f - n BY <2>4, OneTurn
  <2>6. f % n = e % n BY <2>1, <2>2, <2>3, <2>4, <2>5
  <2> QED BY <2>6 DEF a, e, c, f
<1> QED BY <1>1, <1>2

-----------------------------------------------------------------------------
\* What both ways to record a move do to the board, the ring and the turn.
LEMMA PushKeepsBoard ==
  ASSUME BoardConsistent, NEW loc \in Locs, isLegal(board, loc, nextPla),
         NEW m \in {1, 2}, PlayAndPush(loc, m)
  PROVE  /\ board' \in Boards /\ board'.win_len = WinLen /\ checkConsistency(board')
         /\ initialBoard' \in Boards /\ recentBoards' \in [RingIdx -> Boards]
         /\ currentRecentBoardIdx' \in RingIdx /\ nextPla' \in Players
         /\ numTurns' \in Nat /\ isGameFinished' \in BOOLEAN
         /\ isResignation' \in BOOLEAN /\ winner' \in Players \cup {C_EMPTY}
<1> DEFINE b == playMoveAssumeLegal(board, loc, nextPla)
<1>1. board' = b BY DEF PlayAndPush
<1>2. board.colors[loc.spot] = C_EMPTY BY DEF isLegal
<1>3. b \in Boards /\ b.win_len = WinLen /\ checkConsistency(b)
  BY <1>2, PlayIsConsistent DEF BoardConsistent, TypeOK
<1>4. currentRecentBoardIdx' \in RingIdx
  <2>1. currentRecentBoardIdx + m \in Nat
    BY HistoryAssumption DEF BoardConsistent, TypeOK, RingIdx
  <2> QED BY <2>1, Remainder, HistoryAssumption DEF PlayAndPush, NextIdx, RingIdx
<1>5. recentBoards' \in [RingIdx -> Boards]
  <2> HIDE DEF b
  <2>1. recentBoards' = [i \in RingIdx |->
           IF \E k \in 1..m : i = NextIdx(k) THEN b ELSE recentBoards[i]]
    BY DEF PlayAndPush, b
  <2> QED BY <1>3, <2>1 DEF BoardConsistent, TypeOK
<1>6. checkGameEnd(b) \in BOOLEAN BY DEF checkGameEnd, HasConsecutives
<1>7. nextPla' \in Players /\ nextPla \in Players
  BY DEF PlayAndPush, BoardConsistent, TypeOK, Players, getOpp, C_BLACK, C_WHITE
<1>8. isGameFinished' \in BOOLEAN /\ isResignation' \in BOOLEAN
      /\ winner' \in Players \cup {C_EMPTY}
  <2> HIDE DEF b
  <2>1. isGameFinished' = checkGameEnd(b) /\ isResignation' = FALSE
        /\ winner' = IF checkGameEnd(b) THEN nextPla ELSE C_EMPTY
    BY DEF PlayAndPush, b
  <2> QED BY <1>6, <1>7, <2>1
<1>9. initialBoard' \in Boards /\ numTurns' \in Nat
  BY DEF PlayAndPush, BoardConsistent, TypeOK
<1> QED BY <1>1, <1>3, <1>4, <1>5, <1>7, <1>8, <1>9

\* A new game has consistent boards.
LEMMA InitBoard == Init => BoardConsistent
<1> SUFFICES ASSUME Init PROVE BoardConsistent OBVIOUS
<1> USE DEF Init
<1>1. board \in Boards /\ board.win_len = WinLen /\ checkConsistency(board)
  BY EmptyBoardIsConsistent
<1>2. recentBoards \in [RingIdx -> Boards] BY <1>1
<1>3. currentRecentBoardIdx \in RingIdx BY HistoryAssumption DEF RingIdx
<1>4. nextPla \in Players /\ presumedNextMovePla \in Players BY DEF Players
<1> QED BY <1>1, <1>2, <1>3, <1>4 DEF BoardConsistent, TypeOK

\* Every operation keeps them so.
LEMMA StepBoard == BoardConsistent /\ [Next]_vars => BoardConsistent'
<1> SUFFICES ASSUME BoardConsistent, [Next]_vars PROVE BoardConsistent' OBVIOUS
<1>1. ASSUME NEW pla \in Players, Clear(pla) PROVE BoardConsistent'
  <2>1. board' = board /\ initialBoard' = board BY <1>1 DEF Clear, ClearWith
  <2>2. recentBoards' \in [RingIdx -> Boards]
    BY <1>1 DEF Clear, ClearWith, BoardConsistent, TypeOK
  <2>3. currentRecentBoardIdx' \in RingIdx
    BY <1>1, HistoryAssumption DEF Clear, ClearWith, RingIdx
  <2>4. moveHistory' = <<>> /\ nextPla' = pla /\ presumedNextMovePla' = pla /\ numTurns' = 0
        /\ isGameFinished' = FALSE /\ isResignation' = FALSE /\ winner' = C_EMPTY
    BY <1>1 DEF Clear, ClearWith
  <2>5. board' \in Boards /\ initialBoard' \in Boards /\ board'.win_len = WinLen
        /\ checkConsistency(board')
    BY <2>1 DEF BoardConsistent, TypeOK
  <2>6. /\ moveHistory' \in Seq(Moves)
        /\ isGameFinished' \in BOOLEAN /\ isResignation' \in BOOLEAN
        /\ numTurns' \in Nat
    <3>1. moveHistory' \in Seq(Moves) BY <2>4
    <3>2. isGameFinished' \in BOOLEAN /\ isResignation' \in BOOLEAN BY <2>4
    <3>3. numTurns' \in Nat BY <2>4
    <3> QED BY <3>1, <3>2, <3>3
  <2>7. nextPla' \in Players /\ presumedNextMovePla' \in Players
        /\ winner' \in Players \cup {C_EMPTY}
    BY <2>4
  <2> QED BY <2>2, <2>3, <2>5, <2>6, <2>7 DEF BoardConsistent, TypeOK
<1>2. ASSUME NEW loc \in Locs, makeBoardMoveAssumeLegal(loc) PROVE BoardConsistent'
  <2>1. isLegal(board, loc, nextPla) /\ PlayAndPush(loc, 1)
        /\ moveHistory' = moveHistory /\ presumedNextMovePla' = presumedNextMovePla
    BY <1>2 DEF makeBoardMoveAssumeLegal
  <2> QED BY <2>1, PushKeepsBoard DEF BoardConsistent, TypeOK
<1>3. ASSUME NEW loc \in Locs, makeBoardMove(loc) PROVE BoardConsistent'
  <2>1. isLegal(board, loc, nextPla) /\ PlayAndPush(loc, 2)
        /\ moveHistory' = Append(moveHistory, [loc |-> loc, pla |-> nextPla])
        /\ presumedNextMovePla' = nextPla'
    BY <1>3 DEF makeBoardMove, PlayAndPush
  <2>2. nextPla' \in Players BY <2>1, PushKeepsBoard
  <2>3. moveHistory' \in Seq(Moves)
    BY <2>1 DEF BoardConsistent, TypeOK, Moves
  <2> QED BY <2>1, <2>2, <2>3, PushKeepsBoard DEF BoardConsistent, TypeOK
<1>4. ASSUME NEW pla \in Players, setWinnerByResignation(pla) PROVE BoardConsistent'
  BY <1>4 DEF setWinnerByResignation, BoardConsistent, TypeOK
<1>5. CASE UNCHANGED vars
  BY <1>5 DEF vars, histVars, BoardConsistent, TypeOK
<1> QED BY <1>1, <1>2, <1>3, <1>4, <1>5 DEF Next

\* Whatever is played, cleared and resigned, every variable keeps its type, the
\* hash that the moves update is the hash of the stones, and the wall stands:
\* rootBoard.checkConsistency() in Search::beginSearch does not throw.
THEOREM Consistent == Spec => []BoardConsistent
<1> QED BY InitBoard, StepBoard, PTL DEF Spec

-----------------------------------------------------------------------------
\* Why a move pushed once keeps the boards of the ring k moves ago: with the end
\* of past, which they are counted from.
Recent == /\ past \in Seq(Boards) /\ Len(past) > 0
          /\ past[Len(past)] = board
          /\ AssumedLegalMovesAreRecent

\* A move pushed either way keeps the latest board, and one that is pushed once,
\* as makeBoardMoveAssumeLegal pushes it, the boards before it too.
LEMMA PushKeepsRecent ==
  ASSUME BoardConsistent, Recent, NEW loc \in Locs, isLegal(board, loc, nextPla),
         NEW m \in {1, 2}, PlayAndPush(loc, m),
         (m = 1 /\ UNCHANGED moveHistory) \/ (m = 2 /\ moveHistory' # <<>>)
  PROVE  Recent'
<1> DEFINE n == NUM_RECENT_BOARDS
           cur == currentRecentBoardIdx
           L == Len(past)
           ago(j) == IF j < L THEN past[L - j] ELSE initialBoard
           agoNow(j) == IF j < Len(past') THEN past'[Len(past') - j] ELSE initialBoard'
           at(k) == (((cur + m) % n) - k + n) % n
<1>1. n \in Nat \ {0} /\ cur \in 0..n-1 /\ RingIdx = 0..n-1 /\ L \in Nat \ {0}
  BY HistoryAssumption DEF BoardConsistent, TypeOK, RingIdx, Recent
<1>2. board' \in Boards BY PushKeepsBoard
<1>3. past' = Append(past, board') /\ initialBoard' = initialBoard BY DEF PlayAndPush
<1>4. past' \in Seq(Boards) /\ Len(past') = L + 1 /\ past'[L + 1] = board'
  BY <1>2, <1>3 DEF Recent
<1>5. agoNow(0) = board' BY <1>1, <1>4
<1>6. \A j \in Nat : agoNow(j + 1) = ago(j)
  <2> TAKE j \in Nat
  <2>1. j + 1 < Len(past') <=> j < L BY <1>1, <1>4
  <2>2. CASE j < L
    <3>1. L - j \in 1..L /\ Len(past') - (j + 1) = L - j BY <1>1, <1>4, <2>2
    <3>2. past'[L - j] = past[L - j] BY <1>2, <1>3, <3>1 DEF Recent
    <3> QED BY <2>1, <2>2, <3>1, <3>2
  <2>3. CASE ~(j < L) BY <1>3, <2>1, <2>3
  <2> QED BY <2>2, <2>3
<1>7. \A k : getRecentBoard(k)' = recentBoards'[at(k)]
  BY DEF getRecentBoard, PlayAndPush, NextIdx
<1>8. \A k \in RingIdx : at(k) \in RingIdx
  <2> TAKE k \in RingIdx
  <2> DEFINE a == cur + m
             f == (a % n) - k + n
  <2>1. a \in Nat BY <1>1
  <2> HIDE DEF a, n
  <2>2. a % n \in 0..n-1 BY <1>1, <2>1, Remainder
  <2>3. f \in Nat BY <1>1, <2>2
  <2> HIDE DEF f
  <2>4. f % n \in 0..n-1 BY <1>1, <2>3, Remainder
  <2> QED BY <1>1, <2>4 DEF a, f
<1>9. \A i \in RingIdx : recentBoards'[i] =
         IF \E p \in 1..m : i = (cur + p) % n THEN board' ELSE recentBoards[i]
  BY DEF PlayAndPush, NextIdx
<1> HIDE DEF at
<1>10. \A k \in RingIdx : k < m => getRecentBoard(k)' = board'
  <2> TAKE k \in RingIdx
  <2> HAVE k < m
  <2>1. k \in 0..m-1 /\ k < n /\ m - k \in 1..m BY <1>1
  <2>2. at(k) = (cur + (m - k)) % n BY <1>1, <2>1, LooksAtPushed DEF at
  <2> QED BY <1>7, <1>8, <1>9, <2>1, <2>2
<1>11. \A k \in RingIdx : k >= m => getRecentBoard(k)' = getRecentBoard(k - m)
  <2> TAKE k \in RingIdx
  <2> HAVE k >= m
  <2>1. k \in m..n-1 BY <1>1
  <2>2. at(k) = (cur - (k - m) + n) % n /\ \A p \in 1..m : at(k) # (cur + p) % n
    <3>1. n \in Nat \ {0} /\ cur \in 0..n-1 BY <1>1
    <3> HIDE DEF n, cur
    <3>2. /\ (((cur + m) % n) - k + n) % n = (cur - (k - m) + n) % n
          /\ \A p \in 1..m : (((cur + m) % n) - k + n) % n # (cur + p) % n
      <4>1. \A h \in Nat \ {0} : \A i \in 0..h-1 : \A q \in {1, 2} : \A j \in q..h-1 :
              /\ (((i + q) % h) - j + h) % h = (i - (j - q) + h) % h
              /\ \A p \in 1..q : (((i + q) % h) - j + h) % h # (i + p) % h
        BY LooksPast
      <4>2. m \in {1, 2} OBVIOUS
      <4>3. \A i \in 0..n-1 : \A q \in {1, 2} : \A j \in q..n-1 :
              /\ (((i + q) % n) - j + n) % n = (i - (j - q) + n) % n
              /\ \A p \in 1..q : (((i + q) % n) - j + n) % n # (i + p) % n
        BY <3>1, <4>1, Zenon
      <4>4. \A q \in {1, 2} : \A j \in q..n-1 :
              /\ (((cur + q) % n) - j + n) % n = (cur - (j - q) + n) % n
              /\ \A p \in 1..q : (((cur + q) % n) - j + n) % n # (cur + p) % n
        BY <3>1, <4>3, Zenon
      <4> QED BY <2>1, <4>2, <4>4, Zenon
    <3> QED BY <3>2 DEF at
  <2>3. getRecentBoard(k)' = recentBoards[at(k)] BY <1>7, <1>8, <1>9, <2>2
  <2> QED BY <2>2, <2>3 DEF getRecentBoard
<1>12. ASSUME m = 1, moveHistory = <<>>, NEW k \in RingIdx
       PROVE  getRecentBoard(k)' = agoNow(k)
  <2>1. CASE k < m
    <3>1. k = 0 BY <1>1, <1>12, <2>1
    <3> QED BY <1>5, <1>10, <2>1, <3>1
  <2>2. CASE k >= m
    <3>1. k - 1 \in RingIdx /\ k - 1 \in Nat /\ (k - 1) + 1 = k BY <1>1, <1>12, <2>2
    <3>2. getRecentBoard(k - 1) = ago(k - 1)
      BY <1>12, <3>1 DEF Recent, AssumedLegalMovesAreRecent, RecentBoardsAreMovesAgo
    <3>3. getRecentBoard(k)' = getRecentBoard(k - 1) BY <1>11, <1>12, <2>2
    <3>4. agoNow((k - 1) + 1) = ago(k - 1) BY <1>6, <3>1
    <3> HIDE DEF agoNow, ago
    <3> QED BY <3>1, <3>2, <3>3, <3>4
  <2> QED BY <1>1, <2>1, <2>2
<1>13. getRecentBoard(0)' = board' BY <1>1, <1>10
<1>14. AssumedLegalMovesAreRecent'
  <2> HIDE DEF ago
  <2>1. RingIdx' = RingIdx BY DEF RingIdx
  <2>2. ASSUME moveHistory' = <<>> PROVE m = 1 /\ moveHistory = <<>> BY <2>2
  <2> QED BY <1>12, <1>13, <2>1, <2>2
        DEF AssumedLegalMovesAreRecent, RecentBoardsAreMovesAgo
<1> QED BY <1>4, <1>14 DEF Recent

\* The latest board of the ring is the board of the game, and unless a move was
\* recorded with makeBoardMove, which pushes it twice, the board k places back is
\* the one of k moves ago, whatever is cleared and however long the ring is.
THEOREM LooksBack == Spec => []AssumedLegalMovesAreRecent
<1>1. Init => Recent
  <2> SUFFICES ASSUME Init PROVE Recent OBVIOUS
  <2>1. board \in Boards BY EmptyBoardIsConsistent DEF Init
  <2>2. past \in Seq(Boards) /\ Len(past) = 1 /\ past[1] = board BY <2>1 DEF Init
  <2>3. \A k \in RingIdx : getRecentBoard(k) = board
    <3> TAKE k \in RingIdx
    <3>1. (0 - k + NUM_RECENT_BOARDS) \in Nat BY HistoryAssumption DEF RingIdx
    <3>2. (0 - k + NUM_RECENT_BOARDS) % NUM_RECENT_BOARDS \in RingIdx
      BY <3>1, Remainder, HistoryAssumption DEF RingIdx
    <3> QED BY <3>2 DEF Init, getRecentBoard
  <2>4. initialBoard = board BY DEF Init
  <2>5. 0 \in RingIdx BY HistoryAssumption DEF RingIdx
  <2>6. \A k \in RingIdx : k < Len(past) => past[Len(past) - k] = board
    BY <2>2, HistoryAssumption DEF RingIdx
  <2> QED BY <2>2, <2>3, <2>4, <2>5, <2>6
        DEF Recent, AssumedLegalMovesAreRecent, RecentBoardsAreMovesAgo
<1>2. BoardConsistent /\ Recent /\ [Next]_vars => Recent'
  <2> SUFFICES ASSUME BoardConsistent, Recent, [Next]_vars PROVE Recent' OBVIOUS
  <2>1. ASSUME NEW pla \in Players, Clear(pla) PROVE Recent'
    <3>1. board' \in Boards BY <2>1 DEF Clear, BoardConsistent, TypeOK
    <3>2. past' \in Seq(Boards) /\ Len(past') = 1 /\ past'[1] = board'
      BY <2>1, <3>1 DEF Clear, ClearWith
    <3>3. \A k \in RingIdx : getRecentBoard(k)' = board'
      <4> TAKE k \in RingIdx
      <4>1. (0 - k + NUM_RECENT_BOARDS) \in Nat BY HistoryAssumption DEF RingIdx
      <4>2. (0 - k + NUM_RECENT_BOARDS) % NUM_RECENT_BOARDS \in RingIdx
        BY <4>1, Remainder, HistoryAssumption DEF RingIdx
      <4> QED BY <2>1, <4>2 DEF Clear, ClearWith, getRecentBoard
    <3>4. initialBoard' = board' BY <2>1 DEF Clear, ClearWith
    <3>5. 0 \in RingIdx BY HistoryAssumption DEF RingIdx
    <3>6. RingIdx' = RingIdx BY DEF RingIdx
    <3>7. \A k \in RingIdx : k < Len(past') => past'[Len(past') - k] = board'
      BY <3>2, HistoryAssumption DEF RingIdx
    <3> QED BY <3>2, <3>3, <3>4, <3>5, <3>6, <3>7
          DEF Recent, AssumedLegalMovesAreRecent, RecentBoardsAreMovesAgo
  <2>2. ASSUME NEW loc \in Locs, makeBoardMoveAssumeLegal(loc) PROVE Recent'
    BY <2>2, PushKeepsRecent DEF makeBoardMoveAssumeLegal
  <2>3. ASSUME NEW loc \in Locs, makeBoardMove(loc) PROVE Recent'
    <3>1. moveHistory' # <<>> BY <2>3 DEF makeBoardMove, BoardConsistent, TypeOK
    <3> QED BY <2>3, <3>1, PushKeepsRecent DEF makeBoardMove
  <2>4. ASSUME NEW pla \in Players, setWinnerByResignation(pla) PROVE Recent'
    BY <2>4 DEF setWinnerByResignation, Recent, AssumedLegalMovesAreRecent,
                RecentBoardsAreMovesAgo, RingIdx, getRecentBoard
  <2>5. CASE UNCHANGED vars
    BY <2>5 DEF vars, histVars, Recent, AssumedLegalMovesAreRecent,
                RecentBoardsAreMovesAgo, RingIdx, getRecentBoard
  <2> QED BY <2>1, <2>2, <2>3, <2>4, <2>5 DEF Next
<1>3. Recent => AssumedLegalMovesAreRecent BY DEF Recent
<1> QED BY InitBoard, StepBoard, <1>1, <1>2, <1>3, PTL DEF Spec

-----------------------------------------------------------------------------
(* The walks over the array against the rules in coordinates. *)

(* The least number of a set, which takes the place of an induction: every *)
(* family of finite sets has a member with no other member inside it.      *)
LEMMA LeastOf ==
    ASSUME NEW A, A \subseteq Nat, A # {}
    PROVE  \E m \in A : \A k \in A : m <= k
<1> DEFINE T == {0..m : m \in A}
           R == StrictSubsetOrdering(Nat)
<1>1. T \subseteq FiniteSubsetsOf(Nat) /\ T # {}
  <2>1. \A m \in Nat : IsFiniteSet(0..m) /\ 0..m \subseteq Nat
    BY FS_Interval
  <2>2. QED
    BY <2>1 DEF FiniteSubsetsOf
<1>2. PICK x \in T : \A y \in T : ~(<<y, x>> \in R)
  <2> HIDE DEF T
  <2>1. QED
    BY <1>1, WFMin, FS_StrictSubsetOrderingWellFounded
<1>3. PICK m \in A : x = 0..m
  OBVIOUS
<1>4. ASSUME NEW k \in A, k < m PROVE FALSE
  <2>1. 0..k \in T /\ k \in Nat /\ m \in Nat
    OBVIOUS
  <2>2. 0..k \subseteq 0..m /\ m \in 0..m /\ m \notin 0..k
    BY <2>1, <1>4
  <2>3. <<0..k, x>> \in R
    BY <1>3, <2>1, <2>2 DEF StrictSubsetOrdering
  <2>4. QED
    BY <1>2, <2>1, <2>3
<1>5. QED
  BY <1>4

(* The lines through a cell: a step in one of eight directions, as a change *)
(* of coordinates and as an offset in the array.                           *)
Deltas == {D \in (-1..1) \X (-1..1) : D # <<0, 0>>}
Off(D) == D[1] + D[2] * Width
Along(c, D, k) == <<c[1] + k * D[1], c[2] + k * D[2]>>
Back(d) == <<-Step(d)[1], -Step(d)[2]>>
SpotAt(c) == getSpot(c[1], c[2])

\* The sizes are numbers.
LEMMA BoardSize ==
    /\ XSize \in Nat /\ XSize >= 1 /\ YSize \in Nat /\ YSize >= 1
    /\ Width \in Nat /\ Width = XSize + 1 /\ LineLen \in Nat /\ LineLen = XSize + YSize
    /\ WinLen \in Nat /\ WinLen >= 1
BY BoardAssumption DEF Width, LineLen

\* A cell is a pair of coordinates inside of the board.
LEMMA CellsAre ==
    /\ \A c \in Cells : /\ c = <<c[1], c[2]>> /\ c[1] \in 0..XSize-1 /\ c[2] \in 0..YSize-1
                        /\ c[1] \in Int /\ c[2] \in Int
    /\ \A x, y \in Int : <<x, y>> \in Cells <=> x \in 0..XSize-1 /\ y \in 0..YSize-1
BY BoardSize DEF Cells

\* What the directions are in coordinates.
LEMMA DeltasAre ==
    \A D \in Deltas : /\ D[1] \in -1..1 /\ D[2] \in -1..1 /\ D[1] \in Int /\ D[2] \in Int
                      /\ D[1] # 0 \/ D[2] # 0
<1> SUFFICES ASSUME NEW D \in Deltas
             PROVE  D[1] \in -1..1 /\ D[2] \in -1..1 /\ (D[1] # 0 \/ D[2] # 0)
  OBVIOUS
<1>1. D = <<D[1], D[2]>> /\ D[1] \in -1..1 /\ D[2] \in -1..1 /\ D # <<0, 0>>
  BY DEF Deltas
<1>2. QED
  BY <1>1

(* A number has one remainder. *)
LEMMA OneRemainder ==
    ASSUME NEW w \in Nat, w >= 1, NEW a \in 0..w-1, NEW e \in 0..w-1,
           NEW b \in Int, NEW f \in Int, a + b * w = e + f * w
    PROVE  a = e /\ b = f
<1>1. (b - f) * w = e - a
  OBVIOUS
<1>2. \A k \in Int : k >= 1 => k * w >= w
  OBVIOUS
<1>3. \A k \in Int : k <= -1 => k * w <= -w
  OBVIOUS
<1>4. b - f < 1
  BY <1>1, <1>2
<1>5. b - f > -1
  BY <1>1, <1>3
<1>6. QED
  BY <1>1, <1>4, <1>5

\* Quotient and remainder are the only such numbers.
LEMMA DivModUnique ==
    ASSUME NEW m, NEW k, NEW q, NEW r,
           m \in Nat, m >= 1, q \in Nat, r \in Nat, r < m, k = q * m + r
    PROVE  k \div m = q /\ k % m = r
OBVIOUS

\* One spot of the array is one pair of coordinates, the right wall left out.
LEMMA SpotIsUnique ==
    ASSUME NEW x \in -1..XSize-1, NEW y \in Int, NEW u \in -1..XSize-1, NEW v \in Int,
           getSpot(x, y) = getSpot(u, v)
    PROVE  x = u /\ y = v
<1>1. /\ (x + 1) + (y + 1) * Width = (u + 1) + (v + 1) * Width
      /\ x + 1 \in 0..Width-1 /\ u + 1 \in 0..Width-1 /\ Width >= 1
      /\ y + 1 \in Int /\ v + 1 \in Int /\ Width \in Nat
  BY BoardSize DEF getSpot
<1>2. x + 1 = u + 1 /\ y + 1 = v + 1
  BY <1>1, OneRemainder
<1>3. QED
  BY <1>2, BoardSize

(* The spots of the board are those of its cells, and the column of wall    *)
(* after a row is the one before the next.                                 *)
LEMMA SpotsAreCells ==
    ASSUME NEW x \in -1..XSize, NEW y \in Int
    PROVE  getSpot(x, y) \in Spots <=> <<x, y>> \in Cells
<1> x \in Int
  BY BoardSize
<1>1. \A u, v \in Int : <<u, v>> \in Cells => getSpot(u, v) \in Spots
  BY CellsAre DEF Spots, Cells
<1>2. ASSUME getSpot(x, y) \in Spots PROVE <<x, y>> \in Cells
  <2>1. PICK p \in Cells : getSpot(x, y) = getSpot(p[1], p[2])
    BY <1>2 DEF Spots, Cells
  <2>2. p[1] \in 0..XSize-1 /\ p[2] \in 0..YSize-1 /\ p[1] \in -1..XSize-1 /\ p[2] \in Int
    BY CellsAre, BoardSize
  <2>3. CASE x = XSize
    <3>1. getSpot(x, y) = getSpot(-1, y + 1)
      BY <2>3, BoardSize DEF getSpot
    <3>2. /\ getSpot(-1, y + 1) = getSpot(p[1], p[2])
          /\ -1 \in -1..XSize-1 /\ y + 1 \in Int
      BY <2>1, <3>1, BoardSize
    <3>3. -1 = p[1]
      BY <2>2, <3>2, SpotIsUnique
    <3>4. QED
      BY <2>2, <3>3
  <2>4. CASE x \in -1..XSize-1
    <3>1. x = p[1] /\ y = p[2]
      BY <2>1, <2>2, <2>4, SpotIsUnique
    <3>2. QED
      BY <2>2, <3>1, CellsAre
  <2>5. QED
    BY <2>3, <2>4, BoardSize
<1>3. QED
  BY <1>1, <1>2

(* Every cell, and every cell of the frame around the board, has an index.  *)
LEMMA FrameIsInside ==
    ASSUME NEW x \in -1..XSize, NEW y \in -1..YSize
    PROVE  getSpot(x, y) \in 0..ArrSize-1
<1> DEFINE w == Width
           k == YSize - y
<1>1. /\ w \in Nat /\ x + 1 \in 0..w /\ y + 1 \in Nat /\ k \in Nat /\ y = YSize - k
      /\ getSpot(x, y) = (x + 1) + (y + 1) * w /\ ArrSize = w * (YSize + 2) + 1
      /\ YSize \in Nat /\ y \in Int /\ x \in Int
  BY BoardSize DEF getSpot, ArrSize
<1> HIDE DEF w, k
<1>2. (y + 1) * w \in Nat /\ k * w \in Nat
  BY <1>1
<1>3. w * (YSize + 2) = ((y + 1) * w + k * w) + w
  BY <1>1
<1>4. QED
  BY <1>1, <1>2, <1>3

\* What the array takes for the board are the cells.
LEMMA OnBoardIsCell ==
    ASSUME NEW b, checkConsistency(b), NEW x \in -1..XSize, NEW y \in -1..YSize
    PROVE  isOnBoard(b, getSpot(x, y)) <=> <<x, y>> \in Cells
<1>1. getSpot(x, y) \in 0..ArrSize-1 /\ y \in Int
  BY FrameIsInside, BoardSize
<1>2. getSpot(x, y) \in Spots <=> <<x, y>> \in Cells
  BY <1>1, SpotsAreCells
<1>3. QED
  BY <1>1, <1>2 DEF isOnBoard, checkConsistency

(* The offsets of the code are those of the eight directions. *)
LEMMA OffsetsAre ==
    ASSUME NEW d \in Directions
    PROVE  /\ Step(d) \in Deltas /\ ADJ[d] = Off(Step(d))
           /\ Back(d) \in Deltas /\ -ADJ[d] = Off(Back(d))
<1>1. d \in {D_NORTH, D_WEST, D_NORTHWEST, D_NORTHEAST}
  BY DEF Directions, D_NORTH, D_WEST, D_NORTHWEST, D_NORTHEAST
<1>2. CASE d = D_NORTH
  BY <1>2, BoardSize DEF Step, Back, Off, Deltas, ADJ, Directions, D_NORTH, D_WEST, D_NORTHWEST, D_NORTHEAST
<1>3. CASE d = D_WEST
  BY <1>3, BoardSize DEF Step, Back, Off, Deltas, ADJ, Directions, D_NORTH, D_WEST, D_NORTHWEST, D_NORTHEAST
<1>4. CASE d = D_NORTHWEST
  BY <1>4, BoardSize DEF Step, Back, Off, Deltas, ADJ, Directions, D_NORTH, D_WEST, D_NORTHWEST, D_NORTHEAST
<1>5. CASE d = D_NORTHEAST
  BY <1>5, BoardSize DEF Step, Back, Off, Deltas, ADJ, Directions, D_NORTH, D_WEST, D_NORTHWEST, D_NORTHEAST
<1>6. QED
  BY <1>1, <1>2, <1>3, <1>4, <1>5

\* Steps in the array are steps along the direction.
LEMMA SpotAlong ==
    ASSUME NEW c \in Cells, NEW D \in Deltas, NEW k \in Int
    PROVE  /\ SpotAt(c) + k * Off(D) = SpotAt(Along(c, D, k))
           /\ Along(c, D, k)[1] = c[1] + k * D[1] /\ Along(c, D, k)[2] = c[2] + k * D[2]
           /\ c[1] + k * D[1] \in Int /\ c[2] + k * D[2] \in Int
<1> DEFINE u == c[1]
           v == c[2]
           e == D[1]
           f == D[2]
           w == Width
<1>1. u \in Int /\ v \in Int /\ e \in Int /\ f \in Int /\ w \in Int
  BY CellsAre, DeltasAre, BoardSize
<1>2. /\ SpotAt(c) = (u + 1) + (v + 1) * w /\ Off(D) = e + f * w
      /\ SpotAt(Along(c, D, k)) = ((u + k * e) + 1) + ((v + k * f) + 1) * w
  BY DEF SpotAt, Off, Along, getSpot
<1>3. Along(c, D, k)[1] = u + k * e /\ Along(c, D, k)[2] = v + k * f
  BY DEF Along
<1> HIDE DEF u, v, e, f, w
<1>4. k * e \in Int /\ k * f \in Int
  BY <1>1
<1>5. ((u + 1) + (v + 1) * w) + k * (e + f * w) = ((u + k * e) + 1) + ((v + k * f) + 1) * w
  BY <1>1
<1>6. QED
  BY <1>1, <1>2, <1>3, <1>4, <1>5 DEF u, v, e, f, w

(* A step from a cell of the board along a line ends on a cell, or on wall. *)
LEMMA StepFromCell ==
    ASSUME NEW b, checkConsistency(b), NEW c \in Cells, NEW D \in Deltas, NEW n \in Nat \ {0},
           Along(c, D, n - 1) \in Cells
    PROVE  /\ SpotAt(c) + n * Off(D) \in 0..ArrSize-1
           /\ isOnBoard(b, SpotAt(c) + n * Off(D)) <=> Along(c, D, n) \in Cells
<1> DEFINE x == c[1] + n * D[1]
           y == c[2] + n * D[2]
<1>1. /\ SpotAt(c) + n * Off(D) = getSpot(x, y) /\ Along(c, D, n) = <<x, y>>
      /\ x \in Int /\ y \in Int
  <2>1. n \in Int
    OBVIOUS
  <2>2. QED
    BY <2>1, SpotAlong DEF Along, SpotAt
<1>2. /\ Along(c, D, n - 1)[1] = c[1] + (n - 1) * D[1]
      /\ Along(c, D, n - 1)[2] = c[2] + (n - 1) * D[2]
  BY DEF Along
<1>3. /\ (n - 1) * D[1] = n * D[1] - D[1] /\ (n - 1) * D[2] = n * D[2] - D[2]
      /\ D[1] \in -1..1 /\ D[2] \in -1..1 /\ n * D[1] \in Int /\ n * D[2] \in Int
      /\ c[1] \in Int /\ c[2] \in Int
  BY DeltasAre, CellsAre
<1>4. x - D[1] \in 0..XSize-1 /\ y - D[2] \in 0..YSize-1
  <2>1. c[1] + (n - 1) * D[1] \in 0..XSize-1 /\ c[2] + (n - 1) * D[2] \in 0..YSize-1
    BY <1>2, CellsAre
  <2> DEFINE p == n * D[1]
             q == n * D[2]
             r == (n - 1) * D[1]
             t == (n - 1) * D[2]
  <2>2. /\ c[1] + r = (c[1] + p) - D[1] /\ c[2] + t = (c[2] + q) - D[2]
        /\ p \in Int /\ q \in Int /\ D[1] \in Int /\ D[2] \in Int
        /\ c[1] \in Int /\ c[2] \in Int
    <3>1. /\ r = p - D[1] /\ t = q - D[2] /\ p \in Int /\ q \in Int
          /\ D[1] \in Int /\ D[2] \in Int /\ c[1] \in Int /\ c[2] \in Int
      BY <1>3
    <3> HIDE DEF p, q, r, t
    <3>2. QED
      BY <3>1
  <2>3. QED
    BY <2>1, <2>2
<1>5. x \in -1..XSize /\ y \in -1..YSize
  <2> HIDE DEF x, y
  <2>1. QED
    BY <1>1, <1>3, <1>4, BoardSize
<1>6. QED
  <2> HIDE DEF x, y
  <2>1. QED
    BY <1>1, <1>5, OnBoardIsCell, FrameIsInside

\* A walk begins on the board.
LEMMA FromCell ==
    ASSUME NEW b, checkConsistency(b), NEW c \in Cells, NEW D \in Deltas
    PROVE  /\ Along(c, D, 0) = c /\ SpotAt(c) + 0 * Off(D) = SpotAt(c)
           /\ isOnBoard(b, SpotAt(c)) /\ SpotAt(c) \in Spots
<1>1. c = <<c[1], c[2]>> /\ c[1] \in -1..XSize /\ c[2] \in -1..YSize /\ c[1] \in Int /\ c[2] \in Int
  BY CellsAre, BoardSize
<1>2. D[1] \in Int /\ D[2] \in Int /\ Width \in Int /\ Off(D) \in Int
  BY DeltasAre, BoardSize DEF Off
<1>3. SpotAt(c) \in Int
  BY <1>1, <1>2 DEF SpotAt, getSpot
<1>4. QED
  BY <1>1, <1>2, <1>3, OnBoardIsCell, SpotsAreCells DEF Along, SpotAt

(* The cells of the board on a line are in one piece. *)
LEMMA OnePiece ==
    ASSUME NEW c \in Cells, NEW D \in Deltas, NEW n \in Nat, NEW m \in Nat, m <= n,
           Along(c, D, n) \in Cells
    PROVE  Along(c, D, m) \in Cells
<1>1. ASSUME NEW e \in -1..1, NEW a \in Int, NEW s \in Nat, a \in 0..s-1, a + n * e \in 0..s-1
      PROVE  a + m * e \in 0..s-1
  <2>1. e = -1 \/ e = 0 \/ e = 1
    OBVIOUS
  <2>2. QED
    BY <1>1, <2>1
<1>2. /\ Along(c, D, n) = <<c[1] + n * D[1], c[2] + n * D[2]>>
      /\ Along(c, D, m) = <<c[1] + m * D[1], c[2] + m * D[2]>>
  BY DEF Along
<1>3. /\ c[1] + n * D[1] \in Int /\ c[2] + n * D[2] \in Int
      /\ c[1] + m * D[1] \in Int /\ c[2] + m * D[2] \in Int
      /\ D[1] \in -1..1 /\ D[2] \in -1..1 /\ c[1] \in Int /\ c[2] \in Int
  BY CellsAre, DeltasAre
<1>4. c[1] + n * D[1] \in 0..XSize-1 /\ c[2] + n * D[2] \in 0..YSize-1
  BY <1>2, <1>3, CellsAre
<1>5. c[1] + m * D[1] \in 0..XSize-1 /\ c[2] + m * D[2] \in 0..YSize-1
  BY <1>1, <1>3, <1>4, CellsAre, BoardSize
<1>6. QED
  BY <1>2, <1>3, <1>5, CellsAre

(* The walk of the code along the array stays on the board as long as the  *)
(* line in coordinates does: it never comes back to it past the wall.      *)
LEMMA WalkIsLine ==
    ASSUME NEW b, checkConsistency(b), NEW c \in Cells, NEW D \in Deltas, NEW n \in Nat
    PROVE  OnBoardUpTo(b, SpotAt(c), Off(D), n) <=> \A m \in 0..n : Along(c, D, m) \in Cells
<1> DEFINE On(m) == isOnBoard(b, SpotAt(c) + m * Off(D))
<1>1. OnBoardUpTo(b, SpotAt(c), Off(D), n) <=> \A m \in 0..n : On(m)
  BY DEF OnBoardUpTo
<1>2. On(0) /\ Along(c, D, 0) \in Cells
  BY FromCell
<1>3. \A m \in Nat \ {0} : Along(c, D, m - 1) \in Cells => (On(m) <=> Along(c, D, m) \in Cells)
  BY StepFromCell
<1> HIDE DEF On
<1>4. ASSUME NEW m \in 0..n, ~(On(m) /\ Along(c, D, m) \in Cells)
      PROVE  \E k \in 0..n : ~On(k) /\ ~(Along(c, D, k) \in Cells)
  <2> DEFINE A == {k \in Nat : ~(On(k) /\ Along(c, D, k) \in Cells)}
  <2>1. A \subseteq Nat /\ m \in A
    BY <1>4
  <2>2. PICK k \in A : \A j \in A : k <= j
    <3> HIDE DEF A
    <3>1. QED
      BY <2>1, LeastOf
  <2>3. k \in Nat \ {0} /\ k <= m
    BY <1>2, <2>1, <2>2
  <2>4. k - 1 \in Nat /\ ~(k <= k - 1)
    BY <2>3
  <2>5. Along(c, D, k - 1) \in Cells
    BY <2>2, <2>4
  <2>6. ~On(k) /\ ~(Along(c, D, k) \in Cells)
    BY <1>3, <2>3, <2>5
  <2>7. QED
    BY <2>3, <2>6
<1>5. QED
  BY <1>1, <1>4

(* What the walk of isLegal sees: an empty cell further along the line. *)
LEMMA SeesAlong ==
    ASSUME NEW b, checkConsistency(b), NEW c \in Cells, NEW D \in Deltas
    PROVE  SeesEmpty(b, SpotAt(c), Off(D)) <=>
             \E n \in 1..LineLen : /\ Along(c, D, n) \in Cells
                                   /\ ColorAt(b, Along(c, D, n)) = C_EMPTY
<1>1. ASSUME NEW n \in 1..LineLen
      PROVE  /\ OnBoardUpTo(b, SpotAt(c), Off(D), n - 1)
             /\ b.colors[SpotAt(c) + n * Off(D)] = C_EMPTY
             <=> /\ Along(c, D, n) \in Cells
                 /\ ColorAt(b, Along(c, D, n)) = C_EMPTY
  <2>1. n \in Nat \ {0} /\ n \in Nat /\ n - 1 \in Nat /\ n \in Int
    BY BoardSize
  <2>2. OnBoardUpTo(b, SpotAt(c), Off(D), n - 1) <=> \A m \in 0..n-1 : Along(c, D, m) \in Cells
    BY <2>1, WalkIsLine
  <2>3. SpotAt(c) + n * Off(D) = SpotAt(Along(c, D, n))
    BY <2>1, SpotAlong
  <2>4. ColorAt(b, Along(c, D, n)) = b.colors[SpotAt(c) + n * Off(D)]
    BY <2>3 DEF ColorAt, SpotAt
  <2>5. ASSUME Along(c, D, n) \in Cells
        PROVE  \A m \in 0..n-1 : Along(c, D, m) \in Cells
    BY <2>1, <2>5, OnePiece
  <2>6. ASSUME Along(c, D, n - 1) \in Cells, b.colors[SpotAt(c) + n * Off(D)] = C_EMPTY
        PROVE  Along(c, D, n) \in Cells
    <3>1. isOnBoard(b, SpotAt(c) + n * Off(D)) <=> Along(c, D, n) \in Cells
      BY <2>1, <2>6, StepFromCell
    <3>2. SpotAt(c) + n * Off(D) \in 0..ArrSize-1
      BY <2>1, <2>6, StepFromCell
    <3>3. QED
      BY <2>6, <3>1, <3>2 DEF isOnBoard, C_EMPTY, C_WALL
  <2>7. n - 1 \in 0..n-1
    BY <2>1
  <2>8. QED
    BY <2>2, <2>4, <2>5, <2>6, <2>7
<1>2. QED
  BY <1>1 DEF SeesEmpty

(* A cell on a line is some number of steps from where the line starts, and *)
(* not more than the board is long.                                        *)
LEMMA OnLineIs ==
    ASSUME NEW c \in Cells, NEW d \in Directions, NEW e \in Cells
    PROVE  OnLine(c, d, e) <=>
             \E k \in -LineLen..LineLen : e = <<c[1] + k * Step(d)[1], c[2] + k * Step(d)[2]>>
<1> DEFINE dx == e[1] - c[1]
           dy == e[2] - c[2]
<1>1. /\ e = <<e[1], e[2]>> /\ e[1] \in Int /\ e[2] \in Int /\ c[1] \in Int /\ c[2] \in Int
      /\ dx \in -LineLen..LineLen /\ dy \in -LineLen..LineLen /\ LineLen \in Nat
      /\ e[1] = c[1] + dx /\ e[2] = c[2] + dy
  BY CellsAre, BoardSize
<1>2. Step(d)[1] \in -1..1 /\ Step(d)[2] \in -1..1 BY OffsetsAre, DeltasAre
<1>3. \A k \in Int : e = <<c[1] + k * Step(d)[1], c[2] + k * Step(d)[2]>> <=>
                       dx = k * Step(d)[1] /\ dy = k * Step(d)[2]
  <2> TAKE k \in Int
  <2> DEFINE p == k * Step(d)[1]
             q == k * Step(d)[2]
  <2>1. p \in Int /\ q \in Int BY <1>2
  <2>2. e = <<c[1] + p, c[2] + q>> <=> e[1] = c[1] + p /\ e[2] = c[2] + q BY <1>1
  <2> HIDE DEF p, q
  <2>3. QED BY <1>1, <2>1, <2>2 DEF p, q
<1>4. OnLine(c, d, e) <=> dx * Step(d)[2] = dy * Step(d)[1] BY DEF OnLine
<1> SUFFICES OnLine(c, d, e) <=>
               \E k \in -LineLen..LineLen : dx = k * Step(d)[1] /\ dy = k * Step(d)[2]
  BY <1>1, <1>3
<1> HIDE DEF dx, dy
<1>5. d \in {D_NORTH, D_WEST, D_NORTHWEST, D_NORTHEAST}
  BY DEF Directions, D_NORTH, D_WEST, D_NORTHWEST, D_NORTHEAST
<1>6. dx \in Int /\ dy \in Int /\ -dx \in -LineLen..LineLen /\ -dy \in -LineLen..LineLen
  BY <1>1
<1>7. CASE d = D_NORTH
  <2>1. Step(d)[1] = 0 /\ Step(d)[2] = -1
    BY <1>7 DEF Step, D_NORTH, D_WEST, D_NORTHWEST, D_NORTHEAST
  <2>2. OnLine(c, d, e) <=> dx = 0 BY <1>4, <1>6, <2>1
  <2>3. \A k \in -LineLen..LineLen : dx = k * 0 /\ dy = k * (-1) <=> dx = 0 /\ k = -dy BY <1>6
  <2>4. QED BY <1>6, <2>1, <2>2, <2>3
<1>8. CASE d = D_WEST
  <2>1. Step(d)[1] = -1 /\ Step(d)[2] = 0
    BY <1>8 DEF Step, D_NORTH, D_WEST, D_NORTHWEST, D_NORTHEAST
  <2>2. OnLine(c, d, e) <=> dy = 0 BY <1>4, <1>6, <2>1
  <2>3. \A k \in -LineLen..LineLen : dx = k * (-1) /\ dy = k * 0 <=> dy = 0 /\ k = -dx BY <1>6
  <2>4. QED BY <1>6, <2>1, <2>2, <2>3
<1>9. CASE d = D_NORTHWEST
  <2>1. Step(d)[1] = -1 /\ Step(d)[2] = -1
    BY <1>9 DEF Step, D_NORTH, D_WEST, D_NORTHWEST, D_NORTHEAST
  <2>2. OnLine(c, d, e) <=> dx = dy BY <1>4, <1>6, <2>1
  <2>3. \A k \in -LineLen..LineLen :
            dx = k * (-1) /\ dy = k * (-1) <=> dx = dy /\ k = -dx BY <1>6
  <2>4. QED BY <1>6, <2>1, <2>2, <2>3
<1>10. CASE d = D_NORTHEAST
  <2>1. Step(d)[1] = 1 /\ Step(d)[2] = -1
    BY <1>10 DEF Step, D_NORTH, D_WEST, D_NORTHWEST, D_NORTHEAST
  <2>2. OnLine(c, d, e) <=> dx = -dy BY <1>4, <1>6, <2>1
  <2>3. \A k \in -LineLen..LineLen : dx = k * 1 /\ dy = k * (-1) <=> dx = -dy /\ k = dx BY <1>6
  <2>4. QED BY <1>1, <1>6, <2>1, <2>2, <2>3
<1>11. QED BY <1>5, <1>7, <1>8, <1>9, <1>10

(* The empty cells of a line are ahead on it or behind. *)
LEMMA OtherEmptyIs ==
    ASSUME NEW b, NEW c \in Cells, NEW d \in Directions
    PROVE  OtherEmptyOnLine(b, c, d) <=>
             \E D \in {Step(d), Back(d)} : \E n \in 1..LineLen :
               Along(c, D, n) \in Cells /\ ColorAt(b, Along(c, D, n)) = C_EMPTY
<1>1. /\ Step(d) \in Deltas /\ Back(d) \in Deltas
      /\ Back(d)[1] = -Step(d)[1] /\ Back(d)[2] = -Step(d)[2]
      /\ Step(d)[1] \in -1..1 /\ Step(d)[2] \in -1..1 /\ (Step(d)[1] # 0 \/ Step(d)[2] # 0)
  BY OffsetsAre, DeltasAre DEF Back
<1>2. /\ c = <<c[1], c[2]>> /\ c[1] \in Int /\ c[2] \in Int /\ LineLen \in Nat
  BY CellsAre, BoardSize
<1> DEFINE At(k) == <<c[1] + k * Step(d)[1], c[2] + k * Step(d)[2]>>
<1>3. \A n \in Int : Along(c, Step(d), n) = At(n) /\ Along(c, Back(d), n) = At(-n)
  <2> TAKE n \in Int
  <2>1. n * (-Step(d)[1]) = (-n) * Step(d)[1] /\ n * (-Step(d)[2]) = (-n) * Step(d)[2]
    BY <1>1
  <2>2. QED
    BY <1>1, <2>1 DEF Along
<1>4. At(0) = c
  BY <1>1, <1>2
<1>5. \A k \in Int : k # 0 => At(k) # c
  <2> SUFFICES ASSUME NEW k \in Int, k # 0, At(k) = c PROVE FALSE
    OBVIOUS
  <2>1. At(k)[1] = c[1] + k * Step(d)[1] /\ At(k)[2] = c[2] + k * Step(d)[2]
    OBVIOUS
  <2>2. c[1] = c[1] + k * Step(d)[1] /\ c[2] = c[2] + k * Step(d)[2]
    BY <2>1
  <2>3. k * Step(d)[1] = 0 /\ k * Step(d)[2] = 0
    <3>1. k * Step(d)[1] \in Int /\ k * Step(d)[2] \in Int
      BY <1>1
    <3>2. QED
      BY <1>2, <2>2, <3>1
  <2>4. QED
    BY <1>1, <2>3
<1>6. OtherEmptyOnLine(b, c, d) <=>
        \E k \in -LineLen..LineLen : /\ k # 0 /\ At(k) \in Cells
                                     /\ ColorAt(b, At(k)) = C_EMPTY
  <2> HIDE DEF At
  <2>1. \A e \in Cells : OnLine(c, d, e) <=> \E k \in -LineLen..LineLen : e = At(k)
    BY OnLineIs DEF At
  <2>2. \A k \in -LineLen..LineLen : k # 0 <=> At(k) # c
    BY <1>2, <1>4, <1>5
  <2>3. QED
    BY <2>1, <2>2 DEF OtherEmptyOnLine
<1> HIDE DEF At
<1>7. ASSUME NEW k \in -LineLen..LineLen, k # 0, At(k) \in Cells, ColorAt(b, At(k)) = C_EMPTY
      PROVE  \E D \in {Step(d), Back(d)} : \E n \in 1..LineLen :
               Along(c, D, n) \in Cells /\ ColorAt(b, Along(c, D, n)) = C_EMPTY
  <2>1. CASE k > 0
    <3>1. k \in 1..LineLen /\ Along(c, Step(d), k) = At(k)
      BY <1>2, <1>3, <1>7, <2>1
    <3>2. QED
      BY <1>7, <3>1
  <2>2. CASE ~(k > 0)
    <3> DEFINE n == -k
    <3>1. n \in 1..LineLen /\ n \in Int /\ -n = k
      BY <1>2, <1>7, <2>2
    <3>2. Along(c, Back(d), n) = At(k)
      BY <1>3, <3>1
    <3>3. QED
      BY <1>7, <3>1, <3>2
  <2>3. QED
    BY <2>1, <2>2
<1>8. ASSUME NEW D \in {Step(d), Back(d)}, NEW n \in 1..LineLen,
             Along(c, D, n) \in Cells, ColorAt(b, Along(c, D, n)) = C_EMPTY
      PROVE  \E k \in -LineLen..LineLen : /\ k # 0 /\ At(k) \in Cells
                                          /\ ColorAt(b, At(k)) = C_EMPTY
  <2>1. n \in Int /\ n \in -LineLen..LineLen /\ -n \in -LineLen..LineLen /\ n # 0 /\ -n # 0
    BY <1>2
  <2>2. Along(c, D, n) = At(n) \/ Along(c, D, n) = At(-n)
    BY <1>3, <2>1
  <2>3. QED
    BY <1>8, <2>1, <2>2
<1>9. QED
  BY <1>6, <1>7, <1>8

(* Coordinates of a spot. *)
LEMMA CoordinatesAre ==
    ASSUME NEW c \in Cells
    PROVE  getX(SpotAt(c)) = c[1] /\ getY(SpotAt(c)) = c[2]
<1> DEFINE w == Width
           a == c[1] + 1
           q == c[2] + 1
           s == SpotAt(c)
<1>1. /\ a \in Nat /\ q \in Nat /\ w \in Nat /\ w >= 1 /\ a < w /\ s = q * w + a
      /\ c[1] \in Int /\ c[2] \in Int
  <2>1. /\ c[1] \in 0..XSize-1 /\ c[2] \in 0..YSize-1 /\ c[1] \in Int /\ c[2] \in Int
        /\ a \in Nat /\ q \in Nat /\ a < w
    BY CellsAre, BoardSize
  <2>2. s = a + q * w
    BY DEF SpotAt, getSpot
  <2> HIDE DEF a, q, w, s
  <2>3. QED
    BY <2>1, <2>2, BoardSize DEF w
<1>2. s \div w = q /\ s % w = a
  <2> HIDE DEF a, q, w, s
  <2>1. QED
    BY <1>1, DivModUnique
<1>3. getX(SpotAt(c)) = (s % w) - 1 /\ getY(SpotAt(c)) = (s \div w) - 1
  BY DEF getX, getY
<1> HIDE DEF w, s
<1>4. QED
  BY <1>1, <1>2, <1>3

(* The switch on the direction of the last move, in coordinates. *)
LEMMA ObeysIs ==
    ASSUME NEW b, NEW c \in Cells, NEW l \in Cells, NEW d \in Directions,
           b.lastLoc = [spot |-> SpotAt(l), dir |-> d], c # l
    PROVE  ObeysLastMove(b, SpotAt(c)) <=> OnLine(l, d, c)
<1> DEFINE dx == c[1] - l[1]
           dy == c[2] - l[2]
<1>1. ObeysLastMove(b, SpotAt(c)) <=>
        CASE d = D_NORTH     -> dx = 0 /\ dy # 0
          [] d = D_WEST      -> dx # 0 /\ dy = 0
          [] d = D_NORTHWEST -> dx = dy
          [] d = D_NORTHEAST -> dx = -dy
          [] OTHER           -> TRUE
  BY CoordinatesAre DEF ObeysLastMove
<1>2. /\ c = <<c[1], c[2]>> /\ l = <<l[1], l[2]>>
      /\ c[1] \in Int /\ c[2] \in Int /\ l[1] \in Int /\ l[2] \in Int
      /\ dx \in -LineLen..LineLen /\ dy \in -LineLen..LineLen
      /\ -dx \in -LineLen..LineLen /\ -dy \in -LineLen..LineLen
      /\ dx \in Int /\ dy \in Int
      /\ c[1] = l[1] + dx /\ c[2] = l[2] + dy
  BY CellsAre, BoardSize
<1>3. dx # 0 \/ dy # 0
  BY <1>2
<1>4. OnLine(l, d, c) <=> dx * Step(d)[2] = dy * Step(d)[1]
  BY DEF OnLine
<1> HIDE DEF dx, dy
<1>5. d \in {D_NORTH, D_WEST, D_NORTHWEST, D_NORTHEAST}
  BY DEF Directions, D_NORTH, D_WEST, D_NORTHWEST, D_NORTHEAST
<1>6. CASE d = D_NORTH
  <2>1. Step(d)[1] = 0 /\ Step(d)[2] = -1
    BY <1>6 DEF Step, D_NORTH, D_WEST, D_NORTHWEST, D_NORTHEAST
  <2>2. OnLine(l, d, c) <=> dx = 0
    BY <1>2, <1>4, <2>1
  <2>3. QED
    BY <1>1, <1>3, <1>6, <2>2 DEF D_NORTH, D_WEST, D_NORTHWEST, D_NORTHEAST
<1>7. CASE d = D_WEST
  <2>1. Step(d)[1] = -1 /\ Step(d)[2] = 0
    BY <1>7 DEF Step, D_NORTH, D_WEST, D_NORTHWEST, D_NORTHEAST
  <2>2. OnLine(l, d, c) <=> dy = 0
    BY <1>2, <1>4, <2>1
  <2>3. QED
    BY <1>1, <1>3, <1>7, <2>2 DEF D_NORTH, D_WEST, D_NORTHWEST, D_NORTHEAST
<1>8. CASE d = D_NORTHWEST
  <2>1. Step(d)[1] = -1 /\ Step(d)[2] = -1
    BY <1>8 DEF Step, D_NORTH, D_WEST, D_NORTHWEST, D_NORTHEAST
  <2>2. OnLine(l, d, c) <=> dx = dy
    BY <1>2, <1>4, <2>1
  <2>3. QED
    BY <1>1, <1>3, <1>8, <2>2 DEF D_NORTH, D_WEST, D_NORTHWEST, D_NORTHEAST
<1>9. CASE d = D_NORTHEAST
  <2>1. Step(d)[1] = 1 /\ Step(d)[2] = -1
    BY <1>9 DEF Step, D_NORTH, D_WEST, D_NORTHWEST, D_NORTHEAST
  <2>2. OnLine(l, d, c) <=> dx = -dy
    BY <1>2, <1>4, <2>1
  <2>3. QED
    BY <1>1, <1>3, <1>9, <2>2 DEF D_NORTH, D_WEST, D_NORTHWEST, D_NORTHEAST
<1>10. QED
  BY <1>5, <1>6, <1>7, <1>8, <1>9

(* Each cell has its own spot. *)
LEMMA SpotsDiffer == \A e, f \in Cells : SpotAt(e) = SpotAt(f) => e = f
<1> TAKE e, f \in Cells
<1>1. /\ e = <<e[1], e[2]>> /\ f = <<f[1], f[2]>>
      /\ e[1] \in -1..XSize-1 /\ f[1] \in -1..XSize-1 /\ e[2] \in Int /\ f[2] \in Int
  BY CellsAre, BoardSize
<1>2. SpotAt(e) = SpotAt(f) => e[1] = f[1] /\ e[2] = f[2]
  BY <1>1, SpotIsUnique DEF SpotAt
<1>3. QED
  BY <1>1, <1>2

(* isLegal accepts what the rules accept, where the stone of the last move *)
(* is on the board.                                                        *)
LEMMA LegalIs ==
    ASSUME NEW b, checkConsistency(b), b.lastLoc \in Locs \cup {NoLoc},
           b.lastLoc # NoLoc => b.colors[b.lastLoc.spot] # C_EMPTY,
           NEW pla \in Players, NEW c \in Cells, NEW d \in Directions
    PROVE  isLegal(b, [spot |-> SpotAt(c), dir |-> d], pla) <=> LegalByTheRules(b, c, d)
<1>1. isLegal(b, [spot |-> SpotAt(c), dir |-> d], pla) <=>
        /\ b.colors[SpotAt(c)] = C_EMPTY /\ ObeysLastMove(b, SpotAt(c))
        /\ SeesEmpty(b, SpotAt(c), ADJ[d]) \/ SeesEmpty(b, SpotAt(c), -ADJ[d])
  BY DEF isLegal
<1>2. SeesEmpty(b, SpotAt(c), ADJ[d]) \/ SeesEmpty(b, SpotAt(c), -ADJ[d]) <=>
        OtherEmptyOnLine(b, c, d)
  <2>1. /\ SeesEmpty(b, SpotAt(c), ADJ[d]) <=>
             \E n \in 1..LineLen : /\ Along(c, Step(d), n) \in Cells
                                   /\ ColorAt(b, Along(c, Step(d), n)) = C_EMPTY
        /\ SeesEmpty(b, SpotAt(c), -ADJ[d]) <=>
             \E n \in 1..LineLen : /\ Along(c, Back(d), n) \in Cells
                                   /\ ColorAt(b, Along(c, Back(d), n)) = C_EMPTY
    BY OffsetsAre, SeesAlong
  <2>2. QED
    BY <2>1, OtherEmptyIs
<1>3. ASSUME b.colors[SpotAt(c)] = C_EMPTY
      PROVE  ObeysLastMove(b, SpotAt(c)) <=> OnLastLine(b, SpotAt(c))
  <2>1. CASE b.lastLoc = NoLoc
    BY <2>1 DEF ObeysLastMove, OnLastLine, NoLoc, D_NORTH, D_WEST, D_NORTHWEST, D_NORTHEAST, D_NONE
  <2>2. CASE b.lastLoc # NoLoc
    <3>1. PICK l \in Cells : b.lastLoc.spot = SpotAt(l)
      BY <2>2 DEF Locs, Spots, Cells, SpotAt
    <3>2. b.lastLoc = [spot |-> SpotAt(l), dir |-> b.lastLoc.dir] /\ b.lastLoc.dir \in Directions
      BY <2>2, <3>1 DEF Locs
    <3>3. c # l
      BY <1>3, <2>2, <3>1
    <3>4. ObeysLastMove(b, SpotAt(c)) <=> OnLine(l, b.lastLoc.dir, c)
      BY <3>2, <3>3, ObeysIs
    <3>5. \A e, f \in Cells : SpotAt(e) = SpotAt(f) => e = f
      BY SpotsDiffer
    <3>6. OnLastLine(b, SpotAt(c)) <=> OnLine(l, b.lastLoc.dir, c)
      <4>1. OnLastLine(b, SpotAt(c)) <=>
              \E e, f \in Cells : /\ SpotAt(e) = SpotAt(l) /\ SpotAt(f) = SpotAt(c)
                                  /\ OnLine(e, b.lastLoc.dir, f)
        BY <2>2, <3>1 DEF OnLastLine, SpotAt
      <4>2. QED
        BY <3>5, <4>1
    <3>7. QED
      BY <3>4, <3>6
  <2>3. QED
    BY <2>1, <2>2
<1>4. ColorAt(b, c) = b.colors[SpotAt(c)] /\ getSpot(c[1], c[2]) = SpotAt(c)
  BY DEF ColorAt, SpotAt
<1>5. QED
  BY <1>1, <1>2, <1>3, <1>4 DEF LegalByTheRules
-----------------------------------------------------------------------------
(* How many cells of one colour follow each other. *)

(* A set of numbers from 1 on with no gap is as long as it is large. *)
LEMMA NoGap ==
    ASSUME NEW L \in Nat, NEW A, A \subseteq 1..L, \A n \in A : \A m \in 1..n : m \in A
    PROVE  Cardinality(A) \in 0..L /\ A = 1..Cardinality(A)
<1> DEFINE B == {n \in Nat : n >= 1 /\ n \notin A}
<1>1. B \subseteq Nat /\ L + 1 \in B
  OBVIOUS
<1>2. PICK m \in B : \A k \in B : m <= k
  <2> HIDE DEF B
  <2>1. QED
    BY <1>1, LeastOf
<1>3. m - 1 \in Nat /\ m - 1 <= L /\ m >= 1 /\ m \in Nat
  BY <1>1, <1>2
<1>4. A = 1..m-1
  <2>1. ASSUME NEW n \in A PROVE n \in 1..m-1
    <3>1. n \in Nat /\ n >= 1 /\ ~(m \in 1..n)
      BY <1>2
    <3>2. QED
      BY <1>3, <3>1
  <2>2. ASSUME NEW n \in 1..m-1 PROVE n \in A
    BY <1>2, <1>3
  <2>3. QED
    BY <2>1, <2>2
<1>5. Cardinality(1..m-1) = m - 1
  <2>1. 1 \in Int /\ m - 1 \in Int
    BY <1>3
  <2>2. Cardinality(1..m-1) = IF 1 > m - 1 THEN 0 ELSE (m - 1) - 1 + 1
    BY <2>1, FS_Interval
  <2>3. QED
    BY <1>3, <2>2
<1>6. QED
  BY <1>3, <1>4, <1>5

(* No line is longer than LineLen. *)
LEMMA LineEnds ==
    ASSUME NEW c \in Cells, NEW D \in Deltas, NEW n \in Nat, n > LineLen
    PROVE  Along(c, D, n) \notin Cells
<1>1. /\ Along(c, D, n) = <<c[1] + n * D[1], c[2] + n * D[2]>>
      /\ c[1] \in 0..XSize-1 /\ c[2] \in 0..YSize-1
      /\ D[1] \in -1..1 /\ D[2] \in -1..1 /\ (D[1] # 0 \/ D[2] # 0)
      /\ n > XSize + YSize
  BY CellsAre, DeltasAre, BoardSize DEF Along
<1>2. \A e \in -1..1 : n * e \in Int /\ (e = 1 => n * e = n) /\ (e = -1 => n * e = -n)
  OBVIOUS
<1>3. ~(c[1] + n * D[1] \in 0..XSize-1 /\ c[2] + n * D[2] \in 0..YSize-1)
  BY <1>1, <1>2, BoardSize
<1>4. c[1] + n * D[1] \in Int /\ c[2] + n * D[2] \in Int
  BY <1>1, <1>2, BoardSize
<1>5. QED
  BY <1>1, <1>3, <1>4, CellsAre

\* The cell m steps away has the colour of c.
Same(b, c, D, m) ==
    Along(c, D, m) \in Cells /\ ColorAt(b, Along(c, D, m)) = b.colors[SpotAt(c)]

(* The walk of maxConsecutives counts the cells of the line with the colour *)
(* of the first, up to one that differs.                                   *)
LEMMA RunIs ==
    ASSUME NEW b, checkConsistency(b), NEW c \in Cells, NEW D \in Deltas
    PROVE  /\ Run(b, SpotAt(c), Off(D)) \in Nat
           /\ \A n \in Nat \ {0} : n <= Run(b, SpotAt(c), Off(D)) <=>
                                     \A m \in 1..n : Same(b, c, D, m)
<1> DEFINE Good(m) == /\ isOnBoard(b, SpotAt(c) + m * Off(D))
                      /\ b.colors[SpotAt(c) + m * Off(D)] = b.colors[SpotAt(c)]
           A == {n \in 1..LineLen : \A m \in 1..n : Good(m)}
           r == Cardinality(A)
<1>1. Run(b, SpotAt(c), Off(D)) = r
  BY DEF Run
<1>2. \A n \in Nat : (\A m \in 1..n : isOnBoard(b, SpotAt(c) + m * Off(D)))
                     <=> \A m \in 1..n : Along(c, D, m) \in Cells
  <2> TAKE n \in Nat
  <2>1. OnBoardUpTo(b, SpotAt(c), Off(D), n) <=> \A m \in 0..n : Along(c, D, m) \in Cells
    BY WalkIsLine
  <2>2. /\ isOnBoard(b, SpotAt(c) + 0 * Off(D)) /\ Along(c, D, 0) \in Cells
    BY FromCell
  <2>3. \A m \in 0..n : m = 0 \/ m \in 1..n
    OBVIOUS
  <2>4. \A m \in 1..n : m \in 0..n
    OBVIOUS
  <2>5. QED
    BY <2>1, <2>2, <2>3, <2>4 DEF OnBoardUpTo
<1>3. \A m \in Nat : ColorAt(b, Along(c, D, m)) = b.colors[SpotAt(c) + m * Off(D)]
  BY SpotAlong DEF ColorAt, SpotAt
<1>4. \A n \in Nat : (\A m \in 1..n : Good(m)) <=> \A m \in 1..n : Same(b, c, D, m)
  <2> TAKE n \in Nat
  <2>1. \A m \in 1..n : m \in Nat
    OBVIOUS
  <2>2. QED
    BY <1>2, <1>3, <2>1 DEF Same
<1> HIDE DEF Good
<1>5. r \in 0..LineLen /\ A = 1..r
  <2>1. A \subseteq 1..LineLen /\ LineLen \in Nat
    BY BoardSize
  <2>2. \A n \in A : \A m \in 1..n : m \in A
    <3> TAKE n \in A
    <3> TAKE m \in 1..n
    <3>1. m \in 1..LineLen /\ \A k \in 1..m : k \in 1..n
      BY <2>1
    <3>2. QED
      BY <3>1
  <2> HIDE DEF A
  <2>3. QED
    BY <2>1, <2>2, NoGap
<1>6. ASSUME NEW n \in Nat \ {0}
      PROVE  n <= r <=> \A m \in 1..n : Same(b, c, D, m)
  <2>1. n <= r <=> n \in A
    BY <1>5, BoardSize
  <2>2. ASSUME \A m \in 1..n : Same(b, c, D, m) PROVE n \in 1..LineLen
    <3>1. n \in 1..n /\ n \in Nat
      OBVIOUS
    <3>2. Along(c, D, n) \in Cells
      BY <2>2, <3>1 DEF Same
    <3>3. QED
      BY <3>1, <3>2, LineEnds, BoardSize
  <2>3. QED
    BY <1>4, <2>1, <2>2
<1>7. r \in Nat
  BY <1>5, BoardSize
<1>8. QED
  BY <1>1, <1>6, <1>7

(* Of numbers around 0, S, the ones up to p are in it, and down to -q: there *)
(* is a row of len with 0 or next to it if and only if they are enough.    *)
LEMMA RowsAndRuns ==
    ASSUME NEW S, 0 \in S, NEW p \in Nat, NEW q \in Nat, NEW len \in Nat \ {0},
           \A n \in Nat \ {0} : n <= p <=> \A m \in 1..n : m \in S,
           \A n \in Nat \ {0} : n <= q <=> \A m \in 1..n : -m \in S
    PROVE  1 + q + p >= len <=> \E start \in -len..0 : \A k \in start..(start + len - 1) : k \in S
<1>1. \A k \in 0..p : k \in S
  <2> TAKE k \in 0..p
  <2>1. CASE k = 0
    BY <2>1
  <2>2. CASE k # 0
    <3>1. k \in Nat \ {0} /\ k <= p /\ k \in 1..k
      BY <2>2
    <3>2. QED
      BY <3>1
  <2>3. QED
    BY <2>1, <2>2
<1>2. \A k \in -q..0 : k \in S
  <2> TAKE k \in -q..0
  <2>1. CASE k = 0
    BY <2>1
  <2>2. CASE k # 0
    <3> DEFINE m == -k
    <3>1. m \in Nat \ {0} /\ m <= q /\ m \in 1..m /\ k = -m
      BY <2>2
    <3>2. QED
      BY <3>1
  <2>3. QED
    BY <2>1, <2>2
<1>3. \A k \in -q..p : k \in S
  <2> TAKE k \in -q..p
  <2>1. k \in 0..p \/ k \in -q..0
    OBVIOUS
  <2>2. QED
    BY <1>1, <1>2, <2>1
<1>4. ASSUME 1 + q + p >= len
      PROVE  \E start \in -len..0 : \A k \in start..(start + len - 1) : k \in S
  <2>1. CASE q >= len - 1
    <3> DEFINE start == 1 - len
    <3>1. start \in -len..0 /\ start + len - 1 = 0 /\ start >= -q
      BY <2>1
    <3>2. \A k \in start..(start + len - 1) : k \in -q..p
      BY <3>1
    <3>3. QED
      BY <1>3, <3>1, <3>2
  <2>2. CASE q < len - 1
    <3> DEFINE start == -q
    <3>1. start \in -len..0 /\ start + len - 1 <= p
      BY <1>4, <2>2
    <3>2. \A k \in start..(start + len - 1) : k \in -q..p
      BY <3>1
    <3>3. QED
      BY <1>3, <3>1, <3>2
  <2>3. QED
    BY <2>1, <2>2
<1>5. ASSUME NEW start \in -len..0, \A k \in start..(start + len - 1) : k \in S
      PROVE  1 + q + p >= len
  <2> DEFINE a == -start
             z == start + len - 1
  <2>1. a \in Nat /\ z \in Int /\ z >= -1 /\ start = -a
    OBVIOUS
  <2>2. a <= q
    <3>1. CASE a = 0
      BY <3>1
    <3>2. CASE a # 0 /\ a # len
      <4>1. \A m \in 1..a : -m \in start..z
        BY <2>1, <3>2
      <4>2. QED
        BY <1>5, <2>1, <3>2, <4>1
    <3>3. CASE a = len
      <4>1. \A m \in 1..a : -m \in start..z
        BY <2>1, <3>3
      <4>2. a \in Nat \ {0}
        BY <3>3
      <4>3. QED
        BY <1>5, <4>1, <4>2
    <3>4. QED
      BY <3>1, <3>2, <3>3
  <2>3. z <= p
    <3>1. CASE z <= 0
      BY <3>1
    <3>2. CASE z > 0
      <4>1. z \in Nat \ {0} /\ \A m \in 1..z : m \in start..z
        BY <2>1, <3>2
      <4>2. QED
        BY <1>5, <4>1
    <3>3. QED
      BY <2>1, <3>1, <3>2
  <2>4. QED
    BY <2>1, <2>2, <2>3
<1>6. QED
  BY <1>4, <1>5

(* The end of the game in the code is a row by the rules. *)
LEMMA RowIs ==
    ASSUME NEW b, checkConsistency(b), NEW c \in Cells, NEW len \in Nat \ {0}
    PROVE  HasConsecutives(b, SpotAt(c), len) <=>
             \E d \in Directions : RowOfColor(b, c, d, len, b.colors[SpotAt(c)])
<1>1. ASSUME NEW d \in Directions
      PROVE  /\ 1 + Run(b, SpotAt(c), -ADJ[d]) + Run(b, SpotAt(c), ADJ[d]) >= len
                <=> RowOfColor(b, c, d, len, b.colors[SpotAt(c)])
             /\ Run(b, SpotAt(c), -ADJ[d]) \in Nat /\ Run(b, SpotAt(c), ADJ[d]) \in Nat
  <2> DEFINE At(k) == <<c[1] + k * Step(d)[1], c[2] + k * Step(d)[2]>>
             S == {k \in Int : At(k) \in Cells /\ ColorAt(b, At(k)) = b.colors[SpotAt(c)]}
             p == Run(b, SpotAt(c), ADJ[d])
             q == Run(b, SpotAt(c), -ADJ[d])
  <2>1. /\ Step(d) \in Deltas /\ Back(d) \in Deltas
        /\ ADJ[d] = Off(Step(d)) /\ -ADJ[d] = Off(Back(d))
        /\ Back(d)[1] = -Step(d)[1] /\ Back(d)[2] = -Step(d)[2]
        /\ Step(d)[1] \in -1..1 /\ Step(d)[2] \in -1..1
    BY OffsetsAre, DeltasAre DEF Back
  <2>2. \A n \in Int : Along(c, Step(d), n) = At(n) /\ Along(c, Back(d), n) = At(-n)
    <3> TAKE n \in Int
    <3>1. n * (-Step(d)[1]) = (-n) * Step(d)[1] /\ n * (-Step(d)[2]) = (-n) * Step(d)[2]
      BY <2>1
    <3>2. QED
      BY <2>1, <3>1 DEF Along
  <2> HIDE DEF At
  <2>3. \A m \in Nat : (m \in S <=> Same(b, c, Step(d), m)) /\ (-m \in S <=> Same(b, c, Back(d), m))
    <3> TAKE m \in Nat
    <3>1. m \in Int /\ -m \in Int
      OBVIOUS
    <3>2. QED
      BY <2>2, <3>1 DEF Same
  <2>4. 0 \in S
    <3>1. Along(c, Step(d), 0) = c
      BY <2>1, FromCell
    <3>2. Same(b, c, Step(d), 0)
      BY <3>1 DEF Same, ColorAt, SpotAt
    <3>3. QED
      BY <2>3, <3>2
  <2>5. /\ p \in Nat /\ q \in Nat
        /\ \A n \in Nat \ {0} : n <= p <=> \A m \in 1..n : Same(b, c, Step(d), m)
        /\ \A n \in Nat \ {0} : n <= q <=> \A m \in 1..n : Same(b, c, Back(d), m)
    BY <2>1, RunIs
  <2>6. /\ \A n \in Nat \ {0} : n <= p <=> \A m \in 1..n : m \in S
        /\ \A n \in Nat \ {0} : n <= q <=> \A m \in 1..n : -m \in S
    <3>1. \A n \in Nat \ {0} : \A m \in 1..n : m \in Nat
      OBVIOUS
    <3> HIDE DEF S, p, q
    <3>2. QED
      BY <2>3, <2>5, <3>1
  <2>7. RowOfColor(b, c, d, len, b.colors[SpotAt(c)]) <=>
          \E start \in -len..0 : \A k \in start..(start + len - 1) : k \in S
    <3>1. \A start \in -len..0 : \A k \in start..(start + len - 1) : k \in Int
      OBVIOUS
    <3>2. QED
      BY <3>1 DEF RowOfColor, At
  <2> HIDE DEF S, p, q
  <2>8. 1 + q + p >= len <=> \E start \in -len..0 : \A k \in start..(start + len - 1) : k \in S
    BY <2>4, <2>5, <2>6, RowsAndRuns
  <2>9. QED
    BY <2>5, <2>7, <2>8 DEF p, q
<1>2. CASE len <= 1
  <2>1. PICK d \in Directions : TRUE
    BY DEF Directions, D_NORTH, D_NORTHEAST
  <2>2. 1 + Run(b, SpotAt(c), -ADJ[d]) + Run(b, SpotAt(c), ADJ[d]) >= len
    BY <1>1, <1>2
  <2>3. QED
    BY <1>1, <1>2, <2>2 DEF HasConsecutives
<1>3. CASE ~(len <= 1)
  BY <1>1, <1>3 DEF HasConsecutives
<1>4. QED
  BY <1>2, <1>3
-----------------------------------------------------------------------------
(* LegalAgreesWithRules is inductive with the stone of the last move, which *)
(* is on the board also after Clear.                                       *)
LinesAgree ==
    /\ BoardConsistent
    /\ board.lastLoc # NoLoc => board.colors[board.lastLoc.spot] # C_EMPTY
    /\ LastLineHasRoom

\* After a legal move the line it was played along has another empty cell.
LEMMA LegalLeavesRoom ==
    ASSUME LinesAgree, NEW loc \in Locs, isLegal(board, loc, nextPla)
    PROVE  LET b == playMoveAssumeLegal(board, loc, nextPla)
           IN  /\ b.colors[loc.spot] = nextPla /\ nextPla # C_EMPTY /\ b.lastLoc = loc
               /\ \E c \in Cells : SpotAt(c) = loc.spot /\ OtherEmptyOnLine(b, c, loc.dir)
<1> DEFINE b == playMoveAssumeLegal(board, loc, nextPla)
<1>1. /\ board \in Boards /\ checkConsistency(board) /\ nextPla \in Players
      /\ board.lastLoc \in Locs \cup {NoLoc}
  BY DEF LinesAgree, BoardConsistent, TypeOK, Boards
<1>2. PICK c \in Cells : loc.spot = SpotAt(c)
  BY DEF Locs, Spots, Cells, SpotAt
<1>3. loc = [spot |-> SpotAt(c), dir |-> loc.dir] /\ loc.dir \in Directions
  BY <1>2 DEF Locs
<1>4. OtherEmptyOnLine(board, c, loc.dir)
  <2>1. isLegal(board, [spot |-> SpotAt(c), dir |-> loc.dir], nextPla)
    BY <1>3
  <2>2. LegalByTheRules(board, c, loc.dir)
    BY <1>1, <1>3, <2>1, LegalIs DEF LinesAgree
  <2>3. QED
    BY <2>2 DEF LegalByTheRules
<1>5. \A e \in Cells : SpotAt(e) \in 0..ArrSize-1
  BY SpotsAreIndices DEF Spots, Cells, SpotAt
<1>6. b.colors = [board.colors EXCEPT ![loc.spot] = nextPla] /\ b.lastLoc = loc
  BY <1>1 DEF playMoveAssumeLegal, Boards
<1>7. board.colors \in [0..ArrSize-1 -> C_EMPTY..C_WALL]
  BY <1>1 DEF Boards
<1>8. \A e \in Cells \ {c} : ColorAt(b, e) = ColorAt(board, e)
  <2> TAKE e \in Cells \ {c}
  <2>1. SpotAt(e) # SpotAt(c)
    BY SpotsDiffer
  <2> HIDE DEF b
  <2>2. QED
    BY <1>2, <1>5, <1>6, <1>7, <2>1 DEF ColorAt, SpotAt
<1>9. OtherEmptyOnLine(b, c, loc.dir)
  <2> HIDE DEF b
  <2>1. QED
    BY <1>4, <1>8 DEF OtherEmptyOnLine
<1>10. b.colors[loc.spot] = nextPla
  <2> HIDE DEF b
  <2>1. QED
    BY <1>2, <1>5, <1>6, <1>7
<1>11. nextPla # C_EMPTY
  BY <1>1 DEF Players, C_EMPTY, C_BLACK, C_WHITE
<1>12. QED
  BY <1>2, <1>6, <1>9, <1>10, <1>11

\* Nothing was played yet.
LEMMA InitLines == Init => LinesAgree
<1> SUFFICES ASSUME Init PROVE LinesAgree
  OBVIOUS
<1>1. board.lastLoc = NoLoc
  BY DEF Init, EmptyBoard
<1>2. QED
  BY <1>1, InitBoard DEF LinesAgree, LastLineHasRoom

\* Every operation leaves some other cell of the last line empty.
LEMMA StepLines == LinesAgree /\ [Next]_vars => LinesAgree'
<1> SUFFICES ASSUME LinesAgree, [Next]_vars PROVE LinesAgree'
  OBVIOUS
<1>1. BoardConsistent'
  BY StepBoard DEF LinesAgree
<1>2. ASSUME NEW loc \in Locs, isLegal(board, loc, nextPla),
             board' = playMoveAssumeLegal(board, loc, nextPla)
      PROVE  LinesAgree'
  <2>1. /\ board'.colors[loc.spot] # C_EMPTY /\ board'.lastLoc = loc
        /\ \E c \in Cells : SpotAt(c) = loc.spot /\ OtherEmptyOnLine(board', c, loc.dir)
    BY <1>2, LegalLeavesRoom
  <2>2. LastLineHasRoom'
    BY <2>1 DEF LastLineHasRoom, SpotAt
  <2>3. QED
    BY <1>1, <2>1, <2>2 DEF LinesAgree
<1>3. CASE board' = board
  BY <1>1, <1>3 DEF LinesAgree, LastLineHasRoom
<1>4. CASE \E pla \in Players : Clear(pla)
  BY <1>3, <1>4 DEF Clear
<1>5. CASE \E loc \in Locs : makeBoardMoveAssumeLegal(loc)
  BY <1>2, <1>5 DEF makeBoardMoveAssumeLegal, PlayAndPush
<1>6. CASE \E loc \in Locs : makeBoardMove(loc)
  BY <1>2, <1>6 DEF makeBoardMove, PlayAndPush
<1>7. CASE \E pla \in Players : setWinnerByResignation(pla)
  BY <1>3, <1>7 DEF setWinnerByResignation
<1>8. CASE UNCHANGED vars
  BY <1>3, <1>8 DEF vars
<1>9. QED
  BY <1>4, <1>5, <1>6, <1>7, <1>8 DEF Next

\* So what the walks decide is what the rules say.
LEMMA LinesGiveRules == LinesAgree => LegalAgreesWithRules
<1> SUFFICES ASSUME LinesAgree PROVE LegalAgreesWithRules
  OBVIOUS
<1>1. ASSUME NEW c \in Cells, NEW d \in Directions
      PROVE  isLegal(board, [spot |-> getSpot(c[1], c[2]), dir |-> d], nextPla)
               <=> LegalByTheRules(board, c, d)
  <2>1. /\ checkConsistency(board) /\ board.lastLoc \in Locs \cup {NoLoc}
        /\ board.lastLoc # NoLoc => board.colors[board.lastLoc.spot] # C_EMPTY
        /\ nextPla \in Players
    BY DEF LinesAgree, BoardConsistent, TypeOK, Boards
  <2>2. QED
    BY <2>1, LegalIs DEF SpotAt
<1>2. QED
  BY <1>1 DEF LegalAgreesWithRules, LinesAgree

\* On a board of any size, the walks of isLegal over the array with one shared
\* column of wall accept exactly what the rules in coordinates accept, for
\* every position a game leads to, with histories cleared in between; and the
\* line of the last move has an empty cell left.
THEOREM LegalIsByTheRules == Spec => []LegalAgreesWithRules
<1> QED
  BY InitLines, StepLines, LinesGiveRules, PTL DEF Spec

-----------------------------------------------------------------------------
(* What the history says of the last move: FinishedIffRow by the words of  *)
(* the code.                                                               *)
EndIsRecorded ==
    /\ LinesAgree
    /\ (numTurns > 0 /\ ~isResignation) =>
         /\ board.lastLoc \in Locs /\ board.colors[board.lastLoc.spot] = getOpp(nextPla)
         /\ isGameFinished = checkGameEnd(board)
         /\ winner = IF checkGameEnd(board) THEN getOpp(nextPla) ELSE C_EMPTY

\* Every operation records the end of the game, or that there is none.
LEMMA StepEnd == EndIsRecorded /\ [Next]_vars => EndIsRecorded'
<1> SUFFICES ASSUME EndIsRecorded, [Next]_vars PROVE EndIsRecorded'
  OBVIOUS
<1>1. LinesAgree' /\ LinesAgree
  BY StepLines DEF EndIsRecorded
<1>2. ASSUME NEW loc \in Locs, isLegal(board, loc, nextPla),
             \E n \in 1..2 : PlayAndPush(loc, n)
      PROVE  EndIsRecorded'
  <2>1. /\ board' = playMoveAssumeLegal(board, loc, nextPla)
        /\ isGameFinished' = checkGameEnd(board')
        /\ winner' = IF checkGameEnd(board') THEN nextPla ELSE C_EMPTY
        /\ nextPla' = getOpp(nextPla)
    BY <1>2 DEF PlayAndPush
  <2>2. board'.colors[loc.spot] = nextPla /\ board'.lastLoc = loc
    BY <1>1, <1>2, <2>1, LegalLeavesRoom
  <2>3. getOpp(nextPla') = nextPla
    <3>1. nextPla \in Players
      BY <1>1 DEF LinesAgree, BoardConsistent, TypeOK
    <3>2. QED
      BY <2>1, <3>1 DEF getOpp, Players, C_BLACK, C_WHITE
  <2>4. (checkGameEnd(board))' = checkGameEnd(board')
    BY DEF checkGameEnd, HasConsecutives, Run, isOnBoard
  <2>5. QED
    BY <1>1, <1>2, <2>1, <2>2, <2>3, <2>4 DEF EndIsRecorded
<1>3. CASE \E pla \in Players : Clear(pla)
  <2>1. numTurns' = 0
    BY <1>3 DEF Clear, ClearWith
  <2>2. QED
    BY <1>1, <2>1 DEF EndIsRecorded
<1>4. CASE \E loc \in Locs : makeBoardMoveAssumeLegal(loc)
  BY <1>2, <1>4 DEF makeBoardMoveAssumeLegal
<1>5. CASE \E loc \in Locs : makeBoardMove(loc)
  BY <1>2, <1>5 DEF makeBoardMove
<1>6. CASE \E pla \in Players : setWinnerByResignation(pla)
  BY <1>1, <1>6 DEF setWinnerByResignation, EndIsRecorded
<1>7. CASE UNCHANGED vars
  BY <1>1, <1>7 DEF vars, histVars, EndIsRecorded, checkGameEnd
<1>8. QED
  BY <1>3, <1>4, <1>5, <1>6, <1>7 DEF Next

\* What is recorded is what the rows on the board say.
LEMMA EndGivesRow == EndIsRecorded => FinishedIffRow
<1> SUFFICES ASSUME EndIsRecorded, numTurns > 0, ~isResignation
             PROVE  LET mover == getOpp(nextPla)
                        row == \E c \in Cells, d \in Directions :
                                  /\ getSpot(c[1], c[2]) = board.lastLoc.spot
                                  /\ RowOfColor(board, c, d, WinLen, mover)
                    IN /\ isGameFinished <=> row
                       /\ winner = IF row THEN mover ELSE C_EMPTY
  BY DEF FinishedIffRow
<1>1. /\ board.lastLoc \in Locs /\ board.colors[board.lastLoc.spot] = getOpp(nextPla)
      /\ isGameFinished = checkGameEnd(board)
      /\ winner = IF checkGameEnd(board) THEN getOpp(nextPla) ELSE C_EMPTY
      /\ checkConsistency(board) /\ board.win_len = WinLen
      /\ WinLen \in Nat \ {0}
  BY BoardAssumption DEF EndIsRecorded, LinesAgree, BoardConsistent, TypeOK
<1>2. PICK l \in Cells : board.lastLoc.spot = SpotAt(l)
  BY <1>1 DEF Locs, Spots, Cells, SpotAt
<1>3. \A c \in Cells : getSpot(c[1], c[2]) = board.lastLoc.spot <=> c = l
  BY <1>2, SpotsDiffer DEF SpotAt
<1>4. checkGameEnd(board) <=> \E d \in Directions : RowOfColor(board, l, d, WinLen, getOpp(nextPla))
  <2>1. HasConsecutives(board, SpotAt(l), WinLen) <=>
          \E d \in Directions : RowOfColor(board, l, d, WinLen, board.colors[SpotAt(l)])
    BY <1>1, RowIs
  <2>2. QED
    BY <1>1, <1>2, <2>1 DEF checkGameEnd
<1>5. QED
  BY <1>1, <1>3, <1>4

\* On a board of any size, for any length to win: after a move and before a
\* resignation the game is over exactly when the stone just played is in a row
\* by the rules, although maxConsecutives counts over the array, and the winner
\* is who moved.
THEOREM EndIsByTheRules == Spec => []FinishedIffRow
<1>1. Init => EndIsRecorded
  BY InitLines DEF EndIsRecorded, Init
<1>2. QED
  BY <1>1, StepEnd, EndGivesRow, PTL DEF Spec

-----------------------------------------------------------------------------
(***************************************************************************)
(* What the cache of the evaluator promises, for any number of clients and *)
(* entries, any boards, and any way the hashes share the entries.          *)
(*                                                                         *)
(* The invariant says who may change an output: from the answer of the     *)
(* server to the recording of the hash it belongs to one client, and the   *)
(* table and the other clients do not point to it.  Everything else that   *)
(* somebody points to suits the position its hash stands for, and since    *)
(* the hash is of the stones, every position with that hash.               *)
(***************************************************************************)

\* A move that the stones allow, whatever the last move was.
AllowedByStones(p, loc) == isLegal([p.board EXCEPT !.lastLoc = NoLoc], loc, p.pla)

\* An output whose evaluation and moves may be returned for p.
Serves(out, p) ==
    /\ out.evaluation \in Evaluation /\ out.ownerMap \in {"none", "white"}
    /\ out.moves \in SUBSET Locs /\ \A loc \in out.moves : AllowedByStones(p, loc)
\* The output of a position with this hash, complete.
Suits(out, p) == out.nnHash = getHash(p) /\ Serves(out, p)

\* The output of what was asked for, as far as it is ready.
Meets(out, c) ==
    /\ asked[c].includeOwnerMap => out.ownerMap = "white"
    /\ found[c] # NULL => out.evaluation = found[c]

\* The types.
CacheTypes ==
    /\ heap \in [Object -> OutputType]
    /\ entries \in [Entry -> Object \cup {NULL}]
    /\ pc \in [Client -> {"idle", "wait", "postprocess", "set"}]
    /\ asked \in [Client -> Ask \cup {NULL}]
    /\ result \in [Client -> Object \cup {NULL}]
    /\ resultWithoutOwnerMap \in [Client -> Object \cup {NULL}]
    /\ found \in [Client -> Evaluation \cup {NULL}]

\* An output in the table is that of a position with its hash.
TableIsFinal ==
    \A i \in Entry : entries[i] # NULL => \E p \in Position : Suits(heap[entries[i]], p)

\* From the answer to the recording of the hash, the output is the client's own.
Owns(c) == pc[c] \in {"postprocess", "set"}
\* To nobody else is it known.
OwnsAlone(c) ==
    Owns(c) =>
        /\ result[c] \in Object
        /\ \A i \in Entry : entries[i] # result[c]
        /\ \A d \in Client : /\ resultWithoutOwnerMap[d] # result[c]
                             /\ d # c => result[d] # result[c]

\* A client that waits has one pointer at most, and what it has found without
\* an owner map is not lost with its entry.
KeepsFound(c) ==
    /\ pc[c] = "idle" => resultWithoutOwnerMap[c] = NULL
    /\ pc[c] # "idle" => asked[c] \in Ask
    /\ pc[c] = "wait" => result[c] = NULL \/ resultWithoutOwnerMap[c] = NULL
    /\ resultWithoutOwnerMap[c] # NULL =>
         /\ Suits(heap[resultWithoutOwnerMap[c]], asked[c].position)
         /\ found[c] = heap[resultWithoutOwnerMap[c]].evaluation
    /\ pc[c] \in {"wait", "postprocess"} /\ resultWithoutOwnerMap[c] = NULL => found[c] = NULL

\* How far the output of the client has come.
Proceeds(c) ==
    /\ pc[c] = "postprocess" =>
         /\ heap[result[c]].evaluation \in Evaluation
         /\ heap[result[c]].ownerMap = IF asked[c].includeOwnerMap THEN "raw" ELSE "none"
    /\ pc[c] = "set" =>
         Serves(heap[result[c]], asked[c].position) /\ Meets(heap[result[c]], c)
    /\ HasReturned(c) =>
         /\ result[c] \in Object
         /\ Suits(heap[result[c]], asked[c].position) /\ Meets(heap[result[c]], c)

\* What is known of each client.
ClientsSound == \A c \in Client : OwnsAlone(c) /\ KeepsFound(c) /\ Proceeds(c)
\* The inductive invariant of the cache.
CacheInv == CacheTypes /\ TableIsFinal /\ ClientsSound
-----------------------------------------------------------------------------
(* What the hash tells of a position. *)

\* Of the board, legality sees the cells and the last move.
LEMMA LegalSees ==
  ASSUME NEW b, NEW d, b.colors = d.colors, b.lastLoc = d.lastLoc, NEW loc, NEW pla
  PROVE  isLegal(b, loc, pla) <=> isLegal(d, loc, pla)
<1>1. \A off : SeesEmpty(b, loc.spot, off) <=> SeesEmpty(d, loc.spot, off)
  BY DEF SeesEmpty, OnBoardUpTo, isOnBoard
<1>2. ObeysLastMove(b, loc.spot) <=> ObeysLastMove(d, loc.spot) BY DEF ObeysLastMove
<1> QED BY <1>1, <1>2 DEF isLegal

\* The hash has the stones, and what is neither wall nor stone is empty.
LEMMA SameCells ==
  ASSUME NEW p \in Position, NEW q \in Position, getHash(p) = getHash(q)
  PROVE  p.board.colors = q.board.colors /\ p.pla = q.pla
<1>1. /\ p.board.pos_hash = q.board.pos_hash /\ p.pla = q.pla
      /\ p.board \in Boards /\ q.board \in Boards
      /\ checkConsistency(p.board) /\ checkConsistency(q.board)
  BY CacheAssumption DEF getHash
<1> DEFINE f == p.board.colors
           g == q.board.colors
<1>2. f \in [0..ArrSize-1 -> C_EMPTY..C_WALL] /\ g \in [0..ArrSize-1 -> C_EMPTY..C_WALL]
  BY <1>1 DEF Boards
<1>3. Stones(p.board) = Stones(q.board) BY <1>1 DEF checkConsistency
<1>4. \A s \in Spots, c \in Players : f[s] = c <=> g[s] = c
  <2> SUFFICES ASSUME NEW s \in Spots, NEW c \in Players PROVE f[s] = c <=> g[s] = c
    OBVIOUS
  <2>1. f[s] = c <=> <<s, c>> \in Stones(p.board) BY DEF Stones
  <2>2. g[s] = c <=> <<s, c>> \in Stones(q.board) BY DEF Stones
  <2> QED BY <1>3, <2>1, <2>2
<1>5. \A s \in 0..ArrSize-1 : (f[s] = C_WALL <=> s \notin Spots) /\ (g[s] = C_WALL <=> s \notin Spots)
  BY <1>1 DEF checkConsistency
<1>6. \A s \in 0..ArrSize-1 : f[s] = g[s]
  <2> SUFFICES ASSUME NEW s \in 0..ArrSize-1 PROVE f[s] = g[s] OBVIOUS
  <2>1. f[s] \in 0..3 /\ g[s] \in 0..3 BY <1>2 DEF C_EMPTY, C_WALL
  <2>2. CASE s \notin Spots BY <1>5, <2>2
  <2>3. CASE s \in Spots
    <3>1. f[s] # 3 /\ g[s] # 3 BY <1>5, <2>3 DEF C_WALL
    <3>2. (f[s] = 1 <=> g[s] = 1) /\ (f[s] = 2 <=> g[s] = 2)
      BY <1>4, <2>3 DEF Players, C_BLACK, C_WHITE
    <3> HIDE DEF f, g
    <3> QED BY <2>1, <3>1, <3>2
  <2> QED BY <2>2, <2>3
<1>7. f = g
  <2> HIDE DEF f, g
  <2>1. f = [s \in 0..ArrSize-1 |-> f[s]] /\ g = [s \in 0..ArrSize-1 |-> g[s]] BY <1>2
  <2> QED BY <1>6, <2>1, Zenon
<1> QED BY <1>1, <1>7

\* What suits a position suits every position with its hash.
LEMMA HashTells ==
  ASSUME NEW p \in Position, NEW q \in Position, getHash(p) = getHash(q), NEW out
  PROVE  /\ Serves(out, p) => Serves(out, q)
         /\ Suits(out, p) => Suits(out, q)
<1>1. p.board.colors = q.board.colors /\ p.pla = q.pla /\ p.board \in Boards /\ q.board \in Boards
  BY SameCells, CacheAssumption
<1> DEFINE pb == [p.board EXCEPT !.lastLoc = NoLoc]
           qb == [q.board EXCEPT !.lastLoc = NoLoc]
<1>2. pb.colors = qb.colors /\ pb.lastLoc = qb.lastLoc BY <1>1 DEF Boards
<1>3. \A loc : isLegal(pb, loc, p.pla) <=> isLegal(qb, loc, p.pla)
  <2> HIDE DEF pb, qb
  <2> QED BY <1>2, LegalSees
<1>4. \A loc : AllowedByStones(p, loc) <=> AllowedByStones(q, loc)
  BY <1>1, <1>3 DEF AllowedByStones
<1> QED BY <1>4 DEF Serves, Suits

\* A legal move is allowed by the stones alone.
LEMMA LegalAllowed ==
  ASSUME NEW p \in Position
  PROVE  LegalMoves(p) \in SUBSET Locs /\ \A loc \in LegalMoves(p) : AllowedByStones(p, loc)
<1> DEFINE pb == [p.board EXCEPT !.lastLoc = NoLoc]
<1>1. p.board \in Boards BY CacheAssumption
<1>2. pb.colors = p.board.colors /\ pb.lastLoc = NoLoc BY <1>1 DEF Boards
<1> SUFFICES ASSUME NEW loc \in LegalMoves(p) PROVE isLegal(pb, loc, p.pla)
  BY DEF LegalMoves, AllowedByStones
<1>3. isLegal(p.board, loc, p.pla) BY DEF LegalMoves
<1> HIDE DEF pb
<1>4. \A off : SeesEmpty(p.board, loc.spot, off) => SeesEmpty(pb, loc.spot, off)
  BY <1>2 DEF SeesEmpty, OnBoardUpTo, isOnBoard
<1>5. ObeysLastMove(pb, loc.spot)
  BY <1>2 DEF ObeysLastMove, NoLoc, D_NONE, D_NORTH, D_WEST, D_NORTHWEST, D_NORTHEAST
<1> QED BY <1>2, <1>3, <1>4, <1>5 DEF isLegal

-----------------------------------------------------------------------------
(* There is always a free object for a server to make its output of. *)

\* A set of numbers that is not empty has a least one.
LEMMA LeastIsMember ==
  ASSUME NEW A, A \subseteq Nat, A # {}
  PROVE  Min(A) \in A
<1> DEFINE Below == {0..m : m \in A}
<1>1. Below \subseteq FiniteSubsetsOf(Nat) /\ Below # {}
  <2>1. \A m \in Nat : IsFiniteSet(0..m) /\ 0..m \subseteq Nat BY FS_Interval
  <2> QED BY <2>1 DEF FiniteSubsetsOf
<1>2. PICK x \in Below : \A y \in Below : ~(<<y, x>> \in StrictSubsetOrdering(Nat))
  <2> HIDE DEF Below
  <2> QED BY <1>1, WFMin, FS_StrictSubsetOrderingWellFounded
<1>3. PICK m \in A : x = 0..m OBVIOUS
<1>4. ASSUME NEW k \in A, k < m PROVE FALSE
  <2>1. 0..k \in Below /\ k \in Nat /\ m \in Nat OBVIOUS
  <2>2. 0..k \subseteq 0..m /\ m \in 0..m /\ m \notin 0..k BY <2>1, <1>4
  <2>3. <<0..k, x>> \in StrictSubsetOrdering(Nat)
    BY <1>3, <2>1, <2>2 DEF StrictSubsetOrdering
  <2> QED BY <1>2, <2>1, <2>3
<1>5. \A k \in A : m <= k BY <1>4
<1> QED BY <1>5 DEF Min

\* A function has no more values than arguments.
LEMMA ImageIsSmall ==
  ASSUME NEW f, NEW S, IsFiniteSet(S)
  PROVE  /\ IsFiniteSet({f[x] : x \in S})
         /\ Cardinality({f[x] : x \in S}) <= Cardinality(S)
<1> DEFINE g == [x \in S |-> f[x]]
           T == {f[x] : x \in S}
<1>1. g \in Surjection(S, T) BY DEF Surjection
<1> HIDE DEF g, T
<1>2. IsFiniteSet(T) /\ Cardinality(T) <= Cardinality(S) BY <1>1, FS_Surjection
<1> QED BY <1>2 DEF T

\* The table points to tableSize objects, every client to two, and one that
\* waits to one.
LEMMA FreeObject ==
  ASSUME NEW c \in Client, result[c] = NULL \/ resultWithoutOwnerMap[c] = NULL
  PROVE  LET o == Min({x \in Object : ~InUse(x)}) IN o \in Object /\ ~InUse(o)
<1> DEFINE n == Cardinality(Client)
           some == IF result[c] = NULL THEN Client \ {c} ELSE Client
           others == IF result[c] = NULL THEN Client ELSE Client \ {c}
           E == {entries[i] : i \in Entry}
           R == {result[d] : d \in some}
           W == {resultWithoutOwnerMap[d] : d \in others}
           free == {x \in Object : ~InUse(x)}
<1>1. n \in Nat /\ tableSize \in Nat /\ NULL \notin Object /\ IsFiniteSet(Client)
  BY CacheAssumption, FS_CardinalityType
<1>2. /\ IsFiniteSet(some) /\ IsFiniteSet(others)
      /\ Cardinality(some) + Cardinality(others) = 2 * n - 1
      /\ Cardinality(some) \in Nat /\ Cardinality(others) \in Nat
  <2>1. IsFiniteSet(Client \ {c}) /\ Cardinality(Client \ {c}) = n - 1
    BY <1>1, FS_RemoveElement
  <2>2. Cardinality(Client \ {c}) \in Nat BY <2>1, FS_CardinalityType
  <2> QED BY <1>1, <2>1, <2>2
<1>3. IsFiniteSet(Entry) /\ Cardinality(Entry) = tableSize
  <2>1. PICK top \in Int : top = tableSize - 1 /\ top >= -1 BY CacheAssumption
  <2>2. IsFiniteSet(0..top) /\ Cardinality(0..top) = IF 0 > top THEN 0 ELSE top-0+1
    BY FS_Interval
  <2>3. Cardinality(0..top) = tableSize BY <1>1, <2>1, <2>2
  <2> QED BY <2>1, <2>2, <2>3 DEF Entry
<1>4. /\ IsFiniteSet(E) /\ IsFiniteSet(R) /\ IsFiniteSet(W)
      /\ Cardinality(E) <= tableSize
      /\ Cardinality(R) <= Cardinality(some) /\ Cardinality(W) <= Cardinality(others)
  <2> HIDE DEF some, others
  <2> QED BY <1>2, <1>3, ImageIsSmall
<1>5. /\ IsFiniteSet(E \cup R \cup W)
      /\ Cardinality(E \cup R \cup W) <= Cardinality(E) + Cardinality(R) + Cardinality(W)
      /\ Cardinality(E) \in Nat /\ Cardinality(R) \in Nat /\ Cardinality(W) \in Nat
      /\ Cardinality(E \cup R \cup W) \in Nat
  <2> HIDE DEF E, R, W
  <2>1. /\ IsFiniteSet(E \cup R)
        /\ Cardinality(E \cup R) = Cardinality(E) + Cardinality(R) - Cardinality(E \cap R)
        /\ IsFiniteSet(E \cap R)
    BY <1>4, FS_Union, FS_Intersection
  <2>2. /\ IsFiniteSet((E \cup R) \cup W)
        /\ Cardinality((E \cup R) \cup W)
             = Cardinality(E \cup R) + Cardinality(W) - Cardinality((E \cup R) \cap W)
        /\ IsFiniteSet((E \cup R) \cap W)
    BY <1>4, <2>1, FS_Union, FS_Intersection
  <2>3. /\ Cardinality(E) \in Nat /\ Cardinality(R) \in Nat /\ Cardinality(W) \in Nat
        /\ Cardinality(E \cap R) \in Nat /\ Cardinality((E \cup R) \cap W) \in Nat
        /\ Cardinality(E \cup R) \in Nat /\ Cardinality((E \cup R) \cup W) \in Nat
    BY <1>4, <2>1, <2>2, FS_CardinalityType
  <2> QED BY <2>1, <2>2, <2>3
<1>6. \A o \in Object : InUse(o) => o \in E \cup R \cup W
  <2> SUFFICES ASSUME NEW o \in Object, InUse(o) PROVE o \in E \cup R \cup W OBVIOUS
  <2>1. CASE \E i \in Entry : entries[i] = o BY <2>1
  <2>2. CASE \E d \in Client : result[d] = o
    <3>1. PICK d \in Client : result[d] = o BY <2>2
    <3>2. d \in some BY <1>1, <3>1
    <3> QED BY <3>1, <3>2
  <2>3. CASE \E d \in Client : resultWithoutOwnerMap[d] = o
    <3>1. PICK d \in Client : resultWithoutOwnerMap[d] = o BY <2>3
    <3>2. d \in others BY <1>1, <3>1
    <3> QED BY <3>1, <3>2
  <2> QED BY <2>1, <2>2, <2>3 DEF InUse
<1>7. IsFiniteSet(Object) /\ Cardinality(Object) = 2 * n + tableSize
  <2>1. 2 * n + tableSize \in Nat /\ Object = 1..2 * n + tableSize BY <1>1 DEF Object
  <2> HIDE DEF n
  <2> QED BY <1>1, <2>1, FS_Interval
<1>8. free # {}
  <2> SUFFICES ASSUME free = {} PROVE FALSE OBVIOUS
  <2>1. Object \subseteq E \cup R \cup W BY <1>6
  <2> HIDE DEF E, R, W, free, some, others, n
  <2>2. Cardinality(Object) <= Cardinality(E \cup R \cup W) BY <1>5, <2>1, FS_Subset
  <2>3. Cardinality(E \cup R \cup W) <= 2 * n - 1 + tableSize BY <1>1, <1>2, <1>4, <1>5
  <2> QED BY <1>1, <1>5, <1>7, <2>2, <2>3
<1>9. free \subseteq Nat BY <1>1 DEF Object
<1>10. Min(free) \in free
  <2> HIDE DEF free
  <2> QED BY <1>8, <1>9, LeastIsMember
<1> QED BY <1>10

-----------------------------------------------------------------------------
(* What all steps have in common. *)

\* What the assumptions say of the values.
LEMMA CacheFacts ==
  /\ NULL \notin Object /\ NULL \notin Evaluation
  /\ tableSize \in Nat /\ (tableSize > 0 => \A p \in Position : getHashEntry(p) \in Entry)
  /\ NewOutput \in OutputType
BY CacheAssumption DEF NewOutput, OutputType

\* Deleting leaves what somebody points to.
LEMMA DeletesUnused ==
  ASSUME NEW h, h \in [Object -> OutputType], DeleteUnused(h)
  PROVE  heap' \in [Object -> OutputType] /\ \A o \in Object : InUse(o)' => heap'[o] = h[o]
BY CacheFacts DEF DeleteUnused, InUse

\* A client that takes no step keeps what it knows of the objects it points to.
LEMMA Undisturbed ==
  ASSUME CacheTypes, NEW d \in Client, OwnsAlone(d), KeepsFound(d), Proceeds(d),
         pc'[d] = pc[d], asked'[d] = asked[d], result'[d] = result[d],
         resultWithoutOwnerMap'[d] = resultWithoutOwnerMap[d], found'[d] = found[d],
         result[d] \in Object => heap'[result[d]] = heap[result[d]],
         resultWithoutOwnerMap[d] \in Object =>
           heap'[resultWithoutOwnerMap[d]] = heap[resultWithoutOwnerMap[d]]
  PROVE  KeepsFound(d)' /\ Proceeds(d)'
<1>1. resultWithoutOwnerMap[d] \in Object \cup {NULL} BY DEF CacheTypes
<1>2. KeepsFound(d)' BY <1>1 DEF KeepsFound, Suits, Serves
<1>3. pc[d] \in {"postprocess", "set"} \/ HasReturned(d) => result[d] \in Object
  BY DEF OwnsAlone, Owns, Proceeds
<1>4. HasReturned(d)' <=> HasReturned(d) BY DEF HasReturned
<1>5. Proceeds(d)' BY <1>3, <1>4 DEF Proceeds, Suits, Serves, Meets
<1> QED BY <1>2, <1>5

\* Entries that stay or are emptied are as final as they were.
LEMMA TableKeeps ==
  ASSUME TableIsFinal, CacheTypes,
         \A i \in Entry : entries'[i] = entries[i] \/ entries'[i] = NULL,
         \A i \in Entry : entries'[i] # NULL => heap'[entries[i]] = heap[entries[i]]
  PROVE  TableIsFinal'
<1> SUFFICES ASSUME NEW i \in Entry, entries'[i] # NULL
             PROVE  \E p \in Position : Suits(heap'[entries'[i]], p)
  BY DEF TableIsFinal, Suits, Serves
<1>1. entries'[i] = entries[i] /\ heap'[entries[i]] = heap[entries[i]] OBVIOUS
<1> QED BY <1>1 DEF TableIsFinal

\* No step writes an output that is published before and after it.
Changeless == \A o \in Object : Published(o) /\ Published(o)' => heap'[o] = heap[o]

\* Who could read a published output points to it.
LEMMA PublishedInUse ==
  /\ \A o : Published(o) => InUse(o)
  /\ \A o : Published(o)' => InUse(o)'
BY DEF Published, InUse

-----------------------------------------------------------------------------
(* The steps. *)

\* The table is cleared.
LEMMA ClearSound ==
  ASSUME CacheInv, clear
  PROVE  CacheInv' /\ Changeless
<1> USE CacheFacts DEF CacheInv
<1>1. /\ UNCHANGED <<pc, asked, result, resultWithoutOwnerMap, found>>
      /\ \E i \in Entry : entries' = [entries EXCEPT ![i] = NULL]
      /\ DeleteUnused(heap)
  BY DEF clear, clientVars
<1>2. heap' \in [Object -> OutputType] /\ \A o \in Object : InUse(o)' => heap'[o] = heap[o]
  BY <1>1, DeletesUnused DEF CacheTypes
<1>3. entries' \in [Entry -> Object \cup {NULL}] /\ \A i \in Entry : entries'[i] \in {entries[i], NULL}
  BY <1>1 DEF CacheTypes
<1>4. CacheTypes' BY <1>1, <1>2, <1>3 DEF CacheTypes
<1>5. TableIsFinal'
  <2>1. \A i \in Entry : entries'[i] # NULL => heap'[entries[i]] = heap[entries[i]]
    BY <1>2, <1>3 DEF InUse, CacheTypes
  <2> QED BY <1>3, <2>1, TableKeeps
<1>6. ASSUME NEW d \in Client PROVE (OwnsAlone(d) /\ KeepsFound(d) /\ Proceeds(d))'
  <2>1. OwnsAlone(d) /\ KeepsFound(d) /\ Proceeds(d) BY DEF ClientsSound
  <2>2. OwnsAlone(d)' BY <1>1, <1>3, <2>1 DEF OwnsAlone, Owns, CacheTypes
  <2>3. /\ result[d] \in Object => heap'[result[d]] = heap[result[d]]
        /\ resultWithoutOwnerMap[d] \in Object =>
             heap'[resultWithoutOwnerMap[d]] = heap[resultWithoutOwnerMap[d]]
    BY <1>1, <1>2 DEF InUse
  <2>4. KeepsFound(d)' /\ Proceeds(d)' BY <1>1, <2>1, <2>3, Undisturbed
  <2> QED BY <2>2, <2>4
<1>7. Changeless BY <1>2, PublishedInUse DEF Changeless
<1> QED BY <1>4, <1>5, <1>6, <1>7 DEF ClientsSound

\* What the table has for a position suits it.
LEMMA HitSuits ==
  ASSUME CacheInv, NEW p \in Position, Cached(p) # NULL
  PROVE  /\ Cached(p) \in Object /\ Suits(heap[Cached(p)], p)
         /\ \E i \in Entry : entries[i] = Cached(p)
<1> DEFINE o == entries[getHashEntry(p)]
<1>1. tableSize > 0 /\ getHashEntry(p) \in Entry BY CacheFacts DEF Cached
<1>2. Cached(p) = o /\ o # NULL /\ heap[o].nnHash = getHash(p) BY <1>1 DEF Cached
<1>3. o \in Object BY <1>1, <1>2 DEF CacheInv, CacheTypes
<1>4. PICK q \in Position : Suits(heap[o], q) BY <1>1, <1>2 DEF CacheInv, TableIsFinal
<1>5. getHash(q) = getHash(p) BY <1>2, <1>4 DEF Suits
<1>6. Suits(heap[o], p) BY <1>4, <1>5, HashTells
<1> QED BY <1>1, <1>2, <1>3, <1>6

\* A client finds its result, part of it, or nothing.
LEMMA EvaluateSound ==
  ASSUME CacheInv, NEW c \in Client, evaluate(c)
  PROVE  CacheInv' /\ Changeless
<1> USE CacheFacts DEF CacheInv
<1>1. pc[c] = "idle" /\ entries' = entries /\ DeleteUnused(heap) BY DEF evaluate
<1>2. PICK a \in Ask, skipCache \in BOOLEAN :
         LET hit == IF skipCache THEN NULL ELSE Cached(a.position)
             complete == hit # NULL /\ ~(a.includeOwnerMap /\ heap[hit].ownerMap = "none")
         IN  /\ asked' = [asked EXCEPT ![c] = a]
             /\ Goto(c, IF complete THEN "idle" ELSE "wait")
             /\ result' = [result EXCEPT ![c] = IF complete THEN hit
                                                ELSE IF skipCache \/ tableSize = 0 THEN @
                                                ELSE NULL]
             /\ resultWithoutOwnerMap' =
                  [resultWithoutOwnerMap EXCEPT ![c] = IF complete THEN NULL ELSE hit]
             /\ found' = [found EXCEPT ![c] = IF complete \/ hit = NULL THEN NULL
                                              ELSE heap[hit].evaluation]
  BY DEF evaluate
<1> DEFINE hit == IF skipCache THEN NULL ELSE Cached(a.position)
           complete == hit # NULL /\ ~(a.includeOwnerMap /\ heap[hit].ownerMap = "none")
<1>3. a.position \in Position BY DEF Ask
<1>4. hit # NULL => /\ hit \in Object /\ Suits(heap[hit], a.position)
                    /\ \E i \in Entry : entries[i] = hit
  BY <1>3, HitSuits
<1>5. hit # NULL => heap[hit].evaluation \in Evaluation /\ heap[hit].ownerMap \in {"none", "white"}
  BY <1>4 DEF Suits, Serves
<1>6. hit = NULL \/ ~(skipCache \/ tableSize = 0) BY DEF Cached
<1> HIDE DEF hit
<1>7. /\ asked' \in [Client -> Ask \cup {NULL}] /\ asked'[c] = a
      /\ pc' \in [Client -> {"idle", "wait", "postprocess", "set"}]
      /\ pc'[c] = IF complete THEN "idle" ELSE "wait"
      /\ result' \in [Client -> Object \cup {NULL}]
      /\ result'[c] = IF complete THEN hit ELSE IF skipCache \/ tableSize = 0 THEN result[c]
                                          ELSE NULL
      /\ resultWithoutOwnerMap' \in [Client -> Object \cup {NULL}]
      /\ resultWithoutOwnerMap'[c] = IF complete THEN NULL ELSE hit
      /\ found' \in [Client -> Evaluation \cup {NULL}]
      /\ found'[c] = IF complete \/ hit = NULL THEN NULL ELSE heap[hit].evaluation
  BY <1>2, <1>4, <1>5 DEF CacheTypes, Goto, hit
<1>8. \A d \in Client \ {c} :
        /\ asked'[d] = asked[d] /\ pc'[d] = pc[d] /\ result'[d] = result[d]
        /\ resultWithoutOwnerMap'[d] = resultWithoutOwnerMap[d] /\ found'[d] = found[d]
  BY <1>2 DEF CacheTypes, Goto
<1>9. heap' \in [Object -> OutputType] /\ \A o \in Object : InUse(o)' => heap'[o] = heap[o]
  BY <1>1, DeletesUnused DEF CacheTypes
<1>10. CacheTypes' BY <1>1, <1>7, <1>9 DEF CacheTypes
<1>11. TableIsFinal'
  <2>1. \A i \in Entry : entries'[i] # NULL => heap'[entries[i]] = heap[entries[i]]
    BY <1>1, <1>9 DEF InUse, CacheTypes
  <2> QED BY <1>1, <2>1, TableKeeps
<1>12. ASSUME NEW d \in Client PROVE (OwnsAlone(d) /\ KeepsFound(d) /\ Proceeds(d))'
  <2>1. OwnsAlone(d) /\ KeepsFound(d) /\ Proceeds(d) BY DEF ClientsSound
  <2>2. CASE d # c
    <3>1. OwnsAlone(d)'
      <4>1. Owns(d)' <=> Owns(d) BY <1>8, <2>2 DEF Owns
      <4>2. SUFFICES ASSUME Owns(d), result[d] \in Object,
                            \A i \in Entry : entries[i] # result[d],
                            \A e \in Client : /\ resultWithoutOwnerMap[e] # result[d]
                                              /\ e # d => result[e] # result[d]
                     PROVE  \A e \in Client : /\ resultWithoutOwnerMap'[e] # result[d]
                                              /\ e # d => result'[e] # result[d]
        BY <1>1, <1>8, <2>1, <2>2, <4>1 DEF OwnsAlone
      <4>3. hit # result[d] BY <1>4, <4>2
      <4> QED BY <1>7, <1>8, <4>2, <4>3
    <3>2. /\ result[d] \in Object => heap'[result[d]] = heap[result[d]]
          /\ resultWithoutOwnerMap[d] \in Object =>
               heap'[resultWithoutOwnerMap[d]] = heap[resultWithoutOwnerMap[d]]
      BY <1>8, <1>9, <2>2 DEF InUse
    <3>3. KeepsFound(d)' /\ Proceeds(d)' BY <1>8, <2>1, <2>2, <3>2, Undisturbed
    <3> QED BY <3>1, <3>3
  <2>3. CASE d = c
    <3>1. OwnsAlone(c)' BY <1>7 DEF OwnsAlone, Owns
    <3>2. resultWithoutOwnerMap[c] = NULL BY <1>1, <2>1, <2>3 DEF KeepsFound
    <3>3. hit # NULL => heap'[hit] = heap[hit]
      <4>1. \A o \in Object : (\E i \in Entry : entries'[i] = o) => heap'[o] = heap[o]
        BY <1>9 DEF InUse
      <4> QED BY <1>1, <1>4, <4>1
    <3>4. KeepsFound(c)'
      <4>1. pc'[c] = "wait" => result'[c] = NULL \/ resultWithoutOwnerMap'[c] = NULL
        BY <1>6, <1>7
      <4>2. resultWithoutOwnerMap'[c] # NULL =>
               /\ Suits(heap'[resultWithoutOwnerMap'[c]], asked'[c].position)
               /\ found'[c] = heap'[resultWithoutOwnerMap'[c]].evaluation
        BY <1>4, <1>7, <3>3
      <4>3. pc'[c] \in {"wait", "postprocess"} /\ resultWithoutOwnerMap'[c] = NULL => found'[c] = NULL
        BY <1>7
      <4>4. /\ pc'[c] = "idle" => resultWithoutOwnerMap'[c] = NULL
            /\ pc'[c] # "idle" => asked'[c] \in Ask
        BY <1>7
      <4> QED BY <4>1, <4>2, <4>3, <4>4 DEF KeepsFound, Suits, Serves
    <3>5. Proceeds(c)'
      <4>1. pc'[c] \notin {"postprocess", "set"} BY <1>7
      <4>2. SUFFICES ASSUME HasReturned(c)'
                     PROVE  /\ result'[c] \in Object
                            /\ Suits(heap'[result'[c]], asked'[c].position)
                            /\ asked'[c].includeOwnerMap => heap'[result'[c]].ownerMap = "white"
                            /\ found'[c] = NULL
        BY <4>1 DEF Proceeds, Meets, Suits, Serves
      <4>3. complete BY <1>7, <4>2 DEF HasReturned
      <4>4. result'[c] = hit /\ hit \in Object /\ heap'[hit] = heap[hit] /\ asked'[c] = a
            /\ found'[c] = NULL
        BY <1>4, <1>7, <3>3, <4>3
      <4>5. Suits(heap'[result'[c]], asked'[c].position) BY <1>4, <4>3, <4>4
      <4>6. a.includeOwnerMap => heap[hit].ownerMap = "white" BY <1>5, <4>3
      <4> QED BY <4>4, <4>5, <4>6
    <3> QED BY <2>3, <3>1, <3>4, <3>5
  <2> QED BY <2>2, <2>3
<1>13. Changeless BY <1>9, PublishedInUse DEF Changeless
<1> QED BY <1>10, <1>11, <1>12, <1>13 DEF ClientsSound

\* The output of an owner is nobody else's.
LEMMA OwnerAlone ==
  ASSUME CacheInv, NEW c \in Client, Owns(c)
  PROVE  /\ result[c] \in Object /\ asked[c] \in Ask /\ asked[c].position \in Position
         /\ \A i \in Entry : entries[i] # result[c]
         /\ \A d \in Client : /\ resultWithoutOwnerMap[d] # result[c]
                              /\ d # c => result[d] # result[c]
         /\ ~Published(result[c])
<1>1. OwnsAlone(c) /\ KeepsFound(c) BY DEF CacheInv, ClientsSound
<1>2. /\ result[c] \in Object
      /\ \A i \in Entry : entries[i] # result[c]
      /\ \A d \in Client : /\ resultWithoutOwnerMap[d] # result[c]
                           /\ d # c => result[d] # result[c]
  BY <1>1 DEF OwnsAlone
<1>3. asked[c] \in Ask /\ asked[c].position \in Position BY <1>1 DEF Owns, KeepsFound, Ask
<1>4. ~Published(result[c]) BY <1>2 DEF Published, HasReturned, Owns
<1> QED BY <1>2, <1>3, <1>4

\* The server answers into a new output, or into the copy of one to be upgraded.
LEMMA ServerAnswersSound ==
  ASSUME CacheInv, NEW c \in Client, ServerAnswers(c)
  PROVE  CacheInv' /\ Changeless
<1> USE CacheFacts DEF CacheInv
<1> DEFINE o == Min({x \in Object : ~InUse(x)})
<1>1. /\ pc[c] = "wait" /\ UNCHANGED <<entries, asked, resultWithoutOwnerMap, found>>
      /\ result' = [result EXCEPT ![c] = o] /\ Goto(c, "postprocess")
  BY DEF ServerAnswers
<1>2. PICK e \in Evaluation :
        DeleteUnused([heap EXCEPT ![o] =
          [NewOutput EXCEPT !.evaluation = e,
                            !.ownerMap = IF asked[c].includeOwnerMap THEN "raw" ELSE "none"]])
  BY DEF ServerAnswers
<1>3. OwnsAlone(c) /\ KeepsFound(c) /\ Proceeds(c) BY DEF ClientsSound
<1>4. o \in Object /\ ~InUse(o) BY <1>1, <1>3, FreeObject DEF KeepsFound
<1> DEFINE new == [NewOutput EXCEPT !.evaluation = e,
                                    !.ownerMap = IF asked[c].includeOwnerMap THEN "raw" ELSE "none"]
           h == [heap EXCEPT ![o] = new]
<1>5. /\ new \in OutputType /\ new.evaluation = e
      /\ new.ownerMap = IF asked[c].includeOwnerMap THEN "raw" ELSE "none"
  BY DEF NewOutput, OutputType
<1> HIDE DEF o, new
<1>6. h \in [Object -> OutputType] /\ h[o] = new /\ \A x \in Object \ {o} : h[x] = heap[x]
  BY <1>4, <1>5 DEF CacheTypes
<1>7. DeleteUnused(h) BY <1>2 DEF new
<1> HIDE DEF h
<1>8. heap' \in [Object -> OutputType] /\ \A x \in Object : InUse(x)' => heap'[x] = h[x]
  BY <1>6, <1>7, DeletesUnused
<1>9. /\ result' \in [Client -> Object \cup {NULL}] /\ result'[c] = o
      /\ \A d \in Client \ {c} : result'[d] = result[d]
      /\ pc' \in [Client -> {"idle", "wait", "postprocess", "set"}] /\ pc'[c] = "postprocess"
      /\ \A d \in Client \ {c} : pc'[d] = pc[d]
  BY <1>1, <1>4 DEF CacheTypes, Goto
<1>10. heap'[o] = new
  <2>1. \A x \in Object : result'[c] = x => InUse(x)' BY DEF InUse
  <2> QED BY <1>4, <1>6, <1>8, <1>9, <2>1
<1>11. \A x \in Object : InUse(x) /\ InUse(x)' => heap'[x] = heap[x]
  BY <1>4, <1>6, <1>8
<1>12. CacheTypes' BY <1>1, <1>8, <1>9 DEF CacheTypes
<1>13. TableIsFinal'
  <2>1. \A i \in Entry : entries'[i] # NULL => heap'[entries[i]] = heap[entries[i]]
    BY <1>1, <1>11 DEF InUse, CacheTypes
  <2> QED BY <1>1, <2>1, TableKeeps
<1>14. /\ \A i \in Entry : entries[i] # o
       /\ \A d \in Client : result[d] # o /\ resultWithoutOwnerMap[d] # o
  BY <1>4 DEF InUse
<1>15. ASSUME NEW d \in Client PROVE (OwnsAlone(d) /\ KeepsFound(d) /\ Proceeds(d))'
  <2>1. OwnsAlone(d) /\ KeepsFound(d) /\ Proceeds(d) BY DEF ClientsSound
  <2>2. CASE d # c
    <3>1. OwnsAlone(d)' BY <1>1, <1>9, <1>14, <2>1, <2>2 DEF OwnsAlone, Owns
    <3>2. /\ result[d] \in Object => heap'[result[d]] = heap[result[d]]
          /\ resultWithoutOwnerMap[d] \in Object =>
               heap'[resultWithoutOwnerMap[d]] = heap[resultWithoutOwnerMap[d]]
      BY <1>1, <1>9, <1>11, <2>2 DEF InUse
    <3>3. KeepsFound(d)' /\ Proceeds(d)' BY <1>1, <1>9, <2>1, <2>2, <3>2, Undisturbed
    <3> QED BY <3>1, <3>3
  <2>3. CASE d = c
    <3>1. OwnsAlone(c)' BY <1>1, <1>4, <1>9, <1>14 DEF OwnsAlone, Owns
    <3>2. resultWithoutOwnerMap[c] # NULL =>
            heap'[resultWithoutOwnerMap[c]] = heap[resultWithoutOwnerMap[c]]
      BY <1>1, <1>11 DEF InUse, CacheTypes
    <3>3. KeepsFound(c)' BY <1>1, <1>3, <1>9, <3>2 DEF KeepsFound, Suits, Serves
    <3>4. Proceeds(c)' BY <1>1, <1>5, <1>9, <1>10 DEF Proceeds, HasReturned
    <3> QED BY <2>3, <3>1, <3>3, <3>4
  <2> QED BY <2>2, <2>3
<1>16. Changeless BY <1>11, PublishedInUse DEF Changeless
<1> QED BY <1>12, <1>13, <1>15, <1>16 DEF ClientsSound

\* The client makes the policy and the owner map ready.
LEMMA PostprocessesSound ==
  ASSUME CacheInv, NEW c \in Client, Postprocesses(c)
  PROVE  CacheInv' /\ Changeless
<1> USE CacheFacts DEF CacheInv
<1> DEFINE r == result[c]
           old == resultWithoutOwnerMap[c]
           p == asked[c].position
<1>1. /\ pc[c] = "postprocess" /\ Goto(c, "set")
      /\ UNCHANGED <<entries, asked, result, resultWithoutOwnerMap, found>>
      /\ heap' = [heap EXCEPT ![r] =
           [heap[r] EXCEPT !.moves = IF old # NULL THEN heap[old].moves ELSE LegalMoves(p),
                           !.evaluation = IF old # NULL THEN heap[old].evaluation ELSE @,
                           !.ownerMap = IF @ = "raw" THEN "white" ELSE @]]
  BY DEF Postprocesses
<1>2. /\ r \in Object /\ asked[c] \in Ask /\ p \in Position
      /\ \A i \in Entry : entries[i] # r
      /\ \A d \in Client : resultWithoutOwnerMap[d] # r /\ (d # c => result[d] # r)
      /\ ~Published(r)
  BY <1>1, OwnerAlone DEF Owns
<1>3. OwnsAlone(c) /\ KeepsFound(c) /\ Proceeds(c) BY DEF ClientsSound
<1>4. /\ heap[r].evaluation \in Evaluation
      /\ heap[r].ownerMap = IF asked[c].includeOwnerMap THEN "raw" ELSE "none"
  BY <1>1, <1>3 DEF Proceeds
<1>5. /\ old # NULL => Serves(heap[old], p) /\ found[c] = heap[old].evaluation
      /\ old = NULL => found[c] = NULL
  BY <1>1, <1>3 DEF KeepsFound, Suits
<1>6. LegalMoves(p) \in SUBSET Locs /\ \A loc \in LegalMoves(p) : AllowedByStones(p, loc)
  BY <1>2, LegalAllowed
<1>7. heap[r] \in OutputType BY <1>2 DEF CacheTypes
<1>8. /\ heap'[r].nnHash = heap[r].nnHash
      /\ heap'[r].moves = IF old # NULL THEN heap[old].moves ELSE LegalMoves(p)
      /\ heap'[r].evaluation = IF old # NULL THEN heap[old].evaluation ELSE heap[r].evaluation
      /\ heap'[r].ownerMap = IF heap[r].ownerMap = "raw" THEN "white" ELSE heap[r].ownerMap
      /\ \A x \in Object \ {r} : heap'[x] = heap[x]
      /\ DOMAIN heap' = Object
  <2> HIDE DEF old, p
  <2> QED BY <1>1, <1>2, <1>7 DEF CacheTypes, OutputType
<1>9. heap' \in [Object -> OutputType]
  <2>1. [heap[r] EXCEPT !.moves = heap'[r].moves, !.evaluation = heap'[r].evaluation,
                        !.ownerMap = heap'[r].ownerMap] \in OutputType
    <3>1. /\ heap'[r].moves \in SUBSET Locs /\ heap'[r].evaluation \in Evaluation
          /\ heap'[r].ownerMap \in {"none", "raw", "white"}
      BY <1>4, <1>5, <1>6, <1>8 DEF Serves
    <3> QED BY <1>7, <3>1 DEF OutputType
  <2>2. heap'[r] = [heap[r] EXCEPT !.moves = heap'[r].moves, !.evaluation = heap'[r].evaluation,
                                   !.ownerMap = heap'[r].ownerMap]
    <3> HIDE DEF old, p
    <3> QED BY <1>1, <1>2, <1>7, <1>8 DEF CacheTypes, OutputType
  <2>3. heap' = [heap EXCEPT ![r] = heap'[r]]
    <3> HIDE DEF old, p
    <3> QED BY <1>1, <1>2 DEF CacheTypes
  <2> QED BY <1>2, <2>1, <2>2, <2>3 DEF CacheTypes
<1>10. /\ pc' \in [Client -> {"idle", "wait", "postprocess", "set"}] /\ pc'[c] = "set"
       /\ \A d \in Client \ {c} : pc'[d] = pc[d]
  BY <1>1 DEF CacheTypes, Goto
<1>11. CacheTypes' BY <1>1, <1>9, <1>10 DEF CacheTypes
<1>12. TableIsFinal'
  <2>1. \A i \in Entry : entries'[i] # NULL => heap'[entries[i]] = heap[entries[i]]
    BY <1>1, <1>2, <1>8 DEF CacheTypes
  <2> QED BY <1>1, <2>1, TableKeeps
<1>13. Serves(heap'[r], p)
  <2>1. CASE old # NULL BY <1>4, <1>5, <1>8, <2>1 DEF Serves
  <2>2. CASE old = NULL BY <1>4, <1>6, <1>8, <2>2 DEF Serves
  <2> QED BY <2>1, <2>2
<1>14. ASSUME NEW d \in Client PROVE (OwnsAlone(d) /\ KeepsFound(d) /\ Proceeds(d))'
  <2>1. OwnsAlone(d) /\ KeepsFound(d) /\ Proceeds(d) BY DEF ClientsSound
  <2>2. CASE d # c
    <3>1. OwnsAlone(d)' BY <1>1, <1>10, <2>1, <2>2 DEF OwnsAlone, Owns
    <3>2. /\ result[d] \in Object => heap'[result[d]] = heap[result[d]]
          /\ resultWithoutOwnerMap[d] \in Object =>
               heap'[resultWithoutOwnerMap[d]] = heap[resultWithoutOwnerMap[d]]
      BY <1>2, <1>8, <2>2
    <3>3. KeepsFound(d)' /\ Proceeds(d)' BY <1>1, <1>10, <2>1, <2>2, <3>2, Undisturbed
    <3> QED BY <3>1, <3>3
  <2>3. CASE d = c
    <3>1. OwnsAlone(c)' BY <1>1, <1>3, <1>10 DEF OwnsAlone, Owns
    <3>2. old # NULL => heap'[old] = heap[old] BY <1>2, <1>8 DEF CacheTypes
    <3>3. KeepsFound(c)' BY <1>1, <1>3, <1>10, <3>2 DEF KeepsFound, Suits, Serves
    <3>4. /\ asked[c].includeOwnerMap => heap'[r].ownerMap = "white"
          /\ found[c] # NULL => heap'[r].evaluation = found[c]
      BY <1>4, <1>5, <1>8
    <3>5. Proceeds(c)' BY <1>1, <1>10, <1>13, <3>4 DEF Proceeds, HasReturned, Serves, Meets
    <3> QED BY <2>3, <3>1, <3>3, <3>5
  <2> QED BY <2>2, <2>3
<1>15. Changeless BY <1>2, <1>8 DEF Changeless
<1> QED BY <1>11, <1>12, <1>14, <1>15 DEF ClientsSound

\* It records the hash and puts the output into the table.
LEMMA SetsSound ==
  ASSUME CacheInv, NEW c \in Client, Sets(c)
  PROVE  CacheInv' /\ Changeless
<1> USE CacheFacts DEF CacheInv
<1> DEFINE r == result[c]
           p == asked[c].position
           h == [heap EXCEPT ![r].nnHash = getHash(p)]
<1>1. /\ pc[c] = "set" /\ Goto(c, "idle") /\ UNCHANGED <<asked, result, found>>
      /\ entries' = IF tableSize = 0 THEN entries ELSE [entries EXCEPT ![getHashEntry(p)] = r]
      /\ resultWithoutOwnerMap' = [resultWithoutOwnerMap EXCEPT ![c] = NULL]
      /\ DeleteUnused(h)
  BY DEF Sets
<1>2. /\ r \in Object /\ asked[c] \in Ask /\ p \in Position
      /\ \A i \in Entry : entries[i] # r
      /\ \A d \in Client : resultWithoutOwnerMap[d] # r /\ (d # c => result[d] # r)
      /\ ~Published(r)
  BY <1>1, OwnerAlone DEF Owns
<1>3. Serves(heap[r], p) /\ Meets(heap[r], c)
  BY <1>1 DEF ClientsSound, Proceeds
<1>4. heap[r] \in OutputType BY <1>2 DEF CacheTypes
<1>5. /\ h \in [Object -> OutputType] /\ h[r].nnHash = getHash(p)
      /\ h[r].evaluation = heap[r].evaluation /\ h[r].moves = heap[r].moves
      /\ h[r].ownerMap = heap[r].ownerMap /\ \A x \in Object \ {r} : h[x] = heap[x]
  <2>1. getHash(p) \in {NULL} \cup {getHash(q) : q \in Position} BY <1>2
  <2> HIDE DEF p
  <2> QED BY <1>2, <1>4, <2>1 DEF CacheTypes, OutputType
<1> HIDE DEF h
<1>6. heap' \in [Object -> OutputType] /\ \A x \in Object : InUse(x)' => heap'[x] = h[x]
  BY <1>1, <1>5, DeletesUnused
<1>7. /\ entries' \in [Entry -> Object \cup {NULL}]
      /\ \A i \in Entry : entries'[i] \in {entries[i], r}
      /\ resultWithoutOwnerMap' \in [Client -> Object \cup {NULL}] /\ resultWithoutOwnerMap'[c] = NULL
      /\ \A d \in Client \ {c} : resultWithoutOwnerMap'[d] = resultWithoutOwnerMap[d]
      /\ pc' \in [Client -> {"idle", "wait", "postprocess", "set"}] /\ pc'[c] = "idle"
      /\ \A d \in Client \ {c} : pc'[d] = pc[d]
  <2>1. tableSize = 0 \/ getHashEntry(p) \in Entry BY <1>2
  <2> HIDE DEF p
  <2>2. /\ entries' \in [Entry -> Object \cup {NULL}]
        /\ \A i \in Entry : entries'[i] \in {entries[i], r}
    BY <1>1, <1>2, <2>1 DEF CacheTypes
  <2> QED BY <1>1, <1>2, <2>2 DEF CacheTypes, Goto
<1>8. CacheTypes' BY <1>1, <1>6, <1>7 DEF CacheTypes
<1>9. heap'[r] = h[r]
  <2>1. \A x \in Object : result'[c] = x => InUse(x)' BY DEF InUse
  <2> QED BY <1>1, <1>2, <1>6, <2>1
<1>10. \A x \in Object \ {r} : InUse(x)' => heap'[x] = heap[x] BY <1>5, <1>6
<1>11. Suits(heap'[r], p) BY <1>3, <1>5, <1>9 DEF Suits, Serves
<1>12. TableIsFinal'
  <2> SUFFICES ASSUME NEW i \in Entry, entries'[i] # NULL
               PROVE  \E q \in Position : Suits(heap'[entries'[i]], q)
    BY DEF TableIsFinal, Suits, Serves
  <2>1. CASE entries'[i] = r BY <1>2, <1>11, <2>1
  <2>2. CASE entries'[i] # r
    <3>1. entries'[i] = entries[i] /\ entries[i] \in Object \ {r} BY <1>2, <1>7, <2>2 DEF CacheTypes
    <3>2. \A x \in Object : entries'[i] = x => InUse(x)' BY DEF InUse
    <3>3. heap'[entries[i]] = heap[entries[i]] BY <1>10, <3>1, <3>2
    <3> QED BY <3>1, <3>3 DEF TableIsFinal
  <2> QED BY <2>1, <2>2
<1>13. ASSUME NEW d \in Client PROVE (OwnsAlone(d) /\ KeepsFound(d) /\ Proceeds(d))'
  <2>1. OwnsAlone(d) /\ KeepsFound(d) /\ Proceeds(d) BY DEF ClientsSound
  <2>2. CASE d # c
    <3>1. OwnsAlone(d)'
      <4>1. Owns(d)' => Owns(d) BY <1>7, <2>2 DEF Owns
      <4>2. SUFFICES ASSUME Owns(d)
                     PROVE  /\ result'[d] \in Object
                            /\ \A i \in Entry : entries'[i] # result'[d]
                            /\ \A e \in Client : /\ resultWithoutOwnerMap'[e] # result'[d]
                                                 /\ e # d => result'[e] # result'[d]
        BY <4>1 DEF OwnsAlone
      <4>3. result'[d] = result[d] /\ result[d] \in Object /\ result[d] # r
        BY <1>1, <1>2, <2>1, <2>2, <4>2 DEF OwnsAlone
      <4>4. \A i \in Entry : entries'[i] # result[d] BY <1>7, <2>1, <4>2, <4>3 DEF OwnsAlone
      <4> QED BY <1>1, <1>7, <2>1, <4>2, <4>3, <4>4 DEF OwnsAlone
    <3>2. /\ result[d] \in Object => heap'[result[d]] = heap[result[d]]
          /\ resultWithoutOwnerMap[d] \in Object =>
               heap'[resultWithoutOwnerMap[d]] = heap[resultWithoutOwnerMap[d]]
      <4>1. \A x \in Object : x \in {result'[d], resultWithoutOwnerMap'[d]} => InUse(x)' BY DEF InUse
      <4> QED BY <1>1, <1>2, <1>7, <1>10, <2>2, <4>1
    <3>3. KeepsFound(d)' /\ Proceeds(d)' BY <1>1, <1>7, <2>1, <2>2, <3>2, Undisturbed
    <3> QED BY <3>1, <3>3
  <2>3. CASE d = c
    <3>1. OwnsAlone(c)' BY <1>7 DEF OwnsAlone, Owns
    <3>2. KeepsFound(c)' BY <1>7 DEF KeepsFound
    <3>3. /\ asked[c].includeOwnerMap => heap'[r].ownerMap = "white"
          /\ found[c] # NULL => heap'[r].evaluation = found[c]
      BY <1>3, <1>5, <1>9 DEF Meets
    <3>4. Proceeds(c)'
      BY <1>1, <1>2, <1>7, <1>11, <3>3 DEF Proceeds, HasReturned, Suits, Serves, Meets
    <3> QED BY <2>3, <3>1, <3>2, <3>4
  <2> QED BY <2>2, <2>3
<1>14. Changeless BY <1>2, <1>10, PublishedInUse DEF Changeless
<1> QED BY <1>8, <1>12, <1>13, <1>14 DEF ClientsSound

\* It gives up.
LEMMA ThrowsSound ==
  ASSUME CacheInv, NEW c \in Client, Throws(c)
  PROVE  CacheInv' /\ Changeless
<1> USE CacheFacts DEF CacheInv
<1>1. /\ entries' = entries /\ DeleteUnused(heap) /\ Goto(c, "idle")
      /\ asked' = [asked EXCEPT ![c] = NULL] /\ found' = [found EXCEPT ![c] = NULL]
      /\ resultWithoutOwnerMap' = [resultWithoutOwnerMap EXCEPT ![c] = NULL]
      /\ result' = [result EXCEPT ![c] = NULL]
  BY DEF Throws
<1>2. heap' \in [Object -> OutputType] /\ \A o \in Object : InUse(o)' => heap'[o] = heap[o]
  BY <1>1, DeletesUnused DEF CacheTypes
<1>3. /\ pc' \in [Client -> {"idle", "wait", "postprocess", "set"}] /\ pc'[c] = "idle"
      /\ asked' \in [Client -> Ask \cup {NULL}] /\ asked'[c] = NULL
      /\ result' \in [Client -> Object \cup {NULL}] /\ result'[c] = NULL
      /\ resultWithoutOwnerMap' \in [Client -> Object \cup {NULL}] /\ resultWithoutOwnerMap'[c] = NULL
      /\ found' \in [Client -> Evaluation \cup {NULL}] /\ found'[c] = NULL
  BY <1>1 DEF CacheTypes, Goto
<1>4. \A d \in Client \ {c} :
        /\ asked'[d] = asked[d] /\ pc'[d] = pc[d] /\ result'[d] = result[d]
        /\ resultWithoutOwnerMap'[d] = resultWithoutOwnerMap[d] /\ found'[d] = found[d]
  BY <1>1 DEF CacheTypes, Goto
<1>5. CacheTypes' BY <1>1, <1>2, <1>3 DEF CacheTypes
<1>6. TableIsFinal'
  <2>1. \A i \in Entry : entries'[i] # NULL => heap'[entries[i]] = heap[entries[i]]
    BY <1>1, <1>2 DEF InUse, CacheTypes
  <2> QED BY <1>1, <2>1, TableKeeps
<1>7. ASSUME NEW d \in Client PROVE (OwnsAlone(d) /\ KeepsFound(d) /\ Proceeds(d))'
  <2>1. OwnsAlone(d) /\ KeepsFound(d) /\ Proceeds(d) BY DEF ClientsSound
  <2>2. CASE d # c
    <3>1. OwnsAlone(d)'
      <4>1. Owns(d)' <=> Owns(d) BY <1>4, <2>2 DEF Owns
      <4> QED BY <1>1, <1>3, <1>4, <2>1, <2>2, <4>1 DEF OwnsAlone
    <3>2. /\ result[d] \in Object => heap'[result[d]] = heap[result[d]]
          /\ resultWithoutOwnerMap[d] \in Object =>
               heap'[resultWithoutOwnerMap[d]] = heap[resultWithoutOwnerMap[d]]
      BY <1>2, <1>4, <2>2 DEF InUse
    <3>3. KeepsFound(d)' /\ Proceeds(d)' BY <1>4, <2>1, <2>2, <3>2, Undisturbed
    <3> QED BY <3>1, <3>3
  <2>3. CASE d = c
    <3>1. OwnsAlone(c)' BY <1>3 DEF OwnsAlone, Owns
    <3>2. KeepsFound(c)' /\ Proceeds(c)' BY <1>3 DEF KeepsFound, Proceeds, HasReturned
    <3> QED BY <2>3, <3>1, <3>2
  <2> QED BY <2>2, <2>3
<1>8. Changeless BY <1>2, PublishedInUse DEF Changeless
<1> QED BY <1>5, <1>6, <1>7, <1>8 DEF ClientsSound

-----------------------------------------------------------------------------
\* The invariant holds of an empty table.
LEMMA CacheInitSound == CacheInit => CacheInv
<1> SUFFICES ASSUME CacheInit PROVE CacheInv OBVIOUS
<1> USE CacheFacts DEF CacheInit
<1>1. CacheTypes BY DEF CacheTypes
<1>2. TableIsFinal BY DEF TableIsFinal
<1>3. ClientsSound
  BY DEF ClientsSound, OwnsAlone, Owns, KeepsFound, Proceeds, HasReturned
<1> QED BY <1>1, <1>2, <1>3 DEF CacheInv

\* Every step keeps it, and writes no published output.
LEMMA CacheStep == CacheInv /\ [CacheNext]_cacheVars => CacheInv' /\ (Changeless \/ UNCHANGED cacheVars)
<1> SUFFICES ASSUME CacheInv, [CacheNext]_cacheVars PROVE CacheInv' /\ (Changeless \/ UNCHANGED cacheVars)
  OBVIOUS
<1>1. CASE clear BY <1>1, ClearSound
<1>2. CASE \E c \in Client : evaluate(c) BY <1>2, EvaluateSound
<1>3. CASE \E c \in Client : ServerAnswers(c) BY <1>3, ServerAnswersSound
<1>4. CASE \E c \in Client : Postprocesses(c) BY <1>4, PostprocessesSound
<1>5. CASE \E c \in Client : Sets(c) BY <1>5, SetsSound
<1>6. CASE \E c \in Client : Throws(c) BY <1>6, ThrowsSound
<1>7. CASE UNCHANGED cacheVars
  <2>1. /\ heap' = heap /\ entries' = entries /\ pc' = pc /\ asked' = asked /\ result' = result
        /\ resultWithoutOwnerMap' = resultWithoutOwnerMap /\ found' = found
    BY <1>7 DEF cacheVars, clientVars
  <2>2. CacheTypes' BY <2>1 DEF CacheInv, CacheTypes
  <2>3. TableIsFinal' BY <2>1 DEF CacheInv, TableIsFinal, Suits, Serves
  <2>4. ClientsSound'
    <3> SUFFICES ASSUME NEW d \in Client PROVE (OwnsAlone(d) /\ KeepsFound(d) /\ Proceeds(d))'
      BY DEF ClientsSound
    <3>1. OwnsAlone(d) /\ KeepsFound(d) /\ Proceeds(d) BY DEF CacheInv, ClientsSound
    <3>2. OwnsAlone(d)' BY <2>1, <3>1 DEF OwnsAlone, Owns
    <3> QED BY <2>1, <3>1, <3>2, Undisturbed DEF CacheInv
  <2> QED BY <1>7, <2>2, <2>3, <2>4 DEF CacheInv
<1> QED BY <1>1, <1>2, <1>3, <1>4, <1>5, <1>6, <1>7 DEF CacheNext

\* The inductive invariant of the cache holds: outputs in the table are final, those in work are known
\* to one client only.
THEOREM CacheIsSound == CacheSpec => []CacheInv
BY CacheInitSound, CacheStep, PTL DEF CacheSpec

\* So a client that has returned has what it asked for.
LEMMA SoundGivesResult == CacheInv => ResultIsWhatWasAsked
<1> SUFFICES ASSUME CacheInv, NEW c \in Client, HasReturned(c)
             PROVE  LET out == heap[result[c]]
                        p   == asked[c].position
                    IN  /\ out \in OutputType /\ out.nnHash = getHash(p)
                        /\ asked[c].includeOwnerMap => out.ownerMap = "white"
                        /\ found[c] # NULL => out.evaluation = found[c]
                        /\ out.ownerMap # "raw"
                        /\ \A loc \in out.moves :
                             isLegal([p.board EXCEPT !.lastLoc = NoLoc], loc, p.pla)
  BY DEF ResultIsWhatWasAsked
<1>1. /\ result[c] \in Object
      /\ Suits(heap[result[c]], asked[c].position) /\ Meets(heap[result[c]], c)
  BY DEF CacheInv, ClientsSound, Proceeds
<1>2. heap[result[c]] \in OutputType BY <1>1 DEF CacheInv, CacheTypes
<1> QED BY <1>1, <1>2 DEF Suits, Serves, Meets, AllowedByStones

\* Whatever the clients ask for, and however the hashes share the entries of
\* the table, what evaluate returns is for the hash that was asked for, is
\* complete, and is the evaluation that was found where there was one
\* (nneval.cpp, evaluate): nobody returns the half-made output of another
\* client or one that was evicted and used again.
THEOREM ResultsAreAsAsked == CacheSpec => []ResultIsWhatWasAsked
BY CacheIsSound, SoundGivesResult, PTL

\* An output in the table or returned to a client is never written again,
\* though the threads that read it take no lock: only its owner writes it,
\* before it is published.
THEOREM PublishedStaysFinal == CacheSpec => PublishedIsFinal
<1>1. CacheInv /\ [CacheNext]_cacheVars =>
        [\A o \in Object : Published(o) /\ Published(o)' => heap'[o] = heap[o]]_cacheVars
  BY CacheStep DEF Changeless
<1> QED BY <1>1, CacheIsSound, PTL DEF CacheSpec, PublishedIsFinal
=============================================================================
