----------------------------- MODULE CoffeeBoard -----------------------------
(***************************************************************************)
(* The position of a game of Coffee: src/cpp/game/board.h and board.cpp.   *)
(* A spot is an index into one array in which every row is preceded by one *)
(* wall cell, so the wall on the right of a row is the wall on the left of *)
(* the next one.  A move is a spot and a direction; the next move has to   *)
(* be on the line through that spot in that direction.                     *)
(***************************************************************************)
EXTENDS Integers, FiniteSets

CONSTANTS XSize, YSize,  (* size of the board *)
          WinLen         (* stones in a row needed to win *)

ASSUME BoardAssumption ==
    /\ XSize \in Nat \ {0}
    /\ YSize \in Nat \ {0}
    /\ WinLen \in Nat \ {0}

C_EMPTY == 0
C_BLACK == 1
C_WHITE == 2
C_WALL  == 3
Players == {C_BLACK, C_WHITE}
getOpp(c) == 3 - c

D_NORTH     == 0
D_WEST      == 1
D_NORTHWEST == 2
D_NORTHEAST == 3
D_NONE      == 4
Directions  == D_NORTH..D_NORTHEAST
-----------------------------------------------------------------------------
(* Geometry.  ADJ[d] is the offset of one step in direction d. *)

Width == XSize + 1
ArrSize == Width * (YSize + 2) + 1
getSpot(x, y) == (x + 1) + (y + 1) * Width
getX(spot) == (spot % Width) - 1
getY(spot) == (spot \div Width) - 1
ADJ == [d \in Directions |->
          CASE d = D_NORTH     -> -Width
            [] d = D_WEST      -> -1
            [] d = D_NORTHWEST -> -Width - 1
            [] d = D_NORTHEAST -> -Width + 1]

NULL_LOC == 0
NoLoc == [spot |-> NULL_LOC, dir |-> D_NONE]
Spots == {getSpot(p[1], p[2]) : p \in (0..XSize-1) \X (0..YSize-1)}
Locs  == [spot : Spots, dir : Directions]
-----------------------------------------------------------------------------
(* A board.  pos_hash is the exclusive or of one random word per stone and *)
(* is modelled by the set of stones folded into it: folding a stone twice  *)
(* takes it out again.  The constant words of the board's size are left    *)
(* out, and win_len is part of the board because copying may lose it.      *)

Boards == [colors   : [0..ArrSize-1 -> C_EMPTY..C_WALL],
           pos_hash : SUBSET (Spots \X Players),
           lastLoc  : Locs \cup {NoLoc},
           win_len  : Nat]

EmptyBoard ==
    [colors   |-> [s \in 0..ArrSize-1 |-> IF s \in Spots THEN C_EMPTY ELSE C_WALL],
     pos_hash |-> {},
     lastLoc  |-> NoLoc,
     win_len  |-> WinLen]

Fold(hash, stone) == (hash \ {stone}) \cup ({stone} \ hash)

isOnBoard(b, spot) == spot \in 0..ArrSize-1 /\ b.colors[spot] # C_WALL

(* n steps of `off` from spot: a walk visits them while it is on the board. *)
LineLen == XSize + YSize
OnBoardUpTo(b, spot, off, n) == \A m \in 0..n : isOnBoard(b, spot + m * off)

SeesEmptyNextToIt(b, spot, off) == b.colors[spot + off] = C_EMPTY  \* mutant of SeesEmpty

(* The while loops of isLegal, which look past stones for an empty cell. *)
SeesEmpty(b, spot, off) ==
    \E n \in 1..LineLen : /\ OnBoardUpTo(b, spot, off, n - 1)
                          /\ b.colors[spot + n * off] = C_EMPTY

(* The switch of isLegal on the direction of the last move. *)
ObeysLastMove(b, spot) ==
    LET dx == getX(spot) - getX(b.lastLoc.spot)
        dy == getY(spot) - getY(b.lastLoc.spot)
    IN CASE b.lastLoc.dir = D_NORTH     -> dx = 0 /\ dy # 0
         [] b.lastLoc.dir = D_WEST      -> dx # 0 /\ dy = 0
         [] b.lastLoc.dir = D_NORTHWEST -> dx = dy
         [] b.lastLoc.dir = D_NORTHEAST -> dx = -dy
         [] OTHER                       -> TRUE

isLegal(b, loc, pla) ==
    /\ pla \in Players
    /\ b.colors[loc.spot] = C_EMPTY
    /\ ObeysLastMove(b, loc.spot)
    /\ \/ SeesEmpty(b, loc.spot, ADJ[loc.dir])
       \/ SeesEmpty(b, loc.spot, -ADJ[loc.dir])

(* How many cells beyond spot, in steps of off, have the colour of spot. *)
Run(b, spot, off) ==
    Cardinality({n \in 1..LineLen :
        \A m \in 1..n : /\ isOnBoard(b, spot + m * off)
                        /\ b.colors[spot + m * off] = b.colors[spot]})

ExceedsConsecutives(b, spot, len) ==  \* mutant of HasConsecutives: > for >=
    \E d \in Directions : 1 + Run(b, spot, -ADJ[d]) + Run(b, spot, ADJ[d]) > len

(* maxConsecutives(spot) >= len *)
HasConsecutives(b, spot, len) ==
    \/ len <= 1
    \/ \E d \in Directions : 1 + Run(b, spot, -ADJ[d]) + Run(b, spot, ADJ[d]) >= len

checkGameEnd(b) == HasConsecutives(b, b.lastLoc.spot, b.win_len)

playMoveKeepingHash(b, loc, pla) ==  \* mutant of playMoveAssumeLegal, as setStone
    [b EXCEPT !.colors[loc.spot] = pla, !.lastLoc = loc]

playMoveAssumeLegal(b, loc, pla) ==
    [b EXCEPT !.colors[loc.spot] = pla,
              !.pos_hash = Fold(@, <<loc.spot, pla>>),
              !.lastLoc = loc]

(* The copy constructor leaves win_len unset: the copy has any of Garbage. *)
copiesOf(b, Garbage) == {[b EXCEPT !.win_len = w] : w \in Garbage}

(* What checkConsistency recomputes and compares pos_hash with. *)
Stones(b) == {s \in Spots \X Players : b.colors[s[1]] = s[2]}
checkConsistency(b) ==
    /\ \A s \in 0..ArrSize-1 : (b.colors[s] = C_WALL) <=> (s \notin Spots)
    /\ b.pos_hash = Stones(b)
=============================================================================
