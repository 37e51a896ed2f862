----------------------------- MODULE BrowserGame -----------------------------
(***************************************************************************)
(* The rules as the browser plays them, src/frontend/src/core/game.ts, for *)
(* games of two people at one screen and for the moves it offers online.   *)
(*                                                                         *)
(* Here the state is what the code keeps, columns of tiles and arrays of   *)
(* penguin slots in which -1 stands for nothing, and the loops over        *)
(* players and slots change it in the order of the code.  PenguinGame      *)
(* describes the same rules with sets and takes all isolated penguins away *)
(* at once; this module is shown to implement it.                          *)
(***************************************************************************)
EXTENDS Integers, FiniteSets, SequencesExt

CONSTANTS Rows, Cols, NumPenguins, Boards

VARIABLE state

ASSUME BrowserAssumption ==
    /\ Rows \in Nat \ {0} /\ Cols \in Nat \ {0} /\ NumPenguins \in Nat \ {0}

Rules == INSTANCE PenguinRules
Cells == Rules!Cells
Players == {0, 1}
Slots == 1..NumPenguins
None == -1            \* no player
NoTile == <<>>        \* no tile, -1 in the code

ASSUME DealsAssumption == Boards \subseteq [Cells -> 1..3]

PlayerOrder == <<0, 1>>
SlotOrder == [n \in Slots |-> n]

GameState ==
    [tiles   : [Cells -> [fish : 1..3, gone : BOOLEAN, owner : Players \cup {None}]],
     players : [Players -> [score : Nat, stuck : BOOLEAN,
                            penguins : [Slots -> Cells \cup {NoTile}]]],
     phase   : {"placing", "moving", "finished"},
     turn    : Players,
     winner  : {-2, -1, 0, 1},
     ply     : Nat]

createGame(fish) ==
    [tiles   |-> [c \in Cells |-> [fish |-> fish[c], gone |-> FALSE, owner |-> None]],
     players |-> [p \in Players |-> [score |-> 0, stuck |-> FALSE,
                                     penguins |-> [i \in Slots |-> NoTile]]],
     phase   |-> "placing", turn |-> 0, winner |-> -2, ply |-> 0]

\* Mutant of Open: penguins are no obstacle.
OpenWithPenguins(s, c) == c \in Cells /\ ~s.tiles[c].gone

Open(s, c) == c \in Cells /\ ~s.tiles[c].gone /\ s.tiles[c].owner = None

neighbors(c) == {Rules!Along(c, d, 1) : d \in Rules!HexDirs}

\* The end of the slide in direction d: the number of open tiles in a row.
Reach(s, c, d) ==
    LET open[k \in 1..(Rows + Cols)] ==
            IF Open(s, Rules!Along(c, d, k)) THEN 1 + open[k + 1] ELSE 0
    IN  open[1]

legalMovesFrom(s, c) ==
    UNION {{Rules!Along(c, d, k) : k \in 1..Reach(s, c, d)} : d \in Rules!HexDirs}

playerCanMove(s, p) ==
    \E i \in Slots : s.players[p].penguins[i] # NoTile
                       /\ legalMovesFrom(s, s.players[p].penguins[i]) # {}

-----------------------------------------------------------------------------
(* The helpers of a move, as functions of the state they change. *)

removePenguin(p, i) == [s \in GameState |->
    LET c == s.players[p].penguins[i]
    IN  IF c = NoTile THEN s
        ELSE [s EXCEPT !.tiles[c].owner = None, !.tiles[c].gone = TRUE,
                       !.players[p].penguins[i] = NoTile]]

\* Mutant of DropIsolated: only the penguin of the first slot is looked at.
DropFirstIsolated(p, i) == [s \in GameState |->
    LET c == s.players[p].penguins[i]
    IN  IF i = 1 /\ c # NoTile /\ ~\E n \in neighbors(c) : Open(s, n)
        THEN removePenguin(p, i)[s] ELSE s]

\* One round of the inner loop of settleIsolatedPenguins.
DropIsolated(p, i) == [s \in GameState |->
    LET c == s.players[p].penguins[i]
    IN  IF c # NoTile /\ ~\E n \in neighbors(c) : Open(s, n)
        THEN removePenguin(p, i)[s] ELSE s]

\* One round of its outer loop.
SettlePlayer(p) == [s \in GameState |->
    LET t == FoldLeft(LAMBDA u, i : DropIsolated(p, i)[u], s, SlotOrder)
    IN  IF \A i \in Slots : t.players[p].penguins[i] = NoTile
        THEN [t EXCEPT !.players[p].stuck = TRUE] ELSE t]

settleIsolatedPenguins[s \in GameState] ==
    FoldLeft(LAMBDA t, p : SettlePlayer(p)[t], s, PlayerOrder)

eliminatePlayer(p) == [s \in GameState |->
    LET t == FoldLeft(LAMBDA u, i : removePenguin(p, i)[u], s, SlotOrder)
    IN  settleIsolatedPenguins[[t EXCEPT !.players[p].stuck = TRUE]]]

\* The first of the best scores wins unless a later one equals it.
finishGame[s \in GameState] ==
    LET best == Max({s.players[p].score : p \in Players})
        tops == {p \in Players : s.players[p].score = best}
    IN  [s EXCEPT !.phase = "finished",
                  !.winner = IF Cardinality(tops) > 1 THEN -1 ELSE CHOOSE p \in tops : TRUE]

\* The loop of advanceTurn from its round `step` on; the turn stays while it looks.
Advance[step \in 1..3] == [s \in GameState |->
    LET next == (s.turn + step) % 2
    IN  IF step > 2 THEN finishGame[s]
        ELSE IF s.players[next].stuck THEN Advance[step + 1][s]
        ELSE IF playerCanMove(s, next) THEN [s EXCEPT !.turn = next]
        ELSE Advance[step + 1][eliminatePlayer(next)[s]]]

advanceTurn == Advance[1]

-----------------------------------------------------------------------------
(* applyMove. *)

OpenMoving[s \in GameState] ==
    LET t == [settleIsolatedPenguins[[s EXCEPT !.phase = "moving"]] EXCEPT !.turn = 0]
    IN  IF playerCanMove(t, 0) THEN t ELSE advanceTurn[eliminatePlayer(0)[t]]

doPlace(s, p, c) ==
    LET slot == Min({i \in Slots : s.players[p].penguins[i] = NoTile})
        t == [s EXCEPT !.tiles[c].owner = p,
                       !.players[p].penguins[slot] = c,
                       !.players[p].score = @ + s.tiles[c].fish,
                       !.ply = @ + 1]
    IN  IF t.ply >= 2 * NumPenguins THEN OpenMoving[t]
        ELSE [t EXCEPT !.turn = (@ + 1) % 2]

CollectAndSlide(s, p, from, to) ==
    [s EXCEPT !.tiles[from].owner = None, !.tiles[from].gone = TRUE,
              !.tiles[to].owner = p,
              !.players[p].score = @ + s.tiles[to].fish,
              !.players[p].penguins[CHOOSE i \in Slots : s.players[p].penguins[i] = from] = to,
              !.ply = @ + 1]

\* The mover may be stranded by its own move.
Strand(p) == [s \in GameState |-> IF playerCanMove(s, p) THEN s ELSE eliminatePlayer(p)[s]]

doMove(s, p, from, to) ==
    advanceTurn[Strand(p)[settleIsolatedPenguins[CollectAndSlide(s, p, from, to)]]]

Place(c) ==
    /\ state.phase = "placing"
    /\ Open(state, c) /\ state.tiles[c].fish = 1
    /\ state' = doPlace(state, state.turn, c)

Move(from, to) ==
    /\ state.phase = "moving"
    /\ state.tiles[from].owner = state.turn
    /\ to \in legalMovesFrom(state, from)
    /\ state' = doMove(state, state.turn, from, to)

Next == \E to \in Cells : Place(to) \/ \E from \in Cells : Move(from, to)

-----------------------------------------------------------------------------
(* The browser and the server play one game. *)

\* The state as the server module describes it: tuples instead of -1 and arrays.
AsServer(s) ==
    [fish     |-> [c \in Cells |-> s.tiles[c].fish],
     gone     |-> {c \in Cells : s.tiles[c].gone},
     owner    |-> {x \in Cells \X Players : s.tiles[x[1]].owner = x[2]},
     penguins |-> {x \in Players \X Slots \X Cells : s.players[x[1]].penguins[x[2]] = x[3]},
     score    |-> [p \in Players |-> s.players[p].score],
     stuck    |-> {p \in Players : s.players[p].stuck},
     phase    |-> s.phase, turn |-> s.turn, winner |-> s.winner, ply |-> s.ply]

Server == INSTANCE PenguinGame WITH game <- AsServer(state)

\* onCellClick: the moves that clicks on the board of s can make for player p.
Offered(s, p) ==
    IF s.phase = "finished" \/ s.turn # p THEN {}
    ELSE IF s.phase = "placing"
    THEN {[kind |-> "place", to |-> c] : c \in {d \in Cells : Open(s, d) /\ s.tiles[d].fish = 1}}
    ELSE UNION {{[kind |-> "move", from |-> s.players[p].penguins[i], to |-> c] :
                   c \in legalMovesFrom(s, s.players[p].penguins[i])} :
                  i \in {j \in Slots : s.players[p].penguins[j] # NoTile}}
=============================================================================
