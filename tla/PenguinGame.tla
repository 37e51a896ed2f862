----------------------------- MODULE PenguinGame -----------------------------
(***************************************************************************)
(* One game as a state machine: NewGame deals a board, then every          *)
(* successful ApplyMove is a step.  A rejected move returns an error and   *)
(* the old state, so it is no step at all.                                 *)
(***************************************************************************)
EXTENDS PenguinRules, Functions

CONSTANT Boards            \* the fish layouts NewGame may deal

VARIABLE game              \* the GameState

\* There are enough tiles with one fish to place every penguin (30 for 8 in the code).
ASSUME BoardsAssumption ==
    /\ Boards \subseteq [Cells -> 1..3]
    /\ \A f \in Boards : 2 * NumPenguins <= Cardinality({c \in Cells : f[c] = 1})

Init == \E fish \in Boards : game = NewGame(fish)

Place(p, c) ==
    /\ CanPlace(game, p, c)
    /\ game' = ApplyPlace(game, p, c)

Slide(p, from, to) ==
    /\ CanSlide(game, p, from, to)
    /\ game' = ApplySlide(game, p, from, to)

Next ==
    \/ \E p \in Players, c \in Cells : Place(p, c)
    \/ \E p \in Players, from, to \in Cells : Slide(p, from, to)

Spec == Init /\ [][Next]_game

-----------------------------------------------------------------------------
(* Invariants. *)

TypeOK == game \in GameState

\* Occupied and sunk ice: the tiles whose fish have been collected.
Used == game.gone \cup {o[1] : o \in game.owner}

\* Every fish is collected once, by the player who stepped on its tile: the
\* scores add up to the fish on sunk and occupied tiles.  Collecting on arrival
\* (applyChecked) and dropping penguins without scoring (removePenguin) must fit
\* together over the whole game.
ScoreConservation ==
    game.score[0] + game.score[1] = SumFunctionOnSet(game.fish, Used)

\* The owner column of the tiles and the penguin slots of the players, which the
\* code keeps in step by hand, describe the same board: a penguin stands on a tile
\* of its owner that has not sunk, two penguins never share one, and every owned
\* tile carries a penguin.
PenguinsOnTheirTiles ==
    /\ game.owner = {<<x[3], x[1]>> : x \in game.penguins}
    /\ \A x \in game.penguins : x[3] \notin game.gone
    /\ \A x, y \in game.penguins :
          (x[3] = y[3] \/ (x[1] = y[1] /\ x[2] = y[2])) => x = y

\* Whoever has the turn can use it: until the game is over, the player on turn has
\* a legal move.  A turn given to a player without moves would stop the room for
\* ever, since only that player may move.
ActivePlayerHasMove ==
    game.phase # "finished" => AllMoves(game, game.turn) # {}

\* In the moving phase a player is out exactly when no penguin is left, and then
\* only: every penguin on the ice can still slide.
StuckMeansOut ==
    game.phase # "placing" =>
        /\ game.stuck = {p \in Players : PenguinsOf(game, p) = {}}
        /\ \A x \in game.penguins : LegalMovesFrom(game, x[3]) # {}

\* A finished game has an empty board and both players out, and the winner is the
\* player with more fish (finishGame).
FinishedIsSettled ==
    IF game.phase = "finished"
    THEN /\ game.penguins = {} /\ game.stuck = Players
         /\ \A p \in Players : game.winner = p <=> game.score[p] > game.score[1 - p]
    ELSE game.winner = Undecided

-----------------------------------------------------------------------------
(* Action properties. *)

\* Ice sinks under a penguin only when the board left behind offers no way off it:
\* settleIsolatedPenguins and eliminatePlayer never take a penguin that could slide,
\* whatever order they visit the penguins in.  The one other tile that sinks in a
\* ply is the tile the moving penguin has left.
OnlyIsolatedIceSinks ==
    [][LET sunk == {c \in game'.gone \ game.gone : LegalMovesFrom(game', c) # {}}
       IN  \A c, d \in sunk : /\ game.phase = "moving"
                              /\ <<c, game.turn>> \in game.owner
                              /\ c = d]_game

\* After a slide the turn passes to the opponent whenever the opponent still can
\* move: a player moves twice in a row only over an opponent who is out.
OpponentIsNotSkipped ==
    [][(game.phase = "moving" /\ PlayerCanMove(game', 1 - game.turn))
          => game'.turn = 1 - game.turn]_game

\* One tile of fish per ply: exactly one tile that nobody had used becomes used by
\* a ply, plus the tiles that sink under penguins, and its fish go to the player
\* who moved.
HarvestOneTile ==
    [][\E c \in Cells \ Used :
          /\ Used' = Used \cup {c}
          /\ game'.score = [game.score EXCEPT ![game.turn] = @ + game.fish[c]]]_game

\* Ice never comes back, and a player who is out stays out.
NothingComesBack ==
    [][/\ game.gone \subseteq game'.gone
       /\ game.stuck \subseteq game'.stuck]_game

-----------------------------------------------------------------------------
(* What the rooms rely on. *)

View(s) == [ply |-> s.ply, turn |-> s.turn, over |-> s.phase = "finished",
            winner |-> s.winner]

Turns == INSTANCE TurnGame
            WITH MaxPlies <- Cardinality(Cells),
                 seen <- View(game)

\* The rules implement the turn-taking the rooms are written against.
ImplementsTurnGame == Turns!Spec

=============================================================================
