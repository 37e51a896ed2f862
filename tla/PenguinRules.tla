---------------------------- MODULE PenguinRules ----------------------------
(***************************************************************************)
(* The rules of the game: src/server/internal/game/game.go (its twin in    *)
(* the browser, src/frontend/src/core/game.ts, has the same functions).    *)
(* Every operator is a pure function of a GameState record, as the methods *)
(* of GameState are functions of the struct they work on.  The methods     *)
(* that change the struct and are composed are functions over GameState.   *)
(*                                                                         *)
(* A tile is named by its axial coordinates.  The columns of the tile      *)
(* slice are the fields fish, gone and owner, where owner is the set of    *)
(* pairs <<tile, player>>; penguins is the set of <<player, slot, tile>>,  *)
(* and the -1 of the code, no owner or no tile, is the absence of a tuple. *)
(***************************************************************************)
EXTENDS Integers, FiniteSets

CONSTANTS Rows, Cols,       \* the board: 8 rows of 8 and 7 tiles in the code
          NumPenguins       \* penguinCount(2), 4 in the code

Players == {0, 1}
Tie == -1
Undecided == -2

Slots == 1..NumPenguins

\* Even rows have Cols tiles and odd rows one less, shifted into axial form.
boardCoords ==
    UNION {{<<col - ((row - (row % 2)) \div 2), row>> : col \in 0..(Cols - 1 - (row % 2))}
             : row \in 0..(Rows - 1)}

Cells == boardCoords

HexDirs == {<<1, 0>>, <<1, -1>>, <<0, -1>>, <<-1, 0>>, <<-1, 1>>, <<0, 1>>}

\* No straight line on the board is longer than this.
MaxSlide == Rows + Cols

ASSUME BoardAssumption == Rows \in Nat \ {0} /\ Cols \in Nat \ {0}
ASSUME PenguinAssumption == NumPenguins \in Nat \ {0}
Phases == {"placing", "moving", "finished"}

GameState ==
    [fish     : [Cells -> 1..3],
     gone     : SUBSET Cells,
     owner    : SUBSET (Cells \X Players),
     penguins : SUBSET (Players \X Slots \X Cells),
     score    : [Players -> Nat],
     stuck    : SUBSET Players,
     phase    : Phases,
     turn     : Players,
     winner   : Players \cup {Tie, Undecided},
     ply      : Nat]

\* The shuffled bags: every layout with the given number of tiles per fish count.
Deals(bag) ==
    {f \in [Cells -> 1..3] :
        \A n \in 1..3 : Cardinality({c \in Cells : f[c] = n}) = bag[n]}

NewGame(fish) ==
    [fish     |-> fish,
     gone     |-> {},
     owner    |-> {},
     penguins |-> {},
     score    |-> [p \in Players |-> 0],
     stuck    |-> {},
     phase    |-> "placing",
     turn     |-> 0,
     winner   |-> Undecided,
     ply      |-> 0]

-----------------------------------------------------------------------------
(* Where penguins may be placed and may slide. *)

\* The tile k steps from c in direction d (it may lie off the board).
Along(c, d, k) == <<c[1] + k * d[1], c[2] + k * d[2]>>

\* Tiles a penguin may enter.
Free(s) == {c \in Cells \ s.gone : \A p \in Players : <<c, p>> \notin s.owner}

LegalPlacements(s) == {c \in Free(s) : s.fish[c] = 1}

\* Six straight lines, each until a hole, a penguin or the edge.
LegalMovesFrom(s, c) ==
    UNION {{Along(c, d, k) : k \in {n \in 1..MaxSlide :
                                      \A j \in 1..n : Along(c, d, j) \in Free(s)}}
             : d \in HexDirs}

PenguinsOf(s, p) == {x \in s.penguins : x[1] = p}

PlayerCanMove(s, p) == \E x \in PenguinsOf(s, p) : LegalMovesFrom(s, x[3]) # {}

AllMoves(s, p) ==
    IF s.phase = "finished" \/ s.turn # p THEN {}
    ELSE IF s.phase = "placing"
         THEN {[kind |-> "place", to |-> c] : c \in LegalPlacements(s)}
         ELSE UNION {{[kind |-> "move", from |-> x[3], to |-> c]
                        : c \in LegalMovesFrom(s, x[3])} : x \in PenguinsOf(s, p)}

-----------------------------------------------------------------------------
(* Penguins that leave, players that are out, and the turn. *)

\* Mutants of RemovePenguins: the owner stays; earlier holes are forgotten.
RemoveKeepingOwner(s, lost) ==
    [s EXCEPT !.gone = s.gone \cup {x[3] : x \in lost}, !.penguins = s.penguins \ lost]
RemoveRefreezing(s, lost) ==
    LET ice == {x[3] : x \in lost}
    IN  [s EXCEPT !.gone     = IF ice = {} THEN s.gone ELSE ice,
                  !.owner    = {o \in s.owner : o[1] \notin ice},
                  !.penguins = s.penguins \ lost]

\* removePenguin for every penguin of lost: it goes, and so does its ice.
RemovePenguins(s, lost) ==
    LET ice == {x[3] : x \in lost}
    IN  [s EXCEPT !.gone     = s.gone \cup ice,
                  !.owner    = {o \in s.owner : o[1] \notin ice},
                  !.penguins = s.penguins \ lost]

\* Mutants of Isolated: penguins support each other; three directions are not looked at.
IsolatedFromIce(s) ==
    {x \in s.penguins : \A d \in HexDirs : Along(x[3], d, 1) \notin Cells \ s.gone}
IsolatedOnOneSide(s) ==
    {x \in s.penguins : \A d \in {<<1, 0>>, <<1, -1>>, <<0, -1>>} :
                           Along(x[3], d, 1) \notin Free(s)}

Isolated(s) ==
    {x \in s.penguins : \A d \in HexDirs : Along(x[3], d, 1) \notin Free(s)}

\* settleIsolatedPenguins.  The loop removes the isolated penguins one by one;
\* a removal turns an occupied tile into a hole and never a free one, so the
\* penguins isolated before the loop are the ones it removes.
Settle[s \in GameState] ==
    LET t == RemovePenguins(s, Isolated(s))
    IN  [t EXCEPT !.stuck = s.stuck \cup {p \in Players : PenguinsOf(t, p) = {}}]

Eliminate(p) == [s \in GameState |->
    Settle[[RemovePenguins(s, PenguinsOf(s, p)) EXCEPT !.stuck = s.stuck \cup {p}]]]

\* Mutants of Finish: no winner; no tie.
FinishUndecided(s) == [s EXCEPT !.phase = "finished"]
FinishWithoutTie(s) ==
    [s EXCEPT !.phase = "finished", !.winner = IF s.score[1] > s.score[0] THEN 1 ELSE 0]

Finish(s) ==
    [s EXCEPT !.phase  = "finished",
              !.winner = IF s.score[0] = s.score[1] THEN Tie
                         ELSE IF s.score[1] > s.score[0] THEN 1 ELSE 0]

\* Mutant of NextPlayer: no modulus.
NextPlayerUnwrapped(p) == p + 1

\* The player after p.
NextPlayer(p) == (p + 1) % 2

\* One round of the loop of advanceTurn: a player who is in and cannot move is
\* eliminated.
Visit(p) == [s \in GameState |->
    IF p \in s.stuck \/ PlayerCanMove(s, p) THEN s ELSE Eliminate(p)[s]]

\* Mutants of InPlay: the turn just alternates; only the first penguin is looked at.
InPlayAlways(s, p) == TRUE
InPlayFirstSlot(s, p) ==
    p \notin s.stuck /\ \E x \in PenguinsOf(s, p) : x[2] = 1 /\ LegalMovesFrom(s, x[3]) # {}

InPlay(s, p) == p \notin s.stuck /\ PlayerCanMove(s, p)

\* advanceTurn: the loop visits the opponent of the player on turn, then that
\* player again, and stops at the first who is in and can move.
AdvanceTurn[s \in GameState] ==
    LET next == NextPlayer(s.turn)
        t    == Visit(next)[s]
    IN  IF InPlay(s, next) THEN [s EXCEPT !.turn = next]
        ELSE IF InPlay(t, s.turn) THEN t
        ELSE Finish(Visit(s.turn)[t])

-----------------------------------------------------------------------------
(* ApplyMove, by kind of move. *)

\* The slots of p that hold no penguin.
FreeSlots(s, p) == {i \in Slots : \A x \in PenguinsOf(s, p) : x[2] # i}

\* The first free slot, if there is one, takes the penguin.
FillSlot(s, p, c) ==
    {<<p, i, c>> : i \in {n \in FreeSlots(s, p) : \A m \in FreeSlots(s, p) : n <= m}}

\* The placement alone: tile, score, slot and ply.
PutDown(s, p, c) ==
    [s EXCEPT !.owner    = s.owner \cup {<<c, p>>},
              !.score    = [s.score EXCEPT ![p] = s.score[p] + s.fish[c]],
              !.penguins = s.penguins \cup FillSlot(s, p, c),
              !.ply      = s.ply + 1]

\* The last placement opens the moving phase, and player 0 moves first.
OpenMoving(s) ==
    LET t == Settle[[s EXCEPT !.phase = "moving", !.turn = 0]]
    IN  IF PlayerCanMove(t, 0) THEN t ELSE AdvanceTurn[Eliminate(0)[t]]

CanPlace(s, p, c) ==
    /\ s.phase = "placing"
    /\ s.turn = p
    /\ c \in LegalPlacements(s)

ApplyPlace(s, p, c) ==
    LET t == PutDown(s, p, c)
    IN  IF t.ply >= 2 * NumPenguins THEN OpenMoving(t)
        ELSE [t EXCEPT !.turn = NextPlayer(s.turn)]

\* The penguin of p on tile from, if a slot holds one, is now on tile to.
Relocate(s, p, from, to) ==
    {IF x[1] = p /\ x[3] = from THEN <<p, x[2], to>> ELSE x : x \in s.penguins}

\* Mutants of SlideTo: the fish of the tile left are counted; that tile stays.
SlideCountingDeparture(s, p, from, to) ==
    [s EXCEPT !.gone     = s.gone \cup {from},
              !.owner    = (s.owner \ {<<from, p>>}) \cup {<<to, p>>},
              !.score    = [s.score EXCEPT ![p] = s.score[p] + s.fish[from]],
              !.penguins = Relocate(s, p, from, to),
              !.ply      = s.ply + 1]
SlideLeavingIce(s, p, from, to) ==
    [s EXCEPT !.owner    = (s.owner \ {<<from, p>>}) \cup {<<to, p>>},
              !.score    = [s.score EXCEPT ![p] = s.score[p] + s.fish[to]],
              !.penguins = Relocate(s, p, from, to),
              !.ply      = s.ply + 1]

\* The slide alone: the ice left behind sinks, the fish are collected on arrival.
SlideTo(s, p, from, to) ==
    [s EXCEPT !.gone     = s.gone \cup {from},
              !.owner    = (s.owner \ {<<from, p>>}) \cup {<<to, p>>},
              !.score    = [s.score EXCEPT ![p] = s.score[p] + s.fish[to]],
              !.penguins = Relocate(s, p, from, to),
              !.ply      = s.ply + 1]

CanSlide(s, p, from, to) ==
    /\ s.phase = "moving"
    /\ s.turn = p
    /\ <<from, p>> \in s.owner
    /\ to \in LegalMovesFrom(s, from)

ApplySlide(s, p, from, to) ==
    LET t == Settle[SlideTo(s, p, from, to)]
    IN  AdvanceTurn[IF PlayerCanMove(t, p) THEN t ELSE Eliminate(p)[t]]
=============================================================================
