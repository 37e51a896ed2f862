-------------------------- MODULE PenguinGame_proofs --------------------------
(***************************************************************************)
(* Proofs about PenguinGame for every board size, number of penguins and   *)
(* set of fish layouts.                                                    *)
(*                                                                         *)
(* The heart is the lemma SettleSettles: after settleIsolatedPenguins a    *)
(* player is out exactly when no penguin is left, and every penguin left   *)
(* can slide.  From it follows that advanceTurn never eliminates anybody   *)
(* and that the player on turn can always move.                            *)
(***************************************************************************)
EXTENDS PenguinGame, Sums

(* The parts of the inductive invariant, as predicates of a GameState. *)

\* Tiles and slots agree (PenguinsOnTheirTiles).
Consistent(s) ==
    /\ s.owner = {<<x[3], x[1]>> : x \in s.penguins}
    /\ \A x \in s.penguins : x[3] \notin s.gone
    /\ \A x, y \in s.penguins :
          (x[3] = y[3] \/ (x[1] = y[1] /\ x[2] = y[2])) => x = y

\* Only a player without penguins is marked as out.
StuckSound(s) == \A p \in s.stuck : PenguinsOf(s, p) = {}

\* What Settle establishes.
Settled(s) ==
    /\ s.stuck = {p \in Players : PenguinsOf(s, p) = {}}
    /\ \A x \in s.penguins : LegalMovesFrom(s, x[3]) # {}

\* The fields settling and eliminating leave alone.
SameRest(s, t) ==
    /\ t.fish = s.fish
    /\ t.score = s.score
    /\ t.phase = s.phase
    /\ t.turn = s.turn
    /\ t.winner = s.winner
    /\ t.ply = s.ply

-----------------------------------------------------------------------------
\* A penguin can slide exactly when one of the six neighbours of its tile is free.
LEMMA SlideNeedsNeighbour ==
    ASSUME NEW s, NEW c
    PROVE  LegalMovesFrom(s, c) # {} <=> \E d \in HexDirs : Along(c, d, 1) \in Free(s)
<1>1. 1 \in 1..MaxSlide /\ 1..1 = {1}
  BY BoardAssumption DEF MaxSlide
<1>2. ASSUME NEW d \in HexDirs, Along(c, d, 1) \in Free(s)
      PROVE  Along(c, d, 1) \in LegalMovesFrom(s, c)
  BY <1>1, <1>2 DEF LegalMovesFrom
<1>3. ASSUME NEW t \in LegalMovesFrom(s, c)
      PROVE  \E d \in HexDirs : Along(c, d, 1) \in Free(s)
  <2>1. PICK d \in HexDirs, k \in 1..MaxSlide : \A j \in 1..k : Along(c, d, j) \in Free(s)
    BY <1>3 DEF LegalMovesFrom
  <2>2. 1 \in 1..k
    BY <1>1 DEF MaxSlide
  <2> QED
    BY <2>1, <2>2
<1> QED
  BY <1>2, <1>3

\* The target of a slide is a free tile.
LEMMA SlideTargetIsFree ==
    ASSUME NEW s, NEW c, NEW t \in LegalMovesFrom(s, c)
    PROVE  t \in Free(s)
<1>1. PICK d \in HexDirs, k \in 1..MaxSlide :
         t = Along(c, d, k) /\ \A j \in 1..k : Along(c, d, j) \in Free(s)
  BY DEF LegalMovesFrom
<1>2. k \in 1..k
  BY <1>1 DEF MaxSlide
<1> QED
  BY <1>1, <1>2

\* Removing penguins keeps the state well formed and makes no tile free or taken.
LEMMA RemoveKeeps ==
    ASSUME NEW s \in GameState, Consistent(s), NEW lost \in SUBSET s.penguins
    PROVE  LET t == RemovePenguins(s, lost)
           IN  /\ t \in GameState
               /\ Consistent(t)
               /\ Free(t) = Free(s)
               /\ t.penguins = s.penguins \ lost
               /\ t.stuck = s.stuck
               /\ SameRest(s, t)
               /\ s.gone \subseteq t.gone
               /\ t.gone = s.gone \cup {x[3] : x \in lost}
               /\ t.gone \cup {o[1] : o \in t.owner} = s.gone \cup {o[1] : o \in s.owner}
<1> DEFINE ice == {x[3] : x \in lost}
           t == RemovePenguins(s, lost)
<1>1. t = [s EXCEPT !.gone     = s.gone \cup ice,
                    !.owner    = {o \in s.owner : o[1] \notin ice},
                    !.penguins = s.penguins \ lost]
  BY DEF RemovePenguins
<1>2. /\ t.gone = s.gone \cup ice
      /\ t.owner = {o \in s.owner : o[1] \notin ice}
      /\ t.penguins = s.penguins \ lost
      /\ t.stuck = s.stuck
      /\ SameRest(s, t)
  BY <1>1 DEF GameState, SameRest
<1>3. ice \subseteq Cells
  BY DEF GameState
<1>4. t \in GameState
  <2>1. /\ s.gone \cup ice \in SUBSET Cells
        /\ {o \in s.owner : o[1] \notin ice} \in SUBSET (Cells \X Players)
        /\ s.penguins \ lost \in SUBSET (Players \X Slots \X Cells)
    BY <1>3 DEF GameState
  <2> HIDE DEF ice, t
  <2> QED
    BY <1>1, <2>1 DEF GameState
<1>5. Consistent(t)
  <2>1. \A x \in t.penguins : x[3] \notin ice
    BY <1>2 DEF Consistent
  <2>2. \A x \in s.penguins : x[3] \notin ice => x \in t.penguins
    BY <1>2
  <2>3. t.owner = {<<x[3], x[1]>> : x \in t.penguins}
    BY <1>2, <2>1, <2>2 DEF Consistent
  <2>4. \A x \in t.penguins : x[3] \notin t.gone
    BY <1>2, <2>1 DEF Consistent
  <2> QED
    BY <1>2, <2>3, <2>4 DEF Consistent
<1>6. Free(t) = Free(s)
  <2>1. ASSUME NEW c \in ice
        PROVE  c \notin Free(s)
    <3>1. PICK x \in s.penguins : x[3] = c
      OBVIOUS
    <3>2. <<c, x[1]>> \in s.owner /\ x[1] \in Players
      BY <3>1 DEF Consistent, GameState
    <3> QED
      BY <3>2 DEF Free
  <2>2. ASSUME NEW c \in Cells, c \notin ice
        PROVE  c \in Free(t) <=> c \in Free(s)
    BY <1>2, <2>2 DEF Free
  <2>3. ASSUME NEW c \in ice
        PROVE  c \notin Free(t)
    BY <1>2, <2>3 DEF Free
  <2> QED
    BY <2>1, <2>2, <2>3 DEF Free
<1>7. t.gone \cup {o[1] : o \in t.owner} = s.gone \cup {o[1] : o \in s.owner}
  <2>1. ASSUME NEW c \in ice
        PROVE  \E o \in s.owner : o[1] = c
    <3>1. PICK x \in s.penguins : x[3] = c
      OBVIOUS
    <3>2. <<c, x[1]>> \in s.owner
      BY <3>1 DEF Consistent
    <3> QED
      BY <3>2
  <2> QED
    BY <1>2, <2>1
<1> QED
  BY <1>2, <1>4, <1>5, <1>6, <1>7

\* settleIsolatedPenguins takes the isolated penguins and sinks their ice, leaves
\* every other field alone, and settles the state.
LEMMA SettleSettles ==
    ASSUME NEW s \in GameState, Consistent(s)
    PROVE  /\ Settle[s] \in GameState
           /\ Consistent(Settle[s])
           /\ Free(Settle[s]) = Free(s)
           /\ SameRest(s, Settle[s])
           /\ s.stuck \subseteq Settle[s].stuck
           /\ Settle[s].penguins = s.penguins \ Isolated(s)
           /\ Settle[s].gone = s.gone \cup {x[3] : x \in Isolated(s)}
           /\ Settle[s].gone \cup {o[1] : o \in Settle[s].owner}
                = s.gone \cup {o[1] : o \in s.owner}
           /\ StuckSound(s) => Settled(Settle[s])
<1> DEFINE t == RemovePenguins(s, Isolated(s))
           out == {p \in Players : PenguinsOf(t, p) = {}}
<1>1. Isolated(s) \in SUBSET s.penguins
  BY DEF Isolated
<1>2. /\ t \in GameState
      /\ Consistent(t)
      /\ Free(t) = Free(s)
      /\ t.penguins = s.penguins \ Isolated(s)
      /\ t.stuck = s.stuck
      /\ SameRest(s, t)
      /\ t.gone = s.gone \cup {x[3] : x \in Isolated(s)}
      /\ t.gone \cup {o[1] : o \in t.owner} = s.gone \cup {o[1] : o \in s.owner}
  BY <1>1, RemoveKeeps
<1>3. Settle[s] = [t EXCEPT !.stuck = s.stuck \cup out]
  BY DEF Settle
<1> DEFINE u == Settle[s]
<1> HIDE DEF t
<1>4. /\ u.stuck = s.stuck \cup out
      /\ u.gone = t.gone /\ u.owner = t.owner /\ u.penguins = t.penguins
      /\ SameRest(t, u)
  BY <1>2, <1>3 DEF GameState, SameRest
<1>5. u \in GameState
  <2>1. s.stuck \cup out \in SUBSET Players
    BY DEF GameState
  <2> QED
    BY <1>2, <1>3, <2>1 DEF GameState
<1>6. Consistent(u)
  BY <1>2, <1>4 DEF Consistent
<1>7. Free(u) = Free(s)
  BY <1>2, <1>4 DEF Free
<1>8. SameRest(s, u)
  BY <1>2, <1>4 DEF SameRest
<1>9. ASSUME StuckSound(s)
      PROVE  Settled(u)
  <2>1. \A p : PenguinsOf(u, p) = PenguinsOf(t, p)
    BY <1>4 DEF PenguinsOf
  <2>2. \A p \in s.stuck : PenguinsOf(t, p) = {} /\ p \in Players
    BY <1>2, <1>9 DEF PenguinsOf, StuckSound, GameState
  <2>3. u.stuck = {p \in Players : PenguinsOf(u, p) = {}}
    BY <1>4, <2>1, <2>2
  <2>4. ASSUME NEW x \in u.penguins
        PROVE  LegalMovesFrom(u, x[3]) # {}
    <3>1. PICK d \in HexDirs : Along(x[3], d, 1) \in Free(s)
      BY <1>2, <1>4 DEF Isolated
    <3> QED
      BY <1>7, <3>1, SlideNeedsNeighbour
  <2> QED
    BY <2>3, <2>4 DEF Settled
<1> QED
  BY <1>2, <1>4, <1>5, <1>6, <1>7, <1>8, <1>9

\* The ice that settling sinks has no free neighbour, then and afterwards.
LEMMA SettlingSinksIsolatedIce ==
    ASSUME NEW s \in GameState, Consistent(s),
           NEW r, r.gone = Settle[s].gone, r.owner = Settle[s].owner
    PROVE  \A c \in r.gone \ s.gone : LegalMovesFrom(r, c) = {}
<1>1. Free(r) = Free(s) /\ r.gone = s.gone \cup {x[3] : x \in Isolated(s)}
  BY SettleSettles DEF Free
<1>2. SUFFICES ASSUME NEW x \in Isolated(s)
               PROVE  LegalMovesFrom(r, x[3]) = {}
  BY <1>1
<1>3. \A d \in HexDirs : Along(x[3], d, 1) \notin Free(r)
  BY <1>1 DEF Isolated
<1> QED
  BY <1>3, SlideNeedsNeighbour

\* Among settled players, those who can move are those who are in.
LEMMA SettledCanMove ==
    ASSUME NEW s \in GameState, Settled(s), NEW p \in Players
    PROVE  PlayerCanMove(s, p) <=> p \notin s.stuck
BY DEF Settled, PlayerCanMove, PenguinsOf

\* Eliminating a player of a settled state who cannot move leaves it settled, with
\* the same fields, and no tile becomes free or stops being so.
LEMMA EliminateKeeps ==
    ASSUME NEW s \in GameState, Consistent(s), Settled(s), NEW p \in Players,
           ~PlayerCanMove(s, p)
    PROVE  Eliminate(p)[s] = s
<1>1. PenguinsOf(s, p) = {} /\ p \in s.stuck
  BY SettledCanMove DEF Settled
<1> DEFINE t == RemovePenguins(s, {})
<1>2. RemovePenguins(s, {}) = s
  BY DEF RemovePenguins, GameState
<1>3. [s EXCEPT !.stuck = s.stuck \cup {p}] = s
  BY <1>1 DEF GameState
<1>4. Eliminate(p)[s] = Settle[s]
  BY <1>1, <1>2, <1>3 DEF Eliminate
<1>5. Isolated(s) = {}
  BY SlideNeedsNeighbour DEF Settled, Isolated
<1>6. Settle[s] = [s EXCEPT !.stuck = s.stuck \cup {q \in Players : PenguinsOf(s, q) = {}}]
  BY <1>2, <1>5 DEF Settle
<1>7. s.stuck \cup {q \in Players : PenguinsOf(s, q) = {}} = s.stuck
  BY DEF Settled
<1> QED
  BY <1>4, <1>6, <1>7 DEF GameState

\* In a settled state advanceTurn eliminates nobody: it gives the turn to the
\* opponent, else to the same player, else it finishes the game.
LEMMA AdvanceFromSettled ==
    ASSUME NEW s \in GameState, Consistent(s), Settled(s)
    PROVE  AdvanceTurn[s] =
             IF NextPlayer(s.turn) \notin s.stuck
             THEN [s EXCEPT !.turn = NextPlayer(s.turn)]
             ELSE IF s.turn \notin s.stuck THEN s ELSE Finish(s)
<1>1. NextPlayer(s.turn) \in Players /\ s.turn \in Players
  BY DEF GameState, NextPlayer, Players
<1>2. ASSUME NEW p \in Players
      PROVE  Visit(p)[s] = s /\ (InPlay(s, p) <=> p \notin s.stuck)
  BY SettledCanMove, EliminateKeeps DEF Visit, InPlay
<1> QED
  BY <1>1, <1>2 DEF AdvanceTurn

-----------------------------------------------------------------------------
(* The inductive invariant. *)

\* The tiles that carry a penguin or have sunk.
UsedTiles(s) == s.gone \cup {o[1] : o \in s.owner}

\* How many of its penguins a player has placed: the players alternate.
Placed(s, p) == IF p = 0 THEN (s.ply + 1) \div 2 ELSE s.ply \div 2

Placing(s) ==
    /\ s.gone = {} /\ s.stuck = {}
    /\ s.ply < 2 * NumPenguins
    /\ s.turn = s.ply % 2
    /\ \A p \in Players : {x[2] : x \in PenguinsOf(s, p)} = 1..Placed(s, p)
    /\ IsFiniteSet(UsedTiles(s)) /\ Cardinality(UsedTiles(s)) <= s.ply

\* The part of a finished or unfinished game that concerns its end.
Outcome(s) ==
    IF s.phase = "finished"
    THEN /\ s.penguins = {} /\ s.stuck = Players
         /\ \A p \in Players : s.winner = p <=> s.score[p] > s.score[1 - p]
         /\ s.winner # Undecided
    ELSE s.winner = Undecided

IInv(s) ==
    /\ s \in GameState
    /\ s.fish \in Boards
    /\ Consistent(s)
    /\ s.phase = "placing" => Placing(s)
    /\ s.phase # "placing" => Settled(s)
    /\ s.phase = "moving" => s.turn \notin s.stuck
    /\ Outcome(s)

\* What advanceTurn makes of a settled state in the moving phase.
LEMMA AdvanceResult ==
    ASSUME NEW s \in GameState, Consistent(s), Settled(s), s.phase = "moving",
           s.winner = Undecided, s.fish \in Boards
    PROVE  LET r == AdvanceTurn[s]
           IN  /\ IInv(r)
               /\ r.phase # "placing"
               /\ r.fish = s.fish /\ r.score = s.score /\ r.ply = s.ply
               /\ r.gone = s.gone /\ r.owner = s.owner
               /\ r.penguins = s.penguins /\ r.stuck = s.stuck
               /\ NextPlayer(s.turn) \notin s.stuck => r.turn = NextPlayer(s.turn)
<1> DEFINE r == AdvanceTurn[s]
           next == NextPlayer(s.turn)
<1>1. next \in Players /\ s.turn \in Players /\ Players \ {s.turn} = {next}
  BY DEF GameState, NextPlayer, Players
<1>2. r = IF next \notin s.stuck THEN [s EXCEPT !.turn = next]
          ELSE IF s.turn \notin s.stuck THEN s ELSE Finish(s)
  BY AdvanceFromSettled
<1> HIDE DEF r
<1>3. ASSUME NEW u, u.gone = s.gone, u.owner = s.owner, u.penguins = s.penguins,
             u.stuck = s.stuck
      PROVE  Consistent(u) /\ Settled(u)
  <2>1. Consistent(u)
    BY <1>3 DEF Consistent
  <2>2. \A c : LegalMovesFrom(u, c) = LegalMovesFrom(s, c)
    BY <1>3 DEF LegalMovesFrom, Free
  <2>3. \A p : PenguinsOf(u, p) = PenguinsOf(s, p)
    BY <1>3 DEF PenguinsOf
  <2> QED
    BY <1>3, <2>1, <2>2, <2>3 DEF Settled
<1>4. CASE next \notin s.stuck
  <2>1. r = [s EXCEPT !.turn = next]
    BY <1>2, <1>4
  <2>2. /\ r \in GameState
        /\ r.fish = s.fish /\ r.score = s.score /\ r.ply = s.ply
        /\ r.gone = s.gone /\ r.owner = s.owner
        /\ r.penguins = s.penguins /\ r.stuck = s.stuck
        /\ r.phase = "moving" /\ r.winner = Undecided /\ r.turn = next
    BY <1>1, <2>1 DEF GameState
  <2> QED
    BY <1>3, <1>4, <2>2 DEF IInv, Outcome, r
<1>5. CASE next \in s.stuck /\ s.turn \notin s.stuck
  <2>1. r = s
    BY <1>2, <1>5
  <2> QED
    BY <1>5, <2>1 DEF IInv, Outcome, r
<1>6. CASE next \in s.stuck /\ s.turn \in s.stuck
  <2>1. r = Finish(s)
    BY <1>2, <1>6
  <2>2. s.stuck = Players
    BY <1>1, <1>6 DEF GameState
  <2>3. s.penguins = {}
    BY <2>2 DEF Settled, PenguinsOf, GameState
  <2>4. s.score[0] \in Nat /\ s.score[1] \in Nat
    BY DEF GameState, Players
  <2>5. /\ r \in GameState
        /\ r.fish = s.fish /\ r.score = s.score /\ r.ply = s.ply
        /\ r.gone = s.gone /\ r.owner = s.owner
        /\ r.penguins = s.penguins /\ r.stuck = s.stuck
        /\ r.phase = "finished" /\ r.turn = s.turn
        /\ r.winner = IF s.score[0] = s.score[1] THEN Tie
                      ELSE IF s.score[1] > s.score[0] THEN 1 ELSE 0
    BY <2>1 DEF GameState, Finish, Players, Phases
  <2>6. /\ r.winner # Undecided
        /\ \A p \in Players : r.winner = p <=> s.score[p] > s.score[1 - p]
    BY <2>4, <2>5 DEF Players, Tie, Undecided
  <2> QED
    BY <1>3, <1>6, <2>2, <2>3, <2>5, <2>6 DEF IInv, Outcome, r
<1> QED
  BY <1>4, <1>5, <1>6

\* What a slide does to the state before anything settles.
Slid(s, p, from, to, u) ==
    /\ u \in GameState
    /\ Consistent(u)
    /\ StuckSound(u)
    /\ u.fish = s.fish /\ u.phase = s.phase /\ u.turn = s.turn
    /\ u.winner = s.winner /\ u.stuck = s.stuck
    /\ u.ply = s.ply + 1
    /\ u.score = [s.score EXCEPT ![p] = s.score[p] + s.fish[to]]
    /\ u.gone = s.gone \cup {from} /\ from \in Cells \ s.gone
    /\ p \in Players /\ to \in Cells \ UsedTiles(s)
    /\ UsedTiles(u) = UsedTiles(s) \cup {to}

\* A penguin leaves a tile of the game for an unused one.
LEMMA SlideKeeps ==
    ASSUME NEW s, IInv(s), NEW p, NEW from, NEW to, CanSlide(s, p, from, to)
    PROVE  Slid(s, p, from, to, SlideTo(s, p, from, to))
<1> DEFINE u == SlideTo(s, p, from, to)
<1>1. s \in GameState /\ Consistent(s) /\ Settled(s)
  BY DEF IInv, CanSlide
<1>2. p \in Players /\ from \in Cells
  BY <1>1 DEF CanSlide, GameState
<1>3. to \in Free(s)
  BY SlideTargetIsFree DEF CanSlide
<1>4. \A o \in s.owner : o[1] # to /\ o = <<o[1], o[2]>> /\ o[2] \in Players
  BY <1>1, <1>3 DEF Free, GameState
<1>5. ASSUME NEW x \in s.penguins
      PROVE  x[3] # to
  <2>1. <<x[3], x[1]>> \in s.owner
    BY <1>1 DEF Consistent
  <2> QED
    BY <1>4, <2>1
<1>6. PICK a \in s.penguins : a[3] = from /\ a[1] = p
  BY <1>1 DEF CanSlide, Consistent
<1>7. \A x \in s.penguins : x[3] = from => x = a
  BY <1>1, <1>6 DEF Consistent
<1>8. a = <<p, a[2], from>> /\ a[2] \in Slots
  BY <1>1, <1>6 DEF GameState
<1>9. from \notin s.gone /\ from # to /\ to \in Cells \ s.gone
  BY <1>1, <1>3, <1>5, <1>6 DEF Consistent, Free
<1>10. Relocate(s, p, from, to) = (s.penguins \ {a}) \cup {<<p, a[2], to>>}
  BY <1>6, <1>7 DEF Relocate
<1>11. /\ s.gone \cup {from} \in SUBSET Cells
       /\ (s.owner \ {<<from, p>>}) \cup {<<to, p>>} \in SUBSET (Cells \X Players)
       /\ Relocate(s, p, from, to) \in SUBSET (Players \X Slots \X Cells)
       /\ [s.score EXCEPT ![p] = s.score[p] + s.fish[to]] \in [Players -> Nat]
       /\ s.ply + 1 \in Nat
  BY <1>1, <1>2, <1>8, <1>9, <1>10 DEF GameState
<1>12. /\ u \in GameState
       /\ u.gone = s.gone \cup {from}
       /\ u.owner = (s.owner \ {<<from, p>>}) \cup {<<to, p>>}
       /\ u.penguins = (s.penguins \ {a}) \cup {<<p, a[2], to>>}
       /\ u.score = [s.score EXCEPT ![p] = s.score[p] + s.fish[to]]
       /\ u.ply = s.ply + 1
       /\ u.fish = s.fish /\ u.phase = s.phase /\ u.turn = s.turn
       /\ u.winner = s.winner /\ u.stuck = s.stuck
  BY <1>1, <1>10, <1>11 DEF GameState, SlideTo
<1> HIDE DEF u
<1>13. Consistent(u)
  <2>1. u.owner = {<<x[3], x[1]>> : x \in u.penguins}
    <3>1. ASSUME NEW x \in u.penguins
          PROVE  <<x[3], x[1]>> \in u.owner
      BY <1>1, <1>7, <1>12 DEF Consistent
    <3>2. ASSUME NEW o \in u.owner
          PROVE  \E x \in u.penguins : o = <<x[3], x[1]>>
      <4>1. CASE o = <<to, p>>
        <5>1. <<p, a[2], to>> \in u.penguins
          BY <1>12
        <5> QED
          BY <4>1, <5>1
      <4>2. CASE o # <<to, p>>
        <5>1. o \in s.owner /\ o # <<from, p>>
          BY <1>12, <4>2
        <5>2. PICK x \in s.penguins : o = <<x[3], x[1]>>
          BY <1>1, <5>1 DEF Consistent
        <5>3. x # a
          BY <1>6, <5>1, <5>2
        <5> QED
          BY <1>12, <5>2, <5>3
      <4> QED
        BY <4>1, <4>2
    <3> QED
      BY <3>1, <3>2
  <2>2. \A x \in u.penguins : x[3] \notin u.gone
    BY <1>1, <1>7, <1>9, <1>12 DEF Consistent
  <2>3. ASSUME NEW x \in u.penguins, NEW y \in u.penguins,
               x[3] = y[3] \/ (x[1] = y[1] /\ x[2] = y[2])
        PROVE  x = y
    BY <1>1, <1>5, <1>6, <1>8, <1>12, <2>3 DEF Consistent
  <2> QED
    BY <2>1, <2>2, <2>3 DEF Consistent
<1>14. StuckSound(u)
  BY <1>1, <1>6, <1>12 DEF StuckSound, Settled, PenguinsOf
<1>15. to \in Cells \ UsedTiles(s)
  BY <1>4, <1>9 DEF UsedTiles
<1>16. UsedTiles(u) = UsedTiles(s) \cup {to}
  <2>1. <<from, p>> \in s.owner
    BY DEF CanSlide
  <2>2. ASSUME NEW o \in s.owner
        PROVE  o[1] \in UsedTiles(u)
    BY <1>4, <1>12 DEF UsedTiles
  <2>3. <<to, p>> \in u.owner
    BY <1>12
  <2>4. to \in UsedTiles(u)
    BY <2>3 DEF UsedTiles
  <2>5. \A o \in u.owner : o[1] = to \/ o \in s.owner
    BY <1>12
  <2>6. from \in UsedTiles(s)
    BY <2>1 DEF UsedTiles
  <2> QED
    BY <1>12, <2>2, <2>4, <2>5, <2>6 DEF UsedTiles
<1> QED
  BY <1>2, <1>9, <1>12, <1>13, <1>14, <1>15, <1>16 DEF u, Slid

\* The ice that a ply from s to r has sunk although there was a way off it.
SunkTooEarly(s, r) == {c \in r.gone \ s.gone : LegalMovesFrom(r, c) # {}}

\* What every ply does: the player on turn harvests one unused tile, and at most the
\* tile its penguin left sinks with a way off it.
PlyDone(s, p, c, r) ==
    /\ IInv(r)
    /\ r.ply = s.ply + 1
    /\ r.fish = s.fish
    /\ p = s.turn /\ p \in Players /\ c \in Cells \ UsedTiles(s)
    /\ UsedTiles(r) = UsedTiles(s) \cup {c}
    /\ r.score = [s.score EXCEPT ![p] = s.score[p] + s.fish[c]]
    /\ s.gone \subseteq r.gone
    /\ s.stuck \subseteq r.stuck
    /\ \A a, b \in SunkTooEarly(s, r) :
          s.phase = "moving" /\ <<a, s.turn>> \in s.owner /\ a = b

\* A whole slide of ApplyMove.
LEMMA ApplySlideKeeps ==
    ASSUME NEW s, IInv(s), NEW p, NEW from, NEW to, CanSlide(s, p, from, to)
    PROVE  LET r == ApplySlide(s, p, from, to)
           IN  /\ PlyDone(s, p, to, r)
               /\ r.phase # "placing"
               /\ from \in r.gone /\ from \in Cells \ s.gone
               /\ PlayerCanMove(r, 1 - s.turn) => r.turn = 1 - s.turn
<1> DEFINE u == SlideTo(s, p, from, to)
           t == Settle[u]
           r == ApplySlide(s, p, from, to)
<1>1. Slid(s, p, from, to, u)
  BY SlideKeeps
<1>2. s.phase = "moving" /\ s.turn = p /\ s.winner = Undecided /\ s.fish \in Boards
  BY DEF CanSlide, IInv, Outcome
<1> HIDE DEF u
<1>3. /\ t \in GameState /\ Consistent(t) /\ Settled(t) /\ SameRest(u, t)
      /\ u.gone \subseteq t.gone /\ u.stuck \subseteq t.stuck
      /\ UsedTiles(t) = UsedTiles(u)
  BY <1>1, SettleSettles DEF UsedTiles, Slid
<1>4. r = AdvanceTurn[t]
  <2>1. r = AdvanceTurn[IF PlayerCanMove(t, p) THEN t ELSE Eliminate(p)[t]]
    BY DEF ApplySlide, u
  <2> QED
    BY <1>1, <1>3, <2>1, EliminateKeeps DEF Slid
<1> HIDE DEF t, r
<1>5. /\ IInv(r) /\ r.phase # "placing"
      /\ r.fish = t.fish /\ r.score = t.score /\ r.ply = t.ply
      /\ r.gone = t.gone /\ r.owner = t.owner /\ r.penguins = t.penguins
      /\ r.stuck = t.stuck
      /\ NextPlayer(t.turn) \notin t.stuck => r.turn = NextPlayer(t.turn)
  BY <1>1, <1>2, <1>3, <1>4, AdvanceResult DEF SameRest, Slid
<1>6. PlayerCanMove(r, 1 - s.turn) => r.turn = 1 - s.turn
  <2>1. NextPlayer(t.turn) = 1 - s.turn /\ 1 - s.turn \in Players
    BY <1>1, <1>2, <1>3 DEF NextPlayer, Players, SameRest, Slid
  <2>2. SUFFICES ASSUME PlayerCanMove(r, 1 - s.turn)
                 PROVE  1 - s.turn \notin t.stuck
    BY <1>5, <2>1
  <2>3. r \in GameState /\ Settled(r)
    BY <1>5 DEF IInv
  <2> QED
    BY <1>5, <2>1, <2>2, <2>3, SettledCanMove
<1>7. UsedTiles(r) = UsedTiles(s) \cup {to}
  BY <1>1, <1>3, <1>5 DEF UsedTiles, Slid
<1>8. ASSUME NEW c \in SunkTooEarly(s, r)
      PROVE  c = from /\ <<c, s.turn>> \in s.owner
  <2>1. \A d \in r.gone \ u.gone : LegalMovesFrom(r, d) = {}
    BY <1>1, <1>5, SettlingSinksIsolatedIce DEF Slid, t
  <2>2. <<from, s.turn>> \in s.owner /\ u.gone = s.gone \cup {from}
    BY <1>1, <1>2 DEF CanSlide, Slid
  <2> QED
    BY <2>1, <2>2 DEF SunkTooEarly
<1> QED
  BY <1>1, <1>2, <1>3, <1>5, <1>6, <1>7, <1>8 DEF SameRest, Slid, PlyDone, r

-----------------------------------------------------------------------------
(* Placements. *)

\* The player on turn has a slot left, and it is the one after those in use.
LEMMA SlotLeft ==
    ASSUME NEW s, IInv(s), s.phase = "placing", NEW c
    PROVE  /\ Placed(s, s.turn) + 1 \in Slots
           /\ FillSlot(s, s.turn, c) = {<<s.turn, Placed(s, s.turn) + 1, c>>}
<1> DEFINE k == Placed(s, s.turn)
           p == s.turn
<1>1. /\ s.ply \in Nat /\ s.ply < 2 * NumPenguins /\ p \in Players /\ p = s.ply % 2
      /\ {x[2] : x \in PenguinsOf(s, p)} = 1..k
  BY DEF IInv, Placing, GameState
<1>2. k \in Nat /\ k < NumPenguins
  BY <1>1, PenguinAssumption DEF Placed, Players
<1>3. k + 1 \in Slots
  BY <1>2, PenguinAssumption DEF Slots
<1> HIDE DEF k
<1>4. \A i \in Slots : i \in FreeSlots(s, p) <=> i \notin 1..k
  BY <1>1 DEF FreeSlots
<1>5. FreeSlots(s, p) = {i \in Slots : i > k}
  BY <1>2, <1>4, PenguinAssumption DEF FreeSlots, Slots
<1>6. {n \in FreeSlots(s, p) : \A m \in FreeSlots(s, p) : n <= m} = {k + 1}
  BY <1>2, <1>3, <1>5, PenguinAssumption DEF Slots
<1>7. FillSlot(s, p, c) = {<<p, i, c>> : i \in {k + 1}}
  BY <1>6 DEF FillSlot
<1> QED
  BY <1>3, <1>7 DEF k

\* The placement itself, before the turn passes or the moving phase opens.
PlacedDown(s, p, c, u) ==
    /\ u \in GameState
    /\ Consistent(u)
    /\ p = s.turn /\ p \in Players /\ c \in Cells \ UsedTiles(s)
    /\ u.fish = s.fish /\ u.phase = s.phase /\ u.turn = s.turn
    /\ u.winner = s.winner /\ u.stuck = {} /\ u.gone = {}
    /\ u.ply = s.ply + 1
    /\ u.score = [s.score EXCEPT ![p] = s.score[p] + s.fish[c]]
    /\ u.penguins = s.penguins \cup {<<p, Placed(s, p) + 1, c>>}
    /\ UsedTiles(u) = UsedTiles(s) \cup {c}

LEMMA PutDownKeeps ==
    ASSUME NEW s, IInv(s), NEW p, NEW c, CanPlace(s, p, c)
    PROVE  PlacedDown(s, p, c, PutDown(s, p, c))
<1> DEFINE u == PutDown(s, p, c)
           a == <<p, Placed(s, p) + 1, c>>
<1>1. /\ s \in GameState /\ Consistent(s) /\ Placing(s) /\ s.phase = "placing"
      /\ p = s.turn /\ p \in Players
  BY DEF IInv, CanPlace, GameState
<1>2. c \in Free(s)
  BY DEF CanPlace, LegalPlacements
<1>3. Placed(s, p) + 1 \in Slots /\ FillSlot(s, p, c) = {a}
  BY <1>1, SlotLeft
<1>4. /\ s.owner \cup {<<c, p>>} \in SUBSET (Cells \X Players)
      /\ s.penguins \cup {a} \in SUBSET (Players \X Slots \X Cells)
      /\ [s.score EXCEPT ![p] = s.score[p] + s.fish[c]] \in [Players -> Nat]
      /\ s.ply + 1 \in Nat
  BY <1>1, <1>2, <1>3 DEF GameState, Free
<1>5. /\ u \in GameState
      /\ u.owner = s.owner \cup {<<c, p>>}
      /\ u.penguins = s.penguins \cup {a}
      /\ u.score = [s.score EXCEPT ![p] = s.score[p] + s.fish[c]]
      /\ u.ply = s.ply + 1
      /\ u.fish = s.fish /\ u.phase = s.phase /\ u.turn = s.turn
      /\ u.winner = s.winner /\ u.stuck = {} /\ u.gone = {}
  BY <1>1, <1>3, <1>4 DEF GameState, PutDown, Placing
<1> HIDE DEF u
<1>6. \A o \in s.owner : o[1] # c
  BY <1>1, <1>2 DEF Free, GameState
<1>7. ASSUME NEW x \in s.penguins
      PROVE  x[3] # c
  <2>1. <<x[3], x[1]>> \in s.owner
    BY <1>1 DEF Consistent
  <2> QED
    BY <1>6, <2>1
<1>8. ASSUME NEW x \in s.penguins, x[1] = p
      PROVE  x[2] # Placed(s, p) + 1
  <2>1. x[2] \in 1..Placed(s, p) /\ Placed(s, p) \in Int
    BY <1>1, <1>8 DEF Placing, PenguinsOf, Placed, GameState
  <2> QED
    BY <2>1
<1>9. Consistent(u)
  <2>1. \A x, y \in u.penguins :
           (x[3] = y[3] \/ (x[1] = y[1] /\ x[2] = y[2])) => x = y
    BY <1>1, <1>5, <1>7, <1>8 DEF Consistent
  <2>2. \A x \in u.penguins : x[3] \notin u.gone
    BY <1>5
  <2>3. <<a[3], a[1]>> = <<c, p>>
    OBVIOUS
  <2> HIDE DEF a
  <2>4. u.owner = {<<x[3], x[1]>> : x \in u.penguins}
    BY <1>1, <1>5, <2>3 DEF Consistent
  <2> QED
    BY <2>1, <2>2, <2>4 DEF Consistent
<1>10. c \in Cells \ UsedTiles(s)
  BY <1>2, <1>6 DEF UsedTiles, Free
<1>11. UsedTiles(u) = UsedTiles(s) \cup {c}
  <2>1. <<c, p>> \in u.owner /\ <<c, p>>[1] = c /\ s.gone = {}
    BY <1>1, <1>5 DEF Placing
  <2> QED
    BY <1>5, <2>1 DEF UsedTiles
<1> QED
  BY <1>1, <1>5, <1>9, <1>10, <1>11 DEF u, PlacedDown

\* A placement after which more follow.
LEMMA PassTurnKeeps ==
    ASSUME NEW s, IInv(s), s.phase = "placing", NEW p, NEW c, NEW u,
           PlacedDown(s, p, c, u), u.ply < 2 * NumPenguins
    PROVE  PlyDone(s, p, c, [u EXCEPT !.turn = NextPlayer(s.turn)])
<1> DEFINE r == [u EXCEPT !.turn = NextPlayer(s.turn)]
<1>1. /\ s \in GameState /\ Placing(s) /\ s.winner = Undecided /\ s.fish \in Boards
      /\ s.ply \in Nat
  BY DEF IInv, Outcome, GameState
<1>2. NextPlayer(s.turn) \in Players /\ NextPlayer(s.turn) = (s.ply + 1) % 2
  BY <1>1 DEF Placing, NextPlayer, Players
<1>3. /\ r \in GameState
      /\ r.gone = {} /\ r.stuck = {} /\ r.penguins = u.penguins /\ r.owner = u.owner
      /\ r.fish = s.fish /\ r.phase = "placing" /\ r.winner = Undecided
      /\ r.ply = s.ply + 1 /\ r.turn = (s.ply + 1) % 2 /\ r.score = u.score
  BY <1>1, <1>2 DEF PlacedDown, GameState
<1> HIDE DEF r
<1>4. Consistent(r)
  BY <1>3 DEF PlacedDown, Consistent
<1>5. UsedTiles(r) = UsedTiles(s) \cup {c}
  BY <1>3 DEF PlacedDown, UsedTiles
<1>6. IsFiniteSet(UsedTiles(r)) /\ Cardinality(UsedTiles(r)) <= r.ply
  <2>1. c \notin UsedTiles(s) /\ IsFiniteSet(UsedTiles(s))
        /\ Cardinality(UsedTiles(s)) <= s.ply
    BY <1>1 DEF PlacedDown, Placing
  <2>2. /\ IsFiniteSet(UsedTiles(s) \cup {c})
        /\ Cardinality(UsedTiles(s) \cup {c}) = Cardinality(UsedTiles(s)) + 1
    BY <2>1, FS_AddElement
  <2>3. Cardinality(UsedTiles(s)) \in Nat
    BY <2>1, FS_CardinalityType
  <2> QED
    BY <1>1, <1>3, <1>5, <2>1, <2>2, <2>3
<1>7. ASSUME NEW q \in Players
      PROVE  {x[2] : x \in PenguinsOf(r, q)} = 1..Placed(r, q)
  <2> DEFINE a == <<p, Placed(s, p) + 1, c>>
  <2>1. {x[2] : x \in PenguinsOf(s, q)} = 1..Placed(s, q)
    BY <1>1 DEF Placing
  <2>2. s.turn = s.ply % 2 /\ p = s.turn
    BY <1>1 DEF Placing, PlacedDown
  <2>3. CASE q = p
    <3>1. PenguinsOf(r, q) = PenguinsOf(s, q) \cup {a}
      BY <1>3, <2>3 DEF PlacedDown, PenguinsOf
    <3>2. Placed(r, q) = Placed(s, q) + 1 /\ Placed(s, q) \in Nat
      BY <1>1, <1>3, <2>2, <2>3 DEF Placed, Players
    <3>3. {x[2] : x \in PenguinsOf(r, q)} = (1..Placed(s, q)) \cup {Placed(s, q) + 1}
      <4>1. a[2] = Placed(s, q) + 1
        BY <2>3
      <4> HIDE DEF a
      <4> QED
        BY <2>1, <3>1, <4>1
    <3> QED
      BY <3>2, <3>3
  <2>4. CASE q # p
    <3>1. PenguinsOf(r, q) = PenguinsOf(s, q)
      BY <1>3, <2>4 DEF PlacedDown, PenguinsOf
    <3>2. Placed(r, q) = Placed(s, q)
      BY <1>1, <1>3, <2>2, <2>4 DEF Placed, Players
    <3> QED
      BY <2>1, <3>1, <3>2
  <2> QED
    BY <2>3, <2>4
<1>8. Placing(r)
  BY <1>3, <1>6, <1>7 DEF Placing, PlacedDown
<1>9. IInv(r)
  BY <1>1, <1>3, <1>4, <1>8 DEF IInv, Outcome
<1>10. SunkTooEarly(s, r) = {}
  BY <1>1, <1>3 DEF SunkTooEarly, Placing
<1> QED
  BY <1>1, <1>3, <1>5, <1>9, <1>10 DEF PlyDone, PlacedDown, Placing, r

\* The last placement.
LEMMA OpenMovingKeeps ==
    ASSUME NEW s, IInv(s), s.phase = "placing", NEW p, NEW c, NEW u,
           PlacedDown(s, p, c, u)
    PROVE  PlyDone(s, p, c, OpenMoving(u)) /\ OpenMoving(u).phase # "placing"
<1> DEFINE v == [u EXCEPT !.phase = "moving", !.turn = 0]
           t == Settle[v]
           r == OpenMoving(u)
<1>1. /\ s \in GameState /\ Placing(s) /\ s.winner = Undecided /\ s.fish \in Boards
  BY DEF IInv, Outcome
<1>2. /\ v \in GameState
      /\ v.gone = {} /\ v.stuck = {} /\ v.penguins = u.penguins /\ v.owner = u.owner
      /\ v.fish = s.fish /\ v.phase = "moving" /\ v.winner = Undecided
      /\ v.ply = s.ply + 1 /\ v.turn = 0 /\ v.score = u.score
  BY <1>1 DEF PlacedDown, GameState, Phases, Players
<1>3. r = IF PlayerCanMove(t, 0) THEN t ELSE AdvanceTurn[Eliminate(0)[t]]
  BY DEF OpenMoving
<1> HIDE DEF v
<1>4. Consistent(v) /\ StuckSound(v)
  BY <1>2 DEF PlacedDown, Consistent, StuckSound
<1>5. /\ t \in GameState /\ Consistent(t) /\ Settled(t) /\ SameRest(v, t)
      /\ UsedTiles(t) = UsedTiles(v)
  BY <1>2, <1>4, SettleSettles DEF UsedTiles
<1> HIDE DEF t, r
<1>6. /\ IInv(r) /\ r.phase # "placing"
      /\ r.fish = t.fish /\ r.score = t.score /\ r.ply = t.ply
      /\ r.gone = t.gone /\ r.owner = t.owner
  <2>1. CASE PlayerCanMove(t, 0)
    <3>1. 0 \notin t.stuck
      BY <1>5, <2>1, SettledCanMove DEF Players
    <3>2. t.turn = 0 /\ t.phase = "moving" /\ t.winner = Undecided /\ t.fish \in Boards
      BY <1>1, <1>2, <1>5 DEF SameRest
    <3> QED
      BY <1>3, <1>5, <2>1, <3>1, <3>2 DEF IInv, Outcome
  <2>2. CASE ~PlayerCanMove(t, 0)
    <3>1. r = AdvanceTurn[t]
      BY <1>3, <1>5, <2>2, EliminateKeeps DEF Players
    <3>2. t.phase = "moving" /\ t.winner = Undecided /\ t.fish \in Boards
      BY <1>1, <1>2, <1>5 DEF SameRest
    <3> QED
      BY <1>5, <3>1, <3>2, AdvanceResult
  <2> QED
    BY <2>1, <2>2
<1>7. UsedTiles(r) = UsedTiles(s) \cup {c}
  BY <1>2, <1>5, <1>6 DEF UsedTiles, PlacedDown
<1>8. SunkTooEarly(s, r) = {}
  <2>1. \A d \in r.gone \ v.gone : LegalMovesFrom(r, d) = {}
    BY <1>2, <1>4, <1>6, SettlingSinksIsolatedIce DEF t
  <2> QED
    BY <1>1, <1>2, <2>1 DEF SunkTooEarly, Placing
<1> QED
  BY <1>1, <1>2, <1>5, <1>6, <1>7, <1>8 DEF PlyDone, PlacedDown, Placing, SameRest, r

\* A whole placement of ApplyMove.
LEMMA ApplyPlaceKeeps ==
    ASSUME NEW s, IInv(s), NEW p, NEW c, CanPlace(s, p, c)
    PROVE  PlyDone(s, p, c, ApplyPlace(s, p, c))
<1> DEFINE u == PutDown(s, p, c)
<1>1. PlacedDown(s, p, c, u) /\ s.phase = "placing"
  BY PutDownKeeps DEF CanPlace
<1>2. u.ply \in Nat
  BY <1>1 DEF PlacedDown, GameState
<1>3. ApplyPlace(s, p, c) = IF u.ply >= 2 * NumPenguins THEN OpenMoving(u)
                            ELSE [u EXCEPT !.turn = NextPlayer(s.turn)]
  BY DEF ApplyPlace
<1> HIDE DEF u
<1>4. CASE u.ply >= 2 * NumPenguins
  BY <1>1, <1>3, <1>4, OpenMovingKeeps
<1>5. CASE ~(u.ply >= 2 * NumPenguins)
  <2>1. u.ply < 2 * NumPenguins
    BY <1>2, <1>5, PenguinAssumption
  <2> QED
    BY <1>1, <1>3, <1>5, <2>1, PassTurnKeeps
<1> QED
  BY <1>4, <1>5

-----------------------------------------------------------------------------
(* The invariant holds, and what it implies. *)

\* What a step of the machine is: a placement or a slide of the player on turn.
LEMMA StepIsPly ==
    ASSUME IInv(game), Next
    PROVE  \E c \in Cells : PlyDone(game, game.turn, c, game')
<1>1. ASSUME NEW p \in Players, NEW c \in Cells, Place(p, c)
      PROVE  \E d \in Cells : PlyDone(game, game.turn, d, game')
  <2>1. PlyDone(game, p, c, game')
    BY <1>1, ApplyPlaceKeeps DEF Place
  <2> QED
    BY <2>1 DEF PlyDone
<1>2. ASSUME NEW p \in Players, NEW from \in Cells, NEW to \in Cells, Slide(p, from, to)
      PROVE  \E d \in Cells : PlyDone(game, game.turn, d, game')
  <2>1. PlyDone(game, p, to, game')
    BY <1>2, ApplySlideKeeps DEF Slide
  <2> QED
    BY <2>1 DEF PlyDone
<1> QED
  BY <1>1, <1>2 DEF Next

\* A new game.
LEMMA NewGameIInv ==
    ASSUME NEW fish \in Boards
    PROVE  IInv(NewGame(fish))
<1> DEFINE s == NewGame(fish)
<1>1. s \in GameState
  BY BoardsAssumption DEF NewGame, GameState, Players, Phases, Slots
<1>2. /\ s.gone = {} /\ s.owner = {} /\ s.penguins = {} /\ s.stuck = {} /\ s.ply = 0
      /\ s.turn = 0 /\ s.phase = "placing" /\ s.winner = Undecided /\ s.fish = fish
  BY DEF NewGame
<1> HIDE DEF s
<1>3. Consistent(s)
  BY <1>2 DEF Consistent
<1>4. UsedTiles(s) = {}
  BY <1>2 DEF UsedTiles
<1>5. IsFiniteSet(UsedTiles(s)) /\ Cardinality(UsedTiles(s)) = 0
  BY <1>4, FS_EmptySet
<1>6. \A p \in Players : {x[2] : x \in PenguinsOf(s, p)} = 1..Placed(s, p)
  BY <1>2 DEF PenguinsOf, Placed
<1>7. Placing(s)
  BY <1>2, <1>5, <1>6, PenguinAssumption DEF Placing
<1> QED
  BY <1>1, <1>2, <1>3, <1>7 DEF IInv, Outcome, s

\* The inductive invariant holds in every reachable state, whatever the board, the
\* number of penguins and the deal.
THEOREM GameInvariant == Spec => []IInv(game)
<1>1. Init => IInv(game)
  BY NewGameIInv DEF Init
<1>2. IInv(game) /\ [Next]_game => IInv(game)'
  <2>1. ASSUME IInv(game), Next
        PROVE  IInv(game)'
    BY <2>1, StepIsPly DEF PlyDone
  <2>2. ASSUME IInv(game), UNCHANGED game
        PROVE  IInv(game)'
    BY <2>2
  <2> QED
    BY <2>1, <2>2
<1> QED
  BY <1>1, <1>2, PTL DEF Spec

\* Every reachable state is a GameState.
THEOREM TypeCorrect == Spec => []TypeOK
<1>1. IInv(game) => TypeOK
  BY DEF IInv, TypeOK
<1> QED
  BY <1>1, GameInvariant, PTL

\* The tile slice and the penguin slots never disagree.
THEOREM TilesMatchSlots == Spec => []PenguinsOnTheirTiles
<1>1. IInv(game) => PenguinsOnTheirTiles
  BY DEF IInv, Consistent, PenguinsOnTheirTiles
<1> QED
  BY <1>1, GameInvariant, PTL

\* In the moving phase the players who are out are those without penguins, and every
\* penguin on the ice can slide.
THEOREM OutMeansOut == Spec => []StuckMeansOut
<1>1. IInv(game) => StuckMeansOut
  BY DEF IInv, Settled, StuckMeansOut
<1> QED
  BY <1>1, GameInvariant, PTL

\* A finished game has nobody left on the ice and the right winner.
THEOREM EndIsSettled == Spec => []FinishedIsSettled
<1>1. IInv(game) => FinishedIsSettled
  BY DEF IInv, Outcome, FinishedIsSettled
<1> QED
  BY <1>1, GameInvariant, PTL

\* The player on turn has a legal move: in the placing phase because fewer tiles are
\* taken than there are one-fish tiles, in the moving phase because the turn goes to a
\* player who is in, whose penguins can all slide.
LEMMA TurnIsUsable ==
    ASSUME NEW s, IInv(s), s.phase # "finished"
    PROVE  AllMoves(s, s.turn) # {}
<1>1. ASSUME s.phase = "placing"
      PROVE  AllMoves(s, s.turn) # {}
  <2> DEFINE ones == {c \in Cells : s.fish[c] = 1}
  <2>1. s.fish \in Boards /\ Placing(s) /\ s \in GameState
    BY <1>1 DEF IInv
  <2>2. 2 * NumPenguins <= Cardinality(ones)
    BY <2>1, BoardsAssumption
  <2>3. IsFiniteSet(UsedTiles(s)) /\ Cardinality(UsedTiles(s)) < 2 * NumPenguins
    <3>1. /\ IsFiniteSet(UsedTiles(s)) /\ Cardinality(UsedTiles(s)) <= s.ply
          /\ s.ply < 2 * NumPenguins /\ s.ply \in Nat
      BY <2>1 DEF Placing, GameState
    <3>2. Cardinality(UsedTiles(s)) \in Nat
      BY <3>1, FS_CardinalityType
    <3> QED
      BY <3>1, <3>2, PenguinAssumption
  <2>4. ~(ones \subseteq UsedTiles(s))
    <3>1. SUFFICES ASSUME ones \subseteq UsedTiles(s)
                   PROVE  FALSE
      OBVIOUS
    <3> HIDE DEF ones
    <3>2. /\ Cardinality(ones) <= Cardinality(UsedTiles(s))
          /\ Cardinality(ones) \in Nat /\ Cardinality(UsedTiles(s)) \in Nat
      BY <2>3, <3>1, FS_Subset, FS_CardinalityType
    <3> QED
      BY <2>2, <2>3, <3>2, PenguinAssumption
  <2>5. PICK c \in ones : c \notin UsedTiles(s)
    BY <2>4
  <2>6. c \in LegalPlacements(s)
    <3>1. \A p \in Players : <<c, p>> \in s.owner => c \in UsedTiles(s)
      BY DEF UsedTiles
    <3> QED
      BY <2>5, <3>1 DEF LegalPlacements, Free, UsedTiles
  <2> QED
    BY <1>1, <2>6 DEF AllMoves
<1>2. ASSUME s.phase = "moving"
      PROVE  AllMoves(s, s.turn) # {}
  <2>1. /\ s \in GameState /\ Settled(s) /\ s.turn \in Players
        /\ s.turn \notin s.stuck
    BY <1>2 DEF IInv, GameState
  <2>2. PICK x \in PenguinsOf(s, s.turn) : LegalMovesFrom(s, x[3]) # {}
    BY <2>1, SettledCanMove DEF PlayerCanMove
  <2>3. PICK c \in LegalMovesFrom(s, x[3]) : TRUE
    BY <2>2
  <2>4. [kind |-> "move", from |-> x[3], to |-> c] \in AllMoves(s, s.turn)
    BY <1>2, <2>2, <2>3 DEF AllMoves
  <2> QED
    BY <2>4
<1> QED
  BY <1>1, <1>2 DEF IInv, GameState, Phases

\* Until the game is over the player on turn has a legal move.
THEOREM NoDeadTurn == Spec => []ActivePlayerHasMove
<1>1. IInv(game) => ActivePlayerHasMove
  BY TurnIsUsable DEF ActivePlayerHasMove
<1> QED
  BY <1>1, GameInvariant, PTL

\* Fish are collected once: each ply takes exactly one unused tile and credits its
\* fish to the player who moved.
THEOREM Harvest == Spec => HarvestOneTile
<1>1. IInv(game) /\ [Next]_game =>
        [\E c \in Cells \ Used :
          /\ Used' = Used \cup {c}
          /\ game'.score = [game.score EXCEPT ![game.turn] = @ + game.fish[c]]]_game
  <2>1. SUFFICES ASSUME IInv(game), Next
                 PROVE  \E c \in Cells \ Used :
                          /\ Used' = Used \cup {c}
                          /\ game'.score =
                               [game.score EXCEPT ![game.turn] = @ + game.fish[c]]
    OBVIOUS
  <2>2. PICK c \in Cells : PlyDone(game, game.turn, c, game')
    BY <2>1, StepIsPly
  <2>3. Used = UsedTiles(game) /\ Used' = UsedTiles(game')
    BY DEF Used, UsedTiles
  <2> QED
    BY <2>2, <2>3 DEF PlyDone
<1> QED
  BY <1>1, GameInvariant, PTL DEF Spec, HarvestOneTile

\* A board has finitely many tiles.
LEMMA CellsAreFinite == IsFiniteSet(Cells)
<1>1. Cells \subseteq (-Rows..Cols) \X (0..Rows)
  <2>1. ASSUME NEW row \in 0..(Rows - 1), NEW col \in 0..(Cols - 1 - (row % 2))
        PROVE  col - ((row - (row % 2)) \div 2) \in -Rows..Cols /\ row \in 0..Rows
    BY BoardAssumption
  <2> QED
    BY <2>1, BoardAssumption DEF Cells, boardCoords
<1>2. IsFiniteSet((-Rows..Cols) \X (0..Rows))
  <2>1. -Rows \in Int /\ Cols \in Int /\ 0 \in Int /\ Rows \in Int
    BY BoardAssumption
  <2>2. IsFiniteSet(-Rows..Cols) /\ IsFiniteSet(0..Rows)
    BY <2>1, FS_Interval
  <2> QED
    BY <2>2, FS_Product
<1> QED
  BY <1>1, <1>2, FS_Subset

\* The sum over the tiles in use grows by the fish of the tile a ply takes, as the scores
\* do.
LEMMA PlyAddsItsFish ==
    ASSUME IInv(game), NEW c \in Cells, PlyDone(game, game.turn, c, game'), ScoreConservation
    PROVE  ScoreConservation'
<1> DEFINE fish == game.fish
           used == UsedTiles(game)
<1>1. /\ game \in GameState /\ fish \in [Cells -> 1..3] /\ game.turn \in Players
      /\ game.score \in [Players -> Nat]
  BY DEF IInv, GameState
<1>2. /\ c \notin used /\ UsedTiles(game') = used \cup {c} /\ game'.fish = fish
      /\ game'.score = [game.score EXCEPT ![game.turn] = @ + fish[c]]
  BY DEF PlyDone
<1>3. used \subseteq Cells /\ IsFiniteSet(used)
  <2>1. used \subseteq Cells
    BY <1>1 DEF UsedTiles, GameState
  <2> QED
    BY <2>1, CellsAreFinite, FS_Subset
<1>4. game.score[0] + game.score[1] = SumFunctionOnSet(fish, used)
  BY DEF ScoreConservation, Used, UsedTiles
<1> HIDE DEF fish, used
<1>5. \A d \in used \cup {c} : fish[d] \in Int
  BY <1>1, <1>3
<1>6. SumFunctionOnSet(fish, used \cup {c}) = SumFunctionOnSet(fish, used) + fish[c]
  BY <1>2, <1>3, <1>5, SumOfMore
<1>7. game'.score[0] + game'.score[1] = (game.score[0] + game.score[1]) + fish[c]
  BY <1>1, <1>2, <1>5 DEF Players
<1>8. game'.score[0] + game'.score[1] = SumFunctionOnSet(game'.fish, UsedTiles(game'))
  BY <1>2, <1>4, <1>6, <1>7
<1> QED
  BY <1>8 DEF ScoreConservation, Used, UsedTiles

\* Over the whole game every fish is collected once: the scores add up to the fish on the
\* tiles that were stepped on, whether they have sunk or not, and nothing is gained or
\* lost when penguins leave.
THEOREM FishAreConserved == Spec => []ScoreConservation
<1>1. Init => ScoreConservation
  <2>1. ASSUME NEW fish \in Boards, game = NewGame(fish)
        PROVE  ScoreConservation
    <3>1. Used = {} /\ game.score[0] + game.score[1] = 0
      BY <2>1 DEF Used, NewGame, Players
    <3> QED
      BY <3>1, SumOfNone DEF ScoreConservation
  <2> QED
    BY <2>1 DEF Init
<1>2. IInv(game) /\ [Next]_game /\ ScoreConservation => ScoreConservation'
  <2>1. ASSUME IInv(game), Next, ScoreConservation
        PROVE  ScoreConservation'
    BY <2>1, StepIsPly, PlyAddsItsFish
  <2>2. ASSUME UNCHANGED game, ScoreConservation
        PROVE  ScoreConservation'
    BY <2>2 DEF ScoreConservation, Used
  <2> QED
    BY <2>1, <2>2
<1> QED
  BY <1>1, <1>2, GameInvariant, PTL DEF Spec

\* The turn passes to the opponent whenever the opponent can move.
THEOREM NoUnfairSkip == Spec => OpponentIsNotSkipped
<1>1. IInv(game) /\ [Next]_game =>
        [(game.phase = "moving" /\ PlayerCanMove(game', 1 - game.turn))
           => game'.turn = 1 - game.turn]_game
  <2>1. SUFFICES ASSUME IInv(game), Next, game.phase = "moving",
                        PlayerCanMove(game', 1 - game.turn)
                 PROVE  game'.turn = 1 - game.turn
    OBVIOUS
  <2>2. PICK p \in Players, from \in Cells, to \in Cells : Slide(p, from, to)
    BY <2>1 DEF Next, Place, CanPlace
  <2> QED
    BY <2>1, <2>2, ApplySlideKeeps DEF Slide
<1> QED
  BY <1>1, GameInvariant, PTL DEF Spec, OpponentIsNotSkipped

\* No penguin that could slide is taken from the ice: what sinks in a ply, the tile
\* the moving penguin left excepted, has no free neighbour.
THEOREM IceHolds == Spec => OnlyIsolatedIceSinks
<1>1. IInv(game) /\ [Next]_game =>
        [LET sunk == {c \in game'.gone \ game.gone : LegalMovesFrom(game', c) # {}}
         IN  \A c, d \in sunk : /\ game.phase = "moving"
                                /\ <<c, game.turn>> \in game.owner
                                /\ c = d]_game
  <2>1. SUFFICES ASSUME IInv(game), Next,
                        NEW c \in SunkTooEarly(game, game'), NEW d \in SunkTooEarly(game, game')
                 PROVE  game.phase = "moving" /\ <<c, game.turn>> \in game.owner /\ c = d
    BY DEF SunkTooEarly
  <2> QED
    BY <2>1, StepIsPly DEF PlyDone
<1> QED
  BY <1>1, GameInvariant, PTL DEF Spec, OnlyIsolatedIceSinks

\* Sunk ice stays sunk and players who are out stay out.
THEOREM NoWayBack == Spec => NothingComesBack
<1>1. IInv(game) /\ [Next]_game =>
        [game.gone \subseteq game'.gone /\ game.stuck \subseteq game'.stuck]_game
  BY StepIsPly DEF PlyDone
<1> QED
  BY <1>1, GameInvariant, PTL DEF Spec, NothingComesBack

-----------------------------------------------------------------------------
(* The rules implement the turn-taking of TurnGame, which the rooms are    *)
(* written against.  The part of a GameState the rooms see is a function   *)
(* of it, so that the refinement is a matter of steps.  What needs an      *)
(* argument is the end: a ply uses up one tile, and on a full board nobody *)
(* could play on.                                                          *)

\* Each ply has used one tile, and no other has been used.
PliesAreTiles(s) == Cardinality(UsedTiles(s)) = s.ply

\* The bound on the plies, from the number of tiles.
LEMMA UsedIsBounded ==
    ASSUME NEW s \in GameState, PliesAreTiles(s)
    PROVE  /\ IsFiniteSet(UsedTiles(s))
           /\ s.ply \in 0..Cardinality(Cells)
           /\ Cardinality(Cells) \in Nat
           /\ s.ply = Cardinality(Cells) => Free(s) = {}
<1>1. UsedTiles(s) \subseteq Cells
  BY DEF UsedTiles, GameState
<1>2. IsFiniteSet(UsedTiles(s)) /\ Cardinality(UsedTiles(s)) <= Cardinality(Cells)
  BY <1>1, CellsAreFinite, FS_Subset
<1>3. Cardinality(Cells) \in Nat /\ s.ply \in Nat
  BY CellsAreFinite, FS_CardinalityType DEF GameState
<1>4. ASSUME s.ply = Cardinality(Cells)
      PROVE  Free(s) = {}
  <2>1. UsedTiles(s) = Cells
    BY <1>1, <1>4, CellsAreFinite, FS_Subset DEF PliesAreTiles
  <2>2. ASSUME NEW c \in Cells, c \notin s.gone
        PROVE  \E p \in Players : <<c, p>> \in s.owner
    <3>1. PICK o \in s.owner : o[1] = c
      BY <2>1, <2>2 DEF UsedTiles
    <3>2. o[2] \in Players /\ o = <<c, o[2]>>
      BY <3>1 DEF GameState
    <3> QED
      BY <3>2, <3>1
  <2> QED
    BY <2>2 DEF Free
<1> QED
  BY <1>2, <1>3, <1>4 DEF PliesAreTiles

\* The invariant that the refinement rests on.
LEMMA PliesCountTiles == Spec => [](IInv(game) /\ PliesAreTiles(game))
<1>1. Init => PliesAreTiles(game)
  <2>1. ASSUME NEW fish \in Boards, game = NewGame(fish)
        PROVE  UsedTiles(game) = {} /\ game.ply = 0
    BY <2>1 DEF UsedTiles, NewGame
  <2>2. Cardinality({}) = 0
    BY FS_EmptySet
  <2> QED
    BY <2>1, <2>2 DEF Init, PliesAreTiles
<1>2. IInv(game) /\ PliesAreTiles(game) /\ [Next]_game => PliesAreTiles(game)'
  <2>1. SUFFICES ASSUME IInv(game), PliesAreTiles(game), Next
                 PROVE  PliesAreTiles(game')
    BY DEF PliesAreTiles, UsedTiles
  <2>2. PICK c \in Cells : PlyDone(game, game.turn, c, game')
    BY <2>1, StepIsPly
  <2>3. c \notin UsedTiles(game) /\ IsFiniteSet(UsedTiles(game)) /\ game.ply \in Nat
    BY <2>1, <2>2, UsedIsBounded DEF PlyDone, IInv, GameState
  <2>4. /\ UsedTiles(game') = UsedTiles(game) \cup {c}
        /\ game'.ply = game.ply + 1
    BY <2>2 DEF PlyDone
  <2>5. Cardinality(UsedTiles(game) \cup {c}) = Cardinality(UsedTiles(game)) + 1
    BY <2>3, FS_AddElement
  <2> QED
    BY <2>1, <2>4, <2>5 DEF PliesAreTiles
<1> QED
  BY <1>1, <1>2, GameInvariant, PTL DEF Spec

\* Until the game is over there is a tile to go to.
LEMMA TileIsLeft ==
    ASSUME NEW s, IInv(s), s.phase # "finished"
    PROVE  Free(s) # {}
<1>1. PICK m \in AllMoves(s, s.turn) : TRUE
  BY TurnIsUsable
<1>2. CASE s.phase = "placing"
  BY <1>1, <1>2 DEF AllMoves, LegalPlacements
<1>3. CASE s.phase = "moving"
  BY <1>1, <1>3, SlideTargetIsFree DEF AllMoves
<1> QED
  BY <1>2, <1>3 DEF IInv, GameState, Phases

\* What the rooms see of a state is a view, and a game that is not over is below the
\* bound.
LEMMA ViewOfState ==
    ASSUME NEW s, IInv(s), PliesAreTiles(s)
    PROVE  /\ s.turn \in Turns!Seats
           /\ s.winner \in Turns!Seats \cup {Turns!Tie, Turns!Undecided}
           /\ s.phase = "finished" <=> s.winner # Turns!Undecided
           /\ s.ply \in 0..Cardinality(Cells)
           /\ Cardinality(Cells) \in Nat
           /\ s.phase # "finished" => s.ply < Cardinality(Cells)
<1>1. s \in GameState /\ Outcome(s)
  BY DEF IInv
<1>2. /\ s.ply \in 0..Cardinality(Cells) /\ Cardinality(Cells) \in Nat
      /\ s.phase # "finished" => s.ply # Cardinality(Cells)
  BY <1>1, UsedIsBounded, TileIsLeft
<1>3. s.turn \in {0, 1} /\ s.winner \in {0, 1, -1, -2}
  BY <1>1 DEF GameState, Players, Tie, Undecided
<1> QED
  BY <1>1, <1>2, <1>3
  DEF Outcome, Undecided, Turns!Seats, Turns!Tie, Turns!Undecided

\* The rules implement TurnGame: a game starts with its initial view, and every ply of
\* PenguinGame is a ply of the player on turn of a game that is not over.
THEOREM RulesTakeTurns == Spec => ImplementsTurnGame
<1>1. Init => Turns!Init
  <2>1. SUFFICES ASSUME NEW fish \in Boards, game = NewGame(fish)
                 PROVE  View(game) = Turns!NewView
    BY DEF Init, Turns!Init
  <2>2. /\ game.ply = 0 /\ game.turn = 0 /\ game.winner = Turns!Undecided
        /\ (game.phase = "finished") = FALSE
    BY <2>1 DEF NewGame, Undecided, Turns!Undecided
  <2> QED
    BY <2>2 DEF View, Turns!NewView
<1>2. /\ IInv(game) /\ PliesAreTiles(game)
      /\ (IInv(game) /\ PliesAreTiles(game))'
      /\ [Next]_game
      => [Turns!Next]_(View(game))
  <2>1. SUFFICES ASSUME IInv(game), PliesAreTiles(game),
                        IInv(game'), PliesAreTiles(game'), Next
                 PROVE  Turns!Ply
    BY DEF View, Turns!Next
  <2> DEFINE v == View(game)
             w == View(game')
  <2>2. game'.ply = game.ply + 1
    BY <2>1, StepIsPly DEF PlyDone
  <2>3. game.phase # "finished"
    BY <2>1 DEF Next, Place, CanPlace, Slide, CanSlide
  <2>4. game.ply < Cardinality(Cells)
    BY <2>1, <2>3, ViewOfState
  <2>5. /\ game'.turn \in Turns!Seats
        /\ game'.winner \in Turns!Seats \cup {Turns!Tie, Turns!Undecided}
        /\ game'.phase = "finished" <=> game'.winner # Turns!Undecided
        /\ game'.ply = Cardinality(Cells) => game'.phase = "finished"
    BY <2>1, ViewOfState
  <2>6. ~v.over /\ v.ply = game.ply /\ v.ply < Cardinality(Cells)
    BY <2>3, <2>4 DEF View
  <2>7. w \in Turns!PlyOutcomes(v)
    <3>1. w \in [ply : {v.ply + 1}, turn : Turns!Seats, over : BOOLEAN,
                 winner : Turns!Seats \cup {Turns!Tie, Turns!Undecided}]
      BY <2>2, <2>5 DEF View
    <3>2. /\ w.over <=> w.winner # Turns!Undecided
          /\ w.ply = Cardinality(Cells) => w.over
      BY <2>5 DEF View
    <3> QED
      BY <3>1, <3>2 DEF Turns!PlyOutcomes
  <2> QED
    BY <2>6, <2>7 DEF Turns!Ply
<1> QED
  BY <1>1, <1>2, PliesCountTiles, PTL DEF Spec, ImplementsTurnGame, Turns!Spec
=============================================================================
