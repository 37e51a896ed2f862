------------------------- MODULE BrowserGame_proofs -------------------------
(***************************************************************************)
(* The browser's rules are the server's, for every board, deal and number  *)
(* of penguins.  The board of the browser is consistent (Fits); under that *)
(* invariant AsServer commutes with each helper of a move: the loops over  *)
(* slots and players come down to taking a set of penguins off the board   *)
(* (Drop) and to declaring a set of players out (Out), which the server    *)
(* does at once.  A loop is the fold of its rounds, and is known by the    *)
(* equation it solves (LoopsAreUnique).                                    *)
(***************************************************************************)
EXTENDS BrowserGame, Sums

\* Loops.
LoopOf(h, F, base, seq) ==
    h = [D \in SUBSET DOMAIN seq |->
            IF D = {} THEN base ELSE F[seq[Max(D)]][h[D \ {Max(D)}]]]

\* A finite set of integers has a largest one.
LEMMA MaxExists ==
    ASSUME NEW n \in Nat, NEW D \in SUBSET (1..n), D # {}
    PROVE  Max(D) \in D /\ \A y \in D : Max(D) >= y
<1> DEFINE T == {k \in Nat : n - k \in D}
<1>1. T # {}
  <2>1. PICK x \in D : TRUE
    OBVIOUS
  <2>2. n - x \in Nat /\ n - (n - x) = x
    OBVIOUS
  <2> QED
    BY <2>1, <2>2
<1>2. PICK k \in T : \A j \in T : ~(<<j, k>> \in OpToRel(<, Nat))
  <2>1. T \in SUBSET Nat
    OBVIOUS
  <2> HIDE DEF T
  <2> QED
    BY <1>1, <2>1, NatLessThanWellFounded, WFMin
<1>3. ASSUME NEW y \in D
      PROVE  n - k >= y
  <2>1. n - y \in T
    <3>1. n - y \in Nat /\ n - (n - y) = y
      OBVIOUS
    <3> QED
      BY <3>1
  <2>2. ~(n - y < k)
    BY <1>2, <2>1 DEF OpToRel
  <2> QED
    BY <2>2
<1>4. n - k \in D
  OBVIOUS
<1> QED
  BY <1>3, <1>4 DEF Max

\* A loop is determined by its equation.
LEMMA LoopsAreUnique ==
    ASSUME NEW n \in Nat, NEW seq, DOMAIN seq = 1..n, NEW F, NEW base,
           NEW g, NEW h, LoopOf(g, F, base, seq), LoopOf(h, F, base, seq)
    PROVE  g[1..n] = h[1..n]
<1> DEFINE S == 1..n
           bad == {D \in SUBSET S : g[D] # h[D]}
<1> SUFFICES ASSUME bad # {}
             PROVE  FALSE
  OBVIOUS
<1>1. bad \in SUBSET (SUBSET S) /\ IsFiniteSet(S)
  BY FS_Interval
<1>2. PICK D \in bad : \A E \in bad : E \subseteq D => E = D
  <2> HIDE DEF bad, S
  <2> QED
    BY <1>1, SmallestSet
<1>3. /\ g[D] = IF D = {} THEN base ELSE F[seq[Max(D)]][g[D \ {Max(D)}]]
      /\ h[D] = IF D = {} THEN base ELSE F[seq[Max(D)]][h[D \ {Max(D)}]]
  BY DEF LoopOf
<1>4. D # {}
  BY <1>3
<1>5. Max(D) \in D
  BY <1>4, MaxExists
<1>6. g[D \ {Max(D)}] = h[D \ {Max(D)}]
  BY <1>2, <1>5
<1> QED
  BY <1>3, <1>4, <1>6

-----------------------------------------------------------------------------
(* The board. *)

At(s, p, i) == s.players[p].penguins[i]

\* Tiles are pairs of integers.
LEMMA CellsArePairs ==
    /\ \A c \in Cells : c = <<c[1], c[2]>> /\ c[1] \in Int /\ c[2] \in Int
    /\ NoTile \notin Cells
<1>1. ASSUME NEW c \in Cells
      PROVE  c = <<c[1], c[2]>> /\ c[1] \in Int /\ c[2] \in Int
  <2>1. PICK row \in 0..(Rows - 1) : \E col \in 0..(Cols - 1 - (row % 2)) :
           c = <<col - ((row - (row % 2)) \div 2), row>>
    BY DEF Cells, Rules!Cells, Rules!boardCoords
  <2>2. row \in Int /\ row % 2 \in 0..1 /\ (row - (row % 2)) \div 2 \in Int
    BY BrowserAssumption
  <2> QED
    BY <2>1, <2>2
<1> QED
  BY <1>1 DEF NoTile

\* A line as long as the board is wide and high leaves it.
LEMMA LinesEnd ==
    ASSUME NEW c \in Cells, NEW d \in Rules!HexDirs
    PROVE  Rules!Along(c, d, Rows + Cols) \notin Cells
<1> DEFINE On(e, row, col) ==
             e = <<col - ((row - (row % 2)) \div 2), row>>
<1> SUFFICES ASSUME Rules!Along(c, d, Rows + Cols) \in Cells
             PROVE  FALSE
  OBVIOUS
<1>1. PICK row \in 0..(Rows - 1) : \E col \in 0..(Cols - 1 - (row % 2)) : On(c, row, col)
  BY DEF Cells, Rules!Cells, Rules!boardCoords
<1>2. PICK col \in 0..(Cols - 1 - (row % 2)) : On(c, row, col)
  BY <1>1
<1>3. PICK row2 \in 0..(Rows - 1) : \E col2 \in 0..(Cols - 1 - (row2 % 2)) :
         On(Rules!Along(c, d, Rows + Cols), row2, col2)
  BY DEF Cells, Rules!Cells, Rules!boardCoords
<1>4. PICK col2 \in 0..(Cols - 1 - (row2 % 2)) :
         On(Rules!Along(c, d, Rows + Cols), row2, col2)
  BY <1>3
<1>5. /\ row \in Int /\ row2 \in Int /\ col \in Int /\ col2 \in Int
      /\ 0 <= row /\ row < Rows /\ 0 <= row2 /\ row2 < Rows
      /\ 0 <= col /\ col < Cols /\ 0 <= col2 /\ col2 < Cols
      /\ Rows \in Int /\ Cols \in Int /\ Rows > 0 /\ Cols > 0
  BY BrowserAssumption
<1>6. /\ row2 = row + (Rows + Cols) * d[2]
      /\ col2 - ((row2 - (row2 % 2)) \div 2)
         = (col - ((row - (row % 2)) \div 2)) + (Rows + Cols) * d[1]
  BY <1>2, <1>4 DEF Rules!Along
<1>7. d[1] \in {-1, 0, 1} /\ d[2] \in {-1, 0, 1} /\ (d[2] = 0 => d[1] # 0)
  BY DEF Rules!HexDirs
<1>8. d[2] = 0
  BY <1>5, <1>6, <1>7
<1>9. row2 = row
  BY <1>5, <1>6, <1>8
<1>10. CASE d[1] = 1
  BY <1>5, <1>6, <1>9, <1>10
<1>11. CASE d[1] = -1
  BY <1>5, <1>6, <1>9, <1>11
<1> QED
  BY <1>7, <1>8, <1>10, <1>11

\* The recursive function of Reach.
Slides(open, s, c, d) ==
    open = [k \in 1..(Rows + Cols) |->
               IF Open(s, Rules!Along(c, d, k)) THEN 1 + open[k + 1] ELSE 0]

\* The first tile on a line, from the k-th on, that is not open.
Stop(s, c, d, k) ==
    CHOOSE n \in k..(Rows + Cols) :
        /\ ~Open(s, Rules!Along(c, d, n))
        /\ \A j \in k..(n - 1) : Open(s, Rules!Along(c, d, j))

\* There is one.
LEMMA StopExists ==
    ASSUME NEW s, NEW c \in Cells, NEW d \in Rules!HexDirs, NEW k \in 1..(Rows + Cols)
    PROVE  /\ Stop(s, c, d, k) \in k..(Rows + Cols)
           /\ ~Open(s, Rules!Along(c, d, Stop(s, c, d, k)))
           /\ \A j \in k..(Stop(s, c, d, k) - 1) : Open(s, Rules!Along(c, d, j))
<1> DEFINE L == Rows + Cols
           T == {n \in k..L : ~Open(s, Rules!Along(c, d, n))}
<1>1. L \in Nat /\ L \in T
  BY LinesEnd, BrowserAssumption DEF Open
<1>2. PICK n \in T : \A m \in T : ~(m < n)
  <2>1. T \in SUBSET Nat
    OBVIOUS
  <2>2. \E n \in T : \A m \in T : ~(<<m, n>> \in OpToRel(<, Nat))
    <3> HIDE DEF T
    <3> QED
      BY <1>1, <2>1, NatLessThanWellFounded, WFMin
  <2>3. PICK n \in T : \A m \in T : ~(<<m, n>> \in OpToRel(<, Nat))
    BY <2>2
  <2> QED
    BY <2>1, <2>3 DEF OpToRel
<1>3. \A j \in k..(n - 1) : Open(s, Rules!Along(c, d, j))
  <2> SUFFICES ASSUME NEW j \in k..(n - 1), ~Open(s, Rules!Along(c, d, j))
               PROVE  FALSE
    OBVIOUS
  <2>1. j \in T /\ j < n
    BY <1>1
  <2> QED
    BY <1>2, <2>1
<1>4. n \in k..L /\ ~Open(s, Rules!Along(c, d, n))
  OBVIOUS
<1> HIDE DEF T
<1> QED
  BY <1>3, <1>4 DEF Stop

\* There is only one such tile.
LEMMA StopIs ==
    ASSUME NEW s, NEW c \in Cells, NEW d \in Rules!HexDirs, NEW k \in 1..(Rows + Cols),
           NEW n \in k..(Rows + Cols), ~Open(s, Rules!Along(c, d, n)),
           \A j \in k..(n - 1) : Open(s, Rules!Along(c, d, j))
    PROVE  Stop(s, c, d, k) = n
<1> DEFINE m == Stop(s, c, d, k)
<1>1. /\ m \in k..(Rows + Cols) /\ ~Open(s, Rules!Along(c, d, m))
      /\ \A j \in k..(m - 1) : Open(s, Rules!Along(c, d, j))
  BY StopExists
<1> HIDE DEF m
<1>2. Rows + Cols \in Nat
  BY BrowserAssumption
<1>3. ~(m < n)
  <2>1. m < n => m \in k..(n - 1)
    BY <1>1, <1>2
  <2> QED
    BY <1>1, <2>1
<1>4. ~(n < m)
  <2>1. n < m => n \in k..(m - 1)
    BY <1>1, <1>2
  <2> QED
    BY <1>1, <2>1
<1> QED
  BY <1>1, <1>2, <1>3, <1>4 DEF m

\* One step further on a line.
LEMMA StopGoesOn ==
    ASSUME NEW s, NEW c \in Cells, NEW d \in Rules!HexDirs, NEW k \in 1..(Rows + Cols)
    PROVE  IF Open(s, Rules!Along(c, d, k))
           THEN k + 1 \in 1..(Rows + Cols) /\ Stop(s, c, d, k) = Stop(s, c, d, k + 1)
           ELSE Stop(s, c, d, k) = k
<1>1. Rows + Cols \in Nat
  BY BrowserAssumption
<1>2. CASE Open(s, Rules!Along(c, d, k))
  <2>1. k # Rows + Cols
    BY <1>2, LinesEnd DEF Open
  <2>2. k + 1 \in 1..(Rows + Cols)
    BY <1>1, <2>1
  <2> DEFINE n == Stop(s, c, d, k + 1)
  <2>3. /\ n \in (k + 1)..(Rows + Cols) /\ ~Open(s, Rules!Along(c, d, n))
        /\ \A j \in (k + 1)..(n - 1) : Open(s, Rules!Along(c, d, j))
    BY <2>2, StopExists
  <2> HIDE DEF n
  <2>4. n \in k..(Rows + Cols)
    BY <1>1, <2>3
  <2>5. \A j \in k..(n - 1) : Open(s, Rules!Along(c, d, j))
    <3> TAKE j \in k..(n - 1)
    <3>1. j = k \/ j \in (k + 1)..(n - 1)
      BY <1>1, <2>3
    <3> QED
      BY <1>2, <2>3, <3>1
  <2>6. Stop(s, c, d, k) = n
    BY <2>3, <2>4, <2>5, StopIs
  <2> QED
    BY <1>2, <2>2, <2>6 DEF n
<1>3. CASE ~Open(s, Rules!Along(c, d, k))
  <2>1. k \in k..(Rows + Cols) /\ k..(k - 1) = {}
    BY <1>1
  <2>2. Stop(s, c, d, k) = k
    BY <1>3, <2>1, StopIs
  <2> QED
    BY <1>3, <2>2
<1> QED
  BY <1>2, <1>3

\* The loop of legalMovesFrom ends one before the first tile that is not open.
LEMMA ReachIsStop ==
    ASSUME NEW s, NEW c \in Cells, NEW d \in Rules!HexDirs
    PROVE  Reach(s, c, d) = Stop(s, c, d, 1) - 1
<1> DEFINE L == Rows + Cols
           steps == [k \in 1..L |-> Stop(s, c, d, k) - k]
           open == CHOOSE o : Slides(o, s, c, d)
           bad == {k \in 1..L : open[k] # Stop(s, c, d, k) - k}
<1>1. L \in Nat /\ 1 \in 1..L
  BY BrowserAssumption
<1>2. ASSUME NEW k \in 1..L
      PROVE  steps[k] = IF Open(s, Rules!Along(c, d, k)) THEN 1 + steps[k + 1] ELSE 0
  <2>1. CASE Open(s, Rules!Along(c, d, k))
    <3>1. k + 1 \in 1..L /\ Stop(s, c, d, k) = Stop(s, c, d, k + 1)
      BY <2>1, StopGoesOn
    <3>2. Stop(s, c, d, k + 1) \in Int
      BY <1>1, <3>1, StopExists
    <3>3. steps[k] = Stop(s, c, d, k + 1) - k /\ steps[k + 1] = Stop(s, c, d, k + 1) - (k + 1)
      BY <3>1
    <3> QED
      BY <2>1, <3>2, <3>3
  <2>2. CASE ~Open(s, Rules!Along(c, d, k))
    <3>1. Stop(s, c, d, k) = k
      BY <2>2, StopGoesOn
    <3> QED
      BY <2>2, <3>1
  <2> QED
    BY <2>1, <2>2
<1>3. Slides(steps, s, c, d)
  <2>1. steps = [k \in 1..L |-> steps[k]]
    OBVIOUS
  <2> HIDE DEF steps
  <2> QED
    BY <1>2, <2>1 DEF Slides
<1> HIDE DEF steps
<1>4. Slides(open, s, c, d)
  BY <1>3
<1>5. Reach(s, c, d) = open[1]
  BY DEF Reach, Slides
<1> HIDE DEF open
<1>6. ASSUME NEW k \in 1..L
      PROVE  open[k] = IF Open(s, Rules!Along(c, d, k)) THEN 1 + open[k + 1] ELSE 0
  BY <1>4 DEF Slides
<1>7. bad = {}
  <2> SUFFICES ASSUME bad # {}
               PROVE  FALSE
    OBVIOUS
  <2> DEFINE k == Max(bad)
  <2>1. k \in bad /\ \A j \in bad : k >= j
    BY <1>1, MaxExists
  <2> HIDE DEF k
  <2>2. CASE Open(s, Rules!Along(c, d, k))
    <3>1. k + 1 \in 1..L /\ Stop(s, c, d, k) = Stop(s, c, d, k + 1)
      BY <2>1, <2>2, StopGoesOn
    <3>2. k + 1 \notin bad
      BY <2>1
    <3>3. Stop(s, c, d, k + 1) \in Int
      BY <1>1, <3>1, StopExists
    <3>4. open[k] = 1 + open[k + 1]
      BY <1>6, <2>1, <2>2
    <3>5. open[k + 1] = Stop(s, c, d, k + 1) - (k + 1)
      BY <3>1, <3>2
    <3>6. open[k] = Stop(s, c, d, k) - k
      BY <2>1, <3>1, <3>3, <3>4, <3>5
    <3> QED
      BY <2>1, <3>6
  <2>3. CASE ~Open(s, Rules!Along(c, d, k))
    <3>1. Stop(s, c, d, k) = k /\ open[k] = 0
      BY <1>6, <2>1, <2>3, StopGoesOn
    <3> QED
      BY <2>1, <3>1
  <2> QED
    BY <2>2, <2>3
<1> QED
  BY <1>1, <1>5, <1>7

-----------------------------------------------------------------------------
(* What the browser keeps, as the server describes it. *)

\* The columns of the tiles and the slots of the players describe one board: a slot that
\* is used names a tile of its player, each tile has one, and it has not sunk.
Fits(s) ==
    /\ s \in GameState
    /\ \A c \in Cells, p \in Players : s.tiles[c].owner = p <=> \E i \in Slots : At(s, p, i) = c
    /\ \A c \in Cells : s.tiles[c].owner # None => ~s.tiles[c].gone
    /\ \A p \in Players, i, j \in Slots :
          At(s, p, i) = At(s, p, j) /\ At(s, p, i) # NoTile => i = j

\* Both modules have the same board.
LEMMA SameBoard ==
    /\ Server!Cells = Cells /\ Server!HexDirs = Rules!HexDirs /\ Server!Players = Players
    /\ Server!Slots = Slots /\ Rules!Players = Players
    /\ \A c, d, k : Server!Along(c, d, k) = Rules!Along(c, d, k)
BY DEF Cells, Rules!Cells, Rules!boardCoords, Server!Cells, Server!boardCoords,
       Server!HexDirs, Rules!HexDirs, Server!Players, Rules!Players, Players,
       Server!Slots, Slots, Server!Along, Rules!Along

\* What the state of the browser is made of.
LEMMA StateParts ==
    ASSUME NEW s \in GameState
    PROVE  /\ \A c \in Cells : /\ s.tiles[c].fish \in 1..3 /\ s.tiles[c].gone \in BOOLEAN
                               /\ s.tiles[c].owner \in Players \cup {None}
           /\ \A p \in Players : /\ s.players[p].score \in Nat /\ s.players[p].stuck \in BOOLEAN
                                 /\ \A i \in Slots : At(s, p, i) \in Cells \cup {NoTile}
           /\ s.phase \in {"placing", "moving", "finished"} /\ s.turn \in Players
           /\ s.winner \in {-2, -1, 0, 1} /\ s.ply \in Nat
BY DEF GameState, At

\* The server's state has the type of the server.
LEMMA AsServerType ==
    ASSUME NEW s \in GameState
    PROVE  AsServer(s) \in Server!GameState
<1>1. [c \in Cells |-> s.tiles[c].fish] \in [Cells -> 1..3]
  BY StateParts
<1>2. [p \in Players |-> s.players[p].score] \in [Players -> Nat]
  BY StateParts
<1>3. s.phase \in Server!Phases /\ s.turn \in Players /\ s.ply \in Nat
  BY StateParts DEF Server!Phases
<1>4. s.winner \in Players \cup {Server!Tie, Server!Undecided}
  BY StateParts DEF Players, Server!Tie, Server!Undecided
<1> QED
  BY <1>1, <1>2, <1>3, <1>4, SameBoard DEF AsServer, Server!GameState

\* The open tiles are the free ones.
LEMMA OpenIsFree ==
    ASSUME NEW s \in GameState, NEW c
    PROVE  Open(s, c) <=> c \in Server!Free(AsServer(s))
<1>1. AsServer(s).gone = {x \in Cells : s.tiles[x].gone}
      /\ AsServer(s).owner = {x \in Cells \X Players : s.tiles[x[1]].owner = x[2]}
  BY DEF AsServer
<1>2. ASSUME NEW x \in Cells
      PROVE  s.tiles[x].owner = None <=> \A p \in Players : <<x, p>> \notin AsServer(s).owner
  <2>1. \A p \in Players : p # None
    BY DEF Players, None
  <2> QED
    BY <1>1, <2>1, StateParts
<1> QED
  BY <1>1, <1>2, SameBoard DEF Open, Server!Free

\* The slides are the same.
LEMMA SlidesAgree ==
    ASSUME NEW s \in GameState, NEW c \in Cells
    PROVE  legalMovesFrom(s, c) = Server!LegalMovesFrom(AsServer(s), c)
<1> DEFINE L == Rows + Cols
           line(d) == {Rules!Along(c, d, k) : k \in 1..Reach(s, c, d)}
           slide(d) == {Rules!Along(c, d, k) : k \in
                           {n \in 1..L : \A j \in 1..n :
                                            Rules!Along(c, d, j) \in Server!Free(AsServer(s))}}
<1>1. L \in Nat /\ 1 \in 1..L
  BY BrowserAssumption
<1>2. ASSUME NEW d \in Rules!HexDirs
      PROVE  1..Reach(s, c, d) = {n \in 1..L : \A j \in 1..n :
                                        Rules!Along(c, d, j) \in Server!Free(AsServer(s))}
  <2> DEFINE m == Stop(s, c, d, 1)
  <2>1. /\ m \in 1..L /\ ~Open(s, Rules!Along(c, d, m))
        /\ \A j \in 1..(m - 1) : Open(s, Rules!Along(c, d, j))
    BY <1>1, StopExists
  <2>2. Reach(s, c, d) = m - 1
    BY ReachIsStop
  <2> HIDE DEF m
  <2>3. ASSUME NEW n \in 1..L
        PROVE  n \in 1..(m - 1) <=>
                  \A j \in 1..n : Rules!Along(c, d, j) \in Server!Free(AsServer(s))
    <3>1. n < m \/ m \in 1..n
      BY <1>1, <2>1
    <3>2. n < m => 1..n \subseteq 1..(m - 1)
      BY <1>1, <2>1
    <3>3. \A j : Open(s, Rules!Along(c, d, j))
                 <=> Rules!Along(c, d, j) \in Server!Free(AsServer(s))
      BY OpenIsFree
    <3> QED
      BY <1>1, <2>1, <3>1, <3>2, <3>3
  <2>4. 1..(m - 1) \subseteq 1..L
    BY <1>1, <2>1
  <2> QED
    BY <2>2, <2>3, <2>4
<1>3. \A d \in Rules!HexDirs : line(d) = slide(d)
  BY <1>2
<1>4. legalMovesFrom(s, c) = UNION {line(d) : d \in Rules!HexDirs}
  BY DEF legalMovesFrom
<1>5. Server!LegalMovesFrom(AsServer(s), c) = UNION {slide(d) : d \in Rules!HexDirs}
  BY SameBoard DEF Server!LegalMovesFrom, Server!MaxSlide
<1> HIDE DEF line, slide
<1>6. {line(d) : d \in Rules!HexDirs} = {slide(d) : d \in Rules!HexDirs}
  BY <1>3
<1> QED
  BY <1>4, <1>5, <1>6

\* The penguins of the slots.
LEMMA PenguinsAgree ==
    ASSUME NEW s \in GameState, NEW p \in Players
    PROVE  Server!PenguinsOf(AsServer(s), p)
           = {<<p, i, At(s, p, i)>> : i \in {j \in Slots : At(s, p, j) # NoTile}}
<1>1. AsServer(s).penguins = {x \in Players \X Slots \X Cells : At(s, x[1], x[2]) = x[3]}
  BY DEF AsServer, At
<1>2. \A i \in Slots : At(s, p, i) # NoTile <=> At(s, p, i) \in Cells
  BY StateParts, CellsArePairs
<1>3. ASSUME NEW x
      PROVE  x \in Server!PenguinsOf(AsServer(s), p) <=>
             \E i \in {j \in Slots : At(s, p, j) # NoTile} : x = <<p, i, At(s, p, i)>>
  BY <1>1, <1>2 DEF Server!PenguinsOf
<1> QED
  BY <1>3

\* A player can move in both or in none.
LEMMA MovesAgree ==
    ASSUME NEW s \in GameState, NEW p \in Players
    PROVE  playerCanMove(s, p) <=> Server!PlayerCanMove(AsServer(s), p)
<1>1. \A i \in Slots : At(s, p, i) # NoTile => At(s, p, i) \in Cells
  BY StateParts
<1>2. \A i \in Slots : At(s, p, i) # NoTile =>
         legalMovesFrom(s, At(s, p, i)) = Server!LegalMovesFrom(AsServer(s), At(s, p, i))
  BY <1>1, SlidesAgree
<1>3. playerCanMove(s, p) <=>
         \E i \in Slots : At(s, p, i) # NoTile /\ legalMovesFrom(s, At(s, p, i)) # {}
  BY DEF playerCanMove, At
<1> DEFINE all == {<<p, i, At(s, p, i)>> : i \in {j \in Slots : At(s, p, j) # NoTile}}
           moves(c) == Server!LegalMovesFrom(AsServer(s), c)
<1>4. Server!PlayerCanMove(AsServer(s), p) <=> \E x \in all : moves(x[3]) # {}
  BY PenguinsAgree DEF Server!PlayerCanMove
<1> HIDE DEF moves
<1>5. (\E x \in all : moves(x[3]) # {})
      <=> \E i \in Slots : At(s, p, i) # NoTile /\ moves(At(s, p, i)) # {}
  <2>1. ASSUME NEW x \in all, moves(x[3]) # {}
        PROVE  \E i \in Slots : At(s, p, i) # NoTile /\ moves(At(s, p, i)) # {}
    <3>1. PICK i \in Slots : At(s, p, i) # NoTile /\ x = <<p, i, At(s, p, i)>>
      OBVIOUS
    <3>2. x[3] = At(s, p, i)
      BY <3>1
    <3> QED
      BY <2>1, <3>1, <3>2
  <2>2. ASSUME NEW i \in Slots, At(s, p, i) # NoTile, moves(At(s, p, i)) # {}
        PROVE  \E x \in all : moves(x[3]) # {}
    <3>1. <<p, i, At(s, p, i)>> \in all /\ <<p, i, At(s, p, i)>>[3] = At(s, p, i)
      BY <2>2
    <3> QED
      BY <2>2, <3>1
  <2> QED
    BY <2>1, <2>2
<1> QED
  BY <1>2, <1>3, <1>4, <1>5 DEF moves

\* The moves the browser offers are those the server accepts.
LEMMA OffersAgree ==
    ASSUME NEW s \in GameState, NEW p \in Players
    PROVE  Offered(s, p) = Rules!AllMoves(AsServer(s), p)
<1> DEFINE A == AsServer(s)
<1>1. A.phase = s.phase /\ A.turn = s.turn /\ \A c \in Cells : A.fish[c] = s.tiles[c].fish
  BY DEF AsServer
<1>2. Rules!Free(A) = Server!Free(A)
  BY SameBoard DEF Rules!Free, Server!Free, Cells
<1>3. ASSUME NEW c \in Cells
      PROVE  Rules!LegalMovesFrom(A, c) = legalMovesFrom(s, c)
  <2>1. Rules!LegalMovesFrom(A, c) = Server!LegalMovesFrom(A, c)
    BY <1>2, SameBoard DEF Rules!LegalMovesFrom, Server!LegalMovesFrom,
                           Rules!MaxSlide, Server!MaxSlide
  <2> QED
    BY <2>1, SlidesAgree
<1>4. Rules!PenguinsOf(A, p) = Server!PenguinsOf(A, p)
  BY DEF Rules!PenguinsOf, Server!PenguinsOf
<1>5. Rules!LegalPlacements(A) = {d \in Cells : Open(s, d) /\ s.tiles[d].fish = 1}
  <2>1. \A c : c \in Rules!Free(A) => c \in Cells
    BY SameBoard DEF Rules!Free, Cells
  <2>2. \A c : c \in Rules!Free(A) <=> Open(s, c)
    BY <1>2, OpenIsFree
  <2> QED
    BY <1>1, <2>1, <2>2 DEF Rules!LegalPlacements
<1> DEFINE used == {j \in Slots : At(s, p, j) # NoTile}
           from(i) == {[kind |-> "move", from |-> At(s, p, i), to |-> c] :
                          c \in legalMovesFrom(s, At(s, p, i))}
           by(x) == {[kind |-> "move", from |-> x[3], to |-> c] :
                        c \in Rules!LegalMovesFrom(A, x[3])}
<1>6. UNION {from(i) : i \in used} = UNION {by(x) : x \in Rules!PenguinsOf(A, p)}
  <2>1. ASSUME NEW i \in used
        PROVE  by(<<p, i, At(s, p, i)>>) = from(i)
    <3>1. At(s, p, i) \in Cells
      BY StateParts
    <3>2. Rules!LegalMovesFrom(A, At(s, p, i)) = legalMovesFrom(s, At(s, p, i))
      BY <1>3, <3>1
    <3> HIDE DEF A
    <3> QED
      BY <3>2
  <2>2. Rules!PenguinsOf(A, p) = {<<p, i, At(s, p, i)>> : i \in used}
    BY <1>4, PenguinsAgree
  <2> HIDE DEF used, from, by, A
  <2>3. {by(x) : x \in {<<p, i, At(s, p, i)>> : i \in used}} = {from(i) : i \in used}
    BY <2>1
  <2> QED
    BY <2>2, <2>3
<1>7. Offered(s, p) = IF s.phase = "finished" \/ s.turn # p THEN {}
                      ELSE IF s.phase = "placing"
                      THEN {[kind |-> "place", to |-> c] :
                               c \in {d \in Cells : Open(s, d) /\ s.tiles[d].fish = 1}}
                      ELSE UNION {from(i) : i \in used}
  BY DEF Offered, At
<1>8. Rules!AllMoves(A, p) = IF A.phase = "finished" \/ A.turn # p THEN {}
                             ELSE IF A.phase = "placing"
                             THEN {[kind |-> "place", to |-> c] : c \in Rules!LegalPlacements(A)}
                             ELSE UNION {by(x) : x \in Rules!PenguinsOf(A, p)}
  BY DEF Rules!AllMoves
<1> HIDE DEF from, by, used, A
<1> QED
  BY <1>1, <1>5, <1>6, <1>7, <1>8 DEF A

-----------------------------------------------------------------------------
(* Penguins that leave. *)

\* A tile, and a player.
TileType == [fish : 1..3, gone : BOOLEAN, owner : Players \cup {None}]
PlayerType == [score : Nat, stuck : BOOLEAN, penguins : [Slots -> Cells \cup {NoTile}]]

\* The columns of a state have their types.
LEMMA StateTypes ==
    ASSUME NEW s \in GameState
    PROVE  /\ s.tiles \in [Cells -> TileType] /\ s.players \in [Players -> PlayerType]
           /\ \A c \in Cells : s.tiles[c] \in TileType
           /\ \A p \in Players : s.players[p] \in PlayerType
BY DEF GameState, TileType, PlayerType

\* Two states are one if they agree everywhere.
LEMMA SameState ==
    ASSUME NEW s \in GameState, NEW t \in GameState,
           \A c \in Cells : /\ s.tiles[c].fish = t.tiles[c].fish
                            /\ s.tiles[c].gone = t.tiles[c].gone
                            /\ s.tiles[c].owner = t.tiles[c].owner,
           \A p \in Players : /\ s.players[p].score = t.players[p].score
                              /\ s.players[p].stuck = t.players[p].stuck
                              /\ \A i \in Slots : At(s, p, i) = At(t, p, i),
           s.phase = t.phase, s.turn = t.turn, s.winner = t.winner, s.ply = t.ply
    PROVE  s = t
<1>1. ASSUME NEW c \in Cells
      PROVE  s.tiles[c] = t.tiles[c]
  <2>1. s.tiles[c] \in TileType /\ t.tiles[c] \in TileType
    BY StateTypes
  <2> QED
    BY <2>1 DEF TileType
<1>2. s.tiles = t.tiles
  BY <1>1 DEF GameState
<1>3. ASSUME NEW p \in Players
      PROVE  s.players[p] = t.players[p]
  <2>1. s.players[p].penguins = t.players[p].penguins
    BY DEF GameState, At
  <2> QED
    BY <2>1, SMTT(30) DEF GameState
<1>4. s.players = t.players
  BY <1>3 DEF GameState
<1> QED
  BY <1>2, <1>4 DEF GameState

\* The penguins in the slots of T are gone with their ice.
Ice(s, T) == {At(s, x[1], x[2]) : x \in T}
Drop(s, T) ==
    [s EXCEPT !.tiles = [c \in Cells |->
                  IF c \in Ice(s, T) THEN [s.tiles[c] EXCEPT !.owner = None, !.gone = TRUE]
                  ELSE s.tiles[c]],
              !.players = [p \in Players |->
                  [s.players[p] EXCEPT !.penguins =
                      [i \in Slots |-> IF <<p, i>> \in T THEN NoTile ELSE At(s, p, i)]]]]

\* The parts of that state.
LEMMA DropParts ==
    ASSUME NEW s \in GameState, NEW T \in SUBSET (Players \X Slots)
    PROVE  /\ Drop(s, T) \in GameState
           /\ \A c \in Cells :
                 /\ Drop(s, T).tiles[c].fish = s.tiles[c].fish
                 /\ Drop(s, T).tiles[c].gone = (s.tiles[c].gone \/ c \in Ice(s, T))
                 /\ Drop(s, T).tiles[c].owner = IF c \in Ice(s, T) THEN None
                                                ELSE s.tiles[c].owner
           /\ \A p \in Players :
                 /\ Drop(s, T).players[p].score = s.players[p].score
                 /\ Drop(s, T).players[p].stuck = s.players[p].stuck
                 /\ \A i \in Slots : At(Drop(s, T), p, i) = IF <<p, i>> \in T THEN NoTile
                                                            ELSE At(s, p, i)
           /\ Drop(s, T).phase = s.phase /\ Drop(s, T).turn = s.turn
           /\ Drop(s, T).winner = s.winner /\ Drop(s, T).ply = s.ply
<1> DEFINE tiles == [c \in Cells |->
                  IF c \in Ice(s, T) THEN [s.tiles[c] EXCEPT !.owner = None, !.gone = TRUE]
                  ELSE s.tiles[c]]
           players == [p \in Players |->
                  [s.players[p] EXCEPT !.penguins =
                      [i \in Slots |-> IF <<p, i>> \in T THEN NoTile ELSE At(s, p, i)]]]
<1>1. tiles \in [Cells -> [fish : 1..3, gone : BOOLEAN, owner : Players \cup {None}]]
  <2> SUFFICES ASSUME NEW c \in Cells
               PROVE  tiles[c] \in TileType
    BY DEF TileType
  <2>1. s.tiles[c] \in TileType
    BY StateTypes
  <2>2. [s.tiles[c] EXCEPT !.owner = None, !.gone = TRUE] \in TileType
    BY <2>1 DEF TileType
  <2> QED
    BY <2>1, <2>2
<1>2. players \in [Players -> [score : Nat, stuck : BOOLEAN,
                               penguins : [Slots -> Cells \cup {NoTile}]]]
  <2> SUFFICES ASSUME NEW p \in Players
               PROVE  players[p] \in [score : Nat, stuck : BOOLEAN,
                                      penguins : [Slots -> Cells \cup {NoTile}]]
    OBVIOUS
  <2>1. [i \in Slots |-> IF <<p, i>> \in T THEN NoTile ELSE At(s, p, i)]
           \in [Slots -> Cells \cup {NoTile}]
    BY StateParts
  <2> QED
    BY <2>1, ZenonT(60) DEF GameState
<1>3. Drop(s, T) = [s EXCEPT !.tiles = tiles, !.players = players]
  BY DEF Drop
<1>4. \A c \in Cells : /\ tiles[c].fish = s.tiles[c].fish
                       /\ tiles[c].gone = (s.tiles[c].gone \/ c \in Ice(s, T))
                       /\ tiles[c].owner = IF c \in Ice(s, T) THEN None ELSE s.tiles[c].owner
  BY ZenonT(60) DEF GameState
<1>5. \A p \in Players :
         /\ players[p].score = s.players[p].score /\ players[p].stuck = s.players[p].stuck
         /\ \A i \in Slots :
               players[p].penguins[i] = IF <<p, i>> \in T THEN NoTile ELSE At(s, p, i)
  BY DEF GameState
<1> HIDE DEF tiles, players
<1>6. /\ Drop(s, T).tiles = tiles /\ Drop(s, T).players = players
      /\ Drop(s, T).phase = s.phase /\ Drop(s, T).turn = s.turn
      /\ Drop(s, T).winner = s.winner /\ Drop(s, T).ply = s.ply
      /\ Drop(s, T) \in GameState
  BY <1>1, <1>2, <1>3 DEF GameState
<1>7. \A p \in Players, i \in Slots : At(Drop(s, T), p, i) = players[p].penguins[i]
  BY <1>6 DEF At
<1> QED
  BY <1>4, <1>5, <1>6, <1>7

\* The same of one tile, and of one slot.
LEMMA DropTile ==
    ASSUME NEW s \in GameState, NEW T \in SUBSET (Players \X Slots), NEW c \in Cells
    PROVE  /\ Drop(s, T).tiles[c].fish = s.tiles[c].fish
           /\ Drop(s, T).tiles[c].gone = (s.tiles[c].gone \/ c \in Ice(s, T))
           /\ Drop(s, T).tiles[c].owner = IF c \in Ice(s, T) THEN None ELSE s.tiles[c].owner
BY DropParts

\* A slot after some penguins have left.
LEMMA DropSlot ==
    ASSUME NEW s \in GameState, NEW T \in SUBSET (Players \X Slots),
           NEW p \in Players, NEW i \in Slots
    PROVE  At(Drop(s, T), p, i) = IF <<p, i>> \in T THEN NoTile ELSE At(s, p, i)
BY DropParts

\* removePenguin drops one penguin.
LEMMA RemoveParts ==
    ASSUME NEW s \in GameState, NEW p \in Players, NEW i \in Slots
    PROVE  removePenguin(p, i)[s] = Drop(s, {<<p, i>>})
<1> DEFINE c == At(s, p, i)
           T == {<<p, i>>}
           t == [s EXCEPT !.tiles[c].owner = None, !.tiles[c].gone = TRUE,
                          !.players[p].penguins[i] = NoTile]
<1>1. T \in SUBSET (Players \X Slots) /\ Ice(s, T) = {c}
  BY DEF Ice
<1>2. removePenguin(p, i)[s] = IF c = NoTile THEN s ELSE t
  BY DEF removePenguin, At
<1>3. CASE c = NoTile
  <2>1. \A x \in Cells : x \notin Ice(s, T)
    BY <1>1, <1>3, CellsArePairs
  <2>0. \A q \in Players, j \in Slots : <<q, j>> \in T => At(s, q, j) = NoTile
    BY <1>3
  <2> HIDE DEF T, c
  <2>2. ASSUME NEW q \in Players, NEW j \in Slots
        PROVE  At(Drop(s, T), q, j) = At(s, q, j)
    <3>1. At(Drop(s, T), q, j) = IF <<q, j>> \in T THEN NoTile ELSE At(s, q, j)
      BY <1>1, DropSlot
    <3> QED
      BY <2>0, <3>1
  <2>3. ASSUME NEW x \in Cells
        PROVE  /\ Drop(s, T).tiles[x].fish = s.tiles[x].fish
               /\ Drop(s, T).tiles[x].gone = s.tiles[x].gone
               /\ Drop(s, T).tiles[x].owner = s.tiles[x].owner
    <3>1. s.tiles[x].gone \in BOOLEAN
      BY StateParts
    <3> QED
      BY <1>1, <2>1, <3>1, DropTile
  <2>4. Drop(s, T) = s
    BY <1>1, <2>2, <2>3, DropParts, SameState
  <2> QED
    BY <1>2, <1>3, <2>4 DEF T, c
<1>4. CASE c # NoTile
  <2>1. c \in Cells /\ c \in DOMAIN s.tiles /\ p \in DOMAIN s.players
    BY <1>4, StateParts DEF GameState
  <2> HIDE DEF c
  <2> DEFINE tile == [s.tiles[c] EXCEPT !.owner = None, !.gone = TRUE]
             player == [s.players[p] EXCEPT !.penguins[i] = NoTile]
  <2>2. tile \in TileType /\ tile.fish = s.tiles[c].fish /\ tile.owner = None /\ tile.gone = TRUE
    <3>1. s.tiles[c] \in TileType
      BY <2>1, StateTypes
    <3> QED
      BY <3>1 DEF TileType
  <2>3. /\ player \in PlayerType /\ player.score = s.players[p].score
        /\ player.stuck = s.players[p].stuck
        /\ \A j \in Slots : player.penguins[j] = IF j = i THEN NoTile ELSE At(s, p, j)
    <3>1. s.players[p] \in PlayerType
      BY StateTypes
    <3> QED
      BY <3>1 DEF PlayerType, At
  <2>4. t = [s EXCEPT !.tiles = [s.tiles EXCEPT ![c] = tile],
                      !.players = [s.players EXCEPT ![p] = player]]
    OBVIOUS
  <2> HIDE DEF tile, player, t
  <2>5. /\ [s.tiles EXCEPT ![c] = tile] \in [Cells -> TileType]
        /\ [s.players EXCEPT ![p] = player] \in [Players -> PlayerType]
    BY <2>1, <2>2, <2>3, StateTypes
  <2>6. /\ t \in GameState
        /\ t.tiles = [s.tiles EXCEPT ![c] = tile] /\ t.players = [s.players EXCEPT ![p] = player]
        /\ t.phase = s.phase /\ t.turn = s.turn /\ t.winner = s.winner /\ t.ply = s.ply
    BY <2>4, <2>5 DEF GameState, TileType, PlayerType
  <2>7. \A x \in Cells : /\ t.tiles[x].fish = Drop(s, T).tiles[x].fish
                         /\ t.tiles[x].gone = Drop(s, T).tiles[x].gone
                         /\ t.tiles[x].owner = Drop(s, T).tiles[x].owner
    <3> TAKE x \in Cells
    <3>1. t.tiles[x] = IF x = c THEN tile ELSE s.tiles[x]
      BY <2>1, <2>6, StateTypes
    <3>2. /\ Drop(s, T).tiles[x].fish = s.tiles[x].fish
          /\ Drop(s, T).tiles[x].gone = (s.tiles[x].gone \/ x \in Ice(s, T))
          /\ Drop(s, T).tiles[x].owner = IF x \in Ice(s, T) THEN None ELSE s.tiles[x].owner
      BY <1>1, DropTile
    <3>3. x \in Ice(s, T) <=> x = c
      BY <1>1
    <3> QED
      BY <2>2, <3>1, <3>2, <3>3, StateParts, ZenonT(60)
  <2>8. \A q \in Players : /\ t.players[q].score = Drop(s, T).players[q].score
                           /\ t.players[q].stuck = Drop(s, T).players[q].stuck
                           /\ \A j \in Slots : At(t, q, j) = At(Drop(s, T), q, j)
    <3> TAKE q \in Players
    <3>1. t.players[q] = IF q = p THEN player ELSE s.players[q]
      BY <2>6, StateTypes
    <3>4. \A j \in Slots : <<q, j>> \in T <=> q = p /\ j = i
      OBVIOUS
    <3> HIDE DEF T
    <3>2. /\ Drop(s, T).players[q].score = s.players[q].score
          /\ Drop(s, T).players[q].stuck = s.players[q].stuck
          /\ \A j \in Slots : At(Drop(s, T), q, j) = IF <<q, j>> \in T THEN NoTile
                                                     ELSE At(s, q, j)
      BY <1>1, DropParts
    <3>3. \A j \in Slots : At(t, q, j) = t.players[q].penguins[j]
                           /\ At(s, q, j) = s.players[q].penguins[j]
      BY DEF At
    <3> QED
      BY <2>3, <3>1, <3>2, <3>3, <3>4
  <2> HIDE DEF T
  <2>9. t = Drop(s, T)
    <3>1. /\ Drop(s, T) \in GameState /\ Drop(s, T).phase = s.phase /\ Drop(s, T).turn = s.turn
          /\ Drop(s, T).winner = s.winner /\ Drop(s, T).ply = s.ply
      BY <1>1, DropParts
    <3> QED
      BY <2>6, <2>7, <2>8, <3>1, SameState, ZenonT(60)
  <2> QED
    BY <1>2, <1>4, <2>9 DEF T, c
<1> QED
  BY <1>3, <1>4

\* Dropping nothing.
LEMMA DropNone ==
    ASSUME NEW s \in GameState
    PROVE  Drop(s, {}) = s
<1> DEFINE T == {}
<1>1. T \in SUBSET (Players \X Slots) /\ Ice(s, T) = {}
  BY DEF Ice
<1>0. \A q, j : <<q, j>> \notin T
  OBVIOUS
<1> HIDE DEF T
<1>2. ASSUME NEW x \in Cells
      PROVE  /\ Drop(s, T).tiles[x].fish = s.tiles[x].fish
             /\ Drop(s, T).tiles[x].gone = s.tiles[x].gone
             /\ Drop(s, T).tiles[x].owner = s.tiles[x].owner
  <2>1. s.tiles[x].gone \in BOOLEAN
    BY StateParts
  <2> QED
    BY <1>1, <2>1, DropTile
<1>3. ASSUME NEW q \in Players, NEW j \in Slots
      PROVE  At(Drop(s, T), q, j) = At(s, q, j)
  <2>1. At(Drop(s, T), q, j) = IF <<q, j>> \in T THEN NoTile ELSE At(s, q, j)
    BY <1>1, DropSlot
  <2> QED
    BY <1>0, <2>1
<1>4. Drop(s, T) = s
  BY <1>1, <1>2, <1>3, DropParts, SameState
<1> QED
  BY <1>4 DEF T

\* Dropping some and then others.
LEMMA DropTwice ==
    ASSUME NEW s \in GameState, NEW T \in SUBSET (Players \X Slots),
           NEW U \in SUBSET (Players \X Slots)
    PROVE  Drop(Drop(s, T), U) = Drop(s, T \cup U)
<1> DEFINE t == Drop(s, T)
           u == Drop(t, U)
           v == Drop(s, T \cup U)
<1>1. T \cup U \in SUBSET (Players \X Slots)
  OBVIOUS
<1>2. t \in GameState
  BY DropParts
<1>3. ASSUME NEW c \in Cells
      PROVE  c \in Ice(s, T \cup U) <=> c \in Ice(s, T) \/ c \in Ice(t, U)
  <2>1. \A x \in U : At(t, x[1], x[2]) = IF x \in T THEN NoTile ELSE At(s, x[1], x[2])
    <3> TAKE x \in U
    <3>1. x[1] \in Players /\ x[2] \in Slots /\ x = <<x[1], x[2]>>
      OBVIOUS
    <3> HIDE DEF t
    <3> QED
      BY <3>1, DropParts DEF t
  <2> HIDE DEF t
  <2>2. c # NoTile
    BY CellsArePairs
  <2> QED
    BY <2>1, <2>2 DEF Ice
<1>4. u \in GameState /\ v \in GameState
  BY <1>1, <1>2, DropParts
<1>5. \A c \in Cells : /\ u.tiles[c].fish = v.tiles[c].fish
                       /\ u.tiles[c].gone = v.tiles[c].gone
                       /\ u.tiles[c].owner = v.tiles[c].owner
  <2> TAKE c \in Cells
  <2>1. /\ t.tiles[c].fish = s.tiles[c].fish
        /\ t.tiles[c].gone = (s.tiles[c].gone \/ c \in Ice(s, T))
        /\ t.tiles[c].owner = IF c \in Ice(s, T) THEN None ELSE s.tiles[c].owner
    BY DropParts
  <2>2. /\ u.tiles[c].fish = t.tiles[c].fish
        /\ u.tiles[c].gone = (t.tiles[c].gone \/ c \in Ice(t, U))
        /\ u.tiles[c].owner = IF c \in Ice(t, U) THEN None ELSE t.tiles[c].owner
    BY <1>2, DropParts
  <2>3. /\ v.tiles[c].fish = s.tiles[c].fish
        /\ v.tiles[c].gone = (s.tiles[c].gone \/ c \in Ice(s, T \cup U))
        /\ v.tiles[c].owner = IF c \in Ice(s, T \cup U) THEN None ELSE s.tiles[c].owner
    BY <1>1, DropParts
  <2> HIDE DEF t, u, v
  <2> QED
    BY <1>3, <2>1, <2>2, <2>3
<1>6. \A p \in Players : /\ u.players[p].score = v.players[p].score
                         /\ u.players[p].stuck = v.players[p].stuck
                         /\ \A i \in Slots : At(u, p, i) = At(v, p, i)
  <2> TAKE p \in Players
  <2>1. /\ t.players[p].score = s.players[p].score /\ t.players[p].stuck = s.players[p].stuck
        /\ \A i \in Slots : At(t, p, i) = IF <<p, i>> \in T THEN NoTile ELSE At(s, p, i)
    BY DropParts
  <2>2. /\ u.players[p].score = t.players[p].score /\ u.players[p].stuck = t.players[p].stuck
        /\ \A i \in Slots : At(u, p, i) = IF <<p, i>> \in U THEN NoTile ELSE At(t, p, i)
    BY <1>2, DropParts
  <2>3. /\ v.players[p].score = s.players[p].score /\ v.players[p].stuck = s.players[p].stuck
        /\ \A i \in Slots : At(v, p, i) = IF <<p, i>> \in T \cup U THEN NoTile ELSE At(s, p, i)
    BY <1>1, DropParts
  <2> HIDE DEF t, u, v
  <2> QED
    BY <2>1, <2>2, <2>3
<1>7. u.phase = v.phase /\ u.turn = v.turn /\ u.winner = v.winner /\ u.ply = v.ply
  BY <1>1, <1>2, DropParts
<1> HIDE DEF t, u, v
<1>8. u = v
  BY <1>4, <1>5, <1>6, <1>7, SameState
<1> QED
  BY <1>8 DEF t, u, v

\* A tile is open after some penguins have left if it was open before.
LEMMA DropKeepsOpen ==
    ASSUME NEW s, Fits(s), NEW T \in SUBSET (Players \X Slots), NEW c
    PROVE  Open(Drop(s, T), c) <=> Open(s, c)
<1>1. s \in GameState
  BY DEF Fits
<1>2. CASE c \notin Cells
  BY <1>2 DEF Open
<1>3. CASE c \in Cells
  <2>1. /\ Drop(s, T).tiles[c].gone = (s.tiles[c].gone \/ c \in Ice(s, T))
        /\ Drop(s, T).tiles[c].owner = IF c \in Ice(s, T) THEN None ELSE s.tiles[c].owner
    BY <1>1, <1>3, DropTile
  <2>2. ASSUME c \in Ice(s, T)
        PROVE  s.tiles[c].owner # None
    <3>1. PICK x \in T : c = At(s, x[1], x[2])
      BY <2>2 DEF Ice
    <3>2. x[1] \in Players /\ x[2] \in Slots
      OBVIOUS
    <3>3. s.tiles[c].owner = x[1]
      BY <1>3, <3>1, <3>2 DEF Fits
    <3> QED
      BY <3>2, <3>3 DEF Players, None
  <2>3. s.tiles[c].gone \in BOOLEAN
    BY <1>1, <1>3, StateParts
  <2> QED
    BY <1>3, <2>1, <2>2, <2>3 DEF Open
<1> QED
  BY <1>2, <1>3

\* The board stays one board.
LEMMA DropFits ==
    ASSUME NEW s, Fits(s), NEW T \in SUBSET (Players \X Slots)
    PROVE  Fits(Drop(s, T))
<1> DEFINE t == Drop(s, T)
<1>1. s \in GameState /\ t \in GameState
  BY DropParts DEF Fits
<1>2. \A c \in Cells : /\ t.tiles[c].gone = (s.tiles[c].gone \/ c \in Ice(s, T))
                       /\ t.tiles[c].owner = IF c \in Ice(s, T) THEN None
                                             ELSE s.tiles[c].owner
  BY <1>1, DropTile
<1>3. ASSUME NEW p \in Players, NEW i \in Slots
      PROVE  At(t, p, i) = IF <<p, i>> \in T THEN NoTile ELSE At(s, p, i)
  BY <1>1, DropSlot
<1> HIDE DEF t
<1>4. ASSUME NEW c \in Cells, NEW p \in Players
      PROVE  t.tiles[c].owner = p <=> \E i \in Slots : At(t, p, i) = c
  <2>1. c # NoTile /\ p # None
    BY CellsArePairs DEF Players, None
  <2>2. ASSUME NEW i \in Slots, At(s, p, i) = c
        PROVE  c \in Ice(s, T) <=> <<p, i>> \in T
    <3>1. <<p, i>> \in T => c \in Ice(s, T)
      BY <2>2 DEF Ice
    <3>2. ASSUME c \in Ice(s, T)
          PROVE  <<p, i>> \in T
      <4>1. PICK x \in T : c = At(s, x[1], x[2])
        BY <3>2 DEF Ice
      <4>2. x[1] \in Players /\ x[2] \in Slots /\ x = <<x[1], x[2]>>
        OBVIOUS
      <4>3. s.tiles[c].owner = x[1] /\ s.tiles[c].owner = p
        BY <2>2, <4>1, <4>2 DEF Fits
      <4>4. x[2] = i
        BY <2>1, <2>2, <4>1, <4>2, <4>3 DEF Fits
      <4> QED
        BY <4>2, <4>3, <4>4
    <3> QED
      BY <3>1, <3>2
  <2>3. s.tiles[c].owner = p <=> \E i \in Slots : At(s, p, i) = c
    BY DEF Fits
  <2> QED
    BY <1>2, <1>3, <2>1, <2>2, <2>3
<1>5. \A c \in Cells : t.tiles[c].owner # None => ~t.tiles[c].gone
  BY <1>2 DEF Fits
<1>6. ASSUME NEW p \in Players, NEW i \in Slots, NEW j \in Slots,
             At(t, p, i) = At(t, p, j), At(t, p, i) # NoTile
      PROVE  i = j
  <2>1. /\ At(t, p, i) = IF <<p, i>> \in T THEN NoTile ELSE At(s, p, i)
        /\ At(t, p, j) = IF <<p, j>> \in T THEN NoTile ELSE At(s, p, j)
    BY <1>3
  <2>2. At(s, p, i) = At(s, p, j) /\ At(s, p, i) # NoTile
    BY <1>6, <2>1
  <2> QED
    BY <2>2 DEF Fits
<1>7. Fits(t)
  BY <1>1, <1>4, <1>5, <1>6 DEF Fits
<1> QED
  BY <1>7 DEF t

\* The slots whose penguins are isolated.
Lonely(s) ==
    {x \in Players \X Slots : /\ At(s, x[1], x[2]) # NoTile
                              /\ ~\E n \in neighbors(At(s, x[1], x[2])) : Open(s, n)}

\* Who leaves isolates nobody else.
LEMMA DropLonely ==
    ASSUME NEW s, Fits(s), NEW T \in SUBSET (Players \X Slots)
    PROVE  Lonely(Drop(s, T)) = Lonely(s) \ T
<1>1. s \in GameState
  BY DEF Fits
<1>2. ASSUME NEW x \in Players \X Slots
      PROVE  x \in Lonely(Drop(s, T)) <=> x \in Lonely(s) /\ x \notin T
  <2>1. x[1] \in Players /\ x[2] \in Slots /\ x = <<x[1], x[2]>>
    OBVIOUS
  <2>2. At(Drop(s, T), x[1], x[2]) = IF x \in T THEN NoTile ELSE At(s, x[1], x[2])
    BY <1>1, <2>1, DropSlot
  <2>3. \A n : Open(Drop(s, T), n) <=> Open(s, n)
    BY DropKeepsOpen
  <2> QED
    BY <2>2, <2>3 DEF Lonely
<1>3. \A y : (y \in Lonely(Drop(s, T)) => y \in Players \X Slots)
             /\ (y \in Lonely(s) => y \in Players \X Slots)
  BY DEF Lonely
<1> QED
  BY <1>2, <1>3

\* A round of the inner loop of settleIsolatedPenguins.
LEMMA DropIsolatedDrops ==
    ASSUME NEW s, Fits(s), NEW p \in Players, NEW i \in Slots
    PROVE  DropIsolated(p, i)[s] = Drop(s, Lonely(s) \cap {<<p, i>>})
<1>1. s \in GameState
  BY DEF Fits
<1>2. DropIsolated(p, i)[s] = IF <<p, i>> \in Lonely(s) THEN removePenguin(p, i)[s] ELSE s
  BY <1>1 DEF DropIsolated, Lonely, At
<1>3. CASE <<p, i>> \in Lonely(s)
  <2>1. Lonely(s) \cap {<<p, i>>} = {<<p, i>>}
    BY <1>3
  <2> QED
    BY <1>1, <1>2, <1>3, <2>1, RemoveParts
<1>4. CASE <<p, i>> \notin Lonely(s)
  <2>1. Lonely(s) \cap {<<p, i>>} = {}
    BY <1>4
  <2> QED
    BY <1>1, <1>2, <1>4, <2>1, DropNone
<1> QED
  BY <1>3, <1>4

\* The slots of a player.
SlotsOf(p) == {p} \X Slots

\* The recursive function of that loop.
DropSteps(h, s, p) ==
    h = [D \in SUBSET DOMAIN SlotOrder |->
            IF D = {} THEN s ELSE DropIsolated(p, SlotOrder[Max(D)])[h[D \ {Max(D)}]]]

\* The whole loop.
LEMMA DropLoop ==
    ASSUME NEW s, Fits(s), NEW p \in Players
    PROVE  FoldLeft(LAMBDA u, i : DropIsolated(p, i)[u], s, SlotOrder)
           = Drop(s, Lonely(s) \cap SlotsOf(p))
<1> DEFINE F == [i \in Slots |-> DropIsolated(p, i)]
           g == [D \in SUBSET Slots |-> Drop(s, Lonely(s) \cap ({p} \X D))]
<1>1. NumPenguins \in Nat /\ Slots = 1..NumPenguins /\ DOMAIN SlotOrder = 1..NumPenguins
      /\ \A i \in Slots : SlotOrder[i] = i
  BY BrowserAssumption DEF Slots, SlotOrder
<1>2. ASSUME NEW D \in SUBSET Slots, D # {}
      PROVE  g[D] = F[SlotOrder[Max(D)]][g[D \ {Max(D)}]]
  <2> DEFINE m == Max(D)
             T == Lonely(s) \cap ({p} \X (D \ {m}))
  <2>1. m \in D /\ m \in Slots /\ SlotOrder[m] = m
    BY <1>1, <1>2, MaxExists
  <2>2. T \in SUBSET (Players \X Slots)
    BY DEF Lonely
  <2>3. g[D \ {m}] = Drop(s, T) /\ F[m] = DropIsolated(p, m)
    BY <2>1
  <2> HIDE DEF m
  <2>4. DropIsolated(p, m)[Drop(s, T)] = Drop(Drop(s, T), (Lonely(s) \ T) \cap {<<p, m>>})
    BY <2>1, <2>2, DropFits, DropLonely, DropIsolatedDrops
  <2>5. Drop(Drop(s, T), (Lonely(s) \ T) \cap {<<p, m>>})
        = Drop(s, T \cup ((Lonely(s) \ T) \cap {<<p, m>>}))
    <3>1. s \in GameState /\ (Lonely(s) \ T) \cap {<<p, m>>} \in SUBSET (Players \X Slots)
      BY DEF Fits, Lonely
    <3> HIDE DEF T
    <3> QED
      BY <2>2, <3>1, DropTwice
  <2>6. T \cup ((Lonely(s) \ T) \cap {<<p, m>>}) = Lonely(s) \cap ({p} \X D)
    BY <2>1
  <2>7. g[D] = Drop(s, Lonely(s) \cap ({p} \X D))
    OBVIOUS
  <2> HIDE DEF T, g, F
  <2>8. F[SlotOrder[m]][g[D \ {m}]] = g[D]
    BY <2>1, <2>3, <2>4, <2>5, <2>6, <2>7
  <2> QED
    BY <2>8 DEF m
<1>3. g[{}] = s
  <2>1. Lonely(s) \cap ({p} \X {}) = {}
    OBVIOUS
  <2> QED
    BY <2>1, DropNone DEF Fits
<1>4. LoopOf(g, F, s, SlotOrder)
  <2>1. g = [D \in SUBSET Slots |-> g[D]]
    OBVIOUS
  <2> HIDE DEF g, F
  <2> QED
    BY <1>1, <1>2, <1>3, <2>1 DEF LoopOf
<1>5. g[1..NumPenguins] = Drop(s, Lonely(s) \cap SlotsOf(p))
  BY <1>1 DEF SlotsOf
<1>6. ASSUME NEW h
      PROVE  DropSteps(h, s, p) <=> LoopOf(h, F, s, SlotOrder)
  <2>1. \A D \in SUBSET DOMAIN SlotOrder :
           D # {} => F[SlotOrder[Max(D)]] = DropIsolated(p, SlotOrder[Max(D)])
    <3> SUFFICES ASSUME NEW D \in SUBSET DOMAIN SlotOrder, D # {}
                 PROVE  F[SlotOrder[Max(D)]] = DropIsolated(p, SlotOrder[Max(D)])
      OBVIOUS
    <3>1. SlotOrder[Max(D)] \in Slots
      BY <1>1, MaxExists
    <3> QED
      BY <3>1
  <2> HIDE DEF F
  <2>2. [D \in SUBSET DOMAIN SlotOrder |->
            IF D = {} THEN s ELSE DropIsolated(p, SlotOrder[Max(D)])[h[D \ {Max(D)}]]]
        = [D \in SUBSET DOMAIN SlotOrder |->
            IF D = {} THEN s ELSE F[SlotOrder[Max(D)]][h[D \ {Max(D)}]]]
    BY <2>1
  <2> QED
    BY <2>2 DEF DropSteps, LoopOf
<1> DEFINE iter == CHOOSE h : DropSteps(h, s, p)
<1>7. DropSteps(iter, s, p)
  <2>1. \E h : DropSteps(h, s, p)
    BY <1>4, <1>6
  <2> QED
    BY <2>1
<1>8. FoldLeft(LAMBDA u, i : DropIsolated(p, i)[u], s, SlotOrder) = iter[1..NumPenguins]
  BY <1>1 DEF FoldLeft, MapThenFoldSet, DropSteps
<1> HIDE DEF iter, g, F
<1>9. iter[1..NumPenguins] = g[1..NumPenguins]
  BY <1>1, <1>4, <1>6, <1>7, LoopsAreUnique
<1> QED
  BY <1>5, <1>8, <1>9

\* The players of P are out.
Out(s, P) ==
    [s EXCEPT !.players = [p \in Players |->
                 [s.players[p] EXCEPT !.stuck = (s.players[p].stuck \/ p \in P)]]]

\* The parts of that state.
LEMMA OutParts ==
    ASSUME NEW s \in GameState, NEW P \in SUBSET Players
    PROVE  /\ Out(s, P) \in GameState /\ Out(s, P).tiles = s.tiles
           /\ \A p \in Players :
                 /\ Out(s, P).players[p].score = s.players[p].score
                 /\ Out(s, P).players[p].stuck = (s.players[p].stuck \/ p \in P)
                 /\ \A i \in Slots : At(Out(s, P), p, i) = At(s, p, i)
           /\ Out(s, P).phase = s.phase /\ Out(s, P).turn = s.turn
           /\ Out(s, P).winner = s.winner /\ Out(s, P).ply = s.ply
<1> DEFINE players == [p \in Players |->
                          [s.players[p] EXCEPT !.stuck = (s.players[p].stuck \/ p \in P)]]
<1>1. ASSUME NEW p \in Players
      PROVE  /\ players[p] \in PlayerType /\ players[p].score = s.players[p].score
             /\ players[p].stuck = (s.players[p].stuck \/ p \in P)
             /\ players[p].penguins = s.players[p].penguins
  <2>1. s.players[p] \in PlayerType /\ (s.players[p].stuck \/ p \in P) \in BOOLEAN
    BY StateTypes
  <2>2. players[p] = [s.players[p] EXCEPT !.stuck = (s.players[p].stuck \/ p \in P)]
    OBVIOUS
  <2> HIDE DEF players
  <2> QED
    BY <2>1, <2>2 DEF PlayerType
<1>2. players \in [Players -> PlayerType]
  BY <1>1
<1>3. Out(s, P) = [s EXCEPT !.players = players]
  BY DEF Out
<1> HIDE DEF players
<1>4. /\ Out(s, P).tiles = s.tiles /\ Out(s, P).players = players
      /\ Out(s, P).phase = s.phase /\ Out(s, P).turn = s.turn
      /\ Out(s, P).winner = s.winner /\ Out(s, P).ply = s.ply
      /\ Out(s, P) \in GameState
  BY <1>2, <1>3 DEF GameState, PlayerType
<1>5. \A p \in Players, i \in Slots : At(Out(s, P), p, i) = At(s, p, i)
  BY <1>1, <1>4 DEF At
<1> QED
  BY <1>1, <1>4, <1>5

\* The same of one player, and of one slot.
LEMMA OutPlayer ==
    ASSUME NEW s \in GameState, NEW P \in SUBSET Players, NEW p \in Players
    PROVE  /\ Out(s, P).players[p].score = s.players[p].score
           /\ Out(s, P).players[p].stuck = (s.players[p].stuck \/ p \in P)
BY OutParts

\* A slot after some players are out.
LEMMA OutSlot ==
    ASSUME NEW s \in GameState, NEW P \in SUBSET Players, NEW p \in Players, NEW i \in Slots
    PROVE  At(Out(s, P), p, i) = At(s, p, i)
BY OutParts

\* Nobody is out by it.
LEMMA OutNone ==
    ASSUME NEW s \in GameState
    PROVE  Out(s, {}) = s
<1> DEFINE P == {}
<1>1. P \in SUBSET Players /\ \A p : p \notin P
  OBVIOUS
<1> HIDE DEF P
<1>2. Out(s, P) \in GameState /\ Out(s, P).tiles = s.tiles
      /\ Out(s, P).phase = s.phase /\ Out(s, P).turn = s.turn
      /\ Out(s, P).winner = s.winner /\ Out(s, P).ply = s.ply
  BY <1>1, OutParts
<1>3. ASSUME NEW p \in Players
      PROVE  /\ Out(s, P).players[p].score = s.players[p].score
             /\ Out(s, P).players[p].stuck = s.players[p].stuck
             /\ \A i \in Slots : At(Out(s, P), p, i) = At(s, p, i)
  <2>1. s.players[p].stuck \in BOOLEAN
    BY StateParts
  <2> QED
    BY <1>1, <2>1, OutPlayer, OutSlot
<1>4. Out(s, P) = s
  BY <1>2, <1>3, SameState
<1> QED
  BY <1>4 DEF P

\* How the code puts one player out.
LEMMA OutOne ==
    ASSUME NEW s \in GameState, NEW p \in Players
    PROVE  Out(s, {p}) = [s EXCEPT !.players[p].stuck = TRUE]
<1> DEFINE t == [s EXCEPT !.players[p].stuck = TRUE]
           player == [s.players[p] EXCEPT !.stuck = TRUE]
<1>1. /\ player \in PlayerType /\ player.score = s.players[p].score
      /\ player.stuck = TRUE /\ player.penguins = s.players[p].penguins
  <2>1. s.players[p] \in PlayerType
    BY StateTypes
  <2> QED
    BY <2>1 DEF PlayerType
<1>2. t = [s EXCEPT !.players = [s.players EXCEPT ![p] = player]]
  OBVIOUS
<1> HIDE DEF player, t
<1>3. [s.players EXCEPT ![p] = player] \in [Players -> PlayerType]
  BY <1>1, StateTypes
<1>4. /\ t \in GameState /\ t.tiles = s.tiles /\ t.players = [s.players EXCEPT ![p] = player]
      /\ t.phase = s.phase /\ t.turn = s.turn /\ t.winner = s.winner /\ t.ply = s.ply
  BY <1>2, <1>3 DEF GameState, PlayerType
<1>5. ASSUME NEW q \in Players
      PROVE  /\ t.players[q].score = Out(s, {p}).players[q].score
             /\ t.players[q].stuck = Out(s, {p}).players[q].stuck
             /\ \A i \in Slots : At(t, q, i) = At(Out(s, {p}), q, i)
  <2>1. t.players[q] = IF q = p THEN player ELSE s.players[q]
    BY <1>4, StateTypes
  <2>2. /\ Out(s, {p}).players[q].score = s.players[q].score
        /\ Out(s, {p}).players[q].stuck = (s.players[q].stuck \/ q = p)
        /\ \A i \in Slots : At(Out(s, {p}), q, i) = At(s, q, i)
    BY OutPlayer, OutSlot
  <2>3. s.players[q].stuck \in BOOLEAN
    BY StateParts
  <2> QED
    BY <1>1, <2>1, <2>2, <2>3 DEF At
<1>6. /\ Out(s, {p}) \in GameState /\ Out(s, {p}).tiles = s.tiles
      /\ Out(s, {p}).phase = s.phase /\ Out(s, {p}).turn = s.turn
      /\ Out(s, {p}).winner = s.winner /\ Out(s, {p}).ply = s.ply
  BY OutParts
<1>7. Out(s, {p}) = t
  BY <1>4, <1>5, <1>6, SameState, ZenonT(60)
<1> QED
  BY <1>7 DEF t

\* One after the other.
LEMMA OutTwice ==
    ASSUME NEW s \in GameState, NEW P \in SUBSET Players, NEW Q \in SUBSET Players
    PROVE  Out(Out(s, P), Q) = Out(s, P \cup Q)
<1> DEFINE t == Out(s, P)
           u == Out(t, Q)
           v == Out(s, P \cup Q)
<1>1. P \cup Q \in SUBSET Players /\ t \in GameState
  BY OutParts
<1>2. /\ u \in GameState /\ v \in GameState /\ u.tiles = v.tiles
      /\ u.phase = v.phase /\ u.turn = v.turn /\ u.winner = v.winner /\ u.ply = v.ply
  BY <1>1, OutParts
<1>3. ASSUME NEW p \in Players
      PROVE  /\ u.players[p].score = v.players[p].score
             /\ u.players[p].stuck = v.players[p].stuck
             /\ \A i \in Slots : At(u, p, i) = At(v, p, i)
  <2>1. /\ t.players[p].score = s.players[p].score
        /\ t.players[p].stuck = (s.players[p].stuck \/ p \in P)
        /\ \A i \in Slots : At(t, p, i) = At(s, p, i)
    BY OutPlayer, OutSlot
  <2>2. /\ u.players[p].score = t.players[p].score
        /\ u.players[p].stuck = (t.players[p].stuck \/ p \in Q)
        /\ \A i \in Slots : At(u, p, i) = At(t, p, i)
    BY <1>1, OutPlayer, OutSlot
  <2>3. /\ v.players[p].score = s.players[p].score
        /\ v.players[p].stuck = (s.players[p].stuck \/ p \in P \cup Q)
        /\ \A i \in Slots : At(v, p, i) = At(s, p, i)
    BY <1>1, OutPlayer, OutSlot
  <2> HIDE DEF t, u, v
  <2> QED
    BY <2>1, <2>2, <2>3
<1> HIDE DEF t, u, v
<1>4. u = v
  BY <1>2, <1>3, SameState
<1> QED
  BY <1>4 DEF t, u, v

\* Dropping penguins and putting players out do not interfere.
LEMMA OutThenDrop ==
    ASSUME NEW s \in GameState, NEW P \in SUBSET Players,
           NEW T \in SUBSET (Players \X Slots)
    PROVE  Drop(Out(s, P), T) = Out(Drop(s, T), P)
<1> DEFINE t == Out(s, P)
           d == Drop(s, T)
           u == Drop(t, T)
           v == Out(d, P)
<1>1. t \in GameState /\ d \in GameState /\ t.tiles = s.tiles
  BY OutParts, DropParts
<1>2. u \in GameState /\ v \in GameState /\ v.tiles = d.tiles
  BY <1>1, OutParts, DropParts
<1>3. u.phase = v.phase /\ u.turn = v.turn /\ u.winner = v.winner /\ u.ply = v.ply
  <2>1. t.phase = s.phase /\ t.turn = s.turn /\ t.winner = s.winner /\ t.ply = s.ply
    BY OutParts
  <2>2. d.phase = s.phase /\ d.turn = s.turn /\ d.winner = s.winner /\ d.ply = s.ply
    BY DropParts
  <2>3. u.phase = t.phase /\ u.turn = t.turn /\ u.winner = t.winner /\ u.ply = t.ply
    BY <1>1, DropParts
  <2>4. v.phase = d.phase /\ v.turn = d.turn /\ v.winner = d.winner /\ v.ply = d.ply
    BY <1>1, OutParts
  <2> HIDE DEF t, d, u, v
  <2> QED
    BY <2>1, <2>2, <2>3, <2>4
<1>4. Ice(t, T) = Ice(s, T)
  <2>1. \A x \in T : At(t, x[1], x[2]) = At(s, x[1], x[2])
    <3> TAKE x \in T
    <3>1. x[1] \in Players /\ x[2] \in Slots
      OBVIOUS
    <3> QED
      BY <3>1, OutSlot
  <2> HIDE DEF t
  <2> QED
    BY <2>1 DEF Ice
<1>5. ASSUME NEW c \in Cells
      PROVE  /\ u.tiles[c].fish = v.tiles[c].fish
             /\ u.tiles[c].gone = v.tiles[c].gone
             /\ u.tiles[c].owner = v.tiles[c].owner
  <2>1. /\ u.tiles[c].fish = t.tiles[c].fish
        /\ u.tiles[c].gone = (t.tiles[c].gone \/ c \in Ice(t, T))
        /\ u.tiles[c].owner = IF c \in Ice(t, T) THEN None ELSE t.tiles[c].owner
    BY <1>1, DropTile
  <2>2. /\ d.tiles[c].fish = s.tiles[c].fish
        /\ d.tiles[c].gone = (s.tiles[c].gone \/ c \in Ice(s, T))
        /\ d.tiles[c].owner = IF c \in Ice(s, T) THEN None ELSE s.tiles[c].owner
    BY DropTile
  <2> HIDE DEF t, d, u, v
  <2> QED
    BY <1>1, <1>2, <1>4, <2>1, <2>2
<1>6. ASSUME NEW p \in Players
      PROVE  /\ u.players[p].score = v.players[p].score
             /\ u.players[p].stuck = v.players[p].stuck
             /\ \A i \in Slots : At(u, p, i) = At(v, p, i)
  <2>1. /\ t.players[p].score = s.players[p].score
        /\ t.players[p].stuck = (s.players[p].stuck \/ p \in P)
        /\ \A i \in Slots : At(t, p, i) = At(s, p, i)
    BY OutPlayer, OutSlot
  <2>2. /\ u.players[p].score = t.players[p].score /\ u.players[p].stuck = t.players[p].stuck
        /\ \A i \in Slots : At(u, p, i) = IF <<p, i>> \in T THEN NoTile ELSE At(t, p, i)
    BY <1>1, DropParts, DropSlot
  <2>3. /\ d.players[p].score = s.players[p].score /\ d.players[p].stuck = s.players[p].stuck
        /\ \A i \in Slots : At(d, p, i) = IF <<p, i>> \in T THEN NoTile ELSE At(s, p, i)
    BY DropParts, DropSlot
  <2>4. /\ v.players[p].score = d.players[p].score
        /\ v.players[p].stuck = (d.players[p].stuck \/ p \in P)
        /\ \A i \in Slots : At(v, p, i) = At(d, p, i)
    BY <1>1, OutPlayer, OutSlot
  <2> HIDE DEF t, d, u, v
  <2> QED
    BY <2>1, <2>2, <2>3, <2>4
<1> HIDE DEF t, d, u, v
<1>7. u = v
  BY <1>2, <1>3, <1>5, <1>6, SameState
<1> QED
  BY <1>7 DEF t, d, u, v

\* Who is out says nothing about the board.
LEMMA OutFits ==
    ASSUME NEW s, Fits(s), NEW P \in SUBSET Players
    PROVE  Fits(Out(s, P)) /\ Lonely(Out(s, P)) = Lonely(s)
<1> DEFINE t == Out(s, P)
<1>1. s \in GameState /\ t \in GameState /\ t.tiles = s.tiles
  BY OutParts DEF Fits
<1>2. \A p \in Players, i \in Slots : At(t, p, i) = At(s, p, i)
  BY <1>1, OutSlot
<1>3. \A n : Open(t, n) <=> Open(s, n)
  BY <1>1 DEF Open
<1> HIDE DEF t
<1>4. Fits(t)
  BY <1>1, <1>2 DEF Fits
<1>5. ASSUME NEW x \in Players \X Slots
      PROVE  x \in Lonely(t) <=> x \in Lonely(s)
  <2>1. x[1] \in Players /\ x[2] \in Slots
    OBVIOUS
  <2>2. At(t, x[1], x[2]) = At(s, x[1], x[2])
    BY <1>2, <2>1
  <2> QED
    BY <1>3, <2>2 DEF Lonely
<1>6. Lonely(t) = Lonely(s)
  <2>1. \A y : (y \in Lonely(t) => y \in Players \X Slots)
               /\ (y \in Lonely(s) => y \in Players \X Slots)
    BY DEF Lonely
  <2> QED
    BY <1>5, <2>1
<1> QED
  BY <1>4, <1>6 DEF t

\* The players without penguins.
Empty(s) == {p \in Players : \A i \in Slots : At(s, p, i) = NoTile}

\* A round of the outer loop of settleIsolatedPenguins.
LEMMA SettlePlayerDrops ==
    ASSUME NEW s, Fits(s), NEW p \in Players
    PROVE  SettlePlayer(p)[s] = Out(Drop(s, Lonely(s) \cap SlotsOf(p)),
                                    Empty(Drop(s, Lonely(s) \cap SlotsOf(p))) \cap {p})
<1> DEFINE t == Drop(s, Lonely(s) \cap SlotsOf(p))
<1>1. s \in GameState /\ Lonely(s) \cap SlotsOf(p) \in SUBSET (Players \X Slots)
  BY DEF Fits, Lonely
<1>2. t \in GameState
  BY <1>1, DropParts
<1>3. SettlePlayer(p)[s] = IF \A i \in Slots : t.players[p].penguins[i] = NoTile
                           THEN [t EXCEPT !.players[p].stuck = TRUE] ELSE t
  BY <1>1, DropLoop DEF SettlePlayer
<1> HIDE DEF t
<1>4. CASE p \in Empty(t)
  <2>1. Empty(t) \cap {p} = {p}
    BY <1>4
  <2> QED
    BY <1>2, <1>3, <1>4, <2>1, OutOne DEF Empty, At, t
<1>5. CASE p \notin Empty(t)
  <2>1. Empty(t) \cap {p} = {}
    BY <1>5
  <2> QED
    BY <1>2, <1>3, <1>5, <2>1, OutNone DEF Empty, At, t
<1> QED
  BY <1>4, <1>5

\* The state in which the isolated penguins have left.
Settled(s) == Drop(s, Lonely(s))

\* Both rounds.
LEMMA SettleBoth ==
    ASSUME NEW s, Fits(s)
    PROVE  SettlePlayer(1)[SettlePlayer(0)[s]] = Out(Settled(s), Empty(Settled(s)))
<1> DEFINE T0 == Lonely(s) \cap SlotsOf(0)
           T1 == Lonely(s) \cap SlotsOf(1)
           d0 == Drop(s, T0)
           e0 == Empty(d0) \cap {0}
           t0 == Out(d0, e0)
           d1 == Drop(t0, T1)
           e1 == Empty(d1) \cap {1}
<1>1. /\ s \in GameState /\ 0 \in Players /\ 1 \in Players
      /\ T0 \in SUBSET (Players \X Slots) /\ T1 \in SUBSET (Players \X Slots)
      /\ e0 \in SUBSET Players /\ e1 \in SUBSET Players
  BY DEF Fits, Lonely, Players
<1>2. Lonely(s) = T0 \cup T1 /\ (Lonely(s) \ T0) \cap SlotsOf(1) = T1
  BY DEF Lonely, Players, SlotsOf
<1>3. SettlePlayer(0)[s] = t0
  BY <1>1, SettlePlayerDrops
<1> HIDE DEF T0, T1
<1>4. Fits(d0) /\ d0 \in GameState /\ Lonely(d0) = Lonely(s) \ T0
  BY <1>1, DropFits, DropLonely DEF Fits
<1> HIDE DEF d0
<1>5. Fits(t0) /\ t0 \in GameState /\ Lonely(t0) = Lonely(s) \ T0
  <2> HIDE DEF e0
  <2>1. Fits(Out(d0, e0)) /\ Lonely(Out(d0, e0)) = Lonely(d0)
    BY <1>1, <1>4, OutFits
  <2> QED
    BY <1>4, <2>1 DEF Fits
<1> HIDE DEF t0
<1>6. SettlePlayer(1)[t0] = Out(d1, e1)
  BY <1>1, <1>2, <1>5, SettlePlayerDrops
<1>7. d1 = Out(Settled(s), e0)
  <2>1. d1 = Out(Drop(d0, T1), e0)
    BY <1>1, <1>4, OutThenDrop DEF t0
  <2>2. Drop(d0, T1) = Drop(s, T0 \cup T1)
    BY <1>1, DropTwice DEF d0
  <2> QED
    BY <1>2, <2>1, <2>2 DEF Settled
<1>8. Settled(s) \in GameState
  BY <1>1, <1>2, DropParts DEF Settled
<1> HIDE DEF e0, e1, d1
<1>9. Out(d1, e1) = Out(Settled(s), e0 \cup e1)
  BY <1>1, <1>7, <1>8, OutTwice
<1>10. Empty(d1) = Empty(Settled(s))
  <2>1. \A p \in Players, i \in Slots : At(d1, p, i) = At(Settled(s), p, i)
    BY <1>1, <1>7, <1>8, OutSlot
  <2> QED
    BY <2>1 DEF Empty
<1>11. 0 \in Empty(d0) <=> 0 \in Empty(Settled(s))
  <2>1. ASSUME NEW i \in Slots
        PROVE  At(d0, 0, i) = At(Settled(s), 0, i)
    <3>1. At(d0, 0, i) = IF <<0, i>> \in T0 THEN NoTile ELSE At(s, 0, i)
      BY <1>1, DropSlot DEF d0
    <3>2. At(Settled(s), 0, i) = IF <<0, i>> \in Lonely(s) THEN NoTile ELSE At(s, 0, i)
      BY <1>1, <1>2, DropSlot DEF Settled
    <3>3. <<0, i>> \in T0 <=> <<0, i>> \in Lonely(s)
      BY DEF T0, SlotsOf
    <3> QED
      BY <3>1, <3>2, <3>3
  <2> QED
    BY <1>1, <2>1 DEF Empty
<1>12. e0 \cup e1 = Empty(Settled(s))
  BY <1>10, <1>11 DEF e0, e1, Empty, Players
<1> QED
  BY <1>3, <1>6, <1>9, <1>12

\* The recursive function of the outer loop.
SettleSteps(h, s) ==
    h = [D \in SUBSET DOMAIN PlayerOrder |->
            IF D = {} THEN s ELSE SettlePlayer(PlayerOrder[Max(D)])[h[D \ {Max(D)}]]]

\* settleIsolatedPenguins.
LEMMA SettleIs ==
    ASSUME NEW s, Fits(s)
    PROVE  settleIsolatedPenguins[s] = Out(Settled(s), Empty(Settled(s)))
<1> DEFINE F == [p \in Players |-> SettlePlayer(p)]
           g == [D \in SUBSET {1, 2} |->
                    IF D = {} THEN s
                    ELSE IF D = {1} THEN SettlePlayer(0)[s]
                    ELSE IF D = {2} THEN SettlePlayer(1)[s]
                    ELSE SettlePlayer(1)[SettlePlayer(0)[s]]]
<1>1. /\ DOMAIN PlayerOrder = 1..2 /\ 1..2 = {1, 2} /\ 2 \in Nat
      /\ PlayerOrder[1] = 0 /\ PlayerOrder[2] = 1
  BY DEF PlayerOrder
<1>2. /\ Max({1}) = 1 /\ Max({2}) = 2 /\ Max({1, 2}) = 2
      /\ {1} \ {1} = {} /\ {2} \ {2} = {} /\ {1, 2} \ {2} = {1}
  <2>1. Max({1}) = 1 /\ Max({2}) = 2
    BY DEF Max
  <2>2. {1, 2} \in SUBSET (1..2) /\ {1, 2} # {}
    OBVIOUS
  <2>3. Max({1, 2}) \in {1, 2} /\ \A y \in {1, 2} : Max({1, 2}) >= y
    <3> DEFINE D == {1, 2}
    <3>1. D \in SUBSET (1..2) /\ D # {}
      BY <2>2
    <3> HIDE DEF D
    <3>2. Max(D) \in D /\ \A y \in D : Max(D) >= y
      BY <3>1, MaxExists
    <3> QED
      BY <3>2 DEF D
  <2> QED
    BY <2>1, <2>3
<1>3. ASSUME NEW D \in SUBSET {1, 2}
      PROVE  D = {} \/ D = {1} \/ D = {2} \/ D = {1, 2}
  OBVIOUS
<1>4. ASSUME NEW D \in SUBSET {1, 2}
      PROVE  g[D] = IF D = {} THEN s ELSE F[PlayerOrder[Max(D)]][g[D \ {Max(D)}]]
  <2>1. F[0] = SettlePlayer(0) /\ F[1] = SettlePlayer(1)
    BY DEF Players
  <2>2. /\ g[{}] = s /\ g[{1}] = SettlePlayer(0)[s] /\ g[{2}] = SettlePlayer(1)[s]
        /\ g[{1, 2}] = SettlePlayer(1)[SettlePlayer(0)[s]]
    <3>1. {1} # {} /\ {2} # {} /\ {1, 2} # {} /\ {2} # {1} /\ {1, 2} # {1} /\ {1, 2} # {2}
      OBVIOUS
    <3> QED
      BY <3>1
  <2> HIDE DEF F, g
  <2>3. CASE D = {}
    BY <2>2, <2>3
  <2>4. CASE D = {1}
    <3>1. D # {} /\ Max(D) = 1 /\ D \ {Max(D)} = {}
      BY <1>2, <2>4
    <3> QED
      BY <1>1, <2>1, <2>2, <2>4, <3>1
  <2>5. CASE D = {2}
    <3>1. D # {} /\ Max(D) = 2 /\ D \ {Max(D)} = {}
      BY <1>2, <2>5
    <3> QED
      BY <1>1, <2>1, <2>2, <2>5, <3>1
  <2>6. CASE D = {1, 2}
    <3>1. D # {} /\ Max(D) = 2 /\ D \ {Max(D)} = {1}
      BY <1>2, <2>6
    <3> QED
      BY <1>1, <2>1, <2>2, <2>6, <3>1
  <2> QED
    BY <1>3, <2>3, <2>4, <2>5, <2>6
<1>5. g[{1, 2}] = SettlePlayer(1)[SettlePlayer(0)[s]]
  OBVIOUS
<1>6. LoopOf(g, F, s, PlayerOrder)
  <2>1. g = [D \in SUBSET {1, 2} |-> g[D]]
    OBVIOUS
  <2> HIDE DEF g, F
  <2>2. g = [D \in SUBSET {1, 2} |->
                IF D = {} THEN s ELSE F[PlayerOrder[Max(D)]][g[D \ {Max(D)}]]]
    BY <1>4, <2>1
  <2> QED
    BY <1>1, <2>2 DEF LoopOf
<1>7. ASSUME NEW h
      PROVE  SettleSteps(h, s) <=> LoopOf(h, F, s, PlayerOrder)
  <2>1. \A D \in SUBSET DOMAIN PlayerOrder :
           D # {} => F[PlayerOrder[Max(D)]] = SettlePlayer(PlayerOrder[Max(D)])
    <3> SUFFICES ASSUME NEW D \in SUBSET DOMAIN PlayerOrder, D # {}
                 PROVE  F[PlayerOrder[Max(D)]] = SettlePlayer(PlayerOrder[Max(D)])
      OBVIOUS
    <3>1. Max(D) \in 1..2
      BY <1>1, MaxExists
    <3>2. PlayerOrder[Max(D)] \in Players
      BY <1>1, <3>1 DEF Players
    <3> QED
      BY <3>2
  <2> HIDE DEF F
  <2>2. [D \in SUBSET DOMAIN PlayerOrder |->
            IF D = {} THEN s ELSE SettlePlayer(PlayerOrder[Max(D)])[h[D \ {Max(D)}]]]
        = [D \in SUBSET DOMAIN PlayerOrder |->
            IF D = {} THEN s ELSE F[PlayerOrder[Max(D)]][h[D \ {Max(D)}]]]
    BY <2>1
  <2> QED
    BY <2>2 DEF SettleSteps, LoopOf
<1> DEFINE iter == CHOOSE h : SettleSteps(h, s)
<1>8. SettleSteps(iter, s)
  <2>1. \E h : SettleSteps(h, s)
    BY <1>6, <1>7
  <2> QED
    BY <2>1
<1>9. FoldLeft(LAMBDA t, p : SettlePlayer(p)[t], s, PlayerOrder) = iter[DOMAIN PlayerOrder]
  BY DEF FoldLeft, MapThenFoldSet, SettleSteps
<1>10. settleIsolatedPenguins[s] = FoldLeft(LAMBDA t, p : SettlePlayer(p)[t], s, PlayerOrder)
  BY DEF settleIsolatedPenguins, Fits
<1> HIDE DEF iter, g, F
<1>11. iter[1..2] = g[1..2]
  <2>1. LoopOf(iter, F, s, PlayerOrder)
    BY <1>7, <1>8
  <2>2. \A n \in Nat : DOMAIN PlayerOrder = 1..n => iter[1..n] = g[1..n]
    BY <1>6, <2>1, LoopsAreUnique
  <2>3. 2 \in Nat /\ DOMAIN PlayerOrder = 1..2
    BY DEF PlayerOrder
  <2> QED
    BY <2>2, <2>3, Zenon
<1> QED
  BY <1>1, <1>5, <1>9, <1>10, <1>11, SettleBoth

-----------------------------------------------------------------------------
(* The same on the server. *)

\* The columns of the server's state.
LEMMA AsServerParts ==
    ASSUME NEW s \in GameState
    PROVE  /\ AsServer(s).fish = [c \in Cells |-> s.tiles[c].fish]
           /\ AsServer(s).gone = {c \in Cells : s.tiles[c].gone}
           /\ AsServer(s).owner = {x \in Cells \X Players : s.tiles[x[1]].owner = x[2]}
           /\ AsServer(s).penguins = {x \in Players \X Slots \X Cells : At(s, x[1], x[2]) = x[3]}
           /\ AsServer(s).score = [p \in Players |-> s.players[p].score]
           /\ AsServer(s).stuck = {p \in Players : s.players[p].stuck}
           /\ AsServer(s).phase = s.phase /\ AsServer(s).turn = s.turn
           /\ AsServer(s).winner = s.winner /\ AsServer(s).ply = s.ply
BY DEF AsServer, At

\* Two states of the server are one if their columns are.
LEMMA SameRecord ==
    ASSUME NEW s \in GameState, NEW r \in Server!GameState,
           AsServer(s).fish = r.fish, AsServer(s).gone = r.gone, AsServer(s).owner = r.owner,
           AsServer(s).penguins = r.penguins, AsServer(s).score = r.score,
           AsServer(s).stuck = r.stuck, AsServer(s).phase = r.phase,
           AsServer(s).turn = r.turn, AsServer(s).winner = r.winner, AsServer(s).ply = r.ply
    PROVE  AsServer(s) = r
<1>1. AsServer(s) \in Server!GameState
  BY AsServerType
<1> HIDE DEF AsServer
<1> QED
  BY <1>1 DEF Server!GameState

\* What RemovePenguins leaves is a state of the server.
LEMMA RemovalType ==
    ASSUME NEW r \in Server!GameState, NEW lost
    PROVE  /\ Server!RemovePenguins(r, lost).fish = r.fish
           /\ Server!RemovePenguins(r, lost).gone = r.gone \cup {x[3] : x \in lost}
           /\ Server!RemovePenguins(r, lost).owner
              = {o \in r.owner : o[1] \notin {x[3] : x \in lost}}
           /\ Server!RemovePenguins(r, lost).penguins = r.penguins \ lost
           /\ Server!RemovePenguins(r, lost).score = r.score
           /\ Server!RemovePenguins(r, lost).stuck = r.stuck
           /\ Server!RemovePenguins(r, lost).phase = r.phase
           /\ Server!RemovePenguins(r, lost).turn = r.turn
           /\ Server!RemovePenguins(r, lost).winner = r.winner
           /\ Server!RemovePenguins(r, lost).ply = r.ply
           /\ lost \subseteq r.penguins => Server!RemovePenguins(r, lost) \in Server!GameState
<1> DEFINE ice == {x[3] : x \in lost}
           t == Server!RemovePenguins(r, lost)
<1>1. t = [r EXCEPT !.gone = r.gone \cup ice, !.owner = {o \in r.owner : o[1] \notin ice},
                    !.penguins = r.penguins \ lost]
  BY DEF Server!RemovePenguins
<1>2. ASSUME lost \subseteq r.penguins
      PROVE  ice \subseteq Server!Cells
  BY <1>2 DEF Server!GameState
<1> HIDE DEF ice, t
<1>3. /\ t.fish = r.fish /\ t.gone = r.gone \cup ice
      /\ t.owner = {o \in r.owner : o[1] \notin ice} /\ t.penguins = r.penguins \ lost
      /\ t.score = r.score /\ t.stuck = r.stuck /\ t.phase = r.phase
      /\ t.turn = r.turn /\ t.winner = r.winner /\ t.ply = r.ply
  BY <1>1 DEF Server!GameState
<1>4. ASSUME lost \subseteq r.penguins
      PROVE  t \in Server!GameState
  <2>1. /\ r.gone \cup ice \in SUBSET Server!Cells
        /\ {o \in r.owner : o[1] \notin ice} \in SUBSET (Server!Cells \X Server!Players)
        /\ r.penguins \ lost
              \in SUBSET (Server!Players \X Server!Slots \X Server!Cells)
    BY <1>2, <1>4 DEF Server!GameState
  <2> QED
    BY <1>1, <2>1 DEF Server!GameState
<1> QED
  BY <1>3, <1>4 DEF ice, t

\* Dropping penguins is removing them.
LEMMA DropAgrees ==
    ASSUME NEW s, Fits(s), NEW T \in SUBSET (Players \X Slots)
    PROVE  AsServer(Drop(s, T)) = Server!RemovePenguins(AsServer(s),
               {x \in AsServer(s).penguins : <<x[1], x[2]>> \in T})
<1> DEFINE A == AsServer(s)
           t == Drop(s, T)
           B == AsServer(t)
           lost == {x \in A.penguins : <<x[1], x[2]>> \in T}
           r == Server!RemovePenguins(A, lost)
           ice == {x[3] : x \in lost}
<1>1. s \in GameState /\ t \in GameState /\ A \in Server!GameState
  BY DropParts, AsServerType DEF Fits
<1>2. /\ A.fish = [c \in Cells |-> s.tiles[c].fish]
      /\ A.gone = {c \in Cells : s.tiles[c].gone}
      /\ A.owner = {x \in Cells \X Players : s.tiles[x[1]].owner = x[2]}
      /\ A.penguins = {x \in Players \X Slots \X Cells : At(s, x[1], x[2]) = x[3]}
      /\ A.score = [p \in Players |-> s.players[p].score]
      /\ A.stuck = {p \in Players : s.players[p].stuck}
      /\ A.phase = s.phase /\ A.turn = s.turn /\ A.winner = s.winner /\ A.ply = s.ply
  BY <1>1, AsServerParts
<1>3. /\ B.fish = [c \in Cells |-> t.tiles[c].fish]
      /\ B.gone = {c \in Cells : t.tiles[c].gone}
      /\ B.owner = {x \in Cells \X Players : t.tiles[x[1]].owner = x[2]}
      /\ B.penguins = {x \in Players \X Slots \X Cells : At(t, x[1], x[2]) = x[3]}
      /\ B.score = [p \in Players |-> t.players[p].score]
      /\ B.stuck = {p \in Players : t.players[p].stuck}
      /\ B.phase = t.phase /\ B.turn = t.turn /\ B.winner = t.winner /\ B.ply = t.ply
  BY <1>1, AsServerParts
<1> HIDE DEF A, B
<1>4. ASSUME NEW c \in Cells
      PROVE  c \in Ice(s, T) <=> c \in ice
  <2>1. ASSUME c \in Ice(s, T)
        PROVE  c \in ice
    <3>1. PICK y \in T : c = At(s, y[1], y[2])
      BY <2>1 DEF Ice
    <3>2. y[1] \in Players /\ y[2] \in Slots /\ y = <<y[1], y[2]>>
      OBVIOUS
    <3> DEFINE x == <<y[1], y[2], c>>
    <3>3. x \in A.penguins /\ <<x[1], x[2]>> \in T /\ x[3] = c
      BY <1>2, <3>1, <3>2
    <3> QED
      BY <3>3
  <2>2. ASSUME c \in ice
        PROVE  c \in Ice(s, T)
    <3>1. PICK x \in lost : x[3] = c
      BY <2>2
    <3>2. x \in Players \X Slots \X Cells /\ At(s, x[1], x[2]) = c /\ <<x[1], x[2]>> \in T
      BY <1>2, <3>1
    <3> DEFINE y == <<x[1], x[2]>>
    <3>3. y \in T /\ At(s, y[1], y[2]) = c
      BY <3>2
    <3> QED
      BY <3>3 DEF Ice
  <2> QED
    BY <2>1, <2>2
<1>5. /\ r \in Server!GameState /\ r.fish = A.fish /\ r.gone = A.gone \cup ice
      /\ r.owner = {o \in A.owner : o[1] \notin ice} /\ r.penguins = A.penguins \ lost
      /\ r.score = A.score /\ r.stuck = A.stuck /\ r.phase = A.phase
      /\ r.turn = A.turn /\ r.winner = A.winner /\ r.ply = A.ply
  <2>1. lost \subseteq A.penguins
    OBVIOUS
  <2> HIDE DEF lost
  <2> QED
    BY <1>1, <2>1, RemovalType
<1>6. B.fish = r.fish
  <2>1. \A c \in Cells : t.tiles[c].fish = s.tiles[c].fish
    BY <1>1, DropTile
  <2> HIDE DEF t, r
  <2> QED
    BY <1>2, <1>3, <1>5, <2>1
<1>7. B.gone = r.gone
  <2>1. \A c \in Cells : t.tiles[c].gone = (s.tiles[c].gone \/ c \in Ice(s, T))
    BY <1>1, DropTile
  <2>2. ice \subseteq Cells
    BY <1>2
  <2> HIDE DEF t, r, ice
  <2> QED
    BY <1>2, <1>3, <1>4, <1>5, <2>1, <2>2
<1>8. B.owner = r.owner
  <2>1. \A c \in Cells : t.tiles[c].owner = IF c \in Ice(s, T) THEN None ELSE s.tiles[c].owner
    BY <1>1, DropTile
  <2>2. \A p \in Players : p # None
    BY DEF Players, None
  <2> HIDE DEF t, r, ice
  <2>3. ASSUME NEW x \in Cells \X Players
        PROVE  t.tiles[x[1]].owner = x[2] <=> s.tiles[x[1]].owner = x[2] /\ x[1] \notin ice
    BY <1>4, <2>1, <2>2
  <2> QED
    BY <1>2, <1>3, <1>5, <2>3
<1>9. B.penguins = r.penguins
  <2>1. ASSUME NEW x \in Players \X Slots \X Cells
        PROVE  At(t, x[1], x[2]) = x[3] <=>
                  At(s, x[1], x[2]) = x[3] /\ <<x[1], x[2]>> \notin T
    <3>1. x[1] \in Players /\ x[2] \in Slots /\ x[3] # NoTile
      BY CellsArePairs
    <3>2. At(t, x[1], x[2]) = IF <<x[1], x[2]>> \in T THEN NoTile ELSE At(s, x[1], x[2])
      BY <1>1, <3>1, DropSlot
    <3> QED
      BY <3>1, <3>2
  <2>2. lost = {x \in Players \X Slots \X Cells :
                   At(s, x[1], x[2]) = x[3] /\ <<x[1], x[2]>> \in T}
    BY <1>2
  <2> HIDE DEF t, r, lost
  <2> QED
    BY <1>2, <1>3, <1>5, <2>1, <2>2
<1>10. B.score = r.score /\ B.stuck = r.stuck
  <2>1. \A p \in Players : /\ t.players[p].score = s.players[p].score
                           /\ t.players[p].stuck = s.players[p].stuck
    BY <1>1, DropParts
  <2> HIDE DEF t, r
  <2> QED
    BY <1>2, <1>3, <1>5, <2>1
<1>11. B.phase = r.phase /\ B.turn = r.turn /\ B.winner = r.winner /\ B.ply = r.ply
  <2>1. t.phase = s.phase /\ t.turn = s.turn /\ t.winner = s.winner /\ t.ply = s.ply
    BY <1>1, DropParts
  <2> HIDE DEF t, r
  <2> QED
    BY <1>2, <1>3, <1>5, <2>1
<1> HIDE DEF t, r
<1>12. B = r
  BY <1>1, <1>5, <1>6, <1>7, <1>8, <1>9, <1>10, <1>11, SameRecord DEF B
<1> QED
  BY <1>12 DEF A, B, r, t

\* Putting players out.
LEMMA OutAgrees ==
    ASSUME NEW s \in GameState, NEW P \in SUBSET Players
    PROVE  AsServer(Out(s, P)) = [AsServer(s) EXCEPT !.stuck = AsServer(s).stuck \cup P]
<1> DEFINE A == AsServer(s)
           t == Out(s, P)
           B == AsServer(t)
           r == [A EXCEPT !.stuck = A.stuck \cup P]
<1>1. t \in GameState /\ A \in Server!GameState /\ t.tiles = s.tiles
  BY OutParts, AsServerType
<1>2. A.stuck = {p \in Players : s.players[p].stuck}
      /\ A.score = [p \in Players |-> s.players[p].score]
      /\ A.penguins = {x \in Players \X Slots \X Cells : At(s, x[1], x[2]) = x[3]}
      /\ A.phase = s.phase /\ A.turn = s.turn /\ A.winner = s.winner /\ A.ply = s.ply
  BY AsServerParts
<1>3. B.stuck = {p \in Players : t.players[p].stuck}
      /\ B.score = [p \in Players |-> t.players[p].score]
      /\ B.penguins = {x \in Players \X Slots \X Cells : At(t, x[1], x[2]) = x[3]}
      /\ B.phase = t.phase /\ B.turn = t.turn /\ B.winner = t.winner /\ B.ply = t.ply
  BY <1>1, AsServerParts
<1>4. B.fish = A.fish /\ B.gone = A.gone /\ B.owner = A.owner
  <2>1. /\ A.fish = [c \in Cells |-> s.tiles[c].fish]
        /\ A.gone = {c \in Cells : s.tiles[c].gone}
        /\ A.owner = {x \in Cells \X Players : s.tiles[x[1]].owner = x[2]}
    BY AsServerParts
  <2>2. /\ B.fish = [c \in Cells |-> t.tiles[c].fish]
        /\ B.gone = {c \in Cells : t.tiles[c].gone}
        /\ B.owner = {x \in Cells \X Players : t.tiles[x[1]].owner = x[2]}
    BY <1>1, AsServerParts
  <2> HIDE DEF A, B, t
  <2> QED
    BY <1>1, <2>1, <2>2
<1> HIDE DEF A, B
<1>5. /\ r \in Server!GameState /\ r.fish = A.fish /\ r.gone = A.gone
      /\ r.owner = A.owner /\ r.penguins = A.penguins
      /\ r.score = A.score /\ r.stuck = A.stuck \cup P /\ r.phase = A.phase
      /\ r.turn = A.turn /\ r.winner = A.winner /\ r.ply = A.ply
  <2>1. A.stuck \cup P \in SUBSET Server!Players
    BY <1>1, SameBoard DEF Server!GameState
  <2> QED
    BY <1>1, <2>1 DEF Server!GameState
<1>6. B.penguins = r.penguins
  <2>1. ASSUME NEW x \in Players \X Slots \X Cells
        PROVE  At(t, x[1], x[2]) = At(s, x[1], x[2])
    <3>1. x[1] \in Players /\ x[2] \in Slots
      OBVIOUS
    <3> QED
      BY <3>1, OutSlot
  <2> HIDE DEF t, r
  <2> QED
    BY <1>2, <1>3, <1>5, <2>1
<1>7. B.score = r.score /\ B.stuck = r.stuck
  <2>1. \A p \in Players : /\ t.players[p].score = s.players[p].score
                           /\ t.players[p].stuck = (s.players[p].stuck \/ p \in P)
    BY OutPlayer
  <2> HIDE DEF t, r
  <2>2. B.score = r.score
    BY <1>2, <1>3, <1>5, <2>1
  <2>3. B.stuck = A.stuck \cup P
    BY <1>2, <1>3, <2>1
  <2> QED
    BY <1>5, <2>2, <2>3
<1>8. B.phase = r.phase /\ B.turn = r.turn /\ B.winner = r.winner /\ B.ply = r.ply
  <2>1. t.phase = s.phase /\ t.turn = s.turn /\ t.winner = s.winner /\ t.ply = s.ply
    BY OutParts
  <2> HIDE DEF t, r
  <2> QED
    BY <1>2, <1>3, <1>5, <2>1
<1> HIDE DEF t, r
<1>9. B = r
  BY <1>1, <1>4, <1>5, <1>6, <1>7, <1>8, SameRecord, ZenonT(60) DEF B
<1> QED
  BY <1>9 DEF A, B, r, t

\* The isolated penguins are the same.
LEMMA IsolatedAgree ==
    ASSUME NEW s \in GameState
    PROVE  Server!Isolated(AsServer(s))
           = {x \in AsServer(s).penguins : <<x[1], x[2]>> \in Lonely(s)}
<1>1. AsServer(s).penguins = {x \in Players \X Slots \X Cells : At(s, x[1], x[2]) = x[3]}
  BY AsServerParts
<1>2. ASSUME NEW x \in AsServer(s).penguins
      PROVE  (\A d \in Server!HexDirs : Server!Along(x[3], d, 1) \notin Server!Free(AsServer(s)))
             <=> <<x[1], x[2]>> \in Lonely(s)
  <2>1. x[1] \in Players /\ x[2] \in Slots /\ At(s, x[1], x[2]) = x[3] /\ x[3] # NoTile
        /\ <<x[1], x[2]>> \in Players \X Slots
        /\ <<x[1], x[2]>>[1] = x[1] /\ <<x[1], x[2]>>[2] = x[2]
    BY <1>1, CellsArePairs
  <2>2. <<x[1], x[2]>> \in Lonely(s) <=> ~\E n \in neighbors(x[3]) : Open(s, n)
    BY <2>1 DEF Lonely
  <2>3. (\E n \in neighbors(x[3]) : Open(s, n))
        <=> \E d \in Rules!HexDirs : Open(s, Rules!Along(x[3], d, 1))
    BY DEF neighbors
  <2>4. \A c : Open(s, c) <=> c \in Server!Free(AsServer(s))
    BY OpenIsFree
  <2>5. \A d \in Rules!HexDirs : Server!Along(x[3], d, 1) = Rules!Along(x[3], d, 1)
    BY SameBoard
  <2> QED
    BY <2>2, <2>3, <2>4, <2>5, SameBoard
<1> QED
  BY <1>2 DEF Server!Isolated

\* Who has no penguins.
LEMMA EmptyAgree ==
    ASSUME NEW s \in GameState
    PROVE  Empty(s) = {p \in Server!Players : Server!PenguinsOf(AsServer(s), p) = {}}
<1>1. ASSUME NEW p \in Players
      PROVE  p \in Empty(s) <=> Server!PenguinsOf(AsServer(s), p) = {}
  <2> DEFINE all == {<<p, i, At(s, p, i)>> : i \in {j \in Slots : At(s, p, j) # NoTile}}
  <2>1. Server!PenguinsOf(AsServer(s), p) = all
    BY PenguinsAgree
  <2>2. all = {} <=> \A i \in Slots : At(s, p, i) = NoTile
    OBVIOUS
  <2> QED
    BY <2>1, <2>2 DEF Empty
<1>2. \A p \in Empty(s) : p \in Players
  BY DEF Empty
<1> QED
  BY <1>1, <1>2, SameBoard

\* settleIsolatedPenguins is the Settle of the server.
LEMMA SettleAgrees ==
    ASSUME NEW s, Fits(s)
    PROVE  /\ AsServer(settleIsolatedPenguins[s]) = Server!Settle[AsServer(s)]
           /\ Fits(settleIsolatedPenguins[s])
           /\ settleIsolatedPenguins[s].phase = s.phase
           /\ settleIsolatedPenguins[s].turn = s.turn
           /\ settleIsolatedPenguins[s].ply = s.ply
<1> DEFINE A == AsServer(s)
           d == Settled(s)
           D == AsServer(d)
           u == settleIsolatedPenguins[s]
<1>1. s \in GameState /\ Lonely(s) \in SUBSET (Players \X Slots)
      /\ Empty(d) \in SUBSET Players
  BY DEF Fits, Lonely, Empty
<1>2. Fits(d) /\ d \in GameState /\ d.phase = s.phase /\ d.turn = s.turn /\ d.ply = s.ply
  BY <1>1, DropFits, DropParts DEF Settled, Fits
<1>3. u = Out(d, Empty(d))
  BY SettleIs
<1>4. Fits(u) /\ u.phase = s.phase /\ u.turn = s.turn /\ u.ply = s.ply
  <2> HIDE DEF d, u
  <2> QED
    BY <1>1, <1>2, <1>3, OutFits, OutParts
<1>5. A \in Server!GameState
  BY <1>1, AsServerType
<1>6. D = Server!RemovePenguins(A, Server!Isolated(A))
  <2>1. Server!Isolated(A) = {x \in A.penguins : <<x[1], x[2]>> \in Lonely(s)}
    BY <1>1, IsolatedAgree
  <2>2. AsServer(Drop(s, Lonely(s))) = Server!RemovePenguins(AsServer(s),
               {x \in AsServer(s).penguins : <<x[1], x[2]>> \in Lonely(s)})
    BY <1>1, DropAgrees
  <2> QED
    BY <2>1, <2>2 DEF Settled
<1>7. Server!Settle[A] = [D EXCEPT !.stuck = A.stuck \cup
                             {p \in Server!Players : Server!PenguinsOf(D, p) = {}}]
  <2> HIDE DEF A, D
  <2> QED
    BY <1>5, <1>6 DEF Server!Settle
<1>8. AsServer(u) = [D EXCEPT !.stuck = D.stuck \cup Empty(d)]
  <2> HIDE DEF d, u
  <2>1. AsServer(Out(d, Empty(d)))
        = [AsServer(d) EXCEPT !.stuck = AsServer(d).stuck \cup Empty(d)]
    BY <1>1, <1>2, OutAgrees
  <2> QED
    BY <1>3, <2>1
<1>9. Empty(d) = {p \in Server!Players : Server!PenguinsOf(D, p) = {}}
  <2> HIDE DEF d
  <2> QED
    BY <1>2, EmptyAgree
<1>10. D.stuck = A.stuck
  <2> HIDE DEF A, D
  <2> QED
    BY <1>5, <1>6, RemovalType
<1> HIDE DEF A, D, d
<1>11. AsServer(u) = Server!Settle[A]
  <2> HIDE DEF u
  <2> QED
    BY <1>7, <1>8, <1>9, <1>10
<1> QED
  BY <1>4, <1>11 DEF A

-----------------------------------------------------------------------------
(* Players that are out. *)

\* A round of the loop of eliminatePlayer.
LEMMA RemoveDrops ==
    ASSUME NEW s \in GameState, NEW p \in Players, NEW D \in SUBSET Slots,
           NEW i \in Slots, i \in D
    PROVE  removePenguin(p, i)[Drop(s, {p} \X (D \ {i}))] = Drop(s, {p} \X D)
<1> DEFINE T == {p} \X (D \ {i})
           one == {<<p, i>>}
<1>1. T \in SUBSET (Players \X Slots) /\ one \in SUBSET (Players \X Slots)
      /\ T \cup one = {p} \X D
  OBVIOUS
<1>2. removePenguin(p, i)[Drop(s, T)] = Drop(Drop(s, T), one)
  <2> HIDE DEF T
  <2>1. Drop(s, T) \in GameState /\ i \in Slots
    BY <1>1, DropParts
  <2> QED
    BY <2>1, RemoveParts
<1> HIDE DEF T, one
<1>3. Drop(Drop(s, T), one) = Drop(s, T \cup one)
  BY <1>1, DropTwice
<1> QED
  BY <1>1, <1>2, <1>3 DEF T

\* The recursive function of that loop.
RemoveSteps(h, s, p) ==
    h = [D \in SUBSET DOMAIN SlotOrder |->
            IF D = {} THEN s ELSE removePenguin(p, SlotOrder[Max(D)])[h[D \ {Max(D)}]]]

\* The whole loop: all penguins of the player leave.
LEMMA RemoveLoop ==
    ASSUME NEW s \in GameState, NEW p \in Players
    PROVE  FoldLeft(LAMBDA u, i : removePenguin(p, i)[u], s, SlotOrder)
           = Drop(s, SlotsOf(p))
<1> DEFINE F == [i \in Slots |-> removePenguin(p, i)]
           g == [D \in SUBSET Slots |-> Drop(s, {p} \X D)]
<1>1. NumPenguins \in Nat /\ Slots = 1..NumPenguins /\ DOMAIN SlotOrder = 1..NumPenguins
      /\ \A i \in Slots : SlotOrder[i] = i
  BY BrowserAssumption DEF Slots, SlotOrder
<1>2. ASSUME NEW D \in SUBSET Slots, D # {}
      PROVE  g[D] = F[SlotOrder[Max(D)]][g[D \ {Max(D)}]]
  <2> DEFINE m == Max(D)
  <2>1. m \in D /\ m \in Slots /\ SlotOrder[m] = m
    BY <1>1, <1>2, MaxExists
  <2>2. g[D \ {m}] = Drop(s, {p} \X (D \ {m})) /\ F[m] = removePenguin(p, m)
        /\ g[D] = Drop(s, {p} \X D)
    BY <2>1
  <2> HIDE DEF m, F, g
  <2>3. removePenguin(p, m)[Drop(s, {p} \X (D \ {m}))] = Drop(s, {p} \X D)
    <3>1. D \in SUBSET Slots /\ m \in D /\ m \in Slots /\ s \in GameState /\ p \in Players
      BY <2>1
    <3>2. \A i \in Slots : i \in D =>
             removePenguin(p, i)[Drop(s, {p} \X (D \ {i}))] = Drop(s, {p} \X D)
      BY RemoveDrops
    <3> QED
      BY <3>1, <3>2
  <2>4. F[SlotOrder[m]][g[D \ {m}]] = g[D]
    BY <2>1, <2>2, <2>3
  <2> QED
    BY <2>4 DEF m
<1>3. g[{}] = s
  <2>1. {p} \X {} = {}
    OBVIOUS
  <2> QED
    BY <2>1, DropNone
<1>4. LoopOf(g, F, s, SlotOrder)
  <2>1. g = [D \in SUBSET Slots |-> g[D]]
    OBVIOUS
  <2> HIDE DEF g, F
  <2> QED
    BY <1>1, <1>2, <1>3, <2>1 DEF LoopOf
<1>5. g[1..NumPenguins] = Drop(s, SlotsOf(p))
  BY <1>1 DEF SlotsOf
<1>6. ASSUME NEW h
      PROVE  RemoveSteps(h, s, p) <=> LoopOf(h, F, s, SlotOrder)
  <2>1. \A D \in SUBSET DOMAIN SlotOrder :
           D # {} => F[SlotOrder[Max(D)]] = removePenguin(p, SlotOrder[Max(D)])
    <3> SUFFICES ASSUME NEW D \in SUBSET DOMAIN SlotOrder, D # {}
                 PROVE  F[SlotOrder[Max(D)]] = removePenguin(p, SlotOrder[Max(D)])
      OBVIOUS
    <3>1. SlotOrder[Max(D)] \in Slots
      BY <1>1, MaxExists
    <3> QED
      BY <3>1
  <2> HIDE DEF F
  <2>2. [D \in SUBSET DOMAIN SlotOrder |->
            IF D = {} THEN s ELSE removePenguin(p, SlotOrder[Max(D)])[h[D \ {Max(D)}]]]
        = [D \in SUBSET DOMAIN SlotOrder |->
            IF D = {} THEN s ELSE F[SlotOrder[Max(D)]][h[D \ {Max(D)}]]]
    BY <2>1
  <2> QED
    BY <2>2 DEF RemoveSteps, LoopOf
<1> DEFINE iter == CHOOSE h : RemoveSteps(h, s, p)
<1>7. RemoveSteps(iter, s, p)
  <2>1. \E h : RemoveSteps(h, s, p)
    BY <1>4, <1>6
  <2> QED
    BY <2>1
<1>8. FoldLeft(LAMBDA u, i : removePenguin(p, i)[u], s, SlotOrder) = iter[1..NumPenguins]
  BY <1>1 DEF FoldLeft, MapThenFoldSet, RemoveSteps
<1> HIDE DEF iter, g, F
<1>9. iter[1..NumPenguins] = g[1..NumPenguins]
  BY <1>1, <1>4, <1>6, <1>7, LoopsAreUnique
<1> QED
  BY <1>5, <1>8, <1>9

\* eliminatePlayer is the Eliminate of the server.
LEMMA EliminateAgrees ==
    ASSUME NEW s, Fits(s), NEW p \in Players
    PROVE  /\ AsServer(eliminatePlayer(p)[s]) = Server!Eliminate(p)[AsServer(s)]
           /\ Fits(eliminatePlayer(p)[s])
           /\ eliminatePlayer(p)[s].phase = s.phase
           /\ eliminatePlayer(p)[s].turn = s.turn
           /\ eliminatePlayer(p)[s].ply = s.ply
<1> DEFINE A == AsServer(s)
           d == Drop(s, SlotsOf(p))
           D == AsServer(d)
           o == Out(d, {p})
           O == AsServer(o)
<1>1. s \in GameState /\ SlotsOf(p) \in SUBSET (Players \X Slots) /\ {p} \in SUBSET Players
      /\ A \in Server!GameState
  BY AsServerType DEF Fits, SlotsOf
<1>2. Fits(d) /\ d \in GameState /\ d.phase = s.phase /\ d.turn = s.turn /\ d.ply = s.ply
  BY <1>1, DropFits, DropParts DEF Fits
<1>3. Fits(o) /\ o.phase = s.phase /\ o.turn = s.turn /\ o.ply = s.ply
  <2> HIDE DEF d
  <2> QED
    BY <1>1, <1>2, OutFits, OutParts
<1>4. D = Server!RemovePenguins(A, Server!PenguinsOf(A, p))
  <2>1. {x \in A.penguins : <<x[1], x[2]>> \in SlotsOf(p)} = Server!PenguinsOf(A, p)
    <3>1. A.penguins = {x \in Players \X Slots \X Cells : At(s, x[1], x[2]) = x[3]}
      BY <1>1, AsServerParts
    <3>2. \A x \in A.penguins : <<x[1], x[2]>> \in SlotsOf(p) <=> x[1] = p
      BY <3>1 DEF SlotsOf
    <3> HIDE DEF A
    <3> QED
      BY <3>2 DEF Server!PenguinsOf
  <2>2. AsServer(Drop(s, SlotsOf(p))) = Server!RemovePenguins(AsServer(s),
               {x \in AsServer(s).penguins : <<x[1], x[2]>> \in SlotsOf(p)})
    BY <1>1, DropAgrees
  <2> QED
    BY <2>1, <2>2
<1>5. D.stuck = A.stuck
  <2> HIDE DEF A, D
  <2> QED
    BY <1>1, <1>4, RemovalType
<1>6. O = [D EXCEPT !.stuck = A.stuck \cup {p}]
  <2>1. O = [D EXCEPT !.stuck = D.stuck \cup {p}]
    <3> HIDE DEF d
    <3> QED
      BY <1>1, <1>2, OutAgrees
  <2> HIDE DEF A, D, O
  <2> QED
    BY <1>5, <2>1
<1>7. Server!Eliminate(p)[A] = Server!Settle[O]
  <2> HIDE DEF A, D, O
  <2> QED
    BY <1>1, <1>4, <1>6 DEF Server!Eliminate
<1>8. eliminatePlayer(p)[s] = settleIsolatedPenguins[o]
  <2>1. o = [d EXCEPT !.players[p].stuck = TRUE]
    <3> HIDE DEF d
    <3> QED
      BY <1>2, OutOne
  <2>2. eliminatePlayer(p)[s] = settleIsolatedPenguins[[d EXCEPT !.players[p].stuck = TRUE]]
    BY <1>1, RemoveLoop DEF eliminatePlayer
  <2> HIDE DEF d, o
  <2> QED
    BY <2>1, <2>2
<1> HIDE DEF A, o
<1>9. AsServer(eliminatePlayer(p)[s]) = Server!Eliminate(p)[A]
  BY <1>3, <1>7, <1>8, SettleAgrees
<1>10. /\ Fits(eliminatePlayer(p)[s]) /\ eliminatePlayer(p)[s].phase = s.phase
       /\ eliminatePlayer(p)[s].turn = s.turn /\ eliminatePlayer(p)[s].ply = s.ply
  BY <1>3, <1>8, SettleAgrees
<1> QED
  BY <1>9, <1>10 DEF A

-----------------------------------------------------------------------------
(* The end of the game and the turn. *)

\* Changing the columns that say nothing of the board.
LEMMA TurnAgrees ==
    ASSUME NEW s, Fits(s), NEW n \in Players
    PROVE  /\ Fits([s EXCEPT !.turn = n]) /\ [s EXCEPT !.turn = n].turn = n
           /\ [s EXCEPT !.turn = n].phase = s.phase /\ [s EXCEPT !.turn = n].ply = s.ply
           /\ AsServer([s EXCEPT !.turn = n]) = [AsServer(s) EXCEPT !.turn = n]
<1> DEFINE t == [s EXCEPT !.turn = n]
           A == AsServer(s)
           B == AsServer(t)
           r == [A EXCEPT !.turn = n]
<1>1. s \in GameState
  BY DEF Fits
<1>2. /\ t \in GameState /\ t.tiles = s.tiles /\ t.players = s.players /\ t.turn = n
      /\ t.phase = s.phase /\ t.winner = s.winner /\ t.ply = s.ply
  BY <1>1 DEF GameState
<1>3. A \in Server!GameState
  BY <1>1, AsServerType
<1>4. /\ B.fish = A.fish /\ B.gone = A.gone /\ B.owner = A.owner /\ B.penguins = A.penguins
      /\ B.score = A.score /\ B.stuck = A.stuck /\ B.phase = A.phase /\ B.turn = n
      /\ B.winner = A.winner /\ B.ply = A.ply
  <2> HIDE DEF t
  <2> QED
    BY <1>2 DEF AsServer
<1> HIDE DEF A
<1>5. /\ r \in Server!GameState /\ r.fish = A.fish /\ r.gone = A.gone
      /\ r.owner = A.owner /\ r.penguins = A.penguins
      /\ r.score = A.score /\ r.stuck = A.stuck /\ r.phase = A.phase
      /\ r.turn = n /\ r.winner = A.winner /\ r.ply = A.ply
  <2>1. n \in Server!Players
    BY SameBoard
  <2> QED
    BY <1>3, <2>1 DEF Server!GameState
<1> HIDE DEF B, r, t
<1>6. B = r
  BY <1>2, <1>4, <1>5, SameRecord DEF B
<1>7. Fits(t)
  BY <1>2 DEF Fits, At
<1> QED
  BY <1>2, <1>6, <1>7 DEF A, B, r, t

\* finishGame is the Finish of the server.
LEMMA FinishAgrees ==
    ASSUME NEW s, Fits(s)
    PROVE  /\ AsServer(finishGame[s]) = Server!Finish(AsServer(s))
           /\ Fits(finishGame[s]) /\ finishGame[s].phase = "finished"
<1> DEFINE w == IF s.players[0].score = s.players[1].score THEN -1
                ELSE IF s.players[1].score > s.players[0].score THEN 1 ELSE 0
           t == [s EXCEPT !.phase = "finished", !.winner = w]
           A == AsServer(s)
           B == AsServer(t)
           r == Server!Finish(A)
<1>1. s \in GameState /\ s.players[0].score \in Nat /\ s.players[1].score \in Nat
  BY StateParts DEF Fits, Players
<1>2. finishGame[s] = t
  <2> DEFINE a == s.players[0].score
             b == s.players[1].score
             best == Max({s.players[p].score : p \in Players})
             tops == {p \in Players : s.players[p].score = best}
             v == IF Cardinality(tops) > 1 THEN -1 ELSE CHOOSE p \in tops : TRUE
  <2>1. finishGame[s] = [s EXCEPT !.phase = "finished", !.winner = v]
    <3> DEFINE B0(x) == Max({x.players[p].score : p \in Players})
               T0(x) == {p \in Players : x.players[p].score = B0(x)}
               W0(x) == IF Cardinality(T0(x)) > 1 THEN -1 ELSE CHOOSE p \in T0(x) : TRUE
    <3>1. finishGame = [x \in GameState |->
                           [x EXCEPT !.phase = "finished", !.winner = W0(x)]]
      BY DEF finishGame
    <3>2. W0(s) = v
      OBVIOUS
    <3> HIDE DEF W0, v
    <3>3. finishGame[s] = [s EXCEPT !.phase = "finished", !.winner = W0(s)]
      BY <1>1, <3>1
    <3> QED
      BY <3>2, <3>3
  <2>2. {s.players[p].score : p \in Players} = {a, b}
    BY DEF Players
  <2>3. best = IF b > a THEN b ELSE a
    <3> HIDE DEF a, b
    <3>1. a \in Nat /\ b \in Nat
      BY <1>1 DEF a, b
    <3> DEFINE m == IF b > a THEN b ELSE a
               S == {a, b}
    <3>2. m \in S /\ m >= a /\ m >= b /\ m \in Nat
      BY <3>1
    <3>3. ASSUME NEW x \in S, x >= a, x >= b
          PROVE  x = m
      BY <3>1, <3>3
    <3>4. \A x \in S : (\A y \in S : x >= y) <=> x >= a /\ x >= b
      OBVIOUS
    <3> HIDE DEF m
    <3>5. (\E x \in S : \A y \in S : x >= y)
          /\ \A x \in S : (\A y \in S : x >= y) => x = m
      BY <3>2, <3>3, <3>4
    <3> HIDE DEF S
    <3>6. Max(S) = m
      BY <3>5 DEF Max
    <3> QED
      BY <2>2, <3>6 DEF best, S, m
  <2> HIDE DEF best
  <2>4. tops = {p \in {0, 1} : (p = 0 /\ a = best) \/ (p = 1 /\ b = best)}
    BY DEF Players
  <2> HIDE DEF a, b, tops
  <2>5. a \in Nat /\ b \in Nat /\ w = IF a = b THEN -1 ELSE IF b > a THEN 1 ELSE 0
    BY <1>1 DEF a, b
  <2> HIDE DEF w
  <2>6. CASE a = b
    <3>1. tops = {0, 1}
      BY <2>3, <2>4, <2>5, <2>6
    <3>2. Cardinality({0, 1}) = 2
      <4>1. {0, 1} = {0} \cup {1} /\ 1 \notin {0}
        OBVIOUS
      <4>2. IsFiniteSet({0}) /\ Cardinality({0}) = 1
        BY FS_Singleton
      <4>3. Cardinality({0} \cup {1}) = Cardinality({0}) + 1
        BY <4>1, <4>2, FS_AddElement
      <4> QED
        BY <4>1, <4>2, <4>3
    <3>3. v = -1
      BY <3>1, <3>2
    <3> HIDE DEF v
    <3> QED
      BY <2>1, <2>5, <2>6, <3>3
  <2>7. CASE b > a
    <3>0. best = b /\ a # b /\ w = 1
      BY <2>3, <2>5, <2>7
    <3>1. tops = {1}
      BY <2>4, <3>0
    <3>2. Cardinality(tops) = 1
      BY <3>1, FS_Singleton
    <3>3. (CHOOSE p \in tops : TRUE) = 1
      BY <3>1
    <3>4. v = 1
      BY <3>2, <3>3
    <3> HIDE DEF v
    <3> QED
      BY <2>1, <3>0, <3>4
  <2>8. CASE a > b
    <3>0. best = a /\ a # b /\ w = 0
      BY <2>3, <2>5, <2>8
    <3>1. tops = {0}
      BY <2>4, <3>0
    <3>2. Cardinality(tops) = 1
      BY <3>1, FS_Singleton
    <3>3. (CHOOSE p \in tops : TRUE) = 0
      BY <3>1
    <3>4. v = 0
      BY <3>2, <3>3
    <3> HIDE DEF v
    <3> QED
      BY <2>1, <3>0, <3>4
  <2> QED
    BY <2>5, <2>6, <2>7, <2>8
<1>3. w \in {-1, 0, 1}
  OBVIOUS
<1>4. /\ t \in GameState /\ t.tiles = s.tiles /\ t.players = s.players /\ t.turn = s.turn
      /\ t.phase = "finished" /\ t.winner = w /\ t.ply = s.ply
  <2> HIDE DEF w
  <2> QED
    BY <1>1, <1>3 DEF GameState
<1>5. A \in Server!GameState /\ A.score[0] = s.players[0].score
      /\ A.score[1] = s.players[1].score
  BY <1>1, AsServerType DEF AsServer, Players
<1>6. /\ B.fish = A.fish /\ B.gone = A.gone /\ B.owner = A.owner /\ B.penguins = A.penguins
      /\ B.score = A.score /\ B.stuck = A.stuck /\ B.phase = "finished" /\ B.turn = A.turn
      /\ B.winner = w /\ B.ply = A.ply
  <2> HIDE DEF t, w
  <2> QED
    BY <1>4 DEF AsServer
<1>7. r = [A EXCEPT !.phase = "finished", !.winner = w]
  <2> HIDE DEF A
  <2> QED
    BY <1>5 DEF Server!Finish, Server!Tie
<1> HIDE DEF A, w, r
<1>8. /\ r \in Server!GameState /\ r.fish = A.fish /\ r.gone = A.gone
      /\ r.owner = A.owner /\ r.penguins = A.penguins
      /\ r.score = A.score /\ r.stuck = A.stuck /\ r.phase = "finished"
      /\ r.turn = A.turn /\ r.winner = w /\ r.ply = A.ply
  <2>1. w \in Server!Players \cup {Server!Tie, Server!Undecided}
        /\ "finished" \in Server!Phases
    BY <1>3 DEF Server!Players, Server!Tie, Server!Undecided, Server!Phases
  <2> QED
    BY <1>5, <1>7, <2>1 DEF Server!GameState
<1> HIDE DEF B, t
<1>9. B = r
  BY <1>4, <1>6, <1>8, SameRecord DEF B
<1>10. Fits(t)
  BY <1>4 DEF Fits, At
<1> QED
  BY <1>2, <1>4, <1>9, <1>10 DEF A, B, r

\* One round of advanceTurn, and what its loop is.
Round(next, step, s) ==
    IF step > 2 THEN finishGame[s]
    ELSE IF s.players[(s.turn + step) % 2].stuck THEN next[s]
    ELSE IF playerCanMove(s, (s.turn + step) % 2)
         THEN [s EXCEPT !.turn = (s.turn + step) % 2]
    ELSE next[eliminatePlayer((s.turn + step) % 2)[s]]

Rounds(h) == h = [step \in 1..3 |-> [s \in GameState |-> Round(h[step + 1], step, s)]]

\* The loop ends.
LEMMA RoundsExist ==
    Rounds(Advance)
<1> DEFINE a3 == [s \in GameState |-> finishGame[s]]
           a2 == [s \in GameState |-> Round(a3, 2, s)]
           a1 == [s \in GameState |-> Round(a2, 1, s)]
           h == [step \in 1..3 |-> IF step = 3 THEN a3 ELSE IF step = 2 THEN a2 ELSE a1]
<1>1. \A g, s : Round(g, 3, s) = finishGame[s]
  BY DEF Round
<1>2. a3 = [s \in GameState |-> Round(h[4], 3, s)]
  BY <1>1
<1> HIDE DEF a3
<1>3. a2 = [s \in GameState |-> Round(h[3], 2, s)]
  <2>1. h[3] = a3
    OBVIOUS
  <2> QED
    BY <2>1
<1> HIDE DEF a2
<1>4. a1 = [s \in GameState |-> Round(h[2], 1, s)]
  <2>1. h[2] = a2
    OBVIOUS
  <2> QED
    BY <2>1
<1> HIDE DEF a1
<1>5. \A step \in 1..3 : h[step] = [s \in GameState |-> Round(h[step + 1], step, s)]
  <2>1. h[1] = a1 /\ h[2] = a2 /\ h[3] = a3
    OBVIOUS
  <2> HIDE DEF h
  <2> TAKE step \in 1..3
  <2>2. step = 1 \/ step = 2 \/ step = 3
    OBVIOUS
  <2>3. CASE step = 1
    <3>1. step + 1 = 2
      BY <2>3
    <3> QED
      BY <1>4, <2>1, <2>3, <3>1
  <2>4. CASE step = 2
    <3>1. step + 1 = 3
      BY <2>4
    <3> QED
      BY <1>3, <2>1, <2>4, <3>1
  <2>5. CASE step = 3
    <3>1. step + 1 = 4
      BY <2>5
    <3> QED
      BY <1>2, <2>1, <2>5, <3>1
  <2> QED
    BY <2>2, <2>3, <2>4, <2>5
<1>6. h = [step \in 1..3 |-> h[step]]
  OBVIOUS
<1> HIDE DEF h
<1>7. Rounds(h)
  BY <1>5, <1>6 DEF Rounds
<1>8. Advance = CHOOSE g : Rounds(g)
  BY DEF Advance, Rounds, Round
<1> QED
  BY <1>7, <1>8

\* A round that goes on leaves this state.
Visited(s, p) ==
    IF s.players[p].stuck \/ playerCanMove(s, p) THEN s ELSE eliminatePlayer(p)[s]

\* It is the one the server leaves.
LEMMA VisitedAgrees ==
    ASSUME NEW s, Fits(s), NEW p \in Players
    PROVE  /\ AsServer(Visited(s, p)) = Server!Visit(p)[AsServer(s)]
           /\ Fits(Visited(s, p)) /\ Visited(s, p).turn = s.turn
           /\ Visited(s, p).phase = s.phase /\ Visited(s, p).ply = s.ply
<1> DEFINE A == AsServer(s)
<1>1. s \in GameState /\ A \in Server!GameState /\ (s.players[p].stuck <=> p \in A.stuck)
  <2>1. s \in GameState
    BY DEF Fits
  <2> QED
    BY <2>1, AsServerType, AsServerParts
<1>2. playerCanMove(s, p) <=> Server!PlayerCanMove(A, p)
  BY <1>1, MovesAgree
<1> HIDE DEF A
<1>3. Server!Visit(p)[A] = IF p \in A.stuck \/ Server!PlayerCanMove(A, p) THEN A
                           ELSE Server!Eliminate(p)[A]
  BY <1>1 DEF Server!Visit
<1>4. CASE s.players[p].stuck \/ playerCanMove(s, p)
  <2>1. Visited(s, p) = s /\ Server!Visit(p)[A] = A
    BY <1>1, <1>2, <1>3, <1>4 DEF Visited
  <2> QED
    BY <2>1 DEF A
<1>5. CASE ~(s.players[p].stuck \/ playerCanMove(s, p))
  <2>1. Visited(s, p) = eliminatePlayer(p)[s] /\ Server!Visit(p)[A] = Server!Eliminate(p)[A]
    BY <1>1, <1>2, <1>3, <1>5 DEF Visited
  <2> QED
    BY <2>1, EliminateAgrees DEF A
<1> QED
  BY <1>4, <1>5

\* Whether a player is in play.
CanPlay(s, p) == ~s.players[p].stuck /\ playerCanMove(s, p)

\* So it is on the server.
LEMMA CanPlayAgrees ==
    ASSUME NEW s, Fits(s), NEW p \in Players
    PROVE  CanPlay(s, p) <=> Server!InPlay(AsServer(s), p)
<1>1. s \in GameState /\ (s.players[p].stuck <=> p \in AsServer(s).stuck)
  <2>1. s \in GameState
    BY DEF Fits
  <2> QED
    BY <2>1, AsServerParts
<1> QED
  BY <1>1, MovesAgree DEF CanPlay, Server!InPlay

\* advanceTurn, round by round.
LEMMA AdvanceIs ==
    ASSUME NEW s, Fits(s)
    PROVE  advanceTurn[s] =
              LET next == (s.turn + 1) % 2
                  t    == Visited(s, next)
              IN  IF CanPlay(s, next) THEN [s EXCEPT !.turn = next]
                  ELSE IF CanPlay(t, s.turn) THEN [t EXCEPT !.turn = s.turn]
                  ELSE finishGame[Visited(t, s.turn)]
<1> DEFINE next == (s.turn + 1) % 2
           t == Visited(s, next)
           v == Visited(t, s.turn)
<1>1. s \in GameState /\ s.turn \in Players /\ next \in Players /\ (s.turn + 2) % 2 = s.turn
  <2>1. s \in GameState /\ s.turn \in Players
    BY StateParts DEF Fits
  <2> QED
    BY <2>1 DEF Players
<1>2. Fits(t) /\ t \in GameState /\ t.turn = s.turn
  <2> HIDE DEF next
  <2>1. Fits(t) /\ t.turn = s.turn
    BY <1>1, VisitedAgrees
  <2> QED
    BY <2>1 DEF Fits
<1>3. v \in GameState
  <2> HIDE DEF t
  <2>1. Fits(v)
    BY <1>1, <1>2, VisitedAgrees
  <2> QED
    BY <2>1 DEF Fits
<1>4. ASSUME NEW x \in GameState, NEW step \in 1..3
      PROVE  Advance[step][x] = Round(Advance[step + 1], step, x)
  <2>1. Advance[step] = [y \in GameState |-> Round(Advance[step + 1], step, y)]
    BY RoundsExist DEF Rounds
  <2> QED
    BY <2>1
<1>5. advanceTurn[s] = Round(Advance[2], 1, s)
  BY <1>1, <1>4 DEF advanceTurn
<1>6. Advance[2][t] = Round(Advance[3], 2, t)
  BY <1>2, <1>4
<1>7. Advance[3][v] = finishGame[v]
  <2> HIDE DEF v
  <2>1. Advance[3][v] = Round(Advance[3 + 1], 3, v)
    BY <1>3, <1>4
  <2>2. 3 > 2
    OBVIOUS
  <2> QED
    BY <2>1, <2>2 DEF Round
<1>8. advanceTurn[s] = IF CanPlay(s, next) THEN [s EXCEPT !.turn = next] ELSE Advance[2][t]
  <2>1. Round(Advance[2], 1, s) =
           IF s.players[next].stuck THEN Advance[2][s]
           ELSE IF playerCanMove(s, next) THEN [s EXCEPT !.turn = next]
           ELSE Advance[2][eliminatePlayer(next)[s]]
    BY DEF Round
  <2> QED
    BY <1>5, <2>1 DEF CanPlay, Visited
<1>9. Advance[2][t] = IF CanPlay(t, s.turn) THEN [t EXCEPT !.turn = s.turn] ELSE Advance[3][v]
  <2> HIDE DEF t
  <2>1. (t.turn + 2) % 2 = s.turn
    BY <1>1, <1>2
  <2>2. Round(Advance[3], 2, t) =
           IF t.players[s.turn].stuck THEN Advance[3][t]
           ELSE IF playerCanMove(t, s.turn) THEN [t EXCEPT !.turn = s.turn]
           ELSE Advance[3][eliminatePlayer(s.turn)[t]]
    BY <2>1 DEF Round
  <2> QED
    BY <1>6, <2>2 DEF CanPlay, Visited
<1> HIDE DEF t, v, next
<1>10. advanceTurn[s] = IF CanPlay(s, next) THEN [s EXCEPT !.turn = next]
                        ELSE IF CanPlay(t, s.turn) THEN [t EXCEPT !.turn = s.turn]
                        ELSE finishGame[v]
  BY <1>7, <1>8, <1>9
<1> QED
  BY <1>10 DEF next, t, v

\* advanceTurn is the AdvanceTurn of the server.
LEMMA AdvanceAgrees ==
    ASSUME NEW s, Fits(s)
    PROVE  /\ AsServer(advanceTurn[s]) = Server!AdvanceTurn[AsServer(s)]
           /\ Fits(advanceTurn[s]) /\ advanceTurn[s].phase \in {s.phase, "finished"}
<1> DEFINE A == AsServer(s)
           next == (s.turn + 1) % 2
           t == Visited(s, next)
           v == Visited(t, s.turn)
           T == Server!Visit(next)[A]
<1>1. s \in GameState /\ s.turn \in Players /\ next \in Players
  <2>1. s \in GameState /\ s.turn \in Players
    BY StateParts DEF Fits
  <2> QED
    BY <2>1 DEF Players
<1>2. A \in Server!GameState /\ A.turn = s.turn
  BY <1>1, AsServerType, AsServerParts
<1>3. AsServer(t) = T /\ Fits(t) /\ t.turn = s.turn /\ t.phase = s.phase
  <2> HIDE DEF next
  <2> QED
    BY <1>1, VisitedAgrees
<1>4. AsServer(v) = Server!Visit(s.turn)[T] /\ Fits(v) /\ v.turn = s.turn
  <2> HIDE DEF t, T
  <2> QED
    BY <1>1, <1>3, VisitedAgrees
<1>5. Server!AdvanceTurn[A] = IF Server!InPlay(A, next) THEN [A EXCEPT !.turn = next]
                              ELSE IF Server!InPlay(T, s.turn) THEN T
                              ELSE Server!Finish(Server!Visit(s.turn)[T])
  <2> HIDE DEF A
  <2> QED
    BY <1>2 DEF Server!AdvanceTurn, Server!NextPlayer
<1>6. advanceTurn[s] = IF CanPlay(s, next) THEN [s EXCEPT !.turn = next]
                       ELSE IF CanPlay(t, s.turn) THEN [t EXCEPT !.turn = s.turn]
                       ELSE finishGame[v]
  BY AdvanceIs
<1>7. (CanPlay(s, next) <=> Server!InPlay(A, next))
      /\ (CanPlay(t, s.turn) <=> Server!InPlay(T, s.turn))
  <2> HIDE DEF next, t, T
  <2> QED
    BY <1>1, <1>3, CanPlayAgrees
<1> HIDE DEF next, t, v, T
<1>8. CASE CanPlay(s, next)
  <2>1. advanceTurn[s] = [s EXCEPT !.turn = next]
        /\ Server!AdvanceTurn[A] = [A EXCEPT !.turn = next]
    BY <1>5, <1>6, <1>7, <1>8
  <2>2. /\ AsServer([s EXCEPT !.turn = next]) = [A EXCEPT !.turn = next]
        /\ Fits([s EXCEPT !.turn = next]) /\ [s EXCEPT !.turn = next].phase = s.phase
    BY <1>1, TurnAgrees
  <2> HIDE DEF A
  <2> QED
    BY <2>1, <2>2 DEF A
<1>9. CASE ~CanPlay(s, next) /\ CanPlay(t, s.turn)
  <2>1. [t EXCEPT !.turn = s.turn] = t
    BY <1>3 DEF Fits, GameState
  <2>2. advanceTurn[s] = t /\ Server!AdvanceTurn[A] = T
    BY <1>5, <1>6, <1>7, <1>9, <2>1
  <2> QED
    BY <1>3, <2>2
<1>10. CASE ~CanPlay(s, next) /\ ~CanPlay(t, s.turn)
  <2>1. advanceTurn[s] = finishGame[v]
        /\ Server!AdvanceTurn[A] = Server!Finish(AsServer(v))
    BY <1>4, <1>5, <1>6, <1>7, <1>10
  <2>2. /\ AsServer(finishGame[v]) = Server!Finish(AsServer(v))
        /\ Fits(finishGame[v]) /\ finishGame[v].phase = "finished"
    BY <1>4, FinishAgrees
  <2> QED
    BY <2>1, <2>2
<1> QED
  BY <1>8, <1>9, <1>10

\* The phase says nothing of the board.
LEMMA PhaseAgrees ==
    ASSUME NEW s, Fits(s), NEW n \in {"placing", "moving", "finished"}
    PROVE  /\ Fits([s EXCEPT !.phase = n]) /\ [s EXCEPT !.phase = n].phase = n
           /\ [s EXCEPT !.phase = n].turn = s.turn
           /\ AsServer([s EXCEPT !.phase = n]) = [AsServer(s) EXCEPT !.phase = n]
<1> DEFINE t == [s EXCEPT !.phase = n]
           A == AsServer(s)
           B == AsServer(t)
           r == [A EXCEPT !.phase = n]
<1>1. s \in GameState
  BY DEF Fits
<1>2. /\ t \in GameState /\ t.tiles = s.tiles /\ t.players = s.players /\ t.turn = s.turn
      /\ t.phase = n /\ t.winner = s.winner /\ t.ply = s.ply
  BY <1>1 DEF GameState
<1>3. A \in Server!GameState
  BY <1>1, AsServerType
<1>4. /\ B.fish = A.fish /\ B.gone = A.gone /\ B.owner = A.owner /\ B.penguins = A.penguins
      /\ B.score = A.score /\ B.stuck = A.stuck /\ B.phase = n /\ B.turn = A.turn
      /\ B.winner = A.winner /\ B.ply = A.ply
  <2> HIDE DEF t
  <2> QED
    BY <1>2 DEF AsServer
<1> HIDE DEF A
<1>5. /\ r \in Server!GameState /\ r.fish = A.fish /\ r.gone = A.gone
      /\ r.owner = A.owner /\ r.penguins = A.penguins
      /\ r.score = A.score /\ r.stuck = A.stuck /\ r.phase = n
      /\ r.turn = A.turn /\ r.winner = A.winner /\ r.ply = A.ply
  <2>1. n \in Server!Phases
    BY DEF Server!Phases
  <2> QED
    BY <1>3, <2>1 DEF Server!GameState
<1> HIDE DEF B, r, t
<1>6. B = r
  BY <1>2, <1>4, <1>5, SameRecord DEF B
<1>7. Fits(t)
  BY <1>2 DEF Fits, At
<1> QED
  BY <1>2, <1>6, <1>7 DEF A, B, r, t

\* Settle leaves the turn alone and does not look at it.
LEMMA SettleIgnoresTurn ==
    ASSUME NEW r \in Server!GameState, NEW n \in Players
    PROVE  Server!Settle[[r EXCEPT !.turn = n]] = [Server!Settle[r] EXCEPT !.turn = n]
<1> DEFINE q == [r EXCEPT !.turn = n]
           rr == Server!RemovePenguins(r, Server!Isolated(r))
           rq == Server!RemovePenguins(q, Server!Isolated(q))
           er == {p \in Server!Players : Server!PenguinsOf(rr, p) = {}}
           eq == {p \in Server!Players : Server!PenguinsOf(rq, p) = {}}
<1>1. /\ q \in Server!GameState /\ q.gone = r.gone /\ q.owner = r.owner
      /\ q.penguins = r.penguins /\ q.stuck = r.stuck
  <2>1. n \in Server!Players
    BY SameBoard
  <2> QED
    BY <2>1 DEF Server!GameState
<1>2. Server!Isolated(q) = Server!Isolated(r)
  <2> HIDE DEF q
  <2>1. Server!Free(q) = Server!Free(r)
    BY <1>1 DEF Server!Free
  <2> QED
    BY <1>1, <2>1 DEF Server!Isolated
<1>3. Server!Isolated(r) \subseteq r.penguins
  BY DEF Server!Isolated
<1>4. rr \in Server!GameState /\ rq \in Server!GameState
  <2> HIDE DEF q
  <2> QED
    BY <1>1, <1>2, <1>3, RemovalType
<1>5. rq = [rr EXCEPT !.turn = n]
  <2> DEFINE lost == Server!Isolated(r)
             ice == {x[3] : x \in lost}
             own == {o \in r.owner : o[1] \notin ice}
  <2>1. rr = [r EXCEPT !.gone = r.gone \cup ice, !.owner = own, !.penguins = r.penguins \ lost]
    BY DEF Server!RemovePenguins
  <2>2. rq = [q EXCEPT !.gone = r.gone \cup ice, !.owner = own, !.penguins = r.penguins \ lost]
    <3>1. rq = Server!RemovePenguins(q, lost)
      BY <1>2
    <3> HIDE DEF q, rq, lost
    <3> QED
      BY <1>1, <3>1 DEF Server!RemovePenguins
  <2> HIDE DEF rr, rq, lost, ice, own
  <2> QED
    BY <2>1, <2>2 DEF Server!GameState
<1>6. er = eq
  <2>1. rq.penguins = rr.penguins
    <3> HIDE DEF rr, rq
    <3> QED
      BY <1>4, <1>5 DEF Server!GameState
  <2> HIDE DEF rr, rq
  <2> QED
    BY <2>1 DEF Server!PenguinsOf
<1>7. Server!Settle[r] = [rr EXCEPT !.stuck = r.stuck \cup er]
  BY DEF Server!Settle
<1>8. Server!Settle[q] = [rq EXCEPT !.stuck = r.stuck \cup eq]
  <2> HIDE DEF q
  <2> QED
    BY <1>1 DEF Server!Settle
<1> HIDE DEF rr, rq, er, eq, q
<1>9. Server!Settle[q] = [Server!Settle[r] EXCEPT !.turn = n]
  BY <1>4, <1>5, <1>6, <1>7, <1>8 DEF Server!GameState
<1> QED
  BY <1>9 DEF q

\* The opening of the moving phase.
LEMMA OpeningAgrees ==
    ASSUME NEW s, Fits(s)
    PROVE  /\ AsServer(OpenMoving[s]) = Server!OpenMoving(AsServer(s))
           /\ Fits(OpenMoving[s]) /\ OpenMoving[s].phase \in {"moving", "finished"}
<1> DEFINE A == AsServer(s)
           m == [s EXCEPT !.phase = "moving"]
           M == [A EXCEPT !.phase = "moving"]
           u == settleIsolatedPenguins[m]
           t == [u EXCEPT !.turn = 0]
           e == eliminatePlayer(0)[t]
           T == Server!Settle[[A EXCEPT !.phase = "moving", !.turn = 0]]
<1>1. 0 \in Players /\ s \in GameState /\ A \in Server!GameState
  BY AsServerType DEF Players, Fits
<1>2. Fits(m) /\ m.phase = "moving" /\ AsServer(m) = M
  BY PhaseAgrees
<1>3. M \in Server!GameState
  <2> HIDE DEF M, m
  <2> QED
    BY <1>2, AsServerType DEF Fits
<1>4. Fits(u) /\ u.phase = "moving" /\ AsServer(u) = Server!Settle[M]
  <2> HIDE DEF m, M
  <2> QED
    BY <1>2, SettleAgrees
<1>5. Fits(t) /\ t.phase = "moving" /\ AsServer(t) = [Server!Settle[M] EXCEPT !.turn = 0]
  <2> HIDE DEF u, M
  <2> QED
    BY <1>1, <1>4, TurnAgrees
<1>6. AsServer(t) = T
  <2>1. [A EXCEPT !.phase = "moving", !.turn = 0] = [M EXCEPT !.turn = 0]
    OBVIOUS
  <2> HIDE DEF M, A, t
  <2>2. Server!Settle[[M EXCEPT !.turn = 0]] = [Server!Settle[M] EXCEPT !.turn = 0]
    BY <1>1, <1>3, SettleIgnoresTurn
  <2> QED
    BY <1>5, <2>1, <2>2
<1>7. OpenMoving[s] = IF playerCanMove(t, 0) THEN t ELSE advanceTurn[e]
  BY <1>1 DEF OpenMoving
<1>8. Server!OpenMoving(A) = IF Server!PlayerCanMove(T, 0) THEN T
                             ELSE Server!AdvanceTurn[Server!Eliminate(0)[T]]
  BY DEF Server!OpenMoving
<1> HIDE DEF A, t, T
<1>9. playerCanMove(t, 0) <=> Server!PlayerCanMove(T, 0)
  <2>1. t \in GameState
    BY <1>5 DEF Fits
  <2> QED
    BY <1>1, <1>6, <2>1, MovesAgree
<1>10. CASE playerCanMove(t, 0)
  <2>1. OpenMoving[s] = t /\ Server!OpenMoving(A) = T
    BY <1>7, <1>8, <1>9, <1>10
  <2> QED
    BY <1>5, <1>6, <2>1 DEF A
<1>11. CASE ~playerCanMove(t, 0)
  <2>1. OpenMoving[s] = advanceTurn[e]
        /\ Server!OpenMoving(A) = Server!AdvanceTurn[Server!Eliminate(0)[T]]
    BY <1>7, <1>8, <1>9, <1>11
  <2>2. Fits(e) /\ e.phase = "moving" /\ AsServer(e) = Server!Eliminate(0)[T]
    BY <1>1, <1>5, <1>6, EliminateAgrees
  <2> HIDE DEF e
  <2>3. /\ Fits(advanceTurn[e]) /\ advanceTurn[e].phase \in {"moving", "finished"}
        /\ AsServer(advanceTurn[e]) = Server!AdvanceTurn[AsServer(e)]
    BY <2>2, AdvanceAgrees
  <2> QED
    BY <2>1, <2>2, <2>3 DEF A
<1> QED
  BY <1>10, <1>11

-----------------------------------------------------------------------------
(* A placement. *)

\* A player with a penguin on another tile, and with its fish.
OnTile(r, slot, c, f) == [r EXCEPT !.penguins[slot] = c, !.score = r.score + f]

\* The player has the type of one, and only the one slot has changed.
LEMMA PlayerOnTile ==
    ASSUME NEW r \in PlayerType, NEW slot \in Slots, NEW c \in Cells, NEW f \in 1..3
    PROVE  /\ OnTile(r, slot, c, f) \in PlayerType /\ OnTile(r, slot, c, f).stuck = r.stuck
           /\ OnTile(r, slot, c, f).score = r.score + f
           /\ \A j \in Slots : OnTile(r, slot, c, f).penguins[j]
                               = IF j = slot THEN c ELSE r.penguins[j]
<1> DEFINE row == [r.penguins EXCEPT ![slot] = c]
           n == r.score + f
           player == OnTile(r, slot, c, f)
<1>1. /\ row \in [Slots -> Cells \cup {NoTile}]
      /\ \A j \in Slots : row[j] = IF j = slot THEN c ELSE r.penguins[j]
  BY DEF PlayerType
<1>2. n \in Nat
  BY DEF PlayerType
<1>3. player = [r EXCEPT !.penguins = row, !.score = n]
  BY DEF OnTile
<1> HIDE DEF row, n, player
<1>4. player \in PlayerType /\ player.stuck = r.stuck /\ player.score = n
      /\ player.penguins = row
  BY <1>1, <1>2, <1>3 DEF PlayerType
<1> QED
  BY <1>1, <1>4 DEF n, player

\* The same for a player of a state.
LEMMA PlayerArrives ==
    ASSUME NEW s \in GameState, NEW p \in Players, NEW slot \in Slots, NEW c \in Cells
    PROVE  LET player == OnTile(s.players[p], slot, c, s.tiles[c].fish)
           IN  /\ player \in PlayerType /\ player.stuck = s.players[p].stuck
               /\ player.score = s.players[p].score + s.tiles[c].fish
               /\ \A j \in Slots : player.penguins[j] = IF j = slot THEN c ELSE At(s, p, j)
<1> DEFINE r == s.players[p]
           f == s.tiles[c].fish
           player == OnTile(r, slot, c, f)
<1>1. r \in PlayerType /\ f \in 1..3 /\ \A j \in Slots : At(s, p, j) = r.penguins[j]
  BY StateTypes, StateParts DEF At
<1>0. player = OnTile(r, slot, c, f)
  OBVIOUS
<1> HIDE DEF r, f, player
<1>2. /\ player \in PlayerType /\ player.stuck = r.stuck /\ player.score = r.score + f
      /\ \A j \in Slots : player.penguins[j] = IF j = slot THEN c ELSE r.penguins[j]
  BY <1>0, <1>1, PlayerOnTile, SMTT(30)
<1>3. \A j \in Slots : player.penguins[j] = IF j = slot THEN c ELSE At(s, p, j)
  BY <1>1, <1>2
<1> QED
  BY <1>2, <1>3 DEF r, f, player

\* The placement alone, in a given slot.
PutInto(s, p, slot, c) ==
    [s EXCEPT !.tiles[c].owner = p,
              !.players[p].penguins[slot] = c,
              !.players[p].score = @ + s.tiles[c].fish,
              !.ply = @ + 1]

\* The parts of that state.
LEMMA PutParts ==
    ASSUME NEW s \in GameState, NEW p \in Players, NEW slot \in Slots, NEW c \in Cells
    PROVE  /\ PutInto(s, p, slot, c) \in GameState
           /\ \A x \in Cells :
                 /\ PutInto(s, p, slot, c).tiles[x].fish = s.tiles[x].fish
                 /\ PutInto(s, p, slot, c).tiles[x].gone = s.tiles[x].gone
                 /\ PutInto(s, p, slot, c).tiles[x].owner = IF x = c THEN p
                                                            ELSE s.tiles[x].owner
           /\ \A q \in Players :
                 /\ PutInto(s, p, slot, c).players[q].score
                    = s.players[q].score + IF q = p THEN s.tiles[c].fish ELSE 0
                 /\ PutInto(s, p, slot, c).players[q].stuck = s.players[q].stuck
           /\ \A q \in Players, i \in Slots :
                 At(PutInto(s, p, slot, c), q, i) = IF q = p /\ i = slot THEN c
                                                    ELSE At(s, q, i)
           /\ PutInto(s, p, slot, c).phase = s.phase /\ PutInto(s, p, slot, c).turn = s.turn
           /\ PutInto(s, p, slot, c).winner = s.winner
           /\ PutInto(s, p, slot, c).ply = s.ply + 1
<1> DEFINE tile == [s.tiles[c] EXCEPT !.owner = p]
           player == OnTile(s.players[p], slot, c, s.tiles[c].fish)
           t == PutInto(s, p, slot, c)
<1>1. tile \in TileType /\ tile.fish = s.tiles[c].fish /\ tile.gone = s.tiles[c].gone
      /\ tile.owner = p
  <2>1. s.tiles[c] \in TileType
    BY StateTypes
  <2> QED
    BY <2>1 DEF TileType
<1>2. /\ player \in PlayerType /\ player.stuck = s.players[p].stuck
      /\ player.score = s.players[p].score + s.tiles[c].fish
      /\ \A j \in Slots : player.penguins[j] = IF j = slot THEN c ELSE At(s, p, j)
  BY PlayerArrives
<1>3. s.tiles \in [Cells -> TileType] /\ s.players \in [Players -> PlayerType] /\ s.ply \in Nat
  BY StateTypes, StateParts
<1>4. t = [s EXCEPT !.tiles = [s.tiles EXCEPT ![c] = tile],
                    !.players = [s.players EXCEPT ![p] = player], !.ply = s.ply + 1]
  BY <1>3, ZenonT(60) DEF PutInto, OnTile, GameState, PlayerType
<1> HIDE DEF tile, player, t
<1>5. /\ [s.tiles EXCEPT ![c] = tile] \in [Cells -> TileType]
      /\ [s.players EXCEPT ![p] = player] \in [Players -> PlayerType]
      /\ s.ply + 1 \in Nat
  BY <1>1, <1>2, <1>3
<1>6. /\ t \in GameState
      /\ t.tiles = [s.tiles EXCEPT ![c] = tile] /\ t.players = [s.players EXCEPT ![p] = player]
      /\ t.phase = s.phase /\ t.turn = s.turn /\ t.winner = s.winner /\ t.ply = s.ply + 1
  BY <1>4, <1>5 DEF GameState, TileType, PlayerType
<1>7. ASSUME NEW x \in Cells
      PROVE  /\ t.tiles[x].fish = s.tiles[x].fish /\ t.tiles[x].gone = s.tiles[x].gone
             /\ t.tiles[x].owner = IF x = c THEN p ELSE s.tiles[x].owner
  <2>1. t.tiles[x] = IF x = c THEN tile ELSE s.tiles[x]
    BY <1>3, <1>6
  <2> QED
    BY <1>1, <2>1
<1>8. ASSUME NEW q \in Players
      PROVE  /\ t.players[q].score = s.players[q].score + IF q = p THEN s.tiles[c].fish ELSE 0
             /\ t.players[q].stuck = s.players[q].stuck
             /\ \A i \in Slots : At(t, q, i) = IF q = p /\ i = slot THEN c ELSE At(s, q, i)
  <2>1. t.players[q] = IF q = p THEN player ELSE s.players[q]
    BY <1>3, <1>6
  <2>2. s.players[q].score \in Nat
    BY StateParts
  <2>3. \A i : At(t, q, i) = t.players[q].penguins[i] /\ At(s, q, i) = s.players[q].penguins[i]
    BY DEF At
  <2> QED
    BY <1>2, <2>1, <2>2, <2>3
<1> QED
  BY <1>6, <1>7, <1>8 DEF t

\* The same of one tile, and of one slot.
LEMMA PutTile ==
    ASSUME NEW s \in GameState, NEW p \in Players, NEW slot \in Slots, NEW c \in Cells,
           NEW x \in Cells
    PROVE  /\ PutInto(s, p, slot, c).tiles[x].fish = s.tiles[x].fish
           /\ PutInto(s, p, slot, c).tiles[x].gone = s.tiles[x].gone
           /\ PutInto(s, p, slot, c).tiles[x].owner = IF x = c THEN p ELSE s.tiles[x].owner
BY PutParts

\* A slot after a placement.
LEMMA PutSlot ==
    ASSUME NEW s \in GameState, NEW p \in Players, NEW slot \in Slots, NEW c \in Cells,
           NEW q \in Players, NEW i \in Slots
    PROVE  At(PutInto(s, p, slot, c), q, i) = IF q = p /\ i = slot THEN c ELSE At(s, q, i)
BY PutParts

\* The board stays one board.
LEMMA PutFits ==
    ASSUME NEW s, Fits(s), NEW p \in Players, NEW slot \in Slots, At(s, p, slot) = NoTile,
           NEW c, Open(s, c)
    PROVE  Fits(PutInto(s, p, slot, c))
<1> DEFINE t == PutInto(s, p, slot, c)
<1>1. c \in Cells /\ s \in GameState /\ ~s.tiles[c].gone /\ s.tiles[c].owner = None
      /\ c # NoTile /\ \A q \in Players : q # None
  BY CellsArePairs DEF Fits, Open, Players, None
<1>2. t \in GameState
  BY <1>1, PutParts
<1>3. \A x \in Cells : /\ t.tiles[x].gone = s.tiles[x].gone
                       /\ t.tiles[x].owner = IF x = c THEN p ELSE s.tiles[x].owner
  BY <1>1, PutTile
<1>4. ASSUME NEW q \in Players, NEW i \in Slots
      PROVE  At(t, q, i) = IF q = p /\ i = slot THEN c ELSE At(s, q, i)
  BY <1>1, PutSlot
<1>5. ASSUME NEW q \in Players, NEW i \in Slots
      PROVE  At(s, q, i) # c
  BY <1>1 DEF Fits
<1> HIDE DEF t
<1>6. ASSUME NEW x \in Cells, NEW q \in Players
      PROVE  t.tiles[x].owner = q <=> \E i \in Slots : At(t, q, i) = x
  <2>1. s.tiles[x].owner = q <=> \E i \in Slots : At(s, q, i) = x
    BY DEF Fits
  <2>2. CASE x = c
    <3>1. t.tiles[x].owner = p
      BY <1>3, <2>2
    <3>2. (\E i \in Slots : At(t, q, i) = x) <=> q = p
      BY <1>4, <1>5, <2>2
    <3> QED
      BY <3>1, <3>2
  <2>3. CASE x # c
    <3>1. t.tiles[x].owner = s.tiles[x].owner
      BY <1>3, <2>3
    <3>2. \A i \in Slots : At(t, q, i) = x <=> At(s, q, i) = x
      <4> TAKE i \in Slots
      <4>1. At(t, q, i) = IF q = p /\ i = slot THEN c ELSE At(s, q, i)
        BY <1>4
      <4>2. x # NoTile
        BY CellsArePairs
      <4> QED
        BY <2>3, <4>1, <4>2
    <3> QED
      BY <2>1, <3>1, <3>2
  <2> QED
    BY <2>2, <2>3
<1>7. \A x \in Cells : t.tiles[x].owner # None => ~t.tiles[x].gone
  BY <1>1, <1>3 DEF Fits
<1>8. ASSUME NEW q \in Players, NEW i \in Slots, NEW j \in Slots,
             At(t, q, i) = At(t, q, j), At(t, q, i) # NoTile
      PROVE  i = j
  <2>1. /\ At(t, q, i) = IF q = p /\ i = slot THEN c ELSE At(s, q, i)
        /\ At(t, q, j) = IF q = p /\ j = slot THEN c ELSE At(s, q, j)
    BY <1>4
  <2>2. At(s, q, i) # c /\ At(s, q, j) # c
    BY <1>5
  <2>3. CASE (q = p /\ i = slot) \/ (q = p /\ j = slot)
    BY <1>8, <2>1, <2>2, <2>3
  <2>4. CASE ~(q = p /\ i = slot) /\ ~(q = p /\ j = slot)
    <3>1. At(s, q, i) = At(s, q, j) /\ At(s, q, i) # NoTile
      BY <1>8, <2>1, <2>4
    <3> QED
      BY <3>1 DEF Fits
  <2> QED
    BY <2>3, <2>4
<1>9. Fits(t)
  BY <1>2, <1>6, <1>7, <1>8 DEF Fits
<1> QED
  BY <1>9 DEF t

\* The placement alone is PutDown.
LEMMA PutAgrees ==
    ASSUME NEW s, Fits(s), NEW p \in Players, NEW slot \in Slots, At(s, p, slot) = NoTile,
           \A i \in Slots : At(s, p, i) = NoTile => slot <= i,
           NEW c, Open(s, c)
    PROVE  AsServer(PutInto(s, p, slot, c)) = Server!PutDown(AsServer(s), p, c)
<1> DEFINE t == PutInto(s, p, slot, c)
           A == AsServer(s)
           B == AsServer(t)
           r == Server!PutDown(A, p, c)
<1>1. c \in Cells /\ s \in GameState /\ t \in GameState /\ A \in Server!GameState
      /\ s.tiles[c].owner = None /\ p # None
  BY PutParts, AsServerType DEF Fits, Open, Players, None
<1>2. /\ A.fish = [x \in Cells |-> s.tiles[x].fish]
      /\ A.gone = {x \in Cells : s.tiles[x].gone}
      /\ A.owner = {x \in Cells \X Players : s.tiles[x[1]].owner = x[2]}
      /\ A.penguins = {x \in Players \X Slots \X Cells : At(s, x[1], x[2]) = x[3]}
      /\ A.score = [q \in Players |-> s.players[q].score]
      /\ A.stuck = {q \in Players : s.players[q].stuck}
      /\ A.phase = s.phase /\ A.turn = s.turn /\ A.winner = s.winner /\ A.ply = s.ply
  BY <1>1, AsServerParts
<1>3. /\ B.fish = [x \in Cells |-> t.tiles[x].fish]
      /\ B.gone = {x \in Cells : t.tiles[x].gone}
      /\ B.owner = {x \in Cells \X Players : t.tiles[x[1]].owner = x[2]}
      /\ B.penguins = {x \in Players \X Slots \X Cells : At(t, x[1], x[2]) = x[3]}
      /\ B.score = [q \in Players |-> t.players[q].score]
      /\ B.stuck = {q \in Players : t.players[q].stuck}
      /\ B.phase = t.phase /\ B.turn = t.turn /\ B.winner = t.winner /\ B.ply = t.ply
  BY <1>1, AsServerParts
<1> HIDE DEF A, B
<1>4. Server!FreeSlots(A, p) = {i \in Slots : At(s, p, i) = NoTile}
  <2>1. ASSUME NEW i \in Slots
        PROVE  (\A x \in Server!PenguinsOf(A, p) : x[2] # i) <=> At(s, p, i) = NoTile
    <3>1. Server!PenguinsOf(A, p)
          = {<<p, k, At(s, p, k)>> : k \in {j \in Slots : At(s, p, j) # NoTile}}
      BY <1>1, PenguinsAgree DEF A
    <3>2. (\A x \in Server!PenguinsOf(A, p) : x[2] # i)
          <=> \A k \in {j \in Slots : At(s, p, j) # NoTile} : <<p, k, At(s, p, k)>>[2] # i
      BY <3>1
    <3> QED
      BY <3>2
  <2> QED
    BY <2>1, SameBoard DEF Server!FreeSlots
<1>5. Server!FillSlot(A, p, c) = {<<p, slot, c>>}
  <2> DEFINE free == {i \in Slots : At(s, p, i) = NoTile}
             first == {n \in free : \A m \in free : n <= m}
  <2>1. \A i \in Slots : i \in Int
    BY DEF Slots
  <2>2. first = {slot}
    <3>1. slot \in first
      OBVIOUS
    <3>2. \A n \in first : n = slot
      <4> TAKE n \in first
      <4>1. n <= slot /\ slot <= n /\ n \in Int /\ slot \in Int
        BY <2>1
      <4> QED
        BY <4>1
    <3> HIDE DEF first
    <3> QED
      BY <3>1, <3>2
  <2>3. Server!FillSlot(A, p, c) = {<<p, i, c>> : i \in first}
    BY <1>4 DEF Server!FillSlot
  <2> HIDE DEF first
  <2> QED
    BY <2>2, <2>3
<1>6. /\ r.fish = A.fish /\ r.gone = A.gone /\ r.owner = A.owner \cup {<<c, p>>}
      /\ r.penguins = A.penguins \cup {<<p, slot, c>>}
      /\ r.score = [A.score EXCEPT ![p] = A.score[p] + A.fish[c]] /\ r.stuck = A.stuck
      /\ r.phase = A.phase /\ r.turn = A.turn /\ r.winner = A.winner /\ r.ply = A.ply + 1
      /\ r \in Server!GameState
  <2> DEFINE own == A.owner \cup {<<c, p>>}
             pen == A.penguins \cup {<<p, slot, c>>}
             sco == [A.score EXCEPT ![p] = A.score[p] + A.fish[c]]
  <2>1. r = [A EXCEPT !.owner = own, !.score = sco, !.penguins = pen, !.ply = A.ply + 1]
    BY <1>5 DEF Server!PutDown
  <2>2. own \in SUBSET (Server!Cells \X Server!Players)
        /\ pen \in SUBSET (Server!Players \X Server!Slots \X Server!Cells)
    BY <1>1, SameBoard DEF Server!GameState
  <2>3. sco \in [Server!Players -> Nat] /\ A.ply + 1 \in Nat
    <3>1. A.score \in [Server!Players -> Nat] /\ A.fish \in [Server!Cells -> 1..3]
          /\ A.ply \in Nat
      BY <1>1 DEF Server!GameState
    <3>2. p \in Server!Players /\ c \in Server!Cells
      BY <1>1, SameBoard
    <3>3. A.score[p] \in Nat /\ A.fish[c] \in 1..3
      BY <3>1, <3>2
    <3>4. A.score[p] + A.fish[c] \in Nat
      BY <3>3
    <3> DEFINE n == A.score[p] + A.fish[c]
    <3> HIDE DEF n
    <3>5. [A.score EXCEPT ![p] = n] \in [Server!Players -> Nat]
      BY <3>1, <3>4 DEF n
    <3>6. A.ply + 1 \in Nat
      BY <3>1
    <3> QED
      BY <3>5, <3>6 DEF n
  <2> HIDE DEF own, pen, sco, r
  <2>4. /\ r.fish = A.fish /\ r.gone = A.gone /\ r.owner = own
        /\ r.penguins = pen /\ r.score = sco /\ r.stuck = A.stuck
        /\ r.phase = A.phase /\ r.turn = A.turn /\ r.winner = A.winner /\ r.ply = A.ply + 1
        /\ r \in Server!GameState
    BY <1>1, <2>1, <2>2, <2>3 DEF Server!GameState
  <2> QED
    BY <2>4 DEF own, pen, sco
<1> HIDE DEF r
<1>7. B.fish = r.fish /\ B.gone = r.gone
  <2>1. \A x \in Cells : t.tiles[x].fish = s.tiles[x].fish
                         /\ t.tiles[x].gone = s.tiles[x].gone
    BY <1>1, PutTile
  <2> HIDE DEF t
  <2> QED
    BY <1>2, <1>3, <1>6, <2>1
<1>8. B.owner = r.owner
  <2>1. \A x \in Cells : t.tiles[x].owner = IF x = c THEN p ELSE s.tiles[x].owner
    BY <1>1, PutTile
  <2> HIDE DEF t
  <2>2. \A x \in Cells \X Players :
           t.tiles[x[1]].owner = x[2] <=> s.tiles[x[1]].owner = x[2] \/ x = <<c, p>>
    <3> TAKE x \in Cells \X Players
    <3>1. x[1] \in Cells /\ x[2] \in Players /\ x = <<x[1], x[2]>> /\ x[2] # None
      BY DEF Players, None
    <3> QED
      BY <1>1, <2>1, <3>1
  <2>3. <<c, p>> \in Cells \X Players
    BY <1>1
  <2> QED
    BY <1>2, <1>3, <1>6, <2>2, <2>3
<1>9. B.penguins = r.penguins
  <2>1. ASSUME NEW x \in Players \X Slots \X Cells
        PROVE  At(t, x[1], x[2]) = x[3] <=> At(s, x[1], x[2]) = x[3] \/ x = <<p, slot, c>>
    <3>1. x[1] \in Players /\ x[2] \in Slots /\ x[3] \in Cells /\ x = <<x[1], x[2], x[3]>>
          /\ x[3] # NoTile
      BY CellsArePairs
    <3>2. At(t, x[1], x[2]) = IF x[1] = p /\ x[2] = slot THEN c ELSE At(s, x[1], x[2])
      BY <1>1, <3>1, PutSlot
    <3> HIDE DEF t
    <3> QED
      BY <3>1, <3>2
  <2>2. <<p, slot, c>> \in Players \X Slots \X Cells
    BY <1>1
  <2> HIDE DEF t
  <2> QED
    BY <1>2, <1>3, <1>6, <2>1, <2>2
<1>10. B.score = r.score /\ B.stuck = r.stuck
  <2>1. \A q \in Players :
           /\ t.players[q].score = s.players[q].score + IF q = p THEN s.tiles[c].fish ELSE 0
           /\ t.players[q].stuck = s.players[q].stuck
    BY <1>1, PutParts
  <2>2. \A q \in Players : s.players[q].score \in Nat
    BY <1>1, StateParts
  <2> HIDE DEF t
  <2>3. B.stuck = r.stuck
    BY <1>2, <1>3, <1>6, <2>1
  <2>4. A.fish[c] = s.tiles[c].fish /\ A.score[p] = s.players[p].score
    BY <1>1, <1>2
  <2>5. r.score = [q \in Players |-> s.players[q].score + IF q = p THEN s.tiles[c].fish ELSE 0]
    BY <1>2, <1>6, <2>2, <2>4
  <2>6. B.score = r.score
    BY <1>3, <2>1, <2>5
  <2> QED
    BY <2>3, <2>6
<1>11. B.phase = r.phase /\ B.turn = r.turn /\ B.winner = r.winner /\ B.ply = r.ply
  <2>1. t.phase = s.phase /\ t.turn = s.turn /\ t.winner = s.winner /\ t.ply = s.ply + 1
    BY <1>1, PutParts
  <2> HIDE DEF t
  <2> QED
    BY <1>2, <1>3, <1>6, <2>1
<1> HIDE DEF t
<1>12. B = r
  BY <1>1, <1>6, <1>7, <1>8, <1>9, <1>10, <1>11, SameRecord DEF B
<1> QED
  BY <1>12 DEF A, B, r, t

-----------------------------------------------------------------------------
(* A slide. *)

\* The slide alone, of the penguin in a given slot.
SlideOf(s, p, slot, from, to) ==
    [s EXCEPT !.tiles[from].owner = None, !.tiles[from].gone = TRUE,
              !.tiles[to].owner = p,
              !.players[p].score = @ + s.tiles[to].fish,
              !.players[p].penguins[slot] = to,
              !.ply = @ + 1]

\* The parts of that state.
LEMMA SlideParts ==
    ASSUME NEW s \in GameState, NEW p \in Players, NEW slot \in Slots,
           NEW from \in Cells, NEW to \in Cells, from # to
    PROVE  /\ SlideOf(s, p, slot, from, to) \in GameState
           /\ \A x \in Cells :
                 /\ SlideOf(s, p, slot, from, to).tiles[x].fish = s.tiles[x].fish
                 /\ SlideOf(s, p, slot, from, to).tiles[x].gone = (s.tiles[x].gone \/ x = from)
                 /\ SlideOf(s, p, slot, from, to).tiles[x].owner
                    = IF x = from THEN None ELSE IF x = to THEN p ELSE s.tiles[x].owner
           /\ \A q \in Players :
                 /\ SlideOf(s, p, slot, from, to).players[q].score
                    = s.players[q].score + IF q = p THEN s.tiles[to].fish ELSE 0
                 /\ SlideOf(s, p, slot, from, to).players[q].stuck = s.players[q].stuck
           /\ \A q \in Players, i \in Slots :
                 At(SlideOf(s, p, slot, from, to), q, i) = IF q = p /\ i = slot THEN to
                                                           ELSE At(s, q, i)
           /\ SlideOf(s, p, slot, from, to).phase = s.phase
           /\ SlideOf(s, p, slot, from, to).turn = s.turn
           /\ SlideOf(s, p, slot, from, to).winner = s.winner
           /\ SlideOf(s, p, slot, from, to).ply = s.ply + 1
<1> DEFINE tf == [s.tiles[from] EXCEPT !.owner = None, !.gone = TRUE]
           tt == [s.tiles[to] EXCEPT !.owner = p]
           player == OnTile(s.players[p], slot, to, s.tiles[to].fish)
           t == SlideOf(s, p, slot, from, to)
<1>1. /\ tf \in TileType /\ tf.fish = s.tiles[from].fish /\ tf.gone = TRUE /\ tf.owner = None
      /\ tt \in TileType /\ tt.fish = s.tiles[to].fish /\ tt.gone = s.tiles[to].gone
      /\ tt.owner = p
  <2>1. s.tiles[from] \in TileType /\ s.tiles[to] \in TileType
    BY StateTypes
  <2> QED
    BY <2>1 DEF TileType
<1>2. /\ player \in PlayerType /\ player.stuck = s.players[p].stuck
      /\ player.score = s.players[p].score + s.tiles[to].fish
      /\ \A j \in Slots : player.penguins[j] = IF j = slot THEN to ELSE At(s, p, j)
  BY PlayerArrives
<1>3. s.tiles \in [Cells -> TileType] /\ s.players \in [Players -> PlayerType] /\ s.ply \in Nat
  BY StateTypes, StateParts
<1> DEFINE tiles == [[s.tiles EXCEPT ![from] = tf] EXCEPT ![to] = tt]
           players == [s.players EXCEPT ![p] = player]
<1>4. t = [s EXCEPT !.tiles = tiles, !.players = players, !.ply = s.ply + 1]
  <2> DEFINE tiles1 == [s.tiles EXCEPT ![from].owner = None, ![from].gone = TRUE,
                                       ![to].owner = p]
             players1 == [s.players EXCEPT ![p].score = @ + s.tiles[to].fish,
                                           ![p].penguins[slot] = to]
  <2>1. t = [s EXCEPT !.tiles = tiles1, !.players = players1, !.ply = s.ply + 1]
    <3> DEFINE a == [s EXCEPT !.tiles[from].owner = None, !.tiles[from].gone = TRUE,
                              !.tiles[to].owner = p]
               b == [s EXCEPT !.tiles = tiles1]
    <3>1. a = b
      BY DEF GameState
    <3>2. b.tiles = tiles1 /\ b.players = s.players /\ b.ply = s.ply
      BY DEF GameState
    <3>3. t = [a EXCEPT !.players[p].score = @ + s.tiles[to].fish,
                        !.players[p].penguins[slot] = to,
                        !.ply = @ + 1]
      BY DEF SlideOf
    <3>4. t = [b EXCEPT !.players = players1, !.ply = s.ply + 1]
      BY <3>1, <3>2, <3>3, ZenonT(60)
    <3> QED
      BY <3>4 DEF GameState
  <2>2. tiles1 = tiles
    <3>1. s.tiles[from] \in TileType /\ s.tiles[to] \in TileType
      BY StateTypes
    <3> QED
      BY <1>3, <3>1 DEF TileType
  <2>3. players1 = players
    <3>1. s.players[p] \in PlayerType
      BY StateTypes
    <3> QED
      BY <1>3, <3>1 DEF OnTile, PlayerType
  <2> HIDE DEF tiles1, players1, tiles, players, t
  <2> QED
    BY <2>1, <2>2, <2>3
<1> HIDE DEF tf, tt, player, t
<1>5. tiles \in [Cells -> TileType] /\ players \in [Players -> PlayerType] /\ s.ply + 1 \in Nat
  BY <1>1, <1>2, <1>3
<1>6. /\ t \in GameState /\ t.tiles = tiles /\ t.players = players
      /\ t.phase = s.phase /\ t.turn = s.turn /\ t.winner = s.winner /\ t.ply = s.ply + 1
  <2> HIDE DEF tiles, players
  <2> QED
    BY <1>4, <1>5 DEF GameState, TileType, PlayerType
<1>7. ASSUME NEW x \in Cells
      PROVE  /\ t.tiles[x].fish = s.tiles[x].fish
             /\ t.tiles[x].gone = (s.tiles[x].gone \/ x = from)
             /\ t.tiles[x].owner = IF x = from THEN None
                                   ELSE IF x = to THEN p ELSE s.tiles[x].owner
  <2>1. tiles[x] = IF x = from THEN tf ELSE IF x = to THEN tt ELSE s.tiles[x]
    BY <1>3
  <2>2. s.tiles[x].gone \in BOOLEAN /\ s.tiles[to].gone \in BOOLEAN
    BY StateParts
  <2> HIDE DEF tiles
  <2>3. CASE x = from
    BY <1>1, <1>6, <2>1, <2>3
  <2>4. CASE x = to
    BY <1>1, <1>6, <2>1, <2>2, <2>4
  <2>5. CASE x # from /\ x # to
    BY <1>6, <2>1, <2>2, <2>5
  <2> QED
    BY <2>3, <2>4, <2>5
<1>8. ASSUME NEW q \in Players
      PROVE  /\ t.players[q].score = s.players[q].score + IF q = p THEN s.tiles[to].fish ELSE 0
             /\ t.players[q].stuck = s.players[q].stuck
             /\ \A i \in Slots : At(t, q, i) = IF q = p /\ i = slot THEN to ELSE At(s, q, i)
  <2>1. t.players[q] = IF q = p THEN player ELSE s.players[q]
    BY <1>3, <1>6
  <2>2. s.players[q].score \in Nat
    BY StateParts
  <2>3. \A i : At(t, q, i) = t.players[q].penguins[i] /\ At(s, q, i) = s.players[q].penguins[i]
    BY DEF At
  <2> HIDE DEF tiles, players
  <2> QED
    BY <1>2, <2>1, <2>2, <2>3
<1> HIDE DEF tiles, players
<1> QED
  BY <1>6, <1>7, <1>8 DEF t

\* The same of one tile, and of one slot.
LEMMA SlideTile ==
    ASSUME NEW s \in GameState, NEW p \in Players, NEW slot \in Slots,
           NEW from \in Cells, NEW to \in Cells, from # to, NEW x \in Cells
    PROVE  /\ SlideOf(s, p, slot, from, to).tiles[x].fish = s.tiles[x].fish
           /\ SlideOf(s, p, slot, from, to).tiles[x].gone = (s.tiles[x].gone \/ x = from)
           /\ SlideOf(s, p, slot, from, to).tiles[x].owner
              = IF x = from THEN None ELSE IF x = to THEN p ELSE s.tiles[x].owner
BY SlideParts

\* A slot after a slide.
LEMMA SlideSlot ==
    ASSUME NEW s \in GameState, NEW p \in Players, NEW slot \in Slots,
           NEW from \in Cells, NEW to \in Cells, from # to,
           NEW q \in Players, NEW i \in Slots
    PROVE  At(SlideOf(s, p, slot, from, to), q, i) = IF q = p /\ i = slot THEN to
                                                     ELSE At(s, q, i)
BY SlideParts

\* The board stays one board.
LEMMA SlideFits ==
    ASSUME NEW s, Fits(s), NEW p \in Players, NEW slot \in Slots, NEW from \in Cells,
           At(s, p, slot) = from, NEW to, Open(s, to)
    PROVE  from # to /\ Fits(SlideOf(s, p, slot, from, to))
<1> DEFINE t == SlideOf(s, p, slot, from, to)
<1>1. to \in Cells /\ s \in GameState /\ ~s.tiles[to].gone /\ s.tiles[to].owner = None
      /\ to # NoTile /\ from # NoTile /\ \A q \in Players : q # None
  BY CellsArePairs DEF Fits, Open, Players, None
<1>2. s.tiles[from].owner = p /\ from # to
  BY <1>1 DEF Fits
<1>3. t \in GameState
  BY <1>1, <1>2, SlideParts
<1>4. \A x \in Cells : /\ t.tiles[x].gone = (s.tiles[x].gone \/ x = from)
                       /\ t.tiles[x].owner = IF x = from THEN None
                                             ELSE IF x = to THEN p ELSE s.tiles[x].owner
  BY <1>1, <1>2, SlideTile
<1>5. ASSUME NEW q \in Players, NEW i \in Slots
      PROVE  At(t, q, i) = IF q = p /\ i = slot THEN to ELSE At(s, q, i)
  BY <1>1, <1>2, SlideSlot
<1>6. ASSUME NEW q \in Players, NEW i \in Slots
      PROVE  At(s, q, i) # to /\ (At(s, q, i) = from => q = p /\ i = slot)
  <2>1. At(s, q, i) # to
    BY <1>1 DEF Fits
  <2>2. ASSUME At(s, q, i) = from
        PROVE  q = p /\ i = slot
    <3>1. s.tiles[from].owner = q
      BY <2>2 DEF Fits
    <3>2. q = p
      BY <1>2, <3>1
    <3>3. At(s, p, i) = At(s, p, slot) /\ At(s, p, i) # NoTile
      BY <1>1, <2>2, <3>2
    <3> QED
      BY <3>2, <3>3 DEF Fits
  <2> QED
    BY <2>1, <2>2
<1> HIDE DEF t
<1>7. ASSUME NEW x \in Cells, NEW q \in Players
      PROVE  t.tiles[x].owner = q <=> \E i \in Slots : At(t, q, i) = x
  <2>1. s.tiles[x].owner = q <=> \E i \in Slots : At(s, q, i) = x
    BY DEF Fits
  <2>2. CASE x = to
    <3>1. t.tiles[x].owner = p
      BY <1>2, <1>4, <2>2
    <3>2. (\E i \in Slots : At(t, q, i) = x) <=> q = p
      BY <1>5, <1>6, <2>2
    <3> QED
      BY <3>1, <3>2
  <2>3. CASE x = from
    <3>1. t.tiles[x].owner # q
      BY <1>1, <1>4, <2>3
    <3>2. ASSUME NEW i \in Slots
          PROVE  At(t, q, i) # x
      <4>1. At(t, q, i) = IF q = p /\ i = slot THEN to ELSE At(s, q, i)
        BY <1>5
      <4> QED
        BY <1>2, <1>6, <2>3, <4>1
    <3> QED
      BY <3>1, <3>2
  <2>4. CASE x # to /\ x # from
    <3>1. t.tiles[x].owner = s.tiles[x].owner
      BY <1>4, <2>4
    <3>2. ASSUME NEW i \in Slots
          PROVE  At(t, q, i) = x <=> At(s, q, i) = x
      <4>1. At(t, q, i) = IF q = p /\ i = slot THEN to ELSE At(s, q, i)
        BY <1>5
      <4> QED
        BY <2>4, <4>1
    <3> QED
      BY <2>1, <3>1, <3>2
  <2> QED
    BY <2>2, <2>3, <2>4
<1>8. \A x \in Cells : t.tiles[x].owner # None => ~t.tiles[x].gone
  BY <1>1, <1>4 DEF Fits
<1>9. ASSUME NEW q \in Players, NEW i \in Slots, NEW j \in Slots,
             At(t, q, i) = At(t, q, j), At(t, q, i) # NoTile
      PROVE  i = j
  <2>1. /\ At(t, q, i) = IF q = p /\ i = slot THEN to ELSE At(s, q, i)
        /\ At(t, q, j) = IF q = p /\ j = slot THEN to ELSE At(s, q, j)
    BY <1>5
  <2>2. At(s, q, i) # to /\ At(s, q, j) # to
    BY <1>6
  <2>3. CASE (q = p /\ i = slot) \/ (q = p /\ j = slot)
    BY <1>9, <2>1, <2>2, <2>3
  <2>4. CASE ~(q = p /\ i = slot) /\ ~(q = p /\ j = slot)
    <3>1. At(s, q, i) = At(s, q, j) /\ At(s, q, i) # NoTile
      BY <1>9, <2>1, <2>4
    <3> QED
      BY <3>1 DEF Fits
  <2> QED
    BY <2>3, <2>4
<1>10. Fits(t)
  BY <1>3, <1>7, <1>8, <1>9 DEF Fits
<1> QED
  BY <1>2, <1>10 DEF t

\* The slide alone is SlideTo.
LEMMA SlideAgrees ==
    ASSUME NEW s, Fits(s), NEW p \in Players, NEW slot \in Slots, NEW from \in Cells,
           At(s, p, slot) = from, NEW to, Open(s, to)
    PROVE  AsServer(SlideOf(s, p, slot, from, to)) = Server!SlideTo(AsServer(s), p, from, to)
<1> DEFINE t == SlideOf(s, p, slot, from, to)
           A == AsServer(s)
           B == AsServer(t)
           r == Server!SlideTo(A, p, from, to)
<1>1. to \in Cells /\ s \in GameState /\ A \in Server!GameState /\ from # to
      /\ s.tiles[to].owner = None /\ s.tiles[from].owner = p /\ p # None /\ from # NoTile
  BY AsServerType, SlideFits, CellsArePairs DEF Fits, Open, Players, None
<1>0. t \in GameState
  BY <1>1, SlideParts
<1>2. /\ A.fish = [x \in Cells |-> s.tiles[x].fish]
      /\ A.gone = {x \in Cells : s.tiles[x].gone}
      /\ A.owner = {x \in Cells \X Players : s.tiles[x[1]].owner = x[2]}
      /\ A.penguins = {x \in Players \X Slots \X Cells : At(s, x[1], x[2]) = x[3]}
      /\ A.score = [q \in Players |-> s.players[q].score]
      /\ A.stuck = {q \in Players : s.players[q].stuck}
      /\ A.phase = s.phase /\ A.turn = s.turn /\ A.winner = s.winner /\ A.ply = s.ply
  BY <1>1, AsServerParts
<1>3. /\ B.fish = [x \in Cells |-> t.tiles[x].fish]
      /\ B.gone = {x \in Cells : t.tiles[x].gone}
      /\ B.owner = {x \in Cells \X Players : t.tiles[x[1]].owner = x[2]}
      /\ B.penguins = {x \in Players \X Slots \X Cells : At(t, x[1], x[2]) = x[3]}
      /\ B.score = [q \in Players |-> t.players[q].score]
      /\ B.stuck = {q \in Players : t.players[q].stuck}
      /\ B.phase = t.phase /\ B.turn = t.turn /\ B.winner = t.winner /\ B.ply = t.ply
  BY <1>0, AsServerParts
<1> HIDE DEF A, B
<1>4. ASSUME NEW q \in Players, NEW i \in Slots, At(s, q, i) = from
      PROVE  q = p /\ i = slot
  <2>1. s.tiles[from].owner = q
    BY <1>4 DEF Fits
  <2>2. q = p
    BY <1>1, <2>1
  <2>3. At(s, p, i) = At(s, p, slot) /\ At(s, p, i) # NoTile
    BY <1>1, <1>4, <2>2
  <2> QED
    BY <2>2, <2>3 DEF Fits
<1>5. Server!Relocate(A, p, from, to)
      = (A.penguins \ {<<p, slot, from>>}) \cup {<<p, slot, to>>}
  <2> DEFINE new(x) == IF x[1] = p /\ x[3] = from THEN <<p, x[2], to>> ELSE x
  <2>1. <<p, slot, from>> \in A.penguins /\ new(<<p, slot, from>>) = <<p, slot, to>>
    BY <1>2
  <2>2. ASSUME NEW x \in A.penguins, x # <<p, slot, from>>
        PROVE  new(x) = x
    <3>1. x \in Players \X Slots \X Cells /\ At(s, x[1], x[2]) = x[3]
      BY <1>2
    <3>2. x[1] \in Players /\ x[2] \in Slots /\ x = <<x[1], x[2], x[3]>>
      BY <3>1
    <3>3. x[3] = from => x[2] = slot /\ x[1] = p
      BY <1>4, <3>1, <3>2
    <3> QED
      BY <2>2, <3>2, <3>3
  <2>3. Server!Relocate(A, p, from, to) = {new(x) : x \in A.penguins}
    BY DEF Server!Relocate
  <2> HIDE DEF new
  <2> QED
    BY <2>1, <2>2, <2>3
<1>6. /\ r.fish = A.fish /\ r.gone = A.gone \cup {from}
      /\ r.owner = (A.owner \ {<<from, p>>}) \cup {<<to, p>>}
      /\ r.penguins = (A.penguins \ {<<p, slot, from>>}) \cup {<<p, slot, to>>}
      /\ r.score = [A.score EXCEPT ![p] = A.score[p] + A.fish[to]] /\ r.stuck = A.stuck
      /\ r.phase = A.phase /\ r.turn = A.turn /\ r.winner = A.winner /\ r.ply = A.ply + 1
      /\ r \in Server!GameState
  <2> DEFINE gon == A.gone \cup {from}
             own == (A.owner \ {<<from, p>>}) \cup {<<to, p>>}
             pen == (A.penguins \ {<<p, slot, from>>}) \cup {<<p, slot, to>>}
             n == A.score[p] + A.fish[to]
             sco == [A.score EXCEPT ![p] = n]
  <2>1. r = [A EXCEPT !.gone = gon, !.owner = own, !.score = sco, !.penguins = pen,
                      !.ply = A.ply + 1]
    BY <1>5 DEF Server!SlideTo
  <2>2. gon \in SUBSET Server!Cells /\ own \in SUBSET (Server!Cells \X Server!Players)
        /\ pen \in SUBSET (Server!Players \X Server!Slots \X Server!Cells)
    BY <1>1, SameBoard DEF Server!GameState
  <2>3. sco \in [Server!Players -> Nat]
    <3>1. A.score \in [Server!Players -> Nat] /\ A.fish \in [Server!Cells -> 1..3]
      BY <1>1 DEF Server!GameState
    <3>2. p \in Server!Players /\ to \in Server!Cells
      BY <1>1, SameBoard
    <3>3. n \in Nat
      BY <3>1, <3>2
    <3> HIDE DEF n
    <3> QED
      BY <3>1, <3>3
  <2>4. A.ply + 1 \in Nat
    BY <1>1 DEF Server!GameState
  <2> HIDE DEF gon, own, pen, sco, n, r
  <2>5. /\ r.fish = A.fish /\ r.gone = gon /\ r.owner = own
        /\ r.penguins = pen /\ r.score = sco /\ r.stuck = A.stuck
        /\ r.phase = A.phase /\ r.turn = A.turn /\ r.winner = A.winner /\ r.ply = A.ply + 1
        /\ r \in Server!GameState
    BY <1>1, <2>1, <2>2, <2>3, <2>4 DEF Server!GameState
  <2> QED
    BY <2>5 DEF gon, own, pen, sco, n
<1> HIDE DEF r
<1>7. B.fish = r.fish /\ B.gone = r.gone
  <2>1. \A x \in Cells : t.tiles[x].fish = s.tiles[x].fish
                         /\ t.tiles[x].gone = (s.tiles[x].gone \/ x = from)
    BY <1>1, SlideTile
  <2> HIDE DEF t
  <2>2. B.fish = r.fish
    BY <1>2, <1>3, <1>6, <2>1
  <2>3. \A x : x \in B.gone <=> x \in A.gone \/ x = from
    BY <1>2, <1>3, <2>1
  <2> QED
    BY <1>6, <2>2, <2>3
<1>8. B.owner = r.owner
  <2>1. \A x \in Cells : t.tiles[x].owner = IF x = from THEN None
                                            ELSE IF x = to THEN p ELSE s.tiles[x].owner
    BY <1>1, SlideTile
  <2> HIDE DEF t
  <2>2. ASSUME NEW x \in Cells \X Players
        PROVE  t.tiles[x[1]].owner = x[2] <=>
                  (s.tiles[x[1]].owner = x[2] /\ x # <<from, p>>) \/ x = <<to, p>>
    <3>1. x[1] \in Cells /\ x[2] \in Players /\ x = <<x[1], x[2]>> /\ x[2] # None
      BY DEF Players, None
    <3>2. t.tiles[x[1]].owner = IF x[1] = from THEN None
                                ELSE IF x[1] = to THEN p ELSE s.tiles[x[1]].owner
      BY <2>1, <3>1
    <3> QED
      BY <1>1, <3>1, <3>2
  <2>3. <<to, p>> \in Cells \X Players
    BY <1>1
  <2> QED
    BY <1>2, <1>3, <1>6, <2>2, <2>3
<1>9. B.penguins = r.penguins
  <2>1. ASSUME NEW x \in Players \X Slots \X Cells
        PROVE  At(t, x[1], x[2]) = x[3] <=>
                  (At(s, x[1], x[2]) = x[3] /\ x # <<p, slot, from>>) \/ x = <<p, slot, to>>
    <3>1. x[1] \in Players /\ x[2] \in Slots /\ x[3] \in Cells /\ x = <<x[1], x[2], x[3]>>
      OBVIOUS
    <3>2. At(t, x[1], x[2]) = IF x[1] = p /\ x[2] = slot THEN to ELSE At(s, x[1], x[2])
      BY <1>1, <3>1, SlideSlot
    <3> HIDE DEF t
    <3> QED
      BY <1>1, <3>1, <3>2
  <2>2. <<p, slot, to>> \in Players \X Slots \X Cells
    BY <1>1
  <2> HIDE DEF t
  <2> QED
    BY <1>2, <1>3, <1>6, <2>1, <2>2
<1>10. B.score = r.score /\ B.stuck = r.stuck
  <2>1. \A q \in Players :
           /\ t.players[q].score = s.players[q].score + IF q = p THEN s.tiles[to].fish ELSE 0
           /\ t.players[q].stuck = s.players[q].stuck
    BY <1>1, SlideParts
  <2>2. \A q \in Players : s.players[q].score \in Nat
    BY <1>1, StateParts
  <2> HIDE DEF t
  <2>3. B.stuck = r.stuck
    BY <1>2, <1>3, <1>6, <2>1
  <2>4. A.fish[to] = s.tiles[to].fish /\ A.score[p] = s.players[p].score
    BY <1>1, <1>2
  <2>5. r.score = [q \in Players |-> s.players[q].score + IF q = p THEN s.tiles[to].fish ELSE 0]
    BY <1>2, <1>6, <2>2, <2>4
  <2>6. B.score = r.score
    BY <1>3, <2>1, <2>5
  <2> QED
    BY <2>3, <2>6
<1>11. B.phase = r.phase /\ B.turn = r.turn /\ B.winner = r.winner /\ B.ply = r.ply
  <2>1. t.phase = s.phase /\ t.turn = s.turn /\ t.winner = s.winner /\ t.ply = s.ply + 1
    BY <1>1, SlideParts
  <2> HIDE DEF t
  <2> QED
    BY <1>2, <1>3, <1>6, <2>1
<1> HIDE DEF t
<1>12. B = r
  BY <1>0, <1>6, <1>7, <1>8, <1>9, <1>10, <1>11, SameRecord DEF B
<1> QED
  BY <1>12 DEF A, B, r, t

-----------------------------------------------------------------------------
(* Moves. *)

\* A finite set of positive integers has a smallest one.
LEMMA MinExists ==
    ASSUME NEW n \in Nat, NEW D \in SUBSET (1..n), D # {}
    PROVE  Min(D) \in D /\ \A y \in D : Min(D) <= y
<1>1. D \in SUBSET Nat
  OBVIOUS
<1>2. PICK k \in D : \A j \in D : ~(<<j, k>> \in OpToRel(<, Nat))
  BY <1>1, NatLessThanWellFounded, WFMin
<1>3. ASSUME NEW y \in D
      PROVE  k <= y
  <2>1. ~(y < k)
    BY <1>1, <1>2 DEF OpToRel
  <2> QED
    BY <1>1, <2>1
<1> QED
  BY <1>3 DEF Min

\* How far the placing has come: the players take turns, and the slots fill from the first.
Stage(s) ==
    s.phase = "placing" =>
        /\ s.ply < 2 * NumPenguins /\ s.turn = s.ply % 2
        /\ \A p \in Players, i \in Slots :
              i > (s.ply + 1 - p) \div 2 => At(s, p, i) = NoTile

\* The games the browser plays.
Local(s) == Fits(s) /\ Stage(s)

\* The slot doPlace takes.
FirstSlot(s, p) == Min({i \in Slots : s.players[p].penguins[i] = NoTile})

\* The player on turn has a free slot, and those after it are free too.
LEMMA SlotIsFree ==
    ASSUME NEW s, Local(s), s.phase = "placing"
    PROVE  /\ FirstSlot(s, s.turn) \in Slots /\ At(s, s.turn, FirstSlot(s, s.turn)) = NoTile
           /\ FirstSlot(s, s.turn) <= s.ply \div 2 + 1
           /\ \A i \in Slots : At(s, s.turn, i) = NoTile => FirstSlot(s, s.turn) <= i
<1> DEFINE p == s.turn
           D == {i \in Slots : At(s, p, i) = NoTile}
           k == s.ply \div 2 + 1
<1>1. s.ply \in Nat /\ p \in Players /\ NumPenguins \in Nat
  BY StateParts, BrowserAssumption DEF Local, Fits
<1>2. s.ply < 2 * NumPenguins /\ p = s.ply % 2
  BY DEF Local, Stage
<1>3. k \in Slots /\ k > (s.ply + 1 - p) \div 2
  BY <1>1, <1>2 DEF Slots
<1>4. At(s, p, k) = NoTile
  <2> HIDE DEF k, p
  <2> QED
    BY <1>1, <1>3 DEF Local, Stage, p
<1>5. k \in D
  BY <1>3, <1>4
<1>6. D \in SUBSET (1..NumPenguins)
  BY DEF Slots
<1>7. FirstSlot(s, p) = Min(D)
  BY DEF FirstSlot, At
<1> HIDE DEF D, k
<1>8. Min(D) \in D /\ \A y \in D : Min(D) <= y
  BY <1>1, <1>5, <1>6, MinExists
<1> QED
  BY <1>5, <1>7, <1>8 DEF D, k

\* A placement in the browser is one on the server.
LEMMA PlaceAgrees ==
    ASSUME NEW s, Local(s), s.phase = "placing", NEW c, Open(s, c)
    PROVE  /\ AsServer(doPlace(s, s.turn, c)) = Server!ApplyPlace(AsServer(s), s.turn, c)
           /\ Local(doPlace(s, s.turn, c))
<1> DEFINE p == s.turn
           slot == FirstSlot(s, p)
           t == PutInto(s, p, slot, c)
           A == AsServer(s)
           T == Server!PutDown(A, p, c)
           n == (t.turn + 1) % 2
           u == [t EXCEPT !.turn = n]
<1>1. s \in GameState /\ p \in Players /\ c \in Cells /\ s.ply \in Nat /\ Fits(s)
  BY StateParts DEF Local, Fits, Open
<1>2. /\ slot \in Slots /\ At(s, p, slot) = NoTile /\ slot <= s.ply \div 2 + 1
      /\ \A i \in Slots : At(s, p, i) = NoTile => slot <= i
  BY SlotIsFree
<1>3. AsServer(t) = T /\ Fits(t)
  <2> HIDE DEF slot, p
  <2> QED
    BY <1>1, <1>2, PutFits, PutAgrees
<1>4. t.phase = s.phase /\ t.turn = p /\ t.ply = s.ply + 1
  <2> HIDE DEF slot
  <2>1. p = s.turn
    OBVIOUS
  <2> HIDE DEF p
  <2> QED
    BY <1>1, <1>2, <2>1, PutParts
<1>5. t \in GameState
  BY <1>3 DEF Fits
<1>6. doPlace(s, p, c) = IF t.ply >= 2 * NumPenguins THEN OpenMoving[t] ELSE u
  <2>1. u = [t EXCEPT !.turn = (@ + 1) % 2]
    <3> HIDE DEF t
    <3> QED
      BY <1>5 DEF GameState
  <2> QED
    BY <2>1 DEF doPlace, PutInto, FirstSlot
<1>7. A.turn = p /\ T.ply = t.ply
  <2>1. T.ply = AsServer(t).ply
    BY <1>3
  <2> HIDE DEF T, t
  <2> QED
    BY <2>1 DEF AsServer
<1>8. Server!ApplyPlace(A, p, c) = IF t.ply >= 2 * NumPenguins THEN Server!OpenMoving(T)
                                   ELSE [T EXCEPT !.turn = n]
  <2>1. n = Server!NextPlayer(A.turn)
    BY <1>4, <1>7 DEF Server!NextPlayer
  <2> HIDE DEF n, A, T, t
  <2> QED
    BY <1>7, <2>1 DEF Server!ApplyPlace, T
<1>9. n \in Players /\ n = (p + 1) % 2
  BY <1>1, <1>4 DEF Players
<1> HIDE DEF n, T, A
<1>10. CASE t.ply >= 2 * NumPenguins
  <2> HIDE DEF t, slot
  <2>1. /\ AsServer(OpenMoving[t]) = Server!OpenMoving(T)
        /\ Fits(OpenMoving[t]) /\ OpenMoving[t].phase \in {"moving", "finished"}
    BY <1>3, OpeningAgrees
  <2>2. Local(OpenMoving[t])
    BY <2>1 DEF Local, Stage
  <2> QED
    BY <1>6, <1>8, <1>10, <2>1, <2>2 DEF A
<1>11. CASE ~(t.ply >= 2 * NumPenguins)
  <2>1. /\ Fits(u) /\ u.turn = n /\ u.phase = t.phase /\ u.ply = t.ply
        /\ AsServer(u) = [T EXCEPT !.turn = n]
    <3> HIDE DEF t
    <3> QED
      BY <1>3, <1>9, TurnAgrees
  <2>2. \A q \in Players, i \in Slots : At(u, q, i) = At(t, q, i)
    <3> HIDE DEF t
    <3> QED
      BY <1>5 DEF At, GameState
  <2>3. ASSUME NEW q \in Players, NEW i \in Slots, i > (u.ply + 1 - q) \div 2
        PROVE  At(u, q, i) = NoTile
    <3>1. At(u, q, i) = IF q = p /\ i = slot THEN c ELSE At(s, q, i)
      <4> HIDE DEF u, slot, p
      <4> QED
        BY <1>1, <1>2, <2>2, <2>3, PutSlot
    <3>2. i \in Int /\ slot \in Int /\ q \in {0, 1} /\ p \in {0, 1} /\ p = s.ply % 2
      BY <1>1, <1>2 DEF Slots, Players, Local, Stage
    <3>3. i > (s.ply + 2 - q) \div 2
      <4>1. u.ply + 1 - q = s.ply + 2 - q
        <5> HIDE DEF u, t, p, slot
        <5> QED
          BY <1>1, <1>4, <2>1, <3>2
      <4> QED
        BY <2>3, <4>1
    <3>4. i > (s.ply + 1 - q) \div 2
      BY <1>1, <3>2, <3>3
    <3>5. At(s, q, i) = NoTile
      BY <3>4, <2>3 DEF Local, Stage
    <3>6. ~(q = p /\ i = slot)
      <4> HIDE DEF slot, p
      <4> QED
        BY <1>1, <1>2, <3>2, <3>3
    <3> QED
      BY <3>1, <3>5, <3>6
  <2>4. u.ply < 2 * NumPenguins /\ u.turn = u.ply % 2
    <3>1. p \in {0, 1} /\ p = s.ply % 2 /\ NumPenguins \in Nat
      BY <1>1, BrowserAssumption DEF Players, Local, Stage
    <3> HIDE DEF u, t, p
    <3> QED
      BY <1>1, <1>4, <1>9, <1>11, <2>1, <3>1
  <2>5. Local(u)
    <3> HIDE DEF u
    <3> QED
      BY <2>1, <2>3, <2>4 DEF Local, Stage
  <2> HIDE DEF u
  <2> QED
    BY <1>6, <1>8, <1>11, <2>1, <2>5 DEF A
<1> QED
  BY <1>10, <1>11

\* A slide ends on an open tile.
LEMMA SlidesEndOpen ==
    ASSUME NEW s \in GameState, NEW from \in Cells, NEW to \in legalMovesFrom(s, from)
    PROVE  Open(s, to)
<1>1. to \in Server!LegalMovesFrom(AsServer(s), from)
  BY SlidesAgree
<1>2. to \in Server!Free(AsServer(s))
  BY <1>1 DEF Server!LegalMovesFrom
<1> QED
  BY <1>2, OpenIsFree

\* A slide in the browser is one on the server.
LEMMA SlideStepAgrees ==
    ASSUME NEW s, Fits(s), s.phase = "moving", NEW p \in Players,
           NEW from \in Cells, s.tiles[from].owner = p, NEW to \in legalMovesFrom(s, from)
    PROVE  /\ AsServer(doMove(s, p, from, to)) = Server!ApplySlide(AsServer(s), p, from, to)
           /\ Fits(doMove(s, p, from, to))
           /\ doMove(s, p, from, to).phase \in {"moving", "finished"}
<1> DEFINE slot == CHOOSE i \in Slots : s.players[p].penguins[i] = from
           m == SlideOf(s, p, slot, from, to)
           t == settleIsolatedPenguins[m]
           e == eliminatePlayer(p)[t]
           u == IF playerCanMove(t, p) THEN t ELSE e
           A == AsServer(s)
           T == Server!Settle[Server!SlideTo(A, p, from, to)]
           U == IF Server!PlayerCanMove(T, p) THEN T ELSE Server!Eliminate(p)[T]
<1>1. s \in GameState
  BY DEF Fits
<1>2. slot \in Slots /\ At(s, p, slot) = from
  BY DEF Fits, At
<1>3. Open(s, to)
  BY <1>1, SlidesEndOpen
<1>4. CollectAndSlide(s, p, from, to) = m
  BY DEF CollectAndSlide, SlideOf
<1> HIDE DEF slot
<1>5. from # to /\ Fits(m) /\ AsServer(m) = Server!SlideTo(A, p, from, to)
  BY <1>2, <1>3, SlideFits, SlideAgrees
<1>6. m.phase = s.phase
  BY <1>1, <1>2, <1>3, <1>5, SlideParts DEF Open
<1> HIDE DEF m
<1>7. AsServer(t) = T /\ Fits(t) /\ t.phase = s.phase
  BY <1>5, <1>6, SettleAgrees
<1>8. t \in GameState
  BY <1>7 DEF Fits
<1> HIDE DEF t, T
<1>9. AsServer(e) = Server!Eliminate(p)[T] /\ Fits(e) /\ e.phase = s.phase
  BY <1>7, EliminateAgrees
<1>10. Strand(p)[t] = u
  BY <1>8 DEF Strand
<1> HIDE DEF e
<1>11. playerCanMove(t, p) <=> Server!PlayerCanMove(T, p)
  BY <1>7, <1>8, MovesAgree
<1>12. AsServer(u) = U /\ Fits(u) /\ u.phase = s.phase
  BY <1>7, <1>9, <1>11
<1> HIDE DEF u, U
<1>13. /\ AsServer(advanceTurn[u]) = Server!AdvanceTurn[U]
       /\ Fits(advanceTurn[u]) /\ advanceTurn[u].phase \in {s.phase, "finished"}
  BY <1>12, AdvanceAgrees
<1>14. doMove(s, p, from, to) = advanceTurn[u]
  BY <1>4, <1>10 DEF doMove, t
<1>15. Server!ApplySlide(A, p, from, to) = Server!AdvanceTurn[U]
  BY DEF Server!ApplySlide, T, U
<1> QED
  BY <1>13, <1>14, <1>15

\* A game in the browser is dealt as one on the server.
LEMMA DealAgrees ==
    ASSUME NEW fish \in Boards
    PROVE  Local(createGame(fish)) /\ AsServer(createGame(fish)) = Server!NewGame(fish)
<1> DEFINE s == createGame(fish)
           A == AsServer(s)
           r == Server!NewGame(fish)
<1>1. fish \in [Cells -> 1..3] /\ NumPenguins \in Nat \ {0}
  BY DealsAssumption, BrowserAssumption
<1>2. /\ s.tiles = [c \in Cells |-> [fish |-> fish[c], gone |-> FALSE, owner |-> None]]
      /\ s.players = [p \in Players |-> [score |-> 0, stuck |-> FALSE,
                                         penguins |-> [i \in Slots |-> NoTile]]]
      /\ s.phase = "placing" /\ s.turn = 0 /\ s.winner = -2 /\ s.ply = 0
  BY DEF createGame
<1>3. s \in GameState
  BY <1>1, <1>2 DEF createGame, GameState, Players
<1> HIDE DEF s
<1>4. \A c \in Cells : s.tiles[c].fish = fish[c] /\ ~s.tiles[c].gone /\ s.tiles[c].owner = None
  BY <1>2
<1>5. \A p \in Players : s.players[p].score = 0 /\ ~s.players[p].stuck
  BY <1>2
<1>6. \A p \in Players, i \in Slots : At(s, p, i) = NoTile
  BY <1>2 DEF At
<1>7. NoTile \notin Cells /\ \A p \in Players : p # None
  BY CellsArePairs DEF Players, None
<1>8. Fits(s)
  BY <1>3, <1>4, <1>6, <1>7 DEF Fits
<1>9. Stage(s)
  BY <1>1, <1>2, <1>6 DEF Stage
<1>10. /\ A.fish = fish /\ A.gone = {} /\ A.owner = {} /\ A.penguins = {}
       /\ A.score = [p \in Players |-> 0] /\ A.stuck = {} /\ A.phase = "placing"
       /\ A.turn = 0 /\ A.winner = -2 /\ A.ply = 0
  <2>1. A.fish = fish
    <3>1. A.fish = [c \in Cells |-> s.tiles[c].fish]
      BY <1>3, AsServerParts
    <3> HIDE DEF A
    <3> QED
      BY <1>1, <1>4, <3>1
  <2>2. A.gone = {} /\ A.stuck = {}
    BY <1>3, <1>4, <1>5, AsServerParts
  <2>3. A.score = [p \in Players |-> 0]
    <3>1. A.score = [p \in Players |-> s.players[p].score]
      BY <1>3, AsServerParts
    <3> HIDE DEF A
    <3> QED
      BY <1>5, <3>1
  <2>4. A.owner = {}
    <3>1. A.owner = {x \in Cells \X Players : s.tiles[x[1]].owner = x[2]}
      BY <1>3, AsServerParts
    <3> HIDE DEF A
    <3> QED
      BY <1>4, <1>7, <3>1
  <2>5. A.penguins = {}
    <3>1. A.penguins = {x \in Players \X Slots \X Cells : At(s, x[1], x[2]) = x[3]}
      BY <1>3, AsServerParts
    <3> HIDE DEF A
    <3>2. ASSUME NEW x \in A.penguins
          PROVE  FALSE
      <4>1. x[1] \in Players /\ x[2] \in Slots /\ x[3] \in Cells /\ At(s, x[1], x[2]) = x[3]
        BY <3>1
      <4> QED
        BY <4>1, <1>6, <1>7
    <3> QED
      BY <3>2
  <2>6. /\ A.phase = "placing" /\ A.turn = 0 /\ A.winner = -2 /\ A.ply = 0
    BY <1>2, <1>3, AsServerParts
  <2> QED
    BY <2>1, <2>2, <2>3, <2>4, <2>5, <2>6
<1>11. /\ r \in Server!GameState
       /\ r.fish = fish /\ r.gone = {} /\ r.owner = {} /\ r.penguins = {}
       /\ r.score = [p \in Players |-> 0] /\ r.stuck = {} /\ r.phase = "placing"
       /\ r.turn = 0 /\ r.winner = -2 /\ r.ply = 0
  <2>1. r = [fish |-> fish, gone |-> {}, owner |-> {}, penguins |-> {},
             score |-> [p \in Players |-> 0], stuck |-> {}, phase |-> "placing",
             turn |-> 0, winner |-> -2, ply |-> 0]
    BY SameBoard DEF Server!NewGame, Server!Undecided
  <2> HIDE DEF r
  <2>2. fish \in [Server!Cells -> 1..3] /\ [p \in Players |-> 0] \in [Server!Players -> Nat]
        /\ 0 \in Server!Players /\ "placing" \in Server!Phases
        /\ -2 \in Server!Players \cup {Server!Tie, Server!Undecided}
    BY <1>1, SameBoard DEF Players, Server!Phases, Server!Undecided
  <2> QED
    BY <2>1, <2>2 DEF Server!GameState
<1>12. A = r
  <2> HIDE DEF r
  <2> QED
    BY <1>3, <1>10, <1>11, SameRecord, ZenonT(60)
<1> QED
  BY <1>8, <1>9, <1>12 DEF Local, s

\* A move in the browser is a move of the server, and leaves a game the browser plays.
LEMMA StepAgrees ==
    ASSUME Local(state), Next
    PROVE  /\ Local(state')
           /\ IF state.phase = "placing"
              THEN \E c \in Cells : Open(state, c) /\ Server!Place(state.turn, c)
              ELSE \E from \in Cells : /\ state.tiles[from].owner = state.turn
                                      /\ \E to \in legalMovesFrom(state, from) :
                                            Server!Slide(state.turn, from, to)
<1>1. state \in GameState /\ Fits(state) /\ state.turn \in Players
  BY StateParts DEF Local, Fits
<1> DEFINE A == AsServer(state)
<1>2. /\ A.phase = state.phase /\ A.turn = state.turn
      /\ \A c \in Cells : A.fish[c] = state.tiles[c].fish
  <2>1. /\ A.phase = state.phase /\ A.turn = state.turn
        /\ A.fish = [c \in Cells |-> state.tiles[c].fish]
    BY <1>1, AsServerParts
  <2> HIDE DEF A
  <2> QED
    BY <2>1
<1>3. ASSUME NEW c \in Cells, Place(c)
      PROVE  Local(state') /\ Open(state, c) /\ Server!Place(state.turn, c)
             /\ state.phase = "placing"
  <2>1. /\ state.phase = "placing" /\ Open(state, c) /\ state.tiles[c].fish = 1
        /\ state' = doPlace(state, state.turn, c)
    BY <1>3 DEF Place
  <2>2. /\ AsServer(doPlace(state, state.turn, c)) = Server!ApplyPlace(A, state.turn, c)
        /\ Local(doPlace(state, state.turn, c))
    BY <2>1, PlaceAgrees
  <2>3. AsServer(state)' = Server!ApplyPlace(A, state.turn, c)
    <3>1. AsServer(state)' = AsServer(state')
      BY DEF AsServer
    <3> QED
      BY <2>1, <2>2, <3>1
  <2>4. c \in Server!LegalPlacements(A)
    BY <1>1, <1>2, <2>1, OpenIsFree DEF Server!LegalPlacements
  <2> HIDE DEF A
  <2>5. Server!CanPlace(A, state.turn, c)
    BY <1>2, <2>1, <2>4 DEF Server!CanPlace
  <2>6. Server!Place(state.turn, c)
    BY <2>3, <2>5 DEF Server!Place, A
  <2> QED
    BY <2>1, <2>2, <2>6
<1>4. ASSUME NEW from \in Cells, NEW to \in Cells, Move(from, to)
      PROVE  /\ Local(state') /\ state.phase = "moving" /\ state.tiles[from].owner = state.turn
             /\ to \in legalMovesFrom(state, from) /\ Server!Slide(state.turn, from, to)
  <2>1. /\ state.phase = "moving" /\ state.tiles[from].owner = state.turn
        /\ to \in legalMovesFrom(state, from)
        /\ state' = doMove(state, state.turn, from, to)
    BY <1>4 DEF Move
  <2>2. /\ AsServer(doMove(state, state.turn, from, to))
           = Server!ApplySlide(A, state.turn, from, to)
        /\ Fits(doMove(state, state.turn, from, to))
        /\ doMove(state, state.turn, from, to).phase \in {"moving", "finished"}
    BY <1>1, <2>1, SlideStepAgrees
  <2>3. AsServer(state)' = Server!ApplySlide(A, state.turn, from, to)
    <3>1. AsServer(state)' = AsServer(state')
      BY DEF AsServer
    <3> QED
      BY <2>1, <2>2, <3>1
  <2>4. /\ to \in Server!LegalMovesFrom(A, from)
        /\ <<from, state.turn>> \in A.owner
    <3>1. A.owner = {x \in Cells \X Players : state.tiles[x[1]].owner = x[2]}
      BY <1>1, AsServerParts
    <3>2. to \in Server!LegalMovesFrom(A, from)
      BY <1>1, <2>1, SlidesAgree
    <3> HIDE DEF A
    <3> QED
      BY <1>1, <2>1, <3>1, <3>2
  <2> HIDE DEF A
  <2>5. Server!CanSlide(A, state.turn, from, to)
    BY <1>2, <2>1, <2>4 DEF Server!CanSlide
  <2>6. Server!Slide(state.turn, from, to)
    BY <2>3, <2>5 DEF Server!Slide, A
  <2>7. Local(state')
    BY <2>1, <2>2 DEF Local, Stage
  <2> QED
    BY <2>1, <2>6, <2>7
<1>5. (\E c \in Cells : Place(c)) \/ (\E from \in Cells, to \in Cells : Move(from, to))
  BY DEF Next
<1> QED
  BY <1>3, <1>4, <1>5
=============================================================================
