------------------------------ MODULE Computer ------------------------------
(***************************************************************************)
(* How the computer chooses its move: src/server/internal/ai/ai.go.        *)
(*                                                                         *)
(* Values are tenths of those of the code, so that its weights 12, 2 and   *)
(* 0.4 are whole numbers.  The order of the moves only decides between     *)
(* moves of the same value; here it is any fixed order.                    *)
(***************************************************************************)
EXTENDS PenguinGame, FiniteSetsExt

CONSTANT SearchDepth      \* 3 in the code

ASSUME SearchDepthAssumption == SearchDepth \in Nat \ {0}

WeightScore == 120
WeightReach == 20
WeightMobility == 4
WinValue == 100000
Infinity == 1000000       \* beyond every value

\* ApplyUnchecked for a move of AllMoves.
After(s, p, m) ==
    IF m.kind = "place" THEN ApplyPlace(s, p, m.to) ELSE ApplySlide(s, p, m.from, m.to)

\* floodReach: what slides can reach, one after another, from the tiles of queue.
RECURSIVE Flood(_, _, _)
Flood(s, seen, queue) ==
    IF queue = {} THEN seen
    ELSE LET found == UNION {LegalMovesFrom(s, c) : c \in queue} \ seen
         IN  Flood(s, seen \cup found, found)

ReachableFish(s, p) == SumFunctionOnSet(s.fish, Flood(s, {}, {x[3] : x \in PenguinsOf(s, p)}))

\* Mutant of Evaluate: player 0 gets the same answer as player 1.
EvaluateOneSided(s, p) ==
    WeightScore * (s.score[0] - s.score[1])
      + WeightReach * (ReachableFish(s, 0) - ReachableFish(s, 1))

\* The value of a position for p.  Only the player on turn has moves in AllMoves.
Evaluate(s, p) ==
    LET q == 1 - p
        lead == s.score[p] - s.score[q]
    IN  IF s.phase = "finished"
        THEN IF lead > 0 THEN WinValue + 10 * lead
             ELSE IF lead < 0 THEN -WinValue + 10 * lead ELSE 0
        ELSE WeightScore * lead
               + WeightReach * (ReachableFish(s, p) - ReachableFish(s, q))
               + WeightMobility * (Cardinality(AllMoves(s, p)) - Cardinality(AllMoves(s, q)))

IsLeaf(s, p, depth) == s.phase = "finished" \/ depth = 0 \/ AllMoves(s, p) = {}

\* Mutant of Window: the bounds change their signs but not their places.
WindowNotTurned(alpha, beta) == <<-alpha, -beta>>

\* The bounds alpha and beta as the opponent sees them.
Window(alpha, beta) == <<-beta, -alpha>>

\* The best score and alpha after one more score.
Raise(acc, score) ==
    [best |-> Max({acc.best, score}), alpha |-> Max({acc.alpha, score})]

\* The value of s for p, which is right if it lies within the bounds: the loop over
\* the moves stops when alpha has reached beta.
RECURSIVE negamax(_, _, _, _)
negamax(s, p, depth, bounds) ==
    IF IsLeaf(s, p, depth) THEN Evaluate(s, p)
    ELSE LET Try(m, acc) ==
               IF acc.alpha >= bounds[2] THEN acc
               ELSE Raise(acc, -negamax(After(s, p, m), 1 - p, depth - 1,
                                        Window(acc.alpha, bounds[2])))
         IN  FoldSet(Try, [best |-> -Infinity, alpha |-> bounds[1]], AllMoves(s, p)).best

Improve(acc, m, score) ==
    IF score > acc.best THEN [best |-> score, move |-> m] ELSE acc

\* The move with the best score; the best score so far bounds the next search.
searchRoot(s, p) ==
    LET Try(m, acc) ==
          Improve(acc, m, -negamax(After(s, p, m), 1 - p, SearchDepth - 1,
                                   Window(acc.best, Infinity)))
        first == CHOOSE m \in AllMoves(s, p) : TRUE
    IN  FoldSet(Try, [best |-> -Infinity, move |-> first], AllMoves(s, p)).move

-----------------------------------------------------------------------------
(* Properties. *)

\* What the search computes without any pruning.
RECURSIVE Minimax(_, _, _)
Minimax(s, p, depth) ==
    IF IsLeaf(s, p, depth) THEN Evaluate(s, p)
    ELSE Max({-Minimax(After(s, p, m), 1 - p, depth - 1) : m \in AllMoves(s, p)})

Worth(s, p, m) == -Minimax(After(s, p, m), 1 - p, SearchDepth - 1)

IsBest(s, p, worth) == worth = Max({Worth(s, p, m) : m \in AllMoves(s, p)})

\* Pruning loses nothing (negamax, searchRoot): the move chosen with alpha and beta is
\* one of the best moves of the full search to the same depth.
PruningLosesNothing ==
    game.phase = "moving" =>
        IsBest(game, game.turn, Worth(game, game.turn, searchRoot(game, game.turn)))

\* Player p has won, or wins within so many plies whatever both do.
RECURSIVE Won(_, _, _)
Won(s, p, plies) ==
    IF s.phase = "finished" THEN s.winner = p
    ELSE plies > 0 /\ \A m \in AllMoves(s, s.turn) : Won(After(s, s.turn, m), p, plies - 1)

\* A win that a single move brings is never given away (evaluate, searchRoot): if there
\* is one, the game is won after the chosen move too, now or whatever follows.
SureWinIsTaken ==
    game.phase = "moving" /\ (\E m \in AllMoves(game, game.turn) :
                                Won(After(game, game.turn, m), game.turn, 0))
        => Won(After(game, game.turn, searchRoot(game, game.turn)), game.turn, SearchDepth - 1)
=============================================================================
