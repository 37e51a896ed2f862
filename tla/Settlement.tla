----------------------------- MODULE Settlement -----------------------------
(***************************************************************************)
(* What a finished friend or matched game does to the database: SettleGame *)
(* of src/server/internal/room/settlement.go and the transaction FinishGame *)
(* of src/server/internal/repository/mysql/games.go.                       *)
(*                                                                         *)
(* Each finished game is settled by a handler of its own.  It reads the    *)
(* ratings of the two players one after the other, outside of any          *)
(* transaction, works out what the game is worth, and then writes the      *)
(* result and both users in one transaction.  Settlements of different     *)
(* rooms run at the same time and may share players; a settlement that     *)
(* fails is logged and forgotten.                                          *)
(***************************************************************************)
EXTENDS Integers, FiniteSets, FiniteSetsExt

CONSTANTS Users,        \* rows of the table users
          Finished,     \* games that have ended
          Player0, Player1,  \* who sat on the seats of a game
          Standing      \* the ratings the settlements start from

VARIABLES
    elo, wins, losses, draws,  \* columns of users
    games,                     \* rows of games: [game, winner, delta]
    job                        \* per game: how far its settlement is

vars == <<elo, wins, losses, draws, games, job>>

RatingFloor == 100
Tie == -1

ASSUME PlayersAssumption ==
    /\ Player0 \in [Finished -> Users] /\ Player1 \in [Finished -> Users]
    /\ \A g \in Finished : Player0[g] # Player1[g]
ASSUME StandingAssumption ==
    /\ Standing \in [Users -> Int]
    /\ \A u \in Users : Standing[u] >= RatingFloor

\* 32 times the expected score 1 / (1 + 10^(gap / 400)), rounded as math.Round does:
\* it is at least k up to the k-th of these gaps.
Gaps == <<719, 523, 428, 364, 314, 273, 237, 205, 176, 149, 124, 100, 77, 54, 32, 10,
          -11, -33, -55, -78, -101, -125, -150, -177, -206, -238, -274, -315, -365,
          -429, -524, -720>>

Expected(gap) == Cardinality({k \in 1..32 : gap <= Gaps[k]})

\* 32 * score, for the winner of the game or Tie.
Score0(winner) == IF winner = 0 THEN 32 ELSE IF winner = 1 THEN 0 ELSE 16

Delta0(elo0, elo1, winner) == Score0(winner) - Expected(elo1 - elo0)

Init ==
    /\ elo = Standing
    /\ wins = [u \in Users |-> 0]
    /\ losses = [u \in Users |-> 0]
    /\ draws = [u \in Users |-> 0]
    /\ games = {}
    /\ job = [g \in Finished |-> [at |-> "playing"]]

-----------------------------------------------------------------------------
\* The game ends; GetUserByID of player 0.
ReadUser0(g) ==
    /\ job[g].at = "playing"
    /\ \E winner \in {0, 1, Tie} :
          job' = [job EXCEPT ![g] = [at |-> "one", winner |-> winner,
                                     elo0 |-> elo[Player0[g]]]]
    /\ UNCHANGED <<elo, wins, losses, draws, games>>

\* GetUserByID of player 1.
ReadUser1(g) ==
    /\ job[g].at = "one"
    /\ job' = [job EXCEPT ![g] = [at |-> "both", winner |-> @.winner,
                                  elo0 |-> @.elo0, elo1 |-> elo[Player1[g]]]]
    /\ UNCHANGED <<elo, wins, losses, draws, games>>

\* A user cannot be read, or the transaction is rolled back.
Forget(g) ==
    /\ job[g].at \in {"one", "both"}
    /\ job' = [job EXCEPT ![g] = [at |-> "failed"]]
    /\ UNCHANGED <<elo, wins, losses, draws, games>>

One(b) == IF b THEN 1 ELSE 0

\* elo = GREATEST(100, elo + delta)
Rated(rating, delta) == Max({RatingFloor, rating + delta})

\* Mutant of NewRating: the rating that was read is the one that is changed.
NewRatingFromRead(u, read, delta) == Rated(read, delta)

\* What the UPDATE makes of the rating of u, whatever was read before.
NewRating(u, read, delta) == Rated(elo[u], delta)

\* Mutant of Won: every win is a win of seat 0.
WonByHost(seat, winner) == One(winner = 0)

\* The columns a game adds to.  The second UPDATE puts "neither won nor lost, and a
\* draw" into the losses of player 1, and 0 into the draws.
Won(seat, winner) == One(winner = seat)
Lost(seat, winner) == One(winner = IF seat = 0 THEN 1 ELSE Tie)
Drawn(seat, winner) == One(seat = 0 /\ winner = Tie)

\* FinishGame.
Commit(g) ==
    /\ job[g].at = "both"
    /\ LET u0 == Player0[g]
           u1 == Player1[g]
           w == job[g].winner
           d == Delta0(job[g].elo0, job[g].elo1, w)
       IN  /\ games' = games \cup {[game |-> g, winner |-> w, delta |-> d]}
           /\ wins' = [wins EXCEPT ![u0] = @ + Won(0, w), ![u1] = @ + Won(1, w)]
           /\ losses' = [losses EXCEPT ![u0] = @ + Lost(0, w), ![u1] = @ + Lost(1, w)]
           /\ draws' = [draws EXCEPT ![u0] = @ + Drawn(0, w), ![u1] = @ + Drawn(1, w)]
           /\ elo' = [elo EXCEPT ![u0] = NewRating(u0, job[g].elo0, d),
                                 ![u1] = NewRating(u1, job[g].elo1, -d)]
    /\ job' = [job EXCEPT ![g] = [at |-> "settled"]]

Next == \E g \in Finished : ReadUser0(g) \/ ReadUser1(g) \/ Forget(g) \/ Commit(g)

Spec == Init /\ [][Next]_vars

-----------------------------------------------------------------------------
(* Properties. *)

WonBy(u) ==
    {r \in games : \/ r.winner = 0 /\ Player0[r.game] = u
                   \/ r.winner = 1 /\ Player1[r.game] = u}

PlayedBy(u) == {r \in games : u \in {Player0[r.game], Player1[r.game]}}

\* The wins of a user are the games the history says the user won, however the
\* settlements of several rooms interleave or fail.
WinsMatchHistory == \A u \in Users : wins[u] = Cardinality(WonBy(u))

\* What a game of the history gave u, or took; and the games of a set together.
Award(u, r) == IF u = Player0[r.game] THEN r.delta ELSE -r.delta
Awards(u, S) == MapThenSumSet(LAMBDA r : Award(u, r), S)

Earned(u) == Standing[u] + Awards(u, PlayedBy(u))
Given(u) == Awards(u, {r \in PlayedBy(u) : Award(u, r) > 0})

\* Although the ratings are read long before they are written, every rating is the sum of
\* what the history awarded; or it is more, because the floor stopped a fall: then the falls
\* alone lead below the floor, and from the floor it has risen by no more than was given.
RatingsAddUp ==
    \A u \in Users :
        \/ elo[u] = Earned(u)
        \/ /\ Earned(u) < elo[u] /\ elo[u] <= RatingFloor + Given(u)
           /\ Earned(u) - Given(u) < RatingFloor

\* games.go:11 says that the transaction updates the record of both players: every
\* game of the history is a win, a loss or a draw of each of them.
RecordsMatchHistory ==
    \A u \in Users : wins[u] + losses[u] + draws[u] = Cardinality(PlayedBy(u))
=============================================================================
