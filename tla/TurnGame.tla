------------------------------ MODULE TurnGame ------------------------------
(***************************************************************************)
(* What the rules of the game promise to the code around them: the rooms   *)
(* of src/server/internal/room look at nothing of a GameState but whose    *)
(* turn it is, how many plies were played, whether it is over and who won. *)
(* A ply is made by the player on turn, it may give the turn to either     *)
(* player, and after at most MaxPlies plies the game is over.              *)
(*                                                                         *)
(* PenguinGame implements this specification; Room plays it.               *)
(***************************************************************************)
EXTENDS Integers

CONSTANT MaxPlies

VARIABLE seen          \* the part of a GameState its users see

Seats == {0, 1}
Tie == -1
Undecided == -2

Views == [ply : 0..MaxPlies, turn : Seats, over : BOOLEAN,
          winner : Seats \cup {Tie, Undecided}]

NewView == [ply |-> 0, turn |-> 0, over |-> FALSE, winner |-> Undecided]

\* Every view a ply of the player on turn may lead to.
PlyOutcomes(v) ==
    {w \in [ply : {v.ply + 1}, turn : Seats, over : BOOLEAN,
            winner : Seats \cup {Tie, Undecided}] :
        /\ w.over <=> w.winner # Undecided
        /\ w.ply = MaxPlies => w.over}

Init == seen = NewView

Ply ==
    /\ ~seen.over
    /\ seen.ply < MaxPlies
    /\ seen' \in PlyOutcomes(seen)

Next == Ply

Spec == Init /\ [][Next]_seen

=============================================================================
