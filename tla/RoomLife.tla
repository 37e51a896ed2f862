------------------------------ MODULE RoomLife ------------------------------
(***************************************************************************)
(* What the server promises about a room to those who use it: who sits at  *)
(* its table, what game is played there, and in which order things happen. *)
(* There are no handlers, locks, messages or connections here; module Room *)
(* implements this specification with them.                                *)
(*                                                                         *)
(* A table is opened as a lobby, or with a game against the computer; it   *)
(* goes through games and rematches; and once it is closed nothing happens *)
(* to it any more, whatever handler is still on its way.                   *)
(***************************************************************************)
EXTENDS Integers

CONSTANTS Codes, Clients, Nobody, MaxPlies

VARIABLE tables       \* per room code: what is at the table

Game == INSTANCE TurnGame WITH seen <- 0

Seats == {0, 1}

Free == [stage |-> "free"]
Closed == [stage |-> "closed"]

\* Nobody as a guest: the seat is free, or the computer has it.
Lobby(host, guest, ready) ==
    [stage |-> "lobby", host |-> host, guest |-> guest, ready |-> ready]
Playing(host, guest, view, votes) ==
    [stage |-> "game", host |-> host, guest |-> guest, view |-> view, votes |-> votes]

\* What is at table x is t from now on.
Turns(x, t) == tables' = [tables EXCEPT ![x] = t]

Init == tables = [x \in Codes |-> Free]

Open(x, c) ==
    /\ tables[x] = Free
    /\ Turns(x, Lobby(c, Nobody, FALSE)) \/ Turns(x, Playing(c, Nobody, Game!NewView, {}))

Close(x) == tables[x] # Free /\ Turns(x, Closed)

-----------------------------------------------------------------------------
(* The lobby. *)

InLobby(x) == tables[x].stage = "lobby"

Sit(x, c) ==
    /\ InLobby(x) /\ tables[x].guest = Nobody /\ tables[x].host # c
    /\ Turns(x, Lobby(tables[x].host, c, FALSE))

Stand(x) ==
    /\ InLobby(x) /\ tables[x].guest # Nobody
    /\ Turns(x, Lobby(tables[x].host, Nobody, FALSE))

SayReady(x, ready) ==
    /\ InLobby(x) /\ tables[x].guest # Nobody
    /\ Turns(x, [tables[x] EXCEPT !.ready = ready])

Start(x) ==
    /\ InLobby(x) /\ tables[x].guest # Nobody /\ tables[x].ready
    /\ Turns(x, Playing(tables[x].host, tables[x].guest, Game!NewView, {}))

-----------------------------------------------------------------------------
(* The games. *)

InGame(x) == tables[x].stage = "game"

Ply(x) ==
    /\ InGame(x) /\ ~tables[x].view.over /\ tables[x].view.ply < MaxPlies
    /\ \E v \in Game!PlyOutcomes(tables[x].view) : Turns(x, [tables[x] EXCEPT !.view = v])

\* A user gives up a running game; the computer never does.
Resign(x, seat) ==
    /\ InGame(x) /\ ~tables[x].view.over
    /\ seat = 1 => tables[x].guest # Nobody
    /\ Turns(x, [tables[x] EXCEPT !.view.over = TRUE, !.view.winner = 1 - seat])

\* One of two players asks for a rematch, and the other has not asked yet.
Ask(x, seat) ==
    /\ InGame(x) /\ tables[x].view.over /\ tables[x].guest # Nobody
    /\ tables[x].votes \cup {seat} # Seats
    /\ Turns(x, [tables[x] EXCEPT !.votes = @ \cup {seat}])

\* The next game: the computer is always willing, a player has to have asked.
Again(x, seat) ==
    /\ InGame(x) /\ tables[x].view.over
    /\ tables[x].guest = Nobody \/ tables[x].votes \cup {seat} = Seats
    /\ Turns(x, Playing(tables[x].host, tables[x].guest, Game!NewView, {}))

-----------------------------------------------------------------------------
Next ==
    \E x \in Codes :
       \/ \E c \in Clients : Open(x, c) \/ Sit(x, c)
       \/ \E ready \in BOOLEAN : SayReady(x, ready)
       \/ \E seat \in Seats : Resign(x, seat) \/ Ask(x, seat) \/ Again(x, seat)
       \/ Stand(x) \/ Start(x) \/ Ply(x) \/ Close(x)

Spec == Init /\ [][Next]_tables

=============================================================================
