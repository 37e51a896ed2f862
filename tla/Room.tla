-------------------------------- MODULE Room --------------------------------
(***************************************************************************)
(* Friend rooms and games against the computer:                            *)
(* src/server/internal/room/{handlers,lifecycle,moves,broadcast}.go on top *)
(* of the Redis room of store.go.                                          *)
(*                                                                         *)
(* Every connection has a read loop that runs one handler at a time.  A    *)
(* handler reads the membership of its connection, waits for the lock of   *)
(* the room, and works on the room under that lock; what it publishes is   *)
(* delivered later, in order, by the subscriber of every server instance.  *)
(* A connection may be cancelled at any moment, and its handler runs on.   *)
(*                                                                         *)
(* A handler that fails a check only answers its own client with an error; *)
(* these answers and the message rematch_ask change nothing modelled here. *)
(***************************************************************************)
EXTENDS Integers, Sequences, FiniteSets

CONSTANTS Clients,        \* registered users, each with one connection
          Instances,      \* server processes
          Host,           \* the instance a client is connected to
          Codes,          \* room codes; a code is drawn at most once (31^4 in the code)
          Nobody, NoCode, \* the uid 0 and the room "" of the code
          Modes,          \* the modes of the rooms users create
          Commands,       \* the commands users send in a room
          Failing,        \* the clients whose connection may end
          MaxPlies,       \* bound on the plies of a game
          MaxQueue,       \* bound on the messages on their way to an instance
          MaxTasks        \* bound on the AI tasks of a room

VARIABLES
    rooms,      \* Redis: the room of a code, meta hash and state together, or NoRoom
    lock,       \* Redis: the client whose handler holds the lock of a room, or Nobody
    drawn,      \* Redis: the room index, with the codes drawn so far
    channel,    \* Redis pub/sub: the messages an instance has yet to dispatch
    localRooms, \* per instance: the <<code, seat, client>> it delivers to
    member,     \* per client: roomID and seat
    alive,      \* per client: "up", "cancelled" (its context), "gone" (cleaned up)
    op,         \* per client: the handler its read loop is in
    shown,      \* per client: what the last message sent to it shows
    aiTasks     \* per room: running aiMove goroutines

redis == <<rooms, lock, drawn, channel>>
hub == <<localRooms, member, alive>>
vars == <<redis, hub, op, shown, aiTasks>>

ASSUME HostAssumption == Host \in [Clients -> Instances]
ASSUME NobodyAssumption == Nobody \notin Clients /\ NoCode \notin Codes
ASSUME UsersAssumption ==
    /\ Failing \subseteq Clients
    /\ Modes \subseteq {"pvp", "ai"}
    /\ Commands \subseteq {"ready", "unready", "start", "move", "resign", "rematch"}
ASSUME BoundsAssumption ==
    MaxPlies \in Nat \ {0} /\ MaxQueue \in Nat \ {0} /\ MaxTasks \in Nat \ {0}

Game == INSTANCE TurnGame WITH seen <- 0

Seats == {0, 1}
NoRoom == [mode |-> "none"]
NoMember == [room |-> NoCode, seat |-> -1]
Idle == [kind |-> "idle"]
Unread == -2              \* a seat the handler has not read yet

\* host and guest are Seat0UID and Seat1UID; Full is guest # Nobody.
RoomRecords ==
    [mode : {"pvp", "ai"}, host : Clients, guest : Clients \cup {Nobody},
     ready : BOOLEAN, started : BOOLEAN, rematch : SUBSET Seats, game : Game!Views]

NewRoom(mode, c) ==
    [mode |-> mode, host |-> c, guest |-> Nobody, ready |-> FALSE,
     started |-> mode = "ai", rematch |-> {}, game |-> Game!NewView]

\* The screens of a client, and the messages that carry them.
Menu == [screen |-> "menu"]
Entered == [screen |-> "entered"]
LobbyOf(r) == [screen |-> "lobby", full |-> r.guest # Nobody, ready |-> r.ready]
GameOf(r) == [screen |-> "game", game |-> r.game]

Screens ==
    {Menu, Entered}
      \cup [screen : {"lobby"}, full : BOOLEAN, ready : BOOLEAN]
      \cup [screen : {"game"}, game : Game!Views]

ToRoom(x, screen) == [type |-> "room", room |-> x, screen |-> screen]
Left(x, seat) == [type |-> "leave", room |-> x, seat |-> seat]
BindTo(x, c) == [type |-> "bind", room |-> x, to |-> c]

Init ==
    /\ rooms = [x \in Codes |-> NoRoom]
    /\ lock = [x \in Codes |-> Nobody]
    /\ drawn = {}
    /\ channel = [i \in Instances |-> <<>>]
    /\ localRooms = [i \in Instances |-> {}]
    /\ member = [c \in Clients |-> NoMember]
    /\ alive = [c \in Clients |-> "up"]
    /\ op = [c \in Clients |-> Idle]
    /\ shown = [c \in Clients |-> Menu]
    /\ aiTasks = [x \in Codes |-> 0]

-----------------------------------------------------------------------------
(* Pieces of the handlers. *)

Exists(x) == rooms[x] # NoRoom

CanPublish == \A i \in Instances : Len(channel[i]) < MaxQueue

Publish(m) == channel' = [i \in Instances |-> Append(channel[i], m)]

\* bindLocal: nothing happens once the context of the client is cancelled.
BindLocal(c, x, seat) ==
    IF alive[c] # "up" THEN UNCHANGED <<member, localRooms>>
    ELSE /\ member' = [member EXCEPT ![c] = [room |-> x, seat |-> seat]]
         /\ localRooms' = [localRooms EXCEPT ![Host[c]] =
                             {b \in @ : ~(b[1] = x /\ b[2] = seat)} \cup {<<x, seat, c>>}]

\* writeRaw drops the message once the context is cancelled.
Show(cs, screen) ==
    shown' = [c \in Clients |-> IF c \in cs /\ alive[c] = "up" THEN screen ELSE shown[c]]

\* The client whose uid a seat of a room carries: seat 0 unless the seat is 1.
SeatOwner(r, seat) == IF seat = 1 THEN r.guest ELSE r.host

InRoom(c) == member[c].room # NoCode

MayHandle(c) == op[c] = Idle /\ alive[c] = "up"

Return(c) == op' = [op EXCEPT ![c] = Idle]

-----------------------------------------------------------------------------
(* Creating and joining. *)

\* createRoom and playAI up to CreateRoom.
CreateRoom(c, mode, x) ==
    /\ MayHandle(c) /\ ~InRoom(c)
    /\ x \notin drawn
    /\ drawn' = drawn \cup {x}
    /\ rooms' = [rooms EXCEPT ![x] = NewRoom(mode, c)]
    /\ op' = [op EXCEPT ![c] = [kind |-> "created", room |-> x]]
    /\ UNCHANGED <<lock, channel, hub, shown, aiTasks>>

\* The rest of createRoom and playAI: bind seat 0, tell the client.
EnterCreated(c) ==
    /\ op[c].kind = "created"
    /\ LET x == op[c].room
       IN  /\ BindLocal(c, x, 0)
           /\ Show({c}, IF rooms[x].mode = "ai" THEN GameOf(rooms[x])
                         ELSE LobbyOf(NewRoom("pvp", c)))
    /\ Return(c)
    /\ UNCHANGED <<redis, alive, aiTasks>>

\* A code can be passed on once its room has shown it to the host.
Known(x) == Exists(x) /\ \A c \in Clients : op[c] # [kind |-> "created", room |-> x]

\* Mutant of JoinSeat1: a full room can be joined.
JoinFullRoom(c, x) ==
    /\ MayHandle(c) /\ ~InRoom(c)
    /\ lock[x] = Nobody
    /\ Known(x)
    /\ rooms[x].mode = "pvp" /\ rooms[x].host # c /\ ~rooms[x].started
    /\ rooms' = [rooms EXCEPT ![x].guest = c, ![x].ready = FALSE]
    /\ lock' = [lock EXCEPT ![x] = c]
    /\ op' = [op EXCEPT ![c] = [kind |-> "joined", room |-> x]]
    /\ UNCHANGED <<drawn, channel, hub, shown, aiTasks>>

\* joinRoom up to JoinSeat1, which takes the free seat of an unstarted room of
\* somebody else.  The lock stays held.
JoinSeat1(c, x) ==
    /\ MayHandle(c) /\ ~InRoom(c)
    /\ lock[x] = Nobody
    /\ Known(x)
    /\ rooms[x].mode = "pvp" /\ rooms[x].host # c
    /\ ~rooms[x].started /\ rooms[x].guest = Nobody
    /\ rooms' = [rooms EXCEPT ![x].guest = c, ![x].ready = FALSE]
    /\ lock' = [lock EXCEPT ![x] = c]
    /\ op' = [op EXCEPT ![c] = [kind |-> "joined", room |-> x]]
    /\ UNCHANGED <<drawn, channel, hub, shown, aiTasks>>

\* The rest of joinRoom: bind seat 1, tell the guest, tell the room, unlock.
EnterJoined(c) ==
    /\ op[c].kind = "joined"
    /\ CanPublish
    /\ LET x == op[c].room
       IN  /\ BindLocal(c, x, 1)
           /\ Show({c}, Entered)
           /\ Publish(ToRoom(x, LobbyOf(rooms[x])))
           /\ lock' = [lock EXCEPT ![x] = Nobody]
    /\ Return(c)
    /\ UNCHANGED <<rooms, drawn, alive, aiTasks>>

-----------------------------------------------------------------------------
(* Commands in a room.  A handler reads its membership first; playerMove,    *)
(* resign and rematch read the room and the seat one after the other.        *)

SplitReads == {"move", "resign", "rematch"}

Begin(c, kind) ==
    /\ MayHandle(c) /\ InRoom(c)
    /\ op' = [op EXCEPT ![c] =
                [kind |-> kind, room |-> member[c].room,
                 seat |-> IF kind \in SplitReads THEN Unread ELSE member[c].seat]]
    /\ UNCHANGED <<redis, hub, shown, aiTasks>>

ReadSeat(c) ==
    /\ op[c].kind \in SplitReads /\ op[c].seat = Unread
    /\ op' = [op EXCEPT ![c].seat = member[c].seat]
    /\ UNCHANGED <<redis, hub, shown, aiTasks>>

\* The handler has read what it needs and gets the lock of the room.
Locked(c, kind) ==
    /\ op[c].kind = kind /\ op[c].seat # Unread
    /\ lock[op[c].room] = Nobody

\* The checks of each command on the room it finds under the lock.
Passes(c) ==
    LET r == rooms[op[c].room]
        seat == op[c].seat
    IN  /\ Exists(op[c].room)
        /\ CASE op[c].kind \in {"ready", "unready"} ->
                  r.mode = "pvp" /\ ~r.started /\ seat = 1 /\ r.guest = c
             [] op[c].kind = "start" ->
                  /\ r.mode = "pvp" /\ ~r.started /\ seat = 0 /\ r.host = c
                  /\ r.guest # Nobody /\ r.ready
             [] op[c].kind = "move" ->
                  /\ r.started /\ ~r.game.over
                  /\ IF r.mode = "pvp" THEN SeatOwner(r, seat) = c ELSE seat = 0
                  /\ r.game.turn = seat
             [] op[c].kind = "resign" -> r.started /\ ~r.game.over
             [] op[c].kind = "rematch" -> r.started /\ r.game.over

\* An error answer, or a command that finds nothing to do.
Refuse(c) ==
    /\ \E kind \in Commands : Locked(c, kind)
    /\ ~Passes(c)
    /\ Return(c)
    /\ UNCHANGED <<redis, hub, shown, aiTasks>>

\* withLock gives up after ten attempts (RateLimited).
GiveUp(c) ==
    /\ op[c].kind \in Commands /\ op[c].seat # Unread
    /\ lock[op[c].room] # Nobody
    /\ Return(c)
    /\ UNCHANGED <<redis, hub, shown, aiTasks>>

\* What a command that changes the room has in common: save, publish, return.
SaveAndTell(c, r, screen) ==
    /\ rooms' = [rooms EXCEPT ![op[c].room] = r]
    /\ CanPublish /\ Publish(ToRoom(op[c].room, screen))
    /\ Return(c)
    /\ UNCHANGED <<lock, drawn, hub, shown>>

\* Mutant of SetReady: the lobby is told the state it had.
SetReadyTellsOld(c, kind) ==
    /\ Locked(c, kind) /\ Passes(c)
    /\ SaveAndTell(c, [rooms[op[c].room] EXCEPT !.ready = (kind = "ready")],
                    LobbyOf(rooms[op[c].room]))
    /\ UNCHANGED aiTasks

\* updateLobby with start = false.
SetReady(c, kind) ==
    /\ Locked(c, kind) /\ Passes(c)
    /\ LET r == [rooms[op[c].room] EXCEPT !.ready = (kind = "ready")]
       IN  SaveAndTell(c, r, LobbyOf(r))
    /\ UNCHANGED aiTasks

\* updateLobby with start = true.
StartGame(c) ==
    /\ Locked(c, "start") /\ Passes(c)
    /\ LET r == [rooms[op[c].room] EXCEPT !.started = TRUE, !.game = Game!NewView]
       IN  SaveAndTell(c, r, GameOf(r))
    /\ UNCHANGED aiTasks

\* playerMove, with any ply the rules allow; it wakes the AI of an AI room.
PlayerMove(c) ==
    /\ Locked(c, "move") /\ Passes(c)
    /\ LET x == op[c].room
       IN  \E g \in Game!PlyOutcomes(rooms[x].game) :
             LET r == [rooms[x] EXCEPT !.game = g]
                 wakes == r.mode = "ai" /\ ~g.over /\ g.turn = 1
             IN  /\ SaveAndTell(c, r, GameOf(r))
                 /\ wakes => aiTasks[x] < MaxTasks
                 /\ aiTasks' = IF wakes THEN [aiTasks EXCEPT ![x] = @ + 1] ELSE aiTasks

\* Mutants of Resign: the one who resigns wins; the other seat is counted from 2.
ResignWins(c) ==
    /\ Locked(c, "resign") /\ Passes(c)
    /\ LET r == [rooms[op[c].room] EXCEPT !.game.over = TRUE, !.game.winner = op[c].seat]
       IN  SaveAndTell(c, r, GameOf(r))
    /\ UNCHANGED aiTasks
ResignFromTwo(c) ==
    /\ Locked(c, "resign") /\ Passes(c)
    /\ LET r == [rooms[op[c].room] EXCEPT !.game.over = TRUE,
                                          !.game.winner = 2 - op[c].seat]
       IN  SaveAndTell(c, r, GameOf(r))
    /\ UNCHANGED aiTasks

Resign(c) ==
    /\ Locked(c, "resign") /\ Passes(c)
    /\ LET r == [rooms[op[c].room] EXCEPT !.game.over = TRUE,
                                          !.game.winner = 1 - op[c].seat]
       IN  SaveAndTell(c, r, GameOf(r))
    /\ UNCHANGED aiTasks

\* The fields rematch0 and rematch1 after this request: seat 0 unless the seat is 1.
Requests(c) ==
    rooms[op[c].room].rematch \cup {IF op[c].seat = 1 THEN 1 ELSE 0}

\* Mutant of Rematch: the requests stay when the new game starts.
RematchKeepsVotes(c) ==
    /\ Locked(c, "rematch") /\ Passes(c)
    /\ LET x == op[c].room
           r == [rooms[x] EXCEPT !.game = Game!NewView, !.rematch = Requests(c)]
       IN  IF rooms[x].mode = "ai" \/ Requests(c) = Seats
           THEN SaveAndTell(c, r, GameOf(r))
           ELSE /\ rooms' = [rooms EXCEPT ![x].rematch = Requests(c)]
                /\ Return(c)
                /\ UNCHANGED <<lock, drawn, channel, hub, shown>>
    /\ UNCHANGED aiTasks

\* A rematch starts at once against the computer, else when both have asked.
Rematch(c) ==
    /\ Locked(c, "rematch") /\ Passes(c)
    /\ LET x == op[c].room
           r == [rooms[x] EXCEPT !.game = Game!NewView, !.rematch = {}]
       IN  IF rooms[x].mode = "ai" \/ Requests(c) = Seats
           THEN SaveAndTell(c, r, GameOf(r))
           ELSE /\ rooms' = [rooms EXCEPT ![x].rematch = Requests(c)]
                /\ Return(c)
                /\ UNCHANGED <<lock, drawn, channel, hub, shown>>
    /\ UNCHANGED aiTasks

-----------------------------------------------------------------------------
(* Leaving, by message or because the connection is gone. *)

\* Mutant of BeginLeave: only the message leaves a room, not the end of a connection.
BeginLeaveByMessage(c) ==
    /\ op[c] = Idle /\ alive[c] = "up" /\ InRoom(c)
    /\ op' = [op EXCEPT ![c] = [kind |-> "leave", room |-> member[c].room]]
    /\ UNCHANGED <<redis, hub, shown, aiTasks>>

\* leaveRoom and, for a cancelled connection, onDisconnect: they find the room of
\* the client and go for its lock.  Nobody gives up here: leaveRoomContext retries.
BeginLeave(c) ==
    /\ op[c] = Idle /\ alive[c] # "gone" /\ InRoom(c)
    /\ op' = [op EXCEPT ![c] = [kind |-> "leave", room |-> member[c].room]]
    /\ UNCHANGED <<redis, hub, shown, aiTasks>>

\* The end of readLoop for a client that is in no room.
Disconnect(c) ==
    /\ op[c] = Idle /\ alive[c] = "cancelled" /\ ~InRoom(c)
    /\ alive' = [alive EXCEPT ![c] = "gone"]
    /\ UNCHANGED <<redis, localRooms, member, op, shown, aiTasks>>

\* Mutant of Unbind: the instance goes on delivering to the seat.
UnbindMemberOnly(c) ==
    /\ op[c].kind = "leave" /\ lock[op[c].room] = Nobody
    /\ IF ~InRoom(c)
       THEN Return(c) /\ UNCHANGED <<lock, member, shown>>
       ELSE /\ lock' = [lock EXCEPT ![op[c].room] = c]
            /\ member' = [member EXCEPT ![c] = NoMember]
            /\ op' = [op EXCEPT ![c] = [kind |-> "unbound", room |-> member[c].room,
                                        seat |-> member[c].seat]]
            /\ Show({c}, Menu)
    /\ UNCHANGED <<rooms, drawn, channel, localRooms, alive, aiTasks>>

\* leaveLocked: the membership is read again and undone first.
Unbind(c) ==
    /\ op[c].kind = "leave" /\ lock[op[c].room] = Nobody
    /\ IF ~InRoom(c)
       THEN Return(c) /\ UNCHANGED <<lock, localRooms, member, shown>>
       ELSE LET x == member[c].room
                seat == member[c].seat
            IN  /\ lock' = [lock EXCEPT ![op[c].room] = c]
                /\ localRooms' = [localRooms EXCEPT ![Host[c]] =
                                    {b \in @ : ~(b[1] = x /\ b[2] = seat)}]
                /\ member' = [member EXCEPT ![c] = NoMember]
                /\ op' = [op EXCEPT ![c] = [kind |-> "unbound", room |-> x, seat |-> seat]]
                /\ Show({c}, Menu)
    /\ UNCHANGED <<rooms, drawn, channel, alive, aiTasks>>

\* Mutants of ReleaseSeat: the next guest is ready at once; a running game is left alone.
ReleaseReadySeat(c) ==
    /\ op[c].kind = "unbound" /\ CanPublish
    /\ LET x == op[c].room
           r == [rooms[x] EXCEPT !.guest = Nobody]
       IN  /\ Exists(x) /\ rooms[x].mode = "pvp" /\ ~rooms[x].started /\ op[c].seat = 1
           /\ rooms' = [rooms EXCEPT ![x] = r]
           /\ Publish(ToRoom(x, LobbyOf(r)))
           /\ lock' = [lock EXCEPT ![x] = Nobody]
    /\ Return(c)
    /\ UNCHANGED <<drawn, hub, shown, aiTasks>>
ReleasePlayingSeat(c) ==
    /\ op[c].kind = "unbound" /\ CanPublish
    /\ LET x == op[c].room
           r == [rooms[x] EXCEPT !.guest = Nobody, !.ready = FALSE]
       IN  /\ Exists(x) /\ rooms[x].mode = "pvp" /\ op[c].seat = 1
           /\ rooms' = [rooms EXCEPT ![x] = r]
           /\ Publish(ToRoom(x, LobbyOf(r)))
           /\ lock' = [lock EXCEPT ![x] = Nobody]
    /\ Return(c)
    /\ UNCHANGED <<drawn, hub, shown, aiTasks>>

\* leaveLocked for the guest of a room that has not started: the seat is free again.
ReleaseSeat(c) ==
    /\ op[c].kind = "unbound" /\ CanPublish
    /\ LET x == op[c].room
           r == [rooms[x] EXCEPT !.guest = Nobody, !.ready = FALSE]
       IN  /\ Exists(x) /\ rooms[x].mode = "pvp" /\ ~rooms[x].started /\ op[c].seat = 1
           /\ rooms' = [rooms EXCEPT ![x] = r]
           /\ Publish(ToRoom(x, LobbyOf(r)))
           /\ lock' = [lock EXCEPT ![x] = Nobody]
    /\ Return(c)
    /\ UNCHANGED <<drawn, hub, shown, aiTasks>>

\* Mutant of AnnounceLeave: the others are not told.
CloseWithoutWord(c) ==
    /\ op[c].kind = "unbound"
    /\ ~(Exists(op[c].room) /\ rooms[op[c].room].mode = "pvp"
          /\ ~rooms[op[c].room].started /\ op[c].seat = 1)
    /\ op' = [op EXCEPT ![c] = [kind |-> "closing", room |-> op[c].room]]
    /\ UNCHANGED <<redis, hub, shown, aiTasks>>

\* leaveLocked in every other case: the room is closed for everybody.
AnnounceLeave(c) ==
    /\ op[c].kind = "unbound" /\ CanPublish
    /\ LET x == op[c].room
       IN  /\ ~(Exists(x) /\ rooms[x].mode = "pvp" /\ ~rooms[x].started /\ op[c].seat = 1)
           /\ Publish(Left(x, op[c].seat))
           /\ op' = [op EXCEPT ![c] = [kind |-> "closing", room |-> x]]
    /\ UNCHANGED <<rooms, lock, drawn, hub, shown, aiTasks>>

CloseRoom(c) ==
    /\ op[c].kind = "closing"
    /\ LET x == op[c].room
       IN  /\ rooms' = [rooms EXCEPT ![x] = NoRoom]
           /\ lock' = [lock EXCEPT ![x] = Nobody]
    /\ Return(c)
    /\ UNCHANGED <<drawn, channel, hub, shown, aiTasks>>

-----------------------------------------------------------------------------
(* The AI, the subscriber, and the network. *)

\* Mutant of AiMove: one ply and done, even if it is the AI's turn again.
AiMoveOnce(x) ==
    /\ aiTasks[x] > 0 /\ lock[x] = Nobody
    /\ aiTasks' = [aiTasks EXCEPT ![x] = @ - 1]
    /\ IF Exists(x) /\ ~rooms[x].game.over /\ rooms[x].game.turn = 1
       THEN /\ CanPublish
            /\ \E g \in Game!PlyOutcomes(rooms[x].game) :
                 /\ rooms' = [rooms EXCEPT ![x].game = g]
                 /\ Publish(ToRoom(x, [screen |-> "game", game |-> g]))
       ELSE UNCHANGED <<rooms, channel>>
    /\ UNCHANGED <<lock, drawn, hub, op, shown>>

\* One round of aiMove: it plays if it is its turn, and goes on while it stays so.
AiMove(x) ==
    /\ aiTasks[x] > 0 /\ lock[x] = Nobody
    /\ IF Exists(x) /\ ~rooms[x].game.over /\ rooms[x].game.turn = 1
       THEN /\ CanPublish
            /\ \E g \in Game!PlyOutcomes(rooms[x].game) :
                 LET r == [rooms[x] EXCEPT !.game = g]
                 IN  /\ rooms' = [rooms EXCEPT ![x] = r]
                     /\ Publish(ToRoom(x, GameOf(r)))
                     /\ aiTasks' = IF g.turn = 1 THEN aiTasks
                                   ELSE [aiTasks EXCEPT ![x] = @ - 1]
       ELSE aiTasks' = [aiTasks EXCEPT ![x] = @ - 1] /\ UNCHANGED <<rooms, channel>>
    /\ UNCHANGED <<lock, drawn, hub, op, shown>>

\* aiMove does not get the lock: it reports an error and the task ends.
AiGivesUp(x) ==
    /\ aiTasks[x] > 0 /\ lock[x] # Nobody
    /\ aiTasks' = [aiTasks EXCEPT ![x] = @ - 1]
    /\ UNCHANGED <<redis, hub, op, shown>>

\* dispatch, by kind of message: a room was closed and all its seats here are given
\* up, the one who left excepted from the news;
Evict(i, m) ==
    LET here == {b \in localRooms[i] : b[1] = m.room}
        rest == {b[3] : b \in {d \in here : d[2] # m.seat}}
    IN  /\ localRooms' = [localRooms EXCEPT ![i] = @ \ here]
        /\ member' = [c \in Clients |-> IF c \in rest THEN NoMember ELSE member[c]]
        /\ Show(rest, Menu)

\* a message for one connection seats it, if this instance has that connection;
SeatTarget(i, m) ==
    IF Host[m.to] = i /\ alive[m.to] # "gone"
    THEN BindLocal(m.to, m.room, 1) /\ Show({m.to}, Entered)
    ELSE UNCHANGED <<member, localRooms, shown>>

\* a message for a room goes to those who sit in it.
Deliver(i, m) ==
    /\ Show({b[3] : b \in {d \in localRooms[i] : d[1] = m.room}}, m.screen)
    /\ UNCHANGED <<member, localRooms>>

Dispatch(i) ==
    /\ channel[i] # <<>>
    /\ LET m == Head(channel[i])
       IN  \/ m.type = "leave" /\ Evict(i, m)
           \/ m.type = "bind" /\ SeatTarget(i, m)
           \/ m.type = "room" /\ Deliver(i, m)
    /\ channel' = [channel EXCEPT ![i] = Tail(@)]
    /\ UNCHANGED <<rooms, lock, drawn, alive, op, aiTasks>>

\* The connection fails, is closed by the browser, or is closed because its send
\* buffer is full or a write fails.
Cancel(c) ==
    /\ c \in Failing /\ alive[c] = "up"
    /\ alive' = [alive EXCEPT ![c] = "cancelled"]
    /\ UNCHANGED <<redis, localRooms, member, op, shown, aiTasks>>

-----------------------------------------------------------------------------
Handler(c) ==
    \/ EnterCreated(c) \/ EnterJoined(c)
    \/ ReadSeat(c) \/ Refuse(c) \/ GiveUp(c)
    \/ \E kind \in {"ready", "unready"} : SetReady(c, kind)
    \/ StartGame(c) \/ PlayerMove(c) \/ Resign(c) \/ Rematch(c)
    \/ Unbind(c) \/ ReleaseSeat(c) \/ AnnounceLeave(c) \/ CloseRoom(c)

\* What a read loop does on its own account once its connection is cancelled.
CleanUp(c) == alive[c] = "cancelled" /\ (BeginLeave(c) \/ Disconnect(c))

Ai(x) == AiMove(x) \/ AiGivesUp(x)

Next ==
    \/ \E c \in Clients :
          \/ \E x \in Codes, mode \in Modes : CreateRoom(c, mode, x)
          \/ \E x \in Codes : JoinSeat1(c, x)
          \/ \E kind \in Commands : Begin(c, kind)
          \/ BeginLeave(c) \/ Disconnect(c) \/ Handler(c) \/ Cancel(c)
    \/ \E x \in Codes : Ai(x)
    \/ \E i \in Instances : Dispatch(i)

Spec == Init /\ [][Next]_vars

\* The goroutines of the server run: handlers that were started end, subscribers
\* deliver, tasks of the AI wake up, and a read loop sees that its connection is
\* cancelled.  Fairness is strong where a step waits: for the lock, which one who
\* leaves asks for again and again (and gets within the five seconds it has), and for
\* a place in the channel, which only the bound MaxQueue ever makes scarce.  Nothing is
\* assumed of the users.
Fairness ==
    /\ \A c \in Clients : SF_vars(Handler(c)) /\ WF_vars(CleanUp(c))
    /\ \A x \in Codes : SF_vars(Ai(x))
    /\ \A i \in Instances : WF_vars(Dispatch(i))

FairSpec == Spec /\ Fairness

-----------------------------------------------------------------------------
(* The room as its users know it. *)

LifeOf(x) ==
    IF ~Exists(x) THEN IF x \in drawn THEN [stage |-> "closed"] ELSE [stage |-> "free"]
    ELSE LET r == rooms[x]
         IN  IF r.started
             THEN [stage |-> "game", host |-> r.host, guest |-> r.guest,
                   view |-> r.game, votes |-> r.rematch]
             ELSE [stage |-> "lobby", host |-> r.host, guest |-> r.guest, ready |-> r.ready]

Life == INSTANCE RoomLife WITH tables <- [x \in Codes |-> LifeOf(x)]

\* Whatever the handlers of all connections and the tasks of the AI do to a room in
\* Redis is a step in the life of that room: nobody sits down at a started game, a game
\* goes on by plies, a resignation or an agreed rematch only, and no late handler brings
\* a closed room back.
ImplementsRoomLife == Life!Spec

-----------------------------------------------------------------------------
(* Properties. *)

Occupants(r) == IF r = NoRoom THEN {} ELSE {r.host, r.guest} \ {Nobody}

Messages ==
    {ToRoom(x, s) : x \in Codes, s \in Screens}
      \cup {Left(x, seat) : x \in Codes, seat \in Seats}
      \cup {BindTo(x, c) : x \in Codes, c \in Clients}

\* The types of the variables.  A winner or a turn outside the seats would show here.
TypeOK ==
    /\ \A x \in Codes : Exists(x) => rooms[x] \in RoomRecords
    /\ lock \in [Codes -> Clients \cup {Nobody}]
    /\ drawn \subseteq Codes
    /\ \A i \in Instances :
          /\ Len(channel[i]) <= MaxQueue
          /\ \A k \in 1..Len(channel[i]) : channel[i][k] \in Messages
          /\ localRooms[i] \subseteq Codes \X Seats \X Clients
    /\ \A c \in Clients :
          member[c] \in [room : Codes, seat : Seats] \cup {NoMember}
    /\ alive \in [Clients -> {"up", "cancelled", "gone"}]
    /\ shown \in [Clients -> Screens]
    /\ aiTasks \in [Codes -> 0..MaxTasks]

\* The two books an instance keeps about who sits where agree: a client delivers to
\* the seat it believes to hold, and no other, through joins, leaves and closings.
LocalMatchesMember ==
    \A c \in Clients, i \in Instances, x \in Codes, seat \in Seats :
        <<x, seat, c>> \in localRooms[i]
            <=> i = Host[c] /\ member[c] = [room |-> x, seat |-> seat]

\* A client that believes to sit in a room that exists holds that seat in Redis.
BoundClientsAreSeated ==
    \A c \in Clients :
        InRoom(c) /\ Exists(member[c].room)
            => SeatOwner(rooms[member[c].room], member[c].seat) = c

\* Nobody is left sitting in a room that was closed: the message that sends the
\* client back to the menu is on its way to its instance.
NobodyStranded ==
    \A c \in Clients :
        InRoom(c) /\ ~Exists(member[c].room)
            => \E k \in 1..Len(channel[Host[c]]) :
                  LET m == channel[Host[c]][k]
                  IN  m.type = "leave" /\ m.room = member[c].room /\ m.seat # member[c].seat

\* A friend game only runs with a guest who said to be ready, and a guest who left
\* is ready no longer.
RunningGamesAreAgreed ==
    \A x \in Codes :
        Exists(x) /\ rooms[x].mode = "pvp" =>
            /\ rooms[x].started => rooms[x].ready
            /\ rooms[x].ready => rooms[x].guest # Nobody

\* When nothing is on its way, everybody connected sees what Redis holds: the lobby
\* before the start and the game after it.
ViewsAgree ==
    \A c \in Clients :
        LET x == member[c].room
        IN  /\ InRoom(c) /\ alive[c] = "up"
            /\ Exists(x) /\ lock[x] = Nobody
            /\ \A k \in 1..Len(channel[Host[c]]) : channel[Host[c]][k].room # x
            => shown[c] = IF rooms[x].started THEN GameOf(rooms[x]) ELSE LobbyOf(rooms[x])

\* A request for a rematch never outlives the end of the game it was made at.
RematchVotesAreFresh ==
    \A x \in Codes : Exists(x) /\ ~rooms[x].game.over => rooms[x].rematch = {}

\* Once a friend game has started, its two players stay the players of the room until
\* the room is closed; nobody takes over the seat of one who left.
\* The life of a room has it so; this says it of the fields of the code.
StartedGameKeepsItsPlayers ==
    [][\A x \in Codes :
          Exists(x) /\ Exists(x)' /\ rooms[x].started
            => rooms'[x].started /\ Occupants(rooms'[x]) = Occupants(rooms[x])]_vars

\* A game that ends without a ply is lost by the one who resigned it.
ResignerLoses ==
    [][\A x \in Codes :
          /\ Exists(x) /\ Exists(x)'
          /\ ~rooms[x].game.over /\ rooms'[x].game.over
          /\ rooms'[x].game.ply = rooms[x].game.ply
          => \E c \in Clients :
                /\ op[c].kind = "resign" /\ op'[c] = Idle
                /\ SeatOwner(rooms[x], 1 - rooms'[x].game.winner) = c]_vars

\* The seat of a client whose connection ended is free again, or its room closed.
BoundSeatIsReleased ==
    \A c \in Clients, x \in Codes :
        (member[c].room = x /\ alive[c] # "up") ~> (c \notin Occupants(rooms[x]))

\* The computer answers, unless its opponent ends the game or the room.
AiAnswers ==
    \A x \in Codes :
        (Exists(x) /\ rooms[x].mode = "ai" /\ ~rooms[x].game.over /\ rooms[x].game.turn = 1)
            ~> (~Exists(x) \/ rooms[x].game.over \/ rooms[x].game.turn = 0)

\* server/README.md:177 says that a guest who leaves or loses the connection before
\* the start frees the seat, so that the host, who is still there, can invite another.
GuestSeatIsReleased ==
    \A c \in Clients, x \in Codes :
        (Exists(x) /\ rooms[x].guest = c /\ ~rooms[x].started /\ alive[c] # "up")
            ~> (~Exists(x) \/ rooms[x].guest # c \/ alive[rooms[x].host] # "up")
=============================================================================
