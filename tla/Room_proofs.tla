------------------------------ MODULE Room_proofs ------------------------------
(***************************************************************************)
(* Proofs about Room for every number of users, server instances, codes    *)
(* and plies, and every set of commands and of connections that may fail.  *)
(*                                                                         *)
(* Four books say who sits where: the room in Redis, the membership of a   *)
(* client, the seats its instance delivers to, and what a handler has read *)
(* and works with.  The invariant says when they agree and, where a        *)
(* handler or a message is still on its way, what it will set right.       *)
(* From it follows that Room implements RoomLife.                          *)
(***************************************************************************)
EXTENDS Room, TLAPS

-----------------------------------------------------------------------------
(* Types. *)

\* In a room without quick matching nobody is seated by a message.
News == {ToRoom(x, s) : x \in Codes, s \in Screens}
Leaves == {Left(x, seat) : x \in Codes, seat \in Seats}

\* The kinds of handlers, by what they hold.
Holding == {"joined", "unbound", "closing"}          \* the lock of the room
Seatless == Holding \cup {"created"}                 \* no membership
Entering == Commands \cup {"leave"}                  \* a membership they have read

NoSeat == -1

Ops ==
    {Idle}
      \cup [kind : {"created", "joined", "leave", "closing"}, room : Codes]
      \cup [kind : Commands, room : Codes, seat : Seats \cup {NoSeat, Unread}]
      \cup [kind : {"unbound"}, room : Codes, seat : Seats]

Typed ==
    /\ rooms \in [Codes -> RoomRecords \cup {NoRoom}]
    /\ lock \in [Codes -> Clients \cup {Nobody}]
    /\ drawn \subseteq Codes
    /\ channel \in [Instances -> Seq(News \cup Leaves)]
    /\ \A i \in Instances : Len(channel[i]) <= MaxQueue
    /\ localRooms \in [Instances -> SUBSET (Codes \X Seats \X Clients)]
    /\ member \in [Clients -> [room : Codes, seat : Seats] \cup {NoMember}]
    /\ alive \in [Clients -> {"up", "cancelled", "gone"}]
    /\ op \in [Clients -> Ops]
    /\ shown \in [Clients -> Screens]
    /\ aiTasks \in [Codes -> 0..MaxTasks]

-----------------------------------------------------------------------------
(* The parts of the inductive invariant. *)

Works(c, x) == op[c].kind # "idle" /\ op[c].room = x
Sits(c, x, seat) == member[c].room = x /\ member[c].seat = seat
Queued(i) == 1..Len(channel[i])

\* A room is closed, or somebody who holds its lock has announced that it will be.
Closing(x) == \E d \in Clients : op[d].kind = "closing" /\ op[d].room = x
Ending(x) == ~Exists(x) \/ Closing(x)

\* The lock of a room is held by the handler that says so, and by no other.
LocksAreHeld ==
    \A x \in Codes, c \in Clients :
        lock[x] = c <=> op[c].kind \in Holding /\ op[c].room = x

\* Whatever names a code names one that was drawn.
NamesAreDrawn ==
    /\ \A x \in Codes : Exists(x) \/ aiTasks[x] > 0 => x \in drawn
    /\ \A c \in Clients : InRoom(c) => member[c].room \in drawn
    /\ \A c \in Clients : op[c].kind # "idle" => op[c].room \in drawn
    /\ \A i \in Instances : \A k \in Queued(i) : channel[i][k].room \in drawn

\* A room is its host's alone until the host has been told its code.
CreatedIsUntouched ==
    \A c \in Clients : op[c].kind = "created" =>
        LET x == op[c].room
        IN  /\ rooms[x] = NewRoom(rooms[x].mode, c) /\ rooms[x].mode \in {"pvp", "ai"}
            /\ aiTasks[x] = 0
            /\ \A d \in Clients : member[d].room # x /\ (d # c => ~Works(d, x))
            /\ \A i \in Instances : \A k \in Queued(i) : channel[i][k].room # x

\* Who sits in a room, works for a seat or has just joined a room, which then has not
\* started, owns the seat in Redis.
SeatsAreOwned ==
    \A c \in Clients :
        /\ InRoom(c) /\ Exists(member[c].room)
              => SeatOwner(rooms[member[c].room], member[c].seat) = c
        /\ op[c].kind \in Commands \cup {"unbound"} /\ op[c].seat \in Seats /\ Exists(op[c].room)
              => SeatOwner(rooms[op[c].room], op[c].seat) = c
        /\ op[c].kind = "joined" =>
              Exists(op[c].room) /\ rooms[op[c].room].guest = c /\ ~rooms[op[c].room].started

\* A handler has the membership it needs: none, or the one it has read, unless the
\* room is ending.
MembershipFits ==
    \A c \in Clients :
        /\ op[c].kind \in Seatless => ~InRoom(c)
        /\ op[c].kind \in Entering => IF InRoom(c) THEN member[c].room = op[c].room
                                      ELSE Ending(op[c].room)
        /\ op[c].kind \in Commands /\ op[c].seat = NoSeat => Ending(op[c].room)

\* No two clients sit on one seat.
SeatsAreSingle ==
    \A c, d \in Clients :
        InRoom(c) /\ Sits(d, member[c].room, member[c].seat) => c = d

\* The seats an instance delivers to are those its clients sit on.
LocalIsMember ==
    \A c \in Clients, i \in Instances, x \in Codes, seat \in Seats :
        <<x, seat, c>> \in localRooms[i] <=> i = Host[c] /\ Sits(c, x, seat)

\* A seat that was given up stays empty, and the news that a room closes is true.
LeftIsEmpty ==
    /\ \A c, d \in Clients : op[c].kind = "unbound" => ~Sits(d, op[c].room, op[c].seat)
    /\ \A i \in Instances : \A k \in Queued(i) :
          channel[i][k].type = "leave" =>
            /\ Ending(channel[i][k].room)
            /\ \A d \in Clients : ~Sits(d, channel[i][k].room, channel[i][k].seat)

\* Who still sits in a room that is ending will be told.
EndIsToldTo(c) ==
    \E k \in Queued(Host[c]) :
        LET m == channel[Host[c]][k]
        IN  m.type = "leave" /\ m.room = member[c].room /\ m.seat # member[c].seat
EndIsTold ==
    \A c \in Clients : InRoom(c) /\ Ending(member[c].room) => EndIsToldTo(c)

\* The games of the rooms.
GameFits(r) ==
    /\ r.mode = "pvp" => /\ r.started => r.ready
                         /\ r.ready => r.guest # Nobody
    /\ r.mode = "ai" => r.started /\ r.guest = Nobody
    /\ ~r.started => r.game = Game!NewView
    /\ ~r.game.over => r.game.ply < MaxPlies /\ r.rematch = {}
GamesFit == \A x \in Codes : Exists(x) => GameFits(rooms[x])

\* What a client in room x should see, and what it will see once all news has come.
Current(x) == IF rooms[x].started THEN GameOf(rooms[x]) ELSE LobbyOf(rooms[x])
IsNews(m, x) == m.type = "room" /\ m.room = x
SeesAtLast(screen, q, x, s) ==
    \/ screen = s /\ \A k \in 1..Len(q) : ~IsNews(q[k], x)
    \/ \E k \in 1..Len(q) : /\ q[k] = ToRoom(x, s)
                            /\ \A j \in (k + 1)..Len(q) : ~IsNews(q[j], x)

Joining(x) == \E d \in Clients : op[d].kind = "joined" /\ op[d].room = x

\* Once all news has come everybody sees the room as it is; only a guest who has taken
\* the seat has yet to tell the others.
NewsIsTrue ==
    \A c \in Clients :
        LET x == member[c].room
        IN  InRoom(c) /\ alive[c] = "up" /\ Exists(x) /\ ~Joining(x)
              => SeesAtLast(shown[c], channel[Host[c]], x, Current(x))

RoomInvariant ==
    /\ Typed
    /\ LocksAreHeld
    /\ NamesAreDrawn
    /\ CreatedIsUntouched
    /\ SeatsAreOwned
    /\ MembershipFits
    /\ SeatsAreSingle
    /\ LocalIsMember
    /\ LeftIsEmpty
    /\ EndIsTold
    /\ GamesFit
    /\ NewsIsTrue

-----------------------------------------------------------------------------
(* What the pieces of the actions do, in terms of the invariant. *)

\* The kinds of commands are none of the other kinds of handlers.
LEMMA KindsDiffer ==
    /\ Commands \cap (Seatless \cup {"idle", "leave"}) = {}
    /\ Seatless = Holding \cup {"created"} /\ "created" \notin Holding
    /\ "idle" \notin Seatless /\ "leave" \notin Seatless
BY UsersAssumption DEF Seatless, Holding

\* What can be on its way to an instance.
LEMMA MessageShape ==
    ASSUME NEW m \in News \cup Leaves
    PROVE  /\ m.room \in Codes
           /\ m.type \in {"room", "leave"}
           /\ m.type = "room" => m.screen \in Screens /\ m = ToRoom(m.room, m.screen)
           /\ m.type = "leave" => m.seat \in Seats
BY DEF News, Leaves, ToRoom, Left

\* What a read loop can be in.
LEMMA OpShape ==
    ASSUME NEW o \in Ops
    PROVE  /\ o.kind \in {"idle", "unbound"} \cup Seatless \cup Entering
           /\ o.kind = "idle" <=> o = Idle
           /\ o.kind # "idle" => o.room \in Codes
           /\ o.kind \in Commands => o.seat \in Seats \cup {NoSeat, Unread}
           /\ o.kind = "unbound" => o.seat \in Seats
           /\ o.kind = "created" => o = [kind |-> "created", room |-> o.room]
BY UsersAssumption DEF Ops, Idle, Seatless, Holding, Entering

\* Publishing appends the message to every queue.
LEMMA PublishAppends ==
    ASSUME Typed, NEW m \in News \cup Leaves, CanPublish, Publish(m)
    PROVE  /\ channel' \in [Instances -> Seq(News \cup Leaves)]
           /\ \A i \in Instances :
                 /\ Len(channel[i]) \in Nat /\ Len(channel'[i]) = Len(channel[i]) + 1
                 /\ Len(channel'[i]) <= MaxQueue
                 /\ \A k \in Queued(i) : channel'[i][k] = channel[i][k]
                 /\ channel'[i][Len(channel[i]) + 1] = m
                 /\ \A k \in 1..Len(channel'[i]) :
                       channel'[i][k] = m \/ (k \in Queued(i) /\ channel'[i][k] = channel[i][k])
                 /\ \A k \in Queued(i) : k \in 1..Len(channel'[i])
<1>1. channel' = [i \in Instances |-> Append(channel[i], m)]
  BY DEF Publish
<1>2. ASSUME NEW i \in Instances
      PROVE  /\ Append(channel[i], m) \in Seq(News \cup Leaves)
             /\ Len(channel[i]) \in Nat
             /\ Len(Append(channel[i], m)) = Len(channel[i]) + 1
             /\ Len(channel[i]) < MaxQueue
             /\ \A k \in Queued(i) : Append(channel[i], m)[k] = channel[i][k]
             /\ Append(channel[i], m)[Len(channel[i]) + 1] = m
  <2>1. channel[i] \in Seq(News \cup Leaves)
    BY DEF Typed
  <2> HIDE DEF News, Leaves
  <2> QED
    BY <2>1 DEF Queued, CanPublish
<1>3. \A i \in Instances : channel'[i] = Append(channel[i], m)
  BY <1>1
<1>4. channel' \in [Instances -> Seq(News \cup Leaves)]
  BY <1>1, <1>2
<1>5. \A i \in Instances : Len(channel[i]) + 1 <= MaxQueue
  BY <1>2, BoundsAssumption
<1> HIDE DEF News, Leaves
<1>6. \A i \in Instances :
         /\ Len(channel[i]) \in Nat /\ Len(channel'[i]) = Len(channel[i]) + 1
         /\ Len(channel'[i]) <= MaxQueue
         /\ \A k \in Queued(i) : channel'[i][k] = channel[i][k]
         /\ channel'[i][Len(channel[i]) + 1] = m
  BY <1>2, <1>3, <1>4, <1>5
<1>7. ASSUME NEW i \in Instances, NEW k \in 1..Len(channel'[i])
      PROVE  k \in Queued(i) \/ k = Len(channel[i]) + 1
  BY <1>6, <1>7 DEF Queued
<1>8. \A i \in Instances : \A k \in Queued(i) : k \in 1..Len(channel'[i])
  BY <1>6 DEF Queued
<1>9. ASSUME NEW i \in Instances, NEW k \in 1..Len(channel'[i])
      PROVE  channel'[i][k] = m \/ (k \in Queued(i) /\ channel'[i][k] = channel[i][k])
  <2>1. CASE k \in Queued(i)
    BY <1>6, <2>1
  <2>2. CASE k = Len(channel[i]) + 1
    <3>1. channel'[i][Len(channel[i]) + 1] = m
      BY <1>6
    <3> QED
      BY <2>2, <3>1
  <2> QED
    BY <1>7, <1>9, <2>1, <2>2
<1> QED
  BY <1>4, <1>6, <1>8, <1>9

\* A subscriber takes the first message of its queue.
LEMMA DispatchTakes ==
    ASSUME Typed, NEW i \in Instances, channel[i] # <<>>,
           channel' = [channel EXCEPT ![i] = Tail(@)]
    PROVE  /\ channel' \in [Instances -> Seq(News \cup Leaves)]
           /\ Head(channel[i]) \in News \cup Leaves
           /\ 1 \in Queued(i) /\ Head(channel[i]) = channel[i][1]
           /\ Len(channel[i]) \in Nat \ {0} /\ Len(channel'[i]) = Len(channel[i]) - 1
           /\ \A k \in 1..Len(channel'[i]) :
                 k + 1 \in Queued(i) /\ channel'[i][k] = channel[i][k + 1]
           /\ \A j \in Instances \ {i} : channel'[j] = channel[j]
<1>1. channel[i] \in Seq(News \cup Leaves) /\ DOMAIN channel = Instances
  BY DEF Typed
<1>2. /\ Tail(channel[i]) \in Seq(News \cup Leaves)
      /\ Head(channel[i]) \in News \cup Leaves
      /\ Head(channel[i]) = channel[i][1]
      /\ Len(channel[i]) \in Nat \ {0} /\ Len(Tail(channel[i])) = Len(channel[i]) - 1
      /\ \A k \in 1..Len(Tail(channel[i])) : Tail(channel[i])[k] = channel[i][k + 1]
  BY <1>1
<1>3. channel'[i] = Tail(channel[i]) /\ \A j \in Instances \ {i} : channel'[j] = channel[j]
  BY <1>1
<1>4. channel' \in [Instances -> Seq(News \cup Leaves)]
  BY <1>2 DEF Typed
<1> QED
  BY <1>2, <1>3, <1>4 DEF Queued

\* One handler goes on.
LEMMA OpMoves ==
    ASSUME Typed, NEW c \in Clients, NEW o \in Ops, op' = [op EXCEPT ![c] = o]
    PROVE  /\ op' \in [Clients -> Ops]
           /\ op'[c] = o
           /\ \A d \in Clients \ {c} : op'[d] = op[d]
BY DEF Typed

\* The seats of a client.
LEMMA MemberShape ==
    ASSUME Typed, NEW c \in Clients
    PROVE  /\ InRoom(c) => member[c].room \in Codes /\ member[c].seat \in Seats
           /\ ~InRoom(c) => member[c] = NoMember /\ member[c].room = NoCode
           /\ member[c].seat \in Seats \cup {NoSeat}
BY NobodyAssumption DEF Typed, InRoom, NoMember, NoSeat

\* A message that is appended to the queue q, giving r.
LEMMA SeesAppended ==
    ASSUME NEW q, NEW r, NEW m, NEW x, NEW s, NEW screen,
           Len(q) \in Nat, Len(r) = Len(q) + 1,
           \A k \in 1..Len(q) : r[k] = q[k], r[Len(q) + 1] = m
    PROVE  /\ m = ToRoom(x, s) => SeesAtLast(screen, r, x, s)
           /\ ~IsNews(m, x) /\ SeesAtLast(screen, q, x, s) => SeesAtLast(screen, r, x, s)
<1>1. ASSUME m = ToRoom(x, s)
      PROVE  SeesAtLast(screen, r, x, s)
  <2>1. /\ Len(q) + 1 \in 1..Len(r) /\ r[Len(q) + 1] = ToRoom(x, s)
        /\ ((Len(q) + 1) + 1)..Len(r) = {}
    BY <1>1
  <2> QED
    BY <2>1 DEF SeesAtLast
<1>2. ASSUME ~IsNews(m, x), screen = s, \A k \in 1..Len(q) : ~IsNews(q[k], x)
      PROVE  SeesAtLast(screen, r, x, s)
  <2>1. ASSUME NEW k \in 1..Len(r)
        PROVE  ~IsNews(r[k], x)
    BY <1>2, <2>1
  <2> QED
    BY <1>2, <2>1 DEF SeesAtLast
<1>3. ASSUME ~IsNews(m, x), NEW k \in 1..Len(q), q[k] = ToRoom(x, s),
             \A j \in (k + 1)..Len(q) : ~IsNews(q[j], x)
      PROVE  SeesAtLast(screen, r, x, s)
  <2>1. k \in 1..Len(r) /\ r[k] = ToRoom(x, s)
    BY <1>3
  <2>2. ASSUME NEW j \in (k + 1)..Len(r)
        PROVE  ~IsNews(r[j], x)
    BY <1>3, <2>2
  <2> QED
    BY <2>1, <2>2 DEF SeesAtLast
<1> QED
  BY <1>1, <1>2, <1>3 DEF SeesAtLast

\* The first message of the queue q that is taken, leaving r.
LEMMA SeesTaken ==
    ASSUME NEW q, NEW r, NEW x, NEW s, NEW screen,
           Len(q) \in Nat \ {0}, Len(r) = Len(q) - 1,
           \A k \in 1..Len(r) : r[k] = q[k + 1],
           SeesAtLast(screen, q, x, s)
    PROVE  SeesAtLast(IF IsNews(q[1], x) THEN q[1].screen ELSE screen, r, x, s)
<1> DEFINE seen == IF IsNews(q[1], x) THEN q[1].screen ELSE screen
<1>1. ASSUME screen = s, \A k \in 1..Len(q) : ~IsNews(q[k], x)
      PROVE  SeesAtLast(seen, r, x, s)
  <2>1. 1 \in 1..Len(q) /\ \A k \in 1..Len(r) : k + 1 \in 1..Len(q)
    OBVIOUS
  <2> QED
    BY <1>1, <2>1 DEF SeesAtLast
<1>2. ASSUME NEW k \in 1..Len(q), q[k] = ToRoom(x, s),
             \A j \in (k + 1)..Len(q) : ~IsNews(q[j], x)
      PROVE  SeesAtLast(seen, r, x, s)
  <2>1. CASE k = 1
    <3>1. seen = s
      BY <1>2, <2>1 DEF IsNews, ToRoom
    <3>2. \A j \in 1..Len(r) : j + 1 \in (k + 1)..Len(q)
      BY <2>1
    <3> QED
      BY <1>2, <3>1, <3>2 DEF SeesAtLast
  <2>2. CASE k # 1
    <3>1. k - 1 \in 1..Len(r) /\ r[k - 1] = q[k]
      BY <1>2, <2>2
    <3>2. ASSUME NEW j \in ((k - 1) + 1)..Len(r)
          PROVE  ~IsNews(r[j], x)
      <4>1. j + 1 \in (k + 1)..Len(q) /\ j \in 1..Len(r)
        BY <1>2, <3>2
      <4> QED
        BY <1>2, <4>1
    <3> QED
      BY <1>2, <3>1, <3>2 DEF SeesAtLast
  <2> QED
    BY <2>1, <2>2
<1> QED
  BY <1>1, <1>2 DEF SeesAtLast

-----------------------------------------------------------------------------
(* One lemma per action: it keeps the invariant. *)

\* A handler that only reads, or ends, between two memberships.
LEMMA HandlerKeeps ==
    ASSUME RoomInvariant, NEW c \in Clients, NEW o \in Ops,
           op' = [op EXCEPT ![c] = o],
           UNCHANGED <<rooms, lock, drawn, channel, localRooms, member, alive, shown, aiTasks>>,
           op[c].kind \notin Holding, o.kind \in Entering \cup {"idle"},
           o.kind # "idle" =>
             /\ o.room \in drawn
             /\ IF InRoom(c) THEN member[c].room = o.room ELSE Ending(o.room),
           o.kind \in Commands /\ o.seat = NoSeat => Ending(o.room),
           o.kind \in Commands /\ o.seat \in Seats /\ Exists(o.room)
             => SeatOwner(rooms[o.room], o.seat) = c
    PROVE  RoomInvariant'
<1>1. /\ op' \in [Clients -> Ops] /\ op'[c] = o
      /\ \A d \in Clients \ {c} : op'[d] = op[d]
  BY OpMoves DEF RoomInvariant
<1>2. o.kind \notin Seatless \cup Holding /\ op[c].kind \notin Holding
  BY KindsDiffer DEF Entering
<1>3. \A x : /\ Exists(x) <=> Exists(x)'
             /\ Closing(x) <=> Closing(x)'
             /\ Joining(x) <=> Joining(x)'
  BY <1>1, <1>2 DEF Exists, Closing, Joining, Holding
<1>4. Typed'
  BY <1>1 DEF RoomInvariant, Typed
<1>5. LocksAreHeld'
  BY <1>1, <1>2 DEF RoomInvariant, LocksAreHeld
<1>6. NamesAreDrawn'
  BY <1>1 DEF RoomInvariant, NamesAreDrawn, Exists, InRoom, Queued
<1>7. CreatedIsUntouched'
  <2>1. ASSUME NEW d \in Clients, op[d].kind = "created", o.kind # "idle"
        PROVE  o.room # op[d].room
    <3>1. /\ rooms[op[d].room] = NewRoom(rooms[op[d].room].mode, d)
          /\ rooms[op[d].room].mode \in {"pvp", "ai"}
          /\ member[c].room # op[d].room
          /\ \A e \in Clients : e # d => ~Works(e, op[d].room)
      BY <2>1 DEF RoomInvariant, CreatedIsUntouched
    <3>2. Exists(op[d].room) /\ ~Closing(op[d].room)
      BY <2>1, <3>1 DEF Exists, NoRoom, Closing, Works
    <3> QED
      BY <2>1, <3>1, <3>2 DEF Ending
  <2> QED
    BY <1>1, <1>2, <2>1 DEF RoomInvariant, CreatedIsUntouched, Works, Queued, Seatless
<1>8. SeatsAreOwned'
  BY <1>1, <1>2 DEF RoomInvariant, SeatsAreOwned, Exists, InRoom, Seatless, Holding
<1>9. MembershipFits'
  <2>1. ASSUME NEW d \in Clients
        PROVE  /\ op'[d].kind \in Seatless => ~InRoom(d)
               /\ op'[d].kind \in Entering => IF InRoom(d) THEN member[d].room = op'[d].room
                                              ELSE Ending(op'[d].room)
               /\ op'[d].kind \in Commands /\ op'[d].seat = NoSeat => Ending(op'[d].room)
    <3>1. CASE d = c
      BY <1>1, <1>2, <3>1, KindsDiffer DEF Entering
    <3>2. CASE d # c
      BY <1>1, <3>2 DEF RoomInvariant, MembershipFits
    <3> QED
      BY <3>1, <3>2
  <2>2. \A d \in Clients : InRoom(d) <=> InRoom(d)'
    BY DEF InRoom
  <2>3. \A x : Ending(x) <=> Ending(x)'
    BY <1>3 DEF Ending
  <2> QED
    BY <2>1, <2>2, <2>3 DEF MembershipFits
<1>10. SeatsAreSingle' /\ LocalIsMember'
  BY DEF RoomInvariant, SeatsAreSingle, LocalIsMember, InRoom, Sits
<1>11. LeftIsEmpty'
  BY <1>1, <1>2, <1>3 DEF RoomInvariant, LeftIsEmpty, Sits, Queued, Ending, Seatless, Holding
<1>12. EndIsTold'
  BY <1>3 DEF RoomInvariant, EndIsTold, EndIsToldTo, InRoom, Ending, Queued
<1>13. GamesFit'
  BY DEF RoomInvariant, GamesFit, Exists
<1>14. NewsIsTrue'
  BY <1>3 DEF RoomInvariant, NewsIsTrue, InRoom, Current
<1> QED
  BY <1>4, <1>5, <1>6, <1>7, <1>8, <1>9, <1>10, <1>11, <1>12, <1>13, <1>14
  DEF RoomInvariant

\* Begin: the handler reads the room, and some of them the seat.
LEMMA BeginKeeps ==
    ASSUME RoomInvariant, NEW c \in Clients, NEW kind \in Commands, Begin(c, kind)
    PROVE  RoomInvariant'
<1> DEFINE o == [kind |-> kind, room |-> member[c].room,
                 seat |-> IF kind \in SplitReads THEN Unread ELSE member[c].seat]
<1>1. /\ op[c].kind = "idle" /\ InRoom(c) /\ op' = [op EXCEPT ![c] = o]
      /\ UNCHANGED <<rooms, lock, drawn, channel, localRooms, member, alive, shown, aiTasks>>
  BY DEF Begin, MayHandle, Idle, redis, hub
<1>2. member[c].room \in Codes /\ member[c].seat \in Seats /\ member[c].room \in drawn
  BY <1>1, MemberShape DEF RoomInvariant, NamesAreDrawn
<1>3. o \in Ops
  BY <1>2 DEF Ops
<1>4. /\ o.kind = kind /\ o.room = member[c].room
      /\ o.seat \in {Unread, member[c].seat} /\ Unread \notin Seats /\ Unread # NoSeat
      /\ NoSeat \notin Seats
  BY DEF Unread, Seats, NoSeat
<1>5. Exists(member[c].room) => SeatOwner(rooms[member[c].room], member[c].seat) = c
  BY <1>1 DEF RoomInvariant, SeatsAreOwned
<1> HIDE DEF o
<1> QED
  BY <1>1, <1>2, <1>3, <1>4, <1>5, KindsDiffer, HandlerKeeps DEF Entering

\* ReadSeat: a handler whose client was sent out of its room reads no seat.
LEMMA ReadSeatKeeps ==
    ASSUME RoomInvariant, NEW c \in Clients, ReadSeat(c)
    PROVE  RoomInvariant'
<1> DEFINE o == [op[c] EXCEPT !.seat = member[c].seat]
<1>1. /\ op[c].kind \in SplitReads /\ op[c] \in Ops /\ Typed
      /\ op' = [op EXCEPT ![c] = o]
      /\ UNCHANGED <<rooms, lock, drawn, channel, localRooms, member, alive, shown, aiTasks>>
  BY DEF ReadSeat, redis, hub, RoomInvariant, Typed
<1>2. op[c].kind \in Commands
  BY <1>1, UsersAssumption DEF Ops, Idle, SplitReads
<1>3. /\ op[c] \in [kind : Commands, room : Codes, seat : Seats \cup {NoSeat, Unread}]
  BY <1>1, <1>2, UsersAssumption DEF Ops, Idle
<1>4. o \in Ops /\ o.kind = op[c].kind /\ o.room = op[c].room /\ o.seat = member[c].seat
  BY <1>1, <1>3, MemberShape DEF Ops
<1>5. /\ op[c].room \in drawn
      /\ IF InRoom(c) THEN member[c].room = op[c].room ELSE Ending(op[c].room)
  BY <1>1, <1>2, KindsDiffer DEF RoomInvariant, NamesAreDrawn, MembershipFits, Entering
<1>6. member[c].seat = NoSeat => ~InRoom(c)
  BY <1>1, MemberShape DEF Seats, NoSeat
<1>7. member[c].seat \in Seats => InRoom(c)
  BY <1>1, MemberShape DEF Seats, NoMember
<1>8. member[c].seat \in Seats /\ Exists(op[c].room)
        => SeatOwner(rooms[op[c].room], member[c].seat) = c
  BY <1>5, <1>7 DEF RoomInvariant, SeatsAreOwned
<1> HIDE DEF o
<1> QED
  BY <1>1, <1>2, <1>4, <1>5, <1>6, <1>8, KindsDiffer, HandlerKeeps DEF Entering

\* Refuse and GiveUp: the handler ends.
LEMMA EndKeeps ==
    ASSUME RoomInvariant, NEW c \in Clients, Refuse(c) \/ GiveUp(c)
    PROVE  RoomInvariant'
<1>1. /\ op[c].kind \in Commands /\ op' = [op EXCEPT ![c] = Idle]
      /\ UNCHANGED <<rooms, lock, drawn, channel, localRooms, member, alive, shown, aiTasks>>
  BY DEF Refuse, Locked, GiveUp, Return, redis, hub
<1>2. Idle \in Ops /\ Idle.kind = "idle"
  BY DEF Ops, Idle
<1> QED
  BY <1>1, <1>2, KindsDiffer, HandlerKeeps

\* BeginLeave: leaveRoom or the clean-up of a connection finds the room.
LEMMA BeginLeaveKeeps ==
    ASSUME RoomInvariant, NEW c \in Clients, BeginLeave(c)
    PROVE  RoomInvariant'
<1> DEFINE o == [kind |-> "leave", room |-> member[c].room]
<1>1. /\ op[c].kind = "idle" /\ InRoom(c) /\ op' = [op EXCEPT ![c] = o]
      /\ UNCHANGED <<rooms, lock, drawn, channel, localRooms, member, alive, shown, aiTasks>>
  BY DEF BeginLeave, Idle, redis, hub
<1>2. member[c].room \in Codes /\ member[c].room \in drawn
  BY <1>1, MemberShape DEF RoomInvariant, NamesAreDrawn
<1>3. o \in Ops /\ o.kind = "leave" /\ o.room = member[c].room
  BY <1>2 DEF Ops
<1> HIDE DEF o
<1> QED
  BY <1>1, <1>2, <1>3, KindsDiffer, HandlerKeeps DEF Entering

-----------------------------------------------------------------------------
(* Creating and joining. *)

\* A new room is a room, it holds a game nobody has started to play.
LEMMA NewRoomFits ==
    ASSUME NEW c \in Clients, NEW mode \in {"pvp", "ai"}
    PROVE  /\ NewRoom(mode, c) \in RoomRecords /\ NewRoom(mode, c) # NoRoom
           /\ GameFits(NewRoom(mode, c))
           /\ NewRoom(mode, c).mode = mode
           /\ SeatOwner(NewRoom(mode, c), 0) = c
           /\ NewRoom(mode, c).started <=> mode = "ai"
<1>1. Game!NewView \in Game!Views /\ Game!NewView.ply < MaxPlies
  BY BoundsAssumption DEF Game!NewView, Game!Views, Game!Seats, Game!Undecided
<1>2. NewRoom(mode, c) \in RoomRecords
  BY <1>1 DEF NewRoom, RoomRecords
<1>3. NewRoom(mode, c).mode = mode /\ NewRoom(mode, c).mode # NoRoom.mode
  BY DEF NewRoom, NoRoom
<1>4. SeatOwner(NewRoom(mode, c), 0) = c
  BY DEF NewRoom, SeatOwner
<1>6. NewRoom(mode, c).started <=> mode = "ai"
  BY DEF NewRoom
<1>5. GameFits(NewRoom(mode, c))
  BY <1>1 DEF NewRoom, GameFits
<1> QED
  BY <1>2, <1>3, <1>4, <1>5, <1>6

\* CreateRoom: nothing in the system names the code that is drawn.
LEMMA CreateRoomKeeps ==
    ASSUME RoomInvariant, NEW c \in Clients, NEW mode \in Modes, NEW x \in Codes,
           CreateRoom(c, mode, x)
    PROVE  RoomInvariant'
<1> DEFINE o == [kind |-> "created", room |-> x]
<1>1. /\ op[c].kind = "idle" /\ ~InRoom(c) /\ x \notin drawn /\ drawn' = drawn \cup {x}
      /\ rooms' = [rooms EXCEPT ![x] = NewRoom(mode, c)]
      /\ op' = [op EXCEPT ![c] = o]
      /\ UNCHANGED <<lock, channel, localRooms, member, alive, shown, aiTasks>>
  BY DEF CreateRoom, MayHandle, Idle, hub
<1>2. mode \in {"pvp", "ai"}
  BY UsersAssumption
<1>3. o \in Ops /\ o.kind = "created" /\ o.room = x
  BY DEF Ops
<1> HIDE DEF o
<1>4. /\ op' \in [Clients -> Ops] /\ op'[c] = o
      /\ \A d \in Clients \ {c} : op'[d] = op[d]
  BY <1>1, <1>3, OpMoves DEF RoomInvariant
<1>5. /\ rooms'[x] = NewRoom(mode, c) /\ rooms'[x] # NoRoom
      /\ \A y \in Codes \ {x} : rooms'[y] = rooms[y]
      /\ rooms' \in [Codes -> RoomRecords \cup {NoRoom}]
  BY <1>1, <1>2, NewRoomFits DEF RoomInvariant, Typed
<1>6. /\ ~Exists(x) /\ aiTasks[x] = 0
      /\ \A d \in Clients : member[d].room # x /\ ~Works(d, x)
      /\ \A i \in Instances : \A k \in Queued(i) : channel[i][k].room # x
  BY <1>1, NobodyAssumption DEF RoomInvariant, NamesAreDrawn, Typed, InRoom, Works
<1>7. /\ o.kind \notin Holding \cup Commands \cup {"leave", "unbound", "idle"}
      /\ "created" \notin Commands /\ "created" \notin Holding
  BY <1>3, KindsDiffer DEF Holding
<1>8. \A y \in Codes \ {x} : /\ Exists(y) <=> Exists(y)'
                             /\ Closing(y) <=> Closing(y)'
                             /\ Joining(y) <=> Joining(y)'
                             /\ Ending(y) <=> Ending(y)'
  BY <1>1, <1>3, <1>4, <1>5 DEF Exists, Closing, Joining, Ending
<1>9. Typed'
  BY <1>1, <1>4, <1>5 DEF RoomInvariant, Typed
<1>10. LocksAreHeld'
  BY <1>1, <1>4, <1>7 DEF RoomInvariant, LocksAreHeld, Holding
<1>11. NamesAreDrawn'
  BY <1>1, <1>3, <1>4, <1>5 DEF RoomInvariant, NamesAreDrawn, Exists, InRoom, Queued
<1>12. CreatedIsUntouched'
  <2>1. ASSUME NEW d \in Clients, op'[d].kind = "created"
        PROVE  LET y == op'[d].room
               IN  /\ rooms'[y] = NewRoom(rooms'[y].mode, d) /\ rooms'[y].mode \in {"pvp", "ai"}
                   /\ aiTasks'[y] = 0
                   /\ \A e \in Clients :
                        /\ member[e].room # y
                        /\ e # d => ~(op'[e].kind # "idle" /\ op'[e].room = y)
                   /\ \A i \in Instances : \A k \in Queued(i) : channel[i][k].room # y
    <3>1. CASE d = c
      BY <1>1, <1>2, <1>3, <1>4, <1>5, <1>6, <3>1, NewRoomFits DEF Works
    <3>2. CASE d # c
      <4>1. op'[d] = op[d] /\ op[d].room # x /\ op[d].room \in Codes
        BY <1>4, <1>6, <2>1, <3>2, OpShape DEF Works, RoomInvariant, Typed
      <4> QED
        BY <1>1, <1>3, <1>4, <1>5, <2>1, <4>1 DEF RoomInvariant, CreatedIsUntouched, Works
    <3> QED
      BY <3>1, <3>2
  <2> QED
    BY <1>1, <2>1 DEF CreatedIsUntouched, Queued, Works
<1>13. SeatsAreOwned'
  <2>1. ASSUME NEW d \in Clients, InRoom(d)
        PROVE  member[d].room \in Codes \ {x}
    BY <1>6, <2>1, MemberShape DEF RoomInvariant
  <2>2. ASSUME NEW d \in Clients, d # c, op[d].kind # "idle"
        PROVE  op[d].room \in Codes \ {x}
    BY <1>6, <2>2, OpShape DEF Works, RoomInvariant, Typed
  <2>3. ASSUME NEW d \in Clients
        PROVE  /\ InRoom(d) /\ rooms'[member[d].room] # NoRoom
                    => SeatOwner(rooms'[member[d].room], member[d].seat) = d
               /\ op'[d].kind \in Commands \cup {"unbound"} /\ op'[d].seat \in Seats
                    /\ rooms'[op'[d].room] # NoRoom
                    => SeatOwner(rooms'[op'[d].room], op'[d].seat) = d
               /\ op'[d].kind = "joined" =>
                    /\ rooms'[op'[d].room] # NoRoom /\ rooms'[op'[d].room].guest = d
                    /\ ~rooms'[op'[d].room].started
    BY <1>3, <1>4, <1>5, <1>7, <2>1, <2>2, KindsDiffer
    DEF RoomInvariant, SeatsAreOwned, Exists, Holding
  <2> QED
    BY <1>1, <2>3 DEF SeatsAreOwned, InRoom, Exists
<1>14. MembershipFits'
  <2>1. ASSUME NEW d \in Clients, d # c, op[d].kind # "idle"
        PROVE  op[d].room \in Codes \ {x}
    BY <1>6, <2>1, OpShape DEF Works, RoomInvariant, Typed
  <2>2. \A d \in Clients : InRoom(d) <=> InRoom(d)'
    BY <1>1 DEF InRoom
  <2> QED
    BY <1>1, <1>4, <1>7, <1>8, <2>1, <2>2, KindsDiffer
    DEF RoomInvariant, MembershipFits, Entering
<1>15. SeatsAreSingle' /\ LocalIsMember'
  BY <1>1 DEF RoomInvariant, SeatsAreSingle, LocalIsMember, InRoom, Sits
<1>16. LeftIsEmpty'
  <2>1. \A i \in Instances : \A k \in Queued(i) : channel[i][k].room \in Codes \ {x}
    BY <1>6, MessageShape DEF RoomInvariant, Typed, Queued
  <2> QED
    BY <1>1, <1>4, <1>7, <1>8, <2>1 DEF RoomInvariant, LeftIsEmpty, Sits, Queued
<1>17. EndIsTold'
  BY <1>1, <1>6, <1>8, MemberShape
  DEF RoomInvariant, EndIsTold, EndIsToldTo, InRoom, Queued
<1>18. GamesFit'
  BY <1>2, <1>5, NewRoomFits DEF RoomInvariant, GamesFit, Exists
<1>19. NewsIsTrue'
  BY <1>1, <1>5, <1>6, <1>8, MemberShape DEF RoomInvariant, NewsIsTrue, InRoom, Current
<1> QED
  BY <1>9, <1>10, <1>11, <1>12, <1>13, <1>14, <1>15, <1>16, <1>17, <1>18, <1>19
  DEF RoomInvariant

\* bindLocal on a seat nobody sits on.
LEMMA BindSeats ==
    ASSUME RoomInvariant, NEW c \in Clients, NEW x \in Codes, NEW seat \in Seats,
           alive[c] = "up", ~InRoom(c), \A d \in Clients : ~Sits(d, x, seat),
           BindLocal(c, x, seat)
    PROVE  /\ member' \in [Clients -> [room : Codes, seat : Seats] \cup {NoMember}]
           /\ localRooms' \in [Instances -> SUBSET (Codes \X Seats \X Clients)]
           /\ member'[c] = [room |-> x, seat |-> seat]
           /\ \A d \in Clients \ {c} : member'[d] = member[d]
           /\ SeatsAreSingle' /\ LocalIsMember'
<1>1. /\ member' = [member EXCEPT ![c] = [room |-> x, seat |-> seat]]
      /\ localRooms' = [localRooms EXCEPT ![Host[c]] =
                          {b \in @ : ~(b[1] = x /\ b[2] = seat)} \cup {<<x, seat, c>>}]
  BY DEF BindLocal
<1>2. Typed /\ Host[c] \in Instances
  BY HostAssumption DEF RoomInvariant
<1>3. /\ member' \in [Clients -> [room : Codes, seat : Seats] \cup {NoMember}]
      /\ member'[c] = [room |-> x, seat |-> seat]
      /\ \A d \in Clients \ {c} : member'[d] = member[d]
  BY <1>1, <1>2 DEF Typed
<1>4. /\ localRooms'[Host[c]] = localRooms[Host[c]] \cup {<<x, seat, c>>}
      /\ \A i \in Instances \ {Host[c]} : localRooms'[i] = localRooms[i]
      /\ localRooms' \in [Instances -> SUBSET (Codes \X Seats \X Clients)]
  <2>1. ASSUME NEW b \in localRooms[Host[c]]
        PROVE  ~(b[1] = x /\ b[2] = seat)
    BY <1>2, <2>1 DEF Typed, RoomInvariant, LocalIsMember
  <2> QED
    BY <1>1, <1>2, <2>1 DEF Typed
<1>5. SeatsAreSingle'
  <2>1. ASSUME NEW d \in Clients, NEW e \in Clients, InRoom(d)',
               Sits(e, member[d].room, member[d].seat)'
        PROVE  d = e
    <3>1. CASE d # c /\ e # c
      BY <1>3, <2>1, <3>1 DEF RoomInvariant, SeatsAreSingle, InRoom, Sits
    <3>2. CASE d = c /\ e # c
      BY <1>3, <2>1, <3>2 DEF Sits
    <3>3. CASE d # c /\ e = c
      BY <1>3, <2>1, <3>3 DEF Sits
    <3> QED
      BY <3>1, <3>2, <3>3
  <2> QED
    BY <2>1 DEF SeatsAreSingle
<1>6. LocalIsMember'
  <2>1. ASSUME NEW d \in Clients, NEW i \in Instances, NEW y \in Codes, NEW s \in Seats
        PROVE  <<y, s, d>> \in localRooms'[i] <=> i = Host[d] /\ Sits(d, y, s)'
    <3>1. CASE d = c
      <4>1. <<y, s, c>> \notin localRooms[i]
        BY <2>1, NobodyAssumption DEF RoomInvariant, LocalIsMember, InRoom, Sits
      <4> QED
        BY <1>2, <1>3, <1>4, <3>1, <4>1 DEF Sits
    <3>2. CASE d # c
      BY <1>3, <1>4, <2>1, <3>2 DEF RoomInvariant, LocalIsMember, Sits
    <3> QED
      BY <3>1, <3>2
  <2> QED
    BY <2>1 DEF LocalIsMember
<1> QED
  BY <1>3, <1>4, <1>5, <1>6

\* EnterCreated: the host takes the seat of its new room, unless the connection is
\* cancelled by now; then the room stays without anybody.
LEMMA EnterCreatedKeeps ==
    ASSUME RoomInvariant, NEW c \in Clients, EnterCreated(c)
    PROVE  RoomInvariant'
<1> DEFINE x == op[c].room
           screen == IF rooms[x].mode = "ai" THEN GameOf(rooms[x])
                     ELSE LobbyOf(NewRoom("pvp", c))
<1>1. /\ op[c].kind = "created" /\ op' = [op EXCEPT ![c] = Idle]
      /\ UNCHANGED <<rooms, lock, drawn, channel, alive, aiTasks>>
      /\ BindLocal(c, x, 0)
      /\ shown' = [d \in Clients |-> IF d = c /\ alive[c] = "up" THEN screen ELSE shown[d]]
  BY DEF EnterCreated, Return, redis, Show
<1>2. /\ rooms[x] = NewRoom(rooms[x].mode, c) /\ rooms[x].mode \in {"pvp", "ai"}
      /\ \A d \in Clients : member[d].room # x /\ (d # c => ~Works(d, x))
      /\ \A i \in Instances : \A k \in Queued(i) : channel[i][k].room # x
      /\ x \in drawn /\ x \in Codes
  BY <1>1, OpShape DEF RoomInvariant, Typed, CreatedIsUntouched, NamesAreDrawn
<1>3. ~InRoom(c)
  BY <1>1 DEF RoomInvariant, MembershipFits, Seatless
<1>4. Idle \in Ops /\ Idle.kind = "idle"
  BY DEF Ops, Idle
<1>5. CASE alive[c] # "up"
  <2>1. UNCHANGED <<localRooms, member, shown>>
    BY <1>1, <1>5 DEF BindLocal, RoomInvariant, Typed
  <2> QED
    BY <1>1, <1>4, <2>1, KindsDiffer, HandlerKeeps
<1>6. CASE alive[c] = "up"
  <2>1. \A d \in Clients : ~Sits(d, x, 0)
    BY <1>2 DEF Sits
  <2>2. /\ member' \in [Clients -> [room : Codes, seat : Seats] \cup {NoMember}]
        /\ localRooms' \in [Instances -> SUBSET (Codes \X Seats \X Clients)]
        /\ member'[c] = [room |-> x, seat |-> 0]
        /\ \A d \in Clients \ {c} : member'[d] = member[d]
        /\ SeatsAreSingle' /\ LocalIsMember'
    BY <1>1, <1>2, <1>3, <1>6, <2>1, BindSeats DEF Seats
  <2>3. /\ op' \in [Clients -> Ops] /\ op'[c] = Idle
        /\ \A d \in Clients \ {c} : op'[d] = op[d]
    BY <1>1, <1>4, OpMoves DEF RoomInvariant
  <2>4. /\ Exists(x) /\ SeatOwner(rooms[x], 0) = c /\ screen = Current(x)
        /\ rooms[x] \in RoomRecords
    BY <1>2, NewRoomFits DEF Exists, Current
  <2>5. /\ shown'[c] = screen /\ \A d \in Clients \ {c} : shown'[d] = shown[d]
        /\ shown' \in [Clients -> Screens]
    BY <1>1, <1>6, <2>4
    DEF RoomInvariant, Typed, Current, GameOf, LobbyOf, Screens, RoomRecords
  <2>6. \A y : /\ Exists(y) <=> Exists(y)'
               /\ Closing(y) <=> Closing(y)'
               /\ Joining(y) <=> Joining(y)'
               /\ Ending(y) <=> Ending(y)'
    BY <1>1, <1>4, <2>3 DEF Exists, Closing, Joining, Ending
  <2>7. ~Ending(x)
    BY <1>1, <1>2, <2>4 DEF Ending, Closing, Works
  <2>8. x # NoCode
    BY <1>2, NobodyAssumption
  <2> HIDE DEF x, screen
  <2>9. Typed'
    BY <1>1, <2>2, <2>3, <2>5 DEF RoomInvariant, Typed
  <2>10. LocksAreHeld'
    BY <1>1, <1>4, <2>3 DEF RoomInvariant, LocksAreHeld, Holding
  <2>11. NamesAreDrawn'
    BY <1>1, <1>2, <1>4, <2>2, <2>3 DEF RoomInvariant, NamesAreDrawn, Exists, InRoom, Queued
  <2>12. CreatedIsUntouched'
    <3>1. \A d \in Clients \ {c} : op[d].kind = "created" => op[d].room # x
      BY <1>2 DEF Works
    <3> QED
      BY <1>1, <1>4, <2>2, <2>3, <3>1 DEF RoomInvariant, CreatedIsUntouched, Works, Queued
  <2>13. SeatsAreOwned'
    BY <1>1, <1>4, <2>2, <2>3, <2>4, KindsDiffer
    DEF RoomInvariant, SeatsAreOwned, Exists, InRoom
  <2>14. MembershipFits'
    BY <1>4, <2>2, <2>3, <2>6, KindsDiffer DEF RoomInvariant, MembershipFits, InRoom, Entering
  <2>15. LeftIsEmpty'
    BY <1>1, <1>2, <1>4, <2>2, <2>3, <2>6
    DEF RoomInvariant, LeftIsEmpty, Sits, Queued, Works
  <2>16. EndIsTold'
    BY <1>1, <2>2, <2>6, <2>7, SMTT(30) DEF RoomInvariant, EndIsTold, EndIsToldTo, InRoom, Queued
  <2>17. GamesFit'
    BY <1>1 DEF RoomInvariant, GamesFit, Exists
  <2>18. NewsIsTrue'
    <3>1. SeesAtLast(screen, channel[Host[c]], x, Current(x))
      BY <1>2, <2>4, HostAssumption DEF SeesAtLast, IsNews, Queued
    <3> QED
      BY <1>1, <2>2, <2>5, <2>6, <3>1 DEF RoomInvariant, NewsIsTrue, InRoom, Current
  <2> QED
    BY <2>2, <2>9, <2>10, <2>11, <2>12, <2>13, <2>14, <2>15, <2>16, <2>17, <2>18
    DEF RoomInvariant
<1> QED
  BY <1>5, <1>6

\* A room is not mistaken for the lack of one.
LEMMA RecordIsRoom ==
    ASSUME NEW r \in RoomRecords
    PROVE  r # NoRoom
<1>1. r.mode # NoRoom.mode
  BY DEF RoomRecords, NoRoom
<1> QED
  BY <1>1

\* JoinSeat1: a free seat is nobody's, so whoever takes it is its owner.
LEMMA JoinSeat1Keeps ==
    ASSUME RoomInvariant, NEW c \in Clients, NEW x \in Codes, JoinSeat1(c, x)
    PROVE  RoomInvariant'
<1> DEFINE o == [kind |-> "joined", room |-> x]
           r == [rooms[x] EXCEPT !.guest = c, !.ready = FALSE]
<1>1. /\ op[c].kind = "idle" /\ ~InRoom(c) /\ lock[x] = Nobody /\ Known(x)
      /\ rooms[x].mode = "pvp" /\ ~rooms[x].started /\ rooms[x].guest = Nobody
      /\ rooms' = [rooms EXCEPT ![x].guest = c, ![x].ready = FALSE]
      /\ lock' = [lock EXCEPT ![x] = c]
      /\ op' = [op EXCEPT ![c] = o]
      /\ UNCHANGED <<drawn, channel, localRooms, member, alive, shown, aiTasks>>
  BY DEF JoinSeat1, MayHandle, Idle, hub
<1>2. Exists(x) /\ rooms[x] \in RoomRecords /\ x \in drawn /\ Typed
  BY <1>1 DEF Known, Exists, RoomInvariant, Typed, NamesAreDrawn
<1>3. /\ r \in RoomRecords /\ r.mode = "pvp" /\ r.host = rooms[x].host /\ r.guest = c
      /\ ~r.started /\ r.ready = FALSE /\ r.rematch = rooms[x].rematch
      /\ r.game = rooms[x].game
  BY <1>1, <1>2 DEF RoomRecords
<1>4. o \in Ops /\ o.kind = "joined" /\ o.room = x
  BY DEF Ops
<1>23. rooms'[x] = r /\ \A y \in Codes \ {x} : rooms'[y] = rooms[y] /\ DOMAIN rooms' = Codes
  BY <1>1, <1>2 DEF Typed
<1>24. rooms' \in [Codes -> RoomRecords \cup {NoRoom}]
  <2>1. rooms' = [y \in Codes |-> rooms'[y]]
    BY <1>1, <1>2 DEF Typed
  <2> QED
    BY <1>2, <1>3, <1>23, <2>1 DEF Typed
<1> HIDE DEF o, r
<1>5. /\ op' \in [Clients -> Ops] /\ op'[c] = o
      /\ \A d \in Clients \ {c} : op'[d] = op[d]
  BY <1>1, <1>2, <1>4, OpMoves
<1>6. /\ rooms'[x] = r /\ r # NoRoom
      /\ \A y \in Codes \ {x} : rooms'[y] = rooms[y]
      /\ rooms' \in [Codes -> RoomRecords \cup {NoRoom}]
  BY <1>3, <1>23, <1>24, RecordIsRoom
<1>7. /\ lock'[x] = c /\ \A y \in Codes \ {x} : lock'[y] = lock[y]
      /\ lock' \in [Codes -> Clients \cup {Nobody}]
  BY <1>1, <1>2 DEF Typed
<1>8. \A d \in Clients : op[d].kind \in Holding => op[d].room # x
  BY <1>1, NobodyAssumption DEF RoomInvariant, LocksAreHeld
<1>9. \A d \in Clients : op[d].kind = "created" => op[d].room \in Codes \ {x}
  BY <1>1, <1>2, OpShape DEF Known, Typed
<1>10. \A y \in Codes : /\ Exists(y) <=> Exists(y)'
                        /\ Closing(y) <=> Closing(y)'
                        /\ Ending(y) <=> Ending(y)'
                        /\ y # x => (Joining(y) <=> Joining(y)')
  BY <1>1, <1>2, <1>4, <1>5, <1>6 DEF Exists, Closing, Joining, Ending
<1>11. Joining(x)'
  BY <1>4, <1>5 DEF Joining
<1>12. Typed'
  BY <1>1, <1>5, <1>6, <1>7 DEF RoomInvariant, Typed
<1>13. LocksAreHeld'
  BY <1>1, <1>4, <1>5, <1>7, <1>8 DEF RoomInvariant, LocksAreHeld, Holding
<1>14. NamesAreDrawn'
  BY <1>1, <1>2, <1>4, <1>5, <1>6 DEF RoomInvariant, NamesAreDrawn, Exists, InRoom, Queued
<1>15. CreatedIsUntouched'
  BY <1>1, <1>4, <1>5, <1>6, <1>9 DEF RoomInvariant, CreatedIsUntouched, Works, Queued
<1>16. SeatsAreOwned'
  <2>1. ASSUME NEW d \in Clients, NEW seat \in Seats, SeatOwner(rooms[x], seat) = d
        PROVE  SeatOwner(r, seat) = d
    BY <1>1, <1>3, <2>1, NobodyAssumption DEF SeatOwner, Seats
  <2>2. ASSUME NEW d \in Clients, InRoom(d)
        PROVE  member[d].room \in Codes /\ member[d].seat \in Seats
    BY <1>2, <2>2, MemberShape
  <2>3. ASSUME NEW d \in Clients, d # c, op[d].kind # "idle"
        PROVE  op[d].room \in Codes
    BY <1>2, <2>3, OpShape DEF Typed
  <2>4. ASSUME NEW d \in Clients
        PROVE  /\ InRoom(d) /\ rooms'[member[d].room] # NoRoom
                    => SeatOwner(rooms'[member[d].room], member[d].seat) = d
               /\ op'[d].kind \in Commands \cup {"unbound"} /\ op'[d].seat \in Seats
                    /\ rooms'[op'[d].room] # NoRoom
                    => SeatOwner(rooms'[op'[d].room], op'[d].seat) = d
               /\ op'[d].kind = "joined" =>
                    /\ rooms'[op'[d].room] # NoRoom /\ rooms'[op'[d].room].guest = d
                    /\ ~rooms'[op'[d].room].started
    <3>1. InRoom(d) /\ rooms'[member[d].room] # NoRoom
            => SeatOwner(rooms'[member[d].room], member[d].seat) = d
      BY <1>2, <1>6, <2>1, <2>2 DEF RoomInvariant, SeatsAreOwned, Exists
    <3>2. CASE d = c
      BY <1>3, <1>4, <1>5, <1>6, <3>1, <3>2, KindsDiffer DEF Seatless, Holding
    <3>3. CASE d # c
      BY <1>2, <1>5, <1>6, <1>8, <2>1, <2>3, <3>1, <3>3, KindsDiffer
      DEF RoomInvariant, SeatsAreOwned, Exists, Holding
    <3> QED
      BY <3>2, <3>3
  <2> QED
    BY <1>1, <2>4 DEF SeatsAreOwned, InRoom, Exists
<1>17. MembershipFits'
  <2>1. \A d \in Clients : InRoom(d) <=> InRoom(d)'
    BY <1>1 DEF InRoom
  <2>2. \A d \in Clients \ {c} : op[d].kind # "idle" => op[d].room \in Codes
    BY <1>2, OpShape DEF Typed
  <2>3. op'[c].kind \notin Entering \cup Commands \cup {"idle"}
    BY <1>4, <1>5, KindsDiffer DEF Entering, Seatless, Holding
  <2> QED
    BY <1>1, <1>5, <1>10, <2>1, <2>2, <2>3, KindsDiffer
    DEF RoomInvariant, MembershipFits, Entering
<1>18. SeatsAreSingle' /\ LocalIsMember'
  BY <1>1 DEF RoomInvariant, SeatsAreSingle, LocalIsMember, InRoom, Sits
<1>19. LeftIsEmpty'
  <2>1. \A i \in Instances : \A k \in Queued(i) : channel[i][k].room \in Codes
    BY <1>2, MessageShape DEF Typed, Queued
  <2> QED
    BY <1>1, <1>4, <1>5, <1>10, <2>1 DEF RoomInvariant, LeftIsEmpty, Sits, Queued
<1>20. EndIsTold'
  BY <1>1, <1>2, <1>10, MemberShape
  DEF RoomInvariant, EndIsTold, EndIsToldTo, InRoom, Queued
<1>21. GamesFit'
  <2>1. GameFits(rooms[x])
    BY <1>2 DEF RoomInvariant, GamesFit
  <2>2. GameFits(r)
    BY <1>1, <1>3, <2>1 DEF GameFits
  <2> QED
    BY <1>6, <2>2 DEF RoomInvariant, GamesFit, Exists
<1>22. NewsIsTrue'
  BY <1>1, <1>2, <1>6, <1>10, <1>11, MemberShape DEF RoomInvariant, NewsIsTrue, InRoom, Current
<1> QED
  BY <1>12, <1>13, <1>14, <1>15, <1>16, <1>17, <1>18, <1>19, <1>20, <1>21, <1>22
  DEF RoomInvariant

\* EnterJoined: the guest takes the seat it owns and tells the room, unless the
\* connection is cancelled by now; then the seat stays taken by nobody who is there.
LEMMA EnterJoinedKeeps ==
    ASSUME RoomInvariant, NEW c \in Clients, EnterJoined(c)
    PROVE  RoomInvariant'
<1> DEFINE x == op[c].room
           m == ToRoom(x, LobbyOf(rooms[x]))
<1>1. /\ op[c].kind = "joined" /\ op' = [op EXCEPT ![c] = Idle]
      /\ UNCHANGED <<rooms, drawn, alive, aiTasks>>
      /\ lock' = [lock EXCEPT ![x] = Nobody]
      /\ BindLocal(c, x, 1)
      /\ CanPublish /\ Publish(m)
      /\ shown' = [d \in Clients |-> IF d = c /\ alive[c] = "up" THEN Entered ELSE shown[d]]
  BY DEF EnterJoined, Return, Show
<1>2. Typed /\ op[c] \in Ops /\ x \in Codes /\ x \in drawn
  BY <1>1, OpShape DEF RoomInvariant, Typed, NamesAreDrawn
<1>3. /\ Exists(x) /\ rooms[x] \in RoomRecords /\ rooms[x].guest = c /\ ~rooms[x].started
      /\ Current(x) = LobbyOf(rooms[x])
  BY <1>1, <1>2 DEF RoomInvariant, Typed, SeatsAreOwned, Exists, Current
<1>4. m \in News /\ m.room = x /\ m.type = "room"
  <2>1. LobbyOf(rooms[x]) \in Screens
    BY <1>3 DEF Screens, LobbyOf, RoomRecords
  <2> QED
    BY <1>2, <2>1 DEF News, ToRoom
<1>5. ~InRoom(c) /\ lock[x] = c
  BY <1>1, <1>2 DEF RoomInvariant, MembershipFits, LocksAreHeld, Seatless, Holding
<1>6. \A d \in Clients \ {c} : op[d].kind \in Holding => op[d].room # x
  BY <1>2, <1>5 DEF RoomInvariant, LocksAreHeld
<1>7. \A d \in Clients : op[d].kind = "created" => op[d].room # x
  BY <1>1 DEF RoomInvariant, CreatedIsUntouched, Works
<1>8. /\ op' \in [Clients -> Ops] /\ op'[c] = Idle /\ Idle.kind = "idle"
      /\ \A d \in Clients \ {c} : op'[d] = op[d]
  BY <1>1, <1>2, OpMoves DEF Ops, Idle
<1>9. /\ channel' \in [Instances -> Seq(News \cup Leaves)]
      /\ \A i \in Instances :
            /\ Len(channel[i]) \in Nat /\ Len(channel'[i]) = Len(channel[i]) + 1
            /\ Len(channel'[i]) <= MaxQueue
            /\ \A k \in Queued(i) : channel'[i][k] = channel[i][k]
            /\ channel'[i][Len(channel[i]) + 1] = m
            /\ \A k \in 1..Len(channel'[i]) :
                  channel'[i][k] = m \/ (k \in Queued(i) /\ channel'[i][k] = channel[i][k])
            /\ \A k \in Queued(i) : k \in 1..Len(channel'[i])
  BY <1>1, <1>2, <1>4, PublishAppends
<1>10. /\ lock'[x] = Nobody /\ \A y \in Codes \ {x} : lock'[y] = lock[y]
       /\ lock' \in [Codes -> Clients \cup {Nobody}]
  BY <1>1, <1>2 DEF Typed
<1>11. /\ shown' \in [Clients -> Screens]
       /\ \A d \in Clients \ {c} : shown'[d] = shown[d]
  BY <1>1, <1>2 DEF Typed, Screens, Entered
<1>12. \A d \in Clients : ~Sits(d, x, 1)
  BY <1>3, <1>5, <1>2, NobodyAssumption
  DEF RoomInvariant, SeatsAreOwned, Sits, SeatOwner, InRoom
<1>13. /\ member' \in [Clients -> [room : Codes, seat : Seats] \cup {NoMember}]
       /\ localRooms' \in [Instances -> SUBSET (Codes \X Seats \X Clients)]
       /\ \A d \in Clients \ {c} : member'[d] = member[d]
       /\ IF alive[c] = "up" THEN member'[c] = [room |-> x, seat |-> 1]
          ELSE member'[c] = member[c]
       /\ SeatsAreSingle' /\ LocalIsMember'
  <2>1. CASE alive[c] = "up"
    BY <1>1, <1>2, <1>5, <1>12, <2>1, BindSeats DEF Seats
  <2>2. CASE alive[c] # "up"
    <3>1. UNCHANGED <<member, localRooms>>
      BY <1>1, <2>2 DEF BindLocal
    <3> QED
      BY <1>2, <2>2, <3>1
      DEF Typed, RoomInvariant, SeatsAreSingle, LocalIsMember, InRoom, Sits
  <2> QED
    BY <2>1, <2>2
<1>14. \A y : /\ Exists(y) <=> Exists(y)'
              /\ Closing(y) <=> Closing(y)'
              /\ Ending(y) <=> Ending(y)'
              /\ y # x => (Joining(y) <=> Joining(y)')
  BY <1>1, <1>8 DEF Exists, Closing, Joining, Ending
<1>15. ~Ending(x) /\ x # NoCode
  BY <1>1, <1>2, <1>3, <1>6, NobodyAssumption DEF Ending, Closing, Holding
<1> HIDE DEF x, m
<1>16. Typed'
  BY <1>1, <1>8, <1>9, <1>10, <1>11, <1>13 DEF RoomInvariant, Typed
<1>17. LocksAreHeld'
  <2>1. ASSUME NEW y \in Codes, NEW d \in Clients
        PROVE  lock'[y] = d <=> op'[d].kind \in Holding /\ op'[d].room = y
    <3>1. CASE y = x
      BY <1>6, <1>8, <1>10, <3>1, NobodyAssumption DEF Holding
    <3>2. CASE y # x
      BY <1>1, <1>8, <1>10, <3>2 DEF RoomInvariant, LocksAreHeld, Holding, x
    <3> QED
      BY <3>1, <3>2
  <2> QED
    BY <2>1 DEF LocksAreHeld
<1>18. NamesAreDrawn'
  <2>1. \A i \in Instances : \A k \in 1..Len(channel'[i]) : channel'[i][k].room \in drawn
    BY <1>2, <1>4, <1>9 DEF RoomInvariant, NamesAreDrawn
  <2>2. \A d \in Clients : member'[d].room # NoCode => member'[d].room \in drawn
    BY <1>2, <1>13 DEF RoomInvariant, NamesAreDrawn, InRoom
  <2>3. \A d \in Clients : op'[d].kind # "idle" => op'[d].room \in drawn
    BY <1>8 DEF RoomInvariant, NamesAreDrawn
  <2> QED
    BY <1>1, <2>1, <2>2, <2>3 DEF RoomInvariant, NamesAreDrawn, Exists, InRoom, Queued
<1>19. CreatedIsUntouched'
  <2>1. ASSUME NEW d \in Clients, op'[d].kind = "created", NEW y, y = op'[d].room
        PROVE  /\ rooms[y] = NewRoom(rooms[y].mode, d) /\ rooms[y].mode \in {"pvp", "ai"}
               /\ aiTasks[y] = 0
               /\ \A e \in Clients :
                    /\ member'[e].room # y
                    /\ e # d => ~(op'[e].kind # "idle" /\ op'[e].room = y)
               /\ \A i \in Instances : \A k \in 1..Len(channel'[i]) : channel'[i][k].room # y
    <3>1. d # c /\ op'[d] = op[d] /\ op[d].room = y /\ y # x
      BY <1>7, <1>8, <2>1
    <3>2. /\ rooms[y] = NewRoom(rooms[y].mode, d) /\ rooms[y].mode \in {"pvp", "ai"}
          /\ aiTasks[y] = 0
          /\ \A e \in Clients : member[e].room # y /\ (e # d => ~Works(e, y))
          /\ \A i \in Instances : \A k \in Queued(i) : channel[i][k].room # y
      BY <2>1, <3>1 DEF RoomInvariant, CreatedIsUntouched
    <3>3. \A e \in Clients :
             /\ member'[e].room # y
             /\ e # d => ~(op'[e].kind # "idle" /\ op'[e].room = y)
      BY <1>8, <1>13, <3>1, <3>2 DEF Works
    <3>4. \A i \in Instances : \A k \in 1..Len(channel'[i]) : channel'[i][k].room # y
      BY <1>4, <1>9, <3>1, <3>2
    <3> QED
      BY <3>2, <3>3, <3>4
  <2> QED
    BY <1>1, <2>1 DEF CreatedIsUntouched, Queued, Works
<1>20. SeatsAreOwned'
  BY <1>1, <1>3, <1>8, <1>13, KindsDiffer
  DEF RoomInvariant, SeatsAreOwned, Exists, InRoom, SeatOwner
<1>21. MembershipFits'
  BY <1>8, <1>13, <1>14, KindsDiffer DEF RoomInvariant, MembershipFits, InRoom, Entering
<1>22. LeftIsEmpty'
  <2>1. ASSUME NEW d \in Clients, NEW e \in Clients, op'[d].kind = "unbound"
        PROVE  ~(member'[e].room = op'[d].room /\ member'[e].seat = op'[d].seat)
    BY <1>6, <1>8, <1>13, <2>1 DEF RoomInvariant, LeftIsEmpty, Sits, Holding
  <2>2. ASSUME NEW i \in Instances, NEW k \in 1..Len(channel'[i]), channel'[i][k].type = "leave"
        PROVE  /\ Ending(channel'[i][k].room)
               /\ \A e \in Clients : ~(/\ member'[e].room = channel'[i][k].room
                                       /\ member'[e].seat = channel'[i][k].seat)
    <3>1. k \in Queued(i) /\ channel'[i][k] = channel[i][k]
      BY <1>4, <1>9, <2>2
    <3>2. /\ Ending(channel[i][k].room)
          /\ \A e \in Clients : ~Sits(e, channel[i][k].room, channel[i][k].seat)
      BY <2>2, <3>1 DEF RoomInvariant, LeftIsEmpty
    <3> QED
      BY <1>13, <1>15, <3>1, <3>2 DEF Sits
  <2> QED
    BY <1>14, <2>1, <2>2 DEF LeftIsEmpty, Sits, Queued, Ending, Exists, Closing
<1>23. EndIsTold'
  <2>1. ASSUME NEW d \in Clients, InRoom(d)', Ending(member[d].room)'
        PROVE  EndIsToldTo(d)'
    <3>1. Ending(member'[d].room) /\ member'[d].room # x /\ member'[d] = member[d] /\ InRoom(d)
      BY <1>13, <1>14, <1>15, <2>1 DEF InRoom
    <3>2. PICK k \in Queued(Host[d]) :
            LET n == channel[Host[d]][k]
            IN  n.type = "leave" /\ n.room = member[d].room /\ n.seat # member[d].seat
      BY <3>1 DEF RoomInvariant, EndIsTold, EndIsToldTo
    <3>3. k \in 1..Len(channel'[Host[d]]) /\ channel'[Host[d]][k] = channel[Host[d]][k]
      BY <1>9, HostAssumption
    <3> QED
      BY <3>1, <3>2, <3>3 DEF EndIsToldTo, Queued
  <2> QED
    BY <2>1 DEF EndIsTold
<1>24. GamesFit'
  BY <1>1 DEF RoomInvariant, GamesFit, Exists
<1>25. NewsIsTrue'
  <2>1. ASSUME NEW d \in Clients, member'[d].room # NoCode, alive[d] = "up",
               Exists(member'[d].room), member'[d].room # x => ~Joining(member'[d].room)
        PROVE  SeesAtLast(shown'[d], channel'[Host[d]], member'[d].room, Current(member'[d].room))
    <3>1. CASE member'[d].room = x
      <4>1. /\ Host[d] \in Instances /\ m = ToRoom(x, Current(x))
            /\ Len(channel[Host[d]]) \in Nat
            /\ Len(channel'[Host[d]]) = Len(channel[Host[d]]) + 1
            /\ \A k \in 1..Len(channel[Host[d]]) : channel'[Host[d]][k] = channel[Host[d]][k]
            /\ channel'[Host[d]][Len(channel[Host[d]]) + 1] = m
        BY <1>3, <1>9, HostAssumption DEF m, Queued
      <4>2. SeesAtLast(shown'[d], channel'[Host[d]], x, Current(x))
        BY <4>1, SeesAppended
      <4> QED
        BY <3>1, <4>2
    <3>2. CASE member'[d].room # x
      <4>1. d # c /\ member'[d] = member[d] /\ shown'[d] = shown[d]
        BY <1>5, <1>11, <1>13, <2>1, <3>2 DEF InRoom
      <4>2. SeesAtLast(shown[d], channel[Host[d]], member[d].room, Current(member[d].room))
        BY <2>1, <3>2, <4>1 DEF RoomInvariant, NewsIsTrue, InRoom
      <4>3. ~IsNews(m, member[d].room)
        BY <1>4, <3>2, <4>1 DEF IsNews
      <4> QED
        BY <1>9, <4>1, <4>2, <4>3, HostAssumption, SeesAppended DEF Queued
    <3> QED
      BY <3>1, <3>2
  <2> QED
    BY <1>1, <1>14, <2>1 DEF NewsIsTrue, InRoom, Exists, Current
<1> QED
  BY <1>13, <1>16, <1>17, <1>18, <1>19, <1>20, <1>21, <1>22, <1>23, <1>24, <1>25
  DEF RoomInvariant

-----------------------------------------------------------------------------
(* Commands in a room. *)

\* A room whose lock is free is saved: its players stay, and who sits in it is told
\* unless what they see is the same.
LEMMA SaveKeeps ==
    ASSUME RoomInvariant, NEW x \in Codes, NEW r \in RoomRecords, NEW s \in Screens,
           lock[x] = Nobody, Exists(x),
           \A d \in Clients : op[d].kind = "created" => op[d].room # x,
           rooms' = [rooms EXCEPT ![x] = r], GameFits(r),
           r.mode = rooms[x].mode, r.host = rooms[x].host, r.guest = rooms[x].guest,
           op' \in [Clients -> Ops],
           \A d \in Clients :
              op'[d] # op[d] => op[d].kind \in Commands /\ op'[d].kind = "idle",
           aiTasks' \in [Codes -> 0..MaxTasks],
           \A y \in Codes \ {x} : aiTasks'[y] = aiTasks[y],
           UNCHANGED <<lock, drawn, localRooms, member, alive, shown>>,
           s = IF r.started THEN GameOf(r) ELSE LobbyOf(r),
           \/ CanPublish /\ Publish(ToRoom(x, s))
           \/ channel' = channel /\ s = Current(x)
    PROVE  RoomInvariant'
<1> DEFINE m == ToRoom(x, s)
<1>1. Typed /\ x \in drawn /\ m \in News /\ m.room = x /\ m.type = "room" /\ x # NoCode
  BY NobodyAssumption DEF RoomInvariant, NamesAreDrawn, News, ToRoom
<1>2. /\ rooms'[x] = r /\ r # NoRoom
      /\ \A y \in Codes \ {x} : rooms'[y] = rooms[y]
      /\ rooms' \in [Codes -> RoomRecords \cup {NoRoom}]
  BY <1>1, RecordIsRoom DEF Typed
<1>3. \A d \in Clients : op[d].kind \in Holding => op[d].room # x
  BY NobodyAssumption DEF RoomInvariant, LocksAreHeld
<1>4. \A d \in Clients : op'[d].kind \in Seatless \cup {"leave"} => op'[d] = op[d]
  BY KindsDiffer
<1>5. /\ channel' \in [Instances -> Seq(News \cup Leaves)]
      /\ \A i \in Instances :
            /\ Len(channel'[i]) <= MaxQueue
            /\ \A k \in Queued(i) : k \in 1..Len(channel'[i]) /\ channel'[i][k] = channel[i][k]
            /\ \A k \in 1..Len(channel'[i]) :
                  channel'[i][k] = m \/ (k \in Queued(i) /\ channel'[i][k] = channel[i][k])
  <2>1. CASE CanPublish /\ Publish(m)
    BY <1>1, <2>1, PublishAppends
  <2>2. CASE channel' = channel
    BY <1>1, <2>2 DEF Typed, Queued
  <2> QED
    BY <2>1, <2>2
<1>6. \A y \in Codes : /\ Exists(y) <=> Exists(y)'
                       /\ Closing(y) <=> Closing(y)'
                       /\ Ending(y) <=> Ending(y)'
                       /\ Joining(y) <=> Joining(y)'
  <2>1. \A y \in Codes : Exists(y) <=> Exists(y)'
    BY <1>2 DEF Exists
  <2>2. \A d \in Clients : op'[d].kind \in Holding <=> op[d].kind \in Holding
    BY KindsDiffer DEF Holding
  <2>3. \A d \in Clients : op'[d].kind \in Holding => op'[d] = op[d]
    BY <1>4, KindsDiffer
  <2> QED
    BY <2>1, <2>2, <2>3 DEF Closing, Ending, Joining, Holding
<1>7. ~Joining(x)
  BY <1>3 DEF Joining, Holding
<1>8. \A seat : SeatOwner(r, seat) = SeatOwner(rooms[x], seat)
  BY DEF SeatOwner
<1>9. \A i \in Instances : \A k \in Queued(i) : channel[i][k].room \in Codes
  BY <1>1, MessageShape DEF Typed, Queued
<1>10. s = Current(x)' /\ \A y \in Codes \ {x} : Current(y)' = Current(y)
  BY <1>2 DEF Current
<1> HIDE DEF m
<1>11. Typed'
  BY <1>1, <1>2, <1>5 DEF Typed
<1>12. LocksAreHeld'
  BY <1>4, KindsDiffer DEF RoomInvariant, LocksAreHeld
<1>13. NamesAreDrawn'
  <2>1. \A i \in Instances : \A k \in 1..Len(channel'[i]) : channel'[i][k].room \in drawn
    BY <1>1, <1>5 DEF RoomInvariant, NamesAreDrawn
  <2>2. \A y \in Codes : Exists(y)' \/ aiTasks'[y] > 0 => y \in drawn
    BY <1>1, <1>6 DEF RoomInvariant, NamesAreDrawn
  <2>3. \A d \in Clients : op'[d].kind # "idle" => op'[d].room \in drawn
    BY DEF RoomInvariant, NamesAreDrawn
  <2> QED
    BY <2>1, <2>2, <2>3 DEF RoomInvariant, NamesAreDrawn, InRoom, Queued
<1>14. CreatedIsUntouched'
  <2>1. ASSUME NEW d \in Clients, op'[d].kind = "created", NEW y, y = op'[d].room
        PROVE  /\ rooms'[y] = NewRoom(rooms'[y].mode, d) /\ rooms'[y].mode \in {"pvp", "ai"}
               /\ aiTasks'[y] = 0
               /\ \A e \in Clients :
                    /\ member[e].room # y
                    /\ e # d => ~(op'[e].kind # "idle" /\ op'[e].room = y)
               /\ \A i \in Instances : \A k \in 1..Len(channel'[i]) : channel'[i][k].room # y
    <3>1. op'[d] = op[d] /\ y \in Codes \ {x} /\ rooms'[y] = rooms[y] /\ aiTasks'[y] = aiTasks[y]
      BY <1>1, <1>2, <1>4, <2>1, OpShape DEF Typed, Seatless
    <3>2. /\ rooms[y] = NewRoom(rooms[y].mode, d) /\ rooms[y].mode \in {"pvp", "ai"}
          /\ aiTasks[y] = 0
          /\ \A e \in Clients : member[e].room # y /\ (e # d => ~Works(e, y))
          /\ \A i \in Instances : \A k \in Queued(i) : channel[i][k].room # y
      BY <2>1, <3>1 DEF RoomInvariant, CreatedIsUntouched
    <3>3. \A e \in Clients : e # d => ~(op'[e].kind # "idle" /\ op'[e].room = y)
      BY <3>2 DEF Works
    <3>4. \A i \in Instances : \A k \in 1..Len(channel'[i]) : channel'[i][k].room # y
      BY <1>1, <1>5, <3>1, <3>2, SMTT(30)
    <3> QED
      BY <3>1, <3>2, <3>3, <3>4
  <2> QED
    BY <2>1 DEF CreatedIsUntouched, Queued, Works
<1>15. SeatsAreOwned'
  <2>1. ASSUME NEW d \in Clients
        PROVE  /\ InRoom(d) /\ rooms'[member[d].room] # NoRoom
                    => SeatOwner(rooms'[member[d].room], member[d].seat) = d
               /\ op'[d].kind \in Commands \cup {"unbound"} /\ op'[d].seat \in Seats
                    /\ rooms'[op'[d].room] # NoRoom
                    => SeatOwner(rooms'[op'[d].room], op'[d].seat) = d
               /\ op'[d].kind = "joined" =>
                    /\ rooms'[op'[d].room] # NoRoom /\ rooms'[op'[d].room].guest = d
                    /\ ~rooms'[op'[d].room].started
    <3>1. InRoom(d) /\ rooms'[member[d].room] # NoRoom
            => SeatOwner(rooms'[member[d].room], member[d].seat) = d
      BY <1>1, <1>2, <1>8, MemberShape DEF RoomInvariant, SeatsAreOwned, Exists
    <3>2. op'[d].kind # "idle" => op'[d] = op[d] /\ op[d].room \in Codes
      BY <1>1, OpShape DEF Typed
    <3>3. op'[d].kind \in Commands \cup {"unbound"} /\ op'[d].seat \in Seats
                    /\ rooms'[op'[d].room] # NoRoom
                    => SeatOwner(rooms'[op'[d].room], op'[d].seat) = d
      BY <1>2, <1>8, <3>2, KindsDiffer DEF RoomInvariant, SeatsAreOwned, Exists
    <3>4. op'[d].kind = "joined" =>
                    /\ rooms'[op'[d].room] # NoRoom /\ rooms'[op'[d].room].guest = d
                    /\ ~rooms'[op'[d].room].started
      BY <1>2, <1>3, <3>2 DEF RoomInvariant, SeatsAreOwned, Exists, Holding
    <3> QED
      BY <3>1, <3>3, <3>4
  <2> QED
    BY <2>1 DEF SeatsAreOwned, InRoom, Exists
<1>16. MembershipFits'
  <2>1. \A d \in Clients : InRoom(d) <=> InRoom(d)'
    BY DEF InRoom
  <2>2. \A d \in Clients : op'[d].kind # "idle" => op'[d] = op[d] /\ op[d].room \in Codes
    BY <1>1, OpShape DEF Typed
  <2> QED
    BY <1>6, <2>1, <2>2, KindsDiffer DEF RoomInvariant, MembershipFits, Entering
<1>17. SeatsAreSingle' /\ LocalIsMember'
  BY DEF RoomInvariant, SeatsAreSingle, LocalIsMember, InRoom, Sits
<1>18. LeftIsEmpty'
  <2>1. ASSUME NEW d \in Clients, NEW e \in Clients, op'[d].kind = "unbound"
        PROVE  ~(member[e].room = op'[d].room /\ member[e].seat = op'[d].seat)
    BY <2>1, <1>4 DEF RoomInvariant, LeftIsEmpty, Sits, Seatless, Holding
  <2>2. ASSUME NEW i \in Instances, NEW k \in 1..Len(channel'[i]), channel'[i][k].type = "leave"
        PROVE  /\ channel'[i][k].room \in Codes
               /\ Ending(channel'[i][k].room)
               /\ \A e \in Clients : ~(/\ member[e].room = channel'[i][k].room
                                       /\ member[e].seat = channel'[i][k].seat)
    <3>1. k \in Queued(i) /\ channel'[i][k] = channel[i][k]
      BY <1>1, <1>5, <2>2
    <3> QED
      BY <1>9, <2>2, <3>1 DEF RoomInvariant, LeftIsEmpty, Sits
  <2> QED
    BY <1>6, <2>1, <2>2 DEF LeftIsEmpty, Sits, Queued, Ending, Exists, Closing
<1>19. EndIsTold'
  <2>1. ASSUME NEW d \in Clients, InRoom(d)', Ending(member[d].room)'
        PROVE  EndIsToldTo(d)'
    <3>1. Ending(member[d].room) /\ InRoom(d)
      BY <1>1, <1>6, <2>1, MemberShape DEF InRoom
    <3>2. PICK k \in Queued(Host[d]) :
            LET n == channel[Host[d]][k]
            IN  n.type = "leave" /\ n.room = member[d].room /\ n.seat # member[d].seat
      BY <3>1 DEF RoomInvariant, EndIsTold, EndIsToldTo
    <3>3. k \in 1..Len(channel'[Host[d]]) /\ channel'[Host[d]][k] = channel[Host[d]][k]
      BY <1>5, HostAssumption
    <3> QED
      BY <3>1, <3>2, <3>3 DEF EndIsToldTo, Queued
  <2> QED
    BY <2>1 DEF EndIsTold
<1>20. GamesFit'
  BY <1>2 DEF RoomInvariant, GamesFit, Exists
<1>21. NewsIsTrue'
  <2>1. ASSUME NEW d \in Clients, NEW y \in Codes, y = member[d].room, alive[d] = "up",
               Exists(y), ~Joining(y)
        PROVE  SeesAtLast(shown[d], channel'[Host[d]], y, Current(y)')
    <3>1. SeesAtLast(shown[d], channel[Host[d]], y, Current(y))
      BY <2>1, NobodyAssumption DEF RoomInvariant, NewsIsTrue, InRoom
    <3>2. CASE channel' = channel /\ s = Current(x)
      BY <1>10, <3>1, <3>2
    <3>3. CASE CanPublish /\ Publish(m)
      <4>1. /\ Host[d] \in Instances
            /\ Len(channel[Host[d]]) \in Nat
            /\ Len(channel'[Host[d]]) = Len(channel[Host[d]]) + 1
            /\ \A k \in 1..Len(channel[Host[d]]) : channel'[Host[d]][k] = channel[Host[d]][k]
            /\ channel'[Host[d]][Len(channel[Host[d]]) + 1] = m
        BY <1>1, <3>3, PublishAppends, HostAssumption DEF Queued
      <4>2. CASE y = x
        <5>1. m = ToRoom(x, Current(x)')
          BY <1>10 DEF m
        <5> QED
          BY <4>1, <4>2, <5>1, SeesAppended
      <4>3. CASE y # x
        <5>1. ~IsNews(m, y) /\ Current(y)' = Current(y)
          BY <1>1, <1>10, <4>3 DEF IsNews
        <5> QED
          BY <3>1, <4>1, <5>1, SeesAppended, ZenonT(60)
      <4> QED
        BY <4>2, <4>3
    <3> QED
      BY <3>2, <3>3 DEF m
  <2>2. \A d \in Clients : InRoom(d) => member[d].room \in Codes
    BY <1>1, MemberShape
  <2> QED
    BY <1>6, <2>1, <2>2 DEF NewsIsTrue, InRoom, Exists, Joining, Current
<1> QED
  BY <1>11, <1>12, <1>13, <1>14, <1>15, <1>16, <1>17, <1>18, <1>19, <1>20, <1>21
  DEF RoomInvariant

\* What a command that has got the lock and passed its checks finds: the room is not
\* ending, or somebody else would hold the lock, so the seat that was read is one.
LEMMA CommandFinds ==
    ASSUME RoomInvariant, NEW c \in Clients, NEW kind \in Commands,
           Locked(c, kind), Passes(c), NEW x, x = op[c].room
    PROVE  /\ x \in Codes /\ lock[x] = Nobody /\ Exists(x)
           /\ rooms[x] \in RoomRecords /\ GameFits(rooms[x])
           /\ op[c].kind = kind /\ op[c].kind \in Commands /\ op[c].seat \in Seats
           /\ SeatOwner(rooms[x], op[c].seat) = c
           /\ \A d \in Clients : op[d].kind = "created" => op[d].room # x
<1>1. /\ op[c].kind = kind /\ op[c].seat # Unread /\ lock[x] = Nobody /\ Exists(x)
      /\ op[c] \in Ops /\ Typed /\ kind # "idle"
  BY KindsDiffer DEF Locked, Passes, RoomInvariant, Typed
<1>2. x \in Codes /\ op[c].seat \in Seats \cup {NoSeat}
  BY <1>1, OpShape
<1>3. ~Ending(x)
  BY <1>1, <1>2, NobodyAssumption DEF RoomInvariant, LocksAreHeld, Ending, Closing, Holding
<1>4. op[c].seat \in Seats
  BY <1>1, <1>2, <1>3 DEF RoomInvariant, MembershipFits
<1>5. SeatOwner(rooms[x], op[c].seat) = c
  BY <1>1, <1>4 DEF RoomInvariant, SeatsAreOwned
<1>6. \A d \in Clients : op[d].kind = "created" => op[d].room # x
  BY <1>1, KindsDiffer DEF RoomInvariant, CreatedIsUntouched, Works, Seatless
<1> QED
  BY <1>1, <1>2, <1>4, <1>5, <1>6 DEF Typed, RoomInvariant, GamesFit, Exists

\* A command that saves the room r and tells it.
LEMMA CommandKeeps ==
    ASSUME RoomInvariant, NEW c \in Clients, NEW kind \in Commands,
           Locked(c, kind), Passes(c), NEW r \in RoomRecords, NEW s,
           SaveAndTell(c, r, s), s = IF r.started THEN GameOf(r) ELSE LobbyOf(r),
           r.mode = rooms[op[c].room].mode, r.host = rooms[op[c].room].host,
           r.guest = rooms[op[c].room].guest, GameFits(r),
           aiTasks' \in [Codes -> 0..MaxTasks],
           \A y \in Codes \ {op[c].room} : aiTasks'[y] = aiTasks[y]
    PROVE  RoomInvariant'
<1> DEFINE x == op[c].room
<1>1. /\ x \in Codes /\ lock[x] = Nobody /\ Exists(x)
      /\ op[c].kind \in Commands
      /\ \A d \in Clients : op[d].kind = "created" => op[d].room # x
  BY CommandFinds
<1>2. /\ rooms' = [rooms EXCEPT ![x] = r] /\ CanPublish /\ Publish(ToRoom(x, s))
      /\ op' = [op EXCEPT ![c] = Idle]
      /\ UNCHANGED <<lock, drawn, localRooms, member, alive, shown>>
  BY DEF SaveAndTell, Return, hub
<1>3. /\ op' \in [Clients -> Ops] /\ Idle.kind = "idle"
      /\ \A d \in Clients : op'[d] # op[d] => op[d].kind \in Commands /\ op'[d].kind = "idle"
  <2>1. Idle \in Ops /\ Idle.kind = "idle"
    BY DEF Ops, Idle
  <2> QED
    BY <1>1, <1>2, <2>1, OpMoves DEF RoomInvariant
<1>4. s \in Screens
  BY DEF Screens, GameOf, LobbyOf, RoomRecords
<1> HIDE DEF x
<1> QED
  BY <1>1, <1>2, <1>3, <1>4, SaveKeeps DEF x

\* updateLobby: only the guest of a room that waits says to be ready or not.
LEMMA SetReadyKeeps ==
    ASSUME RoomInvariant, NEW c \in Clients, NEW kind \in {"ready", "unready"} \cap Commands,
           SetReady(c, kind)
    PROVE  RoomInvariant'
<1> DEFINE x == op[c].room
           r == [rooms[x] EXCEPT !.ready = (kind = "ready")]
<1>1. /\ Locked(c, kind) /\ Passes(c) /\ SaveAndTell(c, r, LobbyOf(r))
      /\ aiTasks' = aiTasks
  BY DEF SetReady
<1>2. rooms[x] \in RoomRecords /\ GameFits(rooms[x]) /\ op[c].kind = kind /\ kind \in Commands
  BY <1>1, CommandFinds
<1>3. rooms[x].mode = "pvp" /\ ~rooms[x].started /\ rooms[x].guest = c
  BY <1>1, <1>2 DEF Passes
<1>4. /\ r \in RoomRecords /\ r.mode = rooms[x].mode /\ r.host = rooms[x].host
      /\ r.guest = rooms[x].guest /\ r.started = rooms[x].started
      /\ r.game = rooms[x].game /\ r.rematch = rooms[x].rematch
  BY <1>2 DEF RoomRecords
<1>5. GameFits(r)
  BY <1>2, <1>3, <1>4, NobodyAssumption DEF GameFits
<1>6. aiTasks' \in [Codes -> 0..MaxTasks]
  BY <1>1 DEF RoomInvariant, Typed
<1> HIDE DEF r
<1> QED
  BY <1>1, <1>2, <1>3, <1>4, <1>5, <1>6, CommandKeeps

\* updateLobby: the host starts when the guest is there and ready.
LEMMA StartGameKeeps ==
    ASSUME RoomInvariant, NEW c \in Clients, "start" \in Commands, StartGame(c)
    PROVE  RoomInvariant'
<1> DEFINE x == op[c].room
           r == [rooms[x] EXCEPT !.started = TRUE, !.game = Game!NewView]
<1>1. /\ Locked(c, "start") /\ Passes(c) /\ SaveAndTell(c, r, GameOf(r))
      /\ aiTasks' = aiTasks
  BY DEF StartGame
<1>2. rooms[x] \in RoomRecords /\ GameFits(rooms[x]) /\ op[c].kind = "start"
  BY <1>1, CommandFinds
<1>3. rooms[x].mode = "pvp" /\ ~rooms[x].started /\ rooms[x].guest # Nobody /\ rooms[x].ready
  BY <1>1, <1>2 DEF Passes
<1>4. Game!NewView \in Game!Views /\ Game!NewView.ply < MaxPlies /\ ~Game!NewView.over
  BY BoundsAssumption DEF Game!NewView, Game!Views, Game!Seats, Game!Undecided
<1>5. /\ r \in RoomRecords /\ r.mode = rooms[x].mode /\ r.host = rooms[x].host
      /\ r.guest = rooms[x].guest /\ r.started = TRUE /\ r.ready = rooms[x].ready
      /\ r.game = Game!NewView /\ r.rematch = rooms[x].rematch
  BY <1>2, <1>4 DEF RoomRecords
<1>6. GameFits(r)
  BY <1>2, <1>3, <1>4, <1>5 DEF GameFits
<1>7. aiTasks' \in [Codes -> 0..MaxTasks]
  BY <1>1 DEF RoomInvariant, Typed
<1> HIDE DEF r
<1> QED
  BY <1>1, <1>2, <1>3, <1>5, <1>6, <1>7, CommandKeeps

\* What the rules promise of a ply, in a room whose game goes on.
LEMMA PlyFits ==
    ASSUME NEW r \in RoomRecords, GameFits(r), r.started, ~r.game.over,
           NEW g \in Game!PlyOutcomes(r.game)
    PROVE  /\ [r EXCEPT !.game = g] \in RoomRecords
           /\ GameFits([r EXCEPT !.game = g])
           /\ [r EXCEPT !.game = g].mode = r.mode /\ [r EXCEPT !.game = g].host = r.host
           /\ [r EXCEPT !.game = g].guest = r.guest /\ [r EXCEPT !.game = g].started
           /\ [r EXCEPT !.game = g].game = g /\ g \in Game!Views
<1> DEFINE q == [r EXCEPT !.game = g]
<1>1. r.game \in Game!Views /\ r.game.ply < MaxPlies /\ r.rematch = {}
  BY DEF RoomRecords, GameFits
<1>2. /\ g \in [ply : {r.game.ply + 1}, turn : Game!Seats, over : BOOLEAN,
                winner : Game!Seats \cup {Game!Tie, Game!Undecided}]
      /\ g.ply = MaxPlies => g.over
  BY DEF Game!PlyOutcomes
<1>3. g \in Game!Views /\ (~g.over => g.ply < MaxPlies)
  BY <1>1, <1>2, BoundsAssumption DEF Game!Views
<1>4. /\ q \in RoomRecords /\ q.mode = r.mode /\ q.host = r.host /\ q.guest = r.guest
      /\ q.started = r.started /\ q.ready = r.ready /\ q.rematch = r.rematch /\ q.game = g
  BY <1>3 DEF RoomRecords
<1>5. GameFits(q)
  BY <1>1, <1>3, <1>4 DEF GameFits
<1> QED
  BY <1>3, <1>4, <1>5

\* playerMove: a ply, and a task for the computer if it is to answer.
LEMMA PlayerMoveKeeps ==
    ASSUME RoomInvariant, NEW c \in Clients, "move" \in Commands, PlayerMove(c)
    PROVE  RoomInvariant'
<1> DEFINE x == op[c].room
<1>1. Locked(c, "move") /\ Passes(c)
  BY DEF PlayerMove
<1>2. /\ rooms[x] \in RoomRecords /\ GameFits(rooms[x]) /\ op[c].kind = "move" /\ x \in Codes
  BY <1>1, CommandFinds
<1>3. rooms[x].started /\ ~rooms[x].game.over
  BY <1>1, <1>2 DEF Passes
<1>4. PICK g \in Game!PlyOutcomes(rooms[x].game) :
        LET r == [rooms[x] EXCEPT !.game = g]
            wakes == r.mode = "ai" /\ ~g.over /\ g.turn = 1
        IN  /\ SaveAndTell(c, r, GameOf(r))
            /\ wakes => aiTasks[x] < MaxTasks
            /\ aiTasks' = IF wakes THEN [aiTasks EXCEPT ![x] = @ + 1] ELSE aiTasks
  BY DEF PlayerMove
<1> DEFINE r == [rooms[x] EXCEPT !.game = g]
<1>5. /\ r \in RoomRecords /\ GameFits(r) /\ r.mode = rooms[x].mode /\ r.host = rooms[x].host
      /\ r.guest = rooms[x].guest /\ r.started
  BY <1>2, <1>3, PlyFits
<1>6. /\ aiTasks' \in [Codes -> 0..MaxTasks]
      /\ \A y \in Codes \ {x} : aiTasks'[y] = aiTasks[y]
  <2>1. aiTasks \in [Codes -> 0..MaxTasks]
    BY DEF RoomInvariant, Typed
  <2>2. aiTasks[x] < MaxTasks => aiTasks[x] + 1 \in 0..MaxTasks
    BY <1>2, <2>1, BoundsAssumption
  <2> QED
    BY <1>2, <1>4, <2>1, <2>2
<1>7. SaveAndTell(c, r, GameOf(r))
  BY <1>4
<1> HIDE DEF r
<1> QED
  BY <1>1, <1>5, <1>6, <1>7, CommandKeeps

\* Resign: the winner is a seat because the one who resigns has one.
LEMMA ResignKeeps ==
    ASSUME RoomInvariant, NEW c \in Clients, "resign" \in Commands, Resign(c)
    PROVE  RoomInvariant'
<1> DEFINE x == op[c].room
           r == [rooms[x] EXCEPT !.game.over = TRUE, !.game.winner = 1 - op[c].seat]
<1>1. /\ Locked(c, "resign") /\ Passes(c) /\ SaveAndTell(c, r, GameOf(r))
      /\ aiTasks' = aiTasks
  BY DEF Resign
<1>2. /\ rooms[x] \in RoomRecords /\ GameFits(rooms[x]) /\ op[c].kind = "resign"
      /\ op[c].seat \in Seats
  BY <1>1, CommandFinds
<1>3. rooms[x].started /\ ~rooms[x].game.over
  BY <1>1, <1>2 DEF Passes
<1>4. /\ rooms[x].game \in Game!Views
      /\ 1 - op[c].seat \in Game!Seats
  BY <1>2 DEF RoomRecords, Seats, Game!Seats
<1>5. /\ r.mode = rooms[x].mode /\ r.host = rooms[x].host
      /\ r.guest = rooms[x].guest /\ r.started = rooms[x].started
      /\ r.ready = rooms[x].ready /\ r.rematch = rooms[x].rematch /\ r.game.over
      /\ r \in RoomRecords
  BY <1>2, <1>4 DEF RoomRecords, Game!Views
<1>6. GameFits(r)
  BY <1>2, <1>3, <1>5 DEF GameFits
<1>7. aiTasks' \in [Codes -> 0..MaxTasks]
  BY <1>1 DEF RoomInvariant, Typed
<1> HIDE DEF r
<1> QED
  BY <1>1, <1>2, <1>3, <1>5, <1>6, <1>7, CommandKeeps

\* Rematch: a request alone changes nothing anybody sees.
LEMMA RematchKeeps ==
    ASSUME RoomInvariant, NEW c \in Clients, "rematch" \in Commands, Rematch(c)
    PROVE  RoomInvariant'
<1> DEFINE x == op[c].room
           r == [rooms[x] EXCEPT !.game = Game!NewView, !.rematch = {}]
           asked == [rooms[x] EXCEPT !.rematch = Requests(c)]
<1>1. Locked(c, "rematch") /\ Passes(c) /\ aiTasks' = aiTasks
  BY DEF Rematch
<1>2. /\ rooms[x] \in RoomRecords /\ GameFits(rooms[x]) /\ op[c].kind = "rematch"
      /\ op[c].kind \in Commands /\ x \in Codes /\ lock[x] = Nobody /\ Exists(x)
      /\ \A d \in Clients : op[d].kind = "created" => op[d].room # x
  BY <1>1, CommandFinds
<1>3. rooms[x].started /\ rooms[x].game.over
  BY <1>1, <1>2 DEF Passes
<1>4. aiTasks' \in [Codes -> 0..MaxTasks]
  BY <1>1 DEF RoomInvariant, Typed
<1>5. CASE SaveAndTell(c, r, GameOf(r))
  <2>1. Game!NewView \in Game!Views /\ Game!NewView.ply < MaxPlies /\ ~Game!NewView.over
    BY BoundsAssumption DEF Game!NewView, Game!Views, Game!Seats, Game!Undecided
  <2>2. /\ r \in RoomRecords /\ r.mode = rooms[x].mode /\ r.host = rooms[x].host
        /\ r.guest = rooms[x].guest /\ r.started = rooms[x].started
        /\ r.ready = rooms[x].ready /\ r.game = Game!NewView /\ r.rematch = {}
    BY <1>2, <2>1 DEF RoomRecords
  <2>3. GameFits(r)
    BY <1>2, <1>3, <2>1, <2>2 DEF GameFits
  <2> HIDE DEF r
  <2> QED
    BY <1>1, <1>3, <1>4, <1>5, <2>2, <2>3, CommandKeeps
<1>6. CASE /\ rooms' = [rooms EXCEPT ![x].rematch = Requests(c)]
           /\ Return(c)
           /\ UNCHANGED <<lock, drawn, channel, hub, shown>>
  <2>1. Requests(c) \in SUBSET Seats
    BY <1>2 DEF Requests, RoomRecords, Seats
  <2>2. /\ asked \in RoomRecords /\ asked.mode = rooms[x].mode /\ asked.host = rooms[x].host
        /\ asked.guest = rooms[x].guest /\ asked.started = rooms[x].started
        /\ asked.ready = rooms[x].ready /\ asked.game = rooms[x].game
    BY <1>2, <2>1 DEF RoomRecords
  <2>3. GameFits(asked)
    BY <1>2, <1>3, <2>2 DEF GameFits
  <2>4. rooms' = [rooms EXCEPT ![x] = asked]
    BY <1>6
  <2>5. GameOf(asked) \in Screens /\ GameOf(asked) = Current(x)
    BY <1>3, <2>2 DEF Screens, GameOf, RoomRecords, Current
  <2>6. Idle \in Ops /\ Idle.kind = "idle"
    BY DEF Ops, Idle
  <2>7. /\ op' \in [Clients -> Ops]
        /\ \A d \in Clients : op'[d] # op[d] => op[d].kind \in Commands /\ op'[d].kind = "idle"
    BY <1>2, <1>6, <2>6, OpMoves DEF RoomInvariant, Return
  <2>8. UNCHANGED <<lock, drawn, channel, localRooms, member, alive, shown>>
    BY <1>6 DEF hub
  <2> HIDE DEF x, asked
  <2> QED
    BY <1>1, <1>2, <1>3, <1>4, <2>2, <2>3, <2>4, <2>5, <2>7, <2>8, SaveKeeps
<1> QED
  BY <1>5, <1>6 DEF Rematch

\* A task of the computer ends, or a connection does: nothing is known of either but
\* that a room with a task was drawn, and that nothing more is sent to the client.
LEMMA TasksEndKeeps ==
    ASSUME RoomInvariant, aiTasks' \in [Codes -> 0..MaxTasks],
           \A y \in Codes : aiTasks'[y] <= aiTasks[y],
           alive' \in [Clients -> {"up", "cancelled", "gone"}],
           \A d \in Clients : alive'[d] = "up" => alive[d] = "up",
           UNCHANGED <<rooms, lock, drawn, channel, localRooms, member, op, shown>>
    PROVE  RoomInvariant'
<1>1. \A y \in Codes : /\ aiTasks[y] = 0 => aiTasks'[y] = 0
                       /\ aiTasks'[y] > 0 => aiTasks[y] > 0
  BY BoundsAssumption DEF RoomInvariant, Typed
<1>2. \A d \in Clients : op[d].kind = "created" => op[d].room \in Codes
  BY OpShape DEF RoomInvariant, Typed
<1>3. Typed'
  BY DEF RoomInvariant, Typed
<1>4. LocksAreHeld' /\ SeatsAreOwned' /\ MembershipFits'
  BY DEF RoomInvariant, LocksAreHeld, SeatsAreOwned, MembershipFits, InRoom, Exists, Ending, Closing
<1>5. NamesAreDrawn'
  BY <1>1 DEF RoomInvariant, NamesAreDrawn, Exists, InRoom, Queued
<1>6. CreatedIsUntouched'
  BY <1>1, <1>2 DEF RoomInvariant, CreatedIsUntouched, Works, Queued
<1>7. SeatsAreSingle' /\ LocalIsMember'
  BY DEF RoomInvariant, SeatsAreSingle, LocalIsMember, InRoom, Sits
<1>8. LeftIsEmpty' /\ EndIsTold'
  BY DEF RoomInvariant, LeftIsEmpty, EndIsTold, EndIsToldTo, Sits, Queued, InRoom,
         Ending, Exists, Closing
<1>9. GamesFit' /\ NewsIsTrue'
  BY DEF RoomInvariant, GamesFit, NewsIsTrue, InRoom, Exists, Joining, Current
<1> QED
  BY <1>3, <1>4, <1>5, <1>6, <1>7, <1>8, <1>9 DEF RoomInvariant

\* AiMove: the computer plays, or finds that it is not its turn.
LEMMA AiMoveKeeps ==
    ASSUME RoomInvariant, NEW x \in Codes, AiMove(x)
    PROVE  RoomInvariant'
<1>1. /\ aiTasks[x] > 0 /\ lock[x] = Nobody
      /\ UNCHANGED <<lock, drawn, localRooms, member, alive, op, shown>>
  BY DEF AiMove, hub
<1>2. /\ aiTasks \in [Codes -> 0..MaxTasks]
      /\ [aiTasks EXCEPT ![x] = @ - 1] \in [Codes -> 0..MaxTasks]
      /\ op \in [Clients -> Ops]
  BY <1>1, BoundsAssumption DEF RoomInvariant, Typed
<1>3. \A d \in Clients : op[d].kind = "created" => op[d].room # x
  BY <1>1 DEF RoomInvariant, CreatedIsUntouched
<1>4. ASSUME Exists(x), ~rooms[x].game.over, rooms[x].game.turn = 1, CanPublish,
             NEW g \in Game!PlyOutcomes(rooms[x].game),
             rooms' = [rooms EXCEPT ![x] = [rooms[x] EXCEPT !.game = g]],
             Publish(ToRoom(x, GameOf([rooms[x] EXCEPT !.game = g]))),
             aiTasks' = IF g.turn = 1 THEN aiTasks ELSE [aiTasks EXCEPT ![x] = @ - 1]
      PROVE  RoomInvariant'
  <2> DEFINE r == [rooms[x] EXCEPT !.game = g]
  <2>1. rooms[x] \in RoomRecords /\ GameFits(rooms[x])
    BY <1>4 DEF RoomInvariant, Typed, GamesFit, Exists
  <2>2. rooms[x].started
    BY <1>4, <2>1 DEF GameFits, RoomRecords, Game!NewView
  <2>3. /\ r \in RoomRecords /\ GameFits(r) /\ r.mode = rooms[x].mode /\ r.host = rooms[x].host
        /\ r.guest = rooms[x].guest /\ r.started
    BY <1>4, <2>1, <2>2, PlyFits
  <2>4. GameOf(r) \in Screens
    BY <2>3 DEF Screens, GameOf, RoomRecords
  <2>5. rooms' = [rooms EXCEPT ![x] = r] /\ Publish(ToRoom(x, GameOf(r)))
    BY <1>4
  <2>6. /\ aiTasks' \in [Codes -> 0..MaxTasks]
        /\ \A y \in Codes \ {x} : aiTasks'[y] = aiTasks[y]
    BY <1>2, <1>4
  <2>7. op' \in [Clients -> Ops] /\ \A d \in Clients : op'[d] = op[d]
    BY <1>1, <1>2
  <2> HIDE DEF r
  <2> QED
    BY <1>1, <1>3, <1>4, <2>3, <2>4, <2>5, <2>6, <2>7, SaveKeeps
<1>5. ASSUME aiTasks' = [aiTasks EXCEPT ![x] = @ - 1], UNCHANGED <<rooms, channel>>
      PROVE  RoomInvariant'
  <2>1. \A y \in Codes : aiTasks'[y] <= aiTasks[y]
    BY <1>2, <1>5
  <2>2. alive' \in [Clients -> {"up", "cancelled", "gone"}] /\ alive' = alive
    BY <1>1 DEF RoomInvariant, Typed
  <2> QED
    BY <1>1, <1>2, <1>5, <2>1, <2>2, TasksEndKeeps
<1> QED
  BY <1>4, <1>5 DEF AiMove

\* The computer does not get the lock: only its task is gone.
LEMMA AiGivesUpKeeps ==
    ASSUME RoomInvariant, NEW x \in Codes, AiGivesUp(x)
    PROVE  RoomInvariant'
<1>1. /\ aiTasks[x] > 0 /\ aiTasks' = [aiTasks EXCEPT ![x] = @ - 1]
      /\ UNCHANGED <<rooms, lock, drawn, channel, localRooms, member, alive, op, shown>>
  BY DEF AiGivesUp, redis, hub
<1>2. /\ aiTasks' \in [Codes -> 0..MaxTasks]
      /\ \A y \in Codes : aiTasks'[y] <= aiTasks[y]
  BY <1>1, BoundsAssumption DEF RoomInvariant, Typed
<1>3. alive' \in [Clients -> {"up", "cancelled", "gone"}] /\ alive' = alive
  BY <1>1 DEF RoomInvariant, Typed
<1> QED
  BY <1>1, <1>2, <1>3, TasksEndKeeps

\* Cancel and Disconnect: the connection ends.
LEMMA ConnectionEndKeeps ==
    ASSUME RoomInvariant, NEW c \in Clients, Cancel(c) \/ Disconnect(c)
    PROVE  RoomInvariant'
<1>1. /\ UNCHANGED <<rooms, lock, drawn, channel, localRooms, member, op, shown, aiTasks>>
      /\ \/ alive' = [alive EXCEPT ![c] = "cancelled"]
         \/ alive' = [alive EXCEPT ![c] = "gone"]
  BY DEF Cancel, Disconnect, redis
<1>2. /\ alive' \in [Clients -> {"up", "cancelled", "gone"}]
      /\ \A d \in Clients : alive'[d] = "up" => alive[d] = "up"
  BY <1>1 DEF RoomInvariant, Typed
<1>3. /\ aiTasks' \in [Codes -> 0..MaxTasks]
      /\ \A y \in Codes : aiTasks'[y] <= aiTasks[y]
  BY <1>1, BoundsAssumption DEF RoomInvariant, Typed
<1> QED
  BY <1>1, <1>2, <1>3, TasksEndKeeps

-----------------------------------------------------------------------------
(* Leaving. *)

\* Unbind: who leaves holds the lock, and the seat left is empty on every instance.
LEMMA UnbindKeeps ==
    ASSUME RoomInvariant, NEW c \in Clients, Unbind(c)
    PROVE  RoomInvariant'
<1>1. /\ op[c].kind = "leave" /\ lock[op[c].room] = Nobody /\ Typed
      /\ UNCHANGED <<rooms, drawn, channel, alive, aiTasks>>
  BY DEF Unbind, RoomInvariant
<1>2. CASE ~InRoom(c)
  <2>1. op' = [op EXCEPT ![c] = Idle] /\ UNCHANGED <<lock, localRooms, member, shown>>
    BY <1>2 DEF Unbind, Return
  <2>2. Idle \in Ops /\ Idle.kind = "idle"
    BY DEF Ops, Idle
  <2> QED
    BY <1>1, <2>1, <2>2, KindsDiffer, HandlerKeeps DEF Holding
<1>3. CASE InRoom(c)
  <2> DEFINE x == member[c].room
             seat == member[c].seat
             o == [kind |-> "unbound", room |-> x, seat |-> seat]
  <2>1. x \in Codes /\ seat \in Seats /\ op[c].room = x /\ x # NoCode /\ x \in drawn
    BY <1>1, <1>3, MemberShape, NobodyAssumption
    DEF RoomInvariant, MembershipFits, Entering, NamesAreDrawn
  <2>2. /\ lock' = [lock EXCEPT ![x] = c]
        /\ localRooms' = [localRooms EXCEPT ![Host[c]] = {b \in @ : ~(b[1] = x /\ b[2] = seat)}]
        /\ member' = [member EXCEPT ![c] = NoMember]
        /\ op' = [op EXCEPT ![c] = o]
        /\ shown' = [d \in Clients |-> IF d \in {c} /\ alive[d] = "up" THEN Menu ELSE shown[d]]
    BY <1>3, <2>1 DEF Unbind, Show
  <2>3. o \in Ops /\ o.kind = "unbound" /\ o.room = x /\ o.seat = seat
    BY <2>1 DEF Ops
  <2> HIDE DEF o
  <2>4. /\ op' \in [Clients -> Ops] /\ op'[c] = o
        /\ \A d \in Clients \ {c} : op'[d] = op[d]
    BY <1>1, <2>2, <2>3, OpMoves
  <2>5. /\ lock'[x] = c /\ \A y \in Codes \ {x} : lock'[y] = lock[y]
        /\ lock' \in [Codes -> Clients \cup {Nobody}]
    BY <1>1, <2>1, <2>2 DEF Typed
  <2>6. /\ member' \in [Clients -> [room : Codes, seat : Seats] \cup {NoMember}]
        /\ member'[c] = NoMember /\ \A d \in Clients \ {c} : member'[d] = member[d]
        /\ NoMember.room = NoCode
    BY <1>1, <2>2 DEF Typed, NoMember
  <2>7. /\ shown' \in [Clients -> Screens] /\ \A d \in Clients \ {c} : shown'[d] = shown[d]
    BY <1>1, <2>2 DEF Typed, Screens
  <2>8. /\ Host[c] \in Instances
        /\ localRooms' \in [Instances -> SUBSET (Codes \X Seats \X Clients)]
        /\ \A i \in Instances, y \in Codes, s \in Seats, d \in Clients :
              <<y, s, d>> \in localRooms'[i]
                <=> <<y, s, d>> \in localRooms[i] /\ ~(i = Host[c] /\ y = x /\ s = seat)
    BY <1>1, <2>2, HostAssumption DEF Typed
  <2>9. \A d \in Clients : op[d].kind \in Holding => op[d].room # x
    BY <1>1, <2>1, NobodyAssumption DEF RoomInvariant, LocksAreHeld
  <2>10. \A d \in Clients : op[d].kind = "created" => op[d].room # x
    BY <1>1, <2>1 DEF RoomInvariant, CreatedIsUntouched, Works
  <2>11. \A y : /\ Exists(y) <=> Exists(y)'
                /\ Closing(y) <=> Closing(y)'
                /\ Joining(y) <=> Joining(y)'
                /\ Ending(y) <=> Ending(y)'
    BY <1>1, <2>3, <2>4 DEF Exists, Closing, Joining, Ending
  <2>12. \A d \in Clients \ {c} : ~Sits(d, x, seat)
    BY <1>3 DEF RoomInvariant, SeatsAreSingle, Sits
  <2>13. Exists(x) => SeatOwner(rooms[x], seat) = c
    BY <1>3 DEF RoomInvariant, SeatsAreOwned
  <2>14. \A d \in Clients : member'[d].room # NoCode => d # c /\ InRoom(d) /\ member'[d] = member[d]
    BY <2>6 DEF InRoom
  <2>15. \A d \in Clients, y \in Codes, s \in Seats : Sits(d, y, s)' <=> d # c /\ Sits(d, y, s)
    BY <2>6, NobodyAssumption DEF Sits
  <2>16. Typed'
    BY <1>1, <2>4, <2>5, <2>6, <2>7, <2>8 DEF Typed
  <2>17. LocksAreHeld'
    <3>1. ASSUME NEW y \in Codes, NEW d \in Clients
          PROVE  lock'[y] = d <=> op'[d].kind \in Holding /\ op'[d].room = y
      <4>1. CASE y = x
        BY <2>3, <2>4, <2>5, <2>9, <4>1 DEF Holding
      <4>2. CASE y # x
        BY <1>1, <2>3, <2>4, <2>5, <4>2 DEF RoomInvariant, LocksAreHeld, Holding
      <4> QED
        BY <4>1, <4>2
    <3> QED
      BY <3>1 DEF LocksAreHeld
  <2>18. NamesAreDrawn'
    BY <1>1, <2>1, <2>3, <2>4, <2>14 DEF RoomInvariant, NamesAreDrawn, Exists, InRoom, Queued
  <2>19. CreatedIsUntouched'
    <3>1. ASSUME NEW d \in Clients, op'[d].kind = "created", NEW y, y = op'[d].room
          PROVE  /\ rooms[y] = NewRoom(rooms[y].mode, d) /\ rooms[y].mode \in {"pvp", "ai"}
                 /\ aiTasks[y] = 0
                 /\ \A e \in Clients :
                      /\ member'[e].room # y
                      /\ e # d => ~(op'[e].kind # "idle" /\ op'[e].room = y)
                 /\ \A i \in Instances : \A k \in Queued(i) : channel[i][k].room # y
      <4>1. d # c /\ op'[d] = op[d] /\ y # x /\ y \in Codes /\ y # NoCode
        BY <1>1, <2>3, <2>4, <2>10, <3>1, OpShape, NobodyAssumption DEF Typed
      <4>2. /\ rooms[y] = NewRoom(rooms[y].mode, d) /\ rooms[y].mode \in {"pvp", "ai"}
            /\ aiTasks[y] = 0
            /\ \A e \in Clients : member[e].room # y /\ (e # d => ~Works(e, y))
            /\ \A i \in Instances : \A k \in Queued(i) : channel[i][k].room # y
        BY <3>1, <4>1 DEF RoomInvariant, CreatedIsUntouched
      <4>3. \A e \in Clients :
              /\ member'[e].room # y
              /\ e # d => ~(op'[e].kind # "idle" /\ op'[e].room = y)
        BY <2>3, <2>4, <2>6, <4>1, <4>2 DEF Works
      <4> QED
        BY <4>2, <4>3
    <3> QED
      BY <1>1, <3>1 DEF CreatedIsUntouched, Queued, Works
  <2>20. SeatsAreOwned'
    <3>1. ASSUME NEW d \in Clients
          PROVE  /\ op'[d].kind \in Commands \cup {"unbound"} /\ op'[d].seat \in Seats
                      /\ Exists(op'[d].room)
                      => SeatOwner(rooms[op'[d].room], op'[d].seat) = d
                 /\ op'[d].kind = "joined" =>
                      /\ Exists(op'[d].room) /\ rooms[op'[d].room].guest = d
                      /\ ~rooms[op'[d].room].started
      <4>1. CASE d = c
        BY <2>3, <2>4, <2>13, <4>1
      <4>2. CASE d # c
        BY <2>4, <4>2 DEF RoomInvariant, SeatsAreOwned
      <4> QED
        BY <4>1, <4>2
    <3> QED
      BY <1>1, <2>14, <3>1 DEF RoomInvariant, SeatsAreOwned, InRoom, Exists
  <2>21. MembershipFits'
    <3>1. \A d \in Clients \ {c} : InRoom(d) <=> InRoom(d)'
      BY <2>6 DEF InRoom
    <3>2. ~InRoom(c)'
      BY <2>6 DEF InRoom
    <3> QED
      BY <2>3, <2>4, <2>6, <2>11, <3>1, <3>2, KindsDiffer
      DEF RoomInvariant, MembershipFits, Entering, Seatless, Holding
  <2>22. SeatsAreSingle'
    BY <2>6, <2>14 DEF RoomInvariant, SeatsAreSingle, InRoom, Sits
  <2>23. LocalIsMember'
    <3>1. ASSUME NEW d \in Clients, NEW i \in Instances, NEW y \in Codes, NEW s \in Seats
          PROVE  <<y, s, d>> \in localRooms'[i] <=> i = Host[d] /\ Sits(d, y, s)'
      <4>1. <<y, s, d>> \in localRooms[i] <=> i = Host[d] /\ Sits(d, y, s)
        BY DEF RoomInvariant, LocalIsMember
      <4>2. CASE d = c
        BY <2>6, <2>8, <2>15, <4>1, <4>2 DEF Sits
      <4>3. CASE d # c
        BY <2>8, <2>12, <2>15, <4>1, <4>3
      <4> QED
        BY <4>2, <4>3
    <3> QED
      BY <3>1 DEF LocalIsMember
  <2>24. LeftIsEmpty'
    <3>1. ASSUME NEW d \in Clients, NEW e \in Clients, op'[d].kind = "unbound"
          PROVE  ~(member'[e].room = op'[d].room /\ member'[e].seat = op'[d].seat)
      <4>1. op'[d].room \in Codes
        BY <2>4, <3>1, OpShape
      <4>2. (e # c /\ member'[e] = member[e]) \/ member'[e].room = NoCode
        BY <2>6
      <4>3. CASE d = c
        BY <2>3, <2>4, <2>12, <4>1, <4>2, <4>3, NobodyAssumption DEF Sits
      <4>4. CASE d # c
        BY <2>4, <3>1, <4>1, <4>2, <4>4, NobodyAssumption DEF RoomInvariant, LeftIsEmpty, Sits
      <4> QED
        BY <4>3, <4>4
    <3>2. ASSUME NEW i \in Instances, NEW k \in Queued(i), channel[i][k].type = "leave"
          PROVE  /\ Ending(channel[i][k].room)
                 /\ \A e \in Clients : ~(/\ member'[e].room = channel[i][k].room
                                         /\ member'[e].seat = channel[i][k].seat)
      <4>1. channel[i][k].room # NoCode
        BY <1>1, MessageShape, NobodyAssumption DEF Typed, Queued
      <4> QED
        BY <2>6, <3>2, <4>1 DEF RoomInvariant, LeftIsEmpty, Sits
    <3> QED
      BY <1>1, <2>11, <3>1, <3>2 DEF LeftIsEmpty, Sits, Queued, Ending, Exists, Closing
  <2>25. EndIsTold'
    BY <1>1, <2>11, <2>14 DEF RoomInvariant, EndIsTold, EndIsToldTo, InRoom, Queued
  <2>26. GamesFit'
    BY <1>1 DEF RoomInvariant, GamesFit, Exists
  <2>27. NewsIsTrue'
    BY <1>1, <2>7, <2>11, <2>14 DEF RoomInvariant, NewsIsTrue, InRoom, Current
  <2> QED
    BY <2>16, <2>17, <2>18, <2>19, <2>20, <2>21, <2>22, <2>23, <2>24, <2>25, <2>26, <2>27
    DEF RoomInvariant
<1> QED
  BY <1>2, <1>3

\* The handler of c, who left a room, tells the room m or nothing and goes on; the
\* queues only grow.
LEMMA QueuesGrow ==
    ASSUME Typed, NEW m \in News \cup Leaves, \/ CanPublish /\ Publish(m)
                                              \/ channel' = channel
    PROVE  /\ channel' \in [Instances -> Seq(News \cup Leaves)]
           /\ \A i \in Instances :
                 /\ Len(channel'[i]) <= MaxQueue
                 /\ \A k \in Queued(i) : /\ k \in 1..Len(channel'[i])
                                         /\ channel'[i][k] = channel[i][k]
                 /\ \A k \in 1..Len(channel'[i]) :
                       channel'[i][k] = m \/ (k \in Queued(i) /\ channel'[i][k] = channel[i][k])
                 /\ \A k \in Queued(i) : channel[i][k].room \in Codes
<1>1. \A i \in Instances : \A k \in Queued(i) : channel[i][k].room \in Codes
  BY MessageShape DEF Typed, Queued
<1>2. CASE CanPublish /\ Publish(m)
  BY <1>1, <1>2, PublishAppends
<1>3. CASE channel' = channel
  BY <1>1, <1>3 DEF Typed, Queued
<1> QED
  BY <1>2, <1>3

\* What everybody sees at last stays what it is if nothing is said of the room.
LEMMA NewsStays ==
    ASSUME RoomInvariant, NEW m \in News \cup Leaves, NEW d \in Clients,
           \/ CanPublish /\ Publish(m)
           \/ channel' = channel,
           InRoom(d), alive[d] = "up", Exists(member[d].room), ~Joining(member[d].room),
           ~IsNews(m, member[d].room)
    PROVE  SeesAtLast(shown[d], channel'[Host[d]], member[d].room, Current(member[d].room))
<1>1. SeesAtLast(shown[d], channel[Host[d]], member[d].room, Current(member[d].room))
  BY DEF RoomInvariant, NewsIsTrue
<1>2. CASE CanPublish /\ Publish(m)
  <2>1. /\ Host[d] \in Instances
        /\ Len(channel[Host[d]]) \in Nat
        /\ Len(channel'[Host[d]]) = Len(channel[Host[d]]) + 1
        /\ \A k \in 1..Len(channel[Host[d]]) : channel'[Host[d]][k] = channel[Host[d]][k]
        /\ channel'[Host[d]][Len(channel[Host[d]]) + 1] = m
    BY <1>2, PublishAppends, HostAssumption DEF Queued, RoomInvariant
  <2> QED
    BY <1>1, <2>1, SeesAppended
<1>3. CASE channel' = channel
  BY <1>1, <1>3
<1> QED
  BY <1>2, <1>3

\* ReleaseSeat: the seat of a guest who left is nobody's.
LEMMA ReleaseSeatKeeps ==
    ASSUME RoomInvariant, NEW c \in Clients, ReleaseSeat(c)
    PROVE  RoomInvariant'
<1> DEFINE x == op[c].room
           r == [rooms[x] EXCEPT !.guest = Nobody, !.ready = FALSE]
           m == ToRoom(x, LobbyOf(r))
<1>1. /\ op[c].kind = "unbound" /\ op[c].seat = 1 /\ CanPublish /\ Publish(m)
      /\ Exists(x) /\ rooms[x].mode = "pvp" /\ ~rooms[x].started
      /\ rooms' = [rooms EXCEPT ![x] = r]
      /\ lock' = [lock EXCEPT ![x] = Nobody]
      /\ op' = [op EXCEPT ![c] = Idle]
      /\ UNCHANGED <<drawn, localRooms, member, alive, shown, aiTasks>>
  BY DEF ReleaseSeat, Return, hub
<1>2. Typed /\ op[c] \in Ops /\ x \in Codes /\ x \in drawn /\ rooms[x] \in RoomRecords
  BY <1>1, OpShape DEF RoomInvariant, Typed, NamesAreDrawn, Exists
<1>3. /\ r \in RoomRecords /\ r.mode = "pvp" /\ r.host = rooms[x].host /\ r.guest = Nobody
      /\ ~r.started /\ r.ready = FALSE /\ r.rematch = rooms[x].rematch
      /\ r.game = rooms[x].game
  BY <1>1, <1>2 DEF RoomRecords
<1>4. m \in News /\ m.room = x /\ m.type = "room"
  <2>1. LobbyOf(r) \in Screens
    BY <1>3 DEF Screens, LobbyOf, RoomRecords
  <2> QED
    BY <1>2, <2>1 DEF News, ToRoom
<1>5. m = ToRoom(x, LobbyOf(r))
  OBVIOUS
<1> HIDE DEF m, r, x
<1>6. lock[x] = c /\ \A d \in Clients \ {c} : op[d].kind \in Holding => op[d].room # x
  BY <1>1, <1>2 DEF RoomInvariant, LocksAreHeld, Holding, x
<1>7. \A d \in Clients : op[d].kind = "created" => op[d].room # x
  BY <1>1 DEF RoomInvariant, CreatedIsUntouched, Works, x
<1>8. /\ op' \in [Clients -> Ops] /\ op'[c] = Idle /\ Idle.kind = "idle"
      /\ \A d \in Clients \ {c} : op'[d] = op[d]
  BY <1>1, <1>2, OpMoves DEF Ops, Idle
<1>9. /\ channel' \in [Instances -> Seq(News \cup Leaves)]
      /\ \A i \in Instances :
            /\ Len(channel'[i]) <= MaxQueue
            /\ \A k \in Queued(i) : k \in 1..Len(channel'[i]) /\ channel'[i][k] = channel[i][k]
            /\ \A k \in 1..Len(channel'[i]) :
                  channel'[i][k] = m \/ (k \in Queued(i) /\ channel'[i][k] = channel[i][k])
            /\ \A k \in Queued(i) : channel[i][k].room \in Codes
  BY <1>1, <1>2, <1>4, QueuesGrow
<1>10. /\ lock'[x] = Nobody /\ \A y \in Codes \ {x} : lock'[y] = lock[y]
       /\ lock' \in [Codes -> Clients \cup {Nobody}]
  BY <1>1, <1>2 DEF Typed
<1>11. /\ rooms'[x] = r /\ r # NoRoom
       /\ \A y \in Codes \ {x} : rooms'[y] = rooms[y]
       /\ rooms' \in [Codes -> RoomRecords \cup {NoRoom}]
  BY <1>1, <1>2, <1>3, RecordIsRoom DEF Typed
<1>12. \A y \in Codes : /\ Exists(y) <=> Exists(y)'
                        /\ Closing(y) <=> Closing(y)'
                        /\ Ending(y) <=> Ending(y)'
                        /\ Joining(y) <=> Joining(y)'
  BY <1>1, <1>8, <1>11 DEF Exists, Closing, Joining, Ending
<1>13. ~Ending(x) /\ x # NoCode
  BY <1>1, <1>2, <1>6, NobodyAssumption DEF Ending, Closing, Holding
<1>14. \A d \in Clients :
         InRoom(d) => /\ member[d].room \in Codes /\ member[d].seat \in Seats
                      /\ (member[d].room = x => member[d].seat = 0)
  BY <1>1, <1>2, MemberShape DEF RoomInvariant, LeftIsEmpty, Sits, Seats, x
<1>15. Typed'
  BY <1>1, <1>2, <1>8, <1>9, <1>10, <1>11 DEF Typed
<1>16. LocksAreHeld'
  <2>1. ASSUME NEW y \in Codes, NEW d \in Clients
        PROVE  lock'[y] = d <=> op'[d].kind \in Holding /\ op'[d].room = y
    <3>1. CASE y = x
      BY <1>6, <1>8, <1>10, <3>1, NobodyAssumption DEF Holding
    <3>2. CASE y # x
      BY <1>1, <1>8, <1>10, <3>2 DEF RoomInvariant, LocksAreHeld, Holding, x
    <3> QED
      BY <3>1, <3>2
  <2> QED
    BY <2>1 DEF LocksAreHeld
<1>17. NamesAreDrawn'
  <2>1. \A i \in Instances : \A k \in 1..Len(channel'[i]) : channel'[i][k].room \in drawn
    BY <1>2, <1>4, <1>9 DEF RoomInvariant, NamesAreDrawn
  <2>2. \A y \in Codes : Exists(y)' \/ aiTasks[y] > 0 => y \in drawn
    BY <1>12 DEF RoomInvariant, NamesAreDrawn
  <2>3. \A d \in Clients : op'[d].kind # "idle" => op'[d].room \in drawn
    BY <1>8 DEF RoomInvariant, NamesAreDrawn
  <2> QED
    BY <1>1, <2>1, <2>2, <2>3 DEF RoomInvariant, NamesAreDrawn, InRoom, Queued
<1>18. CreatedIsUntouched'
  <2>1. ASSUME NEW d \in Clients, op'[d].kind = "created", NEW y, y = op'[d].room
        PROVE  /\ rooms'[y] = NewRoom(rooms'[y].mode, d) /\ rooms'[y].mode \in {"pvp", "ai"}
               /\ aiTasks[y] = 0
               /\ \A e \in Clients :
                    /\ member[e].room # y
                    /\ e # d => ~(op'[e].kind # "idle" /\ op'[e].room = y)
               /\ \A i \in Instances : \A k \in 1..Len(channel'[i]) : channel'[i][k].room # y
    <3>1. d # c /\ op'[d] = op[d] /\ y \in Codes \ {x} /\ rooms'[y] = rooms[y]
      BY <1>2, <1>7, <1>8, <1>11, <2>1, OpShape DEF Typed
    <3>2. /\ rooms[y] = NewRoom(rooms[y].mode, d) /\ rooms[y].mode \in {"pvp", "ai"}
          /\ aiTasks[y] = 0
          /\ \A e \in Clients : member[e].room # y /\ (e # d => ~Works(e, y))
          /\ \A i \in Instances : \A k \in Queued(i) : channel[i][k].room # y
      BY <2>1, <3>1 DEF RoomInvariant, CreatedIsUntouched
    <3>3. \A e \in Clients : e # d => ~(op'[e].kind # "idle" /\ op'[e].room = y)
      BY <1>8, <3>2 DEF Works
    <3>4. \A i \in Instances : \A k \in 1..Len(channel'[i]) : channel'[i][k].room # y
      BY <1>4, <1>9, <3>1, <3>2
    <3> QED
      BY <3>1, <3>2, <3>3, <3>4
  <2> QED
    BY <1>1, <2>1 DEF CreatedIsUntouched, Queued, Works
<1>19. SeatsAreOwned'
  <2>1. SeatOwner(rooms[x], 1) = c
    BY <1>1 DEF RoomInvariant, SeatsAreOwned, Seats, x
  <2>2. SeatOwner(r, 0) = SeatOwner(rooms[x], 0)
    BY <1>3 DEF SeatOwner
  <2>3. ASSUME NEW d \in Clients
        PROVE  /\ InRoom(d) /\ rooms'[member[d].room] # NoRoom
                    => SeatOwner(rooms'[member[d].room], member[d].seat) = d
               /\ op'[d].kind \in Commands \cup {"unbound"} /\ op'[d].seat \in Seats
                    /\ rooms'[op'[d].room] # NoRoom
                    => SeatOwner(rooms'[op'[d].room], op'[d].seat) = d
               /\ op'[d].kind = "joined" =>
                    /\ rooms'[op'[d].room] # NoRoom /\ rooms'[op'[d].room].guest = d
                    /\ ~rooms'[op'[d].room].started
    <3>1. InRoom(d) /\ rooms'[member[d].room] # NoRoom
            => SeatOwner(rooms'[member[d].room], member[d].seat) = d
      BY <1>1, <1>11, <1>14, <2>2 DEF RoomInvariant, SeatsAreOwned, Exists
    <3>2. op'[d].kind # "idle" => d # c /\ op'[d] = op[d] /\ op[d].room \in Codes
      BY <1>2, <1>8, OpShape DEF Typed
    <3>3. op'[d].kind \in Commands \cup {"unbound"} /\ op'[d].seat \in Seats
                    /\ rooms'[op'[d].room] # NoRoom
                    => SeatOwner(rooms'[op'[d].room], op'[d].seat) = d
      BY <1>1, <1>11, <2>1, <2>2, <3>2, KindsDiffer DEF RoomInvariant, SeatsAreOwned, Exists, Seats
    <3>4. op'[d].kind = "joined" =>
                    /\ rooms'[op'[d].room] # NoRoom /\ rooms'[op'[d].room].guest = d
                    /\ ~rooms'[op'[d].room].started
      BY <1>6, <1>11, <3>2 DEF RoomInvariant, SeatsAreOwned, Exists, Holding
    <3> QED
      BY <3>1, <3>3, <3>4
  <2> QED
    BY <1>1, <2>3 DEF SeatsAreOwned, InRoom, Exists
<1>20. MembershipFits'
  <2>1. \A d \in Clients : InRoom(d) <=> InRoom(d)'
    BY <1>1 DEF InRoom
  <2>2. \A d \in Clients : op'[d].kind # "idle" => op'[d] = op[d] /\ op[d].room \in Codes
    BY <1>2, <1>8, OpShape DEF Typed
  <2> QED
    BY <1>1, <1>12, <2>1, <2>2, KindsDiffer DEF RoomInvariant, MembershipFits, Entering
<1>21. SeatsAreSingle' /\ LocalIsMember'
  BY <1>1 DEF RoomInvariant, SeatsAreSingle, LocalIsMember, InRoom, Sits
<1>22. LeftIsEmpty'
  <2>1. ASSUME NEW d \in Clients, NEW e \in Clients, op'[d].kind = "unbound"
        PROVE  ~(member[e].room = op'[d].room /\ member[e].seat = op'[d].seat)
    BY <1>8, <2>1 DEF RoomInvariant, LeftIsEmpty, Sits
  <2>2. ASSUME NEW i \in Instances, NEW k \in 1..Len(channel'[i]), channel'[i][k].type = "leave"
        PROVE  /\ channel'[i][k].room \in Codes
               /\ Ending(channel'[i][k].room)
               /\ \A e \in Clients : ~(/\ member[e].room = channel'[i][k].room
                                       /\ member[e].seat = channel'[i][k].seat)
    <3>1. k \in Queued(i) /\ channel'[i][k] = channel[i][k]
      BY <1>4, <1>9, <2>2
    <3> QED
      BY <1>9, <2>2, <3>1 DEF RoomInvariant, LeftIsEmpty, Sits
  <2> QED
    BY <1>1, <1>12, <2>1, <2>2 DEF LeftIsEmpty, Sits, Queued, Ending, Exists, Closing
<1>23. EndIsTold'
  <2>1. ASSUME NEW d \in Clients, InRoom(d)', Ending(member[d].room)'
        PROVE  EndIsToldTo(d)'
    <3>1. Ending(member[d].room) /\ InRoom(d)
      BY <1>1, <1>12, <1>14, <2>1 DEF InRoom
    <3>2. PICK k \in Queued(Host[d]) :
            LET n == channel[Host[d]][k]
            IN  n.type = "leave" /\ n.room = member[d].room /\ n.seat # member[d].seat
      BY <3>1 DEF RoomInvariant, EndIsTold, EndIsToldTo
    <3>3. k \in 1..Len(channel'[Host[d]]) /\ channel'[Host[d]][k] = channel[Host[d]][k]
      BY <1>9, HostAssumption
    <3> QED
      BY <1>1, <3>1, <3>2, <3>3 DEF EndIsToldTo, Queued
  <2> QED
    BY <2>1 DEF EndIsTold
<1>24. GamesFit'
  <2>1. GameFits(rooms[x])
    BY <1>1, <1>2 DEF RoomInvariant, GamesFit
  <2>2. GameFits(r)
    BY <1>1, <1>3, <2>1 DEF GameFits
  <2> QED
    BY <1>11, <2>2 DEF RoomInvariant, GamesFit, Exists
<1>25. NewsIsTrue'
  <2>1. ASSUME NEW d \in Clients, NEW y \in Codes, y = member[d].room, InRoom(d),
               alive[d] = "up", Exists(y), ~Joining(y)
        PROVE  SeesAtLast(shown[d], channel'[Host[d]], y, Current(y)')
    <3>1. CASE y = x
      <4>1. /\ Host[d] \in Instances /\ m = ToRoom(y, Current(y)')
            /\ Len(channel[Host[d]]) \in Nat
            /\ Len(channel'[Host[d]]) = Len(channel[Host[d]]) + 1
            /\ \A k \in 1..Len(channel[Host[d]]) : channel'[Host[d]][k] = channel[Host[d]][k]
            /\ channel'[Host[d]][Len(channel[Host[d]]) + 1] = m
        <5>1. m = ToRoom(y, Current(y)')
          BY <1>3, <1>5, <1>11, <3>1 DEF Current
        <5> QED
          BY <1>1, <1>2, <1>4, <5>1, PublishAppends, HostAssumption DEF Queued
      <4> QED
        BY <4>1, SeesAppended
    <3>2. CASE y # x
      <4>1. ~IsNews(m, y) /\ Current(y)' = Current(y)
        BY <1>4, <1>11, <3>2 DEF IsNews, Current
      <4> QED
        BY <1>1, <1>4, <2>1, <4>1, NewsStays
    <3> QED
      BY <3>1, <3>2
  <2> QED
    BY <1>1, <1>12, <1>14, <2>1 DEF NewsIsTrue, InRoom, Exists, Joining, Current
<1> QED
  BY <1>15, <1>16, <1>17, <1>18, <1>19, <1>20, <1>21, <1>22, <1>23, <1>24, <1>25
  DEF RoomInvariant

\* AnnounceLeave: from here on the room is ending, and who still sits in it is told.
LEMMA AnnounceLeaveKeeps ==
    ASSUME RoomInvariant, NEW c \in Clients, AnnounceLeave(c)
    PROVE  RoomInvariant'
<1> DEFINE x == op[c].room
           seat == op[c].seat
           o == [kind |-> "closing", room |-> x]
           m == Left(x, seat)
<1>1. /\ op[c].kind = "unbound" /\ CanPublish /\ Publish(m)
      /\ op' = [op EXCEPT ![c] = o]
      /\ UNCHANGED <<rooms, lock, drawn, localRooms, member, alive, shown, aiTasks>>
  BY DEF AnnounceLeave, hub
<1>2. Typed /\ op[c] \in Ops /\ x \in Codes /\ seat \in Seats /\ x \in drawn
  BY <1>1, OpShape DEF RoomInvariant, Typed, NamesAreDrawn
<1>3. m \in Leaves /\ m.room = x /\ m.type = "leave" /\ m.seat = seat
  BY <1>2 DEF Leaves, Left
<1>4. o \in Ops /\ o.kind = "closing" /\ o.room = x
  BY <1>2 DEF Ops
<1>5. \A d \in Clients : ~Sits(d, x, seat)
  BY <1>1 DEF RoomInvariant, LeftIsEmpty
<1>6. \A d \in Clients : op[d].kind = "created" => op[d].room # x
  BY <1>1 DEF RoomInvariant, CreatedIsUntouched, Works
<1>7. lock[x] = c
  BY <1>1, <1>2 DEF RoomInvariant, LocksAreHeld, Holding
<1>8. ~InRoom(c)
  BY <1>1 DEF RoomInvariant, MembershipFits, Seatless, Holding
<1> HIDE DEF x, seat, o, m
<1>9. /\ op' \in [Clients -> Ops] /\ op'[c] = o
      /\ \A d \in Clients \ {c} : op'[d] = op[d]
  BY <1>1, <1>2, <1>4, OpMoves
<1>10. /\ channel' \in [Instances -> Seq(News \cup Leaves)]
       /\ \A i \in Instances :
            /\ Len(channel'[i]) <= MaxQueue
            /\ \A k \in Queued(i) : k \in 1..Len(channel'[i]) /\ channel'[i][k] = channel[i][k]
            /\ \A k \in 1..Len(channel'[i]) :
                  channel'[i][k] = m \/ (k \in Queued(i) /\ channel'[i][k] = channel[i][k])
            /\ \A k \in Queued(i) : channel[i][k].room \in Codes
  BY <1>1, <1>2, <1>3, QueuesGrow
<1>11. \A y : /\ Exists(y) <=> Exists(y)'
              /\ Ending(y) => Ending(y)'
              /\ y # x => (Ending(y) <=> Ending(y)')
              /\ y = x => Ending(y)'
              /\ Joining(y) <=> Joining(y)'
  <2>1. op[c].kind \notin {"closing", "joined"}
    BY <1>1
  <2>2. op'[c].kind = "closing" /\ op'[c].room = x
    BY <1>4, <1>9
  <2> QED
    BY <1>1, <1>9, <2>1, <2>2 DEF Exists, Closing, Joining, Ending
<1>12. Typed'
  BY <1>1, <1>2, <1>9, <1>10 DEF Typed
<1>13. LocksAreHeld'
  BY <1>1, <1>4, <1>9 DEF RoomInvariant, LocksAreHeld, Holding, x
<1>14. NamesAreDrawn'
  <2>1. \A i \in Instances : \A k \in 1..Len(channel'[i]) : channel'[i][k].room \in drawn
    BY <1>2, <1>3, <1>10 DEF RoomInvariant, NamesAreDrawn
  <2>2. \A d \in Clients : op'[d].kind # "idle" => op'[d].room \in drawn
    BY <1>2, <1>4, <1>9 DEF RoomInvariant, NamesAreDrawn
  <2> QED
    BY <1>1, <2>1, <2>2 DEF RoomInvariant, NamesAreDrawn, InRoom, Queued, Exists
<1>15. CreatedIsUntouched'
  <2>1. ASSUME NEW d \in Clients, op'[d].kind = "created", NEW y, y = op'[d].room
        PROVE  /\ rooms[y] = NewRoom(rooms[y].mode, d) /\ rooms[y].mode \in {"pvp", "ai"}
               /\ aiTasks[y] = 0
               /\ \A e \in Clients :
                    /\ member[e].room # y
                    /\ e # d => ~(op'[e].kind # "idle" /\ op'[e].room = y)
               /\ \A i \in Instances : \A k \in 1..Len(channel'[i]) : channel'[i][k].room # y
    <3>1. d # c /\ op'[d] = op[d] /\ y # x
      BY <1>4, <1>6, <1>9, <2>1
    <3>2. /\ rooms[y] = NewRoom(rooms[y].mode, d) /\ rooms[y].mode \in {"pvp", "ai"}
          /\ aiTasks[y] = 0
          /\ \A e \in Clients : member[e].room # y /\ (e # d => ~Works(e, y))
          /\ \A i \in Instances : \A k \in Queued(i) : channel[i][k].room # y
      BY <2>1, <3>1 DEF RoomInvariant, CreatedIsUntouched
    <3>3. \A e \in Clients : e # d => ~(op'[e].kind # "idle" /\ op'[e].room = y)
      BY <1>4, <1>9, <3>1, <3>2 DEF Works
    <3>4. \A i \in Instances : \A k \in 1..Len(channel'[i]) : channel'[i][k].room # y
      BY <1>3, <1>10, <3>1, <3>2
    <3> QED
      BY <3>2, <3>3, <3>4
  <2> QED
    BY <1>1, <2>1 DEF CreatedIsUntouched, Queued, Works
<1>16. SeatsAreOwned'
  BY <1>1, <1>4, <1>9, KindsDiffer
  DEF RoomInvariant, SeatsAreOwned, Exists, InRoom, Seatless, Holding
<1>17. MembershipFits'
  <2>1. ASSUME NEW d \in Clients
        PROVE  /\ op'[d].kind \in Seatless => ~InRoom(d)
               /\ op'[d].kind \in Entering /\ InRoom(d) => member[d].room = op'[d].room
               /\ op'[d].kind \in Entering /\ ~InRoom(d) => Ending(op'[d].room)
               /\ op'[d].kind \in Commands /\ op'[d].seat = NoSeat => Ending(op'[d].room)
    <3>1. CASE d = c
      BY <1>4, <1>8, <1>9, <3>1, KindsDiffer DEF Entering, Seatless, Holding
    <3>2. CASE d # c
      BY <1>9, <3>2 DEF RoomInvariant, MembershipFits
    <3> QED
      BY <3>1, <3>2
  <2>2. \A d \in Clients : InRoom(d) <=> InRoom(d)'
    BY <1>1 DEF InRoom
  <2> QED
    BY <1>1, <1>11, <2>1, <2>2 DEF MembershipFits, Ending, Exists, Closing
<1>18. SeatsAreSingle' /\ LocalIsMember'
  BY <1>1 DEF RoomInvariant, SeatsAreSingle, LocalIsMember, InRoom, Sits
<1>19. LeftIsEmpty'
  <2>1. ASSUME NEW d \in Clients, NEW e \in Clients, op'[d].kind = "unbound"
        PROVE  ~(member[e].room = op'[d].room /\ member[e].seat = op'[d].seat)
    BY <1>4, <1>9, <2>1 DEF RoomInvariant, LeftIsEmpty, Sits
  <2>2. ASSUME NEW i \in Instances, NEW k \in 1..Len(channel'[i]), channel'[i][k].type = "leave",
               NEW y, y = channel'[i][k].room
        PROVE  /\ Ending(y)'
               /\ \A e \in Clients : ~(/\ member[e].room = channel'[i][k].room
                                       /\ member[e].seat = channel'[i][k].seat)
    <3>1. CASE channel'[i][k] = m
      BY <1>3, <1>5, <1>11, <2>2, <3>1 DEF Sits
    <3>2. CASE k \in Queued(i) /\ channel'[i][k] = channel[i][k]
      BY <1>11, <2>2, <3>2 DEF RoomInvariant, LeftIsEmpty, Sits
    <3> QED
      BY <1>10, <3>1, <3>2
  <2> QED
    BY <1>1, <2>1, <2>2 DEF LeftIsEmpty, Sits, Queued, Ending, Exists, Closing
<1>20. EndIsTold'
  <2>1. ASSUME NEW d \in Clients, NEW y, y = member[d].room, InRoom(d), Ending(y)'
        PROVE  \E k \in 1..Len(channel'[Host[d]]) :
                  LET n == channel'[Host[d]][k]
                  IN  n.type = "leave" /\ n.room = member[d].room /\ n.seat # member[d].seat
    <3>1. CASE y = x
      <4>1. /\ Host[d] \in Instances
            /\ Len(channel[Host[d]]) \in Nat
            /\ Len(channel'[Host[d]]) = Len(channel[Host[d]]) + 1
            /\ channel'[Host[d]][Len(channel[Host[d]]) + 1] = m
        BY <1>1, <1>2, <1>3, PublishAppends, HostAssumption
      <4>2. Len(channel[Host[d]]) + 1 \in 1..Len(channel'[Host[d]])
        BY <4>1
      <4>3. m.type = "leave" /\ m.room = member[d].room /\ m.seat # member[d].seat
        BY <1>3, <1>5, <2>1, <3>1 DEF Sits
      <4> QED
        BY <4>1, <4>2, <4>3
    <3>2. CASE y # x
      <4>1. PICK k \in Queued(Host[d]) :
              LET n == channel[Host[d]][k]
              IN  n.type = "leave" /\ n.room = member[d].room /\ n.seat # member[d].seat
        BY <1>11, <2>1, <3>2 DEF RoomInvariant, EndIsTold, EndIsToldTo
      <4>2. k \in 1..Len(channel'[Host[d]]) /\ channel'[Host[d]][k] = channel[Host[d]][k]
        BY <1>10, HostAssumption
      <4> QED
        BY <4>1, <4>2
    <3> QED
      BY <3>1, <3>2
  <2> QED
    BY <1>1, <2>1 DEF EndIsTold, EndIsToldTo, InRoom, Queued, Ending, Exists, Closing
<1>21. GamesFit'
  BY <1>1 DEF RoomInvariant, GamesFit, Exists
<1>22. NewsIsTrue'
  <2>1. ASSUME NEW d \in Clients, InRoom(d), alive[d] = "up", Exists(member[d].room),
               ~Joining(member[d].room)
        PROVE  SeesAtLast(shown[d], channel'[Host[d]], member[d].room, Current(member[d].room))
    <3>1. ~IsNews(m, member[d].room)
      BY <1>3 DEF IsNews
    <3> QED
      BY <1>1, <1>3, <2>1, <3>1, NewsStays
  <2> QED
    BY <1>1, <1>11, <2>1 DEF NewsIsTrue, InRoom, Exists, Joining, Current
<1> QED
  BY <1>12, <1>13, <1>14, <1>15, <1>16, <1>17, <1>18, <1>19, <1>20, <1>21, <1>22
  DEF RoomInvariant

\* CloseRoom: the room was ending already.
LEMMA CloseRoomKeeps ==
    ASSUME RoomInvariant, NEW c \in Clients, CloseRoom(c)
    PROVE  RoomInvariant'
<1> DEFINE x == op[c].room
<1>1. /\ op[c].kind = "closing"
      /\ rooms' = [rooms EXCEPT ![x] = NoRoom]
      /\ lock' = [lock EXCEPT ![x] = Nobody]
      /\ op' = [op EXCEPT ![c] = Idle]
      /\ UNCHANGED <<drawn, channel, localRooms, member, alive, shown, aiTasks>>
  BY DEF CloseRoom, Return, hub
<1>2. Typed /\ op[c] \in Ops /\ x \in Codes /\ Ending(x)
  BY <1>1, OpShape DEF RoomInvariant, Typed, Ending, Closing
<1>3. lock[x] = c /\ \A d \in Clients \ {c} : op[d].kind \in Holding => op[d].room # x
  BY <1>1, <1>2 DEF RoomInvariant, LocksAreHeld, Holding
<1>4. \A d \in Clients : op[d].kind = "created" => op[d].room # x
  BY <1>1 DEF RoomInvariant, CreatedIsUntouched, Works
<1>5. x = op[c].room
  OBVIOUS
<1> HIDE DEF x
<1>6. /\ op' \in [Clients -> Ops] /\ op'[c] = Idle /\ Idle.kind = "idle"
      /\ \A d \in Clients \ {c} : op'[d] = op[d]
  BY <1>1, <1>2, OpMoves DEF Ops, Idle
<1>7. /\ lock'[x] = Nobody /\ \A y \in Codes \ {x} : lock'[y] = lock[y]
      /\ lock' \in [Codes -> Clients \cup {Nobody}]
  BY <1>1, <1>2 DEF Typed
<1>8. /\ rooms'[x] = NoRoom /\ \A y \in Codes \ {x} : rooms'[y] = rooms[y]
      /\ rooms' \in [Codes -> RoomRecords \cup {NoRoom}]
  BY <1>1, <1>2 DEF Typed
<1>9. \A y \in Codes : /\ Exists(y)' <=> y # x /\ Exists(y)
                       /\ Ending(y) <=> Ending(y)'
                       /\ Joining(y) <=> Joining(y)'
  <2>1. \A y \in Codes : Exists(y)' <=> y # x /\ Exists(y)
    BY <1>8 DEF Exists
  <2>2. \A y \in Codes \ {x} : Closing(y)' <=> Closing(y)
    BY <1>5, <1>6 DEF Closing
  <2>3. \A y \in Codes : Joining(y) <=> Joining(y)'
    BY <1>1, <1>6 DEF Joining
  <2> QED
    BY <1>2, <2>1, <2>2, <2>3 DEF Ending
<1>10. \A i \in Instances : \A k \in Queued(i) : channel[i][k].room \in Codes
  BY <1>2, MessageShape DEF Typed, Queued
<1>11. \A d \in Clients : InRoom(d) => member[d].room \in Codes
  BY <1>2, MemberShape
<1>12. \A d \in Clients : op'[d].kind # "idle" => d # c /\ op'[d] = op[d] /\ op[d].room \in Codes
  BY <1>2, <1>6, OpShape DEF Typed
<1>13. Typed'
  BY <1>1, <1>2, <1>6, <1>7, <1>8 DEF Typed
<1>14. LocksAreHeld'
  <2>1. ASSUME NEW y \in Codes, NEW d \in Clients
        PROVE  lock'[y] = d <=> op'[d].kind \in Holding /\ op'[d].room = y
    <3>1. CASE y = x
      BY <1>3, <1>6, <1>7, <3>1, NobodyAssumption DEF Holding
    <3>2. CASE y # x
      BY <1>5, <1>6, <1>7, <3>2 DEF RoomInvariant, LocksAreHeld, Holding
    <3> QED
      BY <3>1, <3>2
  <2> QED
    BY <2>1 DEF LocksAreHeld
<1>15. NamesAreDrawn'
  BY <1>1, <1>9, <1>12 DEF RoomInvariant, NamesAreDrawn, InRoom, Queued
<1>16. CreatedIsUntouched'
  BY <1>1, <1>4, <1>8, <1>12 DEF RoomInvariant, CreatedIsUntouched, Works, Queued
<1>17. SeatsAreOwned'
  <2>1. ASSUME NEW d \in Clients
        PROVE  /\ InRoom(d) /\ rooms'[member[d].room] # NoRoom
                    => SeatOwner(rooms'[member[d].room], member[d].seat) = d
               /\ op'[d].kind \in Commands \cup {"unbound"} /\ op'[d].seat \in Seats
                    /\ rooms'[op'[d].room] # NoRoom
                    => SeatOwner(rooms'[op'[d].room], op'[d].seat) = d
               /\ op'[d].kind = "joined" =>
                    /\ rooms'[op'[d].room] # NoRoom /\ rooms'[op'[d].room].guest = d
                    /\ ~rooms'[op'[d].room].started
    <3>1. InRoom(d) /\ rooms'[member[d].room] # NoRoom
            => SeatOwner(rooms'[member[d].room], member[d].seat) = d
      BY <1>8, <1>11 DEF RoomInvariant, SeatsAreOwned, Exists
    <3>2. op'[d].kind \in Commands \cup {"unbound"} /\ op'[d].seat \in Seats
                    /\ rooms'[op'[d].room] # NoRoom
                    => SeatOwner(rooms'[op'[d].room], op'[d].seat) = d
      BY <1>8, <1>12, KindsDiffer DEF RoomInvariant, SeatsAreOwned, Exists
    <3>3. op'[d].kind = "joined" =>
                    /\ rooms'[op'[d].room] # NoRoom /\ rooms'[op'[d].room].guest = d
                    /\ ~rooms'[op'[d].room].started
      BY <1>3, <1>8, <1>12 DEF RoomInvariant, SeatsAreOwned, Exists, Holding
    <3> QED
      BY <3>1, <3>2, <3>3
  <2> QED
    BY <1>1, <2>1 DEF SeatsAreOwned, InRoom, Exists
<1>18. MembershipFits'
  <2>1. \A d \in Clients : InRoom(d) <=> InRoom(d)'
    BY <1>1 DEF InRoom
  <2> QED
    BY <1>1, <1>9, <1>12, <2>1, KindsDiffer DEF RoomInvariant, MembershipFits, Entering
<1>19. SeatsAreSingle' /\ LocalIsMember'
  BY <1>1 DEF RoomInvariant, SeatsAreSingle, LocalIsMember, InRoom, Sits
<1>20. LeftIsEmpty'
  BY <1>1, <1>9, <1>10, <1>12 DEF RoomInvariant, LeftIsEmpty, Sits, Queued
<1>21. EndIsTold'
  BY <1>1, <1>9, <1>11 DEF RoomInvariant, EndIsTold, EndIsToldTo, InRoom, Queued
<1>22. GamesFit'
  BY <1>8 DEF RoomInvariant, GamesFit, Exists
<1>23. NewsIsTrue'
  BY <1>1, <1>8, <1>9, <1>11 DEF RoomInvariant, NewsIsTrue, InRoom, Current
<1> QED
  BY <1>13, <1>14, <1>15, <1>16, <1>17, <1>18, <1>19, <1>20, <1>21, <1>22, <1>23
  DEF RoomInvariant

-----------------------------------------------------------------------------
(* The subscriber. *)

\* A message of the queue that is not its first is still in it, one place further on.
LEMMA QueueMovesUp ==
    ASSUME RoomInvariant, NEW i \in Instances, channel[i] # <<>>,
           channel' = [channel EXCEPT ![i] = Tail(@)], NEW j \in Instances
    PROVE  /\ \A k \in 1..Len(channel'[j]) :
                 \E h \in Queued(j) : channel'[j][k] = channel[j][h]
           /\ \A h \in Queued(j) :
                 \/ j = i /\ channel[j][h] = Head(channel[i])
                 \/ \E k \in 1..Len(channel'[j]) : channel'[j][k] = channel[j][h]
<1>1. /\ Head(channel[i]) = channel[i][1]
      /\ Len(channel[i]) \in Nat \ {0} /\ Len(channel'[i]) = Len(channel[i]) - 1
      /\ \A k \in 1..Len(channel'[i]) :
            k + 1 \in Queued(i) /\ channel'[i][k] = channel[i][k + 1]
      /\ \A l \in Instances \ {i} : channel'[l] = channel[l]
  BY DispatchTakes DEF RoomInvariant
<1>2. CASE j # i
  BY <1>1, <1>2 DEF Queued
<1>3. CASE j = i
  <2>1. ASSUME NEW h \in Queued(i), h # 1
        PROVE  \E k \in 1..Len(channel'[i]) : channel'[i][k] = channel[i][h]
    <3>1. h - 1 \in 1..Len(channel'[i]) /\ (h - 1) + 1 = h
      BY <1>1, <2>1 DEF Queued
    <3> QED
      BY <1>1, <3>1
  <2>2. \A k \in 1..Len(channel'[i]) : \E h \in Queued(i) : channel'[i][k] = channel[i][h]
    BY <1>1
  <2>3. ASSUME NEW h \in Queued(i)
        PROVE  \/ channel[i][h] = Head(channel[i])
               \/ \E k \in 1..Len(channel'[i]) : channel'[i][k] = channel[i][h]
    <3>1. CASE h = 1
      BY <1>1, <3>1
    <3>2. CASE h # 1
      BY <2>1, <3>2
    <3> QED
      BY <3>1, <3>2
  <2>4. \A h \in Queued(j) : \/ j = i /\ channel[j][h] = Head(channel[i])
                            \/ \E k \in 1..Len(channel'[j]) : channel'[j][k] = channel[j][h]
    BY <1>3, <2>3
  <2>5. \A k \in 1..Len(channel'[j]) : \E h \in Queued(j) : channel'[j][k] = channel[j][h]
    BY <1>3, <2>2 DEF Queued
  <2> QED
    BY <2>4, <2>5
<1> QED
  BY <1>2, <1>3

\* Dispatch: what is taken from the queue of an instance reaches those it delivers to.
LEMMA DispatchKeeps ==
    ASSUME RoomInvariant, NEW i \in Instances, Dispatch(i)
    PROVE  RoomInvariant'
<1> DEFINE m == Head(channel[i])
           sentOut(d) == m.type = "leave" /\ Host[d] = i /\ member[d].room = m.room
           reached(d) == m.type = "room" /\ Host[d] = i /\ member[d].room = m.room
<1>1. /\ channel[i] # <<>> /\ channel' = [channel EXCEPT ![i] = Tail(@)] /\ Typed
      /\ UNCHANGED <<rooms, lock, drawn, alive, op, aiTasks>>
  BY DEF Dispatch, RoomInvariant
<1>2. /\ channel' \in [Instances -> Seq(News \cup Leaves)]
      /\ m \in News \cup Leaves /\ 1 \in Queued(i) /\ m = channel[i][1]
      /\ Len(channel[i]) \in Nat \ {0} /\ Len(channel'[i]) = Len(channel[i]) - 1
      /\ \A k \in 1..Len(channel'[i]) :
            k + 1 \in Queued(i) /\ channel'[i][k] = channel[i][k + 1]
      /\ \A j \in Instances \ {i} : channel'[j] = channel[j]
  BY <1>1, DispatchTakes
<1>3. /\ m.room \in Codes /\ m.type \in {"room", "leave"} /\ m.room # NoCode
      /\ m.type = "room" => m.screen \in Screens
      /\ m.type = "leave" => m.seat \in Seats
  BY <1>2, MessageShape, NobodyAssumption
<1> HIDE DEF m
<1>4. m.type = "leave" => /\ Ending(m.room)
                          /\ \A d \in Clients : ~Sits(d, m.room, m.seat)
  BY <1>2 DEF RoomInvariant, LeftIsEmpty
<1>5. \A j \in Instances, d \in Clients, y \in Codes, s \in Seats :
         <<y, s, d>> \in localRooms[j] <=> j = Host[d] /\ Sits(d, y, s)
  BY DEF RoomInvariant, LocalIsMember
<1>6. \A b \in localRooms[i] : /\ b = <<b[1], b[2], b[3]>>
                               /\ b[1] \in Codes /\ b[2] \in Seats /\ b[3] \in Clients
  BY <1>1 DEF Typed
<1>7. \A d \in Clients : member[d].room = m.room => InRoom(d) /\ member[d].seat \in Seats
  BY <1>1, <1>3, MemberShape DEF InRoom
<1>8. \A d \in Clients : (\E b \in localRooms[i] : b[1] = m.room /\ b[3] = d)
                            <=> Host[d] = i /\ member[d].room = m.room
  <2>1. ASSUME NEW b \in localRooms[i], b[1] = m.room
        PROVE  Host[b[3]] = i /\ member[b[3]].room = m.room
    BY <1>5, <1>6, <2>1 DEF Sits
  <2>2. ASSUME NEW d \in Clients, Host[d] = i, member[d].room = m.room
        PROVE  <<m.room, member[d].seat, d>> \in localRooms[i]
    BY <1>3, <1>5, <1>7, <2>2 DEF Sits
  <2> QED
    BY <2>1, <2>2
<1>9. /\ member' \in [Clients -> [room : Codes, seat : Seats] \cup {NoMember}]
      /\ localRooms' \in [Instances -> SUBSET (Codes \X Seats \X Clients)]
      /\ shown' \in [Clients -> Screens]
      /\ \A d \in Clients : member'[d] = IF sentOut(d) THEN NoMember ELSE member[d]
      /\ \A d \in Clients : ~sentOut(d) /\ alive[d] = "up" =>
            shown'[d] = IF reached(d) THEN m.screen ELSE shown[d]
      /\ \A j \in Instances, d \in Clients, y \in Codes, s \in Seats :
            <<y, s, d>> \in localRooms'[j]
              <=> <<y, s, d>> \in localRooms[j] /\ ~(m.type = "leave" /\ j = i /\ y = m.room)
  <2>1. CASE m.type = "room"
    <3>1. Deliver(i, m)
      BY <2>1 DEF Dispatch, m
    <3> DEFINE told == {b[3] : b \in {d \in localRooms[i] : d[1] = m.room}}
    <3>2. /\ member' = member /\ localRooms' = localRooms
          /\ shown' = [d \in Clients |-> IF d \in told /\ alive[d] = "up"
                                         THEN m.screen ELSE shown[d]]
      BY <3>1 DEF Deliver, Show
    <3>3. \A d \in Clients : d \in told <=> reached(d)
      BY <1>8, <2>1
    <3> HIDE DEF told
    <3>4. /\ member' \in [Clients -> [room : Codes, seat : Seats] \cup {NoMember}]
          /\ localRooms' \in [Instances -> SUBSET (Codes \X Seats \X Clients)]
          /\ \A d \in Clients : member'[d] = member[d]
      BY <1>1, <3>2 DEF Typed
    <3>5. shown' \in [Clients -> Screens]
      BY <1>1, <1>3, <2>1, <3>2 DEF Typed
    <3> QED
      BY <2>1, <3>2, <3>3, <3>4, <3>5
  <2>2. CASE m.type = "leave"
    <3>1. Evict(i, m)
      BY <2>2 DEF Dispatch, m
    <3> DEFINE here == {b \in localRooms[i] : b[1] = m.room}
               rest == {b[3] : b \in {d \in here : d[2] # m.seat}}
    <3>2. /\ localRooms' = [localRooms EXCEPT ![i] = @ \ here]
          /\ member' = [d \in Clients |-> IF d \in rest THEN NoMember ELSE member[d]]
          /\ shown' = [d \in Clients |-> IF d \in rest /\ alive[d] = "up"
                                         THEN Menu ELSE shown[d]]
      BY <3>1 DEF Evict, Show
    <3>3. \A b \in here : b[2] # m.seat
      BY <1>3, <1>4, <1>5, <1>6, <2>2 DEF Sits
    <3>4. \A d \in Clients : d \in rest <=> sentOut(d)
      BY <1>8, <2>2, <3>3
    <3>5. \A b \in localRooms[i] : b \in here <=> b[1] = m.room
      OBVIOUS
    <3> HIDE DEF here, rest
    <3>6. /\ member' \in [Clients -> [room : Codes, seat : Seats] \cup {NoMember}]
          /\ \A d \in Clients : member'[d] = IF sentOut(d) THEN NoMember ELSE member[d]
      BY <1>1, <3>2, <3>4 DEF Typed
    <3>7. /\ shown' \in [Clients -> Screens]
          /\ \A d \in Clients : ~sentOut(d) => shown'[d] = shown[d]
      BY <1>1, <3>2, <3>4 DEF Typed, Screens
    <3>8. /\ localRooms' \in [Instances -> SUBSET (Codes \X Seats \X Clients)]
          /\ \A j \in Instances, d \in Clients, y \in Codes, s \in Seats :
                <<y, s, d>> \in localRooms'[j]
                  <=> <<y, s, d>> \in localRooms[j] /\ ~(j = i /\ y = m.room)
      BY <1>1, <3>2, <3>5 DEF Typed
    <3> QED
      BY <2>2, <3>6, <3>7, <3>8
  <2> QED
    BY <1>3, <2>1, <2>2
<1>10. \A d \in Clients : member'[d].room # NoCode =>
          ~sentOut(d) /\ InRoom(d) /\ member'[d] = member[d] /\ member[d].room \in Codes
  BY <1>1, <1>9, MemberShape DEF InRoom, NoMember
<1>11. \A j \in Instances :
          /\ \A k \in 1..Len(channel'[j]) : \E h \in Queued(j) : channel'[j][k] = channel[j][h]
          /\ \A h \in Queued(j) :
                \/ j = i /\ channel[j][h] = m
                \/ \E k \in 1..Len(channel'[j]) : channel'[j][k] = channel[j][h]
  BY <1>1, QueueMovesUp DEF m
<1>12. \A j \in Instances : \A k \in Queued(j) : channel[j][k].room \in Codes
  BY <1>1, MessageShape DEF Typed, Queued
<1>13. Typed'
  <2>1. \A j \in Instances : Len(channel'[j]) <= MaxQueue
    BY <1>1, <1>2, BoundsAssumption DEF Typed
  <2> QED
    BY <1>1, <1>2, <1>9, <2>1 DEF Typed
<1>14. LocksAreHeld'
  BY <1>1 DEF RoomInvariant, LocksAreHeld
<1>15. NamesAreDrawn'
  <2>1. \A j \in Instances : \A k \in 1..Len(channel'[j]) : channel'[j][k].room \in drawn
    BY <1>11 DEF RoomInvariant, NamesAreDrawn
  <2>2. \A d \in Clients : member'[d].room # NoCode => member'[d].room \in drawn
    BY <1>10 DEF RoomInvariant, NamesAreDrawn
  <2> QED
    BY <1>1, <2>1, <2>2 DEF RoomInvariant, NamesAreDrawn, InRoom, Queued, Exists
<1>16. CreatedIsUntouched'
  <2>1. ASSUME NEW d \in Clients, op[d].kind = "created", NEW y, y = op[d].room
        PROVE  /\ \A e \in Clients : member'[e].room # y
               /\ \A j \in Instances : \A k \in 1..Len(channel'[j]) : channel'[j][k].room # y
    <3>1. /\ \A e \in Clients : member[e].room # y
          /\ \A j \in Instances : \A k \in Queued(j) : channel[j][k].room # y
      BY <2>1 DEF RoomInvariant, CreatedIsUntouched
    <3>2. y # NoCode
      BY <1>1, <2>1, OpShape, NobodyAssumption DEF Typed
    <3> QED
      BY <1>10, <1>11, <3>1, <3>2
  <2> QED
    BY <1>1, <2>1 DEF RoomInvariant, CreatedIsUntouched, Queued, Works
<1>17. SeatsAreOwned'
  BY <1>1, <1>10 DEF RoomInvariant, SeatsAreOwned, InRoom, Exists
<1>18. MembershipFits'
  <2>1. ASSUME NEW d \in Clients
        PROVE  /\ op[d].kind \in Seatless => member'[d].room = NoCode
               /\ op[d].kind \in Entering => IF member'[d].room # NoCode
                                             THEN member'[d].room = op[d].room
                                             ELSE Ending(op[d].room)
    <3>1. CASE sentOut(d)
      <4>1. InRoom(d) /\ member'[d].room = NoCode /\ Ending(member[d].room)
        BY <1>4, <1>7, <1>9, <3>1 DEF NoMember
      <4> QED
        BY <4>1 DEF RoomInvariant, MembershipFits
    <3>2. CASE ~sentOut(d)
      <4>1. member'[d] = member[d]
        BY <1>9, <3>2
      <4> QED
        BY <4>1 DEF RoomInvariant, MembershipFits, InRoom
    <3> QED
      BY <3>1, <3>2
  <2> QED
    BY <1>1, <2>1 DEF RoomInvariant, MembershipFits, InRoom, Ending, Exists, Closing
<1>19. SeatsAreSingle'
  <2>1. ASSUME NEW d \in Clients, NEW e \in Clients, member'[d].room # NoCode,
               member'[e].room = member'[d].room, member'[e].seat = member'[d].seat
        PROVE  d = e
    BY <1>10, <2>1 DEF RoomInvariant, SeatsAreSingle, Sits
  <2> QED
    BY <2>1 DEF SeatsAreSingle, InRoom, Sits
<1>20. LocalIsMember'
  <2>1. ASSUME NEW d \in Clients, NEW j \in Instances, NEW y \in Codes, NEW s \in Seats
        PROVE  <<y, s, d>> \in localRooms'[j]
                 <=> j = Host[d] /\ member'[d].room = y /\ member'[d].seat = s
    <3>1. y # NoCode /\ NoMember.room = NoCode
      BY NobodyAssumption DEF NoMember
    <3>2. CASE sentOut(d)
      <4>1. member'[d] = NoMember
        BY <1>9, <3>2
      <4>2. <<y, s, d>> \notin localRooms'[j]
        BY <1>5, <1>9, <3>2 DEF Sits
      <4> QED
        BY <3>1, <4>1, <4>2
    <3>3. CASE ~sentOut(d)
      <4>1. member'[d] = member[d]
        BY <1>9, <3>3
      <4> QED
        BY <1>5, <1>9, <3>3, <4>1 DEF Sits
    <3> QED
      BY <3>2, <3>3
  <2> QED
    BY <1>1, <2>1 DEF LocalIsMember, Sits
<1>21. LeftIsEmpty'
  <2>1. ASSUME NEW d \in Clients, NEW e \in Clients, op[d].kind = "unbound"
        PROVE  ~(member'[e].room = op[d].room /\ member'[e].seat = op[d].seat)
    <3>1. op[d].room # NoCode
      BY <1>1, <2>1, OpShape, NobodyAssumption DEF Typed
    <3> QED
      BY <1>10, <2>1, <3>1 DEF RoomInvariant, LeftIsEmpty, Sits
  <2>2. ASSUME NEW j \in Instances, NEW k \in 1..Len(channel'[j]), channel'[j][k].type = "leave"
        PROVE  /\ Ending(channel'[j][k].room)
               /\ \A e \in Clients : ~(/\ member'[e].room = channel'[j][k].room
                                       /\ member'[e].seat = channel'[j][k].seat)
    <3>1. PICK h \in Queued(j) : channel'[j][k] = channel[j][h]
      BY <1>11
    <3>2. /\ Ending(channel[j][h].room) /\ channel[j][h].room # NoCode
          /\ \A e \in Clients : ~Sits(e, channel[j][h].room, channel[j][h].seat)
      BY <1>12, <2>2, <3>1, NobodyAssumption DEF RoomInvariant, LeftIsEmpty
    <3> QED
      BY <1>10, <3>1, <3>2 DEF Sits
  <2> QED
    BY <1>1, <2>1, <2>2, ZenonT(60) DEF LeftIsEmpty, Sits, Queued, Ending, Exists, Closing
<1>22. EndIsTold'
  <2>1. ASSUME NEW d \in Clients, member'[d].room # NoCode, Ending(member'[d].room)
        PROVE  \E k \in 1..Len(channel'[Host[d]]) :
                  LET n == channel'[Host[d]][k]
                  IN  n.type = "leave" /\ n.room = member'[d].room /\ n.seat # member'[d].seat
    <3>1. ~sentOut(d) /\ InRoom(d) /\ member'[d] = member[d] /\ Ending(member[d].room)
      BY <1>10, <2>1
    <3>2. PICK h \in Queued(Host[d]) :
            LET n == channel[Host[d]][h]
            IN  n.type = "leave" /\ n.room = member[d].room /\ n.seat # member[d].seat
      BY <3>1 DEF RoomInvariant, EndIsTold, EndIsToldTo
    <3>3. ~(Host[d] = i /\ channel[Host[d]][h] = m)
      BY <3>1, <3>2
    <3>4. PICK k \in 1..Len(channel'[Host[d]]) : channel'[Host[d]][k] = channel[Host[d]][h]
      BY <1>11, <3>3, HostAssumption
    <3> QED
      BY <3>1, <3>2, <3>4
  <2> QED
    BY <1>1, <2>1 DEF EndIsTold, EndIsToldTo, InRoom, Queued, Ending, Exists, Closing
<1>23. GamesFit'
  BY <1>1 DEF RoomInvariant, GamesFit, Exists
<1>24. NewsIsTrue'
  <2>1. ASSUME NEW d \in Clients, NEW y, y = member'[d].room, y # NoCode, alive[d] = "up",
               Exists(y), ~Joining(y)
        PROVE  SeesAtLast(shown'[d], channel'[Host[d]], y, Current(y))
    <3>1. ~sentOut(d) /\ InRoom(d) /\ y = member[d].room
      BY <1>10, <2>1
    <3>2. SeesAtLast(shown[d], channel[Host[d]], y, Current(y))
      BY <2>1, <3>1 DEF RoomInvariant, NewsIsTrue
    <3>3. shown'[d] = IF reached(d) THEN m.screen ELSE shown[d]
      BY <1>9, <2>1, <3>1
    <3>4. CASE Host[d] # i
      <4>1. channel'[Host[d]] = channel[Host[d]]
        BY <1>2, <3>4, HostAssumption
      <4> QED
        BY <3>2, <3>3, <3>4, <4>1
    <3>5. CASE Host[d] = i
      <4>1. shown'[d] = IF IsNews(channel[i][1], y) THEN channel[i][1].screen ELSE shown[d]
        BY <1>2, <3>1, <3>3, <3>5 DEF IsNews
      <4>2. /\ Len(channel[i]) \in Nat \ {0} /\ Len(channel'[i]) = Len(channel[i]) - 1
            /\ \A k \in 1..Len(channel'[i]) : channel'[i][k] = channel[i][k + 1]
            /\ SeesAtLast(shown[d], channel[i], y, Current(y))
        BY <1>2, <3>2, <3>5
      <4>3. SeesAtLast(IF IsNews(channel[i][1], y) THEN channel[i][1].screen ELSE shown[d],
                       channel'[i], y, Current(y))
        BY <4>2, SeesTaken
      <4> QED
        BY <3>5, <4>1, <4>3
    <3> QED
      BY <3>4, <3>5
  <2> QED
    BY <1>1, <2>1 DEF NewsIsTrue, InRoom, Exists, Joining, Current
<1> QED
  BY <1>13, <1>14, <1>15, <1>16, <1>17, <1>18, <1>19, <1>20, <1>21, <1>22, <1>23, <1>24
  DEF RoomInvariant

-----------------------------------------------------------------------------
(* The invariant holds. *)

\* Nobody is anywhere.
LEMMA RoomInit == Init => RoomInvariant
<1> SUFFICES ASSUME Init
             PROVE  RoomInvariant
  OBVIOUS
<1>1. /\ \A x \in Codes : rooms[x] = NoRoom /\ lock[x] = Nobody /\ aiTasks[x] = 0
      /\ \A i \in Instances : channel[i] = <<>> /\ localRooms[i] = {} /\ Len(channel[i]) = 0
      /\ \A c \in Clients :
            /\ member[c] = NoMember /\ member[c].room = NoCode
            /\ alive[c] = "up" /\ op[c] = Idle /\ op[c].kind = "idle" /\ shown[c] = Menu
  BY DEF Init, NoMember, Idle
<1>2. \A i \in Instances : Queued(i) = {}
  BY <1>1 DEF Queued
<1>3. Typed
  <2>1. <<>> \in Seq(News \cup Leaves)
    OBVIOUS
  <2>2. channel \in [Instances -> Seq(News \cup Leaves)]
    BY <2>1 DEF Init
  <2>3. Idle \in Ops /\ Menu \in Screens /\ NoMember \in {NoMember}
    BY DEF Ops, Screens
  <2>4. MaxQueue \in Nat /\ 0 \in 0..MaxTasks
    BY BoundsAssumption
  <2> QED
    BY <1>1, <2>2, <2>3, <2>4 DEF Init, Typed
<1>4. LocksAreHeld /\ NamesAreDrawn /\ CreatedIsUntouched /\ SeatsAreOwned
  BY <1>1, <1>2, NobodyAssumption, KindsDiffer
  DEF LocksAreHeld, NamesAreDrawn, CreatedIsUntouched, SeatsAreOwned, Exists, InRoom, Holding
<1>5. MembershipFits /\ SeatsAreSingle /\ LeftIsEmpty /\ EndIsTold
  BY <1>1, <1>2, KindsDiffer
  DEF MembershipFits, SeatsAreSingle, LeftIsEmpty, EndIsTold, InRoom, Entering
<1>6. LocalIsMember
  BY <1>1, NobodyAssumption DEF LocalIsMember, Sits
<1>7. GamesFit /\ NewsIsTrue
  BY <1>1 DEF GamesFit, NewsIsTrue, Exists, InRoom
<1> QED
  BY <1>3, <1>4, <1>5, <1>6, <1>7 DEF RoomInvariant

\* Every step of every handler, task, subscriber and connection.
LEMMA RoomStep == RoomInvariant /\ [Next]_vars => RoomInvariant'
<1> SUFFICES ASSUME RoomInvariant, [Next]_vars
             PROVE  RoomInvariant'
  OBVIOUS
<1>1. ASSUME NEW c \in Clients, NEW x \in Codes, NEW mode \in Modes, CreateRoom(c, mode, x)
      PROVE  RoomInvariant'
  BY <1>1, CreateRoomKeeps
<1>2. ASSUME NEW c \in Clients, NEW x \in Codes, JoinSeat1(c, x)
      PROVE  RoomInvariant'
  BY <1>2, JoinSeat1Keeps
<1>3. ASSUME NEW c \in Clients, NEW kind \in Commands, Begin(c, kind)
      PROVE  RoomInvariant'
  BY <1>3, BeginKeeps
<1>4. ASSUME NEW c \in Clients, BeginLeave(c) \/ Disconnect(c) \/ Cancel(c)
      PROVE  RoomInvariant'
  BY <1>4, BeginLeaveKeeps, ConnectionEndKeeps
<1>5. ASSUME NEW c \in Clients, Handler(c)
      PROVE  RoomInvariant'
  <2>1. \A kind \in {"ready", "unready", "start", "move", "resign", "rematch"} :
          op[c].kind = kind => kind \in Commands
    <3>1. op[c] \in Ops
      BY DEF RoomInvariant, Typed
    <3> QED
      BY <3>1 DEF Ops, Idle
  <2>2. CASE EnterCreated(c) \/ EnterJoined(c)
    BY <2>2, EnterCreatedKeeps, EnterJoinedKeeps
  <2>3. CASE ReadSeat(c) \/ Refuse(c) \/ GiveUp(c)
    BY <2>3, ReadSeatKeeps, EndKeeps
  <2>4. ASSUME NEW kind \in {"ready", "unready"}, SetReady(c, kind)
        PROVE  RoomInvariant'
    <3>1. op[c].kind = kind
      BY <2>4 DEF SetReady, Locked
    <3> QED
      BY <2>1, <2>4, <3>1, SetReadyKeeps
  <2>5. CASE StartGame(c)
    BY <2>1, <2>5, StartGameKeeps DEF StartGame, Locked
  <2>6. CASE PlayerMove(c)
    BY <2>1, <2>6, PlayerMoveKeeps DEF PlayerMove, Locked
  <2>7. CASE Resign(c)
    BY <2>1, <2>7, ResignKeeps DEF Resign, Locked
  <2>8. CASE Rematch(c)
    BY <2>1, <2>8, RematchKeeps DEF Rematch, Locked
  <2>9. CASE Unbind(c) \/ ReleaseSeat(c) \/ AnnounceLeave(c) \/ CloseRoom(c)
    BY <2>9, UnbindKeeps, ReleaseSeatKeeps, AnnounceLeaveKeeps, CloseRoomKeeps
  <2> QED
    BY <1>5, <2>2, <2>3, <2>4, <2>5, <2>6, <2>7, <2>8, <2>9 DEF Handler
<1>6. ASSUME NEW x \in Codes, Ai(x)
      PROVE  RoomInvariant'
  BY <1>6, AiMoveKeeps, AiGivesUpKeeps DEF Ai
<1>7. ASSUME NEW i \in Instances, Dispatch(i)
      PROVE  RoomInvariant'
  BY <1>7, DispatchKeeps
<1>8. CASE UNCHANGED vars
  <2>1. UNCHANGED <<rooms, lock, drawn, channel, localRooms, member, alive, op, shown, aiTasks>>
    BY <1>8 DEF vars, redis, hub
  <2>2. /\ aiTasks' \in [Codes -> 0..MaxTasks]
        /\ alive' \in [Clients -> {"up", "cancelled", "gone"}]
        /\ \A y \in Codes : aiTasks'[y] <= aiTasks[y]
    BY <2>1, BoundsAssumption DEF RoomInvariant, Typed
  <2> QED
    BY <2>1, <2>2, TasksEndKeeps
<1> QED
  BY <1>1, <1>2, <1>3, <1>4, <1>5, <1>6, <1>7, <1>8 DEF Next

\* The four books about who sits where agree, and what is on its way sets right what
\* does not agree yet, whatever the users do and whichever connections fail.
THEOREM RoomsHold == Spec => []RoomInvariant
BY RoomInit, RoomStep, PTL DEF Spec

-----------------------------------------------------------------------------
(* What the runs check of Room holds for every instance of it. *)

\* Every variable has its type: no winner and no turn is outside the seats, and no
\* queue or count of tasks passes its bound.
THEOREM RoomTypes == Spec => []TypeOK
<1>1. RoomInvariant => TypeOK
  <2> SUFFICES ASSUME RoomInvariant
               PROVE  TypeOK
    OBVIOUS
  <2>1. Typed
    BY DEF RoomInvariant
  <2>2. News \cup Leaves \subseteq Messages
    BY DEF News, Leaves, Messages
  <2>3. ASSUME NEW i \in Instances, NEW k \in 1..Len(channel[i])
        PROVE  channel[i][k] \in Messages
    <3>1. channel[i][k] \in News \cup Leaves
      BY <2>1 DEF Typed
    <3> QED
      BY <2>2, <3>1
  <2> QED
    BY <2>1, <2>3 DEF Typed, TypeOK, Exists
<1> QED
  BY <1>1, RoomsHold, PTL

\* The instance of a client delivers to it exactly at the seat the client is bound to.
THEOREM BooksAgree == Spec => []LocalMatchesMember
<1>1. RoomInvariant => LocalMatchesMember
  <2> SUFFICES ASSUME RoomInvariant, NEW c \in Clients, NEW x \in Codes, NEW seat \in Seats
               PROVE  Sits(c, x, seat) <=> member[c] = [room |-> x, seat |-> seat]
    BY ZenonT(60) DEF RoomInvariant, LocalIsMember, LocalMatchesMember
  <2>1. member[c] \in [room : Codes, seat : Seats] \cup {NoMember}
    BY DEF RoomInvariant, Typed
  <2> QED
    BY <2>1, NobodyAssumption DEF Sits, NoMember
<1> QED
  BY <1>1, RoomsHold, PTL

\* Who believes to sit in a room that exists holds that seat in Redis.
THEOREM SeatsAreHeld == Spec => []BoundClientsAreSeated
<1>1. RoomInvariant => BoundClientsAreSeated
  BY DEF RoomInvariant, SeatsAreOwned, BoundClientsAreSeated
<1> QED
  BY <1>1, RoomsHold, PTL

\* Who sits in a room that was closed is about to be told so.
THEOREM NobodyIsStranded == Spec => []NobodyStranded
<1>1. RoomInvariant => NobodyStranded
  BY DEF RoomInvariant, EndIsTold, EndIsToldTo, Ending, NobodyStranded, Queued
<1> QED
  BY <1>1, RoomsHold, PTL

\* A friend game runs only with a guest who was ready.
THEOREM GamesAreAgreed == Spec => []RunningGamesAreAgreed
<1>1. RoomInvariant => RunningGamesAreAgreed
  BY DEF RoomInvariant, GamesFit, GameFits, RunningGamesAreAgreed
<1> QED
  BY <1>1, RoomsHold, PTL

\* No request for a rematch is left when the next game runs.
THEOREM VotesAreFresh == Spec => []RematchVotesAreFresh
<1>1. RoomInvariant => RematchVotesAreFresh
  BY DEF RoomInvariant, GamesFit, GameFits, RematchVotesAreFresh
<1> QED
  BY <1>1, RoomsHold, PTL

\* When no handler works on a room and nothing about it is on its way, everybody
\* connected who sits in it sees what Redis holds.
THEOREM EverybodySees == Spec => []ViewsAgree
<1>1. RoomInvariant => ViewsAgree
  <2> SUFFICES ASSUME RoomInvariant, NEW c \in Clients, NEW x, x = member[c].room,
                      InRoom(c), alive[c] = "up", Exists(x), lock[x] = Nobody,
                      \A k \in 1..Len(channel[Host[c]]) : channel[Host[c]][k].room # x
               PROVE  shown[c] = Current(x)
    BY DEF ViewsAgree, Current
  <2>1. x \in Codes
    BY MemberShape DEF RoomInvariant
  <2>2. ~Joining(x)
    BY <2>1, NobodyAssumption DEF RoomInvariant, LocksAreHeld, Joining, Holding
  <2>3. SeesAtLast(shown[c], channel[Host[c]], x, Current(x))
    BY <2>2 DEF RoomInvariant, NewsIsTrue
  <2> QED
    BY <2>3 DEF SeesAtLast, ToRoom
<1> QED
  BY <1>1, RoomsHold, PTL

-----------------------------------------------------------------------------
(* What a step does to a room that goes on. *)

\* What a step does to a room that is there before and after it.
LEMMA RoomGoesOn ==
    ASSUME RoomInvariant, [Next]_vars, NEW x \in Codes, Exists(x), Exists(x)'
    PROVE  /\ rooms[x].started => /\ rooms'[x].started
                                  /\ rooms'[x].host = rooms[x].host
                                  /\ rooms'[x].guest = rooms[x].guest
           /\ \/ rooms'[x].game = rooms[x].game
              \/ rooms'[x].game = Game!NewView
              \/ rooms'[x].game \in Game!PlyOutcomes(rooms[x].game)
              \/ \E c \in Clients :
                    /\ op[c].kind = "resign" /\ op'[c] = Idle /\ op[c].seat \in Seats
                    /\ SeatOwner(rooms[x], op[c].seat) = c
                    /\ rooms'[x].game.winner = 1 - op[c].seat
<1> DEFINE Goal ==
      /\ rooms[x].started => /\ rooms'[x].started
                             /\ rooms'[x].host = rooms[x].host
                             /\ rooms'[x].guest = rooms[x].guest
      /\ \/ rooms'[x].game = rooms[x].game
         \/ rooms'[x].game = Game!NewView
         \/ rooms'[x].game \in Game!PlyOutcomes(rooms[x].game)
         \/ \E c \in Clients :
               /\ op[c].kind = "resign" /\ op'[c] = Idle /\ op[c].seat \in Seats
               /\ SeatOwner(rooms[x], op[c].seat) = c
               /\ rooms'[x].game.winner = 1 - op[c].seat
<1>1. /\ rooms \in [Codes -> RoomRecords \cup {NoRoom}] /\ op \in [Clients -> Ops]
      /\ rooms[x] \in RoomRecords
  BY DEF RoomInvariant, Typed, Exists
<1>2. ASSUME rooms' = rooms
      PROVE  Goal
  BY <1>2
<1>3. ASSUME NEW c \in Clients, NEW y \in Codes, NEW mode \in Modes, CreateRoom(c, mode, y)
      PROVE  Goal
  <2>1. y # x
    BY <1>3 DEF CreateRoom, RoomInvariant, NamesAreDrawn
  <2>2. rooms'[x] = rooms[x]
    BY <1>1, <1>3, <2>1 DEF CreateRoom
  <2> QED
    BY <2>2
<1>4. ASSUME NEW c \in Clients, NEW y \in Codes, JoinSeat1(c, y)
      PROVE  Goal
  <2>1. CASE y = x
    <3>1. ~rooms[x].started /\ rooms'[x].game = rooms[x].game
      BY <1>1, <1>4, <2>1 DEF JoinSeat1, RoomRecords
    <3> QED
      BY <3>1
  <2>2. CASE y # x
    <3>1. rooms'[x] = rooms[x]
      BY <1>1, <1>4, <2>2 DEF JoinSeat1
    <3> QED
      BY <3>1
  <2> QED
    BY <2>1, <2>2
\* One step for every handler that saves a room.
<1>5. ASSUME NEW c \in Clients, NEW r, rooms' = [rooms EXCEPT ![op[c].room] = r],
             op[c].room = x => /\ rooms[x].started => /\ r.started /\ r.host = rooms[x].host
                                                      /\ r.guest = rooms[x].guest
                               /\ \/ r.game = rooms[x].game
                                  \/ r.game = Game!NewView
                                  \/ r.game \in Game!PlyOutcomes(rooms[x].game)
      PROVE  Goal
  BY <1>1, <1>5
<1>6. ASSUME NEW c \in Clients, NEW kind \in {"ready", "unready"}, SetReady(c, kind)
      PROVE  Goal
  <2> DEFINE r == [rooms[op[c].room] EXCEPT !.ready = (kind = "ready")]
  <2>1. rooms' = [rooms EXCEPT ![op[c].room] = r]
    BY <1>6 DEF SetReady, SaveAndTell
  <2>2. op[c].room = x => /\ r.started = rooms[x].started /\ r.host = rooms[x].host
                          /\ r.guest = rooms[x].guest /\ r.game = rooms[x].game
    BY <1>1 DEF RoomRecords
  <2> HIDE DEF r, Goal
  <2> QED
    BY <1>5, <2>1, <2>2
<1>7. ASSUME NEW c \in Clients, StartGame(c)
      PROVE  Goal
  <2> DEFINE r == [rooms[op[c].room] EXCEPT !.started = TRUE, !.game = Game!NewView]
  <2>1. rooms' = [rooms EXCEPT ![op[c].room] = r]
    BY <1>7 DEF StartGame, SaveAndTell
  <2>2. op[c].room = x => /\ r.started /\ r.host = rooms[x].host
                          /\ r.guest = rooms[x].guest /\ r.game = Game!NewView
    BY <1>1 DEF RoomRecords
  <2> HIDE DEF r, Goal
  <2> QED
    BY <1>5, <2>1, <2>2
<1>8. ASSUME NEW c \in Clients, PlayerMove(c)
      PROVE  Goal
  <2>1. PICK g \in Game!PlyOutcomes(rooms[op[c].room].game) :
          rooms' = [rooms EXCEPT ![op[c].room] = [rooms[op[c].room] EXCEPT !.game = g]]
    BY <1>8 DEF PlayerMove, SaveAndTell
  <2> DEFINE r == [rooms[op[c].room] EXCEPT !.game = g]
  <2>2. op[c].room = x => /\ r.started = rooms[x].started /\ r.host = rooms[x].host
                          /\ r.guest = rooms[x].guest /\ r.game = g
    BY <1>1 DEF RoomRecords
  <2>3. rooms' = [rooms EXCEPT ![op[c].room] = r]
    BY <2>1
  <2> HIDE DEF r, Goal
  <2> QED
    BY <1>5, <2>1, <2>2, <2>3
<1>9. ASSUME NEW c \in Clients, Resign(c)
      PROVE  Goal
  <2> DEFINE r == [rooms[op[c].room] EXCEPT !.game.over = TRUE,
                                            !.game.winner = 1 - op[c].seat]
  <2>1. /\ op[c].kind = "resign" /\ op' = [op EXCEPT ![c] = Idle]
        /\ rooms' = [rooms EXCEPT ![op[c].room] = r]
        /\ Locked(c, "resign") /\ Passes(c)
    BY <1>9 DEF Resign, SaveAndTell, Locked, Return
  <2>2. "resign" \in Commands
    BY <1>1, <2>1 DEF Ops, Idle
  <2>3. op[c].seat \in Seats /\ SeatOwner(rooms[op[c].room], op[c].seat) = c
    BY <2>1, <2>2, CommandFinds
  <2>4. op'[c] = Idle
    BY <1>1, <2>1
  <2>5. op[c].room = x => /\ r.started = rooms[x].started /\ r.host = rooms[x].host
                          /\ r.guest = rooms[x].guest /\ r.game.winner = 1 - op[c].seat
    BY <1>1 DEF RoomRecords, Game!Views
  <2> HIDE DEF r
  <2>6. CASE op[c].room = x
    <3>1. rooms'[x] = r
      BY <1>1, <2>1, <2>6
    <3> QED
      BY <2>1, <2>3, <2>4, <2>5, <2>6, <3>1
  <2>7. CASE op[c].room # x
    <3>1. rooms'[x] = rooms[x]
      BY <1>1, <2>1, <2>7
    <3> QED
      BY <3>1
  <2> QED
    BY <2>6, <2>7
<1>10. ASSUME NEW c \in Clients, Rematch(c)
       PROVE  Goal
  <2> DEFINE r == [rooms[op[c].room] EXCEPT !.game = Game!NewView, !.rematch = {}]
             q == [rooms[op[c].room] EXCEPT !.rematch = Requests(c)]
  <2>1. \/ rooms' = [rooms EXCEPT ![op[c].room] = r]
        \/ rooms' = [rooms EXCEPT ![op[c].room] = q]
    BY <1>10 DEF Rematch, SaveAndTell
  <2>2. op[c].room = x => /\ r.started = rooms[x].started /\ r.host = rooms[x].host
                          /\ r.guest = rooms[x].guest /\ r.game = Game!NewView
                          /\ q.started = rooms[x].started /\ q.host = rooms[x].host
                          /\ q.guest = rooms[x].guest /\ q.game = rooms[x].game
    BY <1>1 DEF RoomRecords
  <2> HIDE DEF r, q, Goal
  <2> QED
    BY <1>5, <2>1, <2>2
<1>11. ASSUME NEW c \in Clients, ReleaseSeat(c)
       PROVE  Goal
  <2> DEFINE r == [rooms[op[c].room] EXCEPT !.guest = Nobody, !.ready = FALSE]
  <2>1. rooms' = [rooms EXCEPT ![op[c].room] = r] /\ ~rooms[op[c].room].started
    BY <1>11 DEF ReleaseSeat
  <2>2. op[c].room = x => r.game = rooms[x].game
    BY <1>1 DEF RoomRecords
  <2> HIDE DEF r, Goal
  <2> QED
    BY <1>5, <2>1, <2>2
<1>12. ASSUME NEW c \in Clients, CloseRoom(c)
       PROVE  Goal
  <2>1. rooms' = [rooms EXCEPT ![op[c].room] = NoRoom]
    BY <1>12 DEF CloseRoom
  <2>2. rooms'[x] = rooms[x]
    BY <1>1, <2>1 DEF Exists
  <2> QED
    BY <2>2
<1>13. ASSUME NEW y \in Codes, AiMove(y)
       PROVE  Goal
  <2>1. CASE rooms' = rooms
    BY <1>2, <2>1
  <2>2. ASSUME NEW g \in Game!PlyOutcomes(rooms[y].game),
               rooms' = [rooms EXCEPT ![y] = [rooms[y] EXCEPT !.game = g]]
        PROVE  Goal
    <3>1. CASE y = x
      <4>1. rooms'[x] = [rooms[x] EXCEPT !.game = g]
        BY <1>1, <2>2, <3>1
      <4>2. /\ rooms'[x].started = rooms[x].started /\ rooms'[x].host = rooms[x].host
            /\ rooms'[x].guest = rooms[x].guest /\ rooms'[x].game = g
        BY <1>1, <4>1 DEF RoomRecords
      <4> QED
        BY <2>2, <3>1, <4>2
    <3>2. CASE y # x
      <4>1. rooms'[x] = rooms[x]
        BY <1>1, <2>2, <3>2
      <4> QED
        BY <4>1
    <3> QED
      BY <3>1, <3>2
  <2> HIDE DEF Goal
  <2> QED
    BY <1>13, <2>1, <2>2 DEF AiMove
<1> HIDE DEF Goal
<1>14. ASSUME NEW c \in Clients, Handler(c)
       PROVE  Goal
  <2>1. EnterCreated(c) \/ EnterJoined(c) \/ ReadSeat(c) \/ Refuse(c) \/ GiveUp(c)
          \/ Unbind(c) \/ AnnounceLeave(c) => rooms' = rooms
    BY DEF EnterCreated, EnterJoined, ReadSeat, Refuse, GiveUp, Unbind, AnnounceLeave, redis
  <2> QED
    BY <1>2, <1>6, <1>7, <1>8, <1>9, <1>10, <1>11, <1>12, <1>14, <2>1 DEF Handler
<1>15. ASSUME NEW c \in Clients,
              \/ \E kind \in Commands : Begin(c, kind)
              \/ BeginLeave(c) \/ Disconnect(c) \/ Cancel(c)
       PROVE  Goal
  <2>1. rooms' = rooms
    BY <1>15 DEF Begin, BeginLeave, Disconnect, Cancel, redis
  <2> QED
    BY <1>2, <2>1
<1>16. ASSUME NEW y \in Codes, Ai(y)
       PROVE  Goal
  BY <1>2, <1>13, <1>16 DEF Ai, AiGivesUp, redis
<1>17. ASSUME NEW i \in Instances, Dispatch(i)
       PROVE  Goal
  BY <1>2, <1>17 DEF Dispatch
<1>18. ASSUME UNCHANGED vars
       PROVE  Goal
  BY <1>2, <1>18 DEF vars, redis
<1>19. Goal
  BY <1>3, <1>4, <1>14, <1>15, <1>16, <1>17, <1>18 DEF Next
<1> QED
  BY <1>19 DEF Goal

\* The players of a started game stay the players of its room until it is closed.
THEOREM PlayersStay == Spec => StartedGameKeepsItsPlayers
<1>1. ASSUME RoomInvariant, [Next]_vars, NEW x \in Codes,
             Exists(x), Exists(x)', rooms[x].started
      PROVE  rooms'[x].started /\ Occupants(rooms'[x]) = Occupants(rooms[x])
  <2>1. /\ rooms'[x].started /\ rooms'[x].host = rooms[x].host
        /\ rooms'[x].guest = rooms[x].guest
    BY <1>1, RoomGoesOn
  <2> QED
    BY <1>1, <2>1 DEF Occupants, Exists
<1>2. RoomInvariant /\ [Next]_vars =>
        [\A x \in Codes :
           Exists(x) /\ Exists(x)' /\ rooms[x].started
             => rooms'[x].started /\ Occupants(rooms'[x]) = Occupants(rooms[x])]_vars
  BY <1>1
<1> QED
  BY <1>2, RoomsHold, PTL DEF Spec, StartedGameKeepsItsPlayers

\* A game that ends without a ply was resigned, by the owner of the seat that loses.
THEOREM ResigningLoses == Spec => ResignerLoses
<1>1. ASSUME RoomInvariant, [Next]_vars, NEW x \in Codes, Exists(x), Exists(x)',
             ~rooms[x].game.over, rooms'[x].game.over,
             rooms'[x].game.ply = rooms[x].game.ply
      PROVE  \E c \in Clients :
                /\ op[c].kind = "resign" /\ op'[c] = Idle
                /\ SeatOwner(rooms[x], 1 - rooms'[x].game.winner) = c
  <2>1. rooms[x].game.ply \in Nat
    BY <1>1, BoundsAssumption DEF RoomInvariant, Typed, Exists, RoomRecords, Game!Views
  <2>2. rooms'[x].game \notin Game!PlyOutcomes(rooms[x].game)
    BY <1>1, <2>1 DEF Game!PlyOutcomes
  <2>3. rooms'[x].game # rooms[x].game /\ rooms'[x].game # Game!NewView
    BY <1>1 DEF Game!NewView
  <2>4. PICK c \in Clients :
          /\ op[c].kind = "resign" /\ op'[c] = Idle /\ op[c].seat \in Seats
          /\ SeatOwner(rooms[x], op[c].seat) = c
          /\ rooms'[x].game.winner = 1 - op[c].seat
    BY <1>1, <2>2, <2>3, RoomGoesOn
  <2>5. 1 - rooms'[x].game.winner = op[c].seat
    BY <2>4 DEF Seats
  <2> QED
    BY <2>4, <2>5
<1>2. RoomInvariant /\ [Next]_vars =>
        [\A x \in Codes :
          /\ Exists(x) /\ Exists(x)'
          /\ ~rooms[x].game.over /\ rooms'[x].game.over
          /\ rooms'[x].game.ply = rooms[x].game.ply
          => \E c \in Clients :
                /\ op[c].kind = "resign" /\ op'[c] = Idle
                /\ SeatOwner(rooms[x], 1 - rooms'[x].game.winner) = c]_vars
  BY <1>1
<1> QED
  BY <1>2, RoomsHold, PTL DEF Spec, ResignerLoses

-----------------------------------------------------------------------------
(* The life of a room. *)

\* What the users know of all rooms, and of a room that is there.
Tables == [x \in Codes |-> LifeOf(x)]
TableOf(r) ==
    IF r.started THEN Life!Playing(r.host, r.guest, r.game, r.rematch)
    ELSE Life!Lobby(r.host, r.guest, r.ready)

\* The table of one room.
LEMMA TableIs ==
    ASSUME NEW x \in Codes
    PROVE  /\ Exists(x) => Tables[x] = TableOf(rooms[x])
           /\ ~Exists(x) /\ x \in drawn => Tables[x] = Life!Closed
           /\ ~Exists(x) /\ x \notin drawn => Tables[x] = Life!Free
BY DEF Tables, LifeOf, TableOf, Life!Playing, Life!Lobby, Life!Closed, Life!Free

\* The fields of a table.
LEMMA TableFields ==
    ASSUME NEW r
    PROVE  /\ ~r.started => /\ TableOf(r) = Life!Lobby(r.host, r.guest, r.ready)
                            /\ TableOf(r).stage = "lobby" /\ TableOf(r).host = r.host
                            /\ TableOf(r).guest = r.guest /\ TableOf(r).ready = r.ready
           /\ r.started => /\ TableOf(r) = Life!Playing(r.host, r.guest, r.game, r.rematch)
                           /\ TableOf(r).stage = "game" /\ TableOf(r).host = r.host
                           /\ TableOf(r).guest = r.guest /\ TableOf(r).view = r.game
                           /\ TableOf(r).votes = r.rematch
           /\ TableOf(r) # Life!Free
BY DEF TableOf, Life!Lobby, Life!Playing, Life!Free

\* The outcomes of a ply are the same for both.
LEMMA SameOutcomes ==
    /\ Life!Game!NewView = Game!NewView
    /\ \A v : Life!Game!PlyOutcomes(v) = Game!PlyOutcomes(v)
    /\ Life!Seats = Seats
BY DEF Life!Game!NewView, Game!NewView, Life!Game!PlyOutcomes, Game!PlyOutcomes,
   Life!Seats, Seats, Life!Game!Undecided, Game!Undecided, Life!Game!Seats, Game!Seats,
   Life!Game!Tie, Game!Tie

\* A step that saves one room turns its table.
LEMMA SaveTurns ==
    ASSUME NEW x \in Codes, NEW r \in RoomRecords,
           rooms \in [Codes -> RoomRecords \cup {NoRoom}],
           rooms' = [rooms EXCEPT ![x] = r], drawn \subseteq drawn', drawn' \subseteq drawn \cup {x}
    PROVE  Life!Turns(x, TableOf(r))
<1>1. ASSUME NEW y \in Codes
      PROVE  Tables'[y] = IF y = x THEN TableOf(r) ELSE Tables[y]
  <2>1. CASE y = x
    <3>1. rooms'[y] = r /\ Exists(y)'
      BY <2>1, RecordIsRoom DEF Exists
    <3>2. LifeOf(y)' = TableOf(r)
      BY <3>1 DEF LifeOf, TableOf, Life!Playing, Life!Lobby
    <3> QED
      BY <3>2, <2>1 DEF Tables
  <2>2. CASE y # x
    <3>1. rooms'[y] = rooms[y] /\ (y \in drawn' <=> y \in drawn)
      BY <2>2
    <3>2. LifeOf(y)' = LifeOf(y)
      BY <3>1 DEF LifeOf, Exists
    <3> QED
      BY <3>2, <2>2 DEF Tables
  <2> QED
    BY <2>1, <2>2
<1>2. Tables' = [Tables EXCEPT ![x] = TableOf(r)]
  BY <1>1 DEF Tables
<1> QED
  BY <1>2 DEF Life!Turns, Tables

\* One step in the life of some room.
LEMMA LifeGoesOn ==
    ASSUME NEW x \in Codes,
           \/ \E c \in Clients : Life!Open(x, c) \/ Life!Sit(x, c)
           \/ \E ready \in BOOLEAN : Life!SayReady(x, ready)
           \/ \E seat \in Seats : Life!Resign(x, seat) \/ Life!Ask(x, seat) \/ Life!Again(x, seat)
           \/ Life!Stand(x) \/ Life!Start(x) \/ Life!Ply(x) \/ Life!Close(x)
    PROVE  Life!Next
BY SameOutcomes DEF Life!Next

\* A room is created under a code that was free.
LEMMA CreateRoomLives ==
    ASSUME RoomInvariant, NEW c \in Clients, NEW x \in Codes, NEW mode \in Modes,
           CreateRoom(c, mode, x)
    PROVE  Life!Next
<1> DEFINE r == NewRoom(mode, c)
<1>1. /\ x \notin drawn /\ drawn' = drawn \cup {x} /\ rooms' = [rooms EXCEPT ![x] = r]
      /\ rooms \in [Codes -> RoomRecords \cup {NoRoom}] /\ ~Exists(x)
  BY DEF CreateRoom, RoomInvariant, Typed, NamesAreDrawn
<1>2. r \in RoomRecords
  BY NewRoomFits, UsersAssumption
<1>3. Tables[x] = Life!Free
  BY <1>1, TableIs
<1>4. Life!Turns(x, TableOf(r))
  BY <1>1, <1>2, SaveTurns
<1>5. /\ ~r.started => TableOf(r) = Life!Lobby(c, Nobody, FALSE)
      /\ r.started => TableOf(r) = Life!Playing(c, Nobody, Life!Game!NewView, {})
  BY SameOutcomes DEF TableOf, NewRoom
<1> HIDE DEF r
<1>6. Life!Open(x, c)
  <2>1. Life!Turns(x, Life!Lobby(c, Nobody, FALSE))
          \/ Life!Turns(x, Life!Playing(c, Nobody, Life!Game!NewView, {}))
    BY <1>4, <1>5
  <2> QED
    BY <1>3, <2>1 DEF Life!Open, Tables
<1> QED
  BY <1>6, LifeGoesOn

\* A guest sits down.
LEMMA JoinSeat1Lives ==
    ASSUME RoomInvariant, NEW c \in Clients, NEW x \in Codes, JoinSeat1(c, x)
    PROVE  Life!Next
<1> DEFINE r == [rooms[x] EXCEPT !.guest = c, !.ready = FALSE]
<1>1. /\ Exists(x) /\ rooms[x].host # c /\ ~rooms[x].started /\ rooms[x].guest = Nobody
      /\ rooms \in [Codes -> RoomRecords \cup {NoRoom}] /\ drawn' = drawn
      /\ rooms' = [rooms EXCEPT ![x].guest = c, ![x].ready = FALSE]
  BY DEF JoinSeat1, Known, RoomInvariant, Typed
<1>2. rooms[x] \in RoomRecords
  BY <1>1 DEF Exists
<1>3. /\ r \in RoomRecords /\ ~r.started
      /\ r.host = rooms[x].host /\ r.guest = c /\ r.ready = FALSE
  BY <1>1, <1>2 DEF RoomRecords
<1>4. rooms' = [rooms EXCEPT ![x] = r]
  BY <1>1, <1>2 DEF RoomRecords
<1> HIDE DEF r
<1>5. Life!Turns(x, Life!Lobby(rooms[x].host, c, FALSE))
  <2>1. Life!Turns(x, TableOf(r))
    BY <1>1, <1>3, <1>4, SaveTurns
  <2> QED
    BY <2>1, <1>3, TableFields
<1>6. /\ Tables[x].stage = "lobby" /\ Tables[x].guest = Nobody
      /\ Tables[x].host = rooms[x].host
  BY <1>1, TableIs, TableFields
<1>7. Life!Sit(x, c)
  BY <1>1, <1>5, <1>6 DEF Life!Sit, Life!InLobby, Tables
<1> QED
  BY <1>7, LifeGoesOn

\* What a command that saves a room does to its table.
LEMMA CommandTurns ==
    ASSUME RoomInvariant, NEW c \in Clients, NEW kind \in Commands,
           Locked(c, kind), Passes(c), NEW x, x = op[c].room,
           NEW r \in RoomRecords, rooms' = [rooms EXCEPT ![x] = r], drawn' = drawn
    PROVE  /\ x \in Codes /\ rooms[x] \in RoomRecords /\ GameFits(rooms[x])
           /\ Tables[x] = TableOf(rooms[x]) /\ Life!Turns(x, TableOf(r))
           /\ op[c].seat \in Seats /\ SeatOwner(rooms[x], op[c].seat) = c
<1>1. /\ x \in Codes /\ Exists(x) /\ rooms[x] \in RoomRecords /\ GameFits(rooms[x])
      /\ op[c].seat \in Seats /\ SeatOwner(rooms[x], op[c].seat) = c
  BY CommandFinds
<1>2. Tables[x] = TableOf(rooms[x])
  BY <1>1, TableIs
<1>3. Life!Turns(x, TableOf(r))
  BY <1>1, SaveTurns DEF RoomInvariant, Typed
<1> QED
  BY <1>1, <1>2, <1>3

\* A handler of a command runs only if the command is one that users send.
LEMMA OnlyCommands ==
    ASSUME RoomInvariant, NEW c \in Clients,
           NEW kind \in {"ready", "unready", "start", "move", "resign", "rematch"}, Locked(c, kind)
    PROVE  kind \in Commands
<1>1. op[c] \in Ops /\ op[c].kind = kind
  BY DEF RoomInvariant, Typed, Locked
<1> QED
  BY <1>1 DEF Ops, Idle

\* A guest says to be ready or not.
LEMMA SetReadyLives ==
    ASSUME RoomInvariant, NEW c \in Clients, NEW kind \in {"ready", "unready"},
           SetReady(c, kind)
    PROVE  Life!Next
<1> DEFINE x == op[c].room
           r == [rooms[x] EXCEPT !.ready = (kind = "ready")]
<1>1. /\ Locked(c, kind) /\ Passes(c) /\ rooms' = [rooms EXCEPT ![x] = r] /\ drawn' = drawn
      /\ kind \in Commands
  BY OnlyCommands DEF SetReady, SaveAndTell
<1>2. /\ rooms[x] \in RoomRecords /\ ~rooms[x].started
      /\ rooms[x].guest = c
  BY <1>1, CommandFinds DEF Passes, Locked
<1>3. /\ r \in RoomRecords /\ ~r.started /\ r.host = rooms[x].host
      /\ r.guest = rooms[x].guest /\ r.ready = (kind = "ready")
  BY <1>2 DEF RoomRecords
<1> HIDE DEF r, x
<1>4. /\ x \in Codes /\ Tables[x] = TableOf(rooms[x]) /\ Life!Turns(x, TableOf(r))
  BY <1>1, <1>3, CommandTurns DEF x
<1>5. /\ Tables[x] = Life!Lobby(rooms[x].host, rooms[x].guest, rooms[x].ready)
      /\ Tables[x].stage = "lobby" /\ Tables[x].guest # Nobody
  BY <1>2, <1>4, TableFields, NobodyAssumption
<1>6. TableOf(r) = [Tables[x] EXCEPT !.ready = (kind = "ready")]
  BY <1>3, <1>5, TableFields DEF Life!Lobby
<1>7. Life!Turns(x, [Tables[x] EXCEPT !.ready = (kind = "ready")])
  BY <1>4, <1>6
<1>8. Life!SayReady(x, kind = "ready")
  BY <1>5, <1>7 DEF Life!SayReady, Life!InLobby, Tables
<1> QED
  BY <1>4, <1>8, LifeGoesOn

\* A new game can be seen.
LEMMA NewViewIsView == Game!NewView \in Game!Views
BY BoundsAssumption DEF Game!NewView, Game!Views, Game!Seats, Game!Undecided

\* The host starts the game.
LEMMA StartGameLives ==
    ASSUME RoomInvariant, NEW c \in Clients, StartGame(c)
    PROVE  Life!Next
<1> DEFINE x == op[c].room
           r == [rooms[x] EXCEPT !.started = TRUE, !.game = Game!NewView]
<1>1. /\ Locked(c, "start") /\ Passes(c) /\ rooms' = [rooms EXCEPT ![x] = r] /\ drawn' = drawn
      /\ "start" \in Commands
  BY OnlyCommands DEF StartGame, SaveAndTell
<1>2. /\ rooms[x] \in RoomRecords /\ ~rooms[x].started /\ GameFits(rooms[x])
      /\ rooms[x].guest # Nobody /\ rooms[x].ready
  BY <1>1, CommandFinds DEF Passes, Locked
<1>3. rooms[x].rematch = {}
  BY <1>2 DEF GameFits, Game!NewView
<1>4. /\ r \in RoomRecords /\ r.started /\ r.host = rooms[x].host
      /\ r.guest = rooms[x].guest /\ r.game = Game!NewView /\ r.rematch = {}
  BY <1>2, <1>3, NewViewIsView DEF RoomRecords
<1> HIDE DEF r, x
<1>5. /\ x \in Codes /\ Tables[x] = TableOf(rooms[x]) /\ Life!Turns(x, TableOf(r))
  BY <1>1, <1>4, CommandTurns DEF x
<1>6. /\ Tables[x].stage = "lobby" /\ Tables[x].guest # Nobody /\ Tables[x].ready
      /\ Tables[x].host = rooms[x].host /\ Tables[x].guest = rooms[x].guest
  BY <1>2, <1>5, TableFields
<1>7. TableOf(r) = Life!Playing(Tables[x].host, Tables[x].guest, Life!Game!NewView, {})
  <2>1. TableOf(r) = Life!Playing(r.host, r.guest, r.game, r.rematch)
    BY <1>4, TableFields
  <2> QED
    BY <1>4, <1>6, <2>1, SameOutcomes
<1>8. Life!Turns(x, Life!Playing(Tables[x].host, Tables[x].guest, Life!Game!NewView, {}))
  BY <1>5, <1>7
<1>9. Life!Start(x)
  BY <1>6, <1>8 DEF Life!Start, Life!InLobby, Tables
<1> QED
  BY <1>5, <1>9, LifeGoesOn

\* A game goes on by a ply, of a player or of the computer.
LEMMA PlyTurns ==
    ASSUME NEW x \in Codes, rooms[x] \in RoomRecords, GameFits(rooms[x]), rooms[x].started,
           ~rooms[x].game.over, NEW g \in Game!PlyOutcomes(rooms[x].game),
           Tables[x] = TableOf(rooms[x]), Life!Turns(x, TableOf([rooms[x] EXCEPT !.game = g]))
    PROVE  Life!Next
<1> DEFINE r == [rooms[x] EXCEPT !.game = g]
<1>1. /\ r.started /\ r.host = rooms[x].host /\ r.guest = rooms[x].guest
      /\ r.game = g /\ r.rematch = rooms[x].rematch
  BY DEF RoomRecords
<1>2. Life!Turns(x, TableOf(r))
  OBVIOUS
<1> HIDE DEF r
<1>3. /\ Tables[x] = Life!Playing(rooms[x].host, rooms[x].guest, rooms[x].game, rooms[x].rematch)
      /\ Tables[x].stage = "game" /\ Tables[x].view = rooms[x].game
  BY TableFields
<1>4. TableOf(r) = [Tables[x] EXCEPT !.view = g]
  BY <1>1, <1>3, TableFields DEF Life!Playing
<1>5. Life!Turns(x, [Tables[x] EXCEPT !.view = g])
  BY <1>2, <1>4
<1>6. /\ ~Tables[x].view.over /\ Tables[x].view.ply < MaxPlies
      /\ g \in Life!Game!PlyOutcomes(Tables[x].view)
  BY <1>3, SameOutcomes DEF GameFits
<1>7. Life!Ply(x)
  BY <1>3, <1>5, <1>6 DEF Life!Ply, Life!InGame, Tables
<1> QED
  BY <1>7, LifeGoesOn

\* A player moves.
LEMMA PlayerMoveLives ==
    ASSUME RoomInvariant, NEW c \in Clients, PlayerMove(c)
    PROVE  Life!Next
<1> DEFINE x == op[c].room
<1>1. /\ Locked(c, "move") /\ Passes(c) /\ "move" \in Commands /\ drawn' = drawn
  BY OnlyCommands DEF PlayerMove, SaveAndTell
<1>2. PICK g \in Game!PlyOutcomes(rooms[x].game) :
        rooms' = [rooms EXCEPT ![x] = [rooms[x] EXCEPT !.game = g]]
  BY DEF PlayerMove, SaveAndTell
<1>3. /\ x \in Codes /\ rooms[x] \in RoomRecords /\ GameFits(rooms[x]) /\ Exists(x)
      /\ rooms[x].started /\ ~rooms[x].game.over
  BY <1>1, CommandFinds DEF Passes, Locked
<1> DEFINE r == [rooms[x] EXCEPT !.game = g]
<1>4. r \in RoomRecords
  BY <1>3, PlyFits
<1>5. rooms' = [rooms EXCEPT ![x] = r]
  BY <1>2
<1> HIDE DEF x, r
<1>6. Life!Turns(x, TableOf(r)) /\ Tables[x] = TableOf(rooms[x])
  BY <1>1, <1>4, <1>5, CommandTurns DEF x
<1> QED
  BY <1>2, <1>3, <1>6, PlyTurns DEF r

\* The computer moves: it is on turn only in a game that has started.
LEMMA AiMoveLives ==
    ASSUME RoomInvariant, NEW x \in Codes, AiMove(x)
    PROVE  Life!Next \/ (rooms' = rooms /\ drawn' = drawn)
<1>1. drawn' = drawn
  BY DEF AiMove
<1>2. ASSUME Exists(x), ~rooms[x].game.over, rooms[x].game.turn = 1,
             NEW g \in Game!PlyOutcomes(rooms[x].game),
             rooms' = [rooms EXCEPT ![x] = [rooms[x] EXCEPT !.game = g]]
      PROVE  Life!Next
  <2> DEFINE r == [rooms[x] EXCEPT !.game = g]
  <2>1. rooms[x] \in RoomRecords /\ GameFits(rooms[x])
    BY <1>2 DEF RoomInvariant, Typed, GamesFit, Exists
  <2>2. rooms[x].started
    BY <1>2, <2>1 DEF GameFits, RoomRecords, Game!NewView
  <2>3. r \in RoomRecords
    BY <1>2, <2>1, <2>2, PlyFits
  <2>4. rooms' = [rooms EXCEPT ![x] = r]
    BY <1>2
  <2> HIDE DEF r
  <2>5. Life!Turns(x, TableOf(r)) /\ Tables[x] = TableOf(rooms[x])
    BY <1>1, <1>2, <2>3, <2>4, SaveTurns, TableIs DEF RoomInvariant, Typed
  <2> QED
    BY <1>2, <2>1, <2>2, <2>5, PlyTurns DEF r
<1>3. CASE Exists(x) /\ ~rooms[x].game.over /\ rooms[x].game.turn = 1
  <2>1. PICK g \in Game!PlyOutcomes(rooms[x].game) :
          rooms' = [rooms EXCEPT ![x] = [rooms[x] EXCEPT !.game = g]]
    BY <1>3 DEF AiMove
  <2> QED
    BY <1>2, <1>3, <2>1
<1>4. CASE ~(Exists(x) /\ ~rooms[x].game.over /\ rooms[x].game.turn = 1)
  BY <1>1, <1>4 DEF AiMove
<1> QED
  BY <1>3, <1>4

\* A player gives up.
LEMMA ResignLives ==
    ASSUME RoomInvariant, NEW c \in Clients, Resign(c)
    PROVE  Life!Next
<1> DEFINE x == op[c].room
           g == [rooms[x].game EXCEPT !.over = TRUE, !.winner = 1 - op[c].seat]
           r == [rooms[x] EXCEPT !.game = g]
<1>1. /\ Locked(c, "resign") /\ Passes(c) /\ "resign" \in Commands /\ drawn' = drawn
      /\ rooms' = [rooms EXCEPT ![x] = [rooms[x] EXCEPT !.game.over = TRUE,
                                                        !.game.winner = 1 - op[c].seat]]
  BY OnlyCommands DEF Resign, SaveAndTell
<1>2. /\ x \in Codes /\ rooms[x] \in RoomRecords /\ GameFits(rooms[x]) /\ Exists(x)
      /\ rooms[x].started /\ ~rooms[x].game.over
      /\ op[c].seat \in Seats /\ SeatOwner(rooms[x], op[c].seat) = c
  BY <1>1, CommandFinds DEF Passes, Locked
<1>3. [rooms[x] EXCEPT !.game.over = TRUE, !.game.winner = 1 - op[c].seat] = r
  BY <1>2 DEF RoomRecords, Game!Views
<1>4. /\ r \in RoomRecords /\ r.started /\ r.host = rooms[x].host
      /\ r.guest = rooms[x].guest /\ r.game = g /\ r.rematch = rooms[x].rematch
  <2>1. 1 - op[c].seat \in Seats
    BY <1>2 DEF Seats
  <2>2. g \in Game!Views
    BY <1>2, <2>1 DEF RoomRecords, Game!Views, Seats, Game!Seats
  <2> HIDE DEF g
  <2> QED
    BY <1>2, <2>2 DEF RoomRecords
<1>5. rooms' = [rooms EXCEPT ![x] = r]
  BY <1>1, <1>3
<1> HIDE DEF r, x
<1>6. /\ Tables[x] = TableOf(rooms[x]) /\ Life!Turns(x, TableOf(r))
  <2>1. /\ Locked(c, "resign") /\ Passes(c) /\ "resign" \in Commands /\ drawn' = drawn
        /\ r \in RoomRecords /\ rooms' = [rooms EXCEPT ![x] = r]
    BY <1>1, <1>4, <1>5
  <2> HIDE DEF g
  <2> QED
    BY <2>1, CommandTurns DEF x
<1>7. /\ Tables[x] = Life!Playing(rooms[x].host, rooms[x].guest, rooms[x].game, rooms[x].rematch)
      /\ Tables[x].stage = "game" /\ Tables[x].view = rooms[x].game
      /\ Tables[x].guest = rooms[x].guest
  BY <1>2, <1>6, TableFields
<1>8. TableOf(r) = [Tables[x] EXCEPT !.view.over = TRUE, !.view.winner = 1 - op[c].seat]
  <2> DEFINE T == Tables[x]
             w == 1 - op[c].seat
  <2>1. T = Life!Playing(rooms[x].host, rooms[x].guest, rooms[x].game, rooms[x].rematch)
    BY <1>7
  <2>2. g = [T.view EXCEPT !.over = TRUE, !.winner = w]
    BY <1>7
  <2> HIDE DEF T, w, g
  <2>3. TableOf(r) = [T EXCEPT !.view = g]
    BY <1>4, <2>1, TableFields DEF Life!Playing
  <2>4. [T EXCEPT !.view = g] = [T EXCEPT !.view.over = TRUE, !.view.winner = w]
    BY <2>1, <2>2 DEF Life!Playing
  <2> QED
    BY <2>3, <2>4 DEF T, w
<1>9. op[c].seat = 1 => Tables[x].guest # Nobody
  BY <1>2, <1>7, NobodyAssumption DEF SeatOwner
<1>10. Life!Turns(x, [Tables[x] EXCEPT !.view.over = TRUE, !.view.winner = 1 - op[c].seat])
  BY <1>6, <1>8
<1>11. Life!Resign(x, op[c].seat)
  BY <1>2, <1>7, <1>9, <1>10 DEF Life!Resign, Life!InGame, Tables
<1> QED
  BY <1>2, <1>11, LifeGoesOn

\* A player asks for the next game, which starts when that was all it took.
LEMMA RematchLives ==
    ASSUME RoomInvariant, NEW c \in Clients, Rematch(c)
    PROVE  Life!Next
<1> DEFINE x == op[c].room
           seat == op[c].seat
           r == [rooms[x] EXCEPT !.game = Game!NewView, !.rematch = {}]
           q == [rooms[x] EXCEPT !.rematch = Requests(c)]
<1>1. Locked(c, "rematch") /\ Passes(c) /\ "rematch" \in Commands
  BY OnlyCommands DEF Rematch
<1>2. /\ x \in Codes /\ rooms[x] \in RoomRecords /\ GameFits(rooms[x]) /\ Exists(x)
      /\ rooms[x].started /\ rooms[x].game.over /\ seat \in Seats
  BY <1>1, CommandFinds DEF Passes, Locked
<1>3. Requests(c) = rooms[x].rematch \cup {seat} /\ Requests(c) \subseteq Seats
  BY <1>2 DEF Requests, RoomRecords, Seats
<1>4. /\ r \in RoomRecords /\ r.started /\ r.host = rooms[x].host
      /\ r.guest = rooms[x].guest /\ r.game = Game!NewView /\ r.rematch = {}
  BY <1>2, NewViewIsView DEF RoomRecords
<1>5. /\ q \in RoomRecords /\ q.started /\ q.host = rooms[x].host
      /\ q.guest = rooms[x].guest /\ q.game = rooms[x].game /\ q.rematch = Requests(c)
  BY <1>2, <1>3 DEF RoomRecords
<1>6. /\ Tables[x] = Life!Playing(rooms[x].host, rooms[x].guest, rooms[x].game, rooms[x].rematch)
      /\ Tables[x].stage = "game" /\ Tables[x].view = rooms[x].game
      /\ Tables[x].host = rooms[x].host /\ Tables[x].guest = rooms[x].guest
      /\ Tables[x].votes = rooms[x].rematch
  BY <1>2, TableIs, TableFields
<1>7. /\ rooms[x].mode = "ai" => Tables[x].guest = Nobody
      /\ rooms[x].mode # "ai" => Tables[x].guest # Nobody
  BY <1>2, <1>6 DEF GameFits, RoomRecords
<1>8. CASE rooms[x].mode = "ai" \/ Requests(c) = Seats
  <2>1. rooms' = [rooms EXCEPT ![x] = r] /\ drawn' = drawn
    BY <1>8 DEF Rematch, SaveAndTell
  <2> HIDE DEF r, x, seat
  <2>2. Life!Turns(x, TableOf(r))
    BY <1>1, <1>4, <2>1, CommandTurns DEF x
  <2>3. TableOf(r) = Life!Playing(Tables[x].host, Tables[x].guest, Life!Game!NewView, {})
    <3>1. TableOf(r) = Life!Playing(r.host, r.guest, r.game, r.rematch)
      BY <1>4, TableFields
    <3> QED
      BY <1>4, <1>6, <3>1, SameOutcomes
  <2>4. Life!Turns(x, Life!Playing(Tables[x].host, Tables[x].guest, Life!Game!NewView, {}))
    BY <2>2, <2>3
  <2>5. Tables[x].guest = Nobody \/ Tables[x].votes \cup {seat} = Life!Seats
    BY <1>3, <1>6, <1>7, <1>8, SameOutcomes
  <2>6. Life!Again(x, seat)
    BY <1>2, <1>6, <2>4, <2>5 DEF Life!Again, Life!InGame, Tables
  <2> QED
    BY <1>2, <2>6, LifeGoesOn
<1>9. CASE ~(rooms[x].mode = "ai" \/ Requests(c) = Seats)
  <2>1. rooms' = [rooms EXCEPT ![x] = q] /\ drawn' = drawn
    <3>1. rooms' = [rooms EXCEPT ![x].rematch = Requests(c)] /\ drawn' = drawn
      BY <1>9 DEF Rematch
    <3> QED
      BY <1>2, <3>1
  <2> HIDE DEF q, x, seat
  <2>2. Life!Turns(x, TableOf(q))
    BY <1>1, <1>5, <2>1, CommandTurns DEF x
  <2>3. TableOf(q) = [Tables[x] EXCEPT !.votes = @ \cup {seat}]
    BY <1>3, <1>5, <1>6, TableFields DEF Life!Playing
  <2>4. Life!Turns(x, [Tables[x] EXCEPT !.votes = @ \cup {seat}])
    BY <2>2, <2>3
  <2>5. Tables[x].guest # Nobody /\ Tables[x].votes \cup {seat} # Life!Seats
    BY <1>3, <1>6, <1>7, <1>9, SameOutcomes
  <2>6. Life!Ask(x, seat)
    BY <1>2, <1>6, <2>4, <2>5 DEF Life!Ask, Life!InGame, Tables
  <2> QED
    BY <1>2, <2>6, LifeGoesOn
<1> QED
  BY <1>8, <1>9

\* The guest stands up before the start.
LEMMA ReleaseSeatLives ==
    ASSUME RoomInvariant, NEW c \in Clients, ReleaseSeat(c)
    PROVE  Life!Next
<1> DEFINE x == op[c].room
           r == [rooms[x] EXCEPT !.guest = Nobody, !.ready = FALSE]
<1>1. /\ op[c].kind = "unbound" /\ op[c] \in Ops /\ Exists(x) /\ ~rooms[x].started
      /\ op[c].seat = 1 /\ rooms' = [rooms EXCEPT ![x] = r] /\ drawn' = drawn
      /\ rooms \in [Codes -> RoomRecords \cup {NoRoom}]
  BY DEF ReleaseSeat, RoomInvariant, Typed
<1>2. x \in Codes
  BY <1>1, KindsDiffer, OpShape
<1>3. rooms[x].guest = c
  BY <1>1 DEF RoomInvariant, SeatsAreOwned, Seats, SeatOwner
<1>4. rooms[x] \in RoomRecords
  BY <1>1, <1>2 DEF Exists
<1>5. /\ r \in RoomRecords /\ ~r.started
      /\ r.host = rooms[x].host /\ r.guest = Nobody /\ r.ready = FALSE
  BY <1>1, <1>4 DEF RoomRecords
<1> HIDE DEF r, x
<1>6. Life!Turns(x, TableOf(r)) /\ Tables[x] = TableOf(rooms[x])
  BY <1>1, <1>2, <1>5, SaveTurns, TableIs
<1>7. /\ Tables[x].stage = "lobby" /\ Tables[x].guest # Nobody
      /\ Tables[x].host = rooms[x].host
  BY <1>1, <1>3, <1>6, TableFields, NobodyAssumption
<1>8. TableOf(r) = Life!Lobby(Tables[x].host, Nobody, FALSE)
  <2>1. TableOf(r) = Life!Lobby(r.host, r.guest, r.ready)
    BY <1>5, TableFields
  <2> QED
    BY <1>5, <1>7, <2>1
<1>9. Life!Turns(x, Life!Lobby(Tables[x].host, Nobody, FALSE))
  BY <1>6, <1>8
<1>10. Life!Stand(x)
  BY <1>7, <1>9 DEF Life!Stand, Life!InLobby, Tables
<1> QED
  BY <1>2, <1>10, LifeGoesOn

\* A room is closed, once or again.
LEMMA CloseRoomLives ==
    ASSUME RoomInvariant, NEW c \in Clients, CloseRoom(c)
    PROVE  Life!Next
<1> DEFINE x == op[c].room
<1>1. /\ op[c].kind = "closing" /\ op[c] \in Ops /\ drawn' = drawn
      /\ rooms' = [rooms EXCEPT ![x] = NoRoom]
      /\ rooms \in [Codes -> RoomRecords \cup {NoRoom}]
  BY DEF CloseRoom, RoomInvariant, Typed
<1>2. x \in Codes /\ x \in drawn
  BY <1>1, KindsDiffer, OpShape DEF RoomInvariant, NamesAreDrawn
<1> HIDE DEF x
<1>3. ASSUME NEW y \in Codes
      PROVE  Tables'[y] = IF y = x THEN Life!Closed ELSE Tables[y]
  <2>1. CASE y = x
    <3>1. rooms'[y] = NoRoom /\ y \in drawn'
      BY <1>1, <1>2, <2>1
    <3>2. LifeOf(y)' = Life!Closed
      BY <3>1 DEF LifeOf, Exists, Life!Closed
    <3> QED
      BY <2>1, <3>2 DEF Tables
  <2>2. CASE y # x
    <3>1. rooms'[y] = rooms[y] /\ (y \in drawn' <=> y \in drawn)
      BY <1>1, <2>2
    <3>2. LifeOf(y)' = LifeOf(y)
      BY <3>1 DEF LifeOf, Exists
    <3> QED
      BY <2>2, <3>2 DEF Tables
  <2> QED
    BY <2>1, <2>2
<1>4. Tables' = [Tables EXCEPT ![x] = Life!Closed]
  BY <1>3 DEF Tables
<1>5. Tables[x] # Life!Free
  <2>1. Life!Closed # Life!Free
    BY DEF Life!Closed, Life!Free
  <2> QED
    BY <1>2, <2>1, TableIs, TableFields
<1>6. Life!Turns(x, Life!Closed)
  BY <1>4 DEF Life!Turns, Tables
<1>7. Life!Close(x)
  BY <1>5, <1>6 DEF Life!Close, Tables
<1> QED
  BY <1>2, <1>7, LifeGoesOn

\* No step does anything to a table but what belongs to its life.
LEMMA EveryStepLives ==
    ASSUME RoomInvariant, [Next]_vars
    PROVE  Life!Next \/ Tables' = Tables
<1>1. ASSUME rooms' = rooms, drawn' = drawn
      PROVE  Tables' = Tables
  BY <1>1 DEF Tables, LifeOf, Exists
<1>2. ASSUME NEW c \in Clients, Handler(c)
      PROVE  Life!Next \/ Tables' = Tables
  <2>1. EnterCreated(c) \/ EnterJoined(c) \/ ReadSeat(c) \/ Refuse(c) \/ GiveUp(c)
          \/ Unbind(c) \/ AnnounceLeave(c) => rooms' = rooms /\ drawn' = drawn
    BY DEF EnterCreated, EnterJoined, ReadSeat, Refuse, GiveUp, Unbind, AnnounceLeave, redis
  <2> QED
    BY <1>1, <1>2, <2>1, SetReadyLives, StartGameLives, PlayerMoveLives, ResignLives,
       RematchLives, ReleaseSeatLives, CloseRoomLives DEF Handler
<1>3. ASSUME NEW c \in Clients,
             \/ \E kind \in Commands : Begin(c, kind)
             \/ BeginLeave(c) \/ Disconnect(c) \/ Cancel(c)
      PROVE  Tables' = Tables
  <2>1. rooms' = rooms /\ drawn' = drawn
    BY <1>3 DEF Begin, BeginLeave, Disconnect, Cancel, redis
  <2> QED
    BY <1>1, <2>1
<1>4. ASSUME NEW x \in Codes, Ai(x)
      PROVE  Life!Next \/ Tables' = Tables
  BY <1>1, <1>4, AiMoveLives DEF Ai, AiGivesUp, redis
<1>5. ASSUME NEW i \in Instances, Dispatch(i)
      PROVE  Tables' = Tables
  BY <1>1, <1>5 DEF Dispatch
<1>6. ASSUME UNCHANGED vars
      PROVE  Tables' = Tables
  BY <1>1, <1>6 DEF vars, redis
<1> QED
  BY <1>2, <1>3, <1>4, <1>5, <1>6, CreateRoomLives, JoinSeat1Lives DEF Next

\* Every room lives the life that RoomLife promises: it is opened, played at by those who
\* sit there, and closed for good, whatever handlers, tasks and messages interleave.
THEOREM RoomsLive == Spec => ImplementsRoomLife
<1>1. Init => Life!Init
  BY DEF Init, Life!Init, Life!Free, LifeOf, Exists
<1>2. RoomInvariant /\ [Next]_vars => [Life!Next]_([x \in Codes |-> LifeOf(x)])
  BY EveryStepLives DEF Tables
<1> QED
  BY <1>1, <1>2, RoomsHold, PTL DEF Spec, ImplementsRoomLife, Life!Spec
=============================================================================
