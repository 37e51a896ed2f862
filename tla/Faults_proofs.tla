----------------------------- MODULE Faults_proofs -----------------------------
(***************************************************************************)
(* Proofs about Faults for every number of users, server instances and     *)
(* codes, and every number of faults on every set of instances.  They use  *)
(* the invariant of Matchmaking_proofs, which the faults keep, and say     *)
(* what a fault leaves behind.                                             *)
(***************************************************************************)
EXTENDS Faults, Matchmaking_proofs

-----------------------------------------------------------------------------
(* The inductive invariant of faults. *)

\* An instance that closes has only to clean up for clients of its own, and has cleaned
\* up for the others; when it has stopped in time none of them is in a room.
ClosingFits ==
    /\ closing = [i \in Instances |-> closing[i]]
    /\ \A i \in Instances :
          /\ closing[i].at \in {"running", "closing", "stopped"}
          /\ closing[i].at = "running" => closing[i] = Running
          /\ closing[i].at = "closing" =>
                /\ closing[i] = [at |-> "closing", clients |-> closing[i].clients,
                                 left |-> closing[i].left]
                /\ closing[i].left \subseteq ClientsOf(i)
                /\ \A c \in ClientsOf(i) \ closing[i].left : ~InRoom(c)
          /\ closing[i].at = "stopped" /\ closing[i].inTime =>
                \A c \in ClientsOf(i) : ~InRoom(c)

\* Nobody is connected to an instance that does not run, and nothing runs on one that
\* has stopped; one who is gone has left no room behind, but with the instance.
DownAreDown ==
    \A c \in Clients :
        /\ ~Up(Host[c]) => alive[c] # "up"
        /\ Up(Host[c]) /\ alive[c] = "gone" => op[c] = Idle /\ ~InRoom(c)
        /\ closing[Host[c]].at = "stopped" =>
              op[c] = Idle /\ (InRoom(c) => member[c].room \in lost.rooms)

\* The model of faults has no games.
NobodyPlays == \A c \in Clients : op[c].kind \notin Commands

LostFits == lost = [clients |-> lost.clients, rooms |-> lost.rooms]

\* One who waits looks at the menu and is in no room; it is in the queue or being seated
\* unless it was lost.
Found(c) == c \in queue \/ HasMail(c) \/ \E p \in Procs : Moves(p, c)
WaitersKept ==
    \A c \in Clients : alive[c] = "up" =>
        /\ ~InRoom(c) => shown[c] = Menu
        /\ waiting[c] => ~InRoom(c) /\ (c \in lost.clients \/ Found(c))

\* Whatever names a code names one that was drawn.
NamesAreDrawn ==
    /\ drawn \subseteq Codes
    /\ \A x \in Codes : Exists(x) => x \in drawn
    /\ \A c \in Clients : InRoom(c) => member[c].room \in drawn
    /\ \A c \in Clients : op[c].kind \notin {"idle", "match"} => op[c].room \in drawn
    /\ \A p \in Procs : At(p, "bind") => proc[p].room \in drawn
    /\ \A i \in Instances : \A k \in Queued(i) :
          channel[i][k].type # "room" => channel[i][k].room \in drawn

HasHost(r) == "host" \in DOMAIN r /\ r.host \in Clients
RoomsFit ==
    rooms = [x \in Codes |-> rooms[x]] /\ \A x \in Codes : Exists(x) => HasHost(rooms[x])

\* A client has announced the end of a room; it is on its way into the first seat of a
\* room, in it, or on its way out.
Closes(c, x) == op[c].kind = "closing" /\ op[c].room = x
Closing(x) == \E c \in Clients : Closes(c, x)
Stands(c, x) ==
    \/ op[c].kind = "created" /\ op[c].room = x
    \/ op[c].kind = "unbound" /\ op[c].room = x /\ op[c].seat = 0
    \/ member[c] = [room |-> x, seat |-> 0]
    \/ \E p \in Procs : At(p, "bind") /\ proc[p].room = x /\ p[1] = c

\* It is the host who keeps a room, not the guest: a guest who leaves after the host is
\* not told of the room any more.
RoomsKept ==
    \A x \in Codes : Exists(x) => x \in lost.rooms \/ Closing(x) \/ Stands(rooms[x].host, x)

\* The news that a room closes is true.
IsTrue(m) ==
    m.type = "leave" => m.room \in lost.rooms \/ Closing(m.room) \/ ~Exists(m.room)
LeavesAreTrue == \A i \in Instances : \A k \in Queued(i) : IsTrue(channel[i][k])

FaultInvariant ==
    /\ PairInvariant
    /\ ClosingFits /\ DownAreDown /\ NobodyPlays /\ LostFits
    /\ WaitersKept
    /\ NamesAreDrawn
    /\ RoomsFit /\ RoomsKept /\ LeavesAreTrue

-----------------------------------------------------------------------------
(* What a step must not do, and why that is enough. *)

\* Nobody connects again; one who is gone does nothing and sits down nowhere.
GoneStayGone ==
    \A c \in Clients :
        /\ alive'[c] = "up" => alive[c] = "up"
        /\ alive'[c] = "gone" => \/ alive[c] = "gone" \/ ~Up(Host[c])
                                 \/ op'[c] = Idle /\ ~InRoom(c)'
        /\ \/ op'[c] = op[c] \/ op'[c] = Idle
           \/ /\ alive[c] # "gone" \/ ~Up(Host[c])
              /\ closing[Host[c]].at # "stopped"
              /\ op'[c].kind \notin Commands
        /\ InRoom(c)' => member'[c] = member[c] \/ alive[c] = "up"
LostGrows ==
    /\ LostFits'
    /\ lost.clients \subseteq lost'.clients /\ lost.rooms \subseteq lost'.rooms

\* One who waits goes on to look at the menu until it is seated.
WaitersGoOn ==
    \A c \in Clients : alive[c] = "up" /\ alive'[c] = "up" =>
        /\ ~InRoom(c)' => shown'[c] = Menu \/ (~InRoom(c) /\ shown'[c] = shown[c])
        /\ waiting'[c] =>
              /\ ~InRoom(c)'
              /\ waiting[c] \/ Found(c)'
              /\ Found(c) => Found(c)' \/ c \in lost'.clients

\* A message is an old one.
Sent(i, k) == \E j \in Queued(i) : channel'[i][k] = channel[i][j]

\* Codes are drawn before they are used.
NamesGoOn ==
    /\ drawn \subseteq drawn' /\ drawn' \subseteq Codes
    /\ \A x \in Codes : Exists(x)' => Exists(x) \/ x \in drawn'
    /\ \A c \in Clients :
          /\ InRoom(c)' => member'[c] = member[c] \/ member'[c].room \in drawn'
          /\ \/ op'[c] = op[c] \/ op'[c].kind \in {"idle", "match"}
             \/ op'[c].room \in drawn'
    /\ \A p \in Procs : At(p, "bind")' => proc'[p] = proc[p] \/ proc'[p].room \in drawn'
    /\ \A i \in Instances : \A k \in Queued(i)' :
          Sent(i, k) \/ channel'[i][k].type = "room" \/ channel'[i][k].room \in drawn'

\* A room is kept, or somebody has announced its end, or it is lost.
RoomsGoOn ==
    /\ rooms' = [x \in Codes |-> rooms'[x]]
    /\ \A x \in Codes : Exists(x)' =>
          /\ HasHost(rooms'[x])
          /\ \/ Exists(x) /\ rooms'[x].host = rooms[x].host
             \/ x \notin drawn /\ Stands(rooms[x].host, x)'
    /\ \A x \in Codes : Exists(x) /\ Exists(x)' =>
          /\ Closing(x) => Closing(x)' \/ x \in lost'.rooms
          /\ \A c \in Clients : rooms[x].host = c /\ Stands(c, x) =>
                Stands(c, x)' \/ Closing(x)' \/ x \in lost'.rooms
    /\ \A i \in Instances : \A k \in Queued(i)' :
          Sent(i, k) \/ IsTrue(channel[i][k])'

\* Nobody comes back to an instance that does not run.
LEMMA DownStaysDown ==
    ASSUME FaultInvariant, GoneStayGone, LostGrows, closing' = closing
    PROVE  ClosingFits' /\ DownAreDown' /\ NobodyPlays'
<1>1. \A c \in Clients : Up(Host[c])' <=> Up(Host[c])
  BY DEF Up
<1>2. ASSUME NEW c \in Clients
      PROVE  /\ ~Up(Host[c])' => alive'[c] # "up"
             /\ Up(Host[c])' /\ alive'[c] = "gone" => op'[c] = Idle /\ ~InRoom(c)'
             /\ closing'[Host[c]].at = "stopped" =>
                   op'[c] = Idle /\ (InRoom(c)' => member'[c].room \in lost'.rooms)
  <2>1. ~Up(Host[c]) => alive[c] # "up"
    BY DEF FaultInvariant, DownAreDown
  <2>2. Up(Host[c]) /\ alive[c] = "gone" => op[c] = Idle /\ ~InRoom(c)
    BY DEF FaultInvariant, DownAreDown
  <2>3. closing[Host[c]].at = "stopped" =>
           op[c] = Idle /\ (InRoom(c) => member[c].room \in lost.rooms) /\ ~Up(Host[c])
    BY DEF FaultInvariant, DownAreDown, Up, Running
  <2>4. InRoom(c)' => (member'[c] = member[c] /\ InRoom(c)) \/ alive[c] = "up"
    BY DEF GoneStayGone, InRoom
  <2>5. ~Up(Host[c])' => alive'[c] # "up"
    BY <1>1, <2>1 DEF GoneStayGone
  <2>6. Up(Host[c])' /\ alive'[c] = "gone" => op'[c] = Idle /\ ~InRoom(c)'
    BY <1>1, <2>2, <2>4 DEF GoneStayGone
  <2>7. closing'[Host[c]].at = "stopped" =>
           op'[c] = Idle /\ (InRoom(c)' => member'[c].room \in lost'.rooms)
    BY <2>1, <2>3, <2>4 DEF GoneStayGone, LostGrows
  <2> QED
    BY <2>5, <2>6, <2>7
<1>3. ASSUME NEW c \in Clients, closing[Host[c]].at \in {"closing", "stopped"}, ~InRoom(c)
      PROVE  ~InRoom(c)'
  <2>1. alive[c] # "up"
    BY <1>3 DEF FaultInvariant, DownAreDown, Up, Running
  <2> QED
    BY <1>3, <2>1 DEF GoneStayGone, InRoom
<1>4. ClosingFits'
  <2>1. \A i \in Instances :
          /\ closing'[i].at = "closing" =>
                \A c \in ClientsOf(i) \ closing'[i].left : ~InRoom(c)'
          /\ closing'[i].at = "stopped" /\ closing'[i].inTime =>
                \A c \in ClientsOf(i) : ~InRoom(c)'
    BY <1>3 DEF FaultInvariant, ClosingFits, ClientsOf
  <2> QED
    BY <2>1 DEF FaultInvariant, ClosingFits
<1>5. NobodyPlays'
  <2>1. Idle.kind \notin Commands
    BY KindsDiffer DEF Idle
  <2> QED
    BY <2>1 DEF FaultInvariant, NobodyPlays, GoneStayGone
<1> QED
  BY <1>2, <1>4, <1>5 DEF DownAreDown

\* One who waits is found or lost.
LEMMA WaitersStayKept ==
    ASSUME FaultInvariant, WaitersGoOn, LostGrows,
           \A c \in Clients : alive'[c] = "up" => alive[c] = "up"
    PROVE  WaitersKept'
<1> SUFFICES ASSUME NEW c \in Clients, alive'[c] = "up"
             PROVE  /\ ~InRoom(c)' => shown'[c] = Menu
                    /\ waiting'[c] => ~InRoom(c)' /\ (c \in lost'.clients \/ Found(c)')
  BY DEF WaitersKept
<1>1. /\ ~InRoom(c) => shown[c] = Menu
      /\ waiting[c] => ~InRoom(c) /\ (c \in lost.clients \/ Found(c))
  BY DEF FaultInvariant, WaitersKept
<1> QED
  BY <1>1 DEF WaitersGoOn, LostGrows

\* Names stay drawn.
LEMMA NamesStayDrawn ==
    ASSUME FaultInvariant, NamesGoOn
    PROVE  NamesAreDrawn'
<1>1. \A x \in Codes : Exists(x)' => x \in drawn'
  BY DEF FaultInvariant, NamesAreDrawn, NamesGoOn
<1>2. \A c \in Clients : InRoom(c)' => member'[c].room \in drawn'
  BY DEF FaultInvariant, NamesAreDrawn, NamesGoOn, InRoom
<1>3. \A c \in Clients : op'[c].kind \notin {"idle", "match"} => op'[c].room \in drawn'
  BY DEF FaultInvariant, NamesAreDrawn, NamesGoOn
<1>4. \A p \in Procs : At(p, "bind")' => proc'[p].room \in drawn'
  BY DEF FaultInvariant, NamesAreDrawn, NamesGoOn, At
<1>5. ASSUME NEW i \in Instances, NEW k \in Queued(i)', channel'[i][k].type # "room"
      PROVE  channel'[i][k].room \in drawn'
  <2>1. CASE Sent(i, k)
    <3>1. PICK j \in Queued(i) : channel'[i][k] = channel[i][j]
      BY <2>1 DEF Sent
    <3> QED
      BY <1>5, <3>1 DEF FaultInvariant, NamesAreDrawn, NamesGoOn
  <2> QED
    BY <1>5, <2>1 DEF NamesGoOn
<1> QED
  BY <1>1, <1>2, <1>3, <1>4, <1>5 DEF NamesAreDrawn, NamesGoOn

\* Rooms stay kept.
LEMMA RoomsStayKept ==
    ASSUME FaultInvariant, RoomsGoOn, LostGrows
    PROVE  RoomsFit' /\ RoomsKept' /\ LeavesAreTrue'
<1>1. RoomsFit'
  BY DEF RoomsGoOn, RoomsFit
<1>2. ASSUME NEW x \in Codes, Exists(x)'
      PROVE  x \in lost'.rooms \/ Closing(x)' \/ Stands(rooms[x].host, x)'
  <2>1. CASE x \notin drawn
    BY <1>2, <2>1 DEF RoomsGoOn, FaultInvariant, NamesAreDrawn
  <2>2. CASE x \in drawn
    <3>1. Exists(x) /\ rooms'[x].host = rooms[x].host
      BY <1>2, <2>2 DEF RoomsGoOn
    <3>2. PICK c \in Clients : c = rooms[x].host
      BY <3>1 DEF FaultInvariant, RoomsFit, HasHost
    <3>3. x \in lost.rooms \/ Closing(x) \/ Stands(c, x)
      BY <3>1, <3>2 DEF FaultInvariant, RoomsKept
    <3>4. x \in lost'.rooms \/ Closing(x)' \/ Stands(c, x)'
      BY <1>2, <3>1, <3>2, <3>3 DEF RoomsGoOn, LostGrows
    <3>5. Stands(c, x)' => Stands(rooms[x].host, x)'
      BY <3>1, <3>2 DEF Stands
    <3> QED
      BY <3>4, <3>5
  <2> QED
    BY <2>1, <2>2
<1>3. ASSUME NEW i \in Instances, NEW k \in Queued(i)'
      PROVE  IsTrue(channel[i][k])'
  <2>1. CASE Sent(i, k)
    <3>1. PICK j \in Queued(i) : channel'[i][k] = channel[i][j]
      BY <2>1 DEF Sent
    <3>2. PICK m : m = channel[i][j]
      OBVIOUS
    <3>3. ASSUME m.type = "leave"
          PROVE  m.room \in lost'.rooms \/ Closing(m.room)' \/ ~Exists(m.room)'
      <4>1. /\ m.room \in lost.rooms \/ Closing(m.room) \/ ~Exists(m.room)
            /\ m.room \in drawn /\ m.room \in Codes
        BY <3>2, <3>3 DEF FaultInvariant, LeavesAreTrue, IsTrue, NamesAreDrawn
      <4> QED
        BY <4>1 DEF RoomsGoOn, LostGrows
    <3>4. IsTrue(m)' => IsTrue(channel[i][k])'
      BY <3>1, <3>2
    <3> QED
      BY <3>3, <3>4 DEF IsTrue
  <2> QED
    BY <2>1 DEF RoomsGoOn
<1> QED
  BY <1>1, <1>2, <1>3 DEF RoomsKept, LeavesAreTrue

\* All of it, for a step in which no instance changes its state.
LEMMA FaultsKept ==
    ASSUME FaultInvariant, PairInvariant', closing' = closing,
           GoneStayGone, LostGrows, WaitersGoOn, NamesGoOn, RoomsGoOn
    PROVE  FaultInvariant'
<1>1. \A c \in Clients : alive'[c] = "up" => alive[c] = "up"
  BY DEF GoneStayGone
<1> QED
  BY <1>1, DownStaysDown, WaitersStayKept, NamesStayDrawn, RoomsStayKept
     DEF FaultInvariant, LostGrows

-----------------------------------------------------------------------------
(* Pairing. *)

\* Nothing is published, or what is published comes after the older messages.
LEMMA OldMessages ==
    ASSUME FaultInvariant
    PROVE  /\ channel' = channel => \A i \in Instances : \A k \in Queued(i)' : Sent(i, k)
           /\ \A m : Publish(m) /\ (m.type = "bind" => m.to \in Clients /\ m.room \in Codes)
                 => \A i \in Instances : \A k \in Queued(i)' :
                       Sent(i, k) \/ channel'[i][k] = m
<1>1. ChannelFits
  BY DEF FaultInvariant, PairInvariant, Typed
<1>2. ASSUME NEW m, Publish(m), m.type = "bind" => m.to \in Clients /\ m.room \in Codes
      PROVE  \A i \in Instances : \A k \in Queued(i)' : Sent(i, k) \/ channel'[i][k] = m
  BY <1>1, <1>2, Publishes DEF Sent
<1>3. ASSUME channel' = channel
      PROVE  \A i \in Instances : \A k \in Queued(i)' : Sent(i, k)
  BY <1>3 DEF Queued, Sent
<1> QED
  BY <1>2, <1>3

\* What processes do to rooms and names: a process that has made a room seats the host
\* in it or loses it.
LEMMA ProcessesKeepRooms ==
    ASSUME FaultInvariant, UNCHANGED <<rooms, drawn>>, LostGrows,
           \A i \in Instances : \A k \in Queued(i)' :
              Sent(i, k) \/ (channel'[i][k].type # "leave"
                             /\ (channel'[i][k].type = "bind" => channel'[i][k].room \in drawn)
                             /\ channel'[i][k].type \in {"bind", "room"}),
           \A c \in Clients :
              /\ alive'[c] = "up" => alive[c] = "up"
              /\ alive'[c] = "gone" => \/ alive[c] = "gone" \/ ~Up(Host[c])
                                       \/ op'[c] = Idle /\ ~InRoom(c)'
              /\ \/ op'[c] = op[c]
                 \/ op[c].kind \in {"match", "idle"} /\ op'[c] = Idle
                 \/ op[c] = Idle /\ alive[c] = "up" /\ op'[c] = [kind |-> "match"]
              /\ \/ member'[c] = member[c]
                 \/ ~InRoom(c) /\ alive[c] = "up" /\ member'[c].room \in drawn,
           \A q \in Procs :
              \/ proc'[q] = proc[q]
              \/ /\ ~At(q, "bind")'
                 /\ At(q, "bind") => \A x \in Codes : x = proc[q].room =>
                       x \in lost'.rooms \/ Stands(q[1], x)'
    PROVE  GoneStayGone /\ NamesGoOn /\ RoomsGoOn
<1>1. ASSUME NEW c \in Clients
      PROVE  /\ alive'[c] = "up" => alive[c] = "up"
             /\ alive'[c] = "gone" => \/ alive[c] = "gone" \/ ~Up(Host[c])
                                      \/ op'[c] = Idle /\ ~InRoom(c)'
             /\ \/ op'[c] = op[c] \/ op'[c] = Idle
                \/ /\ alive[c] # "gone" /\ closing[Host[c]].at # "stopped"
                   /\ op'[c].kind \notin Commands
             /\ InRoom(c)' => member'[c] = member[c] \/ alive[c] = "up"
  <2>1. alive[c] = "up" => closing[Host[c]].at # "stopped"
    BY DEF FaultInvariant, DownAreDown, Up, Running
  <2> QED
    BY <2>1, KindsDiffer
<1>2. GoneStayGone
  BY <1>1 DEF GoneStayGone
<1>3. NamesGoOn
  <2>1. \A x \in Codes : Exists(x)' => Exists(x)
    BY DEF Exists
  <2>2. \A c \in Clients :
          /\ InRoom(c)' => member'[c] = member[c] \/ member'[c].room \in drawn'
          /\ op'[c] = op[c] \/ op'[c].kind \in {"idle", "match"}
    BY DEF Idle
  <2>3. \A q \in Procs : At(q, "bind")' => proc'[q] = proc[q]
    OBVIOUS
  <2>4. drawn' \subseteq Codes
    BY DEF FaultInvariant, NamesAreDrawn
  <2> QED
    BY <2>1, <2>2, <2>3, <2>4 DEF NamesGoOn
<1>4. \A x \in Codes : Closing(x) => Closing(x)'
  BY DEF Closing, Closes, Idle
<1>5. ASSUME NEW x \in Codes, NEW c \in Clients, Stands(c, x)
      PROVE  Stands(c, x)' \/ x \in lost'.rooms
  <2>1. CASE op[c].kind = "created" /\ op[c].room = x
    BY <2>1 DEF Stands, Idle
  <2>2. CASE op[c].kind = "unbound" /\ op[c].room = x /\ op[c].seat = 0
    BY <2>2 DEF Stands, Idle
  <2>3. CASE member[c] = [room |-> x, seat |-> 0]
    BY <2>3, NobodyAssumption DEF Stands, InRoom
  <2>4. ASSUME NEW q \in Procs, At(q, "bind"), proc[q].room = x, q[1] = c
        PROVE  Stands(c, x)' \/ x \in lost'.rooms
    <3>1. CASE proc'[q] = proc[q]
      BY <2>4, <3>1 DEF Stands, At
    <3> QED
      BY <2>4, <3>1
  <2> QED
    BY <1>5, <2>1, <2>2, <2>3, <2>4 DEF Stands
<1>6. RoomsGoOn
  <2>1. /\ rooms' = [x \in Codes |-> rooms'[x]]
        /\ \A x \in Codes : Exists(x)' => HasHost(rooms'[x]) /\ Exists(x)
    BY DEF FaultInvariant, RoomsFit, Exists
  <2>2. \A i \in Instances : \A k \in Queued(i)' : Sent(i, k) \/ IsTrue(channel[i][k])'
    BY DEF IsTrue
  <2> QED
    BY <1>4, <1>5, <2>1, <2>2 DEF RoomsGoOn
<1> QED
  BY <1>2, <1>3, <1>6

\* Those who wait, if nobody sits down or gets up.
LEMMA WaitersLookOn ==
    ASSUME FaultInvariant, UNCHANGED <<member, shown>>,
           \A c \in Clients : alive[c] = "up" /\ alive'[c] = "up" /\ waiting'[c] =>
                             /\ waiting[c] \/ (Found(c)' /\ ~InRoom(c))
                             /\ Found(c) => Found(c)' \/ c \in lost'.clients
    PROVE  WaitersGoOn
<1> SUFFICES ASSUME NEW c \in Clients, alive[c] = "up", alive'[c] = "up"
             PROVE  /\ ~InRoom(c)' => shown'[c] = Menu \/ (~InRoom(c) /\ shown'[c] = shown[c])
                    /\ waiting'[c] => /\ ~InRoom(c)'
                                      /\ waiting[c] \/ Found(c)'
                                      /\ Found(c) => Found(c)' \/ c \in lost'.clients
  BY DEF WaitersGoOn
<1>1. InRoom(c)' <=> InRoom(c)
  BY DEF InRoom
<1>2. waiting[c] => ~InRoom(c)
  BY DEF FaultInvariant, WaitersKept
<1> QED
  BY <1>1, <1>2

\* A process goes on without making a room; clients that it is about are found or lost.
LEMMA ProcessMayLose ==
    ASSUME FaultInvariant, PairInvariant', NobodyIsCalled,
           UNCHANGED <<rooms, drawn, hub, shown, waiting, closing>>, LostGrows,
           channel' = channel \/ \E x, t : Publish(ToRoom(x, t)),
           \A c \in Clients : op'[c] = op[c] \/ (op[c].kind = "match" /\ op'[c] = Idle),
           NEW p \in Procs, NEW s, StateFits(p, s), proc' = [proc EXCEPT ![p] = s],
           s.at # "bind", ~At(p, "bind"),
           \A c \in Clients : alive[c] = "up" /\ (c \in queue \/ Moves(p, c))
                                 => c \in queue' \/ Moves(p, c)' \/ c \in lost'.clients
    PROVE  FaultInvariant'
<1>1. LostGrows
  OBVIOUS
<1>2. proc'[p] = s /\ \A q \in Procs : q # p => proc'[q] = proc[q]
  BY ProcessSteps DEF FaultInvariant, PairInvariant, Typed
<1>3. \A i \in Instances : \A k \in Queued(i)' : Sent(i, k) \/ channel'[i][k].type = "room"
  <2>1. ASSUME NEW x, NEW t, Publish(ToRoom(x, t))
        PROVE  \A i \in Instances : \A k \in Queued(i)' :
                  Sent(i, k) \/ channel'[i][k].type = "room"
    BY <2>1, OldMessages DEF ToRoom
  <2> QED
    BY <2>1, OldMessages
<1>4. GoneStayGone /\ NamesGoOn /\ RoomsGoOn
  <2>1. \A q \in Procs : proc'[q] = proc[q] \/ (~At(q, "bind")' /\ ~At(q, "bind"))
    BY <1>2 DEF At
  <2> QED
    BY <1>1, <1>3, <2>1, ProcessesKeepRooms DEF hub
<1>5. ASSUME NEW c \in Clients, alive[c] = "up", Found(c)
      PROVE  Found(c)' \/ c \in lost'.clients
  <2>1. \A q \in Procs : q # p => (Moves(q, c) => Moves(q, c)')
    BY <1>2 DEF Moves
  <2> QED
    BY <1>5, <2>1 DEF Found, NobodyIsCalled
<1>6. WaitersGoOn
  BY <1>5, WaitersLookOn DEF hub
<1> QED
  BY <1>1, <1>4, <1>6, FaultsKept

\* The same, when nothing is lost.
LEMMA ProcessKeepsFaults ==
    ASSUME FaultInvariant, PairInvariant', NobodyIsCalled,
           UNCHANGED <<rooms, drawn, hub, shown, waiting, lost, closing>>,
           channel' = channel \/ \E x, t : Publish(ToRoom(x, t)),
           \A c \in Clients : op'[c] = op[c] \/ (op[c].kind = "match" /\ op'[c] = Idle),
           NEW p \in Procs, NEW s, StateFits(p, s), proc' = [proc EXCEPT ![p] = s],
           s.at # "bind", ~At(p, "bind"),
           \A c \in Clients : alive[c] = "up" /\ (c \in queue \/ Moves(p, c))
                                 => c \in queue' \/ Moves(p, c)'
    PROVE  FaultInvariant'
<1>1. LostGrows
  BY DEF LostGrows, FaultInvariant, LostFits
<1> QED
  BY <1>1, ProcessMayLose

\* The lock of the queue and the search.
LEMMA SearchKeepsFaults ==
    ASSUME FaultInvariant, UNCHANGED <<lost, closing>>, NEW p \in Procs,
           \/ TakeMatchLock(p) \/ MissMatchLock(p)
           \/ Search(p) \/ NoCandidate(p) \/ LeaveAlone(p)
    PROVE  FaultInvariant'
<1>1. PairInvariant /\ PairInvariant'
  BY PairingKeepsPairs DEF FaultInvariant, Pairing
<1>2. /\ UNCHANGED <<hub, waiting, op, queue, shown>> /\ UNCHANGED <<rooms, drawn, channel>>
      /\ NobodyIsCalled
  BY <1>1, NothingPublished
     DEF TakeMatchLock, MissMatchLock, Search, NoCandidate, LeaveAlone, redis
<1>3. proc[p].at \in {"lock", "search", "take", "alone"}
  BY DEF TakeMatchLock, MissMatchLock, Search, NoCandidate, LeaveAlone, At
<1>4. queue \subseteq Clients
  BY <1>1 DEF PairInvariant, Typed, QueueFits
<1>5. PICK s : /\ proc' = [proc EXCEPT ![p] = s]
               /\ \/ \E at \in {"search", "enqueue", "alone"} : s = InState(at, proc[p].round)
                  \/ s = [at |-> "take", round |-> proc[p].round, seen |-> queue \ {p[1]}]
  BY <1>1 DEF TakeMatchLock, MissMatchLock, Search, NoCandidate, LeaveAlone, Goto,
         PairInvariant, Typed, ProcFits
<1>6. StateFits(p, s) /\ s.at \in Looking /\ s.at # "bind"
  BY <1>4, <1>5 DEF StateFits, InState, Resting, Looking, HasPartner
<1>7. proc'[p] = s
  BY <1>1, <1>5, <1>6, ProcessSteps DEF PairInvariant, Typed
<1>8. \A c \in Clients : Moves(p, c) => Moves(p, c)'
  BY <1>3, <1>6, <1>7 DEF Moves, HasPartner
<1>9. ~At(p, "bind")
  BY <1>3 DEF At
<1> QED
  BY <1>1, <1>2, <1>5, <1>6, <1>8, <1>9, ProcessKeepsFaults

\* The partner is taken.
LEMMA TakeCandidateKeepsFaults ==
    ASSUME FaultInvariant, UNCHANGED <<lost, closing>>, NEW p \in Procs, TakeCandidate(p)
    PROVE  FaultInvariant'
<1>1. PairInvariant /\ PairInvariant'
  BY PairingKeepsPairs DEF FaultInvariant, Pairing
<1>2. /\ UNCHANGED <<hub, waiting, op, shown>> /\ UNCHANGED <<rooms, drawn, channel>>
      /\ NobodyIsCalled
  BY <1>1, NothingPublished DEF TakeCandidate, redis
<1>3. At(p, "take") /\ StateFits(p, proc[p])
  BY <1>1 DEF TakeCandidate, PairInvariant, Typed, ProcFits
<1>4. PICK d \in proc[p].seen :
         /\ queue' = queue \ {d}
         /\ proc' = [proc EXCEPT ![p] =
                       IF d \in queue
                       THEN [at |-> "create", round |-> proc[p].round, partner |-> d]
                       ELSE [at |-> "take", round |-> proc[p].round,
                             seen |-> proc[p].seen \ {d}]]
  BY <1>1 DEF TakeCandidate, PairInvariant, Typed, ProcFits
<1>5. PICK s : s = IF d \in queue
                   THEN [at |-> "create", round |-> proc[p].round, partner |-> d]
                   ELSE [at |-> "take", round |-> proc[p].round, seen |-> proc[p].seen \ {d}]
  OBVIOUS
<1>6. StateFits(p, s) /\ s.at \in Looking /\ s.at # "bind"
  BY <1>3, <1>5 DEF StateFits, At, Resting, Looking, HasPartner
<1>7. proc' = [proc EXCEPT ![p] = s]
  BY <1>4, <1>5
<1>8. proc'[p] = s
  BY <1>1, <1>6, <1>7, ProcessSteps DEF PairInvariant, Typed
<1>9. \A c \in Clients : c \in queue \/ Moves(p, c) => c \in queue' \/ Moves(p, c)'
  <2>1. \A c \in Clients : Moves(p, c) => p[1] = c
    BY <1>3 DEF Moves, HasPartner, At
  <2>2. Moves(p, p[1])'
    BY <1>6, <1>8 DEF Moves
  <2>3. d \in queue => Moves(p, d)'
    BY <1>5, <1>8 DEF Moves, HasPartner
  <2> QED
    BY <1>4, <2>1, <2>2, <2>3
<1>10. ~At(p, "bind")
  BY <1>3 DEF At
<1> QED
  BY <1>1, <1>2, <1>6, <1>7, <1>9, <1>10, ProcessKeepsFaults

\* The steps that take nobody out of the queue and make no room.
LEMMA MovingOnKeepsFaults ==
    ASSUME FaultInvariant, UNCHANGED <<lost, closing>>, NEW p \in Procs,
           StartMatch(p) \/ LeavePaired(p) \/ AbandonMatch(p) \/ Wake(p)
    PROVE  FaultInvariant'
<1>1. PairInvariant /\ PairInvariant'
  BY PairingKeepsPairs DEF FaultInvariant, Pairing
<1>2. UNCHANGED <<hub, waiting, queue, shown>> /\ UNCHANGED <<rooms, drawn>>
  BY DEF StartMatch, LeavePaired, AbandonMatch, Wake, redis
<1>3. NobodyIsCalled /\ (channel' = channel \/ \E x, t : Publish(ToRoom(x, t)))
  <2>1. CASE StartMatch(p)
    BY <1>1, <2>1, NewsPublished DEF StartMatch, ToRoom
  <2>2. CASE channel' = channel
    BY <1>1, <2>2, NothingPublished
  <2> QED
    BY <2>1, <2>2 DEF LeavePaired, AbandonMatch, Wake, redis
<1>4. /\ proc[p].at \in {"start", "paired", "lock", "wait"} /\ proc[p] # Resting
      /\ proc[p].at = "lock" => alive[p[1]] # "up"
  BY DEF StartMatch, LeavePaired, AbandonMatch, Wake, At, Resting
<1>5. \A c \in Clients : alive[c] = "up" => ~Moves(p, c)
  BY <1>4 DEF Moves, Looking, HasPartner
<1>6. ~At(p, "bind")
  BY <1>4 DEF At
<1>7. CASE Done(p)
  <2>1. Resting.at # "bind"
    BY DEF Resting
  <2>2. /\ proc' = [proc EXCEPT ![p] = Resting] /\ StateFits(p, Resting)
        /\ \A c \in Clients : op'[c] = op[c] \/ (op[c].kind = "match" /\ op'[c] = Idle)
    BY <1>1, <1>4, <1>7, DoneFits
  <2> QED
    BY <1>1, <1>2, <1>3, <1>5, <1>6, <2>1, <2>2, ProcessKeepsFaults
<1>8. ASSUME NEW at \in {"paired", "remove"}, Goto(p, at), op' = op
      PROVE  FaultInvariant'
  <2> DEFINE s == InState(at, proc[p].round)
  <2>1. proc' = [proc EXCEPT ![p] = s]
    BY <1>1, <1>8 DEF Goto, PairInvariant, Typed, ProcFits
  <2>2. StateFits(p, s) /\ s.at # "bind"
    BY DEF StateFits, InState, Resting, Looking, HasPartner
  <2> QED
    BY <1>1, <1>2, <1>3, <1>5, <1>6, <1>8, <2>1, <2>2, ProcessKeepsFaults
<1> QED
  BY <1>7, <1>8 DEF StartMatch, LeavePaired, AbandonMatch, Wake

\* What a recheck does at the end of a round.
LEMMA NextRoundGoesOn ==
    ASSUME PairInvariant, NEW p \in Procs, NextRound(p), proc[p] # Resting
    PROVE  /\ \E s : /\ proc' = [proc EXCEPT ![p] = s] /\ StateFits(p, s)
                     /\ s.at \in {"rest", "wait"}
           /\ \A c \in Clients : op'[c] = op[c] \/ (op[c].kind = "match" /\ op'[c] = Idle)
<1>1. CASE proc[p].round = Rounds
  <2>1. Resting.at = "rest" /\ Done(p)
    BY <1>1 DEF Resting, NextRound
  <2>2. /\ proc' = [proc EXCEPT ![p] = Resting] /\ StateFits(p, Resting)
        /\ \A c \in Clients : op'[c] = op[c] \/ (op[c].kind = "match" /\ op'[c] = Idle)
    BY <2>1, DoneFits
  <2> QED
    BY <2>1, <2>2
<1>2. CASE proc[p].round # Rounds
  <2> DEFINE s == InState("wait", proc[p].round + 1)
  <2>1. proc' = [proc EXCEPT ![p] = s] /\ op' = op
    BY <1>2 DEF NextRound, PairInvariant, Typed, ProcFits
  <2>2. StateFits(p, s) /\ s.at = "wait"
    BY DEF StateFits, InState, Resting, Looking, HasPartner
  <2> QED
    BY <2>1, <2>2
<1> QED
  BY <1>1, <1>2

\* A recheck puts its client back or takes it out.
LEMMA RecheckKeepsFaults ==
    ASSUME FaultInvariant, UNCHANGED <<lost, closing>>, NEW p \in Procs,
           Requeue(p) \/ RemoveOwn(p)
    PROVE  FaultInvariant'
<1>1. PairInvariant /\ PairInvariant'
  BY PairingKeepsPairs DEF FaultInvariant, Pairing
<1>2. /\ UNCHANGED <<hub, waiting, shown>> /\ UNCHANGED <<rooms, drawn, channel>>
      /\ NobodyIsCalled
  BY <1>1, NothingPublished DEF Requeue, RemoveOwn, redis
<1>3. /\ proc[p].at \in {"enqueue", "remove"} /\ proc[p] # Resting /\ ~At(p, "bind")
      /\ At(p, "remove") => \A c \in Clients : ~Moves(p, c)
      /\ \A c \in Clients : Moves(p, c) => p[1] = c
  BY DEF Requeue, RemoveOwn, At, Resting, Moves, Looking, HasPartner
<1>4. ASSUME NextRound(p),
             \A c \in Clients : c \in queue \/ Moves(p, c) => c \in queue'
      PROVE  FaultInvariant'
  <2>1. /\ \E s : /\ proc' = [proc EXCEPT ![p] = s] /\ StateFits(p, s)
                  /\ s.at \in {"rest", "wait"}
        /\ \A c \in Clients : op'[c] = op[c] \/ (op[c].kind = "match" /\ op'[c] = Idle)
    BY <1>1, <1>3, <1>4, NextRoundGoesOn
  <2>2. PICK s : /\ proc' = [proc EXCEPT ![p] = s] /\ StateFits(p, s)
                 /\ s.at \in {"rest", "wait"}
    BY <2>1
  <2> QED
    BY <1>1, <1>2, <1>3, <1>4, <2>1, <2>2, ProcessKeepsFaults
<1>5. CASE Requeue(p)
  BY <1>3, <1>4, <1>5 DEF Requeue
<1>6. CASE RemoveOwn(p) /\ p[1] \notin queue
  <2>1. At(p, "remove") /\ queue' = queue \ {p[1]} /\ NextRound(p)
    BY <1>6 DEF RemoveOwn
  <2> QED
    BY <1>3, <1>4, <1>6, <2>1
<1>7. CASE RemoveOwn(p) /\ p[1] \in queue
  <2> DEFINE s == InState("lock", proc[p].round)
  <2>1. proc' = [proc EXCEPT ![p] = s] /\ op' = op /\ queue' = queue \ {p[1]}
    BY <1>1, <1>7 DEF RemoveOwn, Goto, PairInvariant, Typed, ProcFits
  <2>2. StateFits(p, s) /\ s.at = "lock"
    BY DEF StateFits, InState, Resting, Looking, HasPartner
  <2>3. proc'[p] = s
    BY <1>1, <2>1, <2>2, ProcessSteps DEF PairInvariant, Typed
  <2>4. Moves(p, p[1])'
    BY <2>2, <2>3 DEF Moves, Looking
  <2>5. \A c \in Clients : c \in queue \/ Moves(p, c) => c \in queue' \/ Moves(p, c)'
    BY <1>3, <2>1, <2>4
  <2> QED
    BY <1>1, <1>2, <1>3, <2>1, <2>2, <2>5, ProcessKeepsFaults
<1> QED
  BY <1>5, <1>6, <1>7

\* A read loop puts its client into the queue.
LEMMA EnqueueKeepsFaults ==
    ASSUME FaultInvariant, UNCHANGED <<lost, closing>>, NEW p \in Procs, EnqueueAndWait(p)
    PROVE  FaultInvariant'
<1>1. PairInvariant /\ PairInvariant'
  BY PairingKeepsPairs DEF FaultInvariant, Pairing
<1>2. /\ UNCHANGED <<hub, shown>> /\ UNCHANGED <<rooms, drawn, channel>>
      /\ NobodyIsCalled /\ queue' = queue \cup {p[1]}
  BY <1>1, NothingPublished DEF EnqueueAndWait, redis
<1>3. At(p, "enqueue") /\ p[1] \in Clients /\ p = ReadLoop(p[1])
  BY ProcShape DEF EnqueueAndWait
<1>4. PICK r \in Procs :
         /\ proc[r] = Resting /\ r[1] = p[1]
         /\ proc' = [proc EXCEPT ![p] = Resting, ![r] = InState("wait", 1)]
  <2>1. \A k \in 1..MaxRechecks : <<p[1], k>> \in Procs
    BY <1>3, RoundsAssumption DEF Procs
  <2> QED
    BY <2>1 DEF EnqueueAndWait
<1>5. p # r
  BY <1>3, <1>4 DEF At, Resting
<1>6. /\ proc'[r] = InState("wait", 1) /\ proc'[p] = Resting
      /\ \A q \in Procs : q # p /\ q # r => proc'[q] = proc[q]
  BY <1>1, <1>4, <1>5 DEF PairInvariant, Typed, ProcFits
<1>7. LostGrows
  BY DEF LostGrows, FaultInvariant, LostFits
<1>8. /\ op[p[1]].kind = "match" /\ op' = [op EXCEPT ![p[1]] = Idle]
      /\ \A c \in Clients : op'[c] = op[c] \/ (op[c].kind = "match" /\ op'[c] = Idle)
  <2>1. op[p[1]].kind = "match" /\ op' = [op EXCEPT ![p[1]] = Idle]
    BY <1>1, <1>3 DEF PairInvariant, ReadLoopsFit, EnqueueAndWait, Return, At, Resting
  <2> QED
    BY <1>1, <2>1 DEF PairInvariant, Typed, OpFits
<1>9. \A q \in Procs : proc'[q] = proc[q] \/ (~At(q, "bind")' /\ ~At(q, "bind"))
  <2>1. ~At(p, "bind") /\ ~At(p, "bind")'
    BY <1>3, <1>6 DEF At, Resting
  <2>2. ~At(r, "bind") /\ ~At(r, "bind")'
    BY <1>4, <1>6 DEF At, Resting, InState
  <2> QED
    BY <1>6, <2>1, <2>2
<1>10. GoneStayGone /\ NamesGoOn /\ RoomsGoOn
  BY <1>2, <1>7, <1>8, <1>9, OldMessages, ProcessesKeepRooms DEF hub
<1>11. Moves(p, p[1]) /\ ~InRoom(p[1])
  <2>1. Moves(p, p[1])
    BY <1>3 DEF Moves, Looking, At
  <2> QED
    BY <1>1, <1>3, <2>1 DEF PairInvariant, OneClaim, Placed
<1>12. ASSUME NEW c \in Clients, Found(c)
       PROVE  Found(c)'
  <2>1. CASE \E q \in Procs : q # p /\ q # r /\ Moves(q, c)
    BY <1>6, <2>1 DEF Found, Moves
  <2>2. ~Moves(r, c)
    BY <1>4 DEF Moves, Resting, Looking, HasPartner
  <2>3. CASE Moves(p, c)
    BY <1>2, <1>3, <2>3 DEF Moves, HasPartner, At, Found
  <2>4. CASE c \in queue \/ HasMail(c)
    BY <1>2, <2>4 DEF Found, NobodyIsCalled
  <2> QED
    BY <1>12, <2>1, <2>2, <2>3, <2>4 DEF Found
<1>13. \A c \in Clients : c # p[1] => waiting'[c] = waiting[c]
  BY <1>1 DEF EnqueueAndWait, PairInvariant, Typed, QueueFits
<1>14. Found(p[1])'
  BY <1>2 DEF Found
<1>15. WaitersGoOn
  BY <1>2, <1>11, <1>12, <1>13, <1>14, WaitersLookOn DEF hub
<1> QED
  BY <1>1, <1>7, <1>10, <1>15, FaultsKept

\* A room is made: its host is about to be seated.
LEMMA CreateMatchKeepsFaults ==
    ASSUME FaultInvariant, UNCHANGED <<lost, closing>>, NEW p \in Procs, NEW x \in Codes,
           CreateMatch(p, x)
    PROVE  FaultInvariant'
<1> DEFINE s == [at |-> "bind", round |-> proc[p].round, partner |-> proc[p].partner,
                 room |-> x]
<1>1. PairInvariant /\ PairInvariant'
  BY PairingKeepsPairs DEF FaultInvariant, Pairing
<1>2. /\ UNCHANGED <<hub, waiting, op, queue, shown>> /\ UNCHANGED channel
      /\ NobodyIsCalled /\ x \notin drawn /\ drawn' = drawn \cup {x}
  BY <1>1, NothingPublished DEF CreateMatch
<1>3. At(p, "create") /\ StateFits(p, proc[p]) /\ p[1] \in Clients
  BY <1>1, ProcShape DEF CreateMatch, PairInvariant, Typed, ProcFits
<1>4. proc' = [proc EXCEPT ![p] = s]
  BY <1>1 DEF CreateMatch, PairInvariant, Typed, ProcFits
<1>5. StateFits(p, s)
  BY <1>3 DEF StateFits, Resting, Looking, HasPartner, At
<1>6. proc'[p] = s /\ \A q \in Procs : q # p => proc'[q] = proc[q]
  BY <1>1, <1>4, <1>5, ProcessSteps DEF PairInvariant, Typed
<1>7. LostGrows
  BY DEF LostGrows, FaultInvariant, LostFits
<1>8. /\ rooms' = [y \in Codes |-> rooms'[y]]
      /\ HasHost(rooms'[x]) /\ rooms'[x].host = p[1]
      /\ \A y \in Codes : y # x => rooms'[y] = rooms[y]
  <2>1. PICK r : r = [NewRoom("pvp", p[1]) EXCEPT !.guest = proc[p].partner, !.started = TRUE]
    OBVIOUS
  <2>2. "host" \in DOMAIN r /\ r.host = p[1]
    BY <2>1 DEF NewRoom
  <2>3. rooms' = [rooms EXCEPT ![x] = r]
    BY <2>1 DEF CreateMatch
  <2> QED
    BY <1>3, <2>2, <2>3 DEF FaultInvariant, RoomsFit, HasHost
<1>9. Stands(rooms[x].host, x)'
  <2>1. At(p, "bind")' /\ proc'[p].room = x /\ p[1] = rooms'[x].host
    BY <1>6, <1>8 DEF At
  <2> QED
    BY <2>1 DEF Stands
<1>10. GoneStayGone
  BY <1>2 DEF GoneStayGone, hub
<1>11. NamesGoOn
  <2>1. \A y \in Codes : Exists(y)' => Exists(y) \/ y \in drawn'
    BY <1>2, <1>8 DEF Exists
  <2>2. \A q \in Procs : At(q, "bind")' => proc'[q] = proc[q] \/ proc'[q].room \in drawn'
    BY <1>2, <1>6
  <2>3. drawn \subseteq drawn' /\ drawn' \subseteq Codes
    BY <1>2 DEF FaultInvariant, NamesAreDrawn
  <2>4. \A i \in Instances : \A k \in Queued(i)' : Sent(i, k)
    BY <1>2, OldMessages
  <2> QED
    BY <1>2, <2>1, <2>2, <2>3, <2>4 DEF NamesGoOn, hub
<1>12. RoomsGoOn
  <2>1. \A y \in Codes : Exists(y)' =>
           /\ HasHost(rooms'[y])
           /\ \/ Exists(y) /\ rooms'[y].host = rooms[y].host
              \/ y \notin drawn /\ Stands(rooms[y].host, y)'
    BY <1>2, <1>8, <1>9 DEF FaultInvariant, RoomsFit, Exists
  <2>2. \A y \in Codes : Closing(y) => Closing(y)'
    BY <1>2 DEF Closing, Closes
  <2>3. \A y \in Codes, c \in Clients : Stands(c, y) => Stands(c, y)'
    <3>1. \A q \in Procs : At(q, "bind") => proc'[q] = proc[q]
      BY <1>3, <1>6 DEF At
    <3> QED
      BY <1>2, <3>1 DEF Stands, At, hub
  <2>4. \A i \in Instances : \A k \in Queued(i)' : Sent(i, k)
    BY <1>2, OldMessages
  <2> QED
    BY <1>8, <2>1, <2>2, <2>3, <2>4 DEF RoomsGoOn
<1>13. \A c \in Clients : Found(c) => Found(c)'
  <2>1. \A c \in Clients : Moves(p, c) => Moves(p, c)'
    BY <1>3, <1>6 DEF Moves, HasPartner, Looking, At
  <2>2. \A c \in Clients, q \in Procs : q # p => (Moves(q, c) => Moves(q, c)')
    BY <1>6 DEF Moves
  <2> QED
    BY <1>2, <2>1, <2>2 DEF Found, NobodyIsCalled
<1>14. WaitersGoOn
  BY <1>2, <1>13, WaitersLookOn DEF hub
<1> QED
  BY <1>1, <1>7, <1>10, <1>11, <1>12, <1>14, FaultsKept

\* A client is about to sit in a room where nothing else holds it.
LEMMA SeatsNobodyLoses ==
    ASSUME FaultInvariant, NEW c \in Clients, NEW x, SeatsNobody(c, x)
    PROVE  /\ LostGrows
           /\ alive[c] = "up" \/ x \in lost'.rooms
<1>1. lost = [clients |-> lost.clients, rooms |-> lost.rooms]
  BY DEF FaultInvariant, LostFits
<1>2. CASE alive[c] = "up"
  BY <1>1, <1>2 DEF SeatsNobody, LostGrows, LostFits
<1>3. CASE alive[c] # "up"
  <2>1. lost' = [clients |-> lost.clients, rooms |-> lost.rooms \cup {x}]
    BY <1>1, <1>3 DEF SeatsNobody
  <2> QED
    BY <2>1 DEF LostGrows, LostFits
<1> QED
  BY <1>2, <1>3

\* The host sits down and its partner is called.
LEMMA BindPairKeepsFaults ==
    ASSUME FaultInvariant, closing' = closing, NEW p \in Procs, BindPair(p),
           SeatsNobody(p[1], proc[p].room)
    PROVE  FaultInvariant'
<1> DEFINE s == [at |-> "start", round |-> proc[p].round, room |-> proc[p].room]
<1>1. PairInvariant /\ PairInvariant'
  BY PairingKeepsPairs DEF FaultInvariant, Pairing
<1>2. PICK c, d, x : c = p[1] /\ d = proc[p].partner /\ x = proc[p].room
  OBVIOUS
<1>3. At(p, "bind") /\ StateFits(p, proc[p])
  BY <1>1 DEF BindPair, PairInvariant, Typed, ProcFits
<1>4. c \in Clients /\ d \in Clients /\ c # d /\ x \in Codes /\ x \in drawn
  <2>1. c \in Clients /\ d \in Clients /\ c # d /\ x \in Codes
    BY <1>2, <1>3, ProcShape DEF StateFits, At, HasPartner
  <2> QED
    BY <1>2, <1>3, <2>1 DEF FaultInvariant, NamesAreDrawn
<1>5. /\ BindLocal(c, x, 0) /\ Publish(BindTo(x, d)) /\ Show({c}, Entered)
      /\ waiting' = [waiting EXCEPT ![c] = FALSE]
      /\ UNCHANGED <<rooms, drawn, alive, op, queue>>
  BY <1>2 DEF BindPair
<1>6. proc' = [proc EXCEPT ![p] = s]
  BY <1>1 DEF BindPair, PairInvariant, Typed, ProcFits
<1>7. StateFits(p, s)
  BY DEF StateFits, Resting, Looking, HasPartner
<1>8. proc'[p] = s /\ \A q \in Procs : q # p => proc'[q] = proc[q]
  BY <1>1, <1>6, <1>7, ProcessSteps DEF PairInvariant, Typed
<1>9. LostGrows /\ (alive[c] = "up" \/ x \in lost'.rooms)
  BY <1>2, <1>4, SeatsNobodyLoses
<1>10. ~InRoom(c) /\ Moves(p, c)
  <2>1. Moves(p, c)
    BY <1>2, <1>3 DEF Moves, At, Looking
  <2> QED
    BY <1>1, <1>4, <2>1 DEF PairInvariant, OneClaim, Placed
<1>11. /\ \A e \in Clients : e # c => member'[e] = member[e]
       /\ IF alive[c] = "up" THEN member'[c] = [room |-> x, seat |-> 0] /\ InRoom(c)'
          ELSE member' = member
  <2>1. HubFits /\ LocalFits /\ 0 \in Seats
    BY <1>1 DEF PairInvariant, Typed, Seats
  <2> QED
    BY <1>4, <1>5, <1>10, <2>1, BindLocalSeats
<1>12. PICK m : m = BindTo(x, d)
  OBVIOUS
<1>13. m.type = "bind" /\ m.to = d /\ m.room = x /\ Publish(m)
  BY <1>5, <1>12 DEF BindTo
<1>14. \A i \in Instances : \A k \in Queued(i)' : Sent(i, k) \/ channel'[i][k] = m
  BY <1>4, <1>13, OldMessages
<1>15. \A e \in Clients : HasMail(e) \/ e = d => HasMail(e)'
  <2>1. ChannelFits /\ \A e \in Clients : Seats1(m, e) <=> e = d
    BY <1>1, <1>13 DEF PairInvariant, Typed, Seats1
  <2> QED
    BY <1>4, <1>13, <2>1, Publishes
<1>16. GoneStayGone /\ NamesGoOn /\ RoomsGoOn
  <2>1. \A q \in Procs :
           \/ proc'[q] = proc[q]
           \/ /\ ~At(q, "bind")'
              /\ At(q, "bind") => \A y \in Codes : y = proc[q].room =>
                    y \in lost'.rooms \/ Stands(q[1], y)'
    <3>1. ~At(p, "bind")'
      BY <1>8 DEF At
    <3>2. x \in lost'.rooms \/ Stands(p[1], x)'
      BY <1>2, <1>9, <1>11 DEF Stands
    <3> QED
      BY <1>2, <1>8, <3>1, <3>2
  <2>2. \A e \in Clients : \/ member'[e] = member[e]
                           \/ ~InRoom(e) /\ alive[e] = "up" /\ member'[e].room \in drawn
    BY <1>4, <1>10, <1>11
  <2>3. \A i \in Instances : \A k \in Queued(i)' :
          Sent(i, k) \/ (channel'[i][k].type # "leave"
                         /\ (channel'[i][k].type = "bind" => channel'[i][k].room \in drawn)
                         /\ channel'[i][k].type \in {"bind", "room"})
    BY <1>4, <1>13, <1>14
  <2> QED
    BY <1>5, <1>9, <2>1, <2>2, <2>3, ProcessesKeepRooms
<1>17. ASSUME NEW e \in Clients, alive[e] = "up"
       PROVE  /\ ~InRoom(e)' => shown'[e] = Menu \/ (~InRoom(e) /\ shown'[e] = shown[e])
              /\ waiting'[e] => /\ ~InRoom(e)'
                                /\ waiting[e] \/ Found(e)'
                                /\ Found(e) => Found(e)'
  <2>1. CASE e = c
    BY <1>1, <1>4, <1>5, <1>11, <1>17, <2>1 DEF PairInvariant, Typed, QueueFits
  <2>2. CASE e # c
    <3>1. (InRoom(e)' <=> InRoom(e)) /\ shown'[e] = shown[e] /\ waiting'[e] = waiting[e]
      BY <1>1, <1>5, <1>11, <2>2 DEF InRoom, Show, PairInvariant, Typed, QueueFits
    <3>2. waiting[e] => ~InRoom(e)
      BY <1>17 DEF FaultInvariant, WaitersKept
    <3>3. ASSUME NEW q \in Procs, Moves(q, e) PROVE Found(e)'
      <4>1. CASE q = p
        BY <1>2, <1>15, <2>2, <3>3, <4>1 DEF Moves, Found
      <4>2. CASE q # p
        BY <1>8, <3>3, <4>2 DEF Moves, Found
      <4> QED
        BY <4>1, <4>2
    <3>4. Found(e) => Found(e)'
      BY <1>5, <1>15, <3>3 DEF Found
    <3>5. ~InRoom(e)' => ~InRoom(e) /\ shown'[e] = shown[e]
      BY <3>1
    <3> QED
      BY <3>1, <3>2, <3>4, <3>5
  <2> QED
    BY <2>1, <2>2
<1>18. WaitersGoOn
  BY <1>17 DEF WaitersGoOn
<1> QED
  BY <1>1, <1>9, <1>16, <1>18, FaultsKept

\* A process takes any step on an instance that runs.
LEMMA PairsKeepFaults ==
    ASSUME FaultInvariant, NEW p \in Procs, Pairs(p), closing' = closing
    PROVE  FaultInvariant'
<1>1. ~At(p, "bind") => lost' = lost
  BY DEF Pairs
<1>2. CASE BindPair(p)
  BY <1>2, BindPairKeepsFaults DEF Pairs, BindPair
<1>3. CASE TakeMatchLock(p) \/ MissMatchLock(p) \/ Search(p) \/ NoCandidate(p) \/ LeaveAlone(p)
  <2>1. ~At(p, "bind")
    BY <1>3 DEF TakeMatchLock, MissMatchLock, Search, NoCandidate, LeaveAlone, At
  <2> QED
    BY <1>1, <1>3, <2>1, SearchKeepsFaults
<1>4. CASE TakeCandidate(p)
  <2>1. ~At(p, "bind")
    BY <1>4 DEF TakeCandidate, At
  <2> QED
    BY <1>1, <1>4, <2>1, TakeCandidateKeepsFaults
<1>5. CASE \E x \in Codes : CreateMatch(p, x)
  <2>1. ~At(p, "bind")
    BY <1>5 DEF CreateMatch, At
  <2> QED
    BY <1>1, <1>5, <2>1, CreateMatchKeepsFaults
<1>6. CASE StartMatch(p) \/ LeavePaired(p) \/ AbandonMatch(p) \/ Wake(p)
  <2>1. ~At(p, "bind")
    BY <1>6 DEF StartMatch, LeavePaired, AbandonMatch, Wake, At
  <2> QED
    BY <1>1, <1>6, <2>1, MovingOnKeepsFaults
<1>7. CASE Requeue(p) \/ RemoveOwn(p)
  <2>1. ~At(p, "bind")
    BY <1>7 DEF Requeue, RemoveOwn, At
  <2> QED
    BY <1>1, <1>7, <2>1, RecheckKeepsFaults
<1>8. CASE EnqueueAndWait(p)
  <2>1. ~At(p, "bind")
    BY <1>8 DEF EnqueueAndWait, At
  <2> QED
    BY <1>1, <1>8, <2>1, EnqueueKeepsFaults
<1> QED
  BY <1>2, <1>3, <1>4, <1>5, <1>6, <1>7, <1>8 DEF Pairs, Pairing

-----------------------------------------------------------------------------
(* The rooms. *)

\* What the handler of one client does to rooms and names.
LEMMA ClientKeepsRooms ==
    ASSUME FaultInvariant, LostGrows, UNCHANGED <<alive, proc>>,
           NEW c \in Clients, NEW o, op' = [op EXCEPT ![c] = o],
           o = Idle \/ /\ alive[c] # "gone" \/ ~Up(Host[c])
                       /\ closing[Host[c]].at # "stopped"
                       /\ o.kind \notin Commands
                       /\ o.kind = "match" \/ o.room \in drawn',
           \A d \in Clients : d # c => member'[d] = member[d],
           InRoom(c)' => \/ member'[c] = member[c]
                         \/ alive[c] = "up" /\ member'[c].room \in drawn',
           drawn \subseteq drawn', drawn' \subseteq Codes,
           rooms' = [x \in Codes |-> rooms'[x]],
           \A x \in Codes : Exists(x)' =>
              /\ HasHost(rooms'[x])
              /\ \/ Exists(x) /\ rooms'[x].host = rooms[x].host
                 \/ x \notin drawn /\ x \in drawn' /\ rooms'[x].host = c /\ Stands(c, x)',
           \A x \in Codes : Exists(x)' /\ Exists(x) =>
              /\ Closes(c, x) => Closes(c, x)' \/ x \in lost'.rooms
              /\ Stands(c, x) => Stands(c, x)' \/ Closes(c, x)' \/ x \in lost'.rooms,
           \A i \in Instances : \A k \in Queued(i)' :
              \/ Sent(i, k)
              \/ IsTrue(channel[i][k])'
                 /\ (channel'[i][k].type = "room" \/ channel'[i][k].room \in drawn')
    PROVE  GoneStayGone /\ NamesGoOn /\ RoomsGoOn
<1>1. op'[c] = o /\ \A d \in Clients : d # c => op'[d] = op[d]
  BY DEF FaultInvariant, PairInvariant, Typed, OpFits
<1>2. GoneStayGone
  <2>1. \A d \in Clients : /\ alive'[d] = alive[d]
                           /\ InRoom(d)' => member'[d] = member[d] \/ alive[d] = "up"
    OBVIOUS
  <2>2. \A d \in Clients : \/ op'[d] = op[d] \/ op'[d] = Idle
                           \/ /\ alive[d] # "gone" \/ ~Up(Host[d])
                              /\ closing[Host[d]].at # "stopped"
                              /\ op'[d].kind \notin Commands
    BY <1>1
  <2> QED
    BY <2>1, <2>2 DEF GoneStayGone
<1>3. NamesGoOn
  <2>1. \A x \in Codes : Exists(x)' => Exists(x) \/ x \in drawn'
    OBVIOUS
  <2>2. \A d \in Clients :
          /\ InRoom(d)' => member'[d] = member[d] \/ member'[d].room \in drawn'
          /\ op'[d] = op[d] \/ op'[d].kind \in {"idle", "match"} \/ op'[d].room \in drawn'
    BY <1>1 DEF Idle
  <2>3. \A q \in Procs : At(q, "bind")' => proc'[q] = proc[q]
    OBVIOUS
  <2>4. \A i \in Instances : \A k \in Queued(i)' :
          Sent(i, k) \/ channel'[i][k].type = "room" \/ channel'[i][k].room \in drawn'
    OBVIOUS
  <2> QED
    BY <2>1, <2>2, <2>3, <2>4 DEF NamesGoOn
<1>4. \A d \in Clients, x \in Codes : d # c => /\ Closes(d, x) => Closes(d, x)'
                                               /\ Stands(d, x) => Stands(d, x)'
  BY <1>1 DEF Closes, Stands, At
<1>5. ASSUME NEW x \in Codes, Exists(x), Exists(x)'
      PROVE  /\ Closing(x) => Closing(x)' \/ x \in lost'.rooms
             /\ \A d \in Clients : rooms[x].host = d /\ Stands(d, x) =>
                   Stands(d, x)' \/ Closing(x)' \/ x \in lost'.rooms
  <2>1. ASSUME NEW d \in Clients, Closes(d, x) PROVE Closing(x)' \/ x \in lost'.rooms
    BY <1>4, <1>5, <2>1 DEF Closing
  <2>2. ASSUME NEW d \in Clients, Stands(d, x)
        PROVE  Stands(d, x)' \/ Closing(x)' \/ x \in lost'.rooms
    BY <1>4, <1>5, <2>2 DEF Closing
  <2> QED
    BY <2>1, <2>2 DEF Closing
<1>6. \A x \in Codes : Exists(x)' =>
          /\ HasHost(rooms'[x])
          /\ \/ Exists(x) /\ rooms'[x].host = rooms[x].host
             \/ x \notin drawn /\ Stands(rooms[x].host, x)'
  <2>1. ASSUME NEW x \in Codes, rooms'[x].host = c, Stands(c, x)'
        PROVE  Stands(rooms[x].host, x)'
    BY <2>1 DEF Stands
  <2> QED
    BY <2>1
<1>7. RoomsGoOn
  BY <1>5, <1>6 DEF RoomsGoOn
<1> QED
  BY <1>2, <1>3, <1>7

\* Those who wait, in a step of a room.
LEMMA RoomsKeepWaiters ==
    ASSUME FaultInvariant, RoomGoesOn,
           \A c \in Clients : alive[c] = "up" /\ alive'[c] = "up" =>
              \/ /\ shown'[c] = shown[c] /\ (InRoom(c)' <=> InRoom(c))
                 /\ HasMail(c) => HasMail(c)'
              \/ InRoom(c) /\ ~InRoom(c)' /\ shown'[c] = Menu
              \/ ~InRoom(c) /\ InRoom(c)' /\ shown'[c] # Menu
              \/ InRoom(c) /\ InRoom(c)'
    PROVE  WaitersGoOn
<1> SUFFICES ASSUME NEW c \in Clients, alive[c] = "up", alive'[c] = "up"
             PROVE  /\ ~InRoom(c)' => shown'[c] = Menu \/ (~InRoom(c) /\ shown'[c] = shown[c])
                    /\ waiting'[c] => /\ ~InRoom(c)'
                                      /\ waiting[c] \/ Found(c)'
                                      /\ Found(c) => Found(c)' \/ c \in lost'.clients
  BY DEF WaitersGoOn
<1>1. waiting'[c] => waiting[c] /\ shown'[c] = shown[c]
  BY DEF RoomGoesOn
<1>2. waiting[c] => ~InRoom(c) /\ shown[c] = Menu
  BY DEF FaultInvariant, WaitersKept
<1>3. (HasMail(c) => HasMail(c)') => (Found(c) => Found(c)')
  BY DEF Found, Moves, RoomGoesOn
<1> QED
  BY <1>1, <1>2, <1>3

\* The handlers that a client is ever in.
LEMMA HandlersLeft ==
    ASSUME FaultInvariant, NEW c \in Clients, Handler(c)
    PROVE  \/ EnterCreated(c) \/ EnterJoined(c)
           \/ Unbind(c) \/ ReleaseSeat(c) \/ AnnounceLeave(c) \/ CloseRoom(c)
<1>1. op[c].kind \in {"idle", "match", "created", "joined", "leave", "unbound", "closing"}
  BY OpShape DEF FaultInvariant, NobodyPlays, PairInvariant, Typed, OpFits
<1>2. ~ReadSeat(c) /\ ~Refuse(c) /\ ~GiveUp(c)
  BY <1>1, KindsDiffer DEF ReadSeat, SplitReads, Refuse, GiveUp, Locked
<1>3. ~\E kind \in {"ready", "unready"} : SetReady(c, kind)
  BY <1>1 DEF SetReady, Locked
<1>4. ~StartGame(c) /\ ~PlayerMove(c) /\ ~Resign(c) /\ ~Rematch(c)
  BY <1>1 DEF StartGame, PlayerMove, Resign, Rematch, Locked
<1> QED
  BY <1>2, <1>3, <1>4 DEF Handler

\* A client that enters a room sits in it, unless it is gone.
LEMMA EnteringKeepsFaults ==
    ASSUME FaultInvariant, closing' = closing, RoomGoesOn, NEW c \in Clients,
           EnterCreated(c) \/ EnterJoined(c), SeatsNobody(c, op[c].room)
    PROVE  FaultInvariant'
<1>1. PairInvariant /\ PairInvariant'
  BY HandlersKeepPairs DEF FaultInvariant, Handler
<1>2. /\ op[c].kind \in {"created", "joined"} /\ UNCHANGED <<rooms, drawn, alive>>
      /\ op' = [op EXCEPT ![c] = Idle]
  BY DEF EnterCreated, EnterJoined, redis, Return
<1>3. PICK x : x = op[c].room
  OBVIOUS
<1>4. x \in Codes /\ x \in drawn
  BY <1>2, <1>3 DEF FaultInvariant, NamesAreDrawn
<1>5. LostGrows /\ (alive[c] = "up" \/ x \in lost'.rooms)
  BY <1>3, SeatsNobodyLoses
<1>6. ~InRoom(c)
  BY <1>1, <1>2 DEF PairInvariant, OneClaim, Enters
<1>7. PICK seat \in Seats : /\ BindLocal(c, x, seat)
                            /\ op[c].kind = "created" => seat = 0
  BY <1>2, <1>3 DEF EnterCreated, EnterJoined, Seats
<1>8. /\ \A e \in Clients : e # c => member'[e] = member[e]
      /\ IF alive[c] = "up" THEN member'[c] = [room |-> x, seat |-> seat] /\ InRoom(c)'
         ELSE member' = member
  <2>1. HubFits /\ LocalFits
    BY <1>1 DEF PairInvariant, Typed
  <2> QED
    BY <1>4, <1>6, <1>7, <2>1, BindLocalSeats
<1>9. /\ \A e \in Clients : e # c => shown'[e] = shown[e]
      /\ alive[c] = "up" => shown'[c] # Menu
  BY DEF EnterCreated, EnterJoined, Show, Menu, GameOf, LobbyOf, Entered
<1>10. \A e \in Clients : HasMail(e)' <=> HasMail(e)
  <2>1. ASSUME EnterCreated(c) PROVE NobodyIsCalled
    BY <1>1, <2>1, NothingPublished DEF EnterCreated, redis
  <2>2. ASSUME EnterJoined(c) PROVE NobodyIsCalled
    BY <1>1, <2>2, NewsPublished DEF EnterJoined, ToRoom
  <2> QED
    BY <2>1, <2>2 DEF NobodyIsCalled
<1>11. \A i \in Instances : \A k \in Queued(i)' : Sent(i, k) \/ channel'[i][k].type = "room"
  <2>1. ASSUME NEW y, NEW t, Publish(ToRoom(y, t))
        PROVE  \A i \in Instances : \A k \in Queued(i)' :
                  Sent(i, k) \/ channel'[i][k].type = "room"
    BY <2>1, OldMessages DEF ToRoom
  <2> QED
    BY <2>1, OldMessages DEF EnterCreated, EnterJoined, redis
<1>12. GoneStayGone /\ NamesGoOn /\ RoomsGoOn
  <2>1. /\ rooms' = [y \in Codes |-> rooms'[y]]
        /\ \A y \in Codes : Exists(y)' => HasHost(rooms'[y]) /\ Exists(y)
    BY <1>2 DEF FaultInvariant, RoomsFit, Exists
  <2>2. \A y \in Codes : ~Closes(c, y)
    BY <1>2 DEF Closes
  <2>3. ASSUME NEW y \in Codes, Stands(c, y)
        PROVE  Stands(c, y)' \/ y \in lost'.rooms
    <3>1. CASE op[c].kind = "created" /\ y = x
      BY <1>5, <1>7, <1>8, <3>1 DEF Stands
    <3>2. ~(op[c].kind = "unbound") /\ member[c] # [room |-> y, seat |-> 0]
      BY <1>2, <1>6, NobodyAssumption DEF InRoom
    <3>3. CASE \E p \in Procs : At(p, "bind") /\ proc[p].room = y /\ p[1] = c
      BY <3>3 DEF Stands, RoomGoesOn, At
    <3> QED
      BY <1>3, <2>3, <3>1, <3>2, <3>3 DEF Stands
  <2>4. InRoom(c)' => alive[c] = "up" /\ member'[c].room \in drawn'
    BY <1>2, <1>4, <1>6, <1>8 DEF InRoom
  <2>5. \A i \in Instances : \A k \in Queued(i)' :
              \/ Sent(i, k)
              \/ IsTrue(channel[i][k])'
                 /\ (channel'[i][k].type = "room" \/ channel'[i][k].room \in drawn')
    BY <1>11 DEF IsTrue
  <2>6. drawn \subseteq drawn' /\ drawn' \subseteq Codes
    BY <1>2 DEF FaultInvariant, NamesAreDrawn
  <2> QED
    BY <1>2, <1>5, <1>8, <2>1, <2>2, <2>3, <2>4, <2>5, <2>6, ClientKeepsRooms DEF RoomGoesOn
<1>13. WaitersGoOn
  <2>1. \A e \in Clients : e # c => (InRoom(e)' <=> InRoom(e))
    BY <1>8 DEF InRoom
  <2> QED
    BY <1>6, <1>8, <1>9, <1>10, <2>1, RoomsKeepWaiters
<1> QED
  BY <1>1, <1>5, <1>12, <1>13, FaultsKept

\* A handler that seats nobody, and whose news is for a room or true.
LEMMA HandlerKeepsFaults ==
    ASSUME FaultInvariant, PairInvariant', UNCHANGED <<closing, proc, hub, shown>>,
           RoomGoesOn, LostGrows, NobodyIsCalled,
           NEW c \in Clients, NEW o, op' = [op EXCEPT ![c] = o],
           o = Idle \/ /\ alive[c] # "gone" \/ ~Up(Host[c])
                       /\ closing[Host[c]].at # "stopped"
                       /\ o.kind \notin Commands
                       /\ o.kind = "match" \/ o.room \in drawn',
           drawn \subseteq drawn', drawn' \subseteq Codes,
           rooms' = [x \in Codes |-> rooms'[x]],
           \A x \in Codes : Exists(x)' =>
              /\ HasHost(rooms'[x])
              /\ \/ Exists(x) /\ rooms'[x].host = rooms[x].host
                 \/ x \notin drawn /\ x \in drawn' /\ rooms'[x].host = c /\ Stands(c, x)',
           \A x \in Codes : Exists(x)' /\ Exists(x) =>
              /\ Closes(c, x) => Closes(c, x)' \/ x \in lost'.rooms
              /\ Stands(c, x) => Stands(c, x)' \/ Closes(c, x)' \/ x \in lost'.rooms,
           \A i \in Instances : \A k \in Queued(i)' :
              \/ Sent(i, k)
              \/ IsTrue(channel[i][k])'
                 /\ (channel'[i][k].type = "room" \/ channel'[i][k].room \in drawn')
    PROVE  FaultInvariant'
<1>1. \A d \in Clients : member'[d] = member[d]
  BY DEF hub
<1>2. InRoom(c)' => member'[c] = member[c]
  BY DEF hub
<1>3. GoneStayGone /\ NamesGoOn /\ RoomsGoOn
  BY <1>1, <1>2, ClientKeepsRooms DEF hub
<1>4. WaitersGoOn
  <2>1. \A d \in Clients : /\ InRoom(d)' <=> InRoom(d)
                           /\ shown'[d] = shown[d]
                           /\ HasMail(d) => HasMail(d)'
    BY DEF InRoom, hub, NobodyIsCalled
  <2> QED
    BY <2>1, RoomsKeepWaiters
<1> QED
  BY <1>3, <1>4, FaultsKept

\* A room that changes keeps its host.
LEMMA HostsStay ==
    ASSUME FaultInvariant, NEW x \in Codes, NEW r, rooms' = [rooms EXCEPT ![x] = r],
           r # NoRoom => Exists(x) /\ HasHost(r) /\ r.host = rooms[x].host
    PROVE  /\ rooms' = [y \in Codes |-> rooms'[y]]
           /\ \A y \in Codes : Exists(y)' =>
                 HasHost(rooms'[y]) /\ Exists(y) /\ rooms'[y].host = rooms[y].host
BY DEF FaultInvariant, RoomsFit, Exists

\* A client asks to leave, or Close makes it leave.
LEMMA BeginLeaveKeepsFaults ==
    ASSUME FaultInvariant, PairInvariant', NEW c \in Clients, op[c] = Idle, InRoom(c),
           alive[c] # "gone" \/ ~Up(Host[c]), closing[Host[c]].at # "stopped",
           op' = [op EXCEPT ![c] = [kind |-> "leave", room |-> member[c].room]],
           RoomGoesOn, UNCHANGED <<rooms, drawn, channel, hub, shown, lost, closing>>
    PROVE  FaultInvariant'
<1> DEFINE o == [kind |-> "leave", room |-> member[c].room]
<1>1. NobodyIsCalled /\ proc' = proc
  BY NothingPublished DEF FaultInvariant, RoomGoesOn
<1>2. LostGrows
  BY DEF LostGrows, FaultInvariant, LostFits
<1>3. /\ o.kind \notin Commands /\ o.room \in drawn'
      /\ drawn \subseteq drawn' /\ drawn' \subseteq Codes
  BY KindsDiffer DEF FaultInvariant, NamesAreDrawn
<1>4. \A x \in Codes : ~Closes(c, x) /\ (Stands(c, x) => Stands(c, x)')
  BY DEF Closes, Stands, Idle, hub, At, RoomGoesOn
<1>5. /\ rooms' = [x \in Codes |-> rooms'[x]]
      /\ \A x \in Codes : Exists(x)' =>
            HasHost(rooms'[x]) /\ Exists(x) /\ rooms'[x].host = rooms[x].host
  BY DEF FaultInvariant, RoomsFit, Exists
<1>6. \A i \in Instances : \A k \in Queued(i)' : Sent(i, k)
  BY OldMessages
<1> QED
  BY <1>1, <1>2, <1>3, <1>4, <1>5, <1>6, HandlerKeepsFaults

\* A client creates or joins a room.
LEMMA EntrancesKeepFaults ==
    ASSUME FaultInvariant, PairInvariant', NEW c \in Clients, NEW x \in Codes,
           (\E mode \in Modes : CreateRoom(c, mode, x)) \/ JoinSeat1(c, x),
           RoomGoesOn, UNCHANGED <<lost, closing>>
    PROVE  FaultInvariant'
<1>1. NobodyIsCalled /\ UNCHANGED <<hub, shown, channel, proc>> /\ MayHandle(c)
  BY NothingPublished DEF CreateRoom, JoinSeat1, FaultInvariant, RoomGoesOn
<1>2. LostGrows
  BY DEF LostGrows, FaultInvariant, LostFits
<1>3. /\ \A i \in Instances : \A k \in Queued(i)' : Sent(i, k)
      /\ op[c] = Idle /\ alive[c] # "gone" /\ closing[Host[c]].at # "stopped"
  BY <1>1, OldMessages DEF MayHandle, FaultInvariant, DownAreDown, Up, Running
<1>4. \A y \in Codes : ~Closes(c, y)
  BY <1>3 DEF Closes, Idle
<1>5. ASSUME NEW o, op' = [op EXCEPT ![c] = o], NEW y \in Codes, Stands(c, y)
      PROVE  Stands(c, y)'
  BY <1>1, <1>3, <1>5 DEF Stands, Idle, hub, At
<1>6. ASSUME NEW mode \in Modes, CreateRoom(c, mode, x)
      PROVE  FaultInvariant'
  <2> DEFINE o == [kind |-> "created", room |-> x]
  <2>1. /\ op' = [op EXCEPT ![c] = o] /\ x \notin drawn /\ drawn' = drawn \cup {x}
        /\ rooms' = [rooms EXCEPT ![x] = NewRoom(mode, c)]
    BY <1>6 DEF CreateRoom
  <2>2. /\ o.kind \notin Commands /\ o.room \in drawn'
        /\ drawn \subseteq drawn' /\ drawn' \subseteq Codes
    BY <2>1, KindsDiffer DEF FaultInvariant, NamesAreDrawn
  <2>3. PICK r : r = NewRoom(mode, c)
    OBVIOUS
  <2>4. HasHost(r) /\ r.host = c
    BY <2>3 DEF HasHost, NewRoom
  <2>5. op'[c] = o
    BY <2>1 DEF FaultInvariant, PairInvariant, Typed, OpFits
  <2>6. Stands(c, x)'
    BY <2>5 DEF Stands
  <2>7. /\ rooms' = [y \in Codes |-> rooms'[y]]
        /\ \A y \in Codes : Exists(y)' =>
              /\ HasHost(rooms'[y])
              /\ \/ Exists(y) /\ rooms'[y].host = rooms[y].host
                 \/ y \notin drawn /\ y \in drawn' /\ rooms'[y].host = c /\ Stands(c, y)'
    BY <2>1, <2>3, <2>4, <2>6 DEF FaultInvariant, RoomsFit, Exists
  <2>8. \A y \in Codes : Stands(c, y) => Stands(c, y)'
    BY <1>5, <2>1
  <2> QED
    BY <1>1, <1>2, <1>3, <1>4, <2>1, <2>2, <2>7, <2>8, HandlerKeepsFaults
<1>7. CASE JoinSeat1(c, x)
  <2> DEFINE o == [kind |-> "joined", room |-> x]
  <2>1. /\ op' = [op EXCEPT ![c] = o] /\ drawn' = drawn /\ Exists(x)
        /\ rooms' = [rooms EXCEPT ![x].guest = c, ![x].ready = FALSE]
    BY <1>7 DEF JoinSeat1, Known
  <2>2. /\ o.kind \notin Commands /\ o.room \in drawn'
        /\ drawn \subseteq drawn' /\ drawn' \subseteq Codes
    BY <2>1, KindsDiffer DEF FaultInvariant, NamesAreDrawn
  <2>3. PICK r : r = [rooms[x] EXCEPT !.guest = c, !.ready = FALSE]
    OBVIOUS
  <2>4. HasHost(rooms[x]) /\ rooms' = [rooms EXCEPT ![x] = r]
    BY <2>1, <2>3 DEF FaultInvariant, RoomsFit
  <2>5. HasHost(r) /\ r.host = rooms[x].host
    BY <2>3, <2>4 DEF HasHost
  <2>6. /\ rooms' = [y \in Codes |-> rooms'[y]]
        /\ \A y \in Codes : Exists(y)' =>
              HasHost(rooms'[y]) /\ Exists(y) /\ rooms'[y].host = rooms[y].host
    BY <2>1, <2>4, <2>5, HostsStay
  <2>7. \A y \in Codes : Stands(c, y) => Stands(c, y)'
    BY <1>5, <2>1
  <2> QED
    BY <1>1, <1>2, <1>3, <1>4, <2>1, <2>2, <2>6, <2>7, HandlerKeepsFaults
<1> QED
  BY <1>6, <1>7

\* A client gets up: as host, it is still to close the room.
LEMMA UnbindKeepsFaults ==
    ASSUME FaultInvariant, PairInvariant', NEW c \in Clients, Unbind(c), RoomGoesOn,
           closing[Host[c]].at # "stopped", UNCHANGED <<lost, closing>>
    PROVE  FaultInvariant'
<1>1. /\ op[c].kind = "leave" /\ UNCHANGED <<rooms, drawn, channel, alive, proc>>
      /\ alive[c] # "gone" \/ ~Up(Host[c])
  BY DEF Unbind, FaultInvariant, DownAreDown, Idle, RoomGoesOn
<1>2. NobodyIsCalled /\ \A i \in Instances : \A k \in Queued(i)' : Sent(i, k)
  BY <1>1, NothingPublished, OldMessages DEF FaultInvariant
<1>3. LostGrows
  BY DEF LostGrows, FaultInvariant, LostFits
<1>4. /\ \A x \in Codes : ~Closes(c, x)
      /\ drawn \subseteq drawn' /\ drawn' \subseteq Codes
  BY <1>1 DEF Closes, FaultInvariant, NamesAreDrawn
<1>5. /\ rooms' = [x \in Codes |-> rooms'[x]]
      /\ \A x \in Codes : Exists(x)' =>
            HasHost(rooms'[x]) /\ Exists(x) /\ rooms'[x].host = rooms[x].host
  BY <1>1 DEF FaultInvariant, RoomsFit, Exists
<1>6. CASE ~InRoom(c)
  <2>1. UNCHANGED <<hub, shown>> /\ op' = [op EXCEPT ![c] = Idle]
    BY <1>1, <1>6 DEF Unbind, hub, Return
  <2>2. \A x \in Codes : Stands(c, x) => Stands(c, x)'
    BY <1>1, <2>1 DEF Stands, hub, At
  <2> QED
    BY <1>1, <1>2, <1>3, <1>4, <1>5, <2>1, <2>2, HandlerKeepsFaults
<1>7. CASE InRoom(c)
  <2>1. PICK x, seat : x = member[c].room /\ seat = member[c].seat
    OBVIOUS
  <2>2. PICK o : o = [kind |-> "unbound", room |-> x, seat |-> seat]
    OBVIOUS
  <2>3. /\ op' = [op EXCEPT ![c] = o] /\ member' = [member EXCEPT ![c] = NoMember]
        /\ Show({c}, Menu)
    BY <1>7, <2>1, <2>2 DEF Unbind
  <2>4. /\ member'[c] = NoMember /\ ~InRoom(c)' /\ op'[c] = o
        /\ \A d \in Clients : d # c => member'[d] = member[d]
    BY <2>3 DEF FaultInvariant, PairInvariant, Typed, HubFits, OpFits, InRoom, NoMember
  <2>5. o.kind \notin Commands /\ o.room \in drawn'
    BY <1>1, <1>7, <2>1, <2>2, KindsDiffer DEF FaultInvariant, NamesAreDrawn
  <2>6. ASSUME NEW y \in Codes, Stands(c, y) PROVE Stands(c, y)'
    <3>1. CASE member[c] = [room |-> y, seat |-> 0]
      BY <2>1, <2>2, <2>4, <3>1 DEF Stands
    <3>2. CASE \E p \in Procs : At(p, "bind") /\ proc[p].room = y /\ p[1] = c
      BY <1>1, <3>2 DEF Stands, At
    <3> QED
      BY <1>1, <2>6, <3>1, <3>2 DEF Stands
  <2>7. GoneStayGone /\ NamesGoOn /\ RoomsGoOn
    BY <1>1, <1>2, <1>3, <1>4, <1>5, <2>3, <2>4, <2>5, <2>6, ClientKeepsRooms
  <2>8. WaitersGoOn
    <3>1. \A d \in Clients : d # c => (InRoom(d)' <=> InRoom(d)) /\ shown'[d] = shown[d]
      BY <2>3, <2>4 DEF InRoom, Show
    <3>2. alive[c] = "up" => shown'[c] = Menu
      BY <2>3 DEF Show
    <3>3. \A d \in Clients : HasMail(d) => HasMail(d)'
      BY <1>2 DEF NobodyIsCalled
    <3> QED
      BY <1>7, <2>4, <3>1, <3>2, <3>3, RoomsKeepWaiters
  <2> QED
    BY <1>3, <2>7, <2>8, FaultsKept
<1> QED
  BY <1>6, <1>7

\* The seat is free again, or the end of the room is announced and then comes.
LEMMA LeavingKeepsFaults ==
    ASSUME FaultInvariant, PairInvariant', NEW c \in Clients, RoomGoesOn,
           ReleaseSeat(c) \/ AnnounceLeave(c) \/ CloseRoom(c),
           closing[Host[c]].at # "stopped", UNCHANGED <<lost, closing>>
    PROVE  FaultInvariant'
<1>1. PICK x : x = op[c].room
  OBVIOUS
<1>2. /\ op[c].kind \in {"unbound", "closing"} /\ UNCHANGED <<drawn, hub, shown, proc>>
      /\ alive[c] # "gone" \/ ~Up(Host[c])
      /\ x \in Codes /\ x \in drawn
  <2>1. op[c].kind \in {"unbound", "closing"} /\ UNCHANGED <<drawn, hub, shown, proc>>
    BY DEF ReleaseSeat, AnnounceLeave, CloseRoom, RoomGoesOn
  <2> QED
    BY <1>1, <2>1 DEF FaultInvariant, DownAreDown, Idle, NamesAreDrawn
<1>3. LostGrows /\ drawn \subseteq drawn' /\ drawn' \subseteq Codes
  BY <1>2 DEF LostGrows, FaultInvariant, LostFits, NamesAreDrawn
<1>4. ASSUME NEW y \in Codes, Stands(c, y)
      PROVE  Stands(c, y)' \/ (op[c].kind = "unbound" /\ op[c].seat = 0 /\ y = x)
  <2>1. CASE member[c] = [room |-> y, seat |-> 0]
    BY <1>2, <2>1 DEF Stands, hub
  <2>2. CASE \E p \in Procs : At(p, "bind") /\ proc[p].room = y /\ p[1] = c
    BY <1>2, <2>2 DEF Stands, At
  <2> QED
    BY <1>1, <1>2, <1>4, <2>1, <2>2 DEF Stands
<1>5. CASE ReleaseSeat(c)
  <2>1. PICK r : r = [rooms[x] EXCEPT !.guest = Nobody, !.ready = FALSE]
    OBVIOUS
  <2>2. /\ Exists(x) /\ op[c].seat = 1 /\ op[c].kind = "unbound"
        /\ rooms' = [rooms EXCEPT ![x] = r] /\ Publish(ToRoom(x, LobbyOf(r)))
        /\ op' = [op EXCEPT ![c] = Idle]
    BY <1>1, <1>5, <2>1 DEF ReleaseSeat, Return
  <2>3. HasHost(r) /\ r.host = rooms[x].host
    BY <1>2, <2>1, <2>2 DEF FaultInvariant, RoomsFit, HasHost
  <2>4. NobodyIsCalled
    BY <2>2, NewsPublished DEF FaultInvariant, ToRoom
  <2>5. \A i \in Instances : \A k \in Queued(i)' : Sent(i, k) \/ channel'[i][k].type = "room"
    BY <2>2, OldMessages DEF ToRoom
  <2>6. /\ rooms' = [y \in Codes |-> rooms'[y]]
        /\ \A y \in Codes : Exists(y)' =>
              HasHost(rooms'[y]) /\ Exists(y) /\ rooms'[y].host = rooms[y].host
    BY <1>2, <2>2, <2>3, HostsStay
  <2>7. \A y \in Codes : ~Closes(c, y) /\ (Stands(c, y) => Stands(c, y)')
    <3>1. ASSUME NEW y \in Codes, Stands(c, y) PROVE Stands(c, y)'
      BY <1>4, <2>2, <3>1
    <3> QED
      BY <2>2, <3>1 DEF Closes
  <2>8. \A i \in Instances : \A k \in Queued(i)' :
              \/ Sent(i, k)
              \/ IsTrue(channel[i][k])'
                 /\ (channel'[i][k].type = "room" \/ channel'[i][k].room \in drawn')
    BY <2>5 DEF IsTrue
  <2> QED
    BY <1>2, <1>3, <2>2, <2>4, <2>6, <2>7, <2>8, HandlerKeepsFaults
<1>6. CASE AnnounceLeave(c)
  <2> DEFINE o == [kind |-> "closing", room |-> x]
  <2>1. PICK m : m = Left(x, op[c].seat)
    OBVIOUS
  <2>2. /\ op[c].kind = "unbound" /\ op' = [op EXCEPT ![c] = o] /\ rooms' = rooms
        /\ Publish(m) /\ m.type = "leave" /\ m.room = x
    BY <1>1, <1>6, <2>1 DEF AnnounceLeave, Left
  <2>3. Closes(c, x)' /\ Closing(x)'
    <3>1. op'[c] = o
      BY <2>2 DEF FaultInvariant, PairInvariant, Typed, OpFits
    <3> QED
      BY <3>1 DEF Closes, Closing
  <2>4. NobodyIsCalled
    BY <2>2, NewsPublished DEF FaultInvariant
  <2>5. \A i \in Instances : \A k \in Queued(i)' : Sent(i, k) \/ channel'[i][k] = m
    BY <2>2, OldMessages
  <2>6. \A i \in Instances : \A k \in Queued(i)' :
              \/ Sent(i, k)
              \/ IsTrue(channel[i][k])'
                 /\ (channel'[i][k].type = "room" \/ channel'[i][k].room \in drawn')
    <3>1. IsTrue(m)'
      BY <2>2, <2>3 DEF IsTrue
    <3>2. ASSUME NEW i \in Instances, NEW k \in Queued(i)', channel'[i][k] = m
          PROVE  IsTrue(channel[i][k])' /\ channel'[i][k].room \in drawn'
      BY <1>2, <2>2, <3>1, <3>2 DEF IsTrue
    <3> QED
      BY <2>5, <3>2
  <2>7. /\ rooms' = [y \in Codes |-> rooms'[y]]
        /\ \A y \in Codes : Exists(y)' =>
              HasHost(rooms'[y]) /\ Exists(y) /\ rooms'[y].host = rooms[y].host
    BY <2>2 DEF FaultInvariant, RoomsFit, Exists
  <2>8. \A y \in Codes : /\ ~Closes(c, y)
                         /\ Stands(c, y) => Stands(c, y)' \/ Closes(c, y)'
    BY <1>4, <2>2, <2>3 DEF Closes
  <2>9. o.kind \notin Commands /\ o.room \in drawn'
    BY <1>2, KindsDiffer
  <2> QED
    BY <1>2, <1>3, <2>2, <2>4, <2>6, <2>7, <2>8, <2>9, HandlerKeepsFaults
<1>7. CASE CloseRoom(c)
  <2>1. /\ op[c].kind = "closing" /\ op' = [op EXCEPT ![c] = Idle]
        /\ rooms' = [rooms EXCEPT ![x] = NoRoom] /\ channel' = channel
    BY <1>1, <1>7 DEF CloseRoom, Return
  <2>2. NobodyIsCalled /\ \A i \in Instances : \A k \in Queued(i)' : Sent(i, k)
    BY <2>1, NothingPublished, OldMessages DEF FaultInvariant
  <2>3. /\ rooms' = [y \in Codes |-> rooms'[y]]
        /\ \A y \in Codes : Exists(y)' =>
              HasHost(rooms'[y]) /\ Exists(y) /\ rooms'[y].host = rooms[y].host
    BY <1>2, <2>1, HostsStay
  <2>4. ~Exists(x)'
    BY <1>2, <2>1 DEF FaultInvariant, RoomsFit, Exists
  <2>5. \A y \in Codes : Exists(y)' => ~Closes(c, y)
    BY <1>1, <2>4 DEF Closes
  <2>6. \A y \in Codes : Stands(c, y) => Stands(c, y)'
    BY <1>4, <2>1
  <2> QED
    BY <1>2, <1>3, <2>1, <2>2, <2>3, <2>5, <2>6, HandlerKeepsFaults
<1> QED
  BY <1>5, <1>6, <1>7

\* A handler goes on, on an instance that runs or while it leaves.
LEMMA HandlesKeepFaults ==
    ASSUME FaultInvariant, NEW c \in Clients, Handles(c), closing' = closing
    PROVE  FaultInvariant'
<1>1. RoomGoesOn /\ Handler(c) /\ closing[Host[c]].at # "stopped"
  BY DEF Handles, RoomStep, RoomGoesOn
<1>2. PairInvariant'
  BY <1>1, HandlersKeepPairs DEF FaultInvariant
<1>3. CASE EnterCreated(c) \/ EnterJoined(c)
  <2>1. SeatsNobody(c, op[c].room)
    BY <1>3 DEF Handles, EnterCreated, EnterJoined
  <2> QED
    BY <1>1, <1>3, <2>1, EnteringKeepsFaults
<1>4. CASE Unbind(c)
  <2>1. lost' = lost
    BY <1>4 DEF Handles, Unbind
  <2> QED
    BY <1>1, <1>2, <1>4, <2>1, UnbindKeepsFaults
<1>5. CASE ReleaseSeat(c) \/ AnnounceLeave(c) \/ CloseRoom(c)
  <2>1. lost' = lost
    BY <1>5 DEF Handles, ReleaseSeat, AnnounceLeave, CloseRoom
  <2> QED
    BY <1>1, <1>2, <1>5, <2>1, LeavingKeepsFaults
<1> QED
  BY <1>1, <1>3, <1>4, <1>5, HandlersLeft

-----------------------------------------------------------------------------
(* Connections and the subscriber. *)

\* A client asks for a match.
LEMMA QuickMatchKeepsFaults ==
    ASSUME FaultInvariant, NEW c \in Clients, QuickMatch(c), UNCHANGED <<lost, closing>>
    PROVE  FaultInvariant'
<1> DEFINE o == [kind |-> "match"]
           s == InState("lock", 0)
<1>1. PairInvariant /\ PairInvariant'
  BY QuickMatchKeepsPairs DEF FaultInvariant
<1>2. /\ UNCHANGED <<hub, shown, queue, waiting>> /\ UNCHANGED <<rooms, drawn, channel>>
      /\ NobodyIsCalled /\ op[c] = Idle /\ alive[c] = "up"
      /\ op' = [op EXCEPT ![c] = o] /\ proc' = [proc EXCEPT ![ReadLoop(c)] = s]
  BY <1>1, NothingPublished DEF QuickMatch, redis, MayHandle
<1>3. PICK p \in Procs : p = ReadLoop(c)
  BY ProcShape
<1>4. proc[p] = Resting
  BY <1>1, <1>2, <1>3 DEF PairInvariant, ReadLoopsFit, Idle
<1>5. proc'[p] = s /\ \A q \in Procs : q # p => proc'[q] = proc[q]
  BY <1>1, <1>2, <1>3 DEF PairInvariant, Typed, ProcFits
<1>6. ~At(p, "bind") /\ ~At(p, "bind")' /\ \A d \in Clients : ~Moves(p, d)
  BY <1>4, <1>5 DEF At, Resting, InState, Moves, Looking, HasPartner
<1>7. LostGrows
  BY DEF LostGrows, FaultInvariant, LostFits
<1>8. \A d \in Clients : op'[d] = op[d] \/ (d = c /\ op'[d] = o)
  BY <1>1, <1>2 DEF PairInvariant, Typed, OpFits
<1>9. GoneStayGone /\ NamesGoOn /\ RoomsGoOn
  <2>1. \A q \in Procs : proc'[q] = proc[q] \/ (~At(q, "bind")' /\ ~At(q, "bind"))
    BY <1>5, <1>6
  <2>2. \A d \in Clients : \/ op'[d] = op[d]
                           \/ op[d] = Idle /\ alive[d] = "up" /\ op'[d] = [kind |-> "match"]
    BY <1>2, <1>8
  <2>3. \A i \in Instances : \A k \in Queued(i)' : Sent(i, k)
    BY <1>2, OldMessages
  <2> QED
    BY <1>2, <1>7, <2>1, <2>2, <2>3, ProcessesKeepRooms DEF hub
<1>10. \A d \in Clients : Found(d) => Found(d)'
  <2>1. \A q \in Procs, d \in Clients : Moves(q, d) => Moves(q, d)'
    BY <1>5, <1>6 DEF Moves
  <2> QED
    BY <1>2, <2>1 DEF Found, NobodyIsCalled
<1>11. WaitersGoOn
  BY <1>2, <1>10, WaitersLookOn DEF hub
<1> QED
  BY <1>1, <1>2, <1>7, <1>9, <1>11, FaultsKept

\* A connection ends; unless its instance closes its client is in no room.
LEMMA ConnectionEndKeepsFaults ==
    ASSUME FaultInvariant, PairInvariant', NEW c \in Clients,
           op[c] = Idle, ~Up(Host[c]) \/ ~InRoom(c),
           alive' = [alive EXCEPT ![c] = "gone"], waiting' = [waiting EXCEPT ![c] = FALSE],
           queue' \in {queue, queue \ {c}},
           UNCHANGED <<redis, localRooms, member, op, shown, proc, lost, closing>>
    PROVE  FaultInvariant'
<1>1. /\ UNCHANGED <<rooms, drawn, channel>> /\ NobodyIsCalled /\ LostGrows
      /\ \A i \in Instances : \A k \in Queued(i)' : Sent(i, k)
  BY NothingPublished, OldMessages DEF FaultInvariant, redis, LostGrows, LostFits
<1>2. /\ alive'[c] = "gone" /\ \A d \in Clients : d # c => alive'[d] = alive[d]
      /\ \A d \in Clients : d # c => waiting'[d] = waiting[d]
  BY DEF FaultInvariant, PairInvariant, Typed, HubFits, QueueFits
<1>3. GoneStayGone /\ NamesGoOn /\ RoomsGoOn
  <2>1. \A d \in Clients :
          /\ alive'[d] = "up" => alive[d] = "up"
          /\ alive'[d] = "gone" => alive[d] = "gone" \/ ~Up(Host[d])
                                   \/ (op'[d] = Idle /\ ~InRoom(d)')
    BY <1>2 DEF InRoom
  <2> QED
    BY <1>1, <2>1, ProcessesKeepRooms
<1>4. \A d \in Clients : d # c /\ Found(d) => Found(d)'
  BY <1>1 DEF Found, NobodyIsCalled, Moves
<1>5. WaitersGoOn
  <2>1. \A d \in Clients : alive[d] = "up" /\ alive'[d] = "up" /\ waiting'[d] =>
            waiting[d] /\ (Found(d) => Found(d)')
    BY <1>2, <1>4
  <2> QED
    BY <2>1, WaitersLookOn
<1> QED
  BY <1>1, <1>3, <1>5, FaultsKept

\* What a connection that is up begins, and its orderly end.
LEMMA ArrivesKeepFaults ==
    ASSUME FaultInvariant, NEW c \in Clients, Arrives(c), closing' = closing
    PROVE  FaultInvariant'
<1>1. Up(Host[c]) /\ closing[Host[c]].at # "stopped" /\ lost' = lost
  BY DEF Arrives, Up, Running
<1>2. CASE QuickMatch(c)
  BY <1>1, <1>2, QuickMatchKeepsFaults
<1>3. CASE LeaveQueue(c)
  <2>1. PairInvariant'
    BY <1>3, LeaveQueueKeepsPairs DEF FaultInvariant
  <2>2. /\ op[c] = Idle /\ ~InRoom(c)
        /\ alive' = [alive EXCEPT ![c] = "gone"] /\ waiting' = [waiting EXCEPT ![c] = FALSE]
        /\ queue' = queue \ {c}
        /\ UNCHANGED <<redis, localRooms, member, op, shown, proc>>
    BY <1>3 DEF LeaveQueue, Disconnect
  <2> QED
    BY <1>1, <2>1, <2>2, ConnectionEndKeepsFaults
<1>4. CASE RoomStep(BeginLeave(c))
  <2>1. BeginLeave(c) /\ RoomGoesOn
    BY <1>4 DEF RoomStep, RoomGoesOn
  <2>2. PairInvariant'
    BY <2>1, ReadersKeepPairs DEF FaultInvariant
  <2> QED
    BY <1>1, <2>1, <2>2, BeginLeaveKeepsFaults DEF BeginLeave, redis
<1>5. ASSUME ~waiting[c], NEW x \in Codes,
             (\E mode \in Modes : RoomStep(CreateRoom(c, mode, x))) \/ RoomStep(JoinSeat1(c, x))
      PROVE  FaultInvariant'
  <2>1. RoomGoesOn /\ ((\E mode \in Modes : CreateRoom(c, mode, x)) \/ JoinSeat1(c, x))
    BY <1>5 DEF RoomStep, RoomGoesOn
  <2>2. PairInvariant'
    BY <1>5, <2>1, EntrancesKeepPairs DEF FaultInvariant
  <2> QED
    BY <1>1, <2>1, <2>2, EntrancesKeepFaults
<1> QED
  BY <1>2, <1>3, <1>4, <1>5 DEF Arrives

\* A message is taken from the queue of an instance, and what it says is done.
LEMMA NewsKeepsFaults ==
    ASSUME FaultInvariant, PairInvariant', RoomGoesOn, WaitersGoOn,
           UNCHANGED <<rooms, drawn, alive, op, lost, closing>>,
           \A i \in Instances : \A k \in Queued(i)' : Sent(i, k),
           \A c \in Clients :
              \/ member'[c] = member[c]
              \/ /\ member'[c] = NoMember
                 /\ \A x \in Codes : member[c].room = x =>
                       x \in lost.rooms \/ Closing(x) \/ ~Exists(x)
              \/ ~InRoom(c) /\ alive[c] = "up" /\ member'[c].room \in drawn
    PROVE  FaultInvariant'
<1>1. LostGrows
  BY DEF LostGrows, FaultInvariant, LostFits
<1>2. \A c \in Clients : InRoom(c)' => \/ member'[c] = member[c]
                                       \/ alive[c] = "up" /\ member'[c].room \in drawn
  BY DEF InRoom, NoMember
<1>3. GoneStayGone /\ NamesGoOn
  <2>1. drawn \subseteq Codes
    BY DEF FaultInvariant, NamesAreDrawn
  <2>2. \A x \in Codes : Exists(x)' => Exists(x)
    BY DEF Exists
  <2> QED
    BY <1>2, <2>1, <2>2 DEF GoneStayGone, NamesGoOn, RoomGoesOn
<1>4. RoomsGoOn
  <2>1. /\ rooms' = [x \in Codes |-> rooms'[x]]
        /\ \A x \in Codes : Exists(x)' =>
              HasHost(rooms'[x]) /\ Exists(x) /\ rooms'[x].host = rooms[x].host
    BY DEF FaultInvariant, RoomsFit, Exists
  <2>2. \A x \in Codes : Closing(x) => Closing(x)'
    BY DEF Closing, Closes
  <2>3. ASSUME NEW x \in Codes, Exists(x), NEW c \in Clients, Stands(c, x)
        PROVE  Stands(c, x)' \/ Closing(x)' \/ x \in lost'.rooms
    <3>1. CASE member[c] = [room |-> x, seat |-> 0]
      <4>1. InRoom(c) /\ member[c].room = x
        BY <3>1, NobodyAssumption DEF InRoom
      <4>2. CASE member'[c] = member[c]
        BY <3>1, <4>2 DEF Stands
      <4>3. CASE member'[c] # member[c]
        BY <2>2, <2>3, <4>1, <4>3
      <4> QED
        BY <4>2, <4>3
    <3>2. CASE member[c] # [room |-> x, seat |-> 0]
      BY <2>3, <3>2 DEF Stands, RoomGoesOn, At
    <3> QED
      BY <3>1, <3>2
  <2> QED
    BY <2>1, <2>2, <2>3 DEF RoomsGoOn
<1> QED
  BY <1>1, <1>3, <1>4, FaultsKept

\* The subscriber of an instance that runs handles a message.
LEMMA DispatchKeepsFaults ==
    ASSUME FaultInvariant, NEW i \in Instances, Up(i), RoomGoesOn, Dispatch(i),
           UNCHANGED <<lost, closing>>
    PROVE  FaultInvariant'
<1>1. PairInvariant /\ PairInvariant'
  BY DispatchKeepsPairs DEF FaultInvariant
<1>2. PICK n : n = Head(channel[i])
  OBVIOUS
<1>3. /\ channel[i] # <<>> /\ channel' = [channel EXCEPT ![i] = Tail(@)]
      /\ UNCHANGED <<rooms, drawn, alive, op>>
      /\ \/ n.type = "leave" /\ Evict(i, n)
         \/ n.type = "bind" /\ SeatTarget(i, n)
         \/ n.type = "room" /\ Deliver(i, n)
  BY <1>2 DEF Dispatch
<1>4. ChannelFits
  BY <1>1 DEF PairInvariant, Typed
<1>5. /\ 1 \in Queued(i) /\ n = channel[i][1]
      /\ \A j \in Instances : \A k \in Queued(j)' : Sent(j, k)
      /\ \A c \in Clients :
            /\ Host[c] = i /\ Seats1(n, c) => HasMail(c)
            /\ HasMail(c) /\ ~(Host[c] = i /\ Seats1(n, c)) => HasMail(c)'
  BY <1>2, <1>3, <1>4, Dispatches DEF Sent
<1>6. CASE n.type = "leave" /\ Evict(i, n)
  <2> DEFINE here == {b \in localRooms[i] : b[1] = n.room}
             rest == {b[3] : b \in {d \in here : d[2] # n.seat}}
  <2>1. /\ member' = [c \in Clients |-> IF c \in rest THEN NoMember ELSE member[c]]
        /\ Show(rest, Menu)
    BY <1>6 DEF Evict
  <2>2. ASSUME NEW c \in rest
        PROVE  c \in Clients /\ InRoom(c) /\ member[c].room = n.room
    <3>1. PICK b \in localRooms[i] : b[3] = c /\ b[1] = n.room
      BY <2>2
    <3> HIDE DEF here, rest
    <3>2. /\ b[3] \in Clients /\ InRoom(b[3])
          /\ member[b[3]] = [room |-> b[1], seat |-> b[2]]
      BY <1>1, ListenersSit
    <3> QED
      BY <3>1, <3>2
  <2> HIDE DEF here, rest
  <2>3. \A c \in Clients : member'[c] = IF c \in rest THEN NoMember ELSE member[c]
    BY <2>1
  <2>4. WaitersGoOn
    <3>1. \A c \in Clients : HasMail(c) => HasMail(c)'
      BY <1>5, <1>6 DEF Seats1
    <3>2. \A c \in Clients : alive[c] = "up" =>
              shown'[c] = IF c \in rest THEN Menu ELSE shown[c]
      BY <2>1 DEF Show
    <3>3. \A c \in Clients : IF c \in rest THEN InRoom(c) /\ ~InRoom(c)'
                             ELSE InRoom(c)' <=> InRoom(c)
      BY <2>2, <2>3 DEF InRoom, NoMember
    <3> QED
      BY <3>1, <3>2, <3>3, RoomsKeepWaiters
  <2>5. n.room \in lost.rooms \/ Closing(n.room) \/ ~Exists(n.room)
    BY <1>5, <1>6 DEF FaultInvariant, LeavesAreTrue, IsTrue
  <2>6. \A c \in Clients :
           \/ member'[c] = member[c]
           \/ /\ member'[c] = NoMember
              /\ \A x \in Codes : member[c].room = x =>
                    x \in lost.rooms \/ Closing(x) \/ ~Exists(x)
    BY <2>2, <2>3, <2>5
  <2> QED
    BY <1>1, <1>3, <1>5, <2>4, <2>6, NewsKeepsFaults
<1>7. CASE n.type = "room" /\ Deliver(i, n)
  <2> DEFINE here == {b[3] : b \in {d \in localRooms[i] : d[1] = n.room}}
  <2>1. Show(here, n.screen) /\ member' = member
    BY <1>7 DEF Deliver
  <2>2. \A c \in here : InRoom(c)
    <3>1. ASSUME NEW c \in here PROVE InRoom(c)
      <4>1. PICK b \in localRooms[i] : b[3] = c
        BY <3>1
      <4>2. InRoom(b[3])
        BY <1>1, ListenersSit
      <4> QED
        BY <4>1, <4>2
    <3> QED
      BY <3>1
  <2> HIDE DEF here
  <2>3. WaitersGoOn
    <3>1. \A c \in Clients : HasMail(c) => HasMail(c)'
      BY <1>5, <1>7 DEF Seats1
    <3>2. \A c \in Clients : /\ c \notin here => shown'[c] = shown[c]
                             /\ InRoom(c)' <=> InRoom(c)
      BY <2>1 DEF Show, InRoom
    <3> QED
      BY <2>2, <3>1, <3>2, RoomsKeepWaiters
  <2> QED
    BY <1>1, <1>3, <1>5, <2>1, <2>3, NewsKeepsFaults
<1>8. CASE n.type = "bind" /\ SeatTarget(i, n)
  <2>1. PICK t : t = n.to
    OBVIOUS
  <2>2. t \in Clients /\ n.room \in Codes /\ n.room \in drawn
    BY <1>4, <1>5, <1>8, <2>1 DEF ChannelFits, FaultInvariant, NamesAreDrawn
  <2>3. \A c \in Clients : Seats1(n, c) <=> c = t
    BY <1>8, <2>1 DEF Seats1
  <2>4. CASE Host[t] = i /\ alive[t] = "up"
    <3>1. BindLocal(t, n.room, 1) /\ Show({t}, Entered)
      BY <1>8, <2>1, <2>4 DEF SeatTarget
    <3>2. OneClaim(t) /\ HasMail(t)
      BY <1>1, <1>5, <2>2, <2>3, <2>4 DEF PairInvariant
    <3>3. ~InRoom(t) /\ HubFits /\ LocalFits /\ 1 \in Seats
      BY <1>1, <3>2 DEF OneClaim, Placed, PairInvariant, Typed, Seats
    <3>4. /\ \A d \in Clients : d # t => member'[d] = member[d]
          /\ member'[t] = [room |-> n.room, seat |-> 1] /\ InRoom(t)'
      BY <2>2, <2>4, <3>1, <3>3, BindLocalSeats
    <3>5. WaitersGoOn
      <4>1. \A d \in Clients : d # t => /\ InRoom(d)' <=> InRoom(d)
                                        /\ shown'[d] = shown[d]
                                        /\ HasMail(d) => HasMail(d)'
        BY <1>5, <2>3, <3>1, <3>4 DEF InRoom, Show
      <4>2. shown'[t] # Menu
        BY <2>2, <2>4, <3>1 DEF Show, Entered, Menu
      <4> QED
        BY <3>3, <3>4, <4>1, <4>2, RoomsKeepWaiters
    <3>6. \A c \in Clients :
             \/ member'[c] = member[c]
             \/ ~InRoom(c) /\ alive[c] = "up" /\ member'[c].room \in drawn
      BY <2>2, <2>4, <3>3, <3>4
    <3> QED
      BY <1>1, <1>3, <1>5, <3>5, <3>6, NewsKeepsFaults
  <2>5. CASE ~(Host[t] = i /\ alive[t] = "up")
    <3>1. member' = member /\ \A c \in Clients : shown'[c] = shown[c]
      <4>1. CASE Host[t] = i /\ alive[t] # "gone"
        BY <1>8, <2>1, <2>2, <2>5, <4>1 DEF SeatTarget, BindLocal, Show
      <4>2. CASE ~(Host[t] = i /\ alive[t] # "gone")
        BY <1>8, <2>1, <4>2 DEF SeatTarget
      <4> QED
        BY <4>1, <4>2
    <3>2. \A c \in Clients : alive[c] = "up" /\ HasMail(c) => HasMail(c)'
      BY <1>5, <2>3, <2>5
    <3>3. \A c \in Clients : InRoom(c)' <=> InRoom(c)
      BY <3>1 DEF InRoom
    <3>4. WaitersGoOn
      BY <3>1, <3>2, <3>3, RoomsKeepWaiters
    <3> QED
      BY <1>1, <1>3, <1>5, <3>1, <3>4, NewsKeepsFaults
  <2> QED
    BY <2>4, <2>5
<1> QED
  BY <1>3, <1>6, <1>7, <1>8

\* A step that matching and its faults do not see.
LEMMA FaultsUnchanged ==
    ASSUME FaultInvariant,
           UNCHANGED <<rooms, drawn, channel, hub, op, shown, queue, proc, waiting, lost, closing>>
    PROVE  FaultInvariant'
<1>1. PairInvariant'
  BY PairsUnchanged DEF FaultInvariant
<1>2. NobodyIsCalled /\ LostGrows /\ \A i \in Instances : \A k \in Queued(i)' : Sent(i, k)
  BY NothingPublished, OldMessages DEF FaultInvariant, LostGrows, LostFits
<1>3. GoneStayGone /\ NamesGoOn /\ RoomsGoOn
  BY <1>2, ProcessesKeepRooms DEF hub
<1>4. \A c \in Clients : Found(c) => Found(c)'
  BY <1>2 DEF Found, NobodyIsCalled, Moves
<1>5. WaitersGoOn
  BY <1>4, WaitersLookOn DEF hub
<1> QED
  BY <1>1, <1>2, <1>3, <1>5, FaultsKept

-----------------------------------------------------------------------------
(* Shutdown. *)

\* Fewer claims than before, for everybody but one who has just been seated.
LEMMA FewerClaimsKeepPairs ==
    ASSUME PairInvariant, ChannelFits', HubFits', LocalFits', OpFits', QueueFits',
           ProcFits', ReadLoopsFit',
           \A c \in Clients :
              /\ c \in queue' => c \in queue
              /\ HasMail(c)' => HasMail(c)
              /\ SingleMail(c)'
              /\ \A p \in Procs : Moves(p, c)' => Moves(p, c)
              /\ Placed(c)' => \/ Placed(c)
                               \/ c \notin queue' /\ ~HasMail(c)' /\ \A p \in Procs : ~Moves(p, c)'
              /\ Enters(c)' => ~InRoom(c)'
              /\ alive'[c] = "up" => alive[c] = "up" /\ waiting'[c] = waiting[c]
    PROVE  PairInvariant'
<1>1. \A c \in Clients : OneClaim(c)'
  BY ClaimsKept
<1>2. ASSUME NEW c \in Clients, alive'[c] = "up", Claimed(c)'
      PROVE  waiting'[c]
  <2>1. Claimed(c)
    BY <1>2 DEF Claimed
  <2> QED
    BY <1>2, <2>1 DEF PairInvariant, ClaimsWait
<1> QED
  BY <1>1, <1>2 DEF PairInvariant, Typed, ClaimsWait

\* The same, if nobody sits down.
LEMMA NobodySitsDown ==
    ASSUME PairInvariant, UNCHANGED <<channel, localRooms, member>>,
           alive' \in [Clients -> {"up", "cancelled", "gone"}],
           OpFits', QueueFits', ProcFits', ReadLoopsFit',
           \A c \in Clients :
              /\ c \in queue' => c \in queue
              /\ \A p \in Procs : Moves(p, c)' => Moves(p, c)
              /\ Enters(c)' => Enters(c)
              /\ alive'[c] = "up" => alive[c] = "up" /\ waiting'[c] = waiting[c]
    PROVE  PairInvariant'
<1>1. NobodyIsCalled
  BY NothingPublished
<1>2. HubFits' /\ LocalFits'
  BY DEF PairInvariant, Typed, HubFits, LocalFits
<1>3. \A c \in Clients : InRoom(c)' <=> InRoom(c)
  BY DEF InRoom
<1>4. \A c \in Clients : (Placed(c)' => Placed(c)) /\ (Enters(c)' => ~InRoom(c)')
  BY <1>3 DEF Placed, PairInvariant, OneClaim
<1> QED
  BY <1>1, <1>2, <1>4, FewerClaimsKeepPairs DEF NobodyIsCalled

\* What waiters, names and rooms need of a step in which an instance changes its state.
LEMMA ClosingMoves ==
    ASSUME FaultInvariant, PairInvariant', ClosingFits', DownAreDown', NobodyPlays',
           \A c \in Clients : alive'[c] = "up" => alive[c] = "up",
           LostGrows, WaitersGoOn, NamesGoOn, RoomsGoOn
    PROVE  FaultInvariant'
BY WaitersStayKept, NamesStayDrawn, RoomsStayKept DEF FaultInvariant, LostGrows

\* Nothing but the state of an instance, of connections and the queue changes.
LEMMA InstanceMoves ==
    ASSUME FaultInvariant, PairInvariant', ClosingFits', DownAreDown',
           \A c \in Clients : /\ alive'[c] = "up" => alive[c] = "up" /\ c \notin queue \ queue'
                              /\ alive'[c] = "gone" => alive[c] = "gone",
           UNCHANGED <<rooms, drawn, channel, member, op, shown, proc, waiting, lost>>
    PROVE  FaultInvariant'
<1>1. NobodyIsCalled /\ LostGrows /\ \A i \in Instances : \A k \in Queued(i)' : Sent(i, k)
  BY NothingPublished, OldMessages DEF FaultInvariant, LostGrows, LostFits
<1>2. NamesGoOn /\ RoomsGoOn
  BY <1>1, ProcessesKeepRooms
<1>3. WaitersGoOn
  <2>1. \A c \in Clients : alive'[c] = "up" => (Found(c) => Found(c)')
    BY <1>1 DEF Found, NobodyIsCalled, Moves
  <2> QED
    BY <2>1, WaitersLookOn
<1>4. NobodyPlays'
  BY DEF FaultInvariant, NobodyPlays
<1> QED
  BY <1>1, <1>2, <1>3, <1>4, ClosingMoves

\* An instance begins to close: its connections are cancelled.
LEMMA BeginCloseKeepsFaults ==
    ASSUME FaultInvariant, NEW i \in Instances, BeginClose(i)
    PROVE  FaultInvariant'
<1>1. PICK s : s = LET here == {c \in ClientsOf(i) : alive[c] # "gone"}
                   IN  [at |-> "closing", clients |-> here, left |-> here]
  OBVIOUS
<1>2. /\ closing' = [closing EXCEPT ![i] = s] /\ Up(i)
      /\ alive' = [c \in Clients |-> IF Host[c] = i /\ alive[c] = "up" THEN "cancelled"
                                     ELSE alive[c]]
      /\ UNCHANGED <<rooms, drawn, channel, localRooms, member, op, shown, lost>>
      /\ UNCHANGED <<queue, proc, waiting>>
  BY <1>1 DEF BeginClose, FaultAt, redis, matchVars
<1>3. \A c \in Clients : /\ alive'[c] = "up" => alive[c] = "up" /\ Host[c] # i
                         /\ alive'[c] = "gone" <=> alive[c] = "gone"
  BY <1>2
<1>4. PairInvariant'
  <2>1. alive' \in [Clients -> {"up", "cancelled", "gone"}]
    BY <1>2 DEF FaultInvariant, PairInvariant, Typed, HubFits
  <2>2. OpFits' /\ QueueFits' /\ ProcFits' /\ ReadLoopsFit'
    BY <1>2 DEF FaultInvariant, PairInvariant, Typed, OpFits, QueueFits, ProcFits, ReadLoopsFit
  <2>3. \A c \in Clients : /\ Enters(c)' => Enters(c)
                           /\ \A p \in Procs : Moves(p, c)' => Moves(p, c)
    BY <1>2 DEF Enters, Moves
  <2> QED
    BY <1>2, <1>3, <2>1, <2>2, <2>3, NobodySitsDown DEF FaultInvariant
<1>5. closing'[i] = s /\ \A j \in Instances : j # i => closing'[j] = closing[j]
  BY <1>2 DEF FaultInvariant, ClosingFits
<1>6. \A c \in Clients : InRoom(c)' <=> InRoom(c)
  BY <1>2 DEF InRoom
<1>7. ClosingFits'
  <2>1. \A c \in ClientsOf(i) \ s.left : ~InRoom(c)
    BY <1>1, <1>2 DEF FaultInvariant, DownAreDown, ClientsOf
  <2>2. /\ s = [at |-> "closing", clients |-> s.clients, left |-> s.left]
        /\ s.left \subseteq ClientsOf(i)
    BY <1>1
  <2>3. closing' = [j \in Instances |-> closing'[j]]
    BY <1>2 DEF FaultInvariant, ClosingFits
  <2>4. ASSUME NEW j \in Instances
        PROVE  /\ closing'[j].at \in {"running", "closing", "stopped"}
               /\ closing'[j].at = "running" => closing'[j] = Running
               /\ closing'[j].at = "closing" =>
                    /\ closing'[j] = [at |-> "closing", clients |-> closing'[j].clients,
                                      left |-> closing'[j].left]
                    /\ closing'[j].left \subseteq ClientsOf(j)
                    /\ \A c \in ClientsOf(j) \ closing'[j].left : ~InRoom(c)'
               /\ closing'[j].at = "stopped" /\ closing'[j].inTime =>
                    \A c \in ClientsOf(j) : ~InRoom(c)'
    <3>1. CASE j = i
      BY <1>5, <1>6, <2>1, <2>2, <3>1 DEF ClientsOf
    <3>2. CASE j # i
      BY <1>5, <1>6, <3>2 DEF FaultInvariant, ClosingFits, ClientsOf
    <3> QED
      BY <3>1, <3>2
  <2> QED
    BY <2>3, <2>4 DEF ClosingFits
<1>8. DownAreDown'
  <2>1. s.at = "closing" /\ s # Running
    BY <1>1 DEF Running
  <2>2. ASSUME NEW c \in Clients
        PROVE  /\ ~Up(Host[c])' => alive'[c] # "up"
               /\ Up(Host[c])' /\ alive'[c] = "gone" => op'[c] = Idle /\ ~InRoom(c)'
               /\ closing'[Host[c]].at = "stopped" =>
                     op'[c] = Idle /\ (InRoom(c)' => member'[c].room \in lost'.rooms)
    <3>1. CASE Host[c] = i
      BY <1>3, <1>5, <2>1, <3>1 DEF Up
    <3>2. CASE Host[c] # i
      BY <1>2, <1>3, <1>5, <1>6, <3>2, HostShape DEF FaultInvariant, DownAreDown, Up
    <3> QED
      BY <3>1, <3>2
  <2> QED
    BY <2>2 DEF DownAreDown
<1> QED
  BY <1>2, <1>3, <1>4, <1>7, <1>8, InstanceMoves

\* Close leaves a room for one of its clients, or takes it out of the queue.
LEMMA CloseClientKeepsFaults ==
    ASSUME FaultInvariant, NEW i \in Instances, CloseClient(i)
    PROVE  FaultInvariant'
<1>1. PICK c \in closing[i].left : CleanUpFor(c)
  BY DEF CloseClient
<1>2. /\ closing[i].at = "closing" /\ WorkersEnded(i)
      /\ UNCHANGED <<hub, shown, proc, waiting, lost>> /\ UNCHANGED <<rooms, drawn, channel>>
  BY DEF CloseClient, redis
<1>3. c \in Clients /\ Host[c] = i /\ closing[i].left \subseteq ClientsOf(i)
  BY <1>1, <1>2 DEF FaultInvariant, ClosingFits, ClientsOf
<1>4. alive[c] = "gone" /\ op[c] = Idle
  BY <1>2, <1>3 DEF WorkersEnded, ClientsOf
<1>5. CASE InRoom(c)
  <2> DEFINE o == [kind |-> "leave", room |-> member[c].room]
  <2>1. op' = [op EXCEPT ![c] = o] /\ UNCHANGED <<queue, closing>>
    BY <1>1, <1>5 DEF CleanUpFor
  <2>2. RoomGoesOn /\ NobodyIsCalled
    <3>1. waiting' = [d \in Clients |-> waiting[d] /\ shown'[d] = shown[d]]
      BY <1>2 DEF FaultInvariant, PairInvariant, Typed, QueueFits
    <3> QED
      BY <1>2, <2>1, <3>1, NothingPublished DEF RoomGoesOn, FaultInvariant
  <2>3. PairInvariant'
    <3>1. member[c].room \in Codes
      BY <1>3, <1>5 DEF FaultInvariant, PairInvariant, Typed, HubFits, InRoom, NoMember
    <3>2. o \in Ops
      BY <3>1 DEF Ops
    <3>3. op[c].kind # "match"
      BY <1>4 DEF Idle
    <3> QED
      BY <1>2, <1>3, <2>1, <2>2, <3>2, <3>3, HandlerGoesOn DEF FaultInvariant, RoomGoesOn
  <2>4. closing[Host[c]].at # "stopped" /\ ~Up(Host[c])
    BY <1>2, <1>3 DEF Up, Running
  <2> QED
    BY <1>2, <1>3, <1>4, <1>5, <2>1, <2>2, <2>3, <2>4, BeginLeaveKeepsFaults
<1>6. CASE ~InRoom(c)
  <2>1. PICK s : s = [at |-> "closing", clients |-> closing[i].clients,
                    left |-> closing[i].left \ {c}]
    OBVIOUS
  <2>2. closing[i] = [at |-> "closing", clients |-> closing[i].clients,
                      left |-> closing[i].left]
    BY <1>2 DEF FaultInvariant, ClosingFits
  <2>3. queue' = queue \ {c} /\ op' = op
    BY <1>1, <1>6 DEF CleanUpFor
  <2>4. closing'[i] = s /\ \A j \in Instances : j # i => closing'[j] = closing[j]
    <3>1. closing' = [closing EXCEPT ![i] = [closing[i] EXCEPT !.left = @ \ {c}]]
      BY <1>1, <1>3, <1>6 DEF CleanUpFor
    <3>2. [closing[i] EXCEPT !.left = @ \ {c}] = s
      BY <2>1, <2>2
    <3> QED
      BY <3>1, <3>2 DEF FaultInvariant, ClosingFits
  <2>5. \A d \in Clients : InRoom(d)' <=> InRoom(d)
    BY <1>2 DEF InRoom, hub
  <2>6. ClosingFits'
    <3>1. closing' = [j \in Instances |-> closing'[j]]
      BY <1>1, <1>6 DEF CleanUpFor, FaultInvariant, ClosingFits
    <3>2. ASSUME NEW j \in Instances
          PROVE  /\ closing'[j].at \in {"running", "closing", "stopped"}
                 /\ closing'[j].at = "running" => closing'[j] = Running
                 /\ closing'[j].at = "closing" =>
                      /\ closing'[j] = [at |-> "closing", clients |-> closing'[j].clients,
                                        left |-> closing'[j].left]
                      /\ closing'[j].left \subseteq ClientsOf(j)
                      /\ \A d \in ClientsOf(j) \ closing'[j].left : ~InRoom(d)'
                 /\ closing'[j].at = "stopped" /\ closing'[j].inTime =>
                      \A d \in ClientsOf(j) : ~InRoom(d)'
      <4>1. CASE j = i
        <5>1. \A d \in ClientsOf(i) \ s.left : ~InRoom(d)
          BY <1>2, <1>6, <2>1 DEF FaultInvariant, ClosingFits
        <5>2. \A d \in ClientsOf(i) : d \in Clients
          BY DEF ClientsOf
        <5> QED
          BY <1>3, <2>1, <2>4, <2>5, <4>1, <5>1, <5>2
      <4>2. CASE j # i
        BY <2>4, <2>5, <4>2 DEF FaultInvariant, ClosingFits, ClientsOf
      <4> QED
        BY <4>1, <4>2
    <3> QED
      BY <3>1, <3>2 DEF ClosingFits
  <2>7. DownAreDown'
    <3>1. ASSUME NEW d \in Clients
          PROVE  (Up(Host[d])' <=> Up(Host[d])) /\ closing'[Host[d]].at = closing[Host[d]].at
      <4>1. CASE Host[d] = i
        <5>1. s.at = "closing" /\ s # Running /\ closing[i] # Running
          BY <1>2, <2>1 DEF Running
        <5> QED
          BY <1>2, <2>4, <4>1, <5>1 DEF Up
      <4>2. CASE Host[d] # i
        BY <2>4, <4>2, HostShape DEF Up
      <4> QED
        BY <4>1, <4>2
    <3> QED
      BY <1>2, <2>3, <2>5, <3>1 DEF FaultInvariant, DownAreDown, hub
  <2>8. PairInvariant'
    <3>1. \A d \in Clients : /\ Enters(d)' => Enters(d)
                             /\ \A p \in Procs : Moves(p, d)' => Moves(p, d)
      BY <1>2, <2>3 DEF Enters, Moves
    <3>2. OpFits' /\ QueueFits' /\ ProcFits' /\ ReadLoopsFit'
      BY <1>2, <2>3
         DEF FaultInvariant, PairInvariant, Typed, OpFits, QueueFits, ProcFits, ReadLoopsFit
    <3>3. alive' \in [Clients -> {"up", "cancelled", "gone"}]
      BY <1>2 DEF FaultInvariant, PairInvariant, Typed, HubFits, hub
    <3> QED
      BY <1>2, <2>3, <3>1, <3>2, <3>3, NobodySitsDown DEF FaultInvariant, hub
  <2>9. \A d \in Clients : /\ alive'[d] = "up" => alive[d] = "up" /\ d \notin queue \ queue'
                           /\ alive'[d] = "gone" => alive[d] = "gone"
    BY <1>2, <1>4, <2>3 DEF hub
  <2> QED
    BY <1>2, <2>3, <2>6, <2>7, <2>8, <2>9, InstanceMoves DEF hub
<1> QED
  BY <1>5, <1>6

\* Close returns: all its clients are gone and sit nowhere.
LEMMA EndCloseKeepsFaults ==
    ASSUME FaultInvariant, NEW i \in Instances, EndClose(i)
    PROVE  FaultInvariant'
<1>1. PICK s : s = Stopped(TRUE, closing[i].clients)
  OBVIOUS
<1>2. /\ closing[i].at = "closing" /\ WorkersEnded(i) /\ closing[i].left = {}
      /\ closing' = [closing EXCEPT ![i] = s]
      /\ UNCHANGED <<rooms, drawn, channel, hub, op, shown, lost>>
      /\ UNCHANGED <<queue, proc, waiting>>
  BY <1>1 DEF EndClose, vars, redis, matchVars
<1>3. PairInvariant'
  BY <1>2, PairsUnchanged DEF FaultInvariant
<1>4. s.at = "stopped" /\ s # Running
  BY <1>1 DEF Stopped, Running
<1>5. closing'[i] = s /\ \A j \in Instances : j # i => closing'[j] = closing[j]
  BY <1>2 DEF FaultInvariant, ClosingFits
<1>6. \A c \in Clients : InRoom(c)' <=> InRoom(c)
  BY <1>2 DEF InRoom, hub
<1>7. ClosingFits'
  <2>1. closing' = [j \in Instances |-> closing'[j]]
    BY <1>2 DEF FaultInvariant, ClosingFits
  <2>2. \A j \in Instances : j # i =>
          /\ closing'[j].at \in {"running", "closing", "stopped"}
          /\ closing'[j].at = "running" => closing'[j] = Running
          /\ closing'[j].at = "closing" =>
               /\ closing'[j] = [at |-> "closing", clients |-> closing'[j].clients,
                                 left |-> closing'[j].left]
               /\ closing'[j].left \subseteq ClientsOf(j)
               /\ \A c \in ClientsOf(j) \ closing'[j].left : ~InRoom(c)'
          /\ closing'[j].at = "stopped" /\ closing'[j].inTime =>
               \A c \in ClientsOf(j) : ~InRoom(c)'
    BY <1>5, <1>6 DEF FaultInvariant, ClosingFits, ClientsOf
  <2>3. \A c \in ClientsOf(i) : ~InRoom(c)'
    BY <1>2, <1>6 DEF FaultInvariant, ClosingFits, ClientsOf
  <2> QED
    BY <1>4, <1>5, <2>1, <2>2, <2>3 DEF ClosingFits
<1>8. DownAreDown'
  <2>1. ASSUME NEW c \in Clients
        PROVE  /\ ~Up(Host[c])' => alive'[c] # "up"
               /\ Up(Host[c])' /\ alive'[c] = "gone" => op'[c] = Idle /\ ~InRoom(c)'
               /\ closing'[Host[c]].at = "stopped" =>
                     op'[c] = Idle /\ (InRoom(c)' => member'[c].room \in lost'.rooms)
    <3>1. CASE Host[c] = i
      <4>1. alive[c] = "gone" /\ op[c] = Idle
        BY <1>2, <3>1 DEF WorkersEnded, ClientsOf
      <4>2. ~InRoom(c)
        BY <1>2, <3>1 DEF FaultInvariant, ClosingFits, ClientsOf
      <4> QED
        BY <1>2, <1>4, <1>5, <1>6, <3>1, <4>1, <4>2 DEF Up, hub
    <3>2. CASE Host[c] # i
      BY <1>2, <1>5, <1>6, <3>2, HostShape DEF FaultInvariant, DownAreDown, Up, hub
    <3> QED
      BY <3>1, <3>2
  <2> QED
    BY <2>1 DEF DownAreDown
<1> QED
  BY <1>2, <1>3, <1>7, <1>8, InstanceMoves DEF hub

\* An instance dies: what its handlers and processes had begun is lost.
LEMMA DieKeepsFaults ==
    ASSUME FaultInvariant, NEW i \in Instances, Die(i)
    PROVE  FaultInvariant'
<1>1. PICK s : s = Stopped(FALSE, {})
  OBVIOUS
<1>2. /\ closing' = [closing EXCEPT ![i] = s]
      /\ alive' = [c \in Clients |-> IF Host[c] = i THEN "gone" ELSE alive[c]]
      /\ op' = [c \in Clients |-> IF Host[c] = i THEN Idle ELSE op[c]]
      /\ proc' = [p \in Procs |-> IF Host[p[1]] = i THEN Resting ELSE proc[p]]
      /\ waiting' = [c \in Clients |-> Host[c] # i /\ waiting[c]]
      /\ UNCHANGED <<rooms, drawn, channel, localRooms, member, shown, queue>>
  BY <1>1 DEF Die, redis
<1>3. /\ LostGrows
      /\ \A c \in Partners(ProcsOf(i)) : c \in lost'.clients
      /\ \A x \in RoomsOf(ClientsOf(i), ProcsOf(i)) : x \in lost'.rooms
      /\ \A c \in ClientsOf(i) : InRoom(c) => member[c].room \in lost'.rooms
  <2>1. PICK gone, left : /\ gone = Partners(ProcsOf(i))
                          /\ left = RoomsOf(ClientsOf(i), ProcsOf(i))
                               \cup ({member[c].room : c \in ClientsOf(i)} \ {NoCode})
    OBVIOUS
  <2>2. lost' = [clients |-> lost.clients \cup gone, rooms |-> lost.rooms \cup left]
    BY <2>1 DEF Die, Lose
  <2>3. LostGrows
    BY <2>2 DEF LostGrows, LostFits
  <2>4. \A c \in ClientsOf(i) : InRoom(c) => member[c].room \in left
    BY <2>1 DEF InRoom
  <2> QED
    BY <2>1, <2>2, <2>3, <2>4
<1>4. /\ NobodyIsCalled /\ \A j \in Instances : \A k \in Queued(j)' : Sent(j, k)
      /\ \A c \in Clients : InRoom(c)' <=> InRoom(c)
  BY <1>2, NothingPublished, OldMessages DEF FaultInvariant, InRoom
<1>5. /\ \A p \in Procs : p[1] \in Clients
      /\ \A p \in Procs : proc'[p] = IF Host[p[1]] = i THEN Resting ELSE proc[p]
      /\ \A c \in Clients : op'[c] = IF Host[c] = i THEN Idle ELSE op[c]
  BY <1>2, ProcShape
<1>6. PairInvariant'
  <2>1. alive' \in [Clients -> {"up", "cancelled", "gone"}]
    BY <1>2 DEF FaultInvariant, PairInvariant, Typed, HubFits
  <2>2. OpFits' /\ QueueFits'
    BY <1>2 DEF FaultInvariant, PairInvariant, Typed, OpFits, QueueFits, Ops
  <2>3. ProcFits'
    <3>1. \A p \in Procs : StateFits(p, Resting)
      BY DEF StateFits, Resting, Looking, HasPartner
    <3>2. \A p \in Procs : StateFits(p, proc'[p])
      BY <1>5, <3>1 DEF FaultInvariant, PairInvariant, Typed, ProcFits
    <3>3. proc' = [p \in Procs |-> proc'[p]]
      BY <1>2
    <3> QED
      BY <3>2, <3>3 DEF ProcFits
  <2>4. ReadLoopsFit'
    <3>1. ASSUME NEW c \in Clients
          PROVE  op'[c].kind = "match" <=> proc'[ReadLoop(c)] # Resting
      <4>1. CASE Host[c] = i
        BY <1>5, <4>1, ProcShape DEF Idle
      <4>2. CASE Host[c] # i
        BY <1>5, <4>2, ProcShape DEF FaultInvariant, PairInvariant, ReadLoopsFit
      <4> QED
        BY <4>1, <4>2
    <3> QED
      BY <3>1 DEF ReadLoopsFit
  <2>5. \A c \in Clients : /\ Enters(c)' => Enters(c)
                           /\ \A p \in Procs : Moves(p, c)' => Moves(p, c)
    BY <1>5 DEF Enters, Moves, Idle, Resting, Looking, HasPartner
  <2>6. \A c \in Clients : alive'[c] = "up" => alive[c] = "up" /\ waiting'[c] = waiting[c]
    BY <1>2 DEF FaultInvariant, PairInvariant, Typed, QueueFits
  <2> QED
    BY <1>2, <2>1, <2>2, <2>3, <2>4, <2>5, <2>6, NobodySitsDown DEF FaultInvariant
<1>7. s.at = "stopped" /\ s # Running
  BY <1>1 DEF Stopped, Running
<1>8. closing'[i] = s /\ \A j \in Instances : j # i => closing'[j] = closing[j]
  BY <1>2 DEF FaultInvariant, ClosingFits
<1>9. ClosingFits'
  <2>1. closing' = [j \in Instances |-> closing'[j]]
    BY <1>2 DEF FaultInvariant, ClosingFits
  <2>2. \A j \in Instances : j # i =>
          /\ closing'[j].at \in {"running", "closing", "stopped"}
          /\ closing'[j].at = "running" => closing'[j] = Running
          /\ closing'[j].at = "closing" =>
               /\ closing'[j] = [at |-> "closing", clients |-> closing'[j].clients,
                                 left |-> closing'[j].left]
               /\ closing'[j].left \subseteq ClientsOf(j)
               /\ \A c \in ClientsOf(j) \ closing'[j].left : ~InRoom(c)'
          /\ closing'[j].at = "stopped" /\ closing'[j].inTime =>
               \A c \in ClientsOf(j) : ~InRoom(c)'
    BY <1>4, <1>8 DEF FaultInvariant, ClosingFits, ClientsOf
  <2>3. s.at = "stopped" /\ ~s.inTime
    BY <1>1 DEF Stopped
  <2> QED
    BY <1>7, <1>8, <2>1, <2>2, <2>3 DEF ClosingFits
<1>10. DownAreDown' /\ NobodyPlays'
  <2>1. ASSUME NEW c \in Clients
        PROVE  /\ ~Up(Host[c])' => alive'[c] # "up"
               /\ Up(Host[c])' /\ alive'[c] = "gone" => op'[c] = Idle /\ ~InRoom(c)'
               /\ closing'[Host[c]].at = "stopped" =>
                     op'[c] = Idle /\ (InRoom(c)' => member'[c].room \in lost'.rooms)
    <3>1. CASE Host[c] = i
      BY <1>2, <1>3, <1>4, <1>5, <1>7, <1>8, <3>1 DEF Up, ClientsOf
    <3>2. CASE Host[c] # i
      BY <1>2, <1>3, <1>4, <1>5, <1>8, <3>2, HostShape
         DEF FaultInvariant, DownAreDown, Up, LostGrows
    <3> QED
      BY <3>1, <3>2
  <2>2. Idle.kind \notin Commands
    BY KindsDiffer DEF Idle
  <2>3. NobodyPlays'
    BY <1>5, <2>2 DEF FaultInvariant, NobodyPlays
  <2> QED
    BY <2>1, <2>3 DEF DownAreDown
<1>11. \A c \in Clients : alive'[c] = "up" => alive[c] = "up" /\ Host[c] # i
  BY <1>2
<1>12. WaitersGoOn
  <2>1. ASSUME NEW c \in Clients, Host[c] # i, Found(c)
        PROVE  Found(c)' \/ c \in lost'.clients
    <3>1. CASE c \in queue \/ HasMail(c)
      BY <1>2, <1>4, <3>1 DEF Found, NobodyIsCalled
    <3>2. ASSUME NEW p \in Procs, Moves(p, c) PROVE Found(c)' \/ c \in lost'.clients
      <4>1. CASE Host[p[1]] = i
        <5>1. p[1] # c
          BY <2>1, <4>1
        <5>2. proc[p].at \in {"create", "bind"} /\ proc[p].partner = c /\ p \in ProcsOf(i)
          BY <3>2, <4>1, <5>1 DEF Moves, HasPartner, ProcsOf
        <5> QED
          BY <1>3, <5>2 DEF Partners
      <4>2. CASE Host[p[1]] # i
        BY <1>5, <3>2, <4>2 DEF Found, Moves
      <4> QED
        BY <4>1, <4>2
    <3> QED
      BY <2>1, <3>1, <3>2 DEF Found
  <2>2. \A c \in Clients : Host[c] # i => waiting'[c] = waiting[c]
    BY <1>2 DEF FaultInvariant, PairInvariant, Typed, QueueFits
  <2>3. \A c \in Clients : alive[c] = "up" /\ waiting[c] => ~InRoom(c)
    BY DEF FaultInvariant, WaitersKept
  <2> QED
    BY <1>2, <1>4, <1>11, <2>1, <2>2, <2>3 DEF WaitersGoOn
<1>13. NamesGoOn
  <2>1. /\ drawn' = drawn /\ drawn \subseteq Codes
        /\ \A x \in Codes : Exists(x)' => Exists(x)
    BY <1>2 DEF FaultInvariant, NamesAreDrawn, Exists
  <2>2. \A c \in Clients : op'[c] = op[c] \/ op'[c].kind = "idle"
    BY <1>5 DEF Idle
  <2>3. \A p \in Procs : At(p, "bind")' => proc'[p] = proc[p]
    BY <1>5 DEF At, Resting
  <2> QED
    BY <1>2, <1>4, <2>1, <2>2, <2>3 DEF NamesGoOn
<1>14. RoomsGoOn
  <2>1. /\ rooms' = [x \in Codes |-> rooms'[x]]
        /\ \A x \in Codes : Exists(x)' =>
              HasHost(rooms'[x]) /\ Exists(x) /\ rooms'[x].host = rooms[x].host
    BY <1>2 DEF FaultInvariant, RoomsFit, Exists
  <2>2. ASSUME NEW c \in Clients, Host[c] = i, op[c].kind \in Seating
        PROVE  op[c].room \in lost'.rooms
    <3>1. c \in ClientsOf(i)
      BY <2>2 DEF ClientsOf
    <3> QED
      BY <1>3, <2>2, <3>1 DEF RoomsOf
  <2>3. ASSUME NEW p \in Procs, Host[p[1]] = i, At(p, "bind")
        PROVE  proc[p].room \in lost'.rooms
    <3>1. p \in ProcsOf(i)
      BY <2>3 DEF ProcsOf
    <3> QED
      BY <1>3, <2>3, <3>1 DEF RoomsOf
  <2>4. ASSUME NEW x \in Codes, NEW c \in Clients, Closes(c, x)
        PROVE  Closing(x)' \/ x \in lost'.rooms
    <3>1. CASE Host[c] = i
      BY <2>2, <2>4, <3>1 DEF Closes, Seating
    <3>2. CASE Host[c] # i
      BY <1>5, <2>4, <3>2 DEF Closes, Closing
    <3> QED
      BY <3>1, <3>2
  <2>5. ASSUME NEW x \in Codes, NEW c \in Clients, Stands(c, x)
        PROVE  Stands(c, x)' \/ x \in lost'.rooms
    <3>1. CASE member[c] = [room |-> x, seat |-> 0]
      BY <1>2, <3>1 DEF Stands
    <3>2. CASE op[c].kind \in {"created", "unbound"} /\ op[c].room = x /\ Host[c] = i
      BY <2>2, <3>2 DEF Seating
    <3>3. CASE \E p \in Procs : At(p, "bind") /\ proc[p].room = x /\ p[1] = c
      <4>1. PICK p \in Procs : At(p, "bind") /\ proc[p].room = x /\ p[1] = c
        BY <3>3
      <4>2. CASE Host[c] = i
        BY <2>3, <4>1, <4>2
      <4>3. CASE Host[c] # i
        BY <1>5, <4>1, <4>3 DEF Stands, At
      <4> QED
        BY <4>2, <4>3
    <3>4. CASE Host[c] # i /\ member[c] # [room |-> x, seat |-> 0]
      BY <1>5, <2>5, <3>3, <3>4 DEF Stands
    <3> QED
      BY <2>5, <3>1, <3>2, <3>3, <3>4 DEF Stands
  <2> QED
    BY <1>4, <2>1, <2>4, <2>5 DEF RoomsGoOn, Closing
<1> QED
  BY <1>3, <1>6, <1>9, <1>10, <1>11, <1>12, <1>13, <1>14, ClosingMoves

-----------------------------------------------------------------------------
(* What breaks off. *)

\* A message for an instance that does not run is lost.
LEMMA DropMessageKeepsFaults ==
    ASSUME FaultInvariant, NEW i \in Instances, DropMessage(i)
    PROVE  FaultInvariant'
<1>1. /\ ~Up(i) /\ channel[i] # <<>> /\ channel' = [channel EXCEPT ![i] = Tail(@)]
      /\ UNCHANGED <<rooms, drawn, localRooms, member, alive, op, shown, lost, closing>>
      /\ UNCHANGED <<queue, proc, waiting>>
  BY DEF DropMessage, hub, matchVars, faultVars
<1>2. /\ ChannelFits'
      /\ \A c \in Clients : /\ HasMail(c)' => HasMail(c)
                            /\ SingleMail(c) => SingleMail(c)'
                            /\ HasMail(c) /\ Host[c] # i => HasMail(c)'
      /\ \A j \in Instances : \A k \in Queued(j)' : Sent(j, k)
  BY <1>1, Dispatches DEF FaultInvariant, PairInvariant, Typed, Sent
<1>3. \A c \in Clients : InRoom(c)' <=> InRoom(c)
  BY <1>1 DEF InRoom
<1>4. PairInvariant'
  <2>1. /\ HubFits' /\ LocalFits' /\ OpFits' /\ QueueFits' /\ ProcFits' /\ ReadLoopsFit'
    BY <1>1 DEF FaultInvariant, PairInvariant, Typed, HubFits, LocalFits, OpFits, QueueFits,
               ProcFits, ReadLoopsFit
  <2>2. \A c \in Clients : /\ SingleMail(c)'
                           /\ \A p \in Procs : Moves(p, c)' => Moves(p, c)
                           /\ Enters(c)' <=> Enters(c)
                           /\ Enters(c) => ~InRoom(c)
    BY <1>1, <1>2 DEF FaultInvariant, PairInvariant, OneClaim, Moves, Enters
  <2>3. \A c \in Clients : Placed(c)' => Placed(c)
    BY <1>3, <2>2 DEF Placed
  <2> QED
    BY <1>1, <1>2, <1>3, <2>1, <2>2, <2>3, FewerClaimsKeepPairs DEF FaultInvariant
<1>5. RoomGoesOn
  <2>1. waiting' = [c \in Clients |-> waiting[c] /\ shown'[c] = shown[c]]
    BY <1>1 DEF FaultInvariant, PairInvariant, Typed, QueueFits
  <2> QED
    BY <1>1, <2>1 DEF RoomGoesOn
<1>6. WaitersGoOn
  <2>1. \A c \in Clients : alive[c] = "up" => Host[c] # i
    BY <1>1 DEF FaultInvariant, DownAreDown
  <2> QED
    BY <1>1, <1>2, <1>3, <1>5, <2>1, RoomsKeepWaiters
<1> QED
  BY <1>1, <1>2, <1>4, <1>5, <1>6, NewsKeepsFaults

\* A handler that was about to seat its client, or had made it get up, breaks off.
LEMMA HandlerBreaksOff ==
    ASSUME FaultInvariant, NEW c \in Clients, op[c].kind \in Seating,
           Return(c), Lose({}, RoomsOf({c}, {})),
           rooms' = [x \in Codes |-> rooms'[x]],
           \A x \in Codes : Exists(x)' =>
              HasHost(rooms'[x]) /\ Exists(x) /\ rooms'[x].host = rooms[x].host,
           UNCHANGED <<drawn, channel, hub, shown, queue, proc, waiting, closing>>
    PROVE  FaultInvariant'
<1>1. NobodyIsCalled /\ \A i \in Instances : \A k \in Queued(i)' : Sent(i, k)
  BY NothingPublished, OldMessages DEF FaultInvariant
<1>2. RoomGoesOn
  <2>1. waiting' = [d \in Clients |-> waiting[d] /\ shown'[d] = shown[d]]
    BY DEF FaultInvariant, PairInvariant, Typed, QueueFits
  <2> QED
    BY <2>1 DEF RoomGoesOn
<1>3. PairInvariant'
  <2>1. op[c].kind # "match"
    BY DEF Seating
  <2> QED
    BY <1>2, <2>1, HandlerReturns DEF FaultInvariant
<1>4. LostGrows /\ op[c].room \in lost'.rooms
  <2>1. op[c].room \in RoomsOf({c}, {})
    BY DEF RoomsOf
  <2>2. PICK left : left = RoomsOf({c}, {})
    OBVIOUS
  <2>3. lost' = [clients |-> lost.clients \cup {}, rooms |-> lost.rooms \cup left]
    BY <2>2 DEF Lose
  <2> QED
    BY <2>1, <2>2, <2>3 DEF LostGrows, LostFits
<1>5. op' = [op EXCEPT ![c] = Idle]
  BY DEF Return
<1>6. \A x \in Codes : /\ Closes(c, x) => x \in lost'.rooms
                       /\ Stands(c, x) => Stands(c, x)' \/ x \in lost'.rooms
  <2>1. ASSUME NEW x \in Codes, Stands(c, x) PROVE Stands(c, x)' \/ x \in lost'.rooms
    <3>1. CASE op[c].room = x
      BY <1>4, <3>1
    <3>2. CASE op[c].room # x
      BY <2>1, <3>2 DEF Stands, hub, At
    <3> QED
      BY <3>1, <3>2
  <2> QED
    BY <1>4, <2>1 DEF Closes
<1>7. drawn \subseteq drawn' /\ drawn' \subseteq Codes
  BY DEF FaultInvariant, NamesAreDrawn
<1> QED
  BY <1>1, <1>2, <1>3, <1>4, <1>5, <1>6, <1>7, HandlerKeepsFaults

\* The call of a handler fails.
LEMMA CutHandlersKeepFaults ==
    ASSUME FaultInvariant, NEW c \in Clients, CutHandler(c) \/ LeaveFails(c)
    PROVE  FaultInvariant'
<1>1. ASSUME rooms' = rooms
      PROVE  /\ rooms' = [x \in Codes |-> rooms'[x]]
             /\ \A x \in Codes : Exists(x)' =>
                   HasHost(rooms'[x]) /\ Exists(x) /\ rooms'[x].host = rooms[x].host
  BY <1>1 DEF FaultInvariant, RoomsFit, Exists
<1>2. CASE CutHandler(c)
  <2>1. op[c].kind \in Seating
    BY <1>2 DEF CutHandler, FaultInvariant, NobodyPlays, Seating
  <2> QED
    BY <1>1, <1>2, <2>1, HandlerBreaksOff DEF CutHandler, redis, matchVars
<1>3. CASE LeaveFails(c)
  <2>1. PICK x : x = op[c].room
    OBVIOUS
  <2>2. /\ op[c].kind \in Seating /\ Return(c) /\ Lose({}, RoomsOf({c}, {}))
        /\ UNCHANGED <<drawn, channel, hub, shown, queue, proc, waiting, closing>>
        /\ \/ rooms' = rooms
           \/ Exists(x) /\ rooms' = [rooms EXCEPT ![x].guest = Nobody, ![x].ready = FALSE]
    BY <1>3, <2>1 DEF LeaveFails, Seating, matchVars
  <2>3. CASE rooms' = rooms
    BY <1>1, <2>2, <2>3, HandlerBreaksOff
  <2>4. CASE Exists(x) /\ rooms' = [rooms EXCEPT ![x].guest = Nobody, ![x].ready = FALSE]
    <3>1. x \in Codes
      BY <2>1, <2>2 DEF FaultInvariant, NamesAreDrawn, Seating
    <3>2. PICK r : r = [rooms[x] EXCEPT !.guest = Nobody, !.ready = FALSE]
      OBVIOUS
    <3>3. HasHost(r) /\ r.host = rooms[x].host
      BY <2>4, <3>1, <3>2 DEF FaultInvariant, RoomsFit, HasHost
    <3>4. rooms' = [rooms EXCEPT ![x] = r]
      BY <2>4, <3>2
    <3>5. /\ rooms' = [y \in Codes |-> rooms'[y]]
          /\ \A y \in Codes : Exists(y)' =>
                HasHost(rooms'[y]) /\ Exists(y) /\ rooms'[y].host = rooms[y].host
      BY <2>4, <3>1, <3>3, <3>4, HostsStay
    <3> QED
      BY <2>2, <3>5, HandlerBreaksOff
  <2> QED
    BY <2>2, <2>3, <2>4
<1> QED
  BY <1>2, <1>3

\* A room is going to be closed, and nobody is told.
LEMMA AnnounceFailsKeepsFaults ==
    ASSUME FaultInvariant, NEW c \in Clients, AnnounceFails(c)
    PROVE  FaultInvariant'
<1> DEFINE o == [kind |-> "closing", room |-> op[c].room]
<1>1. /\ op[c].kind = "unbound" /\ op' = [op EXCEPT ![c] = o]
      /\ UNCHANGED <<rooms, drawn, channel, hub, shown, queue, proc, waiting, lost, closing>>
  BY DEF AnnounceFails, redis, matchVars
<1>2. RoomGoesOn
  <2>1. waiting' = [d \in Clients |-> waiting[d] /\ shown'[d] = shown[d]]
    BY <1>1 DEF FaultInvariant, PairInvariant, Typed, QueueFits
  <2> QED
    BY <1>1, <2>1 DEF RoomGoesOn
<1>3. /\ NobodyIsCalled /\ LostGrows /\ drawn \subseteq drawn' /\ drawn' \subseteq Codes
      /\ \A i \in Instances : \A k \in Queued(i)' : Sent(i, k)
  BY <1>1, NothingPublished, OldMessages
     DEF FaultInvariant, LostGrows, LostFits, NamesAreDrawn
<1>4. op'[c] = o /\ op[c].room \in drawn /\ (alive[c] # "gone" \/ ~Up(Host[c]))
  BY <1>1 DEF FaultInvariant, PairInvariant, Typed, OpFits, NamesAreDrawn, DownAreDown, Idle
<1>5. PairInvariant'
  <2>1. o \in Ops /\ o.kind \notin {"match", "created", "joined"} /\ op[c].kind # "match"
    BY <1>1, <1>4 DEF Ops, FaultInvariant, NamesAreDrawn
  <2> QED
    BY <1>1, <1>2, <1>3, <2>1, HandlerGoesOn DEF FaultInvariant, RoomGoesOn
<1>6. closing[Host[c]].at # "stopped" /\ o.kind \notin Commands
  BY <1>1, KindsDiffer DEF FaultInvariant, DownAreDown, Idle
<1>7. \A x \in Codes : /\ ~Closes(c, x)
                       /\ Stands(c, x) => Stands(c, x)' \/ Closes(c, x)'
  BY <1>1, <1>4 DEF Closes, Stands, hub, At
<1>8. /\ rooms' = [x \in Codes |-> rooms'[x]]
      /\ \A x \in Codes : Exists(x)' =>
            HasHost(rooms'[x]) /\ Exists(x) /\ rooms'[x].host = rooms[x].host
  BY <1>1 DEF FaultInvariant, RoomsFit, Exists
<1> QED
  BY <1>1, <1>2, <1>3, <1>4, <1>5, <1>6, <1>7, <1>8, HandlerKeepsFaults

\* The connection of a client ends while its instance closes.
LEMMA EndReadLoopKeepsFaults ==
    ASSUME FaultInvariant, NEW c \in Clients, EndReadLoop(c)
    PROVE  FaultInvariant'
<1>1. /\ op[c] = Idle /\ (~Up(Host[c]) \/ ~InRoom(c))
      /\ alive' = [alive EXCEPT ![c] = "gone"] /\ waiting' = [waiting EXCEPT ![c] = FALSE]
      /\ UNCHANGED <<redis, localRooms, member, op, shown, queue, proc, lost, closing>>
  BY DEF EndReadLoop, faultVars, Up, Running
<1>2. PairInvariant'
  <2>1. /\ alive' \in [Clients -> {"up", "cancelled", "gone"}]
        /\ \A d \in Clients : alive'[d] = "up" => alive[d] = "up" /\ waiting'[d] = waiting[d]
    BY <1>1 DEF FaultInvariant, PairInvariant, Typed, HubFits, QueueFits
  <2>2. OpFits' /\ QueueFits' /\ ProcFits' /\ ReadLoopsFit'
    BY <1>1
       DEF FaultInvariant, PairInvariant, Typed, OpFits, QueueFits, ProcFits, ReadLoopsFit
  <2>3. \A d \in Clients : /\ Enters(d)' => Enters(d)
                           /\ \A p \in Procs : Moves(p, d)' => Moves(p, d)
    BY <1>1 DEF Enters, Moves
  <2> QED
    BY <1>1, <2>1, <2>2, <2>3, NobodySitsDown DEF FaultInvariant, redis
<1> QED
  BY <1>1, <1>2, ConnectionEndKeepsFaults

\* What a process leaves behind that breaks off.
LEMMA BreakLoses ==
    ASSUME FaultInvariant, NEW p \in Procs, Break(p)
    PROVE  /\ LostGrows
           /\ At(p, "bind") => proc[p].room \in lost'.rooms
           /\ proc[p].at \in HasPartner => proc[p].partner \in lost'.clients
<1>1. PICK gone, left : gone = Partners({p}) /\ left = RoomsOf({}, {p})
  OBVIOUS
<1>2. lost' = [clients |-> lost.clients \cup gone, rooms |-> lost.rooms \cup left]
  BY <1>1 DEF Break, Lose
<1>3. At(p, "bind") => proc[p].room \in left
  BY <1>1 DEF RoomsOf
<1>4. proc[p].at \in HasPartner => proc[p].partner \in gone
  BY <1>1 DEF Partners, HasPartner
<1> QED
  BY <1>2, <1>3, <1>4 DEF LostGrows, LostFits

\* A process breaks off with its instance or with a call that fails; it may have put its
\* client, who is gone, into the queue, or seated it.
LEMMA ProcessBreaksOff ==
    ASSUME FaultInvariant, PairInvariant', NEW p \in Procs, proc[p] # Resting, Break(p),
           UNCHANGED <<rooms, drawn, channel, shown, closing>>, queue \subseteq queue',
           alive'[p[1]] # "up",
           \A c \in Clients : /\ alive'[c] = "up" => alive[c] = "up"
                              /\ alive'[c] = "gone" => alive[c] = "gone"
                              /\ c # p[1] => waiting'[c] = waiting[c],
           \A c \in Clients :
              \/ member'[c] = member[c]
              \/ /\ c = p[1] /\ ~InRoom(c) /\ alive[c] = "up"
                 /\ member'[c].room \in drawn
    PROVE  FaultInvariant'
<1>1. /\ LostGrows
      /\ At(p, "bind") => proc[p].room \in lost'.rooms
      /\ proc[p].at \in HasPartner => proc[p].partner \in lost'.clients
  BY BreakLoses
<1>2. NobodyIsCalled /\ \A i \in Instances : \A k \in Queued(i)' : Sent(i, k)
  BY NothingPublished, OldMessages DEF FaultInvariant
<1>3. /\ proc' = [proc EXCEPT ![p] = Resting] /\ StateFits(p, Resting)
      /\ \A c \in Clients : op'[c] = op[c] \/ (op[c].kind = "match" /\ op'[c] = Idle)
  BY DoneFits DEF Break, FaultInvariant
<1>4. proc'[p] = Resting /\ \A q \in Procs : q # p => proc'[q] = proc[q]
  BY <1>3, ProcessSteps DEF FaultInvariant, PairInvariant, Typed
<1>5. GoneStayGone /\ NamesGoOn /\ RoomsGoOn
  <2>1. \A q \in Procs :
           \/ proc'[q] = proc[q]
           \/ /\ ~At(q, "bind")'
              /\ At(q, "bind") => \A x \in Codes : x = proc[q].room =>
                    (x \in lost'.rooms \/ Stands(q[1], x)')
    <3>1. ~At(p, "bind")'
      BY <1>4 DEF At, Resting
    <3> QED
      BY <1>1, <1>4, <3>1
  <2>2. \A c \in Clients : \/ member'[c] = member[c]
                           \/ ~InRoom(c) /\ alive[c] = "up" /\ member'[c].room \in drawn
    OBVIOUS
  <2> QED
    BY <1>1, <1>2, <1>3, <2>1, <2>2, ProcessesKeepRooms
<1>6. ASSUME NEW c \in Clients, c # p[1], Found(c)
      PROVE  Found(c)' \/ c \in lost'.clients
  <2>1. CASE c \in queue \/ HasMail(c)
    BY <1>2, <2>1 DEF Found, NobodyIsCalled
  <2>2. ASSUME NEW q \in Procs, Moves(q, c) PROVE Found(c)' \/ c \in lost'.clients
    <3>1. CASE q = p
      BY <1>1, <1>6, <2>2, <3>1 DEF Moves
    <3>2. CASE q # p
      BY <1>4, <2>2, <3>2 DEF Found, Moves
    <3> QED
      BY <3>1, <3>2
  <2> QED
    BY <1>6, <2>1, <2>2 DEF Found
<1>7. WaitersGoOn
  <2> SUFFICES ASSUME NEW c \in Clients, alive[c] = "up", alive'[c] = "up"
               PROVE  /\ ~InRoom(c)' => \/ shown'[c] = Menu
                                        \/ ~InRoom(c) /\ shown'[c] = shown[c]
                      /\ waiting'[c] => /\ ~InRoom(c)'
                                        /\ waiting[c] \/ Found(c)'
                                        /\ Found(c) => Found(c)' \/ c \in lost'.clients
    BY DEF WaitersGoOn
  <2>1. c # p[1]
    OBVIOUS
  <2>2. InRoom(c)' <=> InRoom(c)
    BY <2>1 DEF InRoom
  <2>3. waiting[c] => ~InRoom(c)
    BY DEF FaultInvariant, WaitersKept
  <2> QED
    BY <1>6, <2>1, <2>2, <2>3
<1> QED
  BY <1>1, <1>5, <1>7, FaultsKept

\* The next call of a process fails because its instance closes.
LEMMA CutProcessKeepsFaults ==
    ASSUME FaultInvariant, NEW p \in Procs, CutProcess(p)
    PROVE  FaultInvariant'
<1>1. /\ closing[Host[p[1]]].at = "closing" /\ proc[p] # Resting /\ Break(p) /\ Done(p)
      /\ queue' = queue \/ (At(p, "enqueue") /\ queue' = queue \cup {p[1]})
      /\ UNCHANGED <<rooms, drawn, channel, hub, shown, waiting, closing>>
  BY DEF CutProcess, Break, redis
<1>2. p[1] \in Clients /\ alive[p[1]] # "up"
  BY <1>1, ProcShape DEF FaultInvariant, DownAreDown, Up, Running
<1>3. /\ proc' = [proc EXCEPT ![p] = Resting] /\ StateFits(p, Resting)
      /\ OpFits' /\ ReadLoopsFit' /\ \A c \in Clients : Enters(c)' <=> Enters(c)
  BY <1>1, DoneFits DEF FaultInvariant
<1>4. proc'[p] = Resting
  BY <1>3, ProcessSteps DEF FaultInvariant, PairInvariant, Typed
<1>5. PairInvariant'
  <2>1. NobodyIsCalled /\ QueueFits'
    BY <1>1, <1>2, NothingPublished DEF FaultInvariant, PairInvariant, Typed, QueueFits
  <2>2. \A c \in Clients : ~Moves(p, c)'
    BY <1>4 DEF Moves, Resting, Looking, HasPartner
  <2>3. \A c \in Clients : c \in queue' => \/ c \in queue
                                           \/ c = p[1] /\ Moves(p, c) /\ alive[c] # "up"
    BY <1>1, <1>2 DEF Moves, Looking, At
  <2> QED
    BY <1>1, <1>3, <2>1, <2>2, <2>3, ProcessGoesOn DEF FaultInvariant
<1> QED
  BY <1>1, <1>2, <1>5, ProcessBreaksOff DEF hub

\* A process breaks off that has just put its client, whose connection ends, into the queue.
LEMMA QueuesAndBreaksOff ==
    ASSUME PairInvariant, NEW p \in Procs, NEW c \in Clients, c = p[1], At(p, "enqueue"),
           queue' = queue \cup {c}, Done(p), UNCHANGED <<channel, member, localRooms>>,
           HubFits', waiting' \in [Clients -> BOOLEAN],
           \A d \in Clients : alive'[d] = "up" => alive[d] = "up" /\ d # c
                                                   /\ waiting'[d] = waiting[d]
    PROVE  PairInvariant'
<1>1. Moves(p, c) /\ OneClaim(c) /\ proc[p] # Resting
  BY DEF Moves, At, Looking, PairInvariant, Resting
<1>2. /\ proc' = [proc EXCEPT ![p] = Resting] /\ StateFits(p, Resting)
      /\ OpFits' /\ ReadLoopsFit' /\ \A d \in Clients : Enters(d)' <=> Enters(d)
  BY <1>1, DoneFits
<1>3. ProcFits' /\ proc'[p] = Resting /\ \A q \in Procs : q # p => proc'[q] = proc[q]
  BY <1>2, ProcessSteps DEF PairInvariant, Typed
<1>4. /\ \A d \in Clients : ~Moves(p, d)'
      /\ \A q \in Procs, d \in Clients : Moves(q, d)' => Moves(q, d)
  BY <1>3 DEF Moves, Resting, Looking, HasPartner
<1>5. NobodyIsCalled
  BY NothingPublished
<1>6. ChannelFits' /\ LocalFits' /\ QueueFits'
  <2>1. ChannelFits'
    BY <1>5 DEF NobodyIsCalled
  <2>2. LocalFits'
    BY DEF PairInvariant, LocalFits
  <2>3. QueueFits'
    BY DEF PairInvariant, Typed, QueueFits
  <2> QED
    BY <2>1, <2>2, <2>3
<1>7. \A d \in Clients : Placed(d)' <=> Placed(d)
  BY <1>2 DEF Placed, InRoom
<1>8. ASSUME NEW d \in Clients PROVE OneClaim(d)'
  <2>1. /\ OneClaim(d) /\ (SingleMail(d) => SingleMail(d)')
        /\ HasMail(d)' <=> HasMail(d)
        /\ Enters(d)' => ~InRoom(d)'
    BY <1>2, <1>5 DEF PairInvariant, NobodyIsCalled, OneClaim, InRoom
  <2>2. CASE d = c
    <3>1. \A q \in Procs : ~Moves(q, d)'
      BY <1>1, <1>4, <2>2 DEF OneClaim
    <3> QED
      BY <1>1, <1>7, <2>1, <2>2, <3>1 DEF OneClaim
  <2>3. CASE d # c
    BY <1>4, <1>7, <2>1, <2>3 DEF OneClaim
  <2> QED
    BY <2>2, <2>3
<1>9. ClaimsWait'
  <2>1. ASSUME NEW d \in Clients, alive'[d] = "up", Claimed(d)' PROVE waiting'[d]
    <3>1. Claimed(d)
      BY <1>4, <1>5, <2>1 DEF Claimed, NobodyIsCalled
    <3> QED
      BY <2>1, <3>1 DEF PairInvariant, ClaimsWait
  <2> QED
    BY <2>1 DEF ClaimsWait
<1> QED
  BY <1>2, <1>3, <1>6, <1>8, <1>9 DEF PairInvariant, Typed

\* A call of a process fails; its client may have been seated before, or be in the queue.
LEMMA PairingFailsKeepsFaults ==
    ASSUME FaultInvariant, NEW p \in Procs, PairingFails(p)
    PROVE  FaultInvariant'
<1>1. PICK c \in Clients : c = p[1]
  BY ProcShape
<1>2. /\ proc[p] # Resting /\ Break(p) /\ Done(p)
      /\ alive' = [alive EXCEPT ![c] = IF @ = "up" THEN "cancelled" ELSE @]
      /\ waiting' = [waiting EXCEPT ![c] = FALSE]
      /\ \/ UNCHANGED <<member, localRooms>>
         \/ At(p, "bind") /\ BindLocal(c, proc[p].room, 0)
      /\ queue' = queue \/ (At(p, "enqueue") /\ queue' = queue \cup {c})
      /\ UNCHANGED <<rooms, drawn, channel, shown, closing>>
  BY <1>1 DEF PairingFails, Break, HangUp, redis, Resting, Holding
<1>3. PairInvariant /\ HubFits /\ LocalFits
  BY DEF FaultInvariant, PairInvariant, Typed
<1>4. /\ alive' \in [Clients -> {"up", "cancelled", "gone"}]
      /\ waiting' \in [Clients -> BOOLEAN]
      /\ \A d \in Clients : /\ alive'[d] = "up" => alive[d] = "up" /\ d # c
                            /\ alive'[d] = "gone" => alive[d] = "gone"
                            /\ d # c => waiting'[d] = waiting[d]
  BY <1>2 DEF FaultInvariant, PairInvariant, Typed, HubFits, QueueFits
<1>5. /\ proc' = [proc EXCEPT ![p] = Resting] /\ StateFits(p, Resting)
      /\ OpFits' /\ ReadLoopsFit' /\ \A d \in Clients : Enters(d)' <=> Enters(d)
  BY <1>2, <1>3, DoneFits
<1>6. ProcFits' /\ proc'[p] = Resting /\ \A q \in Procs : q # p => proc'[q] = proc[q]
  BY <1>3, <1>5, ProcessSteps DEF PairInvariant, Typed
<1>7. /\ \A d \in Clients : ~Moves(p, d)'
      /\ \A q \in Procs, d \in Clients : Moves(q, d)' => Moves(q, d)
  BY <1>6 DEF Moves, Resting, Looking, HasPartner
<1>8. /\ HubFits' /\ LocalFits' /\ \A d \in Clients : d # c => member'[d] = member[d]
      /\ \/ member'[c] = member[c]
         \/ /\ At(p, "bind") /\ ~InRoom(c) /\ alive[c] = "up" /\ InRoom(c)'
            /\ member'[c].room \in drawn
  <2>1. CASE UNCHANGED <<member, localRooms>>
    BY <1>3, <1>4, <2>1 DEF HubFits, LocalFits
  <2>2. CASE At(p, "bind") /\ BindLocal(c, proc[p].room, 0)
    <3>1. proc[p].room \in Codes /\ proc[p].room \in drawn /\ 0 \in Seats
      BY <2>2 DEF FaultInvariant, PairInvariant, Typed, ProcFits, StateFits, NamesAreDrawn,
                 At, Seats
    <3>2. ~InRoom(c)
      <4>1. Moves(p, c)
        BY <1>1, <2>2 DEF Moves, At, Looking
      <4> QED
        BY <1>3, <4>1 DEF PairInvariant, OneClaim, Placed
    <3>3. /\ localRooms' \in [Instances -> SUBSET (Codes \X Seats \X Clients)]
          /\ member' \in [Clients -> [room : Codes, seat : Seats] \cup {NoMember}]
          /\ LocalFits'
          /\ \A d \in Clients : d # c => member'[d] = member[d]
          /\ IF alive[c] = "up"
             THEN member'[c] = [room |-> proc[p].room, seat |-> 0] /\ InRoom(c)'
             ELSE member' = member
      BY <1>3, <2>2, <3>1, <3>2, BindLocalSeats
    <3> QED
      BY <1>4, <2>2, <3>1, <3>2, <3>3 DEF HubFits
  <2> QED
    BY <1>2, <2>1, <2>2
<1>9. NobodyIsCalled /\ QueueFits'
  BY <1>2, <1>3, <1>4, NothingPublished DEF PairInvariant, Typed, QueueFits
<1>10. ASSUME queue' = queue, NEW d \in Clients
       PROVE  /\ Placed(d)' => \/ Placed(d)
                               \/ c = d /\ d \notin queue' /\ ~HasMail(d)'
                                  /\ \A q \in Procs : ~Moves(q, d)'
              /\ Enters(d)' => ~InRoom(d)'
  <2>1. CASE member'[d] = member[d]
    BY <1>3, <1>5, <2>1 DEF Placed, InRoom, PairInvariant, OneClaim
  <2>2. CASE member'[d] # member[d]
    <3>1. d = c /\ At(p, "bind")
      BY <1>8, <2>2
    <3>2. Moves(p, c) /\ OneClaim(c)
      BY <1>1, <1>3, <3>1 DEF Moves, At, Looking, PairInvariant
    <3>3. c \notin queue /\ ~HasMail(c) /\ ~Placed(c) /\ \A q \in Procs : Moves(q, c) => q = p
      BY <3>2 DEF OneClaim
    <3>4. ~Enters(c)'
      BY <1>5, <3>3 DEF Placed
    <3> QED
      BY <1>7, <1>9, <1>10, <3>1, <3>3, <3>4 DEF NobodyIsCalled
  <2> QED
    BY <2>1, <2>2
<1>11. PairInvariant'
  <2>1. CASE queue' = queue
    BY <1>2, <1>3, <1>4, <1>5, <1>6, <1>7, <1>8, <1>9, <1>10, <2>1, FewerClaimsKeepPairs
       DEF NobodyIsCalled
  <2>2. CASE At(p, "enqueue") /\ queue' = queue \cup {c}
    <3>1. UNCHANGED <<member, localRooms>>
      BY <1>2, <2>2 DEF At
    <3> QED
      BY <1>1, <1>2, <1>3, <1>4, <1>8, <2>2, <3>1, QueuesAndBreaksOff
  <2> QED
    BY <1>2, <2>1, <2>2
<1>12. /\ alive'[p[1]] # "up" /\ queue \subseteq queue'
       /\ \A d \in Clients : d # p[1] => waiting'[d] = waiting[d]
  BY <1>1, <1>2, <1>4
<1>13. \A d \in Clients :
          \/ member'[d] = member[d]
          \/ d = p[1] /\ ~InRoom(d) /\ alive[d] = "up" /\ member'[d].room \in drawn
  BY <1>1, <1>8
<1> QED
  BY <1>2, <1>4, <1>11, <1>12, <1>13, ProcessBreaksOff

\* A process goes on; what it has taken out of the queue, unheard, is lost.
LEMMA EntriesLost ==
    ASSUME FaultInvariant, NEW p \in Procs, NEW s, StateFits(p, s),
           proc' = [proc EXCEPT ![p] = s],
           queue' \subseteq queue, Lose(queue \ queue', {}),
           UNCHANGED <<rooms, drawn, channel, hub, shown, waiting, closing>>,
           OpFits', ReadLoopsFit', \A c \in Clients : Enters(c)' <=> Enters(c),
           \A c \in Clients : op'[c] = op[c] \/ (op[c].kind = "match" /\ op'[c] = Idle),
           ~At(p, "bind"), s.at # "bind",
           \A c \in Clients : Moves(p, c)' <=> Moves(p, c)
    PROVE  FaultInvariant'
<1>1. NobodyIsCalled /\ PairInvariant
  BY NothingPublished DEF FaultInvariant
<1>2. QueueFits' /\ \A c \in Clients : ~(c \in queue' /\ Moves(p, c)')
  BY <1>1 DEF PairInvariant, Typed, QueueFits, OneClaim
<1>3. ASSUME NEW c \in Clients
      PROVE  /\ c \in queue' \/ Moves(p, c)' => c \in queue \/ Moves(p, c)
             /\ (c \in queue' \/ (p # ReadLoop(c) /\ Moves(p, c)'))
                   => c \in queue \/ (p # ReadLoop(c) /\ Moves(p, c))
             /\ alive[c] = "up" /\ waiting[c] => waiting'[c]
  OBVIOUS
<1>4. PairInvariant'
  BY <1>1, <1>2, <1>3, ProcessGoesOn
<1>5. PICK gone : gone = queue \ queue'
  OBVIOUS
<1>6. lost' = [clients |-> lost.clients \cup gone, rooms |-> lost.rooms \cup {}]
  BY <1>5 DEF Lose
<1>7. LostGrows /\ \A c \in Clients : c \in queue => c \in queue' \/ c \in lost'.clients
  BY <1>5, <1>6 DEF LostGrows, LostFits
<1> QED
  BY <1>1, <1>4, <1>7, ProcessMayLose

\* A recheck does not hear that its entry was taken out, and counts the round.
LEMMA RemoveFailsKeepsFaults ==
    ASSUME FaultInvariant, NEW p \in Procs, RemoveFails(p)
    PROVE  FaultInvariant'
<1>1. /\ At(p, "remove") /\ NextRound(p)
      /\ queue' \subseteq queue /\ Lose(queue \ queue', {})
      /\ UNCHANGED <<rooms, drawn, channel, hub, shown, waiting, closing>>
  BY DEF RemoveFails, redis
<1>2. proc[p] # Resting /\ PairInvariant
  BY <1>1 DEF FaultInvariant, At, Resting
<1>3. OpFits' /\ ReadLoopsFit' /\ \A c \in Clients : Enters(c)' <=> Enters(c)
  BY <1>1, <1>2, NextRoundFits
<1>4. /\ \E s : /\ proc' = [proc EXCEPT ![p] = s] /\ StateFits(p, s)
                /\ s.at \in {"rest", "wait"}
      /\ \A c \in Clients : op'[c] = op[c] \/ (op[c].kind = "match" /\ op'[c] = Idle)
  BY <1>1, <1>2, NextRoundGoesOn
<1>5. PICK s : /\ proc' = [proc EXCEPT ![p] = s] /\ StateFits(p, s)
               /\ s.at \in {"rest", "wait"}
  BY <1>4
<1>6. proc'[p] = s
  BY <1>2, <1>5, ProcessSteps DEF PairInvariant, Typed
<1>7. ~At(p, "bind") /\ s.at # "bind" /\ \A c \in Clients : Moves(p, c)' <=> Moves(p, c)
  BY <1>1, <1>5, <1>6 DEF At, Moves, Looking, HasPartner
<1> QED
  BY <1>1, <1>3, <1>4, <1>5, <1>7, EntriesLost

\* A search does not hear that it has taken an entry.
LEMMA TakeUnheardKeepsFaults ==
    ASSUME FaultInvariant, NEW p \in Procs, TakeUnheard(p)
    PROVE  FaultInvariant'
<1>1. /\ At(p, "take") /\ PairInvariant /\ StateFits(p, proc[p])
      /\ UNCHANGED <<rooms, drawn, channel, hub, op, shown, waiting, closing>>
  BY DEF TakeUnheard, FaultInvariant, PairInvariant, Typed, ProcFits, redis
<1>2. PICK d \in proc[p].seen \cap queue :
         /\ queue' = queue \ {d} /\ Lose({d}, {})
         /\ proc' = [proc EXCEPT ![p] = [at |-> "take", round |-> proc[p].round,
                                         seen |-> proc[p].seen \ {d}]]
  BY <1>1 DEF TakeUnheard, PairInvariant, Typed, ProcFits
<1>3. PICK s : s = [at |-> "take", round |-> proc[p].round, seen |-> proc[p].seen \ {d}]
  OBVIOUS
<1>4. StateFits(p, s) /\ s.at = "take" /\ proc' = [proc EXCEPT ![p] = s]
  BY <1>1, <1>2, <1>3 DEF StateFits, At, Resting, Looking, HasPartner
<1>5. proc'[p] = s
  BY <1>1, <1>4, ProcessSteps DEF PairInvariant, Typed
<1>6. ~At(p, "bind") /\ \A c \in Clients : Moves(p, c)' <=> Moves(p, c)
  BY <1>1, <1>4, <1>5 DEF At, Moves, Looking, HasPartner
<1>7. queue' \subseteq queue /\ Lose(queue \ queue', {})
  <2>1. queue \ queue' = {d}
    BY <1>2
  <2> QED
    BY <1>2, <2>1
<1>8. OpFits' /\ ReadLoopsFit' /\ \A c \in Clients : Enters(c)' <=> Enters(c)
  <2>1. \A c \in Clients : proc'[ReadLoop(c)] # Resting <=> proc[ReadLoop(c)] # Resting
    BY <1>1, <1>4, ProcessSteps, ProcShape DEF PairInvariant, Typed, At, Resting
  <2> QED
    BY <1>1, <2>1 DEF PairInvariant, Typed, OpFits, ReadLoopsFit, Enters
<1> QED
  BY <1>1, <1>4, <1>6, <1>7, <1>8, EntriesLost

\* The match lock is taken unheard, or not given back.
LEMMA LockFailsKeepsFaults ==
    ASSUME FaultInvariant, NEW p \in Procs, LockUnheard(p) \/ ReleaseFails(p)
    PROVE  FaultInvariant'
<1>1. /\ UNCHANGED <<rooms, drawn, channel, hub, shown, queue, waiting, lost, closing>>
      /\ PairInvariant /\ \A c \in Clients : c \in queue => c \in queue'
  BY DEF LockUnheard, ReleaseFails, redis, FaultInvariant
<1>2. NobodyIsCalled
  BY <1>1, NothingPublished
<1>3. CASE UNCHANGED <<proc, op>>
  BY <1>1, <1>3, FaultsUnchanged
<1>4. CASE At(p, "paired") /\ Done(p)
  <2>1. proc[p] # Resting /\ ~At(p, "bind") /\ \A c \in Clients : ~Moves(p, c)
    BY <1>4 DEF At, Resting, Moves, Looking, HasPartner
  <2>2. /\ proc' = [proc EXCEPT ![p] = Resting] /\ StateFits(p, Resting)
        /\ OpFits' /\ ReadLoopsFit' /\ \A c \in Clients : Enters(c)' <=> Enters(c)
        /\ \A c \in Clients : op'[c] = op[c] \/ (op[c].kind = "match" /\ op'[c] = Idle)
    BY <1>1, <1>4, <2>1, DoneFits
  <2>3. Resting.at \notin Looking /\ Resting.at \notin HasPartner /\ Resting.at # "bind"
    BY DEF Resting, Looking, HasPartner
  <2>4. PairInvariant'
    BY <1>1, <1>2, <2>2, <2>3, ProcessKeepsPairs
  <2> QED
    BY <1>1, <1>2, <2>1, <2>2, <2>3, <2>4, ProcessKeepsFaults
<1>5. CASE proc[p].at \in {"lock", "alone"} /\ Goto(p, "enqueue") /\ op' = op
  <2>1. PICK s : s = InState("enqueue", proc[p].round)
    OBVIOUS
  <2>2. /\ proc' = [proc EXCEPT ![p] = s] /\ StateFits(p, s)
        /\ s.at = "enqueue" /\ s.at \in Looking /\ s.at \notin HasPartner /\ s # Resting
    BY <1>1, <1>5, <2>1
       DEF Goto, PairInvariant, Typed, ProcFits, StateFits, InState, Resting, Looking, HasPartner
  <2>3. proc'[p] = s /\ \A q \in Procs : q # p => proc'[q] = proc[q]
    BY <1>1, <2>2, ProcessSteps DEF PairInvariant, Typed
  <2>4. ~At(p, "bind") /\ proc[p].at \in Looking /\ proc[p] # Resting
    BY <1>5 DEF At, Looking, Resting
  <2>5. OpFits' /\ ReadLoopsFit' /\ \A c \in Clients : Enters(c)' <=> Enters(c)
    <3>1. \A c \in Clients : proc'[ReadLoop(c)] # Resting <=> proc[ReadLoop(c)] # Resting
      BY <2>2, <2>3, <2>4, ProcShape
    <3> QED
      BY <1>1, <1>5, <3>1 DEF PairInvariant, Typed, OpFits, ReadLoopsFit, Enters
  <2>6. PairInvariant'
    BY <1>1, <1>2, <2>2, <2>4, <2>5, ProcessKeepsPairs
  <2>7. \A c \in Clients : Moves(p, c) => Moves(p, c)'
    BY <1>5, <2>2, <2>3 DEF Moves, HasPartner
  <2> QED
    BY <1>1, <1>2, <1>5, <2>2, <2>4, <2>6, <2>7, ProcessKeepsFaults
<1> QED
  BY <1>3, <1>4, <1>5 DEF LockUnheard, ReleaseFails, At

-----------------------------------------------------------------------------
(* All steps, and what the invariant says. *)

\* At first nothing is wrong.
LEMMA FaultStart == FaultInit => FaultInvariant
<1> SUFFICES ASSUME FaultInit PROVE FaultInvariant
  OBVIOUS
<1>1. /\ closing = [i \in Instances |-> Running] /\ lost = [clients |-> {}, rooms |-> {}]
      /\ rooms = [x \in Codes |-> NoRoom] /\ drawn = {}
      /\ channel = [i \in Instances |-> <<>>]
      /\ member = [c \in Clients |-> NoMember] /\ alive = [c \in Clients |-> "up"]
      /\ op = [c \in Clients |-> Idle] /\ shown = [c \in Clients |-> Menu]
      /\ proc = [p \in Procs |-> Resting] /\ waiting = [c \in Clients |-> FALSE]
  BY DEF FaultInit, MatchInit, Init
<1>2. PairInvariant
  BY PairInit DEF FaultInit
<1>3. \A c \in Clients : ~InRoom(c) /\ op[c] = Idle /\ Up(Host[c])
  BY <1>1, HostShape DEF InRoom, NoMember, Up
<1>4. \A i \in Instances : channel[i] = <<>> /\ Queued(i) = {}
  BY <1>1 DEF Queued
<1>5. ClosingFits /\ LostFits
  BY <1>1, <1>3 DEF ClosingFits, LostFits, Running, ClientsOf
<1>6. DownAreDown
  BY <1>1, <1>3 DEF DownAreDown, Up, Running
<1>7. NobodyPlays
  BY <1>3, KindsDiffer DEF NobodyPlays, Idle
<1>8. WaitersKept
  BY <1>1 DEF WaitersKept
<1>9. \A x \in Codes : ~Exists(x)
  BY <1>1 DEF Exists
<1>10. NamesAreDrawn
  <2>1. \A p \in Procs : ~At(p, "bind")
    BY <1>1 DEF At, Resting
  <2> QED
    BY <1>1, <1>3, <1>4, <1>9, <2>1 DEF NamesAreDrawn, Idle
<1>11. RoomsFit /\ RoomsKept /\ LeavesAreTrue
  BY <1>1, <1>4, <1>9 DEF RoomsFit, RoomsKept, LeavesAreTrue
<1> QED
  BY <1>2, <1>5, <1>6, <1>7, <1>8, <1>10, <1>11 DEF FaultInvariant

\* Every step keeps the invariant, the faults included.
LEMMA FaultStep == FaultInvariant /\ [FaultNext]_<<allVars, faultVars>> => FaultInvariant'
<1> SUFFICES ASSUME FaultInvariant, [FaultNext]_<<allVars, faultVars>> PROVE FaultInvariant'
  OBVIOUS
<1>1. ASSUME NEW p \in Procs, Pairs(p), closing' = closing PROVE FaultInvariant'
  BY <1>1, PairsKeepFaults
<1>2. ASSUME NEW c \in Clients, Handles(c) \/ Arrives(c), closing' = closing
      PROVE  FaultInvariant'
  BY <1>2, HandlesKeepFaults, ArrivesKeepFaults
<1>3. CASE ExpireMatchLock /\ UNCHANGED <<lost, closing>>
  BY <1>3, FaultsUnchanged DEF ExpireMatchLock, vars, redis
<1>4. ASSUME NEW i \in Instances, Up(i), RoomStep(Dispatch(i)), UNCHANGED <<lost, closing>>
      PROVE  FaultInvariant'
  BY <1>4, DispatchKeepsFaults DEF RoomStep, RoomGoesOn
<1>5. ASSUME NEW i \in Instances,
             BeginClose(i) \/ CloseClient(i) \/ EndClose(i) \/ Die(i) \/ DropMessage(i)
      PROVE  FaultInvariant'
  BY <1>5, BeginCloseKeepsFaults, CloseClientKeepsFaults, EndCloseKeepsFaults,
     DieKeepsFaults, DropMessageKeepsFaults
<1>6. ASSUME NEW x \in Codes, ExpireLock(x) PROVE FaultInvariant'
  BY <1>6, FaultsUnchanged DEF ExpireLock, matchVars, faultVars
<1>7. ASSUME NEW c \in Clients,
             CutHandler(c) \/ EndReadLoop(c) \/ LeaveFails(c) \/ AnnounceFails(c)
      PROVE  FaultInvariant'
  BY <1>7, CutHandlersKeepFaults, EndReadLoopKeepsFaults, AnnounceFailsKeepsFaults
<1>8. ASSUME NEW p \in Procs,
             \/ CutProcess(p) \/ PairingFails(p) \/ RemoveFails(p)
             \/ TakeUnheard(p) \/ LockUnheard(p) \/ ReleaseFails(p)
      PROVE  FaultInvariant'
  BY <1>8, CutProcessKeepsFaults, PairingFailsKeepsFaults, RemoveFailsKeepsFaults,
     TakeUnheardKeepsFaults, LockFailsKeepsFaults
<1>9. CASE UNCHANGED <<allVars, faultVars>>
  BY <1>9, FaultsUnchanged DEF allVars, vars, matchVars, redis, faultVars
<1> QED
  BY <1>1, <1>2, <1>3, <1>4, <1>5, <1>6, <1>7, <1>8, <1>9 DEF FaultNext

\* The invariant of faults holds for ever.
THEOREM FaultsHold == FaultSpec => []FaultInvariant
BY FaultStart, FaultStep, PTL DEF FaultSpec

\* Nobody is paired twice although instances are shut down, die, or cannot reach Redis at
\* any step, and whatever is left in the queue, in the channels or in locks.
THEOREM PairedOnceDespiteFaults == FaultSpec => []NobodyIsPairedTwice
<1>1. FaultInvariant => NobodyIsPairedTwice
  BY OneClaimAtMost DEF FaultInvariant
<1> QED
  BY <1>1, FaultsHold, PTL

\* One who waits is in the queue, or a process or a message is about to seat it, unless lost
\* names it: a process broke off that had taken it or was to seat it, or Redis took its entry
\* out of the queue and the answer did not come.
THEOREM WaitersAreKept == FaultSpec => []WaiterIsNotForgotten
<1>1. ASSUME FaultInvariant, NEW c \in Clients,
             waiting[c], alive[c] = "up", c \notin lost.clients
      PROVE  \/ Claims(c) # {}
             \/ \E p \in Procs : p[1] = c /\ ~(proc[p].at \in {"rest", "wait", "remove"})
  <2>1. Found(c)
    BY <1>1 DEF FaultInvariant, WaitersKept
  <2>2. CASE c \in queue
    <3>1. <<"waits", c>> \in Claims(c)
      BY <2>2 DEF Claims
    <3> QED
      BY <3>1
  <2>3. CASE HasMail(c)
    <3>1. PICK k \in Queued(Host[c]) : Mail(k, c)
      BY <2>3 DEF HasMail
    <3>2. <<"message", k>> \in Claims(c)
      BY <3>1 DEF Claims, Mail, Queued
    <3> QED
      BY <3>2
  <2>4. ASSUME NEW p \in Procs, Moves(p, c)
        PROVE  \/ Claims(c) # {}
               \/ p[1] = c /\ ~(proc[p].at \in {"rest", "wait", "remove"})
    <3>1. CASE p[1] = c /\ proc[p].at \in Looking
      BY <3>1 DEF Looking
    <3>2. CASE proc[p].at \in HasPartner /\ proc[p].partner = c
      <4>1. <<"partner", p>> \in Claims(c)
        BY <3>2 DEF Claims, HasPartner
      <4> QED
        BY <4>1
    <3> QED
      BY <2>4, <3>1, <3>2 DEF Moves
  <2> QED
    BY <2>1, <2>2, <2>3, <2>4 DEF Found
<1>2. FaultInvariant => WaiterIsNotForgotten
  BY <1>1 DEF WaiterIsNotForgotten
<1> QED
  BY <1>2, FaultsHold, PTL

\* A room that nobody can close any more was left behind by a handler or a process that
\* broke off, or by a connection that ended before its client was seated.
THEOREM RoomsStayOwned == FaultSpec => []RoomsAreOwned
<1>1. ASSUME FaultInvariant, NEW x \in Codes, Exists(x), x \notin lost.rooms
      PROVE  Owned(x)
  <2>1. ASSUME NEW c \in Clients, op[c].kind \in Seating, op[c].room = x
        PROVE  Owned(x)
    <3>1. op[c] # Idle
      BY <2>1 DEF Seating, Idle
    <3>2. closing[Host[c]].at # "stopped"
      BY <1>1, <3>1 DEF FaultInvariant, DownAreDown
    <3> QED
      BY <2>1, <3>2 DEF Owned
  <2>2. CASE Closing(x)
    BY <2>1, <2>2 DEF Closing, Closes, Seating
  <2>3. PICK c \in Clients : c = rooms[x].host
    BY <1>1 DEF FaultInvariant, RoomsFit, HasHost
  <2>4. CASE Stands(c, x)
    <3>1. CASE op[c].kind \in {"created", "unbound"} /\ op[c].room = x
      BY <2>1, <3>1 DEF Seating
    <3>2. CASE member[c] = [room |-> x, seat |-> 0]
      <4>1. InRoom(c) /\ member[c].room = x
        BY <3>2, NobodyAssumption DEF InRoom
      <4>2. closing[Host[c]].at # "stopped"
        BY <1>1, <4>1 DEF FaultInvariant, DownAreDown
      <4> QED
        BY <4>1, <4>2 DEF Owned
    <3>3. CASE \E p \in Procs : At(p, "bind") /\ proc[p].room = x /\ p[1] = c
      BY <3>3 DEF Owned
    <3> QED
      BY <2>4, <3>1, <3>2, <3>3 DEF Stands
  <2>5. Closing(x) \/ Stands(c, x)
    BY <1>1, <2>3 DEF FaultInvariant, RoomsKept
  <2> QED
    BY <2>2, <2>4, <2>5
<1>2. FaultInvariant => RoomsAreOwned
  BY <1>1 DEF RoomsAreOwned
<1> QED
  BY <1>2, FaultsHold, PTL

-----------------------------------------------------------------------------
(* What Close leaves in the queue. *)

\* An instance that closes has taken the entries of those it has cleaned up for out of
\* the queue, and nothing that could put them back runs any more.
CleanedUp(c) == c \notin queue /\ \A p \in Procs : p[1] = c => proc[p] = Resting
QueueLeft ==
    \A i \in Instances :
        /\ closing[i].at = "closing" =>
              /\ closing[i].clients \subseteq ClientsOf(i)
              /\ \A c \in closing[i].clients \ closing[i].left : CleanedUp(c)
        /\ closing[i].at = "stopped" =>
              /\ \A p \in ProcsOf(i) : proc[p] = Resting
              /\ closing[i].inTime =>
                    /\ closing[i].clients \subseteq ClientsOf(i)
                    /\ closing[i].clients \cap queue = {}

\* On an instance that does not run nothing begins, and only what still runs puts an
\* entry into the queue.
NothingBegins ==
    \A c \in Clients : ~Up(Host[c]) =>
        /\ \A p \in Procs : p[1] = c /\ proc[p] = Resting => proc'[p] = Resting
        /\ c \in queue' => c \in queue \/ \E p \in Procs : p[1] = c /\ proc[p] # Resting

\* So what was cleaned up stays so.
LEMMA QueueStaysLeft ==
    ASSUME FaultInvariant, QueueLeft, NothingBegins, closing' = closing
    PROVE  QueueLeft'
<1>1. ASSUME NEW i \in Instances, NEW c \in ClientsOf(i), closing[i].at # "running", CleanedUp(c)
      PROVE  CleanedUp(c)'
  <2>1. c \in Clients /\ ~Up(Host[c])
    BY <1>1 DEF ClientsOf, Up, Running
  <2> QED
    BY <1>1, <2>1 DEF CleanedUp, NothingBegins
<1>2. ASSUME NEW i \in Instances, closing[i].at = "stopped", NEW p \in ProcsOf(i)
      PROVE  proc'[p] = Resting
  <2>1. p \in Procs /\ p[1] \in Clients /\ ~Up(Host[p[1]]) /\ proc[p] = Resting
    BY <1>2, ProcShape DEF ProcsOf, Up, Running, QueueLeft
  <2> QED
    BY <2>1 DEF NothingBegins
<1>3. ASSUME NEW i \in Instances, closing[i].at = "stopped", closing[i].inTime
      PROVE  closing[i].clients \cap queue' = {}
  <2>1. ASSUME NEW c \in closing[i].clients PROVE c \notin queue'
    <3>1. c \in ClientsOf(i) /\ c \notin queue
      BY <1>3, <2>1 DEF QueueLeft
    <3>2. \A p \in Procs : p[1] = c => proc[p] = Resting
      BY <1>3, <3>1 DEF QueueLeft, ProcsOf, ClientsOf
    <3> QED
      BY <1>1, <1>3, <3>1, <3>2 DEF CleanedUp
  <2> QED
    BY <2>1
<1> QED
  BY <1>1, <1>2, <1>3 DEF QueueLeft, ProcsOf, ClientsOf

\* A process moves itself, and at most its own client into the queue.
LEMMA ProcessLeavesOthers ==
    ASSUME FaultInvariant, NEW p \in Procs, Pairing(p)
    PROVE  \A c \in Clients \ {p[1]} :
              /\ \A q \in Procs : q[1] = c => proc'[q] = proc[q]
              /\ c \in queue' => c \in queue
<1>1. proc = [q \in Procs |-> proc[q]]
  BY DEF FaultInvariant, PairInvariant, Typed, ProcFits
<1>2. \A s : proc' = [proc EXCEPT ![p] = s] => \A q \in Procs : q[1] # p[1] => proc'[q] = proc[q]
  BY <1>1
<1>3. ASSUME NEW at, Goto(p, at) PROVE \A q \in Procs : q[1] # p[1] => proc'[q] = proc[q]
  BY <1>2, <1>3 DEF Goto
<1>4. Done(p) => \A q \in Procs : q[1] # p[1] => proc'[q] = proc[q]
  BY <1>2 DEF Done
<1>5. NextRound(p) => \A q \in Procs : q[1] # p[1] => proc'[q] = proc[q]
  BY <1>2, <1>4 DEF NextRound
<1>6. CASE TakeMatchLock(p) \/ MissMatchLock(p) \/ AbandonMatch(p) \/ NoCandidate(p)
  BY <1>3, <1>4, <1>6 DEF TakeMatchLock, MissMatchLock, AbandonMatch, NoCandidate
<1>7. CASE Search(p)
  BY <1>2, <1>7 DEF Search
<1>8. CASE TakeCandidate(p)
  BY <1>2, <1>8 DEF TakeCandidate
<1>9. CASE \E x \in Codes : CreateMatch(p, x)
  BY <1>2, <1>9 DEF CreateMatch
<1>10. CASE BindPair(p)
  BY <1>2, <1>10 DEF BindPair
<1>11. CASE StartMatch(p) \/ LeavePaired(p) \/ LeaveAlone(p)
  BY <1>3, <1>4, <1>11 DEF StartMatch, LeavePaired, LeaveAlone
<1>12. CASE EnqueueAndWait(p)
  <2>1. PICK k \in 1..MaxRechecks :
           proc' = [proc EXCEPT ![p] = Resting, ![<<p[1], k>>] = InState("wait", 1)]
    BY <1>12 DEF EnqueueAndWait
  <2>2. \A q \in Procs : q[1] # p[1] => q # p /\ q # <<p[1], k>>
    BY ProcShape
  <2> QED
    BY <1>1, <1>12, <2>1, <2>2 DEF EnqueueAndWait
<1>13. CASE Requeue(p) \/ RemoveOwn(p)
  BY <1>3, <1>5, <1>13 DEF Requeue, RemoveOwn
<1>14. CASE Wake(p)
  BY <1>3, <1>4, <1>14 DEF Wake
<1> QED
  BY <1>6, <1>7, <1>8, <1>9, <1>10, <1>11, <1>12, <1>13, <1>14 DEF Pairing

\* Nothing begins on an instance that does not run, as long as it does not change its
\* state.
LEMMA StepsBeginNothing ==
    ASSUME FaultInvariant,
           \/ \E p \in Procs :
                 \/ Pairs(p) \/ CutProcess(p) \/ PairingFails(p) \/ RemoveFails(p)
                 \/ TakeUnheard(p) \/ LockUnheard(p) \/ ReleaseFails(p)
           \/ \E c \in Clients : Handles(c) \/ Arrives(c)
           \/ UNCHANGED <<queue, proc>>
    PROVE  NothingBegins
<1>1. proc = [q \in Procs |-> proc[q]]
  BY DEF FaultInvariant, PairInvariant, Typed, ProcFits
<1>2. CASE \E p \in Procs : Pairs(p)
  <2>1. PICK p \in Procs : Up(Host[p[1]]) /\ Pairing(p)
    BY <1>2 DEF Pairs
  <2> QED
    BY <2>1, ProcessLeavesOthers DEF NothingBegins
<1>3. CASE \E p \in Procs : CutProcess(p)
  <2>1. PICK p \in Procs : /\ proc[p] # Resting
                           /\ proc' = [proc EXCEPT ![p] = Resting]
                           /\ queue' = queue \/ queue' = queue \cup {p[1]}
    BY <1>3 DEF CutProcess, Break, Done
  <2> QED
    BY <1>1, <2>1 DEF NothingBegins
<1>4. CASE \E p \in Procs : \/ PairingFails(p) \/ RemoveFails(p)
                            \/ TakeUnheard(p) \/ LockUnheard(p) \/ ReleaseFails(p)
  <2>1. PICK p \in Procs : \/ PairingFails(p) \/ RemoveFails(p)
                           \/ TakeUnheard(p) \/ LockUnheard(p) \/ ReleaseFails(p)
    BY <1>4
  <2>2. Up(Host[p[1]]) /\ queue' \subseteq queue \cup {p[1]}
    BY <2>1 DEF PairingFails, RemoveFails, TakeUnheard, LockUnheard, ReleaseFails, FaultAt
  <2>3. \E s : proc' = proc \/ proc' = [proc EXCEPT ![p] = s]
    BY <2>1 DEF PairingFails, RemoveFails, TakeUnheard, LockUnheard, ReleaseFails, Break,
       Done, NextRound, Goto
  <2>4. \A q \in Procs : q[1] # p[1] => proc'[q] = proc[q]
    BY <1>1, <2>3
  <2> QED
    BY <2>2, <2>4 DEF NothingBegins
<1>5. CASE \E c \in Clients : Handles(c)
  BY <1>5 DEF Handles, RoomStep, NothingBegins
<1>6. CASE \E c \in Clients : Arrives(c)
  <2>1. PICK c \in Clients : /\ Up(Host[c]) /\ queue' \subseteq queue
                             /\ \/ proc' = [proc EXCEPT ![ReadLoop(c)] = InState("lock", 0)]
                                \/ proc' = proc
    BY <1>6 DEF Arrives, QuickMatch, LeaveQueue, RoomStep
  <2>2. \A q \in Procs : q[1] # c => proc'[q] = proc[q]
    BY <1>1, <2>1, ProcShape
  <2> QED
    BY <2>1, <2>2 DEF NothingBegins
<1>7. CASE UNCHANGED <<queue, proc>>
  BY <1>7 DEF NothingBegins
<1> QED
  BY <1>2, <1>3, <1>4, <1>5, <1>6, <1>7

\* An instance closes, cleans up, has cleaned up, or dies.
LEMMA InstanceKeepsQueue ==
    ASSUME FaultInvariant, QueueLeft, NEW i \in Instances,
           BeginClose(i) \/ CloseClient(i) \/ EndClose(i) \/ Die(i)
    PROVE  QueueLeft'
<1> DEFINE CleanAt(j) ==
       /\ closing[j].at = "closing" =>
             /\ closing[j].clients \subseteq ClientsOf(j)
             /\ \A c \in closing[j].clients \ closing[j].left : CleanedUp(c)
       /\ closing[j].at = "stopped" =>
             /\ \A p \in ProcsOf(j) : proc[p] = Resting
             /\ closing[j].inTime =>
                   /\ closing[j].clients \subseteq ClientsOf(j)
                   /\ closing[j].clients \cap queue = {}
<1>1. ASSUME \A j \in Instances \ {i} : closing'[j] = closing[j],
             queue' \subseteq queue, CleanAt(i)',
             \A p \in Procs : proc'[p] = proc[p] \/ proc'[p] = Resting
      PROVE  QueueLeft'
  <2>1. ASSUME NEW j \in Instances PROVE CleanAt(j)'
    <3>1. CASE j = i
      BY <1>1, <3>1
    <3>2. CASE j # i
      <4>1. \A c : CleanedUp(c) => CleanedUp(c)'
        BY <1>1 DEF CleanedUp
      <4>2. CleanAt(j)
        BY DEF QueueLeft
      <4> QED
        BY <1>1, <3>2, <4>1, <4>2 DEF ProcsOf, ClientsOf
    <3> QED
      BY <3>1, <3>2
  <2> QED
    BY <2>1 DEF QueueLeft
<1>2. closing = [j \in Instances |-> closing[j]] /\ proc = [p \in Procs |-> proc[p]]
  BY DEF FaultInvariant, ClosingFits, PairInvariant, Typed, ProcFits
<1>3. CASE BeginClose(i)
  <2>1. PICK here \in SUBSET ClientsOf(i) :
           closing' = [closing EXCEPT ![i] = [at |-> "closing", clients |-> here, left |-> here]]
    BY <1>3 DEF BeginClose
  <2>2. UNCHANGED <<queue, proc>>
    BY <1>3 DEF BeginClose, matchVars
  <2>3. CleanAt(i)'
    BY <1>2, <2>1 DEF ClientsOf
  <2> QED
    BY <1>1, <1>2, <2>1, <2>2, <2>3
<1>4. CASE CloseClient(i)
  <2>1. PICK c \in closing[i].left : CleanUpFor(c)
    BY <1>4 DEF CloseClient
  <2>2. /\ closing[i].at = "closing" /\ WorkersEnded(i) /\ UNCHANGED proc
        /\ closing[i] = [at |-> "closing", clients |-> closing[i].clients,
                         left |-> closing[i].left]
        /\ c \in Clients /\ Host[c] = i
    BY <1>4, <2>1 DEF CloseClient, FaultInvariant, ClosingFits, ClientsOf
  <2>3. CASE UNCHANGED <<queue, closing>>
    <3>1. CleanAt(i)'
      <4>1. CleanAt(i)
        BY DEF QueueLeft
      <4> QED
        BY <2>2, <2>3, <4>1 DEF CleanedUp, ProcsOf, ClientsOf
    <3> QED
      BY <1>1, <2>2, <2>3, <3>1
  <2>4. CASE queue' = queue \ {c} /\ closing' = [closing EXCEPT ![Host[c]].left = @ \ {c}]
    <3>1. closing' = [closing EXCEPT ![i] = [closing[i] EXCEPT !.left = @ \ {c}]]
      BY <2>2, <2>4
    <3>2. closing'[i] = [at |-> "closing", clients |-> closing[i].clients,
                         left |-> closing[i].left \ {c}]
      BY <1>2, <2>2, <3>1
    <3>3. \A d \in closing[i].clients \ (closing[i].left \ {c}) : CleanedUp(d)'
      BY <2>2, <2>4 DEF QueueLeft, CleanedUp, WorkersEnded, ProcsOf
    <3>4. CleanAt(i)'
      BY <2>2, <3>2, <3>3 DEF QueueLeft, ClientsOf
    <3> QED
      BY <1>1, <1>2, <2>2, <2>4, <3>1, <3>4
  <2> QED
    BY <2>1, <2>3, <2>4 DEF CleanUpFor
<1>5. CASE EndClose(i)
  <2>1. /\ closing[i].at = "closing" /\ WorkersEnded(i) /\ closing[i].left = {}
        /\ closing' = [closing EXCEPT ![i] = Stopped(TRUE, closing[i].clients)]
        /\ UNCHANGED <<queue, proc>>
    BY <1>5 DEF EndClose, matchVars
  <2>2. closing[i].clients \subseteq ClientsOf(i) /\ closing[i].clients \cap queue = {}
    BY <2>1 DEF QueueLeft, CleanedUp
  <2>3. CleanAt(i)'
    BY <1>2, <2>1, <2>2 DEF Stopped, WorkersEnded, ProcsOf, ClientsOf
  <2> QED
    BY <1>1, <1>2, <2>1, <2>3
<1>6. CASE Die(i)
  <2>1. /\ closing' = [closing EXCEPT ![i] = Stopped(FALSE, {})]
        /\ proc' = [p \in Procs |-> IF Host[p[1]] = i THEN Resting ELSE proc[p]]
        /\ queue' = queue
    BY <1>6 DEF Die
  <2>2. CleanAt(i)'
    BY <1>2, <2>1 DEF Stopped, ProcsOf
  <2> QED
    BY <1>1, <1>2, <2>1, <2>2
<1> QED
  BY <1>3, <1>4, <1>5, <1>6

\* Every step keeps what Close has cleaned up.
LEMMA QueueStep ==
    FaultInvariant /\ QueueLeft /\ [FaultNext]_<<allVars, faultVars>> => QueueLeft'
<1> SUFFICES ASSUME FaultInvariant, QueueLeft, [FaultNext]_<<allVars, faultVars>>
             PROVE  QueueLeft'
  OBVIOUS
<1>1. CASE \E i \in Instances : BeginClose(i) \/ CloseClient(i) \/ EndClose(i) \/ Die(i)
  BY <1>1, InstanceKeepsQueue
<1>2. ASSUME NEW p \in Procs, Pairs(p), closing' = closing PROVE QueueLeft'
  BY <1>2, StepsBeginNothing, QueueStaysLeft
<1>3. ASSUME NEW c \in Clients, Handles(c) \/ Arrives(c), closing' = closing PROVE QueueLeft'
  BY <1>3, StepsBeginNothing, QueueStaysLeft
<1>4. ASSUME NEW p \in Procs,
             \/ CutProcess(p) \/ PairingFails(p) \/ RemoveFails(p)
             \/ TakeUnheard(p) \/ LockUnheard(p) \/ ReleaseFails(p)
      PROVE  QueueLeft'
  <2>1. closing' = closing
    BY <1>4 DEF CutProcess, PairingFails, RemoveFails, TakeUnheard, LockUnheard, ReleaseFails
  <2> QED
    BY <1>4, <2>1, StepsBeginNothing, QueueStaysLeft
<1>5. CASE UNCHANGED <<queue, proc, closing>>
  BY <1>5, StepsBeginNothing, QueueStaysLeft
<1>6. ASSUME NEW c \in Clients,
             CutHandler(c) \/ EndReadLoop(c) \/ LeaveFails(c) \/ AnnounceFails(c)
      PROVE  UNCHANGED <<queue, proc, closing>>
  BY <1>6 DEF CutHandler, EndReadLoop, LeaveFails, AnnounceFails, matchVars, faultVars
<1>7. ASSUME NEW i \in Instances, DropMessage(i) PROVE UNCHANGED <<queue, proc, closing>>
  BY <1>7 DEF DropMessage, matchVars, faultVars
<1>8. ASSUME NEW x \in Codes, ExpireLock(x) PROVE UNCHANGED <<queue, proc, closing>>
  BY <1>8 DEF ExpireLock, matchVars, faultVars
<1>9. ASSUME closing' = closing,
             ExpireMatchLock \/ \E i \in Instances : RoomStep(Dispatch(i))
      PROVE  UNCHANGED <<queue, proc, closing>>
  BY <1>9 DEF ExpireMatchLock, RoomStep
<1>10. CASE UNCHANGED <<allVars, faultVars>>
  BY <1>5, <1>10 DEF allVars, matchVars, faultVars
<1> QED
  BY <1>1, <1>2, <1>3, <1>4, <1>5, <1>6, <1>7, <1>8, <1>9, <1>10 DEF FaultNext

\* An instance that was closed in time has nobody in a room, and none of those for whom
\* Close has cleaned up in the queue, whatever its rechecks were doing.
THEOREM CloseLeaves == FaultSpec => []CloseLeavesNothing
<1>1. FaultInit => QueueLeft
  BY DEF FaultInit, QueueLeft, Running
<1>2. FaultSpec => []QueueLeft
  BY <1>1, FaultsHold, QueueStep, PTL DEF FaultSpec
<1>3. ASSUME FaultInvariant, QueueLeft,
             NEW i \in Instances, closing[i].at = "stopped", closing[i].inTime
      PROVE  /\ localRooms[i] = {}
             /\ \A c \in ClientsOf(i) : ~InRoom(c)
             /\ closing[i].clients \cap queue = {}
  <2>1. \A c \in ClientsOf(i) : ~InRoom(c)
    BY <1>3 DEF FaultInvariant, ClosingFits
  <2>2. ASSUME NEW b \in localRooms[i] PROVE FALSE
    <3>1. b[3] \in Clients /\ Host[b[3]] = i /\ InRoom(b[3])
      BY <1>3, ListenersSit DEF FaultInvariant
    <3> QED
      BY <2>1, <3>1 DEF ClientsOf
  <2>3. closing[i].clients \cap queue = {}
    BY <1>3 DEF QueueLeft
  <2> QED
    BY <2>1, <2>2, <2>3
<1>4. FaultInvariant /\ QueueLeft => CloseLeavesNothing
  BY <1>3 DEF CloseLeavesNothing
<1> QED
  BY <1>2, <1>4, FaultsHold, PTL
=============================================================================
