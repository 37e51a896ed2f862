------------------------------- MODULE App_proofs -------------------------------
(***************************************************************************)
(* The page never shows what is not so, for every board, bound and size of *)
(* the buffer.  The invariant (PageInv) has three parts: the values of the *)
(* fields (Shape); what each screen has to do with the connection, the     *)
(* login dialog and what a game leaves behind (Connected); and one order   *)
(* for the messages that wait in the page and those in the connection      *)
(* (InOrder).  All that the server does comes down to at most two messages *)
(* told after the last (ServerStep); all that the page does takes the      *)
(* first one off, moves it, or gives the connection up.                    *)
(*                                                                         *)
(* A game at one screen keeps the rules of the server (LocalInv), by the   *)
(* lemmas of BrowserGame_proofs.                                           *)
(***************************************************************************)
EXTENDS App, BrowserGame_proofs, SequenceTheorems

\* A view of a game is over, or leaves room for another ply.
Views == {v \in Online!Views : v.over \/ v.ply < MaxPlies}

\* The states the server sends, and all of its messages.
States == {State(v, last) : v \in Views, last \in BOOLEAN}
OtherMessages ==
    {Room(you) : you \in Online!Seats}
    \cup {Lobby(guest, ready) : guest \in BOOLEAN, ready \in BOOLEAN}
    \cup {Message(type) : type \in {"waiting", "opponent_left", "rematch_ask"}}
    \cup {Error(code) : code \in {"gone", "login", "refused"}}
ServerMessages == States \cup {Start} \cup OtherMessages

\* The commands of the browser.
Commands ==
    {Message(type) : type \in Actions \cup {"start_game", "move", "resign", "rematch"}}
    \cup {[type |-> "ready", ready |-> ready] : ready \in BOOLEAN}

Sessions ==
    {Away, Unseated, Queued, HungUp}
    \cup {InLobby(you, guest, ready) :
             you \in Online!Seats, guest \in BOOLEAN, ready \in BOOLEAN}
    \cup {InGame(ai, you, view, votes) : ai \in BOOLEAN, you \in Online!Seats,
             view \in Views, votes \in SUBSET Online!Seats}

\* The moves that can be taken back are any, and so is what an overlay says.
ScreenShape ==
    /\ mode \in {"menu", "local", "ai", "online"}
    /\ OnServer => state \in Views
    /\ ui \in [seat : Online!Seats, netMode : {"ai", "online"}, busy : BOOLEAN,
               asked : BOOLEAN, anim : BOOLEAN, queued : Seq(States), timer : {ui.timer},
               overlay : {ui.overlay}, history : {ui.history}]

LobbyShape ==
    lobby \in [action : Actions \cup {NoAction}, room : BOOLEAN, guest : BOOLEAN,
              ready : BOOLEAN, pending : BOOLEAN]

LoginShape == login \in [modal : Actions \cup {"closed", "open"}, submit : BOOLEAN]

NetShape ==
    /\ net \in [ws : {"none", "connecting", "open"}, for : Actions \cup {NoAction},
                in : Seq(ServerMessages), out : Seq(Commands)]
    /\ srv \in Sessions

Shape == ScreenShape /\ LobbyShape /\ LoginShape /\ NetShape

\* Only an open connection carries anything, and only there the server knows a session.
OnlyOpenCarries ==
    net.ws # "open" => net.in = <<>> /\ srv = Away

\* The login dialog lies above the menu, and never above a wait.
LoginInMenu ==
    login.modal # "closed" => mode = "menu" /\ ~Waiting

\* Without a wait the menu has no connection; a socket that is opening was asked for
\* by the wait on the screen, an open one has set the mode it asked for.
MenuWaits ==
    /\ net.ws = "connecting" => mode = "menu" /\ net.for = lobby.action
    /\ mode = "menu" /\ net.ws = "open" => (ui.netMode = "ai" <=> lobby.action = "ai")

\* Nothing is left of a game in the menu, and nothing of the server in a local game.
MenuIsBlank ==
    /\ mode = "menu" => /\ ui.queued = <<>> /\ ui.timer = NoTimer
                        /\ ui.overlay.kind \in {"none", "ask"}
    /\ mode = "local" => ui.queued = <<>>

Connected == OnlyOpenCarries /\ LoginInMenu /\ MenuWaits /\ MenuIsBlank

\* The menu shows no view: there the first to come is that of a start.
Succeeds(at, screen, way, j, m) ==
    IF at = "menu" /\ j = 0 THEN m.type = "start" ELSE Follows(ViewAt(screen, way, j), m)

Ordered(at, screen, way) ==
    \A k \in 1..Len(way), j \in 0..Len(way) :
        HasView(way[k]) /\ Latest(way, k - 1, j) => Succeeds(at, screen, way, j, way[k])

\* The last view on the way, that of the screen if there is no other, is v.
EndsWith(at, screen, way, v) ==
    \A j \in 0..Len(way) :
        Latest(way, Len(way), j) => ~(at = "menu" /\ j = 0) /\ ViewAt(screen, way, j) = v

InOrder ==
    /\ Ordered(mode, state, OnTheWay)
    /\ srv.at = "game" => EndsWith(mode, state, OnTheWay, srv.view)

\* A verdict on the screen, or to come by the timer, is that of the state.
VerdictDue ==
    ui.timer # NoTimer => mode # "menu" /\ Finished /\ ui.timer = state.winner

PageInv ==
    /\ Shape /\ Connected /\ ScreenMatchesConnection
    /\ InOrder /\ VerdictDue /\ VerdictFitsGame
-----------------------------------------------------------------------------
(* Messages on their way: what their order survives. *)

\* One more message at the end.
LEMMA OrderedAppend ==
    ASSUME NEW at, NEW screen, NEW way \in Seq(ServerMessages),
           NEW m \in ServerMessages,
           Ordered(at, screen, way),
           HasView(m) => \A j \in 0..Len(way) :
                             Latest(way, Len(way), j) => Succeeds(at, screen, way, j, m)
    PROVE  Ordered(at, screen, Append(way, m))
<1> DEFINE more == Append(way, m)
<1>1. /\ Len(more) = Len(way) + 1 /\ Len(way) \in Nat
      /\ \A i \in 1..Len(way) : more[i] = way[i]
      /\ more[Len(way) + 1] = m
  BY AppendProperties, LenProperties
<1> SUFFICES ASSUME NEW k \in 1..Len(more), NEW j \in 0..Len(more),
                    HasView(more[k]), Latest(more, k - 1, j)
             PROVE  Succeeds(at, screen, more, j, more[k])
  BY DEF Ordered
<1> HIDE DEF more
<1>2. j \in 0..(k - 1) /\ j \in 0..Len(way) /\ k - 1 \in 0..Len(way)
  BY <1>1 DEF Latest
<1>3. Latest(way, k - 1, j)
  BY <1>1, <1>2 DEF Latest
<1>4. Succeeds(at, screen, way, j, more[k])
  <2>1. CASE k <= Len(way)
    BY <2>1, <1>1, <1>2, <1>3 DEF Ordered
  <2>2. CASE k = Len(way) + 1
    BY <2>2, <1>1, <1>2, <1>3
  <2> QED
    BY <2>1, <2>2, <1>1
<1>5. j # 0 => more[j] = way[j]
  BY <1>1, <1>2
<1> QED
  BY <1>4, <1>5 DEF Succeeds, ViewAt

\* A view at the end is the last one, anything else changes nothing.
LEMMA EndsWithAppend ==
    ASSUME NEW at, NEW screen, NEW way \in Seq(ServerMessages),
           NEW m \in ServerMessages
    PROVE  /\ HasView(m) => EndsWith(at, screen, Append(way, m), m.view)
           /\ \A v : ~HasView(m) /\ EndsWith(at, screen, way, v)
                      => EndsWith(at, screen, Append(way, m), v)
<1> DEFINE more == Append(way, m)
<1>1. /\ Len(more) = Len(way) + 1 /\ Len(way) \in Nat
      /\ \A i \in 1..Len(way) : more[i] = way[i]
      /\ more[Len(way) + 1] = m
  BY AppendProperties, LenProperties
<1> HIDE DEF more
<1>2. ASSUME HasView(m)
      PROVE  EndsWith(at, screen, more, m.view)
  <2>1. ASSUME NEW j \in 0..Len(more), Latest(more, Len(more), j)
        PROVE  j = Len(more)
    BY <2>1, <1>1, <1>2 DEF Latest
  <2> QED
    BY <2>1, <1>1 DEF EndsWith, ViewAt
<1>3. ASSUME NEW v, ~HasView(m), EndsWith(at, screen, way, v)
      PROVE  EndsWith(at, screen, more, v)
  <2> SUFFICES ASSUME NEW j \in 0..Len(more), Latest(more, Len(more), j)
               PROVE  ~(at = "menu" /\ j = 0) /\ ViewAt(screen, more, j) = v
    BY DEF EndsWith
  <2>1. j # Len(more)
    BY <1>1, <1>3 DEF Latest
  <2>2. j \in 0..Len(way) /\ Latest(way, Len(way), j)
    BY <2>1, <1>1 DEF Latest
  <2>3. ~(at = "menu" /\ j = 0) /\ ViewAt(screen, way, j) = v
    BY <2>2, <1>3 DEF EndsWith
  <2> QED
    BY <2>2, <2>3, <1>1 DEF ViewAt
<1> QED
  BY <1>2, <1>3 DEF more

\* What comes last is lost.
LEMMA OrderedPrefix ==
    ASSUME NEW at, NEW screen, NEW way \in Seq(ServerMessages),
           NEW rest \in Seq(ServerMessages),
           Len(rest) <= Len(way), \A i \in 1..Len(rest) : rest[i] = way[i],
           Ordered(at, screen, way)
    PROVE  Ordered(at, screen, rest)
<1>1. Len(way) \in Nat /\ Len(rest) \in Nat
  BY LenProperties
<1> SUFFICES ASSUME NEW k \in 1..Len(rest), NEW j \in 0..Len(rest),
                    HasView(rest[k]), Latest(rest, k - 1, j)
             PROVE  Succeeds(at, screen, rest, j, rest[k])
  BY DEF Ordered
<1>2. j \in 0..(k - 1) /\ k \in 1..Len(way) /\ j \in 0..Len(way) /\ rest[k] = way[k]
  BY <1>1 DEF Latest
<1>3. Latest(way, k - 1, j) /\ (j # 0 => rest[j] = way[j])
  BY <1>1, <1>2 DEF Latest
<1>4. Succeeds(at, screen, way, j, way[k])
  BY <1>2, <1>3 DEF Ordered
<1> QED
  BY <1>2, <1>3, <1>4 DEF Succeeds, ViewAt

\* The view at place n comes to the screen, and what was before it is gone.
LEMMA OrderedSuffix ==
    ASSUME NEW at, NEW to, to # "menu", NEW screen, NEW way \in Seq(ServerMessages),
           NEW n \in 1..Len(way), HasView(way[n]),
           NEW rest \in Seq(ServerMessages),
           Len(rest) = Len(way) - n, \A i \in 1..Len(rest) : rest[i] = way[n + i]
    PROVE  /\ Ordered(at, screen, way) => Ordered(to, way[n].view, rest)
           /\ \A v : EndsWith(at, screen, way, v) => EndsWith(to, way[n].view, rest, v)
<1>1. Len(way) \in Nat /\ Len(rest) \in Nat
  BY LenProperties
<1>2. ASSUME NEW k \in 0..Len(rest), NEW j \in 0..k, Latest(rest, k, j)
      PROVE  /\ Latest(way, n + k, n + j) /\ n + j \in 0..Len(way) /\ n + j # 0
             /\ ViewAt(screen, way, n + j) = ViewAt(way[n].view, rest, j)
  <2>1. ASSUME NEW i \in (n + j + 1)..(n + k)
        PROVE  ~HasView(way[i])
    <3>1. i - n \in (j + 1)..k /\ i - n \in 1..Len(rest)
      BY <1>1
    <3>2. ~HasView(rest[i - n])
      BY <3>1, <1>2 DEF Latest
    <3> QED
      BY <3>1, <3>2, <1>1
  <2>2. n + j \in 0..(n + k) /\ n + j \in 0..Len(way) /\ n + j # 0
    BY <1>1
  <2>3. CASE j = 0
    BY <2>1, <2>2, <2>3 DEF Latest, ViewAt
  <2>4. CASE j # 0
    <3>1. way[n + j] = rest[j] /\ HasView(rest[j])
      BY <2>4, <1>1, <1>2 DEF Latest
    <3> QED
      BY <3>1, <2>1, <2>2, <2>4 DEF Latest, ViewAt
  <2> QED
    BY <2>3, <2>4
<1>3. ASSUME Ordered(at, screen, way)
      PROVE  Ordered(to, way[n].view, rest)
  <2> SUFFICES ASSUME NEW k \in 1..Len(rest), NEW j \in 0..Len(rest),
                      HasView(rest[k]), Latest(rest, k - 1, j)
               PROVE  Follows(ViewAt(way[n].view, rest, j), rest[k])
    BY DEF Ordered, Succeeds
  <2>1. k - 1 \in 0..Len(rest) /\ j \in 0..(k - 1) /\ n + k \in 1..Len(way)
        /\ way[n + k] = rest[k] /\ n + (k - 1) = (n + k) - 1
    BY <1>1 DEF Latest
  <2>2. Succeeds(at, screen, way, n + j, way[n + k])
    BY <2>1, <1>2, <1>3 DEF Ordered
  <2> QED
    BY <2>1, <2>2, <1>2 DEF Succeeds
<1>4. ASSUME NEW v, EndsWith(at, screen, way, v)
      PROVE  EndsWith(to, way[n].view, rest, v)
  <2> SUFFICES ASSUME NEW j \in 0..Len(rest), Latest(rest, Len(rest), j)
               PROVE  ViewAt(way[n].view, rest, j) = v
    BY DEF EndsWith
  <2>1. n + Len(rest) = Len(way) /\ Len(rest) \in 0..Len(rest)
    BY <1>1
  <2> QED
    BY <2>1, <1>2, <1>4 DEF EndsWith
<1> QED
  BY <1>3, <1>4

\* A message without a view is read from the middle.
LEMMA OrderedRemove ==
    ASSUME NEW at, NEW screen, NEW way \in Seq(ServerMessages),
           NEW n \in 1..Len(way), ~HasView(way[n]),
           NEW rest \in Seq(ServerMessages), Len(rest) = Len(way) - 1,
           \A i \in 1..Len(rest) : rest[i] = way[IF i < n THEN i ELSE i + 1]
    PROVE  /\ Ordered(at, screen, way) => Ordered(at, screen, rest)
           /\ \A v : EndsWith(at, screen, way, v) => EndsWith(at, screen, rest, v)
<1>1. Len(way) \in Nat /\ Len(rest) \in Nat
  BY LenProperties
<1> DEFINE From(i) == IF i < n THEN i ELSE i + 1
<1>2. ASSUME NEW k \in 0..Len(rest), NEW j \in 0..k, Latest(rest, k, j),
             NEW l \in 0..Len(way), IF k < n - 1 THEN l = k ELSE l = k + 1
      PROVE  /\ Latest(way, l, From(j)) /\ From(j) \in 0..Len(way)
             /\ (From(j) = 0 <=> j = 0)
             /\ ViewAt(screen, way, From(j)) = ViewAt(screen, rest, j)
  <2>1. ASSUME NEW i \in (From(j) + 1)..l
        PROVE  ~HasView(way[i])
    <3>1. CASE i < n
      <4>1. i \in (j + 1)..k /\ i \in 1..Len(rest)
        BY <3>1, <1>1, <1>2
      <4> QED
        BY <4>1, <3>1, <1>1, <1>2 DEF Latest
    <3>2. CASE i = n
      BY <3>2
    <3>3. CASE i > n
      <4>1. i - 1 \in (j + 1)..k /\ i - 1 \in 1..Len(rest) /\ ~(i - 1 < n)
        BY <3>3, <1>1, <1>2
      <4>2. ~HasView(rest[i - 1]) /\ rest[i - 1] = way[(i - 1) + 1]
        BY <4>1, <1>2 DEF Latest
      <4> QED
        BY <4>1, <4>2, <1>1
    <3> QED
      BY <3>1, <3>2, <3>3, <1>1
  <2>2. From(j) \in 0..l /\ From(j) \in 0..Len(way) /\ (From(j) = 0 <=> j = 0)
    BY <1>1, <1>2
  <2>3. CASE j = 0
    BY <2>1, <2>2, <2>3 DEF Latest, ViewAt
  <2>4. CASE j # 0
    <3>1. way[From(j)] = rest[j] /\ HasView(rest[j])
      BY <2>4, <1>1, <1>2, SMTT(30) DEF Latest
    <3> QED
      BY <3>1, <2>1, <2>2, <2>4 DEF Latest, ViewAt
  <2> QED
    BY <2>3, <2>4
<1>3. ASSUME Ordered(at, screen, way)
      PROVE  Ordered(at, screen, rest)
  <2> SUFFICES ASSUME NEW k \in 1..Len(rest), NEW j \in 0..Len(rest),
                      HasView(rest[k]), Latest(rest, k - 1, j)
               PROVE  Succeeds(at, screen, rest, j, rest[k])
    BY DEF Ordered
  <2>1. /\ k - 1 \in 0..Len(rest) /\ j \in 0..(k - 1)
        /\ From(k) \in 1..Len(way) /\ way[From(k)] = rest[k]
        /\ From(k) - 1 \in 0..Len(way)
        /\ IF k - 1 < n - 1 THEN From(k) - 1 = k - 1 ELSE From(k) - 1 = (k - 1) + 1
    <3>1. k - 1 \in 0..Len(rest) /\ j \in 0..(k - 1)
      BY <1>1 DEF Latest
    <3>2. way[From(k)] = rest[k]
      OBVIOUS
    <3>3. From(k) \in 1..Len(way) /\ From(k) - 1 \in 0..Len(way)
      BY <1>1
    <3>4. IF k - 1 < n - 1 THEN From(k) - 1 = k - 1 ELSE From(k) - 1 = (k - 1) + 1
      BY <1>1
    <3> QED
      BY <3>1, <3>2, <3>3, <3>4
  <2>2. /\ Latest(way, From(k) - 1, From(j)) /\ From(j) \in 0..Len(way)
        /\ (From(j) = 0 <=> j = 0)
        /\ ViewAt(screen, way, From(j)) = ViewAt(screen, rest, j)
    <3> HIDE DEF At
    <3> QED
      BY <2>1, <1>2
  <2>3. Succeeds(at, screen, way, From(j), way[From(k)])
    <3> HIDE DEF At
    <3>1. HasView(way[From(k)])
      BY <2>1
    <3> QED
      BY <3>1, <2>1, <2>2, <1>3 DEF Ordered
  <2> HIDE DEF At
  <2> QED
    BY <2>1, <2>2, <2>3 DEF Succeeds
<1>4. ASSUME NEW v, EndsWith(at, screen, way, v)
      PROVE  EndsWith(at, screen, rest, v)
  <2> SUFFICES ASSUME NEW j \in 0..Len(rest), Latest(rest, Len(rest), j)
               PROVE  ~(at = "menu" /\ j = 0) /\ ViewAt(screen, rest, j) = v
    BY DEF EndsWith
  <2>1. /\ Len(way) = Len(rest) + 1 /\ Len(rest) \in 0..Len(rest)
        /\ Len(way) \in 0..Len(way) /\ Len(rest) >= n - 1
    BY <1>1
  <2>2. /\ Latest(way, Len(way), From(j)) /\ From(j) \in 0..Len(way)
        /\ (From(j) = 0 <=> j = 0)
        /\ ViewAt(screen, way, From(j)) = ViewAt(screen, rest, j)
    <3> HIDE DEF At
    <3>1. IF Len(rest) < n - 1 THEN Len(way) = Len(rest) ELSE Len(way) = Len(rest) + 1
      BY <2>1, <1>1
    <3> QED
      BY <3>1, <2>1, <1>2
  <2> QED
    BY <2>2, <1>4 DEF EndsWith
<1> QED
  BY <1>3, <1>4
-----------------------------------------------------------------------------
(* What the server sends. *)

\* A new game leaves room for a ply.
LEMMA NewViewIsView == Online!NewView \in Views
BY AppBoundsAssumption DEF Views, Online!Views, Online!NewView, Online!Seats, Online!Undecided

\* A message carries a view if it is a state or a start, and says whether the game is over.
LEMMA MessageKinds ==
    ASSUME NEW m \in ServerMessages
    PROVE  /\ HasView(m) => m.view \in Views
           /\ IsState(m) <=> m \in States
           /\ IsState(m) => (m.type = "over" <=> m.view.over)
           /\ m.type = "start" <=> m = Start
           /\ m \in OtherMessages => ~HasView(m)
           /\ m.type = "room" => m.you \in Online!Seats
           /\ m.type = "lobby" => m.guest \in BOOLEAN /\ m.ready \in BOOLEAN
<1>1. ASSUME m \in States
      PROVE  /\ m.type \in {"state", "over"} /\ m.view \in Views
             /\ m.type = "over" <=> m.view.over
  <2>1. PICK v \in Views, last \in BOOLEAN : m = State(v, last)
    BY <1>1 DEF States
  <2>2. v.over \in BOOLEAN
    BY DEF Views, Online!Views
  <2> QED
    BY <2>1, <2>2 DEF State
<1>2. m = Start => m.type = "start" /\ m.view \in Views
  BY NewViewIsView DEF Start
<1>3. ASSUME m \in OtherMessages
      PROVE  /\ m.type \in {"room", "lobby", "waiting", "opponent_left", "rematch_ask",
                             "error"}
             /\ m.type = "room" => m.you \in Online!Seats
             /\ m.type = "lobby" => m.guest \in BOOLEAN /\ m.ready \in BOOLEAN
  BY <1>3 DEF Room, Lobby, Message, Error, OtherMessages
<1>4. m \in States \/ m = Start \/ m \in OtherMessages
  BY DEF ServerMessages
<1> QED
  BY <1>1, <1>2, <1>3, <1>4 DEF HasView, IsState

\* A session in a game, taken apart.
LEMMA GameSessions ==
    ASSUME NEW s \in Sessions, s.at = "game"
    PROVE  /\ s = InGame(s.ai, s.you, s.view, s.votes)
           /\ s.ai \in BOOLEAN /\ s.you \in Online!Seats /\ s.view \in Views
           /\ s.votes \in SUBSET Online!Seats
BY DEF Away, Unseated, Queued, HungUp, InLobby, InGame, Sessions

\* The last message m of an answer, after which the session is s: one with a view begins
\* a game or goes on with the one there is, another leaves the view alone.
Told(m, s) ==
    IF HasView(m)
    THEN /\ m = Start \/ (srv.at = "game" /\ Follows(srv.view, m))
         /\ s.at = "game" => s.view = m.view
    ELSE s.at = "game" => srv.at = "game" /\ s.view = srv.view

Sends(messages, s) ==
    \/ messages = <<>> /\ s = srv
    \/ \E m \in ServerMessages : messages = <<m>> /\ Told(m, s)
    \/ \E r \in OtherMessages, m \in ServerMessages : messages = <<r, m>> /\ Told(m, s)

\* A step of the server, or of the opponent.
ServerStep ==
    /\ net.ws = "open" /\ PageUnchanged
    /\ \E messages : \E out \in Seq(Commands), s \in Sessions :
          Sends(messages, s) /\ Answer(out, messages, s)

\* A ply and a resignation continue the game.
LEMMA StatesFollow ==
    ASSUME srv \in Sessions, srv.at = "game", ~srv.view.over, NEW v, NEW last \in BOOLEAN,
           v \in Plies \/ \E seat \in Online!Seats : v = Resigned(seat)
    PROVE  /\ v \in Views
           /\ State(v, last) \in ServerMessages
           /\ [srv EXCEPT !.view = v] \in Sessions
           /\ Told(State(v, last), [srv EXCEPT !.view = v])
<1>1. /\ srv = InGame(srv.ai, srv.you, srv.view, srv.votes)
      /\ srv.ai \in BOOLEAN /\ srv.you \in Online!Seats /\ srv.view \in Views
      /\ srv.votes \in SUBSET Online!Seats
  BY GameSessions
<1>2. /\ srv.view.ply \in 0..MaxPlies /\ srv.view.ply < MaxPlies
      /\ srv.view \in Online!Views
  BY <1>1, AppBoundsAssumption DEF Views, Online!Views
<1>3. /\ v \in Views
      /\ v.ply = srv.view.ply + 1 \/ (v.ply = srv.view.ply /\ v.over)
  <2>1. CASE v \in Plies
    BY <2>1, <1>2, AppBoundsAssumption DEF Plies, Online!PlyOutcomes, Views, Online!Views
  <2>2. CASE \E seat \in Online!Seats : v = Resigned(seat)
    <3>1. PICK seat \in Online!Seats : v = Resigned(seat)
      BY <2>2
    <3>2. v = [ply |-> srv.view.ply, turn |-> srv.view.turn, over |-> TRUE, winner |-> 1 - seat]
      BY <3>1, <1>2 DEF Resigned, Online!Views
    <3>3. 1 - seat \in Online!Seats /\ srv.view.turn \in Online!Seats
      BY <1>2 DEF Online!Seats, Online!Views
    <3> QED
      BY <3>2, <3>3, <1>2 DEF Views, Online!Views
  <2> QED
    BY <2>1, <2>2
<1>4. State(v, last) \in States /\ IsState(State(v, last)) /\ State(v, last).view = v
  BY <1>3 DEF State, IsState, States
<1>5. [srv EXCEPT !.view = v] = InGame(srv.ai, srv.you, v, srv.votes)
  BY <1>1 DEF InGame
<1>6. [srv EXCEPT !.view = v] \in Sessions /\ [srv EXCEPT !.view = v].view = v
  BY <1>5, <1>3, <1>1, SMTT(30) DEF InGame, Sessions
<1>7. Follows(srv.view, State(v, last))
  BY <1>3, <1>4 DEF Follows
<1> QED
  BY <1>3, <1>4, <1>6, <1>7 DEF Told, HasView, ServerMessages

\* The messages without a view, and the start with its view.
LEMMA OthersTold ==
    ASSUME NEW m \in OtherMessages, NEW s, s.at = "game" => srv.at = "game" /\ s.view = srv.view
    PROVE  m \in ServerMessages /\ Told(m, s)
BY MessageKinds DEF Told, ServerMessages

\* A start carries the view of a new game.
LEMMA StartTold ==
    ASSUME NEW s, s.at = "game" => s.view = Online!NewView
    PROVE  Start \in ServerMessages /\ Told(Start, s)
BY MessageKinds DEF Told, HasView, Start, ServerMessages

\* A vote leaves the view alone, or is the last one and begins the next game.
LEMMA VotesTold ==
    ASSUME srv \in Sessions, srv.at = "game", NEW seat \in Online!Seats
    PROVE  /\ Vote(seat).message \in ServerMessages
           /\ Vote(seat).srv \in Sessions
           /\ Told(Vote(seat).message, Vote(seat).srv)
<1>1. /\ srv = InGame(srv.ai, srv.you, srv.view, srv.votes)
      /\ srv.ai \in BOOLEAN /\ srv.you \in Online!Seats /\ srv.view \in Views
      /\ srv.votes \in SUBSET Online!Seats
  BY GameSessions
<1>2. CASE srv.ai \/ srv.votes \cup {seat} = Online!Seats
  <2>1. Vote(seat) = [message |-> Start, srv |-> InGame(srv.ai, srv.you, Online!NewView, {})]
    BY <1>2 DEF Vote
  <2>2. InGame(srv.ai, srv.you, Online!NewView, {}).view = Online!NewView
    BY DEF InGame
  <2>3. InGame(srv.ai, srv.you, Online!NewView, {}) \in Sessions
    BY <1>1, NewViewIsView DEF Sessions
  <2> QED
    BY <2>1, <2>2, <2>3, StartTold
<1>3. CASE ~(srv.ai \/ srv.votes \cup {seat} = Online!Seats)
  <2> DEFINE s == [srv EXCEPT !.votes = @ \cup {seat}]
  <2>1. Vote(seat) = [message |-> Message("rematch_ask"), srv |-> s]
    BY <1>3 DEF Vote
  <2>2. s = InGame(srv.ai, srv.you, srv.view, srv.votes \cup {seat})
    BY <1>1 DEF InGame
  <2>3. srv.votes \cup {seat} \in SUBSET Online!Seats
    BY <1>1
  <2>4. s \in Sessions /\ s.view = srv.view
    <3> HIDE DEF s
    <3>1. InGame(srv.ai, srv.you, srv.view, srv.votes \cup {seat}) \in Sessions
      BY <2>3, <1>1 DEF Sessions
    <3>2. s.view = srv.view
      BY <2>2 DEF InGame
    <3> QED
      BY <2>2, <3>1, <3>2
  <2>5. Message("rematch_ask") \in OtherMessages
    BY DEF OtherMessages
  <2> HIDE DEF s
  <2> QED
    BY <2>1, <2>4, <2>5, OthersTold
<1> QED
  BY <1>2, <1>3

\* How the steps of the server come down to three ways to answer.
LEMMA TwoMessages ==
    ASSUME NEW out \in Seq(Commands), NEW r \in OtherMessages, NEW m, NEW s \in Sessions,
           m \in ServerMessages, Told(m, s), net.ws = "open",
           Answer(out, <<r, m>>, s), PageUnchanged
    PROVE  ServerStep
BY DEF ServerStep, Sends

\* An answer of one message.
LEMMA OneMessage ==
    ASSUME NEW out \in Seq(Commands), NEW m, NEW s \in Sessions,
           m \in ServerMessages, Told(m, s), net.ws = "open",
           Answer(out, <<m>>, s), PageUnchanged
    PROVE  ServerStep
BY DEF ServerStep, Sends

\* No message: the command is passed over.
LEMMA NoMessage ==
    ASSUME NEW out \in Seq(Commands), srv \in Sessions, net.ws = "open",
           Answer(out, <<>>, srv), PageUnchanged
    PROVE  ServerStep
BY DEF ServerStep, Sends

\* The sessions without a game.
LEMMA OtherSessions ==
    /\ {Away, Unseated, Queued, HungUp} \subseteq Sessions
    /\ \A s \in {Away, Unseated, Queued, HungUp} : s.at # "game"
    /\ \A you \in Online!Seats, guest, ready \in BOOLEAN :
          /\ InLobby(you, guest, ready) \in Sessions
          /\ InLobby(you, guest, ready).at # "game"
          /\ Lobby(guest, ready) \in OtherMessages
    /\ \A ai \in BOOLEAN, you \in Online!Seats :
          /\ InGame(ai, you, Online!NewView, {}) \in Sessions
          /\ InGame(ai, you, Online!NewView, {}).view = Online!NewView
          /\ Room(you) \in OtherMessages
    /\ 0 \in Online!Seats /\ 1 \in Online!Seats /\ TRUE \in BOOLEAN /\ FALSE \in BOOLEAN
<1>1. {Away, Unseated, Queued, HungUp} \subseteq Sessions
  BY DEF Sessions
<1>2. \A s \in {Away, Unseated, Queued, HungUp} : s.at # "game"
  BY DEF Away, Unseated, Queued, HungUp
<1>3. ASSUME NEW you \in Online!Seats, NEW guest \in BOOLEAN, NEW ready \in BOOLEAN
      PROVE  /\ InLobby(you, guest, ready) \in Sessions
             /\ InLobby(you, guest, ready).at # "game"
             /\ Lobby(guest, ready) \in OtherMessages
  <2>1. InLobby(you, guest, ready) \in Sessions
    BY DEF Sessions
  <2>2. Lobby(guest, ready) \in OtherMessages
    BY DEF OtherMessages
  <2>3. InLobby(you, guest, ready).at # "game"
    BY DEF InLobby
  <2> QED
    BY <2>1, <2>2, <2>3
<1>4. ASSUME NEW ai \in BOOLEAN, NEW you \in Online!Seats
      PROVE  /\ InGame(ai, you, Online!NewView, {}) \in Sessions
             /\ InGame(ai, you, Online!NewView, {}).view = Online!NewView
             /\ Room(you) \in OtherMessages
  <2>1. InGame(ai, you, Online!NewView, {}) \in Sessions
    BY NewViewIsView DEF Sessions
  <2>2. InGame(ai, you, Online!NewView, {}).view = Online!NewView
    BY DEF InGame
  <2>3. Room(you) \in OtherMessages
    BY DEF OtherMessages
  <2> QED
    BY <2>1, <2>2, <2>3
<1>5. 0 \in Online!Seats /\ 1 \in Online!Seats
  BY DEF Online!Seats
<1> QED
  BY <1>1, <1>2, <1>3, <1>4, <1>5

\* Whatever the server or the opponent does tells the browser at most two messages, the
\* first of them without a view.
LEMMA ServerSteps ==
    PageInv /\ (Service \/ Opponent) => ServerStep
<1> SUFFICES ASSUME PageInv, Service \/ Opponent
             PROVE  ServerStep
  OBVIOUS
<1>1. /\ srv \in Sessions /\ net.out \in Seq(Commands)
      /\ net.ws # "open" => srv = Away
  BY DEF PageInv, Shape, ScreenShape, NetShape, Connected, OnlyOpenCarries
<1>2. srv.at # "away" => net.ws = "open"
  BY <1>1 DEF Away
<1>3. \A type : Asked(type) => net.ws = "open" /\ Tail(net.out) \in Seq(Commands)
  BY <1>1, <1>2, HeadTailProperties DEF Asked
<1>4. CASE ServeEntry
  <2>1. net.ws = "open" /\ Tail(net.out) \in Seq(Commands) /\ PageUnchanged
    BY <1>3, <1>4 DEF ServeEntry, Reply
  <2>2. CASE Reply(<<Room(0), Lobby(FALSE, FALSE)>>, InLobby(0, FALSE, FALSE))
    BY <2>1, <2>2, TwoMessages, OthersTold, OtherSessions DEF Reply
  <2>3. CASE Reply(<<Room(1), Lobby(TRUE, FALSE)>>, InLobby(1, TRUE, FALSE))
    BY <2>1, <2>3, TwoMessages, OthersTold, OtherSessions DEF Reply
  <2>4. CASE Reply(<<Message("waiting")>>, Queued)
    <3>1. Message("waiting") \in OtherMessages
      BY DEF OtherMessages
    <3> QED
      BY <2>1, <2>4, <3>1, OneMessage, OthersTold, OtherSessions DEF Reply
  <2>5. CASE \E ai \in BOOLEAN :
               Reply(<<Room(0), Start>>, InGame(ai, 0, Online!NewView, {}))
    BY <2>1, <2>5, TwoMessages, StartTold, OtherSessions DEF Reply
  <2> QED
    BY <1>4, <2>2, <2>3, <2>4, <2>5 DEF ServeEntry
<1>5. CASE ServeLobby
  <2>1. net.ws = "open" /\ Tail(net.out) \in Seq(Commands) /\ PageUnchanged
    BY <1>3, <1>5 DEF ServeLobby, Reply
  <2>2. ASSUME NEW ready, ready = Head(net.out).ready, Asked("ready"),
               Reply(<<Lobby(TRUE, ready)>>, InLobby(1, TRUE, ready))
        PROVE  ServerStep
    <3>1. Head(net.out) \in Commands /\ Head(net.out).type = "ready"
      BY <1>1, <2>2, HeadTailProperties DEF Asked
    <3>2. ready \in BOOLEAN
      BY <2>2, <3>1 DEF Commands, Message, Actions
    <3> QED
      BY <2>1, <2>2, <3>2, OneMessage, OthersTold, OtherSessions DEF Reply
  <2>3. CASE Reply(<<Start>>, InGame(FALSE, 0, Online!NewView, {}))
    BY <2>1, <2>3, OneMessage, StartTold, OtherSessions DEF Reply
  <2> QED
    BY <1>5, <2>2, <2>3 DEF ServeLobby
<1>6. CASE ServePly
  <2>1. /\ net.ws = "open" /\ Tail(net.out) \in Seq(Commands) /\ PageUnchanged
        /\ srv.at = "game" /\ ~srv.view.over
    BY <1>3, <1>6 DEF ServePly, Reply, Playing
  <2>2. srv.you \in Online!Seats
    BY <1>1, <2>1, GameSessions
  <2>3. ASSUME NEW v \in Plies, Reply(<<State(v, TRUE)>>, [srv EXCEPT !.view = v])
        PROVE  ServerStep
    <3>1. /\ State(v, TRUE) \in ServerMessages
          /\ [srv EXCEPT !.view = v] \in Sessions
          /\ Told(State(v, TRUE), [srv EXCEPT !.view = v])
      BY <1>1, <2>1, StatesFollow
    <3> QED
      BY <2>1, <2>3, <3>1, OneMessage DEF Reply
  <2>4. ASSUME NEW v, v = Resigned(srv.you),
               Reply(<<State(v, FALSE)>>, [srv EXCEPT !.view = v])
        PROVE  ServerStep
    <3>1. /\ State(v, FALSE) \in ServerMessages
          /\ [srv EXCEPT !.view = v] \in Sessions
          /\ Told(State(v, FALSE), [srv EXCEPT !.view = v])
      BY <1>1, <2>1, <2>2, <2>4, StatesFollow
    <3> QED
      BY <2>1, <2>4, <3>1, OneMessage DEF Reply
  <2> QED
    BY <1>6, <2>3, <2>4 DEF ServePly
<1>7. CASE ServeRematch
  <2>1. net.ws = "open" /\ Tail(net.out) \in Seq(Commands) /\ PageUnchanged /\ srv.at = "game"
    BY <1>3, <1>7 DEF ServeRematch, Reply
  <2>2. srv.you \in Online!Seats
    BY <1>1, <2>1, GameSessions
  <2>3. Reply(<<Vote(srv.you).message>>, Vote(srv.you).srv)
    BY <1>7 DEF ServeRematch
  <2> QED
    BY <1>1, <2>1, <2>2, <2>3, VotesTold, OneMessage DEF Reply
<1>8. CASE ServeRefusal
  <2>1. net.ws = "open" /\ Tail(net.out) \in Seq(Commands) /\ PageUnchanged
    BY <1>3, <1>8 DEF ServeRefusal, Reply
  <2>2. ASSUME NEW code \in {"gone", "login", "refused"}, Reply(<<Error(code)>>, srv)
        PROVE  ServerStep
    <3>1. Error(code) \in OtherMessages
      BY DEF OtherMessages
    <3> QED
      BY <1>1, <2>1, <2>2, <3>1, OneMessage, OthersTold DEF Reply
  <2>3. CASE Reply(<<>>, srv)
    BY <1>1, <2>1, <2>3, NoMessage DEF Reply
  <2> QED
    BY <1>8, <2>2, <2>3 DEF ServeRefusal
<1>9. CASE Opponent
  <2>1. srv.at # "away" /\ PageUnchanged
    <3>1. srv.at # "away"
      <4>1. srv = Queued \/ srv.at = "lobby" \/ srv.at = "game"
        BY <1>9, Zenon DEF Opponent, Playing
      <4> QED
        BY <4>1 DEF Queued
    <3>2. \A messages, s : Push(messages, s) => PageUnchanged
      BY DEF Push
    <3>3. PageUnchanged
      BY <1>9, <3>2 DEF Opponent
    <3> QED
      BY <3>1, <3>3
  <2>2. net.ws = "open"
    BY <2>1, <1>2
  <2>3. ASSUME NEW you \in Online!Seats,
               Push(<<Room(you), Start>>, InGame(FALSE, you, Online!NewView, {}))
        PROVE  ServerStep
    BY <1>1, <2>1, <2>2, <2>3, TwoMessages, StartTold, OtherSessions DEF Push
  <2>4. ASSUME NEW guest \in BOOLEAN, NEW ready \in BOOLEAN,
               Push(<<Lobby(guest, ready)>>, InLobby(0, guest, ready))
        PROVE  ServerStep
    BY <1>1, <2>1, <2>2, <2>4, OneMessage, OthersTold, OtherSessions DEF Push
  <2>5. CASE Push(<<Start>>, InGame(FALSE, 1, Online!NewView, {}))
    BY <1>1, <2>1, <2>2, <2>5, OneMessage, StartTold, OtherSessions DEF Push
  <2>6. ASSUME Playing, NEW v \in Plies, Push(<<State(v, TRUE)>>, [srv EXCEPT !.view = v])
        PROVE  ServerStep
    <3>1. /\ State(v, TRUE) \in ServerMessages
          /\ [srv EXCEPT !.view = v] \in Sessions
          /\ Told(State(v, TRUE), [srv EXCEPT !.view = v])
      BY <1>1, <2>6, StatesFollow DEF Playing
    <3> QED
      BY <1>1, <2>1, <2>2, <2>6, <3>1, OneMessage DEF Push
  <2>7. ASSUME Playing, NEW v, v = Resigned(1 - srv.you),
               Push(<<State(v, FALSE)>>, [srv EXCEPT !.view = v])
        PROVE  ServerStep
    <3>1. 1 - srv.you \in Online!Seats
      BY <1>1, <2>7, GameSessions DEF Playing, Online!Seats
    <3>2. /\ State(v, FALSE) \in ServerMessages
          /\ [srv EXCEPT !.view = v] \in Sessions
          /\ Told(State(v, FALSE), [srv EXCEPT !.view = v])
      BY <1>1, <2>7, <3>1, StatesFollow DEF Playing
    <3> QED
      BY <1>1, <2>1, <2>2, <2>7, <3>2, OneMessage DEF Push
  <2>8. ASSUME srv.at = "game", Push(<<Vote(1 - srv.you).message>>, Vote(1 - srv.you).srv)
        PROVE  ServerStep
    <3>1. 1 - srv.you \in Online!Seats
      BY <1>1, <2>8, GameSessions DEF Online!Seats
    <3> QED
      BY <1>1, <2>1, <2>2, <2>8, <3>1, VotesTold, OneMessage DEF Push
  <2>9. CASE Push(<<Message("opponent_left")>>, Unseated)
    <3>1. Message("opponent_left") \in OtherMessages
      BY DEF OtherMessages
    <3> QED
      BY <1>1, <2>1, <2>2, <2>9, <3>1, OneMessage, OthersTold, OtherSessions DEF Push
  <2> QED
    BY <1>9, <2>3, <2>4, <2>5, <2>6, <2>7, <2>8, <2>9 DEF Opponent
<1> QED
  BY <1>4, <1>5, <1>6, <1>7, <1>8, <1>9 DEF Service

\* What is told to the browser continues what is on its way.
LEMMA ToldInOrder ==
    ASSUME NEW at, NEW screen, NEW way \in Seq(ServerMessages),
           NEW m \in ServerMessages, NEW s, Told(m, s),
           Ordered(at, screen, way),
           srv.at = "game" => EndsWith(at, screen, way, srv.view)
    PROVE  /\ Ordered(at, screen, Append(way, m))
           /\ s.at = "game" => EndsWith(at, screen, Append(way, m), s.view)
<1>1. CASE HasView(m)
  <2>1. ASSUME NEW j \in 0..Len(way), Latest(way, Len(way), j)
        PROVE  Succeeds(at, screen, way, j, m)
    <3>1. CASE m = Start
      BY <3>1 DEF Succeeds, Follows, Start
    <3>2. CASE srv.at = "game" /\ Follows(srv.view, m)
      BY <2>1, <3>2 DEF EndsWith, Succeeds
    <3> QED
      BY <1>1, <3>1, <3>2 DEF Told
  <2>2. Ordered(at, screen, Append(way, m))
    BY <2>1, OrderedAppend
  <2>3. s.at = "game" => s.view = m.view
    BY <1>1 DEF Told
  <2> QED
    BY <1>1, <2>2, <2>3, EndsWithAppend
<1>2. CASE ~HasView(m)
  <2>1. Ordered(at, screen, Append(way, m))
    BY <1>2, OrderedAppend
  <2>2. s.at = "game" => srv.at = "game" /\ s.view = srv.view
    BY <1>2 DEF Told
  <2> QED
    BY <1>2, <2>1, <2>2, EndsWithAppend
<1> QED
  BY <1>1, <1>2

\* Two sequences one after the other.
LEMMA ConcatParts ==
    ASSUME NEW S, NEW s \in Seq(S), NEW t \in Seq(S)
    PROVE  /\ s \o t \in Seq(S) /\ Len(s \o t) = Len(s) + Len(t)
           /\ Len(s) \in Nat /\ Len(t) \in Nat
           /\ \A i \in 1..Len(s) : (s \o t)[i] = s[i]
           /\ \A i \in 1..Len(t) : (s \o t)[Len(s) + i] = t[i]
<1> DEFINE u == s \o t
<1>1. Len(s) \in Nat /\ Len(t) \in Nat
  BY LenProperties
<1>2. /\ u \in Seq(S) /\ Len(u) = Len(s) + Len(t)
      /\ \A i \in 1..(Len(s) + Len(t)) : u[i] = IF i <= Len(s) THEN s[i] ELSE t[i - Len(s)]
  BY ConcatProperties
<1> HIDE DEF u
<1>3. ASSUME NEW i \in 1..Len(s)
      PROVE  u[i] = s[i]
  <2>1. i \in 1..(Len(s) + Len(t)) /\ i <= Len(s)
    BY <1>1
  <2> QED
    BY <2>1, <1>2
<1>4. ASSUME NEW i \in 1..Len(t)
      PROVE  u[Len(s) + i] = t[i]
  <2>1. /\ Len(s) + i \in 1..(Len(s) + Len(t)) /\ ~(Len(s) + i <= Len(s))
        /\ (Len(s) + i) - Len(s) = i
    BY <1>1
  <2> QED
    BY <2>1, <1>2
<1> QED
  BY <1>1, <1>2, <1>3, <1>4 DEF u

\* One more message at the end of the second.
LEMMA ConcatOne ==
    ASSUME NEW S, NEW s \in Seq(S), NEW t \in Seq(S), NEW m \in S
    PROVE  /\ t \o <<m>> \in Seq(S)
           /\ s \o (t \o <<m>>) = Append(s \o t, m)
<1>1. <<m>> \in Seq(S) /\ s \o t \in Seq(S)
  BY ConcatProperties
<1>2. t \o <<m>> \in Seq(S)
  BY <1>1, ConcatProperties
<1>3. s \o (t \o <<m>>) = (s \o t) \o <<m>>
  BY <1>1, ConcatAssociative
<1>4. Append(s \o t, m) = (s \o t) \o <<m>>
  BY <1>1, AppendIsConcat
<1> QED
  BY <1>2, <1>3, <1>4

\* Two more messages at the end of the second.
LEMMA ConcatTwo ==
    ASSUME NEW S, NEW s \in Seq(S), NEW t \in Seq(S), NEW r \in S, NEW m \in S,
           NEW pair, pair = <<r, m>>
    PROVE  /\ t \o pair \in Seq(S)
           /\ s \o (t \o pair) = Append(Append(s \o t, r), m)
<1>1. /\ t \o <<r>> \in Seq(S)
      /\ s \o (t \o <<r>>) = Append(s \o t, r)
  BY ConcatOne
<1>2. /\ (t \o <<r>>) \o <<m>> \in Seq(S)
      /\ s \o ((t \o <<r>>) \o <<m>>) = Append(s \o (t \o <<r>>), m)
  BY <1>1, ConcatOne
<1>3. (t \o <<r>>) \o <<m>> = t \o <<r, m>>
  <2>1. <<r>> \in Seq(S) /\ <<m>> \in Seq(S)
    OBVIOUS
  <2>2. <<r>> \o <<m>> = <<r, m>>
    <3> DEFINE u == <<r>> \o <<m>>
    <3>1. u \in Seq(S) /\ Len(u) = 2 /\ u[1] = r /\ u[1 + 1] = m
      BY <2>1, ConcatParts
    <3>2. <<r, m>> \in Seq(S) /\ Len(<<r, m>>) = 2
      OBVIOUS
    <3>3. \A i \in 1..2 : u[i] = <<r, m>>[i]
      BY <3>1
    <3> HIDE DEF u
    <3>4. u = <<r, m>>
      BY <3>1, <3>2, <3>3, SeqEqual
    <3> QED
      BY <3>4 DEF u
  <2>3. (t \o <<r>>) \o <<m>> = t \o (<<r>> \o <<m>>)
    BY <2>1, ConcatAssociative
  <2> QED
    BY <2>2, <2>3
<1> QED
  BY <1>1, <1>2, <1>3

\* The way is cut off: what waits in the page stays, of the rest a first part.
LEMMA CutOff ==
    ASSUME NEW at, NEW screen, NEW s \in Seq(ServerMessages),
           NEW t \in Seq(ServerMessages), NEW n \in 0..Len(t),
           Ordered(at, screen, s \o t)
    PROVE  /\ SubSeq(t, 1, n) \in Seq(ServerMessages)
           /\ Ordered(at, screen, s \o SubSeq(t, 1, n))
<1> DEFINE first == SubSeq(t, 1, n)
           way == s \o t
           rest == s \o first
<1>1. n \in Nat /\ Len(s) \in Nat /\ Len(t) \in Nat /\ n <= Len(t)
  BY LenProperties
<1>2. first \in Seq(ServerMessages) /\ Len(first) = n /\ \A i \in 1..n : first[i] = t[i]
  <2>1. \A i \in 1..n : t[i] \in ServerMessages
    BY <1>1, ElementOfSeq
  <2> QED
    BY <2>1, <1>1, SubSeqProperties
<1>3. /\ way \in Seq(ServerMessages) /\ Len(way) = Len(s) + Len(t)
      /\ \A i \in 1..Len(s) : way[i] = s[i]
      /\ \A i \in 1..Len(t) : way[Len(s) + i] = t[i]
  BY ConcatParts
<1>4. /\ rest \in Seq(ServerMessages) /\ Len(rest) = Len(s) + n
      /\ \A i \in 1..Len(s) : rest[i] = s[i]
      /\ \A i \in 1..n : rest[Len(s) + i] = first[i]
  BY <1>2, ConcatParts
<1> HIDE DEF first, way, rest
<1>5. ASSUME NEW i \in 1..Len(rest)
      PROVE  rest[i] = way[i]
  <2>1. CASE i <= Len(s)
    BY <2>1, <1>1, <1>3, <1>4
  <2>2. CASE ~(i <= Len(s))
    <3> DEFINE l == i - Len(s)
    <3>1. l \in 1..n /\ l \in 1..Len(t) /\ Len(s) + l = i
      BY <2>2, <1>1, <1>4
    <3> HIDE DEF l
    <3> QED
      BY <3>1, <1>2, <1>3, <1>4
  <2> QED
    BY <2>1, <2>2
<1>6. Len(rest) <= Len(way)
  BY <1>1, <1>3, <1>4
<1>7. Ordered(at, screen, rest)
  BY <1>3, <1>4, <1>5, <1>6, OrderedPrefix DEF way
<1> QED
  BY <1>2, <1>7 DEF rest, first

\* The next message is read past those that wait: it has no view.
LEMMA ReadOther ==
    ASSUME NEW at, NEW screen, NEW s \in Seq(ServerMessages),
           NEW t \in Seq(ServerMessages), t # <<>>, ~HasView(Head(t)),
           Ordered(at, screen, s \o t)
    PROVE  /\ Ordered(at, screen, s \o Tail(t))
           /\ \A v : EndsWith(at, screen, s \o t, v) => EndsWith(at, screen, s \o Tail(t), v)
<1> DEFINE tail == Tail(t)
           way == s \o t
           rest == s \o tail
           n == Len(s) + 1
<1>1. Len(s) \in Nat /\ Len(t) \in Nat /\ Len(t) # 0
  BY LenProperties, EmptySeq
<1>2. /\ tail \in Seq(ServerMessages) /\ Len(tail) = Len(t) - 1
      /\ \A i \in 1..Len(tail) : tail[i] = t[i + 1]
  BY HeadTailProperties
<1>3. /\ way \in Seq(ServerMessages) /\ Len(way) = Len(s) + Len(t)
      /\ \A i \in 1..Len(s) : way[i] = s[i]
      /\ \A i \in 1..Len(t) : way[Len(s) + i] = t[i]
  BY ConcatParts
<1>4. /\ rest \in Seq(ServerMessages) /\ Len(rest) = Len(s) + Len(tail)
      /\ \A i \in 1..Len(s) : rest[i] = s[i]
      /\ \A i \in 1..Len(tail) : rest[Len(s) + i] = tail[i]
  BY <1>2, ConcatParts
<1>5. Head(t) = t[1]
  OBVIOUS
<1> HIDE DEF tail, way, rest
<1>6. n \in 1..Len(way) /\ Len(rest) = Len(way) - 1 /\ ~HasView(way[n])
  BY <1>1, <1>2, <1>3, <1>4, <1>5
<1>7. ASSUME NEW i \in 1..Len(rest)
      PROVE  rest[i] = way[IF i < n THEN i ELSE i + 1]
  <2>1. CASE i <= Len(s)
    BY <2>1, <1>1, <1>3, <1>4
  <2>2. CASE ~(i <= Len(s))
    <3> DEFINE l == i - Len(s)
    <3>1. /\ l \in 1..Len(tail) /\ l + 1 \in 1..Len(t) /\ Len(s) + l = i
          /\ Len(s) + (l + 1) = i + 1 /\ ~(i < n)
      BY <2>2, <1>1, <1>2, <1>4
    <3> HIDE DEF l, n
    <3>2. rest[Len(s) + l] = tail[l] /\ tail[l] = t[l + 1] /\ way[Len(s) + (l + 1)] = t[l + 1]
      BY <3>1, <1>2, <1>3, <1>4
    <3> QED
      BY <3>1, <3>2
  <2> QED
    BY <2>1, <2>2
<1> HIDE DEF n
<1>8. /\ Ordered(at, screen, way) => Ordered(at, screen, rest)
      /\ \A v : EndsWith(at, screen, way, v) => EndsWith(at, screen, rest, v)
  BY <1>3, <1>4, <1>6, <1>7, OrderedRemove
<1> QED
  BY <1>8 DEF way, rest, tail

\* A view that waits, or is read, comes to the screen.
LEMMA ShowNext ==
    ASSUME NEW at, NEW to, to # "menu", NEW screen, NEW s \in Seq(ServerMessages),
           NEW t \in Seq(ServerMessages), s # <<>>, HasView(Head(s)),
           Ordered(at, screen, s \o t)
    PROVE  /\ Ordered(to, Head(s).view, Tail(s) \o t)
           /\ \A v : EndsWith(at, screen, s \o t, v)
                        => EndsWith(to, Head(s).view, Tail(s) \o t, v)
<1> DEFINE tail == Tail(s)
           way == s \o t
           rest == tail \o t
<1>1. Len(s) \in Nat /\ Len(t) \in Nat /\ Len(s) # 0
  BY LenProperties, EmptySeq
<1>2. /\ tail \in Seq(ServerMessages) /\ Len(tail) = Len(s) - 1
      /\ \A i \in 1..Len(tail) : tail[i] = s[i + 1]
  BY HeadTailProperties
<1>3. /\ way \in Seq(ServerMessages) /\ Len(way) = Len(s) + Len(t)
      /\ \A i \in 1..Len(s) : way[i] = s[i]
      /\ \A i \in 1..Len(t) : way[Len(s) + i] = t[i]
  BY ConcatParts
<1>4. /\ rest \in Seq(ServerMessages) /\ Len(rest) = Len(tail) + Len(t)
      /\ \A i \in 1..Len(tail) : rest[i] = tail[i]
      /\ \A i \in 1..Len(t) : rest[Len(tail) + i] = t[i]
  BY <1>2, ConcatParts
<1>5. Head(s) = s[1]
  OBVIOUS
<1> HIDE DEF tail, way, rest
<1>6. 1 \in 1..Len(way) /\ Len(rest) = Len(way) - 1 /\ way[1] = Head(s)
  BY <1>1, <1>2, <1>3, <1>4, <1>5
<1>7. ASSUME NEW i \in 1..Len(rest)
      PROVE  rest[i] = way[1 + i]
  <2>1. CASE i <= Len(tail)
    <3>1. i \in 1..Len(tail) /\ i + 1 \in 1..Len(s) /\ i + 1 = 1 + i
      BY <2>1, <1>1, <1>2, <1>4
    <3> QED
      BY <3>1, <1>2, <1>3, <1>4
  <2>2. CASE ~(i <= Len(tail))
    <3> DEFINE l == i - Len(tail)
    <3>1. l \in 1..Len(t) /\ Len(tail) + l = i /\ Len(s) + l = 1 + i
      BY <2>2, <1>1, <1>2, <1>4
    <3> HIDE DEF l
    <3>2. rest[Len(tail) + l] = t[l] /\ way[Len(s) + l] = t[l]
      BY <3>1, <1>3, <1>4
    <3> QED
      BY <3>1, <3>2
  <2> QED
    BY <2>1, <2>2
<1>8. /\ Ordered(at, screen, way) => Ordered(to, way[1].view, rest)
      /\ \A v : EndsWith(at, screen, way, v) => EndsWith(to, way[1].view, rest, v)
  <2>1. HasView(way[1])
    BY <1>6
  <2> QED
    BY <2>1, <1>3, <1>4, <1>6, <1>7, OrderedSuffix
<1> QED
  BY <1>6, <1>8 DEF way, rest, tail

\* A start is read past those that wait, which it makes void.
LEMMA ReadPast ==
    ASSUME NEW at, NEW to, to # "menu", NEW screen, NEW s \in Seq(ServerMessages),
           NEW t \in Seq(ServerMessages), t # <<>>, HasView(Head(t)),
           Ordered(at, screen, s \o t)
    PROVE  /\ Ordered(to, Head(t).view, Tail(t))
           /\ \A v : EndsWith(at, screen, s \o t, v) => EndsWith(to, Head(t).view, Tail(t), v)
<1> DEFINE tail == Tail(t)
           way == s \o t
           n == Len(s) + 1
<1>1. Len(s) \in Nat /\ Len(t) \in Nat /\ Len(t) # 0
  BY LenProperties, EmptySeq
<1>2. /\ tail \in Seq(ServerMessages) /\ Len(tail) = Len(t) - 1
      /\ \A i \in 1..Len(tail) : tail[i] = t[i + 1]
  BY HeadTailProperties
<1>3. /\ way \in Seq(ServerMessages) /\ Len(way) = Len(s) + Len(t)
      /\ \A i \in 1..Len(t) : way[Len(s) + i] = t[i]
  BY ConcatParts
<1>4. Head(t) = t[1]
  OBVIOUS
<1> HIDE DEF tail, way
<1>5. n \in 1..Len(way) /\ Len(tail) = Len(way) - n /\ way[n] = Head(t)
  BY <1>1, <1>2, <1>3, <1>4
<1>6. ASSUME NEW i \in 1..Len(tail)
      PROVE  tail[i] = way[n + i]
  <2>1. i + 1 \in 1..Len(t) /\ Len(s) + (i + 1) = n + i
    BY <1>1, <1>2
  <2> HIDE DEF n
  <2>2. tail[i] = t[i + 1] /\ way[Len(s) + (i + 1)] = t[i + 1]
    BY <2>1, <1>2, <1>3
  <2> QED
    BY <2>1, <2>2
<1> HIDE DEF n
<1>7. /\ Ordered(at, screen, way) => Ordered(to, way[n].view, tail)
      /\ \A v : EndsWith(at, screen, way, v) => EndsWith(to, way[n].view, tail, v)
  <2>1. HasView(way[n])
    BY <1>5
  <2> QED
    BY <2>1, <1>2, <1>3, <1>5, <1>6, OrderedSuffix
<1> QED
  BY <1>5, <1>7 DEF way, tail

\* To wait in the page is to stay on the way.
LEMMA WaitIsOnTheWay ==
    ASSUME NEW S, NEW s \in Seq(S), NEW t \in Seq(S), t # <<>>
    PROVE  Append(s, Head(t)) \o Tail(t) = s \o t
<1>1. Head(t) \in S /\ Tail(t) \in Seq(S)
  BY HeadTailProperties
<1>2. <<Head(t)>> \in Seq(S) /\ Append(s, Head(t)) = s \o <<Head(t)>>
  BY <1>1, AppendIsConcat
<1>3. (s \o <<Head(t)>>) \o Tail(t) = s \o (<<Head(t)>> \o Tail(t))
  BY <1>1, <1>2, ConcatAssociative
<1>4. <<Head(t)>> \o Tail(t) = t
  <2> DEFINE u == <<Head(t)>> \o Tail(t)
  <2>1. Len(t) \in Nat /\ Len(t) # 0
    BY LenProperties, EmptySeq
  <2>2. /\ Len(Tail(t)) = Len(t) - 1
        /\ \A i \in 1..Len(Tail(t)) : Tail(t)[i] = t[i + 1]
    BY HeadTailProperties
  <2>3. /\ u \in Seq(S) /\ Len(u) = 1 + Len(Tail(t)) /\ u[1] = Head(t)
        /\ \A i \in 1..Len(Tail(t)) : u[1 + i] = Tail(t)[i]
    BY <1>1, <1>2, ConcatParts
  <2>4. Head(t) = t[1]
    OBVIOUS
  <2> HIDE DEF u
  <2>5. ASSUME NEW i \in 1..Len(t), i # 1
        PROVE  u[i] = t[i]
    <3>1. i - 1 \in 1..Len(Tail(t)) /\ 1 + (i - 1) = i /\ (i - 1) + 1 = i
      BY <1>1, <2>1, <2>2, <2>5
    <3> QED
      BY <3>1, <2>2, <2>3
  <2>6. u = t
    BY <1>1, <2>1, <2>2, <2>3, <2>4, <2>5, SeqEqual
  <2> QED
    BY <2>6 DEF u
<1> QED
  BY <1>2, <1>3, <1>4

\* An answer is told in order, or the connection is cut off.
LEMMA ServerKeeps ==
    ASSUME Shape, InOrder, ServerStep
    PROVE  /\ Shape' /\ InOrder'
           /\ UNCHANGED <<state, mode, ui, lobby, login>>
           /\ net.ws = "open" /\ net'.ws = "open"
<1> DEFINE way == OnTheWay
           queued == ui.queued
           in == net.in
<1>1. PICK messages : \E out \in Seq(Commands), s \in Sessions :
          Sends(messages, s) /\ Answer(out, messages, s)
  BY DEF ServerStep
<1>2. PICK out \in Seq(Commands), s \in Sessions :
          Sends(messages, s) /\ Answer(out, messages, s)
  BY <1>1
<1>3. UNCHANGED <<state, mode, ui, lobby, login>> /\ net.ws = "open"
  BY DEF ServerStep, PageUnchanged
<1>4. /\ net.in \in Seq(ServerMessages) /\ queued \in Seq(ServerMessages)
      /\ net \in [ws : {"none", "connecting", "open"}, for : Actions \cup {NoAction},
                   in : Seq(ServerMessages), out : Seq(Commands)]
      /\ HungUp \in Sessions /\ HungUp.at # "game"
  <2>1. States \subseteq ServerMessages
    BY DEF ServerMessages
  <2>2. ui.queued \in Seq(States)
    BY DEF Shape, ScreenShape, NetShape
  <2>3. queued \in Seq(ServerMessages)
    BY <2>1, <2>2, SeqMonotonic
  <2> QED
    BY <2>3, OtherSessions DEF Shape, ScreenShape, NetShape
<1>5. /\ way \in Seq(ServerMessages) /\ Ordered(mode, state, way)
      /\ srv.at = "game" => EndsWith(mode, state, way, srv.view)
  BY <1>4, ConcatParts DEF InOrder, OnTheWay
<1>6. way = queued \o in /\ in \in Seq(ServerMessages)
  BY <1>4 DEF OnTheWay
<1> DEFINE AllTold ==
              /\ in \o messages \in Seq(ServerMessages)
              /\ Ordered(mode, state, queued \o (in \o messages))
              /\ s.at = "game" => EndsWith(mode, state, queued \o (in \o messages), s.view)
<1>7. AllTold
  <2>1. CASE messages = <<>> /\ s = srv
    <3>1. net.in \o messages = net.in
      BY <1>4, <2>1, ConcatEmptySeq
    <3> QED
      BY <3>1, <1>4, <1>5, <2>1 DEF OnTheWay
  <2>2. ASSUME NEW m \in ServerMessages, messages = <<m>>, Told(m, s)
        PROVE  AllTold
    <3> HIDE DEF way, queued, in
    <3>1. /\ in \o messages \in Seq(ServerMessages)
          /\ queued \o (in \o messages) = Append(way, m)
      BY <1>4, <1>6, <2>2, ConcatOne
    <3> QED
      BY <3>1, <1>5, <2>2, ToldInOrder
  <2>3. ASSUME NEW r \in OtherMessages, NEW m \in ServerMessages, messages = <<r, m>>,
               Told(m, s)
        PROVE  AllTold
    <3>1. r \in ServerMessages /\ ~HasView(r)
      BY MessageKinds DEF ServerMessages
    <3> HIDE DEF way, queued, in
    <3>2. /\ in \o messages \in Seq(ServerMessages)
          /\ queued \o (in \o messages) = Append(Append(way, r), m)
      <4>1. queued \in Seq(ServerMessages) /\ in \in Seq(ServerMessages)
        BY <1>4, <1>6
      <4>2. /\ in \o messages \in Seq(ServerMessages)
            /\ queued \o (in \o messages) = Append(Append(queued \o in, r), m)
        BY <2>3, <3>1, <4>1, ConcatTwo, SMTT(60)
      <4> QED
        BY <4>2, <1>6
    <3>3. /\ Append(way, r) \in Seq(ServerMessages)
          /\ Ordered(mode, state, Append(way, r))
          /\ srv.at = "game" => EndsWith(mode, state, Append(way, r), srv.view)
      <4>1. Append(way, r) \in Seq(ServerMessages)
        BY <1>5, <3>1, AppendProperties
      <4>2. Ordered(mode, state, Append(way, r))
        BY <1>5, <3>1, OrderedAppend
      <4> QED
        BY <1>5, <3>1, <4>1, <4>2, EndsWithAppend
    <3> QED
      BY <3>2, <3>3, <2>3, ToldInOrder
  <2> QED
    BY <1>2, <2>1, <2>2, <2>3 DEF Sends
<1>8. /\ net = [ws |-> net.ws, for |-> net.for, in |-> net.in, out |-> net.out]
      /\ net.ws \in {"none", "connecting", "open"} /\ net.for \in Actions \cup {NoAction}
  BY <1>4
<1>9. ASSUME srv' = s, net' = [net EXCEPT !.out = out, !.in = @ \o messages]
      PROVE  Shape' /\ InOrder' /\ net'.ws = "open"
  <2>1. /\ net'.in = net.in \o messages /\ net'.ws = net.ws
        /\ net' \in [ws : {"none", "connecting", "open"}, for : Actions \cup {NoAction},
                     in : Seq(ServerMessages), out : Seq(Commands)]
    <3>1. net' = [ws |-> net.ws, for |-> net.for, in |-> net.in \o messages, out |-> out]
      BY <1>8, <1>9
    <3>2. net.in \o messages \in Seq(ServerMessages)
      BY <1>7
    <3> QED
      BY <1>8, <3>1, <3>2
  <2>2. Shape'
    BY <1>3, <1>9, <2>1 DEF Shape, ScreenShape, LobbyShape, LoginShape, NetShape, OnServer
  <2>3. OnTheWay' = queued \o (net.in \o messages)
    BY <1>3, <2>1 DEF OnTheWay
  <2> HIDE DEF queued
  <2>4. InOrder'
    BY <1>3, <1>7, <1>9, <2>3 DEF InOrder
  <2> QED
    BY <1>3, <2>1, <2>2, <2>4
<1>10. ASSUME srv' = HungUp, NEW k \in 0..Len(net.in),
             net' = [net EXCEPT !.out = <<>>, !.in = SubSeq(@, 1, k)]
      PROVE  Shape' /\ InOrder' /\ net'.ws = "open"
  <2>1. /\ SubSeq(net.in, 1, k) \in Seq(ServerMessages)
        /\ Ordered(mode, state, queued \o SubSeq(net.in, 1, k))
    BY <1>4, <1>5, CutOff DEF OnTheWay
  <2>2. /\ net'.in = SubSeq(net.in, 1, k) /\ net'.ws = net.ws
        /\ net' \in [ws : {"none", "connecting", "open"}, for : Actions \cup {NoAction},
                     in : Seq(ServerMessages), out : Seq(Commands)]
    <3>1. net' = [ws |-> net.ws, for |-> net.for, in |-> SubSeq(net.in, 1, k), out |-> <<>>]
      BY <1>8, <1>10
    <3> QED
      BY <1>8, <2>1, <3>1
  <2>3. Shape'
    BY <1>3, <1>4, <1>10, <2>2 DEF Shape, ScreenShape, LobbyShape, LoginShape, NetShape, OnServer
  <2>4. OnTheWay' = queued \o SubSeq(net.in, 1, k)
    BY <1>3, <2>2 DEF OnTheWay
  <2> HIDE DEF queued
  <2>5. InOrder'
    BY <1>3, <1>4, <1>10, <2>1, <2>4 DEF InOrder
  <2> QED
    BY <1>3, <2>2, <2>3, <2>5
<1> QED
  BY <1>2, <1>3, <1>9, <1>10 DEF Answer
-----------------------------------------------------------------------------
(* What the page does to its connection. *)

\* A connection that is given up, or lost.
LEMMA ClosedNet ==
    ASSUME CloseNet
    PROVE  /\ NetShape' /\ net'.ws = "none" /\ net'.in = <<>>
           /\ srv' = Away /\ srv'.at # "game"
<1>1. <<>> \in Seq(ServerMessages) /\ <<>> \in Seq(Commands)
  OBVIOUS
<1>2. Away \in Sessions /\ Away.at # "game"
  BY OtherSessions
<1> QED
  BY <1>1, <1>2 DEF CloseNet, NoNet, NetShape

\* A connection that is asked for.
LEMMA ConnectedNet ==
    ASSUME NEW action \in Actions, Connect(action)
    PROVE  /\ NetShape' /\ net'.ws = "connecting" /\ net'.for = action /\ net'.in = <<>>
           /\ srv' = Away /\ srv'.at # "game"
           /\ LobbyShape' /\ lobby'.action = action /\ action # NoAction
<1>1. <<>> \in Seq(ServerMessages) /\ <<>> \in Seq(Commands)
  OBVIOUS
<1>2. Away \in Sessions /\ Away.at # "game"
  BY OtherSessions
<1>3. /\ net' = [ws |-> "connecting", for |-> action, in |-> <<>>, out |-> <<>>]
      /\ srv' = Away
  BY DEF Connect, NoNet
<1>4. lobby' = [action |-> action, room |-> FALSE, guest |-> FALSE, ready |-> FALSE,
                pending |-> FALSE]
  BY DEF Connect, NoLobby
<1>5. NetShape' /\ net'.ws = "connecting" /\ net'.for = action /\ net'.in = <<>>
  BY <1>1, <1>2, <1>3 DEF NetShape
<1>6. LobbyShape' /\ lobby'.action = action
  BY <1>4 DEF LobbyShape
<1>7. action # NoAction
  BY DEF Actions, NoAction
<1> QED
  BY <1>2, <1>3, <1>5, <1>6, <1>7

\* The waiting screen is empty after a wait.
LEMMA NobodyWaits ==
    /\ NoLobby \in [action : Actions \cup {NoAction}, room : BOOLEAN, guest : BOOLEAN,
                    ready : BOOLEAN, pending : BOOLEAN]
    /\ NoLobby.action = NoAction
BY DEF NoLobby

\* A command, or a message read, changes one of the queues of the connection.
LEMMA SentNet ==
    ASSUME NetShape, NEW command \in Commands, Send(command)
    PROVE  /\ NetShape' /\ UNCHANGED srv /\ net'.in = net.in
           /\ net'.ws = net.ws /\ net'.for = net.for
<1>1. Append(net.out, command) \in Seq(Commands)
  BY AppendProperties DEF NetShape
<1>2. /\ net = [ws |-> net.ws, for |-> net.for, in |-> net.in, out |-> net.out]
      /\ net.ws \in {"none", "connecting", "open"} /\ net.for \in Actions \cup {NoAction}
      /\ net.in \in Seq(ServerMessages)
  BY DEF NetShape
<1>3. CASE net.ws = "open"
  <2>1. net' = [ws |-> net.ws, for |-> net.for, in |-> net.in,
                out |-> Append(net.out, command)]
    BY <1>2, <1>3 DEF Send
  <2> QED
    BY <2>1, <1>1, <1>2 DEF NetShape, Send
<1>4. CASE net.ws # "open"
  BY <1>4 DEF NetShape, Send
<1> QED
  BY <1>3, <1>4

\* Reading takes the first message off the connection.
LEMMA ReadNet ==
    ASSUME NetShape, Read, net.in # <<>>
    PROVE  /\ NetShape' /\ UNCHANGED srv /\ net'.in = Tail(net.in)
           /\ net'.ws = net.ws /\ net'.for = net.for
           /\ Msg \in ServerMessages
<1>1. Tail(net.in) \in Seq(ServerMessages) /\ Msg \in ServerMessages
  BY HeadTailProperties DEF NetShape, Msg
<1>2. /\ net = [ws |-> net.ws, for |-> net.for, in |-> net.in, out |-> net.out]
      /\ net.ws \in {"none", "connecting", "open"} /\ net.for \in Actions \cup {NoAction}
      /\ net.out \in Seq(Commands)
  BY DEF NetShape
<1>3. net' = [ws |-> net.ws, for |-> net.for, in |-> Tail(net.in), out |-> net.out]
  BY <1>2 DEF Read
<1> QED
  BY <1>1, <1>2, <1>3 DEF NetShape, Read
-----------------------------------------------------------------------------
(* What a step has to show for the order of the messages. *)

\* Nothing moves on the way.
LEMMA QuietKeepsOrder ==
    ASSUME InOrder, UNCHANGED <<state, mode, srv>>, ui'.queued = ui.queued, net'.in = net.in
    PROVE  InOrder'
<1>1. OnTheWay' = OnTheWay
  BY DEF OnTheWay
<1> QED
  BY <1>1 DEF InOrder

\* The connection is given up: what waits in the page is still shown.
LEMMA ClosingKeepsOrder ==
    ASSUME Shape, InOrder, UNCHANGED <<state, mode>>, ui'.queued = ui.queued,
           net'.in = <<>>, srv'.at # "game"
    PROVE  InOrder'
<1> DEFINE queued == ui.queued
           in == net.in
<1>1. queued \in Seq(ServerMessages) /\ in \in Seq(ServerMessages)
  <2>1. States \subseteq ServerMessages
    BY DEF ServerMessages
  <2>2. ui.queued \in Seq(States)
    BY DEF Shape, ScreenShape
  <2>3. queued \in Seq(ServerMessages)
    BY <2>1, <2>2, SeqMonotonic
  <2> QED
    BY <2>3 DEF Shape, NetShape
<1>2. Ordered(mode, state, queued \o in)
  BY DEF InOrder, OnTheWay
<1>3. OnTheWay' = queued \o <<>>
  BY DEF OnTheWay
<1> HIDE DEF queued, in
<1>4. 0 \in 0..Len(in) /\ SubSeq(in, 1, 0) = <<>>
  BY <1>1, LenProperties, SubSeqEmpty
<1>5. Ordered(mode, state, queued \o <<>>)
  BY <1>1, <1>2, <1>4, CutOff
<1> QED
  BY <1>3, <1>5 DEF InOrder

\* Nothing is on the way.
LEMMA EmptyKeepsOrder ==
    ASSUME ui'.queued = <<>>, net'.in = <<>>, srv'.at # "game"
    PROVE  InOrder'
<1>1. OnTheWay' = <<>>
  BY ConcatEmptySeq DEF OnTheWay
<1>2. Ordered(mode', state', <<>>)
  BY DEF Ordered
<1> QED
  BY <1>1, <1>2 DEF InOrder
-----------------------------------------------------------------------------
(* The menu, the waiting screen and the login. *)

\* The invariant, with the conjuncts apart that a step of the menu can disturb.
Menu == OnlyOpenCarries /\ LoginInMenu /\ MenuWaits /\ MenuIsBlank /\ ScreenMatchesConnection
Verdicts == VerdictDue /\ VerdictFitsGame

\* A connection is opened from the menu.
LEMMA ConnectKeeps ==
    ASSUME PageInv, NEW action \in Actions, Connect(action), mode = "menu",
           UNCHANGED <<state, mode, ui>>, LoginShape', login'.modal = "closed"
    PROVE  PageInv'
<1>1. /\ NetShape' /\ net'.ws = "connecting" /\ net'.for = action /\ net'.in = <<>>
      /\ srv' = Away /\ srv'.at # "game"
      /\ LobbyShape' /\ lobby'.action = action /\ action # NoAction
  BY ConnectedNet
<1>2. ScreenShape'
  BY DEF PageInv, Shape, ScreenShape, OnServer
<1>3. InOrder'
  BY <1>1, ClosingKeepsOrder DEF PageInv
<1>4. Menu'
  BY <1>1 DEF Menu, PageInv, Connected, OnlyOpenCarries, LoginInMenu, MenuWaits, MenuIsBlank,
     ScreenMatchesConnection, Waiting
<1>5. Verdicts'
  BY DEF Verdicts, PageInv, VerdictDue, VerdictFitsGame, Finished
<1> QED
  BY <1>1, <1>2, <1>3, <1>4, <1>5 DEF PageInv, Shape, Menu, Verdicts, Connected

\* A wait or a game loses its connection; a login stays in the menu.
LEMMA CancelKeeps ==
    ASSUME PageInv, CancelWaiting, UNCHANGED <<state, mode>>,
           ui' \in {ui, [ui EXCEPT !.busy = FALSE]},
           LoginShape', login'.modal # "closed" => mode = "menu"
    PROVE  PageInv'
<1>1. /\ NetShape' /\ net'.ws = "none" /\ net'.in = <<>>
      /\ srv' = Away /\ srv'.at # "game"
  BY ClosedNet DEF CancelWaiting
<1>2. lobby' = NoLobby /\ LobbyShape' /\ lobby'.action = NoAction
  BY NobodyWaits DEF CancelWaiting, LobbyShape
<1>3. /\ ScreenShape' /\ ui'.queued = ui.queued /\ ui'.timer = ui.timer
      /\ ui'.overlay = ui.overlay
  BY DEF PageInv, Shape, ScreenShape, OnServer
<1>4. InOrder'
  BY <1>1, <1>3, ClosingKeepsOrder DEF PageInv
<1>5. Menu'
  BY <1>1, <1>2, <1>3 DEF Menu, PageInv, Connected, OnlyOpenCarries, LoginInMenu, MenuWaits,
     MenuIsBlank, ScreenMatchesConnection, Waiting
<1>6. Verdicts'
  BY <1>3 DEF Verdicts, PageInv, VerdictDue, VerdictFitsGame, Finished
<1> QED
  BY <1>1, <1>2, <1>3, <1>4, <1>5, <1>6 DEF PageInv, Shape, Menu, Verdicts, Connected

\* The dialog opens, closes or is answered above the menu.
LEMMA LoginKeeps ==
    ASSUME PageInv, UNCHANGED <<state, mode, ui, lobby, connection>>, LoginShape',
           login'.modal # "closed" => mode = "menu" /\ ~Waiting
    PROVE  PageInv'
<1>1. UNCHANGED <<net, srv>>
  BY DEF connection
<1>2. ScreenShape' /\ LobbyShape' /\ NetShape'
  BY <1>1 DEF PageInv, Shape, ScreenShape, LobbyShape, NetShape, OnServer
<1>3. InOrder'
  BY <1>1, QuietKeepsOrder DEF PageInv
<1>4. Menu'
  BY <1>1 DEF Menu, PageInv, Connected, OnlyOpenCarries, LoginInMenu, MenuWaits, MenuIsBlank,
     ScreenMatchesConnection, Waiting
<1>5. Verdicts'
  BY DEF Verdicts, PageInv, VerdictDue, VerdictFitsGame, Finished
<1> QED
  BY <1>2, <1>3, <1>4, <1>5 DEF PageInv, Shape, Menu, Verdicts, Connected

\* The steps of the menu and of the login dialog keep the invariant.
LEMMA MenuSteps ==
    ASSUME PageInv,
           \/ \E action \in Actions : StartNet(action) \/ AskLogin(action)
           \/ OpenLogin \/ SubmitLogin \/ CancelLogin \/ LoginFails
           \/ LoginSucceeds \/ Logout \/ ClickCancel
    PROVE  PageInv'
<1>1. /\ login.modal \in Actions \cup {"closed", "open"} /\ login.submit \in BOOLEAN
      /\ login = [modal |-> login.modal, submit |-> login.submit]
      /\ login.modal # "closed" => mode = "menu" /\ ~Waiting
      /\ LoginShape
  BY DEF PageInv, Shape, LoginShape, Connected, LoginInMenu
<1>2. ASSUME NEW action \in Actions, StartNet(action)
      PROVE  PageInv'
  <2>1. /\ mode = "menu" /\ login.modal = "closed" /\ UNCHANGED <<state, mode, ui, login>>
        /\ Connect(action)
    BY <1>2 DEF StartNet, InMenu
  <2>2. LoginShape' /\ login'.modal = "closed"
    BY <2>1, <1>1 DEF LoginShape
  <2> QED
    BY <2>1, <2>2, ConnectKeeps
<1>3. ASSUME NEW action \in Actions, AskLogin(action)
      PROVE  PageInv'
  <2>1. login' = [modal |-> action, submit |-> login.submit]
    BY <1>1, <1>3 DEF AskLogin
  <2>2. LoginShape'
    BY <2>1, <1>1 DEF LoginShape
  <2> QED
    BY <2>2, <1>3, LoginKeeps DEF AskLogin, InMenu
<1>4. CASE OpenLogin
  <2>1. login' = [modal |-> "open", submit |-> login.submit]
    BY <1>1, <1>4 DEF OpenLogin
  <2>2. LoginShape'
    BY <2>1, <1>1 DEF LoginShape
  <2> QED
    BY <2>2, <1>4, LoginKeeps DEF OpenLogin, InMenu
<1>5. CASE SubmitLogin
  <2>1. login' = [modal |-> login.modal, submit |-> TRUE]
    BY <1>1, <1>5 DEF SubmitLogin
  <2>2. LoginShape' /\ login'.modal = login.modal
    BY <2>1, <1>1 DEF LoginShape
  <2> QED
    BY <2>2, <1>1, <1>5, LoginKeeps DEF SubmitLogin
<1>6. CASE CancelLogin
  <2>1. login' = [modal |-> "closed", submit |-> login.submit]
    BY <1>1, <1>6 DEF CancelLogin
  <2>2. LoginShape' /\ login'.modal = "closed"
    BY <2>1, <1>1 DEF LoginShape
  <2> QED
    BY <2>2, <1>6, LoginKeeps DEF CancelLogin
<1>7. CASE LoginFails
  <2>1. login' = [modal |-> login.modal, submit |-> FALSE]
    BY <1>1, <1>7 DEF LoginFails
  <2>2. LoginShape' /\ login'.modal = login.modal
    BY <2>1, <1>1 DEF LoginShape
  <2> QED
    BY <2>2, <1>1, <1>7, LoginKeeps DEF LoginFails
<1>8. CASE LoginSucceeds
  <2>1. LoginShape' /\ login'.modal = "closed" /\ UNCHANGED <<state, mode, ui>>
    BY <1>8 DEF LoginSucceeds, LoginShape
  <2>2. CASE login.modal \in Actions
    <3>1. login.modal # "closed" /\ Connect(login.modal)
      BY <2>2, <1>8 DEF LoginSucceeds, Actions
    <3> QED
      BY <3>1, <2>1, <2>2, <1>1, ConnectKeeps
  <2>3. CASE login.modal \notin Actions
    BY <2>1, <2>3, <1>8, CancelKeeps DEF LoginSucceeds
  <2> QED
    BY <2>2, <2>3
<1>9. CASE Logout \/ ClickCancel
  <2>1. /\ CancelWaiting /\ UNCHANGED <<state, mode, ui, login>> /\ login.modal = "closed"
    BY <1>9 DEF Logout, ClickCancel
  <2>2. LoginShape' /\ login'.modal = "closed"
    BY <2>1, <1>1 DEF LoginShape
  <2> QED
    BY <2>1, <2>2, CancelKeeps
<1> QED
  BY <1>2, <1>3, <1>4, <1>5, <1>6, <1>7, <1>8, <1>9
-----------------------------------------------------------------------------
(* The clicks of a game, and what the page does by itself. *)

\* A click that may send a command, and may change the overlay of a game.
LEMMA ClickKeeps ==
    ASSUME PageInv, UNCHANGED <<state, mode, login, srv>>, ScreenShape', LobbyShape', NetShape',
           net'.in = net.in, net'.ws = net.ws, net'.for = net.for, lobby'.action = lobby.action,
           ui'.queued = ui.queued, ui'.timer = ui.timer, ui'.netMode = ui.netMode,
           \/ ui'.overlay = ui.overlay
           \/ mode # "menu" /\ ui'.overlay.kind \notin {"over", "offline"}
    PROVE  PageInv'
<1>1. InOrder'
  BY QuietKeepsOrder DEF PageInv
<1>2. Menu'
  BY DEF Menu, PageInv, Connected, OnlyOpenCarries, LoginInMenu, MenuWaits, MenuIsBlank,
     ScreenMatchesConnection, Waiting
<1>3. Verdicts'
  BY DEF Verdicts, PageInv, VerdictDue, VerdictFitsGame, Finished
<1>4. LoginShape'
  BY DEF PageInv, Shape, LoginShape
<1> QED
  BY <1>1, <1>2, <1>3, <1>4 DEF PageInv, Shape, Menu, Verdicts, Connected

\* What the browser sends.
LEMMA CommandKinds ==
    /\ \A type \in Actions \cup {"start_game", "move", "resign", "rematch"} :
          Message(type) \in Commands
    /\ \A ready \in BOOLEAN : [type |-> "ready", ready |-> ready] \in Commands
BY DEF Commands

\* The clicks that leave the state as it is, and the end of an animation.
LEMMA ClickSteps ==
    ASSUME PageInv,
           \/ ClickLobby \/ PlayOnline \/ ClickResign \/ AskRematch \/ ClickExit \/ Stay
           \/ AnimationEnds
    PROVE  PageInv'
<1> DEFINE Click == /\ ScreenShape' /\ ui'.queued = ui.queued /\ ui'.timer = ui.timer
                    /\ ui'.netMode = ui.netMode
                    /\ \/ ui'.overlay = ui.overlay
                       \/ mode # "menu" /\ ui'.overlay.kind \notin {"over", "offline"}
<1>1. ScreenShape /\ LobbyShape /\ NetShape
  BY DEF PageInv, Shape
<1>2. CASE ClickLobby
  <2>1. PICK command \in Commands : Send(command)
    <3>1. CASE Send(Message("start_game"))
      BY <3>1, CommandKinds
    <3>2. CASE Send([type |-> "ready", ready |-> ~lobby.ready])
      <4>1. (~lobby.ready) \in BOOLEAN
        OBVIOUS
      <4> QED
        BY <3>2, <4>1, CommandKinds
    <3> QED
      BY <3>1, <3>2, <1>2 DEF ClickLobby
  <2>2. /\ NetShape' /\ UNCHANGED srv /\ net'.in = net.in
        /\ net'.ws = net.ws /\ net'.for = net.for
    BY <2>1, <1>1, SentNet
  <2>3. UNCHANGED <<state, mode, ui, login>> /\ lobby' = [lobby EXCEPT !.pending = TRUE]
    BY <1>2 DEF ClickLobby
  <2>4. ScreenShape' /\ LobbyShape' /\ lobby'.action = lobby.action
    BY <2>3, <1>1 DEF ScreenShape, LobbyShape, OnServer
  <2> QED
    BY <2>2, <2>3, <2>4, ClickKeeps
<1>3. ASSUME PlayOnline \/ ClickResign \/ AskRematch
      PROVE  PageInv'
  <2>1. PICK command \in Commands : Send(command)
    BY <1>3, CommandKinds DEF PlayOnline, ClickResign, AskRematch
  <2>2. /\ NetShape' /\ UNCHANGED srv /\ net'.in = net.in
        /\ net'.ws = net.ws /\ net'.for = net.for
    BY <2>1, <1>1, SentNet
  <2>3. UNCHANGED <<state, mode, lobby, login>>
    BY <1>3 DEF PlayOnline, ClickResign, AskRematch
  <2>4. LobbyShape' /\ lobby'.action = lobby.action
    BY <2>3, <1>1 DEF LobbyShape
  <2>5. \/ ui' = ui
        \/ ui' = [ui EXCEPT !.busy = TRUE]
        \/ /\ mode # "menu"
           /\ \E kind \in {"none", "waiting"} :
                 ui' = [ui EXCEPT !.asked = TRUE, !.overlay = Overlay(kind)]
    BY <1>3 DEF PlayOnline, ClickResign, AskRematch, OnServer, NoOverlay
  <2>6. Click
    <3>1. CASE ui' = ui
      BY <3>1, <2>3, <1>1 DEF ScreenShape, OnServer
    <3>2. CASE ui' = [ui EXCEPT !.busy = TRUE]
      BY <3>2, <2>3, <1>1 DEF ScreenShape, OnServer
    <3>3. ASSUME mode # "menu", NEW kind \in {"none", "waiting"},
                 ui' = [ui EXCEPT !.asked = TRUE, !.overlay = Overlay(kind)]
          PROVE  Click
      BY <3>3, <2>3, <1>1 DEF ScreenShape, OnServer, Overlay
    <3> QED
      BY <2>5, <3>1, <3>2, <3>3
  <2> QED
    BY <2>2, <2>3, <2>4, <2>6, ClickKeeps
<1>4. ASSUME ClickExit \/ Stay \/ AnimationEnds
      PROVE  PageInv'
  <2>1. UNCHANGED <<state, mode, lobby, login, net, srv>>
    BY <1>4 DEF ClickExit, Stay, AnimationEnds, connection
  <2>2. LobbyShape' /\ NetShape' /\ lobby'.action = lobby.action
    BY <2>1, <1>1 DEF LobbyShape, NetShape
  <2>3. mode = "menu" => ui.overlay.kind \in {"none", "ask"}
    BY DEF PageInv, Connected, MenuIsBlank
  <2>4. \/ ui' = [ui EXCEPT !.anim = FALSE]
        \/ mode # "menu" /\ \E kind \in {"none", "exit"} :
                               ui' = [ui EXCEPT !.overlay = Overlay(kind)]
    BY <1>4, <2>3 DEF ClickExit, Stay, AnimationEnds, Uncovered, NoOverlay
  <2>5. Click
    <3>1. CASE ui' = [ui EXCEPT !.anim = FALSE]
      BY <3>1, <2>1, <1>1 DEF ScreenShape, OnServer
    <3>2. ASSUME mode # "menu", NEW kind \in {"none", "exit"},
                 ui' = [ui EXCEPT !.overlay = Overlay(kind)]
          PROVE  Click
      BY <3>2, <2>1, <1>1 DEF ScreenShape, OnServer, Overlay
    <3> QED
      BY <2>4, <3>1, <3>2
  <2> QED
    BY <2>1, <2>2, <2>5, ClickKeeps
<1> QED
  BY <1>2, <1>3, <1>4

\* The verdict comes from the timer: it is that of the state.
LEMMA VerdictStep ==
    ASSUME PageInv, ShowVerdict
    PROVE  PageInv'
<1>1. ScreenShape /\ LobbyShape /\ LoginShape /\ NetShape
  BY DEF PageInv, Shape
<1>2. UNCHANGED <<state, mode, lobby, login, net, srv>>
  BY DEF ShowVerdict, connection
<1>3. mode # "menu" /\ Finished /\ ui.timer = state.winner
  BY DEF ShowVerdict, PageInv, VerdictDue
<1>4. ui' = [ui EXCEPT !.timer = NoTimer, !.overlay = Verdict(ui.timer)]
  BY <1>3 DEF ShowVerdict
<1>5. /\ ui'.queued = ui.queued /\ ui'.timer = NoTimer /\ ui'.netMode = ui.netMode
      /\ ui'.overlay = Verdict(ui.timer)
      /\ ui'.overlay.kind = "over" /\ ui'.overlay.winner = ui.timer
      /\ ScreenShape'
  BY <1>1, <1>2, <1>4 DEF ScreenShape, OnServer, Verdict
<1>6. Shape'
  BY <1>1, <1>2, <1>5 DEF Shape, LobbyShape, LoginShape, NetShape
<1>7. InOrder'
  BY <1>2, <1>5, QuietKeepsOrder DEF PageInv
<1>8. Menu'
  BY <1>2, <1>3, <1>5 DEF Menu, PageInv, Connected, OnlyOpenCarries, LoginInMenu, MenuWaits,
     MenuIsBlank, ScreenMatchesConnection, Waiting
<1>9. Verdicts'
  BY <1>2, <1>3, <1>5 DEF Verdicts, VerdictDue, VerdictFitsGame, Finished
<1> QED
  BY <1>6, <1>7, <1>8, <1>9 DEF PageInv, Menu, Verdicts, Connected
-----------------------------------------------------------------------------
(* A game at one screen: no connection, nothing on the way. *)

\* The deal, the moves and the moves taken back of a game at one screen.
LEMMA LocalSteps ==
    ASSUME PageInv, StartLocal \/ PlayLocal \/ Undo
    PROVE  PageInv'
<1>1. ScreenShape /\ LobbyShape /\ LoginShape /\ NetShape
  BY DEF PageInv, Shape
<1>2. UNCHANGED <<lobby, login, net, srv>>
  BY DEF StartLocal, PlayLocal, Undo, connection
<1>3. mode' = "local" /\ (mode = "local" \/ (mode = "menu" /\ ~Waiting /\ login.modal = "closed"))
  BY DEF StartLocal, PlayLocal, Undo, InMenu
<1>4. net.ws = "none" /\ net.in = <<>> /\ srv.at # "game" /\ login.modal = "closed"
  BY <1>1, <1>3 DEF PageInv, ScreenMatchesConnection, Connected, OnlyOpenCarries, LoginInMenu,
     Away
<1>5. /\ ui'.queued = <<>>
      /\ ui'.timer # NoTimer => state'.phase = "finished" /\ ui'.timer = state'.winner
      /\ ui'.overlay.kind = "none"
      /\ ScreenShape'
  <2>1. CASE StartLocal
    <3>1. ui' = [ui EXCEPT !.busy = FALSE, !.anim = FALSE, !.queued = <<>>, !.timer = NoTimer,
                           !.overlay = NoOverlay, !.history = <<>>, !.seat = 0]
      BY <2>1, <1>1 DEF StartLocal, FreshScreen, ScreenShape
    <3>2. 0 \in Online!Seats /\ <<>> \in Seq(States)
      BY DEF Online!Seats
    <3> QED
      BY <3>1, <3>2, <1>1, <1>3 DEF ScreenShape, OnServer, NoOverlay, Overlay
  <2>2. CASE PlayLocal
    <3>1. /\ mode = "local" /\ ui.overlay = NoOverlay /\ state.phase # "finished"
          /\ ui' = [ui EXCEPT !.history = Lately(Append(@, state)), !.anim = TRUE,
                              !.timer = IF state'.phase = "finished" THEN state'.winner ELSE @]
      BY <2>2 DEF PlayLocal, CanClickBoard, Uncovered, Finished
    <3>2. ui.timer = NoTimer /\ ui.queued = <<>>
      BY <3>1 DEF PageInv, VerdictDue, Finished, Connected, MenuIsBlank
    <3> DEFINE past == Lately(Append(ui.history, state))
               timer == IF state'.phase = "finished" THEN state'.winner ELSE ui.timer
    <3>3. ui' = [ui EXCEPT !.history = past, !.anim = TRUE, !.timer = timer]
      BY <3>1
    <3>4. timer # NoTimer => state'.phase = "finished" /\ timer = state'.winner
      BY <3>2
    <3> HIDE DEF past, timer
    <3> QED
      <4>1. /\ ui'.queued = ui.queued /\ ui'.overlay = ui.overlay /\ ui'.timer = timer
            /\ ScreenShape'
        BY <3>3, <1>1, <1>3 DEF ScreenShape, OnServer
      <4>2. NoOverlay.kind = "none"
        BY DEF NoOverlay, Overlay
      <4> QED
        BY <4>1, <4>2, <3>1, <3>2, <3>4
  <2>3. CASE Undo
    <3>1. /\ mode = "local"
          /\ ui' = [ui EXCEPT !.history = SubSeq(@, 1, Len(@) - 1), !.anim = FALSE,
                              !.timer = NoTimer, !.overlay = NoOverlay]
      BY <2>3 DEF Undo
    <3>2. ui.queued = <<>>
      BY <3>1 DEF PageInv, Connected, MenuIsBlank
    <3> QED
      BY <3>1, <3>2, <1>1, <1>3 DEF ScreenShape, OnServer, NoOverlay, Overlay
  <2> QED
    BY <2>1, <2>2, <2>3
<1>6. Shape'
  BY <1>1, <1>2, <1>5 DEF Shape, LobbyShape, LoginShape, NetShape
<1>7. InOrder'
  BY <1>2, <1>4, <1>5, EmptyKeepsOrder
<1>8. Menu'
  BY <1>2, <1>3, <1>4, <1>5 DEF Menu, PageInv, Connected, OnlyOpenCarries, LoginInMenu,
     MenuWaits, MenuIsBlank, ScreenMatchesConnection, Waiting
<1>9. Verdicts'
  BY <1>3, <1>5 DEF Verdicts, VerdictDue, VerdictFitsGame, Finished
<1> QED
  BY <1>6, <1>7, <1>8, <1>9 DEF PageInv, Menu, Verdicts, Connected
-----------------------------------------------------------------------------
(* The connection opens, is lost, or is left behind with the game. *)

\* The socket opens for the wait that asked for it.
LEMMA OpenedStep ==
    ASSUME PageInv, Opened
    PROVE  PageInv'
<1>1. ScreenShape /\ LobbyShape /\ LoginShape /\ NetShape
  BY DEF PageInv, Shape
<1>2. UNCHANGED <<state, mode, lobby, login>> /\ net.ws = "connecting"
  BY DEF Opened
<1>3. /\ mode = "menu" /\ net.for = lobby.action /\ net.for \in Actions /\ Waiting
      /\ ui.queued = <<>>
  BY <1>1, <1>2 DEF PageInv, Connected, MenuWaits, MenuIsBlank, ScreenMatchesConnection,
     NetShape, Waiting, NoAction, Actions
<1>4. /\ net' = [ws |-> "open", for |-> NoAction, in |-> <<>>, out |-> <<Message(net.for)>>]
      /\ srv' = Unseated
      /\ ui' = [ui EXCEPT !.netMode = IF net.for = "ai" THEN "ai" ELSE "online"]
  BY <1>3 DEF Opened, NoNet, NoAction, Actions
<1>5. NetShape' /\ net'.in = <<>> /\ net'.ws = "open" /\ srv'.at # "game"
  <2>1. Message(net.for) \in Commands
    BY <1>3, CommandKinds
  <2>2. <<Message(net.for)>> \in Seq(Commands) /\ <<>> \in Seq(ServerMessages)
    BY <2>1
  <2>3. Unseated \in Sessions /\ Unseated.at # "game"
    BY OtherSessions
  <2> QED
    BY <1>4, <2>2, <2>3 DEF NetShape
<1>6. /\ ScreenShape' /\ ui'.queued = ui.queued /\ ui'.timer = ui.timer
      /\ ui'.overlay = ui.overlay /\ (ui'.netMode = "ai" <=> net.for = "ai")
  BY <1>1, <1>2, <1>4 DEF ScreenShape, OnServer
<1>7. Shape'
  BY <1>1, <1>2, <1>5, <1>6 DEF Shape, LobbyShape, LoginShape
<1>8. InOrder'
  BY <1>3, <1>5, <1>6, EmptyKeepsOrder
<1>9. Menu'
  BY <1>2, <1>3, <1>5, <1>6 DEF Menu, PageInv, Connected, OnlyOpenCarries, LoginInMenu,
     MenuWaits, MenuIsBlank, ScreenMatchesConnection, Waiting
<1>10. Verdicts'
  BY <1>2, <1>6 DEF Verdicts, PageInv, VerdictDue, VerdictFitsGame, Finished
<1> QED
  BY <1>7, <1>8, <1>9, <1>10 DEF PageInv, Menu, Verdicts, Connected

\* A loss in the menu ends the wait, in a game it is reported.
LEMMA LostStep ==
    ASSUME PageInv, Lost
    PROVE  PageInv'
<1>1. ScreenShape /\ LobbyShape /\ LoginShape /\ NetShape
  BY DEF PageInv, Shape
<1>2. UNCHANGED <<state, mode, login>> /\ CloseNet /\ ReportLoss /\ net.ws # "none"
  BY DEF Lost, CloseNet
<1>3. /\ NetShape' /\ net'.ws = "none" /\ net'.in = <<>>
      /\ srv' = Away /\ srv'.at # "game"
  BY <1>2, ClosedNet
<1>4. CASE mode = "menu"
  <2>1. lobby' = NoLobby /\ UNCHANGED ui
    BY <1>2, <1>4 DEF ReportLoss
  <2>2. LoginShape' /\ CancelWaiting
    BY <1>1, <1>2, <2>1 DEF LoginShape, CancelWaiting
  <2> QED
    BY <1>2, <1>4, <2>1, <2>2, CancelKeeps
<1>5. CASE mode # "menu"
  <2>1. OnServer
    BY <1>1, <1>2, <1>5 DEF PageInv, ScreenMatchesConnection, ScreenShape, OnServer
  <2>2. ui' = [ui EXCEPT !.overlay = Overlay("offline")] /\ UNCHANGED lobby
    BY <1>2, <1>5, <2>1 DEF ReportLoss
  <2>3. /\ ScreenShape' /\ ui'.queued = ui.queued /\ ui'.timer = ui.timer
        /\ ui'.overlay.kind = "offline"
    BY <1>1, <1>2, <2>2 DEF ScreenShape, OnServer, Overlay
  <2>4. Shape'
    BY <1>1, <1>2, <1>3, <2>2, <2>3 DEF Shape, LobbyShape, LoginShape
  <2>5. InOrder'
    BY <1>2, <1>3, <2>3, ClosingKeepsOrder DEF PageInv
  <2>6. Menu'
    BY <1>2, <1>3, <1>5, <2>2, <2>3 DEF Menu, PageInv, Connected, OnlyOpenCarries, LoginInMenu,
       MenuWaits, MenuIsBlank, ScreenMatchesConnection, Waiting
  <2>7. Verdicts'
    BY <1>2, <2>3 DEF Verdicts, PageInv, VerdictDue, VerdictFitsGame, Finished
  <2> QED
    BY <2>4, <2>5, <2>6, <2>7 DEF PageInv, Menu, Verdicts, Connected
<1> QED
  BY <1>4, <1>5

\* The way back leaves nothing of the game.
LEMMA BackStep ==
    ASSUME PageInv, BackToMenu
    PROVE  PageInv'
<1>1. ScreenShape /\ LobbyShape /\ LoginShape /\ NetShape
  BY DEF PageInv, Shape
<1>2. /\ mode # "menu" /\ mode' = "menu" /\ ui' = BlankScreen /\ UNCHANGED login
      /\ lobby' = NoLobby /\ CloseNet
  BY DEF BackToMenu, CancelWaiting
<1>3. /\ NetShape' /\ net'.ws = "none" /\ net'.in = <<>>
      /\ srv' = Away /\ srv'.at # "game"
  BY <1>2, ClosedNet
<1>4. LobbyShape' /\ lobby'.action = NoAction
  BY <1>2, NobodyWaits DEF LobbyShape
<1>5. /\ ScreenShape' /\ ui'.queued = <<>> /\ ui'.timer = NoTimer
      /\ ui'.overlay.kind = "none"
  <2>1. 0 \in Online!Seats /\ <<>> \in Seq(States)
    BY DEF Online!Seats
  <2> QED
    BY <1>2, <2>1 DEF ScreenShape, OnServer, BlankScreen, NoOverlay, Overlay
<1>6. LoginShape' /\ login'.modal = "closed"
  BY <1>1, <1>2 DEF LoginShape, PageInv, Connected, LoginInMenu
<1>7. InOrder'
  BY <1>3, <1>5, EmptyKeepsOrder
<1>8. Menu'
  BY <1>2, <1>3, <1>4, <1>5, <1>6 DEF Menu, OnlyOpenCarries, LoginInMenu, MenuWaits,
     MenuIsBlank, ScreenMatchesConnection, Waiting
<1>9. Verdicts'
  BY <1>5 DEF Verdicts, VerdictDue, VerdictFitsGame
<1> QED
  BY <1>3, <1>4, <1>5, <1>6, <1>7, <1>8, <1>9 DEF PageInv, Shape, Menu, Verdicts, Connected
-----------------------------------------------------------------------------
(* Messages without a view. *)

\* A message without a view is read: the order of the others stays.
LEMMA ReadKeeps ==
    ASSUME PageInv, net.in # <<>>, ~HasView(Msg), Read, UNCHANGED <<state, mode, login>>,
           ScreenShape', LobbyShape', lobby'.action = lobby.action,
           ui'.queued = ui.queued, ui'.timer = ui.timer, ui'.netMode = ui.netMode,
           \/ ui'.overlay = ui.overlay
           \/ ui'.overlay.kind = "ask"
           \/ mode # "menu" /\ ui'.overlay.kind = "left"
    PROVE  PageInv'
<1> DEFINE queued == ui.queued
           in == net.in
<1>1. ScreenShape /\ LoginShape /\ NetShape
  BY DEF PageInv, Shape
<1>2. /\ NetShape' /\ UNCHANGED srv /\ net'.in = Tail(net.in)
      /\ net'.ws = net.ws /\ net'.for = net.for
  BY <1>1, ReadNet
<1>3. queued \in Seq(ServerMessages) /\ in \in Seq(ServerMessages)
  <2>1. States \subseteq ServerMessages
    BY DEF ServerMessages
  <2>2. ui.queued \in Seq(States)
    BY <1>1 DEF ScreenShape
  <2>3. queued \in Seq(ServerMessages)
    BY <2>1, <2>2, SeqMonotonic
  <2> QED
    BY <2>3, <1>1 DEF NetShape
<1>4. /\ Ordered(mode, state, queued \o in)
      /\ srv.at = "game" => EndsWith(mode, state, queued \o in, srv.view)
  BY DEF PageInv, InOrder, OnTheWay
<1>5. OnTheWay' = queued \o Tail(in) /\ in # <<>> /\ ~HasView(Head(in))
  BY <1>2 DEF OnTheWay, Msg
<1>6. LoginShape'
  BY <1>1 DEF LoginShape
<1>7. net.ws = "open"
  BY DEF PageInv, Connected, OnlyOpenCarries
<1>8. Menu'
  BY <1>2, <1>7 DEF Menu, PageInv, Connected, OnlyOpenCarries, LoginInMenu, MenuWaits,
     MenuIsBlank, ScreenMatchesConnection, Waiting
<1>9. Verdicts'
  BY DEF Verdicts, PageInv, VerdictDue, VerdictFitsGame, Finished
<1> HIDE DEF queued, in
<1>10. /\ Ordered(mode, state, queued \o Tail(in))
       /\ srv.at = "game" => EndsWith(mode, state, queued \o Tail(in), srv.view)
  BY <1>3, <1>4, <1>5, ReadOther
<1>11. InOrder'
  BY <1>2, <1>5, <1>10 DEF InOrder
<1> QED
  BY <1>2, <1>6, <1>8, <1>9, <1>11 DEF PageInv, Shape, Menu, Verdicts, Connected

\* The messages without a view.
LEMMA ReadSteps ==
    ASSUME PageInv,
           \/ ReadRoom \/ ReadWaiting \/ ReadLobby \/ ReadOpponentLeft \/ ReadRematchAsk
           \/ ReadError
    PROVE  PageInv'
<1>1. ScreenShape /\ LobbyShape /\ LoginShape /\ NetShape
  BY DEF PageInv, Shape
<1>2. /\ net.in # <<>>
      /\ Msg.type \in {"room", "waiting", "lobby", "opponent_left", "rematch_ask", "error"}
  BY DEF ReadRoom, ReadWaiting, ReadLobby, ReadOpponentLeft, ReadRematchAsk, ReadError, Arrives
<1>3. /\ Msg \in ServerMessages /\ ~HasView(Msg)
      /\ Msg.type = "room" => Msg.you \in Online!Seats
      /\ Msg.type = "lobby" => Msg.guest \in BOOLEAN /\ Msg.ready \in BOOLEAN
  <2>1. Msg \in ServerMessages
    BY <1>1, <1>2, HeadTailProperties DEF NetShape, Msg
  <2> QED
    BY <1>2, <2>1, MessageKinds DEF HasView, IsState
<1>4. CASE ReadRoom
  <2>1. /\ Read /\ UNCHANGED <<state, mode, login>> /\ Msg.type = "room"
        /\ ui' = [ui EXCEPT !.seat = Msg.you]
        /\ lobby' = [lobby EXCEPT !.room = @ \/ lobby.action \in {"create", "join"}]
    BY <1>4 DEF ReadRoom, Arrives
  <2>2. /\ ScreenShape' /\ ui'.queued = ui.queued /\ ui'.timer = ui.timer
        /\ ui'.netMode = ui.netMode /\ ui'.overlay = ui.overlay
    BY <1>1, <1>3, <2>1 DEF ScreenShape, OnServer
  <2>3. LobbyShape' /\ lobby'.action = lobby.action
    <3>1. (lobby.room \/ lobby.action \in {"create", "join"}) \in BOOLEAN
      OBVIOUS
    <3> QED
      BY <1>1, <2>1, <3>1 DEF LobbyShape
  <2> QED
    BY <1>2, <1>3, <2>1, <2>2, <2>3, ReadKeeps
<1>5. CASE ReadWaiting
  <2>1. Read /\ UNCHANGED <<state, mode, ui, lobby, login>>
    BY <1>5 DEF ReadWaiting
  <2>2. ScreenShape' /\ LobbyShape'
    BY <1>1, <2>1 DEF ScreenShape, LobbyShape, OnServer
  <2> QED
    BY <1>2, <1>3, <2>1, <2>2, ReadKeeps
<1>6. CASE ReadLobby
  <2>1. /\ Read /\ UNCHANGED <<state, mode, ui, login>> /\ Msg.type = "lobby"
        /\ \/ lobby' = lobby
           \/ lobby' = [lobby EXCEPT !.guest = Msg.guest, !.ready = Msg.ready, !.pending = FALSE]
    BY <1>6 DEF ReadLobby, Arrives
  <2>2. ScreenShape'
    BY <1>1, <2>1 DEF ScreenShape, OnServer
  <2>3. LobbyShape' /\ lobby'.action = lobby.action
    <3>1. CASE lobby' = lobby
      BY <3>1, <1>1 DEF LobbyShape
    <3>2. CASE lobby' = [lobby EXCEPT !.guest = Msg.guest, !.ready = Msg.ready,
                                      !.pending = FALSE]
      BY <3>2, <1>1, <1>3, <2>1 DEF LobbyShape
    <3> QED
      BY <2>1, <3>1, <3>2
  <2> QED
    BY <1>2, <1>3, <2>1, <2>2, <2>3, ReadKeeps
<1>7. CASE ReadOpponentLeft
  <2>1. CASE mode = "menu"
    BY <1>1, <1>7, <2>1, CancelKeeps DEF ReadOpponentLeft, LoginShape
  <2>2. CASE mode # "menu"
    <3>1. /\ Read /\ UNCHANGED <<state, mode, lobby, login>>
          /\ ui' = [ui EXCEPT !.overlay = Overlay("left")]
      BY <1>7, <2>2 DEF ReadOpponentLeft
    <3>2. /\ ScreenShape' /\ ui'.queued = ui.queued /\ ui'.timer = ui.timer
          /\ ui'.netMode = ui.netMode /\ ui'.overlay.kind = "left"
      BY <1>1, <3>1 DEF ScreenShape, OnServer, Overlay
    <3>3. LobbyShape'
      BY <1>1, <3>1 DEF LobbyShape
    <3> QED
      BY <1>2, <1>3, <2>2, <3>1, <3>2, <3>3, ReadKeeps
  <2> QED
    BY <2>1, <2>2
<1>8. CASE ReadRematchAsk
  <2>1. /\ Read /\ UNCHANGED <<state, mode, lobby, login>>
        /\ ui' = ui \/ ui' = [ui EXCEPT !.overlay = Overlay("ask")]
    BY <1>8 DEF ReadRematchAsk
  <2>2. /\ ScreenShape' /\ ui'.queued = ui.queued /\ ui'.timer = ui.timer
        /\ ui'.netMode = ui.netMode
        /\ ui'.overlay = ui.overlay \/ ui'.overlay.kind = "ask"
    <3>1. CASE ui' = ui
      BY <3>1, <1>1, <2>1 DEF ScreenShape, OnServer
    <3>2. CASE ui' = [ui EXCEPT !.overlay = Overlay("ask")]
      BY <3>2, <1>1, <2>1 DEF ScreenShape, OnServer, Overlay
    <3> QED
      BY <2>1, <3>1, <3>2
  <2>3. LobbyShape'
    BY <1>1, <2>1 DEF LobbyShape
  <2> QED
    BY <1>2, <1>3, <2>1, <2>2, <2>3, ReadKeeps
<1>9. CASE ReadError
  <2>1. ui' = [ui EXCEPT !.busy = FALSE] /\ UNCHANGED <<state, mode>>
    BY <1>9 DEF ReadError
  <2>2. /\ ScreenShape' /\ ui'.queued = ui.queued /\ ui'.timer = ui.timer
        /\ ui'.netMode = ui.netMode /\ ui'.overlay = ui.overlay
    BY <1>1, <2>1 DEF ScreenShape, OnServer
  <2>3. ASSUME Read, UNCHANGED login, lobby' \in {lobby, [lobby EXCEPT !.pending = FALSE]}
        PROVE  PageInv'
    <3>1. LobbyShape' /\ lobby'.action = lobby.action
      BY <1>1, <2>3 DEF LobbyShape
    <3> QED
      BY <1>2, <1>3, <2>1, <2>2, <2>3, <3>1, ReadKeeps
  <2>4. ASSUME CancelWaiting, mode = "menu",
               login' = IF Msg.code = "login" /\ Waiting
                        THEN [login EXCEPT !.modal = lobby.action] ELSE login
        PROVE  PageInv'
    <3>1. LoginShape'
      <4>1. CASE Msg.code = "login" /\ Waiting
        <5>1. login' = [login EXCEPT !.modal = lobby.action] /\ lobby.action \in Actions
          BY <1>1, <2>4, <4>1 DEF LobbyShape, Waiting, NoAction, Actions
        <5> QED
          BY <5>1, <1>1 DEF LoginShape
      <4>2. CASE ~(Msg.code = "login" /\ Waiting)
        <5>1. login' = login
          BY <4>2, <2>4
        <5> QED
          BY <5>1, <1>1 DEF LoginShape
      <4> QED
        BY <4>1, <4>2
    <3> QED
      BY <2>1, <2>4, <3>1, CancelKeeps
  <2> QED
    BY <1>9, <2>1, <2>3, <2>4 DEF ReadError
<1> QED
  BY <1>4, <1>5, <1>6, <1>7, <1>8, <1>9
-----------------------------------------------------------------------------
(* Messages with a view. *)

\* The first message of the way is the next after the view on the screen.
LEMMA FirstFits ==
    ASSUME NEW at, NEW screen, NEW s \in Seq(ServerMessages), NEW t \in Seq(ServerMessages),
           s # <<>>, HasView(Head(s)), Ordered(at, screen, s \o t)
    PROVE  IF at = "menu" THEN Head(s).type = "start" ELSE Follows(screen, Head(s))
<1> DEFINE way == s \o t
<1>1. Len(s) \in Nat /\ Len(t) \in Nat /\ Len(s) # 0
  BY LenProperties, EmptySeq
<1>2. Len(way) = Len(s) + Len(t) /\ \A i \in 1..Len(s) : way[i] = s[i]
  BY ConcatParts
<1>3. Head(s) = s[1]
  OBVIOUS
<1> HIDE DEF way
<1>4. 1 \in 1..Len(way) /\ 0 \in 0..Len(way) /\ way[1] = Head(s)
  BY <1>1, <1>2, <1>3
<1>5. Latest(way, 1 - 1, 0)
  BY DEF Latest
<1>6. Succeeds(at, screen, way, 0, way[1])
  BY <1>4, <1>5 DEF Ordered, way
<1> QED
  BY <1>4, <1>6 DEF Succeeds, ViewAt

\* What waits, and what comes.
LEMMA WayParts ==
    ASSUME PageInv
    PROVE  /\ ui.queued \in Seq(ServerMessages) /\ net.in \in Seq(ServerMessages)
           /\ ui.queued \in Seq(States)
           /\ Ordered(mode, state, ui.queued \o net.in)
           /\ srv.at = "game" => EndsWith(mode, state, ui.queued \o net.in, srv.view)
<1>1. States \subseteq ServerMessages
  BY DEF ServerMessages
<1>2. ui.queued \in Seq(States) /\ net.in \in Seq(ServerMessages)
  BY DEF PageInv, Shape, ScreenShape, NetShape
<1>3. ui.queued \in Seq(ServerMessages)
  BY <1>1, <1>2, SeqMonotonic
<1> QED
  BY <1>2, <1>3 DEF PageInv, InOrder, OnTheWay

\* A state that follows the one on the screen is shown: that one was not over, so that
\* neither its verdict nor its timer is left.
LEMMA ShownKeeps ==
    ASSUME PageInv, OnServer, NEW m \in States, NEW rest \in Seq(States),
           Shown(m, rest), Follows(state, m), InOrder', NetShape',
           UNCHANGED <<mode, lobby, login, srv>>, net'.ws = net.ws, net'.for = net.for,
           net.ws # "open" => net'.in = net.in
    PROVE  PageInv'
<1>1. ScreenShape /\ LobbyShape /\ LoginShape /\ NetShape
  BY DEF PageInv, Shape
<1>2. /\ m \in ServerMessages /\ IsState(m) /\ m.view \in Views /\ m.type # "start"
      /\ m.type = "over" <=> m.view.over
  <2>1. m \in ServerMessages
    BY DEF ServerMessages
  <2>2. IsState(m)
    BY <2>1, MessageKinds
  <2> QED
    BY <2>1, <2>2, MessageKinds DEF HasView, IsState
<1>3. ~state.over
  BY <1>2 DEF Follows
<1>4. mode # "local" /\ mode # "menu"
  BY DEF OnServer
<1>5. ui.timer = NoTimer /\ ui.overlay.kind # "over"
  BY <1>3, <1>4 DEF PageInv, VerdictDue, VerdictFitsGame, Finished
<1> DEFINE moves == ui.anim \/ m.last
           timer == IF m.type = "over" THEN m.view.winner ELSE ui.timer
<1>6. /\ state' = m.view
      /\ ui' = [ui EXCEPT !.busy = FALSE, !.queued = rest, !.anim = moves, !.timer = timer]
  BY DEF Shown
<1>7. timer # NoTimer => m.view.over /\ timer = m.view.winner
  BY <1>2, <1>5
<1>8. moves \in BOOLEAN
  OBVIOUS
<1> HIDE DEF moves, timer
<1>9. /\ ScreenShape' /\ ui'.timer = timer /\ ui'.overlay = ui.overlay
      /\ ui'.netMode = ui.netMode
  BY <1>1, <1>2, <1>6, <1>8 DEF ScreenShape, OnServer
<1>10. Shape'
  BY <1>1, <1>9 DEF Shape, LobbyShape, LoginShape
<1>11. Menu'
  BY <1>4, <1>9 DEF Menu, PageInv, Connected, OnlyOpenCarries, LoginInMenu, MenuWaits,
     MenuIsBlank, ScreenMatchesConnection, Waiting
<1>12. Verdicts'
  <2>1. VerdictDue'
    BY <1>4, <1>6, <1>7, <1>9 DEF VerdictDue, Finished
  <2>2. VerdictFitsGame'
    BY <1>5, <1>9 DEF VerdictFitsGame
  <2> QED
    BY <2>1, <2>2 DEF Verdicts
<1> QED
  BY <1>10, <1>11, <1>12 DEF PageInv, Menu, Verdicts, Connected

\* The first state that waits follows the one on the screen.
LEMMA ShowQueuedStep ==
    ASSUME PageInv, ShowQueued
    PROVE  PageInv'
<1> DEFINE queued == ui.queued
           in == net.in
           m == Head(queued)
<1>1. /\ Shown(Head(ui.queued), Tail(ui.queued)) /\ queued # <<>>
      /\ UNCHANGED <<mode, lobby, login, net, srv>>
  BY DEF ShowQueued, connection
<1>2. /\ queued \in Seq(ServerMessages) /\ in \in Seq(ServerMessages)
      /\ queued \in Seq(States)
      /\ Ordered(mode, state, queued \o in)
      /\ srv.at = "game" => EndsWith(mode, state, queued \o in, srv.view)
  BY WayParts
<1>3. OnServer /\ mode # "menu"
  BY <1>1 DEF PageInv, Connected, MenuIsBlank, Shape, ScreenShape, OnServer
<1>4. NetShape' /\ ScreenShape
  BY <1>1 DEF PageInv, Shape, NetShape
<1>5. state' = m.view /\ ui'.queued = Tail(queued)
  BY <1>1, <1>4 DEF Shown, ScreenShape
<1>6. OnTheWay' = Tail(queued) \o in
  BY <1>1, <1>5 DEF OnTheWay
<1> HIDE DEF queued, in
<1>7. m \in States /\ Tail(queued) \in Seq(States) /\ m \in ServerMessages
  <2>1. m \in States /\ Tail(queued) \in Seq(States)
    BY <1>1, <1>2, HeadTailProperties
  <2> QED
    BY <2>1 DEF ServerMessages
<1>8. IsState(m) /\ HasView(m)
  BY <1>7, MessageKinds DEF HasView
<1>9. Follows(state, m)
  BY <1>1, <1>2, <1>3, <1>8, FirstFits
<1>10. /\ Ordered(mode, m.view, Tail(queued) \o in)
       /\ srv.at = "game" => EndsWith(mode, m.view, Tail(queued) \o in, srv.view)
  BY <1>1, <1>2, <1>3, <1>8, ShowNext
<1>11. InOrder'
  BY <1>1, <1>5, <1>6, <1>10 DEF InOrder
<1>12. Shown(m, Tail(queued))
  BY <1>1 DEF queued
<1> HIDE DEF m
<1> QED
  BY <1>1, <1>3, <1>4, <1>7, <1>9, <1>11, <1>12, ShownKeeps

\* A state waits behind those before it, or is the next one for the screen.
LEMMA ReadStateStep ==
    ASSUME PageInv, ReadState
    PROVE  PageInv'
<1> DEFINE queued == ui.queued
           in == net.in
           m == Head(in)
<1>1. /\ Read /\ in # <<>> /\ IsState(m) /\ UNCHANGED <<mode, lobby, login>>
      /\ m = Msg
  BY DEF ReadState, Msg
<1>2. /\ queued \in Seq(ServerMessages) /\ in \in Seq(ServerMessages)
      /\ queued \in Seq(States)
      /\ Ordered(mode, state, queued \o in)
      /\ srv.at = "game" => EndsWith(mode, state, queued \o in, srv.view)
  BY WayParts
<1>3. ScreenShape /\ LobbyShape /\ LoginShape /\ NetShape
  BY DEF PageInv, Shape
<1>4. /\ NetShape' /\ UNCHANGED srv /\ net'.in = Tail(in)
      /\ net'.ws = net.ws /\ net'.for = net.for
  BY <1>1, <1>3, ReadNet
<1>5. net.ws = "open" /\ mode # "local"
  BY <1>1 DEF PageInv, Connected, OnlyOpenCarries, ScreenMatchesConnection
<1>6. m \in States /\ HasView(m) /\ m.type # "start"
  <2>1. m \in ServerMessages
    BY <1>1, <1>2, HeadTailProperties
  <2> QED
    BY <1>1, <2>1, MessageKinds DEF HasView, IsState
<1>7. mode = "menu" => queued = <<>>
  BY DEF PageInv, Connected, MenuIsBlank
<1>8. MustWait(Msg) <=> ui.anim \/ queued # <<>>
  BY <1>1 DEF MustWait
<1>9. IF MustWait(Msg)
      THEN ui' = [ui EXCEPT !.queued = Append(@, Msg)] /\ UNCHANGED state
      ELSE Shown(Msg, ui.queued)
  BY DEF ReadState
<1>10. MustWait(Msg) => ui'.queued = Append(queued, m)
  BY <1>1, <1>3, <1>9 DEF ScreenShape
<1>11. OnTheWay' = ui'.queued \o Tail(in)
  BY <1>4 DEF OnTheWay
<1>12. ui'.queued = IF MustWait(Msg) THEN Append(queued, m) ELSE queued
  <2>1. CASE MustWait(Msg)
    BY <2>1, <1>10
  <2>2. CASE ~MustWait(Msg)
    BY <2>2, <1>3, <1>9 DEF Shown, ScreenShape
  <2> QED
    BY <2>1, <2>2
<1>13. ~MustWait(Msg) => state' = m.view
  BY <1>1, <1>9 DEF Shown
<1> HIDE DEF queued, in
<1>14. in \o <<>> = in /\ <<>> \o in = in /\ <<>> \in Seq(ServerMessages)
  BY <1>2, ConcatEmptySeq
<1>15. queued = <<>> => IF mode = "menu" THEN m.type = "start" ELSE Follows(state, m)
  BY <1>1, <1>2, <1>6, <1>14, FirstFits
<1>16. mode # "menu"
  BY <1>6, <1>7, <1>15
<1>17. OnServer
  BY <1>3, <1>5, <1>16 DEF ScreenShape, OnServer
<1>18. CASE MustWait(Msg)
  <2>1. Append(queued, m) \o Tail(in) = queued \o in
    BY <1>1, <1>2, WaitIsOnTheWay
  <2>2. UNCHANGED <<state, mode, lobby, login, srv>>
    BY <1>1, <1>4, <1>9, <1>18
  <2>3. InOrder'
    BY <1>2, <1>11, <1>12, <1>18, <2>1, <2>2 DEF InOrder
  <2>4. /\ ScreenShape' /\ ui'.timer = ui.timer /\ ui'.overlay = ui.overlay
        /\ ui'.netMode = ui.netMode
    <3>1. Append(queued, m) \in Seq(States)
      BY <1>2, <1>6, AppendProperties
    <3>2. ui' = [ui EXCEPT !.queued = Append(queued, m)]
      BY <1>1, <1>9, <1>18 DEF queued
    <3> QED
      BY <1>3, <2>2, <3>1, <3>2 DEF ScreenShape, OnServer
  <2>5. Shape'
    BY <1>3, <1>4, <2>2, <2>4 DEF Shape, LobbyShape, LoginShape
  <2>6. Menu'
    BY <1>4, <1>5, <1>16, <2>2, <2>4 DEF Menu, PageInv, Connected, OnlyOpenCarries, LoginInMenu,
       MenuWaits, MenuIsBlank, ScreenMatchesConnection, Waiting
  <2>7. Verdicts'
    BY <2>2, <2>4 DEF Verdicts, PageInv, VerdictDue, VerdictFitsGame, Finished
  <2> QED
    BY <2>3, <2>5, <2>6, <2>7 DEF PageInv, Menu, Verdicts, Connected
<1>19. CASE ~MustWait(Msg)
  <2>1. queued = <<>> /\ Shown(m, queued) /\ state' = m.view /\ ui'.queued = <<>>
    <3>1. queued = <<>>
      BY <1>8, <1>19
    <3>2. Shown(m, queued)
      BY <1>1, <1>9, <1>19 DEF queued
    <3> QED
      BY <3>1, <3>2, <1>12, <1>13, <1>19
  <2>2. Follows(state, m)
    BY <1>15, <1>16, <2>1
  <2>3. /\ Ordered(mode, m.view, Tail(in))
        /\ srv.at = "game" => EndsWith(mode, m.view, Tail(in), srv.view)
    BY <1>1, <1>2, <1>6, <1>16, ReadPast
  <2>4. OnTheWay' = Tail(in)
    <3>1. Tail(in) \in Seq(ServerMessages)
      BY <1>1, <1>2, HeadTailProperties
    <3> QED
      BY <3>1, <1>11, <2>1, ConcatEmptySeq
  <2>5. InOrder'
    BY <1>1, <1>4, <2>1, <2>3, <2>4 DEF InOrder
  <2>6. queued \in Seq(States) /\ m \in States /\ UNCHANGED <<mode, lobby, login, srv>>
    BY <1>1, <1>2, <1>4, <1>6
  <2> HIDE DEF m
  <2> QED
    BY <1>4, <1>5, <1>17, <2>1, <2>2, <2>5, <2>6, ShownKeeps
<1> QED
  BY <1>18, <1>19

\* A start makes void what waits, and is read in the mode that was asked for.
LEMMA ReadStartStep ==
    ASSUME PageInv, ReadStart
    PROVE  PageInv'
<1> DEFINE queued == ui.queued
           in == net.in
<1>1. /\ Read /\ in # <<>> /\ Msg.type = "start" /\ Msg = Head(in)
      /\ lobby' = NoLobby /\ mode' = ui.netMode /\ state' = Msg.view /\ UNCHANGED login
  BY DEF ReadStart, Arrives, Msg
<1>2. /\ queued \in Seq(ServerMessages) /\ in \in Seq(ServerMessages)
      /\ Ordered(mode, state, queued \o in)
      /\ srv.at = "game" => EndsWith(mode, state, queued \o in, srv.view)
  BY WayParts
<1>3. ScreenShape /\ LobbyShape /\ LoginShape /\ NetShape
  BY DEF PageInv, Shape
<1>4. /\ NetShape' /\ UNCHANGED srv /\ net'.in = Tail(in)
      /\ net'.ws = net.ws /\ net'.for = net.for
  BY <1>1, <1>3, ReadNet
<1>5. net.ws = "open" /\ login.modal = "closed"
  BY <1>1 DEF PageInv, Connected, OnlyOpenCarries, ScreenMatchesConnection, LoginInMenu
<1>6. Msg.view \in Views /\ HasView(Msg)
  <2>1. Msg \in ServerMessages
    BY <1>1, <1>2, HeadTailProperties
  <2> QED
    BY <1>1, <2>1, MessageKinds DEF HasView
<1>7. mode' \in {"ai", "online"}
  BY <1>1, <1>3 DEF ScreenShape
<1>8. /\ ScreenShape' /\ ui'.queued = <<>> /\ ui'.timer = NoTimer
      /\ ui'.overlay.kind = "none"
  <2>1. ui' = [ui EXCEPT !.busy = FALSE, !.anim = FALSE, !.queued = <<>>, !.timer = NoTimer,
                         !.overlay = NoOverlay, !.history = <<>>, !.asked = FALSE]
    BY <1>3 DEF ReadStart, FreshScreen, ScreenShape
  <2>2. <<>> \in Seq(States)
    OBVIOUS
  <2>3. state' \in Views
    BY <1>1, <1>6
  <2> QED
    BY <1>3, <1>7, <2>1, <2>2, <2>3 DEF ScreenShape, NoOverlay, Overlay
<1>9. OnTheWay' = <<>> \o Tail(in)
  BY <1>4, <1>8 DEF OnTheWay
<1>10. LobbyShape' /\ LoginShape'
  BY <1>1, <1>3, NobodyWaits DEF LobbyShape, LoginShape
<1> HIDE DEF queued, in
<1>11. /\ Ordered(mode', Msg.view, Tail(in))
       /\ srv.at = "game" => EndsWith(mode', Msg.view, Tail(in), srv.view)
  <2>1. mode' # "menu" /\ HasView(Head(in)) /\ Msg.view = Head(in).view
    BY <1>1, <1>6, <1>7
  <2> QED
    BY <1>1, <1>2, <2>1, ReadPast
<1>12. OnTheWay' = Tail(in)
  <2>1. Tail(in) \in Seq(ServerMessages)
    BY <1>1, <1>2, HeadTailProperties
  <2> QED
    BY <2>1, <1>9, ConcatEmptySeq
<1>13. InOrder'
  BY <1>1, <1>4, <1>11, <1>12 DEF InOrder
<1>14. Menu'
  BY <1>1, <1>4, <1>5, <1>7, <1>8 DEF Menu, OnlyOpenCarries, LoginInMenu, MenuWaits,
     MenuIsBlank, ScreenMatchesConnection
<1>15. Verdicts'
  BY <1>8 DEF Verdicts, VerdictDue, VerdictFitsGame
<1> QED
  BY <1>4, <1>8, <1>10, <1>13, <1>14, <1>15 DEF PageInv, Shape, Menu, Verdicts, Connected
-----------------------------------------------------------------------------
(* The invariant, and what it shows. *)

\* A step of the server leaves the page as it is.
LEMMA ServerKeepsPage ==
    ASSUME PageInv, Service \/ Opponent
    PROVE  PageInv' /\ UNCHANGED <<state, mode, ui, lobby>>
<1>1. /\ Shape' /\ InOrder' /\ UNCHANGED <<state, mode, ui, lobby, login>>
      /\ net.ws = "open" /\ net'.ws = "open"
  BY ServerSteps, ServerKeeps DEF PageInv
<1>2. Menu'
  BY <1>1 DEF Menu, PageInv, Connected, OnlyOpenCarries, LoginInMenu, MenuWaits, MenuIsBlank,
     ScreenMatchesConnection, Waiting
<1>3. Verdicts'
  BY <1>1 DEF Verdicts, PageInv, VerdictDue, VerdictFitsGame, Finished
<1> QED
  BY <1>1, <1>2, <1>3 DEF PageInv, Menu, Verdicts, Connected

\* Every step keeps the invariant.
LEMMA PageInvKept ==
    PageInv /\ [AppNext]_appVars => PageInv'
<1> SUFFICES ASSUME PageInv, [AppNext]_appVars
             PROVE  PageInv'
  OBVIOUS
<1>1. CASE User
  BY <1>1, MenuSteps, ClickSteps, LocalSteps, BackStep DEF User
<1>2. CASE Page
  BY <1>2, ClickSteps, VerdictStep, ShowQueuedStep DEF Page
<1>3. CASE Messages
  BY <1>3, ReadStateStep, ReadStartStep, ReadSteps DEF Messages
<1>4. CASE Service \/ Opponent
  BY <1>4, ServerKeepsPage
<1>5. CASE Opened \/ Lost \/ LoginSucceeds \/ LoginFails
  BY <1>5, OpenedStep, LostStep, MenuSteps
<1>6. CASE UNCHANGED appVars
  <2>1. UNCHANGED <<state, mode, ui, lobby, login, net, srv>>
    BY <1>6 DEF appVars, connection
  <2>2. Shape'
    BY <2>1 DEF PageInv, Shape, ScreenShape, LobbyShape, LoginShape, NetShape, OnServer
  <2>3. InOrder'
    BY <2>1, QuietKeepsOrder DEF PageInv
  <2>4. Menu'
    BY <2>1 DEF Menu, PageInv, Connected, OnlyOpenCarries, LoginInMenu, MenuWaits,
       MenuIsBlank, ScreenMatchesConnection, Waiting
  <2>5. Verdicts'
    BY <2>1 DEF Verdicts, PageInv, VerdictDue, VerdictFitsGame, Finished
  <2> QED
    BY <2>2, <2>3, <2>4, <2>5 DEF PageInv, Menu, Verdicts, Connected
<1> QED
  BY <1>1, <1>2, <1>3, <1>4, <1>5, <1>6 DEF AppNext

\* The page begins with an empty screen in the menu, and without a connection.
LEMMA PageInvInit ==
    AppInit => PageInv
<1> SUFFICES ASSUME AppInit
             PROVE  PageInv
  OBVIOUS
<1>1. <<>> \in Seq(States) /\ <<>> \in Seq(ServerMessages) /\ <<>> \in Seq(Commands)
  OBVIOUS
<1>2. Away \in Sessions /\ Away.at # "game"
  BY OtherSessions
<1>3. /\ mode = "menu" /\ ui = BlankScreen /\ lobby = NoLobby /\ net = NoNet /\ srv = Away
      /\ login = [modal |-> "closed", submit |-> FALSE]
  BY DEF AppInit
<1>4. ScreenShape
  BY <1>1, <1>3 DEF ScreenShape, OnServer, BlankScreen, Online!Seats
<1>5. LobbyShape /\ lobby.action = NoAction
  BY <1>3, NobodyWaits DEF LobbyShape
<1>6. LoginShape /\ NetShape /\ net.in = <<>> /\ net.ws = "none"
  BY <1>1, <1>2, <1>3 DEF LoginShape, NetShape, NoNet
<1>7. ui.queued = <<>> /\ ui.timer = NoTimer /\ ui.overlay.kind = "none"
  BY <1>3 DEF BlankScreen, NoOverlay, Overlay
<1>8. InOrder
  <2>1. OnTheWay = <<>>
    BY <1>6, <1>7, ConcatEmptySeq DEF OnTheWay
  <2>2. Ordered(mode, state, <<>>)
    BY DEF Ordered
  <2> QED
    BY <2>1, <2>2, <1>2, <1>3 DEF InOrder
<1>9. Menu
  BY <1>3, <1>5, <1>6, <1>7 DEF Menu, OnlyOpenCarries, LoginInMenu, MenuWaits, MenuIsBlank,
     ScreenMatchesConnection, Waiting
<1>10. Verdicts
  BY <1>7 DEF Verdicts, VerdictDue, VerdictFitsGame
<1> QED
  BY <1>4, <1>5, <1>6, <1>8, <1>9, <1>10 DEF PageInv, Shape, Menu, Verdicts, Connected

\* The inductive invariant of the page: the values its fields have, what each screen has
\* to do with the connection, the order of the messages, and where a verdict comes from.
THEOREM PageInvariant == AppSpec => []PageInv
<1>1. AppInit => PageInv
  BY PageInvInit
<1>2. PageInv /\ [AppNext]_appVars => PageInv'
  BY PageInvKept
<1> QED
  BY <1>1, <1>2, PTL DEF AppSpec

\* The screen never claims a connection that is not there, nor a loss that was none:
\* whatever is clicked, cancelled or answered late in app.ts and auth.ts.
THEOREM ScreenTellsTheTruth == AppSpec => []ScreenMatchesConnection
<1>1. PageInv => ScreenMatchesConnection
  BY DEF PageInv
<1> QED
  BY <1>1, PageInvariant, PTL

\* A verdict on the screen is that of the finished game below it, however its timer met
\* with a rematch, a move taken back or a way out.
THEOREM VerdictsFitGames == AppSpec => []VerdictFitsGame
<1>1. PageInv => VerdictFitsGame
  BY DEF PageInv
<1> QED
  BY <1>1, PageInvariant, PTL

\* Animations and the queue behind them, the buffer of the connection and its loss never
\* reorder, repeat or skip what the server says: what is on the screen, then what waits,
\* then what is on its way is one game without a gap, up to what the server knows.
THEOREM ScreenFollowsServer == AppSpec => []StatesInOrder
<1>1. PageInv => StatesInOrder
  <2> SUFFICES ASSUME PageInv, OnServer
               PROVE  LET way == OnTheWay
                      IN  /\ \A k \in 1..Len(way), j \in 0..Len(way) :
                                HasView(way[k]) /\ Latest(way, k - 1, j) =>
                                    Follows(ViewAt(state, way, j), way[k])
                          /\ srv.at = "game" =>
                                \A j \in 0..Len(way) :
                                    Latest(way, Len(way), j) => ViewAt(state, way, j) = srv.view
    BY DEF StatesInOrder
  <2>1. mode # "menu"
    BY DEF OnServer
  <2>2. InOrder
    BY DEF PageInv
  <2> QED
    BY <2>1, <2>2 DEF InOrder, Ordered, EndsWith, Succeeds
<1> QED
  BY <1>1, PageInvariant, PTL

\* Whoever cancelled the waiting screen, or never asked, is never taken into a game on the
\* server, and whoever asked for the computer plays against it, although the start of the
\* game may come at any time after the request.
THEOREM GamesAreAskedFor == AppSpec => StartsAreAskedFor
<1> DEFINE Asks == mode = "menu" /\ mode' \in {"ai", "online"}
                      => Waiting /\ (mode' = "ai" <=> lobby.action = "ai")
<1>1. PageInv /\ [AppNext]_appVars => [Asks]_appVars
  <2> SUFFICES ASSUME PageInv, AppNext, mode = "menu", mode' \in {"ai", "online"}
               PROVE  Waiting /\ (mode' = "ai" <=> lobby.action = "ai")
    OBVIOUS
  <2>1. mode' # mode /\ mode' # "local" /\ mode' # "menu"
    OBVIOUS
  <2>2. ReadStart
    <3>1. ~User
      BY <2>1 DEF User, StartNet, AskLogin, OpenLogin, SubmitLogin, CancelLogin, Logout,
         ClickCancel, ClickLobby, StartLocal, PlayLocal, Undo, PlayOnline, ClickResign,
         AskRematch, ClickExit, Stay, BackToMenu
    <3>2. ~Page
      BY <2>1 DEF Page, AnimationEnds, ShowVerdict, ShowQueued
    <3>3. ~(Service \/ Opponent)
      BY <2>1, ServerKeepsPage
    <3>4. ~(Opened \/ Lost \/ LoginSucceeds \/ LoginFails)
      BY <2>1 DEF Opened, Lost, LoginSucceeds, LoginFails
    <3>5. Messages
      BY <3>1, <3>2, <3>3, <3>4 DEF AppNext
    <3> QED
      BY <3>5, <2>1 DEF Messages, ReadState, ReadRoom, ReadWaiting, ReadLobby,
         ReadOpponentLeft, ReadRematchAsk, ReadError
  <2>3. net.in # <<>> /\ mode' = ui.netMode
    BY <2>2 DEF ReadStart, Arrives
  <2>4. net.ws = "open"
    BY <2>3 DEF PageInv, Connected, OnlyOpenCarries
  <2> QED
    BY <2>3, <2>4 DEF PageInv, ScreenMatchesConnection, Connected, MenuWaits
<1>2. PageInv /\ [AppNext]_appVars =>
         [mode = "menu" /\ mode' \in {"ai", "online"} =>
             Waiting /\ (mode' = "ai" <=> lobby.action = "ai")]_appVars
  BY <1>1
<1> HIDE DEF Asks
<1> QED
  BY <1>2, PageInvariant, PTL DEF AppSpec, StartsAreAskedFor
-----------------------------------------------------------------------------
(* A game at one screen keeps the rules of the server. *)

\* The games at one screen, and the invariant that the one on the screen is one of them,
\* and so is every state that can be taken back.
LocalGames == {s \in GameState : Local(s)}
LocalInv == mode = "local" => state \in LocalGames /\ ui.history \in Seq(LocalGames)

\* Nothing but the deal, the moves and the moves taken back changes such a game: no
\* message, answer or timer of another screen comes into it.
LEMMA OnlyLocalSteps ==
    ASSUME PageInv, [AppNext]_appVars, mode' = "local"
    PROVE  \/ StartLocal \/ PlayLocal \/ Undo
           \/ mode = "local" /\ state' = state /\ ui'.history = ui.history
<1> SUFFICES ASSUME ~StartLocal, ~PlayLocal, ~Undo
             PROVE  mode = "local" /\ state' = state /\ ui'.history = ui.history
  OBVIOUS
<1>1. ui.netMode \in {"ai", "online"}
  BY DEF PageInv, Shape, ScreenShape
<1>2. mode = "local" => net.ws = "none" /\ net.in = <<>> /\ ui.queued = <<>>
  BY DEF PageInv, ScreenMatchesConnection, Connected, OnlyOpenCarries, MenuIsBlank
<1>3. CASE User
  <2>1. CASE \/ \E action \in Actions : StartNet(action) \/ AskLogin(action)
             \/ OpenLogin \/ SubmitLogin \/ CancelLogin \/ Logout \/ ClickCancel \/ ClickLobby
    BY <2>1 DEF StartNet, AskLogin, OpenLogin, SubmitLogin, CancelLogin, Logout, ClickCancel,
       ClickLobby
  <2>2. CASE PlayOnline \/ ClickResign \/ AskRematch
    BY <2>2 DEF PlayOnline, ClickResign, AskRematch, OnServer
  <2>3. CASE ClickExit \/ Stay
    <3>1. UNCHANGED <<mode, state>>
      BY <2>3 DEF ClickExit, Stay
    <3>2. ui'.history = ui.history
      BY <2>3 DEF ClickExit, Stay, PageInv, Shape, ScreenShape
    <3> QED
      BY <3>1, <3>2
  <2>4. CASE BackToMenu
    BY <2>4 DEF BackToMenu
  <2> QED
    BY <1>3, <2>1, <2>2, <2>3, <2>4 DEF User
<1>4. CASE Page
  <2>1. CASE AnimationEnds \/ ShowVerdict
    <3>1. UNCHANGED <<mode, state>>
      BY <2>1 DEF AnimationEnds, ShowVerdict
    <3>2. ui'.history = ui.history
      BY <2>1 DEF AnimationEnds, ShowVerdict, PageInv, Shape, ScreenShape
    <3> QED
      BY <3>1, <3>2
  <2>2. CASE ShowQueued
    BY <2>2, <1>2 DEF ShowQueued
  <2> QED
    BY <1>4, <2>1, <2>2 DEF Page
<1>5. CASE Messages
  <2>1. net.in # <<>>
    BY <1>5 DEF Messages, ReadState, ReadRoom, ReadWaiting, ReadLobby, ReadStart,
       ReadOpponentLeft, ReadRematchAsk, ReadError, Arrives
  <2>2. mode # "local"
    BY <2>1, <1>2
  <2>3. CASE ReadStart
    BY <2>3, <1>1 DEF ReadStart
  <2> QED
    BY <1>5, <2>2, <2>3 DEF Messages, ReadState, ReadRoom, ReadWaiting, ReadLobby,
       ReadOpponentLeft, ReadRematchAsk, ReadError
<1>6. CASE Service \/ Opponent
  BY <1>6, ServerKeepsPage
<1>7. CASE Opened \/ Lost
  <2>1. net.ws # "none" /\ UNCHANGED mode
    BY <1>7 DEF Opened, Lost
  <2> QED
    BY <2>1, <1>2
<1>8. CASE LoginSucceeds \/ LoginFails
  BY <1>8 DEF LoginSucceeds, LoginFails
<1>9. CASE UNCHANGED appVars
  BY <1>9 DEF appVars
<1> QED
  BY <1>3, <1>4, <1>5, <1>6, <1>7, <1>8, <1>9 DEF AppNext

\* What the steps of such a game are, and that they keep the invariant.
LEMMA LocalInvKept ==
    ASSUME PageInv, LocalInv, [AppNext]_appVars
    PROVE  /\ LocalInv'
           /\ mode' = "local" /\ state' # state =>
                 \/ (mode = "menu" \/ ui.overlay.kind = "over") /\ Server!Init'
                 \/ Undo
                 \/ ServerPly
<1> SUFFICES ASSUME mode' = "local"
             PROVE  /\ state' \in LocalGames /\ ui'.history \in Seq(LocalGames)
                    /\ state' # state =>
                          \/ (mode = "menu" \/ ui.overlay.kind = "over") /\ Server!Init'
                          \/ Undo
                          \/ ServerPly
  BY DEF LocalInv
<1>1. mode = "local" => state \in LocalGames /\ ui.history \in Seq(LocalGames)
  BY DEF LocalInv
<1>2. CASE StartLocal
  <2>1. PICK fish \in Boards : state' = createGame(fish)
    BY <1>2 DEF StartLocal
  <2>2. Local(state') /\ AsServer(state') = Server!NewGame(fish)
    BY <2>1, DealAgrees
  <2>3. Server!Init'
    <3>1. AsServer(state)' = AsServer(state')
      BY DEF AsServer
    <3> QED
      BY <2>2, <3>1 DEF Server!Init
  <2>4. ui'.history = <<>>
    BY <1>2 DEF StartLocal, FreshScreen, PageInv, Shape, ScreenShape
  <2>5. mode = "menu" \/ ui.overlay.kind = "over"
    BY <1>2 DEF StartLocal, InMenu
  <2>6. state' \in LocalGames
    BY <2>2 DEF LocalGames, Local, Fits
  <2>7. <<>> \in Seq(LocalGames)
    OBVIOUS
  <2> QED
    BY <2>3, <2>4, <2>5, <2>6, <2>7
<1>3. CASE PlayLocal
  <2>1. mode = "local" /\ Next /\ ui'.history = Lately(Append(ui.history, state))
    BY <1>3 DEF PlayLocal, PageInv, Shape, ScreenShape
  <2>2. Local(state)
    BY <1>1, <2>1 DEF LocalGames
  <2>3. Local(state') /\ ServerPly
    BY <2>1, <2>2, StepAgrees DEF ServerPly
  <2>4. state' \in LocalGames
    BY <2>3 DEF LocalGames, Local, Fits
  <2>5. Append(ui.history, state) \in Seq(LocalGames) /\ Append(ui.history, state) # <<>>
    BY <1>1, <2>1
  <2>6. Lately(Append(ui.history, state)) \in Seq(LocalGames)
    BY <2>5 DEF Lately
  <2> QED
    BY <2>1, <2>3, <2>4, <2>6
<1>4. CASE Undo
  <2>1. /\ mode = "local" /\ ui.history # <<>> /\ state' = ui.history[Len(ui.history)]
        /\ ui'.history = SubSeq(ui.history, 1, Len(ui.history) - 1)
    BY <1>4 DEF Undo, PageInv, Shape, ScreenShape
  <2>2. ui.history \in Seq(LocalGames)
    BY <1>1, <2>1
  <2>3. Len(ui.history) \in 1..Len(ui.history)
    BY <2>1, <2>2
  <2>4. state' \in LocalGames
    BY <2>1, <2>2, <2>3
  <2>5. SubSeq(ui.history, 1, Len(ui.history) - 1) \in Seq(LocalGames)
    BY <2>2, <2>3
  <2> QED
    BY <1>4, <2>1, <2>4, <2>5
<1>5. CASE mode = "local" /\ state' = state /\ ui'.history = ui.history
  BY <1>1, <1>5
<1> QED
  BY <1>2, <1>3, <1>4, <1>5, OnlyLocalSteps

\* Every state of a game at one screen is one the browser plays, also the states that are
\* kept to be taken back.
THEOREM LocalInvariant == AppSpec => []LocalInv
<1>1. AppInit => LocalInv
  BY DEF AppInit, LocalInv
<1>2. PageInv /\ LocalInv /\ [AppNext]_appVars => LocalInv'
  BY LocalInvKept
<1> QED
  BY <1>1, <1>2, PageInvariant, PTL DEF AppSpec

\* The browser offers its player the moves the server's rules allow, and no others, in
\* every state of a game at one screen (legalMovesFrom against LegalMovesFrom).
THEOREM OffersAreLegal == AppSpec => []OffersServerMoves
<1>1. LocalInv => OffersServerMoves
  <2> SUFFICES ASSUME LocalInv, mode = "local", NEW p \in Players
               PROVE  Offered(state, p) = Rules!AllMoves(AsServer(state), p)
    BY DEF OffersServerMoves
  <2>1. state \in GameState
    BY DEF LocalInv, LocalGames
  <2> QED
    BY <2>1, OffersAgree
<1> QED
  BY <1>1, LocalInvariant, PTL

\* The browser plays by the rules of the Go engine, as game.ts:1 promises: every deal, and
\* every move, also after moves taken back, is a step of the server's rules, although the
\* browser changes its board tile by tile and slot by slot.
THEOREM BrowserKeepsTheRules == AppSpec => ImplementsServerRules
<1>1. PageInv /\ LocalInv /\ [AppNext]_appVars =>
         [mode' = "local" /\ state' # state =>
             \/ (mode = "menu" \/ ui.overlay.kind = "over") /\ Server!Init'
             \/ Undo
             \/ ServerPly]_appVars
  BY LocalInvKept
<1> QED
  BY <1>1, PageInvariant, LocalInvariant, PTL DEF AppSpec, ImplementsServerRules
===============================================================================
