-------------------------------- MODULE App --------------------------------
(***************************************************************************)
(* The browser: the screens of src/frontend/src/ui/app.ts, its connection  *)
(* (net/client.ts) and the login dialog (ui/auth.ts).                      *)
(*                                                                         *)
(* The page runs one callback at a time; between callbacks anything may    *)
(* happen: messages arrive, the socket closes, an animation ends, a timer  *)
(* fires, a login is answered, the user clicks.  A game at one screen is   *)
(* played with the rules of BrowserGame.  In a game on the server `state`  *)
(* holds what TurnGame keeps of a GameState, and the server is reduced to  *)
(* the session of this one connection, with an opponent who may do all     *)
(* that Room and Matchmaking let him do.                                   *)
(*                                                                         *)
(* Whether somebody is logged in is left open: every start may or may not  *)
(* ask for a login first, and both buttons of the user bar can be used.    *)
(***************************************************************************)
EXTENDS BrowserGame, Sequences

CONSTANTS MaxPlies,     \* bound on the plies of a game on the server
          Buffer,       \* messages that wait for the browser, 64 in the code
          MaxSent,      \* bound on the commands on their way to the server
          MaxUndo       \* bound on the moves that can be taken back

VARIABLES
    mode,       \* which screen: menu, or the game in one of its three modes
    ui,         \* the fields of App that belong to the game screen
    lobby,      \* the fields of App that belong to the waiting screen
    login,      \* the login dialog, and whether a login is being answered
    net,        \* the connection, with the messages on their way both ways
    srv         \* what the server takes this connection for

connection == <<net, srv>>
appVars == <<state, mode, ui, lobby, login, connection>>

ASSUME AppBoundsAssumption ==
    MaxPlies \in Nat \ {0} /\ Buffer \in Nat \ {0} /\ MaxSent \in Nat \ {0} /\ MaxUndo \in Nat

Online == INSTANCE TurnGame WITH seen <- state

NoState == <<>>
NoAction == "none"
NoTimer == -3
Actions == {"ai", "create", "match", "join"}       \* NetAction
OnServer == mode \in {"ai", "online"}
Finished == IF mode = "local" THEN state.phase = "finished" ELSE state.over

Overlay(kind) == [kind |-> kind]
NoOverlay == Overlay("none")
Verdict(w) == [kind |-> "over", winner |-> w]

NoLobby == [action |-> NoAction, room |-> FALSE, guest |-> FALSE, ready |-> FALSE,
            pending |-> FALSE]
Waiting == lobby.action # NoAction

\* for: the action startNet has yet to send when the socket opens.
NoNet == [ws |-> "none", for |-> NoAction, in |-> <<>>, out |-> <<>>]

Away == [at |-> "away"]
Unseated == [at |-> "idle"]
Queued == [at |-> "waiting"]
HungUp == [at |-> "closed"]        \* the server has closed the connection
InLobby(you, guest, ready) == [at |-> "lobby", you |-> you, guest |-> guest, ready |-> ready]
InGame(ai, you, view, votes) ==
    [at |-> "game", ai |-> ai, you |-> you, view |-> view, votes |-> votes]

Room(you) == [type |-> "room", you |-> you]
Lobby(guest, ready) == [type |-> "lobby", guest |-> guest, ready |-> ready]
Start == [type |-> "start", view |-> Online!NewView]
State(view, last) == [type |-> IF view.over THEN "over" ELSE "state", view |-> view, last |-> last]
Message(type) == [type |-> type]
Error(code) == [type |-> "error", code |-> code]

BlankScreen ==
    [seat |-> 0, netMode |-> "online", busy |-> FALSE, asked |-> FALSE, anim |-> FALSE,
     queued |-> <<>>, timer |-> NoTimer, overlay |-> NoOverlay, history |-> <<>>]

AppInit ==
    /\ state = NoState /\ mode = "menu"
    /\ ui = BlankScreen
    /\ lobby = NoLobby
    /\ login = [modal |-> "closed", submit |-> FALSE]
    /\ net = NoNet /\ srv = Away

-----------------------------------------------------------------------------
(* The connection. *)

\* NetClient.close.  The socket that is given up is forgotten: this.ws is another one when
\* its events come, and the server cleans up after it (Room, Matchmaking).
CloseNet == net' = NoNet /\ srv' = Away

\* NetClient.send: a closed socket takes nothing.
Send(command) ==
    /\ net' = IF net.ws = "open" THEN [net EXCEPT !.out = Append(@, command)] ELSE net
    /\ UNCHANGED srv

CanSend == Len(net.out) < MaxSent

CancelWaiting == lobby' = NoLobby /\ CloseNet

\* startNet up to its connect(), which closes what is left of a connection.  (In the
\* menu none is ever open, see ScreenMatchesConnection: startNet need not reuse it.)
Connect(action) ==
    /\ lobby' = [NoLobby EXCEPT !.action = action]
    /\ net' = [NoNet EXCEPT !.ws = "connecting", !.for = action]
    /\ srv' = Away

\* onopen, and startNet goes on unless it was cancelled: set the mode, send the command.
Opened ==
    /\ net.ws = "connecting"
    /\ net' = [NoNet EXCEPT !.ws = "open",
                            !.out = IF net.for = NoAction THEN <<>> ELSE <<Message(net.for)>>]
    /\ srv' = Unseated
    /\ ui' = [ui EXCEPT !.netMode = CASE net.for = NoAction -> @
                                      [] net.for = "ai" -> "ai"
                                      [] OTHER -> "online"]
    /\ UNCHANGED <<state, mode, lobby, login>>

\* onClose of bindNet.
ReportLoss ==
    IF mode = "menu" THEN lobby' = NoLobby /\ UNCHANGED ui
    ELSE /\ ui' = IF OnServer THEN [ui EXCEPT !.overlay = Overlay("offline")] ELSE ui
         /\ UNCHANGED lobby

\* onclose and onerror of the socket in use.
Lost ==
    /\ net.ws # "none"
    /\ net' = NoNet /\ srv' = Away
    /\ ReportLoss
    /\ UNCHANGED <<state, mode, login>>

-----------------------------------------------------------------------------
(* Menu, waiting screen and login. *)

InMenu == mode = "menu" /\ ~Waiting /\ login.modal = "closed"

StartNet(action) ==
    /\ InMenu
    /\ Connect(action)
    /\ UNCHANGED <<state, mode, ui, login>>

\* startNet waits for requestLogin.
AskLogin(action) ==
    /\ InMenu /\ action # "ai"
    /\ login' = [login EXCEPT !.modal = action]
    /\ UNCHANGED <<state, mode, ui, lobby, connection>>

\* Bound: not beside the waiting screen.  A login that is submitted here and cancelled
\* is answered there, or in the game.
OpenLogin ==
    /\ InMenu
    /\ login' = [login EXCEPT !.modal = "open"]
    /\ UNCHANGED <<state, mode, ui, lobby, connection>>

SubmitLogin ==
    /\ login.modal # "closed" /\ ~login.submit
    /\ login' = [login EXCEPT !.submit = TRUE]
    /\ UNCHANGED <<state, mode, ui, lobby, connection>>

\* The dialog is cancelled, also while a login is being answered.
CancelLogin ==
    /\ login.modal # "closed"
    /\ login' = [login EXCEPT !.modal = "closed"]
    /\ UNCHANGED <<state, mode, ui, lobby, connection>>

LoginFails ==
    /\ login.submit
    /\ login' = [login EXCEPT !.submit = FALSE]
    /\ UNCHANGED <<state, mode, ui, lobby, connection>>

\* Mutant of LoginSucceeds: the connection is closed under the waiting screen.
LoginSucceedsClosing ==
    /\ login.submit
    /\ login' = [modal |-> "closed", submit |-> FALSE]
    /\ IF login.modal \in Actions THEN Connect(login.modal) ELSE CloseNet /\ UNCHANGED lobby
    /\ UNCHANGED <<state, mode, ui>>

\* onAuthChange closes the connection in any case, then startNet goes on if it waited.
LoginSucceeds ==
    /\ login.submit
    /\ login' = [modal |-> "closed", submit |-> FALSE]
    /\ IF login.modal \in Actions THEN Connect(login.modal) ELSE CancelWaiting
    /\ UNCHANGED <<state, mode, ui>>

Logout ==
    /\ mode = "menu" /\ login.modal = "closed"
    /\ CancelWaiting
    /\ UNCHANGED <<state, mode, ui, login>>

\* Mutant of ClickCancel: only the request is given up, not the connection.
ClickCancelRequest ==
    /\ mode = "menu" /\ Waiting /\ login.modal = "closed"
    /\ lobby' = NoLobby
    /\ net' = [net EXCEPT !.for = NoAction]
    /\ UNCHANGED <<state, mode, ui, login, srv>>

\* The button of the waiting screen.
ClickCancel ==
    /\ mode = "menu" /\ Waiting /\ login.modal = "closed"
    /\ CancelWaiting
    /\ UNCHANGED <<state, mode, ui, login>>

\* start_game and ready: shown to the seat they belong to, one request at a time.
ClickLobby ==
    /\ mode = "menu" /\ lobby.room /\ login.modal = "closed"
    /\ ~lobby.pending /\ CanSend
    /\ \/ ui.seat = 0 /\ lobby.ready /\ Send(Message("start_game"))
       \/ ui.seat = 1 /\ lobby.guest /\ Send([type |-> "ready", ready |-> ~lobby.ready])
    /\ lobby' = [lobby EXCEPT !.pending = TRUE]
    /\ UNCHANGED <<state, mode, ui, login>>

-----------------------------------------------------------------------------
(* A game at one screen. *)

\* Mutant of FreshScreen: the overlay of the last game stays.
FreshScreenCovered ==
    [ui EXCEPT !.busy = FALSE, !.anim = FALSE, !.queued = <<>>, !.timer = NoTimer, !.history = <<>>]

\* enterGame, and what startLocal and the message start reset before it.
FreshScreen == [ui EXCEPT !.busy = FALSE, !.anim = FALSE, !.queued = <<>>, !.timer = NoTimer,
                          !.overlay = NoOverlay, !.history = <<>>]

\* Bound: what is left of a connection or a login has ended before; it finds nothing
\* to close in a game at one screen.
NetIsQuiet == ~login.submit

\* startLocal, from the menu or for another game.
StartLocal ==
    /\ \/ InMenu /\ NetIsQuiet
       \/ mode = "local" /\ ui.overlay.kind = "over"
    /\ mode' = "local"
    /\ \E fish \in Boards : state' = createGame(fish)
    /\ ui' = [FreshScreen EXCEPT !.seat = 0]
    /\ UNCHANGED <<lobby, login, connection>>

\* An overlay lies above the board and the buttons and takes all clicks.
Uncovered == mode # "menu" /\ ui.overlay = NoOverlay

CanClickBoard == Uncovered /\ ~ui.busy /\ ~ui.anim /\ ~Finished

Lately(h) == IF Len(h) > MaxUndo THEN Tail(h) ELSE h

\* commit in a local game.
PlayLocal ==
    /\ mode = "local" /\ CanClickBoard
    /\ Next
    /\ ui' = [ui EXCEPT !.history = Lately(Append(@, state)), !.anim = TRUE,
                        !.timer = IF state'.phase = "finished" THEN state'.winner ELSE @]
    /\ UNCHANGED <<mode, lobby, login, connection>>

Undo ==
    /\ mode = "local" /\ Uncovered /\ ui.history # <<>>
    /\ state' = ui.history[Len(ui.history)]
    /\ ui' = [ui EXCEPT !.history = SubSeq(@, 1, Len(@) - 1), !.anim = FALSE, !.timer = NoTimer,
                        !.overlay = NoOverlay]
    /\ UNCHANGED <<mode, lobby, login, connection>>

-----------------------------------------------------------------------------
(* A game on the server. *)

\* commit in a game on the server: a legal click, judged by the state on the screen.
PlayOnline ==
    /\ OnServer /\ CanClickBoard
    /\ state.turn = ui.seat
    /\ CanSend /\ Send(Message("move"))
    /\ ui' = [ui EXCEPT !.busy = TRUE]
    /\ UNCHANGED <<state, mode, lobby, login>>

ClickResign ==
    /\ OnServer /\ Uncovered
    /\ CanSend /\ Send(Message("resign"))
    /\ UNCHANGED <<state, mode, ui, lobby, login>>

\* askRematch, from the verdict or from the opponent's question.
AskRematch ==
    /\ OnServer /\ ui.overlay.kind \in {"over", "ask"}
    /\ CanSend /\ Send(Message("rematch"))
    /\ ui' = [ui EXCEPT !.asked = TRUE,
                        !.overlay = IF mode = "ai" THEN NoOverlay ELSE Overlay("waiting")]
    /\ UNCHANGED <<state, mode, lobby, login>>

\* btn-exit asks first while a game runs.
ClickExit ==
    /\ Uncovered /\ ~Finished
    /\ ui' = [ui EXCEPT !.overlay = Overlay("exit")]
    /\ UNCHANGED <<state, mode, lobby, login, connection>>

Stay ==
    /\ ui.overlay.kind = "exit"
    /\ ui' = [ui EXCEPT !.overlay = NoOverlay]
    /\ UNCHANGED <<state, mode, lobby, login, connection>>

\* backToMenu; every overlay offers it, and btn-exit when the game is over.  The fields
\* it leaves alone are set before they are used again; with the connection goes `leave`.
BackToMenu ==
    /\ mode # "menu"
    /\ ui.overlay # NoOverlay \/ Finished
    /\ mode' = "menu" /\ state' = NoState
    /\ ui' = BlankScreen
    /\ CancelWaiting
    /\ UNCHANGED login

\* The renderer finishes what it draws.
AnimationEnds ==
    /\ ui.anim
    /\ ui' = [ui EXCEPT !.anim = FALSE]
    /\ UNCHANGED <<state, mode, lobby, login, connection>>

\* Mutant of ShowVerdict: while something moves the timer is used up.
ShowVerdictOnce ==
    /\ ui.timer # NoTimer
    /\ ui' = [ui EXCEPT !.timer = NoTimer,
                        !.overlay = IF mode # "menu" /\ Finished /\ ~ui.anim
                                    THEN Verdict(ui.timer) ELSE @]
    /\ UNCHANGED <<state, mode, lobby, login, connection>>

\* scheduleGameOver: the timer is set again while something moves, and does nothing if
\* the state is not a finished one.
ShowVerdict ==
    /\ ui.timer # NoTimer /\ ~ui.anim
    /\ ui' = [ui EXCEPT !.timer = NoTimer,
                        !.overlay = IF mode # "menu" /\ Finished THEN Verdict(ui.timer) ELSE @]
    /\ UNCHANGED <<state, mode, lobby, login, connection>>

-----------------------------------------------------------------------------
(* handleServerMsg: the next message of the socket, or a state that waited. *)

Msg == Head(net.in)
Read == net' = [net EXCEPT !.in = Tail(@)] /\ UNCHANGED srv
Arrives(type) == net.in # <<>> /\ Msg.type = type

IsState(m) == m.type \in {"state", "over"}

\* Mutant of MustWait: states wait for the animation only, not for those before them.
MustWaitForAnimation(m) == IsState(m) /\ ui.anim

MustWait(m) == IsState(m) /\ (ui.anim \/ ui.queued # <<>>)

\* A state is shown: the move begins to run, and the end of a game has its timer.
Shown(m, rest) ==
    /\ state' = m.view
    /\ ui' = [ui EXCEPT !.busy = FALSE, !.queued = rest, !.anim = @ \/ m.last,
                        !.timer = IF m.type = "over" THEN m.view.winner ELSE @]

ReadState ==
    /\ net.in # <<>> /\ IsState(Msg)
    /\ Read
    /\ IF MustWait(Msg)
       THEN ui' = [ui EXCEPT !.queued = Append(@, Msg)] /\ UNCHANGED state
       ELSE Shown(Msg, ui.queued)
    /\ UNCHANGED <<mode, lobby, login>>

\* The loop of the page.
ShowQueued ==
    /\ ~ui.anim /\ ui.queued # <<>>
    /\ Shown(Head(ui.queued), Tail(ui.queued))
    /\ UNCHANGED <<mode, lobby, login, connection>>

ReadRoom ==
    /\ Arrives("room") /\ Read
    /\ ui' = [ui EXCEPT !.seat = Msg.you]
    /\ lobby' = [lobby EXCEPT !.room = @ \/ lobby.action \in {"create", "join"}]
    /\ UNCHANGED <<state, mode, login>>

\* Only a text.
ReadWaiting ==
    /\ Arrives("waiting") /\ Read
    /\ UNCHANGED <<state, mode, ui, lobby, login>>

ReadLobby ==
    /\ Arrives("lobby") /\ Read
    /\ lobby' = IF ~Waiting \/ ~lobby.room THEN lobby
                ELSE [lobby EXCEPT !.guest = Msg.guest, !.ready = Msg.ready, !.pending = FALSE]
    /\ UNCHANGED <<state, mode, ui, login>>

ReadStart ==
    /\ Arrives("start") /\ Read
    /\ lobby' = NoLobby
    /\ mode' = ui.netMode
    /\ state' = Msg.view
    /\ ui' = [FreshScreen EXCEPT !.asked = FALSE]
    /\ UNCHANGED login

ReadOpponentLeft ==
    /\ Arrives("opponent_left")
    /\ IF mode = "menu" THEN CancelWaiting /\ UNCHANGED ui
       ELSE /\ Read
            /\ ui' = [ui EXCEPT !.overlay = Overlay("left")]
            /\ UNCHANGED lobby
    /\ UNCHANGED <<state, mode, login>>

ReadRematchAsk ==
    /\ Arrives("rematch_ask") /\ Read
    /\ ui' = IF ui.asked THEN ui ELSE [ui EXCEPT !.overlay = Overlay("ask")]
    /\ UNCHANGED <<state, mode, lobby, login>>

\* In a room the request is refused; otherwise the wait is over, and one whose login
\* the server does not accept is asked for it again.
ReadError ==
    /\ Arrives("error")
    /\ ui' = [ui EXCEPT !.busy = FALSE]
    /\ IF mode # "menu" THEN Read /\ UNCHANGED <<lobby, login>>
       ELSE IF lobby.room /\ Msg.code \notin {"gone", "login"}
       THEN Read /\ lobby' = [lobby EXCEPT !.pending = FALSE] /\ UNCHANGED login
       ELSE /\ CancelWaiting
            /\ login' = IF Msg.code = "login" /\ Waiting
                        THEN [login EXCEPT !.modal = lobby.action] ELSE login
    /\ UNCHANGED <<state, mode>>

-----------------------------------------------------------------------------
(* The session of this connection on the server: handlers.go, match.go and  *)
(* moves.go as far as they answer it, and the opponent.                    *)

\* Mutant of Answer: what does not fit is dropped and the connection goes on.
AnswerLossy(out, messages, s) ==
    /\ srv' = s
    /\ net' = [net EXCEPT !.out = out,
                          !.in = IF Len(@ \o messages) <= Buffer THEN @ \o messages ELSE @]

\* writeRaw: a browser too slow to read is cut off, and what still waits may be lost.
Answer(out, messages, s) ==
    \/ /\ Len(net.in \o messages) <= Buffer
       /\ srv' = s
       /\ net' = [net EXCEPT !.out = out, !.in = @ \o messages]
    \/ /\ Len(net.in \o messages) > Buffer
       /\ srv' = HungUp
       /\ \E k \in 0..Len(net.in) :
             net' = [net EXCEPT !.out = <<>>, !.in = SubSeq(@, 1, k)]

PageUnchanged == UNCHANGED <<state, mode, ui, lobby, login>>

Asked(type) == /\ srv.at \notin {"away", "closed"}
               /\ net.out # <<>> /\ Head(net.out).type = type

Reply(messages, s) == Answer(Tail(net.out), messages, s) /\ PageUnchanged
Push(messages, s) == Answer(net.out, messages, s) /\ PageUnchanged

Playing == srv.at = "game" /\ ~srv.view.over

\* create_room, join_room, quick_match, play_ai.
ServeEntry ==
    /\ srv = Unseated
    /\ \/ Asked("create") /\ Reply(<<Room(0), Lobby(FALSE, FALSE)>>, InLobby(0, FALSE, FALSE))
       \/ Asked("join") /\ Reply(<<Room(1), Lobby(TRUE, FALSE)>>, InLobby(1, TRUE, FALSE))
       \/ Asked("match") /\ Reply(<<Message("waiting")>>, Queued)
       \/ Asked("match") /\ Reply(<<Room(0), Start>>, InGame(FALSE, 0, Online!NewView, {}))
       \/ Asked("ai") /\ Reply(<<Room(0), Start>>, InGame(TRUE, 0, Online!NewView, {}))

\* ready and start_game.
ServeLobby ==
    /\ srv.at = "lobby"
    /\ \/ /\ Asked("ready") /\ srv.you = 1
          /\ LET ready == Head(net.out).ready
             IN  Reply(<<Lobby(TRUE, ready)>>, InLobby(1, TRUE, ready))
       \/ /\ Asked("start_game") /\ srv.you = 0 /\ srv.ready
          /\ Reply(<<Start>>, InGame(FALSE, 0, Online!NewView, {}))

\* The view after a resignation.
Resigned(seat) == [srv.view EXCEPT !.over = TRUE, !.winner = 1 - seat]

\* Plies; whose turn it is when a game is over interests nobody.
Plies == {v \in Online!PlyOutcomes(srv.view) : v.over => v.turn = srv.view.turn}

\* place and move, resign.
ServePly ==
    /\ Playing
    /\ \/ /\ Asked("move") /\ srv.view.turn = srv.you
          /\ \E v \in Plies :
                Reply(<<State(v, TRUE)>>, [srv EXCEPT !.view = v])
       \/ /\ Asked("resign")
          /\ LET v == Resigned(srv.you) IN Reply(<<State(v, FALSE)>>, [srv EXCEPT !.view = v])

\* A vote for a rematch: a new game if it is the last one needed.
Vote(seat) ==
    IF srv.ai \/ srv.votes \cup {seat} = Online!Seats
    THEN [message |-> Start, srv |-> InGame(srv.ai, srv.you, Online!NewView, {})]
    ELSE [message |-> Message("rematch_ask"), srv |-> [srv EXCEPT !.votes = @ \cup {seat}]]

ServeRematch ==
    /\ Asked("rematch") /\ srv.at = "game" /\ srv.view.over
    /\ LET v == Vote(srv.you) IN Reply(<<v.message>>, v.srv)

\* A command that comes too late is refused, or passed over without an answer; any
\* handler may fail to get the lock of its room.
ServeRefusal ==
    /\ \E type \in Actions \cup {"ready", "start_game", "move", "resign", "rematch"} : Asked(type)
    /\ LET type == Head(net.out).type
       IN  \/ \E code \in {"gone", "login", "refused"} :
                /\ code = "login" => type \in {"create", "match", "join"}
                /\ code = "gone" => type \in {"join", "ready", "start_game", "move"}
                /\ Reply(<<Error(code)>>, srv)
          \/ /\ type = "resign" /\ ~Playing
             /\ Reply(<<>>, srv)
          \/ /\ type = "rematch" /\ srv.at # "game"
             /\ Reply(<<>>, srv)

\* What another user, or the computer, does in the room of this one.
Opponent ==
    \/ /\ srv = Queued
       /\ \E you \in Online!Seats :
             Push(<<Room(you), Start>>, InGame(FALSE, you, Online!NewView, {}))
    \/ /\ srv.at = "lobby" /\ srv.you = 0
       /\ \E guest, ready \in BOOLEAN :
             /\ <<guest, ready>> # <<srv.guest, srv.ready>>
             /\ ready => srv.guest /\ guest
             /\ Push(<<Lobby(guest, ready)>>, InLobby(0, guest, ready))
    \/ /\ srv.at = "lobby" /\ srv.you = 1 /\ srv.ready
       /\ Push(<<Start>>, InGame(FALSE, 1, Online!NewView, {}))
    \/ /\ Playing /\ srv.view.turn # srv.you
       /\ \E v \in Plies :
             Push(<<State(v, TRUE)>>, [srv EXCEPT !.view = v])
    \/ /\ Playing /\ ~srv.ai
       /\ LET v == Resigned(1 - srv.you) IN Push(<<State(v, FALSE)>>, [srv EXCEPT !.view = v])
    \/ /\ srv.at = "game" /\ ~srv.ai /\ srv.view.over /\ 1 - srv.you \notin srv.votes
       /\ LET v == Vote(1 - srv.you) IN Push(<<v.message>>, v.srv)
    \/ /\ (srv.at = "game" /\ ~srv.ai) \/ (srv.at = "lobby" /\ srv.you = 1)
       /\ Push(<<Message("opponent_left")>>, Unseated)

-----------------------------------------------------------------------------
User ==
    \/ \E action \in Actions : StartNet(action) \/ AskLogin(action)
    \/ OpenLogin \/ SubmitLogin \/ CancelLogin \/ Logout \/ ClickCancel \/ ClickLobby
    \/ StartLocal \/ PlayLocal \/ Undo
    \/ PlayOnline \/ ClickResign \/ AskRematch \/ ClickExit \/ Stay \/ BackToMenu

Page == AnimationEnds \/ ShowVerdict \/ ShowQueued

Messages ==
    \/ ReadState \/ ReadRoom \/ ReadWaiting \/ ReadLobby \/ ReadStart
    \/ ReadOpponentLeft \/ ReadRematchAsk \/ ReadError

Service == ServeEntry \/ ServeLobby \/ ServePly \/ ServeRematch \/ ServeRefusal

AppNext ==
    \/ User \/ Page \/ Messages \/ Service \/ Opponent
    \/ Opened \/ Lost \/ LoginSucceeds \/ LoginFails

AppSpec == AppInit /\ [][AppNext]_appVars

\* The page goes on drawing and reading, the server answers, and a connection that the
\* server has closed is reported; nothing is assumed of users.
AppFairSpec ==
    /\ AppSpec
    /\ WF_appVars(AnimationEnds) /\ WF_appVars(ShowVerdict) /\ WF_appVars(ShowQueued)
    /\ WF_appVars(Messages) /\ WF_appVars(Service)
    /\ WF_appVars(srv = HungUp /\ Lost)

-----------------------------------------------------------------------------
(* Properties. *)

\* A step of the server's rules with a move the browser lets its player make.
ServerPly ==
    IF state.phase = "placing"
    THEN \E c \in Cells : Open(state, c) /\ Server!Place(state.turn, c)
    ELSE \E from \in Cells : /\ state.tiles[from].owner = state.turn
                            /\ \E to \in legalMovesFrom(state, from) :
                                  Server!Slide(state.turn, from, to)

\* game.ts:1 promises the rules of the Go engine: a game in the browser is dealt as the
\* server deals it, and every move made in it, also after moves that were taken back, is
\* a move of the server's rules: board, slots, scores, turn and winner.
ImplementsServerRules ==
    [][mode' = "local" /\ state' # state =>
          \/ (mode = "menu" \/ ui.overlay.kind = "over") /\ Server!Init'
          \/ Undo
          \/ ServerPly]_appVars

\* The browser offers its player exactly the moves the server would accept.
OffersServerMoves ==
    mode = "local" /\ CanClickBoard =>
        \A p \in Players : Offered(state, p) = Rules!AllMoves(AsServer(state), p)

\* The messages on their way: those that wait in the page, then those in the connection.
OnTheWay == ui.queued \o net.in

HasView(m) == IsState(m) \/ m.type = "start"

\* Of the screen, which is place 0, and the first n messages, the last view is at place j.
Latest(way, n, j) ==
    /\ j \in 0..n
    /\ j # 0 => HasView(way[j])
    /\ \A i \in (j + 1)..n : ~HasView(way[i])

ViewAt(screen, way, j) == IF j = 0 THEN screen ELSE way[j].view

Follows(v, m) ==
    \/ m.type = "start"
    \/ IsState(m) /\ m.view.ply = v.ply + 1 /\ ~v.over
    \/ IsState(m) /\ m.view.ply = v.ply /\ ~v.over /\ m.view.over

\* What is on the screen, what waits behind an animation and what is on its way are one
\* game without a gap, in order, and it ends with what the server knows.
StatesInOrder ==
    OnServer /\ net.ws = "open" =>
        LET way == OnTheWay
        IN  /\ \A k \in 1..Len(way), j \in 0..Len(way) :
                  HasView(way[k]) /\ Latest(way, k - 1, j) =>
                      Follows(ViewAt(state, way, j), way[k])
            /\ srv.at = "game" =>
                  \A j \in 0..Len(way) :
                      Latest(way, Len(way), j) => ViewAt(state, way, j) = srv.view

\* A verdict is shown over the finished game it was given for.
VerdictFitsGame ==
    ui.overlay.kind = "over" =>
        mode # "menu" /\ Finished /\ ui.overlay.winner = state.winner

\* A game on the server only begins for one who is waiting for it, and in the mode that
\* was asked for; whoever cancelled is never taken into one.
StartsAreAskedFor ==
    [][mode = "menu" /\ mode' \in {"ai", "online"} =>
          Waiting /\ (mode' = "ai" <=> lobby.action = "ai")]_appVars

\* The screen tells the truth about the connection: without a wait or a game there is
\* none, the waiting screen has one, and a loss is only reported when it is lost.
ScreenMatchesConnection ==
    /\ mode = "menu" => (Waiting <=> net.ws # "none")
    /\ mode = "local" => net.ws = "none"
    /\ ui.overlay.kind = "offline" => net.ws = "none"

\* A login that was answered late has closed the connection of a running game.
Severed == OnServer /\ net.ws = "none"

\* A move is answered, and a game that ended on the server ends on the screen: the page
\* never waits for ever behind an animation, a queue or a timer.
ScreenCatchesUp ==
    /\ (OnServer /\ ui.busy) ~> (~ui.busy \/ ~OnServer \/ Severed)
    /\ (OnServer /\ srv.at = "game" /\ srv.view.over)
          ~> (~OnServer \/ Severed \/ ui.overlay.kind \in {"over", "ask", "waiting", "left"}
                \/ (srv.at = "game" /\ ~srv.view.over) \/ ui.asked)
=============================================================================
