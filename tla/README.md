# Verification of Penguins

Penguins is a board game for two: a Go server (`src/server`) keeps rooms in Redis and
results in MySQL, browsers (`src/frontend`) talk to it over WebSockets, and several
server instances share the same Redis. This directory holds TLA+ models of the parts
where order, concurrency or the rules themselves can go wrong, the TLC runs that check
them on small instances, and proofs: about the rules, on the server and in the browser, for
boards of every size, about rooms, matching and the end of games for any number of users,
instances and rooms, and about the page in the browser for queues of any length.

    tlc -workers 2 -config MCRoom_lobby.cfg MCRoom      # one run
    tlapm PenguinGame_proofs.tla                        # the proofs of the rules
    tlapm BrowserGame_proofs.tla                        # ... of the rules in the browser
    tlapm Room_proofs.tla                               # ... of the rooms
    tlapm Matchmaking_proofs.tla                        # ... of quick matching
    tlapm Faults_proofs.tla                             # ... of shutdown and failures
    tlapm LockedGames_proofs.tla                        # ... of the end of games
    tlapm App_proofs.tla                                # ... of the page
    tlapm Sums.tla                                      # ... about sums over sets

## 1. Inventory of the system

| component | state | operations | module |
|---|---|---|---|
| rules, `internal/game/game.go` | `GameState`: tiles (fish, gone, owner), players (score, penguin slots, stuck), phase, turn, winner, ply | `NewGame`, `ApplyMove` (place, move) with settle, eliminate, advance, finish | `PenguinRules`, `PenguinGame`, `TurnGame` |
| rules, `frontend/src/core/game.ts` | the same, for the local game in the browser | `createGame`, `applyMove` | `BrowserGame` |
| browser, `ui/app.ts`, `ui/auth.ts`, `net/client.ts` | screen, state, busy flag, queued states, timer of the verdict, history, waiting screen, number of the request, login dialog, socket | every button, `startNet`, `handleServerMsg`, `onClose`, `commit`, login, logout | `App` |
| rooms, `internal/room/{handlers,lifecycle,moves,broadcast,store}.go` | Redis: meta hash, state, room index, room lock; per instance: `conns`, `localRooms`; per connection: room, seat, context | create, join, ready, start, move, resign, rematch, leave, disconnect, AI task, dispatch | `Room` |
| quick matching, `internal/room/match.go` | Redis: queue (sorted set), match lock | `quickMatch`, `recheckMatch`, `tryPair`, clean-up | `Matchmaking` |
| settlement, `internal/room/settlement.go`, `repository/mysql/games.go` | MySQL: `users`, `games` | `SettleGame`, `FinishGame` | `Settlement` |
| room lock, `internal/room/store.go` | the lock of a room with its token and its five seconds | `withLock` around the end of a game | `LockedGames` |
| computer player, `internal/ai/ai.go` | none | `ChooseMove` (negamax) | `Computer`; its task in `Room` |
| shutdown and failures, `internal/room/hub.go`, `internal/app/app.go` | `stopping`, the contexts, the worker group | `Close`; a killed process; a call to Redis that fails | `Faults` |
| accounts, HTTP API, configuration, logging, tokens, renderer | - | - | not modelled, section 8 |

How they interact. The read loop of a connection (`client.go`) runs one handler at a
time. A handler reads the membership of its connection, takes the room lock in Redis
(`withLock`), reads and writes the room, and publishes a message; the subscriber of every
instance (`subscribeLoop`) dispatches the messages in order to the connections seated
there. AI tasks and rechecks of matching run beside the read loops. A finished friend game
is settled in MySQL from inside the handler. A connection ends at any time: its context is
cancelled, its running handler goes on, and only then the read loop cleans up
(`onDisconnect`). When an instance is shut down (`app.go`), the hub cancels everything,
waits for its goroutines, and then leaves rooms and queue for its clients. The browser runs one callback at a
time: a click, a message, a frame, a timer, an answer to a login, an event of the socket.

What is hard: handlers of two connections and of one connection's background tasks
interleave between their Redis calls; the context can be cancelled inside a handler;
messages to other instances arrive after the room has changed; the match lock expires under
its holder, and so does the lock of a room under a settlement; ratings are read outside the
transaction that writes them; a call to Redis fails, or a shutdown cuts a handler off,
between two steps that belong together; in the browser states wait behind animations
while other messages are handled at once, and starts and logins are answered after they
were cancelled. `PROJECT.json`
lists these hazards at their lines with the properties that watch them.

## 2. Modules

    TurnGame  <---- implemented by ----  PenguinGame  <---- implemented by ---- BrowserGame
       |  (turns only)                      | EXTENDS                             (arrays)
       | INSTANCE                        PenguinRules                                | EXTENDS
       v                                                                             v
     Room  <--- EXTENDS ---  Matchmaking  <--- EXTENDS ---  Faults                  App
       | implements                                           (plays with TurnGame on the server)
       v
     RoomLife  (plays with TurnGame)
     Settlement  <--- EXTENDS ---  LockedGames

     PenguinGame_proofs EXTENDS PenguinGame, Sums
     Room_proofs EXTENDS Room             LockedGames_proofs EXTENDS LockedGames, Sums
     Faults_proofs EXTENDS Faults, Matchmaking_proofs (which EXTENDS Matchmaking)
     App_proofs EXTENDS App, BrowserGame_proofs (which EXTENDS BrowserGame, Sums)

* **PenguinRules**: the methods of `GameState` as pure operators. A tile is its axial
  coordinate, a column of the tile array is a field, the slots of the players are a set of
  tuples. `Settle` takes all isolated penguins at once; the loop of the code does the same,
  because removing an occupied tile never isolates another penguin. `BrowserGame` keeps the
  loop, and its refinement, checked and proved, confirms this.
* **PenguinGame**: one game, `Place` and `Slide`.
* **TurnGame**: all that rooms see of a game: ply, turn, over, winner. `PenguinGame`
  implements it with as many plies as the board has tiles (`ImplementsTurnGame`), `Room`
  and `Matchmaking` play it.
* **Computer**: the computer's search, as operators on the positions of `PenguinGame`;
  the `games` run evaluates it in every reachable position, for either player and to the
  code's depth of three, and compares its choice with a search without pruning. Values are
  tenths. When the opponent has no move and the turn stays, the code asks for the wrong
  player's moves, finds none and evaluates the position: `IsLeaf` keeps that.
* **BrowserGame**: `game.ts` in its own representation (`-1` sentinels, slot arrays, loops
  by index as folds over the indices), with the mapping `AsServer` to `PenguinGame`.
* **App**: the page around it. One action per callback: the buttons, `handleServerMsg` by
  its cases, the frame that takes a queued state, the end of an animation, the timer of
  the verdict, the events of the socket in use, the answers to a login. `ui` and `lobby`
  hold the fields of class `App` for the game and the waiting screen; `net.for` is what `startNet`
  has still to send, so that cancelling it is the comparison with `netRequest`. A local
  game is `BrowserGame` with moves taken back; in a game on the server the page keeps what
  `TurnGame` keeps, and `srv` is the session of this one connection: what the handlers
  answer, refusals included, and what opponent and computer may do. `Answer` is `writeRaw` with its
  bounded queue: a browser that does not read is cut off.
* **Room**: rooms of friends and rooms with the computer. `op[c]` is the handler the read
  loop of `c` is in and what it has read. Steps: a handler's reads of its membership
  (`Begin`, and `ReadSeat` where room and seat are read separately), then its critical
  section. Where a critical section publishes or calls Redis after a change others can
  notice (join, leave, create) it is split into steps with `lock` held; the others change
  one room in one step. `GiveUp` is `withLock` running out of attempts; leaving retries and
  never gives up. `Dispatch` has the three branches of `dispatch`. `shown[c]` is what the
  last message to the browser shows, which is what `ViewsAgree` compares with Redis.
* **RoomLife**: what a room is to those who use it, without handlers, locks, messages and
  connections: a table that is opened as a lobby or with a game against the computer, where
  users sit down, stand up, get ready, start, play, resign and agree on the next game, until
  it is closed for good. `LifeOf` in `Room` reads the table off the room in Redis
  (`ImplementsRoomLife`). A matched pair gets its room with the game already started; that
  opening belongs to `Matchmaking`.
* **Matchmaking** adds the queue, the match lock (which may expire at any time) and the
  processes that pair: the read loop `<<c, 0>>` and the rechecks `<<c, k>>`. Every Redis
  call of `quickMatch`, `recheckMatch` and `tryPair` is a step of its own, except that the
  calls that make the new room are one step, as nobody else knows its code yet.
* **Faults** adds what breaks these processes off. `BeginClose` to `EndClose` is
  `Hub.Close`: everything is cancelled, the next call of a handler fails (`CutHandler`,
  `CutProcess`; a call under way may still be carried out), the read loops end without
  `onDisconnect`, and when all have ended rooms and queue are left for one client after the other.
  `Die` is a process that is killed or runs out of time. Then there is one action per kind
  of call to Redis that fails: taking the lock, searching, pairing and entering the queue
  (`PairingFails`), taking the own entry out (`RemoveFails`), giving the match lock back
  (`ReleaseFails`) and leaving a room (`LeaveFails`, `AnnounceFails`). A call that fails may
  have been carried out: the queue, the lock or the room may have changed although the
  code is told otherwise. When the Redis client makes a call again whose answer was lost, the code sees no error at
  all but takes its own doing for somebody else's (`TakeUnheard`, `LockUnheard`, and
  `RemoveFails` again). The history variable `lost` names what such failures leave behind: the
  partner and the room of a process that breaks off, the room a handler was about to seat
  somebody in or to close, and the client whose entry Redis took out of the queue without
  the code hearing of it (`match.go:90` then takes it that somebody is pairing it, and goes
  on). The properties say that nobody else is forgotten and no other room left behind.
* **LockedGames**: the end of a game in its room. A handler takes the lock, reads the
  game, saves its end, settles it with the steps of `Settlement`, tells the room and
  gives the lock back with its own token; the lock may expire from the save on. `Rematch`
  and `Leave` are one step each under a free lock.
* **Settlement**: one job per finished game with its two reads, its failure and its
  transaction. `Expected` is the Elo expectation as the table of the rating gaps at which
  `math.Round` changes the result.

Mutants (definitions whose comment says so) stand before the definition they replace; each
shows that a property notices a plausible mistake.

## 3. Runs

| run | instance | shows |
|---|---|---|
| `games` | board of 3, 2 and 3 tiles, 2 penguins each, 2 deals | types; score conservation; the player on turn can move; tiles and slots agree; out = no penguin; the end is settled; only isolated ice sinks; nobody is skipped; one tile per ply; nothing comes back; `TurnGame` is implemented; the computer's search prunes nothing it needs and takes a sure win |
| `browser` | one page; local games on the same board, one deal, one move taken back; games of 3 plies on the server; 2 messages on their way to the page, 1 from it; fair | the browser's engine implements the server's rules, also after moves were taken back, and offers the same moves; states are shown in order and without a gap; a verdict belongs to the game under it; nobody is taken into a game they no longer ask for; the screens tell the truth about the connection; the page catches up with the server |
| `room_lobby` | 3 users on 2 instances, 1 room | seats, readiness, local books, nobody stranded in a closed room |
| `room_game` | 2 users, 1 room, games of 1 ply | rematch requests, views agree, who resigns loses; `RoomLife` is implemented, so players stay and closed rooms stay closed |
| `room_ai` | 1 user, games of 3 plies, 2 tasks, fair | types; the computer answers whenever it is on turn |
| `match` | 2 users on 2 instances, 2 rooms, one fault on one instance | a waiting user is not forgotten; nobody is paired twice; a shutdown in time leaves nothing behind; no room is left without one who can close it |
| `live` | 2 users, friend rooms and matches, fair | a partner is seated; the seat of a lost connection is released |
| `settle` | 4 handlers in 2 rooms, 3 users, two near the floor | a game is settled once, and stays as it was settled; wins and ratings agree with the history |

Violation runs, each with the statement of the repository it contradicts in
`PROJECT.json` "findings": `room_ghost` (a guest whose connection ends while joining keeps
the seat), `match_ghost` (a recheck re-enters the queue after the clean-up), `match_wait`
(two rechecks in step miss each other in all three rounds), `settle_records` (losses and
draws of player 1).

Bounds. Codes are drawn once each (the code draws from 31^4; a reused code after a room
was closed is outside the model). `MaxPlies` ends a game after a few plies: the rooms only
tell first, later and last plies apart, and who is on turn. `MaxQueue` = 2 messages on
their way to an instance and `MaxTasks` = 2 AI tasks: enough for a message overtaken by a
change and for a task that meets the next game. `Rounds` is 3 in the code; the runs
use 1 where the property does not depend on it, and 3 in `match_wait`.
`App`: `Buffer` is 64 in the code; with 2 a full queue is
reached within a game, and a state, a verdict and a start can wait one behind the other. `MaxSent` 1:
the page sends one command at a time except for clicks on the resign button.
`MaxUndo` 1: taking back is one step repeated. A login can be opened from the menu only, not
beside the waiting screen; a local game begins when no login is being answered
(`NetIsQuiet`); a socket that the page gave up is forgotten, as its handlers compare
`this.ws`. `Faults`: one fault (`MaxFaults`), on the instance of the second user
(`Faulty`), as users and instances are interchangeable; after a fault no second room is
made (`FirstRoom`), and a room of friends is made first or not at all; the codes are
symmetric. `LockedGames`: three handlers of one room are what a lock taken from a third needs, and are symmetric; a fourth settles a game of another
room with one of the players. The lock expires only after the state is saved: the calls to Redis before
need milliseconds, while `SettleGame` waits for MySQL up to the whole life of the lock. Two users
cover the two seats; the third of `room_lobby` competes for one. The small board
has 8 tiles (60 in the code) with a bag of 6, 1 and 1 fish (30, 20 and 10), enough for
slides in all six directions, penguins that get isolated, players that go out one after
the other and games that end at each possible length.
`CHECK_DEADLOCK FALSE`: a finished game, an instance that has stopped, a server whose users do nothing, and a set of
games that are all settled are proper ends.

Fairness. In `Room` and `Matchmaking` the server's goroutines run: a started handler ends, subscribers deliver, AI
tasks wake, a read loop notices its cancelled context. It is strong where a step
competes for a lock that others take and give back, as `leaveRoomContext` retries for five
seconds (250 attempts), weak otherwise. In `App` the renderer ends its
animations, timers fire and frames come, messages are read in order, the server answers
commands, and a socket closed by the server is reported, all weakly fair. Nothing is assumed of users.

## 4. Proofs

### The rules

`PenguinGame_proofs` proves, for every board size, number of penguins and set of deals
allowed by the named assumptions of `PenguinRules` and `PenguinGame`:
`TypeCorrect`, `TilesMatchSlots`, `OutMeansOut`, `EndIsSettled`, `NoDeadTurn`,
`Harvest`, `NoUnfairSkip`, `NoWayBack`, `IceHolds` (only isolated ice sinks) and
`FishAreConserved` (`ScoreConservation`).

The argument is one inductive invariant (`GameInvariant`). Besides the properties it needs
what the placing phase guarantees for later: the number of plies counts the placed
penguins, they alternate between the players, only tiles with one fish are taken, so that
enough of those are left (`BoardsAssumption`) and the player on turn can always place. The
step lemmas follow the code: what `RemovePenguins`, `Settle` and `Eliminate` preserve and
establish (no penguin left is isolated; out means no penguins), then `AdvanceTurn` by its
three outcomes, then `OpenMoving` and the two moves. `IceHolds` follows the set
`SunkTooEarly` through the same steps: a tile that sinks while a slide off it is
still open is the tile the moving penguin has left. `FishAreConserved` needs that a ply
collects exactly one tile that was still there (`PlyAddsItsFish`), and `Sums`.

Last, it proves that the rules keep what the rooms rely on (`RulesTakeTurns`,
the refinement `ImplementsTurnGame`). A view of a game counts its plies, so the proof has
to bound them: a ply uses a tile up (a placement occupies it, a slide leaves one),
`PliesCountTiles` says that there are at least as many used tiles as plies, and a game
that is not over has an unused tile left (`TileIsLeft`). So no game is longer than the
number of its tiles.

### The rules in the browser

`App_proofs` proves, from the lemmas of `BrowserGame_proofs` and for every board, deal and
number of penguins under `BrowserAssumption` and `DealsAssumption`, that a game at one
screen keeps the server's rules: `BrowserKeepsTheRules` (`ImplementsServerRules`) and
`OffersAreLegal` (`OffersServerMoves`). The invariant (`LocalInv`) is about the game on the
screen and every state that can be taken back, since `Undo` makes any of them the present
one:

* `Fits`: tiles and slots describe one board, a penguin is in one slot only, and the ice
  under it is there. `removePenguin` goes from the slot to the tile and `doMove` from the
  tile to the slot, so both need it.
* `Stage`: while penguins are placed, the turn is the parity of the plies, and slots fill
  from the first. So `doPlace` finds a free slot.

Under `Fits`, `AsServer` commutes with every function of a move (`SettleAgrees`,
`EliminateAgrees`, `AdvanceAgrees`, `OpeningAgrees`, `PutAgrees`, `SlideAgrees`). Both
forms of a slide are proved equal from the first tile that is not open (`Stop`,
`SlidesAgree`); that there is one is the size of the board (`LinesEnd`). The loops are the
heart: one that removes penguins while it looks for isolated ones. `Drop(s, T)` is the
state without the penguins in the slots of `T`, `Out(s, P)` the one with the players `P`
out. A round is a `Drop` of one slot (`DropIsolatedDrops`), a removal neither opens a tile
nor closes one (`DropKeepsOpen`), so who is isolated does not depend on the rounds before
(`DropLonely`), and the rounds add up (`DropTwice`). A fold solves an equation over the
sets of its rounds, and an equation like this has one solution (`LoopsAreUnique`), which
replaces the induction. `DealAgrees` and `StepAgrees` are what the page needs. `OnlyLocalSteps` says
that in such a game no message, answer or timer of another screen changes the board, which takes
`PageInv`. TLC has checked `LocalInv` on the instance of the `browser` run.

### The rooms

`Room_proofs` proves, for any number of users, instances and codes, any bounds, and any
sets of commands, modes and failing connections under `HostAssumption`,
`NobodyAssumption`, `UsersAssumption` and `BoundsAssumption`: `RoomTypes`, `BooksAgree`
(`LocalMatchesMember`), `SeatsAreHeld` (`BoundClientsAreSeated`), `NobodyIsStranded`,
`GamesAreAgreed`, `VotesAreFresh`, `EverybodySees` (`ViewsAgree`), of the steps
`PlayersStay` and `ResigningLoses`, and `RoomsLive`, the refinement `ImplementsRoomLife`.

Four books say who sits where: the room in Redis, the membership of a connection, the
`localRooms` of its instance, and what a handler has read and works with after that. None
of the properties is inductive alone, as a handler may act on a reading that is out of
date. `RoomInvariant` says when the books agree:

* `LocksAreHeld`, `NamesAreDrawn` and `CreatedIsUntouched` say who can reach a room at all:
  holders of its lock are the handlers between two steps of a join or a leave, and a room
  its host has not been told of is the host's alone.
* `SeatsAreOwned` is `BoundClientsAreSeated` for handlers too: a seat that was read is the
  reader's in Redis as long as the room exists. `MembershipFits` gives the reason: the
  membership read by a handler still stands unless the room is ending. Reading room and
  seat one after the other may yield a seat of nobody (`NoSeat`), but only in such a room.
* `Ending(x)` holds from the announcement that a room is closed, before it is deleted. From
  then on `EndIsTold` has the news on its way to everybody who sits there, and
  `LeftIsEmpty` says that such news is true and spares only the seat that was left.
* `SeatsAreSingle` and `LocalIsMember` are the local books, `GamesFit` the games.
* `NewsIsTrue` is what `ViewsAgree` becomes while messages are on their way: the last of
  them about a room, or the screen if there is none, shows the room as it is in Redis,
  except while a guest has taken the seat and not yet told the others (`Joining`).

There is one lemma per action, cut along these parts; what publishing, dispatching and
unbinding do to queues and seats is stated once before.

`RoomsLive` takes each action that saves a room to one step of `RoomLife` (`CreateRoomLives`
to `CloseRoomLives`) and the others to none. It needs the invariant where a guard of the
code looks at something else than the life of the room does: a command acts for the owner
of the seat it has read (`CommandFinds`), the one who stands up is the guest
(`SeatsAreOwned`), the computer is on turn only in a game that has started, and a game
without a guest is one against the computer (`GamesFit`), so that its rematch needs nobody
else's consent. A room may be closed twice, when both players leave at once. TLC has checked
the refinement for games against the computer too, on the instance of the `room_ai` run.

### Matching and its faults

`Matchmaking_proofs` proves `PairedOnce` (`NobodyIsPairedTwice`), `Faults_proofs` proves it
again with all the faults (`PairedOnceDespiteFaults`), and with them `WaitersAreKept`
(`WaiterIsNotForgotten`), `RoomsStayOwned` (`RoomsAreOwned`) and `CloseLeaves`
(`CloseLeavesNothing`), for any number of users, instances, codes, rechecks, rounds and
faults under `HostAssumption`, `NobodyAssumption`, `UsersAssumption` and `RoundsAssumption`.

The match lock is of no use in these proofs, as it may expire under its holder. What keeps
a client from being paired twice is that it is taken out of the queue atomically and that
whoever has taken it is the only one who moves it about. `PairInvariant` says so:

* `OneClaim(c)`: a client is in the queue, or in the hands of one process (its own or the
  one that has found it), or the addressee of one `bind` message (`SingleMail`), or in a
  room or entering one, and never in two of these.
* `ClaimsWait`: who has a claim waits in its browser, so that it does not create or join a
  room or search again; only its own read loop may be at work for it.
* `ReadLoopsFit` ties the handler `quickMatch` to its process, `LocalFits` the deliveries
  of an instance to the seats of its clients.

`FaultInvariant` adds what a fault leaves behind:

* `ClosingFits` and `DownAreDown`: an instance that closes has cleaned up for the clients
  that are not on its list any more; nobody is connected to an instance that does not run,
  nothing runs on one that has stopped, and a client that is gone has left its room.
* `WaitersKept`: who waits is found in the queue, in a message or with a process, or is
  one of `lost.clients`. A process that breaks off loses the partner it has taken, its own
  client is answered with an error; and an entry taken out unheard is lost with its client
  (`EntriesLost`), whichever process had asked for it.
* `NamesAreDrawn`: codes in rooms, seats, handlers and messages have been drawn, so that a
  new room is met by no old message.
* `RoomsKept`: a room has its host on the way into the first seat, in it or on the way out
  (`Stands`), or its end is announced (`Closing`), or it is one of `lost.rooms`. It has to be
  the host: a guest who leaves second is not told of the room any more.
* `LeavesAreTrue`: news that a room closes was sent by the one who closes it.

`CloseLeaves` needs `QueueLeft` too: the clients Close has cleaned up for are not in the
queue, and no process of theirs runs that could put them back, since Close waits for all
goroutines first and on an instance that does not run nothing begins (`NothingBegins`).
The proof settled what the property can say. An entry of a client who was gone before Close
began may come back, with two failing calls and two rechecks of one client: this is what
the `match_ghost` run shows, and Close does not know such a client any more. So the
property speaks of seats for all clients of an instance, and of the queue for those who
were connected.

What a step may do to each part is stated once (`GoneStayGone`, `WaitersGoOn`, `NamesGoOn`,
`RoomsGoOn`), with a lemma that this keeps the part; the lemma of an action then shows
that the action does no more. TLC has checked `FaultInvariant` and `QueueLeft` on the
instance of the `match` run.

### The end of games

`LockedGames_proofs` proves, for any sets of rooms, handlers and users under
`RoomsAssumption`, `PlayersAssumption` and `StandingAssumption`: `SettledOnce` (no game is
settled by two handlers), `SettledStays` (Redis keeps the end that was settled until the
next game), `WinsCounted` (the wins agree with the history) and `RatingsKept`
(`RatingsAddUp`: a rating is exactly what the history awarded until the floor stops a
fall, and from then on above the floor by no more than what the history gave).

The first two follow from `LockInvariant`. Mutual exclusion is not enough, since the lock
may be lost; but until it has saved, a handler has the lock and Redis holds what it read
(`ReadersHaveTheLock`). A handler that has saved remembers the number of its game, and
Redis has that game with this handler as its end, or a later game, or none
(`EndsStand`). So two handlers never end one game (`EndersDiffer`), and only who has ended
a game settles it (`SettlersAreEnders`). `GamesAreCounted` keeps a closed room apart from
a game. The third uses `WinInvariant`: only settled games are in the history, so that a
commit adds a new one. The fourth uses `RatingInvariant`, which says the same of the
ratings. What a handler has read may be out of date when it commits. It matters for the
size of the award only: the award itself is added to the rating of that moment (`CommitRates`).
A commit changes the rating by its award or stops at the floor (`FloorRaises`), and either
keeps both sides of `RatingsAddUp` (`RatedAddsUp`): a fall that is stopped leaves the rating
at the floor and the sum below it, and a gain raises the rating and what was given alike.

### Sums

`ScoreConservation` and `RatingsAddUp` add up numbers over a set with operators of the
community modules, which take the elements one by one by a recursive function over the
subsets. `Sums` proves of that function that it exists (`SumsExist`), that its equation
determines it (`SumsAreUnique`) and that any element may be the last (`AddsAnyElement`), so that
one element more adds its value (`SumOfMore`). The induction theorems of the library
cannot be instantiated, as they take the statement as a parameter. These proofs take a
smallest set without the property instead (`SmallestSet`), from the well-foundedness of
the strict subsets of a finite set.

### The page

`App_proofs` proves, for every board, length of games and bound of the queues:
`ScreenFollowsServer` (`StatesInOrder`), `VerdictsFitGames` (`VerdictFitsGame`),
`ScreenTellsTheTruth` (`ScreenMatchesConnection`), and of the steps `GamesAreAskedFor`
(`StartsAreAskedFor`). `PageInv` has these parts besides the properties:

* `Shape`: which messages can be on their way, and which sessions there are. A view of a
  running game leaves room for another ply.
* `OnlyOpenCarries` and `MenuWaits` tie the connection to the waiting screen: a socket that
  is opening was asked for by the wait that is still on the screen, and an open one has set
  the mode. This is why a start that comes late can only be the one that is waited for.
* `LoginInMenu` keeps the dialog away from a wait, whose connection a login would replace.
* `MenuIsBlank`: no timer and no queued state of the last game is left in the menu.
* `InOrder` is `StatesInOrder` without its hypothesis: the order also holds in the menu,
  where the first view on its way has to be a start, and for what still waits in the page
  when the connection is gone.
* `VerdictDue` says of the timer what `VerdictFitsGame` says of the overlay. A state only
  follows one that is not over, so none is shown over a verdict or under a running timer.

All that the server and the opponent do comes down to `ServerStep`: at most two messages,
the first of them without a view, told after the last one or not at all, with the
connection cut off. What reading, waiting and cutting off do to the order is proved once,
about sequences (`OrderedAppend`, `OrderedPrefix`, `OrderedSuffix`, `OrderedRemove`). TLC
has checked `PageInv` on the instance of the `browser` run.

## 5. Only model-checked

* Liveness (`BoundSeatIsReleased`, `AiAnswers`, `PartnerIsSeated`, `ScreenCatchesUp`) is out of
  the prover's reach.
* The search of the computer (`PruningLosesNothing`, `SureWinIsTaken`) is a recursion over
  positions, written with `RECURSIVE` operators, and what it computes is an induction.

## 6. Plan

Done: rules, browser rules and page, the computer's search, rooms, matching, shutdown and
failures while matching, settlement under a lock that expires; proofs of the rules and of
their refinement of a game of turns, of the browser's rules as those of the server, of the
rooms and of their refinement of the life of a room, of matching with and without faults, of
the end of games, and of the page. Next: failing publications in the middle of a game, and a
browser that is told too late.

## 7. Simplifications

* Identity and text: a user is one connection; names, error texts, message wording and
  room-code strings are left out. Errors answered to the own client change nothing else.
* Redis and MySQL calls succeed, except where a module says otherwise (`Faults`,
  `StoreFails` in `LockedGames`, `Forget` in `Settlement`); Redis keeps its data (TTLs of 24
  hours are not reached). Publication reaches every instance that runs, in one order.
* In `Faults` making the room in `tryPair` is one step: a failure, a shutdown or a death in
  the middle of it leaves a half-made room whose code nobody was told, which is not
  modelled. Where a later call of `tryPair` fails although it was carried out, the model
  lets it succeed and the next call fail, which leaves the same behind. Not modelled: a
  publication delivered twice because the Redis client repeats it, failing calls while a
  friend room is created or joined (only the shutdown cuts those off), failing calls to the
  lock of a room in leaving, and failing calls in the clean-up of `Hub.Close` itself.
  Nor is a failing clean-up of the queue: it leaves the entry of a client who is gone, as
  `Die` does. Connections end in `Faults` by errors, shutdown and death only; that they end
  by themselves is part of `Room` and `Matchmaking`.
* In `Faults` a handler that is cut off between saving and publishing in the lobby or in
  a game is not distinguished: the runs of the lobby and of games have no faults.
* `LockedGames` takes the lock to live until the state is saved. The code has no fencing:
  a handler held up for five seconds before `saveState` could overwrite a later state.
* `App` has one connection at a time. The server cleans up after a socket that was given
  up as `Room` and `Matchmaking` describe; its late messages are not read.
* The computer places its penguins by reachable fish and a random addition; `Room` lets it
  place anywhere, and `Computer` has no operator for it.
* A connection that ends for any reason (browser, deadline, full send queue, write error)
  is `Cancel`. A browser asks for a match only from the menu and gives up waiting by
  closing its socket, as `app.ts` does.

## 8. Not modelled

Logging, configuration, HTTP routing and middleware, tokens and password hashes, schema and
connection handling of MySQL, start-up wiring, the ranking, the static assets and the
renderer hold no state the game depends on, or are input and output only. Two things
`App` shows have no property, as nothing in the repository says what should happen: the timer of
the verdict may cover the news that the opponent has left, and a login that was cancelled
and answered late closes the connection of a running game without a word. Accounts are single statements
against a unique key.
