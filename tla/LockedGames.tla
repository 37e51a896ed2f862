----------------------------- MODULE LockedGames -----------------------------
(***************************************************************************)
(* The ends of the games of some rooms, from the lock of the room to the   *)
(* database: playerMove with the last ply and resign (moves.go) inside     *)
(* withLock (store.go), with SettleGame as module Settlement has it.       *)
(*                                                                         *)
(* The lock of a room lives for five seconds, and SettleGame alone may     *)
(* take five: another handler may enter the room before the first has left *)
(* it.  Only the order of its steps protects the game then: the state is   *)
(* saved before it is settled, and a lock is released with the token it    *)
(* was taken with.  The calls to Redis before the state is saved are taken *)
(* to need less than the five seconds.                                     *)
(*                                                                         *)
(* A member of Finished is one handler that may end a game of its room.    *)
(***************************************************************************)
EXTENDS Settlement

CONSTANTS Rooms, RoomOf,    \* the room a handler works on
          Nobody

VARIABLES
    state,      \* Redis: per room the number of its game and the handler that ended it
    lock,       \* Redis: the handler whose token is in the lock of a room, or Nobody
    step        \* per handler: how far it is, and the game it has read

lockVars == <<state, lock, step>>

ASSUME RoomsAssumption == RoomOf \in [Finished -> Rooms] /\ Nobody \notin Finished

Closed == [n |-> 0, by |-> Nobody]
Game(n) == [n |-> n, by |-> Nobody]
Step(at, n) == [at |-> at, n |-> n]

LockedInit ==
    /\ Init
    /\ state = [x \in Rooms |-> Game(1)]
    /\ lock = [x \in Rooms |-> Nobody]
    /\ step = [h \in Finished |-> Step("rest", 0)]

GoOn(h, at, n) == step' = [step EXCEPT ![h] = Step(at, n)]

TakeLock(h) ==
    /\ step[h].at = "rest" /\ lock[RoomOf[h]] = Nobody
    /\ lock' = [lock EXCEPT ![RoomOf[h]] = h]
    /\ GoOn(h, "locked", 0)
    /\ UNCHANGED <<state, vars>>

\* Ten attempts fail.
MissLock(h) ==
    /\ step[h].at = "rest" /\ lock[RoomOf[h]] # Nobody
    /\ GoOn(h, "done", 0)
    /\ UNCHANGED <<state, lock, vars>>

\* GetMeta and GetState: a game that is over, or a room that is gone, is left alone.
ReadGame(h) ==
    LET s == state[RoomOf[h]]
    IN  /\ step[h].at = "locked"
        /\ IF s # Closed /\ s.by = Nobody THEN GoOn(h, "read", s.n) ELSE GoOn(h, "out", 0)
        /\ UNCHANGED <<state, lock, vars>>

Ended(h) == state' = [state EXCEPT ![RoomOf[h]] = [n |-> step[h].n, by |-> h]]

SaveGame(h) ==
    /\ step[h].at = "read"
    /\ Ended(h)
    /\ GoOn(h, "saved", step[h].n)
    /\ UNCHANGED <<lock, vars>>

\* A call to Redis fails, and nothing tells whether the state was written: the handler
\* gives up.
StoreFails(h) ==
    /\ step[h].at = "read"
    /\ Ended(h) \/ UNCHANGED state
    /\ GoOn(h, "out", 0)
    /\ UNCHANGED <<lock, vars>>

\* Mutant of MaySettle: the game is settled before it is saved.
SettlesFirst(h) == step[h].at \in {"read", "saved"}

MaySettle(h) == step[h].at = "saved"

SettleGame(h) ==
    /\ MaySettle(h)
    /\ ReadUser0(h) \/ ReadUser1(h) \/ Forget(h) \/ Commit(h)
    /\ UNCHANGED lockVars

\* publishRoom: the players see the end of the game.
TellRoom(h) ==
    /\ step[h].at = "saved" /\ job[h].at \in {"failed", "settled"}
    /\ GoOn(h, "out", step[h].n)
    /\ UNCHANGED <<state, lock, vars>>

\* Mutant of Unlock: whoever holds the lock loses it.
UnlockAnyone(h) ==
    /\ step[h].at = "out"
    /\ lock' = [lock EXCEPT ![RoomOf[h]] = Nobody]
    /\ GoOn(h, "done", step[h].n)
    /\ UNCHANGED <<state, vars>>

Unlock(h) ==
    /\ step[h].at = "out"
    /\ lock' = [lock EXCEPT ![RoomOf[h]] = IF @ = h THEN Nobody ELSE @]
    /\ GoOn(h, "done", step[h].n)
    /\ UNCHANGED <<state, vars>>

\* lockTTL, while SettleGame waits for the database or after it.
ExpireLock(x) ==
    /\ lock[x] # Nobody /\ step[lock[x]].at \in {"saved", "out"}
    /\ lock' = [lock EXCEPT ![x] = Nobody]
    /\ UNCHANGED <<state, step, vars>>

\* rematch, in one step under the lock: both players ask for it after the handler that
\* ended the game has published the end.
Rematch(x) ==
    /\ lock[x] = Nobody /\ state[x].by # Nobody
    /\ step[state[x].by].at \in {"out", "done"}
    /\ state' = [state EXCEPT ![x] = Game(@.n + 1)]
    /\ UNCHANGED <<lock, step, vars>>

\* leaveLocked, in one step: it waits for the lock and does not look at the game.
Leave(x) ==
    /\ lock[x] = Nobody /\ state[x] # Closed
    /\ state' = [state EXCEPT ![x] = Closed]
    /\ UNCHANGED <<lock, step, vars>>

LockedNext ==
    \/ \E h \in Finished :
          \/ TakeLock(h) \/ MissLock(h) \/ ReadGame(h) \/ SaveGame(h) \/ StoreFails(h)
          \/ SettleGame(h) \/ TellRoom(h) \/ Unlock(h)
    \/ \E x \in Rooms : ExpireLock(x) \/ Rematch(x) \/ Leave(x)

LockedSpec == LockedInit /\ [][LockedNext]_<<vars, lockVars>>

-----------------------------------------------------------------------------
(* Properties. *)

\* A game is settled at most once: although the lock may be lost in the middle of a
\* settlement, no second handler settles the same game of the room.
GamesAreSettledOnce ==
    \A g, h \in Finished :
        /\ g # h /\ RoomOf[g] = RoomOf[h] /\ step[g].n = step[h].n
        => ~(job[g].at = "settled" /\ job[h].at = "settled")

\* What was settled stands: Redis holds the end of the game that the history has, and
\* nobody plays on in it.
SettledGamesAreOver ==
    \A h \in Finished :
        job[h].at = "settled" /\ state[RoomOf[h]].n = step[h].n => state[RoomOf[h]].by = h
=============================================================================
