------------------------- MODULE LockedGames_proofs -------------------------
(***************************************************************************)
(* A game is settled at most once, and what is settled stays, for every    *)
(* number of rooms, handlers and players, although the lock of a room may  *)
(* be lost under a settlement.                                             *)
(***************************************************************************)
EXTENDS LockedGames, Sums

Stages == {"rest", "locked", "read", "saved", "out", "done"}

\* The types of the variables, as far as the proofs need them.
LockedTypeOK ==
    /\ state \in [Rooms -> [n : Nat, by : Finished \cup {Nobody}]]
    /\ lock \in [Rooms -> Finished \cup {Nobody}]
    /\ step \in [Finished -> [at : Stages, n : Nat]]
    /\ DOMAIN job = Finished

\* h has written the end of the game it has read, whether it still has the lock or not.
Ender(h) == step[h].at \in {"saved", "out", "done"} /\ step[h].n # 0

\* Until the state is saved a handler has the lock, and Redis holds what it has read.
ReadersHaveTheLock ==
    \A h \in Finished :
        /\ step[h].at \in {"locked", "read"} => lock[RoomOf[h]] = h
        /\ step[h].at = "read" => state[RoomOf[h]] = Game(step[h].n)
        /\ step[h].at \in {"read", "saved"} => step[h].n # 0

\* The end of a game stays what it is until another game, or no game, has its place.
EndsStand ==
    \A h \in Finished :
        Ender(h) => LET s == state[RoomOf[h]]
                    IN  s = Closed \/ s.n > step[h].n \/ (s.n = step[h].n /\ s.by = h)

\* Two handlers do not end one game.
EndersDiffer ==
    \A g, h \in Finished :
        g # h /\ RoomOf[g] = RoomOf[h] /\ Ender(g) /\ Ender(h) => step[g].n # step[h].n

\* A settlement is one of a handler that has written the end.
SettlersAreEnders == \A h \in Finished : job[h].at # "playing" => Ender(h)

\* A room holds a game, or nothing.
GamesAreCounted == \A x \in Rooms : state[x].n = 0 => state[x] = Closed

LockInvariant ==
    /\ LockedTypeOK
    /\ ReadersHaveTheLock
    /\ EndsStand
    /\ EndersDiffer
    /\ SettlersAreEnders
    /\ GamesAreCounted

-----------------------------------------------------------------------------
(* The invariant holds initially, and every step keeps it. *)

\* The first games: nobody has begun, nobody has ended one.
LEMMA LockInit == LockedInit => LockInvariant
  BY RoomsAssumption
  DEF LockedInit, Init, Game, Step, Closed, LockInvariant, LockedTypeOK, Stages, Ender,
      ReadersHaveTheLock, EndsStand, EndersDiffer, SettlersAreEnders, GamesAreCounted

\* What it means for one handler to move on.
LEMMA GoOnMoves ==
  ASSUME LockedTypeOK, NEW h \in Finished, NEW at \in Stages, NEW n \in Nat, GoOn(h, at, n)
  PROVE  /\ step' \in [Finished -> [at : Stages, n : Nat]]
         /\ step'[h].at = at /\ step'[h].n = n
         /\ \A g \in Finished : g # h => step'[g] = step[g]
  BY DEF LockedTypeOK, GoOn, Step

\* TakeLock: the room was free, so that no other handler reads it.
LEMMA TakeLockKeeps ==
  ASSUME LockInvariant, NEW h \in Finished, TakeLock(h)
  PROVE  LockInvariant'
  <1> USE DEF LockInvariant
  <1>1. /\ step' \in [Finished -> [at : Stages, n : Nat]]
        /\ step'[h].at = "locked" /\ step'[h].n = 0
        /\ \A g \in Finished : g # h => step'[g] = step[g]
    BY GoOnMoves DEF TakeLock, Stages
  <1>2. LockedTypeOK'
    BY <1>1, RoomsAssumption DEF TakeLock, LockedTypeOK, vars
  <1>3. ReadersHaveTheLock'
    BY <1>1, RoomsAssumption, ZenonT(60) DEF TakeLock, LockedTypeOK, ReadersHaveTheLock, Game
  <1>4. EndsStand' /\ EndersDiffer'
    BY <1>1 DEF TakeLock, EndsStand, EndersDiffer, Ender, Closed
  <1>5. SettlersAreEnders' /\ GamesAreCounted'
    BY <1>1 DEF TakeLock, SettlersAreEnders, GamesAreCounted, Ender, vars, Closed
  <1> QED BY <1>2, <1>3, <1>4, <1>5

\* MissLock: nothing changes but the handler, which has ended no game.
LEMMA MissLockKeeps ==
  ASSUME LockInvariant, NEW h \in Finished, MissLock(h)
  PROVE  LockInvariant'
  <1> USE DEF LockInvariant
  <1>1. /\ step' \in [Finished -> [at : Stages, n : Nat]]
        /\ step'[h].at = "done" /\ step'[h].n = 0
        /\ \A g \in Finished : g # h => step'[g] = step[g]
    BY GoOnMoves DEF MissLock, Stages
  <1>2. LockedTypeOK'
    BY <1>1 DEF MissLock, LockedTypeOK, vars
  <1>3. ReadersHaveTheLock'
    BY <1>1 DEF MissLock, ReadersHaveTheLock, Game
  <1>4. EndsStand' /\ EndersDiffer'
    BY <1>1 DEF MissLock, EndsStand, EndersDiffer, Ender, Closed
  <1>5. SettlersAreEnders' /\ GamesAreCounted'
    BY <1>1 DEF MissLock, SettlersAreEnders, GamesAreCounted, Ender, vars, Closed
  <1> QED BY <1>2, <1>3, <1>4, <1>5

\* ReadGame: what is read is the game in Redis, and nobody else may write it.
LEMMA ReadGameKeeps ==
  ASSUME LockInvariant, NEW h \in Finished, ReadGame(h)
  PROVE  LockInvariant'
  <1> USE DEF LockInvariant
  <1> DEFINE s == state[RoomOf[h]]
  <1>1. /\ step[h].at = "locked" /\ UNCHANGED <<state, lock, vars>>
        /\ s \in [n : Nat, by : Finished \cup {Nobody}]
    BY RoomsAssumption DEF ReadGame, LockedTypeOK
  <1>2. CASE s # Closed /\ s.by = Nobody
    <2>1. /\ step' \in [Finished -> [at : Stages, n : Nat]]
          /\ step'[h].at = "read" /\ step'[h].n = s.n
          /\ \A g \in Finished : g # h => step'[g] = step[g]
      BY <1>1, <1>2, GoOnMoves DEF ReadGame, Stages
    <2>2. s = Game(s.n) /\ s.n # 0
      BY <1>1, <1>2, RoomsAssumption DEF GamesAreCounted, Game
    <2>3. LockedTypeOK'
      BY <1>1, <2>1 DEF LockedTypeOK, vars
    <2>4. ReadersHaveTheLock'
      BY <1>1, <2>1, <2>2 DEF ReadersHaveTheLock, Game
    <2>5. EndsStand' /\ EndersDiffer'
      BY <1>1, <2>1 DEF EndsStand, EndersDiffer, Ender, Closed
    <2>6. SettlersAreEnders' /\ GamesAreCounted'
      BY <1>1, <2>1 DEF SettlersAreEnders, GamesAreCounted, Ender, vars, Closed
    <2> QED BY <2>3, <2>4, <2>5, <2>6
  <1>3. CASE ~(s # Closed /\ s.by = Nobody)
    <2>1. /\ step' \in [Finished -> [at : Stages, n : Nat]]
          /\ step'[h].at = "out" /\ step'[h].n = 0
          /\ \A g \in Finished : g # h => step'[g] = step[g]
      BY <1>1, <1>3, GoOnMoves DEF ReadGame, Stages
    <2>3. LockedTypeOK'
      BY <1>1, <2>1 DEF LockedTypeOK, vars
    <2>4. ReadersHaveTheLock'
      BY <1>1, <2>1 DEF ReadersHaveTheLock, Game
    <2>5. EndsStand' /\ EndersDiffer'
      BY <1>1, <2>1 DEF EndsStand, EndersDiffer, Ender, Closed
    <2>6. SettlersAreEnders' /\ GamesAreCounted'
      BY <1>1, <2>1 DEF SettlersAreEnders, GamesAreCounted, Ender, vars, Closed
    <2> QED BY <2>3, <2>4, <2>5, <2>6
  <1> QED BY <1>2, <1>3

\* What a handler writes in Redis at the end of a game.
LEMMA EndedWrites ==
  ASSUME LockInvariant, NEW h \in Finished, step[h].at = "read", Ended(h)
  PROVE  /\ state' \in [Rooms -> [n : Nat, by : Finished \cup {Nobody}]]
         /\ state'[RoomOf[h]].n = step[h].n /\ state'[RoomOf[h]].by = h
         /\ step[h].n # 0 /\ state[RoomOf[h]] = Game(step[h].n)
         /\ \A x \in Rooms : x # RoomOf[h] => state'[x] = state[x]
  BY RoomsAssumption DEF LockInvariant, LockedTypeOK, ReadersHaveTheLock, Ended

\* SaveGame: until now nobody had ended this game.
LEMMA SaveGameKeeps ==
  ASSUME LockInvariant, NEW h \in Finished, SaveGame(h)
  PROVE  LockInvariant'
  <1> USE DEF LockInvariant
  <1>1. /\ step' \in [Finished -> [at : Stages, n : Nat]]
        /\ step'[h].at = "saved" /\ step'[h].n = step[h].n
        /\ \A g \in Finished : g # h => step'[g] = step[g]
    BY GoOnMoves DEF SaveGame, Stages, LockedTypeOK
  <1>2. /\ state' \in [Rooms -> [n : Nat, by : Finished \cup {Nobody}]]
        /\ state'[RoomOf[h]].n = step[h].n /\ state'[RoomOf[h]].by = h
        /\ step[h].n # 0 /\ state[RoomOf[h]] = Game(step[h].n)
        /\ \A x \in Rooms : x # RoomOf[h] => state'[x] = state[x]
    BY EndedWrites DEF SaveGame
  <1>3. step[h].at = "read" /\ UNCHANGED <<lock, vars>>
    BY DEF SaveGame
  <1>4. LockedTypeOK'
    BY <1>1, <1>2, <1>3 DEF LockedTypeOK, vars
  <1>5. ReadersHaveTheLock'
    <2>1. ASSUME NEW g \in Finished, g # h, step[g].at = "read"
          PROVE  RoomOf[g] # RoomOf[h]
      BY <1>3, <2>1 DEF ReadersHaveTheLock
    <2>2. \A g \in Finished : g # h /\ step'[g].at = "read" => state'[RoomOf[g]] = Game(step'[g].n)
      BY <1>1, <1>2, <2>1, RoomsAssumption DEF ReadersHaveTheLock
    <2> QED BY <1>1, <1>2, <1>3, <2>2 DEF ReadersHaveTheLock, Game
  <1>6. \A g \in Finished :
           g # h /\ RoomOf[g] = RoomOf[h] /\ Ender(g) => step[g].n < step[h].n
    <2> SUFFICES ASSUME NEW g \in Finished, RoomOf[g] = RoomOf[h], Ender(g)
                 PROVE  step[g].n < step[h].n
      OBVIOUS
    <2>1. state[RoomOf[g]].n = step[h].n /\ state[RoomOf[g]].by = Nobody
      BY <1>2 DEF Game
    <2>2. state[RoomOf[g]] # Closed /\ state[RoomOf[g]].by # g
      BY <2>1, <1>2, RoomsAssumption DEF Closed
    <2>3. state[RoomOf[g]].n > step[g].n
      BY <2>2 DEF EndsStand
    <2> QED BY <2>1, <2>3 DEF LockedTypeOK
  <1>7. EndsStand'
    BY <1>1, <1>2, <1>3, <1>6, RoomsAssumption, SMTT(30) DEF EndsStand, Ender, LockedTypeOK, Closed
  <1>8. EndersDiffer'
    BY <1>1, <1>3, <1>6 DEF EndersDiffer, Ender, LockedTypeOK
  <1>9. SettlersAreEnders' /\ GamesAreCounted'
    BY <1>1, <1>2, <1>3, RoomsAssumption
    DEF SettlersAreEnders, GamesAreCounted, Ender, vars, Closed
  <1> QED BY <1>4, <1>5, <1>7, <1>8, <1>9

\* StoreFails: as SaveGame, but the handler forgets the game; or as MissLock.
LEMMA StoreFailsKeeps ==
  ASSUME LockInvariant, NEW h \in Finished, StoreFails(h)
  PROVE  LockInvariant'
  <1> USE DEF LockInvariant
  <1>1. /\ step' \in [Finished -> [at : Stages, n : Nat]]
        /\ step'[h].at = "out" /\ step'[h].n = 0
        /\ \A g \in Finished : g # h => step'[g] = step[g]
    BY GoOnMoves DEF StoreFails, Stages
  <1>2. step[h].at = "read" /\ UNCHANGED <<lock, vars>>
    BY DEF StoreFails
  <1>3. EndersDiffer' /\ SettlersAreEnders'
    BY <1>1, <1>2 DEF EndersDiffer, SettlersAreEnders, Ender, vars
  <1>4. CASE UNCHANGED state
    <2>1. LockedTypeOK' /\ ReadersHaveTheLock'
      BY <1>1, <1>2, <1>4 DEF LockedTypeOK, ReadersHaveTheLock, Game, vars
    <2>2. EndsStand' /\ GamesAreCounted'
      BY <1>1, <1>2, <1>4 DEF EndsStand, GamesAreCounted, Ender, Closed
    <2> QED BY <1>3, <2>1, <2>2
  <1>5. CASE Ended(h)
    <2>1. /\ state' \in [Rooms -> [n : Nat, by : Finished \cup {Nobody}]]
          /\ state'[RoomOf[h]].n = step[h].n
          /\ step[h].n # 0 /\ state[RoomOf[h]] = Game(step[h].n)
          /\ \A x \in Rooms : x # RoomOf[h] => state'[x] = state[x]
      BY <1>2, <1>5, EndedWrites
    <2>2. LockedTypeOK'
      BY <1>1, <1>2, <2>1 DEF LockedTypeOK, vars
    <2>3. ReadersHaveTheLock'
      BY <1>1, <1>2, <2>1, RoomsAssumption, ZenonT(60) DEF ReadersHaveTheLock, Game
    <2>4. ASSUME NEW g \in Finished, Ender(g)', RoomOf[g] = RoomOf[h]
          PROVE  state'[RoomOf[g]].n > step'[g].n
      <3>1. g # h /\ Ender(g) /\ step'[g] = step[g]
        BY <1>1, <2>4 DEF Ender
      <3>2. state[RoomOf[g]].n = step[h].n /\ state[RoomOf[g]].by = Nobody
        BY <2>1, <2>4 DEF Game
      <3>3. state[RoomOf[g]] # Closed /\ state[RoomOf[g]].by # g
        BY <3>2, <2>1, RoomsAssumption DEF Closed
      <3>4. state[RoomOf[g]].n > step[g].n
        BY <3>1, <3>3 DEF EndsStand
      <3> QED BY <3>1, <3>2, <3>4, <2>1, <2>4
    <2>5. EndsStand'
      BY <1>1, <2>1, <2>4, RoomsAssumption DEF EndsStand, Ender, Closed
    <2>6. GamesAreCounted'
      BY <2>1, RoomsAssumption DEF GamesAreCounted, Closed
    <2> QED BY <1>3, <2>2, <2>3, <2>5, <2>6
  <1> QED BY <1>4, <1>5 DEF StoreFails

\* SettleGame: one of the steps of Settlement, by a handler that has saved its game.
LEMMA SettleGameKeeps ==
  ASSUME LockInvariant, NEW h \in Finished, SettleGame(h)
  PROVE  LockInvariant'
  <1> USE DEF LockInvariant
  <1>1. step[h].at = "saved" /\ UNCHANGED lockVars
    BY DEF SettleGame, MaySettle
  <1>2. DOMAIN job' = Finished /\ \A g \in Finished : g # h => job'[g] = job[g]
    BY DEF SettleGame, ReadUser0, ReadUser1, Forget, Commit, LockedTypeOK
  <1>3. LockedTypeOK' /\ ReadersHaveTheLock'
    BY <1>1, <1>2 DEF LockedTypeOK, ReadersHaveTheLock, Game, lockVars
  <1>4. EndsStand' /\ EndersDiffer' /\ GamesAreCounted'
    BY <1>1 DEF EndsStand, EndersDiffer, GamesAreCounted, Ender, Closed, lockVars
  <1>5. Ender(h)
    BY <1>1 DEF Ender, ReadersHaveTheLock
  <1>6. SettlersAreEnders'
    BY <1>1, <1>2, <1>5 DEF SettlersAreEnders, Ender, lockVars
  <1> QED BY <1>3, <1>4, <1>6

\* TellRoom and Unlock: an ender stays one.
LEMMA TellRoomKeeps ==
  ASSUME LockInvariant, NEW h \in Finished, TellRoom(h)
  PROVE  LockInvariant'
  <1> USE DEF LockInvariant
  <1>1. /\ step' \in [Finished -> [at : Stages, n : Nat]]
        /\ step'[h].at = "out" /\ step'[h].n = step[h].n
        /\ \A g \in Finished : g # h => step'[g] = step[g]
    BY GoOnMoves DEF TellRoom, Stages, LockedTypeOK
  <1>2. step[h].at = "saved" /\ UNCHANGED <<state, lock, vars>>
    BY DEF TellRoom
  <1>3. LockedTypeOK' /\ ReadersHaveTheLock'
    BY <1>1, <1>2 DEF LockedTypeOK, ReadersHaveTheLock, Game, vars
  <1>4. EndsStand' /\ EndersDiffer'
    BY <1>1, <1>2 DEF EndsStand, EndersDiffer, Ender, Closed
  <1>5. SettlersAreEnders' /\ GamesAreCounted'
    BY <1>1, <1>2 DEF SettlersAreEnders, GamesAreCounted, Ender, vars, Closed
  <1> QED BY <1>3, <1>4, <1>5

\* Unlock: the handler gives the lock back.
LEMMA UnlockKeeps ==
  ASSUME LockInvariant, NEW h \in Finished, Unlock(h)
  PROVE  LockInvariant'
  <1> USE DEF LockInvariant
  <1>1. /\ step' \in [Finished -> [at : Stages, n : Nat]]
        /\ step'[h].at = "done" /\ step'[h].n = step[h].n
        /\ \A g \in Finished : g # h => step'[g] = step[g]
    BY GoOnMoves DEF Unlock, Stages, LockedTypeOK
  <1>2. step[h].at = "out" /\ UNCHANGED <<state, vars>>
    BY DEF Unlock
  <1>3. /\ lock' \in [Rooms -> Finished \cup {Nobody}]
        /\ \A x \in Rooms : lock[x] # h => lock'[x] = lock[x]
    BY DEF Unlock, LockedTypeOK
  <1>4. LockedTypeOK'
    BY <1>1, <1>2, <1>3 DEF LockedTypeOK, vars
  <1>5. ReadersHaveTheLock'
    BY <1>1, <1>2, <1>3, RoomsAssumption DEF ReadersHaveTheLock, Game
  <1>6. EndsStand' /\ EndersDiffer'
    BY <1>1, <1>2 DEF EndsStand, EndersDiffer, Ender, Closed
  <1>7. SettlersAreEnders' /\ GamesAreCounted'
    BY <1>1, <1>2 DEF SettlersAreEnders, GamesAreCounted, Ender, vars, Closed
  <1> QED BY <1>4, <1>5, <1>6, <1>7

\* ExpireLock: the handler that loses its lock has saved its game.
LEMMA ExpireLockKeeps ==
  ASSUME LockInvariant, NEW x \in Rooms, ExpireLock(x)
  PROVE  LockInvariant'
  <1> USE DEF LockInvariant
  <1>1. UNCHANGED <<state, step, vars>>
    BY DEF ExpireLock
  <1>2. /\ lock' \in [Rooms -> Finished \cup {Nobody}]
        /\ step[lock[x]].at \in {"saved", "out"}
        /\ \A y \in Rooms : y # x => lock'[y] = lock[y]
    BY DEF ExpireLock, LockedTypeOK
  <1>3. LockedTypeOK'
    BY <1>1, <1>2 DEF LockedTypeOK, vars
  <1>4. ReadersHaveTheLock'
    BY <1>1, <1>2, RoomsAssumption DEF ReadersHaveTheLock, Game
  <1>5. EndsStand' /\ EndersDiffer' /\ SettlersAreEnders' /\ GamesAreCounted'
    BY <1>1 DEF EndsStand, EndersDiffer, SettlersAreEnders, GamesAreCounted, Ender, Closed, vars
  <1> QED BY <1>3, <1>4, <1>5

\* Rematch and Leave: nobody has the lock, so nobody has read what is replaced.
LEMMA RematchKeeps ==
  ASSUME LockInvariant, NEW x \in Rooms, Rematch(x)
  PROVE  LockInvariant'
  <1> USE DEF LockInvariant
  <1>1. lock[x] = Nobody /\ state[x].by # Nobody /\ UNCHANGED <<lock, step, vars>>
    BY DEF Rematch
  <1>2. /\ state' \in [Rooms -> [n : Nat, by : Finished \cup {Nobody}]]
        /\ state'[x].n = state[x].n + 1 /\ state[x].n \in Nat /\ state[x] # Closed
        /\ \A y \in Rooms : y # x => state'[y] = state[y]
    BY <1>1 DEF Rematch, LockedTypeOK, Game, Closed
  <1>3. LockedTypeOK'
    BY <1>1, <1>2 DEF LockedTypeOK, vars
  <1>4. ReadersHaveTheLock'
    BY <1>1, <1>2, RoomsAssumption DEF ReadersHaveTheLock, Game
  <1>5. EndsStand'
    BY <1>1, <1>2, RoomsAssumption DEF EndsStand, Ender, Closed, LockedTypeOK
  <1>6. EndersDiffer' /\ SettlersAreEnders' /\ GamesAreCounted'
    BY <1>1, <1>2 DEF EndersDiffer, SettlersAreEnders, GamesAreCounted, Ender, Closed, vars
  <1> QED BY <1>3, <1>4, <1>5, <1>6

LEMMA LeaveKeeps ==
  ASSUME LockInvariant, NEW x \in Rooms, Leave(x)
  PROVE  LockInvariant'
  <1> USE DEF LockInvariant
  <1>1. lock[x] = Nobody /\ UNCHANGED <<lock, step, vars>>
    BY DEF Leave
  <1>2. /\ state' \in [Rooms -> [n : Nat, by : Finished \cup {Nobody}]]
        /\ state'[x] = Closed
        /\ \A y \in Rooms : y # x => state'[y] = state[y]
    BY DEF Leave, LockedTypeOK, Closed
  <1>3. LockedTypeOK'
    BY <1>1, <1>2 DEF LockedTypeOK, vars
  <1>4. ReadersHaveTheLock'
    BY <1>1, <1>2, RoomsAssumption DEF ReadersHaveTheLock, Game
  <1>5. EndsStand' /\ GamesAreCounted'
    BY <1>1, <1>2, RoomsAssumption, ZenonT(60) DEF EndsStand, GamesAreCounted, Ender, Closed
  <1>6. EndersDiffer' /\ SettlersAreEnders'
    BY <1>1 DEF EndersDiffer, SettlersAreEnders, Ender, vars
  <1> QED BY <1>3, <1>4, <1>5, <1>6

\* The steps together, and the steps in which nothing happens.
LEMMA LockStep == LockInvariant /\ [LockedNext]_<<vars, lockVars>> => LockInvariant'
  <1> SUFFICES ASSUME LockInvariant, [LockedNext]_<<vars, lockVars>>
               PROVE  LockInvariant'
    OBVIOUS
  <1>1. ASSUME NEW h \in Finished,
               TakeLock(h) \/ MissLock(h) \/ ReadGame(h) \/ SaveGame(h) \/ StoreFails(h)
        PROVE  LockInvariant'
    BY <1>1, TakeLockKeeps, MissLockKeeps, ReadGameKeeps, SaveGameKeeps, StoreFailsKeeps
  <1>2. ASSUME NEW h \in Finished, SettleGame(h) \/ TellRoom(h) \/ Unlock(h)
        PROVE  LockInvariant'
    BY <1>2, SettleGameKeeps, TellRoomKeeps, UnlockKeeps
  <1>3. ASSUME NEW x \in Rooms, ExpireLock(x) \/ Rematch(x) \/ Leave(x)
        PROVE  LockInvariant'
    BY <1>3, ExpireLockKeeps, RematchKeeps, LeaveKeeps
  <1>4. CASE UNCHANGED <<vars, lockVars>>
    BY <1>4 DEF LockInvariant, LockedTypeOK, ReadersHaveTheLock, EndsStand, EndersDiffer,
                SettlersAreEnders, GamesAreCounted, Ender, Game, Closed, vars, lockVars
  <1> QED BY <1>1, <1>2, <1>3, <1>4 DEF LockedNext

\* The invariant of the locks holds in every reachable state.
THEOREM LocksHold == LockedSpec => []LockInvariant
  BY LockInit, LockStep, PTL DEF LockedSpec

-----------------------------------------------------------------------------
(* The properties. *)

\* A game is settled at most once, although the lock of its room may be lost in the
\* middle of the settlement (withLock in store.go, SettleGame in settlement.go).
THEOREM SettledOnce == LockedSpec => []GamesAreSettledOnce
  <1>1. LockInvariant => GamesAreSettledOnce
    BY DEF LockInvariant, EndersDiffer, SettlersAreEnders, GamesAreSettledOnce
  <1> QED BY <1>1, LocksHold, PTL

\* What was settled stands: the state that playerMove or resign saved before it settled
\* the game is replaced by the next game only.
THEOREM SettledStays == LockedSpec => []SettledGamesAreOver
  <1>1. LockInvariant => SettledGamesAreOver
    BY DEF LockInvariant, LockedTypeOK, EndsStand, SettlersAreEnders, Ender,
           SettledGamesAreOver, Closed
  <1> QED BY <1>1, LocksHold, PTL

-----------------------------------------------------------------------------
(* The record of the wins. *)

\* Only settled games are in the history, each once; and the wins agree with it.
WinInvariant ==
    /\ wins \in [Users -> Nat]
    /\ IsFiniteSet(games)
    /\ DOMAIN job = Finished
    /\ \A r \in games : r.game \in Finished /\ job[r.game].at = "settled"
    /\ WinsMatchHistory

\* FinishGame adds a game that was not in the history, and counts it for its winner.
LEMMA CommitCounts ==
  ASSUME WinInvariant, NEW g \in Finished, Commit(g)
  PROVE  WinInvariant'
  <1> DEFINE u0 == Player0[g]
             u1 == Player1[g]
             w == job[g].winner
             r == [game |-> g, winner |-> w, delta |-> Delta0(job[g].elo0, job[g].elo1, w)]
  <1> USE DEF WinInvariant
  <1>1. /\ job[g].at = "both"
        /\ games' = games \cup {r}
        /\ wins' = [wins EXCEPT ![u0] = @ + Won(0, w), ![u1] = @ + Won(1, w)]
        /\ job' = [job EXCEPT ![g] = [at |-> "settled"]]
    BY DEF Commit
  <1>2. u0 \in Users /\ u1 \in Users /\ u0 # u1
    BY PlayersAssumption
  <1>3. r \notin games /\ r.game = g /\ r.winner = w
    BY <1>1
  <1>4. IsFiniteSet(games')
    BY <1>1, FS_AddElement
  <1>5. \A q \in games' : q.game \in Finished /\ job'[q.game].at = "settled"
    BY <1>1, <1>3
  <1>6. wins' \in [Users -> Nat]
    BY <1>1, <1>2 DEF Won, One
  <1>7. ASSUME NEW u \in Users
        PROVE  wins'[u] = Cardinality(WonBy(u)')
    <2> DEFINE Wins(v) == (w = 0 /\ u0 = v) \/ (w = 1 /\ u1 = v)
    <2>1. wins[u] = Cardinality(WonBy(u)) /\ IsFiniteSet(WonBy(u))
      BY FS_Subset DEF WinsMatchHistory, WonBy
    <2>2. CASE Wins(u)
      <3>1. WonBy(u)' = WonBy(u) \cup {r} /\ r \notin WonBy(u)
        BY <1>1, <1>3, <2>2 DEF WonBy
      <3>2. Cardinality(WonBy(u)') = Cardinality(WonBy(u)) + 1
        BY <2>1, <3>1, FS_AddElement
      <3>3. wins'[u] = wins[u] + 1
        BY <1>1, <1>2, <2>2 DEF Won, One
      <3> QED BY <2>1, <3>2, <3>3
    <2>3. CASE ~Wins(u)
      <3>1. WonBy(u)' = WonBy(u)
        BY <1>1, <1>3, <2>3 DEF WonBy
      <3>2. wins'[u] = wins[u]
        BY <1>1, <1>2, <2>3 DEF Won, One
      <3> QED BY <2>1, <3>1, <3>2
    <2> QED BY <2>2, <2>3
  <1>8. DOMAIN job' = Finished
    BY <1>1
  <1> QED BY <1>4, <1>5, <1>6, <1>7, <1>8 DEF WinsMatchHistory

LEMMA WinStep == WinInvariant /\ [LockedNext]_<<vars, lockVars>> => WinInvariant'
  <1> SUFFICES ASSUME WinInvariant, [LockedNext]_<<vars, lockVars>>
               PROVE  WinInvariant'
    OBVIOUS
  <1>1. CASE UNCHANGED vars
    BY <1>1 DEF WinInvariant, WinsMatchHistory, WonBy, vars
  <1>2. ASSUME NEW g \in Finished, ReadUser0(g) \/ ReadUser1(g) \/ Forget(g)
        PROVE  WinInvariant'
    <2>1. /\ job[g].at # "settled" /\ DOMAIN job' = DOMAIN job
          /\ \A h \in Finished : h # g => job'[h] = job[h]
          /\ UNCHANGED <<wins, games>>
      BY <1>2 DEF ReadUser0, ReadUser1, Forget, WinInvariant
    <2> QED BY <2>1 DEF WinInvariant, WinsMatchHistory, WonBy
  <1>3. ASSUME NEW g \in Finished, SettleGame(g)
        PROVE  WinInvariant'
    BY <1>2, <1>3, CommitCounts DEF SettleGame
  <1> QED
    BY <1>1, <1>3 DEF LockedNext, TakeLock, MissLock, ReadGame, SaveGame, StoreFails, TellRoom,
                      Unlock, ExpireLock, Rematch, Leave, lockVars, vars

\* The wins of a user are the games the history says the user won, however the
\* settlements of several rooms interleave or fail (FinishGame in games.go).
THEOREM WinsCounted == LockedSpec => []WinsMatchHistory
  <1>1. LockedInit => WinInvariant
    BY FS_EmptySet DEF LockedInit, Init, WinInvariant, WinsMatchHistory, WonBy
  <1>2. WinInvariant => WinsMatchHistory
    BY DEF WinInvariant
  <1> QED BY <1>1, <1>2, WinStep, PTL DEF LockedSpec

-----------------------------------------------------------------------------
(* The ratings. *)

\* The recursive function of Awards.
AwardsAdd(h, u, S) ==
    h = [s \in SUBSET S |-> IF s = {} THEN 0 ELSE Award(u, Pick(s)) + h[s \ {Pick(s)}]]

\* The awards are a sum of the kind Sums speaks of.
LEMMA AwardsAreSums ==
  ASSUME NEW S, IsFiniteSet(S), NEW u, NEW f, \A r \in S : f[r] = Award(u, r)
  PROVE  Awards(u, S) = SumFunctionOnSet(f, S)
  <1>1. ASSUME NEW h
        PROVE  AwardsAdd(h, u, S) <=> Adds(h, f, S)
    <2>1. \A s \in SUBSET S : s # {} => f[Pick(s)] = Award(u, Pick(s))
      BY PickIsElement
    <2>2. [s \in SUBSET S |-> IF s = {} THEN 0 ELSE f[Pick(s)] + h[s \ {Pick(s)}]]
          = [s \in SUBSET S |-> IF s = {} THEN 0
                               ELSE Award(u, Pick(s)) + h[s \ {Pick(s)}]]
      BY <2>1
    <2> QED BY <2>2 DEF Adds, AwardsAdd
  <1> DEFINE iter == CHOOSE h : AwardsAdd(h, u, S)
  <1>2. AwardsAdd(iter, u, S)
    <2>1. \E h : AwardsAdd(h, u, S)
      BY <1>1, SumsExist
    <2> QED BY <2>1
  <1>3. Awards(u, S) = iter[S]
    BY DEF Awards, MapThenSumSet, MapThenFoldSet, AwardsAdd, Pick
  <1> HIDE DEF iter
  <1>4. Adds(iter, f, S)
    BY <1>1, <1>2
  <1>5. PICK h : Adds(h, f, S) /\ SumFunctionOnSet(f, S) = h[S]
    BY SumAdds
  <1>6. iter[S] = h[S]
    BY <1>4, <1>5, SumsAreUnique
  <1> QED BY <1>3, <1>5, <1>6

\* One game more, one award more.
LEMMA AwardsGrow ==
  ASSUME NEW S, IsFiniteSet(S), NEW x, x \notin S, NEW u,
         \A r \in S \cup {x} : r.delta \in Int
  PROVE  /\ Awards(u, S) \in Int
         /\ Awards(u, S \cup {x}) = Awards(u, S) + Award(u, x)
  <1> DEFINE T == S \cup {x}
             f == [r \in T |-> Award(u, r)]
  <1>1. IsFiniteSet(T)
    BY FS_AddElement
  <1>2. \A r \in T : f[r] \in Int
    BY DEF Award
  <1>3. \A r \in T : f[r] = Award(u, r)
    OBVIOUS
  <1> HIDE DEF f
  <1>4. Awards(u, S) = SumFunctionOnSet(f, S) /\ Awards(u, T) = SumFunctionOnSet(f, T)
    BY <1>1, <1>3, AwardsAreSums
  <1>5. /\ SumFunctionOnSet(f, S) \in Int
        /\ SumFunctionOnSet(f, S \cup {x}) = SumFunctionOnSet(f, S) + f[x]
    BY <1>2, SumOfMore
  <1> QED BY <1>3, <1>4, <1>5

\* Nothing is earned without a game.
LEMMA AwardsOfNone == \A u : Awards(u, {}) = 0
  BY AwardsAreSums, SumOfNone, FS_EmptySet

\* A rating changes by what it is changed by, unless that leads below the floor.
LEMMA FloorRaises ==
  ASSUME NEW rating \in Int, NEW delta \in Int
  PROVE  /\ Rated(rating, delta) \in Int
         /\ \/ Rated(rating, delta) = rating + delta
            \/ rating + delta < RatingFloor /\ Rated(rating, delta) = RatingFloor
  <1> DEFINE sum == rating + delta
             choices == {RatingFloor, sum}
             top == IF sum >= RatingFloor THEN sum ELSE RatingFloor
  <1>1. sum \in Int /\ RatingFloor \in Int
    BY DEF RatingFloor
  <1>2. top \in choices /\ \A y \in choices : top >= y
    BY <1>1
  <1>3. Max(choices) \in choices /\ \A y \in choices : Max(choices) >= y
    <2> HIDE DEF choices, top
    <2> QED BY <1>2 DEF Max
  <1>4. Rated(rating, delta) = Max(choices)
    BY DEF Rated
  <1> HIDE DEF sum
  <1>5. /\ Max(choices) \in Int
        /\ Max(choices) = sum \/ (sum < RatingFloor /\ Max(choices) = RatingFloor)
    BY <1>1, <1>3
  <1> QED BY <1>4, <1>5 DEF sum

\* What a game is worth is a number, whatever the handler has read.
LEMMA DeltaIsInteger == \A a, b, w : Delta0(a, b, w) \in Int
  <1>1. ASSUME NEW gap
        PROVE  Expected(gap) \in Nat
    <2> DEFINE reached == {k \in 1..32 : gap <= Gaps[k]}
    <2>1. IsFiniteSet(1..32)
      <3>1. \A n \in Int : IsFiniteSet(1..n)
        BY FS_Interval
      <3>2. 32 \in Int
        OBVIOUS
      <3> QED BY <3>1, <3>2, Zenon
    <2>2. reached \subseteq 1..32
      OBVIOUS
    <2>3. Cardinality(reached) \in Nat
      <3> HIDE DEF reached
      <3> QED BY <2>1, <2>2, FS_Subset, FS_CardinalityType
    <2> QED BY <2>3 DEF Expected
  <1>2. \A w : Score0(w) \in Int
    BY DEF Score0
  <1> QED BY <1>1, <1>2 DEF Delta0

\* What RatingsAddUp says of one user who has earned and was given so much.
AddsUp(rating, earned, given) ==
    \/ rating = earned
    \/ earned < rating /\ rating <= RatingFloor + given /\ earned - given < RatingFloor

\* It stays so when the rating is changed and the history gets one award more.
LEMMA RatedAddsUp ==
  ASSUME NEW rating \in Int, NEW earned \in Int, NEW given \in Nat,
         AddsUp(rating, earned, given), NEW award \in Int
  PROVE  LET more == IF award > 0 THEN given + award ELSE given
         IN  more \in Nat /\ AddsUp(Rated(rating, award), earned + award, more)
  <1> DEFINE more == IF award > 0 THEN given + award ELSE given
  <1>1. more \in Nat /\ given <= more /\ earned + award - more <= earned - given
    OBVIOUS
  <1>2. /\ Rated(rating, award) \in Int
        /\ \/ Rated(rating, award) = rating + award
           \/ rating + award < RatingFloor /\ Rated(rating, award) = RatingFloor
    BY FloorRaises
  <1>3. AddsUp(Rated(rating, award), earned + award, more)
    BY <1>2 DEF AddsUp, RatingFloor
  <1> QED BY <1>1, <1>3

\* The games that gave u something.
Gifts(u) == {r \in PlayedBy(u) : Award(u, r) > 0}

\* Only settled games are in the history, each with what it was worth; and the ratings
\* have got all of it, and nothing else.
RatingInvariant ==
    /\ elo \in [Users -> Int]
    /\ IsFiniteSet(games)
    /\ DOMAIN job = Finished
    /\ \A r \in games :
          r.game \in Finished /\ job[r.game].at = "settled" /\ r.delta \in Int
    /\ \A u \in Users :
          /\ Given(u) \in Nat
          /\ AddsUp(elo[u], Earned(u), Given(u))

\* FinishGame adds to what the rating is, not to what the handler has read: so it adds the
\* award of its game to those that are counted already.
LEMMA CommitRates ==
  ASSUME RatingInvariant, NEW g \in Finished, Commit(g)
  PROVE  RatingInvariant'
  <1> DEFINE u0 == Player0[g]
             u1 == Player1[g]
             d == Delta0(job[g].elo0, job[g].elo1, job[g].winner)
             r == [game |-> g, winner |-> job[g].winner, delta |-> d]
  <1> USE DEF RatingInvariant
  <1>1. /\ job[g].at = "both"
        /\ games' = games \cup {r}
        /\ elo' = [elo EXCEPT ![u0] = Rated(elo[u0], d), ![u1] = Rated(elo[u1], -d)]
        /\ job' = [job EXCEPT ![g] = [at |-> "settled"]]
    BY DEF Commit, NewRating
  <1>2. u0 \in Users /\ u1 \in Users /\ u0 # u1
    BY PlayersAssumption
  <1>3. d \in Int /\ -d \in Int
    BY DeltaIsInteger
  <1> HIDE DEF d
  <1>4. r \notin games /\ r.game = g /\ r.delta = d
    BY <1>1
  <1>5. IsFiniteSet(games')
    BY <1>1, FS_AddElement
  <1> HIDE DEF r
  <1>6. \A q \in games' :
           q.game \in Finished /\ job'[q.game].at = "settled" /\ q.delta \in Int
    BY <1>1, <1>3, <1>4
  <1>7. elo' \in [Users -> Int]
    <2>1. Rated(elo[u0], d) \in Int /\ Rated(elo[u1], -d) \in Int
      BY <1>2, <1>3, FloorRaises
    <2> QED BY <1>1, <1>2, <2>1
  <1>8. ASSUME NEW u \in Users
        PROVE  Given(u)' \in Nat /\ AddsUp(elo'[u], Earned(u)', Given(u)')
    <2>1. /\ PlayedBy(u) \subseteq games /\ IsFiniteSet(PlayedBy(u)) /\ r \notin PlayedBy(u)
          /\ Gifts(u) \subseteq games /\ IsFiniteSet(Gifts(u)) /\ r \notin Gifts(u)
          /\ Standing[u] \in Int /\ elo[u] \in Int
      <3>1. PlayedBy(u) \subseteq games /\ Gifts(u) \subseteq games
        BY DEF PlayedBy, Gifts
      <3> QED BY <3>1, <1>4, FS_Subset, StandingAssumption
    <2>2. /\ Awards(u, PlayedBy(u)) \in Int
          /\ Awards(u, PlayedBy(u) \cup {r}) = Awards(u, PlayedBy(u)) + Award(u, r)
      <3>1. \A q \in PlayedBy(u) \cup {r} : q.delta \in Int
        BY <2>1, <1>3, <1>4
      <3> QED BY <3>1, <2>1, AwardsGrow
    <2>3. Awards(u, Gifts(u) \cup {r}) = Given(u) + Award(u, r) /\ Given(u) = Awards(u, Gifts(u))
      <3>1. \A q \in Gifts(u) \cup {r} : q.delta \in Int
        BY <2>1, <1>3, <1>4
      <3>2. Given(u) = Awards(u, Gifts(u))
        BY DEF Given, Gifts
      <3> QED BY <3>1, <3>2, <2>1, AwardsGrow
    <2>4. CASE u \in {u0, u1}
      <3>1. PlayedBy(u)' = PlayedBy(u) \cup {r}
        BY <1>1, <1>4, <2>4 DEF PlayedBy
      <3>2. Gifts(u)' = IF Award(u, r) > 0 THEN Gifts(u) \cup {r} ELSE Gifts(u)
        BY <3>1 DEF Gifts, Award
      <3>3. elo'[u] = Rated(elo[u], Award(u, r)) /\ Award(u, r) \in Int
        <4>1. CASE u = u0
          BY <4>1, <1>1, <1>2, <1>3, <1>4 DEF Award
        <4>2. CASE u = u1
          BY <4>2, <1>1, <1>2, <1>3, <1>4 DEF Award
        <4> QED BY <2>4, <4>1, <4>2
      <3>4. PICK award \in Int, earned \in Int, given \in Nat :
               award = Award(u, r) /\ earned = Earned(u) /\ given = Given(u)
        <4>1. Earned(u) \in Int
          BY <2>1, <2>2 DEF Earned
        <4>2. Given(u) \in Nat
          OBVIOUS
        <4> QED BY <3>3, <4>1, <4>2
      <3>5. AddsUp(elo[u], earned, given)
        BY <3>4
      <3>6. LET more == IF award > 0 THEN given + award ELSE given
            IN  more \in Nat /\ AddsUp(Rated(elo[u], award), earned + award, more)
        BY <2>1, <3>5, RatedAddsUp
      <3>7. Given(u)' = IF award > 0 THEN given + award ELSE given
        BY <2>3, <3>2, <3>4 DEF Given, Gifts
      <3>8. Earned(u)' = earned + award
        BY <2>1, <2>2, <3>1, <3>4 DEF Earned
      <3> QED BY <3>3, <3>4, <3>6, <3>7, <3>8
    <2>5. CASE u \notin {u0, u1}
      <3>1. PlayedBy(u)' = PlayedBy(u)
        BY <1>1, <1>4, <2>5 DEF PlayedBy
      <3>2. Gifts(u)' = Gifts(u)
        BY <3>1 DEF Gifts, Award
      <3>3. elo'[u] = elo[u]
        BY <1>1, <2>5
      <3> QED BY <3>1, <3>2, <3>3 DEF Earned, Given, Gifts
    <2> QED BY <2>4, <2>5
  <1>9. DOMAIN job' = Finished
    BY <1>1
  <1> QED BY <1>5, <1>6, <1>7, <1>8, <1>9

\* What was earned and given depends on the history only.
LEMMA SameHistory ==
  ASSUME UNCHANGED games
  PROVE  \A u \in Users : Earned(u)' = Earned(u) /\ Given(u)' = Given(u)
  <1>1. \A u \in Users : PlayedBy(u)' = PlayedBy(u)
    BY DEF PlayedBy
  <1> QED BY <1>1 DEF Earned, Given

\* No other step rates anybody.
LEMMA RatingStep == RatingInvariant /\ [LockedNext]_<<vars, lockVars>> => RatingInvariant'
  <1> SUFFICES ASSUME RatingInvariant, [LockedNext]_<<vars, lockVars>>
               PROVE  RatingInvariant'
    OBVIOUS
  <1>1. CASE UNCHANGED vars
    BY <1>1, SameHistory DEF RatingInvariant, vars
  <1>2. ASSUME NEW g \in Finished, ReadUser0(g) \/ ReadUser1(g) \/ Forget(g)
        PROVE  RatingInvariant'
    <2>1. /\ job[g].at # "settled" /\ DOMAIN job' = DOMAIN job
          /\ \A h \in Finished : h # g => job'[h] = job[h]
          /\ UNCHANGED <<elo, games>>
      BY <1>2 DEF ReadUser0, ReadUser1, Forget, RatingInvariant
    <2> QED BY <2>1, SameHistory DEF RatingInvariant
  <1>3. ASSUME NEW g \in Finished, SettleGame(g)
        PROVE  RatingInvariant'
    BY <1>2, <1>3, CommitRates DEF SettleGame
  <1> QED
    BY <1>1, <1>3 DEF LockedNext, TakeLock, MissLock, ReadGame, SaveGame, StoreFails, TellRoom,
                      Unlock, ExpireLock, Rematch, Leave, lockVars, vars

\* Although a handler reads the ratings outside the transaction of FinishGame, a rating is
\* what the history awarded, no more and no less, until the floor stops a fall; from then on
\* it is more, but not by more than the history gave from the floor up.
THEOREM RatingsKept == LockedSpec => []RatingsAddUp
  <1>1. LockedInit => RatingInvariant
    <2>1. ASSUME LockedInit, NEW u \in Users
          PROVE  Given(u) \in Nat /\ AddsUp(elo[u], Earned(u), Given(u))
      <3>1. PlayedBy(u) = {} /\ elo[u] = Standing[u] /\ Standing[u] \in Int
        BY <2>1, StandingAssumption DEF LockedInit, Init, PlayedBy
      <3>2. {r \in PlayedBy(u) : Award(u, r) > 0} = {}
        BY <3>1
      <3>3. Earned(u) = Standing[u] /\ Given(u) = 0
        BY <3>1, <3>2, AwardsOfNone DEF Earned, Given
      <3> QED BY <3>1, <3>3 DEF AddsUp
    <2> QED BY <2>1, FS_EmptySet, StandingAssumption DEF LockedInit, Init, RatingInvariant
  <1>2. RatingInvariant => RatingsAddUp
    BY DEF RatingInvariant, AddsUp, RatingsAddUp
  <1> QED BY <1>1, <1>2, RatingStep, PTL DEF LockedSpec
=============================================================================
