-------------------------------- MODULE Faults --------------------------------
(***************************************************************************)
(* Matching when an instance is shut down, dies, or cannot reach Redis.    *)
(*                                                                         *)
(* Hub.Close (hub.go) cancels the context of everything that runs on its   *)
(* instance: the next call to Redis of a handler fails, the subscriber     *)
(* ends, and the connections close without their own clean-up              *)
(* (lifecycle.go, onDisconnect).  When all goroutines have ended, Close    *)
(* leaves the rooms and the queue for its clients, one after the other,    *)
(* unless its ten seconds are over before.  Leaving has a deadline of its  *)
(* own and is not cut off.  A process that is killed just stops.           *)
(*                                                                         *)
(* Elsewhere a call to Redis may fail at any step of matching, and in      *)
(* leaving once the seat was given up; the handler gives its lock back,    *)
(* answers with an error and ends, and the browser closes the connection   *)
(* of a client that waits.  A call that fails may have been carried out:   *)
(* only its answer is missing.                                             *)
(***************************************************************************)
EXTENDS Matchmaking

CONSTANTS Faulty,         \* the instances on which something may go wrong
          MaxFaults       \* bound on the failing calls, shutdowns and deaths together

VARIABLES closing,        \* per instance: running, closing or stopped
          faults,         \* how many there have been
          lost            \* history: whom and what a failure has left behind

faultVars == <<closing, faults, lost>>

ASSUME FaultsAssumption == Faulty \subseteq Instances /\ MaxFaults \in Nat

Running == [at |-> "running"]
Stopped(inTime, clients) == [at |-> "stopped", inTime |-> inTime, clients |-> clients]
Up(i) == closing[i] = Running

FaultInit ==
    /\ MatchInit
    /\ closing = [i \in Instances |-> Running]
    /\ faults = 0
    /\ lost = [clients |-> {}, rooms |-> {}]

\* Something goes wrong on an instance that runs.
FaultAt(i) ==
    /\ i \in Faulty /\ Up(i)
    /\ faults < MaxFaults /\ Cardinality(drawn) <= 1
    /\ faults' = faults + 1

ClientsOf(i) == {c \in Clients : Host[c] = i}
ProcsOf(i) == {p \in Procs : Host[p[1]] = i}

-----------------------------------------------------------------------------
(* What is left behind when handlers of the read loops cs and the processes   *)
(* ps break off: the partner that was taken and not yet seated, the room      *)
(* nobody sits in.                                                            *)

\* A handler that has begun to seat somebody or to make somebody get up.
Seating == {"created", "joined", "unbound", "closing"}

Partners(ps) == {proc[p].partner : p \in {q \in ps : proc[q].at \in {"create", "bind"}}}
RoomsOf(cs, ps) ==
    {proc[p].room : p \in {q \in ps : At(q, "bind")}}
      \cup {op[c].room : c \in {d \in cs : op[d].kind \in Seating}}

Lose(clients, newRooms) ==
    lost' = [clients |-> lost.clients \cup clients, rooms |-> lost.rooms \cup newRooms]

\* The process p breaks off.
Break(p) ==
    /\ Done(p)
    /\ Lose(Partners({p}), RoomsOf({}, {p}))

-----------------------------------------------------------------------------
(* Shutdown. *)

\* Close up to h.cancel() and the closing of its clients.
BeginClose(i) ==
    /\ FaultAt(i)
    /\ LET here == {c \in ClientsOf(i) : alive[c] # "gone"}
       IN  closing' = [closing EXCEPT ![i] = [at |-> "closing", clients |-> here, left |-> here]]
    /\ alive' = [c \in Clients |-> IF Host[c] = i /\ alive[c] = "up" THEN "cancelled"
                                   ELSE alive[c]]
    /\ UNCHANGED <<redis, localRooms, member, op, shown, aiTasks, matchVars, lost>>

\* The next call of a process fails, a search does not give back its lock; a call that
\* was already under way may still be carried out.
CutProcess(p) ==
    /\ closing[Host[p[1]]].at = "closing" /\ proc[p] # Resting
    /\ Break(p)
    /\ \/ UNCHANGED queue
       \/ At(p, "enqueue") /\ queue' = queue \cup {p[1]}
    /\ UNCHANGED <<redis, hub, shown, aiTasks, matchLock, waiting, closing, faults>>

\* The next call of a handler fails; it does not give back the lock of its room.
CutHandler(c) ==
    /\ closing[Host[c]].at = "closing"
    /\ op[c].kind \in {"created", "joined"} \cup Commands
    /\ Return(c)
    /\ Lose({}, RoomsOf({c}, {}))
    /\ UNCHANGED <<redis, hub, shown, aiTasks, matchVars, closing, faults>>

\* onDisconnect returns at once.
EndReadLoop(c) ==
    /\ closing[Host[c]].at = "closing"
    /\ op[c] = Idle /\ alive[c] = "cancelled"
    /\ alive' = [alive EXCEPT ![c] = "gone"]
    /\ waiting' = [waiting EXCEPT ![c] = FALSE]
    /\ UNCHANGED <<redis, localRooms, member, op, shown, aiTasks, queue, matchLock, proc,
                   faultVars>>

\* Mutant of WorkersEnded: the rechecks may run on.
ReadLoopsEnded(i) == \A c \in ClientsOf(i) : alive[c] = "gone" /\ op[c] = Idle

\* h.workers.Wait() has returned; and Close is between two of its clients.
WorkersEnded(i) ==
    /\ \A c \in ClientsOf(i) : alive[c] = "gone" /\ op[c] = Idle
    /\ \A p \in ProcsOf(i) : proc[p] = Resting

\* Mutant of CleanUpFor: only the queue is cleaned up.
CleanQueueFor(c) ==
    /\ queue' = queue \ {c}
    /\ closing' = [closing EXCEPT ![Host[c]].left = @ \ {c}]
    /\ UNCHANGED op

\* leaveRoomContext, whose steps Room has, then the entry in the queue.
CleanUpFor(c) ==
    IF InRoom(c)
    THEN /\ op' = [op EXCEPT ![c] = [kind |-> "leave", room |-> member[c].room]]
         /\ UNCHANGED <<queue, closing>>
    ELSE /\ queue' = queue \ {c}
         /\ closing' = [closing EXCEPT ![Host[c]].left = @ \ {c}]
         /\ UNCHANGED op

CloseClient(i) ==
    /\ closing[i].at = "closing" /\ WorkersEnded(i)
    /\ \E c \in closing[i].left : CleanUpFor(c)
    /\ UNCHANGED <<redis, hub, shown, aiTasks, matchLock, proc, waiting, faults, lost>>

EndClose(i) ==
    /\ closing[i].at = "closing" /\ WorkersEnded(i) /\ closing[i].left = {}
    /\ closing' = [closing EXCEPT ![i] = Stopped(TRUE, @.clients)]
    /\ UNCHANGED <<vars, matchVars, faults, lost>>

\* The process is killed, or the time of Close is over.
Die(i) ==
    /\ FaultAt(i) \/ (closing[i].at = "closing" /\ UNCHANGED faults)
    /\ closing' = [closing EXCEPT ![i] = Stopped(FALSE, {})]
    /\ alive' = [c \in Clients |-> IF Host[c] = i THEN "gone" ELSE alive[c]]
    /\ op' = [c \in Clients |-> IF Host[c] = i THEN Idle ELSE op[c]]
    /\ proc' = [p \in Procs |-> IF Host[p[1]] = i THEN Resting ELSE proc[p]]
    /\ waiting' = [c \in Clients |-> Host[c] # i /\ waiting[c]]
    /\ Lose(Partners(ProcsOf(i)),
            RoomsOf(ClientsOf(i), ProcsOf(i))
              \cup ({member[c].room : c \in ClientsOf(i)} \ {NoCode}))
    /\ UNCHANGED <<redis, localRooms, member, shown, aiTasks, queue, matchLock>>

\* lockTTL: a lock whose holder broke off is free again at last.
ExpireLock(x) ==
    /\ lock[x] # Nobody /\ op[lock[x]] = Idle
    /\ lock' = [lock EXCEPT ![x] = Nobody]
    /\ UNCHANGED <<rooms, drawn, channel, hub, op, shown, aiTasks, matchVars, faultVars>>

\* Nobody subscribes for an instance any more.
DropMessage(i) ==
    /\ ~Up(i) /\ channel[i] # <<>>
    /\ channel' = [channel EXCEPT ![i] = Tail(@)]
    /\ UNCHANGED <<rooms, lock, drawn, hub, op, shown, aiTasks, matchVars, faultVars>>

-----------------------------------------------------------------------------
(* Calls that fail. *)

\* The answer to one who waits: the browser closes the connection.
HangUp(c) ==
    /\ alive' = [alive EXCEPT ![c] = IF @ = "up" THEN "cancelled" ELSE @]
    /\ waiting' = [waiting EXCEPT ![c] = FALSE]

\* tryPair has the match lock.
Holding == {"search", "take", "create", "bind", "start", "paired"}

\* SetNX, tryPair and enqueue.  Publishing for the partner fails only after the client was
\* seated.  A lock that was taken, or an entry that was put into the queue, without an
\* answer stays there; of the calls of tryPair it is as if the next one had failed.  The
\* last of them is the news of the start: one who has it already only shows the error.
PairingFails(p) ==
    /\ FaultAt(Host[p[1]])
    /\ proc[p].at \in {"lock", "enqueue"} \cup Holding
    /\ At(p, "paired") => shown[p[1]].screen # "game"
    /\ Break(p)
    /\ HangUp(p[1])
    /\ \/ UNCHANGED <<member, localRooms>>
       \/ At(p, "bind") /\ BindLocal(p[1], proc[p].room, 0)
    /\ \/ UNCHANGED queue
       \/ At(p, "enqueue") /\ queue' = queue \cup {p[1]}
    /\ \/ proc[p].at \in Holding /\ Release(p)
       \/ proc[p].at \notin Holding /\ UNCHANGED matchLock
       \/ At(p, "lock") /\ matchLock = Nobody /\ matchLock' = p
    /\ UNCHANGED <<redis, shown, aiTasks, closing>>

\* removeQueueEntry: the round counts as one in which somebody else has the entry, also
\* when Redis has taken it out.
RemoveFails(p) ==
    /\ FaultAt(Host[p[1]]) /\ At(p, "remove")
    /\ NextRound(p)
    /\ queue' \in {queue, queue \ {p[1]}}
    /\ Lose(queue \ queue', {})
    /\ UNCHANGED <<redis, hub, shown, aiTasks, matchLock, waiting, closing>>

\* The answer of a call is lost, and the Redis client makes it again.  What it did the
\* first time then seems to be the work of somebody else: the entry that was taken,
TakeUnheard(p) ==
    /\ FaultAt(Host[p[1]]) /\ At(p, "take")
    /\ \E d \in proc[p].seen \cap queue :
          /\ queue' = queue \ {d}
          /\ proc' = [proc EXCEPT ![p] = [at |-> "take", round |-> @.round,
                                          seen |-> @.seen \ {d}]]
          /\ Lose({d}, {})
    /\ UNCHANGED <<redis, hub, op, shown, aiTasks, matchLock, waiting, closing>>

\* and the match lock.  A recheck tries once, quickMatch goes on trying.
LockUnheard(p) ==
    /\ FaultAt(Host[p[1]]) /\ At(p, "lock") /\ alive[p[1]] = "up"
    /\ matchLock = Nobody /\ matchLock' = p
    /\ IF IsRecheck(p) THEN Goto(p, "enqueue") ELSE UNCHANGED proc
    /\ UNCHANGED <<redis, hub, op, shown, aiTasks, queue, waiting, closing, lost>>

\* releaseMatchLock: the lock stays until it expires.
ReleaseFails(p) ==
    /\ FaultAt(Host[p[1]])
    /\ \/ At(p, "paired") /\ Done(p)
       \/ At(p, "alone") /\ Goto(p, "enqueue") /\ UNCHANGED op
    /\ UNCHANGED <<redis, hub, shown, aiTasks, queue, matchLock, waiting, closing, lost>>

\* leaveLocked, after the seat was given up here: GetMeta or saveMeta; the news of a
\* guest who has left; or the deletion of the room.
LeaveFails(c) ==
    /\ FaultAt(Host[c]) /\ op[c].kind \in {"unbound", "closing"}
    /\ LET x == op[c].room
       IN  /\ \/ UNCHANGED rooms
              \/ /\ op[c].kind = "unbound" /\ op[c].seat = 1
                 /\ Exists(x) /\ rooms[x].mode = "pvp" /\ ~rooms[x].started
                 /\ rooms' = [rooms EXCEPT ![x].guest = Nobody, ![x].ready = FALSE]
           /\ lock' = [lock EXCEPT ![x] = Nobody]
    /\ Return(c)
    /\ Lose({}, RoomsOf({c}, {}))
    /\ UNCHANGED <<drawn, channel, hub, shown, aiTasks, matchVars, closing>>

\* The news that a room is closed cannot be published; it is closed all the same.
AnnounceFails(c) ==
    /\ FaultAt(Host[c]) /\ op[c].kind = "unbound"
    /\ LET x == op[c].room
       IN  /\ ~(Exists(x) /\ rooms[x].mode = "pvp" /\ ~rooms[x].started /\ op[c].seat = 1)
           /\ op' = [op EXCEPT ![c] = [kind |-> "closing", room |-> x]]
    /\ UNCHANGED <<redis, hub, shown, aiTasks, matchVars, closing, lost>>

-----------------------------------------------------------------------------
(* The rest goes on as before, on instances that run; who leaves goes on      *)
(* until its instance has stopped.                                            *)

\* bindLocal does nothing for a client who is gone: nobody sits in the room.
SeatsNobody(c, x) == lost' = IF alive[c] = "up" THEN lost ELSE [lost EXCEPT !.rooms = @ \cup {x}]

\* Bounds: after something has gone wrong no second room is made, and a room of friends is
\* the first room or none.
FirstRoom == faults > 0 => drawn = {}

Pairs(p) ==
    /\ Up(Host[p[1]])
    /\ At(p, "lock") => FirstRoom \/ matchLock # Nobody \/ alive[p[1]] # "up"
    /\ At(p, "create") => FirstRoom
    /\ Pairing(p)
    /\ IF At(p, "bind") THEN SeatsNobody(p[1], proc[p].room) ELSE UNCHANGED lost

Handles(c) ==
    /\ closing[Host[c]].at # "stopped"
    /\ Up(Host[c]) \/ op[c].kind \in {"leave", "unbound", "closing"}
    /\ RoomStep(Handler(c))
    /\ IF op[c].kind \in {"created", "joined"} THEN SeatsNobody(c, op[c].room) ELSE UNCHANGED lost

Arrives(c) ==
    /\ Up(Host[c])
    /\ \/ QuickMatch(c)
       \/ LeaveQueue(c)
       \/ RoomStep(BeginLeave(c))
       \/ ~waiting[c] /\ \E x \in Codes :
             \/ CodeToSpare /\ drawn = {} /\ \E mode \in Modes : RoomStep(CreateRoom(c, mode, x))
             \/ RoomStep(JoinSeat1(c, x))
    /\ UNCHANGED lost

FaultNext ==
    \/ /\ \/ \E p \in Procs : Pairs(p)
          \/ \E c \in Clients : Handles(c) \/ Arrives(c)
          \/ UNCHANGED lost /\ ExpireMatchLock
          \/ UNCHANGED lost /\ \E i \in Instances : Up(i) /\ RoomStep(Dispatch(i))
       /\ UNCHANGED <<closing, faults>>
    \/ \E i \in Instances :
          BeginClose(i) \/ CloseClient(i) \/ EndClose(i) \/ Die(i) \/ DropMessage(i)
    \/ \E x \in Codes : ExpireLock(x)
    \/ \E c \in Clients : CutHandler(c) \/ EndReadLoop(c)
    \/ \E p \in Procs : CutProcess(p) \/ PairingFails(p) \/ RemoveFails(p)
    \/ \E p \in Procs : TakeUnheard(p) \/ LockUnheard(p) \/ ReleaseFails(p)
    \/ \E c \in Clients : LeaveFails(c) \/ AnnounceFails(c)

FaultSpec == FaultInit /\ [][FaultNext]_<<allVars, faultVars>>

-----------------------------------------------------------------------------
(* Properties. *)

\* One who waits and has not been found is in the queue, or a process is seeing to it,
\* but for two kinds of failure (lost): a process breaks off, by a failing call or with
\* its instance, after it has taken a partner from the queue; or Redis takes an entry out
\* and the one who asked for it does not hear of it.
WaiterIsNotForgotten ==
    \A c \in Clients :
        waiting[c] /\ alive[c] = "up" /\ c \notin lost.clients
            => \/ Claims(c) # {}
               \/ \E p \in Procs : p[1] = c /\ ~(proc[p].at \in {"rest", "wait", "remove"})

\* hub.go:110 says that the queue is cleaned after all goroutines have ended, lest a
\* recheck puts an entry back: an instance that was closed in time leaves none of its
\* clients on a seat, and none that were connected when Close began in the queue.
CloseLeavesNothing ==
    \A i \in Instances :
        closing[i].at = "stopped" /\ closing[i].inTime =>
            /\ localRooms[i] = {}
            /\ \A c \in ClientsOf(i) : ~InRoom(c)
            /\ closing[i].clients \cap queue = {}

\* Somebody who can close the room: one who sits in it, is about to or just got up.
Owned(x) ==
    \/ \E c \in Clients : /\ closing[Host[c]].at # "stopped"
                          /\ \/ member[c].room = x
                             \/ op[c].kind \in Seating /\ op[c].room = x
    \/ \E p \in Procs : At(p, "bind") /\ proc[p].room = x

\* No room is left behind, to stay for the day Redis keeps it, except the ones that a
\* failure or the end of a connection met before somebody was seated or after its last
\* player had got up.
RoomsAreOwned == \A x \in Codes : Exists(x) => Owned(x) \/ x \in lost.rooms
=============================================================================
