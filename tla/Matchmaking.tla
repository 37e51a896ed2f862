----------------------------- MODULE Matchmaking -----------------------------
(***************************************************************************)
(* Quick matching, src/server/internal/room/match.go, beside the rooms of  *)
(* module Room that it creates.                                            *)
(*                                                                         *)
(* Two kinds of goroutines pair players: the read loop of a connection     *)
(* that asks for a match, and the rechecks it leaves behind when it has to *)
(* wait.  They share the queue and the match lock in Redis, but only the   *)
(* search for a partner is under the lock: one puts itself into the queue  *)
(* after giving the lock back, and takes itself out before asking for it.  *)
(*                                                                         *)
(* A user creates, joins or asks for a match from the menu only, and gives *)
(* up waiting by closing the connection, as src/frontend/src/ui/app.ts     *)
(* does.                                                                   *)
(***************************************************************************)
EXTENDS Room

CONSTANTS Rounds,         \* rounds of recheckMatch, 3 in the code
          MaxRechecks     \* bound on the rechecks of a connection at a time

VARIABLES queue,          \* Redis: the clients waiting, penguin:match:queue
          matchLock,      \* Redis: the process that holds penguin:match:lock, or Nobody
          proc,           \* what each process is doing
          waiting         \* per client: it shows the waiting screen

matchVars == <<queue, matchLock, proc, waiting>>

ASSUME RoundsAssumption == Rounds \in Nat \ {0} /\ MaxRechecks \in Nat \ {0}

\* <<c, 0>> is the read loop of c, <<c, k>> its k-th recheck.
Procs == Clients \X (0..MaxRechecks)
ReadLoop(c) == <<c, 0>>
IsRecheck(p) == p[2] # 0

Resting == [at |-> "rest"]
InState(at, round) == [at |-> at, round |-> round]

MatchInit ==
    /\ Init
    /\ queue = {}
    /\ matchLock = Nobody
    /\ proc = [p \in Procs |-> Resting]
    /\ waiting = [c \in Clients |-> FALSE]

-----------------------------------------------------------------------------
At(p, at) == proc[p].at = at

\* The process goes on at another step of the same round.
Goto(p, at) == proc' = [proc EXCEPT ![p] = InState(at, @.round)]

\* The read loop is done with the command; a recheck ends.
Done(p) ==
    /\ proc' = [proc EXCEPT ![p] = Resting]
    /\ IF IsRecheck(p) THEN UNCHANGED op ELSE Return(p[1])

\* The next round of a recheck.
NextRound(p) ==
    IF proc[p].round = Rounds THEN Done(p)
    ELSE proc' = [proc EXCEPT ![p] = InState("wait", @.round + 1)] /\ UNCHANGED op

\* quickMatch up to its first attempt at the lock.
QuickMatch(c) ==
    /\ MayHandle(c) /\ ~InRoom(c) /\ ~waiting[c]
    /\ op' = [op EXCEPT ![c] = [kind |-> "match"]]
    /\ proc' = [proc EXCEPT ![ReadLoop(c)] = InState("lock", 0)]
    /\ UNCHANGED <<redis, hub, shown, aiTasks, queue, matchLock, waiting>>

\* Bound: every search that may still draw a code finds one.
CodeToSpare ==
    Cardinality({p \in Procs : proc[p].at \in {"search", "take", "create"}})
        < Cardinality(Codes \ drawn)

\* SETNX under the context of the client.
TakeMatchLock(p) ==
    /\ At(p, "lock") /\ alive[p[1]] = "up"
    /\ matchLock = Nobody
    /\ CodeToSpare
    /\ matchLock' = p
    /\ Goto(p, "search")
    /\ UNCHANGED <<redis, hub, op, shown, aiTasks, queue, waiting>>

\* Mutant of MissMatchLock: without the lock there is no way back into the queue.
MissForGood(p) ==
    /\ At(p, "lock") /\ alive[p[1]] = "up"
    /\ matchLock # Nobody
    /\ Done(p)
    /\ UNCHANGED <<redis, hub, shown, aiTasks, queue, matchLock, waiting>>

\* A recheck tries once; quickMatch runs out of attempts.  Both join the queue.
MissMatchLock(p) ==
    /\ At(p, "lock") /\ alive[p[1]] = "up"
    /\ matchLock # Nobody
    /\ Goto(p, "enqueue")
    /\ UNCHANGED <<redis, hub, op, shown, aiTasks, queue, matchLock, waiting>>

\* The context is cancelled before the lock is taken.
AbandonMatch(p) ==
    /\ At(p, "lock") /\ alive[p[1]] # "up"
    /\ Done(p)
    /\ UNCHANGED <<redis, hub, shown, aiTasks, queue, matchLock, waiting>>

-----------------------------------------------------------------------------
(* tryPair. *)

\* ZRange: the entries of others, as they are now.
Search(p) ==
    /\ At(p, "search")
    /\ proc' = [proc EXCEPT ![p] = [at |-> "take", round |-> @.round,
                                    seen |-> queue \ {p[1]}]]
    /\ UNCHANGED <<redis, hub, op, shown, aiTasks, queue, matchLock, waiting>>

\* ZRem of the next entry seen: it is the partner, or somebody else took it first.
\* Any order, for the scores of the entries are the clocks of different instances.
TakeCandidate(p) ==
    /\ At(p, "take")
    /\ \E d \in proc[p].seen :
          /\ queue' = queue \ {d}
          /\ proc' = [proc EXCEPT ![p] =
                        IF d \in queue
                        THEN [at |-> "create", round |-> @.round, partner |-> d]
                        ELSE [at |-> "take", round |-> @.round, seen |-> @.seen \ {d}]]
    /\ UNCHANGED <<redis, hub, op, shown, aiTasks, matchLock, waiting>>

NoCandidate(p) ==
    /\ At(p, "take") /\ proc[p].seen = {}
    /\ Goto(p, "alone")
    /\ UNCHANGED <<redis, hub, op, shown, aiTasks, queue, matchLock, waiting>>

\* CreateRoom, JoinSeat1, the names and started: a code nobody else knows yet.
CreateMatch(p, x) ==
    /\ At(p, "create") /\ x \notin drawn
    /\ drawn' = drawn \cup {x}
    /\ rooms' = [rooms EXCEPT ![x] = [NewRoom("pvp", p[1]) EXCEPT
                                        !.guest = proc[p].partner, !.started = TRUE]]
    /\ proc' = [proc EXCEPT ![p] = [at |-> "bind", round |-> @.round,
                                    partner |-> @.partner, room |-> x]]
    /\ UNCHANGED <<lock, channel, hub, op, shown, aiTasks, queue, matchLock, waiting>>

\* Mutant of BindPair: the partner is not told.
BindAlone(p) ==
    /\ At(p, "bind")
    /\ BindLocal(p[1], proc[p].room, 0)
    /\ Show({p[1]}, Entered)
    /\ waiting' = [waiting EXCEPT ![p[1]] = FALSE]
    /\ proc' = [proc EXCEPT ![p] = [at |-> "start", round |-> @.round, room |-> @.room]]
    /\ UNCHANGED <<redis, alive, op, aiTasks, queue, matchLock>>

\* Seat 0 is bound here, seat 1 wherever the partner is connected.
BindPair(p) ==
    /\ At(p, "bind") /\ CanPublish
    /\ BindLocal(p[1], proc[p].room, 0)
    /\ Show({p[1]}, Entered)
    /\ waiting' = [waiting EXCEPT ![p[1]] = FALSE]
    /\ Publish(BindTo(proc[p].room, proc[p].partner))
    /\ proc' = [proc EXCEPT ![p] = [at |-> "start", round |-> @.round, room |-> @.room]]
    /\ UNCHANGED <<rooms, lock, drawn, alive, op, aiTasks, queue, matchLock>>

\* The game as tryPair created it; the room lock is not held.
StartMatch(p) ==
    /\ At(p, "start") /\ CanPublish
    /\ Publish(ToRoom(proc[p].room, [screen |-> "game", game |-> Game!NewView]))
    /\ Goto(p, "paired")
    /\ UNCHANGED <<rooms, lock, drawn, hub, op, shown, aiTasks, queue, matchLock, waiting>>

\* releaseMatchLock gives back the lock if it is still the one of the process.
Release(p) == matchLock' = IF matchLock = p THEN Nobody ELSE matchLock

LeavePaired(p) ==
    /\ At(p, "paired")
    /\ Release(p)
    /\ Done(p)
    /\ UNCHANGED <<redis, hub, shown, aiTasks, queue, waiting>>

LeaveAlone(p) ==
    /\ At(p, "alone")
    /\ Release(p)
    /\ Goto(p, "enqueue")
    /\ UNCHANGED <<redis, hub, op, shown, aiTasks, queue, waiting>>

\* The lock lives for matchLockTTL; its holder does not notice.
ExpireMatchLock ==
    /\ matchLock # Nobody
    /\ matchLock' = Nobody
    /\ UNCHANGED <<vars, queue, proc, waiting>>

-----------------------------------------------------------------------------
(* Waiting. *)

\* quickMatch joins the queue, says so, and leaves a recheck behind.
EnqueueAndWait(p) ==
    /\ At(p, "enqueue") /\ ~IsRecheck(p)
    /\ queue' = queue \cup {p[1]}
    /\ waiting' = [waiting EXCEPT ![p[1]] = alive[p[1]] = "up"]
    /\ \E k \in 1..MaxRechecks :
          /\ proc[<<p[1], k>>] = Resting
          /\ proc' = [proc EXCEPT ![p] = Resting, ![<<p[1], k>>] = InState("wait", 1)]
    /\ Return(p[1])
    /\ UNCHANGED <<redis, hub, shown, aiTasks, matchLock>>

\* A recheck puts the entry back.
Requeue(p) ==
    /\ At(p, "enqueue") /\ IsRecheck(p)
    /\ queue' = queue \cup {p[1]}
    /\ NextRound(p)
    /\ UNCHANGED <<redis, hub, shown, aiTasks, matchLock, waiting>>

\* After 600 ms: the connection is gone, the client was seated, or it looks again.
Wake(p) ==
    /\ At(p, "wait")
    /\ IF alive[p[1]] # "up" \/ InRoom(p[1]) THEN Done(p)
       ELSE Goto(p, "remove") /\ UNCHANGED op
    /\ UNCHANGED <<redis, hub, shown, aiTasks, queue, matchLock, waiting>>

\* Mutant of RemoveOwn: it looks for a partner whether it found its entry or not.
RemoveOwnAnyway(p) ==
    /\ At(p, "remove")
    /\ queue' = queue \ {p[1]}
    /\ Goto(p, "lock")
    /\ UNCHANGED <<redis, hub, op, shown, aiTasks, matchLock, waiting>>

\* It takes its own entry out; if there is none somebody is pairing it.
RemoveOwn(p) ==
    /\ At(p, "remove")
    /\ queue' = queue \ {p[1]}
    /\ IF p[1] \in queue THEN Goto(p, "lock") /\ UNCHANGED op ELSE NextRound(p)
    /\ UNCHANGED <<redis, hub, shown, aiTasks, matchLock, waiting>>

\* onDisconnect for a client in no room: its entry goes, then its connection.
LeaveQueue(c) ==
    /\ Disconnect(c)
    /\ queue' = queue \ {c}
    /\ waiting' = [waiting EXCEPT ![c] = FALSE]
    /\ UNCHANGED <<matchLock, proc>>

\* The rooms go on as in Room; a client that is seated no longer waits.
RoomStep(A) ==
    /\ A
    /\ waiting' = [c \in Clients |-> waiting[c] /\ shown'[c] = shown[c]]
    /\ UNCHANGED <<queue, matchLock, proc>>

-----------------------------------------------------------------------------
Pairing(p) ==
    \/ TakeMatchLock(p) \/ MissMatchLock(p) \/ AbandonMatch(p)
    \/ Search(p) \/ TakeCandidate(p) \/ NoCandidate(p)
    \/ \E x \in Codes : CreateMatch(p, x)
    \/ BindPair(p) \/ StartMatch(p) \/ LeavePaired(p) \/ LeaveAlone(p)
    \/ EnqueueAndWait(p) \/ Requeue(p) \/ Wake(p) \/ RemoveOwn(p)

CleanUpAll(c) == RoomStep(alive[c] = "cancelled" /\ BeginLeave(c)) \/ LeaveQueue(c)

MatchNext ==
    \/ \E p \in Procs : Pairing(p)
    \/ ExpireMatchLock
    \/ \E c \in Clients : QuickMatch(c) \/ LeaveQueue(c)
    \/ \E c \in Clients :
          \/ ~waiting[c] /\ \E x \in Codes :
                \/ CodeToSpare /\ \E mode \in Modes : RoomStep(CreateRoom(c, mode, x))
                \/ RoomStep(JoinSeat1(c, x))
          \/ \E kind \in Commands : RoomStep(Begin(c, kind))
          \/ RoomStep(BeginLeave(c)) \/ RoomStep(Handler(c)) \/ RoomStep(Cancel(c))
    \/ \E i \in Instances : RoomStep(Dispatch(i))

allVars == <<vars, matchVars>>

MatchSpec == MatchInit /\ [][MatchNext]_allVars

\* As in Room; the match lock is asked for a few times only, and a search always ends.
MatchFairSpec ==
    /\ MatchSpec
    /\ \A p \in Procs : SF_allVars(Pairing(p))
    /\ \A c \in Clients : SF_allVars(RoomStep(Handler(c))) /\ WF_allVars(CleanUpAll(c))
    /\ \A i \in Instances : WF_allVars(RoomStep(Dispatch(i)))

-----------------------------------------------------------------------------
(* Properties. *)

\* Everything that has a claim on a client: the queue, the processes that pair it,
\* the messages that seat it, the room it sits in.
Claims(c) ==
    {<<"waits", d>> : d \in {c} \cap queue}
      \cup {<<"partner", p>> : p \in {q \in Procs : /\ proc[q].at \in {"create", "bind"}
                                                    /\ proc[q].partner = c}}
      \cup {<<"pairs", p>> : p \in {q \in Procs : /\ proc[q].at \in {"create", "bind"}
                                                  /\ q[1] = c}}
      \cup {<<"message", k>> : k \in {n \in 1..Len(channel[Host[c]]) :
                                        /\ channel[Host[c]][n].type = "bind"
                                        /\ channel[Host[c]][n].to = c}}
      \cup {<<"member", member[d].room>> : d \in {e \in {c} : InRoom(e)}}

\* Nobody is paired twice: a client is in the queue, being paired, about to be seated
\* or in a room, and only one of these once, although the read loop and the rechecks
\* of a client and the searches of others all move it about.
NobodyIsPairedTwice == \A c \in Clients : Cardinality(Claims(c)) <= 1

\* A partner taken from the queue is seated, unless its connection ends.
PartnerIsSeated ==
    \A c \in Clients :
        (\E p \in Procs : proc[p].at \in {"create", "bind"} /\ proc[p].partner = c)
            ~> (InRoom(c) \/ alive[c] # "up")

\* match.go:87 says that the queue entry of a client who has disconnected is cleaned
\* up by onDisconnect.
QueueIsCleaned ==
    \A c \in Clients :
        alive[c] = "gone" /\ (\A p \in Procs : p[1] = c => proc[p] = Resting)
            => c \notin queue

\* match.go:70 says that the recheck keeps two waiting players from waiting for ever.
WaitersArePaired ==
    (Cardinality(queue) > 1 /\ drawn = {})
        ~> (drawn # {} \/ \E c \in Clients : alive[c] # "up")
=============================================================================
