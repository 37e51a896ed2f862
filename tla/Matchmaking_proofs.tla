--------------------------- MODULE Matchmaking_proofs ---------------------------
(***************************************************************************)
(* Proofs about Matchmaking for every number of users, server instances,   *)
(* codes, rechecks and rounds: a client is moved about by one process,     *)
(* entry or message at a time.  Module Faults_proofs builds on them.       *)
(***************************************************************************)
EXTENDS Matchmaking, FiniteSetTheorems, SequenceTheorems, TLAPS

-----------------------------------------------------------------------------
(* Types. *)

\* The steps in which a process has its client out of the queue, and those in which it
\* has a partner too.
Looking == {"lock", "search", "take", "create", "bind", "alone", "enqueue"}
HasPartner == {"create", "bind"}

StateFits(p, s) ==
    /\ s.at \in Looking \cup {"rest", "wait", "remove", "start", "paired"}
    /\ s.at = "rest" => s = Resting
    /\ s.at = "take" => s.seen \subseteq Clients \ {p[1]}
    /\ s.at \in HasPartner => s.partner \in Clients \ {p[1]}
    /\ s.at = "bind" => s.room \in Codes

Ops ==
    {Idle, [kind |-> "match"]}
      \cup [kind : {"created", "joined", "leave", "closing"}, room : Codes]
      \cup [kind : Commands, room : Codes, seat : Seats \cup {-1, Unread}]
      \cup [kind : {"unbound"}, room : Codes, seat : Seats]

Queued(i) == 1..Len(channel[i])
IsQueue(q) == q \in Seq({q[k] : k \in 1..Len(q)})

ChannelFits ==
    /\ channel = [i \in Instances |-> channel[i]]
    /\ \A i \in Instances :
          /\ IsQueue(channel[i])
          /\ \A k \in Queued(i) : channel[i][k].type = "bind"
                => channel[i][k].to \in Clients /\ channel[i][k].room \in Codes
HubFits ==
    /\ localRooms \in [Instances -> SUBSET (Codes \X Seats \X Clients)]
    /\ member \in [Clients -> [room : Codes, seat : Seats] \cup {NoMember}]
    /\ alive \in [Clients -> {"up", "cancelled", "gone"}]
OpFits == op \in [Clients -> Ops]
ProcFits == proc = [p \in Procs |-> proc[p]] /\ \A p \in Procs : StateFits(p, proc[p])
QueueFits == queue \subseteq Clients /\ waiting \in [Clients -> BOOLEAN]

Typed == ChannelFits /\ HubFits /\ OpFits /\ ProcFits /\ QueueFits

-----------------------------------------------------------------------------
(* The inductive invariant of matching. *)

\* A read loop is in quickMatch exactly while its process is at work.
ReadLoopsFit == \A c \in Clients : op[c].kind = "match" <=> proc[ReadLoop(c)] # Resting

\* An instance delivers only to clients that sit where it delivers to.
LocalFits ==
    \A i \in Instances : \A b \in localRooms[i] :
        Host[b[3]] = i /\ member[b[3]] = [room |-> b[1], seat |-> b[2]]

\* What may move a client about: a process, as its own or as the partner it has found,
\* and a message that seats it.
Moves(p, c) ==
    \/ p[1] = c /\ proc[p].at \in Looking
    \/ proc[p].at \in HasPartner /\ proc[p].partner = c
Mail(k, c) ==
    k \in Queued(Host[c]) /\ channel[Host[c]][k].type = "bind" /\ channel[Host[c]][k].to = c
HasMail(c) == \E k \in Queued(Host[c]) : Mail(k, c)
SingleMail(c) == \A j, k \in Queued(Host[c]) : Mail(j, c) /\ Mail(k, c) => j = k

Enters(c) == op[c].kind \in {"created", "joined"}
Placed(c) == InRoom(c) \/ Enters(c)

OneClaim(c) ==
    /\ c \in queue => ~Placed(c) /\ ~HasMail(c) /\ \A p \in Procs : ~Moves(p, c)
    /\ HasMail(c) => ~Placed(c) /\ \A p \in Procs : ~Moves(p, c)
    /\ \A p \in Procs : Moves(p, c) =>
          ~Placed(c) /\ \A q \in Procs : Moves(q, c) => q = p
    /\ SingleMail(c)
    /\ Enters(c) => ~InRoom(c)

\* A client that has a claim waits, unless its read loop is about to look for a partner:
\* so the browser cannot begin anything else.
Claimed(c) ==
    c \in queue \/ HasMail(c) \/ \E p \in Procs : p # ReadLoop(c) /\ Moves(p, c)
ClaimsWait == \A c \in Clients : alive[c] = "up" /\ Claimed(c) => waiting[c]

PairInvariant ==
    /\ Typed
    /\ ReadLoopsFit
    /\ LocalFits
    /\ \A c \in Clients : OneClaim(c)
    /\ ClaimsWait


-----------------------------------------------------------------------------
(* Processes, queues of messages, and handlers. *)

\* A process belongs to a client; it is its read loop or one of its rechecks.
LEMMA ProcShape ==
    /\ \A p \in Procs : /\ p[1] \in Clients /\ p = <<p[1], p[2]>>
                        /\ IsRecheck(p) <=> p # ReadLoop(p[1])
    /\ \A c \in Clients : ReadLoop(c) \in Procs /\ ReadLoop(c)[1] = c
BY RoundsAssumption DEF Procs, ReadLoop, IsRecheck

\* Clients sit on instances.
LEMMA HostShape == \A c \in Clients : Host[c] \in Instances
BY HostAssumption

\* The kinds of commands are none of the other kinds of handlers.
LEMMA KindsDiffer ==
    Commands \cap {"idle", "match", "created", "joined", "leave", "unbound", "closing"} = {}
BY UsersAssumption

\* What a read loop can be in.
LEMMA OpShape ==
    ASSUME NEW o \in Ops
    PROVE  /\ o.kind \in {"idle", "match", "created", "joined", "leave", "unbound", "closing"}
                            \cup Commands
           /\ o.kind = "idle" <=> o = Idle
           /\ o.kind \notin {"idle", "match"} => o.room \in Codes
           /\ o.kind = "unbound" => o.seat \in Seats
BY KindsDiffer DEF Ops, Idle

\* A message is appended.
LEMMA QueueAppends ==
    ASSUME NEW q, IsQueue(q), NEW m
    PROVE  /\ IsQueue(Append(q, m))
           /\ Len(q) \in Nat /\ Len(Append(q, m)) = Len(q) + 1
           /\ \A k \in 1..Len(q) : Append(q, m)[k] = q[k]
           /\ Append(q, m)[Len(q) + 1] = m
<1> DEFINE S == {q[k] : k \in 1..Len(q)} \cup {m}
           r == Append(q, m)
<1>1. q \in Seq(S) /\ m \in S
  BY DEF IsQueue
<1> HIDE DEF S
<1>2. /\ Len(q) \in Nat /\ Len(r) = Len(q) + 1
      /\ \A k \in 1..Len(q) : r[k] = q[k]
      /\ r[Len(q) + 1] = m
      /\ r \in Seq(S)
  BY <1>1
<1>3. r \in Seq({r[k] : k \in 1..Len(r)})
  <2> DEFINE T == {r[k] : k \in 1..Len(r)}
  <2>1. r \in [1..Len(r) -> S] /\ Len(r) \in Nat
    BY <1>2, LenProperties
  <2>2. r \in [1..Len(r) -> T]
    BY <2>1
  <2> HIDE DEF T, r
  <2>3. r \in Seq(T)
    BY <2>1, <2>2, SeqDef
  <2> QED
    BY <2>3 DEF T
<1> QED
  BY <1>2, <1>3 DEF IsQueue

\* The first message is taken.
LEMMA QueueMovesUp ==
    ASSUME NEW q, IsQueue(q), q # <<>>
    PROVE  /\ IsQueue(Tail(q))
           /\ Len(q) \in Nat \ {0} /\ Len(Tail(q)) = Len(q) - 1
           /\ \A k \in 1..Len(Tail(q)) : Tail(q)[k] = q[k + 1]
           /\ Head(q) = q[1]
<1> DEFINE S == {q[k] : k \in 1..Len(q)}
           r == Tail(q)
<1>1. q \in Seq(S)
  BY DEF IsQueue
<1> HIDE DEF S
<1>2. /\ Len(q) \in Nat \ {0} /\ Len(r) = Len(q) - 1
      /\ \A k \in 1..Len(r) : r[k] = q[k + 1]
      /\ Head(q) = q[1]
      /\ r \in Seq(S)
  BY <1>1
<1>3. r \in Seq({r[k] : k \in 1..Len(r)})
  <2> DEFINE T == {r[k] : k \in 1..Len(r)}
  <2>1. r \in [1..Len(r) -> S] /\ Len(r) \in Nat
    BY <1>2, LenProperties
  <2>2. r \in [1..Len(r) -> T]
    BY <2>1
  <2> HIDE DEF T, r
  <2>3. r \in Seq(T)
    BY <2>1, <2>2, SeqDef
  <2> QED
    BY <2>3 DEF T
<1> QED
  BY <1>2, <1>3 DEF IsQueue

\* The message m calls the client c to a seat.
Seats1(m, c) == m.type = "bind" /\ m.to = c

\* Publishing appends a message to every queue.
LEMMA Publishes ==
    ASSUME ChannelFits, NEW m, Publish(m),
           m.type = "bind" => m.to \in Clients /\ m.room \in Codes
    PROVE  /\ ChannelFits'
           /\ \A c \in Clients :
                 /\ HasMail(c)' <=> HasMail(c) \/ Seats1(m, c)
                 /\ SingleMail(c) /\ ~(HasMail(c) /\ Seats1(m, c)) => SingleMail(c)'
           /\ \A i \in Instances : \A k \in Queued(i)' :
                 channel'[i][k] = m \/ \E j \in Queued(i) : channel'[i][k] = channel[i][j]
<1>1. \A i \in Instances :
        /\ IsQueue(channel'[i])
        /\ Len(channel[i]) \in Nat /\ Len(channel'[i]) = Len(channel[i]) + 1
        /\ \A k \in 1..Len(channel[i]) : channel'[i][k] = channel[i][k]
        /\ channel'[i][Len(channel[i]) + 1] = m
  <2>1. \A i \in Instances : channel'[i] = Append(channel[i], m)
    BY DEF Publish
  <2>2. ASSUME NEW i \in Instances
        PROVE  /\ IsQueue(Append(channel[i], m))
               /\ Len(channel[i]) \in Nat
               /\ Len(Append(channel[i], m)) = Len(channel[i]) + 1
               /\ \A k \in 1..Len(channel[i]) : Append(channel[i], m)[k] = channel[i][k]
               /\ Append(channel[i], m)[Len(channel[i]) + 1] = m
    <3>1. IsQueue(channel[i])
      BY DEF ChannelFits
    <3> QED
      BY <3>1, QueueAppends
  <2> QED
    BY <2>1, <2>2
<1>2. \A i \in Instances : \A k \in Queued(i)' :
        \/ k = Len(channel[i]) + 1 /\ channel'[i][k] = m
        \/ k \in Queued(i) /\ channel'[i][k] = channel[i][k]
  BY <1>1 DEF Queued
<1>3. \A i \in Instances : \A k \in Queued(i) :
        k \in Queued(i)' /\ channel'[i][k] = channel[i][k] /\ k # Len(channel[i]) + 1
  BY <1>1 DEF Queued
<1>4. \A i \in Instances : Len(channel[i]) + 1 \in Queued(i)'
  BY <1>1 DEF Queued
<1>5. ChannelFits'
  BY <1>1, <1>2 DEF ChannelFits, Publish
<1>6. ASSUME NEW c \in Clients
      PROVE  /\ HasMail(c)' <=> HasMail(c) \/ Seats1(m, c)
             /\ SingleMail(c) /\ ~(HasMail(c) /\ Seats1(m, c)) => SingleMail(c)'
  <2> DEFINE h == Host[c]
  <2>0. PICK n : n = Len(channel[h]) + 1
    OBVIOUS
  <2>1. h \in Instances
    BY HostShape
  <2>2. \A k \in Queued(h) : k \in Queued(h)' /\ (Mail(k, c)' <=> Mail(k, c)) /\ k # n
    BY <1>3, <2>0, <2>1 DEF Mail
  <2>3. n \in Queued(h)' /\ (Mail(n, c)' <=> Seats1(m, c))
    BY <1>1, <1>4, <2>0, <2>1 DEF Mail, Seats1
  <2>4. \A k \in Queued(h)' : k = n \/ k \in Queued(h)
    BY <1>2, <2>0, <2>1
  <2>5. HasMail(c)' <=> HasMail(c) \/ Seats1(m, c)
    BY <2>2, <2>3, <2>4 DEF HasMail
  <2>6. ASSUME SingleMail(c), ~(HasMail(c) /\ Seats1(m, c))
        PROVE  SingleMail(c)'
    BY <2>2, <2>3, <2>4, <2>6 DEF HasMail, SingleMail
  <2> QED
    BY <2>5, <2>6
<1> QED
  BY <1>2, <1>5, <1>6

\* A queue loses its first message.
LEMMA Dispatches ==
    ASSUME ChannelFits, NEW i \in Instances, channel[i] # <<>>,
           channel' = [channel EXCEPT ![i] = Tail(@)]
    PROVE  /\ ChannelFits'
           /\ 1 \in Queued(i) /\ Head(channel[i]) = channel[i][1]
           /\ \A c \in Clients :
                 /\ HasMail(c)' => HasMail(c)
                 /\ SingleMail(c) => SingleMail(c)'
                 /\ Host[c] = i /\ Seats1(Head(channel[i]), c)
                       => HasMail(c) /\ (SingleMail(c) => ~HasMail(c)')
                 /\ HasMail(c) /\ ~(Host[c] = i /\ Seats1(Head(channel[i]), c)) => HasMail(c)'
           /\ \A j \in Instances : \A k \in Queued(j)' :
                 \E l \in Queued(j) : channel'[j][k] = channel[j][l]
<1> DEFINE shift(j) == IF j = i THEN 1 ELSE 0
<1>1. /\ IsQueue(channel'[i]) /\ Len(channel[i]) \in Nat \ {0}
      /\ Len(channel'[i]) = Len(channel[i]) - 1
      /\ \A k \in 1..Len(channel'[i]) : channel'[i][k] = channel[i][k + 1]
      /\ Head(channel[i]) = channel[i][1]
  <2>1. channel'[i] = Tail(channel[i])
    BY DEF ChannelFits
  <2> QED
    BY <2>1, QueueMovesUp DEF ChannelFits
<1>2. \A j \in Instances \ {i} : channel'[j] = channel[j]
  BY DEF ChannelFits
<1>3. \A j \in Instances : \A k \in Queued(j)' :
        /\ k \in Int /\ k + shift(j) \in Queued(j)
        /\ channel'[j][k] = channel[j][k + shift(j)]
        /\ j = i => k + shift(j) # 1
  BY <1>1, <1>2 DEF Queued
<1>4. \A j \in Instances : \A l \in Queued(j) :
        \/ j = i /\ l = 1
        \/ l - shift(j) \in Queued(j)' /\ (l - shift(j)) + shift(j) = l
  <2>1. \A l \in Queued(i) : l = 1 \/ (l - 1 \in Queued(i)' /\ (l - 1) + 1 = l)
    BY <1>1 DEF Queued
  <2>2. \A j \in Instances \ {i} : \A l \in Queued(j) :
          l - 0 \in Queued(j)' /\ (l - 0) + 0 = l
    BY <1>2 DEF Queued
  <2> QED
    BY <2>1, <2>2
<1>5. 1 \in Queued(i)
  BY <1>1 DEF Queued
<1>6. \A j \in Instances : \A k \in Queued(j)' :
         \E l \in Queued(j) : channel'[j][k] = channel[j][l]
  BY <1>3
<1>7. ChannelFits'
  <2>1. channel' = [j \in Instances |-> channel'[j]]
    BY DEF ChannelFits
  <2>2. \A j \in Instances : IsQueue(channel'[j])
    BY <1>1, <1>2 DEF ChannelFits
  <2>3. ASSUME NEW j \in Instances, NEW k \in Queued(j)', channel'[j][k].type = "bind"
        PROVE  channel'[j][k].to \in Clients /\ channel'[j][k].room \in Codes
    <3>1. PICK l \in Queued(j) : channel'[j][k] = channel[j][l]
      BY <1>6
    <3> QED
      BY <2>3, <3>1 DEF ChannelFits
  <2> QED
    BY <2>1, <2>2, <2>3 DEF ChannelFits
<1>8. ASSUME NEW c \in Clients
      PROVE  /\ HasMail(c)' => HasMail(c)
             /\ SingleMail(c) => SingleMail(c)'
             /\ Host[c] = i /\ Seats1(Head(channel[i]), c)
                   => HasMail(c) /\ (SingleMail(c) => ~HasMail(c)')
             /\ HasMail(c) /\ ~(Host[c] = i /\ Seats1(Head(channel[i]), c)) => HasMail(c)'
  <2> DEFINE h == Host[c]
             s == shift(h)
  <2>1. h \in Instances
    BY HostShape
  <2>2. s \in {0, 1}
    OBVIOUS
  <2>3. \A k \in Queued(h)' : /\ k \in Int /\ k + s \in Queued(h)
                              /\ Mail(k, c)' <=> Mail(k + s, c)
                              /\ h = i => k + s # 1
    BY <1>3, <2>1 DEF Mail
  <2>4. \A l \in Queued(h) : \/ h = i /\ l = 1
                             \/ l - s \in Queued(h)' /\ (l - s) + s = l
    BY <1>4, <2>1
  <2>5. h = i => 1 \in Queued(h) /\ (Mail(1, c) <=> Seats1(Head(channel[i]), c))
    BY <1>1, <1>5 DEF Mail, Seats1
  <2> HIDE DEF s, h
  <2>6. HasMail(c) <=> \E k \in Queued(h) : Mail(k, c)
    BY DEF HasMail, h
  <2>7. HasMail(c)' <=> \E k \in Queued(h)' : Mail(k, c)'
    BY DEF HasMail, h
  <2>8. SingleMail(c) <=> \A j, k \in Queued(h) : Mail(j, c) /\ Mail(k, c) => j = k
    BY DEF SingleMail, h
  <2>9. SingleMail(c)' <=> \A j, k \in Queued(h)' : Mail(j, c)' /\ Mail(k, c)' => j = k
    BY DEF SingleMail, h
  <2>10. HasMail(c)' => HasMail(c)
    BY <2>3, <2>6, <2>7
  <2>11. SingleMail(c) => SingleMail(c)'
    BY <2>2, <2>3, <2>8, <2>9
  <2>12. ASSUME h = i, Seats1(Head(channel[i]), c)
         PROVE  HasMail(c) /\ (SingleMail(c) => ~HasMail(c)')
    BY <2>3, <2>5, <2>6, <2>7, <2>8, <2>12
  <2>13. ASSUME HasMail(c), ~(h = i /\ Seats1(Head(channel[i]), c))
         PROVE  HasMail(c)'
    <3>1. PICK l \in Queued(h) : Mail(l, c)
      BY <2>6, <2>13
    <3>2. ~(h = i /\ l = 1)
      BY <2>5, <2>13, <3>1
    <3>3. l - s \in Queued(h)' /\ Mail(l - s, c)'
      BY <2>3, <2>4, <3>1, <3>2
    <3> QED
      BY <2>7, <3>3
  <2> QED
    BY <2>10, <2>11, <2>12, <2>13 DEF h
<1> QED
  BY <1>1, <1>5, <1>6, <1>7, <1>8

\* A process goes on to another step.
LEMMA ProcessSteps ==
    ASSUME ProcFits, NEW p \in Procs, NEW s, StateFits(p, s), proc' = [proc EXCEPT ![p] = s]
    PROVE  /\ ProcFits'
           /\ proc'[p] = s
           /\ \A q \in Procs : q # p => proc'[q] = proc[q]
BY DEF ProcFits

-----------------------------------------------------------------------------
(* Steps that give nobody a new claim. *)

\* Claims only get fewer, and who is placed by the step has none left.
LEMMA ClaimsKept ==
    ASSUME PairInvariant,
           \A c \in Clients :
              /\ c \in queue' => c \in queue
              /\ HasMail(c)' => HasMail(c)
              /\ SingleMail(c)'
              /\ \A p \in Procs : Moves(p, c)' => Moves(p, c)
              /\ Placed(c)' => \/ Placed(c)
                               \/ c \notin queue' /\ ~HasMail(c)' /\ \A p \in Procs : ~Moves(p, c)'
              /\ Enters(c)' => ~InRoom(c)'
    PROVE  \A c \in Clients : OneClaim(c)'
<1> TAKE c \in Clients
<1>1. OneClaim(c)
  BY DEF PairInvariant
<1> QED
  BY <1>1 DEF OneClaim

\* Who is placed has no other claim.
LEMMA PlacedHasNoClaim ==
    ASSUME PairInvariant, NEW c \in Clients, Placed(c)
    PROVE  c \notin queue /\ ~HasMail(c) /\ (\A p \in Procs : ~Moves(p, c)) /\ ~Claimed(c)
<1>1. OneClaim(c)
  BY DEF PairInvariant
<1> QED
  BY <1>1 DEF OneClaim, Claimed

\* A step of module Room that gives nobody a new claim.
LEMMA RoomKeepsPairs ==
    ASSUME PairInvariant, queue' = queue, proc' = proc,
           waiting' = [c \in Clients |-> waiting[c] /\ shown'[c] = shown[c]],
           ChannelFits', HubFits', OpFits', ReadLoopsFit', LocalFits',
           \A c \in Clients :
              /\ HasMail(c)' => HasMail(c)
              /\ SingleMail(c)'
              /\ Placed(c)' => \/ Placed(c)
                               \/ c \notin queue' /\ ~HasMail(c)' /\ \A p \in Procs : ~Moves(p, c)'
              /\ Enters(c)' => ~InRoom(c)'
              /\ alive'[c] = "up" => alive[c] = "up"
              /\ shown'[c] = shown[c] \/ Placed(c) \/ Placed(c)'
    PROVE  PairInvariant'
<1>1. \A c \in Clients, p \in Procs : Moves(p, c)' <=> Moves(p, c)
  BY DEF Moves
<1>2. \A c \in Clients : OneClaim(c)'
  BY <1>1, ClaimsKept
<1>3. Typed'
  BY DEF PairInvariant, Typed, ProcFits, QueueFits
<1>4. ASSUME NEW c \in Clients, alive'[c] = "up", Claimed(c)'
      PROVE  waiting'[c]
  <2>1. Claimed(c) /\ alive[c] = "up"
    BY <1>1, <1>4 DEF Claimed
  <2>2. waiting[c]
    BY <2>1 DEF PairInvariant, ClaimsWait
  <2>3. ~Placed(c)
    BY <2>1, PlacedHasNoClaim
  <2>4. ~Placed(c)'
    BY <1>4, <2>3 DEF Claimed
  <2> QED
    BY <2>2, <2>3, <2>4
<1> QED
  BY <1>2, <1>3, <1>4 DEF PairInvariant, ClaimsWait

\* The queues of messages get nothing that seats somebody.
NobodyIsCalled ==
    ChannelFits' /\ \A c \in Clients : (HasMail(c)' <=> HasMail(c)) /\ SingleMail(c)'

\* Nothing is published at all.
LEMMA NothingPublished ==
    ASSUME PairInvariant, channel' = channel
    PROVE  NobodyIsCalled
<1>1. \A c \in Clients : OneClaim(c)
  BY DEF PairInvariant
<1>2. ChannelFits'
  BY DEF PairInvariant, Typed, ChannelFits, Queued
<1>3. \A c \in Clients : (HasMail(c)' <=> HasMail(c)) /\ SingleMail(c)'
  BY <1>1 DEF OneClaim, SingleMail, HasMail, Mail, Queued
<1> QED
  BY <1>2, <1>3 DEF NobodyIsCalled

\* What is published is news for a room.
LEMMA NewsPublished ==
    ASSUME PairInvariant, NEW m, Publish(m), m.type # "bind"
    PROVE  NobodyIsCalled
<1>1. \A c \in Clients : SingleMail(c)
  BY DEF PairInvariant, OneClaim
<1>2. ChannelFits
  BY DEF PairInvariant, Typed
<1> QED
  BY <1>1, <1>2, Publishes DEF NobodyIsCalled, Seats1

\* A handler goes on and seats nobody; only one that nothing claims begins to enter.
LEMMA HandlerGoesOn ==
    ASSUME PairInvariant, NobodyIsCalled, UNCHANGED <<hub, shown, queue, proc>>,
           waiting' = [c \in Clients |-> waiting[c] /\ shown'[c] = shown[c]],
           NEW c \in Clients, NEW o \in Ops, op' = [op EXCEPT ![c] = o],
           op[c].kind # "match", o.kind # "match",
           o.kind \in {"created", "joined"} => MayHandle(c) /\ ~InRoom(c) /\ ~waiting[c]
    PROVE  PairInvariant'
<1>1. /\ OpFits' /\ op'[c] = o
      /\ \A d \in Clients : d # c => op'[d] = op[d]
  BY DEF PairInvariant, Typed, OpFits
<1>2. HubFits' /\ LocalFits'
  BY DEF PairInvariant, Typed, HubFits, LocalFits, hub
<1>3. \A d \in Clients : (InRoom(d)' <=> InRoom(d)) /\ alive'[d] = alive[d]
  BY DEF InRoom, hub
<1>4. ReadLoopsFit'
  BY <1>1 DEF PairInvariant, ReadLoopsFit
<1>5. ASSUME NEW d \in Clients, Placed(d)', ~Placed(d)
      PROVE  d \notin queue' /\ ~HasMail(d)' /\ \A p \in Procs : ~Moves(p, d)'
  <2>1. d = c /\ MayHandle(c) /\ ~waiting[c]
    BY <1>1, <1>3, <1>5 DEF Placed, Enters
  <2>2. ~Claimed(c)
    BY <2>1 DEF PairInvariant, ClaimsWait, MayHandle
  <2>3. proc[ReadLoop(c)] = Resting
    BY <2>1 DEF PairInvariant, ReadLoopsFit, MayHandle, Idle
  <2>4. ~Moves(ReadLoop(c), c)
    <3>1. proc[ReadLoop(c)].at = "rest"
      BY <2>3 DEF Resting
    <3> QED
      BY <3>1 DEF Moves, Looking, HasPartner
  <2>5. d \notin queue /\ ~HasMail(d) /\ \A p \in Procs : ~Moves(p, d)
    BY <2>1, <2>2, <2>4 DEF Claimed
  <2> QED
    BY <2>5 DEF Moves, NobodyIsCalled
<1>6. \A d \in Clients : Enters(d)' => ~InRoom(d)'
  <2>1. \A d \in Clients : Enters(d) => ~InRoom(d)
    BY DEF PairInvariant, OneClaim
  <2> QED
    BY <1>1, <1>3, <2>1 DEF Enters
<1>7. ChannelFits' /\ \A d \in Clients : (HasMail(d)' => HasMail(d)) /\ SingleMail(d)'
  BY DEF NobodyIsCalled
<1>8. queue' = queue /\ proc' = proc /\ shown' = shown
  OBVIOUS
<1> QED
  BY <1>1, <1>2, <1>3, <1>4, <1>5, <1>6, <1>7, <1>8, RoomKeepsPairs

\* bindLocal seats a client that has no seat.
LEMMA BindLocalSeats ==
    ASSUME HubFits, LocalFits, NEW c \in Clients, NEW x \in Codes, NEW seat \in Seats,
           BindLocal(c, x, seat), ~InRoom(c)
    PROVE  /\ localRooms' \in [Instances -> SUBSET (Codes \X Seats \X Clients)]
           /\ member' \in [Clients -> [room : Codes, seat : Seats] \cup {NoMember}]
           /\ LocalFits'
           /\ \A d \in Clients : d # c => member'[d] = member[d]
           /\ IF alive[c] = "up" THEN member'[c] = [room |-> x, seat |-> seat] /\ InRoom(c)'
              ELSE member' = member
<1>1. CASE alive[c] # "up"
  BY <1>1 DEF BindLocal, HubFits, LocalFits
<1>2. CASE alive[c] = "up"
  <2>1. /\ member' = [member EXCEPT ![c] = [room |-> x, seat |-> seat]]
        /\ localRooms' = [localRooms EXCEPT ![Host[c]] =
                            {b \in @ : ~(b[1] = x /\ b[2] = seat)} \cup {<<x, seat, c>>}]
    BY <1>2 DEF BindLocal
  <2>2. member' \in [Clients -> [room : Codes, seat : Seats] \cup {NoMember}]
    BY <2>1 DEF HubFits
  <2>3. /\ member'[c] = [room |-> x, seat |-> seat]
        /\ \A d \in Clients : d # c => member'[d] = member[d]
    BY <2>1 DEF HubFits
  <2>4. \A i \in Instances : \A b \in localRooms'[i] :
           b \in localRooms[i] \/ (i = Host[c] /\ b = <<x, seat, c>>)
    BY <2>1, HostShape DEF HubFits
  <2>5. localRooms' \in [Instances -> SUBSET (Codes \X Seats \X Clients)]
    <3>1. /\ localRooms' = [i \in Instances |-> localRooms'[i]]
          /\ <<x, seat, c>> \in Codes \X Seats \X Clients
      BY <2>1 DEF HubFits
    <3>2. \A i \in Instances : localRooms'[i] \subseteq Codes \X Seats \X Clients
      BY <2>4, <3>1 DEF HubFits
    <3> QED
      BY <3>1, <3>2
  <2>6. ASSUME NEW i \in Instances, NEW b \in localRooms'[i]
        PROVE  Host[b[3]] = i /\ member'[b[3]] = [room |-> b[1], seat |-> b[2]]
    <3>1. CASE b = <<x, seat, c>>
      <4>1. b[1] = x /\ b[2] = seat /\ b[3] = c
        BY <3>1
      <4>2. i = Host[c]
        <5>1. CASE b \in localRooms[i]
          BY <4>1, <5>1 DEF LocalFits
        <5> QED
          BY <2>4, <2>6, <5>1
      <4> QED
        BY <2>3, <4>1, <4>2
    <3>2. CASE b \in localRooms[i]
      <4>1. /\ Host[b[3]] = i /\ member[b[3]] = [room |-> b[1], seat |-> b[2]]
            /\ b[3] \in Clients /\ b[1] \in Codes
        BY <3>2 DEF LocalFits, HubFits
      <4>2. b[3] # c
        BY <4>1, NobodyAssumption DEF InRoom
      <4> QED
        BY <2>3, <4>1, <4>2
    <3> QED
      BY <2>4, <2>6, <3>1, <3>2
  <2>7. InRoom(c)'
    BY <2>3, NobodyAssumption DEF InRoom
  <2> QED
    BY <1>2, <2>2, <2>3, <2>5, <2>6, <2>7 DEF LocalFits
<1> QED
  BY <1>1, <1>2

-----------------------------------------------------------------------------
(* The steps of Room. *)

\* What RoomStep adds to a step of Room.
RoomGoesOn ==
    /\ queue' = queue /\ proc' = proc
    /\ waiting' = [c \in Clients |-> waiting[c] /\ shown'[c] = shown[c]]

\* A handler ends with or without news for a room.
LEMMA HandlerReturns ==
    ASSUME PairInvariant, RoomGoesOn, NEW c \in Clients, op[c].kind # "match", Return(c),
           UNCHANGED <<hub, shown>>,
           channel' = channel \/ \E x, s : Publish(ToRoom(x, s))
    PROVE  PairInvariant'
<1>1. NobodyIsCalled
  <2>1. ASSUME NEW x, NEW s, Publish(ToRoom(x, s))
        PROVE  NobodyIsCalled
    BY <2>1, NewsPublished DEF ToRoom
  <2> QED
    BY <2>1, NothingPublished
<1>2. Idle \in Ops /\ Idle.kind \notin {"match", "created", "joined"}
  BY DEF Ops, Idle
<1>3. op' = [op EXCEPT ![c] = Idle]
  BY DEF Return
<1> QED
  BY <1>1, <1>2, <1>3, HandlerGoesOn DEF RoomGoesOn

\* The commands in a room, played out or refused.
LEMMA CommandsKeepPairs ==
    ASSUME PairInvariant, RoomGoesOn, NEW c \in Clients,
           \/ Refuse(c) \/ GiveUp(c)
           \/ \E kind \in {"ready", "unready"} : SetReady(c, kind)
           \/ StartGame(c) \/ PlayerMove(c) \/ Resign(c) \/ Rematch(c)
    PROVE  PairInvariant'
<1>1. CASE Refuse(c) \/ GiveUp(c)
  <2>1. op[c].kind \in Commands /\ Return(c) /\ UNCHANGED <<hub, shown, channel>>
    BY <1>1 DEF Refuse, GiveUp, Locked, redis
  <2> QED
    BY <2>1, HandlerReturns, KindsDiffer
<1>2. ASSUME NEW kind \in {"ready", "unready", "start", "move", "resign", "rematch"}, NEW r,
             NEW s, Locked(c, kind), SaveAndTell(c, r, s)
      PROVE  PairInvariant'
  <2>1. op[c].kind # "match"
    BY <1>2 DEF Locked
  <2>2. Return(c) /\ UNCHANGED <<hub, shown>> /\ \E x, t : Publish(ToRoom(x, t))
    BY <1>2 DEF SaveAndTell
  <2> QED
    BY <2>1, <2>2, HandlerReturns
<1>3. CASE \E kind \in {"ready", "unready"} : SetReady(c, kind)
  BY <1>2, <1>3 DEF SetReady
<1>4. CASE StartGame(c)
  BY <1>2, <1>4 DEF StartGame
<1>5. CASE PlayerMove(c)
  BY <1>2, <1>5 DEF PlayerMove
<1>6. CASE Resign(c)
  BY <1>2, <1>6 DEF Resign
<1>7. CASE Rematch(c)
  <2>1. CASE \E r, s : SaveAndTell(c, r, s)
    BY <1>2, <1>7, <2>1 DEF Rematch
  <2>2. CASE Return(c) /\ UNCHANGED <<lock, drawn, channel, hub, shown>>
    BY <1>7, <2>2, HandlerReturns DEF Rematch, Locked
  <2> QED
    BY <1>7, <2>1, <2>2 DEF Rematch
<1> QED
  BY <1>1, <1>3, <1>4, <1>5, <1>6, <1>7

\* The handlers that read, or begin to leave or to make room.
LEMMA ReadersKeepPairs ==
    ASSUME PairInvariant, RoomGoesOn, NEW c \in Clients,
           \/ \E kind \in Commands : Begin(c, kind)
           \/ BeginLeave(c) \/ ReadSeat(c)
    PROVE  PairInvariant'
<1>1. member[c] \in [room : Codes, seat : Seats] \cup {NoMember} /\ op[c] \in Ops
  BY DEF PairInvariant, Typed, HubFits, OpFits
<1>2. InRoom(c) => member[c].room \in Codes /\ member[c].seat \in Seats
  BY <1>1 DEF InRoom, NoMember
<1>3. NobodyIsCalled /\ UNCHANGED <<hub, shown>>
  BY NothingPublished DEF Begin, BeginLeave, ReadSeat, redis
<1>4. ASSUME NEW kind \in Commands, Begin(c, kind)
      PROVE  PairInvariant'
  <2> DEFINE o == [kind |-> kind, room |-> member[c].room,
                   seat |-> IF kind \in SplitReads THEN Unread ELSE member[c].seat]
  <2>1. o \in Ops /\ o.kind \notin {"match", "created", "joined"}
    BY <1>2, <1>4, KindsDiffer DEF Ops, Begin
  <2>2. op' = [op EXCEPT ![c] = o] /\ op[c].kind # "match"
    BY <1>4 DEF Begin, MayHandle, Idle
  <2> QED
    BY <1>3, <2>1, <2>2, HandlerGoesOn DEF RoomGoesOn
<1>5. CASE BeginLeave(c)
  <2> DEFINE o == [kind |-> "leave", room |-> member[c].room]
  <2>1. o \in Ops /\ o.kind \notin {"match", "created", "joined"}
    BY <1>2, <1>5 DEF Ops, BeginLeave
  <2>2. op' = [op EXCEPT ![c] = o] /\ op[c].kind # "match"
    BY <1>5 DEF BeginLeave, Idle
  <2> QED
    BY <1>3, <2>1, <2>2, HandlerGoesOn DEF RoomGoesOn
<1>6. CASE ReadSeat(c)
  <2> DEFINE o == [op[c] EXCEPT !.seat = member[c].seat]
  <2>1. op[c].kind \in SplitReads /\ op[c].seat = Unread
    BY <1>6 DEF ReadSeat
  <2>2. op[c] \in [kind : Commands, room : Codes, seat : Seats \cup {-1, Unread}]
    BY <1>1, <2>1 DEF Ops, SplitReads, Idle, Seats, Unread
  <2>3. o \in [kind : Commands, room : Codes, seat : Seats \cup {-1, Unread}]
    BY <1>1, <2>2 DEF NoMember
  <2>4. o \in Ops /\ o.kind \notin {"match", "created", "joined"} /\ op[c].kind # "match"
    BY <2>2, <2>3, KindsDiffer DEF Ops
  <2>5. op' = [op EXCEPT ![c] = o]
    BY <1>6 DEF ReadSeat
  <2> QED
    BY <1>3, <2>4, <2>5, HandlerGoesOn DEF RoomGoesOn
<1> QED
  BY <1>4, <1>5, <1>6

\* One that does not wait creates or joins a room.
LEMMA EntrancesKeepPairs ==
    ASSUME PairInvariant, RoomGoesOn, NEW c \in Clients, NEW x \in Codes, ~waiting[c],
           (\E mode \in Modes : CreateRoom(c, mode, x)) \/ JoinSeat1(c, x)
    PROVE  PairInvariant'
<1>1. NobodyIsCalled /\ UNCHANGED <<hub, shown>> /\ MayHandle(c) /\ ~InRoom(c)
  BY NothingPublished DEF CreateRoom, JoinSeat1
<1>2. PICK k \in {"created", "joined"} : op' = [op EXCEPT ![c] = [kind |-> k, room |-> x]]
  BY DEF CreateRoom, JoinSeat1
<1>3. [kind |-> k, room |-> x] \in Ops /\ op[c].kind # "match"
  BY <1>1 DEF Ops, MayHandle, Idle
<1> QED
  BY <1>1, <1>2, <1>3, HandlerGoesOn DEF RoomGoesOn

\* The rest of creating and joining.
LEMMA EnteringKeepsPairs ==
    ASSUME PairInvariant, RoomGoesOn, NEW c \in Clients, EnterCreated(c) \/ EnterJoined(c)
    PROVE  PairInvariant'
<1>1. op[c] \in Ops /\ op[c].kind \in {"created", "joined"} /\ op[c].room \in Codes
  BY OpShape DEF PairInvariant, Typed, OpFits, EnterCreated, EnterJoined
<1>2. OneClaim(c) /\ Enters(c) /\ ~InRoom(c)
  BY <1>1 DEF PairInvariant, OneClaim, Enters
<1>3. PICK seat \in Seats : BindLocal(c, op[c].room, seat)
  BY DEF EnterCreated, EnterJoined, Seats
<1>4. HubFits /\ LocalFits /\ alive' = alive
  BY DEF PairInvariant, Typed, EnterCreated, EnterJoined
<1>5. /\ HubFits' /\ LocalFits'
      /\ \A d \in Clients : d # c => member'[d] = member[d]
  BY <1>1, <1>2, <1>3, <1>4, BindLocalSeats DEF HubFits
<1>6. NobodyIsCalled
  <2>1. ASSUME EnterCreated(c) PROVE NobodyIsCalled
    BY <2>1, NothingPublished DEF EnterCreated, redis
  <2>2. ASSUME EnterJoined(c) PROVE NobodyIsCalled
    BY <2>2, NewsPublished DEF EnterJoined, ToRoom
  <2> QED
    BY <2>1, <2>2
<1>7. \A d \in Clients : d # c => shown'[d] = shown[d]
  BY DEF EnterCreated, EnterJoined, Show
<1>8. op' = [op EXCEPT ![c] = Idle]
  BY DEF EnterCreated, EnterJoined, Return
<1>9. OpFits' /\ op'[c] = Idle /\ \A d \in Clients : d # c => op'[d] = op[d]
  BY <1>8 DEF PairInvariant, Typed, OpFits, Ops
<1>10. ReadLoopsFit'
  BY <1>1, <1>9 DEF PairInvariant, ReadLoopsFit, RoomGoesOn, Idle
<1>11. \A d \in Clients :
          /\ Placed(d)' => Placed(d)
          /\ Enters(d)' => ~InRoom(d)'
  <2>1. ~Enters(c)' /\ Placed(c)
    BY <1>2, <1>9 DEF Enters, Placed, Idle
  <2>2. \A d \in Clients : d # c => (Enters(d)' <=> Enters(d)) /\ (InRoom(d)' <=> InRoom(d))
    BY <1>5, <1>9 DEF Enters, InRoom
  <2> QED
    BY <2>1, <2>2 DEF Placed, PairInvariant, OneClaim
<1>12. \A d \in Clients : shown'[d] = shown[d] \/ Placed(d)
  BY <1>2, <1>7 DEF Placed
<1>13. ChannelFits' /\ \A d \in Clients : (HasMail(d)' => HasMail(d)) /\ SingleMail(d)'
  BY <1>6 DEF NobodyIsCalled
<1> QED
  BY <1>4, <1>5, <1>9, <1>10, <1>11, <1>12, <1>13, RoomKeepsPairs DEF RoomGoesOn

\* Getting up from a seat.
LEMMA UnbindKeepsPairs ==
    ASSUME PairInvariant, RoomGoesOn, NEW c \in Clients, Unbind(c)
    PROVE  PairInvariant'
<1>1. op[c].kind = "leave" /\ alive' = alive /\ channel' = channel
  BY DEF Unbind
<1>2. NobodyIsCalled
  BY <1>1, NothingPublished
<1>3. CASE ~InRoom(c)
  BY <1>1, <1>3, HandlerReturns DEF Unbind, hub
<1>4. CASE InRoom(c)
  <2> DEFINE x == member[c].room
             seat == member[c].seat
             o == [kind |-> "unbound", room |-> x, seat |-> seat]
  <2>1. /\ localRooms' = [localRooms EXCEPT ![Host[c]] = {b \in @ : ~(b[1] = x /\ b[2] = seat)}]
        /\ member' = [member EXCEPT ![c] = NoMember]
        /\ op' = [op EXCEPT ![c] = o]
        /\ Show({c}, Menu)
    BY <1>4 DEF Unbind
  <2>2. member[c] = [room |-> x, seat |-> seat] /\ x \in Codes /\ seat \in Seats
    <3>1. member[c] \in [room : Codes, seat : Seats] \cup {NoMember}
      BY DEF PairInvariant, Typed, HubFits
    <3> QED
      BY <1>4, <3>1 DEF InRoom, NoMember
  <2>3. /\ member'[c] = NoMember /\ ~InRoom(c)'
        /\ \A d \in Clients : d # c => member'[d] = member[d]
    BY <2>1 DEF PairInvariant, Typed, HubFits, InRoom, NoMember
  <2>4. \A i \in Instances : localRooms'[i] \subseteq localRooms[i]
    BY <2>1 DEF PairInvariant, Typed, HubFits
  <2>5. HubFits'
    <3>1. localRooms' = [i \in Instances |-> localRooms'[i]]
      BY <2>1 DEF PairInvariant, Typed, HubFits
    <3>2. \A i \in Instances : localRooms'[i] \subseteq Codes \X Seats \X Clients
      BY <2>4 DEF PairInvariant, Typed, HubFits
    <3>3. localRooms' \in [Instances -> SUBSET (Codes \X Seats \X Clients)]
      BY <3>1, <3>2
    <3>4. member' \in [Clients -> [room : Codes, seat : Seats] \cup {NoMember}]
      BY <2>1 DEF PairInvariant, Typed, HubFits
    <3> QED
      BY <1>1, <3>3, <3>4 DEF PairInvariant, Typed, HubFits
  <2>6. ASSUME NEW i \in Instances, NEW b \in localRooms'[i]
        PROVE  Host[b[3]] = i /\ member'[b[3]] = [room |-> b[1], seat |-> b[2]]
    <3>1. /\ b \in localRooms[i] /\ Host[b[3]] = i /\ b[3] \in Clients
          /\ member[b[3]] = [room |-> b[1], seat |-> b[2]]
      BY <2>4, <2>6 DEF PairInvariant, Typed, HubFits, LocalFits
    <3>2. b[3] # c
      <4>1. SUFFICES ASSUME b[3] = c PROVE FALSE
        OBVIOUS
      <4>2. i = Host[c] /\ b[1] = x /\ b[2] = seat
        BY <2>2, <3>1, <4>1
      <4> QED
        BY <2>1, <2>6, <4>2 DEF PairInvariant, Typed, HubFits
    <3> QED
      BY <2>3, <3>1, <3>2
  <2>7. LocalFits'
    BY <2>6 DEF LocalFits
  <2>8. o \in Ops /\ o.kind = "unbound"
    BY <2>2 DEF Ops
  <2>9. OpFits' /\ op'[c].kind = "unbound" /\ \A d \in Clients : d # c => op'[d] = op[d]
    BY <2>1, <2>8 DEF PairInvariant, Typed, OpFits
  <2>10. ReadLoopsFit'
    BY <1>1, <2>9 DEF PairInvariant, ReadLoopsFit, RoomGoesOn
  <2>11. \A d \in Clients :
            /\ Placed(d)' => Placed(d)
            /\ Enters(d)' => ~InRoom(d)'
            /\ shown'[d] = shown[d] \/ Placed(d)
    <3>1. ~Enters(c)' /\ ~Placed(c)' /\ Placed(c)
      BY <1>4, <2>3, <2>9 DEF Enters, Placed
    <3>2. \A d \in Clients : d # c => /\ Enters(d)' <=> Enters(d)
                                      /\ InRoom(d)' <=> InRoom(d)
                                      /\ shown'[d] = shown[d]
      BY <2>1, <2>3, <2>9 DEF Enters, InRoom, Show
    <3> QED
      BY <3>1, <3>2 DEF Placed, PairInvariant, OneClaim
  <2>12. ChannelFits' /\ \A d \in Clients : (HasMail(d)' => HasMail(d)) /\ SingleMail(d)'
    BY <1>2 DEF NobodyIsCalled
  <2> QED
    BY <1>1, <2>5, <2>7, <2>9, <2>10, <2>11, <2>12, RoomKeepsPairs DEF RoomGoesOn
<1> QED
  BY <1>3, <1>4

\* Giving back the seat or closing the room.
LEMMA LeavingKeepsPairs ==
    ASSUME PairInvariant, RoomGoesOn, NEW c \in Clients,
           ReleaseSeat(c) \/ AnnounceLeave(c) \/ CloseRoom(c)
    PROVE  PairInvariant'
<1>1. CASE ReleaseSeat(c)
  <2>1. \E x, s : Publish(ToRoom(x, s))
    BY <1>1 DEF ReleaseSeat
  <2>2. op[c].kind # "match" /\ Return(c) /\ UNCHANGED <<hub, shown>>
    BY <1>1 DEF ReleaseSeat
  <2> QED
    BY <2>1, <2>2, HandlerReturns
<1>2. CASE AnnounceLeave(c)
  <2> DEFINE o == [kind |-> "closing", room |-> op[c].room]
  <2>1. NobodyIsCalled
    BY <1>2, NewsPublished DEF AnnounceLeave, Left
  <2>2. op[c] \in Ops /\ op[c].kind = "unbound"
    BY <1>2 DEF AnnounceLeave, PairInvariant, Typed, OpFits
  <2>3. o \in Ops /\ o.kind = "closing"
    BY <2>2, OpShape DEF Ops
  <2>4. op' = [op EXCEPT ![c] = o] /\ UNCHANGED <<hub, shown>>
    BY <1>2 DEF AnnounceLeave
  <2> QED
    BY <2>1, <2>2, <2>3, <2>4, HandlerGoesOn DEF RoomGoesOn
<1>3. CASE CloseRoom(c)
  BY <1>3, HandlerReturns DEF CloseRoom
<1> QED
  BY <1>1, <1>2, <1>3

\* A whole handler of Room.
LEMMA HandlersKeepPairs ==
    ASSUME PairInvariant, RoomGoesOn, NEW c \in Clients, Handler(c)
    PROVE  PairInvariant'
BY CommandsKeepPairs, ReadersKeepPairs, EnteringKeepsPairs, UnbindKeepsPairs,
   LeavingKeepsPairs DEF Handler

\* A connection ends.
LEMMA CancelKeepsPairs ==
    ASSUME PairInvariant, RoomGoesOn, NEW c \in Clients, Cancel(c)
    PROVE  PairInvariant'
<1>1. NobodyIsCalled /\ UNCHANGED <<localRooms, member, op, shown>>
  BY NothingPublished DEF Cancel, redis
<1>2. alive' \in [Clients -> {"up", "cancelled", "gone"}]
  BY DEF Cancel, PairInvariant, Typed, HubFits
<1>3. \A d \in Clients : alive'[d] = "up" => alive[d] = "up"
  BY DEF Cancel, PairInvariant, Typed, HubFits
<1>4. HubFits' /\ LocalFits' /\ OpFits' /\ ReadLoopsFit'
  BY <1>1, <1>2
     DEF PairInvariant, Typed, HubFits, LocalFits, OpFits, ReadLoopsFit, RoomGoesOn
<1>5. \A d \in Clients : (Placed(d)' => Placed(d)) /\ (Enters(d)' => ~InRoom(d)')
  BY <1>1 DEF Placed, Enters, InRoom, PairInvariant, OneClaim
<1> QED
  BY <1>1, <1>3, <1>4, <1>5, RoomKeepsPairs DEF RoomGoesOn, NobodyIsCalled

-----------------------------------------------------------------------------
(* The subscriber. *)

\* Those to whom an instance delivers sit in a room.
LEMMA ListenersSit ==
    ASSUME PairInvariant, NEW i \in Instances, NEW b \in localRooms[i]
    PROVE  /\ b[3] \in Clients /\ b[1] \in Codes /\ Host[b[3]] = i
           /\ member[b[3]] = [room |-> b[1], seat |-> b[2]]
           /\ InRoom(b[3])
BY NobodyAssumption DEF PairInvariant, Typed, HubFits, LocalFits, InRoom

\* A room was closed: its listeners are back at the menu.
LEMMA EvictKeepsPairs ==
    ASSUME PairInvariant, RoomGoesOn, NEW i \in Instances, NEW m, Evict(i, m),
           UNCHANGED <<alive, op>>, ChannelFits',
           \A c \in Clients : (HasMail(c)' => HasMail(c)) /\ SingleMail(c)'
    PROVE  PairInvariant'
<1> DEFINE here == {b \in localRooms[i] : b[1] = m.room}
           rest == {b[3] : b \in {d \in here : d[2] # m.seat}}
<1>1. /\ localRooms' = [localRooms EXCEPT ![i] = @ \ here]
      /\ member' = [c \in Clients |-> IF c \in rest THEN NoMember ELSE member[c]]
      /\ \A c \in Clients \ rest : shown'[c] = shown[c]
  BY DEF Evict, Show
<1>2. \A c \in rest : c \in Clients /\ InRoom(c) /\ Host[c] = i /\ member[c].room = m.room
  <2>1. ASSUME NEW c \in rest
        PROVE  c \in Clients /\ InRoom(c) /\ Host[c] = i /\ member[c].room = m.room
    <3>1. PICK b \in localRooms[i] : b[3] = c /\ b[1] = m.room
      BY <2>1
    <3> HIDE DEF here, rest
    <3>2. /\ b[3] \in Clients /\ Host[b[3]] = i /\ InRoom(b[3])
          /\ member[b[3]] = [room |-> b[1], seat |-> b[2]]
      BY ListenersSit
    <3> QED
      BY <3>1, <3>2
  <2> QED
    BY <2>1
<1>3. \A j \in Instances : \A b \in localRooms'[j] :
        b \in localRooms[j] /\ (j = i => b[1] # m.room)
  BY <1>1 DEF PairInvariant, Typed, HubFits
<1> HIDE DEF here, rest
<1>4. \A c \in Clients : member'[c] = IF c \in rest THEN NoMember ELSE member[c]
  BY <1>1
<1>5. HubFits'
  <2>1. localRooms' = [j \in Instances |-> localRooms'[j]]
    BY <1>1 DEF PairInvariant, Typed, HubFits
  <2>2. \A j \in Instances : localRooms'[j] \subseteq Codes \X Seats \X Clients
    BY <1>3 DEF PairInvariant, Typed, HubFits
  <2>3. localRooms' \in [Instances -> SUBSET (Codes \X Seats \X Clients)]
    BY <2>1, <2>2
  <2>4. member' \in [Clients -> [room : Codes, seat : Seats] \cup {NoMember}]
    BY <1>1 DEF PairInvariant, Typed, HubFits
  <2> QED
    BY <2>3, <2>4 DEF PairInvariant, Typed, HubFits
<1>6. LocalFits'
  <2>1. ASSUME NEW j \in Instances, NEW b \in localRooms'[j]
        PROVE  Host[b[3]] = j /\ member'[b[3]] = [room |-> b[1], seat |-> b[2]]
    <3>1. /\ b[3] \in Clients /\ Host[b[3]] = j
          /\ j = i => b[1] # m.room
          /\ member[b[3]] = [room |-> b[1], seat |-> b[2]]
      BY <1>3, <2>1, ListenersSit
    <3>2. b[3] \notin rest
      BY <1>2, <1>3, <2>1, <3>1, ListenersSit
    <3> QED
      BY <1>3, <1>4, <2>1, <3>1, <3>2, ListenersSit
  <2> QED
    BY <2>1 DEF LocalFits
<1>7. OpFits' /\ ReadLoopsFit'
  BY DEF PairInvariant, Typed, OpFits, ReadLoopsFit, RoomGoesOn
<1>8. \A c \in Clients : /\ Placed(c)' => Placed(c)
                         /\ Enters(c)' => ~InRoom(c)'
                         /\ shown'[c] = shown[c] \/ Placed(c)
  <2>1. \A c \in Clients : InRoom(c)' => InRoom(c)
    BY <1>4 DEF InRoom, NoMember
  <2>2. \A c \in Clients : Enters(c)' <=> Enters(c)
    BY DEF Enters
  <2>3. \A c \in Clients : Enters(c) => ~InRoom(c)
    BY DEF PairInvariant, OneClaim
  <2> QED
    BY <1>1, <1>2, <2>1, <2>2, <2>3 DEF Placed
<1> QED
  BY <1>5, <1>6, <1>7, <1>8, RoomKeepsPairs DEF RoomGoesOn

\* The subscriber of an instance handles a message.
LEMMA DispatchKeepsPairs ==
    ASSUME PairInvariant, RoomGoesOn, NEW i \in Instances, Dispatch(i)
    PROVE  PairInvariant'
<1>1. PICK n : n = Head(channel[i])
  OBVIOUS
<1>2. /\ channel[i] # <<>> /\ channel' = [channel EXCEPT ![i] = Tail(@)]
      /\ UNCHANGED <<alive, op>>
      /\ \/ n.type = "leave" /\ Evict(i, n)
         \/ n.type = "bind" /\ SeatTarget(i, n)
         \/ n.type = "room" /\ Deliver(i, n)
  BY <1>1 DEF Dispatch
<1>3. ChannelFits /\ \A c \in Clients : SingleMail(c)
  BY DEF PairInvariant, Typed, OneClaim
<1>4. /\ ChannelFits'
      /\ 1 \in Queued(i) /\ n = channel[i][1]
      /\ \A c \in Clients : /\ HasMail(c)' => HasMail(c)
                            /\ SingleMail(c)'
                            /\ Host[c] = i /\ Seats1(n, c) => HasMail(c) /\ ~HasMail(c)'
  BY <1>1, <1>2, <1>3, Dispatches
<1>5. CASE n.type = "leave" /\ Evict(i, n)
  BY <1>2, <1>4, <1>5, EvictKeepsPairs
<1>6. OpFits' /\ ReadLoopsFit'
  BY <1>2 DEF PairInvariant, Typed, OpFits, ReadLoopsFit, RoomGoesOn
<1>7. ASSUME UNCHANGED <<member, localRooms>>
      PROVE  /\ HubFits' /\ LocalFits'
             /\ \A c \in Clients : (Placed(c)' => Placed(c)) /\ (Enters(c)' => ~InRoom(c)')
  <2>1. HubFits' /\ LocalFits'
    BY <1>2, <1>7 DEF PairInvariant, Typed, HubFits, LocalFits
  <2>2. \A c \in Clients : Enters(c) => ~InRoom(c)
    BY DEF PairInvariant, OneClaim
  <2>3. \A c \in Clients : (Enters(c)' <=> Enters(c)) /\ (InRoom(c)' <=> InRoom(c))
    BY <1>2, <1>7 DEF Enters, InRoom
  <2> QED
    BY <2>1, <2>2, <2>3 DEF Placed
<1>8. CASE n.type = "room" /\ Deliver(i, n)
  <2> DEFINE here == {b[3] : b \in {d \in localRooms[i] : d[1] = n.room}}
  <2>1. \A c \in here : Placed(c)
    <3>1. ASSUME NEW c \in here PROVE Placed(c)
      <4>1. PICK b \in localRooms[i] : b[3] = c
        BY <3>1
      <4>2. InRoom(b[3])
        BY ListenersSit
      <4> QED
        BY <4>1, <4>2 DEF Placed
    <3> QED
      BY <3>1
  <2>2. \A c \in Clients : c \notin here => shown'[c] = shown[c]
    BY <1>8 DEF Deliver, Show
  <2>3. UNCHANGED <<member, localRooms>>
    BY <1>8 DEF Deliver
  <2> QED
    BY <1>2, <1>4, <1>6, <1>7, <2>1, <2>2, <2>3, RoomKeepsPairs DEF RoomGoesOn
<1>9. CASE n.type = "bind" /\ SeatTarget(i, n)
  <2>1. n.to \in Clients /\ n.room \in Codes /\ Seats1(n, n.to)
    BY <1>3, <1>4, <1>9 DEF ChannelFits, Seats1
  <2>2. CASE Host[n.to] = i /\ alive[n.to] # "gone"
    <3>1. BindLocal(n.to, n.room, 1) /\ Show({n.to}, Entered)
      BY <1>9, <2>2 DEF SeatTarget
    <3>2. HasMail(n.to) /\ ~HasMail(n.to)'
      BY <1>4, <2>1, <2>2
    <3>3. OneClaim(n.to)
      BY <2>1 DEF PairInvariant
    <3>4. ~Placed(n.to) /\ n.to \notin queue /\ \A p \in Procs : ~Moves(p, n.to)
      BY <3>2, <3>3 DEF OneClaim
    <3>5. HubFits /\ LocalFits /\ 1 \in Seats /\ ~InRoom(n.to)
      BY <3>4 DEF PairInvariant, Typed, Placed, Seats
    <3>6. /\ HubFits' /\ LocalFits'
          /\ \A d \in Clients : d # n.to => member'[d] = member[d]
          /\ alive[n.to] = "up" => InRoom(n.to)'
      BY <1>2, <2>1, <3>1, <3>5, BindLocalSeats DEF HubFits
    <3>7. \A c \in Clients : c # n.to => /\ InRoom(c)' <=> InRoom(c)
                                         /\ shown'[c] = shown[c]
      BY <3>1, <3>6 DEF InRoom, Show
    <3>8. shown'[n.to] = shown[n.to] \/ Placed(n.to)'
      BY <2>1, <3>1, <3>6 DEF Show, Placed
    <3>9. \A c \in Clients, p \in Procs : Moves(p, c)' <=> Moves(p, c)
      BY DEF Moves, RoomGoesOn
    <3>10. \A c \in Clients : Enters(c)' <=> Enters(c)
      BY <1>2 DEF Enters
    <3>11. ~Enters(n.to)'
      BY <2>1, <3>4, <3>10 DEF Placed
    <3>12. \A c \in Clients :
             /\ Placed(c)' => \/ Placed(c)
                              \/ /\ c \notin queue' /\ ~HasMail(c)'
                                 /\ \A p \in Procs : ~Moves(p, c)'
             /\ Enters(c)' => ~InRoom(c)'
             /\ shown'[c] = shown[c] \/ Placed(c)'
      <4>1. \A c \in Clients : Enters(c) => ~InRoom(c)
        BY DEF PairInvariant, OneClaim
      <4> QED
        BY <2>1, <3>2, <3>4, <3>7, <3>8, <3>9, <3>10, <3>11, <4>1 DEF Placed, RoomGoesOn
    <3> QED
      BY <1>2, <1>4, <1>6, <3>6, <3>12, RoomKeepsPairs DEF RoomGoesOn
  <2>3. CASE ~(Host[n.to] = i /\ alive[n.to] # "gone")
    <3>1. UNCHANGED <<member, localRooms, shown>>
      BY <1>9, <2>3 DEF SeatTarget
    <3> QED
      BY <1>2, <1>4, <1>6, <1>7, <3>1, RoomKeepsPairs DEF RoomGoesOn
  <2> QED
    BY <2>2, <2>3
<1> QED
  BY <1>2, <1>5, <1>8, <1>9

\* The end of a connection that sits in no room.
LEMMA LeaveQueueKeepsPairs ==
    ASSUME PairInvariant, NEW c \in Clients, LeaveQueue(c)
    PROVE  PairInvariant'
<1>1. /\ UNCHANGED <<channel, localRooms, member, op, shown, proc>>
      /\ alive' = [alive EXCEPT ![c] = "gone"]
      /\ queue' = queue \ {c} /\ waiting' = [waiting EXCEPT ![c] = FALSE]
  BY DEF LeaveQueue, Disconnect, redis
<1>2. NobodyIsCalled
  BY <1>1, NothingPublished
<1>3. /\ \A d \in Clients : alive'[d] = "up" => alive[d] = "up" /\ d # c
      /\ \A d \in Clients : d # c => waiting'[d] = waiting[d]
      /\ HubFits' /\ QueueFits'
  BY <1>1 DEF PairInvariant, Typed, HubFits, QueueFits
<1>4. \A d \in Clients, p \in Procs : Moves(p, d)' <=> Moves(p, d)
  BY <1>1 DEF Moves
<1>5. \A d \in Clients : (Placed(d)' => Placed(d)) /\ (Enters(d)' => ~InRoom(d)')
  BY <1>1 DEF Placed, Enters, InRoom, PairInvariant, OneClaim
<1>6. \A d \in Clients : OneClaim(d)'
  BY <1>1, <1>2, <1>4, <1>5, ClaimsKept DEF NobodyIsCalled
<1>7. LocalFits' /\ ReadLoopsFit' /\ Typed'
  BY <1>1, <1>2, <1>3
     DEF PairInvariant, Typed, LocalFits, ReadLoopsFit, OpFits, ProcFits, NobodyIsCalled
<1>8. ClaimsWait'
  BY <1>1, <1>2, <1>3, <1>4 DEF PairInvariant, ClaimsWait, Claimed, NobodyIsCalled
<1> QED
  BY <1>6, <1>7, <1>8 DEF PairInvariant

-----------------------------------------------------------------------------
(* The steps of pairing. *)

\* What a process moves about it takes from the queue or had before.
LEMMA ClaimsMoveOn ==
    ASSUME PairInvariant, NobodyIsCalled, UNCHANGED hub, OpFits', QueueFits', ReadLoopsFit',
           ProcFits', NEW p \in Procs,
           \A q \in Procs, c \in Clients : q # p => (Moves(q, c)' => Moves(q, c)),
           \A c \in Clients :
              /\ Enters(c)' <=> Enters(c)
              /\ c \in queue' \/ Moves(p, c)' => c \in queue \/ Moves(p, c)
              /\ ~(c \in queue' /\ Moves(p, c)')
              /\ alive[c] = "up" /\ waiting[c] => waiting'[c]
              /\ (c \in queue' \/ (p # ReadLoop(c) /\ Moves(p, c)'))
                    => \/ c \in queue \/ (p # ReadLoop(c) /\ Moves(p, c))
                       \/ alive[c] = "up" => waiting'[c]
    PROVE  PairInvariant'
<1>1. \A q \in Procs, c \in Clients : q # p => (Moves(q, c)' => Moves(q, c))
  OBVIOUS
<1>2. HubFits' /\ LocalFits' /\ ChannelFits'
  BY DEF PairInvariant, Typed, HubFits, LocalFits, hub, NobodyIsCalled
<1>3. ASSUME NEW c \in Clients PROVE OneClaim(c)'
  <2>1. OneClaim(c)
    BY DEF PairInvariant
  <2>2. (InRoom(c)' <=> InRoom(c)) /\ (Placed(c)' <=> Placed(c))
    BY DEF InRoom, hub, Placed
  <2>3. (HasMail(c)' <=> HasMail(c)) /\ SingleMail(c)'
    BY DEF NobodyIsCalled
  <2>4. /\ c \in queue' \/ Moves(p, c)' => c \in queue \/ Moves(p, c)
        /\ ~(c \in queue' /\ Moves(p, c)')
    OBVIOUS
  <2>5. c \in queue' \/ Moves(p, c)' => /\ ~Placed(c)' /\ ~HasMail(c)'
                                        /\ \A q \in Procs : q # p => ~Moves(q, c)'
    BY <1>1, <2>1, <2>2, <2>3, <2>4 DEF OneClaim
  <2>6. \A q \in Procs : Moves(q, c)' /\ q # p =>
           /\ ~Placed(c)' /\ ~HasMail(c)' /\ c \notin queue' /\ ~Moves(p, c)'
           /\ \A r \in Procs : Moves(r, c)' => r = q
    BY <1>1, <2>1, <2>2, <2>3, <2>4 DEF OneClaim
  <2>7. \A q \in Procs : Moves(q, c)' => ~Placed(c)' /\ \A r \in Procs : Moves(r, c)' => r = q
    BY <2>5, <2>6
  <2>8. HasMail(c)' => ~Placed(c)' /\ \A q \in Procs : ~Moves(q, c)'
    BY <2>1, <2>2, <2>3, <2>5, <2>6 DEF OneClaim
  <2>9. c \in queue' => ~Placed(c)' /\ ~HasMail(c)' /\ \A q \in Procs : ~Moves(q, c)'
    BY <2>4, <2>5
  <2>10. Enters(c)' => ~InRoom(c)'
    BY <2>1, <2>2 DEF OneClaim
  <2> QED
    BY <2>3, <2>7, <2>8, <2>9, <2>10 DEF OneClaim
<1>4. ASSUME NEW c \in Clients, alive'[c] = "up", Claimed(c)'
      PROVE  waiting'[c]
  <2>1. alive[c] = "up"
    BY <1>4 DEF hub
  <2>2. \/ c \in queue' \/ (p # ReadLoop(c) /\ Moves(p, c)')
        \/ HasMail(c)
        \/ \E q \in Procs : q # p /\ q # ReadLoop(c) /\ Moves(q, c)
    BY <1>1, <1>4 DEF Claimed, NobodyIsCalled
  <2>3. Claimed(c) \/ waiting'[c]
    BY <2>1, <2>2 DEF Claimed
  <2> QED
    BY <2>1, <2>3 DEF PairInvariant, ClaimsWait
<1> QED
  BY <1>2, <1>3, <1>4 DEF PairInvariant, Typed, ClaimsWait

\* The same for a process that goes on to another step.
LEMMA ProcessGoesOn ==
    ASSUME PairInvariant, NobodyIsCalled, UNCHANGED hub, OpFits', QueueFits', ReadLoopsFit',
           NEW p \in Procs, NEW s, StateFits(p, s), proc' = [proc EXCEPT ![p] = s],
           \A c \in Clients :
              /\ Enters(c)' <=> Enters(c)
              /\ c \in queue' \/ Moves(p, c)' => c \in queue \/ Moves(p, c)
              /\ ~(c \in queue' /\ Moves(p, c)')
              /\ alive[c] = "up" /\ waiting[c] => waiting'[c]
              /\ (c \in queue' \/ (p # ReadLoop(c) /\ Moves(p, c)'))
                    => \/ c \in queue \/ (p # ReadLoop(c) /\ Moves(p, c))
                       \/ alive[c] = "up" => waiting'[c]
    PROVE  PairInvariant'
<1>1. ProcFits' /\ \A q \in Procs : q # p => proc'[q] = proc[q]
  BY ProcessSteps DEF PairInvariant, Typed
<1>2. \A q \in Procs, c \in Clients : q # p => (Moves(q, c)' => Moves(q, c))
  BY <1>1 DEF Moves
<1> QED
  BY <1>1, <1>2, ClaimsMoveOn

\* A process at work goes on with the same command.
LEMMA GotoFits ==
    ASSUME PairInvariant, NEW p \in Procs, NEW s, StateFits(p, s),
           proc' = [proc EXCEPT ![p] = s], op' = op,
           proc[p] # Resting, s # Resting
    PROVE  OpFits' /\ ReadLoopsFit' /\ \A c \in Clients : Enters(c)' <=> Enters(c)
<1>1. /\ proc'[p] = s
      /\ \A q \in Procs : q # p => proc'[q] = proc[q]
  BY ProcessSteps DEF PairInvariant, Typed
<1>2. \A c \in Clients : proc'[ReadLoop(c)] # Resting <=> proc[ReadLoop(c)] # Resting
  BY <1>1, ProcShape
<1> QED
  BY <1>2 DEF PairInvariant, Typed, OpFits, ReadLoopsFit, Enters

\* A process ends, and with it the command of a read loop.
LEMMA DoneFits ==
    ASSUME PairInvariant, NEW p \in Procs, Done(p), proc[p] # Resting
    PROVE  /\ proc' = [proc EXCEPT ![p] = Resting] /\ StateFits(p, Resting)
           /\ OpFits' /\ ReadLoopsFit' /\ \A c \in Clients : Enters(c)' <=> Enters(c)
           /\ \A c \in Clients : op'[c] = op[c] \/ (op[c].kind = "match" /\ op'[c] = Idle)
<1>1. proc' = [proc EXCEPT ![p] = Resting] /\ StateFits(p, Resting)
  BY DEF Done, StateFits, Resting, Looking, HasPartner
<1>2. /\ proc'[p] = Resting
      /\ \A q \in Procs : q # p => proc'[q] = proc[q]
  BY <1>1, ProcessSteps DEF PairInvariant, Typed
<1>3. CASE IsRecheck(p)
  <2>1. op' = op /\ \A c \in Clients : ReadLoop(c) # p
    BY <1>3, ProcShape DEF Done
  <2>2. \A c \in Clients : proc'[ReadLoop(c)] = proc[ReadLoop(c)]
    BY <1>2, <2>1, ProcShape
  <2> QED
    BY <1>1, <2>1, <2>2 DEF PairInvariant, Typed, OpFits, ReadLoopsFit, Enters
<1>4. CASE ~IsRecheck(p)
  <2>1. p = ReadLoop(p[1]) /\ p[1] \in Clients /\ op' = [op EXCEPT ![p[1]] = Idle]
    BY <1>4, ProcShape DEF Done, Return
  <2>2. op[p[1]].kind = "match"
    BY <2>1 DEF PairInvariant, ReadLoopsFit
  <2>3. /\ OpFits' /\ op'[p[1]] = Idle
        /\ \A c \in Clients : c # p[1] => op'[c] = op[c] /\ ReadLoop(c) # p
    BY <2>1, ProcShape DEF PairInvariant, Typed, OpFits, Ops
  <2>4. ReadLoopsFit'
    <3>1. ASSUME NEW c \in Clients
          PROVE  op'[c].kind = "match" <=> proc'[ReadLoop(c)] # Resting
      <4>1. CASE c = p[1]
        BY <1>2, <2>1, <2>3, <4>1 DEF Idle
      <4>2. CASE c # p[1]
        <5>1. op'[c] = op[c] /\ proc'[ReadLoop(c)] = proc[ReadLoop(c)]
          BY <1>2, <2>3, <4>2, ProcShape
        <5> QED
          BY <5>1 DEF PairInvariant, ReadLoopsFit
      <4> QED
        BY <4>1, <4>2
    <3> QED
      BY <3>1 DEF ReadLoopsFit
  <2>5. \A c \in Clients : Enters(c)' <=> Enters(c)
    BY <2>2, <2>3 DEF Enters, Idle
  <2> QED
    BY <1>1, <2>2, <2>3, <2>4, <2>5
<1> QED
  BY <1>3, <1>4

\* A process goes on without taking anybody.
LEMMA ProcessKeepsPairs ==
    ASSUME PairInvariant, NobodyIsCalled, UNCHANGED <<hub, queue, waiting>>,
           OpFits', ReadLoopsFit', \A c \in Clients : Enters(c)' <=> Enters(c),
           NEW p \in Procs, NEW s, StateFits(p, s), proc' = [proc EXCEPT ![p] = s],
           s.at \in Looking => At(p, s.at) \/ proc[p].at \in Looking,
           s.at \in HasPartner => proc[p].at \in HasPartner /\ s.partner = proc[p].partner
    PROVE  PairInvariant'
<1>1. proc'[p] = s
  BY ProcessSteps DEF PairInvariant, Typed
<1>2. \A c \in Clients : Moves(p, c)' => Moves(p, c)
  BY <1>1 DEF Moves, At
<1>3. \A c \in Clients : ~(c \in queue /\ Moves(p, c))
  BY DEF PairInvariant, OneClaim
<1>4. QueueFits'
  BY DEF PairInvariant, Typed, QueueFits
<1> QED
  BY <1>2, <1>3, <1>4, ProcessGoesOn

\* The lock of the queue, the search, and the way back from it.
LEMMA SearchKeepsPairs ==
    ASSUME PairInvariant, NEW p \in Procs,
           \/ TakeMatchLock(p) \/ MissMatchLock(p)
           \/ Search(p) \/ NoCandidate(p) \/ LeaveAlone(p)
    PROVE  PairInvariant'
<1>1. NobodyIsCalled /\ UNCHANGED <<hub, waiting, op, queue>>
  BY NothingPublished
     DEF TakeMatchLock, MissMatchLock, Search, NoCandidate, LeaveAlone, redis
<1>2. proc[p].at \in {"lock", "search", "take", "alone"} /\ proc[p] # Resting
  BY DEF TakeMatchLock, MissMatchLock, Search, NoCandidate, LeaveAlone, At, Resting
<1>3. queue \subseteq Clients
  BY DEF PairInvariant, Typed, QueueFits
<1>4. PICK s : /\ proc' = [proc EXCEPT ![p] = s]
               /\ \/ \E at \in {"search", "enqueue", "alone"} : s = InState(at, proc[p].round)
                  \/ s = [at |-> "take", round |-> proc[p].round, seen |-> queue \ {p[1]}]
  BY DEF TakeMatchLock, MissMatchLock, Search, NoCandidate, LeaveAlone, Goto,
         PairInvariant, Typed, ProcFits
<1>5. StateFits(p, s) /\ s # Resting /\ s.at \notin HasPartner
  BY <1>3, <1>4 DEF StateFits, InState, Resting, Looking, HasPartner
<1>6. OpFits' /\ ReadLoopsFit' /\ \A c \in Clients : Enters(c)' <=> Enters(c)
  BY <1>1, <1>2, <1>4, <1>5, GotoFits
<1>7. proc[p].at \in Looking
  BY <1>2 DEF Looking
<1> QED
  BY <1>1, <1>4, <1>5, <1>6, <1>7, ProcessKeepsPairs

\* The partner is taken from the queue, or was gone.
LEMMA TakeCandidateKeepsPairs ==
    ASSUME PairInvariant, NEW p \in Procs, TakeCandidate(p)
    PROVE  PairInvariant'
<1>1. NobodyIsCalled /\ UNCHANGED <<hub, waiting, op>>
  BY NothingPublished DEF TakeCandidate, redis
<1>2. At(p, "take") /\ StateFits(p, proc[p]) /\ proc[p] # Resting
  BY DEF TakeCandidate, PairInvariant, Typed, ProcFits, At, Resting
<1>3. PICK d \in proc[p].seen :
         /\ queue' = queue \ {d}
         /\ proc' = [proc EXCEPT ![p] =
                       IF d \in queue
                       THEN [at |-> "create", round |-> proc[p].round, partner |-> d]
                       ELSE [at |-> "take", round |-> proc[p].round, seen |-> proc[p].seen \ {d}]]
  BY DEF TakeCandidate, PairInvariant, Typed, ProcFits
<1>4. d \in Clients /\ d # p[1]
  BY <1>2, <1>3 DEF StateFits, At
<1>5. QueueFits'
  BY <1>1, <1>3 DEF PairInvariant, Typed, QueueFits
<1>6. CASE d \in queue
  <2> DEFINE s == [at |-> "create", round |-> proc[p].round, partner |-> d]
  <2>1. proc' = [proc EXCEPT ![p] = s]
    BY <1>3, <1>6
  <2>2. StateFits(p, s) /\ s # Resting
    BY <1>4 DEF StateFits, Resting, Looking, HasPartner
  <2>3. OpFits' /\ ReadLoopsFit' /\ \A c \in Clients : Enters(c)' <=> Enters(c)
    BY <1>1, <1>2, <2>1, <2>2, GotoFits
  <2>4. proc'[p] = s
    BY <2>1, <2>2, ProcessSteps DEF PairInvariant, Typed
  <2>5. \A c \in Clients : Moves(p, c)' <=> p[1] = c \/ c = d
    BY <2>4 DEF Moves, Looking, HasPartner
  <2>6. \A c \in Clients : Moves(p, c) <=> p[1] = c
    BY <1>2 DEF Moves, Looking, HasPartner, At
  <2>7. \A c \in Clients : ~(c \in queue /\ Moves(p, c))
    BY DEF PairInvariant, OneClaim
  <2>8. p # ReadLoop(d)
    BY <1>4, ProcShape
  <2> QED
    BY <1>1, <1>3, <1>5, <1>6, <2>1, <2>2, <2>3, <2>5, <2>6, <2>7, <2>8, ProcessGoesOn
<1>7. CASE d \notin queue
  <2> DEFINE s == [at |-> "take", round |-> proc[p].round, seen |-> proc[p].seen \ {d}]
  <2>1. proc' = [proc EXCEPT ![p] = s] /\ queue' = queue
    BY <1>3, <1>7
  <2>2. s.at = "take" /\ s.seen \subseteq proc[p].seen
    BY <1>2 DEF At
  <2>3. StateFits(p, s) /\ s # Resting
    BY <1>2, <2>2 DEF StateFits, Resting, Looking, HasPartner, At
  <2>4. OpFits' /\ ReadLoopsFit' /\ \A c \in Clients : Enters(c)' <=> Enters(c)
    BY <1>1, <1>2, <2>1, <2>3, GotoFits
  <2> QED
    BY <1>1, <1>2, <2>1, <2>2, <2>3, <2>4, ProcessKeepsPairs DEF HasPartner, At
<1> QED
  BY <1>6, <1>7

\* The room is made.
LEMMA CreateMatchKeepsPairs ==
    ASSUME PairInvariant, NEW p \in Procs, NEW x \in Codes, CreateMatch(p, x)
    PROVE  PairInvariant'
<1> DEFINE s == [at |-> "bind", round |-> proc[p].round, partner |-> proc[p].partner,
                 room |-> x]
<1>1. NobodyIsCalled /\ UNCHANGED <<hub, waiting, op, queue>>
  BY NothingPublished DEF CreateMatch
<1>2. At(p, "create") /\ StateFits(p, proc[p]) /\ proc[p] # Resting
  BY DEF CreateMatch, PairInvariant, Typed, ProcFits, At, Resting
<1>3. proc' = [proc EXCEPT ![p] = s]
  BY DEF CreateMatch, PairInvariant, Typed, ProcFits
<1>4. StateFits(p, s) /\ s # Resting
  BY <1>2 DEF StateFits, Resting, Looking, HasPartner, At
<1>5. OpFits' /\ ReadLoopsFit' /\ \A c \in Clients : Enters(c)' <=> Enters(c)
  BY <1>1, <1>2, <1>3, <1>4, GotoFits
<1> QED
  BY <1>1, <1>2, <1>3, <1>4, <1>5, ProcessKeepsPairs DEF HasPartner, Looking, At

\* The client sits down and its partner is called.
LEMMA BindPairKeepsPairs ==
    ASSUME PairInvariant, NEW p \in Procs, BindPair(p)
    PROVE  PairInvariant'
<1> DEFINE s == [at |-> "start", round |-> proc[p].round, room |-> proc[p].room]
<1>1. PICK c, d, x : c = p[1] /\ d = proc[p].partner /\ x = proc[p].room
  OBVIOUS
<1>2. At(p, "bind") /\ StateFits(p, proc[p]) /\ proc[p] # Resting
  BY DEF BindPair, PairInvariant, Typed, ProcFits, At, Resting
<1>3. c \in Clients /\ d \in Clients /\ c # d /\ x \in Codes
  BY <1>1, <1>2, ProcShape DEF StateFits, At, HasPartner
<1>4. /\ BindLocal(c, x, 0) /\ Publish(BindTo(x, d))
      /\ waiting' = [waiting EXCEPT ![c] = FALSE]
      /\ UNCHANGED <<alive, op, queue>>
  BY <1>1 DEF BindPair
<1>5. proc' = [proc EXCEPT ![p] = s]
  BY DEF BindPair, PairInvariant, Typed, ProcFits
<1>6. StateFits(p, s) /\ s # Resting
  BY DEF StateFits, Resting, Looking, HasPartner
<1>7. OpFits' /\ ReadLoopsFit' /\ \A e \in Clients : Enters(e)' <=> Enters(e)
  BY <1>2, <1>4, <1>5, <1>6, GotoFits
<1>8. ProcFits' /\ proc'[p] = s /\ \A q \in Procs : q # p => proc'[q] = proc[q]
  BY <1>5, <1>6, ProcessSteps DEF PairInvariant, Typed
<1>9. Moves(p, c) /\ Moves(p, d)
  BY <1>1, <1>2 DEF Moves, At, Looking, HasPartner
<1>10. /\ \A q \in Procs, e \in Clients : q # p => (Moves(q, e)' <=> Moves(q, e))
       /\ \A e \in Clients : ~Moves(p, e)'
  BY <1>8 DEF Moves, Looking, HasPartner
<1>11. \A e \in Clients : OneClaim(e)
  BY DEF PairInvariant
<1>12. \A e \in {c, d} : /\ e \notin queue /\ ~Placed(e) /\ ~HasMail(e)
                         /\ \A q \in Procs : ~Moves(q, e)'
  BY <1>3, <1>9, <1>10, <1>11 DEF OneClaim
<1>13. /\ ChannelFits'
       /\ \A e \in Clients : /\ HasMail(e)' <=> HasMail(e) \/ e = d
                             /\ SingleMail(e)'
  <2>1. /\ \A e \in Clients : Seats1(BindTo(x, d), e) <=> e = d
        /\ BindTo(x, d).to \in Clients /\ BindTo(x, d).room \in Codes
    BY <1>3 DEF Seats1, BindTo
  <2>2. ChannelFits /\ \A e \in Clients : SingleMail(e)
    BY <1>11 DEF PairInvariant, Typed, OneClaim
  <2> HIDE DEF Seats1, BindTo
  <2>3. /\ ChannelFits'
        /\ \A e \in Clients :
              /\ HasMail(e)' <=> HasMail(e) \/ Seats1(BindTo(x, d), e)
              /\ SingleMail(e) /\ ~(HasMail(e) /\ Seats1(BindTo(x, d), e)) => SingleMail(e)'
    BY <1>4, <2>1, <2>2, Publishes
  <2> QED
    BY <1>12, <2>1, <2>2, <2>3
<1>14. /\ localRooms' \in [Instances -> SUBSET (Codes \X Seats \X Clients)]
       /\ member' \in [Clients -> [room : Codes, seat : Seats] \cup {NoMember}]
       /\ LocalFits'
       /\ \A e \in Clients : e # c => member'[e] = member[e]
  BY <1>3, <1>4, <1>12, BindLocalSeats DEF PairInvariant, Typed, Placed, Seats
<1>15. HubFits'
  BY <1>4, <1>14 DEF PairInvariant, Typed, HubFits
<1>16. QueueFits' /\ \A e \in Clients : e # c => waiting'[e] = waiting[e]
  BY <1>4 DEF PairInvariant, Typed, QueueFits
<1>17. ASSUME NEW e \in Clients PROVE OneClaim(e)'
  <2>1. CASE e = c
    <3>1. c \notin queue' /\ ~HasMail(c)' /\ SingleMail(c)' /\ \A q \in Procs : ~Moves(q, c)'
      BY <1>3, <1>4, <1>12, <1>13
    <3>2. ~Enters(c)'
      BY <1>3, <1>7, <1>12 DEF Placed
    <3> QED
      BY <2>1, <3>1, <3>2 DEF OneClaim
  <2>2. CASE e # c
    <3>1. (InRoom(e)' <=> InRoom(e)) /\ (Placed(e)' <=> Placed(e))
      BY <1>7, <1>14, <2>2 DEF InRoom, Placed
    <3>2. CASE e = d
      BY <1>4, <1>11, <1>12, <1>13, <3>1, <3>2, <1>7 DEF OneClaim
    <3>3. CASE e # d
      BY <1>4, <1>7, <1>10, <1>11, <1>13, <3>1, <3>3 DEF OneClaim
    <3> QED
      BY <3>2, <3>3
  <2> QED
    BY <2>1, <2>2
<1>18. ASSUME NEW e \in Clients, alive'[e] = "up", Claimed(e)'
       PROVE  waiting'[e]
  <2>1. e # c
    BY <1>3, <1>4, <1>12, <1>13, <1>18 DEF Claimed
  <2>2. Claimed(e)
    <3>1. CASE e = d
      <4>1. p # ReadLoop(d)
        BY <1>1, <1>3, ProcShape
      <4> QED
        BY <1>9, <3>1, <4>1 DEF Claimed
    <3>2. CASE e # d
      BY <1>4, <1>10, <1>13, <1>18, <3>2 DEF Claimed
    <3> QED
      BY <3>1, <3>2
  <2>3. waiting[e]
    BY <1>4, <1>18, <2>2 DEF PairInvariant, ClaimsWait
  <2> QED
    BY <1>16, <2>1, <2>3
<1> QED
  BY <1>7, <1>8, <1>13, <1>14, <1>15, <1>16, <1>17, <1>18
     DEF PairInvariant, Typed, ClaimsWait

\* The game is announced; a recheck looks around.
LEMMA MovingOnKeepsPairs ==
    ASSUME PairInvariant, NEW p \in Procs,
           StartMatch(p) \/ LeavePaired(p) \/ AbandonMatch(p) \/ Wake(p)
    PROVE  PairInvariant'
<1>1. UNCHANGED <<hub, waiting, queue>>
  BY DEF StartMatch, LeavePaired, AbandonMatch, Wake
<1>2. NobodyIsCalled
  <2>1. CASE StartMatch(p)
    BY <2>1, NewsPublished DEF StartMatch, ToRoom
  <2>2. CASE channel' = channel
    BY <2>2, NothingPublished
  <2> QED
    BY <2>1, <2>2 DEF LeavePaired, AbandonMatch, Wake, redis
<1>3. proc[p] # Resting
  BY DEF StartMatch, LeavePaired, AbandonMatch, Wake, At, Resting
<1>4. CASE Done(p)
  <2>1. Resting.at \notin Looking /\ Resting.at \notin HasPartner
    BY DEF Resting, Looking, HasPartner
  <2> QED
    BY <1>1, <1>2, <1>3, <1>4, <2>1, DoneFits, ProcessKeepsPairs
<1>5. ASSUME NEW at \in {"paired", "remove"}, Goto(p, at), op' = op
      PROVE  PairInvariant'
  <2> DEFINE s == InState(at, proc[p].round)
  <2>1. proc' = [proc EXCEPT ![p] = s]
    BY <1>5 DEF Goto, PairInvariant, Typed, ProcFits
  <2>2. StateFits(p, s) /\ s # Resting /\ s.at \notin Looking /\ s.at \notin HasPartner
    BY DEF StateFits, InState, Resting, Looking, HasPartner
  <2>3. OpFits' /\ ReadLoopsFit' /\ \A c \in Clients : Enters(c)' <=> Enters(c)
    BY <1>3, <1>5, <2>1, <2>2, GotoFits
  <2> QED
    BY <1>1, <1>2, <2>1, <2>2, <2>3, ProcessKeepsPairs
<1> QED
  BY <1>4, <1>5 DEF StartMatch, LeavePaired, AbandonMatch, Wake

\* What a recheck does at the end of a round.
LEMMA NextRoundFits ==
    ASSUME PairInvariant, NEW p \in Procs, NextRound(p), proc[p] # Resting
    PROVE  /\ \E s : /\ proc' = [proc EXCEPT ![p] = s] /\ StateFits(p, s)
                     /\ s.at \notin Looking /\ s.at \notin HasPartner
           /\ OpFits' /\ ReadLoopsFit' /\ \A c \in Clients : Enters(c)' <=> Enters(c)
<1>1. CASE proc[p].round = Rounds
  BY <1>1, DoneFits DEF NextRound, Resting, Looking, HasPartner
<1>2. CASE proc[p].round # Rounds
  <2> DEFINE s == InState("wait", proc[p].round + 1)
  <2>1. proc' = [proc EXCEPT ![p] = s] /\ op' = op
    BY <1>2 DEF NextRound, PairInvariant, Typed, ProcFits
  <2>2. StateFits(p, s) /\ s # Resting /\ s.at \notin Looking /\ s.at \notin HasPartner
    BY DEF StateFits, InState, Resting, Looking, HasPartner
  <2> QED
    BY <2>1, <2>2, GotoFits
<1> QED
  BY <1>1, <1>2

\* A recheck puts its client back.
LEMMA RequeueKeepsPairs ==
    ASSUME PairInvariant, NEW p \in Procs, Requeue(p)
    PROVE  PairInvariant'
<1>1. NobodyIsCalled /\ UNCHANGED <<hub, waiting>> /\ queue' = queue \cup {p[1]}
  BY NothingPublished DEF Requeue, redis
<1>2. At(p, "enqueue") /\ proc[p] # Resting /\ p[1] \in Clients /\ p # ReadLoop(p[1])
  BY ProcShape DEF Requeue, At, Resting
<1>3. PICK s : /\ proc' = [proc EXCEPT ![p] = s] /\ StateFits(p, s)
               /\ s.at \notin Looking /\ s.at \notin HasPartner
  BY <1>2, NextRoundFits DEF Requeue
<1>4. OpFits' /\ ReadLoopsFit' /\ \A c \in Clients : Enters(c)' <=> Enters(c)
  BY <1>2, NextRoundFits DEF Requeue
<1>5. proc'[p] = s
  BY <1>3, ProcessSteps DEF PairInvariant, Typed
<1>6. \A c \in Clients : ~Moves(p, c)'
  BY <1>3, <1>5 DEF Moves
<1>7. Moves(p, p[1])
  BY <1>2 DEF Moves, Looking, At
<1>8. QueueFits'
  BY <1>1, <1>2 DEF PairInvariant, Typed, QueueFits
<1> QED
  BY <1>1, <1>2, <1>3, <1>4, <1>6, <1>7, <1>8, ProcessGoesOn

\* A recheck takes its client out, or finds it taken.
LEMMA RemoveOwnKeepsPairs ==
    ASSUME PairInvariant, NEW p \in Procs, RemoveOwn(p)
    PROVE  PairInvariant'
<1>1. NobodyIsCalled /\ UNCHANGED <<hub, waiting>> /\ queue' = queue \ {p[1]}
  BY NothingPublished DEF RemoveOwn, redis
<1>2. At(p, "remove") /\ proc[p] # Resting /\ \A c \in Clients : ~Moves(p, c)
  BY DEF RemoveOwn, At, Resting, Moves, Looking, HasPartner
<1>3. QueueFits'
  BY <1>1 DEF PairInvariant, Typed, QueueFits
<1>4. CASE p[1] \in queue
  <2> DEFINE s == InState("lock", proc[p].round)
  <2>1. proc' = [proc EXCEPT ![p] = s] /\ op' = op
    BY <1>4 DEF RemoveOwn, Goto, PairInvariant, Typed, ProcFits
  <2>2. StateFits(p, s) /\ s # Resting /\ s.at = "lock"
    BY DEF StateFits, InState, Resting, Looking, HasPartner
  <2>3. OpFits' /\ ReadLoopsFit' /\ \A c \in Clients : Enters(c)' <=> Enters(c)
    BY <1>2, <2>1, <2>2, GotoFits
  <2>4. proc'[p] = s
    BY <2>1, <2>2, ProcessSteps DEF PairInvariant, Typed
  <2>5. \A c \in Clients : Moves(p, c)' <=> c = p[1]
    BY <2>2, <2>4 DEF Moves, Looking, HasPartner
  <2> QED
    BY <1>1, <1>3, <1>4, <2>1, <2>2, <2>3, <2>5, ProcessGoesOn
<1>5. CASE p[1] \notin queue
  <2>1. NextRound(p) /\ queue' = queue
    BY <1>1, <1>5 DEF RemoveOwn
  <2>2. PICK s : /\ proc' = [proc EXCEPT ![p] = s] /\ StateFits(p, s)
                 /\ s.at \notin Looking /\ s.at \notin HasPartner
    BY <1>2, <2>1, NextRoundFits
  <2>3. OpFits' /\ ReadLoopsFit' /\ \A c \in Clients : Enters(c)' <=> Enters(c)
    BY <1>2, <2>1, NextRoundFits
  <2> QED
    BY <1>1, <2>1, <2>2, <2>3, ProcessKeepsPairs
<1> QED
  BY <1>4, <1>5

\* The read loop puts its client into the queue and leaves a recheck behind.
LEMMA EnqueueKeepsPairs ==
    ASSUME PairInvariant, NEW p \in Procs, EnqueueAndWait(p)
    PROVE  PairInvariant'
<1>1. NobodyIsCalled /\ UNCHANGED hub /\ queue' = queue \cup {p[1]}
  BY NothingPublished DEF EnqueueAndWait, redis
<1>2. At(p, "enqueue") /\ p[1] \in Clients /\ p = ReadLoop(p[1]) /\ proc[p] # Resting
  BY ProcShape DEF EnqueueAndWait, At, Resting
<1>3. PICK k \in 1..MaxRechecks :
         proc' = [proc EXCEPT ![p] = Resting, ![<<p[1], k>>] = InState("wait", 1)]
  BY DEF EnqueueAndWait
<1>4. PICK r : r = <<p[1], k>>
  OBVIOUS
<1>5. r \in Procs /\ \A c \in Clients : r # ReadLoop(c)
  BY <1>2, <1>4, RoundsAssumption DEF Procs, ReadLoop
<1>6. /\ proc'[r] = InState("wait", 1) /\ (p # r => proc'[p] = Resting)
      /\ \A q \in Procs : q # p /\ q # r => proc'[q] = proc[q]
      /\ proc' = [q \in Procs |-> proc'[q]]
  BY <1>3, <1>4, <1>5 DEF PairInvariant, Typed, ProcFits
<1>7. p # r
  BY <1>2, <1>5
<1>8. \A q \in Procs, c \in Clients : Moves(q, c)' => Moves(q, c) /\ q # p
  BY <1>6, <1>7 DEF Moves, Looking, HasPartner, Resting, InState
<1>9. ProcFits'
  <2>1. ASSUME NEW q \in Procs PROVE StateFits(q, proc'[q])
    <3>1. StateFits(q, proc[q])
      BY DEF PairInvariant, Typed, ProcFits
    <3>2. StateFits(q, Resting) /\ StateFits(q, InState("wait", 1))
      BY DEF StateFits, Resting, InState, Looking, HasPartner
    <3> QED
      BY <1>6, <3>1, <3>2
  <2> QED
    BY <1>6, <2>1 DEF ProcFits
<1>10. op' = [op EXCEPT ![p[1]] = Idle]
  BY DEF EnqueueAndWait, Return
<1>11. op[p[1]].kind = "match"
  BY <1>2 DEF PairInvariant, ReadLoopsFit
<1>12. OpFits' /\ op'[p[1]] = Idle /\ \A c \in Clients : c # p[1] => op'[c] = op[c]
  BY <1>2, <1>10 DEF PairInvariant, Typed, OpFits, Ops
<1>13. \A c \in Clients : Enters(c)' <=> Enters(c)
  BY <1>11, <1>12 DEF Enters, Idle
<1>14. ReadLoopsFit'
  <2>1. ASSUME NEW c \in Clients
        PROVE  op'[c].kind = "match" <=> proc'[ReadLoop(c)] # Resting
    <3>1. CASE c = p[1]
      BY <1>2, <1>6, <1>7, <1>12, <3>1 DEF Idle
    <3>2. CASE c # p[1]
      <4>1. ReadLoop(c) \in Procs /\ ReadLoop(c) # p /\ ReadLoop(c) # r
        BY <1>5, <3>2, ProcShape
      <4> QED
        BY <1>6, <1>12, <3>2, <4>1 DEF PairInvariant, ReadLoopsFit
    <3> QED
      BY <3>1, <3>2
  <2> QED
    BY <2>1 DEF ReadLoopsFit
<1>15. waiting' = [waiting EXCEPT ![p[1]] = alive[p[1]] = "up"]
  BY DEF EnqueueAndWait
<1>16. /\ QueueFits'
       /\ alive[p[1]] = "up" => waiting'[p[1]]
       /\ \A c \in Clients : c # p[1] => waiting'[c] = waiting[c]
  BY <1>1, <1>2, <1>15 DEF PairInvariant, Typed, QueueFits
<1>17. Moves(p, p[1])
  BY <1>2 DEF Moves, Looking, At
<1>18. \A c \in Clients :
          /\ c \in queue' \/ Moves(p, c)' => c \in queue \/ Moves(p, c)
          /\ ~(c \in queue' /\ Moves(p, c)')
          /\ alive[c] = "up" /\ waiting[c] => waiting'[c]
          /\ (c \in queue' \/ (p # ReadLoop(c) /\ Moves(p, c)'))
                => \/ c \in queue \/ (p # ReadLoop(c) /\ Moves(p, c))
                   \/ alive[c] = "up" => waiting'[c]
  BY <1>1, <1>8, <1>16, <1>17
<1>19. \A q \in Procs, c \in Clients : q # p => (Moves(q, c)' => Moves(q, c))
  BY <1>8
<1> QED
  BY <1>1, <1>9, <1>12, <1>13, <1>14, <1>16, <1>18, <1>19, ClaimsMoveOn

\* A client asks for a match.
LEMMA QuickMatchKeepsPairs ==
    ASSUME PairInvariant, NEW c \in Clients, QuickMatch(c)
    PROVE  PairInvariant'
<1> DEFINE p == ReadLoop(c)
           s == InState("lock", 0)
           o == [kind |-> "match"]
<1>1. /\ NobodyIsCalled /\ UNCHANGED <<hub, queue, waiting>>
      /\ op[c] = Idle /\ alive[c] = "up" /\ ~InRoom(c) /\ ~waiting[c]
      /\ op' = [op EXCEPT ![c] = o] /\ proc' = [proc EXCEPT ![p] = s]
  BY NothingPublished DEF QuickMatch, redis, MayHandle
<1>2. p \in Procs /\ p[1] = c /\ \A d \in Clients : d # c => ReadLoop(d) # p
  BY ProcShape
<1> HIDE DEF p
<1>3. StateFits(p, s) /\ s # Resting /\ s.at = "lock"
  BY DEF StateFits, InState, Resting, Looking, HasPartner
<1> HIDE DEF s
<1>4. ProcFits' /\ proc'[p] = s /\ \A q \in Procs : q # p => proc'[q] = proc[q]
  BY <1>1, <1>2, <1>3, ProcessSteps DEF PairInvariant, Typed
<1>5. OpFits' /\ op'[c] = o /\ \A d \in Clients : d # c => op'[d] = op[d]
  BY <1>1 DEF PairInvariant, Typed, OpFits, Ops
<1>6. ReadLoopsFit'
  <2>1. ASSUME NEW d \in Clients
        PROVE  op'[d].kind = "match" <=> proc'[ReadLoop(d)] # Resting
    <3>1. CASE d = c
      BY <1>3, <1>4, <1>5, <3>1 DEF p
    <3>2. CASE d # c
      <4>1. op'[d] = op[d] /\ proc'[ReadLoop(d)] = proc[ReadLoop(d)]
        BY <1>2, <1>4, <1>5, <3>2, ProcShape
      <4> QED
        BY <4>1 DEF PairInvariant, ReadLoopsFit
    <3> QED
      BY <3>1, <3>2
  <2> QED
    BY <2>1 DEF ReadLoopsFit
<1>7. c \notin queue /\ ~HasMail(c) /\ ~Placed(c) /\ \A q \in Procs : ~Moves(q, c)
  <2>1. ~Claimed(c)
    BY <1>1 DEF PairInvariant, ClaimsWait
  <2>2. proc[p] = Resting
    BY <1>1 DEF PairInvariant, ReadLoopsFit, Idle, p
  <2>3. ~Moves(p, c)
    BY <2>2 DEF Moves, Resting, Looking, HasPartner
  <2> QED
    BY <1>1, <2>1, <2>3 DEF Claimed, Placed, Enters, Idle, p
<1>8. \A q \in Procs, d \in Clients : Moves(q, d)' <=> Moves(q, d) \/ (q = p /\ d = c)
  <2>1. \A d \in Clients : ~Moves(p, d)
    <3>1. proc[p] = Resting
      BY <1>1 DEF PairInvariant, ReadLoopsFit, Idle, p
    <3> QED
      BY <3>1 DEF Moves, Resting, Looking, HasPartner
  <2>2. \A d \in Clients : Moves(p, d)' <=> d = c
    BY <1>2, <1>3, <1>4 DEF Moves, Looking, HasPartner
  <2>3. \A q \in Procs, d \in Clients : q # p => (Moves(q, d)' <=> Moves(q, d))
    BY <1>4 DEF Moves
  <2> QED
    BY <2>1, <2>2, <2>3
<1>9. \A d \in Clients : /\ Enters(d)' <=> Enters(d)
                         /\ InRoom(d)' <=> InRoom(d)
                         /\ Placed(d)' <=> Placed(d)
  BY <1>1, <1>5 DEF Enters, InRoom, Placed, Idle, hub
<1>10. ASSUME NEW d \in Clients PROVE OneClaim(d)'
  <2>1. OneClaim(d)
    BY DEF PairInvariant
  <2>2. (HasMail(d)' <=> HasMail(d)) /\ SingleMail(d)'
    BY <1>1 DEF NobodyIsCalled
  <2>3. CASE d = c
    BY <1>1, <1>7, <1>8, <1>9, <2>2, <2>3 DEF OneClaim
  <2>4. CASE d # c
    BY <1>1, <1>8, <1>9, <2>1, <2>2, <2>4 DEF OneClaim
  <2> QED
    BY <2>3, <2>4
<1>11. ClaimsWait'
  <2>1. \A d \in Clients : Claimed(d)' => Claimed(d)
    BY <1>1, <1>8 DEF Claimed, NobodyIsCalled, p
  <2> QED
    BY <1>1, <2>1 DEF PairInvariant, ClaimsWait, hub
<1>12. HubFits' /\ LocalFits' /\ QueueFits' /\ ChannelFits'
  BY <1>1 DEF PairInvariant, Typed, HubFits, LocalFits, QueueFits, hub, NobodyIsCalled
<1> QED
  BY <1>4, <1>5, <1>6, <1>10, <1>11, <1>12 DEF PairInvariant, Typed

-----------------------------------------------------------------------------
(* Matching without faults. *)

\* What the invariant speaks of does not change.
LEMMA PairsUnchanged ==
    ASSUME PairInvariant, UNCHANGED <<channel, hub, op, queue, proc, waiting>>
    PROVE  PairInvariant'
<1>1. NobodyIsCalled
  BY NothingPublished
<1>2. Typed' /\ ReadLoopsFit' /\ LocalFits'
  BY <1>1 DEF PairInvariant, Typed, HubFits, OpFits, ProcFits, QueueFits, ReadLoopsFit,
              LocalFits, hub, NobodyIsCalled
<1>3. \A c \in Clients, p \in Procs : Moves(p, c)' <=> Moves(p, c)
  BY DEF Moves
<1>4. \A c \in Clients : /\ InRoom(c)' <=> InRoom(c)
                         /\ Enters(c)' <=> Enters(c)
                         /\ Placed(c)' <=> Placed(c)
  BY DEF InRoom, Enters, Placed, hub
<1>5. \A c \in Clients : OneClaim(c)'
  BY <1>1, <1>3, <1>4 DEF PairInvariant, OneClaim, NobodyIsCalled
<1>6. ClaimsWait'
  BY <1>1, <1>3 DEF PairInvariant, ClaimsWait, Claimed, NobodyIsCalled, hub
<1> QED
  BY <1>2, <1>5, <1>6 DEF PairInvariant

\* All steps of the processes.
LEMMA PairingKeepsPairs ==
    ASSUME PairInvariant, NEW p \in Procs, Pairing(p)
    PROVE  PairInvariant'
BY SearchKeepsPairs, TakeCandidateKeepsPairs, CreateMatchKeepsPairs, BindPairKeepsPairs,
   MovingOnKeepsPairs, RequeueKeepsPairs, RemoveOwnKeepsPairs, EnqueueKeepsPairs
   DEF Pairing

\* Nobody has a claim at first.
LEMMA PairInit == MatchInit => PairInvariant
<1> SUFFICES ASSUME MatchInit PROVE PairInvariant
  OBVIOUS
<1>1. /\ channel = [i \in Instances |-> <<>>] /\ localRooms = [i \in Instances |-> {}]
      /\ member = [c \in Clients |-> NoMember] /\ alive = [c \in Clients |-> "up"]
      /\ op = [c \in Clients |-> Idle] /\ queue = {}
      /\ proc = [p \in Procs |-> Resting] /\ waiting = [c \in Clients |-> FALSE]
  BY DEF MatchInit, Init
<1>2. \A i \in Instances : channel[i] = <<>> /\ Queued(i) = {}
  BY <1>1 DEF Queued
<1>3. IsQueue(<<>>)
  BY DEF IsQueue
<1>4. ChannelFits
  BY <1>1, <1>2, <1>3 DEF ChannelFits
<1>5. HubFits /\ OpFits /\ QueueFits
  BY <1>1 DEF HubFits, OpFits, QueueFits, Ops
<1>6. ProcFits /\ \A p \in Procs, c \in Clients : ~Moves(p, c)
  BY <1>1 DEF ProcFits, StateFits, Moves, Resting, Looking, HasPartner
<1>7. ReadLoopsFit
  BY <1>1, ProcShape DEF ReadLoopsFit, Idle
<1>8. LocalFits
  BY <1>1 DEF LocalFits
<1>9. \A c \in Clients : ~HasMail(c) /\ SingleMail(c) /\ ~Enters(c)
  BY <1>1, <1>2, HostShape DEF HasMail, SingleMail, Enters, Idle
<1>10. (\A c \in Clients : OneClaim(c)) /\ ClaimsWait
  BY <1>1, <1>6, <1>9 DEF OneClaim, ClaimsWait, Claimed
<1> QED
  BY <1>4, <1>5, <1>6, <1>7, <1>8, <1>10 DEF PairInvariant, Typed

\* Every step keeps the invariant.
LEMMA PairStep == PairInvariant /\ [MatchNext]_allVars => PairInvariant'
<1> SUFFICES ASSUME PairInvariant, [MatchNext]_allVars PROVE PairInvariant'
  OBVIOUS
<1>1. ASSUME NEW p \in Procs, Pairing(p) PROVE PairInvariant'
  BY <1>1, PairingKeepsPairs
<1>2. CASE ExpireMatchLock
  BY <1>2, PairsUnchanged DEF ExpireMatchLock, vars, redis
<1>3. ASSUME NEW c \in Clients, QuickMatch(c) \/ LeaveQueue(c) PROVE PairInvariant'
  BY <1>3, QuickMatchKeepsPairs, LeaveQueueKeepsPairs
<1>4. ASSUME NEW c \in Clients, ~waiting[c], NEW x \in Codes,
             \/ \E mode \in Modes : RoomStep(CreateRoom(c, mode, x))
             \/ RoomStep(JoinSeat1(c, x))
      PROVE  PairInvariant'
  BY <1>4, EntrancesKeepPairs DEF RoomStep, RoomGoesOn
<1>5. ASSUME NEW c \in Clients,
             \/ \E kind \in Commands : RoomStep(Begin(c, kind))
             \/ RoomStep(BeginLeave(c)) \/ RoomStep(Handler(c)) \/ RoomStep(Cancel(c))
      PROVE  PairInvariant'
  BY <1>5, ReadersKeepPairs, HandlersKeepPairs, CancelKeepsPairs DEF RoomStep, RoomGoesOn
<1>6. ASSUME NEW i \in Instances, RoomStep(Dispatch(i)) PROVE PairInvariant'
  BY <1>6, DispatchKeepsPairs DEF RoomStep, RoomGoesOn
<1>7. CASE UNCHANGED allVars
  BY <1>7, PairsUnchanged DEF allVars, vars, matchVars, redis
<1> QED
  BY <1>1, <1>2, <1>3, <1>4, <1>5, <1>6, <1>7 DEF MatchNext

\* The claims of a client are one at most.
LEMMA OneClaimAtMost == PairInvariant => NobodyIsPairedTwice
<1> SUFFICES ASSUME PairInvariant, NEW c \in Clients
             PROVE  Cardinality(Claims(c)) <= 1
  BY DEF NobodyIsPairedTwice
<1>1. OneClaim(c) /\ \A p \in Procs : StateFits(p, proc[p])
  BY DEF PairInvariant, Typed, ProcFits
<1> DEFINE waits(a) == a = <<"waits", c>> /\ c \in queue
           partner(a, p) ==
             a = <<"partner", p>> /\ proc[p].at \in HasPartner /\ proc[p].partner = c
           pairs(a, p) == a = <<"pairs", p>> /\ proc[p].at \in HasPartner /\ p[1] = c
           calls(a, k) == a = <<"message", k>> /\ Mail(k, c)
           sits(a) == a = <<"member", member[c].room>> /\ InRoom(c)
<1>2. \A a \in Claims(c) :
         \/ waits(a) \/ sits(a)
         \/ \E p \in Procs : partner(a, p) \/ pairs(a, p)
         \/ \E k \in Queued(Host[c]) : calls(a, k)
  BY DEF Claims, HasPartner, Mail, Queued
<1>3. \A a, p : p \in Procs /\ (partner(a, p) \/ pairs(a, p)) => Moves(p, c)
  BY DEF Moves, HasPartner, Looking
<1>4. \A a, b, p : p \in Procs => ~(partner(a, p) /\ pairs(b, p))
  BY <1>1 DEF StateFits
<1>5. \A a, k : k \in Queued(Host[c]) /\ calls(a, k) => HasMail(c)
  BY DEF HasMail
<1>6. \A a, b \in Claims(c) : a = b
  <2> SUFFICES ASSUME NEW a \in Claims(c), NEW b \in Claims(c) PROVE a = b
    OBVIOUS
  <2>1. CASE waits(a) \/ waits(b)
    BY <1>1, <1>2, <1>3, <1>5, <2>1 DEF OneClaim, Placed
  <2>2. CASE sits(a) \/ sits(b)
    BY <1>1, <1>2, <1>3, <1>5, <2>2 DEF OneClaim, Placed
  <2>3. ASSUME NEW p \in Procs, NEW q \in Procs,
               partner(a, p) \/ pairs(a, p), partner(b, q) \/ pairs(b, q)
        PROVE  a = b
    <3>1. p = q
      BY <1>1, <1>3, <2>3 DEF OneClaim
    <3> QED
      BY <1>4, <2>3, <3>1
  <2>4. ASSUME NEW j \in Queued(Host[c]), NEW k \in Queued(Host[c]), calls(a, j), calls(b, k)
        PROVE  a = b
    BY <1>1, <2>4 DEF OneClaim, SingleMail
  <2>5. ASSUME NEW p \in Procs, Moves(p, c), HasMail(c) PROVE FALSE
    BY <1>1, <2>5 DEF OneClaim
  <2> QED
    BY <1>2, <1>3, <1>5, <2>1, <2>2, <2>3, <2>4, <2>5
<1>7. CASE Claims(c) = {}
  BY <1>7, FS_EmptySet
<1>8. ASSUME NEW a \in Claims(c) PROVE Cardinality(Claims(c)) <= 1
  <2>1. Claims(c) = {a}
    BY <1>6, <1>8
  <2>2. Cardinality({a}) = 1
    BY FS_Singleton, Zenon
  <2> QED
    BY <2>1, <2>2
<1> QED
  BY <1>7, <1>8

\* Nobody is paired twice, whatever the read loops, the rechecks and the searches of any
\* number of users do, and although the match lock may expire under its holder.
THEOREM PairedOnce == MatchSpec => []NobodyIsPairedTwice
<1>1. MatchSpec => []PairInvariant
  BY PairInit, PairStep, PTL DEF MatchSpec
<1> QED
  BY <1>1, OneClaimAtMost, PTL
=============================================================================
