------------------------------ MODULE ConnPool ------------------------------
(***************************************************************************)
(* The connection pool of a worker process and everything that holds a     *)
(* pointer into it: CSocekt::ngx_get_connection, ngx_free_connection,      *)
(* inRecyConnectQueue and ServerRecyConnectionThread                       *)
(* (net/ngx_c_socket_conn.cxx), the accept path that takes a connection    *)
(* out (ngx_c_socket_accept.cxx), and zdClosesocketProc                    *)
(* (ngx_c_socket.cxx), which the epoll thread, the heartbeat thread and    *)
(* the pool threads may all run, at the same time, on one connection.      *)
(*                                                                         *)
(* A connection object is never destroyed while the worker runs, it is     *)
(* reused.  Two things keep a late user of the pointer away from the next  *)
(* client: the sequence number iCurrsequence, compared before use, and the *)
(* delay (m_RecyConnectionWaitTime) between retiring a connection and      *)
(* putting it on the free list, which covers a user that has already       *)
(* compared.  The module is about that protocol; what is read, sent and    *)
(* timed is left to the other modules.                                     *)
(***************************************************************************)
EXTENDS Integers, SequencesExt

CONSTANTS
  Conns,          \* every ngx_connection_s the process may come to allocate
  InitPool,       \* those initconnection() creates: worker_connections of them
  Listeners,      \* those ngx_epoll_init() binds to the listening sockets
  Fds,            \* the descriptor numbers the kernel may give to a client
  Main, Timer,    \* the epoll thread and the heartbeat monitor thread
  Workers,        \* the threads of the thread pool
  NoConn, NoRef,  \* "no connection", "no reference"
  PoolFactor,     \* the 5 of the flood test in ngx_event_accept
  RecyWait,       \* m_RecyConnectionWaitTime, in ticks of time()
  KickNow,        \* m_ifTimeOutKick = 1
  MaxBusy,        \* how many ticks of time() a handler may see pass
  MaxEvents,      \* NGX_MAX_EVENTS, the size of one epoll_wait() batch
  MaxClients,     \* bound: how many clients connect
  MaxTime         \* bound: where the clock stops

Threads == {Main, Timer} \cup Workers
NoFd == -1
Refs == [conn : Conns, seq : Nat]
WorkerConnections == Cardinality(InitPool)

ASSUME PoolAssumption ==
  /\ IsFiniteSet(Conns) /\ InitPool \subseteq Conns /\ Listeners \subseteq Conns
  /\ InitPool # {} /\ NoConn \notin Conns /\ NoRef \notin Refs
  /\ Fds \subseteq Nat

ASSUME ThreadAssumption ==
  Main # Timer /\ Main \notin Workers /\ Timer \notin Workers

ASSUME NumberAssumption ==
  /\ PoolFactor \in Nat \ {0} /\ RecyWait \in Nat /\ MaxBusy \in Nat
  /\ MaxEvents \in Nat /\ MaxClients \in Nat /\ MaxTime \in Nat
  /\ KickNow \in BOOLEAN

(* The delay covers a handler: what the course calls choosing a wait time  *)
(* longer than any business logic.  time() counts seconds, so a handler    *)
(* that runs for d seconds may see one tick more than d pass.              *)
ASSUME DelayAssumption == MaxBusy < RecyWait

VARIABLES
  pool,        \* m_connectionList
  freeList,    \* m_freeconnectionList, taken at the front, returned at the back
  recyList,    \* m_recyconnectionList; a set, for nothing enters it twice
  online,      \* m_onlineUserCount
  seq,         \* iCurrsequence of each connection
  fd,          \* fd of each connection
  inRecyTime,  \* inRecyTime of each connection
  sock,        \* kernel: the connection a descriptor is open for, or NoConn
  armed,       \* kernel: the descriptors epoll watches
  clients,     \* how many clients have connected so far
  msgs,        \* received messages waiting for, or held by, a pool thread
  timerQ,      \* m_timerQueuemap, its keys left out
  misread,     \* history: the messages whose header was completed after their
               \* client's connection was retired
  misled,      \* history: a handler of one of them has begun to close
  idleList,    \* m_lsIdleList of the heartbeat thread
  events,      \* the rest of the epoll batch Main works on
  now,         \* time()
  pc, ref, tested, since,  \* of each thread: place, connection, fd, start
  rpc, currtime            \* ServerRecyConnectionThread: place, its clock

poolVars == <<pool, freeList>>
connVars == <<seq, fd, inRecyTime>>
kernVars == <<sock, armed, clients>>
msgVars  == <<msgs, misread, misled>>
refVars  == <<msgVars, timerQ, idleList>>
thrVars  == <<pc, ref, tested, since>>
recyVars == <<rpc, currtime>>
vars == <<poolVars, recyList, online, connVars, kernVars, refVars, events, now,
          thrVars, recyVars>>

-----------------------------------------------------------------------------
(* What the state says.                                                    *)

Free == ToSet(freeList)

(* Handed to a client and not yet retired.                                 *)
InUse == pool \ (Free \cup recyList \cup Listeners)

ClosePCs == {"test", "close", "clear", "retire"}

(* A thread in the middle of a handler: it follows a pointer it will not   *)
(* check again.                                                            *)
Busy(t) == pc[t] # "idle" \/ (t = Main /\ events # {})

(* The references a thread uses without checking them again.               *)
Held(t) == (IF pc[t] = "idle" THEN {} ELSE {ref[t]})
             \cup (IF t = Main THEN events ELSE {})

RefTo(c) == [conn |-> c, seq |-> seq[c]]

(* iCurrsequence is still the one the reference was made with.             *)
CurrentAlways(r) == TRUE
Current(r) == seq[r.conn] = r.seq

AtCapacityLate == online > WorkerConnections
AtCapacity == online >= WorkerConnections

PoolTooLargeLate == Cardinality(pool) > PoolFactor * WorkerConnections + 1
                      /\ Len(freeList) < WorkerConnections
PoolTooLarge == Cardinality(pool) > PoolFactor * WorkerConnections
                  /\ Len(freeList) < WorkerConnections

ExpiredEarly(c) == inRecyTime[c] + RecyWait - 1 <= currtime
Expired(c) == inRecyTime[c] + RecyWait <= currtime

QueuedNever(c) == FALSE
Queued(c) == c \in recyList

-----------------------------------------------------------------------------
(* After ngx_epoll_init(): the pool is built, the listening sockets have   *)
(* their connections, every other one is free.                             *)

Init ==
  /\ pool = InitPool \cup Listeners
  /\ freeList \in SetToSeqs(InitPool \ Listeners)
  /\ recyList = {} /\ online = 0
  /\ seq = [c \in Conns |-> IF c \in InitPool \cap Listeners THEN 2
                            ELSE IF c \in InitPool \cup Listeners THEN 1 ELSE 0]
  /\ fd = [c \in Conns |-> NoFd]
  /\ inRecyTime = [c \in Conns |-> 0]
  /\ sock = [f \in Fds |-> NoConn] /\ armed = {} /\ clients = 0
  /\ msgs = {} /\ timerQ = {} /\ idleList = {} /\ events = {}
  /\ misread = {} /\ misled = FALSE
  /\ now = 0
  /\ pc = [t \in Threads |-> "idle"] /\ ref = [t \in Threads |-> NoRef]
  /\ tested = [t \in Threads |-> NoFd] /\ since = [t \in Threads |-> 0]
  /\ rpc = "sleep" /\ currtime = 0

-----------------------------------------------------------------------------
(* Thread bookkeeping.  since is history, kept while a handler runs; what  *)
(* is never read again before it is written is reset, here and below.      *)

Goto(t, place) == pc' = [pc EXCEPT ![t] = place]

Return(t) ==
  /\ Goto(t, "idle")
  /\ ref' = [ref EXCEPT ![t] = NoRef] /\ tested' = [tested EXCEPT ![t] = NoFd]
  /\ since' = [since EXCEPT ![t] = IF t = Main /\ events # {} THEN @ ELSE 0]

(* t turns to r, having just found it valid.                               *)
Begin(t, r, place) ==
  /\ Goto(t, place) /\ ref' = [ref EXCEPT ![t] = r]
  /\ since' = [since EXCEPT ![t] = now] /\ UNCHANGED tested

(* Main turns to an event of the batch it already holds.                   *)
Turn(r, place) ==
  /\ Goto(Main, place) /\ ref' = [ref EXCEPT ![Main] = r]
  /\ events' = events \ {r} /\ UNCHANGED <<tested, since>>

(* Main is done with an event without having turned to a connection.       *)
Skip(r) ==
  /\ events' = events \ {r}
  /\ since' = [since EXCEPT ![Main] = IF events \ {r} # {} THEN @ ELSE 0]
  /\ UNCHANGED <<pc, ref, tested>>

-----------------------------------------------------------------------------
(* The lists.                                                              *)

(* GetOneToUse() and the caller's fd = isock.                              *)
Hand(c, f) ==
  /\ seq' = [seq EXCEPT ![c] = @ + 1]
  /\ fd' = [fd EXCEPT ![c] = f]

(* ngx_get_connection(): the front of the free list, or a new object.      *)
GetConnection(c, f) ==
  /\ \/ /\ freeList # <<>> /\ c = Head(freeList)
        /\ freeList' = Tail(freeList) /\ UNCHANGED pool
     \/ /\ freeList = <<>> /\ c \in Conns \ pool
        /\ pool' = pool \cup {c} /\ UNCHANGED freeList
  /\ Hand(c, f)

(* ngx_free_connection(), with PutOneToFree().                             *)
FreeConnection(c) ==
  /\ freeList' = Append(freeList, c)
  /\ seq' = [seq EXCEPT ![c] = @ + 1]

RetireNoBump(c) == UNCHANGED seq
RetireBump(c) == seq' = [seq EXCEPT ![c] = @ + 1]

(* inRecyConnectQueue(), under m_recyconnqueueMutex.                       *)
InRecyBackdated(c) ==
  \/ Queued(c) /\ UNCHANGED <<recyList, online, seq, inRecyTime>>
  \/ /\ ~Queued(c)
     /\ inRecyTime' = [inRecyTime EXCEPT ![c] = now - RecyWait]
     /\ RetireBump(c)
     /\ recyList' = recyList \cup {c}
     /\ online' = online - 1
InRecyConnectQueue(c) ==
  \/ Queued(c) /\ UNCHANGED <<recyList, online, seq, inRecyTime>>
  \/ /\ ~Queued(c)
     /\ inRecyTime' = [inRecyTime EXCEPT ![c] = now]
     /\ RetireBump(c)
     /\ recyList' = recyList \cup {c}
     /\ online' = online - 1

(* close(2): of -1 or of a descriptor that is not open it does nothing.    *)
CloseFd(f) ==
  IF f \in Fds THEN sock' = [sock EXCEPT ![f] = NoConn] /\ armed' = armed \ {f}
               ELSE UNCHANGED <<sock, armed>>

(* The kernel gives the lowest number that is free.                        *)
LowestFd(f) == sock[f] = NoConn /\ \A g \in Fds : g < f => sock[g] # NoConn

-----------------------------------------------------------------------------
(* Main: ngx_epoll_process_events, ngx_event_accept and the outcomes of    *)
(* ngx_read_request_handler.                                               *)

Readable == {RefTo(sock[f]) : f \in armed}
Pending == IF clients < MaxClients THEN {RefTo(l) : l \in Listeners} ELSE {}

EpollWait ==
  /\ pc[Main] = "idle" /\ events = {}
  /\ events' \in (SUBSET (Readable \cup Pending)) \ {{}}
  /\ Cardinality(events') <= MaxEvents
  /\ since' = [since EXCEPT ![Main] = now]
  /\ UNCHANGED <<poolVars, recyList, online, connVars, kernVars, refVars, now,
                 pc, ref, tested, recyVars>>

(* accept4() and the two refusals of a client.  Both tests and the call of *)
(* ngx_get_connection are one step: what other threads do meanwhile can    *)
(* only lower online and lengthen the free list.                           *)
Refuse(r) ==
  /\ pc[Main] = "idle" /\ r \in events /\ r.conn \in Listeners
  /\ clients < MaxClients /\ (AtCapacity \/ PoolTooLarge)
  /\ clients' = clients + 1 /\ Skip(r)
  /\ UNCHANGED <<poolVars, recyList, online, connVars, sock, armed, refVars,
                 now, recyVars>>

(* accept4() fails: the client has gone, or no descriptor is left.         *)
AcceptNothing(r) ==
  /\ pc[Main] = "idle" /\ r \in events /\ r.conn \in Listeners
  /\ Skip(r)
  /\ UNCHANGED <<poolVars, recyList, online, connVars, kernVars, refVars, now,
                 recyVars>>

Admit(r) ==
  /\ pc[Main] = "idle" /\ r \in events /\ r.conn \in Listeners
  /\ clients < MaxClients /\ ~AtCapacity /\ ~PoolTooLarge
  /\ \E f \in Fds, c \in Conns :
       /\ LowestFd(f) /\ GetConnection(c, f)
       /\ sock' = [sock EXCEPT ![f] = c]
       /\ Turn([conn |-> c, seq |-> seq[c] + 1], "arm")
  /\ clients' = clients + 1
  /\ UNCHANGED <<recyList, online, inRecyTime, armed, refVars, now, recyVars>>

(* epoll_ctl(EPOLL_CTL_ADD), then AddToTimerQueue().                       *)
Arm ==
  LET c == ref[Main].conn IN
  /\ pc[Main] = "arm" /\ fd[c] \in Fds /\ sock[fd[c]] = c
  /\ armed' = armed \cup {fd[c]} /\ timerQ' = timerQ \cup {RefTo(c)}
  /\ Goto(Main, "count")
  /\ UNCHANGED <<poolVars, recyList, online, connVars, sock, clients, msgVars,
                 idleList, events, now, ref, tested, since, recyVars>>

(* setnonblocking() or epoll_ctl() fails: ngx_close_connection() frees the *)
(* connection at once, then closes its socket; only Main could take the    *)
(* connection in between, so the two are one step.                         *)
ArmFails ==
  LET c == ref[Main].conn IN
  /\ pc[Main] = "arm"
  /\ FreeConnection(c) /\ CloseFd(fd[c]) /\ fd' = [fd EXCEPT ![c] = NoFd]
  /\ Return(Main)
  /\ UNCHANGED <<pool, recyList, online, inRecyTime, clients, refVars, events,
                 now, recyVars>>

Count ==
  /\ pc[Main] = "count" /\ online' = online + 1 /\ Return(Main)
  /\ UNCHANGED <<poolVars, recyList, connVars, kernVars, refVars, events, now,
                 recyVars>>

(* recv() delivers bytes: whatever socket the number now stands for.       *)
Recv(r) ==
  /\ pc[Main] = "idle" /\ r \in events /\ r.conn \notin Listeners
  /\ fd[r.conn] \in Fds /\ sock[fd[r.conn]] # NoConn
  /\ Turn(r, "record")
  /\ UNCHANGED <<poolVars, recyList, online, connVars, kernVars, refVars, now,
                 recyVars>>

(* The header is complete: proc_p1 copies iCurrsequence into the message   *)
(* header, proc_plast queues the message.  A connection retired since the  *)
(* recv() gives it the number that it has after its client.                *)
Record ==
  LET m == RefTo(ref[Main].conn) IN
  /\ pc[Main] = "record" /\ msgs' = msgs \cup {m} /\ Return(Main)
  /\ misread' = IF m.conn \in recyList THEN misread \cup {m} ELSE misread
  /\ UNCHANGED <<poolVars, recyList, online, connVars, kernVars, misled, timerQ,
                 idleList, events, now, recyVars>>

(* Nothing to read after all, or a packet not complete yet, or refused.    *)
RecordNothing ==
  /\ pc[Main] = "record" /\ Return(Main)
  /\ UNCHANGED <<poolVars, recyList, online, connVars, kernVars, refVars,
                 events, now, recyVars>>

(* TestFlood() says the client floods.                                     *)
RecordFlood ==
  /\ pc[Main] = "record" /\ Goto(Main, "test")
  /\ UNCHANGED <<poolVars, recyList, online, connVars, kernVars, refVars,
                 events, now, ref, tested, since, recyVars>>

(* recv() returns 0 or an error, EBADF for a closed descriptor included.   *)
RecvClosed(r) ==
  /\ pc[Main] = "idle" /\ r \in events /\ r.conn \notin Listeners
  /\ Turn(r, "test")
  /\ UNCHANGED <<poolVars, recyList, online, connVars, kernVars, refVars, now,
                 recyVars>>

-----------------------------------------------------------------------------
(* Timer: ServerTimerQueueMonitorThread and procPingTimeOutChecking.  When *)
(* an entry falls due is left open.                                        *)

(* The entries that are due are copied out under m_timequeueMutex; unless  *)
(* m_ifTimeOutKick is 1 they are put back with a later key.                *)
TimerScan ==
  /\ pc[Timer] = "idle" /\ idleList = {} /\ timerQ # {}
  /\ idleList' \in (SUBSET timerQ) \ {{}}
  /\ timerQ' = IF KickNow THEN timerQ \ idleList' ELSE timerQ
  /\ UNCHANGED <<poolVars, recyList, online, connVars, kernVars, msgVars, events,
                 now, thrVars, recyVars>>

TimerKick(r) ==
  /\ pc[Timer] = "idle" /\ r \in idleList /\ Current(r)
  /\ idleList' = idleList \ {r} /\ Begin(Timer, r, "test")
  /\ UNCHANGED <<poolVars, recyList, online, connVars, kernVars, msgVars, timerQ,
                 events, now, recyVars>>

(* The connection is gone, or its client has pinged in time.               *)
TimerSkip(r) ==
  /\ pc[Timer] = "idle" /\ r \in idleList /\ (Current(r) => ~KickNow)
  /\ idleList' = idleList \ {r}
  /\ UNCHANGED <<poolVars, recyList, online, connVars, kernVars, msgVars, timerQ,
                 events, now, thrVars, recyVars>>

-----------------------------------------------------------------------------
(* Workers: threadRecvProcFunc and what msgSend may do to the connection.  *)

StartMessage(t, m) ==
  /\ pc[t] = "idle" /\ m \in msgs /\ Current(m)
  /\ msgs' = msgs \ {m} /\ Begin(t, m, "handler")
  /\ UNCHANGED <<poolVars, recyList, online, connVars, kernVars, misread, misled,
                 timerQ, idleList, events, now, recyVars>>

(* The sequence number has changed, or the packet is refused.              *)
DropMessage(t, m) ==
  /\ pc[t] = "idle" /\ m \in msgs /\ msgs' = msgs \ {m}
  /\ misread' = misread \cap (msgs' \cup {ref[u] : u \in Workers})
  /\ UNCHANGED <<poolVars, recyList, online, connVars, kernVars, misled,
                 timerQ, idleList, events, now, thrVars, recyVars>>

FinishMessage(t) ==
  /\ pc[t] = "handler" /\ Return(t)
  /\ misread' = misread \cap (msgs \cup {ref[u] : u \in Workers \ {t}})
  /\ UNCHANGED <<poolVars, recyList, online, connVars, kernVars, msgs, misled,
                 timerQ, idleList, events, now, recyVars>>

(* msgSend() finds more than 400 answers waiting for this client.          *)
Overflow(t) ==
  /\ pc[t] = "handler" /\ Goto(t, "test")
  /\ misled' = (misled \/ ref[t] \in misread)
  /\ UNCHANGED <<poolVars, recyList, online, connVars, kernVars, msgs, misread,
                 timerQ, idleList, events, now, ref, tested, since, recyVars>>

-----------------------------------------------------------------------------
(* zdClosesocketProc(), in whatever thread.  It takes no lock but those of *)
(* the two queues it calls into, so its reads and writes of fd race.       *)

(* DeleteFromTimerQueue(), then if (p_Conn->fd != -1).                     *)
TestFd(t) ==
  LET c == ref[t].conn IN
  /\ pc[t] = "test"
  /\ timerQ' = {e \in timerQ : e.conn # c}
  /\ IF fd[c] = NoFd THEN Goto(t, "retire") /\ UNCHANGED tested
     ELSE Goto(t, "close") /\ tested' = [tested EXCEPT ![t] = fd[c]]
  /\ UNCHANGED <<poolVars, recyList, online, connVars, kernVars, msgVars,
                 idleList, events, now, ref, since, recyVars>>

(* close(p_Conn->fd): the build may load fd again or keep the tested one.  *)
CloseSocketCleared(t) ==
  /\ pc[t] = "close" /\ fd' = [fd EXCEPT ![ref[t].conn] = NoFd]
  /\ Goto(t, "clear")
  /\ UNCHANGED <<poolVars, recyList, online, seq, inRecyTime, kernVars, refVars,
                 events, now, ref, tested, since, recyVars>>
CloseSocket(t) ==
  /\ pc[t] = "close"
  /\ \E f \in {tested[t], fd[ref[t].conn]} : CloseFd(f)
  /\ Goto(t, "clear")
  /\ UNCHANGED <<poolVars, recyList, online, connVars, clients, refVars, events,
                 now, ref, tested, since, recyVars>>

(* p_Conn->fd = -1                                                         *)
ClearFd(t) ==
  /\ pc[t] = "clear" /\ fd' = [fd EXCEPT ![ref[t].conn] = NoFd]
  /\ Goto(t, "retire")
  /\ UNCHANGED <<poolVars, recyList, online, seq, inRecyTime, kernVars, refVars,
                 events, now, ref, tested, since, recyVars>>

(* inRecyConnectQueue() waits while the recycling thread makes its pass.   *)
Retire(t) ==
  LET c == ref[t].conn IN
  /\ pc[t] = "retire" /\ rpc # "pass"
  /\ InRecyConnectQueue(c) /\ Return(t)
  /\ UNCHANGED <<poolVars, fd, kernVars, refVars, events, now, recyVars>>

-----------------------------------------------------------------------------
(* ServerRecyConnectionThread: reads the clock, takes the mutex of the     *)
(* list, frees one by one what has expired, releases the mutex.            *)

ReadClock ==
  /\ rpc = "sleep" /\ recyList # {}
  /\ rpc' = "lock" /\ currtime' = now
  /\ UNCHANGED <<poolVars, recyList, online, connVars, kernVars, refVars,
                 events, now, thrVars>>

StartPass ==
  /\ rpc = "lock" /\ rpc' = "pass"
  /\ UNCHANGED <<poolVars, recyList, online, connVars, kernVars, refVars,
                 events, now, thrVars, currtime>>

Recycle(c) ==
  /\ rpc = "pass" /\ c \in recyList /\ Expired(c)
  /\ recyList' = recyList \ {c} /\ FreeConnection(c)
  /\ inRecyTime' = [inRecyTime EXCEPT ![c] = 0]
  /\ UNCHANGED <<pool, online, fd, kernVars, refVars, events, now,
                 thrVars, recyVars>>

EndPass ==
  /\ rpc = "pass" /\ \A c \in recyList : ~Expired(c)
  /\ rpc' = "sleep" /\ currtime' = 0
  /\ UNCHANGED <<poolVars, recyList, online, connVars, kernVars, refVars,
                 events, now, thrVars>>

-----------------------------------------------------------------------------
(* A second passes.  No handler lasts longer than MaxBusy of them.         *)
Tick ==
  /\ now < MaxTime /\ now' = now + 1
  /\ \A t \in Threads : Busy(t) => now < since[t] + MaxBusy
  /\ UNCHANGED <<poolVars, recyList, online, connVars, kernVars, refVars, events,
                 thrVars, recyVars>>

MainStep ==
  \/ EpollWait \/ Arm \/ ArmFails \/ Count
  \/ Record \/ RecordNothing \/ RecordFlood
  \/ \E r \in events :
       Refuse(r) \/ AcceptNothing(r) \/ Admit(r) \/ Recv(r) \/ RecvClosed(r)
TimerStep == TimerScan \/ \E r \in idleList : TimerKick(r) \/ TimerSkip(r)
WorkerStep(t) ==
  \/ FinishMessage(t) \/ Overflow(t)
  \/ \E m \in msgs : StartMessage(t, m) \/ DropMessage(t, m)
CloseStep(t) == TestFd(t) \/ CloseSocket(t) \/ ClearFd(t) \/ Retire(t)
RecyStep == ReadClock \/ StartPass \/ EndPass \/ \E c \in recyList : Recycle(c)

Next ==
  \/ MainStep \/ TimerStep \/ RecyStep \/ Tick
  \/ \E t \in Workers : WorkerStep(t)
  \/ \E t \in Threads : CloseStep(t)

Spec == Init /\ [][Next]_vars

-----------------------------------------------------------------------------
DataTypeOK ==
  /\ pool \in SUBSET Conns /\ freeList \in Seq(Conns) /\ recyList \in SUBSET Conns
  /\ online \in Int
  /\ seq \in [Conns -> Nat] /\ fd \in [Conns -> Fds \cup {NoFd}]
  /\ inRecyTime \in [Conns -> Nat]
  /\ sock \in [Fds -> Conns \cup {NoConn}] /\ armed \in SUBSET Fds
  /\ clients \in Nat /\ now \in Nat
  /\ currtime \in Nat /\ rpc \in {"sleep", "lock", "pass"}

RefsTypeOK ==
  /\ msgs \in SUBSET Refs /\ timerQ \in SUBSET Refs
  /\ idleList \in SUBSET Refs /\ events \in SUBSET Refs
  /\ misread \in SUBSET Refs /\ misled \in BOOLEAN

ThreadTypeOK ==
  /\ pc \in [Threads -> {"idle", "arm", "count", "record", "handler"} \cup ClosePCs]
  /\ ref \in [Threads -> Refs \cup {NoRef}]
  /\ \A t \in Threads : (pc[t] = "idle") <=> (ref[t] = NoRef)
  /\ \A t \in Threads : pc[t] \in {"arm", "count", "record"} => t = Main
  /\ \A t \in Threads : pc[t] = "handler" => t \in Workers
  /\ tested \in [Threads -> Fds \cup {NoFd}] /\ since \in [Threads -> Nat]

(* The types, and which thread can be where.                               *)
TypeOK == DataTypeOK /\ RefsTypeOK /\ ThreadTypeOK

(* A message of a client whose connection was retired between recv() and   *)
(* the copying of iCurrsequence carries a number that stays current until  *)
(* the connection is recycled.  Its handler follows a pointer the delay    *)
(* does not cover: it may still be at work when the connection is free, or *)
(* the next client's.  While all it does is look, only that goes wrong;    *)
(* when it closes the connection (misled), nothing is promised any more.   *)
Uncovered(t) == pc[t] = "handler" /\ ref[t] \in misread

(* A connection is in one place at a time: free once, or waiting to be     *)
(* recycled, or a listener's, or a client's.  A connection freed twice, or *)
(* retired while it is free, would be handed to two clients.               *)
Placed ==
  /\ IsInjective(freeList)
  /\ Free \cap recyList = {} /\ (Free \cup recyList) \cap Listeners = {}
  /\ Free \cup recyList \cup Listeners \subseteq pool
OnePlace == misled \/ Placed

(* The delayed release: while any thread still works on a connection it    *)
(* checked when it began, the connection is with the same client or waits  *)
(* to be recycled; it is neither on the free list nor with the next        *)
(* client.  The handler of a message with a wrong number is not covered.   *)
NoReuseWhileHeld ==
  misled \/ \A t \in Threads : \A r \in Held(t) :
    \/ Uncovered(t)
    \/ /\ r.conn \notin Free
       /\ seq[r.conn] = r.seq \/ (r.conn \in recyList /\ seq[r.conn] = r.seq + 1)

(* A queued message or a timer entry that still passes the comparison of   *)
(* sequence numbers names a connection a client is using, the client the   *)
(* message came from; or the message has got the number of a connection    *)
(* that was just retired, and that is not recycled yet.                    *)
OnlyLivePass ==
  misled \/ \A r \in msgs \cup timerQ \cup idleList :
    Current(r) => r.conn \in InUse \/ (r \in misread /\ r.conn \in recyList)

(* If a client goes after its packet was received and before a pool thread *)
(* turns to it, the packet is not handled.                                 *)
GoneAreDropped == \A m \in msgs : Current(m) => m.conn \in InUse

(* m_onlineUserCount is exact, whoever closed what how often, but for the  *)
(* client the epoll thread is about to count.                              *)
Uncounted == IF pc[Main] \in {"arm", "count"} THEN 1 ELSE 0
OnlineExact == misled \/ online = Cardinality(InUse) - Uncounted

(* Never more clients than worker_connections.                             *)
ClientsCapped == misled \/ Cardinality(InUse) <= WorkerConnections

(* However fast clients come and go, the pool stops growing.               *)
PoolBounded ==
  LET limit == PoolFactor * WorkerConnections + 1 IN
  misled \/ Cardinality(pool) <= limit \/ pool = InitPool \cup Listeners

(* Retiring a connection never forgets its socket: when a connection waits *)
(* to be recycled or is free, no descriptor is open for it.                *)
NoSocketLeak ==
  misled \/ \A c \in Free \cup recyList : fd[c] = NoFd /\ \A f \in Fds : sock[f] # c

(* The server cuts nobody off by mistake: while no thread is closing a     *)
(* client's connection, the client's socket is open under the number the   *)
(* connection holds.                                                       *)
InnocentStaysOpen ==
  \A c \in InUse : (\A t \in Threads : pc[t] \in ClosePCs => ref[t].conn # c)
                    => fd[c] \in Fds /\ sock[fd[c]] = c
=============================================================================
