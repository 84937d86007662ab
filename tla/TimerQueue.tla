----------------------------- MODULE TimerQueue -----------------------------
(***************************************************************************)
(* The heartbeat check (net/ngx_c_socket_time.cxx, procPingTimeOutChecking *)
(* and _HandlePing in logic/ngx_c_slogic.cxx): a client is entered into a  *)
(* queue ordered by time when it is accepted; the monitor thread looks     *)
(* twice a second whether the first entry is due, puts due entries back    *)
(* for the next look, and cuts off clients that were silent for too long,  *)
(* or, with Sock_TimeOutKick = 1, every client whose time is up.           *)
(*                                                                         *)
(* The monitor reads m_cur_size_ and m_timer_value_ without the lock of    *)
(* the queue and decides by them whether to take it.                       *)
(***************************************************************************)
EXTENDS Integers, SequencesExt

CONSTANTS
  Conns,                 \* connections
  Main, Timer, Worker,   \* the epoll thread, the monitor, a pool thread
  Nobody,                \* "no thread", "no connection"
  WaitTime,              \* m_iWaitTime, Sock_MaxWaitTime of nginx.conf
  Grace,                 \* the 10 of procPingTimeOutChecking
  MaxBusy,               \* how many ticks of time() a handler may see pass
  MaxSeq,                \* bound: where the sequence numbers stop
  LastAccept,            \* bound: when the last client is accepted
  LastPing,              \* bound: when the last ping arrives
  MaxTime                \* bound: where the clock stops

Threads == {Main, Timer, Worker}

ASSUME TimesAssumption ==
  /\ WaitTime \in Nat \ {0} /\ Grace \in Nat /\ MaxBusy \in Nat
  /\ MaxSeq \in Nat /\ LastAccept \in Nat /\ LastPing \in Nat
  /\ MaxTime \in Nat
ASSUME ThreadsDiffer ==
  Main # Timer /\ Main # Worker /\ Timer # Worker /\ Nobody \notin Threads
    /\ Nobody \notin Conns

VARIABLES
  kickNow,   \* m_ifTimeOutKick = 1, read from nginx.conf at the start
  queue,     \* m_timerQueuemap as it is iterated, keys ascending
  size,      \* m_cur_size_
  value,     \* m_timer_value_
  mutex,     \* m_timequeueMutex: who holds it
  clients,   \* the connections handed to a client and not retired
  seq, ping, \* iCurrsequence and lastPingTime of each connection
  now,       \* time()
  pc, at, since,      \* of each thread: place, connection, start
  futtime,            \* Main: futtime of AddToTimerQueue
  absTime, curTime,   \* Timer: absolute_time, cur_time
  idleList,           \* Timer: m_lsIdleList
  tmpmsg,             \* Timer: the entry it checks
  woken,              \* Timer: it has woken in this second
  silent,    \* history: the clients that were silent for more than Limit
  wronged    \* history: the monitor cut off a client whose time was not up,
             \* or another one than it had checked

queueVars == <<queue, size, value, mutex>>
connVars  == <<clients, seq, ping>>
thrVars   == <<pc, at, since>>
monVars   == <<absTime, curTime, idleList, tmpmsg, woken>>
histVars  == <<silent, wronged>>
vars == <<kickNow, queueVars, connVars, now, thrVars, futtime, monVars, histVars>>

Limit == WaitTime * 3 + Grace

Working(c) == \E t \in Threads : at[t] = c
Goto(t, place) == pc' = [pc EXCEPT ![t] = place]
Begin(t, place, c) ==
  /\ Goto(t, place) /\ at' = [at EXCEPT ![t] = c] /\ since' = [since EXCEPT ![t] = now]
Leave(t) ==
  /\ at' = [at EXCEPT ![t] = Nobody] /\ since' = [since EXCEPT ![t] = 0]
  /\ Goto(t, IF t = Timer THEN "next" ELSE "idle")

SumSeq == FoldFunction(+, 0, seq)

Entry(k, c, n) == [key |-> k, conn |-> c, seq |-> n]

NoEntry == Entry(0, Nobody, 0)

(* std::multimap::insert: behind every entry with the same key.            *)
Inserted(q, e) ==
  LET before == {i \in 1..Len(q) : q[i].key <= e.key}
  IN  InsertAt(q, Cardinality(before) + 1, e)

Init ==
  /\ kickNow \in BOOLEAN
  /\ queue = <<>> /\ size = 0 /\ value = 0 /\ mutex = Nobody
  /\ clients = {} /\ seq = [c \in Conns |-> 0] /\ ping = [c \in Conns |-> 0]
  /\ now = 0
  /\ pc = [t \in Threads |-> IF t = Timer THEN "asleep" ELSE "idle"]
  /\ at = [t \in Threads |-> Nobody] /\ since = [t \in Threads |-> 0]
  /\ futtime = 0 /\ absTime = 0 /\ curTime = 0 /\ idleList = <<>> /\ woken = FALSE
  /\ tmpmsg = NoEntry
  /\ silent = {} /\ wronged = FALSE

-----------------------------------------------------------------------------
(* Main: ngx_event_accept() hands out a connection (GetOneToUse), then     *)
(* AddToTimerQueue() reads the clock, takes the lock, inserts, and stores  *)
(* the earliest key.  A retired connection is handed out when no thread is *)
(* at work on it any more: that is what ConnPool shows.                    *)

Accept(c) ==
  /\ pc[Main] = "idle" /\ c \notin clients /\ ~Working(c)
  /\ SumSeq < MaxSeq /\ now <= LastAccept
  /\ clients' = clients \cup {c} /\ seq' = [seq EXCEPT ![c] = @ + 2]
  /\ ping' = [ping EXCEPT ![c] = now]
  /\ futtime' = now + WaitTime /\ silent' = silent \ {c} /\ Begin(Main, "insert", c)
  /\ UNCHANGED <<kickNow, queueVars, now, monVars, wronged>>

Insert ==
  /\ pc[Main] = "insert" /\ mutex = Nobody
  /\ mutex' = Main /\ size' = size + 1
  /\ queue' = Inserted(queue, Entry(futtime, at[Main], seq[at[Main]]))
  /\ Goto(Main, "inserted")
  /\ UNCHANGED <<kickNow, value, connVars, now, at, since, futtime, monVars, histVars>>

(* m_timer_value_ = GetEarliestTime() if there is an entry, then unlock.   *)
Earliest(q) == IF q = <<>> THEN value ELSE q[1].key

PublishInserted ==
  /\ pc[Main] = "inserted"
  /\ value' = Earliest(queue) /\ mutex' = Nobody /\ futtime' = 0 /\ Leave(Main)
  /\ UNCHANGED <<kickNow, queue, size, connVars, now, monVars, histVars>>

-----------------------------------------------------------------------------
(* Worker: _HandlePing(), for a message found current.  Main reads nothing *)
(* from a client it is still accepting.                                    *)
Served(c) ==
  c \in clients /\ ~(at[Main] = c /\ pc[Main] \in {"insert", "inserted"})

HandlePing(c) ==
  /\ pc[Worker] = "idle" /\ Served(c) /\ now <= LastPing
  /\ ping' = [ping EXCEPT ![c] = now]
  /\ UNCHANGED <<kickNow, queueVars, clients, seq, now, thrVars, futtime, monVars,
                 histVars>>

-----------------------------------------------------------------------------
(* zdClosesocketProc(): a client has gone (Main) or does not read what it  *)
(* is sent (Worker, in the middle of a handler); the monitor calls it too. *)

ClientGone(c) ==
  /\ pc[Main] = "idle" /\ c \in clients /\ Begin(Main, "delete", c)
  /\ UNCHANGED <<kickNow, queueVars, connVars, now, futtime, monVars, histVars>>

CutOff(c) ==
  /\ pc[Worker] = "idle" /\ Served(c) /\ Begin(Worker, "delete", c)
  /\ UNCHANGED <<kickNow, queueVars, connVars, now, futtime, monVars, histVars>>

(* DeleteFromTimerQueue(): from the lock to the unlock; every entry of the *)
(* connection, each found by a search from the beginning.                  *)
Delete(t) ==
  /\ pc[t] = "delete" /\ mutex = Nobody /\ mutex' = t /\ Goto(t, "erase")
  /\ UNCHANGED <<kickNow, queue, size, value, connVars, now, at, since, futtime,
                 monVars, histVars>>

InQueue(c) == {i \in 1..Len(queue) : queue[i].conn = c}

Erase(t) ==
  /\ pc[t] = "erase"
  /\ \E i \in InQueue(at[t]) : /\ \A j \in InQueue(at[t]) : i <= j
                             /\ queue' = RemoveAt(queue, i)
  /\ size' = size - 1
  /\ UNCHANGED <<kickNow, value, mutex, connVars, now, thrVars, futtime, monVars,
                 histVars>>

PublishDeletedNot(t) ==
  /\ pc[t] = "erase" /\ InQueue(at[t]) = {}
  /\ mutex' = Nobody /\ Goto(t, "retire")
  /\ UNCHANGED <<kickNow, queue, size, value, connVars, now, at, since, futtime,
                 monVars, histVars>>
PublishDeleted(t) ==
  /\ pc[t] = "erase" /\ InQueue(at[t]) = {}
  /\ value' = Earliest(queue) /\ mutex' = Nobody /\ Goto(t, "retire")
  /\ UNCHANGED <<kickNow, queue, size, connVars, now, at, since, futtime, monVars,
                 histVars>>

(* The rest of zdClosesocketProc(), inRecyConnectQueue() with it.          *)
Retire(t) ==
  LET c == at[t] IN
  /\ pc[t] = "retire"
  /\ clients' = clients \ {c}
  /\ seq' = [seq EXCEPT ![c] = IF c \in clients THEN @ + 1 ELSE @]
  /\ wronged' = (wronged \/ (t = Timer /\ c \in clients
                             /\ (tmpmsg.seq # seq[c] \/ (~kickNow /\ c \notin silent))))
  /\ tmpmsg' = (IF t = Timer THEN NoEntry ELSE tmpmsg) /\ Leave(t)
  /\ UNCHANGED <<kickNow, queueVars, ping, now, futtime, absTime, curTime, idleList,
                 woken, silent>>

-----------------------------------------------------------------------------
(* Timer: ServerTimerQueueMonitorThread().                                 *)

TimerAt(place) == pc[Timer] = place

(* Both unlocked, and at any moment between Insert and PublishInserted or  *)
(* between Erase and PublishDeleted.                                       *)
Poll ==
  /\ TimerAt("asleep") /\ ~woken /\ woken' = TRUE
  /\ IF size > 0 THEN absTime' = value /\ Goto(Timer, "clock")
                 ELSE UNCHANGED <<absTime, pc>>
  /\ UNCHANGED <<kickNow, queueVars, connVars, now, at, since, futtime, curTime,
                 idleList, tmpmsg, histVars>>

ReadClock ==
  /\ TimerAt("clock") /\ absTime' = 0
  /\ IF absTime < now THEN curTime' = now /\ Goto(Timer, "scan")
                      ELSE curTime' = 0 /\ Goto(Timer, "asleep")
  /\ UNCHANGED <<kickNow, queueVars, connVars, now, at, since, futtime, idleList,
                 tmpmsg, woken, histVars>>

(* The loop over GetOverTimeTimer(), under the lock: entries that are due  *)
(* move to m_lsIdleList one by one and, unless the time is up for good,    *)
(* are put back for curTime + WaitTime, behind those already there.        *)
LockQueue ==
  /\ TimerAt("scan") /\ mutex = Nobody /\ mutex' = Timer /\ Goto(Timer, "over")
  /\ UNCHANGED <<kickNow, queue, size, value, connVars, now, at, since, futtime,
                 monVars, histVars>>

RequeuedForLimit(e) == Entry(curTime + Limit, e.conn, e.seq)
Requeued(e) == Entry(curTime + WaitTime, e.conn, e.seq)

FirstIsDue == queue # <<>> /\ Head(queue).key <= curTime

OverTimeDropping ==
  /\ TimerAt("over") /\ FirstIsDue
  /\ idleList' = Append(idleList, Head(queue))
  /\ queue' = Tail(queue) /\ size' = size - 1 /\ value' = Earliest(queue')
  /\ UNCHANGED <<kickNow, mutex, connVars, now, thrVars, futtime, absTime, curTime,
                 tmpmsg, woken, histVars>>
OverTime ==
  /\ TimerAt("over") /\ FirstIsDue
  /\ idleList' = Append(idleList, Head(queue))
  /\ \/ kickNow /\ queue' = Tail(queue) /\ size' = size - 1
     \/ /\ ~kickNow /\ queue' = Inserted(Tail(queue), Requeued(Head(queue)))
        /\ UNCHANGED size
  /\ value' = Earliest(queue')
  /\ UNCHANGED <<kickNow, mutex, connVars, now, thrVars, futtime, absTime, curTime,
                 tmpmsg, woken, histVars>>

UnlockQueue ==
  /\ TimerAt("over") /\ ~FirstIsDue /\ mutex' = Nobody /\ Goto(Timer, "next")
  /\ UNCHANGED <<kickNow, queue, size, value, connVars, now, at, since, futtime,
                 monVars, histVars>>

EndPass ==
  /\ TimerAt("next") /\ idleList = <<>> /\ curTime' = 0 /\ Goto(Timer, "asleep")
  /\ UNCHANGED <<kickNow, queueVars, connVars, now, at, since, futtime, absTime,
                 idleList, tmpmsg, woken, histVars>>

(* procPingTimeOutChecking(): first the sequence number, then the silence. *)
CurrentAlways(e) == TRUE
Current(e) == e.seq = seq[e.conn]

Compare ==
  LET e == Head(idleList) IN
  /\ TimerAt("next") /\ idleList # <<>> /\ idleList' = Tail(idleList)
  /\ IF Current(e) THEN Begin(Timer, "check", e.conn) /\ tmpmsg' = e
                   ELSE UNCHANGED <<thrVars, tmpmsg>>
  /\ UNCHANGED <<kickNow, queueVars, connVars, now, futtime, absTime, curTime,
                 woken, histVars>>

CheckPingKeeps ==
  /\ TimerAt("check")
  /\ IF kickNow \/ curTime - ping[at[Timer]] > Limit
     THEN Goto(Timer, "delete") /\ UNCHANGED <<at, since, tmpmsg>>
     ELSE Leave(Timer) /\ UNCHANGED tmpmsg
  /\ UNCHANGED <<kickNow, queueVars, connVars, now, futtime, absTime, curTime,
                 idleList, woken, histVars>>
CheckPing ==
  /\ TimerAt("check")
  /\ IF kickNow \/ curTime - ping[at[Timer]] > Limit
     THEN Goto(Timer, "delete") /\ UNCHANGED <<at, since, tmpmsg>>
     ELSE Leave(Timer) /\ tmpmsg' = NoEntry
  /\ UNCHANGED <<kickNow, queueVars, connVars, now, futtime, absTime, curTime,
                 idleList, woken, histVars>>

-----------------------------------------------------------------------------
(* A second passes.  The monitor sleeps half a second between two passes,  *)
(* so it wakes in every second; a handler is not held up for long.         *)
Prompt == woken /\ \A t \in Threads : at[t] # Nobody => now - since[t] < MaxBusy

Tick ==
  /\ now < MaxTime /\ Prompt /\ now' = now + 1 /\ woken' = FALSE
  /\ silent' = silent \cup {c \in clients : now + 1 - ping[c] > Limit}
  /\ UNCHANGED <<kickNow, queueVars, connVars, thrVars, futtime, absTime, curTime,
                 idleList, tmpmsg, wronged>>

Next ==
  \/ Insert \/ PublishInserted
  \/ \E c \in Conns : Accept(c) \/ ClientGone(c) \/ CutOff(c) \/ HandlePing(c)
  \/ \E t \in Threads : Delete(t) \/ Erase(t) \/ PublishDeleted(t) \/ Retire(t)
  \/ Poll \/ ReadClock \/ LockQueue \/ OverTime \/ UnlockQueue
  \/ EndPass \/ Compare \/ CheckPing
  \/ Tick

Spec == Init /\ [][Next]_vars

-----------------------------------------------------------------------------
Places == {"idle", "insert", "inserted", "delete", "erase", "retire",
           "asleep", "clock", "scan", "over", "next", "check"}
Entries == [key : Nat, conn : Conns, seq : Nat]

(* The types; and the monitor keeps an entry exactly while it works on the *)
(* connection of that entry.                                               *)
TypeOK ==
  /\ kickNow \in BOOLEAN /\ wronged \in BOOLEAN
  /\ queue \in Seq(Entries) /\ idleList \in Seq(Entries)
  /\ size \in Int /\ value \in Nat /\ mutex \in Threads \cup {Nobody}
  /\ clients \subseteq Conns /\ silent \subseteq Conns
  /\ seq \in [Conns -> Nat] /\ ping \in [Conns -> Nat] /\ now \in Nat
  /\ pc \in [Threads -> Places] /\ at \in [Threads -> Conns \cup {Nobody}]
  /\ since \in [Threads -> Nat] /\ woken \in BOOLEAN
  /\ futtime \in Nat /\ absTime \in Nat /\ curTime \in Nat
  /\ tmpmsg \in Entries \cup {NoEntry} /\ tmpmsg.conn = at[Timer]

Closing(c) == \E t \in Threads :
  at[t] = c /\ (pc[t] = "retire" \/ (pc[t] = "erase" /\ InQueue(c) = {}))
Entering(c) == at[Main] = c /\ pc[Main] = "insert"
InHand(c) == {i \in 1..Len(idleList) : idleList[i] = Entry(idleList[i].key, c, seq[c])}
               \cup {t \in {Timer} : at[t] = c /\ pc[t] \in {"check", "delete"}}

(* Every client has exactly one entry in the queue, whichever threads add, *)
(* put back and delete entries at the same time; with Sock_TimeOutKick = 1 *)
(* its entry may be in the monitor's hands instead.  No entry outlives its *)
(* client, to be taken for that of the next client of the connection.      *)
EveryClientWatched ==
  \A c \in Conns :
    IF c \in clients /\ ~Closing(c) /\ ~Entering(c)
    THEN Cardinality(InQueue(c))
           + (IF kickNow THEN Cardinality(InHand(c)) ELSE 0) = 1
    ELSE InQueue(c) = {}

(* What the monitor reads without the lock is, whenever nobody holds it,   *)
(* the size of the queue and its earliest key: no entry waits behind a     *)
(* value that is too late.                                                 *)
GateExact ==
  /\ mutex = Nobody => size = Len(queue) /\ (queue # <<>> => value = queue[1].key)
  /\ \A i, j \in 1..Len(queue) : i < j => queue[i].key <= queue[j].key

(* A client that is silent is cut off in bounded time: at most Limit, one  *)
(* round of waiting, and what the monitor and a handler take.              *)
Slack == 2 + MaxBusy
SilentGoInTime ==
  /\ \A i \in 1..Len(queue) : now - queue[i].key <= Slack
  /\ ~kickNow => \A c \in clients : now - ping[c] <= Limit + WaitTime + Slack

(* The heartbeat check cuts off the client whose entry it took out, never  *)
(* the next client of the connection in its place; and, unless it is to    *)
(* cut off all, only a client that was silent for longer than Limit.       *)
PingersStay == ~wronged
=============================================================================
