---------------------------- MODULE WorkerLocks -----------------------------
(***************************************************************************)
(* The mutexes of a worker process, and how its threads nest them.  The    *)
(* other modules say what is done under a lock; here a thread is only at a *)
(* place, which says which lock it waits for and where it goes with it.    *)
(*                                                                         *)
(* zdClosesocketProc() is called from everywhere: by the epoll thread and  *)
(* the heartbeat thread with no lock, and by msgSend() of a pool thread,   *)
(* which holds the send queue's lock and its client's logicPorcMutex.      *)
(***************************************************************************)
EXTENDS Integers, FiniteSets

CONSTANTS
  Pool,        \* the threads of CThreadPool
  Epoll, Timer, Recycler, Sender,   \* the worker's other threads
  Conns,       \* connections
  Unowned      \* "no thread", "no connection"

Solo == {Epoll, Timer, Recycler, Sender}
Runners == Pool \cup Solo

(* m_sendMessageQueueMutex, m_timequeueMutex, m_recyconnqueueMutex,        *)
(* m_connectionMutex, m_pthreadMutex, and logicPorcMutex of a connection.  *)
Shared == {"send", "time", "recy", "conn", "pool"}
Locks == Shared \cup Conns

ASSUME ThreadsApart ==
  /\ Pool \cap Solo = {} /\ Unowned \notin Runners \cup Conns /\ Conns \cap Shared = {}
  /\ Epoll \notin {Timer, Recycler, Sender} /\ Timer \notin {Recycler, Sender}
  /\ Recycler # Sender

VARIABLES
  place,       \* where each thread is
  serves,      \* whose message each thread of the pool handles
  owner        \* who holds each lock
lockVars == <<place, serves, owner>>

(* At these places a thread waits for lock l.                              *)
WaitsFor(t, l) ==
  \/ l = "conn" /\ place[t] \in {"get", "refuse", "giveback"}
  \/ l = "time" /\ place[t] \in {"watch", "scan", "delete"}
  \/ l = "recy" /\ place[t] \in {"sweep", "retire"}
  \/ l = "pool" /\ place[t] \in {"push", "take"}
  \/ l = "send" /\ place[t] \in {"pass", "answer"}
  \/ t \in Pool /\ l = serves[t] /\ place[t] = "serve"

LocksInit ==
  /\ place = [t \in Runners |-> "idle"]
  /\ serves = [t \in Pool |-> Unowned]
  /\ owner = [l \in Locks |-> Unowned]

TakeLock(t, from, to) ==
  /\ place[t] = from /\ place' = [place EXCEPT ![t] = to]
  /\ \E l \in Locks : /\ WaitsFor(t, l) /\ owner[l] = Unowned
                     /\ owner' = [owner EXCEPT ![l] = t]
  /\ UNCHANGED serves

(* From one of some places to another, no lock changing hands.             *)
Go(t, from, to) ==
  /\ place[t] \in from /\ place' = [place EXCEPT ![t] = to]
  /\ UNCHANGED <<serves, owner>>

DropLock(t, from, l, to) ==
  /\ place[t] = from /\ place' = [place EXCEPT ![t] = to]
  /\ owner' = [owner EXCEPT ![l] = Unowned]
  /\ UNCHANGED serves

(* A call of zdClosesocketProc() by a thread that is at one of some places *)
(* and goes on where GoesOnAt says; without Sock_WaitTimeEnable it deletes *)
(* no timer.                                                               *)
CloseCall(t, from) == Go(t, from, "delete") \/ Go(t, from, "retire")
GoesOnAt(t) == IF t \in Pool THEN "sent" ELSE IF t = Timer THEN "kicks" ELSE "idle"

ClosingSteps(t) ==
  \/ TakeLock(t, "delete", "deleted") \/ TakeLock(t, "retire", "retired")
  \/ DropLock(t, "deleted", "time", "retire")
  \/ DropLock(t, "retired", "recy", GoesOnAt(t))

(* The epoll thread: ngx_event_accept(), with ngx_close_connection() when  *)
(* epoll refuses the socket; ngx_read_request_handler().                   *)
EpollStep ==
  \/ \E begin \in {"get", "push"} : Go(Epoll, {"idle"}, begin)
  \/ TakeLock(Epoll, "get", "got") \/ TakeLock(Epoll, "refuse", "refused")
  \/ TakeLock(Epoll, "watch", "watched") \/ TakeLock(Epoll, "push", "pushed")
  \/ \E next \in {"refuse", "watch", "idle"} : DropLock(Epoll, "got", "conn", next)
  \/ DropLock(Epoll, "refused", "conn", "idle")
  \/ DropLock(Epoll, "watched", "time", "idle")
  \/ DropLock(Epoll, "pushed", "pool", "idle")
  \/ CloseCall(Epoll, {"idle"})

(* ServerTimerQueueMonitorThread(): GetOverTimeTimer() under the lock,     *)
(* procPingTimeOutChecking() of what it got after the unlock.              *)
TimerStepLocked ==
  \/ Go(Timer, {"idle"}, "scan") \/ TakeLock(Timer, "scan", "scanned")
  \/ Go(Timer, {"scanned"}, "kicks")
  \/ CloseCall(Timer, {"kicks"})
  \/ DropLock(Timer, "kicks", "time", "idle")
TimerStep ==
  \/ Go(Timer, {"idle"}, "scan") \/ TakeLock(Timer, "scan", "scanned")
  \/ DropLock(Timer, "scanned", "time", "kicks")
  \/ CloseCall(Timer, {"kicks"})
  \/ Go(Timer, {"kicks"}, "idle")

(* ServerRecyConnectionThread(): ngx_free_connection() inside its list.    *)
RecyclerStep ==
  \/ Go(Recycler, {"idle"}, "sweep") \/ TakeLock(Recycler, "sweep", "swept")
  \/ Go(Recycler, {"swept"}, "giveback") \/ TakeLock(Recycler, "giveback", "gaveback")
  \/ DropLock(Recycler, "gaveback", "conn", "swept")
  \/ DropLock(Recycler, "swept", "recy", "idle")

(* ServerSendQueueThread().                                                *)
SenderStep ==
  \/ Go(Sender, {"idle"}, "pass") \/ TakeLock(Sender, "pass", "passed")
  \/ DropLock(Sender, "passed", "send", "idle")

(* ThreadFunc(): it waits on the condition variable, or takes a message    *)
(* and unlocks before it calls the handler, which locks its client and     *)
(* answers through msgSend().                                              *)
PoolStep(t) ==
  \/ Go(t, {"idle", "blocked"}, "take") \/ TakeLock(t, "take", "taken")
  \/ DropLock(t, "taken", "pool", "blocked")
  \/ DropLock(t, "taken", "pool", "idle")
  \/ /\ place[t] = "taken" /\ place' = [place EXCEPT ![t] = "serve"]
     /\ owner' = [owner EXCEPT !["pool"] = Unowned]
     /\ \E c \in Conns : serves' = [serves EXCEPT ![t] = c]
  \/ TakeLock(t, "serve", "serving")
  \/ Go(t, {"serving"}, "answer") \/ TakeLock(t, "answer", "answered")
  \/ CloseCall(t, {"answered"})
  \/ \E from \in {"answered", "sent"} : DropLock(t, from, "send", "served")
  \/ /\ place[t] \in {"serving", "served"} /\ place' = [place EXCEPT ![t] = "idle"]
     /\ owner' = [owner EXCEPT ![serves[t]] = Unowned]
     /\ serves' = [serves EXCEPT ![t] = Unowned]

LocksNext ==
  \/ \E t \in Runners : ClosingSteps(t)
  \/ EpollStep \/ TimerStep \/ RecyclerStep \/ SenderStep
  \/ \E t \in Pool : PoolStep(t)

LocksSpec == LocksInit /\ [][LocksNext]_lockVars

-----------------------------------------------------------------------------
Closing == {"delete", "deleted", "retire", "retired"}
ServesNone == {"idle", "blocked", "take", "taken"}

(* The places a thread gets to, and what it holds at one, while it serves  *)
(* the message of s.                                                       *)
PlaceOf(t, p) ==
  \/ p = "idle"
  \/ t \in Pool \cup {Epoll, Timer} /\ p \in Closing
  \/ t \in Pool /\ p \in {"blocked", "take", "taken", "serve", "serving", "answer",
                         "answered", "sent", "served"}
  \/ t = Epoll /\ p \in {"get", "got", "refuse", "refused", "watch", "watched",
                        "push", "pushed"}
  \/ t = Timer /\ p \in {"scan", "scanned", "kicks"}
  \/ t = Recycler /\ p \in {"sweep", "swept", "giveback", "gaveback"}
  \/ t = Sender /\ p \in {"pass", "passed"}
HeldAt(t, p, s, l) ==
  \/ l = "conn" /\ p \in {"got", "refused", "gaveback"}
  \/ l = "time" /\ p \in {"watched", "scanned", "deleted"}
  \/ l = "recy" /\ p \in {"swept", "giveback", "gaveback", "retired"}
  \/ l = "pool" /\ p \in {"pushed", "taken"}
  \/ l = "send" /\ p = "passed"
  \/ l = "send" /\ t \in Pool /\ p \in Closing \cup {"answered", "sent"}
  \/ t \in Pool /\ l = s /\ p \notin ServesNone \cup {"serve"}

(* Every lock is held by the thread that is between its lock and its       *)
(* unlock, on every way through the functions, and by no other.            *)
LocksPaired ==
  /\ \A t \in Runners : PlaceOf(t, place[t])
  /\ DOMAIN place = Runners /\ owner \in [Locks -> Runners \cup {Unowned}]
  /\ serves \in [Pool -> Conns \cup {Unowned}]
  /\ \A t \in Pool : serves[t] = Unowned <=> place[t] \in ServesNone
  /\ \A l \in Locks, t \in Runners : owner[l] = t <=> HeldAt(t, place[t], serves[t], l)

(* No threads wait for one another in a circle, nor one for itself: of any *)
(* that wait, one waits for a lock that none of them holds.                *)
NoCircularWait ==
  \A S \in SUBSET {t \in Runners : \E l \in Locks : WaitsFor(t, l)} :
    S # {} => \E t \in S : \A l \in Locks : WaitsFor(t, l) => owner[l] \notin S
=============================================================================
