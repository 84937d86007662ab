----------------------------- MODULE ThreadPool -----------------------------
(***************************************************************************)
(* CThreadPool (misc/ngx_c_threadpool.cxx): a list of messages under a     *)
(* mutex, a condition variable the idle threads wait on, and the flag      *)
(* m_shutdown, which StopAll() sets without the mutex.  Main is the thread *)
(* that owns the pool: it creates the threads, hands over every message    *)
(* that is complete, and stops them.                                       *)
(*                                                                         *)
(* A step of a thread is what it does between two points where another     *)
(* thread can see a difference.  A section under the mutex that touches    *)
(* nothing but the list is one step; the loop around pthread_cond_wait()   *)
(* is not, for m_shutdown may change in the middle of it.                  *)
(***************************************************************************)
EXTENDS Integers, SequencesExt

CONSTANTS
  Threads,     \* m_threadVector
  Nobody,      \* the mutex is free
  Stops,       \* does Main call StopAll()?
  MaxMsgs      \* bound: how many messages arrive

ASSUME ThreadsAssumption ==
  IsFiniteSet(Threads) /\ Threads # {} /\ Nobody \notin Threads
ASSUME BoundsAssumption == Stops \in BOOLEAN /\ MaxMsgs \in Nat

VARIABLES
  main,        \* where Main is
  pc,          \* where each thread is
  mutex,       \* m_pthreadMutex: who holds it
  queue,       \* m_MsgRecvQueue; the n-th message is the number n
  shutdown,    \* m_shutdown
  ifrunning,   \* ThreadItem::ifrunning of each thread
  job,         \* the message a thread works on, 0 for none
  sent, done   \* history: how many messages came, which were handled

vars == <<main, pc, mutex, queue, shutdown, ifrunning, job, sent, done>>

InLoop == {"loop", "wait", "check"}     \* the places where the mutex is held

At(places) == {t \in Threads : pc[t] \in places}
Blocked == At({"blocked"})

(* On the way to a look at the queue.                                      *)
Awake == At({"lock", "relock", "loop", "check"})

Init ==
  /\ main = "create" /\ pc = [t \in Threads |-> "none"] /\ mutex = Nobody
  /\ queue = <<>> /\ shutdown = FALSE
  /\ ifrunning = [t \in Threads |-> FALSE] /\ job = [t \in Threads |-> 0]
  /\ sent = 0 /\ done = {}

Goto(t, place) == pc' = [pc EXCEPT ![t] = place]

-----------------------------------------------------------------------------
(* Main.                                                                   *)

CreateThread(t) ==
  /\ main = "create" /\ pc[t] = "none" /\ Goto(t, "lock")
  /\ UNCHANGED <<main, mutex, queue, shutdown, ifrunning, job, sent, done>>

(* pthread_create() fails, Create() returns false, the worker exits.       *)
CreateFails ==
  /\ main = "create" /\ At({"none"}) # {}
  /\ main' = "exited" /\ pc' = [t \in Threads |-> "none"]
  /\ mutex' = Nobody
  /\ UNCHANGED <<queue, shutdown, ifrunning, job, sent, done>>

(* Create() returns when it has seen every ifrunning.                      *)
CreateReturns ==
  /\ main = "create" /\ \A t \in Threads : ifrunning[t]
  /\ main' = "run"
  /\ UNCHANGED <<pc, mutex, queue, shutdown, ifrunning, job, sent, done>>

(* inMsgRecvQueueAndSignal() up to the release of the mutex.               *)
Push ==
  /\ main = "run" /\ sent < MaxMsgs /\ mutex = Nobody
  /\ sent' = sent + 1 /\ queue' = Append(queue, sent + 1)
  /\ main' = "signal"
  /\ UNCHANGED <<pc, mutex, shutdown, ifrunning, job, done>>

(* Call(): pthread_cond_signal() wakes one waiting thread, if there is one *)
SignalFirstOnly ==
  /\ main = "signal" /\ main' = "run"
  /\ IF Len(queue) # 1 \/ Blocked = {} THEN UNCHANGED pc
                       ELSE \E t \in Blocked : Goto(t, "relock")
  /\ UNCHANGED <<mutex, queue, shutdown, ifrunning, job, sent, done>>
Signal ==
  /\ main = "signal" /\ main' = "run"
  /\ IF Blocked = {} THEN UNCHANGED pc ELSE \E t \in Blocked : Goto(t, "relock")
  /\ UNCHANGED <<mutex, queue, shutdown, ifrunning, job, sent, done>>

(* StopAll(), its three parts; none of them takes the mutex.               *)
SetShutdown ==
  /\ Stops /\ main = "run" /\ ~shutdown
  /\ shutdown' = TRUE /\ main' = "broadcast"
  /\ UNCHANGED <<pc, mutex, queue, ifrunning, job, sent, done>>

BroadcastOne ==
  /\ main = "broadcast" /\ main' = "join"
  /\ IF Blocked = {} THEN UNCHANGED pc ELSE \E t \in Blocked : Goto(t, "relock")
  /\ UNCHANGED <<mutex, queue, shutdown, ifrunning, job, sent, done>>
Broadcast ==
  /\ main = "broadcast" /\ main' = "join"
  /\ pc' = [t \in Threads |-> IF t \in Blocked THEN "relock" ELSE pc[t]]
  /\ UNCHANGED <<mutex, queue, shutdown, ifrunning, job, sent, done>>

Join ==
  /\ main = "join" /\ \A t \in Threads : pc[t] = "exit"
  /\ main' = "stopped"
  /\ UNCHANGED <<pc, mutex, queue, shutdown, ifrunning, job, sent, done>>

-----------------------------------------------------------------------------
(* ThreadFunc().                                                           *)

(* pthread_mutex_lock(), or pthread_cond_wait() getting the mutex back.    *)
Lock(t) ==
  /\ pc[t] \in {"lock", "relock"} /\ mutex = Nobody
  /\ mutex' = t /\ Goto(t, "loop")
  /\ UNCHANGED <<main, queue, shutdown, ifrunning, job, sent, done>>

(* The condition of the while loop, true: the thread will wait.            *)
WaitUnchecked(t) ==
  /\ pc[t] = "loop" /\ ~shutdown
  /\ ifrunning' = [ifrunning EXCEPT ![t] = TRUE] /\ Goto(t, "wait")
  /\ UNCHANGED <<main, mutex, queue, shutdown, job, sent, done>>
FindNothing(t) ==
  /\ pc[t] = "loop" /\ queue = <<>> /\ ~shutdown
  /\ ifrunning' = [ifrunning EXCEPT ![t] = TRUE] /\ Goto(t, "wait")
  /\ UNCHANGED <<main, mutex, queue, shutdown, job, sent, done>>

LeaveLoop(t) ==
  /\ pc[t] = "loop" /\ (queue # <<>> \/ shutdown) /\ Goto(t, "check")
  /\ UNCHANGED <<main, mutex, queue, shutdown, ifrunning, job, sent, done>>

(* pthread_cond_wait() releases the mutex and blocks, in one step.         *)
Wait(t) ==
  /\ pc[t] = "wait" /\ mutex' = Nobody /\ Goto(t, "blocked")
  /\ UNCHANGED <<main, queue, shutdown, ifrunning, job, sent, done>>

(* A wakeup nobody sent.                                                   *)
WakeSpuriously(t) ==
  /\ pc[t] = "blocked" /\ Goto(t, "relock")
  /\ UNCHANGED <<main, mutex, queue, shutdown, ifrunning, job, sent, done>>

(* if (m_shutdown), with the mutex.                                        *)
ExitHolding(t) ==
  /\ pc[t] = "check" /\ shutdown /\ Goto(t, "exit")
  /\ UNCHANGED <<main, mutex, queue, shutdown, ifrunning, job, sent, done>>
Exit(t) ==
  /\ pc[t] = "check" /\ shutdown /\ mutex' = Nobody /\ Goto(t, "exit")
  /\ UNCHANGED <<main, queue, shutdown, ifrunning, job, sent, done>>

TakeKeeping(t) ==
  /\ pc[t] = "check" /\ ~shutdown
  /\ job' = [job EXCEPT ![t] = Head(queue)]
  /\ mutex' = Nobody /\ Goto(t, "work")
  /\ UNCHANGED <<main, queue, shutdown, ifrunning, sent, done>>
Take(t) ==
  /\ pc[t] = "check" /\ ~shutdown
  /\ job' = [job EXCEPT ![t] = Head(queue)] /\ queue' = Tail(queue)
  /\ mutex' = Nobody /\ Goto(t, "work")
  /\ UNCHANGED <<main, shutdown, ifrunning, sent, done>>

(* threadRecvProcFunc() returns, the message is freed.                     *)
Finish(t) ==
  /\ pc[t] = "work" /\ Goto(t, "lock")
  /\ done' = done \cup {job[t]} /\ job' = [job EXCEPT ![t] = 0]
  /\ UNCHANGED <<main, mutex, queue, shutdown, ifrunning, sent>>

-----------------------------------------------------------------------------
MainNext ==
  \/ CreateFails \/ CreateReturns \/ Push \/ Signal
  \/ SetShutdown \/ Broadcast \/ Join
  \/ \E t \in Threads : CreateThread(t)
Step(t) ==
  \/ Lock(t) \/ FindNothing(t) \/ LeaveLoop(t) \/ Wait(t)
  \/ Exit(t) \/ Take(t) \/ Finish(t)
Next == MainNext \/ \E t \in Threads : Step(t) \/ WakeSpuriously(t)

Safe == Init /\ [][Next]_vars

(* Main always gets on with a call it has begun; when it begins one is up  *)
(* to the clients.  The scheduler runs every thread that is ready, but     *)
(* nobody promises a particular thread the mutex, nor spurious wakeups.    *)
Fairness ==
  /\ WF_vars(CreateReturns \/ \E t \in Threads : CreateThread(t))
  /\ WF_vars(Signal \/ Broadcast \/ Join)
  /\ \A t \in Threads : WF_vars(Step(t))

Spec == Safe /\ Fairness

-----------------------------------------------------------------------------
(* Types, and that the mutex is held exactly between a lock and the        *)
(* matching unlock, on every way out of the loop.                          *)
TypeOK ==
  /\ main \in {"create", "exited", "run", "signal", "broadcast", "join", "stopped"}
  /\ pc \in [Threads -> {"none", "lock", "relock", "blocked", "work", "exit"} \cup InLoop]
  /\ mutex \in Threads \cup {Nobody}
  /\ \A t \in Threads : mutex = t <=> pc[t] \in InLoop
  /\ queue \in Seq(Nat) /\ shutdown \in BOOLEAN
  /\ ifrunning \in [Threads -> BOOLEAN] /\ job \in [Threads -> Nat]
  /\ sent \in Nat /\ done \in SUBSET Nat

(* A thread that comes to front() and pop_front() finds a message there,   *)
(* however many threads one signal or a spurious wakeup has woken.         *)
NeverTakesFromEmpty ==
  \A t \in Threads : pc[t] = "check" /\ ~shutdown => queue # <<>>

(* While a thread sleeps, every message in the queue has an awake thread   *)
(* on its way to it, or its signal is still to come: no message is left to *)
(* lie beside a sleeping thread, although a signal that finds nobody       *)
(* waiting is lost.                                                        *)
NoneLeftBehind ==
  ~shutdown /\ Blocked # {} =>
    Len(queue) <= Cardinality(Awake) + (IF main = "signal" THEN 1 ELSE 0)

(* Every message that was handed over is handled, whatever the order in    *)
(* which threads get the mutex, unless the pool is told to stop.           *)
EveryMessageHandled == \A m \in 1..MaxMsgs : sent >= m ~> m \in done \/ shutdown

(* The pool is a JobQueue.                                                 *)
Jobs == INSTANCE JobQueue WITH
  Hands <- Threads, queued <- queue, holds <- job, handled <- done,
  handed <- sent, shut <- shutdown

ImplementsJobQueue == Jobs!Spec

(* StopAll() returns with every thread gone.                               *)
StopReturns == main = "broadcast" ~> main = "stopped"

(* It does, unless it broadcasts in the moment between a thread's look at  *)
(* m_shutdown and its pthread_cond_wait().                                 *)
StopReturnsOutsideWindow ==
  main = "broadcast" /\ At({"wait"}) = {} ~> main = "stopped"
=============================================================================
