----------------------------- MODULE Processes ------------------------------
(***************************************************************************)
(* The processes of the server: main() (app/nginx.cxx) gets everything     *)
(* ready and becomes the master, which forks the workers and then only     *)
(* waits for signals (proc/ngx_process_cycle.cxx, signal/ngx_signal.cxx).  *)
(* The workers share the listening sockets main() has opened: the kernel   *)
(* tells every one of them of a client, and one gets it.                   *)
(*                                                                         *)
(* Of the signals, "CHLD" says that a child ended or was stopped, "HUP"    *)
(* and "TERM" stand for those whose handler only logs (HUP, INT, TERM,     *)
(* QUIT, IO; two of them, since one may interrupt the handler of another), *)
(* "USR" for those that have none and end a process (USR1, USR2, ALRM).    *)
(* All of them are among the ten the master blocks; a worker blocks none.  *)
(* The handler also sets ngx_reap, which nobody reads.                     *)
(***************************************************************************)
EXTENDS Integers, SequencesExt

CONSTANTS
  Workers,     \* the WorkerProcesses of the configuration
  Clients,     \* clients of the server, numbered as they come
  Master,      \* the process that runs main()
  Nobody,      \* "no worker"
  Signalled,   \* bound: the processes that get signals from outside
  MaxSignals   \* bound: how many of them

ASSUME ProcessesAssumption ==
  /\ IsFiniteSet(Workers) /\ Master \notin Workers /\ Nobody \notin Workers
  /\ Clients \subseteq Nat
  /\ MaxSignals \in Nat

VARIABLES
  main,        \* where main() is
  caught,      \* the handlers are installed; children inherit them
  frames,      \* of each process, the logging its first thread is in: its own
               \* and that of signal handlers, innermost last
  worker,      \* where the first thread of each worker is
  hung,        \* the workers of which another thread hangs in the log
  pending,     \* kernel: signals sent to a process and not delivered
  backlog,     \* kernel: the clients to be accepted, first come first
  client,      \* where each client is
  servedBy,    \* the worker that accepted it
  sent         \* how many signals came from outside

kernelVars == <<pending, sent>>
clientVars == <<backlog, client, servedBy>>
lives == <<worker, hung>>
vars == <<main, caught, frames, lives, kernelVars, clientVars>>

Procs == {Master} \cup Workers
LogOnly == {"HUP", "TERM"}
Handled == LogOnly \cup {"CHLD"}
Signals == Handled \cup {"USR"}
Starting == {"load", "signals", "listen", "daemon", "block", "fail"}

MasterLives == main # "exited"
InPlace(places) == {w \in Workers : worker[w] \in places}
Running == InPlace({"init", "epoll", "accept"})
Alive == InPlace({"forked", "init", "epoll", "accept"})
Zombies == InPlace({"zombie"})

Init ==
  /\ main = "load" /\ caught = FALSE /\ frames = [p \in Procs |-> <<>>]
  /\ worker = [w \in Workers |-> "none"] /\ hung = {}
  /\ pending = [p \in Procs |-> {}] /\ sent = 0
  /\ backlog = <<>> /\ client = [c \in Clients |-> "away"]
  /\ servedBy = [c \in Clients |-> Nobody]

-----------------------------------------------------------------------------
(* The log.  A process begins a line of its own; a line takes a lock of    *)
(* libc in localtime_r(), which is free only if no line that this one has  *)
(* interrupted holds it, and no other thread that hangs.                   *)

Idle(p) == frames[p] = <<>>
OwnLog(p) == frames' = [frames EXCEPT ![p] = <<[sig |-> "own", at |-> "log"]>>]
InHandler(p, s) == \E i \in 1..Len(frames[p]) : frames[p][i].sig = s
HoldsLock(p) == \E i \in 1..Len(frames[p]) : frames[p][i].at = "tz"
LockFree(p) == ~HoldsLock(p) /\ p \notin hung

Top(p, place) == frames[p] # <<>> /\ Last(frames[p]).at = place
Move(p, place) ==
  frames' = [frames EXCEPT ![p] = Append(Front(@), [sig |-> Last(@).sig, at |-> place])]

(* The line, or the handler, ends.  sigsuspend() returns when the last     *)
(* handler is left, and so does epoll_wait(), which is logged (EINTR).     *)
Return(p) ==
  /\ \/ frames' = [frames EXCEPT ![p] = Front(@)]
     \/ /\ p \in Workers /\ Len(frames[p]) = 1 /\ frames[p][1].sig # "own"
        /\ worker[p] = "epoll" /\ OwnLog(p)
  /\ main' = IF p = Master /\ main = "suspend" /\ Len(frames[p]) = 1
             THEN "sleep" ELSE main

LockTimezone(p) ==
  /\ Top(p, "log") /\ LockFree(p) /\ Move(p, "tz")
  /\ UNCHANGED <<main, caught, lives, kernelVars, clientVars>>
EndLog(p) ==
  /\ Top(p, "tz")
  /\ IF Last(frames[p]).sig = "CHLD" THEN Move(p, "wait") /\ UNCHANGED main
                                     ELSE Return(p)
  /\ UNCHANGED <<caught, lives, kernelVars, clientVars>>

-----------------------------------------------------------------------------
(* main() up to the master's loop.  The process ends at the first step     *)
(* that fails; what has no parent any more is reaped by init.              *)

Exit ==
  /\ main' = "exited" /\ frames' = [frames EXCEPT ![Master] = <<>>]
  /\ worker' = [w \in Workers |-> IF w \in Zombies THEN "reaped" ELSE worker[w]]
  /\ UNCHANGED hung

Advance(from, to) ==
  /\ main = from /\ Idle(Master)
  /\ \/ main' = to /\ UNCHANGED <<frames, lives>>
     \/ Exit

LoadConfig == Advance("load", "signals") /\ UNCHANGED <<caught, kernelVars, clientVars>>

InitSignals ==
  /\ Advance("signals", "listen") /\ caught' = TRUE
  /\ UNCHANGED <<kernelVars, clientVars>>

(* The ports are logged, or what failed.                                   *)
OpenListeners ==
  /\ main = "listen" /\ Idle(Master) /\ main' \in {"daemon", "fail"}
  /\ OwnLog(Master)
  /\ UNCHANGED <<caught, lives, kernelVars, clientVars>>

(* ngx_daemon(): from here main() goes on in the child, if Daemon = 1.     *)
Daemonize ==
  /\ main = "daemon" /\ Idle(Master)
  /\ \/ main' = "block" /\ UNCHANGED frames
     \/ main' = "fail" /\ OwnLog(Master)
  /\ UNCHANGED <<caught, lives, kernelVars, clientVars>>

Quit ==
  /\ main = "fail" /\ Idle(Master) /\ Exit
  /\ UNCHANGED <<caught, kernelVars, clientVars>>

BlockSignals ==
  /\ main = "block" /\ Idle(Master) /\ main' = "spawn"
  /\ UNCHANGED <<caught, frames, lives, kernelVars, clientVars>>

(* fork() gives the child no pending signals; when it fails, the master    *)
(* logs that and goes on.                                                  *)
Spawn(w) ==
  /\ main = "spawn" /\ worker[w] = "none"
  /\ \E place \in {"forked", "never"} : worker' = [worker EXCEPT ![w] = place]
  /\ UNCHANGED <<main, caught, frames, hung, kernelVars, clientVars>>

EnterLoop ==
  /\ main = "spawn" /\ InPlace({"none"}) = {} /\ main' = "suspend"
  /\ UNCHANGED <<caught, frames, lives, kernelVars, clientVars>>

-----------------------------------------------------------------------------
(* Signals.  Of the master nothing is blocked before ngx_master_process_   *)
(* cycle() and in sigsuspend(), of a worker nothing at all; a handler      *)
(* blocks its own signal only.                                             *)

Open(p) == IF p = Master THEN main \in Starting \cup {"suspend"} ELSE p \in Running
DeliverableAgain(p, s) == Open(p) /\ s \in pending[p]
Deliverable(p, s) == Open(p) /\ s \in pending[p] /\ ~InHandler(p, s)

TakeFrom(p, s) == pending' = [pending EXCEPT ![p] = @ \ {s}]

(* ngx_signal_handler() begins; the handler logs what came.                *)
Handle(p, s) ==
  /\ s # "USR" /\ caught /\ Deliverable(p, s) /\ TakeFrom(p, s)
  /\ frames' = [frames EXCEPT ![p] = Append(@, [sig |-> s, at |-> "log"])]
  /\ UNCHANGED <<main, caught, lives, sent, clientVars>>

(* No handler yet, or none at all.                                         *)
DefaultAction(s) ==
  /\ s = "USR" \/ ~caught
  /\ Deliverable(Master, s) /\ TakeFrom(Master, s)
  /\ IF s = "CHLD" THEN UNCHANGED <<main, frames, lives>> ELSE Exit
  /\ UNCHANGED <<caught, sent, clientVars>>

(* ngx_process_get_status(): one waitpid(), and the log of what it found.  *)
WaitpidOnce(w) ==
  /\ Top(Master, "wait") /\ w \in Zombies
  /\ worker' = [worker EXCEPT ![w] = "reaped"] /\ Return(Master)
  /\ UNCHANGED <<caught, hung, kernelVars, clientVars>>
Waitpid(w) ==
  /\ Top(Master, "wait") /\ w \in Zombies
  /\ worker' = [worker EXCEPT ![w] = "reaped"] /\ Move(Master, "log")
  /\ UNCHANGED <<main, caught, hung, kernelVars, clientVars>>

(* It returns 0, or -1 with ECHILD; the log of an ECHILD that comes first  *)
(* is left out, no child being there for anybody to miss.                  *)
WaitpidNone ==
  /\ Top(Master, "wait") /\ Zombies = {} /\ Return(Master)
  /\ UNCHANGED <<caught, lives, kernelVars, clientVars>>

(* sleep(1), with the ten signals blocked again.                           *)
EndSleep ==
  /\ main = "sleep" /\ main' = "suspend"
  /\ UNCHANGED <<caught, frames, lives, kernelVars, clientVars>>

-----------------------------------------------------------------------------
(* A worker.                                                               *)

Goto(w, place) == worker' = [worker EXCEPT ![w] = place] /\ UNCHANGED hung

(* A round of the loop ends with printTDInfo(), which may log; what the    *)
(* handlers of the events have logged is this line, too.                   *)
EndRound(w) == UNCHANGED frames \/ OwnLog(w)

(* ngx_worker_process_init(): no signal is blocked any more.               *)
Unblock(w) ==
  /\ worker[w] = "forked" /\ Goto(w, "init")
  /\ UNCHANGED <<main, caught, frames, kernelVars, clientVars>>

(* Its threads run, the listening sockets are in its epoll; it logs that.  *)
InitWorker(w) ==
  /\ worker[w] = "init" /\ Idle(w) /\ Goto(w, "epoll") /\ OwnLog(w)
  /\ UNCHANGED <<main, caught, kernelVars, clientVars>>

(* The process ends: exit(-2), exit(2), a signal, a fault.  The kernel     *)
(* closes the sockets of its clients and tells the parent.                 *)
Die(w) ==
  /\ worker' = [worker EXCEPT ![w] = IF MasterLives THEN "zombie" ELSE "reaped"]
  /\ hung' = hung \ {w} /\ frames' = [frames EXCEPT ![w] = <<>>]
  /\ pending' = [pending EXCEPT
       ![w] = {}, ![Master] = IF MasterLives THEN @ \cup {"CHLD"} ELSE @]
  /\ client' = [c \in Clients |->
       IF servedBy[c] = w THEN "lost" ELSE client[c]]
  /\ UNCHANGED <<main, caught, sent, backlog, servedBy>>

Crash(w) == w \in Alive /\ Die(w)

EndedBySignal(w) == w \in Running /\ "USR" \in pending[w] /\ Die(w)

(* Another thread than the first gets the signal, and if that is in        *)
(* localtime_r(), too, it waits for itself, with whatever locks it has.    *)
HandledElsewhere(w, s) ==
  /\ w \in Running /\ s \in LogOnly \cap pending[w] /\ TakeFrom(w, s)
  /\ hung' \in {hung, hung \cup {w}}
  /\ UNCHANGED <<main, caught, frames, worker, sent, clientVars>>

(* ngx_epoll_process_events(): every worker is told of a client to accept. *)
EpollAcceptEdge(w) ==
  /\ worker[w] = "epoll" /\ Idle(w) /\ Len(backlog) = 1 /\ Goto(w, "accept")
  /\ UNCHANGED <<main, caught, frames, kernelVars, clientVars>>
EpollAccept(w) ==
  /\ worker[w] = "epoll" /\ Idle(w) /\ backlog # <<>> /\ Goto(w, "accept")
  /\ UNCHANGED <<main, caught, frames, kernelVars, clientVars>>

(* ngx_event_accept(); ConnPool has what follows it.  A client that got    *)
(* through asks for something.                                             *)
AcceptFromAll(w) ==
  /\ worker[w] = "accept" /\ Idle(w) /\ backlog # <<>> /\ Goto(w, "epoll")
  /\ client' = [client EXCEPT ![Head(backlog)] = "asks"]
  /\ servedBy' = [servedBy EXCEPT ![Head(backlog)] = w] /\ EndRound(w)
  /\ UNCHANGED <<main, caught, kernelVars, backlog>>
Accept(w) ==
  /\ worker[w] = "accept" /\ Idle(w) /\ backlog # <<>> /\ Goto(w, "epoll")
  /\ backlog' = Tail(backlog)
  /\ client' = [client EXCEPT ![Head(backlog)] = "asks"]
  /\ servedBy' = [servedBy EXCEPT ![Head(backlog)] = w] /\ EndRound(w)
  /\ UNCHANGED <<main, caught, kernelVars>>

(* EAGAIN: another worker was faster; the listening socket does not block. *)
AcceptBlocks(w) ==
  /\ worker[w] = "accept" /\ Idle(w) /\ backlog # <<>> /\ Goto(w, "epoll")
  /\ UNCHANGED <<main, caught, frames, kernelVars, clientVars>>
AcceptNone(w) ==
  /\ worker[w] = "accept" /\ Idle(w) /\ backlog = <<>> /\ Goto(w, "epoll")
  /\ EndRound(w) /\ UNCHANGED <<main, caught, kernelVars, clientVars>>

(* The first thread reads what the client asks, another one answers.       *)
Answer(w, c) ==
  /\ worker[w] = "epoll" /\ servedBy[c] = w /\ client[c] = "asks"
  /\ client' = [client EXCEPT ![c] = "answered"]
  /\ UNCHANGED frames \/ (Idle(w) /\ OwnLog(w))
  /\ UNCHANGED <<main, caught, lives, kernelVars, backlog, servedBy>>

-----------------------------------------------------------------------------
(* What comes from outside: clients, and signals to any process.           *)

(* The kernel completes the connection as soon as somebody listens.        *)
Listening ==
  \/ main \notin {"load", "signals", "listen", "exited"}
  \/ main = "exited" /\ Alive # {}

Connect(c) ==
  /\ Listening /\ client[c] = "away"
  /\ \A d \in Clients : client[d] = "away" => c <= d
  /\ client' = [client EXCEPT ![c] = "queued"] /\ backlog' = Append(backlog, c)
  /\ UNCHANGED <<main, caught, frames, lives, kernelVars, servedBy>>

(* kill(); a signal that is pending already stays one signal.              *)
Kill(p, s) ==
  /\ sent < MaxSignals /\ s # "CHLD" /\ p \in Signalled
  /\ p \in Alive \/ (p = Master /\ MasterLives)
  /\ pending' = [pending EXCEPT ![p] = @ \cup {s}] /\ sent' = sent + 1
  /\ UNCHANGED <<main, caught, frames, lives, clientVars>>

(* A worker is stopped and goes on: a SIGCHLD with nothing to reap.        *)
StopWorker(w) ==
  /\ sent < MaxSignals /\ w \in Signalled
  /\ w \in Alive /\ MasterLives /\ sent' = sent + 1
  /\ pending' = [pending EXCEPT ![Master] = @ \cup {"CHLD"}]
  /\ UNCHANGED <<main, caught, frames, lives, clientVars>>

(* SIGKILL to the master, or a fault of it.                                *)
KillMaster ==
  /\ MasterLives /\ Exit
  /\ UNCHANGED <<caught, kernelVars, clientVars>>

-----------------------------------------------------------------------------
MasterStep ==
  \/ LoadConfig \/ InitSignals \/ OpenListeners \/ Daemonize \/ Quit \/ BlockSignals
  \/ EnterLoop \/ EndSleep
  \/ \E s \in Signals : Handle(Master, s) \/ DefaultAction(s)
  \/ LockTimezone(Master) \/ EndLog(Master) \/ WaitpidNone
  \/ \E w \in Workers : Spawn(w) \/ Waitpid(w)
FirstThread(w) ==
  \/ Unblock(w) \/ InitWorker(w)
  \/ \E s \in Signals : Handle(w, s)
  \/ LockTimezone(w) \/ EndLog(w)
  \/ EpollAccept(w) \/ Accept(w) \/ AcceptNone(w)
WorkerStep(w) ==
  \/ FirstThread(w) \/ EndedBySignal(w)
  \/ \E s \in Signals : HandledElsewhere(w, s)
  \/ \E c \in Clients : Answer(w, c)
Outside ==
  \/ KillMaster
  \/ \E w \in Workers : Crash(w) \/ StopWorker(w)
  \/ \E p \in Procs, s \in Signals : Kill(p, s)
  \/ \E c \in Clients : Connect(c)

Next == MasterStep \/ Outside \/ \E w \in Workers : WorkerStep(w)

Safe == Init /\ [][Next]_vars

(* The scheduler runs every process that can go on, and the kernel         *)
(* delivers a signal that is not blocked.  A worker with a thread that     *)
(* hangs need not do anything any more: the thread may hold any lock.      *)
Serve(w) ==
  /\ w \notin hung
  /\ FirstThread(w) \/ EndedBySignal(w) \/ (Idle(w) /\ \E c \in Clients : Answer(w, c))
Fairness == WF_vars(MasterStep) /\ \A w \in Workers : WF_vars(Serve(w))

Spec == Safe /\ Fairness

-----------------------------------------------------------------------------
(* Types; handlers run only where signals are open, each signal's once.    *)
TypeOK ==
  /\ main \in Starting \cup {"spawn", "suspend", "sleep", "exited"}
  /\ caught \in BOOLEAN /\ sent \in 0..MaxSignals
  /\ frames \in [Procs -> Seq([sig : Handled \cup {"own"}, at : {"log", "tz", "wait"}])]
  /\ \A p \in Procs : \A i, j \in 1..Len(frames[p]) :
       frames[p][i].sig = frames[p][j].sig => i = j
  /\ \A p \in Procs : ~Idle(p) => Open(p) /\ caught
  /\ worker \in [Workers -> {"none", "never", "forked", "init", "epoll", "accept",
                             "zombie", "reaped"}]
  /\ hung \subseteq Running
  /\ pending \in [Procs -> SUBSET Signals]
  /\ backlog \in Seq(Clients) /\ servedBy \in [Clients -> Workers \cup {Nobody}]
  /\ client \in [Clients -> {"away", "queued", "asks", "answered", "lost"}]

(* While a child is a zombie the master has a SIGCHLD to come, or is in    *)
(* the handler and will call waitpid() again: although signals that come   *)
(* while the master blocks them, or handles one, are merged into one.      *)
NoZombieForgotten ==
  MasterLives /\ Zombies # {} => "CHLD" \in pending[Master] \/ InHandler(Master, "CHLD")

(* A client is accepted by one worker: it is in the backlog until then,    *)
(* and only then.                                                          *)
AcceptedOnce ==
  \A c \in Clients :
    /\ Cardinality({i \in 1..Len(backlog) : backlog[i] = c})
         = (IF client[c] = "queued" THEN 1 ELSE 0)
    /\ client[c] \in {"asks", "answered"} => servedBy[c] \in Alive

(* A line of the log was interrupted in localtime_r() by a signal, whose   *)
(* handler waits for the same lock; or another thread has met with that.   *)
StuckInLog == {p \in Procs : p \in hung \/ (Top(p, "log") /\ ~LockFree(p))}

(* No worker that ends stays a zombie for ever, whatever comes together or *)
(* in between, except that the master hangs if StuckInLog.                 *)
EveryDeadReaped == \A w \in Workers :
  []<>(worker[w] # "zombie" \/ Master \in StuckInLog)

(* Nobody is left to accept: workers that end are not replaced, those that *)
(* live hang in the log, or the master did before there were any.          *)
Deserted ==
  \/ main \in {"suspend", "sleep", "exited"} /\ Alive \subseteq StuckInLog
  \/ main \in Starting /\ Master \in StuckInLog

(* A client that got through to the listening socket does not stay in the  *)
(* backlog for ever, though any worker may end or hang on the way, as long *)
(* as there is one that does not: it leaves only when it is accepted.      *)
EveryClientAccepted == \A c \in Clients : []<>(client[c] # "queued" \/ Deserted)

(* A worker that was woken for a client another worker took goes on to     *)
(* serve its own, whatever signals interrupt it, unless one of them hangs  *)
(* it in the log: a client that asks is answered or lost in the end.       *)
EveryClientAnswered == \A c \in Clients :
  []<>(client[c] # "asks" \/ servedBy[c] \in StuckInLog)
=============================================================================
