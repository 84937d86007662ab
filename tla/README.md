# A verification model of the communication server in `src/nginx`

The repository is the material of a course on writing a C++ network server on
Linux. The numbered directories are its chapters; most hold an earlier state of
one program, the epoll server that is complete in `src/nginx/` (5500 lines). The
rest is third-party code kept for reading (nginx 1.9.2, NtyTcp, `eventpoll.c`),
Windows test clients and documents. This development is about the final program.

It consists of TLA+ modules for the parts of that program in which threads meet,
TLC configurations that check them on small instances, and TLAPS proofs of the
most important invariants for every size of the instance.

## 1. The system

A master process opens the listening sockets, forks worker processes and then
only waits for signals and reaps workers that end. The workers share the listening
sockets and nothing else. A worker is one process with many threads around one
object, `g_socket`:

| thread | code | what it does |
|---|---|---|
| epoll thread ("Main") | `ngx_epoll_process_events` | accepts clients, reads packets, goes on sending what a socket did not take at once |
| pool threads ("Workers") | `CThreadPool::ThreadFunc`, `threadRecvProcFunc` | handle one complete message each, answer through `msgSend` |
| send thread ("Sender") | `ServerSendQueueThread` | sends queued answers |
| heartbeat thread ("Timer") | `ServerTimerQueueMonitorThread` | cuts off clients that are silent, or whose time is up |
| recycling thread | `ServerRecyConnectionThread` | returns closed connections to the free list after a delay |

They share connection objects (`ngx_connection_s`), which are never destroyed
while the worker runs but used by client after client. Nothing counts the
references to them. Any of Main, Timer and a Worker may close a connection, at
the same time, through `zdClosesocketProc`.

### Components

| component | state | operations | what makes it correct |
|---|---|---|---|
| Connection pool (`ngx_c_socket_conn.cxx`) | `m_connectionList`, `m_freeconnectionList`, `m_recyconnectionList`, `m_onlineUserCount`; `iCurrsequence`, `fd`, `inRecyTime` of each connection | get, free, retire (`inRecyConnectQueue`), recycle | a connection is in one place; nobody still uses it when it is handed out again; a reference that passes the comparison of sequence numbers is not stale; the counts are exact; the pool stops growing |
| Accepting (`ngx_c_socket_accept.cxx`) | online count, descriptors, epoll set | `ngx_event_accept`, its two refusals and its error paths | the cap on clients holds; no descriptor is lost |
| Closing (`zdClosesocketProc`) | all of the above, timer entries, `iThrowsendCount` | one function, many callers | closing twice is as good as closing once, and never closes somebody else's socket |
| Epoll loop (`ngx_epoll_process_events`) | the batch of events | read handler, then write handler, on flags reported before either | a handler copes with what an earlier one did |
| Receiving (`ngx_c_socket_request.cxx`) | `curStat`, `precvbuf`, `irecvlen`, `precvMemPointer`, flood fields | `ngx_read_request_handler`, `_proc_p1`, `_proc_plast`, `TestFlood` | packets come out as they were sent, however TCP cuts them; no write outside a buffer; no buffer lost |
| Sending (`ngx_c_socket.cxx`, `ngx_c_socket_request.cxx`) | `m_MsgSendQueue`, the semaphore, `iThrowsendCount`, `psendMemPointer`, `isendlen`, `iSendCount` | `msgSend`, `ServerSendQueueThread`, `ngx_write_request_handler` | answers whole, never one inside another, to the right client; buffers freed once; counts exact; no lost wakeup |
| Thread pool (`ngx_c_threadpool.cxx`) | `m_MsgRecvQueue`, mutex, condition, `m_shutdown`, `ifrunning` | `Create`, `ThreadFunc`, `inMsgRecvQueueAndSignal`, `Call`, `StopAll` | every message taken once and in order, none left behind, `StopAll` returns |
| Heartbeat (`ngx_c_socket_time.cxx`, `ngx_c_slogic.cxx`) | `m_timerQueuemap`, `m_cur_size_`, `m_timer_value_`, `lastPingTime` | add, delete, `GetOverTimeTimer`, `procPingTimeOutChecking`, `_HandlePing` | every client is watched, by one entry; silent ones go in bounded time; others stay |
| Business logic and checksum (`ngx_c_slogic.cxx`, `ngx_c_crc32.cxx`) | the table of CRC remainders | `threadRecvProcFunc`, the handlers, `Get_CRC` | stale and damaged messages are dropped, good ones answered with what was asked for |
| Master, workers, signals (`proc/`, `signal/`, `app/nginx.cxx`) | children, signal masks, handlers | start, fork with signals blocked, `sigsuspend`, `ngx_signal_handler`, `waitpid`, accepting in several workers | every ended child is reaped; a client is served by one worker and is not forgotten |
| Locks (`ngx_c_lockmutex.h` and who uses it) | six kinds of mutex | lock and unlock along each thread's way | every lock is released on every way out; no circle of waiting threads |
| Configuration, log, printing, memory, process title | read once or none | sequential | not about concurrency |

How they meet: Main hands a message to the pool through the list of the thread
pool; a pool thread hands the answer to the send thread through the send queue;
the send thread hands an unfinished answer back to Main through
`iThrowsendCount` and `EPOLLOUT`; Main enters each new client into the timer
queue; and any of them retires a connection, which the recycling thread frees.
Each queue has its mutex, and a connection one that handlers of its messages take;
the fields of a connection have none.

What is hard about it is listed, line by line, under `hazards` in
`PROJECT.json`: pointers that outlive their client, a comparison and a use with
no lock in between, fields two threads take turns on, state read unlocked,
signals that find nobody waiting, clocks, caps that are off by one.

## 2. The modules

| module | models | extends / uses |
|---|---|---|
| `ConnPool` | pool, accepting, closing, and who holds a reference (message, timer entry, epoll event, running handler) | |
| `JobQueue` | abstract: a queue of jobs taken in order, each by one hand, all done in the end | |
| `ThreadPool` | the thread pool | `Jobs == INSTANCE JobQueue` |
| `WorkerLocks` | the mutexes of a worker and how its threads nest them | |
| `AnswerDelivery` | abstract: an answer goes whole, once, to the client it is for, who gets the oldest first; it is given up only if that client has gone, or refused at the door | |
| `SendQueue` | both senders, `msgSend`, the write side of the epoll loop, closing as far as sending sees it | `Delivery == INSTANCE AnswerDelivery` |
| `TimerQueue` | the heartbeat | |
| `RecvPacket` | reassembly and flood detection on one connection with client after client | |
| `Dispatch` | one packet: checksum, code, handler, answer | |
| `Processes` | master, workers, signals, the shared listening sockets | |
| `MCConnPool`, `MCThreadPool`, `MCSendQueue`, `MCTimerQueue`, `MCProcesses` | the instances for TLC | the module each is named after |
| `MCWorker`, `MCRecvPacket` | instances that show two modules side by side | `MCThreadPool` and `WorkerLocks`; `RecvPacket` and `Dispatch` |
| `ConnPoolProofs`, `ThreadPoolProofs`, `WorkerLocksProofs`, `SendQueueProofs`, `TimerQueueProofs`, `RecvPacketProofs`, `DispatchProofs`, `ProcessesProofs` | the proofs | the module, `TLAPS` |

Modules are joined by assumptions that another module discharges. `SendQueue`
and `TimerQueue` hand a retired connection to the next client only when no
thread is at work on it (`~Working(c)`): that is `NoReuseWhileHeld` of
`ConnPool`, where it is not assumed but follows from the delay, with the exception
stated there. `ThreadPool`
and `SendQueue` know of a message only who it is for; `RecvPacket` makes it and
`Dispatch` answers it. The workers of `Processes` are each the whole of the other
modules; there a worker is only told of clients, accepts and answers.

`MCWorker` and `MCRecvPacket` have a variable `view`, chosen by `Init`: a behaviour
follows one of the two modules and leaves the other at rest. So a run of two views
checks each module by itself, not their product.

Reading the modules:

- Each thread has a place `pc[t]`. A step ends where another thread can see a
  difference. A section under a mutex is one step if everything it touches is
  guarded by that mutex, and several where it touches more (the send thread's
  pass, the unlocked reads of the monitor, `close(fd); fd = -1`).
- Variables and operators have the names of the source where TLA+ allows it;
  `map` in `PROJECT.json` gives the lines of each definition.
- A definition that stands right before another one and carries its name with
  an ending (`TakeKeeping` before `Take`, `AtCapacityLate` before `AtCapacity`)
  is that definition with a plausible fault. No specification uses it. The
  `mutants` of `PROJECT.json` name the property that fails when it takes the
  place of the right one, which shows that the property can fail.
- Variables marked *history* are there for the properties and for the guards that
  end an instance at its bounds; they decide nothing the program does.

### ConnPool

State: the three lists, the online count, the three fields of every connection,
the kernel's table `sock` from descriptors to connections and the set `armed`
that epoll watches, the references in flight (`msgs`, `timerQ`, `idleList`,
`events`), and of every thread its place, the reference it follows, the
descriptor it tested and when it began.

Actions of Main: `EpollWait` takes a batch of events, `Refuse`, `AcceptNothing`,
`Admit` and then `Arm` or `ArmFails`, `Count` are `ngx_event_accept`; `Recv`,
`Record`, `RecordNothing`, `RecordFlood`, `RecvClosed` the outcomes of the read
handler. Timer: `TimerScan`, `TimerKick`, `TimerSkip`. Workers: `StartMessage`
(the comparison of sequence numbers), `DropMessage`, `FinishMessage`, `Overflow`
(the cap in `msgSend`). Any thread: `TestFd`, `CloseSocket`, `ClearFd`, `Retire`,
the four parts of `zdClosesocketProc`. Recycling thread: `ReadClock`,
`StartPass`, `Recycle`, `EndPass`.

The kernel gives out the lowest free descriptor; `close` reads `p_Conn->fd`
again or uses the value it tested, as the build may do either. When an entry of
the timer is due is left open here: `TimerQueue` has the times.

`Retire` may come between `recv()` and `Record`, where the header handler copies
`iCurrsequence` (request.cxx:251). The message then has the number the connection
has *after* its client, and passes the comparison until the connection is recycled:
it is `misread`. Its handler follows a pointer that the delay does not cover, so it may
find the connection free, or with the next client, before it is done (`Uncovered`).
As long as it only reads and answers, nothing else in the pool goes wrong. If it closes
the connection (`Overflow`), it closes one that is retired, free or another
client's, and from there (`misled`) the pool promises nothing: with this exception left
out TLC finds `OnePlace`, `NoReuseWhileHeld`, `OnlyLivePass`, `NoSocketLeak` and `OnlineExact`
violated, by traces of 21 to 28 states, the first of them a connection that is free and waits to
be recycled at once. For `ClientsCapped` and `PoolBounded` TLC met no such trace, but what
proves them, the exact count and `OnePlace`, is lost, and they have the same exception.
Up to there every property of the pool is checked, and proved, with the window open;
`pool_record_race` shows a misread message passing. `SendQueue` leaves answers to
misread messages out: an answer of a handler there has the number its client had.

### ThreadPool and JobQueue

`Lock`, `FindNothing`, `LeaveLoop`, `Wait`, `Exit`, `Take`, `Finish` are the
loop of `ThreadFunc`; `Wait` releases the mutex and blocks in one step, as
`pthread_cond_wait` promises; `WakeSpuriously` is what POSIX permits. `Push` and
`Signal` are two steps, since the signal is sent after the mutex is released.
`SetShutdown`, `Broadcast`, `Join` are `StopAll`, which takes no mutex.
`JobQueue` has the messages and nothing else: `HandOver`, `Take`, `Complete`.

### WorkerLocks

Every thread has a `place` on its way through the code between two locks, and the
place says which lock it waits for (`WaitsFor`) or has (`HeldAt`). `EpollStep`,
`TimerStep`, `RecyclerStep`, `SenderStep` and `PoolStep` are the threads' ways;
`ClosingSteps` is `zdClosesocketProc`, which all but two of them enter: the pool
threads from inside `msgSend`, with the send queue's lock and the `logicPorcMutex`
of their client in hand, and from there to the timer's and the recycle list's.

### SendQueue

An answer has `PkgLen` pieces and a socket buffer room for `Room`. Send thread:
`Wake`, `StartPass`, `EndPass` frame a pass under the mutex; `DropStale`,
`FindCurrent`, `Skip`, `TakeOut` decide about an entry; `SendDone`/`SendPart` are
the outcomes of `send()`, `Release` and `ClearSent` (free, then the pointer), `Raise`,
`ArmOut` what follows. Main:
`EpollWait` reports flags as they are at that moment; `ReadSome`, `ReadEnd` are
the read handler, `NotWritable`, `HangUp`, `Write` the dispatch of the write
side, `WritePart`, `WriteDone`, `DisarmOut`, `WriteFree`, `WriteClear`, `Lower`, `Post`
`ngx_write_request_handler`. `SendPipe` is `SIGPIPE`. `Kick`, `CloseSocket`,
`Drop`, `Retire` close a connection, `Reuse` gives it to the next client. The
client sends, reads, ends its stream, resets. `caps` are the two limits of
`msgSend`, which `Init` chooses from `Caps`. `doomed` is a history of the messages
that were stale when a pass began.

Nothing keeps the send thread off a connection that is being closed: from
`--iThrowsendCount` (or the test that finds nothing to lower) until
`inRecyConnectQueue` has looked through its list and raised `iCurrsequence`, and for
a send thread that compared before that even longer, the connection looks free
and current (`Abandoned`). If the epoll thread left a half-sent answer there, the
send thread overwrites the pointer to it; if the epoll thread is still about to free
one, both threads may free the same. `stray` is a history of the messages this can happen
to: the one the send thread puts on such a connection, and the one it finds there.
`EveryBufferOwned` and `AnswerDelivery` (`BeginInVain`) state it as their exception: a stray
has left the queue, is sent to nobody else, and is freed at most twice; every other buffer is
freed exactly once. Without the exception TLC finds an answer's buffer lost (15
states) and one freed twice (22 states).

The program does not promise the order of answers, and `WholeAnswers` does not
ask for it: a pass skips a client's answer while Main is at work on the one before;
if Main ends during the pass, the answer behind the skipped one goes out first.
The chapter on it (`src/36、问题1：消息的跳跃发送/TextFile1.txt`) describes that
"包1，包3，包2" may be sent, and decides to leave it so. `AnswerDelivery`, the abstract
specification, has the same freedom: it promises that the first answer a client gets is the
oldest, and of the others that none is lost, cut short or sent twice while the
client can be reached.

### TimerQueue

The multimap is a sequence in the order of its keys. `Accept`, `Insert`,
`PublishInserted` are the entry of a new client; `Delete` (the lock), `Erase` (one
entry), `PublishDeleted` (value and unlock), `Retire` the closing; `Poll` (unlocked
reads), `ReadClock`, `LockQueue`, `OverTime` (one call of `GetOverTimeTimer`),
`UnlockQueue`, `Compare`, `CheckPing`, `EndPass` the monitor. The loops under the
lock are a step for each round, for the monitor reads `m_cur_size_` and
`m_timer_value_` without it, in the middle of a deletion too. `kickNow`
(`Sock_TimeOutKick`) is a variable that `Init` chooses, so one run has both settings.

### RecvPacket

Here the bytes are kept, for the properties are about them: the first byte of a
header stands for its length field. `HeadPart`, `BadHead`, `OnlyHead`,
`HeadThenBody`, `BodyPart`, `BodyDone` are the branches of the read handler by
state and by how much `recv()` gave; `Deliver` is `TestFlood` and the handing
over. `Connect`, `Close`, `Recycle` are the life of the connection. The clock may
be set back, for the program reads `gettimeofday()` and subtracts unsigned.

### Dispatch

A word is the set of its 1 bits. `Reflect`, `crc32_table` and `Get_CRC` are the
code's; `StandardCRC` is the definition of CRC-32 as a polynomial division, which the
client uses. The conversions to network order are modelled (`ntohl`, `ntohs`).
`ClientSendsPacket` makes a packet and lets bits of it change; `Verify`,
`DropDamaged`, `DropStaleMessage`, `DropUnknown`, `DropReserved` are the returns of
`threadRecvProcFunc`; `HandlePing`, `HandleRegister`, `HandleLogIn` the handlers.
Damage to the length field is `RecvPacket`'s, where every length is tried.

### Processes

`LoadConfig` to `BlockSignals` are `main()` up to the master's loop, each of which
may fail and end the process (`Quit`, after the log of the failure); `Spawn`,
`EnterLoop`, `EndSleep` the master's cycle. `frames[p]` is the stack of what the first
thread of process `p` is logging: a line of its own (`OwnLog`) at the bottom, and on it
the signal handlers that came on top, which log, too (`Handle`). A handler blocks its own
signal only, so one of another signal may interrupt it, in the master and in a worker
alike. `LockTimezone` and `EndLog` are a line of the log: `localtime_r()`
holds a lock of libc (`HoldsLock`), for which a line that interrupted it would wait.
`Waitpid`, `WaitpidNone` are the loop of `ngx_process_get_status`, one call of `waitpid()`
each. `DefaultAction` and `EndedBySignal` are what the kernel does with a signal that
has no handler.

A worker logs when it starts (`InitWorker`), when a signal has interrupted
`epoll_wait()` (`Return`), and in `printTDInfo()` at the end of a round, if ten seconds
have passed (`EndRound`: it may). Its first thread is the epoll thread; any other thread
may get a signal instead (`HandledElsewhere`), and if it was in the log itself it
hangs there with whatever locks it has: `hung` has the workers to which that
happened. `Unblock`, `EpollAccept`, `Accept`, `AcceptNone`, `Answer` are the rest of a worker. From
outside come `Connect`, `Kill`, `StopWorker`, `Crash`, `KillMaster`; a client asks
as soon as it is accepted. `pending` is the kernel's: a set, for signals of one number
merge. Of the signals whose handler only logs there are two (`HUP`, `TERM`), so that one
can come on top of the other; a third would only lengthen the stack.

## 3. The runs

All runs switch TLC's deadlock check off, each with the reason in its
configuration: clients, messages or clock ticks run out, and the instance, not
the server, ends. What the server must not stop doing is a liveness property.

| run | instance | shows |
|---|---|---|
| `pool_flood` | one client at a time, no spare connection, a flood factor of 2 and three connections to allocate, three clients, one event at a time, delay 2, clock to 2 | `TypeOK`, `OnlineExact`, `ClientsCapped`, `PoolBounded`: refusals and growth under clients that come and go |
| `pool_pair` | two clients at once, three threads closing, delay 2, clock to 2 | `OnePlace`, `NoReuseWhileHeld`, `OnlyLivePass`, `NoSocketLeak` |
| `pool_close_race` | as `pool_pair` | violation of `InnocentStaysOpen` |
| `pool_record_race` | as `pool_pair` | violation of `GoneAreDropped` |
| `threads` | view 1: three threads, five messages, `StopAll` at any time; view 2: two pool threads with one client, and the other four threads of a worker | `TypeOK` (the mutex released on every way out), `NoneLeftBehind`, `EveryMessageHandled`, refinement of `JobQueue` with its fairness, `StopReturnsOutsideWindow`; `LocksPaired`, `NoCircularWait` |
| `thread_stop_race` | two threads | violation of `StopReturns` |
| `send_serve` | one connection, three answers of two pieces, room for one, limits (2, 1) or (0, 0) | `TypeOK`, `WholeAnswers`, `OnlyItsOwn`, `BacklogExact`, `EveryBufferOwned`, `PassDropsStale`, `EveryAnswerSettled`, refinement of `AnswerDelivery` |
| `send_half_close` | limits (1, 0), `UnreadAtEof` | violation of `WholeAnswers` |
| `send_broken_pipe` | limits (1, 0) | violation of `WorkerSurvives` |
| `heartbeat` | two connections, clients accepted until tick 2, pings until tick 4, clock to 8 | `TypeOK`, `EveryClientWatched`, `GateExact`, `SilentGoInTime`, `PingersStay` |
| `recv_packets` | view 1: seven bytes of four values, two clients; view 2: one packet of each code, up to two bits changed | `TypeOK`, `PacketsAsSent`, `WritesInside`, `BufferOwned`, `FloodExact`; `AnsweredAsMeant` |
| `processes` | a master, two workers, two clients, two signals from outside to the master and one worker | `TypeOK`, `NoZombieForgotten`, `AcceptedOnce`, `EveryDeadReaped`, `EveryClientAccepted`, `EveryClientAnswered` |

### Bounds and why they are enough

- *Connections.* A second connection is needed for one client to be hurt by the
  closing of another; one more in `ConnPool` is the listener's, and `pool_flood`
  has a third client connection for the pool to grow past its bound with. The
  theorems say the pool needs no more for its invariants to be general.
- *Misled states.* In `pool_flood` and `pool_pair` TLC stops at a state that is `misled`
  (`CONSTRAINT NotMisled`): it never ceases to be, and all properties but `TypeOK` hold of it by
  their exception. That `TypeOK` holds for ever is proved. A batch has two events in
  `pool_pair`, so that a handler may close what the next event of the batch is for; `pool_flood`,
  with a third client, has one.
- *Threads.* One Worker stands for many in `ConnPool`: with Main and Timer three
  threads close at once, and a fourth would repeat what one of them does. Three
  threads in `ThreadPool` are the least at which one is woken, one overtakes it
  and one sleeps on. Five messages let the list be empty and fill again while it is
  so. For the locks two pool threads meet at one client's mutex and at each shared
  one; that no larger number makes a circle is proved.
- *Processes.* Two workers that end together are the least for their signals to merge,
  and for one client to wake both. A second signal from outside is the one that comes
  on top of a handler. They go to the master or to one of the workers (`Signalled`): a worker
  that hangs beside one that does not is the case that matters, and when the other one
  ends by itself nobody is left.
- *Clock.* `ConnPool` has a delay of 2 and handlers that may see 1 tick, the
  smallest pair that satisfies `DelayAssumption`; the clock runs a full
  delay, so connections come back and are used again. `TimerQueue`
  runs long enough for a client accepted at the last moment to be silent for
  `Limit`, wait a round and be cut off; the slack in `SilentGoInTime` is exact
  (with one tick less the property fails).
- *Answers.* With limits (2, 1) a client has two answers waiting, the second of
  which can overtake the first, and a third is the end of the client; with (0, 0) the
  queue's limit comes first and an answer is discarded. With three answers
  one can be skipped while another is half sent, and a connection is used again
  while an answer for its former client is queued. Two pieces with room for one
  make every answer need both senders.
- *Bytes.* Seven bytes hold three headers, or a packet with a body followed by
  the beginning of another; among the lengths are one below the header, the
  header alone, the greatest legal one and one above it.
- *Checksums.* Bodies have up to two bytes of 0 and 0x81, so that both ends of a byte and the
  carry from one byte to the next matter; any two bits of code (its low ones),
  checksum and body may change. `{0}` and `{0, 1, 2}`, a code with no handler and the
  first behind the table, are tried besides the three that have handlers.
- `SYMMETRY` is used only where the connections are interchangeable and no
  liveness property is checked.

### Fairness

`ThreadPool`: Main gets on with a call it has begun (when it begins one is up to
the clients), and each thread that can move does. No particular thread is
promised the mutex, and nobody is promised a spurious wakeup. `SendQueue`: the
send thread, Main, and the threads that close are scheduled; a client reads in
the end what it was sent, without which no answer could be promised. Both are
what a preemptive scheduler gives. `Processes`: the master and each worker are
scheduled, and the kernel delivers a signal that is not blocked; clients, crashes
and signals from outside come or do not. A worker of which another thread hangs in
the log is promised nothing any more, since that thread may hold any lock.

The three liveness properties of `Processes` name the states in which the program gives up.
`StuckInLog` are the processes that hang in the log: one of which a line was interrupted
inside `localtime_r()` by a signal whose handler waits for the same lock of libc, in
the first thread, or in another one. A worker that ends is not reaped if the master is in
there; a client that asks is not answered if its worker is; and a client that is queued is not
accepted if `Deserted`: every worker has ended (none is ever replaced) or hangs,
or the master hung before there were any. TLC reaches all of them: with any one of these
exceptions left out, the property it belongs to fails. What the properties say is
that there is no other way. They have the form "again and again not waiting, or given up", which is
here the same as "leads to", for a zombie, a client queued and a client asking stay
so until the step that is hoped for. The other modules state safety only;
`TimerQueue` states its deadline with a clock instead: `Tick` waits for the
monitor, which sleeps 500 ms between two looks and so looks in every second, and
for handlers, which last at most `MaxBusy` ticks.

### What the violations say

Each contradicts a comment in the code, quoted in `findings`.

1. `InnocentStaysOpen`: two threads close one connection; between the test of
   `fd` and `close(fd)` of the slower one the number goes to a new client, whose
   socket is closed. The comment says it does no harm that several threads call
   the function.
2. `GoneAreDropped`: `iCurrsequence` is copied into the message
   when its header is complete. A connection retired since `recv()` gives the
   message the new number, and the message of a client that has gone is handled.
3. `StopReturns`: `StopAll` sets the flag and broadcasts without the mutex. A
   thread between its test and its wait misses both. `ifrunning`, added to make
   `Create` followed by `StopAll` safe, is set just before the wait and leaves the
   window open.
4. `WholeAnswers` with `UnreadAtEof`: a client that ends its own stream while
   an answer is half sent, and input of it unread, makes the epoll loop lower
   `iThrowsendCount` and nothing else; the send thread starts the next answer in
   the middle of the first.
5. `WorkerSurvives`: `SIGPIPE` is neither handled nor ignored, and `send()` is
   called without `MSG_NOSIGNAL`. A client that resets its connection between two
   sends ends the worker, which the master does not replace.

The passing runs have these situations in them and state the properties without them
(`Uncovered` and `misled` in the properties of the pool, `StopReturnsOutsideWindow`, `killed` in
`EveryAnswerSettled`), but for a client that ends its stream with input unread, which the
constant `UnreadAtEof` leaves out. Two more things go wrong
of which no comment of the code says that they do not; the models have them, and the properties
state them as exceptions: answers that go astray on a connection which is being given back
(`stray` in `EveryBufferOwned`, see `SendQueue` above), and processes that hang in their
log (`StuckInLog`, see Fairness).

## 4. What is proved

TLAPS checks, for every value of the constants that satisfies the named
assumptions:

| theorem | says |
|---|---|
| `ConnPoolProofs!Safety` | `misled \/ IInv` is invariant |
| `TypeCorrect`, `EveryConnInOnePlace`, `DelayedRelease`, `StaleNeverPasses`, `SocketsAreClosed` | `TypeOK`, `OnePlace`, `NoReuseWhileHeld`, `OnlyLivePass`, `NoSocketLeak` |
| `CountIsExact`, `ClientsAreCapped`, `PoolIsBounded` | `OnlineExact`, `ClientsCapped`, `PoolBounded` |
| `ThreadPoolProofs!PoolSafety` | `PoolInv` is invariant |
| `MutexInPairs`, `FrontIsThere`, `OneSignalEach` | `TypeOK`, `NeverTakesFromEmpty`, `NoneLeftBehind` |
| `PoolRefinesJobQueue` | the safety part of the refinement |
| `WorkerLocksProofs!Paired`, `Deadlockless` | `LocksPaired`, `NoCircularWait` |
| `SendQueueProofs!SendInvariant` | `SendInv` is invariant |
| `SendTypes`, `BuffersOwned`, `AnswersReachTheirClient`, `BacklogsExact`, `StaleGo` | `TypeOK`, `EveryBufferOwned`, `OnlyItsOwn`, `BacklogExact`, `PassDropsStale` |
| `OneSender` | where the send thread and the epoll thread are both at work on one connection's answer, it is being given back, and what they meet on has gone astray |
| `AnswersWhole` | `WholeAnswers` |
| `SendRefinesAnswerDelivery` | `ImplementsAnswerDelivery`: sending implements `AnswerDelivery` |
| `TimerQueueProofs!TimerInvariant` | `TimerInv` is invariant |
| `TimerTypes`, `EachHasOneEntry`, `GateIsExact`, `OnlyTheSilentGo` | `TypeOK`, `EveryClientWatched`, `GateExact`, `PingersStay` |
| `EntriesComeDue` | no entry stays in the queue unseen for long after it is due |
| `TheSilentGoInTime` | `SilentGoInTime` |
| `RecvPacketProofs!BufferSafety` | `BufInv` is invariant |
| `StateSaysHowFar`, `NoOverrun`, `BuffersAccounted` | `TypeOK`, `WritesInside`, `BufferOwned` |
| `FloodsAreFloods` | `FloodExact` |
| `PacketsArriveAsSent` | `PacketsAsSent` |
| `DispatchProofs!TableCalculatesCRC` | `Get_CRC` with its table gives `StandardCRC`, for every sequence of bytes |
| `DamageIsNoticed` | one or two changed bits of checksum and body make the test fail |
| `AnsweredRequestsAreGenuine` | `AnsweredAsMeant` |
| `ProcessesProofs!ProcessesInvariant` | `ProcInv` is invariant |
| `ProcessesTypes`, `ZombiesFound`, `OneWorkerEach` | `TypeOK`, `NoZombieForgotten`, `AcceptedOnce` |

**The argument for the pool.** That no connection returns to the free list while
a thread works on it is not inductive: it rests on time. `IInv` adds that a
thread at work began at most `MaxBusy` ticks ago and after its reference was
current (`JobsOK`, `EventsOK`), so that the `inRecyTime` of a connection retired
meanwhile lies no earlier than the thread's beginning; `Clocks`, that the
recycling thread's clock is not ahead; `DelayAssumption` then leaves no room for
`Expired`. `WaitingOK` bounds the sequence number of what waits by that of its
connection and gives every reference that is still current a connection in use, or
that of a misread message one not recycled yet;
`SocketsOK` ties descriptors to connections both ways, up to a thread that is
closing; `MainOK` says where a connection being accepted is. `IInv` is lost only by
`Overflow` of a handler that follows a misread message, which makes the state `misled` for good
(`MisledStays`); that the types survive it is proved apart (`StepTypes`, with `Watched`).
The counting theorems use `IInv` and one case for each action that moves a connection between
lists.

**The argument for the threads.** `NoneLeftBehind` counts: as many messages as
threads awake or about to be signalled. It needs that a thread about to wait has
seen an empty list which nobody could have filled since, because the thread
holds the mutex (`Sighted`), and that messages are numbered in the order they
come (`InOrder`), which the refinement needs as well. That the list is not empty where
`front()` is called (`NeverTakesFromEmpty`) is part of that refinement, so the run
`threads` need not check it again.

**The argument for the locks.** `LocksPaired` is inductive: which locks a thread
has follows from its place (`HeldAt`). Then the locks have a rank (a client's
mutex, the send queue's, the timer's and the recycle list's, the free list's, the
thread pool's) and at every place where a thread waits, all it holds is of lower
rank (`RankRises`). Of threads that wait, one waits for the greatest lock
waited for, and nobody who waits holds that.

**The argument for sending.** `SendInv` says whose turn a connection is (`Turns`):
while `iThrowsendCount` is 0, or the send thread has the connection, epoll does not
watch it for `EPOLLOUT` and the epoll thread owes it no write. It is said of
connections that are in use and that no closing thread has let go of: from then on
(`Abandoned`) both senders may be at work there, and `Aparts` says that they are so only
on a message that has gone astray. `Sockets` carries `~UnreadAtEof`: the epoll thread finds
a connection that hung up retired by the time it looks at the write side, so the count
it lowers there is nobody's. `Found` says that what the send thread found current
stays so until it has taken the message out, unless the connection is retired.
`Lefts` says that an answer to be gone on with has something left. On the turns rests
the ownership of buffers (`Owned`): a message that has not gone astray is in the queue, in
order of their numbers, or with one connection, or freed once; what a connection holds
has been freed by nobody but those about to clear the pointer, of whom there are two at
most, which is why a stray is freed no more than twice. On it rest the sequence
numbers of what waits and is sent (`Seqs`), the count of a client's backlog
(`Backlog`), and, for the pass, that what was stale when it began and has not been
dropped is ahead of it (`Pass`).

**The argument for whole answers.** `WholeAnswers` says how a stream that has been
sent is made up, but not how it may go on. `Streams` adds what is underway: between
two answers the stream is a number of answers long, and during one it ends with a
piece of that answer, with as many pieces missing as are left (`Continued`); a
thread that is about to free an answer has sent all of it (`SentAll`); no piece
was sent of an answer still in the queue (`SentIds`). That the first answer of a
client is the oldest needs the place of the pass: before anything is sent the pass has not
left an answer for this client behind it (`Ahead`, `FirstOldest`). An answer that
comes later may overtake another, when a pass skips a connection whose
`iThrowsendCount` is not 0 yet and finds it 0 at a later message of the same client;
that is why `WholeAnswers` says nothing of the order of the others.

**The argument for the delivery.** The invariants above say what the streams and the buffers
look like, not that an answer may not be thrown away: a send thread that frees what the socket
had no room for breaks none of them. `AnswerDelivery` forbids it. There an answer
leaves the set of those pending only for its client's hands or because its number is
not the client's any more, and once it is begun it is done with only when nothing is left of it or its client
cannot be reached. The mapping takes the queue for a set, hides threads, semaphore, counts and
room, and calls settled what was freed. With `SendInv` and `Streams` every step of `SendQueue` is
one of these or changes nothing of it: `TakeOut` is `Begin`, which needs that the send thread has the
turn and no answer is underway (`Turns`), that the message is current (`Found`) and that the
first is the oldest (`Ahead`), or on a connection that is being given back `BeginInVain`, where the
answer before it is given up as well; `Release` and `WriteFree` are `Finish`, by `SentAll`, and
clearing the pointer changes nothing (`Underway`); `DropStale` is `GiveUp`, as the pass compares the numbers itself; `Retire` and `Reuse` are `Forget` and
`Arrive`, since `Sockets` has a connection closed by then.

**The argument for the heartbeat.** That every client has exactly one entry is two
facts: `Entered`, that the queue has at most one of a connection, and that it is of
its client, who has been entered and not been taken out; and `Watch`, that there is
one. With `Sock_TimeOutKick = 1` an entry leaves the queue for the monitor's list,
and a connection may come back while an old entry of it is still there. `Hands`
tells them apart: what the list has is at most as new as the connection, older if its
client is not entered yet; and of entries that are current there is one of each
client, who is then not in the queue. So the monitor never takes a client from under
Main's hands (`Alone`), which would leave an entry to the next client. `Stations`
has the mutex with the one thread that is at work on the queue; from it follows
`Gate`, the exact size at every step and the exact value whenever nobody has the
mutex. `Silence` says that the
monitor's clock is not ahead and that a client to be closed is the one that was
checked, and silent, until another thread has retired it. For these four theorems nothing is assumed of
the times: the bounds of the run (`MaxSeq`, `LastAccept`, ...) may be any numbers.

**The argument for the deadline.** The monitor decides by values it read earlier. `Clocks`
says how old they may be: its clock is that of this second, or of the last if it has not
slept in this one. `ValueEarly` says that `m_timer_value_`, read without
the lock, is never later than the key of any entry but the one that Main is just
putting in. `Ages` bounds how long an entry may have been due, by one tick more while the
monitor has not yet looked with the clock of this second. These three hold for any times
(`EntriesComeDue`). Of clients `Kept` says: one whom nobody closes has an entry
that comes due in time, or is just being entered or closed (`HasEntry`), and has not been
silent for too long (`InTime`); who else is closed began to be in time. An
entry that is put back is due one `WaitTime` after a check that found a ping no older than
`Limit`. A client that is being entered has no entry until Main has made it, and Main may
be held up for a handler's time: hence the one hypothesis, `MaxBusy <= Limit + WaitTime`,
that nobody takes longer over a connection than its client may be silent. It is needed: with
`MaxBusy = 7` in the instance of the run `heartbeat` TLC finds the property violated.

**The argument for receiving.** `BufInv` adds to the three properties that a
buffer is big enough for a body, that there is none between two clients, and that
the field for the header is empty while a body is read. `FloodInv` says what
`FloodAttackCount` counts: the last run of packets that came each within the
interval of the one before, a run that cannot be made longer. A flood is then a
run of at least `KickCount`. The lemma about the unsigned difference
(`UnsignedGap`) shows that a clock set back looks like a long pause and ends a
run, and that the first packet of a client does, since the time before it is 0.
`PacketsAsSent` compares what was handed on with a parse of the whole stream, a recursive
function of its suffixes. `SentInv` divides the stream into what is done with and the piece of a packet that is
underway (`Piece`); what is done with cuts into the packets handed on, whatever bytes
follow (`CutsInto`). A complete packet, or a header skipped, is then one more step of the
parse. That the parse is well defined, and gives the same at the same bytes behind any
beginning (`PlaceShifts`), is shown at the last place where it would not be (`WFMin`):
this serves for induction where the library's theorems, which have an operator as
parameter, cannot be used.

**The argument for the checksum.** A word of 32 bits is the remainder of a polynomial,
its highest coefficient in bit 31, and a round of the table multiplies it by x
(`RoundBit`). A round is linear (`RoundsLinear`) and loses nothing
(`RoundsInjective`). `Serial` takes the bits of a message one by one, each entering above
the highest coefficient. Eight of them at a time make the same register
(`SerialByte`), and one look into the table is eight rounds; on the other side what is left of
the long division after some steps is that register and the bits still to come. So both
sides calculate the same (`TableCalculatesCRC`). As all of it is linear, whether the checksum of a damaged
packet fits depends on the changed bits alone: if it does, their `Syndrome` is empty. Of one bit the
syndrome is a power of x, which is never empty; of two it is the sum of two powers, empty only if
those are equal, which by injectivity puts a power equal to 1 as far behind as the two bits
are apart. That is what `PowersDiffer` excludes. It is a fact about one polynomial and a length, found by
calculation: TLC evaluates it for the lengths of the instance as part of
`DetectionAssumption`, and in `MCRecvPacket` (`RealSizes`) for the 100 bytes of
`STRUCT_REGISTER`, the longest structure of the code. Changed bits of the command cannot make up for it either:
they would have to give the code of another command, whose body has another length
(`LengthTellsCode`). The invariant then only carries that the client's checksum is right, that what arrived is what was sent or
what became of it (`SentRight`), and that what is behind the test passed it (`Tested`).

**The argument for the processes.** `NoZombieForgotten` is nearly inductive: a
worker that ends sends a `SIGCHLD`, which is taken only by a handler that does not
return before `waitpid()` finds nothing. What is missing is that a worker has no
parent without handlers (`NoWorkersYet`), and that a process which is in its log or a handler
is one that can be interrupted there, in which no handler is twice on the stack (in `TypeOK`). `Queueing` ties the backlog to the
clients in it and each client served to a worker that lives.

**Assumptions.** `DelayAssumption` (a handler sees fewer ticks pass than the
delay: the course's "the wait must be longer than any business logic"; the code
does not enforce it) for the pool; `~UnreadAtEof` for sending; `MaxBusy <= Limit + WaitTime` for `TheSilentGoInTime` and
no other theorem of the heartbeat (`ReadConf()` lets `Sock_MaxWaitTime` be no less than 5
seconds: 30 seconds); finite, distinct threads, connections and processes
(`NamesAssumption`, `ThreadsApart`, `ProcessesAssumption`); for receiving, that
times stay below 2^64 and the first packet comes later than one interval after 1970;
for `AnsweredRequestsAreGenuine` that at most two bits of a packet change and that
`PowersDiffer` for its length (`DetectionAssumption`), and that the two structures differ in length, as
they do in the code; nothing else for the thread pool, whose theorems hold with `StopAll` and without,
and for the locks and the processes.

**Only model-checked.** All liveness (`EveryMessageHandled`,
`StopReturnsOutsideWindow`, `EveryAnswerSettled`, `EveryDeadReaped`,
`EveryClientAccepted`, `EveryClientAnswered`, the fairness part of the
refinement), because the prover handles neither fairness nor `ENABLED`. Of the safety
invariants that the runs check each one is also a theorem. What the functions `AfterRounds`, `CrcAfter`
and `Division` are for every number of steps is proved without the library's induction: by
the least number for which it would fail. No module declares a `RECURSIVE` operator.

## 5. Not modelled, and why

- `Initialize_subproc`, `ngx_epoll_init`: they make the initial states; that they may
  fail and end the worker is `Crash` of `Processes`.
- `Shutdown_subproc`, `clearconnection`: the loop of the worker has no exit.
- `accept()` instead of `accept4()`, `SO_REUSEADDR`, errors of `epoll_wait` other than
  `EINTR` (which `Processes` has, as a line of the log): no state depends on them.
- `sem_wait()` interrupted by a signal, after which the send thread makes a pass that
  nobody posted: the pass is an ordinary one.
- Configuration, log, formatted printing, process title, daemon: sequential text
  handling before the threads start, or output.
- The contents of register and login: examples that keep nothing.
- The other directories: the chapters of the course are earlier states of the same
  program, most of them parts of `src/nginx`; nginx 1.9.2 with LuaJIT, NtyTcp and
  `eventpoll.c` are copies of other projects' code, kept to be read. They are by far
  most of the repository's lines, and none of them is part of this program.

## 6. Plan

Done, in this order because everything rests on the pool: `ConnPool` and its
proofs, `ThreadPool` with `JobQueue` and its proofs, `SendQueue`, `TimerQueue`,
`RecvPacket` and its proofs; then `WorkerLocks`, `Processes` and `Dispatch`, the
proofs of the first two, and those of `SendQueue` and `TimerQueue`; then the three proofs
that needed an invariant of their own on top of those: `AnswersWhole`,
`TheSilentGoInTime` and `PacketsArriveAsSent`; last
`DispatchProofs`, and `AnswerDelivery` with the proof that `SendQueue` implements it.

Left: *descriptors and sending together.* `ConnPool` has the descriptors and
`SendQueue` the sending. A module that composes them would say whether an answer, or
a `recv()`, may reach the next client through a stale number.
