------------------------------ MODULE SendQueue ------------------------------
(***************************************************************************)
(* How answers reach clients: msgSend() queues them, ServerSendQueueThread *)
(* sends what the socket takes at once, and what it does not take is left  *)
(* to the epoll thread, which goes on when the socket is writable again    *)
(* (net/ngx_c_socket.cxx, ngx_c_socket_request.cxx).                       *)
(*                                                                         *)
(* The two senders share, without a lock, the fields psendMemPointer,      *)
(* psendbuf and isendlen of a connection; the count iThrowsendCount says   *)
(* whose they are: 0, the send thread's; above 0, the epoll thread's.      *)
(*                                                                         *)
(* The life of a connection is what ConnPool is about; here it is short: a *)
(* client is there, its connection is retired, and the next client gets it *)
(* when no thread is at work on it any more, as ConnPool shows.            *)
(***************************************************************************)
EXTENDS Integers, SequencesExt

CONSTANTS
  Conns,          \* connections of clients
  Main, Sender,   \* the epoll thread, ServerSendQueueThread
  Timer, Worker,  \* a thread that kicks clients, a thread that answers them
  Nobody,         \* "no thread", "no connection", "no message"
  PkgLen,         \* how many pieces an answer has
  Room,           \* how many pieces the buffer of a socket holds
  Caps,           \* pairs of limits, one of which an instance has: the 50000
                  \* and the 400 of msgSend
  UnreadAtEof,    \* may a client end its stream while the server has not
                  \* read all of it?
  MaxMsgs,        \* bound: how many answers are made
  MaxSeq          \* bound: how often a connection is retired

ASSUME SizesAssumption ==
  /\ PkgLen \in Nat \ {0} /\ Room \in Nat \ {0}
  /\ Caps \subseteq Nat \X Nat /\ MaxMsgs \in Nat /\ MaxSeq \in Nat
  /\ UnreadAtEof \in BOOLEAN

Closers == {Main, Timer, Worker}     \* the threads that may close a connection
Ids == 1..MaxMsgs
Msgs == [id : Ids, conn : Conns, seq : Nat]

ASSUME NamesAssumption ==
  /\ Nobody \notin Conns \cup {Main, Sender, Timer, Worker} /\ Nobody \notin Msgs
  /\ Main \notin {Sender, Timer, Worker} /\ Sender \notin {Timer, Worker}
  /\ Timer # Worker

VARIABLES
  caps,      \* the limits of this instance
  queue,     \* m_MsgSendQueue; its length is m_iSendMsgQueueCount
  sem,       \* m_semEventSendQueue
  mutex,     \* m_sendMessageQueueMutex: who holds it
  seq,       \* iCurrsequence of each connection
  retired,   \* the connections in m_recyconnectionList
  throw,     \* iThrowsendCount of each connection
  psend,     \* psendMemPointer of each connection
  left,      \* isendlen of each connection, in pieces
  waiting,   \* iSendCount of each connection
  open,      \* kernel: the connections whose socket is open
  armed,     \* kernel: those of them epoll watches for EPOLLOUT
  room,      \* kernel: free pieces in the buffer of each socket
  unread,    \* kernel: the connections with input the server has not read
  peer,      \* each client: "open", "eof" (has ended its stream), "reset"
  wire,      \* history: the pieces each client was sent, oldest first
  freed,     \* history: how often each message was freed
  made,      \* history: how many messages were made
  stray,     \* history: the messages the send thread found or put on a
             \* connection that a closing thread had let go
  killed,    \* the process was ended by SIGPIPE
  pc, at,    \* of each thread: place, connection
  pos,       \* Sender: its place in the queue
  doomed,    \* history: of the messages that were stale when the pass of
             \* Sender began, those it has not dropped yet
  revents    \* Main: what epoll reported of at[Main]

queueVars == <<queue, sem, mutex>>
sendVars  == <<throw, psend, left, waiting>>
lifeVars  == <<seq, retired>>
sockVars  == <<open, armed, room>>
peerVars  == <<unread, peer>>
histVars  == <<wire, freed, made, stray, killed>>
passVars  == <<pos, doomed>>
thrVars   == <<pc, at>>
vars == <<queueVars, sendVars, lifeVars, sockVars, peerVars, histVars, thrVars,
          passVars, revents>>

QueueCap == caps[1]
ConnCap == caps[2]

Threads == Closers \cup {Sender}
ClosePCs == {"close", "drop", "retire"}

Goto(t, place) == pc' = [pc EXCEPT ![t] = place]

(* A thread works on connection c; the delay before reuse covers it.       *)
Working(c) == \E t \in Threads : at[t] = c

Init ==
  /\ caps \in Caps
  /\ queue = <<>> /\ sem = 0 /\ mutex = Nobody
  /\ seq = [c \in Conns |-> 1] /\ retired = {}
  /\ throw = [c \in Conns |-> 0] /\ psend = [c \in Conns |-> Nobody]
  /\ left = [c \in Conns |-> 0] /\ waiting = [c \in Conns |-> 0]
  /\ open = Conns /\ armed = {} /\ room = [c \in Conns |-> Room]
  /\ unread = {} /\ peer = [c \in Conns |-> "open"]
  /\ wire = [c \in Conns |-> <<>>] /\ freed = [m \in Ids |-> 0]
  /\ made = 0 /\ stray = {} /\ killed = FALSE
  /\ pc = [t \in Threads |-> IF t = Sender THEN "sem" ELSE "idle"]
  /\ at = [t \in Threads |-> Nobody]
  /\ pos = 1 /\ doomed = {} /\ revents = {}

Free(m) == freed' = [freed EXCEPT ![m.id] = @ + 1]

(* FreeMemory(psendMemPointer), and the NULL after it.                     *)
FreeHeld(c) == IF psend[c] = Nobody THEN UNCHANGED freed ELSE Free(psend[c])
Clear(c) == psend' = [psend EXCEPT ![c] = Nobody]

-----------------------------------------------------------------------------
(* msgSend(), from a handler that answers the client of c; a handler that  *)
(* began before the connection was retired answers all the same.           *)

AnswerFor(c) ==
  [id |-> made + 1, conn |-> c, seq |-> IF c \in retired THEN seq[c] - 1 ELSE seq[c]]

Discard(c) ==
  /\ Free(AnswerFor(c)) /\ made' = made + 1

MsgSend(c) ==
  /\ pc[Worker] = "idle" /\ mutex = Nobody /\ made < MaxMsgs
  /\ IF Len(queue) > QueueCap
     THEN Discard(c) /\ UNCHANGED <<queueVars, waiting, thrVars>>
     ELSE IF waiting[c] > ConnCap
     THEN /\ Discard(c) /\ mutex' = Worker
          /\ Goto(Worker, "close") /\ at' = [at EXCEPT ![Worker] = c]
          /\ UNCHANGED <<queue, sem, waiting>>
     ELSE /\ queue' = Append(queue, AnswerFor(c)) /\ sem' = sem + 1
          /\ waiting' = [waiting EXCEPT ![c] = @ + 1] /\ made' = made + 1
          /\ UNCHANGED <<mutex, freed, thrVars>>
  /\ UNCHANGED <<throw, psend, left, lifeVars, sockVars, peerVars, wire, stray,
                 killed, passVars, revents>>

-----------------------------------------------------------------------------
(* ServerSendQueueThread(): one pass over the queue for every sem_wait(),  *)
(* the mutex held throughout.                                              *)

SenderAt(place) == pc[Sender] = place

Wake ==
  /\ SenderAt("sem") /\ sem > 0
  /\ sem' = sem - 1 /\ Goto(Sender, "woken")
  /\ UNCHANGED <<queue, mutex, sendVars, lifeVars, sockVars, peerVars, histVars,
                 at, passVars, revents>>

StaleNever(m) == FALSE
Stale(m) == seq[m.conn] # m.seq

StartPass ==
  /\ SenderAt("woken")
  /\ \/ queue = <<>> /\ Goto(Sender, "sem") /\ UNCHANGED <<mutex, passVars>>
     \/ /\ queue # <<>> /\ mutex = Nobody
        /\ mutex' = Sender /\ pos' = 1 /\ Goto(Sender, "look")
        /\ doomed' = {m.id : m \in {n \in ToSet(queue) : Stale(n)}}
  /\ UNCHANGED <<queue, sem, sendVars, lifeVars, sockVars, peerVars, histVars,
                 at, revents>>

EndPass ==
  /\ SenderAt("look") /\ pos > Len(queue)
  /\ mutex' = Nobody /\ pos' = 1 /\ Goto(Sender, "sem")
  /\ UNCHANGED <<queue, sem, sendVars, lifeVars, sockVars, peerVars, histVars,
                 at, doomed, revents>>

(* The client the message was made for has gone: drop it.                  *)
DropStaleOnly ==
  /\ SenderAt("look") /\ pos <= Len(queue) /\ Stale(queue[pos])
  /\ queue' = RemoveAt(queue, pos) /\ Free(queue[pos])
  /\ doomed' = doomed \ {queue[pos].id}
  /\ mutex' = Nobody /\ pos' = 1 /\ Goto(Sender, "sem")
  /\ UNCHANGED <<sem, sendVars, lifeVars, sockVars, peerVars, wire, made, stray,
                 killed, at, revents>>
DropStale ==
  /\ SenderAt("look") /\ pos <= Len(queue) /\ Stale(queue[pos])
  /\ queue' = RemoveAt(queue, pos) /\ Free(queue[pos])
  /\ doomed' = doomed \ {queue[pos].id}
  /\ UNCHANGED <<sem, mutex, sendVars, lifeVars, sockVars, peerVars, wire, made,
                 stray, killed, thrVars, pos, revents>>

FindCurrent ==
  /\ SenderAt("look") /\ pos <= Len(queue) /\ ~Stale(queue[pos])
  /\ Goto(Sender, "current") /\ at' = [at EXCEPT ![Sender] = queue[pos].conn]
  /\ UNCHANGED <<queueVars, sendVars, lifeVars, sockVars, peerVars, histVars,
                 passVars, revents>>

(* The epoll thread is sending for this connection.                        *)
Skip ==
  /\ SenderAt("current") /\ throw[at[Sender]] > 0
  /\ pos' = pos + 1 /\ Goto(Sender, "look") /\ at' = [at EXCEPT ![Sender] = Nobody]
  /\ UNCHANGED <<queueVars, sendVars, lifeVars, sockVars, peerVars, histVars,
                 doomed, revents>>

(* A connection that zdClosesocketProc() has let go of, its count lowered,  *)
(* is current until inRecyConnectQueue() has looked through its list.  What *)
(* is put there, and what is still there then, has two owners or none.      *)
Abandoned(c) == c \in retired \/ \E t \in Closers : pc[t] = "retire" /\ at[t] = c
Held(c) == IF psend[c] = Nobody THEN {} ELSE {psend[c].id}
Strayed(c) == IF Abandoned(c) THEN {queue[pos].id} \cup Held(c) ELSE {}

TakeOutAnyway ==
  LET c == at[Sender] IN
  /\ SenderAt("current")
  /\ waiting' = [waiting EXCEPT ![c] = @ - 1]
  /\ psend' = [psend EXCEPT ![c] = queue[pos]]
  /\ left' = [left EXCEPT ![c] = PkgLen]
  /\ queue' = RemoveAt(queue, pos) /\ Goto(Sender, "send")
  /\ stray' = stray \cup Strayed(c)
  /\ UNCHANGED <<sem, mutex, throw, lifeVars, sockVars, peerVars, wire, freed,
                 made, killed, at, passVars, revents>>
TakeOut ==
  LET c == at[Sender] IN
  /\ SenderAt("current") /\ throw[c] <= 0
  /\ waiting' = [waiting EXCEPT ![c] = @ - 1]
  /\ psend' = [psend EXCEPT ![c] = queue[pos]]
  /\ left' = [left EXCEPT ![c] = PkgLen]
  /\ queue' = RemoveAt(queue, pos) /\ Goto(Sender, "send")
  /\ stray' = stray \cup Strayed(c)
  /\ UNCHANGED <<sem, mutex, throw, lifeVars, sockVars, peerVars, wire, freed,
                 made, killed, at, passVars, revents>>

-----------------------------------------------------------------------------
(* send(2), for either thread: the buffer takes what it has room for; on a *)
(* socket that was reset the signal SIGPIPE comes, for which the program   *)
(* installs no handler (signals[] in signal/ngx_signal.cxx).               *)

Least(x, y) == IF x < y THEN x ELSE y
Fits(c) == Least(left[c], room[c])
CanSend(c) == c \in open /\ peer[c] # "reset"

Transmit(c) ==
  /\ left' = [left EXCEPT ![c] = @ - Fits(c)]
  /\ room' = [room EXCEPT ![c] = @ - Fits(c)]
  /\ wire' = [wire EXCEPT ![c] = @ \o [i \in 1..Fits(c) |-> psend[c]]]

SendPipe(t) ==
  /\ pc[t] = "send" /\ at[t] \in open /\ peer[at[t]] = "reset"
  /\ killed' = TRUE
  /\ UNCHANGED <<queueVars, sendVars, lifeVars, sockVars, peerVars, wire, freed,
                 made, stray, thrVars, passVars, revents>>

(* All of it sent, or -2: the socket is closed.                            *)
SendDone ==
  LET c == at[Sender] IN
  /\ SenderAt("send") /\ (c \in open => CanSend(c) /\ Fits(c) = left[c])
  /\ IF c \in open THEN Transmit(c) ELSE UNCHANGED <<left, room, wire>>
  /\ Goto(Sender, "release")
  /\ UNCHANGED <<queueVars, throw, psend, waiting, lifeVars, open, armed,
                 peerVars, freed, made, stray, killed, at, passVars, revents>>

(* A part of it sent, or -1: nothing fits.                                 *)
SendPartGivesUp ==
  LET c == at[Sender] IN
  /\ SenderAt("send") /\ CanSend(c) /\ Fits(c) < left[c]
  /\ Transmit(c) /\ Goto(Sender, IF Fits(c) = 0 THEN "release" ELSE "raise")
  /\ UNCHANGED <<queueVars, throw, psend, waiting, lifeVars, open, armed,
                 peerVars, freed, made, stray, killed, at, passVars, revents>>

SendPart ==
  LET c == at[Sender] IN
  /\ SenderAt("send") /\ CanSend(c) /\ Fits(c) < left[c]
  /\ Transmit(c) /\ Goto(Sender, "raise")
  /\ UNCHANGED <<queueVars, throw, psend, waiting, lifeVars, open, armed,
                 peerVars, freed, made, stray, killed, at, passVars, revents>>

Release ==
  /\ SenderAt("release") /\ FreeHeld(at[Sender]) /\ Goto(Sender, "clear")
  /\ UNCHANGED <<queueVars, sendVars, lifeVars, sockVars, peerVars, wire, made,
                 stray, killed, at, passVars, revents>>

ClearSent ==
  /\ SenderAt("clear") /\ Clear(at[Sender])
  /\ throw' = [throw EXCEPT ![at[Sender]] = 0]
  /\ Goto(Sender, "look") /\ at' = [at EXCEPT ![Sender] = Nobody]
  /\ UNCHANGED <<queueVars, left, waiting, lifeVars, sockVars, peerVars, histVars,
                 passVars, revents>>

Raise ==
  /\ SenderAt("raise") /\ throw' = [throw EXCEPT ![at[Sender]] = @ + 1]
  /\ Goto(Sender, "arm")
  /\ UNCHANGED <<queueVars, psend, left, waiting, lifeVars, sockVars, peerVars,
                 histVars, at, passVars, revents>>

(* ngx_epoll_oper_event(EPOLL_CTL_MOD, EPOLLOUT); on a closed socket it    *)
(* fails and that is all.                                                  *)
ArmOut ==
  /\ SenderAt("arm") /\ armed' = armed \cup ({at[Sender]} \cap open)
  /\ Goto(Sender, "look") /\ at' = [at EXCEPT ![Sender] = Nobody]
  /\ UNCHANGED <<queueVars, sendVars, lifeVars, open, room, peerVars, histVars,
                 passVars, revents>>

-----------------------------------------------------------------------------
(* Main: one event of ngx_epoll_process_events(), the read handler first,  *)
(* the write handler after it, on flags that epoll_wait() reported before. *)

MainAt(place) == pc[Main] = place

Reported(c) ==
  (IF c \in unread \/ peer[c] # "open" THEN {"in"} ELSE {})
    \cup (IF c \in armed /\ (room[c] > 0 \/ peer[c] = "reset") THEN {"out"} ELSE {})
    \cup (IF peer[c] # "open" THEN {"hup"} ELSE {})

EpollWait(c) ==
  /\ MainAt("idle") /\ c \in open /\ Reported(c) # {}
  /\ revents' = Reported(c) /\ at' = [at EXCEPT ![Main] = c]
  /\ Goto(Main, IF "in" \in Reported(c) THEN "in" ELSE "out")
  /\ UNCHANGED <<queueVars, sendVars, lifeVars, sockVars, peerVars, histVars,
                 passVars>>

(* recv() delivers bytes, all there are or some of them; the handler may   *)
(* find that the client floods.                                            *)
ReadSome ==
  LET c == at[Main] IN
  /\ MainAt("in") /\ c \in open /\ c \in unread
  /\ unread' \in {unread, unread \ {c}}
  /\ \E place \in {"out", "close"} : Goto(Main, place)
  /\ UNCHANGED <<queueVars, sendVars, lifeVars, sockVars, peer, histVars, at,
                 passVars, revents>>

(* recv() returns 0 or an error.                                           *)
ReadEnd ==
  LET c == at[Main] IN
  /\ MainAt("in")
  /\ c \notin open \/ peer[c] = "reset" \/ (peer[c] = "eof" /\ c \notin unread)
  /\ Goto(Main, "close")
  /\ UNCHANGED <<queueVars, sendVars, lifeVars, sockVars, peerVars, histVars, at,
                 passVars, revents>>

EndEvent == Goto(Main, "idle") /\ at' = [at EXCEPT ![Main] = Nobody] /\ revents' = {}

NotWritable ==
  /\ MainAt("out") /\ "out" \notin revents /\ EndEvent
  /\ UNCHANGED <<queueVars, sendVars, lifeVars, sockVars, peerVars, histVars,
                 passVars>>

(* EPOLLOUT with EPOLLERR, EPOLLHUP or EPOLLRDHUP: only the count changes. *)
HangUp ==
  /\ MainAt("out") /\ {"out", "hup"} \subseteq revents
  /\ throw' = [throw EXCEPT ![at[Main]] = @ - 1] /\ EndEvent
  /\ UNCHANGED <<queueVars, psend, left, waiting, lifeVars, sockVars, peerVars,
                 histVars, passVars>>

(* ngx_write_request_handler(), from here to Post.                         *)
Write ==
  /\ MainAt("out") /\ "out" \in revents /\ "hup" \notin revents
  /\ Goto(Main, "send")
  /\ UNCHANGED <<queueVars, sendVars, lifeVars, sockVars, peerVars, histVars, at,
                 passVars, revents>>

WritePart ==
  LET c == at[Main] IN
  /\ MainAt("send") /\ CanSend(c) /\ Fits(c) < left[c]
  /\ Transmit(c) /\ EndEvent
  /\ UNCHANGED <<queueVars, throw, psend, waiting, lifeVars, open, armed,
                 peerVars, freed, made, stray, killed, passVars>>

(* All of it sent; or nothing to send, or -2.                              *)
WriteDone ==
  LET c == at[Main] IN
  /\ MainAt("send") /\ (c \in open => CanSend(c) /\ Fits(c) = left[c])
  /\ IF c \in open THEN Transmit(c) ELSE UNCHANGED <<left, room, wire>>
  /\ Goto(Main, IF c \in open /\ left[c] > 0 THEN "disarm" ELSE "free")
  /\ UNCHANGED <<queueVars, throw, psend, waiting, lifeVars, open, armed,
                 peerVars, freed, made, stray, killed, at, passVars, revents>>

DisarmOut ==
  /\ MainAt("disarm") /\ armed' = armed \ {at[Main]} /\ Goto(Main, "free")
  /\ UNCHANGED <<queueVars, sendVars, lifeVars, open, room, peerVars, histVars,
                 at, passVars, revents>>

WriteFree ==
  /\ MainAt("free") /\ FreeHeld(at[Main]) /\ Goto(Main, "clear")
  /\ UNCHANGED <<queueVars, sendVars, lifeVars, sockVars, peerVars, wire, made,
                 stray, killed, at, passVars, revents>>

WriteClearKeeps ==
  /\ MainAt("clear") /\ Goto(Main, "lower")
  /\ UNCHANGED <<queueVars, sendVars, lifeVars, sockVars, peerVars, histVars, at,
                 passVars, revents>>
WriteClear ==
  /\ MainAt("clear") /\ Clear(at[Main]) /\ Goto(Main, "lower")
  /\ UNCHANGED <<queueVars, throw, left, waiting, lifeVars, sockVars, peerVars,
                 histVars, at, passVars, revents>>

Lower ==
  /\ MainAt("lower") /\ throw' = [throw EXCEPT ![at[Main]] = @ - 1]
  /\ Goto(Main, "post")
  /\ UNCHANGED <<queueVars, psend, left, waiting, lifeVars, sockVars, peerVars,
                 histVars, at, passVars, revents>>

PostNothing ==
  /\ MainAt("post") /\ EndEvent
  /\ UNCHANGED <<queueVars, sendVars, lifeVars, sockVars, peerVars, histVars,
                 passVars>>
Post ==
  /\ MainAt("post") /\ sem' = sem + 1 /\ EndEvent
  /\ UNCHANGED <<queue, mutex, sendVars, lifeVars, sockVars, peerVars, histVars,
                 passVars>>

-----------------------------------------------------------------------------
(* zdClosesocketProc(), what it does to the sending.  ConnPool has the     *)
(* races of its close() with the reuse of the descriptor.                  *)

Kick(c) ==
  /\ pc[Timer] = "idle" /\ c \notin retired
  /\ Goto(Timer, "close") /\ at' = [at EXCEPT ![Timer] = c]
  /\ UNCHANGED <<queueVars, sendVars, lifeVars, sockVars, peerVars, histVars,
                 passVars, revents>>

(* With the socket goes what the kernel had for it.                        *)
SocketGone(c) ==
  /\ room' = [room EXCEPT ![c] = Room]
  /\ unread' = unread \ {c} /\ peer' = [peer EXCEPT ![c] = "open"]

CloseSocket(t) ==
  /\ pc[t] = "close"
  /\ open' = open \ {at[t]} /\ armed' = armed \ {at[t]}
  /\ SocketGone(at[t])
  /\ Goto(t, IF throw[at[t]] > 0 THEN "drop" ELSE "retire")
  /\ UNCHANGED <<queueVars, sendVars, lifeVars, histVars, at, passVars, revents>>

(* --iThrowsendCount, after the test that it is above 0.                   *)
Drop(t) ==
  /\ pc[t] = "drop"
  /\ throw' = [throw EXCEPT ![at[t]] = @ - 1] /\ Goto(t, "retire")
  /\ UNCHANGED <<queueVars, psend, left, waiting, lifeVars, sockVars, peerVars,
                 histVars, at, passVars, revents>>

(* inRecyConnectQueue().                                                   *)
RetireKeepsMutex(t) ==
  LET c == at[t] IN
  /\ pc[t] = "retire"
  /\ IF c \in retired THEN UNCHANGED lifeVars
     ELSE retired' = retired \cup {c} /\ seq' = [seq EXCEPT ![c] = @ + 1]
  /\ IF t = Main THEN Goto(t, "out") /\ UNCHANGED at
                 ELSE Goto(t, "idle") /\ at' = [at EXCEPT ![t] = Nobody]
  /\ UNCHANGED <<queueVars, sendVars, sockVars, peerVars, histVars,
                 passVars, revents>>
Retire(t) ==
  LET c == at[t] IN
  /\ pc[t] = "retire"
  /\ IF c \in retired THEN UNCHANGED lifeVars
     ELSE retired' = retired \cup {c} /\ seq' = [seq EXCEPT ![c] = @ + 1]
  /\ IF t = Main THEN Goto(t, "out") /\ UNCHANGED at
                 ELSE Goto(t, "idle") /\ at' = [at EXCEPT ![t] = Nobody]
  /\ mutex' = IF t = Worker THEN Nobody ELSE mutex
  /\ UNCHANGED <<queue, sem, sendVars, sockVars, peerVars, histVars,
                 passVars, revents>>

(* PutOneToFree() when the delay is over, GetOneToUse() for the next       *)
(* client.                                                                 *)
ReuseKeepsCount(c) ==
  /\ c \in retired /\ ~Working(c) /\ seq[c] < MaxSeq
  /\ retired' = retired \ {c} /\ seq' = [seq EXCEPT ![c] = @ + 2]
  /\ FreeHeld(c) /\ Clear(c) /\ throw' = [throw EXCEPT ![c] = 0]
  /\ left' = [left EXCEPT ![c] = 0]
  /\ open' = open \cup {c}
  /\ wire' = [wire EXCEPT ![c] = <<>>]
  /\ UNCHANGED <<queueVars, waiting, armed, room, peerVars, made, stray, killed,
                 thrVars, passVars, revents>>
Reuse(c) ==
  /\ c \in retired /\ ~Working(c) /\ seq[c] < MaxSeq
  /\ retired' = retired \ {c} /\ seq' = [seq EXCEPT ![c] = @ + 2]
  /\ FreeHeld(c) /\ Clear(c) /\ throw' = [throw EXCEPT ![c] = 0]
  /\ waiting' = [waiting EXCEPT ![c] = 0] /\ left' = [left EXCEPT ![c] = 0]
  /\ open' = open \cup {c}
  /\ wire' = [wire EXCEPT ![c] = <<>>]
  /\ UNCHANGED <<queueVars, armed, room, peerVars, made, stray, killed, thrVars,
                 passVars, revents>>

-----------------------------------------------------------------------------
(* The client of c: it sends, reads what it was sent, ends its stream, and *)
(* once it has closed its socket answers what still comes with a reset.    *)

ClientSends(c) ==
  /\ c \in open /\ peer[c] = "open" /\ c \notin unread
  /\ unread' = unread \cup {c}
  /\ UNCHANGED <<queueVars, sendVars, lifeVars, sockVars, peer, histVars, thrVars,
                 passVars, revents>>

ClientReads(c) ==
  /\ c \in open /\ peer[c] # "reset" /\ room[c] < Room
  /\ room' = [room EXCEPT ![c] = @ + 1]
  /\ UNCHANGED <<queueVars, sendVars, lifeVars, open, armed, peerVars, histVars,
                 thrVars, passVars, revents>>

ClientEnds(c) ==
  /\ c \in open /\ peer[c] = "open" /\ (c \in unread => UnreadAtEof)
  /\ peer' = [peer EXCEPT ![c] = "eof"]
  /\ UNCHANGED <<queueVars, sendVars, lifeVars, sockVars, unread, histVars,
                 thrVars, passVars, revents>>

ClientResets(c) ==
  /\ c \in open /\ peer[c] = "eof" /\ room[c] < Room
  /\ peer' = [peer EXCEPT ![c] = "reset"]
  /\ UNCHANGED <<queueVars, sendVars, lifeVars, sockVars, unread, histVars,
                 thrVars, passVars, revents>>

-----------------------------------------------------------------------------
SenderStep ==
  \/ Wake \/ StartPass \/ EndPass \/ DropStale \/ FindCurrent \/ Skip \/ TakeOut
  \/ SendDone \/ SendPart \/ Release \/ ClearSent \/ Raise \/ ArmOut
MainStep ==
  \/ ReadSome \/ ReadEnd \/ NotWritable \/ HangUp \/ Write \/ WritePart
  \/ WriteDone \/ DisarmOut \/ WriteFree \/ WriteClear \/ Lower \/ Post
  \/ \E c \in Conns : EpollWait(c)
CloseStep(t) == CloseSocket(t) \/ Drop(t) \/ Retire(t)
ClientStep(c) == ClientSends(c) \/ ClientEnds(c) \/ ClientResets(c) \/ ClientReads(c)

Next ==
  /\ ~killed /\ UNCHANGED caps
  /\ \/ SenderStep \/ MainStep
     \/ \E t \in Closers : CloseStep(t)
     \/ \E t \in {Main, Sender} : SendPipe(t)
     \/ \E c \in Conns : MsgSend(c) \/ Kick(c) \/ Reuse(c) \/ ClientStep(c)

Safe == Init /\ [][Next]_<<vars, caps>>

(* The scheduler runs a thread that can go on; a client reads in the end   *)
(* what it was sent.                                                       *)
Fairness ==
  /\ WF_vars(~killed /\ SenderStep)
  /\ WF_vars(~killed /\ (MainStep \/ CloseStep(Main)))
  /\ \A t \in {Timer, Worker} : WF_vars(~killed /\ CloseStep(t))
  /\ \A c \in Conns : WF_vars(~killed /\ ClientReads(c))

Spec == Safe /\ Fairness

-----------------------------------------------------------------------------
Queued(m) == {i \in 1..Len(queue) : queue[i].id = m}
Sending(m) == {c \in Conns : psend[c] # Nobody /\ psend[c].id = m}
Waiting(c) == {m \in ToSet(queue) : m.conn = c /\ m.seq = seq[c]}

(* The types; the mutex is with whoever is in a section it guards.         *)
TypeOK ==
  /\ queue \in Seq(Msgs) /\ sem \in Nat
  /\ mutex = Sender <=> pc[Sender] \notin {"sem", "woken"}
  /\ mutex = Worker <=> pc[Worker] # "idle"
  /\ retired \subseteq Conns /\ seq \in [Conns -> Nat] /\ throw \in [Conns -> Int]
  /\ psend \in [Conns -> Msgs \cup {Nobody}] /\ left \in [Conns -> 0..PkgLen]
  /\ waiting \in [Conns -> Int] /\ armed \subseteq open /\ open \subseteq Conns
  /\ room \in [Conns -> 0..Room] /\ unread \subseteq Conns
  /\ \A t \in Threads : at[t] = Nobody <=>
       pc[t] \in {"idle", "sem", "woken", "look"}

(* A client gets whole answers, one after the other, each once: only the   *)
(* last may be cut short, although two threads send and neither holds a    *)
(* lock the other takes.  They need not come in the order they were queued *)
(* in: the epoll thread may end its answer between two looks of one pass,  *)
(* and the one looked at later goes out first.  Nothing goes out before    *)
(* the first, for there is no answer whose end could let it pass.          *)
WholeAnswers ==
  \A c \in Conns : \A i, j \in 1..Len(wire[c]) :
    /\ (i - 1) \div PkgLen = (j - 1) \div PkgLen <=> wire[c][i].id = wire[c][j].id
    /\ wire[c][1].id <= wire[c][j].id

(* No client is sent an answer that was made for the client before it.     *)
OnlyItsOwn ==
  \A c \in Conns \ retired : \A i \in 1..Len(wire[c]) :
    wire[c][i].conn = c /\ wire[c][i].seq = seq[c]

(* iSendCount, by which a client that does not read is cut off, is the     *)
(* number of answers in the queue for the client that is there now; and    *)
(* neither it nor the queue grows past its limit.                          *)
BacklogExact ==
  /\ \A c \in Conns \ retired : waiting[c] = Cardinality(Waiting(c))
  /\ Len(queue) <= QueueCap + 1 /\ \A c \in Conns : waiting[c] <= ConnCap + 1

(* The buffer of every answer has exactly one owner, the queue or a        *)
(* connection, until it is freed, once.  That fails where the send thread  *)
(* takes up an answer for a connection which zdClosesocketProc() is giving *)
(* back: the pointer of the answer before may be overwritten, or freed by  *)
(* both senders.  Only these strays may be lost, or freed a second time;   *)
(* and nothing goes astray but at a connection that is being given back.   *)
Clearing(c) == \E t \in {Main, Sender} : pc[t] = "clear" /\ at[t] = c

EveryBufferOwned ==
  \A m \in Ids :
    LET owners == Cardinality(Queued(m)) + Cardinality({c \in Sending(m) : ~Clearing(c)})
    IN  IF m \in stray THEN m <= made /\ Queued(m) = {} /\ freed[m] <= 2
        ELSE freed[m] + owners = (IF m <= made THEN 1 ELSE 0)

(* The client the answer was made for has gone; the buffer stays with the  *)
(* connection until its reuse, or in the queue until the next sem_post(),  *)
(* or has gone astray.                                                     *)
Orphaned(m) ==
  \/ Sending(m) \cap retired # {} \/ m \in stray
  \/ \E i \in Queued(m) : Stale(queue[i])

(* Every answer is sent in the end as long as its client is there and      *)
(* reads: when the epoll thread gives a connection back, the send thread   *)
(* wakes to what it had skipped, and no wakeup is missed.  As the answers  *)
(* of an instance come to an end, this is to say that again and again none *)
(* is left unsettled.                                                      *)
EveryAnswerSettled ==
  []<>(killed \/ \A m \in 1..made : freed[m] > 0 \/ Orphaned(m))

(* What a client that has gone left in the queue goes with the next pass,  *)
(* wherever it is among the messages of others, so that it counts towards  *)
(* the limit of the queue no longer than until somebody is answered.       *)
PassDropsStale ==
  pc[Sender] \in {"sem", "woken"} => doomed = {}

(* A client that goes away does not take the process with it.              *)
WorkerSurvives == ~killed

(* Sending is what AnswerDelivery promises: no answer is lost, cut short,  *)
(* sent twice or to the wrong client, unless its client has gone.          *)
Underway(c) == psend[c] # Nobody /\ ~Clearing(c) /\ psend[c].id \notin stray

Delivery == INSTANCE AnswerDelivery WITH
  Seats <- Conns, None <- Nobody, given <- made, pending <- ToSet(queue),
  current <- [c \in Conns |-> IF Underway(c) THEN psend[c] ELSE Nobody],
  todo <- left, stream <- wire, present <- open, client <- seq,
  settled <- {m \in Ids : freed[m] > 0} \cup stray

ImplementsAnswerDelivery == Delivery!Spec
=============================================================================
