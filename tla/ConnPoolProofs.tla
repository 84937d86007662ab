--------------------------- MODULE ConnPoolProofs ---------------------------
(***************************************************************************)
(* The safety of the connection pool, for every number of connections,     *)
(* threads and clients and every length of the delay, provided no handler  *)
(* outlasts the delay (DelayAssumption).  It holds until the handler of a  *)
(* message that was read while its client's connection was being retired   *)
(* closes that connection (misled); the types hold for ever.               *)
(***************************************************************************)
EXTENDS ConnPool, FiniteSetTheorems, TLAPS

(* The clock never runs behind what was read from it, and no handler is    *)
(* older than MaxBusy.                                                     *)
Clocks ==
  /\ currtime <= now
  /\ \A c \in Conns : inRecyTime[c] <= now
  /\ \A t \in Threads : since[t] <= now
  /\ \A t \in Threads : Busy(t) => now <= since[t] + MaxBusy

(* What a thread holds is still with the client, or was retired after the  *)
(* thread began.                                                           *)
HeldOK(t, r) ==
  \/ r.conn \in InUse /\ seq[r.conn] = r.seq
  \/ /\ r.conn \in recyList /\ seq[r.conn] = r.seq + 1
     /\ inRecyTime[r.conn] >= since[t]
JobsOK ==
  \A t \in Threads : pc[t] # "idle" => HeldOK(t, ref[t]) \/ Uncovered(t)
EventsOK ==
  \A r \in events : HeldOK(Main, r) \/ (r.conn \in Listeners /\ seq[r.conn] = r.seq)

(* What waits in a queue was made for a client the connection still has,   *)
(* or its sequence number is in the past, or it is a misread message, until *)
(* the connection is recycled.                                             *)
Waiting == msgs \cup timerQ \cup idleList
LiveOrMisread(r) == r.conn \in InUse \/ (r \in misread /\ r.conn \in recyList)
WaitingOK ==
  \A r \in Waiting :
    r.conn \in pool /\ r.seq <= seq[r.conn] /\ (Current(r) => LiveOrMisread(r))
TimersOK == \A r \in timerQ \cup idleList : Current(r) => r.conn \in InUse

(* epoll watches no descriptor that is closed.                             *)
Watched == \A f \in armed : sock[f] # NoConn

(* Who may have which socket open.                                         *)
SocketsOK ==
  /\ \A c \in Conns \ InUse : fd[c] = NoFd
  /\ \A f \in Fds : sock[f] # NoConn => fd[sock[f]] = f
  /\ \A t \in Threads : pc[t] = "close" =>
       /\ tested[t] \in Fds
       /\ fd[ref[t].conn] \in {tested[t], NoFd}
  /\ \A t \in Threads : pc[t] = "clear" => \A f \in Fds : sock[f] # ref[t].conn
  /\ \A t \in Threads : pc[t] = "retire" => fd[ref[t].conn] = NoFd

(* Main's connection before it is armed: nobody else knows of it, but for  *)
(* a handler that follows a pointer the delay does not cover.              *)
MainOK ==
  pc[Main] = "arm" =>
    /\ ref[Main].conn \in InUse /\ fd[ref[Main].conn] \in Fds
    /\ \A t \in Threads \ {Main} :
         pc[t] # "idle" => ref[t].conn # ref[Main].conn \/ Uncovered(t)
    /\ \A r \in events : r.conn # ref[Main].conn
    /\ \A r \in Waiting : r.conn = ref[Main].conn => r.seq < seq[r.conn]
    /\ \A f \in armed : sock[f] # ref[Main].conn

IInv == /\ TypeOK /\ Placed /\ Clocks /\ JobsOK /\ EventsOK
        /\ WaitingOK /\ TimersOK /\ Watched /\ SocketsOK /\ MainOK

-----------------------------------------------------------------------------
(* The free list as a queue without repetition.                            *)

(* The rest of a queue without repetition lacks only the first.            *)
LEMMA TailOfFree ==
  ASSUME NEW S, NEW s \in Seq(S), s # <<>>, IsInjective(s)
  PROVE  /\ Head(s) \in S /\ Tail(s) \in Seq(S) /\ IsInjective(Tail(s))
         /\ ToSet(Tail(s)) = ToSet(s) \ {Head(s)}
<1>1. /\ Tail(s) \in Seq(S) /\ Head(s) = s[1] /\ Len(s) \in Nat \ {0}
      /\ Len(Tail(s)) = Len(s) - 1
      /\ \A i \in 1..Len(Tail(s)) : Tail(s)[i] = s[i + 1]
  OBVIOUS
<1>2. DOMAIN s = 1..Len(s) /\ DOMAIN Tail(s) = 1..(Len(s) - 1)
  BY <1>1
<1>3. IsInjective(Tail(s))
  BY <1>1, <1>2 DEF IsInjective
<1>4. ASSUME NEW x \in ToSet(Tail(s)) PROVE x \in ToSet(s) \ {Head(s)}
  <2>1. PICK i \in 1..(Len(s) - 1) : x = s[i + 1]
    BY <1>1, <1>2 DEF ToSet
  <2>2. i + 1 \in DOMAIN s /\ 1 \in DOMAIN s /\ i + 1 # 1
    BY <1>1, <1>2
  <2>3. QED BY <2>1, <2>2, <1>1 DEF ToSet, IsInjective
<1>5. ASSUME NEW x \in ToSet(s) \ {Head(s)} PROVE x \in ToSet(Tail(s))
  <2>1. PICK i \in DOMAIN s : x = s[i]
    BY DEF ToSet
  <2>2. i # 1 /\ i \in 1..Len(s)
    BY <2>1, <1>1, <1>2
  <2>3. i - 1 \in DOMAIN Tail(s) /\ Tail(s)[i - 1] = x
    BY <2>1, <2>2, <1>1, <1>2
  <2>4. QED BY <2>3 DEF ToSet
<1>6. Head(s) \in S
  BY <1>1
<1>7. QED BY <1>1, <1>3, <1>4, <1>5, <1>6

(* A queue with one more: without repetition if that one was not in it.    *)
LEMMA AppendToFree ==
  ASSUME NEW S, NEW s \in Seq(S), NEW e \in S
  PROVE  /\ Append(s, e) \in Seq(S)
         /\ ToSet(Append(s, e)) = ToSet(s) \cup {e}
         /\ IsInjective(s) /\ e \notin ToSet(s) => IsInjective(Append(s, e))
<1>1. /\ Append(s, e) \in Seq(S) /\ Len(s) \in Nat
      /\ Len(Append(s, e)) = Len(s) + 1
      /\ \A i \in 1..Len(s) : Append(s, e)[i] = s[i]
      /\ Append(s, e)[Len(s) + 1] = e
  OBVIOUS
<1>2. DOMAIN s = 1..Len(s) /\ DOMAIN Append(s, e) = 1..(Len(s) + 1)
  BY <1>1
<1>3. ToSet(Append(s, e)) \subseteq ToSet(s) \cup {e}
  BY <1>1, <1>2 DEF ToSet
<1>4. ASSUME NEW x \in ToSet(s) \cup {e} PROVE x \in ToSet(Append(s, e))
  BY <1>1, <1>2 DEF ToSet
<1>5. IsInjective(s) /\ e \notin ToSet(s) => IsInjective(Append(s, e))
  BY <1>1, <1>2 DEF ToSet, IsInjective
<1>6. QED BY <1>1, <1>3, <1>4, <1>5

-----------------------------------------------------------------------------
(* What the bookkeeping of a thread does to the thread types.              *)

(* A thread that goes to another place keeps the types.                    *)
LEMMA GotoType ==
  ASSUME ThreadTypeOK, NEW t \in Threads, pc[t] # "idle", NEW p \in ClosePCs \cup {"count"},
         p = "count" => t = Main, Goto(t, p), UNCHANGED <<ref, since>>,
         tested' \in [Threads -> Fds \cup {NoFd}]
  PROVE  ThreadTypeOK'
<1>1. \A u \in Threads : pc'[u] = IF u = t THEN p ELSE pc[u]
  BY DEF ThreadTypeOK, Goto
<1>2. p # "idle"
  BY DEF ClosePCs
<1>3. QED BY <1>1, <1>2 DEF ThreadTypeOK, Goto, ClosePCs

(* A thread that returns keeps the types.                                  *)
LEMMA ReturnType ==
  ASSUME ThreadTypeOK, NEW t \in Threads, Return(t)
  PROVE  ThreadTypeOK'
<1>1. since' \in [Threads -> Nat] /\ tested' \in [Threads -> Fds \cup {NoFd}]
  BY DEF ThreadTypeOK, Return
<1>2. /\ pc' = [pc EXCEPT ![t] = "idle"] /\ ref' = [ref EXCEPT ![t] = NoRef]
  BY DEF Return, Goto
<1>3. \A u \in Threads : /\ pc'[u] = IF u = t THEN "idle" ELSE pc[u]
                         /\ ref'[u] = IF u = t THEN NoRef ELSE ref[u]
  BY <1>2 DEF ThreadTypeOK
<1>4. QED BY <1>1, <1>2, <1>3 DEF ThreadTypeOK

(* A thread that begins with a reference keeps the types.                  *)
LEMMA BeginType ==
  ASSUME ThreadTypeOK, NEW t \in Threads, NEW r \in Refs,
         NEW p \in ClosePCs \cup {"arm", "record", "handler"},
         p \in {"arm", "record"} => t = Main, p = "handler" => t \in Workers,
         Goto(t, p), ref' = [ref EXCEPT ![t] = r],
         since' \in [Threads -> Nat], UNCHANGED tested
  PROVE  ThreadTypeOK'
<1>1. r # NoRef
  BY PoolAssumption
<1>3. \A u \in Threads : /\ pc'[u] = IF u = t THEN p ELSE pc[u]
                         /\ ref'[u] = IF u = t THEN r ELSE ref[u]
  BY DEF ThreadTypeOK, Goto
<1>4. QED BY <1>1, <1>3 DEF ThreadTypeOK, Goto, ClosePCs

(* One more reference in a queue.                                          *)
LEMMA WaitingGrows ==
  ASSUME WaitingOK, NEW c \in pool, seq \in [Conns -> Nat], c \in Conns,
         Waiting' \subseteq Waiting \cup {RefTo(c)}, misread \subseteq misread',
         c \in InUse \/ (RefTo(c) \in misread' /\ c \in recyList),
         UNCHANGED <<pool, seq, recyList>>, InUse' = InUse
  PROVE  WaitingOK'
<1>1. seq[c] \in Nat /\ RefTo(c).conn = c /\ RefTo(c).seq = seq[c]
  BY DEF RefTo
<1>2. ASSUME NEW r \in Waiting'
      PROVE  (r.conn \in pool /\ r.seq <= seq[r.conn] /\ (Current(r) => LiveOrMisread(r)))'
  <2>1. CASE r \in Waiting
    BY <2>1 DEF WaitingOK, Current, LiveOrMisread
  <2>2. CASE r = RefTo(c)
    BY <2>2, <1>1 DEF LiveOrMisread
  <2>3. QED BY <2>1, <2>2
<1>3. QED BY <1>2 DEF WaitingOK

(* Where no connection moves, what waits stays as good as it was.          *)
LEMMA WaitingStays ==
  ASSUME WaitingOK, TimersOK, Waiting' \subseteq Waiting,
         (timerQ \cup idleList)' \subseteq timerQ \cup idleList,
         \A r \in msgs' : r \in misread => r \in misread',
         UNCHANGED <<pool, seq, recyList>>, InUse' = InUse
  PROVE  WaitingOK' /\ TimersOK'
<1>1. TimersOK' BY DEF TimersOK, Current
<1>2. ASSUME NEW r \in Waiting'
      PROVE  (r.conn \in pool /\ r.seq <= seq[r.conn] /\ (Current(r) => LiveOrMisread(r)))'
  <2>1. CASE r \in msgs'
    BY <1>2, <2>1 DEF WaitingOK, Current, LiveOrMisread
  <2>2. CASE r \in timerQ' \cup idleList'
    BY <1>1, <1>2, <2>2 DEF WaitingOK, TimersOK, Current, LiveOrMisread
  <2>3. QED BY <2>1, <2>2 DEF Waiting
<1>3. QED BY <1>1, <1>2 DEF WaitingOK

-----------------------------------------------------------------------------
(* A thread at work has a reference.                                       *)
LEMMA WorkRefs ==
  ASSUME TypeOK
  PROVE  \A t \in Threads : pc[t] # "idle" =>
           ref[t] \in Refs /\ ref[t].conn \in Conns /\ ref[t].seq \in Nat
BY DEF TypeOK, ThreadTypeOK, Refs

(* What ngx_free_connection() does to the free list and the numbers.       *)
LEMMA FreeEffect ==
  ASSUME TypeOK, Placed, NEW c \in recyList \cup InUse, FreeConnection(c), UNCHANGED pool
  PROVE  /\ freeList' \in Seq(Conns) /\ Free' = Free \cup {c} /\ IsInjective(freeList')
         /\ seq' \in [Conns -> Nat] /\ seq'[c] = seq[c] + 1
         /\ \A d \in Conns \ {c} : seq'[d] = seq[d]
<1>1. c \notin Free /\ c \in Conns
  BY DEF Placed, InUse, TypeOK, DataTypeOK
<1>2. freeList \in Seq(Conns) /\ seq \in [Conns -> Nat]
  BY DEF TypeOK, DataTypeOK
<1>3. QED
  BY <1>1, <1>2, AppendToFree DEF FreeConnection, Free, Placed

-----------------------------------------------------------------------------
(* The types, which hold even of a state that is misled.                   *)

(* What ngx_free_connection() does keeps the types.                        *)
LEMMA FreeType ==
  ASSUME TypeOK, NEW c \in Conns, FreeConnection(c)
  PROVE  freeList' \in Seq(Conns) /\ seq' \in [Conns -> Nat]
<1>1. freeList \in Seq(Conns) /\ seq \in [Conns -> Nat] BY DEF TypeOK, DataTypeOK
<1>2. QED BY <1>1 DEF FreeConnection

(* A descriptor that is closed is no longer watched.                       *)
LEMMA StepWatched ==
  ASSUME TypeOK, Watched, [Next]_vars PROVE Watched'
<1> USE PoolAssumption DEF poolVars, connVars, kernVars, refVars, msgVars, thrVars, recyVars
<1>1. ASSUME NEW f, CloseFd(f) PROVE Watched'
  BY <1>1 DEF CloseFd, Watched, TypeOK, DataTypeOK
<1>2. CASE UNCHANGED <<sock, armed>> BY <1>2 DEF Watched
<1>3. CASE Arm
  <2>1. /\ ref[Main].conn \in Conns /\ sock[fd[ref[Main].conn]] = ref[Main].conn
        /\ sock' = sock /\ armed' = armed \cup {fd[ref[Main].conn]}
    BY <1>3, WorkRefs DEF Arm, Threads
  <2>2. QED BY <2>1 DEF Watched
<1>4. ASSUME NEW r \in events, Admit(r) PROVE Watched'
  <2>1. PICK f \in Fds, c \in Conns : sock' = [sock EXCEPT ![f] = c] BY <1>4 DEF Admit
  <2>2. armed' = armed BY <1>4 DEF Admit
  <2>3. QED BY <2>1, <2>2 DEF Watched, TypeOK, DataTypeOK
<1>5. CASE ArmFails BY <1>1, <1>5 DEF ArmFails
<1>6. ASSUME NEW t \in Threads, CloseSocket(t) PROVE Watched'
  BY <1>1, <1>6 DEF CloseSocket
<1>7. ASSUME MainStep PROVE Watched'
  BY <1>2, <1>3, <1>4, <1>5, <1>7
  DEF MainStep, EpollWait, Count, Record, RecordNothing, RecordFlood, Refuse,
      AcceptNothing, Recv, RecvClosed
<1>8. ASSUME TimerStep PROVE Watched'
  BY <1>2, <1>8 DEF TimerStep, TimerScan, TimerKick, TimerSkip
<1>9. ASSUME NEW t \in Workers, WorkerStep(t) PROVE Watched'
  BY <1>2, <1>9 DEF WorkerStep, FinishMessage, Overflow, StartMessage, DropMessage
<1>10. ASSUME NEW t \in Threads, CloseStep(t) PROVE Watched'
  BY <1>2, <1>6, <1>10 DEF CloseStep, TestFd, ClearFd, Retire
<1>11. ASSUME RecyStep PROVE Watched'
  BY <1>2, <1>11 DEF RecyStep, ReadClock, StartPass, Recycle, EndPass
<1>12. QED
  BY <1>2, <1>7, <1>8, <1>9, <1>10, <1>11 DEF Next, Tick, vars

(* Every step keeps the types, whatever has gone wrong before.             *)
LEMMA StepTypes ==
  ASSUME TypeOK, Watched, [Next]_vars PROVE TypeOK'
<1> USE PoolAssumption, ThreadAssumption, NumberAssumption
<1> USE DEF Goto, Begin, Turn, Skip, Threads, NoFd, Refs, ClosePCs,
          poolVars, connVars, kernVars, refVars, msgVars, thrVars, recyVars
<1>0. \A t \in Threads : pc[t] # "idle" =>
       ref[t] \in Refs /\ ref[t].conn \in Conns /\ ref[t].seq \in Nat
  BY WorkRefs
<1>1. ASSUME EpollWait PROVE TypeOK'
  <2>0. Readable \cup Pending \subseteq Refs
    BY DEF TypeOK, DataTypeOK, Watched, Readable, Pending, RefTo
  <2>1. DataTypeOK'
    BY <1>1 DEF TypeOK, DataTypeOK, EpollWait
  <2>2. RefsTypeOK'
    <3>1. events' \subseteq Readable \cup Pending BY <1>1 DEF EpollWait
    <3>2. QED BY <1>1, <2>0, <3>1 DEF TypeOK, RefsTypeOK, EpollWait
  <2>3. ThreadTypeOK'
    <3>1. now \in Nat BY DEF TypeOK, DataTypeOK
    <3>2. QED BY <1>1, <3>1 DEF TypeOK, ThreadTypeOK, EpollWait
  <2>4. QED BY <2>1, <2>2, <2>3 DEF TypeOK
<1>2. ASSUME Arm PROVE TypeOK'
  <2>0. RefTo(ref[Main].conn) \in Refs /\ fd[ref[Main].conn] \in Fds
    BY <1>0, <1>2 DEF TypeOK, DataTypeOK, RefTo, Arm
  <2>1. DataTypeOK'
    BY <1>2, <2>0 DEF TypeOK, DataTypeOK, Arm
  <2>2. RefsTypeOK'
    BY <1>2, <2>0 DEF TypeOK, RefsTypeOK, Arm
  <2>3. ThreadTypeOK'
    BY <1>2, <2>0 DEF TypeOK, ThreadTypeOK, Arm
  <2>4. QED BY <2>1, <2>2, <2>3 DEF TypeOK
<1>3. ASSUME Count PROVE TypeOK'
  <2>1. DataTypeOK'
   BY <1>3 DEF TypeOK, DataTypeOK, Count
  <2>2. RefsTypeOK'
   BY <1>3 DEF TypeOK, RefsTypeOK, Count
  <2>3. ThreadTypeOK'
   BY <1>3, ReturnType DEF TypeOK, Count
  <2>4. QED BY <2>1, <2>2, <2>3 DEF TypeOK
<1>4. ASSUME Record PROVE TypeOK'
  <2>1. DataTypeOK'
    BY <1>4 DEF TypeOK, DataTypeOK, Record, RefTo, Return
  <2>2. RefsTypeOK'
    <3>1. RefTo(ref[Main].conn) \in Refs
      BY <1>0, <1>4 DEF Record, RefTo, TypeOK, DataTypeOK
    <3>2. QED BY <1>4, <3>1 DEF TypeOK, RefsTypeOK, Record
  <2>3. ThreadTypeOK'
    BY <1>4 DEF TypeOK, ThreadTypeOK, Record, RefTo, Return
  <2>4. QED BY <2>1, <2>2, <2>3 DEF TypeOK
<1>5. ASSUME RecordNothing PROVE TypeOK'
  <2>1. DataTypeOK'
    BY <1>5 DEF TypeOK, DataTypeOK, RecordNothing, Return
  <2>2. RefsTypeOK'
    BY <1>5 DEF TypeOK, RefsTypeOK, RecordNothing, Return
  <2>3. ThreadTypeOK'
    BY <1>5, ReturnType DEF TypeOK, RecordNothing
  <2>4. QED BY <2>1, <2>2, <2>3 DEF TypeOK
<1>6. ASSUME RecordFlood PROVE TypeOK'
  <2>1. DataTypeOK'
    BY <1>6 DEF TypeOK, DataTypeOK, RecordFlood
  <2>2. RefsTypeOK'
    BY <1>6 DEF TypeOK, RefsTypeOK, RecordFlood
  <2>3. ThreadTypeOK'
    BY <1>6 DEF TypeOK, ThreadTypeOK, RecordFlood
  <2>4. QED BY <2>1, <2>2, <2>3 DEF TypeOK
<1>7. ASSUME NEW r \in events, Refuse(r) PROVE TypeOK'
  <2>1. DataTypeOK'
   <3>a. clients' = clients + 1 BY <1>7 DEF Refuse
   <3>b. clients \in Nat BY DEF TypeOK, DataTypeOK
   <3>1. clients' \in Nat BY <3>a, <3>b
   <3>2. QED BY <1>7, <3>1 DEF TypeOK, DataTypeOK, Refuse
  <2>2. RefsTypeOK'
   BY <1>7 DEF TypeOK, RefsTypeOK, Refuse
  <2>3. ThreadTypeOK'
   <3>1. since' \in [Threads -> Nat] BY <1>7 DEF Refuse, TypeOK, ThreadTypeOK
   <3>2. QED BY <1>7, <3>1 DEF TypeOK, ThreadTypeOK, Refuse
  <2>4. QED BY <2>1, <2>2, <2>3 DEF TypeOK
<1>8. ASSUME NEW r \in events, AcceptNothing(r) PROVE TypeOK'
  <2>1. DataTypeOK'
    BY <1>8 DEF TypeOK, DataTypeOK, AcceptNothing
  <2>2. RefsTypeOK'
    BY <1>8 DEF TypeOK, RefsTypeOK, AcceptNothing
  <2>3. ThreadTypeOK'
    BY <1>8 DEF TypeOK, ThreadTypeOK, AcceptNothing
  <2>4. QED BY <2>1, <2>2, <2>3 DEF TypeOK
<1>9. ASSUME NEW r \in events, Recv(r) PROVE TypeOK'
  <2>1. DataTypeOK'
    BY <1>9 DEF TypeOK, DataTypeOK, Recv
  <2>2. RefsTypeOK'
    BY <1>9 DEF TypeOK, RefsTypeOK, Recv
  <2>3. ThreadTypeOK'
    <3>1. r \in Refs /\ now \in Nat /\ Main \in Threads
      BY DEF TypeOK, DataTypeOK, RefsTypeOK
    <3>2. Goto(Main, "record") /\ ref' = [ref EXCEPT ![Main] = r]
      BY <1>9 DEF Recv
    <3>3. since' \in [Threads -> Nat] /\ UNCHANGED tested
      BY <1>9, <3>1 DEF Recv, TypeOK, ThreadTypeOK
    <3>4. QED BY <3>1, <3>2, <3>3, BeginType DEF TypeOK
  <2>4. QED BY <2>1, <2>2, <2>3 DEF TypeOK
<1>10. ASSUME NEW r \in events, RecvClosed(r) PROVE TypeOK'
  <2>1. DataTypeOK'
    BY <1>10 DEF TypeOK, DataTypeOK, RecvClosed
  <2>2. RefsTypeOK'
    BY <1>10 DEF TypeOK, RefsTypeOK, RecvClosed
  <2>3. ThreadTypeOK'
    <3>1. r \in Refs /\ now \in Nat /\ Main \in Threads
      BY DEF TypeOK, DataTypeOK, RefsTypeOK
    <3>2. Goto(Main, "test") /\ ref' = [ref EXCEPT ![Main] = r]
      BY <1>10 DEF RecvClosed
    <3>3. since' \in [Threads -> Nat] /\ UNCHANGED tested
      BY <1>10, <3>1 DEF RecvClosed, TypeOK, ThreadTypeOK
    <3>4. QED BY <3>1, <3>2, <3>3, BeginType DEF TypeOK
  <2>4. QED BY <2>1, <2>2, <2>3 DEF TypeOK
<1>11. ASSUME TimerScan PROVE TypeOK'
  <2>1. DataTypeOK'
    BY <1>11 DEF TypeOK, DataTypeOK, TimerScan
  <2>2. RefsTypeOK'
    BY <1>11 DEF TypeOK, RefsTypeOK, TimerScan
  <2>3. ThreadTypeOK'
    BY <1>11 DEF TypeOK, ThreadTypeOK, TimerScan
  <2>4. QED BY <2>1, <2>2, <2>3 DEF TypeOK
<1>12. ASSUME NEW r \in idleList, TimerKick(r) PROVE TypeOK'
  <2>1. DataTypeOK'
    BY <1>12 DEF TypeOK, DataTypeOK, TimerKick, Current
  <2>2. RefsTypeOK'
    BY <1>12 DEF TypeOK, RefsTypeOK, TimerKick, Current
  <2>3. ThreadTypeOK'
    <3>1. r \in Refs /\ now \in Nat /\ Timer \in Threads
      BY DEF TypeOK, DataTypeOK, RefsTypeOK
    <3>2. Goto(Timer, "test") /\ ref' = [ref EXCEPT ![Timer] = r]
      BY <1>12 DEF TimerKick
    <3>3. since' \in [Threads -> Nat] /\ UNCHANGED tested
      BY <1>12, <3>1 DEF TimerKick, TypeOK, ThreadTypeOK
    <3>4. QED BY <3>1, <3>2, <3>3, BeginType DEF TypeOK
  <2>4. QED BY <2>1, <2>2, <2>3 DEF TypeOK
<1>13. ASSUME NEW r \in idleList, TimerSkip(r) PROVE TypeOK'
  <2>1. DataTypeOK'
    BY <1>13 DEF TypeOK, DataTypeOK, TimerSkip
  <2>2. RefsTypeOK'
    BY <1>13 DEF TypeOK, RefsTypeOK, TimerSkip
  <2>3. ThreadTypeOK'
    BY <1>13 DEF TypeOK, ThreadTypeOK, TimerSkip
  <2>4. QED BY <2>1, <2>2, <2>3 DEF TypeOK
<1>14. ASSUME NEW t \in Workers, FinishMessage(t) PROVE TypeOK'
  <2>1. DataTypeOK'
    BY <1>14 DEF TypeOK, DataTypeOK, FinishMessage, Return
  <2>2. RefsTypeOK'
    BY <1>14 DEF TypeOK, RefsTypeOK, FinishMessage, Return
  <2>3. ThreadTypeOK'
    BY <1>14, ReturnType DEF TypeOK, FinishMessage
  <2>4. QED BY <2>1, <2>2, <2>3 DEF TypeOK
<1>15. ASSUME NEW t \in Workers, Overflow(t) PROVE TypeOK'
  <2>1. DataTypeOK'
    BY <1>15 DEF TypeOK, DataTypeOK, Overflow
  <2>2. RefsTypeOK'
    BY <1>15 DEF TypeOK, RefsTypeOK, Overflow
  <2>3. ThreadTypeOK'
    BY <1>15 DEF TypeOK, ThreadTypeOK, Overflow
  <2>4. QED BY <2>1, <2>2, <2>3 DEF TypeOK
<1>16. ASSUME NEW t \in Workers, NEW m \in msgs, StartMessage(t, m) PROVE TypeOK'
  <2>1. DataTypeOK'
    BY <1>16 DEF TypeOK, DataTypeOK, StartMessage, Current
  <2>2. RefsTypeOK'
    BY <1>16 DEF TypeOK, RefsTypeOK, StartMessage, Current
  <2>3. ThreadTypeOK'
    <3>1. m \in Refs /\ now \in Nat /\ t \in Threads
      BY DEF TypeOK, DataTypeOK, RefsTypeOK
    <3>2. Goto(t, "handler") /\ ref' = [ref EXCEPT ![t] = m]
      BY <1>16 DEF StartMessage
    <3>3. since' \in [Threads -> Nat] /\ UNCHANGED tested
      BY <1>16, <3>1 DEF StartMessage, TypeOK, ThreadTypeOK
    <3>4. QED BY <3>1, <3>2, <3>3, BeginType DEF TypeOK
  <2>4. QED BY <2>1, <2>2, <2>3 DEF TypeOK
<1>17. ASSUME NEW t \in Workers, NEW m \in msgs, DropMessage(t, m) PROVE TypeOK'
  <2>1. DataTypeOK'
    BY <1>17 DEF TypeOK, DataTypeOK, DropMessage
  <2>2. RefsTypeOK'
    BY <1>17 DEF TypeOK, RefsTypeOK, DropMessage
  <2>3. ThreadTypeOK'
    BY <1>17 DEF TypeOK, ThreadTypeOK, DropMessage
  <2>4. QED BY <2>1, <2>2, <2>3 DEF TypeOK
<1>18. ASSUME NEW t \in Threads, TestFd(t) PROVE TypeOK'
  <2>1. DataTypeOK'
   BY <1>18 DEF TypeOK, DataTypeOK, TestFd
  <2>2. RefsTypeOK'
   BY <1>18 DEF TypeOK, RefsTypeOK, TestFd
  <2>3. ThreadTypeOK'
   <3>1. fd[ref[t].conn] \in Fds \cup {NoFd} BY <1>0, <1>18 DEF TypeOK, DataTypeOK, TestFd
   <3>2. tested' \in [Threads -> Fds \cup {NoFd}]
     BY <1>18, <3>1 DEF TypeOK, ThreadTypeOK, TestFd
   <3>3. \E p \in {"retire", "close"} : Goto(t, p)
     BY <1>18 DEF TestFd
   <3>4. QED BY <1>18, <3>2, <3>3, GotoType DEF TypeOK, TestFd
  <2>4. QED BY <2>1, <2>2, <2>3 DEF TypeOK
<1>19. ASSUME NEW t \in Threads, ClearFd(t) PROVE TypeOK'
  <2>1. DataTypeOK'
    BY <1>19 DEF TypeOK, DataTypeOK, ClearFd
  <2>2. RefsTypeOK'
    BY <1>19 DEF TypeOK, RefsTypeOK, ClearFd
  <2>3. ThreadTypeOK'
    BY <1>19 DEF TypeOK, ThreadTypeOK, ClearFd
  <2>4. QED BY <2>1, <2>2, <2>3 DEF TypeOK
<1>20. ASSUME ReadClock PROVE TypeOK'
  <2>1. DataTypeOK'
    BY <1>20 DEF TypeOK, DataTypeOK, ReadClock
  <2>2. RefsTypeOK'
    BY <1>20 DEF TypeOK, RefsTypeOK, ReadClock
  <2>3. ThreadTypeOK'
    BY <1>20 DEF TypeOK, ThreadTypeOK, ReadClock
  <2>4. QED BY <2>1, <2>2, <2>3 DEF TypeOK
<1>21. ASSUME StartPass PROVE TypeOK'
  <2>1. DataTypeOK'
    BY <1>21 DEF TypeOK, DataTypeOK, StartPass
  <2>2. RefsTypeOK'
    BY <1>21 DEF TypeOK, RefsTypeOK, StartPass
  <2>3. ThreadTypeOK'
    BY <1>21 DEF TypeOK, ThreadTypeOK, StartPass
  <2>4. QED BY <2>1, <2>2, <2>3 DEF TypeOK
<1>22. ASSUME EndPass PROVE TypeOK'
  <2>1. DataTypeOK'
    BY <1>22 DEF TypeOK, DataTypeOK, EndPass
  <2>2. RefsTypeOK'
    BY <1>22 DEF TypeOK, RefsTypeOK, EndPass
  <2>3. ThreadTypeOK'
    BY <1>22 DEF TypeOK, ThreadTypeOK, EndPass
  <2>4. QED BY <2>1, <2>2, <2>3 DEF TypeOK
<1>23. ASSUME Tick PROVE TypeOK'
  <2>1. DataTypeOK'
   BY <1>23 DEF TypeOK, DataTypeOK, Tick
  <2>2. RefsTypeOK'
   BY <1>23 DEF TypeOK, RefsTypeOK, Tick
  <2>3. ThreadTypeOK'
   BY <1>23 DEF TypeOK, ThreadTypeOK, Tick
  <2>4. QED BY <2>1, <2>2, <2>3 DEF TypeOK
<1>24. ASSUME UNCHANGED vars PROVE TypeOK'
  <2>1. DataTypeOK'
    BY <1>24 DEF TypeOK, DataTypeOK, vars
  <2>2. RefsTypeOK'
    BY <1>24 DEF TypeOK, RefsTypeOK, vars
  <2>3. ThreadTypeOK'
    BY <1>24 DEF TypeOK, ThreadTypeOK, vars
  <2>4. QED BY <2>1, <2>2, <2>3 DEF TypeOK
<1>25. ASSUME NEW r \in events, Admit(r) PROVE TypeOK'
  <2>1. PICK f \in Fds, c \in Conns :
          /\ GetConnection(c, f) /\ sock' = [sock EXCEPT ![f] = c]
          /\ Turn([conn |-> c, seq |-> seq[c] + 1], "arm")
    BY <1>25 DEF Admit
  <2>2. freeList' \in Seq(Conns) /\ pool' \in SUBSET Conns
    <3>1. freeList \in Seq(Conns) /\ pool \in SUBSET Conns BY DEF TypeOK, DataTypeOK
    <3>2. QED BY <2>1, <3>1 DEF GetConnection
  <2>3. seq[c] \in Nat /\ seq' = [seq EXCEPT ![c] = seq[c] + 1] /\ fd' = [fd EXCEPT ![c] = f]
    BY <2>1 DEF GetConnection, Hand, TypeOK, DataTypeOK
  <2>4. seq' \in [Conns -> Nat] /\ fd' \in [Conns -> Fds \cup {NoFd}]
    BY <2>3 DEF TypeOK, DataTypeOK
  <2>5. clients' \in Nat /\ sock' \in [Fds -> Conns \cup {NoConn}]
    BY <1>25, <2>1 DEF Admit, TypeOK, DataTypeOK
  <2>6. DataTypeOK' BY <1>25, <2>2, <2>4, <2>5 DEF Admit, TypeOK, DataTypeOK
  <2>7. RefsTypeOK' BY <1>25, <2>1 DEF Admit, TypeOK, RefsTypeOK
  <2>8. [conn |-> c, seq |-> seq[c] + 1] \in Refs BY <2>3
  <2>9. ThreadTypeOK' BY <2>1, <2>8, BeginType DEF TypeOK, ThreadTypeOK
  <2>10. QED BY <2>6, <2>7, <2>9 DEF TypeOK
<1>26. ASSUME ArmFails PROVE TypeOK'
  <2> DEFINE c == ref[Main].conn
  <2>1. c \in Conns /\ FreeConnection(c) /\ CloseFd(fd[c]) /\ fd' = [fd EXCEPT ![c] = NoFd]
    BY <1>0, <1>26 DEF ArmFails
  <2>2. sock' \in [Fds -> Conns \cup {NoConn}] /\ armed' \in SUBSET Fds
    BY <2>1 DEF CloseFd, TypeOK, DataTypeOK
  <2>3. fd' \in [Conns -> Fds \cup {NoFd}] BY <2>1 DEF TypeOK, DataTypeOK
  <2>4. DataTypeOK' BY <1>26, <2>1, <2>2, <2>3, FreeType DEF ArmFails, TypeOK, DataTypeOK
  <2>5. RefsTypeOK' BY <1>26 DEF ArmFails, TypeOK, RefsTypeOK
  <2>6. ThreadTypeOK' BY <1>26, ReturnType DEF ArmFails, TypeOK
  <2>7. QED BY <2>4, <2>5, <2>6 DEF TypeOK
<1>27. ASSUME NEW t \in Threads, CloseSocket(t) PROVE TypeOK'
  <2>1. PICK f \in {tested[t], fd[ref[t].conn]} : CloseFd(f) BY <1>27 DEF CloseSocket
  <2>2. sock' \in [Fds -> Conns \cup {NoConn}] /\ armed' \in SUBSET Fds
    BY <2>1 DEF TypeOK, DataTypeOK, CloseFd
  <2>3. DataTypeOK' BY <1>27, <2>2 DEF TypeOK, DataTypeOK, CloseSocket
  <2>4. RefsTypeOK' BY <1>27 DEF CloseSocket, TypeOK, RefsTypeOK
  <2>5. ThreadTypeOK' BY <1>27 DEF TypeOK, ThreadTypeOK, CloseSocket
  <2>6. QED BY <2>3, <2>4, <2>5 DEF TypeOK
<1>28. ASSUME NEW t \in Threads, Retire(t) PROVE TypeOK'
  <2> DEFINE c == ref[t].conn
  <2>1. c \in Conns /\ InRecyConnectQueue(c) BY <1>0, <1>28 DEF Retire
  <2>2. /\ seq \in [Conns -> Nat] /\ inRecyTime \in [Conns -> Nat] /\ now \in Nat
        /\ recyList \in SUBSET Conns /\ online \in Int /\ seq[c] + 1 \in Nat
    BY <2>1 DEF TypeOK, DataTypeOK
  <2>3. /\ seq' \in [Conns -> Nat] /\ inRecyTime' \in [Conns -> Nat]
        /\ recyList' \in SUBSET Conns /\ online' \in Int
    <3>1. CASE Queued(c) BY <2>1, <2>2, <3>1 DEF InRecyConnectQueue
    <3>2. CASE ~Queued(c)
      <4>1. /\ seq' = [seq EXCEPT ![c] = seq[c] + 1]
            /\ inRecyTime' = [inRecyTime EXCEPT ![c] = now]
            /\ recyList' = recyList \cup {c} /\ online' = online - 1
        BY <2>1, <3>2 DEF InRecyConnectQueue, RetireBump
      <4>2. QED BY <2>1, <2>2, <4>1
    <3>3. QED BY <3>1, <3>2
  <2>4. DataTypeOK' BY <1>28, <2>3 DEF Retire, TypeOK, DataTypeOK
  <2>5. RefsTypeOK' BY <1>28 DEF Retire, TypeOK, RefsTypeOK
  <2>6. ThreadTypeOK' BY <1>28, ReturnType DEF Retire, TypeOK
  <2>7. QED BY <2>4, <2>5, <2>6 DEF TypeOK
<1>29. ASSUME NEW c \in recyList, Recycle(c) PROVE TypeOK'
  <2>1. c \in Conns BY DEF TypeOK, DataTypeOK
  <2>2. inRecyTime' \in [Conns -> Nat] BY <1>29 DEF Recycle, TypeOK, DataTypeOK
  <2>3. DataTypeOK' BY <1>29, <2>1, <2>2, FreeType DEF Recycle, TypeOK, DataTypeOK
  <2>4. RefsTypeOK' BY <1>29 DEF Recycle, TypeOK, RefsTypeOK
  <2>5. ThreadTypeOK' BY <1>29 DEF Recycle, TypeOK, ThreadTypeOK
  <2>6. QED BY <2>3, <2>4, <2>5 DEF TypeOK
<1>30. QED
  BY <1>1, <1>2, <1>3, <1>4, <1>5, <1>6, <1>7, <1>8, <1>9, <1>10, <1>11, <1>12, <1>13, <1>14, <1>15, <1>16, <1>17, <1>18, <1>19, <1>20, <1>21, <1>22, <1>23, <1>24, <1>25, <1>26, <1>27, <1>28, <1>29
  DEF Next, MainStep, TimerStep, WorkerStep, CloseStep, RecyStep

-----------------------------------------------------------------------------
(* The steps that move a connection, one lemma each.                       *)

(* Main takes a connection out of the free list for a new client.         *)
LEMMA AdmitIInv ==
  ASSUME IInv, TypeOK', Watched', NEW r \in events, Admit(r)  PROVE IInv'
<1> USE PoolAssumption, ThreadAssumption, NumberAssumption, DelayAssumption
<1> USE DEF IInv, Goto, Begin, Turn, Skip, Threads, NoFd, Refs, ClosePCs,
          poolVars, connVars, kernVars, refVars, msgVars, thrVars, recyVars
<1>1. PICK f \in Fds, c \in Conns :
        /\ LowestFd(f) /\ GetConnection(c, f) /\ sock' = [sock EXCEPT ![f] = c]
        /\ Turn([conn |-> c, seq |-> seq[c] + 1], "arm")
  BY DEF Admit
<1> DEFINE new == [conn |-> c, seq |-> seq[c] + 1]
<1>2. pc[Main] = "idle" /\ UNCHANGED <<recyList, online, inRecyTime, armed, refVars, now, recyVars>>
      /\ clients' = clients + 1
  BY DEF Admit
<1>3. /\ c \notin InUse /\ c \notin recyList /\ c \notin Listeners /\ Placed'
      /\ InUse' = InUse \cup {c} /\ freeList' \in Seq(Conns) /\ pool' \subseteq Conns /\ pool \subseteq pool'
      /\ c \in Free \/ c \notin pool
  <2>1. CASE freeList # <<>> /\ c = Head(freeList) /\ freeList' = Tail(freeList) /\ UNCHANGED pool
    <3>1. freeList \in Seq(Conns) /\ IsInjective(freeList) BY DEF TypeOK, DataTypeOK, Placed
    <3>2. /\ freeList' \in Seq(Conns) /\ IsInjective(freeList')
          /\ Free' = Free \ {c}
      BY <2>1, <3>1, TailOfFree DEF Free
    <3>3. c \in Free
      <4>1. c = freeList[1] /\ 1 \in DOMAIN freeList BY <2>1, <3>1
      <4>2. QED BY <4>1 DEF Free, ToSet
    <3>4. QED BY SMTT(30), <1>2, <2>1, <3>2, <3>3 DEF Placed, InUse, TypeOK, DataTypeOK
  <2>2. CASE freeList = <<>> /\ c \in Conns \ pool /\ pool' = pool \cup {c} /\ UNCHANGED freeList
    <3>1. Free' = Free BY <2>2 DEF Free
    <3>2. QED BY <1>2, <2>2, <3>1 DEF Placed, InUse, TypeOK, DataTypeOK
  <2>3. QED BY <1>1, <2>1, <2>2 DEF GetConnection
<1>4. /\ seq \in [Conns -> Nat] /\ seq' \in [Conns -> Nat]
      /\ fd' \in [Conns -> Fds \cup {NoFd}]
      /\ \A d \in Conns : /\ seq'[d] = IF d = c THEN seq[c] + 1 ELSE seq[d]
                          /\ fd'[d] = IF d = c THEN f ELSE fd[d]
  BY SMTT(30), <1>1 DEF GetConnection, Hand, TypeOK, DataTypeOK
<1>5. /\ sock' \in [Fds -> Conns \cup {NoConn}] /\ sock[f] = NoConn
      /\ \A g \in Fds : sock'[g] = IF g = f THEN c ELSE sock[g]
  BY <1>1 DEF LowestFd, TypeOK, DataTypeOK
<1>6. /\ events' \subseteq events /\ since' = since /\ tested' = tested
      /\ \A u \in Threads : /\ pc'[u] = IF u = Main THEN "arm" ELSE pc[u]
                            /\ ref'[u] = IF u = Main THEN new ELSE ref[u]
  BY <1>1 DEF Turn, Goto, TypeOK, ThreadTypeOK
<1>7. new \in Refs /\ new.conn = c /\ new.seq = seq'[c]
  BY <1>4 DEF Refs
<1>9. Clocks'
  <2>1. \A u \in Threads : Busy(u)' => Busy(u) BY <1>6 DEF Busy
  <2>2. QED BY <1>2, <1>6, <2>1 DEF Clocks, Busy
<1>10. \A u \in Threads, x \in Refs : HeldOK(u, x) => x.conn # c /\ HeldOK(u, x)'
  BY ZenonT(40), <1>2, <1>3, <1>4, <1>6 DEF HeldOK, Refs
<1>11. JobsOK'
  <2>1. c \in InUse' /\ new.conn = c /\ seq'[c] = new.seq
    BY <1>3, <1>7
  <2>2. ASSUME NEW u \in Threads, pc'[u] # "idle", ~Uncovered(u)' PROVE HeldOK(u, ref[u])'
    <3>1. CASE u = Main
      <4>1. ref'[u] = new BY <3>1, <1>6
      <4>2. QED BY <2>1, <4>1 DEF HeldOK
    <3>2. CASE u # Main
      <4>1. pc[u] # "idle" /\ ref'[u] = ref[u] /\ ref[u] \in Refs
        BY <3>2, <2>2, <1>6, WorkRefs
      <4>2. HeldOK(u, ref[u]) BY <3>2, <4>1, <2>2, <1>2, <1>6 DEF JobsOK, Uncovered
      <4>3. QED BY <4>1, <4>2, <1>10 DEF HeldOK
    <3>3. QED BY <3>1, <3>2
  <2>3. QED BY <2>2 DEF JobsOK
<1>12. EventsOK'
  <2>1. \A x \in events : x \in Refs BY DEF TypeOK, RefsTypeOK
  <2>2. \A x \in events : x.conn \in Listeners => seq'[x.conn] = seq[x.conn]
    BY <1>3, <1>4, <2>1
  <2>3. QED BY <1>6, <1>10, <2>1, <2>2 DEF EventsOK
<1>13. Waiting' = Waiting BY <1>2 DEF Waiting
<1>14. \A x \in Waiting : x.conn \in Conns /\ x.seq \in Nat BY DEF Waiting, TypeOK, RefsTypeOK
<1>15. WaitingOK'
  <2>1. ASSUME NEW x \in Waiting
        PROVE  (x.conn \in pool /\ x.seq <= seq[x.conn] /\ (Current(x) => LiveOrMisread(x)))'
    BY <1>2, <1>3, <1>4, <1>14 DEF WaitingOK, Current, LiveOrMisread
  <2>2. QED BY <1>13, <2>1 DEF WaitingOK
<1>19. TimersOK'
  BY <1>2, <1>3, <1>4, <1>14 DEF TimersOK, WaitingOK, Waiting, Current
<1>16. SocketsOK'
  <2>1. \A g \in Fds : sock[g] # c
    BY <1>3 DEF SocketsOK
  <2>2. \A u \in Threads : pc'[u] \in ClosePCs => u # Main /\ ref[u].conn \in Conns /\ ref[u].conn # c
    BY WorkRefs, <1>6, <1>10 DEF JobsOK, Uncovered
  <2>4. \A e \in Conns \ InUse' : fd'[e] = NoFd
    BY <1>3, <1>4 DEF SocketsOK
  <2>5. ASSUME NEW g \in Fds, sock'[g] # NoConn PROVE fd'[sock'[g]] = g
    <3>1. CASE g = f BY <3>1, <1>4, <1>5
    <3>2. CASE g # f
      <4>1. sock'[g] = sock[g] /\ sock[g] # c /\ sock[g] \in Conns
        BY <3>2, <2>1, <2>5, <1>5 DEF TypeOK, DataTypeOK
      <4>2. QED BY <4>1, <2>5, <1>4 DEF SocketsOK
    <3>3. QED BY <3>1, <3>2
  <2>7. \A u \in Threads : pc'[u] \in ClosePCs =>
          /\ pc[u] = pc'[u] /\ ref'[u] = ref[u] /\ tested'[u] = tested[u]
          /\ fd'[ref'[u].conn] = fd[ref[u].conn]
    BY <1>4, <1>6, <2>2
  <2>8. \A u \in Threads : pc'[u] = "close" =>
          tested'[u] \in Fds /\ fd'[ref'[u].conn] \in {tested'[u], NoFd}
    BY <2>7 DEF SocketsOK
  <2>9. \A u \in Threads : pc'[u] = "clear" => \A g \in Fds : sock'[g] # ref'[u].conn
    BY <1>5, <2>2, <2>7 DEF SocketsOK
  <2>10. \A u \in Threads : pc'[u] = "retire" => fd'[ref'[u].conn] = NoFd
    BY <2>7 DEF SocketsOK
  <2>11. QED BY <2>4, <2>5, <2>8, <2>9, <2>10 DEF SocketsOK
<1>17. MainOK'
  <2>1. \A u \in Threads \ {Main} : pc'[u] # "idle" => ref'[u].conn # c \/ Uncovered(u)'
    BY WorkRefs, <1>2, <1>6, <1>10 DEF JobsOK, Uncovered
  <2>2. \A x \in events : x \in Refs /\ x.conn # c
    BY <1>3, <1>10 DEF EventsOK, TypeOK, RefsTypeOK
  <2>3. \A x \in Waiting : x.conn = c => x.seq < seq'[c]
    BY <1>3, <1>4, <1>14 DEF WaitingOK, Current
  <2>4. \A g \in armed : sock'[g] # c
    <3>1. fd[c] = NoFd BY <1>3 DEF SocketsOK
    <3>2. ASSUME NEW g \in armed PROVE sock'[g] # c
      <4>1. g \in Fds /\ sock[g] # NoConn BY DEF Watched, TypeOK, DataTypeOK
      <4>2. g # f /\ fd[sock[g]] = g /\ g # NoFd BY <4>1, <1>5, PoolAssumption DEF SocketsOK
      <4>3. QED BY <3>1, <4>1, <4>2, <1>5
    <3>3. QED BY <3>2
  <2>5. QED BY <1>2, <1>3, <1>4, <1>6, <1>7, <1>13, <2>1, <2>2, <2>3, <2>4 DEF MainOK
<1>18. QED BY <1>3, <1>9, <1>11, <1>12, <1>15, <1>16, <1>17, <1>19

(* Main gives the connection back at once, when nobody else knows it.      *)
LEMMA ArmFailsIInv ==
  ASSUME IInv, TypeOK', Watched', ArmFails  PROVE IInv'
<1> USE PoolAssumption, ThreadAssumption, NumberAssumption, DelayAssumption
<1> USE DEF IInv, Goto, Begin, Turn, Skip, Threads, NoFd, Refs, ClosePCs,
          poolVars, connVars, kernVars, refVars, msgVars, thrVars, recyVars
<1> DEFINE c == ref[Main].conn
<1>1. /\ pc[Main] = "arm" /\ FreeConnection(c) /\ CloseFd(fd[c])
      /\ fd' = [fd EXCEPT ![c] = NoFd] /\ Return(Main)
      /\ UNCHANGED <<pool, recyList, online, inRecyTime, clients, refVars, events,
               now, recyVars>>
  BY DEF ArmFails
<1>2. c \in Conns /\ c \in InUse BY <1>1, WorkRefs DEF MainOK
<1>3. /\ freeList' \in Seq(Conns) /\ Free' = Free \cup {c} /\ IsInjective(freeList')
      /\ seq' \in [Conns -> Nat] /\ seq'[c] = seq[c] + 1
      /\ \A d \in Conns \ {c} : seq'[d] = seq[d]
  BY FreeEffect, <1>1, <1>2
<1>4. InUse' = InUse \ {c}
  BY <1>1, <1>3 DEF InUse
<1>5. Placed'
  BY <1>1, <1>2, <1>3 DEF Placed, InUse
<1>8. \A u \in Threads : /\ pc'[u] = IF u = Main THEN "idle" ELSE pc[u]
                         /\ ref'[u] = IF u = Main THEN NoRef ELSE ref[u]
                         /\ tested'[u] = IF u = Main THEN NoFd ELSE tested[u]
                         /\ since'[u] = IF u = Main /\ events = {} THEN 0 ELSE since[u]
  BY <1>1 DEF Return, Goto, TypeOK, ThreadTypeOK
<1>9. Clocks'
  <2>1. \A u \in Threads : Busy(u)' => Busy(u) /\ since'[u] = since[u]
    BY <1>1, <1>8 DEF Busy
  <2>2. UNCHANGED <<now, currtime, rpc, inRecyTime>> BY <1>1
  <2>3. \A u \in Threads : since'[u] <= now
    BY <1>8 DEF Clocks, TypeOK, DataTypeOK, ThreadTypeOK
  <2>4. QED BY <2>1, <2>2, <2>3 DEF Clocks
<1>10. JobsOK'
  <2>1. ASSUME NEW u \in Threads, pc'[u] # "idle", ~Uncovered(u)' PROVE HeldOK(u, ref[u])'
    <3>1. u # Main /\ pc[u] # "idle" /\ ref'[u] = ref[u] /\ since'[u] = since[u]
      BY <2>1, <1>8
    <3>4. ~Uncovered(u) BY <1>1, <1>8, <2>1, <3>1 DEF Uncovered
    <3>2. ref[u].conn # c /\ ref[u].conn \in Conns
      BY <3>1, <3>4, <1>1, WorkRefs DEF MainOK
    <3>3. QED BY <3>1, <3>2, <3>4, <1>1, <1>3, <1>4 DEF JobsOK, HeldOK
  <2>2. QED BY <2>1 DEF JobsOK
<1>11. EventsOK'
  <2>1. ASSUME NEW r \in events PROVE (HeldOK(Main, r) \/ (r.conn \in Listeners /\ seq[r.conn] = r.seq))'
    <3>1. r.conn # c /\ r.conn \in Conns
      BY <1>1 DEF MainOK, TypeOK, RefsTypeOK
    <3>2. since'[Main] = since[Main] BY <1>8, <2>1
    <3>3. QED BY <3>1, <3>2, <1>1, <1>3, <1>4 DEF EventsOK, HeldOK
  <2>2. QED BY <2>1, <1>1 DEF EventsOK
<1>12. WaitingOK'
  <2>1. Waiting' = Waiting BY <1>1 DEF Waiting
  <2>2. \A r \in Waiting : r.conn \in Conns /\ r.seq \in Nat BY DEF Waiting, TypeOK, RefsTypeOK
  <2>3. \A r \in Waiting : r.conn = c => r.seq < seq[c] BY <1>1 DEF MainOK
  <2>4. seq[c] \in Nat BY <1>2 DEF TypeOK, DataTypeOK
  <2>5. ASSUME NEW r \in Waiting
        PROVE  (r.conn \in pool /\ r.seq <= seq[r.conn] /\ (Current(r) => LiveOrMisread(r)))'
    <3>1. CASE r.conn = c
      BY SMTT(30), <3>1, <2>2, <2>3, <2>4, <2>5, <1>1, <1>3 DEF WaitingOK, Current, LiveOrMisread
    <3>2. CASE r.conn # c
      BY <3>2, <2>2, <2>5, <1>1, <1>3, <1>4 DEF WaitingOK, Current, LiveOrMisread
    <3>3. QED BY <3>1, <3>2
  <2>6. QED BY <2>1, <2>5 DEF WaitingOK
<1>16. TimersOK'
  <2>1. \A r \in timerQ \cup idleList :
          r.conn \in Conns /\ r.seq \in Nat /\ (r.conn = c => r.seq < seq[c])
    BY <1>1 DEF TypeOK, RefsTypeOK, MainOK, Waiting
  <2>2. seq[c] \in Nat BY <1>2 DEF TypeOK, DataTypeOK
  <2>3. QED BY <1>1, <1>3, <1>4, <2>1, <2>2 DEF TimersOK, Current
<1>13. SocketsOK'
  <2>a. /\ sock \in [Fds -> Conns \cup {NoConn}] /\ fd[c] \in Fds /\ NoConn \notin Conns
        /\ sock' = [sock EXCEPT ![fd[c]] = NoConn]
    BY <1>1, <1>2 DEF CloseFd, TypeOK, DataTypeOK, MainOK
  <2>b. \A g \in Fds : sock[g] # NoConn => fd[sock[g]] = g BY DEF SocketsOK
  <2>1. \A g \in Fds : sock'[g] # NoConn => sock'[g] = sock[g] /\ sock[g] # c /\ sock[g] \in Conns
    <3>1. ASSUME NEW g \in Fds, sock'[g] # NoConn
          PROVE  sock'[g] = sock[g] /\ sock[g] # c /\ sock[g] \in Conns
      <4>1. g # fd[c] BY <2>a, <3>1
      <4>2. sock'[g] = sock[g] BY <2>a, <4>1
      <4>3. QED BY <2>a, <2>b, <3>1, <4>1, <4>2
    <3>2. QED BY <3>1
  <2>3. \A d \in Conns : fd'[d] = IF d = c THEN NoFd ELSE fd[d]
    BY <1>1, <1>2 DEF TypeOK, DataTypeOK
  <2>4. \A u \in Threads : pc'[u] # "idle" => ref'[u] = ref[u] /\ ref[u].conn \in Conns
    BY <1>8, WorkRefs
  <2>5. /\ \A e \in Conns \ InUse' : fd'[e] = NoFd
        /\ \A f \in Fds : sock'[f] # NoConn => fd'[sock'[f]] = f
    BY <1>4, <2>1, <2>3 DEF SocketsOK
  <2>6. \A t \in Threads : pc'[t] = "close" =>
         tested'[t] \in Fds /\ fd'[ref'[t].conn] \in {tested'[t], NoFd}
    BY <1>8, <2>3, <2>4 DEF SocketsOK
  <2>7. \A t \in Threads : pc'[t] = "clear" => \A f \in Fds : sock'[f] # ref'[t].conn
    BY <1>8, <2>1, <2>4, PoolAssumption DEF SocketsOK
  <2>8. \A t \in Threads : pc'[t] = "retire" => fd'[ref'[t].conn] = NoFd
    BY <1>8, <2>3, <2>4 DEF SocketsOK
  <2>9. QED BY <2>5, <2>6, <2>7, <2>8 DEF SocketsOK
<1>14. MainOK'
  BY <1>8 DEF MainOK
<1>15. QED BY <1>5, <1>9, <1>10, <1>11, <1>12, <1>13, <1>14, <1>16

(* The number that is closed is the connection's own, or nobody's.         *)
LEMMA CloseSocketIInv ==
  ASSUME IInv, TypeOK', Watched', NEW t \in Threads, CloseSocket(t)  PROVE IInv'
<1> USE PoolAssumption, ThreadAssumption, NumberAssumption, DelayAssumption
<1> USE DEF IInv, Goto, Begin, Turn, Skip, Threads, NoFd, Refs, ClosePCs,
          poolVars, connVars, kernVars, refVars, msgVars, thrVars, recyVars
<1>0. PICK f \in {tested[t], fd[ref[t].conn]} : CloseFd(f) BY DEF CloseSocket
<1>2. InUse' = InUse
  BY DEF InUse, Free, CloseSocket
<1>3. \A g \in Fds : sock'[g] # NoConn => sock'[g] = sock[g] /\ g # f
  BY <1>0 DEF CloseFd, TypeOK, DataTypeOK
<1>4. sock' \in [Fds -> Conns \cup {NoConn}] /\ armed' \subseteq armed
   BY <1>0 DEF TypeOK, DataTypeOK, CloseFd
<1>5. \A g \in Fds : sock'[g] # ref[t].conn
   <2>1. ref[t].conn \in Conns BY WorkRefs DEF CloseSocket
   <2>2. f = tested[t] \/ f = NoFd
     BY <1>0 DEF CloseSocket, SocketsOK
   <2>3. ASSUME NEW g \in Fds, sock'[g] = ref[t].conn PROVE FALSE
     <3>1. sock[g] = ref[t].conn /\ g # f BY <1>3, <2>1, <2>3
     <3>2. fd[ref[t].conn] = g BY <3>1, <2>1 DEF SocketsOK
     <3>3. g = tested[t] /\ fd[ref[t].conn] # NoFd BY <3>2 DEF CloseSocket, SocketsOK
     <3>4. QED BY <3>1, <3>2, <3>3, <1>0 DEF CloseSocket
   <2>4. QED BY <2>3
<1>7. SocketsOK'
  <2>1. UNCHANGED <<fd, ref, tested>> BY DEF CloseSocket
  <2>2. \A u \in Threads : pc'[u] = IF u = t THEN "clear" ELSE pc[u]
    BY DEF CloseSocket, TypeOK, ThreadTypeOK
  <2>4. \A u \in Threads : pc'[u] = "clear" => \A g \in Fds : sock'[g] # ref'[u].conn
    <3>1. ASSUME NEW u \in Threads, pc'[u] = "clear", NEW g \in Fds, sock'[g] = ref'[u].conn
          PROVE FALSE
      <4>1. u # t /\ pc[u] = "clear" BY <3>1, <1>5, <2>1, <2>2
      <4>2. ref[u].conn \in Conns BY <4>1, WorkRefs
      <4>3. sock[g] = ref[u].conn BY <3>1, <4>2, <1>3, <2>1
      <4>4. QED BY <4>1, <4>3 DEF SocketsOK
    <3>2. QED BY <3>1
  <2>5. \A g \in Fds : sock'[g] # NoConn => fd'[sock'[g]] = g
    BY <1>3, <2>1 DEF SocketsOK
  <2>6. QED BY <1>2, <1>5, <2>1, <2>2, <2>4, <2>5 DEF SocketsOK, CloseSocket
<1>8. MainOK'
  <2>2. \A u \in Threads : pc'[u] = IF u = t THEN "clear" ELSE pc[u]
    BY DEF CloseSocket, TypeOK, ThreadTypeOK
  <2>3. ASSUME pc'[Main] = "arm", NEW g \in armed', sock'[g] = ref[Main].conn PROVE FALSE
    <3>1. pc[Main] = "arm" BY <2>2, <2>3
    <3>2. ref[Main].conn \in Conns BY WorkRefs, <3>1
    <3>3. g \in armed /\ g \in Fds BY <1>4, <2>3 DEF TypeOK, DataTypeOK
    <3>4. sock[g] = ref[Main].conn BY <1>3, <3>2, <3>3, <2>3
    <3>5. QED BY <3>1, <3>3, <3>4 DEF MainOK
  <2>4. UNCHANGED <<fd, ref, seq, events, Waiting>>
     BY DEF CloseSocket, Waiting
  <2>5. (t # Main /\ pc'[Main] = pc[Main]) \/ pc'[Main] = "clear"
     BY <2>2
  <2>6. CASE pc'[Main] = "arm"
    <3>1. \A u \in Threads : /\ pc'[u] # "idle" => pc[u] # "idle"
                             /\ Uncovered(u) => Uncovered(u)'
      BY <2>2 DEF CloseSocket, Uncovered
    <3>2. QED BY <1>2, <2>2, <2>3, <2>4, <2>5, <2>6, <3>1 DEF MainOK
  <2>7. CASE pc'[Main] # "arm" BY <1>2, <2>2, <2>4, <2>5, <2>7 DEF MainOK
  <2>8. QED BY <2>6, <2>7
<1>10. Placed' BY DEF CloseSocket, Placed, Free
<1>12. Clocks'
  <2>1. \A u \in Threads : Busy(u)' => Busy(u)
    BY DEF CloseSocket, Busy
  <2>2. QED BY <2>1 DEF CloseSocket, Clocks
<1>13. JobsOK'
  <2>1. \A u \in Threads : /\ pc'[u] # "idle" => pc[u] # "idle"
                           /\ Uncovered(u) => Uncovered(u)'
    BY DEF CloseSocket, Uncovered, TypeOK, ThreadTypeOK
  <2>2. QED BY <1>2, <2>1 DEF CloseSocket, JobsOK, HeldOK
<1>14. EventsOK' BY <1>2 DEF CloseSocket, EventsOK, HeldOK
<1>15. WaitingOK' /\ TimersOK'
  BY <1>2, WaitingStays DEF CloseSocket, Waiting
<1>16. QED BY <1>7, <1>8, <1>10, <1>12, <1>13, <1>14, <1>15

(* Into the recycling list, unless another thread was faster.              *)
LEMMA RetireIInv ==
  ASSUME IInv, TypeOK', Watched', NEW t \in Threads, Retire(t)  PROVE IInv'
<1> USE PoolAssumption, ThreadAssumption, NumberAssumption, DelayAssumption
<1> USE DEF IInv, Goto, Begin, Turn, Skip, Threads, NoFd, Refs, ClosePCs,
          poolVars, connVars, kernVars, refVars, msgVars, thrVars, recyVars
<1> DEFINE c == ref[t].conn
<1>1. /\ pc[t] = "retire" /\ rpc # "pass"
      /\ InRecyConnectQueue(c) /\ Return(t)
      /\ UNCHANGED <<poolVars, fd, kernVars, refVars, events, now, recyVars>>
  BY DEF Retire
<1>2. c \in Conns /\ seq[c] \in Nat /\ since[t] \in Nat /\ now \in Nat
  BY <1>1, WorkRefs DEF TypeOK, DataTypeOK, ThreadTypeOK
<1>3. \A u \in Threads : /\ pc'[u] = IF u = t THEN "idle" ELSE pc[u]
                         /\ ref'[u] = IF u = t THEN NoRef ELSE ref[u]
                         /\ tested'[u] = IF u = t THEN NoFd ELSE tested[u]
                         /\ since'[u] = IF u = t /\ ~(u = Main /\ events # {}) THEN 0 ELSE since[u]
  BY <1>1 DEF Return, Goto, TypeOK, ThreadTypeOK
<1>5. Free' = Free BY <1>1 DEF Free
<1>6. Waiting' = Waiting BY <1>1 DEF Waiting
<1>7. \A u \in Threads : Busy(u)' => Busy(u)
  BY <1>1, <1>3 DEF Busy
<1>12. \A u \in Threads : pc'[u] # "idle" =>
         /\ pc[u] # "idle" /\ ref'[u] = ref[u] /\ (Uncovered(u) => Uncovered(u)')
  BY <1>1, <1>3 DEF Uncovered
<1>10. \A u \in Threads : /\ since'[u] <= now
                          /\ Busy(u)' => now <= since'[u] + MaxBusy
  <2>1. ASSUME NEW u \in Threads PROVE since'[u] <= now
    BY <1>2, <1>3 DEF Clocks
  <2>2. ASSUME NEW u \in Threads, Busy(u)' PROVE now <= since'[u] + MaxBusy
    <3>1. since'[u] = since[u]
      BY <1>1, <1>3, <2>2 DEF Busy
    <3>2. QED BY <1>7, <2>2, <3>1 DEF Clocks
  <2>3. QED BY <2>1, <2>2
<1>8. CASE c \in recyList
  <2>1. UNCHANGED <<pool, recyList, online, seq, inRecyTime, fd, sock, armed>>
    BY <1>1, <1>8 DEF InRecyConnectQueue, Queued
  <2>2. InUse' = InUse BY <1>5, <2>1 DEF InUse
  <2>4. Placed' BY <1>1, <1>5, <2>1 DEF Placed
  <2>5. Clocks' BY <1>1, <1>10, <2>1 DEF Clocks
  <2>6. JobsOK' BY <1>3, <1>12, <2>1, <2>2 DEF JobsOK, HeldOK
  <2>7. EventsOK'
    <3>1. events # {} => since'[Main] = since[Main] BY <1>3
    <3>2. QED BY <1>1, <2>1, <2>2, <3>1 DEF EventsOK, HeldOK
  <2>8. WaitingOK' /\ TimersOK' BY <1>1, <1>6, <2>1, <2>2, WaitingStays
  <2>9. SocketsOK' BY <1>3, <2>1, <2>2 DEF SocketsOK
  <2>10. MainOK' BY <1>1, <1>3, <1>6, <1>12, <2>1, <2>2 DEF MainOK
  <2>11. QED BY <2>4, <2>5, <2>6, <2>7, <2>8, <2>9, <2>10
<1>9. CASE c \notin recyList
  <2>1. /\ inRecyTime' = [inRecyTime EXCEPT ![c] = now] /\ seq' = [seq EXCEPT ![c] = @ + 1]
        /\ recyList' = recyList \cup {c} /\ online' = online - 1
        /\ UNCHANGED <<pool, fd, sock, armed>>
    BY <1>1, <1>9 DEF InRecyConnectQueue, Queued, RetireBump
  <2>2. c \in InUse /\ seq[c] = ref[t].seq
    BY <1>1, <1>9 DEF JobsOK, HeldOK, Uncovered
  <2>3. InUse' = InUse \ {c} BY <1>5, <2>1 DEF InUse
  <2>a. \A d \in Conns : /\ seq'[d] = IF d = c THEN seq[c] + 1 ELSE seq[d]
                         /\ inRecyTime'[d] = IF d = c THEN now ELSE inRecyTime[d]
    BY <2>1, <1>2 DEF TypeOK, DataTypeOK
  <2>5. Placed' BY <1>1, <1>5, <2>1, <2>2 DEF Placed, InUse
  <2>6. Clocks'
    <3>1. \A d \in Conns : inRecyTime'[d] <= now
      BY <1>2, <2>a DEF Clocks
    <3>2. QED BY <1>1, <1>10, <3>1 DEF Clocks
  <2>7. \A u \in Threads, r \in Refs : HeldOK(u, r) => r.conn \in Conns /\ (r.conn = c => r.seq = seq[c])
    BY <1>9 DEF HeldOK, Refs
  <2>8. ASSUME NEW u \in Threads, NEW r \in Refs, HeldOK(u, r), since'[u] = since[u]
        PROVE  HeldOK(u, r)'
    <3>1. since[u] <= now BY DEF Clocks
    <3>2. CASE r.conn = c
      BY <3>1, <3>2, <2>7, <2>8, <2>1, <2>a, <1>2 DEF HeldOK
    <3>3. CASE r.conn # c
      BY <3>3, <2>7, <2>8, <2>1, <2>3, <2>a DEF HeldOK
    <3>4. QED BY <3>2, <3>3
  <2>9. JobsOK'
    BY WorkRefs, <1>3, <1>12, <2>8 DEF JobsOK
  <2>10. EventsOK'
    <3>1. events # {} => since'[Main] = since[Main] BY <1>3
    <3>2. events \subseteq Refs BY DEF TypeOK, RefsTypeOK
    <3>3. c \notin Listeners BY <2>2 DEF InUse
    <3>4. \A r \in events : r.conn \in Listeners => seq'[r.conn] = seq[r.conn]
      BY <3>2, <3>3, <2>a
    <3>5. QED BY <1>1, <2>8, <3>1, <3>2, <3>4 DEF EventsOK
  <2>11. WaitingOK'
    <3>1. \A r \in Waiting : r.conn \in Conns /\ r.seq \in Nat BY DEF Waiting, TypeOK, RefsTypeOK
    <3>2. ASSUME NEW r \in Waiting
          PROVE  (r.conn \in pool /\ r.seq <= seq[r.conn] /\ (Current(r) => LiveOrMisread(r)))'
      <4>1. CASE r.conn = c
        BY <4>1, <3>1, <1>2, <2>1, <2>a DEF WaitingOK, Current, LiveOrMisread
      <4>2. CASE r.conn # c
        BY <4>2, <3>1, <1>1, <2>1, <2>3, <2>a DEF WaitingOK, Current, LiveOrMisread
      <4>3. QED BY <4>1, <4>2
    <3>3. QED BY <1>6, <3>2 DEF WaitingOK
  <2>15. TimersOK'
    <3>1. \A r \in timerQ \cup idleList : r.conn \in Conns /\ r.seq \in Nat
      BY DEF TypeOK, RefsTypeOK
    <3>2. \A r \in timerQ \cup idleList : r.conn = c => r.seq <= seq[c]
      BY DEF WaitingOK, Waiting
    <3>3. QED BY <1>1, <1>2, <2>1, <2>3, <2>a, <3>1, <3>2 DEF TimersOK, Current
  <2>12. SocketsOK'
    <3>1. fd[c] = NoFd BY <1>1 DEF SocketsOK
    <3>2. QED BY <1>3, <2>1, <2>3, <3>1 DEF SocketsOK
  <2>13. MainOK'
    <3>2. pc'[Main] = "arm" => pc[Main] = "arm" /\ t # Main /\ ref'[Main] = ref[Main]
                               /\ ref[Main].conn # c /\ ref[Main].conn \in Conns
      BY WorkRefs, <1>1, <1>3 DEF MainOK, Uncovered
    <3>4. QED BY <1>1, <1>6, <1>12, <2>1, <2>3, <2>a, <3>2 DEF MainOK
  <2>14. QED BY <2>5, <2>6, <2>9, <2>10, <2>11, <2>12, <2>13, <2>15
<1>11. QED BY <1>8, <1>9

(* The delayed release: nobody can still hold what has expired.            *)
LEMMA RecycleIInv ==
  ASSUME IInv, TypeOK', Watched', NEW c \in recyList, Recycle(c)  PROVE IInv'
<1> USE PoolAssumption, ThreadAssumption, NumberAssumption, DelayAssumption
<1> USE DEF IInv, Goto, Begin, Turn, Skip, Threads, NoFd, Refs, ClosePCs,
          poolVars, connVars, kernVars, refVars, msgVars, thrVars, recyVars
<1>1. /\ FreeConnection(c) /\ recyList' = recyList \ {c} /\ Expired(c)
      /\ inRecyTime' = [inRecyTime EXCEPT ![c] = 0]
      /\ UNCHANGED <<pool, online, fd, kernVars, refVars, events, now, thrVars, recyVars>>
  BY DEF Recycle
<1>2. c \in Conns BY DEF TypeOK, DataTypeOK
<1>3. /\ freeList' \in Seq(Conns) /\ Free' = Free \cup {c} /\ IsInjective(freeList')
      /\ seq' \in [Conns -> Nat] /\ seq'[c] = seq[c] + 1
      /\ \A d \in Conns \ {c} : seq'[d] = seq[d]
  BY FreeEffect, <1>1, <1>2
<1>4. InUse' = InUse /\ c \notin InUse
  BY <1>1, <1>3 DEF InUse, Placed
<1>5. Placed'
  BY <1>1, <1>2, <1>3 DEF Placed
<1>6. \A d \in Conns : inRecyTime'[d] = IF d = c THEN 0 ELSE inRecyTime[d]
  BY <1>1, <1>2 DEF TypeOK, DataTypeOK
(* Nobody holds c: who did would have been at work longer than MaxBusy. *)
<1>8. ASSUME NEW u \in Threads, Busy(u), inRecyTime[c] >= since[u] PROVE FALSE
  <2>1. now <= since[u] + MaxBusy /\ currtime <= now BY <1>8 DEF Clocks
  <2>2. inRecyTime[c] + RecyWait <= currtime BY <1>1 DEF Expired
  <2>3. now \in Nat /\ currtime \in Nat /\ inRecyTime[c] \in Nat /\ since[u] \in Nat
    BY <1>2 DEF TypeOK, DataTypeOK, ThreadTypeOK
  <2>4. QED BY <1>8, <2>1, <2>2, <2>3
<1>9. Clocks'
  <2>1. \A u \in Threads : Busy(u)' = Busy(u) BY <1>1 DEF Busy
  <2>2. QED BY <1>1, <1>6, <2>1 DEF Clocks, TypeOK, DataTypeOK
<1>10. JobsOK'
  <2>1. ASSUME NEW u \in Threads, pc[u] # "idle", ~Uncovered(u) PROVE HeldOK(u, ref[u])'
    <3>1. ref[u].conn # c
      BY <1>4, <1>8, <2>1 DEF JobsOK, HeldOK, Busy
    <3>2. ref[u].conn \in Conns BY WorkRefs, <2>1
    <3>3. QED BY ZenonT(40), <2>1, <3>1, <3>2, <1>1, <1>3, <1>4, <1>6 DEF JobsOK, HeldOK
  <2>2. QED BY <2>1, <1>1 DEF JobsOK, Uncovered
<1>11. EventsOK'
  <2>1. ASSUME NEW r \in events PROVE (HeldOK(Main, r) \/ (r.conn \in Listeners /\ seq[r.conn] = r.seq))'
    <3>1. r.conn # c
      <4>1. c \notin Listeners BY DEF Placed
      <4>2. QED BY <4>1, <1>4, <1>8, <2>1 DEF EventsOK, HeldOK, Busy
    <3>2. r.conn \in Conns BY <2>1 DEF TypeOK, RefsTypeOK
    <3>3. QED BY <2>1, <3>1, <3>2, <1>1, <1>3, <1>4, <1>6 DEF EventsOK, HeldOK
  <2>2. QED BY <2>1, <1>1 DEF EventsOK
<1>12. WaitingOK'
  <2>1. Waiting' = Waiting BY <1>1 DEF Waiting
  <2>2. \A r \in Waiting : r.conn \in Conns /\ r.seq \in Nat BY DEF Waiting, TypeOK, RefsTypeOK
  <2>4. seq[c] \in Nat BY <1>2 DEF TypeOK, DataTypeOK
  <2>3. WaitingOK /\ pool' = pool BY <1>1, <1>3
  <2>5. ASSUME NEW r \in Waiting
        PROVE  r.conn \in pool' /\ r.seq <= seq'[r.conn] /\ (Current(r)' => LiveOrMisread(r)')
    <3>1. /\ r.conn \in pool /\ r.seq <= seq[r.conn]
          /\ (seq[r.conn] = r.seq => LiveOrMisread(r))
      BY <2>3, <2>5 DEF WaitingOK, Current
    <3>2. CASE r.conn = c BY <3>1, <3>2, <2>2, <2>3, <2>4, <2>5, <1>3, <1>4 DEF Current
    <3>3. CASE r.conn # c
      <4>1. seq'[r.conn] = seq[r.conn] BY <3>3, <2>2, <2>5, <1>3
      <4>2. QED BY <3>1, <3>3, <4>1, <2>3, <1>1, <1>4 DEF Current, LiveOrMisread
    <3>4. QED BY <3>2, <3>3
  <2>6. QED BY <2>1, <2>5 DEF WaitingOK
<1>16. TimersOK'
  <2>1. \A r \in timerQ \cup idleList : r.conn \in Conns /\ r.seq \in Nat
    BY DEF TypeOK, RefsTypeOK
  <2>2. \A r \in timerQ \cup idleList : r.conn = c => r.seq <= seq[c]
    BY DEF WaitingOK, Waiting
  <2>3. seq[c] \in Nat BY <1>2 DEF TypeOK, DataTypeOK
  <2>4. QED BY <1>1, <1>2, <1>3, <1>4, <2>1, <2>2, <2>3 DEF TimersOK, Current
<1>13. SocketsOK'
  BY <1>1, <1>4 DEF SocketsOK
<1>14. MainOK'
  <2>1. pc[Main] = "arm" => ref[Main].conn # c /\ ref[Main].conn \in Conns
    BY <1>4, WorkRefs DEF MainOK
  <2>2. Waiting' = Waiting BY <1>1 DEF Waiting
  <2>3. \A r \in Waiting : r.conn \in Conns BY DEF Waiting, TypeOK, RefsTypeOK
  <2>4. QED BY <1>1, <1>3, <1>4, <2>1, <2>2, <2>3 DEF MainOK, Uncovered
<1>15. QED BY <1>5, <1>9, <1>10, <1>11, <1>12, <1>13, <1>14, <1>16

-----------------------------------------------------------------------------
(* Every step preserves the invariant.                                     *)
LEMMA StepIInv ==
  ASSUME IInv, ~misled', [Next]_vars PROVE IInv'
<1> USE PoolAssumption, ThreadAssumption, NumberAssumption, DelayAssumption
<1> USE DEF IInv, Goto, Begin, Turn, Skip, Threads, NoFd, Refs, ClosePCs,
          poolVars, connVars, kernVars, refVars, msgVars, thrVars, recyVars
<1>0. \A t \in Threads : pc[t] # "idle" =>
       ref[t] \in Refs /\ ref[t].conn \in Conns /\ ref[t].seq \in Nat
  BY WorkRefs
<1>0a. TypeOK' /\ Watched' BY StepTypes, StepWatched
<1>1. ASSUME EpollWait PROVE IInv'
  <2>5. InUse' = InUse /\ Placed'
    BY <1>1 DEF InUse, Free, Placed, EpollWait, Readable, Pending, RefTo
  <2>6. Clocks'
    BY <1>1 DEF TypeOK, DataTypeOK, RefsTypeOK, ThreadTypeOK, Clocks, Busy, EpollWait, Readable, Pending, RefTo
  <2>7. JobsOK'
    BY <1>1, <2>5 DEF TypeOK, DataTypeOK, RefsTypeOK, ThreadTypeOK, Clocks, JobsOK, EventsOK, WaitingOK, HeldOK, Waiting, Uncovered, EpollWait, Readable, Pending, RefTo
  <2>8. EventsOK'
    BY <1>1, <2>5 DEF TypeOK, DataTypeOK, RefsTypeOK, ThreadTypeOK, Clocks, Busy, EventsOK, HeldOK, SocketsOK, Watched, EpollWait, Readable, Pending, RefTo
  <2>9. WaitingOK' /\ TimersOK'
    BY <1>1, <2>5, WaitingStays DEF Waiting, EpollWait
  <2>10. SocketsOK'
    BY <1>1, <2>5 DEF TypeOK, DataTypeOK, RefsTypeOK, ThreadTypeOK, SocketsOK, MainOK, EpollWait, Readable, Pending, RefTo
  <2>11. MainOK'
    BY <1>1, <2>5 DEF TypeOK, DataTypeOK, RefsTypeOK, ThreadTypeOK, MainOK, EventsOK, HeldOK, SocketsOK, Waiting, Uncovered, EpollWait, Readable, Pending, RefTo
  <2>12. QED BY <1>0a, <2>5, <2>6, <2>7, <2>8, <2>9, <2>10, <2>11
<1>2. ASSUME Arm PROVE IInv'
  <2>5. InUse' = InUse /\ Placed'
    BY <1>2 DEF InUse, Free, Placed, Arm, RefTo
  <2>6. Clocks'
    BY <1>2 DEF TypeOK, DataTypeOK, RefsTypeOK, ThreadTypeOK, Clocks, Busy, Arm, RefTo
  <2>7. JobsOK'
    BY <1>2, <2>5 DEF TypeOK, DataTypeOK, RefsTypeOK, ThreadTypeOK, Clocks, JobsOK, EventsOK, WaitingOK, HeldOK, Waiting, Uncovered, Arm, RefTo
  <2>8. EventsOK'
    BY <1>2, <2>5 DEF TypeOK, DataTypeOK, RefsTypeOK, ThreadTypeOK, Clocks, Busy, EventsOK, HeldOK, SocketsOK, Arm, RefTo
  <2>9. WaitingOK' /\ TimersOK'
    <3>1. ref[Main].conn \in InUse /\ ref[Main].conn \in Conns /\ seq \in [Conns -> Nat]
      BY <1>0, <1>2 DEF Arm, MainOK, TypeOK, DataTypeOK
    <3>2. ref[Main].conn \in pool BY <3>1 DEF InUse
    <3>3. UNCHANGED <<pool, seq, recyList, misread>>
          /\ Waiting' = Waiting \cup {RefTo(ref[Main].conn)}
      BY <1>2 DEF Arm, Waiting
    <3>4. WaitingOK' BY <2>5, <3>1, <3>2, <3>3, WaitingGrows
    <3>5. TimersOK' BY <1>2, <2>5, <3>1 DEF Arm, TimersOK, Current, RefTo
    <3>6. QED BY <3>4, <3>5
  <2>10. SocketsOK'
    BY <1>2, <2>5 DEF TypeOK, DataTypeOK, RefsTypeOK, ThreadTypeOK, SocketsOK, MainOK, Arm, RefTo
  <2>11. MainOK'
    BY <1>2, <2>5 DEF TypeOK, DataTypeOK, RefsTypeOK, ThreadTypeOK, MainOK, EventsOK, HeldOK, SocketsOK, Waiting, Uncovered, Arm, RefTo
  <2>12. QED BY <1>0a, <2>5, <2>6, <2>7, <2>8, <2>9, <2>10, <2>11
<1>3. ASSUME Count PROVE IInv'
  <2>5. InUse' = InUse /\ Placed'
    BY <1>3 DEF InUse, Free, Placed, Count, Return
  <2>6. Clocks'
    BY SMTT(30), <1>3 DEF TypeOK, DataTypeOK, RefsTypeOK, ThreadTypeOK, Clocks, Busy, Count, Return
  <2>7. JobsOK'
    BY <1>3, <2>5 DEF TypeOK, DataTypeOK, RefsTypeOK, ThreadTypeOK, Clocks, JobsOK, EventsOK, WaitingOK, HeldOK, Waiting, Uncovered, Count, Return
  <2>8. EventsOK'
    BY <1>3, <2>5 DEF TypeOK, DataTypeOK, RefsTypeOK, ThreadTypeOK, Clocks, Busy, EventsOK, HeldOK, SocketsOK, Count, Return
  <2>9. WaitingOK' /\ TimersOK'
    BY <1>3, <2>5, WaitingStays DEF Waiting, Count
  <2>10. SocketsOK'
    BY <1>3, <2>5 DEF TypeOK, DataTypeOK, RefsTypeOK, ThreadTypeOK, SocketsOK, MainOK, Count, Return
  <2>11. MainOK'
    BY <1>3, <2>5 DEF TypeOK, DataTypeOK, RefsTypeOK, ThreadTypeOK, MainOK, EventsOK, HeldOK, SocketsOK, Waiting, Uncovered, Count, Return
  <2>12. QED BY <1>0a, <2>5, <2>6, <2>7, <2>8, <2>9, <2>10, <2>11
<1>4. ASSUME Record PROVE IInv'
  <2>5. InUse' = InUse /\ Placed'
    BY <1>4 DEF InUse, Free, Placed, Record, RefTo, Return
  <2>6. Clocks'
    BY SMTT(30), <1>4 DEF TypeOK, DataTypeOK, RefsTypeOK, ThreadTypeOK, Clocks, Busy, Record, RefTo, Return
  <2>7. JobsOK'
    BY <1>4, <2>5 DEF TypeOK, DataTypeOK, RefsTypeOK, ThreadTypeOK, Clocks, JobsOK, EventsOK, WaitingOK, HeldOK, Waiting, Uncovered, Record, RefTo, Return
  <2>8. EventsOK'
    BY <1>4, <2>5 DEF TypeOK, DataTypeOK, RefsTypeOK, ThreadTypeOK, Clocks, Busy, EventsOK, HeldOK, SocketsOK, Record, RefTo, Return
  <2>9. WaitingOK' /\ TimersOK'
    <3> DEFINE c == ref[Main].conn
    <3>1. c \in Conns /\ seq \in [Conns -> Nat] /\ HeldOK(Main, ref[Main])
      BY <1>0, <1>4 DEF Record, JobsOK, Uncovered, TypeOK, DataTypeOK
    <3>2. /\ c \in InUse \/ c \in recyList
          /\ c \in pool
      BY <3>1 DEF HeldOK, InUse, Placed
    <3>3. /\ UNCHANGED <<pool, seq, recyList, timerQ, idleList>>
          /\ Waiting' = Waiting \cup {RefTo(c)} /\ misread \subseteq misread'
          /\ c \in recyList => RefTo(c) \in misread'
      BY <1>4 DEF Record, Waiting, RefTo
    <3>4. WaitingOK' BY <2>5, <3>1, <3>2, <3>3, WaitingGrows
    <3>5. TimersOK' BY <2>5, <3>3 DEF TimersOK, Current
    <3>6. QED BY <3>4, <3>5
  <2>10. SocketsOK'
    BY <1>4, <2>5 DEF TypeOK, DataTypeOK, RefsTypeOK, ThreadTypeOK, SocketsOK, MainOK, Record, RefTo, Return
  <2>11. MainOK'
    BY <1>4, <2>5 DEF TypeOK, DataTypeOK, RefsTypeOK, ThreadTypeOK, MainOK, EventsOK, HeldOK, SocketsOK, Waiting, Uncovered, Record, RefTo, Return
  <2>12. QED BY <1>0a, <2>5, <2>6, <2>7, <2>8, <2>9, <2>10, <2>11
<1>5. ASSUME RecordNothing PROVE IInv'
  <2>5. InUse' = InUse /\ Placed'
    BY <1>5 DEF InUse, Free, Placed, RecordNothing, Return
  <2>6. Clocks'
    BY SMTT(30), <1>5 DEF TypeOK, DataTypeOK, RefsTypeOK, ThreadTypeOK, Clocks, Busy, RecordNothing, Return
  <2>7. JobsOK'
    BY <1>5, <2>5 DEF TypeOK, DataTypeOK, RefsTypeOK, ThreadTypeOK, Clocks, JobsOK, EventsOK, WaitingOK, HeldOK, Waiting, Uncovered, RecordNothing, Return
  <2>8. EventsOK'
    BY <1>5, <2>5 DEF TypeOK, DataTypeOK, RefsTypeOK, ThreadTypeOK, Clocks, Busy, EventsOK, HeldOK, SocketsOK, RecordNothing, Return
  <2>9. WaitingOK' /\ TimersOK'
    BY <1>5, <2>5, WaitingStays DEF Waiting, RecordNothing
  <2>10. SocketsOK'
    BY <1>5, <2>5 DEF TypeOK, DataTypeOK, RefsTypeOK, ThreadTypeOK, SocketsOK, MainOK, RecordNothing, Return
  <2>11. MainOK'
    BY <1>5, <2>5 DEF TypeOK, DataTypeOK, RefsTypeOK, ThreadTypeOK, MainOK, EventsOK, HeldOK, SocketsOK, Waiting, Uncovered, RecordNothing, Return
  <2>12. QED BY <1>0a, <2>5, <2>6, <2>7, <2>8, <2>9, <2>10, <2>11
<1>6. ASSUME RecordFlood PROVE IInv'
  <2>5. InUse' = InUse /\ Placed'
    BY <1>6 DEF InUse, Free, Placed, RecordFlood
  <2>6. Clocks'
    BY <1>6 DEF TypeOK, DataTypeOK, RefsTypeOK, ThreadTypeOK, Clocks, Busy, RecordFlood
  <2>7. JobsOK'
    BY <1>6, <2>5 DEF TypeOK, DataTypeOK, RefsTypeOK, ThreadTypeOK, Clocks, JobsOK, EventsOK, WaitingOK, HeldOK, Waiting, Uncovered, RecordFlood
  <2>8. EventsOK'
    BY <1>6, <2>5 DEF TypeOK, DataTypeOK, RefsTypeOK, ThreadTypeOK, Clocks, Busy, EventsOK, HeldOK, SocketsOK, RecordFlood
  <2>9. WaitingOK' /\ TimersOK'
    BY <1>6, <2>5, WaitingStays DEF Waiting, RecordFlood
  <2>10. SocketsOK'
    BY <1>6, <2>5 DEF TypeOK, DataTypeOK, RefsTypeOK, ThreadTypeOK, SocketsOK, MainOK, RecordFlood
  <2>11. MainOK'
    BY <1>6, <2>5 DEF TypeOK, DataTypeOK, RefsTypeOK, ThreadTypeOK, MainOK, EventsOK, HeldOK, SocketsOK, Waiting, Uncovered, RecordFlood
  <2>12. QED BY <1>0a, <2>5, <2>6, <2>7, <2>8, <2>9, <2>10, <2>11
<1>7. ASSUME NEW r \in events, Refuse(r) PROVE IInv'
  <2>5. InUse' = InUse /\ Placed'
    BY <1>7 DEF InUse, Free, Placed, Refuse
  <2>6. Clocks'
    BY SMTT(30), <1>7 DEF TypeOK, DataTypeOK, RefsTypeOK, ThreadTypeOK, Clocks, Busy, Refuse
  <2>7. JobsOK'
    BY <1>7, <2>5 DEF TypeOK, DataTypeOK, RefsTypeOK, ThreadTypeOK, Clocks, JobsOK, EventsOK, WaitingOK, HeldOK, Waiting, Uncovered, Refuse
  <2>8. EventsOK'
    BY <1>7, <2>5 DEF TypeOK, DataTypeOK, RefsTypeOK, ThreadTypeOK, Clocks, Busy, EventsOK, HeldOK, SocketsOK, Refuse
  <2>9. WaitingOK' /\ TimersOK'
    BY <1>7, <2>5, WaitingStays DEF Waiting, Refuse
  <2>10. SocketsOK'
    BY <1>7, <2>5 DEF TypeOK, DataTypeOK, RefsTypeOK, ThreadTypeOK, SocketsOK, MainOK, Refuse
  <2>11. MainOK'
    BY <1>7, <2>5 DEF TypeOK, DataTypeOK, RefsTypeOK, ThreadTypeOK, MainOK, EventsOK, HeldOK, SocketsOK, Waiting, Uncovered, Refuse
  <2>12. QED BY <1>0a, <2>5, <2>6, <2>7, <2>8, <2>9, <2>10, <2>11
<1>8. ASSUME NEW r \in events, AcceptNothing(r) PROVE IInv'
  <2>5. InUse' = InUse /\ Placed'
    BY <1>8 DEF InUse, Free, Placed, AcceptNothing
  <2>6. Clocks'
    BY SMTT(30), <1>8 DEF TypeOK, DataTypeOK, RefsTypeOK, ThreadTypeOK, Clocks, Busy, AcceptNothing
  <2>7. JobsOK'
    BY <1>8, <2>5 DEF TypeOK, DataTypeOK, RefsTypeOK, ThreadTypeOK, Clocks, JobsOK, EventsOK, WaitingOK, HeldOK, Waiting, Uncovered, AcceptNothing
  <2>8. EventsOK'
    BY <1>8, <2>5 DEF TypeOK, DataTypeOK, RefsTypeOK, ThreadTypeOK, Clocks, Busy, EventsOK, HeldOK, SocketsOK, AcceptNothing
  <2>9. WaitingOK' /\ TimersOK'
    BY <1>8, <2>5, WaitingStays DEF Waiting, AcceptNothing
  <2>10. SocketsOK'
    BY <1>8, <2>5 DEF TypeOK, DataTypeOK, RefsTypeOK, ThreadTypeOK, SocketsOK, MainOK, AcceptNothing
  <2>11. MainOK'
    BY <1>8, <2>5 DEF TypeOK, DataTypeOK, RefsTypeOK, ThreadTypeOK, MainOK, EventsOK, HeldOK, SocketsOK, Waiting, Uncovered, AcceptNothing
  <2>12. QED BY <1>0a, <2>5, <2>6, <2>7, <2>8, <2>9, <2>10, <2>11
<1>9. ASSUME NEW r \in events, Recv(r) PROVE IInv'
  <2>5. InUse' = InUse /\ Placed'
    BY <1>9 DEF InUse, Free, Placed, Recv
  <2>6. Clocks'
    BY <1>9 DEF TypeOK, DataTypeOK, RefsTypeOK, ThreadTypeOK, Clocks, Busy, Recv
  <2>7. JobsOK'
    BY <1>9, <2>5 DEF TypeOK, DataTypeOK, RefsTypeOK, ThreadTypeOK, Clocks, JobsOK, EventsOK, WaitingOK, HeldOK, Waiting, Uncovered, Recv
  <2>8. EventsOK'
    BY <1>9, <2>5 DEF TypeOK, DataTypeOK, RefsTypeOK, ThreadTypeOK, Clocks, Busy, EventsOK, HeldOK, SocketsOK, Recv
  <2>9. WaitingOK' /\ TimersOK'
    BY <1>9, <2>5, WaitingStays DEF Waiting, Recv
  <2>10. SocketsOK'
    BY <1>9, <2>5 DEF TypeOK, DataTypeOK, RefsTypeOK, ThreadTypeOK, SocketsOK, MainOK, Recv
  <2>11. MainOK'
    BY <1>9, <2>5 DEF TypeOK, DataTypeOK, RefsTypeOK, ThreadTypeOK, MainOK, EventsOK, HeldOK, SocketsOK, Waiting, Uncovered, Recv
  <2>12. QED BY <1>0a, <2>5, <2>6, <2>7, <2>8, <2>9, <2>10, <2>11
<1>10. ASSUME NEW r \in events, RecvClosed(r) PROVE IInv'
  <2>5. InUse' = InUse /\ Placed'
    BY <1>10 DEF InUse, Free, Placed, RecvClosed
  <2>6. Clocks'
    BY <1>10 DEF TypeOK, DataTypeOK, RefsTypeOK, ThreadTypeOK, Clocks, Busy, RecvClosed
  <2>7. JobsOK'
    BY <1>10, <2>5 DEF TypeOK, DataTypeOK, RefsTypeOK, ThreadTypeOK, Clocks, JobsOK, EventsOK, WaitingOK, HeldOK, Waiting, Uncovered, RecvClosed
  <2>8. EventsOK'
    BY <1>10, <2>5 DEF TypeOK, DataTypeOK, RefsTypeOK, ThreadTypeOK, Clocks, Busy, EventsOK, HeldOK, SocketsOK, RecvClosed
  <2>9. WaitingOK' /\ TimersOK'
    BY <1>10, <2>5, WaitingStays DEF Waiting, RecvClosed
  <2>10. SocketsOK'
    BY <1>10, <2>5 DEF TypeOK, DataTypeOK, RefsTypeOK, ThreadTypeOK, SocketsOK, MainOK, RecvClosed
  <2>11. MainOK'
    BY <1>10, <2>5 DEF TypeOK, DataTypeOK, RefsTypeOK, ThreadTypeOK, MainOK, EventsOK, HeldOK, SocketsOK, Waiting, Uncovered, RecvClosed
  <2>12. QED BY <1>0a, <2>5, <2>6, <2>7, <2>8, <2>9, <2>10, <2>11
<1>11. ASSUME TimerScan PROVE IInv'
  <2>5. InUse' = InUse /\ Placed'
    BY <1>11 DEF InUse, Free, Placed, TimerScan
  <2>6. Clocks'
    BY <1>11 DEF TypeOK, DataTypeOK, RefsTypeOK, ThreadTypeOK, Clocks, Busy, TimerScan
  <2>7. JobsOK'
    BY <1>11, <2>5 DEF TypeOK, DataTypeOK, RefsTypeOK, ThreadTypeOK, Clocks, JobsOK, EventsOK, WaitingOK, HeldOK, Waiting, Uncovered, TimerScan
  <2>8. EventsOK'
    BY <1>11, <2>5 DEF TypeOK, DataTypeOK, RefsTypeOK, ThreadTypeOK, Clocks, Busy, EventsOK, HeldOK, SocketsOK, TimerScan
  <2>9. WaitingOK' /\ TimersOK'
    BY <1>11, <2>5, WaitingStays DEF Waiting, TimerScan
  <2>10. SocketsOK'
    BY <1>11, <2>5 DEF TypeOK, DataTypeOK, RefsTypeOK, ThreadTypeOK, SocketsOK, MainOK, TimerScan
  <2>11. MainOK'
    BY <1>11, <2>5 DEF TypeOK, DataTypeOK, RefsTypeOK, ThreadTypeOK, MainOK, EventsOK, HeldOK, SocketsOK, Waiting, Uncovered, TimerScan
  <2>12. QED BY <1>0a, <2>5, <2>6, <2>7, <2>8, <2>9, <2>10, <2>11
<1>12. ASSUME NEW r \in idleList, TimerKick(r) PROVE IInv'
  <2>5. InUse' = InUse /\ Placed'
    BY <1>12 DEF InUse, Free, Placed, TimerKick, Current
  <2>6. Clocks'
    BY <1>12 DEF TypeOK, DataTypeOK, RefsTypeOK, ThreadTypeOK, Clocks, Busy, TimerKick, Current
  <2>7. JobsOK'
    BY <1>12, <2>5 DEF TypeOK, DataTypeOK, RefsTypeOK, ThreadTypeOK, Clocks, JobsOK, EventsOK, TimersOK, WaitingOK, HeldOK, Waiting, Uncovered, TimerKick, Current
  <2>8. EventsOK'
    BY <1>12, <2>5 DEF TypeOK, DataTypeOK, RefsTypeOK, ThreadTypeOK, Clocks, Busy, EventsOK, HeldOK, SocketsOK, TimerKick, Current
  <2>9. WaitingOK' /\ TimersOK'
    BY <1>12, <2>5, WaitingStays DEF Waiting, TimerKick
  <2>10. SocketsOK'
    BY <1>12, <2>5 DEF TypeOK, DataTypeOK, RefsTypeOK, ThreadTypeOK, SocketsOK, MainOK, TimerKick, Current
  <2>11. MainOK'
    BY SMTT(30), <1>12, <2>5 DEF TypeOK, DataTypeOK, RefsTypeOK, ThreadTypeOK, MainOK, EventsOK, HeldOK, SocketsOK, Waiting, Uncovered, TimerKick, Current
  <2>12. QED BY <1>0a, <2>5, <2>6, <2>7, <2>8, <2>9, <2>10, <2>11
<1>13. ASSUME NEW r \in idleList, TimerSkip(r) PROVE IInv'
  <2>5. InUse' = InUse /\ Placed'
    BY <1>13 DEF InUse, Free, Placed, TimerSkip
  <2>6. Clocks'
    BY <1>13 DEF TypeOK, DataTypeOK, RefsTypeOK, ThreadTypeOK, Clocks, Busy, TimerSkip
  <2>7. JobsOK'
    BY <1>13, <2>5 DEF TypeOK, DataTypeOK, RefsTypeOK, ThreadTypeOK, Clocks, JobsOK, EventsOK, WaitingOK, HeldOK, Waiting, Uncovered, TimerSkip
  <2>8. EventsOK'
    BY <1>13, <2>5 DEF TypeOK, DataTypeOK, RefsTypeOK, ThreadTypeOK, Clocks, Busy, EventsOK, HeldOK, SocketsOK, TimerSkip
  <2>9. WaitingOK' /\ TimersOK'
    BY <1>13, <2>5, WaitingStays DEF Waiting, TimerSkip
  <2>10. SocketsOK'
    BY <1>13, <2>5 DEF TypeOK, DataTypeOK, RefsTypeOK, ThreadTypeOK, SocketsOK, MainOK, TimerSkip
  <2>11. MainOK'
    BY <1>13, <2>5 DEF TypeOK, DataTypeOK, RefsTypeOK, ThreadTypeOK, MainOK, EventsOK, HeldOK, SocketsOK, Waiting, Uncovered, TimerSkip
  <2>12. QED BY <1>0a, <2>5, <2>6, <2>7, <2>8, <2>9, <2>10, <2>11
<1>14. ASSUME NEW t \in Workers, FinishMessage(t) PROVE IInv'
  <2>5. InUse' = InUse /\ Placed'
    BY <1>14 DEF InUse, Free, Placed, FinishMessage, Return
  <2>6. Clocks'
    BY <1>14 DEF TypeOK, DataTypeOK, RefsTypeOK, ThreadTypeOK, Clocks, Busy, FinishMessage, Return
  <2>7. JobsOK'
    BY <1>14, <2>5 DEF TypeOK, DataTypeOK, RefsTypeOK, ThreadTypeOK, Clocks, JobsOK, EventsOK, WaitingOK, HeldOK, Waiting, Uncovered, FinishMessage, Return
  <2>8. EventsOK'
    BY <1>14, <2>5 DEF TypeOK, DataTypeOK, RefsTypeOK, ThreadTypeOK, Clocks, Busy, EventsOK, HeldOK, SocketsOK, FinishMessage, Return
  <2>9. WaitingOK' /\ TimersOK'
    BY <1>14, <2>5, WaitingStays DEF Waiting, FinishMessage
  <2>10. SocketsOK'
    BY SMTT(30), <1>14, <2>5 DEF TypeOK, DataTypeOK, RefsTypeOK, ThreadTypeOK, SocketsOK, MainOK, FinishMessage, Return
  <2>11. MainOK'
    BY <1>14, <2>5 DEF TypeOK, DataTypeOK, RefsTypeOK, ThreadTypeOK, MainOK, EventsOK, HeldOK, SocketsOK, Waiting, Uncovered, FinishMessage, Return
  <2>12. QED BY <1>0a, <2>5, <2>6, <2>7, <2>8, <2>9, <2>10, <2>11
<1>15. ASSUME NEW t \in Workers, Overflow(t) PROVE IInv'
  <2>5. InUse' = InUse /\ Placed'
    BY <1>15 DEF InUse, Free, Placed, Overflow
  <2>6. Clocks'
    BY <1>15 DEF TypeOK, DataTypeOK, RefsTypeOK, ThreadTypeOK, Clocks, Busy, Overflow
  <2>7. JobsOK'
    BY <1>15, <2>5 DEF TypeOK, DataTypeOK, RefsTypeOK, ThreadTypeOK, Clocks, JobsOK, EventsOK, WaitingOK, HeldOK, Waiting, Uncovered, Overflow
  <2>8. EventsOK'
    BY <1>15, <2>5 DEF TypeOK, DataTypeOK, RefsTypeOK, ThreadTypeOK, Clocks, Busy, EventsOK, HeldOK, SocketsOK, Overflow
  <2>9. WaitingOK' /\ TimersOK'
    BY <1>15, <2>5, WaitingStays DEF Waiting, Overflow
  <2>10. SocketsOK'
    BY <1>15, <2>5 DEF TypeOK, DataTypeOK, RefsTypeOK, ThreadTypeOK, SocketsOK, MainOK, Overflow
  <2>11. MainOK'
    BY <1>15, <2>5 DEF TypeOK, DataTypeOK, RefsTypeOK, ThreadTypeOK, MainOK, EventsOK, HeldOK, SocketsOK, Waiting, Uncovered, Overflow
  <2>12. QED BY <1>0a, <2>5, <2>6, <2>7, <2>8, <2>9, <2>10, <2>11
<1>16. ASSUME NEW t \in Workers, NEW m \in msgs, StartMessage(t, m) PROVE IInv'
  <2>5. InUse' = InUse /\ Placed'
    BY <1>16 DEF InUse, Free, Placed, StartMessage, Current
  <2>6. Clocks'
    BY SMTT(30), <1>16 DEF TypeOK, DataTypeOK, RefsTypeOK, ThreadTypeOK, Clocks, Busy, StartMessage, Current
  <2>7. JobsOK'
    BY <1>16, <2>5 DEF TypeOK, DataTypeOK, RefsTypeOK, ThreadTypeOK, Clocks, JobsOK, EventsOK, WaitingOK, HeldOK, Waiting, LiveOrMisread, Uncovered, StartMessage, Current
  <2>8. EventsOK'
    BY <1>16, <2>5 DEF TypeOK, DataTypeOK, RefsTypeOK, ThreadTypeOK, Clocks, Busy, EventsOK, HeldOK, SocketsOK, StartMessage, Current
  <2>9. WaitingOK' /\ TimersOK'
    BY <1>16, <2>5, WaitingStays DEF Waiting, StartMessage
  <2>10. SocketsOK'
    BY <1>16, <2>5 DEF TypeOK, DataTypeOK, RefsTypeOK, ThreadTypeOK, SocketsOK, MainOK, StartMessage, Current
  <2>11. MainOK'
    BY SMTT(30), <1>16, <2>5 DEF TypeOK, DataTypeOK, RefsTypeOK, ThreadTypeOK, MainOK, EventsOK, HeldOK, SocketsOK, Waiting, LiveOrMisread, Uncovered, StartMessage, Current
  <2>12. QED BY <1>0a, <2>5, <2>6, <2>7, <2>8, <2>9, <2>10, <2>11
<1>17. ASSUME NEW t \in Workers, NEW m \in msgs, DropMessage(t, m) PROVE IInv'
  <2>5. InUse' = InUse /\ Placed'
    BY <1>17 DEF InUse, Free, Placed, DropMessage
  <2>6. Clocks'
    BY <1>17 DEF TypeOK, DataTypeOK, RefsTypeOK, ThreadTypeOK, Clocks, Busy, DropMessage
  <2>7. JobsOK'
    BY <1>17, <2>5 DEF TypeOK, DataTypeOK, RefsTypeOK, ThreadTypeOK, Clocks, JobsOK, EventsOK, WaitingOK, HeldOK, Waiting, Uncovered, DropMessage
  <2>8. EventsOK'
    BY <1>17, <2>5 DEF TypeOK, DataTypeOK, RefsTypeOK, ThreadTypeOK, Clocks, Busy, EventsOK, HeldOK, SocketsOK, DropMessage
  <2>9. WaitingOK' /\ TimersOK'
    BY <1>17, <2>5, WaitingStays DEF Waiting, DropMessage
  <2>10. SocketsOK'
    BY <1>17, <2>5 DEF TypeOK, DataTypeOK, RefsTypeOK, ThreadTypeOK, SocketsOK, MainOK, DropMessage
  <2>11. MainOK'
    BY <1>17, <2>5 DEF TypeOK, DataTypeOK, RefsTypeOK, ThreadTypeOK, MainOK, EventsOK, HeldOK, SocketsOK, Waiting, Uncovered, DropMessage
  <2>12. QED BY <1>0a, <2>5, <2>6, <2>7, <2>8, <2>9, <2>10, <2>11
<1>18. ASSUME NEW t \in Threads, TestFd(t) PROVE IInv'
  <2>5. InUse' = InUse /\ Placed'
    BY <1>18 DEF InUse, Free, Placed, TestFd
  <2>6. Clocks'
    BY SMTT(30), <1>18 DEF TypeOK, DataTypeOK, RefsTypeOK, ThreadTypeOK, Clocks, Busy, TestFd
  <2>7. JobsOK'
    <3>1. UNCHANGED <<ref, since, seq, inRecyTime, recyList>> BY <1>18 DEF TestFd
    <3>2. pc[t] # "idle" /\ \A u \in Threads : u # t => pc'[u] = pc[u]
      BY <1>18 DEF TestFd, TypeOK, ThreadTypeOK
    <3>3. \A u \in Threads : /\ pc'[u] # "idle" => pc[u] # "idle"
                             /\ Uncovered(u) => Uncovered(u)'
      BY <1>18, <3>1, <3>2 DEF TestFd, Uncovered
    <3>4. QED BY <2>5, <3>1, <3>3 DEF JobsOK, HeldOK
  <2>8. EventsOK'
    BY <1>18, <2>5 DEF TypeOK, DataTypeOK, RefsTypeOK, ThreadTypeOK, Clocks, Busy, EventsOK, HeldOK, SocketsOK, TestFd
  <2>9. WaitingOK' /\ TimersOK'
    BY <1>18, <2>5, WaitingStays DEF Waiting, TestFd
  <2>10. SocketsOK'
    <3>1. UNCHANGED <<fd, sock, armed, ref>> /\ ref[t].conn \in Conns
      BY <1>0, <1>18 DEF TestFd
    <3>2. \A u \in Threads \ {t} : pc'[u] = pc[u] /\ tested'[u] = tested[u]
      BY <1>18 DEF TestFd, TypeOK, ThreadTypeOK
    <3>3. \/ fd[ref[t].conn] = NoFd /\ pc'[t] = "retire"
          \/ /\ fd[ref[t].conn] # NoFd /\ pc'[t] = "close"
             /\ tested'[t] = fd[ref[t].conn]
      BY <1>18 DEF TestFd, TypeOK, ThreadTypeOK
    <3>4. fd[ref[t].conn] \in Fds \cup {NoFd}
      BY <3>1 DEF TypeOK, DataTypeOK
    <3>5. QED BY <2>5, <3>1, <3>2, <3>3, <3>4 DEF SocketsOK
  <2>11. MainOK'
    BY <1>18, <2>5 DEF TypeOK, DataTypeOK, RefsTypeOK, ThreadTypeOK, MainOK, EventsOK, HeldOK, SocketsOK, Waiting, Uncovered, TestFd
  <2>12. QED BY <1>0a, <2>5, <2>6, <2>7, <2>8, <2>9, <2>10, <2>11
<1>19. ASSUME NEW t \in Threads, ClearFd(t) PROVE IInv'
  <2>5. InUse' = InUse /\ Placed'
    BY <1>19 DEF InUse, Free, Placed, ClearFd
  <2>6. Clocks'
    BY <1>19 DEF TypeOK, DataTypeOK, RefsTypeOK, ThreadTypeOK, Clocks, Busy, ClearFd
  <2>7. JobsOK'
    BY <1>19, <2>5 DEF TypeOK, DataTypeOK, RefsTypeOK, ThreadTypeOK, Clocks, JobsOK, EventsOK, WaitingOK, HeldOK, Waiting, Uncovered, ClearFd
  <2>8. EventsOK'
    BY <1>19, <2>5 DEF TypeOK, DataTypeOK, RefsTypeOK, ThreadTypeOK, Clocks, Busy, EventsOK, HeldOK, SocketsOK, ClearFd
  <2>9. WaitingOK' /\ TimersOK'
    BY <1>19, <2>5, WaitingStays DEF Waiting, ClearFd
  <2>10. SocketsOK'
    <3>1. UNCHANGED <<sock, armed, ref, tested>> /\ ref[t].conn \in Conns
      BY <1>0, <1>19 DEF ClearFd
    <3>2. \A u \in Threads : pc'[u] = IF u = t THEN "retire" ELSE pc[u]
      BY <1>19 DEF ClearFd, TypeOK, ThreadTypeOK
    <3>3. \A c \in Conns : fd'[c] = IF c = ref[t].conn THEN NoFd ELSE fd[c]
      BY <1>19 DEF ClearFd, TypeOK, DataTypeOK
    <3>4. \A g \in Fds : sock[g] # ref[t].conn /\ (sock[g] # NoConn => sock[g] \in Conns)
      BY <1>19 DEF ClearFd, SocketsOK, TypeOK, DataTypeOK
    <3>5. \A u \in Threads : pc[u] # "idle" => ref[u].conn \in Conns
      BY <1>0
    <3>6. QED BY <2>5, <3>1, <3>2, <3>3, <3>4, <3>5 DEF SocketsOK
  <2>11. MainOK'
    BY <1>19, <2>5 DEF TypeOK, DataTypeOK, RefsTypeOK, ThreadTypeOK, MainOK, EventsOK, HeldOK, SocketsOK, Waiting, Uncovered, ClearFd
  <2>12. QED BY <1>0a, <2>5, <2>6, <2>7, <2>8, <2>9, <2>10, <2>11
<1>20. ASSUME ReadClock PROVE IInv'
  <2>5. InUse' = InUse /\ Placed'
    BY <1>20 DEF InUse, Free, Placed, ReadClock
  <2>6. Clocks'
    BY <1>20 DEF TypeOK, DataTypeOK, RefsTypeOK, ThreadTypeOK, Clocks, Busy, ReadClock
  <2>7. JobsOK'
    BY <1>20, <2>5 DEF TypeOK, DataTypeOK, RefsTypeOK, ThreadTypeOK, Clocks, JobsOK, EventsOK, WaitingOK, HeldOK, Waiting, Uncovered, ReadClock
  <2>8. EventsOK'
    BY <1>20, <2>5 DEF TypeOK, DataTypeOK, RefsTypeOK, ThreadTypeOK, Clocks, Busy, EventsOK, HeldOK, SocketsOK, ReadClock
  <2>9. WaitingOK' /\ TimersOK'
    BY <1>20, <2>5, WaitingStays DEF Waiting, ReadClock
  <2>10. SocketsOK'
    BY <1>20, <2>5 DEF TypeOK, DataTypeOK, RefsTypeOK, ThreadTypeOK, SocketsOK, MainOK, ReadClock
  <2>11. MainOK'
    BY <1>20, <2>5 DEF TypeOK, DataTypeOK, RefsTypeOK, ThreadTypeOK, MainOK, EventsOK, HeldOK, SocketsOK, Waiting, Uncovered, ReadClock
  <2>12. QED BY <1>0a, <2>5, <2>6, <2>7, <2>8, <2>9, <2>10, <2>11
<1>21. ASSUME StartPass PROVE IInv'
  <2>5. InUse' = InUse /\ Placed'
    BY <1>21 DEF InUse, Free, Placed, StartPass
  <2>6. Clocks'
    BY <1>21 DEF TypeOK, DataTypeOK, RefsTypeOK, ThreadTypeOK, Clocks, Busy, StartPass
  <2>7. JobsOK'
    BY <1>21, <2>5 DEF TypeOK, DataTypeOK, RefsTypeOK, ThreadTypeOK, Clocks, JobsOK, EventsOK, WaitingOK, HeldOK, Waiting, Uncovered, StartPass
  <2>8. EventsOK'
    BY <1>21, <2>5 DEF TypeOK, DataTypeOK, RefsTypeOK, ThreadTypeOK, Clocks, Busy, EventsOK, HeldOK, SocketsOK, StartPass
  <2>9. WaitingOK' /\ TimersOK'
    BY <1>21, <2>5, WaitingStays DEF Waiting, StartPass
  <2>10. SocketsOK'
    BY <1>21, <2>5 DEF TypeOK, DataTypeOK, RefsTypeOK, ThreadTypeOK, SocketsOK, MainOK, StartPass
  <2>11. MainOK'
    BY <1>21, <2>5 DEF TypeOK, DataTypeOK, RefsTypeOK, ThreadTypeOK, MainOK, EventsOK, HeldOK, SocketsOK, Waiting, Uncovered, StartPass
  <2>12. QED BY <1>0a, <2>5, <2>6, <2>7, <2>8, <2>9, <2>10, <2>11
<1>22. ASSUME EndPass PROVE IInv'
  <2>5. InUse' = InUse /\ Placed'
    BY <1>22 DEF InUse, Free, Placed, EndPass
  <2>6. Clocks'
    BY <1>22 DEF TypeOK, DataTypeOK, RefsTypeOK, ThreadTypeOK, Clocks, Busy, EndPass
  <2>7. JobsOK'
    BY <1>22, <2>5 DEF TypeOK, DataTypeOK, RefsTypeOK, ThreadTypeOK, Clocks, JobsOK, EventsOK, WaitingOK, HeldOK, Waiting, Uncovered, EndPass
  <2>8. EventsOK'
    BY <1>22, <2>5 DEF TypeOK, DataTypeOK, RefsTypeOK, ThreadTypeOK, Clocks, Busy, EventsOK, HeldOK, SocketsOK, EndPass
  <2>9. WaitingOK' /\ TimersOK'
    BY <1>22, <2>5, WaitingStays DEF Waiting, EndPass
  <2>10. SocketsOK'
    BY <1>22, <2>5 DEF TypeOK, DataTypeOK, RefsTypeOK, ThreadTypeOK, SocketsOK, MainOK, EndPass
  <2>11. MainOK'
    BY <1>22, <2>5 DEF TypeOK, DataTypeOK, RefsTypeOK, ThreadTypeOK, MainOK, EventsOK, HeldOK, SocketsOK, Waiting, Uncovered, EndPass
  <2>12. QED BY <1>0a, <2>5, <2>6, <2>7, <2>8, <2>9, <2>10, <2>11
<1>23. ASSUME Tick PROVE IInv'
  <2>5. InUse' = InUse /\ Placed'
    BY <1>23 DEF InUse, Free, Placed, Tick
  <2>6. Clocks'
    <3>1. now' = now + 1 /\ UNCHANGED <<currtime, inRecyTime, since, pc, events>> BY <1>23 DEF Tick
    <3>2. \A t \in Threads : Busy(t)' = Busy(t)
      BY <3>1 DEF Tick, Busy
    <3>3. ASSUME NEW t \in Threads, Busy(t)' PROVE (now <= since[t] + MaxBusy)'
      BY <1>23, <3>1, <3>2, <3>3 DEF Tick, TypeOK, DataTypeOK, ThreadTypeOK, Clocks
    <3>5. /\ currtime' <= now'
          /\ \A c \in Conns : inRecyTime'[c] <= now'
          /\ \A t \in Threads : since'[t] <= now'
      BY <3>1 DEF Clocks, TypeOK, DataTypeOK, ThreadTypeOK
    <3>4. QED BY <3>3, <3>5, SMTT(30) DEF Clocks, Busy
  <2>7. JobsOK'
    BY <1>23, <2>5 DEF TypeOK, DataTypeOK, RefsTypeOK, ThreadTypeOK, Clocks, JobsOK, EventsOK, WaitingOK, HeldOK, Waiting, Uncovered, Tick
  <2>8. EventsOK'
    BY <1>23, <2>5 DEF TypeOK, DataTypeOK, RefsTypeOK, ThreadTypeOK, Clocks, Busy, EventsOK, HeldOK, SocketsOK, Tick
  <2>9. WaitingOK' /\ TimersOK'
    BY <1>23, <2>5, WaitingStays DEF Waiting, Tick
  <2>10. SocketsOK'
    BY <1>23, <2>5 DEF TypeOK, DataTypeOK, RefsTypeOK, ThreadTypeOK, SocketsOK, MainOK, Tick
  <2>11. MainOK'
    BY <1>23, <2>5 DEF TypeOK, DataTypeOK, RefsTypeOK, ThreadTypeOK, MainOK, EventsOK, HeldOK, SocketsOK, Waiting, Uncovered, Tick
  <2>12. QED BY <1>0a, <2>5, <2>6, <2>7, <2>8, <2>9, <2>10, <2>11
<1>24. ASSUME UNCHANGED vars PROVE IInv'
  <2>5. InUse' = InUse /\ Placed'
    BY <1>24 DEF InUse, Free, Placed, vars
  <2>6. Clocks'
    BY <1>24 DEF TypeOK, DataTypeOK, RefsTypeOK, ThreadTypeOK, Clocks, Busy, vars
  <2>7. JobsOK'
    BY <1>24, <2>5 DEF TypeOK, DataTypeOK, RefsTypeOK, ThreadTypeOK, Clocks, JobsOK, EventsOK, WaitingOK, HeldOK, Waiting, Uncovered, vars
  <2>8. EventsOK'
    BY <1>24, <2>5 DEF TypeOK, DataTypeOK, RefsTypeOK, ThreadTypeOK, Clocks, Busy, EventsOK, HeldOK, SocketsOK, vars
  <2>9. WaitingOK' /\ TimersOK'
    BY <1>24, <2>5, WaitingStays DEF Waiting, vars
  <2>10. SocketsOK'
    BY <1>24, <2>5 DEF TypeOK, DataTypeOK, RefsTypeOK, ThreadTypeOK, SocketsOK, MainOK, vars
  <2>11. MainOK'
    BY <1>24, <2>5 DEF TypeOK, DataTypeOK, RefsTypeOK, ThreadTypeOK, MainOK, EventsOK, HeldOK, SocketsOK, Waiting, Uncovered, vars
  <2>12. QED BY <1>0a, <2>5, <2>6, <2>7, <2>8, <2>9, <2>10, <2>11
<1>25. ASSUME NEW r \in events, Admit(r) PROVE IInv' BY <1>0a, <1>25, AdmitIInv
<1>26. CASE ArmFails BY <1>0a, <1>26, ArmFailsIInv
<1>27. ASSUME NEW t \in Threads, CloseSocket(t) PROVE IInv' BY <1>0a, <1>27, CloseSocketIInv
<1>28. ASSUME NEW t \in Threads, Retire(t) PROVE IInv' BY <1>0a, <1>28, RetireIInv
<1>29. ASSUME NEW c \in recyList, Recycle(c) PROVE IInv' BY <1>0a, <1>29, RecycleIInv
<1> HIDE DEF IInv
<1>30. QED
  BY <1>1, <1>2, <1>3, <1>4, <1>5, <1>6, <1>7, <1>8, <1>9, <1>10, <1>11, <1>12, <1>13, <1>14, <1>15, <1>16, <1>17, <1>18, <1>19, <1>20, <1>21, <1>22, <1>23, <1>24, <1>25, <1>26, <1>27, <1>28, <1>29
  DEF Next, MainStep, TimerStep, WorkerStep, CloseStep, RecyStep

-----------------------------------------------------------------------------
(* The pool as ngx_epoll_init() leaves it.                                 *)
LEMMA InitIInv ==
  ASSUME Init PROVE IInv
<1> USE PoolAssumption, ThreadAssumption, NumberAssumption DEF NoFd
<1>1. /\ freeList \in Seq(Conns) /\ IsInjective(freeList)
      /\ Free \subseteq InitPool \ Listeners
  <2>1. IsFiniteSet(InitPool \ Listeners)
    BY FS_Subset
  <2>2. Cardinality(InitPool \ Listeners) \in Nat
    BY <2>1, FS_CardinalityType
  <2> DEFINE n == Cardinality(InitPool \ Listeners)
  <2> HIDE DEF n
  <2>3. freeList \in { f \in [1..n -> InitPool \ Listeners] :
                         \A i, j \in 1..n : i # j => f[i] # f[j] }
    BY DEF Init, SetToSeqs, n
  <2>4. n \in Nat BY <2>2 DEF n
  <2>5. DOMAIN freeList = 1..n /\ \A i \in 1..n : freeList[i] \in InitPool \ Listeners
    BY <2>3
  <2>6. freeList \in Seq(Conns) BY <2>3, <2>4
  <2>7. IsInjective(freeList) BY <2>3, <2>5 DEF IsInjective
  <2>8. Free \subseteq InitPool \ Listeners BY <2>5 DEF Free, ToSet
  <2>9. QED BY <2>6, <2>7, <2>8
<1>2. DataTypeOK BY <1>1 DEF Init, DataTypeOK
<1>3. RefsTypeOK BY DEF Init, RefsTypeOK
<1>4. ThreadTypeOK BY DEF Init, ThreadTypeOK, Threads
<1>5. Placed BY <1>1 DEF Init, Placed
<1>6. Clocks
  <2>1. \A t \in Threads : ~Busy(t) BY DEF Init, Busy
  <2>2. QED BY <2>1 DEF Init, Clocks
<1>7. JobsOK /\ EventsOK BY DEF Init, JobsOK, EventsOK
<1>8. WaitingOK /\ TimersOK /\ Watched BY DEF Init, WaitingOK, Waiting, TimersOK, Watched
<1>9. SocketsOK BY DEF Init, SocketsOK
<1>10. MainOK BY DEF Init, MainOK, Threads
<1>11. QED BY <1>2, <1>3, <1>4, <1>5, <1>6, <1>7, <1>8, <1>9, <1>10 DEF IInv, TypeOK

(* What has gone wrong stays wrong.                                        *)
LEMMA MisledStays ==
  ASSUME misled, [Next]_vars PROVE misled'
<1> USE DEF refVars, msgVars
<1>1. ASSUME MainStep PROVE misled'
  BY <1>1 DEF MainStep, EpollWait, Arm, ArmFails, Count, Record, RecordNothing,
              RecordFlood, Refuse, AcceptNothing, Admit, Recv, RecvClosed
<1>2. ASSUME TimerStep PROVE misled'
  BY <1>2 DEF TimerStep, TimerScan, TimerKick, TimerSkip
<1>3. ASSUME NEW t \in Workers, WorkerStep(t) PROVE misled'
  BY <1>3 DEF WorkerStep, FinishMessage, Overflow, StartMessage, DropMessage
<1>4. ASSUME NEW t \in Threads, CloseStep(t) PROVE misled'
  BY <1>4 DEF CloseStep, TestFd, CloseSocket, ClearFd, Retire
<1>5. ASSUME RecyStep PROVE misled'
  BY <1>5 DEF RecyStep, ReadClock, StartPass, Recycle, EndPass
<1>6. QED BY <1>1, <1>2, <1>3, <1>4, <1>5 DEF Next, Tick, vars

(* The invariant holds until a handler with a wrong number closes.         *)
THEOREM Safety == Spec => [](misled \/ IInv)
<1>1. Init => misled \/ IInv BY InitIInv
<1>2. (misled \/ IInv) /\ [Next]_vars => (misled \/ IInv)'
  BY StepIInv, MisledStays
<1>3. QED BY <1>1, <1>2, PTL DEF Spec

(* Every variable keeps its type, and no thread is where it cannot be,     *)
(* whatever is misled.                                                     *)
THEOREM TypeCorrect == Spec => []TypeOK
<1>1. Init => TypeOK /\ Watched BY InitIInv DEF IInv
<1>2. TypeOK /\ Watched /\ [Next]_vars => TypeOK' /\ Watched'
  BY StepTypes, StepWatched
<1>3. QED BY <1>1, <1>2, PTL DEF Spec

(* A connection is never freed twice, nor retired while it is free: the    *)
(* free list, the recycling list and the clients share no connection.      *)
THEOREM EveryConnInOnePlace == Spec => []OnePlace
<1>1. misled \/ IInv => OnePlace BY DEF IInv, OnePlace
<1>2. QED BY <1>1, Safety, PTL

(* The delayed release: ServerRecyConnectionThread never gives away a      *)
(* connection that a thread still works on.                                *)
THEOREM DelayedRelease == Spec => []NoReuseWhileHeld
<1>1. misled \/ IInv => NoReuseWhileHeld
  <2> SUFFICES ASSUME IInv, NEW t \in Threads, NEW r \in Held(t), ~Uncovered(t)
               PROVE  /\ r.conn \notin Free
                      /\ seq[r.conn] = r.seq
                         \/ (r.conn \in recyList /\ seq[r.conn] = r.seq + 1)
    BY DEF NoReuseWhileHeld
  <2>1. r.conn \in InUse \cup recyList \cup Listeners => r.conn \notin Free
    <3>1. Listeners \cap Free = {} BY DEF IInv, Placed
    <3>2. QED BY <3>1 DEF IInv, Placed, InUse
  <2>2. HeldOK(t, r) => /\ r.conn \in InUse \cup recyList
                        /\ seq[r.conn] = r.seq
                           \/ (r.conn \in recyList /\ seq[r.conn] = r.seq + 1)
    BY DEF HeldOK
  <2>3. CASE pc[t] # "idle" /\ r = ref[t]
    BY <2>1, <2>2, <2>3 DEF IInv, JobsOK
  <2>4. CASE t = Main /\ r \in events
    BY <2>1, <2>2, <2>4 DEF IInv, EventsOK
  <2>5. QED BY <2>3, <2>4 DEF Held
<1>2. QED BY <1>1, Safety, PTL

(* What still passes the test if (p_Conn->iCurrsequence != ...) was made   *)
(* for the client that has the connection now.                             *)
THEOREM StaleNeverPasses == Spec => []OnlyLivePass
<1>1. misled \/ IInv => OnlyLivePass
  BY DEF IInv, WaitingOK, Waiting, LiveOrMisread, OnlyLivePass
<1>2. QED BY <1>1, Safety, PTL

(* No connection is recycled with its socket still open.                   *)
THEOREM SocketsAreClosed == Spec => []NoSocketLeak
<1>1. misled \/ IInv => NoSocketLeak
  <2> SUFFICES ASSUME IInv, NEW c \in Free \cup recyList
               PROVE  fd[c] = NoFd /\ \A f \in Fds : sock[f] # c
    BY DEF NoSocketLeak
  <2>1. c \in Conns \ InUse
    BY DEF IInv, Placed, InUse, TypeOK, DataTypeOK
  <2>2. fd[c] = NoFd BY <2>1 DEF IInv, SocketsOK
  <2>3. \A f \in Fds : sock[f] # c
    BY <2>1, <2>2, PoolAssumption DEF IInv, SocketsOK, NoFd
  <2>4. QED BY <2>2, <2>3
<1>2. QED BY <1>1, Safety, PTL

-----------------------------------------------------------------------------
(* The count of clients.                                                   *)

CountInv == IInv /\ OnlineExact /\ ClientsCapped /\ PoolBounded

(* Most steps leave clients, pool and count alone.                         *)
LEMMA QuietStep ==
  ASSUME IInv, [Next]_vars
  PROVE  \/ UNCHANGED <<InUse, pool, online, Uncounted>>
         \/ ArmFails \/ Count
         \/ \E r \in events : Admit(r)
         \/ \E t \in Threads : Retire(t)
<1> USE ThreadAssumption DEF IInv, InUse, Free, Uncounted, Goto, Return, Begin, Turn, Skip,
        Threads, poolVars, connVars, kernVars, refVars, msgVars, thrVars, recyVars, TypeOK, ThreadTypeOK
<1>1. ASSUME MainStep
      PROVE  \/ UNCHANGED <<InUse, pool, online, Uncounted>>
             \/ ArmFails \/ Count \/ \E r \in events : Admit(r)
  <2>1. CASE EpollWait BY <2>1 DEF EpollWait
  <2>2. CASE Arm BY <2>2 DEF Arm
  <2>3. CASE Record BY <2>3 DEF Record
  <2>4. CASE RecordNothing BY <2>4 DEF RecordNothing
  <2>5. CASE RecordFlood BY <2>5 DEF RecordFlood
  <2>6. ASSUME NEW r \in events, Refuse(r) \/ AcceptNothing(r)
        PROVE  UNCHANGED <<InUse, pool, online, Uncounted>>
    BY <2>6 DEF Refuse, AcceptNothing
  <2>7. ASSUME NEW r \in events, Recv(r) \/ RecvClosed(r)
        PROVE  UNCHANGED <<InUse, pool, online, Uncounted>>
    BY <2>7 DEF Recv, RecvClosed
  <2>8. QED BY <1>1, <2>1, <2>2, <2>3, <2>4, <2>5, <2>6, <2>7 DEF MainStep
<1>2. ASSUME TimerStep PROVE UNCHANGED <<InUse, pool, online, Uncounted>>
  BY <1>2 DEF TimerStep, TimerScan, TimerKick, TimerSkip
<1>3. ASSUME NEW t \in Workers, WorkerStep(t)
      PROVE  UNCHANGED <<InUse, pool, online, Uncounted>>
  BY <1>3 DEF WorkerStep, FinishMessage, Overflow, StartMessage, DropMessage
<1>4. ASSUME NEW t \in Threads, CloseStep(t), ~Retire(t)
      PROVE  UNCHANGED <<InUse, pool, online, Uncounted>>
  BY <1>4 DEF CloseStep, TestFd, CloseSocket, ClearFd
<1>5. ASSUME RecyStep PROVE UNCHANGED <<InUse, pool, online, Uncounted>>
  <2>1. ASSUME NEW c \in recyList, Recycle(c)
        PROVE  UNCHANGED <<InUse, pool, online, Uncounted>>
    <3>1. FreeConnection(c) /\ recyList' = recyList \ {c} /\ UNCHANGED <<pool, online, pc>>
      BY <2>1 DEF Recycle
    <3>2. ToSet(freeList)' = ToSet(freeList) \cup {c}
      BY <3>1, FreeEffect
    <3>3. QED BY <3>1, <3>2
  <2>2. QED BY <1>5, <2>1 DEF RecyStep, ReadClock, StartPass, EndPass
<1>6. ASSUME Tick \/ UNCHANGED vars PROVE UNCHANGED <<InUse, pool, online, Uncounted>>
  BY <1>6 DEF Tick, vars
<1>7. QED BY <1>1, <1>2, <1>3, <1>4, <1>5, <1>6 DEF Next

(* A step keeps the count of the connections in use.                       *)
LEMMA StepCountInv ==
  ASSUME CountInv, ~misled, ~misled', [Next]_vars PROVE CountInv'
<1> USE PoolAssumption, ThreadAssumption DEF CountInv
<1>1. IInv' BY StepIInv
<1>2. /\ IsFiniteSet(InUse) /\ Cardinality(InUse) \in Nat
      /\ IsFiniteSet(pool) /\ Cardinality(pool) \in Nat
      /\ WorkerConnections \in Nat \ {0} /\ online \in Int
  <2>1. pool \subseteq Conns /\ InUse \subseteq pool /\ online \in Int
    BY DEF IInv, TypeOK, DataTypeOK, InUse
  <2>2. IsFiniteSet(pool) /\ IsFiniteSet(InUse) BY <2>1, FS_Subset
  <2>3. IsFiniteSet(InitPool) BY FS_Subset
  <2>4. WorkerConnections # 0 BY <2>3, FS_EmptySet DEF WorkerConnections
  <2>5. QED BY <2>1, <2>2, <2>3, <2>4, FS_CardinalityType DEF WorkerConnections
<1>3. CASE UNCHANGED <<InUse, pool, online, Uncounted>>
  <2>1. ClientsCapped' /\ PoolBounded'
    BY <1>3 DEF ClientsCapped, PoolBounded
  <2>2. OnlineExact' BY <1>3 DEF OnlineExact, Uncounted
  <2>3. QED BY <1>1, <2>1, <2>2
<1>4. CASE Count
  <2>1. UNCHANGED <<InUse, pool>> /\ online' = online + 1 /\ pc[Main] = "count"
    BY <1>4 DEF Count, InUse, Free, poolVars
  <2>2. pc'[Main] = "idle"
    BY <1>4 DEF Count, Return, Goto, IInv, TypeOK, ThreadTypeOK, Threads
  <2>3. OnlineExact' BY <1>2, <2>1, <2>2 DEF OnlineExact, Uncounted
  <2>4. ClientsCapped' /\ PoolBounded' BY <2>1 DEF ClientsCapped, PoolBounded
  <2>5. QED BY <1>1, <2>3, <2>4
<1>5. CASE ArmFails
  <2> DEFINE c == ref[Main].conn
  <2>1. FreeConnection(c) /\ UNCHANGED <<pool, recyList, online>> /\ pc[Main] = "arm"
    BY <1>5 DEF ArmFails
  <2>2. pc'[Main] = "idle"
    BY <1>5 DEF ArmFails, Return, Goto, IInv, TypeOK, ThreadTypeOK, Threads
  <2>3. c \in InUse BY <2>1 DEF IInv, MainOK
  <2>4. InUse' = InUse \ {c}
    BY <2>1, <2>3, FreeEffect DEF IInv, InUse
  <2>a. IsFiniteSet(InUse) BY <1>2
  <2>b. Cardinality(InUse \ {c}) = Cardinality(InUse) - 1 BY <2>a, <2>3, FS_RemoveElement
  <2>5. Cardinality(InUse') = Cardinality(InUse) - 1 BY <2>b, <2>4
  <2>6. OnlineExact' BY <1>2, <2>1, <2>2, <2>5 DEF OnlineExact, Uncounted
  <2>7. ClientsCapped' /\ PoolBounded'
    BY <1>2, <2>1, <2>5 DEF ClientsCapped, PoolBounded
  <2>8. QED BY <1>1, <2>6, <2>7
<1>6. ASSUME NEW t \in Threads, Retire(t) PROVE CountInv'
  <2> DEFINE c == ref[t].conn
  <2>1. /\ pc[t] = "retire" /\ InRecyConnectQueue(c) /\ Return(t) /\ UNCHANGED poolVars
    BY <1>6 DEF Retire
  <2>2. UNCHANGED <<pool, Free>> BY <2>1 DEF poolVars, Free
  <2>3. Uncounted' = Uncounted
    BY <2>1 DEF Uncounted, Return, Goto, IInv, TypeOK, ThreadTypeOK, Threads
  <2>4. CASE Queued(c)
    <3>1. UNCHANGED <<InUse, pool, online, Uncounted>>
      BY <2>1, <2>2, <2>3, <2>4 DEF InRecyConnectQueue, InUse
    <3>2. QED BY <1>3, <3>1
  <2>5. CASE ~Queued(c)
    <3>1. recyList' = recyList \cup {c} /\ online' = online - 1
      BY <2>1, <2>5 DEF InRecyConnectQueue
    <3>2. c \in InUse BY <2>1, <2>5 DEF IInv, JobsOK, HeldOK, Uncovered, Queued
    <3>3. InUse' = InUse \ {c} BY <2>2, <3>1 DEF InUse
    <3>a. IsFiniteSet(InUse) BY <1>2
    <3>b. Cardinality(InUse \ {c}) = Cardinality(InUse) - 1
      BY <3>a, <3>2, FS_RemoveElement
    <3>4. Cardinality(InUse') = Cardinality(InUse) - 1 BY <3>b, <3>3
    <3>5. OnlineExact'
      <4>1. online = Cardinality(InUse) - Uncounted /\ Uncounted \in {0, 1}
        BY DEF OnlineExact, Uncounted
      <4>2. online' = Cardinality(InUse') - Uncounted'
        BY <1>2, <2>3, <3>1, <3>4, <4>1
      <4>3. QED BY <4>2 DEF OnlineExact, Uncounted
    <3>6. ClientsCapped' /\ PoolBounded'
      BY <1>2, <2>2, <3>4 DEF ClientsCapped, PoolBounded
    <3>7. QED BY <1>1, <3>5, <3>6
  <2>6. QED BY <2>4, <2>5
<1>7. ASSUME NEW r \in events, Admit(r) PROVE CountInv'
  <2>1. PICK f \in Fds, c \in Conns :
          GetConnection(c, f) /\ Turn([conn |-> c, seq |-> seq[c] + 1], "arm")
    BY <1>7 DEF Admit
  <2>2. /\ pc[Main] = "idle" /\ ~AtCapacity /\ ~PoolTooLarge
        /\ UNCHANGED <<recyList, online>>
    BY <1>7 DEF Admit
  <2>3. pc'[Main] = "arm"
    BY <2>1 DEF Turn, Goto, IInv, TypeOK, ThreadTypeOK, Threads
  <2>4. /\ c \notin InUse /\ InUse' = InUse \cup {c}
        /\ (pool' = pool \/ (c \notin pool /\ pool' = pool \cup {c} /\ freeList = <<>>))
    <3>1. CASE freeList # <<>> /\ c = Head(freeList) /\ freeList' = Tail(freeList) /\ UNCHANGED pool
      <4>1. freeList \in Seq(Conns) /\ IsInjective(freeList)
        BY DEF IInv, TypeOK, DataTypeOK, Placed
      <4>2. Free' = Free \ {c} BY <3>1, <4>1, TailOfFree DEF Free
      <4>3. c = freeList[1] /\ 1 \in DOMAIN freeList BY <3>1, <4>1
      <4>4. c \in Free BY <4>3 DEF Free, ToSet
      <4>5. c \in pool /\ c \notin recyList \cup Listeners
        BY <4>4 DEF IInv, Placed
      <4>6. QED BY <2>2, <3>1, <4>2, <4>4, <4>5 DEF InUse
    <3>2. CASE freeList = <<>> /\ c \in Conns \ pool /\ pool' = pool \cup {c} /\ UNCHANGED freeList
      <4>1. Free' = Free BY <3>2 DEF Free
      <4>2. c \notin Free \cup recyList \cup Listeners
        BY <3>2 DEF IInv, Placed
      <4>3. QED BY <2>2, <3>2, <4>1, <4>2 DEF InUse
    <3>3. QED BY <2>1, <3>1, <3>2 DEF GetConnection
  <2>5. Cardinality(InUse') = Cardinality(InUse) + 1
    BY <1>2, <2>4, FS_AddElement
  <2>6. OnlineExact' BY <1>2, <2>2, <2>3, <2>5 DEF OnlineExact, Uncounted
  <2>7. ClientsCapped'
    <3>1. online = Cardinality(InUse) /\ online < WorkerConnections
      BY <1>2, <2>2 DEF OnlineExact, Uncounted, AtCapacity
    <3>2. QED BY <1>2, <2>5, <3>1 DEF ClientsCapped
  <2>8. PoolBounded'
    <3>1. CASE pool' = pool BY <3>1 DEF PoolBounded
    <3>2. CASE c \notin pool /\ pool' = pool \cup {c} /\ freeList = <<>>
      <4>1. Len(freeList) = 0 BY <3>2
      <4>2. PoolFactor * WorkerConnections \in Nat BY <1>2, NumberAssumption
      <4>3. Cardinality(pool) <= PoolFactor * WorkerConnections
        BY <1>2, <2>2, <4>1, <4>2 DEF PoolTooLarge
      <4>4. Cardinality(pool') = Cardinality(pool) + 1
        BY <1>2, <3>2, FS_AddElement
      <4>5. Cardinality(pool') <= PoolFactor * WorkerConnections + 1
        BY <1>2, <4>2, <4>3, <4>4
      <4>6. QED BY <4>5 DEF PoolBounded, WorkerConnections
    <3>3. QED BY <2>4, <3>1, <3>2
  <2>9. QED BY <1>1, <2>6, <2>7, <2>8
<1>8. QED
  BY <1>3, <1>4, <1>5, <1>6, <1>7, QuietStep

(* At the start no connection is in use, and the count is 0.               *)
LEMMA InitCountInv ==
  ASSUME Init PROVE CountInv
<1>1. IInv BY InitIInv
<1>2. PoolBounded BY DEF Init, PoolBounded
<1>3. InUse = {}
  <2>1. InitPool \ Listeners \subseteq Free
    <3>1. IsFiniteSet(InitPool \ Listeners) BY PoolAssumption, FS_Subset
    <3> DEFINE S == InitPool \ Listeners
               n == Cardinality(S)
    <3>2. n \in Nat BY <3>1, FS_CardinalityType
    <3>3. freeList \in [1..n -> S] /\ \A i, j \in 1..n : i # j => freeList[i] # freeList[j]
      BY DEF Init, SetToSeqs
    <3>4. IsFiniteSet(1..n) /\ Cardinality(1..n) = n BY <3>2, FS_Interval
    <3> HIDE DEF n
    <3>5. freeList \in Injection(1..n, S)
      BY <3>3 DEF Injection, IsInjective
    <3>6. freeList \in Surjection(1..n, S)
      BY <3>1, <3>4, <3>5, FS_Injection DEF n
    <3>7. QED BY <3>3, <3>6 DEF Surjection, Free, ToSet
  <2>2. QED BY <2>1 DEF Init, InUse
<1>4. Cardinality(InUse) = 0 BY <1>3, FS_EmptySet
<1>5. OnlineExact
  <2>1. pc[Main] = "idle" /\ online = 0 BY DEF Init, Threads
  <2>2. Uncounted = 0 BY <2>1 DEF Uncounted
  <2>3. online = Cardinality(InUse) - 0 BY <1>4, <2>1
  <2>4. QED BY <2>2, <2>3 DEF OnlineExact
<1>6. WorkerConnections \in Nat
  BY PoolAssumption, FS_Subset, FS_CardinalityType DEF WorkerConnections
<1>7. ClientsCapped BY <1>4, <1>6 DEF ClientsCapped
<1>8. QED BY <1>1, <1>2, <1>5, <1>7 DEF CountInv

(* The counting invariant holds until then, too.                           *)
LEMMA CountSafety == Spec => [](misled \/ CountInv)
<1>1. Init => misled \/ CountInv BY InitCountInv
<1>2. (misled \/ CountInv) /\ [Next]_vars => (misled \/ CountInv)'
  BY StepCountInv, MisledStays
<1>3. QED BY <1>1, <1>2, PTL DEF Spec

(* However many threads close a connection, m_onlineUserCount goes down    *)
(* once for it.                                                            *)
THEOREM CountIsExact == Spec => []OnlineExact
<1>1. misled \/ CountInv => OnlineExact BY DEF CountInv, OnlineExact
<1>2. QED BY <1>1, CountSafety, PTL

(* The test in ngx_event_accept() keeps the clients at or below            *)
(* worker_connections, in spite of being made before the count goes up.    *)
THEOREM ClientsAreCapped == Spec => []ClientsCapped
<1>1. misled \/ CountInv => ClientsCapped BY DEF CountInv, ClientsCapped
<1>2. QED BY <1>1, CountSafety, PTL

(* The flood test bounds the pool by five times worker_connections and     *)
(* one, however fast clients come and go.                                  *)
THEOREM PoolIsBounded == Spec => []PoolBounded
<1>1. misled \/ CountInv => PoolBounded BY DEF CountInv, PoolBounded
<1>2. QED BY <1>1, CountSafety, PTL
=============================================================================
