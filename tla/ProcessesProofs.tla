--------------------------- MODULE ProcessesProofs ---------------------------
(***************************************************************************)
(* For every number of workers, clients and signals: no zombie is          *)
(* forgotten by the master, however its signals are merged and its         *)
(* handlers nested, and a client belongs to at most one worker.            *)
(***************************************************************************)
EXTENDS Processes, FiniteSetTheorems, SequenceTheorems, TLAPS

(* Until main() forks there are no workers; it does so with its handlers   *)
(* installed.                                                              *)
NoWorkersYet ==
  /\ ~caught => main \in {"load", "signals", "exited"}
  /\ main \in Starting \/ ~caught => \A w \in Workers : worker[w] = "none"

(* The backlog holds the clients that are queued, each once; a client      *)
(* nobody has accepted is nobody's, one that is served a living worker's.  *)
Queueing ==
  /\ \A i, j \in 1..Len(backlog) : backlog[i] = backlog[j] => i = j
  /\ \A c \in Clients : client[c] = "queued" <=> \E i \in 1..Len(backlog) : backlog[i] = c
  /\ \A c \in Clients : client[c] \in {"away", "queued"} => servedBy[c] = Nobody
  /\ \A c \in Clients : client[c] \in {"asks", "answered"} =>
       /\ servedBy[c] \in Workers
       /\ worker[servedBy[c]] \in {"forked", "init", "epoll", "accept"}

ProcInv == TypeOK /\ NoWorkersYet /\ NoZombieForgotten /\ Queueing

-----------------------------------------------------------------------------
(* The logging a thread is in: lines of the log, each interrupted by the   *)
(* handler that writes the next one, and no two for the same reason.       *)
Frame == [sig : Handled \cup {"own"}, at : {"log", "tz", "wait"}]
Stack(f) ==
  /\ f \in Seq(Frame)
  /\ \A i, j \in 1..Len(f) : f[i].sig = f[j].sig => i = j
In(f, s) == \E i \in 1..Len(f) : f[i].sig = s

(* Outside of a handler nothing nests.                                     *)
LEMMA NoLine ==
  Stack(<<>>) /\ ~In(<<>>, "CHLD")
<1>1. <<>> \in Seq(Frame) /\ Len(<<>>) = 0
  OBVIOUS
<1> QED BY <1>1 DEF Stack, In

(* Nor does a line of the process itself.                                  *)
LEMMA OneLine ==
  LET f == <<[sig |-> "own", at |-> "log"]>>
  IN  Stack(f) /\ f # <<>> /\ ~In(f, "CHLD")
<1> DEFINE g == [sig |-> "own", at |-> "log"]
<1>1. g \in Frame /\ g.sig = "own"
  BY DEF Frame
<1> HIDE DEF g
<1>2. <<g>> \in Seq(Frame) /\ Len(<<g>>) = 1 /\ <<g>>[1] = g
  BY <1>1
<1>3. Stack(<<g>>) /\ <<g>> # <<>> /\ ~In(<<g>>, "CHLD")
  BY <1>1, <1>2 DEF Stack, In
<1> QED BY <1>3 DEF g

(* Of the lines a thread is in, one is the innermost.                      *)
LEMMA TopFrame ==
  ASSUME NEW f, Stack(f), f # <<>>
  PROVE  /\ Len(f) \in Nat \ {0} /\ f[Len(f)] \in Frame
         /\ DOMAIN f = 1..Len(f)
<1>1. f \in Seq(Frame)
  BY DEF Stack
<1> HIDE DEF Frame
<1>2. Len(f) \in Nat /\ DOMAIN f = 1..Len(f)
  BY <1>1
<1>3. Len(f) # 0
  BY <1>1
<1> QED BY <1>1, <1>2, <1>3

(* When it ends, the thread returns to the one it interrupted.             *)
LEMMA Popped ==
  ASSUME NEW f, Stack(f), f # <<>>
  PROVE  /\ Stack(Front(f)) /\ Len(Front(f)) = Len(f) - 1
         /\ \A i \in 1..Len(f) - 1 : Front(f)[i] = f[i]
         /\ Front(f) # <<>> <=> Len(f) > 1
         /\ In(f, "CHLD") /\ Last(f).sig # "CHLD" => In(Front(f), "CHLD")
<1> DEFINE r == Front(f)
<1>1. /\ Len(f) \in Nat \ {0} /\ Len(r) = Len(f) - 1
      /\ r \in Seq(Frame)
      /\ \A i \in 1..Len(r) : r[i] = f[i]
  <2>1. Len(f) \in Nat \ {0} /\ f \in Seq(Frame)
    BY TopFrame DEF Stack
  <2> HIDE DEF Frame
  <2> DEFINE n == Len(f) - 1
             t == SubSeq(f, 1, n)
  <2>3. n \in Nat /\ 1 \in Int /\ n \in Int /\ \A i \in 1..n : f[i] \in Frame
    BY <2>1
  <2>4. /\ t \in Seq(Frame) /\ Len(t) = (IF 1 <= n THEN n - 1 + 1 ELSE 0)
        /\ \A i \in 1..n - 1 + 1 : t[i] = f[1 + i - 1]
    <3> HIDE DEF n
    <3> QED BY <2>3, SubSeqProperties
  <2>5. r = t /\ n = Len(f) - 1
    BY DEF Front
  <2> HIDE DEF n, t, r
  <2>6. Len(t) = n
    BY <2>3, <2>4
  <2>7. \A i \in 1..n : t[i] = f[i]
    <3>1. \A i \in 1..n : i \in 1..n - 1 + 1 /\ 1 + i - 1 = i
      BY <2>3
    <3> QED BY <2>4, <3>1
  <2> QED BY <2>1, <2>4, <2>5, <2>6, <2>7
<1> HIDE DEF r
<1>2. r # <<>> <=> Len(f) > 1
  BY <1>1
<1>3. Stack(r)
  BY <1>1 DEF Stack
<1>4. ASSUME In(f, "CHLD"), Last(f).sig # "CHLD"
      PROVE  In(r, "CHLD")
  BY <1>1, <1>4 DEF In, Last
<1> QED BY <1>1, <1>2, <1>3, <1>4 DEF r

(* A signal interrupts: the line of its handler is the innermost one.      *)
LEMMA Pushed ==
  ASSUME NEW f, Stack(f), NEW g \in Frame, ~In(f, g.sig)
  PROVE  /\ Stack(Append(f, g)) /\ Append(f, g) # <<>>
         /\ \A s : In(Append(f, g), s) <=> In(f, s) \/ s = g.sig
<1> DEFINE h == Append(f, g)
<1>1. /\ Len(f) \in Nat /\ Len(h) = Len(f) + 1 /\ h \in Seq(Frame)
      /\ \A i \in 1..Len(f) : h[i] = f[i]
      /\ h[Len(f) + 1] = g
  BY DEF Stack
<1> HIDE DEF h
<1>2. \A i \in 1..Len(f) : h[i].sig # g.sig
  BY <1>1 DEF In
<1>3. Stack(h)
  BY <1>1, <1>2 DEF Stack
<1>4. \A s : In(h, s) <=> In(f, s) \/ s = g.sig
  <2> TAKE s
  <2>1. Len(f) + 1 \in 1..Len(h) /\ \A i \in 1..Len(f) : i \in 1..Len(h)
    BY <1>1
  <2>2. \A i \in 1..Len(h) : i = Len(f) + 1 \/ i \in 1..Len(f)
    BY <1>1
  <2> QED BY <1>1, <2>1, <2>2 DEF In
<1>5. h # <<>>
  BY <1>1
<1> QED BY <1>3, <1>4, <1>5 DEF h

(* A handler goes on: which ones are nested stays the same.                *)
LEMMA Moved ==
  ASSUME NEW f, Stack(f), f # <<>>, NEW p \in {"log", "tz", "wait"}
  PROVE  LET g == Append(Front(f), [sig |-> Last(f).sig, at |-> p])
         IN  Stack(g) /\ g # <<>> /\ \A s : In(g, s) <=> In(f, s)
<1> DEFINE n == Len(f)
           r == Front(f)
           t == [sig |-> Last(f).sig, at |-> p]
<1>1. n \in Nat \ {0} /\ f[n] \in Frame
  BY TopFrame
<1>2. t \in Frame /\ t.sig = f[n].sig
  BY <1>1 DEF Frame, Last
<1>3. Stack(r) /\ Len(r) = n - 1 /\ \A i \in 1..n - 1 : r[i] = f[i]
  BY Popped
<1> HIDE DEF n, r, t
<1>4. \A i \in 1..n - 1 : f[i].sig # f[n].sig
  <2>1. \A i \in 1..n - 1 : i \in 1..n /\ n \in 1..n /\ i # n
    BY <1>1
  <2> QED BY <2>1 DEF Stack, n
<1>5. ~In(r, t.sig)
  BY <1>2, <1>3, <1>4 DEF In
<1>6. Stack(Append(r, t)) /\ Append(r, t) # <<>> /\ \A s : In(Append(r, t), s) <=> In(r, s) \/ s = t.sig
  BY <1>2, <1>3, <1>5, Pushed
<1>7. \A s : In(f, s) <=> In(r, s) \/ s = t.sig
  <2> TAKE s
  <2>1. n \in 1..n /\ \A i \in 1..n : i \in 1..n - 1 \/ i = n
    BY <1>1
  <2>2. \A i \in 1..n - 1 : i \in 1..n
    BY <1>1
  <2>3. In(f, s) <=> \E i \in 1..n : f[i].sig = s
    BY DEF In, n
  <2>4. In(r, s) <=> \E i \in 1..n - 1 : f[i].sig = s
    BY <1>3 DEF In
  <2> QED BY <1>2, <2>1, <2>2, <2>3, <2>4
<1> QED BY <1>6, <1>7 DEF r, t

-----------------------------------------------------------------------------
(* Types.                                                                  *)
MainTyped == main \in Starting \cup {"spawn", "suspend", "sleep", "exited"}
KernelTyped == pending \in [Procs -> SUBSET Signals] /\ sent \in 0..MaxSignals
ClientTyped ==
  /\ backlog \in Seq(Clients) /\ servedBy \in [Clients -> Workers \cup {Nobody}]
  /\ client \in [Clients -> {"away", "queued", "asks", "answered", "lost"}]
Worked ==
  /\ worker \in [Workers -> {"none", "never", "forked", "init", "epoll", "accept",
                             "zombie", "reaped"}]
  /\ hung \subseteq Running
Framed == frames \in [Procs -> Seq(Frame)] /\ \A p \in Procs : Stack(frames[p])
WhereHandled ==
  caught \in BOOLEAN /\ \A p \in Procs : frames[p] # <<>> => Open(p) /\ caught

(* The types, part by part.                                                *)
LEMMA TypeParts ==
  /\ TypeOK <=> MainTyped /\ KernelTyped /\ ClientTyped /\ WhereHandled /\ Framed /\ Worked
  /\ TypeOK' <=> MainTyped' /\ KernelTyped' /\ ClientTyped' /\ WhereHandled' /\ Framed' /\ Worked'
<1>1. Framed <=> /\ frames \in [Procs -> Seq(Frame)]
                 /\ \A p \in Procs : \A i, j \in 1..Len(frames[p]) :
                      frames[p][i].sig = frames[p][j].sig => i = j
  <2> HIDE DEF Frame
  <2> QED BY DEF Framed, Stack
<1>2. Framed' <=> /\ frames' \in [Procs -> Seq(Frame)]
                  /\ \A p \in Procs : \A i, j \in 1..Len(frames'[p]) :
                       frames'[p][i].sig = frames'[p][j].sig => i = j
  <2> HIDE DEF Frame
  <2> QED BY DEF Framed, Stack
<1>3. TypeOK <=> MainTyped /\ KernelTyped /\ ClientTyped /\ WhereHandled /\ Framed /\ Worked
  BY <1>1, Zenon DEF TypeOK, MainTyped, KernelTyped, ClientTyped, WhereHandled, Worked, Frame, Idle
<1>4. TypeOK' <=> MainTyped' /\ KernelTyped' /\ ClientTyped' /\ WhereHandled' /\ Framed' /\ Worked'
  BY <1>2, Zenon DEF TypeOK, MainTyped, KernelTyped, ClientTyped, WhereHandled, Worked, Frame, Idle
<1> QED BY <1>3, <1>4

(* What a step that leaves some variables alone keeps.                     *)
LEMMA Unchanged ==
  /\ frames' = frames /\ Framed => Framed'
  /\ frames' = frames => \A p \in Procs, s \in Signals : InHandler(p, s)' <=> InHandler(p, s)
  /\ UNCHANGED lives /\ Worked => Worked'
  /\ UNCHANGED kernelVars /\ KernelTyped => KernelTyped'
  /\ UNCHANGED clientVars /\ ClientTyped => ClientTyped'
BY DEF Framed, InHandler, lives, Worked, Running, InPlace, kernelVars, KernelTyped,
       clientVars, ClientTyped

(* One process goes on with its logging, the others do not.                *)
LEMMA Reframed ==
  ASSUME Framed, NEW p \in Procs, NEW g, Stack(g), frames' = [frames EXCEPT ![p] = g]
  PROVE  /\ Framed' /\ frames'[p] = g
         /\ \A q \in Procs \ {p} : frames'[q] = frames[q]
<1>1. g \in Seq(Frame)
  BY DEF Stack
<1> HIDE DEF Frame
<1> QED BY <1>1 DEF Framed

(* A process logs, or leaves all logging.                                  *)
LEMMA OwnLogged ==
  ASSUME Framed, NEW p \in Procs,
         OwnLog(p) \/ frames' = [frames EXCEPT ![p] = <<>>]
  PROVE  /\ Framed'
         /\ \A q \in Procs \ {p} : frames'[q] = frames[q]
         /\ ~InHandler(p, "CHLD")'
         /\ ~OwnLog(p) => frames'[p] = <<>>
<1>1. CASE OwnLog(p)
  <2>1. PICK g : Stack(g) /\ ~In(g, "CHLD") /\ frames' = [frames EXCEPT ![p] = g]
    BY <1>1, OneLine DEF OwnLog
  <2>2. Framed' /\ frames'[p] = g /\ \A q \in Procs \ {p} : frames'[q] = frames[q]
    BY <2>1, Reframed
  <2> QED BY <1>1, <2>1, <2>2 DEF InHandler, In
<1>2. CASE frames' = [frames EXCEPT ![p] = <<>>]
  <2>1. Framed' /\ frames'[p] = <<>> /\ \A q \in Procs \ {p} : frames'[q] = frames[q]
    BY <1>2, NoLine, Reframed
  <2> QED BY <2>1, NoLine DEF InHandler, In
<1> QED BY <1>1, <1>2

(* A line ends.                                                            *)
LEMMA Returned ==
  ASSUME Framed, NEW p \in Procs, frames[p] # <<>>, Return(p)
  PROVE  /\ Framed'
         /\ \A q \in Procs \ {p} : frames'[q] = frames[q]
         /\ \/ main' = main
            \/ p = Master /\ main = "suspend" /\ main' = "sleep" /\ frames'[p] = <<>>
         /\ p = Master /\ InHandler(p, "CHLD") /\ Last(frames[p]).sig # "CHLD"
              => InHandler(p, "CHLD")'
<1> DEFINE f == frames[p]
<1>1. Stack(f)
  BY DEF Framed
<1>2. CASE OwnLog(p) /\ p \in Workers
  BY <1>2, OwnLogged, ProcessesAssumption DEF Return
<1>3. CASE frames' = [frames EXCEPT ![p] = Front(@)]
  <2>1. /\ Stack(Front(f)) /\ (Front(f) # <<>> <=> Len(f) > 1)
        /\ In(f, "CHLD") /\ Last(f).sig # "CHLD" => In(Front(f), "CHLD")
    BY <1>1, Popped
  <2>2. /\ Framed' /\ frames'[p] = Front(f)
        /\ \A q \in Procs \ {p} : frames'[q] = frames[q]
    BY <1>3, <2>1, Reframed
  <2>3. Len(f) = 1 => frames'[p] = <<>>
    BY <2>1, <2>2
  <2>4. In(f, "CHLD") /\ Last(f).sig # "CHLD" => InHandler(p, "CHLD")'
    BY <2>1, <2>2 DEF InHandler, In
  <2> QED BY <2>2, <2>3, <2>4 DEF Return, InHandler, In
<1> QED BY <1>2, <1>3 DEF Return

(* A line goes on.                                                         *)
LEMMA WentOn ==
  ASSUME Framed, NEW p \in Procs, frames[p] # <<>>,
         NEW place \in {"log", "tz", "wait"}, Move(p, place)
  PROVE  /\ Framed' /\ frames'[p] # <<>>
         /\ \A q \in Procs \ {p} : frames'[q] = frames[q]
         /\ InHandler(p, "CHLD")' <=> InHandler(p, "CHLD")
<1> DEFINE f == frames[p]
           g == Append(Front(f), [sig |-> Last(f).sig, at |-> place])
<1>1. Stack(f)
  BY DEF Framed
<1>2. Stack(g) /\ g # <<>> /\ \A s : In(g, s) <=> In(f, s)
  BY <1>1, Moved
<1>3. frames' = [frames EXCEPT ![p] = g]
  BY DEF Move
<1> HIDE DEF g
<1>4. Framed' /\ frames'[p] = g /\ \A q \in Procs \ {p} : frames'[q] = frames[q]
  BY <1>2, <1>3, Reframed
<1> QED BY <1>2, <1>4 DEF InHandler, In

-----------------------------------------------------------------------------
(* The steps, by what they do.                                             *)
StartStep ==
  \/ LoadConfig \/ InitSignals \/ OpenListeners \/ Daemonize \/ Quit \/ BlockSignals
  \/ EnterLoop \/ EndSleep \/ \E w \in Workers : Spawn(w)
LogStep(p) == LockTimezone(p) \/ EndLog(p) \/ \E s \in Signals : Handle(p, s)
ReapStep == \/ WaitpidNone \/ \E s \in Signals : DefaultAction(s)
            \/ \E w \in Workers : Waitpid(w)
WorkStep(w) ==
  \/ Unblock(w) \/ InitWorker(w) \/ EpollAccept(w) \/ Accept(w) \/ AcceptNone(w)
  \/ \E s \in Signals : HandledElsewhere(w, s)
  \/ \E c \in Clients : Answer(w, c)
OutsideStep ==
  \/ KillMaster \/ \E w \in Workers : StopWorker(w)
  \/ \E p \in Procs, s \in Signals : Kill(p, s)
  \/ \E c \in Clients : Connect(c)

(* Every step is one of these.                                             *)
LEMMA ByParts ==
  ASSUME Next
  PROVE  \/ StartStep \/ ReapStep \/ OutsideStep
         \/ \E p \in Procs : LogStep(p)
         \/ \E w \in Workers : WorkStep(w) \/ (w \in Alive /\ Die(w))
<1>1. CASE MasterStep
  BY <1>1 DEF MasterStep, StartStep, LogStep, ReapStep, Procs
<1>2. CASE Outside
  BY <1>2 DEF Outside, OutsideStep, Crash
<1>3. ASSUME NEW w \in Workers, WorkerStep(w)
      PROVE  LogStep(w) \/ WorkStep(w) \/ (w \in Alive /\ Die(w))
  <2>1. w \in Running => w \in Alive
    BY DEF Running, Alive, InPlace
  <2> QED BY <1>3, <2>1 DEF WorkerStep, FirstThread, EndedBySignal, LogStep, WorkStep
<1> QED BY <1>1, <1>2, <1>3 DEF Next, Procs

(* Logging, and the beginning of a handler, is a matter of one process and *)
(* leaves the master a SIGCHLD to come, or its handler, if there is one.   *)
LEMMA LogEffect ==
  ASSUME TypeOK, NEW p \in Procs, LogStep(p)
  PROVE  /\ Framed' /\ \A q \in Procs \ {p} : frames'[q] = frames[q]
         /\ UNCHANGED <<caught, worker, hung, backlog, client, servedBy>>
         /\ KernelTyped' /\ Open(p) /\ caught
         /\ \/ main' = main
            \/ p = Master /\ main = "suspend" /\ main' = "sleep" /\ frames'[p] = <<>>
         /\ "CHLD" \in pending[Master] \/ InHandler(Master, "CHLD")
              => "CHLD" \in pending'[Master] \/ InHandler(Master, "CHLD")'
<1> USE TypeParts
<1>m. Master \in Procs
  BY DEF Procs
<1>o. (\A q \in Procs \ {p} : frames'[q] = frames[q]) /\ p # Master
        => (InHandler(Master, "CHLD")' <=> InHandler(Master, "CHLD"))
  BY <1>m DEF InHandler
<1>1. ASSUME NEW s \in Signals, Handle(p, s)
      PROVE  /\ Framed' /\ \A q \in Procs \ {p} : frames'[q] = frames[q]
             /\ KernelTyped' /\ Open(p) /\ caught
             /\ "CHLD" \in pending[Master] \/ InHandler(Master, "CHLD")
                  => "CHLD" \in pending'[Master] \/ InHandler(Master, "CHLD")'
  <2> DEFINE f == frames[p]
             l == [sig |-> s, at |-> "log"]
             g == Append(f, l)
  <2>1. Stack(f) /\ l \in Frame /\ l.sig = s
    BY <1>1 DEF Framed, Frame, Handle, Handled, Signals
  <2>2. ~In(f, s)
    BY <1>1 DEF Handle, Deliverable, InHandler, In
  <2>3. frames' = [frames EXCEPT ![p] = g]
    BY <1>1 DEF Handle
  <2> HIDE DEF l
  <2>4. Stack(g) /\ \A t : In(g, t) <=> In(f, t) \/ t = s
    BY <2>1, <2>2, Pushed
  <2> HIDE DEF g
  <2>5. Framed' /\ frames'[p] = g /\ \A q \in Procs \ {p} : frames'[q] = frames[q]
    BY <2>3, <2>4, Reframed
  <2>6. InHandler(p, "CHLD")' <=> InHandler(p, "CHLD") \/ s = "CHLD"
    BY <2>4, <2>5 DEF InHandler, In
  <2>7. KernelTyped' /\ Open(p) /\ caught
    BY <1>1 DEF Handle, TakeFrom, Deliverable, KernelTyped
  <2>8. "CHLD" \in pending[Master] /\ (p # Master \/ s # "CHLD") => "CHLD" \in pending'[Master]
    BY <1>1, <1>m DEF Handle, TakeFrom, KernelTyped
  <2> QED BY <2>5, <2>6, <2>7, <2>8, <1>o
<1>2. ASSUME LockTimezone(p) PROVE
        /\ Framed' /\ \A q \in Procs \ {p} : frames'[q] = frames[q]
        /\ InHandler(Master, "CHLD")' <=> InHandler(Master, "CHLD")
  BY <1>2, <1>o, WentOn DEF LockTimezone, Top
<1>3. ASSUME EndLog(p) PROVE
        /\ Framed' /\ \A q \in Procs \ {p} : frames'[q] = frames[q]
        /\ \/ main' = main
           \/ p = Master /\ main = "suspend" /\ main' = "sleep" /\ frames'[p] = <<>>
        /\ InHandler(Master, "CHLD") => InHandler(Master, "CHLD")'
  <2>1. CASE Last(frames[p]).sig = "CHLD" /\ Move(p, "wait") /\ UNCHANGED main
    BY <1>3, <2>1, <1>o, WentOn DEF EndLog, Top
  <2>2. CASE Last(frames[p]).sig # "CHLD" /\ Return(p)
    BY <1>3, <2>2, <1>o, Returned DEF EndLog, Top
  <2> QED BY <1>3, <2>1, <2>2 DEF EndLog
<1>4. ASSUME LockTimezone(p) \/ EndLog(p)
      PROVE  /\ UNCHANGED <<caught, worker, hung, backlog, client, servedBy, pending, sent>>
             /\ Open(p) /\ caught
  BY <1>4 DEF LockTimezone, EndLog, Top, lives, clientVars, kernelVars, WhereHandled
<1>5. CASE LockTimezone(p) \/ EndLog(p)
  BY <1>2, <1>3, <1>4, <1>5 DEF LockTimezone, KernelTyped
<1>6. CASE \E s \in Signals : Handle(p, s)
  BY <1>1, <1>6 DEF Handle, lives, clientVars
<1> QED BY <1>5, <1>6 DEF LogStep

(* A master that exits leaves its logging, and its zombies are reaped.     *)
LEMMA ExitEffect ==
  ASSUME Worked, Framed, Exit
  PROVE  /\ Worked' /\ Framed' /\ main' = "exited" /\ Running' = Running
         /\ frames'[Master] = <<>> /\ \A q \in Procs \ {Master} : frames'[q] = frames[q]
         /\ \A w \in Workers : worker'[w] = IF worker[w] = "zombie" THEN "reaped" ELSE worker[w]
<1>1. Master \in Procs /\ frames' = [frames EXCEPT ![Master] = <<>>]
  BY DEF Procs, Exit
<1>2. /\ Framed' /\ frames'[Master] = <<>>
      /\ \A q \in Procs \ {Master} : frames'[q] = frames[q]
  BY <1>1, NoLine, Reframed
<1>3. /\ \A w \in Workers : worker'[w] = IF worker[w] = "zombie" THEN "reaped" ELSE worker[w]
      /\ worker' \in [Workers -> {"none", "never", "forked", "init", "epoll", "accept",
                                  "zombie", "reaped"}]
      /\ hung' = hung /\ main' = "exited"
  BY DEF Exit, Worked, Zombies, InPlace
<1>4. Running' = Running
  BY <1>3 DEF Running, InPlace
<1> QED BY <1>2, <1>3, <1>4 DEF Worked

(* A worker goes on, which is its own matter and perhaps a client's.       *)
LEMMA WorkEffect ==
  ASSUME TypeOK, NEW w \in Workers, WorkStep(w)
  PROVE  /\ Framed' /\ \A q \in Procs \ {w} : frames'[q] = frames[q]
         /\ UNCHANGED <<main, caught>> /\ KernelTyped' /\ Worked'
         /\ pending'[Master] = pending[Master]
         /\ \A v \in Workers \ {w} : worker'[v] = worker[v]
         /\ worker[w] \in {"forked", "init", "epoll", "accept"}
         /\ worker'[w] \in {"init", "epoll", "accept"}
<1> USE TypeParts
<1>p. w \in Procs /\ Master \in Procs /\ Master # w
  BY ProcessesAssumption DEF Procs
<1>1. UNCHANGED <<main, caught>>
  BY DEF WorkStep, Unblock, InitWorker, EpollAccept, Accept, AcceptNone,
         HandledElsewhere, Answer
<1>2. UNCHANGED frames \/ OwnLog(w)
  BY DEF WorkStep, Unblock, InitWorker, EpollAccept, Accept, AcceptNone,
         HandledElsewhere, Answer, EndRound
<1>3. Framed' /\ \A q \in Procs \ {w} : frames'[q] = frames[q]
  BY <1>2, <1>p, OwnLogged, Unchanged
<1>4. UNCHANGED kernelVars \/ \E s \in Signals : TakeFrom(w, s) /\ sent' = sent
  BY DEF WorkStep, Unblock, InitWorker, EpollAccept, Accept, AcceptNone,
         HandledElsewhere, Answer
<1>5. KernelTyped' /\ pending'[Master] = pending[Master]
  BY <1>4, <1>p DEF kernelVars, TakeFrom, KernelTyped
<1>6. \/ \E p \in {"init", "epoll", "accept"} : Goto(w, p)
      \/ UNCHANGED worker /\ hung' \subseteq hung \cup {w}
  BY DEF WorkStep, Unblock, InitWorker, EpollAccept, Accept, AcceptNone,
         HandledElsewhere, Answer, lives
<1>7. /\ worker[w] \in {"forked", "init", "epoll", "accept"}
      /\ UNCHANGED worker => worker[w] \in {"init", "epoll", "accept"}
  BY DEF WorkStep, Unblock, InitWorker, EpollAccept, Accept, AcceptNone,
         HandledElsewhere, Answer, Running, InPlace, Goto, Worked
<1>8. /\ \A v \in Workers \ {w} : worker'[v] = worker[v]
      /\ worker'[w] \in {"init", "epoll", "accept"}
      /\ worker' \in [Workers -> {"none", "never", "forked", "init", "epoll", "accept",
                                  "zombie", "reaped"}]
      /\ hung' \subseteq hung \cup {w}
  BY <1>6, <1>7 DEF Goto, Worked
<1>9. Worked'
  BY <1>8 DEF Worked, Running, InPlace
<1> QED BY <1>1, <1>3, <1>5, <1>7, <1>8, <1>9

(* A worker that ends is no longer in its log, and the master is told.     *)
LEMMA DieEffect ==
  ASSUME TypeOK, NEW w \in Workers, Die(w)
  PROVE  /\ Framed' /\ frames'[w] = <<>> /\ \A q \in Procs \ {w} : frames'[q] = frames[q]
         /\ UNCHANGED <<main, caught>> /\ KernelTyped' /\ ClientTyped' /\ Worked'
         /\ MasterLives => "CHLD" \in pending'[Master]
         /\ \A v \in Workers \ {w} : worker'[v] = worker[v]
         /\ worker'[w] # "none"
<1> USE TypeParts
<1>p. w \in Procs /\ Master \in Procs /\ Master # w
  BY ProcessesAssumption DEF Procs
<1>1. /\ Framed' /\ frames'[w] = <<>>
      /\ \A q \in Procs \ {w} : frames'[q] = frames[q]
  BY <1>p, NoLine, Reframed DEF Die
<1>2. UNCHANGED <<main, caught>> /\ ClientTyped'
  BY DEF Die, ClientTyped
<1>3. KernelTyped' /\ (MasterLives => "CHLD" \in pending'[Master])
  <2>1. pending' \in [Procs -> SUBSET Signals]
    BY <1>p DEF Die, KernelTyped, Signals, Handled
  <2>2. MasterLives => "CHLD" \in pending'[Master]
    BY <1>p DEF Die, KernelTyped
  <2> QED BY <2>1, <2>2 DEF Die, KernelTyped
<1>4. /\ \A v \in Workers \ {w} : worker'[v] = worker[v]
      /\ worker'[w] \in {"zombie", "reaped"}
      /\ worker' \in [Workers -> {"none", "never", "forked", "init", "epoll", "accept",
                                  "zombie", "reaped"}]
      /\ hung' = hung \ {w}
  BY DEF Die, Worked
<1>5. Worked'
  BY <1>4 DEF Worked, Running, InPlace
<1> QED BY <1>1, <1>2, <1>3, <1>4, <1>5

(* Handlers stay where they may run, if those that are left in one may     *)
(* still be and the one that moved may.                                    *)
LEMMA StillHandled ==
  ASSUME WhereHandled, NEW p \in Procs, caught' \in BOOLEAN, caught => caught',
         \A q \in Procs \ {p} : frames'[q] = frames[q] /\ (Open(q) => Open(q)'),
         frames'[p] # <<>> => Open(p)' /\ caught'
  PROVE  WhereHandled'
<1> SUFFICES ASSUME NEW q \in Procs, frames'[q] # <<>>
             PROVE  Open(q)' /\ caught'
  BY DEF WhereHandled
<1>1. CASE q = p
  BY <1>1
<1>2. CASE q # p
  BY <1>2 DEF WhereHandled
<1> QED BY <1>1, <1>2

(* What a worker may take does not depend on the master, nor that on it.   *)
LEMMA OpenStays ==
  /\ \A q \in Workers : Running \subseteq Running' /\ Open(q) => Open(q)'
  /\ main' = main /\ Open(Master) => Open(Master)'
  /\ main' = main /\ Running \subseteq Running'
       => \A q \in Procs : Open(q) => Open(q)'
BY ProcessesAssumption DEF Open, Procs

(* The start of the master keeps the types.                                *)
LEMMA StartTyped ==
  ASSUME TypeOK, NoWorkersYet, StartStep PROVE TypeOK'
<1> USE TypeParts
<1>m. Master \in Procs /\ Procs \ {Master} \subseteq Workers
  BY DEF Procs
<1>1. ASSUME Exit, caught' \in BOOLEAN, caught => caught', UNCHANGED <<kernelVars, clientVars>>
      PROVE  TypeOK'
  <2>1. /\ Worked' /\ Framed' /\ main' = "exited" /\ Running' = Running
        /\ frames'[Master] = <<>> /\ \A q \in Procs \ {Master} : frames'[q] = frames[q]
    BY <1>1, ExitEffect
  <2>2. WhereHandled'
    BY <1>1, <1>m, <2>1, StillHandled, OpenStays
  <2> QED BY <1>1, <2>1, <2>2, Unchanged DEF MainTyped
(* A step of the master with its logging left.                             *)
<1>2. ASSUME frames' = frames, frames[Master] = <<>>, UNCHANGED <<lives, kernelVars, clientVars>>,
             MainTyped', caught' \in BOOLEAN, caught => caught'
      PROVE  TypeOK'
  <2>1. Running' = Running
    BY <1>2 DEF Running, InPlace, lives
  <2>2. WhereHandled'
    BY <1>2, <1>m, <2>1, StillHandled, OpenStays
  <2> QED BY <1>2, <2>2, Unchanged
<1>3. ASSUME OwnLog(Master), UNCHANGED <<caught, lives, kernelVars, clientVars>>,
             main' \in Starting, caught
      PROVE  TypeOK'
  <2>1. Framed' /\ \A q \in Procs \ {Master} : frames'[q] = frames[q]
    BY <1>3, <1>m, OwnLogged
  <2>2. Running' = Running /\ Open(Master)'
    BY <1>3 DEF Running, InPlace, lives, Open
  <2>3. WhereHandled'
    BY <1>3, <1>m, <2>1, <2>2, StillHandled, OpenStays DEF WhereHandled
  <2> QED BY <1>3, <2>1, <2>3, Unchanged DEF MainTyped
<1>4. CASE LoadConfig \/ InitSignals
  BY <1>1, <1>2, <1>4 DEF LoadConfig, InitSignals, Advance, Idle, MainTyped, Starting, WhereHandled
<1>5. CASE OpenListeners \/ Daemonize
  <2>1. caught /\ main' \in Starting
    BY <1>5 DEF NoWorkersYet, OpenListeners, Daemonize, Starting, WhereHandled
  <2> QED BY <1>2, <1>3, <1>5, <2>1 DEF OpenListeners, Daemonize, Idle, MainTyped
<1>6. CASE Quit
  BY <1>1, <1>6 DEF Quit, WhereHandled
<1>7. CASE BlockSignals \/ EnterLoop \/ EndSleep
  <2>1. frames[Master] = <<>>
    BY <1>7, <1>m DEF BlockSignals, EnterLoop, EndSleep, WhereHandled, Open, Starting, Idle
  <2> QED BY <1>2, <1>7, <2>1
           DEF BlockSignals, EnterLoop, EndSleep, WhereHandled, MainTyped
<1>8. ASSUME NEW w \in Workers, Spawn(w) PROVE TypeOK'
  <2>1. /\ worker' \in [Workers -> {"none", "never", "forked", "init", "epoll", "accept",
                                    "zombie", "reaped"}]
        /\ hung' = hung /\ Running' = Running
    BY <1>8 DEF Spawn, Worked, Running, InPlace
  <2>2. Worked' /\ frames[Master] = <<>>
    BY <1>8, <1>m, <2>1 DEF Worked, Spawn, WhereHandled, Open, Starting
  <2>3. WhereHandled'
    BY <1>8, <1>m, <2>1, <2>2, StillHandled, OpenStays DEF Spawn, WhereHandled
  <2> QED BY <1>8, <2>2, <2>3, Unchanged DEF Spawn, MainTyped
<1> QED BY <1>4, <1>5, <1>6, <1>7, <1>8 DEF StartStep

(* The logging of any process keeps them, and so does a new handler.       *)
LEMMA LogTyped ==
  ASSUME TypeOK, NEW p \in Procs, LogStep(p) PROVE TypeOK'
<1> USE TypeParts
<1>1. /\ Framed' /\ \A q \in Procs \ {p} : frames'[q] = frames[q]
      /\ UNCHANGED <<caught, worker, hung, backlog, client, servedBy>>
      /\ KernelTyped' /\ Open(p) /\ caught
      /\ \/ main' = main
         \/ p = Master /\ main = "suspend" /\ main' = "sleep" /\ frames'[p] = <<>>
  BY LogEffect
<1>2. Running' = Running
  BY <1>1 DEF Running, InPlace
<1>3. WhereHandled'
  <2>1. CASE main' = main
    <3>1. \A q \in Procs : Open(q) => Open(q)'
      BY <1>2, <2>1, OpenStays
    <3> QED BY <1>1, <3>1, StillHandled DEF WhereHandled
  <2>2. CASE p = Master /\ frames'[p] = <<>>
    <3>1. \A q \in Procs \ {Master} : Open(q) => Open(q)'
      BY <1>2, OpenStays DEF Procs
    <3> QED BY <1>1, <2>2, <3>1, StillHandled DEF WhereHandled
  <2> QED BY <1>1, <2>1, <2>2
<1> QED BY <1>1, <1>2, <1>3 DEF Worked, MainTyped, ClientTyped

(* So do the ends of the master's handlers, and the default actions.       *)
LEMMA ReapTyped ==
  ASSUME TypeOK, ReapStep PROVE TypeOK'
<1> USE TypeParts
<1>m. Master \in Procs /\ Procs \ {Master} \subseteq Workers
  BY DEF Procs
<1>1. ASSUME NEW s \in Signals, DefaultAction(s) PROVE TypeOK'
  <2>1. KernelTyped' /\ ClientTyped' /\ caught' = caught
    BY <1>1 DEF DefaultAction, TakeFrom, KernelTyped, clientVars, ClientTyped
  <2>2. CASE Exit
    <3>1. /\ Worked' /\ Framed' /\ main' = "exited" /\ Running' = Running
          /\ frames'[Master] = <<>> /\ \A q \in Procs \ {Master} : frames'[q] = frames[q]
      BY <2>2, ExitEffect
    <3>2. WhereHandled'
      BY <1>m, <2>1, <3>1, StillHandled, OpenStays DEF WhereHandled
    <3> QED BY <2>1, <3>1, <3>2 DEF MainTyped
  <2>3. CASE UNCHANGED <<main, frames, lives>>
    <3>1. Running' = Running
      BY <2>3 DEF Running, InPlace, lives
    <3>2. WhereHandled'
      BY <1>m, <2>1, <2>3, <3>1, StillHandled, OpenStays DEF WhereHandled
    <3> QED BY <2>1, <2>3, <3>2, Unchanged DEF MainTyped
  <2> QED BY <1>1, <2>2, <2>3 DEF DefaultAction
<1>2. ASSUME WaitpidNone PROVE TypeOK'
  <2>1. /\ Framed' /\ \A q \in Procs \ {Master} : frames'[q] = frames[q]
        /\ \/ main' = main
           \/ main = "suspend" /\ main' = "sleep" /\ frames'[Master] = <<>>
    BY <1>2, <1>m, Returned DEF WaitpidNone, Top
  <2>2. Running' = Running /\ caught' = caught
    BY <1>2 DEF WaitpidNone, Running, InPlace, lives
  <2>3. WhereHandled'
    BY <1>2, <1>m, <2>1, <2>2, StillHandled, OpenStays DEF WhereHandled, WaitpidNone, Top
  <2> QED BY <1>2, <2>1, <2>3, Unchanged DEF WaitpidNone, MainTyped
<1>3. ASSUME NEW w \in Workers, Waitpid(w) PROVE TypeOK'
  <2>1. /\ Framed' /\ \A q \in Procs \ {Master} : frames'[q] = frames[q]
    BY <1>3, <1>m, WentOn DEF Waitpid, Top
  <2>2. Worked' /\ Running' = Running /\ UNCHANGED <<main, caught>>
    <3>1. /\ worker' \in [Workers -> {"none", "never", "forked", "init", "epoll", "accept",
                                      "zombie", "reaped"}]
          /\ hung' = hung /\ Running' = Running
      BY <1>3 DEF Waitpid, Worked, Zombies, Running, InPlace
    <3> QED BY <1>3, <3>1 DEF Worked, Waitpid
  <2>3. WhereHandled'
    BY <1>3, <1>m, <2>1, <2>2, StillHandled, OpenStays DEF WhereHandled, Waitpid, Top
  <2> QED BY <1>3, <2>1, <2>2, <2>3, Unchanged DEF Waitpid, MainTyped
<1> QED BY <1>1, <1>2, <1>3 DEF ReapStep

(* So do a worker's steps, and its end.                                    *)
LEMMA WorkTyped ==
  ASSUME TypeOK, NoWorkersYet, NEW w \in Workers, WorkStep(w) \/ Die(w) PROVE TypeOK'
<1> USE TypeParts
<1>p. w \in Procs /\ w # Master
  BY ProcessesAssumption DEF Procs
<1>1. CASE WorkStep(w)
  <2>1. /\ Framed' /\ \A q \in Procs \ {w} : frames'[q] = frames[q]
        /\ UNCHANGED <<main, caught>> /\ KernelTyped' /\ Worked'
        /\ \A v \in Workers \ {w} : worker'[v] = worker[v]
        /\ worker[w] \in {"forked", "init", "epoll", "accept"}
        /\ worker'[w] \in {"init", "epoll", "accept"}
    BY <1>1, WorkEffect
  <2>2. Running \subseteq Running' /\ w \in Running'
    BY <2>1 DEF Running, InPlace
  <2>3. caught /\ Open(w)'
    BY <1>p, <2>1, <2>2 DEF NoWorkersYet, Open, WhereHandled
  <2>4. WhereHandled'
    BY <1>p, <2>1, <2>2, <2>3, StillHandled, OpenStays DEF WhereHandled
  <2>5. CASE Accept(w)
    <3>1. Head(backlog) \in Clients /\ Tail(backlog) \in Seq(Clients)
      BY <2>5 DEF Accept, ClientTyped
    <3>2. ClientTyped'
      BY <2>5, <3>1 DEF Accept, ClientTyped
    <3> QED BY <2>1, <2>4, <3>2 DEF MainTyped
  <2>6. CASE \E c \in Clients : Answer(w, c)
    <3>1. ClientTyped'
      BY <2>6 DEF Answer, ClientTyped
    <3> QED BY <2>1, <2>4, <3>1 DEF MainTyped
  <2>7. CASE UNCHANGED clientVars
    BY <2>1, <2>4, <2>7, Unchanged DEF MainTyped
  <2> QED BY <1>1, <2>5, <2>6, <2>7
           DEF WorkStep, Unblock, InitWorker, EpollAccept, AcceptNone, HandledElsewhere
<1>2. CASE Die(w)
  <2>1. /\ Framed' /\ frames'[w] = <<>> /\ \A q \in Procs \ {w} : frames'[q] = frames[q]
        /\ UNCHANGED <<main, caught>> /\ KernelTyped' /\ ClientTyped' /\ Worked'
        /\ \A v \in Workers \ {w} : worker'[v] = worker[v]
    BY <1>2, DieEffect
  <2>2. \A q \in Procs \ {w} : Open(q) => Open(q)'
    BY <2>1 DEF Open, Procs, Running, InPlace
  <2>3. WhereHandled'
    BY <1>p, <2>1, <2>2, StillHandled DEF WhereHandled
  <2> QED BY <2>1, <2>3 DEF MainTyped
<1> QED BY <1>1, <1>2

(* So does what others do.                                                 *)
LEMMA OutsideTyped ==
  ASSUME TypeOK, OutsideStep PROVE TypeOK'
<1> USE TypeParts
<1>m. Master \in Procs /\ Procs \ {Master} \subseteq Workers
  BY DEF Procs
<1>1. ASSUME KillMaster PROVE TypeOK'
  <2>1. /\ Worked' /\ Framed' /\ main' = "exited" /\ Running' = Running
        /\ frames'[Master] = <<>> /\ \A q \in Procs \ {Master} : frames'[q] = frames[q]
    BY <1>1, ExitEffect DEF KillMaster
  <2>2. WhereHandled'
    BY <1>1, <1>m, <2>1, StillHandled, OpenStays DEF KillMaster, WhereHandled
  <2> QED BY <1>1, <2>1, <2>2, Unchanged DEF KillMaster, MainTyped
<1>2. ASSUME UNCHANGED <<main, caught, frames, lives>>, KernelTyped', ClientTyped' PROVE TypeOK'
  <2>1. Running' = Running
    BY <1>2 DEF Running, InPlace, lives
  <2>2. WhereHandled'
    BY <1>2, <1>m, <2>1, StillHandled, OpenStays DEF WhereHandled
  <2> QED BY <1>2, <2>2, Unchanged DEF MainTyped
<1>3. ASSUME NEW w \in Workers, StopWorker(w) PROVE TypeOK'
  <2>1. KernelTyped'
    BY <1>3, <1>m, ProcessesAssumption DEF StopWorker, KernelTyped, Signals, Handled
  <2> QED BY <1>2, <1>3, <2>1, Unchanged DEF StopWorker
<1>4. ASSUME NEW p \in Procs, NEW s \in Signals, Kill(p, s) PROVE TypeOK'
  <2>1. KernelTyped'
    BY <1>4, ProcessesAssumption DEF Kill, KernelTyped
  <2> QED BY <1>2, <1>4, <2>1, Unchanged DEF Kill
<1>5. ASSUME NEW c \in Clients, Connect(c) PROVE TypeOK'
  <2>1. Append(backlog, c) \in Seq(Clients)
    BY DEF ClientTyped
  <2>2. ClientTyped'
    BY <1>5, <2>1 DEF Connect, ClientTyped
  <2> QED BY <1>2, <1>5, <2>2, Unchanged DEF Connect
<1> QED BY <1>1, <1>3, <1>4, <1>5 DEF OutsideStep

-----------------------------------------------------------------------------
(* At the start main() is alone, with no signal pending.                   *)
LEMMA InitProcInv ==
  ASSUME Init PROVE ProcInv
<1>1. TypeOK
  <2>1. MainTyped /\ KernelTyped
    <3>1. pending = [p \in Procs |-> {}] /\ sent = 0 /\ main = "load"
      BY DEF Init
    <3>2. 0 \in 0..MaxSignals
      BY ProcessesAssumption
    <3> QED BY <3>1, <3>2 DEF MainTyped, KernelTyped, Starting
  <2>2. ClientTyped
    <3>1. <<>> \in Seq(Clients)
      OBVIOUS
    <3> QED BY <3>1 DEF Init, ClientTyped
  <2>3. Worked
    BY DEF Init, Worked
  <2>4. /\ Framed /\ \A p \in Procs : frames[p] = <<>>
    <3>1. frames = [p \in Procs |-> <<>>] /\ Stack(<<>>)
      BY NoLine DEF Init
    <3>2. <<>> \in Seq(Frame)
      BY <3>1 DEF Stack
    <3> HIDE DEF Frame
    <3> QED BY <3>1, <3>2 DEF Framed
  <2>5. WhereHandled
    BY <2>4 DEF WhereHandled, Init
  <2> QED BY <2>1, <2>2, <2>3, <2>4, <2>5, TypeParts
<1>2. NoWorkersYet /\ NoZombieForgotten
  BY DEF Init, NoWorkersYet, NoZombieForgotten, Zombies, InPlace
<1>3. Queueing
  <2>1. backlog = <<>> /\ Len(backlog) = 0 /\ \A c \in Clients : client[c] = "away" /\ servedBy[c] = Nobody
    BY DEF Init
  <2> QED BY <2>1 DEF Queueing
<1> QED BY <1>1, <1>2, <1>3 DEF ProcInv

-----------------------------------------------------------------------------
(* Zombies.  There are no workers before main() forks.                     *)
LEMMA YetKept ==
  ASSUME ProcInv, Next PROVE NoWorkersYet'
<1> USE DEF ProcInv, NoWorkersYet
<1>0. Worked /\ Framed /\ MainTyped
  BY TypeParts
<1>1. ASSUME Exit, caught' = caught \/ main = "signals" PROVE NoWorkersYet'
  BY <1>0, <1>1, ExitEffect DEF Starting
<1>2. ASSUME StartStep PROVE NoWorkersYet'
  <2>1. CASE LoadConfig \/ InitSignals
    BY <1>0, <1>1, <2>1 DEF LoadConfig, InitSignals, Advance, Starting, lives
  <2>2. CASE OpenListeners \/ Daemonize
    BY <2>2 DEF OpenListeners, Daemonize, Starting, lives
  <2>3. CASE Quit
    BY <1>1, <2>3 DEF Quit
  <2>4. CASE BlockSignals \/ EnterLoop \/ EndSleep \/ \E w \in Workers : Spawn(w)
    BY <2>4 DEF BlockSignals, EnterLoop, EndSleep, Spawn, Starting, lives
  <2> QED BY <1>2, <2>1, <2>2, <2>3, <2>4 DEF StartStep
<1>3. ASSUME NEW p \in Procs, LogStep(p) PROVE NoWorkersYet'
  <2>1. /\ UNCHANGED <<caught, worker>>
        /\ main' = main \/ (main = "suspend" /\ main' = "sleep")
    BY <1>3, LogEffect
  <2> QED BY <2>1 DEF Starting
<1>4. ASSUME ReapStep PROVE NoWorkersYet'
  <2>1. ASSUME NEW s \in Signals, DefaultAction(s) PROVE NoWorkersYet'
    BY <1>1, <2>1 DEF DefaultAction, lives
  <2>2. ASSUME WaitpidNone PROVE NoWorkersYet'
    BY <2>2 DEF WaitpidNone, Return, Starting, lives
  <2>3. ASSUME NEW w \in Workers, Waitpid(w) PROVE NoWorkersYet'
    <3>1. worker[w] = "zombie" /\ UNCHANGED <<main, caught>>
      BY <2>3 DEF Waitpid, Zombies, InPlace
    <3> QED BY <3>1
  <2> QED BY <1>4, <2>1, <2>2, <2>3 DEF ReapStep
<1>5. ASSUME NEW w \in Workers, WorkStep(w) \/ (w \in Alive /\ Die(w)) PROVE NoWorkersYet'
  <2>1. UNCHANGED <<caught, main>>
    BY <1>5, WorkEffect, DieEffect
  <2>2. worker[w] # "none"
    BY <1>5, WorkEffect DEF Alive, InPlace
  <2> QED BY <2>1, <2>2
<1>6. ASSUME OutsideStep PROVE NoWorkersYet'
  BY <1>1, <1>6 DEF OutsideStep, KillMaster, StopWorker, Kill, Connect, lives
<1> QED BY ByParts, <1>2, <1>3, <1>4, <1>5, <1>6

(* A step keeps that a zombie is known to the master, or its signal is     *)
(* due.                                                                    *)
LEMMA FoundKept ==
  ASSUME ProcInv, Next PROVE NoZombieForgotten'
<1> USE DEF ProcInv, NoZombieForgotten, MasterLives
<1> DEFINE Due == "CHLD" \in pending[Master] \/ InHandler(Master, "CHLD")
<1>0. Worked /\ KernelTyped /\ Framed /\ WhereHandled /\ MainTyped
  BY TypeParts
<1>m. Master \in Procs
  BY DEF Procs
<1>1. ASSUME Exit PROVE NoZombieForgotten'
  BY <1>1 DEF Exit
(* No zombie is new, and the SIGCHLD that is due stays so.                 *)
<1>2. ASSUME \A w \in Workers : worker'[w] = "zombie" => worker[w] = "zombie",
             main' # "exited" => main # "exited",
             Due => Due'
      PROVE  NoZombieForgotten'
  <2> SUFFICES ASSUME main' # "exited", NEW w \in Workers, worker'[w] = "zombie"
               PROVE  Due'
    BY DEF Zombies, InPlace
  <2>1. w \in Zombies /\ main # "exited"
    BY <1>2 DEF Zombies, InPlace
  <2> QED BY <1>2, <2>1
<1>3. ASSUME StartStep PROVE NoZombieForgotten'
  (* Before the fork there is nobody to die.                               *)
  <2>1. CASE LoadConfig \/ InitSignals \/ OpenListeners \/ Daemonize
    <3>1. \A w \in Workers : worker[w] = "none"
      BY <2>1 DEF LoadConfig, InitSignals, Advance, OpenListeners, Daemonize,
                  NoWorkersYet, Starting
    <3>2. Exit \/ UNCHANGED worker
      BY <2>1 DEF LoadConfig, InitSignals, Advance, OpenListeners, Daemonize, lives
    <3> QED BY <3>1, <3>2, <1>1 DEF Zombies, InPlace
  <2>2. CASE Quit
    BY <2>2, <1>1 DEF Quit
  <2>3. CASE BlockSignals \/ EnterLoop \/ EndSleep
    BY <2>3, <1>m, <1>2, Unchanged
       DEF BlockSignals, EnterLoop, EndSleep, kernelVars, lives, Signals, Handled
  <2>4. CASE \E w \in Workers : Spawn(w)
    BY <2>4, <1>m, <1>0, <1>2, Unchanged DEF Spawn, Worked, kernelVars, Signals, Handled
  <2> QED BY <1>3, <2>1, <2>2, <2>3, <2>4 DEF StartStep
<1>4. ASSUME NEW p \in Procs, LogStep(p) PROVE NoZombieForgotten'
  <2>1. worker' = worker /\ (main' = main \/ main = "suspend") /\ (Due => Due')
    BY <1>4, LogEffect
  <2> QED BY <2>1, <1>2
<1>5. ASSUME ReapStep PROVE NoZombieForgotten'
  <2>1. ASSUME NEW s \in Signals, DefaultAction(s) PROVE NoZombieForgotten'
    <3>1. CASE s = "CHLD"
      BY <2>1, <3>1 DEF DefaultAction, NoWorkersYet, Zombies, InPlace, lives
    <3>2. CASE s # "CHLD"
      BY <2>1, <3>2, <1>1 DEF DefaultAction
    <3> QED BY <3>1, <3>2
  <2>2. ASSUME WaitpidNone PROVE NoZombieForgotten'
    BY <2>2 DEF WaitpidNone, Zombies, InPlace, lives
  <2>3. ASSUME NEW w \in Workers, Waitpid(w) PROVE NoZombieForgotten'
    <3>1. InHandler(Master, "CHLD")' <=> InHandler(Master, "CHLD")
      BY <2>3, <1>0, <1>m, WentOn DEF Waitpid, Top
    <3> QED BY <2>3, <3>1, <1>0, <1>2 DEF Waitpid, kernelVars, Worked
  <2> QED BY <1>5, <2>1, <2>2, <2>3 DEF ReapStep
<1>6. ASSUME NEW w \in Workers, WorkStep(w) PROVE NoZombieForgotten'
  <2>1. /\ main' = main /\ pending'[Master] = pending[Master] /\ frames'[Master] = frames[Master]
        /\ \A v \in Workers : worker'[v] = "zombie" => worker[v] = "zombie"
    BY <1>6, <1>m, WorkEffect, ProcessesAssumption
  <2>2. Due => Due'
    BY <2>1 DEF InHandler
  <2> QED BY <2>1, <2>2, <1>2
<1>7. ASSUME NEW w \in Workers, Die(w) PROVE NoZombieForgotten'
  BY <1>7, DieEffect
<1>8. ASSUME OutsideStep PROVE NoZombieForgotten'
  <2>1. ASSUME \/ \E w \in Workers : StopWorker(w)
               \/ \E p \in Procs, s \in Signals : Kill(p, s)
               \/ \E c \in Clients : Connect(c)
        PROVE  NoZombieForgotten'
    <3>1. UNCHANGED <<main, frames, worker>>
      BY <2>1 DEF StopWorker, Kill, Connect, lives
    <3>2. "CHLD" \in pending[Master] => "CHLD" \in pending'[Master]
      BY <2>1, <1>0, <1>m DEF StopWorker, Kill, Connect, KernelTyped, kernelVars
    <3>3. Due => Due'
      BY <3>1, <3>2 DEF InHandler
    <3> QED BY <3>1, <3>3, <1>2
  <2>2. ASSUME KillMaster PROVE NoZombieForgotten'
    BY <2>2, <1>1 DEF KillMaster
  <2> QED BY <1>8, <2>1, <2>2 DEF OutsideStep
<1> QED BY ByParts, <1>3, <1>4, <1>5, <1>6, <1>7, <1>8

-----------------------------------------------------------------------------
(* Clients.                                                                *)
(* A step keeps each client in the backlog once, or with one worker.       *)
LEMMA QueueKept ==
  ASSUME ProcInv, Next PROVE Queueing'
<1> USE DEF ProcInv, Queueing
<1>a. Nobody \notin Workers
  BY ProcessesAssumption
<1> USE <1>a
<1>0. Worked /\ Framed /\ ClientTyped
  BY TypeParts
(* A step that no client sees, and no worker that serves one.              *)
<1>1. ASSUME UNCHANGED clientVars,
             \A w \in Workers : worker[w] \in {"forked", "init", "epoll", "accept"}
               => worker'[w] \in {"forked", "init", "epoll", "accept"}
      PROVE  Queueing'
  BY <1>1 DEF clientVars
<1>2. ASSUME Exit, UNCHANGED clientVars PROVE Queueing'
  BY <1>0, <1>1, <1>2, ExitEffect
<1>3. ASSUME StartStep PROVE Queueing'
  <2>1. CASE LoadConfig \/ InitSignals \/ Quit
    BY <2>1, <1>1, <1>2 DEF LoadConfig, InitSignals, Quit, Advance, lives
  <2>2. CASE OpenListeners \/ Daemonize \/ BlockSignals \/ EnterLoop \/ EndSleep
    BY <2>2, <1>1 DEF OpenListeners, Daemonize, BlockSignals, EnterLoop, EndSleep, lives
  <2>3. CASE \E w \in Workers : Spawn(w)
    BY <2>3, <1>0, <1>1 DEF Spawn, Worked
  <2> QED BY <1>3, <2>1, <2>2, <2>3 DEF StartStep
<1>4. ASSUME NEW p \in Procs, LogStep(p) PROVE Queueing'
  BY <1>1, <1>4, LogEffect DEF clientVars
<1>7. ASSUME ReapStep PROVE Queueing'
  <2>1. ASSUME NEW s \in Signals, DefaultAction(s) PROVE Queueing'
    BY <2>1, <1>1, <1>2 DEF DefaultAction, lives
  <2>2. ASSUME WaitpidNone PROVE Queueing'
    BY <2>2, <1>1 DEF WaitpidNone, lives
  <2>3. ASSUME NEW w \in Workers, Waitpid(w) PROVE Queueing'
    BY <2>3, <1>0, <1>1 DEF Waitpid, Zombies, InPlace, Worked
  <2> QED BY <1>7, <2>1, <2>2, <2>3 DEF ReapStep
<1>5. ASSUME NEW w \in Workers, WorkStep(w) \/ Die(w) PROVE Queueing'
  <2>1. CASE Die(w)
    <3>1. \A c \in Clients : client'[c] = IF servedBy[c] = w THEN "lost" ELSE client[c]
      BY <2>1 DEF Die
    <3>2. /\ backlog' = backlog /\ servedBy' = servedBy
          /\ \A v \in Workers \ {w} : worker'[v] = worker[v]
      BY <2>1, <1>0 DEF Die, Worked
    <3> QED BY <3>1, <3>2
  <2>2. CASE WorkStep(w) /\ UNCHANGED clientVars
    <3>1. /\ \A v \in Workers \ {w} : worker'[v] = worker[v]
          /\ worker'[w] \in {"init", "epoll", "accept"}
      BY <2>2, WorkEffect
    <3> QED BY <2>2, <3>1, <1>1
  <2>5. CASE \E c \in Clients : Answer(w, c)
    <3>1. PICK c \in Clients : Answer(w, c)
      BY <2>5
    <3>2. /\ UNCHANGED <<backlog, servedBy, worker>> /\ client[c] = "asks"
          /\ \A d \in Clients : client'[d] = IF d = c THEN "answered" ELSE client[d]
      BY <3>1, <1>0 DEF Answer, ClientTyped, lives
    <3> QED BY <3>2
  <2>6. CASE Accept(w)
    <3> DEFINE h == Head(backlog)
               n == Len(backlog)
    <3>1. /\ h \in Clients /\ n \in Nat \ {0} /\ backlog[1] = h
          /\ Len(backlog') = n - 1 /\ \A i \in 1..n - 1 : backlog'[i] = backlog[i + 1]
      BY <2>6, <1>0 DEF Accept, ClientTyped
    <3>2. /\ \A d \in Clients : client'[d] = IF d = h THEN "asks" ELSE client[d]
          /\ \A d \in Clients : servedBy'[d] = IF d = h THEN w ELSE servedBy[d]
          /\ \A v \in Workers : worker'[v] = IF v = w THEN "epoll" ELSE worker[v]
      BY <2>6, <1>0, <3>1 DEF Accept, ClientTyped, Worked, Goto
    <3>3. worker[w] = "accept"
      BY <2>6 DEF Accept
    <3> HIDE DEF h, n
    <3>4. \A i, j \in 1..Len(backlog') : backlog'[i] = backlog'[j] => i = j
      BY <3>1 DEF n
    <3>5. ASSUME NEW c \in Clients
          PROVE  client'[c] = "queued" <=> \E i \in 1..Len(backlog') : backlog'[i] = c
      <4>1. ASSUME NEW i \in 1..n, backlog[i] = c, c # h PROVE i - 1 \in 1..n - 1 /\ backlog'[i - 1] = c
        <5>1. i # 1 BY <4>1, <3>1
        <5>2. i - 1 \in 1..n - 1 /\ i - 1 + 1 = i BY <5>1, <3>1
        <5> QED BY <4>1, <5>2, <3>1
      <4>2. ASSUME NEW i \in 1..n - 1, backlog'[i] = c PROVE i + 1 \in 1..n /\ backlog[i + 1] = c /\ c # h
        <5>1. i + 1 \in 1..n /\ 1 \in 1..n /\ i + 1 # 1 /\ backlog[i + 1] = c BY <4>2, <3>1
        <5> QED BY <5>1, <3>1 DEF n
      <4>3. CASE c = h
        BY <3>1, <3>2, <4>2, <4>3
      <4>4. CASE c # h
        BY <3>1, <3>2, <4>1, <4>2, <4>4 DEF n
      <4> QED BY <4>3, <4>4
    <3>6. \A c \in Clients : client'[c] \in {"away", "queued"} => servedBy'[c] = Nobody
      BY <3>2
    <3>7. \A c \in Clients : client'[c] \in {"asks", "answered"} =>
            servedBy'[c] \in Workers /\ worker'[servedBy'[c]] \in {"forked", "init", "epoll", "accept"}
      BY <3>2
    <3> QED BY <3>4, <3>5, <3>6, <3>7
  <2> QED BY <1>5, <2>1, <2>2, <2>5, <2>6
           DEF WorkStep, Unblock, InitWorker, EpollAccept, AcceptNone, HandledElsewhere
<1>6. ASSUME OutsideStep PROVE Queueing'
  <2>1. ASSUME \/ KillMaster \/ \E w \in Workers : StopWorker(w)
               \/ \E p \in Procs, s \in Signals : Kill(p, s)
        PROVE  Queueing'
    BY <2>1, <1>1, <1>2 DEF KillMaster, StopWorker, Kill, lives
  <2>3. ASSUME NEW c \in Clients, Connect(c) PROVE Queueing'
    <3> DEFINE n == Len(backlog)
    <3>1. /\ n \in Nat /\ Len(backlog') = n + 1 /\ backlog'[n + 1] = c
          /\ \A i \in 1..n : backlog'[i] = backlog[i]
      BY <2>3, <1>0 DEF Connect, ClientTyped
    <3>2. /\ UNCHANGED <<servedBy, worker>> /\ client[c] = "away"
          /\ \A d \in Clients : client'[d] = IF d = c THEN "queued" ELSE client[d]
      BY <2>3, <1>0 DEF Connect, ClientTyped, lives
    <3>3. \A i, j \in 1..Len(backlog') : backlog'[i] = backlog'[j] => i = j
      BY <3>1, <3>2
    <3>4. ASSUME NEW d \in Clients
          PROVE  client'[d] = "queued" <=> \E i \in 1..Len(backlog') : backlog'[i] = d
      <4>1. n + 1 \in 1..n + 1 /\ \A i \in 1..n : i \in 1..n + 1
        BY <3>1
      <4>2. \A i \in 1..n + 1 : i = n + 1 \/ i \in 1..n
        BY <3>1
      <4>3. CASE d = c
        BY <3>1, <3>2, <4>1, <4>3
      <4>4. CASE d # c
        BY <3>1, <3>2, <4>1, <4>2, <4>4
      <4> QED BY <4>3, <4>4
    <3> QED BY <3>2, <3>3, <3>4
  <2> QED BY <1>6, <2>1, <2>3 DEF OutsideStep
<1> QED BY ByParts, <1>3, <1>4, <1>5, <1>6, <1>7

-----------------------------------------------------------------------------
(* Every step keeps the invariant.                                         *)
LEMMA NextProcInv ==
  ASSUME ProcInv, [Next]_vars PROVE ProcInv'
<1>1. CASE Next
  <2>1. TypeOK'
    BY <1>1, ByParts, StartTyped, LogTyped, ReapTyped, WorkTyped, OutsideTyped DEF ProcInv
  <2> QED BY <1>1, <2>1, YetKept, FoundKept, QueueKept DEF ProcInv
<1>2. CASE UNCHANGED vars
  <2> USE <1>2 DEF vars, kernelVars, clientVars, ProcInv
  <2>1. TypeOK' BY DEF TypeOK, Idle, Open, Running, InPlace, lives
  <2>2. NoWorkersYet' BY DEF NoWorkersYet, lives
  <2>3. NoZombieForgotten' BY DEF NoZombieForgotten, MasterLives, Zombies, InPlace, InHandler, lives
  <2>4. Queueing' BY DEF Queueing, lives
  <2> QED BY <2>1, <2>2, <2>3, <2>4
<1> QED BY <1>1, <1>2

(* The invariant of the processes holds, for any workers and clients.      *)
THEOREM ProcessesInvariant == Spec => []ProcInv
<1>1. Init => ProcInv
  BY InitProcInv
<1>2. ProcInv /\ [Next]_vars => ProcInv'
  BY NextProcInv
<1> QED BY <1>1, <1>2, PTL DEF Spec, Safe

(* The handlers of a process nest only across different signals, and only  *)
(* where its signals are open; a thread hangs only in a worker that runs.  *)
THEOREM ProcessesTypes == Spec => []TypeOK
BY ProcessesInvariant, PTL DEF ProcInv

(* However many workers end, in whatever order and with whatever signals   *)
(* between, the master has a SIGCHLD to come for every zombie or is going  *)
(* to call waitpid() again.                                                *)
THEOREM ZombiesFound == Spec => []NoZombieForgotten
BY ProcessesInvariant, PTL DEF ProcInv

(* However many workers share the listening sockets, each client is in the *)
(* backlog once or has been accepted by one worker that lives.             *)
THEOREM OneWorkerEach == Spec => []AcceptedOnce
<1>1. ASSUME ProcInv PROVE AcceptedOnce
  <2> SUFFICES ASSUME NEW c \in Clients
               PROVE  /\ Cardinality({i \in 1..Len(backlog) : backlog[i] = c})
                           = (IF client[c] = "queued" THEN 1 ELSE 0)
                      /\ client[c] \in {"asks", "answered"} => servedBy[c] \in Alive
    BY DEF AcceptedOnce
  <2> DEFINE P == {i \in 1..Len(backlog) : backlog[i] = c}
  <2>1. CASE client[c] = "queued"
    <3>1. PICK i \in 1..Len(backlog) : P = {i}
      BY <1>1, <2>1 DEF ProcInv, Queueing
    <3>2. Cardinality(P) = 1
      BY <3>1, FS_Singleton
    <3> QED BY <2>1, <3>2
  <2>2. CASE client[c] # "queued"
    <3>1. P = {}
      BY <1>1, <2>2 DEF ProcInv, Queueing
    <3>2. Cardinality(P) = 0
      BY <3>1, FS_EmptySet
    <3>3. client[c] \in {"asks", "answered"} => servedBy[c] \in Alive
      BY <1>1 DEF ProcInv, Queueing, Alive, InPlace
    <3> QED BY <2>2, <3>2, <3>3
  <2> QED BY <2>1, <2>2
<1> QED BY <1>1, ProcessesInvariant, PTL
=============================================================================
