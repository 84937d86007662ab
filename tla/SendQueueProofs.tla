-------------------------- MODULE SendQueueProofs --------------------------
(***************************************************************************)
(* Proofs about SendQueue, for any number of connections, answers and      *)
(* reuses, any size of an answer and of the buffers, and any limits: the   *)
(* send thread and the epoll thread, which share fields without a lock,    *)
(* are both at work on one connection's answer only while the connection   *)
(* is being given back; every buffer has exactly one owner, except for     *)
(* what goes astray there; no client gets the answer of the one before it; *)
(* iSendCount is exact; a pass drops all that was stale when it began;     *)
(* and sending implements AnswerDelivery.                                  *)
(*                                                                         *)
(* They are under the assumption on which the counting rests, ~UnreadAtEof: *)
(* a client that ends its stream has been read, so that the epoll thread   *)
(* finds a hung-up connection retired.  A connection which                 *)
(* zdClosesocketProc() is giving back is left out of Turns: there the two  *)
(* senders may meet, and what they meet on has gone astray (Aparts, Owned). *)
(***************************************************************************)
EXTENDS SendQueue, FiniteSetTheorems, SequenceTheorems, TLAPS

PeerStates == {"open", "eof", "reset"}
Flags == {"in", "out", "hup"}
SenderPlaces == {"sem", "woken", "look", "current", "send", "release", "clear",
                 "raise", "arm"}
MainPlaces == ClosePCs \cup {"idle", "in", "out", "send", "disarm", "free", "clear",
                             "lower", "post"}
CloserPlaces == ClosePCs \cup {"idle"}

(* The types.                                                              *)
QueueTypes ==
  /\ queue \in Seq(Msgs) /\ sem \in Nat
  /\ made \in 0..MaxMsgs /\ freed \in [Ids -> Nat] /\ stray \subseteq Ids
ConnTypes ==
  /\ seq \in [Conns -> Nat \ {0}] /\ retired \subseteq Conns
  /\ throw \in [Conns -> Int] /\ psend \in [Conns -> Msgs \cup {Nobody}]
  /\ left \in [Conns -> 0..PkgLen] /\ waiting \in [Conns -> Int]
SocketTypes ==
  /\ open \subseteq Conns /\ armed \subseteq open /\ room \in [Conns -> 0..Room]
  /\ unread \subseteq Conns /\ peer \in [Conns -> PeerStates]
  /\ wire \in [Conns -> Seq(Msgs \cup {Nobody})]
ThreadTypes ==
  /\ at \in [Threads -> Conns \cup {Nobody}]
  /\ pc \in [Threads -> SenderPlaces \cup MainPlaces]
  /\ pos \in Nat \ {0} /\ doomed \subseteq Ids /\ revents \subseteq Flags
Types == QueueTypes /\ ConnTypes /\ SocketTypes /\ ThreadTypes

(* Where threads are, on which connection, and who has the mutex.          *)
Places ==
  /\ pc[Sender] \in SenderPlaces /\ pc[Main] \in MainPlaces
  /\ pc[Timer] \in CloserPlaces /\ pc[Worker] \in CloserPlaces
  /\ \A t \in Threads : at[t] = Nobody <=> pc[t] \in {"idle", "sem", "woken", "look"}
  /\ mutex = Sender <=> pc[Sender] \notin {"sem", "woken"}
  /\ mutex = Worker <=> pc[Worker] # "idle"
  /\ pc[Main] \in {"send", "disarm", "free", "clear", "lower"} => "out" \in revents

(* Sockets: a connection that is retired, or being so, has none; a client  *)
(* that has ended its stream has been read.                                *)
Sockets ==
  /\ retired \cap open = {}
  /\ \A t \in Closers : pc[t] \in {"drop", "retire"} => at[t] \notin open
  /\ \A c \in open : peer[c] # "open" => c \notin unread
  /\ \A c \in Conns \ open : peer[c] = "open"
  /\ pc[Main] = "in" /\ "hup" \in revents /\ at[Main] \in open => peer[at[Main]] # "open"
  /\ pc[Main] = "out" /\ "hup" \in revents => at[Main] \in retired

(* The message the send thread looks at is one for its connection, and for *)
(* the client that is there, unless that has gone meanwhile.               *)
Found ==
  pc[Sender] = "current" =>
    /\ pos <= Len(queue) /\ queue[pos].conn = at[Sender]
    /\ at[Sender] \notin retired => queue[pos].seq = seq[at[Sender]]

(* Whose turn it is.  The send thread has a connection from the moment it  *)
(* puts a message there; the epoll thread owes it a write while it treats  *)
(* an event with EPOLLOUT.  While iThrowsendCount is 0 or the send thread  *)
(* has the connection, the epoll thread watches for no EPOLLOUT there and  *)
(* owes nothing: so the two do not meet, until a closing thread lets the   *)
(* connection go; and from then on only where a message has gone astray.   *)
SenderAtConn(c, places) == at[Sender] = c /\ pc[Sender] \in places
MainAtConn(c, places) == at[Main] = c /\ pc[Main] \in places
SenderHas(c) == SenderAtConn(c, {"send", "release", "clear", "raise", "arm"})
MainOwes(c) ==
  "out" \in revents /\ MainAtConn(c, MainPlaces \ {"idle", "post"})

Turn(c) ==
  /\ throw[c] \in {0, 1}
  /\ throw[c] = 0 \/ SenderHas(c) => c \notin armed /\ ~MainOwes(c)
  /\ psend[c] # Nobody <=> SenderHas(c) \/ (throw[c] = 1 /\ ~MainAtConn(c, {"lower"}))
  /\ SenderAtConn(c, {"send", "release", "clear", "raise"}) => throw[c] = 0
  /\ SenderAtConn(c, {"arm"}) => throw[c] = 1
  /\ MainAtConn(c, {"free", "clear", "lower"}) => c \notin armed
Apart(c) ==
  psend[c] # Nobody /\ psend[c].id \notin stray /\ SenderHas(c) => ~MainOwes(c)
Turns == \A c \in Conns : ~Abandoned(c) => Turn(c)
Aparts == \A c \in Conns : Apart(c)
(* An answer the epoll thread is to go on with has something left to send: *)
(* or else it would take it for finished, and not stop watching EPOLLOUT.  *)
LeftOK(c) ==
  /\ throw[c] = 1 /\ ~MainAtConn(c, {"disarm", "free", "clear", "lower"}) => left[c] > 0
  /\ SenderAtConn(c, {"raise"}) => left[c] > 0
Lefts == \A c \in open : LeftOK(c)

(* The buffer of a message that has not gone astray is in the queue or     *)
(* with a connection, and if neither, it has been freed, once.  What a     *)
(* connection holds has been freed by those who are about to clear the     *)
(* pointer and by no one else.                                             *)
InQueue(m) == \E i \in 1..Len(queue) : queue[i].id = m
HeldBy(c, m) == psend[c] # Nobody /\ psend[c].id = m
InSending(m) == \E c \in Conns : HeldBy(c, m) /\ ~Clearing(c)
InOrder == \A i, j \in 1..Len(queue) : i < j => queue[i].id < queue[j].id
AllMade == \A i \in 1..Len(queue) : queue[i].id <= made /\ queue[i].id \notin stray
One(yes) == IF yes THEN 1 ELSE 0
Clearers(c) == One(SenderAtConn(c, {"clear"})) + One(MainAtConn(c, {"clear"}))
SentFrom(c) == psend[c] # Nobody =>
  /\ psend[c].conn = c /\ psend[c].id <= made /\ ~InQueue(psend[c].id)
  /\ psend[c].id \in stray => Abandoned(c)
  /\ freed[psend[c].id] <= Clearers(c)
OneEach == \A c, d \in Conns :
  psend[c] # Nobody /\ psend[d] # Nobody /\ psend[c].id = psend[d].id => c = d
FreedOnce(m) ==
  freed[m] = IF m <= made /\ ~InQueue(m) /\ ~InSending(m) THEN 1 ELSE 0
Owned ==
  /\ InOrder /\ AllMade /\ OneEach
  /\ \A c \in Conns : SentFrom(c)
  /\ \A m \in Ids :
       IF m \in stray THEN m <= made /\ freed[m] <= 2 ELSE FreedOnce(m)

(* No message is of a number the connection has not had, and one for a     *)
(* client that has gone is of a lower number.                              *)
MadeBefore(m) ==
  m.seq <= seq[m.conn] /\ (m.conn \in retired => m.seq < seq[m.conn])
SentToItsOwn(c) == psend[c] # Nobody => psend[c].seq = seq[c]
Seqs ==
  /\ \A i \in 1..Len(queue) : MadeBefore(queue[i])
  /\ \A c \in Conns \ retired : SentToItsOwn(c)
  /\ OnlyItsOwn

(* The limits are numbers, and the counts are exact.                       *)
Backlog == caps \in Nat \X Nat /\ BacklogExact

(* What was stale when the pass began and has not been dropped is ahead of *)
(* the place of the pass, and still stale.                                 *)
StillDoomed(k) ==
  \A m \in doomed : \E i \in k..Len(queue) : queue[i].id = m /\ Stale(queue[i])
Pass ==
  IF pc[Sender] \in {"sem", "woken"} THEN doomed = {}
  ELSE StillDoomed(IF pc[Sender] = "current" THEN pos + 1 ELSE pos)
(* The inductive invariant.                                                *)
SendInv ==
  /\ Types /\ Places /\ Sockets /\ Found /\ Turns /\ Aparts /\ Lefts
  /\ Owned /\ Seqs /\ Backlog /\ Pass

-----------------------------------------------------------------------------
(* What is left of a sequence when one element is taken out.               *)
LEMMA Removed ==
  ASSUME NEW S, NEW s \in Seq(S), NEW i \in 1..Len(s)
  PROVE  /\ RemoveAt(s, i) \in Seq(S) /\ Len(RemoveAt(s, i)) = Len(s) - 1
         /\ \A j \in 1..Len(s) - 1 :
              RemoveAt(s, i)[j] = IF j < i THEN s[j] ELSE s[j + 1]
<1> DEFINE before == SubSeq(s, 1, i - 1)
           after == SubSeq(s, i + 1, Len(s))
<1>1. /\ before \in Seq(S) /\ Len(before) = i - 1
      /\ after \in Seq(S) /\ Len(after) = Len(s) - i
      /\ \A j \in 1..i - 1 : before[j] = s[j]
      /\ \A j \in 1..Len(s) - i : after[j] = s[i + j]
  OBVIOUS
<1>2. RemoveAt(s, i) = before \o after BY DEF RemoveAt
<1> HIDE DEF before, after
<1>3. /\ before \o after \in Seq(S) /\ Len(before \o after) = Len(s) - 1
      /\ \A j \in 1..Len(s) - 1 :
           (before \o after)[j] = IF j <= i - 1 THEN before[j] ELSE after[j - (i - 1)]
  BY SMTT(30), <1>1, ConcatProperties
<1>4. ASSUME NEW j \in 1..Len(s) - 1
      PROVE  (before \o after)[j] = IF j < i THEN s[j] ELSE s[j + 1]
  <2>1. CASE j < i
    <3>1. j \in 1..i - 1 BY <2>1
    <3>2. (before \o after)[j] = before[j] BY <1>3, <3>1
    <3>3. QED BY <1>1, <2>1, <3>1, <3>2
  <2>2. CASE ~(j < i)
    <3>1. j - (i - 1) \in 1..Len(s) - i /\ i + (j - (i - 1)) = j + 1 BY <2>2
    <3>2. (before \o after)[j] = after[j - (i - 1)] BY <1>3, <2>2
    <3>3. after[j - (i - 1)] = s[j + 1] BY <1>1, <3>1
    <3>4. QED BY <2>2, <3>2, <3>3
  <2>3. QED BY <2>1, <2>2
<1>5. QED BY <1>2, <1>3, <1>4

(* How the threads are called.                                             *)
LEMMA Kinds ==
  /\ {Main, Sender, Timer, Worker} = Threads /\ Closers = {Main, Timer, Worker}
  /\ Closers \subseteq Threads /\ Sender \notin Closers
BY NamesAssumption DEF Threads, Closers, NamesAssumption

(* A thread that goes somewhere is there, the others are where they were.  *)
LEMMA Moves ==
  ASSUME ThreadTypes, NEW t \in Threads, NEW p, Goto(t, p)
  PROVE  /\ \A u \in Threads : pc'[u] = IF u = t THEN p ELSE pc[u]
         /\ p \in SenderPlaces \cup MainPlaces =>
              pc' \in [Threads -> SenderPlaces \cup MainPlaces]
BY DEF ThreadTypes, Goto

(* A thread that is at work is at work on a connection.                    *)
LEMMA AtConn ==
  ASSUME ThreadTypes, Places
  PROVE  /\ pc[Sender] \in SenderPlaces \ {"sem", "woken", "look"} =>
              at[Sender] \in Conns
         /\ pc[Main] \in MainPlaces \ {"idle"} => at[Main] \in Conns
         /\ \A t \in Closers : pc[t] \in ClosePCs => at[t] \in Conns
BY Kinds DEF ThreadTypes, Places, SenderPlaces, MainPlaces, ClosePCs

(* The message looked at.                                                  *)
LEMMA Looking ==
  ASSUME QueueTypes, ThreadTypes, pos <= Len(queue)
  PROVE  pos \in 1..Len(queue) /\ queue[pos] \in Msgs
BY DEF QueueTypes, ThreadTypes

(* The messages in the queue.                                              *)
LEMMA Elements ==
  ASSUME QueueTypes
  PROVE  /\ \A m \in ToSet(queue) : m \in Msgs
         /\ \A m : m \in ToSet(queue) <=> \E i \in 1..Len(queue) : m = queue[i]
BY DEF QueueTypes, ToSet

(* msgSend() makes a message.                                              *)
LEMMA AnswerTyped ==
  ASSUME QueueTypes, ConnTypes, NEW c \in Conns, made < MaxMsgs
  PROVE  AnswerFor(c) \in Msgs
<1>1. made + 1 \in Ids BY SizesAssumption DEF QueueTypes, Ids, SizesAssumption
<1>2. (IF c \in retired THEN seq[c] - 1 ELSE seq[c]) \in Nat BY DEF ConnTypes
<1>3. QED BY <1>1, <1>2 DEF AnswerFor, Msgs

(* Freeing a buffer counts it, and no other.                               *)
LEMMA Freed ==
  ASSUME QueueTypes, NEW m \in Msgs, Free(m)
  PROVE  /\ freed' \in [Ids -> Nat] /\ m.id \in Ids
         /\ \A n \in Ids : freed'[n] = IF n = m.id THEN freed[n] + 1 ELSE freed[n]
BY DEF QueueTypes, Free, Msgs

(* A step keeps the types of the queue and of the messages.                *)
LEMMA StepQueueTypes ==
  ASSUME Types, Places, Found, Next
  PROVE  QueueTypes'
<1> USE DEF Types
<1>1. CASE UNCHANGED <<queue, sem, made, freed, stray>> BY <1>1 DEF QueueTypes
<1>2. CASE Wake BY <1>2 DEF Wake, QueueTypes, histVars, sendVars
<1>3. CASE Post BY <1>3 DEF Post, QueueTypes, histVars
<1>4. CASE DropStale
  <2>1. pos <= Len(queue) /\ queue' = RemoveAt(queue, pos) /\ Free(queue[pos])
        /\ UNCHANGED <<sem, made, stray>>
    BY <1>4 DEF DropStale
  <2>2. queue' \in Seq(Msgs) /\ freed' \in [Ids -> Nat]
    BY <2>1, Looking, Removed, Freed DEF QueueTypes
  <2>3. QED BY <2>1, <2>2 DEF QueueTypes
<1>5. CASE TakeOut
  <2>1. queue' = RemoveAt(queue, pos) /\ UNCHANGED <<sem, made, freed>>
        /\ stray' = stray \cup Strayed(at[Sender]) /\ pos <= Len(queue)
        /\ at[Sender] \in Conns
    BY <1>5, AtConn DEF TakeOut, Found, SenderAt, histVars, SenderPlaces
  <2>2. queue' \in Seq(Msgs) BY <2>1, Looking, Removed DEF QueueTypes
  <2>3. Strayed(at[Sender]) \subseteq Ids
    BY <2>1, Looking DEF Strayed, Held, Msgs, ConnTypes
  <2>4. QED BY <2>1, <2>2, <2>3 DEF QueueTypes
<1>6. CASE Release \/ WriteFree \/ \E c \in Conns : Reuse(c)
  <2>1. UNCHANGED <<queue, sem, made, stray>>
    BY <1>6 DEF Release, WriteFree, Reuse, queueVars
  <2>2. PICK c \in Conns : FreeHeld(c)
    BY <1>6, AtConn
    DEF Release, WriteFree, Reuse, SenderAt, MainAt, SenderPlaces, MainPlaces
  <2>3. psend[c] # Nobody => psend[c] \in Msgs BY DEF ConnTypes
  <2>4. freed' \in [Ids -> Nat] BY <2>2, <2>3, Freed DEF QueueTypes, FreeHeld
  <2>5. QED BY <2>1, <2>4 DEF QueueTypes
<1>7. ASSUME NEW c \in Conns, MsgSend(c) PROVE QueueTypes'
  <2>1. AnswerFor(c) \in Msgs /\ made + 1 \in 0..MaxMsgs
    BY <1>7, AnswerTyped, SizesAssumption DEF MsgSend, QueueTypes, SizesAssumption
  <2>2. /\ queue' = queue \/ queue' = Append(queue, AnswerFor(c))
        /\ sem' = sem \/ sem' = sem + 1
        /\ freed' = freed \/ Free(AnswerFor(c))
        /\ made' = made + 1 /\ stray' = stray
    BY <1>7 DEF MsgSend, Discard, queueVars
  <2>3. queue' \in Seq(Msgs) BY SMTT(30), <2>1, <2>2 DEF QueueTypes
  <2>4. freed' \in [Ids -> Nat] BY <2>1, <2>2, Freed DEF QueueTypes
  <2>5. QED BY <2>1, <2>2, <2>3, <2>4 DEF QueueTypes
<1>8. QED
  BY <1>1, <1>2, <1>3, <1>4, <1>5, <1>6, <1>7
  DEF Next, SenderStep, MainStep, CloseStep, ClientStep, queueVars, histVars,
      StartPass, EndPass, FindCurrent, Skip, SendDone, SendPart, ClearSent, Raise,
      ArmOut, ReadSome, ReadEnd, NotWritable, HangUp, Write, WritePart, WriteDone,
      DisarmOut, WriteClear, Lower, EpollWait, Kick, ClientSends, ClientReads, ClientEnds, ClientResets,
      CloseSocket, Drop, Retire, SendPipe

(* What send() takes goes from the connection to the wire.                 *)
LEMMA Sent ==
  ASSUME ConnTypes, SocketTypes, NEW c \in Conns, Transmit(c)
  PROVE  /\ Fits(c) \in Nat /\ Fits(c) <= left[c]
         /\ left' \in [Conns -> 0..PkgLen] /\ left'[c] = left[c] - Fits(c)
         /\ room' \in [Conns -> 0..Room]
         /\ wire' \in [Conns -> Seq(Msgs \cup {Nobody})]
         /\ Len(wire'[c]) = Len(wire[c]) + Fits(c)
         /\ \A i \in 1..Len(wire'[c]) :
              wire'[c][i] = IF i <= Len(wire[c]) THEN wire[c][i] ELSE psend[c]
         /\ \A d \in Conns \ {c} : left'[d] = left[d] /\ wire'[d] = wire[d]
<1> DEFINE pieces == [i \in 1..Fits(c) |-> psend[c]]
<1>1. /\ left[c] \in 0..PkgLen /\ room[c] \in 0..Room /\ psend[c] \in Msgs \cup {Nobody}
      /\ wire[c] \in Seq(Msgs \cup {Nobody})
  BY DEF ConnTypes, SocketTypes
<1>2. Fits(c) \in Nat /\ Fits(c) <= left[c] /\ Fits(c) <= room[c]
  BY <1>1, SizesAssumption DEF Fits, Least, SizesAssumption
<1>3. /\ pieces \in Seq(Msgs \cup {Nobody}) /\ Len(pieces) = Fits(c)
      /\ \A i \in 1..Fits(c) : pieces[i] = psend[c]
  BY <1>1, <1>2
<1>4. left' \in [Conns -> 0..PkgLen] /\ left'[c] = left[c] - Fits(c)
  <2>1. left[c] - Fits(c) \in 0..PkgLen BY <1>1, <1>2, SizesAssumption DEF SizesAssumption
  <2>2. QED BY <2>1 DEF Transmit, ConnTypes
<1>5. room' \in [Conns -> 0..Room]
  <2>1. room[c] - Fits(c) \in 0..Room BY <1>1, <1>2, SizesAssumption DEF SizesAssumption
  <2>2. QED BY <2>1 DEF Transmit, SocketTypes
<1> HIDE DEF pieces
<1>6. /\ wire[c] \o pieces \in Seq(Msgs \cup {Nobody})
      /\ Len(wire[c] \o pieces) = Len(wire[c]) + Fits(c)
      /\ \A i \in 1..Len(wire[c]) + Fits(c) :
           (wire[c] \o pieces)[i] = IF i <= Len(wire[c]) THEN wire[c][i] ELSE psend[c]
  <2>1. /\ wire[c] \o pieces \in Seq(Msgs \cup {Nobody})
        /\ Len(wire[c] \o pieces) = Len(wire[c]) + Len(pieces)
        /\ \A i \in 1..Len(wire[c]) + Len(pieces) :
             (wire[c] \o pieces)[i] =
               IF i <= Len(wire[c]) THEN wire[c][i] ELSE pieces[i - Len(wire[c])]
    BY ZenonT(40), <1>1, <1>3, ConcatProperties
  <2>2. Len(wire[c]) \in Nat BY <1>1
  <2>3. ASSUME NEW i \in 1..Len(wire[c]) + Fits(c), ~(i <= Len(wire[c]))
        PROVE  pieces[i - Len(wire[c])] = psend[c]
    BY <1>2, <1>3, <2>2, <2>3
  <2>4. QED BY <1>3, <2>1, <2>3
<1>7. wire' = [wire EXCEPT ![c] = wire[c] \o pieces] BY DEF Transmit, pieces
<1>8. wire' \in [Conns -> Seq(Msgs \cup {Nobody})] /\ wire'[c] = wire[c] \o pieces
      /\ \A d \in Conns \ {c} : wire'[d] = wire[d]
  BY <1>6, <1>7 DEF SocketTypes
<1>9. \A d \in Conns \ {c} : left'[d] = left[d] BY DEF Transmit, ConnTypes
<1>10. QED BY <1>2, <1>4, <1>5, <1>6, <1>8, <1>9

(* The steps that send, of either thread.                                  *)
Sends(c) ==
  /\ c \in Conns
  /\ IF c \in open THEN Transmit(c) ELSE UNCHANGED <<left, room, wire>>
  /\ UNCHANGED <<queue, sem, mutex, throw, psend, waiting, seq, retired, open,
                 armed, unread, peer, freed, made, stray, pos, doomed>>

(* The steps that send are of a thread that may send to its connection.    *)
LEMMA SendSteps ==
  ASSUME ThreadTypes, Places, SendDone \/ SendPart \/ WritePart \/ WriteDone
  PROVE  \E t \in {Main, Sender} : pc[t] = "send" /\ Sends(at[t])
BY AtConn
DEF SendDone, SendPart, WritePart, WriteDone, Sends, SenderAt, MainAt, SenderPlaces,
    MainPlaces, CanSend, queueVars, lifeVars, peerVars, passVars

(* A step keeps the types of the fields of connections.                    *)
LEMMA StepConnTypes ==
  ASSUME Types, Places, Found, Next
  PROVE  ConnTypes'
<1> USE DEF Types
<1>1. CASE UNCHANGED <<seq, retired, throw, psend, left, waiting>>
  BY <1>1 DEF ConnTypes
<1>2. CASE Raise \/ HangUp \/ Lower \/ \E t \in Closers : Drop(t)
  <2>1. PICK c \in Conns, n \in {1, -1} : throw' = [throw EXCEPT ![c] = @ + n]
    BY <1>2, AtConn
    DEF Raise, HangUp, Lower, Drop, SenderAt, MainAt, SenderPlaces, MainPlaces, ClosePCs
  <2>2. UNCHANGED <<seq, retired, psend, left, waiting>>
    BY <1>2 DEF Raise, HangUp, Lower, Drop, lifeVars
  <2>3. QED BY <2>1, <2>2 DEF ConnTypes
<1>3. CASE TakeOut
  <2>1. queue[pos] \in Msgs /\ at[Sender] \in Conns /\ PkgLen \in 0..PkgLen
    BY <1>3, Looking, AtConn, SizesAssumption
    DEF TakeOut, Found, SenderAt, SenderPlaces, SizesAssumption
  <2>2. QED BY <1>3, <2>1 DEF TakeOut, lifeVars, ConnTypes
<1>4. CASE SendDone \/ SendPart \/ WritePart \/ WriteDone
  <2>1. PICK c \in Conns : Sends(c) BY <1>4, SendSteps DEF Sends
  <2>2. left' \in [Conns -> 0..PkgLen] BY <2>1, Sent DEF Sends, ConnTypes
  <2>3. QED BY <2>1, <2>2 DEF Sends, ConnTypes
<1>5. CASE ClearSent
  BY <1>5, AtConn DEF ClearSent, Clear, SenderAt, SenderPlaces, lifeVars, ConnTypes
<1>6. CASE WriteClear
  BY <1>6, AtConn DEF WriteClear, Clear, MainAt, MainPlaces, lifeVars, ConnTypes
<1>7. ASSUME NEW c \in Conns, MsgSend(c) PROVE ConnTypes'
  <2>1. waiting' = waiting \/ waiting' = [waiting EXCEPT ![c] = @ + 1]
    BY <1>7 DEF MsgSend
  <2>2. UNCHANGED <<seq, retired, throw, psend, left>> BY <1>7 DEF MsgSend, lifeVars
  <2>3. QED BY <2>1, <2>2 DEF ConnTypes
<1>8. ASSUME NEW t \in Closers, Retire(t) PROVE ConnTypes'
  BY <1>8, AtConn DEF Retire, ClosePCs, lifeVars, sendVars, ConnTypes
<1>9. ASSUME NEW c \in Conns, Reuse(c) PROVE ConnTypes'
  BY <1>9, SizesAssumption DEF Reuse, Clear, ConnTypes, SizesAssumption
<1>10. QED
  BY <1>1, <1>2, <1>3, <1>4, <1>5, <1>6, <1>7, <1>8, <1>9
  DEF Next, SenderStep, MainStep, CloseStep, ClientStep, sendVars, lifeVars,
      Wake, StartPass, EndPass, DropStale, FindCurrent, Skip, Release, ArmOut, ReadSome,
      ReadEnd, NotWritable, Write, DisarmOut, WriteFree, Post, EpollWait, Kick, ClientSends,
      ClientReads, ClientEnds, ClientResets, CloseSocket, SendPipe

(* A step keeps the types of the sockets.                                  *)
LEMMA StepSocketTypes ==
  ASSUME Types, Places, Next
  PROVE  SocketTypes'
<1> USE DEF Types
<1>1. CASE UNCHANGED <<open, armed, room, unread, peer, wire>>
  BY <1>1 DEF SocketTypes
<1>2. CASE SendDone \/ SendPart \/ WritePart \/ WriteDone
  <2>1. PICK c \in Conns : Sends(c) BY <1>2, SendSteps DEF Sends
  <2>2. room' \in [Conns -> 0..Room] /\ wire' \in [Conns -> Seq(Msgs \cup {Nobody})]
    BY <2>1, Sent DEF Sends, SocketTypes
  <2>3. QED BY <2>1, <2>2 DEF Sends, SocketTypes
<1>3. CASE ArmOut \/ DisarmOut
  BY <1>3, AtConn DEF ArmOut, DisarmOut, SenderAt, peerVars, histVars, SocketTypes
<1>4. CASE ReadSome
  BY <1>4 DEF ReadSome, sockVars, histVars, SocketTypes
<1>5. ASSUME NEW t \in Closers, CloseSocket(t) PROVE SocketTypes'
  <2>1. Room \in 0..Room BY SizesAssumption DEF SizesAssumption
  <2>2. QED
    BY <1>5, <2>1 DEF CloseSocket, SocketGone, histVars, SocketTypes, PeerStates
<1>6. ASSUME NEW c \in Conns, Reuse(c) PROVE SocketTypes'
  <2>1. <<>> \in Seq(Msgs \cup {Nobody}) OBVIOUS
  <2>2. QED BY <1>6, <2>1 DEF Reuse, peerVars, SocketTypes
<1>7. ASSUME NEW c \in Conns, ClientSends(c) \/ ClientEnds(c) \/ ClientResets(c)
      PROVE SocketTypes'
  BY <1>7
  DEF ClientSends, ClientEnds, ClientResets, sockVars, histVars, SocketTypes, PeerStates
<1>8. ASSUME NEW c \in Conns, ClientReads(c) PROVE SocketTypes'
  <2>1. room[c] + 1 \in 0..Room
    BY <1>8, SizesAssumption DEF ClientReads, SocketTypes, SizesAssumption
  <2>2. QED BY <1>8, <2>1 DEF ClientReads, peerVars, histVars, SocketTypes
<1>9. QED
  BY <1>1, <1>2, <1>3, <1>4, <1>5, <1>6, <1>7, <1>8
  DEF Next, SenderStep, MainStep, CloseStep, ClientStep, sockVars, peerVars, histVars,
      Wake, StartPass, EndPass, DropStale, FindCurrent, Skip, TakeOut, Release,
      ClearSent, Raise, ReadEnd, NotWritable, HangUp, Write, WriteFree, WriteClear,
      Lower, Post, EpollWait, MsgSend,
      Kick, Drop, Retire, SendPipe

(* A step keeps the types of what the threads have.                        *)
LEMMA StepThreadTypes ==
  ASSUME Types, Places, Next
  PROVE  ThreadTypes'
<1> USE Kinds DEF Types
<1>1. CASE UNCHANGED <<at, pc, pos, doomed, revents>> BY <1>1 DEF ThreadTypes
<1>2. ASSUME NEW t \in Threads, NEW p \in SenderPlaces \cup MainPlaces, Goto(t, p),
             NEW c \in Conns \cup {Nobody}, at' = at \/ at' = [at EXCEPT ![t] = c],
             pos' \in Nat \ {0}, doomed' \subseteq Ids, revents' \subseteq Flags
      PROVE  ThreadTypes'
  <2>1. pc' \in [Threads -> SenderPlaces \cup MainPlaces] BY <1>2, Moves
  <2>2. at' \in [Threads -> Conns \cup {Nobody}] BY <1>2 DEF ThreadTypes
  <2>3. QED BY <1>2, <2>1, <2>2 DEF ThreadTypes
<1>3. CASE Wake \/ EndPass \/ Raise \/ SendDone \/ SendPart \/ TakeOut \/ Release
  <2>1. /\ \E p \in SenderPlaces : Goto(Sender, p)
        /\ at' = at /\ UNCHANGED <<doomed, revents>> /\ pos' \in {pos, 1}
    BY <1>3
    DEF Wake, EndPass, Raise, SendDone, SendPart, TakeOut, Release, SenderPlaces,
        passVars
  <2>2. QED BY <1>2, <2>1 DEF ThreadTypes
<1>4. CASE FindCurrent \/ Skip \/ ClearSent \/ ArmOut
  <2>1. /\ \E p \in SenderPlaces : Goto(Sender, p)
        /\ UNCHANGED <<doomed, revents>> /\ pos' \in Nat \ {0}
    BY <1>4
    DEF FindCurrent, Skip, ClearSent, ArmOut, SenderPlaces, passVars, ThreadTypes
  <2>2. FindCurrent => queue[pos].conn \in Conns BY Looking DEF FindCurrent, Msgs
  <2>3. \E c \in Conns \cup {Nobody} : at' = [at EXCEPT ![Sender] = c]
    BY <1>4, <2>2 DEF FindCurrent, Skip, ClearSent, ArmOut
  <2>4. QED BY <1>2, <2>1, <2>3 DEF ThreadTypes
<1>5. CASE StartPass
  <2>1. \E p \in SenderPlaces : Goto(Sender, p)
    BY <1>5 DEF StartPass, SenderPlaces
  <2>2. {m.id : m \in {n \in ToSet(queue) : Stale(n)}} \subseteq Ids
    BY Elements DEF Msgs
  <2>3. UNCHANGED <<at, revents>> /\ pos' \in {pos, 1} /\ doomed' \subseteq Ids
    BY <1>5, <2>2 DEF StartPass, passVars, ThreadTypes
  <2>4. QED BY <1>2, <2>1, <2>3 DEF ThreadTypes
<1>6. CASE DropStale
  BY <1>6 DEF DropStale, thrVars, ThreadTypes
<1>7. CASE \/ ReadSome \/ ReadEnd \/ Write \/ WriteDone \/ DisarmOut \/ WriteFree
           \/ WriteClear \/ Lower
  <2>1. /\ \E p \in MainPlaces : Goto(Main, p)
        /\ UNCHANGED <<at, pos, doomed, revents>>
    BY <1>7
    DEF ReadSome, ReadEnd, Write, WriteDone, DisarmOut, WriteFree, WriteClear, Lower,
        MainPlaces, ClosePCs, passVars
  <2>2. QED BY <1>2, <2>1 DEF ThreadTypes
<1>8. CASE NotWritable \/ HangUp \/ WritePart \/ Post
  <2>1. EndEvent /\ UNCHANGED <<pos, doomed>>
    BY <1>8 DEF NotWritable, HangUp, WritePart, Post, passVars
  <2>2. QED BY <1>2, <2>1 DEF EndEvent, MainPlaces, ThreadTypes
<1>9. ASSUME NEW c \in Conns, EpollWait(c) PROVE ThreadTypes'
  <2>1. Reported(c) \subseteq Flags BY DEF Reported, Flags
  <2>2. \E p \in MainPlaces : Goto(Main, p) BY <1>9 DEF EpollWait, MainPlaces
  <2>3. QED BY <1>2, <1>9, <2>1, <2>2 DEF EpollWait, passVars, ThreadTypes
<1>10. ASSUME NEW c \in Conns, MsgSend(c) \/ Kick(c) PROVE ThreadTypes'
  <2>1. \/ UNCHANGED <<pc, at>>
        \/ \E t \in Closers : Goto(t, "close") /\ at' = [at EXCEPT ![t] = c]
    BY <1>10 DEF MsgSend, Kick, thrVars
  <2>2. UNCHANGED <<pos, doomed, revents>> BY <1>10 DEF MsgSend, Kick, passVars
  <2>3. "close" \in MainPlaces BY DEF MainPlaces, ClosePCs
  <2>4. QED BY <1>1, <1>2, <2>1, <2>2, <2>3 DEF ThreadTypes
<1>11. ASSUME NEW t \in Closers, CloseStep(t) PROVE ThreadTypes'
  <2>1. /\ \E p \in MainPlaces : Goto(t, p)
        /\ at' = at \/ at' = [at EXCEPT ![t] = Nobody]
        /\ UNCHANGED <<pos, doomed, revents>>
    BY <1>11 DEF CloseStep, CloseSocket, Drop, Retire, MainPlaces, ClosePCs, passVars
  <2>2. QED BY <1>2, <2>1 DEF ThreadTypes
<1>12. QED
  BY <1>1, <1>3, <1>4, <1>5, <1>6, <1>7, <1>8, <1>9, <1>10, <1>11
  DEF Next, SenderStep, MainStep, ClientStep, thrVars, passVars,
      Reuse, ClientSends, ClientReads, ClientEnds, ClientResets, SendPipe

(* A step keeps the types.                                                 *)
LEMMA StepTypes ==
  ASSUME Types, Places, Found, Next
  PROVE  Types'
BY StepQueueTypes, StepConnTypes, StepSocketTypes, StepThreadTypes DEF Types

-----------------------------------------------------------------------------
(* Where the threads are.                                                  *)

(* A step keeps Places: the mutex is with whoever is where it is needed.   *)
LEMMA StepPlaces ==
  ASSUME Types, ThreadTypes', Places, Next
  PROVE  Places'
<1> USE Kinds, NamesAssumption DEF Types, NamesAssumption
<1> DEFINE Resting == {"idle", "sem", "woken", "look"}
<1>1. CASE UNCHANGED <<at, pc, mutex, revents>> BY <1>1 DEF Places
<1>2. ASSUME NEW p \in SenderPlaces, Goto(Sender, p), UNCHANGED revents,
             \A t \in Closers : at'[t] = at[t],
             at'[Sender] = Nobody <=> p \in Resting,
             mutex' = Sender <=> p \notin {"sem", "woken"},
             mutex' = Worker <=> mutex = Worker
      PROVE  Places'
  BY <1>2, Moves DEF Places
<1>3. ASSUME NEW p \in MainPlaces, Goto(Main, p), UNCHANGED mutex,
             \A t \in Threads \ {Main} : at'[t] = at[t],
             at'[Main] = Nobody <=> p \in Resting,
             p \in {"send", "disarm", "free", "clear", "lower"} => "out" \in revents'
      PROVE  Places'
  BY <1>3, Moves DEF Places
<1>4. ASSUME NEW t \in {Timer, Worker}, NEW p \in CloserPlaces, Goto(t, p),
             UNCHANGED revents,
             \A u \in Threads \ {t} : at'[u] = at[u],
             at'[t] = Nobody <=> p \in Resting,
             IF t = Worker THEN mutex' = Worker <=> p # "idle" ELSE mutex' = mutex,
             mutex' = Sender <=> mutex = Sender
      PROVE  Places'
  BY <1>4, Moves DEF Places
<1>5. CASE SenderStep
  <2>1. CASE DropStale BY <1>1, <2>1 DEF DropStale, thrVars
  <2>2. CASE Wake
    BY <1>2, <2>2, Moves DEF Wake, SenderAt, SenderPlaces, Places
  <2>3. CASE StartPass
    BY <1>2, <2>3 DEF StartPass, SenderAt, SenderPlaces, Places
  <2>4. CASE EndPass
    BY <1>2, <2>4 DEF EndPass, SenderAt, SenderPlaces, Places
  <2>5. CASE FindCurrent
    <3>1. queue[pos].conn \in Conns BY <2>5, Looking DEF FindCurrent, Msgs
    <3>2. at'[Sender] = queue[pos].conn /\ \A t \in Closers : at'[t] = at[t]
      BY <2>5 DEF FindCurrent, ThreadTypes
    <3>3. UNCHANGED <<mutex, revents>> /\ Goto(Sender, "current") /\ mutex = Sender
      BY <2>5 DEF FindCurrent, queueVars, SenderAt, Places
    <3>4. QED BY <1>2, <3>1, <3>2, <3>3 DEF SenderPlaces
  <2>6. CASE TakeOut \/ SendDone \/ SendPart \/ Release \/ Raise
    <3>1. \E p \in {"send", "release", "clear", "raise", "arm"} : Goto(Sender, p)
      BY <2>6 DEF TakeOut, SendDone, SendPart, Release, Raise
    <3>2. UNCHANGED <<at, mutex, revents>>
      BY <2>6 DEF TakeOut, SendDone, SendPart, Release, Raise, queueVars
    <3>3. mutex = Sender /\ at[Sender] # Nobody
      BY <2>6 DEF TakeOut, SendDone, SendPart, Release, Raise, SenderAt, Places
    <3>4. QED BY <1>2, <3>1, <3>2, <3>3 DEF SenderPlaces
  <2>7. CASE Skip \/ ClearSent \/ ArmOut
    <3>1. Goto(Sender, "look") /\ at' = [at EXCEPT ![Sender] = Nobody]
          /\ UNCHANGED <<mutex, revents>>
      BY <2>7 DEF Skip, ClearSent, ArmOut, queueVars
    <3>2. mutex = Sender BY <2>7 DEF Skip, ClearSent, ArmOut, SenderAt, Places
    <3>3. QED BY <1>2, <3>1, <3>2 DEF SenderPlaces, ThreadTypes
  <2>8. QED BY <1>5, <2>1, <2>2, <2>3, <2>4, <2>5, <2>6, <2>7 DEF SenderStep
<1>6. CASE MainStep
  <2>1. CASE \/ ReadSome \/ ReadEnd \/ Write \/ WriteDone \/ DisarmOut \/ WriteFree
             \/ WriteClear \/ Lower
    <3>1. /\ \E p \in MainPlaces \ {"idle"} :
               /\ Goto(Main, p)
               /\ p \in {"send", "disarm", "free", "clear", "lower"} => "out" \in revents
          /\ UNCHANGED <<at, mutex, revents>>
      BY <2>1
      DEF ReadSome, ReadEnd, Write, WriteDone, DisarmOut, WriteFree, WriteClear, Lower,
          MainAt, MainPlaces, ClosePCs, queueVars, Places
    <3>2. at[Main] # Nobody
      BY <2>1
      DEF ReadSome, ReadEnd, Write, WriteDone, DisarmOut, WriteFree, WriteClear, Lower,
          MainAt, Places
    <3>3. QED BY <1>3, <3>1, <3>2 DEF MainPlaces, ClosePCs
  <2>2. CASE NotWritable \/ HangUp \/ WritePart \/ Post
    <3>1. EndEvent /\ UNCHANGED mutex
      BY <2>2 DEF NotWritable, HangUp, WritePart, Post, queueVars
    <3>2. QED BY <1>3, <3>1 DEF EndEvent, MainPlaces, ThreadTypes
  <2>3. ASSUME NEW c \in Conns, EpollWait(c) PROVE Places'
    BY <1>3, <2>3 DEF EpollWait, MainPlaces, queueVars, ThreadTypes
  <2>4. QED BY <1>6, <2>1, <2>2, <2>3 DEF MainStep
<1>7. ASSUME NEW t \in Closers, CloseStep(t) PROVE Places'
  <2>1. CASE CloseSocket(t) \/ Drop(t)
    <3>1. /\ \E p \in {"drop", "retire"} : Goto(t, p)
          /\ UNCHANGED <<at, mutex, revents>>
      BY <2>1 DEF CloseSocket, Drop, queueVars
    <3>2. at[t] # Nobody /\ (t = Worker => mutex = Worker)
      BY <2>1 DEF CloseSocket, Drop, Places
    <3>3. QED BY <1>3, <1>4, <3>1, <3>2 DEF MainPlaces, CloserPlaces, ClosePCs
  <2>2. CASE Retire(t)
    <3>1. CASE t = Main
      <4>1. Goto(Main, "out") /\ UNCHANGED <<at, mutex, revents>> /\ at[Main] # Nobody
        BY <2>2, <3>1 DEF Retire, Places
      <4>2. QED BY <1>3, <4>1 DEF MainPlaces
    <3>2. CASE t # Main
      <4>1. /\ Goto(t, "idle") /\ at' = [at EXCEPT ![t] = Nobody] /\ UNCHANGED revents
            /\ mutex' = (IF t = Worker THEN Nobody ELSE mutex)
            /\ t = Worker => mutex = Worker
        BY <2>2, <3>2 DEF Retire, Places
      <4>2. QED BY <1>4, <3>2, <4>1 DEF CloserPlaces, ThreadTypes
    <3>3. QED BY <3>1, <3>2
  <2>3. QED BY <1>7, <2>1, <2>2 DEF CloseStep
<1>8. ASSUME NEW c \in Conns, MsgSend(c) PROVE Places'
  <2>1. CASE UNCHANGED <<thrVars, mutex>> BY <1>1, <1>8, <2>1 DEF MsgSend, thrVars
  <2>2. CASE /\ mutex = Nobody /\ mutex' = Worker /\ Goto(Worker, "close")
             /\ at' = [at EXCEPT ![Worker] = c] /\ UNCHANGED revents
    BY <1>4, <2>2 DEF CloserPlaces, ClosePCs, ThreadTypes
  <2>3. QED BY <1>8, <2>1, <2>2 DEF MsgSend, queueVars, thrVars
<1>9. ASSUME NEW c \in Conns, Kick(c) PROVE Places'
  BY <1>4, <1>9 DEF Kick, CloserPlaces, ClosePCs, queueVars, ThreadTypes
<1>10. QED
  BY <1>1, <1>5, <1>6, <1>7, <1>8, <1>9
  DEF Next, ClientStep, Reuse, ClientSends, ClientReads, ClientEnds, ClientResets,
      SendPipe, queueVars, thrVars

-----------------------------------------------------------------------------
(* A step of one thread leaves the others where they are.                  *)

OthersStay(t) == \A u \in Threads \ {t} : pc'[u] = pc[u] /\ at'[u] = at[u]

(* What a step of the send thread leaves alone.                            *)
LEMMA SenderAlone ==
  ASSUME Types, SenderStep
  PROVE  /\ OthersStay(Sender)
         /\ UNCHANGED <<seq, retired, open, unread, peer, made, revents>>
<1> USE Kinds, NamesAssumption DEF NamesAssumption, Types, ThreadTypes, Goto, OthersStay
<1>1. CASE Wake \/ StartPass \/ EndPass \/ DropStale \/ FindCurrent \/ Skip
  BY <1>1
  DEF Wake, StartPass, EndPass, DropStale, FindCurrent, Skip, lifeVars, sockVars,
      peerVars, histVars, thrVars
<1>2. CASE TakeOut \/ SendDone \/ SendPart \/ Release \/ ClearSent \/ Raise \/ ArmOut
  BY <1>2
  DEF TakeOut, SendDone, SendPart, Release, ClearSent, Raise, ArmOut, lifeVars,
      sockVars, peerVars, histVars
<1>3. QED BY <1>1, <1>2 DEF SenderStep

(* What a step of the epoll thread leaves alone.                           *)
LEMMA MainAlone ==
  ASSUME Types, MainStep
  PROVE  /\ OthersStay(Main)
         /\ UNCHANGED <<queue, mutex, seq, retired, waiting, open, peer, made,
                        stray, pos, doomed>>
<1> USE Kinds, NamesAssumption DEF NamesAssumption, Types, ThreadTypes, Goto, OthersStay
<1>1. CASE \/ ReadSome \/ ReadEnd \/ Write \/ NotWritable \/ HangUp
           \/ \E c \in Conns : EpollWait(c)
  BY <1>1
  DEF ReadSome, ReadEnd, Write, NotWritable, HangUp, EpollWait, EndEvent, queueVars,
      sendVars, lifeVars, sockVars, peerVars, histVars, passVars
<1>2. CASE \/ WritePart \/ WriteDone \/ DisarmOut \/ WriteFree \/ WriteClear \/ Lower
           \/ Post
  BY <1>2
  DEF WritePart, WriteDone, DisarmOut, WriteFree, WriteClear, Lower, Post, EndEvent,
      queueVars, sendVars, lifeVars, sockVars, peerVars, histVars, passVars
<1>3. QED BY <1>1, <1>2 DEF MainStep

(* What a step of a thread that closes a connection leaves alone.          *)
LEMMA CloserAlone ==
  ASSUME Types, NEW t \in Closers, CloseStep(t)
  PROVE  /\ OthersStay(t)
         /\ UNCHANGED <<queue, psend, left, waiting, wire, made, freed, stray, pos,
                        doomed, revents>>
BY Kinds
DEF Types, ThreadTypes, Goto, OthersStay, CloseStep, CloseSocket, Drop, Retire,
    queueVars, sendVars, sockVars, peerVars, histVars, passVars

-----------------------------------------------------------------------------
(* A step keeps Sockets: a hung-up connection is closed before its write.  *)
LEMMA StepSockets ==
  ASSUME ~UnreadAtEof, Types, Types', Places, Sockets, Next
  PROVE  Sockets'
<1> USE Kinds, NamesAssumption DEF NamesAssumption, Types
<1>1. CASE UNCHANGED <<retired, open, pc, at, peer, unread, revents>>
  BY <1>1 DEF Sockets
<1>2. CASE SenderStep
  <2>1. UNCHANGED <<retired, open, unread, peer, revents>>
        /\ \A t \in Closers : pc'[t] = pc[t] /\ at'[t] = at[t]
    BY <1>2, SenderAlone DEF OthersStay
  <2>2. QED BY <2>1 DEF Sockets
<1>3. CASE MainStep
  <2>1. /\ UNCHANGED <<retired, open, peer>>
        /\ \A t \in Closers \ {Main} : pc'[t] = pc[t] /\ at'[t] = at[t]
    BY <1>3, MainAlone DEF OthersStay
  <2>2. unread' \subseteq unread
    BY <1>3
    DEF MainStep, ReadSome, ReadEnd, Write, NotWritable, HangUp, EpollWait, WritePart,
        WriteDone, DisarmOut, WriteFree, WriteClear, Lower, Post, peerVars
  <2>3. pc'[Main] \notin {"drop", "retire"}
    BY <1>3
    DEF MainStep, ReadSome, ReadEnd, Write, NotWritable, HangUp, EpollWait, WritePart,
        WriteDone, DisarmOut, WriteFree, WriteClear, Lower, Post, EndEvent, Goto, ThreadTypes
  <2>4. pc'[Main] \in {"in", "out"} /\ "hup" \in revents' =>
          \E c \in Conns : EpollWait(c)
    <3>1. SUFFICES ASSUME pc'[Main] \in {"in", "out"}, "hup" \in revents',
                          \A c \in Conns : ~EpollWait(c)
                   PROVE  FALSE
      OBVIOUS
    <3>2. CASE ReadSome
      BY <3>1, <3>2, AtConn DEF ReadSome, MainAt, MainPlaces, Sockets
    <3>3. CASE NotWritable \/ HangUp \/ WritePart \/ Post
      BY <3>1, <3>3 DEF NotWritable, HangUp, WritePart, Post, EndEvent
    <3>4. CASE \/ ReadEnd \/ Write \/ WriteDone \/ DisarmOut \/ WriteFree
               \/ WriteClear \/ Lower
      BY <3>1, <3>4
      DEF ReadEnd, Write, WriteDone, DisarmOut, WriteFree, WriteClear, Lower, Goto,
          ThreadTypes
    <3>5. QED BY <1>3, <3>1, <3>2, <3>3, <3>4 DEF MainStep
  <2>5. ASSUME NEW c \in Conns, EpollWait(c), "hup" \in revents'
        PROVE  peer'[c] # "open" /\ pc'[Main] = "in" /\ at'[Main] = c
    BY <2>5 DEF EpollWait, Reported, Goto, ThreadTypes, peerVars
  <2>6. /\ pc'[Main] = "in" /\ "hup" \in revents' => peer'[at'[Main]] # "open"
        /\ ~(pc'[Main] = "out" /\ "hup" \in revents')
    BY <2>4, <2>5
  <2>7. QED BY <2>1, <2>2, <2>3, <2>6 DEF Sockets
<1>4. ASSUME NEW t \in Closers, CloseStep(t) PROVE Sockets'
  <2>1. /\ UNCHANGED revents
        /\ \A u \in Closers \ {t} : pc'[u] = pc[u] /\ at'[u] = at[u]
    BY <1>4, CloserAlone DEF OthersStay
  <2>2. CASE CloseSocket(t)
    <3>1. /\ open' = open \ {at[t]} /\ unread' = unread \ {at[t]}
          /\ peer' = [peer EXCEPT ![at[t]] = "open"] /\ UNCHANGED <<retired, at>>
          /\ pc'[t] \in {"drop", "retire"} /\ at[t] \in Conns
      BY <2>2, AtConn
      DEF CloseSocket, SocketGone, lifeVars, Goto, ThreadTypes, ClosePCs
    <3>2. \A c \in Conns : peer'[c] = IF c = at[t] THEN "open" ELSE peer[c]
      BY <3>1 DEF SocketTypes
    <3>3. QED BY <2>1, <3>1, <3>2 DEF Sockets
  <2>3. CASE Drop(t)
    BY <2>1, <2>3 DEF Drop, lifeVars, sockVars, peerVars, Goto, ThreadTypes, Sockets
  <2>4. CASE Retire(t)
    <3>1. UNCHANGED <<open, unread, peer>> /\ retired' = retired \cup {at[t]}
          /\ at[t] \notin open
      BY <2>4, AtConn DEF Retire, lifeVars, sockVars, peerVars, Sockets, ClosePCs
    <3>2. pc'[t] \in {"out", "idle"} /\ (t = Main => pc'[t] = "out" /\ at' = at)
      BY <2>4 DEF Retire, Goto, ThreadTypes
    <3>3. pc'[Main] = "out" => at'[Main] \in retired' \/ pc[Main] = "out"
      BY <2>1, <3>1, <3>2
    <3>4. QED BY <2>1, <3>1, <3>2, <3>3 DEF Sockets
  <2>5. QED BY <1>4, <2>2, <2>3, <2>4 DEF CloseStep
<1>5. ASSUME NEW c \in Conns, MsgSend(c) \/ Kick(c) PROVE Sockets'
  <2>1. UNCHANGED <<retired, open, unread, peer, revents>>
    BY <1>5 DEF MsgSend, Kick, lifeVars, sockVars, peerVars
  <2>2. /\ pc'[Main] = pc[Main] /\ at'[Main] = at[Main]
        /\ \A t \in {Timer, Worker} :
             \/ pc'[t] = pc[t] /\ at'[t] = at[t]
             \/ pc'[t] = "close"
    BY <1>5 DEF MsgSend, Kick, Goto, thrVars, ThreadTypes
  <2>3. QED BY <2>1, <2>2 DEF Sockets
<1>6. ASSUME NEW c \in Conns, Reuse(c) PROVE Sockets'
  <2>1. \A t \in Closers : at[t] # c BY <1>6 DEF Reuse, Working
  <2>2. /\ UNCHANGED <<pc, at, revents>>
        /\ retired' = retired \ {c} /\ open' = open \cup {c}
        /\ UNCHANGED <<unread, peer>> /\ c \notin open
    BY <1>6 DEF Reuse, thrVars, peerVars, Sockets
  <2>3. QED BY <2>1, <2>2 DEF Sockets, SocketTypes
<1>7. ASSUME NEW c \in Conns, ClientStep(c) PROVE Sockets'
  <2>1. UNCHANGED <<retired, open, pc, at, revents>>
    BY <1>7
    DEF ClientStep, ClientSends, ClientReads, ClientEnds, ClientResets, lifeVars,
        sockVars, thrVars
  <2>2. /\ \A d \in open : peer'[d] # "open" => d \notin unread'
        /\ \A d \in Conns : /\ peer[d] # "open" => peer'[d] # "open"
                            /\ d \notin open => peer'[d] = peer[d]
    BY <1>7
    DEF ClientStep, ClientSends, ClientReads, ClientEnds, ClientResets, peerVars,
        Sockets, SocketTypes
  <2>3. QED BY <2>1, <2>2 DEF Sockets, SocketTypes
<1>8. QED
  BY <1>1, <1>2, <1>3, <1>4, <1>5, <1>6, <1>7
  DEF Next, SendPipe, lifeVars, sockVars, thrVars, peerVars

(* A step keeps Found: the message looked at is for its connection.        *)
LEMMA StepFound ==
  ASSUME Types, Types', Places, Found, Next
  PROVE  Found'
<1> USE Kinds, NamesAssumption DEF NamesAssumption, Types
<1>1. CASE SenderStep
  <2>1. CASE FindCurrent
    <3>1. /\ pos <= Len(queue) /\ ~Stale(queue[pos]) /\ UNCHANGED <<queue, pos, seq>>
          /\ at' = [at EXCEPT ![Sender] = queue[pos].conn]
      BY <2>1 DEF FindCurrent, queueVars, lifeVars, passVars
    <3>2. QED BY <3>1 DEF Found, Stale, ThreadTypes
  <2>2. CASE ~FindCurrent
    <3>1. pc'[Sender] # "current"
      BY <1>1, <2>2
      DEF SenderStep, Wake, StartPass, EndPass, DropStale, Skip, TakeOut, SendDone,
          SendPart, Release, ClearSent, Raise, ArmOut, SenderAt, Goto, ThreadTypes,
          thrVars
    <3>2. QED BY <3>1 DEF Found
  <2>3. QED BY <2>1, <2>2
<1>2. CASE MainStep
  BY <1>2, MainAlone DEF OthersStay, Found
<1>3. ASSUME NEW t \in Closers, CloseStep(t) PROVE Found'
  <2>1. /\ UNCHANGED <<queue, pos>> /\ pc'[Sender] = pc[Sender] /\ at'[Sender] = at[Sender]
    BY <1>3, CloserAlone DEF OthersStay
  <2>2. retired \subseteq retired' /\ \A c \in Conns \ retired' : seq'[c] = seq[c]
    BY <1>3, AtConn
    DEF CloseStep, CloseSocket, Drop, Retire, lifeVars, ClosePCs, ConnTypes
  <2>3. pc[Sender] = "current" => at[Sender] \in Conns BY AtConn DEF SenderPlaces
  <2>4. QED BY <2>1, <2>2, <2>3 DEF Found
<1>4. ASSUME NEW c \in Conns, MsgSend(c) PROVE Found'
  <2>1. pc[Sender] # "current" BY <1>4 DEF MsgSend, Places
  <2>2. pc'[Sender] = pc[Sender] BY <1>4 DEF MsgSend, Goto, thrVars, ThreadTypes
  <2>3. QED BY <2>1, <2>2 DEF Found
<1>5. ASSUME NEW c \in Conns, Kick(c) \/ Reuse(c) PROVE Found'
  <2>1. UNCHANGED <<queue, pos>> /\ pc'[Sender] = pc[Sender] /\ at'[Sender] = at[Sender]
    BY <1>5 DEF Kick, Reuse, Goto, queueVars, passVars, thrVars, ThreadTypes
  <2>2. pc[Sender] = "current" =>
          /\ at[Sender] \in retired' <=> at[Sender] \in retired
          /\ seq'[at[Sender]] = seq[at[Sender]]
    <3>1. pc[Sender] = "current" => at[Sender] \in Conns BY AtConn DEF SenderPlaces
    <3>2. QED BY ZenonT(40), <1>5, <3>1 DEF Kick, Reuse, Working, lifeVars, ConnTypes
  <2>3. QED BY <2>1, <2>2 DEF Found
<1>6. CASE UNCHANGED <<queue, pos, seq, retired, pc, at>> BY <1>6 DEF Found
<1>7. QED
  BY <1>1, <1>2, <1>3, <1>4, <1>5, <1>6
  DEF Next, ClientStep, ClientSends, ClientReads, ClientEnds, ClientResets, SendPipe,
      queueVars, lifeVars, passVars, thrVars

-----------------------------------------------------------------------------
(* Whose turn it is.                                                       *)

(* Connections are given back by zdClosesocketProc() alone.                *)
LEMMA AbandonedStays ==
  ASSUME Types, \/ SenderStep \/ MainStep
                \/ \E c \in Conns : MsgSend(c) \/ Kick(c) \/ ClientStep(c)
  PROVE  \A c \in Conns : Abandoned(c)' <=> Abandoned(c)
<1> USE Kinds, NamesAssumption DEF NamesAssumption, Types, Abandoned
<1>1. CASE SenderStep BY <1>1, SenderAlone DEF OthersStay
<1>2. CASE MainStep
  <2>1. pc[Main] # "retire" /\ pc'[Main] # "retire"
    BY <1>2
    DEF MainStep, ReadSome, ReadEnd, Write, NotWritable, HangUp, EpollWait, WritePart,
        WriteDone, DisarmOut, WriteFree, WriteClear, Lower, Post, EndEvent, MainAt, Goto,
        ThreadTypes
  <2>2. QED BY <1>2, <2>1, MainAlone DEF OthersStay
<1>3. ASSUME NEW c \in Conns, MsgSend(c) \/ Kick(c) \/ ClientStep(c)
      PROVE  \A d \in Conns : Abandoned(d)' <=> Abandoned(d)
  BY <1>3
  DEF MsgSend, Kick, ClientStep, ClientSends, ClientReads, ClientEnds, ClientResets,
      Goto, thrVars, lifeVars, ThreadTypes
<1>4. QED BY <1>1, <1>2, <1>3

(* What is being given back is given back.                                 *)
LEMMA AbandonedKept ==
  ASSUME Types, Places, NEW t \in Closers, CloseStep(t), NEW c \in Conns, Abandoned(c)
  PROVE  Abandoned(c)'
<1> USE Kinds DEF Types
<1>1. \A u \in Closers \ {t} : pc'[u] = pc[u] /\ at'[u] = at[u]
  BY CloserAlone DEF OthersStay
<1>2. CASE CloseSocket(t) \/ Drop(t)
  BY <1>1, <1>2 DEF CloseSocket, Drop, Abandoned, lifeVars, Goto, ThreadTypes
<1>3. CASE Retire(t)
  <2>1. retired' = retired \cup {at[t]} BY <1>3 DEF Retire, lifeVars
  <2>2. QED BY <1>1, <2>1 DEF Abandoned
<1>4. QED BY <1>2, <1>3 DEF CloseStep

(* Steps that do not move the turn at c.                                   *)
Quiet(c) ==
  /\ throw'[c] = throw[c] /\ psend'[c] = psend[c] /\ (c \in armed' => c \in armed)
  /\ SenderHas(c)' <=> SenderHas(c)
  /\ SenderAtConn(c, {"send", "release", "clear", "raise"})' =>
       SenderAtConn(c, {"send", "release", "clear", "raise"})
  /\ SenderAtConn(c, {"arm"})' => SenderAtConn(c, {"arm"})
  /\ MainOwes(c)' => MainOwes(c)
  /\ MainAtConn(c, {"lower"})' <=> MainAtConn(c, {"lower"})
  /\ MainAtConn(c, {"free", "clear", "lower"})' =>
       MainAtConn(c, {"free", "clear", "lower"})

(* A quiet step keeps the turn.                                            *)
LEMMA QuietTurn ==
  ASSUME NEW c \in Conns, Turn(c), Quiet(c)
  PROVE  Turn(c)'
BY DEF Quiet, Turn

SenderStays == at'[Sender] = at[Sender] /\ pc'[Sender] = pc[Sender]
MainStays == UNCHANGED revents /\ at'[Main] = at[Main] /\ pc'[Main] = pc[Main]

(* The send thread keeps the turns: it takes one up at count 0 only.       *)
LEMMA SenderTurn ==
  ASSUME Types, Places, Found, SenderStep, NEW c \in Conns, Turn(c)
  PROVE  Turn(c)'
<1> USE Kinds DEF Types
<1>1. MainStays BY SenderAlone DEF OthersStay, MainStays
<1>2. UNCHANGED <<MainOwes(c), MainAtConn(c, {"lower"}),
                  MainAtConn(c, {"free", "clear", "lower"})>>
  BY <1>1 DEF MainStays, MainOwes, MainAtConn
<1>3. MainAtConn(c, {"free", "clear", "lower"}) => MainOwes(c)
  BY DEF MainAtConn, MainOwes, MainPlaces, Places
<1>4. MainAtConn(c, {"lower"}) => MainAtConn(c, {"free", "clear", "lower"})
  BY DEF MainAtConn
<1>5. ASSUME throw'[c] = throw[c], psend'[c] = psend[c], c \in armed' => c \in armed,
             at[Sender] # c, at'[Sender] # c
      PROVE  Turn(c)'
  BY <1>2, <1>5, QuietTurn DEF Quiet, SenderHas, SenderAtConn
<1>6. CASE Wake \/ StartPass \/ EndPass \/ DropStale
  <2>1. at[Sender] = Nobody BY <1>6 DEF Wake, StartPass, EndPass, DropStale, SenderAt, Places
  <2>2. UNCHANGED <<throw, psend, armed, at>>
    BY <1>6 DEF Wake, StartPass, EndPass, DropStale, sendVars, sockVars, thrVars
  <2>3. QED BY <1>5, <2>1, <2>2, NamesAssumption DEF NamesAssumption
<1>7. CASE FindCurrent \/ Skip
  <2>1. /\ UNCHANGED <<throw, psend, armed>> /\ pc[Sender] \in {"look", "current"}
        /\ pc'[Sender] \in {"look", "current"}
    BY <1>7 DEF FindCurrent, Skip, SenderAt, sendVars, sockVars, Goto, ThreadTypes
  <2>2. QED BY <1>2, <2>1, QuietTurn DEF Quiet, SenderHas, SenderAtConn
<1>8. CASE TakeOut
  <2>1. /\ UNCHANGED <<throw, armed, at>> /\ pc[Sender] = "current" /\ pc'[Sender] = "send"
        /\ psend' = [psend EXCEPT ![at[Sender]] = queue[pos]] /\ throw[at[Sender]] <= 0
    BY <1>8 DEF TakeOut, SenderAt, sockVars, Goto, ThreadTypes
  <2>2. queue[pos] \in Msgs BY <2>1, Looking DEF Found
  <2>3. CASE at[Sender] # c BY <1>5, <2>1, <2>3 DEF ConnTypes
  <2>4. CASE at[Sender] = c
    <3>1. psend'[c] # Nobody /\ psend[c] \in Msgs \cup {Nobody}
      BY <2>1, <2>2, <2>4, NamesAssumption DEF NamesAssumption, ConnTypes
    <3>2. SenderHas(c)' /\ ~SenderAtConn(c, {"arm"})'
      BY <2>1, <2>4 DEF SenderHas, SenderAtConn
    <3>3. throw[c] = 0 /\ c \notin armed /\ ~MainOwes(c)
      BY <2>1, <2>4 DEF Turn
    <3>4. QED BY <1>2, <1>3, <1>4, <2>1, <3>1, <3>2, <3>3 DEF Turn
  <2>5. QED BY <2>3, <2>4
<1>9. CASE SendDone \/ SendPart \/ Release
  <2>1. /\ UNCHANGED <<throw, psend, armed, at>> /\ pc[Sender] \in {"send", "release"}
        /\ pc'[Sender] \in {"release", "clear", "raise"}
    BY <1>9
    DEF SendDone, SendPart, Release, SenderAt, sendVars, sockVars, Goto, ThreadTypes
  <2>2. QED BY <1>2, <2>1, QuietTurn DEF Quiet, SenderHas, SenderAtConn
<1>10. CASE ClearSent
  <2>1. /\ UNCHANGED armed /\ pc[Sender] = "clear" /\ pc'[Sender] = "look"
        /\ at'[Sender] = Nobody /\ at[Sender] \in Conns
        /\ psend' = [psend EXCEPT ![at[Sender]] = Nobody]
        /\ throw' = [throw EXCEPT ![at[Sender]] = 0]
    BY <1>10, AtConn
    DEF ClearSent, Clear, SenderAt, SenderPlaces, sockVars, Goto, ThreadTypes
  <2>2. CASE at[Sender] # c
    BY <1>5, <2>1, <2>2, NamesAssumption DEF ConnTypes, NamesAssumption
  <2>3. CASE at[Sender] = c
    <3>1. psend'[c] = Nobody /\ throw'[c] = 0 BY <2>1, <2>3 DEF ConnTypes
    <3>2. SenderHas(c) BY <2>1, <2>3 DEF SenderHas, SenderAtConn
    <3>3. /\ ~SenderHas(c)' /\ ~SenderAtConn(c, {"arm"})'
          /\ ~SenderAtConn(c, {"send", "release", "clear", "raise"})'
      BY <2>1, <2>3, NamesAssumption DEF SenderHas, SenderAtConn, NamesAssumption
    <3>4. QED BY <1>2, <1>3, <1>4, <2>1, <3>1, <3>2, <3>3 DEF Turn
  <2>4. QED BY <2>2, <2>3
<1>11. CASE Raise
  <2>1. /\ UNCHANGED <<armed, psend, at>> /\ pc[Sender] = "raise" /\ pc'[Sender] = "arm"
        /\ at[Sender] \in Conns /\ throw' = [throw EXCEPT ![at[Sender]] = @ + 1]
    BY <1>11, AtConn DEF Raise, SenderAt, SenderPlaces, sockVars, Goto, ThreadTypes
  <2>2. CASE at[Sender] # c BY <1>5, <2>1, <2>2 DEF ConnTypes
  <2>3. CASE at[Sender] = c
    <3>1. throw'[c] = throw[c] + 1 BY <2>1, <2>3 DEF ConnTypes
    <3>2. SenderHas(c) /\ SenderAtConn(c, {"send", "release", "clear", "raise"})
      BY <2>1, <2>3 DEF SenderHas, SenderAtConn
    <3>3. SenderHas(c)' /\ ~SenderAtConn(c, {"send", "release", "clear", "raise"})'
      BY <2>1, <2>3 DEF SenderHas, SenderAtConn
    <3>4. QED BY <1>2, <1>3, <1>4, <2>1, <3>1, <3>2, <3>3 DEF Turn
  <2>4. QED BY <2>2, <2>3
<1>12. CASE ArmOut
  <2>1. /\ UNCHANGED <<throw, psend>> /\ pc[Sender] = "arm" /\ pc'[Sender] = "look"
        /\ at'[Sender] = Nobody /\ at[Sender] \in Conns
        /\ armed' \subseteq armed \cup {at[Sender]}
    BY <1>12, AtConn DEF ArmOut, SenderAt, SenderPlaces, sendVars, Goto, ThreadTypes
  <2>2. CASE at[Sender] # c
    BY <1>5, <2>1, <2>2, NamesAssumption DEF NamesAssumption
  <2>3. CASE at[Sender] = c
    <3>1. SenderHas(c) /\ SenderAtConn(c, {"arm"}) BY <2>1, <2>3 DEF SenderHas, SenderAtConn
    <3>2. /\ ~SenderHas(c)' /\ ~SenderAtConn(c, {"arm"})'
          /\ ~SenderAtConn(c, {"send", "release", "clear", "raise"})'
      BY <2>1, <2>3, NamesAssumption DEF SenderHas, SenderAtConn, NamesAssumption
    <3>3. QED BY <1>2, <1>3, <1>4, <2>1, <3>1, <3>2 DEF Turn
  <2>4. QED BY <2>2, <2>3
<1>13. QED
  BY <1>6, <1>7, <1>8, <1>9, <1>10, <1>11, <1>12 DEF SenderStep

(* The epoll thread keeps the turns: it gives one up by the count.         *)
LEMMA MainTurn ==
  ASSUME Types, Places, Sockets, Lefts, MainStep,
         NEW c \in Conns, ~Abandoned(c), Turn(c)
  PROVE  Turn(c)'
<1> USE Kinds DEF Types
<1>1. SenderStays BY MainAlone, NamesAssumption DEF OthersStay, SenderStays, NamesAssumption
<1>2. /\ UNCHANGED <<SenderHas(c), SenderAtConn(c, {"arm"})>>
      /\ UNCHANGED SenderAtConn(c, {"send", "release", "clear", "raise"})
  BY <1>1 DEF SenderStays, SenderHas, SenderAtConn
<1>3. ASSUME throw'[c] = throw[c], psend'[c] = psend[c], c \in armed' => c \in armed,
             at[Main] # c, at'[Main] # c
      PROVE  Turn(c)'
  BY <1>2, <1>3, QuietTurn DEF Quiet, MainOwes, MainAtConn
<1>4. CASE ReadSome \/ ReadEnd \/ Write
  <2>1. /\ UNCHANGED <<throw, psend, armed, at, revents>> /\ pc[Main] \in {"in", "out"}
        /\ pc'[Main] \in {"out", "close", "send"}
    BY <1>4
    DEF ReadSome, ReadEnd, Write, MainAt, sendVars, sockVars, Goto, ThreadTypes
  <2>2. QED BY <1>2, <2>1, QuietTurn DEF Quiet, MainOwes, MainAtConn, MainPlaces, ClosePCs
<1>5. CASE NotWritable \/ WritePart \/ Post
  <2>1. /\ UNCHANGED <<throw, psend, armed>> /\ pc[Main] \in {"out", "send", "post"}
        /\ pc'[Main] = "idle"
    BY <1>5
    DEF NotWritable, WritePart, Post, EndEvent, MainAt, sendVars, sockVars, Goto,
        ThreadTypes
  <2>2. QED BY <1>2, <2>1, QuietTurn DEF Quiet, MainOwes, MainAtConn
<1>6. CASE HangUp
  <2>1. /\ UNCHANGED <<psend, armed>> /\ at[Main] \in retired \cap Conns
        /\ throw' = [throw EXCEPT ![at[Main]] = @ - 1] /\ at'[Main] = Nobody
    BY <1>6, AtConn
    DEF HangUp, EndEvent, MainAt, sockVars, Goto, ThreadTypes, Sockets, MainPlaces
  <2>2. at[Main] # c BY <2>1 DEF Abandoned
  <2>3. QED BY <1>3, <2>1, <2>2, NamesAssumption DEF ConnTypes, NamesAssumption
<1>7. CASE WriteDone
  <2>1. /\ UNCHANGED <<throw, psend, armed, at, revents>> /\ pc[Main] = "send"
        /\ at[Main] \in Conns /\ pc'[Main] \in {"disarm", "free"}
        /\ pc'[Main] = "free" => at[Main] \notin open \/ ~(left[at[Main]] > 0)
    BY <1>7, AtConn DEF WriteDone, MainAt, MainPlaces, Goto, ThreadTypes
  <2>2. CASE at[Main] # c BY <1>3, <2>1, <2>2
  <2>3. CASE at[Main] = c
    <3>1. MainOwes(c) /\ MainOwes(c)' /\ ~MainAtConn(c, {"lower"}) /\ ~MainAtConn(c, {"lower"})'
          /\ ~MainAtConn(c, {"disarm", "free", "clear", "lower"})
      BY <2>1, <2>3 DEF Places, MainOwes, MainAtConn, MainPlaces
    <3>2. pc'[Main] = "free" => c \notin armed
      <4>1. SUFFICES ASSUME pc'[Main] = "free", c \in armed PROVE FALSE
        OBVIOUS
      <4>2. c \in open BY <4>1 DEF SocketTypes
      <4>3. throw[c] = 1 BY <3>1, <4>1 DEF Turn
      <4>4. QED BY <2>1, <2>3, <3>1, <4>1, <4>2, <4>3 DEF Lefts, LeftOK
    <3>3. MainAtConn(c, {"free", "clear", "lower"})' => pc'[Main] = "free"
      BY <2>1 DEF MainAtConn
    <3>4. QED BY <1>2, <2>1, <3>1, <3>2, <3>3 DEF Turn
  <2>4. QED BY <2>2, <2>3
<1>8. CASE DisarmOut
  <2>1. /\ UNCHANGED <<throw, psend, at, revents>> /\ pc[Main] = "disarm"
        /\ pc'[Main] = "free" /\ armed' = armed \ {at[Main]}
    BY <1>8 DEF DisarmOut, MainAt, sendVars, Goto, ThreadTypes
  <2>2. CASE at[Main] # c BY <1>3, <2>1, <2>2
  <2>3. CASE at[Main] = c
    <3>1. MainOwes(c) /\ ~MainAtConn(c, {"lower"}) /\ ~MainAtConn(c, {"lower"})'
      BY <2>1, <2>3 DEF Places, MainOwes, MainAtConn, MainPlaces
    <3>2. QED BY <1>2, <2>1, <2>3, <3>1 DEF Turn
  <2>4. QED BY <2>2, <2>3
<1>9. CASE WriteFree
  <2>1. /\ UNCHANGED <<throw, psend, armed, at, revents>> /\ pc[Main] = "free"
        /\ pc'[Main] = "clear"
    BY <1>9 DEF WriteFree, MainAt, sendVars, sockVars, Goto, ThreadTypes
  <2>2. QED BY <1>2, <2>1, QuietTurn DEF Quiet, MainOwes, MainAtConn, MainPlaces
<1>10. CASE WriteClear
  <2>1. /\ UNCHANGED <<throw, armed, at, revents>> /\ pc[Main] = "clear"
        /\ pc'[Main] = "lower" /\ psend' = [psend EXCEPT ![at[Main]] = Nobody]
    BY <1>10 DEF WriteClear, Clear, MainAt, sockVars, Goto, ThreadTypes
  <2>2. CASE at[Main] # c BY <1>3, <2>1, <2>2 DEF ConnTypes
  <2>3. CASE at[Main] = c
    <3>1. MainOwes(c) /\ MainAtConn(c, {"free", "clear", "lower"})
          /\ MainAtConn(c, {"lower"})'
      BY <2>1, <2>3 DEF Places, MainOwes, MainAtConn, MainPlaces
    <3>2. psend'[c] = Nobody BY <2>1, <2>3 DEF ConnTypes
    <3>3. QED BY <1>2, <2>1, <3>1, <3>2 DEF Turn
  <2>4. QED BY <2>2, <2>3
<1>11. CASE Lower
  <2>1. /\ UNCHANGED <<psend, armed, at, revents>> /\ pc[Main] = "lower"
        /\ pc'[Main] = "post" /\ throw' = [throw EXCEPT ![at[Main]] = @ - 1]
    BY <1>11 DEF Lower, MainAt, sockVars, Goto, ThreadTypes
  <2>2. CASE at[Main] # c BY <1>3, <2>1, <2>2 DEF ConnTypes
  <2>3. CASE at[Main] = c
    <3>1. /\ MainOwes(c) /\ MainAtConn(c, {"free", "clear", "lower"})
          /\ MainAtConn(c, {"lower"}) /\ ~MainAtConn(c, {"lower"})'
          /\ ~MainOwes(c)' /\ ~MainAtConn(c, {"free", "clear", "lower"})'
      BY <2>1, <2>3 DEF Places, MainOwes, MainAtConn, MainPlaces
    <3>2. throw'[c] = throw[c] - 1 BY <2>1, <2>3 DEF ConnTypes
    <3>3. /\ throw[c] = 1 /\ ~SenderHas(c) /\ ~SenderAtConn(c, {"arm"})
          /\ ~SenderAtConn(c, {"send", "release", "clear", "raise"})
          /\ psend[c] = Nobody /\ c \notin armed
      BY <3>1 DEF Turn, SenderHas, SenderAtConn
    <3>4. QED BY <1>2, <2>1, <3>1, <3>2, <3>3 DEF Turn
  <2>4. QED BY <2>2, <2>3
<1>12. ASSUME NEW d \in Conns, EpollWait(d) PROVE Turn(c)'
  <2>1. /\ UNCHANGED <<throw, psend, armed>> /\ d \in open /\ pc[Main] = "idle"
        /\ at[Main] = Nobody /\ at'[Main] = d /\ pc'[Main] \in {"in", "out"}
        /\ "out" \in revents' => d \in armed
    BY <1>12
    DEF EpollWait, Reported, MainAt, sendVars, sockVars, Goto, ThreadTypes, Places
  <2>2. CASE c # d BY <1>3, <2>1, <2>2, NamesAssumption DEF NamesAssumption
  <2>3. CASE c = d
    <3>1. MainOwes(c)' => c \in armed BY <2>1, <2>3 DEF MainOwes
    <3>2. /\ ~MainAtConn(c, {"lower"}) /\ ~MainAtConn(c, {"lower"})'
          /\ ~MainAtConn(c, {"free", "clear", "lower"})'
      BY <2>1 DEF MainAtConn
    <3>3. QED BY <1>2, <2>1, <3>1, <3>2 DEF Turn
  <2>4. QED BY <2>2, <2>3
<1>13. QED
  BY <1>4, <1>5, <1>6, <1>7, <1>8, <1>9, <1>10, <1>11, <1>12 DEF MainStep

(* Closing a connection spares the turns on the others; one whose count is *)
(* lowered, or need not be, is from then on abandoned.                     *)
LEMMA CloserTurn ==
  ASSUME Types, Places, NEW t \in Closers, CloseStep(t),
         NEW c \in Conns, Turn(c), ~Abandoned(c)'
  PROVE  Turn(c)'
<1> USE Kinds DEF Types
<1>1. SenderStays /\ psend' = psend /\ revents' = revents
      /\ pc[t] \in ClosePCs /\ at[t] \in Conns
      /\ \A u \in Closers \ {t} : pc'[u] = pc[u] /\ at'[u] = at[u]
  BY CloserAlone, AtConn
  DEF OthersStay, SenderStays, CloseStep, CloseSocket, Drop, Retire, ClosePCs
<1>2. /\ UNCHANGED <<SenderHas(c), SenderAtConn(c, {"arm"})>>
      /\ UNCHANGED SenderAtConn(c, {"send", "release", "clear", "raise"})
  BY <1>1 DEF SenderStays, SenderHas, SenderAtConn
<1>3. /\ MainOwes(c)' => MainOwes(c)
      /\ MainAtConn(c, {"lower"})' <=> MainAtConn(c, {"lower"})
      /\ MainAtConn(c, {"free", "clear", "lower"})' =>
           MainAtConn(c, {"free", "clear", "lower"})
  <2>1. CASE t # Main BY <1>1, <2>1 DEF MainOwes, MainAtConn
  <2>2. CASE t = Main
    <3>1. pc'[Main] \in ClosePCs \cup {"out"} /\ at' = at
      BY <2>2 DEF CloseStep, CloseSocket, Drop, Retire, ClosePCs, Goto, ThreadTypes
    <3>2. QED BY <1>1, <2>2, <3>1 DEF MainOwes, MainAtConn, MainPlaces, ClosePCs
  <2>3. QED BY <2>1, <2>2
<1>4. throw'[c] = throw[c] /\ (c \in armed' => c \in armed)
  <2>1. CASE CloseSocket(t) BY <2>1 DEF CloseSocket, sendVars
  <2>2. CASE Drop(t)
    <3>1. /\ pc'[t] = "retire" /\ at'[t] = at[t] /\ UNCHANGED armed
          /\ throw' = [throw EXCEPT ![at[t]] = @ - 1]
      BY <2>2 DEF Drop, sockVars, Goto, ThreadTypes
    <3>2. at[t] # c BY <3>1 DEF Abandoned
    <3>3. QED BY <3>1, <3>2 DEF ConnTypes
  <2>3. CASE Retire(t) BY <2>3 DEF Retire, sendVars, sockVars
  <2>4. QED BY <2>1, <2>2, <2>3 DEF CloseStep
<1>5. QED BY <1>1, <1>2, <1>3, <1>4, QuietTurn DEF Quiet

(* A step keeps the turns.                                                 *)
LEMMA StepTurns ==
  ASSUME Types, Places, Sockets, Found, Turns, Lefts, Next
  PROVE  Turns'
<1> USE Kinds DEF Types
<1>1. SUFFICES ASSUME NEW c \in Conns, ~Abandoned(c)' PROVE Turn(c)' BY DEF Turns
<1>2. ASSUME UNCHANGED <<throw, psend, armed>>, ~Abandoned(c), SenderStays, MainStays
      PROVE  Turn(c)'
  BY <1>2, QuietTurn
  DEF Turns, Quiet, SenderStays, MainStays, SenderHas, SenderAtConn, MainOwes, MainAtConn
<1>3. ASSUME NEW d \in Conns, MsgSend(d) \/ Kick(d) \/ ClientStep(d) PROVE Turn(c)'
  <2>1. UNCHANGED <<throw, psend, armed>> /\ SenderStays /\ MainStays
    BY <1>3, NamesAssumption
    DEF MsgSend, Kick, ClientStep, ClientSends, ClientReads, ClientEnds, ClientResets,
        SenderStays, MainStays, sendVars, sockVars, Goto, thrVars, ThreadTypes,
        NamesAssumption
  <2>2. QED BY <1>1, <1>2, <1>3, <2>1, AbandonedStays
<1>4. ASSUME NEW d \in Conns, Reuse(d) PROVE Turn(c)'
  <2>1. /\ UNCHANGED <<armed, pc, at, revents>> /\ retired' = retired \ {d} /\ d \in retired
        /\ throw' = [throw EXCEPT ![d] = 0] /\ psend' = [psend EXCEPT ![d] = Nobody]
        /\ \A t \in Threads : at[t] # d
    BY <1>4 DEF Reuse, Clear, Working, thrVars
  <2>2. CASE c # d
    <3>1. UNCHANGED <<throw[c], psend[c], c \in armed>> BY <2>1, <2>2 DEF ConnTypes
    <3>2. ~Abandoned(c) BY <1>1, <2>1, <2>2 DEF Abandoned
    <3>3. QED
      BY <2>1, <3>1, <3>2, QuietTurn
      DEF Turns, Quiet, SenderHas, SenderAtConn, MainOwes, MainAtConn
  <2>3. CASE c = d
    <3>1. throw'[c] = 0 /\ psend'[c] = Nobody BY <2>1, <2>3 DEF ConnTypes
    <3>2. c \notin armed' BY <2>1, <2>3 DEF Sockets, SocketTypes
    <3>3. at'[Sender] # c /\ at'[Main] # c BY <2>1, <2>3
    <3>4. QED
      BY <3>1, <3>2, <3>3 DEF Turn, SenderHas, SenderAtConn, MainOwes, MainAtConn
  <2>4. QED BY <2>2, <2>3
<1>5. CASE \E t \in {Main, Sender} : SendPipe(t)
  <2>1. UNCHANGED <<throw, psend, armed, retired, pc, at, revents>>
    BY <1>5 DEF SendPipe, sendVars, sockVars, lifeVars, thrVars
  <2>2. QED BY <1>1, <1>2, <2>1 DEF Abandoned, SenderStays, MainStays
<1>6. CASE SenderStep BY <1>1, <1>6, SenderTurn, AbandonedStays DEF Turns
<1>7. CASE MainStep BY <1>1, <1>7, MainTurn, AbandonedStays DEF Turns
<1>8. ASSUME NEW t \in Closers, CloseStep(t) PROVE Turn(c)'
  BY <1>1, <1>8, CloserTurn, AbandonedKept DEF Turns
<1>9. QED BY <1>3, <1>4, <1>5, <1>6, <1>7, <1>8 DEF Next

(* A step keeps Aparts: the send thread comes to a connection at count 0,  *)
(* or what it puts there has gone astray.                                  *)
LEMMA StepAparts ==
  ASSUME Types, Places, Sockets', Found, Turns, Turns', Aparts, Next
  PROVE  Aparts'
<1> USE Kinds DEF Types
<1>1. SUFFICES ASSUME NEW c \in Conns PROVE Apart(c)' BY DEF Aparts
<1>2. ASSUME psend'[c] \in {psend[c], Nobody}, stray' = stray,
             SenderHas(c)' => SenderHas(c), MainOwes(c)' => MainOwes(c)
      PROVE  Apart(c)'
  BY <1>2 DEF Aparts, Apart
<1>3. CASE SenderStep
  <2>1. MainOwes(c)' <=> MainOwes(c)
    BY <1>3, SenderAlone DEF OthersStay, MainOwes, MainAtConn
  <2>2. CASE TakeOut
    <3>1. /\ pc[Sender] = "current" /\ at' = at /\ throw[at[Sender]] <= 0
          /\ psend' = [psend EXCEPT ![at[Sender]] = queue[pos]]
          /\ stray' = stray \cup Strayed(at[Sender])
      BY <2>2 DEF TakeOut, SenderAt
    <3>2. CASE at[Sender] # c
      BY <2>1, <3>1, <3>2 DEF SenderHas, SenderAtConn, Aparts, Apart, ConnTypes
    <3>3. CASE at[Sender] = c /\ Abandoned(c)
      BY <3>1, <3>3 DEF Strayed, Apart, ConnTypes
    <3>4. CASE at[Sender] = c /\ ~Abandoned(c)
      BY <2>1, <3>1, <3>4 DEF Turns, Turn, Apart
    <3>5. QED BY <3>2, <3>3, <3>4
  <2>3. CASE ~TakeOut
    <3>1. stray' = stray /\ psend'[c] \in {psend[c], Nobody}
      BY <1>3, <2>3
      DEF SenderStep, Wake, StartPass, EndPass, DropStale, FindCurrent, Skip, SendDone,
          SendPart, Release, ClearSent, Clear, Raise, ArmOut, sendVars, histVars,
          ConnTypes
    <3>2. SenderHas(c)' => SenderHas(c)
      BY <1>3, <2>3
      DEF SenderStep, Wake, StartPass, EndPass, DropStale, FindCurrent, Skip, SendDone,
          SendPart, Release, ClearSent, Raise, ArmOut, SenderAt, Goto, thrVars,
          SenderHas, SenderAtConn, ThreadTypes
    <3>3. QED BY <1>2, <2>1, <3>1, <3>2
  <2>4. QED BY <2>2, <2>3
<1>4. CASE MainStep
  <2>1. (SenderHas(c)' <=> SenderHas(c)) /\ stray' = stray
    BY <1>4, MainAlone, NamesAssumption
    DEF OthersStay, SenderHas, SenderAtConn, NamesAssumption
  <2>2. ASSUME NEW d \in Conns, EpollWait(d) PROVE Apart(c)'
    <3>1. /\ psend' = psend /\ at'[Main] = d /\ d \in open' /\ pc'[Main] \in {"in", "out"}
          /\ UNCHANGED retired
      BY <2>2 DEF EpollWait, Goto, sendVars, sockVars, lifeVars, ThreadTypes
    <3>2. CASE c # d BY <3>1, <3>2 DEF Apart, MainOwes, MainAtConn
    <3>3. CASE c = d
      <4>1. ~Abandoned(c)' BY <3>1, <3>3 DEF Abandoned, Sockets
      <4>2. QED BY <4>1 DEF Turns, Turn, Apart
    <3>4. QED BY <3>2, <3>3
  <2>3. ASSUME \A d \in Conns : ~EpollWait(d) PROVE Apart(c)'
    <3>1. psend'[c] \in {psend[c], Nobody}
      BY <1>4, <2>3
      DEF MainStep, ReadSome, ReadEnd, Write, NotWritable, HangUp, WritePart, WriteDone,
          DisarmOut, WriteFree, WriteClear, Clear, Lower, Post, sendVars, ConnTypes
    <3>2. MainOwes(c)' => MainOwes(c)
      <4>1. CASE NotWritable \/ HangUp \/ WritePart \/ Post
        BY <4>1 DEF NotWritable, HangUp, WritePart, Post, EndEvent, MainOwes
      <4>2. CASE ~(NotWritable \/ HangUp \/ WritePart \/ Post)
        BY <1>4, <2>3, <4>2
        DEF MainStep, ReadSome, ReadEnd, Write, WriteDone, DisarmOut, WriteFree,
            WriteClear, Lower, MainAt, MainOwes, MainAtConn, MainPlaces
      <4>3. QED BY <4>1, <4>2
    <3>3. QED BY <1>2, <2>1, <3>1, <3>2
  <2>4. QED BY <2>2, <2>3
<1>5. ASSUME NEW t \in Closers, CloseStep(t) PROVE Apart(c)'
  <2>1. UNCHANGED <<psend, stray, revents>> /\ (SenderHas(c)' <=> SenderHas(c))
        /\ \A u \in Closers \ {t} : pc'[u] = pc[u] /\ at'[u] = at[u]
    BY <1>5, CloserAlone DEF OthersStay, SenderHas, SenderAtConn
  <2>2. at'[t] \in {at[t], Nobody} /\ pc[t] \in ClosePCs
    BY <1>5
    DEF CloseStep, CloseSocket, Drop, Retire, ClosePCs, ThreadTypes
  <2>3. MainOwes(c)' => MainOwes(c)
    BY <2>1, <2>2, NamesAssumption
    DEF MainOwes, MainAtConn, MainPlaces, ClosePCs, NamesAssumption
  <2>4. QED BY <1>2, <2>1, <2>3
<1>6. ASSUME NEW d \in Conns, MsgSend(d) \/ Kick(d) \/ Reuse(d) PROVE Apart(c)'
  <2>1. /\ SenderStays /\ MainStays /\ stray' = stray /\ psend'[c] \in {psend[c], Nobody}
    BY <1>6, NamesAssumption
    DEF MsgSend, Kick, Reuse, Clear, SenderStays, MainStays, Goto, thrVars, sendVars,
        histVars, ThreadTypes, ConnTypes, NamesAssumption
  <2>2. QED
    BY <1>2, <2>1
    DEF SenderStays, MainStays, SenderHas, SenderAtConn, MainOwes, MainAtConn
<1>7. CASE (\E d \in Conns : ClientStep(d)) \/ (\E t \in {Main, Sender} : SendPipe(t))
  <2>1. UNCHANGED <<psend, stray, pc, at, revents>>
    BY <1>7
    DEF ClientStep, ClientSends, ClientReads, ClientEnds, ClientResets, SendPipe,
        sendVars, histVars, thrVars
  <2>2. QED BY <1>2, <2>1 DEF SenderHas, SenderAtConn, MainOwes, MainAtConn
<1>8. QED BY <1>3, <1>4, <1>5, <1>6, <1>7 DEF Next

(* What the epoll thread still has to send of an answer is something.      *)
LEMMA StepLefts ==
  ASSUME ~UnreadAtEof, Types, Types', Places, Sockets, Turns, Lefts, Next
  PROVE  Lefts'
<1> DEFINE Past == {"disarm", "free", "clear", "lower"}
<1> USE Kinds DEF Types
<1>1. SUFFICES ASSUME NEW c \in open' PROVE LeftOK(c)' BY DEF Lefts
<1>2. c \in Conns /\ (c \in open => LeftOK(c)) BY DEF Lefts, SocketTypes
<1>3. c \in open => Turn(c) /\ (SenderHas(c) => ~MainOwes(c))
  <2>1. c \in open => ~Abandoned(c) BY DEF Sockets, Abandoned
  <2>2. QED BY <1>2, <2>1 DEF Turns, Turn
<1>4. ASSUME c \in open, throw'[c] = throw[c], left'[c] = left[c],
             MainAtConn(c, Past) => MainAtConn(c, Past)',
             SenderAtConn(c, {"raise"})' => SenderAtConn(c, {"raise"})
      PROVE  LeftOK(c)'
  BY <1>2, <1>4 DEF LeftOK
<1>5. CASE SenderStep
  <2>1. MainStays /\ c \in open /\ (MainAtConn(c, Past) => MainAtConn(c, Past)')
    BY <1>1, <1>5, SenderAlone DEF OthersStay, MainStays, MainAtConn
  <2>2. CASE \/ Wake \/ StartPass \/ EndPass \/ DropStale \/ FindCurrent \/ Skip
             \/ Release \/ ArmOut
    <3>1. UNCHANGED <<throw, left>> /\ pc'[Sender] # "raise"
      BY <2>2
      DEF Wake, StartPass, EndPass, DropStale, FindCurrent, Skip, Release, ArmOut,
          sendVars, SenderAt, Goto, ThreadTypes, thrVars
    <3>2. QED BY <1>4, <2>1, <3>1 DEF SenderAtConn
  <2>3. CASE TakeOut
    <3>1. /\ UNCHANGED throw /\ throw[at[Sender]] <= 0 /\ pc'[Sender] = "send"
          /\ left' = [left EXCEPT ![at[Sender]] = PkgLen]
      BY <2>3 DEF TakeOut, Goto, ThreadTypes
    <3>2. CASE c # at[Sender] BY <1>2, <1>4, <2>1, <3>1, <3>2 DEF SenderAtConn, ConnTypes
    <3>3. CASE c = at[Sender] BY <3>1, <3>3 DEF SenderAtConn, LeftOK
    <3>4. QED BY <3>2, <3>3
  <2>4. CASE SendDone \/ SendPart
    <3>1. /\ UNCHANGED <<throw, at>> /\ pc[Sender] = "send" /\ at[Sender] \in Conns
          /\ pc'[Sender] \in {"release", "raise"}
          /\ pc'[Sender] = "raise" => SendPart
          /\ IF at[Sender] \in open THEN Transmit(at[Sender]) ELSE UNCHANGED left
      BY <2>4, AtConn
      DEF SendDone, SendPart, SenderAt, SenderPlaces, Goto, ThreadTypes, CanSend
    <3>2. CASE c # at[Sender]
      BY <1>2, <1>4, <2>1, <3>1, <3>2, Sent DEF SenderAtConn
    <3>3. CASE c = at[Sender]
      <4>1. throw'[c] = 0 BY <1>3, <2>1, <3>1, <3>3 DEF Turn, SenderAtConn
      <4>2. left'[c] = left[c] - Fits(c) BY <1>2, <2>1, <3>1, <3>3, Sent
      <4>3. left[c] \in Nat /\ Fits(c) \in Nat
        BY <1>2, <2>1, <3>1, <3>3, Sent, SizesAssumption DEF ConnTypes, SizesAssumption
      <4>4. SendPart => Fits(c) < left[c] BY <3>3 DEF SendPart
      <4>5. pc'[Sender] = "raise" => left'[c] > 0 BY <3>1, <4>2, <4>3, <4>4
      <4>6. QED BY <4>1, <4>5 DEF LeftOK, SenderAtConn
    <3>4. QED BY <3>2, <3>3
  <2>5. CASE ClearSent
    <3>1. /\ UNCHANGED left /\ throw' = [throw EXCEPT ![at[Sender]] = 0]
          /\ pc'[Sender] = "look"
      BY <2>5 DEF ClearSent, Goto, ThreadTypes
    <3>2. CASE c # at[Sender] BY <1>2, <1>4, <2>1, <3>1, <3>2 DEF SenderAtConn, ConnTypes
    <3>3. CASE c = at[Sender]
      BY <1>2, <3>1, <3>3 DEF SenderAtConn, LeftOK, ConnTypes
    <3>4. QED BY <3>2, <3>3
  <2>6. CASE Raise
    <3>1. /\ UNCHANGED <<left, at>> /\ throw' = [throw EXCEPT ![at[Sender]] = @ + 1]
          /\ pc[Sender] = "raise" /\ pc'[Sender] = "arm"
      BY <2>6 DEF Raise, SenderAt, Goto, ThreadTypes
    <3>2. CASE c # at[Sender] BY <1>2, <1>4, <2>1, <3>1, <3>2 DEF SenderAtConn, ConnTypes
    <3>3. CASE c = at[Sender]
      BY <1>2, <2>1, <3>1, <3>3 DEF SenderAtConn, LeftOK
    <3>4. QED BY <3>2, <3>3
  <2>7. QED BY <1>5, <2>2, <2>3, <2>4, <2>5, <2>6 DEF SenderStep
<1>6. CASE MainStep
  <2>1. SenderStays /\ c \in open
        /\ (SenderAtConn(c, {"raise"})' <=> SenderAtConn(c, {"raise"}))
    BY <1>1, <1>6, MainAlone, NamesAssumption
    DEF OthersStay, SenderStays, SenderAtConn, NamesAssumption
  <2>2. CASE \/ ReadSome \/ ReadEnd \/ Write \/ NotWritable \/ Post
             \/ \E d \in Conns : EpollWait(d)
    <3>1. UNCHANGED <<throw, left>> /\ pc[Main] \notin Past
      BY <2>2
      DEF ReadSome, ReadEnd, Write, NotWritable, Post, EpollWait, sendVars, MainAt
    <3>2. QED BY <1>4, <2>1, <3>1 DEF MainAtConn
  <2>3. CASE HangUp
    <3>1. /\ UNCHANGED left /\ pc[Main] = "out" /\ at[Main] \in retired
          /\ throw' = [throw EXCEPT ![at[Main]] = @ - 1]
      BY <2>3 DEF HangUp, MainAt, Sockets
    <3>2. c # at[Main] BY <2>1, <3>1 DEF Sockets
    <3>3. QED BY <1>2, <1>4, <2>1, <3>1, <3>2 DEF MainAtConn, ConnTypes
  <2>4. CASE WritePart
    <3>1. /\ UNCHANGED throw /\ pc[Main] = "send" /\ at[Main] \in Conns
          /\ Transmit(at[Main]) /\ Fits(at[Main]) < left[at[Main]]
      BY <2>4, AtConn DEF WritePart, MainAt, MainPlaces
    <3>2. CASE c # at[Main] BY <1>2, <1>4, <2>1, <3>1, <3>2, Sent DEF MainAtConn
    <3>3. CASE c = at[Main]
      <4>1. left[c] \in Nat /\ Fits(c) \in Nat /\ left'[c] = left[c] - Fits(c)
        BY <1>2, <3>1, <3>3, Sent, SizesAssumption DEF ConnTypes, SizesAssumption
      <4>2. left'[c] > 0 BY <3>1, <3>3, <4>1
      <4>3. QED BY <4>2 DEF LeftOK
    <3>4. QED BY <3>2, <3>3
  <2>5. CASE WriteDone
    <3>1. /\ UNCHANGED <<throw, at>> /\ pc[Main] = "send" /\ at[Main] \in Conns
          /\ pc'[Main] \in Past
          /\ IF at[Main] \in open THEN Transmit(at[Main]) ELSE UNCHANGED left
      BY <2>5, AtConn DEF WriteDone, MainAt, MainPlaces, Goto, ThreadTypes
    <3>2. CASE c # at[Main] BY <1>2, <1>4, <2>1, <3>1, <3>2, Sent DEF MainAtConn
    <3>3. CASE c = at[Main]
      <4>1. MainAtConn(c, Past)' BY <3>1, <3>3 DEF MainAtConn
      <4>2. MainOwes(c) BY <3>1, <3>3 DEF MainOwes, MainAtConn, MainPlaces, Places
      <4>3. ~SenderAtConn(c, {"raise"})'
        BY <1>3, <2>1, <4>2 DEF SenderHas, SenderAtConn
      <4>4. QED BY <4>1, <4>3 DEF LeftOK
    <3>4. QED BY <3>2, <3>3
  <2>6. CASE DisarmOut \/ WriteFree \/ WriteClear
    <3>1. UNCHANGED <<throw, left, at>> /\ pc'[Main] \in Past
      BY <2>6 DEF DisarmOut, WriteFree, WriteClear, sendVars, Goto, ThreadTypes
    <3>2. QED BY <1>4, <2>1, <3>1 DEF MainAtConn
  <2>7. CASE Lower
    <3>1. /\ UNCHANGED left /\ throw' = [throw EXCEPT ![at[Main]] = @ - 1]
      BY <2>7 DEF Lower
    <3>2. CASE c # at[Main] BY <1>2, <1>4, <2>1, <3>1, <3>2 DEF MainAtConn, ConnTypes
    <3>3. CASE c = at[Main]
      <4>1. throw'[c] = throw[c] - 1 /\ throw[c] \in {0, 1}
        BY <1>2, <1>3, <2>1, <3>1, <3>3 DEF Turn, ConnTypes
      <4>2. throw'[c] # 1 BY <4>1
      <4>3. QED BY <1>2, <2>1, <3>1, <4>2 DEF LeftOK
    <3>4. QED BY <3>2, <3>3
  <2>8. QED
    BY <1>6, <2>2, <2>3, <2>4, <2>5, <2>6, <2>7 DEF MainStep
<1>7. ASSUME NEW t \in Closers, CloseStep(t) PROVE LeftOK(c)'
  <2>1. SenderStays /\ UNCHANGED left
        /\ (SenderAtConn(c, {"raise"})' <=> SenderAtConn(c, {"raise"}))
    BY <1>7, CloserAlone DEF OthersStay, SenderStays, SenderAtConn
  <2>2. MainAtConn(c, Past) => MainAtConn(c, Past)'
    <3>1. CASE t = Main
      BY <1>7, <3>1 DEF CloseStep, CloseSocket, Drop, Retire, MainAtConn
    <3>2. CASE t # Main BY <1>7, <3>2, CloserAlone DEF OthersStay, MainAtConn
    <3>3. QED BY <3>1, <3>2
  <2>3. open' \subseteq open
    BY <1>7 DEF CloseStep, CloseSocket, Drop, Retire, sockVars
  <2>4. throw'[c] = throw[c]
    <3>1. CASE Drop(t)
      <4>1. c # at[t] BY <1>1, <2>3, <3>1 DEF Drop, Sockets
      <4>2. QED BY <1>2, <3>1, <4>1 DEF Drop, ConnTypes
    <3>2. CASE ~Drop(t)
      BY <1>7, <3>2 DEF CloseStep, CloseSocket, Retire, sendVars
    <3>3. QED BY <3>1, <3>2
  <2>5. QED BY <1>1, <1>4, <2>1, <2>2, <2>3, <2>4
<1>8. ASSUME NEW d \in Conns, MsgSend(d) \/ Kick(d) PROVE LeftOK(c)'
  <2>1. UNCHANGED <<throw, left, open>> /\ SenderStays /\ MainStays
    BY <1>8, NamesAssumption
    DEF MsgSend, Kick, SenderStays, MainStays, sendVars, sockVars, Goto, thrVars,
        ThreadTypes, NamesAssumption
  <2>2. QED BY <1>1, <1>4, <2>1 DEF SenderStays, MainStays, SenderAtConn, MainAtConn
<1>9. ASSUME NEW d \in Conns, Reuse(d) PROVE LeftOK(c)'
  <2>1. /\ UNCHANGED <<pc, at>> /\ open' = open \cup {d} /\ at[Sender] # d
        /\ throw' = [throw EXCEPT ![d] = 0] /\ left' = [left EXCEPT ![d] = 0]
    BY <1>9 DEF Reuse, Working, thrVars
  <2>2. CASE c # d
    BY <1>1, <1>2, <1>4, <2>1, <2>2 DEF SenderAtConn, MainAtConn, ConnTypes
  <2>3. CASE c = d
    BY <1>2, <2>1, <2>3 DEF SenderAtConn, LeftOK, ConnTypes
  <2>4. QED BY <2>2, <2>3
<1>10. CASE (\E d \in Conns : ClientStep(d)) \/ (\E t \in {Main, Sender} : SendPipe(t))
  <2>1. UNCHANGED <<throw, left, open, pc, at>>
    BY <1>10
    DEF ClientStep, ClientSends, ClientReads, ClientEnds, ClientResets, SendPipe,
        sendVars, sockVars, thrVars
  <2>2. QED BY <1>1, <1>4, <2>1 DEF SenderAtConn, MainAtConn
<1>11. QED BY <1>5, <1>6, <1>7, <1>8, <1>9, <1>10 DEF Next

-----------------------------------------------------------------------------
(* Where the buffers are.                                                  *)

(* The fields of a message.                                                *)
LEMMA MsgFields ==
  /\ Ids \subseteq Int
  /\ \A m \in Msgs : m.id \in Ids /\ m.id \in Int /\ m.conn \in Conns /\ m.seq \in Nat
<1>1. Ids \subseteq Int BY SizesAssumption DEF Ids, SizesAssumption
<1>2. \A m \in Msgs : m.id \in Ids /\ m.conn \in Conns /\ m.seq \in Nat BY DEF Msgs
<1>3. QED BY <1>1, <1>2

(* What is left of the queue when a message is taken out.                  *)
LEMMA Taken ==
  ASSUME QueueTypes, InOrder, NEW i \in 1..Len(queue), queue' = RemoveAt(queue, i)
  PROVE  /\ InOrder' /\ Len(queue') = Len(queue) - 1
         /\ \A j \in 1..Len(queue') : queue'[j] = IF j < i THEN queue[j] ELSE queue[j + 1]
         /\ \A m \in Ids : InQueue(m)' <=> InQueue(m) /\ m # queue[i].id
         /\ \A m : m \in ToSet(queue') <=> m \in ToSet(queue) /\ m # queue[i]
<1>1. /\ queue' \in Seq(Msgs) /\ Len(queue') = Len(queue) - 1 /\ Len(queue) \in Nat
      /\ \A j \in 1..Len(queue') : queue'[j] = IF j < i THEN queue[j] ELSE queue[j + 1]
  <2>1. queue \in Seq(Msgs) BY DEF QueueTypes
  <2>2. Len(queue) \in Nat BY <2>1
  <2>3. QED BY <2>1, <2>2, Removed
<1>2. \A j \in 1..Len(queue) : queue[j] \in Msgs /\ queue[j].id \in Int
  <2>1. \A j \in 1..Len(queue) : queue[j] \in Msgs BY DEF QueueTypes
  <2>2. QED BY <2>1, MsgFields
<1>3. InOrder'
  <2>1. SUFFICES ASSUME NEW j \in 1..Len(queue'), NEW k \in 1..Len(queue'), j < k
                 PROVE  queue'[j].id < queue'[k].id
    BY DEF InOrder
  <2> DEFINE from(n) == IF n < i THEN n ELSE n + 1
  <2>2. from(j) \in 1..Len(queue) /\ from(k) \in 1..Len(queue) /\ from(j) < from(k)
    BY <1>1, <2>1
  <2>3. queue'[j] = queue[from(j)] /\ queue'[k] = queue[from(k)] BY <1>1
  <2> HIDE DEF from
  <2>4. QED BY <2>2, <2>3 DEF InOrder
<1>4. \A j \in 1..Len(queue) : j # i =>
        \E k \in 1..Len(queue') : queue'[k] = queue[j]
  <2>1. TAKE j \in 1..Len(queue)
  <2>2. CASE j < i BY <1>1, <2>2
  <2>3. CASE j > i
    <3>1. j - 1 \in 1..Len(queue') /\ queue'[j - 1] = queue[j] BY <1>1, <2>3
    <3>2. QED BY <3>1
  <2>4. QED BY <2>2, <2>3
<1>5. \A k \in 1..Len(queue') : \E j \in 1..Len(queue) \ {i} : queue'[k] = queue[j]
  BY <1>1
<1>6. \A j \in 1..Len(queue) \ {i} : queue[j].id # queue[i].id
  BY <1>2 DEF InOrder
<1>7. ASSUME NEW m \in Ids PROVE InQueue(m)' <=> InQueue(m) /\ m # queue[i].id
  <2>1. InQueue(m)' <=> \E k \in 1..Len(queue') : queue'[k].id = m BY DEF InQueue
  <2>2. InQueue(m) <=> \E k \in 1..Len(queue) : queue[k].id = m BY DEF InQueue
  <2>3. ASSUME InQueue(m)' PROVE InQueue(m) /\ m # queue[i].id
    BY <1>5, <1>6, <2>1, <2>2, <2>3
  <2>4. ASSUME InQueue(m), m # queue[i].id PROVE InQueue(m)'
    <3>1. PICK k \in 1..Len(queue) : queue[k].id = m BY <2>2, <2>4
    <3>2. QED BY <1>4, <2>1, <2>4, <3>1
  <2>5. QED BY <2>3, <2>4
<1>8. \A m : m \in ToSet(queue') <=> m \in ToSet(queue) /\ m # queue[i]
  <2>1. \A m : m \in ToSet(queue') <=> \E k \in 1..Len(queue') : m = queue'[k]
    BY <1>1 DEF ToSet
  <2>2. \A m : m \in ToSet(queue) <=> \E k \in 1..Len(queue) : m = queue[k] BY Elements
  <2>3. ASSUME NEW m \in ToSet(queue') PROVE m \in ToSet(queue) /\ m # queue[i]
    BY <1>5, <1>6, <2>1, <2>2, <2>3
  <2>4. ASSUME NEW m \in ToSet(queue), m # queue[i] PROVE m \in ToSet(queue')
    <3>1. PICK k \in 1..Len(queue) : queue[k] = m BY <2>2, <2>4
    <3>2. QED BY <1>4, <2>1, <2>4, <3>1
  <2>5. QED BY <2>3, <2>4
<1>9. QED BY <1>1, <1>3, <1>7, <1>8

(* What the queue is when a message is added.                              *)
LEMMA Added ==
  ASSUME QueueTypes, InOrder, NEW e \in Msgs, queue' = Append(queue, e),
         \A i \in 1..Len(queue) : queue[i].id < e.id
  PROVE  /\ InOrder' /\ Len(queue') = Len(queue) + 1
         /\ \A j \in 1..Len(queue') : queue'[j] = IF j <= Len(queue) THEN queue[j] ELSE e
         /\ \A m \in Ids : InQueue(m)' <=> InQueue(m) \/ m = e.id
         /\ \A m : m \in ToSet(queue') <=> m \in ToSet(queue) \/ m = e
<1>1. /\ queue' \in Seq(Msgs) /\ Len(queue') = Len(queue) + 1 /\ Len(queue) \in Nat
      /\ \A j \in 1..Len(queue') : queue'[j] = IF j <= Len(queue) THEN queue[j] ELSE e
  BY DEF QueueTypes
<1>2. InOrder'
  <2>1. SUFFICES ASSUME NEW i \in 1..Len(queue'), NEW j \in 1..Len(queue'), i < j
                 PROVE  queue'[i].id < queue'[j].id
    BY DEF InOrder
  <2>2. i \in 1..Len(queue) BY <1>1, <2>1
  <2>3. QED BY <1>1, <2>1, <2>2 DEF InOrder
<1>3. Len(queue) + 1 \in 1..Len(queue') /\ queue'[Len(queue) + 1] = e BY <1>1
<1>4. \A m \in Ids : InQueue(m)' <=> InQueue(m) \/ m = e.id BY <1>1, <1>3 DEF InQueue
<1>5. \A m : m \in ToSet(queue') <=> m \in ToSet(queue) \/ m = e
  <2>1. \A m : m \in ToSet(queue') <=> \E k \in 1..Len(queue') : m = queue'[k]
    BY SMTT(30), <1>1 DEF ToSet
  <2>2. \A m : m \in ToSet(queue) <=> \E k \in 1..Len(queue) : m = queue[k] BY Elements
  <2>3. QED BY <1>1, <1>3, <2>1, <2>2
<1>6. QED BY <1>1, <1>2, <1>4, <1>5

(* Where a step takes a message out of the queue, and where it adds one.   *)
LEMMA QueueSteps ==
  ASSUME Types, Found, Next
  PROVE  \/ queue' = queue
         \/ /\ DropStale \/ TakeOut
            /\ pos \in 1..Len(queue) /\ queue' = RemoveAt(queue, pos)
         \/ \E c \in Conns : MsgSend(c) /\ queue' = Append(queue, AnswerFor(c))
<1> USE DEF Types
<1>1. CASE DropStale BY <1>1, Looking DEF DropStale
<1>2. CASE TakeOut BY <1>2, Looking DEF TakeOut, SenderAt, Found
<1>3. ASSUME NEW c \in Conns, MsgSend(c), queue' # queue
      PROVE  queue' = Append(queue, AnswerFor(c))
  BY <1>3 DEF MsgSend, queueVars
<1>4. QED
  BY <1>1, <1>2, <1>3
  DEF Next, SenderStep, MainStep, CloseStep, ClientStep, queueVars,
      Wake, StartPass, EndPass, FindCurrent, Skip, SendDone, SendPart, Release, ClearSent,
      Raise, ArmOut, ReadSome, ReadEnd, NotWritable, HangUp, Write, WritePart, WriteDone,
      DisarmOut, WriteFree, WriteClear, Lower, Post, EpollWait, Kick, Reuse, ClientSends,
      ClientReads, ClientEnds, ClientResets, CloseSocket, Drop, Retire, SendPipe

(* A thread is about to clear the pointer of a connection it has freed the *)
(* message of, and then at another place.                                  *)
LEMMA ClearersAre ==
  ASSUME NEW c \in Conns
  PROVE  /\ Clearers(c) \in {0, 1, 2}
         /\ Clearing(c) <=> SenderAtConn(c, {"clear"}) \/ MainAtConn(c, {"clear"})
         /\ SenderAtConn(c, {"clear"}) => SenderHas(c)
         /\ ~Clearing(c) => Clearers(c) = 0
         /\ ~SenderAtConn(c, {"clear"}) \/ ~MainAtConn(c, {"clear"}) => Clearers(c) <= 1
BY DEF Clearers, One, Clearing, SenderAtConn, MainAtConn, SenderHas

LEMMA ClearersStay ==
  ASSUME Types, Places, Next, ~Release, ~ClearSent, ~WriteFree, ~WriteClear,
         NEW c \in Conns
  PROVE  Clearers(c)' = Clearers(c) /\ (Clearing(c)' <=> Clearing(c))
<1> USE Kinds, NamesAssumption DEF Types, NamesAssumption
<1>1. /\ SenderAtConn(c, {"clear"})' <=> SenderAtConn(c, {"clear"})
      /\ MainAtConn(c, {"clear"})' <=> MainAtConn(c, {"clear"})
  <2>1. CASE SenderStep
    <3>1. at'[Main] = at[Main] /\ pc'[Main] = pc[Main] BY <2>1, SenderAlone DEF OthersStay
    <3>2. pc[Sender] # "clear" /\ pc'[Sender] # "clear"
      BY <2>1
      DEF SenderStep, Wake, StartPass, EndPass, DropStale, FindCurrent, Skip, TakeOut,
          SendDone, SendPart, Raise, ArmOut, SenderAt, Goto, thrVars, ThreadTypes
    <3>3. QED BY <3>1, <3>2 DEF SenderAtConn, MainAtConn
  <2>2. CASE MainStep
    <3>1. at'[Sender] = at[Sender] /\ pc'[Sender] = pc[Sender]
      BY <2>2, MainAlone DEF OthersStay
    <3>2. pc[Main] # "clear" /\ pc'[Main] # "clear"
      BY <2>2
      DEF MainStep, ReadSome, ReadEnd, NotWritable, HangUp, Write, WritePart, WriteDone,
          DisarmOut, Lower, Post, EpollWait, EndEvent, MainAt, Goto, ThreadTypes
    <3>3. QED BY <3>1, <3>2 DEF SenderAtConn, MainAtConn
  <2>3. ASSUME NEW t \in Closers, CloseStep(t)
        PROVE  /\ SenderAtConn(c, {"clear"})' <=> SenderAtConn(c, {"clear"})
               /\ MainAtConn(c, {"clear"})' <=> MainAtConn(c, {"clear"})
    <3>1. \A u \in Threads \ {t} : pc'[u] = pc[u] /\ at'[u] = at[u]
      BY <2>3, CloserAlone DEF OthersStay
    <3>2. pc[t] # "clear" /\ pc'[t] # "clear"
      BY <2>3 DEF CloseStep, CloseSocket, Drop, Retire, Goto, ThreadTypes
    <3>3. QED BY <3>1, <3>2 DEF SenderAtConn, MainAtConn
  <2>4. ASSUME NEW d \in Conns, MsgSend(d) \/ Kick(d)
        PROVE  /\ SenderAtConn(c, {"clear"})' <=> SenderAtConn(c, {"clear"})
               /\ MainAtConn(c, {"clear"})' <=> MainAtConn(c, {"clear"})
    BY <2>4 DEF MsgSend, Kick, Goto, thrVars, ThreadTypes, SenderAtConn, MainAtConn
  <2>5. CASE UNCHANGED <<pc, at>> BY <2>5 DEF SenderAtConn, MainAtConn
  <2>6. QED
    BY <2>1, <2>2, <2>3, <2>4, <2>5
    DEF Next, ClientStep, ClientSends, ClientReads, ClientEnds, ClientResets, Reuse,
        SendPipe, thrVars
<1>2. QED BY <1>1 DEF Clearers, Clearing, SenderAtConn, MainAtConn

(* A connection is given back until the next client gets it.               *)
LEMMA AbandonedOn ==
  ASSUME Types, Places, Next, NEW c \in Conns, Abandoned(c), ~Reuse(c)
  PROVE  Abandoned(c)'
<1>1. ASSUME NEW d \in Conns, Reuse(d) PROVE Abandoned(c)'
  BY <1>1 DEF Reuse, Abandoned, thrVars
<1>2. CASE \E t \in {Main, Sender} : SendPipe(t)
  BY <1>2 DEF SendPipe, Abandoned, thrVars, lifeVars
<1>3. QED BY <1>1, <1>2, AbandonedStays, AbandonedKept DEF Next

(* What a connection holds, and no step touches, it may go on holding.     *)
LEMMA StillFrom ==
  ASSUME NEW d \in Conns, SentFrom(d), psend'[d] \in {psend[d], Nobody},
         psend[d] # Nobody => psend[d].id \in Ids,
         psend'[d] # Nobody => /\ Clearers(d)' = Clearers(d)
                               /\ Abandoned(d) => Abandoned(d)',
         \A n \in Ids : psend'[d] # Nobody /\ n = psend[d].id =>
           /\ n <= made => n <= made'
           /\ InQueue(n)' => InQueue(n)
           /\ n \in stray' => n \in stray
           /\ freed'[n] = freed[n]
  PROVE  SentFrom(d)'
<1>1. CASE psend'[d] = Nobody BY <1>1 DEF SentFrom
<1>2. CASE psend'[d] # Nobody
  <2>1. PICK n \in Ids : n = psend[d].id BY <1>2
  <2>2. /\ psend[d].conn = d /\ n <= made /\ ~InQueue(n)
        /\ n \in stray => Abandoned(d)
        /\ freed[n] <= Clearers(d)
    BY <1>2, <2>1 DEF SentFrom
  <2>3. /\ psend'[d].conn = d /\ n <= made' /\ ~InQueue(n)'
        /\ n \in stray' => Abandoned(d)'
        /\ freed'[n] <= Clearers(d)'
    BY <1>2, <2>1, <2>2
  <2>4. psend'[d].id = n BY <1>2, <2>1
  <2>5. (InQueue(psend[d].id)' <=> InQueue(n)')
    BY <2>4 DEF InQueue
  <2>6. QED BY <2>3, <2>4, <2>5 DEF SentFrom
<1>3. QED BY <1>1, <1>2

(* A step keeps Owned: a buffer goes from owner to owner, or is freed, and *)
(* only on a connection that is given back does it go astray.              *)
LEMMA StepOwned ==
  ASSUME Types, Types', Places, Found, Turns, Aparts, Owned, Next
  PROVE  Owned'
<1> USE DEF Types
<1>1. /\ InOrder /\ AllMade /\ OneEach /\ made \in Int
      /\ \A c \in Conns : psend[c] # Nobody => psend[c] \in Msgs /\ psend[c].id \in Ids
      /\ \A i \in 1..Len(queue) : queue[i] \in Msgs /\ queue[i].id \in Ids
      /\ Ids \subseteq Int /\ \A m \in Ids : freed[m] \in Nat
  <2>1. /\ \A c \in Conns : psend[c] # Nobody => psend[c] \in Msgs
        /\ \A i \in 1..Len(queue) : queue[i] \in Msgs
        /\ made \in Int
    BY SMTT(30) DEF QueueTypes, ConnTypes
  <2>2. \A m \in Ids : freed[m] \in Nat BY DEF QueueTypes
  <2>3. QED BY <2>1, <2>2, MsgFields DEF Owned
<1>2. \A c \in Conns : Clearers(c) \in {0, 1, 2} /\ (~Clearing(c) => Clearers(c) = 0)
  BY ClearersAre
<1>3. CASE UNCHANGED <<queue, psend, freed, made, stray>> /\ ~Release /\ ~ClearSent
           /\ ~WriteFree /\ ~WriteClear /\ \A c \in Conns : ~Reuse(c)
  <2>1. \A c \in Conns : /\ Clearers(c)' = Clearers(c) /\ (Clearing(c)' <=> Clearing(c))
                         /\ Abandoned(c) => Abandoned(c)'
    BY <1>3, ClearersStay, AbandonedOn
  <2>2. \A m \in Ids : UNCHANGED <<InQueue(m), InSending(m)>>
    BY <1>3, <2>1 DEF InQueue, InSending, HeldBy
  <2>3. \A m \in Ids : FreedOnce(m)' <=> FreedOnce(m) BY <1>3, <2>2 DEF FreedOnce
  <2>4. ASSUME NEW c \in Conns PROVE SentFrom(c)'
    <3>1. psend'[c] = psend[c] /\ SentFrom(c) BY <1>3 DEF Owned
    <3>2. QED BY <1>1, <1>3, <2>1, <2>2, <3>1, StillFrom
  <2>5. InOrder' /\ AllMade' /\ OneEach' BY <1>1, <1>3 DEF InOrder, AllMade, OneEach
  <2>6. QED BY <1>3, <2>3, <2>4, <2>5 DEF Owned
<1>4. CASE Release \/ WriteFree
  <2>1. PICK c \in Conns :
          /\ FreeHeld(c) /\ UNCHANGED <<queue, made, psend, stray>>
          /\ ~SenderAtConn(c, {"clear"}) \/ ~MainAtConn(c, {"clear"})
          /\ psend[c] # Nobody /\ psend[c].id \notin stray => ~Clearing(c)
          /\ Clearers(c)' = Clearers(c) + 1 /\ Clearing(c)'
          /\ \A d \in Conns \ {c} :
               Clearers(d)' = Clearers(d) /\ (Clearing(d)' <=> Clearing(d))
    <3> USE Kinds, NamesAssumption DEF NamesAssumption
    <3>1. CASE Release
      <4> DEFINE c == at[Sender]
      <4>1. /\ pc[Sender] = "release" /\ pc'[Sender] = "clear" /\ at' = at
            /\ pc'[Main] = pc[Main] /\ c \in Conns /\ FreeHeld(c)
            /\ UNCHANGED <<queue, made, psend, stray>>
        BY <3>1, AtConn
        DEF Release, SenderAt, SenderPlaces, Goto, queueVars, sendVars, ThreadTypes
      <4>2. psend[c] # Nobody /\ psend[c].id \notin stray => ~MainOwes(c)
        BY <4>1 DEF Aparts, Apart, SenderHas, SenderAtConn
      <4>3. MainAtConn(c, {"clear"}) => MainOwes(c)
        BY DEF MainAtConn, MainOwes, MainPlaces, Places
      <4>4. ~SenderAtConn(c, {"clear"}) /\ SenderAtConn(c, {"clear"})'
        BY <4>1 DEF SenderAtConn
      <4>5. psend[c] # Nobody /\ psend[c].id \notin stray => ~Clearing(c)
        BY <4>1, <4>2, <4>3, <4>4, ClearersAre
      <4>6. \A d \in Conns \ {c} :
              Clearers(d)' = Clearers(d) /\ (Clearing(d)' <=> Clearing(d))
        BY <4>1 DEF Clearers, Clearing, SenderAtConn, MainAtConn
      <4>7. MainAtConn(c, {"clear"})' <=> MainAtConn(c, {"clear"})
        BY <4>1 DEF MainAtConn
      <4>8. Clearers(c)' = Clearers(c) + 1 BY <4>4, <4>7 DEF Clearers, One
      <4>9. Clearing(c)' BY <4>1 DEF Clearing
      <4>10. QED BY <4>1, <4>4, <4>5, <4>6, <4>8, <4>9
    <3>2. CASE WriteFree
      <4> DEFINE c == at[Main]
      <4>1. /\ pc[Main] = "free" /\ pc'[Main] = "clear" /\ at' = at
            /\ pc'[Sender] = pc[Sender] /\ c \in Conns /\ FreeHeld(c)
            /\ UNCHANGED <<queue, made, psend, stray>>
        BY <3>2, AtConn
        DEF WriteFree, MainAt, MainPlaces, Goto, queueVars, sendVars, ThreadTypes
      <4>2. MainOwes(c) BY <4>1 DEF MainOwes, MainAtConn, MainPlaces, Places
      <4>3. psend[c] # Nobody /\ psend[c].id \notin stray => ~SenderHas(c)
        BY <4>1, <4>2 DEF Aparts, Apart
      <4>4. ~MainAtConn(c, {"clear"}) /\ MainAtConn(c, {"clear"})'
        BY <4>1 DEF MainAtConn
      <4>5. psend[c] # Nobody /\ psend[c].id \notin stray => ~Clearing(c)
        BY <4>1, <4>3, <4>4, ClearersAre
      <4>6. \A d \in Conns \ {c} :
              Clearers(d)' = Clearers(d) /\ (Clearing(d)' <=> Clearing(d))
        BY <4>1 DEF Clearers, Clearing, SenderAtConn, MainAtConn
      <4>7. SenderAtConn(c, {"clear"})' <=> SenderAtConn(c, {"clear"})
        BY <4>1 DEF SenderAtConn
      <4>8. Clearers(c)' = Clearers(c) + 1 BY <4>4, <4>7 DEF Clearers, One
      <4>9. Clearing(c)' BY <4>1 DEF Clearing
      <4>10. QED BY <4>1, <4>4, <4>5, <4>6, <4>8, <4>9
    <3>3. QED BY <1>4, <3>1, <3>2
  <2>2. Clearers(c) \in {0, 1} BY <2>1, ClearersAre
  <2>3. ~Clearing(c) => Clearers(c) = 0 BY <1>2
  <2>4. \A m \in Ids : InQueue(m)' <=> InQueue(m) BY <2>1 DEF InQueue
  <2>5. InOrder' /\ AllMade' /\ OneEach'
    BY <1>1, <2>1 DEF InOrder, AllMade, OneEach
  <2>6. ASSUME NEW d \in Conns, Abandoned(d) PROVE Abandoned(d)'
    BY <1>4, <2>6, AbandonedStays DEF SenderStep, MainStep
  <2>7. CASE psend[c] = Nobody
    <3>1. freed' = freed BY <2>1, <2>7 DEF FreeHeld
    <3>2. \A m \in Ids : InSending(m)' <=> InSending(m)
      BY <2>1, <2>7 DEF InSending, HeldBy
    <3>3. \A m \in Ids : FreedOnce(m)' <=> FreedOnce(m)
      BY <2>1, <2>4, <3>1, <3>2 DEF FreedOnce
    <3>4. ASSUME NEW d \in Conns PROVE SentFrom(d)'
      <4>1. SentFrom(d) /\ psend'[d] = psend[d] BY <2>1 DEF Owned
      <4>2. QED BY <1>1, <2>1, <2>4, <2>6, <2>7, <3>1, <4>1, StillFrom
    <3>5. QED BY <2>1, <2>5, <3>1, <3>3, <3>4 DEF Owned
  <2>8. CASE psend[c] # Nobody
    <3>0. PICK k \in Ids : k = psend[c].id BY <1>1, <2>8
    <3>1. /\ psend[c] \in Msgs /\ psend[c].conn = c /\ k <= made /\ ~InQueue(k)
          /\ k \in stray => Abandoned(c)
          /\ freed[k] <= Clearers(c)
      BY <1>1, <2>8, <3>0 DEF Owned, SentFrom
    <3>2. \A m \in Ids : freed'[m] = IF m = k THEN freed[m] + 1 ELSE freed[m]
      BY <2>1, <2>8, <3>0, <3>1, Freed DEF FreeHeld
    <3>3. \A d \in Conns : HeldBy(d, k) => d = c
      BY <1>1, <2>8, <3>0 DEF HeldBy, OneEach
    <3>4. ~InSending(k)' BY <2>1, <3>3 DEF InSending, HeldBy
    <3>5. k \notin stray => freed[k] = 0
      BY <1>1, <2>1, <2>3, <2>8, <3>0, <3>1
    <3>6. ASSUME NEW m \in Ids \ {k} PROVE InSending(m)' <=> InSending(m)
      <4>1. ~HeldBy(c, m) /\ \A d \in Conns : HeldBy(d, m)' <=> HeldBy(d, m)
        BY <2>1, <3>0 DEF HeldBy
      <4>2. QED BY <2>1, <4>1 DEF InSending
    <3>7. \A m \in Ids \ {k} : FreedOnce(m)' <=> FreedOnce(m)
      BY <2>1, <2>4, <3>2, <3>6 DEF FreedOnce
    <3>8. k \notin stray => FreedOnce(k)'
      BY <2>1, <2>4, <3>1, <3>2, <3>4, <3>5 DEF FreedOnce
    <3>9. freed'[k] <= Clearers(c)' /\ freed'[k] <= 2
      BY <1>1, <2>1, <2>2, <3>1, <3>2
    <3>10. ASSUME NEW d \in Conns PROVE SentFrom(d)'
      <4>1. CASE d = c
        <5>1. psend'[c].conn = c /\ psend'[c].id = k BY <2>1, <3>0, <3>1
        <5>2. ~InQueue(k)' /\ (k \in stray' => Abandoned(c)') /\ k <= made'
          BY <2>1, <2>4, <2>6, <3>1
        <5>3. InQueue(psend[c].id)' <=> InQueue(k)' BY <5>1 DEF InQueue
        <5>4. QED BY <3>9, <4>1, <5>1, <5>2, <5>3 DEF SentFrom
      <4>2. CASE d # c
        <5>1. psend[d] # Nobody => psend[d].id # k
          BY <3>3, <4>2 DEF HeldBy
        <5>2. SentFrom(d) /\ psend'[d] = psend[d] BY <2>1 DEF Owned
        <5>3. \A n \in Ids : psend'[d] # Nobody /\ n = psend[d].id => freed'[n] = freed[n]
          BY <3>2, <5>1, <5>2
        <5>4. QED BY <1>1, <2>1, <2>4, <2>6, <4>2, <5>2, <5>3, StillFrom
      <4>3. QED BY <4>1, <4>2
    <3>11. ASSUME NEW m \in Ids
           PROVE  IF m \in stray' THEN m <= made' /\ freed'[m] <= 2 ELSE FreedOnce(m)'
      <4>1. CASE m = k BY <2>1, <3>1, <3>8, <3>9, <4>1
      <4>2. CASE m # k BY <2>1, <3>2, <3>7, <4>2 DEF Owned
      <4>3. QED BY <4>1, <4>2
    <3>12. QED BY <2>5, <3>10, <3>11 DEF Owned
  <2>9. QED BY <2>7, <2>8
<1>5. CASE ClearSent \/ WriteClear
  <2>1. PICK c \in Conns :
          /\ UNCHANGED <<queue, made, freed, stray>>
          /\ psend' = [psend EXCEPT ![c] = Nobody] /\ Clearing(c)
          /\ \A d \in Conns \ {c} :
               Clearers(d)' = Clearers(d) /\ (Clearing(d)' <=> Clearing(d))
    <3> USE Kinds, NamesAssumption DEF NamesAssumption
    <3>1. CASE ClearSent
      <4> DEFINE c == at[Sender]
      <4>1. /\ pc[Sender] = "clear" /\ pc'[Sender] = "look" /\ at'[Main] = at[Main]
            /\ pc'[Main] = pc[Main] /\ c \in Conns /\ at'[Sender] = Nobody
            /\ UNCHANGED <<queue, made, freed, stray>>
            /\ psend' = [psend EXCEPT ![c] = Nobody]
        BY <3>1, AtConn
        DEF ClearSent, Clear, SenderAt, SenderPlaces, Goto, queueVars, histVars,
            ThreadTypes
      <4>2. Clearing(c) BY <4>1 DEF Clearing
      <4>3. \A d \in Conns \ {c} :
              Clearers(d)' = Clearers(d) /\ (Clearing(d)' <=> Clearing(d))
        BY <4>1 DEF Clearers, Clearing, SenderAtConn, MainAtConn
      <4>4. QED BY <4>1, <4>2, <4>3
    <3>2. CASE WriteClear
      <4> DEFINE c == at[Main]
      <4>1. /\ pc[Main] = "clear" /\ pc'[Main] = "lower" /\ at' = at
            /\ pc'[Sender] = pc[Sender] /\ c \in Conns
            /\ UNCHANGED <<queue, made, freed, stray>>
            /\ psend' = [psend EXCEPT ![c] = Nobody]
        BY <3>2, AtConn
        DEF WriteClear, Clear, MainAt, MainPlaces, Goto, queueVars, histVars, ThreadTypes
      <4>2. Clearing(c) BY <4>1 DEF Clearing
      <4>3. \A d \in Conns \ {c} :
              Clearers(d)' = Clearers(d) /\ (Clearing(d)' <=> Clearing(d))
        BY <4>1 DEF Clearers, Clearing, SenderAtConn, MainAtConn
      <4>4. QED BY <4>1, <4>2, <4>3
    <3>3. QED BY <1>5, <3>1, <3>2
  <2>2. psend'[c] = Nobody /\ \A d \in Conns \ {c} : psend'[d] = psend[d]
    BY <2>1 DEF ConnTypes
  <2>3. \A m \in Ids : (InQueue(m)' <=> InQueue(m)) /\ (InSending(m)' <=> InSending(m))
    BY <2>1, <2>2 DEF InQueue, InSending, HeldBy
  <2>4. \A m \in Ids : FreedOnce(m)' <=> FreedOnce(m) BY <2>1, <2>3 DEF FreedOnce
  <2>5. ASSUME NEW d \in Conns, Abandoned(d) PROVE Abandoned(d)'
    BY <1>5, <2>5, AbandonedStays DEF SenderStep, MainStep
  <2>6. ASSUME NEW d \in Conns PROVE SentFrom(d)'
    <3>1. SentFrom(d) /\ psend'[d] \in {psend[d], Nobody} BY <2>2 DEF Owned
    <3>2. psend'[d] # Nobody => Clearers(d)' = Clearers(d) BY <2>1, <2>2
    <3>3. QED BY <1>1, <2>1, <2>3, <2>5, <3>1, <3>2, StillFrom
  <2>7. InOrder' /\ AllMade' /\ OneEach'
    BY <1>1, <2>1, <2>2 DEF InOrder, AllMade, OneEach
  <2>8. QED BY <2>1, <2>4, <2>6, <2>7 DEF Owned
<1>6. ASSUME NEW c \in Conns, Reuse(c) PROVE Owned'
  <2>1. /\ UNCHANGED <<queue, made, stray, pc, at>> /\ FreeHeld(c)
        /\ psend' = [psend EXCEPT ![c] = Nobody] /\ retired' = retired \ {c}
        /\ \A t \in Threads : at[t] # c
    BY <1>6 DEF Reuse, Clear, Working, queueVars, thrVars
  <2>2. psend'[c] = Nobody /\ \A d \in Conns \ {c} : psend'[d] = psend[d]
    BY <2>1 DEF ConnTypes
  <2>3. \A d \in Conns : /\ Clearers(d)' = Clearers(d) /\ (Clearing(d)' <=> Clearing(d))
                         /\ d # c /\ Abandoned(d) => Abandoned(d)'
    BY <2>1 DEF Clearers, Clearing, SenderAtConn, MainAtConn, Abandoned
  <2>4. ~Clearing(c) /\ Clearers(c) = 0 BY <1>2, <2>1, Kinds DEF Clearing
  <2>5. \A m \in Ids : InQueue(m)' <=> InQueue(m) BY <2>1 DEF InQueue
  <2>6. InOrder' /\ AllMade' /\ OneEach'
    BY <1>1, <2>1, <2>2 DEF InOrder, AllMade, OneEach
  <2>7. CASE psend[c] = Nobody
    <3>1. freed' = freed BY <2>1, <2>7 DEF FreeHeld
    <3>2. \A m \in Ids : InSending(m)' <=> InSending(m)
      BY <2>2, <2>3, <2>7 DEF InSending, HeldBy
    <3>3. \A m \in Ids : FreedOnce(m)' <=> FreedOnce(m)
      BY <2>1, <2>5, <3>1, <3>2 DEF FreedOnce
    <3>4. ASSUME NEW d \in Conns PROVE SentFrom(d)'
      <4>1. SentFrom(d) /\ psend'[d] \in {psend[d], Nobody} BY <2>2 DEF Owned
      <4>2. psend'[d] # Nobody => (Abandoned(d) => Abandoned(d)') BY <2>2, <2>3
      <4>3. QED BY <1>1, <2>1, <2>3, <2>5, <3>1, <4>1, <4>2, StillFrom
    <3>5. QED BY <2>1, <2>6, <3>1, <3>3, <3>4 DEF Owned
  <2>8. CASE psend[c] # Nobody
    <3>0. PICK k \in Ids : k = psend[c].id BY <1>1, <2>8
    <3>1. psend[c] \in Msgs /\ k <= made /\ ~InQueue(k) /\ freed[k] = 0
      BY <1>1, <2>4, <2>8, <3>0 DEF Owned, SentFrom
    <3>2. \A m \in Ids : freed'[m] = IF m = k THEN freed[m] + 1 ELSE freed[m]
      BY <2>1, <2>8, <3>0, <3>1, Freed DEF FreeHeld
    <3>3. \A d \in Conns : HeldBy(d, k) => d = c
      BY <1>1, <2>8, <3>0 DEF HeldBy, OneEach
    <3>4. ~InSending(k)'
      <4>1. \A d \in Conns : ~HeldBy(d, k)' BY <2>2, <3>3 DEF HeldBy
      <4>2. QED BY <4>1 DEF InSending
    <3>5. ASSUME NEW m \in Ids \ {k} PROVE InSending(m)' <=> InSending(m)
      <4>1. ~HeldBy(c, m) /\ \A d \in Conns : HeldBy(d, m)' <=> HeldBy(d, m)
        BY <2>2, <3>0 DEF HeldBy
      <4>2. QED BY <2>3, <4>1 DEF InSending
    <3>6. \A d \in Conns \ {c} : psend[d] # Nobody => psend[d].id # k
      BY <3>3 DEF HeldBy
    <3>7. \A m \in Ids \ {k} : FreedOnce(m)' <=> FreedOnce(m)
      BY <2>1, <2>5, <3>2, <3>5 DEF FreedOnce
    <3>8. FreedOnce(k)' BY <2>1, <2>5, <3>1, <3>2, <3>4 DEF FreedOnce
    <3>9. ASSUME NEW d \in Conns PROVE SentFrom(d)'
      <4>1. SentFrom(d) /\ psend'[d] \in {psend[d], Nobody} BY <2>2 DEF Owned
      <4>2. psend'[d] # Nobody => (Abandoned(d) => Abandoned(d)') BY <2>2, <2>3
      <4>3. \A n \in Ids : psend'[d] # Nobody /\ n = psend[d].id => freed'[n] = freed[n]
        BY <2>2, <3>2, <3>6
      <4>4. QED BY <1>1, <2>1, <2>3, <2>5, <4>1, <4>2, <4>3, StillFrom
    <3>10. ASSUME NEW m \in Ids
           PROVE  IF m \in stray' THEN m <= made' /\ freed'[m] <= 2 ELSE FreedOnce(m)'
      <4>1. CASE m = k BY <2>1, <3>1, <3>2, <3>8, <4>1
      <4>2. CASE m # k BY <2>1, <3>2, <3>7, <4>2 DEF Owned
      <4>3. QED BY <4>1, <4>2
    <3>11. QED BY <2>6, <3>9, <3>10 DEF Owned
  <2>9. QED BY <2>7, <2>8
<1>7. CASE DropStale \/ TakeOut
  <2> DEFINE e == queue[pos]
  <2>1. /\ pos \in 1..Len(queue) /\ queue' = RemoveAt(queue, pos) /\ made' = made
        /\ e \in Msgs /\ e.id \in Ids /\ e.id <= made /\ e.id \notin stray
    <3>1. pos \in 1..Len(queue) /\ queue' = RemoveAt(queue, pos) /\ made' = made
      BY <1>7, Looking DEF DropStale, TakeOut, histVars, Found, SenderAt
    <3>2. QED BY <1>1, <3>1 DEF AllMade
  <2>2. /\ InOrder' /\ Len(queue') = Len(queue) - 1
        /\ \A j \in 1..Len(queue') : queue'[j] = IF j < pos THEN queue[j] ELSE queue[j + 1]
        /\ \A m \in Ids : InQueue(m)' <=> InQueue(m) /\ m # e.id
    BY <1>1, <2>1, Taken
  <2>3. /\ \A i \in 1..Len(queue') : \E j \in 1..Len(queue) : queue'[i] = queue[j]
        /\ \A i \in 1..Len(queue') : queue'[i].id # e.id
    <3>1. \A i \in 1..Len(queue') : \E j \in 1..Len(queue) : queue'[i] = queue[j]
      BY <2>2
    <3>2. ASSUME NEW i \in 1..Len(queue') PROVE queue'[i].id # e.id
      <4>1. PICK n \in Ids : n = queue'[i].id BY <1>1, <3>1
      <4>2. InQueue(n)' BY <4>1 DEF InQueue
      <4>3. QED BY <2>2, <4>1, <4>2
    <3>3. QED BY <3>1, <3>2
  <2>4. InQueue(e.id) BY <2>1 DEF InQueue
  <2>5. \A c \in Conns : /\ Clearers(c)' = Clearers(c) /\ (Clearing(c)' <=> Clearing(c))
                         /\ Abandoned(c) <=> Abandoned(c)'
    <3>1. ~Release /\ ~ClearSent
      BY <1>7 DEF DropStale, TakeOut, Release, ClearSent, SenderAt
    <3>2. ~WriteFree /\ ~WriteClear
      <4>1. pc'[Main] = pc[Main]
        BY <1>7, Kinds, SenderAlone, NamesAssumption
        DEF OthersStay, SenderStep, NamesAssumption
      <4>2. QED BY <4>1, Kinds DEF WriteFree, WriteClear, MainAt, Goto, ThreadTypes
    <3>3. QED BY <1>7, <3>1, <3>2, ClearersStay, AbandonedStays DEF SenderStep
  <2>6. \A c \in Conns : psend[c] # Nobody => psend[c].id # e.id
    BY <2>4 DEF Owned, SentFrom
  <2> HIDE DEF e
  <2>7. CASE DropStale
    <3>1. Free(e) /\ UNCHANGED <<psend, stray>> BY <2>7 DEF DropStale, sendVars, e
    <3>2. \A m \in Ids : InSending(m)' <=> InSending(m)
      BY <2>5, <3>1 DEF InSending, HeldBy
    <3>3. ~InSending(e.id) BY <2>6 DEF InSending, HeldBy
    <3>4. \A m \in Ids : freed'[m] = IF m = e.id THEN freed[m] + 1 ELSE freed[m]
      BY <2>1, <3>1, Freed
    <3>5. \A m \in Ids : FreedOnce(m) => FreedOnce(m)'
      BY <2>1, <2>2, <2>4, <3>2, <3>3, <3>4 DEF FreedOnce
    <3>6. \A m \in Ids : m \in stray => m # e.id BY <2>1
    <3>7. \A m \in Ids :
            IF m \in stray' THEN m <= made' /\ freed'[m] <= 2 ELSE FreedOnce(m)'
      BY <2>1, <3>1, <3>4, <3>5, <3>6 DEF Owned
    <3>8. ASSUME NEW c \in Conns PROVE SentFrom(c)'
      <4>1. SentFrom(c) /\ psend'[c] = psend[c] BY <3>1 DEF Owned
      <4>2. \A n \in Ids : psend'[c] # Nobody /\ n = psend[c].id => freed'[n] = freed[n]
        BY <2>6, <3>1, <3>4
      <4>3. QED BY <1>1, <2>1, <2>2, <2>5, <3>1, <4>1, <4>2, StillFrom
    <3>9. OneEach' BY <1>1, <3>1 DEF OneEach
    <3>10. AllMade' BY <1>1, <2>1, <2>3, <3>1 DEF AllMade
    <3>11. QED BY <2>2, <3>7, <3>8, <3>9, <3>10 DEF Owned
  <2>8. CASE TakeOut
    <3>0. PICK c \in Conns : c = at[Sender]
      BY <2>8, AtConn DEF TakeOut, SenderAt, SenderPlaces
    <3>1. /\ pc[Sender] = "current" /\ throw[c] <= 0 /\ UNCHANGED freed
          /\ psend' = [psend EXCEPT ![c] = e] /\ e.conn = c
          /\ stray' = stray \cup Strayed(c)
      BY <2>8, <3>0 DEF TakeOut, SenderAt, histVars, Found, e
    <3>2. ~Abandoned(c) => psend[c] = Nobody /\ ~Clearing(c)
      <4>1. ~SenderAtConn(c, {"clear"}) /\ ~SenderHas(c)
        BY <3>1 DEF SenderAtConn, SenderHas
      <4>2. ~Abandoned(c) => Turn(c) BY DEF Turns
      <4>3. MainAtConn(c, {"clear"}) => MainOwes(c)
        BY DEF MainAtConn, MainOwes, MainPlaces, Places
      <4>4. QED BY <3>1, <4>1, <4>2, <4>3, ClearersAre DEF Turn
    <3>3. Strayed(c) = IF Abandoned(c) THEN {e.id} \cup Held(c) ELSE {}
      BY DEF Strayed, e
    <3>4. psend'[c] = e /\ e # Nobody /\ \A d \in Conns \ {c} : psend'[d] = psend[d]
      BY <2>1, <3>1, NamesAssumption DEF ConnTypes, NamesAssumption
    <3>5. ASSUME NEW m \in Ids, m \notin stray' PROVE FreedOnce(m)'
      <4>1. m \notin stray /\ FreedOnce(m) BY <3>1, <3>5 DEF Owned
      <4>2. CASE m = e.id
        <5>1. ~Abandoned(c) BY <3>1, <3>3, <3>5, <4>2
        <5>2. InSending(m)'
          <6>1. HeldBy(c, m)' /\ ~Clearing(c)' BY <2>5, <3>2, <3>4, <4>2, <5>1 DEF HeldBy
          <6>2. QED BY <6>1 DEF InSending
        <5>3. freed[m] = 0 BY <2>4, <4>1, <4>2 DEF FreedOnce
        <5>4. QED BY <3>1, <5>2, <5>3 DEF FreedOnce
      <4>3. CASE m # e.id
        <5>1. ~HeldBy(c, m) BY <3>1, <3>2, <3>3, <3>5 DEF HeldBy, Held
        <5>2. ~HeldBy(c, m)' BY <3>4, <4>3 DEF HeldBy
        <5>3. \A d \in Conns \ {c} : HeldBy(d, m)' <=> HeldBy(d, m)
          BY <3>4 DEF HeldBy
        <5>4. InSending(m)' <=> InSending(m)
          BY <2>5, <5>1, <5>2, <5>3 DEF InSending
        <5>5. QED BY <2>1, <2>2, <3>1, <4>1, <4>3, <5>4 DEF FreedOnce
      <4>4. QED BY <4>2, <4>3
    <3>6. \A m \in Strayed(c) : m <= made /\ m \in Ids /\ freed[m] <= 2
      <4>1. freed[e.id] = 0 BY <2>1, <2>4 DEF Owned, FreedOnce
      <4>2. psend[c] # Nobody =>
              psend[c].id <= made /\ psend[c].id \in Ids /\ freed[psend[c].id] <= 2
        BY <1>1, <1>2, <3>1 DEF Owned, SentFrom
      <4>3. QED BY <2>1, <3>3, <4>1, <4>2 DEF Held
    <3>7. \A m \in Ids :
            IF m \in stray' THEN m <= made' /\ freed'[m] <= 2 ELSE FreedOnce(m)'
      BY <2>1, <3>1, <3>5, <3>6 DEF Owned
    <3>8. ASSUME NEW d \in Conns PROVE SentFrom(d)'
      <4>1. CASE d = c
        <5>1. freed[e.id] = 0 /\ Clearers(c)' \in Nat
          BY <1>2, <2>1, <2>4, <2>5, <4>1 DEF Owned, FreedOnce
        <5>2. e.id \in stray' => Abandoned(c)' BY <2>1, <2>5, <3>1, <3>3
        <5>3. e.id <= made' BY <2>1
        <5>4. PICK n \in Ids : n = e.id BY <2>1
        <5>5. InQueue(psend[c].id)' <=> InQueue(n)' BY <3>4, <5>4 DEF InQueue
        <5>6. ~InQueue(n)' BY <2>2, <5>4
        <5>7. freed'[n] <= Clearers(c)' BY <3>1, <4>1, <5>1, <5>4
        <5>8. QED BY <3>1, <3>4, <4>1, <5>2, <5>3, <5>4, <5>5, <5>6, <5>7 DEF SentFrom
      <4>2. CASE d # c
        <5>1. psend[d] # Nobody /\ psend[d].id \in stray' => psend[d].id \in stray
          <6>1. psend[d] # Nobody => psend[d].id \notin Held(c)
            BY <1>1, <3>1, <4>2 DEF Held, OneEach
          <6>2. QED BY <2>6, <3>1, <3>3, <6>1
        <5>2. SentFrom(d) /\ psend'[d] = psend[d] BY <3>4, <4>2 DEF Owned
        <5>3. \A n \in Ids : psend'[d] # Nobody /\ n = psend[d].id =>
                (n \in stray' => n \in stray)
          BY <5>1, <5>2
        <5>4. QED BY <1>1, <2>1, <2>2, <2>5, <3>1, <5>2, <5>3, StillFrom
      <4>3. QED BY <4>1, <4>2
    <3>9. OneEach' BY <1>1, <2>6, <3>4 DEF OneEach
    <3>10. AllMade'
      <4>1. ASSUME NEW i \in 1..Len(queue') PROVE queue'[i].id \notin Strayed(c)
        <5>0. PICK j \in 1..Len(queue) : queue'[i] = queue[j] BY <2>3
        <5>1. InQueue(queue[j].id) BY DEF InQueue
        <5>2. queue'[i].id \notin Held(c)
          BY <5>0, <5>1 DEF Held, Owned, SentFrom
        <5>3. QED BY <2>3, <3>3, <5>2
      <4>2. QED BY <1>1, <2>1, <2>3, <3>1, <4>1 DEF AllMade
    <3>11. QED BY <2>2, <3>7, <3>8, <3>9, <3>10 DEF Owned
  <2>9. QED BY <1>7, <2>7, <2>8
<1>8. ASSUME NEW c \in Conns, MsgSend(c) PROVE Owned'
  <2> DEFINE e == AnswerFor(c)
  <2>1. /\ e \in Msgs /\ e.id = made + 1 /\ made' = made + 1 /\ e.id \in Ids
        /\ UNCHANGED <<psend, stray>>
    <3>1. e \in Msgs BY <1>8, AnswerTyped DEF MsgSend
    <3>2. QED BY <1>8, <3>1 DEF MsgSend, Discard, AnswerFor, Msgs
  <2>2. ~InQueue(e.id) /\ ~InSending(e.id) /\ e.id \notin stray
    BY <1>1, <2>1 DEF Owned, AllMade, SentFrom, InQueue, InSending, HeldBy
  <2>3. \A d \in Conns : /\ Clearers(d)' = Clearers(d) /\ (Clearing(d)' <=> Clearing(d))
                         /\ Abandoned(d) <=> Abandoned(d)'
    <3>1. ~Release /\ ~ClearSent /\ ~WriteFree /\ ~WriteClear
      <4>1. made' # made BY <1>1, <2>1
      <4>2. QED BY <4>1 DEF Release, ClearSent, WriteFree, WriteClear, histVars
    <3>2. QED BY <1>8, <3>1, ClearersStay, AbandonedStays
  <2>4. \A m \in Ids : InSending(m)' <=> InSending(m)
    BY <2>1, <2>3 DEF InSending, HeldBy
  <2>5. \A m \in Ids : m <= made' <=> m <= made \/ m = e.id
    <3>1. made \in Int /\ made' = made + 1 /\ e.id = made + 1 BY <1>1, <2>1
    <3>2. \A m \in Ids : m \in Int BY DEF Ids
    <3> HIDE DEF e
    <3>3. QED BY <3>1, <3>2
  <2>6. CASE queue' = queue /\ Free(e)
    <3>1. \A m \in Ids : InQueue(m)' <=> InQueue(m) BY <2>6 DEF InQueue
    <3>2. \A m \in Ids : freed'[m] = IF m = e.id THEN freed[m] + 1 ELSE freed[m]
      BY <2>1, <2>6, Freed
    <3>3. ~(e.id <= made) BY <1>1, <2>1
    <3>4. \A d \in Conns : psend[d] # Nobody => psend[d].id # e.id
      BY <1>1, <3>3 DEF Owned, SentFrom
    <3> HIDE DEF e
    <3>5. \A m \in Ids : FreedOnce(m) => FreedOnce(m)'
      BY <2>2, <2>4, <2>5, <3>1, <3>2, <3>3 DEF FreedOnce
    <3>6. \A m \in Ids :
            IF m \in stray' THEN m <= made' /\ freed'[m] <= 2 ELSE FreedOnce(m)'
      BY <2>1, <2>2, <2>5, <3>2, <3>5 DEF Owned
    <3>7. ASSUME NEW d \in Conns PROVE SentFrom(d)'
      <4>1. SentFrom(d) /\ psend'[d] = psend[d] BY <2>1 DEF Owned
      <4>2. \A n \in Ids : psend'[d] # Nobody /\ n = psend[d].id => freed'[n] = freed[n]
        BY <2>1, <3>2, <3>4
      <4>3. QED BY <1>1, <2>1, <2>3, <2>5, <3>1, <4>1, <4>2, StillFrom
    <3>8. AllMade' BY <1>1, <2>1, <2>5, <2>6 DEF AllMade
    <3>9. InOrder' /\ OneEach' BY <1>1, <2>1, <2>6 DEF InOrder, OneEach
    <3>10. QED BY <3>6, <3>7, <3>8, <3>9 DEF Owned
  <2>7. CASE queue' = Append(queue, e) /\ UNCHANGED freed
    <3> HIDE DEF e
    <3>1. \A i \in 1..Len(queue) : queue[i].id < e.id
      <4>1. \A i \in 1..Len(queue) : queue[i].id \in Int BY <1>1
      <4>2. QED BY <1>1, <2>1, <4>1 DEF AllMade
    <3>2. /\ InOrder' /\ Len(queue') = Len(queue) + 1
          /\ \A j \in 1..Len(queue') : queue'[j] = IF j <= Len(queue) THEN queue[j] ELSE e
          /\ \A m \in Ids : InQueue(m)' <=> InQueue(m) \/ m = e.id
      BY <1>1, <2>1, <2>7, <3>1, Added
    <3>3. ~(e.id <= made) BY <1>1, <2>1
    <3>4. \A m \in Ids : FreedOnce(m) => FreedOnce(m)'
      BY <2>2, <2>4, <2>5, <2>7, <3>2, <3>3 DEF FreedOnce
    <3>5. \A m \in Ids :
            IF m \in stray' THEN m <= made' /\ freed'[m] <= 2 ELSE FreedOnce(m)'
      BY <2>1, <2>5, <2>7, <3>4 DEF Owned
    <3>6. ASSUME NEW d \in Conns PROVE SentFrom(d)'
      <4>1. SentFrom(d) /\ psend'[d] = psend[d] BY <2>1 DEF Owned
      <4>2. \A n \in Ids : psend'[d] # Nobody /\ n = psend[d].id => n # e.id
        BY <2>1, <3>3, <4>1 DEF SentFrom
      <4>3. QED BY <1>1, <2>1, <2>3, <2>5, <2>7, <3>2, <4>1, <4>2, StillFrom
    <3>7. ASSUME NEW i \in 1..Len(queue')
          PROVE  queue'[i].id <= made' /\ queue'[i].id \notin stray'
      <4>1. Len(queue) \in Nat BY DEF QueueTypes
      <4>2. CASE i <= Len(queue)
        <5>1. i \in 1..Len(queue) /\ queue'[i] = queue[i] BY <3>2, <4>1, <4>2
        <5>2. QED BY <1>1, <2>1, <2>5, <5>1 DEF AllMade
      <4>3. CASE i > Len(queue) BY <1>1, <2>1, <2>2, <3>2, <4>1, <4>3
      <4>4. QED BY <1>1, <3>2, <4>1, <4>2, <4>3
    <3>8. OneEach' BY <1>1, <2>1 DEF OneEach
    <3>9. QED BY <3>2, <3>5, <3>6, <3>7, <3>8 DEF Owned, AllMade
  <2>8. QED BY <1>8, <2>6, <2>7 DEF MsgSend, Discard, queueVars
<1>9. ASSUME \A c \in Conns : ~MsgSend(c) /\ ~Reuse(c), ~Release, ~ClearSent,
             ~WriteFree, ~WriteClear, ~DropStale, ~TakeOut
      PROVE  UNCHANGED <<queue, psend, freed, made, stray>>
  <2>1. CASE SendDone \/ SendPart \/ WritePart \/ WriteDone
    BY <2>1, SendSteps
    DEF Sends, SendDone, SendPart, WritePart, WriteDone, queueVars
  <2>2. QED
    BY <1>9, <2>1
    DEF Next, SenderStep, MainStep, CloseStep, ClientStep, sendVars, queueVars, histVars,
        Wake, StartPass, EndPass, FindCurrent, Skip, Raise, ArmOut, ReadSome, ReadEnd,
        NotWritable, HangUp, Write, DisarmOut, Lower, Post, EpollWait, Kick, ClientSends,
        ClientReads, ClientEnds, ClientResets, CloseSocket, Drop, Retire, SendPipe
<1>10. QED BY <1>3, <1>4, <1>5, <1>6, <1>7, <1>8, <1>9

-----------------------------------------------------------------------------
(* Which client a message is for.                                          *)

(* What a step does to the number of a connection.                         *)
LEMMA LifeSteps ==
  ASSUME Types, Places, Next, NEW c \in Conns
  PROVE  \/ seq'[c] = seq[c] /\ (c \in retired' <=> c \in retired)
         \/ c \in retired' \ retired /\ seq'[c] = seq[c] + 1
         \/ c \in retired \ retired' /\ seq'[c] = seq[c] + 2 /\ Reuse(c)
<1> USE DEF Types
<1>1. CASE UNCHANGED <<seq, retired>> BY <1>1
<1>2. ASSUME NEW t \in Closers, Retire(t)
      PROVE  \/ seq'[c] = seq[c] /\ (c \in retired' <=> c \in retired)
             \/ c \in retired' \ retired /\ seq'[c] = seq[c] + 1
  <2>1. CASE at[t] \in retired BY <1>2, <2>1 DEF Retire, lifeVars
  <2>2. CASE at[t] \notin retired
    <3>1. retired' = retired \cup {at[t]} /\ seq' = [seq EXCEPT ![at[t]] = @ + 1]
      BY <1>2, <2>2 DEF Retire
    <3>2. QED BY <2>2, <3>1 DEF ConnTypes
  <2>3. QED BY <2>1, <2>2
<1>3. ASSUME NEW d \in Conns, Reuse(d)
      PROVE  \/ seq'[c] = seq[c] /\ (c \in retired' <=> c \in retired)
             \/ c \in retired \ retired' /\ seq'[c] = seq[c] + 2 /\ Reuse(c)
  <2>1. d \in retired /\ retired' = retired \ {d} /\ seq' = [seq EXCEPT ![d] = @ + 2]
    BY <1>3 DEF Reuse
  <2>2. QED BY <1>3, <2>1 DEF ConnTypes
<1>4. QED
  BY <1>1, <1>2, <1>3, SenderAlone, MainAlone
  DEF Next, CloseStep, ClientStep, lifeVars, MsgSend, Kick, ClientSends, ClientReads,
      ClientEnds, ClientResets, CloseSocket, Drop, SendPipe

(* A number is never used again, so what is stale stays so.                *)
LEMMA StaleStays ==
  ASSUME Types, Places, Next
  PROVE  \A m \in Msgs : MadeBefore(m) => MadeBefore(m)' /\ (Stale(m) => Stale(m)')
<1>1. ASSUME NEW m \in Msgs, MadeBefore(m)
      PROVE  MadeBefore(m)' /\ (Stale(m) => Stale(m)')
  <2>1. m.conn \in Conns /\ m.seq \in Nat /\ seq[m.conn] \in Nat
    BY SMTT(30), MsgFields DEF Types, ConnTypes
  <2>2. QED BY <1>1, <2>1, LifeSteps DEF MadeBefore, Stale
<1>2. QED BY <1>1

(* What a step does to psendMemPointer of a connection.                    *)
LEMMA PsendSteps ==
  ASSUME Types, Places, Next, NEW c \in Conns
  PROVE  \/ psend'[c] = psend[c]
         \/ psend'[c] = Nobody
         \/ TakeOut /\ c = at[Sender] /\ psend'[c] = queue[pos]
<1> USE DEF Types
<1>1. ASSUME NEW d \in Conns, psend' = [psend EXCEPT ![d] = Nobody]
      PROVE  (psend'[c] = psend[c] /\ d # c) \/ psend'[c] = Nobody
  BY <1>1 DEF ConnTypes
<1>2. Reuse(c) => psend'[c] = Nobody BY <1>1 DEF Reuse, Clear
<1>3. CASE ClearSent \/ WriteClear
  BY <1>1, <1>2, <1>3, AtConn
  DEF ClearSent, WriteClear, Clear, SenderAt, MainAt, SenderPlaces, MainPlaces
<1>4. CASE TakeOut BY <1>2, <1>4, AtConn DEF TakeOut, SenderAt, SenderPlaces, ConnTypes
<1>5. ASSUME NEW d \in Conns, Reuse(d)
      PROVE  (psend'[c] = psend[c] /\ d # c) \/ psend'[c] = Nobody
  BY <1>1, <1>5 DEF Reuse, Clear
<1>6. CASE UNCHANGED psend BY <1>2, <1>6
<1>7. QED
  BY <1>2, <1>3, <1>4, <1>5, <1>6
  DEF Next, SenderStep, MainStep, CloseStep, ClientStep, sendVars,
      Wake, StartPass, EndPass, DropStale, FindCurrent, Skip, SendDone, SendPart,
      Release, Raise, ArmOut, ReadSome, ReadEnd, NotWritable, HangUp, Write, WritePart,
      WriteDone, DisarmOut, WriteFree, Lower, Post, EpollWait, MsgSend, Kick,
      ClientSends, ClientReads, ClientEnds, ClientResets, CloseSocket, Drop, Retire, SendPipe

(* What a step does to what a client was sent.                             *)
LEMMA WireSteps ==
  ASSUME Types, Places, Next, NEW c \in Conns
  PROVE  \/ wire'[c] = wire[c]
         \/ Reuse(c) /\ wire'[c] = <<>>
         \/ /\ c \in open /\ Transmit(c)
            /\ \E t \in {Main, Sender} : pc[t] = "send" /\ at[t] = c
<1> USE DEF Types
<1>1. CASE UNCHANGED wire BY <1>1
<1>2. CASE SendDone \/ SendPart \/ WritePart \/ WriteDone
  <2>1. PICK t \in {Main, Sender} : pc[t] = "send" /\ Sends(at[t]) BY <1>2, SendSteps
  <2>2. CASE at[t] \notin open BY <1>1, <2>1, <2>2 DEF Sends
  <2>3. CASE at[t] \in open
    <3>1. at[t] \in Conns /\ Transmit(at[t]) BY <2>1, <2>3 DEF Sends
    <3>2. CASE at[t] = c BY <2>1, <2>3, <3>1, <3>2
    <3>3. CASE at[t] # c BY <3>1, <3>3, Sent
    <3>4. QED BY <3>2, <3>3
  <2>4. QED BY <2>2, <2>3
<1>3. ASSUME NEW d \in Conns, Reuse(d)
      PROVE  wire'[c] = wire[c] \/ (Reuse(c) /\ wire'[c] = <<>>)
  <2>1. wire' = [wire EXCEPT ![d] = <<>>] BY <1>3 DEF Reuse
  <2>2. QED BY <1>3, <2>1 DEF SocketTypes
<1>4. QED
  BY <1>1, <1>2, <1>3
  DEF Next, SenderStep, MainStep, CloseStep, ClientStep, histVars,
      Wake, StartPass, EndPass, DropStale, FindCurrent, Skip, TakeOut, Release,
      ClearSent, Raise, ArmOut, ReadSome, ReadEnd, NotWritable, HangUp, Write, WriteFree,
      WriteClear, DisarmOut, Lower, Post, EpollWait, MsgSend, Kick, ClientSends, ClientReads, ClientEnds,
      ClientResets, CloseSocket, Drop, Retire, SendPipe

(* Who sends has something to send, to a client that is there.             *)
LEMMA SendersHaveIt ==
  ASSUME Types, Places, Sockets, Turns, NEW c \in open, NEW t \in {Main, Sender},
         pc[t] = "send", at[t] = c
  PROVE  psend[c] # Nobody
<1>1. c \in Conns BY DEF Types, SocketTypes
<1>2. Turn(c) BY <1>1 DEF Turns, Sockets, Abandoned
<1>3. CASE t = Sender BY <1>2, <1>3 DEF Turn, SenderHas, SenderAtConn
<1>4. CASE t = Main
  <2>1. MainOwes(c) /\ ~MainAtConn(c, {"lower"})
    BY <1>4 DEF MainOwes, MainAtConn, MainPlaces, Places
  <2>2. QED BY <1>2, <2>1 DEF Turn
<1>5. QED BY <1>3, <1>4

(* A step keeps Seqs: nobody is sent the answer of another.                *)
LEMMA StepSeqs ==
  ASSUME Types, Types', Places, Sockets, Found, Turns, Owned, Seqs, Next
  PROVE  Seqs'
<1> DEFINE After(m) ==
             m.seq <= seq'[m.conn] /\ (m.conn \in retired' => m.seq < seq'[m.conn])
<1>1. ASSUME NEW i \in 1..Len(queue') PROVE After(queue'[i])
  <2>1. \A j \in 1..Len(queue) : After(queue[j])
    <3>1. \A j \in 1..Len(queue) : queue[j] \in Msgs /\ MadeBefore(queue[j])
      BY DEF Types, QueueTypes, Seqs
    <3>2. \A m \in Msgs : MadeBefore(m) => After(m) BY StaleStays DEF MadeBefore
    <3>3. QED BY <3>1, <3>2
  <2>2. queue \in Seq(Msgs) /\ Len(queue) \in Nat BY DEF Types, QueueTypes
  <2>3. CASE queue' = queue BY <2>1, <2>3
  <2>4. CASE pos \in 1..Len(queue) /\ queue' = RemoveAt(queue, pos)
    <3>1. \E j \in 1..Len(queue) : queue'[i] = queue[j]
      <4>1. /\ Len(queue') = Len(queue) - 1
            /\ \A j \in 1..Len(queue) - 1 :
                 queue'[j] = IF j < pos THEN queue[j] ELSE queue[j + 1]
        BY <2>2, <2>4, Removed
      <4>2. QED BY <2>2, <4>1
    <3>2. QED BY <2>1, <3>1
  <2>5. ASSUME NEW c \in Conns, MsgSend(c), queue' = Append(queue, AnswerFor(c))
        PROVE  After(queue'[i])
    <3>1. /\ Len(queue') = Len(queue) + 1
          /\ i <= Len(queue) => queue'[i] = queue[i]
          /\ i > Len(queue) => queue'[i] = AnswerFor(c)
      BY <2>2, <2>5
    <3>2. CASE i <= Len(queue) BY <2>1, <2>2, <3>1, <3>2
    <3>3. CASE i > Len(queue)
      <4>1. UNCHANGED <<seq, retired>> BY <2>5 DEF MsgSend, lifeVars
      <4>2. After(AnswerFor(c)) BY <4>1 DEF AnswerFor, Types, ConnTypes
      <4>3. QED BY <3>1, <3>3, <4>2
    <3>4. QED BY <2>2, <3>1, <3>2, <3>3
  <2> HIDE DEF After
  <2>6. QED BY <2>3, <2>4, <2>5, QueueSteps
<1>2. ASSUME NEW c \in Conns \ retired' PROVE SentToItsOwn(c)'
  <2>1. CASE psend'[c] = Nobody BY <2>1 DEF SentToItsOwn
  <2>2. CASE ~Reuse(c)
    <3>1. seq'[c] = seq[c] /\ c \notin retired BY <2>2, LifeSteps
    <3>2. CASE psend'[c] = psend[c] BY <3>1, <3>2 DEF Seqs, SentToItsOwn
    <3>3. CASE TakeOut /\ c = at[Sender] /\ psend'[c] = queue[pos]
      BY <3>1, <3>3 DEF TakeOut, SenderAt, Found, SentToItsOwn
    <3>4. QED BY <2>1, <3>2, <3>3, PsendSteps
  <2>3. CASE Reuse(c)
    <3>1. psend'[c] = Nobody BY <2>3 DEF Reuse, Clear, Types, ConnTypes
    <3>2. QED BY <2>1, <3>1
  <2>4. QED BY <2>2, <2>3
<1>3. ASSUME NEW c \in Conns \ retired', NEW i \in 1..Len(wire'[c])
      PROVE  wire'[c][i].conn = c /\ wire'[c][i].seq = seq'[c]
  <2>1. CASE wire'[c] = <<>> BY <1>3, <2>1
  <2>2. CASE ~Reuse(c)
    <3>1. seq'[c] = seq[c] /\ c \notin retired BY <2>2, LifeSteps
    <3>2. \A j \in 1..Len(wire[c]) : wire[c][j].conn = c /\ wire[c][j].seq = seq[c]
      BY <3>1 DEF Seqs, OnlyItsOwn
    <3>3. CASE wire'[c] = wire[c] BY <1>3, <3>1, <3>2, <3>3
    <3>4. ASSUME c \in open, Transmit(c), NEW t \in {Main, Sender}, pc[t] = "send", at[t] = c
          PROVE  wire'[c][i].conn = c /\ wire'[c][i].seq = seq[c]
      <4>1. psend[c].conn = c /\ psend[c].seq = seq[c]
        BY <3>1, <3>4, SendersHaveIt DEF Owned, SentFrom, Seqs, SentToItsOwn
      <4>2. wire'[c][i] = IF i <= Len(wire[c]) THEN wire[c][i] ELSE psend[c]
        BY <1>3, <3>4, Sent DEF Types
      <4>3. Len(wire[c]) \in Nat /\ Len(wire'[c]) \in Nat BY DEF Types, SocketTypes
      <4>4. i <= Len(wire[c]) => i \in 1..Len(wire[c]) BY <1>3, <4>3
      <4>5. QED BY <3>2, <4>1, <4>2, <4>4
    <3>5. QED BY <2>2, <3>1, <3>3, <3>4, WireSteps
  <2>3. CASE Reuse(c) BY <2>1, <2>3 DEF Reuse, Types, SocketTypes
  <2>4. QED BY <2>2, <2>3
<1>4. OnlyItsOwn' BY <1>3 DEF OnlyItsOwn
<1>5. \A i \in 1..Len(queue') : MadeBefore(queue[i])' BY <1>1 DEF MadeBefore
<1>6. QED BY <1>2, <1>4, <1>5 DEF Seqs

-----------------------------------------------------------------------------
(* iSendCount, and the limits.                                             *)

(* The answers that wait for a client are a finite set.                    *)
LEMMA WaitingFinite ==
  ASSUME QueueTypes, NEW c \in Conns
  PROVE  IsFiniteSet(Waiting(c))
<1> DEFINE f == [i \in 1..Len(queue) |-> queue[i]]
<1>1. IsFiniteSet(1..Len(queue)) BY FS_Interval DEF QueueTypes
<1>2. f \in Surjection(1..Len(queue), ToSet(queue)) BY Elements DEF Surjection
<1> HIDE DEF f
<1>3. IsFiniteSet(ToSet(queue)) BY <1>1, <1>2, FS_Surjection
<1>4. Waiting(c) \subseteq ToSet(queue) BY DEF Waiting
<1>5. QED BY <1>3, <1>4, FS_Subset

(* A step keeps the counts exact.                                          *)
LEMMA StepBacklog ==
  ASSUME Types, Types', Places, Found, Owned, Seqs, Backlog, Next
  PROVE  Backlog'
<1>1. caps' = caps /\ caps \in Nat \X Nat BY DEF Next, Backlog
<1>2. InOrder /\ QueueTypes BY DEF Owned, Types
<1>3. /\ \A i \in 1..Len(queue) : queue[i] \in Msgs
      /\ \A m \in ToSet(queue) : m \in Msgs /\ MadeBefore(m)
  <2>1. \A i \in 1..Len(queue) : queue[i] \in Msgs BY <1>2 DEF QueueTypes
  <2>2. QED BY <1>2, <2>1, Elements DEF Seqs
<1>4. Len(queue) \in Nat /\ Len(queue) <= QueueCap + 1 /\ QueueCap \in Nat /\ ConnCap \in Nat
  BY <1>1, <1>2 DEF Backlog, BacklogExact, QueueCap, ConnCap, QueueTypes
<1>5. Len(queue') <= QueueCap' + 1
  <2>1. CASE queue' = queue BY <1>1, <1>4, <2>1 DEF QueueCap
  <2>2. CASE pos \in 1..Len(queue) /\ queue' = RemoveAt(queue, pos)
    <3>1. Len(queue') = Len(queue) - 1 BY <1>2, <2>2, Taken
    <3>2. QED BY <1>1, <1>4, <3>1 DEF QueueCap
  <2>3. ASSUME NEW c \in Conns, MsgSend(c), queue' = Append(queue, AnswerFor(c))
        PROVE  Len(queue') <= QueueCap' + 1
    <3>1. Len(queue') = Len(queue) + 1 BY <1>2, <2>3 DEF QueueTypes
    <3>2. ~(Len(queue) > QueueCap)
      BY <1>4, <2>3, <3>1 DEF MsgSend, queueVars
    <3>3. QED BY <1>1, <1>4, <3>1, <3>2 DEF QueueCap
  <2>4. QED BY <2>1, <2>2, <2>3, QueueSteps
<1>6. ASSUME NEW c \in Conns
      PROVE  /\ waiting'[c] <= ConnCap' + 1
             /\ c \notin retired' => waiting'[c] = Cardinality(Waiting(c)')
  <2>1. /\ waiting[c] \in Int /\ waiting[c] <= ConnCap + 1 /\ ConnCap' = ConnCap
        /\ c \notin retired => waiting[c] = Cardinality(Waiting(c))
        /\ IsFiniteSet(Waiting(c))
    BY <1>1, <1>2, WaitingFinite
    DEF Types, ConnTypes, Backlog, BacklogExact, ConnCap
  <2>2. ASSUME c \notin retired' => c \notin retired, waiting'[c] = waiting[c],
               c \notin retired' => Waiting(c)' = Waiting(c)
        PROVE  /\ waiting'[c] <= ConnCap' + 1
               /\ c \notin retired' => waiting'[c] = Cardinality(Waiting(c)')
    BY <2>1, <2>2
  <2>3. CASE Reuse(c)
    <3>1. queue' = queue /\ c \in retired /\ seq'[c] = seq[c] + 2 /\ waiting'[c] = 0
      BY <2>3 DEF Reuse, queueVars, Types, ConnTypes
    <3>2. \A m \in ToSet(queue) : m.conn = c => m.seq # seq'[c]
      <4>1. \A m \in ToSet(queue) : m.conn = c => m.seq < seq[c] /\ m.seq \in Nat
        BY <1>3, <3>1, MsgFields DEF MadeBefore
      <4>2. seq[c] \in Nat BY DEF Types, ConnTypes
      <4>3. QED BY <3>1, <4>1, <4>2
    <3>3. Waiting(c)' = {} BY <3>1, <3>2 DEF Waiting
    <3>4. QED BY <1>4, <2>1, <3>1, <3>3, FS_EmptySet
  <2>4. CASE ~Reuse(c) /\ queue' = queue /\ waiting'[c] = waiting[c]
    <3>1. c \notin retired' => c \notin retired /\ seq'[c] = seq[c] BY <2>4, LifeSteps
    <3>2. c \notin retired' => Waiting(c)' = Waiting(c) BY <2>4, <3>1 DEF Waiting
    <3>3. QED BY <2>2, <2>4, <3>1, <3>2
  <2>5. CASE DropStale
    <3>1. /\ pos \in 1..Len(queue) /\ queue' = RemoveAt(queue, pos) /\ Stale(queue[pos])
          /\ UNCHANGED <<seq, retired, waiting>>
      BY <1>2, <2>5, Looking DEF DropStale, Types, sendVars, lifeVars
    <3>2. \A m : m \in ToSet(queue') <=> m \in ToSet(queue) /\ m # queue[pos]
      BY <1>2, <3>1, Taken
    <3>3. Waiting(c)' = Waiting(c) BY <3>1, <3>2 DEF Waiting, Stale
    <3>4. QED BY <2>2, <3>1, <3>3
  <2>6. CASE TakeOut
    <3>1. /\ pos \in 1..Len(queue) /\ queue' = RemoveAt(queue, pos)
          /\ UNCHANGED <<seq, retired>> /\ waiting' = [waiting EXCEPT ![at[Sender]] = @ - 1]
          /\ queue[pos].conn = at[Sender]
          /\ at[Sender] \notin retired => queue[pos].seq = seq[at[Sender]]
      BY <1>2, <2>6, Looking DEF TakeOut, Types, lifeVars, SenderAt, Found
    <3>2. \A m : m \in ToSet(queue') <=> m \in ToSet(queue) /\ m # queue[pos]
      BY <1>2, <3>1, Taken
    <3>3. CASE c # at[Sender]
      <4>1. Waiting(c)' = Waiting(c) BY <3>1, <3>2, <3>3 DEF Waiting
      <4>2. waiting'[c] = waiting[c] BY <3>1, <3>3 DEF Types, ConnTypes
      <4>3. QED BY <2>2, <3>1, <4>1, <4>2
    <3>4. CASE c = at[Sender]
      <4>1. waiting'[c] = waiting[c] - 1 BY <3>1, <3>4 DEF Types, ConnTypes
      <4>2. c \notin retired =>
              queue[pos] \in Waiting(c) /\ Waiting(c)' = Waiting(c) \ {queue[pos]}
        BY <1>2, <3>1, <3>2, <3>4, Elements DEF Waiting
      <4>3. c \notin retired => Cardinality(Waiting(c)') = Cardinality(Waiting(c)) - 1
        BY <2>1, <4>2, FS_RemoveElement
      <4>4. QED BY <1>4, <2>1, <3>1, <4>1, <4>3
    <3>5. QED BY <3>3, <3>4
  <2>7. ASSUME NEW d \in Conns, MsgSend(d), queue' = Append(queue, AnswerFor(d))
        PROVE  /\ waiting'[c] <= ConnCap' + 1
               /\ c \notin retired' => waiting'[c] = Cardinality(Waiting(c)')
    <3> DEFINE e == AnswerFor(d)
    <3>1. /\ e \in Msgs /\ e.conn = d /\ (d \notin retired => e.seq = seq[d])
          /\ \A i \in 1..Len(queue) : queue[i].id < e.id
      <4>1. e \in Msgs /\ e.id = made + 1 BY <2>7, AnswerTyped DEF MsgSend, Types, AnswerFor
      <4>2. made \in Int /\ \A i \in 1..Len(queue) : queue[i].id \in Int
        BY <1>3, MsgFields DEF Types, QueueTypes
      <4>3. QED BY <4>1, <4>2 DEF AnswerFor, Owned, AllMade
    <3>2. /\ UNCHANGED <<seq, retired>> /\ waiting' = [waiting EXCEPT ![d] = @ + 1]
          /\ ~(waiting[d] > ConnCap)
      <4>1. queue' # queue
        <5>1. Len(queue') = Len(queue) + 1 BY <1>2, <2>7 DEF QueueTypes
        <5>2. QED BY <1>4, <5>1
      <4>2. QED BY <2>7, <4>1 DEF MsgSend, queueVars, lifeVars
    <3> HIDE DEF e
    <3>3. \A m : m \in ToSet(queue') <=> m \in ToSet(queue) \/ m = e
      BY <1>2, <2>7, <3>1, Added DEF e
    <3>4. CASE c # d
      <4>1. Waiting(c)' = Waiting(c) BY <3>1, <3>2, <3>3, <3>4 DEF Waiting
      <4>2. waiting'[c] = waiting[c] BY <3>2, <3>4 DEF Types, ConnTypes
      <4>3. QED BY <2>2, <3>2, <4>1, <4>2
    <3>5. CASE c = d
      <4>1. waiting'[c] = waiting[c] + 1 BY <3>2, <3>5 DEF Types, ConnTypes
      <4>2. e \notin ToSet(queue)
        <5>1. \A m \in ToSet(queue) : m.id < e.id /\ m.id \in Int /\ e.id \in Int
          BY <1>2, <1>3, <3>1, Elements, MsgFields
        <5>2. QED BY <5>1
      <4>3. c \notin retired => e \notin Waiting(c) /\ Waiting(c)' = Waiting(c) \cup {e}
        BY <3>1, <3>2, <3>3, <3>5, <4>2 DEF Waiting
      <4>4. c \notin retired => Cardinality(Waiting(c)') = Cardinality(Waiting(c)) + 1
        BY <2>1, <4>3, FS_AddElement
      <4>5. QED BY <1>4, <2>1, <3>2, <3>5, <4>1, <4>4
    <3>6. QED BY <3>4, <3>5
  <2>8. ASSUME queue' = queue, ~Reuse(c) PROVE waiting'[c] = waiting[c]
    <3>1. ASSUME NEW d \in Conns, MsgSend(d), queue' = queue PROVE UNCHANGED waiting
      <4>1. queue' # Append(queue, AnswerFor(d)) BY <3>1, <1>2, <1>4 DEF QueueTypes
      <4>2. QED BY <3>1, <4>1 DEF MsgSend
    <3>2. ASSUME NEW d \in Conns, Reuse(d), ~Reuse(c) PROVE waiting'[c] = waiting[c]
      <4>1. d # c /\ waiting' = [waiting EXCEPT ![d] = 0] BY <3>2 DEF Reuse
      <4>2. QED BY <4>1 DEF Types, ConnTypes
    <3>3. ~TakeOut
      <4>1. ASSUME TakeOut PROVE FALSE
        <5>1. pos \in 1..Len(queue) /\ queue' = RemoveAt(queue, pos)
          BY <1>2, <4>1, Looking DEF TakeOut, Types, SenderAt, Found
        <5>2. Len(queue') = Len(queue) - 1 BY <1>2, <5>1, Taken
        <5>3. QED BY <1>4, <2>8, <5>2
      <4>2. QED BY <4>1
    <3>4. QED
      BY <2>8, <3>1, <3>2, <3>3, MainAlone, CloserAlone
      DEF Next, Types, SenderStep, ClientStep, sendVars, Wake, StartPass, EndPass,
          DropStale, FindCurrent, Skip, SendDone, SendPart, Release, ClearSent, Raise,
          ArmOut, Kick, ClientSends, ClientReads, ClientEnds, ClientResets, SendPipe
  <2>9. QED BY <2>3, <2>4, <2>5, <2>6, <2>7, <2>8, QueueSteps
<1>7. QED BY <1>1, <1>5, <1>6 DEF Backlog, BacklogExact

-----------------------------------------------------------------------------
(* The pass of the send thread.                                            *)

(* A step keeps what is stale ahead of the pass.                           *)
LEMMA StepPass ==
  ASSUME Types, Types', Places, Found, Owned, Seqs, Pass, Next
  PROVE  Pass'
<1> USE Kinds, NamesAssumption DEF Types, NamesAssumption
<1> DEFINE Resting == pc[Sender] \in {"sem", "woken"}
           k == IF pc[Sender] = "current" THEN pos + 1 ELSE pos
           After(m) == seq'[m.conn] # m.seq
<1>1. /\ queue \in Seq(Msgs) /\ Len(queue) \in Nat /\ pos \in Nat /\ InOrder
      /\ \A i \in 1..Len(queue) : queue[i] \in Msgs /\ MadeBefore(queue[i])
  BY DEF QueueTypes, ThreadTypes, Owned, Seqs
<1>2. \A i \in 1..Len(queue) : Stale(queue[i]) => After(queue[i])
  <2>1. \A m \in Msgs : MadeBefore(m) => (Stale(m) => After(m)) BY StaleStays DEF Stale
  <2>2. QED BY <1>1, <2>1
<1>3. ASSUME UNCHANGED <<queue, pos, doomed>>, pc'[Sender] = pc[Sender] PROVE Pass'
  <2>1. CASE Resting BY <1>3, <2>1 DEF Pass
  <2>2. CASE ~Resting
    <3>1. \A m \in doomed : \E i \in k..Len(queue) : queue[i].id = m /\ Stale(queue[i])
      BY <2>2 DEF Pass, StillDoomed
    <3>2. \A m \in doomed : \E i \in k..Len(queue) : queue[i].id = m /\ After(queue[i])
      <4>1. k \in Nat \ {0} BY DEF ThreadTypes
      <4>2. \A i \in k..Len(queue) : i \in 1..Len(queue) BY <1>1, <4>1
      <4>3. QED BY <1>2, <3>1, <4>2
    <3>3. QED BY <1>3, <2>2, <3>2 DEF Pass, StillDoomed, Stale
  <2>3. QED BY <2>1, <2>2
<1>4. CASE SenderStep
  <2>1. seq' = seq BY <1>4, SenderAlone
  <2>2. CASE Wake
    <3>1. Resting /\ pc'[Sender] = "woken" /\ doomed' = doomed
      BY <2>2 DEF Wake, SenderAt, Goto, ThreadTypes, passVars
    <3>2. QED BY <3>1 DEF Pass
  <2>3. CASE StartPass
    <3>1. CASE queue = <<>> /\ Goto(Sender, "sem") /\ UNCHANGED passVars
      BY <2>3, <3>1 DEF StartPass, SenderAt, Goto, ThreadTypes, passVars, Pass
    <3>2. CASE /\ pos' = 1 /\ Goto(Sender, "look")
               /\ doomed' = {m.id : m \in {n \in ToSet(queue) : Stale(n)}}
      <4>1. pc'[Sender] = "look" /\ queue' = queue
        BY <2>3, <3>2 DEF StartPass, Goto, ThreadTypes
      <4>2. \A m \in doomed' : \E i \in 1..Len(queue) : queue[i].id = m /\ Stale(queue[i])
        BY <3>2, Elements
      <4>3. QED BY <2>1, <3>2, <4>1, <4>2 DEF Pass, StillDoomed, Stale
    <3>3. QED BY <2>3, <3>1, <3>2 DEF StartPass
  <2>4. CASE EndPass
    <3>1. pc[Sender] = "look" /\ pos > Len(queue) /\ pc'[Sender] = "sem" /\ doomed' = doomed
      BY <2>4 DEF EndPass, SenderAt, Goto, ThreadTypes
    <3>2. doomed = {} BY <1>1, <3>1 DEF Pass, StillDoomed
    <3>3. QED BY <3>1, <3>2 DEF Pass
  <2>5. CASE DropStale \/ TakeOut
    <3>1. /\ pos \in 1..Len(queue) /\ queue' = RemoveAt(queue, pos) /\ pos' = pos
          /\ pc'[Sender] \notin {"sem", "woken", "current"}
          /\ doomed' \subseteq doomed
      BY <2>5, Looking
      DEF DropStale, TakeOut, SenderAt, Goto, ThreadTypes, Found, thrVars, passVars
    <3>2. /\ Len(queue') = Len(queue) - 1
          /\ \A j \in 1..Len(queue') : queue'[j] = IF j < pos THEN queue[j] ELSE queue[j + 1]
      BY <1>1, <3>1, Taken
    <3>3. \A m \in doomed' : \E i \in pos + 1..Len(queue) :
            queue[i].id = m /\ Stale(queue[i])
      <4>1. CASE DropStale
        <5>1. pc[Sender] = "look" /\ doomed' = doomed \ {queue[pos].id}
          BY <4>1 DEF DropStale, SenderAt
        <5>2. \A m \in doomed : \E i \in pos..Len(queue) :
                queue[i].id = m /\ Stale(queue[i])
          BY <5>1 DEF Pass, StillDoomed
        <5>3. \A i \in pos..Len(queue) : i \in pos + 1..Len(queue) \/ i = pos
          BY <1>1
        <5>4. QED BY <5>1, <5>2, <5>3
      <4>2. CASE TakeOut
        BY <3>1, <4>2 DEF TakeOut, SenderAt, Pass, StillDoomed
      <4>3. QED BY <2>5, <4>1, <4>2
    <3>4. ASSUME NEW m \in doomed'
          PROVE  \E j \in pos..Len(queue') : queue'[j].id = m /\ Stale(queue'[j])
      <4>1. PICK i \in pos + 1..Len(queue) : queue[i].id = m /\ Stale(queue[i])
        BY <3>3
      <4>2. i - 1 \in pos..Len(queue') /\ i - 1 \in 1..Len(queue') /\ ~(i - 1 < pos)
            /\ (i - 1) + 1 = i
        BY <1>1, <3>1, <3>2
      <4>3. queue'[i - 1] = queue[i] BY <3>2, <4>2
      <4>4. QED BY <4>1, <4>2, <4>3
    <3>5. QED BY <2>1, <3>1, <3>4 DEF Pass, StillDoomed, Stale
  <2>6. CASE FindCurrent
    <3>1. /\ pc[Sender] = "look" /\ pc'[Sender] = "current" /\ ~Stale(queue[pos])
          /\ UNCHANGED <<queue, pos, doomed>>
      BY <2>6 DEF FindCurrent, SenderAt, Goto, ThreadTypes, queueVars, passVars
    <3>2. \A m \in doomed : \E i \in pos..Len(queue) : queue[i].id = m /\ Stale(queue[i])
      BY <3>1 DEF Pass, StillDoomed
    <3>3. \A i \in pos..Len(queue) : i \in pos + 1..Len(queue) \/ i = pos BY <1>1
    <3>4. \A m \in doomed : \E i \in pos + 1..Len(queue) :
            queue[i].id = m /\ Stale(queue[i])
      BY <3>1, <3>2, <3>3
    <3>5. QED BY <2>1, <3>1, <3>4 DEF Pass, StillDoomed, Stale
  <2>7. CASE Skip
    <3>1. /\ pc[Sender] = "current" /\ pc'[Sender] = "look" /\ pos' = pos + 1
          /\ UNCHANGED <<queue, doomed>>
      BY <2>7 DEF Skip, SenderAt, Goto, ThreadTypes, queueVars
    <3>2. QED BY <2>1, <3>1 DEF Pass, StillDoomed, Stale
  <2>8. CASE SendDone \/ SendPart \/ Release \/ ClearSent \/ Raise \/ ArmOut
    <3>1. /\ pc[Sender] \notin {"sem", "woken", "current"}
          /\ pc'[Sender] \notin {"sem", "woken", "current"}
          /\ UNCHANGED <<queue, pos, doomed>>
      BY <2>8
      DEF SendDone, SendPart, Release, ClearSent, Raise, ArmOut, SenderAt, Goto, ThreadTypes,
          queueVars, passVars
    <3>2. QED BY <2>1, <3>1 DEF Pass, StillDoomed, Stale
  <2>9. QED
    BY <1>4, <2>2, <2>3, <2>4, <2>5, <2>6, <2>7, <2>8 DEF SenderStep
<1>5. CASE MainStep BY <1>3, <1>5, MainAlone DEF OthersStay
<1>6. ASSUME NEW t \in Closers, CloseStep(t) PROVE Pass'
  BY <1>3, <1>6, CloserAlone DEF OthersStay
<1>7. ASSUME NEW c \in Conns, MsgSend(c) PROVE Pass'
  <2>1. Resting /\ pc'[Sender] = pc[Sender] /\ doomed' = doomed
    BY <1>7 DEF MsgSend, Places, Goto, thrVars, ThreadTypes, passVars
  <2>2. QED BY <2>1 DEF Pass
<1>8. ASSUME NEW c \in Conns, Kick(c) PROVE Pass'
  <2>1. UNCHANGED <<queue, pos, doomed>> /\ pc'[Sender] = pc[Sender]
    BY <1>8 DEF Kick, Goto, queueVars, passVars, ThreadTypes
  <2>2. QED BY <1>3, <2>1
<1>9. CASE \/ \E c \in Conns : Reuse(c) \/ ClientStep(c)
           \/ \E t \in {Main, Sender} : SendPipe(t)
  <2>1. UNCHANGED <<queue, pos, doomed, pc>>
    BY <1>9
    DEF Reuse, ClientStep, ClientSends, ClientReads, ClientEnds, ClientResets, SendPipe,
        queueVars, passVars, thrVars
  <2>2. QED BY <1>3, <2>1
<1>10. QED BY <1>4, <1>5, <1>6, <1>7, <1>8, <1>9 DEF Next

-----------------------------------------------------------------------------
(* The invariant holds at first.                                           *)
LEMMA InitInv ==
  ASSUME Init
  PROVE  SendInv
<1> USE Kinds, NamesAssumption DEF Init, NamesAssumption
<1>1. QueueTypes BY SizesAssumption DEF QueueTypes, SizesAssumption, Ids
<1>2. ConnTypes BY SizesAssumption DEF ConnTypes, SizesAssumption
<1>3. SocketTypes
  <2>1. Room \in 0..Room /\ <<>> \in Seq(Msgs \cup {Nobody})
    BY SizesAssumption DEF SizesAssumption
  <2>2. QED BY <2>1 DEF SocketTypes, PeerStates
<1>4. ThreadTypes BY DEF ThreadTypes, SenderPlaces, MainPlaces
<1>5. pc[Sender] = "sem" /\ (\A t \in Closers : pc[t] = "idle") /\ \A t \in Threads : at[t] = Nobody
  OBVIOUS
<1>6. Places BY <1>5 DEF Places, SenderPlaces, MainPlaces, CloserPlaces
<1>7. Sockets BY <1>5 DEF Sockets
<1>8. Found BY <1>5 DEF Found
<1>9. \A c \in Conns : at[Sender] # c /\ at[Main] # c /\ throw[c] = 0 /\ psend[c] = Nobody
  BY <1>5
<1>10. Turns /\ Aparts
  BY <1>5, <1>9
  DEF Turns, Aparts, Turn, Apart, SenderHas, SenderAtConn, MainOwes, MainAtConn
<1>11. Lefts BY <1>9 DEF Lefts, LeftOK, SenderAtConn
<1>12. Owned
  <2>1. Len(queue) = 0 OBVIOUS
  <2>2. \A m \in Ids : ~InQueue(m) /\ ~InSending(m) /\ freed[m] = 0 /\ ~(m <= made)
    BY <1>9, <2>1 DEF InQueue, InSending, HeldBy, Ids
  <2>3. QED
    BY <1>9, <2>1, <2>2 DEF Owned, InOrder, AllMade, OneEach, SentFrom, FreedOnce
<1>13. Seqs
  <2>1. Len(queue) = 0 /\ \A c \in Conns : Len(wire[c]) = 0 OBVIOUS
  <2>2. QED BY <1>9, <2>1 DEF Seqs, SentToItsOwn, OnlyItsOwn
<1>14. Backlog
  <2>1. caps \in Nat \X Nat BY SizesAssumption DEF SizesAssumption
  <2>2. ToSet(queue) = {} /\ Len(queue) = 0 BY DEF ToSet
  <2>3. \A c \in Conns : Waiting(c) = {} BY <2>2 DEF Waiting
  <2>4. \A c \in Conns : waiting[c] = 0 /\ waiting[c] = Cardinality(Waiting(c))
    BY <2>3, FS_EmptySet
  <2>5. QED BY <2>1, <2>2, <2>4 DEF Backlog, BacklogExact, QueueCap, ConnCap
<1>15. Pass BY <1>5 DEF Pass
<1>16. QED
  BY <1>1, <1>2, <1>3, <1>4, <1>6, <1>7, <1>8, <1>10, <1>11, <1>12, <1>13, <1>14, <1>15
  DEF SendInv, Types

(* The invariant is about the variables only.                              *)
LEMMA StutterInv ==
  ASSUME SendInv, UNCHANGED <<vars, caps>>
  PROVE  SendInv'
<1> USE DEF SendInv, vars, queueVars, sendVars, lifeVars, sockVars, peerVars, histVars,
            passVars, thrVars
<1>1. Types' BY DEF Types, QueueTypes, ConnTypes, SocketTypes, ThreadTypes
<1>2. Places' /\ Sockets' /\ Found' BY DEF Places, Sockets, Found
<1>3. Turns' /\ Aparts'
  BY DEF Turns, Aparts, Turn, Apart, Abandoned, SenderHas, SenderAtConn, MainOwes,
         MainAtConn
<1>4. Lefts' BY DEF Lefts, LeftOK, SenderAtConn, MainAtConn
<1>5. Owned'
  BY DEF Owned, InOrder, AllMade, OneEach, SentFrom, FreedOnce, InQueue, InSending,
         HeldBy, Clearing, Clearers, Abandoned, SenderAtConn, MainAtConn
<1>6. Seqs' BY DEF Seqs, MadeBefore, SentToItsOwn, OnlyItsOwn
<1>7. Backlog' BY DEF Backlog, BacklogExact, QueueCap, ConnCap, Waiting
<1>8. Pass' BY DEF Pass, StillDoomed, Stale
<1>9. QED BY <1>1, <1>2, <1>3, <1>4, <1>5, <1>6, <1>7, <1>8

(* The inductive invariant holds throughout.                               *)
THEOREM SendInvariant ==
  ASSUME ~UnreadAtEof
  PROVE  Safe => []SendInv
<1>1. Init => SendInv BY InitInv
<1>2. SendInv /\ [Next]_<<vars, caps>> => SendInv'
  <2>1. ASSUME SendInv, Next PROVE SendInv'
    <3>1. Types' BY <2>1, StepTypes DEF SendInv
    <3>2. Places' BY <2>1, <3>1, StepPlaces DEF SendInv, Types
    <3>3. Sockets' BY <2>1, <3>1, StepSockets DEF SendInv
    <3>4. Found' BY <2>1, <3>1, StepFound DEF SendInv
    <3>5. Turns' BY <2>1, StepTurns DEF SendInv
    <3>12. Aparts' BY <2>1, <3>3, <3>5, StepAparts DEF SendInv
    <3>6. Lefts' BY <2>1, <3>1, StepLefts DEF SendInv
    <3>7. Owned' BY <2>1, <3>1, StepOwned DEF SendInv
    <3>8. Seqs' BY <2>1, <3>1, StepSeqs DEF SendInv
    <3>9. Backlog' BY <2>1, <3>1, StepBacklog DEF SendInv
    <3>10. Pass' BY <2>1, <3>1, StepPass DEF SendInv
    <3>11. QED
      BY <3>1, <3>2, <3>3, <3>4, <3>5, <3>6, <3>7, <3>8, <3>9, <3>10, <3>12
      DEF SendInv
  <2>2. QED BY <2>1, StutterInv
<1>3. QED BY <1>1, <1>2, PTL DEF Safe

(* The types, and the mutex is with whoever is in a section it guards.     *)
THEOREM SendTypes ==
  ASSUME ~UnreadAtEof
  PROVE  Safe => []TypeOK
<1>1. SendInv => TypeOK
  BY DEF SendInv, Types, QueueTypes, ConnTypes, SocketTypes, Places, TypeOK
<1>2. QED BY <1>1, SendInvariant, PTL

(* The two senders share the fields of a connection without a lock.  Never *)
(* is the send thread at work on them while the epoll thread has begun an  *)
(* event on which it will send, unless the connection is being given back; *)
(* and what they meet on there has gone astray.                            *)
THEOREM OneSender ==
  ASSUME ~UnreadAtEof
  PROVE  Safe => [](\A c \in Conns : SenderHas(c) /\ MainOwes(c) =>
                      Abandoned(c) /\ (psend[c] = Nobody \/ psend[c].id \in stray))
<1>1. ASSUME SendInv, NEW c \in Conns, SenderHas(c), MainOwes(c)
      PROVE  Abandoned(c) /\ (psend[c] = Nobody \/ psend[c].id \in stray)
  BY <1>1 DEF SendInv, Turns, Turn, Aparts, Apart
<1>2. SendInv => \A c \in Conns : SenderHas(c) /\ MainOwes(c) =>
        Abandoned(c) /\ (psend[c] = Nobody \/ psend[c].id \in stray)
  BY <1>1
<1>3. QED BY <1>2, SendInvariant, PTL

(* The buffer of an answer is with the queue, with one connection, or      *)
(* freed, and freed once.  One that has gone astray is out of the queue,   *)
(* and freed twice at most.                                                *)
THEOREM BuffersOwned ==
  ASSUME ~UnreadAtEof
  PROVE  Safe => []EveryBufferOwned
<1> DEFINE Holds(m) == {c \in Sending(m) : ~Clearing(c)}
<1>1. ASSUME SendInv, NEW m \in Ids, m \notin stray
      PROVE  freed[m] + (Cardinality(Queued(m)) + Cardinality(Holds(m)))
               = (IF m <= made THEN 1 ELSE 0)
  <2>1. InOrder /\ AllMade /\ OneEach /\ FreedOnce(m) /\ \A c \in Conns : SentFrom(c)
    BY <1>1 DEF SendInv, Owned
  <2>2. \A i \in 1..Len(queue) : queue[i].id \in Int
    <3>1. \A i \in 1..Len(queue) : queue[i] \in Msgs
      BY <1>1 DEF SendInv, Types, QueueTypes
    <3>2. QED BY <3>1, MsgFields
  <2>3. CASE InQueue(m)
    <3>1. PICK i \in 1..Len(queue) : queue[i].id = m BY <2>3 DEF InQueue
    <3>2. \A j \in 1..Len(queue) \ {i} : queue[j].id # m
      BY <2>1, <2>2, <3>1 DEF InOrder
    <3>3. Queued(m) = {i} BY <3>1, <3>2 DEF Queued
    <3>4. Holds(m) = {} BY <2>1, <2>3 DEF Sending, SentFrom
    <3>5. m <= made
      <4>1. queue[i].id <= made BY <2>1 DEF AllMade
      <4>2. QED BY <3>1, <4>1
    <3>6. freed[m] = 0 BY <2>1, <2>3 DEF FreedOnce
    <3>7. Cardinality(Queued(m)) = 1 BY <3>3, FS_Singleton
    <3>8. Cardinality(Holds(m)) = 0 BY <3>4, FS_EmptySet
    <3>9. QED BY <3>5, <3>6, <3>7, <3>8
  <2>4. CASE ~InQueue(m) /\ InSending(m)
    <3>1. PICK c \in Conns : HeldBy(c, m) /\ ~Clearing(c) BY <2>4 DEF InSending
    <3>2. Holds(m) = {c} BY <2>1, <3>1 DEF Sending, OneEach, HeldBy
    <3>3. Queued(m) = {} BY <2>4 DEF Queued, InQueue
    <3>4. m <= made BY <2>1, <3>1 DEF SentFrom, HeldBy
    <3>5. freed[m] = 0 BY <2>1, <2>4 DEF FreedOnce
    <3>6. Cardinality(Holds(m)) = 1 BY <3>2, FS_Singleton
    <3>7. Cardinality(Queued(m)) = 0 BY <3>3, FS_EmptySet
    <3>8. QED BY <3>4, <3>5, <3>6, <3>7
  <2>5. CASE ~InQueue(m) /\ ~InSending(m)
    <3>1. Queued(m) = {} /\ Holds(m) = {}
      BY <2>5 DEF Queued, Sending, InQueue, InSending, HeldBy
    <3>2. freed[m] = IF m <= made THEN 1 ELSE 0 BY <2>1, <2>5 DEF FreedOnce
    <3>3. Cardinality(Holds(m)) = 0 /\ Cardinality(Queued(m)) = 0 BY <3>1, FS_EmptySet
    <3>4. QED BY <3>2, <3>3
  <2>6. QED BY <2>3, <2>4, <2>5
<1>2. ASSUME SendInv, NEW m \in stray
      PROVE  m <= made /\ Queued(m) = {} /\ freed[m] <= 2
  <2>1. m \in Ids /\ Owned BY <1>2 DEF SendInv, Types, QueueTypes
  <2>2. Queued(m) = {} BY <2>1 DEF Owned, AllMade, Queued
  <2>3. QED BY <2>1, <2>2 DEF Owned
<1>3. SendInv => EveryBufferOwned BY <1>1, <1>2 DEF EveryBufferOwned
<1>4. QED BY <1>3, SendInvariant, PTL

(* No client is sent an answer that was made for the client before it.     *)
THEOREM AnswersReachTheirClient ==
  ASSUME ~UnreadAtEof
  PROVE  Safe => []OnlyItsOwn
<1>1. SendInv => OnlyItsOwn BY DEF SendInv, Seqs
<1>2. QED BY <1>1, SendInvariant, PTL

(* iSendCount is the number of answers that wait for the client that is    *)
(* there now, and neither it nor the queue grows past its limit.           *)
THEOREM BacklogsExact ==
  ASSUME ~UnreadAtEof
  PROVE  Safe => []BacklogExact
<1>1. SendInv => BacklogExact BY DEF SendInv, Backlog
<1>2. QED BY <1>1, SendInvariant, PTL

(* A pass drops everything that was stale when it began.                   *)
THEOREM StaleGo ==
  ASSUME ~UnreadAtEof
  PROVE  Safe => []PassDropsStale
<1>1. SendInv => PassDropsStale BY DEF SendInv, Pass, PassDropsStale
<1>2. QED BY <1>1, SendInvariant, PTL

-----------------------------------------------------------------------------
(***************************************************************************)
(* The stream of bytes a client is sent, for any number of connections,    *)
(* answers and reuses, any size of an answer and of the buffers, and any   *)
(* limits: whole answers, one after the other, each once, and none before  *)
(* the first - although the send thread and the epoll thread take turns at *)
(* one answer, and send as much of it as the socket takes.                 *)
(*                                                                         *)
(* The proof rests on SendInv, in particular on whose turn it is, and on   *)
(* its assumption.  To it comes what relates the stream to the answer      *)
(* underway, to the queue and to the place of the pass: Streams.           *)
(***************************************************************************)

(* The numbers of the answers a client was sent pieces of: none of them is *)
(* in the queue any more.                                                  *)
SentIds == \A c \in Conns : \A i \in 1..Len(wire[c]) :
  wire[c][i] \in Msgs /\ wire[c][i].id <= made /\ ~InQueue(wire[c][i].id)

(* A stream of pieces that is a number of whole answers long.              *)
Whole(n) == \E k \in Nat : n = k * PkgLen

(* How a stream divides into answers, of which the first is the oldest.    *)
Divided(w) == \A i, j \in 1..Len(w) :
  (i - 1) \div PkgLen = (j - 1) \div PkgLen <=> w[i].id = w[j].id
FirstLeast(w) == \A j \in 1..Len(w) : w[1].id <= w[j].id

(* Answer m, of which l pieces are left to send, ends where an answer has  *)
(* to end; it is new to the client, or the last piece sent was of it.      *)
Continues(w, l, m) ==
  /\ Whole(Len(w) + l)
  /\ IF l = PkgLen THEN \A i \in 1..Len(w) : w[i].id # m.id
                   ELSE Len(w) > 0 /\ w[Len(w)].id = m.id
Continued(c) ==
  IF psend[c] = Nobody THEN Whole(Len(wire[c]))
                       ELSE Continues(wire[c], left[c], psend[c])

(* A thread that is to free the answer has sent all of it.                 *)
SenderFrees(c) == SenderAtConn(c, {"release", "clear"})
MainFrees(c) == MainAtConn(c, {"disarm", "free", "clear"})
SentAll(c) ==
  /\ SenderFrees(c) \/ MainFrees(c) => left[c] = 0
  /\ MainAtConn(c, {"lower"}) => wire[c] # <<>>

(* Of the answers for the client that is there, the first one sent is      *)
(* older than those in the queue; while there is none yet, the pass has    *)
(* not left one behind.                                                    *)
ForClient(c, m) == m.conn = c /\ m.seq = seq[c]
Ahead(c) == \A i \in 1..Len(queue) : ForClient(c, queue[i]) =>
  IF wire[c] # <<>> THEN wire[c][1].id < queue[i].id
  ELSE IF psend[c] # Nobody THEN psend[c].id < queue[i].id
  ELSE pc[Sender] \notin {"sem", "woken"} => i >= pos
FirstOldest(c) ==
  psend[c] # Nobody /\ wire[c] # <<>> => wire[c][1].id <= psend[c].id

Streams ==
  /\ SentIds
  /\ \A c \in Conns : Divided(wire[c]) /\ FirstLeast(wire[c])
  /\ \A c \in open : Continued(c) /\ SentAll(c) /\ Ahead(c) /\ FirstOldest(c)

-----------------------------------------------------------------------------
(* Which answer a piece belongs to.                                        *)
LEMMA AnswerOf ==
  ASSUME NEW k \in Nat, NEW x \in Nat
  PROVE  x \div PkgLen = k <=> k * PkgLen <= x /\ x < (k + 1) * PkgLen
<1>1. PkgLen \in Nat /\ PkgLen > 0 BY SizesAssumption DEF SizesAssumption
<1> DEFINE q == x \div PkgLen
<1>2. q \in Int /\ q * PkgLen <= x /\ x < (q + 1) * PkgLen BY <1>1
<1> HIDE DEF q
<1>3. \A y, z \in Int : y + 1 <= z => (y + 1) * PkgLen <= z * PkgLen BY <1>1
<1>4. ASSUME k * PkgLen <= x, x < (k + 1) * PkgLen PROVE q = k
  <2>1. CASE q < k
    <3>1. (q + 1) * PkgLen <= k * PkgLen BY <1>2, <1>3, <2>1
    <3>2. (q + 1) * PkgLen \in Int /\ k * PkgLen \in Int BY <1>1, <1>2
    <3>3. QED BY <1>2, <1>4, <3>1, <3>2
  <2>2. CASE q > k
    <3>1. (k + 1) * PkgLen <= q * PkgLen BY <1>2, <1>3, <2>2
    <3>2. (k + 1) * PkgLen \in Int /\ q * PkgLen \in Int BY <1>1, <1>2
    <3>3. QED BY <1>2, <1>4, <3>1, <3>2
  <2>3. QED BY <1>2, <2>1, <2>2
<1>5. QED BY <1>2, <1>4 DEF q

(* The place of the last answer of a stream that is to be a number of      *)
(* whole answers long.                                                     *)
LEMMA LastAnswer ==
  ASSUME NEW len \in Nat, NEW l \in 0..PkgLen, Whole(len + l), len + l > 0
  PROVE  \E k \in Nat : /\ k * PkgLen \in Nat /\ len + l = k * PkgLen + PkgLen
                        /\ \A x \in Nat : x < len + l =>
                             (x \div PkgLen = k <=> k * PkgLen <= x)
<1>1. PkgLen \in Nat /\ PkgLen > 0 BY SizesAssumption DEF SizesAssumption
<1>2. PICK n \in Nat : len + l = n * PkgLen BY DEF Whole
<1>3. n # 0
  <2>1. CASE n = 0
    <3>1. n * PkgLen = 0 BY <1>1, <2>1
    <3>2. QED BY <1>2, <3>1
  <2>2. QED BY <2>1
<1> DEFINE k == n - 1
<1>4. k \in Nat /\ k + 1 = n BY <1>3
<1>5. n * PkgLen = k * PkgLen + PkgLen /\ k * PkgLen \in Nat
  BY <1>1, <1>4
<1> HIDE DEF k
<1>6. ASSUME NEW x \in Nat, x < len + l
      PROVE  x \div PkgLen = k <=> k * PkgLen <= x
  BY <1>2, <1>4, <1>6, AnswerOf
<1>7. QED BY <1>2, <1>4, <1>5, <1>6

(* A stream that is divided stays so when more is sent of the answer that  *)
(* is underway, and that is underway still.                                *)
LEMMA DividedGrows ==
  ASSUME NEW S, NEW w \in Seq(S), NEW v \in Seq(S), NEW m, NEW l \in 0..PkgLen,
         NEW n \in 0..l, Divided(w), Continues(w, l, m),
         Len(v) = Len(w) + n,
         \A i \in 1..Len(v) : v[i] = IF i <= Len(w) THEN w[i] ELSE m
  PROVE  Divided(v) /\ Continues(v, l - n, m)
<1>1. /\ PkgLen \in Nat /\ PkgLen > 0 /\ Len(w) \in Nat /\ Len(v) \in Nat
      /\ l \in Nat /\ n \in Nat /\ n <= l /\ l <= PkgLen
  BY SizesAssumption DEF SizesAssumption
<1>0. /\ Whole(Len(w) + l)
      /\ IF l = PkgLen THEN \A i \in 1..Len(w) : w[i].id # m.id
                       ELSE Len(w) > 0 /\ w[Len(w)].id = m.id
  BY DEF Continues
<1>2. Whole(Len(v) + (l - n))
  <2>1. Len(v) + (l - n) = Len(w) + l BY <1>1
  <2>2. QED BY <1>0, <2>1
<1>3. IF l - n = PkgLen THEN \A i \in 1..Len(v) : v[i].id # m.id
                        ELSE Len(v) > 0 /\ v[Len(v)].id = m.id
  <2>1. CASE n = 0
    <3>1. Len(v) = Len(w) /\ l - n = l BY <1>1, <2>1
    <3>2. \A i \in 1..Len(v) : v[i] = w[i] BY <1>1, <3>1
    <3>3. QED BY <1>0, <1>1, <3>1, <3>2
  <2>2. CASE n # 0
    <3>1. l - n # PkgLen /\ Len(v) > Len(w) /\ Len(v) \in 1..Len(v) BY <1>1, <2>2
    <3>2. v[Len(v)] = m BY <1>1, <3>1
    <3>3. QED BY <1>1, <3>1, <3>2
  <2>3. QED BY <2>1, <2>2
<1>4. CASE n = 0
  <2>1. Len(v) = Len(w) /\ \A i \in 1..Len(v) : v[i] = w[i] BY <1>1, <1>4
  <2>2. Divided(v) BY <2>1 DEF Divided
  <2>3. QED BY <1>2, <1>3, <2>2 DEF Continues
<1>5. CASE n # 0
  <2>1. Len(w) + l > 0 BY <1>1, <1>5
  <2>2. PICK k \in Nat : /\ k * PkgLen \in Nat /\ Len(w) + l = k * PkgLen + PkgLen
                         /\ \A x \in Nat : x < Len(w) + l =>
                              (x \div PkgLen = k <=> k * PkgLen <= x)
    BY ZenonT(40), <1>0, <1>1, <2>1, LastAnswer
  <2> DEFINE b == k * PkgLen
             InLast(i) == (i - 1) \div PkgLen = k
  <2>3. b \in Nat /\ Len(w) + l = b + PkgLen BY <2>2
  <2>4. \A i \in 1..Len(v) : InLast(i) <=> b < i
    <3> TAKE i \in 1..Len(v)
    <3>1. i - 1 \in Nat /\ i - 1 < Len(w) + l BY <1>1
    <3>2. InLast(i) <=> b <= i - 1 BY <2>2, <3>1
    <3> HIDE DEF b, InLast
    <3>3. QED BY <1>1, <2>3, <3>2
  <2> HIDE DEF b
  <2>5. \A i \in 1..Len(v) : InLast(i) <=> v[i].id = m.id
    <3> TAKE i \in 1..Len(v)
    <3>1. CASE i > Len(w)
      <4>1. v[i] = m BY <1>1, <3>1
      <4>2. b < i BY <1>1, <2>3, <3>1
      <4>3. QED BY <2>4, <4>1, <4>2
    <3>2. CASE i <= Len(w) /\ l = PkgLen
      <4>1. v[i] = w[i] /\ i \in 1..Len(w) BY <1>1, <3>2
      <4>2. v[i].id # m.id BY <1>0, <3>2, <4>1
      <4>3. ~(b < i) BY <1>1, <2>3, <3>2
      <4>4. QED BY <2>4, <4>2, <4>3
    <3>3. CASE i <= Len(w) /\ l # PkgLen
      <4>1. v[i] = w[i] /\ i \in 1..Len(w) /\ Len(w) \in 1..Len(w) /\ Len(w) \in 1..Len(v)
        BY <1>1, <3>3
      <4>2. w[Len(w)].id = m.id BY <1>0, <3>3
      <4>3. InLast(Len(w))
        <5>1. b < Len(w) BY <1>1, <2>3, <3>3
        <5>2. QED BY <2>4, <4>1, <5>1
      <4>4. (i - 1) \div PkgLen = (Len(w) - 1) \div PkgLen <=> w[i].id = w[Len(w)].id
        BY <4>1 DEF Divided
      <4>5. QED BY <4>1, <4>2, <4>3, <4>4
    <3>4. QED BY <1>1, <3>1, <3>2, <3>3
  <2>6. ASSUME NEW i \in 1..Len(v), NEW j \in 1..Len(v)
        PROVE  (i - 1) \div PkgLen = (j - 1) \div PkgLen <=> v[i].id = v[j].id
    <3>1. CASE i > Len(w)
      <4>1. v[i] = m /\ InLast(i) BY <1>1, <2>5, <3>1
      <4>2. QED BY <2>5, <4>1
    <3>2. CASE j > Len(w)
      <4>1. v[j] = m /\ InLast(j) BY <1>1, <2>5, <3>2
      <4>2. QED BY <2>5, <4>1
    <3>3. CASE i <= Len(w) /\ j <= Len(w)
      <4>1. i \in 1..Len(w) /\ j \in 1..Len(w) /\ v[i] = w[i] /\ v[j] = w[j]
        BY <1>1, <3>3
      <4>2. QED BY <4>1 DEF Divided
    <3>4. QED BY <1>1, <3>1, <3>2, <3>3
  <2>7. Divided(v) BY SMTT(30), <2>6 DEF Divided
  <2>8. QED BY <1>2, <1>3, <2>7 DEF Continues
<1>6. QED BY <1>4, <1>5

(* What a step does to a connection's sending.                             *)
LEMMA FieldSteps ==
  ASSUME Types, Places, Next, NEW c \in Conns
  PROVE  \/ wire'[c] = wire[c] /\ psend'[c] = psend[c] /\ left'[c] = left[c]
         \/ /\ TakeOut /\ c = at[Sender] /\ psend'[c] = queue[pos]
            /\ left'[c] = PkgLen /\ wire'[c] = wire[c]
         \/ /\ (ClearSent /\ c = at[Sender]) \/ (WriteClear /\ c = at[Main])
            /\ psend'[c] = Nobody /\ left'[c] = left[c] /\ wire'[c] = wire[c]
         \/ /\ c \in open /\ Transmit(c) /\ psend'[c] = psend[c]
            /\ \E t \in {Main, Sender} : pc[t] = "send" /\ at[t] = c
         \/ Reuse(c) /\ wire'[c] = <<>> /\ psend'[c] = Nobody /\ left'[c] = 0
<1> USE DEF Types
<1>1. CASE UNCHANGED <<wire, psend, left>> BY <1>1
<1>2. CASE SendDone \/ SendPart \/ WritePart \/ WriteDone
  <2>1. PICK t \in {Main, Sender} : pc[t] = "send" /\ Sends(at[t]) BY <1>2, SendSteps
  <2>2. psend'[c] = psend[c] BY <2>1 DEF Sends
  <2>3. CASE at[t] \notin open BY <1>1, <2>1, <2>3 DEF Sends
  <2>4. CASE at[t] \in open
    <3>1. at[t] \in Conns /\ Transmit(at[t]) BY <2>1, <2>4 DEF Sends
    <3>2. CASE at[t] = c BY <2>1, <2>2, <2>4, <3>1, <3>2
    <3>3. CASE at[t] # c BY <2>2, <3>1, <3>3, Sent
    <3>4. QED BY <3>2, <3>3
  <2>5. QED BY <2>3, <2>4
<1>3. ASSUME NEW d \in Conns, Reuse(d)
      PROVE  \/ wire'[c] = wire[c] /\ psend'[c] = psend[c] /\ left'[c] = left[c]
             \/ Reuse(c) /\ wire'[c] = <<>> /\ psend'[c] = Nobody /\ left'[c] = 0
  <2>1. /\ wire' = [wire EXCEPT ![d] = <<>>] /\ psend' = [psend EXCEPT ![d] = Nobody]
        /\ left' = [left EXCEPT ![d] = 0]
    BY <1>3 DEF Reuse, Clear
  <2>2. QED BY <1>3, <2>1 DEF SocketTypes, ConnTypes
<1>4. CASE TakeOut
  <2>1. /\ psend' = [psend EXCEPT ![at[Sender]] = queue[pos]] /\ UNCHANGED wire
        /\ left' = [left EXCEPT ![at[Sender]] = PkgLen]
    BY <1>4 DEF TakeOut, histVars
  <2>2. QED BY <1>4, <2>1 DEF ConnTypes
<1>5. CASE ClearSent \/ WriteClear
  <2>1. UNCHANGED <<wire, left>> BY <1>5 DEF ClearSent, WriteClear, histVars
  <2>2. \/ ClearSent /\ psend' = [psend EXCEPT ![at[Sender]] = Nobody]
        \/ WriteClear /\ psend' = [psend EXCEPT ![at[Main]] = Nobody]
    BY <1>5 DEF ClearSent, WriteClear, Clear
  <2>3. QED BY <2>1, <2>2 DEF ConnTypes
<1>6. QED
  BY <1>1, <1>2, <1>3, <1>4, <1>5
  DEF Next, SenderStep, MainStep, CloseStep, ClientStep, histVars, sendVars,
      Wake, StartPass, EndPass, DropStale, FindCurrent, Skip, Release, Raise,
      ArmOut, ReadSome, ReadEnd, NotWritable, HangUp, Write, DisarmOut, WriteFree,
      Lower, Post, EpollWait, MsgSend, Kick, ClientSends, ClientReads, ClientEnds,
      ClientResets, CloseSocket, Drop, Retire, SendPipe

-----------------------------------------------------------------------------
(* What holds of a connection whose socket is open.                        *)
LEMMA OpenConn ==
  ASSUME SendInv, NEW c \in open
  PROVE  /\ c \in Conns /\ c \notin retired /\ Turn(c) /\ LeftOK(c)
         /\ SenderHas(c) => ~MainOwes(c)
         /\ psend[c] # Nobody => psend[c] \in Msgs /\ psend[c].id <= made
                                   /\ ~InQueue(psend[c].id)
<1>1. c \in Conns /\ c \notin retired /\ ~Abandoned(c)
  BY DEF SendInv, Types, SocketTypes, Sockets, Abandoned
<1>2. Turn(c) /\ (SenderHas(c) => ~MainOwes(c)) BY <1>1 DEF SendInv, Turns, Turn
<1>3. LeftOK(c) BY DEF SendInv, Lefts
<1>4. psend[c] # Nobody => psend[c] \in Msgs
  BY <1>1 DEF SendInv, Types, ConnTypes
<1>5. psend[c] # Nobody => psend[c].id <= made /\ ~InQueue(psend[c].id)
  BY <1>1 DEF SendInv, Owned, SentFrom
<1>6. QED BY <1>1, <1>2, <1>3, <1>4, <1>5

(* The epoll thread owes a write while it is past send().                  *)
LEMMA MainPast ==
  ASSUME SendInv, NEW c \in Conns, MainAtConn(c, {"send", "disarm", "free", "clear", "lower"})
  PROVE  MainOwes(c)
BY DEF SendInv, Places, MainAtConn, MainOwes, MainPlaces

(* The types of one connection.                                            *)
LEMMA OneConn ==
  ASSUME SendInv, NEW c \in Conns
  PROVE  /\ left[c] \in 0..PkgLen /\ wire[c] \in Seq(Msgs \cup {Nobody})
         /\ Len(wire[c]) \in Nat /\ made \in Int
         /\ wire[c] = <<>> <=> Len(wire[c]) = 0
BY DEF SendInv, Types, ConnTypes, SocketTypes, QueueTypes

(* A socket opens for the next client only.                                *)
LEMMA OpenSteps ==
  ASSUME SendInv, Next, NEW c \in open', ~Reuse(c)
  PROVE  c \in open
<1> USE DEF SendInv, Types
<1>1. UNCHANGED open \/ (\E t \in Closers : open' = open \ {at[t]}) \/ \E d \in Conns : Reuse(d)
  BY SenderAlone, MainAlone
  DEF Next, CloseStep, ClientStep, sockVars, MsgSend, Kick, ClientSends, ClientReads,
      ClientEnds, ClientResets, CloseSocket, Drop, Retire, SendPipe
<1>2. ASSUME NEW d \in Conns, Reuse(d) PROVE c \in open
  BY <1>2 DEF Reuse
<1>3. QED BY <1>1, <1>2

(* The client of an open socket is the one that was there before the step. *)
LEMMA SameClient ==
  ASSUME SendInv, SendInv', Next, NEW c \in open', ~Reuse(c)
  PROVE  c \in open /\ c \in Conns /\ seq'[c] = seq[c]
<1>1. c \in open BY OpenSteps
<1>2. c \in Conns /\ c \notin retired BY <1>1, OpenConn
<1>3. c \notin retired' BY DEF SendInv, Sockets
<1>4. seq'[c] = seq[c] BY <1>2, <1>3, LifeSteps DEF SendInv
<1>5. QED BY <1>1, <1>2, <1>4

(* When a thread frees the answer of an open socket, all of it was sent.   *)
LEMMA FreesSent ==
  ASSUME SendInv, Streams, NEW c \in open, SenderFrees(c) \/ MainFrees(c),
         psend[c] # Nobody
  PROVE  left[c] = 0 /\ Whole(Len(wire[c])) /\ wire[c] # <<>>
<1>1. c \in Conns BY OpenConn
<1>2. left[c] = 0 BY DEF Streams, SentAll
<1>3. Continued(c) BY DEF Streams
<1>4. Len(wire[c]) \in Nat /\ Len(wire[c]) + left[c] = Len(wire[c]) /\ left[c] # PkgLen
  BY <1>1, <1>2, OneConn, SizesAssumption DEF SizesAssumption
<1>5. Whole(Len(wire[c])) /\ Len(wire[c]) > 0 BY <1>3, <1>4 DEF Continued, Continues
<1>6. wire[c] # <<>> BY <1>1, <1>5, OneConn
<1>7. QED BY <1>2, <1>5, <1>6

(* Whoever clears the pointer of a connection is about to free it, or has. *)
LEMMA ClearsFrees ==
  ASSUME NEW c, (ClearSent /\ c = at[Sender]) \/ (WriteClear /\ c = at[Main])
  PROVE  SenderFrees(c) \/ MainFrees(c)
BY DEF ClearSent, WriteClear, SenderAt, MainAt, SenderFrees, MainFrees, SenderAtConn,
       MainAtConn

(* When the send thread puts an answer there, there is none, and it is one *)
(* for the client that is there.                                           *)
LEMMA TakesFor ==
  ASSUME SendInv, TakeOut
  PROVE  /\ pos \in 1..Len(queue) /\ queue[pos] \in Msgs /\ pc[Sender] = "current"
         /\ queue' = RemoveAt(queue, pos) /\ pos' = pos
         /\ at[Sender] \in open =>
              psend[at[Sender]] = Nobody /\ ForClient(at[Sender], queue[pos])
<1> USE DEF SendInv, Types
<1>1. SenderAt("current") /\ throw[at[Sender]] <= 0 BY DEF TakeOut
<1>2. pos <= Len(queue) /\ queue[pos].conn = at[Sender]
        /\ (at[Sender] \notin retired => queue[pos].seq = seq[at[Sender]])
  BY <1>1 DEF SenderAt, Found
<1>3. pos \in 1..Len(queue) /\ queue[pos] \in Msgs BY <1>2, Looking
<1>4. ASSUME at[Sender] \in open
      PROVE  psend[at[Sender]] = Nobody /\ ForClient(at[Sender], queue[pos])
  <2>1. Turn(at[Sender]) /\ at[Sender] \notin retired BY <1>4, OpenConn
  <2>2. ~SenderHas(at[Sender]) BY <1>1 DEF SenderHas, SenderAtConn, SenderAt
  <2>3. throw[at[Sender]] # 1 BY <1>1, <2>1
  <2>4. psend[at[Sender]] = Nobody BY <2>1, <2>2, <2>3 DEF Turn
  <2>5. QED BY <1>2, <2>1, <2>4 DEF ForClient
<1>5. queue' = RemoveAt(queue, pos) /\ pos' = pos BY DEF TakeOut, passVars
<1>6. QED BY <1>1, <1>3, <1>4, <1>5 DEF SenderAt

(* More is sent to the client of an open socket.                           *)
LEMMA SentMore ==
  ASSUME SendInv, Streams, NEW c \in open, Transmit(c), psend'[c] = psend[c],
         NEW t \in {Main, Sender}, pc[t] = "send", at[t] = c
  PROVE  /\ psend[c] \in Msgs /\ psend[c] # Nobody /\ psend[c].id <= made
         /\ ~InQueue(psend[c].id)
         /\ Fits(c) \in 0..left[c] /\ left'[c] = left[c] - Fits(c)
         /\ Len(wire'[c]) = Len(wire[c]) + Fits(c)
         /\ wire'[c] \in Seq(Msgs \cup {Nobody})
         /\ \A i \in 1..Len(wire'[c]) :
              wire'[c][i] = IF i <= Len(wire[c]) THEN wire[c][i] ELSE psend[c]
         /\ Divided(wire'[c]) /\ Continued(c)'
<1>1. c \in Conns BY OpenConn
<1>2. psend[c] # Nobody BY SendersHaveIt DEF SendInv
<1>3. psend[c] \in Msgs /\ psend[c].id <= made /\ ~InQueue(psend[c].id)
  BY <1>2, OpenConn
<1>4. /\ Fits(c) \in 0..left[c] /\ left'[c] = left[c] - Fits(c)
      /\ Len(wire'[c]) = Len(wire[c]) + Fits(c)
      /\ wire'[c] \in Seq(Msgs \cup {Nobody})
      /\ \A i \in 1..Len(wire'[c]) :
           wire'[c][i] = IF i <= Len(wire[c]) THEN wire[c][i] ELSE psend[c]
  <2>1. left[c] \in Nat BY <1>1, OneConn, SizesAssumption DEF SizesAssumption
  <2>2. Fits(c) \in Nat /\ Fits(c) <= left[c] BY <1>1, Sent DEF SendInv, Types
  <2>3. Fits(c) \in 0..left[c] BY <2>1, <2>2
  <2>4. QED BY <1>1, <2>3, Sent DEF SendInv, Types
<1>5. Divided(wire[c]) /\ Continued(c) BY <1>1 DEF Streams
<1>6. wire[c] \in Seq(Msgs \cup {Nobody}) /\ left[c] \in 0..PkgLen
  BY <1>1, OneConn
<1>7. Continues(wire[c], left[c], psend[c]) BY <1>2, <1>5 DEF Continued
<1>8. Divided(wire'[c]) /\ Continues(wire'[c], left[c] - Fits(c), psend[c])
  <2>1. /\ wire'[c] \in Seq(Msgs \cup {Nobody})
        /\ Fits(c) \in 0..left[c] /\ Len(wire'[c]) = Len(wire[c]) + Fits(c)
        /\ \A i \in 1..Len(wire'[c]) :
             wire'[c][i] = IF i <= Len(wire[c]) THEN wire[c][i] ELSE psend[c]
    BY <1>4
  <2>2. QED BY <1>5, <1>6, <1>7, <2>1, DividedGrows
<1>9. Continued(c)'
  <2>1. psend'[c] # Nobody BY <1>2
  <2>2. Continues(wire'[c], left'[c], psend'[c]) BY <1>4, <1>8
  <2>3. QED BY <2>1, <2>2 DEF Continued, Continues, Whole
<1>10. QED BY <1>2, <1>3, <1>4, <1>8, <1>9

-----------------------------------------------------------------------------
(* The numbers of messages grow, and none comes back to the queue.         *)
LEMMA NotBack ==
  ASSUME SendInv, Next, NEW m \in Ids, m <= made
  PROVE  m <= made' /\ (InQueue(m)' => InQueue(m))
<1> USE DEF SendInv, Types
<1>1. made' = made \/ made' = made + 1
  BY SenderAlone, MainAlone, CloserAlone
  DEF Next, CloseStep, ClientStep, histVars, MsgSend, Discard, Kick, Reuse, ClientSends,
      ClientReads, ClientEnds, ClientResets, SendPipe
<1>2. m <= made'
  <2>1. m \in Int /\ made \in Int BY MsgFields, OneConn DEF QueueTypes
  <2>2. QED BY <1>1, <2>1
<1>3. ASSUME InQueue(m)' PROVE InQueue(m)
  <2>1. CASE queue' = queue BY <1>3, <2>1 DEF InQueue
  <2>2. CASE pos \in 1..Len(queue) /\ queue' = RemoveAt(queue, pos)
    BY <1>3, <2>2, Taken DEF Owned
  <2>3. ASSUME NEW c \in Conns, MsgSend(c), queue' = Append(queue, AnswerFor(c))
        PROVE  InQueue(m)
    <3>1. AnswerFor(c) \in Msgs /\ AnswerFor(c).id = made + 1
      BY <2>3, AnswerTyped DEF MsgSend, AnswerFor
    <3>2. \A i \in 1..Len(queue) : queue[i] \in Msgs /\ queue[i].id <= made
      BY DEF QueueTypes, Owned, AllMade
    <3>3. \A i \in 1..Len(queue) : queue[i].id < AnswerFor(c).id
      <4>1. made \in Int BY DEF QueueTypes
      <4>2. \A i \in 1..Len(queue) : queue[i].id \in Int BY <3>2, MsgFields
      <4>3. QED BY <3>1, <3>2, <4>1, <4>2
    <3>4. InQueue(m) \/ m = AnswerFor(c).id BY <1>3, <2>3, <3>1, <3>3, Added DEF Owned
    <3>5. m # made + 1 BY MsgFields DEF QueueTypes
    <3>6. QED BY <3>1, <3>4, <3>5
  <2>4. QED BY <2>1, <2>2, <2>3, QueueSteps
<1>4. QED BY <1>2, <1>3

(* A step keeps SentIds.                                                   *)
LEMMA StepSentIds ==
  ASSUME SendInv, Streams, Next
  PROVE  SentIds'
<1>1. ASSUME NEW m \in Msgs, m.id <= made, ~InQueue(m.id)
      PROVE  m.id <= made' /\ ~InQueue(m.id)'
  BY <1>1, MsgFields, NotBack
<1>2. ASSUME NEW c \in Conns, NEW i \in 1..Len(wire'[c])
      PROVE  \E m \in Msgs : m = wire'[c][i] /\ m.id <= made' /\ ~InQueue(m.id)'
  <2>1. CASE wire'[c] = wire[c]
    <3>1. PICK m \in Msgs : m = wire[c][i] /\ m.id <= made /\ ~InQueue(m.id)
      BY <2>1 DEF Streams, SentIds
    <3>2. QED BY <1>1, <2>1, <3>1
  <2>2. CASE wire'[c] = <<>> BY <2>2
  <2>3. CASE /\ c \in open /\ Transmit(c) /\ psend'[c] = psend[c]
             /\ \E t \in {Main, Sender} : pc[t] = "send" /\ at[t] = c
    <3>1. /\ psend[c] \in Msgs /\ psend[c].id <= made /\ ~InQueue(psend[c].id)
          /\ wire'[c][i] = IF i <= Len(wire[c]) THEN wire[c][i] ELSE psend[c]
      BY <2>3, SentMore
    <3>2. i <= Len(wire[c]) => i \in 1..Len(wire[c]) BY OneConn
    <3>3. PICK m \in Msgs : m = wire'[c][i] /\ m.id <= made /\ ~InQueue(m.id)
      BY <3>1, <3>2 DEF Streams, SentIds
    <3>4. QED BY <1>1, <3>3
  <2>4. QED BY <2>1, <2>2, <2>3, FieldSteps DEF SendInv
<1>3. QED BY <1>2 DEF SentIds, InQueue

(* A step keeps Divided, and the first answer the oldest.                  *)
LEMMA StepDivided ==
  ASSUME SendInv, Streams, Next, NEW c \in Conns
  PROVE  Divided(wire'[c]) /\ FirstLeast(wire'[c])
<1>1. CASE wire'[c] = wire[c] BY <1>1 DEF Streams
<1>2. CASE wire'[c] = <<>> BY <1>2 DEF Divided, FirstLeast
<1>3. CASE /\ c \in open /\ Transmit(c) /\ psend'[c] = psend[c]
           /\ \E t \in {Main, Sender} : pc[t] = "send" /\ at[t] = c
  <2>1. /\ psend[c] \in Msgs /\ psend[c] # Nobody /\ Fits(c) \in 0..left[c]
        /\ Len(wire'[c]) = Len(wire[c]) + Fits(c)
        /\ \A i \in 1..Len(wire'[c]) :
             wire'[c][i] = IF i <= Len(wire[c]) THEN wire[c][i] ELSE psend[c]
        /\ Divided(wire'[c])
    BY <1>3, SentMore
  <2>2. FirstLeast(wire[c]) /\ FirstOldest(c) BY <1>3 DEF Streams
  <2>3. Len(wire[c]) \in Nat /\ (wire[c] = <<>> <=> Len(wire[c]) = 0) BY OneConn
  <2>4. psend[c].id \in Int BY <2>1, MsgFields
  <2>5. ASSUME NEW j \in 1..Len(wire'[c]) PROVE wire'[c][1].id <= wire'[c][j].id
    <3>1. wire'[c][j] = IF j <= Len(wire[c]) THEN wire[c][j] ELSE psend[c]
      BY <2>1
    <3>2. CASE wire[c] = <<>>
      <4>1. 1 \in 1..Len(wire'[c]) /\ ~(j <= Len(wire[c])) /\ ~(1 <= Len(wire[c]))
        BY <2>1, <2>3, <3>2
      <4>2. wire'[c][j] = psend[c] /\ wire'[c][1] = psend[c] BY <2>1, <3>1, <4>1
      <4>3. QED BY <2>4, <4>2
    <3>3. CASE wire[c] # <<>>
      <4>1. 1 \in 1..Len(wire'[c]) /\ 1 <= Len(wire[c]) /\ 1 \in 1..Len(wire[c])
        BY <2>1, <2>3, <3>3
      <4>2. wire'[c][1] = wire[c][1] BY <2>1, <4>1
      <4>3. CASE j <= Len(wire[c])
        <5>1. j \in 1..Len(wire[c]) /\ wire'[c][j] = wire[c][j] BY <2>3, <3>1, <4>3
        <5>2. QED BY <2>2, <4>2, <5>1 DEF FirstLeast
      <4>4. CASE ~(j <= Len(wire[c]))
        <5>1. wire'[c][j] = psend[c] BY <3>1, <4>4
        <5>2. wire[c][1].id <= psend[c].id BY <2>1, <2>2, <3>3 DEF FirstOldest
        <5>3. QED BY <4>2, <5>1, <5>2
      <4>5. QED BY <4>3, <4>4
    <3>4. QED BY <3>2, <3>3
  <2>6. FirstLeast(wire'[c]) BY <2>5 DEF FirstLeast
  <2>7. QED BY <2>1, <2>6
<1>4. QED BY <1>1, <1>2, <1>3, FieldSteps DEF SendInv

(* A step keeps Continued.                                                 *)
LEMMA StepContinued ==
  ASSUME SendInv, SendInv', Streams, Next, NEW c \in open'
  PROVE  Continued(c)'
<1>1. CASE Reuse(c)
  <2>1. c \in Conns BY DEF SendInv, Types, SocketTypes
  <2>2. psend'[c] = Nobody /\ wire'[c] = <<>>
    BY <1>1, <2>1 DEF Reuse, Clear, SendInv, Types, ConnTypes, SocketTypes
  <2>3. Whole(0)
    <3>1. 0 * PkgLen = 0 BY SizesAssumption DEF SizesAssumption
    <3>2. QED BY <3>1 DEF Whole
  <2>4. Whole(Len(wire'[c])) BY <2>2, <2>3
  <2>5. QED BY <2>2, <2>4 DEF Continued, Whole
<1>2. CASE ~Reuse(c)
  <2>1. c \in open /\ c \in Conns BY <1>2, SameClient
  <2>2. Continued(c) BY <2>1 DEF Streams
  <2>3. CASE wire'[c] = wire[c] /\ psend'[c] = psend[c] /\ left'[c] = left[c]
    BY <2>2, <2>3 DEF Continued, Continues, Whole
  <2>4. CASE /\ TakeOut /\ c = at[Sender] /\ psend'[c] = queue[pos]
             /\ left'[c] = PkgLen /\ wire'[c] = wire[c]
    <3>1. pos \in 1..Len(queue) /\ queue[pos] \in Msgs /\ psend[c] = Nobody
      BY <2>1, <2>4, TakesFor
    <3>2. psend'[c] # Nobody BY <2>4, <3>1, NamesAssumption DEF NamesAssumption
    <3>3. Whole(Len(wire[c])) BY <2>2, <3>1 DEF Continued
    <3>4. Whole(Len(wire[c]) + PkgLen)
      <4>1. PICK k \in Nat : Len(wire[c]) = k * PkgLen BY <3>3 DEF Whole
      <4>2. (k + 1) * PkgLen = k * PkgLen + PkgLen
        BY SizesAssumption DEF SizesAssumption
      <4>3. QED BY <4>1, <4>2 DEF Whole
    <3>5. \A i \in 1..Len(wire[c]) : wire[c][i].id # queue[pos].id
      BY <2>1, <3>1 DEF Streams, SentIds, InQueue
    <3>6. Continues(wire'[c], left'[c], psend'[c]) BY <2>4, <3>4, <3>5 DEF Continues
    <3>7. QED BY <3>2, <3>6 DEF Continued, Continues, Whole
  <2>5. CASE /\ (ClearSent /\ c = at[Sender]) \/ (WriteClear /\ c = at[Main])
             /\ psend'[c] = Nobody /\ left'[c] = left[c] /\ wire'[c] = wire[c]
    <3>1. Whole(Len(wire[c]))
      <4>1. CASE psend[c] = Nobody BY <2>2, <4>1 DEF Continued
      <4>2. CASE psend[c] # Nobody BY <2>1, <2>5, <4>2, ClearsFrees, FreesSent
      <4>3. QED BY <4>1, <4>2
    <3>2. QED BY <2>5, <3>1 DEF Continued, Whole
  <2>6. CASE /\ c \in open /\ Transmit(c) /\ psend'[c] = psend[c]
             /\ \E t \in {Main, Sender} : pc[t] = "send" /\ at[t] = c
    BY <2>6, SentMore
  <2>7. QED BY <1>2, <2>1, <2>3, <2>4, <2>5, <2>6, FieldSteps DEF SendInv
<1>3. QED BY <1>1, <1>2

-----------------------------------------------------------------------------
(* How the threads come to where an answer is freed.                       *)
LEMMA ComesToFree ==
  ASSUME SendInv, Next, NEW c \in Conns
  PROVE  /\ SenderFrees(c)' => SenderFrees(c) \/ (SendDone /\ at[Sender] = c)
         /\ MainFrees(c)' => MainFrees(c) \/ (WriteDone /\ at[Main] = c)
         /\ MainAtConn(c, {"lower"})' =>
              MainAtConn(c, {"lower"}) \/ (WriteClear /\ at[Main] = c)
<1> USE Kinds, NamesAssumption
    DEF NamesAssumption, SendInv, Types, ThreadTypes, SenderFrees, MainFrees,
        SenderAtConn, MainAtConn, Goto, SenderAt, MainAt
<1>1. CASE UNCHANGED <<pc, at>> BY <1>1
<1>2. CASE SenderStep
  <2>1. at'[Main] = at[Main] /\ pc'[Main] = pc[Main] BY <1>2, SenderAlone DEF OthersStay
  <2>2. CASE SendDone BY <2>1, <2>2 DEF SendDone
  <2>3. CASE Release BY <2>1, <2>3 DEF Release
  <2>4. CASE ~SendDone /\ ~Release
    <3>1. \/ pc'[Sender] \notin {"release", "clear"}
          \/ pc'[Sender] = pc[Sender] /\ at'[Sender] = at[Sender]
      BY <1>2, <2>4
      DEF SenderStep, Wake, StartPass, EndPass, DropStale, FindCurrent, Skip, TakeOut,
          SendPart, ClearSent, Raise, ArmOut, thrVars
    <3>2. QED BY <2>1, <3>1
  <2>5. QED BY <2>2, <2>3, <2>4
<1>3. CASE MainStep
  <2>1. at'[Sender] = at[Sender] /\ pc'[Sender] = pc[Sender]
    BY <1>3, MainAlone DEF OthersStay
  <2>2. CASE WriteDone BY <2>1, <2>2 DEF WriteDone
  <2>3. CASE WriteFree BY <2>1, <2>3 DEF WriteFree
  <2>4. CASE DisarmOut BY <2>1, <2>4 DEF DisarmOut
  <2>7. CASE WriteClear BY <2>1, <2>7 DEF WriteClear
  <2>5. CASE ~(WriteDone \/ WriteFree \/ DisarmOut \/ WriteClear)
    <3>1. pc'[Main] \notin {"disarm", "free", "clear", "lower"}
      BY <1>3, <2>5
      DEF MainStep, ReadSome, ReadEnd, Write, NotWritable, HangUp, EpollWait, WritePart,
          Lower, Post, EndEvent
    <3>2. QED BY <2>1, <3>1
  <2>6. QED BY <2>2, <2>3, <2>4, <2>5, <2>7
<1>4. ASSUME NEW t \in Closers, CloseStep(t)
      PROVE  /\ SenderFrees(c)' => SenderFrees(c)
             /\ MainFrees(c)' => MainFrees(c)
             /\ MainAtConn(c, {"lower"})' => MainAtConn(c, {"lower"})
  <2>1. pc'[t] \notin {"release", "disarm", "free", "clear", "lower"}
    BY <1>4 DEF CloseStep, CloseSocket, Drop, Retire
  <2>2. QED BY <1>4, <2>1, CloserAlone DEF OthersStay
<1>5. ASSUME NEW d \in Conns, MsgSend(d) \/ Kick(d)
      PROVE  pc'[Sender] = pc[Sender] /\ at'[Sender] = at[Sender]
             /\ pc'[Main] = pc[Main] /\ at'[Main] = at[Main]
  BY <1>5 DEF MsgSend, Kick, thrVars
<1>6. QED
  BY <1>1, <1>2, <1>3, <1>4, <1>5
  DEF Next, ClientStep, thrVars, Reuse, ClientSends, ClientReads, ClientEnds,
      ClientResets, SendPipe

(* The epoll thread, when it has sent the answer, has one to free.         *)
LEMMA MainFreesOne ==
  ASSUME SendInv, NEW c \in open, MainAtConn(c, {"send", "disarm", "free", "clear"})
  PROVE  throw[c] = 1 /\ psend[c] # Nobody
<1>1. c \in Conns /\ Turn(c) BY OpenConn
<1>2. MainOwes(c) BY <1>1, MainPast DEF MainAtConn
<1>3. ~MainAtConn(c, {"lower"}) BY DEF MainAtConn
<1>4. QED BY <1>1, <1>2, <1>3 DEF Turn

(* A step keeps SentAll.                                                   *)
LEMMA StepSentAll ==
  ASSUME SendInv, SendInv', Streams, Next, NEW c \in open'
  PROVE  SentAll(c)'
<1>1. CASE Reuse(c)
  <2>1. at'[Sender] # c /\ at'[Main] # c
    BY <1>1, Kinds DEF Reuse, Working, thrVars
  <2>2. QED BY <2>1 DEF SentAll, SenderFrees, MainFrees, SenderAtConn, MainAtConn
<1>2. CASE ~Reuse(c)
  <2>1. c \in open /\ c \in Conns BY <1>2, SameClient
  <2>2. SentAll(c) /\ Turn(c) BY <2>1, OpenConn DEF Streams
  <2>3. ASSUME SenderFrees(c) \/ MainFrees(c)
        PROVE  left'[c] = 0
    <3>1. left[c] = 0 BY <2>2, <2>3 DEF SentAll
    <3>2. CASE TakeOut /\ c = at[Sender]
      <4>1. pc[Sender] = "current" /\ throw[c] = 0
        BY <2>2, <3>2 DEF TakeOut, SenderAt, Turn
      <4>2. ~MainOwes(c) BY <2>2, <4>1 DEF Turn
      <4>3. ~MainFrees(c) BY <2>1, <4>2, MainPast DEF MainFrees, MainAtConn
      <4>4. QED BY <2>3, <4>1, <4>3 DEF SenderFrees, SenderAtConn
    <3>3. CASE /\ c \in open /\ Transmit(c) /\ psend'[c] = psend[c]
               /\ \E t \in {Main, Sender} : pc[t] = "send" /\ at[t] = c
      <4>1. Fits(c) \in 0..left[c] /\ left'[c] = left[c] - Fits(c) BY <3>3, SentMore
      <4>2. QED BY <3>1, <4>1
    <3>4. QED BY <1>2, <2>1, <3>1, <3>2, <3>3, FieldSteps DEF SendInv
  <2>4. ASSUME (SendDone /\ at[Sender] = c) \/ (WriteDone /\ at[Main] = c)
        PROVE  left'[c] = 0
    <3>1. Fits(c) = left[c] /\ Transmit(c) BY <2>1, <2>4 DEF SendDone, WriteDone
    <3>2. left[c] \in Int BY <2>1, OneConn, SizesAssumption DEF SizesAssumption
    <3>3. left'[c] = left[c] - left[c] BY <2>1, <3>1, Sent DEF SendInv, Types
    <3>4. QED BY <3>2, <3>3
  <2>5. ASSUME MainAtConn(c, {"lower"}) PROVE wire'[c] # <<>>
    <3>1. wire[c] # <<>> BY <2>2, <2>5 DEF SentAll
    <3>2. CASE wire'[c] = wire[c] BY <3>1, <3>2
    <3>3. CASE /\ c \in open /\ Transmit(c) /\ psend'[c] = psend[c]
               /\ \E t \in {Main, Sender} : pc[t] = "send" /\ at[t] = c
      <4>1. /\ Fits(c) \in 0..left[c] /\ Len(wire'[c]) = Len(wire[c]) + Fits(c)
        BY <3>3, SentMore
      <4>2. Len(wire[c]) \in Nat /\ Len(wire[c]) # 0 BY <2>1, <3>1, OneConn
      <4>3. Len(wire'[c]) # 0 BY <4>1, <4>2
      <4>4. QED BY <4>3
    <3>4. QED BY <1>2, <2>1, <3>2, <3>3, FieldSteps DEF SendInv
  <2>6. ASSUME WriteClear /\ at[Main] = c PROVE wire'[c] # <<>>
    <3>1. psend[c] # Nobody
      BY <2>1, <2>6, MainFreesOne DEF WriteClear, MainAt, MainAtConn
    <3>2. wire[c] # <<>> BY <2>1, <2>6, <3>1, ClearsFrees, FreesSent
    <3>3. wire' = wire BY <2>6 DEF WriteClear, histVars
    <3>4. QED BY <3>2, <3>3
  <2>7. QED BY <2>1, <2>3, <2>4, <2>5, <2>6, ComesToFree DEF SentAll
<1>3. QED BY <1>1, <1>2

-----------------------------------------------------------------------------
(* What more a client was sent begins as it began.                         *)
LEMMA BeginsAlike ==
  ASSUME SendInv, Streams, NEW c \in open, Transmit(c), psend'[c] = psend[c],
         NEW t \in {Main, Sender}, pc[t] = "send", at[t] = c, wire'[c] # <<>>
  PROVE  wire'[c][1] = IF wire[c] # <<>> THEN wire[c][1] ELSE psend[c]
<1>1. c \in Conns BY OpenConn
<1>2. /\ Fits(c) \in 0..left[c] /\ Len(wire'[c]) = Len(wire[c]) + Fits(c)
      /\ wire'[c] \in Seq(Msgs \cup {Nobody})
      /\ \A i \in 1..Len(wire'[c]) :
           wire'[c][i] = IF i <= Len(wire[c]) THEN wire[c][i] ELSE psend[c]
  BY SentMore
<1>3. Len(wire[c]) \in Nat /\ (wire[c] = <<>> <=> Len(wire[c]) = 0) BY <1>1, OneConn
<1>4. Len(wire'[c]) # 0 BY <1>2
<1>5. Len(wire'[c]) \in Nat BY <1>2
<1>6. 1 \in 1..Len(wire'[c]) /\ (1 <= Len(wire[c]) <=> wire[c] # <<>>)
  BY <1>3, <1>4, <1>5
<1>7. QED BY <1>2, <1>6

(* The first piece sent is of a number.                                    *)
LEMMA FirstTyped ==
  ASSUME SendInv, Streams, NEW c \in Conns, wire[c] # <<>>
  PROVE  /\ wire[c][1] \in Msgs /\ wire[c][1].id \in Int /\ wire[c][1].id <= made
<1>1. 1 \in 1..Len(wire[c]) BY OneConn
<1>2. QED BY <1>1, MsgFields DEF Streams, SentIds

(* A step keeps FirstOldest.                                               *)
LEMMA StepFirstOldest ==
  ASSUME SendInv, SendInv', Streams, Next, NEW c \in open'
  PROVE  FirstOldest(c)'
<1>1. CASE Reuse(c)
  <2>1. psend'[c] = Nobody BY <1>1 DEF Reuse, Clear, SendInv, Types, ConnTypes, SocketTypes
  <2>2. QED BY <2>1 DEF FirstOldest
<1>2. CASE ~Reuse(c)
  <2>1. c \in open /\ c \in Conns BY <1>2, SameClient
  <2>2. FirstOldest(c) /\ Ahead(c) BY <2>1 DEF Streams
  <2>3. CASE wire'[c] = wire[c] /\ psend'[c] = psend[c] BY <2>2, <2>3 DEF FirstOldest
  <2>4. CASE psend'[c] = Nobody BY <2>4 DEF FirstOldest
  <2>5. CASE TakeOut /\ c = at[Sender] /\ psend'[c] = queue[pos] /\ wire'[c] = wire[c]
    <3>1. pos \in 1..Len(queue) /\ queue[pos] \in Msgs /\ ForClient(c, queue[pos])
      BY <2>1, <2>5, TakesFor
    <3>2. wire[c] # <<>> => wire[c][1].id < queue[pos].id BY <2>2, <3>1 DEF Ahead
    <3>3. wire[c] # <<>> => wire[c][1].id <= queue[pos].id
      BY <2>1, <3>1, <3>2, FirstTyped, MsgFields
    <3>4. QED BY <2>5, <3>3 DEF FirstOldest
  <2>6. CASE /\ c \in open /\ Transmit(c) /\ psend'[c] = psend[c]
             /\ \E t \in {Main, Sender} : pc[t] = "send" /\ at[t] = c
    <3>1. psend[c] \in Msgs /\ psend[c] # Nobody BY <2>6, SentMore
    <3>2. psend[c].id \in Int BY <3>1, MsgFields
    <3>3. ASSUME wire'[c] # <<>> PROVE wire'[c][1].id <= psend'[c].id
      <4>1. wire'[c][1] = IF wire[c] # <<>> THEN wire[c][1] ELSE psend[c]
        BY <2>6, <3>3, BeginsAlike
      <4>2. CASE wire[c] # <<>> BY <2>2, <2>6, <3>1, <4>1, <4>2 DEF FirstOldest
      <4>3. CASE wire[c] = <<>> BY <2>6, <3>2, <4>1, <4>3
      <4>4. QED BY <4>2, <4>3
    <3>4. QED BY <3>3 DEF FirstOldest
  <2>7. QED BY <1>2, <2>1, <2>3, <2>4, <2>5, <2>6, FieldSteps DEF SendInv
<1>3. QED BY <1>1, <1>2

(* Where a message of the queue was before the step.                       *)
LEMMA FromQueue ==
  ASSUME SendInv, Next, NEW i \in 1..Len(queue')
  PROVE  \/ /\ queue' = queue /\ i \in 1..Len(queue)
         \/ /\ DropStale \/ TakeOut
            /\ pos \in 1..Len(queue) /\ pos' = pos
            /\ IF i < pos THEN i \in 1..Len(queue) /\ queue'[i] = queue[i]
                          ELSE i + 1 \in 1..Len(queue) /\ queue'[i] = queue[i + 1]
         \/ \E d \in Conns :
              /\ MsgSend(d) /\ pos' = pos
              /\ pc[Sender] \in {"sem", "woken"} /\ pc'[Sender] = pc[Sender]
              /\ UNCHANGED <<wire, psend>>
              /\ \/ i \in 1..Len(queue) /\ queue'[i] = queue[i]
                 \/ queue'[i].id = made + 1
<1> USE DEF SendInv, Types
<1>1. CASE queue' = queue BY <1>1
<1>2. CASE /\ DropStale \/ TakeOut
           /\ pos \in 1..Len(queue) /\ queue' = RemoveAt(queue, pos)
  <2>1. pos' = pos BY <1>2 DEF DropStale, TakeOut, passVars
  <2>2. /\ Len(queue') = Len(queue) - 1 /\ Len(queue) \in Nat
        /\ queue'[i] = IF i < pos THEN queue[i] ELSE queue[i + 1]
    BY <1>2, Taken DEF Owned, QueueTypes
  <2>3. QED BY <1>2, <2>1, <2>2
<1>3. ASSUME NEW d \in Conns, MsgSend(d), queue' = Append(queue, AnswerFor(d)),
             queue' # queue
      PROVE  /\ pos' = pos
             /\ pc[Sender] \in {"sem", "woken"} /\ pc'[Sender] = pc[Sender]
             /\ UNCHANGED <<wire, psend>>
             /\ \/ i \in 1..Len(queue) /\ queue'[i] = queue[i]
                \/ queue'[i].id = made + 1
  <2>1. /\ mutex = Nobody /\ UNCHANGED <<pc, pos, wire, psend>>
    BY <1>3 DEF MsgSend, queueVars, thrVars, passVars
  <2>2. pc[Sender] \in {"sem", "woken"}
    BY <2>1, NamesAssumption DEF Places, NamesAssumption
  <2>3. queue \in Seq(Msgs) /\ AnswerFor(d).id = made + 1 BY DEF QueueTypes, AnswerFor
  <2>4. CASE i <= Len(queue)
    <3>1. i \in 1..Len(queue) BY <2>4
    <3>2. queue'[i] = queue[i] BY <1>3, <2>3, <3>1
    <3>3. QED BY <2>1, <2>2, <3>1, <3>2
  <2>5. CASE ~(i <= Len(queue))
    <3>1. i = Len(queue) + 1 BY <1>3, <2>3, <2>5
    <3>2. queue'[i] = AnswerFor(d) BY <1>3, <2>3, <3>1
    <3>3. QED BY <2>1, <2>2, <2>3, <3>2
  <2>6. QED BY <2>4, <2>5
<1>4. QED BY <1>1, <1>2, <1>3, QueueSteps

(* How the place of a pass moves.                                          *)
LEMMA PassSteps ==
  ASSUME SendInv, Next, pc'[Sender] \notin {"sem", "woken"}
  PROVE  \/ pos' = 1
         \/ pc[Sender] \notin {"sem", "woken"} /\ pos' = pos
         \/ Skip /\ pos' = pos + 1 /\ queue' = queue
<1> USE Kinds, NamesAssumption
    DEF NamesAssumption, SendInv, Types, ThreadTypes, Goto, SenderAt, OthersStay
<1>1. CASE Skip BY <1>1 DEF Skip, queueVars
<1>2. CASE SenderStep /\ ~Skip
  BY <1>2
  DEF SenderStep, Wake, StartPass, EndPass, DropStale, FindCurrent, TakeOut, SendDone,
      SendPart, Release, ClearSent, Raise, ArmOut, thrVars, passVars
<1>3. CASE MainStep BY <1>3, MainAlone
<1>4. ASSUME NEW t \in Closers, CloseStep(t) PROVE pc'[Sender] = pc[Sender] /\ pos' = pos
  BY <1>4, CloserAlone
<1>5. ASSUME NEW d \in Conns, MsgSend(d) \/ Kick(d)
      PROVE  pc'[Sender] = pc[Sender] /\ pos' = pos
  BY <1>5 DEF MsgSend, Kick, thrVars, passVars
<1>6. CASE UNCHANGED <<pc, pos>> BY <1>6
<1>7. QED
  BY <1>1, <1>2, <1>3, <1>4, <1>5, <1>6
  DEF Next, ClientStep, thrVars, passVars, Reuse, ClientSends, ClientReads, ClientEnds,
      ClientResets, SendPipe

-----------------------------------------------------------------------------
(* A step leaves the message at place j of the queue there, at place i, or *)
(* is not of a pass.                                                       *)
Stays(j, i) ==
  \/ queue' = queue /\ i = j
  \/ /\ DropStale \/ TakeOut
     /\ pos' = pos /\ j # pos /\ i = IF j < pos THEN j ELSE j - 1
  \/ pc[Sender] \in {"sem", "woken"} /\ pc'[Sender] = pc[Sender]

(* A pass leaves no answer behind for a client that was sent nothing.      *)
LEMMA NotLeftBehind ==
  ASSUME SendInv, Streams, Next, NEW c \in open, NEW j \in 1..Len(queue),
         NEW i \in Nat \ {0}, ForClient(c, queue[j]), Stays(j, i),
         wire[c] = <<>>, psend[c] = Nobody, pc'[Sender] \notin {"sem", "woken"}
  PROVE  i >= pos'
<1> USE DEF SendInv, Types
<1>1. Ahead(c) /\ SentAll(c) /\ c \in Conns BY OpenConn DEF Streams
<1>2. pos \in Nat /\ Len(queue) \in Nat BY DEF ThreadTypes, QueueTypes
<1>3. pc[Sender] \notin {"sem", "woken"} => j >= pos BY <1>1 DEF Ahead
<1>4. CASE pos' = 1 BY <1>4
<1>5. CASE pc[Sender] \notin {"sem", "woken"} /\ pos' = pos
  <2>1. j >= pos BY <1>3, <1>5
  <2>2. i = j \/ (j # pos /\ i = IF j < pos THEN j ELSE j - 1) BY <1>5 DEF Stays
  <2>3. QED BY <1>2, <1>5, <2>1, <2>2
<1>6. CASE Skip /\ pos' = pos + 1 /\ queue' = queue
  <2>1. pc[Sender] = "current" /\ throw[at[Sender]] > 0 BY <1>6 DEF Skip, SenderAt
  <2>2. j >= pos BY <1>3, <2>1
  <2>3. j # pos
    <3>1. SUFFICES ASSUME j = pos PROVE FALSE OBVIOUS
    <3>2. at[Sender] = c BY <2>1, <3>1 DEF Found, ForClient
    <3>3. Turn(c) BY OpenConn
    <3>4. throw[c] = 1 BY <2>1, <3>2, <3>3 DEF Turn
    <3>5. MainAtConn(c, {"lower"}) BY <3>3, <3>4 DEF Turn
    <3>6. QED BY <1>1, <3>5 DEF SentAll
  <2>4. i = j
    <3>1. pos' # pos BY <1>2, <1>6
    <3>2. QED BY <2>1, <3>1 DEF Stays
  <2>5. QED BY <1>2, <1>6, <2>2, <2>3, <2>4
<1>7. QED BY <1>4, <1>5, <1>6, PassSteps

(* The first answer sent stays older than a message of the queue.          *)
LEMMA StaysAhead ==
  ASSUME SendInv, Streams, Next, NEW c \in open, ~Reuse(c), NEW j \in 1..Len(queue),
         NEW i \in Nat \ {0}, ForClient(c, queue[j]), Stays(j, i)
  PROVE  IF wire'[c] # <<>> THEN wire'[c][1].id < queue[j].id
         ELSE IF psend'[c] # Nobody THEN psend'[c].id < queue[j].id
         ELSE pc'[Sender] \notin {"sem", "woken"} => i >= pos'
<1>1. c \in Conns /\ Ahead(c) BY OpenConn DEF Streams
<1>2. /\ wire[c] # <<>> => wire[c][1].id < queue[j].id
      /\ wire[c] = <<>> /\ psend[c] # Nobody => psend[c].id < queue[j].id
  BY <1>1 DEF Ahead
<1>3. CASE wire'[c] = wire[c] /\ psend'[c] = psend[c] BY <1>2, <1>3, NotLeftBehind
<1>4. CASE /\ TakeOut /\ c = at[Sender] /\ psend'[c] = queue[pos] /\ wire'[c] = wire[c]
  <2>1. /\ pos \in 1..Len(queue) /\ queue[pos] \in Msgs /\ psend[c] = Nobody
        /\ pc[Sender] = "current" /\ queue' = RemoveAt(queue, pos)
    BY <1>4, TakesFor
  <2>2. psend'[c] # Nobody BY <1>4, <2>1, NamesAssumption DEF NamesAssumption
  <2>3. ASSUME wire[c] = <<>> PROVE queue[pos].id < queue[j].id
    <3>1. j >= pos BY <1>1, <2>1, <2>3 DEF Ahead
    <3>2. j # pos
      <4>1. Len(queue') = Len(queue) - 1 /\ Len(queue) \in Nat
        BY <2>1, Taken DEF SendInv, Owned, Types, QueueTypes
      <4>2. queue' # queue BY <4>1
      <4>3. QED BY <2>1, <4>2 DEF Stays
    <3>3. pos < j BY <2>1, <3>1, <3>2
    <3>4. QED BY <2>1, <3>3 DEF SendInv, Owned, InOrder
  <2>4. QED BY <1>2, <1>4, <2>2, <2>3
<1>5. CASE /\ (ClearSent /\ c = at[Sender]) \/ (WriteClear /\ c = at[Main])
           /\ psend'[c] = Nobody /\ wire'[c] = wire[c] /\ psend[c] # Nobody
  <2>1. wire[c] # <<>> BY <1>5, ClearsFrees, FreesSent
  <2>2. QED BY <1>2, <1>5, <2>1
<1>6. CASE /\ c \in open /\ Transmit(c) /\ psend'[c] = psend[c]
           /\ \E t \in {Main, Sender} : pc[t] = "send" /\ at[t] = c
  <2>1. psend[c] # Nobody BY <1>6, SentMore
  <2>2. CASE wire'[c] = <<>>
    <3>1. /\ Fits(c) \in 0..left[c] /\ Len(wire'[c]) = Len(wire[c]) + Fits(c)
      BY <1>6, SentMore
    <3>2. Len(wire[c]) \in Nat /\ (wire[c] = <<>> <=> Len(wire[c]) = 0) BY <1>1, OneConn
    <3>3. Len(wire'[c]) = 0 BY <2>2
    <3>4. wire[c] = <<>> BY <3>1, <3>2, <3>3
    <3>5. QED BY <1>2, <1>6, <2>1, <2>2, <3>4
  <2>3. CASE wire'[c] # <<>>
    <3>1. wire'[c][1] = IF wire[c] # <<>> THEN wire[c][1] ELSE psend[c]
      BY <1>6, <2>3, BeginsAlike
    <3>2. QED BY <1>2, <2>1, <2>3, <3>1
  <2>4. QED BY <2>2, <2>3
<1>7. QED BY <1>1, <1>3, <1>4, <1>5, <1>6, FieldSteps DEF SendInv

(* A step keeps Ahead.                                                     *)
LEMMA StepAhead ==
  ASSUME SendInv, SendInv', Streams, Next, NEW c \in open'
  PROVE  Ahead(c)'
<1>1. Len(queue) \in Nat /\ Len(queue') \in Nat BY DEF SendInv, Types, QueueTypes
<1>2. ASSUME NEW i \in 1..Len(queue'), ForClient(c, queue[i])'
      PROVE  IF wire'[c] # <<>> THEN wire'[c][1].id < queue'[i].id
             ELSE IF psend'[c] # Nobody THEN psend'[c].id < queue'[i].id
             ELSE pc'[Sender] \notin {"sem", "woken"} => i >= pos'
  <2>1. queue'[i].conn = c /\ queue'[i].seq = seq'[c] BY <1>2 DEF ForClient
  <2>2. CASE Reuse(c)
    <3>1. c \in Conns /\ queue' = queue /\ seq[c] \in Nat /\ seq'[c] = seq[c] + 2
      BY <2>2 DEF Reuse, queueVars, SendInv, Types, ConnTypes, SocketTypes
    <3>2. queue[i].conn = c /\ queue[i].seq <= seq[c]
      BY <2>1, <3>1 DEF SendInv, Seqs, MadeBefore
    <3>3. queue[i].seq = seq[c] + 2 BY <2>1, <3>1
    <3>4. FALSE BY <3>1, <3>2, <3>3
    <3>5. QED BY <3>4
  <2>3. CASE ~Reuse(c)
    <3>1. c \in open /\ c \in Conns /\ seq'[c] = seq[c] BY <2>3, SameClient
    <3>2. ASSUME NEW j \in 1..Len(queue), queue'[i] = queue[j], Stays(j, i)
          PROVE  IF wire'[c] # <<>> THEN wire'[c][1].id < queue'[i].id
                 ELSE IF psend'[c] # Nobody THEN psend'[c].id < queue'[i].id
                 ELSE pc'[Sender] \notin {"sem", "woken"} => i >= pos'
      <4>1. ForClient(c, queue[j]) BY <2>1, <3>1, <3>2 DEF ForClient
      <4>2. i \in Nat \ {0} BY <1>1
      <4>3. QED BY <2>3, <3>1, <3>2, <4>1, <4>2, StaysAhead
    <3>3. CASE queue' = queue /\ i \in 1..Len(queue)
      <4>1. Stays(i, i) /\ queue'[i] = queue[i] BY <3>3 DEF Stays
      <4>2. QED BY <3>2, <3>3, <4>1
    <3>4. CASE /\ DropStale \/ TakeOut
               /\ pos \in 1..Len(queue) /\ pos' = pos
               /\ IF i < pos THEN i \in 1..Len(queue) /\ queue'[i] = queue[i]
                             ELSE i + 1 \in 1..Len(queue) /\ queue'[i] = queue[i + 1]
      <4>1. CASE i < pos
        <5>1. Stays(i, i) BY <1>1, <3>4, <4>1 DEF Stays
        <5>2. QED BY <3>2, <3>4, <4>1, <5>1
      <4>2. CASE ~(i < pos)
        <5>1. i + 1 # pos /\ ~(i + 1 < pos) /\ i = (i + 1) - 1 BY <1>1, <3>4, <4>2
        <5>2. Stays(i + 1, i) BY <3>4, <5>1 DEF Stays
        <5>3. QED BY <3>2, <3>4, <4>2, <5>2
      <4>3. QED BY <4>1, <4>2
    <3>5. ASSUME NEW d \in Conns, MsgSend(d), pos' = pos,
                 pc[Sender] \in {"sem", "woken"}, pc'[Sender] = pc[Sender],
                 UNCHANGED <<wire, psend>>,
                 \/ i \in 1..Len(queue) /\ queue'[i] = queue[i]
                 \/ queue'[i].id = made + 1
          PROVE  IF wire'[c] # <<>> THEN wire'[c][1].id < queue'[i].id
                 ELSE IF psend'[c] # Nobody THEN psend'[c].id < queue'[i].id
                 ELSE pc'[Sender] \notin {"sem", "woken"} => i >= pos'
      <4>1. CASE i \in 1..Len(queue) /\ queue'[i] = queue[i]
        <5>1. Stays(i, i) BY <3>5 DEF Stays
        <5>2. QED BY <3>2, <4>1, <5>1
      <4>2. CASE queue'[i].id = made + 1
        <5>1. made \in Int BY <3>1, OneConn
        <5>2. wire[c] # <<>> => wire[c][1].id < made + 1 BY <3>1, <5>1, FirstTyped
        <5>3. psend[c] # Nobody => psend[c].id < made + 1
          BY <3>1, <5>1, OpenConn, MsgFields
        <5>4. QED BY <3>5, <4>2, <5>2, <5>3
      <4>3. QED BY <3>5, <4>1, <4>2
    <3>6. QED BY <3>3, <3>4, <3>5, FromQueue
  <2>4. QED BY <2>2, <2>3
<1>3. QED BY <1>2 DEF Ahead

-----------------------------------------------------------------------------
(* At the start no client was sent anything.                               *)
LEMMA InitStreams ==
  ASSUME Init
  PROVE  Streams
<1>1. /\ queue = <<>> /\ \A c \in Conns : wire[c] = <<>> /\ psend[c] = Nobody
      /\ \A t \in Threads : at[t] = Nobody
      /\ open = Conns
  BY DEF Init
<1>2. Whole(0)
  <2>1. 0 * PkgLen = 0 BY SizesAssumption DEF SizesAssumption
  <2>2. QED BY <2>1 DEF Whole
<1>3. SentIds BY <1>1 DEF SentIds
<1>4. \A c \in Conns : Divided(wire[c]) /\ FirstLeast(wire[c])
  BY <1>1 DEF Divided, FirstLeast
<1>5. ASSUME NEW c \in Conns
      PROVE  Continued(c) /\ SentAll(c) /\ Ahead(c) /\ FirstOldest(c)
  <2>1. Continued(c)
    <3>1. Len(wire[c]) = 0 BY <1>1
    <3>2. QED BY <1>1, <1>2, <3>1 DEF Continued
  <2>2. SentAll(c)
    BY <1>1, Kinds, NamesAssumption
    DEF SentAll, SenderFrees, MainFrees, SenderAtConn, MainAtConn, NamesAssumption
  <2>3. Ahead(c) BY <1>1 DEF Ahead
  <2>4. FirstOldest(c) BY <1>1 DEF FirstOldest
  <2>5. QED BY <2>1, <2>2, <2>3, <2>4
<1>6. QED BY <1>1, <1>3, <1>4, <1>5 DEF Streams

(* Streams is kept by every step.                                          *)
LEMMA StepStreams ==
  ASSUME SendInv, SendInv', Streams, [Next]_<<vars, caps>>
  PROVE  Streams'
<1>1. CASE Next
  BY <1>1, StepSentIds, StepDivided, StepContinued, StepSentAll, StepAhead,
     StepFirstOldest
  DEF Streams, Divided, FirstLeast
<1>2. CASE UNCHANGED <<vars, caps>>
  <2>1. UNCHANGED <<queue, wire, made, psend, left, open, at, pc, pos, seq>>
    BY <1>2
    DEF vars, queueVars, sendVars, lifeVars, sockVars, histVars, thrVars, passVars
  <2>2. QED
    BY <2>1
    DEF Streams, SentIds, InQueue, Divided, FirstLeast, Continued, Continues, Whole,
        SentAll, SenderFrees, MainFrees, SenderAtConn, MainAtConn, Ahead, ForClient,
        FirstOldest
<1>3. QED BY <1>1, <1>2

(* A client gets whole answers, one after the other, each once, and no     *)
(* answer before the first.                                                *)
THEOREM AnswersWhole ==
  ASSUME ~UnreadAtEof
  PROVE  Safe => []WholeAnswers
<1>1. Init => Streams BY InitStreams
<1>2. SendInv /\ SendInv' /\ Streams /\ [Next]_<<vars, caps>> => Streams'
  BY StepStreams
<1>3. Streams => WholeAnswers BY DEF Streams, Divided, FirstLeast, WholeAnswers
<1>4. QED BY <1>1, <1>2, <1>3, SendInvariant, PTL DEF Safe

-----------------------------------------------------------------------------
(***************************************************************************)
(* Sending implements AnswerDelivery: each step is one of those it allows, *)
(* or changes nothing of what it speaks of.                                *)
(***************************************************************************)

Done == {m \in Ids : freed[m] > 0} \cup stray
Begun == [c \in Conns |-> IF Underway(c) THEN psend[c] ELSE Nobody]

(* What is underway stays so where the pointer stays, nobody comes to      *)
(* clear it, and it does not go astray.                                    *)
LEMMA BegunStays ==
  ASSUME UNCHANGED <<psend, stray>>, \A c \in Conns : Clearing(c)' <=> Clearing(c)
  PROVE  Begun' = Begun
BY DEF Begun, Underway

(* What a step that leaves all of this alone looks like to a handler.      *)
LEMMA NothingDelivered ==
  ASSUME UNCHANGED <<made, queue, psend, left, wire, open, seq, freed, stray>>,
         \A c \in Conns : Clearing(c)' <=> Clearing(c)
  PROVE  UNCHANGED Delivery!vars
BY BegunStays DEF Delivery!vars, Begun

(* Which answers are done with after one more is freed, or none.           *)
LEMMA DoneWith ==
  ASSUME QueueTypes, stray' = stray
  PROVE  /\ \A m \in Msgs : Free(m) => Done' = Done \cup {m.id}
         /\ freed' = freed => Done' = Done
<1>1. ASSUME NEW m \in Msgs, Free(m) PROVE Done' = Done \cup {m.id}
  <2>1. /\ freed' \in [Ids -> Nat] /\ m.id \in Ids
        /\ \A n \in Ids : freed'[n] = IF n = m.id THEN freed[n] + 1 ELSE freed[n]
    BY <1>1, Freed
  <2>2. \A n \in Ids : freed[n] \in Nat BY DEF QueueTypes
  <2>3. \A n \in Ids : freed'[n] > 0 <=> freed[n] > 0 \/ n = m.id BY <2>1, <2>2
  <2>4. QED BY <2>1, <2>3 DEF Done
<1>2. QED BY <1>1 DEF Done

(* What is in the queue or underway is not done with.                      *)
LEMMA NotDone ==
  ASSUME SendInv
  PROVE  /\ \A i \in 1..Len(queue) : queue[i].id \notin Done
         /\ \A c \in Conns : Underway(c) => psend[c].id \notin Done
<1>1. \A m \in Ids \ stray : InQueue(m) \/ InSending(m) => m \notin Done
  BY DEF SendInv, Owned, FreedOnce, Done
<1>2. ASSUME NEW i \in 1..Len(queue) PROVE queue[i].id \notin Done
  <2>1. queue[i].id \in Ids /\ queue[i].id \notin stray
    BY MsgFields DEF SendInv, Types, QueueTypes, Owned, AllMade
  <2>2. InQueue(queue[i].id) BY DEF InQueue
  <2>3. QED BY <1>1, <2>1, <2>2
<1>3. ASSUME NEW c \in Conns, Underway(c) PROVE psend[c].id \notin Done
  <2>1. psend[c] \in Msgs /\ psend[c].id \notin stray
    BY <1>3 DEF SendInv, Types, ConnTypes, Underway
  <2>2. InSending(psend[c].id) BY <1>3 DEF Underway, InSending, HeldBy
  <2>3. QED BY <1>1, <2>1, <2>2, MsgFields
<1>4. QED BY <1>2, <1>3

(* At the start.                                                           *)
LEMMA InitDelivers == Init => Delivery!Init
<1> SUFFICES ASSUME Init PROVE Delivery!Init OBVIOUS
<1>1. ToSet(queue) = {} BY DEF Init, ToSet
<1>2. {m \in Ids : freed[m] > 0} \cup stray = {} BY DEF Init
<1>3. \A c \in Conns : ~Underway(c) BY DEF Init, Underway
<1>4. QED BY <1>1, <1>2, <1>3 DEF Init, Delivery!Init

(* msgSend() takes an answer, or refuses it.                               *)
LEMMA MsgSendDelivers ==
  ASSUME SendInv, Next, NEW c \in Conns, MsgSend(c)
  PROVE  Delivery!Next
<1> USE DEF SendInv, Types
<1> DEFINE m == AnswerFor(c)
<1>1. m \in Msgs /\ made' = made + 1 /\ UNCHANGED <<psend, left, wire, open, seq, stray>>
  BY AnswerTyped DEF MsgSend, Discard, lifeVars, sockVars
<1>2. m.id = made + 1 /\ m = [id |-> made + 1, conn |-> c, seq |-> m.seq]
      /\ m.seq \in 0..seq[c]
  <2>1. seq[c] \in Nat \ {0} BY DEF ConnTypes
  <2>2. QED BY <2>1 DEF AnswerFor
<1>3. \/ Free(m) /\ queue' = queue
      \/ freed' = freed /\ queue' = Append(queue, m)
  BY DEF MsgSend, Discard, queueVars
<1>6. Begun' = Begun
  <2>1. made' # made
    <3>1. made \in Int BY DEF QueueTypes
    <3>2. QED BY <1>1, <3>1
  <2>2. ~Release /\ ~ClearSent /\ ~WriteFree /\ ~WriteClear
    BY <2>1 DEF Release, ClearSent, WriteFree, WriteClear, histVars
  <2>3. QED BY <1>1, <2>2, ClearersStay, BegunStays
<1> HIDE DEF m
<1>4. CASE Free(m) /\ queue' = queue
  <2>1. Done' = Done \cup {made + 1} BY <1>1, <1>2, <1>4, DoneWith
  <2>2. Delivery!Refuse
    BY <1>1, <1>4, <1>6, <2>1
    DEF Delivery!Refuse, Delivery!senderVars, Delivery!clientVars, Done, Begun
  <2>3. QED BY <2>2 DEF Delivery!Next
<1>5. CASE freed' = freed /\ queue' = Append(queue, m)
  <2>1. ToSet(queue') = ToSet(queue) \cup {m}
    <3>1. \A i \in 1..Len(queue) : queue[i].id < m.id
      <4>1. \A i \in 1..Len(queue) : queue[i].id <= made /\ queue[i] \in Msgs
        BY DEF Owned, AllMade, QueueTypes
      <4>2. made \in Int BY DEF QueueTypes
      <4>3. QED BY <1>2, <4>1, <4>2, MsgFields
    <3>2. \A n : n \in ToSet(queue') <=> n \in ToSet(queue) \/ n = m
      BY <1>1, <1>5, <3>1, Added DEF Owned
    <3>3. QED BY <3>2
  <2>2. Done' = Done BY <1>1, <1>5, DoneWith
  <2>3. ToSet(queue') = ToSet(queue) \cup {[id |-> made + 1, conn |-> c, seq |-> m.seq]}
    BY <1>2, <2>1
  <2>4. Delivery!HandOver(c, m.seq)
    BY <1>1, <1>6, <2>2, <2>3
    DEF Delivery!HandOver, Delivery!senderVars, Delivery!clientVars, Done, Begun
  <2>5. QED BY <1>2, <2>4 DEF Delivery!Next
<1>7. QED BY <1>3, <1>4, <1>5

(* An answer is dropped only if its client has gone.                       *)
LEMMA DropDelivers ==
  ASSUME SendInv, Next, DropStale
  PROVE  Delivery!Next
<1> USE DEF SendInv, Types
<1>1. pos \in 1..Len(queue) /\ queue[pos] \in Msgs BY Looking DEF DropStale
<1>2. PICK m \in Msgs : m = queue[pos] BY <1>1
<1>3. /\ queue' = RemoveAt(queue, pos) /\ Free(m) /\ Stale(m)
      /\ UNCHANGED <<made, psend, left, wire, open, seq, stray>>
  BY <1>2 DEF DropStale, sendVars, lifeVars, sockVars
<1>4. m \in ToSet(queue) /\ m.id \notin Done BY <1>1, <1>2, Elements, NotDone
<1>5. ToSet(queue') = ToSet(queue) \ {m}
  <2>1. \A n : n \in ToSet(queue') <=> n \in ToSet(queue) /\ n # m
    BY <1>1, <1>2, <1>3, Taken DEF Owned
  <2>2. QED BY <2>1
<1>6. Done' = Done \cup {m.id} BY <1>3, DoneWith
<1>7. Begun' = Begun
  <2>1. \A c \in Conns : Clearing(c)' <=> Clearing(c)
    BY DEF DropStale, thrVars, Clearing
  <2>2. QED BY <1>3, <2>1, BegunStays
<1>8. Delivery!GiveUp(m)
  BY <1>3, <1>4, <1>5, <1>6, <1>7
  DEF Delivery!GiveUp, Delivery!senderVars, Delivery!clientVars, Done, Stale, Begun
<1>9. QED BY <1>4, <1>8 DEF Delivery!Next

(* The send thread begins an answer: none is underway, it is for the       *)
(* client that is there, and if it is the first, it is the oldest.  On a   *)
(* connection that is being given back it begins in vain.                  *)
LEMMA TakeOutDelivers ==
  ASSUME SendInv, Streams, Next, TakeOut
  PROVE  Delivery!Next
<1> USE DEF SendInv, Types
<1>12. PICK m \in Msgs : m = queue[pos] BY TakesFor
<1>13. PICK c \in Conns : c = at[Sender]
  BY AtConn DEF TakeOut, SenderAt, SenderPlaces
<1>1. /\ pos \in 1..Len(queue) /\ m \in Msgs /\ pc[Sender] = "current"
      /\ queue' = RemoveAt(queue, pos)
      /\ c \in open => ForClient(c, m)
  BY <1>12, <1>13, TakesFor
<1>2. /\ throw[c] <= 0 /\ psend' = [psend EXCEPT ![c] = m]
      /\ left' = [left EXCEPT ![c] = PkgLen]
      /\ stray' = stray \cup Strayed(c)
      /\ UNCHANGED <<made, freed, wire, open, seq>>
  BY <1>12, <1>13 DEF TakeOut, lifeVars, sockVars
<1>3. c \in Conns /\ m.conn = c BY <1>1, <1>12, <1>13 DEF Found
<1>4. m \in ToSet(queue) /\ m.id \notin stray
  BY <1>1, <1>12, Elements DEF Owned, AllMade
<1>5. \A d \in Conns : Clearing(d)' <=> Clearing(d)
  <2>1. ~Release /\ ~ClearSent BY <1>1 DEF Release, ClearSent, SenderAt
  <2>2. ~WriteFree /\ ~WriteClear
    <3>1. queue' # queue
      <4>1. Len(queue') = Len(queue) - 1 /\ Len(queue) \in Nat
        BY <1>1, Taken DEF Owned, QueueTypes
      <4>2. QED BY <4>1
    <3>2. QED BY <3>1 DEF WriteFree, WriteClear, queueVars
  <2>3. QED BY <2>1, <2>2, ClearersStay
<1>6. \A n \in Ids : InQueue(n) => \A d \in Conns : psend[d] # Nobody => psend[d].id # n
  BY DEF Owned, SentFrom
<1>7. InQueue(m.id) /\ m.id \in Ids BY <1>1, <1>12, MsgFields DEF InQueue
<1>8. ToSet(queue') = ToSet(queue) \ {m}
  <2>1. \A n : n \in ToSet(queue') <=> n \in ToSet(queue) /\ n # m
    BY <1>1, <1>12, Taken DEF Owned
  <2>2. QED BY <2>1
<1>9. CASE ~Abandoned(c)
  <2>1. psend[c] = Nobody /\ ~MainOwes(c)
    <3>1. Turn(c) BY <1>3, <1>9 DEF Turns
    <3>2. ~SenderHas(c) BY <1>1, <1>13 DEF SenderHas, SenderAtConn
    <3>3. throw[c] # 1 BY <1>2
    <3>4. QED BY <3>1, <3>2, <3>3 DEF Turn
  <2>2. ~Clearing(c)
    <3>1. ~MainAtConn(c, {"clear"}) BY <1>3, <2>1, MainPast DEF MainAtConn
    <3>2. QED BY <1>1, <1>3, <3>1, ClearersAre DEF SenderAtConn
  <2>3. stray' = stray BY <1>2, <1>9 DEF Strayed
  <2>4. Begun' = [Begun EXCEPT ![c] = m] /\ Begun[c] = Nobody
    <3>1. psend'[c] = m /\ m # Nobody
      BY <1>1, <1>2, <1>3, NamesAssumption DEF ConnTypes, NamesAssumption
    <3>2. \A d \in Conns \ {c} : psend'[d] = psend[d] BY <1>2 DEF ConnTypes
    <3>3. Underway(c)' /\ ~Underway(c)
      BY <1>3, <1>4, <1>5, <2>1, <2>2, <2>3, <3>1 DEF Underway
    <3>4. \A d \in Conns \ {c} : Underway(d)' <=> Underway(d)
      BY <1>5, <2>3, <3>2 DEF Underway
    <3>5. QED BY <1>3, <3>1, <3>2, <3>3, <3>4 DEF Begun
  <2>5. ASSUME c \in open, wire[c] = <<>>, NEW n \in ToSet(queue), ForClient(c, n)
        PROVE  m.id <= n.id
    <3>1. PICK i \in 1..Len(queue) : n = queue[i] BY <2>5, Elements
    <3>2. i >= pos BY <1>1, <2>1, <2>5, <3>1 DEF Streams, Ahead
    <3>3. m.id \in Int BY <1>1, MsgFields
    <3>4. i # pos => queue[pos].id < queue[i].id
      <4>1. i # pos => pos < i BY <1>1, <3>2
      <4>2. QED BY <1>1, <3>1, <4>1 DEF Owned, InOrder
    <3>5. queue[i].id \in Int
      <4>1. queue[i] \in Msgs BY <3>1 DEF QueueTypes
      <4>2. QED BY <4>1, MsgFields
    <3>6. QED BY <1>12, <3>1, <3>3, <3>4, <3>5
  <2>6. c \in open => Delivery!For(c, m) /\ (wire[c] = <<>> => Delivery!Oldest(c, m))
    <3>1. \A n : Delivery!For(c, n) <=> ForClient(c, n) BY DEF Delivery!For, ForClient
    <3>2. QED BY <1>1, <2>5, <3>1 DEF Delivery!Oldest
  <2>7. Done' = Done BY <1>2, <2>3 DEF Done
  <2>8. Delivery!Begin(c, m)
    BY <1>2, <1>3, <1>4, <1>8, <2>4, <2>6, <2>7
    DEF Delivery!Begin, Delivery!clientVars, Done, Begun
  <2>9. QED BY <1>3, <1>4, <2>8 DEF Delivery!Next
<1>10. CASE Abandoned(c)
  <2>1. c \notin open BY <1>3, <1>10 DEF Abandoned, Sockets
  <2>2. stray' = stray \cup ({m.id} \cup Held(c)) BY <1>2, <1>10, <1>12 DEF Strayed
  <2>3. psend'[c] = m /\ \A d \in Conns \ {c} : psend'[d] = psend[d]
    BY <1>2, <1>3 DEF ConnTypes
  <2>4. ~Underway(c)' BY <2>2, <2>3 DEF Underway
  <2>5. ASSUME NEW d \in Conns \ {c} PROVE Underway(d)' <=> Underway(d)
    <3>1. psend[d] # Nobody => psend[d].id \notin {m.id} \cup Held(c)
      BY <1>3, <1>6, <1>7 DEF Held, Owned, OneEach
    <3>2. QED BY <1>5, <2>2, <2>3, <3>1 DEF Underway
  <2>6. Begun' = [Begun EXCEPT ![c] = Nobody]
    BY <1>3, <2>3, <2>4, <2>5 DEF Begun
  <2>7. Done' = Done \cup {m.id} \cup Delivery!Numbers(Begun[c])
    <3>1. Done' = Done \cup {m.id} \cup Held(c) BY <1>2, <2>2 DEF Done
    <3>2. CASE Underway(c)
      BY <1>3, <3>1, <3>2 DEF Held, Underway, Begun, Delivery!Numbers
    <3>3. CASE ~Underway(c)
      <4>1. Delivery!Numbers(Begun[c]) = {} BY <1>3, <3>3 DEF Begun, Delivery!Numbers
      <4>2. Held(c) \subseteq Done
        <5>1. CASE psend[c] = Nobody \/ psend[c].id \in stray
          BY <5>1 DEF Held, Done
        <5>2. CASE psend[c] # Nobody /\ psend[c].id \notin stray /\ Clearing(c)
          <6>1. psend[c].id \in Ids /\ HeldBy(c, psend[c].id)
            BY <1>3, <5>2, MsgFields DEF ConnTypes, HeldBy
          <6>2. ~InSending(psend[c].id)
            BY <1>3, <5>2 DEF InSending, HeldBy, Owned, OneEach
          <6>3. psend[c].id <= made /\ ~InQueue(psend[c].id)
            BY <1>3, <5>2 DEF Owned, SentFrom
          <6>4. freed[psend[c].id] = 1
            BY <5>2, <6>1, <6>2, <6>3 DEF Owned, FreedOnce
          <6>5. QED BY <6>1, <6>4 DEF Held, Done
        <5>3. QED BY <3>3, <5>1, <5>2 DEF Underway
      <4>3. QED BY <3>1, <4>1, <4>2
    <3>4. QED BY <3>2, <3>3
  <2>8. Delivery!BeginInVain(c, m)
    BY <1>2, <1>3, <1>4, <1>8, <2>1, <2>6, <2>7
    DEF Delivery!BeginInVain, Delivery!clientVars, Done, Begun, Delivery!Numbers
  <2>9. QED BY <1>3, <1>4, <2>8 DEF Delivery!Next
<1>11. QED BY <1>9, <1>10

(* What is sent is of the answer underway.                                 *)
LEMMA SendDelivers ==
  ASSUME SendInv, Streams, Next, SendDone \/ SendPart \/ WritePart \/ WriteDone
  PROVE  Delivery!Next \/ UNCHANGED Delivery!vars
<1> USE DEF SendInv, Types
<1>1. PICK t \in {Main, Sender} : pc[t] = "send" /\ Sends(at[t]) BY SendSteps
<1> DEFINE c == at[t]
<1>2. c \in Conns /\ UNCHANGED <<made, queue, psend, open, seq, freed, stray>>
  BY <1>1 DEF Sends
<1>6. \A d \in Conns : Clearing(d)' <=> Clearing(d)
  <2>1. ~Release /\ ~ClearSent /\ ~WriteFree /\ ~WriteClear
    <3>1. CASE SendDone \/ SendPart
      <4>1. pc[Sender] = "send" BY <3>1 DEF SendDone, SendPart, SenderAt
      <4>2. pc'[Main] = pc[Main] /\ pc'[Sender] # "send"
        BY <3>1, <4>1, Kinds, NamesAssumption
        DEF SendDone, SendPart, Goto, ThreadTypes, NamesAssumption
      <4>3. QED
        BY <4>1, <4>2, Kinds
        DEF Release, ClearSent, WriteFree, WriteClear, SenderAt, MainAt, Goto,
            ThreadTypes
    <3>2. CASE WritePart \/ WriteDone
      <4>1. pc[Main] = "send" BY <3>2 DEF WritePart, WriteDone, MainAt
      <4>2. pc'[Sender] = pc[Sender] /\ pc'[Main] # "send"
        BY <3>2, <4>1, Kinds, NamesAssumption
        DEF WritePart, WriteDone, EndEvent, Goto, ThreadTypes, NamesAssumption
      <4>3. QED
        BY <4>1, <4>2, Kinds
        DEF Release, ClearSent, WriteFree, WriteClear, SenderAt, MainAt, Goto,
            ThreadTypes
    <3>3. QED BY <3>1, <3>2
  <2>2. QED BY <2>1, ClearersStay
<1>3. CASE c \notin open
  <2>1. UNCHANGED <<left, wire>> BY <1>1, <1>3 DEF Sends
  <2>2. QED BY <1>2, <1>6, <2>1, NothingDelivered
<1>4. CASE c \in open
  <2>1. Transmit(c) BY <1>1, <1>4 DEF Sends
  <2>2. psend[c] # Nobody BY <1>1, <1>4, SendersHaveIt
  <2>8. Underway(c)
    <3>1. Turn(c) /\ ~Abandoned(c)
      BY <1>2, <1>4, OpenConn DEF Sockets, Abandoned
    <3>2. psend[c].id \notin stray BY <1>2, <2>2, <3>1 DEF Owned, SentFrom
    <3>3. CASE t = Sender
      <4>1. SenderHas(c) /\ ~SenderAtConn(c, {"clear"})
        BY <1>1, <3>3 DEF SenderHas, SenderAtConn
      <4>2. ~MainAtConn(c, {"clear"})
        BY <1>2, <3>1, <4>1, MainPast DEF Turn, MainAtConn
      <4>3. QED BY <1>2, <2>2, <3>2, <4>1, <4>2, ClearersAre DEF Underway
    <3>4. CASE t = Main
      <4>1. MainOwes(c) /\ ~MainAtConn(c, {"clear"})
        BY <1>1, <1>2, <3>4, MainPast DEF MainAtConn
      <4>2. ~SenderAtConn(c, {"clear"})
        BY <1>2, <3>1, <4>1, ClearersAre DEF Turn
      <4>3. QED BY <1>2, <2>2, <3>2, <4>1, <4>2, ClearersAre DEF Underway
    <3>5. QED BY <3>3, <3>4
  <2> DEFINE n == Fits(c)
  <2>3. n \in Nat /\ n <= left[c] /\ left[c] \in Nat
    BY <1>2, <2>1, Sent, OneConn, SizesAssumption DEF SizesAssumption
  <2>4. /\ left' = [left EXCEPT ![c] = @ - n]
        /\ wire' = [wire EXCEPT ![c] = @ \o [i \in 1..n |-> psend[c]]]
    BY <2>1 DEF Transmit
  <2> HIDE DEF n, c
  <2>5. CASE n = 0
    <3>1. left' = left BY <1>2, <2>3, <2>4, <2>5 DEF ConnTypes
    <3>2. wire[c] \o [i \in 1..n |-> psend[c]] = wire[c]
      <4>1. [i \in 1..n |-> psend[c]] = <<>> BY <2>5
      <4>2. wire[c] \in Seq(Msgs \cup {Nobody}) BY <1>2, OneConn
      <4>3. QED BY <4>1, <4>2, ConcatEmptySeq
    <3>3. wire' = wire BY <2>4, <3>2 DEF SocketTypes
    <3>4. QED BY <1>2, <1>6, <3>1, <3>3, NothingDelivered
  <2>6. CASE n # 0
    <3>1. n \in 1..left[c] BY <2>3, <2>6
    <3>2. Done' = Done /\ Begun' = Begun BY <1>2, <1>6, BegunStays DEF Done
    <3>3. Begun[c] = psend[c] BY <1>2, <2>8 DEF Begun
    <3>4. Delivery!Send(c, n)
      BY <1>2, <1>4, <2>2, <2>4, <3>2, <3>3
      DEF Delivery!Send, Delivery!clientVars, Done, Begun
    <3>5. QED BY <1>2, <3>1, <3>4 DEF Delivery!Next
  <2>7. QED BY <2>5, <2>6
<1>5. QED BY <1>3, <1>4

(* An answer is freed when all of it is sent, or its client has gone.  The *)
(* buffer of a stray answer was given up before.                           *)
LEMMA FreeDelivers ==
  ASSUME SendInv, Streams, Release \/ WriteFree
  PROVE  Delivery!Next \/ UNCHANGED Delivery!vars
<1> USE DEF SendInv, Types
<1>1. PICK c \in Conns : \/ Release /\ c = at[Sender] /\ SenderAtConn(c, {"release"})
                         \/ WriteFree /\ c = at[Main] /\ MainAtConn(c, {"free"})
  BY AtConn
  DEF Release, WriteFree, SenderAt, MainAt, SenderPlaces, MainPlaces, SenderAtConn,
      MainAtConn
<1>2. /\ IF psend[c] = Nobody THEN UNCHANGED freed ELSE Free(psend[c])
      /\ UNCHANGED <<made, queue, psend, left, wire, open, seq, stray>>
  BY <1>1 DEF Release, WriteFree, FreeHeld, queueVars, sendVars, lifeVars, sockVars
<1>3. \A d \in Conns : Clearing(d)' <=> Clearing(d) \/ d = c
  <2>1. CASE Release /\ c = at[Sender]
    <3>1. /\ pc'[Sender] = "clear" /\ pc[Sender] = "release" /\ at' = at
          /\ pc'[Main] = pc[Main]
      BY <2>1, Kinds, NamesAssumption
      DEF Release, SenderAt, Goto, ThreadTypes, NamesAssumption
    <3>2. QED BY <2>1, <3>1 DEF Clearing
  <2>2. CASE WriteFree /\ c = at[Main]
    <3>1. /\ pc'[Main] = "clear" /\ pc[Main] = "free" /\ at' = at
          /\ pc'[Sender] = pc[Sender]
      BY <2>2, Kinds, NamesAssumption
      DEF WriteFree, MainAt, Goto, ThreadTypes, NamesAssumption
    <3>2. QED BY <2>2, <3>1 DEF Clearing
  <2>3. QED BY <1>1, <2>1, <2>2
<1>4. \A d \in Conns \ {c} : Underway(d)' <=> Underway(d) BY <1>2, <1>3 DEF Underway
<1>5. ~Underway(c)' BY <1>3 DEF Underway
<1>6. Begun' = [Begun EXCEPT ![c] = Nobody] BY <1>2, <1>4, <1>5 DEF Begun
<1>7. CASE Underway(c)
  <2>1. psend[c] # Nobody /\ psend[c] \in Msgs BY <1>7 DEF Underway, ConnTypes
  <2>2. Done' = Done \cup {psend[c].id} BY <1>2, <2>1, DoneWith
  <2>3. psend[c].id \notin Done BY <1>7, NotDone
  <2>4. c \in open => left[c] = 0
    BY <1>1, <2>1, FreesSent DEF SenderFrees, MainFrees, SenderAtConn, MainAtConn
  <2>5. Begun[c] = psend[c] BY <1>7 DEF Begun
  <2>6. Delivery!Finish(c)
    BY <1>2, <1>6, <2>1, <2>2, <2>3, <2>4, <2>5
    DEF Delivery!Finish, Delivery!clientVars, Done, Begun
  <2>7. QED BY <2>6 DEF Delivery!Next
<1>8. CASE ~Underway(c)
  <2>1. Begun' = Begun BY <1>6, <1>8 DEF Begun
  <2>2. Done' = Done
    <3>1. CASE psend[c] = Nobody BY <1>2, <3>1, DoneWith
    <3>2. CASE psend[c] # Nobody /\ psend[c].id \in stray
      <4>1. psend[c] \in Msgs BY <3>2 DEF ConnTypes
      <4>2. Done' = Done \cup {psend[c].id} BY <1>2, <3>2, <4>1, DoneWith
      <4>3. QED BY <3>2, <4>2 DEF Done
    <3>3. CASE psend[c] # Nobody /\ psend[c].id \notin stray
      <4>1. Clearing(c) BY <1>8, <3>3 DEF Underway
      <4>2. Apart(c) BY DEF Aparts
      <4>3. CASE SenderAtConn(c, {"release"})
        <5>1. SenderHas(c) /\ ~SenderAtConn(c, {"clear"})
          BY <4>3 DEF SenderHas, SenderAtConn
        <5>2. MainAtConn(c, {"clear"}) BY <4>1, <5>1, ClearersAre
        <5>3. MainOwes(c) BY <5>2, MainPast DEF MainAtConn
        <5>4. QED BY <3>3, <4>2, <5>1, <5>3 DEF Apart
      <4>4. CASE MainAtConn(c, {"free"})
        <5>1. MainOwes(c) /\ ~MainAtConn(c, {"clear"})
          BY <4>4, MainPast DEF MainAtConn
        <5>2. SenderHas(c) BY <4>1, <5>1, ClearersAre
        <5>3. QED BY <3>3, <4>2, <5>1, <5>2 DEF Apart
      <4>5. QED BY <1>1, <4>3, <4>4
    <3>4. QED BY <3>1, <3>2, <3>3
  <2>3. QED BY <1>2, <2>1, <2>2 DEF Delivery!vars, Done, Begun
<1>9. QED BY <1>7, <1>8

(* The pointer to what was freed is cleared: nothing of it was underway.   *)
LEMMA ClearDelivers ==
  ASSUME SendInv, ClearSent \/ WriteClear
  PROVE  UNCHANGED Delivery!vars
<1> USE DEF SendInv, Types
<1>1. PICK c \in Conns : \/ ClearSent /\ c = at[Sender] /\ pc[Sender] = "clear"
                         \/ WriteClear /\ c = at[Main] /\ pc[Main] = "clear"
  BY AtConn DEF ClearSent, WriteClear, SenderAt, MainAt, SenderPlaces, MainPlaces
<1>2. /\ psend' = [psend EXCEPT ![c] = Nobody]
      /\ UNCHANGED <<made, queue, left, wire, open, seq, freed, stray>>
  BY <1>1
  DEF ClearSent, WriteClear, Clear, queueVars, histVars, lifeVars, sockVars
<1>3. Clearing(c) BY <1>1 DEF Clearing
<1>4. \A d \in Conns \ {c} : Clearing(d)' <=> Clearing(d)
  <2>1. CASE ClearSent /\ c = at[Sender]
    <3>1. /\ pc'[Sender] = "look" /\ pc'[Main] = pc[Main] /\ at'[Main] = at[Main]
      BY <2>1, Kinds, NamesAssumption DEF ClearSent, Goto, ThreadTypes, NamesAssumption
    <3>2. QED BY <2>1, <3>1 DEF Clearing
  <2>2. CASE WriteClear /\ c = at[Main]
    <3>1. /\ pc'[Main] = "lower" /\ pc'[Sender] = pc[Sender] /\ at' = at
      BY <2>2, Kinds, NamesAssumption DEF WriteClear, Goto, ThreadTypes, NamesAssumption
    <3>2. QED BY <2>2, <3>1 DEF Clearing
  <2>3. QED BY <1>1, <2>1, <2>2
<1>5. \A d \in Conns \ {c} : psend'[d] = psend[d] BY <1>2 DEF ConnTypes
<1>6. psend'[c] = Nobody BY <1>2 DEF ConnTypes
<1>7. Begun' = Begun
  <2>1. \A d \in Conns \ {c} : Underway(d)' <=> Underway(d)
    BY <1>2, <1>4, <1>5 DEF Underway
  <2>2. ~Underway(c) /\ ~Underway(c)' BY <1>3, <1>6 DEF Underway
  <2>3. QED BY <1>5, <2>1, <2>2 DEF Begun
<1>8. QED BY <1>2, <1>7 DEF Delivery!vars, Begun

(* A connection is closed, retired, used again: its client leaves, is      *)
(* forgotten, and the next one arrives.                                    *)
LEMMA LifeDelivers ==
  ASSUME SendInv, Next,
         (\E t \in Closers : CloseSocket(t) \/ Retire(t)) \/ \E c \in Conns : Reuse(c)
  PROVE  Delivery!Next \/ UNCHANGED Delivery!vars
<1> USE DEF SendInv, Types
<1>1. ASSUME NEW t \in Closers, CloseStep(t)
      PROVE  UNCHANGED <<made, queue, psend, left, wire, freed, stray>> /\ Begun' = Begun
  <2>1. UNCHANGED <<made, queue, psend, left, wire, freed, stray>>
    BY <1>1, CloserAlone
  <2>2. /\ \A u \in Threads \ {t} : pc'[u] = pc[u] /\ at'[u] = at[u]
        /\ pc[t] # "clear" /\ pc'[t] # "clear"
    BY <1>1, CloserAlone, Kinds
    DEF OthersStay, CloseStep, CloseSocket, Drop, Retire, Goto, ThreadTypes
  <2>3. \A c \in Conns : Clearing(c)' <=> Clearing(c) BY <2>2, Kinds DEF Clearing
  <2>4. QED BY <2>1, <2>3, BegunStays
<1>2. ASSUME NEW t \in Closers, CloseSocket(t)
      PROVE  Delivery!Next \/ UNCHANGED Delivery!vars
  <2>1. /\ open' = open \ {at[t]} /\ Begun' = Begun
        /\ UNCHANGED <<made, queue, left, wire, seq, freed, stray>>
    BY <1>1, <1>2 DEF CloseStep, CloseSocket, lifeVars
  <2>2. CASE at[t] \notin open
    <3>1. open' = open BY <2>1, <2>2
    <3>2. QED BY <2>1, <3>1 DEF Delivery!vars, Begun
  <2>3. CASE at[t] \in open
    <3>1. Delivery!Leave(at[t])
      BY <2>1, <2>3 DEF Delivery!Leave, Delivery!senderVars, Begun
    <3>2. at[t] \in Conns BY <2>3 DEF SocketTypes
    <3>3. QED BY <3>1, <3>2 DEF Delivery!Next
  <2>4. QED BY <2>2, <2>3
<1>3. ASSUME NEW t \in Closers, Retire(t)
      PROVE  Delivery!Next \/ UNCHANGED Delivery!vars
  <2>1. /\ UNCHANGED <<made, queue, left, wire, open, freed, stray>> /\ Begun' = Begun
        /\ pc[t] = "retire"
        /\ IF at[t] \in retired THEN UNCHANGED seq
           ELSE seq' = [seq EXCEPT ![at[t]] = @ + 1]
    BY <1>1, <1>3 DEF CloseStep, Retire, sockVars, lifeVars
  <2>2. CASE at[t] \in retired BY <2>1, <2>2 DEF Delivery!vars, Begun
  <2>3. CASE at[t] \notin retired
    <3>1. at[t] \in Conns /\ at[t] \notin open BY <2>1, AtConn DEF ClosePCs, Sockets
    <3>2. Delivery!Forget(at[t])
      BY <2>1, <2>3, <3>1 DEF Delivery!Forget, Delivery!senderVars, Begun
    <3>3. QED BY <3>1, <3>2 DEF Delivery!Next
  <2>4. QED BY <2>2, <2>3
<1>4. ASSUME NEW c \in Conns, Reuse(c)
      PROVE  Delivery!Next
  <2>1. /\ c \in retired /\ open' = open \cup {c} /\ seq' = [seq EXCEPT ![c] = @ + 2]
        /\ IF psend[c] = Nobody THEN UNCHANGED freed ELSE Free(psend[c])
        /\ psend' = [psend EXCEPT ![c] = Nobody] /\ left' = [left EXCEPT ![c] = 0]
        /\ wire' = [wire EXCEPT ![c] = <<>>] /\ UNCHANGED <<made, queue, stray, pc, at>>
    BY <1>4 DEF Reuse, FreeHeld, Clear, queueVars, thrVars
  <2>2. c \notin open BY <2>1 DEF Sockets
  <2>3. psend[c] # Nobody => psend[c] \in Msgs BY DEF ConnTypes
  <2>4. Done' = Done \cup Held(c) BY <2>1, <2>3, DoneWith DEF Held
  <2>5. ~Clearing(c)
    BY <1>4, Kinds DEF Reuse, Working, Clearing
  <2>6. Done \cup Held(c) = Done \cup Delivery!Numbers(Begun[c])
    <3>1. CASE Underway(c) BY <3>1 DEF Held, Underway, Begun, Delivery!Numbers
    <3>2. CASE ~Underway(c)
      BY <2>5, <3>2 DEF Held, Underway, Begun, Delivery!Numbers, Done
    <3>3. QED BY <3>1, <3>2
  <2>7. Begun' = [Begun EXCEPT ![c] = Nobody]
    <3>1. psend'[c] = Nobody /\ \A d \in Conns \ {c} : psend'[d] = psend[d]
      BY <2>1 DEF ConnTypes
    <3>2. \A d \in Conns : Clearing(d)' <=> Clearing(d) BY <2>1 DEF Clearing
    <3>3. ~Underway(c)' /\ \A d \in Conns \ {c} : Underway(d)' <=> Underway(d)
      BY <2>1, <3>1, <3>2 DEF Underway
    <3>4. QED BY <3>1, <3>3 DEF Begun
  <2>8. Delivery!Arrive(c)
    BY <2>1, <2>2, <2>4, <2>6, <2>7 DEF Delivery!Arrive, Delivery!Numbers, Done, Begun
  <2>9. QED BY <2>8 DEF Delivery!Next
<1>5. QED BY <1>2, <1>3, <1>4

(* Every step.                                                             *)
LEMMA StepDelivers ==
  ASSUME SendInv, Streams, [Next]_<<vars, caps>>
  PROVE  [Delivery!Next]_Delivery!vars
<1>1. CASE UNCHANGED <<vars, caps>>
  <2>1. UNCHANGED <<made, queue, psend, left, wire, open, seq, freed, stray, pc, at>>
    BY <1>1
    DEF vars, queueVars, sendVars, lifeVars, sockVars, histVars, thrVars
  <2>2. QED BY <2>1, NothingDelivered DEF Clearing
<1>2. CASE Next
  <2>1. ASSUME UNCHANGED <<made, queue, psend, left, wire, open, seq, freed, stray>>,
               ~Release, ~ClearSent, ~WriteFree, ~WriteClear
        PROVE  UNCHANGED Delivery!vars
    BY <1>2, <2>1, ClearersStay, NothingDelivered DEF SendInv
  <2>2. CASE DropStale BY <1>2, <2>2, DropDelivers
  <2>3. CASE TakeOut BY <1>2, <2>3, TakeOutDelivers
  <2>4. CASE SendDone \/ SendPart \/ WritePart \/ WriteDone BY <1>2, <2>4, SendDelivers
  <2>5. CASE Release \/ WriteFree BY <2>5, FreeDelivers
  <2>6. CASE ClearSent \/ WriteClear BY <2>6, ClearDelivers
  <2>7. CASE (\E t \in Closers : CloseSocket(t) \/ Retire(t)) \/ \E c \in Conns : Reuse(c)
    BY <1>2, <2>7, LifeDelivers
  <2>8. ASSUME NEW c \in Conns, MsgSend(c) PROVE [Delivery!Next]_Delivery!vars
    BY <1>2, <2>8, MsgSendDelivers
  <2>9. CASE UNCHANGED <<made, queue, psend, left, wire, open, seq, freed, stray>>
    BY <2>1, <2>5, <2>6, <2>9
  <2>10. QED
    BY <1>2, <2>2, <2>3, <2>4, <2>5, <2>6, <2>7, <2>8, <2>9
    DEF Next, SenderStep, MainStep, CloseStep, ClientStep, queueVars, sendVars, lifeVars,
        sockVars, histVars, Wake, StartPass, EndPass, FindCurrent, Skip, Raise, ArmOut,
        ReadSome, ReadEnd, NotWritable, HangUp, Write, DisarmOut, Lower, Post, EpollWait,
        Kick, Drop, ClientSends, ClientReads, ClientEnds, ClientResets, SendPipe
<1>3. QED BY <1>1, <1>2

(* To the handlers, sending is AnswerDelivery: an answer goes to its       *)
(* client whole and once, or it is dropped because that client has gone.   *)
THEOREM SendRefinesAnswerDelivery ==
  ASSUME ~UnreadAtEof
  PROVE  Safe => ImplementsAnswerDelivery
<1>1. Init => Streams BY InitStreams
<1>2. SendInv /\ SendInv' /\ Streams /\ [Next]_<<vars, caps>> => Streams'
  BY StepStreams
<1>3. Init => Delivery!Init BY InitDelivers
<1>4. SendInv /\ Streams /\ [Next]_<<vars, caps>> => [Delivery!Next]_Delivery!vars
  BY StepDelivers
<1>5. QED
  BY <1>1, <1>2, <1>3, <1>4, SendInvariant, PTL
  DEF Safe, ImplementsAnswerDelivery, Delivery!Spec
=============================================================================
