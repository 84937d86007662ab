-------------------------- MODULE TimerQueueProofs --------------------------
(***************************************************************************)
(* Proofs about TimerQueue, for any connections, any times and either      *)
(* setting of Sock_TimeOutKick: every client has exactly one entry, the    *)
(* queue stays in order and what is read without the lock is exact, nobody *)
(* is cut off in the place of another, and the silent are cut off in time. *)
(***************************************************************************)
EXTENDS TimerQueue, FiniteSetTheorems, SequenceTheorems, TLAPS

Closes == {"delete", "erase", "retire"}
FreePlaces == {"idle", "asleep", "clock", "scan", "over", "next"}
MainPlaces == {"idle", "insert", "inserted"} \cup Closes
TimerPlaces == {"asleep", "clock", "scan", "over", "next", "check"} \cup Closes
WorkerPlaces == {"idle"} \cup Closes

(* The types.                                                              *)
QueueTypes ==
  /\ queue \in Seq(Entries) /\ idleList \in Seq(Entries)
  /\ size \in Int /\ value \in Nat /\ mutex \in Threads \cup {Nobody}
ClientTypes ==
  /\ clients \subseteq Conns /\ silent \subseteq Conns
  /\ seq \in [Conns -> Nat] /\ ping \in [Conns -> Nat]
ClockTypes ==
  /\ now \in Nat /\ futtime \in Nat /\ absTime \in Nat /\ curTime \in Nat
ThreadTypes ==
  /\ pc \in [Threads -> Places] /\ at \in [Threads -> Conns \cup {Nobody}]
  /\ since \in [Threads -> Nat]
  /\ tmpmsg \in Entries \cup {NoEntry} /\ tmpmsg.conn = at[Timer]
FlagTypes == kickNow \in BOOLEAN /\ woken \in BOOLEAN
Types == QueueTypes /\ ClientTypes /\ ClockTypes /\ ThreadTypes /\ FlagTypes

(* Where threads are, and who has the mutex.                               *)
Stations ==
  /\ pc[Main] \in MainPlaces /\ pc[Timer] \in TimerPlaces
  /\ pc[Worker] \in WorkerPlaces
  /\ \A t \in Threads : at[t] = Nobody <=> pc[t] \in FreePlaces
  /\ \A t \in Threads : mutex = t <=> pc[t] \in {"inserted", "erase", "over"}

(* The size is exact at every step; the value while nobody has the mutex,  *)
(* and while the monitor has it.                                           *)
Sorted(q) == \A i, j \in 1..Len(q) : i < j => q[i].key <= q[j].key
Gate ==
  /\ size = Len(queue) /\ Sorted(queue)
  /\ (mutex = Nobody \/ pc[Timer] = "over") /\ queue # <<>> => value = queue[1].key

(* Every client that has been silent for too long is known as silent; the  *)
(* monitor's clock is not ahead; it cuts off silent clients, and the one   *)
(* it has checked.                                                         *)
Silence ==
  /\ curTime <= now
  /\ \A c \in clients : now - ping[c] > Limit => c \in silent
  /\ at[Timer] \in clients => tmpmsg.seq = seq[at[Timer]]
  /\ pc[Timer] \in Closes /\ ~kickNow /\ at[Timer] \in clients => at[Timer] \in silent
  /\ wronged = FALSE

(* Main enters a client that nobody else knows of yet.                     *)
Alone ==
  pc[Main] = "insert" =>
    at[Main] \in clients /\ at[Timer] # at[Main] /\ at[Worker] # at[Main]

(* Entries of one connection there is at most one of in the queue; it is   *)
(* its client's, who has been entered and not been taken out.              *)
Leaving(c) == \E t \in Threads : at[t] = c /\ pc[t] = "retire"
OneEntry(q) == \A i, j \in 1..Len(q) : q[i].conn = q[j].conn => i = j
Owned(e) ==
  e.conn \in clients /\ e.seq = seq[e.conn] /\ ~Entering(e.conn) /\ ~Leaving(e.conn)
Entered == OneEntry(queue) /\ \A i \in 1..Len(queue) : Owned(queue[i])

(* The entries the monitor has taken are of clients that have been         *)
(* entered.  If it is to cut off all whose time is up, it has at most one  *)
(* of each client, who is then not in the queue.                           *)
Taken(e) ==
  e.seq <= seq[e.conn] /\ (e.conn \notin clients \/ Entering(e.conn) => e.seq < seq[e.conn])
Held(i, c) == idleList[i].conn = c /\ idleList[i].seq = seq[c]
InChecking(c) == at[Timer] = c /\ pc[Timer] \in {"check", "delete"}
InListOf(c) == \E i \in 1..Len(queue) : queue[i].conn = c
OnlyHeld(c) ==
  /\ \A i, j \in 1..Len(idleList) : Held(i, c) /\ Held(j, c) => i = j
  /\ \A i \in 1..Len(idleList) : Held(i, c) => ~InChecking(c) /\ ~InListOf(c)
  /\ InChecking(c) => ~InListOf(c)
AllTaken == \A i \in 1..Len(idleList) : Taken(idleList[i])
Hands == AllTaken /\ (kickNow => \A c \in clients : OnlyHeld(c))

(* Every client has an entry until it is taken out.                        *)
Watched(c) ==
  \/ InListOf(c) \/ Entering(c) \/ Closing(c)
  \/ kickNow /\ (InChecking(c) \/ \E i \in 1..Len(idleList) : Held(i, c))
Watch == \A c \in clients : Watched(c)

(* The inductive invariant.                                                *)
TimerInv == Types /\ Stations /\ Gate /\ Silence /\ Alone /\ Entered /\ Hands /\ Watch

-----------------------------------------------------------------------------
(* Sequences of entries: one taken out at place p, one put in there.       *)
Without(r, q, p) ==
  /\ Len(r) = Len(q) - 1
  /\ \A j \in 1..Len(q) - 1 : r[j] = IF j < p THEN q[j] ELSE q[j + 1]
With(r, q, p, e) ==
  /\ Len(r) = Len(q) + 1
  /\ \A j \in 1..Len(q) + 1 :
       r[j] = IF j < p THEN q[j] ELSE IF j = p THEN e ELSE q[j - 1]

(* RemoveAt takes one out.                                                 *)
LEMMA Removed ==
  ASSUME NEW S, NEW q \in Seq(S), NEW p \in 1..Len(q)
  PROVE  RemoveAt(q, p) \in Seq(S) /\ Without(RemoveAt(q, p), q, p)
<1> DEFINE front == SubSeq(q, 1, p - 1)
           back == SubSeq(q, p + 1, Len(q))
<1>1. /\ front \in Seq(S) /\ Len(front) = p - 1
      /\ back \in Seq(S) /\ Len(back) = Len(q) - p
      /\ \A j \in 1..p - 1 : front[j] = q[j]
      /\ \A j \in 1..Len(q) - p : back[j] = q[p + j]
  OBVIOUS
<1>2. RemoveAt(q, p) = front \o back BY DEF RemoveAt
<1> HIDE DEF front, back
<1>3. /\ front \o back \in Seq(S) /\ Len(front \o back) = Len(q) - 1
      /\ \A j \in 1..Len(q) - 1 :
           (front \o back)[j] = IF j <= p - 1 THEN front[j] ELSE back[j - (p - 1)]
  <2>1. /\ front \o back \in Seq(S) /\ Len(front \o back) = Len(front) + Len(back)
        /\ \A j \in 1..Len(front) + Len(back) :
             (front \o back)[j] = IF j <= Len(front) THEN front[j] ELSE back[j - Len(front)]
    BY <1>1, ConcatProperties
  <2>2. Len(front) + Len(back) = Len(q) - 1 BY <1>1
  <2> QED BY <1>1, <2>1, <2>2
<1>4. ASSUME NEW j \in 1..Len(q) - 1
      PROVE  (front \o back)[j] = IF j < p THEN q[j] ELSE q[j + 1]
  <2>1. CASE j < p
    BY <1>1, <1>3, <2>1
  <2>2. CASE ~(j < p)
    <3>1. j - (p - 1) \in 1..Len(q) - p /\ p + (j - (p - 1)) = j + 1 BY <2>2
    <3>2. (front \o back)[j] = back[j - (p - 1)] BY <1>3, <2>2
    <3>3. back[j - (p - 1)] = q[j + 1] BY <1>1, <3>1
    <3>4. QED BY <2>2, <3>2, <3>3
  <2>3. QED BY <2>1, <2>2
<1>5. QED BY <1>2, <1>3, <1>4 DEF Without

(* Tail takes the first one out.                                           *)
LEMMA TailRemoves ==
  ASSUME NEW q \in Seq(Entries), q # <<>>
  PROVE  Tail(q) \in Seq(Entries) /\ Without(Tail(q), q, 1) /\ 1 \in 1..Len(q)
BY DEF Without

(* InsertAt puts one in.                                                   *)
LEMMA PutIn ==
  ASSUME NEW S, NEW q \in Seq(S), NEW p \in 1..Len(q) + 1, NEW e \in S
  PROVE  InsertAt(q, p, e) \in Seq(S) /\ With(InsertAt(q, p, e), q, p, e)
<1> DEFINE front == SubSeq(q, 1, p - 1)
           back == SubSeq(q, p, Len(q))
           mid == front \o <<e>>
<1>1. /\ front \in Seq(S) /\ Len(front) = p - 1
      /\ back \in Seq(S) /\ Len(back) = Len(q) - p + 1
      /\ \A j \in 1..p - 1 : front[j] = q[j]
      /\ \A j \in 1..Len(q) - p + 1 : back[j] = q[p - 1 + j]
      /\ <<e>> \in Seq(S) /\ Len(<<e>>) = 1 /\ <<e>>[1] = e
  OBVIOUS
<1>2. InsertAt(q, p, e) = mid \o back BY DEF InsertAt
<1> HIDE DEF front, back
<1>3. /\ mid \in Seq(S) /\ Len(mid) = p
      /\ \A j \in 1..p : mid[j] = IF j < p THEN q[j] ELSE e
  <2>1. /\ mid \in Seq(S) /\ Len(mid) = p - 1 + 1
        /\ \A j \in 1..p - 1 + 1 :
             mid[j] = IF j <= p - 1 THEN front[j] ELSE <<e>>[j - (p - 1)]
    BY <1>1, ConcatProperties
  <2>2. ASSUME NEW j \in 1..p PROVE mid[j] = IF j < p THEN q[j] ELSE e
    <3>1. CASE j < p BY SMTT(30), <1>1, <2>1, <3>1
    <3>2. CASE j = p
      <4>1. j - (p - 1) = 1 BY <3>2
      <4>2. mid[j] = <<e>>[j - (p - 1)] BY <2>1, <3>2
      <4>3. QED BY <1>1, <3>2, <4>1, <4>2
    <3>3. j < p \/ j = p OBVIOUS
    <3>4. QED BY <3>1, <3>2, <3>3
  <2>3. QED BY <2>1, <2>2
<1> HIDE DEF mid
<1>4. /\ mid \o back \in Seq(S) /\ Len(mid \o back) = Len(q) + 1
      /\ \A j \in 1..Len(q) + 1 :
           (mid \o back)[j] = IF j <= p THEN mid[j] ELSE back[j - p]
  <2>1. /\ mid \o back \in Seq(S) /\ Len(mid \o back) = Len(mid) + Len(back)
        /\ \A j \in 1..Len(mid) + Len(back) :
             (mid \o back)[j] = IF j <= Len(mid) THEN mid[j] ELSE back[j - Len(mid)]
    BY ZenonT(40), <1>1, <1>3, ConcatProperties
  <2>2. Len(mid) + Len(back) = Len(q) + 1 BY <1>1, <1>3
  <2> QED BY <1>1, <1>3, <2>1, <2>2
<1>5. ASSUME NEW j \in 1..Len(q) + 1
      PROVE  (mid \o back)[j] = IF j < p THEN q[j] ELSE IF j = p THEN e ELSE q[j - 1]
  <2>1. CASE j <= p BY <1>3, <1>4, <2>1
  <2>2. CASE ~(j <= p)
    <3>1. j - p \in 1..Len(q) - p + 1 /\ p - 1 + (j - p) = j - 1 BY <2>2
    <3>2. (mid \o back)[j] = back[j - p] BY <1>4, <2>2
    <3>3. back[j - p] = q[j - 1] BY <1>1, <3>1
    <3>4. QED BY <2>2, <3>2, <3>3
  <2>3. QED BY <2>1, <2>2
<1>6. QED BY <1>2, <1>4, <1>5 DEF With

(* The entries of a queue.                                                 *)
LEMMA Fields ==
  ASSUME NEW q \in Seq(Entries), NEW i \in 1..Len(q)
  PROVE  /\ q[i] \in Entries /\ q[i].key \in Nat /\ q[i].conn \in Conns
         /\ q[i].seq \in Nat
<1>1. q[i] \in Entries OBVIOUS
<1>2. \A e \in Entries : e.key \in Nat /\ e.conn \in Conns /\ e.seq \in Nat
  BY DEF Entries
<1>3. QED BY <1>1, <1>2

(* In a queue in order the entries with keys up to k come first, so that   *)
(* their number is the place behind the last of them.                      *)
LEMMA Behind ==
  ASSUME NEW q \in Seq(Entries), Sorted(q), NEW k \in Nat,
         NEW n, n = Cardinality({i \in 1..Len(q) : q[i].key <= k})
  PROVE  n \in 0..Len(q) /\ \A i \in 1..Len(q) : q[i].key <= k <=> i <= n
<1> DEFINE B == {i \in 1..Len(q) : q[i].key <= k}
<1>1. \A i \in 1..Len(q) : q[i].key \in Nat BY Fields
<1>2. \A m \in 0..Len(q) : IsFiniteSet(1..m) /\ Cardinality(1..m) = m
  BY FS_Interval
<1>3. IsFiniteSet(B) /\ n \in Nat /\ n <= Len(q)
  BY <1>2, FS_Subset, FS_CardinalityType
<1>4. ASSUME NEW i \in 1..Len(q), q[i].key <= k PROVE i <= n
  <2>1. 1..i \subseteq B BY <1>1, <1>4 DEF Sorted
  <2>2. Cardinality(1..i) <= n BY <1>3, <2>1, FS_Subset
  <2>3. QED BY <1>2, <2>2
<1>5. ASSUME NEW i \in 1..Len(q), ~(q[i].key <= k) PROVE ~(i <= n)
  <2>1. ASSUME NEW j \in B PROVE j < i
    <3>1. CASE i < j BY <1>1, <1>5, <2>1, <3>1 DEF Sorted
    <3>2. CASE i = j BY <1>5, <2>1, <3>2
    <3>3. QED BY <2>1, <3>1, <3>2
  <2>2. B \subseteq 1..i - 1 BY <2>1
  <2>3. i - 1 \in 0..Len(q) OBVIOUS
  <2>4. n <= i - 1 BY <1>2, <2>2, <2>3, FS_Subset
  <2>5. QED BY <1>3, <2>4
<1>6. QED BY <1>3, <1>4, <1>5

(* An insertion puts one in and keeps the order.                           *)
LEMMA Insertion ==
  ASSUME NEW q \in Seq(Entries), Sorted(q), NEW e \in Entries
  PROVE  /\ Inserted(q, e) \in Seq(Entries) /\ Sorted(Inserted(q, e))
         /\ \E p \in 1..Len(q) + 1 : With(Inserted(q, e), q, p, e)
<1> DEFINE n == Cardinality({i \in 1..Len(q) : q[i].key <= e.key})
           r == Inserted(q, e)
<1>1. e.key \in Nat /\ \A i \in 1..Len(q) : q[i].key \in Nat
  <2>1. e.key \in Nat BY DEF Entries
  <2>2. QED BY <2>1, Fields
<1>2. n \in 0..Len(q) /\ \A i \in 1..Len(q) : q[i].key <= e.key <=> i <= n
  BY ZenonT(40), <1>1, Behind
<1>3. r = InsertAt(q, n + 1, e) BY DEF Inserted
<1> HIDE DEF n, r
<1>4. r \in Seq(Entries) /\ With(r, q, n + 1, e) /\ n + 1 \in 1..Len(q) + 1
  <2>1. n + 1 \in 1..Len(q) + 1 BY <1>2
  <2>2. \A p \in 1..Len(q) + 1 : /\ InsertAt(q, p, e) \in Seq(Entries)
                                 /\ With(InsertAt(q, p, e), q, p, e)
    BY PutIn
  <2>3. QED BY <1>3, <2>1, <2>2
<1>5. ASSUME NEW i \in 1..Len(r), NEW j \in 1..Len(r), i < j PROVE r[i].key <= r[j].key
  <2>1. i \in 1..Len(q) + 1 /\ j \in 1..Len(q) + 1 BY <1>4, <1>5 DEF With
  <2>2. /\ r[i] = IF i < n + 1 THEN q[i] ELSE IF i = n + 1 THEN e ELSE q[i - 1]
        /\ r[j] = IF j < n + 1 THEN q[j] ELSE IF j = n + 1 THEN e ELSE q[j - 1]
    BY <1>4, <2>1 DEF With
  <2>3. CASE j < n + 1 BY <1>2, <1>5, <2>1, <2>2, <2>3 DEF Sorted
  <2>4. CASE j = n + 1 BY <1>2, <1>5, <2>1, <2>2, <2>4
  <2>5. CASE j > n + 1
    <3>1. j - 1 \in 1..Len(q) /\ r[j] = q[j - 1] /\ ~(j - 1 <= n) BY <1>2, <2>1, <2>2, <2>5
    <3>2. q[j - 1].key > e.key BY <1>1, <1>2, <3>1
    <3>3. CASE i < n + 1
      <4>1. i \in 1..Len(q) /\ i <= n /\ r[i] = q[i] BY <1>2, <2>1, <2>2, <3>3
      <4>2. i < j - 1 BY <1>2, <2>1, <2>5, <3>3
      <4>3. QED BY <3>1, <4>1, <4>2 DEF Sorted
    <3>4. CASE i = n + 1 BY SMTT(30), <1>1, <2>2, <3>1, <3>2, <3>4
    <3>5. CASE i > n + 1
      <4>1. i - 1 \in 1..Len(q) /\ i - 1 < j - 1 /\ r[i] = q[i - 1]
        BY <1>2, <1>5, <2>1, <2>2, <3>5
      <4>2. QED BY <3>1, <4>1 DEF Sorted
    <3>6. QED BY <1>2, <2>1, <3>3, <3>4, <3>5
  <2>6. QED BY <1>2, <2>1, <2>3, <2>4, <2>5
<1>6. Sorted(r) BY <1>5 DEF Sorted
<1>7. QED BY <1>4, <1>6 DEF r

(* What is left when one is taken out.                                     *)
LEMMA LeftOver ==
  ASSUME NEW q \in Seq(Entries), NEW p \in 1..Len(q), NEW r \in Seq(Entries),
         Without(r, q, p)
  PROVE  /\ \A j \in 1..Len(r) : \E i \in 1..Len(q) : i # p /\ r[j] = q[i]
         /\ \A i \in 1..Len(q) : i # p => \E j \in 1..Len(r) : r[j] = q[i]
         /\ Sorted(q) => Sorted(r)
         /\ OneEntry(q) => OneEntry(r)
<1> DEFINE from(j) == IF j < p THEN j ELSE j + 1
<1>1. Len(r) \in Nat /\ Len(q) \in Nat /\ Len(r) = Len(q) - 1 BY DEF Without
<1>2. \A j \in 1..Len(r) : from(j) \in 1..Len(q) /\ from(j) # p /\ r[j] = q[from(j)]
  BY <1>1 DEF Without
<1>3. \A i, j \in 1..Len(r) : (from(i) = from(j) => i = j) /\ (i < j => from(i) < from(j))
  BY <1>1
<1>4. ASSUME NEW i \in 1..Len(q), i # p PROVE \E j \in 1..Len(r) : r[j] = q[i]
  <2>1. CASE i < p
    <3>1. i \in 1..Len(r) /\ from(i) = i BY <1>1, <2>1
    <3>2. QED BY <1>2, <3>1
  <2>2. CASE i > p
    <3>1. i - 1 \in 1..Len(r) /\ from(i - 1) = i BY <1>1, <2>2
    <3>2. QED BY <1>2, <3>1
  <2>3. QED BY <1>4, <2>1, <2>2
<1> HIDE DEF from
<1>5. Sorted(q) => Sorted(r) BY <1>2, <1>3 DEF Sorted
<1>6. OneEntry(q) => OneEntry(r) BY <1>2, <1>3 DEF OneEntry
<1>7. QED BY <1>2, <1>4, <1>5, <1>6

(* What is left when the first is taken out.                               *)
LEMMA TailKeeps ==
  ASSUME NEW q \in Seq(Entries), q # <<>>
  PROVE  /\ \A j \in 1..Len(Tail(q)) : \E i \in 1..Len(q) : i # 1 /\ Tail(q)[j] = q[i]
         /\ \A i \in 1..Len(q) : i # 1 => \E j \in 1..Len(Tail(q)) : Tail(q)[j] = q[i]
         /\ OneEntry(q) => OneEntry(Tail(q))
<1> DEFINE r == Tail(q)
<1>1. r \in Seq(Entries) /\ Without(r, q, 1) /\ 1 \in 1..Len(q) BY TailRemoves
<1> HIDE DEF r
<1>2. \A j \in 1..Len(r) : \E i \in 1..Len(q) : i # 1 /\ r[j] = q[i] BY <1>1, LeftOver
<1>3. \A i \in 1..Len(q) : i # 1 => \E j \in 1..Len(r) : r[j] = q[i] BY <1>1, LeftOver
<1>4. OneEntry(q) => OneEntry(r) BY <1>1, LeftOver
<1>5. QED BY <1>2, <1>3, <1>4 DEF r

(* What there is when one is put in.                                       *)
LEMMA Added ==
  ASSUME NEW q \in Seq(Entries), NEW p \in 1..Len(q) + 1, NEW e \in Entries,
         NEW r \in Seq(Entries), With(r, q, p, e)
  PROVE  /\ \A j \in 1..Len(r) : r[j] = e \/ \E i \in 1..Len(q) : r[j] = q[i]
         /\ \E j \in 1..Len(r) : r[j] = e
         /\ \A i \in 1..Len(q) : \E j \in 1..Len(r) : r[j] = q[i]
         /\ OneEntry(q) /\ (\A i \in 1..Len(q) : q[i].conn # e.conn) => OneEntry(r)
<1> DEFINE from(j) == IF j < p THEN j ELSE j - 1
<1>1. Len(r) \in Nat /\ Len(q) \in Nat /\ Len(r) = Len(q) + 1 BY DEF With
<1>2. \A j \in 1..Len(r) : j # p => from(j) \in 1..Len(q) /\ r[j] = q[from(j)]
  BY <1>1 DEF With
<1>3. p \in 1..Len(r) /\ r[p] = e BY <1>1 DEF With
<1>4. \A i, j \in 1..Len(r) : i # p /\ j # p /\ from(i) = from(j) => i = j
  BY <1>1
<1>5. ASSUME NEW i \in 1..Len(q) PROVE \E j \in 1..Len(r) : r[j] = q[i]
  <2>1. CASE i < p
    <3>1. i \in 1..Len(r) /\ i # p /\ from(i) = i BY <1>1, <2>1
    <3>2. QED BY <1>2, <3>1
  <2>2. CASE ~(i < p)
    <3>1. i + 1 \in 1..Len(r) /\ i + 1 # p /\ from(i + 1) = i BY <1>1, <2>2
    <3>2. QED BY <1>2, <3>1
  <2>3. QED BY <2>1, <2>2
<1> HIDE DEF from
<1>6. ASSUME OneEntry(q), \A i \in 1..Len(q) : q[i].conn # e.conn PROVE OneEntry(r)
  BY SMTT(30), <1>2, <1>3, <1>4, <1>6 DEF OneEntry
<1>7. QED BY <1>2, <1>3, <1>5, <1>6

-----------------------------------------------------------------------------
(* The threads; NoEntry is none.                                           *)
LEMMA Kinds ==
  /\ Threads = {Main, Timer, Worker} /\ Main # Timer /\ Main # Worker /\ Timer # Worker
  /\ Nobody \notin Threads /\ Nobody \notin Conns
  /\ NoEntry.conn = Nobody
BY ThreadsDiffer DEF Threads, NoEntry, Entry

(* A thread that goes somewhere is there, the others are where they were.  *)
LEMMA Moves ==
  ASSUME ThreadTypes, NEW t \in Threads, NEW p \in Places, Goto(t, p)
  PROVE  /\ pc' \in [Threads -> Places]
         /\ \A u \in Threads : pc'[u] = IF u = t THEN p ELSE pc[u]
BY DEF ThreadTypes, Goto

(* A thread that begins is on its connection, the others where they were.  *)
LEMMA Begins ==
  ASSUME ThreadTypes, ClockTypes, NEW t \in Threads, NEW p \in Places, NEW c \in Conns,
         Begin(t, p, c)
  PROVE  /\ pc' \in [Threads -> Places] /\ at' \in [Threads -> Conns \cup {Nobody}]
         /\ since' \in [Threads -> Nat]
         /\ \A u \in Threads : /\ pc'[u] = IF u = t THEN p ELSE pc[u]
                               /\ at'[u] = IF u = t THEN c ELSE at[u]
BY Moves DEF ThreadTypes, ClockTypes, Begin

(* A thread that leaves is on none.                                        *)
LEMMA Leaves ==
  ASSUME ThreadTypes, NEW t \in Threads, Leave(t)
  PROVE  /\ pc' \in [Threads -> Places] /\ at' \in [Threads -> Conns \cup {Nobody}]
         /\ since' \in [Threads -> Nat]
         /\ \A u \in Threads :
              /\ pc'[u] = IF u # t THEN pc[u] ELSE IF t = Timer THEN "next" ELSE "idle"
              /\ at'[u] = IF u = t THEN Nobody ELSE at[u]
<1>1. (IF t = Timer THEN "next" ELSE "idle") \in Places BY DEF Places
<1>2. /\ pc' \in [Threads -> Places]
      /\ \A u \in Threads : pc'[u] = IF u = t THEN (IF t = Timer THEN "next" ELSE "idle") ELSE pc[u]
  BY <1>1, Moves DEF Leave
<1>3. QED BY <1>2 DEF ThreadTypes, Leave

(* A thread at one of these places is at work on a connection.             *)
LEMMA AtConn ==
  ASSUME ThreadTypes, Stations, NEW t \in Threads, pc[t] \notin FreePlaces
  PROVE  at[t] \in Conns
BY DEF ThreadTypes, Stations

(* The entry made for a client, and the one put back for it.               *)
LEMMA EntryTyped ==
  ASSUME NEW k \in Nat, NEW c \in Conns, NEW n \in Nat
  PROVE  /\ Entry(k, c, n) \in Entries
         /\ Entry(k, c, n).conn = c /\ Entry(k, c, n).seq = n /\ Entry(k, c, n).key = k
BY DEF Entry, Entries

(* The entry Main makes.                                                   *)
MainEntry == Entry(futtime, at[Main], seq[at[Main]])
(* The entry Main makes is one, of the client it enters.                   *)
LEMMA MainEntryTyped ==
  ASSUME Types, Stations, pc[Main] = "insert"
  PROVE  /\ MainEntry \in Entries /\ MainEntry.conn = at[Main] /\ at[Main] \in Conns
         /\ MainEntry.seq = seq[at[Main]]
<1>1. at[Main] \in Conns BY Kinds, AtConn DEF Types, FreePlaces
<1>2. futtime \in Nat /\ seq[at[Main]] \in Nat BY <1>1 DEF Types, ClockTypes, ClientTypes
<1>3. QED BY <1>1, <1>2, EntryTyped DEF MainEntry

(* The entry the monitor takes out first, and how it is put back.          *)
LEMMA HeadTyped ==
  ASSUME Types, FirstIsDue
  PROVE  /\ Head(queue) = queue[1] /\ 1 \in 1..Len(queue) /\ Head(queue) \in Entries
         /\ Requeued(Head(queue)) \in Entries
         /\ Requeued(Head(queue)).conn = Head(queue).conn
         /\ Requeued(Head(queue)).seq = Head(queue).seq
<1>1. queue \in Seq(Entries) /\ queue # <<>> BY DEF Types, QueueTypes, FirstIsDue
<1>2. Head(queue) = queue[1] /\ 1 \in 1..Len(queue) BY <1>1
<1>3. queue[1] \in Entries /\ queue[1].conn \in Conns /\ queue[1].seq \in Nat
  BY <1>1, <1>2, Fields
<1>4. curTime + WaitTime \in Nat
  BY TimesAssumption DEF Types, ClockTypes, TimesAssumption
<1>5. QED BY <1>2, <1>3, <1>4, EntryTyped DEF Requeued

(* What happens to the queue.                                              *)
LEMMA InsertStep ==
  ASSUME Types, Stations, Gate, Insert
  PROVE  /\ queue' \in Seq(Entries) /\ Sorted(queue')
         /\ \E p \in 1..Len(queue) + 1 : With(queue', queue, p, MainEntry)
<1>1. MainEntry \in Entries BY MainEntryTyped DEF Insert
<1>2. queue' = Inserted(queue, MainEntry) BY DEF Insert, MainEntry
<1>3. QED BY <1>1, <1>2, Insertion DEF Types, QueueTypes, Gate

(* Erase takes out one entry, of the connection that is closed.            *)
LEMMA EraseStep ==
  ASSUME Types, NEW t \in Threads, Erase(t)
  PROVE  /\ queue' \in Seq(Entries)
         /\ \E p \in 1..Len(queue) : queue[p].conn = at[t] /\ Without(queue', queue, p)
<1>1. PICK p \in InQueue(at[t]) : queue' = RemoveAt(queue, p) BY DEF Erase
<1>2. p \in 1..Len(queue) /\ queue[p].conn = at[t] BY <1>1 DEF InQueue
<1>3. QED BY <1>1, <1>2, Removed DEF Types, QueueTypes

(* OverTime takes out the first entry and, unless the monitor is to cut    *)
(* off all, puts it back.                                                  *)
LEMMA OverTimeStep ==
  ASSUME Types, Gate, OverTime
  PROVE  /\ queue' \in Seq(Entries) /\ Sorted(queue')
         /\ Tail(queue) \in Seq(Entries) /\ Without(Tail(queue), queue, 1)
         /\ kickNow => queue' = Tail(queue)
         /\ ~kickNow => \E p \in 1..Len(Tail(queue)) + 1 :
                          With(queue', Tail(queue), p, Requeued(Head(queue)))
<1>1. queue \in Seq(Entries) /\ queue # <<>> /\ 1 \in 1..Len(queue) /\ Sorted(queue)
  BY HeadTyped DEF Types, QueueTypes, OverTime, FirstIsDue, Gate
<1>2. Tail(queue) \in Seq(Entries) /\ Without(Tail(queue), queue, 1) BY <1>1, TailRemoves
<1>3. Sorted(Tail(queue)) BY <1>1, <1>2, LeftOver
<1>4. CASE kickNow BY <1>2, <1>3, <1>4 DEF OverTime
<1>5. CASE ~kickNow
  <2>1. queue' = Inserted(Tail(queue), Requeued(Head(queue))) BY <1>5 DEF OverTime
  <2>2. Requeued(Head(queue)) \in Entries BY HeadTyped DEF OverTime
  <2>3. QED BY <1>2, <1>3, <1>5, <2>1, <2>2, Insertion
<1>6. QED BY <1>4, <1>5

-----------------------------------------------------------------------------
(* A step keeps the types of the queue and of the monitor's list.          *)
LEMMA StepQueueTypes ==
  ASSUME Types, Stations, Gate, Next
  PROVE  QueueTypes'
<1> USE DEF Types, QueueTypes
<1>1. \A q \in Seq(Entries) : Earliest(q) \in Nat
  <2>1. ASSUME NEW q \in Seq(Entries), q # <<>> PROVE q[1].key \in Nat
    BY <2>1, Fields
  <2>2. QED BY <2>1 DEF Earliest
<1>2. CASE Insert
  BY <1>2, InsertStep, Kinds DEF Insert, monVars
<1>3. CASE PublishInserted
  BY <1>1, <1>3 DEF PublishInserted, monVars
<1>4. ASSUME NEW t \in Threads, Delete(t) \/ Erase(t) \/ PublishDeleted(t) \/ Retire(t)
      PROVE  QueueTypes'
  <2>1. CASE Delete(t) BY <1>4, <2>1 DEF Delete, monVars
  <2>2. CASE Erase(t) BY <1>4, <2>2, EraseStep DEF Erase, monVars
  <2>3. CASE PublishDeleted(t) BY <1>1, <2>3 DEF PublishDeleted, monVars
  <2>4. CASE Retire(t) BY <2>4 DEF Retire, queueVars
  <2>5. QED BY <1>4, <2>1, <2>2, <2>3, <2>4
<1>5. CASE LockQueue BY <1>5, Kinds DEF LockQueue, monVars
<1>6. CASE OverTime
  <2>1. Head(queue) \in Entries BY <1>6, HeadTyped DEF OverTime
  <2>2. idleList' = Append(idleList, Head(queue)) /\ value' = Earliest(queue')
        /\ size' \in Int /\ mutex' = mutex
    BY <1>6 DEF OverTime
  <2>3. QED BY <1>1, <1>6, <2>1, <2>2, OverTimeStep
<1>7. CASE UnlockQueue BY <1>7 DEF UnlockQueue, monVars
<1>8. CASE Compare
  <2>1. idleList' = Tail(idleList) /\ idleList # <<>> BY <1>8 DEF Compare
  <2>2. Tail(idleList) \in Seq(Entries) BY <2>1
  <2>3. QED BY <1>8, <2>1, <2>2 DEF Compare, queueVars
<1>9. CASE Poll \/ ReadClock \/ EndPass \/ CheckPing \/ Tick
  BY <1>9 DEF Poll, ReadClock, EndPass, CheckPing, Tick, queueVars
<1>10. ASSUME NEW c \in Conns, Accept(c) \/ ClientGone(c) \/ CutOff(c) \/ HandlePing(c)
       PROVE  QueueTypes'
  BY <1>10 DEF Accept, ClientGone, CutOff, HandlePing, queueVars, monVars
<1>11. QED
  BY <1>2, <1>3, <1>4, <1>5, <1>6, <1>7, <1>8, <1>9, <1>10 DEF Next

(* A step keeps the types of the clients.                                  *)
LEMMA StepClientTypes ==
  ASSUME Types, Stations, Next
  PROVE  ClientTypes'
<1> USE DEF Types, ClientTypes
<1>1. ASSUME NEW t \in Threads, Retire(t) PROVE ClientTypes'
  <2>1. at[t] \in Conns BY <1>1, AtConn DEF Retire, FreePlaces
  <2>2. seq' = [seq EXCEPT ![at[t]] = IF at[t] \in clients THEN seq[at[t]] + 1 ELSE seq[at[t]]]
    BY <1>1 DEF Retire
  <2>3. seq' \in [Conns -> Nat] BY <2>1, <2>2
  <2>4. QED BY <1>1, <2>3 DEF Retire
<1>2. ASSUME NEW c \in Conns, Accept(c) PROVE ClientTypes'
  BY <1>2 DEF Accept, ClockTypes
<1>3. ASSUME NEW c \in Conns, HandlePing(c) PROVE ClientTypes'
  BY <1>3 DEF HandlePing, histVars, ClockTypes
<1>4. CASE Tick BY <1>4 DEF Tick, connVars
<1>5. ASSUME NEW c \in Conns, ClientGone(c) \/ CutOff(c) PROVE ClientTypes'
  BY <1>5 DEF ClientGone, CutOff, connVars, histVars
<1>6. ASSUME NEW t \in Threads, Delete(t) \/ Erase(t) \/ PublishDeleted(t) PROVE ClientTypes'
  BY <1>6 DEF Delete, Erase, PublishDeleted, connVars, histVars
<1>7. CASE Insert \/ PublishInserted \/ LockQueue \/ OverTime \/ UnlockQueue
  BY <1>7 DEF Insert, PublishInserted, LockQueue, OverTime, UnlockQueue, connVars, histVars
<1>8. CASE Compare \/ Poll \/ ReadClock \/ EndPass \/ CheckPing
  BY <1>8 DEF Compare, Poll, ReadClock, EndPass, CheckPing, connVars, histVars
<1>9. QED BY <1>1, <1>2, <1>3, <1>4, <1>5, <1>6, <1>7, <1>8 DEF Next

(* A step keeps the times, and the monitor's clock not ahead.              *)
LEMMA StepClockTypes ==
  ASSUME Types, curTime <= now, Next
  PROVE  ClockTypes' /\ curTime' <= now'
<1> USE DEF Types, ClockTypes
<1>1. ASSUME NEW c \in Conns, Accept(c) PROVE ClockTypes' /\ curTime' <= now'
  BY <1>1, TimesAssumption DEF Accept, monVars, TimesAssumption
<1>2. ASSUME NEW c \in Conns, ClientGone(c) \/ CutOff(c) \/ HandlePing(c)
      PROVE  ClockTypes' /\ curTime' <= now'
  BY <1>2 DEF ClientGone, CutOff, HandlePing, monVars
<1>3. CASE Tick BY <1>3 DEF Tick
<1>4. CASE Poll BY <1>4 DEF Poll, QueueTypes, queueVars
<1>5. CASE ReadClock \/ EndPass \/ Compare \/ CheckPing
  BY <1>5 DEF ReadClock, EndPass, Compare, CheckPing
<1>6. CASE Insert \/ PublishInserted \/ LockQueue \/ OverTime \/ UnlockQueue
  BY <1>6 DEF Insert, PublishInserted, LockQueue, OverTime, UnlockQueue, monVars
<1>7. ASSUME NEW t \in Threads, Delete(t) \/ Erase(t) \/ PublishDeleted(t) \/ Retire(t)
      PROVE  ClockTypes' /\ curTime' <= now'
  BY <1>7 DEF Delete, Erase, PublishDeleted, Retire, monVars
<1>8. QED BY <1>1, <1>2, <1>3, <1>4, <1>5, <1>6, <1>7 DEF Next

(* A step keeps where the threads are, and what the monitor has in hand.   *)
LEMMA StepThreadTypes ==
  ASSUME Types, Stations, Next
  PROVE  ThreadTypes'
<1> DEFINE Same == tmpmsg' = tmpmsg /\ at'[Timer] = at[Timer]
<1> USE Kinds DEF Types
<1>1. ThreadTypes /\ ClockTypes BY DEF Types
<1>2. \A p \in {"inserted", "erase", "retire", "clock", "scan", "asleep", "over", "next",
                "delete", "idle", "insert", "check"} : p \in Places
  BY DEF Places
<1>3. ASSUME NEW t \in Threads, NEW p \in Places, Goto(t, p), UNCHANGED <<at, since, tmpmsg>>
      PROVE  ThreadTypes'
  BY <1>1, <1>3, Moves DEF ThreadTypes
<1>4. ASSUME UNCHANGED <<pc, at, since, tmpmsg>> PROVE ThreadTypes'
  BY <1>1, <1>4 DEF ThreadTypes
<1>5. ASSUME NEW t \in Threads \ {Timer}, NEW p \in Places, NEW c \in Conns, Begin(t, p, c),
             tmpmsg' = tmpmsg
      PROVE  ThreadTypes'
  BY <1>1, <1>5, Begins DEF ThreadTypes
<1>6. ASSUME NEW t \in Threads, Leave(t), tmpmsg' = IF t = Timer THEN NoEntry ELSE tmpmsg
      PROVE  ThreadTypes'
  BY <1>1, <1>6, Leaves DEF ThreadTypes
<1>7. ASSUME NEW c \in Conns, Accept(c) \/ ClientGone(c) \/ CutOff(c) \/ HandlePing(c)
      PROVE  ThreadTypes'
  <2>1. CASE HandlePing(c) BY <1>4, <2>1 DEF HandlePing, thrVars, monVars
  <2>2. CASE Accept(c) \/ ClientGone(c) BY <1>2, <1>5, <2>2 DEF Accept, ClientGone, monVars
  <2>3. CASE CutOff(c) BY <1>2, <1>5, <2>3 DEF CutOff, monVars
  <2>4. QED BY <1>7, <2>1, <2>2, <2>3
<1>8. CASE Insert \/ LockQueue \/ UnlockQueue
  BY <1>2, <1>3, <1>8 DEF Insert, LockQueue, UnlockQueue, monVars
<1>9. CASE PublishInserted
  BY <1>6, <1>9 DEF PublishInserted, monVars
<1>10. ASSUME NEW t \in Threads, Delete(t) \/ Erase(t) \/ PublishDeleted(t) \/ Retire(t)
       PROVE  ThreadTypes'
  <2>1. CASE Delete(t) BY <1>2, <1>3, <2>1 DEF Delete, monVars
  <2>2. CASE Erase(t) BY <1>4, <2>2 DEF Erase, thrVars, monVars
  <2>3. CASE PublishDeleted(t) BY <1>2, <1>3, <2>3 DEF PublishDeleted, monVars
  <2>4. CASE Retire(t) BY <1>6, <2>4 DEF Retire
  <2>5. QED BY <1>10, <2>1, <2>2, <2>3, <2>4
<1>11. CASE Poll BY <1>2, <1>3, <1>4, <1>11 DEF Poll
<1>12. CASE ReadClock BY <1>2, <1>3, <1>12 DEF ReadClock
<1>13. CASE OverTime \/ Tick BY <1>4, <1>13 DEF OverTime, Tick, thrVars
<1>14. CASE EndPass BY <1>2, <1>3, <1>14 DEF EndPass
<1>15. CASE Compare
  <2>1. CASE UNCHANGED <<thrVars, tmpmsg>> BY <1>4, <2>1 DEF thrVars
  <2>2. CASE /\ Begin(Timer, "check", Head(idleList).conn) /\ tmpmsg' = Head(idleList)
    <3>1. idleList \in Seq(Entries) /\ idleList # <<>> /\ Head(idleList) = idleList[1]
          /\ 1 \in 1..Len(idleList)
      BY <1>15 DEF Compare, QueueTypes
    <3>2. Head(idleList) \in Entries /\ Head(idleList).conn \in Conns BY <3>1, Fields
    <3>3. QED BY <1>1, <1>2, <2>2, <3>2, Begins DEF ThreadTypes
  <2>3. QED BY <1>15, <2>1, <2>2 DEF Compare
<1>16. CASE CheckPing
  <2>1. CASE Goto(Timer, "delete") /\ UNCHANGED <<at, since, tmpmsg>>
    BY <1>2, <1>3, <2>1
  <2>2. CASE Leave(Timer) /\ tmpmsg' = NoEntry BY <1>6, <2>2
  <2>3. QED BY <1>16, <2>1, <2>2 DEF CheckPing
<1>17. QED
  BY <1>7, <1>8, <1>9, <1>10, <1>11, <1>12, <1>13, <1>14, <1>15, <1>16 DEF Next

(* A step keeps the two switches.                                          *)
LEMMA StepFlagTypes ==
  ASSUME FlagTypes, Next
  PROVE  FlagTypes' /\ kickNow' = kickNow
<1> USE DEF FlagTypes
<1>1. ASSUME NEW c \in Conns, Accept(c) \/ ClientGone(c) \/ CutOff(c) \/ HandlePing(c)
      PROVE  kickNow' = kickNow /\ woken' = woken
  BY <1>1 DEF Accept, ClientGone, CutOff, HandlePing, monVars
<1>2. ASSUME NEW t \in Threads, Delete(t) \/ Erase(t) \/ PublishDeleted(t) \/ Retire(t)
      PROVE  kickNow' = kickNow /\ woken' = woken
  BY <1>2 DEF Delete, Erase, PublishDeleted, Retire, monVars
<1>3. CASE Insert \/ PublishInserted \/ LockQueue \/ OverTime \/ UnlockQueue \/ ReadClock
  BY <1>3 DEF Insert, PublishInserted, LockQueue, OverTime, UnlockQueue, ReadClock, monVars
<1>4. CASE EndPass \/ Compare \/ CheckPing BY <1>4 DEF EndPass, Compare, CheckPing
<1>5. CASE Poll \/ Tick BY <1>5 DEF Poll, Tick
<1>6. QED BY <1>1, <1>2, <1>3, <1>4, <1>5 DEF Next

(* A step keeps the types.                                                 *)
LEMMA StepTypes ==
  ASSUME Types, Stations, Gate, curTime <= now, Next
  PROVE  Types'
BY StepQueueTypes, StepClientTypes, StepClockTypes, StepThreadTypes, StepFlagTypes
DEF Types

-----------------------------------------------------------------------------
(* A step keeps where each thread may be, and the mutex with the one that  *)
(* is at work on the queue.                                                *)
LockPlaces == {"inserted", "erase", "over"}
StationOf(t, p) ==
  \/ t = Main /\ p \in MainPlaces
  \/ t = Timer /\ p \in TimerPlaces
  \/ t = Worker /\ p \in WorkerPlaces

(* A step keeps the threads at their places, and the mutex with who has    *)
(* it.                                                                     *)
LEMMA StepStations ==
  ASSUME Types, Stations, Next
  PROVE  Stations'
<1> USE Kinds DEF Stations, LockPlaces, FreePlaces, TimerAt
<1>1. ThreadTypes /\ ClockTypes /\ \A t \in Threads : StationOf(t, pc[t])
  BY DEF Types, StationOf
<1>2. ASSUME NEW t \in Threads, NEW p \in Places, Goto(t, p), at' = at, StationOf(t, p),
             p \in FreePlaces <=> pc[t] \in FreePlaces,
             mutex' = IF p \in LockPlaces THEN t
                      ELSE IF pc[t] \in LockPlaces THEN Nobody ELSE mutex,
             p \in LockPlaces => mutex = Nobody
      PROVE  Stations'
  <2>1. \A u \in Threads : pc'[u] = IF u = t THEN p ELSE pc[u] BY <1>1, <1>2, Moves
  <2>2. \A u \in Threads : StationOf(u, pc'[u]) BY <1>1, <1>2, <2>1
  <2>3. \A u \in Threads : at'[u] = Nobody <=> pc'[u] \in FreePlaces BY <1>2, <2>1
  <2>4. \A u \in Threads : mutex' = u <=> pc'[u] \in LockPlaces BY <1>2, <2>1
  <2>5. QED BY <2>2, <2>3, <2>4 DEF StationOf
<1>3. ASSUME UNCHANGED <<pc, at, mutex>> PROVE Stations'
  BY <1>3
<1>4. ASSUME NEW t \in Threads, NEW p \in Places \ (FreePlaces \cup LockPlaces), NEW c \in Conns,
             Begin(t, p, c), StationOf(t, p), pc[t] \notin LockPlaces, mutex' = mutex
      PROVE  Stations'
  <2>1. \A u \in Threads : /\ pc'[u] = IF u = t THEN p ELSE pc[u]
                           /\ at'[u] = IF u = t THEN c ELSE at[u]
    BY <1>1, <1>4, Begins
  <2>2. \A u \in Threads : StationOf(u, pc'[u]) BY <1>1, <1>4, <2>1
  <2>3. QED BY <1>4, <2>1, <2>2 DEF StationOf
<1>5. ASSUME NEW t \in Threads, Leave(t), mutex' = IF pc[t] \in LockPlaces THEN Nobody ELSE mutex
      PROVE  Stations'
  <2>1. \A u \in Threads :
          /\ pc'[u] = IF u # t THEN pc[u] ELSE IF t = Timer THEN "next" ELSE "idle"
          /\ at'[u] = IF u = t THEN Nobody ELSE at[u]
    BY <1>1, <1>5, Leaves
  <2>2. \A u \in Threads : StationOf(u, pc'[u])
    BY <1>1, <2>1 DEF StationOf, MainPlaces, TimerPlaces, WorkerPlaces
  <2>3. QED BY <1>5, <2>1, <2>2 DEF StationOf
<1>6. /\ \A p \in {"inserted", "erase", "retire", "clock", "scan", "asleep", "over", "next",
                   "delete", "idle", "insert", "check"} : p \in Places
      /\ \A t \in Threads, p \in Closes : StationOf(t, p)
      /\ \A p \in {"asleep", "clock", "scan", "over", "next", "check"} : StationOf(Timer, p)
      /\ \A p \in {"insert", "inserted"} : StationOf(Main, p)
  BY DEF Places, StationOf, MainPlaces, TimerPlaces, WorkerPlaces, Closes
<1>7. ASSUME NEW c \in Conns, Accept(c) \/ ClientGone(c) \/ CutOff(c) \/ HandlePing(c)
      PROVE  Stations'
  <2>1. CASE HandlePing(c) BY <1>3, <2>1 DEF HandlePing, thrVars, queueVars
  <2>2. CASE Accept(c) BY <1>4, <1>6, <2>2 DEF Accept, queueVars
  <2>3. CASE ClientGone(c) BY <1>4, <1>6, <2>3 DEF ClientGone, queueVars, Closes
  <2>4. CASE CutOff(c) BY <1>4, <1>6, <2>4 DEF CutOff, queueVars, Closes
  <2>5. QED BY <1>7, <2>1, <2>2, <2>3, <2>4
<1>8. CASE Insert BY <1>2, <1>6, <1>8 DEF Insert
<1>9. CASE PublishInserted BY <1>5, <1>9 DEF PublishInserted
<1>10. ASSUME NEW t \in Threads, Delete(t) \/ Erase(t) \/ PublishDeleted(t) \/ Retire(t)
       PROVE  Stations'
  <2>1. CASE Delete(t) BY <1>2, <1>6, <2>1 DEF Delete, Closes
  <2>2. CASE Erase(t) BY <1>3, <2>2 DEF Erase, thrVars
  <2>3. CASE PublishDeleted(t) BY <1>2, <1>6, <2>3 DEF PublishDeleted, Closes
  <2>4. CASE Retire(t) BY <1>5, <2>4 DEF Retire, queueVars
  <2>5. QED BY <1>10, <2>1, <2>2, <2>3, <2>4
<1>11. CASE Poll
  <2>1. CASE Goto(Timer, "clock")
    BY <1>2, <1>6, <1>11, <2>1 DEF Poll, queueVars
  <2>2. CASE pc' = pc BY <1>3, <1>11, <2>2 DEF Poll, queueVars
  <2>3. QED BY <1>11, <2>1, <2>2 DEF Poll
<1>12. CASE ReadClock
  <2>1. CASE Goto(Timer, "scan") BY <1>2, <1>6, <1>12, <2>1 DEF ReadClock, queueVars
  <2>2. CASE Goto(Timer, "asleep") BY <1>2, <1>6, <1>12, <2>2 DEF ReadClock, queueVars
  <2>3. QED BY <1>12, <2>1, <2>2 DEF ReadClock
<1>13. CASE OverTime \/ Tick BY <1>3, <1>13 DEF OverTime, Tick, thrVars, queueVars
<1>14. CASE LockQueue BY <1>2, <1>6, <1>14 DEF LockQueue
<1>15. CASE UnlockQueue BY <1>2, <1>6, <1>15 DEF UnlockQueue
<1>16. CASE EndPass BY <1>2, <1>6, <1>16 DEF EndPass, queueVars
<1>17. CASE Compare
  <2>1. CASE UNCHANGED <<thrVars, tmpmsg>> BY <1>3, <1>17, <2>1 DEF Compare, thrVars, queueVars
  <2>2. CASE Begin(Timer, "check", Head(idleList).conn)
    <3>1. idleList \in Seq(Entries) /\ idleList # <<>> /\ Head(idleList) = idleList[1]
          /\ 1 \in 1..Len(idleList)
      BY <1>17 DEF Compare, Types, QueueTypes
    <3>2. Head(idleList).conn \in Conns BY <3>1, Fields
    <3>3. "check" \in Places \ (FreePlaces \cup LockPlaces) BY <1>6
    <3>4. pc[Timer] = "next" /\ mutex' = mutex BY <1>17 DEF Compare, queueVars
    <3>5. QED BY <1>4, <1>6, <2>2, <3>2, <3>3, <3>4
  <2>3. QED BY <1>17, <2>1, <2>2 DEF Compare
<1>18. CASE CheckPing
  <2>1. CASE Goto(Timer, "delete") /\ UNCHANGED <<at, since, tmpmsg>>
    BY <1>2, <1>6, <1>18, <2>1 DEF CheckPing, queueVars, Closes
  <2>2. CASE Leave(Timer) BY <1>5, <1>18, <2>2 DEF CheckPing, queueVars
  <2>3. QED BY <1>18, <2>1, <2>2 DEF CheckPing
<1>19. QED
  BY <1>7, <1>8, <1>9, <1>10, <1>11, <1>12, <1>13, <1>14, <1>15, <1>16, <1>17, <1>18 DEF Next

(* A step keeps the size exact and the queue in order, and the value exact *)
(* where nobody is at work on the queue.                                   *)
LEMMA StepGate ==
  ASSUME Types, Stations, Gate, Stations', Next
  PROVE  Gate'
<1> USE Kinds DEF Gate, TimerAt
<1>1. ThreadTypes /\ queue \in Seq(Entries) BY DEF Types, QueueTypes
<1>2. ASSUME queue' \in Seq(Entries), queue' # <<>> PROVE Earliest(queue)' = queue'[1].key
  BY <1>2 DEF Earliest
<1>3. CASE Insert
  <2>1. queue' \in Seq(Entries) /\ Sorted(queue') /\ Len(queue') = Len(queue) + 1
    BY <1>3, InsertStep DEF With
  <2>2. mutex' = Main /\ size' = size + 1 BY <1>3 DEF Insert
  <2>3. mutex' # Nobody /\ pc'[Timer] # "over" BY <2>2 DEF Stations
  <2>4. QED BY <2>1, <2>2, <2>3
<1>4. CASE PublishInserted
  BY <1>1, <1>4 DEF PublishInserted, Earliest
<1>5. ASSUME NEW t \in Threads, Delete(t) \/ Erase(t) \/ PublishDeleted(t) \/ Retire(t)
      PROVE  Gate'
  <2>1. CASE Delete(t)
    <3>1. mutex' = t /\ UNCHANGED <<queue, size, value>> /\ pc'[t] = "erase"
      BY <1>1, <1>5, <2>1, Moves DEF Delete, Places
    <3>2. mutex' # Nobody /\ pc'[Timer] # "over" BY <3>1 DEF Stations
    <3>3. QED BY <3>1, <3>2
  <2>2. CASE Erase(t)
    <3>1. PICK p \in 1..Len(queue) : queue' \in Seq(Entries) /\ Without(queue', queue, p)
      BY <2>2, EraseStep
    <3>2. Sorted(queue') /\ Len(queue') = Len(queue) - 1
      BY <1>1, <3>1, LeftOver DEF Without
    <3>3. size' = size - 1 /\ UNCHANGED <<pc, mutex>> /\ pc[t] = "erase"
      BY <2>2 DEF Erase, thrVars
    <3>4. mutex' = t /\ t # Nobody /\ pc'[Timer] # "over" BY <3>3 DEF Stations
    <3>5. QED BY <3>2, <3>3, <3>4
  <2>3. CASE PublishDeleted(t) BY <1>1, <2>3 DEF PublishDeleted, Earliest
  <2>4. CASE Retire(t)
    <3>1. UNCHANGED queueVars /\ (pc'[Timer] = "over" => pc[Timer] = "over")
      BY <1>1, <2>4, Leaves DEF Retire
    <3>2. QED BY <3>1 DEF queueVars
  <2>5. QED BY <1>5, <2>1, <2>2, <2>3, <2>4
<1>6. CASE LockQueue
  BY <1>1, <1>6 DEF LockQueue
<1>7. CASE OverTime
  <2>1. queue' \in Seq(Entries) /\ Sorted(queue') BY <1>7, OverTimeStep
  <2>2. Len(Tail(queue)) = Len(queue) - 1 BY <1>1, <1>7 DEF OverTime, FirstIsDue
  <2>3. size' = Len(queue')
    <3>1. CASE kickNow
      <4>1. queue' = Tail(queue) /\ size' = size - 1 BY <1>7, <3>1 DEF OverTime
      <4>2. QED BY <2>2, <4>1
    <3>2. CASE ~kickNow
      <4>1. size' = size BY <1>7, <3>2 DEF OverTime
      <4>2. Len(queue') = Len(Tail(queue)) + 1 BY <1>7, <3>2, OverTimeStep DEF With
      <4>3. QED BY <1>1, <2>2, <4>1, <4>2
    <3>3. QED BY <3>1, <3>2
  <2>4. value' = Earliest(queue') BY <1>7 DEF OverTime
  <2>5. QED BY <2>1, <2>3, <2>4 DEF Earliest
<1>8. CASE UnlockQueue BY <1>1, <1>8 DEF UnlockQueue
<1>9. ASSUME UNCHANGED queueVars, pc'[Timer] = "over" => pc[Timer] = "over" PROVE Gate'
  BY <1>9 DEF queueVars
<1>10. CASE Poll \/ ReadClock \/ EndPass
  <2>1. pc' = pc \/ \E p \in {"clock", "scan", "asleep"} : Goto(Timer, p)
    BY <1>10 DEF Poll, ReadClock, EndPass
  <2>2. pc'[Timer] = "over" => pc[Timer] = "over" BY <1>1, <2>1, Moves DEF Places
  <2>3. QED BY <1>9, <1>10, <2>2 DEF Poll, ReadClock, EndPass
<1>11. CASE Compare \/ CheckPing
  <2>1. pc[Timer] \in {"next", "check"} /\ pc'[Timer] # "over"
    BY <1>1, <1>11, Moves, Leaves DEF Compare, CheckPing, Begin, Places, thrVars
  <2>2. QED BY <1>9, <1>11, <2>1 DEF Compare, CheckPing
<1>12. CASE Tick BY <1>9, <1>12 DEF Tick, thrVars
<1>13. ASSUME NEW c \in Conns, Accept(c) \/ ClientGone(c) \/ CutOff(c) \/ HandlePing(c)
       PROVE  Gate'
  <2>1. \/ pc' = pc
        \/ \E t \in {Main, Worker}, p \in {"insert", "delete"} : Goto(t, p)
    BY <1>13 DEF Accept, ClientGone, CutOff, HandlePing, Begin, thrVars
  <2>2. pc'[Timer] = pc[Timer] BY <1>1, <2>1, Moves DEF Places
  <2>3. QED BY <1>9, <1>13, <2>2 DEF Accept, ClientGone, CutOff, HandlePing
<1>14. QED
  BY <1>3, <1>4, <1>5, <1>6, <1>7, <1>8, <1>10, <1>11, <1>12, <1>13 DEF Next

-----------------------------------------------------------------------------
(* A step keeps that the monitor cuts off the silent only, and no other    *)
(* than it has checked.                                                    *)
LEMMA StepSilence ==
  ASSUME Types, Stations, Silence, Next
  PROVE  Silence'
<1> USE Kinds DEF TimerAt
<1>1. ThreadTypes /\ ClockTypes /\ ClientTypes /\ Limit \in Nat
  BY TimesAssumption DEF Types, TimesAssumption, Limit
<1>2. curTime' <= now' /\ kickNow' = kickNow
  BY StepClockTypes, StepFlagTypes DEF Silence, Types
<1>3. ASSUME UNCHANGED <<clients, seq, ping, now, silent, wronged, tmpmsg, at>>,
             pc'[Timer] \in Closes => pc[Timer] \in Closes
      PROVE  Silence'
  BY <1>2, <1>3 DEF Silence, Limit
<1>4. ASSUME NEW c \in Conns, Accept(c) PROVE Silence'
  <2>1. /\ clients' = clients \cup {c} /\ silent' = silent \ {c} /\ now' = now
        /\ \A d \in Conns : d # c => seq'[d] = seq[d] /\ ping'[d] = ping[d]
        /\ ping'[c] = now /\ wronged' = wronged /\ tmpmsg' = tmpmsg
    BY <1>1, <1>4 DEF Accept, monVars, ClientTypes
  <2>2. at[Timer] # c BY <1>4 DEF Accept, Working
  <2>3. at'[Timer] = at[Timer] /\ pc'[Timer] = pc[Timer]
    BY <1>1, <1>4, Begins DEF Accept, Places
  <2>4. ASSUME NEW d \in clients', now' - ping'[d] > Limit' PROVE d \in silent'
    <3>1. Limit' = Limit BY DEF Limit
    <3>2. CASE d = c BY <1>1, <2>1, <2>4, <3>1, <3>2 DEF ClockTypes
    <3>3. CASE d # c
      <4>1. d \in Conns /\ d \in clients BY <1>1, <2>1, <3>3 DEF ClientTypes
      <4>2. QED BY <2>1, <2>4, <3>1, <3>3, <4>1 DEF Silence
    <3>4. QED BY <3>2, <3>3
  <2>5. at'[Timer] \in clients' => at[Timer] \in clients /\ at[Timer] \in Conns
    BY <1>1, <2>1, <2>2, <2>3 DEF ClientTypes
  <2>6. at'[Timer] \in clients' => tmpmsg'.seq = seq'[at'[Timer]]
    BY <2>1, <2>2, <2>3, <2>5 DEF Silence
  <2>7. pc'[Timer] \in Closes /\ ~kickNow' /\ at'[Timer] \in clients' => at'[Timer] \in silent'
    BY <1>2, <2>1, <2>2, <2>3, <2>5 DEF Silence
  <2>8. QED BY <1>2, <2>1, <2>4, <2>6, <2>7 DEF Silence
<1>5. ASSUME NEW c \in Conns, HandlePing(c) PROVE Silence'
  <2>1. /\ UNCHANGED <<clients, seq, now, silent, wronged, tmpmsg, at, pc>>
        /\ ping' = [ping EXCEPT ![c] = now]
    BY <1>5 DEF HandlePing, thrVars, monVars, histVars
  <2>2. ASSUME NEW d \in clients, now - ping'[d] > Limit PROVE d \in silent
    <3>1. d \in Conns BY <1>1 DEF ClientTypes
    <3>2. ping'[d] = IF d = c THEN now ELSE ping[d] BY <1>1, <2>1, <3>1 DEF ClientTypes
    <3>3. d # c BY <1>1, <2>2, <3>2 DEF ClockTypes
    <3>4. QED BY <2>2, <3>2, <3>3 DEF Silence
  <2>3. QED BY <1>2, <2>1, <2>2 DEF Silence, Limit
<1>6. ASSUME NEW c \in Conns, ClientGone(c) \/ CutOff(c) PROVE Silence'
  <2>1. \E t \in {Main, Worker} : Begin(t, "delete", c)
    BY <1>6 DEF ClientGone, CutOff
  <2>2. at'[Timer] = at[Timer] /\ pc'[Timer] = pc[Timer]
    BY <1>1, <2>1, Begins DEF Places
  <2>3. UNCHANGED <<clients, seq, ping, now, silent, wronged, tmpmsg>>
    BY <1>6 DEF ClientGone, CutOff, connVars, histVars, monVars
  <2>4. QED BY <1>2, <2>2, <2>3 DEF Silence, Limit
<1>7. ASSUME NEW t \in Threads, Delete(t) \/ Erase(t) \/ PublishDeleted(t) PROVE Silence'
  <2>1. UNCHANGED <<clients, seq, ping, now, silent, wronged, tmpmsg, at>>
    BY <1>7 DEF Delete, Erase, PublishDeleted, connVars, histVars, monVars, thrVars
  <2>2. pc[t] \in Closes BY <1>7 DEF Delete, Erase, PublishDeleted, Closes
  <2>3. \A u \in Threads : u # t => pc'[u] = pc[u]
    BY <1>1, <1>7, Moves DEF Delete, Erase, PublishDeleted, thrVars, Places
  <2>4. QED BY <1>3, <2>1, <2>2, <2>3
<1>8. ASSUME NEW t \in Threads, Retire(t) PROVE Silence'
  <2>1. at[t] \in Conns /\ pc[t] = "retire"
    BY <1>1, <1>8, AtConn DEF Retire, FreePlaces
  <2>2. /\ clients' = clients \ {at[t]} /\ UNCHANGED <<ping, now, silent>>
        /\ \A d \in Conns : d # at[t] => seq'[d] = seq[d]
    BY <1>1, <1>8 DEF Retire, ClientTypes
  <2>3. \A u \in Threads :
          /\ pc'[u] = IF u # t THEN pc[u] ELSE IF t = Timer THEN "next" ELSE "idle"
          /\ at'[u] = IF u = t THEN Nobody ELSE at[u]
    BY <1>1, <1>8, Leaves DEF Retire
  <2>4. at'[Timer] \in clients' =>
          /\ t # Timer /\ at'[Timer] = at[Timer] /\ at[Timer] \in clients
          /\ at[Timer] # at[t] /\ at[Timer] \in Conns /\ pc'[Timer] = pc[Timer]
    BY <1>1, <2>2, <2>3 DEF ClientTypes
  <2>5. at'[Timer] \in clients' => tmpmsg'.seq = seq'[at'[Timer]]
    BY <1>8, <2>2, <2>4 DEF Silence, Retire
  <2>6. wronged' = FALSE
    <3>1. wronged = FALSE BY DEF Silence
    <3>2. ~(t = Timer /\ at[t] \in clients
              /\ (tmpmsg.seq # seq[at[t]] \/ (~kickNow /\ at[t] \notin silent)))
      BY <2>1 DEF Silence, Closes
    <3>3. wronged' = (wronged \/ (t = Timer /\ at[t] \in clients
              /\ (tmpmsg.seq # seq[at[t]] \/ (~kickNow /\ at[t] \notin silent))))
      BY <1>8 DEF Retire
    <3>4. QED BY <3>1, <3>2, <3>3, Zenon
  <2>7. \A d \in clients' : now' - ping'[d] > Limit' => d \in silent'
    BY <2>2 DEF Silence, Limit
  <2>8. pc'[Timer] \in Closes /\ ~kickNow' /\ at'[Timer] \in clients' => at'[Timer] \in silent'
    BY <1>2, <2>2, <2>4 DEF Silence
  <2>9. QED BY <1>2, <2>5, <2>6, <2>7, <2>8 DEF Silence
<1>9. CASE Insert \/ LockQueue \/ UnlockQueue
  <2>1. \E t \in {Main, Timer}, p \in {"inserted", "over", "next"} : Goto(t, p)
    BY <1>9 DEF Insert, LockQueue, UnlockQueue
  <2>2. pc'[Timer] \in Closes => pc[Timer] \in Closes
    BY <1>1, <2>1, Moves DEF Places, Closes
  <2>3. QED
    BY <1>3, <1>9, <2>2 DEF Insert, LockQueue, UnlockQueue, connVars, histVars, monVars
<1>10. CASE PublishInserted
  <2>1. at'[Timer] = at[Timer] /\ pc'[Timer] = pc[Timer]
    BY <1>1, <1>10, Leaves DEF PublishInserted
  <2>2. UNCHANGED <<clients, seq, ping, now, silent, wronged, tmpmsg>>
    BY <1>10 DEF PublishInserted, connVars, histVars, monVars
  <2>3. QED BY <1>2, <2>1, <2>2 DEF Silence, Limit
<1>11. CASE OverTime
  BY <1>3, <1>11 DEF OverTime, connVars, histVars, thrVars
<1>12. CASE Poll \/ ReadClock \/ EndPass
  <2>1. pc' = pc \/ \E p \in {"clock", "scan", "asleep"} : Goto(Timer, p)
    BY <1>12 DEF Poll, ReadClock, EndPass
  <2>2. pc'[Timer] \in Closes => pc[Timer] \in Closes
    BY <1>1, <2>1, Moves DEF Places, Closes
  <2>3. QED
    BY <1>3, <1>12, <2>2 DEF Poll, ReadClock, EndPass, connVars, histVars
<1>13. CASE Compare
  <2>1. UNCHANGED <<clients, seq, ping, now, silent, wronged>> /\ pc[Timer] = "next"
    BY <1>13 DEF Compare, connVars, histVars
  <2>2. CASE UNCHANGED <<thrVars, tmpmsg>> BY <1>3, <2>1, <2>2 DEF thrVars
  <2>3. CASE /\ Begin(Timer, "check", Head(idleList).conn) /\ tmpmsg' = Head(idleList)
             /\ Current(Head(idleList))
    <3>1. idleList \in Seq(Entries) /\ idleList # <<>> /\ Head(idleList) = idleList[1]
          /\ 1 \in 1..Len(idleList)
      BY <1>13 DEF Compare, Types, QueueTypes
    <3>2. Head(idleList).conn \in Conns BY <3>1, Fields
    <3>3. pc'[Timer] = "check" /\ at'[Timer] = Head(idleList).conn
      BY <1>1, <2>3, <3>2, Begins DEF Places
    <3>4. pc'[Timer] \notin Closes BY <3>3 DEF Closes
    <3>5. tmpmsg'.seq = seq'[at'[Timer]] BY <2>1, <2>3, <3>3 DEF Current
    <3>6. QED BY <1>2, <2>1, <3>4, <3>5 DEF Silence, Limit
  <2>4. QED BY <1>13, <2>2, <2>3 DEF Compare
<1>14. CASE CheckPing
  <2>1. UNCHANGED <<clients, seq, ping, now, silent, wronged>> /\ pc[Timer] = "check"
    BY <1>14 DEF CheckPing, connVars, histVars
  <2>2. at[Timer] \in Conns BY <1>1, <2>1, AtConn DEF FreePlaces
  <2>3. CASE /\ kickNow \/ curTime - ping[at[Timer]] > Limit
             /\ Goto(Timer, "delete") /\ UNCHANGED <<at, since, tmpmsg>>
    <3>1. ~kickNow /\ at[Timer] \in clients => at[Timer] \in silent
      <4>1. curTime \in Nat /\ now \in Nat /\ ping[at[Timer]] \in Nat /\ curTime <= now
        BY <1>1, <2>2 DEF ClockTypes, ClientTypes, Silence
      <4>2. ~kickNow => now - ping[at[Timer]] > Limit BY <1>1, <2>3, <4>1
      <4>3. QED BY <4>2 DEF Silence
    <3>2. QED BY <1>2, <2>1, <2>3, <3>1 DEF Silence, Limit
  <2>4. CASE Leave(Timer) /\ tmpmsg' = NoEntry
    <3>1. at'[Timer] = Nobody BY <1>1, <2>4, Leaves
    <3>2. at'[Timer] \notin clients BY <1>1, <3>1 DEF ClientTypes
    <3>3. QED BY <1>2, <2>1, <3>2 DEF Silence, Limit
  <2>5. QED BY <1>14, <2>3, <2>4 DEF CheckPing
<1>15. CASE Tick
  <2>1. /\ UNCHANGED <<clients, seq, ping, wronged, tmpmsg, at, pc>> /\ now' = now + 1
        /\ silent' = silent \cup {c \in clients : now + 1 - ping[c] > Limit}
    BY <1>15 DEF Tick, connVars, thrVars
  <2>2. ASSUME NEW d \in clients', now' - ping'[d] > Limit' PROVE d \in silent'
    <3>1. clients' = clients /\ now' = now + 1 /\ ping' = ping BY <2>1
    <3>2. d \in clients BY <2>2, <3>1
    <3>3. Limit' = Limit BY DEF Limit
    <3>4. now \in Nat /\ ping[d] \in Nat /\ Limit \in Nat
      BY <1>1, <3>2 DEF ClockTypes, ClientTypes
    <3>5. now + 1 - ping[d] > Limit BY <2>2, <3>1, <3>3, <3>4
    <3>6. d \in {e \in clients : now + 1 - ping[e] > Limit} BY <3>2, <3>5
    <3>7. QED BY <2>1, <3>6
  <2>3. \A d \in silent : d \in silent' BY <2>1
  <2>4. wronged' = FALSE /\ (at'[Timer] \in clients' => tmpmsg'.seq = seq'[at'[Timer]])
    BY <2>1 DEF Silence
  <2>5. pc'[Timer] \in Closes /\ ~kickNow' /\ at'[Timer] \in clients' => at'[Timer] \in silent'
    BY <1>2, <2>1, <2>3 DEF Silence
  <2>6. QED BY <1>2, <2>2, <2>4, <2>5 DEF Silence
<1>16. QED
  BY <1>4, <1>5, <1>6, <1>7, <1>8, <1>9, <1>10, <1>11, <1>12, <1>13, <1>14, <1>15 DEF Next


(* The entry the monitor takes from its list to check it.                  *)
LEMMA Listed ==
  ASSUME Types, Compare
  PROVE  /\ idleList # <<>> /\ Head(idleList) = idleList[1] /\ 1 \in 1..Len(idleList)
         /\ Head(idleList) \in Entries /\ Head(idleList).conn \in Conns
         /\ Tail(idleList) \in Seq(Entries) /\ Without(Tail(idleList), idleList, 1)
<1>1. idleList \in Seq(Entries) /\ idleList # <<>> BY DEF Types, QueueTypes, Compare
<1>2. Head(idleList) = idleList[1] /\ 1 \in 1..Len(idleList) BY <1>1
<1>3. QED BY <1>1, <1>2, Fields, TailRemoves

(* A step keeps that nobody knows of a client that is not entered yet.     *)
LEMMA StepAlone ==
  ASSUME Types, Stations, Alone, Hands, Next
  PROVE  Alone'
<1> USE Kinds DEF TimerAt
<1>1. ThreadTypes /\ ClockTypes /\ ClientTypes BY DEF Types
<1>2. ASSUME UNCHANGED <<clients, at>>, pc'[Main] = "insert" => pc[Main] = "insert"
      PROVE  Alone'
  BY <1>2 DEF Alone
<1>3. ASSUME NEW c \in Conns, Accept(c) PROVE Alone'
  <2>1. at'[Main] = c /\ c \in clients' BY <1>1, <1>3, Begins DEF Accept, Places
  <2>2. at'[Timer] = at[Timer] /\ at'[Worker] = at[Worker]
    BY <1>1, <1>3, Begins DEF Accept, Places
  <2>3. at[Timer] # c /\ at[Worker] # c BY <1>3 DEF Accept, Working
  <2>4. QED BY <2>1, <2>2, <2>3 DEF Alone
<1>4. ASSUME NEW c \in Conns, ClientGone(c) PROVE Alone'
  <2>1. pc'[Main] = "delete" BY <1>1, <1>4, Begins DEF ClientGone, Places
  <2>2. QED BY <2>1 DEF Alone
<1>5. ASSUME NEW c \in Conns, CutOff(c) PROVE Alone'
  <2>1. /\ \A t \in {Main, Timer} : pc'[t] = pc[t] /\ at'[t] = at[t]
        /\ at'[Worker] = c /\ clients' = clients
    BY <1>1, <1>5, Begins DEF CutOff, Places, connVars
  <2>2. pc[Main] = "insert" => at[Main] # c BY <1>5 DEF CutOff, Served
  <2>3. QED BY <2>1, <2>2 DEF Alone
<1>6. ASSUME NEW c \in Conns, HandlePing(c) PROVE Alone'
  BY <1>2, <1>6 DEF HandlePing, thrVars
<1>7. ASSUME NEW t \in Threads, Delete(t) \/ Erase(t) \/ PublishDeleted(t) PROVE Alone'
  <2>1. UNCHANGED <<clients, at>>
    BY <1>7 DEF Delete, Erase, PublishDeleted, connVars, thrVars
  <2>2. pc' = pc \/ \E p \in {"erase", "retire"} : Goto(t, p)
    BY <1>7 DEF Delete, Erase, PublishDeleted, thrVars
  <2>3. pc'[Main] = "insert" => pc[Main] = "insert" BY <1>1, <2>2, Moves DEF Places
  <2>4. QED BY <1>2, <2>1, <2>3
<1>8. ASSUME NEW t \in Threads, Retire(t) PROVE Alone'
  <2>1. \A u \in Threads :
          /\ pc'[u] = IF u # t THEN pc[u] ELSE IF t = Timer THEN "next" ELSE "idle"
          /\ at'[u] = IF u = t THEN Nobody ELSE at[u]
    BY <1>1, <1>8, Leaves DEF Retire
  <2>2. clients' = clients \ {at[t]} BY <1>8 DEF Retire
  <2>3. CASE pc'[Main] # "insert" BY <2>3 DEF Alone
  <2>4. CASE pc'[Main] = "insert"
    <3>1. t # Main /\ pc[Main] = "insert" /\ at'[Main] = at[Main] BY <2>1, <2>4
    <3>2. at[Main] \in clients /\ at[t] # at[Main] BY <3>1 DEF Alone
    <3>3. at[Main] # Nobody BY <1>1, <3>2 DEF ClientTypes
    <3>4. QED BY <2>1, <2>2, <3>1, <3>2, <3>3 DEF Alone
  <2>5. QED BY <2>3, <2>4
<1>9. CASE Insert \/ LockQueue \/ UnlockQueue
  <2>1. \E t \in {Main, Timer}, p \in {"inserted", "over", "next"} : Goto(t, p)
    BY <1>9 DEF Insert, LockQueue, UnlockQueue
  <2>2. pc'[Main] = "insert" => pc[Main] = "insert"
    BY <1>1, <2>1, Moves DEF Places
  <2>3. QED BY <1>2, <1>9, <2>2 DEF Insert, LockQueue, UnlockQueue, connVars
<1>10. CASE PublishInserted
  <2>1. pc'[Main] = "idle" BY <1>1, <1>10, Leaves DEF PublishInserted
  <2>2. QED BY <2>1 DEF Alone
<1>11. CASE OverTime \/ Tick
  BY <1>2, <1>11 DEF OverTime, Tick, connVars, thrVars
<1>12. CASE Poll \/ ReadClock \/ EndPass
  <2>1. pc' = pc \/ \E p \in {"clock", "scan", "asleep"} : Goto(Timer, p)
    BY <1>12 DEF Poll, ReadClock, EndPass
  <2>2. pc'[Main] = "insert" => pc[Main] = "insert"
    BY <1>1, <2>1, Moves DEF Places
  <2>3. QED BY <1>2, <1>12, <2>2 DEF Poll, ReadClock, EndPass, connVars
<1>13. CASE Compare
  <2>1. clients' = clients BY <1>13 DEF Compare, connVars
  <2>2. CASE UNCHANGED <<thrVars, tmpmsg>> BY <1>2, <2>1, <2>2 DEF thrVars
  <2>3. CASE Begin(Timer, "check", Head(idleList).conn) /\ Current(Head(idleList))
    <3>1. /\ \A t \in {Main, Worker} : pc'[t] = pc[t] /\ at'[t] = at[t]
          /\ at'[Timer] = Head(idleList).conn
      BY <1>1, <1>13, <2>3, Listed, Begins DEF Places
    <3>2. Taken(Head(idleList)) BY <1>13, Listed DEF Hands, AllTaken
    <3>3. ~Entering(Head(idleList).conn)
      <4>1. Head(idleList).seq = seq[Head(idleList).conn] BY <2>3 DEF Current
      <4>2. Head(idleList).conn \in Conns /\ seq[Head(idleList).conn] \in Nat
        BY <1>1, <1>13, Listed DEF ClientTypes
      <4>3. QED BY <3>2, <4>1, <4>2 DEF Taken
    <3>4. QED BY <2>1, <3>1, <3>3 DEF Alone, Entering
  <2>4. QED BY <1>13, <2>2, <2>3 DEF Compare
<1>14. CASE CheckPing
  <2>1. clients' = clients BY <1>14 DEF CheckPing, connVars
  <2>2. CASE Goto(Timer, "delete") /\ UNCHANGED <<at, since, tmpmsg>>
    <3>1. pc'[Main] = pc[Main] BY <1>1, <2>2, Moves DEF Places
    <3>2. QED BY <1>2, <2>1, <2>2, <3>1
  <2>3. CASE Leave(Timer)
    <3>1. /\ \A t \in {Main, Worker} : pc'[t] = pc[t] /\ at'[t] = at[t]
          /\ at'[Timer] = Nobody
      BY <1>1, <2>3, Leaves
    <3>2. Nobody \notin clients BY <1>1 DEF ClientTypes
    <3>3. QED BY <2>1, <3>1, <3>2 DEF Alone
  <2>4. QED BY <1>14, <2>2, <2>3 DEF CheckPing
<1>15. QED
  BY <1>3, <1>4, <1>5, <1>6, <1>7, <1>8, <1>9, <1>10, <1>11, <1>12, <1>13, <1>14 DEF Next

(* A step keeps that a client has one entry at most, and that only clients *)
(* who have been entered and not been taken out have one.                  *)
LEMMA StepEntered ==
  ASSUME Types, Stations, Gate, Alone, Entered, Next
  PROVE  Entered'
<1> USE Kinds DEF TimerAt
<1>1. /\ ThreadTypes /\ ClockTypes /\ ClientTypes /\ queue \in Seq(Entries)
      /\ \A i \in 1..Len(queue) : queue[i] \in Entries /\ queue[i].conn \in Conns
  BY Fields DEF Types, QueueTypes
<1>2. ASSUME NEW e \in Entries, Owned(e), e.conn \in clients', seq'[e.conn] = seq[e.conn],
             \A u \in Threads : at'[u] = e.conn /\ pc'[u] \in {"insert", "retire"} =>
                                  pc'[u] = pc[u] /\ at'[u] = at[u]
      PROVE  Owned(e)'
  BY <1>2 DEF Owned, Entering, Leaving
<1>3. ASSUME OneEntry(queue'), \A j \in 1..Len(queue') : \E e \in Entries :
               Owned(e)' /\ e.conn = queue'[j].conn /\ e.seq = queue'[j].seq
      PROVE  Entered'
  BY <1>3 DEF Entered, Owned, OneEntry
<1>4. ASSUME queue' = queue, \A i \in 1..Len(queue) : Owned(queue[i])' PROVE Entered'
  <2>1. OneEntry(queue') BY <1>4 DEF Entered
  <2>2. QED BY <1>1, <1>3, <1>4, <2>1
<1>5. ASSUME UNCHANGED <<queue, clients, seq>>,
             \A u \in Threads : pc'[u] \in {"insert", "retire"} =>
                                  pc'[u] = pc[u] /\ at'[u] = at[u]
      PROVE  Entered'
  <2>1. ASSUME NEW i \in 1..Len(queue) PROVE Owned(queue[i])'
    <3>1. queue[i] \in Entries /\ Owned(queue[i]) BY <1>1 DEF Entered
    <3>2. queue[i].conn \in clients BY <3>1 DEF Owned
    <3>3. PICK e \in Entries : e = queue[i] BY <3>1
    <3>4. Owned(e)' BY <1>2, <1>5, <3>1, <3>2, <3>3
    <3>5. QED BY <1>5, <3>3, <3>4 DEF Owned
  <2>2. OneEntry(queue') BY <1>5 DEF Entered
  <2>3. QED BY <1>5, <2>1, <2>2 DEF Entered
<1>6. ASSUME NEW c \in Conns, Accept(c) PROVE Entered'
  <2>1. /\ queue' = queue /\ clients' = clients \cup {c}
        /\ \A d \in Conns : d # c => seq'[d] = seq[d]
    BY <1>1, <1>6 DEF Accept, queueVars, ClientTypes
  <2>2. \A u \in Threads : /\ pc'[u] = IF u = Main THEN "insert" ELSE pc[u]
                           /\ at'[u] = IF u = Main THEN c ELSE at[u]
    BY <1>1, <1>6, Begins DEF Accept, Places
  <2>3. ASSUME NEW j \in 1..Len(queue')
        PROVE  \E e \in Entries : Owned(e)' /\ e.conn = queue'[j].conn /\ e.seq = queue'[j].seq
    <3>1. PICK e \in Entries : e = queue[j] /\ e.conn \in Conns BY <1>1, <2>1
    <3>2. Owned(e) BY <2>1, <3>1 DEF Entered
    <3>3. e.conn \in clients /\ e.conn # c BY <1>6, <3>2 DEF Owned, Accept
    <3>4. Owned(e)' BY <1>2, <2>1, <2>2, <3>1, <3>2, <3>3
    <3>5. QED BY <2>1, <3>1, <3>4
  <2>4. OneEntry(queue') BY <2>1 DEF Entered
  <2>5. QED BY <1>3, <2>3, <2>4
<1>7. CASE Insert
  <2>1. PICK p \in 1..Len(queue) + 1 : queue' \in Seq(Entries) /\ With(queue', queue, p, MainEntry)
    BY <1>7, InsertStep
  <2>2. /\ MainEntry \in Entries /\ MainEntry.conn = at[Main] /\ at[Main] \in Conns
        /\ MainEntry.seq = seq[at[Main]] /\ pc[Main] = "insert"
    BY <1>7, MainEntryTyped DEF Insert
  <2>3. UNCHANGED <<clients, seq, at>> /\ \A u \in Threads :
          pc'[u] = IF u = Main THEN "inserted" ELSE pc[u]
    BY <1>1, <1>7, Moves DEF Insert, connVars, Places
  <2>4. /\ at[Main] \in clients /\ \A u \in Threads : u # Main => at[u] # at[Main]
        /\ Entering(at[Main])
    BY <2>2 DEF Alone, Entering
  <2>5. \A i \in 1..Len(queue) : queue[i].conn # MainEntry.conn
    BY <2>2, <2>4 DEF Entered, Owned
  <2>6. OneEntry(queue') BY <1>1, <2>1, <2>2, <2>5, Added DEF Entered
  <2>7. ASSUME NEW j \in 1..Len(queue')
        PROVE  \E e \in Entries : Owned(e)' /\ e.conn = queue'[j].conn /\ e.seq = queue'[j].seq
    <3>1. CASE queue'[j] = MainEntry
      <4>1. PICK e \in Entries : e.conn = at[Main] /\ e.seq = seq[at[Main]] /\ e = queue'[j]
        BY <2>2, <3>1
      <4>2. e.conn \in clients' /\ e.seq = seq'[e.conn] BY <2>3, <2>4, <4>1
      <4>3. ~Entering(e.conn)' /\ ~Leaving(e.conn)'
        BY <2>3, <2>4, <4>1 DEF Entering, Leaving
      <4>4. QED BY <4>1, <4>2, <4>3 DEF Owned
    <3>2. CASE \E i \in 1..Len(queue) : queue'[j] = queue[i]
      <4>1. PICK i \in 1..Len(queue) : queue'[j] = queue[i] BY <3>2
      <4>2. PICK e \in Entries : e = queue[i] BY <1>1
      <4>3. Owned(e) BY <4>2 DEF Entered
      <4>4. e.conn \in clients BY <4>3 DEF Owned
      <4>5. Owned(e)' BY <1>2, <2>3, <4>3, <4>4
      <4>6. QED BY <4>1, <4>2, <4>5
    <3>3. QED BY <1>1, <2>1, <2>2, <3>1, <3>2, Added
  <2>8. QED BY <1>3, <2>6, <2>7
<1>8. ASSUME NEW t \in Threads, Delete(t) PROVE Entered'
  <2>1. \A u \in Threads : pc'[u] = IF u = t THEN "erase" ELSE pc[u]
    BY <1>1, <1>8, Moves DEF Delete, Places
  <2>2. QED BY <1>5, <1>8, <2>1 DEF Delete, connVars
<1>9. ASSUME NEW t \in Threads, Erase(t) PROVE Entered'
  <2>1. PICK p \in 1..Len(queue) : queue' \in Seq(Entries) /\ Without(queue', queue, p)
    BY <1>9, EraseStep
  <2>2. UNCHANGED <<clients, seq, at, pc>> BY <1>9 DEF Erase, connVars, thrVars
  <2>3. OneEntry(queue') BY <1>1, <2>1, LeftOver DEF Entered
  <2>4. ASSUME NEW j \in 1..Len(queue')
        PROVE  \E e \in Entries : Owned(e)' /\ e.conn = queue'[j].conn /\ e.seq = queue'[j].seq
    <3>1. PICK i \in 1..Len(queue) : queue'[j] = queue[i] BY <1>1, <2>1, LeftOver
    <3>2. PICK e \in Entries : e = queue[i] BY <1>1
    <3>3. Owned(e) BY <3>2 DEF Entered
    <3>4. e.conn \in clients BY <3>3 DEF Owned
    <3>5. Owned(e)' BY <1>2, <2>2, <3>3, <3>4
    <3>6. QED BY <3>1, <3>2, <3>5
  <2>5. QED BY <1>3, <2>3, <2>4
<1>10. ASSUME NEW t \in Threads, PublishDeleted(t) PROVE Entered'
  <2>1. \A u \in Threads : pc'[u] = IF u = t THEN "retire" ELSE pc[u]
    BY <1>1, <1>10, Moves DEF PublishDeleted, Places
  <2>2. UNCHANGED <<queue, clients, seq, at>> BY <1>10 DEF PublishDeleted, connVars
  <2>3. \A i \in 1..Len(queue) : queue[i].conn # at[t] BY <1>10 DEF PublishDeleted, InQueue
  <2>4. ASSUME NEW j \in 1..Len(queue')
        PROVE  \E e \in Entries : Owned(e)' /\ e.conn = queue'[j].conn /\ e.seq = queue'[j].seq
    <3>1. PICK e \in Entries : e = queue[j] BY <1>1, <2>2
    <3>2. Owned(e) BY <2>2, <3>1 DEF Entered
    <3>3. e.conn \in clients /\ e.conn # at[t] BY <2>2, <2>3, <3>1, <3>2 DEF Owned
    <3>4. Owned(e)' BY <1>2, <2>1, <2>2, <3>2, <3>3
    <3>5. QED BY <2>2, <3>1, <3>4
  <2>5. OneEntry(queue') BY <2>2 DEF Entered
  <2>6. QED BY <1>3, <2>4, <2>5
<1>11. ASSUME NEW t \in Threads, Retire(t) PROVE Entered'
  <2>1. at[t] \in Conns /\ Leaving(at[t])
    BY <1>1, <1>11, AtConn DEF Retire, FreePlaces, Leaving
  <2>2. /\ clients' = clients \ {at[t]} /\ queue' = queue
        /\ \A d \in Conns : d # at[t] => seq'[d] = seq[d]
    BY <1>1, <1>11 DEF Retire, ClientTypes, queueVars
  <2>3. \A u \in Threads :
          /\ pc'[u] = IF u # t THEN pc[u] ELSE IF t = Timer THEN "next" ELSE "idle"
          /\ at'[u] = IF u = t THEN Nobody ELSE at[u]
    BY <1>1, <1>11, Leaves DEF Retire
  <2>4. ASSUME NEW j \in 1..Len(queue')
        PROVE  \E e \in Entries : Owned(e)' /\ e.conn = queue'[j].conn /\ e.seq = queue'[j].seq
    <3>1. PICK e \in Entries : e = queue[j] /\ e.conn \in Conns BY <1>1, <2>2
    <3>2. Owned(e) BY <2>2, <3>1 DEF Entered
    <3>3. e.conn \in clients /\ e.conn # at[t] BY <2>1, <3>2 DEF Owned
    <3>4. Owned(e)' BY <1>2, <2>2, <2>3, <3>1, <3>2, <3>3
    <3>5. QED BY <2>2, <3>1, <3>4
  <2>5. OneEntry(queue') BY <2>2 DEF Entered
  <2>6. QED BY <1>3, <2>4, <2>5
<1>12. CASE OverTime
  <2>1. /\ queue' \in Seq(Entries) /\ Tail(queue) \in Seq(Entries)
        /\ Without(Tail(queue), queue, 1) /\ 1 \in 1..Len(queue) /\ Head(queue) = queue[1]
        /\ UNCHANGED <<clients, seq, at, pc>> /\ kickNow \in BOOLEAN
    BY <1>12, OverTimeStep, HeadTyped DEF OverTime, connVars, thrVars, Types, FlagTypes
  <2>2. ASSUME NEW i \in 1..Len(queue)
        PROVE  \E e \in Entries : Owned(e)' /\ e.conn = queue[i].conn /\ e.seq = queue[i].seq
    <3>1. PICK e \in Entries : e = queue[i] BY <1>1
    <3>2. Owned(e) BY <3>1 DEF Entered
    <3>3. e.conn \in clients BY <3>2 DEF Owned
    <3>4. Owned(e)' BY <1>2, <2>1, <3>2, <3>3
    <3>5. QED BY <3>1, <3>4
  <2>3. /\ \A j \in 1..Len(Tail(queue)) : \E i \in 1..Len(queue) : i # 1 /\ Tail(queue)[j] = queue[i]
        /\ OneEntry(Tail(queue))
    <3>1. queue # <<>> /\ OneEntry(queue) BY <1>12 DEF OverTime, FirstIsDue, Entered
    <3>2. QED BY <1>1, <3>1, TailKeeps
  <2>4. CASE kickNow
    <3>1. queue' = Tail(queue) BY <1>12, <2>4, OverTimeStep
    <3>2. QED BY <1>3, <2>2, <2>3, <3>1
  <2>5. CASE ~kickNow
    <3>1. PICK p \in 1..Len(Tail(queue)) + 1 : With(queue', Tail(queue), p, Requeued(Head(queue)))
      BY <1>12, <2>5, OverTimeStep
    <3>2. /\ Requeued(Head(queue)) \in Entries
          /\ Requeued(Head(queue)).conn = queue[1].conn /\ Requeued(Head(queue)).seq = queue[1].seq
      BY <1>12, HeadTyped DEF OverTime
    <3> DEFINE e == Requeued(Head(queue))
               r == Tail(queue)
    <3> HIDE DEF e, r
    <3>3. ASSUME NEW j \in 1..Len(r) PROVE r[j].conn # e.conn
      <4>1. PICK i \in 1..Len(queue) : i # 1 /\ r[j] = queue[i] BY <2>3 DEF r
      <4>2. queue[i].conn # queue[1].conn BY <2>1, <4>1 DEF Entered, OneEntry
      <4>3. QED BY <3>2, <4>1, <4>2 DEF e
    <3>4. /\ OneEntry(queue')
          /\ \A j \in 1..Len(queue') : queue'[j] = e \/ \E i \in 1..Len(r) : queue'[j] = r[i]
      <4>1. /\ With(queue', r, p, e) /\ r \in Seq(Entries) /\ OneEntry(r) /\ e \in Entries
            /\ p \in 1..Len(r) + 1
        BY <2>1, <2>3, <3>1, <3>2 DEF e, r
      <4>2. QED BY <2>1, <3>3, <4>1, Added
    <3>5. ASSUME NEW j \in 1..Len(queue')
          PROVE  \E i \in 1..Len(queue) :
                   queue'[j].conn = queue[i].conn /\ queue'[j].seq = queue[i].seq
      <4>1. CASE queue'[j] = e BY <2>1, <3>2, <4>1 DEF e
      <4>2. CASE \E i \in 1..Len(r) : queue'[j] = r[i] BY <2>3, <4>2 DEF r
      <4>3. QED BY <3>4, <4>1, <4>2
    <3>6. QED BY <1>3, <2>2, <3>4, <3>5
  <2>6. QED BY <2>4, <2>5
<1>13. ASSUME NEW c \in Conns, ClientGone(c) \/ CutOff(c) PROVE Entered'
  <2>1. PICK t \in {Main, Worker} : Begin(t, "delete", c) BY <1>13 DEF ClientGone, CutOff
  <2>2. \A u \in Threads : /\ pc'[u] = IF u = t THEN "delete" ELSE pc[u]
                           /\ at'[u] = IF u = t THEN c ELSE at[u]
    BY <1>1, <2>1, Begins DEF Places
  <2>3. QED BY <1>5, <1>13, <2>2 DEF ClientGone, CutOff, connVars, queueVars
<1>14. ASSUME NEW c \in Conns, HandlePing(c) PROVE Entered'
  BY <1>5, <1>14 DEF HandlePing, thrVars, queueVars
<1>15. CASE PublishInserted
  <2>1. \A u \in Threads : u # Main => pc'[u] = pc[u] /\ at'[u] = at[u]
    BY <1>1, <1>15, Leaves DEF PublishInserted
  <2>2. pc'[Main] = "idle" BY <1>1, <1>15, Leaves DEF PublishInserted
  <2>3. QED BY <1>5, <1>15, <2>1, <2>2 DEF PublishInserted, connVars
<1>16. CASE LockQueue \/ UnlockQueue \/ Poll \/ ReadClock \/ EndPass \/ Tick
  <2>1. \/ pc' = pc
        \/ \E p \in {"over", "next", "clock", "scan", "asleep"} : Goto(Timer, p)
    BY <1>16 DEF LockQueue, UnlockQueue, Poll, ReadClock, EndPass, Tick, thrVars
  <2>2. UNCHANGED <<queue, clients, seq, at>>
    BY <1>16 DEF LockQueue, UnlockQueue, Poll, ReadClock, EndPass, Tick, thrVars, connVars,
                 queueVars
  <2>3. \A u \in Threads : pc'[u] \in {"insert", "retire"} => pc'[u] = pc[u] /\ at'[u] = at[u]
    BY <1>1, <2>1, <2>2, Moves DEF Places
  <2>4. QED BY <1>5, <2>2, <2>3
<1>17. CASE Compare \/ CheckPing
  <2>1. \/ pc' = pc /\ at' = at
        \/ Begin(Timer, "check", Head(idleList).conn) /\ Head(idleList).conn \in Conns
        \/ Goto(Timer, "delete") /\ at' = at
        \/ Leave(Timer)
    BY <1>17, Listed DEF Compare, CheckPing, thrVars
  <2>2. \A u \in Threads : pc'[u] \in {"insert", "retire"} => pc'[u] = pc[u] /\ at'[u] = at[u]
    BY <1>1, <2>1, Moves, Begins, Leaves DEF Places
  <2>3. QED BY <1>5, <1>17, <2>2 DEF Compare, CheckPing, connVars, queueVars
<1>18. QED
  BY <1>6, <1>7, <1>8, <1>9, <1>10, <1>11, <1>12, <1>13, <1>14, <1>15, <1>16, <1>17 DEF Next

(* A step keeps that what the monitor has taken is of clients who have     *)
(* been entered, or were before.                                           *)
LEMMA StepTaken ==
  ASSUME Types, Stations, Entered, AllTaken, Next
  PROVE  AllTaken'
<1> USE Kinds DEF TimerAt
<1>1. /\ ThreadTypes /\ ClockTypes /\ ClientTypes /\ idleList \in Seq(Entries)
      /\ \A i \in 1..Len(idleList) : idleList[i] \in Entries
      /\ \A e \in Entries : e.conn \in Conns /\ e.seq \in Nat
  BY Fields DEF Types, QueueTypes, Entries
<1>2. ASSUME NEW e \in Entries, Taken(e), seq'[e.conn] = seq[e.conn],
             e.conn \in clients => e.conn \in clients', Entering(e.conn)' => Entering(e.conn)
      PROVE  Taken(e)'
  BY <1>2 DEF Taken
<1>3. ASSUME \A j \in 1..Len(idleList') : \E e \in Entries : Taken(e)' /\ e = idleList'[j]
      PROVE  AllTaken'
  BY <1>3 DEF AllTaken, Taken
<1>4. \A i \in 1..Len(idleList) : \E e \in Entries : Taken(e) /\ e = idleList[i]
  BY <1>1 DEF AllTaken
<1>5. ASSUME idleList' = idleList, UNCHANGED <<clients, seq>>,
             pc'[Main] = "insert" => pc[Main] = "insert" /\ at'[Main] = at[Main]
      PROVE  AllTaken'
  <2>1. ASSUME NEW e \in Entries, Taken(e) PROVE Taken(e)'
    BY <1>2, <1>5, <2>1 DEF Entering
  <2>2. QED BY <1>3, <1>4, <1>5, <2>1
<1>6. ASSUME NEW c \in Conns, Accept(c) PROVE AllTaken'
  <2>1. /\ idleList' = idleList /\ clients' = clients \cup {c} /\ seq'[c] = seq[c] + 2
        /\ \A d \in Conns : d # c => seq'[d] = seq[d]
    BY <1>1, <1>6 DEF Accept, monVars, ClientTypes
  <2>2. at'[Main] = c BY <1>1, <1>6, Begins DEF Accept, Places
  <2>3. ASSUME NEW e \in Entries, Taken(e) PROVE Taken(e)'
    <3>1. CASE e.conn = c
      <4>1. seq[c] \in Nat /\ e.seq \in Nat /\ e.seq <= seq[c]
        BY <1>1, <2>3, <3>1 DEF Taken, ClientTypes
      <4>2. e.seq < seq'[c] BY <2>1, <4>1
      <4>3. QED BY <3>1, <4>1, <2>1, <4>2 DEF Taken
    <3>2. CASE e.conn # c
      <4>1. ~Entering(e.conn)' BY <2>2, <3>2 DEF Entering
      <4>2. QED BY <1>1, <1>2, <2>1, <2>3, <3>2, <4>1
    <3>3. QED BY <3>1, <3>2
  <2>4. QED BY <1>3, <1>4, <2>1, <2>3
<1>7. ASSUME NEW t \in Threads, Retire(t) PROVE AllTaken'
  <2>1. at[t] \in Conns BY <1>1, <1>7, AtConn DEF Retire, FreePlaces
  <2>2. /\ clients' = clients \ {at[t]} /\ idleList' = idleList
        /\ \A d \in Conns : d # at[t] => seq'[d] = seq[d]
        /\ seq'[at[t]] = IF at[t] \in clients THEN seq[at[t]] + 1 ELSE seq[at[t]]
    BY <1>1, <1>7, <2>1 DEF Retire, ClientTypes
  <2>3. \A u \in Threads :
          /\ pc'[u] = IF u # t THEN pc[u] ELSE IF t = Timer THEN "next" ELSE "idle"
          /\ at'[u] = IF u = t THEN Nobody ELSE at[u]
    BY <1>1, <1>7, Leaves DEF Retire
  <2>4. ASSUME NEW e \in Entries, Taken(e) PROVE Taken(e)'
    <3>1. CASE e.conn = at[t]
      <4>1. /\ seq[at[t]] \in Nat /\ e.seq \in Nat /\ e.seq <= seq[at[t]]
            /\ at[t] \notin clients => e.seq < seq[at[t]]
        BY <1>1, <2>1, <2>4, <3>1 DEF Taken, ClientTypes
      <4>2. e.seq < seq'[at[t]] BY <2>2, <4>1
      <4>3. seq'[at[t]] \in Nat /\ e.seq <= seq'[at[t]] BY <2>2, <4>1
      <4>4. QED BY <3>1, <4>2, <4>3 DEF Taken
    <3>2. CASE e.conn # at[t]
      <4>1. Entering(e.conn)' => Entering(e.conn) BY <1>1, <2>3 DEF Entering
      <4>2. e.conn \in clients => e.conn \in clients' BY <2>2, <3>2
      <4>3. QED BY <1>1, <1>2, <2>2, <2>4, <3>2, <4>1, <4>2
    <3>3. QED BY <3>1, <3>2
  <2>5. QED BY <1>3, <1>4, <2>2, <2>4
<1>8. ASSUME UNCHANGED <<clients, seq, at, pc>>, NEW e \in Entries, Taken(e) PROVE Taken(e)'
  BY <1>2, <1>8 DEF Entering
<1>9. CASE OverTime
  <2>1. UNCHANGED <<clients, seq, at, pc>> BY <1>9 DEF OverTime, connVars, thrVars
  <2>2. Head(queue) \in Entries /\ Owned(Head(queue))
    BY <1>9, HeadTyped DEF OverTime, Entered
  <2>3. Taken(Head(queue))
    <3>1. Head(queue).seq = seq[Head(queue).conn] /\ seq[Head(queue).conn] \in Nat
      BY <1>1, <2>2 DEF Owned, ClientTypes
    <3>2. QED BY <2>2, <3>1 DEF Owned, Taken
  <2>4. idleList' = Append(idleList, Head(queue)) BY <1>9 DEF OverTime
  <2>5. ASSUME NEW j \in 1..Len(idleList')
        PROVE  \E e \in Entries : Taken(e) /\ e = idleList'[j]
    <3>1. idleList'[j] = Head(queue) \/ \E i \in 1..Len(idleList) : idleList'[j] = idleList[i]
      BY <1>1, <2>2, <2>4
    <3>2. QED BY <1>4, <2>2, <2>3, <3>1
  <2>6. QED BY <1>3, <1>8, <2>1, <2>5
<1>10. CASE Compare
  <2>1. idleList' = Tail(idleList) /\ UNCHANGED <<clients, seq>>
    BY <1>10 DEF Compare, connVars
  <2>2. \A j \in 1..Len(idleList') : \E i \in 1..Len(idleList) : idleList'[j] = idleList[i]
    <3>1. idleList # <<>> BY <1>10 DEF Compare
    <3>2. \A j \in 1..Len(Tail(idleList)) :
            \E i \in 1..Len(idleList) : i # 1 /\ Tail(idleList)[j] = idleList[i]
      BY <1>1, <3>1, TailKeeps
    <3>3. QED BY <2>1, <3>2
  <2>3. pc'[Main] = pc[Main] /\ at'[Main] = at[Main]
    BY <1>1, <1>10, Listed, Begins DEF Compare, thrVars, Places
  <2>4. ASSUME NEW e \in Entries, Taken(e) PROVE Taken(e)'
    BY <1>2, <2>1, <2>3, <2>4 DEF Entering
  <2>5. QED BY <1>3, <1>4, <2>2, <2>4
<1>11. ASSUME NEW c \in Conns, ClientGone(c) \/ CutOff(c) \/ HandlePing(c) PROVE AllTaken'
  <2>1. (pc' = pc /\ at' = at) \/ \E t \in {Main, Worker} : Begin(t, "delete", c)
    BY <1>11 DEF ClientGone, CutOff, HandlePing, thrVars
  <2>2. pc'[Main] = "insert" => pc[Main] = "insert" /\ at'[Main] = at[Main]
    BY <1>1, <2>1, Begins DEF Places
  <2>3. QED BY <1>5, <1>11, <2>2 DEF ClientGone, CutOff, HandlePing, connVars, monVars
<1>12. ASSUME NEW t \in Threads, Delete(t) \/ Erase(t) \/ PublishDeleted(t) PROVE AllTaken'
  <2>1. pc' = pc \/ \E p \in {"erase", "retire"} : Goto(t, p)
    BY <1>12 DEF Delete, Erase, PublishDeleted, thrVars
  <2>2. pc'[Main] = "insert" => pc[Main] = "insert" BY <1>1, <2>1, Moves DEF Places
  <2>3. QED
    BY <1>5, <1>12, <2>2 DEF Delete, Erase, PublishDeleted, connVars, monVars, thrVars
<1>13. CASE Insert \/ PublishInserted
  <2>1. pc'[Main] # "insert"
    BY <1>1, <1>13, Moves, Leaves DEF Insert, PublishInserted, Places
  <2>2. QED BY <1>5, <1>13, <2>1 DEF Insert, PublishInserted, connVars, monVars
<1>14. CASE LockQueue \/ UnlockQueue \/ Poll \/ ReadClock \/ EndPass \/ CheckPing \/ Tick
  <2>1. \/ pc' = pc /\ at' = at
        \/ \E p \in {"over", "next", "clock", "scan", "asleep", "delete"} :
             Goto(Timer, p) /\ at' = at
        \/ Leave(Timer)
    BY <1>14 DEF LockQueue, UnlockQueue, Poll, ReadClock, EndPass, CheckPing, Tick, thrVars
  <2>2. pc'[Main] = pc[Main] /\ at'[Main] = at[Main]
    BY <1>1, <2>1, Moves, Leaves DEF Places
  <2>3. QED
    BY <1>5, <1>14, <2>2 DEF LockQueue, UnlockQueue, Poll, ReadClock, EndPass, CheckPing,
       Tick, connVars, monVars
<1>15. QED
  BY <1>6, <1>7, <1>9, <1>10, <1>11, <1>12, <1>13, <1>14 DEF Next

(* A step keeps that, if the monitor is to cut off all whose time is up,   *)
(* it has at most one entry of each client, who is then not in the queue.  *)
LEMMA StepOnlyHeld ==
  ASSUME Types, Stations, Gate, Alone, Entered, Hands, Next
  PROVE  (kickNow => \A c \in clients : OnlyHeld(c))'
<1> USE Kinds DEF TimerAt
<1>1. /\ ThreadTypes /\ ClockTypes /\ ClientTypes /\ queue \in Seq(Entries)
      /\ idleList \in Seq(Entries) /\ kickNow' = kickNow
  BY StepFlagTypes DEF Types, QueueTypes
<1> SUFFICES ASSUME kickNow, NEW c \in clients' PROVE OnlyHeld(c)'
  BY <1>1
<1>2. clients' \subseteq Conns /\ c \in Conns
  BY StepClientTypes DEF ClientTypes
<1>3. ASSUME c \in clients, seq'[c] = seq[c], idleList' = idleList,
             InChecking(c)' => InChecking(c), InListOf(c)' => InListOf(c)
      PROVE  OnlyHeld(c)'
  <2>1. OnlyHeld(c) BY <1>3 DEF Hands
  <2>2. \A i : Held(i, c)' <=> Held(i, c) BY <1>3 DEF Held
  <2>3. QED BY <1>3, <2>1, <2>2 DEF OnlyHeld
<1>4. ASSUME NEW d \in Conns, Accept(d) PROVE OnlyHeld(c)'
  <2>1. /\ clients' = clients \cup {d} /\ seq'[d] = seq[d] + 2 /\ queue' = queue
        /\ idleList' = idleList /\ \A b \in Conns : b # d => seq'[b] = seq[b]
    BY <1>1, <1>4 DEF Accept, monVars, queueVars, ClientTypes
  <2>2. at'[Timer] = at[Timer] /\ pc'[Timer] = pc[Timer] /\ at[Timer] # d
    BY <1>1, <1>4, Begins DEF Accept, Places, Working
  <2>3. CASE c = d
    <3>1. ASSUME NEW i \in 1..Len(idleList') PROVE ~Held(i, c)'
      <4>1. Taken(idleList[i]) /\ idleList[i].seq \in Nat /\ idleList'[i] = idleList[i]
        BY <1>1, <2>1, Fields DEF Hands, AllTaken
      <4>2. seq[c] \in Nat /\ seq'[c] = seq[c] + 2 BY <1>1, <1>2, <2>1, <2>3 DEF ClientTypes
      <4>3. idleList[i].conn = c => idleList[i].seq # seq'[c] BY <4>1, <4>2 DEF Taken
      <4>4. QED BY <4>1, <4>3 DEF Held
    <3>2. ~InChecking(c)' BY <2>2, <2>3 DEF InChecking
    <3>3. QED BY <3>1, <3>2 DEF OnlyHeld
  <2>4. CASE c # d
    <3>1. c \in clients /\ seq'[c] = seq[c] BY <1>2, <2>1, <2>4
    <3>2. InChecking(c)' => InChecking(c) BY <2>2 DEF InChecking
    <3>3. InListOf(c)' => InListOf(c) BY <2>1 DEF InListOf
    <3>4. QED BY <1>3, <2>1, <3>1, <3>2, <3>3
  <2>5. QED BY <2>3, <2>4
<1>5. CASE Insert
  <2>1. PICK p \in 1..Len(queue) + 1 : queue' \in Seq(Entries) /\ With(queue', queue, p, MainEntry)
    BY <1>5, InsertStep
  <2>2. /\ MainEntry \in Entries /\ MainEntry.conn = at[Main] /\ at[Main] \in Conns
        /\ pc[Main] = "insert"
    BY <1>5, MainEntryTyped DEF Insert
  <2>3. UNCHANGED <<clients, seq, at, idleList>> /\ pc'[Timer] = pc[Timer]
    BY <1>1, <1>5, Moves DEF Insert, connVars, monVars, Places
  <2>4. InChecking(c)' <=> InChecking(c) BY <2>3 DEF InChecking
  <2>5. CASE c = at[Main]
    <3>1. Entering(c) /\ at[Timer] # c BY <2>2, <2>5 DEF Alone, Entering
    <3>2. ASSUME NEW i \in 1..Len(idleList') PROVE ~Held(i, c)'
      <4>1. Taken(idleList[i]) /\ idleList[i].seq \in Nat /\ idleList'[i] = idleList[i]
        BY <1>1, <2>3, Fields DEF Hands, AllTaken
      <4>2. seq[c] \in Nat /\ seq'[c] = seq[c] BY <1>1, <1>2, <2>3 DEF ClientTypes
      <4>3. idleList[i].conn = c => idleList[i].seq # seq'[c] BY <3>1, <4>1, <4>2 DEF Taken
      <4>4. QED BY <4>1, <4>3 DEF Held
    <3>3. ~InChecking(c)' BY <2>4, <3>1 DEF InChecking
    <3>4. QED BY <3>2, <3>3 DEF OnlyHeld
  <2>6. CASE c # at[Main]
    <3>1. \A j \in 1..Len(queue') : queue'[j] = MainEntry
            \/ \E i \in 1..Len(queue) : queue'[j] = queue[i]
      BY <1>1, <2>1, <2>2, Added
    <3>2. InListOf(c)' => InListOf(c) BY <2>2, <2>6, <3>1 DEF InListOf
    <3>3. QED BY <1>3, <2>3, <2>4, <3>2
  <2>7. QED BY <2>5, <2>6
<1>6. ASSUME NEW t \in Threads, Erase(t) PROVE OnlyHeld(c)'
  <2>1. PICK p \in 1..Len(queue) : queue' \in Seq(Entries) /\ Without(queue', queue, p)
    BY <1>6, EraseStep
  <2>2. InListOf(c)' => InListOf(c) BY <1>1, <2>1, LeftOver DEF InListOf
  <2>3. QED BY <1>3, <1>6, <2>2 DEF Erase, connVars, monVars, thrVars, InChecking
<1>7. CASE OverTime
  <2>1. UNCHANGED <<clients, seq, at, pc>> /\ idleList' = Append(idleList, Head(queue))
    BY <1>7 DEF OverTime, connVars, thrVars
  <2>2. /\ queue' = Tail(queue) /\ Tail(queue) \in Seq(Entries)
        /\ Without(Tail(queue), queue, 1) /\ 1 \in 1..Len(queue) /\ Head(queue) = queue[1]
        /\ Head(queue) \in Entries
    BY <1>7, OverTimeStep, HeadTyped DEF OverTime
  <2>3. \A j \in 1..Len(queue') : \E i \in 1..Len(queue) : i # 1 /\ queue'[j] = queue[i]
    <3>1. queue # <<>> BY <1>7 DEF OverTime, FirstIsDue
    <3>2. \A j \in 1..Len(Tail(queue)) : \E i \in 1..Len(queue) : i # 1 /\ Tail(queue)[j] = queue[i]
      BY <1>1, <3>1, TailKeeps
    <3>3. QED BY <2>2, <3>2
  <2>4. OnlyHeld(c) BY <2>1 DEF Hands
  <2>5. /\ Len(idleList') = Len(idleList) + 1 /\ Len(idleList) \in Nat
        /\ idleList'[Len(idleList) + 1] = queue[1]
        /\ \A i \in 1..Len(idleList) : idleList'[i] = idleList[i]
    BY <1>1, <2>1, <2>2
  <2>6. \A i \in 1..Len(idleList) : Held(i, c)' <=> Held(i, c) BY <2>1, <2>5 DEF Held
  <2>7. InListOf(c)' => InListOf(c) BY <2>3 DEF InListOf
  <2>8. InChecking(c)' <=> InChecking(c) BY <2>1 DEF InChecking
  <2>9. CASE queue[1].conn = c
    <3>1. InListOf(c) BY <2>2, <2>9 DEF InListOf
    <3>2. ~InChecking(c) /\ \A i \in 1..Len(idleList) : ~Held(i, c)
      BY <2>4, <3>1 DEF OnlyHeld
    <3>3. ~InListOf(c)' BY <2>2, <2>3, <2>9 DEF InListOf, Entered, OneEntry
    <3>4. \A i \in 1..Len(idleList') : Held(i, c)' => i = Len(idleList) + 1
      BY <2>5, <2>6, <3>2
    <3>5. QED BY <2>8, <3>2, <3>3, <3>4 DEF OnlyHeld
  <2>10. CASE queue[1].conn # c
    <3>1. \A i \in 1..Len(idleList') : Held(i, c)' => i \in 1..Len(idleList) /\ Held(i, c)
      <4>1. idleList'[Len(idleList) + 1].conn # c BY <2>5, <2>10
      <4>2. ASSUME NEW i \in 1..Len(idleList'), Held(i, c)' PROVE i # Len(idleList) + 1
        BY <4>1, <4>2 DEF Held
      <4>3. \A i \in 1..Len(idleList') : i # Len(idleList) + 1 => i \in 1..Len(idleList)
        BY <2>5
      <4>4. QED BY <2>6, <4>2, <4>3
    <3>2. QED BY <2>4, <2>7, <2>8, <3>1 DEF OnlyHeld
  <2>11. QED BY <2>9, <2>10
<1>8. CASE Compare
  <2>1. UNCHANGED <<clients, seq, queue>> /\ idleList' = Tail(idleList) /\ pc[Timer] = "next"
    BY <1>8 DEF Compare, connVars, queueVars
  <2>2. /\ Head(idleList) = idleList[1] /\ 1 \in 1..Len(idleList)
        /\ Head(idleList).conn \in Conns /\ Tail(idleList) \in Seq(Entries)
        /\ Len(idleList') = Len(idleList) - 1
        /\ \A i \in 1..Len(idleList') : idleList'[i] = idleList[i + 1] /\ i + 1 \in 1..Len(idleList)
    <3>1. /\ Head(idleList) = idleList[1] /\ 1 \in 1..Len(idleList)
          /\ Head(idleList).conn \in Conns /\ Tail(idleList) \in Seq(Entries)
          /\ Without(Tail(idleList), idleList, 1)
      BY <1>8, Listed
    <3>2. Len(idleList') = Len(idleList) - 1 /\ Len(idleList) \in Nat
      BY <1>1, <2>1, <3>1 DEF Without
    <3>3. \A i \in 1..Len(idleList) - 1 : idleList'[i] = idleList[i + 1]
      BY <2>1, <3>1 DEF Without
    <3>4. QED BY <3>1, <3>2, <3>3
  <2>3. OnlyHeld(c) BY <2>1 DEF Hands
  <2>4. \A i \in 1..Len(idleList') : Held(i, c)' <=> Held(i + 1, c) BY <2>1, <2>2 DEF Held
  <2>5. InListOf(c)' <=> InListOf(c) BY <2>1 DEF InListOf
  <2>6. \A i, j \in 1..Len(idleList') : Held(i, c)' /\ Held(j, c)' => i = j
    <3>1. ASSUME NEW i \in 1..Len(idleList'), NEW j \in 1..Len(idleList'),
                 Held(i, c)', Held(j, c)'
          PROVE  i = j
      <4>1. i + 1 \in 1..Len(idleList) /\ j + 1 \in 1..Len(idleList) BY <2>2
      <4>2. i + 1 = j + 1 BY <2>3, <2>4, <3>1, <4>1 DEF OnlyHeld
      <4>3. QED BY <4>2
    <3>2. QED BY <3>1
  <2>7. \A i \in 1..Len(idleList') : Held(i, c)' => ~InListOf(c)'
    BY <2>2, <2>3, <2>4, <2>5 DEF OnlyHeld
  <2>8. CASE UNCHANGED <<thrVars, tmpmsg>>
    <3>1. ~InChecking(c)' BY <2>1, <2>8 DEF thrVars, InChecking
    <3>2. QED BY <2>6, <2>7, <3>1 DEF OnlyHeld
  <2>9. CASE Begin(Timer, "check", Head(idleList).conn) /\ Current(Head(idleList))
    <3>1. pc'[Timer] = "check" /\ at'[Timer] = idleList[1].conn
      BY <1>1, <2>2, <2>9, Begins DEF Places
    <3>2. CASE idleList[1].conn = c
      <4>1. Held(1, c) BY <2>2, <2>9, <3>2 DEF Held, Current
      <4>2. ~InListOf(c)' BY <2>2, <2>3, <2>5, <4>1 DEF OnlyHeld
      <4>3. ASSUME NEW i \in 1..Len(idleList') PROVE ~Held(i, c)'
        <5>1. i + 1 \in 1..Len(idleList) /\ i + 1 # 1 BY <2>2
        <5>2. ~Held(i + 1, c) BY <2>2, <2>3, <4>1, <5>1 DEF OnlyHeld
        <5>3. QED BY <2>4, <5>2
      <4>4. QED BY <4>2, <4>3 DEF OnlyHeld
    <3>3. CASE idleList[1].conn # c
      <4>1. ~InChecking(c)' BY <3>1, <3>3 DEF InChecking
      <4>2. QED BY <2>6, <2>7, <4>1 DEF OnlyHeld
    <3>4. QED BY <3>2, <3>3
  <2>10. QED BY <1>8, <2>8, <2>9 DEF Compare
<1>9. CASE CheckPing
  <2>1. UNCHANGED <<clients, seq, queue, idleList>> /\ pc[Timer] = "check"
    BY <1>9 DEF CheckPing, connVars, queueVars
  <2>2. CASE Goto(Timer, "delete") /\ UNCHANGED <<at, since, tmpmsg>>
    <3>1. InChecking(c)' => InChecking(c) BY <2>1, <2>2 DEF InChecking
    <3>2. QED BY <1>3, <2>1, <3>1 DEF InListOf
  <2>3. CASE Leave(Timer)
    <3>1. at'[Timer] = Nobody BY <1>1, <2>3, Leaves
    <3>2. ~InChecking(c)' BY <1>2, <3>1 DEF InChecking
    <3>3. QED BY <1>3, <2>1, <3>2 DEF InListOf
  <2>4. QED BY <1>9, <2>2, <2>3 DEF CheckPing
<1>10. ASSUME NEW t \in Threads, Retire(t) PROVE OnlyHeld(c)'
  <2>1. /\ clients' = clients \ {at[t]} /\ UNCHANGED <<queue, idleList>>
        /\ \A d \in Conns : d # at[t] => seq'[d] = seq[d]
    BY <1>1, <1>10 DEF Retire, ClientTypes, queueVars
  <2>2. \A u \in Threads :
          /\ pc'[u] = IF u # t THEN pc[u] ELSE IF t = Timer THEN "next" ELSE "idle"
          /\ at'[u] = IF u = t THEN Nobody ELSE at[u]
    BY <1>1, <1>10, Leaves DEF Retire
  <2>3. c \in clients /\ c # at[t] /\ seq'[c] = seq[c] BY <1>2, <2>1
  <2>4. InChecking(c)' => InChecking(c) BY <1>2, <2>2 DEF InChecking
  <2>5. QED BY <1>3, <2>1, <2>3, <2>4 DEF InListOf
<1>11. ASSUME NEW d \in Conns, ClientGone(d) \/ CutOff(d) \/ HandlePing(d)
       PROVE  OnlyHeld(c)'
  <2>1. (pc' = pc /\ at' = at) \/ \E t \in {Main, Worker} : Begin(t, "delete", d)
    BY <1>11 DEF ClientGone, CutOff, HandlePing, thrVars
  <2>2. pc'[Timer] = pc[Timer] /\ at'[Timer] = at[Timer]
    BY <1>1, <2>1, Begins DEF Places
  <2>3. UNCHANGED <<clients, seq, queue, idleList>>
    BY <1>11 DEF ClientGone, CutOff, HandlePing, connVars, monVars, queueVars
  <2>4. QED BY <1>3, <2>2, <2>3 DEF InListOf, InChecking
<1>12. ASSUME NEW t \in Threads, Delete(t) \/ PublishDeleted(t) PROVE OnlyHeld(c)'
  <2>1. \E p \in {"erase", "retire"} : Goto(t, p) BY <1>12 DEF Delete, PublishDeleted
  <2>2. pc'[Timer] \in {"check", "delete"} => pc'[Timer] = pc[Timer]
    BY <1>1, <2>1, Moves DEF Places
  <2>3. UNCHANGED <<clients, seq, queue, idleList, at>>
    BY <1>12 DEF Delete, PublishDeleted, connVars, monVars
  <2>4. QED BY <1>3, <2>2, <2>3 DEF InListOf, InChecking
<1>13. CASE PublishInserted
  <2>1. pc'[Timer] = pc[Timer] /\ at'[Timer] = at[Timer]
    BY <1>1, <1>13, Leaves DEF PublishInserted
  <2>2. QED
    BY <1>3, <1>13, <2>1 DEF PublishInserted, connVars, monVars, InListOf, InChecking
<1>14. CASE LockQueue \/ UnlockQueue \/ Poll \/ ReadClock \/ EndPass \/ Tick
  <2>1. \/ pc' = pc
        \/ \E p \in {"over", "next", "clock", "scan", "asleep"} : Goto(Timer, p)
    BY <1>14 DEF LockQueue, UnlockQueue, Poll, ReadClock, EndPass, Tick, thrVars
  <2>2. pc'[Timer] \in {"check", "delete"} => pc'[Timer] = pc[Timer]
    BY <1>1, <2>1, Moves DEF Places
  <2>3. UNCHANGED <<clients, seq, queue, idleList, at>>
    BY <1>14 DEF LockQueue, UnlockQueue, Poll, ReadClock, EndPass, Tick, connVars, monVars,
       thrVars, queueVars
  <2>4. QED BY <1>3, <2>2, <2>3 DEF InListOf, InChecking
<1>15. QED
  BY <1>4, <1>5, <1>6, <1>7, <1>8, <1>9, <1>10, <1>11, <1>12, <1>13, <1>14 DEF Next

(* A step keeps that every client is watched.                              *)
LEMMA StepWatch ==
  ASSUME Types, Stations, Gate, Entered, Hands, Watch, Next
  PROVE  Watch'
<1> USE Kinds DEF TimerAt
<1>1. /\ ThreadTypes /\ ClockTypes /\ ClientTypes /\ queue \in Seq(Entries)
      /\ idleList \in Seq(Entries) /\ kickNow' = kickNow /\ kickNow \in BOOLEAN
  BY StepFlagTypes DEF Types, QueueTypes, FlagTypes
<1> SUFFICES ASSUME NEW c \in clients' PROVE Watched(c)'
  BY DEF Watch
<1>2. clients' \subseteq Conns /\ c \in Conns
  BY StepClientTypes DEF ClientTypes
<1>3. /\ InListOf(c) <=> InQueue(c) # {}
      /\ InListOf(c)' <=> InQueue(c)' # {}
  BY DEF InListOf, InQueue
<1> DEFINE Stays(u) == at'[u] = at[u] /\ pc'[u] = pc[u]
           HeldIn == \E i \in 1..Len(idleList) : Held(i, c)
<1>4. ASSUME Closing(c), InListOf(c)' => InListOf(c),
             \A u \in Threads : at[u] = c /\ pc[u] \in {"erase", "retire"} => Stays(u)
      PROVE  Closing(c)'
  <2>1. PICK u \in Threads :
          at[u] = c /\ (pc[u] = "retire" \/ (pc[u] = "erase" /\ InQueue(c) = {}))
    BY <1>4 DEF Closing
  <2>2. at'[u] = c /\ (pc'[u] = "retire" \/ (pc'[u] = "erase" /\ InQueue(c)' = {}))
    BY <1>3, <1>4, <2>1
  <2>3. QED BY <2>2 DEF Closing
<1>5. ASSUME c \in clients, InListOf(c)' <=> InListOf(c),
             \A u \in Threads :
               at[u] = c /\ pc[u] \in {"insert", "erase", "retire"} => Stays(u),
             kickNow /\ InChecking(c) => InChecking(c)', kickNow /\ HeldIn => HeldIn'
      PROVE  Watched(c)'
  <2>1. Watched(c) BY <1>5 DEF Watch
  <2>2. Entering(c) => Entering(c)' BY <1>5 DEF Entering
  <2>3. Closing(c) => Closing(c)' BY <1>4, <1>5
  <2>4. kickNow /\ (InChecking(c) \/ HeldIn) => kickNow' /\ (InChecking(c)' \/ HeldIn')
    BY <1>1, <1>5
  <2>5. QED BY <1>5, <2>1, <2>2, <2>3, <2>4 DEF Watched
<1>6. seq'[c] = seq[c] /\ idleList' = idleList => (HeldIn' <=> HeldIn)
  BY DEF Held
<1>7. ASSUME NEW d \in Conns, Accept(d) PROVE Watched(c)'
  <2>1. /\ clients' = clients \cup {d} /\ queue' = queue /\ idleList' = idleList
        /\ \A b \in Conns : b # d => seq'[b] = seq[b]
    BY <1>1, <1>7 DEF Accept, monVars, queueVars, ClientTypes
  <2>2. /\ at'[Main] = d /\ pc'[Main] = "insert" /\ pc[Main] = "idle"
        /\ \A u \in Threads : u # Main => Stays(u)
    BY <1>1, <1>7, Begins DEF Accept, Places
  <2>3. CASE c = d BY <2>2, <2>3 DEF Watched, Entering
  <2>4. CASE c # d
    <3>1. c \in clients /\ seq'[c] = seq[c] BY <1>2, <2>1, <2>4
    <3>2. InListOf(c)' <=> InListOf(c) BY <2>1 DEF InListOf
    <3>3. InChecking(c) => InChecking(c)' BY <2>2 DEF InChecking
    <3>4. HeldIn => HeldIn' BY <1>6, <2>1, <3>1
    <3> HIDE DEF HeldIn
    <3>5. QED BY <1>5, <2>2, <3>1, <3>2, <3>3, <3>4
  <2>5. QED BY <2>3, <2>4
<1>8. CASE Insert
  <2>1. PICK p \in 1..Len(queue) + 1 : queue' \in Seq(Entries) /\ With(queue', queue, p, MainEntry)
    BY <1>8, InsertStep
  <2>2. /\ MainEntry \in Entries /\ MainEntry.conn = at[Main] /\ pc[Main] = "insert"
    BY <1>8, MainEntryTyped DEF Insert
  <2>3. UNCHANGED <<clients, seq, at, idleList>> /\ \A u \in Threads :
          pc'[u] = IF u = Main THEN "inserted" ELSE pc[u]
    BY <1>1, <1>8, Moves DEF Insert, connVars, monVars, Places
  <2>4. /\ \A j \in 1..Len(queue') : queue'[j] = MainEntry
             \/ \E i \in 1..Len(queue) : queue'[j] = queue[i]
        /\ \E j \in 1..Len(queue') : queue'[j] = MainEntry
        /\ \A i \in 1..Len(queue) : \E j \in 1..Len(queue') : queue'[j] = queue[i]
    BY <1>1, <2>1, <2>2, Added
  <2>5. CASE c = at[Main]
    <3>1. InListOf(c)' BY <2>2, <2>4, <2>5 DEF InListOf
    <3>2. QED BY <3>1 DEF Watched
  <2>6. CASE c # at[Main]
    <3>1. InListOf(c)' <=> InListOf(c) BY <2>2, <2>4, <2>6 DEF InListOf
    <3>2. HeldIn => HeldIn' BY <1>6, <2>3
    <3>3. InChecking(c) => InChecking(c)' BY <2>3 DEF InChecking
    <3> HIDE DEF HeldIn
    <3>4. QED BY <1>5, <2>2, <2>3, <2>6, <3>1, <3>2, <3>3
  <2>7. QED BY <2>5, <2>6
<1>9. ASSUME NEW t \in Threads, Delete(t) PROVE Watched(c)'
  <2>1. UNCHANGED <<clients, seq, queue, at, idleList>> /\ pc[t] = "delete"
    BY <1>9 DEF Delete, connVars, monVars
  <2>2. \A u \in Threads : pc'[u] = IF u = t THEN "erase" ELSE pc[u]
    BY <1>1, <1>9, Moves DEF Delete, Places
  <2>3. CASE t = Timer /\ at[t] = c /\ kickNow
    <3>1. InChecking(c) BY <2>1, <2>3 DEF InChecking
    <3>2. ~InListOf(c) BY <2>1, <2>3, <3>1 DEF Hands, OnlyHeld
    <3>3. InQueue(c)' = {} BY <1>3, <2>1, <3>2 DEF InQueue, InListOf
    <3>4. Closing(c)' BY <2>1, <2>2, <2>3, <3>3 DEF Closing
    <3>5. QED BY <3>4 DEF Watched
  <2>4. CASE ~(t = Timer /\ at[t] = c /\ kickNow)
    <3>1. InListOf(c)' <=> InListOf(c) BY <2>1 DEF InListOf
    <3>2. HeldIn => HeldIn' BY <1>6, <2>1
    <3>3. kickNow /\ InChecking(c) => InChecking(c)' BY <2>1, <2>2, <2>4 DEF InChecking
    <3> HIDE DEF HeldIn
    <3>4. QED BY <1>5, <2>1, <2>2, <3>1, <3>2, <3>3
  <2>5. QED BY <2>3, <2>4
<1>10. ASSUME NEW t \in Threads, Erase(t) PROVE Watched(c)'
  <2>1. PICK p \in 1..Len(queue) : /\ queue' \in Seq(Entries) /\ Without(queue', queue, p)
                                   /\ queue[p].conn = at[t]
    BY <1>10, EraseStep
  <2>2. UNCHANGED <<clients, seq, at, pc, idleList>> /\ pc[t] = "erase"
    BY <1>10 DEF Erase, connVars, monVars, thrVars
  <2>3. /\ \A j \in 1..Len(queue') : \E i \in 1..Len(queue) : i # p /\ queue'[j] = queue[i]
    <3>1. Len(queue') \in Nat /\ Len(queue) \in Nat /\ Len(queue') = Len(queue) - 1
      BY <1>1, <2>1 DEF Without
    <3>2. ASSUME NEW j \in 1..Len(queue')
          PROVE  \E i \in 1..Len(queue) : i # p /\ queue'[j] = queue[i]
      <4>1. queue'[j] = IF j < p THEN queue[j] ELSE queue[j + 1] BY <2>1, <3>1 DEF Without
      <4>2. CASE j < p BY <3>1, <4>1, <4>2
      <4>3. CASE ~(j < p)
        <5>1. j + 1 \in 1..Len(queue) /\ j + 1 # p BY <3>1, <4>3
        <5>2. QED BY <4>1, <4>3, <5>1
      <4>4. QED BY <4>2, <4>3
    <3>3. QED BY <3>2
  <2>4. \A i \in 1..Len(queue) : i # p => \E j \in 1..Len(queue') : queue'[j] = queue[i]
    BY <1>1, <2>1, LeftOver
  <2>5. CASE c = at[t]
    <3>1. \A j \in 1..Len(queue') : queue'[j].conn # c
      BY <2>1, <2>3, <2>5 DEF Entered, OneEntry
    <3>2. InQueue(c)' = {} BY <3>1 DEF InQueue
    <3>3. Closing(c)' BY <2>2, <2>5, <3>2 DEF Closing
    <3>4. QED BY <3>3 DEF Watched
  <2>6. CASE c # at[t]
    <3>1. InListOf(c)' <=> InListOf(c) BY ZenonT(40), <2>1, <2>3, <2>4, <2>6 DEF InListOf
    <3>2. HeldIn => HeldIn' BY <1>6, <2>2
    <3>3. InChecking(c) => InChecking(c)' BY <2>2 DEF InChecking
    <3> HIDE DEF HeldIn
    <3>4. QED BY <1>5, <2>2, <3>1, <3>2, <3>3
  <2>7. QED BY <2>5, <2>6
<1>11. ASSUME NEW t \in Threads, PublishDeleted(t) PROVE Watched(c)'
  <2>1. UNCHANGED <<clients, seq, queue, at, idleList>> /\ pc[t] = "erase"
    BY <1>11 DEF PublishDeleted, connVars, monVars
  <2>2. \A u \in Threads : pc'[u] = IF u = t THEN "retire" ELSE pc[u]
    BY <1>1, <1>11, Moves DEF PublishDeleted, Places
  <2>3. CASE c = at[t] BY <2>1, <2>2, <2>3 DEF Watched, Closing
  <2>4. CASE c # at[t]
    <3>1. InListOf(c)' <=> InListOf(c) BY <2>1 DEF InListOf
    <3>2. HeldIn => HeldIn' BY <1>6, <2>1
    <3>3. InChecking(c) => InChecking(c)' BY <2>1, <2>2 DEF InChecking
    <3> HIDE DEF HeldIn
    <3>4. QED BY <1>5, <2>1, <2>2, <2>4, <3>1, <3>2, <3>3
  <2>5. QED BY <2>3, <2>4
<1>12. ASSUME NEW t \in Threads, Retire(t) PROVE Watched(c)'
  <2>1. /\ clients' = clients \ {at[t]} /\ UNCHANGED <<queue, idleList>> /\ pc[t] = "retire"
        /\ \A d \in Conns : d # at[t] => seq'[d] = seq[d]
    BY <1>1, <1>12 DEF Retire, ClientTypes, queueVars
  <2>2. \A u \in Threads : u # t => Stays(u)
    BY <1>1, <1>12, Leaves DEF Retire
  <2>3. c \in clients /\ c # at[t] /\ seq'[c] = seq[c] BY <1>2, <2>1
  <2>4. InListOf(c)' <=> InListOf(c) BY <2>1 DEF InListOf
  <2>5. HeldIn => HeldIn' BY <1>6, <2>1, <2>3
  <2>6. InChecking(c) => InChecking(c)' BY <2>2, <2>3 DEF InChecking
  <2> HIDE DEF HeldIn
  <2>7. QED BY <1>5, <2>2, <2>3, <2>4, <2>5, <2>6
<1>13. CASE OverTime
  <2>1. /\ UNCHANGED <<clients, seq, at, pc>> /\ idleList' = Append(idleList, queue[1])
        /\ queue' \in Seq(Entries) /\ Tail(queue) \in Seq(Entries)
        /\ Without(Tail(queue), queue, 1) /\ 1 \in 1..Len(queue)
    BY <1>13, OverTimeStep, HeadTyped DEF OverTime, connVars, thrVars
  <2>2. /\ \A j \in 1..Len(Tail(queue)) : \E i \in 1..Len(queue) : Tail(queue)[j] = queue[i]
        /\ \A i \in 1..Len(queue) : i # 1 => \E j \in 1..Len(Tail(queue)) : Tail(queue)[j] = queue[i]
    <3>1. queue # <<>> BY <1>13 DEF OverTime, FirstIsDue
    <3>2. \A j \in 1..Len(Tail(queue)) : \E i \in 1..Len(queue) : i # 1 /\ Tail(queue)[j] = queue[i]
      BY <1>1, <3>1, TailKeeps
    <3>3. \A i \in 1..Len(queue) : i # 1 => \E j \in 1..Len(Tail(queue)) : Tail(queue)[j] = queue[i]
      BY <1>1, <3>1, TailKeeps
    <3>4. QED BY <3>2, <3>3
  <2>3. /\ Len(idleList') = Len(idleList) + 1 /\ Len(idleList) \in Nat
        /\ idleList'[Len(idleList) + 1] = queue[1]
        /\ \A i \in 1..Len(idleList) : idleList'[i] = idleList[i] /\ i \in 1..Len(idleList')
    BY <1>1, <2>1, Fields
  <2>4. HeldIn => HeldIn' BY <2>1, <2>3 DEF Held
  <2>5. InChecking(c) => InChecking(c)' BY <2>1 DEF InChecking
  <2>6. CASE kickNow
    <3>1. queue' = Tail(queue) BY <1>13, <2>6, OverTimeStep
    <3>2. CASE queue[1].conn = c
      <4>1. queue[1].seq = seq[c] BY <2>1, <3>2 DEF Entered, Owned
      <4>2. Len(idleList) + 1 \in 1..Len(idleList') BY <2>3
      <4>3. \E i \in 1..Len(idleList') : idleList'[i].conn = c /\ idleList'[i].seq = seq'[c]
        BY <2>1, <2>3, <3>2, <4>1, <4>2
      <4>4. HeldIn' BY <4>3 DEF Held
      <4>5. QED BY <1>1, <2>6, <4>4 DEF Watched
    <3>3. CASE queue[1].conn # c
      <4>1. InListOf(c)' <=> InListOf(c) BY ZenonT(40), <2>2, <3>1, <3>3 DEF InListOf
      <4> HIDE DEF HeldIn
      <4>2. QED BY <1>5, <2>1, <2>4, <2>5, <4>1
    <3>4. QED BY <3>2, <3>3
  <2>7. CASE ~kickNow
    <3> DEFINE e == Requeued(Head(queue))
               r == Tail(queue)
    <3> HIDE DEF e, r, HeldIn
    <3>1. PICK p \in 1..Len(r) + 1 : With(queue', r, p, e)
      BY <1>13, <2>7, OverTimeStep DEF e, r
    <3>2. e \in Entries /\ e.conn = queue[1].conn /\ r \in Seq(Entries)
      BY <1>13, <2>1, HeadTyped DEF OverTime, e, r
    <3>3. /\ \A j \in 1..Len(queue') : queue'[j] = e \/ \E i \in 1..Len(r) : queue'[j] = r[i]
          /\ \E j \in 1..Len(queue') : queue'[j] = e
          /\ \A i \in 1..Len(r) : \E j \in 1..Len(queue') : queue'[j] = r[i]
      BY <2>1, <3>1, <3>2, Added
    <3>4. InListOf(c) => InListOf(c)'
      <4>1. ASSUME NEW i \in 1..Len(queue), queue[i].conn = c
            PROVE  \E j \in 1..Len(queue') : queue'[j].conn = c
        <5>1. CASE i = 1 BY <3>2, <3>3, <4>1, <5>1
        <5>2. CASE i # 1
          <6>1. PICK k \in 1..Len(r) : r[k] = queue[i] BY <2>2, <5>2 DEF r
          <6>2. QED BY <3>3, <4>1, <6>1
        <5>3. QED BY <5>1, <5>2
      <4>2. QED BY <4>1 DEF InListOf
    <3>5. InListOf(c)' => InListOf(c)
      <4>1. ASSUME NEW j \in 1..Len(queue'), queue'[j].conn = c
            PROVE  \E i \in 1..Len(queue) : queue[i].conn = c
        <5>1. CASE queue'[j] = e BY <2>1, <3>2, <4>1, <5>1
        <5>2. CASE \E i \in 1..Len(r) : queue'[j] = r[i] BY <2>2, <4>1, <5>2 DEF r
        <5>3. QED BY <3>3, <5>1, <5>2
      <4>2. QED BY <4>1 DEF InListOf
    <3>6. QED BY <1>5, <2>1, <2>4, <2>5, <3>4, <3>5
  <2>8. QED BY <2>6, <2>7
<1>14. CASE Compare
  <2>1. UNCHANGED <<clients, seq, queue>> /\ idleList' = Tail(idleList) /\ pc[Timer] = "next"
    BY <1>14 DEF Compare, connVars, queueVars
  <2>2. /\ Head(idleList) = idleList[1] /\ 1 \in 1..Len(idleList)
        /\ Head(idleList).conn \in Conns /\ Tail(idleList) \in Seq(Entries)
        /\ Without(Tail(idleList), idleList, 1)
    BY <1>14, Listed
  <2>3. \A i \in 1..Len(idleList) : i # 1 => \E j \in 1..Len(idleList') : idleList'[j] = idleList[i]
    <3>1. idleList # <<>> BY <1>14 DEF Compare
    <3>2. \A i \in 1..Len(idleList) :
            i # 1 => \E j \in 1..Len(Tail(idleList)) : Tail(idleList)[j] = idleList[i]
      BY <1>1, <3>1, TailKeeps
    <3>3. QED BY <2>1, <3>2
  <2>4. ASSUME NEW i \in 1..Len(idleList), i # 1, Held(i, c) PROVE HeldIn'
    BY ZenonT(40), <2>1, <2>3, <2>4 DEF Held
  <2>5. InListOf(c)' <=> InListOf(c) BY <2>1 DEF InListOf
  <2>6. ~InChecking(c) BY <2>1 DEF InChecking
  <2>7. CASE Held(1, c)
    <3>1. Current(Head(idleList)) /\ Head(idleList).conn = c
      BY <2>2, <2>7 DEF Held, Current
    <3>2. Begin(Timer, "check", c) BY <1>14, <3>1 DEF Compare
    <3>3. /\ at'[Timer] = c /\ pc'[Timer] = "check"
          /\ \A u \in Threads : u # Timer => Stays(u)
      BY <1>1, <1>2, <3>2, Begins DEF Places
    <3>4. InChecking(c)' BY <3>3 DEF InChecking
    <3>5. CASE kickNow BY <1>1, <3>4, <3>5 DEF Watched
    <3>6. CASE ~kickNow
      <4> HIDE DEF HeldIn
      <4>1. QED BY <1>5, <2>1, <2>5, <3>3, <3>6
    <3>7. QED BY <3>5, <3>6
  <2>8. CASE ~Held(1, c)
    <3>1. HeldIn => HeldIn' BY <2>4, <2>8
    <3>2. (pc' = pc /\ at' = at) \/ Begin(Timer, "check", Head(idleList).conn)
      BY <1>14 DEF Compare, thrVars
    <3>3. \A u \in Threads : u # Timer => Stays(u)
      BY <1>1, <2>2, <3>2, Begins DEF Places
    <3> HIDE DEF HeldIn
    <3>4. QED BY <1>5, <2>1, <2>5, <2>6, <3>1, <3>3
  <2>9. QED BY <2>7, <2>8
<1>15. CASE CheckPing
  <2>1. UNCHANGED <<clients, seq, queue, idleList>> /\ pc[Timer] = "check"
    BY <1>15 DEF CheckPing, connVars, queueVars
  <2>2. \/ Goto(Timer, "delete") /\ at' = at
        \/ ~kickNow /\ Leave(Timer)
    BY <1>15 DEF CheckPing
  <2>3. \A u \in Threads : u # Timer => Stays(u)
    BY <1>1, <2>2, Moves, Leaves DEF Places
  <2>4. kickNow /\ InChecking(c) => InChecking(c)'
    BY <1>1, <2>2, Moves DEF InChecking, Places
  <2>5. InListOf(c)' <=> InListOf(c) BY <2>1 DEF InListOf
  <2>6. HeldIn => HeldIn' BY <1>6, <2>1
  <2> HIDE DEF HeldIn
  <2>7. QED BY <1>5, <2>1, <2>3, <2>4, <2>5, <2>6
<1>16. ASSUME NEW d \in Conns, ClientGone(d) \/ CutOff(d) \/ HandlePing(d)
       PROVE  Watched(c)'
  <2>1. /\ UNCHANGED <<clients, seq, queue, idleList>>
    BY <1>16 DEF ClientGone, CutOff, HandlePing, connVars, monVars, queueVars
  <2>2. \/ pc' = pc /\ at' = at
        \/ \E t \in {Main, Worker} : pc[t] = "idle" /\ Begin(t, "delete", d)
    BY <1>16 DEF ClientGone, CutOff, HandlePing, thrVars
  <2>3. \A u \in Threads : pc[u] # "idle" => Stays(u)
    BY <1>1, <2>2, Begins DEF Places
  <2>4. InListOf(c)' <=> InListOf(c) BY <2>1 DEF InListOf
  <2>5. HeldIn => HeldIn' BY <1>6, <2>1
  <2>6. InChecking(c) => InChecking(c)' BY <2>3 DEF InChecking
  <2> HIDE DEF HeldIn
  <2>7. QED BY <1>5, <2>1, <2>3, <2>4, <2>5, <2>6
<1>17. CASE PublishInserted
  <2>1. UNCHANGED <<clients, seq, queue, idleList>> /\ pc[Main] = "inserted"
    BY <1>17 DEF PublishInserted, connVars, monVars
  <2>2. \A u \in Threads : u # Main => Stays(u)
    BY <1>1, <1>17, Leaves DEF PublishInserted
  <2>3. InListOf(c)' <=> InListOf(c) BY <2>1 DEF InListOf
  <2>4. HeldIn => HeldIn' BY <1>6, <2>1
  <2>5. InChecking(c) => InChecking(c)' BY <2>2 DEF InChecking
  <2> HIDE DEF HeldIn
  <2>6. QED BY <1>5, <2>1, <2>2, <2>3, <2>4, <2>5
<1>18. CASE LockQueue \/ UnlockQueue \/ Poll \/ ReadClock \/ EndPass \/ Tick
  <2>1. \/ pc' = pc
        \/ pc[Timer] \in {"scan", "over", "asleep", "clock", "next"}
             /\ \E p \in {"over", "next", "clock", "scan", "asleep"} : Goto(Timer, p)
    BY <1>18 DEF LockQueue, UnlockQueue, Poll, ReadClock, EndPass, Tick, thrVars
  <2>2. UNCHANGED <<clients, seq, queue, idleList, at>>
    BY <1>18 DEF LockQueue, UnlockQueue, Poll, ReadClock, EndPass, Tick, connVars, monVars,
       thrVars, queueVars
  <2>3. \A u \in Threads :
          pc[u] \in {"insert", "erase", "retire", "check", "delete"} => Stays(u)
    BY <1>1, <2>1, <2>2, Moves DEF Places
  <2>4. InListOf(c)' <=> InListOf(c) BY <2>2 DEF InListOf
  <2>5. HeldIn => HeldIn' BY <1>6, <2>2
  <2>6. InChecking(c) => InChecking(c)' BY <2>3 DEF InChecking
  <2> HIDE DEF HeldIn
  <2>7. QED BY <1>5, <2>2, <2>3, <2>4, <2>5, <2>6
<1>19. QED
  BY <1>7, <1>8, <1>9, <1>10, <1>11, <1>12, <1>13, <1>14, <1>15, <1>16, <1>17, <1>18 DEF Next

-----------------------------------------------------------------------------
(* The program starts so.                                                  *)
LEMMA InitInv == Init => TimerInv
<1> SUFFICES ASSUME Init PROVE TimerInv OBVIOUS
<1> USE Kinds
<1>1. /\ queue = <<>> /\ idleList = <<>> /\ clients = {} /\ size = 0 /\ mutex = Nobody
      /\ \A t \in Threads : at[t] = Nobody
                            /\ pc[t] = IF t = Timer THEN "asleep" ELSE "idle"
  BY DEF Init
<1>2. Types
  <2>1. QueueTypes BY DEF Init, QueueTypes
  <2>2. ClientTypes /\ ClockTypes BY DEF Init, ClientTypes, ClockTypes
  <2>3. ThreadTypes BY DEF Init, ThreadTypes, Places
  <2>4. FlagTypes BY DEF Init, FlagTypes
  <2>5. QED BY <2>1, <2>2, <2>3, <2>4 DEF Types
<1>3. Stations
  BY <1>1 DEF Stations, MainPlaces, TimerPlaces, WorkerPlaces, FreePlaces
<1>4. Gate BY <1>1 DEF Gate, Sorted
<1>5. Silence
  BY <1>1 DEF Silence, Init
<1>6. Alone BY <1>1 DEF Alone
<1>7. Entered BY <1>1 DEF Entered, OneEntry
<1>8. Hands BY <1>1 DEF Hands, AllTaken
<1>9. Watch BY <1>1 DEF Watch
<1>10. QED BY <1>2, <1>3, <1>4, <1>5, <1>6, <1>7, <1>8, <1>9 DEF TimerInv

(* A step that changes nothing keeps the invariant.                        *)
LEMMA StutterInv ==
  ASSUME TimerInv, UNCHANGED vars
  PROVE  TimerInv'
<1> USE DEF TimerInv, vars, queueVars, connVars, thrVars, monVars, histVars
<1>1. Types'
  BY DEF Types, QueueTypes, ClientTypes, ClockTypes, ThreadTypes, FlagTypes
<1>2. Stations' /\ Gate' BY DEF Stations, Gate
<1>3. Silence' /\ Alone' BY DEF Silence, Alone, Limit
<1>4. Entered' BY DEF Entered, Owned, Entering, Leaving
<1>5. Hands'
  BY DEF Hands, AllTaken, Taken, Entering, OnlyHeld, Held, InChecking, InListOf
<1>6. Watch'
  BY DEF Watch, Watched, InListOf, Entering, Closing, InQueue, InChecking, Held
<1>7. QED BY <1>1, <1>2, <1>3, <1>4, <1>5, <1>6

(* The inductive invariant holds throughout.                               *)
THEOREM TimerInvariant == Spec => []TimerInv
<1>1. Init => TimerInv BY InitInv
<1>2. TimerInv /\ [Next]_vars => TimerInv'
  <2>1. ASSUME TimerInv, Next PROVE TimerInv'
    <3>1. Types' BY <2>1, StepTypes DEF TimerInv, Silence
    <3>2. Stations' BY <2>1, StepStations DEF TimerInv
    <3>3. Gate' BY <2>1, <3>2, StepGate DEF TimerInv
    <3>4. Silence' BY <2>1, StepSilence DEF TimerInv
    <3>5. Alone' BY <2>1, StepAlone DEF TimerInv
    <3>6. Entered' BY <2>1, StepEntered DEF TimerInv
    <3>7. AllTaken' BY <2>1, StepTaken DEF TimerInv, Hands
    <3>8. (kickNow => \A c \in clients : OnlyHeld(c))' BY <2>1, StepOnlyHeld DEF TimerInv
    <3>9. Hands' BY <3>7, <3>8 DEF Hands
    <3>10. Watch' BY <2>1, StepWatch DEF TimerInv
    <3>11. QED BY <3>1, <3>2, <3>3, <3>4, <3>5, <3>6, <3>9, <3>10 DEF TimerInv
  <2>2. QED BY <2>1, StutterInv
<1>3. QED BY <1>1, <1>2, PTL DEF Spec

(* The types, and the monitor keeps an entry exactly while it is at work   *)
(* on the connection of that entry.                                        *)
THEOREM TimerTypes == Spec => []TypeOK
<1>1. TimerInv => TypeOK
  BY DEF TimerInv, Types, QueueTypes, ClientTypes, ClockTypes, ThreadTypes, FlagTypes,
         Silence, TypeOK
<1>2. QED BY <1>1, TimerInvariant, PTL

(* Whatever threads add, put back and delete entries: every client has     *)
(* exactly one in the queue or, if the monitor is to cut off all whose     *)
(* time is up, in its hands; and none outlives its client.                 *)
THEOREM EachHasOneEntry == Spec => []EveryClientWatched
<1>1. ASSUME TimerInv, NEW c \in Conns
      PROVE  IF c \in clients /\ ~Closing(c) /\ ~Entering(c)
             THEN Cardinality(InQueue(c))
                    + (IF kickNow THEN Cardinality(InHand(c)) ELSE 0) = 1
             ELSE InQueue(c) = {}
  <2>1. InListOf(c) <=> InQueue(c) # {} BY DEF InListOf, InQueue
  <2>2. CASE ~(c \in clients /\ ~Closing(c) /\ ~Entering(c))
    <3>1. ASSUME NEW i \in InQueue(c) PROVE FALSE
      <4>1. i \in 1..Len(queue) /\ queue[i].conn = c BY DEF InQueue
      <4>2. c \in clients /\ ~Entering(c) /\ ~Leaving(c)
        BY <1>1, <4>1 DEF TimerInv, Entered, Owned
      <4>3. ~Closing(c) BY <3>1, <4>2 DEF Closing, Leaving
      <4>4. QED BY <2>2, <4>2, <4>3
    <3>2. QED BY <2>2, <3>1
  <2>3. CASE c \in clients /\ ~Closing(c) /\ ~Entering(c)
    <3>1. kickNow => OnlyHeld(c) BY <1>1, <2>3 DEF TimerInv, Hands
    <3>2. \A i \in 1..Len(idleList) :
            idleList[i] = Entry(idleList[i].key, c, seq[c]) <=> Held(i, c)
      <4>1. idleList \in Seq(Entries) BY <1>1 DEF TimerInv, Types, QueueTypes
      <4>2. \A e \in Entries : \A n : e = Entry(e.key, c, n) <=> (e.conn = c /\ e.seq = n)
        BY DEF Entries, Entry
      <4>3. \A i \in 1..Len(idleList) : idleList[i] \in Entries BY <4>1
      <4>4. QED BY <4>2, <4>3 DEF Held
    <3>3. InHand(c) = {i \in 1..Len(idleList) : Held(i, c)}
                        \cup {t \in {Timer} : InChecking(c)}
      BY <3>2 DEF InHand, InChecking
    <3>4. CASE InListOf(c)
      <4>1. PICK i \in 1..Len(queue) : queue[i].conn = c BY <3>4 DEF InListOf
      <4>2. InQueue(c) = {i} BY <1>1, <4>1 DEF InQueue, TimerInv, Entered, OneEntry
      <4>3. kickNow => InHand(c) = {} BY <3>1, <3>3, <3>4 DEF OnlyHeld
      <4>4. Cardinality(InQueue(c)) = 1 BY <4>2, FS_Singleton
      <4>5. kickNow => Cardinality(InHand(c)) = 0 BY <4>3, FS_EmptySet
      <4>6. QED BY <2>3, <4>4, <4>5
    <3>5. CASE ~InListOf(c)
      <4>1. kickNow /\ (InChecking(c) \/ \E i \in 1..Len(idleList) : Held(i, c))
        BY <1>1, <2>3, <3>5 DEF TimerInv, Watch, Watched
      <4>2. \E x : InHand(c) = {x}
        <5>1. CASE InChecking(c)
          <6>1. InHand(c) = {Timer} BY <3>1, <3>3, <4>1, <5>1 DEF OnlyHeld
          <6>2. QED BY <6>1
        <5>2. CASE ~InChecking(c)
          <6>1. PICK i \in 1..Len(idleList) : Held(i, c) BY <4>1, <5>2
          <6>2. InHand(c) = {i} BY <3>1, <3>3, <4>1, <5>2, <6>1 DEF OnlyHeld
          <6>3. QED BY <6>2
        <5>3. QED BY <5>1, <5>2
      <4>3. Cardinality(InHand(c)) = 1 BY <4>2, FS_Singleton
      <4>4. Cardinality(InQueue(c)) = 0 BY <2>1, <3>5, FS_EmptySet
      <4>5. QED BY <2>3, <4>1, <4>3, <4>4
    <3>6. QED BY <3>4, <3>5
  <2>4. QED BY <2>2, <2>3
<1>2. TimerInv => EveryClientWatched BY <1>1 DEF EveryClientWatched
<1>3. QED BY <1>2, TimerInvariant, PTL

(* What the monitor reads without the lock is exact whenever nobody has    *)
(* the lock, and the queue is in order.                                    *)
THEOREM GateIsExact == Spec => []GateExact
<1>1. TimerInv => GateExact BY DEF TimerInv, Gate, Sorted, GateExact
<1>2. QED BY <1>1, TimerInvariant, PTL

(* The heartbeat check cuts off only the client it has checked, and unless *)
(* it is to cut off all, only one that was silent for longer than Limit.   *)
THEOREM OnlyTheSilentGo == Spec => []PingersStay
<1>1. TimerInv => PingersStay BY DEF TimerInv, Silence, PingersStay
<1>2. QED BY <1>1, TimerInvariant, PTL

-----------------------------------------------------------------------------
(* The clocks.  A handler is not held up for long; the client that is      *)
(* being entered has not been heard of before its accept; the clock of the *)
(* monitor, while it has one, is that of this second or, when it has not   *)
(* slept in this one yet, of the last; between passes its list is empty.   *)
Lag == IF woken THEN 0 ELSE 1
Prompts == \A t \in Threads : at[t] # Nobody => now - since[t] <= MaxBusy
PingsPast == \A c \in Conns : ping[c] <= now
Entrant == pc[Main] \in {"insert", "inserted"} =>
  futtime = since[Main] + WaitTime /\ ping[at[Main]] >= since[Main]
ClockFresh == pc[Timer] \notin {"asleep", "clock"} => now - curTime <= Lag
ListEmpty == pc[Timer] \in {"asleep", "clock", "scan"} => idleList = <<>>
Clocks == Prompts /\ PingsPast /\ Entrant /\ ClockFresh /\ ListEmpty

(* What the monitor reads without the lock is not later than the key of    *)
(* any entry, but for one: that which Main has just put there.             *)
Fresh(e) == pc[Main] = "inserted" /\ e.key = futtime /\ e.conn = at[Main]
ValueEarly == \A i \in 1..Len(queue) : value <= queue[i].key \/ Fresh(queue[i])

(* The monitor has found, or will find when it reads the clock, that an    *)
(* entry is due.  No entry is due for long before it has.                  *)
Looking == pc[Timer] \in {"scan", "over"} \/ (pc[Timer] = "clock" /\ absTime < now)
Late == Lag + (IF Looking THEN 1 ELSE 0)
Ages == \A i \in 1..Len(queue) : now - queue[i].key <= MaxBusy + Late

(* How long a client may have been silent that nobody is closing; and it   *)
(* has an entry that comes due in time, or the monitor has it in hand.     *)
Patience == Limit + WaitTime
InList(c) == \E i \in 1..Len(idleList) : Held(i, c)
Pending(c) == InList(c) \/ at[Timer] = c
InTime(c) ==
  now - ping[c] <= Patience + Lag + (IF Pending(c) \/ Looking THEN 1 ELSE 0)
EntryBy(c, k) == \E i \in 1..Len(queue) : queue[i].conn = c /\ queue[i].key <= k
ClosesAt(t, c) == at[t] = c /\ pc[t] \in Closes
HasEntry(c) ==
  \/ Entering(c) \/ ClosesAt(Timer, c)
  \/ Pending(c) /\ EntryBy(c, curTime + WaitTime)
  \/ ~Pending(c) /\ EntryBy(c, ping[c] + Patience)

(* Who closes a connection otherwise began in time.                        *)
ClosedBy(t, c) == ClosesAt(t, c) /\ since[t] - ping[c] <= Patience + 2
Closed(c) == \E t \in {Main, Worker} : ClosesAt(t, c)
ClosedInTime(c) == \E t \in {Main, Worker} : ClosedBy(t, c)
Kept(c) == IF Closed(c) THEN ClosedInTime(c) ELSE InTime(c) /\ HasEntry(c)
KeptAll == ~kickNow => \A c \in clients : Kept(c)

-----------------------------------------------------------------------------
(* The times are numbers.                                                  *)
LEMMA TimesTyped ==
  /\ WaitTime \in Nat /\ WaitTime > 0 /\ MaxBusy \in Nat /\ Limit \in Nat
  /\ Patience \in Nat /\ WaitTime <= Patience /\ Patience = Limit + WaitTime
  /\ Lag \in 0..1 /\ Late \in Nat /\ Lag <= Late
BY TimesAssumption DEF TimesAssumption, Limit, Patience, Lag, Late

(* What a step does to the threads: but for one they stay as they are.     *)
Same(t) == pc'[t] = pc[t] /\ at'[t] = at[t] /\ since'[t] = since[t]
Others(t) == \A u \in Threads : u # t => Same(u)

(* A thread goes to another place, and the others stay where they are.     *)
LEMMA Going ==
  ASSUME ThreadTypes, NEW t \in Threads, NEW p, Goto(t, p), UNCHANGED <<at, since>>
  PROVE  Others(t) /\ pc'[t] = p /\ at'[t] = at[t] /\ since'[t] = since[t]
BY DEF ThreadTypes, Goto, Others, Same

(* A thread begins with a connection, and the others stay as they are.     *)
LEMMA Beginning ==
  ASSUME ThreadTypes, NEW t \in Threads, NEW p, NEW c, Begin(t, p, c)
  PROVE  Others(t) /\ pc'[t] = p /\ at'[t] = c /\ since'[t] = now
BY DEF ThreadTypes, Begin, Goto, Others, Same

(* A thread is done with its connection, and the others stay as they are.  *)
LEMMA Ending ==
  ASSUME ThreadTypes, NEW t \in Threads, Leave(t)
  PROVE  /\ Others(t) /\ at'[t] = Nobody
         /\ pc'[t] = IF t = Timer THEN "next" ELSE "idle"
BY DEF ThreadTypes, Leave, Goto, Others, Same

(* What each thread leaves alone in a step.                                *)
MonitorStep ==
  \/ Poll \/ ReadClock \/ LockQueue \/ OverTime \/ UnlockQueue \/ EndPass
  \/ Compare \/ CheckPing
(* A step of the monitor changes nothing of the clients and of the other   *)
(* threads.                                                                *)
LEMMA MonitorAlone ==
  ASSUME Types, MonitorStep
  PROVE  /\ UNCHANGED <<clients, seq, ping, now, futtime, kickNow>> /\ Others(Timer)
         /\ woken' = IF Poll THEN TRUE ELSE woken
<1>1. ThreadTypes /\ Timer \in Threads BY Kinds DEF Types
<1>2. UNCHANGED <<clients, seq, ping, now, futtime, kickNow>>
  BY DEF MonitorStep, Poll, ReadClock, LockQueue, OverTime, UnlockQueue, EndPass,
     Compare, CheckPing, connVars
<1>3. woken' = IF Poll THEN TRUE ELSE woken
  BY DEF MonitorStep, Poll, ReadClock, LockQueue, OverTime, UnlockQueue, EndPass,
     Compare, CheckPing, monVars
<1>4. \/ UNCHANGED <<pc, at, since>>
      \/ \E p \in Places : Goto(Timer, p) /\ UNCHANGED <<at, since>>
      \/ \E p \in Places, c \in Conns : Begin(Timer, p, c)
      \/ Leave(Timer)
  <2>1. CASE Poll \/ ReadClock \/ LockQueue \/ OverTime \/ UnlockQueue \/ EndPass
    BY <2>1 DEF Poll, ReadClock, LockQueue, OverTime, UnlockQueue, EndPass, thrVars, Places
  <2>2. CASE Compare
    <3>1. Head(idleList).conn \in Conns BY <2>2, Listed
    <3>2. QED BY <2>2, <3>1 DEF Compare, thrVars, Places
  <2>3. CASE CheckPing BY <2>3 DEF CheckPing, Places
  <2>4. QED BY <2>1, <2>2, <2>3 DEF MonitorStep
<1>5. UNCHANGED <<pc, at, since>> => Others(Timer) BY DEF Others, Same
<1>6. QED BY <1>1, <1>2, <1>3, <1>4, <1>5, Going, Beginning, Ending

(* The steps of a thread that closes a connection.                         *)
CloseStep(t) == Delete(t) \/ Erase(t) \/ PublishDeleted(t) \/ Retire(t)
(* Only Retire changes the clients, and the thread's connection.           *)
LEMMA CloseAlone ==
  ASSUME Types, NEW t \in Threads, CloseStep(t)
  PROVE  /\ UNCHANGED <<ping, now, futtime, kickNow, woken, absTime, curTime, idleList>>
         /\ Others(t) /\ pc[t] \in Closes
         /\ ~Retire(t) => /\ UNCHANGED <<clients, seq, at, since>>
                          /\ pc'[t] \in Closes
<1>1. ThreadTypes BY DEF Types
<1>2. UNCHANGED <<ping, now, futtime, kickNow, woken, absTime, curTime, idleList>>
  BY DEF CloseStep, Delete, Erase, PublishDeleted, Retire, connVars, monVars
<1>3. CASE Retire(t) BY <1>1, <1>2, <1>3, Ending DEF Retire, Closes
<1>4. CASE ~Retire(t)
  <2>1. UNCHANGED <<clients, seq, at, since>> /\ pc[t] \in Closes
    BY <1>4 DEF CloseStep, Delete, Erase, PublishDeleted, connVars, thrVars, Closes
  <2>2. pc' = pc \/ \E p \in Closes : Goto(t, p)
    BY <1>4 DEF CloseStep, Delete, Erase, PublishDeleted, thrVars, Closes
  <2>3. CASE pc' = pc BY <1>2, <1>4, <2>1, <2>3 DEF Others, Same
  <2>4. CASE \E p \in Closes : Goto(t, p) BY <1>1, <1>2, <1>4, <2>1, <2>4, Going
  <2>5. QED BY <2>2, <2>3, <2>4
<1>5. QED BY <1>3, <1>4

(* The other steps, those of Main and of the thread of a handler.          *)
LEMMA ServeAlone ==
  ASSUME Types, NEW c \in Conns, Accept(c) \/ ClientGone(c) \/ CutOff(c) \/ HandlePing(c)
  PROVE  /\ UNCHANGED <<queue, value, now, kickNow, woken, absTime, curTime, idleList>>
         /\ Same(Timer)
         /\ ~Accept(c) => UNCHANGED <<clients, seq, futtime>>
         /\ ~Accept(c) /\ ~HandlePing(c) => ping' = ping
<1>1. ThreadTypes BY DEF Types
<1>2. /\ UNCHANGED <<queue, value, now, kickNow, woken, absTime, curTime, idleList>>
      /\ ~Accept(c) => UNCHANGED <<clients, seq, futtime>>
      /\ ~Accept(c) /\ ~HandlePing(c) => ping' = ping
  BY DEF Accept, ClientGone, CutOff, HandlePing, queueVars, connVars, monVars
<1>3. \/ UNCHANGED thrVars
      \/ \E t \in {Main, Worker}, p \in {"insert", "delete"} : Begin(t, p, c)
  BY DEF Accept, ClientGone, CutOff, HandlePing
<1>4. Same(Timer)
  <2>1. UNCHANGED thrVars => Same(Timer) BY DEF Same, thrVars
  <2>2. QED BY <1>1, <1>3, <2>1, Kinds, Beginning DEF Others
<1>5. QED BY <1>2, <1>4

(* Main's steps to enter a client change nothing of the other threads.     *)
LEMMA EnterAlone ==
  ASSUME Types, Insert \/ PublishInserted
  PROVE  /\ UNCHANGED <<clients, seq, ping, now, kickNow, woken, absTime, curTime, idleList>>
         /\ Others(Main)
         /\ Insert => UNCHANGED <<at, since, futtime>> /\ pc'[Main] = "inserted"
         /\ PublishInserted => pc'[Main] = "idle" /\ at'[Main] = Nobody
<1>1. ThreadTypes BY DEF Types
<1>2. UNCHANGED <<clients, seq, ping, now, kickNow, woken, absTime, curTime, idleList>>
  BY DEF Insert, PublishInserted, connVars, monVars
<1>3. CASE Insert
  BY <1>1, <1>2, <1>3, Kinds, Going DEF Insert, PublishInserted
<1>4. CASE PublishInserted
  <2>1. pc[Main] = "inserted" /\ ~Insert BY <1>4 DEF PublishInserted, Insert
  <2>2. QED BY <1>1, <1>2, <1>4, <2>1, Kinds, Ending DEF PublishInserted
<1>5. QED BY <1>3, <1>4

(* Every step is one of these.                                             *)
LEMMA Steps ==
  ASSUME Next
  PROVE  \/ MonitorStep \/ Tick \/ Insert \/ PublishInserted
         \/ \E t \in Threads : CloseStep(t)
         \/ \E c \in Conns : Accept(c) \/ ClientGone(c) \/ CutOff(c) \/ HandlePing(c)
BY DEF Next, MonitorStep, CloseStep

-----------------------------------------------------------------------------
(* A step keeps that no handler takes longer than MaxBusy: the clock does  *)
(* not go on until it is done.                                             *)
LEMMA StepPrompts ==
  ASSUME Types, Stations, Prompts, Next
  PROVE  Prompts'
<1> USE Kinds, TimesTyped
<1>1. ThreadTypes /\ now \in Nat /\ \A t \in Threads : since[t] \in Nat
  BY DEF Types, ThreadTypes, ClockTypes
<1>2. ASSUME now' = now,
             \A t \in Threads : \/ at'[t] = at[t] /\ since'[t] = since[t]
                                \/ at'[t] = Nobody \/ since'[t] = now
      PROVE  Prompts'
  BY <1>1, <1>2 DEF Prompts
<1>3. CASE MonitorStep
  <2>1. now' = now /\ Others(Timer) BY <1>3, MonitorAlone
  <2>2. \/ at'[Timer] = at[Timer] /\ since'[Timer] = since[Timer]
        \/ at'[Timer] = Nobody \/ since'[Timer] = now
    <3>1. CASE Poll \/ ReadClock \/ LockQueue \/ OverTime \/ UnlockQueue \/ EndPass
      <4>1. at[Timer] = Nobody /\ at' = at
        BY <3>1 DEF Poll, ReadClock, LockQueue, OverTime, UnlockQueue, EndPass, thrVars,
           TimerAt, Stations, FreePlaces
      <4>2. QED BY <4>1
    <3>2. CASE Compare
      <4>1. UNCHANGED thrVars => UNCHANGED <<at, since>> BY DEF thrVars
      <4>2. QED BY <1>1, <3>2, <4>1, Beginning DEF Compare
    <3>3. CASE CheckPing
      <4>1. CASE Leave(Timer) BY <1>1, <4>1, Ending
      <4>2. CASE Goto(Timer, "delete") /\ UNCHANGED <<at, since>>
        BY <4>2
      <4>3. QED BY <3>3, <4>1, <4>2 DEF CheckPing
    <3>4. QED BY <1>3, <3>1, <3>2, <3>3 DEF MonitorStep
  <2>3. QED BY <1>2, <2>1, <2>2 DEF Others, Same
<1>4. CASE Tick
  <2>1. now' = now + 1 /\ Prompt /\ UNCHANGED <<at, since>> BY <1>4 DEF Tick, thrVars
  <2>2. QED BY <1>1, <2>1 DEF Prompts, Prompt
<1>5. CASE Insert
  <2>1. UNCHANGED <<now, at, since>> BY <1>5 DEF Insert
  <2>2. QED BY <1>1, <2>1 DEF Prompts
<1>6. CASE PublishInserted
  <2>1. now' = now /\ Others(Main) /\ at'[Main] = Nobody BY <1>6, EnterAlone
  <2>2. QED BY <1>2, <2>1 DEF Others, Same
<1>7. ASSUME NEW t \in Threads, CloseStep(t) PROVE Prompts'
  <2>1. now' = now /\ Others(t) BY <1>7, CloseAlone
  <2>2. CASE Retire(t)
    <3>1. at'[t] = Nobody BY <1>1, <2>2, Ending DEF Retire
    <3>2. QED BY <1>2, <2>1, <3>1 DEF Others, Same
  <2>3. CASE ~Retire(t)
    <3>1. UNCHANGED <<at, since>> BY <1>7, <2>3, CloseAlone
    <3>2. QED BY <1>1, <2>1, <3>1 DEF Prompts
  <2>4. QED BY <2>2, <2>3
<1>8. ASSUME NEW c \in Conns, Accept(c) \/ ClientGone(c) \/ CutOff(c) \/ HandlePing(c)
      PROVE  Prompts'
  <2>1. now' = now BY <1>8, ServeAlone
  <2>2. \/ UNCHANGED thrVars
        \/ \E t \in {Main, Worker}, p \in {"insert", "delete"} : Begin(t, p, c)
    BY <1>8 DEF Accept, ClientGone, CutOff, HandlePing
  <2>3. CASE UNCHANGED thrVars BY <1>1, <2>1, <2>3 DEF Prompts, thrVars
  <2>4. ASSUME NEW t \in {Main, Worker}, NEW p \in {"insert", "delete"}, Begin(t, p, c)
        PROVE  Prompts'
    <3>1. Others(t) /\ since'[t] = now BY <1>1, <2>4, Beginning
    <3>2. QED BY <1>2, <2>1, <3>1 DEF Others, Same
  <2>5. QED BY <2>2, <2>3, <2>4
<1>9. QED BY <1>3, <1>4, <1>5, <1>6, <1>7, <1>8, Steps

(* A step keeps that no ping is of a time to come, and takes back none.    *)
LEMMA StepPings ==
  ASSUME Types, PingsPast, Next
  PROVE  PingsPast' /\ \A c \in Conns : ping'[c] >= ping[c]
<1>1. /\ now \in Nat /\ ping \in [Conns -> Nat]
      /\ \A c \in Conns : ping[c] \in Nat /\ ping[c] <= now
  BY DEF Types, ClockTypes, ClientTypes, PingsPast
<1>2. CASE ping' = ping /\ now' \in {now, now + 1} BY <1>1, <1>2 DEF PingsPast
<1>3. ASSUME NEW c \in Conns, ping' = [ping EXCEPT ![c] = now], now' = now
      PROVE  PingsPast' /\ \A d \in Conns : ping'[d] >= ping[d]
  <2>1. \A d \in Conns : ping'[d] = IF d = c THEN now ELSE ping[d] BY <1>1, <1>3
  <2>2. QED BY <1>1, <1>3, <2>1 DEF PingsPast
<1>4. ASSUME NEW c \in Conns, Accept(c) \/ ClientGone(c) \/ CutOff(c) \/ HandlePing(c)
      PROVE  \/ ping' = ping /\ now' \in {now, now + 1}
             \/ ping' = [ping EXCEPT ![c] = now] /\ now' = now
  BY <1>4, ServeAlone DEF Accept, HandlePing
<1>5. Tick => ping' = ping /\ now' \in {now, now + 1} BY DEF Tick, connVars
<1>6. QED BY <1>2, <1>3, <1>4, <1>5, Steps, MonitorAlone, EnterAlone, CloseAlone

(* A step keeps what is known of the client that is being entered.         *)
LEMMA StepEntrant ==
  ASSUME Types, Stations, PingsPast, Entrant, Next
  PROVE  Entrant'
<1> USE Kinds, TimesTyped
<1>1. ThreadTypes /\ now \in Nat /\ ping \in [Conns -> Nat] /\ Main \in Threads
  BY DEF Types, ClockTypes, ClientTypes
<1>2. ASSUME Same(Main), futtime' = futtime, \A c \in Conns : ping'[c] >= ping[c]
      PROVE  Entrant'
  <2>1. pc[Main] \in {"insert", "inserted"} => at[Main] \in Conns
    BY <1>1, AtConn DEF FreePlaces
  <2>2. since[Main] \in Nat BY <1>1 DEF ThreadTypes
  <2>3. \A c \in Conns : ping[c] \in Nat /\ ping'[c] \in Nat
    BY <1>1, StepClientTypes DEF ClientTypes
  <2>4. QED BY <1>2, <2>1, <2>2, <2>3 DEF Entrant, Same
<1>3. ASSUME pc'[Main] \notin {"insert", "inserted"} PROVE Entrant'
  BY <1>3 DEF Entrant
<1>4. CASE MonitorStep
  BY <1>2, <1>4, MonitorAlone, StepPings DEF Others
<1>5. CASE Tick
  <2>1. Same(Main) /\ futtime' = futtime BY <1>5 DEF Tick, Same, thrVars
  <2>2. QED BY <1>2, <2>1, StepPings
<1>6. CASE Insert
  <2>1. UNCHANGED <<at, since, futtime, ping>> /\ pc[Main] = "insert"
    BY <1>6 DEF Insert, connVars
  <2>2. QED BY <2>1 DEF Entrant
<1>7. CASE PublishInserted BY <1>3, <1>7, EnterAlone
<1>8. ASSUME NEW t \in Threads, CloseStep(t) PROVE Entrant'
  <2>1. futtime' = futtime /\ Others(t) BY <1>8, CloseAlone
  <2>2. CASE t # Main BY <1>2, <2>1, <2>2, StepPings DEF Others
  <2>3. CASE t = Main
    <3>1. CASE Retire(t) BY <1>1, <1>3, <2>3, <3>1, Ending DEF Retire
    <3>2. CASE ~Retire(t)
      <4>1. pc'[Main] \in Closes BY <1>8, <2>3, <3>2, CloseAlone
      <4>2. QED BY <1>3, <4>1 DEF Closes
    <3>3. QED BY <3>1, <3>2
  <2>4. QED BY <2>2, <2>3
<1>9. ASSUME NEW c \in Conns, Accept(c) PROVE Entrant'
  <2>1. Begin(Main, "insert", c) /\ futtime' = now + WaitTime
        /\ ping' = [ping EXCEPT ![c] = now]
    BY <1>9 DEF Accept
  <2>2. since'[Main] = now /\ at'[Main] = c BY <1>1, <2>1, Beginning
  <2>3. ping'[c] = now BY <1>1, <2>1
  <2>4. QED BY <1>1, <2>1, <2>2, <2>3 DEF Entrant
<1>10. ASSUME NEW c \in Conns, ClientGone(c) PROVE Entrant'
  BY <1>1, <1>3, <1>10, Beginning DEF ClientGone
<1>11. ASSUME NEW c \in Conns, CutOff(c) \/ HandlePing(c) PROVE Entrant'
  <2>1. futtime' = futtime BY <1>11 DEF CutOff, HandlePing
  <2>2. UNCHANGED thrVars \/ Begin(Worker, "delete", c) BY <1>11 DEF CutOff, HandlePing
  <2>3. UNCHANGED thrVars => Same(Main) BY DEF thrVars, Same
  <2>4. Same(Main) BY <1>1, <2>2, <2>3, Beginning DEF Others
  <2>5. QED BY <1>2, <2>1, <2>4, StepPings
<1>12. QED
  BY <1>4, <1>5, <1>6, <1>7, <1>8, <1>9, <1>10, <1>11, Steps

(* A step keeps the monitor's clock fresh, and its list empty between two  *)
(* passes.                                                                 *)
LEMMA StepMonitorClock ==
  ASSUME Types, Stations, curTime <= now, ClockFresh, ListEmpty, Next
  PROVE  ClockFresh' /\ ListEmpty'
<1> USE Kinds, TimesTyped DEF TimerAt
<1>1. ThreadTypes /\ now \in Nat /\ curTime \in Nat /\ Timer \in Threads
  BY DEF Types, ClockTypes
<1>2. ASSUME pc'[Timer] = pc[Timer], UNCHANGED <<now, woken, curTime, idleList>>
      PROVE  ClockFresh' /\ ListEmpty'
  BY <1>2 DEF ClockFresh, ListEmpty, Lag
<1>3. CASE Poll
  <2>1. pc'[Timer] \in {"asleep", "clock"} /\ idleList' = idleList /\ pc[Timer] = "asleep"
    BY <1>1, <1>3, Moves DEF Poll, Places
  <2>2. QED BY <2>1 DEF ClockFresh, ListEmpty
<1>4. CASE ReadClock
  <2>1. pc[Timer] = "clock" /\ UNCHANGED <<now, idleList>>
        /\ (pc'[Timer] = "asleep" \/ (pc'[Timer] = "scan" /\ curTime' = now))
    BY <1>1, <1>4, Moves DEF ReadClock, Places
  <2>2. QED BY <1>1, <2>1 DEF ClockFresh, ListEmpty, Lag
<1>5. CASE LockQueue \/ OverTime \/ UnlockQueue
  <2>1. /\ pc[Timer] \in {"scan", "over"} /\ pc'[Timer] \in {"over", "next"}
        /\ UNCHANGED <<now, woken, curTime>>
    BY <1>1, <1>5, Moves DEF LockQueue, OverTime, UnlockQueue, monVars, thrVars, Places
  <2>2. QED BY <2>1 DEF ClockFresh, ListEmpty, Lag
<1>6. CASE EndPass
  <2>1. pc'[Timer] = "asleep" /\ idleList' = <<>>
    BY <1>1, <1>6, Moves DEF EndPass, Places
  <2>2. QED BY <2>1 DEF ClockFresh, ListEmpty
<1>7. CASE Compare \/ CheckPing
  <2>1. /\ pc[Timer] \in {"next", "check"} /\ pc'[Timer] \in {"next", "check", "delete"}
        /\ UNCHANGED <<now, woken, curTime>>
    BY <1>1, <1>7, Going, Beginning, Ending DEF Compare, CheckPing, thrVars
  <2>2. QED BY <2>1 DEF ClockFresh, ListEmpty, Lag
<1>8. CASE Tick
  <2>1. /\ pc'[Timer] = pc[Timer] /\ now' = now + 1 /\ UNCHANGED <<curTime, idleList>>
        /\ woken = TRUE /\ woken' = FALSE
    BY <1>8 DEF Tick, thrVars, Prompt, Types, FlagTypes
  <2>2. QED BY <1>1, <2>1 DEF ClockFresh, ListEmpty, Lag
<1>9. CASE Insert \/ PublishInserted BY <1>2, <1>9, EnterAlone DEF Others, Same
<1>10. ASSUME NEW c \in Conns, Accept(c) \/ ClientGone(c) \/ CutOff(c) \/ HandlePing(c)
       PROVE  ClockFresh' /\ ListEmpty'
  BY <1>2, <1>10, ServeAlone DEF Same
<1>11. ASSUME NEW t \in Threads, CloseStep(t) PROVE ClockFresh' /\ ListEmpty'
  <2>1. UNCHANGED <<now, woken, curTime, idleList>> /\ Others(t) /\ pc[t] \in Closes
    BY <1>11, CloseAlone
  <2>2. CASE t # Timer BY <1>2, <2>1, <2>2 DEF Others, Same
  <2>3. CASE t = Timer
    <3>1. CASE Retire(t)
      <4>1. pc'[Timer] = "next" BY <1>1, <2>3, <3>1, Ending DEF Retire
      <4>2. QED BY <2>1, <2>3, <4>1 DEF ClockFresh, ListEmpty, Lag, Closes
    <3>2. CASE ~Retire(t)
      <4>1. pc'[Timer] \in Closes BY <1>11, <2>3, <3>2, CloseAlone
      <4>2. QED BY <2>1, <2>3, <4>1 DEF ClockFresh, ListEmpty, Lag, Closes
    <3>3. QED BY <3>1, <3>2
  <2>4. QED BY <2>2, <2>3
<1>12. QED
  BY <1>3, <1>4, <1>5, <1>6, <1>7, <1>8, <1>9, <1>10, <1>11, Steps DEF MonitorStep

(* A step keeps the clocks.                                                *)
LEMMA StepClocks ==
  ASSUME Types, Stations, curTime <= now, Clocks, Next
  PROVE  Clocks'
BY StepPrompts, StepPings, StepEntrant, StepMonitorClock DEF Clocks

-----------------------------------------------------------------------------
(* The keys that are in the queue after a step were there before it.       *)
OnlyOld == \A j \in 1..Len(queue') : \E i \in 1..Len(queue) : queue'[j] = queue[i]

(* The first entry of a queue in order has the earliest key.               *)
LEMMA FirstEarliest ==
  ASSUME NEW q \in Seq(Entries), Sorted(q), NEW i \in 1..Len(q)
  PROVE  q # <<>> /\ q[1].key <= q[i].key
<1>1. 1 \in 1..Len(q) /\ q # <<>> OBVIOUS
<1>2. q[1].key \in Nat BY <1>1, Fields
<1>3. QED BY <1>1, <1>2 DEF Sorted

(* A thread that closes a connection puts nothing into the queue.          *)
LEMMA NothingNew ==
  ASSUME Types, NEW t \in Threads, CloseStep(t)
  PROVE  OnlyOld
<1>1. CASE Erase(t)
  <2>1. queue \in Seq(Entries) /\ queue' \in Seq(Entries)
    BY <1>1, EraseStep DEF Types, QueueTypes
  <2>2. PICK p \in 1..Len(queue) : Without(queue', queue, p) BY <1>1, EraseStep
  <2>3. QED BY <2>1, <2>2, LeftOver DEF OnlyOld
<1>2. CASE ~Erase(t)
  <2>1. queue' = queue
    BY <1>2 DEF CloseStep, Delete, PublishDeleted, Retire, queueVars
  <2>2. QED BY <2>1 DEF OnlyOld
<1>3. QED BY <1>1, <1>2

(* A step keeps the value early.                                           *)
LEMMA StepValue ==
  ASSUME Types, Stations, Gate, ValueEarly, Types', Stations', Gate', Next
  PROVE  ValueEarly'
<1> USE Kinds
<1>1. /\ ThreadTypes /\ Main \in Threads /\ Timer \in Threads
      /\ queue \in Seq(Entries) /\ queue' \in Seq(Entries)
      /\ value \in Nat /\ value' \in Nat
  BY DEF Types, QueueTypes
<1>2. CASE mutex' = Nobody \/ pc'[Timer] = "over"
  <2>1. Sorted(queue') /\ (queue' # <<>> => value' = queue'[1].key)
    BY <1>2 DEF Gate, Sorted
  <2>2. ASSUME NEW i \in 1..Len(queue') PROVE value' <= queue'[i].key
    <3>1. queue' # <<>> /\ queue'[1].key <= queue'[i].key BY <1>1, <2>1, FirstEarliest
    <3>2. QED BY <2>1, <3>1
  <2>3. QED BY <2>2 DEF ValueEarly
<1>3. ASSUME value' = value, OnlyOld,
             pc[Main] = "inserted" =>
               pc'[Main] = "inserted" /\ futtime' = futtime /\ at'[Main] = at[Main]
      PROVE  ValueEarly'
  <2>1. SUFFICES ASSUME NEW j \in 1..Len(queue')
                 PROVE  \/ value' <= queue'[j].key
                        \/ pc'[Main] = "inserted" /\ queue'[j].key = futtime'
                             /\ queue'[j].conn = at'[Main]
    BY DEF ValueEarly, Fresh
  <2>2. PICK i \in 1..Len(queue) : queue'[j] = queue[i] BY <1>3 DEF OnlyOld
  <2>3. value <= queue[i].key \/ Fresh(queue[i]) BY DEF ValueEarly
  <2>4. QED BY <1>3, <2>2, <2>3 DEF Fresh
<1>4. CASE Insert
  <2>1. /\ mutex = Nobody /\ pc[Main] = "insert" /\ value' = value
        /\ UNCHANGED <<at, futtime>>
    BY <1>4 DEF Insert
  <2>2. pc'[Main] = "inserted" BY <1>4, EnterAlone
  <2>3. PICK p \in 1..Len(queue) + 1 : With(queue', queue, p, MainEntry)
    BY <1>4, InsertStep
  <2>4. MainEntry \in Entries /\ MainEntry.key = futtime /\ MainEntry.conn = at[Main]
    BY <2>1, MainEntryTyped DEF MainEntry, Entry
  <2>5. ASSUME NEW j \in 1..Len(queue')
        PROVE  \/ value' <= queue'[j].key
               \/ pc'[Main] = "inserted" /\ queue'[j].key = futtime'
                    /\ queue'[j].conn = at'[Main]
    <3>1. queue'[j] = MainEntry \/ \E i \in 1..Len(queue) : queue'[j] = queue[i]
      <4>1. queue \in Seq(Entries) /\ queue' \in Seq(Entries) BY <1>1
      <4>2. QED BY <2>3, <2>4, <4>1, Added
    <3>2. CASE queue'[j] = MainEntry BY <2>1, <2>2, <2>4, <3>2
    <3>3. CASE \E i \in 1..Len(queue) : queue'[j] = queue[i]
      <4>1. PICK i \in 1..Len(queue) : queue'[j] = queue[i] BY <3>3
      <4>2. queue # <<>> /\ queue[1].key <= queue[i].key
        BY <1>1, FirstEarliest DEF Gate
      <4>3. value = queue[1].key BY <2>1, <4>2 DEF Gate
      <4>4. QED BY <2>1, <4>1, <4>2, <4>3
    <3>4. QED BY <3>1, <3>2, <3>3
  <2>6. QED BY <2>5 DEF ValueEarly, Fresh
<1>5. CASE MonitorStep
  <2>1. Same(Main) /\ futtime' = futtime BY <1>5, MonitorAlone DEF Others
  <2>2. CASE LockQueue \/ OverTime \/ UnlockQueue
    <3>1. pc'[Timer] = "over" \/ mutex' = Nobody
      BY <1>1, <2>2, Going DEF LockQueue, OverTime, UnlockQueue, thrVars, TimerAt
    <3>2. QED BY <1>2, <3>1
  <2>3. CASE Poll \/ ReadClock \/ EndPass \/ Compare \/ CheckPing
    <3>1. value' = value /\ queue' = queue
      BY <2>3 DEF Poll, ReadClock, EndPass, Compare, CheckPing, queueVars
    <3>2. QED BY <1>3, <2>1, <3>1 DEF Same, OnlyOld
  <2>4. QED BY <1>5, <2>2, <2>3 DEF MonitorStep
<1>6. CASE Tick BY <1>3, <1>6 DEF Tick, OnlyOld, queueVars, thrVars
<1>7. CASE PublishInserted BY <1>2, <1>7 DEF PublishInserted
<1>8. ASSUME NEW t \in Threads, CloseStep(t) PROVE ValueEarly'
  <2>1. Others(t) /\ futtime' = futtime /\ pc[t] \in Closes BY <1>8, CloseAlone
  <2>2. pc[Main] = "inserted" =>
          pc'[Main] = "inserted" /\ futtime' = futtime /\ at'[Main] = at[Main]
    BY <1>1, <2>1 DEF Others, Same, Closes
  <2>3. CASE PublishDeleted(t) BY <1>2, <2>3 DEF PublishDeleted
  <2>4. CASE Delete(t) \/ Erase(t) \/ Retire(t)
    <3>1. value' = value BY <2>4 DEF Delete, Erase, Retire, queueVars
    <3>2. OnlyOld BY <1>8, NothingNew
    <3>3. QED BY <1>3, <2>2, <3>1, <3>2
  <2>5. QED BY <1>8, <2>3, <2>4 DEF CloseStep
<1>9. ASSUME NEW c \in Conns, Accept(c) \/ ClientGone(c) \/ CutOff(c) \/ HandlePing(c)
      PROVE  ValueEarly'
  <2>1. UNCHANGED <<queue, value>> BY <1>9, ServeAlone
  <2>2. CASE Accept(c) \/ ClientGone(c)
    <3>1. pc[Main] = "idle" BY <2>2 DEF Accept, ClientGone
    <3>2. QED BY <1>3, <2>1, <3>1 DEF OnlyOld
  <2>3. CASE CutOff(c) \/ HandlePing(c)
    <3>1. Same(Main)
      BY <1>1, <2>3, Beginning DEF CutOff, HandlePing, thrVars, Others, Same
    <3>2. futtime' = futtime BY <2>3 DEF CutOff, HandlePing
    <3>3. QED BY <1>3, <2>1, <3>1, <3>2 DEF OnlyOld, Same
  <2>4. QED BY <1>9, <2>2, <2>3
<1>10. QED BY <1>4, <1>5, <1>6, <1>7, <1>8, <1>9, Steps

(* A key that is not a round of waiting late is not too late.              *)
LEMMA SoonEnough ==
  ASSUME NEW n \in Nat, NEW k \in Nat, NEW l \in Nat, n - k <= MaxBusy - WaitTime
  PROVE  n - k <= MaxBusy + l
BY TimesAssumption DEF TimesAssumption

(* A step keeps the entries' ages.                                         *)
LEMMA StepAges ==
  ASSUME Types, Stations, Gate, curTime <= now, Clocks, ValueEarly, Ages, Types', Gate', Next
  PROVE  Ages'
<1> USE Kinds, TimesTyped
<1>1. /\ ThreadTypes /\ Main \in Threads /\ Timer \in Threads
      /\ queue \in Seq(Entries) /\ queue' \in Seq(Entries)
      /\ now \in Nat /\ curTime \in Nat /\ absTime \in Nat /\ futtime \in Nat /\ value \in Nat
      /\ woken \in BOOLEAN
      /\ \A t \in Threads : since[t] \in Nat
      /\ \A i \in 1..Len(queue) : queue[i].key \in Nat
      /\ \A i \in 1..Len(queue') : queue'[i].key \in Nat
  BY Fields DEF Types, QueueTypes, ClockTypes, ThreadTypes, FlagTypes
<1>2. Late' \in Nat BY <1>1 DEF Late, Lag
<1>3. ASSUME now' = now, OnlyOld, Late' >= Late PROVE Ages'
  <2>1. SUFFICES ASSUME NEW j \in 1..Len(queue')
                 PROVE  now' - queue'[j].key <= MaxBusy + Late'
    BY DEF Ages
  <2>2. PICK i \in 1..Len(queue) : queue'[j] = queue[i] BY <1>3 DEF OnlyOld
  <2>3. now - queue[i].key <= MaxBusy + Late BY DEF Ages
  <2>4. QED BY SMTT(30), <1>1, <1>2, <1>3, <2>2, <2>3
<1>4. pc[Main] \in {"insert", "inserted"} => now - futtime <= MaxBusy - WaitTime
  <2>1. SUFFICES ASSUME pc[Main] \in {"insert", "inserted"}
                 PROVE  now - futtime <= MaxBusy - WaitTime
    OBVIOUS
  <2>2. at[Main] # Nobody BY <1>1, <2>1 DEF Stations, FreePlaces
  <2>3. now - since[Main] <= MaxBusy /\ futtime = since[Main] + WaitTime
    BY <1>1, <2>1, <2>2 DEF Clocks, Prompts, Entrant
  <2>4. /\ now \in Nat /\ since[Main] \in Nat /\ MaxBusy \in Nat /\ WaitTime \in Nat
    BY <1>1
  <2>5. QED BY <2>3, <2>4
<1>5. CASE Poll
  <2>1. /\ queue' = queue /\ now' = now /\ woken = FALSE /\ woken' = TRUE
        /\ pc[Timer] = "asleep"
    BY <1>1, <1>5 DEF Poll, queueVars, TimerAt
  <2>2. Late = 1 /\ Lag' = 0 BY <2>1 DEF Late, Lag, Looking
  <2>3. SUFFICES ASSUME NEW i \in 1..Len(queue) PROVE now - queue[i].key <= MaxBusy + Late'
    BY <2>1 DEF Ages
  <2>4. now - queue[i].key <= MaxBusy + 1 BY <2>2 DEF Ages
  <2>5. size > 0 BY <1>1, <2>3 DEF Gate
  <2>6. absTime' = value /\ pc'[Timer] = "clock" BY <1>1, <1>5, <2>5, Going DEF Poll
  <2>7. CASE value < now
    <3>1. Late' = 1 BY <2>1, <2>2, <2>6, <2>7 DEF Late, Looking
    <3>2. QED BY <2>4, <3>1
  <2>8. CASE ~(value < now)
    <3>0. value \in Nat /\ now \in Nat /\ queue[i].key \in Nat /\ futtime \in Nat BY <1>1
    <3>1. CASE value <= queue[i].key BY SMTT(30), <1>2, <2>8, <3>0, <3>1
    <3>2. CASE Fresh(queue[i])
      <4>1. queue[i].key = futtime /\ pc[Main] = "inserted" BY <3>2 DEF Fresh
      <4>2. now - futtime <= MaxBusy - WaitTime BY <1>4, <4>1
      <4>3. now - queue[i].key <= MaxBusy - WaitTime BY <4>1, <4>2
      <4>4. QED BY <1>2, <3>0, <4>3, SoonEnough
    <3>3. QED BY <3>1, <3>2 DEF ValueEarly
  <2>9. QED BY <2>7, <2>8
<1>6. CASE ReadClock
  <2>1. UNCHANGED <<queue, now, woken>> /\ pc[Timer] = "clock"
    BY <1>6 DEF ReadClock, queueVars, TimerAt
  <2>2. absTime < now => pc'[Timer] = "scan" BY <1>1, <1>6, Going DEF ReadClock
  <2>3. Lag' = Lag /\ (Looking => Looking') BY <2>1, <2>2 DEF Lag, Looking
  <2>4. Late' >= Late BY <1>1, <1>2, <2>3 DEF Late
  <2>5. QED BY <1>3, <2>1, <2>4 DEF OnlyOld
<1>7. CASE LockQueue
  <2>1. UNCHANGED <<queue, now, woken>> BY <1>7 DEF LockQueue, monVars
  <2>2. pc'[Timer] = "over" BY <1>1, <1>7, Going DEF LockQueue
  <2>3. Late' >= Late BY <2>1, <2>2 DEF Late, Lag, Looking
  <2>4. QED BY <1>3, <2>1, <2>3 DEF OnlyOld
<1>8. CASE OverTime
  <2>1. now' = now /\ UNCHANGED <<woken, pc>> /\ pc[Timer] = "over"
    BY <1>8 DEF OverTime, thrVars, TimerAt
  <2>2. Late' = Late /\ Lag \in 0..1 /\ Late \in Nat BY <2>1 DEF Late, Lag, Looking
  <2>3. now - curTime <= Lag BY <2>1 DEF Clocks, ClockFresh
  <2>4. /\ Tail(queue) \in Seq(Entries) /\ Without(Tail(queue), queue, 1)
        /\ 1 \in 1..Len(queue) /\ Requeued(Head(queue)) \in Entries
        /\ Requeued(Head(queue)).key = curTime + WaitTime
    BY <1>8, OverTimeStep, HeadTyped DEF OverTime, Requeued, Entry
  <2>5. ASSUME NEW j \in 1..Len(queue')
        PROVE  \/ \E i \in 1..Len(queue) : queue'[j] = queue[i]
               \/ queue'[j] = Requeued(Head(queue))
    <3>1. \A k \in 1..Len(Tail(queue)) : \E i \in 1..Len(queue) : Tail(queue)[k] = queue[i]
      BY <1>1, <2>4, LeftOver
    <3>2. CASE kickNow
      <4>1. queue' = Tail(queue) BY <1>8, <3>2, OverTimeStep
      <4>2. QED BY <3>1, <4>1
    <3>3. CASE ~kickNow
      <4>1. PICK p \in 1..Len(Tail(queue)) + 1 :
              With(queue', Tail(queue), p, Requeued(Head(queue)))
        BY <1>8, <3>3, OverTimeStep
      <4>2. \/ queue'[j] = Requeued(Head(queue))
            \/ \E k \in 1..Len(Tail(queue)) : queue'[j] = Tail(queue)[k]
        <5> DEFINE r == Tail(queue)
                   e == Requeued(Head(queue))
        <5>1. /\ r \in Seq(Entries) /\ e \in Entries /\ queue' \in Seq(Entries)
              /\ p \in 1..Len(r) + 1 /\ With(queue', r, p, e)
          BY <1>1, <2>4, <4>1
        <5> HIDE DEF r, e
        <5>2. queue'[j] = e \/ \E k \in 1..Len(r) : queue'[j] = r[k] BY <5>1, Added
        <5>3. QED BY <5>2 DEF r, e
      <4>3. QED BY <3>1, <4>2
    <3>4. QED BY <3>2, <3>3
  <2>6. ASSUME NEW j \in 1..Len(queue') PROVE now' - queue'[j].key <= MaxBusy + Late'
    <3>1. CASE queue'[j] = Requeued(Head(queue)) BY <1>1, <2>1, <2>2, <2>3, <2>4, <3>1
    <3>2. CASE \E i \in 1..Len(queue) : queue'[j] = queue[i]
      <4>1. PICK i \in 1..Len(queue) : queue'[j] = queue[i] BY <3>2
      <4>2. now - queue[i].key <= MaxBusy + Late BY DEF Ages
      <4>3. QED BY <2>1, <2>2, <4>1, <4>2
    <3>3. QED BY <2>5, <3>1, <3>2
  <2>7. QED BY <2>6 DEF Ages
<1>9. CASE UnlockQueue
  <2>1. /\ UNCHANGED <<queue, now, woken>> /\ pc[Timer] = "over" /\ ~FirstIsDue
    BY <1>9 DEF UnlockQueue, monVars, TimerAt
  <2>2. now - curTime <= Lag /\ Lag' = Lag /\ Lag \in 0..1 BY <2>1 DEF Clocks, ClockFresh, Lag
  <2>3. Late' >= Lag BY <1>1, <1>2, <2>2 DEF Late
  <2>4. ASSUME NEW i \in 1..Len(queue) PROVE now - queue[i].key <= MaxBusy + Late'
    <3>1. queue # <<>> /\ queue[1].key <= queue[i].key BY <1>1, FirstEarliest DEF Gate
    <3>2. queue[1].key > curTime /\ queue[1].key \in Nat
      BY <1>1, <2>1, <3>1 DEF FirstIsDue
    <3>3. /\ now \in Nat /\ curTime \in Nat /\ queue[i].key \in Nat /\ Lag \in Nat
          /\ Late' \in Nat /\ MaxBusy \in Nat
      BY SMTT(30), <1>1, <1>2, <2>2
    <3>4. QED BY SMTT(30), <2>2, <2>3, <3>1, <3>2, <3>3
  <2>5. QED BY <2>1, <2>4 DEF Ages
<1>10. CASE EndPass \/ Compare \/ CheckPing
  <2>1. UNCHANGED <<queue, now, woken>> /\ pc[Timer] \in {"next", "check"}
    BY <1>10 DEF EndPass, Compare, CheckPing, queueVars, TimerAt
  <2>2. Late' >= Late BY <1>1, <2>1 DEF Late, Lag, Looking
  <2>3. QED BY <1>3, <2>1, <2>2 DEF OnlyOld
<1>11. CASE Tick
  <2>1. /\ UNCHANGED <<queue, pc, absTime>> /\ now' = now + 1
        /\ woken = TRUE /\ woken' = FALSE
    BY <1>1, <1>11 DEF Tick, queueVars, thrVars, Prompt
  <2>2. (Looking => Looking') /\ Lag = 0 /\ Lag' = 1 BY <1>1, <2>1 DEF Looking, Lag
  <2>3. Late' >= Late + 1 BY <2>2 DEF Late
  <2>4. ASSUME NEW i \in 1..Len(queue) PROVE now' - queue[i].key <= MaxBusy + Late'
    <3>1. now - queue[i].key <= MaxBusy + Late BY DEF Ages
    <3>2. QED BY SMTT(30), <1>1, <1>2, <2>1, <2>3, <3>1
  <2>5. QED BY <2>1, <2>4 DEF Ages
<1>12. CASE Insert
  <2>1. /\ UNCHANGED <<now, woken, absTime>> /\ Same(Timer) /\ pc[Main] = "insert"
    BY <1>12, EnterAlone DEF Insert, Others
  <2>2. Late' = Late /\ Late \in Nat BY <2>1 DEF Late, Lag, Looking, Same
  <2>3. PICK p \in 1..Len(queue) + 1 : With(queue', queue, p, MainEntry)
    BY <1>12, InsertStep
  <2>4. MainEntry \in Entries /\ MainEntry.key = futtime
    BY <2>1, MainEntryTyped DEF MainEntry, Entry
  <2>5. ASSUME NEW j \in 1..Len(queue') PROVE now' - queue'[j].key <= MaxBusy + Late'
    <3>1. queue'[j] = MainEntry \/ \E i \in 1..Len(queue) : queue'[j] = queue[i]
      <4>1. queue \in Seq(Entries) /\ queue' \in Seq(Entries) BY <1>1
      <4>2. QED BY <2>3, <2>4, <4>1, Added
    <3>2. CASE queue'[j] = MainEntry BY <1>1, <1>4, <2>1, <2>2, <2>4, <3>2
    <3>3. CASE \E i \in 1..Len(queue) : queue'[j] = queue[i]
      <4>1. PICK i \in 1..Len(queue) : queue'[j] = queue[i] BY <3>3
      <4>2. now - queue[i].key <= MaxBusy + Late BY DEF Ages
      <4>3. QED BY <2>1, <2>2, <4>1, <4>2
    <3>4. QED BY <3>1, <3>2, <3>3
  <2>6. QED BY <2>5 DEF Ages
<1>13. CASE PublishInserted
  <2>1. UNCHANGED <<queue, now, woken, absTime>> /\ Same(Timer)
    BY <1>13, EnterAlone DEF PublishInserted, Others
  <2>2. Late' >= Late BY <2>1 DEF Late, Lag, Looking, Same
  <2>3. QED BY <1>3, <2>1, <2>2 DEF OnlyOld
<1>14. ASSUME NEW t \in Threads, CloseStep(t) PROVE Ages'
  <2>1. UNCHANGED <<now, woken, absTime, idleList>> /\ Others(t) /\ pc[t] \in Closes
    BY <1>14, CloseAlone
  <2>2. Late' >= Late
    <3>1. CASE t = Timer BY <1>1, <2>1, <3>1 DEF Late, Lag, Looking, Closes
    <3>2. CASE t # Timer BY <1>1, <2>1, <3>2 DEF Late, Lag, Looking, Others, Same
    <3>3. QED BY <3>1, <3>2
  <2>3. OnlyOld BY <1>14, NothingNew
  <2>4. QED BY <1>3, <2>1, <2>2, <2>3
<1>15. ASSUME NEW c \in Conns, Accept(c) \/ ClientGone(c) \/ CutOff(c) \/ HandlePing(c)
       PROVE  Ages'
  <2>1. UNCHANGED <<queue, now, woken, absTime>> /\ Same(Timer) BY <1>15, ServeAlone
  <2>2. Late' >= Late BY <2>1 DEF Late, Lag, Looking, Same
  <2>3. QED BY <1>3, <2>1, <2>2 DEF OnlyOld
<1>16. QED
  BY <1>5, <1>6, <1>7, <1>8, <1>9, <1>10, <1>11, <1>12, <1>13, <1>14, <1>15, Steps
  DEF MonitorStep

-----------------------------------------------------------------------------
(* Who closes a connection goes on until it is retired.                    *)
LEMMA ClosersStay ==
  ASSUME Types, Stations, NEW c \in Conns, c \in clients', NEW t \in Threads,
         ClosesAt(t, c), Next
  PROVE  at'[t] = c /\ pc'[t] \in Closes /\ since'[t] = since[t]
<1> USE Kinds
<1>1. at[t] = c /\ pc[t] \in Closes /\ ThreadTypes /\ Main \in Threads /\ Worker \in Threads
  BY DEF ClosesAt, Types
<1>2. CASE Same(t) BY <1>1, <1>2 DEF Same
<1>3. CASE MonitorStep
  <2>1. t # Timer
    BY <1>1, <1>3 DEF MonitorStep, Poll, ReadClock, LockQueue, OverTime, UnlockQueue, EndPass,
       Compare, CheckPing, TimerAt, Closes
  <2>2. QED BY <1>2, <1>3, <2>1, MonitorAlone DEF Others
<1>4. CASE Tick BY <1>2, <1>4 DEF Tick, thrVars, Same
<1>5. CASE Insert \/ PublishInserted
  <2>1. t # Main BY <1>1, <1>5 DEF Insert, PublishInserted, Closes
  <2>2. QED BY <1>2, <1>5, <2>1, EnterAlone DEF Others
<1>6. ASSUME NEW u \in Threads, CloseStep(u) PROVE Same(t) \/ (u = t /\ ~Retire(u))
  <2>1. Others(u) BY <1>6, CloseAlone
  <2>2. CASE u = t
    <3>1. ~Retire(u)
      <4>1. Retire(u) => c \notin clients' BY <1>1, <2>2 DEF Retire
      <4>2. QED BY <4>1
    <3>2. QED BY <2>2, <3>1
  <2>3. QED BY <2>1, <2>2 DEF Others
<1>7. ASSUME CloseStep(t), ~Retire(t) PROVE at'[t] = c /\ pc'[t] \in Closes /\ since'[t] = since[t]
  BY <1>1, <1>7, CloseAlone
<1>8. ASSUME NEW d \in Conns, Accept(d) \/ ClientGone(d) \/ CutOff(d) \/ HandlePing(d)
      PROVE  Same(t)
  <2>1. UNCHANGED thrVars => Same(t) BY DEF thrVars, Same
  <2>2. CASE Accept(d) \/ ClientGone(d)
    <3>1. t # Main /\ \E p \in {"insert", "delete"} : Begin(Main, p, d)
      BY <1>1, <2>2 DEF Accept, ClientGone, Closes
    <3>2. QED BY <1>1, <3>1, Beginning DEF Others
  <2>3. CASE CutOff(d)
    <3>1. t # Worker BY <1>1, <2>3 DEF CutOff, Closes
    <3>2. QED BY <1>1, <2>3, <3>1, Beginning DEF CutOff, Others
  <2>4. QED BY <1>8, <2>1, <2>2, <2>3 DEF HandlePing
<1>9. QED BY <1>2, <1>3, <1>4, <1>5, <1>6, <1>7, <1>8, Steps

(* Main and the thread of a handler begin to close a connection when the   *)
(* client has gone or is cut off.                                          *)
LEMMA NewCloser ==
  ASSUME Types, Stations, NEW c \in Conns, NEW t \in {Main, Worker}, ~ClosesAt(t, c),
         at'[t] = c, pc'[t] \in Closes, Next
  PROVE  since'[t] = now /\ now' = now /\ ping' = ping
<1> USE Kinds
<1>1. ThreadTypes /\ t \in Threads /\ t # Timer BY DEF Types
<1>2. ~Same(t) BY DEF Same, ClosesAt
<1>3. ~MonitorStep BY <1>1, <1>2, MonitorAlone DEF Others
<1>4. ~Tick BY <1>2 DEF Tick, thrVars, Same
<1>5. ~Insert /\ ~PublishInserted
  <2>1. Insert \/ PublishInserted => t = Main BY <1>1, <1>2, EnterAlone DEF Others
  <2>2. QED BY <2>1, EnterAlone DEF Closes
<1>6. ASSUME NEW u \in Threads, CloseStep(u) PROVE FALSE
  <2>1. u = t BY <1>1, <1>2, <1>6, CloseAlone DEF Others
  <2>2. CASE Retire(t)
    <3>1. at'[t] = Nobody BY <1>1, <2>2, Ending DEF Retire
    <3>2. QED BY <3>1
  <2>3. CASE ~Retire(t)
    <3>1. at'[t] = at[t] /\ pc[t] \in Closes BY <1>6, <2>1, <2>3, CloseAlone
    <3>2. QED BY <3>1 DEF ClosesAt
  <2>4. QED BY <2>2, <2>3
<1>7. ASSUME NEW d \in Conns, Accept(d) \/ ClientGone(d) \/ CutOff(d) \/ HandlePing(d)
      PROVE  since'[t] = now /\ now' = now /\ ping' = ping
  <2>1. ~HandlePing(d) BY <1>2 DEF HandlePing, thrVars, Same
  <2>2. ~Accept(d)
    <3>1. SUFFICES ASSUME Accept(d) PROVE FALSE OBVIOUS
    <3>2. Begin(Main, "insert", d) BY <3>1 DEF Accept
    <3>3. Others(Main) /\ pc'[Main] = "insert" BY <1>1, <3>2, Beginning
    <3>4. QED BY <1>1, <1>2, <3>3 DEF Others, Closes
  <2>3. \E u \in {Main, Worker} : Begin(u, "delete", d)
    BY <1>7, <2>1, <2>2 DEF ClientGone, CutOff
  <2>4. PICK u \in {Main, Worker} : Begin(u, "delete", d) BY <2>3
  <2>5. u = t BY <1>1, <1>2, <2>4, Beginning DEF Others
  <2>6. since'[t] = now BY <1>1, <2>4, <2>5, Beginning
  <2>7. now' = now /\ ping' = ping BY <1>7, <2>1, <2>2, ServeAlone
  <2>8. QED BY <2>6, <2>7
<1>8. QED BY <1>3, <1>4, <1>5, <1>6, <1>7, Steps

(* A step that changes nothing of this leaves a client in time.            *)
Stays(c) == \A i \in 1..Len(queue) :
  queue[i].conn = c => \E j \in 1..Len(queue') : queue'[j] = queue[i]
(* A client that is in time stays so if its entry, its ping and what the   *)
(* monitor has in hand are left alone, or its ping is later.               *)
LEMMA Carried ==
  ASSUME Types, Types', NEW c \in Conns, InTime(c), HasEntry(c),
         UNCHANGED <<now, woken, curTime>>, ping'[c] >= ping[c],
         Looking => Looking', Pending(c)' <=> Pending(c),
         Entering(c) => Entering(c)',
         ClosesAt(Timer, c) => ClosesAt(Timer, c)',
         Entering(c) \/ ClosesAt(Timer, c) \/ Stays(c)
  PROVE  InTime(c)' /\ HasEntry(c)'
<1> USE TimesTyped
<1>1. /\ now \in Nat /\ curTime \in Nat /\ ping[c] \in Nat /\ ping'[c] \in Nat
      /\ \A i \in 1..Len(queue) : queue[i].key \in Nat
  BY Fields DEF Types, QueueTypes, ClockTypes, ClientTypes
<1>2. InTime(c)'
  <2>1. now - ping[c] <= Patience + Lag + (IF Pending(c) \/ Looking THEN 1 ELSE 0)
    BY DEF InTime
  <2>2. Lag' = Lag BY DEF Lag
  <2>3. now' - ping'[c] <= Patience + Lag' + (IF Pending(c)' \/ Looking' THEN 1 ELSE 0)
    BY <1>1, <2>1, <2>2
  <2>4. QED BY <2>3 DEF InTime
<1>3. ASSUME NEW k \in Nat, NEW l \in Nat, k <= l, EntryBy(c, k), Stays(c)
      PROVE  \E j \in 1..Len(queue') : queue'[j].conn = c /\ queue'[j].key <= l
  <2>1. PICK i \in 1..Len(queue) : queue[i].conn = c /\ queue[i].key <= k
    BY <1>3 DEF EntryBy
  <2>2. PICK j \in 1..Len(queue') : queue'[j] = queue[i] BY <1>3, <2>1 DEF Stays
  <2>3. queue[i].key \in Nat BY <1>1
  <2>4. queue'[j].key <= l BY <1>3, <2>1, <2>2, <2>3
  <2>5. QED BY <2>1, <2>2, <2>4
<1>4. HasEntry(c)'
  <2>1. CASE Entering(c) \/ ClosesAt(Timer, c) BY <2>1 DEF HasEntry
  <2>2. CASE ~Entering(c) /\ ~ClosesAt(Timer, c) /\ Pending(c)
    <3>1. EntryBy(c, curTime + WaitTime) /\ Stays(c) BY <2>2 DEF HasEntry
    <3>2. curTime + WaitTime \in Nat /\ curTime + WaitTime <= curTime + WaitTime BY <1>1
    <3>3. \E j \in 1..Len(queue') : queue'[j].conn = c /\ queue'[j].key <= curTime + WaitTime
      BY <1>3, <3>1, <3>2
    <3>4. QED BY <2>2, <3>3 DEF HasEntry, EntryBy
  <2>3. CASE ~Entering(c) /\ ~ClosesAt(Timer, c) /\ ~Pending(c)
    <3>1. EntryBy(c, ping[c] + Patience) /\ Stays(c) BY <2>3 DEF HasEntry
    <3>2. ping[c] + Patience \in Nat /\ ping'[c] + Patience \in Nat
          /\ ping[c] + Patience <= ping'[c] + Patience
      BY <1>1
    <3>3. \E j \in 1..Len(queue') : queue'[j].conn = c /\ queue'[j].key <= ping'[c] + Patience
      BY <1>3, <3>1, <3>2
    <3>4. QED BY <2>3, <3>3 DEF HasEntry, EntryBy
  <2>4. QED BY <2>1, <2>2, <2>3
<1>5. QED BY <1>2, <1>4

(* What the monitor has in hand.                                           *)
LEMMA PendingSame ==
  ASSUME NEW c \in Conns, idleList' = idleList, seq'[c] = seq[c],
         at'[Timer] = c <=> at[Timer] = c
  PROVE  Pending(c)' <=> Pending(c)
BY DEF Pending, InList, Held

(* With an empty list, and between two checks, it has nothing in hand.     *)
LEMMA NothingPending ==
  ASSUME Types, Stations, NEW c \in Conns, idleList = <<>>, pc[Timer] \in FreePlaces
  PROVE  ~Pending(c)
<1>1. at[Timer] = Nobody BY Kinds DEF Stations
<1>2. Len(idleList) = 0 OBVIOUS
<1>3. QED BY <1>1, <1>2, Kinds DEF Pending, InList

(* A client that is being entered has not been silent for long.            *)
LEMMA EntrantHeard ==
  ASSUME Types, Stations, Clocks, MaxBusy <= Patience, pc[Main] \in {"insert", "inserted"}
  PROVE  now - ping[at[Main]] <= Patience
<1>1. at[Main] \in Conns /\ Main \in Threads BY AtConn, Kinds DEF Types, FreePlaces
<1>2. now - since[Main] <= MaxBusy /\ ping[at[Main]] >= since[Main]
  BY <1>1, Kinds DEF Clocks, Prompts, Entrant
<1>3. now \in Nat /\ since[Main] \in Nat /\ ping[at[Main]] \in Nat
  BY <1>1 DEF Types, ClockTypes, ThreadTypes, ClientTypes
<1>4. QED BY <1>2, <1>3, TimesTyped

-----------------------------------------------------------------------------
(* A client that nobody closes stays in time, step by step.                *)
InGoodTime(c) == InTime(c) /\ HasEntry(c)
Steady == TimerInv /\ TimerInv' /\ Clocks

(* Main puts in an entry: that of the client itself, in time and not in    *)
(* the monitor's hands, or that of another one.                            *)
LEMMA KeptInsert ==
  ASSUME Steady, NEW c \in clients, InGoodTime(c), Insert
  PROVE  InGoodTime(c)'
<1> USE Kinds, TimesTyped
<1>1. /\ Types /\ Types' /\ Stations /\ Gate /\ Alone /\ Hands /\ c \in Conns
      /\ InTime(c) /\ HasEntry(c)
  BY DEF Steady, TimerInv, Types, ClientTypes, InGoodTime
<1>2. /\ UNCHANGED <<now, woken, curTime, ping, seq, idleList, absTime>> /\ Same(Timer)
      /\ at'[Main] = at[Main] /\ pc'[Main] = "inserted" /\ pc[Main] = "insert"
  BY <1>1, EnterAlone DEF Others, Insert
<1>3. Pending(c)' <=> Pending(c) BY <1>1, <1>2, PendingSame DEF Same
<1>4. Looking => Looking' BY <1>2 DEF Looking, Same
<1>5. /\ queue \in Seq(Entries) /\ queue' \in Seq(Entries) /\ MainEntry \in Entries
      /\ \E p \in 1..Len(queue) + 1 : With(queue', queue, p, MainEntry)
      /\ MainEntry.conn = at[Main] /\ MainEntry.key = futtime
  BY <1>1, <1>2, InsertStep, MainEntryTyped DEF Types, QueueTypes, MainEntry, Entry
<1>6. /\ \E j \in 1..Len(queue') : queue'[j] = MainEntry
      /\ Stays(c)
  <2>1. PICK p \in 1..Len(queue) + 1 : With(queue', queue, p, MainEntry) BY <1>5
  <2>2. /\ \E j \in 1..Len(queue') : queue'[j] = MainEntry
        /\ \A i \in 1..Len(queue) : \E j \in 1..Len(queue') : queue'[j] = queue[i]
    BY <1>5, <2>1, Added
  <2>3. QED BY <2>2 DEF Stays
<1>7. CASE at[Main] # c
  <2>1. ~Entering(c) BY <1>7 DEF Entering
  <2>2. ClosesAt(Timer, c) => ClosesAt(Timer, c)' BY <1>2 DEF ClosesAt, Same
  <2>3. ping'[c] >= ping[c] BY <1>1, <1>2 DEF Types, ClientTypes
  <2>4. QED BY <1>1, <1>2, <1>3, <1>4, <1>6, <2>1, <2>2, <2>3, Carried DEF InGoodTime
<1>8. CASE at[Main] = c
  <2>1. ~Pending(c)
    <3>1. at[Timer] # c BY <1>1, <1>2, <1>8 DEF Alone
    <3>2. ASSUME NEW i \in 1..Len(idleList), Held(i, c) PROVE FALSE
      <4>1. Taken(idleList[i]) /\ Entering(c) BY <1>1, <1>2, <1>8 DEF Hands, AllTaken, Entering
      <4>2. idleList[i].seq < seq[c] /\ idleList[i].seq = seq[c] /\ seq[c] \in Nat
        BY <1>1, <3>2, <4>1 DEF Taken, Held, Types, ClientTypes
      <4>3. QED BY <4>2
    <3>3. QED BY <3>1, <3>2 DEF Pending, InList
  <2>2. futtime <= ping[c] + Patience
    <3>1. futtime = since[Main] + WaitTime /\ ping[c] >= since[Main]
      BY <1>2, <1>8 DEF Steady, Clocks, Entrant
    <3>2. ping[c] \in Nat /\ since[Main] \in Nat
      BY <1>1 DEF Types, ClientTypes, ThreadTypes
    <3>3. QED BY <3>1, <3>2
  <2>3. PICK j \in 1..Len(queue') : queue'[j] = MainEntry BY <1>6
  <2>4. queue'[j].conn = c /\ queue'[j].key <= ping'[c] + Patience
    BY <1>2, <1>5, <1>8, <2>2, <2>3
  <2>5. HasEntry(c)' BY <1>3, <2>1, <2>4 DEF HasEntry, EntryBy
  <2>6. InTime(c)'
    <3>1. Lag' = Lag /\ (Looking' <=> Looking) BY <1>2 DEF Lag, Looking, Same
    <3>2. QED BY <1>1, <1>2, <1>3, <3>1 DEF InTime
  <2>7. QED BY <2>5, <2>6 DEF InGoodTime
<1>9. QED BY <1>7, <1>8

(* The steps that touch only other clients, and those that begin to close  *)
(* or serve this one.                                                      *)
LEMMA KeptOthers ==
  ASSUME Steady, NEW c \in clients, c \in clients', ~Closed(c), InGoodTime(c),
         \/ PublishInserted \/ LockQueue
         \/ \E t \in Threads : CloseStep(t)
         \/ \E d \in Conns : Accept(d) \/ ClientGone(d) \/ CutOff(d) \/ HandlePing(d),
         Next
  PROVE  InGoodTime(c)'
<1> USE Kinds, TimesTyped
<1>1. /\ Types /\ Types' /\ Stations /\ Gate /\ c \in Conns /\ ThreadTypes
      /\ InTime(c) /\ HasEntry(c) /\ PingsPast /\ Main \in Threads /\ Timer \in Threads
      /\ queue \in Seq(Entries)
  BY DEF Steady, TimerInv, Types, ClientTypes, InGoodTime, Clocks, QueueTypes
<1>2. ping'[c] >= ping[c] BY <1>1, StepPings
<1>3. ClosesAt(Timer, c) => ClosesAt(Timer, c)' BY <1>1, ClosersStay DEF ClosesAt
<1>4. ASSUME UNCHANGED <<now, woken, curTime>>, Looking => Looking',
             Pending(c)' <=> Pending(c), Entering(c) => Entering(c)',
             ClosesAt(Timer, c) \/ Stays(c)
      PROVE  InGoodTime(c)'
  BY <1>1, <1>2, <1>3, <1>4, Carried DEF InGoodTime
<1>5. queue' = queue => Stays(c) BY DEF Stays
<1>6. ASSUME Same(Timer), idleList' = idleList, seq'[c] = seq[c]
      PROVE  Pending(c)' <=> Pending(c)
  BY <1>1, <1>6, PendingSame DEF Same
<1>7. ASSUME Same(Timer), UNCHANGED <<now, absTime>> PROVE Looking => Looking'
  BY <1>7 DEF Looking, Same
<1>8. CASE PublishInserted
  <2>1. UNCHANGED <<now, woken, curTime, idleList, seq, absTime>> /\ Same(Timer)
    BY <1>1, <1>8, EnterAlone DEF Others
  <2>2. queue' = queue /\ ~Entering(c) BY <1>8 DEF PublishInserted, Entering
  <2>3. QED BY <1>4, <1>5, <1>6, <1>7, <2>1, <2>2
<1>9. CASE LockQueue
  <2>1. /\ UNCHANGED <<now, woken, curTime, idleList, seq, at, queue>>
        /\ pc'[Timer] = "over" /\ pc'[Main] = pc[Main]
    BY <1>1, <1>9, Going DEF LockQueue, connVars, monVars, Others, Same
  <2>2. Pending(c)' <=> Pending(c) BY <1>1, <2>1, PendingSame
  <2>3. Looking' /\ (Entering(c) => Entering(c)') BY <2>1 DEF Looking, Entering
  <2>4. QED BY <1>4, <1>5, <2>1, <2>2, <2>3
<1>10. ASSUME NEW t \in Threads, CloseStep(t) PROVE InGoodTime(c)'
  <2>1. /\ UNCHANGED <<now, woken, curTime, idleList, absTime>> /\ Others(t)
        /\ pc[t] \in Closes
    BY <1>1, <1>10, CloseAlone
  <2>2. Entering(c) => Entering(c)'
    <3>1. pc[Main] = "insert" => t # Main BY <2>1 DEF Closes
    <3>2. QED BY <1>1, <2>1, <3>1 DEF Entering, Others, Same
  <2>3. seq'[c] = seq[c] /\ (at'[Timer] = c <=> at[Timer] = c)
    <3>1. CASE Retire(t)
      <4>1. at[t] # c /\ at'[t] # c BY <1>1, <3>1, Ending DEF Retire
      <4>2. seq'[c] = seq[c] BY <1>1, <3>1, <4>1 DEF Retire, Types, ClientTypes
      <4>3. t # Timer => at'[Timer] = at[Timer] BY <1>1, <2>1 DEF Others, Same
      <4>4. QED BY <4>1, <4>2, <4>3
    <3>2. CASE ~Retire(t) BY <1>1, <1>10, <3>2, CloseAlone
    <3>3. QED BY <3>1, <3>2
  <2>4. Pending(c)' <=> Pending(c) BY <1>1, <2>1, <2>3, PendingSame
  <2>5. Looking => Looking'
    <3>1. Looking => t # Timer BY <2>1 DEF Looking, Closes
    <3>2. QED BY <1>1, <1>7, <2>1, <3>1 DEF Others
  <2>6. ClosesAt(Timer, c) \/ Stays(c)
    <3>1. CASE ~Erase(t)
      <4>1. queue' = queue
        BY <1>10, <3>1 DEF CloseStep, Delete, PublishDeleted, Retire, queueVars
      <4>2. QED BY <1>5, <4>1
    <3>2. CASE Erase(t) /\ at[t] = c
      <4>1. ClosesAt(t, c) BY <2>1, <3>2 DEF ClosesAt
      <4>2. t = Timer BY <4>1 DEF Closed
      <4>3. QED BY <4>1, <4>2
    <3>3. CASE Erase(t) /\ at[t] # c
      <4>1. PICK p \in 1..Len(queue) : queue[p].conn = at[t] /\ Without(queue', queue, p)
        BY <1>1, <3>3, EraseStep
      <4>2. queue' \in Seq(Entries) BY <1>1, <3>3, EraseStep
      <4>3. \A i \in 1..Len(queue) : i # p => \E j \in 1..Len(queue') : queue'[j] = queue[i]
        BY <1>1, <4>1, <4>2, LeftOver
      <4>4. QED BY <3>3, <4>1, <4>3 DEF Stays
    <3>4. QED BY <3>1, <3>2, <3>3
  <2>7. QED BY <1>4, <2>1, <2>2, <2>4, <2>5, <2>6
<1>11. ASSUME NEW d \in Conns, Accept(d) \/ ClientGone(d) \/ CutOff(d) \/ HandlePing(d)
       PROVE  InGoodTime(c)'
  <2>1. /\ UNCHANGED <<queue, now, woken, curTime, idleList, absTime>> /\ Same(Timer)
    BY <1>1, <1>11, ServeAlone
  <2>2. seq'[c] = seq[c]
    <3>1. CASE Accept(d) BY <1>1, <3>1 DEF Accept, Types, ClientTypes
    <3>2. CASE ~Accept(d) BY <1>1, <1>11, <3>2, ServeAlone
    <3>3. QED BY <3>1, <3>2
  <2>3. Entering(c) => Entering(c)'
    <3>1. CASE Accept(d) \/ ClientGone(d) BY <3>1 DEF Accept, ClientGone, Entering
    <3>2. CASE CutOff(d) \/ HandlePing(d)
      <4>1. Same(Main) BY <1>1, <3>2, Beginning DEF CutOff, HandlePing, thrVars, Others, Same
      <4>2. QED BY <4>1 DEF Entering, Same
    <3>3. QED BY <1>11, <3>1, <3>2
  <2>4. Stays(c) /\ (Pending(c)' <=> Pending(c)) /\ (Looking => Looking')
    BY <1>5, <1>6, <1>7, <2>1, <2>2
  <2>5. QED BY <1>4, <2>1, <2>3, <2>4
<1>12. QED BY <1>8, <1>9, <1>10, <1>11

(* The monitor looks without the lock: it finds the client due, or the     *)
(* client's time is not up, or the client is just being entered.           *)
LEMMA KeptPoll ==
  ASSUME Steady, ValueEarly, MaxBusy <= Patience, NEW c \in clients, InGoodTime(c), Poll
  PROVE  InGoodTime(c)'
<1> USE Kinds, TimesTyped
<1>1. /\ Types /\ Types' /\ Stations /\ Gate /\ c \in Conns /\ ThreadTypes /\ Clocks
      /\ InTime(c) /\ HasEntry(c) /\ Main \in Threads /\ Timer \in Threads
  BY DEF Steady, TimerInv, Types, ClientTypes, InGoodTime
<1>2. /\ UNCHANGED <<queue, idleList, now, curTime, ping, seq, at>>
      /\ woken = FALSE /\ woken' = TRUE /\ pc[Timer] = "asleep"
      /\ pc'[Timer] \in {"asleep", "clock"} /\ pc'[Main] = pc[Main]
  BY <1>1, Going DEF Poll, queueVars, connVars, TimerAt, Types, FlagTypes, Others, Same
<1>3. idleList = <<>> BY <1>1, <1>2 DEF Clocks, ListEmpty
<1>4. ~Pending(c) BY <1>1, <1>2, <1>3, NothingPending DEF FreePlaces
<1>5. ~Pending(c)' BY <1>1, <1>2, <1>4, PendingSame
<1>6. ~ClosesAt(Timer, c) BY <1>2 DEF ClosesAt, Closes
<1>7. Entering(c) \/ EntryBy(c, ping[c] + Patience) BY <1>1, <1>4, <1>6 DEF HasEntry
<1>8. HasEntry(c)'
  <2>1. Entering(c) => Entering(c)' BY <1>2 DEF Entering
  <2>2. EntryBy(c, ping[c] + Patience) => EntryBy(c, ping[c] + Patience)'
    BY <1>2 DEF EntryBy, Patience, Limit
  <2>3. QED BY <1>5, <1>7, <2>1, <2>2 DEF HasEntry
<1>9. now \in Nat /\ ping[c] \in Nat /\ value \in Nat /\ queue \in Seq(Entries)
  BY <1>1 DEF Types, ClockTypes, ClientTypes, QueueTypes
<1>10. now - ping[c] <= Patience + 1
  <2>1. ~Looking /\ Lag = 1 BY <1>2 DEF Looking, Lag
  <2>2. QED BY <1>1, <1>4, <2>1 DEF InTime
<1>11. now - ping[c] <= Patience \/ Looking'
  <2>1. CASE pc[Main] \in {"insert", "inserted"} /\ at[Main] = c
    BY <1>1, <2>1, EntrantHeard
  <2>2. CASE ~(pc[Main] \in {"insert", "inserted"} /\ at[Main] = c)
    <3>1. ~Entering(c) BY <2>2 DEF Entering
    <3>2. PICK i \in 1..Len(queue) : queue[i].conn = c /\ queue[i].key <= ping[c] + Patience
      BY <1>7, <3>1 DEF EntryBy
    <3>3. value <= queue[i].key BY <2>2, <3>2 DEF ValueEarly, Fresh
    <3>4. queue[i].key \in Nat BY <1>9, Fields
    <3>5. size > 0 BY <1>1, <1>9, <3>2 DEF Gate
    <3>6. absTime' = value /\ pc'[Timer] = "clock" BY <1>1, <1>1, <3>5, Going DEF Poll
    <3>7. CASE value < now BY <1>2, <3>6, <3>7 DEF Looking
    <3>8. CASE ~(value < now)
      <4>1. now <= ping[c] + Patience BY <1>9, <3>2, <3>3, <3>4, <3>8
      <4>2. QED BY <1>9, <4>1
    <3>9. QED BY <3>7, <3>8
  <2>3. QED BY <2>1, <2>2
<1>12. InTime(c)'
  <2>1. Lag' = 0 BY <1>2 DEF Lag
  <2>2. now' - ping'[c] <= Patience + Lag' + (IF Pending(c)' \/ Looking' THEN 1 ELSE 0)
    BY <1>2, <1>9, <1>10, <1>11, <2>1
  <2>3. QED BY <2>2 DEF InTime
<1>13. QED BY <1>8, <1>12 DEF InGoodTime

(* The monitor begins or ends a pass: its list is empty, and stays so.     *)
LEMMA KeptReadClock ==
  ASSUME Steady, NEW c \in clients, InGoodTime(c), ReadClock \/ EndPass
  PROVE  InGoodTime(c)'
<1> USE Kinds, TimesTyped
<1>1. /\ Types /\ Types' /\ Stations /\ c \in Conns /\ ThreadTypes /\ Clocks
      /\ InTime(c) /\ HasEntry(c) /\ Main \in Threads /\ Timer \in Threads
  BY DEF Steady, TimerInv, Types, ClientTypes, InGoodTime
<1>2. /\ UNCHANGED <<queue, idleList, now, ping, seq, at, woken>> /\ pc'[Main] = pc[Main]
      /\ pc[Timer] \in {"clock", "next"} /\ idleList = <<>>
  BY <1>1, Going
  DEF ReadClock, EndPass, queueVars, connVars, TimerAt, Others, Same, Clocks, ListEmpty
<1>3. Looking => Looking' BY <1>1, Going DEF ReadClock, EndPass, Looking, TimerAt
<1>4. ~Pending(c) BY <1>1, <1>2, NothingPending DEF FreePlaces
<1>5. ~Pending(c)' BY <1>1, <1>2, <1>4, PendingSame
<1>6. ~ClosesAt(Timer, c) BY <1>2 DEF ClosesAt, Closes
<1>7. HasEntry(c)'
  <2>1. Entering(c) \/ EntryBy(c, ping[c] + Patience) BY <1>1, <1>4, <1>6 DEF HasEntry
  <2>2. Entering(c) => Entering(c)' BY <1>2 DEF Entering
  <2>3. EntryBy(c, ping[c] + Patience) => EntryBy(c, ping[c] + Patience)'
    BY <1>2 DEF EntryBy, Patience, Limit
  <2>4. QED BY <1>5, <2>1, <2>2, <2>3 DEF HasEntry
<1>8. InTime(c)'
  <2>1. now - ping[c] <= Patience + Lag + (IF Looking THEN 1 ELSE 0)
    BY <1>1, <1>4 DEF InTime
  <2>2. Lag' = Lag /\ now \in Nat /\ ping[c] \in Nat
    BY <1>1, <1>2 DEF Lag, Types, ClockTypes, ClientTypes
  <2>3. now' - ping'[c] <= Patience + Lag' + (IF Pending(c)' \/ Looking' THEN 1 ELSE 0)
    BY <1>2, <1>3, <2>1, <2>2
  <2>4. QED BY <2>3 DEF InTime
<1>9. QED BY <1>7, <1>8 DEF InGoodTime

(* The monitor takes the client out and puts its entry back in the same    *)
(* step, or moves the entries of others.                                   *)
LEMMA KeptOverTime ==
  ASSUME Steady, ~kickNow, NEW c \in clients, InGoodTime(c), OverTime
  PROVE  InGoodTime(c)'
<1> USE Kinds, TimesTyped
<1>1. /\ Types /\ Types' /\ Stations /\ Gate /\ Entered /\ c \in Conns
      /\ InTime(c) /\ HasEntry(c) /\ queue \in Seq(Entries) /\ queue' \in Seq(Entries)
      /\ idleList \in Seq(Entries)
  BY DEF Steady, TimerInv, Types, ClientTypes, InGoodTime, QueueTypes
<1>2. /\ UNCHANGED <<now, curTime, absTime, ping, seq, at, pc, woken>>
      /\ pc[Timer] = "over" /\ idleList' = Append(idleList, Head(queue))
  BY DEF OverTime, connVars, thrVars, TimerAt
<1> DEFINE r == Tail(queue)
           e == Requeued(Head(queue))
<1>3. /\ r \in Seq(Entries) /\ Without(r, queue, 1) /\ 1 \in 1..Len(queue)
      /\ e \in Entries /\ e.key = curTime + WaitTime /\ e.conn = queue[1].conn
      /\ Head(queue) = queue[1]
      /\ \E p \in 1..Len(r) + 1 : With(queue', r, p, e)
  BY <1>1, OverTimeStep, HeadTyped DEF OverTime, Requeued, Entry
<1> HIDE DEF r, e
<1>4. /\ \E j \in 1..Len(queue') : queue'[j] = e
      /\ \A i \in 1..Len(r) : \E j \in 1..Len(queue') : queue'[j] = r[i]
  <2>1. PICK p \in 1..Len(r) + 1 : With(queue', r, p, e) BY <1>3
  <2>2. queue' \in Seq(Entries) BY <1>1
  <2>3. QED BY <1>3, <2>1, <2>2, Added
<1>5. \A i \in 1..Len(queue) : i # 1 => \E j \in 1..Len(r) : r[j] = queue[i]
  BY <1>1, <1>3, LeftOver
<1>6. Looking /\ Looking' BY <1>2 DEF Looking
<1>7. /\ Len(idleList') = Len(idleList) + 1
      /\ idleList'[Len(idleList) + 1] = queue[1]
      /\ \A i \in 1..Len(idleList) : idleList'[i] = idleList[i]
  BY <1>1, <1>2, <1>3
<1>8. CASE queue[1].conn = c
  <2>1. queue[1].seq = seq[c] BY <1>1, <1>3, <1>8 DEF Entered, Owned
  <2>2. Len(idleList) + 1 \in 1..Len(idleList') BY <1>1, <1>7
  <2>3. InList(c)' BY <1>2, <1>7, <1>8, <2>1, <2>2 DEF InList, Held
  <2>4. EntryBy(c, curTime + WaitTime)'
    <3>1. PICK j \in 1..Len(queue') : queue'[j] = e BY <1>4
    <3>2. queue'[j].conn = c /\ queue'[j].key <= curTime' + WaitTime
      BY <1>1, <1>2, <1>3, <1>8, <3>1 DEF Types, ClockTypes
    <3>3. QED BY <3>2 DEF EntryBy
  <2>5. HasEntry(c)' BY <2>3, <2>4 DEF HasEntry, Pending
  <2>6. InTime(c)'
    <3>1. Lag' = Lag BY <1>2 DEF Lag
    <3>2. QED BY <1>1, <1>2, <1>6, <3>1 DEF InTime
  <2>7. QED BY <2>5, <2>6 DEF InGoodTime
<1>9. CASE queue[1].conn # c
  <2>1. Stays(c)
    <3>1. SUFFICES ASSUME NEW i \in 1..Len(queue), queue[i].conn = c
                   PROVE  \E j \in 1..Len(queue') : queue'[j] = queue[i]
      BY DEF Stays
    <3>2. PICK k \in 1..Len(r) : r[k] = queue[i] BY <1>5, <1>9, <3>1
    <3>3. QED BY <1>4, <3>2
  <2>2. InList(c)' <=> InList(c)
    <3>1. ASSUME NEW i \in 1..Len(idleList') PROVE Held(i, c)' <=> i \in 1..Len(idleList) /\ Held(i, c)
      <4>1. i \in 1..Len(idleList) \/ i = Len(idleList) + 1 BY <1>1, <1>7
      <4>2. CASE i \in 1..Len(idleList) BY <1>2, <1>7, <4>2 DEF Held
      <4>3. CASE i = Len(idleList) + 1
        <5>1. i \notin 1..Len(idleList) BY <1>1, <4>3
        <5>2. QED BY <1>7, <1>9, <4>3, <5>1 DEF Held
      <4>4. QED BY <4>1, <4>2, <4>3
    <3>2. \A i \in 1..Len(idleList) : i \in 1..Len(idleList') BY <1>1, <1>7
    <3>3. QED BY <3>1, <3>2 DEF InList
  <2>3. Pending(c)' <=> Pending(c) BY <1>2, <2>2 DEF Pending
  <2>4. Entering(c) => Entering(c)' BY <1>2 DEF Entering
  <2>5. ClosesAt(Timer, c) => ClosesAt(Timer, c)' BY <1>2 DEF ClosesAt
  <2>6. ping'[c] >= ping[c] BY <1>1, <1>2 DEF Types, ClientTypes
  <2>7. QED
    BY <1>1, <1>2, <1>6, <2>1, <2>3, <2>4, <2>5, <2>6, Carried DEF InGoodTime
<1>10. QED BY <1>8, <1>9

(* The monitor has taken out all that was due: who is still in the queue   *)
(* has time.                                                               *)
LEMMA KeptUnlock ==
  ASSUME Steady, MaxBusy <= Patience, NEW c \in clients, InGoodTime(c), UnlockQueue
  PROVE  InGoodTime(c)'
<1> USE Kinds, TimesTyped
<1>1. /\ Types /\ Types' /\ Stations /\ Gate /\ c \in Conns /\ ThreadTypes /\ Clocks
      /\ InTime(c) /\ HasEntry(c) /\ Main \in Threads /\ Timer \in Threads
      /\ now \in Nat /\ ping[c] \in Nat /\ curTime \in Nat /\ queue \in Seq(Entries)
  BY DEF Steady, TimerInv, Types, ClientTypes, InGoodTime, ClockTypes, QueueTypes
<1>2. /\ UNCHANGED <<queue, idleList, now, curTime, ping, seq, at, woken>>
      /\ pc'[Main] = pc[Main] /\ pc[Timer] = "over" /\ ~FirstIsDue
  BY <1>1, Going DEF UnlockQueue, connVars, monVars, TimerAt, Others, Same
<1>3. Pending(c)' <=> Pending(c) BY <1>1, <1>2, PendingSame
<1>4. ~ClosesAt(Timer, c) BY <1>2 DEF ClosesAt, Closes
<1>5. HasEntry(c)'
  <2>1. Entering(c) => Entering(c)' BY <1>2 DEF Entering
  <2>2. EntryBy(c, ping[c] + Patience) => EntryBy(c, ping[c] + Patience)'
    BY <1>2 DEF EntryBy, Patience, Limit
  <2>3. EntryBy(c, curTime + WaitTime) => EntryBy(c, curTime + WaitTime)'
    BY <1>2 DEF EntryBy
  <2>4. QED BY <1>1, <1>3, <1>4, <2>1, <2>2, <2>3 DEF HasEntry
<1>6. Lag' = Lag /\ now - curTime <= Lag BY <1>1, <1>2 DEF Lag, Clocks, ClockFresh
<1>7. Pending(c) \/ now - ping[c] <= Patience + Lag
  <2>1. CASE Entering(c)
    <3>1. now - ping[c] <= Patience BY <1>1, <2>1, EntrantHeard DEF Entering
    <3>2. QED BY <1>1, <3>1
  <2>2. CASE ~Pending(c) /\ EntryBy(c, ping[c] + Patience)
    <3>1. PICK i \in 1..Len(queue) : queue[i].conn = c /\ queue[i].key <= ping[c] + Patience
      BY <2>2 DEF EntryBy
    <3>2. queue # <<>> /\ queue[1].key <= queue[i].key BY <1>1, FirstEarliest DEF Gate
    <3>3. queue[1].key > curTime /\ queue[1].key \in Nat /\ queue[i].key \in Nat
      <4>1. 1 \in 1..Len(queue) BY <1>1, <3>2
      <4>2. queue[1].key \in Nat /\ queue[i].key \in Nat BY <1>1, <4>1, Fields
      <4>3. Head(queue) = queue[1] BY <1>1, <3>2
      <4>4. QED BY <1>1, <1>2, <3>2, <4>2, <4>3 DEF FirstIsDue
    <3>4. curTime <= ping[c] + Patience BY <1>1, <3>1, <3>2, <3>3
    <3>5. Lag \in Nat /\ Patience \in Nat BY TimesTyped
    <3>6. now - ping[c] <= Patience + Lag BY SMTT(30), <1>1, <1>6, <3>4, <3>5
    <3>7. QED BY <3>6
  <2>3. QED BY <1>1, <1>4, <2>1, <2>2 DEF HasEntry
<1>8. InTime(c)'
  <2>1. Looking BY <1>2 DEF Looking
  <2>2. now - ping[c] <= Patience + Lag + 1 BY <1>1, <2>1 DEF InTime
  <2>3. now' - ping'[c] <= Patience + Lag' + (IF Pending(c)' \/ Looking' THEN 1 ELSE 0)
    BY <1>1, <1>2, <1>3, <1>6, <1>7, <2>2
  <2>4. QED BY <2>3 DEF InTime
<1>9. QED BY <1>5, <1>8 DEF InGoodTime

(* What is taken from the monitor's list is current, or nobody's.          *)
LEMMA KeptCompare ==
  ASSUME Steady, NEW c \in clients, InGoodTime(c), Compare
  PROVE  InGoodTime(c)'
<1> USE Kinds, TimesTyped
<1>1. /\ Types /\ Types' /\ Stations /\ c \in Conns /\ ThreadTypes
      /\ InTime(c) /\ HasEntry(c) /\ Main \in Threads /\ Timer \in Threads
      /\ idleList \in Seq(Entries)
  BY DEF Steady, TimerInv, Types, ClientTypes, InGoodTime, QueueTypes
<1>2. /\ UNCHANGED <<queue, now, curTime, absTime, ping, seq, woken>>
      /\ pc[Timer] = "next" /\ idleList' = Tail(idleList)
  BY DEF Compare, queueVars, connVars, TimerAt
<1>3. at[Timer] = Nobody BY <1>1, <1>2 DEF Stations, FreePlaces
<1>4. /\ Head(idleList) = idleList[1] /\ 1 \in 1..Len(idleList)
      /\ Tail(idleList) \in Seq(Entries) /\ Without(Tail(idleList), idleList, 1)
      /\ Head(idleList).conn \in Conns
  BY <1>1, Listed
<1>5. /\ Others(Timer)
      /\ IF Held(1, idleList[1].conn) THEN at'[Timer] = idleList[1].conn
                                      ELSE at'[Timer] = Nobody
  <2>1. Current(Head(idleList)) <=> Held(1, idleList[1].conn) BY <1>4 DEF Current, Held
  <2>2. CASE Current(Head(idleList))
    <3>1. Begin(Timer, "check", Head(idleList).conn) BY <2>2 DEF Compare
    <3>2. QED BY <1>1, <1>4, <2>1, <2>2, <3>1, Beginning
  <2>3. CASE ~Current(Head(idleList))
    <3>1. UNCHANGED thrVars BY <2>3 DEF Compare
    <3>2. QED BY <1>3, <2>1, <2>3, <3>1 DEF thrVars, Others, Same
  <2>4. QED BY <2>2, <2>3
<1>6. InList(c) <=> InList(c)' \/ Held(1, c)
  <2>1. ASSUME InList(c), ~Held(1, c) PROVE InList(c)'
    <3>1. PICK i \in 1..Len(idleList) : Held(i, c) BY <2>1 DEF InList
    <3>2. i # 1 BY <2>1, <3>1
    <3>3. \A k \in 1..Len(idleList) :
            k # 1 => \E j \in 1..Len(Tail(idleList)) : Tail(idleList)[j] = idleList[k]
      BY <1>1, Listed, TailKeeps
    <3>4. PICK j \in 1..Len(Tail(idleList)) : Tail(idleList)[j] = idleList[i]
      BY <3>2, <3>3
    <3>5. QED BY <1>2, <3>1, <3>4 DEF InList, Held
  <2>2. ASSUME InList(c)' PROVE InList(c)
    <3>1. PICK j \in 1..Len(Tail(idleList)) :
            Tail(idleList)[j].conn = c /\ Tail(idleList)[j].seq = seq[c]
      BY <1>2, <2>2 DEF InList, Held
    <3>2. PICK i \in 1..Len(idleList) : Tail(idleList)[j] = idleList[i]
      BY <1>1, <1>4, LeftOver
    <3>3. QED BY <3>1, <3>2 DEF InList, Held
  <2>3. Held(1, c) => InList(c) BY <1>4 DEF InList
  <2>4. QED BY <2>1, <2>2, <2>3
<1>7. Pending(c)' <=> Pending(c)
  <2>1. at'[Timer] = c <=> Held(1, c)
    <3>1. c # Nobody BY <1>1
    <3>2. Held(1, c) => idleList[1].conn = c BY DEF Held
    <3>3. QED BY <1>5, <3>1, <3>2
  <2>2. at[Timer] # c BY <1>1, <1>3
  <2>3. QED BY <1>6, <2>1, <2>2 DEF Pending
<1>8. Entering(c) => Entering(c)' BY <1>1, <1>5 DEF Entering, Others, Same
<1>9. ~Looking /\ ~ClosesAt(Timer, c) BY <1>2 DEF Looking, ClosesAt, Closes
<1>10. ping'[c] >= ping[c] /\ Stays(c) BY <1>1, <1>2 DEF Types, ClientTypes, Stays
<1>11. QED BY <1>1, <1>2, <1>7, <1>8, <1>9, <1>10, Carried DEF InGoodTime

(* A client that has pinged is left where its entry has been put back.     *)
LEMMA KeptCheck ==
  ASSUME Steady, ~kickNow, NEW c \in clients, InGoodTime(c), CheckPing
  PROVE  InGoodTime(c)'
<1> USE Kinds, TimesTyped
<1>1. /\ Types /\ Types' /\ Stations /\ Alone /\ c \in Conns /\ ThreadTypes /\ Clocks
      /\ InTime(c) /\ HasEntry(c) /\ Main \in Threads /\ Timer \in Threads
      /\ now \in Nat /\ ping[c] \in Nat /\ curTime \in Nat /\ queue \in Seq(Entries)
  BY DEF Steady, TimerInv, Types, ClientTypes, InGoodTime, ClockTypes, QueueTypes
<1>2. /\ UNCHANGED <<queue, now, curTime, absTime, ping, seq, idleList, woken>>
      /\ pc[Timer] = "check"
  BY DEF CheckPing, queueVars, connVars, TimerAt
<1>3. ~Looking /\ ~ClosesAt(Timer, c) BY <1>2 DEF Looking, ClosesAt, Closes
<1>4. ping'[c] >= ping[c] /\ Stays(c) BY <1>1, <1>2 DEF Stays
<1>5. CASE Goto(Timer, "delete") /\ UNCHANGED <<at, since>>
  <2>1. Entering(c) => Entering(c)' BY <1>1, <1>5, Going DEF Entering, Others, Same
  <2>2. Pending(c)' <=> Pending(c) BY <1>1, <1>2, <1>5, PendingSame
  <2>3. QED BY <1>1, <1>2, <1>3, <1>4, <2>1, <2>2, Carried DEF InGoodTime
<1>6. CASE Leave(Timer) /\ curTime - ping[at[Timer]] <= Limit
  <2>1. Others(Timer) /\ at'[Timer] = Nobody BY <1>1, <1>6, Ending
  <2>2. Entering(c) => Entering(c)' BY <1>1, <2>1 DEF Entering, Others, Same
  <2>3. CASE at[Timer] # c
    <3>1. Pending(c)' <=> Pending(c) BY <1>1, <1>2, <2>1, <2>3, PendingSame
    <3>2. QED BY <1>1, <1>2, <1>3, <1>4, <2>2, <3>1, Carried DEF InGoodTime
  <2>4. CASE at[Timer] = c
    <3>1. Pending(c) /\ ~Entering(c) BY <1>1, <2>4 DEF Pending, Alone, Entering
    <3>2. EntryBy(c, curTime + WaitTime) BY <1>1, <1>3, <3>1 DEF HasEntry
    <3>3. curTime - ping[c] <= Limit BY <1>6, <2>4
    <3>4. curTime + WaitTime <= ping[c] + Patience BY <1>1, <3>3
    <3>5. EntryBy(c, curTime + WaitTime)' BY <1>2, <3>2 DEF EntryBy
    <3>6. EntryBy(c, ping[c] + Patience)'
      <4>1. PICK i \in 1..Len(queue) : queue[i].conn = c /\ queue[i].key <= curTime + WaitTime
        BY <3>2 DEF EntryBy
      <4>2. queue[i].key \in Nat BY <1>1, Fields
      <4>3. queue[i].key <= ping[c] + Patience BY <1>1, <3>4, <4>1, <4>2
      <4>4. QED BY <1>2, <4>1, <4>3 DEF EntryBy, Patience, Limit
    <3>7. HasEntry(c)' BY <3>5, <3>6 DEF HasEntry
    <3>8. InTime(c)'
      <4>1. Lag' = Lag /\ now - curTime <= Lag BY <1>1, <1>2 DEF Lag, Clocks, ClockFresh
      <4>2. now' - ping'[c] <= Patience + Lag' BY <1>1, <1>2, <3>3, <4>1
      <4>3. now' - ping'[c] <= Patience + Lag' + (IF Pending(c)' \/ Looking' THEN 1 ELSE 0)
        BY <1>1, <1>2, <4>1, <4>2
      <4>4. QED BY <4>3 DEF InTime
    <3>9. QED BY <3>7, <3>8 DEF InGoodTime
  <2>5. QED BY <2>3, <2>4
<1>7. \/ Goto(Timer, "delete") /\ UNCHANGED <<at, since>>
      \/ Leave(Timer) /\ curTime - ping[at[Timer]] <= Limit
  <2>1. at[Timer] \in Conns BY <1>1, <1>2, AtConn DEF FreePlaces
  <2>2. ping[at[Timer]] \in Nat BY <1>1, <2>1 DEF Types, ClientTypes
  <2>3. CASE curTime - ping[at[Timer]] > Limit BY <2>3 DEF CheckPing
  <2>4. CASE ~(curTime - ping[at[Timer]] > Limit)
    <3>1. Leave(Timer) BY <2>4 DEF CheckPing
    <3>2. QED BY <1>1, <2>2, <2>4, <3>1
  <2>5. QED BY <2>3, <2>4
<1>8. QED BY <1>5, <1>6, <1>7

(* A second passes only when the monitor has woken.                        *)
LEMMA KeptTick ==
  ASSUME Steady, NEW c \in clients, InGoodTime(c), Tick
  PROVE  InGoodTime(c)'
<1> USE Kinds, TimesTyped
<1>1. /\ Types /\ c \in Conns /\ InTime(c) /\ HasEntry(c)
      /\ now \in Nat /\ ping[c] \in Nat /\ absTime \in Nat
  BY DEF Steady, TimerInv, Types, ClientTypes, InGoodTime, ClockTypes
<1>2. /\ UNCHANGED <<queue, curTime, absTime, ping, seq, idleList, pc, at, since>>
      /\ now' = now + 1 /\ woken = TRUE /\ woken' = FALSE
  BY <1>1 DEF Tick, queueVars, connVars, thrVars, Prompt, Types, FlagTypes
<1>3. Lag = 0 /\ Lag' = 1 BY <1>2 DEF Lag
<1>4. Looking => Looking' BY <1>1, <1>2 DEF Looking
<1>5. Pending(c)' <=> Pending(c) BY <1>1, <1>2, PendingSame
<1>6. InTime(c)'
  <2>1. now - ping[c] <= Patience + (IF Pending(c) \/ Looking THEN 1 ELSE 0)
    BY <1>1, <1>3 DEF InTime
  <2>2. now' - ping'[c] <= Patience + Lag' + (IF Pending(c)' \/ Looking' THEN 1 ELSE 0)
    BY <1>1, <1>2, <1>3, <1>4, <1>5, <2>1
  <2>3. QED BY <2>2 DEF InTime
<1>7. HasEntry(c)'
  <2>1. Entering(c) => Entering(c)' BY <1>2 DEF Entering
  <2>2. ClosesAt(Timer, c) => ClosesAt(Timer, c)' BY <1>2 DEF ClosesAt
  <2>3. EntryBy(c, ping[c] + Patience) => EntryBy(c, ping[c] + Patience)'
    BY <1>2 DEF EntryBy, Patience, Limit
  <2>4. EntryBy(c, curTime + WaitTime) => EntryBy(c, curTime + WaitTime)'
    BY <1>2 DEF EntryBy
  <2>5. QED BY <1>1, <1>5, <2>1, <2>2, <2>3, <2>4 DEF HasEntry
<1>8. QED BY <1>6, <1>7 DEF InGoodTime

(* A step keeps a client in time that nobody was closing.                  *)
LEMMA StepGoodTime ==
  ASSUME Steady, ValueEarly, MaxBusy <= Patience, ~kickNow, NEW c \in clients,
         c \in clients', ~Closed(c), InGoodTime(c), Next
  PROVE  InGoodTime(c)'
BY KeptInsert, KeptOthers, KeptPoll, KeptReadClock, KeptOverTime, KeptUnlock, KeptCompare,
   KeptCheck, KeptTick, Steps
DEF MonitorStep

(* A client that is being accepted.                                        *)
LEMMA NewClient ==
  ASSUME Steady, NEW c \in clients', c \notin clients, Next
  PROVE  Kept(c)'
<1> USE Kinds, TimesTyped
<1>1. /\ Types /\ Types' /\ ThreadTypes /\ Main \in Threads /\ Worker \in Threads
      /\ now \in Nat /\ ping \in [Conns -> Nat]
  BY DEF Steady, TimerInv, Types, ClientTypes, ClockTypes
<1>2. Accept(c)
  <2>1. ~MonitorStep /\ ~Tick /\ ~Insert /\ ~PublishInserted
    BY <1>1, MonitorAlone, EnterAlone DEF Tick, connVars
  <2>2. ASSUME NEW t \in Threads, CloseStep(t) PROVE FALSE
    <3>1. CASE Retire(t) BY <3>1 DEF Retire
    <3>2. CASE ~Retire(t) BY <1>1, <2>2, <3>2, CloseAlone
    <3>3. QED BY <3>1, <3>2
  <2>3. PICK d \in Conns : Accept(d) \/ ClientGone(d) \/ CutOff(d) \/ HandlePing(d)
    BY <2>1, <2>2, Steps
  <2>4. Accept(d) BY <1>1, <2>3, ServeAlone
  <2>5. c = d BY <2>4 DEF Accept
  <2>6. QED BY <2>4, <2>5
<1>3. /\ Begin(Main, "insert", c) /\ ~Working(c) /\ ping' = [ping EXCEPT ![c] = now]
      /\ now' = now /\ c \in Conns
  BY <1>1, <1>2 DEF Accept, Types, ClientTypes
<1>4. /\ Others(Main) /\ at'[Main] = c /\ pc'[Main] = "insert" /\ ping'[c] = now
  BY <1>1, <1>3, Beginning
<1>5. at'[Worker] # c BY <1>1, <1>3, <1>4 DEF Others, Same, Working
<1>6. ~Closed(c)' BY <1>4, <1>5 DEF Closed, ClosesAt, Closes
<1>7. HasEntry(c)' BY <1>4 DEF HasEntry, Entering
<1>8. InTime(c)'
  <2>1. now' - ping'[c] <= Patience + Lag' + (IF Pending(c)' \/ Looking' THEN 1 ELSE 0)
    <3>1. Lag' \in 0..1 BY DEF Lag
    <3>2. QED BY <1>1, <1>3, <1>4, <3>1
  <2>2. QED BY <2>1 DEF InTime
<1>9. QED BY <1>6, <1>7, <1>8 DEF Kept

(* A step keeps the clients in time.                                       *)
LEMMA StepKept ==
  ASSUME Steady, ValueEarly, MaxBusy <= Patience, KeptAll, Next
  PROVE  KeptAll'
<1> USE Kinds, TimesTyped
<1>1. /\ Types /\ Types' /\ Stations /\ ThreadTypes /\ PingsPast
  BY DEF Steady, TimerInv, Types, Clocks
<1>2. kickNow' = kickNow BY <1>1, StepFlagTypes DEF Types
<1>3. SUFFICES ASSUME ~kickNow, NEW c \in clients' PROVE Kept(c)'
  BY <1>2 DEF KeptAll
<1>4. CASE c \notin clients BY <1>4, NewClient
<1>5. CASE c \in clients
  <2>1. Kept(c) /\ c \in Conns BY <1>1, <1>3, <1>5 DEF KeptAll, Types, ClientTypes
  <2>2. /\ ping'[c] >= ping[c] /\ ping[c] \in Nat /\ ping'[c] \in Nat /\ now \in Nat
    BY <1>1, <2>1, StepPings DEF Types, ClientTypes, ClockTypes
  <2>3. CASE Closed(c)
    <3>1. PICK t \in {Main, Worker} : ClosedBy(t, c) BY <2>1, <2>3 DEF Kept, ClosedInTime
    <3>2. ClosesAt(t, c) /\ since[t] - ping[c] <= Patience + 2 BY <3>1 DEF ClosedBy
    <3>3. at'[t] = c /\ pc'[t] \in Closes /\ since'[t] = since[t]
      BY <1>1, <2>1, <3>2, ClosersStay
    <3>4. since[t] \in Nat BY <1>1 DEF ThreadTypes
    <3>5. since'[t] - ping'[c] <= Patience + 2 BY <2>2, <3>2, <3>3, <3>4
    <3>6. QED BY <3>3, <3>5 DEF Kept, Closed, ClosedInTime, ClosedBy, ClosesAt
  <2>4. CASE ~Closed(c)
    <3>1. InGoodTime(c) BY <2>1, <2>4 DEF Kept, InGoodTime
    <3>2. InGoodTime(c)' BY <1>3, <1>5, <2>4, <3>1, StepGoodTime
    <3>3. CASE ~Closed(c)' BY <3>2, <3>3 DEF Kept, InGoodTime
    <3>4. CASE Closed(c)'
      <4>1. PICK t \in {Main, Worker} : at'[t] = c /\ pc'[t] \in Closes
        BY <3>4 DEF Closed, ClosesAt
      <4>2. since'[t] = now /\ ping' = ping
        BY <1>1, <2>1, <2>4, <4>1, NewCloser DEF Closed
      <4>3. now - ping[c] <= Patience + 2
        <5>1. now - ping[c] <= Patience + Lag + (IF Pending(c) \/ Looking THEN 1 ELSE 0)
          BY <3>1 DEF InGoodTime, InTime
        <5>2. QED BY <2>2, <5>1
      <4>4. since'[t] - ping'[c] <= Patience + 2 BY <4>2, <4>3
      <4>5. QED BY <4>1, <4>4, <3>4 DEF Kept, Closed, ClosedInTime, ClosedBy, ClosesAt
    <3>5. QED BY <3>3, <3>4
  <2>5. QED BY <2>3, <2>4
<1>6. QED BY <1>4, <1>5

-----------------------------------------------------------------------------
(* At the start there is no client and no entry, and the clock is at 0.    *)
LEMMA InitClocks ==
  ASSUME Init
  PROVE  Clocks /\ ValueEarly /\ Ages /\ KeptAll
<1>1. queue = <<>> /\ clients = {} /\ now = 0 /\ curTime = 0 /\ idleList = <<>>
  BY DEF Init
<1>2. pc[Main] = "idle" /\ pc[Timer] = "asleep" /\ \A t \in Threads : at[t] = Nobody
  BY Kinds DEF Init
<1>3. Len(queue) = 0 BY <1>1
<1>4. Prompts BY <1>2 DEF Prompts
<1>5. PingsPast BY DEF Init, PingsPast
<1>6. Entrant /\ ClockFresh /\ ListEmpty BY <1>1, <1>2 DEF Entrant, ClockFresh, ListEmpty
<1>7. ValueEarly /\ Ages BY <1>3 DEF ValueEarly, Ages
<1>8. KeptAll BY <1>1 DEF KeptAll
<1>9. QED BY <1>4, <1>5, <1>6, <1>7, <1>8 DEF Clocks

(* A step that changes nothing.                                            *)
LEMMA IdleClocks ==
  ASSUME UNCHANGED vars
  PROVE  /\ Clocks => Clocks'
         /\ ValueEarly => ValueEarly'
         /\ Ages => Ages'
         /\ KeptAll => KeptAll'
<1>1. /\ UNCHANGED <<kickNow, queue, value, clients, seq, ping, now, pc, at, since, futtime>>
      /\ UNCHANGED <<absTime, curTime, idleList, woken>>
  BY DEF vars, queueVars, connVars, thrVars, monVars
<1>2. Lag' = Lag /\ Looking' = Looking BY <1>1 DEF Lag, Looking
<1>3. Clocks => Clocks'
  BY <1>1, <1>2 DEF Clocks, Prompts, PingsPast, Entrant, ClockFresh, ListEmpty
<1>4. ValueEarly => ValueEarly' BY <1>1 DEF ValueEarly, Fresh
<1>5. Ages => Ages' BY <1>1, <1>2 DEF Ages, Late
<1>6. ASSUME NEW c PROVE Kept(c) => Kept(c)'
  <2>1. Pending(c)' = Pending(c) BY <1>1 DEF Pending, InList, Held
  <2>2. InTime(c) => InTime(c)' BY <1>1, <1>2, <2>1 DEF InTime, Patience, Limit
  <2>3. HasEntry(c) => HasEntry(c)'
    <3>1. Entering(c) => Entering(c)' BY <1>1 DEF Entering
    <3>2. ClosesAt(Timer, c) => ClosesAt(Timer, c)' BY <1>1 DEF ClosesAt
    <3>3. EntryBy(c, curTime + WaitTime) => EntryBy(c, curTime + WaitTime)'
      BY <1>1 DEF EntryBy
    <3>4. EntryBy(c, ping[c] + Patience) => EntryBy(c, ping[c] + Patience)'
      BY <1>1 DEF EntryBy, Patience, Limit
    <3>5. QED BY <2>1, <3>1, <3>2, <3>3, <3>4 DEF HasEntry
  <2>4. Closed(c)' <=> Closed(c) BY <1>1 DEF Closed, ClosesAt
  <2>5. ClosedInTime(c) => ClosedInTime(c)'
    BY <1>1 DEF ClosedInTime, ClosedBy, ClosesAt, Patience, Limit
  <2>6. QED BY <2>2, <2>3, <2>4, <2>5 DEF Kept
<1>7. KeptAll => KeptAll' BY <1>1, <1>6 DEF KeptAll
<1>8. QED BY <1>3, <1>4, <1>5, <1>7

(* No entry comes due for long before the monitor has found it due: what   *)
(* it reads without the lock is never later than the earliest key, but for *)
(* the entry that is just being put in.                                    *)
Dues == Clocks /\ ValueEarly /\ Ages
(* The monitor finds entries due when they are: for any times.             *)
THEOREM EntriesComeDue == Spec => []Dues
<1>1. Init => Dues BY InitClocks DEF Dues
<1>2. ASSUME TimerInv, TimerInv', Dues, [Next]_vars PROVE Dues'
  <2>1. CASE Next
    <3>1. /\ Types /\ Types' /\ Stations /\ Stations' /\ Gate /\ Gate' /\ curTime <= now
          /\ Clocks /\ ValueEarly /\ Ages
      BY <1>2 DEF TimerInv, Silence, Dues
    <3>2. Clocks' BY <2>1, <3>1, StepClocks
    <3>3. ValueEarly' BY <2>1, <3>1, StepValue
    <3>4. Ages' BY <2>1, <3>1, StepAges
    <3>5. QED BY <3>2, <3>3, <3>4 DEF Dues
  <2>2. CASE UNCHANGED vars BY <1>2, <2>2, IdleClocks DEF Dues
  <2>3. QED BY <1>2, <2>1, <2>2
<1>3. QED BY <1>1, <1>2, TimerInvariant, PTL DEF Spec

(* A client that is silent is cut off in bounded time, provided that no    *)
(* handler takes longer than a client may be silent.                       *)
THEOREM TheSilentGoInTime ==
  ASSUME MaxBusy <= Limit + WaitTime
  PROVE  Spec => []SilentGoInTime
<1>1. MaxBusy <= Patience BY DEF Patience
<1>2. Init => KeptAll BY InitClocks
<1>3. ASSUME TimerInv, TimerInv', Dues, KeptAll, [Next]_vars PROVE KeptAll'
  <2>1. CASE Next
    <3>1. Steady /\ ValueEarly BY <1>3 DEF Steady, Dues
    <3>2. QED BY <1>1, <1>3, <2>1, <3>1, StepKept
  <2>2. CASE UNCHANGED vars BY <1>3, <2>2, IdleClocks
  <2>3. QED BY <1>3, <2>1, <2>2
<1>4. ASSUME TimerInv, Dues, KeptAll PROVE SilentGoInTime
  <2>1. /\ Types /\ Slack = 2 + MaxBusy /\ MaxBusy \in Nat /\ Patience \in Nat
        /\ Lag \in 0..1 /\ Patience = Limit + WaitTime
    BY <1>4, TimesTyped DEF TimerInv, Slack
  <2>2. /\ now \in Nat /\ queue \in Seq(Entries)
        /\ \A c \in clients : c \in Conns /\ ping[c] \in Nat
    BY <2>1 DEF Types, ClockTypes, QueueTypes, ClientTypes
  <2>3. ASSUME NEW i \in 1..Len(queue) PROVE now - queue[i].key <= Slack
    <3>1. now - queue[i].key <= MaxBusy + Late BY <1>4 DEF Dues, Ages
    <3>2. Late <= 2 /\ Late \in Nat BY <2>1 DEF Late
    <3>3. queue[i].key \in Nat BY <2>2, Fields
    <3>4. QED BY <2>1, <2>2, <3>1, <3>2, <3>3
  <2>4. ASSUME ~kickNow, NEW c \in clients PROVE now - ping[c] <= Limit + WaitTime + Slack
    <3>1. CASE Closed(c)
      <4>1. PICK t \in {Main, Worker} : ClosedBy(t, c)
        BY <1>4, <2>4, <3>1 DEF KeptAll, Kept, ClosedInTime
      <4>2. at[t] # Nobody /\ t \in Threads /\ since[t] - ping[c] <= Patience + 2
        BY <2>2, <4>1, Kinds DEF ClosedBy, ClosesAt
      <4>3. now - since[t] <= MaxBusy /\ since[t] \in Nat
        BY <1>4, <2>1, <4>2 DEF Dues, Clocks, Prompts, Types, ThreadTypes
      <4>4. now \in Nat /\ ping[c] \in Nat BY <2>2, <2>4
      <4>5. now - ping[c] <= MaxBusy + (Patience + 2) BY <2>1, <4>2, <4>3, <4>4
      <4>6. Limit + WaitTime + Slack = MaxBusy + (Patience + 2)
        BY <2>1, TimesTyped
      <4>7. QED BY <4>5, <4>6
    <3>2. CASE ~Closed(c)
      <4>1. now - ping[c] <= Patience + Lag + (IF Pending(c) \/ Looking THEN 1 ELSE 0)
        BY <1>4, <2>4, <3>2 DEF KeptAll, Kept, InTime
      <4>2. (IF Pending(c) \/ Looking THEN 1 ELSE 0) \in 0..1 OBVIOUS
      <4>3. now - ping[c] <= Patience + 2 BY SMTT(30), <2>1, <2>2, <4>1, <4>2
      <4>4. QED BY <2>1, <2>2, <4>3
    <3>3. QED BY <3>1, <3>2
  <2>5. QED BY <2>3, <2>4 DEF SilentGoInTime
<1>5. QED BY <1>2, <1>3, <1>4, TimerInvariant, EntriesComeDue, PTL DEF Spec
=============================================================================
