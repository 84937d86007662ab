-------------------------- MODULE WorkerLocksProofs --------------------------
(***************************************************************************)
(* That the threads of a worker, however many there are, never wait for    *)
(* one another in a circle.  The locks have an order in which every thread *)
(* takes them: a connection's logicPorcMutex, the send queue's, the timer  *)
(* queue's or the recycling list's (one after the other), the free list's; *)
(* that of the pool is taken by a thread that holds no other.              *)
(***************************************************************************)
EXTENDS WorkerLocks, TLAPS

USE DEF Runners, Solo, Locks, Shared

(* One thread gets to a place of its own; no lock changes hands but what   *)
(* the two places say of it.                                               *)
LEMMA OneMoves ==
  ASSUME LocksPaired, NEW t \in Runners, NEW p, NEW s,
         place' = [place EXCEPT ![t] = p], PlaceOf(t, p),
         t \in Pool => /\ serves' = [serves EXCEPT ![t] = s]
                       /\ s \in Conns \cup {Unowned}
                       /\ s = Unowned <=> p \in ServesNone,
         t \notin Pool => serves' = serves,
         owner' \in [Locks -> Runners \cup {Unowned}],
         \A l \in Locks : owner'[l] = t <=> HeldAt(t, p, s, l),
         \A l \in Locks, u \in Runners \ {t} : owner'[l] = u <=> owner[l] = u
  PROVE  LocksPaired'
<1>1. \A u \in Runners : place'[u] = (IF u = t THEN p ELSE place[u])
  BY DEF LocksPaired
<1>2. \A u \in Pool : serves'[u] = (IF u = t THEN s ELSE serves[u])
  BY DEF LocksPaired
<1>3. \A u \in Runners : PlaceOf(u, place'[u])
  BY <1>1 DEF LocksPaired
<1>4. DOMAIN place' = Runners /\ serves' \in [Pool -> Conns \cup {Unowned}]
  BY DEF LocksPaired
<1>5. \A u \in Pool : serves'[u] = Unowned <=> place'[u] \in ServesNone
  BY <1>1, <1>2 DEF LocksPaired
<1>6. ASSUME NEW l \in Locks, NEW u \in Runners
      PROVE  owner'[l] = u <=> HeldAt(u, place'[u], serves'[u], l)
  <2>1. CASE u = t
    BY <2>1, <1>1, <1>2 DEF HeldAt
  <2>2. CASE u # t
    <3>1. owner'[l] = u <=> HeldAt(u, place[u], serves[u], l)
      BY <2>2 DEF LocksPaired
    <3> QED BY <2>2, <3>1, <1>1, <1>2 DEF HeldAt
  <2> QED BY <2>1, <2>2
<1> QED BY <1>3, <1>4, <1>5, <1>6 DEF LocksPaired

-----------------------------------------------------------------------------
(* The three kinds of steps.                                               *)
LEMMA StepKeeps ==
  ASSUME LocksPaired, NEW t \in Runners, NEW from, NEW p,
         Go(t, from, p), PlaceOf(t, p),
         t \in Pool => (p \in ServesNone <=> place[t] \in ServesNone),
         \A l \in Locks : HeldAt(t, p, serves[t], l) <=> HeldAt(t, place[t], serves[t], l)
  PROVE  LocksPaired'
<1>1. t \in Pool => serves' = [serves EXCEPT ![t] = serves[t]]
  BY DEF Go, LocksPaired
<1>2. t \in Pool => serves[t] \in Conns \cup {Unowned} /\ (serves[t] = Unowned <=> p \in ServesNone)
  BY DEF LocksPaired
<1>3. \A l \in Locks : owner[l] = t <=> HeldAt(t, place[t], serves[t], l)
  BY DEF LocksPaired
<1>4. owner' \in [Locks -> Runners \cup {Unowned}] /\ owner' = owner
  BY DEF Go, LocksPaired
<1> QED BY <1>1, <1>2, <1>3, <1>4, OneMoves DEF Go

(* A lock that is taken is held by who is at a place that holds it.        *)
LEMMA LockKeeps ==
  ASSUME LocksPaired, NEW t \in Runners, NEW from, NEW p,
         TakeLock(t, from, p), PlaceOf(t, p),
         t \in Pool => (p \in ServesNone <=> place[t] \in ServesNone),
         \A l \in Locks : HeldAt(t, p, serves[t], l)
                           <=> HeldAt(t, place[t], serves[t], l) \/ WaitsFor(t, l)
  PROVE  LocksPaired'
<1>1. PICK k \in Locks : /\ WaitsFor(t, k) /\ owner[k] = Unowned
                         /\ owner' = [owner EXCEPT ![k] = t]
  BY DEF TakeLock
<1>2. \A l \in Locks : WaitsFor(t, l) => l = k
  BY <1>1, ThreadsApart DEF WaitsFor, LocksPaired
<1>3. t \in Pool => serves' = [serves EXCEPT ![t] = serves[t]]
  BY DEF TakeLock, LocksPaired
<1>4. t \in Pool => serves[t] \in Conns \cup {Unowned} /\ (serves[t] = Unowned <=> p \in ServesNone)
  BY DEF LocksPaired
<1>5. \A l \in Locks : owner[l] = t <=> HeldAt(t, place[t], serves[t], l)
  BY DEF LocksPaired
<1>6. /\ owner' \in [Locks -> Runners \cup {Unowned}]
      /\ \A l \in Locks : owner'[l] = (IF l = k THEN t ELSE owner[l])
  BY <1>1 DEF LocksPaired
<1>7. \A l \in Locks : owner'[l] = t <=> HeldAt(t, p, serves[t], l)
  BY <1>1, <1>2, <1>5, <1>6
<1>8. \A l \in Locks, u \in Runners \ {t} : owner'[l] = u <=> owner[l] = u
  BY <1>1, <1>6, ThreadsApart
<1> QED BY <1>3, <1>4, <1>6, <1>7, <1>8, OneMoves DEF TakeLock

(* A step that gives back lock k; the thread serves s from then on.        *)
LEMMA ReleaseKeeps ==
  ASSUME LocksPaired, NEW t \in Runners, NEW p, NEW k \in Locks, NEW s \in Conns \cup {Unowned},
         place' = [place EXCEPT ![t] = p], owner' = [owner EXCEPT ![k] = Unowned],
         IF t \in Pool THEN serves' = [serves EXCEPT ![t] = s] ELSE serves' = serves,
         t \in Pool => (s = Unowned <=> p \in ServesNone),
         PlaceOf(t, p), HeldAt(t, place[t], serves[t], k),
         \A l \in Locks : HeldAt(t, p, s, l)
                           <=> HeldAt(t, place[t], serves[t], l) /\ l # k
  PROVE  LocksPaired'
<1>1. \A l \in Locks : owner[l] = t <=> HeldAt(t, place[t], serves[t], l)
  BY DEF LocksPaired
<1>2. /\ owner' \in [Locks -> Runners \cup {Unowned}]
      /\ \A l \in Locks : owner'[l] = (IF l = k THEN Unowned ELSE owner[l])
  BY DEF LocksPaired
<1>3. \A l \in Locks : owner'[l] = t <=> HeldAt(t, p, s, l)
  BY <1>1, <1>2, ThreadsApart
<1>4. \A l \in Locks, u \in Runners \ {t} : owner'[l] = u <=> owner[l] = u
  BY <1>1, <1>2, ThreadsApart
<1> QED BY <1>2, <1>3, <1>4, OneMoves

(* A lock that is dropped is free, and its owner at a place without it.    *)
LEMMA UnlockKeeps ==
  ASSUME LocksPaired, NEW t \in Runners, NEW from, NEW p,
         NEW k \in Locks, DropLock(t, from, k, p),
         t \in Pool => (p \in ServesNone <=> place[t] \in ServesNone),
         PlaceOf(t, p), HeldAt(t, place[t], serves[t], k),
         \A l \in Locks : HeldAt(t, p, serves[t], l)
                           <=> HeldAt(t, place[t], serves[t], l) /\ l # k
  PROVE  LocksPaired'
<1>1. CASE t \in Pool
  <2>1. /\ serves' = [serves EXCEPT ![t] = serves[t]] /\ serves[t] \in Conns \cup {Unowned}
        /\ serves[t] = Unowned <=> p \in ServesNone
    BY <1>1 DEF LocksPaired, DropLock
  <2> QED BY <1>1, <2>1, ReleaseKeeps DEF DropLock
<1>2. CASE t \notin Pool
  <2>1. \A l \in Locks : HeldAt(t, p, Unowned, l) <=> HeldAt(t, p, serves[t], l)
    BY <1>2 DEF HeldAt
  <2> QED BY <1>2, <2>1, ReleaseKeeps DEF DropLock
<1> QED BY <1>1, <1>2

-----------------------------------------------------------------------------
(* Each thread.                                                            *)
LEMMA LocksInitPaired ==
  ASSUME LocksInit PROVE LocksPaired
BY ThreadsApart DEF LocksInit, LocksPaired, PlaceOf, HeldAt, ServesNone, Closing

(* A thread that serves has a client, whose lock is no shared one.         *)
LEMMA ServedClient ==
  ASSUME LocksPaired, NEW t \in Pool, place[t] \notin ServesNone
  PROVE  serves[t] \in Conns /\ serves[t] \notin Shared /\ serves[t] # Unowned
BY ThreadsApart DEF LocksPaired

(* Closing a connection takes and drops its locks in pairs.                *)
LEMMA ClosingKeeps ==
  ASSUME LocksPaired, NEW t \in Runners, ClosingSteps(t)
  PROVE  LocksPaired'
<1> USE ThreadsApart DEF PlaceOf, HeldAt, ServesNone, Closing
<1>1. place[t] \in Closing => t \in Pool \cup {Epoll, Timer}
  BY DEF LocksPaired
<1>2. t \in Pool /\ place[t] \in Closing => serves[t] \notin Shared
  BY ServedClient
<1>3. ASSUME TakeLock(t, "delete", "deleted") PROVE LocksPaired'
  BY ZenonT(40), <1>1, <1>3, LockKeeps DEF TakeLock, WaitsFor
<1>4. ASSUME TakeLock(t, "retire", "retired") PROVE LocksPaired'
  BY ZenonT(40), <1>1, <1>4, LockKeeps DEF TakeLock, WaitsFor
<1>5. ASSUME DropLock(t, "deleted", "time", "retire") PROVE LocksPaired'
  BY <1>1, <1>2, <1>5, UnlockKeeps DEF DropLock
<1>6. ASSUME DropLock(t, "retired", "recy", GoesOnAt(t)) PROVE LocksPaired'
  <2>1. \/ t \in Pool /\ GoesOnAt(t) = "sent"
        \/ t = Timer /\ t \notin Pool /\ GoesOnAt(t) = "kicks"
        \/ t = Epoll /\ t \notin Pool /\ GoesOnAt(t) = "idle"
    BY <1>1, <1>6 DEF DropLock, GoesOnAt
  <2>2. HeldAt(t, place[t], serves[t], "recy") /\ place[t] = "retired"
    BY <1>6 DEF DropLock
  <2>3. \A l \in Locks : HeldAt(t, GoesOnAt(t), serves[t], l)
                           <=> HeldAt(t, place[t], serves[t], l) /\ l # "recy"
    BY <1>2, <2>1, <2>2
  <2>4. /\ PlaceOf(t, GoesOnAt(t))
        /\ t \in Pool => GoesOnAt(t) \notin ServesNone /\ place[t] \notin ServesNone
    BY <2>1, <2>2
  <2>5. "recy" \in Locks
    OBVIOUS
  <2> HIDE DEF PlaceOf, HeldAt, ServesNone, Locks
  <2> QED BY <1>6, <2>2, <2>3, <2>4, <2>5, UnlockKeeps
<1> QED BY <1>3, <1>4, <1>5, <1>6 DEF ClosingSteps

(* So does the epoll thread.                                               *)
LEMMA EpollKeeps ==
  ASSUME LocksPaired, EpollStep PROVE LocksPaired'
<1> USE ThreadsApart DEF PlaceOf, HeldAt, ServesNone, Closing
<1> DEFINE t == Epoll
<1>1. ASSUME NEW b \in {"get", "push", "delete", "retire"}, Go(t, {"idle"}, b)
      PROVE  LocksPaired'
  BY <1>1, StepKeeps DEF Go
<1>2. ASSUME \/ TakeLock(t, "get", "got") \/ TakeLock(t, "refuse", "refused")
             \/ TakeLock(t, "watch", "watched") \/ TakeLock(t, "push", "pushed")
      PROVE  LocksPaired'
  BY <1>2, LockKeeps DEF TakeLock, WaitsFor
<1>3. ASSUME NEW n \in {"refuse", "watch", "idle"}, DropLock(t, "got", "conn", n)
      PROVE  LocksPaired'
  BY <1>3, UnlockKeeps DEF DropLock
<1>4. ASSUME \/ DropLock(t, "refused", "conn", "idle") \/ DropLock(t, "watched", "time", "idle")
             \/ DropLock(t, "pushed", "pool", "idle")
      PROVE  LocksPaired'
  BY <1>4, UnlockKeeps DEF DropLock
<1> QED BY <1>1, <1>2, <1>3, <1>4 DEF EpollStep, CloseCall

(* So do the monitor, the recycler and the sender.                         *)
LEMMA SoloKeeps ==
  ASSUME LocksPaired, TimerStep \/ RecyclerStep \/ SenderStep PROVE LocksPaired'
<1> USE ThreadsApart DEF PlaceOf, HeldAt, ServesNone, Closing
<1>1. ASSUME \/ Go(Timer, {"idle"}, "scan") \/ Go(Timer, {"kicks"}, "idle")
             \/ Go(Timer, {"kicks"}, "delete") \/ Go(Timer, {"kicks"}, "retire")
      PROVE  LocksPaired'
  BY <1>1, StepKeeps DEF Go
<1>2. ASSUME \/ Go(Recycler, {"idle"}, "sweep") \/ Go(Recycler, {"swept"}, "giveback")
             \/ Go(Sender, {"idle"}, "pass")
      PROVE  LocksPaired'
  BY <1>2, StepKeeps DEF Go
<1>3. ASSUME \/ TakeLock(Timer, "scan", "scanned") \/ TakeLock(Recycler, "sweep", "swept")
             \/ TakeLock(Recycler, "giveback", "gaveback") \/ TakeLock(Sender, "pass", "passed")
      PROVE  LocksPaired'
  BY <1>3, LockKeeps DEF TakeLock, WaitsFor
<1>4. ASSUME DropLock(Timer, "scanned", "time", "kicks") \/ DropLock(Sender, "passed", "send", "idle")
      PROVE  LocksPaired'
  BY <1>4, UnlockKeeps DEF DropLock
<1>5. ASSUME \/ DropLock(Recycler, "gaveback", "conn", "swept")
             \/ DropLock(Recycler, "swept", "recy", "idle")
      PROVE  LocksPaired'
  BY <1>5, UnlockKeeps DEF DropLock
<1> QED BY <1>1, <1>2, <1>3, <1>4, <1>5 DEF TimerStep, RecyclerStep, SenderStep, CloseCall

(* So do the threads of the pool.                                          *)
LEMMA PoolKeeps ==
  ASSUME LocksPaired, NEW t \in Pool, PoolStep(t) PROVE LocksPaired'
<1> USE ThreadsApart DEF PlaceOf, HeldAt, ServesNone, Closing
<1>0. place[t] \notin ServesNone => serves[t] \in Conns /\ serves[t] \notin Shared
  BY ServedClient
<1>1. ASSUME \/ Go(t, {"idle", "blocked"}, "take") \/ Go(t, {"serving"}, "answer")
             \/ Go(t, {"answered"}, "delete") \/ Go(t, {"answered"}, "retire")
      PROVE  LocksPaired'
  BY <1>1, StepKeeps DEF Go
<1>2. ASSUME \/ TakeLock(t, "take", "taken") \/ TakeLock(t, "serve", "serving")
             \/ TakeLock(t, "answer", "answered")
      PROVE  LocksPaired'
  BY <1>0, <1>2, LockKeeps DEF TakeLock, WaitsFor
<1>3. ASSUME DropLock(t, "taken", "pool", "blocked") \/ DropLock(t, "taken", "pool", "idle")
      PROVE  LocksPaired'
  BY <1>0, <1>3, UnlockKeeps DEF DropLock
<1>4. ASSUME NEW f \in {"answered", "sent"}, DropLock(t, f, "send", "served")
      PROVE  LocksPaired'
  BY <1>0, <1>4, UnlockKeeps DEF DropLock
<1>5. ASSUME NEW c \in Conns, place[t] = "taken", place' = [place EXCEPT ![t] = "serve"],
             owner' = [owner EXCEPT !["pool"] = Unowned], serves' = [serves EXCEPT ![t] = c]
      PROVE  LocksPaired'
  <2> DEFINE P(s) == serves' = [serves EXCEPT ![t] = s] => LocksPaired'
  <2>1. c # Unowned
    OBVIOUS
  <2>2. serves[t] = Unowned
    BY <1>5 DEF LocksPaired
  <2>3. ASSUME NEW s \in Conns \cup {Unowned}, s # Unowned
        PROVE  P(s)
    BY <1>5, <2>2, <2>3, ReleaseKeeps
  <2> QED BY <1>5, <2>1, <2>3
<1>6. ASSUME place[t] \in {"serving", "served"}, place' = [place EXCEPT ![t] = "idle"],
             owner' = [owner EXCEPT ![serves[t]] = Unowned],
             serves' = [serves EXCEPT ![t] = Unowned]
      PROVE  LocksPaired'
  <2>1. serves[t] \in Conns /\ serves[t] \in Locks
    BY <1>0, <1>6
  <2>0. place[t] \in {"serving", "served"}
    BY <1>6
  <2>2. PlaceOf(t, "idle")
    OBVIOUS
  <2>7. HeldAt(t, place[t], serves[t], serves[t])
    BY <2>0
  <2>3. \A l \in Locks : HeldAt(t, "idle", Unowned, l)
                           <=> HeldAt(t, place[t], serves[t], l) /\ l # serves[t]
    BY <1>0, <1>6
  <2>4. "idle" \in ServesNone
    OBVIOUS
  <2> HIDE DEF PlaceOf, HeldAt, ServesNone, Locks
  <2>5. Unowned \in Conns \cup {Unowned} /\ t \in Runners
    OBVIOUS
  <2> HIDE DEF Runners, Shared
  <2> QED BY <1>6, <2>1, <2>2, <2>3, <2>4, <2>5, <2>7, ReleaseKeeps
<1> QED BY <1>1, <1>2, <1>3, <1>4, <1>5, <1>6 DEF PoolStep, CloseCall

(* Every step keeps the locks in pairs.                                    *)
LEMMA NextPaired ==
  ASSUME LocksPaired, [LocksNext]_lockVars PROVE LocksPaired'
<1>1. CASE LocksNext
  BY <1>1, ClosingKeeps, EpollKeeps, SoloKeeps, PoolKeeps DEF LocksNext
<1>2. CASE UNCHANGED lockVars
  BY <1>2 DEF lockVars, LocksPaired, PlaceOf, HeldAt
<1> QED BY <1>1, <1>2

(* In every worker, with any number of pool threads and connections, the   *)
(* locks and unlocks of all ways through the functions are paired.         *)
THEOREM Paired == LocksSpec => []LocksPaired
<1>1. LocksInit => LocksPaired
  BY LocksInitPaired
<1>2. LocksPaired /\ [LocksNext]_lockVars => LocksPaired'
  BY NextPaired
<1> QED BY <1>1, <1>2, PTL DEF LocksSpec

-----------------------------------------------------------------------------
(* The order of the locks.                                                 *)
Rank(l) ==
  IF l \in Conns THEN 1 ELSE IF l = "send" THEN 2
  ELSE IF l \in {"time", "recy"} THEN 3 ELSE IF l = "conn" THEN 4 ELSE 5

(* Who waits for a lock holds only those of a lower rank.                  *)
LEMMA RankRises ==
  ASSUME LocksPaired, NEW t \in Runners, NEW l \in Locks, WaitsFor(t, l),
         NEW k \in Locks, owner[k] = t
  PROVE  Rank(k) < Rank(l)
<1> USE ThreadsApart
<1>1. HeldAt(t, place[t], serves[t], k) /\ PlaceOf(t, place[t])
  BY DEF LocksPaired
<1>2. CASE t \notin Pool
  BY <1>1, <1>2 DEF HeldAt, PlaceOf, WaitsFor, Closing, ServesNone, Rank
<1>3. CASE t \in Pool
  <2>1. place[t] \in {"answer", "delete", "retire"} => serves[t] \in Conns
    BY <1>3, ServedClient DEF ServesNone
  <2> QED BY <1>1, <1>3, <2>1 DEF HeldAt, PlaceOf, WaitsFor, Closing, ServesNone, Rank
<1> QED BY <1>2, <1>3

(* So there is no circle: who waits for the highest rank is last.          *)
LEMMA PairedNoCircle ==
  ASSUME LocksPaired PROVE NoCircularWait
<1> SUFFICES ASSUME NEW S \in SUBSET {t \in Runners : \E l \in Locks : WaitsFor(t, l)},
                    \A t \in S : \E l \in Locks : WaitsFor(t, l) /\ owner[l] \in S
             PROVE  S = {}
  BY DEF NoCircularWait
<1> DEFINE WaitsAt(r) == \E t \in S, l \in Locks : WaitsFor(t, l) /\ owner[l] \in S /\ Rank(l) = r
<1>1. \A l \in Locks : Rank(l) \in 1..5
  BY DEF Rank
<1>2. ASSUME NEW r \in 1..5, WaitsAt(r)
      PROVE  \E q \in 1..5 : r < q /\ WaitsAt(q)
  <2>1. PICK t \in S, l \in Locks : WaitsFor(t, l) /\ owner[l] \in S /\ Rank(l) = r
    BY <1>2
  <2>2. PICK k \in Locks : WaitsFor(owner[l], k) /\ owner[k] \in S
    BY <2>1
  <2>3. r < Rank(k)
    BY <2>1, <2>2, RankRises
  <2> QED BY <1>1, <2>1, <2>2, <2>3
<1> HIDE DEF WaitsAt
<1>3. ~WaitsAt(5) BY <1>2
<1>4. ~WaitsAt(4) BY <1>2, <1>3
<1>5. ~WaitsAt(3) BY <1>2, <1>3, <1>4
<1>6. ~WaitsAt(2) BY <1>2, <1>3, <1>4, <1>5
<1>7. ~WaitsAt(1) BY <1>2, <1>3, <1>4, <1>5, <1>6
<1>8. \A r \in 1..5 : ~WaitsAt(r) BY <1>3, <1>4, <1>5, <1>6, <1>7
<1> QED BY <1>1, <1>8 DEF WaitsAt

(* The threads of a worker never wait in a circle: msgSend() may close a   *)
(* connection under two locks, as no thread with one of those that closing *)
(* takes waits for either of the two.                                      *)
THEOREM Deadlockless == LocksSpec => []NoCircularWait
BY Paired, PairedNoCircle, PTL
=============================================================================
