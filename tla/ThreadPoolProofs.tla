-------------------------- MODULE ThreadPoolProofs --------------------------
(***************************************************************************)
(* The thread pool for every number of threads and messages: the mutex is  *)
(* taken and released in pairs, no message is left beside a sleeping       *)
(* thread, and every step of the pool is a step of a JobQueue.             *)
(***************************************************************************)
EXTENDS ThreadPool, FiniteSetTheorems, TLAPS

(* A thread about to wait has seen an empty queue and holds the mutex.     *)
Sighted == \A t \in Threads : pc[t] = "wait" => queue = <<>>

(* The messages in the queue are the latest ones, in their order; those    *)
(* being worked on are older, different from each other, and not done yet. *)
InOrder ==
  /\ Len(queue) <= sent
  /\ \A i \in 1..Len(queue) : queue[i] = sent - Len(queue) + i
  /\ \A t \in At({"work"}) : job[t] <= sent - Len(queue)
  /\ \A t, u \in At({"work"}) : job[t] = job[u] => t = u
  /\ \A t \in Threads : pc[t] = "work" <=> job[t] # 0
  /\ \A t \in At({"work"}) : job[t] \notin done
  /\ \A m \in done : m <= sent - Len(queue)

(* Main hands over nothing before Create() has returned.                   *)
Phases == main = "create" => sent = 0 /\ queue = <<>> /\ At({"work"}) = {}

PoolInv == /\ TypeOK /\ NeverTakesFromEmpty /\ NoneLeftBehind
           /\ Sighted /\ InOrder /\ Phases

-----------------------------------------------------------------------------
(* At the start the queue is empty and no thread has a job.                *)
LEMMA InitPoolInv ==
  ASSUME Init PROVE PoolInv
<1> USE ThreadsAssumption DEF Init
<1>1. TypeOK
  <2>1. \A t \in Threads : mutex = t <=> pc[t] \in InLoop BY DEF InLoop
  <2>2. queue \in Seq(Nat) /\ done \in SUBSET Nat BY DEF Init
  <2>3. QED BY <2>1, <2>2 DEF TypeOK
<1>2. NeverTakesFromEmpty /\ Sighted BY DEF NeverTakesFromEmpty, Sighted
<1>3. Blocked = {} /\ At({"work"}) = {} BY DEF Blocked, At
<1>4. NoneLeftBehind BY <1>3 DEF NoneLeftBehind
<1>5. InOrder BY <1>3 DEF InOrder
<1>6. Phases BY <1>3 DEF Phases
<1>7. QED BY <1>1, <1>2, <1>4, <1>5, <1>6 DEF PoolInv

(* One thread moves: the sets of threads that count.                       *)
LEMMA OneMoves ==
  ASSUME TypeOK, NEW t \in Threads, NEW p, Goto(t, p)
  PROVE  /\ \A u \in Threads : pc'[u] = IF u = t THEN p ELSE pc[u]
         /\ pc'[t] = p
BY DEF TypeOK, Goto

(* The threads awake, and the queue, are finite.                           *)
LEMMA Cards ==
  ASSUME TypeOK
  PROVE  /\ IsFiniteSet(Awake) /\ Cardinality(Awake) \in Nat
         /\ Len(queue) \in Nat
<1>1. Awake \subseteq Threads BY DEF Awake, At
<1>2. IsFiniteSet(Awake) BY <1>1, ThreadsAssumption, FS_Subset
<1>3. QED BY <1>2, FS_CardinalityType DEF TypeOK

-----------------------------------------------------------------------------
(* Types and the mutex.                                                    *)
LEMMA StepTypeOK ==
  ASSUME PoolInv, [Next]_vars PROVE TypeOK'
<1> USE ThreadsAssumption DEF PoolInv, InLoop
<1>1. ASSUME NEW t \in Threads, CreateThread(t) PROVE TypeOK'
  BY <1>1 DEF CreateThread, Goto, TypeOK
<1>2. CASE CreateFails
  BY <1>2 DEF CreateFails, TypeOK
<1>3. CASE CreateReturns
  BY <1>3 DEF CreateReturns, TypeOK
<1>4. CASE Push
  BY <1>4 DEF Push, TypeOK
<1>5. CASE Signal
  <2>1. CASE Blocked = {} BY <1>5, <2>1 DEF Signal, TypeOK
  <2>2. ASSUME NEW t \in Blocked, Goto(t, "relock"),
               main' = "run" /\ UNCHANGED <<mutex, queue, shutdown, ifrunning, job, sent, done>>
        PROVE  TypeOK'
    BY <2>2 DEF Blocked, At, Goto, TypeOK
  <2>3. QED BY <1>5, <2>1, <2>2 DEF Signal
<1>6. CASE SetShutdown
  BY <1>6 DEF SetShutdown, TypeOK
<1>7. CASE Broadcast
  BY <1>7 DEF Broadcast, Blocked, At, TypeOK
<1>8. CASE Join
  BY <1>8 DEF Join, TypeOK
<1>9. ASSUME NEW t \in Threads, Lock(t) PROVE TypeOK'
  BY <1>9 DEF Lock, Goto, TypeOK
<1>10. ASSUME NEW t \in Threads, FindNothing(t) PROVE TypeOK'
  BY <1>10 DEF FindNothing, Goto, TypeOK
<1>11. ASSUME NEW t \in Threads, LeaveLoop(t) PROVE TypeOK'
  BY <1>11 DEF LeaveLoop, Goto, TypeOK
<1>12. ASSUME NEW t \in Threads, Wait(t) PROVE TypeOK'
  BY <1>12 DEF Wait, Goto, TypeOK
<1>13. ASSUME NEW t \in Threads, WakeSpuriously(t) PROVE TypeOK'
  BY <1>13 DEF WakeSpuriously, Goto, TypeOK
<1>14. ASSUME NEW t \in Threads, Exit(t) PROVE TypeOK'
  BY <1>14 DEF Exit, Goto, TypeOK
<1>15. ASSUME NEW t \in Threads, Take(t) PROVE TypeOK'
  <2>1. queue \in Seq(Nat) /\ queue # <<>>
    BY <1>15 DEF Take, TypeOK, NeverTakesFromEmpty
  <2>2. Head(queue) \in Nat /\ Tail(queue) \in Seq(Nat) BY <2>1
  <2>3. QED BY <1>15, <2>2 DEF Take, Goto, TypeOK
<1>16. ASSUME NEW t \in Threads, Finish(t) PROVE TypeOK'
  <2>1. done' \in SUBSET Nat /\ job' \in [Threads -> Nat]
    BY <1>16 DEF Finish, TypeOK
  <2>2. QED BY <1>16, <2>1 DEF Finish, Goto, TypeOK
<1>17. CASE UNCHANGED vars
  BY <1>17 DEF vars, TypeOK
<1>18. QED
  BY <1>1, <1>2, <1>3, <1>4, <1>5, <1>6, <1>7, <1>8, <1>9, <1>10, <1>11, <1>12,
     <1>13, <1>14, <1>15, <1>16, <1>17 DEF Next, MainNext, Step

(* What a thread knows of the queue while it holds the mutex.              *)
LEMMA StepSighted ==
  ASSUME PoolInv, [Next]_vars PROVE NeverTakesFromEmpty' /\ Sighted'
<1> USE DEF PoolInv
<1>0. \A t \in Threads : mutex = t <=> pc[t] \in InLoop BY DEF TypeOK
<1>1. ASSUME NEW t \in Threads, NEW p, Goto(t, p), p \notin {"wait", "check"},
             shutdown' = shutdown, queue' = queue \/ mutex = Nobody \/ mutex = t
      PROVE  NeverTakesFromEmpty' /\ Sighted'
  <2>1. \A u \in Threads \ {t} : pc'[u] \in {"wait", "check"} => pc'[u] = pc[u] /\ queue' = queue
    BY <1>0, <1>1, OneMoves, ThreadsAssumption DEF InLoop
  <2>2. QED BY <1>1, <2>1, OneMoves DEF NeverTakesFromEmpty, Sighted
<1>2. ASSUME NEW t \in Threads,
             \/ CreateThread(t) \/ Lock(t) \/ Wait(t) \/ WakeSpuriously(t)
             \/ Exit(t) \/ Take(t) \/ Finish(t)
      PROVE  NeverTakesFromEmpty' /\ Sighted'
  <2>1. Take(t) => mutex = t BY <1>0 DEF Take, InLoop
  <2>2. \E p \in {"lock", "loop", "blocked", "relock", "exit", "work"} : Goto(t, p)
    BY <1>2 DEF CreateThread, Lock, Wait, WakeSpuriously, Exit, Take, Finish
  <2>3. shutdown' = shutdown /\ (queue' = queue \/ mutex = t)
    BY <1>2, <2>1 DEF CreateThread, Lock, Wait, WakeSpuriously, Exit, Take, Finish
  <2>4. QED BY <1>1, <2>2, <2>3
<1>3. ASSUME NEW t \in Threads, FindNothing(t) \/ LeaveLoop(t)
      PROVE  NeverTakesFromEmpty' /\ Sighted'
  BY <1>3, OneMoves DEF FindNothing, LeaveLoop, NeverTakesFromEmpty, Sighted, Goto, TypeOK
<1>4. CASE Push
  <2>1. \A t \in Threads : pc'[t] \notin {"wait", "check"}
    BY <1>0, <1>4, ThreadsAssumption DEF Push, InLoop
  <2>2. QED BY <2>1 DEF NeverTakesFromEmpty, Sighted
<1>5. CASE CreateFails \/ Broadcast
  <2>1. \A t \in Threads : pc'[t] \in {"wait", "check"} => pc'[t] = pc[t]
    BY <1>5 DEF CreateFails, Broadcast
  <2>2. UNCHANGED <<queue, shutdown>> BY <1>5 DEF CreateFails, Broadcast
  <2>3. QED BY <2>1, <2>2 DEF NeverTakesFromEmpty, Sighted
<1>6. CASE Signal
  <2>1. CASE Blocked = {} BY <1>6, <2>1 DEF Signal, NeverTakesFromEmpty, Sighted
  <2>2. CASE Blocked # {}
    <3>1. PICK t \in Threads : Goto(t, "relock") BY <1>6, <2>2 DEF Signal, Blocked, At
    <3>2. UNCHANGED <<queue, shutdown>> BY <1>6 DEF Signal
    <3>3. QED BY <1>1, <3>1, <3>2
  <2>3. QED BY <2>1, <2>2
<1>7. CASE CreateReturns \/ SetShutdown \/ Join \/ UNCHANGED vars
  BY <1>7 DEF CreateReturns, SetShutdown, Join, vars, NeverTakesFromEmpty, Sighted
<1>8. QED
  BY <1>2, <1>3, <1>4, <1>5, <1>6, <1>7 DEF Next, MainNext, Step

-----------------------------------------------------------------------------
(* No message is left beside a sleeping thread.                            *)
LEMMA StepNoneLeft ==
  ASSUME PoolInv, [Next]_vars PROVE NoneLeftBehind'
<1> DEFINE owed == IF main = "signal" THEN 1 ELSE 0
<1> USE DEF PoolInv
<1>0. TypeOK' /\ NeverTakesFromEmpty' BY StepTypeOK, StepSighted
<1>1. /\ Cardinality(Awake) \in Nat /\ IsFiniteSet(Awake) /\ Len(queue) \in Nat
      /\ Cardinality(Awake') \in Nat /\ IsFiniteSet(Awake') /\ Len(queue') \in Nat
  <2>1. TypeOK => /\ IsFiniteSet(Awake) /\ Cardinality(Awake) \in Nat /\ Len(queue) \in Nat
    BY Cards
  <2>2. Awake' \subseteq Threads BY DEF Awake, At
  <2>3. IsFiniteSet(Awake') BY <2>2, ThreadsAssumption, FS_Subset
  <2>4. QED BY <1>0, <2>1, <2>3, FS_CardinalityType DEF TypeOK
<1>2. ASSUME NEW t \in Threads, CreateThread(t) \/ WakeSpuriously(t) \/ Finish(t)
      PROVE  NoneLeftBehind'
  <2>1. UNCHANGED <<queue, shutdown, main>> /\ t \notin Awake
        /\ (Goto(t, "lock") \/ Goto(t, "relock"))
    BY <1>2 DEF CreateThread, WakeSpuriously, Finish, Awake, At
  <2>2. Awake' = Awake \cup {t} /\ Blocked' \subseteq Blocked
    BY <2>1, OneMoves DEF Awake, Blocked, At
  <2>3. Cardinality(Awake') = Cardinality(Awake) + 1
    BY <1>1, <2>1, <2>2, FS_AddElement
  <2>4. QED BY <1>1, <2>1, <2>2, <2>3 DEF NoneLeftBehind
<1>3. ASSUME NEW t \in Threads, Lock(t) \/ LeaveLoop(t) PROVE NoneLeftBehind'
  <2>1. UNCHANGED <<queue, shutdown, main>> /\ t \in Awake /\ t \notin Blocked
        /\ (Goto(t, "loop") \/ Goto(t, "check"))
    BY <1>3 DEF Lock, LeaveLoop, Awake, Blocked, At
  <2>2. Awake' = Awake /\ Blocked' = Blocked
    BY <2>1, OneMoves DEF Awake, Blocked, At
  <2>3. QED BY <2>1, <2>2 DEF NoneLeftBehind
<1>4. ASSUME NEW t \in Threads, FindNothing(t) \/ Wait(t) PROVE NoneLeftBehind'
  <2>1. queue' = <<>> BY <1>4 DEF FindNothing, Wait, Sighted
  <2>2. Len(queue') = 0 BY <2>1
  <2>3. QED BY <1>1, <2>2 DEF NoneLeftBehind
<1>5. ASSUME NEW t \in Threads, Take(t) PROVE NoneLeftBehind'
  <2>1. UNCHANGED <<shutdown, main>> /\ t \in Awake /\ t \notin Blocked /\ Goto(t, "work")
    BY <1>5 DEF Take, Awake, Blocked, At
  <2>2. Awake' = Awake \ {t} /\ Blocked' = Blocked
    BY <2>1, OneMoves DEF Awake, Blocked, At
  <2>3. Cardinality(Awake') = Cardinality(Awake) - 1
    BY <1>1, <2>1, <2>2, FS_RemoveElement
  <2>4. Len(queue') = Len(queue) - 1
    BY <1>5 DEF Take, NeverTakesFromEmpty, TypeOK
  <2>5. QED BY <1>1, <2>1, <2>2, <2>3, <2>4 DEF NoneLeftBehind
<1>6. CASE Push
  <2>1. /\ UNCHANGED <<shutdown, pc>> /\ main = "run" /\ main' = "signal"
        /\ Len(queue') = Len(queue) + 1
    BY <1>6 DEF Push, TypeOK
  <2>2. Awake' = Awake /\ Blocked' = Blocked BY <2>1 DEF Awake, Blocked, At
  <2>3. QED BY <1>1, <2>1, <2>2 DEF NoneLeftBehind
<1>7. CASE Signal
  <2>1. /\ UNCHANGED <<shutdown, queue>> /\ main = "signal" /\ main' = "run"
    BY <1>7 DEF Signal
  <2>2. CASE Blocked = {}
    <3>1. Blocked' = {} BY <1>7, <2>2 DEF Signal, Blocked, At
    <3>2. QED BY <3>1 DEF NoneLeftBehind
  <2>3. CASE Blocked # {}
    <3>1. PICK t \in Blocked : Goto(t, "relock") BY <1>7, <2>3 DEF Signal
    <3>2. t \in Threads /\ t \notin Awake BY DEF Blocked, Awake, At
    <3>3. Awake' = Awake \cup {t} BY <3>1, <3>2, OneMoves DEF Awake, At
    <3>4. Cardinality(Awake') = Cardinality(Awake) + 1
      BY <1>1, <3>2, <3>3, FS_AddElement
    <3>5. QED BY <1>1, <2>1, <2>3, <3>4 DEF NoneLeftBehind
  <2>4. QED BY <2>2, <2>3
<1>8. CASE CreateFails \/ Broadcast
  <2>1. Blocked' = {} BY <1>8 DEF CreateFails, Broadcast, Blocked, At
  <2>2. QED BY <2>1 DEF NoneLeftBehind
<1>9. CASE SetShutdown
  BY <1>9 DEF SetShutdown, NoneLeftBehind
<1>10. ASSUME NEW t \in Threads, Exit(t) PROVE NoneLeftBehind'
  BY <1>10 DEF Exit, NoneLeftBehind
<1>11. CASE CreateReturns \/ Join \/ UNCHANGED vars
  <2>1. UNCHANGED <<queue, shutdown, pc>> /\ (main = "signal" => main' = "signal")
    BY <1>11 DEF CreateReturns, Join, vars
  <2>2. Awake' = Awake /\ Blocked' = Blocked BY <2>1 DEF Awake, Blocked, At
  <2>3. QED BY <1>1, <2>1, <2>2 DEF NoneLeftBehind
<1>12. QED
  BY <1>2, <1>3, <1>4, <1>5, <1>6, <1>7, <1>8, <1>9, <1>10, <1>11
  DEF Next, MainNext, Step

-----------------------------------------------------------------------------
(* The messages stay in their order, and no two threads work on one.       *)
LEMMA StepInOrder ==
  ASSUME PoolInv, [Next]_vars PROVE InOrder' /\ Phases'
<1> USE DEF PoolInv
<1>0. queue \in Seq(Nat) /\ sent \in Nat /\ Len(queue) \in Nat BY DEF TypeOK
<1>1. ASSUME UNCHANGED <<queue, sent, job, done>>,
             \A u \in Threads : pc'[u] = "work" <=> pc[u] = "work",
             main' = "create" => main = "create"
      PROVE  InOrder' /\ Phases'
  <2>1. At({"work"})' = At({"work"}) BY <1>1 DEF At
  <2>2. QED BY <1>1, <2>1 DEF InOrder, Phases
<1>2. ASSUME NEW t \in Threads, NEW p, p # "work", pc[t] # "work", Goto(t, p),
             UNCHANGED <<queue, sent, job, done, main>>
      PROVE  InOrder' /\ Phases'
  <2>1. \A u \in Threads : pc'[u] = "work" <=> pc[u] = "work" BY <1>2, OneMoves
  <2>2. QED BY <1>1, <1>2, <2>1
<1>3. ASSUME NEW t \in Threads,
             \/ CreateThread(t) \/ Lock(t) \/ FindNothing(t) \/ LeaveLoop(t)
             \/ Wait(t) \/ WakeSpuriously(t) \/ Exit(t)
      PROVE  InOrder' /\ Phases'
  BY <1>2, <1>3
  DEF CreateThread, Lock, FindNothing, LeaveLoop, Wait, WakeSpuriously, Exit
<1>4. CASE \/ CreateFails \/ CreateReturns \/ Signal \/ SetShutdown \/ Broadcast
           \/ Join \/ UNCHANGED vars
  <2>1. UNCHANGED <<queue, sent, job, done>> /\ (main' = "create" => main = "create")
    BY <1>4 DEF CreateFails, CreateReturns, Signal, SetShutdown, Broadcast, Join, vars
  <2>2. \A u \in Threads : pc'[u] = "work" <=> pc[u] = "work"
    <3>1. CASE Signal
      <4>1. CASE Blocked = {} BY <3>1, <4>1 DEF Signal
      <4>2. ASSUME NEW t \in Blocked, Goto(t, "relock")
            PROVE  \A u \in Threads : pc'[u] = "work" <=> pc[u] = "work"
        <5>1. t \in Threads /\ pc[t] = "blocked" BY DEF Blocked, At
        <5>2. QED BY <4>2, <5>1, OneMoves
      <4>3. QED BY <3>1, <4>1, <4>2 DEF Signal
    <3>2. CASE CreateFails \/ Broadcast
      BY <3>2 DEF CreateFails, Broadcast, Blocked, At, Phases
    <3>3. QED BY <1>4, <3>1, <3>2 DEF CreateReturns, SetShutdown, Join, vars
  <2>3. QED BY <1>1, <2>1, <2>2
<1>5. CASE Push
  <2>1. /\ UNCHANGED <<pc, job, done>> /\ sent' = sent + 1 /\ main' = "signal"
        /\ Len(queue') = Len(queue) + 1
        /\ \A i \in 1..Len(queue) : queue'[i] = queue[i]
        /\ queue'[Len(queue) + 1] = sent + 1
    BY <1>0, <1>5 DEF Push
  <2>2. At({"work"})' = At({"work"}) BY <2>1 DEF At
  <2>a. sent \in Nat /\ Len(queue) \in Nat BY <1>0
  <2>4. sent' - Len(queue') = sent - Len(queue) BY <2>1, <2>a
  <2>3. \A i \in 1..Len(queue') : queue'[i] = sent' - Len(queue') + i
    <3>1. \A i \in 1..Len(queue) : queue'[i] = sent' - Len(queue') + i
      BY <1>0, <2>1, <2>4 DEF InOrder
    <3>2. sent + 1 = sent' - Len(queue') + (Len(queue) + 1) BY <2>1, <2>a
    <3>3. \A i \in 1..Len(queue') : i \in 1..Len(queue) \/ i = Len(queue) + 1
      BY <2>1, <2>a
    <3>4. QED BY <2>1, <3>1, <3>2, <3>3
  <2>5. QED BY <1>0, <2>1, <2>2, <2>3, <2>4 DEF InOrder, Phases
<1>6. ASSUME NEW t \in Threads, Take(t) PROVE InOrder' /\ Phases'
  <2>1. /\ UNCHANGED <<main, sent, done>> /\ queue # <<>> /\ Goto(t, "work")
        /\ job' = [job EXCEPT ![t] = Head(queue)] /\ queue' = Tail(queue)
    BY <1>6 DEF Take, NeverTakesFromEmpty
  <2>2. /\ Len(queue') = Len(queue) - 1 /\ Head(queue) = queue[1]
        /\ \A i \in 1..Len(queue') : queue'[i] = queue[i + 1]
        /\ Len(queue) >= 1
    BY <1>0, <2>1
  <2>3. Head(queue) = sent - Len(queue) + 1 BY <1>0, <2>2 DEF InOrder
  <2>4. \A u \in Threads : job'[u] = IF u = t THEN Head(queue) ELSE job[u]
    BY <2>1 DEF TypeOK
  <2>5. At({"work"})' = At({"work"}) \cup {t}
    BY <2>1, OneMoves DEF At
  <2>6. \A u \in At({"work"}) : u # t /\ job[u] < Head(queue) /\ job[u] \in Nat
    BY <1>0, <1>6, <2>3 DEF InOrder, Take, At, TypeOK
  <2>7. \A i \in 1..Len(queue') : queue'[i] = sent' - Len(queue') + i
    BY <1>0, <2>1, <2>2 DEF InOrder
  <2>8. \A u \in At({"work"})' : job'[u] <= sent' - Len(queue')
    BY <1>0, <2>1, <2>2, <2>3, <2>4, <2>5, <2>6
  <2>9. ASSUME NEW u \in At({"work"})', NEW v \in At({"work"})', job'[u] = job'[v]
        PROVE  u = v
    <3>1. u \in Threads /\ v \in Threads BY DEF At
    <3>2. CASE u = t \/ v = t
      BY <3>1, <3>2, <2>3, <2>4, <2>5, <2>6, <2>9, <1>0
    <3>3. CASE u # t /\ v # t
      BY <3>1, <3>3, <2>4, <2>5, <2>9 DEF InOrder
    <3>4. QED BY <3>2, <3>3
  <2>10. Phases' BY <1>6, <2>1 DEF Phases, Take
  <2>11. \A u \in Threads : pc'[u] = "work" <=> job'[u] # 0
    <3>1. Head(queue) # 0 BY <1>0, <2>2, <2>3 DEF InOrder
    <3>2. \A u \in Threads : u # t => pc'[u] = pc[u] BY <2>1, OneMoves
    <3>3. pc'[t] = "work" BY <2>1, OneMoves
    <3>4. QED BY <2>4, <3>1, <3>2, <3>3 DEF InOrder
  <2>12. ASSUME NEW m \in done PROVE m <= sent' - Len(queue') /\ m < Head(queue)
    <3>1. m \in Nat /\ m <= sent - Len(queue) BY DEF TypeOK, InOrder
    <3>2. QED BY <1>0, <2>1, <2>2, <2>3, <3>1
  <2>13. \A u \in At({"work"})' : job'[u] \notin done'
    <3>1. Head(queue) \notin done /\ At({"work"})' \subseteq Threads
      BY <1>0, <2>3, <2>12 DEF At
    <3>2. QED BY <2>1, <2>4, <2>5, <3>1 DEF InOrder
  <2>14. Len(queue') <= sent' BY <1>0, <2>1, <2>2 DEF InOrder
  <2>15. QED BY <2>1, <2>7, <2>8, <2>9, <2>10, <2>11, <2>12, <2>13, <2>14 DEF InOrder
<1>7. ASSUME NEW t \in Threads, Finish(t) PROVE InOrder' /\ Phases'
  <2>1. /\ UNCHANGED <<main, sent, queue>> /\ Goto(t, "lock") /\ pc[t] = "work"
        /\ done' = done \cup {job[t]} /\ job' = [job EXCEPT ![t] = 0]
    BY <1>7 DEF Finish
  <2>2. At({"work"})' = At({"work"}) \ {t} BY <2>1, OneMoves DEF At
  <2>3. \A u \in At({"work"})' : job'[u] = job[u]
    BY <2>1, <2>2 DEF TypeOK, At
  <2>4. t \in At({"work"}) /\ At({"work"}) \subseteq Threads BY <2>1 DEF At
  <2>5. \A u \in At({"work"})' : job'[u] \notin done'
    BY <2>1, <2>2, <2>3, <2>4 DEF InOrder
  <2>6. \A m \in done' : m <= sent' - Len(queue')
    BY <2>1, <2>4 DEF InOrder
  <2>7. \A u \in Threads : pc'[u] = "work" <=> job'[u] # 0
    BY <2>1, OneMoves DEF InOrder, TypeOK
  <2>8. Phases' BY <2>1, <2>2 DEF Phases
  <2>9. QED BY <2>1, <2>2, <2>3, <2>5, <2>6, <2>7, <2>8 DEF InOrder
<1>8. QED
  BY <1>3, <1>4, <1>5, <1>6, <1>7 DEF Next, MainNext, Step

-----------------------------------------------------------------------------
(* The invariant holds in every state, whatever the scheduler does.        *)
THEOREM PoolSafety == Safe => []PoolInv
<1>1. Init => PoolInv BY InitPoolInv
<1>2. PoolInv /\ [Next]_vars => PoolInv'
  BY StepTypeOK, StepSighted, StepNoneLeft, StepInOrder DEF PoolInv
<1>3. QED BY <1>1, <1>2, PTL DEF Safe

(* Types, and every lock of m_pthreadMutex has its unlock.                 *)
THEOREM MutexInPairs == Safe => []TypeOK
<1>1. PoolInv => TypeOK BY DEF PoolInv
<1>2. QED BY <1>1, PoolSafety, PTL

(* The while loop around pthread_cond_wait() does its work: front() is     *)
(* never called on an empty list.                                          *)
THEOREM FrontIsThere == Safe => []NeverTakesFromEmpty
<1>1. PoolInv => NeverTakesFromEmpty BY DEF PoolInv
<1>2. QED BY <1>1, PoolSafety, PTL

(* One signal for each message is enough, with any number of threads.      *)
THEOREM OneSignalEach == Safe => []NoneLeftBehind
<1>1. PoolInv => NoneLeftBehind BY DEF PoolInv
<1>2. QED BY <1>1, PoolSafety, PTL

-----------------------------------------------------------------------------
(* The refinement.                                                         *)

(* The pool starts as a set of jobs does.                                  *)
LEMMA InitRefines ==
  ASSUME Init PROVE Jobs!Init
BY DEF Init, Jobs!Init

(* A step of the pool is one of the set of jobs, or changes nothing of it. *)
LEMMA StepRefines ==
  ASSUME PoolInv, [Next]_vars PROVE [Jobs!Next]_Jobs!vars
<1> USE DEF PoolInv
<1>1. CASE Push BY <1>1 DEF Push, Jobs!Next, Jobs!HandOver
<1>2. ASSUME NEW t \in Threads, Take(t) PROVE Jobs!Next
  <2>1. queue # <<>> /\ job[t] = 0
    BY <1>2 DEF Take, NeverTakesFromEmpty, InOrder
  <2>2. Jobs!Take(t) BY <1>2, <2>1 DEF Take, Jobs!Take
  <2>3. QED BY <2>2 DEF Jobs!Next
<1>3. ASSUME NEW t \in Threads, Finish(t) PROVE Jobs!Next
  <2>1. job[t] # 0 /\ job[t] \notin done
    BY <1>3 DEF Finish, InOrder, At
  <2>2. Jobs!Complete(t) BY <1>3, <2>1 DEF Finish, Jobs!Complete
  <2>3. QED BY <2>2 DEF Jobs!Next
<1>4. ASSUME NEW t \in Threads,
             \/ CreateThread(t) \/ Lock(t) \/ FindNothing(t) \/ LeaveLoop(t)
             \/ Wait(t) \/ WakeSpuriously(t) \/ Exit(t)
      PROVE  UNCHANGED Jobs!vars
  BY <1>4 DEF CreateThread, Lock, FindNothing, LeaveLoop, Wait, WakeSpuriously,
              Exit, Jobs!vars
<1>5. CASE \/ CreateFails \/ CreateReturns \/ Signal \/ Broadcast \/ Join
           \/ UNCHANGED vars
  BY <1>5 DEF CreateFails, CreateReturns, Signal, Broadcast, Join, vars, Jobs!vars
<1>6. CASE SetShutdown BY <1>6 DEF SetShutdown, Jobs!Next, Jobs!Shut
<1>7. QED
  BY <1>1, <1>2, <1>3, <1>4, <1>5, <1>6 DEF Next, MainNext, Step

(* The pool is a JobQueue, as far as safety goes: each message is taken by *)
(* one thread, in the order of arrival, and handled once.                  *)
THEOREM PoolRefinesJobQueue == Safe => Jobs!Safe
<1>1. Init => Jobs!Init BY InitRefines
<1>2. PoolInv /\ [Next]_vars => [Jobs!Next]_Jobs!vars BY StepRefines
<1>3. QED BY <1>1, <1>2, PoolSafety, PTL DEF Safe, Jobs!Safe
=============================================================================
