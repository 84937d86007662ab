------------------------------ MODULE MCWorker ------------------------------
(***************************************************************************)
(* The threads of a worker process in two views that share no state: how   *)
(* those of the pool get their messages, and how all of them nest their    *)
(* locks.  A behaviour follows one of them; the second begins by setting   *)
(* the pool of the first aside, where its fairness asks for nothing.       *)
(***************************************************************************)
EXTENDS MCThreadPool, WorkerLocks

CONSTANT c1

OneClient == {c1}

VARIABLE view

MCInit == Init /\ LocksInit /\ view \in {"pool", "locks"}
MCNext ==
  /\ UNCHANGED view
  /\ \/ view = "pool" /\ Next /\ UNCHANGED lockVars
     \/ view = "locks" /\ CreateFails /\ UNCHANGED lockVars
     \/ view = "locks" /\ main = "exited" /\ LocksNext /\ UNCHANGED vars
MCSpec == MCInit /\ [][MCNext]_<<vars, lockVars, view>> /\ Fairness
=============================================================================
