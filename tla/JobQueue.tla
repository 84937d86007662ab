------------------------------ MODULE JobQueue ------------------------------
(***************************************************************************)
(* What CThreadPool promises the code that reads packets: a message handed *)
(* over is taken by exactly one of its hands, messages are taken in the    *)
(* order they came, a hand holds one at a time, and every message is       *)
(* handled in the end unless the queue is shut: then what has been taken   *)
(* is still handled, and nothing more is taken.                            *)
(***************************************************************************)
EXTENDS Integers, Sequences

CONSTANT Hands     \* how many messages may be worked on at a time

VARIABLES queued,  \* messages handed over and not taken, oldest first
          holds,   \* the message each hand works on, 0 for none
          handled, \* messages done with
          handed,  \* how many have been handed over: they are 1, 2, ...
          shut     \* nothing is taken any more
vars == <<queued, holds, handled, handed, shut>>

Init ==
  /\ queued = <<>> /\ holds = [h \in Hands |-> 0]
  /\ handled = {} /\ handed = 0 /\ shut = FALSE

HandOver ==
  /\ handed' = handed + 1 /\ queued' = Append(queued, handed + 1)
  /\ UNCHANGED <<holds, handled, shut>>

Take(h) ==
  /\ ~shut /\ queued # <<>> /\ holds[h] = 0
  /\ holds' = [holds EXCEPT ![h] = Head(queued)] /\ queued' = Tail(queued)
  /\ UNCHANGED <<handled, handed, shut>>

Complete(h) ==
  /\ holds[h] # 0 /\ holds[h] \notin handled
  /\ handled' = handled \cup {holds[h]} /\ holds' = [holds EXCEPT ![h] = 0]
  /\ UNCHANGED <<queued, handed, shut>>

Shut == ~shut /\ shut' = TRUE /\ UNCHANGED <<queued, holds, handled, handed>>

Next == HandOver \/ Shut \/ \E h \in Hands : Take(h) \/ Complete(h)

Safe == Init /\ [][Next]_vars
Spec ==
  /\ Safe
  /\ WF_vars(\E h \in Hands : Take(h))
  /\ \A h \in Hands : WF_vars(Complete(h))
=============================================================================
