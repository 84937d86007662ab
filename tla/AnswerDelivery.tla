--------------------------- MODULE AnswerDelivery ---------------------------
(***************************************************************************)
(* What msgSend() promises a handler: an answer that is handed over goes   *)
(* to the client it was made for, whole, in one piece, once, and behind no *)
(* later one if it is the first; or it is given up, but only if that       *)
(* client has gone.  An answer may be refused at the door.  How many       *)
(* threads send, who wakes whom and when the socket has room is left out.  *)
(***************************************************************************)
EXTENDS Integers, Sequences

CONSTANTS
  Seats,     \* where a client can be
  None,       \* "no answer"
  PkgLen      \* how many pieces an answer has

VARIABLES
  given,      \* how many answers were made: they have the numbers 1, 2, ...
  pending,    \* answers that were handed over and not begun
  current,    \* the answer that each client is being sent
  todo,       \* how many pieces of it are left
  stream,     \* the pieces each client was sent, oldest first
  present,    \* the clients that can be reached
  client,     \* the number of the client that is at each place
  settled     \* the numbers of the answers that are done with
vars == <<given, pending, current, todo, stream, present, client, settled>>
senderVars == <<current, todo, stream>>
clientVars == <<present, client>>

Init ==
  /\ given = 0 /\ pending = {} /\ settled = {} /\ present = Seats
  /\ current = [c \in Seats |-> None] /\ todo = [c \in Seats |-> 0]
  /\ stream = [c \in Seats |-> <<>>] /\ client = [c \in Seats |-> 1]

(* The next answer, to the client that is at c or to one before it.        *)
HandOver(c, s) ==
  /\ given' = given + 1
  /\ pending' = pending \cup {[id |-> given + 1, conn |-> c, seq |-> s]}
  /\ UNCHANGED <<settled, senderVars, clientVars>>

Refuse ==
  /\ given' = given + 1 /\ settled' = settled \cup {given + 1}
  /\ UNCHANGED <<pending, senderVars, clientVars>>

Numbers(m) == IF m = None THEN {} ELSE {m.id}

For(c, m) == m.conn = c /\ m.seq = client[c]
Oldest(c, m) == \A n \in pending : For(c, n) => m.id <= n.id

(* An answer is begun when none is underway.  Of a client that can be      *)
(* reached it is the answer to this client, and the first is the oldest.   *)
Begin(c, m) ==
  /\ m \in pending /\ m.conn = c /\ current[c] = None
  /\ c \in present => For(c, m) /\ (stream[c] = <<>> => Oldest(c, m))
  /\ pending' = pending \ {m} /\ current' = [current EXCEPT ![c] = m]
  /\ todo' = [todo EXCEPT ![c] = PkgLen]
  /\ UNCHANGED <<given, stream, settled, clientVars>>

(* Begun for a client that has just gone: given up with the answer it was  *)
(* begun behind.                                                           *)
BeginInVain(c, m) ==
  /\ m \in pending /\ m.conn = c /\ c \notin present
  /\ pending' = pending \ {m} /\ current' = [current EXCEPT ![c] = None]
  /\ settled' = settled \cup {m.id} \cup Numbers(current[c])
  /\ todo' = [todo EXCEPT ![c] = PkgLen]
  /\ UNCHANGED <<given, stream, clientVars>>

Send(c, n) ==
  /\ c \in present /\ current[c] # None
  /\ todo' = [todo EXCEPT ![c] = @ - n]
  /\ stream' = [stream EXCEPT ![c] = @ \o [i \in 1..n |-> current[c]]]
  /\ UNCHANGED <<given, pending, current, settled, clientVars>>

(* All of it is sent, or there is nobody to send the rest to.              *)
Finish(c) ==
  /\ current[c] # None /\ current[c].id \notin settled
  /\ c \in present => todo[c] = 0
  /\ settled' = settled \cup {current[c].id}
  /\ current' = [current EXCEPT ![c] = None]
  /\ UNCHANGED <<given, pending, todo, stream, clientVars>>

GiveUp(m) ==
  /\ m \in pending /\ m.seq # client[m.conn] /\ m.id \notin settled
  /\ pending' = pending \ {m} /\ settled' = settled \cup {m.id}
  /\ UNCHANGED <<given, senderVars, clientVars>>

Leave(c) ==
  /\ c \in present /\ present' = present \ {c}
  /\ UNCHANGED <<given, pending, senderVars, client, settled>>

(* From now on an answer to the client that has left is out of date.       *)
Forget(c) ==
  /\ c \notin present /\ client' = [client EXCEPT ![c] = @ + 1]
  /\ UNCHANGED <<given, pending, senderVars, present, settled>>

(* The next client; what is left of the last answer is given up.           *)
Arrive(c) ==
  /\ c \notin present /\ present' = present \cup {c}
  /\ client' = [client EXCEPT ![c] = @ + 2]
  /\ settled' = settled \cup Numbers(current[c])
  /\ current' = [current EXCEPT ![c] = None] /\ todo' = [todo EXCEPT ![c] = 0]
  /\ stream' = [stream EXCEPT ![c] = <<>>]
  /\ UNCHANGED <<given, pending>>

Next ==
  \/ Refuse
  \/ \E c \in Seats : \E s \in 0..client[c] : HandOver(c, s)
  \/ \E m \in pending : GiveUp(m) \/ \E c \in Seats : Begin(c, m) \/ BeginInVain(c, m)
  \/ \E c \in Seats : \E n \in 1..todo[c] : Send(c, n)
  \/ \E c \in Seats : Finish(c) \/ Leave(c) \/ Forget(c) \/ Arrive(c)

Spec == Init /\ [][Next]_vars
=============================================================================
