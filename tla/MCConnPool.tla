----------------------------- MODULE MCConnPool -----------------------------
(***************************************************************************)
(* A small worker process: l serves the listening socket, the others are   *)
(* the connections of clients.  With InitPool = {l} they are allocated     *)
(* while the server runs, and none is told from another before.            *)
(***************************************************************************)
EXTENDS ConnPool

CONSTANTS l, a, b, d, w1

TwoForClients == {l, a, b}
ThreeForClients == {l, a, b, d}
OnlyListener == {l}
ListenerAndOne == {l, a}
MCWorkers == {w1}

Alike == Permutations({a, b, d})

(* But for TypeOK, every property of pool_flood and pool_pair holds of a   *)
(* state that is misled, and such a state never ceases to be misled: TLC   *)
(* need not go on from there.  That TypeOK holds for ever is proved.       *)
NotMisled == ~misled
=============================================================================
