---------------------------- MODULE MCSendQueue ----------------------------
(***************************************************************************)
(* One or two clients at a time, answers of two pieces.  With the tight    *)
(* limits two answers of one client may wait, one of which can overtake    *)
(* the other, and a third is the end of the client; or the queue holds one *)
(* and the next is discarded.                                              *)
(***************************************************************************)
EXTENDS SendQueue

CONSTANTS a, b

OneConn == {a}
TwoConns == {a, b}

LeastCaps == {<<1, 0>>}
TightCaps == {<<2, 1>>, <<0, 0>>}
=============================================================================
