---------------------------- MODULE MCTimerQueue ----------------------------
(* Two connections, and the shortest times that keep their order.          *)
EXTENDS TimerQueue, TLC

CONSTANTS a, b

TwoConns == {a, b}
Alike == Permutations(TwoConns)
=============================================================================
