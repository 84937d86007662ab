---------------------------- MODULE MCProcesses -----------------------------
(* Two workers that serve two clients, and end at any moment; signals from *)
(* outside come to the master and to one of them.                          *)
EXTENDS Processes

CONSTANTS w1, w2

TwoWorkers == {w1, w2}
TwoClients == {1, 2}
MasterAndOne == {Master, w1}
=============================================================================
