---------------------------- MODULE MCThreadPool ----------------------------
(* Pools of two and of three threads.                                      *)
EXTENDS ThreadPool

CONSTANTS t1, t2, t3

TwoThreads == {t1, t2}
ThreeThreads == {t1, t2, t3}
=============================================================================
