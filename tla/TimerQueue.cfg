CONSTANTS
  a = a
  b = b
  Conns <- TwoConns
  Main = main
  Timer = timer
  Worker = worker
  Nobody = nobody
  WaitTime = 1
  Grace = 0
  MaxBusy = 1
  MaxSeq = 4
  LastAccept = 2
  LastPing = 4
  MaxTime = 8

SPECIFICATION Spec
SYMMETRY Alike
\* The clock stops and the connections are used up: the instance ends.
CHECK_DEADLOCK FALSE
INVARIANT TypeOK
INVARIANT EveryClientWatched
INVARIANT GateExact
INVARIANT SilentGoInTime
INVARIANT PingersStay
