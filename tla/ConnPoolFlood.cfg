CONSTANTS
  l = l
  a = a
  b = b
  d = d
  w1 = w1
  Conns <- ThreeForClients
  InitPool <- OnlyListener
  Listeners <- OnlyListener
  Fds = {3, 4}
  Main = main
  Timer = timer
  Workers <- MCWorkers
  NoConn = noconn
  NoRef = noref
  PoolFactor = 2
  RecyWait = 2
  KickNow = FALSE
  MaxBusy = 1
  MaxEvents = 1
  MaxClients = 3
  MaxTime = 2

SPECIFICATION Spec
CONSTRAINT NotMisled
SYMMETRY Alike
\* The clients run out and the clock stops: the instance ends, not the server.
CHECK_DEADLOCK FALSE
INVARIANT TypeOK
INVARIANT OnlineExact
INVARIANT ClientsCapped
INVARIANT PoolBounded
