CONSTANTS
  l = l
  a = a
  b = b
  d = d
  w1 = w1
  Conns <- TwoForClients
  InitPool <- ListenerAndOne
  Listeners <- OnlyListener
  Fds = {3, 4}
  Main = main
  Timer = timer
  Workers <- MCWorkers
  NoConn = noconn
  NoRef = noref
  PoolFactor = 1
  RecyWait = 2
  KickNow = TRUE
  MaxBusy = 1
  MaxEvents = 2
  MaxClients = 2
  MaxTime = 2

SPECIFICATION Spec
CONSTRAINT NotMisled
\* The clients run out and the clock stops: the instance ends, not the server.
CHECK_DEADLOCK FALSE
INVARIANT OnePlace
INVARIANT NoReuseWhileHeld
INVARIANT OnlyLivePass
INVARIANT NoSocketLeak
