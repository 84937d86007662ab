CONSTANTS
  t1 = t1
  t2 = t2
  t3 = t3
  Threads <- ThreeThreads
  Nobody = nobody
  Stops = TRUE
  MaxMsgs = 5
  c1 = c1
  Pool <- TwoThreads
  Epoll = epoll
  Timer = timer
  Recycler = recycler
  Sender = sender
  Conns <- OneClient
  Unowned = unowned

SPECIFICATION MCSpec
\* The messages run out, the worker exits or the pool has stopped.
CHECK_DEADLOCK FALSE
INVARIANT TypeOK
INVARIANT NoneLeftBehind
INVARIANT LocksPaired
INVARIANT NoCircularWait
PROPERTY EveryMessageHandled
PROPERTY ImplementsJobQueue
PROPERTY StopReturnsOutsideWindow
