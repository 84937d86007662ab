CONSTANTS
  t1 = t1
  t2 = t2
  t3 = t3
  Threads <- TwoThreads
  Nobody = nobody
  Stops = TRUE
  MaxMsgs = 1

SPECIFICATION Spec
\* The messages run out, the worker exits or the pool has stopped.
CHECK_DEADLOCK FALSE
PROPERTY StopReturns
