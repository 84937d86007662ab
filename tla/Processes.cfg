CONSTANTS
  w1 = w1
  w2 = w2
  Workers <- TwoWorkers
  Clients <- TwoClients
  Master = master
  Nobody = nobody
  Signalled <- MasterAndOne
  MaxSignals = 2

SPECIFICATION Spec
\* The processes may all end.
CHECK_DEADLOCK FALSE
INVARIANT TypeOK
INVARIANT NoZombieForgotten
INVARIANT AcceptedOnce
PROPERTY EveryDeadReaped
PROPERTY EveryClientAccepted
PROPERTY EveryClientAnswered
