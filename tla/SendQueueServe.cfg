CONSTANTS
  a = a
  b = b
  Conns <- OneConn
  Main = main
  Sender = sender
  Timer = timer
  Worker = worker
  Nobody = nobody
  PkgLen = 2
  Room = 1
  Caps <- TightCaps
  UnreadAtEof = FALSE
  MaxMsgs = 3
  MaxSeq = 3

SPECIFICATION Spec
\* The answers run out, or the process has been ended.
CHECK_DEADLOCK FALSE
INVARIANT TypeOK
INVARIANT WholeAnswers
INVARIANT OnlyItsOwn
INVARIANT BacklogExact
INVARIANT EveryBufferOwned
INVARIANT PassDropsStale
PROPERTY EveryAnswerSettled
PROPERTY ImplementsAnswerDelivery
