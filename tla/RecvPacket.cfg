CONSTANTS
  Bytes = {1, 2, 4, 5}
  HeadLen = 2
  MaxLen = 4
  KickCount = 2
  Interval = 2
  Wrap = 64
  MaxBytes = 7
  MaxClients = 2
  MaxTime = 4
  ByteValues <- TwoBytes
  RegisterLen = 2
  LoginLen = 1
  MaxFlips = 2

SPECIFICATION MCSpec
\* The clients run out: the instance ends.
CHECK_DEADLOCK FALSE
INVARIANT TypeOK
INVARIANT PacketsAsSent
INVARIANT WritesInside
INVARIANT BufferOwned
INVARIANT FloodExact
INVARIANT AnsweredAsMeant
