-------------------------- MODULE RecvPacketProofs --------------------------
(***************************************************************************)
(* For every length of header, limit of length, stream of bytes and way of *)
(* cutting it up: no write outside a buffer, no buffer lost, a flood       *)
(* recognised exactly, and every packet handed over as it was sent, across *)
(* all the clients of a connection.                                        *)
(***************************************************************************)
EXTENDS RecvPacket, SequenceTheorems, WellFoundedInduction, TLAPS

Bufs == [size : (HeadLen + 1)..MaxLen, bytes : Seq(Bytes)]

(* What TypeOK leaves open; between two clients there is no buffer, and    *)
(* the field for the header is in use only while one is being read.        *)
Held ==
  /\ head \in Seq(Bytes) /\ buf \in Bufs \cup {NoBuf} /\ owned \in Int
  /\ phase = "free" => buf = NoBuf
  /\ ~InHead => head = <<>>

BufInv == TypeOK /\ WritesInside /\ BufferOwned /\ Held

-----------------------------------------------------------------------------
(* What recv() returns is a sequence of at least one byte and at most what *)
(* was asked for.                                                          *)
LEMMA ChunkIsSeq ==
  ASSUME NEW n \in Nat, NEW chunk \in Chunks(n)
  PROVE  chunk \in Seq(Bytes) /\ Len(chunk) \in 1..n
<1>1. PICK k \in 1..n : chunk \in [1..k -> Bytes] BY DEF Chunks
<1>2. chunk \in Seq(Bytes) /\ Len(chunk) = k BY <1>1
<1>3. QED BY <1>2

(* A buffer is not NULL.                                                   *)
LEMMA BufIsNotNull == ASSUME NEW b \in Bufs PROVE b # NoBuf
<1>1. DOMAIN b = {"size", "bytes"} BY DEF Bufs
<1>2. DOMAIN NoBuf = {} BY DEF NoBuf
<1>3. QED BY <1>1, <1>2

(* At the start no buffer is in use.                                       *)
LEMMA InitBufInv == Init => BufInv
<1> SUFFICES ASSUME Init PROVE BufInv OBVIOUS
<1> USE SizesAssumption DEF SizesAssumption
<1>1. irecvlen \in 1..MaxLen + HeadLen BY DEF Init
<1>2. TypeOK BY <1>1 DEF Init, TypeOK, Stats, InHead
<1>3. WritesInside /\ BufferOwned /\ Held
  BY DEF Init, WritesInside, BufferOwned, Held, InHead
<1>4. QED BY <1>2, <1>3 DEF BufInv

(* A complete packet.                                                      *)
LEMMA DeliverBuf ==
  ASSUME BufInv, NEW bytes, Deliver(bytes), phase = "used",
         UNCHANGED <<floodOn, now>>, now \in Nat,
         owned' = owned - (IF buf = NoBuf THEN 0 ELSE 1)
  PROVE  BufInv'
<1> USE SizesAssumption DEF SizesAssumption
<1>1. /\ curStat' = "_PKG_HD_INIT" /\ irecvlen' = HeadLen /\ head' = <<>>
      /\ buf' = NoBuf /\ phase' \in {"used", "retired"}
  BY DEF Deliver, Restart
<1>2. count' \in Nat /\ lastTime' \in Nat /\ flooded' \in BOOLEAN
  BY DEF Deliver, NewCount, IsFlood, BufInv, TypeOK
<1>3. TypeOK' BY <1>1, <1>2 DEF BufInv, TypeOK, Stats, InHead
<1>4. (WritesInside /\ BufferOwned /\ Held)'
  BY <1>1 DEF BufInv, WritesInside, BufferOwned, Held, InHead
<1>5. QED BY <1>3, <1>4 DEF BufInv

(* A part of a header goes behind what there is of it.                     *)
LEMMA HeadPartBuf ==
  ASSUME BufInv, NEW chunk \in Chunks(irecvlen), HeadPart(chunk) PROVE BufInv'
<1> USE SizesAssumption DEF SizesAssumption
<1>1. irecvlen \in Nat /\ head \in Seq(Bytes) /\ InHead /\ Len(chunk) < irecvlen
  BY DEF BufInv, TypeOK, Held, HeadPart
<1>2. chunk \in Seq(Bytes) /\ Len(chunk) \in 1..irecvlen BY <1>1, ChunkIsSeq
<1>3. /\ curStat' = "_PKG_HD_RECVING" /\ head' = head \o chunk
      /\ irecvlen' = irecvlen - Len(chunk)
      /\ UNCHANGED <<floodOn, flooded, phase, lastTime, count, buf, owned>>
  BY DEF HeadPart, floodVars
<1>4. head' \in Seq(Bytes) /\ Len(head') = Len(head) + Len(chunk) /\ head' # <<>>
  BY <1>1, <1>2, <1>3
<1>5. irecvlen' \in 1..MaxLen + HeadLen BY <1>1, <1>2, <1>3 DEF BufInv, TypeOK
<1>6. TypeOK'
  <2>1. (curStat = "_PKG_HD_INIT" <=> InHead /\ head = <<>>)' BY <1>3, <1>4
  <2>2. (curStat # "_PKG_BD_INIT" /\ curStat \in Stats)' BY <1>3 DEF Stats
  <2>3. QED BY <1>3, <1>5, <2>1, <2>2 DEF BufInv, TypeOK
<1>7. WritesInside'
  <2>1. Len(head) + irecvlen = HeadLen BY <1>1 DEF BufInv, WritesInside
  <2>2. Len(head') + irecvlen' = HeadLen
    <3>1. Len(head) \in Nat /\ Len(chunk) \in Nat BY <1>1, <1>2
    <3>2. irecvlen' = irecvlen - Len(chunk) /\ irecvlen \in Nat BY <1>1, <1>3
    <3>3. Len(head') = Len(head) + Len(chunk) BY <1>4
    <3>4. QED BY <2>1, <3>1, <3>2, <3>3
  <2>3. InHead' BY <1>3 DEF InHead
  <2>4. QED BY <2>2, <2>3 DEF WritesInside
<1>8. (BufferOwned /\ Held)' BY <1>1, <1>3, <1>4 DEF BufInv, BufferOwned, Held, InHead
<1>9. QED BY <1>6, <1>7, <1>8 DEF BufInv

(* A complete header: the length in it is a number.                        *)
LEMMA HeadComplete ==
  ASSUME BufInv, NEW chunk \in Chunks(irecvlen), HeadDone(chunk)
  PROVE  /\ head \o chunk \in Seq(Bytes) /\ Len(head \o chunk) = HeadLen
         /\ PkgLen(head \o chunk) \in Nat
<1> USE SizesAssumption DEF SizesAssumption
<1>1. irecvlen \in Nat /\ head \in Seq(Bytes) /\ InHead /\ Len(chunk) = irecvlen
  BY DEF BufInv, TypeOK, Held, HeadDone
<1>2. chunk \in Seq(Bytes) BY <1>1, ChunkIsSeq
<1>3. Len(head) + irecvlen = HeadLen BY <1>1 DEF BufInv, WritesInside
<1>4. head \o chunk \in Seq(Bytes) /\ Len(head \o chunk) = HeadLen
  BY <1>1, <1>2, <1>3
<1>5. 1 \in 1..Len(head \o chunk) BY <1>4
<1>6. (head \o chunk)[1] \in Bytes BY <1>4, <1>5
<1>7. QED BY <1>4, <1>6 DEF PkgLen

(* A header that cannot be is dropped, and the next one begun.             *)
LEMMA BadHeadBuf ==
  ASSUME BufInv, NEW chunk \in Chunks(irecvlen), BadHead(chunk) PROVE BufInv'
<1> USE SizesAssumption DEF SizesAssumption
<1>1. /\ InHead /\ curStat' = "_PKG_HD_INIT" /\ irecvlen' = HeadLen /\ head' = <<>>
      /\ UNCHANGED <<floodOn, flooded, phase, lastTime, count, buf, owned>>
  BY DEF BadHead, HeadDone, Restart, floodVars
<1>2. irecvlen' \in 1..MaxLen + HeadLen BY <1>1
<1>3. TypeOK' BY <1>1, <1>2 DEF BufInv, TypeOK, Stats, InHead
<1>4. (WritesInside /\ BufferOwned /\ Held)'
  BY <1>1 DEF BufInv, WritesInside, BufferOwned, Held, InHead
<1>5. QED BY <1>3, <1>4 DEF BufInv

(* A header without a body is a packet, and is handed on.                  *)
LEMMA OnlyHeadBuf ==
  ASSUME BufInv, now \in Nat, NEW chunk \in Chunks(irecvlen), OnlyHead(chunk)
  PROVE  BufInv'
<1>1. InHead /\ phase = "used" BY DEF OnlyHead, HeadDone, Received
<1>2. buf = NoBuf BY <1>1 DEF BufInv, BufferOwned
<1>3. owned' = owned - (IF buf = NoBuf THEN 0 ELSE 1)
  BY <1>2 DEF OnlyHead, BufInv, Held
<1>4. Deliver(head \o chunk) /\ UNCHANGED <<floodOn, now>> BY DEF OnlyHead
<1>5. QED BY <1>1, <1>3, <1>4, DeliverBuf

(* A header makes the buffer its packet needs.                             *)
LEMMA HeadThenBodyBuf ==
  ASSUME BufInv, NEW chunk \in Chunks(irecvlen), HeadThenBody(chunk) PROVE BufInv'
<1> USE SizesAssumption DEF SizesAssumption
<1> DEFINE n == PkgLen(head \o chunk)
<1>1. HeadDone(chunk) /\ Legal(n) /\ n # HeadLen BY DEF HeadThenBody
<1>2. InHead /\ phase = "used" BY <1>1 DEF HeadDone, Received
<1>3. head \o chunk \in Seq(Bytes) /\ Len(head \o chunk) = HeadLen /\ n \in Nat
  BY <1>1, HeadComplete
<1>4. n \in (HeadLen + 1)..MaxLen BY <1>1, <1>3 DEF Legal
<1> HIDE DEF n
<1>5. /\ buf' = [size |-> n, bytes |-> head \o chunk] /\ owned' = owned + 1
      /\ curStat' = "_PKG_BD_INIT" /\ irecvlen' = n - HeadLen /\ head' = <<>>
      /\ UNCHANGED <<floodOn, flooded, phase, lastTime, count>>
  BY DEF HeadThenBody, floodVars, n
<1>6. buf' \in Bufs /\ buf'.size = n /\ Len(buf'.bytes) = HeadLen
  BY <1>3, <1>4, <1>5 DEF Bufs
<1>7. buf' # NoBuf BY <1>6, BufIsNotNull
<1>8. irecvlen' \in 1..MaxLen + HeadLen BY <1>4, <1>5
<1>9. TypeOK'
  <2>1. (curStat = "_PKG_HD_INIT" <=> InHead /\ head = <<>>)' BY <1>5 DEF InHead
  <2>2. curStat' \in Stats BY <1>5 DEF Stats
  <2>3. QED BY <1>5, <1>6, <1>8, <2>1, <2>2 DEF BufInv, TypeOK
<1>10. WritesInside'
  <2>1. Len(buf'.bytes) + irecvlen' = buf'.size
    <3>1. irecvlen' = n - HeadLen BY <1>5
    <3>2. QED BY <1>3, <1>6, <3>1
  <2>2. ~InHead' BY <1>5 DEF InHead
  <2>3. QED BY <2>1, <2>2 DEF WritesInside
<1>11. owned' = 1 BY <1>2, <1>5 DEF BufInv, BufferOwned
<1>12. (BufferOwned /\ Held)'
  BY <1>2, <1>5, <1>6, <1>7, <1>11 DEF BufferOwned, Held, InHead
<1>13. QED BY <1>9, <1>10, <1>12 DEF BufInv

(* While a body is read there is a buffer for it.                          *)
LEMMA BodyHasBuf ==
  ASSUME BufInv, ~InHead, phase = "used"
  PROVE  buf \in Bufs /\ buf # NoBuf /\ Len(buf.bytes) + irecvlen = buf.size
  BY DEF BufInv, BufferOwned, Held, WritesInside

(* A part of a body goes behind what there is of it.                       *)
LEMMA BodyPartBuf ==
  ASSUME BufInv, NEW chunk \in Chunks(irecvlen), BodyPart(chunk) PROVE BufInv'
<1> USE SizesAssumption DEF SizesAssumption
<1>1. ~InHead /\ phase = "used" /\ Len(chunk) < irecvlen /\ irecvlen \in Nat
  BY SMTT(30) DEF BodyPart, Received, BufInv, TypeOK
<1>2. chunk \in Seq(Bytes) /\ Len(chunk) \in 1..irecvlen BY <1>1, ChunkIsSeq
<1>3. buf \in Bufs /\ Len(buf.bytes) + irecvlen = buf.size BY <1>1, BodyHasBuf
<1>4. /\ curStat' = "_PKG_BD_RECVING" /\ irecvlen' = irecvlen - Len(chunk)
      /\ buf' = [buf EXCEPT !.bytes = @ \o chunk]
      /\ UNCHANGED <<floodOn, flooded, phase, lastTime, count, head, owned>>
  BY DEF BodyPart, floodVars
<1>5. buf.bytes \o chunk \in Seq(Bytes)
        /\ Len(buf.bytes \o chunk) = Len(buf.bytes) + Len(chunk)
  BY <1>2, <1>3 DEF Bufs
<1>6. buf' \in Bufs /\ buf'.size = buf.size
        /\ Len(buf'.bytes) = Len(buf.bytes) + Len(chunk)
  BY <1>3, <1>4, <1>5 DEF Bufs
<1>a. irecvlen \in 1..MaxLen + HeadLen BY DEF BufInv, TypeOK
<1>7. irecvlen' \in 1..MaxLen + HeadLen BY SMTT(30), <1>a, <1>1, <1>2, <1>4
<1>8. head = <<>> BY <1>1 DEF BufInv, Held
<1>9. TypeOK'
  <2>1. (curStat = "_PKG_HD_INIT" <=> InHead /\ head = <<>>)' BY <1>4 DEF InHead
  <2>2. (curStat # "_PKG_BD_INIT" /\ curStat \in Stats)' BY <1>4 DEF Stats
  <2>3. QED BY <1>4, <1>7, <2>1, <2>2 DEF BufInv, TypeOK
<1>10. Len(buf.bytes) \in Nat /\ buf.size \in Nat BY <1>3 DEF Bufs
<1>11. WritesInside'
  <2>1. Len(chunk) \in Nat BY <1>2
  <2>2. Len(buf'.bytes) + irecvlen' = buf'.size
    <3>1. irecvlen' = irecvlen - Len(chunk) /\ irecvlen \in Nat BY <1>1, <1>4
    <3>2. Len(buf'.bytes) = Len(buf.bytes) + Len(chunk) /\ buf'.size = buf.size
      BY <1>6
    <3>3. Len(buf.bytes) + irecvlen = buf.size BY <1>3
    <3>4. QED BY <1>10, <2>1, <3>1, <3>2, <3>3
  <2>3. ~InHead' BY <1>4 DEF InHead
  <2>4. QED BY <2>2, <2>3 DEF WritesInside
<1>12. buf' # NoBuf /\ buf # NoBuf BY <1>3, <1>6, BufIsNotNull
<1>13. (BufferOwned /\ Held)'
  BY <1>1, <1>4, <1>6, <1>8, <1>12 DEF BufInv, BufferOwned, Held, InHead
<1>14. QED BY <1>9, <1>11, <1>13 DEF BufInv

(* The end of a body completes the packet, which is handed on.             *)
LEMMA BodyDoneBuf ==
  ASSUME BufInv, now \in Nat, NEW chunk \in Chunks(irecvlen), BodyDone(chunk)
  PROVE  BufInv'
<1>1. ~InHead /\ phase = "used" BY DEF BodyDone, Received
<1>2. buf # NoBuf BY <1>1, BodyHasBuf
<1>3. owned' = owned - (IF buf = NoBuf THEN 0 ELSE 1) BY <1>2 DEF BodyDone
<1>4. Deliver(buf.bytes \o chunk) /\ UNCHANGED <<floodOn, now>> BY DEF BodyDone
<1>5. QED BY <1>1, <1>3, <1>4, DeliverBuf

(* A step keeps what is known of the buffer.                               *)
LEMMA StepBufInv ==
  ASSUME BufInv, now \in Nat, [Next]_vars PROVE BufInv'
<1> USE SizesAssumption DEF SizesAssumption
<1>1. ASSUME Connect PROVE BufInv'
  <2>1. /\ phase' = "used" /\ curStat' = "_PKG_HD_INIT" /\ irecvlen' = HeadLen
        /\ head' = <<>> /\ buf' = NoBuf /\ lastTime' = 0 /\ count' = 0
        /\ flooded' = FALSE /\ UNCHANGED <<floodOn, owned>> /\ phase = "free"
    BY <1>1 DEF Connect
  <2>2. buf = NoBuf BY <2>1 DEF BufInv, Held
  <2>3. irecvlen' \in 1..MaxLen + HeadLen BY <2>1
  <2>4. TypeOK' BY <2>1, <2>3 DEF BufInv, TypeOK, Stats, InHead
  <2>5. (WritesInside /\ BufferOwned /\ Held)'
    BY <2>1, <2>2 DEF BufInv, WritesInside, BufferOwned, Held, InHead
  <2>6. QED BY <2>4, <2>5 DEF BufInv
<1>2. ASSUME Close PROVE BufInv'
  <2>1. /\ phase = "used" /\ phase' = "retired"
        /\ UNCHANGED <<floodOn, curStat, irecvlen, head, buf, lastTime, count,
                       flooded, owned>>
    BY <1>2 DEF Close, recvVars, floodVars, histVars
  <2>2. TypeOK' BY <2>1 DEF BufInv, TypeOK, InHead
  <2>3. (WritesInside /\ BufferOwned /\ Held)'
    BY <2>1 DEF BufInv, WritesInside, BufferOwned, Held, InHead
  <2>4. QED BY <2>2, <2>3 DEF BufInv
<1>3. ASSUME Recycle PROVE BufInv'
  <2>1. /\ phase' = "free" /\ buf' = NoBuf
        /\ owned' = owned - (IF buf = NoBuf THEN 0 ELSE 1)
        /\ UNCHANGED <<floodOn, curStat, irecvlen, head, lastTime, count, flooded>>
    BY <1>3 DEF Recycle, floodVars
  <2>2. owned' = 0 BY <2>1 DEF BufInv, BufferOwned
  <2>3. TypeOK' BY <2>1 DEF BufInv, TypeOK, InHead
  <2>4. (WritesInside /\ BufferOwned /\ Held)'
    BY <2>1, <2>2 DEF BufInv, WritesInside, BufferOwned, Held, InHead
  <2>5. QED BY <2>3, <2>4 DEF BufInv
<1>4. ASSUME ReadRequestHandler PROVE BufInv'
  <2>1. PICK chunk \in Chunks(irecvlen) :
          \/ HeadPart(chunk) \/ BadHead(chunk) \/ OnlyHead(chunk)
          \/ HeadThenBody(chunk) \/ BodyPart(chunk) \/ BodyDone(chunk)
    BY <1>4 DEF ReadRequestHandler
  <2>2. QED BY <2>1, HeadPartBuf, BadHeadBuf, OnlyHeadBuf, HeadThenBodyBuf,
               BodyPartBuf, BodyDoneBuf
<1>5. ASSUME Tick \/ SetBack \/ UNCHANGED vars PROVE BufInv'
  <2>1. UNCHANGED <<floodOn, curStat, irecvlen, head, buf, lastTime, count, phase,
                    flooded, owned>>
    BY <1>5 DEF Tick, SetBack, vars, recvVars, floodVars, histVars
  <2>2. TypeOK' BY <2>1 DEF BufInv, TypeOK, InHead
  <2>3. (WritesInside /\ BufferOwned /\ Held)'
    BY <2>1 DEF BufInv, WritesInside, BufferOwned, Held, InHead
  <2>4. QED BY <2>2, <2>3 DEF BufInv
<1>6. QED BY <1>1, <1>2, <1>3, <1>4, <1>5 DEF Next

-----------------------------------------------------------------------------
(* The clock stays where the bounds leave it.                              *)
ClockOK == now \in Interval..(MaxTime + Interval)

(* At the start the clock is within its bounds.                            *)
LEMMA InitClock == Init => ClockOK BY SizesAssumption DEF SizesAssumption, Init, ClockOK

(* A step keeps the clock within its bounds.                               *)
LEMMA StepClock ==
  ASSUME ClockOK, [Next]_vars PROVE ClockOK'
<1> USE SizesAssumption DEF SizesAssumption
<1>1. ASSUME Tick \/ SetBack PROVE ClockOK' BY <1>1 DEF Tick, SetBack, ClockOK
<1>2. ASSUME ReadRequestHandler PROVE UNCHANGED now
  BY <1>2 DEF ReadRequestHandler, HeadPart, BadHead, OnlyHead, HeadThenBody,
              BodyPart, BodyDone
<1>3. ASSUME Connect \/ Close \/ Recycle \/ UNCHANGED vars PROVE UNCHANGED now
  BY <1>3 DEF Connect, Close, Recycle, vars
<1>4. ASSUME UNCHANGED now PROVE ClockOK' BY <1>4 DEF ClockOK
<1>5. QED BY <1>1, <1>2, <1>3, <1>4 DEF Next

(* The fields of a connection fit each other and the buffer in every       *)
(* state.                                                                  *)
THEOREM BufferSafety == Spec => [](BufInv /\ ClockOK)
<1>1. Init => BufInv /\ ClockOK BY InitBufInv, InitClock
<1>2. BufInv /\ ClockOK /\ [Next]_vars => (BufInv /\ ClockOK)'
  <2>1. ClockOK => now \in Nat BY SizesAssumption DEF SizesAssumption, ClockOK
  <2>2. QED BY <2>1, StepBufInv, StepClock
<1>3. QED BY <1>1, <1>2, PTL DEF Spec

(* curStat says how far the packet has come: a header is begun, a body     *)
(* follows a whole header.                                                 *)
THEOREM StateSaysHowFar == Spec => []TypeOK
<1>1. BufInv => TypeOK BY DEF BufInv
<1>2. QED BY <1>1, BufferSafety, PTL

(* recv() is asked for no more than has room behind precvbuf, and for no   *)
(* byte of the next packet.                                                *)
THEOREM NoOverrun == Spec => []WritesInside
<1>1. BufInv => WritesInside BY DEF BufInv
<1>2. QED BY <1>1, BufferSafety, PTL

(* precvMemPointer is freed or given to the thread pool exactly once,      *)
(* wherever in a packet a client goes away.                                *)
THEOREM BuffersAccounted == Spec => []BufferOwned
<1>1. BufInv => BufferOwned BY DEF BufInv
<1>2. QED BY <1>1, BufferSafety, PTL

-----------------------------------------------------------------------------
(* FloodAttackCount is the length of the last run of packets that came     *)
(* each within Interval of the one before.                                 *)
Gap(ts, i) == ts[i] - ts[i - 1] \in 0..(Interval - 1)

Run(ts, n) ==
  /\ n < Len(ts) /\ \A i \in (Len(ts) - n + 1)..Len(ts) : Gap(ts, i)
  /\ Len(ts) - n = 1 \/ ~Gap(ts, Len(ts) - n)

FloodInv ==
  /\ floodOn \in BOOLEAN /\ times \in Seq(Nat) /\ count \in Nat /\ lastTime \in Nat
  /\ flooded <=> floodOn /\ count >= KickCount
  /\ floodOn /\ Len(times) = 0 => count = 0 /\ lastTime = 0
  /\ floodOn /\ Len(times) > 0 =>
       /\ lastTime = times[Len(times)] /\ lastTime \in Interval..(MaxTime + Interval)
       /\ Run(times, count)

(* The remainder of a small number, and of a small negative one.           *)
LEMMA Remainder ==
  ASSUME NEW w \in Nat \ {0}, NEW d \in Int, 0 - w <= d, d < w
  PROVE  d % w = IF d < 0 THEN d + w ELSE d
  BY SMT

(* The unsigned difference of two times is small just when the second is   *)
(* a little later than the first: when the clock was set back it wraps to  *)
(* a large number, and so it is for the first packet, with 0 for the time  *)
(* before.                                                                 *)
LEMMA UnsignedGap ==
  ASSUME NEW x \in Interval..(MaxTime + Interval), NEW y \in 0..(MaxTime + Interval)
  PROVE  (x - y) % Wrap < Interval <=> x - y \in 0..(Interval - 1)
<1> USE SizesAssumption DEF SizesAssumption
<1>1. Wrap \in Nat \ {0} /\ x - y \in Int /\ 0 - Wrap <= x - y /\ x - y < Wrap
  OBVIOUS
<1> DEFINE d == x - y
<1>2. d % Wrap = IF d < 0 THEN d + Wrap ELSE d BY <1>1, Remainder
<1>3. CASE d < 0
  <2>1. d % Wrap = d + Wrap BY <1>2, <1>3
  <2>2. d + Wrap >= Interval BY <1>1
  <2>3. QED BY <1>1, <1>3, <2>1, <2>2
<1>4. CASE d >= 0
  <2>1. d % Wrap = d BY <1>1, <1>2, <1>4
  <2>2. QED BY <1>1, <1>4, <2>1
<1>5. QED BY <1>1, <1>3, <1>4

(* One more packet makes the run longer or ends it.                        *)
LEMMA RunGrows ==
  ASSUME NEW ts \in Seq(Nat), NEW n \in Nat, NEW x \in Nat, Len(ts) > 0,
         Run(ts, n), x - ts[Len(ts)] \in 0..(Interval - 1)
  PROVE  Run(Append(ts, x), n + 1)
<1> DEFINE us == Append(ts, x)
<1>1. /\ Len(us) = Len(ts) + 1 /\ us[Len(ts) + 1] = x /\ Len(ts) \in Nat
      /\ \A i \in 1..Len(ts) : us[i] = ts[i]
  OBVIOUS
<1> HIDE DEF us
<1>2. \A i \in 2..Len(ts) : Gap(us, i) <=> Gap(ts, i)
  <2> TAKE i \in 2..Len(ts)
  <2>1. i \in 1..Len(ts) /\ i - 1 \in 1..Len(ts) BY <1>1
  <2>2. us[i] = ts[i] /\ us[i - 1] = ts[i - 1] BY <1>1, <2>1
  <2>3. QED BY <2>2 DEF Gap
<1>3. Gap(us, Len(ts) + 1)
  <2>1. Len(ts) \in 1..Len(ts) /\ (Len(ts) + 1) - 1 = Len(ts) BY <1>1
  <2>2. QED BY <1>1, <2>1 DEF Gap
<1>4. n < Len(ts) /\ Len(us) - (n + 1) = Len(ts) - n BY <1>1 DEF Run
<1>5. \A i \in (Len(us) - (n + 1) + 1)..Len(us) : Gap(us, i)
  <2> TAKE i \in (Len(us) - (n + 1) + 1)..Len(us)
  <2>1. CASE i = Len(ts) + 1 BY <1>3, <2>1
  <2>2. CASE i # Len(ts) + 1
    <3>1. i \in (Len(ts) - n + 1)..Len(ts) /\ i \in 2..Len(ts) BY <1>1, <1>4, <2>2
    <3>2. QED BY <1>2, <3>1 DEF Run
  <2>3. QED BY <2>1, <2>2
<1>6. Len(us) - (n + 1) = 1 \/ ~Gap(us, Len(us) - (n + 1))
  <2>1. CASE Len(ts) - n = 1 BY <1>4, <2>1
  <2>2. CASE Len(ts) - n # 1
    <3>1. Len(ts) - n \in 2..Len(ts)
      <4>1. Len(ts) \in Nat /\ n < Len(ts) BY <1>1, <1>4
      <4>2. QED BY <2>2, <4>1
    <3>2. ~Gap(ts, Len(ts) - n) BY <2>2 DEF Run
    <3>3. QED BY <1>2, <1>4, <3>1, <3>2
  <2>3. QED BY <2>1, <2>2
<1>7. n + 1 < Len(us) BY <1>1, <1>4
<1>8. QED BY <1>5, <1>6, <1>7 DEF Run, us

(* A packet that comes late begins a run of its own.                       *)
LEMMA RunEnds ==
  ASSUME NEW ts \in Seq(Nat), NEW x \in Nat,
         Len(ts) = 0 \/ x - ts[Len(ts)] \notin 0..(Interval - 1)
  PROVE  Run(Append(ts, x), 0)
<1> DEFINE us == Append(ts, x)
<1>1. /\ Len(us) = Len(ts) + 1 /\ us[Len(ts) + 1] = x /\ Len(ts) \in Nat
      /\ \A i \in 1..Len(ts) : us[i] = ts[i]
  OBVIOUS
<1> HIDE DEF us
<1>2. CASE Len(ts) = 0 BY <1>1, <1>2 DEF Run, us
<1>3. CASE Len(ts) # 0
  <2>1. Len(ts) \in 1..Len(ts) /\ (Len(ts) + 1) - 1 = Len(ts) BY <1>1, <1>3
  <2>2. ~Gap(us, Len(ts) + 1) BY <1>1, <1>3, <2>1 DEF Gap
  <2>3. Len(us) - 0 = Len(ts) + 1 /\ (Len(us) - 0 + 1)..Len(us) = {} BY <1>1
  <2>4. 0 < Len(us) BY <1>1
  <2>5. QED BY <2>2, <2>3, <2>4 DEF Run, us
<1>4. QED BY <1>2, <1>3

(* A packet handed on keeps the counter equal to the run of quick packets. *)
LEMMA DeliverFlood ==
  ASSUME FloodInv, ClockOK, NEW bytes, Deliver(bytes), UNCHANGED <<floodOn, now>>
  PROVE  FloodInv'
<1> USE SizesAssumption DEF SizesAssumption
<1>1. /\ count' = NewCount /\ lastTime' = (IF floodOn THEN now ELSE lastTime)
      /\ times' = Append(times, now) /\ flooded' = IsFlood
  BY DEF Deliver
<1>2. now \in Interval..(MaxTime + Interval) /\ now \in Nat BY DEF ClockOK
<1>3. NewCount \in Nat BY DEF NewCount, FloodInv
<1>4. times' \in Seq(Nat) /\ Len(times') = Len(times) + 1
        /\ times'[Len(times) + 1] = now /\ Len(times) \in Nat
  BY <1>1, <1>2 DEF FloodInv
<1>5. flooded' <=> floodOn /\ count' >= KickCount BY <1>1 DEF IsFlood
<1>6. count' \in Nat /\ lastTime' \in Nat /\ floodOn' \in BOOLEAN
  BY <1>1, <1>2, <1>3 DEF FloodInv
<1>7. ASSUME floodOn PROVE Run(times', count')
  <2>1. CASE Len(times) = 0
    <3>1. lastTime = 0 BY <1>7, <2>1 DEF FloodInv
    <3>2. ~(now - lastTime \in 0..(Interval - 1)) BY <1>2, <3>1
    <3>3. lastTime \in 0..(MaxTime + Interval) BY <3>1
    <3>4. ~(Elapsed < Interval) BY <1>2, <3>2, <3>3, UnsignedGap DEF Elapsed
    <3>5. count' = 0 BY <1>1, <1>7, <3>4 DEF NewCount
    <3>6. times \in Seq(Nat) BY DEF FloodInv
    <3>7. QED BY <1>1, <1>2, <2>1, <3>5, <3>6, RunEnds
  <2>2. CASE Len(times) > 0
    <3>1. /\ lastTime = times[Len(times)] /\ lastTime \in 0..(MaxTime + Interval)
          /\ Run(times, count)
      <4>1. lastTime = times[Len(times)] /\ Run(times, count)
              /\ lastTime \in Interval..(MaxTime + Interval)
        BY <1>7, <2>2 DEF FloodInv
      <4>2. QED BY <4>1
    <3>2. Elapsed < Interval <=> now - times[Len(times)] \in 0..(Interval - 1)
      BY <1>2, <3>1, UnsignedGap DEF Elapsed
    <3>3. times \in Seq(Nat) /\ count \in Nat BY DEF FloodInv
    <3>4. CASE Elapsed < Interval
      <4>1. count' = count + 1 BY <1>1, <1>7, <3>4 DEF NewCount
      <4>2. QED BY <1>1, <1>2, <2>2, <3>1, <3>2, <3>3, <3>4, <4>1, RunGrows
    <3>5. CASE ~(Elapsed < Interval)
      <4>1. count' = 0 BY <1>1, <1>7, <3>5 DEF NewCount
      <4>2. QED BY <1>1, <1>2, <3>2, <3>3, <3>5, <4>1, RunEnds
    <3>6. QED BY <3>4, <3>5
  <2>3. QED BY <1>4, <2>1, <2>2
<1>8. ASSUME floodOn
      PROVE lastTime' = times'[Len(times')] /\ lastTime' \in Interval..(MaxTime + Interval)
  BY <1>1, <1>2, <1>4, <1>8
<1>9. Len(times') # 0 BY <1>4
<1>10. floodOn' = floodOn OBVIOUS
<1>11. (flooded <=> floodOn /\ count >= KickCount)' BY <1>5, <1>10
<1>12. QED BY <1>4, <1>6, <1>7, <1>8, <1>9, <1>10, <1>11 DEF FloodInv

(* A step keeps the counter equal to the run of quick packets.             *)
LEMMA StepFloodInv ==
  ASSUME FloodInv, ClockOK, [Next]_vars PROVE FloodInv'
<1> USE SizesAssumption DEF SizesAssumption
<1>1. ASSUME Connect PROVE FloodInv'
  <2>1. /\ times' = <<>> /\ count' = 0 /\ lastTime' = 0 /\ flooded' = FALSE
        /\ UNCHANGED floodOn
    BY <1>1 DEF Connect
  <2>2. times' \in Seq(Nat) /\ Len(times') = 0 BY <2>1
  <2>3. ~(count' >= KickCount) BY <2>1
  <2>4. (flooded <=> floodOn /\ count >= KickCount)' BY <2>1, <2>3
  <2>5. QED BY <2>1, <2>2, <2>4 DEF FloodInv
<1>2. ASSUME NEW chunk, OnlyHead(chunk) \/ BodyDone(chunk) PROVE FloodInv'
  BY <1>2, DeliverFlood DEF OnlyHead, BodyDone
<1>3. ASSUME UNCHANGED <<floodOn, times, count, lastTime, flooded>> PROVE FloodInv'
  BY <1>3 DEF FloodInv
<1>4. ASSUME NEW chunk,
             HeadPart(chunk) \/ BadHead(chunk) \/ HeadThenBody(chunk) \/ BodyPart(chunk)
      PROVE UNCHANGED <<floodOn, times, count, lastTime, flooded>>
  BY <1>4 DEF HeadPart, BadHead, HeadThenBody, BodyPart, floodVars
<1>5. ASSUME Close \/ Recycle \/ Tick \/ SetBack \/ UNCHANGED vars
      PROVE UNCHANGED <<floodOn, times, count, lastTime, flooded>>
  BY <1>5 DEF Close, Recycle, Tick, SetBack, vars, floodVars, histVars
<1>6. QED BY <1>1, <1>2, <1>3, <1>4, <1>5 DEF Next, ReadRequestHandler

(* At the start there is no packet and no run.                             *)
LEMMA InitFloodInv == Init => FloodInv
<1> SUFFICES ASSUME Init PROVE FloodInv OBVIOUS
<1> USE SizesAssumption DEF SizesAssumption
<1>1. times \in Seq(Nat) /\ Len(times) = 0 BY DEF Init
<1>2. flooded <=> floodOn /\ count >= KickCount BY DEF Init
<1>3. QED BY <1>1, <1>2 DEF Init, FloodInv

(* A flood is told from other clients by exactly its last KickCount + 1    *)
(* packets, even when the clock is set back between them.                  *)
LEMMA FloodInvExact == FloodInv => FloodExact
<1> SUFFICES ASSUME FloodInv
             PROVE flooded <=>
                     /\ floodOn /\ Len(times) > KickCount
                     /\ \A i \in (Len(times) - KickCount + 1)..Len(times) : Gap(times, i)
  BY DEF FloodExact, Gap
<1> USE SizesAssumption DEF SizesAssumption
<1>1. Len(times) \in Nat /\ count \in Nat
        /\ (flooded <=> floodOn /\ count >= KickCount)
  BY DEF FloodInv
<1>2. ASSUME floodOn, count >= KickCount
      PROVE  /\ Len(times) > KickCount
             /\ \A i \in (Len(times) - KickCount + 1)..Len(times) : Gap(times, i)
  <2>1. Len(times) > 0 BY <1>1, <1>2 DEF FloodInv
  <2>2. Run(times, count) BY <1>2, <2>1 DEF FloodInv
  <2>3. count < Len(times) BY <2>2 DEF Run
  <2>4. \A i \in (Len(times) - KickCount + 1)..Len(times) :
          i \in (Len(times) - count + 1)..Len(times)
    BY <1>1, <1>2
  <2>5. QED BY <1>1, <1>2, <2>2, <2>3, <2>4 DEF Run
<1>3. ASSUME floodOn, count < KickCount, Len(times) > KickCount
      PROVE  \E i \in (Len(times) - KickCount + 1)..Len(times) : ~Gap(times, i)
  <2>1. Run(times, count) BY <1>1, <1>3 DEF FloodInv
  <2>2. Len(times) - count # 1 BY <1>1, <1>3
  <2>3. ~Gap(times, Len(times) - count) BY <2>1, <2>2 DEF Run
  <2>4. Len(times) - count \in (Len(times) - KickCount + 1)..Len(times) BY <1>1, <1>3
  <2>5. QED BY <2>3, <2>4
<1>4. QED BY <1>1, <1>2, <1>3

(* TestFlood() cuts off a client exactly when its last KickCount + 1       *)
(* packets came each within Interval of the one before; what the client    *)
(* before it did does not count, nor does a clock that is set back.        *)
THEOREM FloodsAreFloods == Spec => []FloodExact
<1>1. Init => FloodInv /\ ClockOK BY InitFloodInv, InitClock
<1>2. FloodInv /\ ClockOK /\ [Next]_vars => (FloodInv /\ ClockOK)'
  BY StepFloodInv, StepClock
<1>3. FloodInv => FloodExact BY FloodInvExact
<1>4. QED BY <1>1, <1>2, <1>3, PTL DEF Spec

-----------------------------------------------------------------------------
(* Every nonempty set of natural numbers has a least element.              *)
LEMMA LeastElement ==
  ASSUME NEW T \in SUBSET Nat, T # {} PROVE \E x \in T : \A y \in T : x <= y
<1> DEFINE R == OpToRel(<, Nat)
<1>1. \A x, y \in Nat : x < y => <<x, y>> \in R BY DEF OpToRel
<1>2. IsWellFoundedOn(R, Nat) BY NatLessThanWellFounded
<1> HIDE DEF R
<1>3. PICK x \in T : \A y \in T : ~(<<y, x>> \in R) BY <1>2, WFMin
<1>4. \A y \in T : ~(y < x) BY <1>1, <1>3
<1>5. QED BY <1>3, <1>4

(* What holds of a position when it holds of all those behind it, holds of *)
(* every position: otherwise there is a last one of which it does not.     *)
LEMMA FromTheEnd ==
  ASSUME NEW n \in Nat, NEW S,
         \A i \in 1..n : (\A j \in (i + 1)..n : j \in S) => i \in S
  PROVE  \A i \in 1..n : i \in S
<1> SUFFICES ASSUME NEW i0 \in 1..n, i0 \notin S PROVE FALSE OBVIOUS
<1> DEFINE T == {n - i : i \in {k \in 1..n : k \notin S}}
<1>1. T \in SUBSET Nat /\ T # {} OBVIOUS
<1>2. PICK d \in T : \A e \in T : d <= e BY <1>1, LeastElement
<1>3. PICK i \in 1..n : i \notin S /\ d = n - i OBVIOUS
<1>4. \A j \in (i + 1)..n : j \in S
  <2> SUFFICES ASSUME NEW j \in (i + 1)..n, j \notin S PROVE FALSE OBVIOUS
  <2>1. n - j \in T OBVIOUS
  <2>2. d <= n - j BY <1>2, <2>1
  <2>3. QED BY <1>3, <2>2
<1>5. QED BY <1>3, <1>4

-----------------------------------------------------------------------------
(* The packets from position i on, when f gives those from a later one.    *)
Place(bytes, f, i) ==
  IF i + HeadLen - 1 > Len(bytes) THEN <<>>
  ELSE IF ~Legal(bytes[i]) THEN f[i + HeadLen]
  ELSE IF i + bytes[i] - 1 > Len(bytes) THEN <<>>
  ELSE <<SubSeq(bytes, i, i + bytes[i] - 1)>> \o f[i + bytes[i]]

Streams == Seq(Bytes)

(* A byte of a stream is a number.                                         *)
LEMMA ByteIsNat ==
  ASSUME NEW b \in Streams, NEW i \in 1..Len(b) PROVE b[i] \in Nat
<1>1. b[i] \in Bytes BY DEF Streams
<1>2. QED BY <1>1, SizesAssumption DEF SizesAssumption

(* Where a position leads to is behind it, and at most just behind the     *)
(* stream.                                                                 *)
LEMMA PlaceJumps ==
  ASSUME NEW b \in Streams, NEW i \in 1..(Len(b) + 1), i + HeadLen - 1 <= Len(b)
  PROVE  /\ i \in 1..Len(b) /\ b[i] \in Nat
         /\ i + HeadLen \in (i + 1)..(Len(b) + 1)
         /\ Legal(b[i]) /\ i + b[i] - 1 <= Len(b) =>
              i + b[i] \in (i + 1)..(Len(b) + 1)
<1> USE SizesAssumption DEF SizesAssumption
<1>1. Len(b) \in Nat BY DEF Streams
<1>2. i \in 1..Len(b) BY <1>1
<1>3. b[i] \in Nat BY <1>2, ByteIsNat
<1>4. QED BY <1>1, <1>2, <1>3 DEF Legal

(* What starts at a place depends only on what starts behind it.           *)
LEMMA PlaceIsLocal ==
  ASSUME NEW b \in Streams, NEW i \in 1..(Len(b) + 1), NEW f, NEW g,
         \A j \in (i + 1)..(Len(b) + 1) : f[j] = g[j]
  PROVE  Place(b, f, i) = Place(b, g, i)
<1>1. CASE i + HeadLen - 1 > Len(b) BY <1>1 DEF Place
<1>2. CASE ~(i + HeadLen - 1 > Len(b))
  <2>1. i + HeadLen - 1 <= Len(b)
    BY <1>2, SizesAssumption DEF SizesAssumption, Streams
  <2>2. /\ i + HeadLen \in (i + 1)..(Len(b) + 1) /\ b[i] \in Nat
        /\ Legal(b[i]) /\ i + b[i] - 1 <= Len(b) => i + b[i] \in (i + 1)..(Len(b) + 1)
    BY <2>1, PlaceJumps
  <2>3. Len(b) \in Nat BY DEF Streams
  <2>4. f[i + HeadLen] = g[i + HeadLen] BY <2>2
  <2>5. Legal(b[i]) /\ ~(i + b[i] - 1 > Len(b)) => f[i + b[i]] = g[i + b[i]]
    BY <2>2, <2>3
  <2>6. QED BY <2>4, <2>5 DEF Place
<1>3. QED BY <1>1, <1>2

(* What starts at a place is packets, if what starts behind it is.         *)
LEMMA PlaceIsPackets ==
  ASSUME NEW b \in Streams, NEW i \in 1..(Len(b) + 1), NEW f,
         \A j \in (i + 1)..(Len(b) + 1) : f[j] \in Seq(Streams)
  PROVE  Place(b, f, i) \in Seq(Streams)
<1>1. CASE i + HeadLen - 1 > Len(b) BY <1>1 DEF Place
<1>2. CASE ~(i + HeadLen - 1 > Len(b))
  <2>1. i + HeadLen - 1 <= Len(b)
    BY <1>2, SizesAssumption DEF SizesAssumption, Streams
  <2>2. /\ i + HeadLen \in (i + 1)..(Len(b) + 1) /\ b[i] \in Nat
        /\ Legal(b[i]) /\ i + b[i] - 1 <= Len(b) => i + b[i] \in (i + 1)..(Len(b) + 1)
    BY <2>1, PlaceJumps
  <2>3. Len(b) \in Nat BY DEF Streams
  <2>4. f[i + HeadLen] \in Seq(Streams) BY <2>2
  <2>5. ASSUME Legal(b[i]), ~(i + b[i] - 1 > Len(b))
        PROVE  <<SubSeq(b, i, i + b[i] - 1)>> \o f[i + b[i]] \in Seq(Streams)
    <3>1. i + b[i] - 1 <= Len(b) BY <2>2, <2>3, <2>5
    <3>2. f[i + b[i]] \in Seq(Streams) BY <2>2, <2>5, <3>1
    <3>3. \A k \in i..(i + b[i] - 1) : b[k] \in Bytes
      BY <2>2, <2>3, <3>1 DEF Streams
    <3>4. i \in Int /\ i + b[i] - 1 \in Int BY <2>2
    <3>5. SubSeq(b, i, i + b[i] - 1) \in Streams
      BY <3>3, <3>4, SubSeqProperties DEF Streams
    <3>6. <<SubSeq(b, i, i + b[i] - 1)>> \in Seq(Streams) BY <3>5
    <3>7. QED BY <3>2, <3>6, ConcatProperties
  <2>6. QED BY <2>4, <2>5 DEF Place
<1>3. QED BY <1>1, <1>2

(* There is a function as PacketsFrom defines it: one that is right from   *)
(* some position on is made right at the position before.                  *)
LEMMA PacketsFromExists ==
  ASSUME NEW b \in Streams
  PROVE  \E f : f = [i \in 1..(Len(b) + 1) |-> Place(b, f, i)]
<1> DEFINE n == Len(b) + 1
           Right(f, k) == \A i \in k..n : f[i] = Place(b, f, i)
           S == {k \in 1..n : \E f \in [1..n -> Seq(Streams)] : Right(f, k)}
<1>1. n \in Nat /\ 1 \in 1..n BY DEF Streams
<1>2. ASSUME NEW k \in 1..n, \A j \in (k + 1)..n : j \in S PROVE k \in S
  <2>1. PICK f \in [1..n -> Seq(Streams)] : Right(f, k + 1)
    <3>1. CASE k = n
      <4>1. [i \in 1..n |-> <<>>] \in [1..n -> Seq(Streams)] OBVIOUS
      <4>2. (k + 1)..n = {} BY <1>1, <3>1
      <4>3. QED BY <4>1, <4>2
    <3>2. CASE k # n
      <4>1. k + 1 \in (k + 1)..n BY <1>1, <3>2
      <4>2. QED BY <1>2, <4>1
    <3>3. QED BY <3>1, <3>2
  <2> DEFINE g == [f EXCEPT ![k] = Place(b, f, k)]
  <2>2. \A j \in (k + 1)..n : f[j] \in Seq(Streams) BY <1>1
  <2>3. Place(b, f, k) \in Seq(Streams) BY <2>2, PlaceIsPackets
  <2>4. g \in [1..n -> Seq(Streams)] BY <2>3
  <2>5. g[k] = Place(b, f, k) /\ \A j \in (k + 1)..n : g[j] = f[j] BY <1>1
  <2> HIDE DEF g
  <2>6. \A i \in k..n : Place(b, g, i) = Place(b, f, i)
    <3> TAKE i \in k..n
    <3>1. i \in 1..n /\ \A j \in (i + 1)..n : g[j] = f[j] BY <1>1, <2>5
    <3>2. QED BY <3>1, PlaceIsLocal
  <2>7. \A i \in k..n : g[i] = Place(b, g, i)
    <3> TAKE i \in k..n
    <3>1. CASE i = k BY <2>5, <2>6, <3>1
    <3>2. CASE i # k
      <4>1. i \in (k + 1)..n BY <1>1, <3>2
      <4>2. g[i] = f[i] /\ f[i] = Place(b, f, i) BY <2>1, <2>5, <4>1
      <4>3. QED BY <2>6, <4>2
    <3>3. QED BY <3>1, <3>2
  <2>8. QED BY <2>4, <2>7
<1> HIDE DEF S
<1>3. \A k \in 1..n : k \in S BY <1>1, <1>2, FromTheEnd
<1>4. PICK f \in [1..n -> Seq(Streams)] : Right(f, 1) BY <1>1, <1>3 DEF S
<1>5. f = [i \in 1..n |-> Place(b, f, i)] BY <1>4
<1>6. QED BY <1>5

(* The packets from a place on are what their definition says.             *)
LEMMA PacketsFromUnfolds ==
  ASSUME NEW b \in Streams, NEW i \in 1..(Len(b) + 1)
  PROVE  PacketsFrom(b)[i] = Place(b, PacketsFrom(b), i)
<1>1. PacketsFrom(b) = CHOOSE f : f = [k \in 1..(Len(b) + 1) |-> Place(b, f, k)]
  BY DEF PacketsFrom, Place
<1>2. PacketsFrom(b) = [k \in 1..(Len(b) + 1) |-> Place(b, PacketsFrom(b), k)]
  BY <1>1, PacketsFromExists
<1>3. QED BY <1>2

(* The packets from a place on are streams.                                *)
LEMMA PacketsFromType ==
  ASSUME NEW b \in Streams
  PROVE  \A i \in 1..(Len(b) + 1) : PacketsFrom(b)[i] \in Seq(Streams)
<1> DEFINE n == Len(b) + 1
           S == {i \in 1..n : PacketsFrom(b)[i] \in Seq(Streams)}
<1>1. n \in Nat BY DEF Streams
<1>2. ASSUME NEW i \in 1..n, \A j \in (i + 1)..n : j \in S PROVE i \in S
  BY <1>2, PlaceIsPackets, PacketsFromUnfolds
<1> HIDE DEF S
<1>3. \A i \in 1..n : i \in S BY <1>1, <1>2, FromTheEnd
<1>4. QED BY <1>3 DEF S

(* The packets of a stream are streams.                                    *)
LEMMA PacketsType == ASSUME NEW b \in Streams PROVE Packets(b) \in Seq(Streams)
<1>1. 1 \in 1..(Len(b) + 1) BY DEF Streams
<1>2. QED BY <1>1, PacketsFromType DEF Packets

(* Two streams one after the other: their bytes and their length.          *)
LEMMA StreamConcat ==
  ASSUME NEW f \in Streams, NEW c \in Streams
  PROVE  /\ f \o c \in Streams /\ Len(f \o c) = Len(f) + Len(c)
         /\ Len(f) \in Nat /\ Len(c) \in Nat
         /\ \A i \in 1..Len(f) : (f \o c)[i] = f[i]
         /\ \A i \in 1..Len(c) : (f \o c)[Len(f) + i] = c[i]
  BY DEF Streams

(* A part of the second of two streams, found in both together.            *)
LEMMA StreamPart ==
  ASSUME NEW f \in Streams, NEW c \in Streams, NEW i \in 1..Len(c), NEW j \in i..Len(c)
  PROVE  SubSeq(f \o c, Len(f) + i, Len(f) + j) = SubSeq(c, i, j)
<1>1. Len(f) \in Nat /\ Len(c) \in Nat BY StreamConcat
<1>2. Len(f) + i \in Len(f)+1 .. Len(f)+Len(c) /\ Len(f) + j \in Len(f)+1 .. Len(f)+Len(c)
  BY <1>1
<1>3. (Len(f) + i) - Len(f) = i /\ (Len(f) + j) - Len(f) = j BY <1>1
<1>4. f \in Seq(Bytes) /\ c \in Seq(Bytes) BY DEF Streams
<1>5. SubSeq(f \o c, Len(f) + i, Len(f) + j)
        = SubSeq(c, (Len(f) + i) - Len(f), (Len(f) + j) - Len(f))
  BY <1>2, <1>4, SubSeqOfConcat2
<1>6. QED BY <1>3, <1>5

(* The packets behind a position of a stream do not depend on the bytes    *)
(* before it.                                                              *)
LEMMA PlaceShifts ==
  ASSUME NEW f \in Streams, NEW c \in Streams, NEW i \in 1..(Len(c) + 1), NEW p, NEW q,
         \A j \in (i + 1)..(Len(c) + 1) : p[Len(f) + j] = q[j]
  PROVE  Place(f \o c, p, Len(f) + i) = Place(c, q, i)
<1> DEFINE b == f \o c
           l == Len(f)
<1> USE SizesAssumption DEF SizesAssumption
<1>1. /\ b \in Streams /\ Len(b) = l + Len(c) /\ l \in Nat /\ Len(c) \in Nat
      /\ \A k \in 1..Len(c) : b[l + k] = c[k]
  BY StreamConcat
<1> HIDE DEF b, l
<1>2. l + i + HeadLen - 1 > Len(b) <=> i + HeadLen - 1 > Len(c) BY <1>1
<1>3. CASE i + HeadLen - 1 > Len(c) BY <1>2, <1>3 DEF Place, b, l
<1>4. CASE ~(i + HeadLen - 1 > Len(c))
  <2>1. i + HeadLen - 1 <= Len(c) BY <1>1, <1>4
  <2>2. /\ i \in 1..Len(c) /\ c[i] \in Nat /\ i + HeadLen \in (i + 1)..(Len(c) + 1)
        /\ Legal(c[i]) /\ i + c[i] - 1 <= Len(c) => i + c[i] \in (i + 1)..(Len(c) + 1)
    BY <2>1, PlaceJumps
  <2>3. b[l + i] = c[i] BY <1>1, <2>2
  <2>4. p[l + i + HeadLen] = q[i + HeadLen]
    <3>1. l + i + HeadLen = l + (i + HeadLen) BY <1>1
    <3>2. QED BY <2>2, <3>1 DEF l
  <2>5. l + i + c[i] - 1 > Len(b) <=> i + c[i] - 1 > Len(c) BY SMTT(30), <1>1, <2>2
  <2>6. ASSUME Legal(c[i]), ~(i + c[i] - 1 > Len(c))
        PROVE  /\ p[l + i + c[i]] = q[i + c[i]]
               /\ SubSeq(b, l + i, l + i + c[i] - 1) = SubSeq(c, i, i + c[i] - 1)
    <3>1. i + c[i] - 1 <= Len(c) BY <1>1, <2>2, <2>6
    <3>a. l \in Nat /\ i \in Nat /\ c[i] \in Nat BY <1>1, <2>2
    <3>2. l + i + c[i] = l + (i + c[i]) /\ l + i + c[i] - 1 = l + (i + c[i] - 1)
      BY <3>a
    <3>3. p[l + (i + c[i])] = q[i + c[i]] BY <2>2, <2>6, <3>1 DEF l
    <3>b. i + c[i] \in (i + 1)..(Len(c) + 1) BY <2>2, <2>6, <3>1
    <3>4. i + c[i] - 1 \in i..Len(c) BY SMTT(30), <1>1, <3>a, <3>b
    <3>5. SubSeq(b, l + i, l + (i + c[i] - 1)) = SubSeq(c, i, i + c[i] - 1)
      BY <2>2, <3>4, StreamPart DEF b, l
    <3>6. QED BY <3>2, <3>3, <3>5
  <2>7. Place(b, p, l + i) =
          IF ~Legal(c[i]) THEN p[l + i + HeadLen]
          ELSE IF i + c[i] - 1 > Len(c) THEN <<>>
          ELSE <<SubSeq(b, l + i, l + i + c[i] - 1)>> \o p[l + i + c[i]]
    BY <1>2, <1>4, <2>3, <2>5 DEF Place
  <2>8. Place(c, q, i) =
          IF ~Legal(c[i]) THEN q[i + HeadLen]
          ELSE IF i + c[i] - 1 > Len(c) THEN <<>>
          ELSE <<SubSeq(c, i, i + c[i] - 1)>> \o q[i + c[i]]
    BY <1>4 DEF Place
  <2>9. Place(b, p, l + i) = Place(c, q, i)
    <3>1. CASE ~Legal(c[i]) BY <2>4, <2>7, <2>8, <3>1
    <3>2. CASE Legal(c[i]) /\ i + c[i] - 1 > Len(c) BY <2>7, <2>8, <3>2
    <3>3. CASE Legal(c[i]) /\ ~(i + c[i] - 1 > Len(c)) BY <2>6, <2>7, <2>8, <3>3
    <3>4. QED BY <3>1, <3>2, <3>3
  <2>10. QED BY <2>9 DEF b, l
<1>5. QED BY <1>3, <1>4

(* The packets from a place on do not depend on what comes before it.      *)
LEMMA PacketsFromShifts ==
  ASSUME NEW f \in Streams, NEW c \in Streams
  PROVE  \A i \in 1..(Len(c) + 1) : PacketsFrom(f \o c)[Len(f) + i] = PacketsFrom(c)[i]
<1> DEFINE n == Len(c) + 1
           S == {i \in 1..n : PacketsFrom(f \o c)[Len(f) + i] = PacketsFrom(c)[i]}
<1>1. /\ n \in Nat /\ f \o c \in Streams /\ Len(f \o c) = Len(f) + Len(c)
      /\ Len(f) \in Nat /\ Len(c) \in Nat
  BY StreamConcat
<1>2. ASSUME NEW i \in 1..n, \A j \in (i + 1)..n : j \in S PROVE i \in S
  <2>1. PacketsFrom(c)[i] = Place(c, PacketsFrom(c), i) BY PacketsFromUnfolds
  <2>2. Len(f) + i \in 1..(Len(f \o c) + 1) BY <1>1
  <2>3. PacketsFrom(f \o c)[Len(f) + i] = Place(f \o c, PacketsFrom(f \o c), Len(f) + i)
    BY <1>1, <2>2, PacketsFromUnfolds
  <2>4. \A j \in (i + 1)..(Len(c) + 1) :
          PacketsFrom(f \o c)[Len(f) + j] = PacketsFrom(c)[j]
    BY <1>2
  <2>5. Place(f \o c, PacketsFrom(f \o c), Len(f) + i) = Place(c, PacketsFrom(c), i)
    BY <2>4, PlaceShifts
  <2>6. QED BY <2>1, <2>3, <2>5
<1> HIDE DEF S
<1>3. \A i \in 1..n : i \in S BY <1>1, <1>2, FromTheEnd
<1>4. QED BY <1>3 DEF S

-----------------------------------------------------------------------------
(* What the packets of a stream are: an incomplete header or packet is     *)
(* none, a header with a length no packet has is skipped, and a packet     *)
(* comes before those of the rest.                                         *)
LEMMA NoPacketYet ==
  ASSUME NEW c \in Streams,
         Len(c) < HeadLen \/ (Len(c) >= HeadLen /\ Legal(c[1]) /\ Len(c) < c[1])
  PROVE  Packets(c) = <<>>
<1> USE SizesAssumption DEF SizesAssumption
<1>1. Len(c) \in Nat /\ 1 \in 1..(Len(c) + 1) BY DEF Streams
<1>2. Packets(c) = Place(c, PacketsFrom(c), 1)
  BY <1>1, PacketsFromUnfolds DEF Packets
<1>3. CASE Len(c) < HeadLen
  <2>1. 1 + HeadLen - 1 > Len(c) BY <1>1, <1>3
  <2>2. QED BY <1>2, <2>1 DEF Place
<1>4. CASE Len(c) >= HeadLen /\ Legal(c[1]) /\ Len(c) < c[1]
  <2>1. ~(1 + HeadLen - 1 > Len(c)) BY <1>1, <1>4
  <2>2. c[1] \in Nat
    <3>1. 1 \in 1..Len(c) BY <1>1, <1>4
    <3>2. QED BY <3>1, ByteIsNat
  <2>3. 1 + c[1] - 1 > Len(c) BY <1>1, <1>4, <2>2
  <2>4. QED BY <1>2, <1>4, <2>1, <2>3 DEF Place
<1>5. QED BY <1>3, <1>4

(* A header that cannot be, at the beginning of a stream, is skipped.      *)
LEMMA SkippedHead ==
  ASSUME NEW h \in Streams, NEW c \in Streams, Len(h) = HeadLen, ~Legal(h[1])
  PROVE  Packets(h \o c) = Packets(c)
<1> USE SizesAssumption DEF SizesAssumption
<1>1. /\ h \o c \in Streams /\ Len(h \o c) = Len(h) + Len(c) /\ Len(c) \in Nat
      /\ \A i \in 1..Len(h) : (h \o c)[i] = h[i]
  BY StreamConcat
<1>2. 1 \in 1..(Len(h \o c) + 1) /\ 1 \in 1..Len(h) /\ 1 \in 1..(Len(c) + 1) BY <1>1
<1>3. Packets(h \o c) = Place(h \o c, PacketsFrom(h \o c), 1)
  BY <1>1, <1>2, PacketsFromUnfolds DEF Packets
<1>4. ~(1 + HeadLen - 1 > Len(h \o c)) BY <1>1
<1>5. ~Legal((h \o c)[1]) BY <1>1, <1>2
<1>6. Packets(h \o c) = PacketsFrom(h \o c)[1 + HeadLen]
  BY <1>3, <1>4, <1>5 DEF Place
<1>7. PacketsFrom(h \o c)[Len(h) + 1] = PacketsFrom(c)[1]
  BY <1>2, PacketsFromShifts
<1>8. 1 + HeadLen = Len(h) + 1 OBVIOUS
<1>9. QED BY <1>6, <1>7, <1>8 DEF Packets

(* A whole packet at the beginning of a stream is the first of its         *)
(* packets.                                                                *)
LEMMA TakenPacket ==
  ASSUME NEW p \in Streams, NEW c \in Streams, Len(p) > 0, Len(p) = p[1], Legal(p[1])
  PROVE  Packets(p \o c) = <<p>> \o Packets(c)
<1> USE SizesAssumption DEF SizesAssumption
<1>1. /\ p \o c \in Streams /\ Len(p \o c) = Len(p) + Len(c)
      /\ Len(c) \in Nat /\ Len(p) \in Nat
      /\ \A i \in 1..Len(p) : (p \o c)[i] = p[i]
  BY StreamConcat
<1>2. 1 \in 1..(Len(p \o c) + 1) /\ 1 \in 1..Len(p) /\ 1 \in 1..(Len(c) + 1) BY <1>1
<1>3. Packets(p \o c) = Place(p \o c, PacketsFrom(p \o c), 1)
  BY <1>1, <1>2, PacketsFromUnfolds DEF Packets
<1>4. (p \o c)[1] = Len(p) BY <1>1, <1>2
<1>5. ~(1 + HeadLen - 1 > Len(p \o c)) BY <1>1 DEF Legal
<1>6. ~(1 + Len(p) - 1 > Len(p \o c)) BY <1>1
<1>7. Packets(p \o c)
        = <<SubSeq(p \o c, 1, 1 + Len(p) - 1)>> \o PacketsFrom(p \o c)[1 + Len(p)]
  BY <1>3, <1>4, <1>5, <1>6 DEF Place
<1>8. SubSeq(p \o c, 1, 1 + Len(p) - 1) = p
  <2>1. 1 + Len(p) - 1 = Len(p) /\ Len(p) \in 1..Len(p) BY <1>1
  <2>2. p \in Seq(Bytes) /\ c \in Seq(Bytes) BY DEF Streams
  <2>3. SubSeq(p \o c, 1, Len(p)) = SubSeq(p, 1, Len(p))
    BY <1>2, <2>1, <2>2, SubSeqOfConcat1
  <2>4. SubSeq(p, 1, Len(p)) = p BY <2>2, SubSeqFull
  <2>5. QED BY <2>1, <2>3, <2>4
<1>9. PacketsFrom(p \o c)[Len(p) + 1] = PacketsFrom(c)[1]
  BY <1>2, PacketsFromShifts
<1>10. 1 + Len(p) = Len(p) + 1 BY <1>1
<1>11. QED BY <1>7, <1>8, <1>9, <1>10 DEF Packets

-----------------------------------------------------------------------------
(* What has been read of a packet that is not complete.                    *)
Piece == IF InHead THEN head ELSE buf.bytes

(* Whatever bytes follow b, its packets are those of sent.                 *)
CutsInto(b, sent) == \A c \in Streams : Packets(b \o c) = sent \o Packets(c)

(* The bytes before the piece are whole packets, those handed over, and    *)
(* skipped headers; a piece of a body begins with a whole header, whose    *)
(* length is the one the buffer was allocated for.                         *)
SentInv ==
  /\ phase = "used" => ~flooded
  /\ phase # "free" =>
       /\ got \in Streams /\ handed \in Seq(Streams)
       /\ ~InHead => Len(buf.bytes) >= HeadLen /\ buf.bytes[1] = buf.size
       /\ ~flooded => \E b \in Streams : got = b \o Piece /\ CutsInto(b, handed)
       /\ flooded => handed = Front(Packets(got))

(* The piece in the buffer is a stream.                                    *)
LEMMA PieceType ==
  ASSUME BufInv, phase # "free" PROVE Piece \in Streams
  BY DEF BufInv, Held, BufferOwned, Piece, Bufs, Streams

(* One more packet, or one more skipped header, behind whole ones.         *)
LEMMA CutOn ==
  ASSUME NEW b \in Streams, NEW sent \in Seq(Streams), CutsInto(b, sent),
         NEW f \in Streams, NEW more \in Seq(Streams), CutsInto(f, more)
  PROVE  CutsInto(b \o f, sent \o more)
<1> SUFFICES ASSUME NEW c \in Streams
             PROVE Packets((b \o f) \o c) = (sent \o more) \o Packets(c)
  BY DEF CutsInto
<1>a. b \in Seq(Bytes) /\ f \in Seq(Bytes) /\ c \in Seq(Bytes) BY DEF Streams
<1>b. (b \o f) \o c = b \o (f \o c) BY SMTT(30), <1>a, ConcatAssociative
<1>1. (b \o f) \o c = b \o (f \o c) /\ f \o c \in Streams BY <1>b, StreamConcat
<1>2. Packets(b \o (f \o c)) = sent \o Packets(f \o c) BY <1>1 DEF CutsInto
<1>3. Packets(f \o c) = more \o Packets(c) BY DEF CutsInto
<1>4. Packets(c) \in Seq(Streams) BY PacketsType
<1>5. sent \o (more \o Packets(c)) = (sent \o more) \o Packets(c)
  BY SMTT(30), <1>4, ConcatAssociative
<1>6. QED BY <1>1, <1>2, <1>3, <1>5

(* Nothing is cut into no packets.                                         *)
LEMMA NothingCut ==
  /\ <<>> \in Streams /\ <<>> \in Seq(Streams) /\ CutsInto(<<>>, <<>>)
<1>1. <<>> \in Streams /\ <<>> \in Seq(Streams) BY DEF Streams
<1>2. ASSUME NEW c \in Streams PROVE Packets(<<>> \o c) = <<>> \o Packets(c)
  <2>1. <<>> \o c = c BY ConcatEmptySeq DEF Streams
  <2>2. <<>> \o Packets(c) = Packets(c) BY PacketsType, ConcatEmptySeq
  <2>3. QED BY <2>1, <2>2
<1>3. QED BY <1>1, <1>2 DEF CutsInto

(* A header that cannot be is cut into no packets.                         *)
LEMMA CutHead ==
  ASSUME NEW h \in Streams, Len(h) = HeadLen, ~Legal(h[1])
  PROVE  CutsInto(h, <<>>)
<1> SUFFICES ASSUME NEW c \in Streams PROVE Packets(h \o c) = <<>> \o Packets(c)
  BY DEF CutsInto
<1>1. <<>> \o Packets(c) = Packets(c) BY PacketsType, ConcatEmptySeq
<1>2. QED BY <1>1, SkippedHead

(* A whole packet is cut into itself.                                      *)
LEMMA CutPacket ==
  ASSUME NEW p \in Streams, Len(p) > 0, Len(p) = p[1], Legal(p[1])
  PROVE  CutsInto(p, <<p>>)
  BY TakenPacket DEF CutsInto

(* What has been cut so far is what has been sent so far, when the piece   *)
(* is no packet yet.                                                       *)
LEMMA CutSoFar ==
  ASSUME NEW b \in Streams, NEW sent \in Seq(Streams), CutsInto(b, sent),
         NEW c \in Streams, Packets(c) = <<>>
  PROVE  Packets(b \o c) = sent
<1>1. Packets(b \o c) = sent \o <<>> BY DEF CutsInto
<1>2. QED BY <1>1, ConcatEmptySeq

(* The invariant gives the property: the piece that is left is no packet   *)
(* yet.                                                                    *)
LEMMA SentInvGives ==
  ASSUME BufInv, SentInv PROVE PacketsAsSent
<1> USE SizesAssumption DEF SizesAssumption
<1> SUFFICES ASSUME phase # "free", ~flooded PROVE handed = Packets(got)
  BY DEF PacketsAsSent, SentInv
<1>1. PICK b \in Streams : got = b \o Piece /\ CutsInto(b, handed) BY DEF SentInv
<1>2. handed \in Seq(Streams) /\ Piece \in Streams BY PieceType DEF SentInv
<1>3. Packets(Piece) = <<>>
  <2>1. CASE InHead
    <3>1. Piece = head /\ Len(head) + irecvlen = HeadLen /\ irecvlen \in 1..(MaxLen + HeadLen)
      BY <2>1 DEF Piece, BufInv, WritesInside, TypeOK
    <3>2. Len(Piece) \in Nat BY <1>2 DEF Streams
    <3>3. Len(Piece) < HeadLen BY <3>1, <3>2
    <3>4. QED BY <1>2, <3>3, NoPacketYet
  <2>2. CASE ~InHead
    <3>1. /\ Piece = buf.bytes /\ Len(buf.bytes) + irecvlen = buf.size
          /\ irecvlen \in 1..(MaxLen + HeadLen) /\ buf \in Bufs
      BY <2>2 DEF Piece, BufInv, WritesInside, TypeOK, BufferOwned, Held
    <3>2. buf.size \in (HeadLen + 1)..MaxLen BY <3>1 DEF Bufs
    <3>3. Len(buf.bytes) >= HeadLen /\ buf.bytes[1] = buf.size BY <2>2 DEF SentInv
    <3>4. Len(Piece) \in Nat BY <1>2 DEF Streams
    <3>5. Legal(Piece[1]) BY <3>1, <3>2, <3>3 DEF Legal
    <3>6. Len(Piece) < Piece[1] BY <3>1, <3>2, <3>3, <3>4
    <3>7. QED BY <1>2, <3>1, <3>3, <3>5, <3>6, NoPacketYet
  <2>3. QED BY <2>1, <2>2
<1>4. QED BY <1>1, <1>2, <1>3, CutSoFar

(* recv() adds the bytes to those got and to the piece.                    *)
LEMMA ReceivedBytes ==
  ASSUME BufInv, SentInv, NEW chunk \in Chunks(irecvlen), Received(chunk)
  PROVE  /\ phase = "used" /\ ~flooded /\ chunk \in Streams /\ Len(chunk) \in 1..irecvlen
         /\ irecvlen \in Nat /\ got' = got \o chunk /\ got' \in Streams
         /\ Piece \o chunk \in Streams /\ handed \in Seq(Streams)
         /\ \E b \in Streams : got' = b \o (Piece \o chunk) /\ CutsInto(b, handed)
<1> USE SizesAssumption DEF SizesAssumption
<1>1. phase = "used" /\ ~flooded /\ got' = got \o chunk BY DEF Received, SentInv
<1>2. irecvlen \in Nat BY DEF BufInv, TypeOK
<1>3. chunk \in Streams /\ Len(chunk) \in 1..irecvlen BY <1>2, ChunkIsSeq DEF Streams
<1>4. got \in Streams /\ handed \in Seq(Streams) BY <1>1 DEF SentInv
<1>5. Piece \in Streams BY <1>1, PieceType
<1>6. PICK b \in Streams : got = b \o Piece /\ CutsInto(b, handed)
  BY <1>1 DEF SentInv
<1>a. b \in Seq(Bytes) /\ Piece \in Seq(Bytes) /\ chunk \in Seq(Bytes)
  BY <1>3, <1>5 DEF Streams
<1>b. (b \o Piece) \o chunk = b \o (Piece \o chunk) BY SMTT(30), <1>a, ConcatAssociative
<1>7. got' = b \o (Piece \o chunk) BY <1>1, <1>6, <1>b
<1>8. got' \in Streams /\ Piece \o chunk \in Streams
  BY <1>1, <1>3, <1>4, <1>5, StreamConcat
<1>9. QED BY <1>1, <1>2, <1>3, <1>4, <1>6, <1>7, <1>8

(* At the start nothing has come.                                          *)
LEMMA InitSentInv == Init => SentInv
  BY DEF Init, SentInv

(* A new connection begins with an empty stream.                           *)
LEMMA ConnectSent ==
  ASSUME Connect PROVE SentInv'
<1>1. /\ phase' = "used" /\ curStat' = "_PKG_HD_INIT" /\ head' = <<>>
      /\ got' = <<>> /\ handed' = <<>> /\ flooded' = FALSE
  BY DEF Connect
<1>2. InHead' /\ Piece' = <<>> BY <1>1 DEF InHead, Piece
<1>3. <<>> \o <<>> = <<>> BY NothingCut, ConcatEmptySeq
<1>4. (got = <<>> \o Piece)' BY <1>1, <1>2, <1>3
<1>5. CutsInto(<<>>, <<>>) /\ <<>> \in Streams /\ <<>> \in Seq(Streams) BY NothingCut
<1>6. CutsInto(<<>>, handed)' BY <1>1, <1>5 DEF CutsInto
<1>7. QED BY <1>1, <1>2, <1>4, <1>5, <1>6 DEF SentInv

(* A complete packet is handed over behind the others, unless it makes the *)
(* client a flood.                                                         *)
LEMMA DeliverSent ==
  ASSUME BufInv, NEW p \in Streams, Deliver(p), phase = "used",
         Len(p) > 0, Len(p) = p[1], Legal(p[1]),
         handed \in Seq(Streams), got' \in Streams,
         \E b \in Streams : got' = b \o p /\ CutsInto(b, handed)
  PROVE  SentInv'
<1> USE SizesAssumption DEF SizesAssumption
<1>1. /\ curStat' = "_PKG_HD_INIT" /\ head' = <<>> /\ flooded' = IsFlood
      /\ IF IsFlood THEN phase' = "retired" /\ UNCHANGED handed
                    ELSE handed' = Append(handed, p) /\ UNCHANGED phase
  BY DEF Deliver, Restart
<1>2. InHead' /\ Piece' = <<>> BY <1>1 DEF InHead, Piece
<1>3. PICK b \in Streams : got' = b \o p /\ CutsInto(b, handed) OBVIOUS
<1> DEFINE more == handed \o <<p>>
<1>4. <<p>> \in Seq(Streams) OBVIOUS
<1>5. CutsInto(b \o p, more) BY <1>3, <1>4, CutPacket, CutOn
<1>6. more \in Seq(Streams) BY <1>4, ConcatProperties
<1>7. more = Append(handed, p) OBVIOUS
<1>8. got' \o <<>> = got' BY ConcatEmptySeq DEF Streams
<1>9. Packets(got') = more
  <2>1. <<>> \in Streams /\ Packets(<<>>) = <<>>
    BY NothingCut, NoPacketYet
  <2>2. Packets((b \o p) \o <<>>) = more
    BY <1>3, <1>5, <1>6, <2>1, StreamConcat, CutSoFar
  <2>3. QED BY <1>3, <1>8, <2>2
<1>10. CASE IsFlood
  <2>1. Front(more) = handed
    <3>1. Len(more) - 1 = Len(handed) /\ Len(handed) \in Nat BY <1>7
    <3>2. SubSeq(more, 1, Len(handed)) = handed BY <1>7
    <3>3. QED BY <3>1, <3>2 DEF Front
  <2>2. flooded' /\ handed' = handed /\ phase' = "retired" BY <1>1, <1>10
  <2>3. (handed = Front(Packets(got)))' BY <1>9, <2>1, <2>2
  <2>4. QED BY <1>2, <2>2, <2>3 DEF SentInv
<1>11. CASE ~IsFlood
  <2>1. ~flooded' /\ handed' = more /\ phase' = phase BY <1>1, <1>7, <1>11
  <2>2. handed' \in Seq(Streams) BY <1>6, <2>1
  <2>3. b \o p \in Streams BY StreamConcat
  <2>4. (got = (b \o p) \o Piece)' BY <1>2, <1>3, <1>8
  <2>5. CutsInto(b \o p, handed)' BY <1>5, <2>1 DEF CutsInto
  <2>6. QED BY <1>2, <2>1, <2>2, <2>3, <2>4, <2>5 DEF SentInv
<1>12. QED BY <1>10, <1>11

(* More of a packet, but not the whole.                                    *)
LEMMA PieceGrows ==
  ASSUME BufInv, SentInv, NEW chunk \in Chunks(irecvlen), Received(chunk),
         Piece' = Piece \o chunk, UNCHANGED <<phase, flooded, handed>>,
         (~InHead => Len(buf.bytes) >= HeadLen /\ buf.bytes[1] = buf.size)'
  PROVE  SentInv'
<1>1. /\ got' \in Streams /\ handed \in Seq(Streams) /\ phase = "used" /\ ~flooded
      /\ \E b \in Streams : got' = b \o (Piece \o chunk) /\ CutsInto(b, handed)
  BY ReceivedBytes
<1>2. PICK b \in Streams : got' = b \o Piece' /\ CutsInto(b, handed) BY <1>1
<1>3. CutsInto(b, handed)' BY <1>2 DEF CutsInto
<1>4. QED BY <1>1, <1>2, <1>3 DEF SentInv

(* A part of a header makes the piece longer and hands nothing on.         *)
LEMMA HeadPartSent ==
  ASSUME BufInv, SentInv, NEW chunk \in Chunks(irecvlen), HeadPart(chunk)
  PROVE  SentInv'
<1>1. /\ InHead /\ Received(chunk) /\ curStat' = "_PKG_HD_RECVING"
      /\ head' = head \o chunk /\ UNCHANGED <<phase, flooded, handed>>
  BY DEF HeadPart
<1>2. InHead' /\ Piece' = Piece \o chunk BY <1>1 DEF InHead, Piece
<1>3. QED BY <1>1, <1>2, PieceGrows

(* A part of a body makes the piece longer and hands nothing on.           *)
LEMMA BodyPartSent ==
  ASSUME BufInv, SentInv, NEW chunk \in Chunks(irecvlen), BodyPart(chunk)
  PROVE  SentInv'
<1> USE SizesAssumption DEF SizesAssumption
<1>1. /\ ~InHead /\ Received(chunk) /\ curStat' = "_PKG_BD_RECVING"
      /\ buf' = [buf EXCEPT !.bytes = @ \o chunk]
      /\ UNCHANGED <<phase, flooded, handed>>
  BY DEF BodyPart
<1>2. phase = "used" /\ chunk \in Streams BY <1>1, ReceivedBytes
<1>3. buf \in Bufs BY <1>1, <1>2, BodyHasBuf
<1>4. buf'.bytes = buf.bytes \o chunk /\ buf'.size = buf.size BY <1>1, <1>3 DEF Bufs
<1>5. ~InHead' /\ Piece' = Piece \o chunk BY <1>1, <1>4 DEF InHead, Piece
<1>6. Len(buf.bytes) >= HeadLen /\ buf.bytes[1] = buf.size BY <1>1, <1>2 DEF SentInv
<1>7. buf.bytes \in Streams BY <1>3 DEF Bufs, Streams
<1>8. 1 \in 1..Len(buf.bytes) /\ Len(buf.bytes) \in Nat BY <1>6, <1>7 DEF Streams
<1>9. (buf.bytes \o chunk)[1] = buf.bytes[1]
        /\ Len(buf.bytes \o chunk) = Len(buf.bytes) + Len(chunk) /\ Len(chunk) \in Nat
  BY <1>2, <1>7, <1>8, StreamConcat
<1>10. buf'.bytes[1] = buf'.size BY <1>4, <1>6, <1>9
<1>11. Len(buf'.bytes) >= HeadLen BY <1>4, <1>6, <1>8, <1>9
<1>12. QED BY <1>1, <1>5, <1>10, <1>11, PieceGrows

(* A header whose body is to come stays the piece, and hands nothing on.   *)
LEMMA HeadThenBodySent ==
  ASSUME BufInv, SentInv, NEW chunk \in Chunks(irecvlen), HeadThenBody(chunk)
  PROVE  SentInv'
<1> USE SizesAssumption DEF SizesAssumption
<1>1. /\ HeadDone(chunk) /\ curStat' = "_PKG_BD_INIT"
      /\ buf' = [size |-> PkgLen(head \o chunk), bytes |-> head \o chunk]
      /\ UNCHANGED <<phase, flooded, handed>>
  BY DEF HeadThenBody
<1>2. InHead /\ Received(chunk) BY <1>1 DEF HeadDone
<1>3. ~InHead' /\ Piece' = Piece \o chunk BY <1>1, <1>2 DEF InHead, Piece
<1>4. Len(head \o chunk) = HeadLen BY <1>1, HeadComplete
<1>5. Len(buf'.bytes) >= HeadLen /\ buf'.bytes[1] = buf'.size
  BY <1>1, <1>4 DEF PkgLen
<1>6. QED BY <1>1, <1>2, <1>3, <1>5, PieceGrows

(* A header that cannot be is skipped, as the definition skips it.         *)
LEMMA BadHeadSent ==
  ASSUME BufInv, SentInv, NEW chunk \in Chunks(irecvlen), BadHead(chunk)
  PROVE  SentInv'
<1>1. /\ HeadDone(chunk) /\ ~Legal(PkgLen(head \o chunk)) /\ curStat' = "_PKG_HD_INIT"
      /\ head' = <<>> /\ UNCHANGED <<phase, flooded, handed>>
  BY DEF BadHead, Restart
<1>2. InHead /\ Received(chunk) BY <1>1 DEF HeadDone
<1>3. /\ got' \in Streams /\ handed \in Seq(Streams) /\ phase = "used" /\ ~flooded
      /\ \E b \in Streams : got' = b \o (Piece \o chunk) /\ CutsInto(b, handed)
  BY <1>2, ReceivedBytes
<1>4. Piece = head BY <1>2 DEF Piece
<1>5. PICK h \in Streams :
        h = head \o chunk /\ Len(h) = HeadLen /\ ~Legal(h[1])
  BY <1>1, HeadComplete DEF Streams, PkgLen
<1>6. PICK b \in Streams : got' = b \o h /\ CutsInto(b, handed)
  BY <1>3, <1>4, <1>5
<1>7. CutsInto(b \o h, handed \o <<>>) BY <1>3, <1>5, <1>6, CutHead, CutOn, NothingCut
<1>8. handed \o <<>> = handed BY <1>3, ConcatEmptySeq
<1>9. InHead' /\ Piece' = <<>> BY <1>1 DEF InHead, Piece
<1>10. got' = got' \o <<>> BY <1>3, ConcatEmptySeq DEF Streams
<1>11. (got = (b \o h) \o Piece)' BY <1>6, <1>9, <1>10
<1>12. b \o h \in Streams BY <1>5, StreamConcat
<1>13. CutsInto(b \o h, handed)' BY <1>1, <1>7, <1>8 DEF CutsInto
<1>14. QED BY <1>1, <1>3, <1>9, <1>11, <1>12, <1>13 DEF SentInv

(* A packet without a body is the next of the stream.                      *)
LEMMA OnlyHeadSent ==
  ASSUME BufInv, SentInv, NEW chunk \in Chunks(irecvlen), OnlyHead(chunk)
  PROVE  SentInv'
<1> USE SizesAssumption DEF SizesAssumption
<1>1. /\ HeadDone(chunk) /\ PkgLen(head \o chunk) = HeadLen /\ HeadLen <= MaxLen
      /\ Deliver(head \o chunk)
  BY DEF OnlyHead
<1>2. InHead /\ Received(chunk) BY <1>1 DEF HeadDone
<1>3. Piece = head BY <1>2 DEF Piece
<1> DEFINE h == head \o chunk
<1>4. h \in Streams /\ Len(h) = HeadLen /\ h[1] = HeadLen
  BY <1>1, HeadComplete DEF Streams, PkgLen
<1>5. /\ got' \in Streams /\ handed \in Seq(Streams) /\ phase = "used"
      /\ \E b \in Streams : got' = b \o h /\ CutsInto(b, handed)
  BY <1>2, <1>3, ReceivedBytes
<1> HIDE DEF h
<1>6. Len(h) > 0 /\ Legal(h[1]) BY <1>1, <1>4 DEF Legal
<1>7. Deliver(h) BY <1>1 DEF h
<1>8. QED BY <1>4, <1>5, <1>6, <1>7, DeliverSent

(* A packet that is complete is the next of the stream.                    *)
LEMMA BodyDoneSent ==
  ASSUME BufInv, SentInv, NEW chunk \in Chunks(irecvlen), BodyDone(chunk)
  PROVE  SentInv'
<1> USE SizesAssumption DEF SizesAssumption
<1>1. ~InHead /\ Received(chunk) /\ Len(chunk) = irecvlen /\ Deliver(buf.bytes \o chunk)
  BY DEF BodyDone
<1>2. Piece = buf.bytes BY <1>1 DEF Piece
<1> DEFINE p == buf.bytes \o chunk
<1>3. /\ got' \in Streams /\ handed \in Seq(Streams) /\ phase = "used"
      /\ chunk \in Streams /\ p \in Streams
      /\ \E b \in Streams : got' = b \o p /\ CutsInto(b, handed)
  BY <1>1, <1>2, ReceivedBytes
<1>4. buf \in Bufs /\ Len(buf.bytes) + irecvlen = buf.size BY <1>1, <1>3, BodyHasBuf
<1>5. buf.bytes \in Streams /\ buf.size \in (HeadLen + 1)..MaxLen
  BY <1>4 DEF Bufs, Streams
<1>6. Len(buf.bytes) >= HeadLen /\ buf.bytes[1] = buf.size
  BY <1>1, <1>3 DEF SentInv
<1>7. 1 \in 1..Len(buf.bytes) /\ Len(buf.bytes) \in Nat BY <1>5, <1>6 DEF Streams
<1>8. p[1] = buf.size /\ Len(p) = buf.size
  <2>1. Len(p) = Len(buf.bytes) + Len(chunk) /\ p[1] = buf.bytes[1]
    BY <1>3, <1>5, <1>7, StreamConcat
  <2>2. QED BY <1>1, <1>4, <1>6, <2>1
<1> HIDE DEF p
<1>9. Len(p) > 0 /\ Len(p) = p[1] /\ Legal(p[1]) BY <1>5, <1>8 DEF Legal
<1>10. Deliver(p) BY <1>1 DEF p
<1>11. QED BY <1>3, <1>9, <1>10, DeliverSent

(* A step keeps that what was handed on is what the stream says.           *)
LEMMA StepSentInv ==
  ASSUME BufInv, SentInv, [Next]_vars PROVE SentInv'
<1>1. ASSUME ReadRequestHandler PROVE SentInv'
  <2>1. PICK chunk \in Chunks(irecvlen) :
          \/ HeadPart(chunk) \/ BadHead(chunk) \/ OnlyHead(chunk)
          \/ HeadThenBody(chunk) \/ BodyPart(chunk) \/ BodyDone(chunk)
    BY <1>1 DEF ReadRequestHandler
  <2>2. QED BY <2>1, HeadPartSent, BadHeadSent, OnlyHeadSent, HeadThenBodySent,
               BodyPartSent, BodyDoneSent
<1>2. ASSUME Recycle PROVE SentInv'
  BY <1>2 DEF Recycle, SentInv
<1>3. ASSUME Close \/ Tick \/ SetBack \/ UNCHANGED vars PROVE SentInv'
  <2>1. /\ UNCHANGED <<got, handed, flooded, curStat, head, buf>>
        /\ phase' # "free" => phase # "free"
        /\ phase' = "used" => phase = "used"
    BY <1>3 DEF Close, Tick, SetBack, vars, recvVars, histVars
  <2>2. Piece' = Piece /\ (InHead' <=> InHead) BY <2>1 DEF Piece, InHead
  <2>3. QED BY <2>1, <2>2 DEF SentInv, CutsInto
<1>4. QED BY <1>1, <1>2, <1>3, ConnectSent DEF Next

(* However recv() cuts the bytes of a client up, what is handed to the     *)
(* thread pool are the packets they consist of, for every length of        *)
(* header, limit of length, stream and order of arrival; of a flood, all   *)
(* but the one that made it one.                                           *)
THEOREM PacketsArriveAsSent == Spec => []PacketsAsSent
<1>1. Init => SentInv BY InitSentInv
<1>2. BufInv /\ SentInv /\ [Next]_vars => SentInv' BY StepSentInv
<1>3. BufInv /\ SentInv => PacketsAsSent BY SentInvGives
<1>4. Spec => []BufInv BY BufferSafety, PTL
<1>5. QED BY <1>1, <1>2, <1>3, <1>4, PTL DEF Spec
=============================================================================
