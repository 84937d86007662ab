----------------------------- MODULE RecvPacket -----------------------------
(***************************************************************************)
(* How the bytes of a client become messages                               *)
(* (net/ngx_c_socket_request.cxx, TestFlood in ngx_c_socket.cxx): TCP      *)
(* hands over any number of the bytes asked for, and the state kept in the *)
(* connection between two calls of ngx_read_request_handler() - curStat,   *)
(* precvbuf, irecvlen, precvMemPointer - puts packets together from them.  *)
(* A packet is a header, which begins with the length of the whole packet, *)
(* and a body.  The connection is one of those that are used by client     *)
(* after client.                                                           *)
(***************************************************************************)
EXTENDS Integers, SequencesExt

CONSTANTS
  Bytes,        \* the values of a byte
  HeadLen,      \* m_iLenPkgHeader
  MaxLen,       \* _PKG_MAX_LENGTH - 1000
  KickCount,    \* m_floodKickCount
  Interval,     \* m_floodTimeInterval
  Wrap,         \* the 2^64 of uint64_t
  MaxBytes,     \* bound: how many bytes a client sends
  MaxClients,   \* bound: how many clients there are
  MaxTime       \* bound: where the clock stops; it starts at Interval, for
                \* the first packet comes long after 1970

NoBuf == <<>>      \* NULL

ASSUME SizesAssumption ==
  /\ Bytes \subseteq Nat /\ HeadLen \in Nat \ {0} /\ MaxLen \in Nat
  /\ KickCount \in Nat \ {0} /\ Interval \in Nat /\ Wrap \in Nat
  /\ MaxBytes \in Nat /\ MaxClients \in Nat /\ MaxTime \in Nat
  /\ MaxTime + Interval < Wrap

VARIABLES
  floodOn,   \* m_floodAkEnable = 1, read from nginx.conf at the start
  curStat, irecvlen,
  head,      \* dataHeadInfo before precvbuf
  buf,       \* what precvMemPointer points to: size, and the bytes before precvbuf
  lastTime, count,   \* FloodkickLastTime, FloodAttackCount
  phase,     \* the connection is "free", "used" by a client, or "retired"
  now,       \* gettimeofday() in milliseconds; it may be set back
  got,       \* history: the bytes received from this client
  handed,    \* history: the messages of this client given to the thread pool
  times,     \* history: when the packets of this client were complete
  flooded,   \* history: this client was cut off as a flood
  owned,     \* history: buffers allocated and neither freed nor given away
  clients    \* how many clients there were

recvVars  == <<curStat, irecvlen, head, buf>>
floodVars == <<lastTime, count>>
histVars  == <<got, handed, times, flooded, owned, clients>>
vars == <<floodOn, recvVars, floodVars, phase, now, histVars>>

InHead == curStat \in {"_PKG_HD_INIT", "_PKG_HD_RECVING"}

(* GetOneToUse() when the connection was created.                          *)
Init ==
  /\ floodOn \in BOOLEAN
  /\ curStat = "_PKG_HD_INIT" /\ irecvlen = HeadLen /\ head = <<>> /\ buf = NoBuf
  /\ lastTime = 0 /\ count = 0 /\ phase = "free" /\ now = Interval
  /\ got = <<>> /\ handed = <<>> /\ times = <<>> /\ flooded = FALSE
  /\ owned = 0 /\ clients = 0

-----------------------------------------------------------------------------
(* The life of the connection: GetOneToUse(), zdClosesocketProc() by this  *)
(* or another thread, and PutOneToFree() after the delay.                  *)

ConnectKeepsFlood ==
  /\ phase = "free" /\ clients < MaxClients
  /\ phase' = "used" /\ clients' = clients + 1
  /\ curStat' = "_PKG_HD_INIT" /\ irecvlen' = HeadLen /\ head' = <<>> /\ buf' = NoBuf
  /\ got' = <<>> /\ handed' = <<>> /\ times' = <<>> /\ flooded' = FALSE
  /\ UNCHANGED <<floodOn, floodVars, now, owned>>
Connect ==
  /\ phase = "free" /\ clients < MaxClients
  /\ phase' = "used" /\ clients' = clients + 1
  /\ curStat' = "_PKG_HD_INIT" /\ irecvlen' = HeadLen /\ head' = <<>> /\ buf' = NoBuf
  /\ lastTime' = 0 /\ count' = 0
  /\ got' = <<>> /\ handed' = <<>> /\ times' = <<>> /\ flooded' = FALSE
  /\ UNCHANGED <<floodOn, now, owned>>

Close ==
  /\ phase = "used" /\ phase' = "retired"
  /\ UNCHANGED <<floodOn, recvVars, floodVars, now, histVars>>

RecycleKeepsBuf ==
  /\ phase = "retired" /\ phase' = "free"
  /\ UNCHANGED <<floodOn, recvVars, floodVars, now, histVars>>
Recycle ==
  /\ phase = "retired" /\ phase' = "free"
  /\ buf' = NoBuf /\ owned' = owned - (IF buf = NoBuf THEN 0 ELSE 1)
  /\ UNCHANGED <<floodOn, curStat, irecvlen, head, floodVars, now, got, handed,
                 times, flooded, clients>>

-----------------------------------------------------------------------------
(* recv(): any of the next bytes, no more than asked for.                  *)
Received(chunk) ==
  /\ phase = "used" /\ Len(got) + Len(chunk) <= MaxBytes
  /\ got' = got \o chunk

Chunks(n) == UNION {[1..k -> Bytes] : k \in 1..n}

(* Ready for the next header.                                              *)
RestartKeepsStat == irecvlen' = HeadLen /\ head' = <<>> /\ UNCHANGED curStat
Restart == curStat' = "_PKG_HD_INIT" /\ irecvlen' = HeadLen /\ head' = <<>>

(* TestFlood() of a complete packet; the difference of the times is        *)
(* unsigned.                                                               *)
Elapsed == (now - lastTime) % Wrap
NewCount == IF ~floodOn THEN count ELSE IF Elapsed < Interval THEN count + 1 ELSE 0
IsFlood == floodOn /\ NewCount >= KickCount

(* ngx_wait_request_handler_proc_plast(), and the end of the read handler, *)
(* which cuts off a flood.                                                 *)
Deliver(bytes) ==
  /\ count' = NewCount /\ lastTime' = (IF floodOn THEN now ELSE lastTime)
  /\ times' = Append(times, now) /\ flooded' = IsFlood
  /\ IF IsFlood THEN phase' = "retired" /\ UNCHANGED handed
                ELSE handed' = Append(handed, bytes) /\ UNCHANGED phase
  /\ buf' = NoBuf /\ Restart

(* Part of a header.                                                       *)
HeadPart(chunk) ==
  /\ InHead /\ Received(chunk) /\ Len(chunk) < irecvlen
  /\ curStat' = "_PKG_HD_RECVING"
  /\ head' = head \o chunk /\ irecvlen' = irecvlen - Len(chunk)
  /\ UNCHANGED <<floodOn, buf, floodVars, phase, now, handed, times, flooded,
                 owned, clients>>

(* The rest of a header: ngx_wait_request_handler_proc_p1().               *)
HeadDone(chunk) == InHead /\ Received(chunk) /\ Len(chunk) = irecvlen

PkgLen(header) == header[1]
Legal(n) == HeadLen <= n /\ n <= MaxLen

BadHeadKeepsLength(chunk) ==
  /\ HeadDone(chunk) /\ ~Legal(PkgLen(head \o chunk))
  /\ curStat' = "_PKG_HD_INIT" /\ head' = <<>>
  /\ UNCHANGED <<floodOn, irecvlen, buf, floodVars, phase, now, handed, times,
                 flooded, owned, clients>>
BadHead(chunk) ==
  /\ HeadDone(chunk) /\ ~Legal(PkgLen(head \o chunk)) /\ Restart
  /\ UNCHANGED <<floodOn, buf, floodVars, phase, now, handed, times, flooded,
                 owned, clients>>

OnlyHead(chunk) ==
  /\ HeadDone(chunk) /\ PkgLen(head \o chunk) = HeadLen /\ HeadLen <= MaxLen
  /\ Deliver(head \o chunk)
  /\ UNCHANGED <<floodOn, now, owned, clients>>

HeadThenWhole(chunk) ==
  LET n == PkgLen(head \o chunk) IN
  /\ HeadDone(chunk) /\ Legal(n) /\ n # HeadLen
  /\ buf' = [size |-> n, bytes |-> head \o chunk] /\ owned' = owned + 1
  /\ curStat' = "_PKG_BD_INIT" /\ irecvlen' = n /\ head' = <<>>
  /\ UNCHANGED <<floodOn, floodVars, phase, now, handed, times, flooded, clients>>
HeadThenBody(chunk) ==
  LET n == PkgLen(head \o chunk) IN
  /\ HeadDone(chunk) /\ Legal(n) /\ n # HeadLen
  /\ buf' = [size |-> n, bytes |-> head \o chunk] /\ owned' = owned + 1
  /\ curStat' = "_PKG_BD_INIT" /\ irecvlen' = n - HeadLen /\ head' = <<>>
  /\ UNCHANGED <<floodOn, floodVars, phase, now, handed, times, flooded, clients>>

BodyPart(chunk) ==
  /\ ~InHead /\ Received(chunk) /\ Len(chunk) < irecvlen
  /\ curStat' = "_PKG_BD_RECVING"
  /\ buf' = [buf EXCEPT !.bytes = @ \o chunk] /\ irecvlen' = irecvlen - Len(chunk)
  /\ UNCHANGED <<floodOn, head, floodVars, phase, now, handed, times, flooded,
                 owned, clients>>

BodyDone(chunk) ==
  /\ ~InHead /\ Received(chunk) /\ Len(chunk) = irecvlen
  /\ Deliver(buf.bytes \o chunk) /\ owned' = owned - 1
  /\ UNCHANGED <<floodOn, now, clients>>

-----------------------------------------------------------------------------
(* Time passes; the clock of the system may also be set back.              *)
Tick ==
  /\ now < MaxTime /\ now' = now + 1
  /\ UNCHANGED <<floodOn, recvVars, floodVars, phase, histVars>>

SetBack ==
  /\ now > Interval /\ now' = now - 1
  /\ UNCHANGED <<floodOn, recvVars, floodVars, phase, histVars>>

ReadRequestHandler ==
  \E chunk \in Chunks(irecvlen) :
    \/ HeadPart(chunk) \/ BadHead(chunk) \/ OnlyHead(chunk) \/ HeadThenBody(chunk)
    \/ BodyPart(chunk) \/ BodyDone(chunk)

Next == Connect \/ Close \/ Recycle \/ ReadRequestHandler \/ Tick \/ SetBack

Spec == Init /\ [][Next]_vars

-----------------------------------------------------------------------------
(* The packets a stream of bytes consists of, by position: a header with a *)
(* length no packet has is skipped.                                        *)
PacketsFrom(bytes) ==
  LET from[i \in 1..(Len(bytes) + 1)] ==
        IF i + HeadLen - 1 > Len(bytes) THEN <<>>
        ELSE IF ~Legal(bytes[i]) THEN from[i + HeadLen]
        ELSE IF i + bytes[i] - 1 > Len(bytes) THEN <<>>
        ELSE <<SubSeq(bytes, i, i + bytes[i] - 1)>> \o from[i + bytes[i]]
  IN  from
Packets(bytes) == PacketsFrom(bytes)[1]

Stats == {"_PKG_HD_INIT", "_PKG_HD_RECVING", "_PKG_BD_INIT", "_PKG_BD_RECVING"}

(* The types; and the state says how far the packet has come.              *)
TypeOK ==
  /\ floodOn \in BOOLEAN /\ flooded \in BOOLEAN
  /\ curStat \in Stats /\ irecvlen \in 1..MaxLen + HeadLen
  /\ phase \in {"free", "used", "retired"} /\ lastTime \in Nat /\ count \in Nat
  /\ curStat = "_PKG_HD_INIT" <=> InHead /\ head = <<>>
  /\ curStat = "_PKG_BD_INIT" /\ phase # "free" => Len(buf.bytes) = HeadLen

(* However the bytes of a client arrive, what goes to the thread pool are  *)
(* the packets it sent, each once and in order; the one that makes it a    *)
(* flood is held back.                                                     *)
PacketsAsSent ==
  phase # "free" =>
    handed = (IF flooded THEN Front(Packets(got)) ELSE Packets(got))

(* recv() never writes behind the end of the header or of the buffer, and  *)
(* is never asked for bytes of the next packet.                            *)
WritesInside ==
  /\ InHead => Len(head) + irecvlen = HeadLen
  /\ ~InHead /\ phase # "free" => Len(buf.bytes) + irecvlen = buf.size

(* A buffer for a body is given to the thread pool or freed, whenever in a *)
(* packet the client goes away: none is lost, none freed twice.            *)
BufferOwned ==
  /\ owned = (IF buf = NoBuf THEN 0 ELSE 1)
  /\ phase # "free" => (InHead <=> buf = NoBuf)

(* A client is cut off as a flood exactly when its last KickCount + 1      *)
(* packets came each within Interval of the one before; the packets of     *)
(* the client before it on the connection do not count.                    *)
FloodExact ==
  phase # "free" =>
    (flooded <=> /\ floodOn /\ Len(times) > KickCount
                 /\ \A i \in (Len(times) - KickCount + 1)..Len(times) :
                      times[i] - times[i - 1] \in 0..(Interval - 1))
=============================================================================
