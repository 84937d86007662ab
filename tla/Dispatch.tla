------------------------------ MODULE Dispatch ------------------------------
(***************************************************************************)
(* What becomes of one packet: its checksum, its code, its handler and the *)
(* answer (threadRecvProcFunc() and the handlers of logic/ngx_c_slogic.cxx,*)
(* misc/ngx_c_crc32.cxx).  The client makes the checksum by the definition *)
(* of CRC-32; on the way some bits of the packet may change.               *)
(*                                                                         *)
(* A word is the set of the positions of its bits that are 1, as a         *)
(* little-endian machine loads it.  RecvPacket is about the length field,  *)
(* ConnPool about whether the client is still the one the message is from, *)
(* TimerQueue about the time a ping leaves behind.                         *)
(***************************************************************************)
EXTENDS Integers, SequencesExt

CONSTANTS
  ByteValues,    \* the bytes a body is made of
  RegisterLen,   \* sizeof(STRUCT_REGISTER)
  LoginLen,      \* sizeof(STRUCT_LOGIN)
  MaxFlips       \* bound: how many bits change on the way

Byte == SUBSET (0..7)

ASSUME BodiesAssumption ==
  /\ ByteValues \subseteq Byte /\ MaxFlips \in Nat
  /\ RegisterLen \in Nat \ {0} /\ LoginLen \in Nat \ {0, RegisterLen}

VARIABLES
  stage,    \* of the packet: "none", "wire", "verified", "dropped", "gone",
            \* "answered"
  sent,     \* the packet the client sent
  wire,     \* the packet that arrives
  reply     \* what it is answered with
dispatchVars == <<stage, sent, wire, reply>>

-----------------------------------------------------------------------------
(* Words.                                                                  *)
Xor(x, y) == (x \ y) \cup (y \ x)
ShiftLeft(x, n) == {i + n : i \in x} \cap (0..31)
ShiftRight(x, n) == {i - n : i \in {j \in x : j >= n}}
AllOnes == 0..31

(* The bytes of a word in the other order.                                 *)
Swap(x, bytes) == {8 * (bytes - 1 - i \div 8) + (i % 8) : i \in x}
ntohl(x) == Swap(x, 4)
ntohs(x) == Swap(x, 2)

(* 0x04c11db7                                                              *)
ulPolynomial == {0, 1, 2, 4, 5, 7, 8, 10, 11, 12, 16, 22, 23, 26}

Reflect(ref, ch) == {ch - 1 - i : i \in ref \cap (0..ch - 1)}

TableRound(x) ==
  Xor(ShiftLeft(x, 1), IF 31 \in x THEN ulPolynomial ELSE {})
AfterRounds(x) ==
  LET value[j \in Nat] == IF j = 0 THEN x ELSE TableRound(value[j - 1]) IN value

TableNotReflected ==
  [byte \in Byte |-> AfterRounds(ShiftLeft(Reflect(byte, 8), 24))[8]]
crc32_table ==
  [byte \in Byte |->
     Reflect(AfterRounds(ShiftLeft(Reflect(byte, 8), 24))[8], 32)]

NextCrc(crc, byte) ==
  Xor(ShiftRight(crc, 8), crc32_table[Xor(crc \cap (0..7), byte)])
CrcAfter(buffer) ==
  LET crc[len \in 0..Len(buffer)] ==
        IF len = 0 THEN AllOnes ELSE NextCrc(crc[len - 1], buffer[len])
  IN crc
Get_CRC(buffer) == Xor(CrcAfter(buffer)[Len(buffer)], AllOnes)

-----------------------------------------------------------------------------
(* The client's view: the bits of the body, the lowest of each byte first, *)
(* are a polynomial; 32 zeros are appended, the first 32 bits complemented *)
(* and the remainder modulo the generator, complemented, is the checksum,  *)
(* its highest coefficient the lowest bit.                                 *)
Bits(body) == 8 * Len(body)
BitsSet(body) ==
  {t \in 1..Bits(body) : (t - 1) % 8 \in body[(t - 1) \div 8 + 1]}
Dividend(body) ==
  Xor({Bits(body) + 32 - t : t \in BitsSet(body)}, Bits(body)..Bits(body) + 31)
Subtract(rest, e) ==
  IF e \notin rest THEN rest
  ELSE Xor(rest, {e - 32 + g : g \in ulPolynomial \cup {32}})
Division(body) ==
  LET rest[t \in 0..Bits(body)] ==
        IF t = 0 THEN Dividend(body)
        ELSE Subtract(rest[t - 1], Bits(body) + 32 - t)
  IN rest
StandardCRC(body) == {i \in 0..31 : 31 - i \notin Division(body)[Bits(body)]}

Checksum(body) == IF body = <<>> THEN {} ELSE ntohl(StandardCRC(body))

_CMD_PING == {}
_CMD_REGISTER == {0, 2}
_CMD_LOGIN == {1, 2}
Longest == Max({LoginLen, RegisterLen})
Bodies == SeqOf(ByteValues, Longest)

(* No two powers of x as far apart as two bits of a packet can be have the *)
(* same remainder: a second changed bit never makes up for the first.      *)
PowersDiffer(bits) == \A d \in 1..(bits - 1) : AfterRounds({0})[d] # {0}
ASSUME DetectionAssumption == MaxFlips <= 2 /\ PowersDiffer(8 * Longest + 32)

(* A code that is reserved, and the first behind the table.                *)
Codes == {_CMD_PING, _CMD_REGISTER, _CMD_LOGIN, {0}, {0, 1, 2}}

DispatchInit == stage = "none" /\ sent = <<>> /\ wire = <<>> /\ reply = <<>>

(* A packet behind its length field: 16 bits of code, 32 of checksum, and  *)
(* the body.  Of the code the low bits may change.                         *)
Exposed(body) == (8..11) \cup (16..47 + 8 * Len(body))
Damaged(packet, bits) ==
  LET Hit(first, n) == {b - first : b \in bits \cap (first..first + n - 1)} IN
  [code |-> Xor(packet.code, Hit(0, 16)),
   crc  |-> Xor(packet.crc, Hit(16, 32)),
   body |-> [k \in 1..Len(packet.body) |->
               Xor(packet.body[k], Hit(40 + 8 * k, 8))]]

ClientSendsPacket(code, body) ==
  /\ stage = "none" /\ stage' = "wire"
  /\ sent' = [code |-> ntohs(code), crc |-> Checksum(body), body |-> body]
  /\ \/ wire' = sent'
     \/ \E hit \in [1..MaxFlips -> Exposed(body)] :
          wire' = Damaged(sent', Range(hit))
  /\ UNCHANGED reply

-----------------------------------------------------------------------------
(* threadRecvProcFunc()                                                    *)

CRCFits(packet) ==
  IF packet.body = <<>> THEN packet.crc = {}
                        ELSE ntohl(packet.crc) = Get_CRC(packet.body)

(* The handlers of the codes below AUTH_TOTAL_COMMANDS, which is 7.        *)
InTable(imsgCode) == imsgCode \in (SUBSET (0..2)) \ {{0, 1, 2}}
statusHandler(imsgCode) ==
  CASE imsgCode = _CMD_PING     -> "_HandlePing"
    [] imsgCode = _CMD_REGISTER -> "_HandleRegister"
    [] imsgCode = _CMD_LOGIN    -> "_HandleLogIn"
    [] OTHER                    -> "NULL"

imsgCode == ntohs(wire.code)
Called(handler) ==
  stage = "verified" /\ InTable(imsgCode) /\ statusHandler(imsgCode) = handler

Reach(next) == stage' = next /\ UNCHANGED <<sent, wire, reply>>
Drop == Reach("dropped")

DropDamaged == stage = "wire" /\ ~CRCFits(wire) /\ Drop
Verify == stage = "wire" /\ CRCFits(wire) /\ Reach("verified")

(* The connection has another sequence number by now.                      *)
DropStaleMessage == stage = "verified" /\ Reach("gone")

DropUnknown == stage = "verified" /\ ~InTable(imsgCode) /\ Drop
DropReserved == Called("NULL") /\ Drop

Answer(packet) ==
  /\ reply' = packet /\ stage' = "answered" /\ UNCHANGED <<sent, wire>>

(* It also stores the time, which TimerQueue has.                          *)
HandlePing ==
  /\ Called("_HandlePing")
  /\ IF wire.body # <<>> THEN Drop     \* SendNoBodyPkgToClient() otherwise
     ELSE Answer([code |-> ntohs(_CMD_PING), crc |-> {}, body |-> <<>>])

(* The body of an answer is memory that nothing was written to.            *)
HandleStruct(handler, code, len) ==
  /\ Called(handler)
  /\ IF Len(wire.body) # len THEN Drop
     ELSE \E body \in [1..len -> ByteValues] :
            Answer([code |-> ntohs(code), crc |-> ntohl(Get_CRC(body)),
                    body |-> body])
HandleRegister == HandleStruct("_HandleRegister", _CMD_REGISTER, RegisterLen)
HandleLogIn == HandleStruct("_HandleLogIn", _CMD_LOGIN, LoginLen)

DispatchNext ==
  \/ \E code \in Codes, body \in Bodies : ClientSendsPacket(code, body)
  \/ DropDamaged \/ Verify \/ DropStaleMessage \/ DropUnknown \/ DropReserved
  \/ HandlePing \/ HandleRegister \/ HandleLogIn

DispatchSpec == DispatchInit /\ [][DispatchNext]_dispatchVars

-----------------------------------------------------------------------------
BodyLen(code) ==
  CASE code = ntohs(_CMD_PING) -> 0
    [] code = ntohs(_CMD_REGISTER) -> RegisterLen
    [] code = ntohs(_CMD_LOGIN) -> LoginLen
    [] OTHER -> -1
Proper(packet) ==
  Len(packet.body) = BodyLen(packet.code) /\ packet.crc = Checksum(packet.body)

(* A request is answered if it arrives as it was sent, and only then: a    *)
(* changed bit in its code, checksum or body never makes it another valid  *)
(* one, and the table the server calculates with gives what the definition *)
(* gives.  The answer is to the request, and its client can verify it.     *)
AnsweredAsMeant ==
  /\ stage = "answered" => /\ Proper(wire) /\ (Proper(sent) => wire = sent)
                           /\ Proper(reply) /\ reply.code = wire.code
  /\ stage = "dropped" => wire # sent \/ ~Proper(sent)
=============================================================================
