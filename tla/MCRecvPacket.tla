---------------------------- MODULE MCRecvPacket ----------------------------
(***************************************************************************)
(* The way of a client's bytes in two views that share no state: how they  *)
(* become packets, and what becomes of one packet.  A behaviour follows    *)
(* one of them.                                                            *)
(*                                                                         *)
(* RecvPacket has headers of two bytes: 1 and 5 are lengths no packet has, *)
(* 2 is that of a header alone, 4 leaves two bytes of body.  Dispatch has  *)
(* bodies of up to two bytes, of 0 and of 0x81.                            *)
(***************************************************************************)
EXTENDS RecvPacket, Dispatch

(* PowersDiffer(8 * 100 + 32): what Dispatch assumes of the polynomial      *)
(* holds of the sizes in the code, for STRUCT_REGISTER, the longest body,  *)
(* has 100 bytes.  Power[q] is the remainder of x^(32 * q), evaluated      *)
(* before the next one is; all rounds in one go are too deep a recursion.  *)
Power[q \in 0..25] ==
  IF q = 0 THEN {0}
  ELSE CHOOSE p \in {AfterRounds(x)[32] : x \in {Power[q - 1]}} : TRUE
ASSUME RealSizes ==
  \A q \in 0..25, r \in 0..31 : q + r > 0 => AfterRounds(Power[q])[r] # {0}

TwoBytes == {{}, {0, 7}}

VARIABLE view

MCInit == Init /\ DispatchInit /\ view \in {"bytes", "packet"}
MCNext ==
  /\ UNCHANGED view
  /\ \/ view = "bytes" /\ Next /\ UNCHANGED dispatchVars
     \/ view = "packet" /\ DispatchNext /\ UNCHANGED vars
MCSpec == MCInit /\ [][MCNext]_<<vars, dispatchVars, view>>
=============================================================================
