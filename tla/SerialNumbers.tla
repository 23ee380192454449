--------------------------- MODULE SerialNumbers ----------------------------
(***************************************************************************)
(* Lesson 06's serial-number arithmetic on 32-bit sequence numbers.  The   *)
(* theorems about it are in ReassemblyProofs.                              *)
(***************************************************************************)
EXTENDS Integers

Space     == 4294967296
HalfRange == 2147483648     \* TCPIP_L06_SERIAL_HALF_RANGE

SequenceNumber == {n \in Nat : n < Space}

SeqDistance(first, second) == (second - first) % Space

SeqBefore(first, second) ==
  LET distance == SeqDistance(first, second) IN distance # 0 /\ distance < HalfRange

(* The sequence number of the byte at an offset behind the byte base. *)
At(base, offset) == (base + offset) % Space
=============================================================================
