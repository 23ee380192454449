----------------------------- MODULE DnsMessage ------------------------------
(***************************************************************************)
(* What the bytes of a DNS message mean to a name walk.  A byte is below   *)
(* 4 * Quarter (Quarter = 64 in the code): its two top bits tell a label's *)
(* length, a reserved prefix or the first byte of a pointer.               *)
(***************************************************************************)
EXTENDS Integers, Sequences

CONSTANTS
  Quarter,   \* number of values of a byte with given top bits
  MaxWire,   \* TCPIP_L09_MAX_WIRE_NAME and TCPIP_L12_DNS_MAX_WIRE_NAME
  MaxHops,   \* TCPIP_L09_MAX_POINTER_HOPS and TCPIP_L12_DNS_MAX_POINTER_HOPS
  Messages   \* bound: the messages walked

Byte == 0..(4 * Quarter - 1)

ASSUME MessageAssumption ==
  /\ Quarter \in Nat \ {0} /\ MaxHops \in Nat
  /\ MaxWire \in Nat /\ MaxWire >= Quarter
  /\ Messages \subseteq Seq(Byte)

(* Offsets count from 0. *)
At(m, c) == m[c + 1]

Reserved(b) == b >= Quarter /\ b < 3 * Quarter
Pointer(b)  == b >= 3 * Quarter

Target(m, c) == (At(m, c) - 3 * Quarter) * (4 * Quarter) + At(m, c + 1)
=============================================================================
