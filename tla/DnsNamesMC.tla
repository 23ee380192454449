----------------------------- MODULE DnsNamesMC ------------------------------
(***************************************************************************)
(* Every message of up to four bytes, and of five without a reserved byte, *)
(* over the root, two label lengths, a reserved prefix and a pointer whose *)
(* low byte may be any of them.  Names may have five bytes and two hops.   *)
(***************************************************************************)
EXTENDS DnsNames, SequencesExt

Bytes == {0, 1, 2, 4, 12}
ShortMessages == SeqOf(Bytes, 4) \cup TupleOf({0, 1, 2, 12}, 5)
=============================================================================
