---------------------------- MODULE ReassemblyMC ----------------------------
(* Reassembly on a window of four bytes whose sequence space wraps inside it. *)
EXTENDS Reassembly
=============================================================================
