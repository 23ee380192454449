----------------------------- MODULE EpollEchoMC ------------------------------
(***************************************************************************)
(* The request is larger than the buffer and smaller than the stream; the  *)
(* socket buffer towards the peer is smaller than the call's own, so sends *)
(* are partial and the pending bytes reach the buffer's end.               *)
(***************************************************************************)
EXTENDS EpollEcho
=============================================================================
