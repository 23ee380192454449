--------------------------- MODULE StreamSocketsMC ---------------------------
(***************************************************************************)
(* A two-byte header, a kernel that holds less than a frame, empty frames, *)
(* frames that fit and frames too long for the server or for the client.   *)
(***************************************************************************)
EXTENDS StreamSockets
=============================================================================
