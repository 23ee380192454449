--------------------------- MODULE ReceivedStream ---------------------------
(***************************************************************************)
(* What a receive window promises its reader (lesson 07, README "Test      *)
(* contract and invariants"): bytes become known one segment at a time, in *)
(* any order; a known byte stays known and keeps its value; and a read     *)
(* extends the output to the whole known prefix, or leaves it alone.       *)
(***************************************************************************)
EXTENDS Integers, Sequences

CONSTANTS Capacity, Byte

VARIABLES
  known,    \* the bytes received so far: a function on some of the positions
  output    \* the bytes handed to the reader so far

Position == 0..(Capacity - 1)

Init == known = [i \in {} |-> 0] /\ output = <<>>

(* A segment may add bytes; it can neither withdraw nor alter one. *)
Learn ==
  /\ DOMAIN known \subseteq DOMAIN known'
  /\ DOMAIN known' \subseteq Position
  /\ \A i \in DOMAIN known' : known'[i] \in Byte
  /\ \A i \in DOMAIN known : known'[i] = known[i]
  /\ UNCHANGED output

(* The reader gets everything up to the first unknown position. *)
Deliver ==
  \E n \in Len(output)..Capacity :
    /\ 0..(n - 1) \subseteq DOMAIN known
    /\ n \notin DOMAIN known
    /\ output' = [i \in 1..n |-> known[i - 1]]
    /\ UNCHANGED known

Spec == Init /\ [][Learn \/ Deliver]_<<known, output>>
=============================================================================
