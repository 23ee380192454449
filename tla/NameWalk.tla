------------------------------ MODULE NameWalk -------------------------------
(***************************************************************************)
(* Lesson 12's tcpip_l12_walk_dns_name: the same loop, which only finds    *)
(* the end of the name and reports where it failed.                        *)
(***************************************************************************)
EXTENDS DnsMessage

VARIABLES
  dns, offset,
  cursor, expanded_wire_len, pointer_hops, visited, jumped,
  next_offset, status,
  parsed_length          \* of the report, counted from the message's start

args     == <<dns, offset>>
progress == <<cursor, expanded_wire_len, pointer_hops, visited, jumped, next_offset>>
vars     == <<args, progress, status, parsed_length>>

Init ==
  /\ dns \in Messages /\ offset \in 0..Len(dns)
  /\ cursor = offset /\ expanded_wire_len = 0 /\ pointer_hops = 0
  /\ visited = {} /\ jumped = FALSE
  /\ next_offset = 0 /\ status = "RUNNING" /\ parsed_length = 0

Stop(result, parsed) ==
  /\ status' = result /\ parsed_length' = parsed
  /\ UNCHANGED <<args, progress>>

Running == status = "RUNNING"
Reading == Running /\ cursor < Len(dns)
This    == At(dns, cursor)

PastEnd == Running /\ cursor >= Len(dns) /\ Stop("TRUNCATED", Len(dns))

ReadPointer == Reading /\ Pointer(This)

PointerCut == ReadPointer /\ Len(dns) - cursor < 2 /\ Stop("TRUNCATED", Len(dns))

Refused(target) ==
  \/ target >= Len(dns)
  \/ target \in visited
  \/ pointer_hops + 1 > MaxHops

(* next_offset is set before the target is checked. *)
EndAfterPointer == IF jumped THEN next_offset ELSE cursor + 2

PointerRefused ==
  /\ ReadPointer /\ Len(dns) - cursor >= 2
  /\ Refused(Target(dns, cursor))
  /\ status' = "MALFORMED" /\ parsed_length' = cursor + 2
  /\ next_offset' = EndAfterPointer /\ jumped' = TRUE
  /\ UNCHANGED <<args, cursor, expanded_wire_len, pointer_hops, visited>>

FollowPointer ==
  /\ ReadPointer /\ Len(dns) - cursor >= 2
  /\ ~Refused(Target(dns, cursor))
  /\ next_offset' = EndAfterPointer
  /\ jumped' = TRUE
  /\ visited' = visited \cup {Target(dns, cursor)}
  /\ pointer_hops' = pointer_hops + 1
  /\ cursor' = Target(dns, cursor)
  /\ UNCHANGED <<args, expanded_wire_len, status, parsed_length>>

ReadReserved == Reading /\ Reserved(This) /\ Stop("MALFORMED", cursor + 1)

ReadRoot == Reading /\ This = 0

(* Seeded fault: the root is not counted. *)
LabelsFit == expanded_wire_len <= MaxWire

RootFits == expanded_wire_len + 1 <= MaxWire

(* The cursor is past the byte by the time the limit is checked. *)
RootTooLong ==
  /\ ReadRoot /\ ~RootFits
  /\ Stop("MALFORMED", cursor + 1)

FinishWalk ==
  /\ ReadRoot /\ RootFits
  /\ next_offset' = IF jumped THEN next_offset ELSE cursor + 1
  /\ status' = "OK"
  /\ UNCHANGED <<args, cursor, expanded_wire_len, pointer_hops, visited, jumped,
                 parsed_length>>

ReadLabel == Reading /\ This > 0 /\ This < Quarter

LabelCut ==
  /\ ReadLabel /\ This > Len(dns) - (cursor + 1)
  /\ Stop("TRUNCATED", cursor + 1)

WireTooLong == expanded_wire_len > MaxWire - (This + 1)

LabelRefused ==
  /\ ReadLabel /\ This <= Len(dns) - (cursor + 1) /\ WireTooLong
  /\ Stop("MALFORMED", cursor + 1)

PassLabel ==
  /\ ReadLabel /\ This <= Len(dns) - (cursor + 1) /\ ~WireTooLong
  /\ expanded_wire_len' = expanded_wire_len + This + 1
  /\ cursor' = cursor + 1 + This
  /\ UNCHANGED <<args, pointer_hops, visited, jumped, next_offset, status, parsed_length>>

Next ==
  \/ PastEnd \/ PointerCut \/ PointerRefused \/ FollowPointer \/ ReadReserved
  \/ RootTooLong \/ FinishWalk \/ LabelCut \/ LabelRefused \/ PassLabel
=============================================================================
