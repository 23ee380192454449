---------------------------- MODULE NameDecoder ------------------------------
(***************************************************************************)
(* Lesson 09's tcpip_l09_decode_name: one turn of the decoding loop per    *)
(* step.  The text goes to a local buffer first and to the caller only     *)
(* when it is complete and fits.                                           *)
(***************************************************************************)
EXTENDS DnsMessage

CONSTANTS
  MaxText,         \* TCPIP_L09_MAX_TEXT_NAME
  OutCapacities    \* bound: sizes of the caller's buffer

ASSUME TextAssumption == MaxText = MaxWire - 2 /\ MaxText \in Nat /\ OutCapacities \subseteq Nat

VARIABLES
  message, offset, out_capacity,     \* arguments
  cursor, expanded_wire_len, pointer_hops, visited, jumped,
  decoded, decoded_next,             \* local results
  out, next_offset, status           \* the caller's

args     == <<message, offset, out_capacity>>
progress == <<cursor, expanded_wire_len, pointer_hops, visited, jumped, decoded, decoded_next>>
results  == <<out, next_offset, status>>
vars     == <<args, progress, results>>

Init ==
  /\ message \in Messages /\ offset \in 0..Len(message)
  /\ out_capacity \in OutCapacities
  /\ cursor = offset /\ expanded_wire_len = 0 /\ pointer_hops = 0
  /\ visited = {} /\ jumped = FALSE
  /\ decoded = <<>> /\ decoded_next = 0
  /\ out = <<>> /\ next_offset = 0 /\ status = "RUNNING"

Return(result) ==
  /\ status' = result
  /\ UNCHANGED <<args, progress, out, next_offset>>

Running == status = "RUNNING"
Reading == Running /\ cursor < Len(message)
This    == At(message, cursor)

PastEnd == Running /\ cursor >= Len(message) /\ Return("TRUNCATED")

-----------------------------------------------------------------------------
ReadPointer == Reading /\ Pointer(This)

PointerCut == ReadPointer /\ Len(message) - cursor < 2 /\ Return("TRUNCATED")

Refused(target) ==
  \/ target >= Len(message)
  \/ target \in visited
  \/ pointer_hops + 1 > MaxHops

PointerRefused ==
  /\ ReadPointer /\ Len(message) - cursor >= 2
  /\ Refused(Target(message, cursor))
  /\ Return("MALFORMED")

(* Seeded fault: every pointer moves the end of the name. *)
LatestEnd == cursor + 2

EndAfterPointer == IF jumped THEN decoded_next ELSE cursor + 2

FollowPointer ==
  /\ ReadPointer /\ Len(message) - cursor >= 2
  /\ ~Refused(Target(message, cursor))
  /\ decoded_next' = EndAfterPointer
  /\ jumped' = TRUE
  /\ visited' = visited \cup {Target(message, cursor)}
  /\ pointer_hops' = pointer_hops + 1
  /\ cursor' = Target(message, cursor)
  /\ UNCHANGED <<args, expanded_wire_len, decoded, results>>

ReadReserved == Reading /\ Reserved(This) /\ Return("MALFORMED")

-----------------------------------------------------------------------------
ReadRoot == Reading /\ This = 0

RootTooLong == ReadRoot /\ expanded_wire_len + 1 > MaxWire /\ Return("MALFORMED")

(* Seeded fault: the terminating NUL has no place. *)
TextFits == Len(decoded) <= out_capacity

NameFits == Len(decoded) + 1 <= out_capacity

OutTooSmall ==
  /\ ReadRoot /\ expanded_wire_len + 1 <= MaxWire
  /\ ~NameFits
  /\ Return("CAPACITY")

FinishName ==
  /\ ReadRoot /\ expanded_wire_len + 1 <= MaxWire
  /\ NameFits
  /\ out' = decoded
  /\ next_offset' = IF jumped THEN decoded_next ELSE cursor + 1
  /\ status' = "OK"
  /\ UNCHANGED <<args, progress>>

-----------------------------------------------------------------------------
ReadLabel == Reading /\ This > 0 /\ This < Quarter

LabelCut == ReadLabel /\ This > Len(message) - (cursor + 1) /\ Return("TRUNCATED")

LabelFits == This <= Len(message) - (cursor + 1)

Dot == 46
Separated == IF decoded = <<>> THEN <<>> ELSE Append(decoded, Dot)

WireTooLong == expanded_wire_len > MaxWire - (This + 1)

TextTooLong ==
  \/ decoded # <<>> /\ Len(decoded) >= MaxText
  \/ This > MaxText - Len(Separated)

LabelRefused ==
  /\ ReadLabel /\ LabelFits
  /\ WireTooLong \/ TextTooLong
  /\ Return("MALFORMED")

StoreLabel ==
  /\ ReadLabel /\ LabelFits
  /\ ~WireTooLong /\ ~TextTooLong
  /\ expanded_wire_len' = expanded_wire_len + This + 1
  /\ decoded' = Separated \o SubSeq(message, cursor + 2, cursor + 1 + This)
  /\ cursor' = cursor + 1 + This
  /\ UNCHANGED <<args, pointer_hops, visited, jumped, decoded_next, results>>

Next ==
  \/ PastEnd \/ PointerCut \/ PointerRefused \/ FollowPointer \/ ReadReserved
  \/ RootTooLong \/ OutTooSmall \/ FinishName
  \/ LabelCut \/ LabelRefused \/ StoreLabel

Spec == Init /\ [][Next]_vars /\ WF_vars(Next)

-----------------------------------------------------------------------------
(* The local buffer holds MaxText bytes and a NUL; the walk stays inside the *)
(* message, or at its end, and within its limits.                            *)
TypeOK ==
  /\ message \in Messages /\ offset \in 0..Len(message)
  /\ out_capacity \in OutCapacities
  /\ cursor \in 0..Len(message)
  /\ expanded_wire_len \in 0..MaxWire
  /\ pointer_hops \in 0..MaxHops
  /\ visited \subseteq 0..(Len(message) - 1)
  /\ jumped \in BOOLEAN
  /\ decoded_next \in 0..Len(message)
  /\ decoded \in Seq(Byte \cup {Dot}) /\ Len(decoded) <= MaxText
  /\ out \in Seq(Byte \cup {Dot}) /\ next_offset \in 0..Len(message)
  /\ status \in {"RUNNING", "OK", "TRUNCATED", "MALFORMED", "CAPACITY"}

(* The caller gets a name only with OK; the name and its NUL fit the buffer, *)
(* and the end of the name lies behind its start and inside the message, on  *)
(* which first_a's next subtraction relies.                                  *)
ResultsFit ==
  /\ status = "OK" => /\ Len(out) < out_capacity
                      /\ offset < next_offset /\ next_offset <= Len(message)
  /\ status # "OK" => out = <<>> /\ next_offset = 0
=============================================================================
