------------------------------ MODULE DnsNames -------------------------------
(***************************************************************************)
(* The same name of the same message is decoded by lesson 09 and then      *)
(* walked by lesson 12; both are compared with what the bytes spell.       *)
(***************************************************************************)
EXTENDS NameDecoder

VARIABLES
  w_cursor, w_expanded, w_hops, w_visited, w_jumped, w_next, w_status, w_parsed

Walk == INSTANCE NameWalk WITH
  dns <- message, cursor <- w_cursor, expanded_wire_len <- w_expanded,
  pointer_hops <- w_hops, visited <- w_visited, jumped <- w_jumped,
  next_offset <- w_next, status <- w_status, parsed_length <- w_parsed

walk_vars == <<w_cursor, w_expanded, w_hops, w_visited, w_jumped, w_next, w_status, w_parsed>>

BothInit == Init /\ Walk!Init

BothNext ==
  \/ Next /\ UNCHANGED walk_vars
  \/ ~Running /\ Walk!Next /\ UNCHANGED <<out_capacity, progress, results>>

BothSpec == BothInit /\ [][BothNext]_<<vars, walk_vars>> /\ WF_<<vars, walk_vars>>(BothNext)

-----------------------------------------------------------------------------
(* What a name at offset o of message m spells, without limits on the work. *)
IsPointer(m, c) ==
  /\ c + 1 < Len(m) /\ Pointer(At(m, c)) /\ Target(m, c) < Len(m)

IsLabel(m, c) ==
  /\ c < Len(m) /\ At(m, c) > 0 /\ At(m, c) < Quarter
  /\ c + 1 + At(m, c) <= Len(m)

IsRoot(m, c) == c < Len(m) /\ At(m, c) = 0

(* Where a reading is, and the name it has met on the way: its length on the *)
(* wire with the root, its pointers and its text.                            *)
Begin(o) == [at |-> o, wire |-> 1, hops |-> 0, text |-> <<>>]

WithDot(text) == IF text = <<>> THEN <<>> ELSE Append(text, Dot)

Advance(m, s) ==
  IF IsPointer(m, s.at) THEN [s EXCEPT !.at = Target(m, s.at), !.hops = @ + 1]
  ELSE IF IsLabel(m, s.at)
    THEN [at   |-> s.at + 1 + At(m, s.at), wire |-> s.wire + 1 + At(m, s.at), hops |-> s.hops,
          text |-> WithDot(s.text) \o SubSeq(m, s.at + 2, s.at + 1 + At(m, s.at))]
    ELSE s

Spelling(m, o) ==
  LET s[n \in Nat] == IF n = 0 THEN Begin(o) ELSE Advance(m, s[n - 1])
  IN  s

(* After Len(m) steps a reading is at its root, is stuck, or goes round.     *)
Name(m, o) == Spelling(m, o)[Len(m)]

Legal(m, o) ==
  IsRoot(m, Name(m, o).at) /\ Name(m, o).wire <= MaxWire /\ Name(m, o).hops <= MaxHops

(* Where the name ends in place: behind its first pointer, or its root.      *)
EndsAt(m, o, n) ==
  LET s == Spelling(m, o)
  IN  /\ IsPointer(m, s[n].at) \/ IsRoot(m, s[n].at)
      /\ \A j \in 0..(n - 1) : IsLabel(m, s[j].at)

EndInPlace(m, o) ==
  LET last == Spelling(m, o)[CHOOSE n \in 0..Len(m) : EndsAt(m, o, n)].at
  IN  IF IsPointer(m, last) THEN last + 2 ELSE last + 1

-----------------------------------------------------------------------------
(* The decoder accepts exactly the legal names, those without a cycle and    *)
(* within the limits, whatever its text limit and visited set also refuse;   *)
(* it returns what they spell and where they end in place.                   *)
DecodesTheName ==
  ~Running =>
    /\ status \in {"OK", "CAPACITY"} <=> Legal(message, offset)
    /\ status = "OK" => /\ out = Name(message, offset).text
                        /\ next_offset = EndInPlace(message, offset)

(* Lesson 12 accepts the names lesson 09 accepts and continues at the same   *)
(* byte; what it reports as parsed lies in the message.                      *)
NamesAgree ==
  /\ w_status # "RUNNING" =>
       /\ w_status = "OK" <=> status \in {"OK", "CAPACITY"}
       /\ w_status = "OK" /\ status = "OK" => w_next = next_offset
  /\ w_parsed <= Len(message)

(* "Compression pointers are range-checked, but this diagnostic parser does  *)
(* not recursively follow them" (lesson 12's README): a name that begins     *)
(* with a pointer into the message is accepted.                              *)
PointersNotFollowed ==
  w_status # "RUNNING" /\ IsPointer(message, offset) /\ MaxHops > 0 => w_status = "OK"
=============================================================================
