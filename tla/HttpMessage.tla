---------------------------- MODULE HttpMessage -----------------------------
(***************************************************************************)
(* Lesson 10's tcpip_l10_parse_message.  CR and LF are bytes; the text     *)
(* between two of them is one symbol that says how the code judges it, and *)
(* counts as one byte.                                                     *)
(***************************************************************************)
EXTENDS Integers, Sequences, FiniteSetsExt

CONSTANTS
  MaxHeaders,       \* TCPIP_L10_MAX_HEADERS
  MaxHeaderBytes,   \* TCPIP_L10_MAX_HEADER_BYTES
  MaxBody           \* TCPIP_L10_MAX_BODY_BYTES

ASSUME LimitsAssumption ==
  MaxHeaders \in Nat /\ MaxHeaderBytes \in Nat \ {0} /\ MaxBody \in Nat

CR == "\r"
LF == "\n"

(* A Content-Length line is "length0", "length1", ... by its value, or       *)
(* "lengthX" when it is not a decimal; "coding" is Transfer-Encoding,        *)
(* "folded" starts with a blank, "garbage" is no start line and no header.   *)
Declares == [length0 |-> 0, length1 |-> 1, length2 |-> 2, length3 |-> 3]
StartLines == {"request", "response"}
Texts == StartLines \cup DOMAIN Declares
           \cup {"field", "lengthX", "coding", "folded", "garbage"}

NoMessage(status) == [status |-> status, kind |-> "none", message_length |-> 0]

-----------------------------------------------------------------------------
(* The blank line, searched only within the header limit. *)
ScanLimit(input) ==
  IF Len(input) < MaxHeaderBytes THEN Len(input) ELSE MaxHeaderBytes

CrLf(input, i) == i < Len(input) /\ input[i] = CR /\ input[i + 1] = LF

HeaderEnds(input) == {i \in 4..ScanLimit(input) : CrLf(input, i - 3) /\ CrLf(input, i - 1)}

(* Seeded fault: a CR at the end of what was read is taken for a bare one. *)
BareEndingSplit(input) ==
  \E i \in 1..ScanLimit(input) :
    \/ input[i] = LF /\ (i = 1 \/ input[i - 1] # CR)
    \/ input[i] = CR /\ (i = ScanLimit(input) \/ input[i + 1] # LF)

BareEnding(input) ==
  \E i \in 1..ScanLimit(input) :
    \/ input[i] = LF /\ (i = 1 \/ input[i - 1] # CR)
    \/ input[i] = CR /\ i < ScanLimit(input) /\ input[i + 1] # LF

WithoutEnd(input) ==
  NoMessage(IF BareEnding(input) THEN "MALFORMED"
            ELSE IF Len(input) >= MaxHeaderBytes THEN "CAPACITY" ELSE "TRUNCATED")

(* The content length that a header declares, if it does. *)
Value(text) == {Declares[name] : name \in DOMAIN Declares \cap {text}}

(* Every line that is accepted is one symbol, so the cursor stands here in    *)
(* the k-th turn of the header loop.                                          *)
Cursor(k) == 3 * k + 1

HeaderStatus(input, k) ==
  LET text == input[Cursor(k)]
  IN  IF text = "folded" THEN "MALFORMED"
      ELSE IF k > MaxHeaders THEN "CAPACITY"
      ELSE IF ~CrLf(input, Cursor(k) + 1) \/ text \notin DOMAIN Declares \cup {"field"}
        THEN "MALFORMED"
      ELSE IF \E n \in Value(text) : n > MaxBody THEN "CAPACITY"
      ELSE IF \E j \in 1..(k - 1) : \E n \in Value(text), m \in Value(input[Cursor(j)]) : n # m
        THEN "MALFORMED"
      ELSE "OK"

(* The turns before the one that meets the blank line. *)
Turns(header_end) == {k \in 1..header_end : Cursor(k) < header_end - 1}

Complete(input, message_length) == Len(input) >= message_length

WithEnd(input, header_end) ==
  LET refused == {k \in Turns(header_end) : HeaderStatus(input, k) # "OK"}
      lengths == UNION {Value(input[Cursor(k)]) : k \in Turns(header_end)}
      length  == header_end + IF lengths = {} THEN 0 ELSE CHOOSE n \in lengths : TRUE
  IN  IF input[1] \notin StartLines \/ ~CrLf(input, 2) THEN NoMessage("MALFORMED")
      ELSE IF refused # {} THEN NoMessage(HeaderStatus(input, Min(refused)))
      ELSE IF ~Complete(input, length) THEN NoMessage("TRUNCATED")
      ELSE [status |-> "OK", kind |-> input[1], message_length |-> length]

Parse(input) ==
  IF HeaderEnds(input) = {} THEN WithoutEnd(input) ELSE WithEnd(input, Min(HeaderEnds(input)))

-----------------------------------------------------------------------------
(* Reference: a message is a start line, some headers that agree on the      *)
(* length of the body, a blank line within the limit, and the body.          *)
Fields == {"field"} \cup {name \in DOMAIN Declares : Declares[name] <= MaxBody}

HeadingLength(headers) == 3 * headers + 5

Heading(stream, headers) ==
  /\ CrLf(stream, HeadingLength(headers) - 1) /\ HeadingLength(headers) <= MaxHeaderBytes
  /\ stream[1] \in StartLines /\ CrLf(stream, 2)
  /\ \A k \in 1..headers : stream[3 * k + 1] \in Fields /\ CrLf(stream, 3 * k + 2)

Declared(stream, headers) == UNION {Value(stream[3 * k + 1]) : k \in 1..headers}

MessageLength(stream, headers) ==
  HeadingLength(headers) + IF Declared(stream, headers) = {} THEN 0
                           ELSE CHOOSE n \in Declared(stream, headers) : TRUE

(* Where the message that a stream starts with ends: at no byte, or at one. *)
MessageEnds(stream) ==
  {MessageLength(stream, headers) : headers \in
     {c \in 0..MaxHeaders : /\ Heading(stream, c) /\ MessageLength(stream, c) <= Len(stream)
                           /\ \A n, m \in Declared(stream, c) : n = m}}
=============================================================================
