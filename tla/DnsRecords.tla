----------------------------- MODULE DnsRecords ------------------------------
(***************************************************************************)
(* The record walks over a DNS message: lesson 09's first_a and lesson     *)
(* 12's parse_dns, and the query that lesson 09 builds.  Lesson 12 passes  *)
(* a name with WalkName, lesson 09 with its decoder, DecodeName, which has *)
(* a limit more; what a decoded name spells is module DnsNames' matter.    *)
(***************************************************************************)
EXTENDS Checksum, FiniteSets

Walked(status, at) == [status |-> status, at |-> at]

(* Where a walk over a name stands: an offset, the length and the targets so far. *)
NamePlaces == [at : Nat, length : 0..255, visited : SUBSET Nat]

NameAt(at, length, visited) == [at |-> at, length |-> length, visited |-> visited]

Target(dns, c) == (At(dns, c) - 192) * 256 + At(dns, c + 1)

(* The place behind a label or a pointer. *)
NextName(dns, p) ==
  LET c == p.at
      b == At(dns, c)
  IN  IF b >= 192 THEN NameAt(Target(dns, c), p.length, p.visited \cup {Target(dns, c)})
      ELSE NameAt(c + 1 + b, p.length + b + 1, p.visited)

(* Where the walk ends from p on, when from the next place on it ends at v.  *)
NameTurn(dns, p, v) ==
  LET c == p.at
      b == At(dns, c)
  IN  IF c >= Len(dns) THEN Walked("TRUNCATED", Len(dns))
      ELSE IF b >= 192 /\ Len(dns) - c < 2 THEN Walked("TRUNCATED", Len(dns))
      ELSE IF b >= 192
        THEN IF \/ Target(dns, c) >= Len(dns) \/ Target(dns, c) \in p.visited
                \/ Cardinality(p.visited) = 128
               THEN Walked("MALFORMED", c + 2)
             ELSE IF v.status # "OK" THEN v ELSE Walked("OK", c + 2)
      ELSE IF b >= 64 THEN Walked("MALFORMED", c + 1)
      ELSE IF b = 0
        THEN IF p.length + 1 > 255 THEN Walked("MALFORMED", c + 1) ELSE Walked("OK", c + 1)
      ELSE IF b > Len(dns) - (c + 1) THEN Walked("TRUNCATED", c + 1)
      ELSE IF p.length > 255 - (b + 1) THEN Walked("MALFORMED", c + 1)
      ELSE v

(* Where the name at an offset ends, or where the walk fails. *)
WalkName(dns, offset) ==
  LET walk[p \in NamePlaces] == NameTurn(dns, p, walk[NextName(dns, p)])
  IN  walk[NameAt(offset, 0, {})]

(* A walk goes on where the last part ended, unless that part failed. *)
Walks == [status : {"OK", "TRUNCATED", "MALFORMED", "FOUND"}, at : Nat]

(* A name and a fixed part of n bytes behind it. *)
PassBehind(dns, name, n) ==
  IF name.status # "OK" THEN name
  ELSE IF Len(dns) - name.at < n THEN Walked("TRUNCATED", name.at)
  ELSE Walked("OK", name.at + n)

PassFixed(dns, c, n) == PassBehind(dns, WalkName(dns, c), n)

(* A loop of count turns; a turn that fails is the last. *)
Passes(Turn, count, start) ==
  LET pass[k \in Nat] == [w \in Walks |-> IF k = 0 \/ w.status # "OK" THEN w ELSE pass[k - 1][Turn[w]]]
  IN  pass[count][start]

(* The questions follow the header of 12 bytes. *)
PassQuestions(dns, count) ==
  Passes([w \in Walks |-> PassFixed(dns, w.at, 4)], count, Walked("OK", 12))

(* The data of a resource record, behind its fixed part. *)
PassData(dns, fixed) ==
  IF fixed.status # "OK" THEN fixed
  ELSE IF Word(dns, fixed.at - 2) > Len(dns) - fixed.at THEN Walked("TRUNCATED", fixed.at)
  ELSE Walked("OK", fixed.at + Word(dns, fixed.at - 2))

PassRecord(dns, w) == PassData(dns, PassFixed(dns, w.at, 10))

PassRecords(dns, count, start) == Passes([w \in Walks |-> PassRecord(dns, w)], count, start)

-----------------------------------------------------------------------------
(* Lesson 12: the three sections follow each other, so one loop passes them. *)
ParseDns(dns) ==
  LET end == PassRecords(dns, Word(dns, 6) + Word(dns, 8) + Word(dns, 10),
                         PassQuestions(dns, Word(dns, 4)))
  IN  IF Len(dns) < 12 THEN Walked("TRUNCATED", Len(dns))
      ELSE IF end.status # "OK" THEN end
      ELSE Walked("OK", Len(dns))

-----------------------------------------------------------------------------
(* Lesson 09 *)
EncodeName(labels) ==
  LET wire[k \in 0..Len(labels)] ==
        IF k = 0 THEN <<>> ELSE wire[k - 1] \o <<Len(labels[k])>> \o labels[k]
      text == wire[Len(labels)] \o <<0>>
  IN  IF Len(text) > 255 \/ \E k \in DOMAIN labels : Len(labels[k]) \notin 1..63
        THEN [status |-> "MALFORMED"]
      ELSE [status |-> "OK", bytes |-> text]

BuildQuery(id, labels, qtype) ==
  LET name == EncodeName(labels)
  IN  IF qtype = 0 THEN [status |-> "INVALID_ARGUMENT"]
      ELSE IF name.status # "OK" THEN name
      ELSE [status |-> "OK",
            bytes |-> Bytes(id) \o <<1, 0>> \o Bytes(1) \o Bytes(0) \o Bytes(0) \o Bytes(0)
                        \o name.bytes \o Bytes(qtype) \o Bytes(1)]

(* Seeded fault: an answer of another type is passed without its data. *)
NextAnswerShort(dns, fixed) == fixed

NextAnswer(dns, fixed) == PassData(dns, fixed)

(* The text, one byte shorter than its labels are on the wire, has its own   *)
(* limit: the decoder refuses the label that takes it beyond 253 bytes.      *)
TextTurn(dns, p, v) ==
  IF p.length > 253 + 1 THEN Walked("MALFORMED", Len(dns)) ELSE NameTurn(dns, p, v)

DecodeName(dns, offset) ==
  LET walk[p \in NamePlaces] == TextTurn(dns, p, walk[NextName(dns, p)])
  IN  walk[NameAt(offset, 0, {})]

PassDecoded(dns, c, n) == PassBehind(dns, DecodeName(dns, c), n)

DecodeQuestions(dns, count) ==
  Passes([w \in Walks |-> PassDecoded(dns, w.at, 4)], count, Walked("OK", 12))

(* One turn of the answer loop, which ends at the data of an A record. *)
PassAnswer(dns, w) ==
  LET fixed == PassDecoded(dns, w.at, 10)
      data  == PassData(dns, fixed)
  IN  IF data.status # "OK" THEN data
      ELSE IF Word(dns, fixed.at - 10) = 1 /\ Word(dns, fixed.at - 8) = 1 THEN Walked("FOUND", fixed.at)
      ELSE NextAnswer(dns, fixed)

(* The first A record among the answers. *)
FirstAnswer(dns, count, start) ==
  LET end == Passes([w \in Walks |-> PassAnswer(dns, w)], count, start)
  IN  IF end.status = "OK" THEN [status |-> "MALFORMED"]
      ELSE IF end.status # "FOUND" THEN [status |-> end.status]
      ELSE IF Word(dns, end.at - 2) # 4 THEN [status |-> "MALFORMED"]
      ELSE [status |-> "OK", address |-> Slice(dns, end.at, 4), ttl |-> Slice(dns, end.at - 6, 4)]

(* QR must be set; opcode, the reserved bit and rcode must be 0. *)
Answers(dns) ==
  /\ At(dns, 2) \div 8 = 16
  /\ (At(dns, 3) \div 64) % 2 = 0

FirstA(dns) ==
  IF Len(dns) < 12 THEN [status |-> "TRUNCATED"]
  ELSE IF ~Answers(dns) THEN [status |-> "MALFORMED"]
  ELSE IF (At(dns, 2) \div 2) % 2 = 1 THEN [status |-> "TRUNCATED"]
  ELSE IF At(dns, 3) % 16 # 0 THEN [status |-> "MALFORMED"]
  ELSE FirstAnswer(dns, Word(dns, 6), DecodeQuestions(dns, Word(dns, 4)))
=============================================================================
