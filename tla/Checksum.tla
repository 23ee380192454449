------------------------------ MODULE Checksum -------------------------------
(***************************************************************************)
(* Bytes on the wire and the Internet checksum: lesson 01, and the copies  *)
(* of it that lessons 03 to 06, lesson 12 and lab 03 carry.                *)
(***************************************************************************)
EXTENDS Integers, Sequences

Byte == 0..255

(* Offsets count from 0. *)
At(d, o)       == d[o + 1]
Word(d, o)     == 256 * At(d, o) + At(d, o + 1)
Bytes(word)    == <<word \div 256, word % 256>>
Put(d, o, word) == [d EXCEPT ![o + 1] = word \div 256, ![o + 2] = word % 256]
Slice(d, o, n) == SubSeq(d, o + 1, o + n)
From(d, o)     == SubSeq(d, o + 1, Len(d))

-----------------------------------------------------------------------------
(* The k-th word; an odd last byte is the upper half of one. *)
WordCount(d) == (Len(d) + 1) \div 2
WordAt(d, k) == 256 * d[2 * k - 1] + IF 2 * k <= Len(d) THEN d[2 * k] ELSE 0

Fold(sum) == (sum % 65536) + (sum \div 65536)

(* Seeded fault: the carry is lost. *)
AddWordWraps(sum, word) == (sum + word) % 65536

AddWord(sum, word) == Fold(sum + word)

(* The lessons fold the carry at every word. *)
SumOfWords(d) ==
  LET sum[k \in 0..WordCount(d)] == IF k = 0 THEN 0 ELSE AddWord(sum[k - 1], WordAt(d, k))
  IN  sum[WordCount(d)]

Complement(sum) == 65535 - sum

InternetChecksum(d) == Complement(SumOfWords(d))

(* Lesson 12 adds everything in 32 bits and folds until 16 bits are left,    *)
(* which takes two folds at most.                                            *)
Total(d) ==
  LET sum[k \in 0..WordCount(d)] == IF k = 0 THEN 0 ELSE sum[k - 1] + WordAt(d, k)
  IN  sum[WordCount(d)]

LateSum(d) == Fold(Fold(Total(d)))

(* The IPv4 pseudo header in front of a UDP or TCP message. *)
WithPseudoHeader(source, destination, protocol, message) ==
  source \o destination \o <<0, protocol>> \o Bytes(Len(message)) \o message

TransportChecksum(source, destination, protocol, message) ==
  InternetChecksum(WithPseudoHeader(source, destination, protocol, message))
=============================================================================
