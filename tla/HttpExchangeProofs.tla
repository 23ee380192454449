------------------------- MODULE HttpExchangeProofs -------------------------
(***************************************************************************)
(* Lesson 10's calls for all streams, capacities and limits: what the      *)
(* parser accepts is the message that the stream starts with, wherever the *)
(* reads cut it; only requests are answered; the statuses say what         *)
(* happened, flags are handed back, and a deadline is final.               *)
(***************************************************************************)
EXTENDS HttpExchange, WellFoundedInduction, TLAPS

-----------------------------------------------------------------------------
(* A set of numbers has a least one.                                       *)
LEMMA LeastNatural ==
  ASSUME NEW T \in SUBSET Nat, T # {}
  PROVE  \E n \in T : \A m \in T : n <= m
<1>. DEFINE R == OpToRel(<, Nat)
<1>1. IsWellFoundedOn(R, Nat)
  BY NatLessThanWellFounded
<1>2. \A a, b \in Nat : <<a, b>> \in R <=> a < b
  BY DEF OpToRel
<1>. HIDE DEF R
<1>3. PICK n \in T : \A m \in T : ~(<<m, n>> \in R)
  BY <1>1, WFMin
<1>4. ASSUME NEW m \in T PROVE n <= m
  <2>1. m \in Nat /\ n \in Nat /\ ~(m < n)
    BY <1>2, <1>3
  <2>. QED
    BY <2>1
<1>. QED
  BY <1>4

LEMMA MinIsLeast ==
  ASSUME NEW S \in SUBSET Nat, S # {}
  PROVE  Min(S) \in S /\ \A j \in S : Min(S) <= j
<1>1. \E i \in S : \A j \in S : i <= j
  BY LeastNatural
<1>. QED
  BY <1>1 DEF Min

(* The places of a stream of lines: a text, CR and LF.                     *)
LEMMA Thirds ==
  ASSUME NEW i \in Nat, i > 0
  PROVE  {k \in Nat : i \in {3 * k + 1, 3 * k + 2, 3 * k + 3}} # {}
<1>. DEFINE T == {k \in Nat : i <= 3 * k + 3}
<1>1. PICK k \in T : \A j \in T : k <= j
  <2>1. i \in T
    OBVIOUS
  <2>2. T \in SUBSET Nat /\ T # {}
    BY <2>1
  <2>. HIDE DEF T
  <2>. QED
    BY <2>2, LeastNatural
<1>2. k \in Nat /\ i <= 3 * k + 3
  OBVIOUS
<1>3. i > 3 * k
  <2>1. CASE k = 0
    BY <2>1
  <2>2. CASE k # 0
    <3>1. k - 1 \in Nat /\ ~(k <= k - 1) /\ 3 * (k - 1) + 3 = 3 * k
      BY <1>2, <2>2
    <3>2. ~(k - 1 \in T)
      BY <1>1, <3>1
    <3>. QED
      BY <1>2, <3>1, <3>2
  <2>. QED
    BY <2>1, <2>2
<1>4. i \in {3 * k + 1, 3 * k + 2, 3 * k + 3}
  BY <1>2, <1>3
<1>. QED
  BY <1>2, <1>4

-----------------------------------------------------------------------------
(* The parser.  A sequence begins with n lines of one symbol each.         *)
Lined(m, n) == \A k \in 0..(n - 1) : m[3 * k + 1] \notin {CR, LF} /\ CrLf(m, 3 * k + 2)

LEMMA TextIsNoEnding ==
  ASSUME NEW text \in StartLines \cup Fields
  PROVE  text \notin {CR, LF}
BY DEF StartLines, Fields, Declares, CR, LF

(* No header ends inside such lines.                                       *)
LEMMA NoEarlyEnd ==
  ASSUME NEW m, NEW n \in Nat, Lined(m, n), NEW i \in Nat, i >= 4, CrLf(m, i - 3), CrLf(m, i - 1)
  PROVE  i >= 3 * n + 2
<1>. SUFFICES ASSUME i < 3 * n + 2 PROVE FALSE
  OBVIOUS
<1>1. m[i - 1] = CR /\ m[i - 3] = CR /\ CR # LF
  BY DEF CrLf, CR, LF
<1>2. PICK k \in Nat : i - 1 \in {3 * k + 1, 3 * k + 2, 3 * k + 3}
  <2>1. i - 1 \in Nat /\ i - 1 > 0
    OBVIOUS
  <2>. HIDE DEF CrLf
  <2>2. {k \in Nat : i - 1 \in {3 * k + 1, 3 * k + 2, 3 * k + 3}} # {}
    BY <2>1, Thirds
  <2>. QED
    BY <2>2
<1>3. k \in 0..(n - 1)
  BY <1>2
<1>4. m[3 * k + 1] # CR /\ CrLf(m, 3 * k + 2)
  BY <1>3 DEF Lined
<1>5. (3 * k + 2) + 1 = 3 * k + 3
  OBVIOUS
<1>6. m[3 * k + 3] = LF
  BY <1>4, <1>5 DEF CrLf
<1>7. i - 1 = 3 * k + 2
  BY <1>1, <1>2, <1>4, <1>6
<1>8. k - 1 \in 0..(n - 1) /\ i - 3 = (3 * (k - 1) + 2) + 1
  BY <1>3, <1>7
<1>9. CrLf(m, 3 * (k - 1) + 2)
  BY <1>8 DEF Lined
<1>10. m[i - 3] = LF
  BY <1>8, <1>9 DEF CrLf
<1>. QED
  BY <1>1, <1>10

LEMMA ScanLimitType ==
  ASSUME NEW m, Len(m) \in Nat
  PROVE  /\ ScanLimit(m) \in Nat /\ ScanLimit(m) <= Len(m) /\ ScanLimit(m) <= MaxHeaderBytes
         /\ ScanLimit(m) \in {Len(m), MaxHeaderBytes}
BY LimitsAssumption DEF ScanLimit

(* A blank line behind them ends the header.                               *)
LEMMA HeaderEndIs ==
  ASSUME NEW m, Len(m) \in Nat, NEW n \in Nat, n > 0, Lined(m, n), CrLf(m, 3 * n + 1),
         3 * n + 2 <= ScanLimit(m)
  PROVE  HeaderEnds(m) # {} /\ Min(HeaderEnds(m)) = 3 * n + 2
<1>1. ScanLimit(m) \in Nat
  BY ScanLimitType
<1>2. 3 * n + 2 \in HeaderEnds(m)
  <2>1. n - 1 \in 0..(n - 1) /\ 3 * (n - 1) + 2 = (3 * n + 2) - 3 /\ (3 * n + 2) - 1 = 3 * n + 1
        /\ 3 * n + 2 \in 4..ScanLimit(m)
    BY <1>1
  <2>2. CrLf(m, 3 * (n - 1) + 2)
    BY <2>1 DEF Lined
  <2>. QED
    BY <2>1, <2>2 DEF HeaderEnds
<1>3. HeaderEnds(m) \in SUBSET Nat
  BY <1>1 DEF HeaderEnds
<1>4. ASSUME NEW i \in HeaderEnds(m) PROVE i >= 3 * n + 2
  BY <1>1, NoEarlyEnd DEF HeaderEnds
<1>5. Min(HeaderEnds(m)) \in HeaderEnds(m) /\ Min(HeaderEnds(m)) <= 3 * n + 2
  BY <1>2, <1>3, MinIsLeast
<1>6. Min(HeaderEnds(m)) >= 3 * n + 2 /\ Min(HeaderEnds(m)) \in Nat
  BY <1>3, <1>4, <1>5
<1>7. Min(HeaderEnds(m)) = 3 * n + 2
  <2>. DEFINE x == Min(HeaderEnds(m))
  <2>1. x <= 3 * n + 2 /\ x >= 3 * n + 2 /\ x \in Nat
    BY <1>5, <1>6
  <2>. HIDE DEF x
  <2>2. x = 3 * n + 2
    BY <2>1
  <2>. QED
    BY <2>2 DEF x
<1>. QED
  BY <1>2, <1>7

(* What a prefix of a stream has.                                          *)
LEMMA PrefixHas ==
  ASSUME NEW S, NEW s \in Seq(S), NEW r \in 0..Len(s), NEW i \in Nat, i > 0
  PROVE  /\ Len(SubSeq(s, 1, r)) = r
         /\ i <= r => SubSeq(s, 1, r)[i] = s[i]
         /\ CrLf(SubSeq(s, 1, r), i) <=> i < r /\ CrLf(s, i)
<1>. DEFINE m == SubSeq(s, 1, r)
<1>1. Len(m) = r /\ \A j \in 1..r : m[j] = s[j]
  OBVIOUS
<1>2. i < r => i \in 1..r /\ i + 1 \in 1..r /\ i < Len(s)
  OBVIOUS
<1>3. i <= r => i \in 1..r
  OBVIOUS
<1>. HIDE DEF m
<1>4. CrLf(m, i) <=> i < r /\ CrLf(s, i)
  BY <1>1, <1>2 DEF CrLf
<1>. QED
  BY <1>1, <1>3, <1>4 DEF m

(* A heading is made of lines.                                             *)
LEMMA HeadingIsLined ==
  ASSUME NEW s, NEW c \in Nat, Heading(s, c)
  PROVE  Lined(s, c + 1) /\ CrLf(s, 3 * (c + 1) + 1) /\ HeadingLength(c) = 3 * (c + 1) + 2
<1>1. HeadingLength(c) = 3 * (c + 1) + 2 /\ HeadingLength(c) - 1 = 3 * (c + 1) + 1
  BY DEF HeadingLength
<1>2. CrLf(s, 3 * (c + 1) + 1)
  BY <1>1 DEF Heading
<1>3. ASSUME NEW k \in 0..((c + 1) - 1)
      PROVE  s[3 * k + 1] \notin {CR, LF} /\ CrLf(s, 3 * k + 2)
  <2>1. CASE k = 0
    <3>1. s[1] \notin {CR, LF} /\ CrLf(s, 2)
      BY TextIsNoEnding DEF Heading
    <3>2. 3 * k + 1 = 1 /\ 3 * k + 2 = 2
      BY <2>1
    <3>. QED
      BY <3>1, <3>2
  <2>2. CASE k # 0
    <3>1. k \in 1..c
      BY <2>2
    <3>. QED
      BY <3>1, TextIsNoEnding DEF Heading
  <2>. QED
    BY <2>1, <2>2
<1>4. Lined(s, c + 1)
  BY <1>3 DEF Lined
<1>. QED
  BY <1>1, <1>2, <1>4

LEMMA FieldKinds ==
  ASSUME NEW field \in Fields
  PROVE  /\ field # "folded" /\ field \in DOMAIN Declares \cup {"field"}
         /\ Value(field) \subseteq Nat /\ \A n \in Value(field) : ~(n > MaxBody)
<1>1. DOMAIN Declares = {"length0", "length1", "length2", "length3"}
      /\ \A name \in DOMAIN Declares : Declares[name] \in Nat
  BY DEF Declares
<1>2. CASE field = "field"
  BY <1>1, <1>2 DEF Value
<1>3. CASE field \in DOMAIN Declares /\ Declares[field] <= MaxBody
  <2>1. Value(field) = {Declares[field]}
    BY <1>3 DEF Value
  <2>2. Declares[field] \in Nat /\ ~(Declares[field] > MaxBody)
    BY <1>1, <1>3, LimitsAssumption
  <2>. QED
    BY <1>1, <1>3, <2>1, <2>2
<1>. QED
  BY <1>2, <1>3 DEF Fields

(* The lengths that headers declare are numbers, and the message is no     *)
(* shorter than its heading.                                               *)
LEMMA LengthType ==
  ASSUME NEW s, NEW c \in Nat, Heading(s, c)
  PROVE  /\ HeadingLength(c) \in Nat /\ MessageLength(s, c) \in Nat
         /\ HeadingLength(c) <= MessageLength(s, c)
<1>1. Declared(s, c) \subseteq Nat
  BY FieldKinds DEF Declared, Heading
<1>2. (IF Declared(s, c) = {} THEN 0 ELSE CHOOSE n \in Declared(s, c) : TRUE) \in Nat
  <2>1. CASE Declared(s, c) = {}
    BY <2>1
  <2>2. CASE Declared(s, c) # {}
    <3>1. (CHOOSE n \in Declared(s, c) : TRUE) \in Declared(s, c)
      BY <2>2
    <3>. QED
      BY <1>1, <2>2, <3>1
  <2>. QED
    BY <2>1, <2>2
<1>3. HeadingLength(c) \in Nat
  BY DEF HeadingLength
<1>. HIDE DEF HeadingLength
<1>. QED
  BY <1>2, <1>3 DEF MessageLength

(* The headers of the lines before the blank one.                          *)
LEMMA TurnsOf ==
  ASSUME NEW c \in Nat
  PROVE  Turns(3 * (c + 1) + 2) = 1..c
BY DEF Turns, Cursor

(* Before its heading is complete, nothing in a legal one is malformed.    *)
LEMMA HeadingCut ==
  ASSUME NEW S, NEW s \in Seq(S), NEW r \in 0..Len(s), NEW c \in Nat, Heading(s, c),
         r < HeadingLength(c)
  PROVE  Parse(SubSeq(s, 1, r)).status = "TRUNCATED"
<1>. DEFINE m == SubSeq(s, 1, r)
<1>1. /\ Lined(s, c + 1) /\ CrLf(s, 3 * (c + 1) + 1) /\ r < 3 * (c + 1) + 2
      /\ 3 * (c + 1) + 2 <= MaxHeaderBytes
  BY HeadingIsLined DEF Heading
<1>2. Len(m) = r /\ r \in Nat /\ r < MaxHeaderBytes /\ ScanLimit(m) = r
  <2>1. Len(m) = r /\ r \in Nat
    OBVIOUS
  <2>. HIDE DEF m
  <2>. QED
    BY <1>1, <2>1, LimitsAssumption DEF ScanLimit
<1>3. \A i \in Nat : i > 0 => (CrLf(m, i) <=> i < r /\ CrLf(s, i))
  BY PrefixHas
<1>4. \A i \in 1..r : m[i] = s[i]
  BY <1>2, PrefixHas
<1>. HIDE DEF m
<1>5. HeaderEnds(m) = {}
  <2>. SUFFICES ASSUME NEW i \in HeaderEnds(m) PROVE FALSE
    OBVIOUS
  <2>1. i \in Nat /\ i >= 4 /\ i <= r /\ CrLf(m, i - 3) /\ CrLf(m, i - 1)
    BY <1>2 DEF HeaderEnds
  <2>2. i - 3 \in Nat /\ i - 3 > 0 /\ i - 1 \in Nat /\ i - 1 > 0
    BY <2>1
  <2>3. CrLf(s, i - 3) /\ CrLf(s, i - 1)
    BY <1>3, <2>1, <2>2
  <2>4. i >= 3 * (c + 1) + 2
    BY <1>1, <2>1, <2>3, NoEarlyEnd
  <2>. QED
    BY <1>1, <1>2, <2>1, <2>4
<1>6. ~BareEnding(m)
  <2>. SUFFICES ASSUME NEW i \in 1..r,
                       \/ m[i] = LF /\ (i = 1 \/ m[i - 1] # CR)
                       \/ m[i] = CR /\ i < r /\ m[i + 1] # LF
                PROVE  FALSE
    BY <1>2 DEF BareEnding
  <2>1. i \in Nat /\ i > 0 /\ CR # LF /\ i <= 3 * (c + 1) + 1
    BY <1>1, <1>2 DEF CR, LF
  <2>2. CASE i = 3 * (c + 1) + 1
    <3>1. m[i] = CR /\ ~(i < r)
      BY <1>1, <1>2, <1>4, <2>2 DEF CrLf
    <3>. QED
      BY <2>1, <3>1
  <2>3. CASE i # 3 * (c + 1) + 1
    <3>1. PICK k \in Nat : i \in {3 * k + 1, 3 * k + 2, 3 * k + 3}
      <4>1. {k \in Nat : i \in {3 * k + 1, 3 * k + 2, 3 * k + 3}} # {}
        BY <2>1, Thirds
      <4>. QED
        BY <4>1
    <3>2. k \in 0..((c + 1) - 1)
      BY <2>1, <2>3, <3>1
    <3>3. s[3 * k + 1] \notin {CR, LF} /\ CrLf(s, 3 * k + 2)
      BY <1>1, <3>2 DEF Lined
    <3>4. s[3 * k + 2] = CR /\ s[3 * k + 3] = LF
      <4>1. (3 * k + 2) + 1 = 3 * k + 3
        OBVIOUS
      <4>. QED
        BY <3>3, <4>1 DEF CrLf
    <3>5. CASE i = 3 * k + 1
      BY <1>4, <3>3, <3>5
    <3>6. CASE i = 3 * k + 2
      <4>1. m[i] # LF /\ (i < r => m[i + 1] = LF)
        <5>1. i + 1 = 3 * k + 3 /\ (i < r => i + 1 \in 1..r)
          BY <1>2, <3>6
        <5>. QED
          BY <1>4, <2>1, <3>4, <3>6, <5>1
      <4>. QED
        BY <4>1
    <3>7. CASE i = 3 * k + 3
      <4>1. i - 1 = 3 * k + 2 /\ i - 1 \in 1..r /\ i # 1
        BY <1>2, <3>7
      <4>2. m[i] # CR /\ m[i - 1] = CR
        BY <1>4, <2>1, <3>4, <3>7, <4>1
      <4>. QED
        BY <4>1, <4>2
    <3>. QED
      BY <3>1, <3>5, <3>6, <3>7
  <2>. QED
    BY <2>2, <2>3
<1>7. WithoutEnd(m).status = "TRUNCATED"
  BY <1>2, <1>6, LimitsAssumption DEF WithoutEnd, NoMessage
<1>. QED
  BY <1>5, <1>7 DEF Parse, m

(* With a complete heading the parser waits for the body only.             *)
LEMMA HeadingRead ==
  ASSUME NEW S, NEW s \in Seq(S), NEW r \in 0..Len(s), NEW c \in 0..MaxHeaders, Heading(s, c),
         r >= HeadingLength(c), \A n, k \in Declared(s, c) : n = k
  PROVE  Parse(SubSeq(s, 1, r)).status = IF r < MessageLength(s, c) THEN "TRUNCATED" ELSE "OK"
<1>. DEFINE m == SubSeq(s, 1, r)
            l == 3 * (c + 1) + 2
            n == MessageLength(s, c)
<1>0. c \in Nat /\ c <= MaxHeaders /\ r \in Nat /\ MaxHeaders \in Nat
  BY LimitsAssumption
<1>1. /\ Lined(s, c + 1) /\ CrLf(s, 3 * (c + 1) + 1) /\ HeadingLength(c) = l
      /\ l <= MaxHeaderBytes /\ l <= r
  BY <1>0, HeadingIsLined DEF Heading
<1>2. Len(m) = r
  OBVIOUS
<1>3. \A i \in Nat : i > 0 => (CrLf(m, i) <=> i < r /\ CrLf(s, i))
  BY PrefixHas
<1>4. \A i \in 1..r : m[i] = s[i]
  BY <1>2, PrefixHas
<1>. HIDE DEF m
<1>6. Lined(m, c + 1)
  <2>. SUFFICES ASSUME NEW k \in 0..((c + 1) - 1)
                PROVE  m[3 * k + 1] \notin {CR, LF} /\ CrLf(m, 3 * k + 2)
    BY DEF Lined
  <2>1. s[3 * k + 1] \notin {CR, LF} /\ CrLf(s, 3 * k + 2)
    BY <1>1 DEF Lined
  <2>2. 3 * k + 1 \in 1..r /\ 3 * k + 2 \in Nat /\ 3 * k + 2 > 0 /\ 3 * k + 2 < r
    BY <1>0, <1>1
  <2>. QED
    BY <1>3, <1>4, <2>1, <2>2
<1>7. CrLf(m, 3 * (c + 1) + 1)
  <2>1. 3 * (c + 1) + 1 \in Nat /\ 3 * (c + 1) + 1 > 0 /\ 3 * (c + 1) + 1 < r
    BY <1>0, <1>1
  <2>. QED
    BY <1>1, <1>3, <2>1
<1>8. HeaderEnds(m) # {} /\ Min(HeaderEnds(m)) = l
  <2>1. 3 * (c + 1) + 2 <= ScanLimit(m)
    BY <1>0, <1>1, <1>2, ScanLimitType
  <2>2. c + 1 \in Nat /\ c + 1 > 0
    BY <1>0
  <2>. QED
    BY <1>0, <1>2, <1>6, <1>7, <2>1, <2>2, HeaderEndIs
<1>9. m[1] \in StartLines /\ CrLf(m, 2)
  <2>1. 1 \in 1..r /\ 2 < r
    BY <1>0, <1>1
  <2>. QED
    BY <1>3, <1>4, <2>1 DEF Heading
<1>10. ASSUME NEW k \in 1..c PROVE m[Cursor(k)] = s[3 * k + 1] /\ s[3 * k + 1] \in Fields
  <2>1. Cursor(k) = 3 * k + 1 /\ 3 * k + 1 \in 1..r
    BY <1>0, <1>1 DEF Cursor
  <2>2. s[3 * k + 1] \in Fields
    BY DEF Heading
  <2>. QED
    BY <1>4, <2>1, <2>2
<1>11. ASSUME NEW k \in 1..c PROVE HeaderStatus(m, k) = "OK"
  <2>1. m[Cursor(k)] = s[3 * k + 1] /\ s[3 * k + 1] \in Fields
    BY <1>10
  <2>2. ~(k > MaxHeaders)
    BY <1>0
  <2>3. CrLf(m, Cursor(k) + 1)
    <3>1. k \in 0..((c + 1) - 1) /\ Cursor(k) + 1 = 3 * k + 2
      BY <1>0 DEF Cursor
    <3>. QED
      BY <1>6, <3>1 DEF Lined
  <2>4. ASSUME NEW j \in 1..(k - 1), NEW x \in Value(m[Cursor(k)]), NEW y \in Value(m[Cursor(j)])
        PROVE  x = y
    <3>1. j \in 1..c
      BY <1>0
    <3>2. m[Cursor(j)] = s[3 * j + 1]
      BY <1>10, <3>1
    <3>3. x \in Declared(s, c) /\ y \in Declared(s, c)
      BY <2>1, <3>1, <3>2 DEF Declared
    <3>. QED
      BY <3>3
  <2>. QED
    BY <2>1, <2>2, <2>3, <2>4, FieldKinds DEF HeaderStatus
<1>12. Turns(l) = 1..c
  BY <1>0, TurnsOf
<1>13. UNION {Value(m[Cursor(k)]) : k \in Turns(l)} = Declared(s, c)
  <2>1. \A k \in 1..c : Value(m[Cursor(k)]) = Value(s[3 * k + 1])
    BY <1>10
  <2>2. {Value(m[Cursor(k)]) : k \in 1..c} = {Value(s[3 * k + 1]) : k \in 1..c}
    BY <2>1
  <2>. QED
    BY <1>12, <2>2 DEF Declared
<1>14. l + (IF Declared(s, c) = {} THEN 0 ELSE CHOOSE x \in Declared(s, c) : TRUE) = n
  BY <1>1 DEF MessageLength
<1>15. n \in Nat
  BY <1>0, LengthType
<1>. HIDE DEF l, n
<1>16. WithEnd(m, l).status = IF r < n THEN "TRUNCATED" ELSE "OK"
  <2>1. {k \in Turns(l) : HeaderStatus(m, k) # "OK"} = {}
    BY <1>11, <1>12
  <2>2. Complete(m, n) <=> ~(r < n)
    BY <1>0, <1>2, <1>15 DEF Complete
  <2>. QED
    BY <1>9, <1>13, <1>14, <2>1, <2>2 DEF WithEnd, NoMessage
<1>. QED
  BY <1>8, <1>16 DEF Parse, m, n

(* A message is accepted as soon as its last byte is there, and never      *)
(* refused before.                                                         *)
LEMMA MessageAccepted ==
  ASSUME NEW S, NEW s \in Seq(S), NEW r \in 0..Len(s), NEW n \in MessageEnds(s)
  PROVE  n \in Nat /\ Parse(SubSeq(s, 1, r)).status = IF r < n THEN "TRUNCATED" ELSE "OK"
<1>1. PICK c \in 0..MaxHeaders : /\ Heading(s, c) /\ n = MessageLength(s, c)
                                 /\ \A x, y \in Declared(s, c) : x = y
  BY DEF MessageEnds
<1>2. c \in Nat /\ r \in Nat
  OBVIOUS
<1>3. HeadingLength(c) \in Nat /\ n \in Nat /\ HeadingLength(c) <= n
  BY <1>1, <1>2, LengthType
<1>4. CASE r < HeadingLength(c)
  <2>1. r < n
    BY <1>2, <1>3, <1>4
  <2>. QED
    BY <1>1, <1>2, <1>3, <1>4, <2>1, HeadingCut
<1>5. CASE r >= HeadingLength(c)
  BY <1>1, <1>2, <1>3, <1>5, HeadingRead
<1>. QED
  BY <1>2, <1>3, <1>4, <1>5

(* What is accepted is the message that the stream starts with.            *)
LEMMA OnlyMessagesAccepted ==
  ASSUME NEW S, NEW s \in Seq(S), NEW r \in 0..Len(s), Parse(SubSeq(s, 1, r)).status = "OK"
  PROVE  /\ Parse(SubSeq(s, 1, r)).message_length \in MessageEnds(s)
         /\ Parse(SubSeq(s, 1, r)).message_length <= r
         /\ r > 0 /\ Parse(SubSeq(s, 1, r)).kind = s[1]
<1>. DEFINE m == SubSeq(s, 1, r)
            h == Min(HeaderEnds(m))
            refused == {k \in Turns(h) : HeaderStatus(m, k) # "OK"}
            lengths == UNION {Value(m[Cursor(k)]) : k \in Turns(h)}
            n == h + IF lengths = {} THEN 0 ELSE CHOOSE x \in lengths : TRUE
<1>0. r \in Nat /\ MaxHeaders \in Nat
  BY LimitsAssumption
<1>1. Len(m) = r
  OBVIOUS
<1>2. \A i \in Nat : i > 0 => (CrLf(m, i) <=> i < r /\ CrLf(s, i))
  BY PrefixHas
<1>3. \A i \in 1..r : m[i] = s[i]
  BY <1>1, PrefixHas
<1>. HIDE DEF m
<1>4. HeaderEnds(m) # {}
  <2>. SUFFICES ASSUME HeaderEnds(m) = {} PROVE FALSE
    OBVIOUS
  <2>1. Parse(m) = WithoutEnd(m)
    BY DEF Parse
  <2>2. WithoutEnd(m).status # "OK"
    BY DEF WithoutEnd, NoMessage
  <2>. QED
    BY <2>1, <2>2 DEF m
<1>5. h \in HeaderEnds(m) /\ HeaderEnds(m) \in SUBSET Nat
  <2>1. HeaderEnds(m) \in SUBSET Nat
    BY <1>0, <1>1, ScanLimitType DEF HeaderEnds
  <2>. QED
    BY <1>4, <2>1, MinIsLeast
<1>6. WithEnd(m, h).status = "OK" /\ Parse(m) = WithEnd(m, h)
  BY <1>4 DEF Parse, m
<1>7. /\ m[1] \in StartLines /\ CrLf(m, 2) /\ refused = {} /\ n <= r
      /\ WithEnd(m, h).message_length = n /\ WithEnd(m, h).kind = m[1]
  <2>1. \/ WithEnd(m, h) = NoMessage("MALFORMED")
        \/ refused # {} /\ WithEnd(m, h) = NoMessage(HeaderStatus(m, Min(refused)))
        \/ WithEnd(m, h) = NoMessage("TRUNCATED")
        \/ /\ m[1] \in StartLines /\ CrLf(m, 2) /\ refused = {} /\ Complete(m, n)
           /\ WithEnd(m, h) = [status |-> "OK", kind |-> m[1], message_length |-> n]
    BY DEF WithEnd
  <2>2. refused # {} => HeaderStatus(m, Min(refused)) # "OK"
    <3>1. refused \in SUBSET Nat
      BY DEF Turns
    <3>2. refused # {} => Min(refused) \in refused
      BY <3>1, MinIsLeast
    <3>. QED
      BY <3>2
  <2>. HIDE DEF n, refused
  <2>. QED
    BY <1>1, <1>6, <2>1, <2>2 DEF NoMessage, Complete
<1>. HIDE DEF h
<1>8. h \in Nat /\ h >= 4 /\ h <= r /\ h <= MaxHeaderBytes /\ CrLf(m, h - 3) /\ CrLf(m, h - 1)
  BY <1>0, <1>1, <1>5, ScanLimitType, LimitsAssumption DEF HeaderEnds
<1>9. PICK c \in Nat : h <= 3 * c + 5 /\ \A j \in 1..c : 3 * j + 1 < h - 1
  <2>. DEFINE T == {c \in Nat : h <= 3 * c + 5}
  <2>1. PICK c \in T : \A j \in T : c <= j
    <3>1. h \in T
      BY <1>8
    <3>2. T \in SUBSET Nat /\ T # {}
      BY <3>1
    <3>. HIDE DEF T
    <3>. QED
      BY <3>2, LeastNatural
  <2>2. ASSUME NEW j \in 1..c PROVE 3 * j + 1 < h - 1
    <3>1. j - 1 \in Nat /\ ~(c <= j - 1)
      OBVIOUS
    <3>2. ~(h <= 3 * (j - 1) + 5)
      BY <2>1, <3>1
    <3>. QED
      BY <1>8, <3>2
  <2>. QED
    BY <2>1, <2>2
<1>10. Turns(h) = 1..c
  <2>1. ASSUME NEW k \in Turns(h) PROVE k \in 1..c
    BY <1>8, <1>9 DEF Turns, Cursor
  <2>2. ASSUME NEW k \in 1..c PROVE k \in Turns(h)
    BY <1>8, <1>9 DEF Turns, Cursor
  <2>. QED
    BY <2>1, <2>2
<1>11. ASSUME NEW k \in 1..c
       PROVE  /\ k <= MaxHeaders /\ m[3 * k + 1] \in Fields /\ CrLf(m, 3 * k + 2)
              /\ \A j \in 1..(k - 1) : \A x \in Value(m[3 * k + 1]), y \in Value(m[3 * j + 1]) : x = y
  <2>1. HeaderStatus(m, k) = "OK"
    BY <1>7, <1>10
  <2>2. Cursor(k) = 3 * k + 1 /\ Cursor(k) + 1 = 3 * k + 2 /\ \A j \in 1..(k - 1) : Cursor(j) = 3 * j + 1
    BY DEF Cursor
  <2>3. /\ ~(k > MaxHeaders) /\ CrLf(m, 3 * k + 2) /\ m[3 * k + 1] \in DOMAIN Declares \cup {"field"}
        /\ ~(\E x \in Value(m[3 * k + 1]) : x > MaxBody)
        /\ \A j \in 1..(k - 1) : \A x \in Value(m[3 * k + 1]), y \in Value(m[3 * j + 1]) : x = y
    BY <2>1, <2>2 DEF HeaderStatus
  <2>4. m[3 * k + 1] \in Fields
    <3>1. \A name \in DOMAIN Declares : Declares[name] \in Nat
      BY DEF Declares
    <3>2. ASSUME m[3 * k + 1] \in DOMAIN Declares PROVE Declares[m[3 * k + 1]] <= MaxBody
      <4>1. Declares[m[3 * k + 1]] \in Value(m[3 * k + 1])
        BY <3>2 DEF Value
      <4>. QED
        BY <2>3, <3>1, <3>2, <4>1, LimitsAssumption
    <3>. QED
      BY <2>3, <3>2 DEF Fields
  <2>. QED
    BY <1>0, <2>3, <2>4
<1>12. Lined(m, c + 1)
  <2>. SUFFICES ASSUME NEW k \in 0..((c + 1) - 1)
                PROVE  m[3 * k + 1] \notin {CR, LF} /\ CrLf(m, 3 * k + 2)
    BY DEF Lined
  <2>1. CASE k = 0
    <3>1. 3 * k + 1 = 1 /\ 3 * k + 2 = 2
      BY <2>1
    <3>. QED
      BY <1>7, <3>1, TextIsNoEnding
  <2>2. CASE k # 0
    <3>1. k \in 1..c
      BY <2>2
    <3>. QED
      BY <1>11, <3>1, TextIsNoEnding
  <2>. QED
    BY <2>1, <2>2
<1>13. h = 3 * c + 5
  <2>1. h >= 3 * (c + 1) + 2
    BY <1>8, <1>12, NoEarlyEnd
  <2>. QED
    BY <1>8, <1>9, <2>1
<1>14. c \in 0..MaxHeaders
  <2>1. c = 0 \/ c \in 1..c
    OBVIOUS
  <2>. QED
    BY <1>0, <1>11, <2>1
<1>15. ASSUME NEW k \in 1..c PROVE m[3 * k + 1] = s[3 * k + 1]
  <2>1. 3 * k + 1 \in 1..r
    BY <1>8, <1>13
  <2>. QED
    BY <1>3, <2>1
<1>16. Heading(s, c)
  <2>1. HeadingLength(c) = h
    BY <1>13 DEF HeadingLength
  <2>2. CrLf(s, h - 1)
    <3>1. h - 1 \in Nat /\ h - 1 > 0
      BY <1>8
    <3>. QED
      BY <1>2, <1>8, <3>1
  <2>3. s[1] \in StartLines /\ CrLf(s, 2)
    <3>1. 1 \in 1..r
      BY <1>8
    <3>. QED
      BY <1>2, <1>3, <1>7, <3>1
  <2>4. ASSUME NEW k \in 1..c PROVE s[3 * k + 1] \in Fields /\ CrLf(s, 3 * k + 2)
    <3>1. 3 * k + 2 \in Nat /\ 3 * k + 2 > 0
      OBVIOUS
    <3>. QED
      BY <1>2, <1>11, <1>15, <3>1
  <2>. QED
    BY <1>8, <2>1, <2>2, <2>3, <2>4 DEF Heading
<1>17. lengths = Declared(s, c)
  <2>1. \A k \in 1..c : Value(m[Cursor(k)]) = Value(s[3 * k + 1])
    BY <1>15 DEF Cursor
  <2>2. {Value(m[Cursor(k)]) : k \in 1..c} = {Value(s[3 * k + 1]) : k \in 1..c}
    BY <2>1
  <2>. QED
    BY <1>10, <2>2 DEF Declared
<1>18. \A x, y \in Declared(s, c) : x = y
  <2>. SUFFICES ASSUME NEW x \in Declared(s, c), NEW y \in Declared(s, c) PROVE x = y
    OBVIOUS
  <2>a. PICK j \in 1..c : x \in Value(s[3 * j + 1])
    BY DEF Declared
  <2>b. PICK k \in 1..c : y \in Value(s[3 * k + 1])
    BY DEF Declared
  <2>1. x \in Value(m[3 * j + 1]) /\ y \in Value(m[3 * k + 1])
    BY <1>15, <2>a, <2>b
  <2>2. CASE j < k
    <3>1. j \in 1..(k - 1)
      BY <2>2
    <3>2. \A v \in Value(m[3 * k + 1]), w \in Value(m[3 * j + 1]) : v = w
      BY <1>11, <3>1
    <3>. QED
      BY <2>1, <3>2
  <2>3. CASE k < j
    <3>1. k \in 1..(j - 1)
      BY <2>3
    <3>2. \A v \in Value(m[3 * j + 1]), w \in Value(m[3 * k + 1]) : v = w
      BY <1>11, <3>1
    <3>. QED
      BY <2>1, <3>2
  <2>4. CASE j = k
    <3>1. y \in Value(m[3 * j + 1])
      BY <2>1, <2>4
    <3>. QED
      BY <2>1, <3>1 DEF Value
  <2>5. j < k \/ k < j \/ j = k
    OBVIOUS
  <2>. QED
    BY <2>2, <2>3, <2>4, <2>5
<1>19. n = MessageLength(s, c)
  <2>1. HeadingLength(c) = h
    BY <1>13 DEF HeadingLength
  <2>. HIDE DEF lengths
  <2>. QED
    BY <1>17, <2>1 DEF MessageLength
<1>20. MessageLength(s, c) <= Len(s)
  <2>1. MessageLength(s, c) \in Nat
    BY <1>16, LengthType
  <2>2. r <= Len(s) /\ Len(s) \in Nat
    OBVIOUS
  <2>. HIDE DEF n
  <2>. QED
    BY <1>0, <1>7, <1>19, <2>1, <2>2
<1>21. MessageLength(s, c) \in MessageEnds(s)
  BY <1>14, <1>16, <1>18, <1>20 DEF MessageEnds
<1>22. r > 0 /\ m[1] = s[1]
  BY <1>0, <1>3, <1>8
<1>. HIDE DEF n
<1>. QED
  BY <1>6, <1>7, <1>19, <1>21, <1>22 DEF m

USE ExchangeAssumption, LimitsAssumption DEF End, Other

-----------------------------------------------------------------------------
(* A parser's answer is never one that the loops around it give. *)
Verdicts == {"OK", "MALFORMED", "CAPACITY", "TRUNCATED"}

LEMMA ParseVerdict ==
  ASSUME NEW input
  PROVE  Parse(input).status \in Verdicts
<1>1. WithoutEnd(input).status \in Verdicts
  BY DEF WithoutEnd, NoMessage, Verdicts
<1>2. ASSUME NEW header_end
      PROVE  WithEnd(input, header_end).status \in Verdicts
  <2>1. \A lines, k : HeaderStatus(lines, k) \in Verdicts
    BY DEF HeaderStatus, Verdicts
  <2>. QED
    BY <2>1 DEF WithEnd, NoMessage, Verdicts
<1>. QED
  BY <1>1, <1>2 DEF Parse

-----------------------------------------------------------------------------
(* What either end sends, as a stream, and where its message ends.          *)
Symbols == Texts \cup {CR, LF, "x"}

LEMMA ResponseType == Response \in Seq(Symbols) /\ Len(Response) = 16
<1>1. {"response", "length2", "field", CR, LF, "x"} \subseteq Symbols
  BY DEF Symbols, Texts, StartLines, Declares
<1>. HIDE DEF Symbols
<1>. QED
  BY <1>1 DEF Response

LEMMA ContentType ==
  ASSUME stream \in Streams, NEW p \in End
  PROVE  /\ Content(p) \in Seq(Symbols) /\ Len(Content(p)) \in Nat
         /\ Ends[Content(p)] = MessageEnds(Content(p))
<1>1. stream \in Seq(Symbols)
  BY ExchangeAssumption DEF Symbols
<1>2. Content(p) \in Seq(Symbols) /\ Content(p) \in Streams \cup {Response}
  <2>. HIDE DEF Symbols
  <2>. QED
    BY <1>1, ResponseType DEF Content
<1>3. Ends[Content(p)] = MessageEnds(Content(p))
  BY <1>2 DEF Ends
<1>. QED
  BY <1>2, <1>3

(* The server's response is one message, of all its bytes.                  *)
LEMMA ResponseEnd ==
  ASSUME NEW n \in MessageEnds(Response)
  PROVE  n = Len(Response)
<1>1. PICK c \in 0..MaxHeaders : Heading(Response, c) /\ n = MessageLength(Response, c)
  BY DEF MessageEnds
<1>2. c \in Nat /\ HeadingLength(c) = 3 * c + 5 /\ HeadingLength(c) - 1 = 3 * c + 4
  BY LimitsAssumption DEF HeadingLength
<1>3. 3 * c + 4 < Len(Response) /\ Response[3 * c + 4] = CR
  BY <1>1, <1>2 DEF Heading, CrLf
<1>4. c = 3
  <2>1. c \in {0, 1, 2, 3}
    BY <1>2, <1>3, ResponseType
  <2>2. Response[4] # CR /\ Response[7] # CR /\ Response[10] # CR
    BY DEF Response, CR
  <2>3. /\ c = 0 => 3 * c + 4 = 4
        /\ c = 1 => 3 * c + 4 = 7
        /\ c = 2 => 3 * c + 4 = 10
    OBVIOUS
  <2>. QED
    BY <1>3, <2>1, <2>2, <2>3
<1>5. Declared(Response, 3) = {2}
  <2>1. Value("length2") = {2} /\ Value("field") = {}
    BY DEF Value, Declares
  <2>2. /\ Value(Response[3 * 1 + 1]) = {2} /\ Value(Response[3 * 2 + 1]) = {}
        /\ Value(Response[3 * 3 + 1]) = {}
    <3>1. Response[4] = "length2" /\ Response[7] = "field" /\ Response[10] = "field"
      BY DEF Response
    <3>2. 3 * 1 + 1 = 4 /\ 3 * 2 + 1 = 7 /\ 3 * 3 + 1 = 10
      OBVIOUS
    <3>. QED
      BY <2>1, <3>1, <3>2
  <2>3. 1..3 = {1, 2, 3}
    OBVIOUS
  <2>4. {Value(Response[3 * k + 1]) : k \in {1, 2, 3}} = {{2}, {}}
    BY <2>2
  <2>. QED
    BY <2>3, <2>4 DEF Declared
<1>6. (CHOOSE x \in {2} : TRUE) = 2
  OBVIOUS
<1>7. MessageLength(Response, 3) = HeadingLength(3) + 2
  BY <1>5, <1>6 DEF MessageLength
<1>. QED
  BY <1>1, <1>2, <1>4, <1>7, ResponseType

(* What parsing the bytes received so far tells about the whole stream.     *)
LEMMA VerdictIsExact ==
  ASSUME stream \in Streams, NEW p \in End, received[p] \in 0..Len(Content(Other(p))),
         NEW result, result = Parse(Incoming(p))
  PROVE  /\ result.status \in Verdicts
         /\ result.status = "OK" =>
              /\ result.message_length \in MessageEnds(Content(Other(p)))
              /\ result.message_length \in Nat /\ result.message_length <= received[p]
              /\ result.kind = Content(Other(p))[1]
         /\ result.status = "TRUNCATED" => \A n \in MessageEnds(Content(Other(p))) : n > received[p]
         /\ result.status \in {"MALFORMED", "CAPACITY"} => MessageEnds(Content(Other(p))) = {}
<1>. DEFINE s == Content(Other(p))
            r == received[p]
<1>1. s \in Seq(Symbols) /\ r \in 0..Len(s) /\ result = Parse(SubSeq(s, 1, r))
  BY ContentType DEF Incoming
<1>. HIDE DEF s, r, Symbols
<1>2. result.status \in Verdicts
  BY ParseVerdict
<1>3. \A n \in MessageEnds(s) : n \in Nat /\ result.status = IF r < n THEN "TRUNCATED" ELSE "OK"
  BY <1>1, MessageAccepted
<1>4. result.status = "OK" =>
        /\ result.message_length \in MessageEnds(s) /\ result.message_length <= r
        /\ result.kind = s[1]
  BY <1>1, OnlyMessagesAccepted
<1>5. r \in Nat
  BY <1>1
<1>6. result.status = "TRUNCATED" => \A n \in MessageEnds(s) : n > r
  BY <1>3, <1>5
<1>7. result.status \in {"MALFORMED", "CAPACITY"} => MessageEnds(s) = {}
  BY <1>3
<1>. QED
  BY <1>2, <1>3, <1>4, <1>6, <1>7 DEF s, r

(* What follows recv_until, without the message. *)
LEMMA ReceivedEffect ==
  ASSUME NEW p \in End, NEW result, Received(p, result)
  PROVE  \/ /\ p = "server" /\ result.status = "OK"
            /\ pc' = [pc EXCEPT ![p] = "send"] /\ UNCHANGED status
         \/ /\ pc' = [pc EXCEPT ![p] = "restore"]
            /\ \/ status' = [status EXCEPT ![p] = result.status]
               \/ result.status = "OK" /\ status' = [status EXCEPT ![p] = "MALFORMED"]
BY DEF Received, GoTo, Leave

(* The effect of a turn of recv_until up to poll. *)
LEMMA ParseEffect ==
  ASSUME NEW p \in End, ParseReceived(p)
  PROVE  /\ pc[p] = "receive"
         /\ UNCHANGED <<args, call, sent, received, expired, fd, nonblock, late>>
         /\ \/ pc' = [pc EXCEPT ![p] = "poll_in"] /\ ~expired[p] /\ UNCHANGED status
            \/ p = "server" /\ pc' = [pc EXCEPT ![p] = "send"] /\ UNCHANGED status
            \/ /\ pc' = [pc EXCEPT ![p] = "restore"]
               /\ \E s \in {"OK", "MALFORMED", "CAPACITY", "TIMEOUT"} :
                    /\ status' = [status EXCEPT ![p] = s]
                    /\ s = "TIMEOUT" => expired[p]
<1>. DEFINE result == Parse(Incoming(p))
<1>1. CASE result.status # "TRUNCATED" /\ Received(p, result)
  BY <1>1, ParseVerdict, ReceivedEffect DEF Verdicts, ParseReceived
<1>2. CASE Received(p, NoMessage("CAPACITY"))
  <2>1. NoMessage("CAPACITY").status = "CAPACITY"
    BY DEF NoMessage
  <2>. QED
    BY <1>2, <2>1, ReceivedEffect DEF ParseReceived
<1>3. CASE expired[p] /\ Received(p, NoMessage("TIMEOUT"))
  <2>1. NoMessage("TIMEOUT").status = "TIMEOUT"
    BY DEF NoMessage
  <2>. QED
    BY <1>3, <2>1, ReceivedEffect DEF ParseReceived
<1>4. CASE ~expired[p] /\ GoTo(p, "poll_in") /\ UNCHANGED status
  BY <1>4 DEF ParseReceived, GoTo
<1>. QED
  BY <1>1, <1>2, <1>3, <1>4 DEF ParseReceived

(* Leaving a poll without having moved a byte. *)
LEMMA EndedEffect ==
  ASSUME NEW p \in End, NEW s \in {"TIMEOUT", "SYSTEM"}, Ended(p, s)
  PROVE  pc' = [pc EXCEPT ![p] = "restore"] /\ status' = [status EXCEPT ![p] = s]
<1>1. NoMessage(s).status = s
  BY DEF NoMessage
<1>. QED
  BY <1>1, ReceivedEffect DEF Ended, Leave, GoTo

LEMMA EndEffect ==
  ASSUME NEW p \in End, ReceiveEnd(p)
  PROVE  /\ pc[p] = "poll_in" /\ fd[Other(p)] = "closed"
         /\ pc' = [pc EXCEPT ![p] = "restore"]
         /\ status' = [status EXCEPT ![p] = EofStatus(p)]
         /\ UNCHANGED <<args, call, sent, received, expired, fd, nonblock, late>>
<1>1. NoMessage(EofStatus(p)).status = EofStatus(p) /\ EofStatus(p) # "OK"
  BY DEF NoMessage, EofStatus
<1>. QED
  BY <1>1, ReceivedEffect DEF ReceiveEnd

-----------------------------------------------------------------------------
(* A status is final once it is given, and where an end stands bounds what   *)
(* it can have done: the strengthening that makes the properties inductive.  *)
Running == {"start", "receive", "poll_in", "send", "poll_out"}

StatusIsFinal == \A p \in End : pc[p] \in Running => status[p] = "RUNNING"

OneCallServes == call["server"] = "serve_one"

NothingSentYet == pc["server"] \in {"start", "receive", "poll_in"} => sent["server"] = 0

FlagsBeforeStart == \A p \in End : pc[p] = "start" => nonblock[p] = original_nonblock

PollsInTime ==
  \A p \in End : /\ ~expired[p] => late[p] = -1
                 /\ pc[p] \in {"poll_in", "poll_out"} => late[p] <= 0

HttpInv ==
  /\ TypeOK /\ FailuresExplained /\ DeadlineIsFinal
  /\ StatusIsFinal /\ OneCallServes /\ NothingSentYet /\ FlagsBeforeStart /\ PollsInTime

LEMMA InvInit == Init => HttpInv
BY DEF Init, args, HttpInv, TypeOK, Status, FailuresExplained, DeadlineIsFinal, StatusIsFinal,
       OneCallServes, NothingSentYet, FlagsBeforeStart, PollsInTime, Running

LEMMA StartStep ==
  ASSUME HttpInv, NEW p \in End, Start(p) \/ StartFails(p)
  PROVE  HttpInv'
<1>1. CASE Start(p)
  <2>1. TypeOK' /\ OneCallServes'
    <3>1. /\ nonblock' \in [End -> BOOLEAN]
          /\ status' \in [End -> Status]
          /\ \E next \in {"return", "send", "receive"} : pc' = [pc EXCEPT ![p] = next]
      <4>1. CASE Leave(p, "OK", "return") /\ UNCHANGED nonblock
        BY <4>1 DEF Leave, GoTo, HttpInv, TypeOK, Status
      <4>2. CASE /\ nonblock' = [nonblock EXCEPT ![p] = TRUE]
                 /\ GoTo(p, IF call[p] = "send_message" THEN "send" ELSE "receive")
                 /\ UNCHANGED status
        BY <4>2 DEF GoTo, HttpInv, TypeOK
      <4>. QED
        BY <1>1, <4>1, <4>2 DEF Start
    <3>. QED
      BY <1>1, <3>1 DEF Start, args, HttpInv, TypeOK, OneCallServes
  <2>2. StatusIsFinal' /\ NothingSentYet' /\ FlagsBeforeStart'
    BY <1>1 DEF Start, GoTo, Leave, args, HttpInv, TypeOK, StatusIsFinal, OneCallServes, NothingSentYet,
           FlagsBeforeStart, Running
  <2>3. PollsInTime' /\ DeadlineIsFinal'
    BY <1>1 DEF Start, GoTo, Leave, args, HttpInv, TypeOK, PollsInTime, DeadlineIsFinal
  <2>4. FailuresExplained'
    BY <1>1 DEF Start, GoTo, Leave, args, HttpInv, TypeOK, FailuresExplained, StatusIsFinal, NothingSentYet,
           FlagsBeforeStart, Running
  <2>. QED
    BY <2>1, <2>2, <2>3, <2>4 DEF HttpInv
<1>2. CASE StartFails(p)
  <2>1. TypeOK' /\ OneCallServes'
    BY <1>2 DEF StartFails, GoTo, Leave, args, HttpInv, TypeOK, Status, OneCallServes
  <2>2. StatusIsFinal' /\ NothingSentYet' /\ FlagsBeforeStart'
    BY <1>2 DEF StartFails, GoTo, Leave, args, HttpInv, TypeOK, StatusIsFinal, OneCallServes, NothingSentYet,
           FlagsBeforeStart, Running
  <2>3. PollsInTime' /\ DeadlineIsFinal'
    BY <1>2 DEF StartFails, GoTo, Leave, args, HttpInv, TypeOK, PollsInTime, DeadlineIsFinal
  <2>4. FailuresExplained'
    BY <1>2 DEF StartFails, GoTo, Leave, args, HttpInv, TypeOK, FailuresExplained, StatusIsFinal, NothingSentYet,
           FlagsBeforeStart, Running
  <2>. QED
    BY <2>1, <2>2, <2>3, <2>4 DEF HttpInv
<1>. QED
  BY <1>1, <1>2

LEMMA ParseStep ==
  ASSUME HttpInv, NEW p \in End, ParseReceived(p)
  PROVE  HttpInv'
BY ParseEffect DEF args, HttpInv, TypeOK, Status, FailuresExplained, DeadlineIsFinal,
   StatusIsFinal, OneCallServes, NothingSentYet, FlagsBeforeStart, PollsInTime, Running

LEMMA ReceiveStep ==
  ASSUME HttpInv, NEW p \in End, Receive(p)
  PROVE  HttpInv'
<1>1. CASE Receive(p)
  <2>1. TypeOK' /\ OneCallServes'
    <3>1. late' \in [End -> Nat \cup {-1}]
      BY <1>1 DEF Receive, Moved, HttpInv, TypeOK
    <3>2. PICK n \in 1..(capacity[p] - received[p]) :
            n <= sent[Other(p)] - received[p] /\ received' = [received EXCEPT ![p] = @ + n]
      BY <1>1 DEF Receive, InFlight
    <3>3. /\ received' \in [End -> Nat]
          /\ \A q \in End : received'[q] <= sent[Other(q)] /\ received'[q] <= capacity[q]
      BY <3>2 DEF HttpInv, TypeOK
    <3>. QED
      BY <1>1, <3>1, <3>3 DEF Receive, GoTo, args, HttpInv, TypeOK, OneCallServes
  <2>2. StatusIsFinal' /\ NothingSentYet' /\ FlagsBeforeStart'
    BY <1>1 DEF Receive, InFlight, Moved, GoTo, args, HttpInv, TypeOK, StatusIsFinal, OneCallServes, NothingSentYet,
           FlagsBeforeStart, Running
  <2>3. PollsInTime' /\ DeadlineIsFinal'
    BY <1>1 DEF Receive, InFlight, Moved, GoTo, args, HttpInv, TypeOK, PollsInTime, DeadlineIsFinal
  <2>4. FailuresExplained'
    BY <1>1 DEF Receive, InFlight, Moved, GoTo, args, HttpInv, TypeOK, FailuresExplained, StatusIsFinal, NothingSentYet,
           FlagsBeforeStart, Running
  <2>. QED
    BY <2>1, <2>2, <2>3, <2>4 DEF HttpInv
<1>. QED
  BY <1>1

LEMMA EndStep ==
  ASSUME HttpInv, NEW p \in End, ReceiveEnd(p)
  PROVE  HttpInv'
BY EndEffect DEF EofStatus, args, HttpInv, TypeOK, Status, FailuresExplained, DeadlineIsFinal,
   StatusIsFinal, OneCallServes, NothingSentYet, FlagsBeforeStart, PollsInTime, Running

LEMMA SendStep ==
  ASSUME HttpInv, NEW p \in End, SendOrStop(p) \/ Send(p) \/ SendBroken(p)
  PROVE  HttpInv'
<1>1. CASE SendOrStop(p)
  <2>1. TypeOK' /\ OneCallServes'
    BY <1>1 DEF SendOrStop, GoTo, Leave, args, HttpInv, TypeOK, Status, OneCallServes
  <2>2. StatusIsFinal' /\ NothingSentYet' /\ FlagsBeforeStart'
    BY <1>1 DEF SendOrStop, GoTo, Leave, args, HttpInv, TypeOK, StatusIsFinal, OneCallServes, NothingSentYet,
           FlagsBeforeStart, Running
  <2>3. PollsInTime' /\ DeadlineIsFinal'
    BY <1>1 DEF SendOrStop, GoTo, Leave, args, HttpInv, TypeOK, PollsInTime, DeadlineIsFinal
  <2>4. FailuresExplained'
    BY <1>1 DEF SendOrStop, GoTo, Leave, args, HttpInv, TypeOK, FailuresExplained, StatusIsFinal, NothingSentYet,
           FlagsBeforeStart, Running
  <2>. QED
    BY <2>1, <2>2, <2>3, <2>4 DEF HttpInv
<1>2. CASE Send(p)
  <2>1. TypeOK' /\ OneCallServes'
    <3>1. late' \in [End -> Nat \cup {-1}]
      <4>1. Moved(p) /\ late \in [End -> Nat \cup {-1}]
        BY <1>2 DEF Send, HttpInv, TypeOK
      <4>. QED
        BY <4>1 DEF Moved
    <3>2. PICK n \in 1..(Len(Content(p)) - sent[p]) : sent' = [sent EXCEPT ![p] = @ + n]
      BY <1>2 DEF Send
    <3>3. n \in Nat
      BY <3>2
    <3>4. /\ sent' \in [End -> Nat]
          /\ \A q \in End : received[q] <= sent'[Other(q)]
      BY <3>2, <3>3 DEF HttpInv, TypeOK
    <3>. QED
      BY <1>2, <3>1, <3>4 DEF Send, GoTo, args, HttpInv, TypeOK, OneCallServes
  <2>2. StatusIsFinal' /\ NothingSentYet' /\ FlagsBeforeStart'
    BY <1>2 DEF Send, Moved, GoTo, args, HttpInv, TypeOK, StatusIsFinal, OneCallServes, NothingSentYet,
           FlagsBeforeStart, Running
  <2>3. PollsInTime' /\ DeadlineIsFinal'
    BY <1>2 DEF Send, Moved, GoTo, args, HttpInv, TypeOK, PollsInTime, DeadlineIsFinal
  <2>4. FailuresExplained'
    BY <1>2 DEF Send, Moved, GoTo, args, HttpInv, TypeOK, FailuresExplained, StatusIsFinal, NothingSentYet,
           FlagsBeforeStart, Running
  <2>. QED
    BY <2>1, <2>2, <2>3, <2>4 DEF HttpInv
<1>3. CASE SendBroken(p)
  <2>1. TypeOK' /\ OneCallServes'
    BY <1>3 DEF SendBroken, GoTo, Leave, args, HttpInv, TypeOK, Status, OneCallServes
  <2>2. StatusIsFinal' /\ NothingSentYet' /\ FlagsBeforeStart'
    BY <1>3 DEF SendBroken, GoTo, Leave, args, HttpInv, TypeOK, StatusIsFinal, OneCallServes, NothingSentYet,
           FlagsBeforeStart, Running
  <2>3. PollsInTime' /\ DeadlineIsFinal'
    BY <1>3 DEF SendBroken, GoTo, Leave, args, HttpInv, TypeOK, PollsInTime, DeadlineIsFinal
  <2>4. FailuresExplained'
    BY <1>3 DEF SendBroken, GoTo, Leave, args, HttpInv, TypeOK, FailuresExplained, StatusIsFinal, NothingSentYet,
           FlagsBeforeStart, Running
  <2>. QED
    BY <2>1, <2>2, <2>3, <2>4 DEF HttpInv
<1>. QED
  BY <1>1, <1>2, <1>3

LEMMA PollStep ==
  ASSUME HttpInv, NEW p \in End, PollTimesOut(p) \/ Interrupted(p) \/ TransferFails(p)
  PROVE  HttpInv'
BY EndedEffect DEF PollTimesOut, Interrupted, TransferFails, GoTo, args, HttpInv, TypeOK, Status,
   FailuresExplained, DeadlineIsFinal,
   StatusIsFinal, OneCallServes, NothingSentYet, FlagsBeforeStart, PollsInTime, Running

LEMMA ReturnStep ==
  ASSUME HttpInv, NEW p \in End, Restore(p) \/ Return(p)
  PROVE  HttpInv'
<1>1. CASE Restore(p)
  <2>1. TypeOK' /\ OneCallServes'
    BY <1>1 DEF Restore, GoTo, Leave, args, HttpInv, TypeOK, Status, OneCallServes
  <2>2. StatusIsFinal' /\ NothingSentYet' /\ FlagsBeforeStart'
    BY <1>1 DEF Restore, GoTo, Leave, args, HttpInv, TypeOK, StatusIsFinal, OneCallServes, NothingSentYet,
           FlagsBeforeStart, Running
  <2>3. PollsInTime' /\ DeadlineIsFinal'
    BY <1>1 DEF Restore, GoTo, Leave, args, HttpInv, TypeOK, PollsInTime, DeadlineIsFinal
  <2>4. FailuresExplained'
    BY <1>1 DEF Restore, GoTo, Leave, args, HttpInv, TypeOK, FailuresExplained, StatusIsFinal, NothingSentYet,
           FlagsBeforeStart, Running
  <2>. QED
    BY <2>1, <2>2, <2>3, <2>4 DEF HttpInv
<1>2. CASE Return(p)
  <2>. DEFINE Again == /\ p = "client" /\ status[p] = "OK"
                       /\ call' = [call EXCEPT ![p] = "recv_message"]
                       /\ Leave(p, "RUNNING", "start")
                       /\ expired' = [expired EXCEPT ![p] = FALSE]
                       /\ late' = [late EXCEPT ![p] = -1]
                       /\ UNCHANGED fd
              Close == /\ fd' = [fd EXCEPT ![p] = "closed"]
                       /\ GoTo(p, "done") /\ UNCHANGED <<call, status, expired, late>>
              Kept  == /\ TypeOK' /\ OneCallServes'
                       /\ StatusIsFinal' /\ NothingSentYet' /\ FlagsBeforeStart'
  <2>a. ASSUME Again PROVE Kept
    <3>1. TypeOK' /\ OneCallServes'
      BY <1>2, <2>a DEF Return, GoTo, Leave, args, HttpInv, TypeOK, Status, OneCallServes
    <3>2. StatusIsFinal' /\ NothingSentYet' /\ FlagsBeforeStart'
      BY <1>2, <2>a DEF Return, GoTo, Leave, args, HttpInv, TypeOK, StatusIsFinal, NothingSentYet,
             FlagsBeforeStart, FailuresExplained, Running
    <3>. QED
      BY <3>1, <3>2
  <2>b. ASSUME Close PROVE Kept
    <3>1. TypeOK' /\ OneCallServes'
      BY <1>2, <2>b DEF Return, GoTo, args, HttpInv, TypeOK, OneCallServes
    <3>2. StatusIsFinal' /\ NothingSentYet' /\ FlagsBeforeStart'
      BY <1>2, <2>b DEF Return, GoTo, args, HttpInv, TypeOK, StatusIsFinal, NothingSentYet,
             FlagsBeforeStart, Running
    <3>. QED
      BY <3>1, <3>2
  <2>c. Again \/ Close
    BY <1>2 DEF Return, HttpInv, OneCallServes
  <2>1. TypeOK' /\ OneCallServes' /\ StatusIsFinal' /\ NothingSentYet' /\ FlagsBeforeStart'
    BY <2>a, <2>b, <2>c
  <2>3. PollsInTime' /\ DeadlineIsFinal'
    BY <1>2 DEF Return, GoTo, Leave, args, HttpInv, TypeOK, PollsInTime, DeadlineIsFinal
  <2>4. FailuresExplained'
    BY <1>2 DEF Return, GoTo, Leave, args, HttpInv, TypeOK, FailuresExplained, StatusIsFinal, NothingSentYet,
           FlagsBeforeStart, Running
  <2>. QED
    BY <2>1, <2>3, <2>4 DEF HttpInv
<1>. QED
  BY <1>1, <1>2

LEMMA ExpireStep ==
  ASSUME HttpInv, NEW p \in End, Expire(p)
  PROVE  HttpInv'
<1>1. CASE Expire(p)
  <2>1. TypeOK' /\ OneCallServes'
    BY <1>1 DEF Expire, args, HttpInv, TypeOK, Status, OneCallServes
  <2>2. StatusIsFinal' /\ NothingSentYet' /\ FlagsBeforeStart'
    BY <1>1 DEF Expire, args, HttpInv, TypeOK, StatusIsFinal, OneCallServes, NothingSentYet,
           FlagsBeforeStart, Running
  <2>3. PollsInTime' /\ DeadlineIsFinal'
    BY <1>1 DEF Expire, args, HttpInv, TypeOK, PollsInTime, DeadlineIsFinal
  <2>4. FailuresExplained'
    BY <1>1 DEF Expire, args, HttpInv, TypeOK, FailuresExplained, StatusIsFinal, NothingSentYet,
           FlagsBeforeStart, Running
  <2>. QED
    BY <2>1, <2>2, <2>3, <2>4 DEF HttpInv
<1>. QED
  BY <1>1

LEMMA VanishStep ==
  ASSUME HttpInv, Vanish
  PROVE  HttpInv'
<1>1. CASE Vanish
  <2>1. TypeOK' /\ OneCallServes'
    BY <1>1 DEF Vanish, GoTo, Leave, args, HttpInv, TypeOK, Status, OneCallServes
  <2>2. StatusIsFinal' /\ NothingSentYet' /\ FlagsBeforeStart'
    BY <1>1 DEF Vanish, GoTo, Leave, args, HttpInv, TypeOK, StatusIsFinal, OneCallServes, NothingSentYet,
           FlagsBeforeStart, Running
  <2>3. PollsInTime' /\ DeadlineIsFinal'
    BY <1>1 DEF Vanish, GoTo, Leave, args, HttpInv, TypeOK, PollsInTime, DeadlineIsFinal
  <2>4. FailuresExplained'
    BY <1>1 DEF Vanish, GoTo, Leave, args, HttpInv, TypeOK, FailuresExplained, StatusIsFinal, NothingSentYet,
           FlagsBeforeStart, Running
  <2>. QED
    BY <2>1, <2>2, <2>3, <2>4 DEF HttpInv
<1>. QED
  BY <1>1

-----------------------------------------------------------------------------
(* What the message of a call rests on: an end polls only while what it has   *)
(* received is no message yet; a server turns to sending only for a request;  *)
(* the client's two calls are apart.                                          *)
StreamGiven == stream \in Streams

SentWithin ==
  \A p \in End : /\ sent[p] <= Len(Content(p))
                 /\ pc[p] = "poll_out" => sent[p] < Len(Content(p))

PollsForMore == \A p \in End : pc[p] = "poll_in" => Parse(Incoming(p)).status = "TRUNCATED"

MessageOfEach == DOMAIN message = End

NoMessageYet ==
  \A p \in End :
    /\ pc[p] \in {"start", "receive", "poll_in"} => message[p].status = "RUNNING"
    /\ call[p] = "send_message" =>
         message[p].status = "RUNNING" /\ pc[p] \notin {"receive", "poll_in"}

CallsApart ==
  /\ call["client"] = "send_message" \/ call["client"] = "recv_message"
  /\ call["client"] = "send_message" /\ status["client"] = "OK" => sent["client"] = Len(stream)
  /\ call["client"] = "recv_message" =>
       sent["client"] = Len(stream) /\ pc["client"] \notin {"send", "poll_out"}

RequestIn ==
  stream[1] = "request" /\ \E n \in MessageEnds(stream) : n <= received["server"]

AnswersRequests == pc["server"] \in {"send", "poll_out"} \/ sent["server"] > 0 => RequestIn

ServerLate ==
  /\ status["server"] = "TIMEOUT" => sent["server"] < Len(Response)
  /\ status["server"] # "VANISHED"

ResponseIn ==
  call["client"] = "recv_message" /\ status["client"] = "OK" =>
    received["client"] = Len(Response)

MessageInv ==
  /\ StreamGiven /\ SentWithin /\ PollsForMore /\ MessageOfEach /\ NoMessageYet /\ CallsApart
  /\ AnswersRequests /\ ServerLate /\ ResponseIn /\ FragmentationInvisible

LEMMA MessageInvInit == Init => MessageInv
<1>. SUFFICES ASSUME Init PROVE MessageInv
  OBVIOUS
<1>1. stream \in Streams
  BY DEF Init
<1>2. \A p \in End : Len(Content(p)) \in Nat
  BY <1>1, ContentType
<1>3. NoMessage("RUNNING").status = "RUNNING"
  BY DEF NoMessage
<1>. QED
  BY <1>1, <1>2, <1>3 DEF Init, MessageInv, StreamGiven, SentWithin, PollsForMore, MessageOfEach, NoMessageYet, CallsApart,
     AnswersRequests, ServerLate, ResponseIn, FragmentationInvisible

(* The message that a call ends with, if it fits what has been received.    *)
Fits(p, result) ==
  LET ends == MessageEnds(Content(Other(p)))
  IN  /\ result.status \in Status \ {"VANISHED"}
      /\ result.status = "OK" =>
           /\ result.message_length \in ends
           /\ result.message_length \in Nat /\ result.message_length <= received[p]
           /\ result.kind = Content(Other(p))[1]
      /\ result.status \in {"MALFORMED", "CAPACITY"} => \A n \in ends : n > capacity[p]
      /\ result.status \in {"EOF", "TRUNCATED", "TIMEOUT", "SYSTEM"} => \A n \in ends : n > received[p]

LEMMA ReceivedKeeps ==
  ASSUME HttpInv, MessageInv, NEW p \in End, pc[p] \in {"receive", "poll_in"},
         NEW result, Fits(p, result), Received(p, result),
         UNCHANGED <<args, call, sent, received>>
  PROVE  MessageInv'
<1>1. /\ message' = [message EXCEPT ![p] = result]
      /\ \/ /\ p = "server" /\ result.status = "OK" /\ result.kind = "request"
            /\ pc' = [pc EXCEPT ![p] = "send"] /\ UNCHANGED status
         \/ /\ pc' = [pc EXCEPT ![p] = "restore"]
            /\ \/ status' = [status EXCEPT ![p] = result.status]
               \/ p = "server" /\ status' = [status EXCEPT ![p] = "MALFORMED"]
  BY DEF Received, GoTo, Leave
<1>2. StreamGiven' /\ SentWithin' /\ PollsForMore'
  BY <1>1 DEF MessageInv, StreamGiven, SentWithin, PollsForMore, Incoming, Content, args, HttpInv, TypeOK
<1>3. call[p] # "send_message"
  BY DEF MessageInv, NoMessageYet
<1>4. MessageOfEach' /\ NoMessageYet' /\ CallsApart'
  BY <1>1, <1>3 DEF MessageInv, MessageOfEach, NoMessageYet, CallsApart, args, HttpInv, TypeOK
<1>5. AnswersRequests'
  <2>1. RequestIn' = RequestIn
    BY DEF RequestIn, args
  <2>2. ASSUME pc'["server"] \in {"send", "poll_out"}, p = "server" PROVE RequestIn
    BY <1>1, <2>2 DEF HttpInv, TypeOK, Fits, Content, RequestIn
  <2>. QED
    BY <1>1, <2>1, <2>2 DEF MessageInv, AnswersRequests, HttpInv, TypeOK
<1>6. ServerLate'
  BY <1>1, ResponseType DEF MessageInv, ServerLate, Fits, HttpInv, TypeOK, NothingSentYet
<1>7. ResponseIn'
  <2>1. ASSUME p = "client", result.status = "OK" PROVE received["client"] = Len(Response)
    <3>1. result.message_length = Len(Response)
      BY <2>1, ResponseEnd DEF Fits, Content
    <3>2. Len(Response) <= received["client"] /\ received["client"] <= sent["server"]
          /\ sent["server"] <= Len(Response)
      BY <2>1, <3>1 DEF Fits, MessageInv, SentWithin, Content, HttpInv, TypeOK
    <3>. QED
      BY <3>2, ResponseType DEF HttpInv, TypeOK
  <2>. QED
    BY <1>1, <2>1 DEF MessageInv, ResponseIn, HttpInv, TypeOK
<1>8. FragmentationInvisible'
  <2>. SUFFICES ASSUME NEW q \in End
                PROVE  LET ends   == Ends[Content(Other(q))]
                           got == message'[q].status
                       IN  /\ got = "OK" => message'[q].message_length \in ends
                           /\ got \in {"MALFORMED", "CAPACITY"} => \A n \in ends : n > capacity[q]
                           /\ got \in {"EOF", "TRUNCATED", "TIMEOUT", "SYSTEM"} =>
                                \A n \in ends : n > received[q]
    BY DEF FragmentationInvisible, Content, Ends, args
  <2>1. CASE q # p
    <3>1. message'[q] = message[q]
      BY <1>1, <2>1
    <3>. QED
      BY <3>1 DEF MessageInv, FragmentationInvisible
  <2>2. CASE q = p /\ message'[q] = result
    BY <2>2, ContentType DEF MessageInv, StreamGiven, Fits
  <2>3. message'[p] = result
    BY <1>1 DEF MessageInv, MessageOfEach
  <2>. QED
    BY <2>1, <2>2, <2>3
<1>. QED
  BY <1>2, <1>4, <1>5, <1>6, <1>7, <1>8 DEF MessageInv

(* A turn of recv_until up to poll: to poll, or to the end of the call.     *)
LEMMA ParseKeeps ==
  ASSUME HttpInv, MessageInv, NEW p \in End, ParseReceived(p)
  PROVE  MessageInv'
<1>. DEFINE result == Parse(Incoming(p))
            ends == MessageEnds(Content(Other(p)))
<1>1. /\ pc[p] = "receive" /\ UNCHANGED <<args, call, sent, received, expired, fd, nonblock, late>>
      /\ \/ result.status # "TRUNCATED" /\ Received(p, result)
         \/ /\ result.status = "TRUNCATED" /\ received[p] = capacity[p]
            /\ Received(p, NoMessage("CAPACITY"))
         \/ /\ result.status = "TRUNCATED"
            /\ \/ Received(p, NoMessage("TIMEOUT"))
               \/ GoTo(p, "poll_in") /\ UNCHANGED <<status, message>>
  BY DEF ParseReceived
<1>2. received[p] \in 0..Len(Content(Other(p)))
  BY ContentType DEF MessageInv, StreamGiven, SentWithin, HttpInv, TypeOK
<1>3. /\ result.status \in Verdicts
      /\ result.status = "OK" =>
           /\ result.message_length \in ends
           /\ result.message_length \in Nat /\ result.message_length <= received[p]
           /\ result.kind = Content(Other(p))[1]
      /\ result.status = "TRUNCATED" => \A n \in ends : n > received[p]
      /\ result.status \in {"MALFORMED", "CAPACITY"} => ends = {}
  BY <1>2, VerdictIsExact DEF MessageInv, StreamGiven
<1>. HIDE DEF result
<1>4. CASE result.status # "TRUNCATED" /\ Received(p, result)
  <2>1. Fits(p, result)
    BY <1>3, <1>4 DEF Fits, Verdicts, Status
  <2>. QED
    BY <1>1, <1>4, <2>1, ReceivedKeeps
<1>5. CASE result.status = "TRUNCATED" /\ received[p] = capacity[p] /\ Received(p, NoMessage("CAPACITY"))
  <2>1. Fits(p, NoMessage("CAPACITY"))
    BY <1>3, <1>5 DEF Fits, NoMessage, Status
  <2>. QED
    BY <1>1, <1>5, <2>1, ReceivedKeeps
<1>6. CASE result.status = "TRUNCATED" /\ Received(p, NoMessage("TIMEOUT"))
  <2>1. Fits(p, NoMessage("TIMEOUT"))
    BY <1>3, <1>6 DEF Fits, NoMessage, Status
  <2>. QED
    BY <1>1, <1>6, <2>1, ReceivedKeeps
<1>7. CASE result.status = "TRUNCATED" /\ GoTo(p, "poll_in") /\ UNCHANGED <<status, message>>
  <2>1. pc' = [pc EXCEPT ![p] = "poll_in"] /\ \A q \in End : Incoming(q)' = Incoming(q)
    BY <1>1, <1>7 DEF GoTo, Incoming, Content, args
  <2>2. PollsForMore'
    BY <1>7, <2>1 DEF result, MessageInv, PollsForMore, HttpInv, TypeOK
  <2>3. StreamGiven' /\ SentWithin' /\ MessageOfEach' /\ NoMessageYet' /\ CallsApart'
    BY <1>1, <1>7, <2>1 DEF MessageInv, StreamGiven, SentWithin, MessageOfEach, NoMessageYet, CallsApart, Content,
       args, HttpInv, TypeOK
  <2>4. AnswersRequests' /\ ServerLate' /\ ResponseIn' /\ FragmentationInvisible'
    BY <1>1, <1>7, <2>1 DEF MessageInv, AnswersRequests, RequestIn, ServerLate, ResponseIn,
       FragmentationInvisible, Content, Ends, args, HttpInv, TypeOK
  <2>. QED
    BY <2>2, <2>3, <2>4 DEF MessageInv
<1>. QED
  BY <1>1, <1>4, <1>5, <1>6, <1>7

(* A status that a poll gives while the bytes received are no message.      *)
LEMMA PollFits ==
  ASSUME HttpInv, MessageInv, NEW p \in End, pc[p] = "poll_in",
         NEW s \in {"EOF", "TRUNCATED", "TIMEOUT", "SYSTEM"}
  PROVE  Fits(p, NoMessage(s))
<1>1. received[p] \in 0..Len(Content(Other(p)))
  BY ContentType DEF MessageInv, StreamGiven, SentWithin, HttpInv, TypeOK
<1>2. Parse(Incoming(p)).status = "TRUNCATED"
  BY DEF MessageInv, PollsForMore
<1>3. \A n \in MessageEnds(Content(Other(p))) : n > received[p]
  BY <1>1, <1>2, VerdictIsExact DEF MessageInv, StreamGiven
<1>. QED
  BY <1>3 DEF Fits, NoMessage, Status

LEMMA EndKeeps ==
  ASSUME HttpInv, MessageInv, NEW p \in End, ReceiveEnd(p)
  PROVE  MessageInv'
<1>1. /\ pc[p] = "poll_in" /\ Received(p, NoMessage(EofStatus(p)))
      /\ UNCHANGED <<args, call, sent, received>>
  BY DEF ReceiveEnd
<1>2. Fits(p, NoMessage(EofStatus(p)))
  BY <1>1, PollFits DEF EofStatus
<1>. QED
  BY <1>1, <1>2, ReceivedKeeps

(* A status given without a message: where the call stood, it may be.       *)
LEMMA LeaveKeeps ==
  ASSUME HttpInv, MessageInv, NEW p \in End, NEW s, NEW next \in {"restore", "return"},
         pc[p] \in {"start", "send", "poll_out", "restore"}, s # "VANISHED", Leave(p, s, next),
         s = "OK" => call[p] # "recv_message" /\ sent[p] = Len(Content(p)),
         s = "TIMEOUT" => sent[p] < Len(Content(p)),
         UNCHANGED <<args, call, sent, received, message>>
  PROVE  MessageInv'
<1>1. status' = [status EXCEPT ![p] = s] /\ pc' = [pc EXCEPT ![p] = next]
  BY DEF Leave, GoTo
<1>2. StreamGiven' /\ SentWithin' /\ PollsForMore' /\ MessageOfEach' /\ NoMessageYet'
  BY <1>1 DEF MessageInv, StreamGiven, SentWithin, PollsForMore, MessageOfEach, NoMessageYet, Incoming, Content,
     args, HttpInv, TypeOK
<1>3. CallsApart' /\ ServerLate' /\ ResponseIn'
  BY <1>1 DEF MessageInv, CallsApart, ServerLate, ResponseIn, Content, args, HttpInv, TypeOK
<1>4. AnswersRequests' /\ FragmentationInvisible'
  BY <1>1 DEF MessageInv, AnswersRequests, RequestIn, FragmentationInvisible, Content, Ends,
     args, HttpInv, TypeOK
<1>. QED
  BY <1>2, <1>3, <1>4 DEF MessageInv

LEMMA StartKeeps ==
  ASSUME HttpInv, MessageInv, NEW p \in End, Start(p) \/ StartFails(p)
  PROVE  MessageInv'
<1>1. pc[p] = "start" /\ UNCHANGED <<args, call, sent, received, message>>
  BY DEF Start, StartFails
<1>2. CASE call[p] = "send_message" /\ stream = <<>> /\ Leave(p, "OK", "return")
  <2>1. p = "client" /\ sent[p] = Len(Content(p))
    BY <1>2, ContentType DEF MessageInv, StreamGiven, SentWithin, Content, HttpInv, TypeOK, OneCallServes
  <2>. QED
    BY <1>1, <1>2, <2>1, LeaveKeeps
<1>3. CASE Leave(p, "SYSTEM", "return")
  BY <1>1, <1>3, LeaveKeeps
<1>4. CASE /\ GoTo(p, IF call[p] = "send_message" THEN "send" ELSE "receive")
           /\ UNCHANGED status
  <2>1. pc' = [pc EXCEPT ![p] = IF call[p] = "send_message" THEN "send" ELSE "receive"]
    BY <1>4 DEF GoTo
  <2>2. StreamGiven' /\ SentWithin' /\ PollsForMore' /\ MessageOfEach' /\ NoMessageYet'
    BY <1>1, <2>1 DEF MessageInv, StreamGiven, SentWithin, PollsForMore, MessageOfEach, NoMessageYet, Incoming, Content,
       args, HttpInv, TypeOK
  <2>3. CallsApart' /\ ServerLate' /\ ResponseIn'
    BY <1>1, <1>4, <2>1 DEF MessageInv, CallsApart, ServerLate, ResponseIn, args, HttpInv, TypeOK
  <2>4. AnswersRequests' /\ FragmentationInvisible'
    BY <1>1, <2>1 DEF MessageInv, AnswersRequests, RequestIn, FragmentationInvisible, Content, Ends,
       args, HttpInv, TypeOK, OneCallServes
  <2>. QED
    BY <2>2, <2>3, <2>4 DEF MessageInv
<1>. QED
  BY <1>2, <1>3, <1>4 DEF Start, StartFails

LEMMA ReceiveKeeps ==
  ASSUME HttpInv, MessageInv, NEW p \in End, Receive(p)
  PROVE  MessageInv'
<1>1. PICK n \in 1..(capacity[p] - received[p]) :
        n <= InFlight(Other(p)) /\ received' = [received EXCEPT ![p] = @ + n]
  BY DEF Receive
<1>2. /\ pc[p] = "poll_in" /\ pc' = [pc EXCEPT ![p] = "receive"]
      /\ UNCHANGED <<args, call, status, sent, message, expired, fd, nonblock>>
  BY DEF Receive, GoTo
<1>3. /\ \A q \in End : received'[q] = IF q = p THEN received[q] + n ELSE received[q]
      /\ received[p] \in Nat /\ n \in Nat /\ \A q \in End : received[q] <= received'[q]
  BY <1>1 DEF HttpInv, TypeOK
<1>4. PollsForMore'
  <2>. SUFFICES ASSUME NEW q \in End, pc'[q] = "poll_in"
                PROVE  Parse(Incoming(q)').status = "TRUNCATED"
    BY DEF PollsForMore
  <2>1. q # p /\ pc[q] = "poll_in"
    BY <1>2 DEF HttpInv, TypeOK
  <2>2. Incoming(q)' = Incoming(q)
    BY <1>2, <1>3, <2>1 DEF Incoming, Content, args
  <2>. QED
    BY <2>1, <2>2 DEF MessageInv, PollsForMore
<1>5. StreamGiven' /\ SentWithin' /\ MessageOfEach' /\ NoMessageYet' /\ CallsApart'
  BY <1>2 DEF MessageInv, StreamGiven, SentWithin, MessageOfEach, NoMessageYet, CallsApart, Content, args, HttpInv, TypeOK
<1>6. AnswersRequests'
  <2>1. ASSUME RequestIn PROVE RequestIn'
    <3>1. PICK k \in MessageEnds(stream) : stream[1] = "request" /\ k <= received["server"]
      BY <2>1 DEF RequestIn
    <3>2. k \in Nat
      <4>1. stream \in Seq(Symbols) /\ 0 \in 0..Len(stream)
        BY ContentType DEF MessageInv, StreamGiven, Content
      <4>. HIDE DEF Symbols
      <4>. QED
        BY <4>1, MessageAccepted
    <3>3. k <= received'["server"]
      BY <1>3, <3>1, <3>2 DEF HttpInv, TypeOK
    <3>. QED
      BY <1>2, <3>1, <3>3 DEF RequestIn, args
  <2>. QED
    BY <1>2, <2>1 DEF MessageInv, AnswersRequests, HttpInv, TypeOK
<1>7. ServerLate' /\ ResponseIn'
  BY <1>2, <1>3 DEF MessageInv, ServerLate, ResponseIn, HttpInv, TypeOK, StatusIsFinal, Running
<1>8. FragmentationInvisible'
  <2>1. message[p].status = "RUNNING"
    BY <1>2 DEF MessageInv, NoMessageYet
  <2>. SUFFICES ASSUME NEW q \in End, q # p
                PROVE  LET ends   == Ends[Content(Other(q))]
                           got == message[q].status
                       IN  /\ got = "OK" => message[q].message_length \in ends
                           /\ got \in {"MALFORMED", "CAPACITY"} => \A x \in ends : x > capacity[q]
                           /\ got \in {"EOF", "TRUNCATED", "TIMEOUT", "SYSTEM"} =>
                                \A x \in ends : x > received'[q]
    BY <1>2, <2>1 DEF FragmentationInvisible, Content, Ends, args
  <2>2. received'[q] = received[q]
    BY <1>3
  <2>. QED
    BY <2>2 DEF MessageInv, FragmentationInvisible
<1>. QED
  BY <1>4, <1>5, <1>6, <1>7, <1>8 DEF MessageInv

LEMMA SendKeeps ==
  ASSUME HttpInv, MessageInv, NEW p \in End, SendOrStop(p) \/ Send(p) \/ SendBroken(p)
  PROVE  MessageInv'
<1>1. CASE SendOrStop(p)
  <2>1. pc[p] = "send" /\ UNCHANGED <<args, call, sent, received, message>>
    BY <1>1 DEF SendOrStop
  <2>2. call[p] # "recv_message"
    BY <2>1 DEF MessageInv, CallsApart, HttpInv, OneCallServes
  <2>3. CASE sent[p] = Len(Content(p)) /\ Leave(p, "OK", "restore")
    BY <2>1, <2>2, <2>3, LeaveKeeps
  <2>4. CASE sent[p] < Len(Content(p)) /\ Leave(p, "TIMEOUT", "restore")
    BY <2>1, <2>4, LeaveKeeps
  <2>5. CASE sent[p] < Len(Content(p)) /\ GoTo(p, "poll_out") /\ UNCHANGED status
    <3>1. pc' = [pc EXCEPT ![p] = "poll_out"]
      BY <2>5 DEF GoTo
    <3>2. StreamGiven' /\ SentWithin' /\ PollsForMore' /\ MessageOfEach' /\ NoMessageYet'
      BY <2>1, <2>5, <3>1 DEF MessageInv, StreamGiven, SentWithin, PollsForMore, MessageOfEach, NoMessageYet, Incoming,
         Content, args, HttpInv, TypeOK
    <3>3. CallsApart' /\ ServerLate' /\ ResponseIn'
      BY <2>1, <2>2, <2>5, <3>1 DEF MessageInv, CallsApart, ServerLate, ResponseIn, args, HttpInv, TypeOK
    <3>4. AnswersRequests' /\ FragmentationInvisible'
      BY <2>1, <3>1 DEF MessageInv, AnswersRequests, RequestIn, FragmentationInvisible, Content, Ends,
         args, HttpInv, TypeOK
    <3>. QED
      BY <3>2, <3>3, <3>4 DEF MessageInv
  <2>. QED
    BY <1>1, <2>3, <2>4, <2>5 DEF SendOrStop
<1>2. CASE Send(p)
  <2>1. PICK n \in 1..(Len(Content(p)) - sent[p]) : sent' = [sent EXCEPT ![p] = @ + n]
    BY <1>2 DEF Send
  <2>2. /\ pc[p] = "poll_out" /\ pc' = [pc EXCEPT ![p] = "send"]
        /\ UNCHANGED <<args, call, status, received, message, expired, fd, nonblock>>
    BY <1>2 DEF Send, GoTo
  <2>3. /\ \A q \in End : Len(Content(q)) \in Nat /\ sent[q] \in Nat
        /\ n \in Nat /\ n > 0 /\ sent[p] + n <= Len(Content(p))
        /\ \A q \in End : sent'[q] = IF q = p THEN sent[q] + n ELSE sent[q]
    BY <2>1, ContentType DEF MessageInv, StreamGiven, HttpInv, TypeOK
  <2>4. \A q \in End : Content(q)' = Content(q)
    BY <2>2 DEF Content, args
  <2>5. SentWithin'
    BY <2>2, <2>3, <2>4 DEF MessageInv, SentWithin, HttpInv, TypeOK
  <2>6. StreamGiven' /\ PollsForMore' /\ MessageOfEach' /\ NoMessageYet'
    BY <2>2 DEF MessageInv, StreamGiven, PollsForMore, MessageOfEach, NoMessageYet, Incoming, Content, args, HttpInv, TypeOK
  <2>7. CallsApart' /\ ServerLate' /\ ResponseIn'
    <3>1. status[p] = "RUNNING" /\ call[p] # "recv_message"
      BY <2>2 DEF MessageInv, CallsApart, HttpInv, StatusIsFinal, Running, OneCallServes
    <3>. QED
      BY <2>2, <2>3, <3>1 DEF MessageInv, CallsApart, ServerLate, ResponseIn, args, HttpInv, TypeOK
  <2>8. AnswersRequests' /\ FragmentationInvisible'
    BY <2>2, <2>3 DEF MessageInv, AnswersRequests, RequestIn, FragmentationInvisible, Content, Ends,
       args, HttpInv, TypeOK
  <2>. QED
    BY <2>5, <2>6, <2>7, <2>8 DEF MessageInv
<1>3. CASE SendBroken(p)
  BY <1>3, LeaveKeeps DEF SendBroken
<1>. QED
  BY <1>1, <1>2, <1>3

LEMMA PollKeeps ==
  ASSUME HttpInv, MessageInv, NEW p \in End, PollTimesOut(p) \/ Interrupted(p) \/ TransferFails(p)
  PROVE  MessageInv'
<1>1. ASSUME NEW s \in {"TIMEOUT", "SYSTEM"}, pc[p] \in {"poll_in", "poll_out"}, Ended(p, s),
             UNCHANGED <<args, call, sent, received, expired, fd, nonblock, late>>
      PROVE  MessageInv'
  <2>1. CASE pc[p] = "poll_in"
    <3>1. Fits(p, NoMessage(s)) /\ Received(p, NoMessage(s))
      BY <1>1, <2>1, PollFits DEF Ended
    <3>. QED
      BY <1>1, <2>1, <3>1, ReceivedKeeps
  <2>2. CASE pc[p] = "poll_out"
    <3>1. Leave(p, s, "restore") /\ UNCHANGED message /\ sent[p] < Len(Content(p))
      BY <1>1, <2>2 DEF Ended, MessageInv, SentWithin
    <3>. QED
      BY <1>1, <2>2, <3>1, LeaveKeeps
  <2>. QED
    BY <1>1, <2>1, <2>2
<1>2. CASE Interrupted(p)
  <2>1. /\ pc[p] \in {"poll_in", "poll_out"}
        /\ pc' = [pc EXCEPT ![p] = IF pc[p] = "poll_in" THEN "receive" ELSE "send"]
        /\ UNCHANGED <<args, call, status, sent, received, message>>
    BY <1>2 DEF Interrupted, GoTo
  <2>2. StreamGiven' /\ SentWithin' /\ PollsForMore' /\ MessageOfEach' /\ NoMessageYet'
    BY <2>1 DEF MessageInv, StreamGiven, SentWithin, PollsForMore, MessageOfEach, NoMessageYet, Incoming, Content,
       args, HttpInv, TypeOK
  <2>3. CallsApart' /\ ServerLate' /\ ResponseIn'
    BY <2>1 DEF MessageInv, CallsApart, ServerLate, ResponseIn, args, HttpInv, TypeOK
  <2>4. AnswersRequests' /\ FragmentationInvisible'
    BY <2>1 DEF MessageInv, AnswersRequests, RequestIn, FragmentationInvisible, Content, Ends,
       args, HttpInv, TypeOK
  <2>. QED
    BY <2>2, <2>3, <2>4 DEF MessageInv
<1>. QED
  BY <1>1, <1>2 DEF PollTimesOut, TransferFails

LEMMA ReturnKeeps ==
  ASSUME HttpInv, MessageInv, NEW p \in End, Restore(p) \/ Return(p)
  PROVE  MessageInv'
<1>1. CASE Restore(p) /\ Leave(p, "SYSTEM", "return")
  BY <1>1, LeaveKeeps DEF Restore
<1>2. ASSUME NEW next \in {"return", "done"}, pc[p] \in {"restore", "return"}, GoTo(p, next),
             UNCHANGED <<args, call, status, sent, received, message>>
      PROVE  MessageInv'
  <2>1. pc' = [pc EXCEPT ![p] = next]
    BY <1>2 DEF GoTo
  <2>2. StreamGiven' /\ SentWithin' /\ PollsForMore' /\ MessageOfEach' /\ NoMessageYet'
    BY <1>2, <2>1 DEF MessageInv, StreamGiven, SentWithin, PollsForMore, MessageOfEach, NoMessageYet, Incoming, Content,
       args, HttpInv, TypeOK
  <2>3. CallsApart' /\ ServerLate' /\ ResponseIn'
    BY <1>2, <2>1 DEF MessageInv, CallsApart, ServerLate, ResponseIn, args, HttpInv, TypeOK
  <2>4. AnswersRequests' /\ FragmentationInvisible'
    BY <1>2, <2>1 DEF MessageInv, AnswersRequests, RequestIn, FragmentationInvisible, Content, Ends,
       args, HttpInv, TypeOK
  <2>. QED
    BY <2>2, <2>3, <2>4 DEF MessageInv
<1>3. ASSUME pc[p] = "return", call[p] = "send_message", status[p] = "OK",
             call' = [call EXCEPT ![p] = "recv_message"], Leave(p, "RUNNING", "start"),
             UNCHANGED <<args, sent, received, message>>
      PROVE  MessageInv'
  <2>1. p = "client" /\ status' = [status EXCEPT ![p] = "RUNNING"] /\ pc' = [pc EXCEPT ![p] = "start"]
    BY <1>3 DEF Leave, GoTo, HttpInv, OneCallServes
  <2>2. StreamGiven' /\ SentWithin' /\ PollsForMore' /\ MessageOfEach' /\ NoMessageYet'
    BY <1>3, <2>1 DEF MessageInv, StreamGiven, SentWithin, PollsForMore, MessageOfEach, NoMessageYet, Incoming, Content,
       args, HttpInv, TypeOK
  <2>3. CallsApart' /\ ServerLate' /\ ResponseIn'
    BY <1>3, <2>1 DEF MessageInv, CallsApart, ServerLate, ResponseIn, args, HttpInv, TypeOK
  <2>4. AnswersRequests' /\ FragmentationInvisible'
    BY <1>3, <2>1 DEF MessageInv, AnswersRequests, RequestIn, FragmentationInvisible, Content, Ends,
       args, HttpInv, TypeOK
  <2>. QED
    BY <2>2, <2>3, <2>4 DEF MessageInv
<1>. QED
  BY <1>1, <1>2, <1>3 DEF Restore, Return

LEMMA OutsideKeeps ==
  ASSUME HttpInv, MessageInv, Vanish \/ \E p \in End : Expire(p)
  PROVE  MessageInv'
<1>1. /\ \/ /\ status' = [status EXCEPT !["client"] = "VANISHED"]
            /\ pc' = [pc EXCEPT !["client"] = "done"]
         \/ UNCHANGED <<pc, status>>
      /\ UNCHANGED <<args, call, sent, received, message>>
  BY DEF Vanish, Expire, Leave, GoTo
<1>2. StreamGiven' /\ SentWithin' /\ PollsForMore' /\ MessageOfEach' /\ NoMessageYet'
  BY <1>1 DEF MessageInv, StreamGiven, SentWithin, PollsForMore, MessageOfEach, NoMessageYet, Incoming, Content,
     args, HttpInv, TypeOK
<1>3. CallsApart' /\ ServerLate' /\ ResponseIn'
  BY <1>1 DEF MessageInv, CallsApart, ServerLate, ResponseIn, args, HttpInv, TypeOK
<1>4. AnswersRequests' /\ FragmentationInvisible'
  BY <1>1 DEF MessageInv, AnswersRequests, RequestIn, FragmentationInvisible, Content, Ends,
     args, HttpInv, TypeOK
<1>. QED
  BY <1>2, <1>3, <1>4 DEF MessageInv

-----------------------------------------------------------------------------
LEMMA HttpInvariant == Spec => []HttpInv
<1>1. HttpInv /\ [Next]_vars => HttpInv'
  <2>. SUFFICES ASSUME HttpInv, [Next]_vars
                PROVE  HttpInv'
    OBVIOUS
  <2>1. ASSUME NEW p \in End, Step(p)
        PROVE  HttpInv'
    BY <2>1, StartStep, ParseStep, ReceiveStep, EndStep, SendStep, PollStep, ReturnStep DEF Step
  <2>2. ASSUME NEW p \in End, Interrupted(p) \/ StartFails(p) \/ TransferFails(p) \/ Expire(p)
        PROVE  HttpInv'
    BY <2>2, StartStep, PollStep, ExpireStep
  <2>3. CASE Vanish
    BY <2>3, VanishStep
  <2>4. CASE UNCHANGED vars
    BY <2>4 DEF vars, args, HttpInv, TypeOK, FailuresExplained, DeadlineIsFinal, StatusIsFinal,
           OneCallServes, NothingSentYet, FlagsBeforeStart, PollsInTime
  <2>. QED
    BY <2>1, <2>2, <2>3, <2>4 DEF Next
<1>. QED
  BY <1>1, InvInit, PTL DEF Spec

(* Nothing is received that was not sent, nor more than the buffer holds. *)
THEOREM HttpTypeCorrect == Spec => []TypeOK
<1>1. HttpInv => TypeOK
  BY DEF HttpInv
<1>. QED
  BY <1>1, HttpInvariant, PTL

(* TIMEOUT, EOF and TRUNCATED are answered only for what they say, a refused *)
(* request gets no byte of a response, and flags are handed back.            *)
THEOREM FailuresAreExplained == Spec => []FailuresExplained
<1>1. HttpInv => FailuresExplained
  BY DEF HttpInv
<1>. QED
  BY <1>1, HttpInvariant, PTL

(* A call moves bytes at most once after its deadline. *)
THEOREM DeadlineStaysFinal == Spec => []DeadlineIsFinal
<1>1. HttpInv => DeadlineIsFinal
  BY DEF HttpInv
<1>. QED
  BY <1>1, HttpInvariant, PTL

-----------------------------------------------------------------------------
LEMMA MessageInvariant == Spec => [](HttpInv /\ MessageInv)
<1>1. HttpInv /\ MessageInv /\ [Next]_vars => MessageInv'
  <2>. SUFFICES ASSUME HttpInv, MessageInv, [Next]_vars
                PROVE  MessageInv'
    OBVIOUS
  <2>1. ASSUME NEW p \in End, Step(p)
        PROVE  MessageInv'
    BY <2>1, StartKeeps, ParseKeeps, ReceiveKeeps, EndKeeps, SendKeeps, PollKeeps, ReturnKeeps DEF Step
  <2>2. ASSUME NEW p \in End, Interrupted(p) \/ StartFails(p) \/ TransferFails(p) \/ Expire(p)
        PROVE  MessageInv'
    BY <2>2, StartKeeps, PollKeeps, OutsideKeeps
  <2>3. CASE Vanish
    BY <2>3, OutsideKeeps
  <2>4. CASE UNCHANGED vars
    BY <2>4 DEF vars, args, MessageInv, StreamGiven, SentWithin, PollsForMore, MessageOfEach, NoMessageYet,
       CallsApart, AnswersRequests, RequestIn, ServerLate, ResponseIn, FragmentationInvisible,
       Incoming, Content, Ends
  <2>. QED
    BY <2>1, <2>2, <2>3, <2>4 DEF Next
<1>. QED
  BY <1>1, MessageInvInit, HttpInvariant, PTL DEF Spec

(* Wherever the reads cut a stream, what is accepted is exactly the message   *)
(* it starts with, as soon as its last byte is there and the buffer holds it. *)
THEOREM FragmentationStaysInvisible == Spec => []FragmentationInvisible
<1>1. MessageInv => FragmentationInvisible
  BY DEF MessageInv
<1>. QED
  BY <1>1, MessageInvariant, PTL

(* A response is sent only for a complete request, and OK at the client means *)
(* the whole response to a request it sent in full.                           *)
THEOREM OnlyRequestsAreAnswered == Spec => []OnlyRequestsAnswered
<1>1. HttpInv /\ MessageInv => OnlyRequestsAnswered
  <2>. SUFFICES ASSUME HttpInv, MessageInv PROVE OnlyRequestsAnswered
    OBVIOUS
  <2>1. sent["server"] > 0 => stream[1] = "request" /\ \E n \in Ends[stream] : n <= received["server"]
    <3>1. Ends[stream] = MessageEnds(stream)
      BY ContentType DEF MessageInv, StreamGiven, Content
    <3>. QED
      BY <3>1 DEF MessageInv, AnswersRequests, RequestIn
  <2>2. ASSUME status["client"] = "OK", call["client"] = "recv_message"
        PROVE  /\ received["client"] = Len(Response) /\ sent["client"] = Len(stream)
               /\ status["server"] \in {"RUNNING", "OK", "SYSTEM"}
    <3>1. received["client"] = Len(Response) /\ sent["client"] = Len(stream)
      BY <2>2 DEF MessageInv, ResponseIn, CallsApart
    <3>2. sent["server"] = Len(Response)
      <4>1. received["client"] <= sent["server"] /\ sent["server"] \in Nat
        BY DEF HttpInv, TypeOK
      <4>2. sent["server"] <= Len(Response)
        BY DEF MessageInv, SentWithin, Content
      <4>. QED
        BY <3>1, <4>1, <4>2, ResponseType
    <3>3. status["server"] \notin {"EOF", "TRUNCATED", "MALFORMED", "CAPACITY", "TIMEOUT", "VANISHED"}
      BY <3>2, ResponseType DEF HttpInv, FailuresExplained, MessageInv, ServerLate
    <3>. QED
      BY <3>1, <3>3 DEF HttpInv, TypeOK, Status
  <2>. QED
    BY <2>1, <2>2 DEF OnlyRequestsAnswered
<1>. QED
  BY <1>1, MessageInvariant, PTL
=============================================================================
