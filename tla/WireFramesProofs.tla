------------------------- MODULE WireFramesProofs --------------------------
(***************************************************************************)
(* For every message, address, option, payload, label and damaged word:    *)
(*   - the sums of lesson 12 and of lessons 03 to 06 are the same number,  *)
(*   - lesson 12 accepts a frame exactly when the parsers do,              *)
(*   - what the builders make and routers forward is taken, and a damaged  *)
(*     word is found unless no one's complement sum can see it,            *)
(*   - a report depends on the bytes it counts as parsed alone,            *)
(*   - both DNS walks agree, and the server's address is read.             *)
(* In this order: numbers, bytes and sums; reports; parsers and diagnosis; *)
(* parts of sequences; builders; frames; damage; the invariant; recursion, *)
(* names and records; how far a report looks; frames that are cut; the two *)
(* walks over a DNS message; the bytes of a name; the server's response.   *)
(***************************************************************************)
EXTENDS WireFrames, FiniteSetTheorems, WellFoundedInduction, TLAPS

(* A set of numbers has a least one.                                       *)
LEMMA LeastNatural ==
  ASSUME NEW T \in SUBSET Nat, T # {}
  PROVE  \E n \in T : \A m \in T : n <= m
<1>. DEFINE R == OpToRel(<, Nat)
<1>1. IsWellFoundedOn(R, Nat)
  BY NatLessThanWellFounded
<1>2. \A a, b \in Nat : <<a, b>> \in R <=> a < b
  BY DEF OpToRel
<1>. HIDE DEF R
<1>3. PICK n \in T : \A m \in T : ~(<<m, n>> \in R)
  BY <1>1, WFMin
<1>4. ASSUME NEW m \in T PROVE n <= m
  <2>1. m \in Nat /\ n \in Nat /\ ~(m < n)
    BY <1>2, <1>3
  <2>. QED
    BY <2>1
<1>. QED
  BY <1>4

(* Induction, over the set of the numbers that have the property.          *)
LEMMA SetInduction ==
  ASSUME NEW T, 0 \in T, \A n \in Nat : n \in T => n + 1 \in T
  PROVE  Nat \subseteq T
<1>. SUFFICES ASSUME Nat \ T # {} PROVE FALSE
  OBVIOUS
<1>1. PICK n \in Nat \ T : \A m \in Nat \ T : n <= m
  BY LeastNatural
<1>2. n # 0 /\ n - 1 \in Nat /\ n - 1 \in T
  BY <1>1
<1>. QED
  BY <1>1, <1>2

-----------------------------------------------------------------------------
(* Bytes and words.                                                        *)

Half == {n \in Nat : n <= 65535}

(* Byte is a range of numbers.                                             *)
LEMMA ByteRange == \A n : n \in Byte <=> n \in Nat /\ n <= 255
<1>1. \A n \in Nat : n <= 255 => n \in Byte
  BY DEF Byte
<1>2. \A n \in Byte : n \in Nat /\ n <= 255
  BY DEF Byte
<1>. QED
  BY <1>1, <1>2

(* Division.                                                               *)
LEMMA Divided ==
  ASSUME NEW w \in Int
  PROVE  /\ w \div 256 \in Int /\ w % 256 \in Nat /\ w % 256 <= 255
         /\ w = 256 * (w \div 256) + (w % 256)
         /\ w \div 65536 \in Int /\ w % 65536 \in Nat /\ w % 65536 <= 65535
         /\ w = 65536 * (w \div 65536) + (w % 65536)
         /\ w \div 2 \in Int /\ w % 2 \in 0..1 /\ w = 2 * (w \div 2) + (w % 2)
OBVIOUS

LEMMA AtByte ==
  ASSUME NEW d \in Seq(Byte), NEW o \in Nat, o < Len(d)
  PROVE  At(d, o) \in Byte
BY DEF At

LEMMA TwoBytes ==
  ASSUME NEW a \in Byte, NEW b \in Byte
  PROVE  256 * a + b \in Half
BY ByteRange DEF Half

LEMMA WordHalf ==
  ASSUME NEW d \in Seq(Byte), NEW o \in Nat, o + 2 <= Len(d)
  PROVE  Word(d, o) \in Half
<1>1. At(d, o) \in Byte /\ At(d, o + 1) \in Byte
  <2>1. o + 1 \in Nat /\ o < Len(d) /\ o + 1 < Len(d)
    OBVIOUS
  <2>. QED
    BY <2>1, AtByte
<1>. QED
  BY <1>1, TwoBytes DEF Word

LEMMA BytesOfHalf ==
  ASSUME NEW w \in Half
  PROVE  /\ Bytes(w) \in Seq(Byte) /\ Len(Bytes(w)) = 2
         /\ w \div 256 \in Byte /\ w % 256 \in Byte
         /\ 256 * (w \div 256) + (w % 256) = w
<1>1. w \in Nat /\ w <= 65535
  BY DEF Half
<1>2. w \div 256 \in Int /\ w % 256 \in Nat /\ w % 256 <= 255 /\ w = 256 * (w \div 256) + (w % 256)
  BY <1>1, Divided
<1>3. w \div 256 \in Byte /\ w % 256 \in Byte
  <2>1. w \div 256 \in Nat /\ w \div 256 <= 255
    BY <1>1, <1>2
  <2>. QED
    BY <1>2, <2>1, ByteRange
<1>4. Bytes(w) \in Seq(Byte) /\ Len(Bytes(w)) = 2
  BY <1>3 DEF Bytes
<1>. QED
  BY <1>2, <1>3, <1>4

(* Sequences of bytes are what At shows.                                   *)
LEMMA SameBytes ==
  ASSUME NEW d \in Seq(Byte), NEW e \in Seq(Byte), Len(d) = Len(e),
         \A i \in 0..(Len(d) - 1) : At(d, i) = At(e, i)
  PROVE  d = e
<1>1. ASSUME NEW k \in 1..Len(d) PROVE d[k] = e[k]
  <2>1. k - 1 \in 0..(Len(d) - 1) /\ (k - 1) + 1 = k
    OBVIOUS
  <2>2. At(d, k - 1) = At(e, k - 1)
    BY <2>1
  <2>. QED
    BY <2>1, <2>2 DEF At
<1>. QED
  BY <1>1

LEMMA PutBytes ==
  ASSUME NEW d \in Seq(Byte), NEW o \in Nat, o + 2 <= Len(d), NEW w \in Half
  PROVE  /\ Put(d, o, w) \in Seq(Byte) /\ Len(Put(d, o, w)) = Len(d)
         /\ \A i \in 0..(Len(d) - 1) :
              At(Put(d, o, w), i) = IF i = o THEN w \div 256
                                    ELSE IF i = o + 1 THEN w % 256 ELSE At(d, i)
         /\ Word(Put(d, o, w), o) = w
<1>1. w \div 256 \in Byte /\ w % 256 \in Byte /\ 256 * (w \div 256) + (w % 256) = w
  BY BytesOfHalf
<1>2. Put(d, o, w) \in Seq(Byte) /\ Len(Put(d, o, w)) = Len(d)
  BY <1>1 DEF Put
<1>3. ASSUME NEW i \in 0..(Len(d) - 1)
      PROVE  At(Put(d, o, w), i) = IF i = o THEN w \div 256
                                   ELSE IF i = o + 1 THEN w % 256 ELSE At(d, i)
  <2>1. i + 1 \in 1..Len(d) /\ o + 1 \in 1..Len(d) /\ o + 2 \in 1..Len(d)
    OBVIOUS
  <2>. QED
    BY <2>1 DEF Put, At
<1>4. At(Put(d, o, w), o) = w \div 256 /\ At(Put(d, o, w), o + 1) = w % 256
  <2>1. o \in 0..(Len(d) - 1) /\ o + 1 \in 0..(Len(d) - 1) /\ o + 1 # o
    OBVIOUS
  <2>. QED
    BY <1>3, <2>1
<1>5. Word(Put(d, o, w), o) = w
  <2>. DEFINE p == Put(d, o, w)
  <2>1. Word(p, o) = 256 * At(p, o) + At(p, o + 1)
    BY DEF Word
  <2>. HIDE DEF p
  <2>2. Word(p, o) = 256 * (w \div 256) + (w % 256)
    BY <1>4, <2>1 DEF p
  <2>. QED
    BY <1>1, <2>2 DEF p
<1>. QED
  BY <1>2, <1>3, <1>5

LEMMA SliceBytes ==
  ASSUME NEW d \in Seq(Byte), NEW o \in Nat, NEW n \in Nat, o + n <= Len(d)
  PROVE  /\ Slice(d, o, n) \in Seq(Byte) /\ Len(Slice(d, o, n)) = n
         /\ \A i \in 0..(n - 1) : At(Slice(d, o, n), i) = At(d, o + i)
<1>1. Slice(d, o, n) \in Seq(Byte) /\ Len(Slice(d, o, n)) = n
  BY DEF Slice
<1>2. ASSUME NEW i \in 0..(n - 1) PROVE At(Slice(d, o, n), i) = At(d, o + i)
  BY SMTT(30) DEF Slice, At
<1>. QED
  BY <1>1, <1>2

LEMMA FromBytes ==
  ASSUME NEW d \in Seq(Byte), NEW o \in Nat, o <= Len(d)
  PROVE  /\ From(d, o) \in Seq(Byte) /\ Len(From(d, o)) = Len(d) - o
         /\ From(d, o) = Slice(d, o, Len(d) - o)
         /\ \A i \in 0..(Len(d) - o - 1) : At(From(d, o), i) = At(d, o + i)
<1>1. From(d, o) \in Seq(Byte) /\ Len(From(d, o)) = Len(d) - o
  BY DEF From
<1>2. ASSUME NEW i \in 0..(Len(d) - o - 1) PROVE At(From(d, o), i) = At(d, o + i)
  BY DEF From, At
<1>3. From(d, o) = Slice(d, o, Len(d) - o)
  BY DEF From, Slice
<1>. QED
  BY <1>1, <1>2, <1>3

LEMMA JoinBytes ==
  ASSUME NEW d \in Seq(Byte), NEW e \in Seq(Byte)
  PROVE  /\ d \o e \in Seq(Byte) /\ Len(d \o e) = Len(d) + Len(e)
         /\ \A i \in 0..(Len(d) - 1) : At(d \o e, i) = At(d, i)
         /\ \A i \in 0..(Len(e) - 1) : At(d \o e, Len(d) + i) = At(e, i)
<1>1. d \o e \in Seq(Byte) /\ Len(d \o e) = Len(d) + Len(e)
  OBVIOUS
<1>2. ASSUME NEW i \in 0..(Len(d) - 1) PROVE At(d \o e, i) = At(d, i)
  BY DEF At
<1>3. ASSUME NEW i \in 0..(Len(e) - 1) PROVE At(d \o e, Len(d) + i) = At(e, i)
  BY DEF At
<1>. QED
  BY <1>1, <1>2, <1>3

-----------------------------------------------------------------------------
(* Sums.  A sum over the words of d, by a step function F on what has been *)
(* added so far and the next word.                                         *)

Sums(X, W, F, n) ==
  {f \in [0..n -> X] : f[0] = 0 /\ \A k \in 1..n : f[k] = F[<<f[k - 1], W[k]>>]}

LEMMA SumsExist ==
  ASSUME NEW X, 0 \in X, NEW n \in Nat, NEW W \in [1..n -> Half],
         NEW F \in [X \X Half -> X]
  PROVE  Sums(X, W, F, n) # {}
<1>. DEFINE Good(m) == m <= n => Sums(X, W, F, m) # {}
            T == {m \in Nat : Good(m)}
<1>1. 0 \in T
  <2>1. [i \in 0..0 |-> 0] \in Sums(X, W, F, 0)
    BY DEF Sums
  <2>. QED
    BY <2>1
<1>2. ASSUME NEW m \in Nat, m \in T PROVE m + 1 \in T
  <2>. SUFFICES ASSUME m + 1 <= n PROVE Sums(X, W, F, m + 1) # {}
    OBVIOUS
  <2>1. PICK f : f \in Sums(X, W, F, m)
    BY <1>2
  <2>2. /\ f \in [0..m -> X] /\ f[0] = 0
        /\ \A k \in 1..m : f[k] = F[<<f[k - 1], W[k]>>]
    BY <2>1 DEF Sums
  <2>. DEFINE g == [i \in 0..(m + 1) |-> IF i <= m THEN f[i] ELSE F[<<f[m], W[m + 1]>>]]
  <2>3. g \in [0..(m + 1) -> X]
    <3>1. F[<<f[m], W[m + 1]>>] \in X
      <4>1. f[m] \in X /\ W[m + 1] \in Half
        BY <2>2
      <4>. QED
        BY <4>1
    <3>. QED
      BY <2>2, <3>1
  <2>4. g[0] = 0
    BY <2>2
  <2>5. ASSUME NEW k \in 1..(m + 1) PROVE g[k] = F[<<g[k - 1], W[k]>>]
    <3>1. CASE k <= m
      <4>1. k \in 1..m /\ k \in 0..(m + 1) /\ k - 1 \in 0..(m + 1) /\ k - 1 <= m
        BY <3>1
      <4>2. g[k] = f[k] /\ g[k - 1] = f[k - 1]
        BY <3>1, <4>1
      <4>. QED
        BY <2>2, <4>1, <4>2
    <3>2. CASE k = m + 1
      <4>1. m \in 0..(m + 1) /\ k \in 0..(m + 1) /\ ~(k <= m) /\ k - 1 = m
        BY <3>2
      <4>2. g[k] = F[<<f[m], W[m + 1]>>] /\ g[m] = f[m]
        BY <4>1
      <4>. QED
        BY <3>2, <4>1, <4>2
    <3>. QED
      BY <3>1, <3>2
  <2>. HIDE DEF g
  <2>6. g \in Sums(X, W, F, m + 1)
    BY <2>3, <2>4, <2>5 DEF Sums
  <2>. QED
    BY <2>6
<1>3. Nat \subseteq T
  <2>. HIDE DEF T
  <2>. QED
    BY <1>1, <1>2, SetInduction
<1>. QED
  BY <1>3

LEMMA WordAtHalf ==
  ASSUME NEW d \in Seq(Byte)
  PROVE  /\ WordCount(d) \in Nat
         /\ \A k \in 1..WordCount(d) : WordAt(d, k) \in Half
<1>1. WordCount(d) \in Nat
  BY DEF WordCount
<1>2. ASSUME NEW k \in 1..WordCount(d) PROVE WordAt(d, k) \in Half
  <2>1. 2 * k - 1 \in 1..Len(d)
    BY <1>1 DEF WordCount
  <2>2. d[2 * k - 1] \in Byte
    BY <2>1
  <2>3. CASE 2 * k <= Len(d)
    <3>1. 2 * k \in 1..Len(d)
      BY <2>1, <2>3
    <3>2. d[2 * k] \in Byte
      BY <3>1
    <3>3. WordAt(d, k) = 256 * d[2 * k - 1] + d[2 * k]
      BY <2>3 DEF WordAt
    <3>. QED
      BY <2>2, <3>2, <3>3, TwoBytes
  <2>4. CASE ~(2 * k <= Len(d))
    <3>1. WordAt(d, k) = 256 * d[2 * k - 1] + 0
      BY <2>4 DEF WordAt
    <3>2. 0 \in Byte
      BY ByteRange
    <3>. QED
      BY <2>2, <3>1, <3>2, TwoBytes
  <2>. QED
    BY <2>3, <2>4
<1>. QED
  BY <1>1, <1>2

(* The recursive definition of the total defines it.                       *)
Totals(d) ==
  {f \in [0..WordCount(d) -> Nat] :
     /\ f[0] = 0
     /\ \A k \in 1..WordCount(d) : f[k] = f[k - 1] + WordAt(d, k)
     /\ f[WordCount(d)] = Total(d)}

LEMMA TotalsExist ==
  ASSUME NEW d \in Seq(Byte)
  PROVE  Totals(d) # {}
<1>. DEFINE n == WordCount(d)
            W == [k \in 1..n |-> WordAt(d, k)]
            F == [x \in Nat \X Half |-> x[1] + x[2]]
            Defines(f) == f = [k \in 0..n |-> IF k = 0 THEN 0 ELSE f[k - 1] + WordAt(d, k)]
            s == CHOOSE f : Defines(f)
<1>1. n \in Nat /\ W \in [1..n -> Half]
  BY WordAtHalf
<1>2. F \in [Nat \X Half -> Nat]
  <2>1. ASSUME NEW x \in Nat \X Half PROVE x[1] + x[2] \in Nat
    <3>1. x[1] \in Nat /\ x[2] \in Half
      OBVIOUS
    <3>2. x[2] \in Nat
      BY <3>1 DEF Half
    <3>. QED
      BY <3>1, <3>2
  <2>. QED
    BY <2>1
<1>3. Sums(Nat, W, F, n) # {}
  <2>. HIDE DEF n, W, F
  <2>. QED
    BY <1>1, <1>2, SumsExist
<1>4. PICK f : f \in Sums(Nat, W, F, n)
  BY <1>3
<1>5. /\ f \in [0..n -> Nat] /\ f[0] = 0
      /\ \A k \in 1..n : f[k] = F[<<f[k - 1], W[k]>>]
  BY <1>4 DEF Sums
<1>6. ASSUME NEW k \in 1..n PROVE f[k] = f[k - 1] + WordAt(d, k)
  <2>1. f[k - 1] \in Nat /\ WordAt(d, k) \in Half /\ W[k] = WordAt(d, k)
    BY <1>1, <1>5, WordAtHalf
  <2>2. <<f[k - 1], W[k]>> \in Nat \X Half
    BY <2>1
  <2>. QED
    BY <1>5, <2>1, <2>2
<1>7. Defines(f)
  <2>1. ASSUME NEW k \in 0..n
        PROVE  f[k] = IF k = 0 THEN 0 ELSE f[k - 1] + WordAt(d, k)
    BY <1>5, <1>6, <2>1
  <2>. QED
    BY <1>5, <2>1
<1>8. Defines(s)
  <2>. HIDE DEF Defines
  <2>. QED
    BY <1>7
<1>9. Total(d) = s[n]
  BY DEF Total
<1>10. s = f
  <2>. HIDE DEF s
  <2>1. DOMAIN s = 0..n /\ DOMAIN f = 0..n
    BY <1>5, <1>8
  <2>2. \A k \in 0..n : s[k] = IF k = 0 THEN 0 ELSE s[k - 1] + WordAt(d, k)
    BY <1>8
  <2>. DEFINE T == {k \in Nat : k <= n => s[k] = f[k]}
  <2>3. 0 \in T
    BY <1>1, <1>5, <2>2
  <2>4. ASSUME NEW k \in Nat, k \in T PROVE k + 1 \in T
    <3>. SUFFICES ASSUME k + 1 <= n PROVE s[k + 1] = f[k + 1]
      OBVIOUS
    <3>1. k + 1 \in 1..n /\ k + 1 \in 0..n /\ k + 1 # 0 /\ (k + 1) - 1 = k /\ k <= n
      BY <1>1
    <3>2. s[k + 1] = s[k] + WordAt(d, k + 1)
      BY <2>2, <3>1
    <3>3. f[k + 1] = f[k] + WordAt(d, k + 1)
      BY <1>6, <3>1
    <3>. QED
      BY <2>4, <3>1, <3>2, <3>3
  <2>5. Nat \subseteq T
    <3>. HIDE DEF T
    <3>. QED
      BY <2>3, <2>4, SetInduction
  <2>6. \A k \in 0..n : s[k] = f[k]
    BY <1>1, <2>5
  <2>7. s = [k \in 0..n |-> s[k]] /\ f = [k \in 0..n |-> f[k]]
    <3>1. s = [k \in 0..n |-> IF k = 0 THEN 0 ELSE s[k - 1] + WordAt(d, k)]
      BY <1>8
    <3>. QED
      BY <1>5, <2>2, <3>1
  <2>. QED
    BY <2>6, <2>7
<1>. HIDE DEF s
<1>11. f \in Totals(d)
  BY <1>5, <1>6, <1>9, <1>10 DEF Totals
<1>. QED
  BY <1>11

(* Two totals are the same number in one's complement: they differ by a      *)
(* multiple of 65535, and 0 is only the same as itself.                      *)
Same(t, n) == (n = 0 <=> t = 0) /\ \E q \in Nat : t = 65535 * q + n

Folded(t, n) == n \in Half /\ Same(t, n)

Norm(t) == IF t = 0 THEN 0 ELSE ((t - 1) % 65535) + 1

LEMMA SameBy ==
  ASSUME NEW t \in Nat, NEW n \in Nat, NEW q \in Int, n <= 65535, n = 0 <=> t = 0, t = 65535 * q + n
  PROVE  Same(t, n)
<1>1. CASE t = 0
  <2>1. t = 65535 * 0 + n
    BY <1>1
  <2>. QED
    BY <1>1, <2>1 DEF Same
<1>2. CASE t # 0
  <2>1. q \in Nat
    BY <1>2
  <2>. QED
    BY <1>2, <2>1 DEF Same
<1>. QED
  BY <1>1, <1>2

LEMMA SameTransitive ==
  ASSUME NEW t \in Nat, NEW m \in Nat, NEW n \in Nat, Same(t, m), Same(m, n)
  PROVE  Same(t, n)
<1>1. PICK p \in Nat : t = 65535 * p + m
  BY DEF Same
<1>2. PICK q \in Nat : m = 65535 * q + n
  BY DEF Same
<1>3. p + q \in Nat /\ t = 65535 * (p + q) + n
  BY <1>1, <1>2
<1>4. n = 0 <=> t = 0
  BY DEF Same
<1>. QED
  BY <1>3, <1>4 DEF Same

LEMMA SamePlus ==
  ASSUME NEW t \in Nat, NEW m \in Nat, NEW w \in Nat, Same(t, m)
  PROVE  Same(t + w, m + w)
<1>1. PICK p \in Nat : t = 65535 * p + m
  BY DEF Same
<1>2. t + w = 65535 * p + (m + w)
  BY <1>1
<1>3. m + w = 0 <=> t + w = 0
  BY DEF Same
<1>. QED
  BY <1>2, <1>3 DEF Same

LEMMA FoldedUnique ==
  ASSUME NEW t \in Nat, NEW n, NEW m, Folded(t, n), Folded(t, m)
  PROVE  n = m
<1>1. n \in Nat /\ m \in Nat /\ n <= 65535 /\ m <= 65535 /\ (n = 0 <=> t = 0) /\ (m = 0 <=> t = 0)
  BY DEF Folded, Same, Half
<1>2. PICK q \in Nat : t = 65535 * q + n
  BY DEF Folded, Same
<1>3. PICK p \in Nat : t = 65535 * p + m
  BY DEF Folded, Same
<1>4. CASE t = 0
  BY <1>1, <1>4
<1>5. CASE t # 0
  <2>1. 1 <= n /\ 1 <= m
    BY <1>1, <1>5
  <2>2. p = q
    BY <1>1, <1>2, <1>3, <2>1
  <2>. QED
    BY <1>1, <1>2, <1>3, <2>2
<1>. QED
  BY <1>4, <1>5

LEMMA NormFolded ==
  ASSUME NEW t \in Nat
  PROVE  Folded(t, Norm(t))
<1>1. CASE t = 0
  <2>1. Norm(t) = 0 /\ t = 65535 * 0 + 0 /\ 0 \in Half
    BY <1>1 DEF Norm, Half
  <2>. QED
    BY <1>1, <2>1 DEF Folded, Same
<1>2. CASE t # 0
  <2>. DEFINE r == (t - 1) % 65535
              q == (t - 1) \div 65535
  <2>1. \A w \in Int : /\ w \div 65535 \in Int /\ w % 65535 \in Nat /\ w % 65535 <= 65534
                       /\ w = 65535 * (w \div 65535) + (w % 65535)
    OBVIOUS
  <2>2. t - 1 \in Int
    OBVIOUS
  <2>3. q \in Int /\ r \in Nat /\ r <= 65534 /\ t - 1 = 65535 * q + r
    BY <2>1, <2>2
  <2>4. Norm(t) = r + 1
    BY <1>2 DEF Norm
  <2>. HIDE DEF r, q
  <2>5. r + 1 \in Nat /\ r + 1 <= 65535 /\ (r + 1 = 0 <=> t = 0) /\ t = 65535 * q + (r + 1)
    BY <1>2, <2>3
  <2>6. Same(t, r + 1)
    BY <2>3, <2>5, SameBy
  <2>7. r + 1 \in Half
    BY <2>5 DEF Half
  <2>. QED
    BY <2>4, <2>6, <2>7 DEF Folded
<1>. QED
  BY <1>1, <1>2

(* Folding keeps it, and brings 32 bits to 16 in two steps.                  *)
Twice16 == {n \in Nat : n <= 131070}
Word32  == {n \in Nat : n <= 4294967295}

LEMMA FoldOnce ==
  ASSUME NEW t \in Nat
  PROVE  /\ Fold(t) \in Nat /\ Same(t, Fold(t))
         /\ t \in Twice16 => Fold(t) \in Half
         /\ t \in Word32 => Fold(t) \in Twice16
<1>. DEFINE a == t \div 65536
            b == t % 65536
<1>1. a \in Int /\ b \in Nat /\ b <= 65535 /\ t = 65536 * a + b
  BY Divided
<1>2. Fold(t) = b + a
  BY DEF Fold
<1>. HIDE DEF a, b
<1>3. a \in Nat
  BY <1>1
<1>4. t = 65535 * a + Fold(t) /\ Fold(t) \in Nat /\ (Fold(t) = 0 <=> t = 0)
  BY <1>1, <1>2, <1>3
<1>5. Same(t, Fold(t))
  BY <1>3, <1>4 DEF Same
<1>6. ASSUME t \in Twice16 PROVE Fold(t) \in Half
  <2>1. t <= 131070
    BY <1>6 DEF Twice16
  <2>2. a <= 1
    BY <1>1, <1>3, <2>1
  <2>3. Fold(t) <= 65535
    BY <1>1, <1>2, <1>3, <2>1, <2>2
  <2>. QED
    BY <1>4, <2>3 DEF Half
<1>7. ASSUME t \in Word32 PROVE Fold(t) \in Twice16
  <2>1. t <= 4294967295
    BY <1>7 DEF Word32
  <2>2. a <= 65535
    BY <1>1, <1>3, <2>1
  <2>3. Fold(t) <= 131070
    BY <1>1, <1>2, <1>3, <2>2
  <2>. QED
    BY <1>4, <2>3 DEF Twice16
<1>. QED
  BY <1>4, <1>5, <1>6, <1>7

(* The carry folded at every word, and folded in the end.                    *)
LEMMA FoldedStep ==
  ASSUME NEW t \in Nat, NEW w \in Half, NEW m, Folded(t, m)
  PROVE  Folded(t + w, AddWord(m, w))
<1>1. m \in Nat /\ w \in Nat /\ Same(t, m)
  BY DEF Folded, Half
<1>2. m + w \in Nat /\ m + w \in Twice16 /\ t + w \in Nat
  BY <1>1 DEF Folded, Half, Twice16
<1>3. Same(t + w, m + w)
  BY <1>1, SamePlus
<1>4. Fold(m + w) \in Nat /\ Fold(m + w) \in Half /\ Same(m + w, Fold(m + w))
  BY <1>2, FoldOnce
<1>5. Same(t + w, Fold(m + w))
  BY <1>2, <1>3, <1>4, SameTransitive
<1>. QED
  BY <1>4, <1>5 DEF Folded, AddWord

LEMMA FoldedLate ==
  ASSUME NEW t \in Word32
  PROVE  Folded(t, Fold(Fold(t)))
<1>1. t \in Nat
  BY DEF Word32
<1>2. Fold(t) \in Nat /\ Fold(t) \in Twice16 /\ Same(t, Fold(t))
  BY <1>1, FoldOnce
<1>3. Fold(Fold(t)) \in Nat /\ Fold(Fold(t)) \in Half /\ Same(Fold(t), Fold(Fold(t)))
  BY <1>2, FoldOnce
<1>4. Same(t, Fold(Fold(t)))
  BY <1>1, <1>2, <1>3, SameTransitive
<1>. QED
  BY <1>3, <1>4 DEF Folded

(* What the recursive definitions add up to.                                 *)
LEMMA SumFolded ==
  ASSUME NEW d \in Seq(Byte)
  PROVE  Total(d) \in Nat /\ Folded(Total(d), SumOfWords(d))
<1>. DEFINE n == WordCount(d)
            Defines(g) == g = [k \in 0..n |-> IF k = 0 THEN 0 ELSE AddWord(g[k - 1], WordAt(d, k))]
            s == CHOOSE g : Defines(g)
<1>1. n \in Nat /\ \A k \in 1..n : WordAt(d, k) \in Half
  BY WordAtHalf
<1>2. PICK f \in Totals(d) : TRUE
  BY TotalsExist
<1>3. /\ f \in [0..n -> Nat] /\ f[0] = 0 /\ f[n] = Total(d)
      /\ \A k \in 1..n : f[k] = f[k - 1] + WordAt(d, k)
  BY <1>2 DEF Totals
<1>. HIDE DEF n
<1>. DEFINE g == [k \in 0..n |-> Norm(f[k])]
<1>4. ASSUME NEW k \in 1..n PROVE Norm(f[k]) = AddWord(Norm(f[k - 1]), WordAt(d, k))
  <2>1. k - 1 \in 0..n /\ k \in 0..n
    BY <1>1
  <2>2. f[k - 1] \in Nat /\ f[k] \in Nat /\ WordAt(d, k) \in Half /\ f[k] = f[k - 1] + WordAt(d, k)
    BY <1>1, <1>3, <2>1
  <2>3. Folded(f[k - 1], Norm(f[k - 1])) /\ Folded(f[k], Norm(f[k]))
    BY <2>2, NormFolded
  <2>4. Folded(f[k], AddWord(Norm(f[k - 1]), WordAt(d, k)))
    BY <2>2, <2>3, FoldedStep
  <2>. QED
    BY <2>2, <2>3, <2>4, FoldedUnique
<1>5. Defines(g)
  <2>1. ASSUME NEW k \in 0..n
        PROVE  Norm(f[k]) = IF k = 0 THEN 0 ELSE AddWord(g[k - 1], WordAt(d, k))
    <3>1. CASE k = 0
      BY <1>3, <3>1 DEF Norm
    <3>2. CASE k # 0
      <4>1. k \in 1..n /\ k - 1 \in 0..n
        BY <1>1, <3>2
      <4>2. g[k - 1] = Norm(f[k - 1])
        BY <4>1
      <4>. QED
        BY <1>4, <3>2, <4>1, <4>2
    <3>. QED
      BY <3>1, <3>2
  <2>. QED
    BY <2>1
<1>6. Defines(s)
  <2>. HIDE DEF Defines, g
  <2>. QED
    BY <1>5
<1>7. SumOfWords(d) = s[n]
  BY DEF SumOfWords, n
<1>. HIDE DEF s, g
<1>. DEFINE T == {k \in Nat : k <= n => s[k] = Norm(f[k])}
<1>8. 0 \in T
  <2>1. s[0] = 0 /\ Norm(f[0]) = 0
    BY <1>1, <1>3, <1>6 DEF Norm
  <2>. QED
    BY <2>1
<1>9. ASSUME NEW k \in Nat, k \in T PROVE k + 1 \in T
  <2>. SUFFICES ASSUME k + 1 <= n PROVE s[k + 1] = Norm(f[k + 1])
    OBVIOUS
  <2>1. k + 1 \in 1..n /\ k + 1 \in 0..n /\ k + 1 # 0 /\ (k + 1) - 1 = k /\ k <= n
    BY <1>1
  <2>2. s[k + 1] = AddWord(s[k], WordAt(d, k + 1))
    BY <1>6, <2>1
  <2>3. Norm(f[k + 1]) = AddWord(Norm(f[k]), WordAt(d, k + 1))
    BY <1>4, <2>1
  <2>. QED
    BY <1>9, <2>1, <2>2, <2>3
<1>10. Nat \subseteq T
  <2>. HIDE DEF T
  <2>. QED
    BY <1>8, <1>9, SetInduction
<1>11. s[n] = Norm(f[n]) /\ f[n] \in Nat
  BY <1>1, <1>3, <1>10
<1>. QED
  BY <1>3, <1>7, <1>11, NormFolded

(* Up to 65535 words a total takes 32 bits.                                  *)
LEMMA TotalFits ==
  ASSUME NEW d \in Seq(Byte), Len(d) <= 131070
  PROVE  Total(d) \in Word32
<1>. DEFINE n == WordCount(d)
<1>1. n \in Nat /\ \A k \in 1..n : WordAt(d, k) \in Half
  BY WordAtHalf
<1>2. n <= 65535
  <2>1. \A m \in Nat : m <= 131070 => (m + 1) \div 2 <= 65535
    OBVIOUS
  <2>. QED
    BY <2>1 DEF WordCount
<1>3. PICK f \in Totals(d) : TRUE
  BY TotalsExist
<1>4. /\ f \in [0..n -> Nat] /\ f[0] = 0 /\ f[n] = Total(d)
      /\ \A k \in 1..n : f[k] = f[k - 1] + WordAt(d, k)
  BY <1>3 DEF Totals
<1>. HIDE DEF n
<1>. DEFINE T == {k \in Nat : k <= n => f[k] <= 65535 * k}
<1>5. 0 \in T
  BY <1>4
<1>6. ASSUME NEW k \in Nat, k \in T PROVE k + 1 \in T
  <2>. SUFFICES ASSUME k + 1 <= n PROVE f[k + 1] <= 65535 * (k + 1)
    OBVIOUS
  <2>1. k + 1 \in 1..n /\ k \in 0..n /\ (k + 1) - 1 = k /\ k <= n
    BY <1>1
  <2>2. f[k + 1] = f[k] + WordAt(d, k + 1) /\ WordAt(d, k + 1) \in Half /\ f[k] \in Nat
    BY <1>1, <1>4, <2>1
  <2>3. WordAt(d, k + 1) \in Nat /\ WordAt(d, k + 1) <= 65535
    BY <2>2 DEF Half
  <2>4. f[k] <= 65535 * k
    BY <1>6, <2>1
  <2>. QED
    BY <2>2, <2>3, <2>4
<1>7. Nat \subseteq T
  <2>. HIDE DEF T
  <2>. QED
    BY <1>5, <1>6, SetInduction
<1>8. f[n] \in Nat /\ f[n] <= 65535 * n
  BY <1>1, <1>4, <1>7
<1>9. f[n] <= 4294967295
  BY <1>1, <1>2, <1>8
<1>. QED
  BY <1>4, <1>8, <1>9 DEF Word32

(* Both sums are the same number: lesson 12 accepts a checksum exactly when  *)
(* lessons 03 to 06 do.                                                      *)
THEOREM SumsAgree ==
  ASSUME NEW d \in Seq(Byte), Len(d) <= 131070
  PROVE  LateSum(d) = SumOfWords(d)
<1>1. Total(d) \in Nat /\ Total(d) \in Word32 /\ Folded(Total(d), SumOfWords(d))
  BY SumFolded, TotalFits
<1>2. Folded(Total(d), LateSum(d))
  BY <1>1, FoldedLate DEF LateSum
<1>. QED
  BY <1>1, <1>2, FoldedUnique

(* A checksum is a word, and 0 exactly when the sum is 65535.                *)
LEMMA ChecksumHalf ==
  ASSUME NEW d \in Seq(Byte)
  PROVE  /\ SumOfWords(d) \in Half /\ InternetChecksum(d) \in Half
         /\ InternetChecksum(d) = 65535 - SumOfWords(d)
         /\ InternetChecksum(d) = 0 <=> SumOfWords(d) = 65535
<1>1. SumOfWords(d) \in Half
  BY SumFolded DEF Folded
<1>2. SumOfWords(d) \in Nat /\ SumOfWords(d) <= 65535
  BY <1>1 DEF Half
<1>3. InternetChecksum(d) = 65535 - SumOfWords(d)
  BY DEF InternetChecksum, Complement
<1>4. InternetChecksum(d) \in Nat /\ InternetChecksum(d) <= 65535
  BY <1>2, <1>3
<1>5. InternetChecksum(d) = 0 <=> SumOfWords(d) = 65535
  BY <1>2, <1>3
<1>6. InternetChecksum(d) \in Half
  BY <1>4 DEF Half
<1>. QED
  BY <1>1, <1>3, <1>5, <1>6

-----------------------------------------------------------------------------
(* A word that is written moves the total by the difference.                 *)

LEMMA WordsOfPut ==
  ASSUME NEW d \in Seq(Byte), NEW j \in Nat, 2 * j + 2 <= Len(d), NEW w \in Half
  PROVE  /\ WordCount(Put(d, 2 * j, w)) = WordCount(d)
         /\ j + 1 \in 1..WordCount(d)
         /\ WordAt(d, j + 1) = Word(d, 2 * j)
         /\ \A k \in 1..WordCount(d) :
              WordAt(Put(d, 2 * j, w), k) = IF k = j + 1 THEN w ELSE WordAt(d, k)
<1>. DEFINE p == Put(d, 2 * j, w)
            o == 2 * j
<1>1. o \in Nat /\ o + 2 <= Len(d) /\ Len(d) \in Nat
  OBVIOUS
<1>2. /\ p \in Seq(Byte) /\ Len(p) = Len(d) /\ Word(p, o) = w
      /\ \A i \in 0..(Len(d) - 1) :
           At(p, i) = IF i = o THEN w \div 256 ELSE IF i = o + 1 THEN w % 256 ELSE At(d, i)
  BY <1>1, PutBytes
<1>. HIDE DEF p
<1>3. WordCount(p) = WordCount(d)
  BY <1>2 DEF WordCount
<1>4. WordCount(d) \in Nat /\ (\A k \in 1..WordCount(d) : 2 * k - 1 <= Len(d)) /\ j + 1 <= WordCount(d)
  BY <1>1 DEF WordCount
<1>5. ASSUME NEW e \in Seq(Byte), NEW k \in 1..WordCount(d), Len(e) = Len(d)
      PROVE  WordAt(e, k) = 256 * At(e, 2 * k - 2) + (IF 2 * k <= Len(d) THEN At(e, 2 * k - 1) ELSE 0)
  <2>1. (2 * k - 2) + 1 = 2 * k - 1 /\ (2 * k - 1) + 1 = 2 * k
    OBVIOUS
  <2>. QED
    BY <1>5, <2>1 DEF WordAt, At
<1>6. ASSUME NEW e \in Seq(Byte), Len(e) = Len(d)
      PROVE  WordAt(e, j + 1) = Word(e, o)
  <2>1. j + 1 \in 1..WordCount(d) /\ 2 * (j + 1) <= Len(d) /\ 2 * (j + 1) - 2 = o /\ 2 * (j + 1) - 1 = o + 1
    BY <1>1, <1>4
  <2>2. WordAt(e, j + 1) = 256 * At(e, o) + At(e, o + 1)
    BY <1>5, <1>6, <2>1
  <2>. QED
    BY <2>2 DEF Word
<1>7. ASSUME NEW k \in 1..WordCount(d), k # j + 1
      PROVE  WordAt(p, k) = WordAt(d, k)
  <2>1. 2 * k - 2 \in 0..(Len(d) - 1) /\ 2 * k - 2 # o /\ 2 * k - 2 # o + 1
    BY <1>4, <1>7
  <2>2. At(p, 2 * k - 2) = At(d, 2 * k - 2)
    BY <1>2, <2>1
  <2>3. CASE 2 * k <= Len(d)
    <3>1. 2 * k - 1 \in 0..(Len(d) - 1) /\ 2 * k - 1 # o /\ 2 * k - 1 # o + 1
      BY <1>7, <2>3
    <3>2. At(p, 2 * k - 1) = At(d, 2 * k - 1)
      BY <1>2, <3>1
    <3>. QED
      BY <1>2, <1>5, <2>2, <3>2
  <2>4. CASE ~(2 * k <= Len(d))
    BY <1>2, <1>5, <2>2, <2>4
  <2>. QED
    BY <2>3, <2>4
<1>8. WordAt(p, j + 1) = w /\ WordAt(d, j + 1) = Word(d, o) /\ j + 1 \in 1..WordCount(d)
  BY <1>2, <1>4, <1>6
<1>. QED
  BY <1>3, <1>7, <1>8 DEF p

LEMMA PutTotal ==
  ASSUME NEW d \in Seq(Byte), NEW j \in Nat, 2 * j + 2 <= Len(d), NEW w \in Half
  PROVE  Total(Put(d, 2 * j, w)) + Word(d, 2 * j) = Total(d) + w
<1>. DEFINE p == Put(d, 2 * j, w)
            n == WordCount(d)
            old == Word(d, 2 * j)
<1>1. /\ WordCount(p) = n /\ j + 1 \in 1..n /\ WordAt(d, j + 1) = old
      /\ \A k \in 1..n : WordAt(p, k) = IF k = j + 1 THEN w ELSE WordAt(d, k)
  BY WordsOfPut
<1>2. n \in Nat /\ \A k \in 1..n : WordAt(d, k) \in Half
  BY WordAtHalf
<1>3. p \in Seq(Byte)
  BY PutBytes
<1>4. PICK f \in Totals(d) : TRUE
  BY TotalsExist
<1>5. PICK g \in Totals(p) : TRUE
  BY <1>3, TotalsExist
<1>. HIDE DEF p, n, old
<1>6. /\ f \in [0..n -> Nat] /\ f[0] = 0 /\ f[n] = Total(d)
      /\ \A k \in 1..n : f[k] = f[k - 1] + WordAt(d, k)
  BY <1>4 DEF Totals, n
<1>7. /\ g \in [0..n -> Nat] /\ g[0] = 0 /\ g[n] = Total(p)
      /\ \A k \in 1..n : g[k] = g[k - 1] + WordAt(p, k)
  BY <1>1, <1>5 DEF Totals
<1>8. w \in Nat /\ old \in Nat
  <2>1. old \in Half
    BY <1>1, <1>2
  <2>. QED
    BY <2>1 DEF Half
<1>. DEFINE T == {k \in Nat : k <= n => IF k <= j THEN g[k] = f[k] ELSE g[k] + old = f[k] + w}
<1>9. 0 \in T
  BY <1>6, <1>7
<1>10. ASSUME NEW k \in Nat, k \in T PROVE k + 1 \in T
  <2>. SUFFICES ASSUME k + 1 <= n
                PROVE  IF k + 1 <= j THEN g[k + 1] = f[k + 1] ELSE g[k + 1] + old = f[k + 1] + w
    OBVIOUS
  <2>1. k + 1 \in 1..n /\ k \in 0..n /\ (k + 1) - 1 = k /\ k <= n
    BY <1>2
  <2>2. f[k + 1] = f[k] + WordAt(d, k + 1) /\ g[k + 1] = g[k] + WordAt(p, k + 1)
    BY <1>6, <1>7, <2>1
  <2>3. f[k] \in Nat /\ g[k] \in Nat
    BY <1>6, <1>7, <2>1
  <2>4. IF k <= j THEN g[k] = f[k] ELSE g[k] + old = f[k] + w
    BY <1>10, <2>1
  <2>5. CASE k = j
    <3>1. WordAt(p, k + 1) = w /\ WordAt(d, k + 1) = old
      BY <1>1, <2>5
    <3>. QED
      BY <1>8, <2>2, <2>3, <2>4, <2>5, <3>1
  <2>6. CASE k # j
    <3>1. WordAt(p, k + 1) = WordAt(d, k + 1)
      <4>1. k + 1 # j + 1
        BY <2>6
      <4>. QED
        BY <1>1, <2>1, <4>1
    <3>2. WordAt(d, k + 1) \in Nat /\ j \in Nat
      BY <1>2, <2>1 DEF Half
    <3>3. CASE k < j
      BY <2>2, <2>3, <2>4, <3>1, <3>2, <3>3
    <3>4. CASE k > j
      <4>1. ~(k <= j) /\ ~(k + 1 <= j)
        BY <3>4
      <4>2. g[k] + old = f[k] + w
        BY <2>4, <4>1
      <4>3. \A x, y, u \in Nat : x + old = y + w => (x + u) + old = (y + u) + w
        BY <1>8
      <4>4. (g[k] + WordAt(d, k + 1)) + old = (f[k] + WordAt(d, k + 1)) + w
        BY <2>3, <3>2, <4>2, <4>3
      <4>5. g[k + 1] + old = f[k + 1] + w
        BY <2>2, <3>1, <4>4
      <4>. QED
        BY <4>1, <4>5
    <3>. QED
      BY <2>6, <3>3, <3>4
  <2>. QED
    BY <2>5, <2>6
<1>11. Nat \subseteq T
  <2>. HIDE DEF T
  <2>. QED
    BY <1>9, <1>10, SetInduction
<1>12. n > j
  BY <1>1, <1>2
<1>13. g[n] + old = f[n] + w
  BY <1>2, <1>11, <1>12
<1>. QED
  BY <1>6, <1>7, <1>13 DEF p, old

(* A checksum written where there was 0 verifies; so does NeverZero's.       *)
LEMMA ChecksumVerifies ==
  ASSUME NEW d \in Seq(Byte), NEW j \in Nat, 2 * j + 2 <= Len(d), Word(d, 2 * j) = 0
  PROVE  /\ InternetChecksum(Put(d, 2 * j, InternetChecksum(d))) = 0
         /\ InternetChecksum(Put(d, 2 * j, NeverZero(InternetChecksum(d)))) = 0
<1>. DEFINE t == Total(d)
            m == SumOfWords(d)
            c == InternetChecksum(d)
<1>1. t \in Nat /\ m \in Half /\ Same(t, m)
  BY SumFolded DEF Folded
<1>2. c \in Half /\ c = 65535 - m
  BY ChecksumHalf
<1>. HIDE DEF t, m, c
<1>3. m \in Nat /\ c \in Nat /\ m + c = 65535 /\ 65535 \in Half
  BY <1>1, <1>2 DEF Half
<1>4. ASSUME NEW w \in Half, Same(t + w, 65535)
      PROVE  InternetChecksum(Put(d, 2 * j, w)) = 0
  <2>. DEFINE p == Put(d, 2 * j, w)
  <2>1. p \in Seq(Byte)
    BY PutBytes
  <2>2. Total(p) + 0 = t + w
    BY PutTotal DEF t
  <2>3. Total(p) \in Nat /\ Folded(Total(p), SumOfWords(p))
    BY <2>1, SumFolded
  <2>. HIDE DEF p
  <2>4. Total(p) = t + w
    BY <2>2, <2>3
  <2>5. Folded(Total(p), 65535)
    BY <1>3, <1>4, <2>4 DEF Folded
  <2>6. SumOfWords(p) = 65535
    BY <2>3, <2>5, FoldedUnique
  <2>. QED
    BY <2>1, <2>6, ChecksumHalf DEF p
<1>5. Same(t + c, 65535)
  <2>1. Same(t + c, m + c)
    BY <1>1, <1>3, SamePlus
  <2>. QED
    BY <1>3, <2>1
<1>6. NeverZero(c) \in Half /\ Same(t + NeverZero(c), 65535)
  <2>1. CASE c # 0
    BY <1>2, <1>5, <2>1 DEF NeverZero
  <2>2. CASE c = 0
    <3>1. m = 65535 /\ NeverZero(c) = 65535
      BY <1>3, <2>2 DEF NeverZero
    <3>2. Same(t + 65535, m + 65535)
      BY <1>1, <1>3, SamePlus
    <3>3. Same(m + 65535, 65535)
      <4>1. m + 65535 \in Nat /\ 65535 \in Nat /\ m + 65535 = 65535 * 1 + 65535 /\ 1 \in Nat
        BY <3>1
      <4>. QED
        BY <4>1, <3>1 DEF Same
    <3>4. t + 65535 \in Nat /\ m + 65535 \in Nat /\ 65535 \in Nat
      BY <1>1, <1>3
    <3>5. Same(t + 65535, 65535)
      BY <3>2, <3>3, <3>4, SameTransitive
    <3>. QED
      BY <1>3, <3>1, <3>5
  <2>. QED
    BY <2>1, <2>2
<1>7. InternetChecksum(Put(d, 2 * j, c)) = 0
  BY <1>2, <1>4, <1>5
<1>8. InternetChecksum(Put(d, 2 * j, NeverZero(c))) = 0
  BY <1>4, <1>6
<1>. QED
  BY <1>7, <1>8 DEF c

(* A word that is changed is seen, unless 0 became 65535 or 65535 became 0.  *)
SameSum(old, new) == new = old \/ {old, new} = {0, 65535}

LEMMA ChangeSeen ==
  ASSUME NEW d \in Seq(Byte), NEW j \in Nat, 2 * j + 2 <= Len(d), NEW w \in Half,
         InternetChecksum(d) = 0, InternetChecksum(Put(d, 2 * j, w)) = 0
  PROVE  SameSum(Word(d, 2 * j), w)
<1>. DEFINE p == Put(d, 2 * j, w)
            old == Word(d, 2 * j)
<1>1. p \in Seq(Byte)
  BY PutBytes
<1>2. Total(p) + old = Total(d) + w
  BY PutTotal
<1>3. SumOfWords(d) = 65535 /\ SumOfWords(p) = 65535
  BY <1>1, ChecksumHalf
<1>4. old \in Half
  <2>1. 2 * j \in Nat
    OBVIOUS
  <2>. QED
    BY <2>1, WordHalf
<1>. HIDE DEF p, old
<1>5. Total(d) \in Nat /\ Total(p) \in Nat /\ Same(Total(d), 65535) /\ Same(Total(p), 65535)
  BY <1>1, <1>3, SumFolded DEF Folded
<1>6. PICK a \in Nat : Total(d) = 65535 * a + 65535
  BY <1>5 DEF Same
<1>7. PICK b \in Nat : Total(p) = 65535 * b + 65535
  BY <1>5 DEF Same
<1>8. w \in Nat /\ old \in Nat /\ w <= 65535 /\ old <= 65535
  BY <1>4 DEF Half
<1>9. 65535 * b + old = 65535 * a + w
  BY <1>2, <1>6, <1>7, <1>8
<1>10. a = b \/ a = b + 1 \/ b = a + 1
  BY <1>8, <1>9
<1>11. w = old \/ (w = 0 /\ old = 65535) \/ (w = 65535 /\ old = 0)
  BY <1>8, <1>9, <1>10
<1>. QED
  BY <1>11 DEF old, SameSum

-----------------------------------------------------------------------------
(* Reports.                                                                  *)

Report(code, layers, diagnostics, parsed, payload, checked, valid) ==
  [status |-> code, layers |-> layers, diagnostics |-> diagnostics, parsed_length |-> parsed,
   payload_length |-> payload, checksums_checked |-> checked, checksums_valid |-> valid]

LayerNames == {"ETHERNET", "ARP", "IPV4", "ICMP", "UDP", "TCP", "DNS", "HTTP"}

IsReport(r) ==
  \E code, diagnostics, parsed, payload, checked, valid : \E layers \in Seq(LayerNames) :
    r = Report(code, layers, diagnostics, parsed, payload, checked, valid)

(* A report that is sound up to n layers.                                    *)
SoFar(r, n) == IsReport(r) /\ r.status = "OK" /\ Len(r.layers) = n

(* A report accepts a frame where the parsers of lessons 02 to 06 should.    *)
Accepts(r) == ~Mismatched(r) /\ (r.status = "OK" \/ LastLayer(r) \in {"DNS", "HTTP"})

(* Reports on the same layers, with or without a mismatch.                   *)
Alike(x, r) == IsReport(x) /\ x.layers = r.layers /\ (Mismatched(x) <=> Mismatched(r))

LEMMA LayerAdded ==
  ASSUME NEW r, IsReport(r), Len(r.layers) < 4, NEW layer \in LayerNames
  PROVE  LET x == AddLayer(r, layer)
         IN  /\ IsReport(x) /\ x.status = r.status /\ Len(x.layers) = Len(r.layers) + 1
             /\ LastLayer(x) = layer /\ (Mismatched(x) <=> Mismatched(r))
             /\ x.payload_length = r.payload_length
<1>. DEFINE x == AddLayer(r, layer)
<1>1. PICK s, g, p, y, c, v : \E l \in Seq(LayerNames) : r = Report(s, l, g, p, y, c, v)
  BY DEF IsReport
<1>2. PICK l \in Seq(LayerNames) : r = Report(s, l, g, p, y, c, v)
  BY <1>1
<1>3. /\ r.status = s /\ r.layers = l /\ r.diagnostics = g /\ r.payload_length = y
      /\ x = Report(s, Append(l, layer), g, p, y, c, v)
  BY <1>2 DEF AddLayer, Report
<1>. HIDE DEF x
<1>4. Append(l, layer) \in Seq(LayerNames) /\ Len(Append(l, layer)) = Len(l) + 1
      /\ Append(l, layer)[Len(l) + 1] = layer
  OBVIOUS
<1>5. IsReport(x) /\ x.layers = Append(l, layer) /\ x.status = s /\ x.diagnostics = g /\ x.payload_length = y
  BY <1>3, <1>4 DEF IsReport, Report
<1>6. LastLayer(x) = layer
  BY <1>4, <1>5 DEF LastLayer
<1>. QED
  BY <1>3, <1>4, <1>5, <1>6 DEF x, Mismatched

LEMMA BlankReport == SoFar(Blank, 0) /\ ~Mismatched(Blank)
<1>1. Blank = Report("OK", <<>>, {}, 0, 0, 0, 0)
  BY DEF Blank, Report
<1>2. \E layers \in Seq(LayerNames) : Blank = Report("OK", layers, {}, 0, 0, 0, 0)
  <2>1. <<>> \in Seq(LayerNames)
    OBVIOUS
  <2>. QED
    BY <1>1, <2>1
<1>3. IsReport(Blank)
  BY <1>2 DEF IsReport
<1>4. Blank.status = "OK" /\ Blank.layers = <<>> /\ Blank.diagnostics = {}
  BY <1>1 DEF Report
<1>5. Len(Blank.layers) = 0
  BY <1>4
<1>. QED
  BY <1>3, <1>4, <1>5 DEF SoFar, Mismatched

LEMMA LayerNext ==
  ASSUME NEW r, SoFar(r, 0) \/ SoFar(r, 1) \/ SoFar(r, 2) \/ SoFar(r, 3), NEW layer \in LayerNames
  PROVE  LET x == AddLayer(r, layer)
         IN  /\ SoFar(r, 0) => SoFar(x, 1)
             /\ SoFar(r, 1) => SoFar(x, 2)
             /\ SoFar(r, 2) => SoFar(x, 3)
             /\ IsReport(x) /\ x.status = "OK" /\ LastLayer(x) = layer
             /\ Mismatched(x) <=> Mismatched(r)
             /\ x.payload_length = r.payload_length
<1>. DEFINE x == AddLayer(r, layer)
            n == Len(r.layers)
            m == Len(x.layers)
<1>1. IsReport(r) /\ r.status = "OK" /\ (n = 0 \/ n = 1 \/ n = 2 \/ n = 3) /\ n \in Nat
  <2>1. IsReport(r)
    BY DEF SoFar
  <2>2. r.layers \in Seq(LayerNames)
    BY <2>1 DEF IsReport, Report
  <2>. QED
    BY <2>1, <2>2 DEF SoFar
<1>2. /\ IsReport(x) /\ x.status = "OK" /\ m = n + 1
      /\ LastLayer(x) = layer /\ (Mismatched(x) <=> Mismatched(r))
      /\ x.payload_length = r.payload_length
  <2>. HIDE DEF n
  <2>1. n < 4
    BY <1>1
  <2>. QED
    BY <1>1, <2>1, LayerAdded DEF n
<1>. HIDE DEF x, n, m
<1>3. /\ SoFar(r, 0) => SoFar(x, 1)
      /\ SoFar(r, 1) => SoFar(x, 2)
      /\ SoFar(r, 2) => SoFar(x, 3)
  <2>1. (n = 0 => m = 1) /\ (n = 1 => m = 2) /\ (n = 2 => m = 3)
    BY <1>1, <1>2
  <2>. QED
    BY <1>2, <2>1 DEF SoFar, n, m
<1>. QED
  BY <1>2, <1>3 DEF x

(* A report that was made of another one.                                    *)
LEMMA ReportMade ==
  ASSUME NEW r, IsReport(r), NEW x, NEW s, NEW g, NEW p, NEW y, NEW c, NEW v,
         x = Report(s, r.layers, g, p, y, c, v)
  PROVE  /\ IsReport(x) /\ x.layers = r.layers /\ x.status = s /\ x.payload_length = y
         /\ Mismatched(x) <=> "CHECKSUM_MISMATCH" \in g
<1>1. r.layers \in Seq(LayerNames)
  BY DEF IsReport, Report
<1>2. IsReport(x)
  BY <1>1 DEF IsReport
<1>3. x.layers = r.layers /\ x.status = s /\ x.payload_length = y /\ x.diagnostics = g
  BY DEF Report
<1>. QED
  BY <1>2, <1>3 DEF Mismatched

LEMMA ReportFields ==
  ASSUME NEW r, IsReport(r)
  PROVE  \E s, l, d, p, y, c, v :
           /\ r = Report(s, l, d, p, y, c, v)
           /\ r.status = s /\ r.layers = l /\ r.diagnostics = d /\ r.payload_length = y
           /\ r.checksums_checked = c /\ r.checksums_valid = v
BY DEF IsReport, Report

LEMMA ReportStopped ==
  ASSUME NEW r, IsReport(r), NEW code \in {"TRUNCATED", "MALFORMED"}, NEW parsed
  PROVE  LET x == Stopped(r, code, parsed)
         IN  Alike(x, r) /\ x.status = code /\ x.payload_length = r.payload_length
<1>0. PICK s, l, d, p, y, h, v :
        /\ r = Report(s, l, d, p, y, h, v)
        /\ r.status = s /\ r.layers = l /\ r.diagnostics = d /\ r.payload_length = y
        /\ r.checksums_checked = h /\ r.checksums_valid = v
  BY ReportFields
<1>. DEFINE x == Stopped(r, code, parsed)
            g == r.diagnostics \cup {code}
            a == [r EXCEPT !.status = code]
            b == [a EXCEPT !.diagnostics = g]
<1>1. "CHECKSUM_MISMATCH" \in g <=> Mismatched(r)
  BY DEF Mismatched
<1>2. x = [b EXCEPT !.parsed_length = parsed]
  BY DEF Stopped
<1>. HIDE DEF x, g
<1>3. a = Report(code, l, d, p, y, h, v)
  BY <1>0 DEF Report
<1>. HIDE DEF a
<1>4. b = Report(code, l, g, p, y, h, v)
  BY <1>3 DEF Report
<1>. HIDE DEF b
<1>5. x = Report(code, l, g, parsed, y, h, v)
  BY <1>2, <1>4 DEF Report
<1>6. /\ IsReport(x) /\ x.layers = r.layers /\ x.status = code /\ x.payload_length = r.payload_length
      /\ Mismatched(x) <=> "CHECKSUM_MISMATCH" \in g
  <2>1. x = Report(code, r.layers, g, parsed, y, h, v)
    BY <1>0, <1>5
  <2>2. IsReport(x) /\ x.layers = r.layers /\ x.status = code /\ x.payload_length = y
        /\ (Mismatched(x) <=> "CHECKSUM_MISMATCH" \in g)
    BY <2>1, ReportMade
  <2>. QED
    BY <1>0, <2>2
<1>. QED
  BY <1>1, <1>6 DEF x, Alike

LEMMA ReportUnsupported ==
  ASSUME NEW r, IsReport(r), NEW payload, NEW parsed
  PROVE  LET x == Unsupported(r, payload, parsed)
         IN  Alike(x, r) /\ x.status = r.status /\ x.payload_length = payload
<1>0. PICK s, l, d, p, y, h, v :
        /\ r = Report(s, l, d, p, y, h, v)
        /\ r.status = s /\ r.layers = l /\ r.diagnostics = d /\ r.payload_length = y
        /\ r.checksums_checked = h /\ r.checksums_valid = v
  BY ReportFields
<1>. DEFINE x == Unsupported(r, payload, parsed)
            g == r.diagnostics \cup {"UNSUPPORTED"}
            a == [r EXCEPT !.diagnostics = g]
            b == [a EXCEPT !.payload_length = payload]
<1>1. "CHECKSUM_MISMATCH" \in g <=> Mismatched(r)
  BY DEF Mismatched
<1>2. x = [b EXCEPT !.parsed_length = parsed]
  BY DEF Unsupported
<1>. HIDE DEF x, g
<1>3. a = Report(s, l, g, p, y, h, v)
  BY <1>0 DEF Report
<1>. HIDE DEF a
<1>4. b = Report(s, l, g, p, payload, h, v)
  BY <1>3 DEF Report
<1>. HIDE DEF b
<1>5. x = Report(s, l, g, parsed, payload, h, v)
  BY <1>2, <1>4 DEF Report
<1>6. /\ IsReport(x) /\ x.layers = r.layers /\ x.status = r.status /\ x.payload_length = payload
      /\ Mismatched(x) <=> "CHECKSUM_MISMATCH" \in g
  BY <1>5, <1>0, ReportMade
<1>. QED
  BY <1>1, <1>6 DEF x, Alike

(* A report with another payload length or another parsed length.            *)
WithPayload(r, payload) == [r EXCEPT !.payload_length = payload]
WithParsed(r, parsed)   == [r EXCEPT !.parsed_length = parsed]
WithLengths(r, payload, parsed) == [r EXCEPT !.payload_length = payload, !.parsed_length = parsed]

LEMMA ReportLengths ==
  ASSUME NEW r, IsReport(r), NEW payload, NEW parsed
  PROVE  /\ LET x == WithPayload(r, payload)
            IN  Alike(x, r) /\ x.status = r.status /\ x.payload_length = payload
         /\ LET x == WithParsed(r, parsed)
            IN  Alike(x, r) /\ x.status = r.status /\ x.payload_length = r.payload_length
         /\ LET x == WithLengths(r, payload, parsed)
            IN  Alike(x, r) /\ x.status = r.status /\ x.payload_length = payload
<1>0. PICK s, l, d, p, y, h, v :
        /\ r = Report(s, l, d, p, y, h, v)
        /\ r.status = s /\ r.layers = l /\ r.diagnostics = d /\ r.payload_length = y
        /\ r.checksums_checked = h /\ r.checksums_valid = v
  BY ReportFields
<1>. DEFINE a == [r EXCEPT !.payload_length = payload]
            b == [r EXCEPT !.parsed_length = parsed]
            c == [a EXCEPT !.parsed_length = parsed]
<1>1. a = Report(s, l, d, p, payload, h, v)
  BY <1>0 DEF Report
<1>2. b = Report(s, l, d, parsed, y, h, v)
  BY <1>0 DEF Report
<1>. HIDE DEF a, b
<1>3. c = Report(s, l, d, parsed, payload, h, v)
  BY <1>1 DEF Report
<1>. HIDE DEF c
<1>4. "CHECKSUM_MISMATCH" \in r.diagnostics <=> Mismatched(r)
  BY DEF Mismatched
<1>5. Alike(a, r) /\ a.status = r.status /\ a.payload_length = payload
  BY <1>1, <1>4, <1>0, ReportMade DEF Alike
<1>6. Alike(b, r) /\ b.status = r.status /\ b.payload_length = r.payload_length
  BY <1>2, <1>4, <1>0, ReportMade DEF Alike
<1>7. Alike(c, r) /\ c.status = r.status /\ c.payload_length = payload
  BY <1>3, <1>4, <1>0, ReportMade DEF Alike
<1>. QED
  BY <1>5, <1>6, <1>7 DEF a, b, c, WithPayload, WithParsed, WithLengths

(* A report with a checksum that is right or wrong.                          *)
CountedRight(r) ==
  [[r EXCEPT !.checksums_checked = r.checksums_checked + 1]
     EXCEPT !.checksums_valid = r.checksums_valid + 1]

CountedWrong(r, diagnostic) ==
  [[r EXCEPT !.checksums_checked = r.checksums_checked + 1]
     EXCEPT !.diagnostics = r.diagnostics \cup {"CHECKSUM_MISMATCH", diagnostic}]

LEMMA ReportCounted ==
  ASSUME NEW r, IsReport(r), NEW diagnostic
  PROVE  LET x == CountedRight(r)
             z == CountedWrong(r, diagnostic)
         IN  /\ Alike(x, r) /\ x.status = r.status /\ x.payload_length = r.payload_length
             /\ IsReport(z) /\ z.layers = r.layers /\ Mismatched(z)
             /\ z.status = r.status /\ z.payload_length = r.payload_length
<1>0. PICK s, l, d, p, y, h, v :
        /\ r = Report(s, l, d, p, y, h, v)
        /\ r.status = s /\ r.layers = l /\ r.diagnostics = d /\ r.payload_length = y
        /\ r.checksums_checked = h /\ r.checksums_valid = v
  BY ReportFields
<1>. DEFINE g == r.diagnostics \cup {"CHECKSUM_MISMATCH", diagnostic}
            checked == r.checksums_checked + 1
            valid == r.checksums_valid + 1
            a == [r EXCEPT !.checksums_checked = checked]
            x == [a EXCEPT !.checksums_valid = valid]
            z == [a EXCEPT !.diagnostics = g]
<1>1. "CHECKSUM_MISMATCH" \in r.diagnostics <=> Mismatched(r)
  BY DEF Mismatched
<1>2. "CHECKSUM_MISMATCH" \in g
  OBVIOUS
<1>. HIDE DEF g, checked, valid
<1>3. a = Report(s, l, d, p, y, checked, v)
  BY <1>0 DEF Report
<1>. HIDE DEF a
<1>4. x = Report(s, l, d, p, y, checked, valid)
  BY <1>3 DEF Report
<1>5. z = Report(s, l, g, p, y, checked, v)
  BY <1>3 DEF Report
<1>. HIDE DEF x, z
<1>6. Alike(x, r) /\ x.status = r.status /\ x.payload_length = r.payload_length
  BY <1>0, <1>1, <1>4, ReportMade DEF Alike
<1>7. /\ IsReport(z) /\ z.layers = r.layers /\ Mismatched(z)
      /\ z.status = r.status /\ z.payload_length = r.payload_length
  BY <1>0, <1>2, <1>5, ReportMade
<1>. QED
  BY <1>6, <1>7 DEF a, x, z, g, checked, valid, CountedRight, CountedWrong

LEMMA ChecksumRecorded ==
  ASSUME NEW r, IsReport(r), NEW covered \in Seq(Byte), Len(covered) \in Twice16, NEW diagnostic
  PROVE  LET x == RecordChecksum(r, covered, diagnostic)
         IN  /\ IsReport(x) /\ x.status = r.status /\ x.layers = r.layers
             /\ x.payload_length = r.payload_length
             /\ Mismatched(x) <=> Mismatched(r) \/ InternetChecksum(covered) # 0
<1>. DEFINE Verifies == InternetChecksum(covered) = 0
            Late == LateSum(covered) = 65535
            x == CountedRight(r)
            z == CountedWrong(r, diagnostic)
            w == RecordChecksum(r, covered, diagnostic)
<1>1. Verifies <=> Late
  BY SumsAgree, ChecksumHalf DEF Twice16
<1>2. w = IF Late THEN x ELSE z
  BY DEF RecordChecksum, CountedRight, CountedWrong
<1>. HIDE DEF Verifies, Late, w
<1>3. /\ Alike(x, r) /\ x.status = r.status /\ x.payload_length = r.payload_length
      /\ IsReport(z) /\ z.layers = r.layers /\ Mismatched(z)
      /\ z.status = r.status /\ z.payload_length = r.payload_length
  BY ReportCounted
<1>. HIDE DEF x, z
<1>4. /\ IsReport(w) /\ w.status = r.status /\ w.layers = r.layers
      /\ w.payload_length = r.payload_length
      /\ Mismatched(w) <=> Mismatched(r) \/ ~Verifies
  BY <1>1, <1>2, <1>3 DEF Alike
<1>. QED
  BY <1>4 DEF w, Verifies

-----------------------------------------------------------------------------
(* Where lesson 12 accepts what the parsers accept, layer by layer.          *)

LEMMA Refuses ==
  ASSUME NEW r, IsReport(r), LastLayer(r) \notin {"DNS", "HTTP"},
         NEW code \in {"TRUNCATED", "MALFORMED"}, NEW parsed
  PROVE  ~Accepts(Stopped(r, code, parsed))
<1>. DEFINE x == Stopped(r, code, parsed)
<1>1. Alike(x, r) /\ x.status = code
  BY ReportStopped
<1>. HIDE DEF x
<1>2. LastLayer(x) = LastLayer(r)
  BY <1>1 DEF Alike, LastLayer
<1>3. x.status # "OK"
  BY <1>1
<1>. QED
  BY <1>2, <1>3 DEF Accepts, x

LEMMA TakesUnsupported ==
  ASSUME NEW r, IsReport(r), r.status = "OK", NEW payload, NEW parsed
  PROVE  LET x == Unsupported(r, payload, parsed)
         IN  (Accepts(x) <=> ~Mismatched(r)) /\ x.payload_length = payload
<1>. DEFINE x == Unsupported(r, payload, parsed)
<1>1. Alike(x, r) /\ x.status = "OK" /\ x.payload_length = payload
  BY ReportUnsupported
<1>. HIDE DEF x
<1>. QED
  BY <1>1 DEF Accepts, Alike, x

(* The layers behind the transport layer leave the verdict as it is.         *)
LEMMA DnsKeeps ==
  ASSUME NEW r, SoFar(r, 3), NEW dns, NEW place
  PROVE  LET x == Dns(dns, place, r)
         IN  (Accepts(x) <=> ~Mismatched(r)) /\ x.payload_length = r.payload_length
<1>. DEFINE a == AddLayer(r, "DNS")
            w == ParseDns(dns)
            x == Dns(dns, place, r)
<1>1. /\ IsReport(a) /\ LastLayer(a) = "DNS" /\ (Mismatched(a) <=> Mismatched(r))
      /\ a.payload_length = r.payload_length
  BY LayerNext DEF LayerNames
<1>2. x = IF w.status = "TRUNCATED" THEN Stopped(a, "TRUNCATED", place + w.at)
          ELSE IF w.status # "OK" THEN Stopped(a, "MALFORMED", place + w.at)
          ELSE [a EXCEPT !.parsed_length = place + Len(dns)]
  BY DEF Dns
<1>. HIDE DEF a, w
<1>3. Alike(x, a) /\ x.payload_length = a.payload_length
  <2>1. CASE w.status = "TRUNCATED"
    <3>1. x = Stopped(a, "TRUNCATED", place + w.at)
      BY <1>2, <2>1
    <3>. HIDE DEF x
    <3>. QED
      BY <1>1, <3>1, ReportStopped
  <2>2. CASE w.status # "TRUNCATED" /\ w.status # "OK"
    <3>1. x = Stopped(a, "MALFORMED", place + w.at)
      BY <1>2, <2>2
    <3>. HIDE DEF x
    <3>. QED
      BY <1>1, <3>1, ReportStopped
  <2>3. CASE w.status = "OK"
    <3>. DEFINE z == WithParsed(a, place + Len(dns))
    <3>1. x = z
      BY <1>2, <2>3 DEF WithParsed
    <3>. HIDE DEF x
    <3>2. Alike(z, a) /\ z.payload_length = a.payload_length
      BY <1>1, ReportLengths
    <3>. QED
      BY <3>1, <3>2
  <2>. QED
    BY <2>1, <2>2, <2>3
<1>. HIDE DEF x
<1>4. LastLayer(x) = "DNS" /\ (Mismatched(x) <=> Mismatched(r))
  BY <1>1, <1>3 DEF Alike, LastLayer
<1>. QED
  BY <1>1, <1>3, <1>4 DEF Accepts, x

LEMMA HttpKeeps ==
  ASSUME NEW r, SoFar(r, 3), NEW payload, NEW place
  PROVE  LET x == Http(payload, place, r)
         IN  (Accepts(x) <=> ~Mismatched(r)) /\ x.payload_length = r.payload_length
<1>. DEFINE a == AddLayer(r, "HTTP")
            x == Http(payload, place, r)
<1>1. /\ IsReport(a) /\ LastLayer(a) = "HTTP" /\ (Mismatched(a) <=> Mismatched(r))
      /\ a.payload_length = r.payload_length
  BY LayerNext DEF LayerNames
<1>2. \/ x = Stopped(a, "MALFORMED", place)
      \/ x = Stopped(a, "TRUNCATED", place + Len(payload))
      \/ x = [a EXCEPT !.parsed_length = place + Len(payload)]
  <2>. DEFINE P == \A prefix \in HttpPrefixes :
                     ~(Len(prefix) <= Len(payload) /\ Slice(payload, 0, Len(prefix)) = prefix)
              Q == \A i \in 4..Len(payload) : SubSeq(payload, i - 3, i) # <<13, 10, 13, 10>>
  <2>1. x = IF P THEN Stopped(a, "MALFORMED", place)
            ELSE IF Q THEN Stopped(a, "TRUNCATED", place + Len(payload))
            ELSE [a EXCEPT !.parsed_length = place + Len(payload)]
    BY DEF Http
  <2>. HIDE DEF P, Q, x, a
  <2>. QED
    BY <2>1
<1>. HIDE DEF a
<1>3. Alike(x, a) /\ x.payload_length = a.payload_length
  <2>. DEFINE z == WithParsed(a, place + Len(payload))
  <2>1. Alike(z, a) /\ z.payload_length = a.payload_length
    BY <1>1, ReportLengths
  <2>2. \A code \in {"TRUNCATED", "MALFORMED"} : \A p :
          Alike(Stopped(a, code, p), a) /\ Stopped(a, code, p).payload_length = a.payload_length
    BY <1>1, ReportStopped
  <2>. HIDE DEF x
  <2>3. x = Stopped(a, "MALFORMED", place) \/ x = Stopped(a, "TRUNCATED", place + Len(payload)) \/ x = z
    BY <1>2 DEF WithParsed
  <2>. QED
    BY <2>1, <2>2, <2>3
<1>. HIDE DEF x
<1>4. LastLayer(x) = "HTTP" /\ (Mismatched(x) <=> Mismatched(r))
  BY <1>1, <1>3 DEF Alike, LastLayer
<1>. QED
  BY <1>1, <1>3, <1>4 DEF Accepts, x

LEMMA PseudoHeaderBytes ==
  ASSUME NEW s \in Seq(Byte), NEW t \in Seq(Byte), Len(s) = 4, Len(t) = 4,
         NEW protocol \in Byte, NEW d \in Seq(Byte), Len(d) \in Half
  PROVE  /\ WithPseudoHeader(s, t, protocol, d) \in Seq(Byte)
         /\ Len(WithPseudoHeader(s, t, protocol, d)) = 12 + Len(d)
         /\ Len(WithPseudoHeader(s, t, protocol, d)) \in Twice16
<1>. DEFINE b == Bytes(Len(d))
            z == <<0, protocol>>
<1>1. b \in Seq(Byte) /\ Len(b) = 2
  BY BytesOfHalf
<1>2. z \in Seq(Byte) /\ Len(z) = 2
  <2>1. 0 \in Byte
    BY DEF Byte
  <2>. QED
    BY <2>1
<1>3. WithPseudoHeader(s, t, protocol, d) = s \o t \o z \o b \o d
  BY DEF WithPseudoHeader
<1>. HIDE DEF b, z
<1>4. s \o t \in Seq(Byte) /\ Len(s \o t) = 8
  <2>1. Len(s \o t) = Len(s) + Len(t)
    BY JoinBytes
  <2>. QED
    BY <2>1
<1>. DEFINE st == s \o t
<1>. HIDE DEF st
<1>5. st \o z \in Seq(Byte) /\ Len(st \o z) = 10
  <2>1. st \o z \in Seq(Byte) /\ Len(st \o z) = Len(st) + Len(z)
    BY <1>2, <1>4, JoinBytes DEF st
  <2>. QED
    BY <1>2, <1>4, <2>1 DEF st
<1>. DEFINE stz == st \o z
<1>. HIDE DEF stz
<1>6. stz \o b \in Seq(Byte) /\ Len(stz \o b) = 12
  <2>1. stz \o b \in Seq(Byte) /\ Len(stz \o b) = Len(stz) + Len(b)
    BY <1>1, <1>5, JoinBytes DEF stz
  <2>. QED
    BY <1>1, <1>5, <2>1 DEF stz
<1>. DEFINE stzb == stz \o b
<1>. HIDE DEF stzb
<1>7. stzb \o d \in Seq(Byte) /\ Len(stzb \o d) = 12 + Len(d)
  <2>1. stzb \o d \in Seq(Byte) /\ Len(stzb \o d) = Len(stzb) + Len(d)
    BY <1>6, JoinBytes DEF stzb
  <2>. QED
    BY <1>6, <2>1 DEF stzb
<1>8. 12 + Len(d) \in Twice16
  BY DEF Half, Twice16
<1>. QED
  BY <1>3, <1>7, <1>8 DEF st, stz, stzb

(* What a layer leaves of a report: sound so far, with the same last layer.  *)
LEMMA SoFarKept ==
  ASSUME NEW r, NEW n, SoFar(r, n), NEW x, IsReport(x), x.layers = r.layers, x.status = r.status
  PROVE  SoFar(x, n) /\ LastLayer(x) = LastLayer(r)
BY DEF SoFar, LastLayer

LEMMA AddressBytes ==
  ASSUME NEW ip \in Seq(Byte), Len(ip) >= 20
  PROVE  /\ Slice(ip, 12, 4) \in Seq(Byte) /\ Len(Slice(ip, 12, 4)) = 4
         /\ Slice(ip, 16, 4) \in Seq(Byte) /\ Len(Slice(ip, 16, 4)) = 4
<1>1. 12 \in Nat /\ 16 \in Nat /\ 4 \in Nat /\ 12 + 4 <= Len(ip) /\ 16 + 4 <= Len(ip)
  OBVIOUS
<1>. QED
  BY <1>1, SliceBytes

LEMMA UdpAgrees ==
  ASSUME NEW r, SoFar(r, 2), NEW ip \in Seq(Byte), Len(ip) >= 20,
         NEW d \in Seq(Byte), Len(d) \in Half, NEW place
  PROVE  LET x  == Udp(ip, d, place, r)
             p  == ParseDatagram(d)
             ok == /\ p.status = "OK"
                   /\ \/ p.checksum = 0
                      \/ TransportChecksum(Slice(ip, 12, 4), Slice(ip, 16, 4), 17, d) = 0
         IN  (Accepts(x) <=> ~Mismatched(r) /\ ok) /\ (ok => x.payload_length = Len(p.payload))
<1>. DEFINE a == AddLayer(r, "UDP")
            w == Word(d, 4)
            c == Word(d, 6)
            n == Len(d)
            sum == WithPseudoHeader(Slice(ip, 12, 4), Slice(ip, 16, 4), 17, d)
            right == InternetChecksum(sum) = 0
            known == [a EXCEPT !.payload_length = w - 8]
            summed == IF c = 0 THEN known ELSE RecordChecksum(known, sum, "TRANSPORT_CHECKSUM")
            x == Udp(ip, d, place, r)
            p == ParseDatagram(d)
<1>1. /\ SoFar(a, 3) /\ IsReport(a) /\ LastLayer(a) = "UDP" /\ (Mismatched(a) <=> Mismatched(r))
      /\ a.status = "OK"
  BY LayerNext DEF LayerNames
<1>2. sum \in Seq(Byte) /\ Len(sum) \in Twice16
  <2>1. /\ Slice(ip, 12, 4) \in Seq(Byte) /\ Len(Slice(ip, 12, 4)) = 4
        /\ Slice(ip, 16, 4) \in Seq(Byte) /\ Len(Slice(ip, 16, 4)) = 4
    BY AddressBytes
  <2>2. 17 \in Byte
    BY DEF Byte
  <2>. QED
    BY <2>1, <2>2, PseudoHeaderBytes
<1>3. right <=> TransportChecksum(Slice(ip, 12, 4), Slice(ip, 16, 4), 17, d) = 0
  BY DEF TransportChecksum
<1>4. n \in Nat
  OBVIOUS
<1>5. x = IF n < 8 THEN Stopped(a, "TRUNCATED", place + n)
          ELSE IF w < 8 THEN Stopped(a, "MALFORMED", place + 8)
          ELSE IF w > n THEN Stopped(a, "TRUNCATED", place + n)
          ELSE IF w < n THEN Stopped(a, "MALFORMED", place + w)
          ELSE IF 53 \in {Word(d, 0), Word(d, 2)} THEN Dns(From(d, 8), place + 8, summed)
          ELSE Unsupported(summed, summed.payload_length, place + n)
  BY DEF Udp
<1>6. p = IF n < 8 THEN Refused("TRUNCATED")
          ELSE IF w < 8 THEN Refused("MALFORMED")
          ELSE IF n < w THEN Refused("TRUNCATED")
          ELSE IF n # w THEN Refused("MALFORMED")
          ELSE [status |-> "OK", checksum |-> c, payload |-> From(d, 8)]
  BY DEF ParseDatagram
<1>7. n >= 8 => w \in Nat
  BY WordHalf DEF Half
<1>. DEFINE ok == p.status = "OK" /\ (p.checksum = 0 \/ right)
<1>. HIDE DEF a, w, c, n, sum, right, summed, x, p
<1>8. CASE n < 8 \/ n # w
  <2>1. \E code \in {"TRUNCATED", "MALFORMED"} : \E parsed : x = Stopped(a, code, parsed)
    <3>1. CASE n < 8
      BY <1>5, <3>1
    <3>2. CASE ~(n < 8)
      <4>1. n \in Nat /\ w \in Nat
        BY <1>4, <1>7, <3>2
      <4>2. w > n \/ w < n
        BY <1>8, <3>2, <4>1
      <4>. QED
        BY <1>5, <3>2, <4>2
    <3>. QED
      BY <3>1, <3>2
  <2>2. ~Accepts(x)
    <3>1. PICK code \in {"TRUNCATED", "MALFORMED"} : \E parsed : x = Stopped(a, code, parsed)
      BY <2>1
    <3>2. PICK parsed : x = Stopped(a, code, parsed)
      BY <3>1
    <3>3. LastLayer(a) \notin {"DNS", "HTTP"}
      BY <1>1
    <3>. QED
      BY <1>1, <3>2, <3>3, Refuses
  <2>3. p.status # "OK"
    BY <1>6, <1>8 DEF Refused
  <2>. QED
    BY <1>3, <2>2, <2>3 DEF x, p
<1>9. CASE n >= 8 /\ n = w
  <2>1. p = [status |-> "OK", checksum |-> c, payload |-> From(d, 8)]
    BY <1>4, <1>6, <1>9
  <2>2. p.status = "OK" /\ p.checksum = c /\ p.payload = From(d, 8)
    BY <2>1
  <2>3. Len(p.payload) = w - 8
    <3>1. Len(From(d, 8)) = n - 8
      BY <1>4, <1>9, FromBytes DEF n
    <3>. QED
      BY <1>9, <2>2, <3>1
  <2>4. /\ SoFar(known, 3) /\ IsReport(known) /\ LastLayer(known) = "UDP"
        /\ (Mismatched(known) <=> Mismatched(r)) /\ known.payload_length = w - 8
    <3>. HIDE DEF known
    <3>1. Alike(known, a) /\ known.status = a.status /\ known.payload_length = w - 8
      BY <1>1, ReportLengths DEF known, WithPayload
    <3>. QED
      BY <1>1, <3>1, SoFarKept DEF Alike
  <2>. HIDE DEF known
  <2>5. /\ SoFar(summed, 3) /\ summed.payload_length = w - 8
        /\ Mismatched(summed) <=> Mismatched(r) \/ ~(c = 0 \/ right)
    <3>1. CASE c = 0
      BY <2>4, <3>1 DEF summed
    <3>2. CASE c # 0
      <4>1. summed = RecordChecksum(known, sum, "TRANSPORT_CHECKSUM")
        BY <3>2 DEF summed
      <4>2. /\ IsReport(summed) /\ summed.status = known.status /\ summed.layers = known.layers
            /\ summed.payload_length = known.payload_length
            /\ (Mismatched(summed) <=> Mismatched(known) \/ ~right)
        BY <1>2, <2>4, <4>1, ChecksumRecorded DEF right
      <4>3. SoFar(summed, 3)
        BY <2>4, <4>2, SoFarKept
      <4>. QED
        BY <2>4, <3>2, <4>2, <4>3
    <3>. QED
      BY <3>1, <3>2
  <2>6. (Accepts(x) <=> ~Mismatched(summed)) /\ x.payload_length = summed.payload_length
    <3>1. CASE 53 \in {Word(d, 0), Word(d, 2)}
      <4>1. x = Dns(From(d, 8), place + 8, summed)
        <5>1. w \in Nat /\ ~(n < 8) /\ ~(w < 8) /\ ~(w > n) /\ ~(w < n)
          BY <1>4, <1>7, <1>9
        <5>. QED
          BY <1>5, <3>1, <5>1
      <4>. QED
        BY <2>5, <4>1, DnsKeeps
    <3>2. CASE 53 \notin {Word(d, 0), Word(d, 2)}
      <4>1. x = Unsupported(summed, summed.payload_length, place + n)
        <5>1. w \in Nat /\ ~(n < 8) /\ ~(w < 8) /\ ~(w > n) /\ ~(w < n)
          BY <1>4, <1>7, <1>9
        <5>. QED
          BY <1>5, <3>2, <5>1
      <4>2. IsReport(summed) /\ summed.status = "OK"
        BY <2>5 DEF SoFar
      <4>. QED
        BY <4>1, <4>2, TakesUnsupported
    <3>. QED
      BY <3>1, <3>2
  <2>7. ok <=> c = 0 \/ right
    BY <2>2
  <2>8. (Accepts(x) <=> ~Mismatched(r) /\ ok) /\ x.payload_length = Len(p.payload)
    BY <2>3, <2>5, <2>6, <2>7
  <2>. QED
    BY <1>3, <2>8 DEF x, p
<1>10. \/ n < 8 \/ n # w
       \/ n >= 8 /\ n = w
  BY <1>4
<1>. QED
  BY <1>8, <1>9, <1>10

LEMMA DataOffsetNat ==
  ASSUME NEW d \in Seq(Byte), Len(d) >= 20
  PROVE  DataOffset(d) \in Nat
<1>1. At(d, 12) \in Byte
  BY AtByte
<1>2. At(d, 12) \in Nat
  BY <1>1, ByteRange
<1>3. \A b \in Nat : 4 * (b \div 16) \in Nat
  OBVIOUS
<1>. QED
  BY <1>2, <1>3 DEF DataOffset

LEMMA TcpAgrees ==
  ASSUME NEW r, SoFar(r, 2), NEW ip \in Seq(Byte), Len(ip) >= 20,
         NEW d \in Seq(Byte), Len(d) \in Half, NEW place
  PROVE  LET x  == Tcp(ip, d, place, r)
             s  == ParseSegment(d)
             ok == /\ s.status = "OK"
                   /\ TransportChecksum(Slice(ip, 12, 4), Slice(ip, 16, 4), 6, d) = 0
         IN  (Accepts(x) <=> ~Mismatched(r) /\ ok) /\ (ok => x.payload_length = Len(s.payload))
<1>. DEFINE a == AddLayer(r, "TCP")
            o == DataOffset(d)
            n == Len(d)
            reserved == (At(d, 12) \div 2) % 8 # 0
            payload == From(d, o)
            y == Len(payload)
            sum == WithPseudoHeader(Slice(ip, 12, 4), Slice(ip, 16, 4), 6, d)
            right == InternetChecksum(sum) = 0
            counted == RecordChecksum(a, sum, "TRANSPORT_CHECKSUM")
            summed == [counted EXCEPT !.payload_length = y]
            web == payload # <<>> /\ {Word(d, 0), Word(d, 2)} \cap {80, 8080} # {}
            x == Tcp(ip, d, place, r)
            s == ParseSegment(d)
<1>1. /\ SoFar(a, 3) /\ IsReport(a) /\ LastLayer(a) = "TCP" /\ (Mismatched(a) <=> Mismatched(r))
      /\ a.status = "OK"
  BY LayerNext DEF LayerNames
<1>2. sum \in Seq(Byte) /\ Len(sum) \in Twice16
  <2>1. /\ Slice(ip, 12, 4) \in Seq(Byte) /\ Len(Slice(ip, 12, 4)) = 4
        /\ Slice(ip, 16, 4) \in Seq(Byte) /\ Len(Slice(ip, 16, 4)) = 4
    BY AddressBytes
  <2>2. 6 \in Byte
    BY DEF Byte
  <2>. QED
    BY <2>1, <2>2, PseudoHeaderBytes
<1>3. right <=> TransportChecksum(Slice(ip, 12, 4), Slice(ip, 16, 4), 6, d) = 0
  BY DEF TransportChecksum
<1>4. n \in Nat
  OBVIOUS
<1>5. x = IF n < 20 THEN Stopped(a, "TRUNCATED", place + n)
          ELSE IF reserved THEN Stopped(a, "MALFORMED", place + 13)
          ELSE IF o < 20 THEN Stopped(a, "MALFORMED", place + 20)
          ELSE IF o > n THEN Stopped(a, "TRUNCATED", place + n)
          ELSE IF web THEN Http(payload, place + o, summed)
          ELSE Unsupported(summed, y, place + n)
  BY DEF Tcp
<1>6. s = IF n < 20 THEN Refused("TRUNCATED")
          ELSE IF o < 20 \/ reserved THEN Refused("MALFORMED")
          ELSE IF n < o THEN Refused("TRUNCATED")
          ELSE [status |-> "OK", flags |-> 256 * (At(d, 12) % 2) + At(d, 13), payload |-> payload]
  BY DEF ParseSegment
<1>7. n >= 20 => o \in Nat
  BY DataOffsetNat
<1>8. n >= 20 /\ ~(o > n) => y = n - o
  <2>. SUFFICES ASSUME n >= 20, ~(o > n) PROVE y = n - o
    OBVIOUS
  <2>1. o \in Nat /\ o <= n
    BY <1>4, <1>7
  <2>. QED
    BY <2>1, FromBytes
<1>. DEFINE ok == s.status = "OK" /\ right
            bad == reserved \/ o < 20 \/ o > n
            f == 256 * (At(d, 12) % 2) + At(d, 13)
<1>. HIDE DEF a, o, n, payload, y, sum, right, counted, web, x, s, reserved, f
<1>9. CASE n < 20 \/ bad
  <2>1. \E code \in {"TRUNCATED", "MALFORMED"} : \E parsed : x = Stopped(a, code, parsed)
    <3>. HIDE DEF summed
    <3>. QED
      BY <1>5, <1>9
  <2>2. ~Accepts(x)
    <3>1. PICK code \in {"TRUNCATED", "MALFORMED"} : \E parsed : x = Stopped(a, code, parsed)
      BY <2>1
    <3>2. PICK parsed : x = Stopped(a, code, parsed)
      BY <3>1
    <3>3. LastLayer(a) \notin {"DNS", "HTTP"}
      BY <1>1
    <3>. QED
      BY <1>1, <3>2, <3>3, Refuses
  <2>3. s.status # "OK"
    <3>1. o > n => n < o \/ n < 20
      BY <1>4, <1>7
    <3>2. s = Refused("TRUNCATED") \/ s = Refused("MALFORMED")
      BY <1>6, <1>9, <3>1
    <3>. QED
      BY <3>2 DEF Refused
  <2>. QED
    BY <1>3, <2>2, <2>3 DEF x, s
<1>10. CASE ~(n < 20 \/ bad)
  <2>1. s = [status |-> "OK", flags |-> f, payload |-> payload]
    <3>1. ~(n < o)
      BY <1>4, <1>7, <1>10
    <3>. QED
      BY <1>6, <1>10, <3>1 DEF f
  <2>2. s.status = "OK" /\ s.payload = payload
    BY <2>1
  <2>3. /\ IsReport(counted) /\ counted.status = "OK" /\ counted.layers = a.layers
        /\ Mismatched(counted) <=> Mismatched(r) \/ ~right
    BY <1>1, <1>2, ChecksumRecorded DEF counted, right
  <2>4. summed = WithPayload(counted, y)
    BY DEF WithPayload
  <2>. HIDE DEF summed
  <2>5. Alike(summed, counted) /\ summed.status = "OK" /\ summed.payload_length = y
    BY <2>3, <2>4, ReportLengths
  <2>6. /\ SoFar(summed, 3) /\ IsReport(summed)
        /\ Mismatched(summed) <=> Mismatched(r) \/ ~right
    BY <1>1, <2>3, <2>5, SoFarKept DEF Alike
  <2>7. (Accepts(x) <=> ~Mismatched(summed)) /\ x.payload_length = y
    <3>1. CASE web
      <4>1. x = Http(payload, place + o, summed)
        BY <1>5, <1>10, <3>1
      <4>. QED
        BY <2>5, <2>6, <4>1, HttpKeeps
    <3>2. CASE ~web
      <4>1. x = Unsupported(summed, y, place + n)
        BY <1>5, <1>10, <3>2
      <4>. QED
        BY <2>5, <2>6, <4>1, TakesUnsupported
    <3>. QED
      BY <3>1, <3>2
  <2>8. (Accepts(x) <=> ~Mismatched(r) /\ ok) /\ x.payload_length = Len(s.payload)
    BY <2>2, <2>6, <2>7 DEF y
  <2>. QED
    BY <1>3, <2>8 DEF x, s
<1>. QED
  BY <1>9, <1>10

LEMMA IcmpAgrees ==
  ASSUME NEW r, SoFar(r, 2), NEW d \in Seq(Byte), Len(d) \in Half, NEW place
  PROVE  LET x  == Icmp(d, place, r)
             m  == ParseMessage(d)
             ok == m.status = "OK" /\ Len(m.body) >= 4
         IN  (Accepts(x) <=> ~Mismatched(r) /\ ok) /\ (ok => x.payload_length = Len(From(m.body, 4)))
<1>. DEFINE a == AddLayer(r, "ICMP")
            n == Len(d)
            right == InternetChecksum(d) = 0
            counted == RecordChecksum(a, d, "TRANSPORT_CHECKSUM")
            summed == [counted EXCEPT !.payload_length = n - 8, !.parsed_length = place + n]
            x == Icmp(d, place, r)
            m == ParseMessage(d)
<1>1. /\ SoFar(a, 3) /\ IsReport(a) /\ LastLayer(a) = "ICMP" /\ (Mismatched(a) <=> Mismatched(r))
      /\ a.status = "OK"
  BY LayerNext DEF LayerNames
<1>2. n \in Nat /\ Len(d) \in Twice16
  BY DEF Half, Twice16
<1>3. x = IF n < 8 THEN Stopped(a, "TRUNCATED", place + n) ELSE summed
  BY DEF Icmp
<1>4. m = IF n < 4 THEN Refused("TRUNCATED")
          ELSE IF ~right THEN Refused("MALFORMED")
          ELSE [status |-> "OK", type |-> At(d, 0), code |-> At(d, 1), body |-> From(d, 4)]
  BY DEF ParseMessage
<1>5. n >= 4 => From(d, 4) \in Seq(Byte) /\ Len(From(d, 4)) = n - 4
  BY FromBytes
<1>. DEFINE ok == m.status = "OK" /\ Len(m.body) >= 4
<1>6. m.status = "OK" <=> n >= 4 /\ right
  <2>. HIDE DEF m, n, right
  <2>1. CASE n < 4
    BY <1>2, <1>4, <2>1 DEF Refused
  <2>2. CASE ~(n < 4) /\ ~right
    BY <1>2, <1>4, <2>2 DEF Refused
  <2>3. CASE ~(n < 4) /\ right
    BY <1>2, <1>4, <2>3
  <2>. QED
    BY <2>1, <2>2, <2>3
<1>7. m.status = "OK" => m.body = From(d, 4)
  <2>. HIDE DEF m, n, right
  <2>1. CASE n >= 4 /\ right
    BY <1>2, <1>4, <2>1
  <2>. QED
    BY <1>6, <2>1
<1>. HIDE DEF a, n, right, counted, x, m
<1>8. ok <=> n >= 8 /\ right
  <2>1. n >= 8 => n >= 4
    BY <1>2
  <2>2. n >= 4 => (n - 4 >= 4 <=> n >= 8)
    BY <1>2
  <2>. QED
    BY <1>5, <1>6, <1>7, <2>1, <2>2
<1>9. CASE n < 8
  <2>. HIDE DEF summed
  <2>1. x = Stopped(a, "TRUNCATED", place + n)
    BY <1>3, <1>9
  <2>2. LastLayer(a) \notin {"DNS", "HTTP"}
    BY <1>1
  <2>3. ~Accepts(x)
    BY <1>1, <2>1, <2>2, Refuses
  <2>4. ~ok
    BY <1>2, <1>8, <1>9
  <2>. QED
    BY <2>3, <2>4 DEF x, m
<1>10. CASE ~(n < 8)
  <2>1. /\ IsReport(counted) /\ counted.status = "OK"
        /\ Mismatched(counted) <=> Mismatched(r) \/ ~right
    BY <1>1, <1>2, ChecksumRecorded DEF counted, right
  <2>2. summed = WithLengths(counted, n - 8, place + n)
    BY DEF WithLengths
  <2>3. x = summed
    BY <1>3, <1>10
  <2>. HIDE DEF summed
  <2>4. Alike(x, counted) /\ x.status = "OK" /\ x.payload_length = n - 8
    BY <2>1, <2>2, <2>3, ReportLengths
  <2>5. Accepts(x) <=> ~Mismatched(r) /\ right
    BY <2>1, <2>4 DEF Accepts, Alike
  <2>6. ok => Len(From(m.body, 4)) = n - 8
    <3>1. ASSUME ok PROVE Len(From(m.body, 4)) = n - 8
      <4>1. m.body \in Seq(Byte) /\ Len(m.body) = n - 4 /\ 4 <= n - 4
        BY <1>2, <1>5, <1>6, <1>7, <1>10, <3>1
      <4>2. Len(From(m.body, 4)) = (n - 4) - 4
        BY <1>2, <4>1, FromBytes
      <4>. QED
        BY <1>2, <4>2
    <3>. QED
      BY <3>1
  <2>7. ok <=> right
    BY <1>2, <1>8, <1>10
  <2>8. (Accepts(x) <=> ~Mismatched(r) /\ ok) /\ (ok => x.payload_length = Len(From(m.body, 4)))
    BY <2>4, <2>5, <2>6, <2>7
  <2>. QED
    BY <2>8 DEF x, m
<1>. QED
  BY <1>9, <1>10

LEMMA HeaderLengthRange ==
  ASSUME NEW d \in Seq(Byte), Len(d) >= 1
  PROVE  HeaderLength(d) \in Nat /\ HeaderLength(d) <= 60
<1>1. At(d, 0) \in Byte
  BY AtByte
<1>2. At(d, 0) \in Nat
  BY <1>1, ByteRange
<1>3. \A b \in Nat : 4 * (b % 16) \in Nat /\ 4 * (b % 16) <= 60
  OBVIOUS
<1>. QED
  BY <1>2, <1>3 DEF HeaderLength

(* A packet whose lengths are in order, up to its fragment field.            *)
Framed(d) ==
  /\ Len(d) >= 20 /\ At(d, 0) \div 16 = 4
  /\ HeaderLength(d) >= 20 /\ HeaderLength(d) <= Len(d)
  /\ Word(d, 2) >= HeaderLength(d) /\ Word(d, 2) <= Len(d)

LEMMA FramedBytes ==
  ASSUME NEW d \in Seq(Byte), Framed(d)
  PROVE  /\ HeaderLength(d) \in Nat /\ HeaderLength(d) <= 60 /\ Word(d, 2) \in Nat
         /\ Slice(d, 0, HeaderLength(d)) \in Seq(Byte)
         /\ Len(Slice(d, 0, HeaderLength(d))) = HeaderLength(d)
         /\ Len(Slice(d, 0, HeaderLength(d))) \in Twice16
         /\ Payload(d) \in Seq(Byte) /\ Len(Payload(d)) = Word(d, 2) - HeaderLength(d)
         /\ Len(Payload(d)) \in Half
<1>. DEFINE h == HeaderLength(d)
            w == Word(d, 2)
<1>1. Len(d) \in Nat /\ Len(d) >= 20 /\ h >= 20 /\ h <= Len(d) /\ w >= h /\ w <= Len(d)
  BY DEF Framed
<1>2. h \in Nat /\ h <= 60
  BY <1>1, HeaderLengthRange
<1>3. w \in Nat /\ w <= 65535
  BY <1>1, WordHalf DEF Half
<1>. HIDE DEF h, w
<1>4. Slice(d, 0, h) \in Seq(Byte) /\ Len(Slice(d, 0, h)) = h
  BY <1>1, <1>2, SliceBytes
<1>5. h \in Twice16
  BY <1>2 DEF Twice16
<1>6. Slice(d, h, w - h) \in Seq(Byte) /\ Len(Slice(d, h, w - h)) = w - h
  <2>1. w - h \in Nat /\ h + (w - h) <= Len(d)
    BY <1>1, <1>2, <1>3
  <2>. QED
    BY <1>2, <2>1, SliceBytes
<1>7. w - h \in Half
  BY <1>1, <1>2, <1>3 DEF Half
<1>8. Payload(d) = Slice(d, h, w - h)
  BY DEF Payload, h, w
<1>. QED
  BY <1>2, <1>3, <1>4, <1>5, <1>6, <1>7, <1>8 DEF h, w

(* When lesson 03 accepts a packet.                                          *)
LEMMA Ipv4Parsed ==
  ASSUME NEW d \in Seq(Byte)
  PROVE  LET ip == ParseIpv4(d)
         IN  /\ ip.status = "OK" <=> /\ Framed(d) /\ Word(d, 6) < 32768
                                     /\ InternetChecksum(Slice(d, 0, HeaderLength(d))) = 0
             /\ ip.status = "OK" =>
                  /\ ip.flags_fragment = Word(d, 6) /\ ip.ttl = At(d, 8) /\ ip.protocol = At(d, 9)
                  /\ ip.source = Slice(d, 12, 4) /\ ip.destination = Slice(d, 16, 4)
                  /\ ip.payload = Payload(d)
<1>. DEFINE n == Len(d)
            h == HeaderLength(d)
            w == Word(d, 2)
            ff == Word(d, 6)
            v == At(d, 0) \div 16
            wrong == InternetChecksum(Slice(d, 0, h)) # 0
            ip == ParseIpv4(d)
            good == [status |-> "OK", flags_fragment |-> Word(d, 6), ttl |-> At(d, 8), protocol |-> At(d, 9),
                     source |-> Slice(d, 12, 4), destination |-> Slice(d, 16, 4), payload |-> Payload(d)]
<1>1. ip = IF n < 20 THEN Refused("TRUNCATED")
           ELSE IF v # 4 \/ h < 20 THEN Refused("MALFORMED")
           ELSE IF n < h THEN Refused("TRUNCATED")
           ELSE IF ff >= 32768 \/ w < h THEN Refused("MALFORMED")
           ELSE IF n < w THEN Refused("TRUNCATED")
           ELSE IF wrong THEN Refused("MALFORMED")
           ELSE good
  BY DEF ParseIpv4, Payload
<1>2. n \in Nat
  OBVIOUS
<1>3. n >= 20 => h \in Nat /\ w \in Nat /\ ff \in Nat
  <2>. SUFFICES ASSUME n >= 20 PROVE h \in Nat /\ w \in Nat /\ ff \in Nat
    OBVIOUS
  <2>1. w \in Half /\ ff \in Half
    BY WordHalf
  <2>2. h \in Nat
    BY HeaderLengthRange
  <2>. QED
    BY <2>1, <2>2 DEF Half
<1>4. Framed(d) <=> n >= 20 /\ v = 4 /\ h >= 20 /\ h <= n /\ w >= h /\ w <= n
  BY DEF Framed
<1>5. good.status = "OK" /\ good.flags_fragment = Word(d, 6) /\ good.ttl = At(d, 8) /\ good.protocol = At(d, 9)
      /\ good.source = Slice(d, 12, 4) /\ good.destination = Slice(d, 16, 4) /\ good.payload = Payload(d)
  OBVIOUS
<1>6. Refused("TRUNCATED").status # "OK" /\ Refused("MALFORMED").status # "OK"
  BY DEF Refused
<1>. HIDE DEF n, h, w, v, wrong, ip, good, ff
<1>7. Framed(d) /\ ff < 32768 /\ ~wrong => ip = good
  BY <1>1, <1>2, <1>3, <1>4
<1>8. ~(Framed(d) /\ ff < 32768 /\ ~wrong) => ip = Refused("TRUNCATED") \/ ip = Refused("MALFORMED")
  <2>1. CASE n < 20
    BY <1>1, <2>1
  <2>2. CASE ~(n < 20)
    <3>1. n >= 20 /\ h \in Nat /\ w \in Nat /\ ff \in Nat
      BY <1>2, <1>3, <2>2
    <3>2. (h < 20 <=> ~(h >= 20)) /\ (n < h <=> ~(h <= n)) /\ (w < h <=> ~(w >= h)) /\ (n < w <=> ~(w <= n))
          /\ (ff >= 32768 <=> ~(ff < 32768))
      BY <1>2, <3>1
    <3>. QED
      BY <1>1, <1>4, <2>2, <3>1, <3>2
  <2>. QED
    BY <2>1, <2>2
<1>9. Framed(d) /\ ff < 32768 /\ ~wrong <=> ip.status = "OK"
  BY <1>5, <1>6, <1>7, <1>8
<1>10. ip.status = "OK" => ip = good
  BY <1>7, <1>9
<1>11. ip.status = "OK" => /\ ip.flags_fragment = Word(d, 6) /\ ip.ttl = At(d, 8) /\ ip.protocol = At(d, 9)
                           /\ ip.source = Slice(d, 12, 4) /\ ip.destination = Slice(d, 16, 4)
                           /\ ip.payload = Payload(d)
  BY <1>5, <1>10
<1>. QED
  BY <1>9, <1>11 DEF ip, ff, wrong, h

(* What the transport parsers make of the payload of a packet.               *)
Transport(d) ==
  ReadTransport([flags_fragment |-> Word(d, 6), protocol |-> At(d, 9), source |-> Slice(d, 12, 4),
                 destination |-> Slice(d, 16, 4), payload |-> Payload(d)])

LEMMA TransportRead ==
  ASSUME NEW d \in Seq(Byte), ParseIpv4(d).status = "OK"
  PROVE  ReadTransport(ParseIpv4(d)) = Transport(d)
<1>. DEFINE ip == ParseIpv4(d)
            z == [flags_fragment |-> Word(d, 6), protocol |-> At(d, 9), source |-> Slice(d, 12, 4),
                  destination |-> Slice(d, 16, 4), payload |-> Payload(d)]
<1>1. /\ ip.flags_fragment = Word(d, 6) /\ ip.protocol = At(d, 9)
      /\ ip.source = Slice(d, 12, 4) /\ ip.destination = Slice(d, 16, 4)
      /\ ip.payload = Payload(d)
  BY Ipv4Parsed
<1>2. /\ z.flags_fragment = Word(d, 6) /\ z.protocol = At(d, 9)
      /\ z.source = Slice(d, 12, 4) /\ z.destination = Slice(d, 16, 4)
      /\ z.payload = Payload(d)
  OBVIOUS
<1>. HIDE DEF ip, z
<1>3. ReadTransport(ip) = ReadTransport(z)
  BY <1>1, <1>2 DEF ReadTransport, Summed
<1>. QED
  BY <1>3 DEF ip, z, Transport

(* Per protocol.                                                             *)
LEMMA TransportCases ==
  ASSUME NEW d \in Seq(Byte)
  PROVE  LET p == Payload(d)
             m == ParseMessage(p)
             s == ParseSegment(p)
             u == ParseDatagram(p)
             sum(protocol) == TransportChecksum(Slice(d, 12, 4), Slice(d, 16, 4), protocol, p)
             t == Transport(d)
             fragment == Word(d, 6) % 16384 # 0
         IN  /\ fragment \/ At(d, 9) \notin {1, 6, 17} => t = Delivered(p)
             /\ ~fragment /\ At(d, 9) = 1 =>
                  t = IF m.status = "OK" /\ Len(m.body) >= 4 THEN Delivered(From(m.body, 4)) ELSE Refused("REFUSED")
             /\ ~fragment /\ At(d, 9) = 6 =>
                  t = IF s.status = "OK" /\ sum(6) = 0 THEN Delivered(s.payload) ELSE Refused("REFUSED")
             /\ ~fragment /\ At(d, 9) = 17 =>
                  t = IF u.status = "OK" /\ (u.checksum = 0 \/ sum(17) = 0) THEN Delivered(u.payload)
                      ELSE Refused("REFUSED")
BY DEF Transport, ReadTransport, Summed

LEMMA DeliveredOrNot ==
  ASSUME NEW t, NEW ok \in BOOLEAN, NEW payload,
         t = IF ok THEN Delivered(payload) ELSE Refused("REFUSED")
  PROVE  (t.status = "OK" <=> ok) /\ (ok => t.payload = payload)
BY DEF Delivered, Refused

(* Behind a header that is in order, the report accepts what the transport   *)
(* parsers accept, whatever the header checksum said.                        *)
LEMMA TransportAgrees ==
  ASSUME NEW r, SoFar(r, 2), NEW d \in Seq(Byte), Framed(d)
  PROVE  LET p == Payload(d)
             n == HeaderLength(d)
             x == IF Word(d, 6) % 16384 # 0 THEN Unsupported(r, Word(d, 2) - n, 14 + Word(d, 2))
                  ELSE CASE At(d, 9) = 1  -> Icmp(p, 14 + n, r)
                         [] At(d, 9) = 17 -> Udp(d, p, 14 + n, r)
                         [] At(d, 9) = 6  -> Tcp(d, p, 14 + n, r)
                         [] OTHER         -> Unsupported(r, Word(d, 2) - n, 14 + Word(d, 2))
             t == Transport(d)
         IN  (Accepts(x) <=> ~Mismatched(r) /\ t.status = "OK")
             /\ (t.status = "OK" => x.payload_length = Len(t.payload))
<1>. DEFINE p == Payload(d)
            n == HeaderLength(d)
            w == Word(d, 2)
            fragment == Word(d, 6) % 16384 # 0
            protocol == At(d, 9)
            other == Unsupported(r, w - n, 14 + w)
            icmp == Icmp(p, 14 + n, r)
            udp == Udp(d, p, 14 + n, r)
            tcp == Tcp(d, p, 14 + n, r)
            x == IF fragment THEN other
                 ELSE CASE protocol = 1  -> icmp
                        [] protocol = 17 -> udp
                        [] protocol = 6  -> tcp
                        [] OTHER         -> other
            t == Transport(d)
            m == ParseMessage(p)
            s == ParseSegment(p)
            u == ParseDatagram(p)
            segment == s.status = "OK" /\ TransportChecksum(Slice(d, 12, 4), Slice(d, 16, 4), 6, p) = 0
            datagram == /\ u.status = "OK"
                        /\ u.checksum = 0 \/ TransportChecksum(Slice(d, 12, 4), Slice(d, 16, 4), 17, p) = 0
            echo == m.status = "OK" /\ Len(m.body) >= 4
            Agree(z, ok, payload) == (Accepts(z) <=> ~Mismatched(r) /\ ok) /\ (ok => z.payload_length = Len(payload))
<1>1. /\ p \in Seq(Byte) /\ Len(p) \in Half /\ Len(p) = w - n /\ Len(d) >= 20
  BY FramedBytes DEF Framed
<1>2. Agree(icmp, echo, From(m.body, 4))
  BY <1>1, IcmpAgrees
<1>3. Agree(udp, datagram, u.payload)
  <2>. HIDE DEF p
  <2>. QED
    BY <1>1, UdpAgrees
<1>4. Agree(tcp, segment, s.payload)
  <2>. HIDE DEF p
  <2>. QED
    BY <1>1, TcpAgrees
<1>5. Agree(other, TRUE, p)
  <2>1. IsReport(r) /\ r.status = "OK"
    BY DEF SoFar
  <2>. QED
    BY <1>1, <2>1, TakesUnsupported
<1>6. /\ fragment \/ protocol \notin {1, 6, 17} => t = Delivered(p)
      /\ ~fragment /\ protocol = 1 => t = IF echo THEN Delivered(From(m.body, 4)) ELSE Refused("REFUSED")
      /\ ~fragment /\ protocol = 6 => t = IF segment THEN Delivered(s.payload) ELSE Refused("REFUSED")
      /\ ~fragment /\ protocol = 17 => t = IF datagram THEN Delivered(u.payload) ELSE Refused("REFUSED")
  BY TransportCases
<1>. HIDE DEF fragment, protocol, other, icmp, udp, tcp, t, segment, datagram, echo, p, m, s, u
<1>7. CASE fragment \/ protocol \notin {1, 6, 17}
  <2>1. x = other
    BY <1>7
  <2>2. t.status = "OK" /\ t.payload = p
    BY <1>6, <1>7 DEF Delivered
  <2>. HIDE DEF x
  <2>3. Agree(x, t.status = "OK", t.payload)
    BY <1>5, <2>1, <2>2
  <2>. QED
    BY <2>3 DEF x, t, p, fragment, protocol, other, icmp, udp, tcp
<1>8. CASE ~fragment /\ protocol = 1
  <2>1. x = icmp
    BY <1>8
  <2>2. t = IF echo THEN Delivered(From(m.body, 4)) ELSE Refused("REFUSED")
    BY <1>6, <1>8
  <2>3. (t.status = "OK" <=> echo) /\ (echo => t.payload = From(m.body, 4))
    BY <2>2 DEF Delivered, Refused
  <2>. HIDE DEF x
  <2>4. Agree(x, t.status = "OK", t.payload)
    BY <1>2, <2>1, <2>3
  <2>. QED
    BY <2>4 DEF x, t, p, fragment, protocol, other, icmp, udp, tcp
<1>9. CASE ~fragment /\ protocol = 6
  <2>1. x = tcp
    BY <1>9
  <2>2. t = IF segment THEN Delivered(s.payload) ELSE Refused("REFUSED")
    BY <1>6, <1>9
  <2>3. (t.status = "OK" <=> segment) /\ (segment => t.payload = s.payload)
    BY <2>2 DEF Delivered, Refused
  <2>. HIDE DEF x
  <2>4. Agree(x, t.status = "OK", t.payload)
    BY <1>4, <2>1, <2>3
  <2>. QED
    BY <2>4 DEF x, t, p, fragment, protocol, other, icmp, udp, tcp
<1>10. CASE ~fragment /\ protocol = 17
  <2>1. x = udp
    BY <1>10
  <2>2. t = IF datagram THEN Delivered(u.payload) ELSE Refused("REFUSED")
    BY <1>6, <1>10
  <2>3. (t.status = "OK" <=> datagram) /\ (datagram => t.payload = u.payload)
    BY <2>2 DEF Delivered, Refused
  <2>. HIDE DEF x
  <2>4. Agree(x, t.status = "OK", t.payload)
    BY <1>3, <2>1, <2>3
  <2>. QED
    BY <2>4 DEF x, t, p, fragment, protocol, other, icmp, udp, tcp
<1>. QED
  BY <1>7, <1>8, <1>9, <1>10

LEMMA Ipv4Agrees ==
  ASSUME NEW r, SoFar(r, 1), ~Mismatched(r), LastLayer(r) \notin {"DNS", "HTTP"}, NEW d \in Seq(Byte)
  PROVE  LET x  == Ipv4(d, r)
             ip == ParseIpv4(d)
             t  == ReadTransport(ip)
             ok == ip.status = "OK" /\ t.status = "OK"
         IN  (Accepts(x) <=> ok) /\ (ok => x.payload_length = Len(t.payload))
<1>. DEFINE a == AddLayer(r, "IPV4")
            n == Len(d)
            h == HeaderLength(d)
            w == Word(d, 2)
            v == At(d, 0) \div 16
            summed == RecordChecksum(a, Slice(d, 0, h), "IPV4_CHECKSUM")
            right == InternetChecksum(Slice(d, 0, h)) = 0
            ff == Word(d, 6)
            p == Payload(d)
            rest == IF ff % 16384 # 0 THEN Unsupported(summed, w - h, 14 + w)
                    ELSE CASE At(d, 9) = 1  -> Icmp(p, 14 + h, summed)
                           [] At(d, 9) = 17 -> Udp(d, p, 14 + h, summed)
                           [] At(d, 9) = 6  -> Tcp(d, p, 14 + h, summed)
                           [] OTHER         -> Unsupported(summed, w - h, 14 + w)
            x == Ipv4(d, r)
            ip == ParseIpv4(d)
            t == Transport(d)
            good == ip.status = "OK"
<1>1. SoFar(a, 2) /\ IsReport(a) /\ a.status = "OK" /\ LastLayer(a) = "IPV4" /\ ~Mismatched(a)
  BY LayerNext DEF LayerNames
<1>2. x = IF n < 20 THEN Stopped(a, "TRUNCATED", 14 + n)
          ELSE IF v # 4 \/ h < 20 THEN Stopped(a, "MALFORMED", 15)
          ELSE IF h > n THEN Stopped(a, "TRUNCATED", 14 + n)
          ELSE IF w < h THEN Stopped(a, "MALFORMED", 14 + h)
          ELSE IF w > n THEN Stopped(a, "TRUNCATED", 14 + n)
          ELSE IF ff >= 32768 THEN Stopped(summed, "MALFORMED", 22)
          ELSE rest
  BY DEF Ipv4
<1>3. good <=> Framed(d) /\ ff < 32768 /\ right
  BY Ipv4Parsed
<1>4. Framed(d) <=> n >= 20 /\ v = 4 /\ h >= 20 /\ h <= n /\ w >= h /\ w <= n
  BY DEF Framed
<1>5. n \in Nat
  OBVIOUS
<1>6. n >= 20 => h \in Nat /\ w \in Nat /\ ff \in Nat
  <2>. SUFFICES ASSUME n >= 20 PROVE h \in Nat /\ w \in Nat /\ ff \in Nat
    OBVIOUS
  <2>1. w \in Half /\ ff \in Half
    BY WordHalf
  <2>2. h \in Nat
    BY HeaderLengthRange
  <2>. QED
    BY <2>1, <2>2 DEF Half
<1>7. Framed(d) => /\ SoFar(summed, 2) /\ IsReport(summed) /\ LastLayer(summed) = "IPV4"
                   /\ Mismatched(summed) <=> ~right
  <2>. SUFFICES ASSUME Framed(d)
                PROVE  /\ SoFar(summed, 2) /\ IsReport(summed) /\ LastLayer(summed) = "IPV4"
                       /\ Mismatched(summed) <=> ~right
    OBVIOUS
  <2>1. Slice(d, 0, h) \in Seq(Byte) /\ Len(Slice(d, 0, h)) \in Twice16
    BY FramedBytes
  <2>. HIDE DEF a, h, summed
  <2>2. /\ IsReport(summed) /\ summed.status = a.status /\ summed.layers = a.layers
        /\ Mismatched(summed) <=> Mismatched(a) \/ ~right
    BY <1>1, <2>1, ChecksumRecorded DEF summed
  <2>. QED
    BY <1>1, <2>2, SoFarKept
<1>8. Framed(d) => /\ Accepts(rest) <=> right /\ t.status = "OK"
                   /\ t.status = "OK" => rest.payload_length = Len(t.payload)
  <2>. SUFFICES ASSUME Framed(d)
                PROVE  /\ Accepts(rest) <=> right /\ t.status = "OK"
                       /\ t.status = "OK" => rest.payload_length = Len(t.payload)
    OBVIOUS
  <2>. HIDE DEF summed, right, t
  <2>1. /\ Accepts(rest) <=> ~Mismatched(summed) /\ t.status = "OK"
        /\ t.status = "OK" => rest.payload_length = Len(t.payload)
    BY <1>7, TransportAgrees DEF t
  <2>. HIDE DEF rest
  <2>. QED
    BY <1>7, <2>1
<1>9. good => ReadTransport(ip) = t
  BY TransportRead
<1>. DEFINE ok == good /\ ReadTransport(ip).status = "OK"
<1>. HIDE DEF a, n, h, w, v, summed, right, ff, rest, x, good, t, ip
<1>10. (Accepts(x) <=> ok) /\ (ok => x.payload_length = Len(ReadTransport(ip).payload))
  <2>1. CASE ~Framed(d)
    <3>1. \E code \in {"TRUNCATED", "MALFORMED"} : \E parsed : x = Stopped(a, code, parsed)
      <4>1. CASE n < 20
        BY <1>2, <4>1
      <4>2. CASE ~(n < 20)
        <5>1. h \in Nat /\ w \in Nat /\ n >= 20
          BY <1>5, <1>6, <4>2
        <5>2. v # 4 \/ h < 20 \/ h > n \/ w < h \/ w > n
          BY <1>4, <1>5, <2>1, <5>1
        <5>. QED
          BY <1>2, <4>2, <5>2
      <4>. QED
        BY <4>1, <4>2
    <3>2. PICK code \in {"TRUNCATED", "MALFORMED"} : \E parsed : x = Stopped(a, code, parsed)
      BY <3>1
    <3>3. PICK parsed : x = Stopped(a, code, parsed)
      BY <3>2
    <3>4. LastLayer(a) \notin {"DNS", "HTTP"}
      BY <1>1
    <3>5. ~Accepts(x)
      BY <1>1, <3>3, <3>4, Refuses
    <3>. QED
      BY <1>3, <2>1, <3>5
  <2>2. CASE Framed(d)
    <3>1. ~(n < 20) /\ v = 4 /\ ~(h < 20) /\ ~(h > n) /\ ~(w < h) /\ ~(w > n) /\ ff \in Nat
      BY <1>4, <1>5, <1>6, <2>2
    <3>2. x = IF ff >= 32768 THEN Stopped(summed, "MALFORMED", 22) ELSE rest
      BY <1>2, <3>1
    <3>3. CASE ff >= 32768
      <4>1. x = Stopped(summed, "MALFORMED", 22) /\ ~(ff < 32768)
        BY <3>1, <3>2, <3>3
      <4>2. LastLayer(summed) \notin {"DNS", "HTTP"}
        BY <1>7, <2>2
      <4>3. ~Accepts(x)
        BY <1>7, <2>2, <4>1, <4>2, Refuses
      <4>. QED
        BY <1>3, <4>1, <4>3
    <3>4. CASE ~(ff >= 32768)
      <4>1. x = rest /\ ff < 32768
        BY <3>1, <3>2, <3>4
      <4>2. good <=> right
        BY <1>3, <2>2, <4>1
      <4>. QED
        BY <1>8, <1>9, <2>2, <4>1, <4>2
    <3>. QED
      BY <3>3, <3>4
  <2>. QED
    BY <2>1, <2>2
<1>. QED
  BY <1>10 DEF x, ip, good

LEMMA ArpAgrees ==
  ASSUME NEW r, SoFar(r, 1), ~Mismatched(r), NEW d \in Seq(Byte)
  PROVE  LET x  == Arp(d, r)
             ok == ParseArp(d).status = "OK"
         IN  /\ Accepts(x) <=> ok
             /\ ok => x.payload_length = 28 /\ Len(d) >= 28
<1>. DEFINE a == AddLayer(r, "ARP")
            n == Len(d)
            k == 8 + 2 * (At(d, 4) + At(d, 5))
            right == ArpOfEthernetAndIpv4(d)
            x == Arp(d, r)
            ok == ParseArp(d).status = "OK"
<1>1. IsReport(a) /\ a.status = "OK" /\ LastLayer(a) = "ARP" /\ ~Mismatched(a)
  BY LayerNext DEF LayerNames
<1>2. x = IF n < 8 \/ k > n THEN Stopped(a, "TRUNCATED", 14 + n)
          ELSE IF ~right THEN Stopped(a, "MALFORMED", 14 + k)
          ELSE WithLengths(a, k, 14 + k)
  BY DEF Arp, WithLengths
<1>3. ok <=> ~(n < 28) /\ right
  BY DEF ParseArp, Refused
<1>4. right => k = 28
  BY DEF ArpOfEthernetAndIpv4
<1>5. n \in Nat
  OBVIOUS
<1>6. n >= 8 => k \in Nat
  <2>. SUFFICES ASSUME n >= 8 PROVE k \in Nat
    OBVIOUS
  <2>1. At(d, 4) \in Byte /\ At(d, 5) \in Byte
    BY AtByte
  <2>2. At(d, 4) \in Nat /\ At(d, 5) \in Nat
    BY <2>1, ByteRange
  <2>. QED
    BY <2>2
<1>. HIDE DEF a, n, k, right, x, ok
<1>7. CASE n < 8 \/ k > n \/ ~right
  <2>1. \E code \in {"TRUNCATED", "MALFORMED"} : \E parsed : x = Stopped(a, code, parsed)
    BY <1>2, <1>7
  <2>2. PICK code \in {"TRUNCATED", "MALFORMED"} : \E parsed : x = Stopped(a, code, parsed)
    BY <2>1
  <2>3. PICK parsed : x = Stopped(a, code, parsed)
    BY <2>2
  <2>4. LastLayer(a) \notin {"DNS", "HTTP"}
    BY <1>1
  <2>5. ~Accepts(x)
    BY <1>1, <2>3, <2>4, Refuses
  <2>6. n < 28 \/ ~right
    BY <1>4, <1>5, <1>7
  <2>. QED
    BY <1>3, <2>5, <2>6 DEF x, ok
<1>8. CASE ~(n < 8 \/ k > n \/ ~right)
  <2>1. x = WithLengths(a, k, 14 + k) /\ right /\ k = 28
    BY <1>2, <1>4, <1>8
  <2>2. Alike(x, a) /\ x.status = "OK" /\ x.payload_length = 28
    BY <1>1, <2>1, ReportLengths
  <2>3. Accepts(x)
    BY <1>1, <2>2 DEF Accepts, Alike
  <2>4. ok /\ n >= 28
    <3>1. ~(n < 28)
      BY <1>5, <1>8, <2>1
    <3>. QED
      BY <1>3, <1>5, <2>1, <3>1
  <2>. QED
    BY <2>2, <2>3, <2>4 DEF x, ok, n
<1>. QED
  BY <1>7, <1>8

LEMMA FrameAgrees ==
  ASSUME NEW f \in Seq(Byte), Len(f) >= 14, Word(f, 12) >= 1536
  PROVE  LET r    == Diagnose(f)
             read == Read(f)
         IN  /\ read.status = "OK" <=> Accepts(r)
             /\ read.status = "OK" => r.payload_length = Len(read.payload)
<1>. DEFINE a == AddLayer(Blank, "ETHERNET")
            d == From(f, 14)
            w == Word(f, 12)
            r == Diagnose(f)
            read == Read(f)
            ip == ParseIpv4(d)
            arp == ParseArp(d)
<1>1. SoFar(a, 1) /\ IsReport(a) /\ a.status = "OK" /\ LastLayer(a) = "ETHERNET" /\ ~Mismatched(a)
  <2>1. "ETHERNET" \in LayerNames
    BY DEF LayerNames
  <2>. QED
    BY <2>1, BlankReport, LayerNext DEF SoFar
<1>2. d \in Seq(Byte)
  BY FromBytes
<1>3. r = IF w = 2054 THEN Arp(d, a) ELSE IF w = 2048 THEN Ipv4(d, a) ELSE Unsupported(a, 0, 14)
  BY DEF Diagnose
<1>4. w \in Nat
  BY WordHalf DEF Half
<1>5. read = CASE w = 2048 -> IF ip.status = "OK" THEN ReadTransport(ip) ELSE Refused("REFUSED")
               [] w = 2054 -> IF arp.status = "OK" THEN Delivered(Slice(f, 14, 28)) ELSE Refused("REFUSED")
               [] OTHER -> Delivered(<<>>)
  <2>1. ~(Len(f) < 14) /\ ~(w < 1536)
    BY <1>4
  <2>2. ParseEthernet(f) = [status |-> "OK", ether_type |-> w, payload |-> d]
    BY <2>1 DEF ParseEthernet
  <2>3. ParseEthernet(f).status = "OK" /\ ParseEthernet(f).ether_type = w /\ ParseEthernet(f).payload = d
    BY <2>2
  <2>. HIDE DEF w, d
  <2>. QED
    BY <2>3 DEF Read
<1>. HIDE DEF a, w, r, read, ip, arp
<1>6. CASE w = 2048
  <2>1. r = Ipv4(d, a)
    BY <1>3, <1>6
  <2>2. read = IF ip.status = "OK" THEN ReadTransport(ip) ELSE Refused("REFUSED")
    BY <1>5, <1>6
  <2>. DEFINE t == ReadTransport(ip)
              ok == ip.status = "OK" /\ t.status = "OK"
  <2>3. (Accepts(r) <=> ok) /\ (ok => r.payload_length = Len(t.payload))
    <3>. HIDE DEF d
    <3>1. LastLayer(a) \notin {"DNS", "HTTP"}
      BY <1>1
    <3>. QED
      BY <1>1, <1>2, <2>1, <3>1, Ipv4Agrees DEF ip
  <2>. HIDE DEF t, d
  <2>4. (read.status = "OK" <=> ok) /\ (ok => read = t)
    BY <2>2 DEF Refused, t
  <2>. QED
    BY <2>3, <2>4 DEF r, read
<1>7. CASE w = 2054
  <2>1. r = Arp(d, a)
    BY <1>3, <1>7
  <2>2. read = IF arp.status = "OK" THEN Delivered(Slice(f, 14, 28)) ELSE Refused("REFUSED")
    BY <1>5, <1>7
  <2>3. (Accepts(r) <=> arp.status = "OK") /\ (arp.status = "OK" => r.payload_length = 28 /\ Len(d) >= 28)
    BY <1>1, <1>2, <2>1, ArpAgrees DEF arp
  <2>4. Len(d) = Len(f) - 14
    BY FromBytes
  <2>5. arp.status = "OK" => Len(Slice(f, 14, 28)) = 28
    <3>. SUFFICES ASSUME arp.status = "OK" PROVE Len(Slice(f, 14, 28)) = 28
      OBVIOUS
    <3>. HIDE DEF d
    <3>1. Len(f) >= 42
      <4>1. Len(d) >= 28 /\ Len(f) \in Nat
        BY <2>3
      <4>. QED
        BY <2>4, <4>1
    <3>. QED
      BY <3>1 DEF Slice
  <2>6. (read.status = "OK" <=> arp.status = "OK") /\ (arp.status = "OK" => read.payload = Slice(f, 14, 28))
    BY <2>2 DEF Delivered, Refused
  <2>. QED
    BY <2>3, <2>5, <2>6, ZenonT(60) DEF r, read
<1>8. CASE w # 2048 /\ w # 2054
  <2>1. r = Unsupported(a, 0, 14) /\ read = Delivered(<<>>)
    BY <1>3, <1>5, <1>8
  <2>2. Accepts(r) /\ r.payload_length = 0
    BY <1>1, <2>1, TakesUnsupported
  <2>3. read.status = "OK" /\ Len(read.payload) = 0
    BY <2>1 DEF Delivered
  <2>. QED
    BY <2>2, <2>3 DEF r, read
<1>. QED
  BY <1>6, <1>7, <1>8

-----------------------------------------------------------------------------
(* Parts of a sequence in which a word was written.                          *)

LEMMA SlicePut ==
  ASSUME NEW d \in Seq(Byte), NEW a \in Nat, NEW n \in Nat, a + n <= Len(d),
         NEW o \in Nat, a <= o, o + 2 <= a + n, NEW w \in Half
  PROVE  /\ Slice(Put(d, o, w), a, n) = Put(Slice(d, a, n), o - a, w)
         /\ Word(Slice(d, a, n), o - a) = Word(d, o)
<1>. DEFINE p == Put(d, o, w)
            s == Slice(d, a, n)
            q == o - a
            x == Slice(p, a, n)
            y == Put(s, q, w)
<1>1. q \in Nat /\ q + 2 <= n /\ a + q = o
  OBVIOUS
<1>2. s \in Seq(Byte) /\ Len(s) = n /\ \A i \in 0..(n - 1) : At(s, i) = At(d, a + i)
  BY SliceBytes
<1>3. /\ p \in Seq(Byte) /\ Len(p) = Len(d)
      /\ \A i \in 0..(Len(d) - 1) :
           At(p, i) = IF i = o THEN w \div 256 ELSE IF i = o + 1 THEN w % 256 ELSE At(d, i)
  <2>1. o + 2 <= Len(d)
    OBVIOUS
  <2>. QED
    BY <2>1, PutBytes
<1>. HIDE DEF p, s, q
<1>4. x \in Seq(Byte) /\ Len(x) = n /\ \A i \in 0..(n - 1) : At(x, i) = At(p, a + i)
  BY <1>3, SliceBytes
<1>5. /\ y \in Seq(Byte) /\ Len(y) = n
      /\ \A i \in 0..(n - 1) :
           At(y, i) = IF i = q THEN w \div 256 ELSE IF i = q + 1 THEN w % 256 ELSE At(s, i)
  <2>1. s \in Seq(Byte) /\ q \in Nat /\ q + 2 <= Len(s) /\ Len(s) = n
    BY <1>1, <1>2
  <2>2. /\ y \in Seq(Byte) /\ Len(y) = Len(s)
        /\ \A i \in 0..(Len(s) - 1) :
             At(y, i) = IF i = q THEN w \div 256 ELSE IF i = q + 1 THEN w % 256 ELSE At(s, i)
    <3>1. /\ Put(s, q, w) \in Seq(Byte)
          /\ Len(Put(s, q, w)) = Len(s)
      BY <2>1, PutBytes
    <3>2. ASSUME NEW i \in 0..(Len(s) - 1)
          PROVE  At(Put(s, q, w), i) = IF i = q THEN w \div 256 ELSE IF i = q + 1 THEN w % 256 ELSE At(s, i)
      BY <2>1, PutBytes
    <3>. QED
      BY <3>1, <3>2
  <2>. HIDE DEF y
  <2>. QED
    BY <2>1, <2>2
<1>. HIDE DEF x, y
<1>6. ASSUME NEW i \in 0..(n - 1) PROVE At(x, i) = At(y, i)
  <2>1. a + i \in 0..(Len(d) - 1)
    OBVIOUS
  <2>2. (a + i = o <=> i = q) /\ (a + i = o + 1 <=> i = q + 1)
    BY <1>1
  <2>3. At(x, i) = At(p, a + i) /\ At(s, i) = At(d, a + i)
    BY <1>2, <1>4
  <2>4. At(p, a + i) = IF i = q THEN w \div 256 ELSE IF i = q + 1 THEN w % 256 ELSE At(d, a + i)
    BY <1>3, <2>1, <2>2
  <2>5. At(y, i) = IF i = q THEN w \div 256 ELSE IF i = q + 1 THEN w % 256 ELSE At(s, i)
    BY <1>5
  <2>. QED
    BY <2>3, <2>4, <2>5
<1>7. x = y
  BY <1>4, <1>5, <1>6, SameBytes
<1>8. Word(s, q) = Word(d, o)
  <2>1. q \in 0..(n - 1) /\ q + 1 \in 0..(n - 1) /\ a + (q + 1) = o + 1
    BY <1>1
  <2>2. At(s, q) = At(d, o) /\ At(s, q + 1) = At(d, o + 1)
    BY <1>1, <1>2, <2>1
  <2>. QED
    BY <2>2 DEF Word
<1>. QED
  BY <1>7, <1>8 DEF p, s, q, x, y

LEMMA FromPut ==
  ASSUME NEW d \in Seq(Byte), NEW a \in Nat, NEW o \in Nat, a <= o, o + 2 <= Len(d), NEW w \in Half
  PROVE  /\ From(Put(d, o, w), a) = Put(From(d, a), o - a, w)
         /\ Word(From(d, a), o - a) = Word(d, o)
<1>. DEFINE n == Len(d) - a
<1>1. n \in Nat /\ a + n = Len(d) /\ a <= Len(d)
  OBVIOUS
<1>2. Put(d, o, w) \in Seq(Byte) /\ Len(Put(d, o, w)) = Len(d)
  BY PutBytes
<1>3. From(Put(d, o, w), a) = Slice(Put(d, o, w), a, n) /\ From(d, a) = Slice(d, a, n)
  BY <1>1, <1>2, FromBytes
<1>. HIDE DEF n
<1>4. /\ Slice(Put(d, o, w), a, n) = Put(Slice(d, a, n), o - a, w)
      /\ Word(Slice(d, a, n), o - a) = Word(d, o)
  <2>1. n \in Nat /\ a + n <= Len(d) /\ o + 2 <= a + n
    BY <1>1
  <2>. QED
    BY <2>1, SlicePut
<1>. QED
  BY <1>3, <1>4

LEMMA JoinPut ==
  ASSUME NEW d \in Seq(Byte), NEW e \in Seq(Byte), NEW o \in Nat, o + 2 <= Len(e), NEW w \in Half
  PROVE  /\ d \o Put(e, o, w) = Put(d \o e, Len(d) + o, w)
         /\ Word(d \o e, Len(d) + o) = Word(e, o)
<1>. DEFINE p == Put(e, o, w)
            s == d \o e
            k == Len(d)
            q == k + o
            x == d \o p
            y == Put(s, q, w)
<1>1. k \in Nat /\ q \in Nat /\ Len(e) \in Nat
  OBVIOUS
<1>2. /\ s \in Seq(Byte) /\ Len(s) = k + Len(e)
      /\ \A i \in 0..(k - 1) : At(s, i) = At(d, i)
      /\ \A i \in 0..(Len(e) - 1) : At(s, k + i) = At(e, i)
  BY JoinBytes
<1>3. /\ p \in Seq(Byte) /\ Len(p) = Len(e)
      /\ \A i \in 0..(Len(e) - 1) :
           At(p, i) = IF i = o THEN w \div 256 ELSE IF i = o + 1 THEN w % 256 ELSE At(e, i)
  BY PutBytes
<1>. HIDE DEF p, s
<1>4. /\ x \in Seq(Byte) /\ Len(x) = k + Len(p)
      /\ \A i \in 0..(k - 1) : At(x, i) = At(d, i)
      /\ \A i \in 0..(Len(p) - 1) : At(x, k + i) = At(p, i)
  BY <1>3, JoinBytes
<1>5. /\ y \in Seq(Byte) /\ Len(y) = Len(s)
      /\ \A i \in 0..(Len(s) - 1) :
           At(y, i) = IF i = q THEN w \div 256 ELSE IF i = q + 1 THEN w % 256 ELSE At(s, i)
  <2>. HIDE DEF k
  <2>1. q + 2 <= Len(s)
    BY <1>1, <1>2
  <2>. QED
    BY <1>1, <1>2, <2>1, PutBytes
<1>. HIDE DEF x, y, k
<1>6. ASSUME NEW i \in 0..(Len(s) - 1) PROVE At(x, i) = At(y, i)
  <2>1. CASE i < k
    <3>1. i \in 0..(k - 1) /\ i # q /\ i # q + 1
      BY <1>1, <2>1
    <3>. QED
      BY <1>2, <1>4, <1>5, <3>1
  <2>2. CASE ~(i < k)
    <3>. DEFINE j == i - k
    <3>1. j \in 0..(Len(e) - 1) /\ k + j = i /\ (i = q <=> j = o) /\ (i = q + 1 <=> j = o + 1)
      BY <1>1, <1>2, <2>2
    <3>. HIDE DEF j
    <3>2. At(x, i) = At(p, j) /\ At(s, i) = At(e, j)
      BY <1>2, <1>3, <1>4, <3>1
    <3>3. At(p, j) = IF i = q THEN w \div 256 ELSE IF i = q + 1 THEN w % 256 ELSE At(e, j)
      BY <1>3, <3>1
    <3>4. At(y, i) = IF i = q THEN w \div 256 ELSE IF i = q + 1 THEN w % 256 ELSE At(s, i)
      BY <1>5
    <3>. QED
      BY <3>2, <3>3, <3>4
  <2>. QED
    BY <2>1, <2>2
<1>7. x = y
  BY <1>2, <1>3, <1>4, <1>5, <1>6, SameBytes
<1>8. Word(s, q) = Word(e, o)
  <2>1. o \in 0..(Len(e) - 1) /\ o + 1 \in 0..(Len(e) - 1) /\ k + (o + 1) = q + 1
    BY <1>1
  <2>2. At(s, k + o) = At(e, o) /\ At(s, k + (o + 1)) = At(e, o + 1)
    BY <1>2, <2>1
  <2>. QED
    BY <2>1, <2>2 DEF Word
<1>. QED
  BY <1>7, <1>8 DEF p, s, k, x, y

(* A part that the written word is not in.                                   *)
LEMMA SliceKept ==
  ASSUME NEW d \in Seq(Byte), NEW e \in Seq(Byte), Len(e) = Len(d),
         NEW a \in Nat, NEW n \in Nat, a + n <= Len(d),
         \A i \in 0..(Len(d) - 1) : a <= i /\ i < a + n => At(e, i) = At(d, i)
  PROVE  Slice(e, a, n) = Slice(d, a, n)
<1>. DEFINE x == Slice(e, a, n)
            y == Slice(d, a, n)
<1>1. x \in Seq(Byte) /\ Len(x) = n /\ \A i \in 0..(n - 1) : At(x, i) = At(e, a + i)
  BY SliceBytes
<1>2. y \in Seq(Byte) /\ Len(y) = n /\ \A i \in 0..(n - 1) : At(y, i) = At(d, a + i)
  BY SliceBytes
<1>. HIDE DEF x, y
<1>3. ASSUME NEW i \in 0..(n - 1) PROVE At(x, i) = At(y, i)
  <2>1. a + i \in 0..(Len(d) - 1) /\ a <= a + i /\ a + i < a + n
    OBVIOUS
  <2>2. At(e, a + i) = At(d, a + i)
    BY <2>1
  <2>. QED
    BY <1>1, <1>2, <2>2
<1>4. x = y
  BY <1>1, <1>2, <1>3, SameBytes
<1>. QED
  BY <1>4 DEF x, y

LEMMA WordKept ==
  ASSUME NEW d \in Seq(Byte), NEW e \in Seq(Byte), NEW o \in Nat,
         At(e, o) = At(d, o), At(e, o + 1) = At(d, o + 1)
  PROVE  Word(e, o) = Word(d, o)
BY DEF Word

-----------------------------------------------------------------------------
(* Packets that are built and forwarded.                                     *)

LEMMA ChecksumWritten ==
  ASSUME NEW d \in Seq(Byte), Len(d) >= 20, HeaderLength(d) <= Len(d)
  PROVE  LET e == WithChecksum(d)
         IN  /\ e \in Seq(Byte) /\ Len(e) = Len(d)
             /\ \A i \in 0..(Len(d) - 1) : i # 10 /\ i # 11 => At(e, i) = At(d, i)
             /\ HeaderLength(d) >= 20 => InternetChecksum(Slice(e, 0, HeaderLength(d))) = 0
<1>. DEFINE h == HeaderLength(d)
            f == Put(d, 10, 0)
            s == Slice(f, 0, h)
            c == InternetChecksum(s)
            e == WithChecksum(d)
<1>1. h \in Nat /\ h <= Len(d) /\ Len(d) \in Nat
  BY HeaderLengthRange
<1>2. 10 \in Nat /\ 10 + 2 <= Len(d) /\ 0 \in Half
  BY DEF Half
<1>3. /\ f \in Seq(Byte) /\ Len(f) = Len(d) /\ Word(f, 10) = 0
      /\ \A i \in 0..(Len(d) - 1) :
           At(f, i) = IF i = 10 THEN 0 \div 256 ELSE IF i = 10 + 1 THEN 0 % 256 ELSE At(d, i)
  BY <1>2, PutBytes
<1>. HIDE DEF f
<1>4. s \in Seq(Byte) /\ Len(s) = h
  <2>. HIDE DEF h
  <2>1. 0 + h <= Len(f) /\ 0 \in Nat
    BY <1>1, <1>3
  <2>. QED
    BY <1>1, <1>3, <2>1, SliceBytes
<1>5. c \in Half
  BY <1>4, ChecksumHalf
<1>6. e = Put(d, 10, c)
  BY DEF WithChecksum, f
<1>. HIDE DEF e, c, s, h
<1>7. /\ e \in Seq(Byte) /\ Len(e) = Len(d)
      /\ \A i \in 0..(Len(d) - 1) :
           At(e, i) = IF i = 10 THEN c \div 256 ELSE IF i = 10 + 1 THEN c % 256 ELSE At(d, i)
  BY <1>2, <1>5, <1>6, PutBytes
<1>8. ASSUME h >= 20 PROVE InternetChecksum(Slice(e, 0, h)) = 0
  <2>. DEFINE g == Put(f, 10, c)
  <2>1. /\ g \in Seq(Byte) /\ Len(g) = Len(f)
        /\ \A i \in 0..(Len(f) - 1) :
             At(g, i) = IF i = 10 THEN c \div 256 ELSE IF i = 10 + 1 THEN c % 256 ELSE At(f, i)
    BY <1>2, <1>3, <1>5, PutBytes
  <2>. HIDE DEF g
  <2>2. e = g
    <3>1. ASSUME NEW i \in 0..(Len(e) - 1) PROVE At(e, i) = At(g, i)
      <4>1. i \in 0..(Len(d) - 1) /\ i \in 0..(Len(f) - 1)
        BY <1>3, <1>7
      <4>2. CASE i = 10 \/ i = 11
        BY <1>7, <2>1, <4>1, <4>2
      <4>3. CASE i # 10 /\ i # 11
        <5>1. At(e, i) = At(d, i) /\ At(g, i) = At(f, i) /\ At(f, i) = At(d, i)
          BY <1>3, <1>7, <2>1, <4>1, <4>3
        <5>. QED
          BY <5>1
      <4>. QED
        BY <4>2, <4>3
    <3>. QED
      BY <1>3, <1>7, <2>1, <3>1, SameBytes
  <2>3. Slice(g, 0, h) = Put(s, 10, c) /\ Word(s, 10) = 0
    <3>1. 0 \in Nat /\ 0 + h <= Len(f) /\ 0 <= 10 /\ 10 + 2 <= 0 + h /\ 10 - 0 = 10
      BY <1>1, <1>3, <1>8
    <3>2. Slice(Put(f, 10, c), 0, h) = Put(Slice(f, 0, h), 10 - 0, c) /\ Word(Slice(f, 0, h), 10 - 0) = Word(f, 10)
      BY <1>1, <1>2, <1>3, <1>5, <3>1, SlicePut
    <3>. QED
      BY <1>3, <3>1, <3>2 DEF g, s
  <2>4. InternetChecksum(Put(s, 10, c)) = 0
    <3>1. 5 \in Nat /\ 2 * 5 = 10 /\ 2 * 5 + 2 <= Len(s)
      BY <1>1, <1>4, <1>8
    <3>2. Word(s, 2 * 5) = 0
      BY <2>3, <3>1
    <3>3. InternetChecksum(Put(s, 2 * 5, InternetChecksum(s))) = 0
      BY <1>4, <3>1, <3>2, ChecksumVerifies
    <3>. QED
      BY <3>1, <3>3 DEF c
  <2>. QED
    BY <2>2, <2>3, <2>4
<1>9. \A i \in 0..(Len(d) - 1) : i # 10 /\ i # 11 => At(e, i) = At(d, i)
  BY <1>7
<1>. QED
  BY <1>7, <1>8, <1>9 DEF e, h

(* Two packets that differ in TTL and header checksum alone.                 *)
Rest(d, e) ==
  /\ d \in Seq(Byte) /\ e \in Seq(Byte) /\ Len(e) = Len(d)
  /\ \A i \in 0..(Len(d) - 1) : i \notin {8, 10, 11} => At(e, i) = At(d, i)

LEMMA FieldsKept ==
  ASSUME NEW d, NEW e, Rest(d, e), Framed(d)
  PROVE  /\ Framed(e) /\ HeaderLength(e) = HeaderLength(d) /\ Word(e, 2) = Word(d, 2)
         /\ Word(e, 6) = Word(d, 6) /\ At(e, 9) = At(d, 9)
         /\ Payload(e) = Payload(d) /\ Transport(e) = Transport(d)
<1>. DEFINE n == Len(d)
            h == HeaderLength(d)
            w == Word(d, 2)
<1>1. /\ d \in Seq(Byte) /\ e \in Seq(Byte) /\ Len(e) = n /\ n \in Nat
      /\ \A i \in 0..(n - 1) : i \notin {8, 10, 11} => At(e, i) = At(d, i)
  BY DEF Rest
<1>2. n >= 20 /\ h >= 20 /\ h <= n /\ w >= h /\ w <= n
  BY DEF Framed
<1>3. h \in Nat /\ w \in Nat
  BY <1>1, FramedBytes
<1>. HIDE DEF n
<1>4. 0 \in 0..(n - 1) /\ 2 \in 0..(n - 1) /\ 3 \in 0..(n - 1) /\ 6 \in 0..(n - 1) /\ 7 \in 0..(n - 1)
      /\ 9 \in 0..(n - 1)
  BY <1>1, <1>2
<1>5. /\ At(e, 0) = At(d, 0) /\ At(e, 2) = At(d, 2) /\ At(e, 3) = At(d, 3) /\ At(e, 6) = At(d, 6)
      /\ At(e, 7) = At(d, 7) /\ At(e, 9) = At(d, 9)
  BY <1>1, <1>4
<1>6. HeaderLength(e) = h /\ Word(e, 2) = w /\ Word(e, 6) = Word(d, 6)
  BY <1>5 DEF HeaderLength, Word
<1>7. Framed(e)
  <2>1. At(e, 0) \div 16 = At(d, 0) \div 16
    BY <1>5
  <2>. QED
    BY <1>1, <1>6, <2>1 DEF Framed, n
<1>8. ASSUME NEW a \in Nat, NEW k \in Nat, a >= 12, a + k <= n
      PROVE  Slice(e, a, k) = Slice(d, a, k)
  <2>1. \A i \in 0..(Len(d) - 1) : a <= i /\ i < a + k => At(e, i) = At(d, i)
    <3>. SUFFICES ASSUME NEW i \in 0..(Len(d) - 1), a <= i PROVE At(e, i) = At(d, i)
      OBVIOUS
    <3>1. i \notin {8, 10, 11}
      BY <1>8
    <3>. QED
      BY <1>1, <3>1 DEF n
  <2>2. Len(e) = Len(d) /\ a + k <= Len(d)
    BY <1>1, <1>8 DEF n
  <2>. QED
    BY <1>1, <2>1, <2>2, SliceKept
<1>. HIDE DEF h, w
<1>9. Slice(e, 12, 4) = Slice(d, 12, 4) /\ Slice(e, 16, 4) = Slice(d, 16, 4)
      /\ Slice(e, h, w - h) = Slice(d, h, w - h)
  <2>1. 12 \in Nat /\ 16 \in Nat /\ 4 \in Nat /\ 12 >= 12 /\ 16 >= 12 /\ 12 + 4 <= n /\ 16 + 4 <= n
    BY <1>1, <1>2
  <2>2. h \in Nat /\ w - h \in Nat /\ h >= 12 /\ h + (w - h) <= n
    BY <1>1, <1>2, <1>3
  <2>3. Slice(e, 12, 4) = Slice(d, 12, 4)
    BY <1>8, <2>1
  <2>4. Slice(e, 16, 4) = Slice(d, 16, 4)
    BY <1>8, <2>1
  <2>5. Slice(e, h, w - h) = Slice(d, h, w - h)
    BY <1>8, <2>2
  <2>. QED
    BY <2>3, <2>4, <2>5
<1>10. Payload(e) = Payload(d)
  BY <1>6, <1>9 DEF Payload, h, w
<1>11. Transport(e) = Transport(d)
  BY <1>5, <1>6, <1>9, <1>10 DEF Transport
<1>. QED
  BY <1>5, <1>6, <1>7, <1>10, <1>11 DEF h, w

(* What decrement_ttl makes of a packet.                                     *)
LEMMA Forwarded ==
  ASSUME NEW d \in Seq(Byte), DecrementTtl(d).status = "OK"
  PROVE  LET e == DecrementTtl(d).bytes
         IN  /\ ParseIpv4(d).status = "OK" /\ Rest(d, e)
             /\ InternetChecksum(Slice(e, 0, HeaderLength(d))) = 0
<1>. DEFINE g == [d EXCEPT ![9] = @ - 1]
            out == DecrementTtl(d)
<1>1. ParseIpv4(d).status = "OK" /\ ~(At(d, 8) <= 1) /\ out = Built(WithChecksum(g))
  BY DEF DecrementTtl, Refused
<1>2. Framed(d)
  BY <1>1, Ipv4Parsed
<1>3. Len(d) >= 20 /\ HeaderLength(d) <= Len(d) /\ HeaderLength(d) >= 20
  BY <1>2 DEF Framed
<1>4. d[9] \in Nat /\ d[9] <= 255 /\ ~(d[9] <= 1)
  <2>1. 8 \in Nat /\ 8 < Len(d)
    BY <1>3
  <2>2. At(d, 8) \in Nat /\ At(d, 8) <= 255
    BY <2>1, AtByte, ByteRange
  <2>. QED
    BY <1>1, <2>2 DEF At
<1>5. d[9] - 1 \in Byte
  <2>1. d[9] - 1 \in Nat /\ d[9] - 1 <= 255
    BY <1>4
  <2>. QED
    BY <2>1, ByteRange
<1>6. g \in Seq(Byte) /\ Len(g) = Len(d) /\ \A i \in 0..(Len(d) - 1) : i # 8 => At(g, i) = At(d, i)
  <2>. DEFINE less == d[9] - 1
  <2>1. g = [d EXCEPT ![9] = less] /\ less \in Byte
    <3>1. less \in Byte
      BY <1>5
    <3>2. g = [d EXCEPT ![9] = less]
      OBVIOUS
    <3>. QED
      BY <3>1, <3>2
  <2>. HIDE DEF g, less
  <2>2. g \in Seq(Byte) /\ Len(g) = Len(d)
    <3>1. Len(d) \in Nat /\ d \in [1..Len(d) -> Byte]
      OBVIOUS
    <3>2. g \in [1..Len(d) -> Byte]
      BY <2>1, <3>1
    <3>. QED
      BY <3>1, <3>2
  <2>3. ASSUME NEW i \in 0..(Len(d) - 1), i # 8
        PROVE  At(g, i) = At(d, i)
    <3>1. i + 1 \in 1..Len(d) /\ i + 1 # 9
      BY <2>3
    <3>2. g[i + 1] = d[i + 1]
      BY <2>1, <3>1
    <3>. QED
      BY <3>2 DEF At
  <2>. QED
    BY <2>2, <2>3
<1>. HIDE DEF g
<1>7. HeaderLength(g) = HeaderLength(d)
  <2>1. 0 \in 0..(Len(d) - 1) /\ 0 # 8
    BY <1>3
  <2>. QED
    BY <1>6, <2>1 DEF HeaderLength
<1>. DEFINE e == WithChecksum(g)
<1>8. /\ e \in Seq(Byte) /\ Len(e) = Len(g)
      /\ \A i \in 0..(Len(g) - 1) : i # 10 /\ i # 11 => At(e, i) = At(g, i)
      /\ InternetChecksum(Slice(e, 0, HeaderLength(g))) = 0
  <2>1. Len(g) >= 20 /\ HeaderLength(g) <= Len(g) /\ HeaderLength(g) >= 20
    BY <1>3, <1>6, <1>7
  <2>. QED
    BY <1>6, <2>1, ChecksumWritten
<1>9. out.bytes = e
  BY <1>1 DEF Built
<1>. HIDE DEF e, out
<1>10. Rest(d, e)
  BY <1>6, <1>8 DEF Rest
<1>. QED
  BY <1>1, <1>7, <1>8, <1>9, <1>10 DEF out

-----------------------------------------------------------------------------
(* Fields of bytes that are put together.                                    *)

LEMMA JoinFields ==
  ASSUME NEW d \in Seq(Byte), NEW e \in Seq(Byte)
  PROVE  /\ \A o \in Nat : o + 2 <= Len(d) => Word(d \o e, o) = Word(d, o)
         /\ \A o \in Nat : o + 2 <= Len(e) => Word(d \o e, Len(d) + o) = Word(e, o)
         /\ \A a \in Nat, n \in Nat : a + n <= Len(d) => Slice(d \o e, a, n) = Slice(d, a, n)
         /\ \A a \in Nat, n \in Nat : a + n <= Len(e) => Slice(d \o e, Len(d) + a, n) = Slice(e, a, n)
<1>. DEFINE x == d \o e
<1>1. /\ x \in Seq(Byte) /\ Len(x) = Len(d) + Len(e) /\ Len(d) \in Nat /\ Len(e) \in Nat
      /\ \A i \in 0..(Len(d) - 1) : At(x, i) = At(d, i)
      /\ \A i \in 0..(Len(e) - 1) : At(x, Len(d) + i) = At(e, i)
  BY JoinBytes
<1>. HIDE DEF x
<1>2. ASSUME NEW o \in Nat, o + 2 <= Len(d) PROVE Word(x, o) = Word(d, o)
  <2>1. o \in 0..(Len(d) - 1) /\ o + 1 \in 0..(Len(d) - 1)
    BY <1>1, <1>2
  <2>. QED
    BY <1>1, <2>1 DEF Word
<1>3. ASSUME NEW o \in Nat, o + 2 <= Len(e) PROVE Word(x, Len(d) + o) = Word(e, o)
  <2>1. o \in 0..(Len(e) - 1) /\ o + 1 \in 0..(Len(e) - 1) /\ Len(d) + o + 1 = Len(d) + (o + 1)
    BY <1>1, <1>3
  <2>2. At(x, Len(d) + o) = At(e, o) /\ At(x, Len(d) + (o + 1)) = At(e, o + 1)
    BY <1>1, <2>1
  <2>. QED
    BY <2>1, <2>2 DEF Word
<1>4. ASSUME NEW a \in Nat, NEW n \in Nat, a + n <= Len(d) PROVE Slice(x, a, n) = Slice(d, a, n)
  <2>1. a + n <= Len(x)
    BY <1>1, <1>4
  <2>. DEFINE y == Slice(x, a, n)
              z == Slice(d, a, n)
  <2>2. y \in Seq(Byte) /\ Len(y) = n /\ \A i \in 0..(n - 1) : At(y, i) = At(x, a + i)
    BY <1>1, <2>1, SliceBytes
  <2>3. z \in Seq(Byte) /\ Len(z) = n /\ \A i \in 0..(n - 1) : At(z, i) = At(d, a + i)
    BY <1>4, SliceBytes
  <2>. HIDE DEF y, z
  <2>4. ASSUME NEW i \in 0..(Len(y) - 1) PROVE At(y, i) = At(z, i)
    <3>1. i \in 0..(n - 1) /\ a + i \in 0..(Len(d) - 1)
      BY <1>1, <1>4, <2>2
    <3>. QED
      BY <1>1, <2>2, <2>3, <3>1
  <2>. QED
    BY <2>2, <2>3, <2>4, SameBytes DEF y, z
<1>5. ASSUME NEW a \in Nat, NEW n \in Nat, a + n <= Len(e)
      PROVE  Slice(x, Len(d) + a, n) = Slice(e, a, n)
  <2>. DEFINE b == Len(d) + a
              y == Slice(x, b, n)
              z == Slice(e, a, n)
  <2>1. b \in Nat /\ b + n <= Len(x) /\ b = Len(d) + a
    BY <1>1, <1>5
  <2>. HIDE DEF b
  <2>2. y \in Seq(Byte) /\ Len(y) = n /\ \A i \in 0..(n - 1) : At(y, i) = At(x, b + i)
    BY <1>1, <2>1, SliceBytes, ZenonT(60)
  <2>3. z \in Seq(Byte) /\ Len(z) = n /\ \A i \in 0..(n - 1) : At(z, i) = At(e, a + i)
    BY <1>5, SliceBytes
  <2>. HIDE DEF y, z
  <2>4. ASSUME NEW i \in 0..(Len(y) - 1) PROVE At(y, i) = At(z, i)
    <3>1. i \in 0..(n - 1) /\ a + i \in 0..(Len(e) - 1) /\ b + i = Len(d) + (a + i)
      BY <1>1, <1>5, <2>1, <2>2
    <3>2. At(x, Len(d) + (a + i)) = At(e, a + i)
      BY <1>1, <3>1
    <3>3. At(y, i) = At(x, b + i) /\ At(z, i) = At(e, a + i)
      BY <2>2, <2>3, <3>1
    <3>. QED
      BY <3>1, <3>2, <3>3
  <2>5. y = z
    BY <2>2, <2>3, <2>4, SameBytes
  <2>. QED
    BY <2>1, <2>5 DEF y, z
<1>. QED
  BY <1>2, <1>3, <1>4, <1>5 DEF x

LEMMA WholeSlice ==
  ASSUME NEW d \in Seq(Byte)
  PROVE  Slice(d, 0, Len(d)) = d
<1>. DEFINE y == Slice(d, 0, Len(d))
<1>1. 0 \in Nat /\ Len(d) \in Nat /\ 0 + Len(d) <= Len(d)
  OBVIOUS
<1>2. y \in Seq(Byte) /\ Len(y) = Len(d) /\ \A i \in 0..(Len(d) - 1) : At(y, i) = At(d, 0 + i)
  BY <1>1, SliceBytes
<1>. HIDE DEF y
<1>3. ASSUME NEW i \in 0..(Len(y) - 1) PROVE At(y, i) = At(d, i)
  <2>1. i \in 0..(Len(d) - 1) /\ 0 + i = i
    BY <1>2
  <2>. QED
    BY <1>2, <2>1
<1>. QED
  BY <1>2, <1>3, SameBytes DEF y

(* x is d with e behind it.                                                  *)
Joined(x, d, e) == d \in Seq(Byte) /\ e \in Seq(Byte) /\ x = d \o e

LEMMA JoinedBytes ==
  ASSUME NEW x, NEW d, NEW e, Joined(x, d, e)
  PROVE  x \in Seq(Byte) /\ Len(x) = Len(d) + Len(e) /\ Len(d) \in Nat /\ Len(e) \in Nat
BY JoinBytes DEF Joined

LEMMA JoinedBefore ==
  ASSUME NEW x, NEW d, NEW e, Joined(x, d, e), NEW o \in Nat, o + 2 <= Len(d)
  PROVE  Word(x, o) = Word(d, o) /\ At(x, o) = At(d, o)
<1>1. o \in 0..(Len(d) - 1) /\ d \in Seq(Byte) /\ e \in Seq(Byte) /\ x = d \o e
  BY DEF Joined
<1>2. At(d \o e, o) = At(d, o)
  BY <1>1, JoinBytes
<1>. QED
  BY <1>1, <1>2, JoinFields

LEMMA JoinedBehind ==
  ASSUME NEW x, NEW d, NEW e, Joined(x, d, e), NEW o \in Nat, o + 2 <= Len(e)
  PROVE  Word(x, Len(d) + o) = Word(e, o) /\ At(x, Len(d) + o) = At(e, o)
<1>1. o \in 0..(Len(e) - 1) /\ d \in Seq(Byte) /\ e \in Seq(Byte) /\ x = d \o e
  BY DEF Joined
<1>2. At(d \o e, Len(d) + o) = At(e, o)
  BY <1>1, JoinBytes
<1>. QED
  BY <1>1, <1>2, JoinFields

LEMMA JoinedSliceBefore ==
  ASSUME NEW x, NEW d, NEW e, Joined(x, d, e), NEW o \in Nat, NEW n \in Nat, o + n <= Len(d)
  PROVE  Slice(x, o, n) = Slice(d, o, n)
BY JoinFields DEF Joined

LEMMA JoinedWhole ==
  ASSUME NEW x, NEW d, NEW e, Joined(x, d, e)
  PROVE  Slice(x, Len(d), Len(e)) = e
<1>1. d \in Seq(Byte) /\ e \in Seq(Byte) /\ x = d \o e
  BY DEF Joined
<1>2. 0 \in Nat /\ Len(e) \in Nat /\ 0 + Len(e) <= Len(e) /\ Len(d) = Len(d) + 0
  BY <1>1
<1>3. Slice(d \o e, Len(d) + 0, Len(e)) = Slice(e, 0, Len(e))
  BY <1>1, <1>2, JoinFields
<1>. QED
  BY <1>1, <1>2, <1>3, WholeSlice

LEMMA WordOfBytes ==
  ASSUME NEW w \in Half
  PROVE  Word(Bytes(w), 0) = w
<1>1. 256 * (w \div 256) + (w % 256) = w
  BY BytesOfHalf
<1>2. At(Bytes(w), 0) = w \div 256 /\ At(Bytes(w), 0 + 1) = w % 256
  BY DEF At, Bytes
<1>. QED
  BY <1>1, <1>2 DEF Word

-----------------------------------------------------------------------------
(* The header that the builders write.                                       *)

(* The fields of a header of n bytes that the transport layer depends on.    *)
Fields(d, n, fragment, protocol, source, destination) ==
  /\ d \in Seq(Byte) /\ n \in Nat /\ n >= 20 /\ Len(d) >= n
  /\ HeaderLength(d) = n /\ At(d, 0) \div 16 = 4
  /\ Word(d, 6) = fragment /\ At(d, 9) = protocol
  /\ Slice(d, 12, 4) = source /\ Slice(d, 16, 4) = destination

LEMMA SameFields ==
  ASSUME NEW d, NEW n, NEW fragment, NEW protocol, NEW source, NEW target,
         Fields(d, n, fragment, protocol, source, target),
         NEW e \in Seq(Byte), Len(e) = Len(d),
         \A i \in 0..(Len(d) - 1) : i \notin {2, 3, 8, 10, 11} => At(e, i) = At(d, i)
  PROVE  Fields(e, n, fragment, protocol, source, target)
<1>1. d \in Seq(Byte) /\ Len(d) \in Nat /\ Len(d) >= 20
  BY DEF Fields
<1>2. 0 \in 0..(Len(d) - 1) /\ 6 \in 0..(Len(d) - 1) /\ 6 + 1 \in 0..(Len(d) - 1) /\ 9 \in 0..(Len(d) - 1)
  BY <1>1
<1>3. At(e, 0) = At(d, 0) /\ At(e, 6) = At(d, 6) /\ At(e, 6 + 1) = At(d, 6 + 1) /\ At(e, 9) = At(d, 9)
  BY <1>2
<1>4. HeaderLength(e) = HeaderLength(d) /\ Word(e, 6) = Word(d, 6) /\ At(e, 0) \div 16 = At(d, 0) \div 16
  BY <1>3 DEF HeaderLength, Word
<1>5. ASSUME NEW a \in {12, 16} PROVE Slice(e, a, 4) = Slice(d, a, 4)
  <2>1. a \in Nat /\ 4 \in Nat /\ a + 4 <= Len(d)
    BY <1>1
  <2>2. \A i \in 0..(Len(d) - 1) : a <= i /\ i < a + 4 => At(e, i) = At(d, i)
    <3>. SUFFICES ASSUME NEW i \in 0..(Len(d) - 1), a <= i PROVE At(e, i) = At(d, i)
      OBVIOUS
    <3>1. i \notin {2, 3, 8, 10, 11}
      OBVIOUS
    <3>. QED
      BY <3>1
  <2>. QED
    BY <1>1, <2>1, <2>2, SliceKept
<1>6. Slice(e, 12, 4) = Slice(d, 12, 4) /\ Slice(e, 16, 4) = Slice(d, 16, 4)
  BY <1>5
<1>. QED
  BY <1>3, <1>4, <1>6 DEF Fields

(* The header of lab 03, whose fragment field has its upper bit clear.       *)
FragmentField == {k \in Nat : k < 32768}

HeaderOf(fragment, ttl, protocol, source, target, options) ==
  BuildHeader([dscp_ecn |-> 0, identification |-> 1, flags_fragment |-> fragment,
               ttl |-> ttl, protocol |-> protocol, source |-> source,
               destination |-> target, options |-> options]).bytes

(* Options of up to ten words. *)
OptionBytes == {o \in Seq(Byte) : Len(o) <= 40 /\ Len(o) % 4 = 0}

FourBytes == {a \in Seq(Byte) : Len(a) = 4}

LEMMA HeaderBuilt ==
  ASSUME NEW fragment \in FragmentField, NEW ttl \in Byte, NEW protocol \in Byte,
         NEW source \in FourBytes, NEW target \in FourBytes,
         NEW options \in OptionBytes
  PROVE  LET g == HeaderOf(fragment, ttl, protocol, source, target, options)
             n == 20 + Len(options)
         IN  Fields(g, n, fragment, protocol, source, target) /\ Len(g) = n
<1>. DEFINE n  == 20 + Len(options)
            b  == 64 + n \div 4
            p1 == <<b, 0>>
            p2 == p1 \o Bytes(n)
            i  == Bytes(1)
            p3 == p2 \o i
            p4 == p3 \o Bytes(fragment)
            q  == <<ttl, protocol, 0, 0>>
            p5 == p4 \o q
            p6 == p5 \o source
            p7 == p6 \o target
            h  == p7 \o options
            c  == InternetChecksum(h)
            g  == HeaderOf(fragment, ttl, protocol, source, target, options)
<1>1. n \in Nat /\ n >= 20 /\ n <= 60 /\ n % 4 = 0 /\ n = 4 * (n \div 4) /\ n \div 4 \in Nat /\ n \div 4 <= 15
  <2>1. Len(options) \in Nat /\ Len(options) <= 40 /\ Len(options) % 4 = 0
    BY DEF OptionBytes
  <2>2. \A k \in Nat : k <= 40 /\ k % 4 = 0 =>
          /\ (20 + k) % 4 = 0 /\ 20 + k = 4 * ((20 + k) \div 4)
          /\ (20 + k) \div 4 \in Nat /\ (20 + k) \div 4 <= 15
    OBVIOUS
  <2>. QED
    BY <2>1, <2>2
<1>2. g = Put(h, 10, c)
  <2>1. ~(n > 60 \/ n % 4 # 0 \/ fragment >= 32768)
    <3>1. ~(fragment >= 32768)
      BY DEF FragmentField
    <3>. QED
      BY <1>1, <3>1
  <2>. QED
    BY <2>1 DEF HeaderOf, BuildHeader, Built
<1>3. b \in Byte /\ 4 * (b % 16) = n /\ b \div 16 = 4
  <2>. DEFINE k == n \div 4
  <2>1. k \in Nat /\ k <= 15 /\ n = 4 * k /\ b = 64 + k
    BY <1>1
  <2>. HIDE DEF k, n, b
  <2>2. b \in Nat /\ b <= 255 /\ b % 16 = k /\ b \div 16 = 4
    BY <2>1
  <2>. QED
    BY <2>1, <2>2, ByteRange
<1>. HIDE DEF b
<1>4. 0 \in Byte /\ 1 \in Half /\ n \in Half /\ fragment \in Half /\ options \in Seq(Byte)
      /\ source \in Seq(Byte) /\ Len(source) = 4 /\ target \in Seq(Byte) /\ Len(target) = 4
  <2>1. 0 \in Byte
    BY DEF Byte
  <2>2. 1 \in Half /\ n \in Half
    BY <1>1 DEF Half
  <2>3. fragment \in Half
    BY DEF Half, FragmentField
  <2>4. options \in Seq(Byte)
    BY DEF OptionBytes
  <2>5. source \in Seq(Byte) /\ Len(source) = 4 /\ target \in Seq(Byte) /\ Len(target) = 4
    BY DEF FourBytes
  <2>. QED
    BY <2>1, <2>2, <2>3, <2>4, <2>5
<1>5. p1 \in Seq(Byte) /\ Len(p1) = 2 /\ At(p1, 0) = b
  BY <1>3, <1>4 DEF At
<1>6. q \in Seq(Byte) /\ Len(q) = 4 /\ At(q, 1) = protocol
  BY <1>4 DEF At
<1>7. /\ Bytes(n) \in Seq(Byte) /\ Len(Bytes(n)) = 2
      /\ i \in Seq(Byte) /\ Len(i) = 2
      /\ Bytes(fragment) \in Seq(Byte) /\ Len(Bytes(fragment)) = 2
      /\ Word(Bytes(fragment), 0) = fragment
  BY <1>4, BytesOfHalf, WordOfBytes
<1>. HIDE DEF p1, q, n, i
<1>8. Joined(p2, p1, Bytes(n)) /\ p2 \in Seq(Byte) /\ Len(p2) = 4
  <2>1. Joined(p2, p1, Bytes(n))
    BY <1>5, <1>7 DEF Joined
  <2>. HIDE DEF p2
  <2>2. p2 \in Seq(Byte)
    BY <2>1, JoinedBytes
  <2>3. Len(p2) = Len(p1) + Len(Bytes(n))
    BY <2>1, JoinedBytes
  <2>4. Len(p2) = 4
    BY <1>5, <1>7, <2>3
  <2>. QED
    BY <2>1, <2>2, <2>4
<1>. HIDE DEF p2
<1>9. Joined(p3, p2, i) /\ p3 \in Seq(Byte) /\ Len(p3) = 6
  <2>1. Joined(p3, p2, i)
    BY <1>8, <1>7 DEF Joined
  <2>. HIDE DEF p3
  <2>2. p3 \in Seq(Byte)
    BY <2>1, JoinedBytes
  <2>3. Len(p3) = Len(p2) + Len(i)
    BY <2>1, JoinedBytes
  <2>4. Len(p3) = 6
    <3>1. Len(p2) = 4 /\ Len(i) = 2
      BY <1>7, <1>8
    <3>. QED
      BY <2>3, <3>1
  <2>. QED
    BY <2>1, <2>2, <2>4
<1>. HIDE DEF p3
<1>10. Joined(p4, p3, Bytes(fragment)) /\ p4 \in Seq(Byte) /\ Len(p4) = 8
  <2>1. Joined(p4, p3, Bytes(fragment))
    BY <1>9, <1>7 DEF Joined
  <2>. HIDE DEF p4
  <2>2. p4 \in Seq(Byte)
    BY <2>1, JoinedBytes
  <2>3. Len(p4) = Len(p3) + Len(Bytes(fragment))
    BY <2>1, JoinedBytes
  <2>4. Len(p4) = 8
    BY <1>9, <1>7, <2>3
  <2>. QED
    BY <2>1, <2>2, <2>4
<1>. HIDE DEF p4
<1>11. Joined(p5, p4, q) /\ p5 \in Seq(Byte) /\ Len(p5) = 12
  <2>1. Joined(p5, p4, q)
    BY <1>10, <1>6 DEF Joined
  <2>. HIDE DEF p5
  <2>2. p5 \in Seq(Byte)
    BY <2>1, JoinedBytes
  <2>3. Len(p5) = Len(p4) + Len(q)
    BY <2>1, JoinedBytes
  <2>4. Len(p5) = 12
    BY <1>10, <1>6, <2>3
  <2>. QED
    BY <2>1, <2>2, <2>4
<1>. HIDE DEF p5
<1>12. Joined(p6, p5, source) /\ p6 \in Seq(Byte) /\ Len(p6) = 16
  <2>1. Joined(p6, p5, source)
    BY <1>4, <1>11 DEF Joined
  <2>. HIDE DEF p6
  <2>2. p6 \in Seq(Byte)
    BY <2>1, JoinedBytes
  <2>3. Len(p6) = Len(p5) + Len(source)
    BY <2>1, JoinedBytes
  <2>4. Len(p6) = 16
    BY <1>4, <1>11, <2>3
  <2>. QED
    BY <2>1, <2>2, <2>4
<1>. HIDE DEF p6
<1>13. Joined(p7, p6, target) /\ p7 \in Seq(Byte) /\ Len(p7) = 20
  <2>1. Joined(p7, p6, target)
    BY <1>4, <1>12 DEF Joined
  <2>. HIDE DEF p7
  <2>2. p7 \in Seq(Byte)
    BY <2>1, JoinedBytes
  <2>3. Len(p7) = Len(p6) + Len(target)
    BY <2>1, JoinedBytes
  <2>4. Len(p7) = 20
    BY <1>4, <1>12, <2>3
  <2>. QED
    BY <2>1, <2>2, <2>4
<1>. HIDE DEF p7
<1>14. Joined(h, p7, options) /\ h \in Seq(Byte) /\ Len(h) = n
  <2>1. Joined(h, p7, options)
    BY <1>13, <1>4 DEF Joined
  <2>. HIDE DEF h
  <2>2. h \in Seq(Byte)
    BY <2>1, JoinedBytes
  <2>3. Len(h) = Len(p7) + Len(options)
    BY <2>1, JoinedBytes
  <2>4. Len(h) = n
    BY <1>13, <1>4, <2>3 DEF n
  <2>. QED
    BY <2>1, <2>2, <2>4
<1>. HIDE DEF h
<1>20. /\ Joined(p2, p1, Bytes(n)) /\ Joined(p3, p2, i) /\ Joined(p4, p3, Bytes(fragment))
       /\ Joined(p5, p4, q) /\ Joined(p6, p5, source) /\ Joined(p7, p6, target) /\ Joined(h, p7, options)
  BY <1>8, <1>9, <1>10, <1>11, <1>12, <1>13, <1>14
<1>21. /\ Len(p1) = 2 /\ Len(p2) = 4 /\ Len(p3) = 6 /\ Len(p4) = 8 /\ Len(q) = 4 /\ Len(p5) = 12
       /\ Len(p6) = 16 /\ Len(p7) = 20 /\ Len(Bytes(fragment)) = 2
  BY <1>5, <1>6, <1>7, <1>8, <1>9, <1>10, <1>11, <1>12, <1>13
<1>22. At(h, 0) = b
  <2>0. 0 \in Nat /\ 0 + 2 <= Len(p1) /\ 0 + 2 <= Len(p2) /\ 0 + 2 <= Len(p3) /\ 0 + 2 <= Len(p4)
        /\ 0 + 2 <= Len(p5) /\ 0 + 2 <= Len(p6) /\ 0 + 2 <= Len(p7)
    BY <1>21
  <2>1. At(p2, 0) = At(p1, 0)
    BY <1>20, <2>0, JoinedBefore
  <2>2. At(p3, 0) = At(p2, 0)
    BY <1>20, <2>0, JoinedBefore
  <2>3. At(p4, 0) = At(p3, 0)
    BY <1>20, <2>0, JoinedBefore
  <2>4. At(p5, 0) = At(p4, 0)
    BY <1>20, <2>0, JoinedBefore
  <2>5. At(p6, 0) = At(p5, 0)
    BY <1>20, <2>0, JoinedBefore
  <2>6. At(p7, 0) = At(p6, 0)
    BY <1>20, <2>0, JoinedBefore
  <2>7. At(h, 0) = At(p7, 0)
    BY <1>20, <2>0, JoinedBefore
  <2>. QED
    BY <1>5, <2>1, <2>2, <2>3, <2>4, <2>5, <2>6, <2>7
<1>23. Word(h, 6) = fragment
  <2>0. 0 \in Nat /\ 6 \in Nat /\ 0 + 2 <= Len(Bytes(fragment)) /\ 6 = Len(p3) + 0
        /\ 6 + 2 <= Len(p4) /\ 6 + 2 <= Len(p5) /\ 6 + 2 <= Len(p6) /\ 6 + 2 <= Len(p7)
    BY <1>21
  <2>1. Word(p4, 6) = Word(Bytes(fragment), 0)
    <3>1. Joined(p4, p3, Bytes(fragment))
      BY <1>20
    <3>2. 0 \in Nat /\ 0 + 2 <= Len(Bytes(fragment)) /\ 6 = Len(p3) + 0
      BY <2>0
    <3>3. Word(p4, Len(p3) + 0) = Word(Bytes(fragment), 0)
      BY <3>1, <3>2, JoinedBehind
    <3>. QED
      BY <3>2, <3>3
  <2>2. Word(p5, 6) = Word(p4, 6)
    BY <1>20, <2>0, JoinedBefore
  <2>3. Word(p6, 6) = Word(p5, 6)
    BY <1>20, <2>0, JoinedBefore
  <2>4. Word(p7, 6) = Word(p6, 6)
    BY <1>20, <2>0, JoinedBefore
  <2>5. Word(h, 6) = Word(p7, 6)
    BY <1>20, <2>0, JoinedBefore
  <2>. QED
    BY <1>7, <2>1, <2>2, <2>3, <2>4, <2>5
<1>24. At(h, 9) = protocol
  <2>0. 1 \in Nat /\ 9 \in Nat /\ 1 + 2 <= Len(q) /\ 9 = Len(p4) + 1
        /\ 9 + 2 <= Len(p5) /\ 9 + 2 <= Len(p6) /\ 9 + 2 <= Len(p7)
    BY <1>21
  <2>1. At(p5, 9) = At(q, 1)
    <3>1. Joined(p5, p4, q)
      BY <1>20
    <3>2. 1 \in Nat /\ 1 + 2 <= Len(q) /\ 9 = Len(p4) + 1
      BY <2>0
    <3>3. At(p5, Len(p4) + 1) = At(q, 1)
      BY <3>1, <3>2, JoinedBehind
    <3>. QED
      BY <3>2, <3>3
  <2>2. At(p6, 9) = At(p5, 9)
    BY <1>20, <2>0, JoinedBefore
  <2>3. At(p7, 9) = At(p6, 9)
    BY <1>20, <2>0, JoinedBefore
  <2>4. At(h, 9) = At(p7, 9)
    BY <1>20, <2>0, JoinedBefore
  <2>. QED
    BY <1>6, <2>1, <2>2, <2>3, <2>4
<1>25. Slice(h, 12, 4) = source /\ Slice(h, 16, 4) = target
  <2>0. 12 \in Nat /\ 16 \in Nat /\ 4 \in Nat /\ 12 = Len(p5) /\ 16 = Len(p6) /\ 4 = Len(source)
        /\ 4 = Len(target) /\ 12 + 4 <= Len(p6) /\ 12 + 4 <= Len(p7) /\ 16 + 4 <= Len(p7)
    BY <1>4, <1>21
  <2>1. Slice(p6, 12, 4) = source
    <3>1. Joined(p6, p5, source)
      BY <1>20
    <3>2. 12 = Len(p5) /\ 4 = Len(source)
      BY <2>0
    <3>3. Slice(p6, Len(p5), Len(source)) = source
      BY <3>1, JoinedWhole
    <3>. QED
      BY <3>2, <3>3
  <2>2. Slice(p7, 12, 4) = Slice(p6, 12, 4)
    BY <1>20, <2>0, JoinedSliceBefore
  <2>3. Slice(h, 12, 4) = Slice(p7, 12, 4)
    BY <1>20, <2>0, JoinedSliceBefore
  <2>4. Slice(p7, 16, 4) = target
    <3>1. Joined(p7, p6, target)
      BY <1>20
    <3>2. 16 = Len(p6) /\ 4 = Len(target)
      BY <2>0
    <3>3. Slice(p7, Len(p6), Len(target)) = target
      BY <3>1, JoinedWhole
    <3>. QED
      BY <3>2, <3>3
  <2>5. Slice(h, 16, 4) = Slice(p7, 16, 4)
    BY <1>20, <2>0, JoinedSliceBefore
  <2>. QED
    BY <2>1, <2>2, <2>3, <2>4, <2>5
<1>26. Fields(h, n, fragment, protocol, source, target)
  <2>1. HeaderLength(h) = n /\ At(h, 0) \div 16 = 4
    BY <1>3, <1>22 DEF HeaderLength
  <2>. QED
    BY <1>1, <1>14, <1>23, <1>24, <1>25, <2>1 DEF Fields
<1>27. c \in Half /\ 10 \in Nat /\ 10 + 2 <= Len(h)
  <2>1. h \in Seq(Byte) /\ n >= 20 /\ Len(h) = n
    BY <1>1, <1>14
  <2>2. c \in Half
    BY <2>1, ChecksumHalf
  <2>. QED
    BY <1>1, <2>1, <2>2
<1>. HIDE DEF c, g
<1>28. g \in Seq(Byte) /\ Len(g) = Len(h) /\ \A k \in 0..(Len(h) - 1) : k \notin {2, 3, 8, 10, 11} => At(g, k) = At(h, k)
  <2>0. h \in Seq(Byte)
    BY <1>14
  <2>1. /\ g \in Seq(Byte) /\ Len(g) = Len(h)
        /\ \A k \in 0..(Len(h) - 1) :
             At(g, k) = IF k = 10 THEN c \div 256 ELSE IF k = 10 + 1 THEN c % 256 ELSE At(h, k)
    BY <1>2, <1>27, <2>0, PutBytes
  <2>2. ASSUME NEW k \in 0..(Len(h) - 1), k \notin {2, 3, 8, 10, 11} PROVE At(g, k) = At(h, k)
    <3>1. k # 10 /\ k # 10 + 1
      BY <2>2
    <3>. QED
      BY <2>1, <3>1
  <2>. QED
    BY <2>1, <2>2
<1>29. Fields(g, n, fragment, protocol, source, target)
  BY <1>26, <1>28, SameFields
<1>. QED
  BY <1>14, <1>28, <1>29 DEF g, n

LEMMA FieldsOfJoined ==
  ASSUME NEW d, NEW n, NEW fragment, NEW protocol, NEW source, NEW target,
         Fields(d, n, fragment, protocol, source, target), NEW x, NEW e, Joined(x, d, e)
  PROVE  /\ Fields(x, n, fragment, protocol, source, target)
         /\ Word(x, 2) = Word(d, 2) /\ Slice(x, 0, n) = Slice(d, 0, n)
<1>1. /\ d \in Seq(Byte) /\ n \in Nat /\ n >= 20 /\ Len(d) >= n /\ HeaderLength(d) = n
      /\ At(d, 0) \div 16 = 4 /\ Word(d, 6) = fragment /\ At(d, 9) = protocol
      /\ Slice(d, 12, 4) = source /\ Slice(d, 16, 4) = target
  BY DEF Fields
<1>2. x \in Seq(Byte) /\ Len(x) = Len(d) + Len(e) /\ Len(d) \in Nat /\ Len(e) \in Nat
  BY JoinedBytes
<1>3. Len(x) >= n
  BY <1>1, <1>2
<1>4. /\ 0 \in Nat /\ 2 \in Nat /\ 6 \in Nat /\ 9 \in Nat /\ 12 \in Nat /\ 16 \in Nat /\ 4 \in Nat
      /\ 0 + 2 <= Len(d) /\ 2 + 2 <= Len(d) /\ 6 + 2 <= Len(d) /\ 9 + 2 <= Len(d)
      /\ 0 + n <= Len(d) /\ 12 + 4 <= Len(d) /\ 16 + 4 <= Len(d)
  BY <1>1, <1>2
<1>5. At(x, 0) = At(d, 0)
  BY <1>4, JoinedBefore
<1>6. Word(x, 6) = Word(d, 6)
  BY <1>4, JoinedBefore
<1>7. At(x, 9) = At(d, 9)
  BY <1>4, JoinedBefore
<1>8. Word(x, 2) = Word(d, 2)
  BY <1>4, JoinedBefore
<1>9. Slice(x, 12, 4) = Slice(d, 12, 4)
  BY <1>4, JoinedSliceBefore
<1>10. Slice(x, 16, 4) = Slice(d, 16, 4)
  BY <1>4, JoinedSliceBefore
<1>11. Slice(x, 0, n) = Slice(d, 0, n)
  BY <1>1, <1>4, JoinedSliceBefore
<1>12. HeaderLength(x) = n /\ At(x, 0) \div 16 = 4
  BY <1>1, <1>5 DEF HeaderLength
<1>13. Word(x, 6) = fragment /\ At(x, 9) = protocol /\ Slice(x, 12, 4) = source /\ Slice(x, 16, 4) = target
  BY <1>1, <1>6, <1>7, <1>9, <1>10
<1>14. Fields(x, n, fragment, protocol, source, target)
  BY <1>1, <1>2, <1>3, <1>12, <1>13 DEF Fields
<1>. QED
  BY <1>8, <1>11, <1>14

(* Lab 03 writes the length of the packet into the header and sums it again. *)
LEMMA LengthWritten ==
  ASSUME NEW h, NEW n, NEW fragment, NEW protocol, NEW source, NEW target,
         Fields(h, n, fragment, protocol, source, target), Len(h) = n, NEW w \in Half
  PROVE  LET e == WithChecksum(Put(h, 2, w))
         IN  /\ Fields(e, n, fragment, protocol, source, target) /\ Len(e) = n
             /\ Word(e, 2) = w /\ InternetChecksum(e) = 0
<1>. DEFINE g == Put(h, 2, w)
            e == WithChecksum(g)
<1>1. h \in Seq(Byte) /\ n \in Nat /\ n >= 20 /\ Len(h) = n
  BY DEF Fields
<1>2. 2 \in Nat /\ 2 + 2 <= Len(h)
  BY <1>1
<1>3. /\ g \in Seq(Byte) /\ Len(g) = Len(h) /\ Word(g, 2) = w
      /\ \A i \in 0..(Len(h) - 1) :
           At(g, i) = IF i = 2 THEN w \div 256 ELSE IF i = 2 + 1 THEN w % 256 ELSE At(h, i)
  BY <1>1, <1>2, PutBytes
<1>. HIDE DEF g
<1>4. \A i \in 0..(Len(h) - 1) : i \notin {2, 3, 8, 10, 11} => At(g, i) = At(h, i)
  <2>. SUFFICES ASSUME NEW i \in 0..(Len(h) - 1), i \notin {2, 3, 8, 10, 11} PROVE At(g, i) = At(h, i)
    OBVIOUS
  <2>1. i # 2 /\ i # 2 + 1
    OBVIOUS
  <2>. QED
    BY <1>3, <2>1
<1>5. Fields(g, n, fragment, protocol, source, target)
  BY <1>3, <1>4, SameFields
<1>6. HeaderLength(g) = n
  BY <1>5 DEF Fields
<1>7. Len(g) >= 20 /\ HeaderLength(g) <= Len(g) /\ HeaderLength(g) >= 20
  BY <1>1, <1>3, <1>6
<1>8. /\ e \in Seq(Byte) /\ Len(e) = Len(g)
      /\ \A i \in 0..(Len(g) - 1) : i # 10 /\ i # 11 => At(e, i) = At(g, i)
      /\ InternetChecksum(Slice(e, 0, n)) = 0
  BY <1>3, <1>6, <1>7, ChecksumWritten
<1>. HIDE DEF e
<1>9. \A i \in 0..(Len(g) - 1) : i \notin {2, 3, 8, 10, 11} => At(e, i) = At(g, i)
  <2>. SUFFICES ASSUME NEW i \in 0..(Len(g) - 1), i \notin {2, 3, 8, 10, 11} PROVE At(e, i) = At(g, i)
    OBVIOUS
  <2>1. i # 10 /\ i # 11
    OBVIOUS
  <2>. QED
    BY <1>8, <2>1
<1>10. Fields(e, n, fragment, protocol, source, target)
  BY <1>5, <1>8, <1>9, SameFields
<1>11. Len(e) = n
  BY <1>1, <1>3, <1>8
<1>12. Word(e, 2) = w
  <2>1. 2 \in 0..(Len(g) - 1) /\ 2 + 1 \in 0..(Len(g) - 1) /\ 2 # 10 /\ 2 # 11 /\ 2 + 1 # 10 /\ 2 + 1 # 11
    BY <1>1, <1>3
  <2>2. At(e, 2) = At(g, 2) /\ At(e, 2 + 1) = At(g, 2 + 1)
    BY <1>8, <2>1
  <2>. QED
    BY <1>3, <2>2 DEF Word
<1>13. InternetChecksum(e) = 0
  <2>1. Slice(e, 0, Len(e)) = e
    BY <1>8, WholeSlice
  <2>. QED
    BY <1>8, <1>11, <2>1
<1>. QED
  BY <1>10, <1>11, <1>12, <1>13 DEF e, g

(* A packet of lab 03, with padding behind it.                               *)
LEMMA PacketBuilt ==
  ASSUME NEW fragment \in FragmentField, NEW ttl \in Byte, NEW protocol \in Byte,
         NEW source \in FourBytes, NEW target \in FourBytes, NEW options \in OptionBytes,
         NEW body \in Seq(Byte), NEW tail \in Seq(Byte), 20 + Len(options) + Len(body) \in Half
  PROVE  LET h == HeaderOf(fragment, ttl, protocol, source, target, options)
             x == WithChecksum(Put(h, 2, Len(h) + Len(body))) \o body
             d == x \o tail
         IN  /\ x \in Seq(Byte) /\ d \in Seq(Byte) /\ Framed(d) /\ Payload(d) = body
             /\ Word(d, 6) = fragment /\ At(d, 9) = protocol
             /\ Slice(d, 12, 4) = source /\ Slice(d, 16, 4) = target
             /\ InternetChecksum(Slice(d, 0, HeaderLength(d))) = 0
<1>. DEFINE h == HeaderOf(fragment, ttl, protocol, source, target, options)
            n == 20 + Len(options)
            w == Len(h) + Len(body)
            e == WithChecksum(Put(h, 2, w))
            p == e \o body
            d == p \o tail
<1>1. Fields(h, n, fragment, protocol, source, target) /\ Len(h) = n
  BY HeaderBuilt
<1>2. options \in Seq(Byte)
  BY DEF OptionBytes
<1>3. n \in Nat /\ w \in Half /\ w = n + Len(body) /\ n >= 20
  BY <1>1, <1>2
<1>. HIDE DEF h, n, w
<1>4. /\ Fields(e, n, fragment, protocol, source, target) /\ Len(e) = n
      /\ Word(e, 2) = w /\ InternetChecksum(e) = 0
  BY <1>1, <1>3, LengthWritten
<1>. HIDE DEF e
<1>5. e \in Seq(Byte)
  BY <1>4 DEF Fields
<1>6. Joined(p, e, body)
  BY <1>5 DEF Joined
<1>. HIDE DEF p
<1>7. p \in Seq(Byte) /\ Len(p) = Len(e) + Len(body)
  BY <1>6, JoinedBytes
<1>8. Len(p) = w
  BY <1>3, <1>4, <1>7
<1>9. Joined(d, p, tail)
  BY <1>7 DEF Joined
<1>. HIDE DEF d
<1>10. d \in Seq(Byte) /\ Len(d) = Len(p) + Len(tail) /\ Len(tail) \in Nat
  BY <1>9, JoinedBytes
<1>11. Fields(p, n, fragment, protocol, source, target) /\ Word(p, 2) = w /\ Slice(p, 0, n) = Slice(e, 0, n)
  <2>1. /\ Fields(p, n, fragment, protocol, source, target)
        /\ Word(p, 2) = Word(e, 2) /\ Slice(p, 0, n) = Slice(e, 0, n)
    BY <1>4, <1>6, FieldsOfJoined
  <2>. QED
    BY <1>4, <2>1
<1>12. Fields(d, n, fragment, protocol, source, target) /\ Word(d, 2) = w /\ Slice(d, 0, n) = Slice(p, 0, n)
  <2>1. /\ Fields(d, n, fragment, protocol, source, target)
        /\ Word(d, 2) = Word(p, 2) /\ Slice(d, 0, n) = Slice(p, 0, n)
    BY <1>9, <1>11, FieldsOfJoined
  <2>. QED
    BY <1>11, <2>1
<1>13. InternetChecksum(Slice(d, 0, n)) = 0
  <2>1. Slice(e, 0, n) = e
    BY <1>4, <1>5, WholeSlice
  <2>. QED
    BY <1>4, <1>11, <1>12, <2>1
<1>14. /\ HeaderLength(d) = n /\ At(d, 0) \div 16 = 4 /\ Word(d, 6) = fragment /\ At(d, 9) = protocol
       /\ Slice(d, 12, 4) = source /\ Slice(d, 16, 4) = target /\ Len(d) >= n
  BY <1>12 DEF Fields
<1>15. Framed(d)
  <2>1. w \in Nat /\ Len(body) \in Nat
    BY <1>3 DEF Half
  <2>2. Len(d) >= 20 /\ n <= Len(d) /\ w >= n /\ w <= Len(d)
    BY <1>3, <1>8, <1>10, <1>14, <2>1
  <2>. QED
    BY <1>3, <1>12, <1>14, <2>2 DEF Framed
<1>16. Payload(d) = body
  <2>1. Slice(p, Len(e), Len(body)) = body
    BY <1>6, JoinedWhole
  <2>2. n \in Nat /\ Len(body) \in Nat /\ n + Len(body) <= Len(p)
    BY <1>3, <1>8
  <2>3. Slice(d, n, Len(body)) = Slice(p, n, Len(body))
    BY <1>9, <2>2, JoinedSliceBefore
  <2>4. w - n = Len(body)
    BY <1>3, <2>2
  <2>. QED
    BY <1>4, <1>12, <1>14, <2>1, <2>3, <2>4 DEF Payload
<1>. QED
  BY <1>7, <1>10, <1>13, <1>14, <1>15, <1>16 DEF d, p, e, w, h

-----------------------------------------------------------------------------
(* What the builders of lessons 04 to 06 put into a packet.                  *)

LEMMA EchoBuilt ==
  ASSUME NEW type \in {0, 8}, NEW identifier \in Half, NEW sequence \in Half, NEW payload \in Seq(Byte),
         8 + Len(payload) \in Half
  PROVE  LET out == BuildEcho(type, identifier, sequence, payload)
         IN  /\ out.status = "OK" /\ out.bytes \in Seq(Byte) /\ Len(out.bytes) = 8 + Len(payload)
             /\ InternetChecksum(out.bytes) = 0
<1>. DEFINE n  == 8 + Len(payload)
            p1 == <<type, 0, 0, 0>>
            i  == Bytes(identifier)
            p2 == p1 \o i
            k  == Bytes(sequence)
            p3 == p2 \o k
            m  == p3 \o payload
            c  == InternetChecksum(m)
            out == BuildEcho(type, identifier, sequence, payload)
<1>1. p1 \in Seq(Byte) /\ Len(p1) = 4 /\ At(p1, 2) = 0 /\ At(p1, 2 + 1) = 0
  <2>1. 0 \in Byte /\ type \in Byte
    BY DEF Byte
  <2>. QED
    BY <2>1 DEF At
<1>2. i \in Seq(Byte) /\ Len(i) = 2 /\ k \in Seq(Byte) /\ Len(k) = 2
  BY BytesOfHalf
<1>. HIDE DEF p1, i, k
<1>3. Joined(p2, p1, i) /\ p2 \in Seq(Byte) /\ Len(p2) = 6
  <2>1. Joined(p2, p1, i)
    BY <1>1, <1>2 DEF Joined
  <2>. HIDE DEF p2
  <2>2. p2 \in Seq(Byte)
    BY <2>1, JoinedBytes
  <2>3. Len(p2) = Len(p1) + Len(i)
    BY <2>1, JoinedBytes
  <2>4. Len(p2) = 6
    BY <1>1, <1>2, <2>3
  <2>. QED
    BY <2>1, <2>2, <2>4
<1>. HIDE DEF p2
<1>4. Joined(p3, p2, k) /\ p3 \in Seq(Byte) /\ Len(p3) = 8
  <2>1. Joined(p3, p2, k)
    BY <1>3, <1>2 DEF Joined
  <2>. HIDE DEF p3
  <2>2. p3 \in Seq(Byte)
    BY <2>1, JoinedBytes
  <2>3. Len(p3) = Len(p2) + Len(k)
    BY <2>1, JoinedBytes
  <2>4. Len(p3) = 8
    BY <1>3, <1>2, <2>3
  <2>. QED
    BY <2>1, <2>2, <2>4
<1>. HIDE DEF p3
<1>5. Joined(m, p3, payload) /\ m \in Seq(Byte) /\ Len(m) = n
  <2>1. Joined(m, p3, payload)
    BY <1>4 DEF Joined
  <2>. HIDE DEF m
  <2>2. m \in Seq(Byte)
    BY <2>1, JoinedBytes
  <2>3. Len(m) = Len(p3) + Len(payload)
    BY <2>1, JoinedBytes
  <2>4. Len(m) = n
    BY <1>4, <2>3
  <2>. QED
    BY <2>1, <2>2, <2>4
<1>. HIDE DEF m
<1>6. out = Built(Put(m, 2, c))
  <2>1. n <= 65535 /\ n \in Nat
    BY DEF Half
  <2>2. ~(type \notin {0, 8} \/ Len(m) > 65535)
    BY <1>5, <2>1
  <2>3. m = p1 \o i \o k \o payload
    BY DEF m, p3, p2
  <2>. QED
    BY <2>2, <2>3 DEF BuildEcho, i, k, p1
<1>7. Word(m, 2) = 0
  <2>1. 2 \in Nat /\ 2 + 2 <= Len(p1) /\ 2 + 2 <= Len(p2) /\ 2 + 2 <= Len(p3)
    BY <1>1, <1>3, <1>4
  <2>2. Word(p1, 2) = 0
    BY <1>1 DEF Word
  <2>3. Word(p2, 2) = Word(p1, 2)
    BY <1>3, <2>1, JoinedBefore
  <2>4. Word(p3, 2) = Word(p2, 2)
    BY <1>4, <2>1, JoinedBefore
  <2>5. Word(m, 2) = Word(p3, 2)
    BY <1>5, <2>1, JoinedBefore
  <2>. QED
    BY <2>2, <2>3, <2>4, <2>5
<1>8. m \in Seq(Byte) /\ Len(m) = n /\ n \in Nat /\ n >= 8
  BY <1>5
<1>9. 1 \in Nat /\ 2 * 1 = 2 /\ 2 * 1 + 2 <= Len(m) /\ 2 \in Nat /\ 2 + 2 <= Len(m)
  BY <1>8
<1>. HIDE DEF n
<1>10. InternetChecksum(Put(m, 2, c)) = 0
  <2>1. Word(m, 2 * 1) = 0
    BY <1>7, <1>9
  <2>2. InternetChecksum(Put(m, 2 * 1, InternetChecksum(m))) = 0
    BY <1>8, <1>9, <2>1, ChecksumVerifies
  <2>. QED
    BY <1>9, <2>2
<1>11. Put(m, 2, c) \in Seq(Byte) /\ Len(Put(m, 2, c)) = n
  <2>1. c \in Half
    BY <1>8, ChecksumHalf
  <2>. HIDE DEF c
  <2>2. Put(m, 2, c) \in Seq(Byte) /\ Len(Put(m, 2, c)) = Len(m)
    BY <1>8, <1>9, <2>1, PutBytes
  <2>. QED
    BY <1>8, <2>2
<1>. HIDE DEF c, out
<1>12. out.status = "OK" /\ out.bytes = Put(m, 2, c)
  BY <1>6 DEF Built
<1>. QED
  BY <1>10, <1>11, <1>12 DEF out, n

(* A word of a message is a word of it behind the pseudo header.             *)
LEMMA PseudoPut ==
  ASSUME NEW source \in FourBytes, NEW target \in FourBytes, NEW protocol \in Byte,
         NEW d \in Seq(Byte), Len(d) \in Half, NEW o \in Nat, o + 2 <= Len(d), NEW w \in Half
  PROVE  LET p == WithPseudoHeader(source, target, protocol, d)
         IN  /\ p \in Seq(Byte) /\ Len(p) = 12 + Len(d)
             /\ WithPseudoHeader(source, target, protocol, Put(d, o, w)) = Put(p, 12 + o, w)
             /\ Word(p, 12 + o) = Word(d, o)
<1>. DEFINE q == source \o target \o <<0, protocol>> \o Bytes(Len(d))
            p == WithPseudoHeader(source, target, protocol, d)
            e == Put(d, o, w)
<1>1. source \in Seq(Byte) /\ Len(source) = 4 /\ target \in Seq(Byte) /\ Len(target) = 4
  BY DEF FourBytes
<1>2. p \in Seq(Byte) /\ Len(p) = 12 + Len(d) /\ p = q \o d
  <2>1. p \in Seq(Byte) /\ Len(p) = 12 + Len(d)
    BY <1>1, PseudoHeaderBytes
  <2>. QED
    BY <2>1 DEF WithPseudoHeader
<1>3. q \in Seq(Byte) /\ Len(q) = 12
  <2>. DEFINE x == <<0, protocol>>
              y == Bytes(Len(d))
              a == source \o target
              b == a \o x
  <2>1. x \in Seq(Byte) /\ Len(x) = 2
    <3>1. 0 \in Byte
      BY DEF Byte
    <3>. QED
      BY <3>1
  <2>2. y \in Seq(Byte) /\ Len(y) = 2
    BY BytesOfHalf
  <2>. HIDE DEF x, y
  <2>3. Joined(a, source, target) /\ Len(a) = 8 /\ a \in Seq(Byte)
    <3>1. Joined(a, source, target)
      BY <1>1 DEF Joined
    <3>. HIDE DEF a
    <3>2. a \in Seq(Byte) /\ Len(a) = Len(source) + Len(target)
      BY <3>1, JoinedBytes
    <3>. QED
      BY <1>1, <3>1, <3>2
  <2>. HIDE DEF a
  <2>4. Joined(b, a, x) /\ Len(b) = 10 /\ b \in Seq(Byte)
    <3>1. Joined(b, a, x)
      BY <2>1, <2>3 DEF Joined
    <3>. HIDE DEF b
    <3>2. b \in Seq(Byte) /\ Len(b) = Len(a) + Len(x)
      BY <3>1, JoinedBytes
    <3>. QED
      BY <2>1, <2>3, <3>1, <3>2
  <2>. HIDE DEF b
  <2>. DEFINE z == b \o y
  <2>5. z \in Seq(Byte) /\ Len(z) = 12
    <3>1. Joined(z, b, y)
      BY <2>2, <2>4 DEF Joined
    <3>. HIDE DEF z
    <3>2. z \in Seq(Byte) /\ Len(z) = Len(b) + Len(y)
      BY <3>1, JoinedBytes
    <3>. QED
      BY <2>2, <2>4, <3>2
  <2>. QED
    BY <2>5 DEF a, b, x, y
<1>4. Len(e) = Len(d)
  BY PutBytes
<1>5. WithPseudoHeader(source, target, protocol, e) = q \o e
  BY <1>4 DEF WithPseudoHeader
<1>. HIDE DEF q, p
<1>6. q \o e = Put(q \o d, Len(q) + o, w) /\ Word(q \o d, Len(q) + o) = Word(d, o)
  BY <1>3, JoinPut
<1>. QED
  BY <1>2, <1>3, <1>5, <1>6 DEF p

LEMMA PseudoWord ==
  ASSUME NEW source \in FourBytes, NEW target \in FourBytes, NEW protocol \in Byte,
         NEW d \in Seq(Byte), Len(d) \in Half, NEW o \in Nat, o + 2 <= Len(d)
  PROVE  LET p == WithPseudoHeader(source, target, protocol, d)
         IN  p \in Seq(Byte) /\ Len(p) = 12 + Len(d) /\ Word(p, 12 + o) = Word(d, o)
<1>1. 0 \in Half
  BY DEF Half
<1>. QED
  BY <1>1, PseudoPut

LEMMA FromJoined ==
  ASSUME NEW x, NEW d, NEW e, Joined(x, d, e)
  PROVE  From(x, Len(d)) = e
<1>1. d \in Seq(Byte) /\ e \in Seq(Byte)
  BY DEF Joined
<1>2. x \in Seq(Byte) /\ Len(x) = Len(d) + Len(e)
  BY JoinedBytes
<1>3. Len(d) \in Nat /\ Len(d) <= Len(x) /\ Len(x) - Len(d) = Len(e)
  BY <1>1, <1>2
<1>4. From(x, Len(d)) = Slice(x, Len(d), Len(x) - Len(d))
  BY <1>2, <1>3, FromBytes
<1>. QED
  BY <1>3, <1>4, JoinedWhole

(* What is behind an offset depends on the bytes behind it alone.            *)
LEMMA SameFrom ==
  ASSUME NEW b \in Seq(Byte), NEW d \in Seq(Byte), Len(b) = Len(d), NEW o \in Nat, o <= Len(d),
         \A j \in 0..(Len(d) - 1) : j >= o => At(b, j) = At(d, j)
  PROVE  From(b, o) = From(d, o)
<1>. DEFINE x == From(b, o)
            y == From(d, o)
            n == Len(d) - o
<1>1. y \in Seq(Byte) /\ Len(y) = n /\ \A i \in 0..(n - 1) : At(y, i) = At(d, o + i)
  BY FromBytes
<1>2. x \in Seq(Byte) /\ Len(x) = n /\ \A i \in 0..(n - 1) : At(x, i) = At(b, o + i)
  <2>1. o <= Len(b)
    OBVIOUS
  <2>2. /\ x \in Seq(Byte) /\ Len(x) = Len(b) - o
        /\ \A i \in 0..(Len(b) - o - 1) : At(x, i) = At(b, o + i)
    BY <2>1, FromBytes
  <2>. HIDE DEF x
  <2>. QED
    BY <2>2
<1>. HIDE DEF x, y
<1>3. \A i \in 0..(n - 1) : At(x, i) = At(y, i)
  <2>. SUFFICES ASSUME NEW i \in 0..(n - 1) PROVE At(x, i) = At(y, i)
    OBVIOUS
  <2>1. o + i \in 0..(Len(d) - 1) /\ o + i >= o
    OBVIOUS
  <2>. QED
    BY <1>1, <1>2, <2>1
<1>4. Len(x) = Len(y) /\ \A i \in 0..(Len(x) - 1) : At(x, i) = At(y, i)
  BY <1>1, <1>2, <1>3
<1>5. x = y
  BY <1>1, <1>2, <1>4, SameBytes
<1>. QED
  BY <1>5 DEF x, y

LEMMA DatagramBuilt ==
  ASSUME NEW source \in FourBytes, NEW target \in FourBytes, NEW source_port \in Half,
         NEW destination_port \in Half, NEW payload \in Seq(Byte), 8 + Len(payload) \in Half
  PROVE  LET out == BuildDatagram(source, target, source_port, destination_port, payload)
             b   == out.bytes
         IN  /\ b \in Seq(Byte) /\ Len(b) = 8 + Len(payload)
             /\ Word(b, 4) = Len(b) /\ Word(b, 6) # 0
             /\ TransportChecksum(source, target, 17, b) = 0
             /\ From(b, 8) = payload
<1>. DEFINE n  == 8 + Len(payload)
            p1 == Bytes(source_port)
            i  == Bytes(destination_port)
            p2 == p1 \o i
            k  == Bytes(n)
            p3 == p2 \o k
            z  == <<0, 0>>
            p4 == p3 \o z
            d  == p4 \o payload
            c  == TransportChecksum(source, target, 17, d)
            v  == NeverZero(c)
            out == BuildDatagram(source, target, source_port, destination_port, payload)
            b  == Put(d, 6, v)
<1>1. z \in Seq(Byte) /\ Len(z) = 2 /\ Word(z, 0) = 0
  <2>1. 0 \in Byte
    BY DEF Byte
  <2>2. At(z, 0) = 0 /\ At(z, 0 + 1) = 0
    BY DEF At
  <2>. QED
    BY <2>1, <2>2 DEF Word
<1>2. /\ p1 \in Seq(Byte) /\ Len(p1) = 2 /\ i \in Seq(Byte) /\ Len(i) = 2
      /\ k \in Seq(Byte) /\ Len(k) = 2 /\ Word(k, 0) = n
  BY BytesOfHalf, WordOfBytes
<1>. HIDE DEF p1, i, k, z
<1>3. Joined(p2, p1, i) /\ p2 \in Seq(Byte) /\ Len(p2) = 4
  <2>1. Joined(p2, p1, i)
    BY <1>2 DEF Joined
  <2>. HIDE DEF p2
  <2>2. p2 \in Seq(Byte)
    BY <2>1, JoinedBytes
  <2>3. Len(p2) = Len(p1) + Len(i)
    BY <2>1, JoinedBytes
  <2>4. Len(p2) = 4
    BY <1>2, <2>3
  <2>. QED
    BY <2>1, <2>2, <2>4
<1>. HIDE DEF p2
<1>4. Joined(p3, p2, k) /\ p3 \in Seq(Byte) /\ Len(p3) = 6
  <2>1. Joined(p3, p2, k)
    BY <1>2, <1>3 DEF Joined
  <2>. HIDE DEF p3
  <2>2. p3 \in Seq(Byte)
    BY <2>1, JoinedBytes
  <2>3. Len(p3) = Len(p2) + Len(k)
    BY <2>1, JoinedBytes
  <2>4. Len(p3) = 6
    BY <1>2, <1>3, <2>3
  <2>. QED
    BY <2>1, <2>2, <2>4
<1>. HIDE DEF p3
<1>5. Joined(p4, p3, z) /\ p4 \in Seq(Byte) /\ Len(p4) = 8
  <2>1. Joined(p4, p3, z)
    BY <1>1, <1>4 DEF Joined
  <2>. HIDE DEF p4
  <2>2. p4 \in Seq(Byte)
    BY <2>1, JoinedBytes
  <2>3. Len(p4) = Len(p3) + Len(z)
    BY <2>1, JoinedBytes
  <2>4. Len(p4) = 8
    BY <1>1, <1>4, <2>3
  <2>. QED
    BY <2>1, <2>2, <2>4
<1>. HIDE DEF p4
<1>6. Joined(d, p4, payload) /\ d \in Seq(Byte) /\ Len(d) = n
  <2>1. Joined(d, p4, payload)
    BY <1>5 DEF Joined
  <2>. HIDE DEF d
  <2>2. d \in Seq(Byte)
    BY <2>1, JoinedBytes
  <2>3. Len(d) = Len(p4) + Len(payload)
    BY <2>1, JoinedBytes
  <2>4. Len(d) = n
    BY <1>5, <2>3
  <2>. QED
    BY <2>1, <2>2, <2>4
<1>. HIDE DEF d
<1>7. out = Built(b)
  <2>1. n <= 65535 /\ n \in Nat
    BY DEF Half
  <2>2. ~(Len(d) > 65535)
    BY <1>6, <2>1
  <2>3. d = p1 \o i \o k \o z \o payload
    BY DEF d, p4, p3, p2
  <2>. QED
    BY <2>2, <2>3 DEF BuildDatagram, i, k, p1, z
<1>8. Word(d, 4) = n /\ Word(d, 6) = 0
  <2>1. /\ 0 \in Nat /\ 4 \in Nat /\ 6 \in Nat /\ 0 + 2 <= Len(k) /\ 0 + 2 <= Len(z)
        /\ 4 = Len(p2) + 0 /\ 6 = Len(p3) + 0
        /\ 4 + 2 <= Len(p3) /\ 4 + 2 <= Len(p4) /\ 6 + 2 <= Len(p4)
    BY <1>1, <1>2, <1>3, <1>4, <1>5
  <2>2. Word(p3, Len(p2) + 0) = Word(k, 0)
    BY <1>4, <2>1, JoinedBehind
  <2>3. Word(p4, 4) = Word(p3, 4)
    BY <1>5, <2>1, JoinedBefore
  <2>4. Word(d, 4) = Word(p4, 4)
    BY <1>6, <2>1, JoinedBefore
  <2>5. Word(p4, Len(p3) + 0) = Word(z, 0)
    BY <1>5, <2>1, JoinedBehind
  <2>6. Word(d, 6) = Word(p4, 6)
    BY <1>6, <2>1, JoinedBefore
  <2>. QED
    BY <1>1, <1>2, <2>1, <2>2, <2>3, <2>4, <2>5, <2>6
<1>9. d \in Seq(Byte) /\ Len(d) = n /\ n \in Half /\ n \in Nat /\ n >= 8
  BY <1>6
<1>10. 6 \in Nat /\ 6 + 2 <= Len(d) /\ Len(d) \in Half
  BY <1>9
<1>. HIDE DEF n
<1>. DEFINE p == WithPseudoHeader(source, target, 17, d)
<1>11. 17 \in Byte
  BY ByteRange
<1>12. p \in Seq(Byte) /\ Len(p) = 12 + Len(d) /\ Word(p, 12 + 6) = Word(d, 6)
  <2>1. d \in Seq(Byte) /\ Len(d) \in Half /\ 6 \in Nat /\ 6 + 2 <= Len(d) /\ 17 \in Byte
    BY <1>9, <1>10, <1>11
  <2>. HIDE DEF p
  <2>. QED
    BY <2>1, PseudoWord DEF p
<1>13. c = InternetChecksum(p)
  BY DEF TransportChecksum
<1>. HIDE DEF p
<1>14. c \in Half
  BY <1>12, <1>13, ChecksumHalf
<1>. HIDE DEF c
<1>15. v \in Half /\ v # 0
  <2>1. 65535 \in Half
    BY DEF Half
  <2>. QED
    BY <1>14, <2>1 DEF NeverZero
<1>16. InternetChecksum(Put(p, 12 + 6, v)) = 0
  <2>1. 9 \in Nat /\ 2 * 9 = 12 + 6 /\ 2 * 9 + 2 <= Len(p)
    BY <1>9, <1>12
  <2>2. Word(p, 2 * 9) = 0
    BY <1>8, <1>12, <2>1
  <2>3. InternetChecksum(Put(p, 2 * 9, NeverZero(InternetChecksum(p)))) = 0
    BY <1>12, <2>1, <2>2, ChecksumVerifies
  <2>. QED
    BY <1>13, <2>1, <2>3
<1>. HIDE DEF v
<1>17. TransportChecksum(source, target, 17, b) = 0
  <2>1. WithPseudoHeader(source, target, 17, Put(d, 6, v)) = Put(p, 12 + 6, v)
    BY <1>9, <1>10, <1>11, <1>15, PseudoPut DEF p
  <2>. QED
    BY <1>16, <2>1 DEF TransportChecksum
<1>18. /\ b \in Seq(Byte) /\ Len(b) = Len(d) /\ Word(b, 6) = v
       /\ \A j \in 0..(Len(d) - 1) :
            At(b, j) = IF j = 6 THEN v \div 256 ELSE IF j = 6 + 1 THEN v % 256 ELSE At(d, j)
  <2>1. d \in Seq(Byte) /\ 6 \in Nat /\ 6 + 2 <= Len(d) /\ v \in Half
    BY <1>9, <1>10, <1>15
  <2>. QED
    BY <2>1, PutBytes
<1>. HIDE DEF b, out
<1>19. Word(b, 4) = n
  <2>1. 4 \in 0..(Len(d) - 1) /\ 4 + 1 \in 0..(Len(d) - 1) /\ 4 # 6 /\ 4 # 6 + 1 /\ 4 + 1 # 6 /\ 4 + 1 # 6 + 1
    BY <1>9
  <2>2. At(b, 4) = At(d, 4) /\ At(b, 4 + 1) = At(d, 4 + 1)
    BY <1>18, <2>1
  <2>. QED
    BY <1>8, <2>2 DEF Word
<1>20. out.bytes = b
  BY <1>7 DEF Built
<1>21. From(b, 8) = payload
  <2>1. From(d, Len(p4)) = payload
    BY <1>6, FromJoined
  <2>2. \A j \in 0..(Len(d) - 1) : j >= 8 => At(b, j) = At(d, j)
    BY <1>18
  <2>3. 8 \in Nat /\ 8 <= Len(d)
    BY <1>9
  <2>4. From(b, 8) = From(d, 8)
    BY <1>9, <1>18, <2>2, <2>3, SameFrom, SMTT(30)
  <2>. QED
    BY <1>5, <2>1, <2>4
<1>. QED
  BY <1>9, <1>15, <1>17, <1>18, <1>19, <1>20, <1>21 DEF out, n

(* The segments of this program's senders.                                   *)
SegmentOut(source, target, source_port, destination_port, sequence, acknowledgment, options, payload) ==
  BuildSegment([source_ipv4 |-> source, destination_ipv4 |-> target,
                source_port |-> source_port, destination_port |-> destination_port,
                sequence_number |-> sequence, acknowledgment_number |-> acknowledgment,
                flags |-> 24, window |-> 4096, urgent_pointer |-> 0, options |-> options], payload)

SegmentOf(source, target, source_port, destination_port, sequence, acknowledgment, options, payload) ==
  SegmentOut(source, target, source_port, destination_port, sequence, acknowledgment, options, payload).bytes

LEMMA SegmentBuilt ==
  ASSUME NEW source \in FourBytes, NEW target \in FourBytes, NEW source_port \in Half,
         NEW destination_port \in Half, NEW sequence \in FourBytes, NEW acknowledgment \in FourBytes,
         NEW options \in OptionBytes, NEW payload \in Seq(Byte),
         20 + Len(options) + Len(payload) \in Half
  PROVE  LET b == SegmentOf(source, target, source_port, destination_port, sequence, acknowledgment,
                             options, payload)
         IN  /\ b \in Seq(Byte) /\ Len(b) = 20 + Len(options) + Len(payload)
             /\ ParseSegment(b).status = "OK"
             /\ TransportChecksum(source, target, 6, b) = 0
<1>. DEFINE n  == 20 + Len(options)
            o  == 16 * (n \div 4) + 24 \div 256
            p1 == Bytes(source_port)
            i  == Bytes(destination_port)
            p2 == p1 \o i
            p3 == p2 \o sequence
            p4 == p3 \o acknowledgment
            q  == <<o, 24 % 256>>
            p5 == p4 \o q
            k  == Bytes(4096)
            p6 == p5 \o k
            z  == <<0, 0>>
            p7 == p6 \o z
            u  == Bytes(0)
            p8 == p7 \o u
            p9 == p8 \o options
            s  == p9 \o payload
            l  == n + Len(payload)
            c  == TransportChecksum(source, target, 6, s)
            out == SegmentOut(source, target, source_port, destination_port, sequence, acknowledgment,
                              options, payload)
            b  == Put(s, 16, c)
<1>0. options \in Seq(Byte) /\ Len(options) \in Nat /\ Len(options) <= 40 /\ Len(options) % 4 = 0
  BY DEF OptionBytes
<1>1. n \in Nat /\ n >= 20 /\ n <= 60 /\ n % 4 = 0 /\ n = 4 * (n \div 4) /\ n \div 4 \in Nat /\ n \div 4 <= 15
  <2>1. \A h \in Nat : h <= 40 /\ h % 4 = 0 =>
          /\ (20 + h) % 4 = 0 /\ 20 + h = 4 * ((20 + h) \div 4)
          /\ (20 + h) \div 4 \in Nat /\ (20 + h) \div 4 <= 15
    OBVIOUS
  <2>. QED
    BY <1>0, <2>1
<1>2. o \in Byte /\ 4 * (o \div 16) = n /\ (o \div 2) % 8 = 0
  <2>. DEFINE h == n \div 4
  <2>1. h \in Nat /\ h <= 15 /\ n = 4 * h /\ o = 16 * h
    BY <1>1
  <2>. HIDE DEF h, n, o
  <2>2. o \in Nat /\ o <= 255 /\ o \div 16 = h /\ o \div 2 = 8 * h
    BY <2>1
  <2>3. \A j \in Nat : (8 * j) % 8 = 0
    OBVIOUS
  <2>. QED
    BY <2>1, <2>2, <2>3, ByteRange
<1>3. z \in Seq(Byte) /\ Len(z) = 2 /\ Word(z, 0) = 0
  <2>1. 0 \in Byte
    BY DEF Byte
  <2>2. At(z, 0) = 0 /\ At(z, 0 + 1) = 0
    BY DEF At
  <2>. QED
    BY <2>1, <2>2 DEF Word
<1>4. /\ p1 \in Seq(Byte) /\ Len(p1) = 2 /\ i \in Seq(Byte) /\ Len(i) = 2
      /\ k \in Seq(Byte) /\ Len(k) = 2 /\ u \in Seq(Byte) /\ Len(u) = 2
  <2>1. 0 \in Half /\ 4096 \in Half
    BY DEF Half
  <2>. QED
    BY <2>1, BytesOfHalf
<1>5. q \in Seq(Byte) /\ Len(q) = 2 /\ At(q, 0) = o
  <2>1. 24 % 256 \in Byte
    BY ByteRange
  <2>. HIDE DEF o
  <2>. QED
    BY <1>2, <2>1 DEF At
<1>6. sequence \in Seq(Byte) /\ Len(sequence) = 4 /\ acknowledgment \in Seq(Byte) /\ Len(acknowledgment) = 4
  BY DEF FourBytes
<1>7. n > 60 \/ n % 4 # 0 \/ 24 > 511 <=> FALSE
  BY <1>1
<1>. HIDE DEF p1, i, q, k, z, u, o
<1>11. Joined(p2, p1, i) /\ p2 \in Seq(Byte) /\ Len(p2) = 4
  <2>1. Joined(p2, p1, i)
    BY <1>4 DEF Joined
  <2>. HIDE DEF p2
  <2>2. p2 \in Seq(Byte)
    BY <2>1, JoinedBytes
  <2>3. Len(p2) = Len(p1) + Len(i)
    BY <2>1, JoinedBytes
  <2>4. Len(p2) = 4
    BY <1>4, <2>3
  <2>. QED
    BY <2>1, <2>2, <2>4
<1>. HIDE DEF p2
<1>12. Joined(p3, p2, sequence) /\ p3 \in Seq(Byte) /\ Len(p3) = 8
  <2>1. Joined(p3, p2, sequence)
    BY <1>6, <1>11 DEF Joined
  <2>. HIDE DEF p3
  <2>2. p3 \in Seq(Byte)
    BY <2>1, JoinedBytes
  <2>3. Len(p3) = Len(p2) + Len(sequence)
    BY <2>1, JoinedBytes
  <2>4. Len(p3) = 8
    BY <1>6, <1>11, <2>3
  <2>. QED
    BY <2>1, <2>2, <2>4
<1>. HIDE DEF p3
<1>13. Joined(p4, p3, acknowledgment) /\ p4 \in Seq(Byte) /\ Len(p4) = 12
  <2>1. Joined(p4, p3, acknowledgment)
    BY <1>6, <1>12 DEF Joined
  <2>. HIDE DEF p4
  <2>2. p4 \in Seq(Byte)
    BY <2>1, JoinedBytes
  <2>3. Len(p4) = Len(p3) + Len(acknowledgment)
    BY <2>1, JoinedBytes
  <2>4. Len(p4) = 12
    BY <1>6, <1>12, <2>3
  <2>. QED
    BY <2>1, <2>2, <2>4
<1>. HIDE DEF p4
<1>14. Joined(p5, p4, q) /\ p5 \in Seq(Byte) /\ Len(p5) = 14
  <2>1. Joined(p5, p4, q)
    BY <1>5, <1>13 DEF Joined
  <2>. HIDE DEF p5
  <2>2. p5 \in Seq(Byte)
    BY <2>1, JoinedBytes
  <2>3. Len(p5) = Len(p4) + Len(q)
    BY <2>1, JoinedBytes
  <2>4. Len(p5) = 14
    BY <1>5, <1>13, <2>3
  <2>. QED
    BY <2>1, <2>2, <2>4
<1>. HIDE DEF p5
<1>15. Joined(p6, p5, k) /\ p6 \in Seq(Byte) /\ Len(p6) = 16
  <2>1. Joined(p6, p5, k)
    BY <1>4, <1>14 DEF Joined
  <2>. HIDE DEF p6
  <2>2. p6 \in Seq(Byte)
    BY <2>1, JoinedBytes
  <2>3. Len(p6) = Len(p5) + Len(k)
    BY <2>1, JoinedBytes
  <2>4. Len(p6) = 16
    BY <1>4, <1>14, <2>3
  <2>. QED
    BY <2>1, <2>2, <2>4
<1>. HIDE DEF p6
<1>16. Joined(p7, p6, z) /\ p7 \in Seq(Byte) /\ Len(p7) = 18
  <2>1. Joined(p7, p6, z)
    BY <1>3, <1>15 DEF Joined
  <2>. HIDE DEF p7
  <2>2. p7 \in Seq(Byte)
    BY <2>1, JoinedBytes
  <2>3. Len(p7) = Len(p6) + Len(z)
    BY <2>1, JoinedBytes
  <2>4. Len(p7) = 18
    BY <1>3, <1>15, <2>3
  <2>. QED
    BY <2>1, <2>2, <2>4
<1>. HIDE DEF p7
<1>17. Joined(p8, p7, u) /\ p8 \in Seq(Byte) /\ Len(p8) = 20
  <2>1. Joined(p8, p7, u)
    BY <1>4, <1>16 DEF Joined
  <2>. HIDE DEF p8
  <2>2. p8 \in Seq(Byte)
    BY <2>1, JoinedBytes
  <2>3. Len(p8) = Len(p7) + Len(u)
    BY <2>1, JoinedBytes
  <2>4. Len(p8) = 20
    BY <1>4, <1>16, <2>3
  <2>. QED
    BY <2>1, <2>2, <2>4
<1>. HIDE DEF p8
<1>18. Joined(p9, p8, options) /\ p9 \in Seq(Byte) /\ Len(p9) = n
  <2>1. Joined(p9, p8, options)
    BY <1>0, <1>17 DEF Joined
  <2>. HIDE DEF p9
  <2>2. p9 \in Seq(Byte)
    BY <2>1, JoinedBytes
  <2>3. Len(p9) = Len(p8) + Len(options)
    BY <2>1, JoinedBytes
  <2>4. Len(p9) = n
    BY <1>0, <1>17, <2>3
  <2>. QED
    BY <2>1, <2>2, <2>4
<1>. HIDE DEF p9
<1>19. Joined(s, p9, payload) /\ s \in Seq(Byte) /\ Len(s) = l
  <2>1. Joined(s, p9, payload)
    BY <1>18 DEF Joined
  <2>. HIDE DEF s
  <2>2. s \in Seq(Byte)
    BY <2>1, JoinedBytes
  <2>3. Len(s) = Len(p9) + Len(payload)
    BY <2>1, JoinedBytes
  <2>4. Len(s) = l
    BY <1>18, <2>3
  <2>. QED
    BY <2>1, <2>2, <2>4
<1>. HIDE DEF s
<1>20. out = Built(b)
  <2>1. l <= 65535 /\ l \in Nat
    BY DEF Half
  <2>2. ~(Len(s) > 65535)
    BY <1>19, <2>1
  <2>3. s = p1 \o i \o sequence \o acknowledgment \o q \o k \o z \o u \o options \o payload
    BY DEF s, p9, p8, p7, p6, p5, p4, p3, p2
  <2>. QED
    BY <1>7, <2>2, <2>3 DEF SegmentOut, BuildSegment, i, k, p1, z, u, q, o
<1>21. /\ Len(q) = 2 /\ Len(z) = 2 /\ Len(p4) = 12 /\ Len(p5) = 14 /\ Len(p6) = 16 /\ Len(p7) = 18
       /\ Len(p8) = 20 /\ Len(p9) = n
  BY <1>3, <1>5, <1>13, <1>14, <1>15, <1>16, <1>17, <1>18
<1>22. s \in Seq(Byte) /\ Len(s) = l /\ l \in Half /\ l \in Nat /\ l >= n /\ n \in Nat /\ n >= 20
  BY <1>1, <1>19
<1>. HIDE DEF n, l
<1>23. At(s, 12) = o
  <2>1. /\ 0 \in Nat /\ 12 \in Nat /\ 0 + 2 <= Len(q) /\ 12 = Len(p4) + 0 /\ 12 + 2 <= Len(p5)
        /\ 12 + 2 <= Len(p6) /\ 12 + 2 <= Len(p7) /\ 12 + 2 <= Len(p8) /\ 12 + 2 <= Len(p9)
    BY <1>21, <1>22
  <2>2. At(p5, Len(p4) + 0) = At(q, 0)
    BY <1>14, <2>1, JoinedBehind
  <2>3. At(p6, 12) = At(p5, 12)
    BY <1>15, <2>1, JoinedBefore
  <2>4. At(p7, 12) = At(p6, 12)
    BY <1>16, <2>1, JoinedBefore
  <2>5. At(p8, 12) = At(p7, 12)
    BY <1>17, <2>1, JoinedBefore
  <2>6. At(p9, 12) = At(p8, 12)
    BY <1>18, <2>1, JoinedBefore
  <2>7. At(s, 12) = At(p9, 12)
    BY <1>19, <2>1, JoinedBefore
  <2>. QED
    BY <1>5, <2>1, <2>2, <2>3, <2>4, <2>5, <2>6, <2>7
<1>24. Word(s, 16) = 0
  <2>1. /\ 0 \in Nat /\ 16 \in Nat /\ 0 + 2 <= Len(z) /\ 16 = Len(p6) + 0
        /\ 16 + 2 <= Len(p7) /\ 16 + 2 <= Len(p8) /\ 16 + 2 <= Len(p9)
    BY <1>21, <1>22
  <2>2. Word(p7, Len(p6) + 0) = Word(z, 0)
    BY <1>16, <2>1, JoinedBehind
  <2>3. Word(p8, 16) = Word(p7, 16)
    BY <1>17, <2>1, JoinedBefore
  <2>4. Word(p9, 16) = Word(p8, 16)
    BY <1>18, <2>1, JoinedBefore
  <2>5. Word(s, 16) = Word(p9, 16)
    BY <1>19, <2>1, JoinedBefore
  <2>. QED
    BY <1>3, <2>1, <2>2, <2>3, <2>4, <2>5
<1>25. 16 \in Nat /\ 16 + 2 <= Len(s) /\ Len(s) \in Half
  BY <1>22
<1>. DEFINE p == WithPseudoHeader(source, target, 6, s)
<1>26. 6 \in Byte /\ 0 \in Half
  BY ByteRange DEF Half
<1>27. p \in Seq(Byte) /\ Len(p) = 12 + Len(s) /\ Word(p, 12 + 16) = Word(s, 16)
  <2>1. s \in Seq(Byte) /\ Len(s) \in Half /\ 16 \in Nat /\ 16 + 2 <= Len(s) /\ 6 \in Byte
    BY <1>22, <1>25, <1>26
  <2>. HIDE DEF p
  <2>. QED
    BY <2>1, PseudoWord DEF p
<1>28. c = InternetChecksum(p)
  BY DEF TransportChecksum
<1>. HIDE DEF p
<1>29. c \in Half
  BY <1>27, <1>28, ChecksumHalf
<1>. HIDE DEF c
<1>30. InternetChecksum(Put(p, 12 + 16, c)) = 0
  <2>1. 14 \in Nat /\ 2 * 14 = 12 + 16 /\ 2 * 14 + 2 <= Len(p)
    BY <1>22, <1>27
  <2>2. Word(p, 2 * 14) = 0
    BY <1>24, <1>27, <2>1
  <2>3. InternetChecksum(Put(p, 2 * 14, InternetChecksum(p))) = 0
    BY <1>27, <2>1, <2>2, ChecksumVerifies
  <2>. QED
    BY <1>28, <2>1, <2>3
<1>31. TransportChecksum(source, target, 6, b) = 0
  <2>1. WithPseudoHeader(source, target, 6, Put(s, 16, c)) = Put(p, 12 + 16, c)
    <3>1. s \in Seq(Byte) /\ Len(s) \in Half /\ 16 \in Nat /\ 16 + 2 <= Len(s) /\ 6 \in Byte /\ c \in Half
      BY <1>22, <1>25, <1>26, <1>29
    <3>. QED
      BY <3>1, PseudoPut DEF p
  <2>. QED
    BY <1>30, <2>1 DEF TransportChecksum
<1>32. /\ b \in Seq(Byte) /\ Len(b) = Len(s)
       /\ \A j \in 0..(Len(s) - 1) :
            At(b, j) = IF j = 16 THEN c \div 256 ELSE IF j = 16 + 1 THEN c % 256 ELSE At(s, j)
  <2>1. s \in Seq(Byte) /\ 16 \in Nat /\ 16 + 2 <= Len(s) /\ c \in Half
    BY <1>22, <1>25, <1>29
  <2>. QED
    BY <2>1, PutBytes
<1>. HIDE DEF b, out
<1>33. At(b, 12) = o
  <2>1. 12 \in 0..(Len(s) - 1) /\ 12 # 16 /\ 12 # 16 + 1
    BY <1>22
  <2>. QED
    BY <1>23, <1>32, <2>1
<1>34. ParseSegment(b).status = "OK"
  <2>1. DataOffset(b) = n /\ (At(b, 12) \div 2) % 8 = 0
    BY <1>2, <1>33 DEF DataOffset
  <2>2. ~(Len(b) < 20) /\ ~(n < 20) /\ ~(Len(b) < n)
    BY <1>22, <1>32
  <2>. QED
    BY <2>1, <2>2 DEF ParseSegment
<1>35. out.bytes = b
  BY <1>20 DEF Built
<1>. QED
  BY <1>22, <1>31, <1>32, <1>34, <1>35 DEF SegmentOf, out, l, n

-----------------------------------------------------------------------------
(* What is sent is sound.                                                    *)

Kinds == {"ARP", "ICMP", "UDP", "BARE_UDP", "TCP", "RAW"}

LEMMA Protocols ==
  /\ Protocol("ICMP") = 1 /\ Protocol("TCP") = 6 /\ Protocol("UDP") = 17 /\ Protocol("BARE_UDP") = 17
  /\ Protocol("RAW") = 99 /\ Protocol("ARP") = 99
BY DEF Protocol

LEMMA SendableSets ==
  ASSUME NEW m, Sendable(m)
  PROVE  /\ m.kind \in Kinds /\ m.payload \in Seq(Byte) /\ m.options \in OptionBytes
         /\ m.ip_options \in OptionBytes /\ m.source_port \in Half /\ m.destination_port \in Half
         /\ m.flags_fragment \in FragmentField /\ m.ttl \in Byte /\ m.ether_type \in Half
         /\ m.padding \in Nat /\ Protocol(m.kind) \in Byte
         /\ 40 + Len(m.ip_options) + Len(m.options) + Len(m.payload) \in Half
<1>1. /\ m.kind \in Kinds /\ m.payload \in Seq(Byte) /\ m.options \in Seq(Byte)
      /\ m.ip_options \in Seq(Byte) /\ m.source_port \in Nat /\ m.destination_port \in Nat
      /\ m.flags_fragment \in Nat /\ m.ttl \in Byte /\ m.ether_type \in Nat /\ m.padding \in Nat
  BY DEF Sendable, Kinds
<1>2. m.source_port \in Half /\ m.destination_port \in Half /\ m.ether_type \in Half
  BY <1>1 DEF Sendable, Half
<1>3. m.flags_fragment \in FragmentField
  BY <1>1 DEF Sendable, FragmentField
<1>4. m.options \in OptionBytes /\ m.ip_options \in OptionBytes
  BY <1>1 DEF Sendable, OptionBytes
<1>5. 40 + Len(m.ip_options) + Len(m.options) + Len(m.payload) \in Half
  <2>. DEFINE i == Len(m.ip_options)
              o == Len(m.options)
              l == Len(m.payload)
  <2>2. i \in Nat /\ o \in Nat /\ l \in Nat
    <3>1. m.ip_options \in Seq(Byte) /\ m.options \in Seq(Byte) /\ m.payload \in Seq(Byte)
      BY <1>1
    <3>. QED
      BY <3>1
  <2>. HIDE DEF i, o, l
  <2>3. 40 + i + o + l \in Nat
    BY <2>2
  <2>1. 40 + Len(m.ip_options) + Len(m.options) + Len(m.payload) \in Nat
    BY <2>3 DEF i, o, l
  <2>. QED
    BY <2>1 DEF Sendable, Half
<1>6. Protocol(m.kind) \in Byte
  <2>1. 1 \in Byte /\ 6 \in Byte /\ 17 \in Byte /\ 99 \in Byte
    BY ByteRange
  <2>. QED
    BY <1>1, <2>1, Protocols, SMTT(30) DEF Kinds
<1>. QED
  BY <1>1, <1>2, <1>3, <1>4, <1>5, <1>6

(* What the parser of the protocol accepts between two hosts.                *)
Accepted(protocol, source, target, b) ==
  /\ protocol = 1 => ParseMessage(b).status = "OK" /\ Len(ParseMessage(b).body) >= 4
  /\ protocol = 6 => ParseSegment(b).status = "OK" /\ TransportChecksum(source, target, 6, b) = 0
  /\ protocol = 17 =>
       /\ ParseDatagram(b).status = "OK"
       /\ ParseDatagram(b).checksum = 0 \/ TransportChecksum(source, target, 17, b) = 0

LEMMA AcceptedIsRead ==
  ASSUME NEW d \in Seq(Byte), Accepted(At(d, 9), Slice(d, 12, 4), Slice(d, 16, 4), Payload(d))
  PROVE  Transport(d).status = "OK"
<1>. DEFINE p == Payload(d)
            m == ParseMessage(p)
            s == ParseSegment(p)
            u == ParseDatagram(p)
            t == Transport(d)
            fragment == Word(d, 6) % 16384 # 0
            sum(protocol) == TransportChecksum(Slice(d, 12, 4), Slice(d, 16, 4), protocol, p)
<1>1. /\ fragment \/ At(d, 9) \notin {1, 6, 17} => t = Delivered(p)
      /\ ~fragment /\ At(d, 9) = 1 =>
           t = IF m.status = "OK" /\ Len(m.body) >= 4 THEN Delivered(From(m.body, 4)) ELSE Refused("REFUSED")
      /\ ~fragment /\ At(d, 9) = 6 =>
           t = IF s.status = "OK" /\ sum(6) = 0 THEN Delivered(s.payload) ELSE Refused("REFUSED")
      /\ ~fragment /\ At(d, 9) = 17 =>
           t = IF u.status = "OK" /\ (u.checksum = 0 \/ sum(17) = 0) THEN Delivered(u.payload)
               ELSE Refused("REFUSED")
  BY TransportCases
<1>2. /\ At(d, 9) = 1 => m.status = "OK" /\ Len(m.body) >= 4
      /\ At(d, 9) = 6 => s.status = "OK" /\ sum(6) = 0
      /\ At(d, 9) = 17 => u.status = "OK" /\ (u.checksum = 0 \/ sum(17) = 0)
  BY DEF Accepted
<1>3. \A payload : Delivered(payload).status = "OK"
  BY DEF Delivered
<1>. HIDE DEF p, m, s, u, t, fragment, sum
<1>4. CASE fragment \/ At(d, 9) \notin {1, 6, 17}
  BY <1>1, <1>3, <1>4 DEF t
<1>5. CASE ~fragment /\ At(d, 9) = 1
  BY <1>1, <1>2, <1>3, <1>5 DEF t
<1>6. CASE ~fragment /\ At(d, 9) = 6
  BY <1>1, <1>2, <1>3, <1>6 DEF t
<1>7. CASE ~fragment /\ At(d, 9) = 17
  BY <1>1, <1>2, <1>3, <1>7 DEF t
<1>. QED
  BY <1>4, <1>5, <1>6, <1>7

(* A packet that carries the message m and that every parser takes.          *)
Sound(m, d) ==
  /\ d \in Seq(Byte) /\ Framed(d)
  /\ Word(d, 6) = m.flags_fragment /\ At(d, 9) = Protocol(m.kind)
  /\ InternetChecksum(Slice(d, 0, HeaderLength(d))) = 0
  /\ Transport(d).status = "OK"
  /\ m.kind = "UDP" => Word(Payload(d), 6) # 0 /\ From(Payload(d), 8) = m.payload

LEMMA PacketSound ==
  ASSUME NEW m, Sendable(m), NEW source \in FourBytes, NEW target \in FourBytes,
         NEW body \in Seq(Byte), NEW tail \in Seq(Byte), 20 + Len(m.ip_options) + Len(body) \in Half,
         Accepted(Protocol(m.kind), source, target, body),
         m.kind = "UDP" => Word(body, 6) # 0 /\ From(body, 8) = m.payload
  PROVE  LET p == Packet(m, source, target, body)
         IN  p \in Seq(Byte) /\ Sound(m, p \o tail)
<1>. DEFINE fragment == m.flags_fragment
            ttl == m.ttl
            protocol == Protocol(m.kind)
            options == m.ip_options
            h == HeaderOf(fragment, ttl, protocol, source, target, options)
            y == WithChecksum(Put(h, 2, Len(h) + Len(body))) \o body
            x == y \o tail
            p == Packet(m, source, target, body)
            d == p \o tail
<1>1. fragment \in FragmentField /\ ttl \in Byte /\ protocol \in Byte /\ options \in OptionBytes
  BY SendableSets
<1>2. p = y /\ d = x
  BY DEF Packet, HeaderOf
<1>3. 20 + Len(options) + Len(body) \in Half
  OBVIOUS
<1>. HIDE DEF fragment, ttl, protocol, options, d, p
<1>4. /\ y \in Seq(Byte) /\ x \in Seq(Byte) /\ Framed(x) /\ Payload(x) = body
      /\ Word(x, 6) = fragment /\ At(x, 9) = protocol
      /\ Slice(x, 12, 4) = source /\ Slice(x, 16, 4) = target
      /\ InternetChecksum(Slice(x, 0, HeaderLength(x))) = 0
  BY <1>1, <1>3, PacketBuilt
<1>. HIDE DEF x, y
<1>5. Transport(x).status = "OK"
  <2>1. Accepted(At(x, 9), Slice(x, 12, 4), Slice(x, 16, 4), Payload(x))
    BY <1>4 DEF protocol
  <2>. QED
    BY <1>4, <2>1, AcceptedIsRead
<1>. QED
  BY <1>2, <1>4, <1>5 DEF Sound, d, p, fragment, protocol

LEMMA MessageParsed ==
  ASSUME NEW b \in Seq(Byte), Len(b) >= 8, InternetChecksum(b) = 0
  PROVE  ParseMessage(b).status = "OK" /\ Len(ParseMessage(b).body) >= 4
<1>1. ~(Len(b) < 4) /\ 4 \in Nat /\ 4 <= Len(b)
  OBVIOUS
<1>2. ParseMessage(b).status = "OK" /\ ParseMessage(b).body = From(b, 4)
  BY <1>1 DEF ParseMessage
<1>3. Len(From(b, 4)) = Len(b) - 4
  BY <1>1, FromBytes
<1>. QED
  BY <1>2, <1>3

LEMMA DatagramParsed ==
  ASSUME NEW b \in Seq(Byte), Len(b) >= 8, Word(b, 4) = Len(b)
  PROVE  ParseDatagram(b).status = "OK" /\ ParseDatagram(b).checksum = Word(b, 6)
<1>1. ~(Len(b) < 8) /\ ~(Word(b, 4) < 8) /\ ~(Len(b) < Word(b, 4))
  OBVIOUS
<1>. QED
  BY <1>1 DEF ParseDatagram

LEMMA BodyAccepted ==
  ASSUME NEW m, Sendable(m), m.kind # "ARP"
  PROVE  LET b == Body(m)
         IN  /\ b \in Seq(Byte) /\ 20 + Len(m.ip_options) + Len(b) \in Half
             /\ Accepted(Protocol(m.kind), Here, There, b)
             /\ m.kind = "UDP" => Word(b, 6) # 0 /\ From(b, 8) = m.payload
<1>. DEFINE b == Body(m)
            i == Len(m.ip_options)
            o == Len(m.options)
            l == Len(m.payload)
<1>1. /\ m.kind \in Kinds /\ m.payload \in Seq(Byte) /\ m.options \in OptionBytes
      /\ m.ip_options \in OptionBytes /\ m.source_port \in Half /\ m.destination_port \in Half
      /\ 40 + i + o + l \in Half
  BY SendableSets
<1>2. i \in Nat /\ o \in Nat /\ l \in Nat
  <2>1. m.payload \in Seq(Byte) /\ m.options \in Seq(Byte) /\ m.ip_options \in Seq(Byte)
    BY <1>1 DEF OptionBytes
  <2>. QED
    BY <2>1
<1>3. /\ 8 + l \in Half /\ 20 + o + l \in Half /\ 20 + i + (8 + l) \in Half
      /\ 20 + i + (20 + o + l) \in Half /\ 20 + i + l \in Half
  <2>1. 40 + i + o + l \in Half
    BY <1>1
  <2>. HIDE DEF i, o, l
  <2>. QED
    BY <1>2, <2>1 DEF Half
<1>4. Here \in FourBytes /\ There \in FourBytes
  BY WireAssumption DEF FourBytes
<1>5. m.kind \in {"ICMP", "UDP", "BARE_UDP", "TCP", "RAW"}
  BY <1>1 DEF Kinds
<1>. HIDE DEF i, o, l
<1>6. CASE m.kind = "ICMP"
  <2>. DEFINE out == BuildEcho(8, 7, 1, m.payload)
  <2>1. 8 \in {0, 8} /\ 7 \in Half /\ 1 \in Half /\ 8 + Len(m.payload) \in Half
    BY <1>3 DEF Half, l
  <2>2. out.bytes \in Seq(Byte) /\ Len(out.bytes) = 8 + Len(m.payload) /\ InternetChecksum(out.bytes) = 0
    BY <1>1, <2>1, EchoBuilt
  <2>3. b = out.bytes
    BY <1>6 DEF Body
  <2>. HIDE DEF out, b
  <2>4. b \in Seq(Byte) /\ Len(b) = 8 + l /\ InternetChecksum(b) = 0
    BY <2>2, <2>3 DEF l
  <2>5. Len(b) >= 8
    BY <1>2, <2>4
  <2>6. ParseMessage(b).status = "OK" /\ Len(ParseMessage(b).body) >= 4
    BY <2>4, <2>5, MessageParsed
  <2>7. Protocol(m.kind) = 1
    BY <1>6, Protocols
  <2>8. Accepted(Protocol(m.kind), Here, There, b)
    BY <2>6, <2>7 DEF Accepted
  <2>9. 20 + i + Len(b) \in Half
    BY <1>3, <2>4
  <2>. QED
    BY <1>6, <2>4, <2>8, <2>9 DEF b, i
<1>7. CASE m.kind \in {"UDP", "BARE_UDP"}
  <2>. DEFINE out == BuildDatagram(Here, There, m.source_port, m.destination_port, m.payload)
              d == out.bytes
              e == Put(d, 6, 0)
  <2>1. 8 + Len(m.payload) \in Half
    BY <1>3 DEF l
  <2>2. /\ d \in Seq(Byte) /\ Len(d) = 8 + Len(m.payload) /\ Word(d, 4) = Len(d) /\ Word(d, 6) # 0
        /\ TransportChecksum(Here, There, 17, d) = 0 /\ From(d, 8) = m.payload
    BY <1>1, <1>4, <2>1, DatagramBuilt
  <2>3. b = IF m.kind = "UDP" THEN d ELSE e
    BY <1>7 DEF Body, Datagram
  <2>. HIDE DEF out, d, b
  <2>4. Len(d) = 8 + l /\ Len(d) >= 8
    BY <1>2, <2>2 DEF l
  <2>5. 0 \in Half /\ 6 \in Nat /\ 6 + 2 <= Len(d)
    BY <2>4 DEF Half
  <2>6. /\ e \in Seq(Byte) /\ Len(e) = Len(d) /\ Word(e, 6) = 0
        /\ \A j \in 0..(Len(d) - 1) :
             At(e, j) = IF j = 6 THEN 0 \div 256 ELSE IF j = 6 + 1 THEN 0 % 256 ELSE At(d, j)
    BY <2>2, <2>5, PutBytes
  <2>. HIDE DEF e
  <2>7. Word(e, 4) = Len(e)
    <3>1. 4 \in 0..(Len(d) - 1) /\ 4 + 1 \in 0..(Len(d) - 1) /\ 4 # 6 /\ 4 # 6 + 1 /\ 4 + 1 # 6 /\ 4 + 1 # 6 + 1
      BY <2>4
    <3>2. At(e, 4) = At(d, 4) /\ At(e, 4 + 1) = At(d, 4 + 1)
      BY <2>6, <3>1
    <3>. QED
      BY <2>2, <2>6, <3>2 DEF Word
  <2>8. Protocol(m.kind) = 17
    BY <1>7, Protocols
  <2>9. /\ b \in Seq(Byte) /\ Len(b) = 8 + l /\ Len(b) >= 8 /\ Word(b, 4) = Len(b)
        /\ m.kind = "UDP" => Word(b, 6) # 0 /\ From(b, 8) = m.payload
        /\ Word(b, 6) = 0 \/ TransportChecksum(Here, There, 17, b) = 0
    <3>1. CASE m.kind = "UDP"
      <4>1. b = d
        BY <2>3, <3>1
      <4>. QED
        BY <2>2, <2>4, <4>1
    <3>2. CASE m.kind = "BARE_UDP"
      <4>1. b = e
        BY <2>3, <3>2
      <4>2. Len(e) = 8 + l /\ Len(e) >= 8
        BY <2>4, <2>6
      <4>. QED
        BY <2>6, <2>7, <3>2, <4>1, <4>2
    <3>. QED
      BY <1>7, <3>1, <3>2
  <2>10. ParseDatagram(b).status = "OK" /\ ParseDatagram(b).checksum = Word(b, 6)
    BY <2>9, DatagramParsed
  <2>11. Accepted(Protocol(m.kind), Here, There, b)
    BY <2>8, <2>9, <2>10 DEF Accepted
  <2>12. 20 + i + Len(b) \in Half
    BY <1>3, <2>9
  <2>. QED
    BY <2>9, <2>11, <2>12 DEF b, i
<1>8. CASE m.kind = "TCP"
  <2>. DEFINE first == <<255, 255, 255, 250>>
              second == <<0, 0, 3, 232>>
              s == SegmentOf(Here, There, m.source_port, m.destination_port, first, second,
                             m.options, m.payload)
  <2>1. first \in FourBytes /\ second \in FourBytes
    <3>1. 0 \in Byte /\ 3 \in Byte /\ 232 \in Byte /\ 250 \in Byte /\ 255 \in Byte
      BY ByteRange
    <3>. QED
      BY <3>1 DEF FourBytes
  <2>2. b = s
    BY <1>8 DEF Body, Segment, SegmentOf, SegmentOut
  <2>. HIDE DEF first, second, b, s
  <2>3. 20 + Len(m.options) + Len(m.payload) \in Half
    BY <1>3 DEF o, l
  <2>4. /\ s \in Seq(Byte) /\ Len(s) = 20 + Len(m.options) + Len(m.payload)
        /\ ParseSegment(s).status = "OK" /\ TransportChecksum(Here, There, 6, s) = 0
    <3>. DEFINE x == m.source_port
                y == m.destination_port
                z == m.options
                p == m.payload
    <3>1. x \in Half /\ y \in Half /\ z \in OptionBytes /\ p \in Seq(Byte) /\ 20 + Len(z) + Len(p) \in Half
      BY <1>1, <2>3
    <3>2. s = SegmentOf(Here, There, x, y, first, second, z, p)
      BY DEF s
    <3>. HIDE DEF x, y, z, p
    <3>3. /\ s \in Seq(Byte) /\ Len(s) = 20 + Len(z) + Len(p)
          /\ ParseSegment(s).status = "OK" /\ TransportChecksum(Here, There, 6, s) = 0
      <4>1. /\ Here \in FourBytes /\ There \in FourBytes /\ first \in FourBytes /\ second \in FourBytes
        BY <1>4, <2>1
      <4>. DEFINE t == SegmentOf(Here, There, x, y, first, second, z, p)
      <4>2. t \in Seq(Byte)
        BY <3>1, <4>1, SegmentBuilt
      <4>3. Len(t) = 20 + Len(z) + Len(p)
        BY <3>1, <4>1, SegmentBuilt
      <4>4. ParseSegment(t).status = "OK"
        BY <3>1, <4>1, SegmentBuilt
      <4>5. TransportChecksum(Here, There, 6, t) = 0
        BY <3>1, <4>1, SegmentBuilt
      <4>. QED
        BY <3>2, <4>2, <4>3, <4>4, <4>5
    <3>. QED
      BY <3>3 DEF z, p
  <2>. HIDE DEF s
  <2>5. Protocol(m.kind) = 6
    BY <1>8, Protocols
  <2>6. Accepted(Protocol(m.kind), Here, There, b)
    BY <2>2, <2>4, <2>5 DEF Accepted
  <2>7. Len(b) = 20 + o + l
    BY <2>2, <2>4 DEF o, l
  <2>8. 20 + i + Len(b) \in Half
    BY <1>3, <2>7
  <2>. QED
    BY <1>8, <2>2, <2>4, <2>6, <2>8 DEF b, i
<1>9. CASE m.kind = "RAW"
  <2>1. b = m.payload
    BY <1>9 DEF Body
  <2>2. Protocol(m.kind) = 99
    BY <1>9, Protocols
  <2>. HIDE DEF b
  <2>3. Accepted(Protocol(m.kind), Here, There, b)
    BY <2>2 DEF Accepted
  <2>4. 20 + i + Len(b) \in Half
    BY <1>3, <2>1 DEF l
  <2>. QED
    BY <1>1, <1>9, <2>1, <2>3, <2>4 DEF b, i
<1>. QED
  BY <1>5, <1>6, <1>7, <1>8, <1>9

LEMMA Constantly ==
  ASSUME NEW b \in Byte, NEW n \in Nat
  PROVE  [i \in 1..n |-> b] \in Seq(Byte) /\ Len([i \in 1..n |-> b]) = n
OBVIOUS

LEMMA JoinedThrice ==
  ASSUME NEW a \in Seq(Byte), NEW b \in Seq(Byte), NEW c \in Seq(Byte)
  PROVE  (a \o b) \o c = a \o (b \o c)
OBVIOUS

LEMMA LinkBytes ==
  ASSUME NEW ether_type \in Half
  PROVE  Link(ether_type) \in Seq(Byte) /\ Len(Link(ether_type)) = 14 /\ Word(Link(ether_type), 12) = ether_type
<1>. DEFINE p == Mac \o Mac
            k == Bytes(ether_type)
            x == p \o k
<1>1. Mac \in Seq(Byte) /\ Len(Mac) = 6
  BY WireAssumption
<1>2. k \in Seq(Byte) /\ Len(k) = 2 /\ Word(k, 0) = ether_type
  BY BytesOfHalf, WordOfBytes
<1>. HIDE DEF k
<1>3. Joined(p, Mac, Mac) /\ p \in Seq(Byte) /\ Len(p) = 12
  <2>1. Joined(p, Mac, Mac)
    BY <1>1 DEF Joined
  <2>. HIDE DEF p
  <2>2. p \in Seq(Byte)
    BY <2>1, JoinedBytes
  <2>3. Len(p) = Len(Mac) + Len(Mac)
    BY <2>1, JoinedBytes
  <2>4. Len(p) = 12
    BY <1>1, <2>3
  <2>. QED
    BY <2>1, <2>2, <2>4
<1>. HIDE DEF p
<1>4. Joined(x, p, k) /\ x \in Seq(Byte) /\ Len(x) = 14
  <2>1. Joined(x, p, k)
    BY <1>2, <1>3 DEF Joined
  <2>. HIDE DEF x
  <2>2. x \in Seq(Byte)
    BY <2>1, JoinedBytes
  <2>3. Len(x) = Len(p) + Len(k)
    BY <2>1, JoinedBytes
  <2>4. Len(x) = 14
    BY <1>2, <1>3, <2>3
  <2>. QED
    BY <2>1, <2>2, <2>4
<1>. HIDE DEF x
<1>5. Word(x, 12) = ether_type
  <2>1. 0 \in Nat /\ 0 + 2 <= Len(k) /\ 12 = Len(p) + 0
    BY <1>2, <1>3
  <2>2. Word(x, Len(p) + 0) = Word(k, 0)
    BY <1>4, <2>1, JoinedBehind
  <2>. QED
    BY <1>2, <2>1, <2>2
<1>6. Link(ether_type) = x
  BY DEF Link, x, p, k
<1>. QED
  BY <1>4, <1>5, <1>6

(* A header of the link, and what is behind it.                              *)
LinkHeader == {e \in Seq(Byte) : Len(e) = 14}

LEMMA Linked ==
  ASSUME NEW e \in LinkHeader, NEW d \in Seq(Byte)
  PROVE  LET f == e \o d
         IN  /\ f \in Seq(Byte) /\ Len(f) = 14 + Len(d) /\ Ip(f) = d /\ Eth(f) = e
             /\ Word(f, 12) = Word(e, 12)
<1>. DEFINE f == e \o d
<1>0. e \in Seq(Byte) /\ Len(e) = 14
  BY DEF LinkHeader
<1>1. Joined(f, e, d)
  BY <1>0 DEF Joined
<1>. HIDE DEF f
<1>2. f \in Seq(Byte) /\ Len(f) = Len(e) + Len(d)
  <2>1. f \in Seq(Byte)
    BY <1>1, JoinedBytes
  <2>2. Len(f) = Len(e) + Len(d)
    BY <1>1, JoinedBytes
  <2>. QED
    BY <2>1, <2>2
<1>3. From(f, Len(e)) = d
  BY <1>1, FromJoined
<1>4. 0 \in Nat /\ 14 \in Nat /\ 12 \in Nat /\ 0 + 14 <= Len(e) /\ 12 + 2 <= Len(e)
  BY <1>0
<1>5. Slice(f, 0, 14) = Slice(e, 0, 14)
  BY <1>1, <1>4, JoinedSliceBefore
<1>6. Slice(e, 0, Len(e)) = e
  BY <1>0, WholeSlice
<1>7. Word(f, 12) = Word(e, 12)
  BY <1>1, <1>4, JoinedBefore
<1>8. Ip(f) = d
  BY <1>0, <1>3 DEF Ip
<1>9. Eth(f) = e
  BY <1>0, <1>5, <1>6 DEF Eth
<1>10. Len(f) = 14 + Len(d)
  BY <1>0, <1>2
<1>. QED
  BY <1>2, <1>7, <1>8, <1>9, <1>10 DEF f

LEMMA ArpBuilt ==
  LET x == BuildArpRequest(Mac, Here, There)
  IN  x \in Seq(Byte) /\ Len(x) = 42 /\ Word(x, 12) = 2054
<1>. DEFINE a1 == [i \in 1..6 |-> 255]
            a2 == a1 \o Mac
            k1 == Bytes(2054)
            a3 == a2 \o k1
            k2 == Bytes(1)
            a4 == a3 \o k2
            k3 == Bytes(2048)
            a5 == a4 \o k3
            k4 == <<6, 4>>
            a6 == a5 \o k4
            a7 == a6 \o k2
            a8 == a7 \o Mac
            a9 == a8 \o Here
            z  == [i \in 1..6 |-> 0]
            b1 == a9 \o z
            x  == b1 \o There
<1>1. /\ Mac \in Seq(Byte) /\ Len(Mac) = 6 /\ Here \in Seq(Byte) /\ Len(Here) = 4
      /\ There \in Seq(Byte) /\ Len(There) = 4
  BY WireAssumption
<1>2. a1 \in Seq(Byte) /\ Len(a1) = 6 /\ z \in Seq(Byte) /\ Len(z) = 6
  <2>1. 0 \in Byte /\ 255 \in Byte /\ 6 \in Nat
    BY ByteRange
  <2>. QED
    BY <2>1, Constantly
<1>3. /\ k1 \in Seq(Byte) /\ Len(k1) = 2 /\ Word(k1, 0) = 2054
      /\ k2 \in Seq(Byte) /\ Len(k2) = 2 /\ k3 \in Seq(Byte) /\ Len(k3) = 2
  <2>1. 2054 \in Half /\ 1 \in Half /\ 2048 \in Half
    BY DEF Half
  <2>. QED
    BY <2>1, BytesOfHalf, WordOfBytes
<1>4. k4 \in Seq(Byte) /\ Len(k4) = 2
  <2>1. 6 \in Byte /\ 4 \in Byte
    BY ByteRange
  <2>. QED
    BY <2>1
<1>. HIDE DEF a1, z, k1, k2, k3, k4
<1>5. Joined(a2, a1, Mac) /\ a2 \in Seq(Byte) /\ Len(a2) = 12
  <2>1. Joined(a2, a1, Mac)
    BY <1>1, <1>2 DEF Joined
  <2>. HIDE DEF a2
  <2>2. a2 \in Seq(Byte)
    BY <2>1, JoinedBytes
  <2>3. Len(a2) = Len(a1) + Len(Mac)
    BY <2>1, JoinedBytes
  <2>4. Len(a2) = 12
    BY <1>1, <1>2, <2>3
  <2>. QED
    BY <2>1, <2>2, <2>4
<1>. HIDE DEF a2
<1>6. Joined(a3, a2, k1) /\ a3 \in Seq(Byte) /\ Len(a3) = 14
  <2>1. Joined(a3, a2, k1)
    BY <1>3, <1>5 DEF Joined
  <2>. HIDE DEF a3
  <2>2. a3 \in Seq(Byte)
    BY <2>1, JoinedBytes
  <2>3. Len(a3) = Len(a2) + Len(k1)
    BY <2>1, JoinedBytes
  <2>4. Len(a3) = 14
    BY <1>3, <1>5, <2>3
  <2>. QED
    BY <2>1, <2>2, <2>4
<1>. HIDE DEF a3
<1>7. Joined(a4, a3, k2) /\ a4 \in Seq(Byte) /\ Len(a4) = 16
  <2>1. Joined(a4, a3, k2)
    BY <1>3, <1>6 DEF Joined
  <2>. HIDE DEF a4
  <2>2. a4 \in Seq(Byte)
    BY <2>1, JoinedBytes
  <2>3. Len(a4) = Len(a3) + Len(k2)
    BY <2>1, JoinedBytes
  <2>4. Len(a4) = 16
    BY <1>3, <1>6, <2>3
  <2>. QED
    BY <2>1, <2>2, <2>4
<1>. HIDE DEF a4
<1>8. Joined(a5, a4, k3) /\ a5 \in Seq(Byte) /\ Len(a5) = 18
  <2>1. Joined(a5, a4, k3)
    BY <1>3, <1>7 DEF Joined
  <2>. HIDE DEF a5
  <2>2. a5 \in Seq(Byte)
    BY <2>1, JoinedBytes
  <2>3. Len(a5) = Len(a4) + Len(k3)
    BY <2>1, JoinedBytes
  <2>4. Len(a5) = 18
    BY <1>3, <1>7, <2>3
  <2>. QED
    BY <2>1, <2>2, <2>4
<1>. HIDE DEF a5
<1>9. Joined(a6, a5, k4) /\ a6 \in Seq(Byte) /\ Len(a6) = 20
  <2>1. Joined(a6, a5, k4)
    BY <1>4, <1>8 DEF Joined
  <2>. HIDE DEF a6
  <2>2. a6 \in Seq(Byte)
    BY <2>1, JoinedBytes
  <2>3. Len(a6) = Len(a5) + Len(k4)
    BY <2>1, JoinedBytes
  <2>4. Len(a6) = 20
    BY <1>4, <1>8, <2>3
  <2>. QED
    BY <2>1, <2>2, <2>4
<1>. HIDE DEF a6
<1>10. Joined(a7, a6, k2) /\ a7 \in Seq(Byte) /\ Len(a7) = 22
  <2>1. Joined(a7, a6, k2)
    BY <1>3, <1>9 DEF Joined
  <2>. HIDE DEF a7
  <2>2. a7 \in Seq(Byte)
    BY <2>1, JoinedBytes
  <2>3. Len(a7) = Len(a6) + Len(k2)
    BY <2>1, JoinedBytes
  <2>4. Len(a7) = 22
    BY <1>3, <1>9, <2>3
  <2>. QED
    BY <2>1, <2>2, <2>4
<1>. HIDE DEF a7
<1>11. Joined(a8, a7, Mac) /\ a8 \in Seq(Byte) /\ Len(a8) = 28
  <2>1. Joined(a8, a7, Mac)
    BY <1>1, <1>10 DEF Joined
  <2>. HIDE DEF a8
  <2>2. a8 \in Seq(Byte)
    BY <2>1, JoinedBytes
  <2>3. Len(a8) = Len(a7) + Len(Mac)
    BY <2>1, JoinedBytes
  <2>4. Len(a8) = 28
    BY <1>1, <1>10, <2>3
  <2>. QED
    BY <2>1, <2>2, <2>4
<1>. HIDE DEF a8
<1>12. Joined(a9, a8, Here) /\ a9 \in Seq(Byte) /\ Len(a9) = 32
  <2>1. Joined(a9, a8, Here)
    BY <1>1, <1>11 DEF Joined
  <2>. HIDE DEF a9
  <2>2. a9 \in Seq(Byte)
    BY <2>1, JoinedBytes
  <2>3. Len(a9) = Len(a8) + Len(Here)
    BY <2>1, JoinedBytes
  <2>4. Len(a9) = 32
    BY <1>1, <1>11, <2>3
  <2>. QED
    BY <2>1, <2>2, <2>4
<1>. HIDE DEF a9
<1>13. Joined(b1, a9, z) /\ b1 \in Seq(Byte) /\ Len(b1) = 38
  <2>1. Joined(b1, a9, z)
    BY <1>2, <1>12 DEF Joined
  <2>. HIDE DEF b1
  <2>2. b1 \in Seq(Byte)
    BY <2>1, JoinedBytes
  <2>3. Len(b1) = Len(a9) + Len(z)
    BY <2>1, JoinedBytes
  <2>4. Len(b1) = 38
    BY <1>2, <1>12, <2>3
  <2>. QED
    BY <2>1, <2>2, <2>4
<1>. HIDE DEF b1
<1>14. Joined(x, b1, There) /\ x \in Seq(Byte) /\ Len(x) = 42
  <2>1. Joined(x, b1, There)
    BY <1>1, <1>13 DEF Joined
  <2>. HIDE DEF x
  <2>2. x \in Seq(Byte)
    BY <2>1, JoinedBytes
  <2>3. Len(x) = Len(b1) + Len(There)
    BY <2>1, JoinedBytes
  <2>4. Len(x) = 42
    BY <1>1, <1>13, <2>3
  <2>. QED
    BY <2>1, <2>2, <2>4
<1>. HIDE DEF x
<1>15. Word(x, 12) = 2054
  <2>0. /\ 0 \in Nat /\ 12 \in Nat /\ 0 + 2 <= Len(k1) /\ 12 = Len(a2) + 0 /\ 12 + 2 <= Len(a3)
        /\ 12 + 2 <= Len(a4) /\ 12 + 2 <= Len(a5) /\ 12 + 2 <= Len(a6) /\ 12 + 2 <= Len(a7)
        /\ 12 + 2 <= Len(a8) /\ 12 + 2 <= Len(a9) /\ 12 + 2 <= Len(b1)
    <3>1. /\ Len(k1) = 2 /\ Len(a2) = 12 /\ Len(a3) = 14 /\ Len(a4) = 16 /\ Len(a5) = 18 /\ Len(a6) = 20
          /\ Len(a7) = 22 /\ Len(a8) = 28 /\ Len(a9) = 32 /\ Len(b1) = 38
      BY <1>3, <1>5, <1>6, <1>7, <1>8, <1>9, <1>10, <1>11, <1>12, <1>13
    <3>. QED
      BY <3>1
  <2>1. Word(a3, Len(a2) + 0) = Word(k1, 0)
    BY <1>6, <2>0, JoinedBehind
  <2>2. Word(a4, 12) = Word(a3, 12)
    <3>1. Joined(a4, a3, k2) /\ 12 \in Nat /\ 12 + 2 <= Len(a3)
      BY <1>7, <2>0
    <3>. QED
      BY <3>1, JoinedBefore
  <2>3. Word(a5, 12) = Word(a4, 12)
    <3>1. Joined(a5, a4, k3) /\ 12 \in Nat /\ 12 + 2 <= Len(a4)
      BY <1>8, <2>0
    <3>. QED
      BY <3>1, JoinedBefore
  <2>4. Word(a6, 12) = Word(a5, 12)
    <3>1. Joined(a6, a5, k4) /\ 12 \in Nat /\ 12 + 2 <= Len(a5)
      BY <1>9, <2>0
    <3>. QED
      BY <3>1, JoinedBefore
  <2>5. Word(a7, 12) = Word(a6, 12)
    <3>1. Joined(a7, a6, k2) /\ 12 \in Nat /\ 12 + 2 <= Len(a6)
      BY <1>10, <2>0
    <3>. QED
      BY <3>1, JoinedBefore
  <2>6. Word(a8, 12) = Word(a7, 12)
    <3>1. Joined(a8, a7, Mac) /\ 12 \in Nat /\ 12 + 2 <= Len(a7)
      BY <1>11, <2>0
    <3>. QED
      BY <3>1, JoinedBefore
  <2>7. Word(a9, 12) = Word(a8, 12)
    <3>1. Joined(a9, a8, Here) /\ 12 \in Nat /\ 12 + 2 <= Len(a8)
      BY <1>12, <2>0
    <3>. QED
      BY <3>1, JoinedBefore
  <2>8. Word(b1, 12) = Word(a9, 12)
    <3>1. Joined(b1, a9, z) /\ 12 \in Nat /\ 12 + 2 <= Len(a9)
      BY <1>13, <2>0
    <3>. QED
      BY <3>1, JoinedBefore
  <2>9. Word(x, 12) = Word(b1, 12)
    <3>1. Joined(x, b1, There) /\ 12 \in Nat /\ 12 + 2 <= Len(b1)
      BY <1>14, <2>0
    <3>. QED
      BY <3>1, JoinedBefore
  <2>10. Word(a3, 12) = 2054
    <3>1. 12 = Len(a2) + 0
      BY <2>0
    <3>2. Word(k1, 0) = 2054
      BY <1>3
    <3>3. Word(a3, 12) = Word(k1, 0)
      <4>1. \A j \in Int : j = 12 => Word(a3, j) = Word(a3, 12)
        OBVIOUS
      <4>2. Len(a2) + 0 \in Int
        BY <3>1
      <4>. QED
        BY <2>1, <3>1, <4>1, <4>2
    <3>. QED
      BY <3>2, <3>3
  <2>11. Word(b1, 12) = 2054
    BY <2>2, <2>3, <2>4, <2>5, <2>6, <2>7, <2>8, <2>10
  <2>. QED
    BY <2>9, <2>11
<1>16. x = BuildArpRequest(Mac, Here, There)
  BY DEF BuildArpRequest, a1, z, k1, k2, k3, k4, a2, a3, a4, a5, a6, a7, a8, a9, b1, x
<1>. QED
  BY <1>14, <1>15, <1>16

-----------------------------------------------------------------------------
(* Frames that are sent.                                                     *)

EtherType(m) == IF m.kind = "ARP" THEN 2054 ELSE m.ether_type

(* A frame with the message m, behind a header that announces it.            *)
Carries(m, f) ==
  /\ f \in Seq(Byte) /\ Len(f) >= 34 /\ Word(f, 12) = EtherType(m)
  /\ m.kind # "ARP" => Sound(m, Ip(f))

LEMMA PacketCarried ==
  ASSUME NEW m, m.kind # "ARP", NEW d, Sound(m, d), NEW e \in LinkHeader, Word(e, 12) = m.ether_type
  PROVE  Carries(m, e \o d)
<1>. DEFINE f == e \o d
<1>1. d \in Seq(Byte) /\ Framed(d)
  BY DEF Sound
<1>2. Len(d) >= 20 /\ Len(d) \in Nat
  BY <1>1 DEF Framed
<1>3. /\ f \in Seq(Byte) /\ Len(f) = 14 + Len(d) /\ Ip(f) = d /\ Eth(f) = e
      /\ Word(f, 12) = Word(e, 12)
  BY <1>1, Linked
<1>. HIDE DEF f
<1>4. Len(f) >= 34
  BY <1>2, <1>3
<1>. QED
  BY <1>3, <1>4 DEF Carries, EtherType, f

LEMMA FrameSent ==
  ASSUME NEW m, Sendable(m)
  PROVE  Carries(m, Frame(m))
<1>. DEFINE tail == Padding(m)
            p == Packet(m, Here, There, Body(m))
            e == Link(m.ether_type)
<1>1. tail \in Seq(Byte)
  <2>1. 170 \in Byte
    BY ByteRange
  <2>2. m.padding \in Nat
    BY SendableSets
  <2>. QED
    BY <2>1, <2>2, Constantly DEF Padding
<1>2. CASE m.kind = "ARP"
  <2>. DEFINE x == BuildArpRequest(Mac, Here, There)
              f == x \o tail
  <2>1. Frame(m) = f
    BY <1>2 DEF Frame
  <2>2. x \in Seq(Byte) /\ Len(x) = 42 /\ Word(x, 12) = 2054
    BY ArpBuilt
  <2>. HIDE DEF x, tail
  <2>3. Joined(f, x, tail)
    BY <1>1, <2>2 DEF Joined
  <2>. HIDE DEF f
  <2>4. f \in Seq(Byte)
    BY <2>3, JoinedBytes
  <2>5. Len(f) = Len(x) + Len(tail)
    BY <2>3, JoinedBytes
  <2>6. Len(f) >= 34
    BY <1>1, <2>2, <2>5
  <2>7. 12 \in Nat /\ 12 + 2 <= Len(x)
    BY <2>2
  <2>8. Word(f, 12) = Word(x, 12)
    BY <2>3, <2>7, JoinedBefore
  <2>. QED
    BY <1>2, <2>1, <2>2, <2>4, <2>6, <2>8 DEF Carries, EtherType
<1>3. CASE m.kind # "ARP"
  <2>. DEFINE b == Body(m)
  <2>1. Frame(m) = (e \o p) \o tail
    BY <1>3 DEF Frame
  <2>2. /\ b \in Seq(Byte) /\ 20 + Len(m.ip_options) + Len(b) \in Half
        /\ Accepted(Protocol(m.kind), Here, There, b)
        /\ m.kind = "UDP" => Word(b, 6) # 0 /\ From(b, 8) = m.payload
    BY <1>3, BodyAccepted
  <2>. HIDE DEF b
  <2>3. Here \in FourBytes /\ There \in FourBytes
    BY WireAssumption DEF FourBytes
  <2>. HIDE DEF tail
  <2>4. p \in Seq(Byte) /\ Sound(m, p \o tail)
    BY <1>1, <2>2, <2>3, PacketSound DEF b
  <2>. HIDE DEF p, e
  <2>5. e \in LinkHeader /\ Word(e, 12) = m.ether_type
    <3>1. m.ether_type \in Half
      BY SendableSets
    <3>. QED
      BY <3>1, LinkBytes DEF e, LinkHeader
  <2>6. (e \o p) \o tail = e \o (p \o tail)
    <3>1. e \in Seq(Byte)
      BY <2>5 DEF LinkHeader
    <3>. QED
      BY <1>1, <2>4, <3>1, JoinedThrice
  <2>. DEFINE d == p \o tail
  <2>7. Sound(m, d)
    BY <2>4
  <2>. HIDE DEF d
  <2>8. Carries(m, e \o d)
    BY <1>3, <2>5, <2>7, PacketCarried
  <2>. QED
    BY <2>1, <2>6, <2>8 DEF d
<1>. QED
  BY <1>2, <1>3

-----------------------------------------------------------------------------
(* A damaged word.                                                           *)

LEMMA ReadIsAccepted ==
  ASSUME NEW d \in Seq(Byte), Transport(d).status = "OK", Word(d, 6) % 16384 = 0
  PROVE  Accepted(At(d, 9), Slice(d, 12, 4), Slice(d, 16, 4), Payload(d))
<1>. DEFINE p == Payload(d)
            m == ParseMessage(p)
            s == ParseSegment(p)
            u == ParseDatagram(p)
            t == Transport(d)
            fragment == Word(d, 6) % 16384 # 0
            sum(protocol) == TransportChecksum(Slice(d, 12, 4), Slice(d, 16, 4), protocol, p)
            a == m.status = "OK" /\ Len(m.body) >= 4
            b == s.status = "OK" /\ sum(6) = 0
            c == u.status = "OK" /\ (u.checksum = 0 \/ sum(17) = 0)
<1>1. /\ ~fragment /\ At(d, 9) = 1 =>
           t = IF a THEN Delivered(From(m.body, 4)) ELSE Refused("REFUSED")
      /\ ~fragment /\ At(d, 9) = 6 =>
           t = IF b THEN Delivered(s.payload) ELSE Refused("REFUSED")
      /\ ~fragment /\ At(d, 9) = 17 =>
           t = IF c THEN Delivered(u.payload) ELSE Refused("REFUSED")
  BY TransportCases
<1>2. ~fragment /\ t.status = "OK"
  OBVIOUS
<1>3. Refused("REFUSED").status # "OK"
  BY DEF Refused
<1>. HIDE DEF p, m, s, u, t, fragment, sum, a, b, c
<1>4. ASSUME At(d, 9) = 1, ~a PROVE FALSE
  <2>1. t = Refused("REFUSED")
    BY <1>1, <1>2, <1>4
  <2>. QED
    BY <1>2, <1>3, <2>1
<1>5. ASSUME At(d, 9) = 6, ~b PROVE FALSE
  <2>1. t = Refused("REFUSED")
    BY <1>1, <1>2, <1>5
  <2>. QED
    BY <1>2, <1>3, <2>1
<1>6. ASSUME At(d, 9) = 17, ~c PROVE FALSE
  <2>1. t = Refused("REFUSED")
    BY <1>1, <1>2, <1>6
  <2>. QED
    BY <1>2, <1>3, <2>1
<1>. QED
  BY <1>4, <1>5, <1>6 DEF Accepted, a, b, c, m, s, u, sum, p

LEMMA MessageSummed ==
  ASSUME NEW b, ParseMessage(b).status = "OK"
  PROVE  InternetChecksum(b) = 0
BY DEF ParseMessage, Refused

LEMMA DatagramFields ==
  ASSUME NEW b, ParseDatagram(b).status = "OK"
  PROVE  ~(Len(b) < 8) /\ ParseDatagram(b).checksum = Word(b, 6)
BY DEF ParseDatagram, Refused

(* A word behind the pseudo header that two sums cannot tell apart.          *)
LEMMA TransportChangeSeen ==
  ASSUME NEW source \in FourBytes, NEW target \in FourBytes, NEW protocol \in Byte,
         NEW p \in Seq(Byte), Len(p) \in Half, NEW j \in Nat, 2 * j + 2 <= Len(p), NEW w \in Half,
         TransportChecksum(source, target, protocol, p) = 0,
         TransportChecksum(source, target, protocol, Put(p, 2 * j, w)) = 0
  PROVE  SameSum(Word(p, 2 * j), w)
<1>. DEFINE o == 2 * j
            x == WithPseudoHeader(source, target, protocol, p)
            y == WithPseudoHeader(source, target, protocol, Put(p, o, w))
            k == 6 + j
<1>1. o \in Nat /\ o + 2 <= Len(p)
  OBVIOUS
<1>2. InternetChecksum(x) = 0 /\ InternetChecksum(y) = 0
  BY DEF TransportChecksum
<1>3. k \in Nat /\ 2 * k = 12 + o
  OBVIOUS
<1>. HIDE DEF o
<1>4. x \in Seq(Byte)
  BY <1>1, PseudoWord
<1>5. Len(x) = 12 + Len(p)
  BY <1>1, PseudoWord
<1>6. Word(x, 12 + o) = Word(p, o)
  BY <1>1, PseudoWord
<1>7. y = Put(x, 12 + o, w)
  BY <1>1, PseudoPut
<1>. HIDE DEF x, y, k
<1>8. 2 * k + 2 <= Len(x)
  <2>1. Len(p) \in Nat
    OBVIOUS
  <2>. QED
    BY <1>1, <1>3, <1>5, <2>1
<1>9. InternetChecksum(Put(x, 2 * k, w)) = 0
  BY <1>2, <1>3, <1>7
<1>10. SameSum(Word(x, 2 * k), w)
  BY <1>2, <1>3, <1>4, <1>8, <1>9, ChangeSeen
<1>11. Word(x, 2 * k) = Word(p, o)
  BY <1>3, <1>6
<1>. QED
  BY <1>10, <1>11 DEF o

(* What a change of a word behind the header does to the payload.            *)
LEMMA PayloadChanged ==
  ASSUME NEW d \in Seq(Byte), Framed(d), NEW o \in Nat, HeaderLength(d) <= o, o + 2 <= Word(d, 2),
         NEW w \in Half
  PROVE  LET e == Put(d, o, w)
             q == o - HeaderLength(d)
         IN  /\ e \in Seq(Byte) /\ Framed(e) /\ HeaderLength(e) = HeaderLength(d)
             /\ Word(e, 6) = Word(d, 6) /\ At(e, 9) = At(d, 9)
             /\ Slice(e, 12, 4) = Slice(d, 12, 4) /\ Slice(e, 16, 4) = Slice(d, 16, 4)
             /\ Payload(e) = Put(Payload(d), q, w) /\ Word(Payload(d), q) = Word(d, o)
             /\ q \in Nat /\ q + 2 <= Len(Payload(d))
<1>. DEFINE e == Put(d, o, w)
            h == HeaderLength(d)
            l == Word(d, 2)
            q == o - h
            n == Len(d)
<1>1. h \in Nat /\ h >= 20 /\ h <= n /\ l \in Nat /\ l >= h /\ l <= n /\ n \in Nat /\ n >= 20
  BY FramedBytes DEF Framed
<1>2. o >= 20 /\ o + 2 <= l /\ o + 2 <= n /\ h <= o
  BY <1>1
<1>3. o + 2 <= Len(d)
  BY <1>2
<1>4. /\ e \in Seq(Byte) /\ Len(e) = Len(d)
      /\ \A i \in 0..(Len(d) - 1) :
           At(e, i) = IF i = o THEN w \div 256 ELSE IF i = o + 1 THEN w % 256 ELSE At(d, i)
  BY <1>3, PutBytes
<1>5. ASSUME NEW i \in 0..19 PROVE At(e, i) = At(d, i)
  <2>. HIDE DEF e
  <2>1. i \in 0..(Len(d) - 1) /\ i # o /\ i # o + 1
    BY <1>1, <1>2
  <2>. QED
    BY <1>4, <2>1
<1>. HIDE DEF e
<1>6. /\ At(e, 0) = At(d, 0) /\ At(e, 2) = At(d, 2) /\ At(e, 2 + 1) = At(d, 2 + 1)
      /\ At(e, 6) = At(d, 6) /\ At(e, 6 + 1) = At(d, 6 + 1) /\ At(e, 9) = At(d, 9)
  BY <1>5
<1>7. HeaderLength(e) = h /\ Word(e, 2) = l /\ Word(e, 6) = Word(d, 6)
  BY <1>6 DEF HeaderLength, Word
<1>8. Framed(e)
  <2>1. At(e, 0) \div 16 = At(d, 0) \div 16
    BY <1>6
  <2>. QED
    BY <1>4, <1>7, <2>1 DEF Framed
<1>9. ASSUME NEW a \in {12, 16} PROVE Slice(e, a, 4) = Slice(d, a, 4)
  <2>1. a \in Nat /\ 4 \in Nat /\ a + 4 <= Len(d)
    BY <1>1
  <2>2. \A i \in 0..(Len(d) - 1) : a <= i /\ i < a + 4 => At(e, i) = At(d, i)
    <3>. SUFFICES ASSUME NEW i \in 0..(Len(d) - 1), a <= i, i < a + 4 PROVE At(e, i) = At(d, i)
      OBVIOUS
    <3>1. i \in 0..19
      OBVIOUS
    <3>. QED
      BY <1>5, <3>1
  <2>. QED
    BY <1>4, <2>1, <2>2, SliceKept
<1>10. Payload(e) = Put(Payload(d), q, w) /\ Word(Payload(d), q) = Word(d, o)
  <2>. DEFINE k == l - h
  <2>. HIDE DEF n
  <2>1. h \in Nat /\ k \in Nat /\ h + k <= Len(d) /\ h <= o /\ o + 2 <= h + k
    BY <1>1, <1>2 DEF n
  <2>. HIDE DEF h, k, l
  <2>2. /\ Slice(Put(d, o, w), h, k) = Put(Slice(d, h, k), o - h, w)
        /\ Word(Slice(d, h, k), o - h) = Word(d, o)
    BY <2>1, SlicePut
  <2>3. Payload(d) = Slice(d, h, k) /\ Payload(e) = Slice(e, h, k)
    BY <1>7 DEF Payload, h, k, l
  <2>. QED
    BY <2>2, <2>3 DEF e
<1>11. q \in Nat /\ q + 2 <= Len(Payload(d))
  <2>1. Len(Payload(d)) = l - h
    BY FramedBytes
  <2>. HIDE DEF h, l, n
  <2>. QED
    BY <1>1, <1>2, <2>1
<1>. QED
  BY <1>4, <1>6, <1>7, <1>8, <1>9, <1>10, <1>11 DEF e

(* A change of a word of the header, whose length stays.                     *)
LEMMA HeaderChangeSeen ==
  ASSUME NEW d \in Seq(Byte), Framed(d), NEW k \in Nat, 2 * k < HeaderLength(d), NEW w \in Half,
         HeaderLength(Put(d, 2 * k, w)) = HeaderLength(d),
         InternetChecksum(Slice(d, 0, HeaderLength(d))) = 0,
         ParseIpv4(Put(d, 2 * k, w)).status = "OK"
  PROVE  SameSum(Word(d, 2 * k), w)
<1>. DEFINE o == 2 * k
            h == HeaderLength(d)
            e == Put(d, o, w)
            s == Slice(d, 0, h)
<1>1. h \in Nat /\ h <= Len(d) /\ h >= 20 /\ \E j \in Nat : h = 2 * j
  <2>1. h \in Nat /\ h <= Len(d) /\ h >= 20
    BY FramedBytes DEF Framed
  <2>2. At(d, 0) \in Nat
    <3>1. 0 \in Nat /\ 0 < Len(d)
      BY DEF Framed
    <3>2. At(d, 0) \in Byte
      BY <3>1, AtByte
    <3>. QED
      BY <3>2, ByteRange
  <2>3. \A b \in Nat : 2 * (b % 16) \in Nat /\ 4 * (b % 16) = 2 * (2 * (b % 16))
    OBVIOUS
  <2>. QED
    BY <2>1, <2>2, <2>3 DEF HeaderLength
<1>2. o \in Nat /\ o + 2 <= h /\ 0 <= o /\ 0 + h <= Len(d) /\ o - 0 = o /\ 0 \in Nat /\ o + 2 <= 0 + h
      /\ o + 2 <= Len(d)
  <2>1. PICK j \in Nat : h = 2 * j
    BY <1>1
  <2>2. o \in Nat /\ k < j
    <3>1. 2 * k < 2 * j
      BY <2>1
    <3>. QED
      BY <3>1
  <2>3. o + 2 <= h
    <3>1. 2 * k + 2 <= 2 * j
      BY <2>2
    <3>. QED
      BY <2>1, <3>1
  <2>. HIDE DEF o, h
  <2>. QED
    BY <1>1, <2>2, <2>3
<1>3. e \in Seq(Byte)
  BY <1>2, PutBytes
<1>4. InternetChecksum(Slice(e, 0, HeaderLength(e))) = 0
  <2>. HIDE DEF e
  <2>1. ParseIpv4(e).status = "OK"
    BY DEF e
  <2>. QED
    BY <1>3, <2>1, Ipv4Parsed
<1>5. HeaderLength(e) = h
  OBVIOUS
<1>. HIDE DEF h, o
<1>6. Slice(Put(d, o, w), 0, h) = Put(Slice(d, 0, h), o - 0, w) /\ Word(Slice(d, 0, h), o - 0) = Word(d, o)
  BY <1>1, <1>2, SlicePut
<1>7. Slice(e, 0, h) = Put(s, o, w) /\ Word(s, o) = Word(d, o)
  BY <1>2, <1>6
<1>8. s \in Seq(Byte) /\ Len(s) = h
  <2>1. s \in Seq(Byte)
    BY <1>1, <1>2, SliceBytes
  <2>2. Len(s) = h
    BY <1>1, <1>2, SliceBytes
  <2>. QED
    BY <2>1, <2>2
<1>9. InternetChecksum(s) = 0
  BY DEF h
<1>10. InternetChecksum(Put(s, o, w)) = 0
  BY <1>4, <1>5, <1>7
<1>. HIDE DEF s, e
<1>11. 2 * k + 2 <= Len(s) /\ o = 2 * k
  BY <1>2, <1>8 DEF o
<1>12. InternetChecksum(Put(s, 2 * k, w)) = 0
  BY <1>10, <1>11
<1>13. s \in Seq(Byte) /\ k \in Nat /\ 2 * k + 2 <= Len(s) /\ w \in Half
       /\ InternetChecksum(s) = 0 /\ InternetChecksum(Put(s, 2 * k, w)) = 0
  BY <1>8, <1>9, <1>11, <1>12
<1>14. SameSum(Word(s, 2 * k), w)
  BY <1>13, ChangeSeen
<1>15. Word(s, 2 * k) = Word(d, 2 * k)
  BY <1>7, <1>11
<1>. QED
  BY <1>14, <1>15

(* Headers are counted in words of four bytes.                               *)
LEMMA EvenHeader ==
  ASSUME NEW d \in Seq(Byte), Framed(d)
  PROVE  \E i \in Nat : HeaderLength(d) = 2 * i
<1>1. 0 \in Nat /\ 0 < Len(d)
  BY DEF Framed
<1>2. At(d, 0) \in Byte
  BY <1>1, AtByte
<1>3. At(d, 0) \in Nat
  BY <1>2, ByteRange
<1>4. \A b \in Nat : 2 * (b % 16) \in Nat /\ 4 * (b % 16) = 2 * (2 * (b % 16))
  OBVIOUS
<1>. QED
  BY <1>3, <1>4 DEF HeaderLength

LEMMA AddressesOf ==
  ASSUME NEW d \in Seq(Byte), Framed(d)
  PROVE  Slice(d, 12, 4) \in FourBytes /\ Slice(d, 16, 4) \in FourBytes
<1>1. 12 \in Nat /\ 16 \in Nat /\ 4 \in Nat /\ 12 + 4 <= Len(d) /\ 16 + 4 <= Len(d)
  BY DEF Framed
<1>2. Slice(d, 12, 4) \in Seq(Byte) /\ Len(Slice(d, 12, 4)) = 4
  BY <1>1, SliceBytes
<1>3. Slice(d, 16, 4) \in Seq(Byte) /\ Len(Slice(d, 16, 4)) = 4
  BY <1>1, SliceBytes
<1>. QED
  BY <1>2, <1>3 DEF FourBytes

(* The checksums of one protocol, on a message before and after a change.    *)
LEMMA AcceptedChangeSeen ==
  ASSUME NEW source \in FourBytes, NEW target \in FourBytes, NEW protocol \in {1, 6, 17},
         NEW p \in Seq(Byte), Len(p) \in Half, NEW j \in Nat, 2 * j + 2 <= Len(p), NEW w \in Half,
         Accepted(protocol, source, target, p), Accepted(protocol, source, target, Put(p, 2 * j, w)),
         protocol = 17 => Word(p, 6) # 0 /\ ~(w = 0 /\ 2 * j = 6)
  PROVE  SameSum(Word(p, 2 * j), w)
<1>. DEFINE x == Put(p, 2 * j, w)
            sum(b) == TransportChecksum(source, target, protocol, b)
<1>1. 2 * j \in Nat /\ protocol \in Byte
  <2>1. 1 \in Byte /\ 6 \in Byte /\ 17 \in Byte
    BY ByteRange, SMTT(30)
  <2>. QED
    BY <2>1
<1>2. /\ x \in Seq(Byte) /\ Len(x) = Len(p)
      /\ \A i \in 0..(Len(p) - 1) :
           At(x, i) = IF i = 2 * j THEN w \div 256 ELSE IF i = 2 * j + 1 THEN w % 256 ELSE At(p, i)
  BY <1>1, PutBytes
<1>3. ASSUME sum(p) = 0, sum(x) = 0 PROVE SameSum(Word(p, 2 * j), w)
  BY <1>1, <1>3, TransportChangeSeen
<1>. HIDE DEF sum, x
<1>4. CASE protocol = 1
  <2>1. ParseMessage(p).status = "OK" /\ ParseMessage(x).status = "OK"
    BY <1>4 DEF Accepted, x
  <2>2. InternetChecksum(p) = 0
    BY <2>1, MessageSummed
  <2>3. InternetChecksum(x) = 0
    BY <2>1, MessageSummed
  <2>4. InternetChecksum(Put(p, 2 * j, w)) = 0
    BY <2>3 DEF x
  <2>. QED
    BY <2>2, <2>4, ChangeSeen
<1>5. CASE protocol = 6
  <2>1. sum(p) = 0 /\ sum(x) = 0
    BY <1>5 DEF Accepted, x, sum
  <2>. QED
    BY <1>3, <2>1
<1>6. CASE protocol = 17
  <2>1. /\ ParseDatagram(p).status = "OK" /\ ParseDatagram(x).status = "OK"
        /\ ParseDatagram(p).checksum = 0 \/ sum(p) = 0
        /\ ParseDatagram(x).checksum = 0 \/ sum(x) = 0
    BY <1>6 DEF Accepted, x, sum
  <2>2. ~(Len(p) < 8) /\ ParseDatagram(p).checksum = Word(p, 6)
    BY <2>1, DatagramFields
  <2>3. ParseDatagram(x).checksum = Word(x, 6)
    BY <2>1, DatagramFields
  <2>4. sum(p) = 0
    BY <1>6, <2>1, <2>2
  <2>5. CASE sum(x) = 0
    BY <1>3, <2>4, <2>5
  <2>6. CASE sum(x) # 0
    <3>1. Word(x, 6) = 0
      BY <2>1, <2>3, <2>6
    <3>2. 6 \in 0..(Len(p) - 1) /\ 7 \in 0..(Len(p) - 1)
      BY <2>2
    <3>3. CASE 2 * j = 6
      <4>1. Word(x, 6) = w
        <5>1. At(x, 6) = w \div 256 /\ At(x, 7) = w % 256
          BY <1>2, <3>2, <3>3
        <5>2. w \in Int
          BY DEF Half
        <5>3. w = 256 * (w \div 256) + (w % 256)
          BY <5>2, Divided
        <5>. QED
          BY <5>1, <5>3 DEF Word
      <4>. QED
        BY <1>6, <3>1, <3>3, <4>1
    <3>4. CASE 2 * j # 6
      <4>1. 6 # 2 * j /\ 6 # 2 * j + 1 /\ 7 # 2 * j /\ 7 # 2 * j + 1
        BY <3>4
      <4>2. At(x, 6) = At(p, 6) /\ At(x, 7) = At(p, 7)
        BY <1>2, <3>2, <4>1
      <4>. QED
        BY <1>6, <3>1, <4>2 DEF Word
    <3>. QED
      BY <3>3, <3>4
  <2>. QED
    BY <2>5, <2>6
<1>. QED
  BY <1>4, <1>5, <1>6

(* What no receiver of the message m sees, on the packet d that carries it:  *)
(* the word at o became w.                                                   *)
Unseen(m, d, o, w) ==
  \/ {Word(d, o), w} = {0, 65535}
  \/ HeaderLength(d) <= o /\ (m.kind \in {"RAW", "BARE_UDP"} \/ m.flags_fragment % 16384 # 0)
  \/ m.kind = "UDP" /\ w = 0 /\ o = HeaderLength(d) + 6
  \/ o = 0 /\ Word(d, 0) \div 256 # w \div 256

LEMMA BodyDamageFound ==
  ASSUME NEW m, Sendable(m), m.kind # "ARP", NEW d, Sound(m, d),
         NEW k \in Nat, HeaderLength(d) <= 2 * k, 2 * k + 2 <= Word(d, 2),
         NEW w \in Half, w # Word(d, 2 * k), ~Unseen(m, d, 2 * k, w),
         Transport(Put(d, 2 * k, w)).status = "OK"
  PROVE  FALSE
<1>. DEFINE o == 2 * k
            e == Put(d, o, w)
            h == HeaderLength(d)
            q == o - h
            p == Payload(d)
            protocol == At(d, 9)
            source == Slice(d, 12, 4)
            target == Slice(d, 16, 4)
<1>1. /\ d \in Seq(Byte) /\ Framed(d) /\ Word(d, 6) = m.flags_fragment /\ protocol = Protocol(m.kind)
      /\ Transport(d).status = "OK" /\ (m.kind = "UDP" => Word(p, 6) # 0)
  BY DEF Sound
<1>2. /\ m.kind \in {"ICMP", "UDP", "TCP"} /\ m.flags_fragment % 16384 = 0
      /\ ~({Word(d, o), w} = {0, 65535}) /\ ~(m.kind = "UDP" /\ w = 0 /\ o = h + 6)
  <2>1. m.kind \in Kinds
    BY SendableSets
  <2>. QED
    BY <2>1 DEF Unseen, Kinds
<1>3. o \in Nat
  OBVIOUS
<1>4. /\ e \in Seq(Byte) /\ Word(e, 6) = Word(d, 6) /\ At(e, 9) = protocol
      /\ Slice(e, 12, 4) = source /\ Slice(e, 16, 4) = target
      /\ Payload(e) = Put(p, q, w) /\ Word(p, q) = Word(d, o)
      /\ q \in Nat /\ q + 2 <= Len(p)
  <2>. HIDE DEF o
  <2>1. d \in Seq(Byte) /\ Framed(d) /\ o \in Nat /\ HeaderLength(d) <= o /\ o + 2 <= Word(d, 2) /\ w \in Half
    BY <1>1, <1>3 DEF o
  <2>. QED
    BY <2>1, PayloadChanged
<1>5. Accepted(protocol, source, target, p)
  <2>1. Word(d, 6) % 16384 = 0
    BY <1>1, <1>2
  <2>. QED
    BY <1>1, <2>1, ReadIsAccepted
<1>6. Accepted(protocol, source, target, Put(p, q, w))
  <2>1. Word(e, 6) % 16384 = 0 /\ Transport(e).status = "OK"
    BY <1>1, <1>2, <1>4
  <2>. HIDE DEF e
  <2>2. Accepted(At(e, 9), Slice(e, 12, 4), Slice(e, 16, 4), Payload(e))
    BY <1>4, <2>1, ReadIsAccepted
  <2>. QED
    BY <1>4, <2>2
<1>7. p \in Seq(Byte) /\ Len(p) \in Half /\ h \in Nat
  BY <1>1, FramedBytes
<1>8. source \in FourBytes /\ target \in FourBytes
  BY <1>1, AddressesOf
<1>9. PICK i \in Nat : h = 2 * i
  BY <1>1, EvenHeader
<1>. DEFINE j == k - i
<1>10. j \in Nat /\ 2 * j = q
  <2>1. h <= o
    OBVIOUS
  <2>. HIDE DEF h
  <2>. QED
    BY <1>9, <2>1
<1>11. protocol \in {1, 6, 17} /\ (protocol = 17 => Word(p, 6) # 0 /\ ~(w = 0 /\ q = 6))
  <2>1. protocol = 17 => m.kind = "UDP"
    BY <1>1, <1>2, Protocols
  <2>2. protocol \in {1, 6, 17}
    BY <1>1, <1>2, Protocols
  <2>3. q = 6 => o = h + 6
    <3>. HIDE DEF o, h
    <3>. QED
      BY <1>3, <1>7
  <2>. QED
    BY <1>1, <1>2, <2>1, <2>2, <2>3
<1>. HIDE DEF o, e, h, q, p, protocol, source, target, j
<1>12. /\ source \in FourBytes /\ target \in FourBytes /\ protocol \in {1, 6, 17}
       /\ p \in Seq(Byte) /\ Len(p) \in Half /\ j \in Nat /\ 2 * j + 2 <= Len(p) /\ w \in Half
       /\ Accepted(protocol, source, target, p) /\ Accepted(protocol, source, target, Put(p, 2 * j, w))
       /\ (protocol = 17 => Word(p, 6) # 0 /\ ~(w = 0 /\ 2 * j = 6))
  BY <1>4, <1>5, <1>6, <1>7, <1>8, <1>10, <1>11
<1>13. SameSum(Word(p, 2 * j), w)
  BY <1>12, AcceptedChangeSeen
<1>14. Word(p, 2 * j) = Word(d, o)
  BY <1>4, <1>10
<1>. QED
  BY <1>2, <1>13, <1>14 DEF SameSum, o

(* Only the upper byte of the first word moves the end of the header.        *)
(* The upper byte of the first word.                                         *)
LEMMA UpperByte ==
  ASSUME NEW d \in Seq(Byte), Len(d) >= 20
  PROVE  Word(d, 0) \div 256 = At(d, 0)
<1>1. 0 \in Nat /\ 1 \in Nat /\ 0 < Len(d) /\ 1 < Len(d)
  OBVIOUS
<1>2. At(d, 0) \in Byte
  BY <1>1, AtByte
<1>3. At(d, 1) \in Byte
  BY <1>1, AtByte
<1>4. At(d, 0) \in Nat /\ At(d, 1) \in Nat /\ At(d, 1) <= 255
  BY <1>2, <1>3, ByteRange
<1>5. \A a, b \in Nat : b <= 255 => (256 * a + b) \div 256 = a
  OBVIOUS
<1>6. Word(d, 0) = 256 * At(d, 0) + At(d, 1)
  BY DEF Word
<1>. QED
  BY <1>4, <1>5, <1>6

LEMMA HeaderKept ==
  ASSUME NEW d \in Seq(Byte), NEW o \in Nat, o + 2 <= Len(d), Len(d) >= 20, NEW w \in Half,
         ~(o = 0 /\ (Word(d, 0) \div 256) % 16 # (w \div 256) % 16)
  PROVE  HeaderLength(Put(d, o, w)) = HeaderLength(d)
<1>. DEFINE e == Put(d, o, w)
            h == HeaderLength(d)
<1>1. 0 \in 0..(Len(d) - 1)
  OBVIOUS
<1>2. At(e, 0) = IF 0 = o THEN w \div 256 ELSE IF 0 = o + 1 THEN w % 256 ELSE At(d, 0)
  BY <1>1, PutBytes
<1>3. CASE o = 0
  <2>1. At(e, 0) = w \div 256
    BY <1>2, <1>3
  <2>2. (Word(d, 0) \div 256) % 16 = (w \div 256) % 16
    BY <1>3
  <2>3. Word(d, 0) \div 256 = At(d, 0)
    BY UpperByte
  <2>. QED
    BY <2>1, <2>2, <2>3 DEF HeaderLength
<1>4. CASE o # 0
  <2>1. At(e, 0) = At(d, 0)
    BY <1>2, <1>4
  <2>. QED
    BY <2>1 DEF HeaderLength
<1>. QED
  BY <1>3, <1>4

(* A word that keeps the header length and changes the version is refused.   *)
LEMMA VersionDamageFound ==
  ASSUME NEW d \in Seq(Byte), Framed(d), NEW w \in Half,
         Word(d, 0) \div 256 # w \div 256, (Word(d, 0) \div 256) % 16 = (w \div 256) % 16
  PROVE  ParseIpv4(Put(d, 0, w)).status # "OK"
<1>. DEFINE e == Put(d, 0, w)
            a == At(d, 0)
            b == w \div 256
<1>1. Len(d) >= 20 /\ a \div 16 = 4
  BY DEF Framed
<1>2. a # b /\ a % 16 = b % 16
  BY <1>1, UpperByte
<1>3. e \in Seq(Byte) /\ At(e, 0) = b
  <2>1. 0 \in Nat /\ 0 + 2 <= Len(d) /\ 0 \in 0..(Len(d) - 1)
    BY <1>1
  <2>. QED
    BY <2>1, PutBytes
<1>4. a \in Nat /\ b \in Nat
  <2>1. 0 \in Nat /\ 0 < Len(d)
    BY <1>1
  <2>. QED
    BY <2>1, AtByte, ByteRange DEF Half
<1>5. b \div 16 # 4
  <2>. HIDE DEF a, b
  <2>. QED
    BY <1>1, <1>2, <1>4
<1>. HIDE DEF e, b
<1>6. ~Framed(e)
  BY <1>3, <1>5 DEF Framed
<1>. QED
  BY <1>3, <1>6, Ipv4Parsed DEF e

(* A damaged word of a packet that carries m is seen by the parsers.         *)
LEMMA DamageFound ==
  ASSUME NEW m, Sendable(m), m.kind # "ARP", NEW d, Sound(m, d),
         NEW k \in Nat, 2 * k + 2 <= Word(d, 2),
         NEW w \in Half, w # Word(d, 2 * k), ~Unseen(m, d, 2 * k, w)
  PROVE  LET e == Put(d, 2 * k, w)
         IN  /\ HeaderLength(e) = HeaderLength(d)
             /\ ~(ParseIpv4(e).status = "OK" /\ Transport(e).status = "OK")
<1>. DEFINE o == 2 * k
            e == Put(d, o, w)
            h == HeaderLength(d)
<1>1. d \in Seq(Byte) /\ Framed(d) /\ InternetChecksum(Slice(d, 0, h)) = 0
  BY DEF Sound
<1>2. o \in Nat /\ o + 2 <= Len(d) /\ Len(d) \in Nat /\ Len(d) >= 20
  <2>1. Word(d, 2) <= Len(d) /\ Len(d) \in Nat /\ Word(d, 2) \in Nat /\ Len(d) >= 20
    BY <1>1, FramedBytes DEF Framed
  <2>. QED
    BY <2>1
<1>3. HeaderLength(e) = h
  <2>1. ~(o = 0 /\ Word(d, 0) \div 256 # w \div 256)
    BY DEF Unseen
  <2>. HIDE DEF o
  <2>. QED
    BY <1>1, <1>2, <2>1, HeaderKept
<1>4. ASSUME ParseIpv4(e).status = "OK", Transport(e).status = "OK" PROVE FALSE
  <2>1. CASE h <= o
    <3>1. HeaderLength(d) <= 2 * k /\ Transport(Put(d, 2 * k, w)).status = "OK"
      BY <1>4, <2>1
    <3>. QED
      BY <3>1, BodyDamageFound
  <2>2. CASE ~(h <= o)
    <3>0. h \in Nat
      BY <1>1, FramedBytes
    <3>1. 2 * k < HeaderLength(d)
      BY <1>2, <2>2, <3>0
    <3>2. /\ HeaderLength(Put(d, 2 * k, w)) = HeaderLength(d)
          /\ InternetChecksum(Slice(d, 0, HeaderLength(d))) = 0
          /\ ParseIpv4(Put(d, 2 * k, w)).status = "OK"
      BY <1>1, <1>3, <1>4
    <3>3. SameSum(Word(d, 2 * k), w)
      BY <1>1, <3>1, <3>2, HeaderChangeSeen
    <3>. QED
      BY <3>3 DEF SameSum, Unseen
  <2>. QED
    BY <2>1, <2>2
<1>. QED
  BY <1>3, <1>4

-----------------------------------------------------------------------------
(* Frames with an IPv4 packet.                                               *)

(* What lessons 03 to 06 take.                                               *)
Taken(d) == ParseIpv4(d).status = "OK" /\ Transport(d).status = "OK"

LEMMA ReadPacket ==
  ASSUME NEW f \in Seq(Byte), Len(f) >= 34, Word(f, 12) = 2048
  PROVE  Read(f).status = "OK" <=> Taken(Ip(f))
<1>. DEFINE d == Ip(f)
            ip == ParseIpv4(d)
            eth == ParseEthernet(f)
<1>1. eth.status = "OK" /\ eth.ether_type = 2048 /\ eth.payload = d
  <2>1. ~(Len(f) < 14) /\ ~(Word(f, 12) < 1536)
    OBVIOUS
  <2>2. eth = [status |-> "OK", ether_type |-> Word(f, 12), payload |-> d]
    BY <2>1 DEF ParseEthernet, Ip
  <2>. HIDE DEF eth, d
  <2>. QED
    BY <2>2
<1>2. d \in Seq(Byte)
  BY FromBytes DEF Ip
<1>. HIDE DEF eth, d
<1>3. Read(f) = IF ip.status = "OK" THEN ReadTransport(ip) ELSE Refused("REFUSED")
  BY <1>1 DEF Read, eth
<1>4. CASE ip.status = "OK"
  <2>1. ReadTransport(ip) = Transport(d)
    BY <1>2, <1>4, TransportRead
  <2>. QED
    BY <1>3, <1>4, <2>1 DEF Taken, d
<1>5. CASE ip.status # "OK"
  <2>1. Refused("REFUSED").status # "OK"
    BY DEF Refused
  <2>. QED
    BY <1>3, <1>5, <2>1 DEF Taken, d
<1>. QED
  BY <1>4, <1>5

LEMMA LinkSplit ==
  ASSUME NEW f \in Seq(Byte), Len(f) >= 34
  PROVE  /\ Eth(f) \in LinkHeader /\ Word(Eth(f), 12) = Word(f, 12)
         /\ Ip(f) \in Seq(Byte) /\ Len(Ip(f)) = Len(f) - 14
<1>1. 0 \in Nat /\ 14 \in Nat /\ 0 + 14 <= Len(f) /\ 14 <= Len(f)
  OBVIOUS
<1>2. Eth(f) \in Seq(Byte) /\ Len(Eth(f)) = 14
  BY <1>1, SliceBytes DEF Eth
<1>3. \A i \in 0..13 : At(Eth(f), i) = At(f, i)
  BY DEF Eth, Slice, At
<1>4. 12 \in Nat /\ At(Eth(f), 12) = At(f, 12) /\ At(Eth(f), 12 + 1) = At(f, 12 + 1)
  BY <1>3
<1>5. Word(Eth(f), 12) = Word(f, 12)
  BY <1>4 DEF Word
<1>6. Ip(f) \in Seq(Byte)
  BY <1>1, FromBytes DEF Ip
<1>7. Len(Ip(f)) = Len(f) - 14
  BY <1>1, FromBytes DEF Ip
<1>. QED
  BY <1>2, <1>5, <1>6, <1>7 DEF LinkHeader

LEMMA SoundTaken ==
  ASSUME NEW m, Sendable(m), NEW d, Sound(m, d)
  PROVE  Taken(d)
<1>1. /\ d \in Seq(Byte) /\ Framed(d) /\ Word(d, 6) = m.flags_fragment
      /\ InternetChecksum(Slice(d, 0, HeaderLength(d))) = 0 /\ Transport(d).status = "OK"
  BY DEF Sound
<1>2. m.flags_fragment \in FragmentField
  BY SendableSets
<1>3. Word(d, 6) < 32768
  BY <1>1, <1>2 DEF FragmentField
<1>4. ParseIpv4(d).status = "OK"
  BY <1>1, <1>3, Ipv4Parsed
<1>. QED
  BY <1>1, <1>4 DEF Taken

(* What decrement_ttl leaves of a packet.                                    *)
LEMMA ForwardedFields ==
  ASSUME NEW d \in Seq(Byte), DecrementTtl(d).status = "OK"
  PROVE  LET e == DecrementTtl(d).bytes
         IN  /\ e \in Seq(Byte) /\ Len(e) = Len(d)
             /\ HeaderLength(e) = HeaderLength(d)
             /\ Taken(e) => Taken(d)
             /\ \A m : Sound(m, d) => Sound(m, e)
<1>. DEFINE e == DecrementTtl(d).bytes
<1>1. ParseIpv4(d).status = "OK" /\ Rest(d, e) /\ InternetChecksum(Slice(e, 0, HeaderLength(d))) = 0
  BY Forwarded
<1>. HIDE DEF e
<1>2. Framed(d)
  BY <1>1, Ipv4Parsed
<1>3. /\ Framed(e) /\ HeaderLength(e) = HeaderLength(d) /\ Word(e, 2) = Word(d, 2)
      /\ Word(e, 6) = Word(d, 6) /\ At(e, 9) = At(d, 9)
      /\ Payload(e) = Payload(d) /\ Transport(e) = Transport(d)
  BY <1>1, <1>2, FieldsKept
<1>4. e \in Seq(Byte) /\ Len(e) = Len(d)
  BY <1>1 DEF Rest
<1>5. Taken(e) => Taken(d)
  BY <1>1, <1>3 DEF Taken
<1>6. ASSUME NEW m, Sound(m, d) PROVE Sound(m, e)
  BY <1>1, <1>3, <1>4, <1>6 DEF Sound
<1>. QED
  BY <1>3, <1>4, <1>5, <1>6 DEF e

(* What a change of a word behind the header of the link is to the packet.   *)
LEMMA PutBehindLink ==
  ASSUME NEW f \in Seq(Byte), Len(f) >= 34, NEW at \in Nat, 14 <= at, at + 2 <= Len(f), NEW w \in Half
  PROVE  LET g == Put(f, at, w)
         IN  /\ g \in Seq(Byte) /\ Len(g) = Len(f) /\ Word(g, 12) = Word(f, 12)
             /\ Ip(g) = Put(Ip(f), at - 14, w) /\ Word(Ip(f), at - 14) = Word(f, at)
<1>. DEFINE g == Put(f, at, w)
<1>1. /\ g \in Seq(Byte) /\ Len(g) = Len(f)
      /\ \A i \in 0..(Len(f) - 1) :
           At(g, i) = IF i = at THEN w \div 256 ELSE IF i = at + 1 THEN w % 256 ELSE At(f, i)
  BY PutBytes
<1>2. Ip(g) = Put(Ip(f), at - 14, w) /\ Word(Ip(f), at - 14) = Word(f, at)
  <2>. HIDE DEF g
  <2>1. 14 \in Nat
    OBVIOUS
  <2>2. /\ From(Put(f, at, w), 14) = Put(From(f, 14), at - 14, w)
        /\ Word(From(f, 14), at - 14) = Word(f, at)
    BY <2>1, FromPut
  <2>. QED
    BY <2>2 DEF Ip, g
<1>. HIDE DEF g
<1>3. Word(g, 12) = Word(f, 12)
  <2>1. 12 \in 0..(Len(f) - 1) /\ 13 \in 0..(Len(f) - 1) /\ 12 # at /\ 12 # at + 1 /\ 13 # at /\ 13 # at + 1
    OBVIOUS
  <2>2. At(g, 12) = At(f, 12) /\ At(g, 13) = At(f, 13)
    BY <1>1, <2>1
  <2>. QED
    BY <2>2 DEF Word
<1>. QED
  BY <1>1, <1>2, <1>3 DEF g

-----------------------------------------------------------------------------
(* The inductive invariant: a frame that no one changed carries its message, *)
(* and a damaged one is not taken.                                           *)

WireType == /\ Sendable(message)
            /\ frame \in Seq(Byte) /\ Len(frame) >= 34
            /\ Word(frame, 12) = EtherType(message)

PacketSent == message.kind # "ARP" /\ message.ether_type = 2048

NotTaken == PacketSent /\ change.by = "LINK" /\ ~Invisible => ~Taken(Ip(frame))

WireInv == WireType /\ (change = Unchanged => Carries(message, frame)) /\ NotTaken

LEMMA PacketIsSent ==
  ASSUME WireType, HasPacket(frame)
  PROVE  PacketSent
BY DEF WireType, HasPacket, PacketSent, EtherType

LEMMA PlacesOfWords ==
  ASSUME WireType, NEW at \in Places
  PROVE  \E k \in Nat : /\ at = 14 + 2 * k /\ at + 2 <= Len(frame)
                        /\ HasPacket(frame) => 2 * k + 2 <= Word(Ip(frame), 2)
<1>. DEFINE length == IF HasPacket(frame) THEN Word(frame, 16) ELSE 28
<1>1. frame \in Seq(Byte) /\ Len(frame) >= 34
  BY DEF WireType
<1>2. length \in Nat
  <2>1. 16 \in Nat /\ 16 + 2 <= Len(frame)
    BY <1>1
  <2>2. Word(frame, 16) \in Half
    BY <1>1, <2>1, WordHalf
  <2>. QED
    BY <2>2 DEF Half
<1>3. at + 2 <= Len(frame) /\ at \in {14 + 2 * k : k \in 0..(length \div 2) - 1}
  BY DEF Places
<1>. HIDE DEF length
<1>4. ASSUME NEW i \in 0..(length \div 2) - 1 PROVE i \in Nat /\ 2 * i + 2 <= length
  BY <1>2
<1>5. \E k \in Nat : at = 14 + 2 * k /\ 2 * k + 2 <= length
  BY <1>3, <1>4
<1>6. PICK k \in Nat : at = 14 + 2 * k /\ 2 * k + 2 <= length
  BY <1>5
<1>7. Word(Ip(frame), 2) = Word(frame, 16)
  <2>1. At(Ip(frame), 2) = At(frame, 16) /\ At(Ip(frame), 3) = At(frame, 17)
    BY <1>1 DEF Ip, From, At
  <2>. QED
    BY <2>1 DEF Word
<1>. QED
  BY <1>3, <1>6, <1>7 DEF length

LEMMA NewWordsHalf ==
  ASSUME NEW old \in Half, NEW new \in NewWords(old)
  PROVE  new \in Half /\ new # old
<1>1. \A n \in Nat : n % 65536 \in Nat /\ n % 65536 <= 65535
  OBVIOUS
<1>2. ASSUME NEW d \in Deltas PROVE (old + d) % 65536 \in Half
  <2>1. old + d \in Nat
    BY WireAssumption DEF Half
  <2>. HIDE DEF Half
  <2>. QED
    BY <1>1, <2>1 DEF Half
<1>3. 0 \in Half /\ 65535 \in Half
  BY DEF Half
<1>. HIDE DEF Half
<1>. QED
  BY <1>2, <1>3 DEF NewWords

LEMMA InitInv ==
  ASSUME Init
  PROVE  WireInv
<1>1. Sendable(message) /\ frame = Frame(message) /\ change = Unchanged
  BY WireAssumption DEF Init
<1>2. Carries(message, frame)
  BY <1>1, FrameSent
<1>3. WireType
  BY <1>1, <1>2 DEF WireType, Carries
<1>4. change.by # "LINK"
  BY <1>1 DEF Unchanged
<1>. QED
  BY <1>2, <1>3, <1>4 DEF WireInv, NotTaken

LEMMA ForwardInv ==
  ASSUME WireInv, Forward
  PROVE  WireInv'
<1>. DEFINE d == Ip(frame)
            e == DecrementTtl(d).bytes
            h == Eth(frame)
<1>1. /\ HasPacket(frame) /\ DecrementTtl(d).status = "OK" /\ frame' = h \o e
      /\ message' = message /\ change' = change
  BY DEF Forward
<1>2. /\ WireType /\ Sendable(message) /\ frame \in Seq(Byte) /\ Len(frame) >= 34
      /\ Word(frame, 12) = EtherType(message) /\ Word(frame, 12) = 2048
  BY <1>1 DEF WireInv, WireType, HasPacket
<1>3. PacketSent
  BY <1>1, <1>2, PacketIsSent
<1>4. /\ h \in LinkHeader /\ Word(h, 12) = Word(frame, 12)
      /\ d \in Seq(Byte) /\ Len(d) = Len(frame) - 14
  BY <1>2, LinkSplit
<1>. HIDE DEF d, h
<1>5. /\ e \in Seq(Byte) /\ Len(e) = Len(d)
      /\ HeaderLength(e) = HeaderLength(d)
      /\ Taken(e) => Taken(d)
      /\ \A m : Sound(m, d) => Sound(m, e)
  BY <1>1, <1>4, ForwardedFields
<1>. HIDE DEF e
<1>6. /\ frame' \in Seq(Byte) /\ Len(frame') = 14 + Len(e) /\ Ip(frame') = e
      /\ Word(frame', 12) = Word(h, 12)
  BY <1>1, <1>4, <1>5, Linked
<1>7. WireType'
  <2>1. Len(frame') >= 34 /\ Word(frame', 12) = EtherType(message)
    BY <1>2, <1>4, <1>5, <1>6
  <2>. QED
    BY <1>1, <1>2, <1>6, <2>1 DEF WireType
<1>8. ASSUME change' = Unchanged PROVE Carries(message, frame)'
  <2>1. Sound(message, d)
    <3>1. Carries(message, frame)
      BY <1>1, <1>8 DEF WireInv
    <3>. QED
      BY <1>3, <3>1 DEF Carries, d, PacketSent
  <2>2. Sound(message, e)
    BY <1>5, <2>1
  <2>. QED
    BY <1>1, <1>6, <1>7, <2>2 DEF Carries, WireType
<1>9. Invisible' <=> Invisible
  <2>1. HeaderLength(Ip(frame')) = HeaderLength(Ip(frame))
    BY <1>5, <1>6 DEF d
  <2>. QED
    BY <1>1, <2>1 DEF Invisible, Uncovered, InHeader
<1>10. NotTaken'
  <2>1. Taken(Ip(frame')) => Taken(Ip(frame))
    BY <1>5, <1>6 DEF d
  <2>2. NotTaken
    BY DEF WireInv
  <2>3. PacketSent' <=> PacketSent
    BY <1>1 DEF PacketSent
  <2>4. Taken(Ip(frame))' <=> Taken(Ip(frame'))
    BY DEF Taken, Ip
  <2>. QED
    BY <1>1, <1>9, <2>1, <2>2, <2>3, <2>4 DEF NotTaken
<1>. QED
  BY <1>7, <1>8, <1>10 DEF WireInv

LEMMA CorruptInv ==
  ASSUME WireInv, Corrupt
  PROVE  WireInv'
<1>0. PICK at \in Places : \E new \in NewWords(Word(frame, at)) :
        /\ frame' = Put(frame, at, new)
        /\ change' = [by |-> "LINK", at |-> at, old |-> Word(frame, at), new |-> new]
        /\ message' = message
  BY DEF Corrupt
<1>1. PICK new \in NewWords(Word(frame, at)) :
        /\ frame' = Put(frame, at, new)
        /\ change' = [by |-> "LINK", at |-> at, old |-> Word(frame, at), new |-> new]
        /\ message' = message
  BY <1>0
<1>2. /\ WireType /\ Sendable(message) /\ frame \in Seq(Byte) /\ Len(frame) >= 34
      /\ Word(frame, 12) = EtherType(message) /\ Carries(message, frame)
  BY DEF Corrupt, WireInv, WireType
<1>3. PICK k \in Nat : /\ at = 14 + 2 * k /\ at + 2 <= Len(frame)
                       /\ HasPacket(frame) => 2 * k + 2 <= Word(Ip(frame), 2)
  BY <1>1, <1>2, PlacesOfWords
<1>4. at \in Nat /\ 14 <= at /\ at - 14 = 2 * k
  BY <1>3
<1>5. new \in Half /\ new # Word(frame, at)
  <2>1. Word(frame, at) \in Half
    BY <1>2, <1>3, <1>4, WordHalf
  <2>. QED
    BY <1>1, <2>1, NewWordsHalf
<1>. DEFINE g == Put(frame, at, new)
            d == Ip(frame)
<1>6. g \in Seq(Byte) /\ Len(g) = Len(frame) /\ Word(g, 12) = Word(frame, 12)
  BY <1>2, <1>3, <1>4, <1>5, PutBehindLink
<1>7. Ip(g) = Put(d, 2 * k, new) /\ Word(d, 2 * k) = Word(frame, at)
  <2>1. Ip(g) = Put(d, at - 14, new)
    BY <1>2, <1>3, <1>4, <1>5, PutBehindLink
  <2>2. Word(d, at - 14) = Word(frame, at)
    BY <1>2, <1>3, <1>4, <1>5, PutBehindLink
  <2>. HIDE DEF g, d
  <2>. QED
    BY <1>4, <2>1, <2>2
<1>. HIDE DEF g, d
<1>8. frame' = g
  BY <1>1 DEF g
<1>9. WireType'
  BY <1>1, <1>2, <1>6, <1>8 DEF WireType
<1>10. change' # Unchanged /\ change'.by = "LINK" /\ change'.at = at /\ change'.new = new
       /\ change'.old = Word(frame, at)
  BY <1>1 DEF Unchanged
<1>11. NotTaken'
  <2>1. SUFFICES ASSUME PacketSent, ~Invisible', Taken(Ip(g))
                 PROVE  FALSE
    <3>1. PacketSent' <=> PacketSent
      BY <1>1 DEF PacketSent
    <3>2. Taken(Ip(frame))' <=> Taken(Ip(g))
      BY <1>8 DEF Taken, Ip
    <3>. QED
      BY <3>1, <3>2 DEF NotTaken
  <2>2. message.kind # "ARP" /\ Sound(message, d) /\ HasPacket(frame)
    BY <1>2, <2>1 DEF PacketSent, Carries, HasPacket, EtherType, d
  <2>3. 2 * k + 2 <= Word(d, 2) /\ new # Word(d, 2 * k)
    BY <1>3, <1>5, <1>7, <2>2 DEF d
  <2>4. d \in Seq(Byte) /\ Framed(d)
    BY <2>2 DEF Sound
  <2>5. HeaderLength(d) \in Nat /\ Word(d, 2) <= Len(d) /\ Len(d) >= 20
    BY <2>4, FramedBytes DEF Framed
  <2>6. ~(2 * k = 0 /\ (Word(d, 0) \div 256) % 16 # (new \div 256) % 16)
    <3>1. ~(at = 14 /\ (Word(frame, at) \div 256) % 16 # (new \div 256) % 16)
      BY <1>10, <2>1 DEF Invisible
    <3>2. 2 * k = 0 => at = 14 /\ Word(d, 0) = Word(frame, at)
      BY <1>3, <1>7
    <3>. QED
      BY <3>1, <3>2
  <2>7. HeaderLength(Ip(g)) = HeaderLength(d)
    <3>. DEFINE o == 2 * k
    <3>1. o \in Nat /\ o + 2 <= Len(d)
      <4>1. Word(d, 2) \in Nat /\ Len(d) \in Nat
        BY <2>4, FramedBytes
      <4>. QED
        BY <2>3, <2>5, <4>1
    <3>2. ~(o = 0 /\ (Word(d, 0) \div 256) % 16 # (new \div 256) % 16)
      BY <2>6
    <3>3. Ip(g) = Put(d, o, new)
      BY <1>7
    <3>. HIDE DEF o
    <3>. QED
      BY <1>5, <2>4, <2>5, <3>1, <3>2, <3>3, HeaderKept
  <2>. DEFINE h == HeaderLength(d)
  <2>8. /\ ~({Word(frame, at), new} = {0, 65535})
        /\ ~(~(at < 14 + h) /\ (message.kind \in {"RAW", "BARE_UDP"} \/ message.flags_fragment % 16384 # 0))
        /\ ~(message.kind = "UDP" /\ new = 0 /\ at = 14 + h + 6)
    <3>1. HeaderLength(Ip(frame')) = h
      BY <1>8, <2>7
    <3>. HIDE DEF h
    <3>. QED
      BY <1>1, <1>10, <2>1, <3>1 DEF Invisible, Uncovered, InHeader
  <2>9. (h <= 2 * k <=> ~(at < 14 + h)) /\ (2 * k = h + 6 <=> at = 14 + h + 6)
    <3>1. h \in Nat
      BY <2>5
    <3>. HIDE DEF h
    <3>. QED
      BY <1>3, <3>1
  <2>. HIDE DEF h
  <2>10. ~({Word(d, 2 * k), new} = {0, 65535})
    BY <1>7, <2>8
  <2>11. CASE 2 * k = 0 /\ Word(d, 0) \div 256 # new \div 256
    BY <1>5, <1>7, <2>1, <2>4, <2>6, <2>11, VersionDamageFound DEF Taken
  <2>12. CASE ~(2 * k = 0 /\ Word(d, 0) \div 256 # new \div 256)
    <3>1. ~Unseen(message, d, 2 * k, new)
      BY <2>8, <2>9, <2>10, <2>12 DEF Unseen, h
    <3>2. ~(ParseIpv4(Put(d, 2 * k, new)).status = "OK" /\ Transport(Put(d, 2 * k, new)).status = "OK")
      BY <1>2, <1>5, <2>2, <2>3, <3>1, DamageFound
    <3>. QED
      BY <1>7, <2>1, <3>2 DEF Taken
  <2>. QED
    BY <2>11, <2>12
<1>. QED
  BY <1>9, <1>10, <1>11 DEF WireInv

(* An echo reply fits where the request did.                                 *)
LEMMA ReplyBytes ==
  ASSUME NEW p \in Seq(Byte), Len(p) \in Half, MakeEchoReply(p).status = "OK"
  PROVE  LET b == MakeEchoReply(p).bytes
         IN  b \in Seq(Byte) /\ Len(b) >= 8 /\ InternetChecksum(b) = 0
<1>. DEFINE m == ParseMessage(p)
            x == From(p, 8)
            i == Word(p, 4)
            k == Word(p, 6)
            out == BuildEcho(0, i, k, x)
<1>1. m.status = "OK" /\ ~(Len(m.body) < 4) /\ MakeEchoReply(p) = out
  <2>. HIDE DEF out, m
  <2>1. MakeEchoReply(p) = IF m.status # "OK" THEN Refused(m.status)
                           ELSE IF m.type # 8 \/ m.code # 0 \/ Len(m.body) < 4 THEN Refused("MALFORMED")
                           ELSE out
    BY DEF MakeEchoReply, out, m
  <2>2. Refused("MALFORMED").status # "OK" /\ (m.status # "OK" => Refused(m.status).status # "OK")
    BY DEF Refused
  <2>. QED
    BY <2>1, <2>2
<1>2. ~(Len(p) < 4) /\ m.body = From(p, 4)
  BY <1>1 DEF ParseMessage, Refused
<1>3. Len(p) >= 8 /\ Len(p) \in Nat
  <2>1. 4 \in Nat /\ 4 <= Len(p) /\ Len(p) \in Nat
    BY <1>2
  <2>2. Len(From(p, 4)) = Len(p) - 4
    BY <2>1, FromBytes
  <2>3. ~(Len(p) - 4 < 4)
    BY <1>1, <1>2, <2>2
  <2>. QED
    BY <2>1, <2>3
<1>4. i \in Half /\ k \in Half
  <2>1. 4 \in Nat /\ 6 \in Nat /\ 4 + 2 <= Len(p) /\ 6 + 2 <= Len(p)
    BY <1>3
  <2>2. i \in Half
    BY <2>1, WordHalf
  <2>3. k \in Half
    BY <2>1, WordHalf
  <2>. QED
    BY <2>2, <2>3
<1>5. x \in Seq(Byte) /\ 8 + Len(x) = Len(p)
  <2>1. 8 \in Nat /\ 8 <= Len(p)
    BY <1>3
  <2>2. x \in Seq(Byte)
    BY <2>1, FromBytes
  <2>3. Len(x) = Len(p) - 8
    BY <2>1, FromBytes
  <2>. HIDE DEF x
  <2>4. 8 + Len(x) = Len(p)
    BY <1>3, <2>3
  <2>. QED
    BY <2>2, <2>4
<1>6. 0 \in {0, 8} /\ 8 + Len(x) \in Half
  BY <1>5
<1>. HIDE DEF x, i, k
<1>7. /\ out.bytes \in Seq(Byte) /\ Len(out.bytes) = 8 + Len(x)
      /\ InternetChecksum(out.bytes) = 0
  BY <1>4, <1>5, <1>6, EchoBuilt
<1>. HIDE DEF out
<1>8. Len(out.bytes) >= 8
  BY <1>5, <1>7
<1>. QED
  BY <1>1, <1>7, <1>8

LEMMA EchoedSendable ==
  ASSUME NEW m, Sendable(m)
  PROVE  /\ Sendable(Echoed(m)) /\ Echoed(m).kind = "ICMP"
         /\ Echoed(m).ether_type = m.ether_type /\ Echoed(m).ip_options = m.ip_options
<1>. DEFINE M == [kind : {"ARP", "ICMP", "UDP", "BARE_UDP", "TCP", "RAW"}, payload : Seq(Byte),
                  source_port : Nat, destination_port : Nat, options : Seq(Byte), ip_options : Seq(Byte),
                  flags_fragment : Nat, ttl : Byte, ether_type : Nat, padding : Nat,
                  labels : Seq(Seq(Byte)), address : Seq(Byte)]
            x == Echoed(m)
<1>1. m \in M
  BY DEF Sendable
<1>2. <<>> \in Seq(Byte)
  OBVIOUS
<1>3. x \in M
  BY <1>1, <1>2 DEF Echoed
<1>4. /\ x.kind = "ICMP" /\ x.ether_type = m.ether_type /\ x.ip_options = m.ip_options
      /\ x.source_port = m.source_port /\ x.destination_port = m.destination_port
      /\ x.flags_fragment = m.flags_fragment /\ x.options = m.options /\ x.payload = m.payload
      /\ x.address = <<>>
  BY <1>1 DEF Echoed
<1>. HIDE DEF x
<1>5. Sendable(x)
  <2>1. /\ m.source_port <= 65535 /\ m.destination_port <= 65535
        /\ m.flags_fragment < 32768 /\ m.ether_type <= 65535
        /\ Len(m.options) <= 40 /\ Len(m.options) % 4 = 0
        /\ Len(m.ip_options) <= 40 /\ Len(m.ip_options) % 4 = 0
        /\ 40 + Len(m.ip_options) + Len(m.options) + Len(m.payload) <= 65535
    BY DEF Sendable
  <2>. HIDE DEF M
  <2>. QED
    BY <1>3, <1>4, <2>1 DEF Sendable, M
<1>. QED
  BY <1>4, <1>5 DEF x

LEMMA ReplyInv ==
  ASSUME WireInv, Reply
  PROVE  WireInv'
<1>. DEFINE d == Ip(frame)
            p == ParseIpv4(d).payload
            b == MakeEchoReply(p).bytes
            m == Echoed(message)
            y == Packet(m, There, Here, b)
            h == Eth(frame)
<1>1. /\ HasPacket(frame) /\ ParseIpv4(d).status = "OK" /\ MakeEchoReply(p).status = "OK"
      /\ Fits(m, b) /\ message' = m /\ frame' = h \o y /\ change' = Unchanged
  BY DEF Reply
<1>2. /\ WireType /\ Sendable(message) /\ frame \in Seq(Byte) /\ Len(frame) >= 34
      /\ Word(frame, 12) = EtherType(message)
  BY DEF WireInv, WireType
<1>3. PacketSent
  BY <1>1, <1>2, PacketIsSent
<1>4. h \in LinkHeader /\ Word(h, 12) = message.ether_type /\ d \in Seq(Byte)
  <2>1. h \in LinkHeader
    BY <1>2, LinkSplit
  <2>2. Word(h, 12) = Word(frame, 12)
    BY <1>2, LinkSplit
  <2>3. d \in Seq(Byte)
    BY <1>2, LinkSplit
  <2>. QED
    BY <1>2, <1>3, <2>1, <2>2, <2>3 DEF EtherType, PacketSent
<1>. HIDE DEF d, h
<1>5. p \in Seq(Byte) /\ Len(p) \in Half
  <2>1. Framed(d) /\ p = Payload(d)
    BY <1>1, <1>4, Ipv4Parsed
  <2>. HIDE DEF p
  <2>2. Payload(d) \in Seq(Byte) /\ Len(Payload(d)) \in Half
    BY <1>4, <2>1, FramedBytes
  <2>. QED
    BY <2>1, <2>2
<1>. HIDE DEF p
<1>6. b \in Seq(Byte) /\ Len(b) >= 8 /\ InternetChecksum(b) = 0
  BY <1>1, <1>5, ReplyBytes
<1>. HIDE DEF b
<1>7. /\ Sendable(m) /\ m.kind = "ICMP"
      /\ m.ether_type = message.ether_type /\ m.ip_options = message.ip_options
  BY <1>2, EchoedSendable
<1>. HIDE DEF m
<1>8. 20 + Len(m.ip_options) + Len(b) \in Half
  <2>1. m.ip_options \in OptionBytes
    BY <1>7, SendableSets
  <2>2. Len(m.ip_options) \in Nat /\ Len(b) \in Nat
    BY <1>6, <2>1 DEF OptionBytes
  <2>. QED
    BY <1>1, <2>2 DEF Half, Fits
<1>9. Accepted(Protocol(m.kind), There, Here, b)
  <2>1. ParseMessage(b).status = "OK" /\ Len(ParseMessage(b).body) >= 4
    BY <1>6, MessageParsed
  <2>2. Protocol(m.kind) = 1
    BY <1>7, Protocols
  <2>. QED
    BY <2>1, <2>2 DEF Accepted
<1>10. y \in Seq(Byte) /\ Sound(m, y \o <<>>)
  <2>1. Here \in FourBytes /\ There \in FourBytes /\ <<>> \in Seq(Byte)
    BY WireAssumption DEF FourBytes
  <2>2. m.kind = "UDP" => Word(b, 6) # 0 /\ From(b, 8) = m.payload
    BY <1>7
  <2>. QED
    BY <1>6, <1>7, <1>8, <1>9, <2>1, <2>2, PacketSound
<1>. HIDE DEF y
<1>11. Sound(m, y)
  <2>1. y \o <<>> = y
    BY <1>10
  <2>. QED
    BY <1>10, <2>1
<1>12. Carries(m, frame')
  <2>1. m.kind # "ARP" /\ Word(h, 12) = m.ether_type
    BY <1>4, <1>7
  <2>2. Carries(m, h \o y)
    BY <1>4, <1>11, <2>1, PacketCarried
  <2>. QED
    BY <1>1, <2>2
<1>13. WireType' /\ Carries(message, frame)'
  BY <1>1, <1>7, <1>12 DEF WireType, Carries
<1>14. change'.by # "LINK"
  BY <1>1 DEF Unchanged
<1>. QED
  BY <1>13, <1>14 DEF WireInv, NotTaken

LEMMA RewriteInv ==
  ASSUME WireInv, Rewrite
  PROVE  WireInv'
<1>0. PICK at \in Places : \E new \in NewWords(Word(frame, at)) :
        LET f == Put(frame, at, new)
        IN  /\ frame' = IF HasPacket(f) /\ HeaderLength(Ip(f)) <= Len(Ip(f))
                          THEN Eth(f) \o WithChecksum(Ip(f)) ELSE f
            /\ change' = [by |-> "SENDER", at |-> at, old |-> Word(frame, at), new |-> new]
            /\ message' = message
  BY DEF Rewrite
<1>1. PICK new \in NewWords(Word(frame, at)) :
        LET f == Put(frame, at, new)
        IN  /\ frame' = IF HasPacket(f) /\ HeaderLength(Ip(f)) <= Len(Ip(f))
                          THEN Eth(f) \o WithChecksum(Ip(f)) ELSE f
            /\ change' = [by |-> "SENDER", at |-> at, old |-> Word(frame, at), new |-> new]
            /\ message' = message
  BY <1>0
<1>2. /\ WireType /\ Sendable(message) /\ frame \in Seq(Byte) /\ Len(frame) >= 34
      /\ Word(frame, 12) = EtherType(message)
  BY DEF WireInv, WireType
<1>3. PICK k \in Nat : at = 14 + 2 * k /\ at + 2 <= Len(frame)
  BY <1>1, <1>2, PlacesOfWords
<1>4. at \in Nat /\ 14 <= at
  BY <1>3
<1>5. new \in Half
  <2>1. Word(frame, at) \in Half
    BY <1>2, <1>3, <1>4, WordHalf
  <2>. QED
    BY <1>1, <2>1, NewWordsHalf
<1>. DEFINE f == Put(frame, at, new)
            d == Ip(f)
            h == Eth(f)
            e == WithChecksum(d)
<1>6. f \in Seq(Byte) /\ Len(f) = Len(frame) /\ Word(f, 12) = Word(frame, 12)
  BY <1>2, <1>3, <1>4, <1>5, PutBehindLink
<1>7. /\ frame' = IF HasPacket(f) /\ HeaderLength(d) <= Len(d) THEN h \o e ELSE f
      /\ message' = message /\ change'.by = "SENDER"
  BY <1>1
<1>. HIDE DEF f
<1>8. /\ h \in LinkHeader /\ Word(h, 12) = Word(f, 12)
      /\ d \in Seq(Byte) /\ Len(d) = Len(f) - 14
  <2>1. Len(f) >= 34
    BY <1>2, <1>6
  <2>. QED
    BY <1>6, <2>1, LinkSplit
<1>. HIDE DEF d, h
<1>9. frame' \in Seq(Byte) /\ Len(frame') >= 34 /\ Word(frame', 12) = EtherType(message)
  <2>1. CASE HasPacket(f) /\ HeaderLength(d) <= Len(d)
    <3>1. frame' = h \o e
      BY <1>7, <2>1
    <3>2. Len(d) >= 20
      BY <1>2, <1>6, <1>8
    <3>3. e \in Seq(Byte) /\ Len(e) = Len(d)
      BY <1>8, <2>1, <3>2, ChecksumWritten
    <3>. HIDE DEF e
    <3>4. /\ frame' \in Seq(Byte) /\ Len(frame') = 14 + Len(e) /\ Word(frame', 12) = Word(h, 12)
      BY <1>8, <3>1, <3>3, Linked
    <3>5. Len(frame') >= 34
      BY <1>2, <1>6, <1>8, <3>3, <3>4
    <3>. QED
      BY <1>2, <1>6, <1>8, <3>4, <3>5
  <2>2. CASE ~(HasPacket(f) /\ HeaderLength(d) <= Len(d))
    BY <1>2, <1>6, <1>7, <2>2
  <2>. QED
    BY <2>1, <2>2
<1>10. WireType'
  BY <1>2, <1>7, <1>9 DEF WireType
<1>11. change' # Unchanged /\ change'.by # "LINK"
  BY <1>7 DEF Unchanged
<1>. QED
  BY <1>10, <1>11 DEF WireInv, NotTaken

-----------------------------------------------------------------------------
(* Every frame of every behaviour: as it was sent and forwarded it carries   *)
(* its message and every parser takes it; with a damaged word the parsers do *)
(* not take it, unless the damage is of a kind that no sum sees.             *)
THEOREM WireInvariant == Spec => []WireInv
<1>1. Init => WireInv
  BY InitInv
<1>2. WireInv /\ [Next]_vars => WireInv'
  <2>. SUFFICES ASSUME WireInv, [Next]_vars PROVE WireInv'
    OBVIOUS
  <2>1. CASE Forward
    BY <2>1, ForwardInv
  <2>2. CASE Reply
    BY <2>2, ReplyInv
  <2>3. CASE Corrupt
    BY <2>3, CorruptInv
  <2>4. CASE Rewrite
    BY <2>4, RewriteInv
  <2>5. CASE UNCHANGED vars
    <3>1. message' = message /\ frame' = frame /\ change' = change
      BY <2>5 DEF vars
    <3>2. WireType' /\ (change' = Unchanged => Carries(message, frame)')
      BY <3>1 DEF WireInv, WireType, Carries
    <3>3. NotTaken'
      BY <3>1 DEF WireInv, NotTaken, PacketSent, Invisible, Uncovered, InHeader, Taken, Ip
    <3>. QED
      BY <3>2, <3>3 DEF WireInv
  <2>. QED
    BY <2>1, <2>2, <2>3, <2>4, <2>5 DEF Next
<1>. QED
  BY <1>1, <1>2, PTL DEF Spec

LEMMA Agreement ==
  ASSUME WireType
  PROVE  LessonsAgree
<1>1. frame \in Seq(Byte) /\ Len(frame) >= 14
  BY DEF WireType
<1>2. ASSUME Word(frame, 12) >= 1536
      PROVE  /\ Read(frame).status = "OK" <=> Accepts(Diagnose(frame))
             /\ Read(frame).status = "OK" => Diagnose(frame).payload_length = Len(Read(frame).payload)
  BY <1>1, <1>2, FrameAgrees
<1>. QED
  BY <1>2 DEF LessonsAgree, Accepts

(* Lesson 12's diagnosis and the parsers of lessons 02 to 06 agree on every  *)
(* frame, whatever its senders, routers and links made of it.                *)
THEOREM LessonsAlwaysAgree == Spec => []LessonsAgree
<1>1. WireInv => LessonsAgree
  BY Agreement DEF WireInv
<1>. QED
  BY <1>1, WireInvariant, PTL

LEMMA Seen ==
  ASSUME WireInv
  PROVE  DamageSeen
<1>. DEFINE r == Diagnose(frame)
            ok == Read(frame).status = "OK"
<1>1. SUFFICES ASSUME PacketSent
               PROVE  /\ change = Unchanged => ~Mismatched(r) /\ ok
                      /\ change.by = "LINK" /\ ~Invisible => (Mismatched(r) \/ r.status # "OK") /\ ~ok
  BY DEF DamageSeen, PacketSent
<1>2. /\ Sendable(message) /\ frame \in Seq(Byte) /\ Len(frame) >= 34 /\ Word(frame, 12) = 2048
  BY <1>1 DEF WireInv, WireType, EtherType, PacketSent
<1>3. ok <=> Taken(Ip(frame))
  BY <1>2, ReadPacket
<1>4. ok <=> Accepts(r)
  <2>1. Len(frame) >= 14 /\ Word(frame, 12) >= 1536
    BY <1>2
  <2>. QED
    BY <1>2, <2>1, FrameAgrees
<1>5. change = Unchanged => Taken(Ip(frame))
  <2>1. change = Unchanged => Sound(message, Ip(frame))
    BY <1>1 DEF WireInv, Carries, PacketSent
  <2>. QED
    BY <1>2, <2>1, SoundTaken
<1>6. change.by = "LINK" /\ ~Invisible => ~Taken(Ip(frame))
  BY <1>1 DEF WireInv, NotTaken
<1>. HIDE DEF r, ok
<1>. QED
  BY <1>3, <1>4, <1>5, <1>6 DEF Accepts

(* A packet that no one changed verifies at every router and at its end; one *)
(* with a damaged word is found out at every later point, by lesson 12 and   *)
(* by the parsers, in spite of the header checksums that routers compute     *)
(* anew, unless no sum can see the damage.                                   *)
THEOREM DamageAlwaysSeen == Spec => []DamageSeen
<1>1. WireInv => DamageSeen
  BY Seen
<1>. QED
  BY <1>1, WireInvariant, PTL

-----------------------------------------------------------------------------
(* Recursion.  A function on Q that is E at some places and is computed by C *)
(* from its value at S at the others exists, if S brings the measure M down. *)

Descends(Q, M, Stop, S) == \A q \in Q \ Stop : S[q] \in Q /\ M[S[q]] < M[q]

Below(Q, M, n) == {q \in Q : M[q] < n}

Solves(h, D, Stop, E, S, C) ==
  \A q \in D : /\ q \in Stop => h[q] = E[q]
               /\ q \notin Stop => h[q] = C[<<q, h[S[q]]>>]

LEMMA SolutionsAgree ==
  ASSUME NEW Q, NEW M \in [Q -> Nat], NEW Stop, NEW E, NEW S, NEW C, Descends(Q, M, Stop, S),
         NEW n \in Nat, NEW k \in Nat, NEW f, NEW g,
         Solves(f, Below(Q, M, n), Stop, E, S, C), Solves(g, Below(Q, M, k), Stop, E, S, C)
  PROVE  \A q \in Q : M[q] < n /\ M[q] < k => f[q] = g[q]
<1>. DEFINE Equal(q) == M[q] < n /\ M[q] < k => f[q] = g[q]
            T == {i \in Nat : \A q \in Q : M[q] < i => Equal(q)}
<1>1. 0 \in T
  OBVIOUS
<1>2. ASSUME NEW i \in Nat, i \in T PROVE i + 1 \in T
  <2>. SUFFICES ASSUME NEW q \in Q, M[q] < i + 1, M[q] < n, M[q] < k PROVE f[q] = g[q]
    OBVIOUS
  <2>1. q \in Below(Q, M, n) /\ q \in Below(Q, M, k)
    BY DEF Below
  <2>2. CASE q \in Stop
    BY <2>1, <2>2 DEF Solves
  <2>3. CASE q \notin Stop
    <3>1. S[q] \in Q /\ M[S[q]] < M[q]
      BY <2>3 DEF Descends
    <3>2. M[S[q]] < i /\ M[S[q]] < n /\ M[S[q]] < k
      BY <3>1
    <3>3. f[S[q]] = g[S[q]]
      BY <1>2, <3>1, <3>2
    <3>4. f[q] = C[<<q, f[S[q]]>>] /\ g[q] = C[<<q, g[S[q]]>>]
      BY <2>1, <2>3 DEF Solves
    <3>. QED
      BY <3>3, <3>4
  <2>. QED
    BY <2>2, <2>3
<1>3. Nat \subseteq T
  <2>. HIDE DEF T
  <2>. QED
    BY <1>1, <1>2, SetInduction
<1>4. ASSUME NEW q \in Q PROVE Equal(q)
  <2>1. M[q] + 1 \in T /\ M[q] < M[q] + 1
    BY <1>3
  <2>. QED
    BY <2>1
<1>. QED
  BY <1>4

LEMMA SolutionsExist ==
  ASSUME NEW Q, NEW M \in [Q -> Nat], NEW V, NEW Stop, NEW E, NEW S, NEW C, Descends(Q, M, Stop, S),
         \A q \in Q : q \in Stop => E[q] \in V,
         \A q \in Q, v \in V : q \notin Stop => C[<<q, v>>] \in V,
         NEW n \in Nat
  PROVE  \E h \in [Below(Q, M, n) -> V] : Solves(h, Below(Q, M, n), Stop, E, S, C)
<1>. DEFINE Good(i) == \E h \in [Below(Q, M, i) -> V] : Solves(h, Below(Q, M, i), Stop, E, S, C)
            T == {i \in Nat : Good(i)}
<1>1. 0 \in T
  <2>1. Below(Q, M, 0) = {}
    BY DEF Below
  <2>2. [q \in {} |-> 0] \in [{} -> V]
    OBVIOUS
  <2>3. Solves([q \in {} |-> 0], {}, Stop, E, S, C)
    BY DEF Solves
  <2>. QED
    BY <2>1, <2>2, <2>3
<1>2. ASSUME NEW i \in Nat, i \in T PROVE i + 1 \in T
  <2>. DEFINE D == Below(Q, M, i)
              B == Below(Q, M, i + 1)
  <2>1. PICK f \in [D -> V] : Solves(f, D, Stop, E, S, C)
    BY <1>2
  <2>. DEFINE h == [q \in B |-> IF q \in Stop THEN E[q] ELSE C[<<q, f[S[q]]>>]]
  <2>2. \A q \in B : q \in Q /\ M[q] < i + 1
    BY DEF Below
  <2>3. \A q \in B : q \notin Stop => S[q] \in D /\ S[q] \in B
    <3>. SUFFICES ASSUME NEW q \in B, q \notin Stop PROVE S[q] \in D /\ S[q] \in B
      OBVIOUS
    <3>1. S[q] \in Q /\ M[S[q]] < M[q] /\ M[q] < i + 1 /\ q \in Q
      BY <2>2 DEF Descends
    <3>2. M[S[q]] < i /\ M[S[q]] < i + 1
      BY <3>1
    <3>. QED
      BY <3>1, <3>2 DEF Below
  <2>4. h \in [B -> V]
    <3>1. ASSUME NEW q \in B PROVE (IF q \in Stop THEN E[q] ELSE C[<<q, f[S[q]]>>]) \in V
      <4>1. CASE q \in Stop
        BY <2>2, <4>1
      <4>2. CASE q \notin Stop
        BY <2>1, <2>2, <2>3, <4>2
      <4>. QED
        BY <4>1, <4>2
    <3>. QED
      BY <3>1
  <2>5. \A q \in D : q \in B /\ h[q] = f[q]
    <3>. SUFFICES ASSUME NEW q \in D PROVE q \in B /\ h[q] = f[q]
      OBVIOUS
    <3>1. q \in B
      BY DEF Below
    <3>2. h[q] = IF q \in Stop THEN E[q] ELSE C[<<q, f[S[q]]>>]
      BY <3>1
    <3>. HIDE DEF h
    <3>. QED
      BY <2>1, <3>1, <3>2 DEF Solves
  <2>6. Solves(h, B, Stop, E, S, C)
    <3>. SUFFICES ASSUME NEW q \in B
                  PROVE  /\ q \in Stop => h[q] = E[q]
                         /\ q \notin Stop => h[q] = C[<<q, h[S[q]]>>]
      BY DEF Solves
    <3>1. h[q] = IF q \in Stop THEN E[q] ELSE C[<<q, f[S[q]]>>]
      OBVIOUS
    <3>. HIDE DEF h
    <3>. QED
      BY <2>3, <2>5, <3>1
  <2>. HIDE DEF h, B, D
  <2>. QED
    BY <2>4, <2>6 DEF B
<1>3. Nat \subseteq T
  <2>. HIDE DEF T
  <2>. QED
    BY <1>1, <1>2, SetInduction
<1>4. n \in T
  BY <1>3
<1>. QED
  BY <1>4

LEMMA Recursion ==
  ASSUME NEW Q, NEW M \in [Q -> Nat], NEW V, NEW Stop, NEW E, NEW S, NEW C, Descends(Q, M, Stop, S),
         \A q \in Q : q \in Stop => E[q] \in V,
         \A q \in Q, v \in V : q \notin Stop => C[<<q, v>>] \in V
  PROVE  \E h \in [Q -> V] : Solves(h, Q, Stop, E, S, C)
<1>. DEFINE Sol(n) == {f \in [Below(Q, M, n) -> V] : Solves(f, Below(Q, M, n), Stop, E, S, C)}
            g(n) == CHOOSE f : f \in Sol(n)
            h == [q \in Q |-> g(M[q] + 1)[q]]
<1>1. ASSUME NEW n \in Nat PROVE g(n) \in Sol(n)
  <2>1. \E f : f \in Sol(n)
    BY SolutionsExist
  <2>. QED
    BY <2>1
<1>2. ASSUME NEW n \in Nat
      PROVE  /\ g(n) \in [Below(Q, M, n) -> V]
             /\ Solves(g(n), Below(Q, M, n), Stop, E, S, C)
  BY <1>1
<1>. HIDE DEF g
<1>3. \A q \in Q : M[q] \in Nat /\ M[q] + 1 \in Nat /\ q \in Below(Q, M, M[q] + 1)
  BY DEF Below
<1>4. h \in [Q -> V]
  <2>1. ASSUME NEW q \in Q PROVE g(M[q] + 1)[q] \in V
    BY <1>2, <1>3
  <2>. QED
    BY <2>1
<1>5. Solves(h, Q, Stop, E, S, C)
  <2>. SUFFICES ASSUME NEW q \in Q
                PROVE  /\ q \in Stop => h[q] = E[q]
                       /\ q \notin Stop => h[q] = C[<<q, h[S[q]]>>]
    BY DEF Solves
  <2>. DEFINE f == g(M[q] + 1)
  <2>1. h[q] = f[q] /\ Solves(f, Below(Q, M, M[q] + 1), Stop, E, S, C) /\ q \in Below(Q, M, M[q] + 1)
    BY <1>2, <1>3
  <2>2. CASE q \in Stop
    <3>. HIDE DEF h, f
    <3>. QED
      BY <2>1, <2>2 DEF Solves
  <2>3. CASE q \notin Stop
    <3>. DEFINE p == S[q]
    <3>1. p \in Q /\ M[p] < M[q]
      BY <2>3 DEF Descends
    <3>2. h[p] = g(M[p] + 1)[p]
      BY <3>1
    <3>3. Solves(g(M[p] + 1), Below(Q, M, M[p] + 1), Stop, E, S, C) /\ M[p] + 1 \in Nat /\ M[q] + 1 \in Nat
      BY <1>2, <1>3, <3>1
    <3>. HIDE DEF f
    <3>4. M[p] < M[p] + 1 /\ M[p] < M[q] + 1
      BY <1>3, <3>1
    <3>. DEFINE e == g(M[p] + 1)
                n == M[q] + 1
                k == M[p] + 1
    <3>5. f[p] = e[p]
      <4>1. n \in Nat /\ k \in Nat /\ M[p] < n /\ M[p] < k
        BY <3>3, <3>4
      <4>2. Solves(f, Below(Q, M, n), Stop, E, S, C) /\ Solves(e, Below(Q, M, k), Stop, E, S, C)
        BY <2>1, <3>3
      <4>. HIDE DEF e, n, k, p
      <4>3. \A r \in Q : M[r] < n /\ M[r] < k => f[r] = e[r]
        BY <4>1, <4>2, SolutionsAgree
      <4>. QED
        BY <3>1, <4>1, <4>3
    <3>6. f[q] = C[<<q, f[p]>>]
      BY <2>1, <2>3 DEF Solves
    <3>. HIDE DEF h
    <3>. QED
      BY <2>1, <2>3, <3>2, <3>5, <3>6 DEF e, p
  <2>. QED
    BY <2>2, <2>3
<1>. QED
  BY <1>4, <1>5

-----------------------------------------------------------------------------
(* The walk over a name.                                                     *)

(* Where a walk over a message may end.                                      *)
Ends(dns) == {w \in [status : {"OK", "TRUNCATED", "MALFORMED"}, at : Nat] : w.at <= Len(dns)}

GoesOn(dns, p) ==
  LET c == p.at
      b == At(dns, c)
  IN  /\ c < Len(dns)
      /\ b >= 192 => /\ Len(dns) - c >= 2
                     /\ Target(dns, c) < Len(dns) /\ Target(dns, c) \notin p.visited
                     /\ Cardinality(p.visited) # 128
      /\ b < 192 => b > 0 /\ b < 64 /\ b <= Len(dns) - (c + 1) /\ p.length <= 255 - (b + 1)

(* How many places have not been a target, and how many bytes are ahead.     *)
Ahead(dns, p) ==
  Cardinality((0..Len(dns) - 1) \ p.visited) * (Len(dns) + 1)
    + (IF p.at <= Len(dns) THEN Len(dns) - p.at ELSE 0)

LEMMA PlaceFields ==
  ASSUME NEW p \in NamePlaces
  PROVE  p.at \in Nat /\ p.length \in 0..255 /\ p.visited \in SUBSET Nat
BY DEF NamePlaces

LEMMA NameAtPlace ==
  ASSUME NEW at \in Nat, NEW length \in 0..255, NEW visited \in SUBSET Nat
  PROVE  /\ NameAt(at, length, visited) \in NamePlaces
         /\ NameAt(at, length, visited).at = at
         /\ NameAt(at, length, visited).length = length
         /\ NameAt(at, length, visited).visited = visited
BY DEF NameAt, NamePlaces

LEMMA NextNamePlace ==
  ASSUME NEW dns \in Seq(Byte), NEW p \in NamePlaces, GoesOn(dns, p)
  PROVE  NextName(dns, p) \in NamePlaces
<1>. DEFINE c == p.at
            b == At(dns, c)
            t == Target(dns, c)
<1>1. /\ c \in Nat /\ p.length \in 0..255 /\ p.visited \in SUBSET Nat /\ c < Len(dns) /\ Len(dns) \in Nat
  BY PlaceFields DEF GoesOn
<1>2. b \in Nat /\ b <= 255
  BY <1>1, AtByte, ByteRange
<1>3. CASE b >= 192
  <2>1. c + 1 < Len(dns) /\ c + 1 \in Nat
    BY <1>1, <1>3 DEF GoesOn
  <2>2. At(dns, c + 1) \in Nat
    BY <2>1, AtByte, ByteRange
  <2>3. t \in Nat
    BY <1>2, <1>3, <2>2 DEF Target
  <2>. HIDE DEF t
  <2>4. p.visited \cup {t} \in SUBSET Nat
    BY <1>1, <2>3
  <2>5. NextName(dns, p) = NameAt(t, p.length, p.visited \cup {t})
    BY <1>3 DEF NextName, t
  <2>. DEFINE seen == p.visited \cup {t}
              length == p.length
  <2>6. seen \in SUBSET Nat /\ length \in 0..255 /\ NextName(dns, p) = NameAt(t, length, seen)
    BY <1>1, <2>4, <2>5
  <2>. HIDE DEF seen, length
  <2>7. NameAt(t, length, seen) \in NamePlaces
    BY <2>3, <2>6, NameAtPlace
  <2>. QED
    BY <2>6, <2>7
<1>4. CASE b < 192
  <2>. DEFINE length == p.length
              seen == p.visited
              at == c + 1 + b
              more == length + b + 1
  <2>1. b < 64 /\ length <= 255 - (b + 1)
    BY <1>4 DEF GoesOn
  <2>2. at \in Nat /\ more \in 0..255 /\ seen \in SUBSET Nat
    <3>1. c \in Nat /\ length \in 0..255 /\ p.visited \in SUBSET Nat
      BY <1>1
    <3>. HIDE DEF b, c, length
    <3>. QED
      BY <1>2, <2>1, <3>1
  <2>3. NextName(dns, p) = NameAt(c + 1 + b, p.length + b + 1, p.visited)
    <3>1. ~(b >= 192)
      BY <1>2, <1>4
    <3>. QED
      BY <3>1 DEF NextName
  <2>4. NextName(dns, p) = NameAt(at, more, seen)
    BY <2>3
  <2>. HIDE DEF at, more, seen
  <2>5. NameAt(at, more, seen) \in NamePlaces
    BY <2>2, NameAtPlace
  <2>. QED
    BY <2>4, <2>5
<1>. QED
  BY <1>2, <1>3, <1>4

LEMMA AheadNat ==
  ASSUME NEW dns \in Seq(Byte), NEW p \in NamePlaces
  PROVE  Ahead(dns, p) \in Nat
<1>. DEFINE U == (0..Len(dns) - 1) \ p.visited
<1>1. Len(dns) \in Nat /\ p.at \in Nat
  BY PlaceFields
<1>2. IsFiniteSet(0..Len(dns) - 1)
  BY <1>1, FS_Interval
<1>3. Cardinality(U) \in Nat
  BY <1>2, FS_Subset, FS_CardinalityType
<1>4. Cardinality(U) * (Len(dns) + 1) \in Nat
  BY <1>1, <1>3
<1>. HIDE DEF U
<1>5. (IF p.at <= Len(dns) THEN Len(dns) - p.at ELSE 0) \in Nat
  BY <1>1
<1>. QED
  BY <1>4, <1>5 DEF Ahead, U

LEMMA RowsBefore ==
  ASSUME NEW k \in Nat, NEW m \in Nat, k + 1 <= m, NEW n \in Nat, NEW a \in Nat, a <= n, NEW b \in Nat
  PROVE  k * (n + 1) + a < m * (n + 1) + b
<1>1. PICK d \in Nat : m = k + 1 + d
  <2>1. m - (k + 1) \in Nat /\ m = k + 1 + (m - (k + 1))
    OBVIOUS
  <2>. QED
    BY <2>1
<1>. DEFINE w == n + 1
<1>2. w \in Nat /\ a < w
  OBVIOUS
<1>. HIDE DEF w
<1>3. m * w = k * w + w + d * w
  BY <1>1, <1>2
<1>4. k * w \in Nat /\ d * w \in Nat
  BY <1>1, <1>2
<1>5. k * w + a < m * w + b
  BY <1>2, <1>3, <1>4
<1>. QED
  BY <1>5 DEF w

LEMMA AheadLess ==
  ASSUME NEW dns \in Seq(Byte), NEW p \in NamePlaces, GoesOn(dns, p)
  PROVE  Ahead(dns, NextName(dns, p)) < Ahead(dns, p)
<1>. DEFINE L == Len(dns)
            c == p.at
            b == At(dns, c)
            t == Target(dns, c)
            r == NextName(dns, p)
            U == (0..L - 1) \ p.visited
            rest == Cardinality(U) * (L + 1)
<1>1. L \in Nat /\ c \in Nat /\ c < L /\ p.length \in 0..255 /\ p.visited \in SUBSET Nat
  BY PlaceFields DEF GoesOn
<1>2. b \in Nat /\ b <= 255
  BY <1>1, AtByte, ByteRange
<1>3. IsFiniteSet(U)
  <2>1. L - 1 \in Int
    BY <1>1
  <2>2. IsFiniteSet(0..L - 1)
    BY <2>1, FS_Interval
  <2>3. U \in SUBSET (0..L - 1)
    OBVIOUS
  <2>. HIDE DEF U, L
  <2>. QED
    BY <2>2, <2>3, FS_Subset
<1>4. Cardinality(U) \in Nat
  BY <1>3, FS_CardinalityType
<1>5. Ahead(dns, p) = rest + (L - c)
  BY <1>1 DEF Ahead
<1>6. CASE b >= 192
  <2>1. c + 1 < L /\ c + 1 \in Nat /\ t < L /\ t \notin p.visited
    BY <1>1, <1>6 DEF GoesOn
  <2>2. At(dns, c + 1) \in Nat
    BY <2>1, AtByte, ByteRange
  <2>3. t \in Nat
    BY <1>2, <1>6, <2>2 DEF Target
  <2>. DEFINE seen == p.visited \cup {t}
              length == p.length
              W == (0..L - 1) \ seen
  <2>4. r = NameAt(t, length, seen)
    BY <1>6 DEF NextName
  <2>. HIDE DEF t, r
  <2>5. seen \in SUBSET Nat /\ length \in 0..255
    BY <1>1, <2>3
  <2>6. r.at = t /\ r.visited = seen
    <3>. HIDE DEF seen, length
    <3>1. NameAt(t, length, seen).at = t /\ NameAt(t, length, seen).visited = seen
      BY DEF NameAt
    <3>. QED
      BY <2>4, <3>1
  <2>7. t \in U /\ W = U \ {t}
    BY <1>1, <2>1, <2>3
  <2>. HIDE DEF U, W, seen
  <2>8. Cardinality(W) = Cardinality(U) - 1
    BY <1>3, <2>7, FS_RemoveElement
  <2>9. Cardinality(W) \in Nat
    BY <1>3, <2>7, FS_RemoveElement, FS_CardinalityType
  <2>10. Ahead(dns, r) = Cardinality(W) * (L + 1) + (L - t)
    BY <1>1, <2>1, <2>3, <2>6 DEF Ahead, W
  <2>. DEFINE k == Cardinality(W)
              m == Cardinality(U)
              x == L - t
              y == L - c
  <2>11. k \in Nat /\ m \in Nat /\ k + 1 <= m /\ x \in Nat /\ x <= L /\ y \in Nat /\ L \in Nat
    BY <1>1, <1>4, <2>1, <2>3, <2>8, <2>9
  <2>12. k * (L + 1) + x < m * (L + 1) + y
    <3>. HIDE DEF k, m, x, y, L
    <3>. QED
      BY <2>11, RowsBefore
  <2>. QED
    BY <1>5, <2>10, <2>12 DEF r
<1>7. CASE b < 192
  <2>. DEFINE length == p.length
              seen == p.visited
              at == c + 1 + b
              more == length + b + 1
  <2>1. b < 64 /\ length <= 255 - (b + 1) /\ b <= L - (c + 1)
    BY <1>7 DEF GoesOn
  <2>2. at \in Nat /\ more \in 0..255 /\ seen \in SUBSET Nat /\ c < at /\ at <= L
    <3>1. c \in Nat /\ length \in 0..255 /\ p.visited \in SUBSET Nat /\ L \in Nat
      BY <1>1
    <3>. HIDE DEF b, c, length, L
    <3>. QED
      BY <1>2, <2>1, <3>1
  <2>3. r = NameAt(at, more, seen)
    <3>1. ~(b >= 192)
      BY <1>2, <1>7
    <3>. QED
      BY <3>1 DEF NextName
  <2>. HIDE DEF at, more, r
  <2>4. r.at = at /\ r.visited = seen
    <3>. HIDE DEF seen
    <3>1. NameAt(at, more, seen).at = at /\ NameAt(at, more, seen).visited = seen
      BY DEF NameAt
    <3>. QED
      BY <2>3, <3>1
  <2>5. Ahead(dns, r) = rest + (L - at)
    BY <2>2, <2>4 DEF Ahead
  <2>6. rest \in Nat
    BY <1>1, <1>4
  <2>. HIDE DEF rest, L, c
  <2>7. rest + (L - at) < rest + (L - c)
    BY <1>1, <2>2, <2>6
  <2>. QED
    BY <1>5, <2>5, <2>7 DEF r
<1>. QED
  BY <1>2, <1>6, <1>7

LEMMA EndsWalked ==
  ASSUME NEW dns \in Seq(Byte), NEW status \in {"OK", "TRUNCATED", "MALFORMED"},
         NEW at \in Nat, at <= Len(dns)
  PROVE  /\ Walked(status, at) \in Ends(dns)
         /\ Walked(status, at).status = status
         /\ Walked(status, at).at = at
BY DEF Walked, Ends

LEMMA NameTurnEnds ==
  ASSUME NEW dns \in Seq(Byte), NEW p \in NamePlaces, NEW v
  PROVE  /\ GoesOn(dns, p) /\ v \in Ends(dns) => NameTurn(dns, p, v) \in Ends(dns)
         /\ ~GoesOn(dns, p) => /\ NameTurn(dns, p, v) \in Ends(dns)
                               /\ \A w : NameTurn(dns, p, w) = NameTurn(dns, p, v)
<1>. DEFINE L == Len(dns)
            c == p.at
            b == At(dns, c)
            far == \/ Target(dns, c) >= L \/ Target(dns, c) \in p.visited
                   \/ Cardinality(p.visited) = 128
            length == p.length
            x(w) == NameTurn(dns, p, w)
<1>1. L \in Nat /\ c \in Nat /\ length \in 0..255
  BY PlaceFields
<1>2. c < L => b \in Nat /\ b <= 255
  BY <1>1, AtByte, ByteRange
<1>3. \A w : x(w) =
        IF c >= L THEN Walked("TRUNCATED", L)
        ELSE IF b >= 192 /\ L - c < 2 THEN Walked("TRUNCATED", L)
        ELSE IF b >= 192
          THEN IF far THEN Walked("MALFORMED", c + 2)
               ELSE IF w.status # "OK" THEN w ELSE Walked("OK", c + 2)
        ELSE IF b >= 64 THEN Walked("MALFORMED", c + 1)
        ELSE IF b = 0
          THEN IF length + 1 > 255 THEN Walked("MALFORMED", c + 1) ELSE Walked("OK", c + 1)
        ELSE IF b > L - (c + 1) THEN Walked("TRUNCATED", c + 1)
        ELSE IF length > 255 - (b + 1) THEN Walked("MALFORMED", c + 1)
        ELSE w
  BY DEF NameTurn
<1>4. GoesOn(dns, p) <=> /\ c < L
                         /\ b >= 192 => L - c >= 2 /\ ~far
                         /\ b < 192 => b > 0 /\ b < 64 /\ b <= L - (c + 1) /\ length <= 255 - (b + 1)
  <2>1. c < L /\ b >= 192 => (L - c >= 2 /\ Target(dns, c) < L <=> L - c >= 2 /\ ~(Target(dns, c) >= L))
    <3>. SUFFICES ASSUME c < L, b >= 192, L - c >= 2 PROVE Target(dns, c) \in Nat
      BY <1>1
    <3>1. c + 1 \in Nat /\ c + 1 < L
      BY <1>1
    <3>2. At(dns, c + 1) \in Nat
      BY <3>1, AtByte, ByteRange
    <3>. QED
      BY <1>2, <3>2 DEF Target
  <2>. DEFINE t == Target(dns, c)
              size == Cardinality(p.visited)
  <2>2. GoesOn(dns, p) <=> /\ c < L
                           /\ b >= 192 => L - c >= 2 /\ t < L /\ t \notin p.visited /\ size # 128
                           /\ b < 192 => b > 0 /\ b < 64 /\ b <= L - (c + 1) /\ length <= 255 - (b + 1)
    BY DEF GoesOn
  <2>3. far <=> t >= L \/ t \in p.visited \/ size = 128
    OBVIOUS
  <2>. HIDE DEF t, size, far, b, c, L, length
  <2>. QED
    BY <2>1, <2>2, <2>3 DEF t
<1>5. \A status \in {"OK", "TRUNCATED", "MALFORMED"} : \A at \in Nat :
        at <= L => Walked(status, at) \in Ends(dns)
  BY EndsWalked
<1>. DEFINE G == GoesOn(dns, p)
            X == Ends(dns)
<1>. HIDE DEF L, c, b, far, length, x, G, X
<1>6. ASSUME ~G
      PROVE  x(v) \in X /\ \A w : x(w) = x(v)
  BY <1>1, <1>2, <1>3, <1>4, <1>5, <1>6 DEF G, X
<1>7. ASSUME G, v \in X
      PROVE  x(v) \in X
  BY <1>1, <1>2, <1>3, <1>4, <1>5, <1>7 DEF G, X
<1>. QED
  BY <1>6, <1>7 DEF G, X, x

(* The walk as a function of the place.                                      *)
NameWalk(dns) ==
  CHOOSE walk : walk = [p \in NamePlaces |-> NameTurn(dns, p, walk[NextName(dns, p)])]

LEMMA NameWalkTurns ==
  ASSUME NEW dns \in Seq(Byte), NEW p \in NamePlaces
  PROVE  /\ NameWalk(dns)[p] = NameTurn(dns, p, NameWalk(dns)[NextName(dns, p)])
         /\ NameWalk(dns)[p] \in Ends(dns)
<1>. DEFINE Q == NamePlaces
            V == Ends(dns)
            Stop == {q \in Q : ~GoesOn(dns, q)}
            M == [q \in Q |-> Ahead(dns, q)]
            S == [q \in Q |-> NextName(dns, q)]
            E == [q \in Q |-> NameTurn(dns, q, 0)]
            C == [z \in Q \X V |-> NameTurn(dns, z[1], z[2])]
            Is(f) == f = [q \in Q |-> NameTurn(dns, q, f[NextName(dns, q)])]
            walk == CHOOSE f : Is(f)
<1>1. M \in [Q -> Nat]
  BY AheadNat
<1>2. Descends(Q, M, Stop, S)
  BY AheadLess, NextNamePlace DEF Descends
<1>3. \A q \in Q : q \in Stop => E[q] \in V
  BY NameTurnEnds
<1>4. \A q \in Q, v \in V : q \notin Stop => C[<<q, v>>] = NameTurn(dns, q, v) /\ C[<<q, v>>] \in V
  BY NameTurnEnds
<1>5. \E f : Is(f)
  <2>1. PICK h \in [Q -> V] : Solves(h, Q, Stop, E, S, C)
    <3>. HIDE DEF Q, V, Stop, M, S, E, C
    <3>. QED
      BY <1>1, <1>2, <1>3, <1>4, Recursion
  <2>2. ASSUME NEW q \in Q PROVE h[q] = NameTurn(dns, q, h[NextName(dns, q)])
    <3>1. CASE GoesOn(dns, q)
      <4>1. q \notin Stop /\ S[q] = NextName(dns, q) /\ S[q] \in Q
        BY <3>1, NextNamePlace
      <4>2. h[S[q]] \in V
        BY <2>1, <4>1
      <4>3. h[q] = C[<<q, h[S[q]]>>]
        BY <2>1, <4>1 DEF Solves
      <4>. QED
        BY <1>4, <4>1, <4>2, <4>3
    <3>2. CASE ~GoesOn(dns, q)
      <4>1. q \in Stop
        BY <3>2
      <4>2. h[q] = NameTurn(dns, q, 0)
        BY <2>1, <4>1 DEF Solves
      <4>. QED
        BY <3>2, <4>2, NameTurnEnds
    <3>. QED
      BY <3>1, <3>2
  <2>3. Is(h)
    BY <2>1, <2>2
  <2>. QED
    BY <2>3
<1>6. Is(walk) /\ walk = NameWalk(dns)
  <2>1. Is(walk)
    <3>. HIDE DEF Is
    <3>. QED
      BY <1>5
  <2>. QED
    BY <2>1 DEF NameWalk
<1>7. \A q \in Q : walk[q] = NameTurn(dns, q, walk[NextName(dns, q)])
  <2>. HIDE DEF walk
  <2>. QED
    BY <1>6
<1>. HIDE DEF walk
<1>8. ASSUME NEW q \in Q, GoesOn(dns, q), walk[NextName(dns, q)] \in V
      PROVE  walk[q] \in V
  BY <1>7, <1>8, NameTurnEnds
<1>. DEFINE T == {n \in Nat : \A q \in Q : M[q] < n => walk[q] \in V}
<1>9. 0 \in T
  BY <1>1
<1>10. ASSUME NEW n \in Nat, n \in T PROVE n + 1 \in T
  <2>. SUFFICES ASSUME NEW q \in Q, M[q] < n + 1 PROVE walk[q] \in V
    OBVIOUS
  <2>1. CASE GoesOn(dns, q)
    <3>1. q \notin Stop /\ S[q] = NextName(dns, q)
      BY <2>1
    <3>2. S[q] \in Q /\ M[S[q]] < M[q]
      BY <1>2, <3>1 DEF Descends
    <3>3. M[S[q]] \in Nat /\ M[q] \in Nat
      BY <1>1, <3>2
    <3>4. M[S[q]] < n
      BY <3>2, <3>3
    <3>5. walk[S[q]] \in V
      BY <1>10, <3>2, <3>4
    <3>. QED
      BY <1>8, <2>1, <3>1, <3>5
  <2>2. CASE ~GoesOn(dns, q)
    BY <1>7, <2>2, NameTurnEnds
  <2>. QED
    BY <2>1, <2>2
<1>11. Nat \subseteq T
  <2>. HIDE DEF T
  <2>. QED
    BY <1>9, <1>10, SetInduction
<1>12. walk[p] \in V
  <2>1. M[p] \in Nat
    BY <1>1
  <2>2. M[p] + 1 \in T /\ M[p] < M[p] + 1
    BY <1>11, <2>1
  <2>. QED
    BY <2>2
<1>. QED
  BY <1>6, <1>7, <1>12

LEMMA NameWalked ==
  ASSUME NEW dns \in Seq(Byte), NEW offset \in Nat
  PROVE  /\ WalkName(dns, offset) = NameWalk(dns)[NameAt(offset, 0, {})]
         /\ WalkName(dns, offset) \in Ends(dns)
<1>1. NameAt(offset, 0, {}) \in NamePlaces
  <2>1. 0 \in 0..255 /\ {} \in SUBSET Nat
    OBVIOUS
  <2>. QED
    BY <2>1, NameAtPlace
<1>2. WalkName(dns, offset) = NameWalk(dns)[NameAt(offset, 0, {})]
  BY DEF WalkName, NameWalk
<1>. QED
  BY <1>1, <1>2, NameWalkTurns

-----------------------------------------------------------------------------
(* Lesson 09's decoder and lesson 12's walk.                                 *)

(* The same outcome, or a text that only lesson 09 measures and finds too    *)
(* long, in a name that lesson 12 does not accept either.                    *)
NearlySame(x, y) == x = y \/ (x.status = "MALFORMED" /\ y.status # "OK")

LEMMA TextTurnCases ==
  ASSUME NEW dns \in Seq(Byte), NEW p \in NamePlaces, NEW v
  PROVE  /\ p.length > 254 => TextTurn(dns, p, v) = Walked("MALFORMED", Len(dns))
         /\ ~(p.length > 254) => TextTurn(dns, p, v) = NameTurn(dns, p, v)
         /\ Walked("MALFORMED", Len(dns)) \in Ends(dns)
         /\ Walked("MALFORMED", Len(dns)).status = "MALFORMED"
<1>. DEFINE L == Len(dns)
            long == Walked("MALFORMED", L)
            x == NameTurn(dns, p, v)
            y == TextTurn(dns, p, v)
            length == p.length
<1>1. length \in Nat /\ L \in Nat /\ L <= L
  <2>1. length \in 0..255
    BY PlaceFields
  <2>. HIDE DEF length
  <2>. QED
    BY <2>1
<1>2. y = IF length > 253 + 1 THEN long ELSE x
  BY DEF TextTurn
<1>3. long \in Ends(dns) /\ long.status = "MALFORMED"
  BY <1>1, EndsWalked
<1>. HIDE DEF long, x, y, length
<1>4. (length > 254 => y = long) /\ (~(length > 254) => y = x)
  BY <1>1, <1>2
<1>. QED
  BY <1>3, <1>4 DEF long, x, y, length

(* What fails further on fails here, and a text too long stays too long.     *)
LEMMA NameTurnFails ==
  ASSUME NEW dns \in Seq(Byte), NEW p \in NamePlaces, NEW v
  PROVE  /\ GoesOn(dns, p) /\ v.status # "OK" => NameTurn(dns, p, v) = v
         /\ p.length > 254 /\ GoesOn(dns, p) => NextName(dns, p).length > 254
         /\ p.length > 254 /\ ~GoesOn(dns, p) => NameTurn(dns, p, v).status # "OK"
<1>. DEFINE L == Len(dns)
            c == p.at
            b == At(dns, c)
            t == Target(dns, c)
            size == Cardinality(p.visited)
            far == t >= L \/ t \in p.visited \/ size = 128
            length == p.length
            x == NameTurn(dns, p, v)
            y == NextName(dns, p)
            G == GoesOn(dns, p)
            cut == Walked("TRUNCATED", L)
            late == Walked("TRUNCATED", c + 1)
            bad == Walked("MALFORMED", c + 2)
            wrong == Walked("MALFORMED", c + 1)
            jump == Walked("OK", c + 2)
            root == Walked("OK", c + 1)
<1>1. L \in Nat /\ c \in Nat /\ length \in 0..255
  BY PlaceFields
<1>2. c < L => b \in Nat /\ b <= 255
  BY <1>1, AtByte, ByteRange
<1>3. x = IF c >= L THEN cut
          ELSE IF b >= 192 /\ L - c < 2 THEN cut
          ELSE IF b >= 192 THEN IF far THEN bad ELSE IF v.status # "OK" THEN v ELSE jump
          ELSE IF b >= 64 THEN wrong
          ELSE IF b = 0 THEN IF length + 1 > 255 THEN wrong ELSE root
          ELSE IF b > L - (c + 1) THEN late
          ELSE IF length > 255 - (b + 1) THEN wrong
          ELSE v
  BY DEF NameTurn
<1>4. b >= 192 => y.length = length
  <2>. DEFINE seen == p.visited \cup {t}
  <2>1. b >= 192 => y = NameAt(t, length, seen)
    BY DEF NextName
  <2>. HIDE DEF t, seen, length, y, b
  <2>2. NameAt(t, length, seen).length = length
    BY DEF NameAt
  <2>. QED
    BY <2>1, <2>2
<1>5. cut.status = "TRUNCATED" /\ late.status = "TRUNCATED" /\ bad.status = "MALFORMED" /\ wrong.status = "MALFORMED"
  BY DEF Walked
<1>6. b >= 192 /\ c < L => t \in Nat \/ L - c < 2
  <2>. SUFFICES ASSUME b >= 192, c < L, ~(L - c < 2) PROVE t \in Nat
    OBVIOUS
  <2>1. c + 1 \in Nat /\ c + 1 < L
    BY <1>1
  <2>2. At(dns, c + 1) \in Nat
    BY <2>1, AtByte, ByteRange
  <2>. QED
    BY <1>2, <2>2 DEF Target
<1>7. G <=> /\ c < L
            /\ b >= 192 => L - c >= 2 /\ t < L /\ t \notin p.visited /\ size # 128
            /\ b < 192 => b > 0 /\ b < 64 /\ b <= L - (c + 1) /\ length <= 255 - (b + 1)
  BY DEF GoesOn
<1>8. far <=> t >= L \/ t \in p.visited \/ size = 128
  OBVIOUS
<1>. HIDE DEF L, c, b, t, size, far, length, x, y, G, cut, late, bad, wrong, jump, root
<1>9. G => c < L /\ ~(c >= L) /\ ~(b >= 192 /\ L - c < 2) /\ (b >= 192 => ~far)
  BY <1>1, <1>2, <1>6, <1>7, <1>8
<1>10. G /\ ~(b >= 192) => ~(b >= 64) /\ b # 0 /\ ~(b > L - (c + 1)) /\ ~(length > 255 - (b + 1))
  BY <1>1, <1>2, <1>7
<1>11. G /\ v.status # "OK" => x = v
  BY <1>3, <1>9, <1>10
<1>12. length > 254 /\ G => b >= 192
  BY <1>1, <1>2, <1>7
<1>13. length > 254 /\ G => y.length > 254
  BY <1>4, <1>12
<1>14. ASSUME length > 254, ~G PROVE x.status # "OK"
  <2>1. CASE c >= L
    BY <1>3, <1>5, <2>1
  <2>2. CASE ~(c >= L) /\ b >= 192
    <3>1. L - c < 2 \/ far
      BY <1>1, <1>2, <1>6, <1>7, <1>8, <1>14, <2>2
    <3>. QED
      BY <1>3, <1>5, <2>2, <3>1
  <2>3. CASE ~(c >= L) /\ ~(b >= 192)
    <3>1. b = 0 => length + 1 > 255
      BY <1>1, <1>14
    <3>2. b # 0 => length > 255 - (b + 1)
      BY <1>1, <1>2, <1>14, <2>3
    <3>3. x = wrong \/ x = late
      BY <1>3, <2>3, <3>1, <3>2
    <3>. QED
      BY <1>5, <3>3
  <2>. QED
    BY <2>1, <2>2, <2>3
<1>. QED
  BY <1>11, <1>13, <1>14 DEF x, y, G, length

DecodeWalk(dns) ==
  CHOOSE walk : walk = [p \in NamePlaces |-> TextTurn(dns, p, walk[NextName(dns, p)])]

LEMMA DecodeWalkTurns ==
  ASSUME NEW dns \in Seq(Byte), NEW p \in NamePlaces
  PROVE  DecodeWalk(dns)[p] = TextTurn(dns, p, DecodeWalk(dns)[NextName(dns, p)])
<1>. DEFINE Q == NamePlaces
            V == Ends(dns)
            Stop == {q \in Q : q.length > 254 \/ ~GoesOn(dns, q)}
            M == [q \in Q |-> Ahead(dns, q)]
            S == [q \in Q |-> NextName(dns, q)]
            E == [q \in Q |-> TextTurn(dns, q, 0)]
            C == [z \in Q \X V |-> TextTurn(dns, z[1], z[2])]
            Is(f) == f = [q \in Q |-> TextTurn(dns, q, f[NextName(dns, q)])]
            walk == CHOOSE f : Is(f)
<1>1. M \in [Q -> Nat]
  BY AheadNat
<1>2. Descends(Q, M, Stop, S)
  BY AheadLess, NextNamePlace DEF Descends
<1>3. \A q \in Q : q \in Stop => E[q] \in V /\ \A w : TextTurn(dns, q, w) = E[q]
  <2>. SUFFICES ASSUME NEW q \in Q, q \in Stop
                PROVE  E[q] \in V /\ \A w : TextTurn(dns, q, w) = E[q]
    OBVIOUS
  <2>1. E[q] = TextTurn(dns, q, 0)
    OBVIOUS
  <2>2. CASE q.length > 254
    BY <2>1, <2>2, TextTurnCases
  <2>3. CASE ~(q.length > 254)
    <3>1. ~GoesOn(dns, q)
      BY <2>3
    <3>2. \A w : TextTurn(dns, q, w) = NameTurn(dns, q, w)
      BY <2>3, TextTurnCases
    <3>3. NameTurn(dns, q, 0) \in V /\ \A w : NameTurn(dns, q, w) = NameTurn(dns, q, 0)
      BY <3>1, NameTurnEnds
    <3>. HIDE DEF E, V
    <3>. QED
      BY <2>1, <3>2, <3>3
  <2>. QED
    BY <2>2, <2>3
<1>4. \A q \in Q, v \in V : q \notin Stop => C[<<q, v>>] = TextTurn(dns, q, v) /\ C[<<q, v>>] \in V
  <2>. SUFFICES ASSUME NEW q \in Q, NEW v \in V, q \notin Stop
                PROVE  C[<<q, v>>] = TextTurn(dns, q, v) /\ C[<<q, v>>] \in V
    OBVIOUS
  <2>1. C[<<q, v>>] = TextTurn(dns, q, v)
    OBVIOUS
  <2>2. ~(q.length > 254) /\ GoesOn(dns, q)
    OBVIOUS
  <2>3. TextTurn(dns, q, v) = NameTurn(dns, q, v)
    BY <2>2, TextTurnCases
  <2>4. NameTurn(dns, q, v) \in V
    BY <2>2, NameTurnEnds
  <2>. HIDE DEF C, V
  <2>. QED
    BY <2>1, <2>3, <2>4
<1>5. \E f : Is(f)
  <2>1. PICK h \in [Q -> V] : Solves(h, Q, Stop, E, S, C)
    <3>. HIDE DEF Q, V, Stop, M, S, E, C
    <3>. QED
      BY <1>1, <1>2, <1>3, <1>4, Recursion
  <2>2. ASSUME NEW q \in Q PROVE h[q] = TextTurn(dns, q, h[NextName(dns, q)])
    <3>1. CASE q \notin Stop
      <4>1. S[q] = NextName(dns, q) /\ S[q] \in Q
        BY <3>1, NextNamePlace
      <4>2. h[S[q]] \in V
        BY <2>1, <4>1
      <4>3. h[q] = C[<<q, h[S[q]]>>]
        BY <2>1, <3>1 DEF Solves
      <4>. HIDE DEF C, V, Stop, S
      <4>. QED
        BY <1>4, <3>1, <4>1, <4>2, <4>3
    <3>2. CASE q \in Stop
      <4>1. h[q] = E[q]
        BY <2>1, <3>2 DEF Solves
      <4>. HIDE DEF E, Stop, V
      <4>. QED
        BY <1>3, <3>2, <4>1
    <3>. QED
      BY <3>1, <3>2
  <2>3. Is(h)
    BY <2>1, <2>2
  <2>. QED
    BY <2>3
<1>6. Is(walk) /\ walk = DecodeWalk(dns)
  <2>1. Is(walk)
    <3>. HIDE DEF Is
    <3>. QED
      BY <1>5
  <2>. QED
    BY <2>1 DEF DecodeWalk
<1>7. walk[p] = TextTurn(dns, p, walk[NextName(dns, p)])
  <2>. HIDE DEF walk
  <2>. QED
    BY <1>6
<1>. QED
  BY <1>6, <1>7

(* By induction over what is ahead of a place.                               *)
LEMMA WalksAlike ==
  ASSUME NEW dns \in Seq(Byte), NEW p \in NamePlaces
  PROVE  DecodeWalk(dns)[p] \in Ends(dns) /\ NearlySame(DecodeWalk(dns)[p], NameWalk(dns)[p])
<1>. DEFINE Q == NamePlaces
            D(q) == DecodeWalk(dns)[q]
            W(q) == NameWalk(dns)[q]
            X == Ends(dns)
            Holds(q) == /\ D(q) \in X /\ NearlySame(D(q), W(q))
                        /\ q.length > 254 => W(q).status # "OK"
            M == [q \in Q |-> Ahead(dns, q)]
            T == {n \in Nat : \A q \in Q : M[q] < n => Holds(q)}
<1>1. M \in [Q -> Nat]
  BY AheadNat
<1>2. ASSUME NEW q \in Q
      PROVE  /\ D(q) = TextTurn(dns, q, D(NextName(dns, q)))
             /\ W(q) = NameTurn(dns, q, W(NextName(dns, q))) /\ W(q) \in X
  BY DecodeWalkTurns, NameWalkTurns
<1>3. ASSUME NEW q \in Q, GoesOn(dns, q)
      PROVE  NextName(dns, q) \in Q /\ M[NextName(dns, q)] < M[q]
  <2>1. NextName(dns, q) \in Q
    BY <1>3, NextNamePlace
  <2>2. Ahead(dns, NextName(dns, q)) < Ahead(dns, q)
    BY <1>3, AheadLess
  <2>. QED
    BY <2>1, <2>2
<1>4. ASSUME NEW q \in Q, GoesOn(dns, q) => Holds(NextName(dns, q))
      PROVE  Holds(q)
  <2>. DEFINE next == NextName(dns, q)
              d == D(next)
              w == W(next)
              x == NameTurn(dns, q, d)
              y == NameTurn(dns, q, w)
              G == GoesOn(dns, q)
              long == Walked("MALFORMED", Len(dns))
              length == q.length
  <2>1. D(q) = TextTurn(dns, q, d) /\ W(q) = y /\ y \in X
    BY <1>2
  <2>2. /\ length > 254 => D(q) = long
        /\ ~(length > 254) => D(q) = x
        /\ long \in X /\ long.status = "MALFORMED"
    BY <2>1, TextTurnCases
  <2>3. /\ G /\ d.status # "OK" => x = d
        /\ G /\ w.status # "OK" => y = w
        /\ length > 254 /\ G => next.length > 254
        /\ length > 254 /\ ~G => y.status # "OK"
    BY NameTurnFails
  <2>4. /\ G /\ d \in X => x \in X
        /\ ~G => x \in X /\ x = y
    BY NameTurnEnds
  <2>5. G => d \in X /\ NearlySame(d, w) /\ (next.length > 254 => w.status # "OK")
    BY <1>4
  <2>. HIDE DEF next, d, w, x, y, G, long, D, W, X, length
  <2>6. x \in X
    BY <2>4, <2>5
  <2>7. length > 254 => y.status # "OK"
    BY <2>3, <2>5
  <2>8. NearlySame(x, y)
    <3>1. CASE ~G
      BY <2>4, <3>1 DEF NearlySame
    <3>2. CASE G /\ d = w
      BY <3>2 DEF NearlySame, x, y
    <3>3. CASE G /\ d # w
      <4>1. d.status = "MALFORMED" /\ w.status # "OK"
        BY <2>5, <3>3 DEF NearlySame
      <4>2. d.status # "OK"
        BY <4>1
      <4>3. x = d /\ y = w
        BY <2>3, <3>3, <4>1, <4>2
      <4>. QED
        BY <4>1, <4>3 DEF NearlySame
    <3>. QED
      BY <3>1, <3>2, <3>3
  <2>9. CASE length > 254
    BY <2>1, <2>2, <2>7, <2>9 DEF NearlySame, length
  <2>10. CASE ~(length > 254)
    BY <2>1, <2>2, <2>6, <2>8, <2>10 DEF length
  <2>. QED
    BY <2>9, <2>10
<1>. HIDE DEF Holds
<1>5. 0 \in T
  BY <1>1
<1>6. ASSUME NEW n \in Nat, n \in T PROVE n + 1 \in T
  <2>. SUFFICES ASSUME NEW q \in Q, M[q] < n + 1 PROVE Holds(q)
    OBVIOUS
  <2>1. ASSUME GoesOn(dns, q) PROVE Holds(NextName(dns, q))
    <3>1. NextName(dns, q) \in Q /\ M[NextName(dns, q)] < M[q]
      BY <1>3, <2>1
    <3>2. M[NextName(dns, q)] \in Nat /\ M[q] \in Nat
      BY <1>1, <3>1
    <3>. HIDE DEF M
    <3>3. M[NextName(dns, q)] < n
      BY <3>1, <3>2
    <3>. QED
      BY <1>6, <3>1, <3>3
  <2>. QED
    BY <1>4, <2>1
<1>7. Nat \subseteq T
  <2>. HIDE DEF T
  <2>. QED
    BY <1>5, <1>6, SetInduction
<1>8. Holds(p)
  <2>1. M[p] \in Nat
    BY <1>1
  <2>2. M[p] + 1 \in T /\ M[p] < M[p] + 1
    BY <1>7, <2>1
  <2>. QED
    BY <2>2
<1>. QED
  BY <1>8 DEF Holds

LEMMA NamesAlike ==
  ASSUME NEW dns \in Seq(Byte), NEW offset \in Nat
  PROVE  /\ DecodeName(dns, offset) \in Ends(dns)
         /\ NearlySame(DecodeName(dns, offset), WalkName(dns, offset))
<1>1. NameAt(offset, 0, {}) \in NamePlaces
  <2>1. 0 \in 0..255 /\ {} \in SUBSET Nat
    OBVIOUS
  <2>. QED
    BY <2>1, NameAtPlace
<1>2. DecodeName(dns, offset) = DecodeWalk(dns)[NameAt(offset, 0, {})]
  BY DEF DecodeName, DecodeWalk
<1>3. WalkName(dns, offset) = NameWalk(dns)[NameAt(offset, 0, {})]
  BY NameWalked
<1>. QED
  BY <1>1, <1>2, <1>3, WalksAlike

-----------------------------------------------------------------------------
(* Loops over records.                                                       *)

PassTurns(Turn) ==
  CHOOSE pass : pass = [k \in Nat |-> [w \in Walks |->
                          IF k = 0 \/ w.status # "OK" THEN w ELSE pass[k - 1][Turn[w]]]]

LEMMA PassTurned ==
  ASSUME NEW Turn \in [Walks -> Walks], NEW k \in Nat
  PROVE  PassTurns(Turn)[k] = [w \in Walks |-> IF k = 0 \/ w.status # "OK" THEN w
                                              ELSE PassTurns(Turn)[k - 1][Turn[w]]]
<1>. DEFINE V == [Walks -> Walks]
            M == [i \in Nat |-> i]
            S == [i \in Nat |-> i - 1]
            E == [i \in Nat |-> [w \in Walks |-> w]]
            C == [z \in Nat \X V |-> [w \in Walks |-> IF w.status # "OK" THEN w ELSE z[2][Turn[w]]]]
            Is(f) == f = [i \in Nat |-> [w \in Walks |->
                            IF i = 0 \/ w.status # "OK" THEN w ELSE f[i - 1][Turn[w]]]]
            pass == CHOOSE f : Is(f)
<1>1. M \in [Nat -> Nat]
  OBVIOUS
<1>2. Descends(Nat, M, {0}, S)
  BY DEF Descends
<1>3. \A q \in Nat : q \in {0} => E[q] \in V
  OBVIOUS
<1>4. \A q \in Nat, v \in V : q \notin {0} => C[<<q, v>>] \in V
  OBVIOUS
<1>5. \E f : Is(f)
  <2>1. PICK h \in [Nat -> V] : Solves(h, Nat, {0}, E, S, C)
    <3>. HIDE DEF V, M, S, E, C
    <3>. QED
      BY <1>1, <1>2, <1>3, <1>4, Recursion
  <2>2. ASSUME NEW i \in Nat
        PROVE  h[i] = [w \in Walks |-> IF i = 0 \/ w.status # "OK" THEN w ELSE h[i - 1][Turn[w]]]
    <3>1. CASE i = 0
      <4>1. h[i] = [w \in Walks |-> w]
        BY <2>1, <3>1 DEF Solves
      <4>. QED
        BY <3>1, <4>1
    <3>2. CASE i # 0
      <4>1. i - 1 \in Nat /\ h[i - 1] \in V
        BY <2>1, <3>2
      <4>2. h[i] = C[<<i, h[i - 1]>>]
        BY <2>1, <3>2 DEF Solves
      <4>3. C[<<i, h[i - 1]>>] = [w \in Walks |-> IF w.status # "OK" THEN w ELSE h[i - 1][Turn[w]]]
        BY <4>1
      <4>. HIDE DEF C
      <4>. QED
        BY <3>2, <4>2, <4>3
    <3>. QED
      BY <3>1, <3>2
  <2>3. Is(h)
    BY <2>1, <2>2
  <2>. QED
    BY <2>3
<1>6. Is(pass)
  <2>. HIDE DEF Is
  <2>. QED
    BY <1>5
<1>7. pass = PassTurns(Turn)
  BY DEF PassTurns
<1>. HIDE DEF pass
<1>8. pass[k] = [w \in Walks |-> IF k = 0 \/ w.status # "OK" THEN w ELSE pass[k - 1][Turn[w]]]
  BY <1>6
<1>. QED
  BY <1>7, <1>8

LEMMA PassesTurn ==
  ASSUME NEW Turn \in [Walks -> Walks], NEW k \in Nat, NEW w \in Walks
  PROVE  Passes(Turn, k, w) = IF k = 0 \/ w.status # "OK" THEN w ELSE Passes(Turn, k - 1, Turn[w])
<1>1. \A i, v : Passes(Turn, i, v) = PassTurns(Turn)[i][v]
  BY DEF Passes, PassTurns
<1>. DEFINE pass == PassTurns(Turn)
<1>2. pass[k] = [v \in Walks |-> IF k = 0 \/ v.status # "OK" THEN v ELSE pass[k - 1][Turn[v]]]
  BY PassTurned
<1>3. pass[k][w] = IF k = 0 \/ w.status # "OK" THEN w ELSE pass[k - 1][Turn[w]]
  <2>. HIDE DEF pass
  <2>. QED
    BY <1>2
<1>. QED
  BY <1>1, <1>3

(* What holds of the start and is kept by each turn holds of the end.        *)
LEMMA PassesKeep ==
  ASSUME NEW Turn \in [Walks -> Walks], NEW X \in SUBSET Walks,
         \A w \in X : Turn[w] \in X, NEW k \in Nat, NEW start \in X
  PROVE  Passes(Turn, k, start) \in X
<1>. DEFINE T == {i \in Nat : \A w \in X : Passes(Turn, i, w) \in X}
<1>1. 0 \in T
  BY PassesTurn
<1>2. ASSUME NEW i \in Nat, i \in T PROVE i + 1 \in T
  <2>. SUFFICES ASSUME NEW w \in X PROVE Passes(Turn, i + 1, w) \in X
    OBVIOUS
  <2>1. i + 1 \in Nat /\ i + 1 # 0 /\ (i + 1) - 1 = i
    OBVIOUS
  <2>2. Passes(Turn, i + 1, w) = IF i + 1 = 0 \/ w.status # "OK" THEN w ELSE Passes(Turn, (i + 1) - 1, Turn[w])
    BY <2>1, PassesTurn
  <2>. QED
    BY <1>2, <2>1, <2>2
<1>3. Nat \subseteq T
  <2>. HIDE DEF T
  <2>. QED
    BY <1>1, <1>2, SetInduction
<1>. QED
  BY <1>3

LEMMA EndsAreWalks ==
  ASSUME NEW dns \in Seq(Byte), NEW w \in Ends(dns)
  PROVE  /\ w \in Walks /\ w.at \in Nat /\ w.at <= Len(dns)
         /\ w.status \in {"OK", "TRUNCATED", "MALFORMED"}
<1>. DEFINE codes == {"OK", "TRUNCATED", "MALFORMED"}
<1>1. w \in [status : codes, at : Nat] /\ w.at <= Len(dns)
  BY DEF Ends
<1>2. codes \subseteq {"OK", "TRUNCATED", "MALFORMED", "FOUND"}
  OBVIOUS
<1>. HIDE DEF codes
<1>3. w \in Walks
  BY <1>1, <1>2 DEF Walks
<1>4. w.at \in Nat /\ w.status \in codes
  BY <1>1
<1>. QED
  BY <1>1, <1>3, <1>4 DEF codes

LEMMA FixedPassed ==
  ASSUME NEW dns \in Seq(Byte), NEW c \in Nat, NEW n \in Nat
  PROVE  LET fixed == PassFixed(dns, c, n)
         IN  /\ fixed \in Ends(dns)
             /\ fixed.status = "OK" => fixed.at >= n
<1>. DEFINE name == WalkName(dns, c)
            fixed == PassFixed(dns, c, n)
            L == Len(dns)
<1>1. name \in Ends(dns)
  BY NameWalked
<1>2. fixed = IF name.status # "OK" THEN name
              ELSE IF L - name.at < n THEN Walked("TRUNCATED", name.at)
              ELSE Walked("OK", name.at + n)
  BY DEF PassFixed, PassBehind
<1>. HIDE DEF name
<1>3. name.at \in Nat /\ name.at <= L /\ L \in Nat
  BY <1>1, EndsAreWalks
<1>. HIDE DEF fixed
<1>4. CASE name.status # "OK"
  BY <1>1, <1>2, <1>4 DEF fixed
<1>5. CASE name.status = "OK" /\ L - name.at < n
  <2>1. fixed = Walked("TRUNCATED", name.at)
    BY <1>2, <1>5
  <2>2. fixed \in Ends(dns) /\ fixed.status = "TRUNCATED"
    BY <1>3, <2>1, EndsWalked
  <2>. QED
    BY <2>2 DEF fixed
<1>6. CASE name.status = "OK" /\ ~(L - name.at < n)
  <2>. DEFINE at == name.at + n
  <2>1. fixed = Walked("OK", at)
    BY <1>2, <1>6
  <2>2. at \in Nat /\ at <= L /\ at >= n
    BY <1>3, <1>6
  <2>. HIDE DEF at, L
  <2>3. fixed \in Ends(dns) /\ fixed.at = at
    BY <2>1, <2>2, EndsWalked DEF L
  <2>. QED
    BY <2>2, <2>3 DEF fixed
<1>. QED
  BY <1>4, <1>5, <1>6

LEMMA DataPassed ==
  ASSUME NEW dns \in Seq(Byte), NEW c \in Nat
  PROVE  LET fixed == PassFixed(dns, c, 10)
             data  == PassData(dns, fixed)
         IN  /\ data \in Ends(dns)
             /\ data.status = "OK" => fixed.status = "OK"
             /\ fixed \in Ends(dns)
             /\ fixed.status = "OK" => fixed.at >= 10
<1>. DEFINE fixed == PassFixed(dns, c, 10)
            data == PassData(dns, fixed)
            L == Len(dns)
            at == fixed.at
            n == Word(dns, at - 2)
<1>1. fixed \in Ends(dns) /\ (fixed.status = "OK" => at >= 10)
  BY FixedPassed
<1>2. data = IF fixed.status # "OK" THEN fixed
             ELSE IF n > L - at THEN Walked("TRUNCATED", at)
             ELSE Walked("OK", at + n)
  BY DEF PassData
<1>. HIDE DEF fixed
<1>3. at \in Nat /\ at <= L /\ L \in Nat
  BY <1>1, EndsAreWalks
<1>4. fixed.status = "OK" => n \in Nat
  BY <1>1, <1>3, WordHalf DEF Half
<1>. HIDE DEF data, n, at, L
<1>5. CASE fixed.status # "OK"
  BY <1>1, <1>2, <1>5 DEF fixed, data, at
<1>6. CASE fixed.status = "OK" /\ n > L - at
  <2>1. data = Walked("TRUNCATED", at)
    BY <1>2, <1>6
  <2>2. data \in Ends(dns)
    BY <1>3, <2>1, EndsWalked DEF L
  <2>. QED
    BY <1>1, <1>6, <2>2 DEF fixed, data, at
<1>7. CASE fixed.status = "OK" /\ ~(n > L - at)
  <2>. DEFINE next == at + n
  <2>1. data = Walked("OK", next)
    BY <1>2, <1>7
  <2>2. next \in Nat /\ next <= L
    BY <1>3, <1>4, <1>7
  <2>. HIDE DEF next
  <2>3. data \in Ends(dns)
    BY <2>1, <2>2, EndsWalked DEF L
  <2>. QED
    BY <1>1, <1>7, <2>3 DEF fixed, data, at
<1>. QED
  BY <1>5, <1>6, <1>7

LEMMA QuestionsPassed ==
  ASSUME NEW dns \in Seq(Byte), Len(dns) >= 12, NEW count \in Nat
  PROVE  PassQuestions(dns, count) \in Ends(dns)
<1>. DEFINE Turn == [w \in Walks |-> PassFixed(dns, w.at, 4)]
            start == Walked("OK", 12)
            X == Ends(dns)
<1>1. \A w \in Walks : w.at \in Nat
  BY DEF Walks
<1>2. Turn \in [Walks -> Walks] /\ \A w \in X : Turn[w] \in X
  <2>1. \A w \in Walks : PassFixed(dns, w.at, 4) \in X
    BY <1>1, FixedPassed
  <2>2. X \subseteq Walks
    BY EndsAreWalks
  <2>. HIDE DEF X
  <2>. QED
    BY <2>1, <2>2
<1>3. start \in X /\ X \in SUBSET Walks
  BY EndsWalked, EndsAreWalks
<1>. HIDE DEF Turn, start, X
<1>4. Passes(Turn, count, start) \in X
  BY <1>2, <1>3, PassesKeep
<1>. QED
  BY <1>4 DEF PassQuestions, Turn, start, X

LEMMA RecordTurn ==
  ASSUME NEW dns \in Seq(Byte)
  PROVE  LET Turn == [w \in Walks |-> PassRecord(dns, w)]
         IN  Turn \in [Walks -> Walks] /\ \A w \in Walks : Turn[w] \in Ends(dns)
<1>. DEFINE X == Ends(dns)
<1>1. \A w \in Walks : w.at \in Nat
  BY DEF Walks
<1>2. \A w \in Walks : PassRecord(dns, w) \in X
  BY <1>1, DataPassed DEF PassRecord
<1>3. X \subseteq Walks
  BY EndsAreWalks
<1>. HIDE DEF X
<1>. QED
  BY <1>2, <1>3 DEF X

LEMMA RecordsPassed ==
  ASSUME NEW dns \in Seq(Byte), NEW count \in Nat, NEW start \in Ends(dns)
  PROVE  PassRecords(dns, count, start) \in Ends(dns)
<1>. DEFINE Turn == [w \in Walks |-> PassRecord(dns, w)]
            X == Ends(dns)
<1>1. X \in SUBSET Walks
  BY EndsAreWalks
<1>2. Turn \in [Walks -> Walks] /\ \A w \in X : Turn[w] \in X
  BY <1>1, RecordTurn
<1>. HIDE DEF Turn, X
<1>3. start \in X
  BY DEF X
<1>4. Passes(Turn, count, start) \in X
  BY <1>1, <1>2, <1>3, PassesKeep
<1>. QED
  BY <1>4 DEF PassRecords, Turn, X

(* Lesson 12's walk over a message ends inside the message.                  *)
LEMMA DnsParsed ==
  ASSUME NEW dns \in Seq(Byte)
  PROVE  ParseDns(dns) \in Ends(dns)
<1>. DEFINE L == Len(dns)
            n == Word(dns, 6) + Word(dns, 8) + Word(dns, 10)
            q == PassQuestions(dns, Word(dns, 4))
            end == PassRecords(dns, n, q)
<1>1. L \in Nat /\ L <= L
  OBVIOUS
<1>2. Walked("TRUNCATED", L) \in Ends(dns) /\ Walked("OK", L) \in Ends(dns)
  BY <1>1, EndsWalked
<1>3. L >= 12 => end \in Ends(dns)
  <2>. SUFFICES ASSUME L >= 12 PROVE end \in Ends(dns)
    OBVIOUS
  <2>1. Word(dns, 4) \in Nat
    BY WordHalf DEF Half
  <2>2. Word(dns, 6) \in Nat /\ Word(dns, 8) \in Nat /\ Word(dns, 10) \in Nat
    BY WordHalf DEF Half
  <2>3. n \in Nat
    BY <2>2
  <2>. HIDE DEF n
  <2>4. q \in Ends(dns)
    BY <2>1, QuestionsPassed
  <2>. HIDE DEF q
  <2>. QED
    BY <2>3, <2>4, RecordsPassed
<1>4. ParseDns(dns) = IF L < 12 THEN Walked("TRUNCATED", L) ELSE IF end.status # "OK" THEN end ELSE Walked("OK", L)
  BY DEF ParseDns
<1>. HIDE DEF end, L
<1>. QED
  BY <1>1, <1>2, <1>3, <1>4

LEMMA PartsAlike ==
  ASSUME NEW dns \in Seq(Byte), NEW c \in Nat, NEW n \in Nat
  PROVE  LET x == PassDecoded(dns, c, n)
             y == PassFixed(dns, c, n)
         IN  /\ NearlySame(x, y) /\ NearlySame(PassData(dns, x), PassData(dns, y))
             /\ y.status = "OK" => x = y
<1>. DEFINE d == DecodeName(dns, c)
            w == WalkName(dns, c)
            x == PassDecoded(dns, c, n)
            y == PassFixed(dns, c, n)
<1>1. NearlySame(d, w)
  BY NamesAlike
<1>2. x = PassBehind(dns, d, n) /\ y = PassBehind(dns, w, n)
  BY DEF PassDecoded, PassFixed
<1>. HIDE DEF d, w, x, y
<1>3. \A name : name.status # "OK" => PassBehind(dns, name, n) = name
  BY DEF PassBehind
<1>4. NearlySame(x, y) /\ (y.status = "OK" => x = y)
  <2>1. CASE d = w
    BY <1>2, <2>1 DEF NearlySame
  <2>2. CASE d # w
    <3>1. d.status = "MALFORMED" /\ w.status # "OK"
      BY <1>1, <2>2 DEF NearlySame
    <3>2. d.status # "OK"
      BY <3>1
    <3>3. x = d /\ y = w
      BY <1>2, <1>3, <3>1, <3>2
    <3>. QED
      BY <3>1, <3>3 DEF NearlySame
  <2>. QED
    BY <2>1, <2>2
<1>5. \A fixed : fixed.status # "OK" => PassData(dns, fixed) = fixed
  BY DEF PassData
<1>6. NearlySame(PassData(dns, x), PassData(dns, y))
  <2>1. CASE x = y
    BY <2>1 DEF NearlySame
  <2>2. CASE x # y
    <3>1. x.status = "MALFORMED" /\ y.status # "OK"
      BY <1>4, <2>2 DEF NearlySame
    <3>2. x.status # "OK"
      BY <3>1
    <3>3. PassData(dns, x) = x /\ PassData(dns, y) = y
      BY <1>5, <3>1, <3>2
    <3>. QED
      BY <3>1, <3>3 DEF NearlySame
  <2>. QED
    BY <2>1, <2>2
<1>. QED
  BY <1>4, <1>6 DEF x, y

(* Where the decoded name ends in the message, so do the parts behind it.    *)
LEMMA DecodedPassed ==
  ASSUME NEW dns \in Seq(Byte), NEW c \in Nat, NEW n \in Nat
  PROVE  PassDecoded(dns, c, n) \in Walks
<1>. DEFINE x == PassDecoded(dns, c, n)
            y == PassFixed(dns, c, n)
            d == DecodeName(dns, c)
            L == Len(dns)
<1>1. d \in Ends(dns) /\ L \in Nat
  BY NamesAlike
<1>. HIDE DEF d
<1>2. d \in Walks /\ d.at \in Nat /\ d.at <= L
  BY <1>1, EndsAreWalks
<1>3. x = IF d.status # "OK" THEN d ELSE IF L - d.at < n THEN Walked("TRUNCATED", d.at) ELSE Walked("OK", d.at + n)
  BY DEF PassDecoded, PassBehind, d
<1>4. Walked("TRUNCATED", d.at) \in Walks /\ Walked("OK", d.at + n) \in Walks
  BY <1>2 DEF Walked, Walks
<1>. HIDE DEF x, L
<1>. QED
  BY <1>2, <1>3, <1>4 DEF x

(* One turn of the answer loop.                                              *)
LEMMA AnswerTurn ==
  ASSUME NEW dns \in Seq(Byte), NEW w \in Walks
  PROVE  LET a == PassAnswer(dns, w)
             r == PassRecord(dns, w)
         IN  /\ a \in Walks
             /\ NearlySame(a, r) \/ (a.status = "FOUND" /\ r.status = "OK")
<1>. DEFINE fixed == PassDecoded(dns, w.at, 10)
            data == PassData(dns, fixed)
            isA == Word(dns, fixed.at - 10) = 1 /\ Word(dns, fixed.at - 8) = 1
            a == PassAnswer(dns, w)
            r == PassRecord(dns, w)
            found == Walked("FOUND", fixed.at)
<1>1. w.at \in Nat
  BY DEF Walks
<1>2. NearlySame(data, r)
  BY <1>1, PartsAlike DEF PassRecord
<1>3. a = IF data.status # "OK" THEN data ELSE IF isA THEN found ELSE data
  BY DEF PassAnswer, NextAnswer
<1>4. r \in Walks
  <2>1. r \in Ends(dns)
    BY <1>1, DataPassed DEF PassRecord
  <2>. HIDE DEF r
  <2>. QED
    BY <2>1, EndsAreWalks
<1>5. found \in Walks /\ found.status = "FOUND"
  <2>1. fixed.at \in Nat
    BY <1>1, DecodedPassed DEF Walks
  <2>. HIDE DEF fixed
  <2>. QED
    BY <2>1 DEF Walked, Walks
<1>6. data \in Walks
  <2>1. fixed \in Walks
    BY <1>1, DecodedPassed
  <2>2. data = fixed \/ data = r
    <3>1. fixed.status # "OK" => data = fixed
      BY DEF PassData
    <3>2. fixed.status = "OK" => data = r
      <4>1. NearlySame(fixed, PassFixed(dns, w.at, 10))
        BY <1>1, PartsAlike
      <4>2. fixed.status = "OK" => fixed = PassFixed(dns, w.at, 10)
        BY <4>1 DEF NearlySame
      <4>. QED
        BY <4>2 DEF PassRecord
    <3>. QED
      BY <3>1, <3>2
  <2>. QED
    BY <1>4, <2>1, <2>2
<1>7. data.status = "OK" => r.status = "OK"
  BY <1>2 DEF NearlySame
<1>. HIDE DEF data, isA, found, a, r
<1>. QED
  BY <1>2, <1>3, <1>5, <1>6, <1>7 DEF a, r

(* Loops whose turns are alike end alike.                                    *)
LEMMA QuestionsAlike ==
  ASSUME NEW dns \in Seq(Byte), Len(dns) >= 12, NEW count \in Nat
  PROVE  /\ NearlySame(DecodeQuestions(dns, count), PassQuestions(dns, count))
         /\ DecodeQuestions(dns, count) \in Walks
<1>. DEFINE D == [w \in Walks |-> PassDecoded(dns, w.at, 4)]
            W == [w \in Walks |-> PassFixed(dns, w.at, 4)]
            d(i, v) == Passes(D, i, v)
            q(i, v) == Passes(W, i, v)
            T == {i \in Nat : \A v \in Walks : NearlySame(d(i, v), q(i, v))}
            start == Walked("OK", 12)
<1>1. \A w \in Walks : w.at \in Nat
  BY DEF Walks
<1>2. D \in [Walks -> Walks]
  <2>1. \A w \in Walks : PassDecoded(dns, w.at, 4) \in Walks
    BY <1>1, DecodedPassed, SMTT(30)
  <2>. QED
    BY <2>1
<1>3. W \in [Walks -> Walks]
  <2>1. \A w \in Walks : PassFixed(dns, w.at, 4) \in Ends(dns)
    BY <1>1, FixedPassed, SMTT(30)
  <2>2. Ends(dns) \subseteq Walks
    BY EndsAreWalks
  <2>. QED
    BY <2>1, <2>2
<1>4. ASSUME NEW v \in Walks PROVE NearlySame(D[v], W[v])
  <2>1. D[v] = PassDecoded(dns, v.at, 4) /\ W[v] = PassFixed(dns, v.at, 4) /\ v.at \in Nat
    BY <1>1
  <2>. QED
    BY <2>1, PartsAlike
<1>5. start \in Walks
  BY DEF Walked, Walks
<1>. HIDE DEF D, W, start
<1>6. ASSUME NEW i \in Nat, NEW v \in Walks
      PROVE  /\ d(i, v) = IF i = 0 \/ v.status # "OK" THEN v ELSE d(i - 1, D[v])
             /\ q(i, v) = IF i = 0 \/ v.status # "OK" THEN v ELSE q(i - 1, W[v])
  BY <1>2, <1>3, PassesTurn
<1>7. d(count, start) \in Walks
  <2>1. \A v \in Walks : D[v] \in Walks
    BY <1>2
  <2>2. Walks \in SUBSET Walks
    OBVIOUS
  <2>. QED
    BY <1>2, <1>5, <2>1, <2>2, PassesKeep
<1>. HIDE DEF d, q
<1>8. 0 \in T
  <2>1. ASSUME NEW v \in Walks PROVE NearlySame(d(0, v), q(0, v))
    <3>1. d(0, v) = v /\ q(0, v) = v
      BY <1>6
    <3>. QED
      BY <3>1 DEF NearlySame
  <2>. QED
    BY <2>1
<1>9. ASSUME NEW i \in Nat, i \in T PROVE i + 1 \in T
  <2>. SUFFICES ASSUME NEW v \in Walks PROVE NearlySame(d(i + 1, v), q(i + 1, v))
    OBVIOUS
  <2>1. i + 1 \in Nat /\ i + 1 # 0 /\ (i + 1) - 1 = i
    OBVIOUS
  <2>2. /\ d(i + 1, v) = IF v.status # "OK" THEN v ELSE d(i, D[v])
        /\ q(i + 1, v) = IF v.status # "OK" THEN v ELSE q(i, W[v])
    BY <1>6, <2>1
  <2>3. D[v] \in Walks /\ W[v] \in Walks
    BY <1>2, <1>3
  <2>4. CASE v.status # "OK"
    BY <2>2, <2>4 DEF NearlySame
  <2>5. CASE v.status = "OK" /\ D[v] = W[v]
    <3>1. NearlySame(d(i, W[v]), q(i, W[v]))
      BY <1>9, <2>3
    <3>. QED
      BY <2>2, <2>5, <3>1
  <2>6. CASE v.status = "OK" /\ D[v] # W[v]
    <3>1. D[v].status = "MALFORMED" /\ W[v].status # "OK"
      BY <1>4, <2>6 DEF NearlySame
    <3>2. d(i, D[v]) = D[v] /\ q(i, W[v]) = W[v]
      <4>1. D[v].status # "OK"
        BY <3>1
      <4>. QED
        BY <1>6, <2>3, <3>1, <4>1
    <3>. QED
      BY <2>2, <2>6, <3>1, <3>2 DEF NearlySame
  <2>. QED
    BY <2>4, <2>5, <2>6
<1>10. Nat \subseteq T
  <2>. HIDE DEF T
  <2>. QED
    BY <1>8, <1>9, SetInduction
<1>11. NearlySame(d(count, start), q(count, start))
  BY <1>5, <1>10
<1>. QED
  BY <1>7, <1>11 DEF DecodeQuestions, PassQuestions, d, q, D, W, start

(* The search among the first k records, and the walk over these and m more. *)
LEMMA SearchAndWalk ==
  ASSUME NEW dns \in Seq(Byte), NEW k \in Nat, NEW m \in Nat, NEW w \in Walks
  PROVE  LET a == Passes([v \in Walks |-> PassAnswer(dns, v)], k, w)
             r == Passes([v \in Walks |-> PassRecord(dns, v)], k + m, w)
         IN  /\ r.status = "OK" => a.status \in {"OK", "FOUND"}
             /\ a.status = "TRUNCATED" => r.status = "TRUNCATED"
<1>. DEFINE A == [v \in Walks |-> PassAnswer(dns, v)]
            R == [v \in Walks |-> PassRecord(dns, v)]
            a(i, v) == Passes(A, i, v)
            r(i, v) == Passes(R, i, v)
            Fit(x, y) == /\ y.status = "OK" => x.status \in {"OK", "FOUND"}
                         /\ x.status = "TRUNCATED" => y.status = "TRUNCATED"
            T == {i \in Nat : \A v \in Walks : Fit(a(i, v), r(i + m, v))}
<1>1. A \in [Walks -> Walks] /\ R \in [Walks -> Walks]
  BY AnswerTurn, RecordTurn
<1>2. ASSUME NEW v \in Walks
      PROVE  /\ A[v] \in Walks /\ R[v] \in Walks
             /\ NearlySame(A[v], R[v]) \/ (A[v].status = "FOUND" /\ R[v].status = "OK")
  <2>1. A[v] = PassAnswer(dns, v) /\ R[v] = PassRecord(dns, v)
    OBVIOUS
  <2>. QED
    BY <1>1, <2>1, AnswerTurn
<1>. HIDE DEF A, R
<1>3. ASSUME NEW i \in Nat, NEW v \in Walks
      PROVE  /\ a(i, v) = IF i = 0 \/ v.status # "OK" THEN v ELSE a(i - 1, A[v])
             /\ r(i, v) = IF i = 0 \/ v.status # "OK" THEN v ELSE r(i - 1, R[v])
  BY <1>1, PassesTurn
<1>. HIDE DEF a, r
<1>4. 0 \in T
  <2>. SUFFICES ASSUME NEW v \in Walks PROVE Fit(a(0, v), r(0 + m, v))
    OBVIOUS
  <2>1. 0 + m = m /\ a(0, v) = v
    BY <1>3
  <2>2. v.status # "OK" => r(m, v) = v
    BY <1>3
  <2>. QED
    BY <2>1, <2>2
<1>5. ASSUME NEW i \in Nat, i \in T PROVE i + 1 \in T
  <2>. SUFFICES ASSUME NEW v \in Walks PROVE Fit(a(i + 1, v), r(i + 1 + m, v))
    OBVIOUS
  <2>1. i + 1 \in Nat /\ i + 1 # 0 /\ (i + 1) - 1 = i
        /\ i + 1 + m \in Nat /\ i + 1 + m # 0 /\ (i + 1 + m) - 1 = i + m
    OBVIOUS
  <2>2. /\ a(i + 1, v) = IF v.status # "OK" THEN v ELSE a(i, A[v])
        /\ r(i + 1 + m, v) = IF v.status # "OK" THEN v ELSE r(i + m, R[v])
    BY <1>3, <2>1
  <2>3. CASE v.status # "OK"
    BY <2>2, <2>3
  <2>4. CASE v.status = "OK" /\ A[v] = R[v]
    <3>1. Fit(a(i, R[v]), r(i + m, R[v]))
      BY <1>2, <1>5
    <3>. QED
      BY <2>2, <2>4, <3>1
  <2>5. CASE v.status = "OK" /\ A[v].status = "FOUND"
    <3>1. a(i, A[v]) = A[v]
      BY <1>2, <1>3, <2>5
    <3>. QED
      BY <2>2, <2>5, <3>1
  <2>6. CASE v.status = "OK" /\ A[v].status = "MALFORMED" /\ R[v].status # "OK"
    <3>1. A[v].status # "OK" /\ A[v] \in Walks /\ R[v] \in Walks
      BY <1>2, <2>6
    <3>2. a(i, A[v]) = A[v]
      BY <1>3, <3>1
    <3>3. r(i + m, R[v]) = R[v]
      <4>1. i + m \in Nat
        OBVIOUS
      <4>. QED
        BY <1>3, <2>6, <3>1, <4>1
    <3>. QED
      BY <2>2, <2>6, <3>2, <3>3
  <2>. QED
    BY <1>2, <2>3, <2>4, <2>5, <2>6 DEF NearlySame
<1>6. Nat \subseteq T
  <2>. HIDE DEF T
  <2>. QED
    BY <1>4, <1>5, SetInduction
<1>7. Fit(a(k, w), r(k + m, w))
  BY <1>6
<1>. QED
  BY <1>7 DEF a, r, A, R

-----------------------------------------------------------------------------
(* How far a report looks: what it adds to a report so far, up to a place.   *)

Extends(x, r) ==
  /\ r.layers \in Seq(LayerNames) /\ x.layers \in Seq(LayerNames)
  /\ Len(r.layers) <= Len(x.layers)
  /\ \A i \in 1..Len(r.layers) : x.layers[i] = r.layers[i]

Within(x, r, last) ==
  /\ IsReport(x) /\ Extends(x, r)
  /\ x.parsed_length \in Nat /\ x.parsed_length <= last
  /\ x.status = "OK" => x.parsed_length = last

LEMMA ReportLayers == \A r : IsReport(r) => r.layers \in Seq(LayerNames)
BY DEF IsReport, Report

LEMMA ExtendsMore ==
  ASSUME NEW r, NEW x, NEW z, Extends(x, r), Extends(z, x)
  PROVE  Extends(z, r)
BY DEF Extends

LEMMA ExtendsSame ==
  ASSUME NEW r, NEW x, IsReport(r), IsReport(x), x.layers = r.layers
  PROVE  Extends(x, r)
<1>1. r.layers \in Seq(LayerNames)
  BY ReportLayers
<1>. QED
  BY <1>1 DEF Extends

LEMMA ExtendsAdded ==
  ASSUME NEW r, SoFar(r, 0) \/ SoFar(r, 1) \/ SoFar(r, 2) \/ SoFar(r, 3), NEW layer \in LayerNames
  PROVE  Extends(AddLayer(r, layer), r)
<1>. DEFINE l == r.layers
            x == AddLayer(r, layer)
<1>1. IsReport(r) /\ l \in Seq(LayerNames) /\ Len(l) < 4
  <2>. DEFINE n == Len(l)
  <2>1. IsReport(r) /\ (n = 0 \/ n = 1 \/ n = 2 \/ n = 3)
    BY DEF SoFar
  <2>2. l \in Seq(LayerNames)
    BY <2>1, ReportLayers
  <2>. HIDE DEF n
  <2>3. n < 4
    BY <2>1
  <2>. QED
    BY <2>1, <2>2, <2>3 DEF n
<1>2. x = [r EXCEPT !.layers = Append(r.layers, layer)]
  BY <1>1 DEF AddLayer
<1>3. x.layers = Append(l, layer)
  BY <1>1, <1>2 DEF IsReport, Report
<1>. HIDE DEF l, x
<1>4. Append(l, layer) \in Seq(LayerNames) /\ Len(Append(l, layer)) = Len(l) + 1
      /\ \A i \in 1..Len(l) : Append(l, layer)[i] = l[i]
  BY <1>1
<1>. QED
  BY <1>1, <1>3, <1>4 DEF Extends, x, l

(* What each end of a layer makes the parsed length.                         *)
LEMMA ReportParsed ==
  ASSUME NEW r, IsReport(r), NEW code, NEW payload, NEW parsed
  PROVE  /\ Stopped(r, code, parsed).parsed_length = parsed
         /\ Unsupported(r, payload, parsed).parsed_length = parsed
         /\ WithParsed(r, parsed).parsed_length = parsed
         /\ WithLengths(r, payload, parsed).parsed_length = parsed
BY DEF IsReport, Report, Stopped, Unsupported, WithParsed, WithLengths

LEMMA WithinStopped ==
  ASSUME NEW r, NEW a, IsReport(a), Extends(a, r), NEW code \in {"TRUNCATED", "MALFORMED"},
         NEW parsed \in Nat, NEW last \in Nat, parsed <= last
  PROVE  LET x == Stopped(a, code, parsed)
         IN  Within(x, r, last) /\ x.status = code /\ LastLayer(x) = LastLayer(a)
<1>. DEFINE x == Stopped(a, code, parsed)
<1>1. Alike(x, a) /\ x.status = code /\ x.parsed_length = parsed
  BY ReportStopped, ReportParsed
<1>. HIDE DEF x
<1>2. Extends(x, r)
  BY <1>1, ExtendsSame, ExtendsMore DEF Alike
<1>3. x.status # "OK" /\ LastLayer(x) = LastLayer(a)
  BY <1>1 DEF Alike, LastLayer
<1>. QED
  BY <1>1, <1>2, <1>3 DEF Within, Alike, x

LEMMA WithinDone ==
  ASSUME NEW r, NEW a, Extends(a, r), IsReport(a), NEW last \in Nat, NEW x,
         \/ x = WithParsed(a, last)
         \/ \E payload : x = Unsupported(a, payload, last) \/ x = WithLengths(a, payload, last)
  PROVE  Within(x, r, last) /\ x.status = a.status /\ LastLayer(x) = LastLayer(a)
<1>1. Alike(x, a) /\ x.status = a.status /\ x.parsed_length = last
  <2>1. ASSUME NEW payload, x = Unsupported(a, payload, last)
        PROVE  Alike(x, a) /\ x.status = a.status /\ x.parsed_length = last
    BY <2>1, ReportUnsupported, ReportParsed
  <2>2. CASE x = WithParsed(a, last)
    <3>1. Alike(WithParsed(a, last), a) /\ WithParsed(a, last).status = a.status
      BY ReportLengths
    <3>2. WithParsed(a, last).parsed_length = last
      BY ReportParsed
    <3>. QED
      BY <2>2, <3>1, <3>2
  <2>3. ASSUME NEW payload, x = WithLengths(a, payload, last)
        PROVE  Alike(x, a) /\ x.status = a.status /\ x.parsed_length = last
    <3>1. Alike(WithLengths(a, payload, last), a) /\ WithLengths(a, payload, last).status = a.status
      BY ReportLengths
    <3>2. WithLengths(a, payload, last).parsed_length = last
      BY ReportParsed
    <3>. QED
      BY <2>3, <3>1, <3>2
  <2>. QED
    BY <2>1, <2>2, <2>3
<1>2. Extends(x, r)
  BY <1>1, ExtendsSame, ExtendsMore DEF Alike
<1>3. LastLayer(x) = LastLayer(a)
  BY <1>1 DEF Alike, LastLayer
<1>4. last <= last
  OBVIOUS
<1>. QED
  BY <1>1, <1>2, <1>3, <1>4 DEF Within, Alike

LEMMA DnsWithin ==
  ASSUME NEW r, SoFar(r, 3), NEW dns \in Seq(Byte), NEW place \in Nat
  PROVE  LET x == Dns(dns, place, r)
         IN  /\ Within(x, r, place + Len(dns))
             /\ LastLayer(x) = "DNS" /\ x.status = ParseDns(dns).status
<1>. DEFINE a == AddLayer(r, "DNS")
            w == ParseDns(dns)
            x == Dns(dns, place, r)
            last == place + Len(dns)
<1>1. IsReport(a) /\ LastLayer(a) = "DNS" /\ a.status = "OK" /\ Extends(a, r)
  BY LayerNext, ExtendsAdded DEF LayerNames
<1>2. x = IF w.status = "TRUNCATED" THEN Stopped(a, "TRUNCATED", place + w.at)
          ELSE IF w.status # "OK" THEN Stopped(a, "MALFORMED", place + w.at)
          ELSE WithParsed(a, last)
  BY DEF Dns, WithParsed
<1>3. w.at \in Nat /\ w.at <= Len(dns) /\ w.status \in {"OK", "TRUNCATED", "MALFORMED"}
  <2>1. w \in Ends(dns)
    BY DnsParsed
  <2>. HIDE DEF w
  <2>. QED
    BY <2>1, EndsAreWalks
<1>. DEFINE at == place + w.at
<1>. HIDE DEF a, w
<1>4. at \in Nat /\ last \in Nat /\ at <= last
  BY <1>3
<1>. HIDE DEF x, at, last
<1>5. CASE w.status = "TRUNCATED"
  <2>1. x = Stopped(a, "TRUNCATED", at)
    BY <1>2, <1>5 DEF at
  <2>2. Within(x, r, last) /\ x.status = "TRUNCATED" /\ LastLayer(x) = LastLayer(a)
    BY <1>1, <1>4, <2>1, WithinStopped
  <2>. QED
    BY <1>1, <1>5, <2>2 DEF x, last, w
<1>6. CASE w.status = "MALFORMED"
  <2>1. x = Stopped(a, "MALFORMED", at)
    BY <1>2, <1>6 DEF at
  <2>2. Within(x, r, last) /\ x.status = "MALFORMED" /\ LastLayer(x) = LastLayer(a)
    BY <1>1, <1>4, <2>1, WithinStopped
  <2>. QED
    BY <1>1, <1>6, <2>2 DEF x, last, w
<1>7. CASE w.status = "OK"
  <2>1. x = WithParsed(a, last)
    BY <1>2, <1>7
  <2>2. Within(x, r, last) /\ x.status = a.status /\ LastLayer(x) = LastLayer(a)
    BY <1>1, <1>4, <2>1, WithinDone
  <2>. QED
    BY <1>1, <1>7, <2>2 DEF x, last, w
<1>. QED
  BY <1>3, <1>5, <1>6, <1>7

LEMMA HttpWithin ==
  ASSUME NEW r, SoFar(r, 3), NEW payload \in Seq(Byte), NEW place \in Nat
  PROVE  LET x == Http(payload, place, r)
         IN  Within(x, r, place + Len(payload)) /\ LastLayer(x) = "HTTP"
<1>. DEFINE a == AddLayer(r, "HTTP")
            x == Http(payload, place, r)
            last == place + Len(payload)
<1>1. IsReport(a) /\ LastLayer(a) = "HTTP" /\ Extends(a, r)
  BY LayerNext, ExtendsAdded DEF LayerNames
<1>2. x = Stopped(a, "MALFORMED", place) \/ x = Stopped(a, "TRUNCATED", last) \/ x = WithParsed(a, last)
  <2>. DEFINE P == \A prefix \in HttpPrefixes :
                     ~(Len(prefix) <= Len(payload) /\ Slice(payload, 0, Len(prefix)) = prefix)
              Q == \A i \in 4..Len(payload) : SubSeq(payload, i - 3, i) # <<13, 10, 13, 10>>
  <2>1. x = IF P THEN Stopped(a, "MALFORMED", place)
            ELSE IF Q THEN Stopped(a, "TRUNCATED", last)
            ELSE WithParsed(a, last)
    BY DEF Http, WithParsed
  <2>. HIDE DEF P, Q, x, a
  <2>. QED
    BY <2>1
<1>3. last \in Nat /\ place <= last /\ last <= last
  OBVIOUS
<1>. HIDE DEF a, x, last
<1>4. Within(x, r, last) /\ LastLayer(x) = LastLayer(a)
  <2>1. CASE x = Stopped(a, "MALFORMED", place)
    BY <1>1, <1>3, <2>1, WithinStopped
  <2>2. CASE x = Stopped(a, "TRUNCATED", last)
    BY <1>1, <1>3, <2>2, WithinStopped
  <2>3. CASE x = WithParsed(a, last)
    BY <1>1, <1>3, <2>3, WithinDone
  <2>. QED
    BY <1>2, <2>1, <2>2, <2>3
<1>. QED
  BY <1>1, <1>4 DEF x, last

LEMMA ExtendsKept ==
  ASSUME NEW r, NEW a, Extends(a, r), NEW x, IsReport(x), x.layers = a.layers
  PROVE  Extends(x, r)
<1>1. x.layers \in Seq(LayerNames)
  BY ReportLayers
<1>. QED
  BY <1>1 DEF Extends

LEMMA WithinMore ==
  ASSUME NEW r, NEW a, Extends(a, r), NEW last, NEW x, Within(x, a, last)
  PROVE  Within(x, r, last)
<1>1. Extends(x, r)
  BY ExtendsMore DEF Within
<1>. QED
  BY <1>1 DEF Within

LEMMA UdpWithin ==
  ASSUME NEW r, SoFar(r, 2), NEW ip \in Seq(Byte), Len(ip) >= 20,
         NEW d \in Seq(Byte), Len(d) \in Half, NEW place \in Nat
  PROVE  LET x == Udp(ip, d, place, r)
         IN  /\ Within(x, r, place + Len(d))
             /\ LastLayer(x) = "DNS" => Len(d) >= 8 /\ x.status = ParseDns(From(d, 8)).status
<1>. DEFINE a == AddLayer(r, "UDP")
            w == Word(d, 4)
            n == Len(d)
            last == place + n
            sum == WithPseudoHeader(Slice(ip, 12, 4), Slice(ip, 16, 4), 17, d)
            known == WithPayload(a, w - 8)
            summed == IF Word(d, 6) = 0 THEN known ELSE RecordChecksum(known, sum, "TRANSPORT_CHECKSUM")
            x == Udp(ip, d, place, r)
            isDns == 53 \in {Word(d, 0), Word(d, 2)}
<1>1. /\ SoFar(a, 3) /\ IsReport(a) /\ LastLayer(a) = "UDP" /\ a.status = "OK" /\ Extends(a, r)
  BY LayerNext, ExtendsAdded DEF LayerNames
<1>2. sum \in Seq(Byte) /\ Len(sum) \in Twice16
  <2>1. /\ Slice(ip, 12, 4) \in Seq(Byte) /\ Len(Slice(ip, 12, 4)) = 4
        /\ Slice(ip, 16, 4) \in Seq(Byte) /\ Len(Slice(ip, 16, 4)) = 4
    BY AddressBytes
  <2>2. 17 \in Byte
    BY DEF Byte
  <2>. QED
    BY <2>1, <2>2, PseudoHeaderBytes
<1>3. x = IF n < 8 THEN Stopped(a, "TRUNCATED", place + n)
          ELSE IF w < 8 THEN Stopped(a, "MALFORMED", place + 8)
          ELSE IF w > n THEN Stopped(a, "TRUNCATED", place + n)
          ELSE IF w < n THEN Stopped(a, "MALFORMED", place + w)
          ELSE IF isDns THEN Dns(From(d, 8), place + 8, summed)
          ELSE Unsupported(summed, summed.payload_length, place + n)
  BY DEF Udp, WithPayload
<1>4. n \in Nat /\ last \in Nat
  OBVIOUS
<1>5. n >= 8 => w \in Nat
  BY WordHalf DEF Half
<1>. HIDE DEF a, known
<1>6. Alike(known, a) /\ known.status = "OK" /\ IsReport(known)
  BY <1>1, ReportLengths DEF known, Alike
<1>7. /\ SoFar(summed, 3) /\ IsReport(summed) /\ LastLayer(summed) = "UDP" /\ Extends(summed, r)
  <2>1. /\ IsReport(summed) /\ summed.layers = known.layers /\ summed.status = known.status
    <3>1. CASE Word(d, 6) = 0
      BY <1>6, <3>1
    <3>2. CASE Word(d, 6) # 0
      <4>1. summed = RecordChecksum(known, sum, "TRANSPORT_CHECKSUM")
        BY <3>2
      <4>. HIDE DEF summed, sum
      <4>. QED
        BY <1>2, <1>6, <4>1, ChecksumRecorded
    <3>. QED
      BY <3>1, <3>2
  <2>. HIDE DEF summed
  <2>2. summed.layers = a.layers /\ summed.status = a.status
    BY <1>1, <1>6, <2>1 DEF Alike
  <2>3. SoFar(summed, 3) /\ LastLayer(summed) = LastLayer(a)
    BY <1>1, <2>1, <2>2, SoFarKept
  <2>. QED
    BY <1>1, <2>1, <2>2, <2>3, ExtendsKept
<1>. HIDE DEF w, n, sum, summed, x, isDns, last
<1>8. \/ \E code \in {"TRUNCATED", "MALFORMED"} : \E parsed \in Nat : parsed <= last /\ x = Stopped(a, code, parsed)
      \/ n >= 8 /\ x = Dns(From(d, 8), place + 8, summed)
      \/ x = Unsupported(summed, summed.payload_length, last)
  <2>1. CASE n < 8
    <3>1. x = Stopped(a, "TRUNCATED", last) /\ last <= last
      BY <1>3, <1>4, <2>1 DEF last
    <3>. QED
      BY <1>4, <3>1
  <2>2. CASE ~(n < 8)
    <3>1. n >= 8 /\ w \in Nat
      BY <1>4, <1>5, <2>2
    <3>. DEFINE p == place + 8
                q == place + w
    <3>2. last <= last /\ p \in Nat /\ p <= last /\ q \in Nat /\ (w < n => q <= last)
      BY <1>4, <3>1 DEF last
    <3>3. x = IF w < 8 THEN Stopped(a, "MALFORMED", p)
              ELSE IF w > n THEN Stopped(a, "TRUNCATED", last)
              ELSE IF w < n THEN Stopped(a, "MALFORMED", q)
              ELSE IF isDns THEN Dns(From(d, 8), p, summed)
              ELSE Unsupported(summed, summed.payload_length, last)
      BY <1>3, <2>2 DEF last
    <3>. HIDE DEF p, q
    <3>. QED
      BY <1>4, <3>1, <3>2, <3>3 DEF p
  <2>. QED
    BY <2>1, <2>2
<1>9. CASE \E code \in {"TRUNCATED", "MALFORMED"} : \E parsed \in Nat : parsed <= last /\ x = Stopped(a, code, parsed)
  <2>1. PICK code \in {"TRUNCATED", "MALFORMED"} : \E parsed \in Nat : parsed <= last /\ x = Stopped(a, code, parsed)
    BY <1>9
  <2>2. PICK parsed \in Nat : parsed <= last /\ x = Stopped(a, code, parsed)
    BY <2>1
  <2>3. Within(x, r, last) /\ LastLayer(x) = LastLayer(a)
    BY <1>1, <1>4, <2>2, WithinStopped
  <2>. QED
    BY <1>1, <2>3 DEF x, last, n
<1>10. CASE n >= 8 /\ x = Dns(From(d, 8), place + 8, summed)
  <2>. DEFINE dns == From(d, 8)
              p == place + 8
  <2>1. dns \in Seq(Byte) /\ Len(dns) = n - 8
    BY <1>10, FromBytes DEF n
  <2>2. p \in Nat
    OBVIOUS
  <2>3. x = Dns(dns, p, summed)
    BY <1>10
  <2>. HIDE DEF dns, p
  <2>4. Within(x, summed, p + Len(dns)) /\ x.status = ParseDns(dns).status
    BY <1>7, <2>1, <2>2, <2>3, DnsWithin
  <2>5. p + Len(dns) = last
    BY <1>4, <1>10, <2>1 DEF p, last
  <2>6. Within(x, r, last)
    BY <1>7, <2>4, <2>5, WithinMore
  <2>. QED
    BY <1>10, <2>4, <2>6 DEF x, last, n, dns
<1>11. CASE x = Unsupported(summed, summed.payload_length, last)
  <2>1. Within(x, r, last) /\ LastLayer(x) = LastLayer(summed)
    BY <1>4, <1>7, <1>11, WithinDone
  <2>. QED
    BY <1>7, <2>1 DEF x, last, n
<1>. QED
  BY <1>8, <1>9, <1>10, <1>11

LEMMA TcpWithin ==
  ASSUME NEW r, SoFar(r, 2), NEW ip \in Seq(Byte), Len(ip) >= 20,
         NEW d \in Seq(Byte), Len(d) \in Half, NEW place \in Nat
  PROVE  LET x == Tcp(ip, d, place, r)
         IN  Within(x, r, place + Len(d)) /\ LastLayer(x) # "DNS"
<1>. DEFINE a == AddLayer(r, "TCP")
            o == DataOffset(d)
            n == Len(d)
            last == place + n
            reserved == (At(d, 12) \div 2) % 8 # 0
            payload == From(d, o)
            y == Len(payload)
            sum == WithPseudoHeader(Slice(ip, 12, 4), Slice(ip, 16, 4), 6, d)
            counted == RecordChecksum(a, sum, "TRANSPORT_CHECKSUM")
            summed == WithPayload(counted, y)
            web == payload # <<>> /\ {Word(d, 0), Word(d, 2)} \cap {80, 8080} # {}
            x == Tcp(ip, d, place, r)
<1>1. /\ SoFar(a, 3) /\ IsReport(a) /\ LastLayer(a) = "TCP" /\ a.status = "OK" /\ Extends(a, r)
  BY LayerNext, ExtendsAdded DEF LayerNames
<1>2. sum \in Seq(Byte) /\ Len(sum) \in Twice16
  <2>1. /\ Slice(ip, 12, 4) \in Seq(Byte) /\ Len(Slice(ip, 12, 4)) = 4
        /\ Slice(ip, 16, 4) \in Seq(Byte) /\ Len(Slice(ip, 16, 4)) = 4
    BY AddressBytes
  <2>2. 6 \in Byte
    BY DEF Byte
  <2>. QED
    BY <2>1, <2>2, PseudoHeaderBytes
<1>3. x = IF n < 20 THEN Stopped(a, "TRUNCATED", place + n)
          ELSE IF reserved THEN Stopped(a, "MALFORMED", place + 13)
          ELSE IF o < 20 THEN Stopped(a, "MALFORMED", place + 20)
          ELSE IF o > n THEN Stopped(a, "TRUNCATED", place + n)
          ELSE IF web THEN Http(payload, place + o, summed)
          ELSE Unsupported(summed, y, place + n)
  BY DEF Tcp, WithPayload
<1>4. n \in Nat /\ last \in Nat
  OBVIOUS
<1>5. n >= 20 => o \in Nat
  BY DataOffsetNat
<1>. HIDE DEF a, sum, y
<1>6. IsReport(counted) /\ counted.status = "OK" /\ counted.layers = a.layers
  <2>. HIDE DEF counted
  <2>. QED
    BY <1>1, <1>2, ChecksumRecorded DEF counted
<1>. HIDE DEF counted
<1>7. /\ SoFar(summed, 3) /\ IsReport(summed) /\ LastLayer(summed) = "TCP" /\ Extends(summed, r)
  <2>. HIDE DEF summed
  <2>1. IsReport(summed) /\ summed.layers = a.layers /\ summed.status = "OK"
    BY <1>6, ReportLengths DEF Alike, summed
  <2>2. SoFar(summed, 3) /\ LastLayer(summed) = LastLayer(a)
    BY <1>1, <2>1, SoFarKept
  <2>. QED
    BY <1>1, <2>1, <2>2, ExtendsKept
<1>. HIDE DEF o, n, summed, x, reserved, web, last, payload
<1>8. \/ \E code \in {"TRUNCATED", "MALFORMED"} : \E parsed \in Nat : parsed <= last /\ x = Stopped(a, code, parsed)
      \/ o \in Nat /\ o <= n /\ x = Http(payload, place + o, summed)
      \/ x = Unsupported(summed, y, last)
  <2>1. CASE n < 20
    <3>1. x = Stopped(a, "TRUNCATED", last) /\ last <= last
      BY <1>3, <1>4, <2>1 DEF last
    <3>. QED
      BY <1>4, <3>1
  <2>2. CASE ~(n < 20)
    <3>1. n >= 20 /\ o \in Nat
      BY <1>4, <1>5, <2>2
    <3>. DEFINE p == place + 13
                q == place + 20
                z == place + o
    <3>2. last <= last /\ p \in Nat /\ p <= last /\ q \in Nat /\ q <= last /\ (~(o > n) => o <= n)
      BY <1>4, <3>1 DEF last
    <3>3. x = IF reserved THEN Stopped(a, "MALFORMED", p)
              ELSE IF o < 20 THEN Stopped(a, "MALFORMED", q)
              ELSE IF o > n THEN Stopped(a, "TRUNCATED", last)
              ELSE IF web THEN Http(payload, z, summed)
              ELSE Unsupported(summed, y, last)
      BY <1>3, <2>2 DEF last
    <3>. HIDE DEF p, q, z
    <3>. QED
      BY <1>4, <3>1, <3>2, <3>3 DEF z
  <2>. QED
    BY <2>1, <2>2
<1>9. CASE \E code \in {"TRUNCATED", "MALFORMED"} : \E parsed \in Nat : parsed <= last /\ x = Stopped(a, code, parsed)
  <2>1. PICK code \in {"TRUNCATED", "MALFORMED"} : \E parsed \in Nat : parsed <= last /\ x = Stopped(a, code, parsed)
    BY <1>9
  <2>2. PICK parsed \in Nat : parsed <= last /\ x = Stopped(a, code, parsed)
    BY <2>1
  <2>3. Within(x, r, last) /\ LastLayer(x) = LastLayer(a)
    BY <1>1, <1>4, <2>2, WithinStopped
  <2>. QED
    BY <1>1, <2>3 DEF x, last, n
<1>10. CASE o \in Nat /\ o <= n /\ x = Http(payload, place + o, summed)
  <2>. DEFINE p == place + o
  <2>1. payload \in Seq(Byte) /\ Len(payload) = n - o
    BY <1>10, FromBytes DEF n, payload
  <2>2. p \in Nat
    BY <1>10
  <2>3. x = Http(payload, p, summed)
    BY <1>10
  <2>. HIDE DEF p
  <2>4. Within(x, summed, p + Len(payload)) /\ LastLayer(x) = "HTTP"
    BY <1>7, <2>1, <2>2, <2>3, HttpWithin
  <2>5. p + Len(payload) = last
    BY <1>4, <1>10, <2>1 DEF p, last
  <2>6. Within(x, r, last)
    BY <1>7, <2>4, <2>5, WithinMore
  <2>. QED
    BY <2>4, <2>6 DEF x, last, n
<1>11. CASE x = Unsupported(summed, y, last)
  <2>1. Within(x, r, last) /\ LastLayer(x) = LastLayer(summed)
    BY <1>4, <1>7, <1>11, WithinDone
  <2>. QED
    BY <1>7, <2>1 DEF x, last, n
<1>. QED
  BY <1>8, <1>9, <1>10, <1>11

LEMMA IcmpWithin ==
  ASSUME NEW r, SoFar(r, 2), NEW d \in Seq(Byte), Len(d) \in Half, NEW place \in Nat
  PROVE  LET x == Icmp(d, place, r)
         IN  Within(x, r, place + Len(d)) /\ LastLayer(x) # "DNS"
<1>. DEFINE a == AddLayer(r, "ICMP")
            n == Len(d)
            last == place + n
            y == n - 8
            counted == RecordChecksum(a, d, "TRANSPORT_CHECKSUM")
            x == Icmp(d, place, r)
<1>1. /\ SoFar(a, 3) /\ IsReport(a) /\ LastLayer(a) = "ICMP" /\ a.status = "OK" /\ Extends(a, r)
  BY LayerNext, ExtendsAdded DEF LayerNames
<1>2. n \in Nat /\ last \in Nat /\ last <= last /\ Len(d) \in Twice16
  BY DEF Half, Twice16
<1>3. x = IF n < 8 THEN Stopped(a, "TRUNCATED", last) ELSE WithLengths(counted, y, last)
  BY DEF Icmp, WithLengths
<1>. HIDE DEF a, last, y
<1>4. IsReport(counted) /\ counted.status = "OK" /\ counted.layers = a.layers
  <2>. HIDE DEF counted
  <2>. QED
    BY <1>1, <1>2, ChecksumRecorded DEF counted
<1>. HIDE DEF counted, x
<1>5. Extends(counted, r) /\ LastLayer(counted) = "ICMP"
  BY <1>1, <1>4, ExtendsKept DEF LastLayer
<1>6. Within(x, r, last) /\ LastLayer(x) = "ICMP"
  <2>1. CASE n < 8
    <3>1. x = Stopped(a, "TRUNCATED", last)
      BY <1>3, <2>1
    <3>2. Within(x, r, last) /\ LastLayer(x) = LastLayer(a)
      BY <1>1, <1>2, <3>1, WithinStopped
    <3>. QED
      BY <1>1, <3>2
  <2>2. CASE ~(n < 8)
    <3>1. x = WithLengths(counted, y, last)
      BY <1>3, <2>2
    <3>2. \E payload : x = Unsupported(counted, payload, last) \/ x = WithLengths(counted, payload, last)
      BY <3>1
    <3>3. Extends(counted, r) /\ IsReport(counted) /\ last \in Nat
      BY <1>2, <1>4, <1>5
    <3>. HIDE DEF n
    <3>4. Within(x, r, last) /\ LastLayer(x) = LastLayer(counted)
      BY <3>2, <3>3, WithinDone
    <3>. QED
      BY <1>5, <3>4
  <2>. QED
    BY <2>1, <2>2
<1>. QED
  BY <1>6 DEF x, last

(* Behind a header that is in order.                                         *)
AtTransport(d, r) ==
  LET p == Payload(d)
      n == HeaderLength(d)
  IN  IF Word(d, 6) % 16384 # 0 THEN Unsupported(r, Word(d, 2) - n, 14 + Word(d, 2))
      ELSE CASE At(d, 9) = 1  -> Icmp(p, 14 + n, r)
             [] At(d, 9) = 17 -> Udp(d, p, 14 + n, r)
             [] At(d, 9) = 6  -> Tcp(d, p, 14 + n, r)
             [] OTHER         -> Unsupported(r, Word(d, 2) - n, 14 + Word(d, 2))

LEMMA TransportWithin ==
  ASSUME NEW r, SoFar(r, 2), LastLayer(r) # "DNS", NEW d \in Seq(Byte), Framed(d)
  PROVE  LET x == AtTransport(d, r)
             p == Payload(d)
         IN  /\ Within(x, r, 14 + Word(d, 2))
             /\ LastLayer(x) = "DNS" =>
                  /\ Word(d, 6) % 16384 = 0 /\ At(d, 9) = 17
                  /\ Len(p) >= 8 /\ x.status = ParseDns(From(p, 8)).status
<1>. DEFINE p == Payload(d)
            n == HeaderLength(d)
            w == Word(d, 2)
            y == w - n
            last == 14 + w
            place == 14 + n
            fragment == Word(d, 6) % 16384 # 0
            protocol == At(d, 9)
            other == Unsupported(r, y, last)
            x == AtTransport(d, r)
            dns == Len(p) >= 8 /\ x.status = ParseDns(From(p, 8)).status
<1>1. /\ p \in Seq(Byte) /\ Len(p) \in Half /\ Len(p) = w - n /\ Len(d) >= 20 /\ w \in Nat /\ n \in Nat
  BY FramedBytes DEF Framed
<1>2. x = IF fragment THEN other
          ELSE CASE protocol = 1  -> Icmp(p, place, r)
                 [] protocol = 17 -> Udp(d, p, place, r)
                 [] protocol = 6  -> Tcp(d, p, place, r)
                 [] OTHER         -> other
  BY DEF AtTransport
<1>3. IsReport(r) /\ Extends(r, r) /\ last \in Nat /\ place \in Nat /\ place + Len(p) = last
  <2>1. IsReport(r)
    BY DEF SoFar
  <2>. HIDE DEF p, w, n
  <2>. QED
    BY <1>1, <2>1, ExtendsSame
<1>. HIDE DEF x, other, p, protocol, last, place, y, w, n
<1>4. \/ x = other
      \/ ~fragment /\ protocol = 1 /\ x = Icmp(p, place, r)
      \/ ~fragment /\ protocol = 17 /\ x = Udp(d, p, place, r)
      \/ ~fragment /\ protocol = 6 /\ x = Tcp(d, p, place, r)
  <2>. HIDE DEF fragment
  <2>1. CASE fragment \/ protocol \notin {1, 6, 17}
    BY <1>2, <2>1
  <2>2. CASE ~fragment /\ protocol = 1
    BY <1>2, <2>2
  <2>3. CASE ~fragment /\ protocol = 17
    BY <1>2, <2>3
  <2>4. CASE ~fragment /\ protocol = 6
    BY <1>2, <2>4
  <2>. QED
    BY <2>1, <2>2, <2>3, <2>4
<1>5. Within(x, r, last) /\ (LastLayer(x) = "DNS" => ~fragment /\ protocol = 17 /\ dns)
  <2>. HIDE DEF fragment, dns
  <2>1. CASE x = other
    <3>1. Within(x, r, last) /\ LastLayer(x) = LastLayer(r)
      BY <1>3, <2>1, WithinDone DEF other
    <3>. QED
      BY <3>1
  <2>2. CASE ~fragment /\ protocol = 1 /\ x = Icmp(p, place, r)
    <3>1. Within(x, r, place + Len(p))
      BY <1>1, <1>3, <2>2, IcmpWithin
    <3>2. LastLayer(x) # "DNS"
      BY <1>1, <1>3, <2>2, IcmpWithin
    <3>. QED
      BY <1>3, <3>1, <3>2
  <2>3. CASE ~fragment /\ protocol = 17 /\ x = Udp(d, p, place, r)
    <3>1. Within(x, r, place + Len(p))
      BY <1>1, <1>3, <2>3, UdpWithin
    <3>2. LastLayer(x) = "DNS" => dns
      BY <1>1, <1>3, <2>3, UdpWithin DEF dns
    <3>. QED
      BY <1>3, <2>3, <3>1, <3>2
  <2>4. CASE ~fragment /\ protocol = 6 /\ x = Tcp(d, p, place, r)
    <3>1. Within(x, r, place + Len(p))
      BY <1>1, <1>3, <2>4, TcpWithin
    <3>2. LastLayer(x) # "DNS"
      BY <1>1, <1>3, <2>4, TcpWithin
    <3>. QED
      BY <1>3, <3>1, <3>2
  <2>. QED
    BY <1>4, <2>1, <2>2, <2>3, <2>4
<1>. QED
  BY <1>5 DEF x, p, protocol, last, w

LEMMA Ipv4Cases ==
  ASSUME NEW d \in Seq(Byte), NEW r
  PROVE  LET a == AddLayer(r, "IPV4")
             n == Len(d)
             h == HeaderLength(d)
             w == Word(d, 2)
             summed == RecordChecksum(a, Slice(d, 0, h), "IPV4_CHECKSUM")
         IN  Ipv4(d, r) = IF n < 20 THEN Stopped(a, "TRUNCATED", 14 + n)
                          ELSE IF At(d, 0) \div 16 # 4 \/ h < 20 THEN Stopped(a, "MALFORMED", 15)
                          ELSE IF h > n THEN Stopped(a, "TRUNCATED", 14 + n)
                          ELSE IF w < h THEN Stopped(a, "MALFORMED", 14 + h)
                          ELSE IF w > n THEN Stopped(a, "TRUNCATED", 14 + n)
                          ELSE IF Word(d, 6) >= 32768 THEN Stopped(summed, "MALFORMED", 22)
                          ELSE AtTransport(d, summed)
BY DEF Ipv4, AtTransport

LEMMA HeaderNumbers ==
  ASSUME NEW d \in Seq(Byte), Len(d) >= 20
  PROVE  HeaderLength(d) \in Nat /\ Word(d, 2) \in Nat /\ Word(d, 6) \in Nat
<1>1. Word(d, 2) \in Half /\ Word(d, 6) \in Half
  BY WordHalf
<1>2. HeaderLength(d) \in Nat
  BY HeaderLengthRange
<1>. QED
  BY <1>1, <1>2 DEF Half

LEMMA Ipv4Within ==
  ASSUME NEW r, SoFar(r, 1), NEW d \in Seq(Byte)
  PROVE  LET x == Ipv4(d, r)
             p == Payload(d)
         IN  /\ IsReport(x) /\ Extends(x, AddLayer(r, "IPV4"))
             /\ x.parsed_length \in Nat /\ x.parsed_length <= 14 + Len(d)
             /\ x.status = "OK" => Framed(d) /\ x.parsed_length = 14 + Word(d, 2)
             /\ LastLayer(x) = "DNS" =>
                  /\ Framed(d) /\ Word(d, 6) % 16384 = 0 /\ At(d, 9) = 17
                  /\ Len(p) >= 8 /\ x.status = ParseDns(From(p, 8)).status
<1>. DEFINE a == AddLayer(r, "IPV4")
            n == Len(d)
            h == HeaderLength(d)
            w == Word(d, 2)
            v == At(d, 0) \div 16
            ff == Word(d, 6)
            summed == RecordChecksum(a, Slice(d, 0, h), "IPV4_CHECKSUM")
            x == Ipv4(d, r)
            p == Payload(d)
            last == 14 + n
            end == 14 + w
            found == /\ Word(d, 6) % 16384 = 0 /\ At(d, 9) = 17
                     /\ Len(p) >= 8 /\ x.status = ParseDns(From(p, 8)).status
<1>1. SoFar(a, 2) /\ IsReport(a) /\ a.status = "OK" /\ LastLayer(a) = "IPV4" /\ Extends(a, a)
  <2>1. SoFar(a, 2) /\ IsReport(a) /\ a.status = "OK" /\ LastLayer(a) = "IPV4"
    BY LayerNext DEF LayerNames
  <2>. HIDE DEF a
  <2>. QED
    BY <2>1, ExtendsSame
<1>2. x = IF n < 20 THEN Stopped(a, "TRUNCATED", 14 + n)
          ELSE IF v # 4 \/ h < 20 THEN Stopped(a, "MALFORMED", 15)
          ELSE IF h > n THEN Stopped(a, "TRUNCATED", 14 + n)
          ELSE IF w < h THEN Stopped(a, "MALFORMED", 14 + h)
          ELSE IF w > n THEN Stopped(a, "TRUNCATED", 14 + n)
          ELSE IF ff >= 32768 THEN Stopped(summed, "MALFORMED", 22)
          ELSE AtTransport(d, summed)
  BY Ipv4Cases
<1>3. n \in Nat /\ last \in Nat
  OBVIOUS
<1>4. n >= 20 => h \in Nat /\ w \in Nat /\ ff \in Nat
  BY HeaderNumbers
<1>5. Framed(d) <=> n >= 20 /\ v = 4 /\ h >= 20 /\ h <= n /\ w >= h /\ w <= n
  BY DEF Framed
<1>6. Framed(d) => /\ SoFar(summed, 2) /\ IsReport(summed) /\ LastLayer(summed) = "IPV4" /\ Extends(summed, a)
  <2>. SUFFICES ASSUME Framed(d)
                PROVE  SoFar(summed, 2) /\ IsReport(summed) /\ LastLayer(summed) = "IPV4" /\ Extends(summed, a)
    OBVIOUS
  <2>1. Slice(d, 0, h) \in Seq(Byte) /\ Len(Slice(d, 0, h)) \in Twice16
    BY FramedBytes
  <2>. HIDE DEF a, h, summed
  <2>2. IsReport(summed) /\ summed.status = a.status /\ summed.layers = a.layers
    BY <1>1, <2>1, ChecksumRecorded DEF summed
  <2>3. SoFar(summed, 2) /\ LastLayer(summed) = LastLayer(a)
    BY <1>1, <2>2, SoFarKept
  <2>. QED
    BY <1>1, <2>2, <2>3, ExtendsKept
<1>. DEFINE Early == \E code \in {"TRUNCATED", "MALFORMED"} : \E parsed \in Nat :
                       parsed <= last /\ x = Stopped(a, code, parsed)
            Late == Framed(d) /\ x = Stopped(summed, "MALFORMED", 22)
            Through == Framed(d) /\ x = AtTransport(d, summed)
<1>. HIDE DEF a, n, h, w, v, ff, summed, x, p, last, end
<1>7. Early \/ Late \/ Through
  <2>1. CASE n < 20
    <3>1. x = Stopped(a, "TRUNCATED", last) /\ last <= last
      BY <1>2, <1>3, <2>1 DEF last
    <3>. QED
      BY <1>3, <3>1
  <2>2. CASE ~(n < 20)
    <3>1. n >= 20 /\ h \in Nat /\ w \in Nat
      BY <1>3, <1>4, <2>2
    <3>. DEFINE q == 14 + h
                m == 15
    <3>2. last <= last /\ q \in Nat /\ (~(h > n) => q <= last) /\ m \in Nat /\ m <= last
      BY <1>3, <3>1 DEF last
    <3>3. x = IF v # 4 \/ h < 20 THEN Stopped(a, "MALFORMED", m)
              ELSE IF h > n THEN Stopped(a, "TRUNCATED", last)
              ELSE IF w < h THEN Stopped(a, "MALFORMED", q)
              ELSE IF w > n THEN Stopped(a, "TRUNCATED", last)
              ELSE IF ff >= 32768 THEN Stopped(summed, "MALFORMED", 22)
              ELSE AtTransport(d, summed)
      BY <1>2, <2>2 DEF last
    <3>4. ~(v # 4 \/ h < 20) /\ ~(h > n) /\ ~(w < h) /\ ~(w > n) => Framed(d)
      BY <1>3, <1>5, <3>1
    <3>. HIDE DEF q, m
    <3>. QED
      BY <1>3, <3>2, <3>3, <3>4
  <2>. QED
    BY <2>1, <2>2
<1>8. Framed(d) => end \in Nat /\ end <= last
  BY <1>3, <1>4, <1>5 DEF end, last
<1>. DEFINE Good == /\ IsReport(x) /\ Extends(x, a)
                    /\ x.parsed_length \in Nat /\ x.parsed_length <= last
                    /\ x.status = "OK" => Framed(d) /\ x.parsed_length = end
                    /\ LastLayer(x) = "DNS" => Framed(d) /\ found
<1>9. CASE Early
  <2>1. PICK code \in {"TRUNCATED", "MALFORMED"} : \E parsed \in Nat : parsed <= last /\ x = Stopped(a, code, parsed)
    BY <1>9
  <2>2. PICK parsed \in Nat : parsed <= last /\ x = Stopped(a, code, parsed)
    BY <2>1
  <2>3. Within(x, a, last) /\ LastLayer(x) = LastLayer(a) /\ x.status = code
    BY <1>1, <1>3, <2>2, WithinStopped
  <2>4. x.status # "OK" /\ LastLayer(x) # "DNS"
    BY <1>1, <2>3
  <2>. HIDE DEF found
  <2>5. Good
    BY <2>3, <2>4 DEF Within
  <2>. QED
    BY <2>5 DEF a, x, last, end, found, p, w, n
<1>10. CASE Late
  <2>. DEFINE m == 22
  <2>1. x = Stopped(summed, "MALFORMED", m) /\ m \in Nat /\ m <= last
    BY <1>3, <1>5, <1>10 DEF last
  <2>. HIDE DEF m
  <2>2. Within(x, a, last) /\ LastLayer(x) = LastLayer(summed) /\ x.status = "MALFORMED"
    BY <1>3, <1>6, <1>10, <2>1, WithinStopped
  <2>3. x.status # "OK" /\ LastLayer(x) # "DNS"
    BY <1>6, <1>10, <2>2
  <2>. HIDE DEF found
  <2>4. Good
    BY <2>2, <2>3 DEF Within
  <2>. QED
    BY <2>4 DEF a, x, last, end, found, p, w, n
<1>11. CASE Through
  <2>1. LastLayer(summed) # "DNS"
    BY <1>6, <1>11
  <2>2. Within(x, summed, end) /\ (LastLayer(x) = "DNS" => found)
    <3>1. Within(x, summed, end)
      BY <1>6, <1>11, <2>1, TransportWithin DEF end, w
    <3>2. LastLayer(x) = "DNS" => found
      BY <1>6, <1>11, <2>1, TransportWithin DEF p
    <3>. QED
      BY <3>1, <3>2
  <2>. HIDE DEF found
  <2>3. Within(x, a, end)
    BY <1>6, <1>11, <2>2, WithinMore
  <2>4. x.parsed_length <= last
    BY <1>3, <1>8, <1>11, <2>3 DEF Within
  <2>5. Good
    BY <1>11, <2>2, <2>3, <2>4 DEF Within
  <2>. QED
    BY <2>5 DEF a, x, last, end, found, p, w, n
<1>. QED
  BY <1>7, <1>9, <1>10, <1>11

-----------------------------------------------------------------------------
(* The report on the first n bytes, against the report on all of them.       *)

Cut(short, full, n) ==
  /\ full.status = "OK" => IF n >= full.parsed_length THEN short = full ELSE IsCutOf(short, full)
  /\ full.status # "OK" => short.status # "OK"

LEMMA CutSame ==
  ASSUME NEW full, NEW n \in Nat, full.status = "OK" => n >= full.parsed_length
  PROVE  Cut(full, full, n)
BY DEF Cut

(* A report that ended before a layer that the other one has passed.         *)
LEMMA CutShort ==
  ASSUME NEW a, IsReport(a), NEW parsed, NEW short, short = Stopped(a, "TRUNCATED", parsed),
         NEW full, Extends(full, a), NEW n \in Nat,
         full.status = "OK" => full.parsed_length \in Nat /\ n < full.parsed_length
  PROVE  Cut(short, full, n)
<1>1. Alike(short, a) /\ short.status = "TRUNCATED"
  BY ReportStopped
<1>. DEFINE l == a.layers
            m == full.layers
            k == Len(l)
<1>2. /\ l \in Seq(LayerNames) /\ m \in Seq(LayerNames) /\ k <= Len(m) /\ k \in Nat
      /\ \A i \in 1..k : m[i] = l[i]
  BY DEF Extends
<1>. HIDE DEF l, m
<1>3. l = SubSeq(m, 1, k)
  <2>. DEFINE s == SubSeq(m, 1, k)
  <2>1. s \in Seq(LayerNames) /\ Len(s) = k /\ \A i \in 1..k : s[i] = m[i]
    BY <1>2
  <2>. HIDE DEF s
  <2>2. \A i \in 1..k : s[i] = l[i]
    BY <1>2, <2>1
  <2>3. l = s
    BY <1>2, <2>1, <2>2
  <2>. QED
    BY <2>3 DEF s
<1>4. short.layers = l
  BY <1>1 DEF Alike, l
<1>5. IsCutOf(short, full)
  BY <1>1, <1>2, <1>3, <1>4 DEF IsCutOf, m
<1>6. full.status = "OK" => ~(n >= full.parsed_length)
  OBVIOUS
<1>7. short.status # "OK"
  BY <1>1
<1>. QED
  BY <1>5, <1>6, <1>7 DEF Cut

LEMMA CutRefused ==
  ASSUME NEW a, IsReport(a), NEW code \in {"TRUNCATED", "MALFORMED"}, NEW parsed,
         NEW short, short = Stopped(a, code, parsed), NEW full, full.status # "OK", NEW n
  PROVE  Cut(short, full, n)
<1>1. short.status = code
  BY ReportStopped
<1>2. short.status # "OK"
  BY <1>1
<1>. QED
  BY <1>2 DEF Cut

LEMMA PrefixBytes ==
  ASSUME NEW d \in Seq(Byte), NEW k \in Nat, k <= Len(d)
  PROVE  LET e == Slice(d, 0, k)
         IN  /\ e \in Seq(Byte) /\ Len(e) = k
             /\ \A i \in Nat : i < k => At(e, i) = At(d, i)
             /\ \A i \in Nat : i + 1 < k => Word(e, i) = Word(d, i)
             /\ \A o \in Nat, n \in Nat : o + n <= k => Slice(e, o, n) = Slice(d, o, n)
             /\ \A o \in Nat : o <= k => From(e, o) = Slice(From(d, o), 0, k - o)
<1>. DEFINE e == Slice(d, 0, k)
<1>1. 0 + k <= Len(d) /\ 0 \in Nat /\ Len(d) \in Nat
  OBVIOUS
<1>2. e \in Seq(Byte) /\ Len(e) = k /\ \A i \in 0..(k - 1) : At(e, i) = At(d, 0 + i)
  BY <1>1, SliceBytes
<1>. HIDE DEF e
<1>3. ASSUME NEW i \in Nat, i < k PROVE At(e, i) = At(d, i)
  <2>1. i \in 0..(k - 1) /\ 0 + i = i
    BY <1>3
  <2>. QED
    BY <1>2, <2>1
<1>4. ASSUME NEW i \in Nat, i + 1 < k PROVE Word(e, i) = Word(d, i)
  <2>1. i < k /\ i + 1 \in Nat
    BY <1>4
  <2>2. At(e, i) = At(d, i) /\ At(e, i + 1) = At(d, i + 1)
    BY <1>3, <1>4, <2>1
  <2>. QED
    BY <2>2 DEF Word
<1>5. ASSUME NEW o \in Nat, NEW n \in Nat, o + n <= k PROVE Slice(e, o, n) = Slice(d, o, n)
  <2>. DEFINE x == Slice(e, o, n)
              y == Slice(d, o, n)
  <2>1. o + n <= Len(e) /\ o + n <= Len(d)
    BY <1>1, <1>2, <1>5
  <2>2. x \in Seq(Byte) /\ Len(x) = n /\ \A i \in 0..(n - 1) : At(x, i) = At(e, o + i)
    BY <1>2, <2>1, SliceBytes
  <2>3. y \in Seq(Byte) /\ Len(y) = n /\ \A i \in 0..(n - 1) : At(y, i) = At(d, o + i)
    BY <2>1, SliceBytes
  <2>. HIDE DEF x, y
  <2>4. ASSUME NEW i \in 0..(n - 1) PROVE At(x, i) = At(y, i)
    <3>1. o + i \in Nat /\ o + i < k
      BY <1>5
    <3>2. At(e, o + i) = At(d, o + i)
      BY <1>3, <3>1
    <3>. QED
      BY <2>2, <2>3, <3>2
  <2>5. x = y
    BY <2>2, <2>3, <2>4, SameBytes
  <2>. QED
    BY <2>5 DEF x, y
<1>6. ASSUME NEW o \in Nat, o <= k PROVE From(e, o) = Slice(From(d, o), 0, k - o)
  <2>. DEFINE m == k - o
              g == From(d, o)
              y == Slice(g, 0, m)
              x == From(e, o)
  <2>1. m \in Nat /\ o <= Len(d) /\ o <= Len(e) /\ 0 + m <= Len(d) - o
    BY <1>1, <1>2, <1>6
  <2>2. x \in Seq(Byte) /\ Len(x) = m /\ \A i \in 0..(m - 1) : At(x, i) = At(e, o + i)
    BY <1>2, <2>1, FromBytes
  <2>3. g \in Seq(Byte) /\ Len(g) = Len(d) - o /\ \A i \in 0..(Len(d) - o - 1) : At(g, i) = At(d, o + i)
    BY <2>1, FromBytes
  <2>. HIDE DEF g, x
  <2>4. y \in Seq(Byte) /\ Len(y) = m /\ \A i \in 0..(m - 1) : At(y, i) = At(g, 0 + i)
    <3>. HIDE DEF m
    <3>1. 0 + m <= Len(g)
      BY <2>1, <2>3
    <3>. QED
      BY <1>1, <2>1, <2>3, <3>1, SliceBytes
  <2>. HIDE DEF y
  <2>5. ASSUME NEW i \in 0..(m - 1) PROVE At(x, i) = At(y, i)
    <3>1. o + i \in Nat /\ o + i < k /\ 0 + i = i /\ i \in 0..(Len(d) - o - 1)
      BY <1>1, <1>6
    <3>2. At(e, o + i) = At(d, o + i)
      BY <1>3, <3>1
    <3>3. At(y, i) = At(d, o + i)
      BY <2>3, <2>4, <3>1
    <3>. QED
      BY <2>2, <3>2, <3>3
  <2>. HIDE DEF m
  <2>6. x = y
    BY <2>2, <2>4, <2>5, SameBytes
  <2>. QED
    BY <2>6 DEF x, y, m, g
<1>. QED
  BY <1>2, <1>3, <1>4, <1>5, <1>6 DEF e

LEMMA AddressesDecide ==
  ASSUME NEW d, NEW e, Slice(e, 12, 4) = Slice(d, 12, 4), Slice(e, 16, 4) = Slice(d, 16, 4),
         NEW p, NEW place, NEW r
  PROVE  Udp(e, p, place, r) = Udp(d, p, place, r) /\ Tcp(e, p, place, r) = Tcp(d, p, place, r)
BY DEF Udp, Tcp

(* Enough of a packet is all of it.                                          *)
LEMMA PacketPrefix ==
  ASSUME NEW d \in Seq(Byte), NEW k \in Nat, k <= Len(d), k >= 20,
         HeaderLength(d) <= k, HeaderLength(d) <= Word(d, 2), Word(d, 2) <= k, NEW r
  PROVE  LET e == Slice(d, 0, k)
         IN  /\ Slice(e, 0, HeaderLength(d)) = Slice(d, 0, HeaderLength(d))
             /\ AtTransport(e, r) = AtTransport(d, r)
<1>. DEFINE e == Slice(d, 0, k)
            h == HeaderLength(d)
            w == Word(d, 2)
            m == w - h
<1>1. h \in Nat /\ w \in Nat
  BY HeaderNumbers
<1>2. m \in Nat /\ h + m <= k /\ 0 + h <= k /\ 0 \in Nat
  <2>. HIDE DEF h, w
  <2>. QED
    BY <1>1 DEF h, w
<1>3. /\ \A i \in Nat : i < k => At(e, i) = At(d, i)
      /\ \A i \in Nat : i + 1 < k => Word(e, i) = Word(d, i)
      /\ \A o \in Nat, n \in Nat : o + n <= k => Slice(e, o, n) = Slice(d, o, n)
  BY PrefixBytes
<1>. HIDE DEF e
<1>4. At(e, 0) = At(d, 0) /\ At(e, 9) = At(d, 9) /\ Word(e, 2) = Word(d, 2) /\ Word(e, 6) = Word(d, 6)
  BY <1>3
<1>5. HeaderLength(e) = HeaderLength(d)
  BY <1>4 DEF HeaderLength
<1>6. Slice(e, 12, 4) = Slice(d, 12, 4) /\ Slice(e, 16, 4) = Slice(d, 16, 4)
  <2>1. 12 \in Nat /\ 16 \in Nat /\ 4 \in Nat /\ 12 + 4 <= k /\ 16 + 4 <= k
    OBVIOUS
  <2>. QED
    BY <1>3, <2>1
<1>. HIDE DEF m
<1>7. Slice(e, h, m) = Slice(d, h, m) /\ Slice(e, 0, h) = Slice(d, 0, h)
  BY <1>1, <1>2, <1>3
<1>8. Payload(e) = Payload(d)
  BY <1>4, <1>5, <1>7 DEF Payload, m
<1>9. AtTransport(e, r) = AtTransport(d, r)
  BY <1>4, <1>5, <1>6, <1>8, AddressesDecide DEF AtTransport
<1>. QED
  BY <1>7, <1>9 DEF e

LEMMA Ipv4Cut ==
  ASSUME NEW r, SoFar(r, 1), NEW d \in Seq(Byte), NEW k \in Nat, k <= Len(d)
  PROVE  Cut(Ipv4(Slice(d, 0, k), r), Ipv4(d, r), 14 + k)
<1>. DEFINE e == Slice(d, 0, k)
            a == AddLayer(r, "IPV4")
            n == Len(d)
            h == HeaderLength(d)
            w == Word(d, 2)
            bad == At(d, 0) \div 16 # 4
            ff == Word(d, 6)
            head == Slice(d, 0, h)
            summed == RecordChecksum(a, head, "IPV4_CHECKSUM")
            other == RecordChecksum(a, Slice(e, 0, h), "IPV4_CHECKSUM")
            x == Ipv4(d, r)
            y == Ipv4(e, r)
            last == 14 + k
<1>1. IsReport(a)
  BY LayerNext DEF LayerNames
<1>2. /\ e \in Seq(Byte) /\ Len(e) = k
      /\ \A i \in Nat : i < k => At(e, i) = At(d, i)
      /\ \A i \in Nat : i + 1 < k => Word(e, i) = Word(d, i)
  BY PrefixBytes
<1>3. x = IF n < 20 THEN Stopped(a, "TRUNCATED", 14 + n)
          ELSE IF bad \/ h < 20 THEN Stopped(a, "MALFORMED", 15)
          ELSE IF h > n THEN Stopped(a, "TRUNCATED", 14 + n)
          ELSE IF w < h THEN Stopped(a, "MALFORMED", 14 + h)
          ELSE IF w > n THEN Stopped(a, "TRUNCATED", 14 + n)
          ELSE IF ff >= 32768 THEN Stopped(summed, "MALFORMED", 22)
          ELSE AtTransport(d, summed)
  BY Ipv4Cases
<1>4. k < 20 => y = Stopped(a, "TRUNCATED", last)
  <2>. HIDE DEF e, a
  <2>. QED
    BY <1>2, Ipv4Cases DEF a
<1>5. k >= 20 =>
        y = IF bad \/ h < 20 THEN Stopped(a, "MALFORMED", 15)
            ELSE IF h > k THEN Stopped(a, "TRUNCATED", last)
            ELSE IF w < h THEN Stopped(a, "MALFORMED", 14 + h)
            ELSE IF w > k THEN Stopped(a, "TRUNCATED", last)
            ELSE IF ff >= 32768 THEN Stopped(other, "MALFORMED", 22)
            ELSE AtTransport(e, other)
  <2>. SUFFICES ASSUME k >= 20
                PROVE  y = IF bad \/ h < 20 THEN Stopped(a, "MALFORMED", 15)
                           ELSE IF h > k THEN Stopped(a, "TRUNCATED", last)
                           ELSE IF w < h THEN Stopped(a, "MALFORMED", 14 + h)
                           ELSE IF w > k THEN Stopped(a, "TRUNCATED", last)
                           ELSE IF ff >= 32768 THEN Stopped(other, "MALFORMED", 22)
                           ELSE AtTransport(e, other)
    OBVIOUS
  <2>. HIDE DEF e
  <2>1. At(e, 0) = At(d, 0) /\ Word(e, 2) = w /\ Word(e, 6) = ff
    BY <1>2
  <2>2. HeaderLength(e) = h
    BY <2>1 DEF HeaderLength
  <2>. DEFINE i == HeaderLength(e)
              j == Word(e, 2)
              s == RecordChecksum(a, Slice(e, 0, i), "IPV4_CHECKSUM")
  <2>3. y = IF Len(e) < 20 THEN Stopped(a, "TRUNCATED", 14 + Len(e))
            ELSE IF At(e, 0) \div 16 # 4 \/ i < 20 THEN Stopped(a, "MALFORMED", 15)
            ELSE IF i > Len(e) THEN Stopped(a, "TRUNCATED", 14 + Len(e))
            ELSE IF j < i THEN Stopped(a, "MALFORMED", 14 + i)
            ELSE IF j > Len(e) THEN Stopped(a, "TRUNCATED", 14 + Len(e))
            ELSE IF Word(e, 6) >= 32768 THEN Stopped(s, "MALFORMED", 22)
            ELSE AtTransport(e, s)
    BY <1>2, Ipv4Cases
  <2>4. i = h /\ j = w /\ s = other /\ ~(Len(e) < 20)
    BY <1>2, <2>1, <2>2
  <2>. HIDE DEF y, i, j, s, h, w, other, a, ff
  <2>. QED
    BY <1>2, <2>1, <2>3, <2>4
<1>6. n \in Nat /\ last \in Nat
  OBVIOUS
<1>7. k >= 20 => h \in Nat /\ w \in Nat /\ ff \in Nat
  <2>1. k >= 20 => n >= 20
    BY <1>6
  <2>. QED
    BY <2>1, HeaderNumbers
<1>8. /\ Extends(x, a) /\ IsReport(x)
      /\ x.status = "OK" => Framed(d) /\ x.parsed_length = 14 + w
  BY Ipv4Within
<1>9. Framed(d) => n >= 20 /\ ~bad /\ h >= 20 /\ h <= n /\ w >= h /\ w <= n
  BY DEF Framed
<1>10. Framed(d) => h \in Nat /\ w \in Nat
  <2>1. Framed(d) => n >= 20
    BY <1>9
  <2>. QED
    BY <2>1, HeaderNumbers
<1>11. k >= 20 /\ h <= k /\ h <= w /\ w <= k => other = summed /\ AtTransport(e, summed) = AtTransport(d, summed)
  <2>1. k >= 20 /\ h <= k /\ h <= w /\ w <= k =>
          Slice(e, 0, h) = head /\ AtTransport(e, summed) = AtTransport(d, summed)
    BY PacketPrefix
  <2>. HIDE DEF head, e, h, w
  <2>. QED
    BY <2>1
<1>. HIDE DEF e, a, n, h, w, bad, ff, head, summed, other, x, y, last
<1>12. Cut(y, x, last)
  <2>1. ASSUME y = Stopped(a, "TRUNCATED", last), x.status = "OK" => 14 + w > last
        PROVE  Cut(y, x, last)
    <3>1. x.status = "OK" => x.parsed_length \in Nat /\ last < x.parsed_length
      BY <1>6, <1>8, <1>10, <2>1
    <3>. QED
      BY <1>1, <1>6, <1>8, <2>1, <3>1, CutShort
  <2>2. ASSUME NEW code \in {"TRUNCATED", "MALFORMED"}, NEW parsed, y = Stopped(a, code, parsed), x.status # "OK"
        PROVE  Cut(y, x, last)
    BY <1>1, <2>2, CutRefused
  <2>3. CASE k < 20
    <3>1. x.status = "OK" => 14 + w > last
      BY <1>6, <1>8, <1>9, <1>10, <2>3 DEF last
    <3>. QED
      BY <1>4, <2>1, <2>3, <3>1
  <2>4. CASE k >= 20 /\ (bad \/ h < 20)
    <3>1. x.status # "OK"
      BY <1>7, <1>8, <1>9, <2>4
    <3>. QED
      BY <1>5, <2>2, <2>4, <3>1
  <2>5. CASE k >= 20 /\ ~(bad \/ h < 20) /\ h > k
    <3>1. x.status = "OK" => 14 + w > last
      BY <1>7, <1>8, <1>9, <2>5 DEF last
    <3>. QED
      BY <1>5, <2>1, <2>5, <3>1
  <2>6. CASE k >= 20 /\ ~(bad \/ h < 20) /\ ~(h > k) /\ w < h
    <3>1. x.status # "OK"
      BY <1>7, <1>8, <1>9, <2>6
    <3>. QED
      BY <1>5, <2>2, <2>6, <3>1
  <2>7. CASE k >= 20 /\ ~(bad \/ h < 20) /\ ~(h > k) /\ ~(w < h) /\ w > k
    <3>1. x.status = "OK" => 14 + w > last
      BY <1>7, <2>7 DEF last
    <3>. QED
      BY <1>5, <2>1, <2>7, <3>1
  <2>8. CASE k >= 20 /\ ~(bad \/ h < 20) /\ ~(h > k) /\ ~(w < h) /\ ~(w > k)
    <3>1. h <= k /\ h <= w /\ w <= k /\ ~(n < 20) /\ ~(h > n) /\ ~(w > n)
      <4>1. k <= n
        BY DEF n
      <4>. QED
        BY <1>6, <1>7, <2>8, <4>1
    <3>2. y = IF ff >= 32768 THEN Stopped(other, "MALFORMED", 22) ELSE AtTransport(e, other)
      BY <1>5, <2>8
    <3>3. x = IF ff >= 32768 THEN Stopped(summed, "MALFORMED", 22) ELSE AtTransport(d, summed)
      BY <1>3, <2>8, <3>1
    <3>4. y = x
      BY <1>11, <2>8, <3>1, <3>2, <3>3
    <3>5. x.status = "OK" => last >= x.parsed_length
      BY <1>7, <1>8, <2>8, <3>1 DEF last
    <3>. QED
      BY <1>6, <3>4, <3>5, CutSame
  <2>. QED
    BY <2>3, <2>4, <2>5, <2>6, <2>7, <2>8
<1>. QED
  BY <1>12 DEF x, y, e, last

ArpLength(d) == 8 + 2 * (At(d, 4) + At(d, 5))

LEMMA ArpCases ==
  ASSUME NEW d \in Seq(Byte), NEW r
  PROVE  LET a == AddLayer(r, "ARP")
             m == ArpLength(d)
         IN  /\ Arp(d, r) = IF Len(d) < 8 \/ m > Len(d) THEN Stopped(a, "TRUNCATED", 14 + Len(d))
                            ELSE IF ~ArpOfEthernetAndIpv4(d) THEN Stopped(a, "MALFORMED", 14 + m)
                            ELSE WithLengths(a, m, 14 + m)
             /\ Len(d) >= 8 => m \in Nat /\ m >= 8
<1>1. ASSUME Len(d) >= 8 PROVE ArpLength(d) \in Nat /\ ArpLength(d) >= 8
  <2>1. At(d, 4) \in Byte /\ At(d, 5) \in Byte
    BY <1>1, AtByte
  <2>2. At(d, 4) \in Nat /\ At(d, 5) \in Nat
    BY <2>1, ByteRange
  <2>. QED
    BY <2>2 DEF ArpLength
<1>2. Arp(d, r) = IF Len(d) < 8 \/ ArpLength(d) > Len(d) THEN Stopped(AddLayer(r, "ARP"), "TRUNCATED", 14 + Len(d))
                  ELSE IF ~ArpOfEthernetAndIpv4(d) THEN Stopped(AddLayer(r, "ARP"), "MALFORMED", 14 + ArpLength(d))
                  ELSE WithLengths(AddLayer(r, "ARP"), ArpLength(d), 14 + ArpLength(d))
  BY DEF Arp, WithLengths, ArpLength
<1>. QED
  BY <1>1, <1>2

LEMMA ArpWithin ==
  ASSUME NEW r, SoFar(r, 1), NEW d \in Seq(Byte)
  PROVE  LET x == Arp(d, r)
         IN  /\ IsReport(x) /\ Extends(x, AddLayer(r, "ARP")) /\ LastLayer(x) = "ARP"
             /\ x.parsed_length \in Nat /\ x.parsed_length <= 14 + Len(d)
             /\ x.status = "OK" => Len(d) >= 8 /\ x.parsed_length = 14 + ArpLength(d)
<1>. DEFINE a == AddLayer(r, "ARP")
            n == Len(d)
            m == ArpLength(d)
            last == 14 + n
            end == 14 + m
            x == Arp(d, r)
            right == ArpOfEthernetAndIpv4(d)
<1>1. IsReport(a) /\ a.status = "OK" /\ LastLayer(a) = "ARP" /\ Extends(a, a)
  <2>1. IsReport(a) /\ a.status = "OK" /\ LastLayer(a) = "ARP"
    BY LayerNext DEF LayerNames
  <2>. HIDE DEF a
  <2>. QED
    BY <2>1, ExtendsSame
<1>2. /\ x = IF n < 8 \/ m > n THEN Stopped(a, "TRUNCATED", last)
             ELSE IF ~right THEN Stopped(a, "MALFORMED", end) ELSE WithLengths(a, m, end)
      /\ n >= 8 => m \in Nat /\ m >= 8
  BY ArpCases
<1>3. n \in Nat /\ last \in Nat /\ last <= last
  OBVIOUS
<1>. HIDE DEF a, x, m, n, last, right, end
<1>4. CASE n < 8 \/ m > n
  <2>1. x = Stopped(a, "TRUNCATED", last)
    BY <1>2, <1>4
  <2>2. Within(x, a, last) /\ x.status = "TRUNCATED" /\ LastLayer(x) = LastLayer(a)
    BY <1>1, <1>3, <2>1, WithinStopped
  <2>. QED
    BY <1>1, <2>2 DEF Within, x, a, last, n
<1>5. CASE ~(n < 8 \/ m > n)
  <2>1. n >= 8 /\ end \in Nat /\ end <= last /\ end <= end
    BY <1>2, <1>3, <1>5 DEF end, last
  <2>2. CASE ~right
    <3>1. x = Stopped(a, "MALFORMED", end)
      BY <1>2, <1>5, <2>2
    <3>2. Within(x, a, last) /\ x.status = "MALFORMED" /\ LastLayer(x) = LastLayer(a)
      BY <1>1, <1>3, <2>1, <3>1, WithinStopped
    <3>. QED
      BY <1>1, <3>2 DEF Within, x, a, last, n
  <2>3. CASE right
    <3>1. x = WithLengths(a, m, end)
      BY <1>2, <1>5, <2>3
    <3>2. Within(x, a, end) /\ LastLayer(x) = LastLayer(a)
      BY <1>1, <2>1, <3>1, WithinDone
    <3>3. x.parsed_length \in Nat /\ x.parsed_length <= last
      BY <1>3, <2>1, <3>2 DEF Within
    <3>. QED
      BY <1>1, <2>1, <3>2, <3>3 DEF Within, x, a, last, n, end, m
  <2>. QED
    BY <2>2, <2>3
<1>. QED
  BY <1>4, <1>5

LEMMA ArpCut ==
  ASSUME NEW r, SoFar(r, 1), NEW d \in Seq(Byte), NEW k \in Nat, k <= Len(d)
  PROVE  Cut(Arp(Slice(d, 0, k), r), Arp(d, r), 14 + k)
<1>. DEFINE e == Slice(d, 0, k)
            a == AddLayer(r, "ARP")
            n == Len(d)
            m == ArpLength(d)
            right == ArpOfEthernetAndIpv4(d)
            x == Arp(d, r)
            y == Arp(e, r)
            last == 14 + k
            end == 14 + m
<1>1. IsReport(a)
  BY LayerNext DEF LayerNames
<1>2. /\ e \in Seq(Byte) /\ Len(e) = k
      /\ \A i \in Nat : i < k => At(e, i) = At(d, i)
      /\ \A i \in Nat : i + 1 < k => Word(e, i) = Word(d, i)
  BY PrefixBytes
<1>3. /\ x = IF n < 8 \/ m > n THEN Stopped(a, "TRUNCATED", 14 + n)
             ELSE IF ~right THEN Stopped(a, "MALFORMED", end) ELSE WithLengths(a, m, end)
      /\ n >= 8 => m \in Nat /\ m >= 8
  BY ArpCases
<1>4. n \in Nat /\ last \in Nat /\ k <= n
  OBVIOUS
<1>5. y = IF k < 8 \/ ArpLength(e) > k THEN Stopped(a, "TRUNCATED", last)
          ELSE IF ~ArpOfEthernetAndIpv4(e) THEN Stopped(a, "MALFORMED", 14 + ArpLength(e))
          ELSE WithLengths(a, ArpLength(e), 14 + ArpLength(e))
  <2>. HIDE DEF e
  <2>. QED
    BY <1>2, ArpCases
<1>6. k >= 8 => ArpLength(e) = m /\ (ArpOfEthernetAndIpv4(e) <=> right)
  <2>. SUFFICES ASSUME k >= 8 PROVE ArpLength(e) = m /\ (ArpOfEthernetAndIpv4(e) <=> right)
    OBVIOUS
  <2>. HIDE DEF e
  <2>1. At(e, 4) = At(d, 4) /\ At(e, 5) = At(d, 5)
    BY <1>2
  <2>2. Word(e, 0) = Word(d, 0) /\ Word(e, 2) = Word(d, 2) /\ Word(e, 6) = Word(d, 6)
    BY <1>2
  <2>. QED
    BY <2>1, <2>2 DEF ArpLength, ArpOfEthernetAndIpv4
<1>7. /\ Extends(x, a)
      /\ x.status = "OK" => n >= 8 /\ x.parsed_length = end
  BY ArpWithin
<1>. HIDE DEF e, a, n, m, right, x, y, last, end
<1>8. CASE k < 8 \/ m > k
  <2>1. y = Stopped(a, "TRUNCATED", last)
    BY <1>4, <1>5, <1>6, <1>8
  <2>2. x.status = "OK" => x.parsed_length \in Nat /\ last < x.parsed_length
    BY <1>3, <1>4, <1>7, <1>8 DEF last, end
  <2>3. Cut(y, x, last)
    BY <1>1, <1>4, <1>7, <2>1, <2>2, CutShort
  <2>. QED
    BY <2>3 DEF y, x, e, last
<1>9. CASE ~(k < 8 \/ m > k)
  <2>1. ~(n < 8 \/ m > n) /\ k >= 8
    BY <1>3, <1>4, <1>9
  <2>2. y = x
    <3>1. x = IF ~right THEN Stopped(a, "MALFORMED", end) ELSE WithLengths(a, m, end)
      BY <1>3, <2>1
    <3>2. y = IF ~right THEN Stopped(a, "MALFORMED", end) ELSE WithLengths(a, m, end)
      BY <1>5, <1>6, <1>9, <2>1 DEF end
    <3>. QED
      BY <3>1, <3>2
  <2>3. x.status = "OK" => last >= x.parsed_length
    BY <1>3, <1>4, <1>7, <1>9 DEF last, end
  <2>4. Cut(y, x, last)
    BY <1>4, <2>2, <2>3, CutSame
  <2>. QED
    BY <2>4 DEF y, x, e, last
<1>. QED
  BY <1>8, <1>9

LEMMA EthernetReport ==
  LET a == AddLayer(Blank, "ETHERNET")
  IN  /\ SoFar(a, 1) /\ IsReport(a) /\ a.status = "OK" /\ LastLayer(a) = "ETHERNET" /\ ~Mismatched(a)
      /\ Extends(a, a)
<1>. DEFINE a == AddLayer(Blank, "ETHERNET")
<1>1. SoFar(a, 1) /\ IsReport(a) /\ a.status = "OK" /\ LastLayer(a) = "ETHERNET" /\ ~Mismatched(a)
  <2>1. "ETHERNET" \in LayerNames
    BY DEF LayerNames
  <2>. QED
    BY <2>1, BlankReport, LayerNext DEF SoFar
<1>. HIDE DEF a
<1>2. Extends(a, a)
  BY <1>1, ExtendsSame
<1>. QED
  BY <1>1, <1>2 DEF a

DiagnosisOf(f, a) ==
  IF Len(f) < 14 THEN Stopped(a, "TRUNCATED", Len(f))
  ELSE IF Word(f, 12) = 2054 THEN Arp(From(f, 14), a)
  ELSE IF Word(f, 12) = 2048 THEN Ipv4(From(f, 14), a)
  ELSE Unsupported(a, 0, 14)

LEMMA FrameCases == \A f : Diagnose(f) = DiagnosisOf(f, AddLayer(Blank, "ETHERNET"))
BY DEF Diagnose, DiagnosisOf

LEMMA FrameWithin ==
  ASSUME NEW f \in Seq(Byte)
  PROVE  LET a == AddLayer(Blank, "ETHERNET")
             x == Diagnose(f)
             d == From(f, 14)
             p == Payload(d)
         IN  /\ Extends(x, a)
             /\ x.parsed_length \in Nat /\ x.parsed_length <= Len(f)
             /\ x.status = "OK" => x.parsed_length >= 14
             /\ LastLayer(x) = "DNS" =>
                  /\ Len(f) >= 14 /\ Word(f, 12) = 2048
                  /\ Framed(d) /\ Word(d, 6) % 16384 = 0 /\ At(d, 9) = 17
                  /\ Len(p) >= 8 /\ x.status = ParseDns(From(p, 8)).status
<1>. DEFINE a == AddLayer(Blank, "ETHERNET")
            x == Diagnose(f)
            d == From(f, 14)
            p == Payload(d)
            n == Len(f)
            w == Word(f, 12)
            inner == /\ Framed(d) /\ Word(d, 6) % 16384 = 0 /\ At(d, 9) = 17
                     /\ Len(p) >= 8 /\ x.status = ParseDns(From(p, 8)).status
            Good == /\ Extends(x, a) /\ x.parsed_length \in Nat /\ x.parsed_length <= n
                    /\ x.status = "OK" => x.parsed_length >= 14
                    /\ LastLayer(x) = "DNS" => n >= 14 /\ w = 2048 /\ inner
<1>1. SoFar(a, 1) /\ IsReport(a) /\ LastLayer(a) = "ETHERNET" /\ Extends(a, a)
  BY EthernetReport
<1>2. x = IF n < 14 THEN Stopped(a, "TRUNCATED", n)
          ELSE IF w = 2054 THEN Arp(d, a)
          ELSE IF w = 2048 THEN Ipv4(d, a)
          ELSE Unsupported(a, 0, 14)
  BY FrameCases DEF DiagnosisOf
<1>3. n \in Nat /\ (n >= 14 => d \in Seq(Byte) /\ Len(d) = n - 14)
  BY FromBytes
<1>. DEFINE b == AddLayer(a, "IPV4")
            c == AddLayer(a, "ARP")
<1>4. Extends(b, a) /\ Extends(c, a)
  <2>. HIDE DEF a
  <2>. QED
    BY <1>1, ExtendsAdded DEF LayerNames
<1>. HIDE DEF a, x, d, n, w, b, c
<1>5. CASE n < 14
  <2>1. x = Stopped(a, "TRUNCATED", n) /\ n <= n
    BY <1>2, <1>3, <1>5
  <2>2. Within(x, a, n) /\ x.status = "TRUNCATED" /\ LastLayer(x) = LastLayer(a)
    BY <1>1, <1>3, <2>1, WithinStopped
  <2>. HIDE DEF inner
  <2>3. Good
    BY <1>1, <2>2 DEF Within
  <2>. QED
    BY <2>3 DEF inner, x, a, n, d, w
<1>6. CASE n >= 14 /\ w = 2054
  <2>1. x = Arp(d, a) /\ d \in Seq(Byte)
    BY <1>2, <1>3, <1>6
  <2>2. /\ Extends(x, c) /\ LastLayer(x) = "ARP" /\ x.parsed_length \in Nat /\ x.parsed_length <= 14 + Len(d)
        /\ x.status = "OK" => Len(d) >= 8 /\ x.parsed_length = 14 + ArpLength(d)
    BY <1>1, <2>1, ArpWithin DEF c
  <2>3. Extends(x, a)
    BY <1>4, <2>2, ExtendsMore
  <2>4. x.status = "OK" => x.parsed_length >= 14
    <3>1. Len(d) >= 8 => ArpLength(d) \in Nat
      BY <2>1, ArpCases
    <3>. QED
      BY <2>2, <3>1
  <2>5. x.parsed_length <= n
    BY <1>3, <1>6, <2>2
  <2>. HIDE DEF inner
  <2>6. Good
    BY <2>2, <2>3, <2>4, <2>5
  <2>. QED
    BY <2>6 DEF inner, x, a, n, d, w
<1>7. CASE n >= 14 /\ w = 2048
  <2>1. x = Ipv4(d, a) /\ d \in Seq(Byte)
    BY <1>2, <1>3, <1>7
  <2>2. /\ Extends(x, b) /\ x.parsed_length \in Nat /\ x.parsed_length <= 14 + Len(d)
        /\ x.status = "OK" => Framed(d) /\ x.parsed_length = 14 + Word(d, 2)
    BY <1>1, <2>1, Ipv4Within DEF b
  <2>3. LastLayer(x) = "DNS" => inner
    BY <1>1, <2>1, Ipv4Within
  <2>4. Extends(x, a)
    BY <1>4, <2>2, ExtendsMore
  <2>5. x.status = "OK" => x.parsed_length >= 14
    <3>1. Framed(d) => Word(d, 2) \in Nat
      BY <2>1, FramedBytes
    <3>. QED
      BY <2>2, <3>1
  <2>6. x.parsed_length <= n
    BY <1>3, <1>7, <2>2
  <2>. HIDE DEF inner
  <2>7. Good
    BY <1>7, <2>2, <2>3, <2>4, <2>5, <2>6
  <2>. QED
    BY <2>7 DEF inner, x, a, n, d, w
<1>8. CASE n >= 14 /\ w # 2054 /\ w # 2048
  <2>. DEFINE end == 14
  <2>1. x = Unsupported(a, 0, end)
    BY <1>2, <1>3, <1>8
  <2>2. end \in Nat /\ end <= n /\ end >= 14
    BY <1>8
  <2>. HIDE DEF end
  <2>3. Within(x, a, end) /\ LastLayer(x) = LastLayer(a)
    BY <1>1, <2>1, <2>2, WithinDone
  <2>4. x.parsed_length <= n /\ (x.status = "OK" => x.parsed_length >= 14)
    BY <1>3, <2>2, <2>3 DEF Within
  <2>. HIDE DEF inner
  <2>5. Good
    BY <1>1, <2>3, <2>4 DEF Within
  <2>. QED
    BY <2>5 DEF inner, x, a, n, d, w
<1>9. n < 14 \/ n >= 14
  BY <1>3
<1>. QED
  BY <1>5, <1>6, <1>7, <1>8, <1>9

LEMMA FrameCut ==
  ASSUME NEW f \in Seq(Byte), NEW n \in Nat, n <= Len(f)
  PROVE  Cut(Diagnose(Slice(f, 0, n)), Diagnose(f), n)
<1>. DEFINE e == Slice(f, 0, n)
            a == AddLayer(Blank, "ETHERNET")
            d == From(f, 14)
            k == n - 14
            x == Diagnose(f)
            y == Diagnose(e)
            w == Word(f, 12)
<1>1. SoFar(a, 1) /\ IsReport(a) /\ a.status = "OK"
  BY EthernetReport
<1>2. /\ e \in Seq(Byte) /\ Len(e) = n
      /\ \A i \in Nat : i + 1 < n => Word(e, i) = Word(f, i)
      /\ \A o \in Nat : o <= n => From(e, o) = Slice(From(f, o), 0, n - o)
  BY PrefixBytes
<1>3. Len(f) \in Nat /\ n >= 14 => Len(f) >= 14 /\ k \in Nat /\ k <= Len(f) - 14 /\ 14 + k = n
  OBVIOUS
<1>4. Len(f) \in Nat
  OBVIOUS
<1>5. x = IF Len(f) < 14 THEN Stopped(a, "TRUNCATED", Len(f))
          ELSE IF w = 2054 THEN Arp(d, a)
          ELSE IF w = 2048 THEN Ipv4(d, a)
          ELSE Unsupported(a, 0, 14)
  BY FrameCases DEF DiagnosisOf
<1>6. y = IF n < 14 THEN Stopped(a, "TRUNCATED", n)
          ELSE IF Word(e, 12) = 2054 THEN Arp(From(e, 14), a)
          ELSE IF Word(e, 12) = 2048 THEN Ipv4(From(e, 14), a)
          ELSE Unsupported(a, 0, 14)
  <2>. HIDE DEF e
  <2>. QED
    BY <1>2, FrameCases DEF DiagnosisOf
<1>7. n >= 14 => Word(e, 12) = w /\ From(e, 14) = Slice(d, 0, k)
  <2>. HIDE DEF e
  <2>. QED
    BY <1>2
<1>8. /\ Extends(x, a)
      /\ x.parsed_length \in Nat
      /\ x.status = "OK" => x.parsed_length >= 14
  BY FrameWithin
<1>9. n >= 14 => d \in Seq(Byte) /\ Len(d) = Len(f) - 14
  <2>. SUFFICES ASSUME n >= 14 PROVE d \in Seq(Byte) /\ Len(d) = Len(f) - 14
    OBVIOUS
  <2>1. 14 <= Len(f)
    BY <1>4
  <2>. QED
    BY <2>1, FromBytes
<1>. HIDE DEF e, a, d, k, x, y, w
<1>10. CASE n < 14
  <2>1. y = Stopped(a, "TRUNCATED", n)
    BY <1>6, <1>10
  <2>2. x.status = "OK" => x.parsed_length \in Nat /\ n < x.parsed_length
    BY <1>8, <1>10
  <2>3. Cut(y, x, n)
    BY <1>1, <1>8, <2>1, <2>2, CutShort
  <2>. QED
    BY <2>3 DEF x, y, e
<1>11. CASE n >= 14
  <2>1. d \in Seq(Byte) /\ k \in Nat /\ k <= Len(d) /\ 14 + k = n /\ ~(Len(f) < 14) /\ ~(n < 14)
    BY <1>3, <1>4, <1>9, <1>11
  <2>2. x = IF w = 2054 THEN Arp(d, a) ELSE IF w = 2048 THEN Ipv4(d, a) ELSE Unsupported(a, 0, 14)
    BY <1>5, <2>1
  <2>. DEFINE g == Slice(d, 0, k)
  <2>3. y = IF w = 2054 THEN Arp(g, a) ELSE IF w = 2048 THEN Ipv4(g, a) ELSE Unsupported(a, 0, 14)
    BY <1>6, <1>7, <1>11, <2>1
  <2>4. CASE w = 2054
    <3>1. Cut(Arp(g, a), Arp(d, a), 14 + k)
      BY <1>1, <2>1, ArpCut
    <3>2. y = Arp(g, a) /\ x = Arp(d, a)
      BY <2>2, <2>3, <2>4
    <3>3. Cut(y, x, n)
      BY <2>1, <3>1, <3>2
    <3>. QED
      BY <3>3 DEF x, y, e
  <2>5. CASE w = 2048
    <3>1. Cut(Ipv4(g, a), Ipv4(d, a), 14 + k)
      BY <1>1, <2>1, Ipv4Cut
    <3>2. y = Ipv4(g, a) /\ x = Ipv4(d, a)
      BY <2>2, <2>3, <2>5
    <3>3. Cut(y, x, n)
      BY <2>1, <3>1, <3>2
    <3>. QED
      BY <3>3 DEF x, y, e
  <2>6. CASE w # 2054 /\ w # 2048
    <3>. DEFINE end == 14
    <3>1. y = x /\ x = Unsupported(a, 0, end) /\ n >= end
      BY <1>11, <2>2, <2>3, <2>6
    <3>. HIDE DEF end
    <3>2. x.parsed_length = end
      BY <1>1, <3>1, ReportParsed
    <3>3. Cut(y, x, n)
      BY <3>1, <3>2, CutSame
    <3>. QED
      BY <3>3 DEF x, y, e
  <2>. QED
    BY <2>4, <2>5, <2>6
<1>. QED
  BY <1>10, <1>11

LEMMA Decisive ==
  ASSUME frame \in Seq(Byte)
  PROVE  ParsedLengthIsDecisive
<1>. DEFINE full == Diagnose(frame)
<1>1. full.parsed_length <= Len(frame)
  BY FrameWithin
<1>2. ASSUME NEW k \in 0..Len(frame) - 1
      PROVE  LET short == Diagnose(Slice(frame, 0, k))
             IN  short.parsed_length <= k /\ Cut(short, full, k)
  <2>. DEFINE e == Slice(frame, 0, k)
  <2>1. k \in Nat /\ k <= Len(frame)
    OBVIOUS
  <2>2. e \in Seq(Byte) /\ Len(e) = k
    BY <2>1, PrefixBytes
  <2>3. Cut(Diagnose(e), full, k)
    BY <2>1, FrameCut
  <2>. HIDE DEF e
  <2>4. Diagnose(e).parsed_length <= k
    BY <2>2, FrameWithin
  <2>. QED
    BY <2>3, <2>4 DEF e
<1>. HIDE DEF full
<1>. QED
  BY <1>1, <1>2 DEF ParsedLengthIsDecisive, Cut, full

(* On every frame, damaged or not, the report depends on the first           *)
(* parsed_length bytes alone, and a capture cut before them is truncated.    *)
THEOREM ParsedLengthAlwaysDecisive == Spec => []ParsedLengthIsDecisive
<1>1. WireInv => ParsedLengthIsDecisive
  BY Decisive DEF WireInv, WireType
<1>. QED
  BY <1>1, WireInvariant, PTL

-----------------------------------------------------------------------------
(* The two walks over a DNS message.                                         *)

LEMMA FirstAFits ==
  ASSUME NEW dns \in Seq(Byte), Len(dns) >= 12, (At(dns, 2) \div 2) % 2 = 0
  PROVE  LET first == FirstA(dns).status
             walk  == ParseDns(dns).status
         IN  /\ walk = "OK" => first \in {"OK", "MALFORMED"}
             /\ first = "TRUNCATED" => walk = "TRUNCATED"
<1>. DEFINE k == Word(dns, 6)
            i == Word(dns, 8)
            j == Word(dns, 10)
            m == i + j
            q == PassQuestions(dns, Word(dns, 4))
            d == DecodeQuestions(dns, Word(dns, 4))
            a == Passes([v \in Walks |-> PassAnswer(dns, v)], k, d)
            r == Passes([v \in Walks |-> PassRecord(dns, v)], k + m, q)
            first == FirstA(dns)
            walk == ParseDns(dns)
            refused == [status |-> "MALFORMED"]
            hasFour == Word(dns, a.at - 2) = 4
            found == [status |-> "OK", address |-> Slice(dns, a.at, 4), ttl |-> Slice(dns, a.at - 6, 4)]
            fails == [status |-> a.status]
<1>1. k \in Nat /\ i \in Nat /\ j \in Nat /\ Word(dns, 4) \in Nat
  BY WordHalf DEF Half
<1>2. m \in Nat /\ k + i + j = k + m
  <2>. HIDE DEF k, i, j
  <2>. QED
    BY <1>1
<1>3. q \in Walks
  <2>1. q \in Ends(dns)
    BY <1>1, QuestionsPassed
  <2>. HIDE DEF q
  <2>. QED
    BY <2>1, EndsAreWalks
<1>4. /\ r.status = "OK" => a.status \in {"OK", "FOUND"}
      /\ a.status = "TRUNCATED" => r.status = "TRUNCATED"
  <2>1. NearlySame(d, q) /\ d \in Walks
    BY <1>1, QuestionsAlike
  <2>. HIDE DEF k, m, q, d
  <2>2. CASE d = q
    BY <1>1, <1>2, <1>3, <2>2, SearchAndWalk, ZenonT(60)
  <2>3. CASE d # q
    <3>1. d.status = "MALFORMED" /\ d.status # "OK" /\ q.status # "OK"
      BY <2>1, <2>3 DEF NearlySame
    <3>. DEFINE A == [v \in Walks |-> PassAnswer(dns, v)]
                R == [v \in Walks |-> PassRecord(dns, v)]
    <3>2. A \in [Walks -> Walks] /\ R \in [Walks -> Walks]
      BY AnswerTurn, RecordTurn
    <3>3. k + m \in Nat
      BY <1>1, <1>2
    <3>. HIDE DEF A, R
    <3>4. Passes(A, k, d) = d /\ Passes(R, k + m, q) = q
      BY <1>1, <1>3, <2>1, <3>1, <3>2, <3>3, PassesTurn
    <3>. QED
      BY <3>1, <3>4 DEF A, R
  <2>. QED
    BY <2>2, <2>3
<1>5. walk = IF r.status # "OK" THEN r ELSE Walked("OK", Len(dns))
  <2>1. PassRecords(dns, k + i + j, q) = r
    <3>. HIDE DEF k, i, j, q
    <3>. QED
      BY <1>2 DEF PassRecords
  <2>. DEFINE end == PassRecords(dns, k + i + j, q)
  <2>2. walk = IF Len(dns) < 12 THEN Walked("TRUNCATED", Len(dns))
               ELSE IF end.status # "OK" THEN end ELSE Walked("OK", Len(dns))
    BY DEF ParseDns
  <2>. HIDE DEF end, r, walk
  <2>. QED
    BY <2>1, <2>2 DEF end
<1>6. walk.status = r.status
  <2>. HIDE DEF r
  <2>. QED
    BY <1>5 DEF Walked
<1>7. first = refused \/ first = IF a.status = "OK" THEN refused
                                 ELSE IF a.status # "FOUND" THEN fails
                                 ELSE IF ~hasFour THEN refused ELSE found
  <2>1. first = refused \/ first = FirstAnswer(dns, k, d)
    BY DEF FirstA
  <2>2. FirstAnswer(dns, k, d) = IF a.status = "OK" THEN refused
                                 ELSE IF a.status # "FOUND" THEN fails
                                 ELSE IF ~hasFour THEN refused ELSE found
    BY DEF FirstAnswer
  <2>. QED
    BY <2>1, <2>2
<1>8. refused.status = "MALFORMED" /\ found.status = "OK" /\ fails.status = a.status
  OBVIOUS
<1>. HIDE DEF walk, first, a, r, refused, found, fails, hasFour
<1>9. /\ walk.status = "OK" => first.status \in {"OK", "MALFORMED"}
      /\ first.status = "TRUNCATED" => walk.status = "TRUNCATED"
  <2>1. CASE a.status \in {"OK", "FOUND"}
    BY <1>4, <1>6, <1>7, <1>8, <2>1
  <2>2. CASE a.status \notin {"OK", "FOUND"}
    BY <1>4, <1>6, <1>7, <1>8, <2>2
  <2>. QED
    BY <2>1, <2>2
<1>. QED
  BY <1>9 DEF walk, first

(* Where lesson 12 finds a DNS message and no mismatch, the parsers deliver  *)
(* that message.                                                             *)
LEMMA DnsFound ==
  ASSUME NEW f \in Seq(Byte), Len(f) >= 14, HasDns(Diagnose(f))
  PROVE  DnsIn(f) \in Seq(Byte) /\ Diagnose(f).status = ParseDns(DnsIn(f)).status
<1>. DEFINE x == Diagnose(f)
            d == From(f, 14)
            p == Payload(d)
            dns == From(p, 8)
            u == ParseDatagram(p)
            t == Transport(d)
            ip == ParseIpv4(d)
            fine == u.status = "OK" /\ (u.checksum = 0 \/ TransportChecksum(Slice(d, 12, 4), Slice(d, 16, 4), 17, p) = 0)
<1>1. /\ Word(f, 12) = 2048 /\ Framed(d) /\ Word(d, 6) % 16384 = 0 /\ At(d, 9) = 17
      /\ Len(p) >= 8 /\ x.status = ParseDns(dns).status
  <2>1. LastLayer(x) = "DNS"
    BY DEF HasDns
  <2>. QED
    BY <2>1, FrameWithin
<1>2. d \in Seq(Byte)
  BY FromBytes
<1>3. p \in Seq(Byte)
  <2>. HIDE DEF d
  <2>. QED
    BY <1>1, <1>2, FramedBytes
<1>4. dns \in Seq(Byte)
  <2>. HIDE DEF p
  <2>. QED
    BY <1>1, <1>3, FromBytes
<1>5. Read(f).status = "OK"
  <2>1. Accepts(x)
    BY DEF HasDns, Accepts
  <2>2. Word(f, 12) >= 1536
    BY <1>1
  <2>. HIDE DEF x
  <2>. QED
    BY <2>1, <2>2, FrameAgrees DEF x
<1>6. Read(f) = IF ip.status = "OK" THEN ReadTransport(ip) ELSE Refused("REFUSED")
  <2>1. ~(Len(f) < 14) /\ ~(Word(f, 12) < 1536)
    BY <1>1
  <2>2. ParseEthernet(f) = [status |-> "OK", ether_type |-> Word(f, 12), payload |-> d]
    BY <2>1 DEF ParseEthernet
  <2>3. ParseEthernet(f).status = "OK" /\ ParseEthernet(f).ether_type = 2048 /\ ParseEthernet(f).payload = d
    BY <1>1, <2>2
  <2>. HIDE DEF d
  <2>. QED
    BY <2>3 DEF Read
<1>7. ip.status = "OK" /\ Read(f) = t
  <2>1. ip.status = "OK" => ReadTransport(ip) = t
    BY <1>2, TransportRead
  <2>. HIDE DEF ip, t, d
  <2>. QED
    BY <1>5, <1>6, <2>1 DEF Refused
<1>8. t = IF fine THEN Delivered(u.payload) ELSE Refused("REFUSED")
  <2>1. ~(Word(d, 6) % 16384 # 0)
    BY <1>1
  <2>. HIDE DEF d
  <2>. QED
    BY <1>1, <1>2, <2>1, TransportCases
<1>9. fine /\ t.payload = u.payload
  <2>. HIDE DEF fine, t, u
  <2>. QED
    BY <1>5, <1>7, <1>8 DEF Delivered, Refused
<1>10. u.payload = dns
  <2>1. u.status = "OK"
    BY <1>9
  <2>. HIDE DEF p, fine
  <2>. QED
    BY <2>1 DEF ParseDatagram, Refused
<1>11. DnsIn(f) = dns
  <2>. HIDE DEF dns, t, u, d
  <2>. QED
    BY <1>7, <1>9, <1>10 DEF DnsIn
<1>. QED
  BY <1>1, <1>4, <1>11

LEMMA WalksFit ==
  ASSUME frame \in Seq(Byte), Len(frame) >= 14
  PROVE  WalksAgree
<1>. DEFINE r == Diagnose(frame)
            dns == DnsIn(frame)
            first == FirstA(dns).status
            open == (At(dns, 2) \div 2) % 2 = 0
<1>1. SUFFICES ASSUME HasDns(r), Len(dns) >= 12
               PROVE  /\ r.status = "OK" /\ open => first \in {"OK", "MALFORMED"}
                      /\ first = "TRUNCATED" /\ open => r.status = "TRUNCATED"
  BY DEF WalksAgree
<1>2. dns \in Seq(Byte) /\ r.status = ParseDns(dns).status
  BY <1>1, DnsFound
<1>. HIDE DEF r, dns
<1>3. open => /\ ParseDns(dns).status = "OK" => first \in {"OK", "MALFORMED"}
              /\ first = "TRUNCATED" => ParseDns(dns).status = "TRUNCATED"
  BY <1>1, <1>2, FirstAFits
<1>. QED
  BY <1>2, <1>3

-----------------------------------------------------------------------------
(* The bytes of a name.                                                      *)

NameWire(labels) ==
  CHOOSE wire : wire = [k \in 0..Len(labels) |->
                          IF k = 0 THEN <<>> ELSE wire[k - 1] \o <<Len(labels[k])>> \o labels[k]]

Labels == {labels \in Seq(Seq(Byte)) : \A k \in DOMAIN labels : Len(labels[k]) \in 1..63}

(* One label behind the bytes of the labels before it.                       *)
LEMMA LabelAdded ==
  ASSUME NEW w \in Seq(Byte), NEW label \in Seq(Byte), Len(label) \in 1..63
  PROVE  LET x == w \o <<Len(label)>> \o label
         IN  /\ x \in Seq(Byte) /\ Len(x) = Len(w) + 1 + Len(label)
             /\ At(x, Len(w)) = Len(label)
             /\ \A i \in 0..(Len(w) - 1) : At(x, i) = At(w, i)
<1>. DEFINE one == <<Len(label)>>
            y == w \o one
            x == y \o label
            n == Len(w)
<1>1. one \in Seq(Byte) /\ Len(one) = 1 /\ At(one, 0) = Len(label)
  <2>. DEFINE b == Len(label)
  <2>2. b \in 1..63
    OBVIOUS
  <2>. HIDE DEF b
  <2>3. b \in Nat /\ b <= 255
    BY <2>2
  <2>4. b \in Byte
    BY <2>3, ByteRange
  <2>1. Len(label) \in Byte
    BY <2>4 DEF b
  <2>. QED
    BY <2>1 DEF At
<1>2. n \in Nat /\ Len(label) \in Nat
  OBVIOUS
<1>. HIDE DEF one
<1>3. /\ y \in Seq(Byte) /\ Len(y) = n + 1
      /\ \A i \in 0..(n - 1) : At(y, i) = At(w, i)
      /\ \A i \in 0..(1 - 1) : At(y, n + i) = At(one, i)
  <2>1. /\ y \in Seq(Byte) /\ Len(y) = Len(w) + Len(one)
        /\ \A i \in 0..(Len(w) - 1) : At(y, i) = At(w, i)
        /\ \A i \in 0..(Len(one) - 1) : At(y, Len(w) + i) = At(one, i)
    BY <1>1, JoinBytes
  <2>. HIDE DEF y
  <2>. QED
    BY <1>1, <2>1
<1>. HIDE DEF y
<1>4. /\ x \in Seq(Byte) /\ Len(x) = Len(y) + Len(label)
      /\ \A i \in 0..(Len(y) - 1) : At(x, i) = At(y, i)
  BY <1>3, JoinBytes
<1>. HIDE DEF x, n
<1>5. At(x, n) = Len(label)
  <2>1. At(y, n + 0) = At(one, 0) /\ n + 0 = n
    BY <1>2, <1>3
  <2>. QED
    BY <1>1, <1>2, <1>3, <1>4, <2>1
<1>6. \A i \in 0..(n - 1) : At(x, i) = At(w, i)
  BY <1>2, <1>3, <1>4
<1>. QED
  BY <1>2, <1>3, <1>4, <1>5, <1>6 DEF x, y, one, n

LEMMA NameWireTurns ==
  ASSUME NEW labels \in Labels
  PROVE  \A k \in 0..Len(labels) :
           /\ NameWire(labels)[k] =
                IF k = 0 THEN <<>> ELSE NameWire(labels)[k - 1] \o <<Len(labels[k])>> \o labels[k]
           /\ NameWire(labels)[k] \in Seq(Byte)
<1>. DEFINE n == Len(labels)
            Q == 0..n
            V == Seq(Byte)
            M == [k \in Q |-> k]
            S == [k \in Q |-> k - 1]
            E == [k \in Q |-> <<>>]
            C == [z \in Q \X V |-> z[2] \o <<Len(labels[z[1]])>> \o labels[z[1]]]
            Is(f) == f = [k \in Q |-> IF k = 0 THEN <<>> ELSE f[k - 1] \o <<Len(labels[k])>> \o labels[k]]
            wire == CHOOSE f : Is(f)
<1>1. n \in Nat /\ labels \in Seq(Seq(Byte)) /\ \A k \in 1..n : labels[k] \in Seq(Byte) /\ Len(labels[k]) \in 1..63
  BY DEF Labels
<1>. HIDE DEF n
<1>2. M \in [Q -> Nat] /\ Descends(Q, M, {0}, S)
  BY <1>1 DEF Descends
<1>3. \A k \in Q : k \in {0} => E[k] \in V
  OBVIOUS
<1>4. ASSUME NEW k \in Q, NEW v \in V, k \notin {0}
      PROVE  C[<<k, v>>] = v \o <<Len(labels[k])>> \o labels[k] /\ C[<<k, v>>] \in V
  <2>1. k \in 1..n
    BY <1>1, <1>4
  <2>2. labels[k] \in Seq(Byte) /\ Len(labels[k]) \in 1..63
    BY <1>1, <2>1
  <2>3. v \o <<Len(labels[k])>> \o labels[k] \in V
    BY <2>2, LabelAdded
  <2>4. C[<<k, v>>] = v \o <<Len(labels[k])>> \o labels[k]
    OBVIOUS
  <2>. QED
    BY <2>3, <2>4
<1>5. \E f : Is(f) /\ f \in [Q -> V]
  <2>1. PICK h \in [Q -> V] : Solves(h, Q, {0}, E, S, C)
    <3>. HIDE DEF Q, V, M, S, E, C
    <3>. QED
      BY <1>2, <1>3, <1>4, Recursion
  <2>2. ASSUME NEW k \in Q
        PROVE  h[k] = IF k = 0 THEN <<>> ELSE h[k - 1] \o <<Len(labels[k])>> \o labels[k]
    <3>1. CASE k = 0
      <4>1. h[k] = E[k]
        <5>. HIDE DEF E
        <5>. QED
          BY <2>1, <3>1 DEF Solves
      <4>. QED
        BY <3>1, <4>1
    <3>2. CASE k # 0
      <4>1. k - 1 \in Q /\ S[k] = k - 1
        BY <1>1, <3>2
      <4>2. h[k - 1] \in V
        BY <2>1, <4>1
      <4>3. h[k] = C[<<k, h[k - 1]>>]
        <5>. HIDE DEF C, Q, V, E
        <5>. QED
          BY <2>1, <3>2, <4>1 DEF Solves
      <4>4. C[<<k, h[k - 1]>>] = h[k - 1] \o <<Len(labels[k])>> \o labels[k]
        <5>. HIDE DEF C, Q, V
        <5>. QED
          BY <1>4, <3>2, <4>2
      <4>. HIDE DEF C
      <4>. QED
        BY <3>2, <4>3, <4>4
    <3>. QED
      BY <3>1, <3>2
  <2>3. Is(h)
    BY <2>1, <2>2
  <2>. QED
    BY <2>1, <2>3
<1>6. Is(wire) /\ wire = NameWire(labels)
  <2>1. Is(wire)
    <3>. HIDE DEF Is
    <3>. QED
      BY <1>5
  <2>. QED
    BY <2>1 DEF NameWire, n
<1>. HIDE DEF wire
<1>7. \A k \in Q : wire[k] = IF k = 0 THEN <<>> ELSE wire[k - 1] \o <<Len(labels[k])>> \o labels[k]
  BY <1>6
<1>. DEFINE T == {i \in Nat : i <= n => wire[i] \in V}
<1>8. 0 \in T
  <2>1. 0 \in Q
    BY <1>1
  <2>2. wire[0] = <<>>
    BY <1>7, <2>1
  <2>3. wire[0] \in V
    BY <2>2
  <2>. QED
    BY <2>3
<1>9. ASSUME NEW i \in Nat, i \in T PROVE i + 1 \in T
  <2>. SUFFICES ASSUME i + 1 <= n PROVE wire[i + 1] \in V
    OBVIOUS
  <2>1. i + 1 \in Q /\ i + 1 \in 1..n /\ i + 1 # 0 /\ (i + 1) - 1 = i /\ i <= n
    BY <1>1
  <2>2. wire[i + 1] = wire[i] \o <<Len(labels[i + 1])>> \o labels[i + 1]
    BY <1>7, <2>1
  <2>3. wire[i] \in Seq(Byte) /\ labels[i + 1] \in Seq(Byte) /\ Len(labels[i + 1]) \in 1..63
    BY <1>1, <1>9, <2>1
  <2>. QED
    BY <2>2, <2>3, LabelAdded
<1>10. Nat \subseteq T
  <2>. HIDE DEF T
  <2>. QED
    BY <1>8, <1>9, SetInduction
<1>11. \A k \in Q : wire[k] \in V
  BY <1>1, <1>10
<1>. QED
  BY <1>6, <1>7, <1>11 DEF n

(* Where the labels of the bytes of a name begin, and where it ends.         *)
Spells(text, n, o) ==
  /\ o[0] = 0 /\ o[n] = Len(text) - 1 /\ At(text, o[n]) = 0
  /\ \A k \in 1..n : /\ At(text, o[k - 1]) \in 1..63
                     /\ o[k] = o[k - 1] + 1 + At(text, o[k - 1])
                     /\ o[k] < Len(text)

(* In the bytes of the first k labels every label is where it was put.       *)
LEMMA LabelsKept ==
  ASSUME NEW labels \in Labels, NEW k \in 0..Len(labels)
  PROVE  LET wire == NameWire(labels)
         IN  \A j \in 1..k : /\ Len(wire[j - 1]) < Len(wire[k])
                             /\ At(wire[k], Len(wire[j - 1])) = Len(labels[j])
<1>. DEFINE n == Len(labels)
            wire == NameWire(labels)
            size(i) == Len(wire[i])
            Kept(i) == \A j \in 1..i : size(j - 1) < size(i) /\ At(wire[i], size(j - 1)) = Len(labels[j])
            T == {i \in Nat : i <= n => Kept(i)}
<1>1. n \in Nat /\ \A i \in 1..n : labels[i] \in Seq(Byte) /\ Len(labels[i]) \in 1..63
  BY DEF Labels
<1>2. \A i \in 0..n : /\ wire[i] = IF i = 0 THEN <<>> ELSE wire[i - 1] \o <<Len(labels[i])>> \o labels[i]
                      /\ wire[i] \in Seq(Byte)
  BY NameWireTurns
<1>3. \A i \in 0..n : size(i) \in Nat
  BY <1>2
<1>. HIDE DEF n, wire
<1>4. 0 \in T
  OBVIOUS
<1>5. ASSUME NEW i \in Nat, i \in T PROVE i + 1 \in T
  <2>. SUFFICES ASSUME i + 1 <= n PROVE Kept(i + 1)
    OBVIOUS
  <2>. DEFINE w == wire[i]
              label == labels[i + 1]
              x == wire[i + 1]
  <2>1. i + 1 \in 0..n /\ i + 1 \in 1..n /\ i + 1 # 0 /\ (i + 1) - 1 = i /\ i \in 0..n
    BY <1>1
  <2>2. x = w \o <<Len(label)>> \o label
    BY <1>2, <2>1
  <2>3. w \in Seq(Byte) /\ label \in Seq(Byte) /\ Len(label) \in 1..63
    BY <1>1, <1>2, <2>1
  <2>. HIDE DEF w, label, x
  <2>4. /\ Len(x) = Len(w) + 1 + Len(label) /\ At(x, Len(w)) = Len(label)
        /\ \A j \in 0..(Len(w) - 1) : At(x, j) = At(w, j)
    BY <2>2, <2>3, LabelAdded
  <2>5. size(i) = Len(w) /\ size(i + 1) = Len(x)
    BY DEF w, x
  <2>6. Kept(i)
    BY <1>5, <2>1
  <2>. HIDE DEF size
  <2>7. Len(w) \in Nat /\ Len(label) \in Nat /\ Len(label) >= 1
    <3>1. Len(w) \in Nat
      BY <2>3
    <3>. DEFINE b == Len(label)
    <3>2. b \in 1..63
      BY <2>3
    <3>. HIDE DEF b
    <3>3. b \in Nat /\ b >= 1
      BY <3>2
    <3>. QED
      BY <3>1, <3>3 DEF b
  <2>8. size(i) < size(i + 1)
    BY <2>4, <2>5, <2>7
  <2>9. ASSUME NEW j \in 1..(i + 1)
        PROVE  size(j - 1) < size(i + 1) /\ At(wire[i + 1], size(j - 1)) = Len(labels[j])
    <3>1. CASE j = i + 1
      BY <2>1, <2>4, <2>5, <2>8, <3>1 DEF x, label
    <3>2. CASE j # i + 1
      <4>1. j \in 1..i
        BY <3>2
      <4>2. j - 1 \in 0..n
        BY <1>1, <2>1, <4>1
      <4>3. size(j - 1) \in Nat /\ size(i) \in Nat /\ size(i + 1) \in Nat
        BY <1>3, <2>1, <4>2
      <4>4. size(j - 1) < size(i) /\ At(wire[i], size(j - 1)) = Len(labels[j])
        BY <2>6, <4>1
      <4>5. At(x, size(j - 1)) = At(w, size(j - 1))
        <5>1. size(j - 1) \in 0..(Len(w) - 1)
          BY <2>5, <4>3, <4>4
        <5>. QED
          BY <2>4, <5>1
      <4>6. size(j - 1) < size(i + 1)
        BY <2>8, <4>3, <4>4
      <4>. QED
        BY <4>4, <4>5, <4>6 DEF x, w
    <3>. QED
      BY <3>1, <3>2
  <2>. QED
    BY <2>9
<1>6. Nat \subseteq T
  <2>. HIDE DEF T
  <2>. QED
    BY <1>4, <1>5, SetInduction
<1>7. k \in Nat /\ k <= n
  BY <1>1 DEF n
<1>8. Kept(k)
  BY <1>6, <1>7
<1>. QED
  BY <1>8 DEF wire

LEMMA NameEncoded ==
  ASSUME NEW labels \in Seq(Seq(Byte)), EncodeName(labels).status = "OK"
  PROVE  LET text == EncodeName(labels).bytes
         IN  /\ text \in Seq(Byte) /\ Len(text) <= 255
             /\ \E n \in Nat : \E o \in [0..n -> Nat] : Spells(text, n, o)
<1>. DEFINE n == Len(labels)
            wire == NameWire(labels)
            w == wire[n]
            z == <<0>>
            x == w \o z
            text == EncodeName(labels).bytes
            o == [k \in 0..n |-> Len(wire[k])]
            tooLong == Len(x) > 255 \/ \E k \in DOMAIN labels : Len(labels[k]) \notin 1..63
<1>1. EncodeName(labels) = IF tooLong THEN [status |-> "MALFORMED"] ELSE [status |-> "OK", bytes |-> x]
  BY DEF EncodeName, NameWire
<1>2. ~tooLong /\ text = x
  <2>. HIDE DEF tooLong, x
  <2>. QED
    BY <1>1
<1>3. labels \in Labels
  BY <1>2 DEF Labels
<1>4. n \in Nat /\ n \in 0..n
  OBVIOUS
<1>5. \A k \in 0..n : /\ wire[k] = IF k = 0 THEN <<>> ELSE wire[k - 1] \o <<Len(labels[k])>> \o labels[k]
                      /\ wire[k] \in Seq(Byte)
  BY <1>3, NameWireTurns
<1>6. \A j \in 1..n : Len(wire[j - 1]) < Len(w) /\ At(w, Len(wire[j - 1])) = Len(labels[j])
  BY <1>3, <1>4, LabelsKept
<1>7. \A j \in 1..n : labels[j] \in Seq(Byte) /\ Len(labels[j]) \in 1..63
  BY <1>3 DEF Labels
<1>8. z \in Seq(Byte) /\ Len(z) = 1 /\ At(z, 0) = 0
  <2>1. 0 \in Byte
    BY ByteRange
  <2>. QED
    BY <2>1 DEF At
<1>9. w \in Seq(Byte) /\ Len(w) \in Nat
  <2>. HIDE DEF n, wire
  <2>1. w \in Seq(Byte)
    BY <1>4, <1>5
  <2>. HIDE DEF w
  <2>. QED
    BY <2>1
<1>. HIDE DEF n, wire, z, tooLong
<1>10. /\ x \in Seq(Byte) /\ Len(x) = Len(w) + 1
       /\ \A i \in 0..(Len(w) - 1) : At(x, i) = At(w, i)
       /\ At(x, Len(w)) = 0
  <2>. HIDE DEF w
  <2>1. x \in Seq(Byte) /\ Len(x) = Len(w) + Len(z)
    BY <1>8, <1>9, JoinBytes
  <2>2. \A i \in 0..(Len(w) - 1) : At(x, i) = At(w, i)
    BY <1>8, <1>9, JoinBytes
  <2>3. \A i \in 0..(Len(z) - 1) : At(x, Len(w) + i) = At(z, i)
    BY <1>8, <1>9, JoinBytes
  <2>. HIDE DEF x
  <2>4. 0 \in 0..(Len(z) - 1) /\ Len(w) + 0 = Len(w)
    BY <1>8, <1>9
  <2>5. At(x, Len(w)) = 0
    BY <1>8, <2>3, <2>4
  <2>. QED
    BY <1>8, <2>1, <2>2, <2>5
<1>11. Len(x) <= 255
  BY <1>2, <1>9, <1>10 DEF tooLong
<1>12. o \in [0..n -> Nat] /\ \A k \in 0..n : o[k] = Len(wire[k])
  BY <1>5
<1>13. o[n] = Len(w)
  BY <1>4, <1>12
<1>14. o[0] = 0
  <2>1. 0 \in 0..n
    BY <1>4
  <2>2. wire[0] = <<>>
    BY <1>5, <2>1
  <2>. QED
    BY <1>12, <2>1, <2>2
<1>. HIDE DEF o, x
<1>15. ASSUME NEW k \in 1..n
       PROVE  /\ At(x, o[k - 1]) \in 1..63 /\ o[k] = o[k - 1] + 1 + At(x, o[k - 1])
              /\ o[k] < Len(x)
  <2>. DEFINE a == wire[k - 1]
              b == wire[k]
              label == labels[k]
  <2>1. k - 1 \in 0..n /\ k \in 0..n /\ k # 0
    BY <1>4
  <2>2. b = a \o <<Len(label)>> \o label /\ a \in Seq(Byte)
    BY <1>5, <2>1
  <2>3. label \in Seq(Byte) /\ Len(label) \in 1..63
    BY <1>7
  <2>4. o[k - 1] = Len(a) /\ o[k] = Len(b)
    BY <1>12, <2>1
  <2>5. Len(a) < Len(w) /\ At(w, Len(a)) = Len(label)
    BY <1>6
  <2>6. Len(b) <= Len(w)
    <3>1. CASE k = n
      BY <1>9, <3>1
    <3>2. CASE k # n
      <4>1. k + 1 \in 1..n /\ (k + 1) - 1 = k
        BY <1>4, <3>2
      <4>2. Len(wire[(k + 1) - 1]) < Len(w)
        BY <1>6, <4>1
      <4>3. Len(wire[k]) \in Nat
        BY <1>5, <2>1
      <4>. QED
        BY <1>9, <4>1, <4>2, <4>3
    <3>. QED
      BY <3>1, <3>2
  <2>. HIDE DEF a, b, label, w
  <2>7. Len(b) = Len(a) + 1 + Len(label)
    BY <2>2, <2>3, LabelAdded
  <2>8. Len(a) \in Nat /\ Len(a) \in 0..(Len(w) - 1)
    BY <1>9, <2>2, <2>5
  <2>9. At(x, Len(a)) = Len(label)
    BY <1>10, <2>5, <2>8
  <2>10. Len(b) < Len(x)
    <3>1. Len(b) \in Nat
      BY <2>3, <2>7, <2>8
    <3>. QED
      BY <1>9, <1>10, <2>6, <3>1
  <2>. QED
    BY <2>3, <2>4, <2>7, <2>9, <2>10
<1>16. Spells(x, n, o)
  <2>1. o[n] = Len(x) - 1
    BY <1>9, <1>10, <1>13
  <2>2. At(x, o[n]) = 0
    BY <1>10, <1>13
  <2>. HIDE DEF w
  <2>. QED
    BY <1>14, <1>15, <2>1, <2>2 DEF Spells
<1>. HIDE DEF text
<1>17. text \in Seq(Byte) /\ Len(text) <= 255 /\ Spells(text, n, o)
  BY <1>2, <1>10, <1>11, <1>16
<1>. QED
  BY <1>4, <1>12, <1>17 DEF text

-----------------------------------------------------------------------------
(* The walk over a name that encode_name wrote.                              *)

(* A label of b bytes, from which the walk goes on at the offset next.       *)
LabelAt(dns, at, length, b, next, more) ==
  /\ at \in Nat /\ length \in Nat /\ b \in 1..63
  /\ at < Len(dns) /\ b = At(dns, at)
  /\ next = at + 1 + b /\ next <= Len(dns)
  /\ more = length + b + 1 /\ more <= 255

LEMMA LabelPassed ==
  ASSUME NEW dns \in Seq(Byte), NEW at, NEW length, NEW b, NEW next, NEW more,
         LabelAt(dns, at, length, b, next, more), NEW V \in SUBSET Nat
  PROVE  NameWalk(dns)[NameAt(at, length, V)] = NameWalk(dns)[NameAt(next, more, V)]
<1>. DEFINE p == NameAt(at, length, V)
            L == Len(dns)
            walk == NameWalk(dns)
            v == walk[NextName(dns, p)]
<1>. /\ at \in Nat /\ length \in Nat /\ b \in 1..63 /\ at < Len(dns) /\ b = At(dns, at)
     /\ next = at + 1 + b /\ next <= Len(dns) /\ more = length + b + 1 /\ more <= 255
  BY DEF LabelAt
<1>0. b \in Nat /\ b >= 1 /\ b <= 63
  <2>1. \A c \in 1..63 : c \in Nat /\ c >= 1 /\ c <= 63
    OBVIOUS
  <2>. QED
    BY <2>1
<1>1. length \in 0..255 /\ L \in Nat
  <2>1. L \in Nat
    OBVIOUS
  <2>2. length \in 0..255
    BY <1>0, SMTT(30)
  <2>. QED
    BY <2>1, <2>2
<1>2. p \in NamePlaces /\ p.at = at /\ p.length = length /\ p.visited = V
  <2>. HIDE DEF L, v
  <2>1. p \in NamePlaces
    BY <1>1, NameAtPlace
  <2>. QED
    BY <2>1 DEF NameAt
<1>. HIDE DEF p
<1>3. walk[p] = NameTurn(dns, p, v)
  BY <1>2, NameWalkTurns
<1>4. /\ ~(at >= L) /\ ~(b >= 192) /\ ~(b >= 64) /\ b # 0
      /\ ~(b > L - (at + 1)) /\ ~(length > 255 - (b + 1))
  <2>. HIDE DEF v
  <2>1. at < L /\ at + 1 + b <= L
    OBVIOUS
  <2>2. at \in Nat /\ length \in Nat /\ length + b + 1 <= 255
    OBVIOUS
  <2>. HIDE DEF L
  <2>3. ~(at >= L)
    BY <1>1, <2>1, <2>2
  <2>4. ~(b > L - (at + 1))
    BY <1>0, <1>1, <2>1, <2>2
  <2>5. ~(length > 255 - (b + 1))
    BY <1>0, <2>2, SMTT(30)
  <2>6. \A c \in 1..63 : ~(c >= 192) /\ ~(c >= 64) /\ c # 0
    OBVIOUS
  <2>. QED
    BY <2>3, <2>4, <2>5, <2>6
<1>. HIDE DEF L, v
<1>5. NameTurn(dns, p, v) = v
  BY <1>2, <1>4 DEF NameTurn, L
<1>6. NextName(dns, p) = NameAt(at + 1 + b, length + b + 1, V)
  BY <1>2, <1>4 DEF NextName
<1>. QED
  BY <1>3, <1>5, <1>6 DEF v, p

LEMMA NameStopped ==
  ASSUME NEW dns \in Seq(Byte), NEW at \in Nat, NEW length \in Nat, NEW V \in SUBSET Nat,
         at < Len(dns), At(dns, at) = 0, length <= 254
  PROVE  NameWalk(dns)[NameAt(at, length, V)] = Walked("OK", at + 1)
<1>. DEFINE p == NameAt(at, length, V)
            L == Len(dns)
            v == NameWalk(dns)[NextName(dns, p)]
<1>1. length \in 0..255 /\ L \in Nat
  OBVIOUS
<1>2. p \in NamePlaces /\ p.at = at /\ p.length = length
  <2>. HIDE DEF L, v
  <2>1. p \in NamePlaces
    BY <1>1, NameAtPlace
  <2>. QED
    BY <2>1 DEF NameAt
<1>. HIDE DEF p
<1>3. NameWalk(dns)[p] = NameTurn(dns, p, v)
  BY <1>2, NameWalkTurns
<1>4. ~(at >= L) /\ ~(0 >= 192) /\ ~(0 >= 64) /\ ~(length + 1 > 255)
  BY <1>1
<1>. HIDE DEF L, v
<1>5. NameTurn(dns, p, v) = Walked("OK", at + 1)
  BY <1>2, <1>4 DEF NameTurn, L
<1>. QED
  BY <1>3, <1>5 DEF p

LEMMA SpeltNameWalked ==
  ASSUME NEW dns \in Seq(Byte), NEW text \in Seq(Byte), Len(text) <= 255, 12 + Len(text) <= Len(dns),
         NEW n \in Nat, NEW o \in [0..n -> Nat], Spells(text, n, o),
         \A i \in 0..(Len(text) - 1) : At(dns, 12 + i) = At(text, i),
         NEW V \in SUBSET Nat
  PROVE  NameWalk(dns)[NameAt(12, 0, V)] = Walked("OK", 12 + Len(text))
<1>. DEFINE N == Len(text)
            L == Len(dns)
            end == Walked("OK", 12 + N)
            W(k) == NameWalk(dns)[NameAt(12 + o[k], o[k], V)] = end
            T == {i \in Nat : i <= n => W(n - i)}
<1>1. /\ o[0] = 0 /\ o[n] = N - 1 /\ At(text, o[n]) = 0
      /\ \A k \in 1..n : /\ At(text, o[k - 1]) \in 1..63
                         /\ o[k] = o[k - 1] + 1 + At(text, o[k - 1])
                         /\ o[k] < N
  BY DEF Spells
<1>2. N \in Nat /\ L \in Nat /\ N <= 255 /\ 12 + N <= L
  OBVIOUS
<1>3. \A i \in 0..(N - 1) : At(dns, 12 + i) = At(text, i)
  OBVIOUS
<1>4. \A k \in 0..n : o[k] \in Nat
  OBVIOUS
<1>. HIDE DEF N, L
<1>5. 0 \in T
  <2>. DEFINE x == o[n]
              at == 12 + x
  <2>1. n \in 0..n /\ n - 0 = n
    OBVIOUS
  <2>2. x \in Nat /\ x = N - 1
    BY <1>1, <1>4, <2>1
  <2>3. At(text, x) = 0
    BY <1>1
  <2>. HIDE DEF x
  <2>4. x \in 0..(N - 1) /\ at < L /\ at + 1 = 12 + N /\ at \in Nat /\ x <= 254
    BY <1>2, <2>2
  <2>5. At(dns, at) = 0
    BY <1>3, <2>3, <2>4
  <2>. HIDE DEF at
  <2>6. NameWalk(dns)[NameAt(at, x, V)] = Walked("OK", at + 1)
    BY <2>2, <2>4, <2>5, NameStopped DEF L
  <2>7. W(n)
    BY <2>4, <2>6 DEF at, x
  <2>. HIDE DEF W
  <2>. QED
    BY <2>1, <2>7
<1>6. ASSUME NEW i \in Nat, i \in T PROVE i + 1 \in T
  <2>. SUFFICES ASSUME i + 1 <= n PROVE W(n - (i + 1))
    OBVIOUS
  <2>. DEFINE k == n - i
              x == o[k - 1]
              b == At(text, x)
              at == 12 + x
  <2>1. k \in 1..n /\ k - 1 \in 0..n /\ k \in 0..n /\ n - (i + 1) = k - 1 /\ i <= n
    OBVIOUS
  <2>. HIDE DEF W
  <2>2. W(k)
    BY <1>6, <2>1
  <2>. HIDE DEF k
  <2>3. x \in Nat /\ o[k] \in Nat
    BY <1>4, <2>1
  <2>4. b \in 1..63 /\ o[k] = x + 1 + b /\ o[k] < N
    BY <1>1, <2>1
  <2>. HIDE DEF x, b
  <2>5. b \in Nat /\ b >= 1 /\ b <= 63
    BY <2>4
  <2>6. /\ x \in 0..(N - 1) /\ at \in Nat /\ at < L /\ at + 1 + b <= L /\ x + b + 1 <= 255
        /\ at + 1 + b = 12 + o[k] /\ x + b + 1 = o[k]
    BY <1>2, <2>3, <2>4, <2>5
  <2>7. b = At(dns, at)
    BY <1>3, <2>6 DEF b
  <2>. HIDE DEF at
  <2>9. NameWalk(dns)[NameAt(at, x, V)] = NameWalk(dns)[NameAt(12 + o[k], o[k], V)]
    <3>. DEFINE next == 12 + o[k]
                more == o[k]
    <3>1. at < Len(dns) /\ next <= Len(dns)
      BY <2>6 DEF L
    <3>2. at \in Nat /\ next = at + 1 + b /\ more = x + b + 1 /\ more <= 255
      BY <2>6
    <3>3. x \in Nat /\ b \in 1..63
      BY <2>3, <2>4
    <3>. HIDE DEF end, T, next, more
    <3>5. LabelAt(dns, at, x, b, next, more)
      BY <2>7, <3>1, <3>2, <3>3 DEF LabelAt
    <3>4. NameWalk(dns)[NameAt(at, x, V)] = NameWalk(dns)[NameAt(next, more, V)]
      BY <3>5, LabelPassed
    <3>. QED
      BY <3>4 DEF next, more
  <2>10. W(k - 1)
    <3>1. NameWalk(dns)[NameAt(at, x, V)] = end
      BY <2>2, <2>9 DEF W
    <3>. QED
      BY <3>1 DEF W, at, x
  <2>. QED
    BY <2>1, <2>10
<1>7. Nat \subseteq T
  <2>. HIDE DEF T
  <2>. QED
    BY <1>5, <1>6, SetInduction
<1>8. W(0)
  <2>. HIDE DEF W
  <2>1. n <= n /\ n - n = 0
    OBVIOUS
  <2>. QED
    BY <1>7, <2>1
<1>9. NameWalk(dns)[NameAt(12 + 0, 0, V)] = end
  BY <1>1, <1>8
<1>10. 12 + 0 = 12
  OBVIOUS
<1>. QED
  BY <1>9, <1>10 DEF N

(* From offset 12 every walk, whatever it has passed, comes to the end.      *)
NameEnds(dns, end) ==
  \A V \in SUBSET Nat : NameWalk(dns)[NameAt(12, 0, V)] = Walked("OK", end)

(* A pointer to the name behind the header.                                  *)
LEMMA PointerPassed ==
  ASSUME NEW dns \in Seq(Byte), NEW at \in Nat, at + 2 <= Len(dns), 12 < Len(dns),
         At(dns, at) = 192, At(dns, at + 1) = 12, NEW end, NameEnds(dns, end)
  PROVE  WalkName(dns, at) = Walked("OK", at + 2)
<1>. DEFINE p == NameAt(at, 0, {})
            L == Len(dns)
            t == Target(dns, at)
            v == NameWalk(dns)[NextName(dns, p)]
<1>1. L \in Nat /\ 0 \in 0..255 /\ {} \in SUBSET Nat
  OBVIOUS
<1>2. p \in NamePlaces /\ p.at = at /\ p.length = 0 /\ p.visited = {}
  BY <1>1, NameAtPlace
<1>3. t = 12
  BY DEF Target
<1>. HIDE DEF p, t
<1>4. NameWalk(dns)[p] = NameTurn(dns, p, v)
  BY <1>2, NameWalkTurns
<1>5. NextName(dns, p) = NameAt(12, 0, {12})
  <2>1. {} \cup {12} = {12} /\ 192 >= 192
    OBVIOUS
  <2>. QED
    BY <1>2, <1>3, <2>1 DEF NextName, t
<1>6. v.status = "OK"
  <2>1. {12} \in SUBSET Nat
    OBVIOUS
  <2>2. v = Walked("OK", end)
    BY <1>5, <2>1 DEF NameEnds
  <2>. HIDE DEF v
  <2>. QED
    BY <2>2 DEF Walked
<1>7. ~(at >= L) /\ ~(L - at < 2) /\ ~(12 >= L) /\ 12 \notin {}
  BY <1>1
<1>8. Cardinality({}) # 128
  BY FS_EmptySet
<1>. HIDE DEF L, v
<1>9. NameTurn(dns, p, v) = Walked("OK", at + 2)
  <2>. DEFINE size == Cardinality(p.visited)
              far == t >= L \/ t \in p.visited \/ size = 128
  <2>1. ~far
    BY <1>2, <1>3, <1>7, <1>8
  <2>2. NameTurn(dns, p, v) =
          IF at >= L THEN Walked("TRUNCATED", L)
          ELSE IF 192 >= 192 /\ L - at < 2 THEN Walked("TRUNCATED", L)
          ELSE IF 192 >= 192
            THEN IF far THEN Walked("MALFORMED", at + 2)
                 ELSE IF v.status # "OK" THEN v ELSE Walked("OK", at + 2)
          ELSE NameTurn(dns, p, v)
    BY <1>2 DEF NameTurn, L, t
  <2>. HIDE DEF far
  <2>. QED
    BY <1>6, <1>7, <2>1, <2>2
<1>. QED
  BY <1>4, <1>9, NameWalked DEF p

-----------------------------------------------------------------------------
(* The response of the server.                                               *)

LEMMA HeaderBytes ==
  LET h == ResponseHeader
  IN  /\ h \in Seq(Byte) /\ Len(h) = 12
      /\ At(h, 2) = 129 /\ At(h, 3) = 128 /\ Word(h, 4) = 1 /\ Word(h, 6) = 2
<1>. DEFINE h == ResponseHeader
<1>1. 0 \in Byte /\ 1 \in Byte /\ 2 \in Byte /\ 7 \in Byte /\ 128 \in Byte /\ 129 \in Byte
  BY ByteRange
<1>2. h \in Seq(Byte) /\ Len(h) = 12
  BY <1>1 DEF ResponseHeader
<1>3. At(h, 2) = 129 /\ At(h, 3) = 128 /\ At(h, 4) = 0 /\ At(h, 4 + 1) = 1 /\ At(h, 6) = 0 /\ At(h, 6 + 1) = 2
  BY DEF ResponseHeader, At
<1>. HIDE DEF h
<1>4. Word(h, 4) = 1 /\ Word(h, 6) = 2
  BY <1>3 DEF Word
<1>. QED
  BY <1>2, <1>3, <1>4 DEF h

LEMMA AnsweredBytes ==
  LET t == Answered
  IN  /\ t \in Seq(Byte) /\ Len(t) = 30
      /\ At(t, 4) = 192 /\ At(t, 5) = 12 /\ Word(t, 6) = 5 /\ Word(t, 14) = 2
      /\ At(t, 18) = 192 /\ At(t, 19) = 12 /\ Word(t, 20) = 1 /\ Word(t, 22) = 1 /\ Word(t, 28) = 4
<1>. DEFINE t == Answered
<1>1. /\ 0 \in Byte /\ 1 \in Byte /\ 2 \in Byte /\ 4 \in Byte /\ 5 \in Byte /\ 9 \in Byte
      /\ 12 \in Byte /\ 192 \in Byte
  BY ByteRange
<1>2. t \in Seq(Byte)
  BY <1>1 DEF Answered
<1>3. Len(t) = 30
  BY DEF Answered
<1>4. /\ At(t, 4) = 192 /\ At(t, 5) = 12 /\ At(t, 6) = 0 /\ At(t, 6 + 1) = 5 /\ At(t, 14) = 0 /\ At(t, 14 + 1) = 2
      /\ At(t, 18) = 192 /\ At(t, 19) = 12 /\ At(t, 20) = 0 /\ At(t, 20 + 1) = 1
      /\ At(t, 22) = 0 /\ At(t, 22 + 1) = 1 /\ At(t, 28) = 0 /\ At(t, 28 + 1) = 4
  BY DEF Answered, At
<1>. HIDE DEF t
<1>5. Word(t, 6) = 5 /\ Word(t, 14) = 2 /\ Word(t, 20) = 1 /\ Word(t, 22) = 1 /\ Word(t, 28) = 4
  BY <1>4 DEF Word
<1>. QED
  BY <1>2, <1>3, <1>4, <1>5 DEF t

(* What the two walks read of a response, c bytes of which hold the header   *)
(* and the name.                                                             *)
Responds(r, text, c, address) ==
  /\ r \in Seq(Byte) /\ Len(r) = c + 34
  /\ At(r, 2) = 129 /\ At(r, 3) = 128 /\ Word(r, 4) = 1 /\ Word(r, 6) = 2
  /\ \A i \in 0..(Len(text) - 1) : At(r, 12 + i) = At(text, i)
  /\ At(r, c + 4) = 192 /\ At(r, c + 5) = 12 /\ Word(r, c + 6) = 5 /\ Word(r, c + 14) = 2
  /\ At(r, c + 18) = 192 /\ At(r, c + 19) = 12
  /\ Word(r, c + 20) = 1 /\ Word(r, c + 22) = 1 /\ Word(r, c + 28) = 4
  /\ Slice(r, c + 30, 4) = address

LEMMA ResponseBytes ==
  ASSUME NEW text \in Seq(Byte), NEW address \in FourBytes
  PROVE  Responds(ResponseHeader \o text \o Answered \o address, text, 12 + Len(text), address)
<1>. DEFINE h == ResponseHeader
            t == Answered
            x == h \o text
            y == x \o t
            r == y \o address
            N == Len(text)
            c == 12 + N
<1>1. /\ h \in Seq(Byte) /\ Len(h) = 12
      /\ At(h, 2) = 129 /\ At(h, 3) = 128 /\ Word(h, 4) = 1 /\ Word(h, 6) = 2
  BY HeaderBytes
<1>2. /\ t \in Seq(Byte) /\ Len(t) = 30
      /\ At(t, 4) = 192 /\ At(t, 5) = 12 /\ Word(t, 6) = 5 /\ Word(t, 14) = 2
      /\ At(t, 18) = 192 /\ At(t, 19) = 12 /\ Word(t, 20) = 1 /\ Word(t, 22) = 1 /\ Word(t, 28) = 4
  BY AnsweredBytes
<1>3. N \in Nat
  OBVIOUS
<1>4. address \in Seq(Byte) /\ Len(address) = 4
  BY DEF FourBytes
<1>. HIDE DEF h, t
<1>5. Joined(x, h, text)
  BY <1>1 DEF Joined
<1>6. x \in Seq(Byte) /\ Len(x) = c
  <2>. HIDE DEF x, N
  <2>1. x \in Seq(Byte)
    BY <1>5, JoinedBytes
  <2>2. Len(x) = Len(h) + Len(text)
    BY <1>5, JoinedBytes
  <2>. QED
    BY <1>1, <2>1, <2>2 DEF N
<1>7. Joined(y, x, t)
  BY <1>2, <1>6 DEF Joined
<1>8. Joined(r, y, address)
  <2>1. y \in Seq(Byte)
    <3>. HIDE DEF y
    <3>. QED
      BY <1>7, JoinedBytes
  <2>. HIDE DEF y
  <2>. QED
    BY <1>4, <2>1 DEF Joined
<1>9. \A i \in 0..(N - 1) : At(x, 12 + i) = At(text, i)
  <2>. HIDE DEF x, y, r, c, N
  <2>1. h \in Seq(Byte)
    BY <1>1
  <2>2. /\ h \o text \in Seq(Byte) /\ Len(h \o text) = Len(h) + Len(text)
        /\ \A i \in 0..(Len(h) - 1) : At(h \o text, i) = At(h, i)
        /\ \A i \in 0..(Len(text) - 1) : At(h \o text, Len(h) + i) = At(text, i)
    BY <2>1, JoinBytes
  <2>. QED
    BY <1>1, <2>2 DEF x, N
<1>. HIDE DEF x, y, r, c
<1>10. Len(y) = c + 30
  <2>1. Len(y) = Len(x) + Len(t)
    BY <1>7, JoinedBytes
  <2>. QED
    BY <1>2, <1>6, <2>1
<1>11. r \in Seq(Byte) /\ Len(r) = Len(y) + 4
  <2>1. r \in Seq(Byte)
    BY <1>8, JoinedBytes
  <2>2. Len(r) = Len(y) + Len(address)
    BY <1>8, JoinedBytes
  <2>. QED
    BY <1>4, <2>1, <2>2
<1>12. c \in Nat /\ c >= 12 /\ c = 12 + N
  BY <1>3 DEF c
<1>13. \A o \in Nat : o + 2 <= 12 => /\ Word(x, o) = Word(h, o)
                                    /\ At(x, o) = At(h, o)
  <2>1. \A o \in Nat : o + 2 <= Len(h) => Word(x, o) = Word(h, o) /\ At(x, o) = At(h, o)
    BY <1>5, JoinedBefore
  <2>. QED
    BY <1>1, <2>1
<1>14. \A o \in Nat : o + 2 <= c => /\ Word(y, o) = Word(x, o)
                                   /\ At(y, o) = At(x, o)
  BY <1>6, <1>7, JoinedBefore
<1>15. \A o \in Nat : o + 2 <= 30 => /\ Word(y, c + o) = Word(t, o)
                                    /\ At(y, c + o) = At(t, o)
  <2>1. \A o \in Nat : o + 2 <= Len(t) => /\ Word(y, Len(x) + o) = Word(t, o)
                                           /\ At(y, Len(x) + o) = At(t, o)
    BY <1>7, JoinedBehind
  <2>. QED
    BY <1>2, <1>6, <2>1, ZenonT(60)
<1>16. \A o \in Nat : o + 2 <= c + 30 => /\ Word(r, o) = Word(y, o)
                                        /\ At(r, o) = At(y, o)
  BY <1>8, <1>10, JoinedBefore
<1>17. At(r, 2) = 129 /\ At(r, 3) = 128 /\ Word(r, 4) = 1 /\ Word(r, 6) = 2
  <2>1. /\ 2 \in Nat /\ 2 + 2 <= 12 /\ 2 + 2 <= c /\ 2 + 2 <= c + 30
        /\ 3 \in Nat /\ 3 + 2 <= 12 /\ 3 + 2 <= c /\ 3 + 2 <= c + 30
        /\ 4 \in Nat /\ 4 + 2 <= 12 /\ 4 + 2 <= c /\ 4 + 2 <= c + 30
        /\ 6 \in Nat /\ 6 + 2 <= 12 /\ 6 + 2 <= c /\ 6 + 2 <= c + 30
    BY <1>12
  <2>. QED
    BY <1>1, <1>13, <1>14, <1>16, <2>1
<1>18. \A o \in Nat : o + 2 <= 30 => /\ Word(r, c + o) = Word(t, o)
                                    /\ At(r, c + o) = At(t, o)
  <2>. SUFFICES ASSUME NEW o \in Nat, o + 2 <= 30
                PROVE  Word(r, c + o) = Word(t, o) /\ At(r, c + o) = At(t, o)
    OBVIOUS
  <2>1. c + o \in Nat /\ (c + o) + 2 <= c + 30
    BY <1>12
  <2>. QED
    BY <1>15, <1>16, <2>1
<1>19. /\ At(r, c + 4) = 192 /\ At(r, c + 5) = 12 /\ Word(r, c + 6) = 5 /\ Word(r, c + 14) = 2
       /\ At(r, c + 18) = 192 /\ At(r, c + 19) = 12
       /\ Word(r, c + 20) = 1 /\ Word(r, c + 22) = 1 /\ Word(r, c + 28) = 4
  <2>1. /\ 4 + 2 <= 30 /\ 5 + 2 <= 30 /\ 6 + 2 <= 30 /\ 14 + 2 <= 30 /\ 18 + 2 <= 30
        /\ 19 + 2 <= 30 /\ 20 + 2 <= 30 /\ 22 + 2 <= 30 /\ 28 + 2 <= 30
        /\ 4 \in Nat /\ 5 \in Nat /\ 6 \in Nat /\ 14 \in Nat /\ 18 \in Nat
        /\ 19 \in Nat /\ 20 \in Nat /\ 22 \in Nat /\ 28 \in Nat
    OBVIOUS
  <2>. QED
    BY <1>2, <1>18, <2>1
<1>20. ASSUME NEW i \in 0..(N - 1) PROVE At(r, 12 + i) = At(text, i)
  <2>1. At(x, 12 + i) = At(text, i)
    BY <1>9
  <2>2. At(y, 12 + i) = At(x, 12 + i)
    <3>1. x \in Seq(Byte) /\ t \in Seq(Byte) /\ y = x \o t
      BY <1>7 DEF Joined
    <3>2. \A j \in 0..(Len(x) - 1) : At(x \o t, j) = At(x, j)
      BY <3>1, JoinBytes
    <3>3. 12 + i \in 0..(Len(x) - 1)
      BY <1>3, <1>6, <1>12
    <3>. QED
      BY <3>1, <3>2, <3>3
  <2>3. 12 + i \in Nat /\ (12 + i) + 2 <= c + 30
    BY <1>3, <1>12
  <2>4. At(r, 12 + i) = At(y, 12 + i)
    BY <1>16, <2>3
  <2>. QED
    BY <2>1, <2>2, <2>4
<1>21. Slice(r, c + 30, 4) = address
  <2>1. Slice(r, Len(y), Len(address)) = address
    BY <1>8, JoinedWhole
  <2>. QED
    BY <1>4, <1>10, <2>1
<1>22. Len(r) = c + 34
  BY <1>10, <1>11, <1>12
<1>23. \A i \in 0..(Len(text) - 1) : At(r, 12 + i) = At(text, i)
  BY <1>20 DEF N
<1>24. Responds(r, text, c, address)
  BY <1>11, <1>17, <1>19, <1>21, <1>22, <1>23 DEF Responds
<1>. QED
  BY <1>24 DEF r, y, x, h, t, c, N

(* A pointer to the name and n bytes behind it.                              *)
PointerAt(dns, at, n) ==
  /\ at \in Nat /\ n \in Nat /\ at + 2 + n <= Len(dns) /\ 12 < Len(dns)
  /\ At(dns, at) = 192 /\ At(dns, at + 1) = 12

LEMMA PointerFixed ==
  ASSUME NEW dns \in Seq(Byte), NEW at, NEW n, PointerAt(dns, at, n), NEW end, NameEnds(dns, end)
  PROVE  PassFixed(dns, at, n) = Walked("OK", at + 2 + n)
<1>. /\ at \in Nat /\ n \in Nat /\ at + 2 + n <= Len(dns) /\ 12 < Len(dns)
     /\ At(dns, at) = 192 /\ At(dns, at + 1) = 12
  BY DEF PointerAt
<1>. DEFINE L == Len(dns)
            name == Walked("OK", at + 2)
<1>1. L \in Nat /\ at + 2 <= L
  OBVIOUS
<1>2. WalkName(dns, at) = name
  <2>1. at + 2 <= Len(dns)
    BY <1>1
  <2>. HIDE DEF L
  <2>. QED
    BY <2>1, PointerPassed
<1>3. name.status = "OK" /\ name.at = at + 2
  BY DEF Walked
<1>4. ~(L - (at + 2) < n)
  BY <1>1
<1>. HIDE DEF L, name
<1>5. PassFixed(dns, at, n) = Walked("OK", (at + 2) + n)
  BY <1>2, <1>3, <1>4 DEF PassFixed, PassBehind, L
<1>. QED
  BY <1>5

LEMMA PointerDecoded ==
  ASSUME NEW dns \in Seq(Byte), NEW at, NEW n, PointerAt(dns, at, n), NEW end, NameEnds(dns, end)
  PROVE  PassDecoded(dns, at, n) = Walked("OK", at + 2 + n)
<1>1. PassFixed(dns, at, n) = Walked("OK", at + 2 + n)
  BY PointerFixed
<1>2. PassFixed(dns, at, n).status = "OK"
  BY <1>1 DEF Walked
<1>3. at \in Nat /\ n \in Nat
  BY DEF PointerAt
<1>. QED
  BY <1>1, <1>2, <1>3, PartsAlike

LEMMA FirstAFound ==
  ASSUME NEW labels \in Seq(Seq(Byte)), EncodeName(labels).status = "OK", NEW address \in FourBytes
  PROVE  LET r == Response(labels, address)
         IN  r \in Seq(Byte) /\ FirstA(r).status = "OK" /\ FirstA(r).address = address
<1>. DEFINE r == Response(labels, address)
            text == EncodeName(labels).bytes
            c == 12 + Len(text)
            L == Len(r)
<1>1. /\ text \in Seq(Byte) /\ Len(text) <= 255
      /\ \E n \in Nat : \E o \in [0..n -> Nat] : Spells(text, n, o)
  BY NameEncoded
<1>. HIDE DEF text
<1>2. Responds(r, text, c, address)
  BY <1>1, ResponseBytes DEF Response, text
<1>3. c \in Nat /\ c >= 12 /\ c = 12 + Len(text) /\ Len(text) \in Nat
  BY <1>1
<1>. HIDE DEF c, r
<1>4. /\ r \in Seq(Byte) /\ L = c + 34
      /\ At(r, 2) = 129 /\ At(r, 3) = 128 /\ Word(r, 4) = 1 /\ Word(r, 6) = 2
      /\ \A i \in 0..(Len(text) - 1) : At(r, 12 + i) = At(text, i)
      /\ At(r, c + 4) = 192 /\ At(r, c + 5) = 12 /\ Word(r, c + 6) = 5 /\ Word(r, c + 14) = 2
      /\ At(r, c + 18) = 192 /\ At(r, c + 19) = 12
      /\ Word(r, c + 20) = 1 /\ Word(r, c + 22) = 1 /\ Word(r, c + 28) = 4
      /\ Slice(r, c + 30, 4) = address
  BY <1>2 DEF Responds
<1>. HIDE DEF L
<1>5. /\ 12 + Len(text) <= L /\ 12 < L /\ ~(L < 12) /\ ~(L - c < 4)
      /\ c + 4 \in Nat /\ (c + 4) + 2 + 10 <= L /\ (c + 4) + 1 = c + 5 /\ (c + 4) + 2 + 10 = c + 16
      /\ c + 18 \in Nat /\ (c + 18) + 2 + 10 <= L /\ (c + 18) + 1 = c + 19 /\ (c + 18) + 2 + 10 = c + 30
      /\ (c + 16) - 2 = c + 14 /\ (c + 16) - 10 = c + 6 /\ (c + 30) - 2 = c + 28
      /\ (c + 30) - 10 = c + 20 /\ (c + 30) - 8 = c + 22
      /\ ~(2 > L - (c + 16)) /\ (c + 16) + 2 = c + 18 /\ ~(4 > L - (c + 30)) /\ c + 30 \in Nat
  <2>1. L = c + 34
    BY <1>4
  <2>. QED
    BY <1>3, <2>1
<1>6. ASSUME NEW V \in SUBSET Nat PROVE NameWalk(r)[NameAt(12, 0, V)] = Walked("OK", c)
  <2>1. PICK n \in Nat : \E o \in [0..n -> Nat] : Spells(text, n, o)
    BY <1>1
  <2>2. PICK o \in [0..n -> Nat] : Spells(text, n, o)
    BY <2>1
  <2>3. 12 + Len(text) <= Len(r)
    BY <1>5 DEF L
  <2>4. r \in Seq(Byte) /\ \A i \in 0..(Len(text) - 1) : At(r, 12 + i) = At(text, i)
    BY <1>4
  <2>5. NameWalk(r)[NameAt(12, 0, V)] = Walked("OK", 12 + Len(text))
    BY <1>1, <2>2, <2>3, <2>4, SpeltNameWalked
  <2>. QED
    BY <1>3, <2>5
<1>. DEFINE Turn == [w \in Walks |-> PassFixed(r, w.at, 4)]
            A == [w \in Walks |-> PassAnswer(r, w)]
            w0 == Walked("OK", 12)
            w1 == Walked("OK", c + 4)
            w2 == Walked("OK", c + 18)
            w3 == Walked("FOUND", c + 30)
<1>7. /\ w0 \in Walks /\ w1 \in Walks /\ w2 \in Walks /\ w3 \in Walks
      /\ w0.status = "OK" /\ w1.status = "OK" /\ w2.status = "OK" /\ w3.status = "FOUND"
      /\ w0.at = 12 /\ w1.at = c + 4 /\ w2.at = c + 18 /\ w3.at = c + 30
  BY <1>5 DEF Walked, Walks
<1>8. DecodeQuestions(r, Word(r, 4)) = w1
  <2>1. Turn \in [Walks -> Walks]
    <3>1. \A w \in Walks : w.at \in Nat
      BY DEF Walks
    <3>2. \A w \in Walks : PassFixed(r, w.at, 4) \in Ends(r)
      BY <1>4, <3>1, FixedPassed, SMTT(30)
    <3>3. Ends(r) \subseteq Walks
      BY <1>4, EndsAreWalks
    <3>. QED
      BY <3>2, <3>3
  <2>2. WalkName(r, 12) = Walked("OK", c)
    <3>1. {} \in SUBSET Nat
      OBVIOUS
    <3>2. WalkName(r, 12) = NameWalk(r)[NameAt(12, 0, {})]
      BY <1>4, NameWalked
    <3>. QED
      BY <1>6, <3>1, <3>2
  <2>3. Turn[w0] = w1
    <3>. DEFINE name == Walked("OK", c)
    <3>1. name.status = "OK" /\ name.at = c
      BY DEF Walked
    <3>. HIDE DEF name
    <3>2. PassFixed(r, 12, 4) = Walked("OK", c + 4)
      BY <1>5, <2>2, <3>1 DEF PassFixed, PassBehind, L, name
    <3>3. Turn[w0] = PassFixed(r, w0.at, 4)
      BY <1>7
    <3>. HIDE DEF Turn, w0
    <3>. QED
      BY <1>7, <3>2, <3>3
  <2>. HIDE DEF Turn, w0, w1
  <2>4. Passes(Turn, 1, w0) = Passes(Turn, 0, w1)
    <3>1. Passes(Turn, 1, w0) = IF 1 = 0 \/ w0.status # "OK" THEN w0 ELSE Passes(Turn, 1 - 1, Turn[w0])
      BY <1>7, <2>1, PassesTurn
    <3>2. 1 # 0 /\ 1 - 1 = 0
      OBVIOUS
    <3>. QED
      BY <1>7, <2>3, <3>1, <3>2
  <2>5. Passes(Turn, 0, w1) = w1
    BY <1>7, <2>1, PassesTurn
  <2>6. PassQuestions(r, 1) = w1
    BY <2>4, <2>5 DEF PassQuestions, Turn, w0
  <2>7. NearlySame(DecodeQuestions(r, 1), PassQuestions(r, 1))
    <3>1. Len(r) >= 12 /\ 1 \in Nat
      BY <1>3, <1>5 DEF L
    <3>. QED
      BY <1>4, <3>1, QuestionsAlike
  <2>. QED
    BY <1>4, <1>7, <2>6, <2>7 DEF NearlySame, w1
<1>9. PassAnswer(r, w1) = w2
  <2>. DEFINE fixed == Walked("OK", c + 16)
              data == PassData(r, fixed)
  <2>1. PassDecoded(r, w1.at, 10) = fixed
    <3>1. (c + 4) + 2 + 10 <= Len(r) /\ 12 < Len(r)
      BY <1>5 DEF L
    <3>2. PassDecoded(r, c + 4, 10) = Walked("OK", (c + 4) + 2 + 10)
      <4>. DEFINE at == c + 4
      <4>1. at \in Nat /\ at + 2 + 10 <= Len(r) /\ At(r, at) = 192 /\ At(r, at + 1) = 12
        BY <1>4, <1>5, <3>1
      <4>. HIDE DEF at, w0, w1, w2, w3, A, Turn
      <4>2. PassDecoded(r, at, 10) = Walked("OK", at + 2 + 10)
        <5>1. PointerAt(r, at, 10)
          BY <3>1, <4>1 DEF PointerAt
        <5>2. NameEnds(r, c)
          BY <1>6 DEF NameEnds
        <5>3. r \in Seq(Byte)
          BY <1>4
        <5>. QED
          BY <5>1, <5>2, <5>3, PointerDecoded
      <4>. QED
        BY <4>2 DEF at
    <3>. HIDE DEF w1
    <3>. QED
      BY <1>5, <1>7, <3>2
  <2>2. fixed.status = "OK" /\ fixed.at = c + 16
    BY DEF Walked
  <2>. HIDE DEF fixed
  <2>3. Word(r, fixed.at - 2) = 2 /\ Word(r, fixed.at - 10) = 5
    BY <1>4, <1>5, <2>2
  <2>4. data = Walked("OK", c + 18)
    BY <1>5, <2>2, <2>3 DEF PassData, L
  <2>5. data.status = "OK"
    BY <1>7, <2>4
  <2>6. ~(5 = 1)
    OBVIOUS
  <2>7. PassAnswer(r, w1) = data
    <3>. HIDE DEF data, w1
    <3>. QED
      BY <2>1, <2>3, <2>5, <2>6 DEF PassAnswer, NextAnswer, data
  <2>. QED
    BY <2>4, <2>7
<1>10. PassAnswer(r, w2) = w3
  <2>. DEFINE fixed == Walked("OK", c + 30)
              data == PassData(r, fixed)
  <2>1. PassDecoded(r, w2.at, 10) = fixed
    <3>1. (c + 18) + 2 + 10 <= Len(r) /\ 12 < Len(r)
      BY <1>5 DEF L
    <3>2. PassDecoded(r, c + 18, 10) = Walked("OK", (c + 18) + 2 + 10)
      <4>. DEFINE at == c + 18
      <4>1. at \in Nat /\ at + 2 + 10 <= Len(r) /\ At(r, at) = 192 /\ At(r, at + 1) = 12
        BY <1>4, <1>5, <3>1
      <4>. HIDE DEF at, w0, w1, w2, w3, A, Turn
      <4>2. PassDecoded(r, at, 10) = Walked("OK", at + 2 + 10)
        <5>1. PointerAt(r, at, 10)
          BY <3>1, <4>1 DEF PointerAt
        <5>2. NameEnds(r, c)
          BY <1>6 DEF NameEnds
        <5>3. r \in Seq(Byte)
          BY <1>4
        <5>. QED
          BY <5>1, <5>2, <5>3, PointerDecoded
      <4>. QED
        BY <4>2 DEF at
    <3>. HIDE DEF w2
    <3>. QED
      BY <1>5, <1>7, <3>2
  <2>2. fixed.status = "OK" /\ fixed.at = c + 30
    BY DEF Walked
  <2>. HIDE DEF fixed
  <2>3. Word(r, fixed.at - 2) = 4 /\ Word(r, fixed.at - 10) = 1 /\ Word(r, fixed.at - 8) = 1
    BY <1>4, <1>5, <2>2
  <2>4. data = Walked("OK", (c + 30) + 4)
    BY <1>5, <2>2, <2>3 DEF PassData, L
  <2>5. data.status = "OK"
    <3>. HIDE DEF data
    <3>. QED
      BY <2>4 DEF Walked
  <2>6. PassAnswer(r, w2) = Walked("FOUND", fixed.at)
    <3>. HIDE DEF data, w2
    <3>. QED
      BY <2>1, <2>3, <2>5 DEF PassAnswer, data
  <2>. QED
    BY <2>2, <2>6
<1>11. Passes(A, 2, w1) = w3
  <2>1. A \in [Walks -> Walks]
    BY <1>4, AnswerTurn
  <2>2. A[w1] = w2 /\ A[w2] = w3
    <3>1. A[w1] = PassAnswer(r, w1) /\ A[w2] = PassAnswer(r, w2)
      BY <1>7
    <3>. QED
      BY <1>9, <1>10, <3>1
  <2>. HIDE DEF A, w1, w2, w3
  <2>3. 2 # 0 /\ 2 - 1 = 1 /\ 1 # 0 /\ 1 - 1 = 0 /\ 2 \in Nat /\ 1 \in Nat /\ 0 \in Nat
    OBVIOUS
  <2>4. Passes(A, 2, w1) = IF 2 = 0 \/ w1.status # "OK" THEN w1 ELSE Passes(A, 2 - 1, A[w1])
    BY <1>7, <2>1, <2>3, PassesTurn
  <2>5. Passes(A, 1, w2) = IF 1 = 0 \/ w2.status # "OK" THEN w2 ELSE Passes(A, 1 - 1, A[w2])
    BY <1>7, <2>1, <2>3, PassesTurn
  <2>6. Passes(A, 0, w3) = IF 0 = 0 \/ w3.status # "OK" THEN w3 ELSE Passes(A, 0 - 1, A[w3])
    BY <1>7, <2>1, <2>3, PassesTurn
  <2>. QED
    BY <1>7, <2>2, <2>3, <2>4, <2>5, <2>6
<1>. DEFINE found == [status |-> "OK", address |-> Slice(r, w3.at, 4), ttl |-> Slice(r, w3.at - 6, 4)]
<1>12. FirstAnswer(r, 2, w1) = found
  <2>1. Word(r, w3.at - 2) = 4
    <3>. HIDE DEF w3
    <3>. QED
      BY <1>4, <1>5, <1>7
  <2>. HIDE DEF w3, found, w1
  <2>2. ~("FOUND" = "OK")
    OBVIOUS
  <2>3. Passes([w \in Walks |-> PassAnswer(r, w)], 2, w1) = w3
    BY <1>11 DEF A
  <2>. HIDE DEF A
  <2>. QED
    BY <1>7, <2>1, <2>2, <2>3 DEF FirstAnswer, found
<1>13. FirstA(r) = FirstAnswer(r, 2, w1)
  <2>1. Answers(r) /\ ~((At(r, 2) \div 2) % 2 = 1) /\ ~(At(r, 3) % 16 # 0)
    <3>1. 129 \div 8 = 16 /\ (128 \div 64) % 2 = 0 /\ ~((129 \div 2) % 2 = 1) /\ ~(128 % 16 # 0)
      OBVIOUS
    <3>. QED
      BY <1>4, <3>1 DEF Answers
  <2>. HIDE DEF w1
  <2>. QED
    BY <1>4, <1>5, <1>8, <2>1 DEF FirstA, L
<1>14. found.status = "OK" /\ found.address = address
  <2>1. found.address = Slice(r, w3.at, 4)
    OBVIOUS
  <2>. HIDE DEF w3
  <2>. QED
    BY <1>4, <1>7, <2>1
<1>. HIDE DEF found
<1>. QED
  BY <1>4, <1>12, <1>13, <1>14 DEF r

(* The parsers deliver the payload of a sound datagram.                      *)
LEMMA DatagramDelivered ==
  ASSUME NEW m, Sendable(m), m.kind = "UDP", m.flags_fragment % 16384 = 0,
         NEW f \in Seq(Byte), Len(f) >= 34, Word(f, 12) = 2048, Sound(m, Ip(f))
  PROVE  DnsIn(f) = m.payload
<1>. DEFINE d == Ip(f)
            p == Payload(d)
            u == ParseDatagram(p)
            t == Transport(d)
            ip == ParseIpv4(d)
            fine == u.status = "OK" /\ (u.checksum = 0 \/ TransportChecksum(Slice(d, 12, 4), Slice(d, 16, 4), 17, p) = 0)
<1>1. /\ d \in Seq(Byte) /\ Word(d, 6) = m.flags_fragment /\ At(d, 9) = Protocol(m.kind)
      /\ t.status = "OK" /\ From(p, 8) = m.payload
  BY DEF Sound
<1>2. At(d, 9) = 17 /\ ~(Word(d, 6) % 16384 # 0)
  BY <1>1, Protocols
<1>3. ip.status = "OK"
  BY SoundTaken DEF Taken
<1>4. Read(f) = IF ip.status = "OK" THEN ReadTransport(ip) ELSE Refused("REFUSED")
  <2>1. ~(Len(f) < 14) /\ ~(Word(f, 12) < 1536)
    OBVIOUS
  <2>2. ParseEthernet(f) = [status |-> "OK", ether_type |-> Word(f, 12), payload |-> d]
    BY <2>1 DEF ParseEthernet, Ip
  <2>3. ParseEthernet(f).status = "OK" /\ ParseEthernet(f).ether_type = 2048 /\ ParseEthernet(f).payload = d
    BY <2>2
  <2>. HIDE DEF d
  <2>. QED
    BY <2>3 DEF Read
<1>. HIDE DEF d
<1>5. Read(f) = t
  <2>1. ReadTransport(ip) = t
    BY <1>1, <1>3, TransportRead
  <2>. HIDE DEF ip, t
  <2>. QED
    BY <1>3, <1>4, <2>1
<1>6. t = IF fine THEN Delivered(u.payload) ELSE Refused("REFUSED")
  BY <1>1, <1>2, TransportCases
<1>7. fine /\ t.payload = u.payload
  <2>. HIDE DEF fine, t, u
  <2>. QED
    BY <1>1, <1>6 DEF Delivered, Refused
<1>8. u.payload = From(p, 8)
  <2>1. u.status = "OK"
    BY <1>7
  <2>. HIDE DEF p, fine
  <2>. QED
    BY <2>1 DEF ParseDatagram, Refused
<1>. HIDE DEF t, u
<1>. QED
  BY <1>1, <1>5, <1>7, <1>8 DEF DnsIn

LEMMA AddressFound ==
  ASSUME WireInv
  PROVE  AddressIsTheServers
<1>. DEFINE m == message
<1>1. SUFFICES ASSUME m.address # <<>>, change = Unchanged
               PROVE  FirstA(DnsIn(frame)).status = "OK" /\ FirstA(DnsIn(frame)).address = m.address
  BY DEF AddressIsTheServers
<1>2. Sendable(m) /\ Carries(m, frame)
  BY <1>1 DEF WireInv, WireType
<1>3. /\ m.kind = "UDP" /\ m.ether_type = 2048 /\ m.flags_fragment % 16384 = 0
      /\ EncodeName(m.labels).status = "OK" /\ Len(m.address) = 4
      /\ m.payload = Response(m.labels, m.address)
  BY <1>1, <1>2 DEF Sendable
<1>4. m.labels \in Seq(Seq(Byte)) /\ m.address \in Seq(Byte)
  BY <1>2 DEF Sendable
<1>5. m.address \in FourBytes
  BY <1>3, <1>4 DEF FourBytes
<1>6. /\ frame \in Seq(Byte) /\ Len(frame) >= 34 /\ Word(frame, 12) = 2048 /\ Sound(m, Ip(frame))
  BY <1>2, <1>3 DEF Carries, EtherType
<1>7. DnsIn(frame) = m.payload
  BY <1>2, <1>3, <1>6, DatagramDelivered
<1>. DEFINE labels == m.labels
            address == m.address
<1>8. labels \in Seq(Seq(Byte)) /\ EncodeName(labels).status = "OK" /\ address \in FourBytes
  BY <1>3, <1>4, <1>5
<1>9. DnsIn(frame) = Response(labels, address)
  BY <1>3, <1>7
<1>. HIDE DEF labels, address
<1>10. FirstA(Response(labels, address)).status = "OK" /\ FirstA(Response(labels, address)).address = address
  BY <1>8, FirstAFound
<1>. QED
  BY <1>9, <1>10 DEF address

(* On every frame the two walks over a DNS message agree as far as both go;  *)
(* and the address that a server puts into its answer, for any name and      *)
(* after any number of routers, is the address that lesson 09 reads.         *)
THEOREM AnswersAlwaysAgree == Spec => []AnswersAgree
<1>1. WireInv => AnswersAgree
  <2>. SUFFICES ASSUME WireInv PROVE AnswersAgree
    OBVIOUS
  <2>1. frame \in Seq(Byte) /\ Len(frame) >= 14
    BY DEF WireInv, WireType
  <2>. QED
    BY <2>1, AddressFound, WalksFit DEF AnswersAgree
<1>. QED
  BY <1>1, WireInvariant, PTL
=============================================================================
