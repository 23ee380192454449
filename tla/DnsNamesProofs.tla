---------------------------- MODULE DnsNamesProofs ----------------------------
(***************************************************************************)
(* For every message, offset and buffer size: the decoder stays inside its *)
(* buffers, both programs accept exactly the names that the bytes spell    *)
(* within the limits, and both find the same end.                          *)
(*                                                                         *)
(* The spelling of a name is a recursive function, so the first part gives *)
(* it meaning: a set of numbers has a least one, hence induction over a    *)
(* set, hence a recursive function exists and has its defining equations.  *)
(* The second part is about spellings, the last ones about the programs.   *)
(***************************************************************************)
EXTENDS DnsNames, FiniteSetTheorems, WellFoundedInduction, TLAPS

(* A set of numbers has a least one.                                       *)
LEMMA LeastNatural ==
  ASSUME NEW T \in SUBSET Nat, T # {}
  PROVE  \E n \in T : \A m \in T : n <= m
<1>. DEFINE R == OpToRel(<, Nat)
<1>1. IsWellFoundedOn(R, Nat)
  BY NatLessThanWellFounded
<1>2. \A a, b \in Nat : <<a, b>> \in R <=> a < b
  BY DEF OpToRel
<1>. HIDE DEF R
<1>3. PICK n \in T : \A m \in T : ~(<<m, n>> \in R)
  BY <1>1, WFMin
<1>4. ASSUME NEW m \in T PROVE n <= m
  <2>1. m \in Nat /\ n \in Nat /\ ~(m < n)
    BY <1>2, <1>3
  <2>. QED
    BY <2>1
<1>. QED
  BY <1>4

(* Induction, over the set of the numbers that have the property.          *)
LEMMA SetInduction ==
  ASSUME NEW T, 0 \in T, \A n \in Nat : n \in T => n + 1 \in T
  PROVE  Nat \subseteq T
<1>. SUFFICES ASSUME Nat \ T # {} PROVE FALSE
  OBVIOUS
<1>1. PICK n \in Nat \ T : \A m \in Nat \ T : n <= m
  BY LeastNatural
<1>2. n # 0 /\ n - 1 \in Nat /\ n - 1 \in T
  BY <1>1
<1>. QED
  BY <1>1, <1>2

(* The first n steps of the iteration of F.                                *)
Runs(X, first, F, n) ==
  {g \in [0..n -> X] : g[0] = first /\ \A i \in 0..(n - 1) : g[i + 1] = F[g[i]]}

(* Two of them agree as far as both go.                                    *)
LEMMA RunsAgree ==
  ASSUME NEW X, NEW first \in X, NEW F \in [X -> X], NEW n \in Nat, NEW m \in Nat,
         NEW g \in Runs(X, first, F, n), NEW h \in Runs(X, first, F, m), NEW i \in Nat, i <= n, i <= m
  PROVE  g[i] = h[i]
<1>. DEFINE T == {k \in Nat : k <= n /\ k <= m => g[k] = h[k]}
<1>1. 0 \in T
  BY DEF Runs
<1>2. ASSUME NEW k \in Nat, k \in T PROVE k + 1 \in T
  <2>. SUFFICES ASSUME k + 1 <= n, k + 1 <= m PROVE g[k + 1] = h[k + 1]
    OBVIOUS
  <2>1. k \in 0..(n - 1) /\ k \in 0..(m - 1) /\ k <= n /\ k <= m
    OBVIOUS
  <2>2. g[k + 1] = F[g[k]] /\ h[k + 1] = F[h[k]]
    BY <2>1 DEF Runs
  <2>. QED
    BY <1>2, <2>1, <2>2
<1>3. Nat \subseteq T
  <2>. HIDE DEF T
  <2>. QED
    BY <1>1, <1>2, SetInduction
<1>. QED
  BY <1>3

(* There is one of every length.                                           *)
LEMMA RunsExist ==
  ASSUME NEW X, NEW first \in X, NEW F \in [X -> X], NEW n \in Nat
  PROVE  Runs(X, first, F, n) # {}
<1>. DEFINE T == {k \in Nat : Runs(X, first, F, k) # {}}
<1>1. 0 \in T
  <2>1. [i \in 0..0 |-> first] \in Runs(X, first, F, 0)
    BY DEF Runs
  <2>. QED
    BY <2>1
<1>2. ASSUME NEW k \in Nat, k \in T PROVE k + 1 \in T
  <2>1. PICK g : g \in Runs(X, first, F, k)
    BY <1>2
  <2>. DEFINE h == [i \in 0..(k + 1) |-> IF i <= k THEN g[i] ELSE F[g[k]]]
  <2>2. g \in [0..k -> X] /\ g[0] = first /\ \A i \in 0..(k - 1) : g[i + 1] = F[g[i]]
    BY <2>1 DEF Runs
  <2>3. h \in [0..(k + 1) -> X]
    BY <2>2
  <2>4. h[0] = first
    BY <2>2
  <2>5. ASSUME NEW i \in 0..((k + 1) - 1) PROVE h[i + 1] = F[h[i]]
    <3>1. CASE i < k
      <4>1. i \in 0..(k - 1) /\ i + 1 \in 0..(k + 1) /\ i \in 0..(k + 1) /\ i <= k /\ i + 1 <= k
        BY <3>1
      <4>. QED
        BY <2>2, <4>1
    <3>2. CASE i = k
      <4>1. i + 1 \in 0..(k + 1) /\ i \in 0..(k + 1) /\ ~(i + 1 <= k)
        BY <3>2
      <4>. QED
        BY <3>2, <4>1
    <3>. QED
      BY <3>1, <3>2
  <2>. HIDE DEF h
  <2>6. h \in Runs(X, first, F, k + 1)
    BY <2>3, <2>4, <2>5 DEF Runs
  <2>. QED
    BY <2>6
<1>3. Nat \subseteq T
  <2>. HIDE DEF T
  <2>. QED
    BY <1>1, <1>2, SetInduction
<1>. QED
  BY <1>3

(* The whole iteration.                                                    *)
Endless(X, first, F) ==
  {g \in [Nat -> X] : g[0] = first /\ \A i \in Nat : g[i + 1] = F[g[i]]}

(* It exists.                                                              *)
LEMMA Recursion ==
  ASSUME NEW X, NEW first, first \in X, NEW F, F \in [X -> X]
  PROVE  Endless(X, first, F) # {}
<1>. DEFINE g(n) == CHOOSE h : h \in Runs(X, first, F, n)
            s == [n \in Nat |-> g(n)[n]]
<1>1. ASSUME NEW n \in Nat PROVE g(n) \in Runs(X, first, F, n)
  <2>1. \E h : h \in Runs(X, first, F, n)
    BY RunsExist
  <2>. QED
    BY <2>1
<1>. HIDE DEF g
<1>2. \A n \in Nat : s[n] = g(n)[n]
  OBVIOUS
<1>3. s \in [Nat -> X]
  <2>1. ASSUME NEW n \in Nat PROVE g(n)[n] \in X
    <3>1. g(n) \in [0..n -> X] /\ n \in 0..n
      BY <1>1 DEF Runs
    <3>. QED
      BY <3>1
  <2>. QED
    BY <2>1
<1>4. s[0] = first
  BY <1>1, <1>2 DEF Runs
<1>5. ASSUME NEW n \in Nat PROVE s[n + 1] = F[s[n]]
  <2>1. n + 1 \in Nat /\ n \in 0..((n + 1) - 1) /\ n <= n + 1 /\ n <= n
    OBVIOUS
  <2>2. g(n + 1) \in Runs(X, first, F, n + 1) /\ g(n) \in Runs(X, first, F, n)
    BY <1>1, <2>1
  <2>3. g(n + 1)[n + 1] = F[g(n + 1)[n]]
    BY <2>1, <2>2 DEF Runs
  <2>4. g(n + 1)[n] = g(n)[n]
    BY <2>1, <2>2, RunsAgree
  <2>. QED
    BY <1>2, <2>1, <2>3, <2>4
<1>. HIDE DEF s
<1>6. s \in Endless(X, first, F)
  BY <1>3, <1>4, <1>5 DEF Endless
<1>. QED
  BY <1>6

(* A pointer's target is a natural number.                                 *)
LEMMA TargetInNat ==
  ASSUME NEW m \in Seq(Byte), NEW c \in Nat, c + 1 < Len(m), Pointer(At(m, c))
  PROVE  Target(m, c) \in Nat
<1>1. At(m, c) \in Byte /\ At(m, c + 1) \in Byte
  BY DEF At
<1>2. At(m, c) - 3 * Quarter \in Nat /\ 4 * Quarter \in Nat
  BY <1>1, MessageAssumption DEF Pointer, Byte
<1>3. At(m, c + 1) \in Nat
  BY <1>1, MessageAssumption DEF Byte
<1>4. (At(m, c) - 3 * Quarter) * (4 * Quarter) \in Nat
  <2>1. ASSUME NEW a \in Nat, NEW b \in Nat PROVE a * b \in Nat
    BY <2>1
  <2> QED  BY <1>2, <2>1
<1> QED  BY <1>3, <1>4 DEF Target

-----------------------------------------------------------------------------
(* A reading.                                                              *)

State(m) == [at : 0..Len(m), wire : Nat, hops : Nat, text : Seq(Byte \cup {Dot})]

(* A step of a reading stays in the message, and adds to the name.         *)
LEMMA AdvanceType ==
  ASSUME NEW m \in Seq(Byte), NEW s \in State(m)
  PROVE  /\ Advance(m, s) \in State(m)
         /\ s.wire <= Advance(m, s).wire /\ s.hops <= Advance(m, s).hops
<1>1. /\ s.at \in Nat /\ s.at <= Len(m) /\ Len(m) \in Nat /\ s.wire \in Nat /\ s.hops \in Nat
      /\ s.text \in Seq(Byte \cup {Dot})
  BY DEF State
<1>2. CASE IsPointer(m, s.at)
  <2>1. Target(m, s.at) \in 0..Len(m)
    BY <1>1, <1>2, TargetInNat DEF IsPointer
  <2>2. Advance(m, s) = [s EXCEPT !.at = Target(m, s.at), !.hops = @ + 1]
    BY <1>2 DEF Advance
  <2>3. s.hops + 1 \in Nat
    BY <1>1
  <2>4. Advance(m, s) = [at |-> Target(m, s.at), wire |-> s.wire, hops |-> s.hops + 1,
                         text |-> s.text]
    BY <2>2 DEF State
  <2>. QED
    BY <1>1, <2>1, <2>3, <2>4 DEF State
<1>3. CASE ~IsPointer(m, s.at) /\ IsLabel(m, s.at)
  <2>. DEFINE b == At(m, s.at)
              label == SubSeq(m, s.at + 2, s.at + 1 + b)
  <2>1. b \in Nat /\ s.at + 1 + b <= Len(m)
    BY <1>1, <1>3, MessageAssumption DEF IsLabel, At, Byte
  <2>2. label \in Seq(Byte \cup {Dot})
    <3>1. label \in Seq(Byte)
      BY <1>1, <2>1
    <3>. QED
      BY <3>1
  <2>3. WithDot(s.text) \in Seq(Byte \cup {Dot})
    BY <1>1 DEF WithDot
  <2>4. Advance(m, s) = [at |-> s.at + 1 + b, wire |-> s.wire + 1 + b, hops |-> s.hops,
                         text |-> WithDot(s.text) \o label]
    BY <1>3 DEF Advance
  <2>. HIDE DEF b, label
  <2>5. WithDot(s.text) \o label \in Seq(Byte \cup {Dot})
    BY <2>2, <2>3
  <2>6. s.at + 1 + b \in 0..Len(m) /\ s.wire + 1 + b \in Nat /\ s.wire <= s.wire + 1 + b
    BY <1>1, <2>1
  <2>. QED
    BY <1>1, <2>4, <2>5, <2>6 DEF State
<1>4. CASE ~IsPointer(m, s.at) /\ ~IsLabel(m, s.at)
  BY <1>1, <1>4 DEF Advance
<1>. QED
  BY <1>2, <1>3, <1>4

(* The recursive definition of a reading defines one.                      *)
LEMMA SpellingSteps ==
  ASSUME NEW m \in Seq(Byte), NEW o \in 0..Len(m)
  PROVE  /\ Spelling(m, o) \in [Nat -> State(m)]
         /\ Spelling(m, o)[0] = Begin(o)
         /\ \A n \in Nat : Spelling(m, o)[n + 1] = Advance(m, Spelling(m, o)[n])
<1>. DEFINE X == State(m)
            F == [x \in X |-> Advance(m, x)]
            Defines(f) == f = [n \in Nat |-> IF n = 0 THEN Begin(o) ELSE Advance(m, f[n - 1])]
            s == Spelling(m, o)
<1>1. Begin(o) \in X
  <2>1. <<>> \in Seq(Byte \cup {Dot})
    OBVIOUS
  <2>. QED
    BY <2>1 DEF Begin, State
<1>2. F \in [X -> X]
  BY AdvanceType
<1>3. \E f : Defines(f)
  <2>. HIDE DEF X
  <2>1. PICK f \in [Nat -> X] : f[0] = Begin(o) /\ \A n \in Nat : f[n + 1] = F[f[n]]
    <3>. HIDE DEF F
    <3>1. Endless(X, Begin(o), F) # {}
      BY <1>1, <1>2, Recursion
    <3>. QED
      BY <3>1 DEF Endless
  <2>2. ASSUME NEW n \in Nat
        PROVE  f[n] = IF n = 0 THEN Begin(o) ELSE Advance(m, f[n - 1])
    <3>1. CASE n = 0
      BY <2>1, <3>1
    <3>2. CASE n # 0
      <4>1. n - 1 \in Nat /\ (n - 1) + 1 = n
        BY <3>2
      <4>2. f[n] = F[f[n - 1]] /\ f[n - 1] \in X
        BY <2>1, <4>1
      <4>. QED
        BY <3>2, <4>2
    <3>. QED
      BY <3>1, <3>2
  <2>3. Defines(f)
    BY <2>1, <2>2
  <2>. QED
    BY <2>3
<1>4. Defines(s)
  BY <1>3 DEF Spelling
<1>. HIDE DEF s
<1>5. s[0] = Begin(o)
  BY <1>4
<1>6. \A n \in Nat : s[n + 1] = Advance(m, s[n])
  <2>1. ASSUME NEW n \in Nat PROVE s[n + 1] = Advance(m, s[n])
    <3>1. n + 1 \in Nat /\ n + 1 # 0 /\ (n + 1) - 1 = n
      OBVIOUS
    <3>. QED
      BY <1>4, <3>1
  <2>. QED
    BY <2>1
<1>7. s \in [Nat -> X]
  <2>. DEFINE T == {n \in Nat : s[n] \in X}
  <2>1. 0 \in T
    BY <1>1, <1>5
  <2>2. ASSUME NEW n \in Nat, n \in T PROVE n + 1 \in T
    <3>1. s[n] \in X /\ n + 1 \in Nat /\ s[n + 1] = Advance(m, s[n])
      BY <1>6, <2>2
    <3>. QED
      BY <3>1, AdvanceType
  <2>3. Nat \subseteq T
    <3>. HIDE DEF T
    <3>. QED
      BY <2>1, <2>2, SetInduction
  <2>. QED
    BY <1>4, <2>3
<1>. QED
  BY <1>5, <1>6, <1>7 DEF s

-----------------------------------------------------------------------------
(* A reading goes on as long as it meets pointers and labels.              *)

Moves(m, c) == IsPointer(m, c) \/ IsLabel(m, c)

(* What a byte means is one thing.                                         *)
LEMMA Meanings ==
  ASSUME NEW m \in Seq(Byte), NEW c \in Nat
  PROVE  /\ IsPointer(m, c) => ~IsLabel(m, c)
         /\ IsRoot(m, c) => ~Moves(m, c)
         /\ Moves(m, c) \/ IsRoot(m, c) => c < Len(m)
<1>1. CASE c < Len(m)
  <2>1. At(m, c) \in Nat /\ Quarter \in Nat /\ Quarter > 0
    BY <1>1, MessageAssumption DEF At, Byte
  <2>. QED
    BY <1>1, <2>1 DEF IsPointer, IsLabel, IsRoot, Moves, Pointer
<1>2. CASE ~(c < Len(m))
  BY <1>2 DEF IsPointer, IsLabel, IsRoot, Moves
<1>. QED
  BY <1>1, <1>2

(* What a reading is after n steps.                                        *)
LEMMA Positions ==
  ASSUME NEW m \in Seq(Byte), NEW o \in 0..Len(m), NEW n \in Nat
  PROVE  /\ Spelling(m, o)[n] \in State(m)
         /\ Spelling(m, o)[n].at \in Nat /\ Spelling(m, o)[n].at <= Len(m)
         /\ Spelling(m, o)[n].wire \in Nat /\ Spelling(m, o)[n].hops \in Nat
         /\ Spelling(m, o)[n + 1] = Advance(m, Spelling(m, o)[n])
<1>1. Spelling(m, o)[n] \in State(m) /\ Spelling(m, o)[n + 1] = Advance(m, Spelling(m, o)[n])
  BY SpellingSteps
<1>. QED
  BY <1>1 DEF State

(* Without a pointer or a label it stays where it is.                      *)
LEMMA Stays ==
  ASSUME NEW m \in Seq(Byte), NEW o \in 0..Len(m), NEW n \in Nat, NEW k \in Nat, n <= k,
         ~Moves(m, Spelling(m, o)[n].at)
  PROVE  Spelling(m, o)[k] = Spelling(m, o)[n]
<1>. DEFINE s == Spelling(m, o)
            T == {d \in Nat : s[n + d] = s[n]}
<1>1. 0 \in T
  OBVIOUS
<1>2. ASSUME NEW d \in Nat, d \in T PROVE d + 1 \in T
  <2>1. n + d \in Nat /\ n + (d + 1) = (n + d) + 1 /\ d + 1 \in Nat /\ s[n + d] = s[n]
    BY <1>2
  <2>2. s[(n + d) + 1] = Advance(m, s[n + d])
    BY <2>1, Positions
  <2>3. Advance(m, s[n]) = s[n]
    BY DEF Advance, Moves
  <2>. HIDE DEF s
  <2>. QED
    BY <2>1, <2>2, <2>3
<1>3. Nat \subseteq T
  <2>. HIDE DEF T
  <2>. QED
    BY <1>1, <1>2, SetInduction
<1>4. k - n \in Nat /\ n + (k - n) = k
  OBVIOUS
<1>. HIDE DEF s
<1>5. s[n + (k - n)] = s[n]
  BY <1>3, <1>4
<1>. QED
  BY <1>4, <1>5 DEF s

(* Where it goes depends on where it is only.                              *)
LEMMA GoesRound ==
  ASSUME NEW m \in Seq(Byte), NEW o \in 0..Len(m), NEW i \in Nat, NEW j \in Nat, NEW d \in Nat,
         Spelling(m, o)[i].at = Spelling(m, o)[j].at
  PROVE  Spelling(m, o)[i + d].at = Spelling(m, o)[j + d].at
<1>. DEFINE s == Spelling(m, o)
            T == {e \in Nat : s[i + e].at = s[j + e].at}
<1>1. 0 \in T
  OBVIOUS
<1>2. ASSUME NEW e \in Nat, e \in T PROVE e + 1 \in T
  <2>1. /\ i + e \in Nat /\ i + (e + 1) = (i + e) + 1 /\ j + e \in Nat /\ j + (e + 1) = (j + e) + 1
        /\ e + 1 \in Nat /\ s[i + e].at = s[j + e].at
    BY <1>2
  <2>2. s[(i + e) + 1] = Advance(m, s[i + e]) /\ s[(j + e) + 1] = Advance(m, s[j + e])
    BY <2>1, Positions
  <2>3. ASSUME NEW x \in State(m), NEW y \in State(m), x.at = y.at
        PROVE  Advance(m, x).at = Advance(m, y).at
    BY <2>3 DEF Advance, State
  <2>4. s[i + e] \in State(m) /\ s[j + e] \in State(m)
    BY <2>1, Positions
  <2>. HIDE DEF s
  <2>. QED
    BY <2>1, <2>2, <2>3, <2>4
<1>3. Nat \subseteq T
  <2>. HIDE DEF T
  <2>. QED
    BY <1>1, <1>2, SetInduction
<1>. QED
  BY <1>3

(* The name only grows.                                                    *)
LEMMA Grows ==
  ASSUME NEW m \in Seq(Byte), NEW o \in 0..Len(m), NEW n \in Nat, NEW k \in Nat, n <= k
  PROVE  /\ Spelling(m, o)[n].wire <= Spelling(m, o)[k].wire
         /\ Spelling(m, o)[n].hops <= Spelling(m, o)[k].hops
<1>. DEFINE s == Spelling(m, o)
            T == {d \in Nat : s[n].wire <= s[n + d].wire /\ s[n].hops <= s[n + d].hops}
<1>1. 0 \in T
  <2>1. s[n].wire \in Nat /\ s[n].hops \in Nat /\ n + 0 = n
    BY Positions
  <2>. HIDE DEF s
  <2>. QED
    BY <2>1
<1>2. ASSUME NEW d \in Nat, d \in T PROVE d + 1 \in T
  <2>1. n + d \in Nat /\ n + (d + 1) = (n + d) + 1 /\ d + 1 \in Nat /\ (n + d) + 1 \in Nat
    OBVIOUS
  <2>2. s[(n + d) + 1] = Advance(m, s[n + d]) /\ s[n + d] \in State(m)
    BY <2>1, Positions
  <2>3. s[n + d].wire <= s[(n + d) + 1].wire /\ s[n + d].hops <= s[(n + d) + 1].hops
    BY <2>2, AdvanceType
  <2>4. /\ s[n].wire \in Nat /\ s[n].hops \in Nat /\ s[n + d].wire \in Nat /\ s[n + d].hops \in Nat
        /\ s[(n + d) + 1].wire \in Nat /\ s[(n + d) + 1].hops \in Nat
    BY <2>1, Positions
  <2>5. s[n].wire <= s[n + d].wire /\ s[n].hops <= s[n + d].hops
    BY <1>2
  <2>. HIDE DEF s
  <2>. QED
    BY <2>1, <2>3, <2>4, <2>5
<1>3. Nat \subseteq T
  <2>. HIDE DEF T
  <2>. QED
    BY <1>1, <1>2, SetInduction
<1>4. k - n \in Nat /\ n + (k - n) = k
  OBVIOUS
<1>5. s[n].wire <= s[n + (k - n)].wire /\ s[n].hops <= s[n + (k - n)].hops
  BY <1>3, <1>4
<1>. HIDE DEF s
<1>. QED
  BY <1>4, <1>5 DEF s

Walked(m, o, k) == \A i \in 0..(k - 1) : Moves(m, Spelling(m, o)[i].at)

RootAt(m, o, k) == Walked(m, o, k) /\ IsRoot(m, Spelling(m, o)[k].at)

(* No position of a name that ends is met twice.                           *)
LEMMA NoRepeat ==
  ASSUME NEW m \in Seq(Byte), NEW o \in 0..Len(m), NEW n \in Nat, RootAt(m, o, n),
         NEW i \in Nat, NEW j \in Nat, i < j, j <= n
  PROVE  Spelling(m, o)[i].at # Spelling(m, o)[j].at
<1>. DEFINE s == Spelling(m, o)
<1>. SUFFICES ASSUME s[i].at = s[j].at PROVE FALSE
  OBVIOUS
<1>1. n - j \in Nat /\ j + (n - j) = n /\ i + (n - j) \in 0..(n - 1) /\ i + (n - j) \in Nat
  OBVIOUS
<1>2. s[i + (n - j)].at = s[j + (n - j)].at
  <2>. DEFINE d == n - j
  <2>1. d \in Nat
    BY <1>1
  <2>. HIDE DEF d
  <2>2. s[i + d].at = s[j + d].at
    BY <2>1, GoesRound
  <2>. QED
    BY <2>2 DEF d
<1>3. Moves(m, s[i + (n - j)].at) /\ IsRoot(m, s[n].at)
  BY <1>1 DEF RootAt, Walked
<1>4. s[n].at \in Nat
  BY Positions
<1>5. s[i + (n - j)].at = s[n].at
  BY <1>1, <1>2
<1>. QED
  BY <1>3, <1>4, <1>5, Meanings

(* A name that ends does so before it has taken as many steps as the       *)
(* message has bytes.                                                      *)
LEMMA RootIsNear ==
  ASSUME NEW m \in Seq(Byte), NEW o \in 0..Len(m), NEW n \in Nat, RootAt(m, o, n)
  PROVE  n < Len(m) /\ Name(m, o) = Spelling(m, o)[n]
<1>. DEFINE s == Spelling(m, o)
            f == [i \in 0..n |-> s[i].at]
<1>1. ASSUME NEW i \in 0..n PROVE s[i].at \in 0..(Len(m) - 1)
  <2>1. i \in Nat
    OBVIOUS
  <2>4. s[i].at \in Nat /\ Len(m) \in Nat
    <3>1. s[i].at \in Nat
      BY <2>1, Positions
    <3>. QED
      BY <3>1
  <2>2. Moves(m, s[i].at) \/ IsRoot(m, s[i].at)
    BY DEF RootAt, Walked
  <2>3. s[i].at < Len(m)
    BY <2>4, <2>2, Meanings
  <2>. QED
    BY <2>4, <2>3
<1>2. f \in Injection(0..n, 0..(Len(m) - 1))
  <2>1. f \in [0..n -> 0..(Len(m) - 1)]
    BY <1>1
  <2>2. ASSUME NEW i \in 0..n, NEW j \in 0..n, i # j PROVE s[i].at # s[j].at
    <3>1. i \in Nat /\ j \in Nat /\ i <= n /\ j <= n
      OBVIOUS
    <3>2. CASE i < j
      BY <3>1, <3>2, NoRepeat
    <3>3. CASE j < i
      BY <3>1, <3>3, NoRepeat
    <3>4. i < j \/ j < i
      BY <2>2, <3>1
    <3>. QED
      BY <3>2, <3>3, <3>4
  <2>. QED
    BY <2>1, <2>2 DEF Injection, IsInjective
<1>3. n < Len(m)
  <2>1. Len(m) \in Nat /\ 0 \in Int /\ n \in Int /\ Len(m) - 1 \in Int
    OBVIOUS
  <2>2. IsFiniteSet(0..n) /\ Cardinality(0..n) = n + 1
        /\ IsFiniteSet(0..(Len(m) - 1)) /\ Cardinality(0..(Len(m) - 1)) \in {Len(m), 0}
    <3>1. /\ IsFiniteSet(0..n)
          /\ Cardinality(0..n) = IF 0 > n THEN 0 ELSE n - 0 + 1
      BY <2>1, FS_Interval
    <3>2. /\ IsFiniteSet(0..(Len(m) - 1))
          /\ Cardinality(0..(Len(m) - 1)) = IF 0 > Len(m) - 1 THEN 0 ELSE Len(m) - 1 - 0 + 1
      BY <2>1, FS_Interval
    <3>3. n - 0 + 1 = n + 1 /\ ~(0 > n) /\ Len(m) - 1 - 0 + 1 = Len(m)
      BY <2>1
    <3>. QED
      BY <3>1, <3>2, <3>3
  <2>3. Cardinality(0..n) <= Cardinality(0..(Len(m) - 1))
    <3>. HIDE DEF f
    <3>. QED
      BY <1>2, <2>2, FS_Injection
  <2>. QED
    BY <2>1, <2>2, <2>3
<1>4. s[Len(m)] = s[n]
  <2>1. s[n].at \in Nat /\ Len(m) \in Nat
    <3>1. s[n].at \in Nat
      BY Positions
    <3>. QED
      BY <3>1
  <2>3. IsRoot(m, s[n].at)
    BY DEF RootAt
  <2>2. ~Moves(m, s[n].at)
    BY <2>1, <2>3, Meanings
  <2>. QED
    BY <1>3, <2>1, <2>2, Stays
<1>. QED
  BY <1>3, <1>4 DEF Name

(* A name that ends has a first root.                                      *)
LEMMA RootIsReached ==
  ASSUME NEW m \in Seq(Byte), NEW o \in 0..Len(m), IsRoot(m, Name(m, o).at)
  PROVE  {n \in Nat : RootAt(m, o, n)} # {}
<1>. DEFINE s == Spelling(m, o)
            T == {n \in Nat : IsRoot(m, s[n].at)}
<1>1. Len(m) \in T
  BY DEF Name
<1>2. PICK n \in T : \A k \in T : n <= k
  <2>1. T \in SUBSET Nat /\ T # {}
    BY <1>1
  <2>. HIDE DEF T
  <2>. QED
    BY <2>1, LeastNatural
<1>3. ASSUME NEW i \in 0..(n - 1) PROVE Moves(m, s[i].at)
  <2>1. i \in Nat /\ i <= n /\ ~(n <= i) /\ n \in Nat
    OBVIOUS
  <2>2. ~IsRoot(m, s[i].at)
    BY <1>2, <2>1
  <2>3. CASE ~Moves(m, s[i].at)
    <3>1. s[n] = s[i]
      BY <2>1, <2>3, Stays
    <3>2. IsRoot(m, s[n].at)
      BY <1>2
    <3>. QED
      BY <2>2, <3>1, <3>2
  <2>. QED
    BY <2>3
<1>4. RootAt(m, o, n)
  BY <1>2, <1>3 DEF RootAt, Walked
<1>. QED
  BY <1>4

(* A reading that is stuck before a root spells no name.                   *)
LEMMA StuckIsNoName ==
  ASSUME NEW m \in Seq(Byte), NEW o \in 0..Len(m), NEW k \in Nat,
         Walked(m, o, k), ~Moves(m, Spelling(m, o)[k].at), ~IsRoot(m, Spelling(m, o)[k].at)
  PROVE  ~IsRoot(m, Name(m, o).at)
<1>. SUFFICES ASSUME IsRoot(m, Name(m, o).at) PROVE FALSE
  OBVIOUS
<1>1. PICK n \in Nat : RootAt(m, o, n)
  BY RootIsReached
<1>2. CASE n < k
  <2>1. n \in 0..(k - 1)
    BY <1>2
  <2>2. Moves(m, Spelling(m, o)[n].at) /\ IsRoot(m, Spelling(m, o)[n].at)
    BY <1>1, <2>1 DEF Walked, RootAt
  <2>3. Spelling(m, o)[n].at \in Nat
    BY Positions
  <2>. QED
    BY <2>2, <2>3, Meanings
<1>3. CASE n = k
  BY <1>1, <1>3 DEF RootAt
<1>4. CASE n > k
  <2>1. k \in 0..(n - 1)
    BY <1>4
  <2>. QED
    BY <1>1, <2>1 DEF Walked, RootAt
<1>. QED
  BY <1>2, <1>3, <1>4

(* A name that goes on is at least as long as what was read of it, and a    *)
(* step leads to a new position.                                            *)
LEMMA NameGoesOn ==
  ASSUME NEW m \in Seq(Byte), NEW o \in 0..Len(m), NEW k \in Nat,
         Walked(m, o, k), Moves(m, Spelling(m, o)[k].at), IsRoot(m, Name(m, o).at)
  PROVE  /\ Spelling(m, o)[k + 1].wire <= Name(m, o).wire
         /\ Spelling(m, o)[k + 1].hops <= Name(m, o).hops
         /\ \A i \in 0..k : Spelling(m, o)[i].at # Spelling(m, o)[k + 1].at
<1>1. PICK n \in Nat : RootAt(m, o, n)
  BY RootIsReached
<1>2. k + 1 \in Nat /\ k + 1 <= n
  <2>1. CASE n < k
    <3>1. n \in 0..(k - 1)
      BY <2>1
    <3>2. Moves(m, Spelling(m, o)[n].at) /\ IsRoot(m, Spelling(m, o)[n].at)
      BY <1>1, <3>1 DEF Walked, RootAt
    <3>3. Spelling(m, o)[n].at \in Nat
      BY Positions
    <3>. QED
      BY <3>2, <3>3, Meanings
  <2>2. CASE n = k
    <3>1. Spelling(m, o)[k].at \in Nat
      BY Positions
    <3>. QED
      BY <1>1, <2>2, <3>1, Meanings DEF RootAt
  <2>3. CASE n > k
    BY <2>3
  <2>. QED
    BY <2>1, <2>2, <2>3
<1>3. Name(m, o) = Spelling(m, o)[n]
  BY <1>1, RootIsNear
<1>4. Spelling(m, o)[k + 1].wire <= Spelling(m, o)[n].wire
      /\ Spelling(m, o)[k + 1].hops <= Spelling(m, o)[n].hops
  BY <1>2, Grows
<1>5. ASSUME NEW i \in 0..k PROVE Spelling(m, o)[i].at # Spelling(m, o)[k + 1].at
  <2>1. i \in Nat /\ i < k + 1
    OBVIOUS
  <2>. QED
    BY <1>1, <1>2, <2>1, NoRepeat
<1>. QED
  BY <1>3, <1>4, <1>5

(* The place where a name ends is one.                                     *)
LEMMA EndIsUnique ==
  ASSUME NEW m \in Seq(Byte), NEW o \in 0..Len(m), NEW n \in Nat, n <= Len(m), EndsAt(m, o, n)
  PROVE  EndInPlace(m, o) = IF IsPointer(m, Spelling(m, o)[n].at)
                              THEN Spelling(m, o)[n].at + 2 ELSE Spelling(m, o)[n].at + 1
<1>. DEFINE s == Spelling(m, o)
            c == CHOOSE i \in 0..Len(m) : EndsAt(m, o, i)
<1>1. c \in 0..Len(m) /\ EndsAt(m, o, c)
  <2>1. n \in 0..Len(m)
    OBVIOUS
  <2>. QED
    BY <2>1
<1>2. EndInPlace(m, o) = IF IsPointer(m, s[c].at) THEN s[c].at + 2 ELSE s[c].at + 1
  BY DEF EndInPlace
<1>. HIDE DEF c
<1>3. c \in Nat
  BY <1>1
<1>4. ASSUME NEW i \in Nat, NEW j \in Nat, EndsAt(m, o, i), EndsAt(m, o, j), i < j PROVE FALSE
  <2>1. i \in 0..(j - 1)
    BY <1>4
  <2>2. IsLabel(m, s[i].at) /\ (IsPointer(m, s[i].at) \/ IsRoot(m, s[i].at))
    BY <1>4, <2>1 DEF EndsAt
  <2>3. s[i].at \in Nat
    BY Positions
  <2>. QED
    BY <2>2, <2>3, Meanings DEF Moves
<1>5. ~(c < n) /\ ~(n < c)
  BY <1>1, <1>3, <1>4
<1>6. c = n
  BY <1>3, <1>5
<1>. QED
  BY <1>2, <1>6

(* The text has a dot between two labels, and the length on the wire a     *)
(* length byte for each of them and the root.                              *)
LEMMA TextLength ==
  ASSUME NEW m \in Seq(Byte), NEW o \in 0..Len(m), NEW k \in Nat
  PROVE  /\ Spelling(m, o)[k].text = <<>> => Spelling(m, o)[k].wire = 1
         /\ Spelling(m, o)[k].text # <<>> =>
              Len(Spelling(m, o)[k].text) + 2 = Spelling(m, o)[k].wire
<1>. DEFINE Fits(x) == /\ x.text = <<>> => x.wire = 1
                       /\ x.text # <<>> => Len(x.text) + 2 = x.wire
            s == Spelling(m, o)
            T == {n \in Nat : Fits(s[n])}
<1>1. 0 \in T
  <2>1. s[0] = Begin(o)
    BY SpellingSteps
  <2>2. Fits(Begin(o))
    BY DEF Begin
  <2>. HIDE DEF s, Fits
  <2>. QED
    BY <2>1, <2>2
<1>2. ASSUME NEW x \in State(m), Fits(x) PROVE Fits(Advance(m, x))
  <2>1. /\ x.at \in Nat /\ x.at <= Len(m) /\ Len(m) \in Nat /\ x.wire \in Nat
        /\ x.text \in Seq(Byte \cup {Dot})
    BY DEF State
  <2>2. CASE IsPointer(m, x.at)
    <3>1. Advance(m, x).text = x.text /\ Advance(m, x).wire = x.wire
      BY <2>2 DEF Advance, State
    <3>. QED
      BY <1>2, <3>1
  <2>3. CASE ~IsPointer(m, x.at) /\ IsLabel(m, x.at)
    <3>. DEFINE b == At(m, x.at)
                label == SubSeq(m, x.at + 2, x.at + 1 + b)
                dotted == WithDot(x.text)
    <3>1. b \in Nat /\ b > 0 /\ x.at + 1 + b <= Len(m)
      BY <2>1, <2>3, MessageAssumption DEF IsLabel, At, Byte
    <3>2. label \in Seq(Byte \cup {Dot}) /\ Len(label) = b
      <4>1. label \in Seq(Byte) /\ Len(label) = b
        BY <2>1, <3>1
      <4>. QED
        BY <4>1
    <3>3. dotted \in Seq(Byte \cup {Dot}) /\ Len(dotted) + 1 = x.wire
      <4>1. CASE x.text = <<>>
        BY <1>2, <4>1 DEF WithDot
      <4>2. CASE x.text # <<>>
        <5>1. dotted = Append(x.text, Dot) /\ Len(x.text) + 2 = x.wire
          BY <1>2, <4>2 DEF WithDot
        <5>2. Append(x.text, Dot) \in Seq(Byte \cup {Dot}) /\ Len(Append(x.text, Dot)) = Len(x.text) + 1
          BY <2>1
        <5>3. Len(x.text) \in Nat
          BY <2>1
        <5>. HIDE DEF dotted
        <5>. QED
          BY <5>1, <5>2, <5>3
      <4>. QED
        BY <4>1, <4>2
    <3>4. Advance(m, x).text = dotted \o label /\ Advance(m, x).wire = x.wire + 1 + b
      BY <2>3 DEF Advance
    <3>. HIDE DEF b, label, dotted
    <3>5. Len(dotted \o label) = Len(dotted) + Len(label) /\ Len(dotted) \in Nat
      BY <3>2, <3>3
    <3>6. dotted \o label # <<>>
      <4>1. Len(<<>>) = 0
        OBVIOUS
      <4>. QED
        BY <3>1, <3>2, <3>5, <4>1
    <3>7. Len(dotted \o label) + 2 = x.wire + 1 + b
      <4>. DEFINE a == Len(dotted)
                  w == x.wire
                  l == Len(dotted \o label)
      <4>1. a \in Nat /\ a + 1 = w /\ l = a + b /\ b \in Nat
        BY <3>1, <3>2, <3>3, <3>5
      <4>. HIDE DEF a, w, l
      <4>2. l + 2 = w + 1 + b
        BY <4>1
      <4>. QED
        BY <4>2 DEF l, w
    <3>. QED
      BY <3>4, <3>6, <3>7
  <2>4. CASE ~IsPointer(m, x.at) /\ ~IsLabel(m, x.at)
    BY <1>2, <2>4 DEF Advance
  <2>. QED
    BY <2>2, <2>3, <2>4
<1>3. ASSUME NEW n \in Nat, n \in T PROVE n + 1 \in T
  <2>1. s[n] \in State(m) /\ s[n + 1] = Advance(m, s[n])
    BY Positions
  <2>2. Fits(s[n])
    BY <1>3
  <2>. HIDE DEF Fits, s
  <2>3. Fits(Advance(m, s[n]))
    BY <1>2, <2>1, <2>2
  <2>. QED
    BY <2>1, <2>3
<1>4. Nat \subseteq T
  <2>. HIDE DEF T
  <2>. QED
    BY <1>1, <1>3, SetInduction
<1>5. Fits(s[k])
  BY <1>4
<1>. QED
  BY <1>5

-----------------------------------------------------------------------------
(* Both programs read the k-th position: cursor c, w bytes of the expanded *)
(* name without its root, h pointers, the targets v behind them, and the   *)
(* end e in place if they have jumped.                                     *)

Place(m, o, k, c, w, h) ==
  /\ Walked(m, o, k)
  /\ c = Spelling(m, o)[k].at /\ w + 1 = Spelling(m, o)[k].wire /\ h = Spelling(m, o)[k].hops

Seen(m, o, k, v) == v \subseteq {Spelling(m, o)[i].at : i \in 0..k}

EndKept(m, o, k, jump, e) ==
  /\ ~jump => \A i \in 0..(k - 1) : IsLabel(m, Spelling(m, o)[i].at)
  /\ jump => \E i \in 0..(k - 1) :
               /\ EndsAt(m, o, i)
               /\ IsPointer(m, Spelling(m, o)[i].at) /\ e = Spelling(m, o)[i].at + 2

(* A position that is passed was a pointer or a label.                     *)
LEMMA WalksOn ==
  ASSUME NEW m, NEW o, NEW k \in Nat, Walked(m, o, k), Moves(m, Spelling(m, o)[k].at)
  PROVE  Walked(m, o, k + 1)
<1>. SUFFICES ASSUME NEW i \in 0..((k + 1) - 1) PROVE Moves(m, Spelling(m, o)[i].at)
  BY DEF Walked
<1>1. i \in 0..(k - 1) \/ i = k
  OBVIOUS
<1>. QED
  BY <1>1 DEF Walked

(* The positions seen stay seen.                                           *)
LEMMA StillSeen ==
  ASSUME NEW m, NEW o, NEW k \in Nat, NEW v, Seen(m, o, k, v)
  PROVE  Seen(m, o, k + 1, v \cup {Spelling(m, o)[k + 1].at}) /\ Seen(m, o, k + 1, v)
<1>1. 0..k \subseteq 0..(k + 1) /\ k + 1 \in 0..(k + 1)
  OBVIOUS
<1>. QED
  BY <1>1 DEF Seen

(* Following a pointer is a step of the reading.                           *)
LEMMA PointerStep ==
  ASSUME NEW m \in Seq(Byte), NEW o \in 0..Len(m), NEW k \in Nat, NEW c, NEW w, NEW h,
         Place(m, o, k, c, w, h), IsPointer(m, c)
  PROVE  /\ Place(m, o, k + 1, Target(m, c), w, h + 1)
         /\ Spelling(m, o)[k + 1].text = Spelling(m, o)[k].text
<1>. DEFINE s == Spelling(m, o)
<1>1. s[k] \in State(m) /\ s[k + 1] = Advance(m, s[k])
  BY Positions
<1>2. c = s[k].at /\ w + 1 = s[k].wire /\ h = s[k].hops
  BY DEF Place
<1>3. s[k + 1] = [s[k] EXCEPT !.at = Target(m, c), !.hops = @ + 1]
  BY <1>1, <1>2 DEF Advance
<1>4. Walked(m, o, k + 1)
  BY WalksOn DEF Place, Moves
<1>. HIDE DEF s
<1>5. s[k + 1].at = Target(m, c) /\ s[k + 1].wire = w + 1 /\ s[k + 1].hops = h + 1
      /\ s[k + 1].text = s[k].text
  BY <1>1, <1>2, <1>3 DEF State
<1>. QED
  BY <1>4, <1>5 DEF Place, s

(* The first pointer fixes the end in place.                               *)
LEMMA PointerKeepsEnd ==
  ASSUME NEW m \in Seq(Byte), NEW o \in 0..Len(m), NEW k \in Nat, NEW jump \in BOOLEAN, NEW e,
         EndKept(m, o, k, jump, e), IsPointer(m, Spelling(m, o)[k].at)
  PROVE  EndKept(m, o, k + 1, TRUE, IF jump THEN e ELSE Spelling(m, o)[k].at + 2)
<1>1. 0..(k - 1) \subseteq 0..((k + 1) - 1) /\ k \in 0..((k + 1) - 1)
  OBVIOUS
<1>2. CASE jump
  BY <1>1, <1>2 DEF EndKept
<1>3. CASE ~jump
  <2>1. EndsAt(m, o, k)
    BY <1>3 DEF EndKept, EndsAt
  <2>. QED
    BY <1>1, <1>3, <2>1 DEF EndKept
<1>. QED
  BY <1>2, <1>3

(* Passing a label is a step of the reading.                               *)
LEMMA LabelStep ==
  ASSUME NEW m \in Seq(Byte), NEW o \in 0..Len(m), NEW k \in Nat, NEW c, NEW w \in Int, NEW h,
         Place(m, o, k, c, w, h), IsLabel(m, c)
  PROVE  /\ Place(m, o, k + 1, c + 1 + At(m, c), w + At(m, c) + 1, h)
         /\ Spelling(m, o)[k + 1].text =
              WithDot(Spelling(m, o)[k].text) \o SubSeq(m, c + 2, c + 1 + At(m, c))
<1>. DEFINE s == Spelling(m, o)
            read == WithDot(s[k].text) \o SubSeq(m, c + 2, c + 1 + At(m, c))
<1>1. s[k].at \in Nat /\ s[k + 1] = Advance(m, s[k])
  BY Positions
<1>2. c = s[k].at /\ w + 1 = s[k].wire /\ h = s[k].hops
  BY DEF Place
<1>3. ~IsPointer(m, c)
  BY <1>1, <1>2, Meanings
<1>4. At(m, c) \in Int
  <2>1. c \in Nat /\ c < Len(m)
    BY <1>1, <1>2 DEF IsLabel
  <2>2. At(m, c) \in Byte
    BY <2>1 DEF At
  <2>. QED
    BY <2>2, MessageAssumption DEF Byte
<1>5. s[k + 1] = [at   |-> c + 1 + At(m, c), wire |-> s[k].wire + 1 + At(m, c), hops |-> h,
                  text |-> read]
  BY <1>1, <1>2, <1>3 DEF Advance
<1>6. Walked(m, o, k + 1)
  BY WalksOn DEF Place, Moves
<1>. HIDE DEF s, read
<1>7. s[k + 1].wire = (w + At(m, c) + 1) + 1
  <2>1. s[k + 1].wire = s[k].wire + 1 + At(m, c)
    BY <1>5
  <2>. DEFINE b == At(m, c)
              x == s[k].wire
  <2>2. b \in Int /\ x = w + 1 /\ s[k + 1].wire = x + 1 + b
    BY <1>2, <1>4, <2>1
  <2>. HIDE DEF b, x
  <2>3. s[k + 1].wire = (w + b + 1) + 1
    BY <2>2
  <2>. QED
    BY <2>3 DEF b
<1>8. s[k + 1].at = c + 1 + At(m, c) /\ s[k + 1].hops = h
      /\ s[k + 1].text = read
  BY <1>5
<1>. QED
  BY <1>6, <1>7, <1>8 DEF Place, s, read

(* A label moves no end that a pointer has fixed.                          *)
LEMMA LabelKeepsEnd ==
  ASSUME NEW m \in Seq(Byte), NEW o \in 0..Len(m), NEW k \in Nat, NEW jump \in BOOLEAN, NEW e,
         EndKept(m, o, k, jump, e), IsLabel(m, Spelling(m, o)[k].at)
  PROVE  EndKept(m, o, k + 1, jump, e)
<1>1. 0..(k - 1) \subseteq 0..((k + 1) - 1)
  OBVIOUS
<1>2. \A i \in 0..((k + 1) - 1) : i \in 0..(k - 1) \/ i = k
  OBVIOUS
<1>3. CASE jump
  BY <1>1, <1>3 DEF EndKept
<1>4. CASE ~jump
  BY <1>2, <1>4 DEF EndKept
<1>. QED
  BY <1>3, <1>4

(* At a root the name is complete.                                         *)
LEMMA AtRoot ==
  ASSUME NEW m \in Seq(Byte), NEW o \in 0..Len(m), NEW k \in Nat, NEW c, NEW w \in Int, NEW h \in Int,
         Place(m, o, k, c, w, h), IsRoot(m, c), NEW jump \in BOOLEAN, NEW e, EndKept(m, o, k, jump, e)
  PROVE  /\ Name(m, o) = Spelling(m, o)[k]
         /\ h <= MaxHops => (Legal(m, o) <=> w + 1 <= MaxWire)
         /\ EndInPlace(m, o) = IF jump THEN e ELSE c + 1
<1>. DEFINE s == Spelling(m, o)
<1>1. c = s[k].at /\ w + 1 = s[k].wire /\ h = s[k].hops /\ RootAt(m, o, k)
  BY DEF Place, RootAt
<1>2. k < Len(m) /\ Name(m, o) = s[k]
  BY <1>1, RootIsNear
<1>3. h <= MaxHops => (Legal(m, o) <=> w + 1 <= MaxWire)
  BY <1>1, <1>2 DEF Legal
<1>4. CASE jump
  <2>1. PICK i \in 0..(k - 1) : EndsAt(m, o, i) /\ IsPointer(m, s[i].at) /\ e = s[i].at + 2
    BY <1>4 DEF EndKept
  <2>2. i \in Nat /\ i <= Len(m)
    BY <1>2
  <2>3. EndInPlace(m, o) = IF IsPointer(m, s[i].at) THEN s[i].at + 2 ELSE s[i].at + 1
    BY <2>1, <2>2, EndIsUnique
  <2>. QED
    BY <1>2, <1>3, <1>4, <2>1, <2>3
<1>5. CASE ~jump
  <2>1. EndsAt(m, o, k) /\ k <= Len(m)
    <3>1. EndsAt(m, o, k)
      BY <1>1, <1>5 DEF EndKept, EndsAt
    <3>. QED
      BY <1>2, <3>1
  <2>2. c \in Nat
    BY <1>1, Positions
  <2>3. ~IsPointer(m, c)
    BY <2>2, Meanings DEF Moves
  <2>4. EndInPlace(m, o) = IF IsPointer(m, s[k].at) THEN s[k].at + 2 ELSE s[k].at + 1
    BY <2>1, EndIsUnique
  <2>. QED
    BY <1>1, <1>2, <1>3, <1>5, <2>3, <2>4
<1>. QED
  BY <1>4, <1>5

(* What is refused is no legal name.                                       *)
LEMMA RefusedStuck ==
  ASSUME NEW m \in Seq(Byte), NEW o \in 0..Len(m), NEW k \in Nat, NEW c, NEW w, NEW h,
         Place(m, o, k, c, w, h), ~Moves(m, c), ~IsRoot(m, c)
  PROVE  ~Legal(m, o)
<1>1. ~IsRoot(m, Name(m, o).at)
  BY StuckIsNoName DEF Place
<1>. QED
  BY <1>1 DEF Legal

(* A pointer to a position that was seen, or one too many.                 *)
LEMMA RefusedPointer ==
  ASSUME NEW m \in Seq(Byte), NEW o \in 0..Len(m), NEW k \in Nat, NEW c, NEW w, NEW h \in Int,
         Place(m, o, k, c, w, h), NEW v, Seen(m, o, k, v), IsPointer(m, c),
         Target(m, c) \in v \/ h + 1 > MaxHops
  PROVE  ~Legal(m, o)
<1>. SUFFICES ASSUME Legal(m, o) PROVE FALSE
  OBVIOUS
<1>. DEFINE s == Spelling(m, o)
<1>1. c = s[k].at /\ Walked(m, o, k) /\ Moves(m, s[k].at)
  BY DEF Place, Moves
<1>2. s[k + 1].at = Target(m, c) /\ s[k + 1].hops = h + 1
  BY PointerStep DEF Place
<1>3. s[k + 1].hops <= Name(m, o).hops /\ \A i \in 0..k : s[i].at # s[k + 1].at
  BY <1>1, NameGoesOn DEF Legal
<1>4. CASE Target(m, c) \in v
  BY <1>2, <1>3, <1>4 DEF Seen
<1>5. CASE h + 1 > MaxHops
  <2>1. Name(m, o).hops \in Nat /\ Name(m, o).hops <= MaxHops /\ MaxHops \in Nat
    <3>1. Len(m) \in Nat
      OBVIOUS
    <3>2. Name(m, o).hops \in Nat
      BY <3>1, Positions DEF Name
    <3>. QED
      BY <3>2, MessageAssumption DEF Legal
  <2>. HIDE DEF s
  <2>. QED
    BY <1>2, <1>3, <1>5, <2>1
<1>. QED
  BY <1>4, <1>5

(* A label for which the name has no room.                                 *)
LEMMA RefusedLabel ==
  ASSUME NEW m \in Seq(Byte), NEW o \in 0..Len(m), NEW k \in Nat, NEW c, NEW w \in Int, NEW h,
         Place(m, o, k, c, w, h), IsLabel(m, c), w + At(m, c) + 2 > MaxWire
  PROVE  ~Legal(m, o)
<1>. SUFFICES ASSUME Legal(m, o) PROVE FALSE
  OBVIOUS
<1>. DEFINE s == Spelling(m, o)
            b == At(m, c)
<1>1. c = s[k].at /\ Walked(m, o, k) /\ Moves(m, s[k].at)
  BY DEF Place, Moves
<1>2. (w + b + 1) + 1 = s[k + 1].wire
  BY LabelStep DEF Place
<1>3. s[k + 1].wire <= Name(m, o).wire
  BY <1>1, NameGoesOn DEF Legal
<1>4. Name(m, o).wire <= MaxWire /\ MaxWire \in Nat
  BY MessageAssumption DEF Legal
<1>5. Name(m, o).wire \in Nat /\ s[k + 1].wire \in Nat
  <2>1. Len(m) \in Nat /\ k + 1 \in Nat
    OBVIOUS
  <2>. QED
    BY <2>1, Positions DEF Name
<1>6. b \in Nat
  <2>1. c \in Nat /\ c < Len(m)
    BY <1>1, Positions DEF IsLabel
  <2>2. At(m, c) \in Byte
    BY <2>1 DEF At
  <2>. QED
    BY <2>2, MessageAssumption DEF Byte
<1>7. w + b + 2 > MaxWire
  OBVIOUS
<1>. HIDE DEF s, b
<1>. QED
  BY <1>2, <1>3, <1>4, <1>5, <1>6, <1>7

-----------------------------------------------------------------------------
(* The end of the name is behind its start: until the first pointer the      *)
(* cursor only moves forward, and the first pointer fixes the end.           *)
EndBehindStart ==
  /\ ~jumped => offset <= cursor
  /\ jumped  => offset < decoded_next

IInv == TypeOK /\ ResultsFit /\ EndBehindStart

(* The initial states satisfy the inductive invariant. *)
LEMMA InitIInv == Init => IInv
<1> SUFFICES ASSUME Init PROVE IInv
  OBVIOUS
<1>1. MaxWire \in Nat /\ MaxHops \in Nat /\ MaxText \in Nat /\ message \in Seq(Byte)
  BY MessageAssumption, TextAssumption DEF Init
<1>2. Len(message) \in Nat
  BY <1>1
<1>3. <<>> \in Seq(Byte \cup {Dot}) /\ Len(<<>>) = 0
  OBVIOUS
<1>4. TypeOK
  <2>1. out_capacity \in OutCapacities /\ message \in Messages
    BY DEF Init
  <2>2. cursor \in 0..Len(message) /\ offset \in 0..Len(message)
        /\ decoded_next \in 0..Len(message) /\ next_offset \in 0..Len(message)
    BY <1>2 DEF Init
  <2>3. expanded_wire_len \in 0..MaxWire /\ pointer_hops \in 0..MaxHops
    BY <1>1 DEF Init
  <2>4. decoded \in Seq(Byte \cup {Dot}) /\ Len(decoded) <= MaxText
    BY <1>1, <1>3 DEF Init
  <2>5. out \in Seq(Byte \cup {Dot})
    BY <1>3 DEF Init
  <2>6. visited \subseteq 0..(Len(message) - 1) /\ jumped \in BOOLEAN /\ status = "RUNNING"
    BY DEF Init
  <2> QED  BY <2>1, <2>2, <2>3, <2>4, <2>5, <2>6 DEF TypeOK
<1>5. ResultsFit /\ EndBehindStart
  BY <1>2 DEF Init, ResultsFit, EndBehindStart
<1> QED  BY <1>4, <1>5 DEF IInv

(* A return without a result changes the status only. *)
LEMMA ReturnIInv ==
  ASSUME IInv, Running, NEW result \in {"TRUNCATED", "MALFORMED", "CAPACITY"}, Return(result)
  PROVE  IInv'
BY DEF IInv, TypeOK, ResultsFit, EndBehindStart, Running, Return, args, progress

(* A pointer that is followed keeps the walk inside the message. *)
LEMMA PointerIInv ==
  ASSUME IInv, FollowPointer
  PROVE  IInv'
<1> DEFINE target == Target(message, cursor)
<1>1. /\ message \in Seq(Byte) /\ cursor \in Nat /\ Len(message) \in Nat
      /\ cursor + 1 < Len(message) /\ Pointer(At(message, cursor))
  BY MessageAssumption DEF IInv, TypeOK, FollowPointer, ReadPointer, Reading, This
<1>2. target \in 0..(Len(message) - 1)
  <2>1. target \in Nat
    BY <1>1, TargetInNat
  <2>2. ~(target >= Len(message))
    BY DEF FollowPointer, Refused
  <2> QED  BY <1>1, <2>1, <2>2
<1>3. pointer_hops' \in 0..MaxHops
  <2>1. ~(pointer_hops + 1 > MaxHops) /\ pointer_hops' = pointer_hops + 1
    BY DEF FollowPointer, Refused
  <2>2. pointer_hops \in 0..MaxHops /\ MaxHops \in Nat
    BY MessageAssumption DEF IInv, TypeOK
  <2> QED  BY <2>1, <2>2
<1>4. decoded_next' \in 0..Len(message) /\ offset < decoded_next'
  BY <1>1 DEF IInv, TypeOK, EndBehindStart, FollowPointer, EndAfterPointer
<1>5. TypeOK'
  <2>1. cursor' = target /\ visited' = visited \cup {target}
    BY DEF FollowPointer
  <2>2. jumped' \in BOOLEAN
    BY DEF FollowPointer
  <2>3. UNCHANGED <<message, offset, out_capacity, expanded_wire_len, decoded,
                    out, next_offset, status>>
    BY DEF FollowPointer, args, results
  <2> HIDE DEF target
  <2>4. cursor' \in 0..Len(message) /\ visited' \subseteq 0..(Len(message) - 1)
    BY <1>1, <1>2, <2>1 DEF IInv, TypeOK
  <2> QED  BY <1>3, <1>4, <2>2, <2>3, <2>4 DEF IInv, TypeOK
<1>6. ResultsFit'
  BY DEF IInv, ResultsFit, FollowPointer, args, results
<1>7. EndBehindStart'
  BY <1>4 DEF EndBehindStart, FollowPointer, args
<1> QED  BY <1>5, <1>6, <1>7 DEF IInv

(* A label that is stored fits the local buffer, its dot included. *)
LEMMA LabelIInv ==
  ASSUME IInv, StoreLabel
  PROVE  IInv'
<1>1. /\ message \in Seq(Byte) /\ Len(message) \in Nat
      /\ cursor \in Nat /\ cursor < Len(message) /\ offset \in Nat
      /\ MaxWire \in Nat /\ MaxText \in Nat
      /\ expanded_wire_len \in 0..MaxWire
  BY MessageAssumption, TextAssumption
  DEF IInv, TypeOK, StoreLabel, ReadLabel, Reading
<1>2. This \in Nat /\ This > 0
  <2>1. cursor + 1 \in 1..Len(message)
    BY <1>1
  <2>2. This \in Byte
    BY <1>1, <2>1 DEF This, At
  <2> QED  BY <2>2, MessageAssumption DEF Byte, StoreLabel, ReadLabel
<1>3. cursor' \in 0..Len(message) /\ cursor < cursor'
  BY <1>1, <1>2 DEF StoreLabel, LabelFits
<1>4. expanded_wire_len' \in 0..MaxWire
  BY <1>1, <1>2 DEF StoreLabel, WireTooLong
<1>5. decoded' \in Seq(Byte \cup {Dot}) /\ Len(decoded') <= MaxText
  <2> DEFINE label == SubSeq(message, cursor + 2, cursor + 1 + This)
  <2>1. label \in Seq(Byte \cup {Dot}) /\ Len(label) = This
    <3>1. label \in Seq(Byte) /\ Len(label) = This
      BY <1>1, <1>2, <1>3 DEF StoreLabel, LabelFits
    <3> QED  BY <3>1
  <2>2. Separated \in Seq(Byte \cup {Dot})
    BY DEF IInv, TypeOK, Separated
  <2>3. Len(Separated) + This <= MaxText
    BY <1>1, <1>2, <2>2 DEF StoreLabel, TextTooLong
  <2>4. decoded' = Separated \o label
    BY DEF StoreLabel
  <2> HIDE DEF label
  <2> QED  BY <2>1, <2>2, <2>3, <2>4
<1>6. TypeOK'
  BY <1>3, <1>4, <1>5 DEF IInv, TypeOK, StoreLabel, args, results
<1>7. ResultsFit' /\ EndBehindStart'
  BY <1>1, <1>3 DEF IInv, ResultsFit, EndBehindStart, StoreLabel, args, results
<1> QED  BY <1>6, <1>7 DEF IInv

(* A finished name is handed over with the end found on the way. *)
LEMMA FinishIInv ==
  ASSUME IInv, FinishName
  PROVE  IInv'
<1>1. /\ Len(message) \in Nat /\ cursor \in Nat /\ cursor < Len(message)
      /\ offset \in Nat /\ out_capacity \in Nat
      /\ decoded \in Seq(Byte \cup {Dot}) /\ Len(decoded) \in Nat
  BY MessageAssumption, TextAssumption
  DEF IInv, TypeOK, FinishName, ReadRoot, Reading
<1>2. offset < next_offset' /\ next_offset' \in 0..Len(message)
  BY <1>1 DEF IInv, TypeOK, EndBehindStart, FinishName
<1>3. Len(out') < out_capacity
  BY <1>1 DEF FinishName, NameFits
<1>4. TypeOK'
  BY <1>1, <1>2 DEF IInv, TypeOK, FinishName, args, progress
<1>5. ResultsFit' /\ EndBehindStart'
  BY <1>1, <1>2, <1>3 DEF IInv, EndBehindStart, ResultsFit, FinishName, args, progress
<1> QED  BY <1>4, <1>5 DEF IInv

(* Every step keeps the inductive invariant. *)
LEMMA NextIInv == IInv /\ [Next]_vars => IInv'
<1> SUFFICES ASSUME IInv, [Next]_vars PROVE IInv'
  OBVIOUS
<1>1. CASE PastEnd
  BY <1>1, ReturnIInv DEF PastEnd
<1>2. CASE PointerCut
  BY <1>2, ReturnIInv DEF PointerCut, ReadPointer, Reading
<1>3. CASE PointerRefused
  BY <1>3, ReturnIInv DEF PointerRefused, ReadPointer, Reading
<1>4. CASE FollowPointer
  BY <1>4, PointerIInv
<1>5. CASE ReadReserved
  BY <1>5, ReturnIInv DEF ReadReserved, Reading
<1>6. CASE RootTooLong
  BY <1>6, ReturnIInv DEF RootTooLong, ReadRoot, Reading
<1>7. CASE OutTooSmall
  BY <1>7, ReturnIInv DEF OutTooSmall, ReadRoot, Reading
<1>8. CASE FinishName
  BY <1>8, FinishIInv
<1>9. CASE LabelCut
  BY <1>9, ReturnIInv DEF LabelCut, ReadLabel, Reading
<1>10. CASE LabelRefused
  BY <1>10, ReturnIInv DEF LabelRefused, ReadLabel, Reading
<1>11. CASE StoreLabel
  BY <1>11, LabelIInv
<1>12. CASE UNCHANGED vars
  BY <1>12 DEF IInv, TypeOK, ResultsFit, EndBehindStart, vars, args, progress, results
<1> QED
  BY <1>1, <1>2, <1>3, <1>4, <1>5, <1>6, <1>7, <1>8, <1>9, <1>10, <1>11, <1>12 DEF Next

(* The cursor and the decoded text stay inside the message and the local     *)
(* buffer, and the hop and length limits hold.                               *)
THEOREM DecoderTypeCorrect == Spec => []TypeOK
<1>1. IInv => TypeOK
  BY DEF IInv
<1> QED  BY <1>1, InitIInv, NextIInv, PTL DEF Spec

(* A name is returned only with OK; it fits the caller's buffer, and its end *)
(* lies behind its start and inside the message.                             *)
THEOREM ReturnedNamesFit == Spec => []ResultsFit
<1>1. IInv => ResultsFit
  BY DEF IInv
<1> QED  BY <1>1, InitIInv, NextIInv, PTL DEF Spec

(* What ends a walk at a byte that is no root.                             *)
Broken(m, c) ==
  \/ c >= Len(m)
  \/ Pointer(At(m, c)) /\ (Len(m) - c < 2 \/ Target(m, c) >= Len(m))
  \/ Reserved(At(m, c))
  \/ At(m, c) > 0 /\ At(m, c) < Quarter /\ At(m, c) > Len(m) - (c + 1)

(* A byte of the message is a number.                                      *)
LEMMA ByteAt ==
  ASSUME NEW m \in Seq(Byte), NEW c \in Nat, c < Len(m)
  PROVE  At(m, c) \in Nat /\ Quarter \in Nat /\ Quarter > 0
<1>1. At(m, c) \in Byte
  BY DEF At
<1>. QED
  BY <1>1, MessageAssumption DEF Byte

(* There a reading neither goes on nor ends.                               *)
LEMMA BrokenIsStuck ==
  ASSUME NEW m \in Seq(Byte), NEW c \in Nat, Broken(m, c)
  PROVE  ~Moves(m, c) /\ ~IsRoot(m, c)
<1>1. CASE c >= Len(m)
  BY <1>1 DEF Moves, IsPointer, IsLabel, IsRoot
<1>2. CASE c < Len(m) /\ Pointer(At(m, c)) /\ Len(m) - c < 2
  BY <1>2, ByteAt DEF Moves, IsPointer, IsLabel, IsRoot, Pointer
<1>3. CASE c < Len(m) /\ Pointer(At(m, c)) /\ Len(m) - c >= 2 /\ Target(m, c) >= Len(m)
  <2>1. Target(m, c) \in Nat
    BY <1>3, TargetInNat
  <2>. QED
    BY <1>3, <2>1, ByteAt DEF Moves, IsPointer, IsLabel, IsRoot, Pointer
<1>4. CASE c < Len(m) /\ Reserved(At(m, c))
  BY <1>4, ByteAt DEF Moves, IsPointer, IsLabel, IsRoot, Pointer, Reserved
<1>5. CASE c < Len(m) /\ At(m, c) > 0 /\ At(m, c) < Quarter /\ At(m, c) > Len(m) - (c + 1)
  BY <1>5, ByteAt DEF Moves, IsPointer, IsLabel, IsRoot, Pointer
<1>. QED
  BY <1>1, <1>2, <1>3, <1>4, <1>5 DEF Broken

-----------------------------------------------------------------------------
(* The decoder.                                                            *)

DecoderAt(k) ==
  /\ Place(message, offset, k, cursor, expanded_wire_len, pointer_hops)
  /\ Seen(message, offset, k, visited)
  /\ EndKept(message, offset, k, jumped, decoded_next)
  /\ decoded = Spelling(message, offset)[k].text

DecoderReads == Running => \E k \in Nat : DecoderAt(k)

DecoderInv == IInv /\ DecoderReads /\ DecodesTheName

(* The types the steps of the decoder need.                                *)
LEMMA DecoderTypes ==
  ASSUME TypeOK
  PROVE  /\ message \in Seq(Byte) /\ offset \in 0..Len(message)
         /\ cursor \in Nat /\ cursor <= Len(message)
         /\ expanded_wire_len \in Int /\ pointer_hops \in Int /\ pointer_hops <= MaxHops
         /\ jumped \in BOOLEAN /\ MaxWire \in Nat /\ MaxHops \in Nat
BY MessageAssumption DEF TypeOK

(* A refused name is no legal one.                                         *)
LEMMA RefusalIsRight ==
  ASSUME ~Legal(message, offset), NEW result \in {"TRUNCATED", "MALFORMED"}, Return(result)
  PROVE  DecodesTheName' /\ DecoderReads'
<1>1. message' = message /\ offset' = offset /\ status' = result
  BY DEF Return, args
<1>. QED
  BY <1>1 DEF DecodesTheName, DecoderReads, Running

(* The decoder refuses such a name rightly.                                *)
LEMMA BrokenIsRefused ==
  ASSUME DecoderInv, Running, Broken(message, cursor)
  PROVE  ~Legal(message, offset)
<1>1. PICK k \in Nat : DecoderAt(k)
  BY DEF DecoderInv, DecoderReads
<1>2. message \in Seq(Byte) /\ offset \in 0..Len(message) /\ cursor \in Nat
  BY DecoderTypes DEF DecoderInv, IInv
<1>3. ~Moves(message, cursor) /\ ~IsRoot(message, cursor)
  BY <1>2, BrokenIsStuck
<1>. QED
  BY <1>1, <1>2, <1>3, RefusedStuck DEF DecoderAt

(* The decoder begins at the beginning of the name.                        *)
LEMMA DecoderInit == Init => DecoderInv
<1>. SUFFICES ASSUME Init PROVE DecoderInv
  OBVIOUS
<1>1. IInv
  BY InitIInv
<1>2. DecodesTheName
  BY DEF DecodesTheName, Running, Init
<1>3. message \in Seq(Byte) /\ offset \in 0..Len(message)
  BY DecoderTypes, <1>1 DEF IInv
<1>4. Spelling(message, offset)[0] = Begin(offset)
  BY <1>3, SpellingSteps
<1>5. 0..(0 - 1) = {}
  OBVIOUS
<1>6. Place(message, offset, 0, cursor, expanded_wire_len, pointer_hops)
  BY <1>4, <1>5 DEF Place, Walked, Begin, Init
<1>7. Seen(message, offset, 0, visited) /\ EndKept(message, offset, 0, jumped, decoded_next)
  BY <1>5 DEF Seen, EndKept, Init
<1>8. decoded = Spelling(message, offset)[0].text
  BY <1>4 DEF Begin, Init
<1>9. DecoderAt(0)
  BY <1>6, <1>7, <1>8 DEF DecoderAt
<1>10. DecoderReads
  BY <1>9 DEF DecoderReads
<1>. QED
  BY <1>1, <1>2, <1>10 DEF DecoderInv

(* A pointer it follows is a step of the reading.                          *)
LEMMA DecoderPointer ==
  ASSUME DecoderInv, FollowPointer
  PROVE  DecodesTheName' /\ DecoderReads'
<1>1. PICK k \in Nat : DecoderAt(k)
  BY DEF DecoderInv, DecoderReads, FollowPointer, ReadPointer, Reading
<1>2. /\ message \in Seq(Byte) /\ offset \in 0..Len(message) /\ cursor \in Nat /\ jumped \in BOOLEAN
  BY DecoderTypes DEF DecoderInv, IInv
<1>3. IsPointer(message, cursor)
  <2>1. cursor < Len(message) /\ Pointer(At(message, cursor)) /\ Len(message) - cursor >= 2
        /\ ~(Target(message, cursor) >= Len(message))
    BY DEF FollowPointer, ReadPointer, Reading, This, Refused
  <2>2. cursor + 1 < Len(message)
    BY <1>2, <2>1
  <2>3. Target(message, cursor) \in Nat
    BY <1>2, <2>1, <2>2, TargetInNat
  <2>. QED
    BY <2>1, <2>2, <2>3 DEF IsPointer
<1>4. /\ Place(message, offset, k + 1, Target(message, cursor), expanded_wire_len, pointer_hops + 1)
      /\ Spelling(message, offset)[k + 1].text = decoded
  BY <1>1, <1>2, <1>3, PointerStep DEF DecoderAt
<1>5. cursor = Spelling(message, offset)[k].at
      /\ Target(message, cursor) = Spelling(message, offset)[k + 1].at
  BY <1>1, <1>4 DEF DecoderAt, Place
<1>6. Seen(message, offset, k + 1, visited \cup {Target(message, cursor)})
  BY <1>1, <1>5, StillSeen DEF DecoderAt
<1>7. EndKept(message, offset, k + 1, TRUE, EndAfterPointer)
  BY <1>1, <1>2, <1>3, <1>5, PointerKeepsEnd DEF DecoderAt, EndAfterPointer
<1>8. /\ message' = message /\ offset' = offset /\ status' = status
      /\ cursor' = Target(message, cursor) /\ expanded_wire_len' = expanded_wire_len
      /\ pointer_hops' = pointer_hops + 1 /\ visited' = visited \cup {Target(message, cursor)}
      /\ jumped' = TRUE /\ decoded_next' = EndAfterPointer /\ decoded' = decoded
  BY DEF FollowPointer, args, results
<1>9. DecoderAt(k + 1)'
  BY <1>4, <1>6, <1>7, <1>8 DEF DecoderAt
<1>10. k + 1 \in Nat
  OBVIOUS
<1>11. DecoderReads'
  BY <1>9, <1>10 DEF DecoderReads
<1>12. DecodesTheName'
  BY <1>8 DEF DecodesTheName, Running, FollowPointer, ReadPointer, Reading
<1>. QED
  BY <1>11, <1>12

(* So is a label it stores.                                                *)
LEMMA DecoderLabel ==
  ASSUME DecoderInv, StoreLabel
  PROVE  DecodesTheName' /\ DecoderReads'
<1>1. PICK k \in Nat : DecoderAt(k)
  BY DEF DecoderInv, DecoderReads, StoreLabel, ReadLabel, Reading
<1>2. /\ message \in Seq(Byte) /\ offset \in 0..Len(message) /\ cursor \in Nat /\ jumped \in BOOLEAN
      /\ expanded_wire_len \in Int
  BY DecoderTypes DEF DecoderInv, IInv
<1>3. IsLabel(message, cursor)
  <2>1. cursor < Len(message) /\ This > 0 /\ This < Quarter /\ This <= Len(message) - (cursor + 1)
        /\ This = At(message, cursor)
    BY DEF StoreLabel, ReadLabel, Reading, LabelFits, This
  <2>2. At(message, cursor) \in Nat /\ Len(message) \in Nat
    BY <1>2, <2>1, ByteAt
  <2>. QED
    BY <1>2, <2>1, <2>2 DEF IsLabel
<1>4. /\ Place(message, offset, k + 1, cursor + 1 + This, expanded_wire_len + This + 1, pointer_hops)
      /\ Spelling(message, offset)[k + 1].text =
           Separated \o SubSeq(message, cursor + 2, cursor + 1 + This)
  BY <1>1, <1>2, <1>3, LabelStep DEF DecoderAt, This, Separated, WithDot
<1>5. cursor = Spelling(message, offset)[k].at
  BY <1>1 DEF DecoderAt, Place
<1>6. Seen(message, offset, k + 1, visited)
  BY <1>1, StillSeen DEF DecoderAt
<1>7. EndKept(message, offset, k + 1, jumped, decoded_next)
  BY <1>1, <1>2, <1>3, <1>5, LabelKeepsEnd DEF DecoderAt
<1>8. /\ message' = message /\ offset' = offset /\ status' = status
      /\ cursor' = cursor + 1 + This /\ expanded_wire_len' = expanded_wire_len + This + 1
      /\ pointer_hops' = pointer_hops /\ visited' = visited
      /\ jumped' = jumped /\ decoded_next' = decoded_next
      /\ decoded' = Separated \o SubSeq(message, cursor + 2, cursor + 1 + This)
  BY DEF StoreLabel, args, results
<1>9. DecoderAt(k + 1)'
  BY <1>4, <1>6, <1>7, <1>8 DEF DecoderAt
<1>10. k + 1 \in Nat
  OBVIOUS
<1>11. DecoderReads'
  BY <1>9, <1>10 DEF DecoderReads
<1>12. DecodesTheName'
  BY <1>8 DEF DecodesTheName, Running, StoreLabel, ReadLabel, Reading
<1>. QED
  BY <1>11, <1>12

(* A refused pointer goes round, or is one hop too many.                   *)
LEMMA RefusedPointerIsRight ==
  ASSUME DecoderInv, PointerRefused
  PROVE  ~Legal(message, offset)
<1>1. PICK k \in Nat : DecoderAt(k)
  BY DEF DecoderInv, DecoderReads, PointerRefused, ReadPointer, Reading
<1>2. /\ message \in Seq(Byte) /\ offset \in 0..Len(message) /\ cursor \in Nat
      /\ pointer_hops \in Int
  BY DecoderTypes DEF DecoderInv, IInv
<1>3. /\ Running /\ cursor < Len(message) /\ Pointer(At(message, cursor))
      /\ Len(message) - cursor >= 2 /\ Refused(Target(message, cursor))
  BY DEF PointerRefused, ReadPointer, Reading, This
<1>4. CASE Target(message, cursor) >= Len(message)
  BY <1>3, <1>4, BrokenIsRefused DEF Broken
<1>5. CASE ~(Target(message, cursor) >= Len(message))
  <2>1. cursor + 1 < Len(message)
    BY <1>2, <1>3
  <2>2. Target(message, cursor) \in Nat
    BY <1>2, <1>3, <2>1, TargetInNat
  <2>3. IsPointer(message, cursor)
    BY <1>3, <1>5, <2>1, <2>2 DEF IsPointer
  <2>. QED
    BY <1>1, <1>2, <1>3, <1>5, <2>3, RefusedPointer DEF DecoderAt, Refused
<1>. QED
  BY <1>4, <1>5

(* Room for the text is room on the wire: the text limit refuses nothing   *)
(* that the wire limit would let pass.                                     *)
LEMMA RefusedLabelIsRight ==
  ASSUME DecoderInv, LabelRefused
  PROVE  ~Legal(message, offset)
<1>1. PICK k \in Nat : DecoderAt(k)
  BY DEF DecoderInv, DecoderReads, LabelRefused, ReadLabel, Reading
<1>2. /\ message \in Seq(Byte) /\ offset \in 0..Len(message) /\ cursor \in Nat
      /\ expanded_wire_len \in Int /\ MaxWire \in Nat
  BY DecoderTypes DEF DecoderInv, IInv
<1>3. /\ cursor < Len(message) /\ This > 0 /\ This < Quarter
      /\ This <= Len(message) - (cursor + 1) /\ This = At(message, cursor)
      /\ WireTooLong \/ TextTooLong
  BY DEF LabelRefused, ReadLabel, Reading, LabelFits, This
<1>4. This \in Nat /\ Len(message) \in Nat /\ Quarter \in Nat
  BY <1>2, <1>3, ByteAt
<1>5. IsLabel(message, cursor)
  BY <1>2, <1>3, <1>4 DEF IsLabel
<1>6. expanded_wire_len + This + 2 > MaxWire
  <2>. DEFINE w == expanded_wire_len
              b == This
              l == Len(decoded)
  <2>1. /\ decoded = <<>> => w = 0
        /\ decoded # <<>> => l + 1 = w
    <3>. DEFINE x == Spelling(message, offset)[k]
    <3>1. /\ decoded = x.text /\ expanded_wire_len + 1 = x.wire
      BY <1>1 DEF DecoderAt, Place
    <3>2. /\ x.text = <<>> => x.wire = 1
          /\ x.text # <<>> => Len(x.text) + 2 = x.wire
      BY <1>2, TextLength
    <3>3. decoded \in Seq(Byte \cup {Dot})
      BY DEF DecoderInv, IInv, TypeOK
    <3>4. l \in Nat
      BY <3>3
    <3>. HIDE DEF x
    <3>5. CASE decoded = <<>>
      BY <1>2, <3>1, <3>2, <3>5
    <3>6. CASE decoded # <<>>
      <4>1. l + 2 = w + 1
        BY <3>1, <3>2, <3>6
      <4>. HIDE DEF l
      <4>2. l + 1 = w
        BY <1>2, <3>4, <4>1
      <4>. QED
        BY <3>6, <4>2
    <3>. QED
      BY <3>5, <3>6
  <2>2. l \in Nat /\ MaxText = MaxWire - 2
    <3>1. decoded \in Seq(Byte \cup {Dot})
      BY DEF DecoderInv, IInv, TypeOK
    <3>. QED
      BY <3>1, TextAssumption
  <2>3. b \in Nat /\ b > 0
    BY <1>3, <1>4
  <2>4. \/ w > MaxWire - (b + 1)
        \/ decoded # <<>> /\ l >= MaxText
        \/ decoded = <<>> /\ b > MaxText - 0
        \/ decoded # <<>> /\ b > MaxText - (l + 1)
    <3>1. decoded = <<>> => Separated = <<>> /\ Len(Separated) = 0
      BY DEF Separated
    <3>2. decoded # <<>> => Len(Separated) = l + 1
      <4>1. decoded \in Seq(Byte \cup {Dot})
        BY DEF DecoderInv, IInv, TypeOK
      <4>2. Len(Append(decoded, Dot)) = Len(decoded) + 1
        BY <4>1
      <4>. QED
        BY <4>2 DEF Separated
    <3>. QED
      BY <1>3, <3>1, <3>2 DEF WireTooLong, TextTooLong
  <2>. HIDE DEF w, b, l
  <2>5. w \in Int
    BY <1>2 DEF w
  <2>6. w + b + 2 > MaxWire
    BY <1>2, <2>1, <2>2, <2>3, <2>4, <2>5
  <2>. QED
    BY <2>6 DEF w, b
<1>. QED
  BY <1>1, <1>2, <1>3, <1>5, <1>6, RefusedLabel DEF DecoderAt

(* A root completes the name that was read.                                *)
LEMMA DecoderRoot ==
  ASSUME DecoderInv, ReadRoot
  PROVE  /\ Legal(message, offset) <=> expanded_wire_len + 1 <= MaxWire
         /\ decoded = Name(message, offset).text
         /\ EndInPlace(message, offset) = IF jumped THEN decoded_next ELSE cursor + 1
<1>1. PICK k \in Nat : DecoderAt(k)
  BY DEF DecoderInv, DecoderReads, ReadRoot, Reading
<1>2. /\ message \in Seq(Byte) /\ offset \in 0..Len(message) /\ jumped \in BOOLEAN
      /\ expanded_wire_len \in Int /\ pointer_hops \in Int /\ pointer_hops <= MaxHops
  BY DecoderTypes DEF DecoderInv, IInv
<1>3. IsRoot(message, cursor)
  BY DEF IsRoot, ReadRoot, Reading, This
<1>4. /\ Name(message, offset) = Spelling(message, offset)[k]
      /\ pointer_hops <= MaxHops => (Legal(message, offset) <=> expanded_wire_len + 1 <= MaxWire)
      /\ EndInPlace(message, offset) = IF jumped THEN decoded_next ELSE cursor + 1
  BY <1>1, <1>2, <1>3, AtRoot DEF DecoderAt
<1>. QED
  BY <1>1, <1>2, <1>4 DEF DecoderAt

(* Every step of the decoder keeps its invariant.                          *)
LEMMA DecoderNext == DecoderInv /\ [Next]_vars => DecoderInv'
<1>. SUFFICES ASSUME DecoderInv, [Next]_vars PROVE DecodesTheName' /\ DecoderReads'
  BY NextIInv DEF DecoderInv
<1>0. expanded_wire_len \in Int /\ MaxWire \in Nat
  BY DecoderTypes DEF DecoderInv, IInv
<1>1. CASE PastEnd
  BY <1>1, BrokenIsRefused, RefusalIsRight DEF PastEnd, Broken
<1>2. CASE PointerCut
  BY <1>2, BrokenIsRefused, RefusalIsRight DEF PointerCut, ReadPointer, Reading, This, Broken
<1>3. CASE PointerRefused
  BY <1>3, RefusedPointerIsRight, RefusalIsRight DEF PointerRefused
<1>4. CASE FollowPointer
  BY <1>4, DecoderPointer
<1>5. CASE ReadReserved
  BY <1>5, BrokenIsRefused, RefusalIsRight DEF ReadReserved, Reading, This, Broken
<1>6. CASE RootTooLong
  <2>1. ~Legal(message, offset)
    BY <1>0, <1>6, DecoderRoot DEF RootTooLong
  <2>. QED
    BY <1>6, <2>1, RefusalIsRight DEF RootTooLong
<1>7. CASE OutTooSmall
  <2>1. Legal(message, offset)
    BY <1>7, DecoderRoot DEF OutTooSmall
  <2>2. message' = message /\ offset' = offset /\ status' = "CAPACITY"
    BY <1>7 DEF OutTooSmall, Return, args
  <2>. QED
    BY <2>1, <2>2 DEF DecodesTheName, DecoderReads, Running
<1>8. CASE FinishName
  <2>1. /\ Legal(message, offset) /\ decoded = Name(message, offset).text
        /\ EndInPlace(message, offset) = IF jumped THEN decoded_next ELSE cursor + 1
    BY <1>8, DecoderRoot DEF FinishName
  <2>2. /\ message' = message /\ offset' = offset /\ status' = "OK" /\ out' = decoded
        /\ next_offset' = IF jumped THEN decoded_next ELSE cursor + 1
    BY <1>8 DEF FinishName, args
  <2>. QED
    BY <2>1, <2>2 DEF DecodesTheName, DecoderReads, Running
<1>9. CASE LabelCut
  BY <1>9, BrokenIsRefused, RefusalIsRight DEF LabelCut, ReadLabel, Reading, This, Broken
<1>10. CASE LabelRefused
  BY <1>10, RefusedLabelIsRight, RefusalIsRight DEF LabelRefused
<1>11. CASE StoreLabel
  BY <1>11, DecoderLabel
<1>12. CASE UNCHANGED vars
  <2>1. DecodesTheName'
    BY <1>12 DEF DecoderInv, DecodesTheName, Running, vars, args, progress, results
  <2>2. DecoderReads'
    BY <1>12 DEF DecoderInv, DecoderReads, DecoderAt, Running, vars, args, progress, results
  <2>. QED
    BY <2>1, <2>2
<1>. QED
  BY <1>1, <1>2, <1>3, <1>4, <1>5, <1>6, <1>7, <1>8, <1>9, <1>10, <1>11, <1>12 DEF Next

-----------------------------------------------------------------------------
(* The walk of lesson 12.                                                  *)

WalkAt(k) ==
  /\ Place(message, offset, k, w_cursor, w_expanded, w_hops)
  /\ Seen(message, offset, k, w_visited)
  /\ EndKept(message, offset, k, w_jumped, w_next)

WalkTypes ==
  /\ w_cursor \in 0..Len(message) /\ w_expanded \in Nat /\ w_hops \in 0..MaxHops
  /\ w_jumped \in BOOLEAN /\ w_parsed \in 0..Len(message)

WalkReads == Walk!Running => \E k \in Nat : WalkAt(k)

WalkDecides ==
  ~Walk!Running => /\ w_status = "OK" <=> Legal(message, offset)
                   /\ w_status = "OK" => w_next = EndInPlace(message, offset)

WalkInv == WalkTypes /\ WalkReads /\ WalkDecides

(* The types the steps of the walk need.                                   *)
LEMMA WalkTyped ==
  ASSUME TypeOK, WalkTypes
  PROVE  /\ message \in Seq(Byte) /\ offset \in 0..Len(message) /\ Len(message) \in Nat
         /\ w_cursor \in Nat /\ w_cursor <= Len(message) /\ w_expanded \in Int
         /\ w_hops \in Int /\ w_hops <= MaxHops /\ w_jumped \in BOOLEAN
         /\ MaxWire \in Nat /\ MaxHops \in Nat
<1>1. message \in Seq(Byte)
  BY MessageAssumption DEF TypeOK
<1>2. Len(message) \in Nat
  BY <1>1
<1>. QED
  BY <1>1, <1>2, MessageAssumption DEF TypeOK, WalkTypes

(* Both programs read the bytes in the same way.                           *)
LEMMA SameBytes ==
  ASSUME NEW m, NEW c, NEW b
  PROVE  /\ Walk!At(m, c) = At(m, c) /\ Walk!Target(m, c) = Target(m, c)
         /\ Walk!Pointer(b) <=> Pointer(b)
         /\ Walk!Reserved(b) <=> Reserved(b)
BY DEF Walk!At, At, Walk!Target, Target, Walk!Pointer, Pointer, Walk!Reserved, Reserved

(* The walk begins at the beginning of the name.                           *)
LEMMA WalkInit == IInv /\ Walk!Init => WalkInv
<1>. SUFFICES ASSUME IInv, Walk!Init PROVE WalkInv
  OBVIOUS
<1>1. message \in Seq(Byte) /\ offset \in 0..Len(message) /\ MaxHops \in Nat
  BY DecoderTypes DEF IInv
<1>2. WalkTypes
  <2>1. Len(message) \in Nat
    BY <1>1
  <2>. QED
    <3>1. 0 \in 0..Len(message) /\ 0 \in 0..MaxHops /\ 0 \in Nat /\ FALSE \in BOOLEAN
      BY <1>1, <2>1
    <3>. QED
      BY <1>1, <3>1 DEF WalkTypes, Walk!Init
<1>3. Spelling(message, offset)[0] = Begin(offset)
  BY <1>1, SpellingSteps
<1>4. 0..(0 - 1) = {}
  OBVIOUS
<1>5. Place(message, offset, 0, w_cursor, w_expanded, w_hops)
  BY <1>3, <1>4 DEF Place, Walked, Begin, Walk!Init
<1>6. Seen(message, offset, 0, w_visited) /\ EndKept(message, offset, 0, w_jumped, w_next)
  BY <1>4 DEF Seen, EndKept, Walk!Init
<1>7. WalkReads
  BY <1>5, <1>6 DEF WalkReads, WalkAt
<1>8. WalkDecides
  BY DEF WalkDecides, Walk!Running, Walk!Init
<1>. QED
  BY <1>2, <1>7, <1>8 DEF WalkInv

(* A refusal of a name that is not legal, which reports what it has read.  *)
LEMMA StopIsRight ==
  ASSUME WalkInv, ~Legal(message, offset), NEW result \in {"TRUNCATED", "MALFORMED"},
         NEW parsed \in 0..Len(message), Walk!Stop(result, parsed)
  PROVE  WalkInv'
<1>1. /\ message' = message /\ offset' = offset /\ w_status' = result /\ w_parsed' = parsed
      /\ w_cursor' = w_cursor /\ w_expanded' = w_expanded /\ w_hops' = w_hops /\ w_jumped' = w_jumped
  BY DEF Walk!Stop, Walk!args, Walk!progress
<1>2. WalkTypes'
  BY <1>1 DEF WalkInv, WalkTypes
<1>3. WalkReads' /\ WalkDecides'
  BY <1>1 DEF WalkReads, WalkDecides, Walk!Running
<1>. QED
  BY <1>2, <1>3 DEF WalkInv

(* The walk refuses a broken name rightly.                                 *)
LEMMA BrokenStops ==
  ASSUME TypeOK, WalkInv, Walk!Running, Broken(message, w_cursor)
  PROVE  ~Legal(message, offset)
<1>1. PICK k \in Nat : WalkAt(k)
  BY DEF WalkInv, WalkReads
<1>2. message \in Seq(Byte) /\ offset \in 0..Len(message) /\ w_cursor \in Nat
  BY WalkTyped DEF WalkInv
<1>3. ~Moves(message, w_cursor) /\ ~IsRoot(message, w_cursor)
  BY <1>2, BrokenIsStuck
<1>. QED
  BY <1>1, <1>2, <1>3, RefusedStuck DEF WalkAt

(* A pointer it follows is a step of the reading.                          *)
LEMMA WalkPointer ==
  ASSUME TypeOK, WalkInv, Walk!FollowPointer
  PROVE  WalkInv'
<1>1. PICK k \in Nat : WalkAt(k)
  BY DEF WalkInv, WalkReads, Walk!FollowPointer, Walk!ReadPointer, Walk!Reading
<1>2. /\ message \in Seq(Byte) /\ offset \in 0..Len(message) /\ Len(message) \in Nat
      /\ w_cursor \in Nat /\ w_jumped \in BOOLEAN /\ w_hops \in Int /\ MaxHops \in Nat
  BY WalkTyped DEF WalkInv
<1>3. /\ w_cursor < Len(message) /\ Pointer(At(message, w_cursor)) /\ Len(message) - w_cursor >= 2
      /\ ~(Target(message, w_cursor) >= Len(message)) /\ ~(w_hops + 1 > MaxHops)
  BY SameBytes DEF Walk!FollowPointer, Walk!ReadPointer, Walk!Reading, Walk!This, Walk!Refused
<1>4. w_cursor + 1 < Len(message)
  BY <1>2, <1>3
<1>5. Target(message, w_cursor) \in Nat
  BY <1>2, <1>3, <1>4, TargetInNat
<1>6. IsPointer(message, w_cursor)
  BY <1>3, <1>4, <1>5, <1>2 DEF IsPointer
<1>7. Place(message, offset, k + 1, Target(message, w_cursor), w_expanded, w_hops + 1)
  BY <1>1, <1>2, <1>6, PointerStep DEF WalkAt
<1>8. w_cursor = Spelling(message, offset)[k].at
      /\ Target(message, w_cursor) = Spelling(message, offset)[k + 1].at
  BY <1>1, <1>7 DEF WalkAt, Place
<1>9. Seen(message, offset, k + 1, w_visited \cup {Target(message, w_cursor)})
  BY <1>1, <1>8, StillSeen DEF WalkAt
<1>10. EndKept(message, offset, k + 1, TRUE, Walk!EndAfterPointer)
  BY <1>1, <1>2, <1>6, <1>8, PointerKeepsEnd DEF WalkAt, Walk!EndAfterPointer
<1>11. /\ message' = message /\ offset' = offset /\ w_status' = w_status /\ w_parsed' = w_parsed
       /\ w_cursor' = Target(message, w_cursor) /\ w_expanded' = w_expanded
       /\ w_hops' = w_hops + 1 /\ w_visited' = w_visited \cup {Target(message, w_cursor)}
       /\ w_jumped' = TRUE /\ w_next' = Walk!EndAfterPointer
  BY SameBytes DEF Walk!FollowPointer, Walk!args
<1>12. WalkAt(k + 1)' /\ k + 1 \in Nat
  <2>1. Place(message, offset, k + 1, w_cursor, w_expanded, w_hops)'
    BY <1>7, <1>11
  <2>2. Seen(message, offset, k + 1, w_visited)'
    BY <1>9, <1>11
  <2>3. EndKept(message, offset, k + 1, w_jumped, w_next)'
    BY <1>10, <1>11
  <2>. QED
    BY <2>1, <2>2, <2>3 DEF WalkAt
<1>13. WalkReads'
  BY <1>12 DEF WalkReads
<1>14. WalkDecides'
  BY <1>11 DEF WalkDecides, Walk!Running, Walk!FollowPointer, Walk!ReadPointer, Walk!Reading
<1>15. WalkTypes'
  <2>. DEFINE target == Target(message, w_cursor)
  <2>1. target \in 0..Len(message) /\ w_hops + 1 \in 0..MaxHops
    BY <1>2, <1>3, <1>5 DEF WalkInv, WalkTypes
  <2>2. w_cursor' = target
    BY <1>11
  <2>. HIDE DEF target
  <2>. QED
    BY <1>11, <2>1, <2>2 DEF WalkInv, WalkTypes
<1>. QED
  BY <1>13, <1>14, <1>15 DEF WalkInv

(* So is a label it passes.                                                *)
LEMMA WalkLabel ==
  ASSUME TypeOK, WalkInv, Walk!PassLabel
  PROVE  WalkInv'
<1>1. PICK k \in Nat : WalkAt(k)
  BY DEF WalkInv, WalkReads, Walk!PassLabel, Walk!ReadLabel, Walk!Reading
<1>2. /\ message \in Seq(Byte) /\ offset \in 0..Len(message) /\ Len(message) \in Nat
      /\ w_cursor \in Nat /\ w_jumped \in BOOLEAN /\ w_expanded \in Int
  BY WalkTyped DEF WalkInv
<1>3. /\ w_cursor < Len(message) /\ Walk!This > 0 /\ Walk!This < Quarter
      /\ Walk!This <= Len(message) - (w_cursor + 1) /\ Walk!This = At(message, w_cursor)
  BY SameBytes DEF Walk!PassLabel, Walk!ReadLabel, Walk!Reading, Walk!This
<1>4. Walk!This \in Nat
  BY <1>2, <1>3, ByteAt
<1>5. IsLabel(message, w_cursor)
  BY <1>2, <1>3, <1>4 DEF IsLabel
<1>6. Place(message, offset, k + 1, w_cursor + 1 + Walk!This, w_expanded + Walk!This + 1, w_hops)
  BY <1>1, <1>2, <1>3, <1>5, LabelStep DEF WalkAt
<1>7. w_cursor = Spelling(message, offset)[k].at
  BY <1>1 DEF WalkAt, Place
<1>8. Seen(message, offset, k + 1, w_visited)
  BY <1>1, StillSeen DEF WalkAt
<1>9. EndKept(message, offset, k + 1, w_jumped, w_next)
  BY <1>1, <1>2, <1>5, <1>7, LabelKeepsEnd DEF WalkAt
<1>10. /\ message' = message /\ offset' = offset /\ w_status' = w_status /\ w_parsed' = w_parsed
       /\ w_cursor' = w_cursor + 1 + Walk!This /\ w_expanded' = w_expanded + Walk!This + 1
       /\ w_hops' = w_hops /\ w_visited' = w_visited /\ w_jumped' = w_jumped /\ w_next' = w_next
  BY DEF Walk!PassLabel, Walk!args
<1>11. WalkAt(k + 1)' /\ k + 1 \in Nat
  BY <1>6, <1>8, <1>9, <1>10 DEF WalkAt
<1>12. WalkReads'
  BY <1>11 DEF WalkReads
<1>13. WalkDecides'
  BY <1>10 DEF WalkDecides, Walk!Running, Walk!PassLabel, Walk!ReadLabel, Walk!Reading
<1>14. WalkTypes'
  <2>1. w_cursor + 1 + Walk!This \in 0..Len(message) /\ w_expanded + Walk!This + 1 \in Nat
    BY <1>2, <1>3, <1>4 DEF WalkInv, WalkTypes
  <2>. QED
    BY <1>10, <2>1 DEF WalkInv, WalkTypes
<1>. QED
  BY <1>12, <1>13, <1>14 DEF WalkInv

(* A root completes the name that was walked.                              *)
LEMMA WalkRoot ==
  ASSUME TypeOK, WalkInv, Walk!ReadRoot
  PROVE  /\ Legal(message, offset) <=> w_expanded + 1 <= MaxWire
         /\ EndInPlace(message, offset) = IF w_jumped THEN w_next ELSE w_cursor + 1
<1>1. PICK k \in Nat : WalkAt(k)
  BY DEF WalkInv, WalkReads, Walk!ReadRoot, Walk!Reading
<1>2. /\ message \in Seq(Byte) /\ offset \in 0..Len(message) /\ w_jumped \in BOOLEAN
      /\ w_expanded \in Int /\ w_hops \in Int /\ w_hops <= MaxHops
  BY WalkTyped DEF WalkInv
<1>3. IsRoot(message, w_cursor)
  BY SameBytes DEF IsRoot, Walk!ReadRoot, Walk!Reading, Walk!This
<1>. QED
  BY <1>1, <1>2, <1>3, AtRoot DEF WalkAt

(* A refused pointer goes round, or is one hop too many.                   *)
LEMMA WalkPointerRefused ==
  ASSUME TypeOK, WalkInv, Walk!PointerRefused
  PROVE  WalkInv'
<1>1. PICK k \in Nat : WalkAt(k)
  BY DEF WalkInv, WalkReads, Walk!PointerRefused, Walk!ReadPointer, Walk!Reading
<1>2. /\ message \in Seq(Byte) /\ offset \in 0..Len(message) /\ Len(message) \in Nat
      /\ w_cursor \in Nat /\ w_hops \in Int
  BY WalkTyped DEF WalkInv
<1>3. /\ Walk!Running /\ w_cursor < Len(message) /\ Pointer(At(message, w_cursor))
      /\ Len(message) - w_cursor >= 2 /\ Walk!Refused(Target(message, w_cursor))
  BY SameBytes DEF Walk!PointerRefused, Walk!ReadPointer, Walk!Reading, Walk!This
<1>4. ~Legal(message, offset)
  <2>1. CASE Target(message, w_cursor) >= Len(message)
    BY <1>3, <2>1, BrokenStops DEF Broken
  <2>2. CASE ~(Target(message, w_cursor) >= Len(message))
    <3>1. w_cursor + 1 < Len(message)
      BY <1>2, <1>3
    <3>2. Target(message, w_cursor) \in Nat
      BY <1>2, <1>3, <3>1, TargetInNat
    <3>3. IsPointer(message, w_cursor)
      BY <1>2, <1>3, <2>2, <3>1, <3>2 DEF IsPointer
    <3>. QED
      BY <1>1, <1>2, <1>3, <2>2, <3>3, RefusedPointer DEF WalkAt, Walk!Refused
  <2>. QED
    BY <2>1, <2>2
<1>5. /\ message' = message /\ offset' = offset /\ w_status' = "MALFORMED" /\ w_parsed' = w_cursor + 2
      /\ w_cursor' = w_cursor /\ w_expanded' = w_expanded /\ w_hops' = w_hops /\ w_jumped' = TRUE
  BY DEF Walk!PointerRefused, Walk!args
<1>6. WalkTypes'
  <2>1. w_cursor + 2 \in 0..Len(message)
    BY <1>2, <1>3
  <2>. QED
    BY <1>5, <2>1 DEF WalkInv, WalkTypes
<1>7. WalkReads' /\ WalkDecides'
  BY <1>4, <1>5 DEF WalkReads, WalkDecides, Walk!Running
<1>. QED
  BY <1>6, <1>7 DEF WalkInv

(* A refused label has no room.                                            *)
LEMMA WalkLabelRefused ==
  ASSUME TypeOK, WalkInv, Walk!LabelRefused
  PROVE  ~Legal(message, offset)
<1>1. PICK k \in Nat : WalkAt(k)
  BY DEF WalkInv, WalkReads, Walk!LabelRefused, Walk!ReadLabel, Walk!Reading
<1>2. /\ message \in Seq(Byte) /\ offset \in 0..Len(message) /\ Len(message) \in Nat
      /\ w_cursor \in Nat /\ w_expanded \in Int /\ MaxWire \in Nat
  BY WalkTyped DEF WalkInv
<1>3. /\ w_cursor < Len(message) /\ Walk!This > 0 /\ Walk!This < Quarter
      /\ Walk!This <= Len(message) - (w_cursor + 1) /\ Walk!This = At(message, w_cursor)
      /\ w_expanded > MaxWire - (Walk!This + 1)
  BY SameBytes DEF Walk!LabelRefused, Walk!ReadLabel, Walk!Reading, Walk!This, Walk!WireTooLong
<1>4. Walk!This \in Nat
  BY <1>2, <1>3, ByteAt
<1>5. IsLabel(message, w_cursor) /\ w_expanded + Walk!This + 2 > MaxWire
  BY <1>2, <1>3, <1>4 DEF IsLabel
<1>. QED
  BY <1>1, <1>2, <1>3, <1>5, RefusedLabel DEF WalkAt

(* Every step of the walk keeps its invariant.                             *)
LEMMA WalkNext == TypeOK /\ WalkInv /\ Walk!Next => WalkInv'
<1>. SUFFICES ASSUME TypeOK, WalkInv, Walk!Next PROVE WalkInv'
  OBVIOUS
<1>0. /\ Len(message) \in Nat /\ w_cursor \in Nat /\ w_expanded \in Int /\ MaxWire \in Nat
      /\ w_cursor <= Len(message)
  BY WalkTyped DEF WalkInv
<1>. DEFINE Ends(parsed) == \E result \in {"TRUNCATED", "MALFORMED"} :
              ~Legal(message, offset) /\ parsed \in 0..Len(message) /\ Walk!Stop(result, parsed)
<1>1. ASSUME NEW parsed, Ends(parsed) PROVE WalkInv'
  BY <1>1, StopIsRight
<1>2. CASE Walk!PastEnd
  <2>1. Ends(Len(message))
    BY <1>0, <1>2, BrokenStops DEF Walk!PastEnd, Broken
  <2>. QED
    BY <1>1, <2>1
<1>3. CASE Walk!PointerCut
  <2>1. Ends(Len(message))
    BY <1>0, <1>3, BrokenStops, SameBytes DEF Walk!PointerCut, Walk!ReadPointer, Walk!Reading, Walk!This, Broken
  <2>. QED
    BY <1>1, <2>1
<1>4. CASE Walk!PointerRefused
  BY <1>4, WalkPointerRefused
<1>5. CASE Walk!FollowPointer
  BY <1>5, WalkPointer
<1>6. CASE Walk!ReadReserved
  <2>1. Ends(w_cursor + 1)
    BY <1>0, <1>6, BrokenStops, SameBytes DEF Walk!ReadReserved, Walk!Reading, Walk!This, Broken
  <2>. QED
    BY <1>1, <2>1
<1>7. CASE Walk!RootTooLong
  <2>1. ~Legal(message, offset)
    BY <1>7, WalkRoot DEF Walk!RootTooLong, Walk!RootFits
  <2>2. Ends(w_cursor + 1)
    BY <1>0, <1>7, <2>1 DEF Walk!RootTooLong, Walk!ReadRoot, Walk!Reading
  <2>. QED
    BY <1>1, <2>2
<1>8. CASE Walk!FinishWalk
  <2>1. /\ Legal(message, offset)
        /\ EndInPlace(message, offset) = IF w_jumped THEN w_next ELSE w_cursor + 1
    BY <1>8, WalkRoot DEF Walk!FinishWalk, Walk!RootFits
  <2>2. /\ message' = message /\ offset' = offset /\ w_status' = "OK"
        /\ w_next' = IF w_jumped THEN w_next ELSE w_cursor + 1
        /\ w_cursor' = w_cursor /\ w_expanded' = w_expanded /\ w_hops' = w_hops
        /\ w_jumped' = w_jumped /\ w_parsed' = w_parsed
    BY <1>8 DEF Walk!FinishWalk, Walk!args
  <2>3. WalkReads' /\ WalkDecides'
    BY <2>1, <2>2 DEF WalkReads, WalkDecides, Walk!Running
  <2>4. WalkTypes'
    BY <2>2 DEF WalkInv, WalkTypes
  <2>. QED
    BY <2>3, <2>4 DEF WalkInv
<1>9. CASE Walk!LabelCut
  <2>1. Ends(w_cursor + 1)
    BY <1>0, <1>9, BrokenStops, SameBytes DEF Walk!LabelCut, Walk!ReadLabel, Walk!Reading, Walk!This, Broken
  <2>. QED
    BY <1>1, <2>1
<1>10. CASE Walk!LabelRefused
  <2>1. Ends(w_cursor + 1)
    BY <1>0, <1>10, WalkLabelRefused DEF Walk!LabelRefused, Walk!ReadLabel, Walk!Reading
  <2>. QED
    BY <1>1, <2>1
<1>11. CASE Walk!PassLabel
  BY <1>11, WalkLabel
<1>. QED
  BY <1>2, <1>3, <1>4, <1>5, <1>6, <1>7, <1>8, <1>9, <1>10, <1>11 DEF Walk!Next

-----------------------------------------------------------------------------
(* Both programs on the same name: the walk begins when the decoder has    *)
(* returned.                                                               *)
BothInv == DecoderInv /\ WalkInv /\ (Running => Walk!Running)

(* Both begin at the same name.                                            *)
LEMMA BothInitInv == BothInit => BothInv
<1>. SUFFICES ASSUME BothInit PROVE BothInv
  OBVIOUS
<1>1. DecoderInv
  BY DecoderInit DEF BothInit
<1>2. WalkInv
  BY <1>1, WalkInit DEF BothInit, DecoderInv
<1>3. Walk!Running
  BY DEF BothInit, Walk!Init, Walk!Running
<1>. QED
  BY <1>1, <1>2, <1>3 DEF BothInv

(* A step of either program keeps both invariants.                         *)
LEMMA BothNextInv == BothInv /\ [BothNext]_<<vars, walk_vars>> => BothInv'
<1>. SUFFICES ASSUME BothInv, [BothNext]_<<vars, walk_vars>> PROVE BothInv'
  OBVIOUS
<1>1. ASSUME UNCHANGED walk_vars, [Next]_vars PROVE WalkInv' /\ (Running' => Walk!Running')
  <2>1. message' = message /\ offset' = offset /\ (Running' => Running)
    BY <1>1 DEF Next, PastEnd, PointerCut, PointerRefused, FollowPointer, ReadReserved, RootTooLong,
                OutTooSmall, FinishName, LabelCut, LabelRefused, StoreLabel, ReadPointer, ReadRoot,
                ReadLabel, Reading, Running, Return, vars, args, progress, results
  <2>2. WalkInv'
    BY <1>1, <2>1 DEF BothInv, WalkInv, WalkTypes, WalkReads, WalkDecides, WalkAt, Walk!Running, walk_vars
  <2>. QED
    BY <1>1, <2>1, <2>2 DEF BothInv, Walk!Running, walk_vars
<1>2. CASE Next /\ UNCHANGED walk_vars
  BY <1>1, <1>2, DecoderNext DEF BothInv
<1>3. CASE ~Running /\ Walk!Next /\ UNCHANGED <<out_capacity, progress, results>>
  <2>1. message' = message /\ offset' = offset
    BY <1>3 DEF Walk!Next, Walk!PastEnd, Walk!PointerCut, Walk!PointerRefused, Walk!FollowPointer,
                Walk!ReadReserved, Walk!RootTooLong, Walk!FinishWalk, Walk!LabelCut,
                Walk!LabelRefused, Walk!PassLabel, Walk!Stop, Walk!args
  <2>2. UNCHANGED vars
    BY <1>3, <2>1 DEF vars, args
  <2>3. DecoderInv'
    BY <2>2, DecoderNext DEF BothInv
  <2>4. WalkInv'
    BY <1>3, WalkNext DEF BothInv, DecoderInv, IInv
  <2>5. ~Running'
    BY <1>3 DEF Running, results
  <2>. QED
    BY <2>3, <2>4, <2>5 DEF BothInv
<1>4. CASE UNCHANGED <<vars, walk_vars>>
  BY <1>1, <1>4, DecoderNext DEF BothInv
<1>. QED
  BY <1>2, <1>3, <1>4 DEF BothNext

(* Whatever the message, the offset and the buffer: the decoder accepts a  *)
(* name exactly when its bytes spell one within the limits, and returns    *)
(* what they spell and where the name ends in place.                       *)
THEOREM DecodingIsExact == BothSpec => []DecodesTheName
<1>1. BothInv => DecodesTheName
  BY DEF BothInv, DecoderInv
<1>. QED
  BY <1>1, BothInitInv, BothNextInv, PTL DEF BothSpec

(* The two copies of the walk accept the same names and continue at the    *)
(* same byte, and a report never claims bytes behind the message.          *)
THEOREM WalksAgree == BothSpec => []NamesAgree
<1>1. BothInv => NamesAgree
  <2>. SUFFICES ASSUME BothInv PROVE NamesAgree
    OBVIOUS
  <2>1. w_parsed <= Len(message)
    BY WalkTyped DEF BothInv, DecoderInv, IInv, WalkInv, WalkTypes
  <2>2. CASE w_status # "RUNNING"
    <3>1. ~Walk!Running /\ ~Running
      BY <2>2 DEF BothInv, Walk!Running
    <3>. QED
      BY <2>1, <3>1 DEF NamesAgree, BothInv, DecoderInv, DecodesTheName, WalkInv, WalkDecides
  <2>. QED
    BY <2>1, <2>2 DEF NamesAgree
<1>. QED
  BY <1>1, BothInitInv, BothNextInv, PTL DEF BothSpec
=============================================================================
