-------------------------- MODULE ReassemblyProofs --------------------------
(***************************************************************************)
(* Proofs about lesson 06's comparison of sequence numbers, for all of     *)
(* them, and about lesson 07's receive window, for every capacity,         *)
(* sequence space, initial sequence number and byte alphabet.              *)
(***************************************************************************)
EXTENDS Reassembly, SerialNumbers, FiniteSetTheorems, SequenceTheorems, TLAPS

-----------------------------------------------------------------------------
(* Sequence numbers.  (Numerals of this size are for SMT alone: Zenon        *)
(* counts in unary.)                                                         *)

LEMMA DistanceValue ==
  ASSUME NEW a \in SequenceNumber, NEW b \in SequenceNumber
  PROVE  /\ SeqDistance(a, b) \in SequenceNumber
         /\ a <= b => SeqDistance(a, b) = b - a
         /\ b < a => SeqDistance(a, b) = Space + (b - a)
BY SMT DEF SeqDistance, SequenceNumber, Space

LEMMA AtValue ==
  ASSUME NEW base \in SequenceNumber, NEW i \in SequenceNumber
  PROVE  /\ At(base, i) \in SequenceNumber
         /\ base + i < Space => At(base, i) = base + i
         /\ ~(base + i < Space) => At(base, i) = base + i - Space
BY SMT DEF At, SequenceNumber, Space

(* seq_before is the order of a stream's bytes as long as the two are less   *)
(* than half the space apart, also where the sequence numbers wrap.          *)
THEOREM BeforeIsStreamOrder ==
  ASSUME NEW base \in SequenceNumber, NEW i \in SequenceNumber, NEW j \in SequenceNumber,
         i - j < HalfRange, j - i < HalfRange
  PROVE  SeqBefore(At(base, i), At(base, j)) <=> i < j
<1>. DEFINE x == At(base, i)
            y == At(base, j)
<1>1. /\ x \in SequenceNumber
      /\ x = base + i \/ x = base + i - Space
  BY SMT, AtValue
<1>2. /\ y \in SequenceNumber
      /\ y = base + j \/ y = base + j - Space
  BY SMT, AtValue
<1>3. /\ SeqDistance(x, y) \in SequenceNumber
      /\ SeqDistance(x, y) = y - x \/ SeqDistance(x, y) = Space + (y - x)
  <2>. HIDE DEF x, y
  <2>. QED
    BY SMT, <1>1, <1>2, DistanceValue DEF SequenceNumber, Space
<1>4. IF i <= j THEN SeqDistance(x, y) = j - i
                ELSE SeqDistance(x, y) = Space + (j - i)
  <2>. HIDE DEF x, y
  <2>. QED
    BY SMT, <1>1, <1>2, <1>3 DEF SequenceNumber, Space
<1>. QED
  BY SMT, <1>4 DEF SeqBefore, SequenceNumber, Space, HalfRange

(* seq_before never holds in both directions, and in neither exactly for     *)
(* equal numbers and for numbers half the space apart.                       *)
THEOREM OppositesAreIncomparable ==
  ASSUME NEW a \in SequenceNumber, NEW b \in SequenceNumber
  PROVE  /\ ~(SeqBefore(a, b) /\ SeqBefore(b, a))
         /\ ~SeqBefore(a, b) /\ ~SeqBefore(b, a) <=> SeqDistance(a, b) \in {0, HalfRange}
<1>. DEFINE d == SeqDistance(a, b)
            e == SeqDistance(b, a)
<1>1. /\ a <= b => d = b - a
      /\ b < a => d = Space + (b - a)
  BY SMT, DistanceValue
<1>2. /\ b <= a => e = a - b
      /\ a < b => e = Space + (a - b)
  BY SMT, DistanceValue
<1>3. (d = 0 /\ e = 0) \/ (d \in SequenceNumber /\ d # 0 /\ e = Space - d)
  <2>. HIDE DEF d, e
  <2>. QED
    BY SMT, <1>1, <1>2 DEF SequenceNumber, Space
<1>4. /\ ~((d # 0 /\ d < HalfRange) /\ (e # 0 /\ e < HalfRange))
      /\ ~(d # 0 /\ d < HalfRange) /\ ~(e # 0 /\ e < HalfRange) <=> d \in {0, HalfRange}
  <2>. HIDE DEF d, e
  <2>. QED
    BY SMT, <1>3 DEF SequenceNumber, Space, HalfRange
<1>. QED
  BY SMT, <1>4 DEF SeqBefore

(* Over the whole space it is no order: three numbers can follow each other  *)
(* round in a circle.                                                        *)
THEOREM BeforeHasCycles ==
  \E a, b, c \in SequenceNumber : SeqBefore(a, b) /\ SeqBefore(b, c) /\ SeqBefore(c, a)
<1>1. /\ 0 \in SequenceNumber /\ 1431655765 \in SequenceNumber
      /\ 2863311530 \in SequenceNumber
  <2>1. \A n \in Nat : n < Space => n \in SequenceNumber
    BY SMT DEF SequenceNumber, Space
  <2>. QED
    BY SMT, <2>1 DEF Space
<1>2. /\ SeqBefore(0, 1431655765) /\ SeqBefore(1431655765, 2863311530)
      /\ SeqBefore(2863311530, 0)
  BY SMT DEF SeqBefore, SeqDistance, Space, HalfRange
<1>. QED
  BY SMT, <1>1, <1>2

-----------------------------------------------------------------------------
(* The receive window. *)

USE SeqModAssumption, CapacityAssumption, InitialSeqAssumption,
    MaxLenAssumption, MaxReadAssumption

-----------------------------------------------------------------------------
(* The distance of two sequence numbers is a sequence number. *)
LEMMA OffsetType ==
  ASSUME NEW seq \in Sequence
  PROVE  Offset(seq) \in Sequence
BY DEF Offset, Sequence

(* A segment is a sequence of bytes. *)
LEMMA SegmentType ==
  ASSUME NEW input \in Segment
  PROVE  /\ Len(input) \in Nat
         /\ \A i \in 1..Len(input) : input[i] \in Byte
<1>1. PICK n \in 0..MaxLen : input \in [1..n -> Byte]
  BY DEF Segment
<1>2. n \in Nat /\ Len(input) = n
  BY <1>1
<1>. QED
  BY <1>1, <1>2

(* The positions a segment that fits covers are positions of the window. *)
LEMMA CoveredPositions ==
  ASSUME NEW offset \in Nat, NEW len \in Nat, Fits(offset, len)
  PROVE  Covered(offset, len) \subseteq Position
BY DEF Fits, Covered, Position

(* The set of new positions is finite, so its cardinality is a number. *)
LEMMA NewPositionsFinite ==
  ASSUME NEW offset \in Nat, NEW len \in Nat
  PROVE  /\ IsFiniteSet(NewPositions(offset, len))
         /\ Cardinality(NewPositions(offset, len)) \in Nat
<1>1. IsFiniteSet(Covered(offset, len))
  BY FS_Interval DEF Covered
<1>2. NewPositions(offset, len) \in SUBSET Covered(offset, len)
  BY DEF NewPositions
<1>3. IsFiniteSet(NewPositions(offset, len))
  BY <1>1, <1>2, FS_Subset
<1>. QED
  BY <1>3, FS_CardinalityType

-----------------------------------------------------------------------------
LEMMA InitType == Init => TypeOK
BY DEF Init, TypeOK, Status

LEMMA TypeStep == TypeOK /\ [Next]_vars => TypeOK'
<1>. SUFFICES ASSUME TypeOK, [Next]_vars
              PROVE  TypeOK'
  OBVIOUS
<1>1. ASSUME NEW seq \in Sequence, NEW input \in Segment, Push(seq, input)
      PROVE  TypeOK'
  <2>1. ASSUME NEW result \in Status, PushFails(result)
        PROVE  TypeOK'
    BY <2>1 DEF TypeOK, PushFails, window
  <2>2. CASE PushStore(seq, input)
    <3>. DEFINE offset == Offset(seq)
                len    == Len(input)
    <3>1. offset \in Nat /\ len \in Nat
      BY OffsetType, SegmentType DEF Sequence
    <3>2. accepted' \in Nat
      BY <2>2, <3>1, NewPositionsFinite DEF PushStore
    <3>3. \A i \in Covered(offset, len) : input[i - offset + 1] \in Byte
      BY <3>1, SegmentType DEF Covered
    <3>4. data' \in [Position -> Byte]
      BY <2>2, <3>3 DEF PushStore, TypeOK
    <3>5. present' \in [Position -> BOOLEAN]
      BY <2>2 DEF PushStore, TypeOK
    <3>6. UNCHANGED <<read_offset, output>> /\ status' \in Status
      BY <2>2 DEF PushStore, Status
    <3>7. pushed' \in Nat
      BY <2>2, <3>2 DEF PushStore, TypeOK
    <3>. QED
      BY <3>2, <3>4, <3>5, <3>6, <3>7 DEF TypeOK
  <2>. QED
    BY <1>1, <2>1, <2>2 DEF Push, PushEmpty, PushOutside, PushConflict, Status
<1>2. ASSUME NEW out_capacity \in 0..MaxRead, Read(out_capacity)
      PROVE  TypeOK'
  <2>1. PICK available \in 0..(Capacity - read_offset) :
           ReadRun(available) \/ ReadTooShort
    BY <1>2 DEF Read
  <2>2. CASE ReadRun(available)
    <3>1. read_offset' \in 0..Capacity
      BY <2>2 DEF ReadRun, TypeOK
    <3>2. [i \in 1..available |-> data[read_offset + i - 1]] \in Seq(Byte)
      BY DEF TypeOK, Position
    <3>. QED
      BY <2>2, <3>1, <3>2 DEF ReadRun, TypeOK, Status
  <2>3. CASE ReadTooShort
    BY <2>3 DEF ReadTooShort, TypeOK, Status, window
  <2>. QED
    BY <2>1, <2>2, <2>3
<1>3. CASE UNCHANGED vars
  BY <1>3 DEF TypeOK, vars
<1>. QED
  BY <1>1, <1>2, <1>3 DEF Next

(* Every state the environment can reach by pushing and reading is           *)
(* well-typed: in particular read_offset never passes the capacity.          *)
THEOREM TypeCorrect == Spec => []TypeOK
BY InitType, TypeStep, PTL DEF Spec

-----------------------------------------------------------------------------
(* A push that succeeds keeps every received byte: where it overlaps one,    *)
(* the two are equal, because Conflicts was false.                           *)
LEMMA PushKeepsBytes ==
  ASSUME TypeOK, NEW seq \in Sequence, NEW input \in Segment, Push(seq, input)
  PROVE  /\ \A i \in Position : present[i] => present'[i] /\ data'[i] = data[i]
         /\ UNCHANGED <<read_offset, output>>
<1>1. CASE PushStore(seq, input)
  BY <1>1 DEF PushStore, Conflicts, TypeOK
<1>2. ASSUME NEW result, PushFails(result)
      PROVE  UNCHANGED <<data, present, read_offset, output>>
  BY <1>2 DEF PushFails, window
<1>. QED
  BY <1>1, <1>2 DEF Push, PushEmpty, PushOutside, PushConflict

(* A read touches neither array. *)
LEMMA ReadKeepsBytes ==
  ASSUME NEW out_capacity, Read(out_capacity)
  PROVE  UNCHANGED <<data, present>>
BY DEF Read, ReadRun, ReadTooShort, window

(* A received byte is never lost and never changes value, whatever segments  *)
(* arrive later.                                                             *)
THEOREM BytesAreNotRewritten == Spec => NoByteRewritten
<1>1. TypeOK /\ [Next]_vars =>
        [\A i \in Position : present[i] => present'[i] /\ data'[i] = data[i]]_vars
  BY PushKeepsBytes, ReadKeepsBytes DEF Next
<1>. QED
  BY <1>1, TypeCorrect, PTL DEF Spec, NoByteRewritten

(* A call that fails changes neither the window nor what was read. *)
THEOREM FailuresCommitNothing == Spec => FailureCommitsNothing
<1>1. [Next]_vars => [status' # "OK" => UNCHANGED <<window, output, pushed>>]_vars
  BY DEF Next, Push, PushEmpty, PushOutside, PushConflict, PushFails, PushStore,
         Read, ReadRun, ReadTooShort
<1>. QED
  BY <1>1, PTL DEF Spec, FailureCommitsNothing

-----------------------------------------------------------------------------
(* The reader's bytes are inductive together with the fact that they were    *)
(* all received: a push may write below read_offset, and only because those  *)
(* positions are present must it write the bytes that are already there.     *)
ReaderInv == TypeOK /\ ReadBytesReceived /\ OutputMatchesWindow

LEMMA ReaderInvInductive == ReaderInv /\ [Next]_vars => ReaderInv'
<1>. SUFFICES ASSUME ReaderInv, [Next]_vars, TypeOK'
              PROVE  ReadBytesReceived' /\ OutputMatchesWindow'
  BY TypeStep DEF ReaderInv
<1>1. ASSUME NEW seq \in Sequence, NEW input \in Segment, Push(seq, input)
      PROVE  ReadBytesReceived' /\ OutputMatchesWindow'
  <2>1. /\ \A i \in Position : present[i] => present'[i] /\ data'[i] = data[i]
        /\ UNCHANGED <<read_offset, output>>
    BY <1>1, PushKeepsBytes DEF ReaderInv
  <2>2. ReadBytesReceived'
    BY <2>1 DEF ReaderInv, ReadBytesReceived
  <2>3. OutputMatchesWindow'
    <3>1. \A i \in 1..Len(output) : i - 1 \in Position /\ i - 1 < read_offset
      BY DEF ReaderInv, TypeOK, OutputMatchesWindow, Position
    <3>. QED
      BY <2>1, <3>1 DEF ReaderInv, ReadBytesReceived, OutputMatchesWindow
  <2>. QED
    BY <2>2, <2>3
<1>2. ASSUME NEW out_capacity \in 0..MaxRead, Read(out_capacity)
      PROVE  ReadBytesReceived' /\ OutputMatchesWindow'
  <2>1. PICK available \in 0..(Capacity - read_offset) :
           IsRun(available) /\ (ReadRun(available) \/ ReadTooShort)
    BY <1>2 DEF Read
  <2>2. CASE ReadRun(available)
    <3>. DEFINE run == [i \in 1..available |-> data[read_offset + i - 1]]
    <3>1. ReadBytesReceived'
      BY <2>1, <2>2 DEF ReadRun, IsRun, ReaderInv, TypeOK, ReadBytesReceived, Position
    <3>2. /\ available \in Nat /\ read_offset \in Nat
          /\ output \in Seq(Byte) /\ Len(output) = read_offset
      BY DEF ReaderInv, TypeOK, OutputMatchesWindow
    <3>3. run \in Seq(Byte) /\ Len(run) = available
      BY <3>2 DEF ReaderInv, TypeOK, Position
    <3>4. output' = output \o run /\ read_offset' = read_offset + available
          /\ data' = data
      BY <2>2 DEF ReadRun
    <3>5. Len(output') = read_offset'
      BY <3>2, <3>3, <3>4
    <3>6. ASSUME NEW i \in 1..Len(output')
          PROVE  output'[i] = data'[i - 1]
      <4>1. CASE i <= read_offset
        BY <3>2, <3>3, <3>4, <3>5, <4>1 DEF ReaderInv, OutputMatchesWindow
      <4>2. CASE i > read_offset
        <5>1. i - read_offset \in 1..available
          BY <3>2, <3>4, <3>5, <4>2
        <5>2. output'[i] = run[i - read_offset]
          <6>. HIDE DEF run
          <6>1. i \in 1..(Len(output) + Len(run)) /\ ~(i <= Len(output))
            BY <3>2, <3>3, <3>4, <3>5, <4>2
          <6>. QED
            BY <3>2, <3>3, <3>4, <6>1, ConcatProperties
        <5>3. read_offset + (i - read_offset) - 1 = i - 1
          BY <3>2
        <5>4. run[i - read_offset] = data[i - 1]
          BY <5>1, <5>3
        <5>. QED
          BY <3>4, <5>2, <5>4
      <4>. QED
        BY <3>2, <4>1, <4>2
    <3>. QED
      BY <3>1, <3>5, <3>6 DEF OutputMatchesWindow
  <2>3. CASE ReadTooShort
    BY <2>3 DEF ReadTooShort, window, ReaderInv, ReadBytesReceived, OutputMatchesWindow
  <2>. QED
    BY <2>1, <2>2, <2>3
<1>3. CASE UNCHANGED vars
  BY <1>3 DEF vars, ReaderInv, ReadBytesReceived, OutputMatchesWindow
<1>. QED
  BY <1>1, <1>2, <1>3 DEF Next

(* The reader only ever gets received bytes, and the window still holds them *)
(* where they were read.                                                     *)
THEOREM ReaderGetsReceivedBytes ==
  Spec => [](ReadBytesReceived /\ OutputMatchesWindow)
<1>1. Init => ReaderInv
  BY InitType DEF Init, ReaderInv, ReadBytesReceived, OutputMatchesWindow
<1>2. ReaderInv => ReadBytesReceived /\ OutputMatchesWindow
  BY DEF ReaderInv
<1>. QED
  BY <1>1, <1>2, ReaderInvInductive, PTL DEF Spec

-----------------------------------------------------------------------------
Received == {i \in Position : present[i]}

LEMMA PositionFinite == IsFiniteSet(Position)
BY FS_Interval DEF Position

(* Storing a segment adds exactly its new positions to the received ones. *)
LEMMA StoreAddsNewPositions ==
  ASSUME TypeOK, NEW seq \in Sequence, NEW input \in Segment, PushStore(seq, input)
  PROVE  /\ Received' = Received \cup NewPositions(Offset(seq), Len(input))
         /\ Received \cap NewPositions(Offset(seq), Len(input)) = {}
<1>1. Offset(seq) \in Nat /\ Len(input) \in Nat
  BY OffsetType, SegmentType DEF Sequence
<1>2. Covered(Offset(seq), Len(input)) \subseteq Position
  BY <1>1, CoveredPositions DEF PushStore
<1>3. present' = [i \in Position |->
                    i \in Covered(Offset(seq), Len(input)) \/ present[i]]
  BY DEF PushStore
<1>4. Received' = {i \in Position : present'[i]}
  BY DEF Received
<1>5. \A i \in Position : i \in Received' <=>
         i \in Covered(Offset(seq), Len(input)) \/ present[i]
  BY <1>3, <1>4
<1>. QED
  BY <1>2, <1>4, <1>5 DEF Received, NewPositions

(* *accepted never counts a position twice: over any history of pushes the   *)
(* reported counts add up to the number of positions received.               *)
THEOREM AcceptedCountsAddUp == Spec => []AcceptedCountsPresent
<1>1. Init => AcceptedCountsPresent
  <2>1. Init => Received = {}
    BY DEF Init, Received
  <2>. QED
    BY <2>1, FS_EmptySet DEF Init, AcceptedCountsPresent, Received
<1>2. TypeOK /\ AcceptedCountsPresent /\ [Next]_vars => AcceptedCountsPresent'
  <2>. SUFFICES ASSUME TypeOK, AcceptedCountsPresent, [Next]_vars
                PROVE  AcceptedCountsPresent'
    OBVIOUS
  <2>1. ASSUME NEW seq \in Sequence, NEW input \in Segment, PushStore(seq, input)
        PROVE  AcceptedCountsPresent'
    <3>. DEFINE new == NewPositions(Offset(seq), Len(input))
    <3>1. IsFiniteSet(Received)
      <4>1. Received \in SUBSET Position
        BY DEF Received
      <4>. QED
        BY <4>1, PositionFinite, FS_Subset
    <3>2. IsFiniteSet(new) /\ Cardinality(new) \in Nat
      <4>1. Offset(seq) \in Nat /\ Len(input) \in Nat
        BY OffsetType, SegmentType DEF Sequence
      <4>. QED
        BY <4>1, NewPositionsFinite
    <3>3. Cardinality(Received) \in Nat /\ pushed = Cardinality(Received)
      <4>1. Cardinality(Received) \in Nat
        BY <3>1, FS_CardinalityType
      <4>. QED
        BY <4>1 DEF AcceptedCountsPresent, Received
    <3>4. Cardinality(Received \cup new) = Cardinality(Received) + Cardinality(new)
      <4>1. Received \cap new = {}
        BY <2>1, StoreAddsNewPositions
      <4>. HIDE DEF new
      <4>2. Cardinality(Received \cup new)
              = Cardinality(Received) + Cardinality(new) - Cardinality(Received \cap new)
        BY <3>1, <3>2, FS_Union
      <4>3. Cardinality(Received \cap new) = 0
        BY <4>1, FS_EmptySet
      <4>. QED
        BY <3>2, <3>3, <4>2, <4>3
    <3>5. pushed' = pushed + Cardinality(new)
      BY <2>1 DEF PushStore
    <3>6. pushed' = Cardinality(Received')
      BY <2>1, <3>3, <3>4, <3>5, StoreAddsNewPositions
    <3>. QED
      BY <3>6 DEF AcceptedCountsPresent, Received
  <2>2. ASSUME UNCHANGED <<present, pushed>>
        PROVE  AcceptedCountsPresent'
    BY <2>2 DEF AcceptedCountsPresent
  <2>. QED
    BY <2>1, <2>2 DEF Next, Push, PushEmpty, PushOutside, PushConflict, PushFails,
         Read, ReadRun, ReadTooShort, vars, window
<1>. QED
  BY <1>1, <1>2, TypeCorrect, PTL DEF Spec

-----------------------------------------------------------------------------
Known == [i \in {j \in Position : present[j]} |-> data[i]]

(* A stored segment only adds to what is known. *)
LEMMA PushLearns ==
  ASSUME ReaderInv, TypeOK', NEW seq \in Sequence, NEW input \in Segment,
         Push(seq, input)
  PROVE  Stream!Learn
<1>1. Known' = [i \in {j \in Position : present'[j]} |-> data'[i]]
  BY DEF Known
<1>2. /\ \A i \in Position : present[i] => present'[i] /\ data'[i] = data[i]
      /\ output' = output
  BY PushKeepsBytes DEF ReaderInv
<1>3. /\ DOMAIN Known \subseteq DOMAIN Known'
      /\ DOMAIN Known' \subseteq Position
      /\ \A i \in DOMAIN Known' : Known'[i] \in Byte
      /\ \A i \in DOMAIN Known : Known'[i] = Known[i]
  BY <1>1, <1>2 DEF Known, TypeOK
<1>. QED
  BY <1>2, <1>3 DEF Stream!Learn, Stream!Position, Position, Known

(* A read that succeeds hands out exactly the known prefix. *)
LEMMA ReadDelivers ==
  ASSUME ReaderInv, ReaderInv', NEW available \in 0..(Capacity - read_offset),
         IsRun(available), ReadRun(available)
  PROVE  Stream!Deliver
<1>. DEFINE n == read_offset + available
<1>1. n \in read_offset..Capacity /\ n = Len(output') /\ Len(output) = read_offset
  BY DEF ReaderInv, TypeOK, OutputMatchesWindow, ReadRun
<1>2. UNCHANGED <<data, present>>
  BY DEF ReadRun
<1>3. \A i \in 0..(n - 1) : i \in Position /\ present[i]
  BY <1>1, <1>2 DEF ReaderInv, TypeOK, ReadBytesReceived, Position, ReadRun
<1>4. n \notin DOMAIN Known
  BY <1>1 DEF IsRun, Known, Position, ReaderInv, TypeOK
<1>5. 0..(n - 1) \subseteq DOMAIN Known
  BY <1>3 DEF Known
<1>6. output' = [i \in 1..n |-> Known[i - 1]]
  <2>1. output' \in Seq(Byte)
    BY DEF ReaderInv, TypeOK
  <2>2. \A i \in 1..n : output'[i] = data[i - 1]
    BY <1>1, <1>2 DEF ReaderInv, OutputMatchesWindow
  <2>3. \A i \in 1..n : Known[i - 1] = data[i - 1]
    BY <1>1, <1>3 DEF Known, ReaderInv, TypeOK
  <2>. QED
    BY <1>1, <2>1, <2>2, <2>3
<1>. QED
  BY <1>1, <1>2, <1>4, <1>5, <1>6 DEF Stream!Deliver, Known

(* Lesson 07's window implements the stream it promises to its reader. *)
THEOREM WindowImplementsStream == Spec => ImplementsReceivedStream
<1>1. Init => Stream!Init
  BY DEF Init, Stream!Init
<1>2. ReaderInv /\ ReaderInv' /\ [Next]_vars
        => [Stream!Learn \/ Stream!Deliver]_<<Known, output>>
  <2>. SUFFICES ASSUME ReaderInv, ReaderInv', [Next]_vars
                PROVE  Stream!Learn \/ Stream!Deliver \/ UNCHANGED <<Known, output>>
    OBVIOUS
  <2>1. ASSUME NEW seq \in Sequence, NEW input \in Segment, Push(seq, input)
        PROVE  Stream!Learn
    BY <2>1, PushLearns DEF ReaderInv
  <2>2. ASSUME NEW out_capacity \in 0..MaxRead, Read(out_capacity)
        PROVE  Stream!Deliver \/ UNCHANGED <<Known, output>>
    BY <2>2, ReadDelivers DEF Read, ReadTooShort, Known, window
  <2>3. CASE UNCHANGED vars
    BY <2>3 DEF vars, Known
  <2>. QED
    BY <2>1, <2>2, <2>3 DEF Next
<1>3. Init => ReaderInv
  BY InitType DEF Init, ReaderInv, ReadBytesReceived, OutputMatchesWindow
<1>. QED
  BY <1>1, <1>2, <1>3, ReaderInvInductive, PTL
     DEF Spec, ImplementsReceivedStream, Stream!Spec, Known
=============================================================================
