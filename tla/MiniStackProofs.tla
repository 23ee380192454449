--------------------------- MODULE MiniStackProofs ---------------------------
(***************************************************************************)
(* Linux lab 03 for every payload, chunk size, fault script, number of     *)
(* attempts and clock: the transfer is all or nothing, the clock never     *)
(* goes back, the queue never fills, only faults exhaust the attempts.     *)
(***************************************************************************)
EXTENDS MiniStack, FiniteSetTheorems, SequenceTheorems, TLAPS

USE SizesAssumption, PayloadAssumption

-----------------------------------------------------------------------------
(* The strengthening.                                                      *)

Opening    == {"validate", "route", "handshake", "open"}
Attempting == {"attempt", "send", "deliver", "settle"}
Ending     == {"cleanup", "done"}

Result == [route_index : Nat, virtual_elapsed_ms : Nat, attempts : Nat,
           retransmits : Nat, final_state : Tcp!TcpState, reassembled_length : Nat]

Types ==
  /\ scenario \in Scenarios
  /\ pc \in Opening \cup Attempting \cup Ending
  /\ attempt \in Nat /\ chunk \in Nat /\ fault_index \in Nat /\ event_order \in Nat
  /\ now \in 0..TimeMax /\ rto \in 0..TimeMax /\ deadline \in 0..TimeMax
  /\ IsFiniteSet(events)
  /\ \A e \in events : e.chunk \in Chunk /\ e.due_ms \in 0..TimeMax /\ e.order \in Nat
  /\ acknowledged \in [Chunk -> BOOLEAN]
  /\ present \in [Position -> BOOLEAN]
  /\ result \in Result

(* What validate lets through.                                             *)
Admitted == WellFormed(scenario) /\ scenario.output_capacity >= PayloadLength

(* The life of a call: its results, its socket pair and its output.        *)
Lifecycle ==
  /\ pc \in (Opening \ {"validate"}) \cup Attempting \/ Opened => Admitted
  /\ status = "RUNNING" <=> pc \notin Ending
  /\ pc \in Opening => sockets = "none"
  /\ pc \in Attempting => sockets = "open"
  /\ pc = "done" => sockets # "open"
  /\ pc = "open" \/ Opened => result.final_state = "ESTABLISHED"
  /\ pc = "open" \/ pc \in Attempting => rto >= 1
  /\ OwnFramesAccepted
  /\ IF status = "OK" THEN output = Payload ELSE output = <<>> /\ read_offset = 0

(* A frame in flight is due from now on, and one that no fault touched is  *)
(* due before the attempt's deadline.                                      *)
Clock ==
  /\ pc \in Opening => events = {}
  /\ pc \in Attempting => \A e \in events : e.due_ms >= now
  /\ Sending => now <= deadline
  /\ pc = "send" /\ now < TimeMax => now < deadline
  /\ pc = "settle" => Due = {}

Immediate == {e \in events : e.action = "DELIVER"}
Delayed   == {e \in events : e.action # "DELIVER"}

(* Who may be in flight: frames that a fault action holds back, and those  *)
(* of the current attempt.                                                 *)
Flight ==
  /\ pc \in Opening => fault_index = 0
  /\ pc \in Attempting => /\ Cardinality(Delayed) <= fault_index
                          /\ Cardinality(Delayed) <= Len(scenario.faults)
  /\ pc = "send" => chunk <= ChunkCount
  /\ pc \in {"deliver", "settle"} => chunk = ChunkCount
  /\ now < TimeMax =>
       /\ pc \in {"attempt", "settle"} => Immediate = {}
       /\ pc = "send" => Cardinality(Immediate) <= chunk
       /\ pc \in {"send", "deliver"} => \A e \in Immediate : e.due_ms < deadline
  /\ QueueNeverFills

(* Every attempt that ends without success has used a fault action up.     *)
Spent(n) == n <= fault_index /\ n <= Len(scenario.faults)

Progress ==
  /\ pc \in Opening => attempt = 0
  /\ now < TimeMax =>
       /\ pc \in Attempting => Spent(attempt)
       /\ Sending => \/ Spent(attempt + 1)
                     \/ \A c \in Chunk : c < chunk =>
                          acknowledged[c] \/ \E e \in Immediate : e.chunk = c
  /\ ExhaustionNeedsFaults

(* What the window holds are bytes of the payload, in whole chunks.        *)
Received ==
  /\ \A i \in Position : present[i] => data[i] = Payload[i + 1]
  /\ AcknowledgedMeansReceived

MiniInv == Types /\ Lifecycle /\ Clock /\ Flight /\ Progress /\ Received

-----------------------------------------------------------------------------
(* Arithmetic of numbers that are not constants.                           *)

LEMMA Quotient ==
  ASSUME NEW a \in Nat, NEW d \in Nat \ {0}
  PROVE  /\ a \div d \in Nat
         /\ (a \div d) * d \in Nat /\ (a \div d) * d <= a /\ a < ((a \div d) * d) + d
OBVIOUS

LEMMA Multiples ==
  ASSUME NEW a \in Nat, NEW b \in Nat, NEW d \in Nat \ {0}
  PROVE  /\ a * d \in Nat /\ b * d \in Nat
         /\ a < b <=> a * d < b * d
         /\ a < b => (a * d) + d <= b * d
OBVIOUS

LEMMA Remainder ==
  ASSUME NEW m \in Nat \ {0}, NEW x \in Int
  PROVE  /\ 0 <= x /\ x < m => x % m = x
         /\ m <= x /\ x < m + m => x % m = x - m
         /\ x < 0 /\ 0 <= x + m => x % m = x + m
OBVIOUS

LEMMA Lengths ==
  /\ PayloadLength \in Nat /\ ChunkCount \in Nat /\ MaxChunks \in Nat
  /\ PayloadLength <= ChunkCount * ChunkPayload
  /\ ChunkCount * ChunkPayload <= PayloadLength + (ChunkPayload - 1)
  /\ ChunkCount * ChunkPayload \in Nat
<1>1. PayloadLength \in Nat
  BY DEF PayloadLength
<1>2. /\ PayloadLength + ChunkPayload - 1 \in Nat /\ MaxPayload + ChunkPayload - 1 \in Nat
      /\ ChunkPayload \in Nat \ {0}
  BY <1>1
<1>3. MaxChunks \in Nat
  BY <1>2, Quotient DEF MaxChunks, CeilDiv
<1>4. /\ ChunkCount \in Nat /\ ChunkCount * ChunkPayload \in Nat
      /\ ChunkCount * ChunkPayload <= PayloadLength + ChunkPayload - 1
      /\ PayloadLength + ChunkPayload - 1 < (ChunkCount * ChunkPayload) + ChunkPayload
  BY <1>2, Quotient DEF ChunkCount, CeilDiv
<1>. DEFINE m == ChunkCount * ChunkPayload
<1>. HIDE DEF m
<1>5. m \in Nat /\ m <= PayloadLength + ChunkPayload - 1
      /\ PayloadLength + ChunkPayload - 1 < m + ChunkPayload
  BY <1>4 DEF m
<1>6. PayloadLength <= m /\ m <= PayloadLength + (ChunkPayload - 1)
  BY <1>1, <1>2, <1>5
<1>. QED
  BY <1>1, <1>3, <1>4, <1>6 DEF m

(* A payload that validate lets through has no more chunks than the queue  *)
(* has room for.                                                           *)
LEMMA ChunkBound ==
  ASSUME PayloadLength <= MaxPayload
  PROVE  ChunkCount <= MaxChunks
<1>1. /\ PayloadLength + ChunkPayload - 1 \in Nat /\ MaxPayload + ChunkPayload - 1 \in Nat
      /\ ChunkPayload \in Nat \ {0} /\ ChunkCount \in Nat /\ MaxChunks \in Nat
  BY Lengths
<1>2. /\ ChunkCount * ChunkPayload <= PayloadLength + ChunkPayload - 1
      /\ MaxPayload + ChunkPayload - 1 < (MaxChunks * ChunkPayload) + ChunkPayload
  BY <1>1, Quotient DEF ChunkCount, MaxChunks, CeilDiv
<1>3. SUFFICES ASSUME MaxChunks < ChunkCount PROVE FALSE
  BY <1>1
<1>4. (MaxChunks * ChunkPayload) + ChunkPayload <= ChunkCount * ChunkPayload
  BY <1>1, <1>3, Multiples
<1>. DEFINE a == ChunkCount * ChunkPayload
            b == MaxChunks * ChunkPayload
<1>5. a \in Nat /\ b \in Nat
  BY <1>1, Multiples
<1>. HIDE DEF a, b
<1>6. /\ a <= PayloadLength + ChunkPayload - 1
      /\ MaxPayload + ChunkPayload - 1 < b + ChunkPayload /\ b + ChunkPayload <= a
  BY <1>2, <1>4 DEF a, b
<1>. QED
  BY <1>1, <1>5, <1>6, Lengths

-----------------------------------------------------------------------------
(* Chunks.                                                                 *)

LEMMA ChunkPlace ==
  ASSUME NEW c \in Chunk
  PROVE  /\ c \in Nat /\ ChunkOffset(c) \in Nat /\ ChunkLength(c) \in Nat \ {0}
         /\ ChunkLength(c) <= ChunkPayload
         /\ ChunkOffset(c) + ChunkLength(c) <= PayloadLength
<1>1. /\ c \in Nat /\ c < ChunkCount /\ ChunkCount \in Nat /\ PayloadLength \in Nat
      /\ ChunkPayload \in Nat \ {0}
  BY Lengths DEF Chunk
<1>. DEFINE o == ChunkOffset(c)
            m == ChunkCount * ChunkPayload
<1>2. /\ o \in Nat /\ m \in Nat /\ o + ChunkPayload <= m
      /\ m <= PayloadLength + (ChunkPayload - 1)
  BY <1>1, Multiples, Lengths DEF ChunkOffset
<1>3. ChunkLength(c) = IF PayloadLength - o < ChunkPayload THEN PayloadLength - o
                                                         ELSE ChunkPayload
  BY DEF ChunkLength
<1>. HIDE DEF o, m
<1>4. /\ ChunkLength(c) \in Nat \ {0} /\ ChunkLength(c) <= ChunkPayload
      /\ o + ChunkLength(c) <= PayloadLength
  BY <1>1, <1>2, <1>3
<1>. QED
  BY <1>1, <1>2, <1>4 DEF o

LEMMA ChunksCover ==
  ASSUME NEW i \in Position
  PROVE  \E c \in Chunk : i \in ChunkPositions(c)
<1>. DEFINE c == i \div ChunkPayload
            o == c * ChunkPayload
            m == ChunkCount * ChunkPayload
<1>1. /\ i \in Nat /\ i < PayloadLength /\ PayloadLength \in Nat
      /\ ChunkPayload \in Nat \ {0} /\ ChunkCount \in Nat /\ m \in Nat /\ PayloadLength <= m
  BY Lengths DEF Position
<1>2. c \in Nat /\ o \in Nat /\ o <= i /\ i < o + ChunkPayload
  BY <1>1, Quotient
<1>. HIDE DEF c
<1>3. c \in Chunk
  <2>1. o < m
    <3>. HIDE DEF o, m
    <3>. QED
      BY <1>1, <1>2
  <2>2. c < ChunkCount
    BY <1>1, <1>2, <2>1, Multiples
  <2>. QED
    BY <1>1, <1>2, <2>2 DEF Chunk
<1>4. ChunkOffset(c) = o
  BY DEF ChunkOffset
<1>. HIDE DEF o, m
<1>5. ChunkLength(c) = IF PayloadLength - o < ChunkPayload THEN PayloadLength - o
                                                         ELSE ChunkPayload
  BY <1>4 DEF ChunkLength
<1>6. i \in o..(o + ChunkLength(c) - 1)
  BY <1>1, <1>2, <1>5
<1>. QED
  BY <1>3, <1>4, <1>6 DEF ChunkPositions

LEMMA ChunksDisjoint ==
  ASSUME NEW c \in Chunk, NEW d \in Chunk, NEW i \in ChunkPositions(c),
         i \in ChunkPositions(d)
  PROVE  c = d
<1>1. ASSUME NEW a \in Chunk, NEW b \in Chunk, a < b, i \in ChunkPositions(a),
             i \in ChunkPositions(b)
      PROVE  FALSE
  <2>1. /\ a \in Nat /\ b \in Nat /\ ChunkPayload \in Nat \ {0}
        /\ ChunkOffset(a) \in Nat /\ ChunkOffset(b) \in Nat
        /\ ChunkLength(a) \in Nat /\ ChunkLength(a) <= ChunkPayload
        /\ ChunkLength(b) \in Nat
    BY ChunkPlace
  <2>2. ChunkOffset(a) + ChunkPayload <= ChunkOffset(b)
    BY <1>1, <2>1, Multiples DEF ChunkOffset
  <2>3. i >= ChunkOffset(b) /\ i <= ChunkOffset(a) + ChunkLength(a) - 1 /\ i \in Int
    BY <1>1, <2>1 DEF ChunkPositions
  <2>. QED
    BY <2>1, <2>2, <2>3
<1>2. c \in Nat /\ d \in Nat
  BY ChunkPlace
<1>. QED
  BY <1>1, <1>2

LEMMA ChunkInPosition ==
  ASSUME NEW c \in Chunk
  PROVE  ChunkPositions(c) \subseteq Position
BY ChunkPlace, Lengths DEF ChunkPositions, Position

(* The window puts a chunk where it came from, wherever the sequence       *)
(* numbers wrap.                                                           *)
LEMMA ChunkIsPlaced ==
  ASSUME NEW c \in Chunk, PayloadLength <= MaxPayload
  PROVE  Window!Offset(ChunkSeq(c)) = ChunkOffset(c)
<1>. DEFINE o == ChunkOffset(c)
            x == SenderInitialSeq + o
<1>1. /\ o \in Nat /\ o < SeqMod /\ SeqMod \in Nat \ {0}
      /\ SenderInitialSeq \in Nat /\ SenderInitialSeq < SeqMod
  BY ChunkPlace, Lengths
<1>2. o \in Int /\ x \in Int /\ 0 <= x /\ x < SeqMod + SeqMod
  BY <1>1
<1>. HIDE DEF o
<1>3. ((x % SeqMod) - SenderInitialSeq) % SeqMod = o
  <2>1. CASE x < SeqMod
    <3>1. x % SeqMod = x
      <4>. HIDE DEF x
      <4>. QED
        BY <1>1, <1>2, <2>1, Remainder
    <3>2. x - SenderInitialSeq = o
      BY <1>1
    <3>3. o % SeqMod = o
      BY <1>1, <1>2, Remainder
    <3>. QED
      BY <3>1, <3>2, <3>3
  <2>2. CASE SeqMod <= x
    <3>1. x % SeqMod = x - SeqMod
      <4>. HIDE DEF x
      <4>. QED
        BY <1>1, <1>2, <2>2, Remainder
    <3>2. /\ (x - SeqMod) - SenderInitialSeq = o - SeqMod
          /\ o - SeqMod \in Int /\ o - SeqMod < 0 /\ 0 <= (o - SeqMod) + SeqMod
          /\ (o - SeqMod) + SeqMod = o
      BY <1>1
    <3>3. (o - SeqMod) % SeqMod = o
      BY <1>1, <3>2, Remainder
    <3>. QED
      BY <3>1, <3>2, <3>3
  <2>. QED
    BY <1>1, <2>1, <2>2
<1>. QED
  BY <1>3 DEF Window!Offset, ChunkSeq, o

-----------------------------------------------------------------------------
(* The window, as this sender and this receiver use it.                    *)

LEMMA SameCardinality ==
  ASSUME NEW S
  PROVE  Window!Cardinality(S) = Cardinality(S)
BY DEF Window!Cardinality, Cardinality

(* A chunk is stored whole, and counted once.                              *)
LEMMA OwnPush ==
  ASSUME Received, present \in [Position -> BOOLEAN], acknowledged \in [Chunk -> BOOLEAN],
         PayloadLength <= MaxPayload, NEW c \in Chunk,
         Window!Push(ChunkSeq(c), ChunkBytes(c))
  PROVE  /\ window_status' = "OK"
         /\ accepted' = IF acknowledged[c] THEN 0 ELSE ChunkLength(c)
         /\ data' = [i \in Position |-> IF i \in ChunkPositions(c) THEN Payload[i + 1] ELSE data[i]]
         /\ present' = [i \in Position |-> i \in ChunkPositions(c) \/ present[i]]
         /\ UNCHANGED <<read_offset, output>>
<1>. DEFINE o == ChunkOffset(c)
            l == ChunkLength(c)
            bytes == ChunkBytes(c)
<1>1. /\ o \in Nat /\ l \in Nat \ {0} /\ o + l <= PayloadLength /\ PayloadLength \in Nat
  BY ChunkPlace, Lengths
<1>2. Window!Offset(ChunkSeq(c)) = o
  BY ChunkIsPlaced
<1>3. Len(bytes) = l /\ \A k \in 1..l : bytes[k] = Payload[o + k]
  BY <1>1 DEF ChunkBytes
<1>4. Window!Position = Position
  BY DEF Window!Position, Position
<1>5. Window!Covered(o, l) = ChunkPositions(c)
  BY DEF Window!Covered, ChunkPositions
<1>6. Window!Fits(o, l)
  BY <1>1 DEF Window!Fits
<1>7. \A i \in ChunkPositions(c) : bytes[i - o + 1] = Payload[i + 1]
  <2>1. \A i \in ChunkPositions(c) : i - o + 1 \in 1..l /\ o + (i - o + 1) = i + 1
    BY <1>1 DEF ChunkPositions
  <2>. HIDE DEF bytes, o, l
  <2>. QED
    BY <1>3, <2>1
<1>8. ChunkPositions(c) \subseteq Position
  BY ChunkInPosition
<1>. HIDE DEF bytes, o, l
<1>9. ~Window!Conflicts(o, bytes)
  BY <1>3, <1>5, <1>7, <1>8 DEF Window!Conflicts, Received
<1>10. Window!PushStore(ChunkSeq(c), bytes)
  BY <1>1, <1>2, <1>3, <1>6, <1>9 DEF Window!Push, Window!PushEmpty, Window!PushOutside,
     Window!PushConflict, bytes
<1>11. /\ data' = [i \in Position |-> IF i \in ChunkPositions(c) THEN bytes[i - o + 1] ELSE data[i]]
       /\ present' = [i \in Position |-> i \in ChunkPositions(c) \/ present[i]]
       /\ accepted' = Cardinality(Window!NewPositions(o, l))
       /\ window_status' = "OK" /\ UNCHANGED <<read_offset, output>>
  <2>. DEFINE w == Window!Offset(ChunkSeq(c))
              n == Len(bytes)
  <2>1. /\ data' = [i \in Window!Position |->
                     IF i \in Window!Covered(w, n) THEN bytes[i - w + 1] ELSE data[i]]
        /\ present' = [i \in Window!Position |-> i \in Window!Covered(w, n) \/ present[i]]
        /\ accepted' = Cardinality(Window!NewPositions(w, n))
        /\ window_status' = "OK" /\ UNCHANGED <<read_offset, output>>
    BY <1>10, SameCardinality DEF Window!PushStore
  <2>2. w = o /\ n = l
    BY <1>2, <1>3
  <2>. HIDE DEF w, n
  <2>. QED
    BY <1>4, <1>5, <2>1, <2>2
<1>12. accepted' = IF acknowledged[c] THEN 0 ELSE l
  <2>1. Window!NewPositions(o, l) = {i \in ChunkPositions(c) : ~present[i]}
    BY <1>5 DEF Window!NewPositions
  <2>2. \A i \in ChunkPositions(c) : present[i] <=> acknowledged[c]
    BY DEF Received, AcknowledgedMeansReceived
  <2>3. CASE acknowledged[c]
    <3>1. Window!NewPositions(o, l) = {}
      BY <2>1, <2>2, <2>3
    <3>. QED
      BY <1>11, <2>3, <3>1, FS_EmptySet
  <2>4. CASE ~acknowledged[c]
    <3>1. Window!NewPositions(o, l) = o..(o + l - 1)
      BY <2>1, <2>2, <2>4 DEF ChunkPositions, o, l
    <3>2. Cardinality(o..(o + l - 1)) = l
      <4>1. o \in Int /\ o + l - 1 \in Int /\ ~(o > o + l - 1) /\ (o + l - 1) - o + 1 = l
        BY <1>1
      <4>. QED
        BY <4>1, FS_Interval
    <3>. QED
      BY <1>11, <2>4, <3>1, <3>2
  <2>. QED
    BY <2>3, <2>4
<1>13. data' = [i \in Position |-> IF i \in ChunkPositions(c) THEN Payload[i + 1] ELSE data[i]]
  BY <1>7, <1>11
<1>. QED
  BY <1>11, <1>12, <1>13 DEF l

(* With every chunk acknowledged one read hands out the payload.           *)
LEMMA OwnRead ==
  ASSUME Received, AllAcknowledged, read_offset = 0, output = <<>>,
         NEW n \in Nat, n >= PayloadLength, Window!Read(n)
  PROVE  window_status' = "OK" /\ output' = Payload
<1>1. PayloadLength \in Nat
  BY Lengths
<1>2. \A i \in Position : present[i] /\ data[i] = Payload[i + 1]
  BY ChunksCover DEF Received, AcknowledgedMeansReceived, AllAcknowledged
<1>3. PICK available \in 0..(PayloadLength - read_offset) :
        /\ Window!IsRun(available)
        /\ \/ available <= n /\ Window!ReadRun(available)
           \/ available > n /\ Window!ReadTooShort
  BY DEF Window!Read
<1>4. available = PayloadLength
  <2>1. available \in Nat /\ available <= PayloadLength /\ read_offset + available = available
    BY <1>1, <1>3
  <2>2. available < PayloadLength => ~present[available]
    BY <1>3, <2>1 DEF Window!IsRun
  <2>3. available < PayloadLength => available \in Position
    BY <1>1, <2>1 DEF Position
  <2>. QED
    BY <1>1, <1>2, <2>1, <2>2, <2>3
<1>5. Window!ReadRun(PayloadLength)
  BY <1>1, <1>3, <1>4
<1>. DEFINE run == [i \in 1..PayloadLength |-> data[read_offset + i - 1]]
<1>6. output' = output \o run /\ window_status' = "OK"
  BY <1>5 DEF Window!ReadRun
<1>7. run = Payload
  <2>1. \A i \in 1..PayloadLength : i - 1 \in Position /\ read_offset + i - 1 = i - 1
                                    /\ (i - 1) + 1 = i
    BY <1>1 DEF Position
  <2>2. run = [i \in 1..PayloadLength |-> Payload[i]]
    BY <1>2, <2>1
  <2>3. Payload = [i \in 1..PayloadLength |-> Payload[i]]
    BY DEF PayloadLength
  <2>. QED
    BY <2>2, <2>3
<1>. HIDE DEF run
<1>8. <<>> \o Payload = Payload
  OBVIOUS
<1>. QED
  BY <1>6, <1>7, <1>8

-----------------------------------------------------------------------------
(* What the steps with more than one outcome come to.                      *)

LEMMA Faults ==
  ASSUME Types
  PROVE  /\ Len(scenario.faults) \in Nat
         /\ scenario.initial_rto_ms \in 0..TimeMax
         /\ scenario.max_attempts \in Nat /\ scenario.output_capacity \in Nat
         /\ Fault = IF fault_index < Len(scenario.faults)
                      THEN scenario.faults[fault_index + 1] ELSE NoFault
         /\ Postponed(Fault) \in Nat
         /\ Postponed(Fault) # 0 => Fault.action \in {"DELAY", "REORDER"}
         /\ Fault.action # "DELIVER" => fault_index < Len(scenario.faults)
<1>1. /\ scenario.faults \in Seq(FaultAction)
      /\ scenario.initial_rto_ms \in 0..TimeMax
      /\ scenario.max_attempts \in Nat /\ scenario.output_capacity \in Nat
      /\ fault_index \in Nat /\ rto \in Nat
  BY ScenariosAssumption DEF Types
<1>2. Fault = IF fault_index < Len(scenario.faults)
                THEN scenario.faults[fault_index + 1] ELSE NoFault
  BY DEF Fault
<1>3. Len(scenario.faults) \in Nat
  BY <1>1
<1>4. Fault.delay_ms \in Nat
  <2>1. CASE fault_index < Len(scenario.faults)
    <3>1. fault_index + 1 \in 1..Len(scenario.faults)
      BY <1>1, <1>3, <2>1
    <3>2. scenario.faults[fault_index + 1] \in FaultAction
      BY <1>1, <3>1
    <3>. QED
      BY <1>2, <2>1, <3>2 DEF FaultAction
  <2>2. CASE ~(fault_index < Len(scenario.faults))
    BY <1>2, <2>2 DEF NoFault
  <2>. QED
    BY <2>1, <2>2
<1>5. Postponed(Fault) \in Nat
  <2>1. rto \div 2 \in Nat
    BY <1>1
  <2>. QED
    BY <1>4, <2>1 DEF Postponed
<1>6. Postponed(Fault) # 0 => Fault.action \in {"DELAY", "REORDER"}
  BY DEF Postponed
<1>7. Fault.action # "DELIVER" => fault_index < Len(scenario.faults)
  BY <1>2 DEF NoFault
<1>. QED
  BY <1>1, <1>2, <1>3, <1>5, <1>6, <1>7

(* A frame that arrives is accepted.                                       *)
LEMMA Delivered ==
  ASSUME MiniInv, DeliverFrame
  PROVE  /\ pc = "deliver"
         /\ \E e \in events :
              /\ IsNextEvent(e) /\ e.chunk \in Chunk /\ now' = e.due_ms
              /\ events' = events \ {e}
              /\ acknowledged' = [acknowledged EXCEPT ![e.chunk] = TRUE]
              /\ data' = [i \in Position |-> IF i \in ChunkPositions(e.chunk)
                                              THEN Payload[i + 1] ELSE data[i]]
              /\ present' = [i \in Position |-> i \in ChunkPositions(e.chunk) \/ present[i]]
         /\ UNCHANGED <<scenario, pc, status, attempt, chunk, fault_index, event_order, rto,
                        deadline, sockets, result, read_offset, output>>
<1>1. PICK e \in events :
        /\ IsNextEvent(e) /\ now' = e.due_ms
        /\ Window!Push(ChunkSeq(e.chunk), ChunkBytes(e.chunk))
        /\ \/ /\ PushAsExpected(e.chunk)
              /\ acknowledged' = [acknowledged EXCEPT ![e.chunk] = TRUE]
              /\ events' = TakeFromFlight(e)
              /\ UNCHANGED <<pc, status>>
           \/ ~PushAsExpected(e.chunk)
  BY DEF DeliverFrame
<1>2. /\ pc = "deliver"
      /\ UNCHANGED <<scenario, attempt, chunk, fault_index, event_order, rto, deadline, sockets,
                     result>>
  BY DEF DeliverFrame
<1>3. /\ Received /\ present \in [Position -> BOOLEAN] /\ acknowledged \in [Chunk -> BOOLEAN]
      /\ e.chunk \in Chunk
  BY DEF MiniInv, Types
<1>4. PayloadLength <= MaxPayload
  BY <1>2 DEF MiniInv, Lifecycle, Attempting, Admitted, WellFormed
<1>5. /\ window_status' = "OK"
      /\ accepted' = IF acknowledged[e.chunk] THEN 0 ELSE ChunkLength(e.chunk)
      /\ data' = [i \in Position |-> IF i \in ChunkPositions(e.chunk)
                                      THEN Payload[i + 1] ELSE data[i]]
      /\ present' = [i \in Position |-> i \in ChunkPositions(e.chunk) \/ present[i]]
      /\ UNCHANGED <<read_offset, output>>
  BY <1>1, <1>3, <1>4, OwnPush
<1>6. PushAsExpected(e.chunk)
  BY <1>5 DEF PushAsExpected
<1>7. /\ acknowledged' = [acknowledged EXCEPT ![e.chunk] = TRUE]
      /\ events' = events \ {e} /\ UNCHANGED <<pc, status>>
  BY <1>1, <1>6 DEF TakeFromFlight
<1>. QED
  BY <1>1, <1>2, <1>3, <1>5, <1>7

(* The read succeeds and hands out the payload.                            *)
LEMMA Finishes ==
  ASSUME MiniInv, Finish
  PROVE  /\ pc = "settle" /\ pc' = "cleanup" /\ status' = "OK" /\ output' = Payload
         /\ result' = [result EXCEPT !.reassembled_length = PayloadLength,
                                     !.virtual_elapsed_ms = now]
         /\ UNCHANGED <<data, present>>
         /\ UNCHANGED <<scenario, attempt, chunk, wire, clock, acknowledged, sockets>>
<1>1. /\ pc = "settle" /\ AllAcknowledged /\ Window!Read(scenario.output_capacity)
      /\ UNCHANGED <<scenario, attempt, chunk, wire, clock, acknowledged, sockets>>
      /\ \/ /\ window_status' = "OK" /\ Len(output') - Len(output) = PayloadLength
            /\ result' = [result EXCEPT !.reassembled_length = Len(output') - Len(output),
                                        !.virtual_elapsed_ms = now]
            /\ Leave("OK")
         \/ window_status' # "OK" \/ Len(output') - Len(output) # PayloadLength
  BY DEF Finish
<1>2. /\ Received /\ Types /\ output = <<>> /\ read_offset = 0
      /\ scenario.output_capacity >= PayloadLength
  BY <1>1 DEF MiniInv, Lifecycle, Attempting, Ending, Admitted
<1>3. window_status' = "OK" /\ output' = Payload
  BY <1>1, <1>2, Faults, OwnRead
<1>4. Len(output') - Len(output) = PayloadLength
  BY <1>2, <1>3, Lengths DEF PayloadLength
<1>5. UNCHANGED <<data, present>>
  BY <1>1 DEF Window!Read, Window!ReadRun, Window!ReadTooShort, Window!window
<1>. QED
  BY <1>1, <1>3, <1>4, <1>5 DEF Leave

-----------------------------------------------------------------------------
(* Each part of the invariant, step by step.  Quiet steps leave alone the  *)
(* frames in flight, the clock's hands and what has been acknowledged.     *)
Quiet ==
  Validate \/ SelectRoute \/ Handshake \/ OpenSockets \/ StartAttempt \/ GiveUp
    \/ SkipAcknowledged \/ AllSent \/ NothingDue \/ TimeOut \/ Cleanup

LEMMA Split ==
  ASSUME [Next]_vars
  PROVE  Quiet \/ SendChunk \/ DeliverFrame \/ DeliverFails \/ Finish \/ UNCHANGED vars
BY DEF Next, Steps, Quiet

LEMMA ResultFields ==
  ASSUME NEW r \in Result, NEW n \in Nat, NEW m \in Nat
  PROVE  /\ [r EXCEPT !.route_index = n] \in Result
         /\ [r EXCEPT !.attempts = n] \in Result
         /\ [r EXCEPT !.retransmits = n] \in Result
         /\ [r EXCEPT !.virtual_elapsed_ms = n] \in Result
         /\ [r EXCEPT !.reassembled_length = n, !.virtual_elapsed_ms = m] \in Result
BY DEF Result

LEMMA TypesStep ==
  ASSUME MiniInv, [Next]_vars
  PROVE  Types'
<1>. USE DEF Opening, Attempting, Ending, Leave, window, wire, clock
<1>1. /\ Types /\ scenario \in Scenarios /\ now \in 0..TimeMax /\ rto \in 0..TimeMax
      /\ deadline \in 0..TimeMax /\ attempt \in Nat /\ chunk \in Nat /\ fault_index \in Nat
      /\ event_order \in Nat /\ result \in Result
      /\ scenario.initial_rto_ms \in 0..TimeMax
  BY Faults DEF MiniInv, Types
<1>2. CASE Quiet
  <2>1. /\ UNCHANGED <<scenario, fault_index, event_order, events, acknowledged, present>>
        /\ pc' \in Opening \cup Attempting \cup Ending
        /\ attempt' \in {attempt, attempt + 1} /\ chunk' \in {0, chunk, chunk + 1}
        /\ now' \in {now, deadline} /\ deadline' \in {deadline, SatAdd(now, rto)}
        /\ rto' \in {rto, scenario.initial_rto_ms, SatDouble(rto)}
    BY <1>1, <1>2 DEF Quiet, Validate, SelectRoute, Handshake, OpenSockets, StartAttempt, GiveUp,
       SkipAcknowledged, AllSent, NothingDue, TimeOut, Cleanup, Types
  <2>2. SatAdd(now, rto) \in 0..TimeMax /\ SatDouble(rto) \in 0..TimeMax
    BY <1>1 DEF SatAdd, SatDouble
  <2>3. result' \in Result
    <3>1. CASE Handshake
      BY <1>1, <3>1 DEF Handshake, Result
    <3>2. CASE SelectRoute
      <4>1. CASE result' = result
        BY <1>1, <4>1
      <4>2. ASSUME NEW i \in 1..Len(scenario.routes),
                   result' = [result EXCEPT !.route_index = i]
            PROVE  result' \in Result
        <5>1. i \in Nat
          OBVIOUS
        <5>. QED
          BY <1>1, <4>2, <5>1, ResultFields
      <4>. QED
        BY <3>2, <4>1, <4>2 DEF SelectRoute
    <3>3. CASE StartAttempt \/ GiveUp
      <4>1. attempt + 1 \in Nat /\ now \in Nat
        BY <1>1
      <4>2. \/ result' = [result EXCEPT !.attempts = attempt + 1]
            \/ result' = [result EXCEPT !.virtual_elapsed_ms = now]
        BY <3>3 DEF StartAttempt, GiveUp
      <4>. QED
        BY <1>1, <4>1, <4>2, ResultFields
    <3>4. CASE result' = result
      BY <1>1, <3>4
    <3>. QED
      BY <1>2, <3>1, <3>2, <3>3, <3>4 DEF Quiet, Validate, OpenSockets, SkipAcknowledged,
         AllSent, NothingDue, TimeOut, Cleanup
  <2>4. attempt' \in Nat /\ chunk' \in Nat
    BY <1>1, <2>1
  <2>. QED
    BY <1>1, <2>1, <2>2, <2>3, <2>4 DEF Types
<1>3. CASE SendChunk
  <2>1. /\ pc' \in {pc, "cleanup"}
        /\ UNCHANGED <<scenario, attempt, now, rto, deadline, acknowledged, present>>
        /\ fault_index' = fault_index + 1 /\ event_order' \in {event_order, event_order + 1}
        /\ chunk' \in {chunk, chunk + 1}
        /\ events' \in {events, events \cup {Event(Fault)}}
        /\ events' # events => chunk < ChunkCount /\ TimeMax - now >= Postponed(Fault)
    BY <1>3 DEF SendChunk
  <2>2. result' \in Result
    <3>. DEFINE n == IF attempt = 0 THEN result.retransmits ELSE result.retransmits + 1
    <3>1. result' = [result EXCEPT !.retransmits = n]
      BY <1>3 DEF SendChunk
    <3>2. n \in Nat
      <4>1. result.retransmits \in Nat
        BY <1>1 DEF Result
      <4>. QED
        BY <4>1
    <3>. HIDE DEF n
    <3>. QED
      BY <1>1, <3>1, <3>2, ResultFields
  <2>3. IsFiniteSet(events')
    BY <1>1, <2>1, FS_AddElement DEF Types
  <2>4. ASSUME NEW e \in events'
        PROVE  e.chunk \in Chunk /\ e.due_ms \in 0..TimeMax /\ e.order \in Nat
    <3>1. CASE e \in events
      BY <1>1, <3>1 DEF Types
    <3>2. CASE e = Event(Fault) /\ e \notin events
      <4>1. chunk \in Chunk
        BY <1>1, <2>1, <2>4, <3>2, Lengths DEF Chunk
      <4>2. now + Postponed(Fault) \in 0..TimeMax
        <5>1. TimeMax - now >= Postponed(Fault) /\ Postponed(Fault) \in Nat
          BY <1>1, <2>1, <2>4, <3>2, Faults
        <5>. QED
          BY <1>1, <5>1
      <4>. QED
        BY <1>1, <3>2, <4>1, <4>2 DEF Event
    <3>. QED
      BY <2>1, <2>4, <3>1, <3>2
  <2>. QED
    BY <1>1, <2>1, <2>2, <2>3, <2>4 DEF Types
<1>4. CASE DeliverFrame
  <2>1. PICK e \in events :
          /\ e.chunk \in Chunk /\ now' = e.due_ms /\ events' = events \ {e}
          /\ acknowledged' = [acknowledged EXCEPT ![e.chunk] = TRUE]
          /\ present' = [i \in Position |-> i \in ChunkPositions(e.chunk) \/ present[i]]
    BY <1>4, Delivered
  <2>2. IsFiniteSet(events') /\ now' \in 0..TimeMax
    BY <1>1, <2>1, FS_RemoveElement DEF Types
  <2>3. acknowledged' \in [Chunk -> BOOLEAN] /\ present' \in [Position -> BOOLEAN]
    BY <1>1, <2>1 DEF Types
  <2>. QED
    BY <1>1, <1>4, <2>1, <2>2, <2>3, Delivered DEF Types
<1>5. CASE DeliverFails
  <2>1. now' \in 0..TimeMax
    BY <1>1, <1>5 DEF DeliverFails, Types
  <2>. QED
    BY <1>1, <1>5, <2>1 DEF DeliverFails, Types
<1>6. CASE Finish
  <2>1. result' \in Result
    <3>1. /\ now \in Nat /\ PayloadLength \in Nat
          /\ result' = [result EXCEPT !.reassembled_length = PayloadLength,
                                      !.virtual_elapsed_ms = now]
      BY <1>1, <1>6, Finishes, Lengths
    <3>. QED
      BY <1>1, <3>1, ResultFields
  <2>. QED
    BY <1>1, <1>6, <2>1, Finishes DEF Types
<1>7. CASE UNCHANGED vars
  BY <1>1, <1>7 DEF vars, Types
<1>. QED
  BY <1>2, <1>3, <1>4, <1>5, <1>6, <1>7, Split

LEMMA HandshakeEnds ==
  ASSUME NEW a, NEW b, Tcp!Accepts("CLOSED", "ACTIVE_OPEN", a),
         Tcp!Accepts(a, "RECEIVE_SYN_ACK", b)
  PROVE  b = "ESTABLISHED"
BY DEF Tcp!Accepts, Tcp!Transitions

LEMMA LifecycleStep ==
  ASSUME MiniInv, [Next]_vars
  PROVE  Lifecycle'
<1>. USE DEF Opening, Attempting, Ending, Leave, window, wire, clock, Opened, OwnFramesAccepted
<1>1. /\ Types /\ Lifecycle /\ rto \in Nat /\ now \in Nat /\ result \in Result
      /\ TimeMax \in Nat \ {0} /\ rto <= TimeMax
  BY DEF MiniInv, Types
<1>2. scenario' = scenario => (Admitted' <=> Admitted)
  BY DEF Admitted, WellFormed
<1>3. CASE Quiet
  <2>1. UNCHANGED <<scenario, output, read_offset>>
    BY <1>3 DEF Quiet, Validate, SelectRoute, Handshake, OpenSockets, StartAttempt, GiveUp,
       SkipAcknowledged, AllSent, NothingDue, TimeOut, Cleanup
  <2>2. CASE Validate
    BY <1>1, <1>2, <2>1, <2>2 DEF Validate, Lifecycle, Admitted
  <2>3. CASE SelectRoute
    <3>1. \/ result' = result
          \/ \E i : result' = [result EXCEPT !.route_index = i]
      BY <2>3 DEF SelectRoute
    <3>. QED
      BY <1>1, <1>2, <2>1, <2>3, <3>1 DEF SelectRoute, Lifecycle
  <2>4. CASE Handshake
    <3>1. result'.final_state = "ESTABLISHED"
      BY <1>1, <2>4, HandshakeEnds DEF Handshake, Result
    <3>2. rto' >= 1
      <4>1. scenario.initial_rto_ms \in Nat /\ scenario.initial_rto_ms # 0
        BY <1>1, <2>4, Faults DEF Handshake, Lifecycle, Admitted, WellFormed
      <4>. QED
        BY <2>4, <4>1 DEF Handshake
    <3>. QED
      BY <1>1, <1>2, <2>1, <2>4, <3>1, <3>2 DEF Handshake, Lifecycle
  <2>5. CASE OpenSockets
    BY <1>1, <1>2, <2>1, <2>5 DEF OpenSockets, Lifecycle
  <2>6. CASE StartAttempt \/ GiveUp
    <3>1. result'.final_state = result.final_state
      BY <1>1, <2>6 DEF StartAttempt, GiveUp, Result
    <3>. QED
      BY <1>1, <1>2, <2>1, <2>6, <3>1 DEF StartAttempt, GiveUp, Lifecycle
  <2>7. CASE SkipAcknowledged \/ AllSent \/ NothingDue
    BY <1>1, <1>2, <2>1, <2>7 DEF SkipAcknowledged, AllSent, NothingDue, Lifecycle
  <2>8. CASE TimeOut
    <3>1. rto >= 1 => rto' >= 1
      BY <1>1, <2>8 DEF TimeOut, SatDouble
    <3>. QED
      BY <1>1, <1>2, <2>1, <2>8, <3>1 DEF TimeOut, Lifecycle
  <2>9. CASE Cleanup
    BY <1>1, <1>2, <2>1, <2>9 DEF Cleanup, Lifecycle
  <2>. QED
    BY <1>3, <2>2, <2>3, <2>4, <2>5, <2>6, <2>7, <2>8, <2>9 DEF Quiet
<1>4. CASE SendChunk
  <2>1. /\ pc = "send" /\ UNCHANGED <<scenario, sockets, output, read_offset, rto>>
        /\ \/ UNCHANGED <<pc, status>>
           \/ pc' = "cleanup" /\ status' = "CAPACITY"
    BY <1>4 DEF SendChunk
  <2>2. result'.final_state = result.final_state
    BY <1>1, <1>4 DEF SendChunk, Result
  <2>. QED
    BY <1>1, <1>2, <2>1, <2>2 DEF Lifecycle
<1>5. CASE DeliverFrame
  BY <1>1, <1>2, <1>5, Delivered DEF Lifecycle
<1>6. CASE DeliverFails
  BY <1>1, <1>2, <1>6 DEF DeliverFails, Lifecycle
<1>7. CASE Finish
  <2>1. result'.final_state = result.final_state
    BY <1>1, <1>7, Finishes DEF Result
  <2>. QED
    BY <1>1, <1>2, <1>7, <2>1, Finishes DEF Lifecycle
<1>8. CASE UNCHANGED vars
  BY <1>1, <1>2, <1>8 DEF vars, Lifecycle
<1>. QED
  BY <1>3, <1>4, <1>5, <1>6, <1>7, <1>8, Split

(* The clock's hands: deliveries follow the order of due times, and an     *)
(* attempt ends with nothing due before its deadline.                      *)
LEMMA ClockStep ==
  ASSUME MiniInv, [Next]_vars
  PROVE  Clock' /\ now <= now'
<1>. USE DEF Opening, Attempting, Ending, Leave, window, wire, clock, Sending, Due
<1>1. /\ Types /\ Clock /\ Lifecycle /\ rto \in Nat /\ now \in Nat /\ deadline \in Nat
      /\ TimeMax \in Nat /\ now <= TimeMax /\ \A e \in events : e.due_ms \in Nat
  BY DEF MiniInv, Types
<1>2. CASE Quiet
  <2>1. CASE Validate \/ SelectRoute \/ Handshake \/ OpenSockets
    BY <1>1, <2>1 DEF Validate, SelectRoute, Handshake, OpenSockets, Clock
  <2>2. CASE StartAttempt
    <3>1. /\ now <= SatAdd(now, rto)
          /\ now < TimeMax => now < SatAdd(now, rto)
      BY <1>1, <2>2 DEF SatAdd, StartAttempt, Lifecycle
    <3>. QED
      BY <1>1, <2>2, <3>1 DEF StartAttempt, Clock
  <2>3. CASE GiveUp \/ Cleanup
    BY <1>1, <2>3 DEF GiveUp, Cleanup, Clock
  <2>4. CASE SkipAcknowledged \/ AllSent \/ NothingDue
    BY <1>1, <2>4 DEF SkipAcknowledged, AllSent, NothingDue, Clock
  <2>5. CASE TimeOut
    <3>1. \A e \in events : e.due_ms >= deadline
      BY <1>1, <2>5 DEF TimeOut, Clock
    <3>. QED
      BY <1>1, <2>5, <3>1 DEF TimeOut, Clock
  <2>. QED
    BY <1>2, <2>1, <2>2, <2>3, <2>4, <2>5 DEF Quiet
<1>3. CASE SendChunk
  <2>1. /\ pc = "send" /\ UNCHANGED <<now, deadline>> /\ pc' \in {"send", "cleanup"}
        /\ events' \in {events, events \cup {Event(Fault)}}
    BY <1>3 DEF SendChunk
  <2>2. Event(Fault).due_ms >= now
    BY <1>1, Faults DEF Event
  <2>. QED
    BY <1>1, <2>1, <2>2 DEF Clock
<1>4. CASE DeliverFrame
  <2>1. PICK e \in events : IsNextEvent(e) /\ now' = e.due_ms /\ events' = events \ {e}
    BY <1>4, Delivered
  <2>2. \A f \in events : f.due_ms >= e.due_ms
    <3>1. ASSUME NEW f \in events, f.due_ms < deadline
          PROVE  f.due_ms >= e.due_ms
      BY <1>1, <2>1, <3>1 DEF IsNextEvent
    <3>. QED
      BY <1>1, <2>1, <3>1 DEF IsNextEvent
  <2>3. e.due_ms < deadline
    BY <2>1 DEF IsNextEvent
  <2>. QED
    BY <1>1, <1>4, <2>1, <2>2, <2>3, Delivered DEF Clock
<1>5. CASE DeliverFails
  BY <1>1, <1>5 DEF DeliverFails, Clock
<1>6. CASE Finish
  BY <1>1, <1>6, Finishes DEF Clock
<1>7. CASE UNCHANGED vars
  BY <1>1, <1>7 DEF vars, Clock
<1>. QED
  BY <1>2, <1>3, <1>4, <1>5, <1>6, <1>7, Split

(* What the window holds changes with a delivery only, by one whole chunk. *)
LEMMA ReceivedStep ==
  ASSUME MiniInv, [Next]_vars
  PROVE  Received'
<1>. USE DEF window, wire, clock
<1>1. /\ Types /\ Received /\ acknowledged \in [Chunk -> BOOLEAN]
      /\ present \in [Position -> BOOLEAN]
  BY DEF MiniInv, Types
<1>2. CASE UNCHANGED <<data, present, acknowledged>>
  BY <1>1, <1>2 DEF Received, AcknowledgedMeansReceived
<1>3. CASE DeliverFrame
  <2>1. PICK e \in events :
          /\ e.chunk \in Chunk
          /\ acknowledged' = [acknowledged EXCEPT ![e.chunk] = TRUE]
          /\ data' = [i \in Position |-> IF i \in ChunkPositions(e.chunk)
                                          THEN Payload[i + 1] ELSE data[i]]
          /\ present' = [i \in Position |-> i \in ChunkPositions(e.chunk) \/ present[i]]
    BY <1>3, Delivered
  <2>2. ASSUME NEW i \in Position, present'[i]
        PROVE  data'[i] = Payload[i + 1]
    BY <1>1, <2>1, <2>2 DEF Received
  <2>3. ASSUME NEW c \in Chunk, NEW i \in ChunkPositions(c)
        PROVE  present'[i] <=> acknowledged'[c]
    <3>1. i \in Position
      BY ChunkInPosition
    <3>2. present[i] <=> acknowledged[c]
      BY <1>1 DEF Received, AcknowledgedMeansReceived
    <3>3. i \in ChunkPositions(e.chunk) <=> c = e.chunk
      BY <2>1, ChunksDisjoint
    <3>4. present'[i] <=> i \in ChunkPositions(e.chunk) \/ present[i]
      BY <2>1, <3>1
    <3>5. acknowledged'[c] <=> c = e.chunk \/ acknowledged[c]
      BY <1>1, <2>1
    <3>. QED
      BY <3>2, <3>3, <3>4, <3>5
  <2>. QED
    BY <2>2, <2>3 DEF Received, AcknowledgedMeansReceived
<1>4. ASSUME ~DeliverFrame
      PROVE  UNCHANGED <<data, present, acknowledged>>
  <2>1. CASE Quiet
    BY <2>1 DEF Quiet, Validate, SelectRoute, Handshake, OpenSockets, StartAttempt, GiveUp,
       SkipAcknowledged, AllSent, NothingDue, TimeOut, Cleanup
  <2>2. CASE SendChunk \/ DeliverFails
    BY <2>2 DEF SendChunk, DeliverFails
  <2>3. CASE Finish
    BY <2>3, Finishes
  <2>4. CASE UNCHANGED vars
    BY <2>4 DEF vars
  <2>. QED
    BY <1>4, <2>1, <2>2, <2>3, <2>4, Split
<1>. QED
  BY <1>2, <1>3, <1>4

(* The frames in flight are the delayed ones and the immediate ones.       *)
LEMMA QueueParts ==
  ASSUME Types
  PROVE  /\ IsFiniteSet(Immediate) /\ IsFiniteSet(Delayed)
         /\ Cardinality(Immediate) \in Nat /\ Cardinality(Delayed) \in Nat
         /\ Cardinality(events) = Cardinality(Immediate) + Cardinality(Delayed)
<1>1. IsFiniteSet(events) /\ Immediate \in SUBSET events /\ Delayed \in SUBSET events
  BY DEF Types, Immediate, Delayed
<1>2. IsFiniteSet(Immediate) /\ IsFiniteSet(Delayed)
  BY <1>1, FS_Subset
<1>3. Cardinality(Immediate) \in Nat /\ Cardinality(Delayed) \in Nat
  BY <1>2, FS_CardinalityType
<1>4. events = Immediate \cup Delayed /\ Immediate \cap Delayed = {}
  BY DEF Immediate, Delayed
<1>5. Cardinality(events) = Cardinality(Immediate) + Cardinality(Delayed) - Cardinality({})
  BY <1>2, <1>4, FS_Union
<1>. QED
  BY <1>2, <1>3, <1>5, FS_EmptySet

(* A frame to send finds a free slot: at most one frame in flight for each *)
(* fault action, and one for each chunk sent before this one.              *)
LEMMA RoomToSend ==
  ASSUME MiniInv, pc = "send", chunk < ChunkCount, now < TimeMax
  PROVE  Cardinality(events) < MaxEvents
<1>1. /\ Types /\ chunk \in Nat /\ ChunkCount \in Nat /\ MaxChunks \in Nat
      /\ MaxFaultActions \in Nat
  BY Lengths DEF MiniInv, Types
<1>2. Len(scenario.faults) <= MaxFaultActions /\ ChunkCount <= MaxChunks
  BY ChunkBound DEF MiniInv, Lifecycle, Attempting, Admitted, WellFormed
<1>3. Cardinality(Delayed) <= Len(scenario.faults) /\ Cardinality(Immediate) <= chunk
  BY DEF MiniInv, Flight, Attempting
<1>4. /\ Cardinality(Immediate) \in Nat /\ Cardinality(Delayed) \in Nat
      /\ Cardinality(events) = Cardinality(Immediate) + Cardinality(Delayed)
      /\ Len(scenario.faults) \in Nat
  BY <1>1, QueueParts, Faults
<1>. QED
  BY <1>1, <1>2, <1>3, <1>4 DEF MaxEvents

LEMMA QueueStep ==
  ASSUME MiniInv, [Next]_vars
  PROVE  QueueNeverFills'
<1>. USE DEF Opening, Attempting, Ending, Leave, window, wire, clock, Opened
<1>1. Types /\ Lifecycle /\ QueueNeverFills
  BY DEF MiniInv, Flight
<1>2. CASE Quiet
  <2>1. CASE Cleanup
    BY <1>1, <2>1 DEF Cleanup, QueueNeverFills, Postponed
  <2>2. CASE ~Cleanup
    <3>1. ~(Opened' /\ status' = "CAPACITY")
      BY <1>1, <1>2, <2>2 DEF Quiet, Validate, SelectRoute, Handshake, OpenSockets, StartAttempt,
         GiveUp, SkipAcknowledged, AllSent, NothingDue, TimeOut, Lifecycle
    <3>. QED
      BY <3>1 DEF QueueNeverFills
  <2>. QED
    BY <2>1, <2>2
<1>3. CASE SendChunk
  <2>1. /\ pc = "send" /\ chunk < ChunkCount /\ fault_index' = fault_index + 1
        /\ UNCHANGED <<scenario, now, rto>>
        /\ \/ UNCHANGED status
           \/ TimeMax - now < Postponed(Fault)
           \/ Cardinality(events) = MaxEvents
    BY <1>3 DEF SendChunk
  <2>2. CASE UNCHANGED status
    BY <1>1, <2>1, <2>2 DEF Lifecycle, QueueNeverFills
  <2>3. CASE TimeMax - now < Postponed(Fault)
    <3>1. now \in 0..TimeMax /\ TimeMax \in Nat /\ fault_index \in Nat
      BY <1>1 DEF Types
    <3>2. fault_index < Len(scenario.faults) /\ Len(scenario.faults) \in Nat
      BY <1>1, <2>3, <3>1, Faults
    <3>3. fault_index' \in 1..Len(scenario.faults) /\ Fault = scenario.faults[fault_index']
      BY <1>1, <2>1, <3>1, <3>2, Faults
    <3>4. Postponed(scenario.faults[fault_index])' = Postponed(Fault)
      BY <2>1, <3>3 DEF Postponed
    <3>. QED
      BY <2>1, <2>3, <3>3, <3>4 DEF QueueNeverFills
  <2>4. CASE Cardinality(events) = MaxEvents
    <3>1. ~(now < TimeMax)
      <4>1. now < TimeMax => Cardinality(events) < MaxEvents
        BY <2>1, RoomToSend
      <4>2. MaxEvents \in Nat
        BY Lengths DEF MaxEvents
      <4>. QED
        BY <2>4, <4>1, <4>2
    <3>. QED
      BY <2>1, <3>1 DEF QueueNeverFills
  <2>. QED
    BY <2>1, <2>2, <2>3, <2>4
<1>4. CASE DeliverFrame
  BY <1>1, <1>4, Delivered DEF Lifecycle, QueueNeverFills
<1>5. CASE DeliverFails
  BY <1>5 DEF DeliverFails, QueueNeverFills
<1>6. CASE Finish
  BY <1>6, Finishes DEF QueueNeverFills
<1>7. CASE UNCHANGED vars
  BY <1>1, <1>7 DEF vars, QueueNeverFills, Postponed
<1>. QED
  BY <1>2, <1>3, <1>4, <1>5, <1>6, <1>7, Split

LEMMA OneMore ==
  ASSUME NEW S, NEW x, IsFiniteSet(S)
  PROVE  Cardinality(S \cup {x}) \in {Cardinality(S), Cardinality(S) + 1}
BY FS_AddElement

(* The queue: a frame that no fault touched leaves it within its attempt.  *)
LEMMA FlightStep ==
  ASSUME MiniInv, [Next]_vars
  PROVE  Flight'
<1>. USE DEF Opening, Attempting, Ending, Leave, window, wire, clock
<1>1. /\ Types /\ Lifecycle /\ Clock /\ Flight
      /\ now \in Nat /\ now' \in Nat /\ TimeMax \in Nat /\ now <= now' /\ deadline \in Nat
      /\ chunk \in Nat /\ fault_index \in Nat /\ ChunkCount \in Nat
  BY ClockStep, TypesStep, Lengths DEF MiniInv, Types
<1>2. QueueNeverFills'
  BY QueueStep
<1>3. /\ IsFiniteSet(Immediate) /\ IsFiniteSet(Delayed)
      /\ Cardinality(Immediate) \in Nat /\ Cardinality(Delayed) \in Nat
      /\ Len(scenario.faults) \in Nat
  BY <1>1, QueueParts, Faults
<1>4. ASSUME UNCHANGED events
      PROVE  UNCHANGED <<Immediate, Delayed>>
  BY <1>4 DEF Immediate, Delayed
<1>5. CASE Quiet
  <2>1. UNCHANGED <<scenario, fault_index, events>>
    BY <1>5 DEF Quiet, Validate, SelectRoute, Handshake, OpenSockets, StartAttempt, GiveUp,
       SkipAcknowledged, AllSent, NothingDue, TimeOut, Cleanup
  <2>2. UNCHANGED <<Immediate, Delayed>>
    BY <1>4, <2>1
  <2>3. CASE Validate \/ SelectRoute \/ Handshake
    BY <1>1, <1>2, <2>1, <2>3 DEF Validate, SelectRoute, Handshake, Flight
  <2>4. CASE OpenSockets
    <3>1. Immediate = {} /\ Delayed = {} /\ fault_index = 0
      BY <1>1, <2>4 DEF OpenSockets, Clock, Flight, Immediate, Delayed
    <3>2. Cardinality(Delayed) = 0
      BY <3>1, FS_EmptySet
    <3>. QED
      BY <1>1, <1>2, <1>3, <2>1, <2>2, <2>4, <3>1, <3>2 DEF OpenSockets, Flight
  <2>5. CASE StartAttempt
    <3>1. now < TimeMax => Immediate = {} /\ Cardinality(Immediate) = 0
      BY <1>1, <2>5, FS_EmptySet DEF StartAttempt, Flight
    <3>2. pc' = "send" /\ chunk' = 0 /\ UNCHANGED now
      BY <2>5 DEF StartAttempt
    <3>. QED
      BY <1>1, <1>2, <2>1, <2>2, <2>5, <3>1, <3>2 DEF StartAttempt, Flight
  <2>6. CASE GiveUp \/ Cleanup
    BY <1>1, <1>2, <2>6 DEF GiveUp, Cleanup, Flight
  <2>7. CASE SkipAcknowledged
    <3>1. /\ pc = "send" /\ pc' = "send" /\ chunk' = chunk + 1 /\ chunk < ChunkCount
          /\ UNCHANGED <<now, deadline>>
      BY <2>7 DEF SkipAcknowledged
    <3>. QED
      BY <1>1, <1>2, <1>3, <2>1, <2>2, <3>1 DEF Flight
  <2>8. CASE AllSent
    BY <1>1, <1>2, <2>1, <2>2, <2>8 DEF AllSent, Flight
  <2>9. CASE NothingDue
    <3>1. now < TimeMax => Immediate = {}
      BY <1>1, <2>9 DEF NothingDue, Flight, Due, Immediate
    <3>. QED
      BY <1>1, <1>2, <2>1, <2>2, <2>9, <3>1 DEF NothingDue, Flight
  <2>10. CASE TimeOut
    BY <1>1, <1>2, <2>1, <2>2, <2>10 DEF TimeOut, Flight
  <2>. QED
    BY <1>5, <2>3, <2>4, <2>5, <2>6, <2>7, <2>8, <2>9, <2>10 DEF Quiet
<1>6. CASE SendChunk
  <2>1. /\ pc = "send" /\ chunk < ChunkCount /\ fault_index' = fault_index + 1
        /\ UNCHANGED <<scenario, now, rto, deadline>>
        /\ \/ pc' = "cleanup"
           \/ pc' = "send" /\ chunk' = chunk + 1 /\ UNCHANGED events
           \/ pc' = "send" /\ chunk' = chunk + 1 /\ events' = events \cup {Event(Fault)}
    BY <1>6 DEF SendChunk
  <2>2. CASE pc' = "cleanup"
    BY <1>2, <2>2 DEF Flight
  <2>3. CASE pc' = "send" /\ chunk' = chunk + 1 /\ UNCHANGED events
    BY <1>1, <1>2, <1>3, <1>4, <2>1, <2>3 DEF Flight
  <2>4. CASE pc' = "send" /\ chunk' = chunk + 1 /\ events' = events \cup {Event(Fault)}
    <3>1. /\ Event(Fault).action = Fault.action
          /\ Fault.action = "DELIVER" => Event(Fault).due_ms = now
      BY <1>1 DEF Event, Postponed
    <3>2. CASE Fault.action = "DELIVER"
      <4>1. Immediate' = Immediate \cup {Event(Fault)} /\ Delayed' = Delayed
        BY <2>4, <3>1, <3>2 DEF Immediate, Delayed
      <4>2. Cardinality(Immediate') \in {Cardinality(Immediate), Cardinality(Immediate) + 1}
        BY <1>3, <4>1, OneMore
      <4>3. /\ Cardinality(Immediate') \in Nat
            /\ Cardinality(Immediate') <= Cardinality(Immediate) + 1
        BY <1>3, <4>2
      <4>4. now < TimeMax => \A e \in Immediate' : e.due_ms < deadline
        BY <1>1, <2>1, <3>1, <3>2, <4>1 DEF Flight, Clock
      <4>5. Cardinality(Delayed') <= fault_index' /\ Cardinality(Delayed') <= Len(scenario.faults)
        BY <1>1, <1>3, <2>1, <4>1 DEF Flight
      <4>6. now < TimeMax => Cardinality(Immediate') <= chunk'
        BY <1>1, <1>3, <2>1, <2>4, <4>3 DEF Flight
      <4>. QED
        BY <1>1, <1>2, <2>1, <2>4, <4>4, <4>5, <4>6 DEF Flight
    <3>3. CASE Fault.action # "DELIVER"
      <4>1. Immediate' = Immediate /\ Delayed' = Delayed \cup {Event(Fault)}
        BY <2>4, <3>1, <3>3 DEF Immediate, Delayed
      <4>2. /\ Cardinality(Delayed') \in Nat
            /\ Cardinality(Delayed') <= Cardinality(Delayed) + 1
        <5>1. Cardinality(Delayed') \in {Cardinality(Delayed), Cardinality(Delayed) + 1}
          BY <1>3, <4>1, OneMore
        <5>. QED
          BY <1>3, <5>1
      <4>3. fault_index < Len(scenario.faults)
        BY <1>1, <3>3, Faults
      <4>4. Cardinality(Delayed') <= fault_index' /\ Cardinality(Delayed') <= Len(scenario.faults)
        BY <1>1, <1>3, <2>1, <4>2, <4>3 DEF Flight
      <4>5. now < TimeMax => /\ Cardinality(Immediate') <= chunk'
                             /\ \A e \in Immediate' : e.due_ms < deadline
        BY <1>1, <1>3, <2>1, <2>4, <4>1 DEF Flight
      <4>. QED
        BY <1>1, <1>2, <2>1, <2>4, <4>4, <4>5 DEF Flight
    <3>. QED
      BY <3>2, <3>3
  <2>. QED
    BY <2>1, <2>2, <2>3, <2>4
<1>7. CASE DeliverFrame
  <2>1. /\ pc = "deliver" /\ pc' = "deliver"
        /\ UNCHANGED <<scenario, chunk, fault_index, deadline>>
        /\ \E e \in events : events' = events \ {e}
    BY <1>7, Delivered
  <2>2. Immediate' \in SUBSET Immediate /\ Delayed' \in SUBSET Delayed
    BY <2>1 DEF Immediate, Delayed
  <2>3. Cardinality(Delayed') <= Cardinality(Delayed) /\ Cardinality(Delayed') \in Nat
    BY <1>3, <2>2, FS_Subset, FS_CardinalityType
  <2>. QED
    BY <1>1, <1>2, <1>3, <2>1, <2>2, <2>3 DEF Flight
<1>8. CASE DeliverFails
  BY <1>2, <1>8 DEF DeliverFails, Flight
<1>9. CASE Finish
  BY <1>2, <1>9, Finishes DEF Flight
<1>10. CASE UNCHANGED vars
  BY <1>1, <1>2, <1>4, <1>10 DEF vars, Flight
<1>. QED
  BY <1>5, <1>6, <1>7, <1>8, <1>9, <1>10, Split

(* An attempt that leaves a chunk behind has used a fault action up on it. *)
LEMMA ProgressStep ==
  ASSUME MiniInv, [Next]_vars
  PROVE  Progress'
<1>. USE DEF Opening, Attempting, Ending, Leave, window, wire, clock, Sending
<1>1. /\ Types /\ Lifecycle /\ Clock /\ Flight /\ Progress
      /\ now \in Nat /\ now' \in Nat /\ TimeMax \in Nat /\ now <= now' /\ deadline \in Nat
      /\ chunk \in Nat /\ fault_index \in Nat /\ ChunkCount \in Nat /\ attempt \in Nat
      /\ Len(scenario.faults) \in Nat /\ scenario.max_attempts \in Nat
  BY ClockStep, TypesStep, Lengths, Faults DEF MiniInv, Types
<1>2. ASSUME UNCHANGED events
      PROVE  UNCHANGED Immediate
  BY <1>2 DEF Immediate
<1>3. CASE Quiet
  <2>1. UNCHANGED <<scenario, fault_index, events, acknowledged>>
    BY <1>3 DEF Quiet, Validate, SelectRoute, Handshake, OpenSockets, StartAttempt, GiveUp,
       SkipAcknowledged, AllSent, NothingDue, TimeOut, Cleanup
  <2>2. UNCHANGED Immediate
    BY <1>2, <2>1
  <2>3. CASE Validate \/ SelectRoute \/ Handshake \/ OpenSockets
    BY <1>1, <2>1, <2>3 DEF Validate, SelectRoute, Handshake, OpenSockets, Progress,
       ExhaustionNeedsFaults, Flight, Spent, Lifecycle
  <2>4. CASE StartAttempt
    <3>1. \A c \in Chunk : ~(c < 0)
      BY Lengths DEF Chunk
    <3>. QED
      BY <1>1, <2>1, <2>4, <3>1 DEF StartAttempt, Progress, ExhaustionNeedsFaults, Spent, Lifecycle
  <2>5. CASE GiveUp
    BY <1>1, <2>1, <2>5 DEF GiveUp, Progress, ExhaustionNeedsFaults, Spent
  <2>6. CASE Cleanup
    BY <1>1, <2>1, <2>6 DEF Cleanup, Progress, ExhaustionNeedsFaults
  <2>7. CASE SkipAcknowledged
    <3>1. /\ pc = "send" /\ pc' = "send" /\ chunk' = chunk + 1 /\ chunk < ChunkCount
          /\ acknowledged[chunk] /\ UNCHANGED <<now, attempt, status>>
      BY <2>7 DEF SkipAcknowledged
    <3>2. ASSUME NEW c \in Chunk, c < chunk'
          PROVE  c < chunk \/ acknowledged[c]
      BY <1>1, <3>1, <3>2, Lengths DEF Chunk
    <3>. QED
      BY <1>1, <2>1, <2>2, <3>1, <3>2 DEF Progress, ExhaustionNeedsFaults, Spent
  <2>8. CASE AllSent \/ NothingDue
    BY <1>1, <2>1, <2>2, <2>8 DEF AllSent, NothingDue, Progress, ExhaustionNeedsFaults, Spent
  <2>9. CASE TimeOut
    <3>1. /\ pc = "settle" /\ pc' = "attempt" /\ attempt' = attempt + 1 /\ ~AllAcknowledged
          /\ UNCHANGED status
      BY <2>9 DEF TimeOut
    <3>2. PICK c \in Chunk : ~acknowledged[c]
      BY <3>1 DEF AllAcknowledged
    <3>3. c < ChunkCount
      BY Lengths DEF Chunk
    <3>4. now < TimeMax => Spent(attempt + 1)
      BY <1>1, <3>1, <3>2, <3>3 DEF Flight, Progress
    <3>. QED
      BY <1>1, <2>1, <3>1, <3>4 DEF Progress, ExhaustionNeedsFaults, Spent, Lifecycle
  <2>. QED
    BY <1>3, <2>3, <2>4, <2>5, <2>6, <2>7, <2>8, <2>9 DEF Quiet
<1>4. CASE SendChunk
  <2>1. /\ pc = "send" /\ chunk < ChunkCount /\ fault_index' = fault_index + 1
        /\ UNCHANGED <<scenario, now, attempt, acknowledged>>
        /\ \/ pc' = "cleanup" /\ status' = "CAPACITY"
           \/ /\ pc' = "send" /\ UNCHANGED <<status, events>>
              /\ Fault.action = "DROP"
           \/ /\ pc' = "send" /\ chunk' = chunk + 1 /\ UNCHANGED status
              /\ events' = events \cup {Event(Fault)}
    BY <1>4 DEF SendChunk
  <2>2. CASE pc' = "cleanup" /\ status' = "CAPACITY"
    BY <2>2 DEF Progress, ExhaustionNeedsFaults
  <2>3. status = "RUNNING"
    BY <1>1, <2>1 DEF Lifecycle
  <2>4. CASE pc' = "send" /\ UNCHANGED status /\ Fault.action # "DELIVER"
    <3>1. fault_index < Len(scenario.faults)
      BY <1>1, <2>4, Faults
    <3>2. now < TimeMax => Spent(attempt)
      BY <1>1, <2>1 DEF Progress
    <3>3. now < TimeMax => Spent(attempt + 1)' /\ Spent(attempt)'
      BY <1>1, <2>1, <3>1, <3>2 DEF Spent
    <3>. QED
      BY <2>1, <2>3, <2>4, <3>3 DEF Progress, ExhaustionNeedsFaults
  <2>5. CASE /\ pc' = "send" /\ chunk' = chunk + 1 /\ UNCHANGED status
             /\ events' = events \cup {Event(Fault)} /\ Fault.action = "DELIVER"
    <3>1. Immediate' = Immediate \cup {Event(Fault)} /\ Event(Fault).chunk = chunk
      BY <2>5 DEF Immediate, Event
    <3>2. now < TimeMax => Spent(attempt)'
      BY <1>1, <2>1 DEF Progress, Spent
    <3>3. Spent(attempt + 1) => Spent(attempt + 1)'
      BY <1>1, <2>1 DEF Spent
    <3>4. ASSUME NEW c \in Chunk, c < chunk'
          PROVE  c < chunk \/ c = chunk
      BY <1>1, <2>5, <3>4, Lengths DEF Chunk
    <3>5. now < TimeMax => \/ Spent(attempt + 1)'
                           \/ \A c \in Chunk : c < chunk' =>
                                acknowledged'[c] \/ \E e \in Immediate' : e.chunk = c
      BY <1>1, <2>1, <3>1, <3>3, <3>4 DEF Progress
    <3>. QED
      BY <2>1, <2>3, <2>5, <3>2, <3>5 DEF Progress, ExhaustionNeedsFaults
  <2>. QED
    BY <2>1, <2>2, <2>4, <2>5
<1>5. CASE DeliverFrame
  <2>1. /\ pc = "deliver" /\ pc' = "deliver"
        /\ UNCHANGED <<scenario, chunk, fault_index, attempt, status>>
        /\ \E e \in events : /\ events' = events \ {e} /\ e.chunk \in Chunk
                             /\ acknowledged' = [acknowledged EXCEPT ![e.chunk] = TRUE]
    BY <1>5, Delivered
  <2>2. acknowledged \in [Chunk -> BOOLEAN]
    BY <1>1 DEF Types
  <2>3. ASSUME NEW c \in Chunk, acknowledged[c] \/ \E e \in Immediate : e.chunk = c
        PROVE  acknowledged'[c] \/ \E e \in Immediate' : e.chunk = c
    BY <2>1, <2>2, <2>3 DEF Immediate
  <2>. QED
    BY <1>1, <2>1, <2>3 DEF Progress, ExhaustionNeedsFaults, Spent, Lifecycle
<1>6. CASE DeliverFails
  BY <1>6 DEF DeliverFails, Progress, ExhaustionNeedsFaults
<1>7. CASE Finish
  BY <1>7, Finishes DEF Progress, ExhaustionNeedsFaults
<1>8. CASE UNCHANGED vars
  BY <1>1, <1>2, <1>8 DEF vars, Progress, ExhaustionNeedsFaults, Spent
<1>. QED
  BY <1>3, <1>4, <1>5, <1>6, <1>7, <1>8, Split

-----------------------------------------------------------------------------
LEMMA MiniInit ==
  ASSUME Init
  PROVE  MiniInv
<1>. USE DEF Init, Opening, Attempting, Ending, Opened, Sending
<1>1. result \in Result /\ result.final_state \in Tcp!TcpState
  BY DEF Result, Tcp!TcpState
<1>2. IsFiniteSet(events) /\ Cardinality(Delayed) = 0
  BY FS_EmptySet DEF Delayed
<1>3. Types
  BY <1>1, <1>2, SizesAssumption DEF Types
<1>4. Lifecycle
  BY DEF Lifecycle, OwnFramesAccepted
<1>5. Clock
  BY DEF Clock
<1>6. Flight
  BY DEF Flight, QueueNeverFills
<1>7. Progress
  BY DEF Progress, ExhaustionNeedsFaults
<1>8. Received
  <2>1. \A c \in Chunk : \A i \in ChunkPositions(c) : i \in Position
    BY ChunkInPosition
  <2>. QED
    BY <2>1 DEF Received, AcknowledgedMeansReceived
<1>. QED
  BY <1>3, <1>4, <1>5, <1>6, <1>7, <1>8 DEF MiniInv

(* MiniInv is inductive: whatever the scenario, the payload and the clock. *)
THEOREM MiniInvariant == Spec => []MiniInv
<1>1. Init => MiniInv
  BY MiniInit
<1>2. MiniInv /\ [Next]_vars => MiniInv'
  BY TypesStep, LifecycleStep, ClockStep, FlightStep, ProgressStep, ReceivedStep DEF MiniInv
<1>. QED
  BY <1>1, <1>2, PTL DEF Spec

(* The two records of progress agree (tcpip_linux_l03_run, deliver): a     *)
(* chunk is acknowledged exactly when all its bytes are in the window, and *)
(* none is ever there in part.                                             *)
THEOREM AcknowledgedChunksAreReceived == Spec => []AcknowledgedMeansReceived
<1>1. MiniInv => AcknowledgedMeansReceived
  BY DEF MiniInv, Received
<1>. QED
  BY <1>1, MiniInvariant, PTL

(* The receiver rejects no frame this sender built: after the socket pair  *)
(* is open the call never ends in MALFORMED, although the code has three   *)
(* ways to get there.                                                      *)
THEOREM OwnFramesAreAccepted == Spec => []OwnFramesAccepted
<1>1. MiniInv => OwnFramesAccepted
  BY DEF MiniInv, Lifecycle
<1>. QED
  BY <1>1, MiniInvariant, PTL

(* MaxFaultActions + MaxChunks slots are enough (the event array of        *)
(* tcpip_linux_l03_run): short of the end of the clock, CAPACITY means a   *)
(* due time that does not fit it.                                          *)
THEOREM QueueHasRoom == Spec => []QueueNeverFills
<1>1. MiniInv => QueueNeverFills
  BY DEF MiniInv, Flight
<1>. QED
  BY <1>1, MiniInvariant, PTL

(* No frame in flight is due in the past (next_event).                     *)
THEOREM FramesAreDueFromNowOn == Spec => []NothingDueInThePast
<1>1. MiniInv => NothingDueInThePast
  BY DEF MiniInv, Clock, NothingDueInThePast, Sending, Attempting
<1>. QED
  BY <1>1, MiniInvariant, PTL

(* Virtual time only advances: each step of tcpip_linux_l03_run sets now   *)
(* to a due time or a deadline that is not behind it.                      *)
THEOREM ClockNeverGoesBack == Spec => [][now <= now']_vars
<1>1. MiniInv /\ [Next]_vars => [now <= now']_vars
  BY ClockStep
<1>. QED
  BY <1>1, MiniInvariant, PTL DEF Spec

(* Running out of attempts takes a fault action per attempt: a caller who  *)
(* allows more attempts than it has faults gets its payload through.       *)
THEOREM OnlyFaultsExhaustAttempts == Spec => []ExhaustionNeedsFaults
<1>1. MiniInv => ExhaustionNeedsFaults
  BY DEF MiniInv, Progress
<1>. QED
  BY <1>1, MiniInvariant, PTL

(* However the call ends (goto cleanup), no descriptor is left open, a     *)
(* status is decided, and ESTABLISHED is kept once it was reached.         *)
THEOREM CallReturnsCleanly == Spec => []ReturnsCleanly
<1>1. MiniInv => ReturnsCleanly
  BY DEF MiniInv, Lifecycle, ReturnsCleanly, Ending, Opened
<1>. QED
  BY <1>1, MiniInvariant, PTL

(* The call is decided once: after its status is set only cleanup is left. *)
LEMMA DecidedOnce ==
  ASSUME MiniInv, [Next]_vars, status # "RUNNING"
  PROVE  UNCHANGED status
<1>1. pc \in Ending
  BY DEF MiniInv, Lifecycle
<1>2. pc \notin Opening \cup Attempting
  BY <1>1 DEF Opening, Attempting, Ending
<1>3. Cleanup \/ UNCHANGED vars
  BY <1>2, Split, Delivered, Finishes DEF Quiet, Opening, Attempting, Validate, SelectRoute,
     Handshake, OpenSockets, StartAttempt, GiveUp, SkipAcknowledged, AllSent, NothingDue, TimeOut,
     SendChunk, DeliverFails
<1>. QED
  BY <1>3 DEF Cleanup, vars

(* The call implements the safety part of Transfer: it is decided at most  *)
(* once, and the output span has the whole payload then, or nothing.       *)
THEOREM TransferIsAllOrNothing == Spec => Abstract!Safety
<1>. DEFINE outcome == CASE status = "RUNNING" -> "pending"
                         [] status = "OK"      -> "delivered"
                         [] OTHER              -> "failed"
<1>1. Init => Abstract!Init
  BY DEF Init, Abstract!Init
<1>2. ASSUME MiniInv, MiniInv', [Next]_vars
      PROVE  [Abstract!Next]_<<outcome, output>>
  <2>1. /\ IF status = "OK" THEN output = Payload ELSE output = <<>>
        /\ IF status' = "OK" THEN output' = Payload ELSE output' = <<>>
    BY <1>2 DEF MiniInv, Lifecycle
  <2>2. status # "RUNNING" => status' = status
    BY <1>2, DecidedOnce
  <2>. QED
    BY <2>1, <2>2 DEF Abstract!Next, Abstract!Deliver, Abstract!Fail
<1>. QED
  BY <1>1, <1>2, MiniInvariant, PTL DEF Spec, Abstract!Safety

=============================================================================
