----------------------------- MODULE Reassembly -----------------------------
(***************************************************************************)
(* Lesson 07's receive window (lessons/07_tcp_state_reliability,           *)
(* tcpip_l07_reassembly_init / _push / _read).                             *)
(*                                                                         *)
(* The caller owns two arrays of Capacity elements: data holds the bytes   *)
(* and present marks the positions that have been received.  A segment is  *)
(* placed by the distance of its sequence number from initial_seq, taken   *)
(* modulo SeqMod (2^32 in the code).  read hands out the contiguous run    *)
(* that starts at read_offset.                                             *)
(*                                                                         *)
(* The environment may call push and read in any order, with any segment.  *)
(* output and pushed are histories, not program state: the bytes read has  *)
(* copied out so far, and the sum of what push has reported in *accepted.  *)
(***************************************************************************)
EXTENDS Integers, Sequences, FiniteSets

CONSTANTS
  SeqMod,       \* size of the sequence space: 2^32
  Capacity,     \* elements of data and of present
  InitialSeq,   \* sequence number of position 0
  Byte,         \* values of one byte
  MaxLen,       \* bound: longest segment the environment pushes
  MaxRead       \* bound: largest out_capacity the environment passes to read

ASSUME SeqModAssumption     == SeqMod \in Nat \ {0}
ASSUME CapacityAssumption   == Capacity \in Nat /\ Capacity < SeqMod
ASSUME InitialSeqAssumption == InitialSeq \in 0..(SeqMod - 1)
ASSUME MaxLenAssumption     == MaxLen \in Nat
ASSUME MaxReadAssumption    == MaxRead \in Nat

VARIABLES
  data,         \* ctx->data
  present,      \* ctx->present
  read_offset,  \* ctx->read_offset
  status,       \* what the last call returned
  accepted,     \* *accepted of the last push
  output,       \* history: bytes copied out by read
  pushed        \* history: sum of *accepted over all pushes

vars == <<data, present, read_offset, status, accepted, output, pushed>>
window == <<data, present, read_offset>>

Position == 0..(Capacity - 1)
Sequence == 0..(SeqMod - 1)
Status   == {"OK", "MALFORMED", "CAPACITY", "TRUNCATED"}
Segment  == UNION {[1..n -> Byte] : n \in 0..MaxLen}

-----------------------------------------------------------------------------
(* Seeded fault: init does not clear present. *)
InitLeavesPresent ==
  /\ data \in [Position -> Byte] /\ present \in [Position -> BOOLEAN]
  /\ read_offset = 0 /\ status = "OK" /\ accepted = 0 /\ output = <<>> /\ pushed = 0

(* init clears present and leaves data as the caller had it. *)
Init ==
  /\ data \in [Position -> Byte]
  /\ present = [i \in Position |-> FALSE]
  /\ read_offset = 0
  /\ status = "OK"
  /\ accepted = 0
  /\ output = <<>>
  /\ pushed = 0

-----------------------------------------------------------------------------
(* offset_u32 = seq - initial_seq in unsigned 32-bit arithmetic. *)
Offset(seq) == (seq - InitialSeq) % SeqMod

Fits(offset, len) == offset <= Capacity /\ len <= Capacity - offset

(* Positions of the window that a segment of len bytes covers. *)
Covered(offset, len) == offset..(offset + len - 1)

(* Seeded faults: bytes already read, or all but the first, are not compared. *)
ConflictsUnreadOnly(offset, input) ==
  \E i \in Covered(offset, Len(input)) :
    i >= read_offset /\ present[i] /\ data[i] # input[i - offset + 1]
ConflictsFirstByte(offset, input) == present[offset] /\ data[offset] # input[1]

Conflicts(offset, input) ==
  \E i \in Covered(offset, Len(input)) :
    present[i] /\ data[i] # input[i - offset + 1]

(* Seeded fault: every byte of the segment counts as new. *)
AllPositions(offset, len) == Covered(offset, len)

NewPositions(offset, len) == {i \in Covered(offset, len) : ~present[i]}

PushFails(result) ==
  /\ status' = result
  /\ accepted' = 0
  /\ UNCHANGED <<window, output, pushed>>

PushEmpty(input) ==
  /\ Len(input) = 0
  /\ PushFails("OK")

PushOutside(seq, input) ==
  /\ Len(input) # 0
  /\ ~Fits(Offset(seq), Len(input))
  /\ PushFails("CAPACITY")

PushConflict(seq, input) ==
  /\ Len(input) # 0
  /\ Fits(Offset(seq), Len(input))
  /\ Conflicts(Offset(seq), input)
  /\ PushFails("MALFORMED")

PushStore(seq, input) ==
  LET offset == Offset(seq)
      len    == Len(input)
  IN  /\ len # 0
      /\ Fits(offset, len)
      /\ ~Conflicts(offset, input)
      /\ data' = [i \in Position |->
                    IF i \in Covered(offset, len) THEN input[i - offset + 1] ELSE data[i]]
      /\ present' = [i \in Position |-> i \in Covered(offset, len) \/ present[i]]
      /\ accepted' = Cardinality(NewPositions(offset, len))
      /\ pushed' = pushed + accepted'
      /\ status' = "OK"
      /\ UNCHANGED <<read_offset, output>>

Push(seq, input) ==
  \/ PushEmpty(input)
  \/ PushOutside(seq, input)
  \/ PushConflict(seq, input)
  \/ PushStore(seq, input)

-----------------------------------------------------------------------------
(* available is the length of the received run that starts at read_offset. *)
IsRun(available) ==
  /\ \A i \in read_offset..(read_offset + available - 1) : present[i]
  /\ read_offset + available < Capacity => ~present[read_offset + available]

ReadRun(available) ==
  /\ output' = output \o [i \in 1..available |-> data[read_offset + i - 1]]
  /\ read_offset' = read_offset + available
  /\ status' = "OK"
  /\ UNCHANGED <<data, present, accepted, pushed>>

ReadTooShort ==
  /\ status' = "TRUNCATED"
  /\ UNCHANGED <<window, accepted, output, pushed>>

Read(out_capacity) ==
  \E available \in 0..(Capacity - read_offset) :
    /\ IsRun(available)
    /\ \/ available <= out_capacity /\ ReadRun(available)
       \/ available > out_capacity /\ ReadTooShort

-----------------------------------------------------------------------------
Next ==
  \/ \E seq \in Sequence, input \in Segment : Push(seq, input)
  \/ \E out_capacity \in 0..MaxRead : Read(out_capacity)

Spec == Init /\ [][Next]_vars

-----------------------------------------------------------------------------
(* The window, the cursor and the histories have the types of the code's     *)
(* fields; lesson 07 README states read_offset <= capacity "at all times".   *)
TypeOK ==
  /\ data \in [Position -> Byte]
  /\ present \in [Position -> BOOLEAN]
  /\ read_offset \in 0..Capacity
  /\ status \in Status
  /\ accepted \in Nat
  /\ output \in Seq(Byte)
  /\ pushed \in Nat

(* Everything before the cursor was received: read never hands out a byte    *)
(* of the caller's array that no segment wrote (a gap, or a zero left in     *)
(* fresh storage).                                                           *)
ReadBytesReceived == \A i \in Position : i < read_offset => present[i]

(* What was read stays what the window holds: no later segment rewrites a    *)
(* byte the reader already has, however segments overlap and wrap around.    *)
OutputMatchesWindow ==
  /\ Len(output) = read_offset
  /\ \A i \in 1..Len(output) : output[i] = data[i - 1]

(* The accepted counts add up to the positions received: a retransmission,   *)
(* a partial overlap or a rejected segment never counts a byte twice.        *)
AcceptedCountsPresent == pushed = Cardinality({i \in Position : present[i]})

(* What lesson 07 promises, whatever the order, overlap and loss of segments: *)
(* see ReceivedStream.  A position is known exactly when present marks it.    *)
Stream == INSTANCE ReceivedStream WITH
            known <- [i \in {j \in Position : present[j]} |-> data[i]]
ImplementsReceivedStream == Stream!Spec

(* A received byte is never lost and never changes value. *)
NoByteRewritten ==
  [][\A i \in Position : present[i] => present'[i] /\ data'[i] = data[i]]_vars

(* A call that fails commits nothing: "a malformed overlap, capacity failure, *)
(* or short read cannot leave half of an operation committed" (README).       *)
FailureCommitsNothing ==
  [][status' # "OK" => UNCHANGED <<window, output, pushed>>]_vars
=============================================================================
