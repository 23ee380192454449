----------------------------- MODULE MiniStack ------------------------------
(***************************************************************************)
(* Linux lab 03 (linux_labs/03_userspace_mini_stack, tcpip_linux_l03_run): *)
(* one transfer of a payload over a simulated wire with virtual time.      *)
(*                                                                         *)
(* The call is one thread: it validates the scenario, selects a route,     *)
(* walks the handshake of TcpTransitions, opens a socket pair, and then    *)
(* makes attempts.  An attempt sends every chunk that is not acknowledged, *)
(* each under the next action of the fault script, delivers the frames due *)
(* before its deadline in order of due time, and doubles the timeout.      *)
(* Delivery pushes the chunk into lesson 07's window (Reassembly).         *)
(*                                                                         *)
(* A frame is its chunk's index: what the code builds, sends over the      *)
(* socket pair and parses back arrives as it was built.  The event array   *)
(* is a set: slots differ only in position, and order keeps events apart.  *)
(***************************************************************************)
EXTENDS Integers, Sequences, FiniteSets

CONSTANTS
  SeqMod,           \* size of the sequence space: 2^32
  AddressBits,      \* bits of an address: 32
  TimeMax,          \* UINT64_MAX
  MaxPayload,       \* TCPIP_LINUX_L03_MAX_PAYLOAD: 1024
  ChunkPayload,     \* TCPIP_LINUX_L03_CHUNK_PAYLOAD: 256
  MaxFaultActions,  \* TCPIP_LINUX_L03_MAX_FAULT_ACTIONS: 32
  Payload,          \* the bytes of scenario->payload
  SenderInitialSeq, \* scenario->sender_initial_seq
  Destination,      \* scenario->destination_ipv4
  Scenarios,        \* the other fields of the scenarios the caller may pass
  StackBytes        \* what the uninitialized reassembly_data may hold

ASSUME SizesAssumption ==
  /\ TimeMax \in Nat \ {0}
  /\ MaxPayload \in Nat \ {0} /\ ChunkPayload \in Nat \ {0}
  /\ MaxFaultActions \in Nat
  /\ SeqMod \in Nat /\ MaxPayload < SeqMod
  /\ SenderInitialSeq \in 0..(SeqMod - 1)

PayloadLength == Len(Payload)
Byte == {Payload[i] : i \in 1..PayloadLength}

ASSUME PayloadAssumption == Payload \in Seq(Byte)

FaultAction == [action : STRING, delay_ms : 0..TimeMax]

ASSUME ScenariosAssumption ==
  \A s \in Scenarios :
    /\ s.faults \in Seq(FaultAction)
    /\ s.initial_rto_ms \in 0..TimeMax
    /\ s.max_attempts \in Nat /\ s.output_capacity \in Nat

Position == 0..(PayloadLength - 1)

CeilDiv(n, d) == (n + d - 1) \div d
MaxChunks == CeilDiv(MaxPayload, ChunkPayload)
(* Seeded fault: one slot too few. *)
MaxEventsShort == MaxFaultActions + MaxChunks - 1
MaxEvents == MaxFaultActions + MaxChunks
ChunkCount == CeilDiv(PayloadLength, ChunkPayload)
Chunk == 0..(ChunkCount - 1)

VARIABLES
  scenario,      \* the caller's scenario, chosen by Init
  pc,            \* where the call is
  attempt, chunk, fault_index, event_order,
  now, rto, deadline,
  events,        \* frames in flight
  acknowledged,  \* chunks that were delivered
  data, present, read_offset, window_status, accepted, pushed,  \* the window
  output,        \* what was written to scenario->output
  sockets,       \* "none", "open" or "closed": the socket pair
  result,        \* *result
  status         \* what the call returns; "RUNNING" until that is decided

window == <<data, present, read_offset, window_status, accepted, pushed>>
wire   == <<fault_index, event_order, events>>
clock  == <<now, rto, deadline>>
vars   == <<scenario, pc, attempt, chunk, wire, clock, acknowledged, window,
            output, sockets, result, status>>

Tcp    == INSTANCE TcpTransitions
Routes == INSTANCE Routing
Window == INSTANCE Reassembly WITH
            Capacity <- PayloadLength, InitialSeq <- SenderInitialSeq,
            MaxLen <- ChunkPayload, MaxRead <- PayloadLength,
            status <- window_status

-----------------------------------------------------------------------------
(* Saturating arithmetic on the 64-bit clock. *)
SatAdd(t, d) == IF TimeMax - t < d THEN TimeMax ELSE t + d
SatDouble(d) == IF d <= TimeMax \div 2 THEN 2 * d ELSE TimeMax

NoFault == [action |-> "DELIVER", delay_ms |-> 0]

Init ==
  /\ scenario \in Scenarios
  /\ pc = "validate"
  /\ attempt = 0 /\ chunk = 0 /\ fault_index = 0 /\ event_order = 0
  /\ now = 0 /\ rto = 0 /\ deadline = 0
  /\ events = {}
  /\ acknowledged = [c \in Chunk |-> FALSE]
  /\ data \in [Position -> StackBytes]
  /\ present = [i \in Position |-> FALSE]
  /\ read_offset = 0 /\ window_status = "OK" /\ accepted = 0 /\ pushed = 0
  /\ output = <<>>
  /\ sockets = "none"
  /\ result = [route_index |-> 0, virtual_elapsed_ms |-> 0, attempts |-> 0,
               retransmits |-> 0, final_state |-> "CLOSED",
               reassembled_length |-> 0]
  /\ status = "RUNNING"

(* goto cleanup (or an early return, when there is no socket to close). *)
Leave(s) == status' = s /\ pc' = "cleanup"

-----------------------------------------------------------------------------
WellFormed(s) ==
  /\ PayloadLength # 0 /\ PayloadLength <= MaxPayload
  /\ Len(s.faults) <= MaxFaultActions
  /\ s.max_attempts # 0 /\ s.initial_rto_ms # 0
  /\ s.ports_set

FaultActionsValid(s) ==
  \A i \in 1..Len(s.faults) :
    s.faults[i].action \in {"DELIVER", "DROP", "DELAY", "REORDER"}

Validate ==
  /\ pc = "validate"
  /\ \/ ~scenario.spans_valid /\ Leave("INVALID_ARGUMENT")
     \/ /\ scenario.spans_valid /\ ~WellFormed(scenario)
        /\ Leave("MALFORMED")
     \/ /\ scenario.spans_valid /\ WellFormed(scenario)
        /\ scenario.output_capacity < PayloadLength
        /\ Leave("CAPACITY")
     \/ /\ scenario.spans_valid /\ WellFormed(scenario)
        /\ scenario.output_capacity >= PayloadLength
        /\ ~FaultActionsValid(scenario)
        /\ Leave("MALFORMED")
     \/ /\ scenario.spans_valid /\ WellFormed(scenario)
        /\ scenario.output_capacity >= PayloadLength
        /\ FaultActionsValid(scenario)
        /\ pc' = "route" /\ UNCHANGED status
  /\ UNCHANGED <<scenario, attempt, chunk, wire, clock, acknowledged, window,
                 output, sockets, result>>

SelectRoute ==
  /\ pc = "route"
  /\ \/ /\ Routes!LookupMalformed(scenario.routes)
        /\ Leave("MALFORMED") /\ UNCHANGED result
     \/ /\ Routes!LookupNoRoute(scenario.routes, Destination)
        /\ Leave("ROUTE_NOT_FOUND") /\ UNCHANGED result
     \/ \E i \in 1..Len(scenario.routes) :
          /\ Routes!LookupSelects(scenario.routes, Destination, i)
          /\ result' = [result EXCEPT !.route_index = i]
          /\ pc' = "handshake" /\ UNCHANGED status
  /\ UNCHANGED <<scenario, attempt, chunk, wire, clock, acknowledged, window,
                 output, sockets>>

(* CLOSED, active open, SYN+ACK; and the timeout of the first attempt. *)
Handshake ==
  /\ pc = "handshake"
  /\ \E syn_sent, established \in Tcp!TcpState :
       /\ Tcp!Accepts("CLOSED", "ACTIVE_OPEN", syn_sent)
       /\ Tcp!Accepts(syn_sent, "RECEIVE_SYN_ACK", established)
       /\ result' = [result EXCEPT !.final_state = established]
  /\ rto' = scenario.initial_rto_ms
  /\ pc' = "open"
  /\ UNCHANGED <<scenario, attempt, chunk, wire, now, deadline, acknowledged,
                 window, output, sockets, status>>

OpenSockets ==
  /\ pc = "open"
  /\ \/ sockets' = "open" /\ pc' = "attempt" /\ UNCHANGED status
     \/ Leave("SYSTEM_ERROR") /\ UNCHANGED sockets
  /\ UNCHANGED <<scenario, attempt, chunk, wire, clock, acknowledged, window,
                 output, result>>

-----------------------------------------------------------------------------
StartAttempt ==
  /\ pc = "attempt"
  /\ attempt < scenario.max_attempts
  /\ deadline' = SatAdd(now, rto)
  /\ result' = [result EXCEPT !.attempts = attempt + 1]
  /\ chunk' = 0
  /\ pc' = "send"
  /\ UNCHANGED <<scenario, attempt, wire, now, rto, acknowledged, window,
                 output, sockets, status>>

GiveUp ==
  /\ pc = "attempt"
  /\ attempt = scenario.max_attempts
  /\ result' = [result EXCEPT !.virtual_elapsed_ms = now]
  /\ Leave("RETRY_EXHAUSTED")
  /\ UNCHANGED <<scenario, attempt, chunk, wire, clock, acknowledged, window,
                 output, sockets>>

SkipAcknowledged ==
  /\ pc = "send" /\ chunk < ChunkCount
  /\ acknowledged[chunk]
  /\ chunk' = chunk + 1
  /\ UNCHANGED <<scenario, pc, attempt, wire, clock, acknowledged, window,
                 output, sockets, result, status>>

(* Seeded fault: the script starts over when it is used up. *)
FaultRepeats == IF scenario.faults = <<>> THEN NoFault
                  ELSE scenario.faults[(fault_index % Len(scenario.faults)) + 1]

Fault == IF fault_index < Len(scenario.faults)
           THEN scenario.faults[fault_index + 1]
           ELSE NoFault

(* How long after now a frame under this fault is due. *)
Postponed(fault) ==
  CASE fault.action = "DELAY"   -> fault.delay_ms
    [] fault.action = "REORDER" -> IF rto > 1 THEN rto \div 2 ELSE 1
    [] OTHER                    -> 0

Event(fault) == [chunk |-> chunk, due_ms |-> now + Postponed(fault),
                 order |-> event_order, action |-> fault.action]

(* A chunk's transmission consumes one fault action, whatever it does. *)
SendChunk ==
  /\ pc = "send" /\ chunk < ChunkCount
  /\ ~acknowledged[chunk]
  /\ result' = [result EXCEPT !.retransmits = IF attempt = 0 THEN @ ELSE @ + 1]
  /\ fault_index' = fault_index + 1
  /\ \/ /\ Fault.action = "DROP"
        /\ chunk' = chunk + 1
        /\ UNCHANGED <<pc, status, events, event_order>>
     \/ /\ TimeMax - now < Postponed(Fault)
        /\ Leave("CAPACITY")
        /\ UNCHANGED <<chunk, events, event_order>>
     \/ /\ Fault.action # "DROP" /\ TimeMax - now >= Postponed(Fault)
        /\ event_order' = event_order + 1
        /\ \/ /\ Cardinality(events) < MaxEvents
              /\ events' = events \cup {Event(Fault)}
              /\ chunk' = chunk + 1
              /\ UNCHANGED <<pc, status>>
           \/ /\ Cardinality(events) = MaxEvents
              /\ Leave("CAPACITY")
              /\ UNCHANGED <<chunk, events>>
  /\ UNCHANGED <<scenario, attempt, clock, acknowledged, window, output, sockets>>

AllSent ==
  /\ pc = "send" /\ chunk = ChunkCount
  /\ pc' = "deliver"
  /\ UNCHANGED <<scenario, attempt, chunk, wire, clock, acknowledged, window,
                 output, sockets, result, status>>

-----------------------------------------------------------------------------
Due == {e \in events : e.due_ms < deadline}

(* Seeded fault: frames leave in the order they were inserted. *)
IsFirstInserted(e) == e \in Due /\ \A f \in Due : e.order <= f.order

(* next_event: the earliest due time, then the earliest insertion. *)
IsNextEvent(e) ==
  /\ e \in Due
  /\ \A f \in Due : e.due_ms < f.due_ms \/ (e.due_ms = f.due_ms /\ e.order <= f.order)

ChunkOffset(c) == c * ChunkPayload
ChunkLength(c) == IF PayloadLength - ChunkOffset(c) < ChunkPayload
                    THEN PayloadLength - ChunkOffset(c) ELSE ChunkPayload
(* Seeded fault: chunks are numbered where bytes should be. *)
ChunkSeqByIndex(c) == (SenderInitialSeq + c) % SeqMod
ChunkSeq(c)    == (SenderInitialSeq + ChunkOffset(c)) % SeqMod
ChunkBytes(c)  == [i \in 1..ChunkLength(c) |-> Payload[ChunkOffset(c) + i]]

(* send or recv failed, or moved fewer bytes than the frame has. *)
DeliverFails ==
  /\ pc = "deliver"
  /\ \E e \in events : IsNextEvent(e) /\ now' = e.due_ms
  /\ Leave("SYSTEM_ERROR")
  /\ UNCHANGED <<scenario, attempt, chunk, wire, rto, deadline, acknowledged,
                 window, output, sockets, result>>

(* Seeded fault: a duplicate is expected to be new. *)
PushAlwaysNew(c) == window_status' = "OK" /\ accepted' = ChunkLength(c)

(* The receiver's check of what the window made of a frame. *)
PushAsExpected(c) ==
  /\ window_status' = "OK"
  /\ accepted' = IF acknowledged[c] THEN 0 ELSE ChunkLength(c)

(* Seeded fault: the slot of a delivered frame stays in use. *)
KeepInFlight(e) == events
TakeFromFlight(e) == events \ {e}

DeliverFrame ==
  /\ pc = "deliver"
  /\ \E e \in events :
       /\ IsNextEvent(e)
       /\ now' = e.due_ms
       /\ Window!Push(ChunkSeq(e.chunk), ChunkBytes(e.chunk))
       /\ \/ /\ PushAsExpected(e.chunk)
             /\ acknowledged' = [acknowledged EXCEPT ![e.chunk] = TRUE]
             /\ events' = TakeFromFlight(e)
             /\ UNCHANGED <<pc, status>>
          \/ /\ ~PushAsExpected(e.chunk)
             /\ Leave("MALFORMED")
             /\ UNCHANGED <<acknowledged, events>>
  /\ UNCHANGED <<scenario, attempt, chunk, fault_index, event_order, rto,
                 deadline, sockets, result>>

NothingDue ==
  /\ pc = "deliver"
  /\ Due = {}
  /\ pc' = "settle"
  /\ UNCHANGED <<scenario, attempt, chunk, wire, clock, acknowledged, window,
                 output, sockets, result, status>>

(* Seeded fault: one chunk stands for all. *)
AnyAcknowledged == \E c \in Chunk : acknowledged[c]

AllAcknowledged == \A c \in Chunk : acknowledged[c]

(* The read goes straight to the caller's span. *)
Finish ==
  /\ pc = "settle"
  /\ AllAcknowledged
  /\ Window!Read(scenario.output_capacity)
  /\ LET produced == Len(output') - Len(output)
     IN  \/ /\ window_status' = "OK" /\ produced = PayloadLength
            /\ result' = [result EXCEPT !.reassembled_length = produced,
                                        !.virtual_elapsed_ms = now]
            /\ Leave("OK")
         \/ /\ window_status' # "OK" \/ produced # PayloadLength
            /\ Leave("MALFORMED")
            /\ UNCHANGED result
  /\ UNCHANGED <<scenario, attempt, chunk, wire, clock, acknowledged, sockets>>

TimeOut ==
  /\ pc = "settle"
  /\ ~AllAcknowledged
  /\ now' = deadline
  /\ rto' = SatDouble(rto)
  /\ attempt' = attempt + 1
  /\ pc' = "attempt"
  /\ UNCHANGED <<scenario, chunk, wire, deadline, acknowledged, window, output,
                 sockets, result, status>>

(* Seeded fault: the pair is closed on success only. *)
CleanupOnSuccess ==
  /\ pc = "cleanup"
  /\ sockets' = IF sockets = "open" /\ status = "OK" THEN "closed" ELSE sockets
  /\ pc' = "done"
  /\ UNCHANGED <<scenario, attempt, chunk, wire, clock, acknowledged, window,
                 output, result, status>>

Cleanup ==
  /\ pc = "cleanup"
  /\ sockets' = IF sockets = "open" THEN "closed" ELSE sockets
  /\ pc' = "done"
  /\ UNCHANGED <<scenario, attempt, chunk, wire, clock, acknowledged, window,
                 output, result, status>>

-----------------------------------------------------------------------------
Steps ==
  \/ Validate \/ SelectRoute \/ Handshake \/ OpenSockets
  \/ StartAttempt \/ GiveUp
  \/ SkipAcknowledged \/ SendChunk \/ AllSent
  \/ DeliverFrame \/ NothingDue
  \/ Finish \/ TimeOut \/ Cleanup

Next == Steps \/ DeliverFails

(* One thread that never blocks: its next step is always eventually taken,   *)
(* and no failure of send or recv is needed to get it there.                 *)
Spec == Init /\ [][Next]_vars /\ WF_vars(Steps)

-----------------------------------------------------------------------------
Opened  == sockets # "none"
Sending == pc \in {"send", "deliver", "settle"}

ChunkPositions(c) == ChunkOffset(c)..(ChunkOffset(c) + ChunkLength(c) - 1)

(* The two records of progress agree: a chunk is acknowledged exactly when   *)
(* all its bytes are in the window, and no chunk is ever there in part,      *)
(* whatever duplicates arrive and wherever the sequence numbers wrap.        *)
AcknowledgedMeansReceived ==
  \A c \in Chunk : \A i \in ChunkPositions(c) : present[i] <=> acknowledged[c]

(* The receiver never rejects a frame this sender built: once the socket     *)
(* pair is open the call cannot end in MALFORMED.                            *)
OwnFramesAccepted == Opened => status # "MALFORMED"

(* 32 fault actions and 4 chunks are enough slots: while the clock has not   *)
(* saturated, CAPACITY after the checks means that a postponed frame's due   *)
(* time does not fit the clock, never that the queue is full.                *)
QueueNeverFills ==
  Opened /\ status = "CAPACITY" /\ now < TimeMax =>
    /\ fault_index \in 1..Len(scenario.faults)
    /\ TimeMax - now < Postponed(scenario.faults[fault_index])

(* No frame in flight is due in the past, so delivering one never turns the  *)
(* clock back.                                                               *)
NothingDueInThePast == Sending => \A e \in events : e.due_ms >= now

(* Running out of attempts takes a fault action per attempt: while the clock *)
(* has not saturated, a scenario with more attempts than fault actions gets  *)
(* its payload through.                                                      *)
ExhaustionNeedsFaults ==
  status = "RETRY_EXHAUSTED" /\ now < TimeMax =>
    scenario.max_attempts <= Len(scenario.faults)

(* However the call ends it leaves no descriptor open, and "once the modeled *)
(* handshake reaches ESTABLISHED, final_state preserves that state on retry  *)
(* exhaustion and system errors" (lab.h).                                    *)
ReturnsCleanly ==
  pc = "done" =>
    /\ sockets # "open" /\ status # "RUNNING"
    /\ Opened => result.final_state = "ESTABLISHED"

(* Every call returns. *)
Terminates == <>(pc = "done")

(* The call implements an all-or-nothing transfer: see Transfer. *)
Abstract == INSTANCE Transfer WITH
              outcome <- CASE status = "RUNNING" -> "pending"
                           [] status = "OK"      -> "delivered"
                           [] OTHER              -> "failed"
ImplementsTransfer == Abstract!Spec
=============================================================================
