------------------------------ MODULE EpollEcho ------------------------------
(***************************************************************************)
(* Linux lab 01's tcpip_linux_l01_echo: one call that echoes expected      *)
(* bytes of a stream socket through a fixed buffer, driven by epoll in     *)
(* level- or edge-triggered mode, against a peer that sends, reads, shuts  *)
(* down and closes when it likes, and a deadline.  The k-th byte of the    *)
(* peer's stream is the number k.  One system call is one step.            *)
(***************************************************************************)
EXTENDS Integers, Sequences

CONSTANTS
  BufferSize,        \* TCPIP_LINUX_L01_BUFFER_SIZE
  Triggers, Expected,   \* bound: arguments of the call
  ReceiveRoom, SendRoom,\* the kernel's socket buffers, in bytes
  MaxSent,           \* bound: bytes the peer sends
  MaxSignals,        \* bound: system calls interrupted by a signal
  SystemFailures     \* whether other system calls may fail

ASSUME BufferAssumption == BufferSize \in Nat \ {0}
ASSUME ArgumentsAssumption ==
  Triggers \subseteq {"LEVEL", "EDGE"} /\ Expected \subseteq Nat
ASSUME KernelAssumption ==
  /\ ReceiveRoom \in Nat /\ SendRoom \in Nat /\ MaxSent \in Nat /\ MaxSignals \in Nat
  /\ SystemFailures \in BOOLEAN

VARIABLES
  trigger, expected_bytes, original_nonblock,        \* the arguments
  pc, status,
  buffer, pending_offset, pending_length,            \* bytes read and not yet sent
  total_read, total_written, eof_seen,
  read_budget, write_budget, progressed,             \* one readiness event's work
  interest, armed, epoll_open, nonblock,             \* kernel: epoll and fd flags
  peer, peer_sent, echoed, peer_read,                \* kernel and peer: the stream
  expired, signals,                                  \* deadline passed; signals left
  flags_failed       \* history: the call that restores the flags failed

args     == <<trigger, expected_bytes, original_nonblock>>
pending  == <<buffer, pending_offset, pending_length>>
totals   == <<total_read, total_written, eof_seen>>
work     == <<read_budget, write_budget, progressed>>
epoll    == <<interest, armed, epoll_open, nonblock>>
stream   == <<peer, peer_sent, echoed, peer_read>>
world    == <<expired, signals, flags_failed>>
vars     == <<args, pc, status, pending, totals, work, epoll, stream, world>>

Cell == 0..(BufferSize - 1)

Inbox     == peer_sent - total_read              \* bytes waiting to be received
FreeSpace == SendRoom - (Len(echoed) - peer_read)

(* What the kernel reports of the socket's present state. *)
Mask ==
  (IF Inbox > 0 \/ peer # "open" THEN {"IN"} ELSE {})
    \cup (IF peer # "open" THEN {"RDHUP"} ELSE {})
    \cup (IF FreeSpace > 0 \/ peer = "closed" THEN {"OUT"} ELSE {})
    \cup (IF peer = "closed" THEN {"HUP"} ELSE {})

Watched == interest \cup {"HUP"}                 \* EPOLLHUP needs no request

Reportable == /\ Mask \cap Watched # {}
              /\ trigger = "EDGE" => armed

(* Edge mode: an event source that fires arms the descriptor. *)
Fires(events) == armed' = (armed \/ events \cap Watched # {})

Init ==
  /\ trigger \in Triggers /\ expected_bytes \in Expected
  /\ original_nonblock \in BOOLEAN /\ nonblock = original_nonblock
  /\ pc = "start" /\ status = "SYSTEM"
  /\ buffer = [c \in Cell |-> 0] /\ pending_offset = 0 /\ pending_length = 0
  /\ total_read = 0 /\ total_written = 0 /\ eof_seen = FALSE
  /\ read_budget = 0 /\ write_budget = 0 /\ progressed = FALSE
  /\ interest = {} /\ armed = FALSE /\ epoll_open = FALSE
  /\ peer = "open" /\ peer_sent = 0 /\ echoed = <<>> /\ peer_read = 0
  /\ expired = FALSE /\ signals = MaxSignals /\ flags_failed = FALSE

-----------------------------------------------------------------------------
(* The call: flags, registration, and the ways out. *)

Leave(result) == pc' = "cleanup" /\ status' = result

SetNonblocking ==
  /\ pc = "start" /\ expected_bytes # 0
  /\ pc' = "register"
  /\ nonblock' = TRUE
  /\ UNCHANGED <<args, status, pending, totals, work, interest, armed, epoll_open,
                 stream, world>>

NothingExpected ==
  /\ pc = "start" /\ expected_bytes = 0
  /\ pc' = "done" /\ status' = "OK"
  /\ UNCHANGED <<args, pending, totals, work, epoll, stream, world>>

(* epoll_create1 and EPOLL_CTL_ADD, which finds events already present. *)
Register ==
  /\ pc = "register"
  /\ pc' = "wait"
  /\ epoll_open' = TRUE
  /\ interest' = {"IN", "RDHUP"}
  /\ armed' = (Mask \cap {"IN", "RDHUP", "HUP"} # {})
  /\ UNCHANGED <<args, status, pending, totals, work, nonblock, stream, world>>

(* Seeded fault: a failure before the first wait returns at once. *)
SystemCallReturns ==
  /\ SystemFailures
  /\ pc \in {"register", "wait", "write", "read", "update"}
  /\ IF pc = "register" THEN pc' = "done" /\ status' = "SYSTEM" ELSE Leave("SYSTEM")
  /\ UNCHANGED <<args, pending, totals, work, epoll, stream, world>>

(* Any system call after the flags are set, up to the cleanup. *)
SystemCallFails ==
  /\ SystemFailures
  /\ pc \in {"register", "wait", "write", "read", "update"}
  /\ Leave("SYSTEM")
  /\ UNCHANGED <<args, pending, totals, work, epoll, stream, world>>

FlagCallFails ==
  /\ SystemFailures /\ pc = "start"
  /\ pc' = "done" /\ status' = "SYSTEM"
  /\ UNCHANGED <<args, pending, totals, work, epoll, stream, world>>

(* close(epoll_fd), then the flags. *)
Cleanup ==
  /\ pc = "cleanup" /\ pc' = "done"
  /\ epoll_open' = FALSE /\ interest' = {} /\ armed' = FALSE
  /\ \/ nonblock' = original_nonblock /\ UNCHANGED <<status, flags_failed>>
     \/ /\ SystemFailures /\ ~original_nonblock
        /\ status' = "SYSTEM" /\ flags_failed' = TRUE /\ UNCHANGED nonblock
  /\ UNCHANGED <<args, pending, totals, work, stream, expired, signals>>

-----------------------------------------------------------------------------
(* One turn of the outer loop: wait, then write and read, then re-register. *)

Unlimited == -1
Budget == IF trigger = "EDGE" THEN Unlimited ELSE 1
Spend(budget) == IF budget = Unlimited THEN Unlimited ELSE budget - 1

WaitEvent ==
  /\ pc = "wait" /\ Reportable
  /\ pc' = "write"
  /\ armed' = FALSE
  /\ read_budget' = Budget /\ write_budget' = Budget /\ progressed' = FALSE
  /\ UNCHANGED <<args, status, pending, totals, interest, epoll_open, nonblock,
                 stream, world>>

(* An interrupted wait starts again with the time that remains, so it is no  *)
(* step; a wait without an event ends when the deadline has passed.          *)
WaitTimeout ==
  /\ pc = "wait" /\ ~Reportable /\ expired
  /\ Leave("TIMEOUT")
  /\ UNCHANGED <<args, pending, totals, work, epoll, stream, world>>

WantsWrite == pending_length # 0 /\ write_budget # 0

SkipWrite ==
  /\ pc = "write" /\ ~WantsWrite
  /\ pc' = "read"
  /\ UNCHANGED <<args, status, pending, totals, work, epoll, stream, world>>

(* The bytes a successful send moves, and where the pending region starts.   *)
PendingBytes(n) == [i \in 1..n |-> buffer[pending_offset + i - 1]]

OffsetAfter(n) == IF n = pending_length THEN 0 ELSE pending_offset + n

Send(n) ==
  /\ pc = "write" /\ WantsWrite /\ peer # "closed"
  /\ n \in 1..pending_length /\ n <= FreeSpace
  /\ echoed' = echoed \o PendingBytes(n)
  /\ pending_offset' = OffsetAfter(n)
  /\ pending_length' = pending_length - n
  /\ total_written' = total_written + n
  /\ write_budget' = Spend(write_budget)
  /\ progressed' = TRUE
  /\ pc' = "read"
  /\ UNCHANGED <<args, status, buffer, total_read, eof_seen, read_budget, epoll,
                 peer, peer_sent, peer_read, world>>

SendAgain ==
  /\ pc = "write" /\ WantsWrite /\ peer # "closed" /\ FreeSpace = 0
  /\ write_budget' = Spend(write_budget)
  /\ pc' = "read"
  /\ UNCHANGED <<args, status, pending, totals, read_budget, progressed, epoll,
                 stream, world>>

SendBroken ==
  /\ pc = "write" /\ WantsWrite /\ peer = "closed"
  /\ Leave("SYSTEM")
  /\ UNCHANGED <<args, pending, totals, work, epoll, stream, world>>

WantsRead ==
  /\ ~eof_seen /\ total_read < expected_bytes
  /\ read_budget # 0 /\ pending_length < BufferSize

SkipRead ==
  /\ pc = "read" /\ ~WantsRead
  /\ pc' = "check"
  /\ UNCHANGED <<args, status, pending, totals, work, epoll, stream, world>>

(* Seeded fault: the pending bytes never move. *)
NeverAtEnd == FALSE

(* memmove: if the pending bytes end at the end of the buffer, they move to  *)
(* its start.                                                                *)
AtEnd == pending_offset # 0 /\ pending_offset + pending_length = BufferSize

CompactedOffset == IF AtEnd THEN 0 ELSE pending_offset

(* Seeded fault: the offset moves and the bytes do not. *)
OffsetOnly == buffer

Compacted ==
  [c \in Cell |-> IF AtEnd /\ c < pending_length THEN buffer[pending_offset + c]
                  ELSE buffer[c]]

(* Seeded fault: the room ignores the pending bytes. *)
LargeRoom(offset) ==
  LET tail == BufferSize - offset
      rest == expected_bytes - total_read
  IN  IF tail <= rest THEN tail ELSE rest

Room(offset) ==
  LET tail == BufferSize - (offset + pending_length)
      rest == expected_bytes - total_read
  IN  IF tail <= rest THEN tail ELSE rest

ReceivedInto(n) ==
  [c \in Cell |-> LET k == c - (CompactedOffset + pending_length)
                  IN  IF k \in 0..(n - 1) THEN total_read + k + 1 ELSE Compacted[c]]

Receive(n) ==
  /\ pc = "read" /\ WantsRead
  /\ n \in 1..Inbox /\ n <= Room(CompactedOffset)
  /\ buffer' = ReceivedInto(n)
  /\ pending_offset' = CompactedOffset
  /\ pending_length' = pending_length + n
  /\ total_read' = total_read + n
  /\ read_budget' = Spend(read_budget)
  /\ progressed' = TRUE
  /\ pc' = "check"
  /\ UNCHANGED <<args, status, total_written, eof_seen, write_budget, epoll, stream,
                 world>>

(* recv returns 0 at the end of the stream, and for a request of no bytes.   *)
ReceiveNothing ==
  /\ pc = "read" /\ WantsRead
  /\ \/ Inbox = 0 /\ peer # "open"
     \/ Room(CompactedOffset) = 0
  /\ eof_seen' = TRUE
  /\ buffer' = Compacted /\ pending_offset' = CompactedOffset
  /\ read_budget' = Spend(read_budget)
  /\ pc' = "check"
  /\ UNCHANGED <<args, status, pending_length, total_read, total_written,
                 write_budget, progressed, epoll, stream, world>>

ReceiveAgain ==
  /\ pc = "read" /\ WantsRead /\ Inbox = 0 /\ peer = "open"
  /\ buffer' = Compacted /\ pending_offset' = CompactedOffset
  /\ read_budget' = Spend(read_budget)
  /\ pc' = "check"
  /\ UNCHANGED <<args, status, pending_length, totals, write_budget, progressed,
                 epoll, stream, world>>

(* EINTR: the pass starts over, with the budget back and progress forgotten. *)
Interrupted ==
  /\ signals > 0 /\ signals' = signals - 1
  /\ \/ /\ pc = "write" /\ WantsWrite
        /\ UNCHANGED <<buffer, pending_offset>>
     \/ /\ pc = "read" /\ WantsRead
        /\ buffer' = Compacted /\ pending_offset' = CompactedOffset
  /\ pc' = "write"
  /\ progressed' = FALSE
  /\ UNCHANGED <<args, status, pending_length, totals, read_budget, write_budget,
                 epoll, stream, expired, flags_failed>>

Drained == eof_seen /\ pending_length = 0

(* Seeded fault: edge mode goes on draining without progress. *)
CheckNeverRests ==
  /\ pc = "check"
  /\ \/ total_written = expected_bytes /\ Leave("OK")
     \/ /\ total_written # expected_bytes /\ Drained
        /\ Leave(IF total_read = 0 THEN "EOF" ELSE "TRUNCATED")
     \/ /\ total_written # expected_bytes /\ ~Drained
        /\ pc' = IF trigger = "LEVEL" THEN "update" ELSE "write"
        /\ UNCHANGED status
  /\ progressed' = FALSE
  /\ UNCHANGED <<args, pending, totals, read_budget, write_budget, epoll, stream, world>>

Check ==
  /\ pc = "check"
  /\ \/ /\ total_written = expected_bytes
        /\ Leave("OK") /\ UNCHANGED progressed
     \/ /\ total_written # expected_bytes /\ Drained
        /\ Leave(IF total_read = 0 THEN "EOF" ELSE "TRUNCATED")
        /\ UNCHANGED progressed
     \/ /\ total_written # expected_bytes /\ ~Drained
        /\ pc' = IF trigger = "LEVEL" \/ ~progressed THEN "update" ELSE "write"
        /\ progressed' = FALSE
        /\ UNCHANGED status
  /\ UNCHANGED <<args, pending, totals, read_budget, write_budget, epoll, stream, world>>

(* Seeded fault: EPOLLOUT is never asked for. *)
ReadInterest == {"IN", "RDHUP"}

NewInterest == {"IN", "RDHUP"} \cup (IF pending_length # 0 THEN {"OUT"} ELSE {})

(* EPOLL_CTL_MOD re-arms the descriptor if it is ready for the new interest. *)
UpdateInterest ==
  /\ pc = "update"
  /\ pc' = "wait"
  /\ interest' = NewInterest
  /\ armed' = (Mask \cap (NewInterest \cup {"HUP"}) # {})
  /\ UNCHANGED <<args, status, pending, totals, work, epoll_open, nonblock, stream,
                 world>>

Call ==
  \/ SetNonblocking \/ NothingExpected \/ Register
  \/ Cleanup \/ WaitEvent \/ WaitTimeout
  \/ SkipWrite \/ (\E n \in 1..BufferSize : Send(n)) \/ SendAgain \/ SendBroken
  \/ SkipRead \/ (\E n \in 1..BufferSize : Receive(n)) \/ ReceiveNothing
  \/ ReceiveAgain \/ Interrupted \/ Check \/ UpdateInterest

-----------------------------------------------------------------------------
(* The peer and the clock. *)

call == <<args, pc, status, pending, totals, work>>

PeerSends ==
  /\ peer = "open" /\ peer_sent < MaxSent /\ Inbox < ReceiveRoom
  /\ peer_sent' = peer_sent + 1
  /\ Fires({"IN"})
  /\ UNCHANGED <<call, interest, epoll_open, nonblock, peer, echoed, peer_read, world>>

PeerReads ==
  /\ peer # "closed" /\ peer_read < Len(echoed)
  /\ peer_read' = peer_read + 1
  /\ Fires({"OUT"})
  /\ UNCHANGED <<call, interest, epoll_open, nonblock, peer, peer_sent, echoed, world>>

PeerShutsDown ==
  /\ peer = "open" /\ peer' = "shut"
  /\ Fires({"IN", "RDHUP"})
  /\ UNCHANGED <<call, interest, epoll_open, nonblock, peer_sent, echoed, peer_read,
                 world>>

PeerCloses ==
  /\ peer # "closed" /\ peer' = "closed"
  /\ Fires({"IN", "RDHUP", "OUT", "HUP"})
  /\ UNCHANGED <<call, interest, epoll_open, nonblock, peer_sent, echoed, peer_read,
                 world>>

DeadlinePasses ==
  /\ ~expired /\ expired' = TRUE
  /\ UNCHANGED <<call, epoll, stream, signals, flags_failed>>

Environment == PeerSends \/ PeerReads \/ PeerShutsDown \/ PeerCloses \/ DeadlinePasses

Next == Call \/ SystemCallFails \/ FlagCallFails \/ Environment

(* The thread of the call runs, and time passes; no wait may count on a      *)
(* failure to end.                                                           *)
Spec == Init /\ [][Next]_vars /\ WF_vars(Call) /\ WF_vars(DeadlinePasses)

(* Moreover the peer keeps reading what it is sent. *)
ReadingPeerSpec == Spec /\ WF_vars(PeerReads)

-----------------------------------------------------------------------------
(* The buffer indices stay inside the buffer. *)
TypeOK ==
  /\ trigger \in {"LEVEL", "EDGE"} /\ expected_bytes \in Nat
  /\ original_nonblock \in BOOLEAN /\ nonblock \in BOOLEAN
  /\ pc \in {"start", "register", "wait", "write", "read", "check", "update",
             "cleanup", "done"}
  /\ status \in {"OK", "SYSTEM", "TIMEOUT", "EOF", "TRUNCATED"}
  /\ buffer \in [Cell -> Nat]
  /\ pending_offset \in Nat /\ pending_length \in Nat
  /\ pending_offset + pending_length <= BufferSize
  /\ total_read \in Nat /\ total_written \in Nat /\ eof_seen \in BOOLEAN
  /\ read_budget \in {Unlimited, 0, 1} /\ write_budget \in {Unlimited, 0, 1}
  /\ progressed \in BOOLEAN
  /\ interest \subseteq {"IN", "RDHUP", "OUT"}
  /\ armed \in BOOLEAN /\ epoll_open \in BOOLEAN
  /\ peer \in {"open", "shut", "closed"}
  /\ peer_sent \in Nat /\ peer_read \in Nat /\ echoed \in Seq(Nat)
  /\ expired \in BOOLEAN /\ signals \in Nat /\ flags_failed \in BOOLEAN

(* The pending region holds exactly the bytes read and not yet written, in   *)
(* order: no read overwrites unsent output, and no partial send or           *)
(* compaction loses or repeats a byte.                                       *)
BufferHoldsPending ==
  /\ total_read = total_written + pending_length
  /\ \A i \in 0..(pending_length - 1) :
       buffer[pending_offset + i] = total_written + i + 1

(* The peer is sent its own stream back, the same bytes in the same order,   *)
(* no byte beyond the requested ones is taken out of the socket, and what is *)
(* still pending continues the stream.                                       *)
EchoInOrder ==
  /\ BufferHoldsPending
  /\ Len(echoed) = total_written
  /\ \A i \in 1..Len(echoed) : echoed[i] = i
  /\ total_read <= expected_bytes /\ total_read <= peer_sent

(* The status tells what happened: OK only with everything echoed, EOF only  *)
(* for a stream that ended before its first byte, TRUNCATED only for one     *)
(* that ended early and whose every byte was echoed, TIMEOUT only after the  *)
(* deadline.                                                                 *)
StatusIsTrue ==
  pc \in {"cleanup", "done"} =>
    /\ status = "OK" => total_written = expected_bytes
    /\ status \in {"EOF", "TRUNCATED"} =>
         /\ peer # "open" /\ total_read = peer_sent /\ total_written = total_read
         /\ total_read < expected_bytes
         /\ status = "EOF" <=> total_read = 0
    /\ status = "TIMEOUT" => expired

(* An edge-triggered wait never misses work: while the call waits and could  *)
(* receive or send, epoll has an event to report.                            *)
NoLostWakeup ==
  pc = "wait" =>
    /\ pending_length # 0 /\ FreeSpace > 0 => Reportable
    /\ Inbox > 0 /\ total_read < expected_bytes => Reportable
    /\ peer # "open" => Reportable

(* However the call ends, after a failed system call too, the epoll instance *)
(* is gone and the descriptor has the flags it came with.  Only the call     *)
(* that restores them can spoil that by failing, and then the status is      *)
(* SYSTEM.                                                                   *)
CallerStateRestored ==
  pc = "done" => /\ ~epoll_open
                 /\ nonblock = original_nonblock \/ flags_failed
                 /\ flags_failed => status = "SYSTEM"

(* With a peer that keeps reading, the call returns. *)
ReadingPeerGetsReturn == <>(pc = "done")

(* The deadline bounds the call whatever the peer does ("Waiting -->         *)
(* TimedOut: monotonic deadline" in the lab's state machine).                *)
DeadlineBoundsCall == <>(pc = "done")
=============================================================================
