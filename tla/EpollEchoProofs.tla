--------------------------- MODULE EpollEchoProofs ---------------------------
(***************************************************************************)
(* Linux lab 01's echo call for every buffer size, request, socket buffer  *)
(* and number of signals: the bytes come back in order, the status tells   *)
(* the truth, and no wait misses an event.                                 *)
(***************************************************************************)
EXTENDS EpollEcho, SequenceTheorems, TLAPS

USE BufferAssumption, ArgumentsAssumption, KernelAssumption

-----------------------------------------------------------------------------
(* What the properties rest on.                                            *)

(* Until the descriptor is registered nothing has been read, and no epoll  *)
(* instance exists; only the cleanup, the last step, restores the flags.   *)
NothingReadYet ==
  /\ pc \in {"start", "register"} => total_read = 0 /\ ~epoll_open
  /\ pc = "start" => nonblock = original_nonblock
  /\ flags_failed => pc = "done"

(* A receive that returned nothing met the end of the stream, never a full *)
(* buffer, and after the end no byte follows.                              *)
EofIsEnd == eof_seen => peer # "open" /\ total_read = peer_sent

(* While the call waits, epoll watches for room as long as output is       *)
(* pending, and what it watches for is either absent or has armed it.      *)
WaitIsArmed ==
  pc = "wait" =>
    /\ {"IN", "RDHUP"} \subseteq interest
    /\ pending_length # 0 => "OUT" \in interest
    /\ Mask \cap Watched # {} => armed

EpollInv ==
  /\ TypeOK /\ EchoInOrder /\ StatusIsTrue /\ CallerStateRestored
  /\ NothingReadYet /\ EofIsEnd /\ WaitIsArmed

-----------------------------------------------------------------------------
(* The buffer.                                                             *)

(* A read is never asked for without room, neither before nor after the    *)
(* pending bytes have moved.                                               *)
LEMMA ReadsHaveRoom ==
  ASSUME TypeOK, WantsRead
  PROVE  /\ Room(CompactedOffset) \in Nat \ {0}
         /\ CompactedOffset + pending_length + Room(CompactedOffset) <= BufferSize
         /\ total_read + Room(CompactedOffset) <= expected_bytes
BY DEF TypeOK, WantsRead, Room, CompactedOffset, AtEnd

(* The pending region may move, its bytes do not change.                   *)
LEMMA CompactionKeepsBytes ==
  ASSUME TypeOK, BufferHoldsPending
  PROVE  /\ Compacted \in [Cell -> Nat]
         /\ CompactedOffset \in Nat /\ CompactedOffset + pending_length <= BufferSize
         /\ \A i \in 0..(pending_length - 1) :
              Compacted[CompactedOffset + i] = total_written + i + 1
<1>1. CompactedOffset \in Nat /\ CompactedOffset + pending_length <= BufferSize
  BY DEF TypeOK, CompactedOffset, AtEnd
<1>2. \A i \in 0..(pending_length - 1) :
        /\ pending_offset + i \in Cell /\ CompactedOffset + i \in Cell
        /\ AtEnd => CompactedOffset + i = i
        /\ ~AtEnd => CompactedOffset + i = pending_offset + i
  BY <1>1 DEF TypeOK, CompactedOffset, Cell
<1>3. Compacted \in [Cell -> Nat]
  <2>1. ASSUME NEW c \in Cell, AtEnd, c < pending_length
        PROVE  buffer[pending_offset + c] \in Nat
    <3>1. pending_offset + c \in Cell
      BY <2>1 DEF TypeOK, AtEnd, Cell
    <3>. QED
      BY <3>1 DEF TypeOK
  <2>. QED
    BY <2>1 DEF Compacted, TypeOK
<1>4. ASSUME NEW i \in 0..(pending_length - 1)
      PROVE  Compacted[CompactedOffset + i] = buffer[pending_offset + i]
  <2>1. i < pending_length /\ i \in Nat
    BY DEF TypeOK
  <2>2. CASE AtEnd
    BY <1>2, <2>1, <2>2 DEF Compacted
  <2>3. CASE ~AtEnd
    BY <1>2, <2>3 DEF Compacted
  <2>. QED
    BY <2>2, <2>3
<1>. QED
  BY <1>1, <1>3, <1>4 DEF BufferHoldsPending

(* What a send takes are the next bytes to be written.                     *)
LEMMA PendingContinues ==
  ASSUME TypeOK, BufferHoldsPending, NEW n \in 1..pending_length
  PROVE  /\ PendingBytes(n) \in Seq(Nat) /\ Len(PendingBytes(n)) = n
         /\ \A i \in 1..n : PendingBytes(n)[i] = total_written + i
<1>1. /\ pending_offset \in Nat /\ pending_length \in Nat /\ total_written \in Nat /\ n \in Nat
  BY DEF TypeOK
<1>2. ASSUME NEW i \in 1..n
      PROVE  buffer[pending_offset + i - 1] = total_written + i
  <2>1. i - 1 \in 0..(pending_length - 1) /\ pending_offset + i - 1 = pending_offset + (i - 1)
    BY <1>1
  <2>2. buffer[pending_offset + (i - 1)] = total_written + (i - 1) + 1
    BY <2>1 DEF BufferHoldsPending
  <2>. QED
    BY <1>1, <2>1, <2>2
<1>3. \A i \in 1..n : PendingBytes(n)[i] = total_written + i
  BY <1>2 DEF PendingBytes
<1>4. PendingBytes(n) \in [1..n -> Nat]
  <2>1. \A i \in 1..n : buffer[pending_offset + i - 1] \in Nat
    BY <1>1, <1>2
  <2>. QED
    BY <2>1 DEF PendingBytes
<1>. QED
  BY <1>1, <1>3, <1>4

(* A successful read continues the pending bytes with the next ones of the *)
(* stream.                                                                 *)
LEMMA ReceivedContinues ==
  ASSUME TypeOK, BufferHoldsPending, WantsRead,
         NEW n \in Nat \ {0}, n <= Room(CompactedOffset)
  PROVE  /\ ReceivedInto(n) \in [Cell -> Nat]
         /\ CompactedOffset \in Nat
         /\ CompactedOffset + (pending_length + n) <= BufferSize
         /\ \A i \in 0..(pending_length + n - 1) :
              ReceivedInto(n)[CompactedOffset + i] = total_written + i + 1
<1>1. /\ CompactedOffset \in Nat /\ pending_length \in Nat /\ total_read \in Nat
      /\ total_written \in Nat /\ BufferSize \in Nat
      /\ total_read = total_written + pending_length
  BY CompactionKeepsBytes DEF TypeOK, BufferHoldsPending
<1>2. CompactedOffset + (pending_length + n) <= BufferSize
  BY <1>1, ReadsHaveRoom
<1>3. ReceivedInto(n) \in [Cell -> Nat]
  <2>1. \A c \in Cell : Compacted[c] \in Nat
    BY CompactionKeepsBytes
  <2>2. \A c \in Cell :
          LET k == c - (CompactedOffset + pending_length)
          IN  k \in 0..(n - 1) => total_read + k + 1 \in Nat
    BY <1>1 DEF Cell
  <2>. QED
    BY <2>1, <2>2 DEF ReceivedInto
<1>4. ASSUME NEW i \in 0..(pending_length + n - 1)
      PROVE  ReceivedInto(n)[CompactedOffset + i] = total_written + i + 1
  <2>. DEFINE c == CompactedOffset + i
              k == c - (CompactedOffset + pending_length)
  <2>1. c \in Cell
    BY <1>1, <1>2 DEF Cell
  <2>2. ReceivedInto(n)[c] = IF k \in 0..(n - 1) THEN total_read + k + 1 ELSE Compacted[c]
    BY <2>1 DEF ReceivedInto
  <2>3. CASE i >= pending_length
    <3>1. k \in 0..(n - 1) /\ total_read + k + 1 = total_written + i + 1
      BY <1>1, <2>3
    <3>. QED
      BY <2>2, <3>1
  <2>4. CASE i < pending_length
    <3>1. k \notin 0..(n - 1) /\ i \in 0..(pending_length - 1)
      BY <1>1, <2>4
    <3>2. Compacted[c] = total_written + i + 1
      BY <3>1, CompactionKeepsBytes
    <3>. QED
      BY <2>2, <3>1, <3>2
  <2>. QED
    BY <1>1, <2>3, <2>4
<1>. QED
  BY <1>1, <1>2, <1>3, <1>4

-----------------------------------------------------------------------------
(* The Boolean part of the types, which the provers want by itself.        *)
Flags ==
  /\ original_nonblock \in BOOLEAN /\ nonblock \in BOOLEAN /\ eof_seen \in BOOLEAN
  /\ progressed \in BOOLEAN /\ armed \in BOOLEAN /\ epoll_open \in BOOLEAN
  /\ expired \in BOOLEAN /\ flags_failed \in BOOLEAN

LEMMA InvInit == Init => EpollInv
<1>. SUFFICES ASSUME Init PROVE EpollInv
  OBVIOUS
<1>1. TypeOK
  <2>1. echoed \in Seq(Nat)
    BY EmptySeq DEF Init
  <2>2. Flags
    BY DEF Init, Flags
  <2>. QED
    BY <2>1, <2>2 DEF Init, Flags, TypeOK, Unlimited
<1>2. EchoInOrder
  BY DEF Init, EchoInOrder, BufferHoldsPending
<1>. QED
  BY <1>1, <1>2 DEF Init, EpollInv, StatusIsTrue, CallerStateRestored, NothingReadYet,
     EofIsEnd, WaitIsArmed

(* The bytes stay where they are in every step but a send, a read or a     *)
(* compaction.                                                             *)
LEMMA BytesStay ==
  ASSUME EchoInOrder, UNCHANGED <<expected_bytes, pending, total_read, total_written, echoed>>,
         peer_sent' >= peer_sent, TypeOK, peer_sent' \in Nat
  PROVE  EchoInOrder'
<1>1. BufferHoldsPending'
  BY DEF EchoInOrder, BufferHoldsPending, pending
<1>. QED
  BY <1>1 DEF EchoInOrder, TypeOK

LEMMA StartStep ==
  ASSUME EpollInv, SetNonblocking \/ NothingExpected \/ Register \/ FlagCallFails
  PROVE  EpollInv'
<1>. USE DEF EpollInv, SetNonblocking, NothingExpected, Register, FlagCallFails
<1>1. TypeOK'
  <2>1. Flags'
    BY DEF Flags, TypeOK, args, totals, work, epoll, world
  <2>. QED
    BY <2>1 DEF Flags, TypeOK, args, pending, totals, work, epoll, stream, world
<1>2. EchoInOrder'
  BY BytesStay DEF TypeOK, args, totals, stream
<1>3. StatusIsTrue' /\ CallerStateRestored' /\ NothingReadYet' /\ EofIsEnd'
  BY DEF TypeOK, args, pending, totals, epoll, stream, world, EchoInOrder, BufferHoldsPending,
     StatusIsTrue, CallerStateRestored, NothingReadYet, EofIsEnd
<1>4. WaitIsArmed'
  <2>1. CASE Register
    <3>1. pending_length = 0 /\ pending_length' = pending_length
      BY <2>1 DEF NothingReadYet, EchoInOrder, BufferHoldsPending, TypeOK, pending
    <3>2. Mask' = Mask
      BY <2>1 DEF Mask, Inbox, FreeSpace, totals, stream
    <3>. QED
      BY <2>1, <3>1, <3>2 DEF WaitIsArmed, Watched
  <2>2. CASE SetNonblocking \/ NothingExpected \/ FlagCallFails
    BY <2>2 DEF WaitIsArmed
  <2>. QED
    BY <2>1, <2>2
<1>. QED
  BY <1>1, <1>2, <1>3, <1>4

LEMMA LeaveStep ==
  ASSUME EpollInv, SystemCallFails \/ WaitTimeout \/ SendBroken \/ Cleanup
  PROVE  EpollInv'
<1>. USE DEF EpollInv, SystemCallFails, WaitTimeout, SendBroken, Cleanup, Leave
<1>1. TypeOK'
  <2>1. Flags'
    BY DEF Flags, TypeOK, args, totals, work, epoll, world
  <2>. QED
    BY <2>1 DEF Flags, TypeOK, args, pending, totals, work, epoll, stream, world
<1>2. EchoInOrder'
  BY BytesStay DEF TypeOK, args, totals, epoll, stream
<1>3. StatusIsTrue' /\ CallerStateRestored' /\ NothingReadYet' /\ EofIsEnd' /\ WaitIsArmed'
  <2>1. UNCHANGED <<args, totals, stream, expired>> /\ pc' # "wait"
    BY DEF epoll, world
  <2>2. StatusIsTrue' /\ EofIsEnd' /\ NothingReadYet' /\ WaitIsArmed'
    BY <2>1 DEF args, totals, stream, world, StatusIsTrue, EofIsEnd, NothingReadYet, WaitIsArmed
  <2>3. CallerStateRestored'
    BY DEF args, epoll, world, CallerStateRestored, NothingReadYet, TypeOK
  <2>. QED
    BY <2>2, <2>3
<1>. QED
  BY <1>1, <1>2, <1>3

LEMMA SkipStep ==
  ASSUME EpollInv, WaitEvent \/ SkipWrite \/ SendAgain \/ SkipRead \/ Check
  PROVE  EpollInv'
<1>. USE DEF EpollInv, WaitEvent, SkipWrite, SendAgain, SkipRead, Check, Leave
<1>1. TypeOK'
  <2>1. /\ pc' \in {"start", "register", "wait", "write", "read", "check", "update",
                    "cleanup", "done"}
        /\ status' \in {"OK", "SYSTEM", "TIMEOUT", "EOF", "TRUNCATED"}
    BY DEF TypeOK
  <2>2. read_budget' \in {Unlimited, 0, 1} /\ write_budget' \in {Unlimited, 0, 1}
    BY DEF TypeOK, work, WantsWrite, Budget, Unlimited, Spend
  <2>3. Flags'
    BY DEF Flags, TypeOK, args, totals, work, epoll, world
  <2>4. UNCHANGED <<args, pending, totals, interest, stream, world>>
    BY DEF epoll
  <2>. QED
    BY <2>1, <2>2, <2>3, <2>4 DEF Flags, TypeOK, args, pending, totals, stream, world
<1>2. EchoInOrder'
  BY BytesStay DEF TypeOK, args, totals, epoll, stream
<1>3. StatusIsTrue'
  BY DEF TypeOK, args, pending, totals, epoll, stream, world, StatusIsTrue, Drained,
     EofIsEnd, EchoInOrder, BufferHoldsPending
<1>4. CallerStateRestored' /\ NothingReadYet' /\ EofIsEnd' /\ WaitIsArmed'
  BY DEF TypeOK, args, pending, totals, epoll, stream, world,
     CallerStateRestored, NothingReadYet, EofIsEnd, WaitIsArmed
<1>. QED
  BY <1>1, <1>2, <1>3, <1>4

(* After EPOLL_CTL_MOD the descriptor is armed if it is ready for what is  *)
(* pending now.                                                            *)
LEMMA UpdateStep ==
  ASSUME EpollInv, UpdateInterest
  PROVE  EpollInv'
<1>. USE DEF EpollInv, UpdateInterest, NewInterest
<1>1. TypeOK'
  BY DEF TypeOK, args, pending, totals, work, stream, world
<1>2. EchoInOrder'
  BY BytesStay DEF TypeOK, args, totals, stream
<1>3. StatusIsTrue' /\ CallerStateRestored' /\ NothingReadYet' /\ EofIsEnd'
  BY DEF args, totals, stream, world, StatusIsTrue, CallerStateRestored, NothingReadYet, EofIsEnd
<1>4. WaitIsArmed'
  BY DEF args, pending, totals, stream, WaitIsArmed, Watched, Mask, Inbox, FreeSpace
<1>. QED
  BY <1>1, <1>2, <1>3, <1>4

(* A partial send moves the head of the pending bytes to the peer.         *)
LEMMA SendStep ==
  ASSUME EpollInv, NEW n \in 1..BufferSize, Send(n)
  PROVE  EpollInv'
<1>. USE DEF EpollInv, Send
<1>1. /\ pending_length \in Nat /\ pending_offset \in Nat /\ n \in 1..pending_length
      /\ total_written \in Nat /\ echoed \in Seq(Nat) /\ Len(echoed) = total_written
      /\ pending_offset + pending_length <= BufferSize /\ BufferSize \in Nat
  BY DEF TypeOK, EchoInOrder
<1>2. /\ PendingBytes(n) \in Seq(Nat) /\ Len(PendingBytes(n)) = n
      /\ \A i \in 1..n : PendingBytes(n)[i] = total_written + i
  BY <1>1, PendingContinues DEF EchoInOrder
<1>4. /\ echoed' \in Seq(Nat) /\ Len(echoed') = total_written + n
      /\ \A i \in 1..(total_written + n) :
           echoed'[i] = IF i <= total_written THEN echoed[i] ELSE PendingBytes(n)[i - total_written]
  <2>. HIDE DEF EpollInv, Send
  <2>1. echoed' = echoed \o PendingBytes(n)
    BY DEF Send
  <2>2. /\ echoed \o PendingBytes(n) \in Seq(Nat)
        /\ Len(echoed \o PendingBytes(n)) = Len(echoed) + Len(PendingBytes(n))
        /\ \A i \in 1..(Len(echoed) + Len(PendingBytes(n))) :
             (echoed \o PendingBytes(n))[i] =
               IF i <= Len(echoed) THEN echoed[i] ELSE PendingBytes(n)[i - Len(echoed)]
    BY <1>1, <1>2, ConcatProperties
  <2>. QED
    BY <1>1, <1>2, <2>1, <2>2
<1>5. /\ pending_offset' \in Nat /\ pending_length' \in Nat
      /\ pending_offset' + pending_length' <= BufferSize
      /\ pending_length' # 0 => pending_offset' = pending_offset + n
  BY <1>1 DEF OffsetAfter
<1>6. TypeOK'
  BY <1>1, <1>4, <1>5 DEF TypeOK, args, epoll, world, WantsWrite, Spend, Unlimited
<1>7. EchoInOrder'
  <2>1. \A i \in 1..Len(echoed') : echoed'[i] = i
    BY <1>1, <1>2, <1>4 DEF EchoInOrder
  <2>2. ASSUME NEW i \in 0..(pending_length' - 1)
        PROVE  buffer[pending_offset' + i] = total_written' + i + 1
    <3>1. n + i \in 0..(pending_length - 1) /\ pending_offset' + i = pending_offset + (n + i)
      BY <1>1, <1>5, <2>2
    <3>2. buffer[pending_offset + (n + i)] = total_written + (n + i) + 1
      BY <3>1 DEF EchoInOrder, BufferHoldsPending
    <3>. QED
      BY <1>1, <3>1, <3>2
  <2>3. BufferHoldsPending'
    BY <1>1, <2>2 DEF EchoInOrder, BufferHoldsPending, TypeOK
  <2>. QED
    BY <1>1, <1>4, <2>1, <2>3 DEF EchoInOrder, args
<1>8. StatusIsTrue' /\ CallerStateRestored' /\ NothingReadYet' /\ EofIsEnd' /\ WaitIsArmed'
  BY DEF world, StatusIsTrue, CallerStateRestored, NothingReadYet, EofIsEnd, WaitIsArmed
<1>. QED
  BY <1>6, <1>7, <1>8

(* A read appends the next bytes of the stream to the pending ones.        *)
LEMMA ReceiveStep ==
  ASSUME EpollInv, NEW n \in 1..BufferSize, Receive(n)
  PROVE  EpollInv'
<1>. USE DEF EpollInv, Receive
<1>1. /\ n \in Nat \ {0} /\ n <= Room(CompactedOffset) /\ BufferHoldsPending
      /\ n <= peer_sent - total_read
  BY DEF EchoInOrder, Inbox, TypeOK
<1>2. /\ buffer' \in [Cell -> Nat] /\ pending_offset' \in Nat
      /\ pending_offset' + pending_length' <= BufferSize
      /\ \A i \in 0..(pending_length' - 1) :
           buffer'[pending_offset' + i] = total_written + i + 1
  <2>1. /\ buffer' = ReceivedInto(n) /\ pending_offset' = CompactedOffset
        /\ pending_length' = pending_length + n /\ pending_length \in Nat
        /\ TypeOK /\ WantsRead
    BY DEF TypeOK
  <2>2. /\ ReceivedInto(n) \in [Cell -> Nat]
        /\ CompactedOffset \in Nat
        /\ CompactedOffset + (pending_length + n) <= BufferSize
        /\ \A i \in 0..(pending_length + n - 1) :
             ReceivedInto(n)[CompactedOffset + i] = total_written + i + 1
    BY <1>1, <2>1, ReceivedContinues
  <2>3. pending_length' - 1 = pending_length + n - 1
    BY <2>1
  <2>. QED
    BY <2>1, <2>2, <2>3
<1>3. TypeOK'
  BY <1>1, <1>2 DEF TypeOK, args, epoll, stream, world, WantsRead, Spend, Unlimited
<1>4. EchoInOrder'
  <2>1. BufferHoldsPending'
    BY <1>1, <1>2 DEF BufferHoldsPending, TypeOK
  <2>2. total_read' <= expected_bytes /\ total_read' <= peer_sent
    BY <1>1, ReadsHaveRoom DEF TypeOK
  <2>. QED
    BY <2>1, <2>2 DEF EchoInOrder, args, stream
<1>5. StatusIsTrue' /\ CallerStateRestored' /\ NothingReadYet' /\ EofIsEnd' /\ WaitIsArmed'
  BY DEF world, StatusIsTrue, CallerStateRestored, NothingReadYet, EofIsEnd, WaitIsArmed, WantsRead
<1>. QED
  BY <1>3, <1>4, <1>5

(* A read without bytes, or an interrupted call, at most moves the pending *)
(* bytes; a result of 0 is the end of the stream.                          *)
LEMMA NoBytesStep ==
  ASSUME EpollInv, ReceiveNothing \/ ReceiveAgain \/ Interrupted
  PROVE  EpollInv'
<1>. USE DEF EpollInv, ReceiveNothing, ReceiveAgain, Interrupted
<1>1. \/ UNCHANGED <<buffer, pending_offset>>
      \/ buffer' = Compacted /\ pending_offset' = CompactedOffset
  OBVIOUS
<1>2. BufferHoldsPending
  BY DEF EchoInOrder
<1>3. /\ buffer' \in [Cell -> Nat] /\ pending_offset' \in Nat
      /\ pending_offset' + pending_length <= BufferSize
      /\ \A i \in 0..(pending_length - 1) :
           buffer'[pending_offset' + i] = total_written + i + 1
  BY <1>1, <1>2, CompactionKeepsBytes DEF BufferHoldsPending, TypeOK
<1>4. /\ UNCHANGED <<pending_length, total_read, total_written>>
      /\ UNCHANGED <<args, epoll, stream, expired, status>>
  BY DEF totals, world
<1>5. TypeOK'
  <2>1. Flags'
    BY DEF Flags, TypeOK, args, totals, epoll, world
  <2>2. read_budget' \in {Unlimited, 0, 1} /\ write_budget' \in {Unlimited, 0, 1}
    BY DEF TypeOK, WantsRead, Spend, Unlimited
  <2>3. pc' \in {"write", "check"} /\ signals' \in Nat
    BY DEF TypeOK, world
  <2>. QED
    BY <1>3, <1>4, <2>1, <2>2, <2>3 DEF Flags, TypeOK, args, epoll, stream
<1>6. EchoInOrder'
  BY <1>2, <1>3, <1>4 DEF EchoInOrder, BufferHoldsPending, args, stream
<1>7. EofIsEnd'
  <2>1. CASE ReceiveNothing
    <3>1. Inbox = 0 /\ peer # "open" /\ TypeOK
      BY <2>1, ReadsHaveRoom
    <3>2. UNCHANGED <<peer, peer_sent, total_read>>
      BY <2>1 DEF stream
    <3>. QED
      BY <3>1, <3>2 DEF EofIsEnd, Inbox, TypeOK
  <2>2. CASE ReceiveAgain \/ Interrupted
    BY <2>2 DEF EofIsEnd, totals, stream
  <2>. QED
    BY <2>1, <2>2
<1>8. StatusIsTrue' /\ CallerStateRestored' /\ NothingReadYet' /\ WaitIsArmed'
  BY DEF world, StatusIsTrue, CallerStateRestored, NothingReadYet, WaitIsArmed
<1>. QED
  BY <1>5, <1>6, <1>7, <1>8

(* Whatever the peer does while the call waits arms the descriptor if it   *)
(* adds to what epoll watches for.                                         *)
LEMMA EnvironmentStep ==
  ASSUME EpollInv, Environment
  PROVE  EpollInv'
<1>. USE DEF EpollInv, Environment, PeerSends, PeerReads, PeerShutsDown, PeerCloses,
         DeadlinePasses, Fires
<1>1. UNCHANGED <<call, interest, epoll_open, nonblock, echoed>>
  BY DEF epoll, stream
<1>2. TypeOK'
  <2>1. Flags'
    BY DEF Flags, TypeOK, call, args, totals, work, epoll, world
  <2>2. /\ peer' \in {"open", "shut", "closed"}
        /\ peer_sent' \in Nat /\ peer_read' \in Nat /\ signals' \in Nat
    BY DEF TypeOK, stream, world
  <2>. QED
    BY <1>1, <2>1, <2>2 DEF Flags, TypeOK, call, args, pending, totals, work
<1>3. EchoInOrder'
  BY <1>1, BytesStay DEF TypeOK, call, args, totals, stream
<1>4. StatusIsTrue' /\ CallerStateRestored' /\ NothingReadYet' /\ EofIsEnd'
  BY <1>1 DEF TypeOK, call, args, totals, stream, epoll, world, StatusIsTrue,
     CallerStateRestored, NothingReadYet, EofIsEnd
<1>5. WaitIsArmed'
  <2>1. CASE PeerSends
    BY <2>1 DEF WaitIsArmed, call, pending, Watched, Mask, Inbox, FreeSpace, totals
  <2>2. CASE PeerReads
    BY <2>2 DEF WaitIsArmed, call, pending, Watched, Mask, Inbox, FreeSpace, totals
  <2>3. CASE PeerShutsDown
    BY <2>3 DEF WaitIsArmed, call, pending, Watched, Mask, Inbox, FreeSpace, totals
  <2>4. CASE PeerCloses
    BY <2>4 DEF WaitIsArmed, call, pending, Watched, Mask, Inbox, FreeSpace, totals
  <2>5. CASE DeadlinePasses
    BY <2>5 DEF WaitIsArmed, call, pending, Watched, Mask, Inbox, FreeSpace, totals, epoll,
       stream
  <2>. QED
    BY <2>1, <2>2, <2>3, <2>4, <2>5
<1>. QED
  BY <1>2, <1>3, <1>4, <1>5

LEMMA InvNext == EpollInv /\ [Next]_vars => EpollInv'
<1>. SUFFICES ASSUME EpollInv, [Next]_vars PROVE EpollInv'
  OBVIOUS
<1>1. CASE Call
  BY <1>1, StartStep, LeaveStep, SkipStep, UpdateStep, SendStep, ReceiveStep, NoBytesStep
     DEF Call
<1>2. CASE SystemCallFails \/ FlagCallFails
  BY <1>2, StartStep, LeaveStep
<1>3. CASE Environment
  BY <1>3, EnvironmentStep
<1>4. CASE UNCHANGED vars
  BY <1>4 DEF vars, args, pending, totals, work, epoll, stream, world, EpollInv, TypeOK,
     EchoInOrder, BufferHoldsPending, StatusIsTrue, CallerStateRestored, NothingReadYet,
     EofIsEnd, WaitIsArmed, Watched, Mask, Inbox, FreeSpace
<1>. QED
  BY <1>1, <1>2, <1>3, <1>4 DEF Next

LEMMA EpollInvariant == Spec => []EpollInv
BY InvInit, InvNext, PTL DEF Spec

-----------------------------------------------------------------------------
(* The buffer's indices stay inside the buffer in every call.              *)
THEOREM EpollTypes == Spec => []TypeOK
BY EpollInvariant, PTL DEF EpollInv

(* Whatever the sizes of the buffer, of the request and of the kernel's    *)
(* queues, the peer gets its own bytes back, in order, none lost and none  *)
(* repeated, through every partial send, compaction and interrupted call.  *)
THEOREM EchoComesBackInOrder == Spec => []EchoInOrder
BY EpollInvariant, PTL DEF EpollInv

(* The status of a call says what happened to the stream.                  *)
THEOREM StatusTellsTheTruth == Spec => []StatusIsTrue
BY EpollInvariant, PTL DEF EpollInv

(* In both trigger modes a waiting call with work it could do has an event *)
(* to report.                                                              *)
THEOREM NoWakeupIsLost == Spec => []NoLostWakeup
<1>1. EpollInv => NoLostWakeup
  <2>. SUFFICES ASSUME EpollInv, pc = "wait"
                PROVE  /\ pending_length # 0 /\ FreeSpace > 0 => Reportable
                       /\ Inbox > 0 => Reportable
                       /\ peer # "open" => Reportable
    BY DEF NoLostWakeup
  <2>1. /\ {"IN", "RDHUP"} \subseteq interest
        /\ pending_length # 0 => "OUT" \in interest
        /\ Mask \cap Watched # {} => armed
    BY DEF EpollInv, WaitIsArmed
  <2>2. CASE pending_length # 0 /\ FreeSpace > 0
    <3>1. "OUT" \in Mask /\ "OUT" \in Watched
      BY <2>1, <2>2 DEF Mask, Watched
    <3>. QED
      BY <2>1, <3>1 DEF Reportable
  <2>3. CASE Inbox > 0 \/ peer # "open"
    <3>1. "IN" \in Mask /\ "IN" \in Watched
      BY <2>1, <2>3 DEF Mask, Watched
    <3>. QED
      BY <2>1, <3>1 DEF Reportable
  <2>. QED
    BY <2>2, <2>3
<1>. QED
  BY <1>1, EpollInvariant, PTL

(* However the call ends, after a failed system call too, the epoll        *)
(* instance is gone and the descriptor's flags are as they were; only the  *)
(* call that restores them can spoil that, and then SYSTEM says so.        *)
THEOREM CallerGetsItsStateBack == Spec => []CallerStateRestored
BY EpollInvariant, PTL DEF EpollInv

(* A receive is never asked for no bytes: its result of 0, which the call  *)
(* takes for the end of the stream, is the end of the stream.              *)
THEOREM ZeroIsEndOfStream ==
  Spec => [][ReceiveNothing => peer # "open" /\ total_read = peer_sent]_vars
<1>1. EpollInv /\ [Next]_vars =>
        [ReceiveNothing => peer # "open" /\ total_read = peer_sent]_vars
  <2>. SUFFICES ASSUME EpollInv, ReceiveNothing
                PROVE  peer # "open" /\ total_read = peer_sent
    OBVIOUS
  <2>1. TypeOK /\ WantsRead
    BY DEF EpollInv, ReceiveNothing
  <2>2. Inbox = 0 /\ peer # "open"
    BY <2>1, ReadsHaveRoom DEF ReceiveNothing
  <2>. QED
    BY <2>1, <2>2 DEF Inbox, TypeOK
<1>. QED
  BY <1>1, EpollInvariant, PTL DEF Spec

=============================================================================
