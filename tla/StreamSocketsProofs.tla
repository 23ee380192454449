------------------------- MODULE StreamSocketsProofs -------------------------
(***************************************************************************)
(* Lesson 08 for every payload, capacity, prefix size and kernel room: an  *)
(* exchange that succeeds echoed the request, a failure says why, and the  *)
(* listener is handed back.                                                *)
(***************************************************************************)
EXTENDS StreamSockets, SequenceTheorems, TLAPS

USE SizesAssumption DEF End, Other

-----------------------------------------------------------------------------
(* The strengthening.  Both frames of an exchange are the same bytes: what *)
(* an end has taken out of its channel and what the channel holds are a    *)
(* prefix of them, which ends where the other end has got to.              *)

ClientBefore == {"connect"}
ServerBefore == {"flags", "listen", "accept", "restore"}
Transfers    == {"send_header", "send_payload", "recv_header", "recv_payload"}
Before(p)    == IF p = "client" THEN ClientBefore ELSE ServerBefore

Byte  == {"length", "payload"} \X Nat
Total == HeaderSize + length
Frame(i) == IF i <= HeaderSize THEN <<"length", length>> ELSE <<"payload", i - HeaderSize>>

Identity(n) == [i \in 1..n |-> i]

(* The transfers an end has not come to, in its own order.                 *)
BeforeTaking(p) ==
  IF p = "client" THEN {"connect", "send_header", "send_payload"} ELSE ServerBefore
BeforeSending(p) ==
  IF p = "client" THEN {"connect"} ELSE ServerBefore \cup {"recv_header", "recv_payload"}

Taken(p) ==
  IF pc[p] \in BeforeTaking(p) THEN 0
  ELSE IF pc[p] = "recv_header" THEN offset[p]
  ELSE IF pc[p] = "recv_payload" THEN HeaderSize + offset[p]
  ELSE Total

Sent(p) ==
  IF pc[p] \in BeforeSending(p) THEN 0
  ELSE IF pc[p] = "send_header" THEN offset[p]
  ELSE IF pc[p] = "send_payload" THEN HeaderSize + offset[p]
  ELSE Total

Failed(p) == pc[p] \in {"close", "done"} /\ status[p] # "OK"

Types ==
  /\ length \in Lengths /\ client_capacity \in ClientCapacities
  /\ original_nonblock \in BOOLEAN /\ nonblock \in BOOLEAN /\ flags_failed \in BOOLEAN
  /\ pc \in [End -> ClientBefore \cup ServerBefore \cup Transfers \cup {"close", "done"}]
  /\ status \in [End -> {"RUNNING", "OK", "EOF", "TRUNCATED", "TIMEOUT", "CAPACITY",
                         "SYSTEM", "VANISHED"}]
  /\ expired \in [End -> BOOLEAN]
  /\ fd \in [End -> {"none", "open", "closed"}]
  /\ backlog \in {"empty", "waiting"}
  /\ offset \in [End -> Nat]
  /\ frame_length \in [End -> {-1, length}]
  /\ payload \in [End -> Seq(Nat)]
  /\ channel \in [End -> Seq(Byte)]
  /\ \A p \in End : Len(channel[p]) <= Room /\ Len(payload[p]) <= Capacity(p)

(* Where an end stands decides what it knows and holds.                    *)
Position(p) ==
  /\ pc[p] \in Before(p) \cup Transfers \cup {"close", "done"}
  /\ pc[p] \in (Before(p) \ {"restore"}) \cup Transfers => status[p] = "RUNNING"
  /\ pc[p] = "restore" => status[p] \in {"RUNNING", "TIMEOUT", "SYSTEM"}
  /\ pc[p] \in {"close", "done"} => status[p] # "RUNNING"
  /\ fd[p] = "closed" => pc[p] = "done"
  /\ pc[p] = "done" => fd[p] # "open"
  /\ pc[p] \in Before(p) => offset[p] = 0
  /\ pc[p] \in BeforeTaking(p) \cup {"recv_header"} => payload[p] = <<>>
  /\ pc[p] = "recv_header" =>
       /\ offset[p] <= HeaderSize
       /\ offset[p] = 0 => frame_length[p] = -1
  /\ pc[p] = "recv_header" /\ offset[p] # 0 => frame_length[p] = length
  /\ pc[p] \in Before(p) => frame_length[p] = -1
  /\ pc[p] = "recv_payload" =>
       /\ frame_length[p] = length /\ length <= Capacity(p)
       /\ offset[p] <= length /\ payload[p] = Identity(offset[p])
  /\ pc[p] \in {"send_header", "send_payload"} => frame_length[p] = length
  /\ pc[p] = "send_header" => offset[p] <= HeaderSize
  /\ pc[p] = "send_payload" => offset[p] <= length
  /\ p = "server" /\ pc[p] \in {"send_header", "send_payload"} =>
       payload[p] = Identity(length)
  /\ pc[p] \in {"close", "done"} /\ status[p] = "OK" => payload[p] = Identity(length)

(* The channel to p.                                                       *)
Stream(p) ==
  ~Failed(p) =>
    /\ Taken(p) + Len(channel[p]) <= Total
    /\ ~Failed(Other(p)) => Taken(p) + Len(channel[p]) = Sent(Other(p))
    /\ \A i \in 1..Len(channel[p]) : channel[p][i] = Frame(Taken(p) + i)

(* What a server that has stopped without success left behind.             *)
Echoed == Taken("client") + Len(channel["client"])

FailedServer ==
  Failed("server") /\ ~Failed("client") =>
    /\ Echoed = Total => status["server"] = "SYSTEM"
    /\ Echoed > 0 => /\ channel["server"] = <<>> /\ Sent("client") = Total
                     /\ payload["server"] = Identity(length)

(* The flags between their change and their restoration.                   *)
FlagsKept ==
  /\ pc["server"] \in {"flags"} \cup Transfers => nonblock = original_nonblock
  /\ pc["server"] \in {"close", "done"} => nonblock = original_nonblock \/ flags_failed
  /\ flags_failed => pc["server"] \in {"close", "done"} /\ status["server"] = "SYSTEM"

(* A result of a transfer says why it ended.                               *)
Causes ==
  \A p \in End :
    /\ status[p] = "TIMEOUT" => expired[p]
    /\ status[p] = "CAPACITY" => length > Capacity(p) /\ payload[p] = <<>>
    /\ status[p] \in {"EOF", "TRUNCATED"} =>
         /\ fd[Other(p)] = "closed"
         /\ status[Other(p)] \in {"TIMEOUT", "CAPACITY", "SYSTEM", "EOF", "TRUNCATED",
                                  "VANISHED"}

ExchangeInv ==
  /\ Types /\ (\A p \in End : Position(p) /\ Stream(p))
  /\ FailedServer /\ FlagsKept /\ Causes

-----------------------------------------------------------------------------
(* Sequences.                                                              *)

LEMMA IdentityGrows ==
  ASSUME NEW k \in Nat, NEW n \in Nat, NEW s, s = [i \in 1..n |-> k + i]
  PROVE  Identity(k) \o s = Identity(k + n)
<1>1. Identity(k) \in Seq(Nat) /\ Len(Identity(k)) = k /\ \A i \in 1..k : Identity(k)[i] = i
  BY DEF Identity
<1>2. s \in Seq(Nat) /\ Len(s) = n /\ \A i \in 1..n : s[i] = k + i
  OBVIOUS
<1>3. /\ Identity(k + n) \in Seq(Nat) /\ Len(Identity(k + n)) = k + n
      /\ \A i \in 1..(k + n) : Identity(k + n)[i] = i
  BY DEF Identity
<1>. DEFINE t == Identity(k) \o s
<1>4. /\ t \in Seq(Nat) /\ Len(t) = k + n
      /\ \A i \in 1..(k + n) : t[i] = IF i <= k THEN Identity(k)[i] ELSE s[i - k]
  BY <1>1, <1>2, ConcatProperties
<1>5. \A i \in 1..(k + n) : t[i] = Identity(k + n)[i]
  BY <1>1, <1>2, <1>3, <1>4
<1>. QED
  BY <1>3, <1>4, <1>5, SeqEqual

(* The n bytes of a buffer behind the first k.                             *)
LEMMA Slice ==
  ASSUME NEW S, NEW w, NEW k \in Nat, NEW n \in Nat,
         \A i \in (k + 1)..(k + n) : w[i] \in S
  PROVE  /\ SubSeq(w, k + 1, k + n) \in Seq(S)
         /\ Len(SubSeq(w, k + 1, k + n)) = n
         /\ \A i \in 1..n : SubSeq(w, k + 1, k + n)[i] = w[k + i]
<1>1. ASSUME NEW a \in Int, NEW b \in Int, a = k + 1, b = k + n
      PROVE  /\ SubSeq(w, a, b) \in Seq(S)
             /\ Len(SubSeq(w, a, b)) = n
             /\ \A i \in 1..n : SubSeq(w, a, b)[i] = w[k + i]
  <2>1. \A i \in a..b : w[i] \in S
    BY <1>1
  <2>2. /\ SubSeq(w, a, b) \in Seq(S)
        /\ Len(SubSeq(w, a, b)) = IF a <= b THEN b - a + 1 ELSE 0
        /\ \A i \in 1..(b - a + 1) : SubSeq(w, a, b)[i] = w[a + i - 1]
    BY <2>1, SubSeqProperties
  <2>3. b - a + 1 = n /\ (a <= b <=> n # 0)
    BY <1>1
  <2>4. \A i \in 1..n : a + i - 1 = k + i
    BY <1>1
  <2>. QED
    BY <2>2, <2>3, <2>4
<1>. QED
  BY <1>1

(* A receive takes the first n bytes of a channel.                         *)
LEMMA ReceivedRest ==
  ASSUME NEW c \in Seq(Byte), NEW n \in 1..Len(c)
  PROVE  /\ SubSeq(c, n + 1, Len(c)) \in Seq(Byte)
         /\ Len(SubSeq(c, n + 1, Len(c))) = Len(c) - n
         /\ \A i \in 1..(Len(c) - n) : SubSeq(c, n + 1, Len(c))[i] = c[n + i]
<1>1. Len(c) \in Nat /\ \A i \in 1..Len(c) : c[i] \in Byte
  BY ElementOfSeq
<1>2. PICK m \in Nat : n + m = Len(c)
  <2>1. Len(c) - n \in Nat /\ n + (Len(c) - n) = Len(c)
    BY <1>1
  <2>. QED
    BY <2>1
<1>3. n \in Nat /\ \A i \in (n + 1)..(n + m) : c[i] \in Byte
  BY <1>1, <1>2
<1>4. /\ SubSeq(c, n + 1, n + m) \in Seq(Byte)
      /\ Len(SubSeq(c, n + 1, n + m)) = m
      /\ \A i \in 1..m : SubSeq(c, n + 1, n + m)[i] = c[n + i]
  BY <1>3, Slice
<1>5. m = Len(c) - n
  BY <1>1, <1>2
<1>. QED
  BY <1>2, <1>4, <1>5

-----------------------------------------------------------------------------
(* The sizes of an exchange.                                               *)
LEMMA Sizes ==
  ASSUME Types
  PROVE  /\ length \in Nat /\ HeaderSize \in Nat \ {0} /\ Total \in Nat \ {0}
         /\ \A p \in End : Capacity(p) \in Nat
BY DEF Types, Total, Capacity

LEMMA Reached ==
  ASSUME Types, NEW p \in End, Position(p)
  PROVE  /\ Taken(p) \in 0..Total /\ Sent(p) \in 0..Total
         /\ pc[p] \in Transfers => ~Failed(p)
<1>1. /\ length \in Nat /\ HeaderSize \in Nat \ {0} /\ offset[p] \in Nat
  BY Sizes DEF Types
<1>. QED
  BY <1>1 DEF Position, Taken, Sent, Total, Failed, BeforeTaking, BeforeSending, ServerBefore,
     Transfers

(* Header and payload are sent as they are written in the frame.           *)
LEMMA WireIsFrame ==
  ASSUME Types, NEW p \in End, Position(p), Sending(p), NEW n \in 1..(Target(p) - offset[p])
  PROVE  /\ SubSeq(Wire(p), offset[p] + 1, offset[p] + n) \in Seq(Byte)
         /\ Len(SubSeq(Wire(p), offset[p] + 1, offset[p] + n)) = n
         /\ \A i \in 1..n : SubSeq(Wire(p), offset[p] + 1, offset[p] + n)[i] = Frame(Sent(p) + i)
         /\ Sent(p) + n <= Total
<1>. DEFINE k == offset[p]
<1>1. /\ length \in Nat /\ HeaderSize \in Nat \ {0} /\ k \in Nat /\ n \in Nat \ {0}
      /\ frame_length[p] = length
      /\ Target(p) = IF pc[p] = "send_header" THEN HeaderSize ELSE length
      /\ k + n <= Target(p)
  <2>1. length \in Nat /\ HeaderSize \in Nat \ {0} /\ k \in Nat
    BY Sizes DEF Types
  <2>2. frame_length[p] = length
    BY DEF Position, Sending
  <2>3. Target(p) = IF pc[p] = "send_header" THEN HeaderSize ELSE length
    BY <2>2 DEF Sending, Target, InHeader
  <2>. QED
    BY <2>1, <2>2, <2>3
<1>2. /\ pc[p] = "send_header" => Sent(p) = k
      /\ pc[p] = "send_payload" => Sent(p) = HeaderSize + k
  BY DEF Sent, BeforeSending, ServerBefore
<1>3. ASSUME NEW i \in (k + 1)..(k + n)
      PROVE  Wire(p)[i] = Frame((Sent(p) - k) + i)
  <2>1. i \in Nat /\ i >= 1 /\ i <= Target(p)
    BY <1>1
  <2>2. CASE pc[p] = "send_header"
    BY <1>1, <1>2, <2>1, <2>2 DEF Wire, Frame
  <2>3. CASE pc[p] = "send_payload" /\ p = "client"
    BY <1>1, <1>2, <2>1, <2>3 DEF Wire, Frame
  <2>4. CASE pc[p] = "send_payload" /\ p = "server"
    <3>1. payload[p] = Identity(length)
      BY <2>4 DEF Position
    <3>2. Len(Identity(length)) = length /\ Identity(length)[i] = i
      BY <1>1, <2>1, <2>4 DEF Identity
    <3>3. Wire(p) = [j \in 1..length |-> <<"payload", Identity(length)[j]>>]
      BY <2>4, <3>1, <3>2 DEF Wire
    <3>4. /\ (Sent(p) - k) + i = HeaderSize + i /\ (HeaderSize + i) - HeaderSize = i
          /\ ~(HeaderSize + i <= HeaderSize)
      BY <1>1, <1>2, <2>1, <2>4
    <3>5. Wire(p)[i] = <<"payload", i>>
      BY <1>1, <2>1, <2>4, <3>2, <3>3
    <3>. QED
      BY <3>4, <3>5 DEF Frame
  <2>. QED
    BY <2>2, <2>3, <2>4 DEF Sending
<1>4. \A i \in (k + 1)..(k + n) : Wire(p)[i] \in Byte
  <2>1. \A j \in Nat : j >= 1 => Frame(j) \in Byte
    BY <1>1 DEF Frame, Byte
  <2>2. ASSUME NEW i \in (k + 1)..(k + n)
        PROVE  (Sent(p) - k) + i \in Nat /\ (Sent(p) - k) + i >= 1
    BY <1>1, <1>2 DEF Sending
  <2>. QED
    BY <1>3, <2>1, <2>2
<1>. DEFINE s == SubSeq(Wire(p), k + 1, k + n)
<1>5. s \in Seq(Byte) /\ Len(s) = n /\ \A i \in 1..n : s[i] = Wire(p)[k + i]
  BY <1>1, <1>4, Slice
<1>6. Len(s) = n /\ \A i \in 1..n : s[i] = Frame(Sent(p) + i)
  <2>2. Sent(p) \in Nat
    BY <1>1, <1>2 DEF Sending
  <2>3. ASSUME NEW i \in 1..n
        PROVE  s[i] = Frame(Sent(p) + i)
    <3>1. k + i \in (k + 1)..(k + n) /\ (Sent(p) - k) + (k + i) = Sent(p) + i
      BY <1>1, <2>2
    <3>. QED
      BY <1>3, <1>5, <3>1
  <2>. QED
    BY <1>5, <2>3
<1>7. Sent(p) + n <= Total
  BY <1>1, <1>2 DEF Sending, Total
<1>. QED
  BY <1>5, <1>6, <1>7, Zenon

-----------------------------------------------------------------------------
(* What a step leaves alone.                                               *)
Same(q) ==
  /\ length' = length /\ client_capacity' = client_capacity
  /\ pc'[q] = pc[q] /\ status'[q] = status[q] /\ fd'[q] = fd[q] /\ offset'[q] = offset[q]
  /\ frame_length'[q] = frame_length[q] /\ payload'[q] = payload[q]

LEMMA PositionKept ==
  ASSUME NEW q \in End, Position(q), Same(q)
  PROVE  /\ Position(q)' /\ Taken(q)' = Taken(q) /\ Sent(q)' = Sent(q)
         /\ Failed(q)' <=> Failed(q)
<1>. USE DEF Same
<1>1. Position(q)'
  BY DEF Position, Capacity, Before, ClientBefore, ServerBefore, Transfers, BeforeTaking,
     Identity
<1>. QED
  BY <1>1 DEF Taken, Sent, Failed, Total, BeforeTaking, BeforeSending, ServerBefore

(* Neither end's progress changes, nor the channel between them.           *)
LEMMA StreamKept ==
  ASSUME NEW p \in End, Stream(p), channel'[p] = channel[p], length' = length,
         ~Failed(p)' => ~Failed(p) /\ Taken(p)' = Taken(p),
         ~Failed(Other(p))' => ~Failed(Other(p)) /\ Sent(Other(p))' = Sent(Other(p))
  PROVE  Stream(p)'
BY DEF Stream, Total, Frame

LEMMA FailedServerKept ==
  ASSUME FailedServer, Failed("server"), channel' = channel, length' = length,
         status'["server"] = status["server"], payload'["server"] = payload["server"],
         ~Failed("client")' => /\ ~Failed("client") /\ Taken("client")' = Taken("client")
                               /\ Sent("client")' = Sent("client")
  PROVE  FailedServer'
BY DEF FailedServer, Echoed, Total, Identity

(* A server that stops without success while the client's calls go on has  *)
(* echoed nothing, or it had received everything.                          *)
LEMMA ServerFails ==
  ASSUME ExchangeInv, ~Failed("server"), channel' = channel, length' = length,
         payload'["server"] = payload["server"],
         Sent("server") = Total => status'["server"] = "SYSTEM",
         ~Failed("client")' => /\ ~Failed("client") /\ Taken("client")' = Taken("client")
                               /\ Sent("client")' = Sent("client")
  PROVE  FailedServer'
<1>. SUFFICES ASSUME ~Failed("client")
              PROVE  /\ Echoed = Total => status'["server"] = "SYSTEM"
                     /\ Echoed > 0 => /\ channel["server"] = <<>> /\ Sent("client") = Total
                                      /\ payload["server"] = Identity(length)
  BY DEF FailedServer, Echoed, Total, Identity
<1>1. /\ Types /\ Position("server") /\ Position("client")
      /\ Stream("server") /\ Stream("client")
  BY DEF ExchangeInv
<1>2. Echoed = Sent("server")
  BY <1>1 DEF Stream, Echoed
<1>3. Taken("server") + Len(channel["server"]) = Sent("client")
  BY <1>1 DEF Stream
<1>4. ASSUME Echoed > 0
      PROVE  /\ channel["server"] = <<>> /\ Sent("client") = Total
             /\ payload["server"] = Identity(length)
  <2>1. pc["server"] \in {"send_header", "send_payload", "close", "done"}
    BY <1>1, <1>2, <1>4 DEF Sent, BeforeSending, Position, Before, ServerBefore, Transfers
  <2>2. Taken("server") = Total /\ payload["server"] = Identity(length)
    BY <1>1, <2>1 DEF Taken, BeforeTaking, ServerBefore, Position, Failed
  <2>3. Sent("client") \in 0..Total /\ Total \in Nat /\ channel["server"] \in Seq(Byte)
    BY <1>1, Reached, Sizes DEF Types
  <2>4. Len(channel["server"]) = 0
    BY <1>3, <2>2, <2>3
  <2>. QED
    BY <1>3, <2>2, <2>3, <2>4, EmptySeq
<1>. QED
  BY <1>2, <1>4

-----------------------------------------------------------------------------
(* Steps.  First the one that all failures of a transfer share.            *)
Failure == {"EOF", "TRUNCATED", "TIMEOUT", "CAPACITY", "SYSTEM"}

LEMMA FailStep ==
  ASSUME ExchangeInv, NEW p \in End, NEW result \in Failure,
         pc[p] \in {"flags", "restore"} \cup Transfers, Fail(p, result),
         result # "SYSTEM" => pc[p] \in Transfers,
         UNCHANGED <<args, offset, frame_length, payload, expired, channel, fd, backlog, nonblock>>,
         flags_failed' = IF pc[p] = "restore" THEN TRUE ELSE flags_failed,
         result = "TIMEOUT" => expired[p],
         result = "CAPACITY" => length > Capacity(p) /\ payload[p] = <<>>,
         result \in {"EOF", "TRUNCATED"} =>
           fd[Other(p)] = "closed" /\ status[Other(p)] \in Failure \cup {"VANISHED"},
         p = "server" /\ Sent(p) = Total => result = "SYSTEM"
  PROVE  ExchangeInv'
<1>. DEFINE q == Other(p)
<1>1. /\ Types /\ q \in End /\ q # p /\ Position(p) /\ Position(q) /\ Stream(p) /\ Stream(q)
      /\ FailedServer /\ FlagsKept /\ Causes
  BY DEF ExchangeInv
<1>2. /\ pc' = [pc EXCEPT ![p] = "close"] /\ status' = [status EXCEPT ![p] = result]
      /\ UNCHANGED <<length, client_capacity, original_nonblock, offset, frame_length, payload,
                     expired, channel, fd, backlog, nonblock>>
      /\ flags_failed' = flags_failed \/ flags_failed' = TRUE
  BY DEF Fail, args
<1>3. pc'[p] = "close" /\ status'[p] = result /\ Same(q)
  BY <1>1, <1>2 DEF Types, Same
<1>4. Types'
  <2>1. /\ UNCHANGED <<length, client_capacity, original_nonblock, nonblock, expired>>
        /\ flags_failed' \in BOOLEAN
    BY <1>1, <1>2 DEF Types
  <2>2. /\ pc' \in [End -> ClientBefore \cup ServerBefore \cup Transfers \cup {"close", "done"}]
        /\ status' \in [End -> {"RUNNING", "OK", "EOF", "TRUNCATED", "TIMEOUT", "CAPACITY",
                                "SYSTEM", "VANISHED"}]
    BY <1>1, <1>2 DEF Types, Failure
  <2>. QED
    BY <1>1, <1>2, <2>1, <2>2 DEF Types, Capacity
<1>5. Failed(p)'
  BY <1>3 DEF Failed, Failure
<1>6. Position(p)' /\ Position(q)'
  <2>1. Position(p)'
    BY <1>1, <1>2, <1>3 DEF Position, Before, ClientBefore, ServerBefore, Transfers,
       BeforeTaking, Failure
  <2>. QED
    BY <1>1, <1>3, <2>1, PositionKept
<1>7. Stream(p)' /\ Stream(q)'
  <2>1. Taken(q)' = Taken(q) /\ (Failed(q)' <=> Failed(q))
    BY <1>1, <1>3, PositionKept
  <2>2. Stream(p)'
    BY <1>5 DEF Stream
  <2>3. Other(q) = p
    OBVIOUS
  <2>4. Stream(q)'
    BY <1>1, <1>2, <1>5, <2>1, <2>3, StreamKept
  <2>. QED
    BY <2>2, <2>4
<1>8. FailedServer'
  <2>1. CASE p = "server"
    <3>1. /\ Taken("client")' = Taken("client") /\ Sent("client")' = Sent("client")
          /\ Failed("client")' <=> Failed("client")
      BY <1>1, <1>3, <2>1, PositionKept
    <3>2. ~Failed("server") /\ (Sent("server") = Total => status'["server"] = "SYSTEM")
      BY <1>3, <2>1 DEF Failed, Transfers
    <3>. QED
      BY <1>2, <3>1, <3>2, ServerFails
  <2>2. CASE p = "client"
    BY <1>5, <2>2 DEF FailedServer
  <2>. QED
    BY <2>1, <2>2
<1>9. FlagsKept'
  <2>1. CASE p = "server"
    BY <1>1, <1>2, <1>3, <2>1 DEF FlagsKept, Transfers
  <2>2. CASE p = "client"
    BY <1>1, <1>2, <1>3, <2>2 DEF FlagsKept, Same, Position, Before, ClientBefore, Transfers
  <2>. QED
    BY <2>1, <2>2
<1>10. Causes'
  <2>1. fd[p] # "closed"
    BY <1>1 DEF Position, Transfers
  <2>2. \A r \in End : r = p \/ r = q
    OBVIOUS
  <2>. QED
    BY <1>1, <1>2, <1>3, <2>1, <2>2 DEF Causes, Capacity, Failure, Same
<1>. QED
  BY <1>1, <1>4, <1>6, <1>7, <1>8, <1>9, <1>10 DEF ExchangeInv

(* An incomplete transfer is one of an unfinished stream.                  *)
LEMMA Incomplete ==
  ASSUME Types, NEW p \in End, Position(p), pc[p] \in Transfers, offset[p] < Target(p)
  PROVE  /\ p = "server" => Sent(p) < Total
         /\ Receiving(p) => Taken(p) < Total
<1>1. /\ length \in Nat /\ HeaderSize \in Nat \ {0} /\ offset[p] \in Nat
  BY Sizes DEF Types
<1>2. Target(p) = IF pc[p] \in {"send_header", "recv_header"} THEN HeaderSize ELSE length
  BY DEF Target, InHeader, Position, Transfers
<1>3. p = "server" => Sent(p) < Total
  BY <1>1, <1>2 DEF Sent, BeforeSending, ServerBefore, Total, Transfers
<1>4. Receiving(p) => Taken(p) < Total
  BY <1>1, <1>2 DEF Taken, BeforeTaking, ServerBefore, Total, Receiving
<1>. QED
  BY <1>3, <1>4

LEMMA InTransfer ==
  ASSUME NEW p \in End
  PROVE  /\ Sending(p) \/ Receiving(p) <=> pc[p] \in Transfers
BY DEF Sending, Receiving, Transfers

(* Bytes that end early are bytes of an end that did not succeed.          *)
LEMMA EarlyEnd ==
  ASSUME ExchangeInv, NEW p \in End, Receiving(p), offset[p] < Target(p),
         channel[p] = <<>>, fd[Other(p)] = "closed"
  PROVE  status[Other(p)] \in Failure \cup {"VANISHED"}
<1>. DEFINE q == Other(p)
<1>1. /\ Types /\ q \in End /\ Position(p) /\ Position(q) /\ Stream(p)
  BY DEF ExchangeInv
<1>2. pc[q] = "done" /\ status[q] # "RUNNING"
  BY <1>1 DEF Position
<1>3. ASSUME status[q] = "OK" PROVE FALSE
  <2>1. pc[p] \in Transfers
    BY InTransfer
  <2>2. ~Failed(p) /\ ~Failed(q)
    BY <1>3, <2>1 DEF Failed, Transfers
  <2>3. Sent(q) = Total
    BY <1>2 DEF Sent, BeforeSending, ServerBefore
  <2>4. Taken(p) + Len(channel[p]) = Sent(q)
    BY <1>1, <2>2 DEF Stream
  <2>5. Taken(p) < Total /\ Taken(p) \in 0..Total /\ Total \in Nat
    BY <1>1, <2>1, Incomplete, Reached, Sizes
  <2>. QED
    BY <2>3, <2>4, <2>5
<1>. QED
  BY <1>1, <1>2, <1>3 DEF Types, Failure

LEMMA TransferEndsStep ==
  ASSUME ExchangeInv, NEW p \in End,
         SendBroken(p) \/ ReceiveEnd(p) \/ WaitTimeout(p) \/ TransferFails(p)
  PROVE  ExchangeInv'
<1>1. Types /\ Position(p)
  BY DEF ExchangeInv
<1>2. /\ pc[p] \in Transfers /\ offset[p] < Target(p)
      /\ UNCHANGED <<args, offset, frame_length, payload, expired, kernel>>
  BY InTransfer DEF SendBroken, ReceiveEnd, WaitTimeout, TransferFails
<1>3. p = "server" => Sent(p) # Total
  <2>1. Sent(p) \in 0..Total /\ Total \in Nat
    BY <1>1, Reached, Sizes
  <2>. QED
    BY <1>1, <1>2, <2>1, Incomplete
<1>4. CASE SendBroken(p) \/ TransferFails(p)
  BY <1>2, <1>4, FailStep DEF SendBroken, TransferFails, Failure, Transfers, kernel, flags
<1>5. CASE WaitTimeout(p)
  BY <1>2, <1>3, <1>5, FailStep DEF WaitTimeout, Failure, Transfers, kernel, flags
<1>6. CASE ReceiveEnd(p)
  <2>. DEFINE result == IF offset[p] = 0 THEN "EOF" ELSE "TRUNCATED"
  <2>1. fd[Other(p)] = "closed" /\ status[Other(p)] \in Failure \cup {"VANISHED"}
    BY <1>6, EarlyEnd DEF ReceiveEnd
  <2>2. result \in {"EOF", "TRUNCATED"} /\ result \in Failure /\ Fail(p, result)
    BY <1>6 DEF ReceiveEnd, Failure
  <2>. HIDE DEF result
  <2>. QED
    BY <1>2, <1>3, <2>1, <2>2, FailStep DEF Transfers, kernel, flags
<1>. QED
  BY <1>4, <1>5, <1>6

(* Then what all the steps share that move an end on, without a byte.      *)
LEMMA AdvanceStep ==
  ASSUME ExchangeInv, NEW p \in End, Same(Other(p)), Types', Position(p)', FlagsKept', Causes',
         ~Failed(p), ~Failed(p)', Taken(p)' = Taken(p), Sent(p)' = Sent(p),
         length' = length, channel' = channel
  PROVE  ExchangeInv'
<1>. DEFINE q == Other(p)
<1>1. /\ q \in End /\ q # p /\ Other(q) = p
      /\ Position(q) /\ Stream(p) /\ Stream(q) /\ FailedServer
  BY DEF ExchangeInv
<1>2. /\ Position(q)' /\ Taken(q)' = Taken(q) /\ Sent(q)' = Sent(q)
      /\ Failed(q)' <=> Failed(q)
  BY <1>1, PositionKept
<1>3. Stream(p)' /\ Stream(q)'
  BY <1>1, <1>2, StreamKept
<1>4. FailedServer'
  <2>1. CASE p = "server"
    BY <2>1 DEF FailedServer
  <2>2. CASE p = "client" /\ ~Failed("server")
    BY <1>2, <2>2 DEF FailedServer
  <2>3. CASE p = "client" /\ Failed("server")
    BY <1>1, <2>3, FailedServerKept DEF Same
  <2>. QED
    BY <2>1, <2>2, <2>3
<1>5. \A r \in End : Position(r)' /\ Stream(r)'
  BY <1>2, <1>3
<1>. QED
  BY <1>4, <1>5 DEF ExchangeInv

(* The end of a transfer that brings an end to its next one.               *)
LEMMA NextTransferStep ==
  ASSUME ExchangeInv, NEW p \in End, NEW next \in Transfers, NEW known \in {-1, length},
         pc[p] \in Transfers, GoTo(p, next),
         frame_length' = [frame_length EXCEPT ![p] = known],
         UNCHANGED <<length, client_capacity, original_nonblock, status, payload, channel, fd,
                     backlog, nonblock, flags_failed>>,
         expired' \in [End -> BOOLEAN],
         \A r \in End : expired'[r] # expired[r] => pc[r] \in Transfers,
         Position(p)', Taken(p)' = Taken(p), Sent(p)' = Sent(p)
  PROVE  ExchangeInv'
<1>. DEFINE q == Other(p)
<1>1. /\ Types /\ q \in End /\ q # p /\ Position(p) /\ FlagsKept /\ Causes
  BY DEF ExchangeInv
<1>2. /\ pc' = [pc EXCEPT ![p] = next] /\ offset' = [offset EXCEPT ![p] = 0]
      /\ pc'[p] = next /\ Same(q)
  BY <1>1 DEF GoTo, Types, Same
<1>3. Types'
  <2>1. UNCHANGED <<original_nonblock, nonblock, flags_failed>> /\ expired' \in [End -> BOOLEAN]
    OBVIOUS
  <2>2. pc' \in [End -> ClientBefore \cup ServerBefore \cup Transfers \cup {"close", "done"}]
    BY <1>1, <1>2 DEF Types
  <2>3. offset' \in [End -> Nat] /\ frame_length' \in [End -> {-1, length'}]
    BY <1>1, <1>2 DEF Types
  <2>. QED
    BY <1>1, <2>1, <2>2, <2>3 DEF Types, Capacity
<1>4. ~Failed(p) /\ ~Failed(p)'
  BY <1>2 DEF Failed, Transfers
<1>5. FlagsKept'
  BY <1>1, <1>2 DEF FlagsKept, Same, Transfers
<1>6. Causes'
  <2>1. \A r \in End : status[r] = "TIMEOUT" => expired'[r]
    BY <1>1 DEF Causes, Position, Transfers, ExchangeInv, ServerBefore, ClientBefore, Before
  <2>. QED
    BY <1>1, <2>1 DEF Causes, Capacity
<1>. QED
  BY <1>2, <1>3, <1>4, <1>5, <1>6, AdvanceStep

LEMMA TransferStep ==
  ASSUME ExchangeInv, NEW p \in End,
         HeaderSent(p) \/ HeaderReceived(p) \/ (p = "server" /\ ServerReceived)
           \/ (p = "client" /\ ClientSent)
  PROVE  ExchangeInv'
<1>1. /\ Types /\ Position(p) /\ length \in Nat /\ HeaderSize \in Nat \ {0} /\ offset[p] \in Nat
      /\ frame_length \in [End -> {-1, length}] /\ offset \in [End -> Nat]
  BY Sizes DEF ExchangeInv, Types
<1>. USE DEF Transfers, BeforeTaking, BeforeSending, ServerBefore, Before, ClientBefore
<1>2. frame_length = [frame_length EXCEPT ![p] = frame_length[p]]
  BY <1>1
<1>3. /\ expired \in [End -> BOOLEAN]
      /\ pc \in [End -> ClientBefore \cup ServerBefore \cup Transfers \cup {"close", "done"}]
  BY DEF ExchangeInv, Types
<1>4. CASE HeaderSent(p)
  <2>1. offset[p] = HeaderSize /\ pc[p] = "send_header" /\ frame_length[p] = length
    BY <1>1, <1>4 DEF HeaderSent, Complete, Target, InHeader, Position
  <2>2. pc'[p] = "send_payload" /\ offset'[p] = 0
    BY <1>1, <1>3, <1>4 DEF HeaderSent, GoTo
  <2>3. Position(p)'
    BY <1>1, <1>4, <2>1, <2>2 DEF HeaderSent, Position, args, kernel, flags, Identity
  <2>4. Taken(p)' = Taken(p) /\ Sent(p)' = Sent(p)
    BY <1>1, <1>4, <2>1, <2>2 DEF HeaderSent, Taken, Sent, Total, args
  <2>. QED
    BY <1>2, <1>3, <1>4, <2>1, <2>3, <2>4, NextTransferStep DEF HeaderSent, args, kernel, flags
<1>5. CASE HeaderReceived(p)
  <2>1. offset[p] = HeaderSize /\ pc[p] = "recv_header" /\ frame_length[p] = length
    BY <1>1, <1>5 DEF HeaderReceived, Complete, Target, InHeader, Position
  <2>2. CASE length > Capacity(p) /\ Fail(p, "CAPACITY") /\ UNCHANGED offset
    <3>1. payload[p] = <<>>
      BY <1>1, <2>1 DEF Position
    <3>2. p = "server" => Sent(p) # Total
      BY <1>1, <2>1 DEF Sent, Total
    <3>. QED
      BY <1>5, <2>1, <2>2, <3>1, <3>2, FailStep DEF HeaderReceived, Failure, Transfers, kernel, flags
  <2>3. CASE length <= Capacity(p) /\ GoTo(p, "recv_payload") /\ UNCHANGED status
    <3>1. pc'[p] = "recv_payload" /\ offset'[p] = 0
      BY <1>1, <1>3, <2>3 DEF GoTo
    <3>2. payload[p] = Identity(0)
      BY <1>1, <2>1 DEF Position, Identity
    <3>3. Position(p)'
      BY <1>1, <1>5, <2>1, <2>3, <3>1, <3>2 DEF HeaderReceived, Position, args, kernel, flags, Identity,
         Capacity
    <3>4. Taken(p)' = Taken(p) /\ Sent(p)' = Sent(p)
      BY <1>1, <1>5, <2>1, <3>1 DEF HeaderReceived, Taken, Sent, Total, args
    <3>. QED
      BY <1>2, <1>3, <1>5, <2>1, <2>3, <3>3, <3>4, NextTransferStep DEF HeaderReceived, args,
         kernel, flags
  <2>. QED
    BY <1>5, <2>1, <2>2, <2>3 DEF HeaderReceived
<1>6. CASE p = "server" /\ ServerReceived
  <2>1. offset[p] = length /\ pc[p] = "recv_payload" /\ frame_length[p] = length
    BY <1>1, <1>6 DEF ServerReceived, Complete, Target, InHeader, Position
  <2>2. pc'[p] = "send_header" /\ offset'[p] = 0
    BY <1>1, <1>3, <1>6 DEF ServerReceived, GoTo
  <2>3. Position(p)'
    BY <1>1, <1>6, <2>1, <2>2 DEF ServerReceived, Position, args, kernel, flags, Identity
  <2>4. Taken(p)' = Taken(p) /\ Sent(p)' = Sent(p)
    BY <1>1, <1>6, <2>1, <2>2 DEF ServerReceived, Taken, Sent, Total, args
  <2>. QED
    BY <1>2, <1>3, <1>6, <2>1, <2>3, <2>4, NextTransferStep DEF ServerReceived, args, kernel, flags
<1>7. CASE p = "client" /\ ClientSent
  <2>1. offset[p] = length /\ pc[p] = "send_payload" /\ frame_length[p] = length
    BY <1>1, <1>7 DEF ClientSent, Complete, Target, InHeader, Position
  <2>2. pc'[p] = "recv_header" /\ offset'[p] = 0 /\ frame_length'[p] = -1
    BY <1>1, <1>3, <1>7 DEF ClientSent, GoTo
  <2>3. Position(p)'
    BY <1>1, <1>7, <2>1, <2>2 DEF ClientSent, Position, args, kernel, flags, Identity
  <2>4. Taken(p)' = Taken(p) /\ Sent(p)' = Sent(p)
    BY <1>1, <1>7, <2>1, <2>2 DEF ClientSent, Taken, Sent, Total, args
  <2>5. /\ expired' \in [End -> BOOLEAN]
        /\ \A r \in End : expired'[r] # expired[r] => pc[r] \in Transfers
    BY <1>3, <1>7, <2>1 DEF ClientSent
  <2>. QED
    BY <1>7, <2>1, <2>3, <2>4, <2>5, NextTransferStep DEF ClientSent, args, kernel, flags
<1>. QED
  BY <1>4, <1>5, <1>6, <1>7

(* A call that succeeds has moved both frames whole.                       *)
LEMMA FinishedStep ==
  ASSUME ExchangeInv, NEW p \in End, Finished(p)
  PROVE  ExchangeInv'
<1>. USE DEF Transfers, BeforeTaking, BeforeSending, ServerBefore, Before, ClientBefore
<1>1. /\ Types /\ Position(p) /\ length \in Nat /\ HeaderSize \in Nat \ {0} /\ offset[p] \in Nat
      /\ FlagsKept /\ Causes
  BY Sizes DEF ExchangeInv, Types
<1>2. /\ pc[p] = IF p = "client" THEN "recv_payload" ELSE "send_payload"
      /\ offset[p] = length /\ frame_length[p] = length
  BY <1>1 DEF Finished, Complete, Target, InHeader, Position
<1>3. /\ pc' = [pc EXCEPT ![p] = "close"] /\ status' = [status EXCEPT ![p] = "OK"]
      /\ UNCHANGED <<length, client_capacity, original_nonblock, offset, frame_length, payload,
                     expired, channel, fd, backlog, nonblock, flags_failed>>
  BY DEF Finished, Fail, args, kernel, flags
<1>4. pc'[p] = "close" /\ status'[p] = "OK" /\ Same(Other(p))
  BY <1>1, <1>3 DEF Types, Same
<1>5. Types'
  <2>1. UNCHANGED <<original_nonblock, nonblock, flags_failed, expired>>
    BY <1>3
  <2>2. pc' \in [End -> ClientBefore \cup ServerBefore \cup Transfers \cup {"close", "done"}]
    BY <1>1, <1>3 DEF Types
  <2>3. status' \in [End -> {"RUNNING", "OK", "EOF", "TRUNCATED", "TIMEOUT", "CAPACITY",
                             "SYSTEM", "VANISHED"}]
    BY <1>1, <1>3 DEF Types
  <2>. QED
    BY <1>1, <1>3, <2>1, <2>2, <2>3 DEF Types, Capacity
<1>6. Position(p)'
  BY <1>1, <1>2, <1>3, <1>4 DEF Position, Identity
<1>7. Taken(p)' = Taken(p) /\ Sent(p)' = Sent(p)
  BY <1>1, <1>2, <1>3, <1>4 DEF Taken, Sent, Total
<1>8. ~Failed(p) /\ ~Failed(p)'
  BY <1>2, <1>4 DEF Failed
<1>9. FlagsKept'
  BY <1>1, <1>2, <1>3, <1>4 DEF FlagsKept, Same
<1>10. Causes'
  <2>1. fd[p] # "closed"
    BY <1>1, <1>2 DEF Position
  <2>2. \A r \in End : r = p \/ r = Other(p)
    OBVIOUS
  <2>. QED
    BY <1>1, <1>3, <1>4, <2>1, <2>2 DEF Causes, Capacity, Same
<1>. QED
  BY <1>3, <1>4, <1>5, <1>6, <1>7, <1>8, <1>9, <1>10, AdvanceStep

(* A close that fails after the server's success changes its status alone. *)
LEMMA CloseStep ==
  ASSUME ExchangeInv, NEW p \in End, Close(p)
  PROVE  ExchangeInv'
<1>. DEFINE q == Other(p)
<1>. USE DEF Transfers, BeforeTaking, BeforeSending, ServerBefore, Before, ClientBefore
<1>1. /\ Types /\ q \in End /\ q # p /\ Other(q) = p /\ Position(p) /\ Position(q)
      /\ Stream(p) /\ Stream(q) /\ FailedServer /\ FlagsKept /\ Causes
  BY DEF ExchangeInv
<1>2. /\ pc[p] = "close" /\ pc' = [pc EXCEPT ![p] = "done"]
      /\ fd' = [fd EXCEPT ![p] = IF @ = "open" THEN "closed" ELSE @]
      /\ UNCHANGED <<length, client_capacity, original_nonblock, offset, frame_length, payload,
                     expired, channel, backlog, nonblock, flags_failed>>
      /\ \/ status' = status
         \/ /\ p = "server" /\ status[p] = "OK"
            /\ status' = [status EXCEPT ![p] = "SYSTEM"]
  BY DEF Close, args, flags
<1>3. /\ pc'[p] = "done" /\ fd'[p] # "open" /\ status'[p] # "RUNNING" /\ Same(q)
      /\ status'[p] = status[p] \/ (p = "server" /\ status[p] = "OK" /\ status'[p] = "SYSTEM")
  BY <1>1, <1>2 DEF Types, Same, Position
<1>4. Types'
  <2>1. UNCHANGED <<original_nonblock, nonblock, flags_failed, expired>>
    BY <1>2
  <2>2. pc' \in [End -> ClientBefore \cup ServerBefore \cup Transfers \cup {"close", "done"}]
    BY <1>1, <1>2 DEF Types
  <2>3. status' \in [End -> {"RUNNING", "OK", "EOF", "TRUNCATED", "TIMEOUT", "CAPACITY",
                             "SYSTEM", "VANISHED"}]
    BY <1>1, <1>2 DEF Types
  <2>4. fd' \in [End -> {"none", "open", "closed"}]
    BY <1>1, <1>2 DEF Types
  <2>. QED
    BY <1>1, <1>2, <2>1, <2>2, <2>3, <2>4 DEF Types, Capacity
<1>5. Position(p)' /\ Position(q)'
  <2>1. Position(p)'
    BY <1>1, <1>2, <1>3 DEF Position, Identity
  <2>. QED
    BY <1>1, <1>3, <2>1, PositionKept
<1>6. /\ ~Failed(p)' => /\ ~Failed(p) /\ Taken(p)' = Taken(p) /\ Sent(p)' = Sent(p)
      /\ Taken(q)' = Taken(q) /\ Sent(q)' = Sent(q) /\ (Failed(q)' <=> Failed(q))
  <2>1. ~Failed(p)' => /\ ~Failed(p) /\ Taken(p)' = Taken(p) /\ Sent(p)' = Sent(p)
    BY <1>2, <1>3 DEF Failed, Taken, Sent, Total
  <2>. QED
    BY <1>1, <1>3, <2>1, PositionKept
<1>7. Stream(p)' /\ Stream(q)'
  BY <1>1, <1>2, <1>6, StreamKept
<1>8. FailedServer'
  <2>1. CASE Failed("server")
    BY <1>1, <1>2, <1>3, <1>6, <2>1, FailedServerKept DEF Same, Failed
  <2>2. CASE ~Failed("server") /\ Failed("server")'
    <3>1. p = "server" /\ status'["server"] = "SYSTEM"
      BY <1>2, <1>3, <1>6, <2>2 DEF Failed
    <3>. QED
      BY <1>2, <1>6, <2>2, <3>1, ServerFails
  <2>3. CASE ~Failed("server")'
    BY <2>3 DEF FailedServer
  <2>. QED
    BY <2>1, <2>2, <2>3
<1>9. FlagsKept'
  <2>1. CASE p = "server"
    BY <1>1, <1>2, <1>3, <2>1 DEF FlagsKept
  <2>2. CASE p = "client"
    BY <1>1, <1>2, <1>3, <2>2 DEF FlagsKept, Same
  <2>. QED
    BY <2>1, <2>2
<1>10. Causes'
  <2>1. fd[p] # "closed" /\ \A r \in End : r = p \/ r = q
    BY <1>1, <1>2 DEF Position
  <2>. QED
    BY <1>1, <1>2, <1>3, <2>1 DEF Causes, Capacity, Same
<1>. QED
  BY <1>4, <1>5, <1>7, <1>8, <1>9, <1>10 DEF ExchangeInv

LEMMA ExpireStep ==
  ASSUME ExchangeInv, NEW p \in End, Expire(p)
  PROVE  ExchangeInv'
<1>1. /\ expired' = [expired EXCEPT ![p] = TRUE]
      /\ UNCHANGED <<length, client_capacity, original_nonblock, pc, status, offset,
                     frame_length, payload, channel, fd, backlog, nonblock, flags_failed>>
  BY DEF Expire, args, kernel, flags
<1>2. Types'
  <2>1. expired' \in [End -> BOOLEAN] /\ UNCHANGED <<original_nonblock, nonblock, flags_failed>>
    BY <1>1 DEF ExchangeInv, Types
  <2>. QED
    BY <1>1, <2>1 DEF ExchangeInv, Types, Capacity
<1>3. \A q \in End : Position(q)' /\ Stream(q)'
  <2>1. ASSUME NEW q \in End
        PROVE  /\ Position(q)' /\ Taken(q)' = Taken(q) /\ Sent(q)' = Sent(q)
               /\ Failed(q)' <=> Failed(q)
    BY <1>1, PositionKept DEF Same, ExchangeInv
  <2>2. ASSUME NEW q \in End
        PROVE  Stream(q)'
    BY <1>1, <2>1, StreamKept DEF ExchangeInv
  <2>. QED
    BY <2>1, <2>2
<1>4. FailedServer' /\ FlagsKept'
  BY <1>1 DEF ExchangeInv, FailedServer, FlagsKept, Failed, Echoed, Total, Taken, Sent, Identity,
     BeforeTaking, BeforeSending
<1>5. Causes'
  <2>1. \A q \in End : expired[q] => expired'[q]
    BY <1>1 DEF ExchangeInv, Types
  <2>. QED
    BY <1>1, <2>1 DEF ExchangeInv, Causes, Capacity
<1>. QED
  BY <1>2, <1>3, <1>4, <1>5 DEF ExchangeInv

(* The server up to its first receive: no byte is taken or sent.           *)
LEMMA OpeningStep ==
  ASSUME ExchangeInv, pc["server"] \in ServerBefore,
         NEW next \in {"listen", "accept", "restore", "recv_header"},
         NEW s \in {"RUNNING", "TIMEOUT", "SYSTEM"}, NEW f \in {fd["server"], "open"},
         pc' = [pc EXCEPT !["server"] = next], status' = [status EXCEPT !["server"] = s],
         fd' = [fd EXCEPT !["server"] = f],
         backlog' \in {"empty", "waiting"}, nonblock' \in BOOLEAN, flags_failed' = flags_failed,
         UNCHANGED <<args, offset, frame_length, payload, expired, channel>>,
         next # "restore" => s = "RUNNING", s = "TIMEOUT" => expired["server"],
         next = "recv_header" => nonblock' = original_nonblock
  PROVE  ExchangeInv'
<1>. DEFINE p == "server"
<1>. USE DEF Transfers, BeforeTaking, BeforeSending, ServerBefore, Before, ClientBefore
<1>1. /\ Types /\ Position(p) /\ FlagsKept /\ Causes /\ p \in End
      /\ length' = length /\ client_capacity' = client_capacity
      /\ original_nonblock' = original_nonblock
  BY DEF ExchangeInv, args
<1>2. /\ pc'[p] = next /\ status'[p] = s /\ fd'[p] = f /\ fd[p] # "closed" /\ fd'[p] # "closed"
      /\ Same(Other(p))
  BY <1>1 DEF Types, Same, Position
<1>3. Types'
  <2>1. /\ original_nonblock' \in BOOLEAN /\ nonblock' \in BOOLEAN /\ flags_failed' \in BOOLEAN
        /\ expired' \in [End -> BOOLEAN]
    BY <1>1 DEF Types
  <2>2. pc' \in [End -> ClientBefore \cup ServerBefore \cup Transfers \cup {"close", "done"}]
    BY <1>1 DEF Types
  <2>3. status' \in [End -> {"RUNNING", "OK", "EOF", "TRUNCATED", "TIMEOUT", "CAPACITY",
                             "SYSTEM", "VANISHED"}]
    BY <1>1 DEF Types
  <2>4. fd' \in [End -> {"none", "open", "closed"}]
    BY <1>1 DEF Types
  <2>. QED
    BY <1>1, <2>1, <2>2, <2>3, <2>4 DEF Types, Capacity
<1>4. Position(p)'
  BY <1>1, <1>2 DEF Position
<1>5. Taken(p)' = Taken(p) /\ Sent(p)' = Sent(p)
  BY <1>1, <1>2 DEF Taken, Sent, Position
<1>6. ~Failed(p) /\ ~Failed(p)'
  BY <1>2 DEF Failed
<1>7. FlagsKept'
  BY <1>1, <1>2 DEF FlagsKept
<1>8. Causes'
  <2>1. \A r \in End : r = p \/ r = Other(p)
    OBVIOUS
  <2>. QED
    BY <1>1, <1>2, <2>1 DEF Causes, Capacity, Same
<1>. QED
  BY <1>1, <1>2, <1>3, <1>4, <1>5, <1>6, <1>7, <1>8, AdvanceStep

LEMMA ListenerStep ==
  ASSUME ExchangeInv,
         SetListenerFlags \/ WaitConnection \/ WaitConnectionFails \/ Accept
  PROVE  ExchangeInv'
<1>1. /\ Types /\ Position("server") /\ "server" \in End
      /\ pc["server"] \in {"flags", "listen", "accept"} => status["server"] = "RUNNING"
  BY DEF ExchangeInv, Position, Before, ServerBefore
<1>2. /\ status = [status EXCEPT !["server"] = status["server"]]
      /\ fd = [fd EXCEPT !["server"] = fd["server"]]
      /\ backlog \in {"empty", "waiting"} /\ nonblock \in BOOLEAN
  BY <1>1 DEF Types
<1>. USE DEF ServerBefore, LeaveLoop, args, kernel, flags
<1>3. CASE SetListenerFlags
  <2>1. CASE pc' = [pc EXCEPT !["server"] = "listen"] /\ nonblock' = TRUE /\ UNCHANGED status
    BY <1>1, <1>2, <1>3, <2>1, OpeningStep DEF SetListenerFlags
  <2>2. CASE Fail("server", "SYSTEM") /\ UNCHANGED nonblock
    BY <1>1, <1>3, <2>2, FailStep DEF SetListenerFlags, Failure
  <2>. QED
    BY <1>3, <2>1, <2>2 DEF SetListenerFlags
<1>4. CASE WaitConnection
  BY <1>1, <1>2, <1>4, OpeningStep DEF WaitConnection
<1>5. CASE WaitConnectionFails
  BY <1>1, <1>2, <1>5, OpeningStep DEF WaitConnectionFails
<1>6. CASE Accept
  <2>1. CASE /\ backlog' = "empty" /\ fd' = [fd EXCEPT !["server"] = "open"]
             /\ LeaveLoop("RUNNING")
    BY <1>1, <1>2, <1>6, <2>1, OpeningStep DEF Accept
  <2>2. CASE pc' = [pc EXCEPT !["server"] = "listen"] /\ UNCHANGED <<status, fd, backlog>>
    BY <1>1, <1>2, <1>6, <2>2, OpeningStep DEF Accept
  <2>3. CASE LeaveLoop("SYSTEM") /\ UNCHANGED <<fd, backlog>>
    BY <1>1, <1>2, <1>6, <2>3, OpeningStep DEF Accept
  <2>. QED
    BY <1>6, <2>1, <2>2, <2>3 DEF Accept
<1>. QED
  BY <1>3, <1>4, <1>5, <1>6

(* The restoration ends a call without a connection, and begins the        *)
(* exchange of one with a connection.                                      *)
LEMMA RestoreStep ==
  ASSUME ExchangeInv, RestoreListenerFlags
  PROVE  ExchangeInv'
<1>. DEFINE p == "server"
            q == "client"
<1>. USE DEF Transfers, BeforeTaking, BeforeSending, ServerBefore, Before, ClientBefore
<1>1. /\ Types /\ Position(p) /\ Position(q) /\ Stream(p) /\ Stream(q) /\ p \in End /\ q \in End
      /\ FlagsKept /\ Causes /\ pc[p] = "restore"
      /\ status[p] \in {"RUNNING", "TIMEOUT", "SYSTEM"}
      /\ UNCHANGED <<length, client_capacity, original_nonblock, offset, frame_length, payload,
                     expired, channel, fd, backlog>>
  BY DEF ExchangeInv, RestoreListenerFlags, Position, args
<1>2. CASE Fail("server", "SYSTEM") /\ flags_failed' = TRUE /\ UNCHANGED nonblock
  BY <1>1, <1>2, FailStep DEF Failure, args, kernel, flags
<1>3. CASE /\ nonblock' = original_nonblock /\ status[p] = "RUNNING"
           /\ pc' = [pc EXCEPT ![p] = "recv_header"] /\ UNCHANGED <<status, flags_failed>>
  <2>1. /\ status' = [status EXCEPT !["server"] = "RUNNING"]
        /\ fd' = [fd EXCEPT !["server"] = fd["server"]]
        /\ backlog' \in {"empty", "waiting"}
    BY <1>1, <1>3 DEF Types
  <2>2. nonblock' \in BOOLEAN
    BY <1>1, <1>3 DEF Types
  <2>. QED
    BY <1>1, <1>3, <2>1, <2>2, OpeningStep DEF args
<1>4. CASE /\ nonblock' = original_nonblock /\ status[p] # "RUNNING"
           /\ pc' = [pc EXCEPT ![p] = "close"] /\ UNCHANGED <<status, flags_failed>>
  <2>1. pc'[p] = "close" /\ Same(q)
    BY <1>1, <1>4 DEF Types, Same
  <2>2. Types'
    <3>1. UNCHANGED <<original_nonblock, expired>> /\ nonblock' \in BOOLEAN
      BY <1>1, <1>4 DEF Types
    <3>2. pc' \in [End -> ClientBefore \cup ServerBefore \cup Transfers \cup {"close", "done"}]
      BY <1>1, <1>4 DEF Types
    <3>. QED
      BY <1>1, <1>4, <3>1, <3>2 DEF Types, Capacity
  <2>3. Position(p)'
    BY <1>1, <1>4, <2>1 DEF Position
  <2>4. /\ Position(q)' /\ Taken(q)' = Taken(q) /\ Sent(q)' = Sent(q)
        /\ Failed(q)' <=> Failed(q)
    BY <1>1, <2>1, PositionKept
  <2>5. Failed(p)' /\ ~Failed(p)
    BY <1>1, <1>4, <2>1 DEF Failed
  <2>6. Stream(p)' /\ Stream(q)'
    <3>1. Stream(p)'
      BY <2>5 DEF Stream
    <3>2. Other(q) = p
      OBVIOUS
    <3>. QED
      BY <1>1, <2>4, <2>5, <3>1, <3>2, StreamKept
  <2>7. FailedServer'
    <3>1. Sent("server") # Total
      BY <1>1, Sizes DEF Sent
    <3>. QED
      BY <1>1, <2>4, <2>5, <3>1, ServerFails
  <2>8. FlagsKept'
    BY <1>1, <1>4, <2>1 DEF FlagsKept
  <2>9. Causes'
    BY <1>1, <1>4 DEF Causes, Capacity
  <2>10. \A r \in End : Position(r)' /\ Stream(r)'
    BY <2>3, <2>4, <2>6
  <2>. QED
    BY <2>2, <2>7, <2>8, <2>9, <2>10 DEF ExchangeInv
<1>. QED
  BY <1>2, <1>3, <1>4 DEF RestoreListenerFlags

LEMMA ConnectStep ==
  ASSUME ExchangeInv, Connect
  PROVE  ExchangeInv'
<1>. DEFINE p == "client"
<1>. USE DEF Transfers, BeforeTaking, BeforeSending, ServerBefore, Before, ClientBefore
<1>1. /\ Types /\ Position(p) /\ FlagsKept /\ Causes /\ p \in End /\ pc[p] = "connect"
      /\ UNCHANGED <<length, client_capacity, original_nonblock, status, offset, payload,
                     expired, channel, nonblock, flags_failed>>
      /\ backlog' = "waiting"
      /\ pc' = [pc EXCEPT ![p] = "send_header"] /\ fd' = [fd EXCEPT ![p] = "open"]
      /\ frame_length' = [frame_length EXCEPT ![p] = length]
  BY DEF ExchangeInv, Connect, args, flags
<1>2. /\ pc'[p] = "send_header" /\ fd'[p] = "open" /\ frame_length'[p] = length
      /\ Same(Other(p))
  BY <1>1 DEF Types, Same
<1>3. Types'
  <2>1. UNCHANGED <<original_nonblock, nonblock, flags_failed, expired>>
    BY <1>1
  <2>2. pc' \in [End -> ClientBefore \cup ServerBefore \cup Transfers \cup {"close", "done"}]
    BY <1>1 DEF Types
  <2>3. frame_length' \in [End -> {-1, length}] /\ fd' \in [End -> {"none", "open", "closed"}]
    BY <1>1 DEF Types
  <2>. QED
    BY <1>1, <2>1, <2>2, <2>3 DEF Types, Capacity
<1>4. Position(p)' /\ Taken(p)' = Taken(p) /\ Sent(p)' = Sent(p)
  BY <1>1, <1>2 DEF Position, Taken, Sent
<1>5. ~Failed(p) /\ ~Failed(p)'
  BY <1>1, <1>2 DEF Failed
<1>6. FlagsKept'
  BY <1>1, <1>2 DEF FlagsKept, Same
<1>7. Causes'
  <2>1. fd[p] # "closed" /\ \A r \in End : r = p \/ r = Other(p)
    BY <1>1 DEF Position
  <2>. QED
    BY <1>1, <1>2, <2>1 DEF Causes, Capacity, Same
<1>. QED
  BY <1>1, <1>2, <1>3, <1>4, <1>5, <1>6, <1>7, AdvanceStep

LEMMA VanishStep ==
  ASSUME ExchangeInv, Vanish
  PROVE  ExchangeInv'
<1>. DEFINE p == "client"
            q == "server"
<1>. USE DEF Transfers, BeforeTaking, BeforeSending, ServerBefore, Before, ClientBefore
<1>1. /\ Types /\ Position(p) /\ Position(q) /\ Stream(p) /\ Stream(q) /\ p \in End /\ q \in End
      /\ FlagsKept /\ Causes /\ pc[p] \in Transfers
      /\ UNCHANGED <<length, client_capacity, original_nonblock, offset, frame_length, payload,
                     expired, channel, nonblock, flags_failed>>
      /\ backlog' \in {backlog, "empty"}
      /\ pc' = [pc EXCEPT ![p] = "done"] /\ status' = [status EXCEPT ![p] = "VANISHED"]
      /\ fd' = [fd EXCEPT ![p] = "closed"]
  BY InTransfer DEF ExchangeInv, Vanish, args, flags
<1>2. pc'[p] = "done" /\ status'[p] = "VANISHED" /\ fd'[p] = "closed" /\ Same(q)
  BY <1>1 DEF Types, Same
<1>3. Types'
  <2>1. UNCHANGED <<original_nonblock, nonblock, flags_failed, expired>>
    BY <1>1
  <2>2. pc' \in [End -> ClientBefore \cup ServerBefore \cup Transfers \cup {"close", "done"}]
    BY <1>1 DEF Types
  <2>3. status' \in [End -> {"RUNNING", "OK", "EOF", "TRUNCATED", "TIMEOUT", "CAPACITY",
                             "SYSTEM", "VANISHED"}]
    BY <1>1 DEF Types
  <2>4. fd' \in [End -> {"none", "open", "closed"}]
    BY <1>1 DEF Types
  <2>. QED
    BY <1>1, <2>1, <2>2, <2>3, <2>4 DEF Types, Capacity
<1>4. Position(p)' /\ Failed(p)'
  BY <1>1, <1>2 DEF Position, Failed
<1>5. /\ Position(q)' /\ Taken(q)' = Taken(q) /\ Sent(q)' = Sent(q)
      /\ Failed(q)' <=> Failed(q)
  BY <1>1, <1>2, PositionKept
<1>6. Stream(p)' /\ Stream(q)'
  <2>1. Stream(p)'
    BY <1>4 DEF Stream
  <2>2. Other(q) = p
    OBVIOUS
  <2>. QED
    BY <1>1, <1>4, <1>5, <2>1, <2>2, StreamKept
<1>7. FailedServer'
  BY <1>4 DEF FailedServer
<1>8. FlagsKept'
  BY <1>1, <1>2 DEF FlagsKept, Same
<1>9. Causes'
  BY <1>1, <1>2 DEF Causes, Capacity, Same
<1>10. \A r \in End : Position(r)' /\ Stream(r)'
  BY <1>4, <1>5, <1>6
<1>. QED
  BY <1>3, <1>7, <1>8, <1>9, <1>10 DEF ExchangeInv

(* A frame continued where a channel's bytes of it end.                     *)
LEMMA Continued ==
  ASSUME NEW c \in Seq(Byte), NEW s \in Seq(Byte), NEW t \in Nat,
         \A i \in 1..Len(c) : c[i] = Frame(t + i),
         \A i \in 1..Len(s) : s[i] = Frame((t + Len(c)) + i)
  PROVE  \A i \in 1..Len(c \o s) : (c \o s)[i] = Frame(t + i)
<1>1. /\ Len(c) \in Nat /\ Len(s) \in Nat /\ Len(c \o s) = Len(c) + Len(s)
      /\ \A i \in 1..(Len(c) + Len(s)) :
           (c \o s)[i] = IF i <= Len(c) THEN c[i] ELSE s[i - Len(c)]
  BY ConcatProperties
<1>. DEFINE l == Len(c)
<1>2. l \in Nat
  BY <1>1
<1>3. SUFFICES ASSUME NEW i \in 1..(Len(c) + Len(s))
               PROVE  (c \o s)[i] = Frame(t + i)
  BY <1>1
<1>4. CASE i <= Len(c)
  <2>1. i \in 1..Len(c)
    BY <1>1, <1>4
  <2>. QED
    BY <1>1, <1>4, <2>1
<1>5. CASE ~(i <= Len(c))
  <2>1. i - Len(c) \in 1..Len(s) /\ (t + Len(c)) + (i - Len(c)) = t + i
    BY <1>1, <1>5
  <2>2. (c \o s)[i] = s[i - Len(c)]
    BY <1>1, <1>5
  <2>. QED
    BY <2>1, <2>2
<1>. QED
  BY <1>4, <1>5

(* A send either is lost at a closed end, or continues the stream where    *)
(* the sender has got to.                                                  *)
LEMMA SendStep ==
  ASSUME ExchangeInv, NEW p \in End, Send(p)
  PROVE  ExchangeInv'
<1>. DEFINE q == Other(p)
<1>. USE DEF Transfers, BeforeTaking, BeforeSending, ServerBefore, Before, ClientBefore
<1>1. /\ Types /\ q \in End /\ q # p /\ Other(q) = p /\ Position(p) /\ Position(q)
      /\ Stream(p) /\ Stream(q) /\ FailedServer /\ FlagsKept /\ Causes
      /\ pc[p] \in Transfers /\ Sending(p)
      /\ UNCHANGED <<length, client_capacity, original_nonblock, pc, status, frame_length,
                     payload, expired, fd, backlog, nonblock, flags_failed>>
  BY InTransfer DEF ExchangeInv, Send, args, flags
<1>2. PICK n \in 1..(Target(p) - offset[p]) :
        /\ n <= FreeRoom(p) \/ fd[q] = "closed"
        /\ offset' = [offset EXCEPT ![p] = @ + n]
        /\ channel' = IF fd[q] = "closed" THEN channel
                      ELSE [channel EXCEPT ![q] =
                              @ \o SubSeq(Wire(p), offset[p] + 1, offset[p] + n)]
  BY DEF Send
<1>. DEFINE s == SubSeq(Wire(p), offset[p] + 1, offset[p] + n)
<1>3. /\ s \in Seq(Byte) /\ Len(s) = n /\ \A i \in 1..n : s[i] = Frame(Sent(p) + i)
      /\ Sent(p) + n <= Total
  BY <1>1, WireIsFrame
<1>. HIDE DEF s
<1>4. /\ n \in Nat \ {0} /\ length \in Nat /\ HeaderSize \in Nat \ {0} /\ Total \in Nat
      /\ offset[p] \in Nat /\ offset'[p] = offset[p] + n /\ offset'[q] = offset[q]
      /\ channel[q] \in Seq(Byte) /\ Taken(q) \in 0..Total /\ Sent(p) \in 0..Total
      /\ frame_length[p] = length /\ offset[p] + n <= Target(p)
  <2>1. length \in Nat /\ HeaderSize \in Nat \ {0} /\ Total \in Nat /\ offset[p] \in Nat
    BY <1>1, Sizes DEF Types
  <2>2. frame_length[p] = length
    BY <1>1 DEF Position, Sending
  <2>3. Target(p) \in Nat
    BY <2>1, <2>2 DEF Target
  <2>4. n \in Nat \ {0} /\ offset[p] + n <= Target(p)
    BY <2>1, <2>3
  <2>5. offset'[p] = offset[p] + n /\ offset'[q] = offset[q] /\ channel[q] \in Seq(Byte)
    BY <1>1, <1>2 DEF Types
  <2>. QED
    BY <1>1, <2>1, <2>2, <2>4, <2>5, Reached
<1>5. /\ Taken(p)' = Taken(p) /\ Sent(p)' = Sent(p) + n
      /\ Taken(q)' = Taken(q) /\ Sent(q)' = Sent(q)
      /\ ~Failed(p) /\ ~Failed(p)' /\ (Failed(q)' <=> Failed(q))
  <2>1. Taken(p)' = Taken(p) /\ Sent(p)' = Sent(p) + n
    BY <1>1, <1>4 DEF Taken, Sent, Sending, Total
  <2>2. Taken(q)' = Taken(q) /\ Sent(q)' = Sent(q)
    BY <1>1, <1>4 DEF Taken, Sent, Total
  <2>. QED
    BY <1>1, <2>1, <2>2 DEF Failed
<1>6. Position(p)' /\ Position(q)'
  <2>1. Target(p) = IF pc[p] = "send_header" THEN HeaderSize ELSE length
    BY <1>1, <1>4 DEF Target, InHeader, Sending
  <2>2. Position(p)'
    BY <1>1, <1>4, <2>1 DEF Position, Sending, Identity
  <2>3. Position(q)'
    BY <1>1, <1>4, PositionKept DEF Same
  <2>. QED
    BY <2>2, <2>3
<1>7. ASSUME p = "client", Failed("server")
      PROVE  ~(Echoed > 0) /\ Echoed # Total
  <2>1. Sent("client") # Total /\ Total > 0
    BY <1>3, <1>4, <1>7 DEF Total
  <2>2. ~(Echoed > 0)
    BY <1>1, <1>5, <1>7, <2>1 DEF FailedServer
  <2>. QED
    BY <2>1, <2>2
<1>8. CASE fd[q] = "closed"
  <2>1. channel' = channel /\ offset' \in [End -> Nat]
    BY <1>1, <1>2, <1>4, <1>8 DEF Types
  <2>2. Types'
    <3>1. UNCHANGED <<original_nonblock, nonblock, flags_failed, expired>>
      BY <1>1
    <3>. QED
      BY <1>1, <2>1, <3>1 DEF Types, Capacity
  <2>3. Failed(q)
    <3>1. SUFFICES ASSUME ~Failed(q) PROVE FALSE
      OBVIOUS
    <3>2. pc[q] = "done" /\ status[q] = "OK"
      BY <1>1, <1>8, <3>1 DEF Position, Failed
    <3>3. Taken(q) = Total /\ Taken(q) + Len(channel[q]) = Sent(p)
      BY <1>1, <1>5, <3>1, <3>2 DEF Taken, Stream
    <3>. QED
      BY <1>3, <1>4, <3>3
  <2>4. Stream(p)' /\ Stream(q)'
    <3>1. Stream(q)'
      BY <1>5, <2>3 DEF Stream
    <3>. QED
      BY <1>1, <1>5, <2>1, <2>3, <3>1, StreamKept
  <2>5. FailedServer'
    <3>1. CASE p = "server"
      BY <1>5, <3>1 DEF FailedServer
    <3>2. CASE p = "client"
      <4>1. Echoed' = Echoed
        BY <1>5, <2>1, <3>2 DEF Echoed
      <4>2. ~(Echoed > 0) /\ Echoed # Total
        BY <2>3, <3>2, <1>7
      <4>3. Total' = Total
        BY <1>1 DEF Total
      <4>. QED
        BY <4>1, <4>2, <4>3 DEF FailedServer
    <3>. QED
      BY <3>1, <3>2
  <2>6. FlagsKept' /\ Causes'
    BY <1>1 DEF FlagsKept, Causes, Capacity
  <2>7. \A r \in End : Position(r)' /\ Stream(r)'
    BY <1>6, <2>4
  <2>. QED
    BY <2>2, <2>5, <2>6, <2>7 DEF ExchangeInv
<1>9. CASE fd[q] # "closed"
  <2>. DEFINE c == channel[q] \o s
  <2>1. /\ c \in Seq(Byte) /\ Len(c) = Len(channel[q]) + n
        /\ \A i \in 1..(Len(channel[q]) + n) :
             c[i] = IF i <= Len(channel[q]) THEN channel[q][i] ELSE s[i - Len(channel[q])]
    BY <1>3, <1>4, ConcatProperties
  <2>2. channel' = [channel EXCEPT ![q] = c]
    BY <1>2, <1>9 DEF s
  <2>. HIDE DEF c
  <2>3. /\ channel'[q] = c /\ channel'[p] = channel[p] /\ channel' \in [End -> Seq(Byte)]
        /\ offset' \in [End -> Nat]
    <3>1. channel \in [End -> Seq(Byte)] /\ offset \in [End -> Nat]
      BY <1>1 DEF Types
    <3>2. offset[p] + n \in Nat
      BY <1>4
    <3>. QED
      BY <1>1, <1>2, <2>1, <2>2, <3>1, <3>2
  <2>4. Len(c) <= Room
    <3>1. n <= Room - Len(channel[q])
      BY <1>2, <1>9 DEF FreeRoom
    <3>2. Len(channel[q]) \in Nat /\ Room \in Nat
      BY <1>4
    <3>. QED
      BY <1>4, <2>1, <3>1, <3>2
  <2>5. Types'
    <3>1. UNCHANGED <<original_nonblock, nonblock, flags_failed, expired>>
      BY <1>1
    <3>2. \A r \in End : r = p \/ r = q
      OBVIOUS
    <3>3. \A r \in End : Len(channel'[r]) <= Room
      BY <1>1, <2>3, <2>4, <3>2 DEF Types
    <3>. QED
      BY <1>1, <2>3, <3>1, <3>3 DEF Types, Capacity
  <2>6. Stream(p)' /\ Stream(q)'
    <3>1. Stream(p)'
      BY <1>1, <1>5, <2>3, StreamKept
    <3>2. ASSUME ~Failed(q)
          PROVE  /\ Taken(q) + Len(c) = Sent(p) + n
                 /\ \A i \in 1..Len(c) : c[i] = Frame(Taken(q) + i)
      <4>1. /\ Taken(q) + Len(channel[q]) = Sent(p)
            /\ \A i \in 1..Len(channel[q]) : channel[q][i] = Frame(Taken(q) + i)
        BY <1>1, <1>5, <3>2 DEF Stream
      <4>2. \A i \in 1..Len(s) : s[i] = Frame((Taken(q) + Len(channel[q])) + i)
        BY <1>3, <4>1
      <4>3. Taken(q) \in Nat /\ Len(channel[q]) \in Nat
        BY <1>4
      <4>4. \A i \in 1..Len(c) : c[i] = Frame(Taken(q) + i)
        <5>1. channel[q] \in Seq(Byte) /\ s \in Seq(Byte)
          BY <1>3, <1>4
        <5>2. \A i \in 1..Len(channel[q] \o s) : (channel[q] \o s)[i] = Frame(Taken(q) + i)
          <6>. HIDE DEF q
          <6>. QED
            BY <4>1, <4>2, <4>3, <5>1, Continued
        <5>. QED
          BY <5>2 DEF c
      <4>5. Taken(q) + Len(c) = Sent(p) + n
        BY <1>4, <2>1, <4>1, <4>3
      <4>. QED
        BY <4>4, <4>5
    <3>3. \A i : Frame(i)' = Frame(i)
      BY <1>1 DEF Frame
    <3>4. Total' = Total
      BY <1>1 DEF Total
    <3>5. ASSUME ~Failed(q)'
          PROVE  /\ Taken(q)' + Len(channel'[q]) = Sent(p)'
                 /\ Taken(q)' + Len(channel'[q]) <= Total'
                 /\ \A i \in 1..Len(channel'[q]) : channel'[q][i] = Frame(Taken(q)' + i)
      BY <1>3, <1>5, <2>3, <3>2, <3>4, <3>5
    <3>6. Stream(q)'
      BY <1>1, <3>3, <3>5 DEF Stream
    <3>. QED
      BY <3>1, <3>6
  <2>7. FailedServer'
    <3>1. CASE p = "server"
      BY <1>5, <3>1 DEF FailedServer
    <3>2. CASE p = "client" /\ ~Failed("server")
      BY <1>5, <3>2 DEF FailedServer
    <3>3. CASE p = "client" /\ Failed("server")
      <4>1. Echoed' = Echoed
        BY <1>5, <2>3, <3>3 DEF Echoed
      <4>2. ~(Echoed > 0) /\ Echoed # Total
        BY <1>7, <3>3
      <4>3. Total' = Total
        BY <1>1 DEF Total
      <4>. QED
        BY <4>1, <4>2, <4>3 DEF FailedServer
    <3>. QED
      BY <3>1, <3>2, <3>3
  <2>8. FlagsKept' /\ Causes'
    BY <1>1 DEF FlagsKept, Causes, Capacity
  <2>9. \A r \in End : Position(r)' /\ Stream(r)'
    BY <1>6, <2>6
  <2>. QED
    BY <2>5, <2>7, <2>8, <2>9 DEF ExchangeInv
<1>. QED
  BY <1>8, <1>9

(* A receive takes what comes next: of the prefix the length it spells, of *)
(* the payload the bytes in their order.                                   *)
LEMMA ReceiveStep ==
  ASSUME ExchangeInv, NEW p \in End, Receive(p)
  PROVE  ExchangeInv'
<1>. DEFINE q == Other(p)
<1>. USE DEF Transfers, BeforeTaking, BeforeSending, ServerBefore, Before, ClientBefore
<1>1. /\ Types /\ q \in End /\ q # p /\ Other(q) = p /\ Position(p) /\ Position(q)
      /\ Stream(p) /\ Stream(q) /\ FailedServer /\ FlagsKept /\ Causes
      /\ pc[p] \in {"recv_header", "recv_payload"}
      /\ UNCHANGED <<length, client_capacity, original_nonblock, pc, status, expired, fd,
                     backlog, nonblock, flags_failed>>
  BY DEF ExchangeInv, Receive, Receiving, args, flags
<1>2. PICK n \in 1..Len(channel[p]) :
        /\ n <= Asked(p)
        /\ offset' = [offset EXCEPT ![p] = @ + n]
        /\ channel' = [channel EXCEPT ![p] = SubSeq(@, n + 1, Len(@))]
        /\ payload' = IF InHeader(p) THEN payload
                      ELSE [payload EXCEPT ![p] = @ \o [i \in 1..n |-> channel[p][i][2]]]
        /\ frame_length' = IF InHeader(p)
                             THEN [frame_length EXCEPT ![p] = channel[p][1][2]]
                             ELSE frame_length
  BY DEF Receive
<1>. DEFINE c == SubSeq(channel[p], n + 1, Len(channel[p]))
            k == offset[p]
<1>3. /\ n \in Nat \ {0} /\ length \in Nat /\ HeaderSize \in Nat \ {0} /\ Total \in Nat
      /\ k \in Nat /\ channel[p] \in Seq(Byte) /\ Len(channel[p]) \in Nat
      /\ Taken(p) \in Nat
  <2>1. channel[p] \in Seq(Byte) /\ k \in Nat
    BY <1>1 DEF Types
  <2>2. Total \in Nat /\ length \in Nat /\ HeaderSize \in Nat \ {0}
    BY <1>1, Sizes
  <2>3. Taken(p) \in 0..Total
    BY <1>1, Reached
  <2>. HIDE DEF k
  <2>4. Len(channel[p]) \in Nat /\ n \in Nat \ {0}
    BY <2>1
  <2>. QED
    BY <2>1, <2>2, <2>3, <2>4
<1>4. /\ c \in Seq(Byte) /\ Len(c) = Len(channel[p]) - n
      /\ \A i \in 1..(Len(channel[p]) - n) : c[i] = channel[p][n + i]
  BY <1>3, ReceivedRest
<1>5. channel' = [channel EXCEPT ![p] = c]
  BY <1>2
<1>. HIDE DEF c
<1>6. ~Failed(p) /\ ~Failed(p)' /\ (Failed(q)' <=> Failed(q))
  BY <1>1 DEF Failed
<1>7. \A i \in 1..Len(channel[p]) : channel[p][i] = Frame(Taken(p) + i)
  BY <1>1, <1>6 DEF Stream
<1>8. /\ pc[p] = "recv_header" => k + n <= HeaderSize /\ Taken(p) = k
      /\ pc[p] = "recv_payload" =>
           /\ k + n <= length /\ Taken(p) = HeaderSize + k /\ frame_length[p] = length
           /\ payload[p] = Identity(k) /\ length <= Capacity(p)
  BY <1>1, <1>2, <1>3 DEF Asked, Target, InHeader, Position, Taken
<1>9. /\ offset' = [offset EXCEPT ![p] = k + n] /\ offset'[p] = k + n
      /\ channel'[p] = c /\ channel'[q] = channel[q]
      /\ offset' \in [End -> Nat] /\ channel' \in [End -> Seq(Byte)]
  <2>1. offset \in [End -> Nat] /\ channel \in [End -> Seq(Byte)]
    BY <1>1 DEF Types
  <2>2. k + n \in Nat
    BY <1>3
  <2>. QED
    BY <1>1, <1>2, <1>4, <1>5, <2>1, <2>2
<1>10. /\ Position(p)' /\ Same(q)
       /\ frame_length' \in [End -> {-1, length}] /\ payload' \in [End -> Seq(Nat)]
       /\ Len(payload'[p]) <= Capacity(p)
  <2>1. CASE pc[p] = "recv_header"
    <3>1. channel[p][1] = <<"length", length>>
      <4>1. 1 \in 1..Len(channel[p]) /\ Taken(p) + 1 <= HeaderSize
        BY <1>2, <1>3, <1>8, <2>1
      <4>. QED
        BY <1>7, <4>1 DEF Frame
    <3>2. frame_length' = [frame_length EXCEPT ![p] = length] /\ payload' = payload
      BY <1>2, <2>1, <3>1 DEF InHeader
    <3>3. frame_length \in [End -> {-1, length}] /\ payload \in [End -> Seq(Nat)]
      BY <1>1 DEF Types
    <3>4. /\ frame_length'[p] = length /\ frame_length' \in [End -> {-1, length}]
          /\ frame_length'[q] = frame_length[q]
      BY <1>1, <3>2, <3>3
    <3>5. Position(p)'
      BY <1>1, <1>3, <1>8, <1>9, <2>1, <3>2, <3>4 DEF Position
    <3>6. Same(q)
      BY <1>1, <1>9, <3>2, <3>4 DEF Same, Types
    <3>. QED
      BY <1>1, <3>2, <3>3, <3>4, <3>5, <3>6 DEF Types
  <2>2. CASE pc[p] = "recv_payload"
    <3>. DEFINE r == [i \in 1..n |-> channel[p][i][2]]
    <3>1. ASSUME NEW i \in 1..n
          PROVE  channel[p][i][2] = k + i
      <4>1. i \in 1..Len(channel[p]) /\ i \in Nat /\ i >= 1
        BY <1>2, <1>3
      <4>2. Taken(p) + i = HeaderSize + (k + i) /\ ~(Taken(p) + i <= HeaderSize)
            /\ (HeaderSize + (k + i)) - HeaderSize = k + i
        BY <1>3, <1>8, <2>2, <4>1
      <4>3. channel[p][i] = <<"payload", k + i>>
        BY <1>7, <4>1, <4>2 DEF Frame
      <4>. QED
        BY <4>3
    <3>2. r = [i \in 1..n |-> k + i]
      BY <3>1
    <3>3. Identity(k) \o r = Identity(k + n)
      BY <1>3, <3>2, IdentityGrows
    <3>4. payload' = [payload EXCEPT ![p] = Identity(k + n)] /\ frame_length' = frame_length
      BY <1>2, <1>8, <2>2, <3>3 DEF InHeader
    <3>5. Identity(k + n) \in Seq(Nat) /\ Len(Identity(k + n)) = k + n
      BY <1>3 DEF Identity
    <3>6. frame_length \in [End -> {-1, length}] /\ payload \in [End -> Seq(Nat)]
      BY <1>1 DEF Types
    <3>7. /\ payload'[p] = Identity(k + n) /\ payload' \in [End -> Seq(Nat)]
          /\ payload'[q] = payload[q]
      BY <1>1, <3>4, <3>5, <3>6
    <3>8. Position(p)'
      <4>1. k + n <= length /\ frame_length[p] = length /\ length <= Capacity(p)
        BY <1>8, <2>2
      <4>. QED
        BY <1>1, <1>3, <1>9, <2>2, <3>4, <3>7, <4>1 DEF Position, Capacity, Identity
    <3>9. Same(q)
      BY <1>1, <1>9, <3>4, <3>7 DEF Same, Types
    <3>10. Len(payload'[p]) <= Capacity(p)
      <4>1. Capacity(p) \in Nat
        BY <1>1, Sizes
      <4>. QED
        BY <1>3, <1>8, <2>2, <3>5, <3>7, <4>1
    <3>. QED
      BY <3>4, <3>6, <3>7, <3>8, <3>9, <3>10
  <2>. QED
    BY <1>1, <2>1, <2>2
<1>11. /\ Taken(p)' = Taken(p) + n /\ Sent(p)' = Sent(p)
       /\ Taken(p)' + Len(channel'[p]) = Taken(p) + Len(channel[p])
  <2>1. Taken(p)' = Taken(p) + n
    <3>1. pc'[p] = pc[p] /\ offset'[p] = k + n
      BY <1>1, <1>9
    <3>2. Taken(p)' = IF pc[p] = "recv_header" THEN k + n ELSE HeaderSize + (k + n)
      <4>. HIDE DEF k
      <4>. QED
        BY <1>1, <3>1 DEF Taken
    <3>. QED
      BY <1>1, <1>3, <1>8, <3>2
  <2>2. Sent(p)' = Sent(p)
    BY <1>1 DEF Sent, Total
  <2>. QED
    BY <1>3, <1>4, <1>9, <2>1, <2>2
<1>12. Position(q)' /\ Taken(q)' = Taken(q) /\ Sent(q)' = Sent(q)
  BY <1>1, <1>10, PositionKept
<1>13. Types'
  <2>1. UNCHANGED <<original_nonblock, nonblock, flags_failed, expired>>
    BY <1>1
  <2>2. \A r \in End : r = p \/ r = q
    OBVIOUS
  <2>3. Len(channel'[p]) <= Room
    <3>1. Len(channel[p]) <= Room /\ Room \in Nat
      BY <1>1 DEF Types
    <3>. QED
      BY <1>3, <1>4, <1>9, <3>1
  <2>4. \A r \in End : Len(channel'[r]) <= Room /\ Len(payload'[r]) <= Capacity(r)
    BY <1>1, <1>9, <1>10, <2>2, <2>3 DEF Types, Same
  <2>. QED
    BY <1>1, <1>9, <1>10, <2>1, <2>4 DEF Types, Capacity
<1>14. Stream(p)' /\ Stream(q)'
  <2>1. Stream(q)'
    BY <1>1, <1>6, <1>9, <1>11, <1>12, StreamKept
  <2>2. /\ \A i : Frame(i)' = Frame(i)
        /\ Total' = Total
    BY <1>1 DEF Frame, Total
  <2>3. ASSUME NEW i \in 1..Len(channel'[p])
        PROVE  channel'[p][i] = Frame(Taken(p)' + i)
    <3>1. i \in 1..(Len(channel[p]) - n) /\ n + i \in 1..Len(channel[p])
          /\ Taken(p)' + i = Taken(p) + (n + i)
      BY <1>3, <1>4, <1>9, <1>11
    <3>. QED
      BY <1>4, <1>7, <1>9, <3>1
  <2>4. /\ Taken(p)' + Len(channel'[p]) <= Total'
        /\ ~Failed(q)' => Taken(p)' + Len(channel'[p]) = Sent(q)'
    BY <1>1, <1>6, <1>11, <1>12, <2>2 DEF Stream
  <2>5. Stream(p)'
    BY <1>1, <2>2, <2>3, <2>4 DEF Stream
  <2>. QED
    BY <2>1, <2>5
<1>15. FailedServer'
  <2>1. CASE p = "server"
    BY <1>6, <2>1 DEF FailedServer
  <2>2. CASE p = "client"
    <3>1. Echoed' = Echoed
      BY <1>11, <2>2 DEF Echoed
    <3>2. Total' = Total /\ payload'["server"] = payload["server"]
      BY <1>1, <1>10, <2>2 DEF Total, Same
    <3>. QED
      BY <1>1, <1>6, <1>9, <1>11, <2>2, <3>1, <3>2 DEF FailedServer, Identity
  <2>. QED
    BY <2>1, <2>2
<1>16. FlagsKept'
  BY <1>1 DEF FlagsKept
<1>17. Causes'
  <2>1. status[p] = "RUNNING"
    BY <1>1 DEF Position
  <2>2. \A r \in End : r = p \/ r = q
    OBVIOUS
  <2>. QED
    BY <1>1, <1>10, <2>1, <2>2 DEF Causes, Capacity, Same
<1>18. \A r \in End : Position(r)' /\ Stream(r)'
  BY <1>10, <1>12, <1>14
<1>. QED
  BY <1>13, <1>15, <1>16, <1>17, <1>18 DEF ExchangeInv

-----------------------------------------------------------------------------
LEMMA InvInit == Init => ExchangeInv
<1>. SUFFICES ASSUME Init PROVE ExchangeInv
  OBVIOUS
<1>. USE DEF Init
<1>1. length \in Nat /\ client_capacity \in Nat /\ HeaderSize \in Nat \ {0} /\ Room \in Nat
  OBVIOUS
<1>2. Types
  <2>1. /\ original_nonblock \in BOOLEAN /\ nonblock \in BOOLEAN /\ expired \in [End -> BOOLEAN]
    OBVIOUS
  <2>2. /\ payload \in [End -> Seq(Nat)] /\ channel \in [End -> Seq(Byte)]
        /\ \A p \in End : Len(channel[p]) = 0 /\ Len(payload[p]) = 0
    <3>1. <<>> \in Seq(Nat) /\ <<>> \in Seq(Byte) /\ Len(<<>>) = 0
      OBVIOUS
    <3>. QED
      BY <3>1
  <2>3. /\ pc \in [End -> ClientBefore \cup ServerBefore \cup Transfers \cup {"close", "done"}]
        /\ status \in [End -> {"RUNNING", "OK", "EOF", "TRUNCATED", "TIMEOUT", "CAPACITY",
                               "SYSTEM", "VANISHED"}]
        /\ fd \in [End -> {"none", "open", "closed"}] /\ backlog \in {"empty", "waiting"}
    BY DEF ClientBefore, ServerBefore
  <2>4. offset \in [End -> Nat] /\ frame_length \in [End -> {-1, length}]
    OBVIOUS
  <2>5. \A p \in End : Len(channel[p]) <= Room /\ Len(payload[p]) <= Capacity(p)
    BY <1>1, <2>2 DEF Capacity
  <2>. QED
    BY <2>1, <2>2, <2>3, <2>4, <2>5 DEF Types
<1>3. ASSUME NEW p \in End PROVE Position(p)
  BY DEF Position, Before, ClientBefore, ServerBefore, Transfers, BeforeTaking
<1>4. ASSUME NEW p \in End
      PROVE  Taken(p) = 0 /\ Sent(p) = 0 /\ ~Failed(p) /\ Len(channel[p]) = 0
  BY DEF Taken, Sent, BeforeTaking, BeforeSending, ClientBefore, ServerBefore, Failed
<1>5. ASSUME NEW p \in End PROVE Stream(p)
  BY <1>1, <1>4 DEF Stream, Total
<1>6. FailedServer /\ FlagsKept
  BY <1>4 DEF FailedServer, FlagsKept, Transfers
<1>7. Causes
  BY DEF Causes
<1>. QED
  BY <1>2, <1>3, <1>5, <1>6, <1>7 DEF ExchangeInv

LEMMA InvNext == ExchangeInv /\ [Next]_vars => ExchangeInv'
<1>. SUFFICES ASSUME ExchangeInv, [Next]_vars PROVE ExchangeInv'
  OBVIOUS
<1>1. ASSUME NEW p \in End, Transfer(p) PROVE ExchangeInv'
  BY <1>1, SendStep, ReceiveStep, TransferEndsStep, TransferStep, FinishedStep, CloseStep
     DEF Transfer
<1>2. CASE Server
  BY <1>1, <1>2, ListenerStep, RestoreStep, TransferStep DEF Server
<1>3. CASE Client
  BY <1>1, <1>3, TransferStep DEF Client
<1>4. CASE Connect \/ Vanish \/ WaitConnectionFails
  BY <1>4, ConnectStep, VanishStep, ListenerStep
<1>5. CASE \E p \in End : TransferFails(p) \/ Expire(p)
  BY <1>5, TransferEndsStep, ExpireStep
<1>6. CASE UNCHANGED vars
  <2>1. UNCHANGED <<length, client_capacity, original_nonblock, pc, status, offset,
                    frame_length, payload, expired, channel, fd, backlog, nonblock, flags_failed>>
    BY <1>6 DEF vars, args, kernel, flags
  <2>2. Types'
    BY <2>1 DEF ExchangeInv, Types, Capacity
  <2>3. ASSUME NEW p \in End
        PROVE  /\ Position(p)' /\ Taken(p)' = Taken(p) /\ Sent(p)' = Sent(p)
               /\ Failed(p)' <=> Failed(p)
    BY <2>1, PositionKept DEF Same, ExchangeInv
  <2>4. ASSUME NEW p \in End PROVE Stream(p)'
    BY <2>1, <2>3, StreamKept DEF ExchangeInv
  <2>5. FailedServer' /\ FlagsKept'
    BY <2>1 DEF ExchangeInv, FailedServer, FlagsKept, Failed, Echoed, Total, Taken, Sent,
       Identity, BeforeTaking, BeforeSending
  <2>6. Causes'
    BY <2>1 DEF ExchangeInv, Causes, Capacity
  <2>. QED
    BY <2>2, <2>3, <2>4, <2>5, <2>6 DEF ExchangeInv
<1>. QED
  BY <1>2, <1>3, <1>4, <1>5, <1>6 DEF Next

THEOREM ExchangeInvariant == Spec => []ExchangeInv
<1>. QED
  BY InvInit, InvNext, PTL DEF Spec

-----------------------------------------------------------------------------
(* What the exchange promises.                                             *)

(* No transfer goes past what was asked for, no channel past the kernel's  *)
(* room, no payload past its receiver's capacity: recv_exact_until and     *)
(* send_all_until ask for what is left, and recv_frame checks the length   *)
(* first.                                                                  *)
THEOREM TransfersStayInBounds == Spec => []TypeOK
<1>. USE DEF Transfers, BeforeTaking, BeforeSending, ServerBefore, Before, ClientBefore
<1>1. ExchangeInv => TypeOK
  <2>. SUFFICES ASSUME ExchangeInv PROVE TypeOK
    OBVIOUS
  <2>1. /\ Types /\ length \in Nat /\ HeaderSize \in Nat \ {0}
        /\ \A p \in End : Position(p) /\ offset[p] \in Nat /\ frame_length[p] \in {-1, length}
    BY Sizes DEF ExchangeInv, Types
  <2>2. ASSUME NEW p \in End
        PROVE  /\ frame_length[p] \in {-1} \cup Lengths
               /\ Sending(p) \/ Receiving(p) => offset[p] \in 0..Target(p)
               /\ Len(channel[p]) <= Room /\ Len(payload[p]) <= Capacity(p)
    <3>1. Sending(p) \/ Receiving(p) => offset[p] \in 0..Target(p)
      BY <2>1 DEF Position, Sending, Receiving, Target, InHeader
    <3>. QED
      BY <2>1, <3>1 DEF Types
  <2>3. original_nonblock \in BOOLEAN /\ nonblock \in BOOLEAN /\ expired \in [End -> BOOLEAN]
    BY <2>1 DEF Types
  <2>4. pc \in [End -> {"connect", "flags", "listen", "accept", "restore", "send_header",
                        "send_payload", "recv_header", "recv_payload", "close", "done"}]
    <3>1. ClientBefore \cup ServerBefore \cup Transfers \cup {"close", "done"} =
            {"connect", "flags", "listen", "accept", "restore", "send_header",
             "send_payload", "recv_header", "recv_payload", "close", "done"}
      OBVIOUS
    <3>. QED
      BY <2>1, <3>1 DEF Types
  <2>. QED
    BY <2>1, <2>2, <2>3, <2>4 DEF Types, TypeOK
<1>. QED
  BY <1>1, ExchangeInvariant, PTL

(* A client whose calls of send_frame and recv_frame succeed has its own   *)
(* payload back, and serve_one received it and left no byte unread.        *)
THEOREM EchoIsTheRequest == Spec => []EchoIsRequest
<1>. USE DEF Transfers, BeforeTaking, BeforeSending, ServerBefore, Before, ClientBefore
<1>1. ExchangeInv => EchoIsRequest
  <2>. DEFINE c == "client"
              v == "server"
  <2>. SUFFICES ASSUME ExchangeInv, Stopped(c, {"OK"})
                PROVE  /\ payload[c] = Identity(length) /\ payload[v] = Identity(length)
                       /\ status[v] \in {"RUNNING", "OK", "SYSTEM"}
                       /\ channel[c] = <<>> /\ channel[v] = <<>>
    BY DEF EchoIsRequest, Identity
  <2>1. /\ Types /\ Position(c) /\ Position(v) /\ Stream(c) /\ Stream(v) /\ FailedServer
        /\ pc[c] \in {"close", "done"} /\ status[c] = "OK" /\ ~Failed(c)
    BY DEF ExchangeInv, Stopped, Failed
  <2>2. payload[c] = Identity(length) /\ Taken(c) = Total /\ Sent(c) = Total
    BY <2>1 DEF Position, Taken, Sent
  <2>3. /\ Total \in Nat \ {0} /\ channel[c] \in Seq(Byte) /\ channel[v] \in Seq(Byte)
        /\ Taken(v) \in 0..Total /\ Sent(v) \in 0..Total
    BY <2>1, Sizes, Reached DEF Types
  <2>4. Taken(c) + Len(channel[c]) <= Total
    BY <2>1 DEF Stream
  <2>5. Len(channel[c]) \in Nat /\ Len(channel[v]) \in Nat
    BY <2>3
  <2>6. Len(channel[c]) = 0
    BY <2>2, <2>3, <2>4, <2>5
  <2>7. channel[c] = <<>> /\ Echoed = Total
    BY <2>2, <2>3, <2>6, EmptySeq DEF Echoed
  <2>8. CASE Failed(v)
    BY <2>1, <2>2, <2>3, <2>7, <2>8 DEF FailedServer
  <2>9. CASE ~Failed(v)
    <3>1. Sent(v) = Total /\ Taken(v) + Len(channel[v]) = Total
      BY <2>1, <2>2, <2>3, <2>6, <2>9 DEF Stream
    <3>2. pc[v] \in {"send_header", "send_payload", "close", "done"}
      BY <2>1, <2>3, <3>1 DEF Sent, Position
    <3>3. Taken(v) = Total /\ payload[v] = Identity(length)
      BY <2>1, <2>9, <3>2 DEF Taken, Position, Failed
    <3>4. Len(channel[v]) = 0
      BY <2>3, <2>5, <3>1, <3>3
    <3>5. status[v] \in {"RUNNING", "OK"}
      BY <2>1, <2>9, <3>2 DEF Position, Failed
    <3>. QED
      BY <2>2, <2>3, <2>7, <3>3, <3>4, <3>5, EmptySeq
  <2>. QED
    BY <2>8, <2>9
<1>. QED
  BY <1>1, ExchangeInvariant, PTL

(* A call that fails has the cause it reports: no payload byte was taken   *)
(* of a frame that is too long, only an end's own deadline times it out,   *)
(* and bytes end early only because the other end did not succeed.         *)
THEOREM FailuresHaveTheirCause == Spec => []FailuresExplained
<1>1. ExchangeInv => FailuresExplained
  BY DEF ExchangeInv, Causes, FailuresExplained, Stopped
<1>. QED
  BY <1>1, ExchangeInvariant, PTL

(* serve_one holds no connection and hands the listener back with the flags *)
(* it had, however it ends, after a failed poll or accept too; only the     *)
(* call that restores them can spoil that, and then SYSTEM says so.         *)
THEOREM ListenerIsHandedBack == Spec => []ListenerRestored
<1>1. ExchangeInv => ListenerRestored
  BY DEF ExchangeInv, FlagsKept, Position, ListenerRestored
<1>. QED
  BY <1>1, ExchangeInvariant, PTL

=============================================================================
