---------------------------- MODULE StreamSockets ----------------------------
(***************************************************************************)
(* Lesson 08: a server in tcpip_l08_serve_one and a client that calls      *)
(* tcpip_l08_send_frame and tcpip_l08_recv_frame once each, over two byte  *)
(* streams of bounded room.  Both ends run the same loops (send_all_until, *)
(* recv_exact_until) against an absolute deadline of their own; the client *)
(* may also vanish.  One poll and the call it permits are one step, except *)
(* for accept, where a connection may vanish in between.                   *)
(***************************************************************************)
EXTENDS Integers, Sequences

CONSTANTS
  HeaderSize,       \* bytes of the length prefix
  ServerCapacity,   \* TCPIP_L08_SERVER_FRAME_CAPACITY
  Lengths,          \* bound: payload lengths the client sends
  ClientCapacities, \* bound: cap of the client's recv_frame
  Room,             \* bytes of each direction the kernel holds
  SystemFailures    \* whether system calls may fail

ASSUME SizesAssumption ==
  /\ HeaderSize \in Nat \ {0} /\ Room \in Nat \ {0}
  /\ ServerCapacity \in Nat /\ Lengths \subseteq Nat /\ ClientCapacities \subseteq Nat
  /\ SystemFailures \in BOOLEAN

End   == {"client", "server"}
Other(p) == IF p = "client" THEN "server" ELSE "client"

VARIABLES
  length, client_capacity,     \* arguments of the client's calls
  original_nonblock,           \* flags the listener had
  pc, status,                  \* control and result of each end
  offset,                      \* bytes moved by the current transfer
  frame_length,                \* the decoded (or sent) length; -1 before
  payload,                     \* payload bytes received
  expired,                     \* whether the end's deadline has passed
  channel,                     \* kernel: bytes under way to each end
  fd,                          \* kernel: the ends' descriptors
  backlog, nonblock,           \* kernel: the listener
  flags_failed                 \* history: restoring the listener's flags failed

args   == <<length, client_capacity, original_nonblock>>
flags  == <<nonblock, flags_failed>>
kernel == <<channel, fd, backlog, flags>>
vars   == <<args, pc, status, offset, frame_length, payload, expired, kernel>>

Init ==
  /\ length \in Lengths /\ client_capacity \in ClientCapacities
  /\ original_nonblock \in BOOLEAN /\ nonblock = original_nonblock
  /\ pc = [p \in End |-> IF p = "client" THEN "connect" ELSE "flags"]
  /\ status = [p \in End |-> "RUNNING"]
  /\ offset = [p \in End |-> 0]
  /\ frame_length = [p \in End |-> -1]
  /\ payload = [p \in End |-> <<>>]
  /\ expired = [p \in End |-> FALSE]
  /\ channel = [p \in End |-> <<>>]
  /\ fd = [p \in End |-> "none"]
  /\ backlog = "empty" /\ flags_failed = FALSE

-----------------------------------------------------------------------------
(* Transfers.  A header is HeaderSize bytes that spell the length; the bytes *)
(* of the client's payload are 1, 2, ...                                     *)
Sending(p)   == pc[p] \in {"send_header", "send_payload"}
Receiving(p) == pc[p] \in {"recv_header", "recv_payload"}
InHeader(p)  == pc[p] \in {"send_header", "recv_header"}

Target(p) == IF InHeader(p) THEN HeaderSize ELSE frame_length[p]

Wire(p) ==
  IF pc[p] = "send_header"
    THEN [i \in 1..HeaderSize |-> <<"length", frame_length[p]>>]
    ELSE IF p = "server" THEN [i \in 1..Len(payload[p]) |-> <<"payload", payload[p][i]>>]
         ELSE [i \in 1..length |-> <<"payload", i>>]

(* An end that fails, or is done, closes its descriptor next. *)
Fail(p, result) ==
  /\ status' = [status EXCEPT ![p] = result]
  /\ pc' = [pc EXCEPT ![p] = "close"]

(* What is sent to a closed end is lost, or reported (TransferFails also     *)
(* stands for a reset, which may overtake bytes under way).                  *)
FreeRoom(p) == Room - Len(channel[Other(p)])

Send(p) ==
  /\ Sending(p)
  /\ \E n \in 1..(Target(p) - offset[p]) :
       /\ n <= FreeRoom(p) \/ fd[Other(p)] = "closed"
       /\ offset' = [offset EXCEPT ![p] = @ + n]
       /\ channel' = IF fd[Other(p)] = "closed" THEN channel
                     ELSE [channel EXCEPT ![Other(p)] =
                             @ \o SubSeq(Wire(p), offset[p] + 1, offset[p] + n)]
  /\ UNCHANGED <<args, pc, status, frame_length, payload, expired, fd, backlog, flags>>

SendBroken(p) ==
  /\ Sending(p) /\ offset[p] < Target(p) /\ fd[Other(p)] = "closed"
  /\ Fail(p, "SYSTEM")
  /\ UNCHANGED <<args, offset, frame_length, payload, expired, kernel>>

(* Seeded fault: a read may go past what was asked for. *)
AskedNoLimit(p) == Len(channel[p])

Asked(p) == Target(p) - offset[p]

Receive(p) ==
  /\ Receiving(p) /\ offset[p] < Target(p)
  /\ \E n \in 1..Len(channel[p]) :
       /\ n <= Asked(p)
       /\ offset' = [offset EXCEPT ![p] = @ + n]
       /\ channel' = [channel EXCEPT ![p] = SubSeq(@, n + 1, Len(@))]
       /\ payload' = IF InHeader(p) THEN payload
                     ELSE [payload EXCEPT ![p] = @ \o [i \in 1..n |-> channel[p][i][2]]]
       /\ frame_length' = IF InHeader(p)
                            THEN [frame_length EXCEPT ![p] = channel[p][1][2]]
                            ELSE frame_length
  /\ UNCHANGED <<args, pc, status, expired, fd, backlog, flags>>

ReceiveEnd(p) ==
  /\ Receiving(p) /\ offset[p] < Target(p)
  /\ channel[p] = <<>> /\ fd[Other(p)] = "closed"
  /\ Fail(p, IF offset[p] = 0 THEN "EOF" ELSE "TRUNCATED")
  /\ UNCHANGED <<args, offset, frame_length, payload, expired, kernel>>

Ready(p) ==
  \/ fd[Other(p)] = "closed"
  \/ Sending(p) /\ FreeRoom(p) > 0
  \/ Receiving(p) /\ channel[p] # <<>>

(* Seeded fault: poll returns at once. *)
WaitTimeoutEager(p) ==
  /\ Sending(p) \/ Receiving(p)
  /\ offset[p] < Target(p) /\ ~Ready(p)
  /\ Fail(p, "TIMEOUT")
  /\ UNCHANGED <<args, offset, frame_length, payload, expired, kernel>>

(* poll without an event ends at the deadline; with one it never does. *)
WaitTimeout(p) ==
  /\ Sending(p) \/ Receiving(p)
  /\ offset[p] < Target(p) /\ ~Ready(p) /\ expired[p]
  /\ Fail(p, "TIMEOUT")
  /\ UNCHANGED <<args, offset, frame_length, payload, expired, kernel>>

TransferFails(p) ==
  /\ SystemFailures
  /\ Sending(p) \/ Receiving(p)
  /\ offset[p] < Target(p)
  /\ Fail(p, "SYSTEM")
  /\ UNCHANGED <<args, offset, frame_length, payload, expired, kernel>>

-----------------------------------------------------------------------------
(* What follows a complete transfer. *)

Capacity(p) == IF p = "client" THEN client_capacity ELSE ServerCapacity

GoTo(p, next) ==
  /\ pc' = [pc EXCEPT ![p] = next]
  /\ offset' = [offset EXCEPT ![p] = 0]

Complete(p) == offset[p] = Target(p)

HeaderSent(p) ==
  /\ pc[p] = "send_header" /\ Complete(p)
  /\ GoTo(p, "send_payload")
  /\ UNCHANGED <<args, status, frame_length, payload, expired, kernel>>

(* Seeded fault: the payload is read up to the capacity. *)
HeaderReceivedClamps(p) ==
  /\ pc[p] = "recv_header" /\ Complete(p)
  /\ GoTo(p, "recv_payload")
  /\ frame_length' = [frame_length EXCEPT ![p] = IF @ > Capacity(p) THEN Capacity(p) ELSE @]
  /\ UNCHANGED <<args, status, payload, expired, kernel>>

HeaderReceived(p) ==
  /\ pc[p] = "recv_header" /\ Complete(p)
  /\ \/ /\ frame_length[p] > Capacity(p)
        /\ Fail(p, "CAPACITY") /\ UNCHANGED offset
     \/ /\ frame_length[p] <= Capacity(p)
        /\ GoTo(p, "recv_payload") /\ UNCHANGED status
  /\ UNCHANGED <<args, frame_length, payload, expired, kernel>>

(* The server echoes under the same deadline. *)
ServerReceived ==
  /\ pc["server"] = "recv_payload" /\ Complete("server")
  /\ GoTo("server", "send_header")
  /\ UNCHANGED <<args, status, frame_length, payload, expired, kernel>>

(* The client's recv_frame is a new call with a new deadline. *)
ClientSent ==
  /\ pc["client"] = "send_payload" /\ Complete("client")
  /\ GoTo("client", "recv_header")
  /\ expired' = [expired EXCEPT !["client"] = FALSE]
  /\ frame_length' = [frame_length EXCEPT !["client"] = -1]
  /\ UNCHANGED <<args, status, payload, kernel>>

Finished(p) ==
  /\ pc[p] = IF p = "client" THEN "recv_payload" ELSE "send_payload"
  /\ Complete(p)
  /\ Fail(p, "OK")
  /\ UNCHANGED <<args, offset, frame_length, payload, expired, kernel>>

Close(p) ==
  /\ pc[p] = "close"
  /\ pc' = [pc EXCEPT ![p] = "done"]
  /\ fd' = [fd EXCEPT ![p] = IF @ = "open" THEN "closed" ELSE @]
  /\ \/ UNCHANGED status
     \/ /\ SystemFailures /\ p = "server" /\ fd[p] = "open" /\ status[p] = "OK"
        /\ status' = [status EXCEPT ![p] = "SYSTEM"]
  /\ UNCHANGED <<args, offset, frame_length, payload, expired, channel, backlog, flags>>

-----------------------------------------------------------------------------
(* The server up to the accepted connection. *)

SetListenerFlags ==
  /\ pc["server"] = "flags"
  /\ \/ pc' = [pc EXCEPT !["server"] = "listen"] /\ nonblock' = TRUE /\ UNCHANGED status
     \/ /\ SystemFailures
        /\ Fail("server", "SYSTEM") /\ UNCHANGED nonblock
  /\ UNCHANGED <<args, offset, frame_length, payload, expired, channel, fd, backlog,
                 flags_failed>>

LeaveLoop(result) ==
  /\ pc' = [pc EXCEPT !["server"] = "restore"]
  /\ status' = [status EXCEPT !["server"] = result]

(* Seeded fault: the wait for a connection has no deadline. *)
WaitConnectionForever ==
  /\ pc["server"] = "listen"
  /\ backlog = "waiting"
  /\ pc' = [pc EXCEPT !["server"] = "accept"] /\ UNCHANGED status
  /\ UNCHANGED <<args, offset, frame_length, payload, expired, kernel>>

WaitConnection ==
  /\ pc["server"] = "listen"
  /\ \/ backlog = "waiting" /\ pc' = [pc EXCEPT !["server"] = "accept"] /\ UNCHANGED status
     \/ backlog # "waiting" /\ expired["server"] /\ LeaveLoop("TIMEOUT")
  /\ UNCHANGED <<args, offset, frame_length, payload, expired, kernel>>

WaitConnectionFails ==
  /\ SystemFailures
  /\ pc["server"] = "listen"
  /\ LeaveLoop("SYSTEM")
  /\ UNCHANGED <<args, offset, frame_length, payload, expired, kernel>>

(* A connection that vanished after poll is EAGAIN: the listener does not    *)
(* block, and the loop waits again for what is left of the deadline.         *)
Accept ==
  /\ pc["server"] = "accept"
  /\ \/ /\ backlog = "waiting" /\ backlog' = "empty"
        /\ fd' = [fd EXCEPT !["server"] = "open"]
        /\ LeaveLoop("RUNNING")
     \/ /\ backlog # "waiting"
        /\ pc' = [pc EXCEPT !["server"] = "listen"]
        /\ UNCHANGED <<status, fd, backlog>>
     \/ SystemFailures /\ LeaveLoop("SYSTEM") /\ UNCHANGED <<fd, backlog>>
  /\ UNCHANGED <<args, offset, frame_length, payload, expired, channel, flags>>

(* Seeded fault: a failed poll or accept returns at once. *)
RestoreUnlessFailed ==
  /\ pc["server"] = "restore"
  /\ nonblock' = IF status["server"] = "SYSTEM" THEN nonblock ELSE original_nonblock
  /\ pc' = [pc EXCEPT !["server"] =
               IF status["server"] = "RUNNING" THEN "recv_header" ELSE "close"]
  /\ UNCHANGED <<args, status, offset, frame_length, payload, expired, channel, fd, backlog,
                 flags_failed>>

RestoreListenerFlags ==
  /\ pc["server"] = "restore"
  /\ \/ /\ nonblock' = original_nonblock
        /\ pc' = [pc EXCEPT !["server"] =
                    IF status["server"] = "RUNNING" THEN "recv_header" ELSE "close"]
        /\ UNCHANGED <<status, flags_failed>>
     \/ /\ SystemFailures /\ ~original_nonblock
        /\ Fail("server", "SYSTEM") /\ flags_failed' = TRUE /\ UNCHANGED nonblock
  /\ UNCHANGED <<args, offset, frame_length, payload, expired, channel, fd, backlog>>

-----------------------------------------------------------------------------
(* The client's program, its disappearance (the kernel may still offer its   *)
(* connection to accept, or withdraw it), and the deadlines.                 *)

Connect ==
  /\ pc["client"] = "connect"
  /\ pc' = [pc EXCEPT !["client"] = "send_header"]
  /\ frame_length' = [frame_length EXCEPT !["client"] = length]
  /\ fd' = [fd EXCEPT !["client"] = "open"]
  /\ backlog' = "waiting"
  /\ UNCHANGED <<args, status, offset, payload, expired, channel, flags>>

Vanish ==
  /\ Sending("client") \/ Receiving("client")
  /\ pc' = [pc EXCEPT !["client"] = "done"]
  /\ status' = [status EXCEPT !["client"] = "VANISHED"]
  /\ fd' = [fd EXCEPT !["client"] = "closed"]
  /\ backlog' \in {backlog, "empty"}
  /\ UNCHANGED <<args, offset, frame_length, payload, expired, channel, flags>>

Expire(p) ==
  /\ ~expired[p] /\ pc[p] # "done"
  /\ expired' = [expired EXCEPT ![p] = TRUE]
  /\ UNCHANGED <<args, pc, status, offset, frame_length, payload, kernel>>

Transfer(p) ==
  \/ Send(p) \/ SendBroken(p) \/ Receive(p) \/ ReceiveEnd(p) \/ WaitTimeout(p)
  \/ HeaderSent(p) \/ HeaderReceived(p) \/ Finished(p) \/ Close(p)

Server ==
  \/ SetListenerFlags \/ WaitConnection \/ Accept \/ RestoreListenerFlags
  \/ Transfer("server") \/ ServerReceived

Client == Transfer("client") \/ ClientSent

Next ==
  \/ Server \/ Client \/ Connect \/ Vanish \/ WaitConnectionFails
  \/ \E p \in End : TransferFails(p) \/ Expire(p)

(* Each thread runs and time passes; the client need not connect, and no     *)
(* wait may count on a failure to end.                                       *)
Spec ==
  /\ Init /\ [][Next]_vars
  /\ WF_vars(Server) /\ WF_vars(Client)
  /\ \A p \in End : WF_vars(Expire(p))

-----------------------------------------------------------------------------
(* A transfer never moves more than it was asked to; the kernel never holds  *)
(* more than its room.                                                       *)
TypeOK ==
  /\ length \in Lengths /\ client_capacity \in ClientCapacities
  /\ original_nonblock \in BOOLEAN /\ nonblock \in BOOLEAN /\ flags_failed \in BOOLEAN
  /\ pc \in [End -> {"connect", "flags", "listen", "accept", "restore", "send_header",
                     "send_payload", "recv_header", "recv_payload", "close", "done"}]
  /\ status \in [End -> {"RUNNING", "OK", "EOF", "TRUNCATED", "TIMEOUT", "CAPACITY",
                         "SYSTEM", "VANISHED"}]
  /\ expired \in [End -> BOOLEAN]
  /\ fd \in [End -> {"none", "open", "closed"}]
  /\ backlog \in {"empty", "waiting"}
  /\ \A p \in End :
       /\ frame_length[p] \in {-1} \cup Lengths
       /\ Sending(p) \/ Receiving(p) => offset[p] \in 0..Target(p)
       /\ Len(channel[p]) <= Room
       /\ Len(payload[p]) <= Capacity(p)

Stopped(p, results) == pc[p] \in {"close", "done"} /\ status[p] \in results

(* A client whose two calls succeed has its own payload back, through a      *)
(* server that received exactly that payload, did not run out of time, and   *)
(* left nothing unread.                                                      *)
EchoIsRequest ==
  Stopped("client", {"OK"}) =>
    /\ payload["client"] = [i \in 1..length |-> i]
    /\ payload["server"] = payload["client"]
    /\ status["server"] \in {"RUNNING", "OK", "SYSTEM"}
    /\ \A p \in End : channel[p] = <<>>

(* Every failure has its cause.  CAPACITY: a frame that is too long, of      *)
(* which no payload byte was taken.  TIMEOUT: the end's own deadline.  EOF   *)
(* and TRUNCATED: the other end stopped first, and not because it succeeded. *)
FailuresExplained ==
  \A p \in End :
    /\ Stopped(p, {"CAPACITY"}) => length > Capacity(p) /\ payload[p] = <<>>
    /\ Stopped(p, {"TIMEOUT"}) => expired[p]
    /\ Stopped(p, {"EOF", "TRUNCATED"}) =>
         /\ fd[Other(p)] = "closed"
         /\ status[Other(p)] \in {"TIMEOUT", "CAPACITY", "SYSTEM", "EOF", "TRUNCATED",
                                  "VANISHED"}

(* However serve_one ends, after a failed poll or accept too, it holds no    *)
(* connection and the listener has the flags it came with.  Only the call    *)
(* that restores them can spoil that by failing, and then the status is      *)
(* SYSTEM.                                                                   *)
ListenerRestored ==
  pc["server"] = "done" =>
    /\ fd["server"] # "open"
    /\ nonblock = original_nonblock \/ flags_failed
    /\ flags_failed => status["server"] = "SYSTEM"

(* The deadlines bound both ends, whatever the other one does. *)
ServerReturns == <>(pc["server"] = "done")
BothReturn == ServerReturns /\ (fd["client"] = "open" ~> pc["client"] = "done")

(* "A clean close before any byte is EOF and after partial progress is       *)
(* TRUNCATED" (lesson README, timeline): recv_frame answers EOF only if it   *)
(* has received nothing.                                                     *)
EofMeansNothingReceived ==
  \A p \in End : Stopped(p, {"EOF"}) => frame_length[p] = -1
=============================================================================
