---------------------------- MODULE HttpExchange ----------------------------
(***************************************************************************)
(* Lesson 10 on a connection: a server in tcpip_l10_serve_one, and a       *)
(* client that calls tcpip_l10_send_message with any bytes and then        *)
(* tcpip_l10_recv_message; the client may also vanish.  Both run the same  *)
(* loops (recv_until, send_until) under one absolute deadline per call.    *)
(* What an end has received is a prefix of what the other end sends, so    *)
(* the streams are kept as counters.                                       *)
(***************************************************************************)
EXTENDS HttpMessage

CONSTANTS
  Streams,          \* bound: what the client sends
  Capacities,       \* bound: the client's cap and the server's request_capacity
  Room,             \* bytes of each direction the kernel holds
  SystemFailures    \* bound: whether system calls may fail

End      == {"client", "server"}
Other(p) == IF p = "client" THEN "server" ELSE "client"

ASSUME ExchangeAssumption ==
  /\ Streams \subseteq Seq(Texts \cup {CR, LF, "x"})
  /\ Capacities \subseteq [End -> Nat \ {0}] /\ Room \in Nat \ {0}
  /\ SystemFailures \subseteq BOOLEAN

Response ==
  <<"response", CR, LF, "length2", CR, LF, "field", CR, LF, "field", CR, LF, CR, LF, "x", "x">>

VARIABLES
  stream, capacity, original_nonblock,   \* arguments and original flags
  failing,                               \* whether system calls may fail
  call, pc, status,                      \* of each end
  sent, received,                        \* bytes
  message,                               \* the result of recv_until
  expired,                               \* whether the call's deadline has passed
  fd, nonblock,                          \* kernel: descriptors
  late                                   \* history: transfers after the deadline; -1 before

args == <<stream, capacity, original_nonblock, failing>>
vars == <<args, call, pc, status, sent, received, message, expired, fd, nonblock, late>>

Ends == [bytes \in Streams \cup {Response} |-> MessageEnds(bytes)]

Content(p)  == IF p = "client" THEN stream ELSE Response
Incoming(p) == SubSeq(Content(Other(p)), 1, received[p])
InFlight(p) == sent[p] - received[Other(p)]

Init ==
  /\ stream \in Streams /\ capacity \in Capacities /\ failing \in SystemFailures
  /\ original_nonblock \in BOOLEAN /\ nonblock = [p \in End |-> original_nonblock]
  /\ call = [p \in End |-> IF p = "client" THEN "send_message" ELSE "serve_one"]
  /\ pc = [p \in End |-> "start"] /\ status = [p \in End |-> "RUNNING"]
  /\ sent = [p \in End |-> 0] /\ received = [p \in End |-> 0]
  /\ message = [p \in End |-> NoMessage("RUNNING")]
  /\ expired = [p \in End |-> FALSE] /\ late = [p \in End |-> -1]
  /\ fd = [p \in End |-> "open"]

GoTo(p, next) == pc' = [pc EXCEPT ![p] = next]

Leave(p, result, next) ==
  /\ status' = [status EXCEPT ![p] = result]
  /\ GoTo(p, next)

-----------------------------------------------------------------------------
(* The head of a call. *)
Start(p) ==
  /\ pc[p] = "start"
  /\ \/ /\ call[p] = "send_message" /\ stream = <<>>
        /\ Leave(p, "OK", "return") /\ UNCHANGED nonblock
     \/ /\ call[p] # "send_message" \/ stream # <<>>
        /\ nonblock' = [nonblock EXCEPT ![p] = TRUE]
        /\ GoTo(p, IF call[p] = "send_message" THEN "send" ELSE "receive")
        /\ UNCHANGED status
  /\ UNCHANGED <<args, call, sent, received, message, expired, fd, late>>

StartFails(p) ==
  /\ failing /\ pc[p] = "start" /\ (call[p] # "send_message" \/ stream # <<>>)
  /\ Leave(p, "SYSTEM", "return")
  /\ UNCHANGED <<args, call, sent, received, message, expired, fd, nonblock, late>>

(* Seeded fault: the kind of the message is not looked at. *)
ReceivedAnyKind(p, result) ==
  /\ message' = [message EXCEPT ![p] = result]
  /\ IF result.status = "OK" /\ p = "server" THEN GoTo(p, "send") /\ UNCHANGED status
     ELSE Leave(p, result.status, "restore")

(* What follows recv_until: a server answers a request, and only a request. *)
Received(p, result) ==
  /\ message' = [message EXCEPT ![p] = result]
  /\ IF result.status = "OK" /\ p = "server" /\ result.kind = "request"
       THEN GoTo(p, "send") /\ UNCHANGED status
       ELSE Leave(p, IF p = "server" /\ result.status = "OK" THEN "MALFORMED" ELSE result.status,
                  "restore")

(* Seeded fault: a poll that would not block is made even past the deadline. *)
ParseReceivedReady(p) ==
  /\ pc[p] = "receive"
  /\ \E result \in {Parse(Incoming(p))} :
         \/ result.status # "TRUNCATED" /\ Received(p, result)
         \/ /\ result.status = "TRUNCATED" /\ received[p] = capacity[p]
            /\ Received(p, NoMessage("CAPACITY"))
         \/ /\ result.status = "TRUNCATED" /\ received[p] < capacity[p]
            /\ GoTo(p, "poll_in") /\ UNCHANGED <<status, message>>
  /\ UNCHANGED <<args, call, sent, received, expired, fd, nonblock, late>>

(* A turn of recv_until up to poll. *)
ParseReceived(p) ==
  /\ pc[p] = "receive"
  /\ \E result \in {Parse(Incoming(p))} :
         \/ result.status # "TRUNCATED" /\ Received(p, result)
         \/ /\ result.status = "TRUNCATED" /\ received[p] = capacity[p]
            /\ Received(p, NoMessage("CAPACITY"))
         \/ /\ result.status = "TRUNCATED" /\ received[p] < capacity[p]
            /\ IF expired[p] THEN Received(p, NoMessage("TIMEOUT"))
               ELSE GoTo(p, "poll_in") /\ UNCHANGED <<status, message>>
  /\ UNCHANGED <<args, call, sent, received, expired, fd, nonblock, late>>

Moved(p) == late' = [late EXCEPT ![p] = IF @ >= 0 THEN @ + 1 ELSE @]

Receive(p) ==
  /\ pc[p] = "poll_in"
  /\ \E n \in 1..(capacity[p] - received[p]) :
       /\ n <= InFlight(Other(p))
       /\ received' = [received EXCEPT ![p] = @ + n]
  /\ Moved(p) /\ GoTo(p, "receive")
  /\ UNCHANGED <<args, call, status, sent, message, expired, fd, nonblock>>

(* Seeded fault: an end after some bytes is reported like a clean one. *)
EofStatusAlways(p) == "EOF"

EofStatus(p) == IF received[p] = 0 THEN "EOF" ELSE "TRUNCATED"

ReceiveEnd(p) ==
  /\ pc[p] = "poll_in" /\ InFlight(Other(p)) = 0 /\ fd[Other(p)] = "closed"
  /\ Received(p, NoMessage(EofStatus(p)))
  /\ UNCHANGED <<args, call, sent, received, expired, fd, nonblock, late>>

-----------------------------------------------------------------------------
(* A turn of send_until up to poll. *)
SendOrStop(p) ==
  /\ pc[p] = "send"
  /\ \/ sent[p] = Len(Content(p)) /\ Leave(p, "OK", "restore")
     \/ sent[p] < Len(Content(p)) /\ expired[p] /\ Leave(p, "TIMEOUT", "restore")
     \/ sent[p] < Len(Content(p)) /\ ~expired[p] /\ GoTo(p, "poll_out") /\ UNCHANGED status
  /\ UNCHANGED <<args, call, sent, received, message, expired, fd, nonblock, late>>

(* What is sent to a closed end is lost, or reported. *)
Send(p) ==
  /\ pc[p] = "poll_out"
  /\ \E n \in 1..(Len(Content(p)) - sent[p]) :
       /\ InFlight(p) + n <= Room \/ fd[Other(p)] = "closed"
       /\ sent' = [sent EXCEPT ![p] = @ + n]
  /\ Moved(p) /\ GoTo(p, "send")
  /\ UNCHANGED <<args, call, status, received, message, expired, fd, nonblock>>

SendBroken(p) ==
  /\ pc[p] = "poll_out" /\ fd[Other(p)] = "closed"
  /\ Leave(p, "SYSTEM", "restore")
  /\ UNCHANGED <<args, call, sent, received, message, expired, fd, nonblock, late>>

-----------------------------------------------------------------------------
Ready(p) ==
  \/ fd[Other(p)] = "closed"
  \/ pc[p] = "poll_in" /\ InFlight(Other(p)) > 0
  \/ pc[p] = "poll_out" /\ InFlight(p) < Room

Ended(p, result) ==
  IF pc[p] = "poll_in" THEN Received(p, NoMessage(result))
  ELSE Leave(p, result, "restore") /\ UNCHANGED message

(* Seeded fault: poll has no timeout. *)
PollForever(p) == FALSE /\ UNCHANGED vars

PollTimesOut(p) ==
  /\ pc[p] \in {"poll_in", "poll_out"} /\ ~Ready(p) /\ expired[p]
  /\ Ended(p, "TIMEOUT")
  /\ UNCHANGED <<args, call, sent, received, expired, fd, nonblock, late>>

(* EINTR, or EAGAIN after poll. *)
Interrupted(p) ==
  /\ pc[p] \in {"poll_in", "poll_out"}
  /\ GoTo(p, IF pc[p] = "poll_in" THEN "receive" ELSE "send")
  /\ UNCHANGED <<args, call, status, sent, received, message, expired, fd, nonblock, late>>

TransferFails(p) ==
  /\ failing /\ pc[p] \in {"poll_in", "poll_out"}
  /\ Ended(p, "SYSTEM")
  /\ UNCHANGED <<args, call, sent, received, expired, fd, nonblock, late>>

-----------------------------------------------------------------------------
Restore(p) ==
  /\ pc[p] = "restore"
  /\ \/ /\ nonblock' = [nonblock EXCEPT ![p] = original_nonblock]
        /\ GoTo(p, "return") /\ UNCHANGED status
     \/ /\ failing /\ ~original_nonblock
        /\ Leave(p, "SYSTEM", "return") /\ UNCHANGED nonblock
  /\ UNCHANGED <<args, call, sent, received, message, expired, fd, late>>

(* The client's second call has a deadline of its own; then the callers close. *)
Return(p) ==
  /\ pc[p] = "return"
  /\ \/ /\ call[p] = "send_message" /\ status[p] = "OK"
        /\ call' = [call EXCEPT ![p] = "recv_message"]
        /\ Leave(p, "RUNNING", "start")
        /\ expired' = [expired EXCEPT ![p] = FALSE]
        /\ late' = [late EXCEPT ![p] = -1]
        /\ UNCHANGED fd
     \/ /\ call[p] # "send_message" \/ status[p] # "OK"
        /\ fd' = [fd EXCEPT ![p] = "closed"]
        /\ GoTo(p, "done") /\ UNCHANGED <<call, status, expired, late>>
  /\ UNCHANGED <<args, sent, received, message, nonblock>>

Vanish ==
  /\ pc["client"] # "done"
  /\ fd' = [fd EXCEPT !["client"] = "closed"]
  /\ Leave("client", "VANISHED", "done")
  /\ UNCHANGED <<args, call, sent, received, message, expired, nonblock, late>>

Expire(p) ==
  /\ ~expired[p] /\ pc[p] # "done"
  /\ expired' = [expired EXCEPT ![p] = TRUE]
  /\ late' = [late EXCEPT ![p] = IF @ = -1 THEN 0 ELSE @]
  /\ UNCHANGED <<args, call, pc, status, sent, received, message, fd, nonblock>>

Step(p) ==
  \/ Start(p) \/ ParseReceived(p) \/ Receive(p) \/ ReceiveEnd(p)
  \/ SendOrStop(p) \/ Send(p) \/ SendBroken(p) \/ PollTimesOut(p)
  \/ Restore(p) \/ Return(p)

Next ==
  \/ \E p \in End : Step(p) \/ Interrupted(p) \/ StartFails(p) \/ TransferFails(p) \/ Expire(p)
  \/ Vanish

(* Both threads run and time passes; nothing counts on a failure, on an      *)
(* interruption or on a client that vanishes.                                *)
Fairness == \A p \in End : WF_vars(Step(p)) /\ WF_vars(Expire(p))

Spec == Init /\ [][Next]_vars /\ Fairness

-----------------------------------------------------------------------------
Status == {"RUNNING", "OK", "EOF", "TRUNCATED", "MALFORMED", "CAPACITY", "TIMEOUT", "SYSTEM",
           "VANISHED"}

(* No end receives what was not sent, or more than its buffer holds.         *)
TypeOK ==
  /\ capacity \in [End -> Nat \ {0}]
  /\ original_nonblock \in BOOLEAN /\ nonblock \in [End -> BOOLEAN]
  /\ call \in [End -> {"send_message", "recv_message", "serve_one"}]
  /\ pc \in [End -> {"start", "receive", "poll_in", "send", "poll_out", "restore", "return", "done"}]
  /\ status \in [End -> Status]
  /\ expired \in [End -> BOOLEAN] /\ late \in [End -> Nat \cup {-1}]
  /\ fd \in [End -> {"open", "closed"}]
  /\ sent \in [End -> Nat] /\ received \in [End -> Nat]
  /\ \A p \in End : received[p] <= sent[Other(p)] /\ received[p] <= capacity[p]

(* recv_until parses every prefix it happens to receive, yet what it accepts *)
(* is exactly the message the whole stream starts with: a message that fits  *)
(* the buffer is never refused, is reported as soon as its last byte is      *)
(* there, and nothing else is ever accepted, wherever the reads cut it.      *)
FragmentationInvisible ==
  \A p \in End :
    LET ends   == Ends[Content(Other(p))]
        result == message[p].status
    IN  /\ result = "OK" => message[p].message_length \in ends
        /\ result \in {"MALFORMED", "CAPACITY"} => \A n \in ends : n > capacity[p]
        /\ result \in {"EOF", "TRUNCATED", "TIMEOUT", "SYSTEM"} => \A n \in ends : n > received[p]

(* Bytes of a response are sent only for a complete request, and a client    *)
(* that gets OK has the whole response to a request it sent in full.         *)
OnlyRequestsAnswered ==
  /\ sent["server"] > 0 =>
       /\ stream[1] = "request"
       /\ \E n \in Ends[stream] : n <= received["server"]
  /\ status["client"] = "OK" /\ call["client"] = "recv_message" =>
       /\ received["client"] = Len(Response) /\ sent["client"] = Len(stream)
       /\ status["server"] \in {"RUNNING", "OK", "SYSTEM"}

(* TIMEOUT means the call's own deadline; EOF and TRUNCATED that the other   *)
(* end stopped, before and after the first byte; a refusal comes before any  *)
(* byte of a response.  Unless a system call failed, and then the status     *)
(* says so, the descriptor's flags are handed back as they were.             *)
FailuresExplained ==
  \A p \in End :
    /\ status[p] = "TIMEOUT" => expired[p]
    /\ status[p] = "EOF" => received[p] = 0 /\ fd[Other(p)] = "closed"
    /\ status[p] = "TRUNCATED" => received[p] > 0 /\ fd[Other(p)] = "closed"
    /\ status[p] \in {"EOF", "TRUNCATED", "MALFORMED", "CAPACITY"} /\ p = "server" => sent[p] = 0
    /\ pc[p] = "return" /\ status[p] # "SYSTEM" => nonblock[p] = original_nonblock

(* Once its deadline has passed, a call moves bytes at most once more: no    *)
(* trickle of bytes, and no second phase, extends it.                        *)
DeadlineIsFinal == \A p \in End : late[p] <= 1

(* The deadlines bound both ends, whatever the other one does. *)
BothReturn == <>(\A p \in End : pc[p] = "done")
=============================================================================
