------------------------------ MODULE NatTable ------------------------------
(***************************************************************************)
(* Lesson 11's address translator: a caller-owned array of mappings,       *)
(* outbound translation that reuses or creates one, inbound translation    *)
(* that only looks one up, and expiry.  The caller supplies every time, so *)
(* time may stand still or go backward between calls.                      *)
(***************************************************************************)
EXTENDS Integers, FiniteSets

CONSTANTS
  Ip, ZeroIp, PublicIp,   \* addresses, the all-zero one, the translator's own
  FirstPort, PortMax,     \* first_port and UINT16_MAX
  Capacity,               \* number of storage slots
  Requests, Replies,      \* bound: tuples offered for out- and inbound translation
  Time, Idle,             \* bound: values of now and of idle
  Free                    \* a slot with active = 0

Slot      == 1..Capacity
Port      == 0..PortMax
Supported == {6, 17}
Endpoint  == [ip : Ip, port : Port]
Tuple     == [protocol : Nat, source : Endpoint, destination : Endpoint]
ZeroTuple ==
  LET zero == [ip |-> ZeroIp, port |-> 0]
  IN  [protocol |-> 0, source |-> zero, destination |-> zero]

Mapping == [protocol : Nat, private : Endpoint, remote : Endpoint,
            public_port : Port, last_used : Time]

ASSUME PortsAssumption    == PortMax \in Nat /\ FirstPort \in Port \ {0}
ASSUME CapacityAssumption == Capacity \in Nat \ {0}
ASSUME IpAssumption       == ZeroIp \in Ip /\ PublicIp \in Ip
ASSUME TuplesAssumption   == Requests \subseteq Tuple /\ Replies \subseteq Tuple
ASSUME TimeAssumption     == Time \subseteq Nat /\ Idle \subseteq Nat
ASSUME FreeAssumption     == Free \notin Mapping

VARIABLES
  storage,       \* the slots
  request,       \* history: the latest call and its tuple
  status, out,   \* its status and checked output tuple
  count,         \* its number of expired mappings
  last_sender    \* history: who last sent from a public port to a remote endpoint

vars == <<storage, request, status, out, count, last_sender>>

Active == {s \in Slot : storage[s] # Free}

TupleValid(t) ==
  t.protocol \in Supported /\ t.source.port # 0 /\ t.destination.port # 0

MappingValid(m) ==
  /\ m.protocol \in Supported
  /\ m.private.port # 0 /\ m.remote.port # 0
  /\ m.public_port >= FirstPort

SameOutboundKey(l, r) ==
  <<l.protocol, l.private, l.remote>> = <<r.protocol, r.private, r.remote>>

(* validate_mappings, which every call makes before it looks anything up. *)
TableValid ==
  /\ \A s \in Active : MappingValid(storage[s])
  /\ \A r, s \in Active :
       r # s => /\ storage[r].public_port # storage[s].public_port
                /\ ~SameOutboundKey(storage[r], storage[s])

Init ==
  /\ storage = [s \in Slot |-> Free]
  /\ request = [op |-> "init", tuple |-> ZeroTuple]
  /\ status = "OK"
  /\ out = ZeroTuple
  /\ count = 0
  /\ last_sender = [flow \in {} |-> ZeroTuple]

IsFirst(s, S) == s \in S /\ \A r \in S : s <= r

MatchesOutbound(m, t) ==
  <<m.protocol, m.private, m.remote>> = <<t.protocol, t.source, t.destination>>

(* Seeded fault: the loop starts one slot late. *)
PortInUseShort(p) == \E s \in Active : s > 1 /\ storage[s].public_port = p

PortInUse(p) == \E s \in Active : storage[s].public_port = p

AvailablePorts == {p \in FirstPort..PortMax : ~PortInUse(p)}

(* Seeded fault: the latest call's time is stored even if it is earlier. *)
TouchAlways(m, now) == [m EXCEPT !.last_used = now]

Touch(m, now) == IF now > m.last_used THEN [m EXCEPT !.last_used = now] ELSE m

Fail(result) ==
  /\ status' = result
  /\ out' = ZeroTuple
  /\ UNCHANGED <<storage, last_sender>>

SendFrom(port, t) ==
  LET flow == <<t.protocol, port, t.destination>>
  IN  /\ status' = "OK"
      /\ out' = [t EXCEPT !.source = [ip |-> PublicIp, port |-> port]]
      /\ last_sender' = [f \in DOMAIN last_sender \cup {flow} |->
                           IF f = flow THEN t.source ELSE last_sender[f]]

OutboundMatches(t) == {s \in Active : MatchesOutbound(storage[s], t)}

Reuse(now, t) ==
  \E s \in Slot :
    /\ IsFirst(s, OutboundMatches(t))
    /\ storage' = [storage EXCEPT ![s] = Touch(@, now)]
    /\ SendFrom(storage[s].public_port, t)

NewMapping(now, t, port) ==
  [protocol |-> t.protocol, private |-> t.source, remote |-> t.destination,
   public_port |-> port, last_used |-> now]

Allocate(now, t) ==
  /\ OutboundMatches(t) = {}
  /\ \E s \in Slot, port \in Port :
       /\ IsFirst(s, Slot \ Active)
       /\ IsFirst(port, AvailablePorts)
       /\ storage' = [storage EXCEPT ![s] = NewMapping(now, t, port)]
       /\ SendFrom(port, t)

Exhausted(t) ==
  /\ OutboundMatches(t) = {}
  /\ Active = Slot \/ AvailablePorts = {}

TranslateOutbound(now, t) ==
  /\ request' = [op |-> "outbound", tuple |-> t]
  /\ UNCHANGED count
  /\ \/ (~TupleValid(t) \/ ~TableValid) /\ Fail("MALFORMED")
     \/ TupleValid(t) /\ TableValid /\ Reuse(now, t)
     \/ TupleValid(t) /\ TableValid /\ Allocate(now, t)
     \/ TupleValid(t) /\ TableValid /\ Exhausted(t) /\ Fail("CAPACITY")

(* Seeded fault: the remote endpoint is not compared. *)
MatchesInboundByPort(m, t) ==
  <<m.protocol, m.public_port>> = <<t.protocol, t.destination.port>>

MatchesInbound(m, t) ==
  <<m.protocol, m.public_port, m.remote>>
    = <<t.protocol, t.destination.port, t.source>>

InboundMatches(t) == {s \in Active : MatchesInbound(storage[s], t)}

ReceiveAt(now, t, s) ==
  /\ storage' = [storage EXCEPT ![s] = Touch(@, now)]
  /\ status' = "OK"
  /\ out' = [t EXCEPT !.destination = storage[s].private]
  /\ UNCHANGED last_sender

(* The public address is compared before the table is validated. *)
TranslateInbound(now, t) ==
  LET ours == t.destination.ip = PublicIp
  IN  /\ request' = [op |-> "inbound", tuple |-> t]
      /\ UNCHANGED count
      /\ \/ (~TupleValid(t) \/ (ours /\ ~TableValid)) /\ Fail("MALFORMED")
         \/ TupleValid(t) /\ ~ours /\ Fail("TRUNCATED")
         \/ TupleValid(t) /\ ours /\ TableValid /\ InboundMatches(t) = {}
              /\ Fail("TRUNCATED")
         \/ /\ TupleValid(t) /\ ours /\ TableValid
            /\ \E s \in Slot : IsFirst(s, InboundMatches(t)) /\ ReceiveAt(now, t, s)

(* Seeded fault: unsigned subtraction without the check on now. *)
ExpiresBackward(m, now, idle) == now < m.last_used \/ now - m.last_used >= idle

Expires(m, now, idle) == now >= m.last_used /\ now - m.last_used >= idle

Expire(now, idle) ==
  LET gone == {s \in Active : TableValid /\ Expires(storage[s], now, idle)}
  IN  /\ request' = [op |-> "expire", tuple |-> ZeroTuple]
      /\ status' = IF TableValid THEN "OK" ELSE "MALFORMED"
      /\ storage' = [s \in Slot |-> IF s \in gone THEN Free ELSE storage[s]]
      /\ count' = Cardinality(gone)
      /\ UNCHANGED <<out, last_sender>>

Next ==
  \E now \in Time :
    \/ \E t \in Requests : TranslateOutbound(now, t)
    \/ \E t \in Replies : TranslateInbound(now, t)
    \/ \E idle \in Idle : Expire(now, idle)

Spec == Init /\ [][Next]_vars

-----------------------------------------------------------------------------
Status == {"OK", "MALFORMED", "TRUNCATED", "CAPACITY"}

(* Every slot holds a mapping or is free; ports stay in 16 bits. *)
TypeOK ==
  /\ storage \in [Slot -> Mapping \cup {Free}]
  /\ request \in [op : {"init", "outbound", "inbound", "expire"}, tuple : Tuple]
  /\ status \in Status
  /\ out \in Tuple
  /\ count \in Nat
  /\ \A flow \in DOMAIN last_sender : last_sender[flow] \in Endpoint

(* The calls never build a table that validate_mappings refuses: public      *)
(* ports and outbound keys stay unique, so MALFORMED only ever answers a bad *)
(* tuple.                                                                    *)
OnlyBadTuplesMalformed ==
  /\ TableValid
  /\ status = "MALFORMED" => ~TupleValid(request.tuple)

(* A translated reply goes to whoever last sent from that public port to     *)
(* that remote endpoint with that protocol, across expiry and port reuse.    *)
ReplyReachesSender ==
  request.op = "inbound" /\ status = "OK" =>
    LET t == request.tuple
        flow == <<t.protocol, t.destination.port, t.source>>
    IN  /\ flow \in DOMAIN last_sender
        /\ out = [t EXCEPT !.destination = last_sender[flow]]

(* A mapping keeps its conversation and its public port until expire removes *)
(* it, and the time of its last use never goes back, whatever the callers'   *)
(* clock does.                                                               *)
SameBinding(m, n) ==
  /\ SameOutboundKey(m, n)
  /\ m.public_port = n.public_port
  /\ m.last_used <= n.last_used

MappingsAreStable ==
  [][\A s \in Active :
       \/ s \in Active' /\ SameBinding(storage[s], storage'[s])
       \/ s \notin Active' /\ request'.op = "expire"]_vars

PublicTranslator == INSTANCE Translator WITH
  bindings <- {storage[s] : s \in Active},
  Limit <- IF Capacity <= PortMax - FirstPort + 1
             THEN Capacity ELSE PortMax - FirstPort + 1

(* The slot array implements a translator that is a set of bindings: which   *)
(* slot and which port are invisible but for uniqueness, capacity is refused *)
(* only when the slots or the ports have really run out, a failed call       *)
(* changes nothing, inbound calls create nothing, and expire removes exactly *)
(* the bindings idle for long enough.                                        *)
ImplementsTranslator == PublicTranslator!Spec
=============================================================================
