----------------------------- MODULE Translator -----------------------------
(***************************************************************************)
(* What lesson 11's translator promises, without slots or scan orders: a   *)
(* set of bindings of conversations to public ports, both unique, at most  *)
(* Limit of them.  status, out and count are the answer to the latest call.*)
(***************************************************************************)
EXTENDS Integers, FiniteSets

CONSTANTS Mapping, ZeroTuple, PublicIp, FirstPort, PortMax, Limit, Time, Idle

VARIABLES bindings, status, out, count

vars == <<bindings, status, out, count>>

Init == bindings = {} /\ status = "OK" /\ out = ZeroTuple /\ count = 0

Conversation(b) == <<b.protocol, b.private, b.remote>>

Public(b) == [ip |-> PublicIp, port |-> b.public_port]

(* Outbound and inbound views of a binding's packets. *)
Outward(b) ==
  [protocol |-> b.protocol, source |-> Public(b), destination |-> b.remote]

Inward(b) ==
  [protocol |-> b.protocol, source |-> b.remote, destination |-> b.private]

Bind(now) ==
  /\ Cardinality(bindings) < Limit
  /\ \E b \in bindings' :
       /\ b.last_used = now
       /\ b.public_port \in FirstPort..PortMax
       /\ \A c \in bindings :
            Conversation(c) # Conversation(b) /\ c.public_port # b.public_port
       /\ bindings' = bindings \cup {b}
       /\ out' = Outward(b)
  /\ status' = "OK"
  /\ UNCHANGED count

Use(now) ==
  /\ \E b \in bindings :
       LET used == IF now > b.last_used THEN [b EXCEPT !.last_used = now] ELSE b
       IN  /\ bindings' = (bindings \ {b}) \cup {used}
           /\ out' \in {Outward(b), Inward(b)}
  /\ status' = "OK"
  /\ UNCHANGED count

Refuse ==
  /\ status' \in {"MALFORMED", "TRUNCATED", "CAPACITY"}
  /\ status' = "CAPACITY" => Cardinality(bindings) = Limit
  /\ out' = ZeroTuple
  /\ UNCHANGED <<bindings, count>>

Expire(now, idle) ==
  /\ bindings' = {b \in bindings : now - b.last_used < idle}
  /\ count' = Cardinality(bindings) - Cardinality(bindings')
  /\ status' = "OK"
  /\ UNCHANGED out

Next ==
  \/ \E now \in Time : Bind(now) \/ Use(now) \/ (\E idle \in Idle : Expire(now, idle))
  \/ Refuse

Spec == Init /\ [][Next]_vars
=============================================================================
