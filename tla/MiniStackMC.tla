---------------------------- MODULE MiniStackMC -----------------------------
(***************************************************************************)
(* Instances of MiniStack.  The payload is three bytes in two chunks whose *)
(* sequence numbers wrap between them.  With four fault actions and two    *)
(* chunks the queue can be filled to its last slot; with a timeout of half *)
(* the clock's range the deadlines saturate and delays overflow.           *)
(***************************************************************************)
EXTENDS MiniStack

CONSTANTS
  FaultActions,  \* actions a fault script is made of
  Delays,        \* delay_ms of a DELAY action
  InitialRtos,   \* initial_rto_ms
  Attempts,      \* max_attempts
  LongestScript  \* bound: longest fault script

PayloadBytes == <<1, 2, 3>>

Fault1 == {[action |-> a, delay_ms |-> 0] : a \in FaultActions \ {"DELAY"}}
          \cup {[action |-> "DELAY", delay_ms |-> d] : d \in Delays}

Scripts == UNION {[1..n -> Fault1] : n \in 0..LongestScript}

DefaultRoute == [network |-> 0, prefix_length |-> 0, metric |-> 100]
LocalRoute   == [network |-> 2, prefix_length |-> 1, metric |-> 10]
OtherRoute   == [network |-> 0, prefix_length |-> 1, metric |-> 10]
BadRoute     == [network |-> 1, prefix_length |-> 1, metric |-> 10]
LongRoute    == [network |-> 2, prefix_length |-> 3, metric |-> 10]

Plain ==
  [spans_valid |-> TRUE, ports_set |-> TRUE, output_capacity |-> 3,
   routes |-> <<DefaultRoute>>, initial_rto_ms |-> 1, max_attempts |-> 1,
   faults |-> <<>>]

Transfers ==
  {[Plain EXCEPT !.initial_rto_ms = r, !.max_attempts = m, !.faults = f] :
     r \in InitialRtos, m \in Attempts, f \in Scripts}

(* One scenario per check of validate and per outcome of the route lookup. *)
Refusals ==
  {[Plain EXCEPT !.spans_valid = FALSE], [Plain EXCEPT !.ports_set = FALSE],
   [Plain EXCEPT !.max_attempts = 0], [Plain EXCEPT !.initial_rto_ms = 0],
   [Plain EXCEPT !.output_capacity = 2], [Plain EXCEPT !.output_capacity = 4],
   [Plain EXCEPT !.faults = [i \in 1..(MaxFaultActions + 1) |-> NoFault]],
   [Plain EXCEPT !.faults = <<[action |-> "UNKNOWN", delay_ms |-> 0]>>],
   [Plain EXCEPT !.routes = <<>>], [Plain EXCEPT !.routes = <<OtherRoute>>],
   [Plain EXCEPT !.routes = <<DefaultRoute, BadRoute>>],
   [Plain EXCEPT !.routes = <<LongRoute>>],
   [Plain EXCEPT !.routes = <<DefaultRoute, LocalRoute>>]}

AllScenarios == Transfers \cup Refusals
=============================================================================
