---------------------------- MODULE RouteLookup -----------------------------
(***************************************************************************)
(* Lesson 11's tcpip_l11_longest_prefix, one route per step: a first loop  *)
(* refuses the table if any route is not canonical, a second one keeps the *)
(* best match so far.  best and index are 0 where the code has SIZE_MAX.   *)
(***************************************************************************)
EXTENDS Routing

CONSTANT Tables   \* bound: the route tables to look up in

ASSUME TablesAssumption == Tables \subseteq Seq(Route)

VARIABLES
  routes, destination,   \* the arguments
  phase,                 \* "check", "select" or "done"
  route_index, best,     \* the loops' variables
  index, returned        \* *index and the returned status

lookup_vars == <<routes, destination, phase, route_index, best, index, returned>>

LookupInit ==
  /\ routes \in Tables
  /\ destination \in Address
  /\ phase = "check"
  /\ route_index = 1
  /\ best = 0
  /\ index = 0
  /\ returned = "RUNNING"

Return(s) == phase' = "done" /\ returned' = s

CheckRoute ==
  /\ phase = "check" /\ route_index <= Len(routes)
  /\ \/ /\ Canonical(routes[route_index])
        /\ route_index' = route_index + 1
        /\ UNCHANGED <<phase, returned>>
     \/ /\ ~Canonical(routes[route_index])
        /\ Return("MALFORMED")
        /\ UNCHANGED route_index
  /\ UNCHANGED <<routes, destination, best, index>>

StartSelection ==
  /\ phase = "check" /\ route_index > Len(routes)
  /\ phase' = "select"
  /\ route_index' = 1
  /\ UNCHANGED <<routes, destination, best, index, returned>>

(* Seeded fault: a default route never wins. *)
PrefersSpecific(i) ==
  /\ Matches(routes[i], destination) /\ routes[i].prefix_length > 0
  /\ best # 0 => Better(routes[i], routes[best])

Prefers(i) ==
  /\ Matches(routes[i], destination)
  /\ best # 0 => Better(routes[i], routes[best])

SelectRoute ==
  /\ phase = "select" /\ route_index <= Len(routes)
  /\ best' = IF Prefers(route_index) THEN route_index ELSE best
  /\ route_index' = route_index + 1
  /\ UNCHANGED <<routes, destination, phase, index, returned>>

Finish ==
  /\ phase = "select" /\ route_index > Len(routes)
  /\ \/ best = 0 /\ Return("TRUNCATED") /\ UNCHANGED index
     \/ best # 0 /\ Return("OK") /\ index' = best
  /\ UNCHANGED <<routes, destination, route_index, best>>

LookupNext == CheckRoute \/ StartSelection \/ SelectRoute \/ Finish

LookupSpec == LookupInit /\ [][LookupNext]_lookup_vars

-----------------------------------------------------------------------------
(* The loop variables stay inside the table. *)
LookupTypeOK ==
  /\ routes \in Seq(Route)
  /\ destination \in Address
  /\ phase \in {"check", "select", "done"}
  /\ route_index \in 1..(Len(routes) + 1)
  /\ best \in 0..Len(routes)
  /\ index \in 0..Len(routes)
  /\ returned \in {"RUNNING", "OK", "TRUNCATED", "MALFORMED"}

Seen == 1..(route_index - 1)

(* What each loop has established about the routes it has passed. *)
LoopInvariant ==
  /\ phase = "check" => best = 0 /\ \A j \in Seen : Canonical(routes[j])
  /\ phase = "select" =>
       /\ AllCanonical(routes)
       /\ best = 0  => \A j \in Seen : ~Matches(routes[j], destination)
       /\ best # 0 => IsBest(routes, route_index - 1, destination, best)
  /\ phase # "done" => index = 0 /\ returned = "RUNNING"

(* The result is the one lesson.h promises: MALFORMED exactly when some      *)
(* route is not canonical, TRUNCATED when none matches, otherwise the        *)
(* longest match of lowest metric and position; and no index on failure.     *)
ResultIsContract ==
  phase = "done" =>
    /\ returned = "MALFORMED" <=> LookupMalformed(routes)
    /\ returned = "TRUNCATED" <=> LookupNoRoute(routes, destination)
    /\ returned = "OK" <=> \E i \in 1..Len(routes) : LookupSelects(routes, destination, i)
    /\ returned = "OK" => LookupSelects(routes, destination, index)
    /\ returned # "OK" => index = 0
=============================================================================
