------------------------------ MODULE Routing -------------------------------
(***************************************************************************)
(* Lesson 11's route table (tcpip_l11_longest_prefix) as operators on      *)
(* tables: a table is a sequence of routes, an address a number of         *)
(* AddressBits bits (32 in the code, kept there as four bytes).            *)
(***************************************************************************)
EXTENDS Integers, Sequences

CONSTANT AddressBits

ASSUME AddressBitsAssumption == AddressBits \in Nat

Address == 0..(2^AddressBits - 1)

Route == [network : Address, prefix_length : Nat, metric : Nat]

HostCount(route) == 2^(AddressBits - route.prefix_length)

(* route_is_canonical: no host bit of the network is set. *)
Canonical(route) ==
  /\ route.prefix_length <= AddressBits
  /\ route.network % HostCount(route) = 0

(* prefix_matches: network and destination agree on the prefix bits. *)
Matches(route, destination) ==
  route.network \div HostCount(route) = destination \div HostCount(route)

(* The loop keeps its best route unless the candidate has a longer prefix,   *)
(* or the same prefix length and a lower metric.                             *)
Better(candidate, best) ==
  \/ candidate.prefix_length > best.prefix_length
  \/ /\ candidate.prefix_length = best.prefix_length
     /\ candidate.metric < best.metric

(* The contract of lesson.h: of the first n routes, i is the match with the  *)
(* longest prefix; among those, the lowest metric; among those, the earliest.*)
IsBest(routes, n, destination, i) ==
  /\ i \in 1..n
  /\ Matches(routes[i], destination)
  /\ \A j \in 1..n :
       Matches(routes[j], destination) =>
         \/ routes[j].prefix_length < routes[i].prefix_length
         \/ /\ routes[j].prefix_length = routes[i].prefix_length
            /\ \/ routes[j].metric > routes[i].metric
               \/ routes[j].metric = routes[i].metric /\ i <= j

AllCanonical(routes) == \A i \in 1..Len(routes) : Canonical(routes[i])

(* The whole lookup: its status, and the selected index if it is OK. *)
LookupMalformed(routes) == ~AllCanonical(routes)

LookupNoRoute(routes, destination) ==
  /\ AllCanonical(routes)
  /\ \A i \in 1..Len(routes) : ~Matches(routes[i], destination)

LookupSelects(routes, destination, i) ==
  /\ AllCanonical(routes)
  /\ IsBest(routes, Len(routes), destination, i)
=============================================================================
