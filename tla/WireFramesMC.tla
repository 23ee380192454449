---------------------------- MODULE WireFramesMC -----------------------------
(***************************************************************************)
(* One message of each kind: with and without options, padding, fragments  *)
(* and a TTL that ends on the way; a datagram whose checksum comes out as  *)
(* 0; a DNS query and a response with an alias before the address, whole   *)
(* and cut by its server.                                                  *)
(***************************************************************************)
EXTENDS WireFrames

Host1 == <<10, 0, 0, 1>>
Host2 == <<10, 0, 0, 2>>
Card  == <<2, 0, 0, 0, 0, 1>>

Plain(kind, payload) ==
  [kind |-> kind, payload |-> payload, source_port |-> 4000, destination_port |-> 9, options |-> <<>>,
   ip_options |-> <<>>, flags_fragment |-> 16384, ttl |-> 3, ether_type |-> 2048, padding |-> 0,
   labels |-> <<>>, address |-> <<>>]

(* The word that brings the sum over a datagram to 65535. *)
Balance ==
  TransportChecksum(Host1, Host2, 17, Bytes(4000) \o Bytes(9) \o Bytes(10) \o <<0, 0, 0, 0>>)

Name == <<<<97>>, <<98>>>>

Query == BuildQuery(7, Name, 1).bytes

Server == <<192, 0, 2, 1>>

Answer == Response(Name, Server)

Get == <<71, 69, 84, 32, 13, 10, 13, 10>>

SomeMessages ==
  {[Plain("ARP", <<>>) EXCEPT !.padding = 18],
   [Plain("ICMP", <<5>>) EXCEPT !.ttl = 2],
   [Plain("UDP", Bytes(Balance)) EXCEPT !.padding = 2],
   Plain("BARE_UDP", <<1>>),
   [Plain("UDP", <<1, 2>>) EXCEPT !.flags_fragment = 8192],
   [Plain("UDP", Query) EXCEPT !.destination_port = 53],
   [Plain("UDP", Answer) EXCEPT !.source_port = 53, !.labels = Name, !.address = Server],
   [Plain("UDP", SubSeq(Answer, 1, 49)) EXCEPT !.source_port = 53],
   [Plain("BARE_UDP", SubSeq(Answer, 1, 20)) EXCEPT !.source_port = 53],
   [Plain("TCP", <<1, 2, 3>>) EXCEPT !.options = <<1, 1, 1, 0>>, !.padding = 3],
   [Plain("TCP", Get) EXCEPT !.destination_port = 80],
   [Plain("TCP", SubSeq(Get, 1, 7)) EXCEPT !.destination_port = 8080, !.ip_options = <<1, 1, 1, 0>>],
   Plain("RAW", <<1, 2>>),
   [Plain("RAW", <<>>) EXCEPT !.ether_type = 34525, !.padding = 10],
   [Plain("RAW", <<>>) EXCEPT !.ether_type = 46, !.padding = 10]}
=============================================================================
