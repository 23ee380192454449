----------------------------- MODULE WireFrames ------------------------------
(***************************************************************************)
(* The life of a frame across the lessons: lab 03 and the builders of      *)
(* lessons 02 to 06 and 09 make it, routers forward it with lesson 03's    *)
(* decrement_ttl, one word of it may be damaged on the way, a host answers *)
(* an echo request, and at every point lesson 12 diagnoses the bytes that  *)
(* the parsers of lessons 02 to 06 and lesson 09 read too.                 *)
(***************************************************************************)
EXTENDS FrameDiagnosis

CONSTANTS
  Messages,      \* what senders send, a set of records (see Body)
  Here, There,   \* the IPv4 addresses of the two hosts
  Mac,           \* a hardware address
  MaxHops,       \* bound on the routers on the way
  Deltas         \* by how much a damaged or rewritten word may be off

(* The response of a DNS server: one question and two answers, in which the  *)
(* name that the labels spell is an alias of itself and has the address.     *)
ResponseHeader == <<0, 7, 129, 128, 0, 1, 0, 2, 0, 0, 0, 0>>

Answered == <<0, 1, 0, 1,
              192, 12, 0, 5, 0, 1, 0, 0, 0, 9, 0, 2, 192, 12,
              192, 12, 0, 1, 0, 1, 0, 0, 0, 9, 0, 4>>

Response(labels, address) ==
  ResponseHeader \o EncodeName(labels).bytes \o Answered \o address

(* A message fits into one packet whatever its headers are.  One with an     *)
(* address is a whole response that a server gives for the labels.           *)
Sendable(m) ==
  /\ m \in [kind : {"ARP", "ICMP", "UDP", "BARE_UDP", "TCP", "RAW"}, payload : Seq(Byte),
            source_port : Nat, destination_port : Nat, options : Seq(Byte), ip_options : Seq(Byte),
            flags_fragment : Nat, ttl : Byte, ether_type : Nat, padding : Nat,
            labels : Seq(Seq(Byte)), address : Seq(Byte)]
  /\ m.source_port <= 65535 /\ m.destination_port <= 65535
  /\ m.flags_fragment < 32768 /\ m.ether_type <= 65535
  /\ Len(m.options) <= 40 /\ Len(m.options) % 4 = 0
  /\ Len(m.ip_options) <= 40 /\ Len(m.ip_options) % 4 = 0
  /\ 40 + Len(m.ip_options) + Len(m.options) + Len(m.payload) <= 65535
  /\ m.address # <<>> =>
       /\ m.kind = "UDP" /\ m.ether_type = 2048 /\ m.flags_fragment % 16384 = 0
       /\ EncodeName(m.labels).status = "OK" /\ Len(m.address) = 4
       /\ m.payload = Response(m.labels, m.address)

ASSUME WireAssumption ==
  /\ \A m \in Messages : Sendable(m)
  /\ Here \in Seq(Byte) /\ Len(Here) = 4
  /\ There \in Seq(Byte) /\ Len(There) = 4
  /\ Mac \in Seq(Byte) /\ Len(Mac) = 6
  /\ Deltas \subseteq Nat /\ MaxHops \in Nat

VARIABLES
  message,       \* what was sent
  frame,         \* its bytes where they are now
  hops,          \* routers passed
  change         \* the word that is not as it was built, if any

vars == <<message, frame, hops, change>>

Unchanged == [by |-> "NOBODY", at |-> 0, old |-> 0, new |-> 0]

-----------------------------------------------------------------------------
(* Senders.  A message names its kind, its payload and the header fields     *)
(* that matter; "RAW" stands for a protocol the lessons do not parse and     *)
(* "BARE_UDP" for a sender that leaves out the UDP checksum.                 *)
Protocol(kind) == CASE kind = "ICMP" -> 1
                    [] kind = "TCP"  -> 6
                    [] kind \in {"UDP", "BARE_UDP"} -> 17
                    [] OTHER -> 99

Segment(m) ==
  BuildSegment([source_ipv4 |-> Here, destination_ipv4 |-> There, source_port |-> m.source_port,
                destination_port |-> m.destination_port, sequence_number |-> <<255, 255, 255, 250>>,
                acknowledgment_number |-> <<0, 0, 3, 232>>, flags |-> 24, window |-> 4096,
                urgent_pointer |-> 0, options |-> m.options], m.payload)

Datagram(m) == BuildDatagram(Here, There, m.source_port, m.destination_port, m.payload)

Body(m) == CASE m.kind = "ICMP"     -> BuildEcho(8, 7, 1, m.payload).bytes
             [] m.kind = "UDP"      -> Datagram(m).bytes
             [] m.kind = "BARE_UDP" -> Put(Datagram(m).bytes, 6, 0)
             [] m.kind = "TCP"      -> Segment(m).bytes
             [] OTHER               -> m.payload

(* Lab 03 builds the header alone, then writes the length of the packet and  *)
(* the checksum again.                                                       *)
Packet(m, source, destination, body) ==
  LET header == BuildHeader([dscp_ecn |-> 0, identification |-> 1, flags_fragment |-> m.flags_fragment,
                             ttl |-> m.ttl, protocol |-> Protocol(m.kind), source |-> source,
                             destination |-> destination, options |-> m.ip_options]).bytes
  IN  WithChecksum(Put(header, 2, Len(header) + Len(body))) \o body

Fits(m, body) == 20 + Len(m.ip_options) + Len(body) <= 65535

Link(ether_type) == Mac \o Mac \o Bytes(ether_type)

(* A short frame is padded on the link. *)
Padding(m) == [i \in 1..m.padding |-> 170]

Frame(m) ==
  IF m.kind = "ARP" THEN BuildArpRequest(Mac, Here, There) \o Padding(m)
  ELSE Link(m.ether_type) \o Packet(m, Here, There, Body(m)) \o Padding(m)

Init == /\ message \in Messages
        /\ frame = Frame(message)
        /\ hops = 0
        /\ change = Unchanged

-----------------------------------------------------------------------------
HasPacket(f) == Len(f) >= 34 /\ Word(f, 12) = 2048

Ip(f)  == From(f, 14)
Eth(f) == Slice(f, 0, 14)

(* A router. *)
Forward ==
  LET out == DecrementTtl(Ip(frame))
  IN  /\ hops < MaxHops
      /\ HasPacket(frame)
      /\ out.status = "OK"
      /\ frame' = Eth(frame) \o out.bytes
      /\ hops' = hops + 1
      /\ UNCHANGED <<message, change>>

(* What an answer to an echo request carries, of the message it answers.     *)
Echoed(m) == [m EXCEPT !.kind = "ICMP", !.address = <<>>]

(* The other host answers an echo request that it accepts with an ICMP       *)
(* packet, if that has room for the echoed bytes.                            *)
Reply ==
  LET ip    == ParseIpv4(Ip(frame))
      reply == MakeEchoReply(ip.payload)
      m     == Echoed(message)
  IN  /\ HasPacket(frame)
      /\ ip.status = "OK"
      /\ ip.protocol = 1 /\ ip.flags_fragment % 16384 = 0
      /\ reply.status = "OK"
      /\ Fits(m, reply.bytes)
      /\ message' = m
      /\ frame' = Eth(frame) \o Packet(m, There, Here, reply.bytes)
      /\ hops' = 0
      /\ change' = Unchanged

(* The words of the packet, or of an ARP message; not padding. *)
Places ==
  LET length == IF HasPacket(frame) THEN Word(frame, 16) ELSE 28
  IN  {at \in {14 + 2 * k : k \in 0..(length \div 2) - 1} : at + 2 <= Len(frame)}

NewWords(old) == ({0, 65535} \cup {(old + d) % 65536 : d \in Deltas}) \ {old}

(* The link damages one word. *)
Corrupt ==
  /\ change = Unchanged
  /\ \E at \in Places : \E new \in NewWords(Word(frame, at)) :
       /\ frame' = Put(frame, at, new)
       /\ change' = [by |-> "LINK", at |-> at, old |-> Word(frame, at), new |-> new]
  /\ UNCHANGED <<message, hops>>

(* Another sender wrote one word differently, under a valid header checksum. *)
Rewrite ==
  /\ change = Unchanged /\ hops = 0
  /\ \E at \in Places : \E new \in NewWords(Word(frame, at)) :
       LET f == Put(frame, at, new)
       IN  /\ frame' = IF HasPacket(f) /\ HeaderLength(Ip(f)) <= Len(Ip(f))
                         THEN Eth(f) \o WithChecksum(Ip(f)) ELSE f
           /\ change' = [by |-> "SENDER", at |-> at, old |-> Word(frame, at), new |-> new]
  /\ UNCHANGED <<message, hops>>

Next == Forward \/ Reply \/ Corrupt \/ Rewrite

Spec == Init /\ [][Next]_vars

-----------------------------------------------------------------------------
(* What a receiver made of the lessons' parsers takes, in the order in which *)
(* lab 03 calls them.                                                        *)
Summed(ip, protocol) == TransportChecksum(ip.source, ip.destination, protocol, ip.payload) = 0

Delivered(payload) == [status |-> "OK", payload |-> payload]

ReadTransport(ip) ==
  LET d == ParseDatagram(ip.payload)
      s == ParseSegment(ip.payload)
      m == ParseMessage(ip.payload)
  IN  IF ip.flags_fragment % 16384 # 0 THEN Delivered(ip.payload)
      ELSE CASE ip.protocol = 1 ->
                  IF m.status = "OK" /\ Len(m.body) >= 4 THEN Delivered(From(m.body, 4)) ELSE Refused("REFUSED")
             [] ip.protocol = 6 ->
                  IF s.status = "OK" /\ Summed(ip, 6) THEN Delivered(s.payload) ELSE Refused("REFUSED")
             [] ip.protocol = 17 ->
                  IF d.status = "OK" /\ (d.checksum = 0 \/ Summed(ip, 17)) THEN Delivered(d.payload)
                  ELSE Refused("REFUSED")
             [] OTHER -> Delivered(ip.payload)

Read(f) ==
  LET eth == ParseEthernet(f)
      ip  == ParseIpv4(eth.payload)
      arp == ParseArp(eth.payload)
  IN  IF eth.status # "OK" THEN Refused("REFUSED")
      ELSE CASE eth.ether_type = 2048 -> IF ip.status = "OK" THEN ReadTransport(ip) ELSE Refused("REFUSED")
             [] eth.ether_type = 2054 -> IF arp.status = "OK" THEN Delivered(Slice(f, 14, 28)) ELSE Refused("REFUSED")
             [] OTHER -> Delivered(<<>>)

LastLayer(r) == r.layers[Len(r.layers)]

Mismatched(r) == "CHECKSUM_MISMATCH" \in r.diagnostics

(* The DNS message that both sides find in a frame. *)
HasDns(r) == LastLayer(r) = "DNS" /\ ~Mismatched(r)
DnsIn(f)  == Read(f).payload

-----------------------------------------------------------------------------
(* Diagnosis and parsers agree: a frame is diagnosed without a checksum      *)
(* mismatch, and as sound down to its transport layer, exactly when the      *)
(* parsers of lessons 02 to 06 accept it, and both find the same payload     *)
(* length.  (A length field instead of an EtherType is refused by lesson 02  *)
(* and reported as unsupported by lesson 12.)                                *)
LessonsAgree ==
  LET r    == Diagnose(frame)
      read == Read(frame)
  IN  Word(frame, 12) >= 1536 =>
        /\ (read.status = "OK") <=>
             (~Mismatched(r) /\ (r.status = "OK" \/ LastLayer(r) \in {"DNS", "HTTP"}))
        /\ read.status = "OK" => r.payload_length = Len(read.payload)

(* The report depends on the first parsed_length bytes alone: padding behind *)
(* them changes nothing; a capture cut before them is reported as truncated, *)
(* with a prefix of the layers, and never as sound.                          *)
IsCutOf(short, full) ==
  /\ short.status = "TRUNCATED"
  /\ Len(short.layers) <= Len(full.layers)
  /\ short.layers = SubSeq(full.layers, 1, Len(short.layers))

ParsedLengthIsDecisive ==
  LET full == Diagnose(frame)
  IN  /\ full.parsed_length <= Len(frame)
      /\ \A n \in 0..Len(frame) - 1 :
           LET short == Diagnose(Slice(frame, 0, n))
           IN  /\ short.parsed_length <= n
               /\ full.status = "OK" =>
                    IF n >= full.parsed_length THEN short = full ELSE IsCutOf(short, full)
               /\ full.status # "OK" => short.status # "OK"

-----------------------------------------------------------------------------
InHeader(at) == at < 14 + HeaderLength(Ip(frame))

(* The word is behind the header, where no sum covers it.                    *)
Uncovered(at) ==
  ~InHeader(at) /\ \/ message.kind \in {"RAW", "BARE_UDP"}
                   \/ message.flags_fragment % 16384 # 0

(* What one's complement sums cannot see: 0 and 65535 are the same number,   *)
(* a UDP checksum of 0 says that there is none, and a damaged header length  *)
(* moves the end of what is summed.                                          *)
Invisible ==
  \/ {change.old, change.new} = {0, 65535}
  \/ Uncovered(change.at)
  \/ message.kind = "UDP" /\ change.new = 0 /\ change.at = 14 + HeaderLength(Ip(frame)) + 6
  \/ change.at = 14 /\ (change.old \div 256) % 16 # (change.new \div 256) % 16

(* What the builders make, and what routers forward of it, verifies; a word  *)
(* damaged on the way is seen at every later point, by lesson 12 and by the  *)
(* parsers, in spite of the header checksums that routers compute anew.      *)
DamageSeen ==
  LET r == Diagnose(frame)
  IN  message.kind # "ARP" /\ message.ether_type = 2048 =>
        /\ change = Unchanged => ~Mismatched(r) /\ Read(frame).status = "OK"
        /\ change.by = "LINK" /\ ~Invisible =>
             /\ Mismatched(r) \/ r.status # "OK"
             /\ Read(frame).status # "OK"

(* A resolver reads the address that the server put into its response after  *)
(* any number of routers (what a damaged response may do is DamageSeen's     *)
(* matter), and on any response, of whatever sender, lesson 09's first_a     *)
(* gives up for a part that is missing only where lesson 12 reports a        *)
(* truncated message, and never in one that lesson 12 finds sound.           *)
AddressIsTheServers ==
  message.address # <<>> /\ change = Unchanged =>
    LET a == FirstA(DnsIn(frame)) IN a.status = "OK" /\ a.address = message.address

WalksAgree ==
  LET r     == Diagnose(frame)
      dns   == DnsIn(frame)
      first == FirstA(dns).status
  IN  HasDns(r) /\ Len(dns) >= 12 =>
        /\ r.status = "OK" /\ (At(dns, 2) \div 2) % 2 = 0 => first \in {"OK", "MALFORMED"}
        /\ first = "TRUNCATED" /\ (At(dns, 2) \div 2) % 2 = 0 => r.status = "TRUNCATED"

AnswersAgree == AddressIsTheServers /\ WalksAgree
=============================================================================
