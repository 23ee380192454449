------------------------------ MODULE Packets --------------------------------
(***************************************************************************)
(* The parsers and builders of lessons 02 to 06, on bytes.  NULL pointers, *)
(* output capacities and overlapping buffers are left out.                 *)
(***************************************************************************)
EXTENDS Checksum

Refused(status) == [status |-> status]
Built(bytes)    == [status |-> "OK", bytes |-> bytes]

-----------------------------------------------------------------------------
(* Lesson 02 *)
ParseEthernet(d) ==
  IF Len(d) < 14 THEN Refused("TRUNCATED")
  ELSE IF Word(d, 12) < 1536 THEN Refused("MALFORMED")
  ELSE [status |-> "OK", ether_type |-> Word(d, 12), payload |-> From(d, 14)]

ArpOfEthernetAndIpv4(d) ==
  Word(d, 0) = 1 /\ Word(d, 2) = 2048 /\ At(d, 4) = 6 /\ At(d, 5) = 4 /\ Word(d, 6) \in {1, 2}

ParseArp(d) ==
  IF Len(d) < 28 THEN Refused("TRUNCATED")
  ELSE IF ~ArpOfEthernetAndIpv4(d) THEN Refused("MALFORMED")
  ELSE [status |-> "OK", operation |-> Word(d, 6), sender_ip |-> Slice(d, 14, 4),
        target_ip |-> Slice(d, 24, 4)]

BuildArpRequest(mac, sender_ip, target_ip) ==
  [i \in 1..6 |-> 255] \o mac \o Bytes(2054) \o Bytes(1) \o Bytes(2048) \o <<6, 4>> \o Bytes(1)
    \o mac \o sender_ip \o [i \in 1..6 |-> 0] \o target_ip

-----------------------------------------------------------------------------
(* Lesson 03 *)
HeaderLength(d) == 4 * (At(d, 0) % 16)

ParseIpv4(d) ==
  IF Len(d) < 20 THEN Refused("TRUNCATED")
  ELSE IF At(d, 0) \div 16 # 4 \/ HeaderLength(d) < 20 THEN Refused("MALFORMED")
  ELSE IF Len(d) < HeaderLength(d) THEN Refused("TRUNCATED")
  ELSE IF Word(d, 6) >= 32768 \/ Word(d, 2) < HeaderLength(d) THEN Refused("MALFORMED")
  ELSE IF Len(d) < Word(d, 2) THEN Refused("TRUNCATED")
  ELSE IF InternetChecksum(Slice(d, 0, HeaderLength(d))) # 0 THEN Refused("MALFORMED")
  ELSE [status |-> "OK", flags_fragment |-> Word(d, 6), ttl |-> At(d, 8), protocol |-> At(d, 9),
        source |-> Slice(d, 12, 4), destination |-> Slice(d, 16, 4),
        payload |-> Slice(d, HeaderLength(d), Word(d, 2) - HeaderLength(d))]

(* The header declares itself alone as the packet; its caller adds the payload. *)
BuildHeader(f) ==
  LET n == 20 + Len(f.options)
      h == <<64 + n \div 4, f.dscp_ecn>> \o Bytes(n) \o Bytes(f.identification) \o Bytes(f.flags_fragment)
             \o <<f.ttl, f.protocol, 0, 0>> \o f.source \o f.destination \o f.options
  IN  IF n > 60 \/ n % 4 # 0 \/ f.flags_fragment >= 32768 THEN Refused("MALFORMED")
      ELSE Built(Put(h, 10, InternetChecksum(h)))

WithChecksum(d) ==
  LET cleared == Put(d, 10, 0)
  IN  Put(d, 10, InternetChecksum(Slice(cleared, 0, HeaderLength(d))))

DecrementTtl(d) ==
  IF ParseIpv4(d).status # "OK" THEN Refused(ParseIpv4(d).status)
  ELSE IF At(d, 8) <= 1 THEN Refused("MALFORMED")
  ELSE Built(WithChecksum([d EXCEPT ![9] = @ - 1]))

-----------------------------------------------------------------------------
(* Lesson 04 *)
ParseMessage(d) ==
  IF Len(d) < 4 THEN Refused("TRUNCATED")
  ELSE IF InternetChecksum(d) # 0 THEN Refused("MALFORMED")
  ELSE [status |-> "OK", type |-> At(d, 0), code |-> At(d, 1), body |-> From(d, 4)]

BuildEcho(type, identifier, sequence, payload) ==
  LET m == <<type, 0, 0, 0>> \o Bytes(identifier) \o Bytes(sequence) \o payload
  IN  IF type \notin {0, 8} \/ Len(m) > 65535 THEN Refused("MALFORMED")
      ELSE Built(Put(m, 2, InternetChecksum(m)))

MakeEchoReply(d) ==
  LET m == ParseMessage(d)
  IN  IF m.status # "OK" THEN Refused(m.status)
      ELSE IF m.type # 8 \/ m.code # 0 \/ Len(m.body) < 4 THEN Refused("MALFORMED")
      ELSE BuildEcho(0, Word(d, 4), Word(d, 6), From(d, 8))

-----------------------------------------------------------------------------
(* Lesson 05 *)
ParseDatagram(d) ==
  IF Len(d) < 8 THEN Refused("TRUNCATED")
  ELSE IF Word(d, 4) < 8 THEN Refused("MALFORMED")
  ELSE IF Len(d) < Word(d, 4) THEN Refused("TRUNCATED")
  ELSE IF Len(d) # Word(d, 4) THEN Refused("MALFORMED")
  ELSE [status |-> "OK", checksum |-> Word(d, 6), payload |-> From(d, 8)]

(* Seeded fault: a sum that comes out as 0 is sent as "no checksum". *)
NeverZeroDropped(checksum) == checksum

NeverZero(checksum) == IF checksum = 0 THEN 65535 ELSE checksum

BuildDatagram(source, destination, source_port, destination_port, payload) ==
  LET d == Bytes(source_port) \o Bytes(destination_port) \o Bytes(8 + Len(payload))
             \o <<0, 0>> \o payload
  IN  IF Len(d) > 65535 THEN Refused("MALFORMED")
      ELSE Built(Put(d, 6, NeverZero(TransportChecksum(source, destination, 17, d))))

-----------------------------------------------------------------------------
(* Lesson 06 *)
DataOffset(d) == 4 * (At(d, 12) \div 16)

ParseSegment(d) ==
  IF Len(d) < 20 THEN Refused("TRUNCATED")
  ELSE IF DataOffset(d) < 20 \/ (At(d, 12) \div 2) % 8 # 0 THEN Refused("MALFORMED")
  ELSE IF Len(d) < DataOffset(d) THEN Refused("TRUNCATED")
  ELSE [status |-> "OK", flags |-> 256 * (At(d, 12) % 2) + At(d, 13),
        payload |-> From(d, DataOffset(d))]

BuildSegment(f, payload) ==
  LET n == 20 + Len(f.options)
      s == Bytes(f.source_port) \o Bytes(f.destination_port) \o f.sequence_number
             \o f.acknowledgment_number \o <<16 * (n \div 4) + f.flags \div 256, f.flags % 256>>
             \o Bytes(f.window) \o <<0, 0>> \o Bytes(f.urgent_pointer) \o f.options \o payload
  IN  IF n > 60 \/ n % 4 # 0 \/ f.flags > 511 \/ Len(s) > 65535 THEN Refused("MALFORMED")
      ELSE Built(Put(s, 16, TransportChecksum(f.source_ipv4, f.destination_ipv4, 6, s)))
=============================================================================
