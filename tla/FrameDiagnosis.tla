--------------------------- MODULE FrameDiagnosis ----------------------------
(***************************************************************************)
(* Lesson 12's tcpip_l12_diagnose_frame: one pass over the layers of a     *)
(* frame.  The report keeps what the control depends on; the copied header *)
(* fields are left out, and so is the formatter.                           *)
(***************************************************************************)
EXTENDS Packets, DnsRecords

Blank == [status |-> "OK", layers |-> <<>>, diagnostics |-> {}, parsed_length |-> 0,
          payload_length |-> 0, checksums_checked |-> 0, checksums_valid |-> 0]

(* TCPIP_L12_MAX_LAYERS is 4. *)
AddLayer(r, layer) ==
  IF Len(r.layers) < 4 THEN [r EXCEPT !.layers = Append(@, layer)] ELSE r

Stopped(r, status, parsed) ==
  [r EXCEPT !.status = status, !.diagnostics = @ \cup {status}, !.parsed_length = parsed]

Unsupported(r, payload, parsed) ==
  [r EXCEPT !.diagnostics = @ \cup {"UNSUPPORTED"}, !.payload_length = payload,
            !.parsed_length = parsed]

RecordChecksum(r, covered, diagnostic) ==
  IF LateSum(covered) = 65535
    THEN [r EXCEPT !.checksums_checked = @ + 1, !.checksums_valid = @ + 1]
    ELSE [r EXCEPT !.checksums_checked = @ + 1,
                   !.diagnostics = @ \cup {"CHECKSUM_MISMATCH", diagnostic}]

-----------------------------------------------------------------------------
(* Each operator takes its part of the frame, that part's place in it, and   *)
(* the report so far.                                                        *)
Dns(dns, place, report) ==
  LET r    == AddLayer(report, "DNS")
      walk == ParseDns(dns)
  IN  IF walk.status = "TRUNCATED" THEN Stopped(r, "TRUNCATED", place + walk.at)
      ELSE IF walk.status # "OK" THEN Stopped(r, "MALFORMED", place + walk.at)
      ELSE [r EXCEPT !.parsed_length = place + Len(dns)]

Udp(ip, d, place, report) ==
  LET r     == AddLayer(report, "UDP")
      known == [r EXCEPT !.payload_length = Word(d, 4) - 8]
      sum   == WithPseudoHeader(Slice(ip, 12, 4), Slice(ip, 16, 4), 17, d)
      summed == IF Word(d, 6) = 0 THEN known ELSE RecordChecksum(known, sum, "TRANSPORT_CHECKSUM")
  IN  IF Len(d) < 8 THEN Stopped(r, "TRUNCATED", place + Len(d))
      ELSE IF Word(d, 4) < 8 THEN Stopped(r, "MALFORMED", place + 8)
      ELSE IF Word(d, 4) > Len(d) THEN Stopped(r, "TRUNCATED", place + Len(d))
      ELSE IF Word(d, 4) < Len(d) THEN Stopped(r, "MALFORMED", place + Word(d, 4))
      ELSE IF 53 \in {Word(d, 0), Word(d, 2)} THEN Dns(From(d, 8), place + 8, summed)
      ELSE Unsupported(summed, summed.payload_length, place + Len(d))

(* "GET ", "HEAD ", "POST ", "PUT ", "DELETE ", "OPTIONS " and "HTTP/". *)
HttpPrefixes ==
  {<<71, 69, 84, 32>>, <<72, 69, 65, 68, 32>>, <<80, 79, 83, 84, 32>>, <<80, 85, 84, 32>>,
   <<68, 69, 76, 69, 84, 69, 32>>, <<79, 80, 84, 73, 79, 78, 83, 32>>, <<72, 84, 84, 80, 47>>}

Http(payload, place, report) ==
  LET r == AddLayer(report, "HTTP")
      starts(prefix) == Len(prefix) <= Len(payload) /\ Slice(payload, 0, Len(prefix)) = prefix
  IN  IF \A prefix \in HttpPrefixes : ~starts(prefix)
        THEN Stopped(r, "MALFORMED", place)
      ELSE IF \A i \in 4..Len(payload) : SubSeq(payload, i - 3, i) # <<13, 10, 13, 10>>
        THEN Stopped(r, "TRUNCATED", place + Len(payload))
      ELSE [r EXCEPT !.parsed_length = place + Len(payload)]

Tcp(ip, d, place, report) ==
  LET r       == AddLayer(report, "TCP")
      payload == From(d, DataOffset(d))
      sum     == WithPseudoHeader(Slice(ip, 12, 4), Slice(ip, 16, 4), 6, d)
      summed  == [RecordChecksum(r, sum, "TRANSPORT_CHECKSUM")
                    EXCEPT !.payload_length = Len(payload)]
  IN  IF Len(d) < 20 THEN Stopped(r, "TRUNCATED", place + Len(d))
      ELSE IF (At(d, 12) \div 2) % 8 # 0 THEN Stopped(r, "MALFORMED", place + 13)
      ELSE IF DataOffset(d) < 20 THEN Stopped(r, "MALFORMED", place + 20)
      ELSE IF DataOffset(d) > Len(d) THEN Stopped(r, "TRUNCATED", place + Len(d))
      ELSE IF payload # <<>> /\ {Word(d, 0), Word(d, 2)} \cap {80, 8080} # {}
        THEN Http(payload, place + DataOffset(d), summed)
      ELSE Unsupported(summed, Len(payload), place + Len(d))

Icmp(d, place, report) ==
  LET r == AddLayer(report, "ICMP")
  IN  IF Len(d) < 8 THEN Stopped(r, "TRUNCATED", place + Len(d))
      ELSE [RecordChecksum(r, d, "TRANSPORT_CHECKSUM")
              EXCEPT !.payload_length = Len(d) - 8, !.parsed_length = place + Len(d)]

(* Seeded fault: padding behind the packet counts as payload. *)
PayloadToFrameEnd(d) == From(d, HeaderLength(d))

Payload(d) == Slice(d, HeaderLength(d), Word(d, 2) - HeaderLength(d))

Ipv4(d, report) ==
  LET r       == AddLayer(report, "IPV4")
      n       == HeaderLength(d)
      summed  == RecordChecksum(r, Slice(d, 0, n), "IPV4_CHECKSUM")
      payload == Payload(d)
  IN  IF Len(d) < 20 THEN Stopped(r, "TRUNCATED", 14 + Len(d))
      ELSE IF At(d, 0) \div 16 # 4 \/ n < 20 THEN Stopped(r, "MALFORMED", 15)
      ELSE IF n > Len(d) THEN Stopped(r, "TRUNCATED", 14 + Len(d))
      ELSE IF Word(d, 2) < n THEN Stopped(r, "MALFORMED", 14 + n)
      ELSE IF Word(d, 2) > Len(d) THEN Stopped(r, "TRUNCATED", 14 + Len(d))
      ELSE IF Word(d, 6) >= 32768 THEN Stopped(summed, "MALFORMED", 22)
      ELSE IF Word(d, 6) % 16384 # 0
        THEN Unsupported(summed, Word(d, 2) - n, 14 + Word(d, 2))
      ELSE CASE At(d, 9) = 1  -> Icmp(payload, 14 + n, summed)
             [] At(d, 9) = 17 -> Udp(d, payload, 14 + n, summed)
             [] At(d, 9) = 6  -> Tcp(d, payload, 14 + n, summed)
             [] OTHER         -> Unsupported(summed, Word(d, 2) - n, 14 + Word(d, 2))

Arp(d, report) ==
  LET r == AddLayer(report, "ARP")
      n == 8 + 2 * (At(d, 4) + At(d, 5))
  IN  IF Len(d) < 8 \/ n > Len(d) THEN Stopped(r, "TRUNCATED", 14 + Len(d))
      ELSE IF ~ArpOfEthernetAndIpv4(d) THEN Stopped(r, "MALFORMED", 14 + n)
      ELSE [r EXCEPT !.payload_length = n, !.parsed_length = 14 + n]

Diagnose(frame) ==
  LET r == AddLayer(Blank, "ETHERNET")
  IN  IF Len(frame) < 14 THEN Stopped(r, "TRUNCATED", Len(frame))
      ELSE IF Word(frame, 12) = 2054 THEN Arp(From(frame, 14), r)
      ELSE IF Word(frame, 12) = 2048 THEN Ipv4(From(frame, 14), r)
      ELSE Unsupported(r, 0, 14)
=============================================================================
