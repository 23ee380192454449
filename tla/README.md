# TLA+ models of the TCP/IP course

The repository is a course in twelve lessons and four Linux labs. Each lesson
and each lab has one C program, `solution.c`, with its contract in `lesson.h`
or `lab.h`, an `exercise.c` for the learner, tests and a README. This directory
holds TLA+ modules translated from the `solution.c` files, the TLC
configurations that check them, and proofs that TLAPS checks.

The rest of this file is: the inventory of the system, the modules and how they
correspond to the code, the runs and what they show, what is proved, what the
models leave out, what the checks found, and the plan.

## 1. Inventory

Most of the course is a set of pure functions on one packet. What keeps state,
or works step by step against somebody else, is small in lines and is where
tests reach least; it is modelled first.

### Components with state or with a peer

| Component | State | Operations | What is hard | What makes it correct |
|---|---|---|---|---|
| Lesson 07 reassembly window | caller's `data`, `present`; `read_offset`, capacity, initial sequence number | init, push, read | segments in any order, overlapping, repeated, conflicting, with sequence numbers that wrap inside the window; short reads | a received byte keeps its value and position; the reader gets the received prefix and nothing else; a failed call commits nothing; accepted counts add up |
| Lesson 07 connection states | one state | `transition` | sequences of legal events that lead nowhere | each accepted event leaves an exit; two endpoints that talk end together |
| Lesson 08 stream sockets | a listener, a connection, one offset per transfer, one absolute deadline per call | `send_frame`, `recv_frame`, `serve_one` | partial transfers, a peer that stops anywhere, a connection withdrawn between `poll` and `accept`, one deadline over several waits | the echo is the request; each failure has its cause; the listener is handed back as it was; both ends return |
| Lesson 09 DNS | locals of one decoding loop | encode, decode, build query, first A record | compression pointers: cycles, chains, the end of the name in place against the end of what is followed; two length limits | exactly the legal names are accepted, with the text they spell and the end from which the record walk goes on |
| Lesson 10 HTTP | locals of a receive and a send loop, one deadline, the descriptor's flags | `parse_message`, `send_message`, `recv_message`, `serve_one` | reparsing a growing prefix, a terminator split between reads, limits on headers, bytes and body, a deadline that spans receiving and answering | what is accepted is the message the stream starts with, however it is cut; only a request is answered; each failure has its cause; a deadline is final |
| Lesson 11 route lookup | none (two scan loops) | `longest_prefix` | a two-key preference over a table in any order | the contract's route, for every table |
| Lesson 11 NAPT table | slots of mappings with a time of last use | init, outbound, inbound, expire | long sequences of calls; slots and ports run out separately; ports are reused after expiry; callers' clocks go backward | ports and conversations unique; a reply goes to whoever sent; mappings stay until they expire |
| Lesson 12 diagnostics | a report built layer by layer | `diagnose_frame`, `format_report` | repeats the checks of the other lessons in code of its own, above all the DNS name loop | finds sound what the lessons accept; depends on the bytes it counts as parsed and on no others |
| Lab 01 epoll echo | a fixed buffer with offset and length, totals, interest set; the descriptor's flags | `echo` in level- or edge-triggered mode | readiness notifications, partial calls, compaction, half-close, EINTR, a deadline | bytes echoed in order; no wakeup is lost; the status is true; flags restored; the call returns |
| Lab 03 mini stack | virtual clock, event queue, fault script, acknowledgements, a lesson 07 window, a socket pair | `run` | loss, delay, reordering, retransmission with duplicates, exponential backoff with saturating time, bounded queue | all or nothing; termination; acknowledged means received; only enough faults exhaust the attempts |

### Pure components, and what happens to their bytes

Lessons 01 (words, addresses, checksum), 02 (Ethernet, ARP), 03 (IPv4), 04
(ICMP), 05 (UDP), 06 (TCP segments, serial numbers), lab 02 (`TCP_INFO`
mapping) and lab 04 (lookups in a generated table) are functions of one packet.
Each is small and tested; what a test hardly reaches is that they fit each
other. A frame is built by one lesson, changed by another (`decrement_ttl`,
`make_echo_reply`), damaged on the way, and read by two programs that share no
code, lesson 12 and the parsers. `WireFrames` is about that life of a frame.

### Without behaviour of their own

Learner starters, test harness, generated tables and the scripts that build the
documentation site. They are listed in `PROJECT.json` with the reason.

### How components interact

- Lab 03 calls lesson 11's lookup, walks lesson 07's transition table through a
  client's handshake, builds and parses frames with lessons 02, 03 and 06,
  pushes what arrives into lesson 07's window, and describes the last frame with
  lesson 12.
- Lesson 12 repeats lesson 09's name loop and record walk and the parsers of
  lessons 02 to 06 in code of its own; lessons 03 to 06 carry copies of lesson
  01's checksum.
- Lessons 08 and 10 and lab 01 meet a kernel and a peer through descriptors:
  bounded byte streams, `poll` or `epoll`, a monotonic clock. Each call is one
  thread; the concurrency is between the call, the kernel and the peer.
- Lesson 11's translator and lesson 07's window live in storage of the caller
  and are changed by one call at a time.

No component persists anything, so there is no crash recovery; a peer that
crashes is a peer that closes.

## 2. Modules

| Module | Models | Kind |
|---|---|---|
| `Reassembly` | lesson 07 window | component |
| `ReceivedStream` | what the window promises its reader | abstract specification |
| `ReassemblyProofs` | theorems on `Reassembly` and on `SerialNumbers` | proofs |
| `TcpTransitions` | lesson 07 transition table | operators |
| `Routing` | addresses, masks, canonical routes, and the contract of `lesson.h` | operators |
| `RouteLookup` | lesson 11 scan loops | component |
| `NatTable` | lesson 11 translator | component |
| `Translator` | what a translator promises | abstract specification |
| `Lesson11Proofs` | theorems on `RouteLookup` and `NatTable`, and that the latter implements `Translator` | proofs |
| `MiniStack` | lab 03, composing `Routing`, `TcpTransitions` and `Reassembly` | component |
| `Transfer` | what one call of lab 03 promises | abstract specification |
| `MiniStackProofs` | theorems on `MiniStack`, and that it implements `Transfer`'s safety | proofs |
| `EpollEcho` | lab 01 with its kernel and peer | component |
| `EpollEchoProofs` | theorems on `EpollEcho` | proofs |
| `StreamSockets` | lesson 08: server and client over two streams | component |
| `StreamSocketsProofs` | theorems on `StreamSockets` | proofs |
| `HttpMessage` | lesson 10 `parse_message`, and what a message is | operators |
| `HttpExchange` | lesson 10: `serve_one` against `send_message` and `recv_message` | component |
| `HttpExchangeProofs` | theorems on `HttpMessage` and `HttpExchange` | proofs |
| `DnsMessage` | the meaning of the bytes of a name | operators |
| `NameDecoder` | lesson 09 `decode_name` | component |
| `NameWalk` | lesson 12 `walk_dns_name` | component |
| `DnsNames` | both on the same message, and what a name spells | composition |
| `DnsNamesProofs` | theorems on `NameDecoder`, `NameWalk` and `DnsNames` | proofs |
| `Checksum` | lesson 01 words and checksum, the pseudo header, lesson 12's sum | operators |
| `Packets` | parsers and builders of lessons 02 to 06 | operators |
| `DnsRecords` | lesson 09 `build_query` and `first_a`, lesson 12 `parse_dns` | operators |
| `FrameDiagnosis` | lesson 12 `diagnose_frame` | operators |
| `WireFrames` | a frame from its builder over routers to its readers | composition |
| `WireFramesProofs` | theorems on sums, on parsers against the diagnosis, and on `WireFrames` | proofs |
| `SerialNumbers` | lesson 06 sequence number comparison | operators |
| `...MC` | the instances TLC checks | instances |

Names of variables and of statuses are the code's. `PROJECT.json` maps each
definition to its lines. An operator marked *seeded fault* is not part of a
model: it is the form a plausible bug would give the definition after it, and
shows that the properties notice.

### `Reassembly`
`Push` and `Read` are whole calls. A push is one of four cases, in the code's
order: empty, outside the window, in conflict with a byte present, stored. The
offset is the distance from the initial sequence number modulo `SeqMod`. `Read`
finds the run of received bytes at `read_offset` and hands it out only if it fits
the caller's buffer. The histories `output` and `pushed` record what the callers
were given. `ImplementsReceivedStream` maps the arrays to a growing partial
function from positions to bytes.

### `RouteLookup` and `Routing`
One turn of a loop is one step: the first loop refuses a table with a route that
is not canonical, the second keeps the best route so far. Addresses have
`AddressBits` bits. `Routing` states the contract by quantifiers, without a scan.

### `NatTable`
A call is one step that starts, as in the code, by validating the whole table.
Slots hold a mapping or `Free`. Outbound translation reuses the mapping of the
conversation or takes the first free slot and the lowest free port; inbound
translation finds the mapping by protocol, port and remote endpoint; expiry
frees what was idle long enough. `last_sender` is a history: who last sent from
a public port to a remote endpoint. Statuses, output tuples and counts are what
callers see, and `Translator` specifies exactly those.

### `MiniStack`
`pc` is the place in `tcpip_linux_l03_run`; one step is one check, one chunk
sent, one frame delivered or one end of an attempt. Each chunk sent takes the
next action of the fault script, in every attempt. The queue is the set of frames
in flight; `order` is the insertion order that breaks ties. Delivery is
`Reassembly!Push` on the instance of the window with the payload's length as
capacity; the whole window is read once, at the end. Time saturates at `TimeMax`.

### `EpollEcho`
One system call is one step, with the bookkeeping that follows it up to the next
call. `pc` is `wait` (`epoll_wait`), `write` (`send`), `read` (`recv`), `check`
(the end of a pass over the event), `update` (`EPOLL_CTL_MOD`). A budget of 1 in
level mode and no budget in edge mode bound the pass. The kernel has a bounded
buffer in each direction, a readiness mask computed from the socket's state, and
for edge mode a flag `armed`, set by each event and by each modification of the
interest that is ready, and cleared when `epoll_wait` reports it. The k-th byte
of the peer's stream is the number k. `flags_failed` is a history: the `fcntl` that
puts the caller's flags back has failed. No other failure excuses changed flags.

### `StreamSockets`
Server and client run the same transfer loops in `[End -> ...]` functions. A step
is one `poll` with the `send` or `recv` it permits; `accept` is a step of its own
after its `poll`, because a connection may be withdrawn in between. The client
sends a frame and receives one; it may vanish at any time. Each end has its own
deadline, which may pass at any time. `flags_failed` is the same history as in
`EpollEcho`, of the listener's flags.

### `NameDecoder`, `NameWalk`, `DnsNames`
One turn of the decoding loop is one step. `Quarter` is 64 in the code: bytes
below it are label lengths, those from three times it on begin a pointer, those
between are reserved. `DnsNames` lets lesson 09 decode and then lesson 12 walk
the same offset of the same message, and compares both with the reference:
`Spelling` is the sequence of places that reading the name passes through, one
label or pointer at a time, with the text and the lengths met so far, and has no
limit, visited set or early return. A name is `Legal` when after `Len(message)`
turns it stands at its root within the limits; `EndInPlace` is the byte behind
its first pointer, or its root.

### `HttpMessage` and `HttpExchange`
CR and LF are bytes. The text of a line is one symbol that says how the code
judges it (a request line, a header, a content length, a folded line and so on)
and counts as one byte, so that reads can cut between text, CR and LF anywhere.
`Parse` follows `tcpip_l10_parse_message`: search of the blank line within the
header limit, then start line, headers one by one, then the body. `HeaderEnds` is
the set of blank lines within the limit, of which the code finds the first;
`Turns` are the turns of the header loop, and the first line that is refused
gives the status. The reference is `MessageEnds`: it says with quantifiers, and
without a search or an order, that a stream starts with a start line, some headers
that agree on the body's length, a blank line within the limit and the body.

Client and server run the same loops in `[End -> ...]` functions. A step is one
turn of a loop up to its `poll`, or one `poll` with the `recv` or `send` it
permits, of any number of bytes that fit; `poll_in` and `poll_out` are places of
their own because the deadline may pass between the check and the call. The
streams are kept as two counters per direction: what an end has received is a
prefix of what the other sends. `late` is a history: how many transfers a call
made after its deadline.

What the property does *not* say is also worth knowing: which of MALFORMED and
CAPACITY refuses a stream may depend on how it is cut, and a `recv` may take
bytes past the end of the message out of the stream.

### `Checksum`, `Packets`, `DnsRecords`, `FrameDiagnosis`, `WireFrames`
These work on bytes, with the code's offsets and widths. `Packets` has one
operator per parser and builder; an operator gives the status and the fields
that others depend on. `FrameDiagnosis` gives lesson 12's report: status, layers,
diagnostics, lengths and checksum counts. `DnsRecords` walks records, passing
names with `WalkName` for lesson 12 and with `DecodeName` for lesson 09, whose
decoder also limits the text: a name over that limit that is then cut is MALFORMED
for lesson 09 and TRUNCATED for lesson 12. Where both accept a name they go on at
the same byte. Its loops are recursive functions, one call per turn: `NameTurn` and
`TextTurn` of the place in a name (offset, length and visited targets), `Passes` of
the number of records left. What a name spells is the matter of `DnsNames`.

A behaviour of `WireFrames` starts with a frame that the builders made, in lab
03's way (header alone, then length and checksum again). `Forward` is a router
with lesson 03's `decrement_ttl`, `Reply` a host with lesson 04's echo reply,
`Corrupt` one damaged word, `Rewrite` another sender that wrote one word
differently under a valid header checksum. The last two are the environment. A
message is `Sendable`: ports and types have the width of their fields, options
are whole words of at most 40 bytes, and the packet, options included, is no
longer than a length field can say. A message with an address is a DNS server's
whole response (`Response`): the header, the question as `encode_name` writes
it, a CNAME record and an A record whose names are pointers to the question, and
the address. A response that its server cut short has none. An echo reply repeats the bytes of the
request in an ICMP packet, if that has room for them (`Echoed`, `Fits`). At
every state, `Read` (lab 03's sequence of parsers, extended to every protocol)
and `Diagnose` judge the same bytes.

Three differences between the two are intended by neither and harmful to none,
and the properties leave them out: lesson 02 refuses a length field in place of
an EtherType, where lesson 12 reports an unsupported one; lesson 12 asks for 8
bytes of an ICMP message, lesson 04's parser for 4; and when several things are
wrong, each gives the reason that its own order finds first.

### `SerialNumbers`
Unsigned 32-bit arithmetic as it is, without an instance to run: the theorems,
in `ReassemblyProofs`, are about all numbers.

## 3. Runs

| Run | Question | Bounds, and why they are enough |
|---|---|---|
| `reassembly` | Does every sequence of pushes and reads keep received bytes, hand out only those, and implement the abstract stream? | Window of 4, sequence space of 6 that wraps inside it, segments of up to 3 of two byte values, reads of up to 3. Every overlap, gap, conflict and short read has an instance. |
| `route_lookup` | Is the result the contract's for every table and destination? | Addresses of 2 bits, two metrics, all tables of up to two routes (canonical or not) and all canonical tables of three. The theorem covers the rest. |
| `nat_ports` | Is the table always valid, are replies delivered to senders, are mappings stable, and is it a `Translator`? | Two hosts, two services, two protocols; 2 ports and 3 slots, so that the ports run out first (that the slots may run out first is covered by the theorem). Two times and two idle periods make clocks go backward and mappings expire at once. |
| `ministack` | Is each transfer all or nothing, does it return, and why may it fail? | Two chunks whose sequence numbers wrap between them, all fault scripts of up to four actions (DELIVER, DROP, REORDER, three delays), 1 to 3 attempts, a timeout small against the clock and one of half its range, and one scenario per check of `validate`. Four faults and two chunks fill the queue to its last slot. |
| `epoll_echo` | Are bytes echoed in order, is no wakeup lost, is the status true, is the caller's descriptor restored after whatever fails, does the call return if the peer reads? | Buffer of 3, request of 0 or 4 bytes, streams of 5, kernel rooms of 3 and 2: requests larger than the buffer, smaller than the stream, sends that are partial, compaction at the buffer's end. One interrupted call; any other call may fail. |
| `epoll_echo_deadline` | finding 1 | Buffer of 2, request of 3, no failures. |
| `stream_sockets` | Does an OK mean that the client has its own payload back, does each failure have its cause, is the listener restored after whatever fails, do both ends return? | Header of 2 bytes, kernel room of 2 in each direction, so that no frame fits it; payloads of 0, 2 and 3 against capacities of 2 (server) and 1 or 2 (client). |
| `stream_sockets_eof` | finding 2 | As `stream_sockets`. |
| `dns_names` | Are exactly the legal names accepted, with their text and their end, by both programs? | All messages of up to 4 bytes over five byte values and of 5 over four, every offset, two buffer sizes, names of at most 5 wire bytes and 2 hops. Reaches cut labels and pointers, forward and backward pointers, cycles, chains at the hop limit, names at both length limits. |
| `dns_names_pointers` | finding 3 | As `dns_names`. |
| `http_exchange` | Is what is accepted the message the stream starts with, wherever reads cut it, is only a request answered, does each failure have its cause, is a deadline final, do both ends return? | Every split of 26 streams: each kind of header line, pairs of lengths that agree and disagree, each line end once broken, too many headers, a header beyond the byte limit, bodies missing, cut and followed by more bytes, a response and noise where a request belongs. Limits of 3 headers, 17 header bytes, 2 body bytes; kernel room of 2, so a blank line never arrives at once. Buffers that are too small, descriptors that did not block before, and failures of system calls meet one request that gets through all phases. |
| `wire_frames` | Do lesson 12 and the parsers agree, does a report depend on what it counts as parsed alone, is damage seen, do both DNS walks agree and give the server's address? | 15 messages: each protocol, with and without options and padding, a fragment, a UDP checksum that comes out as 0, no UDP checksum, a DNS query, a response with an alias before the address, whole and cut by its server, HTTP whole and cut, an unknown EtherType and a length in its place. Up to two routers. Each word damaged or rewritten to 0, to 65535 or by one of eight differences that hit single bits, nibbles, bytes and carries. `ParsedLengthIsDecisive` cuts every frame at every length. |

`CHECK_DEADLOCK` is off where the program ends: everywhere but in `reassembly` and
`nat_ports`, whose callers may always call again.

### Fairness
- `MiniStack`: weak fairness of the call's own steps. It is one thread that never
  blocks. A failing `send` or `recv` is outside the fair steps, so nothing ends
  because of a failure that need not happen.
- `EpollEcho`: weak fairness of the call and of the passing of the deadline.
  `ReadingPeerSpec` adds that the peer goes on reading. The code does not
  guarantee that, and finding 1 shows that it is needed: without it the call may
  run for ever.
- `StreamSockets`: weak fairness of each end's steps and of the passing of each
  deadline, none of the peer's arrival, of its vanishing or of a failure.
- `HttpExchange`: weak fairness of each end's steps (its thread runs) and of the
  passing of each deadline (time passes), none of a failure, of an interruption
  or of the client's vanishing. Each end returns whatever the other does.
- `WireFrames`: none; its checks are invariants.
- `DnsNames`: weak fairness of the loops; its checks are invariants.
- `Reassembly` and `NatTable` are called by others: no fairness.

## 4. Proofs

TLAPS proves these for all values of the constants under the named assumptions
of the modules: sizes, rooms and times are natural numbers, the window's capacity
is smaller than the sequence space, a byte is below four quarters, streams and
payloads are sequences of bytes, and a scenario of lab 03 has the types of its C
fields (delays and timeouts fit the clock). TLC evaluates each of them on the runs.

| Theorem | Statement | Argument |
|---|---|---|
| `ReassemblyProofs!TypeCorrect` | `TypeOK` always | inductive as it stands: a segment is stored only if it fits the window |
| `BytesAreNotRewritten` | no segment alters or withdraws a received byte | a store writes new positions only, because a conflict was excluded before |
| `FailuresCommitNothing` | a failed call changes neither window nor output | case by case |
| `ReaderGetsReceivedBytes` | the reader has only received bytes, as the window holds them | inductive invariant `ReaderInv`: with the output's agreement, all before `read_offset` is present; otherwise a later segment could rewrite what was read |
| `AcceptedCountsAddUp` | accepted counts add up to the number of positions received | cardinality of a disjoint union |
| `WindowImplementsStream` | `Reassembly` implements `ReceivedStream` | with `ReaderInv`, a store maps to `Learn`, a read to `Deliver`, failures to stuttering |
| `Lesson11Proofs!LookupTypeCorrect` | indices stay inside the table | inductive as it stands |
| `LookupMeetsContract` | the loops return the contract's route, for every table, destination and width | loop invariant: the table checked so far is canonical; the best so far is the contract's answer for the prefix scanned |
| `NatTypeCorrect` | `TypeOK` always | each call keeps every slot a mapping or free |
| `TableStaysValid` | no call leaves a table that validation refuses | a new port is free, a new conversation has no mapping |
| `MappingsStayStable` | a mapping keeps slot, conversation and port until it expires, and its last use does not go back | each call touches one slot, fills a free one or frees idle ones; touching takes the later of two times |
| `RepliesReachSenders` | a translated reply goes to whoever last sent from that port to that remote | needs `SenderKnown`: the history names, for each active mapping, its private endpoint; and validity, because another mapping on the same port would overwrite it |
| `NatTableImplementsTranslator` | `NatTable` implements `Translator`, for every number of slots and ports | the set of bindings has as many members as there are active slots and used ports, because the table is valid; so there is a free slot and a free port exactly when the abstract translator is below the smaller of the two numbers. First slots and lowest ports are one of the abstract choices |
| `HttpExchangeProofs!HttpTypeCorrect` | no end receives what was not sent or more than its buffer holds | inductive as it stands |
| `FailuresAreExplained` | each status has its cause, a refused request is never answered, flags are handed back | needs `NothingSentYet` (a server that has not accepted a request has sent nothing), `FlagsBeforeStart` and `OneCallServes`; the parser enters only by the statuses it can give |
| `DeadlineStaysFinal` | after its deadline a call moves bytes at most once more | needs `PollsInTime`: a poll that is entered late was decided before the deadline |
| `FragmentationStaysInvisible` | what is accepted is the message the stream starts with, as soon as its last byte has arrived, for all streams, limits and splits | two lemmas on the parser: on each prefix of a stream that starts with a message it answers TRUNCATED before that message's end and OK from there (`MessageAccepted`), and what it accepts on a prefix is a message of the stream (`OnlyMessagesAccepted`). Lines have three symbols, so that no blank line hides inside them (`NoEarlyEnd`). The invariant adds that an end polls only while the bytes so far are TRUNCATED (`PollsForMore`) and receives no more once it has decided (`NoMessageYet`) |
| `OnlyRequestsAreAnswered` | a response goes out only for a complete request; OK at the client means the whole response to a request sent in full | `AnswersRequests`, `CallsApart`; the response has one message end, its length (`ResponseEnd`), and who has received it all has met a server that neither refused nor timed out (`ServerLate`) |
| `ReassemblyProofs!BeforeIsStreamOrder` | `seq_before` is the order of a stream's bytes while they are less than half the space apart | the distance modulo 2^32 is the difference, or 2^32 more |
| `OppositesAreIncomparable` | it holds in neither direction exactly for equal and opposite numbers | the two distances add up to 0 or 2^32 |
| `BeforeHasCycles` | over the whole space it is not transitive | three numbers a third of the space apart |
| `DnsNamesProofs!DecoderTypeCorrect` | cursor and text stay inside message and buffer, hops and lengths inside the limits | a target is checked against the message before it is followed, a label against the rest before it is stored |
| `ReturnedNamesFit` | a name is returned only with OK; it fits the caller's buffer and ends behind its start, inside the message | needs `EndBehindStart`: until the first pointer the cursor only moves forward, and that pointer fixes the end |
| `DecodingIsExact` | the decoder accepts exactly the names the bytes spell within the limits, with their text and their end | the loop's state is a place of the reading (`Place`), its visited set the places before (`Seen`), its saved end the first pointer's (`EndKept`). A reading that comes back to a place never reaches a root, and one that reaches it does so within `Len(message)` turns, because the places differ; so what the visited set and the hop and length limits refuse is not legal, and the rest is |
| `WalksAgree` | lesson 12's walk accepts the same names and ends at the same byte | the same invariant for the walk (`WalkInv`): both are compared with the reading and not with each other |
| `EpollEchoProofs!EpollTypes`, `EchoComesBackInOrder` | offsets stay inside the buffer; what was echoed is the prefix of what was read | the buffer's bytes from the offset on are exactly the numbers behind the echoed ones, through partial sends and compaction |
| `StatusTellsTheTruth` | OK, TIMEOUT and failures are returned only for what they say | needs `EofIsEnd`: a `recv` that returns 0 met the end of the stream, because the call never asks for 0 bytes (`ReadsHaveRoom`) |
| `NoWakeupIsLost` | the call never waits for an event already reported and not to be reported again | `WaitIsArmed`: in `epoll_wait`, room is watched for whenever output is pending, and a watched condition that holds has armed the event |
| `CallerGetsItsStateBack` | at the end of every call, of a failed one too, the epoll instance is closed and the flags are restored; only if the restoring call itself failed they are not, and the status is SYSTEM | `NothingReadYet` and the type invariant; `flags_failed` says that the restoring call failed |
| `StreamSocketsProofs!TransfersStayInBounds`, `EchoIsTheRequest`, `FailuresHaveTheirCause`, `ListenerIsHandedBack` | transfers stay inside their frames; OK at the client means its payload is back; each failure has its cause; after whatever failed no connection is held and the listener is restored, unless the restoring call failed and the status is SYSTEM | one inductive invariant (`ExchangeInv`): both frames are the same bytes; what an end has taken out of its channel (`Taken`) and what the channel holds are a prefix of them, which ends where the other end has got to (`Sent`); both follow from where each end stands (`Position`) |
| `MiniStackProofs!AcknowledgedChunksAreReceived` | a chunk is acknowledged exactly when all its bytes are in the window | `Received`: every byte present is the payload's; a chunk is pushed to the offset it came from wherever sequence numbers wrap (`ChunkIsPlaced`), whole or not at all (`OwnPush`) |
| `OwnFramesAreAccepted` | no frame of this sender is rejected | what arrives agrees with the bytes present, so the window has no conflict |
| `QueueHasRoom` | the queue never fills before the end of the clock | `Flight`: frames in flight are at most one per fault action used and one per chunk of this attempt; the bound is counted with cardinalities |
| `FramesAreDueFromNowOn`, `ClockNeverGoesBack` | nothing in flight is due in the past; time does not turn back | `Clock`: deliveries follow due times, and an attempt ends only with nothing due before its deadline |
| `OnlyFaultsExhaustAttempts` | running out of attempts takes a fault action for each | `Progress`: each attempt without success has used one up, because frames that no fault touched are due before the deadline |
| `CallReturnsCleanly` | a call that has ended left no descriptor open and decided a status | `Lifecycle` |
| `TransferIsAllOrNothing` | `MiniStack` implements the safety part of `Transfer` | with `Received`, the one read at the end hands out the payload (`OwnRead`); every other step maps to a stutter or to the decision |
| `WireFramesProofs!SumsAgree` | lesson 12's sum, which folds its carries at the end, is the sum of the lessons that fold at every word, for every message of up to 131070 bytes | both are the sum of the words (`Total`) modulo 65535 in the same range; the length keeps lesson 12's 32-bit accumulator from overflowing |
| `WireInvariant` | a frame that no one changed carries its message; a packet with a damaged word is taken by no parser, unless no sum can see the damage | below |
| `LessonsAlwaysAgree` | lesson 12 accepts a frame exactly when the parsers do, with the same payload length | of every frame of bytes with an EtherType, whatever happened to it (`FrameAgrees`): the parser of each layer and the layer of the diagnosis are each reduced to the conditions on the bytes, and those are the same; sums by `SumsAgree`. The invariant gives only that a frame is bytes and long enough |
| `DamageAlwaysSeen` | an unchanged packet verifies for both programs at every router and at its end; a damaged word is found by both at every later point | `WireInvariant` for the parsers, `FrameAgrees` for lesson 12 |
| `ParsedLengthAlwaysDecisive` | a report passes no frame's end; on a sound frame it is that of the first `parsed_length` bytes, a shorter capture is truncated with a prefix of the layers, and no cut makes a frame sound | below |
| `AnswersAlwaysAgree` | lesson 09 reads the server's address, whatever the name, the address and the routers; lesson 09 misses a part of a DNS message only where lesson 12 does | below |

The invariant of `WireFrames` (`WireInv`) has three parts: the message is one
that can be sent and the frame still has its EtherType; an unchanged frame
carries the message (`Carries`: the fields a reader uses, the payload and valid
sums at their places, `Sound`); a damaged one is not taken (`NotTaken`).
`DamageSeen` alone is not inductive, because it says of a frame that it verifies
and not what is in it: a router or a reply keeps a frame intact only because its
bytes are the message's. The steps rest on three facts. What each builder makes
is `Sound`. Lesson 03's `decrement_ttl` changes two words of the header under a
new header checksum and leaves the rest, so it neither harms a sound packet nor
hides damage: a packet with a damaged header is not forwarded, because its sum is
checked first, and a damaged body is summed as before. And a damaged word changes
the sum of the words by less than 65536 and not by 0, so it is the same number
modulo 65535 only if 0 became 65535 or the reverse (`SameSum`); words that also
decide what is summed (header length, total length, protocol, fragment field,
the lengths and the checksum of a UDP datagram) are cases of their own. A
`Rewrite` is not subject to `DamageSeen`.

`ParsedLengthAlwaysDecisive` is about every sequence of bytes; the behaviour gives
only that a frame is one. Each layer of the diagnosis gets two facts: where its
report ends if it is sound, and that on the first n bytes it is the same report
when n reaches that end and a truncated one below (sections "How far a report
looks" and "The report on the first n bytes"). DNS is the hard layer, because its
end is where loops end. A name's walk ends at all because each turn either moves
on in the message or visits a target for the first time; with that measure the
recursive function exists (`Recursion`, on any set with a measure in Nat), and
two walks, on a message and on its prefix, agree until one asks for a byte that
the other does not have. Loops over records count down.

`AnswersAlwaysAgree` has two parts. Lesson 09's loop stops at the first A record
and lesson 12's goes on, so they are compared by the number of records left: as
long as none was found both stand at the same place, and the search fails only as
the full walk does, or by the limit of the text, and then the full walk fails too
(`NearlySame`): a name whose text is one byte too long has no byte left for its root
within lesson 12's limit either (`WalksAlike`). And the response is read from its bytes: what `encode_name`
writes is walked label by label to its end, a pointer to it ends behind itself,
so the places of both records follow from the name's length; that the payload
arrives unchanged behind any number of routers is `Sound`, from `WireInvariant`.

Where a proof needs induction over a message's bytes, a name's turns or a loop's
count, it takes the least counterexample: a nonempty set of natural numbers has a
least member (`LeastNatural`, from the well-foundedness of `<`). The library's
induction theorems take an operator as a parameter, which the installed provers
cannot instantiate. For the same reason recursion in these modules is by
functions only, and the existence of each is proved before it is used
(`Recursion` in `DnsNamesProofs` and in `WireFramesProofs`).

Of the type invariants, those of `EpollEcho` and `StreamSockets` are also part of
the runs; the others are only proved.

Only model-checked:
- all liveness (`Terminates`, `ReadingPeerGetsReturn`, `BothReturn`), and with it
  the fairness half of the refinement `ImplementsTransfer`: it rests on ENABLED.

Every invariant that a passing run checks is a theorem.

`SerialNumbers` is only proved.

## 5. What the models leave out

- Checks of NULL pointers, negative descriptors and overlapping buffers: they
  return before any state is touched.
- `timespec` arithmetic, call counters of lab 01's statistics, diagnostic texts.
- `EINTR` and `EAGAIN` of lesson 08: the loops go back to waiting without a
  change of state. Lab 01's `EINTR` is modelled, because it gives back a budget.
- Lesson 10's `EINTR` and `EAGAIN` are modelled (`Interrupted`), because they lead
  past the deadline's check again. The inside of a header line (token, blank and
  digit rules) is what its symbol stands for.
- In `Packets` and `DnsRecords`: header fields that are only copied, capacities and
  overlap of the caller's buffers, the dots in the text that `encode_name` reads.
- What one's complement sums cannot see is excluded from `DamageSeen` by name
  (`Invisible`): 0 and 65535 are the same number, a UDP checksum of 0 says that
  there is none, a damaged header length moves the end of the sum (a damaged
  version is seen), and the payload
  of other protocols and of fragments is not summed.
- A connection reset is one of the failures of a transfer in `StreamSockets` and
  in `HttpExchange`.
- In `MiniStack` a frame is its chunk's index. The frame is built by the code
  that parses it and is not changed under way, so building, checksums and parsing
  cannot fail. Slots of the event array are a set: `order` tells frames apart.
- The receiver's `data` is an uninitialized array on the stack: its content is a
  choice from `StackBytes`.

## 6. Findings

1. **Lab 01**, `epoll_echo_deadline`. `TIMEOUT` is returned only when
   `epoll_wait` reports nothing. After the peer has shut down its side, its
   EPOLLIN and EPOLLRDHUP are reported at each turn, so with output pending and a
   peer that does not read the call runs past its deadline for ever.
2. **Lesson 08**, `stream_sockets_eof`. A peer that closes right after a header is
   reported as `EOF`, though the README keeps EOF for a close before any byte.
3. **Lesson 12**, `dns_names_pointers`. The README says that the diagnostic parser
   does not follow compression pointers; the code follows them, and refuses a name
   for what stands at the target.

One observation without a run: in lab 03 the attempt's deadline saturates at the
largest 64-bit value and is exclusive, so once virtual time is there (which takes
an `initial_rto_ms` of that size and a dropped frame) a frame under DELIVER is
never delivered. `QueueNeverFills` and `ExhaustionNeedsFaults` hold before that
point, and say so (`now < TimeMax`).

## 7. Not modelled, and the plan

Not modelled: lesson 01's dotted addresses and lab 02's and lab 04's functions
(no state, no second program to agree with), the formatter of lesson 12 (layout),
and the parts without behaviour of section 1. The connection states of lesson 07
are a table that nothing in the repository drives but the mini stack's handshake:
no code maps received segments to events.

What would add most next, in this order:

1. `Connection` (lesson 07): two endpoints on the transition table, with an
   external rule that turns events into segments, over a lossy channel:
   simultaneous open and close, states without an exit.
2. Lab 02 (`map_state`, `check_invariants`) and lab 04 (`validate_path`) as
   operators; lesson 01's addresses.

The list of properties stays short: a new component brings the few that are hard
to test, in place of the shallowest ones of an older component, and related
questions about one instance share a run.
