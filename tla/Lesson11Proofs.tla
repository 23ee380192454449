--------------------------- MODULE Lesson11Proofs ---------------------------
(***************************************************************************)
(* The two parts of lesson 11.  For every number of slots, port range,     *)
(* address set and clock: the translator's table stays valid, its mappings *)
(* are stable, a reply reaches whoever last sent to its source, and the    *)
(* array implements the abstract Translator.  For every route table,       *)
(* destination and address width: the two loops of                         *)
(* tcpip_l11_longest_prefix return what lesson.h's contract says.          *)
(***************************************************************************)
EXTENDS NatTable, RouteLookup, FiniteSetTheorems, TLAPS

USE PortsAssumption, CapacityAssumption, IpAssumption, TuplesAssumption,
    TimeAssumption, FreeAssumption, TablesAssumption

(* Every slot holds a mapping or is free. *)
StorageOK == storage \in [Slot -> Mapping \cup {Free}]

-----------------------------------------------------------------------------
(* The effects of the calls on the slots. *)
Touches(s, now) == s \in Active /\ storage' = [storage EXCEPT ![s] = Touch(@, now)]

Creates(s, now, t, port) ==
  /\ s \in Slot \ Active
  /\ TupleValid(t) /\ TableValid
  /\ OutboundMatches(t) = {}
  /\ port \in AvailablePorts
  /\ storage' = [storage EXCEPT ![s] = NewMapping(now, t, port)]

LEMMA OutboundCases ==
  ASSUME NEW now \in Time, NEW t \in Requests, TranslateOutbound(now, t)
  PROVE  /\ request' = [op |-> "outbound", tuple |-> t]
         /\ \/ /\ status' \in {"MALFORMED", "CAPACITY"}
               /\ status' = "MALFORMED" => ~TupleValid(t) \/ ~TableValid
               /\ out' = ZeroTuple /\ UNCHANGED <<storage, last_sender>>
            \/ \E s \in Slot :
                 /\ Touches(s, now) /\ MatchesOutbound(storage[s], t)
                 /\ SendFrom(storage[s].public_port, t)
            \/ \E s \in Slot, port \in AvailablePorts :
                 Creates(s, now, t, port) /\ SendFrom(port, t)
<1>1. CASE (~TupleValid(t) \/ ~TableValid) /\ Fail("MALFORMED")
  BY <1>1 DEF TranslateOutbound, Fail
<1>2. CASE TupleValid(t) /\ TableValid /\ Reuse(now, t)
  BY <1>2 DEF TranslateOutbound, Reuse, IsFirst, OutboundMatches, Touches
<1>3. CASE TupleValid(t) /\ TableValid /\ Allocate(now, t)
  <2>1. PICK s \in Slot, port \in Port :
          /\ IsFirst(s, Slot \ Active) /\ IsFirst(port, AvailablePorts)
          /\ storage' = [storage EXCEPT ![s] = NewMapping(now, t, port)]
          /\ SendFrom(port, t)
    BY <1>3 DEF Allocate
  <2>2. s \in Slot \ Active /\ port \in AvailablePorts
    BY <2>1 DEF IsFirst
  <2>3. Creates(s, now, t, port)
    BY <1>3, <2>1, <2>2 DEF Creates, Allocate
  <2>. QED
    BY <2>1, <2>2, <2>3 DEF TranslateOutbound
<1>4. CASE TupleValid(t) /\ TableValid /\ Exhausted(t) /\ Fail("CAPACITY")
  BY <1>4 DEF TranslateOutbound, Fail
<1>. QED
  BY <1>1, <1>2, <1>3, <1>4 DEF TranslateOutbound

LEMMA InboundCases ==
  ASSUME NEW now \in Time, NEW t \in Replies, TranslateInbound(now, t)
  PROVE  /\ request' = [op |-> "inbound", tuple |-> t]
         /\ UNCHANGED last_sender
         /\ \/ /\ status' \in {"MALFORMED", "TRUNCATED"}
               /\ status' = "MALFORMED" => ~TupleValid(t) \/ ~TableValid
               /\ out' = ZeroTuple /\ UNCHANGED storage
            \/ \E s \in Slot :
                 /\ Touches(s, now) /\ MatchesInbound(storage[s], t)
                 /\ status' = "OK"
                 /\ out' = [t EXCEPT !.destination = storage[s].private]
<1>. DEFINE ours == t.destination.ip = PublicIp
<1>1. CASE (~TupleValid(t) \/ (ours /\ ~TableValid)) /\ Fail("MALFORMED")
  BY <1>1 DEF TranslateInbound, Fail
<1>2. CASE Fail("TRUNCATED")
  BY <1>2 DEF TranslateInbound, Fail
<1>3. CASE \E s \in Slot : IsFirst(s, InboundMatches(t)) /\ ReceiveAt(now, t, s)
  BY <1>3 DEF TranslateInbound, IsFirst, InboundMatches, Touches, ReceiveAt
<1>. QED
  BY <1>1, <1>2, <1>3 DEF TranslateInbound

-----------------------------------------------------------------------------
(* Using a mapping changes nothing but the time of its last use. *)
LEMMA TouchType ==
  ASSUME NEW m \in Mapping, NEW now \in Time
  PROVE  /\ Touch(m, now) \in Mapping
         /\ SameBinding(m, Touch(m, now))
         /\ Touch(m, now).protocol = m.protocol
         /\ Touch(m, now).private = m.private
         /\ Touch(m, now).remote = m.remote
         /\ Touch(m, now).public_port = m.public_port
<1>1. m.last_used \in Nat /\ now \in Nat
  BY DEF Mapping
<1>. QED
  BY <1>1 DEF Touch, Mapping, SameBinding, SameOutboundKey

LEMMA ActiveType ==
  ASSUME StorageOK, NEW s \in Active
  PROVE  s \in Slot /\ storage[s] \in Mapping
BY DEF StorageOK, Active

LEMMA TouchesType ==
  ASSUME StorageOK, NEW s \in Slot, NEW now \in Time, Touches(s, now)
  PROVE  /\ StorageOK'
         /\ Active' = Active
         /\ storage'[s] = Touch(storage[s], now)
         /\ \A r \in Slot \ {s} : storage'[r] = storage[r]
<1>1. storage[s] \in Mapping
  BY ActiveType DEF Touches
<1>2. Touch(storage[s], now) \in Mapping
  BY <1>1, TouchType
<1>3. storage' = [storage EXCEPT ![s] = Touch(storage[s], now)]
  BY DEF Touches
<1>4. /\ StorageOK'
      /\ storage'[s] = Touch(storage[s], now)
      /\ \A r \in Slot \ {s} : storage'[r] = storage[r]
  BY <1>2, <1>3 DEF StorageOK
<1>5. storage[s] # Free /\ storage'[s] # Free
  BY <1>1, <1>2, <1>4
<1>. QED
  BY <1>4, <1>5 DEF Active

LEMMA TupleType ==
  ASSUME NEW t \in Tuple
  PROVE  t.protocol \in Nat /\ t.source \in Endpoint /\ t.destination \in Endpoint
BY DEF Tuple

LEMMA CreatesType ==
  ASSUME StorageOK, NEW s \in Slot, NEW now \in Time, NEW t \in Tuple,
         NEW port \in AvailablePorts, Creates(s, now, t, port)
  PROVE  /\ StorageOK'
         /\ s \notin Active
         /\ Active' = Active \cup {s}
         /\ storage'[s] = NewMapping(now, t, port)
         /\ NewMapping(now, t, port) \in Mapping
         /\ \A r \in Slot \ {s} : storage'[r] = storage[r]
<1>1. port \in Port
  BY DEF AvailablePorts, Port
<1>2. NewMapping(now, t, port) \in Mapping
  BY <1>1, TupleType DEF NewMapping, Mapping
<1>3. storage' = [storage EXCEPT ![s] = NewMapping(now, t, port)]
  BY DEF Creates
<1>4. /\ StorageOK'
      /\ storage'[s] = NewMapping(now, t, port)
      /\ \A r \in Slot \ {s} : storage'[r] = storage[r]
  BY <1>2, <1>3 DEF StorageOK
<1>5. storage'[s] # Free /\ s \notin Active
  BY <1>2, <1>4 DEF Creates
<1>. QED
  BY <1>2, <1>4, <1>5 DEF Active

LEMMA ExpireType ==
  ASSUME StorageOK, NEW now \in Time, NEW idle \in Idle, Expire(now, idle)
  PROVE  /\ StorageOK'
         /\ Active' \subseteq Active
         /\ \A s \in Active' : storage'[s] = storage[s]
         /\ count' \in Nat
<1>. DEFINE gone == {s \in Active : TableValid /\ Expires(storage[s], now, idle)}
<1>1. storage' = [s \in Slot |-> IF s \in gone THEN Free ELSE storage[s]]
      /\ count' = Cardinality(gone)
  BY DEF Expire
<1>2. IsFiniteSet(Slot)
  BY FS_Interval DEF Slot
<1>3. gone \in SUBSET Slot
  BY DEF Active
<1>4. IsFiniteSet(gone)
  BY <1>2, <1>3, FS_Subset
<1>5. Cardinality(gone) \in Nat
  BY <1>4, FS_CardinalityType
<1>6. StorageOK'
  BY <1>1 DEF StorageOK
<1>7. Active' \subseteq Active /\ \A s \in Active' : storage'[s] = storage[s]
  BY <1>1 DEF Active
<1>. QED
  BY <1>1, <1>5, <1>6, <1>7

-----------------------------------------------------------------------------
LEMMA ZeroTupleType == ZeroTuple \in Tuple
<1>1. 0 \in Port
  BY DEF Port
<1>2. [ip |-> ZeroIp, port |-> 0] \in Endpoint
  BY <1>1 DEF Endpoint
<1>. QED
  BY <1>2 DEF ZeroTuple, Tuple

LEMMA SendType ==
  ASSUME TypeOK, NEW port \in Port, NEW t \in Tuple, SendFrom(port, t)
  PROVE  /\ status' = "OK" /\ out' \in Tuple
         /\ \A flow \in DOMAIN last_sender' : last_sender'[flow] \in Endpoint
<1>1. [ip |-> PublicIp, port |-> port] \in Endpoint
  BY DEF Endpoint
<1>2. out' \in Tuple
  BY <1>1 DEF SendFrom, Tuple
<1>3. t.source \in Endpoint
  BY TupleType
<1>. QED
  BY <1>2, <1>3 DEF SendFrom, TypeOK

LEMMA InitType == Init => TypeOK
BY ZeroTupleType DEF Init, TypeOK, Status

LEMMA TypeStep == TypeOK /\ [Next]_vars => TypeOK'
<1>. SUFFICES ASSUME TypeOK, [Next]_vars
              PROVE  TypeOK'
  OBVIOUS
<1>0. StorageOK
  BY DEF TypeOK, StorageOK
<1>1. ASSUME NEW now \in Time, NEW t \in Requests, TranslateOutbound(now, t)
      PROVE  TypeOK'
  <2>1. t \in Tuple /\ request' = [op |-> "outbound", tuple |-> t] /\ count' = count
    BY <1>1, OutboundCases DEF TranslateOutbound
  <2>2. request' \in [op : {"init", "outbound", "inbound", "expire"}, tuple : Tuple]
    BY <2>1
  <2>3. CASE /\ status' \in {"MALFORMED", "CAPACITY"}
             /\ out' = ZeroTuple /\ UNCHANGED <<storage, last_sender>>
    BY <2>1, <2>2, <2>3, ZeroTupleType DEF TypeOK, Status
  <2>4. CASE \E s \in Slot : /\ Touches(s, now) /\ MatchesOutbound(storage[s], t)
                             /\ SendFrom(storage[s].public_port, t)
    <3>1. PICK s \in Slot : Touches(s, now) /\ SendFrom(storage[s].public_port, t)
      BY <2>4
    <3>2. StorageOK' /\ storage[s] \in Mapping
      BY <1>0, <3>1, TouchesType, ActiveType DEF Touches
    <3>3. storage[s].public_port \in Port
      BY <3>2 DEF Mapping
    <3>. QED
      BY <2>1, <2>2, <3>1, <3>2, <3>3, SendType DEF TypeOK, StorageOK, Status
  <2>5. CASE \E s \in Slot, port \in AvailablePorts :
               Creates(s, now, t, port) /\ SendFrom(port, t)
    <3>1. PICK s \in Slot, port \in AvailablePorts :
            Creates(s, now, t, port) /\ SendFrom(port, t)
      BY <2>5
    <3>2. StorageOK'
      BY <1>0, <2>1, <3>1, CreatesType
    <3>3. port \in Port
      BY DEF AvailablePorts, Port
    <3>. QED
      BY <2>1, <2>2, <3>1, <3>2, <3>3, SendType DEF TypeOK, StorageOK, Status
  <2>. QED
    BY <1>1, <2>3, <2>4, <2>5, OutboundCases
<1>2. ASSUME NEW now \in Time, NEW t \in Replies, TranslateInbound(now, t)
      PROVE  TypeOK'
  <2>1. /\ t \in Tuple /\ request' = [op |-> "inbound", tuple |-> t]
        /\ count' = count /\ last_sender' = last_sender
    BY <1>2, InboundCases DEF TranslateInbound
  <2>2. request' \in [op : {"init", "outbound", "inbound", "expire"}, tuple : Tuple]
    BY <2>1
  <2>3. CASE /\ status' \in {"MALFORMED", "TRUNCATED"}
             /\ out' = ZeroTuple /\ UNCHANGED storage
    BY <2>1, <2>2, <2>3, ZeroTupleType DEF TypeOK, Status
  <2>4. CASE \E s \in Slot : /\ Touches(s, now) /\ MatchesInbound(storage[s], t)
                             /\ status' = "OK"
                             /\ out' = [t EXCEPT !.destination = storage[s].private]
    <3>1. PICK s \in Slot : /\ Touches(s, now) /\ status' = "OK"
                            /\ out' = [t EXCEPT !.destination = storage[s].private]
      BY <2>4
    <3>2. StorageOK' /\ storage[s] \in Mapping
      BY <1>0, <3>1, TouchesType, ActiveType DEF Touches
    <3>3. out' \in Tuple
      BY <2>1, <3>1, <3>2 DEF Mapping, Tuple
    <3>. QED
      BY <2>1, <2>2, <3>1, <3>2, <3>3 DEF TypeOK, StorageOK, Status
  <2>. QED
    BY <1>2, <2>3, <2>4, InboundCases
<1>3. ASSUME NEW now \in Time, NEW idle \in Idle, Expire(now, idle)
      PROVE  TypeOK'
  <2>1. StorageOK' /\ count' \in Nat
    BY <1>0, <1>3, ExpireType
  <2>2. /\ request' = [op |-> "expire", tuple |-> ZeroTuple]
        /\ status' \in {"OK", "MALFORMED"} /\ UNCHANGED <<out, last_sender>>
    BY <1>3 DEF Expire
  <2>. QED
    BY <2>1, <2>2, ZeroTupleType DEF TypeOK, StorageOK, Status
<1>4. CASE UNCHANGED vars
  BY <1>4 DEF TypeOK, vars
<1>. QED
  BY <1>1, <1>2, <1>3, <1>4 DEF Next

(* Every slot holds a mapping or is free; ports stay in 16 bits. *)
THEOREM NatTypeCorrect == Spec => []TypeOK
BY InitType, TypeStep, PTL DEF Spec

LEMMA StorageType == TypeOK => StorageOK
BY DEF TypeOK, StorageOK

-----------------------------------------------------------------------------
(* The table stays one that validate_mappings accepts. *)
LEMMA TouchKeepsValid ==
  ASSUME StorageOK, TableValid, NEW s \in Slot, NEW now \in Time, Touches(s, now)
  PROVE  TableValid'
<1>0. /\ Active' = Active /\ storage[s] \in Mapping
      /\ storage'[s] = Touch(storage[s], now)
      /\ \A r \in Active \ {s} : storage'[r] = storage[r]
  BY TouchesType, ActiveType DEF Touches, Active
<1>1. \A r \in Active' :
        /\ r \in Active
        /\ storage'[r].protocol = storage[r].protocol
        /\ storage'[r].private = storage[r].private
        /\ storage'[r].remote = storage[r].remote
        /\ storage'[r].public_port = storage[r].public_port
  BY <1>0, TouchType
<1>. QED
  BY <1>1 DEF TableValid, MappingValid, SameOutboundKey

LEMMA CreateKeepsValid ==
  ASSUME StorageOK, TableValid, NEW s \in Slot, NEW now \in Time, NEW t \in Tuple,
         NEW port \in AvailablePorts, Creates(s, now, t, port)
  PROVE  TableValid'
<1>. DEFINE new == NewMapping(now, t, port)
<1>1. /\ s \notin Active /\ Active' = Active \cup {s} /\ storage'[s] = new
      /\ \A r \in Active : storage'[r] = storage[r]
  BY CreatesType DEF Active
<1>2. MappingValid(new)
  BY DEF Creates, NewMapping, MappingValid, TupleValid, AvailablePorts, Port
<1>3. \A r \in Active : /\ storage[r].public_port # new.public_port
                        /\ ~SameOutboundKey(storage[r], new)
                        /\ ~SameOutboundKey(new, storage[r])
  BY DEF Creates, NewMapping, SameOutboundKey, AvailablePorts, PortInUse,
         OutboundMatches, MatchesOutbound
<1>4. \A r \in Active' : MappingValid(storage'[r])
  BY <1>1, <1>2 DEF TableValid
<1>5. ASSUME NEW r \in Active', NEW q \in Active', r # q
      PROVE  /\ storage'[r].public_port # storage'[q].public_port
             /\ ~SameOutboundKey(storage'[r], storage'[q])
  <2>1. CASE r = s
    BY <1>1, <1>3, <1>5, <2>1
  <2>2. CASE q = s
    BY <1>1, <1>3, <1>5, <2>2
  <2>3. CASE r # s /\ q # s
    BY <1>1, <1>5, <2>3 DEF TableValid
  <2>. QED
    BY <2>1, <2>2, <2>3
<1>. QED
  BY <1>4, <1>5 DEF TableValid

LEMMA ValidStep == TypeOK /\ TableValid /\ [Next]_vars => TableValid'
<1>. SUFFICES ASSUME TypeOK, TableValid, [Next]_vars
              PROVE  TableValid'
  OBVIOUS
<1>0. StorageOK
  BY StorageType
<1>1. ASSUME NEW now \in Time, NEW t \in Requests, TranslateOutbound(now, t)
      PROVE  TableValid'
  <2>1. CASE UNCHANGED storage
    BY <2>1 DEF TableValid, Active
  <2>2. CASE \E s \in Slot : Touches(s, now)
    BY <1>0, <2>2, TouchKeepsValid
  <2>3. CASE \E s \in Slot, port \in AvailablePorts : Creates(s, now, t, port)
    BY <1>0, <2>3, CreateKeepsValid
  <2>. QED
    BY <1>1, <2>1, <2>2, <2>3, OutboundCases
<1>2. ASSUME NEW now \in Time, NEW t \in Replies, TranslateInbound(now, t)
      PROVE  TableValid'
  <2>1. CASE UNCHANGED storage
    BY <2>1 DEF TableValid, Active
  <2>2. CASE \E s \in Slot : Touches(s, now)
    BY <1>0, <2>2, TouchKeepsValid
  <2>. QED
    BY <1>2, <2>1, <2>2, InboundCases
<1>3. ASSUME NEW now \in Time, NEW idle \in Idle, Expire(now, idle)
      PROVE  TableValid'
  BY <1>0, <1>3, ExpireType DEF TableValid
<1>4. CASE UNCHANGED vars
  BY <1>4 DEF TableValid, Active, vars
<1>. QED
  BY <1>1, <1>2, <1>3, <1>4 DEF Next

LEMMA MalformedStep ==
  TypeOK /\ OnlyBadTuplesMalformed /\ [Next]_vars => OnlyBadTuplesMalformed'
<1>. SUFFICES ASSUME TypeOK, OnlyBadTuplesMalformed, [Next]_vars
              PROVE  OnlyBadTuplesMalformed'
  OBVIOUS
<1>0. TableValid /\ TableValid'
  BY ValidStep DEF OnlyBadTuplesMalformed
<1>1. ASSUME NEW now \in Time, NEW t \in Requests, TranslateOutbound(now, t)
      PROVE  status' = "MALFORMED" => ~TupleValid(request'.tuple)
  BY <1>0, <1>1, OutboundCases DEF SendFrom
<1>2. ASSUME NEW now \in Time, NEW t \in Replies, TranslateInbound(now, t)
      PROVE  status' = "MALFORMED" => ~TupleValid(request'.tuple)
  BY <1>0, <1>2, InboundCases
<1>3. ASSUME NEW now \in Time, NEW idle \in Idle, Expire(now, idle)
      PROVE  status' = "OK"
  BY <1>0, <1>3 DEF Expire
<1>4. CASE UNCHANGED vars
  BY <1>4 DEF OnlyBadTuplesMalformed, vars, TableValid, Active
<1>. QED
  BY <1>0, <1>1, <1>2, <1>3, <1>4 DEF Next, OnlyBadTuplesMalformed

(* Ports and outbound keys of active mappings stay unique and no call on a   *)
(* valid tuple is answered MALFORMED.                                        *)
THEOREM TableStaysValid == Spec => []OnlyBadTuplesMalformed
<1>1. Init => OnlyBadTuplesMalformed
  BY DEF Init, OnlyBadTuplesMalformed, TableValid, Active
<1>. QED
  BY <1>1, NatTypeCorrect, MalformedStep, PTL DEF Spec

-----------------------------------------------------------------------------
StableStep ==
  \A s \in Active :
    \/ s \in Active' /\ SameBinding(storage[s], storage'[s])
    \/ s \notin Active' /\ request'.op = "expire"

LEMMA SameBindingReflexive ==
  ASSUME NEW m \in Mapping
  PROVE  SameBinding(m, m)
<1>1. m.last_used \in Nat
  BY DEF Mapping
<1>. QED
  BY <1>1 DEF SameBinding, SameOutboundKey

LEMMA TouchIsStable ==
  ASSUME StorageOK, NEW s \in Slot, NEW now \in Time, Touches(s, now)
  PROVE  StableStep
<1>1. /\ Active' = Active /\ storage[s] \in Mapping
      /\ storage'[s] = Touch(storage[s], now)
      /\ \A r \in Active \ {s} : storage'[r] = storage[r]
  BY TouchesType, ActiveType DEF Touches, Active
<1>2. SameBinding(storage[s], storage'[s])
  BY <1>1, TouchType
<1>3. \A r \in Active \ {s} : SameBinding(storage[r], storage'[r])
  BY <1>1, ActiveType, SameBindingReflexive
<1>. QED
  BY <1>1, <1>2, <1>3 DEF StableStep

LEMMA KeptIsStable ==
  ASSUME StorageOK, Active \subseteq Active',
         \A r \in Active : storage'[r] = storage[r]
  PROVE  StableStep
BY ActiveType, SameBindingReflexive DEF StableStep

LEMMA StableNext == TypeOK /\ [Next]_vars => [StableStep]_vars
<1>. SUFFICES ASSUME TypeOK, [Next]_vars
              PROVE  StableStep
  OBVIOUS
<1>0. StorageOK
  BY StorageType
<1>1. ASSUME NEW now \in Time, NEW t \in Requests, TranslateOutbound(now, t)
      PROVE  StableStep
  <2>1. CASE UNCHANGED storage
    BY <1>0, <2>1, KeptIsStable DEF Active
  <2>2. CASE \E s \in Slot : Touches(s, now)
    BY <1>0, <2>2, TouchIsStable
  <2>3. CASE \E s \in Slot, port \in AvailablePorts : Creates(s, now, t, port)
    <3>1. PICK s \in Slot, port \in AvailablePorts : Creates(s, now, t, port)
      BY <2>3
    <3>2. /\ s \notin Active /\ Active' = Active \cup {s}
          /\ \A r \in Slot \ {s} : storage'[r] = storage[r]
      BY <1>0, <3>1, CreatesType
    <3>3. \A r \in Active : storage'[r] = storage[r]
      BY <3>2 DEF Active
    <3>. QED
      BY <1>0, <3>2, <3>3, KeptIsStable
  <2>. QED
    BY <1>1, <2>1, <2>2, <2>3, OutboundCases
<1>2. ASSUME NEW now \in Time, NEW t \in Replies, TranslateInbound(now, t)
      PROVE  StableStep
  <2>1. CASE UNCHANGED storage
    BY <1>0, <2>1, KeptIsStable DEF Active
  <2>2. CASE \E s \in Slot : Touches(s, now)
    BY <1>0, <2>2, TouchIsStable
  <2>. QED
    BY <1>2, <2>1, <2>2, InboundCases
<1>3. ASSUME NEW now \in Time, NEW idle \in Idle, Expire(now, idle)
      PROVE  StableStep
  <2>1. request'.op = "expire"
    BY <1>3 DEF Expire
  <2>2. Active' \subseteq Active /\ \A s \in Active' : storage'[s] = storage[s]
    BY <1>0, <1>3, ExpireType
  <2>3. \A s \in Active' : SameBinding(storage[s], storage'[s])
    BY <1>0, <2>2, ActiveType, SameBindingReflexive
  <2>. QED
    BY <2>1, <2>3 DEF StableStep
<1>4. CASE UNCHANGED vars
  BY <1>0, <1>4, KeptIsStable DEF vars, Active
<1>. QED
  BY <1>1, <1>2, <1>3, <1>4 DEF Next

(* A mapping keeps its conversation and public port until expire removes it, *)
(* and its last use never goes back.                                         *)
THEOREM MappingsStayStable == Spec => MappingsAreStable
<1>1. Spec => [][StableStep]_vars
  BY NatTypeCorrect, StableNext, PTL DEF Spec
<1>. QED
  BY <1>1 DEF MappingsAreStable, StableStep

-----------------------------------------------------------------------------
(* Every active mapping belongs to whoever last sent from its public port to *)
(* its remote endpoint: the strengthening that makes ReplyReachesSender      *)
(* inductive.  It needs the public ports to be unique.                       *)
Flow(m) == <<m.protocol, m.public_port, m.remote>>

SenderKnown ==
  \A s \in Active : /\ Flow(storage[s]) \in DOMAIN last_sender
                    /\ last_sender[Flow(storage[s])] = storage[s].private

LEMMA TouchKeepsSender ==
  ASSUME StorageOK, TableValid, SenderKnown,
         NEW s \in Slot, NEW now \in Time, Touches(s, now),
         \/ UNCHANGED last_sender
         \/ \E t \in Tuple : /\ MatchesOutbound(storage[s], t)
                             /\ SendFrom(storage[s].public_port, t)
  PROVE  SenderKnown'
<1>1. /\ Active' = Active /\ storage[s] \in Mapping /\ s \in Active
      /\ storage'[s] = Touch(storage[s], now)
      /\ \A r \in Active \ {s} : storage'[r] = storage[r]
  BY TouchesType, ActiveType DEF Touches, Active
<1>2. \A r \in Active : /\ Flow(storage'[r]) = Flow(storage[r])
                        /\ storage'[r].private = storage[r].private
  <2>1. /\ Flow(Touch(storage[s], now)) = Flow(storage[s])
        /\ Touch(storage[s], now).private = storage[s].private
    BY <1>1, TouchType DEF Flow
  <2>. QED
    BY <1>1, <2>1
<1>3. CASE UNCHANGED last_sender
  BY <1>1, <1>2, <1>3 DEF SenderKnown
<1>4. CASE \E t \in Tuple : /\ MatchesOutbound(storage[s], t)
                            /\ SendFrom(storage[s].public_port, t)
  <2>1. PICK t \in Tuple : /\ MatchesOutbound(storage[s], t)
                           /\ SendFrom(storage[s].public_port, t)
    BY <1>4
  <2>2. /\ Flow(storage[s]) = <<t.protocol, storage[s].public_port, t.destination>>
        /\ t.source = storage[s].private
    BY <2>1 DEF MatchesOutbound, Flow
  <2>3. last_sender' = [f \in DOMAIN last_sender \cup {Flow(storage[s])} |->
                          IF f = Flow(storage[s]) THEN t.source ELSE last_sender[f]]
    BY <2>1, <2>2 DEF SendFrom
  <2>4. \A r \in Active \ {s} : Flow(storage[r]) # Flow(storage[s])
    BY <1>1 DEF TableValid, Flow
  <2>. QED
    BY <1>1, <1>2, <2>2, <2>3, <2>4 DEF SenderKnown
<1>. QED
  BY <1>3, <1>4

LEMMA CreateKeepsSender ==
  ASSUME StorageOK, SenderKnown,
         NEW s \in Slot, NEW now \in Time, NEW t \in Tuple,
         NEW port \in AvailablePorts, Creates(s, now, t, port), SendFrom(port, t)
  PROVE  SenderKnown'
<1>. DEFINE flow == <<t.protocol, port, t.destination>>
<1>1. /\ s \notin Active /\ Active' = Active \cup {s}
      /\ storage'[s] = NewMapping(now, t, port)
      /\ \A r \in Active : storage'[r] = storage[r]
  BY CreatesType DEF Active
<1>2. Flow(storage'[s]) = flow /\ storage'[s].private = t.source
  BY <1>1 DEF NewMapping, Flow
<1>3. last_sender' = [f \in DOMAIN last_sender \cup {flow} |->
                        IF f = flow THEN t.source ELSE last_sender[f]]
  BY DEF SendFrom
<1>4. \A r \in Active : Flow(storage[r]) # flow
  BY DEF AvailablePorts, PortInUse, Flow
<1>. QED
  BY <1>1, <1>2, <1>3, <1>4 DEF SenderKnown

LEMMA SenderStep ==
  TypeOK /\ TableValid /\ SenderKnown /\ [Next]_vars => SenderKnown'
<1>. SUFFICES ASSUME TypeOK, TableValid, SenderKnown, [Next]_vars
              PROVE  SenderKnown'
  OBVIOUS
<1>0. StorageOK
  BY StorageType
<1>1. ASSUME NEW now \in Time, NEW t \in Requests, TranslateOutbound(now, t)
      PROVE  SenderKnown'
  <2>0. t \in Tuple
    OBVIOUS
  <2>1. CASE UNCHANGED <<storage, last_sender>>
    BY <2>1 DEF SenderKnown, Active
  <2>2. CASE \E s \in Slot : /\ Touches(s, now) /\ MatchesOutbound(storage[s], t)
                             /\ SendFrom(storage[s].public_port, t)
    BY <1>0, <2>0, <2>2, TouchKeepsSender
  <2>3. CASE \E s \in Slot, port \in AvailablePorts :
               Creates(s, now, t, port) /\ SendFrom(port, t)
    BY <1>0, <2>0, <2>3, CreateKeepsSender
  <2>. QED
    BY <1>1, <2>1, <2>2, <2>3, OutboundCases
<1>2. ASSUME NEW now \in Time, NEW t \in Replies, TranslateInbound(now, t)
      PROVE  SenderKnown'
  <2>0. last_sender' = last_sender
    BY <1>2, InboundCases
  <2>1. CASE UNCHANGED storage
    BY <2>0, <2>1 DEF SenderKnown, Active
  <2>2. CASE \E s \in Slot : Touches(s, now)
    BY <1>0, <2>0, <2>2, TouchKeepsSender
  <2>. QED
    BY <1>2, <2>1, <2>2, InboundCases
<1>3. ASSUME NEW now \in Time, NEW idle \in Idle, Expire(now, idle)
      PROVE  SenderKnown'
  <2>1. last_sender' = last_sender
    BY <1>3 DEF Expire
  <2>2. Active' \subseteq Active /\ \A s \in Active' : storage'[s] = storage[s]
    BY <1>0, <1>3, ExpireType
  <2>. QED
    BY <2>1, <2>2 DEF SenderKnown
<1>4. CASE UNCHANGED vars
  BY <1>4 DEF SenderKnown, Active, vars
<1>. QED
  BY <1>1, <1>2, <1>3, <1>4 DEF Next

(* A successful inbound call restores the destination its flow last sent from. *)
LEMMA ReplyStep ==
  TypeOK /\ SenderKnown /\ ReplyReachesSender /\ [Next]_vars => ReplyReachesSender'
<1>. SUFFICES ASSUME TypeOK, SenderKnown, ReplyReachesSender, [Next]_vars
              PROVE  ReplyReachesSender'
  OBVIOUS
<1>1. ASSUME NEW now \in Time, NEW t \in Requests, TranslateOutbound(now, t)
      PROVE  ReplyReachesSender'
  <2>1. request'.op = "outbound"
    BY <1>1, OutboundCases
  <2>. QED
    BY <2>1 DEF ReplyReachesSender
<1>2. ASSUME NEW now \in Time, NEW t \in Replies, TranslateInbound(now, t)
      PROVE  ReplyReachesSender'
  <2>1. request'.tuple = t /\ last_sender' = last_sender
    BY <1>2, InboundCases
  <2>2. CASE status' \in {"MALFORMED", "TRUNCATED"}
    BY <2>2 DEF ReplyReachesSender
  <2>3. CASE \E s \in Slot : /\ Touches(s, now) /\ MatchesInbound(storage[s], t)
                             /\ out' = [t EXCEPT !.destination = storage[s].private]
    <3>1. PICK s \in Active :
            /\ MatchesInbound(storage[s], t)
            /\ out' = [t EXCEPT !.destination = storage[s].private]
      BY <2>3 DEF Touches
    <3>2. Flow(storage[s]) = <<t.protocol, t.destination.port, t.source>>
      BY <3>1 DEF MatchesInbound, Flow
    <3>. QED
      BY <2>1, <3>1, <3>2 DEF SenderKnown, ReplyReachesSender
  <2>. QED
    BY <1>2, <2>2, <2>3, InboundCases
<1>3. ASSUME NEW now \in Time, NEW idle \in Idle, Expire(now, idle)
      PROVE  ReplyReachesSender'
  <2>1. request'.op = "expire"
    BY <1>3 DEF Expire
  <2>. QED
    BY <2>1 DEF ReplyReachesSender
<1>4. CASE UNCHANGED vars
  BY <1>4 DEF ReplyReachesSender, vars
<1>. QED
  BY <1>1, <1>2, <1>3, <1>4 DEF Next

(* A translated reply goes to whoever last sent from that public port to     *)
(* that remote endpoint with that protocol.                                  *)
THEOREM RepliesReachSenders == Spec => []ReplyReachesSender
<1>1. Init => SenderKnown /\ ReplyReachesSender
  BY DEF Init, SenderKnown, ReplyReachesSender, Active
<1>2. OnlyBadTuplesMalformed => TableValid
  BY DEF OnlyBadTuplesMalformed
<1>. QED
  BY <1>1, <1>2, NatTypeCorrect, TableStaysValid, SenderStep, ReplyStep, PTL DEF Spec

-----------------------------------------------------------------------------
(* The array of slots implements Translator for every number of slots and of *)
(* ports: whichever runs out first, CAPACITY is answered at exactly the      *)
(* smaller of the two numbers.                                               *)
Bindings == {storage[s] : s \in Active}

PortCount == PortMax - FirstPort + 1

Limit == IF Capacity <= PortCount THEN Capacity ELSE PortCount

UsedPorts == {storage[s].public_port : s \in Active}

-----------------------------------------------------------------------------
LEMMA SameCardinality ==
  ASSUME NEW S
  PROVE  PublicTranslator!Cardinality(S) = Cardinality(S)
BY DEF PublicTranslator!Cardinality, Cardinality

(* In a valid table the slots, the bindings and the ports in use are equally *)
(* many.                                                                     *)
LEMMA EquallyMany ==
  ASSUME StorageOK, TableValid
  PROVE  /\ IsFiniteSet(Active) /\ Cardinality(Active) \in Nat
         /\ Cardinality(Bindings) = Cardinality(Active)
         /\ IsFiniteSet(UsedPorts)
         /\ Cardinality(UsedPorts) = Cardinality(Active)
<1>. DEFINE f == [s \in Active |-> storage[s]]
            g == [s \in Active |-> storage[s].public_port]
<1>1. IsFiniteSet(Slot)
  BY FS_Interval DEF Slot
<1>2. IsFiniteSet(Active)
  <2>1. Active \in SUBSET Slot
    BY DEF Active
  <2>. QED
    BY <1>1, <2>1, FS_Subset
<1>3. f \in Injection(Active, Bindings) /\ f \in Surjection(Active, Bindings)
  <2>1. f \in [Active -> Bindings]
    BY DEF Bindings
  <2>2. \A r, s \in Active : f[r] = f[s] => r = s
    BY DEF TableValid
  <2>3. \A b \in Bindings : \E s \in Active : f[s] = b
    BY DEF Bindings
  <2>. QED
    BY <2>1, <2>2, <2>3 DEF Injection, IsInjective, Surjection
<1>4. g \in Injection(Active, UsedPorts) /\ g \in Surjection(Active, UsedPorts)
  <2>1. g \in [Active -> UsedPorts]
    BY DEF UsedPorts
  <2>2. \A r, s \in Active : g[r] = g[s] => r = s
    BY DEF TableValid
  <2>3. \A p \in UsedPorts : \E s \in Active : g[s] = p
    BY DEF UsedPorts
  <2>. QED
    BY <2>1, <2>2, <2>3 DEF Injection, IsInjective, Surjection
<1>5. Cardinality(Bindings) = Cardinality(Active)
  BY <1>2, <1>3, FS_Surjection
<1>6. IsFiniteSet(UsedPorts) /\ Cardinality(UsedPorts) = Cardinality(Active)
  BY <1>2, <1>4, FS_Surjection
<1>7. Cardinality(Active) \in Nat
  BY <1>2, FS_CardinalityType
<1>. QED
  BY <1>2, <1>5, <1>6, <1>7

LEMMA SlotsAreBindings ==
  StorageOK /\ TableValid => Cardinality(Bindings) = Cardinality(Active)
BY EquallyMany

LEMMA SlotsAreBindingsNext ==
  StorageOK' /\ TableValid' => (Cardinality(Bindings) = Cardinality(Active))'
BY SlotsAreBindings, PTL

(* There is no room exactly when the limit is reached. *)
LEMMA NoRoomAtLimit ==
  ASSUME StorageOK, TableValid
  PROVE  /\ Active = Slot \/ AvailablePorts = {} => Cardinality(Bindings) = Limit
         /\ Active # Slot /\ AvailablePorts # {} => Cardinality(Bindings) < Limit
<1>. DEFINE n == Cardinality(Active)
<1>1. /\ n \in Nat /\ Cardinality(Bindings) = n
      /\ IsFiniteSet(UsedPorts) /\ Cardinality(UsedPorts) = n
  BY EquallyMany
<1>2. FirstPort \in Nat /\ PortMax \in Nat /\ FirstPort <= PortMax /\ Capacity \in Nat
  BY DEF Port
<1>3. IsFiniteSet(Slot) /\ Cardinality(Slot) = Capacity
  BY <1>2, FS_Interval DEF Slot
<1>4. IsFiniteSet(FirstPort..PortMax) /\ Cardinality(FirstPort..PortMax) = PortCount
  BY <1>2, FS_Interval DEF PortCount
<1>5. Active \in SUBSET Slot
  BY DEF Active
<1>6. UsedPorts \in SUBSET (FirstPort..PortMax)
  <2>1. ASSUME NEW s \in Active
        PROVE  storage[s].public_port \in FirstPort..PortMax
    <3>1. storage[s].public_port \in Port /\ storage[s].public_port >= FirstPort
      BY ActiveType DEF Mapping, TableValid, MappingValid
    <3>. QED
      BY <1>2, <3>1 DEF Port
  <2>. QED
    BY <2>1 DEF UsedPorts
<1>7. AvailablePorts = (FirstPort..PortMax) \ UsedPorts
  BY DEF AvailablePorts, PortInUse, UsedPorts
<1>8. n <= Capacity /\ (n = Capacity <=> Active = Slot)
  BY <1>3, <1>5, FS_Subset
<1>9. n <= PortCount /\ (n = PortCount <=> UsedPorts = FirstPort..PortMax)
  BY <1>1, <1>4, <1>6, FS_Subset
<1>10. AvailablePorts = {} <=> n = PortCount
  BY <1>6, <1>7, <1>9
<1>11. PortCount \in Int
  BY <1>2 DEF PortCount
<1>. QED
  BY <1>1, <1>2, <1>8, <1>9, <1>10, <1>11 DEF Limit

-----------------------------------------------------------------------------
(* A call that finds a mapping is a Use of its binding. *)
LEMMA TouchIsUse ==
  ASSUME StorageOK, TableValid, NEW s \in Slot, NEW now \in Time, Touches(s, now),
         status' = "OK", UNCHANGED count,
         \/ out' = PublicTranslator!Outward(storage[s])
         \/ out' = PublicTranslator!Inward(storage[s])
  PROVE  PublicTranslator!Use(now)
<1>. DEFINE b == storage[s]
            used == Touch(b, now)
<1>1. /\ Active' = Active /\ s \in Active /\ b \in Mapping
      /\ storage'[s] = used
      /\ \A r \in Active \ {s} : storage'[r] = storage[r]
  BY TouchesType, ActiveType DEF Touches, Active
<1>2. \A r \in Active \ {s} : storage[r] # b
  BY <1>1 DEF TableValid
<1>3. Bindings' = (Bindings \ {b}) \cup {used}
  <2>1. ASSUME NEW m \in Bindings'
        PROVE  m \in (Bindings \ {b}) \cup {used}
    BY <1>1, <1>2 DEF Bindings
  <2>2. ASSUME NEW m \in (Bindings \ {b}) \cup {used}
        PROVE  m \in Bindings'
    BY <1>1 DEF Bindings
  <2>. QED
    BY <2>1, <2>2
<1>4. b \in Bindings
  BY <1>1 DEF Bindings
<1>. QED
  BY <1>3, <1>4 DEF PublicTranslator!Use, Bindings, Touch

LEMMA OutwardView ==
  ASSUME NEW t \in Tuple, NEW m, MatchesOutbound(m, t), NEW port, m.public_port = port
  PROVE  [t EXCEPT !.source = [ip |-> PublicIp, port |-> port]] = PublicTranslator!Outward(m)
BY DEF MatchesOutbound, Tuple, PublicTranslator!Outward, PublicTranslator!Public

LEMMA InwardView ==
  ASSUME NEW t \in Tuple, NEW m, MatchesInbound(m, t)
  PROVE  [t EXCEPT !.destination = m.private] = PublicTranslator!Inward(m)
BY DEF MatchesInbound, Tuple, PublicTranslator!Inward

(* A call that fills a slot is a Bind. *)
LEMMA CreateIsBind ==
  ASSUME StorageOK, TableValid, NEW s \in Slot, NEW now \in Time, NEW t \in Tuple,
         NEW port \in AvailablePorts, Creates(s, now, t, port), SendFrom(port, t),
         UNCHANGED count
  PROVE  PublicTranslator!Bind(now)
<1>. DEFINE b == NewMapping(now, t, port)
<1>1. /\ s \notin Active /\ Active' = Active \cup {s} /\ storage'[s] = b
      /\ \A r \in Active : storage'[r] = storage[r]
  BY CreatesType DEF Active
<1>2. Bindings' = Bindings \cup {b}
  <2>1. ASSUME NEW m \in Bindings'
        PROVE  m \in Bindings \cup {b}
    BY <1>1 DEF Bindings
  <2>2. ASSUME NEW m \in Bindings \cup {b}
        PROVE  m \in Bindings'
    BY <1>1 DEF Bindings
  <2>. QED
    BY <2>1, <2>2
<1>3. b \in Bindings'
  BY <1>2
<1>4. Cardinality(Bindings) < Limit
  <2>1. Active # Slot
    BY <1>1
  <2>. QED
    BY <2>1, NoRoomAtLimit
<1>5. b.last_used = now /\ b.public_port = port /\ port \in FirstPort..PortMax
  BY DEF NewMapping, AvailablePorts
<1>6. \A c \in Bindings : /\ PublicTranslator!Conversation(c) # PublicTranslator!Conversation(b)
                          /\ c.public_port # b.public_port
  BY <1>5 DEF Bindings, Creates, OutboundMatches, MatchesOutbound, AvailablePorts,
              PortInUse, NewMapping, PublicTranslator!Conversation
<1>7. out' = PublicTranslator!Outward(b)
  <2>1. MatchesOutbound(b, t)
    BY DEF MatchesOutbound, NewMapping
  <2>. QED
    BY <1>5, <2>1, OutwardView DEF SendFrom
<1>8. status' = "OK"
  BY DEF SendFrom
<1>. QED
  BY <1>2, <1>3, <1>4, <1>5, <1>6, <1>7, <1>8, SameCardinality
     DEF PublicTranslator!Bind, Bindings, Limit, PortCount

(* A call that fails is a Refuse. *)
LEMMA FailIsRefuse ==
  ASSUME StorageOK, TableValid, NEW result \in {"MALFORMED", "TRUNCATED", "CAPACITY"},
         result = "CAPACITY" => Active = Slot \/ AvailablePorts = {},
         Fail(result), UNCHANGED count
  PROVE  PublicTranslator!Refuse
<1>1. UNCHANGED storage /\ status' = result /\ out' = ZeroTuple
  BY DEF Fail
<1>2. Bindings' = Bindings
  BY <1>1 DEF Bindings, Active
<1>3. result = "CAPACITY" => Cardinality(Bindings) = Limit
  BY NoRoomAtLimit
<1>. QED
  BY <1>1, <1>2, <1>3, SameCardinality DEF PublicTranslator!Refuse, Bindings, Limit, PortCount

-----------------------------------------------------------------------------
LEMMA OutboundImplements ==
  ASSUME StorageOK, TableValid, NEW now \in Time, NEW t \in Requests,
         TranslateOutbound(now, t)
  PROVE  PublicTranslator!Next
<1>0. t \in Tuple /\ UNCHANGED count
  BY DEF TranslateOutbound
<1>1. CASE Fail("MALFORMED")
  BY <1>0, <1>1, FailIsRefuse DEF PublicTranslator!Next
<1>2. CASE Exhausted(t) /\ Fail("CAPACITY")
  BY <1>0, <1>2, FailIsRefuse DEF Exhausted, PublicTranslator!Next
<1>3. CASE \E s \in Slot : /\ Touches(s, now) /\ MatchesOutbound(storage[s], t)
                           /\ SendFrom(storage[s].public_port, t)
  <2>1. PICK s \in Slot : /\ Touches(s, now) /\ MatchesOutbound(storage[s], t)
                          /\ SendFrom(storage[s].public_port, t)
    BY <1>3
  <2>2. out' = PublicTranslator!Outward(storage[s]) /\ status' = "OK"
    BY <1>0, <2>1, OutwardView DEF SendFrom
  <2>. QED
    BY <1>0, <2>1, <2>2, TouchIsUse DEF PublicTranslator!Next
<1>4. CASE \E s \in Slot, port \in AvailablePorts :
             Creates(s, now, t, port) /\ SendFrom(port, t)
  BY <1>0, <1>4, CreateIsBind DEF PublicTranslator!Next
<1>5. \/ Fail("MALFORMED")
      \/ Exhausted(t) /\ Fail("CAPACITY")
      \/ status' \notin {"MALFORMED", "CAPACITY"}
  BY DEF TranslateOutbound, Reuse, Allocate, SendFrom
<1>. QED
  BY <1>1, <1>2, <1>3, <1>4, <1>5, OutboundCases

LEMMA InboundImplements ==
  ASSUME StorageOK, TableValid, NEW now \in Time, NEW t \in Replies,
         TranslateInbound(now, t)
  PROVE  PublicTranslator!Next
<1>0. t \in Tuple /\ UNCHANGED count
  BY DEF TranslateInbound
<1>1. CASE \E result \in {"MALFORMED", "TRUNCATED"} : Fail(result)
  BY <1>0, <1>1, FailIsRefuse DEF PublicTranslator!Next
<1>2. CASE \E s \in Slot : /\ Touches(s, now) /\ MatchesInbound(storage[s], t)
                           /\ status' = "OK"
                           /\ out' = [t EXCEPT !.destination = storage[s].private]
  <2>1. PICK s \in Slot : /\ Touches(s, now) /\ MatchesInbound(storage[s], t)
                          /\ status' = "OK"
                          /\ out' = [t EXCEPT !.destination = storage[s].private]
    BY <1>2
  <2>2. out' = PublicTranslator!Inward(storage[s])
    BY <1>0, <2>1, InwardView
  <2>. QED
    BY <1>0, <2>1, <2>2, TouchIsUse DEF PublicTranslator!Next
<1>3. \/ \E result \in {"MALFORMED", "TRUNCATED"} : Fail(result)
      \/ status' = "OK"
  BY DEF TranslateInbound, ReceiveAt
<1>. QED
  BY <1>1, <1>2, <1>3, InboundCases

LEMMA ExpireImplements ==
  ASSUME StorageOK, TableValid, TableValid', NEW now \in Time, NEW idle \in Idle,
         Expire(now, idle)
  PROVE  PublicTranslator!Next
<1>. DEFINE gone == {s \in Active : Expires(storage[s], now, idle)}
<1>1. /\ storage' = [s \in Slot |-> IF s \in gone THEN Free ELSE storage[s]]
      /\ count' = Cardinality(gone) /\ status' = "OK" /\ UNCHANGED out
  BY DEF Expire
<1>2. StorageOK'
  BY ExpireType
<1>3. Active' = Active \ gone
  BY <1>1 DEF Active
<1>4. \A s \in Active : s \in gone <=> ~(now - storage[s].last_used < idle)
  <2>. SUFFICES ASSUME NEW s \in Active
                PROVE  Expires(storage[s], now, idle) <=> ~(now - storage[s].last_used < idle)
    OBVIOUS
  <2>1. storage[s].last_used \in Nat /\ now \in Nat /\ idle \in Nat
    BY ActiveType DEF Mapping
  <2>. QED
    BY <2>1 DEF Expires
<1>5. Bindings' = {b \in Bindings : now - b.last_used < idle}
  <2>1. \A s \in Active' : s \in Active /\ s \notin gone /\ storage'[s] = storage[s]
    BY <1>1, <1>3 DEF Active
  <2>2. ASSUME NEW m \in Bindings'
        PROVE  m \in Bindings /\ now - m.last_used < idle
    BY <1>4, <2>1 DEF Bindings
  <2>3. ASSUME NEW m \in Bindings, now - m.last_used < idle
        PROVE  m \in Bindings'
    <3>1. PICK s \in Active : m = storage[s]
      BY DEF Bindings
    <3>2. s \in Active'
      BY <1>3, <1>4, <2>3, <3>1
    <3>. QED
      BY <2>1, <3>1, <3>2 DEF Bindings
  <2>. QED
    BY <2>2, <2>3
<1>6. /\ IsFiniteSet(Active) /\ Cardinality(Active) \in Nat
      /\ Cardinality(Bindings) = Cardinality(Active)
  BY EquallyMany
<1>7. Cardinality(Bindings') = Cardinality(Active')
  BY <1>2, SlotsAreBindingsNext
<1>8. IsFiniteSet(gone) /\ Cardinality(gone) \in Nat
  BY <1>6, FS_Subset, FS_CardinalityType
<1>9. Cardinality(Active \ gone) = Cardinality(Active) - Cardinality(gone)
  <2>1. Active \cap gone = gone
    OBVIOUS
  <2>. QED
    BY <1>6, <2>1, FS_Difference
<1>10. count' = Cardinality(Bindings) - Cardinality(Bindings')
  BY <1>1, <1>3, <1>6, <1>7, <1>8, <1>9
<1>11. PublicTranslator!Expire(now, idle)
  BY <1>1, <1>5, <1>10, SameCardinality DEF PublicTranslator!Expire, Bindings
<1>. QED
  BY <1>11 DEF PublicTranslator!Next

(* Lesson 11's translator implements a set of bindings: which slot and which *)
(* port are chosen is invisible but for uniqueness, a failed call changes    *)
(* nothing, and CAPACITY means that the slots or the ports have run out.     *)
THEOREM NatTableImplementsTranslator == Spec => ImplementsTranslator
<1>1. Init => PublicTranslator!Init
  BY DEF Init, PublicTranslator!Init, Active
<1>2. TypeOK /\ TableValid /\ TableValid' /\ [Next]_vars
        => [PublicTranslator!Next]_<<Bindings, status, out, count>>
  <2>. SUFFICES ASSUME TypeOK, TableValid, TableValid', [Next]_vars
                PROVE  PublicTranslator!Next \/ UNCHANGED <<Bindings, status, out, count>>
    OBVIOUS
  <2>0. StorageOK
    BY StorageType
  <2>1. ASSUME NEW now \in Time, NEW t \in Requests, TranslateOutbound(now, t)
        PROVE  PublicTranslator!Next
    BY <2>0, <2>1, OutboundImplements
  <2>2. ASSUME NEW now \in Time, NEW t \in Replies, TranslateInbound(now, t)
        PROVE  PublicTranslator!Next
    BY <2>0, <2>2, InboundImplements
  <2>3. ASSUME NEW now \in Time, NEW idle \in Idle, Expire(now, idle)
        PROVE  PublicTranslator!Next
    BY <2>0, <2>3, ExpireImplements
  <2>4. CASE UNCHANGED vars
    BY <2>4 DEF vars, Bindings, Active
  <2>. QED
    BY <2>1, <2>2, <2>3, <2>4 DEF Next
<1>3. OnlyBadTuplesMalformed => TableValid
  BY DEF OnlyBadTuplesMalformed
<1>. QED
  BY <1>1, <1>2, <1>3, NatTypeCorrect, TableStaysValid, PTL
     DEF Spec, ImplementsTranslator, PublicTranslator!Spec, PublicTranslator!vars, Bindings

-----------------------------------------------------------------------------
(* The route lookup.                                                         *)

(* Every route of a table is a route. *)
LEMMA RouteType ==
  ASSUME LookupTypeOK, NEW i \in 1..Len(routes)
  PROVE  /\ routes[i].prefix_length \in Nat
         /\ routes[i].metric \in Nat
<1>1. routes \in Seq(Route)
  BY DEF LookupTypeOK
<1>2. routes[i] \in Route
  BY <1>1
<1>. QED
  BY <1>2 DEF Route

LEMMA LookupLengthType == LookupTypeOK => Len(routes) \in Nat
BY DEF LookupTypeOK

-----------------------------------------------------------------------------
LEMMA LookupInitType == LookupInit => LookupTypeOK
<1>. SUFFICES ASSUME LookupInit PROVE LookupTypeOK
  OBVIOUS
<1>1. routes \in Seq(Route)
  BY DEF LookupInit
<1>2. Len(routes) \in Nat
  BY <1>1
<1>. QED
  BY <1>1, <1>2 DEF LookupInit, LookupTypeOK

LEMMA LookupTypeStep == LookupTypeOK /\ [LookupNext]_lookup_vars => LookupTypeOK'
<1>. SUFFICES ASSUME LookupTypeOK, [LookupNext]_lookup_vars
              PROVE  LookupTypeOK'
  OBVIOUS
<1>. Len(routes) \in Nat
  BY LookupLengthType
<1>1. CASE CheckRoute
  BY <1>1 DEF LookupTypeOK, CheckRoute, Return
<1>2. CASE StartSelection
  BY <1>2 DEF LookupTypeOK, StartSelection
<1>3. CASE SelectRoute
  <2>1. /\ routes' = routes /\ destination' = destination /\ phase' = phase
        /\ index' = index /\ returned' = returned
        /\ route_index' \in 1..(Len(routes) + 1)
    BY <1>3 DEF LookupTypeOK, SelectRoute
  <2>2. best' \in 0..Len(routes)
    BY <1>3 DEF LookupTypeOK, SelectRoute
  <2>. QED
    BY <2>1, <2>2 DEF LookupTypeOK
<1>4. CASE Finish
  BY <1>4 DEF LookupTypeOK, Finish, Return
<1>5. CASE UNCHANGED lookup_vars
  BY <1>5 DEF LookupTypeOK, lookup_vars
<1>. QED
  BY <1>1, <1>2, <1>3, <1>4, <1>5 DEF LookupNext

(* The loop variables stay inside the table. *)
THEOREM LookupTypeCorrect == LookupSpec => []LookupTypeOK
BY LookupInitType, LookupTypeStep, PTL DEF LookupSpec

-----------------------------------------------------------------------------
(* One iteration of the selection loop: the choice among the first n routes  *)
(* becomes the choice among the first n + 1.                                 *)
LEMMA KeepBest ==
  ASSUME LookupTypeOK, NEW n \in Nat, n + 1 \in 1..Len(routes),
         NEW b \in 1..n, IsBest(routes, n, destination, b),
         ~(Matches(routes[n + 1], destination) /\ Better(routes[n + 1], routes[b]))
  PROVE  IsBest(routes, n + 1, destination, b)
<1>. Len(routes) \in Nat
  BY LookupLengthType
<1>. n + 1 \in 1..Len(routes) /\ b \in 1..Len(routes)
  OBVIOUS
<1>1. /\ routes[n + 1].prefix_length \in Nat /\ routes[n + 1].metric \in Nat
      /\ routes[b].prefix_length \in Nat /\ routes[b].metric \in Nat
  BY RouteType
<1>. SUFFICES ASSUME NEW j \in 1..(n + 1), Matches(routes[j], destination)
              PROVE  \/ routes[j].prefix_length < routes[b].prefix_length
                     \/ /\ routes[j].prefix_length = routes[b].prefix_length
                        /\ \/ routes[j].metric > routes[b].metric
                           \/ routes[j].metric = routes[b].metric /\ b <= j
  BY DEF IsBest
<1>2. CASE j = n + 1
  BY <1>1, <1>2 DEF Better
<1>3. CASE j # n + 1
  BY <1>3 DEF IsBest
<1>. QED
  BY <1>2, <1>3

LEMMA TakeBest ==
  ASSUME LookupTypeOK, NEW n \in Nat, n + 1 \in 1..Len(routes),
         Matches(routes[n + 1], destination),
         \/ \A j \in 1..n : ~Matches(routes[j], destination)
         \/ \E b \in 1..n : /\ IsBest(routes, n, destination, b)
                            /\ Better(routes[n + 1], routes[b])
  PROVE  IsBest(routes, n + 1, destination, n + 1)
<1>. Len(routes) \in Nat
  BY LookupLengthType
<1>. SUFFICES ASSUME NEW j \in 1..(n + 1), Matches(routes[j], destination)
              PROVE  \/ routes[j].prefix_length < routes[n + 1].prefix_length
                     \/ /\ routes[j].prefix_length = routes[n + 1].prefix_length
                        /\ \/ routes[j].metric > routes[n + 1].metric
                           \/ /\ routes[j].metric = routes[n + 1].metric
                              /\ n + 1 <= j
  BY DEF IsBest
<1>0. /\ routes[n + 1].prefix_length \in Nat /\ routes[n + 1].metric \in Nat
      /\ routes[j].prefix_length \in Nat /\ routes[j].metric \in Nat
  BY RouteType
<1>1. CASE j = n + 1
  BY <1>0, <1>1
<1>2. CASE j # n + 1
  <2>1. j \in 1..n
    BY <1>2
  <2>2. PICK b \in 1..n : IsBest(routes, n, destination, b)
                          /\ Better(routes[n + 1], routes[b])
    BY <2>1
  <2>3. routes[b].prefix_length \in Nat /\ routes[b].metric \in Nat
    BY RouteType
  <2>4. \/ routes[j].prefix_length < routes[b].prefix_length
        \/ /\ routes[j].prefix_length = routes[b].prefix_length
           /\ routes[j].metric >= routes[b].metric
    BY <2>1, <2>2, <2>3, <1>0 DEF IsBest
  <2>. QED
    BY <2>2, <2>3, <2>4, <1>0 DEF Better
<1>. QED
  BY <1>1, <1>2

-----------------------------------------------------------------------------
LEMMA InitLoop == LookupInit => LoopInvariant
BY DEF LookupInit, LoopInvariant, Seen

LEMMA LoopStep == LookupTypeOK /\ LoopInvariant /\ [LookupNext]_lookup_vars => LoopInvariant'
<1>. SUFFICES ASSUME LookupTypeOK, LoopInvariant, [LookupNext]_lookup_vars
              PROVE  LoopInvariant'
  OBVIOUS
<1>. Len(routes) \in Nat /\ route_index \in Nat
  BY LookupLengthType DEF LookupTypeOK
<1>1. CASE CheckRoute
  <2>1. CASE Canonical(routes[route_index]) /\ route_index' = route_index + 1
             /\ UNCHANGED <<phase, returned>>
    BY <1>1, <2>1 DEF LoopInvariant, CheckRoute, Seen, LookupTypeOK
  <2>2. CASE Return("MALFORMED")
    BY <2>2 DEF LoopInvariant, Return
  <2>. QED
    BY <1>1, <2>1, <2>2 DEF CheckRoute
<1>2. CASE StartSelection
  <2>1. AllCanonical(routes)
    BY <1>2 DEF StartSelection, LoopInvariant, Seen, AllCanonical, LookupTypeOK
  <2>. QED
    BY <1>2, <2>1 DEF StartSelection, LoopInvariant, Seen, AllCanonical
<1>3. CASE SelectRoute
  <2>. DEFINE n == route_index - 1
  <2>1. /\ n \in Nat /\ n + 1 = route_index /\ n + 1 \in 1..Len(routes)
        /\ route_index' - 1 = n + 1 /\ Seen' = 1..(n + 1) /\ Seen = 1..n
        /\ phase = "select" /\ UNCHANGED <<routes, destination, phase, index, returned>>
    BY <1>3 DEF SelectRoute, LookupTypeOK, Seen
  <2>2. /\ AllCanonical(routes)
        /\ best = 0 => \A j \in 1..n : ~Matches(routes[j], destination)
        /\ best # 0 => IsBest(routes, n, destination, best) /\ best \in 1..n
        /\ index = 0 /\ returned = "RUNNING"
    BY <2>1 DEF LoopInvariant, IsBest
  <2>3. CASE Prefers(n + 1)
    <3>1. best' = n + 1
      BY <1>3, <2>1, <2>3 DEF SelectRoute
    <3>2. IsBest(routes, n + 1, destination, n + 1)
      BY <2>1, <2>2, <2>3, TakeBest DEF Prefers
    <3>. QED
      BY <2>1, <2>2, <3>1, <3>2 DEF LoopInvariant, AllCanonical
  <2>4. CASE ~Prefers(n + 1)
    <3>1. best' = best
      BY <1>3, <2>1, <2>4 DEF SelectRoute
    <3>2. CASE best = 0
      <4>1. \A j \in 1..(n + 1) : ~Matches(routes[j], destination)
        BY <2>1, <2>2, <2>4, <3>2 DEF Prefers
      <4>. QED
        BY <2>1, <2>2, <3>1, <3>2, <4>1 DEF LoopInvariant, AllCanonical
    <3>3. CASE best # 0
      <4>1. IsBest(routes, n + 1, destination, best)
        BY <2>1, <2>2, <2>4, <3>3, KeepBest DEF Prefers
      <4>. QED
        BY <2>1, <2>2, <3>1, <3>3, <4>1 DEF LoopInvariant, AllCanonical
    <3>. QED
      BY <3>2, <3>3
  <2>. QED
    BY <2>3, <2>4
<1>4. CASE Finish
  BY <1>4 DEF LoopInvariant, Finish, Return
<1>5. CASE UNCHANGED lookup_vars
  BY <1>5 DEF LoopInvariant, lookup_vars, Seen, AllCanonical
<1>. QED
  BY <1>1, <1>2, <1>3, <1>4, <1>5 DEF LookupNext

(* What each loop has established about the routes it has passed. *)
THEOREM LoopsKeepInvariant == LookupSpec => []LoopInvariant
<1>1. LookupInit => LoopInvariant
  BY InitLoop
<1>2. LookupTypeOK /\ LoopInvariant /\ [LookupNext]_lookup_vars => LoopInvariant'
  BY LoopStep
<1>. QED
  BY <1>1, <1>2, LookupTypeCorrect, PTL DEF LookupSpec

-----------------------------------------------------------------------------
LEMMA ResultStep ==
  LookupTypeOK /\ LoopInvariant /\ ResultIsContract /\ [LookupNext]_lookup_vars => ResultIsContract'
<1>. SUFFICES ASSUME LookupTypeOK, LoopInvariant, ResultIsContract, [LookupNext]_lookup_vars
              PROVE  ResultIsContract'
  OBVIOUS
<1>. Len(routes) \in Nat /\ route_index \in Nat
  BY LookupLengthType DEF LookupTypeOK
<1>1. CASE CheckRoute
  <2>1. CASE phase' # "done"
    BY <2>1 DEF ResultIsContract
  <2>2. CASE phase' = "done"
    <3>1. /\ ~AllCanonical(routes) /\ routes' = routes /\ destination' = destination
          /\ index' = 0 /\ returned' = "MALFORMED"
      BY <1>1, <2>2 DEF CheckRoute, Return, LoopInvariant, AllCanonical, LookupTypeOK
    <3>. QED
      BY <3>1 DEF ResultIsContract, LookupMalformed, LookupNoRoute, LookupSelects,
                  AllCanonical
  <2>. QED
    BY <2>1, <2>2
<1>2. CASE StartSelection
  BY <1>2 DEF StartSelection, ResultIsContract
<1>3. CASE SelectRoute
  BY <1>3 DEF SelectRoute, ResultIsContract
<1>4. CASE Finish
  <2>1. /\ routes' = routes /\ destination' = destination /\ AllCanonical(routes)
        /\ route_index - 1 = Len(routes) /\ index = 0
    BY <1>4 DEF Finish, LoopInvariant, LookupTypeOK
  <2>2. CASE best = 0
    <3>1. /\ returned' = "TRUNCATED" /\ index' = 0
          /\ \A j \in 1..Len(routes) : ~Matches(routes[j], destination)
      BY <1>4, <2>1, <2>2 DEF Finish, Return, LoopInvariant, Seen
    <3>. QED
      BY <2>1, <3>1 DEF ResultIsContract, LookupMalformed, LookupNoRoute,
                        LookupSelects, AllCanonical, IsBest
  <2>3. CASE best # 0
    <3>1. /\ returned' = "OK" /\ index' = best
          /\ IsBest(routes, Len(routes), destination, best)
      BY <1>4, <2>1, <2>3 DEF Finish, Return, LoopInvariant
    <3>. QED
      BY <2>1, <3>1 DEF ResultIsContract, LookupMalformed, LookupNoRoute,
                        LookupSelects, AllCanonical, IsBest
  <2>. QED
    BY <2>2, <2>3
<1>5. CASE UNCHANGED lookup_vars
  BY <1>5 DEF ResultIsContract, lookup_vars, LookupMalformed, LookupNoRoute, LookupSelects,
              AllCanonical
<1>. QED
  BY <1>1, <1>2, <1>3, <1>4, <1>5 DEF LookupNext

(* The lookup's status and index are those of lesson.h's contract, whatever  *)
(* the table and the destination.                                            *)
THEOREM LookupMeetsContract == LookupSpec => []ResultIsContract
<1>1. LookupInit => ResultIsContract
  BY DEF LookupInit, ResultIsContract
<1>2. LookupTypeOK /\ LoopInvariant /\ ResultIsContract /\ [LookupNext]_lookup_vars => ResultIsContract'
  BY ResultStep
<1>. QED
  BY <1>1, <1>2, LookupTypeCorrect, LoopsKeepInvariant, PTL DEF LookupSpec
=============================================================================
