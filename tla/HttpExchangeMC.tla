--------------------------- MODULE HttpExchangeMC ---------------------------
(***************************************************************************)
(* Requests with every kind of header line, complete, cut or followed by   *)
(* more bytes; each line end once broken; too many headers, too many       *)
(* header bytes, responses and noise.  Small buffers and descriptors that  *)
(* did not block before meet the streams that get far enough to care.      *)
(***************************************************************************)
EXTENDS HttpExchange, SequencesExt

Message(start, fields) ==
  FlattenSeq(<<<<start, CR, LF>>>> \o [k \in DOMAIN fields |-> <<fields[k], CR, LF>>] \o <<<<CR, LF>>>>)

Repeat(x, n) == [i \in 1..n |-> x]

Alone == {<<text>> : text \in Texts \ (StartLines \cup {"length2"})}

Pairs ==
  {<<"length1", "length1">>, <<"length1", "length0">>, <<"field", "length1">>,
   <<"length1", "coding">>}

Requests == {Message("request", fields) \o <<"x">> : fields \in Alone \cup Pairs}

BrokenEnds ==
  {ReplaceAt(Message("request", <<"length1">>) \o <<"x">>, i, new) :
     i \in {2, 3, 5, 6, 7, 8}, new \in {CR, LF}}

Unusual ==
  {<<>>, <<CR, LF, CR, LF>>, Message("garbage", <<>>), Message("response", <<"length1">>) \o <<"x">>,
   Message("request", <<"length1">>), Message("request", <<"length2">>) \o <<CR, LF, CR>>}
  \cup {Message("request", Repeat("field", n)) : n \in {4, 5}}

SomeStreams == Requests \cup BrokenEnds \cup Unusual

Large == [client |-> 16, server |-> 17]
Small == [client |-> 15, server |-> 9]

SomeCapacities == {Large, Small}

SomeInit ==
  /\ Init
  /\ \/ ~original_nonblock /\ capacity = Large /\ ~failing
     \/ /\ stream = Message("request", <<"length1">>) \o <<"x">>
        /\ <<original_nonblock, capacity, failing>> \in
             {<<TRUE, Large, FALSE>>, <<FALSE, Small, FALSE>>, <<FALSE, Large, TRUE>>}

SomeSpec == SomeInit /\ [][Next]_vars /\ Fairness
=============================================================================
