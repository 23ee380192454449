--------------------------- MODULE TcpTransitions ---------------------------
(***************************************************************************)
(* Lesson 07's connection table (tcpip_l07_transition): ten states, nine   *)
(* events, fifteen valid pairs.  Every other pair is MALFORMED.            *)
(***************************************************************************)

TcpState ==
  {"CLOSED", "LISTEN", "SYN_SENT", "SYN_RECEIVED", "ESTABLISHED",
   "FIN_WAIT_1", "FIN_WAIT_2", "CLOSE_WAIT", "LAST_ACK", "TIME_WAIT"}

TcpEvent ==
  {"PASSIVE_OPEN", "ACTIVE_OPEN", "RECEIVE_SYN", "RECEIVE_SYN_ACK",
   "RECEIVE_ACK", "APP_CLOSE", "RECEIVE_FIN", "RECEIVE_FIN_ACK", "TIMEOUT"}

(* The switch, one triple per branch: state, event, *out_state. *)
Transitions ==
  {<<"CLOSED",       "PASSIVE_OPEN",    "LISTEN">>,
   <<"CLOSED",       "ACTIVE_OPEN",     "SYN_SENT">>,
   <<"LISTEN",       "RECEIVE_SYN",     "SYN_RECEIVED">>,
   <<"LISTEN",       "APP_CLOSE",       "CLOSED">>,
   <<"SYN_SENT",     "RECEIVE_SYN",     "SYN_RECEIVED">>,
   <<"SYN_SENT",     "RECEIVE_SYN_ACK", "ESTABLISHED">>,
   <<"SYN_RECEIVED", "RECEIVE_ACK",     "ESTABLISHED">>,
   <<"ESTABLISHED",  "APP_CLOSE",       "FIN_WAIT_1">>,
   <<"ESTABLISHED",  "RECEIVE_FIN",     "CLOSE_WAIT">>,
   <<"FIN_WAIT_1",   "RECEIVE_ACK",     "FIN_WAIT_2">>,
   <<"FIN_WAIT_1",   "RECEIVE_FIN_ACK", "TIME_WAIT">>,
   <<"FIN_WAIT_2",   "RECEIVE_FIN",     "TIME_WAIT">>,
   <<"CLOSE_WAIT",   "APP_CLOSE",       "LAST_ACK">>,
   <<"LAST_ACK",     "RECEIVE_ACK",     "CLOSED">>,
   <<"TIME_WAIT",    "TIMEOUT",         "CLOSED">>}

(* transition(state, event, &next) returned OK; otherwise it is MALFORMED    *)
(* and *out_state is CLOSED.                                                 *)
Accepts(state, event, next) == <<state, event, next>> \in Transitions
Rejects(state, event) == \A next \in TcpState : ~Accepts(state, event, next)
=============================================================================
