------------------------------ MODULE Transfer ------------------------------
(***************************************************************************)
(* What one call of Linux lab 03's tcpip_linux_l03_run promises its caller:*)
(* it returns, and either it succeeds with the whole payload in the output *)
(* span or it fails and leaves that span alone ("avoids ... partial        *)
(* success", lab README, contract at a glance).                            *)
(***************************************************************************)
CONSTANT Payload

VARIABLES
  outcome,   \* "pending", "delivered" or "failed"
  output     \* what was written to the caller's span

Init == outcome = "pending" /\ output = <<>>

Deliver ==
  /\ outcome = "pending"
  /\ outcome' = "delivered"
  /\ output' = Payload

Fail ==
  /\ outcome = "pending"
  /\ outcome' = "failed"
  /\ UNCHANGED output

Next == Deliver \/ Fail

Safety == Init /\ [][Next]_<<outcome, output>>
Spec   == Safety /\ WF_<<outcome, output>>(Next)
=============================================================================
