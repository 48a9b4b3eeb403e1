-------------------------- MODULE MCWebhookReceipts --------------------------
(***************************************************************************)
(* Small instances of WebhookReceipts: one inbound message, one sent       *)
(* message and a call.  Three events are reported in a behaviour, as its   *)
(* scenario says: a delivery against a failure of one message and beside   *)
(* an inbound one; a call with both; a call while the sent message appears *)
(* as an echo.  MCInbound is one message reported twice, live and in the   *)
(* history of the phone.                                                   *)
(***************************************************************************)
EXTENDS WebhookReceipts

CONSTANTS w1, w2, in, out, Scenarios

VARIABLE scenario

Event(k, m, s) == [kind |-> k, msg |-> m, status |-> s]

Inbound == Event("inbound", in, "none")
History == Event("history", in, "none")
Call == Event("call", in, "none")
Echoed == Event("echo", out, "none")
Delivered == Event("status", out, "delivered")
Failure == Event("status", out, "failed")

MCMessages == {in, out}
MCEvents == {Inbound, Call, Echoed, Delivered, Failure}
MCScenarios == {{Inbound, Delivered, Failure}, {Inbound, Call, Failure}, {Call, Echoed, Delivered}}
MCInbound == {Inbound, History}
MCInboundOnly == {MCInbound}

MCInit == Init /\ scenario \in Scenarios

\* What is not in the scenario is never reported.
MCNext ==
  /\ Next
  /\ \A e \in Events \ scenario : receipts'[e].status = "absent"
  /\ UNCHANGED scenario

MCSpec == MCInit /\ [][MCNext]_<<vars, scenario>>
MCFairSpec == MCSpec /\ Fairness
=============================================================================
