--------------------------- MODULE AtMostOnceSend ---------------------------
(***************************************************************************)
(* What the canonical send path promises about one idempotency key, with   *)
(* the attempt row, the callers and the message table hidden:              *)
(*                                                                         *)
(*   - the key is bound to the first request that uses it, for ever;       *)
(*   - the provider is called at most once for the key;                    *)
(*   - the key ends either failed or stored, and then stays so.            *)
(*                                                                         *)
(* A key may also stay open: a process that dies between the reservation   *)
(* and the provider's answer leaves it so, and nobody sends it again.      *)
(***************************************************************************)
EXTENDS Naturals

CONSTANTS Keys,      \* idempotency keys of one workspace
          Requests,  \* what a key can be asked to send
          NoReq      \* the binding of an unused key, no request

VARIABLES bound,     \* key -> the request it was reserved for
          calls,     \* key -> provider calls made
          outcome    \* key -> "open", "failed" or "stored"

vars == <<bound, calls, outcome>>

Init ==
  /\ bound = [k \in Keys |-> NoReq]
  /\ calls = [k \in Keys |-> 0]
  /\ outcome = [k \in Keys |-> "open"]

Bind(k, r) ==
  /\ bound[k] = NoReq
  /\ bound' = [bound EXCEPT ![k] = r]
  /\ UNCHANGED <<calls, outcome>>

\* The one provider call of the key.
Call(k) ==
  /\ bound[k] # NoReq
  /\ outcome[k] = "open"
  /\ calls[k] = 0
  /\ calls' = [calls EXCEPT ![k] = 1]
  /\ UNCHANGED <<bound, outcome>>

\* The adapter threw: before the call, or because of its answer.
Fail(k) ==
  /\ bound[k] # NoReq
  /\ outcome[k] = "open"
  /\ outcome' = [outcome EXCEPT ![k] = "failed"]
  /\ UNCHANGED <<bound, calls>>

\* Only what the provider was asked to send is stored.
Store(k) ==
  /\ outcome[k] = "open"
  /\ calls[k] = 1
  /\ outcome' = [outcome EXCEPT ![k] = "stored"]
  /\ UNCHANGED <<bound, calls>>

Next ==
  \E k \in Keys :
    \/ \E r \in Requests : Bind(k, r)
    \/ Call(k)
    \/ Fail(k)
    \/ Store(k)

Spec == Init /\ [][Next]_vars
=============================================================================
