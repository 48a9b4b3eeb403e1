-------------------------- MODULE GhlWorkflowActions --------------------------
(***************************************************************************)
(* Actions of GHL workflows that send a message (ghlWorkflowActions.js),   *)
(* through the canonical send path, of which only its promise is kept:     *)
(* AtMostOnceSend.  GHL repeats a request that it thinks has failed, and   *)
(* its business event is the key; between the first look at the number     *)
(* and the message, a token is refreshed and a contact looked up.          *)
(***************************************************************************)
EXTENDS MetaConnection

CONSTANTS Executions,      \* requests of GHL that may be under way at once
          BusinessEvents,  \* location, workflow, contact, action and request_id
          NoBusiness

VARIABLES
  execution,              \* request -> its step, business event and number
  bound, calls, outcome,  \* the promise of the send path, by business event
  on                      \* executions whose number was on after GHL named the contact (history)

workflowVars == <<execution, bound, calls, outcome, on>>

Sends == INSTANCE AtMostOnceSend WITH Keys <- BusinessEvents, Requests <- Phones, NoReq <- NoPhone

NotRunning == [step |-> "idle", event |-> NoBusiness, phone |-> NoPhone]

WorkflowInit ==
  /\ execution = [x \in Executions |-> NotRunning]
  /\ Sends!Init
  /\ on = {}

-----------------------------------------------------------------------------
Continue(x, step) == execution' = [execution EXCEPT ![x].step = step]
Respond(x) == execution' = [execution EXCEPT ![x] = NotRunning]

\* The number was on after the lookup, at the start or the end of some step.
Confirmed == {"resolve", "dispatch", "reserve", "send"}
Watch == on' = {x \in Executions :
                  LET e == execution'[x] IN
                  /\ e.step \in Confirmed
                  /\ x \in on \/ (conn'[e.phone].status = "active" /\ conn'[e.phone].automation)}

\* Plausible bug: an active connection is enough.
On_Active(p) == conn[p].status = "active"

\* What each of the three queries asks of the number.
On(p) == conn[p].status = "active" /\ conn[p].automation

\* The request names the number it is to be sent from; mapped, active and automated.
BeginAction(x, e, p) ==
  /\ execution[x] = NotRunning
  /\ On(p)
  /\ execution' = [execution EXCEPT ![x] = [step |-> "contact", event |-> e, phone |-> p]]
  /\ UNCHANGED <<bound, calls, outcome>>

\* The template is approved, the token fresh and the contact the one named; or one of them
\* is not, or it was a dry run.
Validate(x) ==
  /\ execution[x].step = "contact"
  /\ Continue(x, "resolve") \/ Respond(x)
  /\ UNCHANGED <<bound, calls, outcome>>

\* resolveOrCreateConversation asks for the number again, in its transaction.
ResolveConversation(x) ==
  /\ execution[x].step = "resolve"
  /\ IF On(execution[x].phone) THEN Continue(x, "dispatch") ELSE Respond(x)
  /\ UNCHANGED <<bound, calls, outcome>>

\* resolveConversationDispatch does too, and the policy of the send path may refuse.
Dispatch(x) ==
  /\ execution[x].step = "dispatch"
  /\ (On(execution[x].phone) /\ Continue(x, "reserve")) \/ Respond(x)
  /\ UNCHANGED <<bound, calls, outcome>>

\* The key is new, or the request is answered by what has become of the first one; a message
\* that was accepted and not recorded is recorded now.
ReserveAction(x) ==
  LET e == execution[x].event IN
  /\ execution[x].step = "reserve"
  /\ \/ Sends!Bind(e, execution[x].phone) /\ Continue(x, "send")
     \/ bound[e] # NoPhone /\ Respond(x) /\ UNCHANGED <<bound, calls, outcome>>
     \/ bound[e] = execution[x].phone /\ Sends!Store(e) /\ Respond(x)

SendAction(x) ==
  LET e == execution[x].event IN
  /\ execution[x].step = "send"
  /\ \/ Sends!Call(e) /\ UNCHANGED execution
     \/ Sends!Fail(e) /\ Respond(x)
     \/ Sends!Store(e) /\ Respond(x)

\* The process dies.
ExecutionDies(x) ==
  /\ execution[x] # NotRunning
  /\ Respond(x)
  /\ UNCHANGED <<bound, calls, outcome>>

WorkflowNext ==
  /\ \E x \in Executions : \/ \E e \in BusinessEvents, p \in Phones : BeginAction(x, e, p)
                           \/ Validate(x) \/ ResolveConversation(x) \/ Dispatch(x)
                           \/ ReserveAction(x) \/ SendAction(x) \/ ExecutionDies(x)
  /\ UNCHANGED connectionVars

-----------------------------------------------------------------------------
WorkflowTypeOK ==
  /\ execution \in [Executions -> [step : Confirmed \cup {"idle", "contact"},
                                   event : BusinessEvents \cup {NoBusiness},
                                   phone : Phones \cup {NoPhone}]]
  /\ on \subseteq Executions

\* A message is about to leave only from a number that was active, with its automation on, at
\* some moment after GHL had named the contact, however long the token and the lookup took;
\* and what the send path has bound to the business event is this number, so that a request
\* repeated with another number sends nothing (ghlWorkflowActions.js:42-73).
OnlyWhenOn ==
  \A x \in Executions : execution[x].step = "send" =>
    /\ x \in on
    /\ bound[execution[x].event] = execution[x].phone
    /\ \A y \in Executions : execution[y].step = "send" /\ execution[y].event = execution[x].event => x = y
=============================================================================
