------------------------------ MODULE MetaCalls ------------------------------
(***************************************************************************)
(* The calls of one recipient over one Meta connection:                    *)
(* messaging/metaCallService.js and messaging/metaCallEvents.js.           *)
(*                                                                         *)
(* A request of an agent reserves a command in one transaction, asks the   *)
(* provider, and settles the command in another.  Between the two the      *)
(* process may die, the answer may be lost, ninety seconds may pass and    *)
(* webhooks of the same call may be processed in any order.                *)
(*                                                                         *)
(* A key has at most one request past its reservation (a duplicate key is  *)
(* answered from the row, which changes nothing), so a request is named    *)
(* by its key.  A session is named by the key that reserved it, or by the  *)
(* call whose webhook inserted it.                                         *)
(***************************************************************************)
EXTENDS Naturals, FiniteSets

CONSTANTS
  Users,    \* agents with access to the connection
  Keys,     \* idempotency keys
  Calls,    \* the provider's call identifiers
  Answers,  \* SDP answers
  Events,   \* the reports the provider sends, some of AllEvents
  Echoes,   \* whether it may echo the correlation id, or may not
  None      \* the null of every column

AllEvents == {"connect", "ringing", "accepted", "rejected", "failed", "terminate"}

Actions == {"connect", "pre_accept", "accept", "reject", "terminate"}

ASSUME CallAssumption ==
  /\ None \notin Users \cup Keys \cup Calls \cup Answers
  /\ None \notin Actions \cup {"inbound", "outbound"}
  /\ Keys \cap Calls = {}
  /\ Events \subseteq AllEvents
  /\ Echoes \subseteq BOOLEAN

Sessions == Keys \cup Calls

VARIABLES
  sessions,   \* meta_call_sessions
  commands,   \* meta_call_commands, by idempotency key
  request,    \* what the request that reserved a key awaits
  calls,      \* the provider's calls, which the service cannot see
  performed,  \* the keys whose action the provider carried out
  reported    \* meta_call_session_events: the events that were processed

vars == <<sessions, commands, request, calls, performed, reported>>

terminal == {"terminated", "rejected", "failed"}

rank == [initiating |-> 0, ringing |-> 1, connecting |-> 2, pre_accepted |-> 3,
         accepted |-> 4, terminated |-> 5, rejected |-> 5, failed |-> 5]

NoSession == [state |-> "absent", direction |-> None, owner |-> None,
              call |-> None, answer |-> None]
NoCommand == [state |-> "absent", action |-> None, actor |-> None, session |-> None]
NoRequest == [step |-> "none", call |-> None, sdp |-> None]
Settled   == [NoRequest EXCEPT !.step = "done"]
NoCall    == [phase |-> "none", direction |-> None, by |-> None, echo |-> FALSE,
              answered |-> FALSE, given |-> {}]

Init ==
  /\ sessions  = [s \in Sessions |-> NoSession]
  /\ commands  = [k \in Keys |-> NoCommand]
  /\ request   = [k \in Keys |-> NoRequest]
  /\ calls     = [c \in Calls |-> NoCall]
  /\ performed = {}
  /\ reported  = {}

Live(s) == sessions[s].state \notin terminal \cup {"absent"}

-----------------------------------------------------------------------------
(* Claiming and reserving.                                                 *)

\* claim: one conditional UPDATE.
Claim(u, s) ==
  /\ Live(s)
  /\ sessions[s].owner \in {None, u}
  /\ sessions' = [sessions EXCEPT ![s].owner = u]
  /\ UNCHANGED <<commands, request, calls, performed, reported>>

\* Plausible bug: a connect of unknown outcome does not hold the recipient.
Active_Known == \E s \in Sessions : Live(s) /\ sessions[s].call # None

\* A call of the recipient is active or awaits reconciliation.
Active == \E s \in Sessions : Live(s)

\* action, connect: suppression and the provider's permission were found in order;
\* in one transaction the recipient is reserved and the command inserted.
ReserveConnect(k, u) ==
  /\ commands[k].state = "absent"
  /\ ~Active
  /\ sessions' = [sessions EXCEPT ![k] =
       [NoSession EXCEPT !.state = "initiating", !.direction = "outbound", !.owner = u]]
  /\ commands' = [commands EXCEPT ![k] =
       [state |-> "sending", action |-> "connect", actor |-> u, session |-> k]]
  /\ request' = [request EXCEPT ![k].step = "post"]
  /\ UNCHANGED <<calls, performed, reported>>

\* The commands of session s whose outcome is not known.
Pending(s) ==
  {k \in Keys : commands[k].session = s /\ commands[k].state \in {"sending", "uncertain"}}

\* Nothing is pending, or this is a first attempt to terminate.
MayFollowPending(s, action) ==
  \/ Pending(s) = {}
  \/ action = "terminate" /\ \A k \in Pending(s) : commands[k].action # "terminate"

\* Plausible bug: the answer given before is not compared.
SameAnswer_Unchecked(s, sdp) == TRUE

\* Pre-accept and accept give the same answer.
SameAnswer(s, sdp) == None \in {sdp, sessions[s].answer} \/ sdp = sessions[s].answer

\* Whether the call's state and direction allow the action.
ActionAllowed(s, action) ==
  \/ action = "terminate"
  \/ sessions[s].direction = "inbound" /\ sessions[s].state \in {"ringing", "pre_accepted"}

\* action, on a known call: checks under the row lock, then the command.
ReserveAction(k, u, s, action, sdp) ==
  /\ commands[k].state = "absent"
  /\ sessions[s].call # None
  /\ sessions[s].owner = u
  /\ Live(s)
  /\ ActionAllowed(s, action)
  /\ SameAnswer(s, sdp)
  /\ MayFollowPending(s, action)
  /\ sessions' = [sessions EXCEPT ![s].answer = IF sdp = None THEN @ ELSE sdp]
  /\ commands' = [commands EXCEPT ![k] =
       [state |-> "sending", action |-> action, actor |-> u, session |-> s]]
  /\ request' = [request EXCEPT ![k] =
       [step |-> "post", call |-> sessions[s].call, sdp |-> sdp]]
  /\ UNCHANGED <<calls, performed, reported>>

-----------------------------------------------------------------------------
(* The provider.                                                           *)

\* Plausible bug: without an answer the command counts as refused.
Unanswered_Failed == "failed"

\* The verdict on a command of which no valid answer came.
Unanswered == "uncertain"

\* The answer of a successful request arrives, or is lost or unusable.
Answer(k, call) ==
  \/ request' = [request EXCEPT ![k] = [@ EXCEPT !.step = "confirm", !.call = call]]
  \/ request' = [request EXCEPT ![k].step = Unanswered]

\* The provider places the call of a connect under a new identifier.
PlaceCall(k, c, echo) ==
  /\ request[k].step = "post" /\ commands[k].action = "connect"
  /\ calls[c].phase = "none"
  /\ calls' = [calls EXCEPT ![c] =
       [NoCall EXCEPT !.phase = "live", !.direction = "outbound", !.by = k, !.echo = echo]]
  /\ performed' = performed \cup {k}
  /\ Answer(k, c)
  /\ UNCHANGED <<sessions, commands, reported>>

\* The provider carries out an action on a call that has not ended.
PerformAction(k) ==
  LET action == commands[k].action
      c == request[k].call
  IN  /\ request[k].step = "post" /\ action # "connect"
      /\ calls[c].phase = "live"
      /\ calls' = [calls EXCEPT ![c] =
           [calls[c] EXCEPT !.answered = @ \/ action = "accept",
                            !.given = @ \cup ({request[k].sdp} \ {None}),
                            !.phase = IF action \in {"reject", "terminate"} THEN "ended" ELSE @]]
      /\ performed' = performed \cup {k}
      /\ Answer(k, c)
      /\ UNCHANGED <<sessions, commands, reported>>

\* The provider refuses with a status from 400 to 499 and does nothing.
ProviderRejects(k) ==
  /\ request[k].step = "post"
  /\ request' = [request EXCEPT ![k].step = "failed"]
  /\ UNCHANGED <<sessions, commands, calls, performed, reported>>

\* The request does not reach the provider, or it fails there.
RequestLost(k) ==
  /\ request[k].step = "post"
  /\ request' = [request EXCEPT ![k].step = Unanswered]
  /\ UNCHANGED <<sessions, commands, calls, performed, reported>>

\* The recipient calls.
IncomingCall(c) ==
  /\ calls[c].phase = "none"
  /\ calls' = [calls EXCEPT ![c] = [NoCall EXCEPT !.phase = "live", !.direction = "inbound"]]
  /\ UNCHANGED <<sessions, commands, request, performed, reported>>

\* The recipient answers a call of the service.
RecipientAnswers(c) ==
  /\ calls[c].phase = "live" /\ calls[c].direction = "outbound" /\ ~calls[c].answered
  /\ calls' = [calls EXCEPT ![c].answered = TRUE]
  /\ UNCHANGED <<sessions, commands, request, performed, reported>>

\* The recipient hangs up, declines or is not there.
RecipientHangsUp(c) ==
  /\ calls[c].phase = "live"
  /\ calls' = [calls EXCEPT ![c].phase = "ended"]
  /\ UNCHANGED <<sessions, commands, request, performed, reported>>

-----------------------------------------------------------------------------
(* Settling a command.                                                     *)

\* Where a successful action takes the session; a connect leaves it.
After(action, state) ==
  CASE action = "connect"    -> state
    [] action = "pre_accept" -> "pre_accepted"
    [] action = "accept"     -> "accepted"
    [] action = "reject"     -> "rejected"
    [] action = "terminate"  -> "terminated"

\* Plausible bug: only an accept must not be taken back.
Resolved_Ended(action, state) ==
  IF action = "pre_accept" /\ state = "accepted" THEN state ELSE After(action, state)

\* The state after a confirmed action: an ended call stays so, an accepted one
\* is not taken back to pre-accepted.
Resolved(action, state) ==
  IF state \in terminal \/ (action = "pre_accept" /\ state = "accepted")
  THEN state ELSE After(action, state)

\* The transaction after a valid answer: the call id of a connect, the state of
\* the session, the command.  The id of a call is unique among the sessions.
Confirm(k) ==
  LET s == commands[k].session
      action == commands[k].action
  IN  /\ request[k].step = "confirm"
      /\ sessions[s].call = None =>
           \A t \in Sessions : sessions[t].call # request[k].call
      /\ sessions' = [sessions EXCEPT ![s] =
           [sessions[s] EXCEPT !.call = IF @ = None THEN request[k].call ELSE @,
                               !.state = Resolved(action, @)]]
      /\ commands' = [commands EXCEPT ![k].state = "accepted"]
      /\ request' = [request EXCEPT ![k] = Settled]
      /\ UNCHANGED <<calls, performed, reported>>

\* That transaction fails, because another session has the call or for any reason.
ConfirmFails(k) ==
  /\ request[k].step = "confirm"
  /\ request' = [request EXCEPT ![k].step = "uncertain"]
  /\ UNCHANGED <<sessions, commands, calls, performed, reported>>

\* Plausible bug: every connect that did not succeed gives the recipient back.
Outcome_AlwaysReleases(k) ==
  /\ request[k].step \in {"failed", "uncertain"}
  /\ commands' = [commands EXCEPT ![k].state = request[k].step]
  /\ request' = [request EXCEPT ![k] =
       IF commands[k].action = "connect" THEN [@ EXCEPT !.step = "release"] ELSE Settled]
  /\ UNCHANGED <<sessions, calls, performed, reported>>

\* The catch block writes its verdict, whatever the command has become meanwhile.
Outcome(k) ==
  /\ request[k].step \in {"failed", "uncertain"}
  /\ commands' = [commands EXCEPT ![k].state = request[k].step]
  /\ request' = [request EXCEPT ![k] =
       IF @.step = "failed" /\ commands[k].action = "connect"
       THEN [@ EXCEPT !.step = "release"] ELSE Settled]
  /\ UNCHANGED <<sessions, calls, performed, reported>>

\* A refused connect gives the recipient back.
Release(k) ==
  /\ request[k].step = "release"
  /\ sessions' = [sessions EXCEPT ![k].state = IF @ = "initiating" THEN "failed" ELSE @]
  /\ request' = [request EXCEPT ![k] = Settled]
  /\ UNCHANGED <<commands, calls, performed, reported>>

\* sweep: a command that was sent 90 seconds ago is uncertain.
Sweep(k) ==
  /\ commands[k].state = "sending"
  /\ commands' = [commands EXCEPT ![k].state = "uncertain"]
  /\ UNCHANGED <<sessions, request, calls, performed, reported>>

\* The process dies, or the database fails it, before the request is settled.
Crash(k) ==
  /\ request[k].step \in {"post", "confirm", "failed", "uncertain", "release"}
  /\ request' = [request EXCEPT ![k] = Settled]
  /\ UNCHANGED <<sessions, commands, calls, performed, reported>>

-----------------------------------------------------------------------------
(* Webhooks.                                                               *)

\* What the provider has to report of call c.
Happened(c, event) ==
  /\ calls[c].phase # "none"
  /\ event \in {"ringing", "accepted", "rejected", "failed"} => calls[c].direction = "outbound"
  /\ event = "accepted" => calls[c].answered
  /\ event \in {"rejected", "failed"} => ~calls[c].answered
  /\ event \in {"rejected", "failed", "terminate"} => calls[c].phase = "ended"

\* Signalling carries direction and number; a status carries neither.
Directed == {"connect", "terminate"}

\* Plausible bug: the correlation id is not looked up.
Correlated_Never(c) == {}

\* The reserved session that the correlation id of call c leads to.
Correlated(c) ==
  {k \in Keys : /\ calls[c].echo /\ calls[c].by = k
                /\ sessions[k].direction = "outbound" /\ sessions[k].call = None}

Known(c) == {s \in Sessions : sessions[s].call = c}

\* The session an event of call c is applied to: its own, the reserved one, a new one.
SessionOf(c) ==
  IF Known(c) # {} THEN CHOOSE s \in Known(c) : TRUE
  ELSE IF Correlated(c) # {} THEN CHOOSE s \in Correlated(c) : TRUE
  ELSE c

\* The row of that session before the event, inserted if there was none.
RowOf(c) ==
  LET s == SessionOf(c)
  IN  IF sessions[s].state # "absent" THEN sessions[s]
      ELSE [NoSession EXCEPT !.state = "initiating", !.direction = calls[c].direction]

\* The state an event stands for.
Reported(event, direction) ==
  CASE event = "connect"   -> IF direction = "inbound" THEN "ringing" ELSE "connecting"
    [] event = "terminate" -> "terminated"
    [] OTHER               -> event

\* Plausible bug: of two ends the later one counts.
Advances_ByRank(state, next) == rank[next] >= rank[state]

\* advance: nothing follows an end, and nothing of lower rank what was reached.
Advances(state, next) == state \notin terminal /\ rank[next] >= rank[state]

\* persistCallEvent, one transaction.  An event is processed once; a status of an
\* unknown call is refused, and its receipt tried again later.
Webhook(c, event) ==
  LET row  == RowOf(c)
      next == Reported(event, row.direction)
  IN  /\ Happened(c, event)
      /\ <<c, event>> \notin reported
      /\ event \in Directed \/ sessions[SessionOf(c)].state # "absent"
      /\ sessions' = [sessions EXCEPT ![SessionOf(c)] =
           [row EXCEPT !.call = c, !.state = IF Advances(@, next) THEN next ELSE @]]
      /\ reported' = reported \cup {<<c, event>>}
      /\ UNCHANGED <<commands, request, calls, performed>>

-----------------------------------------------------------------------------

\* pre_accept and accept carry an answer, reject and terminate do not.
ReserveSome(k, u) ==
  \/ ReserveConnect(k, u)
  \/ \E s \in Sessions, action \in {"pre_accept", "accept"}, sdp \in Answers :
       ReserveAction(k, u, s, action, sdp)
  \/ \E s \in Sessions, action \in {"reject", "terminate"} :
       ReserveAction(k, u, s, action, None)

RequestStep(k) ==
  \/ \E c \in Calls, echo \in Echoes : PlaceCall(k, c, echo)
  \/ PerformAction(k) \/ ProviderRejects(k) \/ RequestLost(k)
  \/ Confirm(k) \/ ConfirmFails(k) \/ Outcome(k) \/ Release(k)

Next ==
  \/ \E u \in Users, s \in Sessions : Claim(u, s)
  \/ \E k \in Keys, u \in Users : ReserveSome(k, u)
  \/ \E k \in Keys : RequestStep(k) \/ Sweep(k) \/ Crash(k)
  \/ \E c \in Calls : IncomingCall(c) \/ RecipientAnswers(c) \/ RecipientHangsUp(c)
  \/ \E c \in Calls, event \in Events : Webhook(c, event)

Spec == Init /\ [][Next]_vars

-----------------------------------------------------------------------------
(* Properties.                                                             *)

SessionState == {"absent"} \cup DOMAIN rank

\* The tables, requests and calls have the shapes of the schema and the code.
TypeOK ==
  /\ sessions \in [Sessions -> [state: SessionState,
                                direction: {None, "inbound", "outbound"},
                                owner: Users \cup {None}, call: Calls \cup {None},
                                answer: Answers \cup {None}]]
  /\ commands \in [Keys -> [state: {"absent", "sending", "accepted", "failed", "uncertain"},
                            action: Actions \cup {None}, actor: Users \cup {None},
                            session: Sessions \cup {None}]]
  /\ request \in [Keys -> [step: {"none", "post", "confirm", "failed", "uncertain",
                                  "release", "done"},
                           call: Calls \cup {None}, sdp: Answers \cup {None}]]
  /\ calls \in [Calls -> [phase: {"none", "live", "ended"},
                          direction: {None, "inbound", "outbound"},
                          by: Keys \cup {None}, echo: BOOLEAN, answered: BOOLEAN,
                          given: SUBSET Answers]]
  /\ performed \subseteq Keys
  /\ reported \subseteq Calls \X Events

\* However many agents start calls, and whatever answers are lost, the recipient never
\* has two live calls that the service placed: a connect holds the recipient until the end
\* of its call is known (docs/calling-backend.md:21).
OneCallAtATime ==
  \A c, d \in Calls :
    (/\ calls[c].phase = "live" /\ calls[c].direction = "outbound"
     /\ calls[d].phase = "live" /\ calls[d].direction = "outbound") => c = d

\* The outcome a command reports is true: what is accepted was carried out, what failed was
\* not, also when sweep, the provider's answer and a second request overtake each other.
CommandIsTrue ==
  \A k \in Keys : /\ commands[k].state = "accepted" => k \in performed
                  /\ commands[k].state = "failed" => k \notin performed

\* The provider is given one SDP answer for a call, although pre-accept and accept are
\* separate requests, with separate keys, that may fail in between (docs/calling-backend.md:23).
OneAnswerPerCall == \A c \in Calls : Cardinality(calls[c].given) <= 1

\* A call placed by the service whose webhooks carry the correlation id is bound to the
\* session that reserved the recipient, however early its webhooks come (docs/calling-backend.md:23).
BoundToReserved ==
  \A c \in Calls : calls[c].echo => \A s \in Known(c) : s = calls[c].by

Ended(s) == IF sessions[s].call # None THEN calls[sessions[s].call].phase = "ended"
                                       ELSE \A c \in Calls : calls[c].by # s

\* A session never tells an agent that a call ended which is still on: a terminal session
\* with a call has an ended one, without a call it was never placed.  And late answers and
\* late webhooks never change how it ended (docs/calling-backend.md:23).
EndIsTrueAndFinal ==
  [][\A s \in Sessions :
       /\ sessions'[s].state \in terminal => Ended(s)'
       /\ sessions[s].state \in terminal => sessions'[s].state = sessions[s].state]_vars

=============================================================================
