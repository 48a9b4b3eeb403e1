---------------------------- MODULE MetaCallsProofs ----------------------------
(***************************************************************************)
(* Proofs about MetaCalls, for any agents, keys, calls, answers and events.*)
(*                                                                         *)
(* The service cannot see the provider's calls, so its invariants rest on  *)
(* how the two are tied: a key reserves one session and places one call    *)
(* (Reserved, Placed), a session and a call belong to each other and to    *)
(* nobody else (Bound), what a request still has to do fits what the       *)
(* provider has done (Settling), and an end is told when it has happened   *)
(* (EndIsTrue).                                                            *)
(***************************************************************************)
EXTENDS MetaCalls, FiniteSetTheorems, TLAPS

-----------------------------------------------------------------------------
(***************************************************************************)
(* The inductive invariant.                                                *)
(***************************************************************************)

Present(s) == sessions[s].state # "absent"

\* A key's session is the one its connect reserved, and one at most is live.
Reserved ==
  /\ \A s \in Sessions : ~Present(s) => sessions[s] = NoSession
  /\ \A k \in Keys : Present(k) <=> commands[k].action = "connect"
  /\ \A k \in Keys : Present(k) => sessions[k].direction = "outbound"
  /\ \A j, k \in Keys : Live(j) /\ Live(k) => j = k

\* A call of the service has the key that placed it, which placed no other.
Placed ==
  /\ \A c \in Calls : calls[c].phase = "none" => calls[c] = NoCall
  /\ \A c \in Calls : calls[c].direction = "outbound" => calls[c].by \in Keys
  /\ \A c \in Calls : calls[c].by # None =>
       calls[c].by \in performed /\ commands[calls[c].by].action = "connect"
  /\ \A c, d \in Calls : calls[c].by # None /\ calls[c].by = calls[d].by => c = d
  /\ \A c \in Calls : calls[c].echo => calls[c].by # None

\* A session and its call: whose they are, and that no other session has the call.
Bound ==
  /\ \A k \in Keys : sessions[k].call # None => calls[sessions[k].call].by = k
  /\ \A c \in Calls : Present(c) => sessions[c].call = c /\ ~calls[c].echo
  /\ \A s \in Sessions : sessions[s].call # None => calls[sessions[s].call].phase # "none"
  /\ \A s, t \in Sessions : sessions[s].call # None /\ sessions[s].call = sessions[t].call => s = t

\* What the request of key k still has to do, and what the provider has done.
Settling(k) ==
  LET s == commands[k].session
      action == commands[k].action
      c == request[k].call
  IN
  /\ commands[k].state = "absent" <=> request[k].step = "none"
  /\ commands[k].state = "absent" => commands[k] = NoCommand /\ request[k] = NoRequest
  /\ commands[k].state # "absent" => action \in Actions /\ s \in Sessions
  /\ request[k].step \in {"none", "post", "failed", "release"} => k \notin performed
  /\ request[k].step = "confirm" => k \in performed /\ c \in Calls
  /\ request[k].step = "release" => action = "connect"
  /\ commands[k].state = "accepted" => k \in performed /\ request[k].step = "done"
  /\ commands[k].state = "failed" => k \notin performed /\ request[k].step \in {"release", "done"}
  /\ action = "connect" =>
       /\ s = k
       /\ request[k].step = "post" => Live(k)
       /\ request[k].step = "confirm" => calls[c].by = k
       /\ request[k].sdp = None
  /\ request[k].step \in {"post", "confirm"} /\ action # "connect" =>
       /\ c # None /\ sessions[s].call = c
       /\ request[k].sdp \in {None, sessions[s].answer}
  /\ request[k].step = "confirm" /\ action \in {"reject", "terminate"} =>
       calls[c].phase = "ended"

\* A session that has ended had a call that is over, or none.
EndIsTrue == \A s \in Sessions : sessions[s].state \in terminal => Ended(s)

\* An answer the provider has is the one the call's session keeps.
Answered ==
  \A c \in Calls : \A a \in calls[c].given :
    \E s \in Sessions : sessions[s].call = c /\ sessions[s].answer = a

IInv ==
  /\ TypeOK /\ Reserved /\ Placed /\ Bound /\ EndIsTrue /\ Answered
  /\ \A k \in Keys : Settling(k)

-----------------------------------------------------------------------------
(***************************************************************************)
(* Types.                                                                  *)
(***************************************************************************)

SessionRow == [state: SessionState, direction: {None, "inbound", "outbound"},
               owner: Users \cup {None}, call: Calls \cup {None}, answer: Answers \cup {None}]
CommandRow == [state: {"absent", "sending", "accepted", "failed", "uncertain"},
               action: Actions \cup {None}, actor: Users \cup {None},
               session: Sessions \cup {None}]
RequestRow == [step: {"none", "post", "confirm", "failed", "uncertain", "release", "done"},
               call: Calls \cup {None}, sdp: Answers \cup {None}]
CallRow == [phase: {"none", "live", "ended"}, direction: {None, "inbound", "outbound"},
            by: Keys \cup {None}, echo: BOOLEAN, answered: BOOLEAN, given: SUBSET Answers]

LEMMA Rows ==
  TypeOK <=> /\ sessions \in [Sessions -> SessionRow]
             /\ commands \in [Keys -> CommandRow]
             /\ request \in [Keys -> RequestRow]
             /\ calls \in [Calls -> CallRow]
             /\ performed \subseteq Keys
             /\ reported \subseteq Calls \X Events
BY DEF TypeOK, SessionRow, CommandRow, RequestRow, CallRow

LEMMA SessionStates ==
  SessionState = {"absent", "initiating", "ringing", "connecting", "pre_accepted", "accepted",
                  "terminated", "rejected", "failed"}
BY DEF SessionState, rank

LEMMA Names ==
  /\ Keys \subseteq Sessions /\ Calls \subseteq Sessions
  /\ \A k \in Keys : k \notin Calls /\ k # None
  /\ \A c \in Calls : c # None
  /\ \A a \in Answers : a # None
  /\ None \notin Actions \cup {"connect", "inbound", "outbound"}
BY CallAssumption DEF CallAssumption, Sessions, Actions

LEMMA DoneRow == Settled \in RequestRow /\ Settled.step = "done" /\ Settled.sdp = None
BY DEF Settled, NoRequest, RequestRow

-----------------------------------------------------------------------------
(***************************************************************************)
(* Each step keeps IInv.                                                   *)
(***************************************************************************)

LEMMA InitIInv == Init => IInv
<1> SUFFICES ASSUME Init PROVE IInv
  OBVIOUS
<1> USE Names DEF Init
<1>1. TypeOK
  BY SessionStates
     DEF TypeOK, NoSession, NoCommand, NoRequest, NoCall
<1>2. Reserved
  BY DEF Reserved, Present, Live, NoSession, NoCommand
<1>3. Placed
  BY DEF Placed, NoCall, NoSession
<1>4. Bound
  BY DEF Bound, Present, NoSession
<1>5. EndIsTrue /\ Answered
  BY DEF EndIsTrue, Answered, NoSession, NoCall, terminal
<1>6. \A k \in Keys : Settling(k)
  BY DEF Settling, NoCommand, NoRequest
<1>7. QED BY <1>1, <1>2, <1>3, <1>4, <1>5, <1>6 DEF IInv

\* A request that goes on without an answer does nothing else.
LEMMA RequestMovesKeepIInv ==
  ASSUME IInv, NEW k \in Keys,
         UNCHANGED <<sessions, commands, calls, performed, reported>>,
         request' \in [Keys -> RequestRow],
         \A j \in Keys \ {k} : request'[j] = request[j],
         Settling(k)'
  PROVE  IInv'
<1> USE DEF IInv
<1>1. TypeOK'
  BY Rows DEF TypeOK, SessionRow, CommandRow, RequestRow, CallRow
<1>2. Reserved' /\ Placed' /\ Bound'
  BY DEF Reserved, Placed, Bound, Present, Live
<1>3. EndIsTrue' /\ Answered'
  BY DEF EndIsTrue, Ended, Answered
<1>4. \A j \in Keys : Settling(j)'
  BY DEF Settling, Live
<1>5. QED BY <1>1, <1>2, <1>3, <1>4

LEMMA ProviderRejectsKeepsIInv ==
  ASSUME IInv, NEW k \in Keys, ProviderRejects(k)
  PROVE  IInv'
<1>1. /\ request' \in [Keys -> RequestRow]
      /\ \A j \in Keys \ {k} : request'[j] = request[j]
      /\ request'[k].step = "failed" /\ request'[k].sdp = request[k].sdp
  BY Rows DEF IInv, RequestRow, ProviderRejects
<1>2. Settling(k)'
  BY <1>1 DEF IInv, Settling, ProviderRejects
<1>3. QED BY <1>1, <1>2, RequestMovesKeepIInv DEF ProviderRejects

LEMMA RequestLostKeepsIInv ==
  ASSUME IInv, NEW k \in Keys, RequestLost(k)
  PROVE  IInv'
<1>1. /\ request' \in [Keys -> RequestRow]
      /\ \A j \in Keys \ {k} : request'[j] = request[j]
      /\ request'[k].step = "uncertain" /\ request'[k].sdp = request[k].sdp
  BY Rows DEF IInv, RequestRow, RequestLost, Unanswered
<1>2. Settling(k)'
  BY <1>1 DEF IInv, Settling, RequestLost
<1>3. QED BY <1>1, <1>2, RequestMovesKeepIInv DEF RequestLost

LEMMA ConfirmFailsKeepsIInv ==
  ASSUME IInv, NEW k \in Keys, ConfirmFails(k)
  PROVE  IInv'
<1>1. /\ request' \in [Keys -> RequestRow]
      /\ \A j \in Keys \ {k} : request'[j] = request[j]
      /\ request'[k].step = "uncertain" /\ request'[k].sdp = request[k].sdp
  BY Rows DEF IInv, RequestRow, ConfirmFails
<1>2. Settling(k)'
  BY <1>1 DEF IInv, Settling, ConfirmFails
<1>3. QED BY <1>1, <1>2, RequestMovesKeepIInv DEF ConfirmFails

LEMMA CrashKeepsIInv ==
  ASSUME IInv, NEW k \in Keys, Crash(k)
  PROVE  IInv'
<1>1. /\ request' \in [Keys -> RequestRow]
      /\ \A j \in Keys \ {k} : request'[j] = request[j]
      /\ request'[k].step = "done" /\ request'[k].sdp = None
  BY Rows, DoneRow DEF IInv, Crash
<1>2. Settling(k)'
  BY <1>1 DEF IInv, Settling, Crash
<1>3. QED BY <1>1, <1>2, RequestMovesKeepIInv DEF Crash

\* A verdict is written to the command only.
LEMMA VerdictKeepsIInv ==
  ASSUME IInv, NEW k \in Keys, NEW verdict \in {"failed", "uncertain"},
         UNCHANGED <<sessions, calls, performed, reported>>,
         commands[k].state # "absent",
         commands' = [commands EXCEPT ![k].state = verdict],
         request' \in [Keys -> RequestRow],
         \A j \in Keys \ {k} : request'[j] = request[j],
         Settling(k)'
  PROVE  IInv'
<1> USE DEF IInv
<1>1. /\ commands' \in [Keys -> CommandRow]
      /\ \A j \in Keys \ {k} : commands'[j] = commands[j]
      /\ \A j \in Keys : commands'[j].action = commands[j].action
  BY Rows DEF CommandRow
<1>2. TypeOK'
  BY <1>1, Rows DEF TypeOK, SessionRow, CommandRow, RequestRow, CallRow
<1>3. Reserved' /\ Placed' /\ Bound'
  BY <1>1, Rows DEF Reserved, Placed, Bound, Present, Live, CallRow
<1>4. EndIsTrue' /\ Answered'
  BY DEF EndIsTrue, Ended, Answered
<1>5. \A j \in Keys : Settling(j)'
  BY <1>1 DEF Settling, Live
<1>6. QED BY <1>2, <1>3, <1>4, <1>5

LEMMA OutcomeKeepsIInv ==
  ASSUME IInv, NEW k \in Keys, Outcome(k)
  PROVE  IInv'
<1> USE DEF IInv
<1> DEFINE verdict == request[k].step
<1>1. /\ verdict \in {"failed", "uncertain"} /\ commands[k].state # "absent"
      /\ commands' = [commands EXCEPT ![k].state = verdict]
  BY DEF Outcome, Settling
<1>2. /\ request' \in [Keys -> RequestRow]
      /\ \A j \in Keys \ {k} : request'[j] = request[j]
      /\ request'[k].step = IF verdict = "failed" /\ commands[k].action = "connect"
                            THEN "release" ELSE "done"
      /\ request'[k].sdp \in {request[k].sdp, None}
  BY Rows, DoneRow DEF Outcome, RequestRow
<1>3. /\ commands'[k].state = verdict /\ commands'[k].action = commands[k].action
      /\ commands'[k].session = commands[k].session
  BY <1>1, Rows DEF CommandRow
<1>4. UNCHANGED <<sessions, calls, performed, reported>>
  BY DEF Outcome
<1>5. Settling(k)'
  BY <1>1, <1>2, <1>3, <1>4 DEF Settling
<1>6. QED BY <1>1, <1>2, <1>4, <1>5, VerdictKeepsIInv

LEMMA SweepKeepsIInv ==
  ASSUME IInv, NEW k \in Keys, Sweep(k)
  PROVE  IInv'
<1> USE DEF IInv
<1>1. /\ commands'[k].state = "uncertain" /\ commands'[k].action = commands[k].action
      /\ commands'[k].session = commands[k].session
  BY Rows DEF CommandRow, Sweep
<1>2. Settling(k)'
  BY <1>1 DEF Settling, Live, Sweep
<1>3. QED BY <1>2, Rows, VerdictKeepsIInv DEF Sweep

\* Owning a session says nothing of its call.
LEMMA ClaimKeepsIInv ==
  ASSUME IInv, NEW u \in Users, NEW s \in Sessions, Claim(u, s)
  PROVE  IInv'
<1> USE DEF IInv
<1>1. /\ sessions' \in [Sessions -> SessionRow]
      /\ \A t \in Sessions : /\ sessions'[t].state = sessions[t].state
                             /\ sessions'[t].direction = sessions[t].direction
                             /\ sessions'[t].call = sessions[t].call
                             /\ sessions'[t].answer = sessions[t].answer
      /\ \A t \in Sessions \ {s} : sessions'[t] = sessions[t]
  BY Rows DEF Claim, SessionRow
<1>2. Present(s) /\ UNCHANGED <<commands, request, calls, performed, reported>>
  BY DEF Claim, Present, Live
<1>3. TypeOK'
  BY <1>1, <1>2, Rows DEF TypeOK, SessionRow, CommandRow, RequestRow, CallRow
<1>4. Reserved'
  <2>1. \A t \in Sessions : (Present(t)' <=> Present(t)) /\ (Live(t)' <=> Live(t))
    BY <1>1 DEF Present, Live
  <2>2. \A k \in Keys : k \in Sessions
    BY Names
  <2>3. QED BY <1>1, <1>2, <2>1, <2>2 DEF Reserved
<1>5. Placed'
  BY <1>2 DEF Placed
<1>6. Bound'
  BY <1>1, <1>2, Names DEF Bound, Present
<1>7. EndIsTrue' /\ Answered'
  BY <1>1, <1>2 DEF EndIsTrue, Ended, Answered
<1>8. \A k \in Keys : Settling(k)'
  BY <1>1, <1>2, Names DEF Settling, Live
<1>9. QED BY <1>3, <1>4, <1>5, <1>6, <1>7, <1>8

\* The recipient is reserved when no session holds it, and the session is new.
LEMMA ReserveConnectKeepsIInv ==
  ASSUME IInv, NEW k \in Keys, NEW u \in Users, ReserveConnect(k, u)
  PROVE  IInv'
<1> USE DEF IInv
<1>0. /\ k \in Sessions /\ k \notin Calls /\ ~Present(k) /\ sessions[k] = NoSession
      /\ \A s \in Sessions : ~Live(s)
      /\ commands[k].state = "absent" /\ request[k].step = "none" /\ commands[k].action # "connect"
  BY Names DEF ReserveConnect, Active, Reserved, Settling, NoCommand
<1>1. /\ sessions' \in [Sessions -> SessionRow]
      /\ sessions'[k].state = "initiating" /\ sessions'[k].direction = "outbound"
      /\ sessions'[k].call = None /\ sessions'[k].answer = None
      /\ \A t \in Sessions \ {k} : sessions'[t] = sessions[t]
  <2> DEFINE row == [NoSession EXCEPT !.state = "initiating", !.direction = "outbound", !.owner = u]
  <2>1. row = [state |-> "initiating", direction |-> "outbound", owner |-> u,
               call |-> None, answer |-> None]
    <3>1. row = [x \in DOMAIN NoSession |->
                   IF x = "owner" THEN u ELSE IF x = "direction" THEN "outbound"
                   ELSE IF x = "state" THEN "initiating" ELSE NoSession[x]]
      OBVIOUS
    <3> HIDE DEF row
    <3>2. QED BY <3>1 DEF NoSession
  <2>2. row \in SessionRow
    BY <2>1, SessionStates DEF SessionRow
  <2>3. sessions' = [sessions EXCEPT ![k] = row]
    BY DEF ReserveConnect
  <2> HIDE DEF row
  <2>4. QED BY <1>0, <2>1, <2>2, <2>3, Rows
<1>2. /\ commands' \in [Keys -> CommandRow]
      /\ commands'[k] = [state |-> "sending", action |-> "connect", actor |-> u, session |-> k]
      /\ \A j \in Keys \ {k} : commands'[j] = commands[j]
  BY <1>0, Rows DEF ReserveConnect, CommandRow, Actions
<1>3. /\ request' \in [Keys -> RequestRow]
      /\ request'[k].step = "post" /\ request'[k].call = request[k].call
      /\ request'[k].sdp = request[k].sdp
      /\ \A j \in Keys \ {k} : request'[j] = request[j]
  BY Rows DEF ReserveConnect, RequestRow
<1>4. UNCHANGED <<calls, performed, reported>>
  BY DEF ReserveConnect
<1>5. TypeOK'
  BY <1>1, <1>2, <1>3, <1>4, Rows DEF TypeOK, SessionRow, CommandRow, RequestRow, CallRow
<1>6. Present(k)' /\ Live(k)' /\ \A t \in Sessions \ {k} : (Present(t)' <=> Present(t)) /\ ~Live(t)'
  BY <1>0, <1>1 DEF Present, Live, terminal
<1>7. Reserved'
  BY <1>0, <1>1, <1>2, <1>6, Names DEF Reserved
<1>8. Placed'
  BY <1>0, <1>2, <1>4, Rows DEF Placed, CallRow
<1>9. Bound'
  <2>1. \A t \in Sessions : sessions'[t].call = sessions[t].call
    BY <1>0, <1>1 DEF NoSession
  <2>2. \A c \in Calls : Present(c)' <=> Present(c)
    BY <1>0, <1>6, Names
  <2>3. QED BY <1>4, <2>1, <2>2, Names DEF Bound
<1>10. EndIsTrue' /\ Answered'
  <2>1. EndIsTrue'
    BY <1>1, <1>4 DEF EndIsTrue, Ended, terminal
  <2>2. \A s \in Sessions : sessions[s].call # None => s # k
    BY <1>0 DEF NoSession
  <2>3. Answered'
    BY <1>1, <1>4, <2>2, Names DEF Answered
  <2>4. QED BY <2>1, <2>3
<1>11. \A j \in Keys : Settling(j)'
  <2>1. Settling(k)'
    BY <1>0, <1>2, <1>3, <1>4, <1>6, Names DEF Settling, Actions, NoRequest
  <2>2. ASSUME NEW j \in Keys \ {k} PROVE Settling(j)'
    <3>1. ~Live(j)
      BY <1>0, Names
    <3>2. commands[j].session = k => sessions[k].call = None
      BY <1>0 DEF NoSession
    <3>3. QED BY <1>0, <1>1, <1>2, <1>3, <1>4, <3>1, <3>2, Names DEF Settling, NoSession
  <2>3. QED BY <2>1, <2>2
<1>12. QED BY <1>5, <1>7, <1>8, <1>9, <1>10, <1>11

\* An action is for the session's call, and its answer becomes the session's.
LEMMA ReserveActionKeepsIInv ==
  ASSUME IInv, NEW k \in Keys, NEW u \in Users, NEW s \in Sessions,
         NEW action \in Actions \ {"connect"}, NEW sdp \in Answers \cup {None},
         ReserveAction(k, u, s, action, sdp)
  PROVE  IInv'
<1> USE DEF IInv
<1>0. /\ sessions[s].call # None /\ Live(s) /\ Present(s) /\ sessions[s].call \in Calls
      /\ commands[k].state = "absent" /\ commands[k].action = None /\ k \notin performed
      /\ sdp # None /\ sessions[s].answer # None => sdp = sessions[s].answer
  BY Rows
     DEF ReserveAction, Live, Present, Settling, NoCommand, SameAnswer, SessionRow
<1>1. /\ sessions' \in [Sessions -> SessionRow]
      /\ \A t \in Sessions : /\ sessions'[t].state = sessions[t].state
                             /\ sessions'[t].direction = sessions[t].direction
                             /\ sessions'[t].call = sessions[t].call
                             /\ sessions[t].answer # None => sessions'[t].answer = sessions[t].answer
      /\ \A t \in Sessions \ {s} : sessions'[t] = sessions[t]
      /\ sdp # None => sessions'[s].answer = sdp
  BY <1>0, Rows DEF ReserveAction, SessionRow
<1>2. /\ commands' \in [Keys -> CommandRow]
      /\ commands'[k] = [state |-> "sending", action |-> action, actor |-> u, session |-> s]
      /\ \A j \in Keys \ {k} : commands'[j] = commands[j]
  BY Rows DEF ReserveAction, CommandRow
<1>3. /\ request' \in [Keys -> RequestRow]
      /\ request'[k] = [step |-> "post", call |-> sessions[s].call, sdp |-> sdp]
      /\ \A j \in Keys \ {k} : request'[j] = request[j]
  BY <1>0, Rows DEF ReserveAction, RequestRow
<1>4. UNCHANGED <<calls, performed, reported>>
  BY DEF ReserveAction
<1>5. TypeOK'
  BY <1>1, <1>2, <1>3, <1>4, Rows DEF TypeOK, SessionRow, CommandRow, RequestRow, CallRow
<1>6. \A t \in Sessions : (Present(t)' <=> Present(t)) /\ (Live(t)' <=> Live(t))
  BY <1>1 DEF Present, Live
<1>7. Reserved'
  <2>1. \A j \in Keys : commands'[j].action = "connect" <=> commands[j].action = "connect"
    BY <1>0, <1>2, Names
  <2>2. \A t \in Sessions : ~Present(t)' => sessions'[t] = NoSession
    BY <1>0, <1>1, <1>6 DEF Reserved
  <2>3. QED BY <1>1, <1>6, <2>1, <2>2, Names DEF Reserved
<1>8. Placed'
  BY <1>0, <1>2, <1>4, Rows DEF Placed, CallRow
<1>9. Bound'
  BY <1>1, <1>4, <1>6, Names DEF Bound
<1>10. EndIsTrue' /\ Answered'
  <2>1. EndIsTrue'
    BY <1>1, <1>4 DEF EndIsTrue, Ended
  <2>2. Answered'
    BY <1>1, <1>4, Names, Rows DEF Answered, CallRow
  <2>3. QED BY <2>1, <2>2
<1>11. \A j \in Keys : Settling(j)'
  <2>1. Settling(k)'
    BY <1>0, <1>1, <1>2, <1>3, <1>4, Names DEF Settling
  <2>2. ASSUME NEW j \in Keys \ {k} PROVE Settling(j)'
    BY <1>1, <1>2, <1>3, <1>4, <1>6, Names DEF Settling
  <2>3. QED BY <2>1, <2>2
<1>12. QED BY <1>5, <1>7, <1>8, <1>9, <1>10, <1>11

\* What the answer of the provider does to the request.
LEMMA AnswerEffect ==
  ASSUME TypeOK, NEW k \in Keys, NEW c \in Calls \cup {None}, Answer(k, c)
  PROVE  /\ request' \in [Keys -> RequestRow]
         /\ \A j \in Keys \ {k} : request'[j] = request[j]
         /\ request'[k].sdp = request[k].sdp
         /\ \/ request'[k].step = "confirm" /\ request'[k].call = c
            \/ request'[k].step = "uncertain"
<1> DEFINE r == request[k]
           confirmed == [r EXCEPT !.step = "confirm", !.call = c]
<1>1. confirmed = [x \in DOMAIN r |-> IF x = "call" THEN c ELSE IF x = "step" THEN "confirm" ELSE r[x]]
  OBVIOUS
<1>2. r \in RequestRow
  BY Rows
<1>3. request' = [request EXCEPT ![k] = confirmed] \/ request' = [request EXCEPT ![k].step = "uncertain"]
  BY DEF Answer, Unanswered
<1> HIDE DEF confirmed
<1>4. /\ confirmed \in RequestRow /\ confirmed.step = "confirm" /\ confirmed.call = c
      /\ confirmed.sdp = r.sdp
  BY <1>1, <1>2 DEF RequestRow
<1>5. QED BY <1>3, <1>4, Rows DEF RequestRow

\* A call is placed by a key that has placed none, and whose session is live.
LEMMA PlaceCallKeepsIInv ==
  ASSUME IInv, NEW k \in Keys, NEW c \in Calls, NEW echo \in BOOLEAN, PlaceCall(k, c, echo)
  PROVE  IInv'
<1> USE DEF IInv
<1>0. /\ request[k].step = "post" /\ commands[k].action = "connect"
      /\ calls[c].phase = "none" /\ calls[c] = NoCall
      /\ k \notin performed /\ Live(k) /\ k # None /\ k \in Sessions
      /\ \A d \in Calls : calls[d].by # k
  BY Names DEF PlaceCall, Placed, Settling
<1>1. /\ calls' \in [Calls -> CallRow]
      /\ calls'[c].phase = "live" /\ calls'[c].direction = "outbound" /\ calls'[c].by = k
      /\ calls'[c].given = {}
      /\ \A d \in Calls \ {c} : calls'[d] = calls[d]
  <2> DEFINE row == [NoCall EXCEPT !.phase = "live", !.direction = "outbound", !.by = k, !.echo = echo]
  <2>1. row = [phase |-> "live", direction |-> "outbound", by |-> k, echo |-> echo,
               answered |-> FALSE, given |-> {}]
    <3>1. row = [x \in DOMAIN NoCall |->
                   IF x = "echo" THEN echo ELSE IF x = "by" THEN k
                   ELSE IF x = "direction" THEN "outbound"
                   ELSE IF x = "phase" THEN "live" ELSE NoCall[x]]
      OBVIOUS
    <3> HIDE DEF row
    <3>2. QED BY <3>1 DEF NoCall
  <2>2. calls' = [calls EXCEPT ![c] = row]
    BY DEF PlaceCall
  <2> HIDE DEF row
  <2>3. QED BY <2>1, <2>2, Rows DEF CallRow
<1>2. /\ request' \in [Keys -> RequestRow]
      /\ \A j \in Keys \ {k} : request'[j] = request[j]
      /\ request'[k].sdp = request[k].sdp
      /\ \/ request'[k].step = "confirm" /\ request'[k].call = c
         \/ request'[k].step = "uncertain"
  BY AnswerEffect DEF PlaceCall
<1>3. performed' = performed \cup {k} /\ UNCHANGED <<sessions, commands, reported>>
  BY DEF PlaceCall
<1>4. TypeOK'
  BY <1>1, <1>2, <1>3, Rows DEF TypeOK, SessionRow, CommandRow, RequestRow, CallRow
<1>5. Reserved'
  BY <1>3 DEF Reserved, Present, Live
<1>6. Placed'
  BY <1>0, <1>1, <1>3, Names DEF Placed
<1>7. \A s \in Sessions : sessions[s].call # c /\ ~(c \in Sessions /\ Present(c))
  BY <1>0, Names DEF Bound
<1>8. Bound'
  BY <1>1, <1>3, <1>7, Names, Rows DEF Bound, Present, SessionRow
<1>9. EndIsTrue'
  BY <1>0, <1>1, <1>3, <1>7, Names, Rows DEF EndIsTrue, Ended, Live, SessionRow
<1>10. Answered'
  BY <1>0, <1>1, <1>3 DEF Answered, NoCall
<1>11. \A j \in Keys : Settling(j)'
  <2>1. Settling(k)'
    BY <1>0, <1>1, <1>2, <1>3, Names DEF Settling
  <2>2. ASSUME NEW j \in Keys \ {k} PROVE Settling(j)'
    <3>1. request[j].step = "confirm" => request[j].call \in Calls
      BY DEF Settling
    <3>2. request[j].step = "confirm" => request[j].call # c
      <4>1. CASE commands[j].action = "connect"
        BY <1>0, <4>1, Names DEF Settling, NoCall
      <4>2. CASE commands[j].action # "connect"
        BY <1>7, <4>2 DEF Settling
      <4>3. QED BY <4>1, <4>2
    <3>3. QED BY <1>1, <1>2, <1>3, <3>1, <3>2 DEF Settling, Live
  <2>3. QED BY <2>1, <2>2
<1>12. QED BY <1>4, <1>5, <1>6, <1>8, <1>9, <1>10, <1>11

\* A call that goes forward, or begins without the service.
LEMMA CallsGoOnKeepIInv ==
  ASSUME IInv, NEW c \in Calls, UNCHANGED <<sessions, commands, request, performed, reported>>,
         calls' \in [Calls -> CallRow],
         \A d \in Calls \ {c} : calls'[d] = calls[d],
         calls'[c].by = calls[c].by, calls'[c].echo = calls[c].echo,
         calls'[c].given = calls[c].given,
         calls'[c].phase \in {"live", "ended"},
         calls[c].phase = "ended" => calls'[c].phase = "ended",
         calls'[c].direction = "outbound" => calls[c].direction = "outbound"
  PROVE  IInv'
<1> USE DEF IInv
<1>1. TypeOK'
  BY Rows DEF TypeOK, SessionRow, CommandRow, RequestRow, CallRow
<1>2. Reserved'
  BY DEF Reserved, Present, Live
<1>3. Placed'
  BY DEF Placed
<1>4. Bound'
  <2>1. \A d \in Calls : /\ calls'[d].by = calls[d].by /\ calls'[d].echo = calls[d].echo
                         /\ calls[d].phase # "none" => calls'[d].phase # "none"
    OBVIOUS
  <2>2. \A s \in Sessions : sessions[s].call \in Calls \cup {None}
    BY Rows DEF SessionRow
  <2>3. QED BY <2>1, <2>2, Names DEF Bound, Present
<1>5. EndIsTrue'
  BY Rows DEF EndIsTrue, Ended, SessionRow
<1>6. Answered'
  BY DEF Answered
<1>7. \A j \in Keys : Settling(j)'
  BY DEF Settling, Live
<1>8. QED BY <1>1, <1>2, <1>3, <1>4, <1>5, <1>6, <1>7

LEMMA IncomingCallKeepsIInv ==
  ASSUME IInv, NEW c \in Calls, IncomingCall(c)
  PROVE  IInv'
<1>1. calls[c] = NoCall
  BY DEF IInv, Placed, IncomingCall
<1> DEFINE row == [NoCall EXCEPT !.phase = "live", !.direction = "inbound"]
<1>2. row = [phase |-> "live", direction |-> "inbound", by |-> None, echo |-> FALSE,
             answered |-> FALSE, given |-> {}]
  <2>1. row = [x \in DOMAIN NoCall |-> IF x = "direction" THEN "inbound"
                                       ELSE IF x = "phase" THEN "live" ELSE NoCall[x]]
    OBVIOUS
  <2> HIDE DEF row
  <2>2. QED BY <2>1 DEF NoCall
<1>3. calls' = [calls EXCEPT ![c] = row]
  BY DEF IncomingCall
<1> HIDE DEF row
<1>4. /\ calls' \in [Calls -> CallRow]
      /\ \A d \in Calls \ {c} : calls'[d] = calls[d]
      /\ calls'[c] = row
  BY <1>2, <1>3, Rows DEF CallRow, IInv
<1>5. QED
  BY <1>1, <1>2, <1>4, CallsGoOnKeepIInv DEF IncomingCall, NoCall

LEMMA RecipientAnswersKeepsIInv ==
  ASSUME IInv, NEW c \in Calls, RecipientAnswers(c)
  PROVE  IInv'
<1>1. /\ calls' \in [Calls -> CallRow]
      /\ \A d \in Calls \ {c} : calls'[d] = calls[d]
      /\ calls'[c].by = calls[c].by /\ calls'[c].echo = calls[c].echo
      /\ calls'[c].given = calls[c].given /\ calls'[c].phase = "live"
      /\ calls'[c].direction = calls[c].direction
  BY Rows DEF RecipientAnswers, CallRow, IInv
<1>2. QED BY <1>1, CallsGoOnKeepIInv DEF RecipientAnswers

LEMMA RecipientHangsUpKeepsIInv ==
  ASSUME IInv, NEW c \in Calls, RecipientHangsUp(c)
  PROVE  IInv'
<1>1. /\ calls' \in [Calls -> CallRow]
      /\ \A d \in Calls \ {c} : calls'[d] = calls[d]
      /\ calls'[c].by = calls[c].by /\ calls'[c].echo = calls[c].echo
      /\ calls'[c].given = calls[c].given /\ calls'[c].phase = "ended"
      /\ calls'[c].direction = calls[c].direction
  BY Rows DEF RecipientHangsUp, CallRow, IInv
<1>2. QED BY <1>1, CallsGoOnKeepIInv DEF RecipientHangsUp

\* The provider acts on the session's call, and gets the session's answer.
LEMMA PerformActionKeepsIInv ==
  ASSUME IInv, NEW k \in Keys, PerformAction(k)
  PROVE  IInv'
<1> USE DEF IInv
<1> DEFINE s == commands[k].session
           c == request[k].call
           sdp == request[k].sdp
           action == commands[k].action
<1>0. /\ request[k].step = "post" /\ action # "connect" /\ c \in Calls /\ calls[c].phase = "live"
      /\ s \in Sessions /\ sessions[s].call = c /\ k \notin performed
      /\ sdp \in Answers \cup {None} /\ (sdp # None => sessions[s].answer = sdp)
  BY Rows DEF PerformAction, Settling, RequestRow
<1>1. /\ request' \in [Keys -> RequestRow]
      /\ \A j \in Keys \ {k} : request'[j] = request[j]
      /\ request'[k].sdp = sdp
      /\ \/ request'[k].step = "confirm" /\ request'[k].call = c
         \/ request'[k].step = "uncertain"
  BY <1>0, AnswerEffect DEF PerformAction
<1>2. performed' = performed \cup {k} /\ UNCHANGED <<sessions, commands, reported>>
  BY DEF PerformAction
<1>3. /\ calls' \in [Calls -> CallRow]
      /\ \A d \in Calls \ {c} : calls'[d] = calls[d]
      /\ calls'[c].direction = calls[c].direction /\ calls'[c].by = calls[c].by
      /\ calls'[c].echo = calls[c].echo
      /\ calls'[c].given = calls[c].given \cup ({sdp} \ {None})
      /\ calls'[c].phase = IF action \in {"reject", "terminate"} THEN "ended" ELSE calls[c].phase
  <2> DEFINE old == calls[c]
             row == [calls[c] EXCEPT !.answered = @ \/ action = "accept",
                                !.given = @ \cup ({sdp} \ {None}),
                                !.phase = IF action \in {"reject", "terminate"} THEN "ended" ELSE @]
  <2>1. old \in CallRow
    BY <1>0, Rows
  <2>2. row = [x \in DOMAIN old |->
                 IF x = "phase"
                 THEN IF action \in {"reject", "terminate"} THEN "ended" ELSE old.phase
                 ELSE IF x = "given" THEN old.given \cup ({sdp} \ {None})
                 ELSE IF x = "answered" THEN old.answered \/ action = "accept" ELSE old[x]]
    OBVIOUS
  <2>3. calls' = [calls EXCEPT ![c] = row]
    BY DEF PerformAction
  <2> HIDE DEF row, old, action, sdp, c
  <2>4. /\ row \in CallRow /\ row.direction = old.direction /\ row.by = old.by
        /\ row.echo = old.echo /\ row.given = old.given \cup ({sdp} \ {None})
        /\ row.phase = IF action \in {"reject", "terminate"} THEN "ended" ELSE old.phase
    BY <1>0, <2>1, <2>2 DEF CallRow
  <2>5. QED BY <1>0, <2>3, <2>4, Rows DEF old
<1> HIDE DEF s, c, sdp, action
<1>4. TypeOK'
  BY <1>1, <1>2, <1>3, Rows DEF TypeOK, SessionRow, CommandRow, RequestRow, CallRow
<1>5. Reserved'
  BY <1>2 DEF Reserved, Present, Live
<1>6. \A d \in Calls : /\ calls'[d].by = calls[d].by /\ calls'[d].echo = calls[d].echo
                       /\ calls'[d].direction = calls[d].direction
                       /\ calls'[d].phase = "none" => calls[d].phase = "none" /\ d # c
                       /\ calls[d].phase = "ended" => calls'[d].phase = "ended"
  BY <1>0, <1>3
<1>7. Placed'
  BY <1>2, <1>3, <1>6 DEF Placed
<1>8. \A t \in Sessions : sessions[t].call \in Calls \cup {None}
  BY Rows DEF SessionRow
<1>9. Bound'
  BY <1>2, <1>6, <1>8, Names DEF Bound, Present
<1>10. EndIsTrue'
  BY <1>2, <1>6, <1>8 DEF EndIsTrue, Ended
<1>11. Answered'
  BY <1>0, <1>2, <1>3 DEF Answered
<1>12. \A j \in Keys : Settling(j)'
  <2>1. Settling(k)'
    BY <1>0, <1>1, <1>2, <1>3 DEF Settling, s, c, sdp, action
  <2>2. ASSUME NEW j \in Keys \ {k} PROVE Settling(j)'
    BY <1>1, <1>2, <1>6 DEF Settling, Live
  <2>3. QED BY <2>1, <2>2
<1>13. QED BY <1>4, <1>5, <1>7, <1>9, <1>10, <1>11, <1>12

\* Nothing a command does to a state brings an ended session back.
LEMMA ResolvedEffect ==
  ASSUME NEW action \in Actions, NEW state \in SessionState \ {"absent"}
  PROVE  /\ Resolved(action, state) \in SessionState \ {"absent"}
         /\ state \in terminal => Resolved(action, state) = state
         /\ Resolved(action, state) \in terminal =>
              state \in terminal \/ action \in {"reject", "terminate"}
         /\ action = "connect" => Resolved(action, state) = state
BY SessionStates DEF Resolved, After, Actions, terminal

\* A confirmed command binds the session of a connect to the call it placed.
LEMMA ConfirmKeepsIInv ==
  ASSUME IInv, NEW k \in Keys, Confirm(k)
  PROVE  IInv'
<1> USE DEF IInv
<1> DEFINE s == commands[k].session
           c == request[k].call
           action == commands[k].action
           state == Resolved(action, sessions[s].state)
<1>0. /\ request[k].step = "confirm" /\ c \in Calls /\ c # None /\ k \in performed
      /\ s \in Sessions /\ action \in Actions
      /\ action # "connect" => sessions[s].call = c
      /\ action = "connect" => s = k /\ calls[c].by = k
      /\ sessions[s].call = None => \A t \in Sessions : sessions[t].call # c
  BY Names DEF Confirm, Settling
<1>1. Present(s)
  BY <1>0 DEF Reserved, NoSession
<1>2. sessions[s].state \in SessionState \ {"absent"}
  BY <1>0, <1>1, Rows DEF SessionRow, Present
<1>3. sessions[s].call \in {None, c} /\ (sessions[s].call = None => s = k /\ action = "connect")
  BY <1>0, Names, Rows DEF Bound, Placed, SessionRow
<1>4. /\ sessions' \in [Sessions -> SessionRow]
      /\ \A t \in Sessions \ {s} : sessions'[t] = sessions[t]
      /\ sessions'[s].call = c /\ sessions'[s].state = state
      /\ sessions'[s].answer = sessions[s].answer
      /\ sessions'[s].direction = sessions[s].direction
  <2> DEFINE old == sessions[s]
             row == [sessions[s] EXCEPT !.call = IF @ = None THEN c ELSE @, !.state = Resolved(action, @)]
  <2>1. old \in SessionRow
    BY <1>0, Rows
  <2>2. row = [x \in DOMAIN old |-> IF x = "state" THEN Resolved(action, old.state)
                                    ELSE IF x = "call" THEN IF old.call = None THEN c ELSE old.call
                                    ELSE old[x]]
    OBVIOUS
  <2>3. sessions' = [sessions EXCEPT ![s] = row]
    BY DEF Confirm
  <2>4. state \in SessionState
    BY <1>0, <1>2, ResolvedEffect
  <2> HIDE DEF row, action, s, c
  <2>5. /\ row \in SessionRow /\ row.call = c /\ row.state = state
        /\ row.answer = old.answer /\ row.direction = old.direction
    BY <1>0, <1>3, <2>1, <2>2, <2>4 DEF SessionRow
  <2>6. QED BY <1>0, <2>3, <2>5, Rows
<1>5. /\ commands' \in [Keys -> CommandRow]
      /\ \A j \in Keys \ {k} : commands'[j] = commands[j]
      /\ commands'[k].state = "accepted" /\ commands'[k].session = s /\ commands'[k].action = action
  BY Rows DEF Confirm, CommandRow
<1>6. /\ request' \in [Keys -> RequestRow]
      /\ \A j \in Keys \ {k} : request'[j] = request[j]
      /\ request'[k].step = "done" /\ request'[k].sdp = None
  BY Rows, DoneRow DEF Confirm
<1>7. UNCHANGED <<calls, performed, reported>>
  BY DEF Confirm
<1>8. /\ state # "absent"
      /\ sessions[s].state \in terminal => state \in terminal
      /\ state \in terminal => sessions[s].state \in terminal \/ action \in {"reject", "terminate"}
  BY <1>0, <1>2, ResolvedEffect
<1>9. action \in {"reject", "terminate"} => calls[c].phase = "ended"
  BY <1>0 DEF Settling
<1> HIDE DEF s, c, action, state
<1>10. TypeOK'
  BY <1>4, <1>5, <1>6, <1>7, Rows DEF TypeOK, SessionRow, CommandRow, RequestRow, CallRow
<1>11. /\ \A t \in Sessions : (Present(t)' <=> Present(t)) /\ (Live(t)' => Live(t))
       /\ \A t \in Sessions \ {s} : Live(t)' <=> Live(t)
  BY <1>0, <1>1, <1>4, <1>8 DEF Present, Live
<1>12. Reserved'
  <2>1. \A j \in Keys : commands'[j].action = commands[j].action
    BY <1>5 DEF action
  <2>2. \A t \in Sessions : ~Present(t) => t # s
    BY <1>1
  <2>3. QED BY <1>0, <1>4, <1>11, <2>1, <2>2, Names DEF Reserved
<1>13. Placed'
  BY <1>5, <1>7, Rows DEF Placed, CallRow, action
<1>14. Bound'
  <2>1. \A t \in Sessions : sessions'[t].call = IF t = s THEN c ELSE sessions[t].call
    BY <1>0, <1>4
  <2>2. \A t \in Sessions \ {s} : sessions[t].call # c
    BY <1>0, <1>3 DEF Bound
  <2>3. s \in Keys => calls[c].by = s
    BY <1>0, <1>3 DEF Bound
  <2>4. s \in Calls => s = c
    BY <1>0, <1>1, <1>3, Names DEF Bound
  <2>5. calls[c].phase # "none"
    BY <1>0, <1>3, Names DEF Bound, Placed, NoCall
  <2>6. QED BY <1>7, <1>11, <2>1, <2>2, <2>3, <2>4, <2>5, Names DEF Bound
<1>15. EndIsTrue'
  <2>1. ASSUME NEW t \in Sessions, t # s, sessions'[t].state \in terminal PROVE Ended(t)'
    BY <1>4, <1>7, <2>1 DEF EndIsTrue, Ended
  <2>2. ASSUME state \in terminal PROVE calls[c].phase = "ended"
    BY <1>0, <1>3, <1>8, <1>9, <2>2 DEF EndIsTrue, Ended
  <2>3. QED BY <1>0, <1>4, <1>7, <2>1, <2>2 DEF EndIsTrue, Ended
<1>16. Answered'
  BY <1>0, <1>3, <1>4, <1>7, Names DEF Answered
<1>17. \A j \in Keys : Settling(j)'
  <2>1. Settling(k)'
    BY <1>0, <1>5, <1>6, <1>7 DEF Settling, s, action
  <2>2. ASSUME NEW j \in Keys \ {k} PROVE Settling(j)'
    <3>1. commands[j].action = "connect" /\ request[j].step = "post" => j # s
      <4>1. ASSUME commands[j].action = "connect", request[j].step = "post", j = s PROVE FALSE
        <5>1. sessions[j].call = c
          BY <1>0, <4>1
        <5>2. calls[c].by = j
          BY <1>0, <5>1 DEF Bound
        <5>3. QED BY <1>0, <4>1, <5>2, Names DEF Placed, Settling
      <4>2. QED BY <4>1
    <3>2. \A t \in Sessions : /\ sessions[t].call # None => sessions'[t].call = sessions[t].call
                              /\ sessions'[t].answer = sessions[t].answer
      BY <1>0, <1>3, <1>4
    <3>3. QED BY <1>5, <1>6, <1>7, <1>11, <3>1, <3>2, Names DEF Settling
  <2>3. QED BY <2>1, <2>2
<1>18. QED BY <1>10, <1>12, <1>13, <1>14, <1>15, <1>16, <1>17

\* A refused connect placed no call: its session ends without one.
LEMMA ReleaseKeepsIInv ==
  ASSUME IInv, NEW k \in Keys, Release(k)
  PROVE  IInv'
<1> USE DEF IInv
<1>0. /\ request[k].step = "release" /\ commands[k].action = "connect" /\ commands[k].session = k
      /\ k \notin performed /\ k \in Sessions /\ k \notin Calls /\ Present(k)
      /\ \A c \in Calls : calls[c].by # k
      /\ sessions[k].call = None
  <2>1. /\ request[k].step = "release" /\ commands[k].action = "connect"
        /\ commands[k].session = k /\ k \notin performed
    BY DEF Release, Settling
  <2>2. \A c \in Calls : calls[c].by # k
    BY <2>1, Names DEF Placed
  <2>3. QED BY <2>1, <2>2, Names, Rows DEF Reserved, Bound, SessionRow
<1>1. /\ sessions' \in [Sessions -> SessionRow]
      /\ \A t \in Sessions \ {k} : sessions'[t] = sessions[t]
      /\ sessions'[k].state = IF sessions[k].state = "initiating" THEN "failed" ELSE sessions[k].state
      /\ sessions'[k].call = None
      /\ sessions'[k].answer = sessions[k].answer /\ sessions'[k].direction = sessions[k].direction
  <2> DEFINE state == IF sessions[k].state = "initiating" THEN "failed" ELSE sessions[k].state
  <2>1. state \in SessionState
    BY <1>0, SessionStates, Rows DEF SessionRow
  <2>2. sessions' = [sessions EXCEPT ![k].state = state]
    BY DEF Release
  <2> HIDE DEF state
  <2>3. QED BY <1>0, <2>1, <2>2, Rows DEF SessionRow, state
<1>2. /\ request' \in [Keys -> RequestRow]
      /\ \A j \in Keys \ {k} : request'[j] = request[j]
      /\ request'[k].step = "done" /\ request'[k].sdp = None
  BY Rows, DoneRow DEF Release
<1>3. UNCHANGED <<commands, calls, performed, reported>>
  BY DEF Release
<1>4. TypeOK'
  BY <1>1, <1>2, <1>3, Rows DEF TypeOK, SessionRow, CommandRow, RequestRow, CallRow
<1>5. /\ \A t \in Sessions : (Present(t)' <=> Present(t)) /\ (Live(t)' => Live(t))
      /\ \A t \in Sessions \ {k} : Live(t)' <=> Live(t)
  BY <1>0, <1>1 DEF Present, Live, terminal
<1>6. Reserved'
  BY <1>0, <1>1, <1>3, <1>5, Names DEF Reserved
<1>7. Placed'
  BY <1>3 DEF Placed
<1>8. Bound'
  <2>1. \A t \in Sessions : sessions'[t].call = sessions[t].call
    BY <1>0, <1>1
  <2>2. QED BY <1>3, <1>5, <2>1, Names DEF Bound
<1>9. EndIsTrue'
  BY <1>0, <1>1, <1>3 DEF EndIsTrue, Ended
<1>10. Answered'
  BY <1>0, <1>1, <1>3 DEF Answered
<1>11. \A j \in Keys : Settling(j)'
  <2>1. Settling(k)'
    BY <1>0, <1>2, <1>3 DEF Settling
  <2>2. ASSUME NEW j \in Keys \ {k} PROVE Settling(j)'
    BY <1>0, <1>1, <1>2, <1>3, <1>5, Names DEF Settling
  <2>3. QED BY <2>1, <2>2
<1>12. QED BY <1>4, <1>6, <1>7, <1>8, <1>9, <1>10, <1>11

\* The session an event finds: the call's own, the one its key reserved, or a new one.
LEMMA SessionOfCall ==
  ASSUME IInv, NEW c \in Calls, calls[c].phase # "none"
  PROVE  LET s == SessionOf(c) IN
         /\ s \in Sessions
         /\ \/ sessions[s].call = c /\ Present(s)
            \/ /\ sessions[s].call = None /\ \A t \in Sessions : sessions[t].call # c
               /\ \/ s \in Keys /\ Present(s) /\ calls[c].by = s
                  \/ s = c /\ ~Present(s) /\ ~calls[c].echo
<1> USE DEF IInv
<1> DEFINE s == SessionOf(c)
<1>1. CASE Known(c) # {}
  <2>1. s \in Known(c)
    BY <1>1 DEF SessionOf
  <2>2. s \in Sessions /\ sessions[s].call = c
    BY <2>1 DEF Known
  <2>3. QED BY <2>2, Names DEF Reserved, NoSession
<1>2. CASE Known(c) = {}
  <2>1. \A t \in Sessions : sessions[t].call # c
    BY <1>2 DEF Known
  <2>2. CASE Correlated(c) # {}
    <3>1. s \in Correlated(c)
      BY <1>2, <2>2 DEF SessionOf
    <3>2. s \in Keys /\ calls[c].by = s /\ sessions[s].direction = "outbound" /\ sessions[s].call = None
      BY <3>1 DEF Correlated
    <3>3. Present(s)
      BY <3>2, Names DEF Reserved, NoSession
    <3>4. QED BY <2>1, <3>2, <3>3, Names
  <2>3. CASE Correlated(c) = {}
    <3>1. s = c /\ s \in Sessions
      BY <1>2, <2>3, Names DEF SessionOf
    <3>2. ~Present(c) /\ sessions[c].call = None
      BY <2>1, <3>1, Names DEF Bound, Reserved, NoSession
    <3>3. ~calls[c].echo
      <4>1. ASSUME calls[c].echo PROVE FALSE
        <5> DEFINE k == calls[c].by
        <5>1. k \in Keys /\ Present(k) /\ sessions[k].direction = "outbound"
          BY <4>1, Rows DEF Placed, Reserved, CallRow
        <5>2. sessions[k].call = None
          <6>1. ASSUME sessions[k].call # None PROVE sessions[k].call = c
            BY <5>1, <6>1, Names, Rows DEF Bound, Placed, SessionRow
          <6>2. QED BY <2>1, <5>1, <6>1, Names
        <5>3. k \in Correlated(c)
          BY <4>1, <5>1, <5>2 DEF Correlated
        <5>4. QED BY <2>3, <5>3
      <4>2. QED BY <4>1
    <3>4. QED BY <2>1, <3>1, <3>2, <3>3
  <2>4. QED BY <2>2, <2>3
<1>3. QED BY <1>1, <1>2

LEMMA ReportedEffect ==
  ASSUME NEW c \in Calls, NEW event \in Events, NEW direction, Happened(c, event)
  PROVE  LET next == Reported(event, direction) IN
         /\ next \in SessionState \ {"absent"}
         /\ next \in terminal => calls[c].phase = "ended"
BY SessionStates, CallAssumption
   DEF CallAssumption, AllEvents, Reported, Happened, terminal

\* An event is applied to the session that is bound to its call, or gets bound to it.
LEMMA WebhookKeepsIInv ==
  ASSUME IInv, NEW c \in Calls, NEW event \in Events, Webhook(c, event)
  PROVE  IInv'
<1> USE DEF IInv
<1>s. SessionOf(c) \in Sessions
  BY SessionOfCall DEF Webhook, Happened
<1>p. PICK s \in Sessions : s = SessionOf(c)
  BY <1>s
<1> DEFINE row == RowOf(c)
           next == Reported(event, row.direction)
           state == IF Advances(row.state, next) THEN next ELSE row.state
<1>0. /\ s \in Sessions /\ calls[c].phase # "none"
      /\ \/ sessions[s].call = c /\ Present(s)
         \/ /\ sessions[s].call = None /\ \A t \in Sessions : sessions[t].call # c
            /\ \/ s \in Keys /\ Present(s) /\ calls[c].by = s
               \/ s = c /\ ~Present(s) /\ ~calls[c].echo
  BY <1>p, SessionOfCall DEF Webhook, Happened
<1>1. /\ row \in SessionRow /\ row.state # "absent"
      /\ Present(s) => row = sessions[s]
      /\ ~Present(s) => row.state = "initiating" /\ row.answer = None /\ row.call = None
  <2>1. CASE Present(s)
    BY <1>p, <1>0, <2>1, Rows DEF RowOf, Present
  <2>2. CASE ~Present(s)
    <3> DEFINE new == [NoSession EXCEPT !.state = "initiating", !.direction = calls[c].direction]
    <3>1. new = [state |-> "initiating", direction |-> calls[c].direction, owner |-> None,
                 call |-> None, answer |-> None]
      <4>1. new = [x \in DOMAIN NoSession |->
                     IF x = "direction" THEN calls[c].direction
                     ELSE IF x = "state" THEN "initiating" ELSE NoSession[x]]
        OBVIOUS
      <4> HIDE DEF new
      <4>2. QED BY <4>1 DEF NoSession
    <3>2. row = new
      BY <1>p, <2>2 DEF RowOf, Present
    <3> HIDE DEF new, row
    <3>3. QED BY <2>2, <3>1, <3>2, SessionStates, Rows DEF SessionRow, CallRow
  <2>3. QED BY <2>1, <2>2
<1>2. /\ next \in SessionState \ {"absent"}
      /\ next \in terminal => calls[c].phase = "ended"
  BY ReportedEffect DEF Webhook
<1>3. /\ sessions' \in [Sessions -> SessionRow]
      /\ \A t \in Sessions \ {s} : sessions'[t] = sessions[t]
      /\ sessions'[s].call = c /\ sessions'[s].state = state
      /\ sessions'[s].answer = row.answer /\ sessions'[s].direction = row.direction
  <2> DEFINE new == [row EXCEPT !.call = c, !.state = IF Advances(@, next) THEN next ELSE @]
  <2>1. new = [x \in DOMAIN row |-> IF x = "state" THEN state ELSE IF x = "call" THEN c ELSE row[x]]
    OBVIOUS
  <2>2. sessions' = [sessions EXCEPT ![s] = new]
    BY <1>p DEF Webhook
  <2>3. state \in SessionState
    BY <1>1, <1>2 DEF SessionRow
  <2> HIDE DEF new, state, row
  <2>4. /\ new \in SessionRow /\ new.call = c /\ new.state = state
        /\ new.answer = row.answer /\ new.direction = row.direction
    BY <1>1, <2>1, <2>3 DEF SessionRow
  <2>5. QED BY <1>0, <2>2, <2>4, Rows
<1>4. /\ UNCHANGED <<commands, request, calls, performed>>
      /\ reported' \subseteq Calls \X Events
  BY Rows DEF Webhook
<1>5. /\ state # "absent"
      /\ row.state \in terminal => state = row.state
      /\ state \in terminal => row.state \in terminal \/ calls[c].phase = "ended"
  BY <1>1, <1>2 DEF Advances
<1> HIDE DEF row, next, state
<1>6. TypeOK'
  BY <1>3, <1>4, Rows DEF TypeOK, SessionRow, CommandRow, RequestRow, CallRow
<1>7. /\ \A t \in Sessions \ {s} : (Present(t)' <=> Present(t)) /\ (Live(t)' <=> Live(t))
      /\ Present(s)' /\ (Present(s) /\ Live(s)' => Live(s))
  BY <1>0, <1>1, <1>3, <1>5 DEF Present, Live
<1>8. Reserved'
  <2>1. \A k \in Keys : Present(k)' <=> Present(k)
    BY <1>0, <1>7, Names
  <2>2. \A k \in Keys : Live(k)' => Live(k)
    BY <1>0, <1>7, Names
  <2>3. \A k \in Keys : Present(k) => sessions'[k].direction = sessions[k].direction
    BY <1>1, <1>3, Names
  <2>4. QED BY <1>3, <1>4, <1>7, <2>1, <2>2, <2>3 DEF Reserved
<1>9. Placed'
  BY <1>4 DEF Placed
<1>10. Bound'
  <2>1. \A t \in Sessions : sessions'[t].call = IF t = s THEN c ELSE sessions[t].call
    BY <1>0, <1>3
  <2>2. \A t \in Sessions \ {s} : sessions[t].call # c
    BY <1>0, Names DEF Bound
  <2>3. s \in Keys => calls[c].by = s
    BY <1>0, Names DEF Bound
  <2>4. s \in Calls => s = c /\ ~calls[c].echo
    BY <1>0, Names DEF Bound
  <2>5. QED BY <1>0, <1>4, <1>7, <2>1, <2>2, <2>3, <2>4, Names DEF Bound
<1>11. EndIsTrue'
  <2>1. ASSUME NEW t \in Sessions, t # s, sessions'[t].state \in terminal PROVE Ended(t)'
    BY <1>3, <1>4, <2>1 DEF EndIsTrue, Ended
  <2>2. ASSUME state \in terminal PROVE calls[c].phase = "ended"
    <3>1. row.state \in terminal => Present(s)
      BY <1>1 DEF terminal
    <3>2. QED BY <1>0, <1>1, <1>5, <2>2, <3>1, Names DEF EndIsTrue, Ended
  <2>3. QED BY <1>0, <1>3, <1>4, <2>1, <2>2, Names DEF EndIsTrue, Ended
<1>12. \A t \in Sessions : sessions[t].call # None =>
         sessions'[t].call = sessions[t].call /\ sessions'[t].answer = sessions[t].answer
  BY <1>0, <1>1, <1>3, Names DEF Reserved, NoSession
<1>13. Answered'
  BY <1>4, <1>12, Names DEF Answered
<1>14. \A j \in Keys : Settling(j)'
  <2>1. ASSUME NEW j \in Keys, request[j].step = "post", commands[j].action = "connect"
        PROVE  Live(j)'
    <3>1. Live(j) /\ j \notin performed
      BY <2>1 DEF Settling
    <3>2. j # s
      <4>1. ASSUME j = s PROVE calls[c].by = j
        BY <1>0, <4>1, Names DEF Bound
      <4>2. QED BY <3>1, <4>1, Names DEF Placed
    <3>3. QED BY <1>7, <3>1, <3>2, Names
  <2>2. ASSUME NEW j \in Keys PROVE Settling(j)'
    BY <1>4, <1>12, <2>1, Names DEF Settling
  <2>3. QED BY <2>2
<1>15. QED BY <1>6, <1>8, <1>9, <1>10, <1>11, <1>13, <1>14

LEMMA NextKeepsIInv == IInv /\ [Next]_vars => IInv'
<1> SUFFICES ASSUME IInv, [Next]_vars PROVE IInv'
  OBVIOUS
<1>1. ASSUME NEW u \in Users, NEW s \in Sessions, Claim(u, s) PROVE IInv'
  BY <1>1, ClaimKeepsIInv
<1>2. ASSUME NEW k \in Keys, NEW u \in Users, ReserveSome(k, u) PROVE IInv'
  <2>1. ASSUME NEW s \in Sessions, NEW action \in {"pre_accept", "accept"}, NEW sdp \in Answers,
               ReserveAction(k, u, s, action, sdp)
        PROVE  IInv'
    <3>1. action \in Actions \ {"connect"} /\ sdp \in Answers \cup {None}
      BY DEF Actions
    <3>2. QED BY <2>1, <3>1, ReserveActionKeepsIInv
  <2>2. ASSUME NEW s \in Sessions, NEW action \in {"reject", "terminate"},
               ReserveAction(k, u, s, action, None)
        PROVE  IInv'
    <3>1. action \in Actions \ {"connect"} /\ None \in Answers \cup {None}
      BY DEF Actions
    <3>2. QED BY <2>2, <3>1, ReserveActionKeepsIInv
  <2>3. QED BY <1>2, <2>1, <2>2, ReserveConnectKeepsIInv DEF ReserveSome
<1>3. ASSUME NEW k \in Keys, RequestStep(k) PROVE IInv'
  <2>1. ASSUME NEW c \in Calls, NEW echo \in Echoes, PlaceCall(k, c, echo) PROVE IInv'
    <3>1. echo \in BOOLEAN
      BY CallAssumption DEF CallAssumption
    <3>2. QED BY <2>1, <3>1, PlaceCallKeepsIInv
  <2>2. QED
    BY <1>3, <2>1, PerformActionKeepsIInv, ProviderRejectsKeepsIInv, RequestLostKeepsIInv,
       ConfirmKeepsIInv, ConfirmFailsKeepsIInv, OutcomeKeepsIInv, ReleaseKeepsIInv
       DEF RequestStep
<1>4. ASSUME NEW k \in Keys, Sweep(k) \/ Crash(k) PROVE IInv'
  BY <1>4, SweepKeepsIInv, CrashKeepsIInv
<1>5. ASSUME NEW c \in Calls, IncomingCall(c) \/ RecipientAnswers(c) \/ RecipientHangsUp(c)
      PROVE  IInv'
  BY <1>5, IncomingCallKeepsIInv, RecipientAnswersKeepsIInv, RecipientHangsUpKeepsIInv
<1>6. ASSUME NEW c \in Calls, NEW event \in Events, Webhook(c, event) PROVE IInv'
  BY <1>6, WebhookKeepsIInv
<1>7. CASE UNCHANGED vars
  <2>1. /\ TypeOK' /\ Reserved' /\ Placed' /\ Bound' /\ EndIsTrue' /\ Answered'
    BY <1>7 DEF vars, IInv, TypeOK, Reserved, Placed, Bound, EndIsTrue, Ended, Answered, Present, Live
  <2>2. \A k \in Keys : Settling(k)'
    BY <1>7 DEF vars, IInv, Settling, Live
  <2>3. QED BY <2>1, <2>2 DEF IInv
<1>8. QED BY <1>1, <1>2, <1>3, <1>4, <1>5, <1>6, <1>7 DEF Next

-----------------------------------------------------------------------------
(***************************************************************************)
(* The theorems.                                                           *)
(***************************************************************************)

\* What the requests, webhooks and calls of messaging/metaCallService.js and
\* metaCallEvents.js keep true in every reachable state.
THEOREM CallInvariant == Spec => []IInv
<1>1. QED BY InitIInv, NextKeepsIInv, PTL DEF Spec

\* The rows keep the shapes of the schema (metaCallService.js, metaCallEvents.js).
THEOREM CallTypes == Spec => []TypeOK
<1>1. IInv => TypeOK
  BY DEF IInv
<1>2. QED BY <1>1, CallInvariant, PTL

\* A call that is on holds the recipient: the session its connect reserved is live.
LEMMA CallHoldsRecipient ==
  ASSUME IInv, NEW c \in Calls, calls[c].phase = "live", calls[c].direction = "outbound"
  PROVE  calls[c].by \in Keys /\ Live(calls[c].by)
<1> DEFINE k == calls[c].by
<1>1. k \in Keys /\ k # None /\ k \in Sessions /\ Present(k)
  BY Names DEF IInv, Placed, Reserved
<1>2. ~Ended(k)
  <2>1. CASE sessions[k].call = None
    BY <2>1 DEF Ended
  <2>2. CASE sessions[k].call # None
    <3>1. sessions[k].call \in Calls /\ calls[sessions[k].call].by = k
      BY <1>1, <2>2, Rows DEF IInv, Bound, SessionRow
    <3>2. sessions[k].call = c
      BY <1>1, <3>1 DEF IInv, Placed
    <3>3. QED BY <2>2, <3>2 DEF Ended
  <2>3. QED BY <2>1, <2>2
<1>3. QED BY <1>1, <1>2 DEF IInv, EndIsTrue, Present, Live

\* The recipient never has two live calls of the service, whatever answers are lost
\* (metaCallService.js, docs/calling-backend.md:21).
THEOREM OneCall == Spec => []OneCallAtATime
<1>1. IInv => OneCallAtATime
  BY CallHoldsRecipient, Names DEF IInv, Reserved, Placed, OneCallAtATime
<1>2. QED BY <1>1, CallInvariant, PTL

\* A command reports accepted only what was carried out, and failed only what was not.
THEOREM CommandsTellTheTruth == Spec => []CommandIsTrue
<1>1. IInv => CommandIsTrue
  BY DEF IInv, Settling, CommandIsTrue
<1>2. QED BY <1>1, CallInvariant, PTL

\* The provider gets one SDP answer for a call, for the session has one and the call
\* has one session (metaCallService.js, docs/calling-backend.md:23).
THEOREM CallHasOneAnswer == Spec => []OneAnswerPerCall
<1>1. ASSUME IInv, NEW c \in Calls PROVE Cardinality(calls[c].given) <= 1
  <2>1. \A a, b \in calls[c].given : a = b
    BY <1>1, Names DEF IInv, Answered, Bound
  <2>2. CASE calls[c].given = {}
    BY <2>2, FS_EmptySet
  <2>3. CASE calls[c].given # {}
    <3>1. PICK a : a \in calls[c].given
      BY <2>3
    <3>2. calls[c].given = {a}
      BY <2>1, <3>1
    <3>3. Cardinality({a}) = 1
      BY FS_Singleton, Zenon
    <3>4. QED BY <3>2, <3>3
  <2>4. QED BY <2>2, <2>3
<1>2. IInv => OneAnswerPerCall
  BY <1>1 DEF OneAnswerPerCall
<1>3. QED BY <1>2, CallInvariant, PTL

\* A call with the correlation id belongs to the session that reserved the recipient
\* (metaCallEvents.js, docs/calling-backend.md:23).
THEOREM CallFindsItsSession == Spec => []BoundToReserved
<1>1. IInv => BoundToReserved
  BY Names DEF IInv, Bound, Present, Reserved, NoSession, Known, Sessions, BoundToReserved
<1>2. QED BY <1>1, CallInvariant, PTL

\* No step changes the state a session has ended in.
LEMMA EndIsFinal ==
  ASSUME IInv, [Next]_vars, NEW s \in Sessions, sessions[s].state \in terminal
  PROVE  sessions'[s].state = sessions[s].state
<1> USE DEF IInv
<1>0. Present(s) /\ ~Live(s) /\ sessions \in [Sessions -> SessionRow]
  BY Rows DEF Present, Live, terminal
<1>1. ASSUME NEW u \in Users, NEW t \in Sessions, Claim(u, t) PROVE sessions'[s] = sessions[s]
  BY <1>0, <1>1 DEF Claim
<1>2. ASSUME NEW k \in Keys, NEW u \in Users, ReserveConnect(k, u) PROVE sessions'[s] = sessions[s]
  <2>1. k # s
    BY <1>0, <1>2, CallAssumption DEF CallAssumption, ReserveConnect, Reserved, Settling, NoCommand
  <2>2. QED BY <1>0, <1>2, <2>1 DEF ReserveConnect
<1>3. ASSUME NEW k \in Keys, NEW u \in Users, NEW t \in Sessions, NEW action, NEW sdp,
             ReserveAction(k, u, t, action, sdp)
      PROVE  sessions'[s] = sessions[s]
  BY <1>0, <1>3 DEF ReserveAction
<1>4. ASSUME NEW k \in Keys, Confirm(k) PROVE sessions'[s].state = sessions[s].state
  <2> DEFINE t == commands[k].session
             state == Resolved(commands[k].action, sessions[t].state)
             call == IF sessions[t].call = None THEN request[k].call ELSE sessions[t].call
             row == [sessions[t] EXCEPT !.call = call, !.state = state]
  <2>1. sessions' = [sessions EXCEPT ![t] = row]
    BY <1>4 DEF Confirm
  <2>2. t = s => row.state = state
    <3>1. row = [x \in DOMAIN sessions[t] |-> IF x = "state" THEN state
                                              ELSE IF x = "call" THEN call ELSE sessions[t][x]]
      OBVIOUS
    <3> HIDE DEF row
    <3>2. QED BY <1>0, <3>1 DEF SessionRow
  <2>3. t = s => state = sessions[s].state
    BY DEF Resolved
  <2> HIDE DEF row, state
  <2>4. QED BY <1>0, <2>1, <2>2, <2>3
<1>5. ASSUME NEW k \in Keys, Release(k) PROVE sessions'[s].state = sessions[s].state
  BY <1>0, <1>5 DEF Release, terminal, SessionRow
<1>6. ASSUME NEW c \in Calls, NEW event \in Events, Webhook(c, event)
      PROVE  sessions'[s].state = sessions[s].state
  <2> DEFINE row == RowOf(c)
             next == Reported(event, row.direction)
             state == IF Advances(row.state, next) THEN next ELSE row.state
             after == [row EXCEPT !.call = c, !.state = state]
  <2>1. sessions' = [sessions EXCEPT ![SessionOf(c)] = after]
    BY <1>6 DEF Webhook
  <2>2. CASE SessionOf(c) # s
    BY <1>0, <2>1, <2>2
  <2>3. CASE SessionOf(c) = s
    <3>1. row = sessions[s]
      BY <1>0, <2>3 DEF RowOf, Present
    <3>2. state = sessions[s].state
      BY <3>1 DEF Advances
    <3>3. after.state = state
      <4>1. after = [x \in DOMAIN row |-> IF x = "state" THEN state
                                          ELSE IF x = "call" THEN c ELSE row[x]]
        OBVIOUS
      <4> HIDE DEF row, state, after
      <4>2. QED BY <1>0, <3>1, <4>1 DEF SessionRow
    <3> HIDE DEF row, state, after
    <3>4. QED BY <1>0, <2>1, <2>3, <3>2, <3>3
  <2>4. QED BY <2>2, <2>3
<1>7. sessions' = sessions \/ sessions'[s].state = sessions[s].state
  BY <1>1, <1>2, <1>3, <1>4, <1>5, <1>6
     DEF Next, vars, ReserveSome, RequestStep, PlaceCall, PerformAction, ProviderRejects, RequestLost,
         ConfirmFails, Outcome, Sweep, Crash, IncomingCall, RecipientAnswers, RecipientHangsUp
<1>8. QED BY <1>7

\* A session that tells of an end tells the truth, and goes on telling it, whichever
\* answers and webhooks come late (metaCallEvents.js, docs/calling-backend.md:23).
THEOREM SessionEndsOnce == Spec => EndIsTrueAndFinal
<1> DEFINE Kept == \A s \in Sessions :
       /\ sessions'[s].state \in terminal => Ended(s)'
       /\ sessions[s].state \in terminal => sessions'[s].state = sessions[s].state
<1>1. ASSUME IInv, [Next]_vars PROVE Kept
  BY <1>1, NextKeepsIInv, EndIsFinal DEF IInv, EndIsTrue
<1>2. QED BY <1>1, CallInvariant, PTL DEF Spec, EndIsTrueAndFinal
================================================================================
