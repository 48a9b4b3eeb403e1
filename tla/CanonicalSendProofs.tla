------------------------- MODULE CanonicalSendProofs -------------------------
(***************************************************************************)
(* Proofs about CanonicalSend, for any set of callers, keys and requests.  *)
(*                                                                         *)
(* The invariants of the service are not inductive: that a key is called   *)
(* at most once rests on who may still call it.  IInv adds what each       *)
(* status of an attempt says of the provider and of the inbox (KeyInv),    *)
(* what the statement a caller awaits says of its attempt (CallerInv), and *)
(* that an attempt has one creator (OneCreator).                           *)
(***************************************************************************)
EXTENDS CanonicalSend, TLAPS

Sent(k, r) == \E n \in network : n.key = k /\ n.req = r

Stored(k, r) == \E m \in messages : m.key = k /\ m.req = r

\* What the status of an attempt says of its key.
KeyInv(k) ==
  LET a == attempt[k] IN
  /\ a.status = "absent" => a.req = NoReq /\ calls[k] = 0
  /\ a.status # "absent" => a.req \in Requests
  /\ a.status = "reserved" => calls[k] = 0
  /\ a.status \in {"provider_accepted", "accepted"} => Sent(k, a.req)
  /\ a.status = "accepted" => Stored(k, a.req)
  /\ calls[k] <= 1
  /\ \A n \in network : n.key = k => n.req = a.req /\ calls[k] = 1
  /\ \A m \in messages : m.key = k => m.req = a.req /\ a.status = "accepted"

\* The statements that only the caller whose insert succeeded reaches.
Creating == {"dispatch", "send", "accept", "fail"}

\* What the statement a caller awaits says of its attempt.
CallerInv(c) ==
  LET k == job[c].key
      a == attempt[k]
  IN
  /\ pc[c] # "idle" => k \in Keys /\ job[c].req \in Requests /\ result[c] = "none"
  /\ pc[c] \in Creating \cup {"record"} => a.req = job[c].req
  /\ pc[c] = "dispatch" => a.status = "reserved"
  /\ pc[c] \in Creating \ {"dispatch"} => a.status = "dispatching"
  /\ pc[c] = "send" => calls[k] = 0
  /\ pc[c] = "accept" => Sent(k, job[c].req)
  /\ pc[c] = "record" => a.status \in {"provider_accepted", "accepted"}
  /\ result[c] \in Delivered =>
       k \in Keys /\ job[c].req \in Requests /\ a.status = "accepted" /\ a.req = job[c].req

\* An attempt has one creator.
OneCreator ==
  \A c, d \in Callers :
    pc[c] \in Creating /\ pc[d] \in Creating /\ job[c].key = job[d].key => c = d

IInv ==
  /\ TypeOK
  /\ \A k \in Keys : KeyInv(k)
  /\ \A c \in Callers : CallerInv(c)
  /\ OneCreator

-----------------------------------------------------------------------------
(***************************************************************************)
(* Each step keeps IInv: one lemma per kind of step.                       *)
(***************************************************************************)

\* A caller begins a send: it is no creator, and holds no result.
LEMMA BeginKeepsIInv ==
  ASSUME IInv, NEW c \in Callers, NEW k \in Keys, NEW r \in Requests, Begin(c, k, r)
  PROVE  IInv'
<1>1. TypeOK'
  BY DEF IInv, TypeOK, Begin, PCs, Results
<1>2. \A x \in Keys : KeyInv(x)'
  BY DEF IInv, KeyInv, Begin, Sent, Stored
<1>3. \A d \in Callers : CallerInv(d)'
  BY DEF IInv, TypeOK, CallerInv, Begin, Sent, Creating, Delivered
<1>4. OneCreator'
  BY DEF IInv, TypeOK, OneCreator, Begin, Creating
<1>5. QED BY <1>1, <1>2, <1>3, <1>4 DEF IInv

\* What leaves the attempts, the provider and the inbox alone, and takes no
\* caller to a statement of the creator or of the recovery.
LEMMA QuietKeepsIInv ==
  ASSUME IInv, NEW c \in Callers,
         NEW res \in Results, NEW p \in PCs,
         pc' = [pc EXCEPT ![c] = p],
         result' = [result EXCEPT ![c] = res],
         p \notin Creating \cup {"record"},
         p # "idle" => res = "none" /\ pc[c] # "idle",
         res \in Delivered => /\ job[c].key \in Keys
                             /\ job[c].req \in Requests
                             /\ attempt[job[c].key].status = "accepted"
                             /\ attempt[job[c].key].req = job[c].req,
         UNCHANGED <<attempt, messages, network, calls, job>>
  PROVE  IInv'
<1>1. TypeOK'
  BY DEF IInv, TypeOK
<1>2. \A x \in Keys : KeyInv(x)'
  BY DEF IInv, KeyInv, Sent, Stored
<1>3. \A d \in Callers : CallerInv(d)'
  BY DEF IInv, TypeOK, CallerInv, Sent, Creating, Delivered, PCs
<1>4. OneCreator'
  BY DEF IInv, TypeOK, OneCreator, Creating
<1>5. QED BY <1>1, <1>2, <1>3, <1>4 DEF IInv

LEMMA ResolveKeepsIInv ==
  ASSUME IInv, NEW c \in Callers, NEW d \in Dispatch, ResolveDispatch(c, d)
  PROVE  IInv'
<1> DEFINE verdict == DispatchVerdict(job[c].req, d)
<1>1. verdict = "ok" \/ verdict \in Refusals
  BY DEF DispatchVerdict, Refusals, Dispatch
<1>2. pc[c] = "resolve" /\ result[c] = "none" /\ result \in [Callers -> Results]
  BY DEF ResolveDispatch, IInv, CallerInv, TypeOK
<1>3. UNCHANGED <<attempt, messages, network, calls, job>>
  BY DEF ResolveDispatch, Proceed
<1>4. CASE verdict = "ok"
  <2>1. pc' = [pc EXCEPT ![c] = "policy"] /\ result' = [result EXCEPT ![c] = "none"]
    BY <1>2, <1>4 DEF ResolveDispatch, Proceed, Goto
  <2>2. QED BY <1>2, <1>3, <2>1, QuietKeepsIInv DEF PCs, Results, Creating, Delivered
<1>5. CASE verdict \in Refusals
  <2>1. pc' = [pc EXCEPT ![c] = "idle"] /\ result' = [result EXCEPT ![c] = verdict]
    BY <1>5 DEF ResolveDispatch, Proceed, Settle, Refusals
  <2>2. verdict \in Results /\ verdict \notin Delivered
    BY <1>5 DEF Results, Refusals, Delivered
  <2>3. QED BY <1>3, <2>1, <2>2, QuietKeepsIInv DEF PCs, Creating
<1>6. QED BY <1>1, <1>4, <1>5

LEMMA PolicyKeepsIInv ==
  ASSUME IInv, NEW c \in Callers, NEW p \in Policy, CheckPolicy(c, p)
  PROVE  IInv'
<1> DEFINE verdict == IF job[c].req \in TemplateRequests THEN TemplateVerdict(p)
                                                        ELSE TextVerdict(job[c].req, p)
<1>1. verdict = "ok" \/ verdict \in Refusals
  BY DEF TextVerdict, TemplateVerdict, Refusals, Policy
<1>2. pc[c] = "policy" /\ result[c] = "none" /\ result \in [Callers -> Results]
  BY DEF CheckPolicy, IInv, CallerInv, TypeOK
<1>3. UNCHANGED <<attempt, messages, network, calls, job>>
  BY DEF CheckPolicy, Proceed
<1>4. CASE verdict = "ok"
  <2>1. pc' = [pc EXCEPT ![c] = "reserve"] /\ result' = [result EXCEPT ![c] = "none"]
    BY <1>2, <1>4 DEF CheckPolicy, Proceed, Goto
  <2>2. QED BY <1>2, <1>3, <2>1, QuietKeepsIInv DEF PCs, Results, Creating, Delivered
<1>5. CASE verdict \in Refusals
  <2>1. pc' = [pc EXCEPT ![c] = "idle"] /\ result' = [result EXCEPT ![c] = verdict]
    BY <1>5 DEF CheckPolicy, Proceed, Settle, Refusals
  <2>2. verdict \in Results /\ verdict \notin Delivered
    BY <1>5 DEF Results, Refusals, Delivered
  <2>3. QED BY <1>3, <2>1, <2>2, QuietKeepsIInv DEF PCs, Creating
<1>6. QED BY <1>1, <1>4, <1>5

LEMMA CrashKeepsIInv ==
  ASSUME IInv, NEW c \in Callers, Crash(c)
  PROVE  IInv'
BY QuietKeepsIInv DEF Crash, Settle, PCs, Results, Creating, Delivered

\* The insert that succeeds makes the caller the creator of an unused key, which
\* nothing refers to yet.
LEMMA ReserveKeepsIInv ==
  ASSUME IInv, NEW c \in Callers, Reserve(c)
  PROVE  IInv'
<1> DEFINE k == job[c].key
<1> USE SendAssumption
<1>1. /\ k \in Keys /\ job[c].req \in Requests /\ attempt[k].status = "absent"
      /\ calls[k] = 0
      /\ \A n \in network : n.key # k
      /\ \A m \in messages : m.key # k
      /\ \A d \in Callers : job[d].key = k => /\ pc[d] \notin Creating \cup {"record"}
                                            /\ result[d] \notin Delivered
  BY DEF IInv, TypeOK, KeyInv, CallerInv, Reserve, Creating
<1>2. TypeOK'
  BY <1>1 DEF IInv, TypeOK, Reserve, Goto, AttemptStatus, PCs
<1>3. \A x \in Keys : KeyInv(x)'
  BY <1>1 DEF IInv, TypeOK, KeyInv, Reserve, Goto, Sent, Stored
<1>4. \A d \in Callers : CallerInv(d)'
  BY <1>1 DEF IInv, TypeOK, CallerInv, Reserve, Goto, Sent, Creating, Delivered
<1>5. OneCreator'
  BY <1>1 DEF IInv, TypeOK, OneCreator, Reserve, Goto, Creating
<1>6. QED BY <1>2, <1>3, <1>4, <1>5 DEF IInv

\* The provider id the driver hands out is one, or null.
LEMMA SeenExtType ==
  ASSUME TypeOK, NEW k \in Keys
  PROVE  SeenExt(k) \in ExtIds \cup {NoExt}
<1>1. CASE \E m \in messages : m.key = k
  <2>1. (CHOOSE m \in messages : m.key = k) \in messages
    BY <1>1
  <2>2. QED BY <1>1, <2>1 DEF SeenExt, TypeOK
<1>2. CASE ~\E m \in messages : m.key = k
  BY <1>2 DEF SeenExt
<1>3. QED BY <1>1, <1>2

LEMMA ReadExistingKeepsIInv ==
  ASSUME IInv, NEW c \in Callers, ReadExisting(c)
  PROVE  IInv'
<1> DEFINE k == job[c].key
<1>1. /\ k \in Keys /\ job[c].req \in Requests /\ pc[c] = "reserve"
      /\ attempt[k].status \in AttemptStatus \ {"absent"}
      /\ result[c] = "none"
      /\ UNCHANGED <<attempt, messages, network, calls>>
  BY DEF ReadExisting, IInv, CallerInv, TypeOK
<1>2. CASE ~SameRequest(c) /\ Settle(c, "IDEMPOTENCY_KEY_REUSED") /\ UNCHANGED job
  BY <1>1, <1>2, QuietKeepsIInv DEF Settle, PCs, Results, Creating, Delivered
<1>3. CASE /\ SameRequest(c) /\ attempt[k].status = "failed"
           /\ Settle(c, "IDEMPOTENT_SEND_FAILED") /\ UNCHANGED job
  BY <1>1, <1>3, QuietKeepsIInv DEF Settle, PCs, Results, Creating, Delivered
<1>4. CASE /\ SameRequest(c) /\ attempt[k].status # "failed" /\ Recoverable(k)
           /\ Goto(c, "record") /\ job' = [job EXCEPT ![c].ext = SeenExt(k)]
  <2>1. SeenExt(k) \in ExtIds \cup {NoExt}
    BY <1>1, SeenExtType DEF IInv
  <2>2. TypeOK'
    BY <1>1, <1>4, <2>1 DEF IInv, TypeOK, Goto, PCs
  <2>3. \A x \in Keys : KeyInv(x)'
    BY <1>1, <1>4 DEF IInv, KeyInv, Sent, Stored
  <2>4. \A d \in Callers : CallerInv(d)'
    BY <1>1, <1>4 DEF IInv, TypeOK, CallerInv, Goto, Sent, Creating, Delivered,
                       SameRequest, Recoverable
  <2>5. OneCreator'
    BY <1>1, <1>4 DEF IInv, TypeOK, OneCreator, Goto, Creating
  <2>6. QED BY <2>2, <2>3, <2>4, <2>5 DEF IInv
<1>5. CASE /\ SameRequest(c) /\ attempt[k].status # "failed" /\ ~Recoverable(k)
           /\ Settle(c, IF attempt[k].status = "accepted" THEN "duplicate" ELSE "pending")
           /\ UNCHANGED job
  <2>1. CASE attempt[k].status = "accepted"
    BY <1>1, <1>5, <2>1, QuietKeepsIInv
       DEF Settle, PCs, Results, Creating, Delivered, SameRequest
  <2>2. CASE attempt[k].status # "accepted"
    BY <1>1, <1>5, <2>2, QuietKeepsIInv DEF Settle, PCs, Results, Creating, Delivered
  <2>3. QED BY <2>1, <2>2
<1>6. QED BY <1>2, <1>3, <1>4, <1>5 DEF ReadExisting

LEMMA MarkDispatchingKeepsIInv ==
  ASSUME IInv, NEW c \in Callers, MarkDispatching(c)
  PROVE  IInv'
<1> DEFINE k == job[c].key
<1>1. /\ k \in Keys /\ attempt[k].status = "reserved" /\ calls[k] = 0
      /\ attempt' = [attempt EXCEPT ![k].status = "dispatching"]
      /\ \A d \in Callers \ {c} : job[d].key = k => /\ pc[d] \notin Creating \cup {"record"}
                                                  /\ result[d] \notin Delivered
  BY DEF IInv, TypeOK, KeyInv, CallerInv, OneCreator, MarkDispatching, Creating
<1>2. TypeOK'
  BY <1>1 DEF IInv, TypeOK, MarkDispatching, Goto, AttemptStatus, PCs
<1>3. \A x \in Keys : KeyInv(x)'
  BY <1>1 DEF IInv, TypeOK, KeyInv, MarkDispatching, Goto, Sent, Stored
<1>4. \A d \in Callers : CallerInv(d)'
  BY <1>1 DEF IInv, TypeOK, CallerInv, MarkDispatching, Goto, Sent, Creating, Delivered
<1>5. OneCreator'
  BY <1>1 DEF IInv, TypeOK, OneCreator, MarkDispatching, Goto, Creating
<1>6. QED BY <1>2, <1>3, <1>4, <1>5 DEF IInv

LEMMA AdapterRefusesKeepsIInv ==
  ASSUME IInv, NEW c \in Callers, AdapterRefuses(c)
  PROVE  IInv'
<1>1. TypeOK'
  BY DEF IInv, TypeOK, AdapterRefuses, Goto, PCs
<1>2. \A x \in Keys : KeyInv(x)'
  BY DEF IInv, KeyInv, AdapterRefuses, Sent, Stored
<1>3. \A d \in Callers : CallerInv(d)'
  BY DEF IInv, TypeOK, CallerInv, AdapterRefuses, Goto, Sent, Creating, Delivered
<1>4. OneCreator'
  BY DEF IInv, TypeOK, OneCreator, AdapterRefuses, Goto, Creating
<1>5. QED BY <1>1, <1>2, <1>3, <1>4 DEF IInv

\* A caller at "send" is alone there and its key has not been called yet, so its
\* call is the first one.
LEMMA FirstCall ==
  ASSUME IInv, NEW c \in Callers, pc[c] = "send"
  PROVE  LET k == job[c].key IN
         /\ k \in Keys /\ job[c].req \in Requests
         /\ attempt[k].status = "dispatching" /\ attempt[k].req = job[c].req
         /\ calls[k] = 0
         /\ \A d \in Callers \ {c} : job[d].key = k => pc[d] \notin Creating
         /\ \A n \in network : n.key # k
<1> DEFINE k == job[c].key
<1>1. /\ k \in Keys /\ job[c].req \in Requests
      /\ attempt[k].status = "dispatching" /\ attempt[k].req = job[c].req
      /\ calls[k] = 0
  BY DEF IInv, CallerInv, Creating
<1>2. \A d \in Callers \ {c} : job[d].key = k => pc[d] \notin Creating
  BY DEF IInv, OneCreator, Creating
<1>3. \A n \in network : n.key # k
  BY <1>1 DEF IInv, KeyInv
<1>4. QED BY <1>1, <1>2, <1>3

LEMMA ProviderRejectsKeepsIInv ==
  ASSUME IInv, NEW c \in Callers, ProviderRejects(c)
  PROVE  IInv'
<1> DEFINE k == job[c].key
<1>1. /\ k \in Keys /\ attempt[k].status = "dispatching" /\ calls[k] = 0
      /\ \A d \in Callers \ {c} : job[d].key = k => pc[d] \notin Creating
      /\ \A n \in network : n.key # k
  BY FirstCall DEF ProviderRejects
<1>2. calls' = [calls EXCEPT ![k] = 1]
  BY <1>1 DEF ProviderRejects
<1>3. TypeOK'
  BY <1>1, <1>2 DEF IInv, TypeOK, ProviderRejects, Goto, PCs
<1>4. \A x \in Keys : KeyInv(x)'
  BY <1>1, <1>2 DEF IInv, TypeOK, KeyInv, ProviderRejects, Sent, Stored
<1>5. \A d \in Callers : CallerInv(d)'
  BY <1>1, <1>2 DEF IInv, TypeOK, CallerInv, ProviderRejects, Goto, Sent, Creating, Delivered
<1>6. OneCreator'
  BY <1>1 DEF IInv, TypeOK, OneCreator, ProviderRejects, Goto, Creating
<1>7. QED BY <1>3, <1>4, <1>5, <1>6 DEF IInv

LEMMA ProviderAcceptsKeepsIInv ==
  ASSUME IInv, NEW c \in Callers, NEW e \in ExtIds \cup {NoExt}, NEW answered \in BOOLEAN,
         ProviderAccepts(c, e, answered)
  PROVE  IInv'
<1> DEFINE k == job[c].key
           row == [key |-> k, req |-> job[c].req, ext |-> e]
<1>1. /\ k \in Keys /\ job[c].req \in Requests
      /\ attempt[k].status = "dispatching" /\ attempt[k].req = job[c].req /\ calls[k] = 0
      /\ \A d \in Callers \ {c} : job[d].key = k => pc[d] \notin Creating
      /\ \A n \in network : n.key # k
  BY FirstCall DEF ProviderAccepts
<1>2. calls' = [calls EXCEPT ![k] = 1] /\ network' = network \cup {row}
  BY <1>1 DEF ProviderAccepts
<1>3. /\ pc' = [pc EXCEPT ![c] = IF answered THEN "accept" ELSE "fail"]
      /\ job' = [job EXCEPT ![c].ext = IF answered THEN e ELSE NoExt]
      /\ UNCHANGED <<attempt, messages, result>>
  BY DEF ProviderAccepts, Goto
<1>4. row.key = k /\ row.req = job[c].req
  OBVIOUS
<1> HIDE DEF row
<1>5. TypeOK'
  <2>1. row \in [key : Keys, req : Requests, ext : ExtIds \cup {NoExt}]
    BY <1>1 DEF row
  <2>2. QED BY <1>1, <1>2, <1>3, <2>1 DEF IInv, TypeOK, PCs
<1>6. \A x \in Keys : KeyInv(x)'
  BY <1>1, <1>2, <1>3, <1>4 DEF IInv, TypeOK, KeyInv, Sent, Stored
<1>7. \A d \in Callers : CallerInv(d)'
  <2>1. CallerInv(c)'
    BY <1>1, <1>2, <1>3, <1>4, pc[c] = "send"
       DEF IInv, TypeOK, CallerInv, Sent, Creating, Delivered, ProviderAccepts
  <2>2. ASSUME NEW d \in Callers \ {c} PROVE CallerInv(d)'
    BY <1>1, <1>2, <1>3 DEF IInv, TypeOK, CallerInv, Sent, Creating, Delivered
  <2>3. QED BY <2>1, <2>2
<1>8. OneCreator'
  BY <1>1, <1>3 DEF IInv, TypeOK, OneCreator, Creating
<1>9. QED BY <1>5, <1>6, <1>7, <1>8 DEF IInv

\* Only the creator marks its attempt failed, and only before it was accepted:
\* the missing guard of the UPDATE does no harm.
LEMMA FailOutboundKeepsIInv ==
  ASSUME IInv, NEW c \in Callers, FailOutbound(c)
  PROVE  IInv'
<1> DEFINE k == job[c].key
<1>1. /\ k \in Keys /\ attempt[k].status = "dispatching"
      /\ \A d \in Callers \ {c} : job[d].key = k => /\ pc[d] \notin Creating \cup {"record"}
                                                  /\ result[d] \notin Delivered
  BY DEF IInv, CallerInv, OneCreator, FailOutbound, Creating
<1>2. TypeOK'
  BY <1>1 DEF IInv, TypeOK, FailOutbound, Settle, AttemptStatus, PCs, Results
<1>3. \A x \in Keys : KeyInv(x)'
  BY <1>1 DEF IInv, TypeOK, KeyInv, FailOutbound, Sent, Stored
<1>4. \A d \in Callers : CallerInv(d)'
  BY <1>1 DEF IInv, TypeOK, CallerInv, FailOutbound, Settle, Sent, Creating, Delivered
<1>5. OneCreator'
  BY DEF IInv, TypeOK, OneCreator, FailOutbound, Settle, Creating
<1>6. QED BY <1>2, <1>3, <1>4, <1>5 DEF IInv

LEMMA MarkProviderAcceptedKeepsIInv ==
  ASSUME IInv, NEW c \in Callers, MarkProviderAccepted(c)
  PROVE  IInv'
<1> DEFINE k == job[c].key
<1>1. /\ k \in Keys /\ attempt[k].status = "dispatching" /\ attempt[k].req = job[c].req
      /\ Sent(k, job[c].req)
      /\ \A d \in Callers \ {c} : job[d].key = k => /\ pc[d] \notin Creating \cup {"record"}
                                                  /\ result[d] \notin Delivered
  BY DEF IInv, CallerInv, OneCreator, MarkProviderAccepted, Creating
<1>2. attempt' = [attempt EXCEPT ![k].status = "provider_accepted", ![k].ext = job[c].ext]
  BY <1>1 DEF MarkProviderAccepted
<1>3. TypeOK'
  BY <1>1, <1>2 DEF IInv, TypeOK, MarkProviderAccepted, Goto, AttemptStatus, PCs
<1>4. \A x \in Keys : KeyInv(x)'
  BY <1>1, <1>2 DEF IInv, TypeOK, KeyInv, MarkProviderAccepted, Sent, Stored
<1>5. \A d \in Callers : CallerInv(d)'
  BY <1>1, <1>2 DEF IInv, TypeOK, CallerInv, MarkProviderAccepted, Goto, Sent, Creating, Delivered
<1>6. OneCreator'
  BY DEF IInv, TypeOK, OneCreator, MarkProviderAccepted, Goto, Creating
<1>7. QED BY <1>3, <1>4, <1>5, <1>6 DEF IInv

\* The creator and any number of retries may record: the second one finds the
\* message, and a creator of the key there is no more.
LEMMA RecordOutboundKeepsIInv ==
  ASSUME IInv, NEW c \in Callers, RecordOutbound(c)
  PROVE  IInv'
<1> DEFINE k == job[c].key
           row == [key |-> k, req |-> job[c].req, ext |-> job[c].ext]
           mine == {m \in messages : m.key = k}
           clash == {m \in messages : m.ext = job[c].ext /\ job[c].ext # NoExt}
<1>1. /\ k \in Keys /\ job[c].req \in Requests /\ pc[c] = "record"
      /\ attempt[k].status \in {"provider_accepted", "accepted"}
      /\ attempt[k].req = job[c].req
      /\ Sent(k, job[c].req)
      /\ UNCHANGED <<network, calls, job>>
  BY DEF IInv, CallerInv, KeyInv, RecordOutbound
<1>2. CASE /\ messages' = IF mine # {} THEN messages ELSE messages \cup {row}
           /\ attempt' = [attempt EXCEPT ![k].status = "accepted",
                                         ![k].ext = IF @ = NoExt THEN job[c].ext ELSE @]
           /\ Settle(c, "sent")
  <2>1. row.key = k /\ row.req = job[c].req
    OBVIOUS
  <2>2. row \in [key : Keys \cup {NoKey}, req : Requests, ext : ExtIds \cup {NoExt}]
    BY <1>1 DEF IInv, TypeOK
  <2>3. /\ \A m \in messages' : m \in messages \/ m = row
        /\ messages \subseteq messages'
        /\ \E m \in messages' : m.key = k /\ m.req = job[c].req
    <3>1. CASE mine # {}
      <4>1. PICK m \in messages : m.key = k
        BY <3>1
      <4>2. m.req = job[c].req
        BY <1>1, <4>1 DEF IInv, KeyInv
      <4>3. QED BY <1>2, <3>1, <4>1, <4>2
    <3>2. CASE mine = {}
      BY <1>2, <2>1, <3>2
    <3>3. QED BY <3>1, <3>2
  <2> HIDE DEF row, mine
  <2>4. TypeOK'
    <3>1. messages' \subseteq [key : Keys \cup {NoKey}, req : Requests, ext : ExtIds \cup {NoExt}]
      BY <2>2, <2>3 DEF IInv, TypeOK
    <3>2. attempt' \in [Keys -> [status : AttemptStatus, req : Requests \cup {NoReq},
                                 ext : ExtIds \cup {NoExt}]]
      BY <1>1, <1>2 DEF IInv, TypeOK, AttemptStatus
    <3>3. pc' \in [Callers -> PCs] /\ result' \in [Callers -> Results]
      BY <1>2 DEF IInv, TypeOK, Settle, PCs, Results, Delivered
    <3>4. QED BY <1>1, <3>1, <3>2, <3>3 DEF IInv, TypeOK
  <2>5. \A x \in Keys : KeyInv(x)'
    <3> SUFFICES ASSUME NEW x \in Keys PROVE KeyInv(x)'
      OBVIOUS
    <3>1. CASE x = k
      BY <1>1, <1>2, <2>1, <2>3, <3>1 DEF IInv, TypeOK, KeyInv, Sent, Stored
    <3>2. CASE x # k
      BY <1>1, <1>2, <2>1, <2>3, <3>2 DEF IInv, TypeOK, KeyInv, Sent, Stored
    <3>3. QED BY <3>1, <3>2
  <2>6. \A d \in Callers : CallerInv(d)'
    BY <1>1, <1>2 DEF IInv, TypeOK, CallerInv, Settle, Sent, Creating, Delivered
  <2>7. OneCreator'
    BY <1>1, <1>2 DEF IInv, TypeOK, OneCreator, Settle, Creating
  <2>8. QED BY <2>4, <2>5, <2>6, <2>7 DEF IInv
<1>3. CASE Settle(c, "PERSIST_FAILED") /\ UNCHANGED <<messages, attempt>>
  BY <1>1, <1>3, QuietKeepsIInv DEF Settle, PCs, Results, Creating, Delivered, Refusals
<1>4. QED BY <1>2, <1>3 DEF RecordOutbound

\* An echo has no key: no attempt is concerned.
LEMMA EchoKeepsIInv ==
  ASSUME IInv, NEW n \in network, EchoWebhook(n)
  PROVE  IInv'
<1> DEFINE row == [key |-> NoKey, req |-> n.req, ext |-> n.ext]
<1> USE SendAssumption
<1>1. row \in [key : Keys \cup {NoKey}, req : Requests, ext : ExtIds \cup {NoExt}]
  BY DEF IInv, TypeOK
<1>2. row.key \notin Keys /\ messages' = messages \cup {row}
  BY DEF EchoWebhook
<1>3. UNCHANGED <<attempt, network, calls, pc, job, result>>
  BY DEF EchoWebhook
<1> HIDE DEF row
<1>4. TypeOK'
  BY <1>1, <1>2, <1>3 DEF IInv, TypeOK
<1>5. \A x \in Keys : KeyInv(x)'
  BY <1>2, <1>3 DEF IInv, KeyInv, Sent, Stored
<1>6. \A c \in Callers : CallerInv(c)'
  BY <1>3 DEF IInv, CallerInv, Sent
<1>7. OneCreator'
  BY <1>3 DEF IInv, OneCreator
<1>8. QED BY <1>4, <1>5, <1>6, <1>7 DEF IInv

-----------------------------------------------------------------------------
(***************************************************************************)
(* Theorems.                                                               *)
(***************************************************************************)

\* No attempt exists at the start, and no caller is under way.
LEMMA InitIInv == Init => IInv
BY DEF Init, IInv, TypeOK, KeyInv, CallerInv, OneCreator, AttemptStatus, PCs, Results,
       Creating, Delivered, Sent, Stored

\* Every step of the send path keeps the inductive invariant.
LEMMA NextKeepsIInv ==
  ASSUME IInv, [Next]_sendVars
  PROVE  IInv'
<1>1. CASE UNCHANGED sendVars
  BY <1>1 DEF sendVars, IInv, TypeOK, KeyInv, CallerInv, OneCreator, Sent, Stored
<1>2. ASSUME NEW c \in Callers, NEW k \in Keys, NEW r \in Requests, Begin(c, k, r)
      PROVE  IInv'
  BY <1>2, BeginKeepsIInv
<1>3. ASSUME NEW c \in Callers, SendStep(c) PROVE IInv'
  BY <1>3, ResolveKeepsIInv, PolicyKeepsIInv, ReserveKeepsIInv, ReadExistingKeepsIInv,
     MarkDispatchingKeepsIInv, AdapterRefusesKeepsIInv, ProviderRejectsKeepsIInv,
     ProviderAcceptsKeepsIInv, FailOutboundKeepsIInv, MarkProviderAcceptedKeepsIInv,
     RecordOutboundKeepsIInv
     DEF SendStep
<1>4. ASSUME NEW c \in Callers, Crash(c) PROVE IInv'
  BY <1>4, CrashKeepsIInv
<1>5. ASSUME NEW n \in network, EchoWebhook(n) PROVE IInv'
  BY <1>5, EchoKeepsIInv
<1>6. QED BY <1>1, <1>2, <1>3, <1>4, <1>5 DEF Next

\* The inductive invariant holds in every reachable state.
THEOREM SendInvariant == Spec => []IInv
<1>1. Init => IInv
  BY InitIInv
<1>2. IInv /\ [Next]_sendVars => IInv'
  BY NextKeepsIInv
<1>3. QED BY <1>1, <1>2, PTL DEF Spec

\* The variables keep their types.
THEOREM SendTypeCorrect == Spec => []TypeOK
<1>1. IInv => TypeOK
  BY DEF IInv
<1>2. QED BY <1>1, SendInvariant, PTL

\* No overlap of callers, retry, crash or lost answer makes the service call the
\* provider twice for one key.
THEOREM ProviderCalledAtMostOnce == Spec => []AtMostOneProviderCall
<1>1. IInv => AtMostOneProviderCall
  BY DEF IInv, KeyInv, AtMostOneProviderCall
<1>2. QED BY <1>1, SendInvariant, PTL

\* What is stored under a key is what the provider took under that key.
THEOREM StoredMeansSent == Spec => []MessageBacked
<1>1. IInv => MessageBacked
  BY DEF IInv, KeyInv, MessageBacked, Sent
<1>2. QED BY <1>1, SendInvariant, PTL

\* A caller told of success can rely on it, whoever did the work.
THEOREM SuccessIsTrue == Spec => []SuccessMeansSent
<1>1. IInv => SuccessMeansSent
  BY DEF IInv, KeyInv, CallerInv, SuccessMeansSent, Sent, Stored
<1>2. QED BY <1>1, SendInvariant, PTL

\* An attempt only moves onward, although two of the UPDATEs are unguarded.
THEOREM AttemptsMoveOnward == Spec => AttemptMovesOnward
<1> DEFINE Onwards == \A k \in Keys : attempt'[k].status # attempt[k].status =>
                                      attempt'[k].status \in Onward(attempt[k].status)
<1>1. ASSUME IInv, [Next]_sendVars PROVE [Onwards]_sendVars
  <2>1. ASSUME UNCHANGED attempt PROVE Onwards
    BY <2>1
  <2>2. ASSUME NEW c \in Callers, Reserve(c) PROVE Onwards
    BY <1>1, <2>2 DEF IInv, TypeOK, CallerInv, Reserve, Onward
  <2>3. ASSUME NEW c \in Callers, MarkDispatching(c) PROVE Onwards
    BY <1>1, <2>3 DEF IInv, TypeOK, CallerInv, MarkDispatching, Onward
  <2>4. ASSUME NEW c \in Callers, FailOutbound(c) PROVE Onwards
    BY <1>1, <2>4 DEF IInv, TypeOK, CallerInv, FailOutbound, Onward, Creating
  <2>5. ASSUME NEW c \in Callers, MarkProviderAccepted(c) PROVE Onwards
    BY <1>1, <2>5 DEF IInv, TypeOK, CallerInv, MarkProviderAccepted, Onward
  <2>6. ASSUME NEW c \in Callers, RecordOutbound(c) PROVE Onwards
    BY <1>1, <2>6 DEF IInv, TypeOK, CallerInv, RecordOutbound, Onward
  <2>7. CASE UNCHANGED sendVars
    BY <2>7 DEF sendVars
  <2>8. CASE Next
    BY <2>1, <2>2, <2>3, <2>4, <2>5, <2>6, <2>8
       DEF Next, SendStep, Begin, Crash, EchoWebhook, ResolveDispatch, CheckPolicy, Proceed,
           ReadExisting, AdapterRefuses, ProviderRejects, ProviderAccepts
  <2>9. QED BY <1>1, <2>7, <2>8
<1>2. Spec => []IInv
  BY SendInvariant
<1>3. QED BY <1>1, <1>2, PTL DEF Spec, AttemptMovesOnward

-----------------------------------------------------------------------------
(***************************************************************************)
(* The send path implements AtMostOnceSend: a key is bound by Reserve,     *)
(* called by the provider's two steps, failed by FailOutbound and stored   *)
(* by the first RecordOutbound; everything else stutters.                  *)
(***************************************************************************)

LEMMA InitImplements == Init => Abstract!Init
BY DEF Init, Abstract!Init, OutcomeOf

LEMMA StepImplements ==
  ASSUME IInv, [Next]_sendVars
  PROVE  [Abstract!Next]_(Abstract!vars)
<1> USE DEF Abstract!vars, Abstract!Next
<1>1. ASSUME UNCHANGED <<attempt, calls>> PROVE UNCHANGED Abstract!vars
  BY <1>1
<1>2. ASSUME NEW c \in Callers, Reserve(c) PROVE Abstract!Next
  <2> DEFINE k == job[c].key
           r == job[c].req
  <2>1. k \in Keys /\ r \in Requests /\ attempt[k].status = "absent" /\ attempt[k].req = NoReq
    BY <1>2 DEF Reserve, IInv, CallerInv, KeyInv
  <2>2. attempt' = [attempt EXCEPT ![k] = [status |-> "reserved", req |-> r, ext |-> NoExt]]
    BY <1>2 DEF Reserve
  <2>3. UNCHANGED calls
    BY <1>2 DEF Reserve
  <2> HIDE DEF k, r
  <2>4. Abstract!Bind(k, r)
    BY <2>1, <2>2, <2>3 DEF Abstract!Bind, IInv, TypeOK, OutcomeOf
  <2>5. \E q \in Requests : Abstract!Bind(k, q)
    BY <2>1, <2>4 DEF Abstract!Bind
  <2>6. QED BY <2>1, <2>5
<1>3. ASSUME NEW c \in Callers, MarkDispatching(c) PROVE UNCHANGED Abstract!vars
  BY <1>3 DEF MarkDispatching, IInv, TypeOK, CallerInv, OutcomeOf
<1>4. ASSUME NEW c \in Callers, ProviderRejects(c) PROVE Abstract!Next
  <2> DEFINE k == job[c].key
  <2>1. /\ k \in Keys /\ calls[k] = 0
        /\ attempt[k].status = "dispatching" /\ attempt[k].req \in Requests
    BY <1>4, FirstCall DEF ProviderRejects
  <2>2. UNCHANGED attempt /\ calls' = [calls EXCEPT ![k] = 1]
    BY <1>4, <2>1 DEF ProviderRejects
  <2> HIDE DEF k
  <2>3. Abstract!Call(k)
    BY <2>1, <2>2, SendAssumption DEF Abstract!Call, IInv, TypeOK, OutcomeOf
  <2>4. QED BY <2>1, <2>3
<1>5. ASSUME NEW c \in Callers, NEW e \in ExtIds \cup {NoExt}, NEW answered \in BOOLEAN,
             ProviderAccepts(c, e, answered)
      PROVE  Abstract!Next
  <2> DEFINE k == job[c].key
  <2>1. /\ k \in Keys /\ calls[k] = 0
        /\ attempt[k].status = "dispatching" /\ attempt[k].req \in Requests
    BY <1>5, FirstCall DEF ProviderAccepts
  <2>2. UNCHANGED attempt /\ calls' = [calls EXCEPT ![k] = 1]
    BY <1>5, <2>1 DEF ProviderAccepts
  <2> HIDE DEF k
  <2>3. Abstract!Call(k)
    BY <2>1, <2>2, SendAssumption DEF Abstract!Call, IInv, TypeOK, OutcomeOf
  <2>4. QED BY <2>1, <2>3
<1>6. ASSUME NEW c \in Callers, FailOutbound(c) PROVE Abstract!Next
  <2>1. Abstract!Fail(job[c].key)
    BY <1>6, SendAssumption
       DEF Abstract!Fail, FailOutbound, IInv, TypeOK, CallerInv, Creating, OutcomeOf
  <2>2. QED BY <1>6, <2>1 DEF FailOutbound, IInv, CallerInv
<1>7. ASSUME NEW c \in Callers, MarkProviderAccepted(c) PROVE UNCHANGED Abstract!vars
  BY <1>7 DEF MarkProviderAccepted, IInv, TypeOK, CallerInv, OutcomeOf
<1>8. ASSUME NEW c \in Callers, RecordOutbound(c) PROVE [Abstract!Next]_(Abstract!vars)
  <2> DEFINE k == job[c].key
  <2>1. k \in Keys /\ UNCHANGED calls
    BY <1>8 DEF RecordOutbound, IInv, CallerInv
  <2>2. CASE attempt' = attempt
    BY <2>1, <2>2, <1>1
  <2>3. CASE attempt' # attempt /\ attempt[k].status = "accepted"
    BY <2>1, <2>3, <1>8 DEF RecordOutbound, IInv, TypeOK, OutcomeOf
  <2>4. CASE attempt' # attempt /\ attempt[k].status = "provider_accepted"
    <3>1. calls[k] = 1
      BY <2>1, <2>4 DEF IInv, KeyInv, Sent
    <3>2. attempt' = [attempt EXCEPT ![k].status = "accepted",
                                     ![k].ext = IF @ = NoExt THEN job[c].ext ELSE @]
      BY <1>8, <2>4 DEF RecordOutbound
    <3> HIDE DEF k
    <3>3. Abstract!Store(k)
      BY <2>1, <2>4, <3>1, <3>2 DEF Abstract!Store, IInv, TypeOK, OutcomeOf
    <3>4. QED BY <2>1, <3>3
  <2>5. QED BY <1>8, <2>2, <2>3, <2>4 DEF RecordOutbound, IInv, CallerInv
<1>9. CASE UNCHANGED sendVars
  BY <1>1, <1>9 DEF sendVars
<1>10. CASE Next
  BY <1>1, <1>2, <1>3, <1>4, <1>5, <1>6, <1>7, <1>8, <1>10
     DEF Next, SendStep, Begin, Crash, EchoWebhook, ResolveDispatch, CheckPolicy, Proceed,
         ReadExisting, AdapterRefuses
<1>11. QED BY <1>9, <1>10

\* Every behaviour of the send path is one the abstract specification allows.
THEOREM ImplementsAbstract == Spec => ImplementsAtMostOnceSend
<1>1. Init => Abstract!Init
  BY InitImplements
<1>2. IInv /\ [Next]_sendVars => [Abstract!Next]_(Abstract!vars)
  BY StepImplements
<1>3. QED BY <1>1, <1>2, SendInvariant, PTL DEF Spec, ImplementsAtMostOnceSend, Abstract!Spec
=============================================================================
