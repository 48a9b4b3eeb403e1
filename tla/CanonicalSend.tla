---------------------------- MODULE CanonicalSend ----------------------------
(***************************************************************************)
(* CanonicalSendService.sendText / sendMedia and                           *)
(* CanonicalTemplateService.sendTemplate over MessagingRepository.         *)
(*                                                                         *)
(* A caller is one execution of a send: an HTTP request, a tick of the     *)
(* campaign worker, a CRM action.  Every await of the code ends a step, so *)
(* callers interleave between any two statements and a process can die     *)
(* (Crash) between them.  The provider and its echo webhook are actors.    *)
(*                                                                         *)
(* Data abstracted: one workspace; a request stands for the conversation   *)
(* (and so the provider), type, body and origin that are hashed, the hash  *)
(* being injective; provider ids differ between providers, where the index *)
(* has the connection; message ids are left out, as a key has at most      *)
(* one message row: message_id of an attempt is set exactly when its       *)
(* status is 'accepted'.                                                   *)
(***************************************************************************)
EXTENDS Naturals

CONSTANTS Callers,           \* executions of a send that may overlap
          Keys,              \* client idempotency keys
          Requests,          \* request contents
          TemplateRequests,  \* those that go through sendTemplate
          ExtIds,            \* message ids the provider gives out
          OfficialRequests,  \* those whose provider is whatsapp_cloud or ycloud
          NoKey, NoReq, NoExt

ASSUME SendAssumption ==
  /\ NoKey \notin Keys
  /\ NoReq \notin Requests
  /\ NoExt \notin ExtIds
  /\ TemplateRequests \subseteq Requests
  /\ OfficialRequests \subseteq Requests

VARIABLES
  attempt,   \* message_send_attempts, by client_idempotency_key
  messages,  \* the outbound rows of messages
  network,   \* what the provider has accepted for delivery
  calls,     \* key -> number of provider calls (history)
  pc,        \* caller -> the statement it awaits next
  job,       \* caller -> key and request of its latest send, provider id it holds
  result     \* caller -> how that send ended

sendVars == <<attempt, messages, network, calls, pc, job, result>>

-----------------------------------------------------------------------------
AttemptStatus == {"absent", "reserved", "dispatching", "provider_accepted",
                  "accepted", "failed"}

PCs == {"idle", "resolve", "policy", "reserve", "dispatch", "send", "accept",
        "fail", "record"}

Refusals == {"CONVERSATION_NOT_FOUND", "AUTOMATION_DISABLED",
             "PROVIDER_CONNECTION_INACTIVE", "PROVIDER_UNAVAILABLE",
             "TEMPLATE_PROVIDER_UNAVAILABLE", "CONTACT_SUPPRESSED",
             "CONSENT_REQUIRED", "SESSION_TEMPLATE_REQUIRED",
             "APPROVED_TEMPLATE_REQUIRED"}

\* Results that carry a message id back to the caller.
Delivered == {"sent", "duplicate"}

Results == Refusals \cup Delivered \cup
           {"none", "pending", "IDEMPOTENCY_KEY_REUSED", "IDEMPOTENT_SEND_FAILED",
            "PROVIDER_SEND_FAILED", "PERSIST_FAILED"}

Dispatch == [found : BOOLEAN, automation : BOOLEAN, active : BOOLEAN, adapter : BOOLEAN]
Policy   == [suppressed : BOOLEAN, consented : BOOLEAN,
             sessionOpen : BOOLEAN, approved : BOOLEAN]

TypeOK ==
  /\ attempt \in [Keys -> [status : AttemptStatus,
                           req    : Requests \cup {NoReq},
                           ext    : ExtIds \cup {NoExt}]]
  /\ messages \subseteq [key : Keys \cup {NoKey}, req : Requests,
                         ext : ExtIds \cup {NoExt}]
  /\ network \subseteq [key : Keys, req : Requests, ext : ExtIds \cup {NoExt}]
  /\ calls \in [Keys -> Nat]
  /\ pc \in [Callers -> PCs]
  /\ job \in [Callers -> [key : Keys \cup {NoKey}, req : Requests \cup {NoReq},
                          ext : ExtIds \cup {NoExt}]]
  /\ result \in [Callers -> Results]

Init ==
  /\ attempt = [k \in Keys |-> [status |-> "absent", req |-> NoReq, ext |-> NoExt]]
  /\ messages = {}
  /\ network = {}
  /\ calls = [k \in Keys |-> 0]
  /\ pc = [c \in Callers |-> "idle"]
  /\ job = [c \in Callers |-> [key |-> NoKey, req |-> NoReq, ext |-> NoExt]]
  /\ result = [c \in Callers |-> "none"]

-----------------------------------------------------------------------------
\* The caller's promise settles with res.
Settle(c, res) ==
  /\ pc' = [pc EXCEPT ![c] = "idle"]
  /\ result' = [result EXCEPT ![c] = res]

Goto(c, p) ==
  /\ pc' = [pc EXCEPT ![c] = p]
  /\ UNCHANGED result

\* A statement that only decides: on a refusal nothing has been reserved.
Proceed(c, verdict, p) ==
  /\ IF verdict = "ok" THEN Goto(c, p) ELSE Settle(c, verdict)
  /\ UNCHANGED <<attempt, messages, network, calls, job>>

Begin(c, k, r) ==
  /\ pc[c] = "idle"
  /\ pc' = [pc EXCEPT ![c] = "resolve"]
  /\ job' = [job EXCEPT ![c] = [key |-> k, req |-> r, ext |-> NoExt]]
  /\ result' = [result EXCEPT ![c] = "none"]
  /\ UNCHANGED <<attempt, messages, network, calls>>

\* resolveConversationDispatch and the checks on its row.  Whether the adapter of
\* a text must have sendMedia is part of d.adapter.
DispatchVerdict(r, d) ==
  CASE ~d.found                                     -> "CONVERSATION_NOT_FOUND"
    [] d.found /\ ~d.automation                     -> "AUTOMATION_DISABLED"
    [] d.found /\ d.automation /\ ~d.active         -> "PROVIDER_CONNECTION_INACTIVE"
    [] d.found /\ d.automation /\ d.active /\ r \in TemplateRequests
         /\ ~(r \in OfficialRequests /\ d.adapter)  -> "TEMPLATE_PROVIDER_UNAVAILABLE"
    [] d.found /\ d.automation /\ d.active /\ r \notin TemplateRequests
         /\ ~d.adapter                              -> "PROVIDER_UNAVAILABLE"
    [] OTHER                                        -> "ok"

ResolveDispatch(c, d) ==
  /\ pc[c] = "resolve"
  /\ Proceed(c, DispatchVerdict(job[c].req, d), "policy")

\* assertOfficialTextPolicy: no check at all for an unofficial provider.
TextVerdict(r, p) ==
  CASE r \notin OfficialRequests                      -> "ok"
    [] r \in OfficialRequests /\ p.suppressed         -> "CONTACT_SUPPRESSED"
    [] r \in OfficialRequests /\ ~p.suppressed /\ ~p.consented
                                                      -> "CONSENT_REQUIRED"
    [] r \in OfficialRequests /\ ~p.suppressed /\ p.consented /\ ~p.sessionOpen
                                                      -> "SESSION_TEMPLATE_REQUIRED"
    [] OTHER                                          -> "ok"

\* A template needs no open session, but an approved entry in the catalog.
TemplateVerdict(p) ==
  CASE p.suppressed                                   -> "CONTACT_SUPPRESSED"
    [] ~p.suppressed /\ ~p.consented                  -> "CONSENT_REQUIRED"
    [] ~p.suppressed /\ p.consented /\ ~p.approved    -> "APPROVED_TEMPLATE_REQUIRED"
    [] OTHER                                          -> "ok"

CheckPolicy(c, p) ==
  /\ pc[c] = "policy"
  /\ Proceed(c, IF job[c].req \in TemplateRequests THEN TemplateVerdict(p)
                                                   ELSE TextVerdict(job[c].req, p), "reserve")

-----------------------------------------------------------------------------
\* Plausible bug: the insert overwrites an attempt that failed.
Reserve_ReviveFailed(c) ==
  /\ pc[c] = "reserve"
  /\ attempt[job[c].key].status \in {"absent", "failed"}
  /\ attempt' = [attempt EXCEPT ![job[c].key] = [status |-> "reserved", req |-> job[c].req,
                                                 ext |-> NoExt]]
  /\ Goto(c, "dispatch")
  /\ UNCHANGED <<messages, network, calls, job>>

\* Plausible bug: ON CONFLICT DO UPDATE of an attempt that is only reserved.
Reserve_Upsert(c) ==
  /\ pc[c] = "reserve"
  /\ attempt[job[c].key].status \in {"absent", "reserved"}
  /\ attempt' = [attempt EXCEPT ![job[c].key] = [status |-> "reserved", req |-> job[c].req,
                                                 ext |-> NoExt]]
  /\ Goto(c, "dispatch")
  /\ UNCHANGED <<messages, network, calls, job>>

\* INSERT ... ON CONFLICT DO NOTHING that inserted: the caller owns the key.
Reserve(c) ==
  LET k == job[c].key IN
  /\ pc[c] = "reserve"
  /\ attempt[k].status = "absent"
  /\ attempt' = [attempt EXCEPT ![k] = [status |-> "reserved", req |-> job[c].req,
                                        ext |-> NoExt]]
  /\ Goto(c, "dispatch")
  /\ UNCHANGED <<messages, network, calls, job>>

\* The external_message_id the service sees of an existing attempt.  Its SELECT
\* names a.* and then m.external_message_id, the driver keeps the last column of
\* that name, so it is the message row's: null until there is a message.
SeenExt(k) ==
  IF \E m \in messages : m.key = k
  THEN (CHOOSE m \in messages : m.key = k).ext
  ELSE NoExt

\* Plausible bug: any attempt without a message is repaired.
Recoverable_AnyOpen(k) == attempt[k].status \in {"dispatching", "provider_accepted"}

\* Whether an existing attempt is the one case the service repairs: the
\* provider has accepted and no message was recorded.
Recoverable(k) == attempt[k].status = "provider_accepted"

\* Plausible bug: the request hash of a used key is not compared.
SameRequest_Ignored(c) == TRUE

SameRequest(c) == attempt[job[c].key].req = job[c].req

\* The INSERT hit the key: what the second query finds decides.  Rows are never
\* removed, so the conflict and the read are one step, at the time of the read.
ReadExisting(c) ==
  LET k == job[c].key IN
  /\ pc[c] = "reserve"
  /\ attempt[k].status # "absent"
  /\ \/ /\ ~SameRequest(c)
        /\ Settle(c, "IDEMPOTENCY_KEY_REUSED")
        /\ UNCHANGED job
     \/ /\ SameRequest(c)
        /\ attempt[k].status = "failed"
        /\ Settle(c, "IDEMPOTENT_SEND_FAILED")
        /\ UNCHANGED job
     \/ /\ SameRequest(c)
        /\ attempt[k].status # "failed"
        /\ Recoverable(k)
        /\ Goto(c, "record")
        /\ job' = [job EXCEPT ![c].ext = SeenExt(k)]
     \/ /\ SameRequest(c)
        /\ attempt[k].status # "failed"
        /\ ~Recoverable(k)
        /\ Settle(c, IF attempt[k].status = "accepted" THEN "duplicate" ELSE "pending")
        /\ UNCHANGED job
  /\ UNCHANGED <<attempt, messages, network, calls>>

\* Plausible bug: the status is one that no query of the service knows.
MarkDispatching_UnknownStatus(c) ==
  /\ pc[c] = "dispatch"
  /\ attempt' = [attempt EXCEPT ![job[c].key].status = "sending"]
  /\ Goto(c, "send")
  /\ UNCHANGED <<messages, network, calls, job>>

MarkDispatching(c) ==
  LET k == job[c].key IN
  /\ pc[c] = "dispatch"
  /\ attempt' = IF attempt[k].status = "reserved"
                THEN [attempt EXCEPT ![k].status = "dispatching"]
                ELSE attempt
  /\ Goto(c, "send")
  /\ UNCHANGED <<messages, network, calls, job>>

\* The adapter throws before the request leaves (credentials, recipient).
AdapterRefuses(c) ==
  /\ pc[c] = "send"
  /\ Goto(c, "fail")
  /\ UNCHANGED <<attempt, messages, network, calls, job>>

\* The provider gets the request and rejects it.
ProviderRejects(c) ==
  /\ pc[c] = "send"
  /\ calls' = [calls EXCEPT ![job[c].key] = @ + 1]
  /\ Goto(c, "fail")
  /\ UNCHANGED <<attempt, messages, network, job>>

\* The provider takes the message.  Its answer reaches the adapter, or is lost
\* or malformed and the adapter throws (a POST is never repeated).  Only the
\* unofficial adapter accepts an answer without a message id.
ProviderAccepts(c, e, answered) ==
  LET j == job[c] IN
  /\ pc[c] = "send"
  /\ e = NoExt => j.req \notin OfficialRequests
  /\ \A n \in network : n.ext = e => e = NoExt
  /\ network' = network \cup {[key |-> j.key, req |-> j.req, ext |-> e]}
  /\ calls' = [calls EXCEPT ![j.key] = @ + 1]
  /\ job' = [job EXCEPT ![c].ext = IF answered THEN e ELSE NoExt]
  /\ Goto(c, IF answered THEN "accept" ELSE "fail")
  /\ UNCHANGED <<attempt, messages>>

\* failOutbound: the row becomes failed whatever it was.
FailOutbound(c) ==
  /\ pc[c] = "fail"
  /\ attempt' = [attempt EXCEPT ![job[c].key].status = "failed"]
  /\ Settle(c, "PROVIDER_SEND_FAILED")
  /\ UNCHANGED <<messages, network, calls, job>>

MarkProviderAccepted(c) ==
  LET k == job[c].key IN
  /\ pc[c] = "accept"
  /\ attempt' = IF attempt[k].status = "dispatching"
                THEN [attempt EXCEPT ![k].status = "provider_accepted", ![k].ext = job[c].ext]
                ELSE attempt
  /\ Goto(c, "record")
  /\ UNCHANGED <<messages, network, calls, job>>

\* recordOutbound, one transaction.  A message of the key is kept as it is.  A
\* message that already has the provider id, but not the key, violates the other
\* unique index: the transaction rolls back and the error leaves the service.
RecordOutbound(c) ==
  LET j == job[c]
      mine  == {m \in messages : m.key = j.key}
      clash == {m \in messages : m.ext = j.ext /\ j.ext # NoExt}
  IN
  /\ pc[c] = "record"
  /\ \/ /\ mine # {} \/ clash = {}
        /\ messages' = IF mine # {} THEN messages
                       ELSE messages \cup {[key |-> j.key, req |-> j.req, ext |-> j.ext]}
        /\ attempt' = [attempt EXCEPT ![j.key].status = "accepted",
                                      ![j.key].ext = IF @ = NoExt THEN j.ext ELSE @]
        /\ Settle(c, "sent")
     \/ /\ mine = {} /\ clash # {}
        /\ Settle(c, "PERSIST_FAILED")
        /\ UNCHANGED <<messages, attempt>>
  /\ UNCHANGED <<network, calls, job>>

\* A provider's webhook shows the account an outgoing message: it is stored
\* under its provider id unless a row has that id (persistMessage,
\* ingestMessage).
EchoWebhook(n) ==
  /\ n \in network
  /\ n.ext # NoExt
  /\ \A m \in messages : m.ext # n.ext
  /\ messages' = messages \cup {[key |-> NoKey, req |-> n.req, ext |-> n.ext]}
  /\ UNCHANGED <<attempt, network, calls, pc, job, result>>

\* The process serving c dies, or a statement of it fails in the database: what
\* it held in memory is gone.
Crash(c) ==
  /\ pc[c] # "idle"
  /\ Settle(c, "none")
  /\ UNCHANGED <<attempt, messages, network, calls, job>>

-----------------------------------------------------------------------------
\* The statements of one send, after Begin.
SendStep(c) ==
  \/ \E d \in Dispatch : ResolveDispatch(c, d)
  \/ \E p \in Policy : CheckPolicy(c, p)
  \/ Reserve(c)
  \/ ReadExisting(c)
  \/ MarkDispatching(c)
  \/ AdapterRefuses(c)
  \/ ProviderRejects(c)
  \/ \E e \in ExtIds \cup {NoExt}, answered \in BOOLEAN : ProviderAccepts(c, e, answered)
  \/ FailOutbound(c)
  \/ MarkProviderAccepted(c)
  \/ RecordOutbound(c)

Next ==
  \/ \E c \in Callers, k \in Keys, r \in Requests : Begin(c, k, r)
  \/ \E c \in Callers : SendStep(c)
  \/ \E c \in Callers : Crash(c)
  \/ \E n \in network : EchoWebhook(n)

Spec == Init /\ [][Next]_sendVars

-----------------------------------------------------------------------------
(***************************************************************************)
(* Properties.                                                             *)
(***************************************************************************)

\* However callers overlap, retry, crash and time out, the provider is asked to
\* send a key at most once (canonicalSendService.js:18-27).
AtMostOneProviderCall == \A k \in Keys : calls[k] <= 1

\* A message stored under a key is one the provider took, with the very content
\* it was given: no retry, and no reuse of a key for another request, can put a
\* message into the inbox that was not sent (repository.js:34-47).
MessageBacked ==
  \A m \in messages : m.key \in Keys =>
    \E n \in network : n.key = m.key /\ n.req = m.req

\* A caller that is told its message exists is told the truth: the provider took
\* this caller's own request and the row is there, even if another caller did
\* the work (canonicalSendService.js:19-30).
SuccessMeansSent ==
  \A c \in Callers : result[c] \in Delivered =>
    /\ \E n \in network : n.key = job[c].key /\ n.req = job[c].req
    /\ \E m \in messages : m.key = job[c].key /\ m.req = job[c].req

\* The statuses a row may take from a status, although failOutbound and
\* recordOutbound write theirs without looking at it.
Onward(s) ==
  CASE s = "absent"            -> {"reserved"}
    [] s = "reserved"          -> {"dispatching"}
    [] s = "dispatching"       -> {"provider_accepted", "failed"}
    [] s = "provider_accepted" -> {"accepted"}
    [] OTHER                   -> {}

\* An attempt only moves onward: what was accepted is never marked failed, what
\* failed never becomes a message (repository.js:32-48).
AttemptMovesOnward ==
  [][\A k \in Keys : attempt'[k].status # attempt[k].status =>
       attempt'[k].status \in Onward(attempt[k].status)]_sendVars

\* The abstract promise, with the attempt row hidden behind its outcome.
OutcomeOf(s) == CASE s = "failed"   -> "failed"
                  [] s = "accepted" -> "stored"
                  [] OTHER          -> "open"

Abstract == INSTANCE AtMostOnceSend WITH
  bound   <- [k \in Keys |-> attempt[k].req],
  outcome <- [k \in Keys |-> OutcomeOf(attempt[k].status)]

\* Every behaviour of the service is one of AtMostOnceSend.
ImplementsAtMostOnceSend == Abstract!Spec

\* The message of a key carries the id the provider gave it, also when a retry
\* stores it: the template test expects recordOutbound to get the attempt's
\* 'ext' (test/canonical-template-service.test.js:49).
StoredWithProviderId ==
  \A m \in messages : m.key \in Keys =>
    \E n \in network : n.key = m.key /\ n.ext = m.ext
=============================================================================
