------------------------------ MODULE Connectors ------------------------------
(***************************************************************************)
(* One CRM connection (connectors/): the outbox its worker delivers, the   *)
(* webhooks it receives, and the administrator who replays, revokes and    *)
(* rotates it.  Every statement of the repository runs on its own, so each *)
(* await ends a step.  A webhook is abstracted to its subject and the time *)
(* it reports; what apply writes of a subject is the time of the event     *)
(* written last.                                                           *)
(***************************************************************************)
EXTENDS Integers

CONSTANTS Jobs,         \* rows of outbox_events
          Workers,      \* processes that run a ConnectorWorker
          Hooks,        \* reported events, [subject, at], each sent any number of times
          Subjects,
          MaxAttempts,  \* 5 in the code
          Policies,     \* conflict policies an administrator may choose
          NoJob

VARIABLES
  conn,      \* connector_connections: status, credentials, policy, checkpoint
  outbox,    \* job -> status and attempt_count
  work,      \* worker -> its step, its job, whether the claim found credentials
  inbox,     \* reported event -> status and attempt_count
  replay,    \* the replay under way: rows not done, the checkpoint it holds
  request,   \* reported event -> step of the request applying it, checkpoint it read
  value,     \* subject -> time of the event applied last, 0 if none
  erased,    \* the credentials are erased: revoked and not rotated since (history)
  lateCall,  \* a delivery claimed while erased has called the CRM (history)
  disturbed  \* requests overlapped, a checkpoint was reset or not asked (history)

crm == <<outbox, work, lateCall>>
imports == <<inbox, replay, request, value, disturbed>>
vars == <<conn, outbox, work, inbox, replay, request, value, erased, lateCall, disturbed>>

Times == {h.at : h \in Hooks}
Empty == [s \in Subjects |-> 0]
Free == [step |-> "idle", job |-> NoJob, keyed |-> FALSE, late |-> FALSE]
Quiet == [step |-> "idle", seen |-> Empty]
NoReplay == [on |-> FALSE, rows |-> {}, seen |-> Empty]

TypeOK ==
  /\ conn \in [status : {"active", "degraded", "revoked"}, keyed : BOOLEAN,
               policy : Policies, checkpoint : [Subjects -> Times \cup {0}]]
  /\ outbox \in [Jobs -> [status : {"absent", "pending", "processing", "delivered",
                                    "failed", "dead_letter"}, attempts : 0..MaxAttempts]]
  /\ work \in [Workers -> [step : {"idle", "call", "delivered", "active", "failed", "degraded"},
                           job : Jobs \cup {NoJob}, keyed : BOOLEAN, late : BOOLEAN]]
  /\ inbox \in [Hooks -> [status : {"absent", "received", "processed", "ignored", "failed",
                                    "dead_letter"}, attempts : 0..(MaxAttempts + 1)]]
  /\ replay \in [on : BOOLEAN, rows : SUBSET Hooks, seen : [Subjects -> Times \cup {0}]]
  /\ request \in [Hooks -> [step : {"idle", "apply", "checkpoint", "processed", "ignored", "failed"},
                            seen : [Subjects -> Times \cup {0}]]]
  /\ value \in [Subjects -> Times \cup {0}]
  /\ {erased, lateCall, disturbed} \subseteq BOOLEAN

\* install has been called; its policy is latest_wins by default.
Init ==
  /\ conn = [status |-> "active", keyed |-> TRUE, policy |-> "latest_wins", checkpoint |-> Empty]
  /\ outbox = [j \in Jobs |-> [status |-> "absent", attempts |-> 0]]
  /\ work = [w \in Workers |-> Free]
  /\ inbox = [h \in Hooks |-> [status |-> "absent", attempts |-> 0]]
  /\ request = [h \in Hooks |-> Quiet] /\ replay = NoReplay
  /\ value = Empty
  /\ erased = FALSE /\ lateCall = FALSE /\ disturbed = FALSE

-----------------------------------------------------------------------------
(***************************************************************************)
(* Deliveries.                                                             *)
(***************************************************************************)
Enqueue(j) ==
  /\ outbox[j].status = "absent"
  /\ outbox' = [outbox EXCEPT ![j].status = "pending"]
  /\ UNCHANGED <<conn, work, lateCall, erased, imports>>

Go(w, step) == work' = [work EXCEPT ![w].step = step]

\* claim, one transaction: rows pending or failed of an active connection.  The
\* credentials come with the row and are those the tick will use.
Claim(w, j) ==
  /\ work[w].step = "idle"
  /\ outbox[j].status \in {"pending", "failed"} /\ conn.status = "active"
  /\ outbox' = [outbox EXCEPT ![j].status = "processing", ![j].attempts = @ + 1]
  /\ work' = [work EXCEPT ![w] = [step |-> "call", job |-> j, keyed |-> conn.keyed, late |-> erased]]
  /\ UNCHANGED <<conn, lateCall, erased, imports>>

\* tick up to the answer: without credentials it throws before the POST; the CRM
\* answers 2xx, or refuses, or its answer is lost.
Call(w) ==
  /\ work[w].step = "call"
  /\ \/ ~work[w].keyed /\ Go(w, "failed") /\ UNCHANGED lateCall
     \/ /\ work[w].keyed
        /\ lateCall' = (lateCall \/ work[w].late)
        /\ \E end \in {"delivered", "failed"} : Go(w, end)
  /\ UNCHANGED <<conn, outbox, erased, imports>>

\* The statements of the two ends of a tick.  None looks at what it overwrites; an
\* error of a statement after the POST also lands in the catch block.
Settle(w) ==
  LET j == work[w].job IN
  /\ \/ /\ work[w].step = "delivered"
        /\ outbox' = [outbox EXCEPT ![j].status = "delivered"]
        /\ Go(w, "active") /\ UNCHANGED conn
     \/ /\ work[w].step = "active"
        /\ conn' = [conn EXCEPT !.status = "active"]
        /\ work' = [work EXCEPT ![w] = Free] /\ UNCHANGED outbox
     \/ /\ work[w].step = "failed"
        /\ outbox' = [outbox EXCEPT ![j].status =
                        IF outbox[j].attempts >= MaxAttempts THEN "dead_letter" ELSE "failed"]
        /\ Go(w, "degraded") /\ UNCHANGED conn
     \/ /\ work[w].step = "degraded"
        /\ conn' = [conn EXCEPT !.status = "degraded"]
        /\ work' = [work EXCEPT ![w] = Free] /\ UNCHANGED outbox
     \/ work[w].step \in {"delivered", "active"} /\ Go(w, "failed") /\ UNCHANGED <<conn, outbox>>
  /\ UNCHANGED <<lateCall, erased, imports>>

\* The process of a worker dies: its row stays in processing.
Crash(w) ==
  /\ work[w].step # "idle"
  /\ work' = [work EXCEPT ![w] = Free]
  /\ UNCHANGED <<conn, outbox, lateCall, erased, imports>>

-----------------------------------------------------------------------------
(***************************************************************************)
(* Webhooks.                                                               *)
(***************************************************************************)
Overlaps(h) == replay.on \/ \E g \in Hooks \ {h} : request[g].step # "idle"

\* The webhook route and the insert of receive; a second delivery changes nothing.
Receive(h) ==
  /\ inbox[h].status = "absent" /\ request[h].step = "idle"
  /\ conn.status # "revoked" /\ conn.keyed
  /\ inbox' = [inbox EXCEPT ![h] = [status |-> "received", attempts |-> 1]]
  /\ request' = [request EXCEPT ![h] = [step |-> "apply", seen |-> conn.checkpoint]]
  /\ disturbed' = (disturbed \/ Overlaps(h))
  /\ UNCHANGED <<conn, crm, replay, value, erased>>

\* replay takes every failed row at once, and applies them one by one with the
\* connection read at its start and again after each success.
Replay ==
  /\ ~replay.on
  /\ LET R == {h \in Hooks : inbox[h].status \in {"failed", "dead_letter"}} IN
     /\ \A h \in R : inbox[h].attempts <= MaxAttempts   \* bound of the model
     /\ inbox' = [h \in Hooks |-> IF h \in R THEN [status |-> "received", attempts |-> inbox[h].attempts + 1]
                                             ELSE inbox[h]]
     /\ replay' = [on |-> TRUE, rows |-> R, seen |-> conn.checkpoint]
  /\ disturbed' = (disturbed \/ \E h \in Hooks : request[h].step # "idle")
  /\ UNCHANGED <<conn, crm, request, value, erased>>

ReplayNext(h) ==
  /\ h \in replay.rows
  /\ \A g \in replay.rows : request[g].step = "idle"
  /\ request' = [request EXCEPT ![h] = [step |-> "apply", seen |-> replay.seen]]
  /\ UNCHANGED <<conn, crm, inbox, replay, value, erased, disturbed>>

\* Plausible bug: an event is compared with what was applied of any subject.
Older_AnySubject(h) == \E s \in Subjects : h.at <= request[h].seen[s]

Older(h) == h.at <= request[h].seen[h.subject]

\* apply up to the checkpoint.  A scope or a mapping may be missing: it throws.
Apply(h) ==
  /\ request[h].step = "apply"
  /\ \/ /\ Older(h) /\ conn.policy # "source_wins"
        /\ request' = [request EXCEPT ![h].step = "ignored"] /\ UNCHANGED <<value, disturbed>>
     \/ /\ ~Older(h) \/ conn.policy = "source_wins"
        /\ value' = [value EXCEPT ![h.subject] = h.at]
        /\ request' = [request EXCEPT ![h] = [step |-> "checkpoint",
                                              seen |-> [request[h].seen EXCEPT ![h.subject] = h.at]]]
        /\ disturbed' = (disturbed \/ Older(h))
     \/ request' = [request EXCEPT ![h].step = "failed"] /\ UNCHANGED <<value, disturbed>>
  /\ UNCHANGED <<conn, crm, inbox, replay, erased>>

\* apply's last statement writes the whole checkpoint the request has read; or it fails.
WriteCheckpoint(h) ==
  /\ request[h].step = "checkpoint"
  /\ \/ /\ conn' = [conn EXCEPT !.checkpoint = request[h].seen]
        /\ request' = [request EXCEPT ![h].step = "processed"]
        /\ UNCHANGED disturbed
     \/ /\ request' = [request EXCEPT ![h].step = "failed"]
        /\ disturbed' = TRUE
        /\ UNCHANGED conn
  /\ UNCHANGED <<crm, inbox, replay, value, erased>>

\* A failed request leaves its checkpoint, altered in place, to the next row of a replay.
Finish(h) ==
  /\ request[h].step \in {"processed", "ignored", "failed"}
  /\ inbox' = [inbox EXCEPT ![h].status =
                 IF request[h].step = "failed" /\ h \in replay.rows /\ inbox[h].attempts >= MaxAttempts
                 THEN "dead_letter" ELSE request[h].step]
  /\ request' = [request EXCEPT ![h] = Quiet]
  /\ replay' = IF h \notin replay.rows THEN replay
               ELSE [on |-> TRUE, rows |-> replay.rows \ {h},
                     seen |-> IF request[h].step = "failed" THEN request[h].seen ELSE conn.checkpoint]
  /\ UNCHANGED <<conn, crm, value, erased, disturbed>>

\* The process dies: what its requests have not written is lost, their rows stay received.
Die ==
  /\ replay.on \/ \E h \in Hooks : request[h].step # "idle"
  /\ request' = [h \in Hooks |-> Quiet]
  /\ replay' = NoReplay
  /\ disturbed' = (disturbed \/ \E h \in Hooks : request[h].step = "checkpoint")
  /\ UNCHANGED <<conn, crm, inbox, value, erased>>

-----------------------------------------------------------------------------
(***************************************************************************)
(* The administrator.                                                      *)
(***************************************************************************)
\* Plausible bug: only the status is set.
Revoked_KeepsCredentials == [conn EXCEPT !.status = "revoked", !.checkpoint = Empty]

Revoked == [conn EXCEPT !.status = "revoked", !.keyed = FALSE, !.checkpoint = Empty]

Revoke ==
  /\ conn' = Revoked
  /\ erased' = TRUE
  /\ disturbed' = TRUE
  /\ UNCHANGED <<crm, inbox, replay, request, value>>

\* revoke's second statement.
DeadLetter ==
  /\ erased
  /\ outbox' = [j \in Jobs |-> IF outbox[j].status \in {"pending", "processing", "failed"}
                               THEN [outbox[j] EXCEPT !.status = "dead_letter"] ELSE outbox[j]]
  /\ UNCHANGED <<conn, work, lateCall, erased, imports>>

\* replay's last statement, whatever the status of the connection.
Requeue ==
  /\ replay.on /\ replay.rows = {}
  /\ outbox' = [j \in Jobs |-> IF outbox[j].status \in {"failed", "dead_letter"}
                               THEN [status |-> "pending", attempts |-> 0] ELSE outbox[j]]
  /\ replay' = NoReplay
  /\ UNCHANGED <<conn, work, lateCall, erased, inbox, request, value, disturbed>>

\* rotate, of a revoked connection too.
Rotate ==
  /\ conn' = [conn EXCEPT !.status = "active", !.keyed = TRUE]
  /\ erased' = FALSE
  /\ UNCHANGED <<crm, imports>>

UpdateSettings(p) ==
  /\ conn.status # "revoked"
  /\ conn' = [conn EXCEPT !.policy = p]
  /\ UNCHANGED <<crm, imports, erased>>

WorkerStep(w) == (\E j \in Jobs : Claim(w, j)) \/ Call(w) \/ Settle(w)

Deliveries == (\E j \in Jobs : Enqueue(j)) \/ \E w \in Workers : WorkerStep(w) \/ Crash(w)

Webhooks ==
  \/ \E h \in Hooks : \/ Receive(h) \/ ReplayNext(h) \/ Apply(h)
                      \/ WriteCheckpoint(h) \/ Finish(h)
  \/ Die

Administration ==
  \/ Replay \/ Requeue \/ Revoke \/ DeadLetter \/ Rotate
  \/ \E p \in Policies : UpdateSettings(p)

Next == Deliveries \/ Webhooks \/ Administration

Spec == Init /\ [][Next]_vars

\* Nobody interferes and no process dies; setInterval polls, a tick's statements end.
Unattended ==
  /\ Init
  /\ [][(\E j \in Jobs : Enqueue(j)) \/ \E w \in Workers : WorkerStep(w)]_vars
  /\ \A w \in Workers : WF_vars(WorkerStep(w))

-----------------------------------------------------------------------------
\* Revocation erases the credentials, and a late delivery that sets the connection
\* active again does not bring them back: what is claimed after it never reaches the
\* CRM (worker.js:5-6, repository.js:9-11).
RevokedIsSilent == ~lateCall

\* Out-of-order webhooks converge (latest_wins): as long as no two of them are applied
\* at once and no checkpoint is reset or fails to be written, a subject has the newest
\* of what was applied to it (repository.js:14-18).
NewestWins ==
  ~disturbed => \A h \in Hooks : inbox[h].status \in {"processed", "ignored"}
                                   => value[h.subject] >= h.at

\* What docs/m5-connector-framework.md:12 and test/connector-worker.test.js:4 say of the
\* outbox: a delivery that has failed is tried again (worker.js:5-6).
FailedIsRetried == \A j \in Jobs : outbox[j].status = "failed" ~> outbox[j].status # "failed"
=============================================================================
