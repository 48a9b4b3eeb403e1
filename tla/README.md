# wa-client-hub: TLA+ models and proofs

wa-client-hub is a Node.js server over PostgreSQL that connects the WhatsApp
numbers of its clients to three providers (Meta's Cloud API, YCloud, and the
unofficial OpenWA gateway), keeps one canonical inbox of contacts, conversations
and messages, sends campaigns, and exchanges events with CRMs. Several processes
may serve requests and run workers at once, all of them against one database; no
lock is held across an external call. What can go wrong is therefore nearly always the
same thing in a new place: two actors between two statements of each other, or a
process that dies after a provider has acted and before the database knows it.

The models are at that granularity. **A step is one statement or one
transaction, or one external call; every `await` of the code ends a step**, and
a process may die at every one of them. Paths below are relative to `src/src/`
unless they begin with `docs/` or `test/`.

## 1. Inventory

Line by line in `PROJECT.json` (`components`, `hazards`); here is how the parts fit.

| Part | State it keeps | Operations | Hard behaviour | What makes it correct |
|---|---|---|---|---|
| **Canonical send path** `messaging/canonicalSendService.js`, `canonicalTemplateService.js`, `messagePolicy.js`, `repository.js` | `message_send_attempts` (one row for a workspace and idempotency key), `messages` | text, media and template sends: resolve, policy, reserve, dispatch, call, record; recovery by a later request | concurrent requests with one key; a lost answer; a crash between answer and record; the provider's echo overtaking the record | one provider call for a key; what is stored was sent; what is reported is true |
| **Campaign queue** `campaigns/` | `campaigns`, `campaign_recipients`, `campaign_recipient_events`, `suppressions`, `consent_records` | claim, eligibility, send, transition, retry; status changes; suppression; delivery receipts | several workers; a slow tick whose row is given back; cancellation, opt-out and receipts under way at once | a recipient is messaged once; an opt-out is honoured; the queue drains |
| **Webhook ingestion** `messaging/metaWebhook*`, `ycloudWebhook*` | `webhook_receipts`, `messages`, `message_status_events` | admit, claim, process, callback, fail | redelivery, reordering, partial batches, crash after commit | no regression of a delivery status; one effect for an event; nothing stranded |
| **Inbound opt-out handler** `main.js:45-57` | `suppressions`, `consent_records` | STOP and START keywords | runs after the receipt is committed | a processed opt-out is effective |
| **OpenWA ingestion** `openwa/` | `provider_connections`, `webhook_receipts`, `messages`, unread counts | webhook, acknowledgement, session state, enabling a number, sending a file | redelivery while the first delivery still works; late acknowledgements | what a receipt or an answer reports has happened |
| **CRM connectors** `connectors/` | `connector_connections`, `outbox_events`, `connector_inbox_events`, `connector_conflicts` | publish, claim, deliver, replay, revoke; apply, checkpoint | delivery against revocation; degraded connections; lost updates of a checkpoint | nothing claimed after a revocation is delivered; the newest event wins |
| **Meta calls** `messaging/metaCall*` | `meta_call_sessions`, `meta_call_commands` | start, claim, command, transfer, sweep; events | answer against sweep against webhook; two agents | one owner; a command has one outcome; a terminated call stays so |
| **Coexistence jobs** `messaging/metaCoexistenceWorker.js` | `meta_coexistence_jobs` | queue, claim a batch, request, settle, sweep | batches that outlive their lease; crash after the request | each endpoint is asked once, in order |
| **GHL message sync** `providers/ghlMessageSync.js`, `ghlMediaArchive.js` | `ghl_message_sync`, archived media, advisory locks | poll, import, archive, retry, sweep | a lock lost in mid-flight; crash after the import | one import for a message, one upload for a medium |
| **GHL workflows** `providers/ghlWorkflowTriggers.js`, `ghlWorkflowActions.js` | `ghl_workflow_deliveries`, subscriptions | fan out, post, settle; send for a workflow | lost answers; a number switched off during the contact lookup; repeated requests | one run for an event; one message for a request, from a number that is on |
| **GHL installation** `providers/ghlMarketplaceInstall.js`, `ghlAgencyInstall.js`, `ghlAutoProvisioning.js`, `ghlTeam.js`, `ghlEmbeddedSso.js`, `ghlPrivatePilot.js` | OAuth states, install events, installations, workspaces, members, tokens, nonces | callback, install and uninstall events, provisioning, team sync, embedded sessions, token refresh | provisioning against a team sync under other locks; one-time refresh tokens | one tenant for a location, for good; nobody escalates; the token survives |
| **Meta signup** `messaging/metaSignup*` | signup states, hits of the rate limit | begin, claim, complete, release, cancel | take-over of a slow completion | one success |
| **Connection lifecycle** `messaging/metaConnection*` | `provider_connections`, assets | diagnose, activate, switch on, disconnect | diagnostics and switch-ons against disconnection | a disconnected connection stays inactive and without credentials |
| **Templates and media** `messaging/metaTemplateSync*`, `metaMedia*` | the local catalogue; attachments and their provider ids | list and replace; parse an upload; delete when retention is over | listings that overlap or fail half way; chunk borders anywhere; two cleaners | the catalogue is what was listed; the parse does not depend on chunks; no endless deletes |
| **Legacy store, number quota, billing** `db/`, `store.js`, `billing/` | users, workspaces, numbers, invites, audit log, held in memory and in tables | load, change, write the difference; checkout and subscription events | two processes with copies of their own | nothing unseen is overwritten; the plan's limit |

Interactions: the campaign worker, the inbox, CRM actions and the public API all
send through the canonical send path, by direct calls. Webhook ingestion writes
the `messages` rows that the send path also writes (the echo of a sent message)
and whose provider ids tie delivery receipts back to campaigns; it calls the opt-out
handler, whose suppressions the campaign worker and the send policy read. Admission
puts events for CRMs into the outbox that the connectors deliver.

## 2. Modules

    AtMostOnceSend            what the send path promises for a key
         ^  (refinement, checked and proved)
    CanonicalSend  <--------  CanonicalSendProofs
         ^  (INSTANCE: a tick is the caller, a recipient is the key)
    Campaigns  <------------  CampaignsProofs   (which instantiates CanonicalSendProofs)
    WebhookReceipts  <------  WebhookReceiptsProofs
    MetaCalls  <------------  MetaCallsProofs
         ^
    MCCampaigns, MCCanonicalSend, MCWebhookReceipts, MCMetaCalls      (TLC instances)

    MetaConnection            the connections of a workspace to Meta  <- CoexistenceJobsProofs
         ^  (EXTENDS: all of these read, and some write, conn)
    TemplateSync, CoexistenceJobs <- MetaSignup, MediaRetention,
    GhlWorkflowActions (over AtMostOnceSend)  <-  MCMetaConnection    <- MCMetaConnectionProofs

    CoexistenceJobs, GhlMessageSync, GhlTriggers  ==implements==>  WriteAhead

    Connectors, GhlMessageSync, GhlTriggers, GhlTokens,
    GhlInstall, LegacyStore, OpenWa, MediaMultipart   <-  MCIntegrations   <- MediaMultipartProofs <- IntegrationsProofs
    Connectors                                        <-  MCConnectors

The modules named `...Proofs` hold theorems that TLAPS checks, and no model.

**`CanonicalSend`** has a caller for each execution of a send, and `pc[c]` is the
statement it awaits. `attempt[k]` is the row of `message_send_attempts`, with the
statuses of the schema and `absent` for no row; `messages` has the outbound
rows; `network` is what the provider has accepted, which the service cannot see. The
actions are the statements in the order of the code: `ResolveDispatch`, `CheckPolicy`,
`Reserve` or `ReadExisting` (the insert with `ON CONFLICT DO NOTHING` and the
read that follows a conflict), `MarkDispatching`, the provider's answers
(`AdapterRefuses`, `ProviderRejects`, `ProviderAccepts` with an answer that
arrives or is lost), `MarkProviderAccepted`, `RecordOutbound`, `FailOutbound`. `Crash` loses
what a caller has in memory; `EchoWebhook` is the provider's own report of the message.
What resolving and the policy find is a free choice, so every verdict may change
between two requests. `SeenExt` is the provider id that the service sees of an
existing attempt: the `SELECT` names two columns `external_message_id`, and the driver
keeps the last.

**`AtMostOnceSend`** hides rows and callers: a key is bound to one request, its provider
is called at most once, its outcome is `failed` or `stored` for good.

**`Campaigns`** is one campaign with its queue. `tick[w]` is the statement worker `w`
awaits and its claimed row; `campaign`, `rows`, `optout`, `consent` are tables. It
*includes* the send path: `Send` is `CanonicalSend` with workers as callers and recipients as
keys (the key in the code is `campaign:<recipient id>`), and its variables and steps are those of the
composition. `Claim` is the transaction of `repository.claim` (give back what is stuck, start what is
due, pick a row); `CheckCampaign`, `CheckEligibility`, `ResolveConversation`,
`Sending`, `SendReturned`, `Write`, `Event`, `Complete` are the tick. The statements of
`transition` are three steps, for they are not one transaction. The administrator's request is a
read and a later write (`AdminRead`, `AdminWrite`, `CancelQueued`), `suppress` is two
statements (`OptOut`, `BlockQueued`), `syncDelivery` is a read and a write (`ReceiptRead`,
`ReceiptWrite`). Time is three facts: the row has been processing for 15 minutes (`old`), the
scheduled date has passed, the next attempt is due (always possible, never forced).

**`WebhookReceipts`** is Meta's worker and YCloud's: `source` says whose receipts a behaviour is about. `receipts` is
`webhook_receipts`, `stored[m]` the status of the message's row, `work[w]` the claimed batch and
the receipt under way. `Process` is the transaction of `processReceipt`; the callback and `fail`
come after it, as steps of their own, which is where the interesting behaviours are.
`begun` and `handled` are history: how often the inbound handler was called for a message, and
for which it has run to its end.

**`MetaCalls`** is the calls of one recipient over one connection. `sessions` and `commands` are the tables,
`request[k]` is what the request awaits that reserved key `k`, `calls` is the provider's truth. `ReserveConnect` and
`ReserveAction` are the transaction that reserves a command; the reads before it only refuse or repeat an earlier answer, so they are not steps. `PlaceCall`,
`PerformAction`, `ProviderRejects` and `RequestLost` are the provider's answers, each success with an answer that arrives or is lost;
`Confirm` is the second transaction, `Outcome` and `Release` the two statements of the catch block; `Claim` and `Sweep` are single
statements of other requests; `Webhook` is `persistCallEvent` for any event that has happened, in any order, with or without the
correlation id. One recipient is enough: sessions of two recipients meet only in the lock of the connection. A command that
reaches the provider after its request has timed out is modelled as carried out at the moment it times out.

**`WriteAhead`** is what three workers have in common that ask another system for what cannot be taken back and is not sure to be answered
(one-shot requests to Meta; imports, uploads and a folder in GHL; runs of a workflow): a row says that an act may have happened *before* it may. An act happens once and while its row
is open; a row is done only of what has happened, and for ever; a row is cleared only of an act that has not happened and cannot any more. A row that stays open is
the price: nobody knows, and nobody acts again. Each of the three modules has `Said`, what a status of its rows means, and implements it:
`AsksByIntent`, `ImportsByIntent`, `RunsByIntent`. Their invariants `OneShot`, `ImportedOnce` and `DeliveredOnce` say the same of one state; the first
is part of its refinement property, because it also has the order, and the others follow.

**`MetaConnection`** is a record for each phone number: the row of `provider_connections`, its asset and the switch of the number.
Diagnostics are two steps with Meta in between (`BeginDiagnostics`, then `RecordDiagnostics` or `DiagnosticsLost`), so that everything may
happen to the connection meanwhile. Switching messages on is one statement and still two steps: `UPDATE ... FROM` reads the connection and the asset in its snapshot
(`BeginEnabling`), locks the number only, and, when it had to wait for it, looks again at the number only (`EnableMessaging`, or `EnablingLost`); `enabling` has the
phones whose statement waits. Every other operation locks what it reads and is one step. What uses a connection extends this module:

- **`TemplateSync`**: a sync reads the pages of Meta's catalogue one by one (`ReadPage`) and replaces the local one in one transaction
  (`Replace`, with `Merged` as what it makes of a row). `exact` is history: the last replace listed a catalogue that did not change meanwhile.
- **`CoexistenceJobs`**: `jobs` are the three requests of a phone, `batch` what a worker has claimed and not looked at yet, `overdue`
  the jobs whose five minutes are over. `requested` counts what Meta was asked.
- **`MetaSignup`**: one state, the requests that complete it, and the clock as two facts (120 seconds, expiry). Finalizing and releasing
  name only the state, not the claim, as the statements do.
- **`MediaRetention`**: the candidates of a cleaner are chosen by a statement in no transaction, so the row locks are gone when it returns.
- **`GhlWorkflowActions`**: a workflow's request, from the first look at the number (`BeginAction`) over the contact lookup to the send; the
  send itself is `AtMostOnceSend` with business events as keys, the composition that the proved refinement allows.

**`Connectors`** is a connection to a CRM. `outbox`, `inbox` and `conn` are tables, `work[w]` is a delivery, `request[h]` a webhook that is being
applied; `value` is what was last written of a subject. `lateCall` and `disturbed` are history.

**`GhlMessageSync`** has the rows of `ghl_message_sync` and of the archive, the advisory lock of a conversation, and for each process where its run is;
`imported`, `uploaded` and `folders` count what GHL did. The lock belongs to a database session: `SessionBreaks` cuts it while the request to GHL is under way.
**`GhlTriggers`** is the same pattern for workflow deliveries, with one lock for all.

**`GhlTokens`** is a row of credentials. Tokens are numbered as issued; `good` are those GHL takes. A refresh is three steps: `Load` under the lock of the row,
GHL's answer, and the commit; `lost` remembers that an answer or a commit was lost, after which no hub can know the next token. `ofAgency` says whose row a behaviour is
about: when GHL answers without a new token, a location keeps the old one, and an agency writes null over it, with which it asks the next time (`silent` remembers it).

**`GhlInstall`** has a flow for each request: the OAuth callback with its one-time state, the signed install event, the agency that installs many
locations, provisioning as a transaction under the lock of its location, team sync as one that takes another lock (its statements are split
where they can meet), uninstalling, and the embedded pages' sessions with their nonces.

**`LegacyStore`** has the tables of the store, and for each process the copy it loaded and what its operation made of it. `Loaded` is what seven
`SELECT`s may return while others commit, `ApplyDelta` the transaction with its guards, `MayCreateNumber` the policy on the locked rows. The
billing handlers are operations of the same store.

**`OpenWa`** is a number over the unofficial provider: the webhook is worked off within its request, one step for each statement outside a transaction;
enabling the number makes a new connection; `SendMedia` has the echo, the answer and the record as steps that may come in any order the code allows.

**`MediaMultipart`** is the streaming parser as a function of its buffer: `Chunk` takes a chunk of any size, and the automaton runs as far as it can (`turns`, a
recursive function: every turn of the loop that goes on takes bytes off the buffer). Bytes are abstracted to those it tells apart; limits are small but all there. What a request
holds is said of all its bytes at once, with nothing of the parser in it: `Laid` has where its boundaries end, the parts between them, the longest of their headers, and whether
it is whole. `UploadAssumption` is that the requests tried are described truly, which TLC evaluates on the run's; a request that stops early, has a header of no known kind or
something else after a boundary is described like any other. The last `process()` before `End` has no new bytes, and changes nothing.

Every module has the plausible mistakes its properties were tried against, as
operators named `<definition>_<mistake>` in front of the definition they alter. Each states the types of
its variables too; `MCIntegrations!TypeOK` and `MCMetaConnection!TypeOK` collect them. They hold on the same instances;
the configurations leave them to the proofs and to these definitions, because types alone say little of these systems.

## 3. What is checked

| Run | Instance | Distinct states | What it shows |
|---|---|---|---|
| `send` | 2 callers, 2 keys, a text of the unofficial provider and a template of an official one, 2 provider ids, answers with and without one | 0.65 M | one call for a key, only sent messages are stored, nobody succeeds with another's content, an attempt only moves onward, and the refinement of `AtMostOnceSend` |
| `send_recovery` | 1 caller, 1 key, a template | violation | finding 1 |
| `campaign_send` | 2 workers, 1 recipient who may opt out and in, slow ticks | 1.1 M | sent means accepted and stored, one message, opt-out honoured |
| `campaign_queue` | 2 workers that may die, 2 recipients, failing events, 2 attempts, an administrator who starts and cancels | 5.0 M | one tick for a recipient; who was settled without a message is not taken up again, and terminal campaigns stay so; a completed campaign leaves nobody without a message in its queue |
| `campaign_liveness` | 1 worker, 1 recipient, everything allowed | 0.44 M | no row is stranded in `processing`; a campaign that goes on running drains |
| `campaign_retry` | 1 worker that does not die, 1 recipient, 2 attempts | violation | finding 2 |
| `webhooks` | both sources, 2 workers with batches of 2, 5 events of which 3 are reported in a behaviour (3 scenarios), 1 crash | 0.17 M | processed means stored and not undone, a failing receipt does not strand its batch, no regression, one callback (Meta), a failing handler is called again (YCloud), interrupted calls are taken up, retries end |
| `webhook_handled` | Meta, 2 workers, 1 message reported twice, 1 crash | violation | finding 3 |
| `calls` | 2 agents, 2 keys, 2 calls, 2 answers, 5 events, with and without echo of the correlation id | 1.3 M | one outgoing call, one answer, true outcomes, true and final ends, early webhooks bound to the reservation |
| `meta_connection` | 2 phones under a limit of 2, 2 administrators; 2 templates on 2 pages; 2 workers over 6 jobs; 2 completions; 2 cleaners and 2 attachments of one medium; 2 workflow requests for one business event | 1.74 M | what is off stays inactive and without credentials through diagnostics and switch-ons of any age, a complete listing is the catalogue, each one-shot request once and in order, its job written ahead of it (`WriteAhead`), one success of a signup, cleaned means gone, workflow messages only from a number that is on |
| `integrations` | 2 processes in each part; 2 deliveries or 3 webhooks of 2 subjects under both policies; 3 messages of 2 conversations, 2 of them with media; 2 trigger events; 2 numbers, 3 people, 2 plans; 2 locations, 2 companies; 2 nonces; 4 events and 1 file over 2 connections; 3 refreshes of an agency's or a location's token; 77 uploads in chunks of 1, 3 and all | 0.78 M | one property of each component of section 2 that is not about Meta's connection; for the import of messages and for workflow triggers this is the refinement of `WriteAhead` |
| `connector_retry` | 1 event, 2 workers, fair | violation | finding 4 |

`meta_connection` and `integrations` choose a *part* in the initial state and run it: components that share no row cannot disturb each other, and
parts of one component (`deliveries` and `webhooks` of a connector, say) are instances with the operations that meet. In `meta_connection` the life of the
connection (connect, activate, diagnose, disconnect) runs along with every part, because that is what the parts read. Every part has been run on its own
as well, and its mutants fail in it.

Why these bounds are enough. The protocols compare *pairs*: a creator and a
retry of one key, two ticks on a row, two events of a message; two of each kind show
every order of two, and a second key, recipient or message shows that they do not leak into
each other. `MaxAttempts` is 1 or 2 instead of 4 or 5, because what matters is that a
retry happens and that the limit is reached: in `campaign_retry` the second of two is the refused one, as the second to
fourth of four are in the code. `campaign_queue` leaves the pause to `campaign_liveness`, where it is allowed at any time, and has `Failures`: a worker may die at
any step and the insert of an event may fail. `MaxCrashes` bounds only worker deaths in `WebhookReceipts` (elsewhere crashes are
unbounded), since each one may strand a batch for good. In `calls` two keys are a connect and a second connect or a terminate, a pre-accept and
an accept, an accept and a terminate: every pair of commands that can meet. Symmetry (workers, processes, keys, ids, numbers; they are alike in every part) is used in safety runs only, never with a liveness
property. `CHECK_DEADLOCK FALSE` is given
because these systems rightly come to rest when everything is settled.

In `integrations`, `Reported` is the part of the billing statuses that a webhook brings: one that allows paid resources and is not the first, one that is, and one
that forbids them; the others are treated like one of these. `MaxTokens = 4` bounds the tokens GHL issues (a first one and three refreshes: two that race and one
after), `AuditCap = 1` shows the log being cut, and an upload of two parts with `MaxParts = 2` and a file of more than two bytes reaches every limit of the parser.
In `meta_connection`, `RateLimit = 2` lets a completion be refused, `MaxPages = 2` a listing that is cut off, and `MaxDeleteAttempts = 2` a medium that is given up.

`OneTickPerRecipient` is checked without slow ticks: when a tick outlives
15 minutes the code does give its row to another, and `campaign_send` shows that the
recipient is still messaged once, because of the key. `webhooks` lets slow workers happen
(`Age` needs no crash), so that `fail` may overwrite a row that another worker has processed.

### Fairness

`Campaigns!FairSpec`: weak fairness of each worker's tick, of claiming, and of time. Each
worker polls on a `setInterval` that no error stops (`campaigns/worker.js:22`, and
line 65 clears `running` whatever happened; Redis is taken to be ready), statements are answered or fail, and clocks advance.
Administrators, recipients, providers and crashes get none: a worker may crash at every
attempt. The queue drains even so, because the attempt is counted in the claim (`campaigns/repository.js:59`) and
not when it ends; the mutant `Claim_NotCounted` shows that it would not drain otherwise.

`WebhookReceipts!FairSpec`: weak fairness of each worker and of time, for the same reasons, with
finitely many crashes. That bound is an assumption with a reason: an interrupted call is given back
without a look at its attempts, so a call that kills its process
would be claimed for ever.

`Connectors!Unattended`: weak fairness of each worker's step, with publishing and delivery as the only actions: nobody replays, reconnects or
revokes, and no process dies. That the retry does not happen is then the code's doing alone.

## 4. Findings

1. **A recovered message loses its provider id** (`messaging/repository.js:30`). The
   row of an existing attempt is read with `SELECT a.*, m.external_message_id, ...`; of two columns with one
   name the driver keeps the last, which is null as long as there is no message. The recovery
   of a `provider_accepted` attempt then stores the message without its provider id, and no delivery
   receipt will find it. The test of the recovery hands the service a made-up row
   and expects the id (`test/canonical-template-service.test.js:49`).
2. **The retries of a failed campaign send never reach the provider** (`campaigns/worker.js:43`).
   All attempts of a recipient share a key, and the send path refuses a key whose attempt has failed. The document
   says "Failed sends use bounded exponential retry and then enter `dead_letter`"
   (`docs/m4-safe-campaigns.md:15`); the retries take place, without a send. `FailedSendIsRetried` says that a refused retry does not end a
   recipient whose only call has failed; in the trace the call fails, the retry claims the row, `Reserve` finds the failed attempt and refuses the key, and
   the row is in `dead_letter`. No worker dies in it.
3. **An opt-out can be processed without effect** (`messaging/metaWebhookWorker.js:3`). The receipt is
   committed before the handler that writes the suppression runs; a crash in between is
   not repaired. When the handler throws, Meta's receipt is retried, finds its message stored and is processed
   without the handler. YCloud's worker calls it again, and `ThrowingHandlerIsRepeated` of run `webhooks` shows that this is
   enough as long as no process dies. The document says that keywords "create a workspace
   suppression during verified webhook processing" (`docs/m4-safe-campaigns.md:11`).

4. **A failed connector delivery is not retried** (`connectors/worker.js:5`). A failure sets the connection to `degraded` (line 6), and the claim wants
   `c.status='active'`; the row with its next attempt, and all other rows of the connection, wait until somebody reconnects. The document promises "bounded
   retries, and dead-letter state" (`docs/m5-connector-framework.md:12`), a test is named "reference connector failure is
   retryable" (`test/connector-worker.test.js:4`).

Met while modelling, in the models, and not stated as a property because the code promises nothing else:

- *Calls.* A call whose webhooks come without the correlation id before the answer gets a session of its own, and the session that reserved the
  recipient keeps it for good; so does a refused connect whose process dies between the two statements of the catch block (`messaging/metaCallService.js:137`).
- *Campaigns.* A draft set to `scheduled` (`campaigns/routes.js:65`) gets no date and cannot be given one, so it never starts. A deferral
  (pause, quiet hours, rate limit) counts as an attempt, so a recipient deferred four times is given up at its first failure. A row that is
  `processing` while its campaign is cancelled may go back to `pending` and stay. A row marked `sent` whose event cannot be inserted is taken for a failed send
  and queued again (`campaigns/repository.js:69`, `campaigns/worker.js:55`); when another tick has completed the campaign in between, it stays in the queue of a completed campaign. The recipient
  has its one message; `CompletedLeavesNobody` and `SettledIsFinal` except nobody else. A campaign whose last row is settled by the recovery of stuck rows or
  by a suppression stays `running`.
- *Connection.* Switching messages on may wait for the number behind a disconnection or a deauthorisation, and then sets `automation_enabled` of a number whose connection is
  revoked: of the three rows it reads it locks one, and PostgreSQL rechecks that one (`messaging/metaConnectionLifecycleRepository.js:67-73`). Such a connection is inactive and has no credentials, so nothing leaves from it
  (`OffMeansOff`, `OnlyWhenOn`), but the switch shows on. Diagnostics begun before a disconnection may declare its token valid after it. A signup whose install is committed and whose finalize fails
  tells its user of an error. Cancelling counts against the rate limit of completions.
- *Templates and media.* Of two overlapping syncs the older listing may be written last. A medium deleted with a lost answer is asked for again, refused, and given up, never marked
  deleted. `FOR UPDATE SKIP LOCKED` in no transaction (`messaging/metaMediaRepository.js:40`) does not keep two cleaners apart, so attempts may pass the limit by one for each.
- *Connectors.* A late delivery sets a revoked connection active or degraded again, without its credentials. Two webhooks at once lose one's checkpoint.
- *GHL installation.* Provisioning and a team sync take different locks, so a link may move to another hub user and leave a member behind. `onInstall` looks again before
  it provisions, not under the lock, so an uninstall in between is overwritten (comment at `providers/ghlAgencyInstall.js:83`). An install event is consumed
  before provisioning may fail. The uninstall webhook revokes only with a signed-in session (`providers/ghlPrivatePilot.js:57`). A refresh whose commit or answer is lost leaves the
  installation without a good token until it is connected anew. So does an answer without a new refresh token, for an agency: it is normalised to null (`providers/ghlContract.js:7`) and
  spread over the old one (`providers/ghlAgencyInstall.js:34`), which would have stayed good; `TokenSurvives` excepts this case alone, and a location keeps its token (`providers/ghlPrivatePilot.js:27`). An embedded session outlives a revocation by up to 30 minutes, and its nonce is spent
  even when the browser session then fails; two activation invites at once leave two live ones (`providers/ghlEmbeddedSso.js:49`).
- *GHL messages.* A correlation that was claimed and then failed is a duplicate for ever (`providers/ghlPrivatePilot.js:58`). A workflow request repeated with another
  `from_number` sends nothing: the key leaves the number out, the hash does not.
- *Store and billing.* The limit on users is looked at on the loaded copy only, so two processes exceed it. The seven `SELECT`s of a load are no snapshot. The status of an expired invite is lost, because the
  operation throws. Webhooks of two billing providers can mix provider and status; a second checkout sets a paid workspace to pending.
- *OpenWA.* `unread_count` counts duplicates; acknowledgements have no rank; a processed receipt is overwritten by a failing attempt that ran along; two requests with one key both
  send; the record after the echo returns the id of no row; enabling a number again makes a new connection, for which a redelivered event is new; enabling stays committed when the webhook cannot be registered.
- *Media uploads.* The upload route limits a part by the content type of its file (`messaging/metaMediaMultipart.js:100`); the model has one limit, the parser's default. Whether a header is too long depends on the chunks, since the limit is looked at when a chunk has no end of it; `ChunkingIsInvisible` is about uploads within the limits.

Seen in code that is not modelled: the generic API looks an idempotency key up and stores it in separate steps, so two requests with one key both upsert their contact; a browser relaunched while `taskkill` is pending loses its
profile (`launcher.js`); `display_name` and `historySharing` of a coexistence receipt depend on the order of delivery (`messaging/metaCoexistenceReceipts.js`).

## 5. What is proved

Every safety property of every passing run is a theorem: the runs show it on the instances of section 3, the
theorem for every value of the constants that satisfies the assumptions of its module. Where a guard has a bound (`MaxCrashes`, `MaxTokens`,
`MaxDeferrals` and the like), the theorem holds for any value of it; nothing else bounds crashes, retries, lost answers or processes. The properties are hardly ever inductive: they say what must not have happened, not who may still
do it. So each module has an inductive invariant (`IInv`, or `...Inv` where a module proves of several components) that adds *why*. TLC has checked
each of them as an invariant of its component's run before it was proved (`IInv` of the calls on 1.3 million states, for example, `MediaInv` on the 5 thousand states of the uploads).

The assumptions are named, stand in the module that declares the constants, and TLC evaluates them on every run. They say four
things: a null value is not a value (`NoRecipient \notin Recipients`), an input has the fields its kind has (a webhook event, a CRM event, an install
event), a limit is a natural number, positive where the code's is, and a request is described by its own bytes (`UploadAssumption`). `MaxDeferrals >= MaxAttempts` in `Campaigns` is
about a bound of the model: it must not stop a row before the code does.

### Sending

`CanonicalSendProofs`, from `SendAssumption` alone:

- `SendInvariant`: `Spec => []IInv`. That `calls[k] <= 1` says nothing of
  who may call next. `IInv` adds the reason. A caller between its reservation and its settlement is the *creator* of
  its key; a key has at most one creator; while the creator is before the call the key has no call, after
  it the status of the row tells what has become of it; and a caller that recovers the row does so only from
  `provider_accepted` on, when the provider has the content the row is bound to.
- `SendTypeCorrect`, `ProviderCalledAtMostOnce`, `StoredMeansSent`, `SuccessIsTrue`: the
  invariants of run `send`, consequences of `IInv`.
- `AttemptsMoveOnward`: the action property, one case for each action. Two `UPDATE`s do not
  look at the status they overwrite; the invariant is what makes them safe.
- `ImplementsAbstract`: the refinement of `AtMostOnceSend`, where `bound` is the request of the row and `outcome` its
  status with everything undecided mapped to `open`; each action maps to a `Bind`, `Call`, `Fail`, `Store` or a
  stutter.

`CampaignsProofs` instantiates those theorems with workers as callers and recipients as keys (`Path`).

- `QueueImplementsSend`: `Spec => Send!Spec`. Claims, the 15-minute recovery, administrators, opt-outs, receipts and crashes are to the send path
  steps of its own or stutters. So `Path!IInv` holds in the queue without being proved again, and
  `QueueImplementsAtMostOnceSend` gives the queue the abstract promise by composing both refinements.
- `CampaignInvariant`: `Spec => []IInv`, where `IInv` has `Path!IInv` and adds how a tick and its send belong together (`Linked`), that what is counted as sent, or
  about to be, or acknowledged, is at the provider and in the inbox (`Said`), which ticks an opt-out has reached (`Honoured`), and who may still write a row (`Alone`, `InTurn`).
- `SentIsTrue`, `RecipientMessagedOnce`, `OptOutStopsTheTick`: the invariants of run `campaign_send`, for any ticks, slow ones and failing events included.
- `RecipientHasOneTick`, `CompletionIsTrue` and `SettledStays` assume `~SlowTicks`, as run `campaign_queue` does, and nothing of failures or crashes. The hypothesis is
  needed: a tick that outlives the 15 minutes is joined by another on its row. It is a switch of the model. What a failed `event` does to a row that was sent is part
  of the invariant: whoever is out of its turn with its row has sent its message (`InTurn`), and so a completed campaign has, of an open row, either no message to send or one that was sent (`Finished`).

### Webhooks and calls

`WebhookReceiptsProofs`, for any workers, events, batch sizes and either source:

- `ReceiptInvariant`: `IInv` adds what a worker has in hand at each step (`Shape`), and that a receipt that is no call has one worker (`Apart`): the claim
  asks for `received` and `failed`, and only calls are taken from a slow worker. A processed receipt has had its effect (`Effects`), Meta's handler was called once at most (`CalledWhenStored`), and
  as long as no process has died, who is in processing is in a batch (`InHand`). The lemmas on ranks (`NeverBack`, `Overtaken`, `AppliedIsEffective`) say what
  one event makes of its message's status.
- `ReceiptsStayTrue`, `HandlerCalledOnce` (Meta), `HandlerIsRepeated` (YCloud), and the action property `DeliveryIsKept`: a delivered or read message is never shown as less.

`MetaCallsProofs`, for any agents, keys, calls, answers and webhooks in any order:

- `CallInvariant`: the provider's calls are invisible to the service, so `IInv` is about how rows and calls are tied: a key reserves one session and places one call (`Reserved`, `Placed`), a
  session and a call belong to each other and to nobody else (`Bound`), what a request has still to do fits what the provider has done (`Settling`), a session
  that says it has ended has no call that lives (`EndIsTrue`), and the answer the provider has is the session's (`Answered`).
- `OneCall`, `CommandsTellTheTruth`, `CallHasOneAnswer`, `CallFindsItsSession`: the invariants of run `calls`; `SessionEndsOnce`: its action property.

### What meets in a connection of Meta

The first part of `CoexistenceJobsProofs` is about the connections alone, for any phones and diagnosing requests:

- `OffStaysOff`: `LifecycleSpec => []OffMeansOff`. `OnlyKeyed`
  adds that a connection that works, or is about to, has its credentials, and `Begun` that a switch-on that waits has found one that was active, which never becomes `connecting` again. One lemma for what a write must be (`Sound`), one case for each operation.
- `ConnectionTypeCorrect`: the types, and with them that a connection never becomes `absent` again (`LifecycleRemains`).

The second is about the jobs, for any phones and workers. `JobSpec` is the jobs beside the life of the connections.

- `AskedOnce`: `JobSpec => []OneShot`. `IInv` adds who may still ask: a job that nobody has claimed has not been asked
  for and is in nobody's hands (`Fresh`), nor has one that waits in a batch or is about to be posted (`Unasked`), a job is in the hands of one worker (`OneWorker`), `accepted`
  is Meta's word (`Accepted`), and a job in somebody's hands has its predecessors asked for (`InOrder`). Jobs are inserted once, because a connection
  never becomes absent again (`None`, by the lemmas of the first part). An accepted job is in nobody's hands any more (`Over`).
- `JobsAskByIntent`: `JobSpec => AsksByIntent`, the refinement of `WriteAhead`. The last statement of a worker does not look at the row it writes,
  which a sweep may have changed; `Over` and `OneWorker` are why an acceptance is the last word all the same, and `Fresh` why `expired` is true.
- `JobsKeepLifecycle`: `JobSpec => LifecycleSpec`. The jobs are to a connection one more way to be installed, so `OffStaysOff` holds beside them.
- `JobsTypeCorrect`: the types.

`MCMetaConnectionProofs` puts all six components together. Run `meta_connection` runs one at a time beside a connection that comes and goes; `TogetherSpec` runs all of them at once, more than TLC
can afford on the run's instance.

- `TogetherInvariant`, and from it `CatalogueStaysExact` (a sync that nothing disturbed leaves Meta's catalogue, whoever else syncs), `SignupSucceedsOnce` (a success is the
  deletion of the state, and whoever is about to delete it has installed a number that no step takes away), `CleanupStaysTrue` (the attempts of a medium, and those that cleaners still
  have in hand, stay within the limit and one for each cleaner, hence the finite sets of cleaners), `WorkflowSendsWhenOn`.
- `TogetherKeepsJobs`: `TogetherSpec => JobSpec`, so the theorems of both parts carry over.
- `PartsOfTheWhole`: `Spec => TogetherSpec`: what TLC runs is a case of the whole. `EveryRun` therefore has all six properties of the run.

### Integrations

`IntegrationsProofs`. The components share no row, so `PartsOfTheWhole` (`Spec` implies the specification of each) carries each component's theorem to the run.

- `MessagesAreImportedOnce`: what must not happen twice is written in a row before it may happen, and who wrote it is alone with it. `SyncInv` says so of the import (`Intended`), of a medium
  (`Archived`) and of the folder (`Foldered`), for processes whose database session, and with it the lock, breaks in the middle.
- `SyncImportsByIntent`: the rows of messages, media and the folder implement `WriteAhead`. From `SyncInv` before and after a step it follows that a step of a row is one of the
  abstract ones, once one knows that no act is forgotten, none happens of a cleared row, and what is done stays so (`ImportsMoveOn`, `FilesMoveOn`).
- `TriggersFireOnce`: `TriggerInv`: what is in flight is in one process's hands and marked `sending`, what a batch still holds is `pending` (`Underway`).
  `TriggersRunByIntent` is the refinement of `WriteAhead`, by the same argument (`TriggersMoveOn`).
- `TokensSurvive`, `TokensTyped`: who asks or saves holds the row alone (`RowLocked`), who asks has the stored token in hand (`AskedStored`), a token that
  a callback brings is good and nobody else's (`TokensInHand`, `TokensApart`), and the row holds a good token, or its holder has the next one, or it is an agency's and holds none since
  GHL answered without (`TokenUsable`). `MaxTokens`, a bound in the guards, is any value here.
- `OpenReportsAreTrue`: each request under way claims no more than is so (`Claims`), and nothing that it claims is taken back (`Grows`).
- `RevocationIsSilent`, `NewestWebhookWins`: a delivery claimed after a revocation has no credentials (`Keyless`); who applies an event has seen what was applied last, which the checkpoint
  holds but for one write (`UpToDate`). The property speaks of the runs that are not `disturbed`: no two events applied at once, no checkpoint reset or left unwritten, which section 4 tells of.
- `StoreInvariant`, `PlanIsKept`, `NothingIsOverwritten`: what one operation makes of its copy is small: one number at most, and a user of whom it has accepted (`Small`), so that the difference, held against the row of the
  moment when it is written, is within the plan by counting (`FiniteSetTheorems`). `NothingIsOverwritten` is about every column for which the code compares.
- `TenantsAreFinal`: a location has one workspace or none (`Homes`), who provisions holds its lock and what it read of the location is still so (`Locked`), and no administrator is a member or linked (`KeptOut`), though
  provisioning and team synchronisation take different locks; a nonce opens one session (`OpenedOnce`).

### Uploads

`MediaMultipartProofs`, for any requests, chunk sizes and limits. It assumes `UploadAssumption`. Besides `Laid` that is `UploadLimits`: a chunk has a byte at least, limits are natural
numbers, and `MaxHeaderBytes` is no less than the length of the marker. The code's is 16 KB, nobody passes another, and a boundary has 200 characters at most (`metaMediaMultipart.js:8`, `:25`).

- What is buffered is a window of the request: the bytes from where the parser stands to where the chunks have come (`Window`, with lemmas on what consuming, joining and searching
  a window do). `Good` says where the parser stands and what it has parsed, by the request alone: after the boundary `at[i]` and the parts before it, or
  so many bytes into the data of the next part. `Waits` says that what it looks for is not in the window yet, and so bounds what the buffer keeps. Neither mentions a chunk.
- One lemma for each state of the automaton (`OpeningSound`, `SuffixSound`, `HeadersSound`, `BodySound`): a turn keeps `Good`, and fails only on a request that is not whole or not within the limits (`Fits`).
  `BodySound` is the subtle one: what the body passes on cannot be the beginning of a marker, because as many bytes as a marker has are held back, and the marker
  that ends the part is the first of the request in its data, wherever the chunk was cut.
- `ProcessSound`: the loop comes to its end within as many turns as there are bytes, and keeps `Good`. This is an induction over the turns, though the
  library's rules for induction cannot be used here, since they take a predicate as a parameter. The set of the turns at which something fails is a set of naturals like any other, and if
  it is not empty it has a least element (`LeastNat`, from the well-foundedness of `<`): the turn before was sound, and by `TurnSound` this one is.
- `ChunksInvisible`, and from it `ChunksStayInvisible` of `IntegrationsProofs`: `MediaInv` adds to `Good` and `Waits` what is on disk, that a request that is done is whole with all of
  its parts parsed (`WholeIsDone`), and that an error means it does not fit. So a parse and its refusal depend on the request, and not on how it was cut.

### Only model-checked

- The liveness properties `ClaimsEnd`, `QueueDrains`, `CallsAreTakenUp` and `RetriesEnd`: the prover has neither fairness nor `ENABLED`.
- The four violation runs: a counterexample is what TLC finds, not a theorem.

## 6. What is not modelled

- Text: validation, wording, phone numbers, payload normalisation, signatures, encryption.
- Quiet hours, the rate limiter of campaigns and backoff delays: a free choice of whether and when.
- The import of recipients, templates' parameters, upload to and download from Meta.
- Kinds `contact` and `history_progress` of Meta's webhooks, which only write details. A receipt whose worker
  crashed is modelled as the code leaves it: in `processing`, and only calls are given back.
- Permission requests of the calling API (a command without a session), their history, and the SDP that a webhook brings.
- Two receipts of one recipient under way in `syncDelivery` at once (`Campaigns` has one).
- The order of two opt-out messages of one contact in the handler.
- GHL: the inbound bridge with its correlations, diagnostics, the mapping of numbers, the call provider.
- Store: password, role and activation changes, creating a workspace, the first start. They are deltas like the modelled ones.
- The inbox (queries, and events to browsers that nobody waits for), the generic API (an upsert), HTTP wiring, process management of the launcher, monitoring, the
  mobile application, pages and deployment.

## 7. Plan

Done: everything in section 2. Next, most important first:

1. **Convergence** of the details a coexistence receipt writes (newest contact source, progress of a phase), a module beside `WebhookReceipts`.
2. **The inbound bridge** of GHL with its correlations.
