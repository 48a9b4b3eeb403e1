--------------------------- MODULE WebhookReceipts ---------------------------
(***************************************************************************)
(* Durable webhook ingestion: admission of the provider's events into      *)
(* webhook_receipts, the workers that claim and process them               *)
(* (MetaWebhookWorker, YCloudWebhookWorker and their repositories), the    *)
(* callback for inbound messages, retries and dead letters.                *)
(*                                                                         *)
(* An event stands for what its payload says: its kind, the message it is  *)
(* about and the status it reports.  stored is the row of messages with    *)
(* the event's provider message id.  processReceipt is one transaction and *)
(* one step; the callback and fail are statements of their own after it.   *)
(***************************************************************************)
EXTENDS Integers, FiniteSets

CONSTANTS Workers,
          Messages,     \* provider message ids
          Events,       \* what the provider reports, [kind, msg, status]
          Sources,      \* the providers considered
          MaxAttempts,  \* 5 in the code: attempts before dead_letter
          Batch,        \* 10 in the code: receipts one claim takes
          MaxCrashes,   \* bound of the model: worker processes that die
          NoEvent

Kinds == {"inbound", "history", "echo", "status", "call"}
Reported == {"sent", "delivered", "read", "failed"}

ASSUME WebhookAssumption ==
  /\ Events \subseteq [kind : Kinds, msg : Messages, status : Reported \cup {"none"}]
  /\ \A e \in Events : e.kind = "status" <=> e.status # "none"
  /\ NoEvent \notin Events
  /\ Sources \subseteq {"meta_whatsapp", "ycloud_whatsapp"}
  /\ MaxAttempts \in Nat \ {0} /\ Batch \in Nat \ {0} /\ MaxCrashes \in Nat

VARIABLES
  source,    \* webhook_receipts.source: whose receipts these are, never changed
  receipts,  \* webhook_receipts, by external_event_id
  old,       \* receipts that have been processing for 90 seconds
  stored,    \* provider message id -> status of its row, or "none"
  work,      \* worker -> claimed receipts not done, the one under way, its step
  begun,     \* provider message id -> onInboundMessage callbacks begun (history)
  handled,   \* provider message ids for which one has completed (history)
  crashes    \* processes that have died, against MaxCrashes

vars == <<source, receipts, old, stored, work, begun, handled, crashes>>

-----------------------------------------------------------------------------
Meta == source = "meta_whatsapp"

ReceiptStatus == {"absent", "received", "processing", "processed", "failed", "dead_letter"}
MessageStatus == {"none", "received", "accepted"} \cup Reported

Idle == [step |-> "idle", event |-> NoEvent, batch |-> {}]

TypeOK ==
  /\ source \in Sources
  /\ receipts \in [Events -> [status : ReceiptStatus, attempts : Nat]]
  /\ old \subseteq Events
  /\ stored \in [Messages -> MessageStatus]
  /\ work \in [Workers -> [step : {"idle", "process", "callback", "fail"},
                           event : Events \cup {NoEvent}, batch : SUBSET Events]]
  /\ begun \in [Messages -> Nat]
  /\ handled \subseteq Messages
  /\ crashes \in 0..MaxCrashes

Init ==
  /\ source \in Sources
  /\ receipts = [e \in Events |-> [status |-> "absent", attempts |-> 0]]
  /\ old = {}
  /\ stored = [m \in Messages |-> "none"]
  /\ work = [w \in Workers |-> Idle]
  /\ begun = [m \in Messages |-> 0]
  /\ handled = {}
  /\ crashes = 0

-----------------------------------------------------------------------------
(***************************************************************************)
(* Around the workers.                                                     *)
(***************************************************************************)

\* admit, admitSigned: the receipt is inserted before the provider gets its 200.
\* A repeated delivery hits the unique key and changes nothing; nor does an event
\* of an asset resolveAsset does not find.  YCloud reports no calls, and its
\* history as echoes.
Admit(e) ==
  /\ Meta \/ e.kind \notin {"call", "history"}
  /\ receipts[e].status = "absent"
  /\ receipts' = [receipts EXCEPT ![e].status = "received"]
  /\ UNCHANGED <<source, old, stored, work, begun, handled, crashes>>

\* recordOutbound stores what the application has sent.
RecordSent(m) ==
  /\ stored[m] = "none"
  /\ \A e \in Events : e.msg = m => e.kind # "inbound"
  /\ stored' = [stored EXCEPT ![m] = "accepted"]
  /\ UNCHANGED <<source, receipts, old, work, begun, handled, crashes>>

\* Ninety seconds pass.  The code asks for this of Meta's calls only.
Age(e) ==
  /\ e.kind = "call"
  /\ receipts[e].status = "processing"
  /\ old' = old \cup {e}
  /\ UNCHANGED <<source, receipts, stored, work, begun, handled, crashes>>

-----------------------------------------------------------------------------
(***************************************************************************)
(* The worker.                                                             *)
(***************************************************************************)

\* Plausible bug: interrupted calls are not looked for.
Interrupted_None == {}

\* The receipts claim gives back: calls of Meta that were interrupted, nothing else.
Interrupted == {e \in old : receipts[e].status = "processing"}

\* The receipts after claim's first UPDATE.
Released == [e \in Events |-> IF e \in Interrupted THEN [receipts[e] EXCEPT !.status = "failed"]
                                                   ELSE receipts[e]]

Due == {e \in Events : Released[e].status \in {"received", "failed"}}

\* Plausible bug: the attempt is not counted.
Claim_NotCounted(w, S) ==
  /\ work[w].step = "idle"
  /\ S \subseteq Due /\ S # {} /\ Cardinality(S) <= Batch
  /\ receipts' = [e \in Events |-> IF e \in S THEN [Released[e] EXCEPT !.status = "processing"]
                                             ELSE Released[e]]
  /\ old' = old \ (Interrupted \cup S)
  /\ work' = [work EXCEPT ![w] = [step |-> "process", event |-> NoEvent, batch |-> S]]
  /\ UNCHANGED <<source, stored, begun, handled, crashes>>

\* claim: a batch of the receipts whose next_attempt_at has passed, whichever
\* these are.  Its statements are taken as one step.
Claim(w, S) ==
  /\ work[w].step = "idle"
  /\ S \subseteq Due /\ S # {} /\ Cardinality(S) <= Batch
  /\ receipts' = [e \in Events |-> IF e \in S
                                   THEN [status |-> "processing",
                                         attempts |-> receipts[e].attempts + 1]
                                   ELSE Released[e]]
  /\ old' = old \ (Interrupted \cup S)
  /\ work' = [work EXCEPT ![w] = [step |-> "process", event |-> NoEvent, batch |-> S]]
  /\ UNCHANGED <<source, stored, begun, handled, crashes>>

\* claim when nothing is due yet.
ClaimNothing(w) ==
  /\ work[w].step = "idle"
  /\ Interrupted # {}
  /\ receipts' = Released
  /\ old' = old \ Interrupted
  /\ UNCHANGED <<source, stored, work, begun, handled, crashes>>

\* Worker w is done with event e.
Finish(w, e) ==
  work' = [work EXCEPT ![w] = IF @.batch = {e} THEN Idle
                              ELSE [step |-> "process", event |-> NoEvent,
                                    batch |-> @.batch \ {e}]]

\* ranks; -1 is for a status without a rank.
Rank(s) == CASE s = "accepted"  -> 1
             [] s = "sent"      -> 2
             [] s = "delivered" -> 3
             [] s = "read"      -> 4
             [] OTHER           -> -1

\* Plausible bug: a failure is believed whenever it comes.
ShouldAdvance_AnyFailure(current, next) ==
  next = "failed" \/ Rank(next) > Rank(current)

\* Plausible bug: the last status reported wins.
ShouldAdvance_Last(current, next) == TRUE

\* shouldAdvanceStatus.
ShouldAdvance(current, next) ==
  IF next = "failed" THEN current \notin {"delivered", "read"}
                     ELSE Rank(next) > Rank(current)

\* The row of e's message once e is processed: persistMessage, persistStatus.
Applied(e) ==
  CASE e.kind = "status" /\ ShouldAdvance(stored[e.msg], e.status)    -> e.status
    [] e.kind \in {"inbound", "history"} /\ stored[e.msg] = "none"    -> "received"
    [] e.kind = "echo" /\ stored[e.msg] = "none"                      -> "sent"
    [] OTHER                                                          -> stored[e.msg]

\* A status whose message has no row yet cannot be processed.
Ready(e) == e.kind = "status" => stored[e.msg] # "none"

\* Plausible bug: the callback does not ask whether the message was stored before.
CallbackDue_Always(e) == e.kind = "inbound"

\* Plausible bug: YCloud's worker asks for a new message, as Meta's does.
CallbackDue_NewOnly(e) == e.kind = "inbound" /\ stored[e.msg] = "none"

\* Whether the worker calls onInboundMessage once e is committed: Meta's not
\* for a message that had been stored before.
CallbackDue(e) == e.kind = "inbound" /\ (Meta => stored[e.msg] = "none")

\* processReceipt commits.
Process(w, e) ==
  /\ work[w].step = "process"
  /\ e \in work[w].batch
  /\ Ready(e)
  /\ stored' = [stored EXCEPT ![e.msg] = Applied(e)]
  /\ receipts' = [receipts EXCEPT ![e].status = "processed"]
  /\ old' = old \ {e}
  /\ IF CallbackDue(e)
     THEN /\ work' = [work EXCEPT ![w].step = "callback", ![w].event = e]
          /\ begun' = [begun EXCEPT ![e.msg] = @ + 1]
     ELSE /\ Finish(w, e)
          /\ UNCHANGED begun
  /\ UNCHANGED <<source, handled, crashes>>

\* processReceipt throws and is rolled back: the asset no longer resolves, the
\* payload is not usable, the database fails.
ProcessFails(w, e) ==
  /\ work[w].step = "process"
  /\ e \in work[w].batch
  /\ work' = [work EXCEPT ![w].step = "fail", ![w].event = e]
  /\ UNCHANGED <<source, receipts, old, stored, begun, handled, crashes>>

\* onInboundMessage: the opt-out handler among others.
Callback(w) ==
  LET e == work[w].event IN
  /\ work[w].step = "callback"
  /\ handled' = handled \cup {e.msg}
  /\ Finish(w, e)
  /\ UNCHANGED <<source, receipts, old, stored, begun, crashes>>

CallbackFails(w) ==
  /\ work[w].step = "callback"
  /\ work' = [work EXCEPT ![w].step = "fail"]
  /\ UNCHANGED <<source, receipts, old, stored, begun, handled, crashes>>

\* Plausible bug: a receipt that fails ends the tick.
Fail_EndsTick(w) ==
  LET e == work[w].event IN
  /\ work[w].step = "fail"
  /\ receipts' = [receipts EXCEPT ![e].status =
                    IF receipts[e].attempts >= MaxAttempts THEN "dead_letter" ELSE "failed"]
  /\ old' = old \ {e}
  /\ work' = [work EXCEPT ![w] = Idle]
  /\ UNCHANGED <<source, stored, begun, handled, crashes>>

\* fail: the row is overwritten, whatever it is by now.
Fail(w) ==
  LET e == work[w].event IN
  /\ work[w].step = "fail"
  /\ receipts' = [receipts EXCEPT ![e].status =
                    IF receipts[e].attempts >= MaxAttempts THEN "dead_letter" ELSE "failed"]
  /\ old' = old \ {e}
  /\ Finish(w, e)
  /\ UNCHANGED <<source, stored, begun, handled, crashes>>

\* The process dies; or fail itself fails, which ends the tick as well.
Crash(w) ==
  /\ work[w].step # "idle"
  /\ crashes < MaxCrashes
  /\ crashes' = crashes + 1
  /\ work' = [work EXCEPT ![w] = Idle]
  /\ UNCHANGED <<source, receipts, old, stored, begun, handled>>

-----------------------------------------------------------------------------
WorkerStep(w) ==
  \/ \E S \in SUBSET Due : Claim(w, S)
  \/ ClaimNothing(w)
  \/ \E e \in work[w].batch : Process(w, e)
  \/ \E e \in work[w].batch : ProcessFails(w, e)
  \/ Callback(w)
  \/ CallbackFails(w)
  \/ Fail(w)

Next ==
  \/ \E e \in Events : Admit(e)
  \/ \E m \in Messages : RecordSent(m)
  \/ \E e \in Events : Age(e)
  \/ \E w \in Workers : WorkerStep(w)
  \/ \E w \in Workers : Crash(w)

Spec == Init /\ [][Next]_vars

\* Each worker's timer goes on firing, its statements are answered, and time
\* passes.  Providers, callbacks and crashes are left free.
Fairness == /\ \A w \in Workers : WF_vars(WorkerStep(w))
            /\ \A e \in Events : WF_vars(Age(e))

FairSpec == Spec /\ Fairness

-----------------------------------------------------------------------------
(***************************************************************************)
(* Properties.                                                             *)
(***************************************************************************)

\* A receipt marked processed has had its effect, and later events have not undone it: its
\* message is stored, and shows at least the delivery it reported.  One that is processing is
\* in some worker's hands, unless a process has died: a receipt that fails does not strand
\* those claimed with it (metaWebhookRepository.js:14-17, metaWebhookWorker.js:3).
ReceiptsAreTrue ==
  \A e \in Events :
    /\ receipts[e].status = "processed" =>
         /\ e.kind # "call" => stored[e.msg] # "none"
         /\ e.status \in {"delivered", "read"} => Rank(stored[e.msg]) >= Rank(e.status)
    /\ receipts[e].status = "processing" =>
         crashes > 0 \/ \E w \in Workers : e \in work[w].batch

\* "status progression never regresses and late failure cannot replace delivery"
\* (test/meta-webhook-worker.test.js:3), in whatever order two workers apply the
\* events of a message.
StatusNeverRegresses ==
  [][\A m \in Messages : stored[m] \in {"delivered", "read"} =>
       Rank(stored'[m]) >= Rank(stored[m])]_vars

\* However Meta's events are redelivered, retried and failed, the inbound handler
\* is called once for a message: it never repeats an opt-in or an opt-out that a
\* later message has revoked (metaWebhookWorker.js:3).
HandledAtMostOnce == Meta => \A m \in Messages : begun[m] <= 1

\* A call whose processing was cut off is taken up again
\* (metaWebhookRepository.js:13).
CallsAreTakenUp ==
  \A e \in Events : e.kind = "call" =>
    (receipts[e].status = "processing" ~> receipts[e].status # "processing")

\* No receipt is retried for ever: in the end it is processed, dead, or was
\* claimed by a process that died (metaWebhookRepository.js:18).
RetriesEnd ==
  \A e \in Events : <>[](receipts[e].status \notin {"received", "failed"})

\* "Exact inbound opt-out keywords ... create a workspace suppression during
\* verified webhook processing" (docs/m4-safe-campaigns.md:11): an inbound message
\* that is processed has been through the handler that creates the suppression,
\* or a worker is about to call it, or to note that the call has failed.
ProcessedIsHandled ==
  \A e \in Events : receipts[e].status = "processed" /\ e.kind = "inbound" =>
    \/ e.msg \in handled
    \/ \E w \in Workers : work[w].event = e

\* YCloud's worker repeats the handler for a message already stored, so that one
\* that throws is not forgotten while no process dies (ycloudWebhookWorker.js:1).
ThrowingHandlerIsRepeated == ~Meta /\ crashes = 0 => ProcessedIsHandled
=============================================================================
