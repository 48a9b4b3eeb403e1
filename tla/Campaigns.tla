------------------------------ MODULE Campaigns ------------------------------
(***************************************************************************)
(* One campaign and its durable queue: CampaignRepository, CampaignWorker, *)
(* the status route, suppression, consent and delivery receipts, over the  *)
(* canonical send path (Send, an instance of CanonicalSend in which a      *)
(* worker's tick is the caller and a recipient is the idempotency key      *)
(* `campaign:<recipient id>').                                             *)
(*                                                                         *)
(* A worker is a process that runs ticks: each statement is a step, so     *)
(* workers, the administrator, opt-outs and receipts interleave, and a     *)
(* process can die between two statements.                                 *)
(*                                                                         *)
(* Data abstracted: time is three facts, that a row has been processing    *)
(* for 15 minutes (old), that the scheduled date has passed (campaign.date)*)
(* and that next_attempt_at has passed (any pending row may be picked, or  *)
(* none); quiet hours and the rate limiter defer a tick at will.           *)
(***************************************************************************)
EXTENDS Naturals, FiniteSets

CONSTANTS Workers,      \* worker processes, each with one tick at a time
          Recipients,
          Fickle,       \* those who may opt out or in, or whose consent may change
          Orders,       \* the changes of status the administrator may ask for
          Template,     \* whether message_mode is official_template
          Official,     \* whether the number's provider is an official one
          ExtIds,       \* message ids the provider gives out
          MaxAttempts,  \* 4 in the code: failures before dead_letter
          MaxDeferrals, \* 1000 in the code: attempts when only deferred
          SlowTicks,    \* whether a tick may outlive the 15 minutes
          Failures,     \* whether a worker may die, or its insert of an event fail
          NoRecipient, NoKey, NoReq, NoExt

ASSUME CampaignAssumption ==
  /\ MaxAttempts \in Nat \ {0}
  /\ MaxDeferrals \in Nat /\ MaxDeferrals >= MaxAttempts
  /\ NoRecipient \notin Recipients
  /\ NoKey \notin Recipients /\ NoReq # "body" /\ NoExt \notin ExtIds
  /\ Fickle \subseteq Recipients
  /\ Orders \subseteq {"scheduled", "running", "paused", "cancelled"}
  /\ {Template, Official, SlowTicks, Failures} \subseteq BOOLEAN

VARIABLES
  campaign,  \* campaigns: its status, and where its scheduled date lies
  rows,      \* campaign_recipients
  old,       \* rows whose last update is more than 15 minutes ago
  optout,    \* recipients with a suppression
  consent,   \* recipients whose latest consent is granted and unexpired
  blocking,  \* recipients suppress() has yet to remove from the queue
  tick,      \* worker -> the statement it awaits next, its claimed row, and (history)
             \* whether the recipient has been opted out since the claim
  admin,     \* the administrator's request under way
  acks,      \* delivery receipts that have read their row
  attempt, messages, network, calls, pc, job, result   \* of the send path

Send == INSTANCE CanonicalSend WITH
  Callers <- Workers, Keys <- Recipients, Requests <- {"body"},
  TemplateRequests <- IF Template THEN {"body"} ELSE {},
  OfficialRequests <- IF Official THEN {"body"} ELSE {}

sendVars == <<attempt, messages, network, calls, pc, job, result>>
vars == <<campaign, rows, old, optout, consent, blocking, tick, admin, acks, sendVars>>

-----------------------------------------------------------------------------
CampaignStatus == {"draft", "scheduled", "running", "paused", "cancelled", "completed"}
Open == {"pending", "processing"}
Reached == {"sent", "delivered", "read"}
RowStatus == Open \cup Reached \cup
             {"failed", "suppressed", "unconsented", "cancelled", "dead_letter"}

Steps == {"idle", "campaign", "eligibility", "conversation", "sending", "write",
          "event", "complete"}

Idle == [step |-> "idle", row |-> NoRecipient, attempts |-> 0, to |-> "pending",
         optedOut |-> FALSE]

NoRequest == [step |-> "idle", to |-> "draft"]

TypeOK ==
  /\ campaign \in [status : CampaignStatus, date : {"none", "future", "past"}]
  /\ rows \in [Recipients -> [status : RowStatus, attempts : Nat,
                              ext : ExtIds \cup {NoExt}]]
  /\ {old, optout, consent, blocking} \subseteq SUBSET Recipients
  /\ tick \in [Workers -> [step : Steps, row : Recipients \cup {NoRecipient},
                           attempts : Nat, to : RowStatus, optedOut : BOOLEAN]]
  /\ admin \in [step : {"idle", "write", "cancel"}, to : CampaignStatus]
  /\ acks \subseteq [row : Recipients, to : {"delivered", "read", "failed"}]
  /\ Send!TypeOK

\* create: what an import leaves, a campaign with recipients that are pending,
\* or suppressed when a suppression was found, all of them with consent; and
\* createApprovedTrigger, whose campaign starts out running.
Init ==
  /\ campaign \in {[status |-> "draft", date |-> "none"],
                   [status |-> "scheduled", date |-> "future"],
                   [status |-> "scheduled", date |-> "past"],
                   [status |-> "running", date |-> "none"]}
  /\ optout \in SUBSET Fickle
  /\ rows = [r \in Recipients |->
               [status |-> IF r \in optout THEN "suppressed" ELSE "pending",
                attempts |-> 0, ext |-> NoExt]]
  /\ consent = Recipients
  /\ old = {} /\ blocking = {} /\ acks = {}
  /\ tick = [w \in Workers |-> Idle]
  /\ admin = NoRequest
  /\ Send!Init

-----------------------------------------------------------------------------
(***************************************************************************)
(* The worker: CampaignWorker.tick.                                        *)
(***************************************************************************)

Goto(w, step) == tick' = [tick EXCEPT ![w].step = step]

\* A row with a new status: its updated_at is now.
SetStatus(r, s) ==
  /\ rows' = [rows EXCEPT ![r].status = s]
  /\ old' = old \ {r}

\* Plausible bug: claim recovers nothing.
Recovered_Never(r) == rows[r]

\* What claim's two UPDATEs of rows stuck in processing make of row r.
Recovered(r) ==
  IF r \in old /\ rows[r].status = "processing"
  THEN [rows[r] EXCEPT !.status = IF rows[r].attempts < MaxAttempts
                                  THEN "pending" ELSE "dead_letter"]
  ELSE rows[r]

\* The campaign after claim's UPDATE of scheduled campaigns whose date is past.
Started == IF campaign.status = "scheduled" /\ campaign.date = "past"
           THEN [campaign EXCEPT !.status = "running"]
           ELSE campaign

\* Plausible bug: rows that another tick has claimed are returned too.
Claimable_AnyOpen ==
  {r \in Recipients : Recovered(r).status \in Open /\ Started.status = "running"
                      /\ Started.date # "future"}

\* Rows the query may return.
Claimable ==
  {r \in Recipients : Recovered(r).status = "pending" /\ Started.status = "running"
                      /\ Started.date # "future"}

\* Rows an UPDATE of claim has touched.
Touched == {r \in Recipients : Recovered(r) # rows[r]}

\* Plausible bug: the attempt is not counted.
Claim_NotCounted(w, r) ==
  /\ tick[w].step = "idle"
  /\ r \in Claimable
  /\ campaign' = Started
  /\ rows' = [q \in Recipients |-> IF q = r THEN [Recovered(r) EXCEPT !.status = "processing"]
                                           ELSE Recovered(q)]
  /\ old' = old \ (Touched \cup {r})
  /\ tick' = [tick EXCEPT ![w] = [step |-> "campaign", row |-> r,
                                  attempts |-> rows[r].attempts + 1, to |-> "pending",
                                  optedOut |-> r \in optout]]
  /\ UNCHANGED <<optout, consent, blocking, admin, acks, sendVars>>

\* claim, one transaction: recover, start, pick a row that is due, mark it.
Claim(w, r) ==
  /\ tick[w].step = "idle"
  /\ r \in Claimable
  /\ campaign' = Started
  /\ rows' = [q \in Recipients |->
                IF q = r THEN [Recovered(r) EXCEPT !.status = "processing", !.attempts = @ + 1]
                         ELSE Recovered(q)]
  /\ old' = old \ (Touched \cup {r})
  /\ tick' = [tick EXCEPT ![w] = [step |-> "campaign", row |-> r,
                                  attempts |-> rows[r].attempts + 1, to |-> "pending",
                                  optedOut |-> r \in optout]]
  /\ UNCHANGED <<optout, consent, blocking, admin, acks, sendVars>>

\* claim when no row is due: the recovery and the start are committed.
ClaimNothing(w) ==
  /\ tick[w].step = "idle"
  /\ Touched # {} \/ Started # campaign
  /\ campaign' = Started
  /\ rows' = [q \in Recipients |-> Recovered(q)]
  /\ old' = old \ Touched
  /\ UNCHANGED <<optout, consent, blocking, tick, admin, acks, sendVars>>

\* retry(recipient, error, limit) decides on the attempts the tick has claimed.
AfterFailure(w, limit) == IF tick[w].attempts >= limit THEN "dead_letter" ELSE "pending"

\* The tick has decided what its row becomes.
Decide(w, s) == tick' = [tick EXCEPT ![w].step = "write", ![w].to = s]

\* The campaign is read again, then quiet hours are looked at.
CheckCampaign(w) ==
  /\ tick[w].step = "campaign"
  /\ \/ /\ campaign.status # "running"
        /\ Decide(w, AfterFailure(w, MaxDeferrals))
     \/ /\ campaign.status = "running"
        /\ \/ Decide(w, AfterFailure(w, MaxDeferrals))
           \/ Goto(w, "eligibility")
  /\ UNCHANGED <<campaign, rows, old, optout, consent, blocking, admin, acks, sendVars>>

\* Plausible bug: the suppression found is not acted upon.
CheckEligibility_ConsentOnly(w) ==
  LET r == tick[w].row IN
  /\ tick[w].step = "eligibility"
  /\ \/ r \notin consent /\ Decide(w, "unconsented")
     \/ r \in consent /\ Goto(w, "conversation")
  /\ UNCHANGED <<campaign, rows, old, optout, consent, blocking, admin, acks, sendVars>>

\* eligibility, and what the tick makes of it.
CheckEligibility(w) ==
  LET r == tick[w].row IN
  /\ tick[w].step = "eligibility"
  /\ \/ r \in optout /\ Decide(w, "suppressed")
     \/ r \notin optout /\ r \notin consent /\ Decide(w, "unconsented")
     \/ r \notin optout /\ r \in consent /\ Goto(w, "conversation")
  /\ UNCHANGED <<campaign, rows, old, optout, consent, blocking, admin, acks, sendVars>>

\* The rate limiter, then resolveOrCreateConversation: none when the number
\* cannot send.
ResolveConversation(w) ==
  /\ tick[w].step = "conversation"
  /\ \/ /\ \E limit \in {MaxDeferrals, MaxAttempts} : Decide(w, AfterFailure(w, limit))
        /\ UNCHANGED sendVars
     \/ /\ Goto(w, "sending")
        /\ Send!Begin(w, tick[w].row, "body")
  /\ UNCHANGED <<campaign, rows, old, optout, consent, blocking, admin, acks>>

\* The send path's own steps; its policy sees the suppression and the consent.
Sending(w) ==
  LET r == tick[w].row IN
  /\ tick[w].step = "sending"
  /\ pc[w] # "idle"
  /\ \/ Send!SendStep(w) /\ pc[w] # "policy"
     \/ \E p \in Send!Policy :
          /\ p.suppressed = (r \in optout) /\ p.consented = (r \in consent)
          /\ Send!CheckPolicy(w, p)
  /\ UNCHANGED <<campaign, rows, old, optout, consent, blocking, tick, admin, acks>>

\* Plausible bug: a result without a message id is not looked for.
Confirmed_Pending(res) == res \in {"sent", "duplicate", "pending"}

\* Results after which the message exists.
Confirmed(res) == res \in {"sent", "duplicate"}

\* What the row becomes once the send has settled with res: a result without a
\* message id, like every error without a case of its own, is a failure to retry.
Outcome(w, res) ==
  CASE Confirmed(res)                           -> "sent"
    [] res = "CONTACT_SUPPRESSED"               -> "suppressed"
    [] res = "CONSENT_REQUIRED"                 -> "unconsented"
    [] res \in {"SESSION_TEMPLATE_REQUIRED", "APPROVED_TEMPLATE_REQUIRED",
                "TEMPLATE_PROVIDER_UNAVAILABLE"} -> "failed"
    [] OTHER                                    -> AfterFailure(w, MaxAttempts)

SendReturned(w) ==
  /\ tick[w].step = "sending"
  /\ pc[w] = "idle"
  /\ Decide(w, Outcome(w, result[w]))
  /\ UNCHANGED <<campaign, rows, old, optout, consent, blocking, admin, acks, sendVars>>

\* The UPDATE of transition or retry, on the row whatever it is by now.  A row
\* that is sent takes the provider id of its message.
Write(w) ==
  LET r == tick[w].row
      seen == IF tick[w].to = "sent" THEN Send!SeenExt(r) ELSE NoExt
  IN
  /\ tick[w].step = "write"
  /\ rows' = [rows EXCEPT ![r].status = tick[w].to,
                          ![r].ext = IF seen = NoExt THEN @ ELSE seen]
  /\ old' = old \ {r}
  /\ Goto(w, "event")
  /\ UNCHANGED <<campaign, optout, consent, blocking, admin, acks, sendVars>>

\* The event is stored; a retry ends there.
Event(w) ==
  /\ tick[w].step = "event"
  /\ IF tick[w].to = "pending" THEN tick' = [tick EXCEPT ![w] = Idle]
                               ELSE Goto(w, "complete")
  /\ UNCHANGED <<campaign, rows, old, optout, consent, blocking, admin, acks, sendVars>>

\* The event is not stored: the transition to `sent' is inside the try of the
\* tick, so its error is taken for a failed send; any other ends the tick.
EventFails(w) ==
  /\ Failures
  /\ tick[w].step = "event"
  /\ IF tick[w].to = "sent" THEN Decide(w, AfterFailure(w, MaxAttempts))
                            ELSE tick' = [tick EXCEPT ![w] = Idle]
  /\ UNCHANGED <<campaign, rows, old, optout, consent, blocking, admin, acks, sendVars>>

\* Plausible bug: what is being sent does not count as open.
Completed_ButProcessing(rs) ==
  IF campaign.status = "running" /\ \A r \in Recipients : rs[r].status # "pending"
  THEN [campaign EXCEPT !.status = "completed"]
  ELSE campaign

\* The last statement of transition: a running campaign without open rows is done.
Completed(rs) ==
  IF campaign.status = "running" /\ \A r \in Recipients : rs[r].status \notin Open
  THEN [campaign EXCEPT !.status = "completed"]
  ELSE campaign

Complete(w) ==
  /\ tick[w].step = "complete"
  /\ campaign' = Completed(rows)
  /\ tick' = [tick EXCEPT ![w] = Idle]
  /\ UNCHANGED <<rows, old, optout, consent, blocking, admin, acks, sendVars>>

\* The process dies, or a statement fails outside of the try: the row stays
\* processing.
Crash(w) ==
  /\ Failures
  /\ tick[w].step # "idle"
  /\ tick' = [tick EXCEPT ![w] = Idle]
  /\ IF pc[w] = "idle" THEN UNCHANGED sendVars ELSE Send!Crash(w)
  /\ UNCHANGED <<campaign, rows, old, optout, consent, blocking, admin, acks>>

-----------------------------------------------------------------------------
(***************************************************************************)
(* The administrator: PATCH /:id/status.                                   *)
(***************************************************************************)

\* The route's table of changes.
Allowed(s) ==
  CASE s = "draft"     -> {"scheduled", "running", "cancelled"}
    [] s = "scheduled" -> {"running", "paused", "cancelled"}
    [] s = "running"   -> {"paused", "cancelled"}
    [] s = "paused"    -> {"running", "cancelled"}
    [] OTHER           -> {}

\* The route reads the campaign and checks the change; the UPDATE comes later.
AdminRead(s) ==
  /\ admin.step = "idle"
  /\ s \in Allowed(campaign.status) \cap Orders
  /\ admin' = [step |-> "write", to |-> s]
  /\ UNCHANGED <<campaign, rows, old, optout, consent, blocking, tick, acks, sendVars>>

\* Plausible bug: the UPDATE guards against reviving a cancelled campaign only.
Terminal_CancelledOnly == {"cancelled"}

\* Statuses that setStatus leaves alone.
Terminal == {"cancelled", "completed"}

\* setStatus' UPDATE.
AdminWrite ==
  /\ admin.step = "write"
  /\ IF campaign.status \in Terminal
     THEN campaign' = campaign /\ admin' = NoRequest
     ELSE /\ campaign' = [campaign EXCEPT !.status = admin.to]
          /\ admin' = IF admin.to = "cancelled" THEN [admin EXCEPT !.step = "cancel"]
                                                ELSE NoRequest
  /\ UNCHANGED <<rows, old, optout, consent, blocking, tick, acks, sendVars>>

\* setStatus' second statement: what is queued is cancelled with the campaign.
CancelQueued ==
  /\ admin.step = "cancel"
  /\ rows' = [r \in Recipients |-> IF rows[r].status = "pending"
                                   THEN [rows[r] EXCEPT !.status = "cancelled"] ELSE rows[r]]
  /\ old' = {r \in old : rows[r].status # "pending"}
  /\ admin' = NoRequest
  /\ UNCHANGED <<campaign, optout, consent, blocking, tick, acks, sendVars>>

\* The server dies before the statement it awaits.
AdminDies ==
  /\ admin.step # "idle"
  /\ admin' = NoRequest
  /\ UNCHANGED <<campaign, rows, old, optout, consent, blocking, tick, acks, sendVars>>

-----------------------------------------------------------------------------
(***************************************************************************)
(* Opt-outs, receipts and time.                                            *)
(***************************************************************************)

\* A suppression is inserted: by suppress(), which goes on to the queue, or by
\* the handler of official inbound messages, which does not.
OptOut(r, viaSuppress) ==
  /\ r \notin optout
  /\ optout' = optout \cup {r}
  /\ blocking' = IF viaSuppress THEN blocking \cup {r} ELSE blocking
  /\ UNCHANGED <<campaign, rows, old, consent, tick, admin, acks, sendVars>>

\* suppress()' second statement; it looks at no suppression.
BlockQueued(r) ==
  /\ r \in blocking
  /\ blocking' = blocking \ {r}
  /\ IF rows[r].status = "pending" THEN SetStatus(r, "suppressed") ELSE UNCHANGED <<rows, old>>
  /\ UNCHANGED <<campaign, optout, consent, tick, admin, acks, sendVars>>

\* suppress() dies between its statements.
BlockDies(r) ==
  /\ r \in blocking
  /\ blocking' = blocking \ {r}
  /\ UNCHANGED <<campaign, rows, old, optout, consent, tick, admin, acks, sendVars>>

\* An inbound START deletes the suppression.
OptIn(r) ==
  /\ r \in optout
  /\ optout' = optout \ {r}
  /\ tick' = [w \in Workers |-> IF tick[w].row = r THEN [tick[w] EXCEPT !.optedOut = FALSE]
                                                  ELSE tick[w]]
  /\ UNCHANGED <<campaign, rows, old, consent, blocking, admin, acks, sendVars>>

\* A consent record is added, or the latest one expires.
ChangeConsent(r) ==
  /\ consent' = IF r \in consent THEN consent \ {r} ELSE consent \cup {r}
  /\ UNCHANGED <<campaign, rows, old, optout, blocking, tick, admin, acks, sendVars>>

\* syncDelivery reads the row of a provider id, if it may still move.
ReceiptRead(r, s) ==
  /\ rows[r].ext # NoExt
  /\ rows[r].status \in {"sent", "delivered"}
  /\ acks = {}
  /\ acks' = {[row |-> r, to |-> s]}
  /\ UNCHANGED <<campaign, rows, old, optout, consent, blocking, tick, admin, sendVars>>

\* ... and transitions it, without looking again; its completion included.
ReceiptWrite(a) ==
  /\ a \in acks
  /\ acks' = acks \ {a}
  /\ SetStatus(a.row, a.to)
  /\ campaign' = Completed(rows')
  /\ UNCHANGED <<optout, consent, blocking, tick, admin, sendVars>>

\* The provider's echo of a message, stored by the webhook handlers.
Echo ==
  /\ \E n \in network : Send!EchoWebhook(n)
  /\ UNCHANGED <<campaign, rows, old, optout, consent, blocking, tick, admin, acks>>

\* Fifteen minutes pass.  Unless ticks can be slow, the tick that claimed the
\* row is over by then.
Age(r) ==
  /\ rows[r].status = "processing"
  /\ r \notin old
  /\ SlowTicks \/ \A w \in Workers : tick[w].row # r
  /\ old' = old \cup {r}
  /\ UNCHANGED <<campaign, rows, optout, consent, blocking, tick, admin, acks, sendVars>>

\* The scheduled date passes.
DatePasses ==
  /\ campaign.date = "future"
  /\ campaign' = [campaign EXCEPT !.date = "past"]
  /\ UNCHANGED <<rows, old, optout, consent, blocking, tick, admin, acks, sendVars>>

-----------------------------------------------------------------------------
\* What a worker does without being told.
TickStep(w) ==
  \/ CheckCampaign(w)
  \/ CheckEligibility(w)
  \/ ResolveConversation(w)
  \/ Sending(w)
  \/ SendReturned(w)
  \/ Write(w)
  \/ Event(w)
  \/ EventFails(w)
  \/ Complete(w)

Next ==
  \/ \E w \in Workers, r \in Recipients : Claim(w, r)
  \/ \E w \in Workers : ClaimNothing(w)
  \/ \E w \in Workers : TickStep(w)
  \/ \E w \in Workers : Crash(w)
  \/ \E s \in Orders : AdminRead(s)
  \/ AdminWrite
  \/ CancelQueued
  \/ AdminDies
  \/ \E r \in Fickle, viaSuppress \in BOOLEAN : OptOut(r, viaSuppress)
  \/ \E r \in Fickle : BlockQueued(r)
  \/ \E r \in Fickle : BlockDies(r)
  \/ \E r \in Fickle : OptIn(r)
  \/ \E r \in Fickle : ChangeConsent(r)
  \/ \E r \in Recipients, s \in {"delivered", "read", "failed"} : ReceiptRead(r, s)
  \/ \E a \in acks : ReceiptWrite(a)
  \/ Echo
  \/ \E r \in Recipients : Age(r)
  \/ DatePasses

Spec == Init /\ [][Next]_vars

\* The interval timer of each worker keeps polling, a statement that was sent to
\* the database is answered, and time passes.  Nothing is assumed of people,
\* providers or crashes.
Fairness ==
  /\ \A w \in Workers : WF_vars(TickStep(w))
  /\ WF_vars(\E w \in Workers, r \in Recipients : Claim(w, r))
  /\ WF_vars(\E w \in Workers : ClaimNothing(w))
  /\ \A r \in Recipients : WF_vars(Age(r))
  /\ WF_vars(DatePasses)

FairSpec == Spec /\ Fairness

-----------------------------------------------------------------------------
(***************************************************************************)
(* Properties.                                                             *)
(***************************************************************************)

\* The provider took the body of this recipient, and its message is in the inbox.
Messaged(r) ==
  /\ \E n \in network : n.key = r
  /\ \E m \in messages : m.key = r

\* A recipient counted as sent has been (worker.js:50-55, :70).
SentMeansAccepted ==
  \A r \in Recipients : rows[r].status \in Reached => Messaged(r)

\* Whatever is claimed again, retried or recovered, a recipient is messaged once
\* (worker.js:43: the key is the recipient's).
MessagedAtMostOnce == \A r \in Recipients : calls[r] <= 1

\* An opt-out that precedes the claim is honoured by every tick that follows,
\* also in the official text, the template and the unofficial path
\* (repository.js:68, worker.js:36).
OptOutIsHonoured ==
  \A w \in Workers : tick[w].optedOut => tick[w].step # "sending"

\* A completed campaign leaves nobody without a message in the queue.  A row that
\* was sent may be left there: a tick whose event is not stored takes that for a
\* failed send and queues its row again, and another tick may have completed the
\* campaign in between (repository.js:69, worker.js:55, :61).
CompletedLeavesNobody ==
  campaign.status = "completed" =>
    \A r \in Recipients : rows[r].status \in Open => Messaged(r)

\* A tick that has its row still to write.
Holding(w) == tick[w].step \notin {"idle", "event", "complete"}

\* Two ticks never work on one recipient (repository.js:53-59).
OneTickPerRecipient ==
  \A v, w \in Workers :
    Holding(v) /\ Holding(w) /\ tick[v].row = tick[w].row => v = w

\* Rows that are done.
Settled(r) == rows[r].status \notin Open

\* Who was settled without a message is never taken up again, and a campaign that was
\* cancelled or completed stays so, whatever an administrator or a tick had read before
\* (routes.js:62-66, repository.js:45-71).  Only a row that was sent goes back to the
\* queue, when its event is not stored (repository.js:69, worker.js:55, :61).
SettledIsFinal ==
  [][/\ \A r \in Recipients : Settled(r) => Settled(r)' \/ Messaged(r)
     /\ campaign.status \in {"cancelled", "completed"} => campaign'.status = campaign.status]_vars

\* A claimed row is never stranded in processing by a process that died
\* (repository.js:53-54).
ClaimsEnd ==
  \A r \in Recipients : rows[r].status = "processing" ~> rows[r].status # "processing"

\* The queue of a campaign that goes on running is worked off: deferred, failing
\* or crashing, every recipient is settled in the end (repository.js:49-71).
QueueDrains ==
  <>[](campaign.status = "running") => \A r \in Recipients : <>[]Settled(r)

\* "Failed sends use bounded exponential retry and then enter `dead_letter`"
\* (docs/m4-safe-campaigns.md:15): when a call has failed and a retry of it is the failure
\* that ends the recipient in dead_letter, that retry has called too (repository.js:70,
\* worker.js:43, :61).
FailedSendIsRetried ==
  \A w \in Workers :
    tick[w].step = "event" /\ tick[w].to = "dead_letter"
      /\ result[w] = "IDEMPOTENT_SEND_FAILED" => calls[tick[w].row] # 1
=============================================================================
