------------------------------ MODULE GhlTriggers ------------------------------
(***************************************************************************)
(* Workflow triggers (ghlWorkflowTriggers.js): message events become rows  *)
(* of ghl_workflow_deliveries, which one process at a time posts to the    *)
(* workflow that subscribed.  The row says sending before the post, so a   *)
(* post nobody knows the end of is never repeated.  The lock is that of a  *)
(* database session, which may break while the post is in flight.          *)
(***************************************************************************)
EXTENDS Integers

CONSTANTS TickProcesses,
          Events,     \* one message event each
          NoTicker, NoEvent

VARIABLES
  delivery,     \* event -> state of its delivery row, or "none"
  sub,       \* the subscription: the events of its key while active, and those its filters pass
  known,     \* whether the contact is linked, so that a workflow can run for it
  ticker,    \* the process whose session holds the lock
  tick,      \* process -> its batch, the subscription read with it, the event in flight
  accepted   \* event -> posts the workflow has accepted (history)

vars == <<delivery, sub, known, ticker, tick, accepted>>

NoSub == [wants |-> {}, passes |-> {}]
Quiet == [batch |-> {}, sub |-> NoSub, known |-> FALSE,
          posting |-> NoEvent, cut |-> FALSE]

Init ==
  /\ delivery = [e \in Events |-> "none"]
  /\ sub = NoSub /\ known = FALSE
  /\ ticker = NoTicker
  /\ tick = [p \in TickProcesses |-> Quiet]
  /\ accepted = [e \in Events |-> 0]

-----------------------------------------------------------------------------
\* The trigger is created or updated (unsupported filters are refused), or deleted: it wants
\* nothing then.  It may be updated to another key.
Subscribe ==
  /\ \E wants \in SUBSET Events : \E passes \in SUBSET wants : sub' = [wants |-> wants, passes |-> passes]
  /\ UNCHANGED <<delivery, known, ticker, tick, accepted>>

Link == known' = TRUE /\ UNCHANGED <<delivery, sub, ticker, tick, accepted>>

\* The trigger of the message table: one row for an event of an active subscription.
Capture(e) ==
  /\ delivery[e] = "none" /\ e \in sub.wants
  /\ delivery' = [delivery EXCEPT ![e] = "pending"]
  /\ UNCHANGED <<sub, known, ticker, tick, accepted>>

\* Plausible bug: what was interrupted is delivered again.
Interrupted_Resumes(s) == IF s = "sending" THEN "pending" ELSE s

\* What a new tick makes of the rows an earlier one left.
Interrupted(s) == IF s = "sending" THEN "uncertain" ELSE s

\* tick up to the batch: some pending rows that are due, each with the subscription of now.
Begin(p) ==
  /\ tick[p] = Quiet /\ ticker = NoTicker
  /\ ticker' = p
  /\ delivery' = [e \in Events |-> Interrupted(delivery[e])]
  /\ \E batch \in SUBSET {e \in Events : delivery'[e] = "pending"} :
       tick' = [tick EXCEPT ![p] = [Quiet EXCEPT !.batch = batch, !.sub = sub, !.known = known]]
  /\ UNCHANGED <<sub, known, accepted>>

InBatch(p, e) == ticker = p /\ tick[p].posting = NoEvent /\ e \in tick[p].batch
Left(p, e) == [tick[p] EXCEPT !.batch = @ \ {e}]

\* A row that is not posted: skipped, or left for later because nobody is linked.  The
\* target is validated again and may be refused.
Pass(p, e) ==
  /\ InBatch(p, e)
  /\ \/ e \notin tick[p].sub.wants /\ delivery' = [delivery EXCEPT ![e] = "skipped"]
     \/ e \in tick[p].sub.wants /\ ~tick[p].known /\ UNCHANGED delivery
     \/ e \in tick[p].sub.wants /\ tick[p].known
        /\ \/ e \notin tick[p].sub.passes /\ delivery' = [delivery EXCEPT ![e] = "skipped"]
           \/ delivery' = [delivery EXCEPT ![e] = "failed"]
  /\ tick' = [tick EXCEPT ![p] = Left(p, e)]
  /\ UNCHANGED <<sub, known, ticker, accepted>>

\* The intent is committed, then the request goes out.
Post(p, e) ==
  /\ InBatch(p, e)
  /\ tick[p].known /\ e \in tick[p].sub.passes
  /\ delivery' = [delivery EXCEPT ![e] = "sending"]
  /\ tick' = [tick EXCEPT ![p] = [Left(p, e) EXCEPT !.posting = e]]
  /\ UNCHANGED <<sub, known, ticker, accepted>>

\* The end of the post: accepted, and the answer may be lost or a 5xx; refused, 429 being
\* asked again; or lost before it arrived.
Answer(p) ==
  LET e == tick[p].posting IN
  /\ e # NoEvent /\ ~tick[p].cut
  /\ \/ /\ accepted' = [accepted EXCEPT ![e] = @ + 1]
        /\ \E s \in {"delivered", "uncertain"} : delivery' = [delivery EXCEPT ![e] = s]
     \/ /\ UNCHANGED accepted
        /\ \E s \in {"pending", "failed", "uncertain"} : delivery' = [delivery EXCEPT ![e] = s]
  /\ tick' = [tick EXCEPT ![p].posting = NoEvent]
  /\ UNCHANGED <<sub, known, ticker>>

\* The batch is done, or a query of it failed; or the process dies.
Release(p) ==
  /\ ticker = p
  /\ ticker' = NoTicker /\ tick' = [tick EXCEPT ![p] = Quiet]
  /\ UNCHANGED <<delivery, sub, known, accepted>>

\* The session breaks while the post is in flight: the lock is free, nothing more is
\* written, and the workflow may still accept it.
SessionBreaks(p) ==
  /\ ticker = p /\ tick[p].posting # NoEvent
  /\ ticker' = NoTicker /\ tick' = [tick EXCEPT ![p].cut = TRUE]
  /\ UNCHANGED <<delivery, sub, known, accepted>>

LostAnswer(p) ==
  /\ tick[p].cut
  /\ \/ accepted' = [accepted EXCEPT ![tick[p].posting] = @ + 1]
     \/ UNCHANGED accepted
  /\ tick' = [tick EXCEPT ![p] = Quiet]
  /\ UNCHANGED <<delivery, sub, known, ticker>>

Next ==
  \/ Subscribe
  \/ Link
  \/ \E e \in Events : Capture(e)
  \/ \E p \in TickProcesses :
       \/ Begin(p) \/ Answer(p) \/ Release(p) \/ SessionBreaks(p) \/ LostAnswer(p)
       \/ \E e \in Events : Pass(p, e) \/ Post(p, e)

Spec == Init /\ [][Next]_vars

-----------------------------------------------------------------------------
TypeOK ==
  LET Subs == [wants : SUBSET Events, passes : SUBSET Events] IN
  /\ delivery \in [Events -> {"none", "pending", "sending", "delivered", "failed", "skipped", "uncertain"}]
  /\ sub \in Subs /\ known \in BOOLEAN
  /\ ticker \in TickProcesses \cup {NoTicker}
  /\ tick \in [TickProcesses -> [batch : SUBSET Events, sub : Subs, known : BOOLEAN,
                                 posting : Events \cup {NoEvent}, cut : BOOLEAN]]
  /\ accepted \in [Events -> Nat]

\* A workflow is run at most once for an event, whoever dies or loses the lock or the answer;
\* a row says delivered only of a run that happened, and what is still pending, was refused or
\* was passed over has not run (ghlWorkflowTriggers.js:37-69).
DeliveredOnce ==
  \A e \in Events :
    /\ accepted[e] <= 1
    /\ delivery[e] = "delivered" => accepted[e] = 1
    /\ delivery[e] \in {"none", "pending", "failed", "skipped"} => accepted[e] = 0

\* What a delivery says of the run of its workflow.
Said(state) == IF state \in {"none", "pending", "failed", "skipped"} THEN "clear"
               ELSE IF state = "delivered" THEN "done" ELSE "open"

Promise == INSTANCE WriteAhead WITH
  Acts <- Events, row <- [e \in Events |-> Said(delivery[e])], times <- accepted

\* The delivery is written ahead of the run: what a lost session still has in flight never
\* belongs to a row that was given back, and nothing is posted for a row that is over
\* (ghlWorkflowTriggers.js:37-69).
RunsByIntent == Promise!Spec
=============================================================================
