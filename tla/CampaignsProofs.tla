---------------------------- MODULE CampaignsProofs ----------------------------
(***************************************************************************)
(* Proofs about Campaigns, for any workers, recipients and limits.         *)
(*                                                                         *)
(* The send path of a campaign is an instance of CanonicalSend (Send), so  *)
(* the queue is proved to run it and nothing else (QueueIsSendStep), and   *)
(* the invariant of CanonicalSendProofs, instantiated here as Path, holds  *)
(* in every state of the queue.  To it IInv adds what a tick and its send  *)
(* have to do with each other (Linked), on what a row's claim to be sent   *)
(* rests (Said), which ticks an opt-out has reached (Honoured), and, when  *)
(* a tick is over within the 15 minutes, who may still write a row (Alone, *)
(* InTurn).                                                                *)
(***************************************************************************)
EXTENDS Campaigns, TLAPS

Path == INSTANCE CanonicalSendProofs WITH
  Callers <- Workers, Keys <- Recipients, Requests <- {"body"},
  TemplateRequests <- IF Template THEN {"body"} ELSE {},
  OfficialRequests <- IF Official THEN {"body"} ELSE {}

-----------------------------------------------------------------------------
(***************************************************************************)
(* The inductive invariant.                                                *)
(***************************************************************************)

\* TypeOK without the variables of the send path.
QueueTypes ==
  /\ campaign \in [status : CampaignStatus, date : {"none", "future", "past"}]
  /\ rows \in [Recipients -> [status : RowStatus, attempts : Nat,
                              ext : ExtIds \cup {NoExt}]]
  /\ {old, optout, consent, blocking} \subseteq SUBSET Recipients
  /\ tick \in [Workers -> [step : Steps, row : Recipients \cup {NoRecipient},
                           attempts : Nat, to : RowStatus, optedOut : BOOLEAN]]
  /\ admin \in [step : {"idle", "write", "cancel"}, to : CampaignStatus]
  /\ acks \subseteq [row : Recipients, to : {"delivered", "read", "failed"}]

\* A send is under way only in a tick that awaits it, and is for the tick's row.
Linked ==
  \A w \in Workers :
    /\ tick[w].step # "idle" => tick[w].row \in Recipients
    /\ tick[w].step # "sending" => pc[w] = "idle"
    /\ tick[w].step = "sending" => job[w].key = tick[w].row

\* The recipients whose body the provider took and the inbox has.
Proved == {r \in Recipients : Messaged(r)}

\* What is counted as sent, or about to be, is proved.
Said ==
  /\ \A r \in Recipients : rows[r].status \in Reached => r \in Proved
  /\ \A w \in Workers :
       tick[w].step \in {"write", "event", "complete"} /\ tick[w].to \in Reached =>
         tick[w].row \in Proved
  /\ \A a \in acks : a.row \in Proved

\* An opt-out that precedes the claim still stands, and stops the tick.
Honoured ==
  \A w \in Workers : tick[w].optedOut =>
    tick[w].row \in optout /\ tick[w].step \notin {"conversation", "sending"}

\* What the administrator has asked for does not complete a campaign.
Asked == admin.step = "write" => admin.to \in Orders

\* A tick that may still write its row: it has yet to, or the event of its
\* success may yet fail.
Owns(w) == Holding(w) \/ (tick[w].step = "event" /\ tick[w].to = "sent")

\* When no tick outlives the 15 minutes, a row has one owner, which no other
\* tick can claim it from.
Alone ==
  ~SlowTicks =>
    /\ \A w \in Workers : tick[w].row \notin old
    /\ \A v, w \in Workers : Owns(v) /\ Owns(w) /\ tick[v].row = tick[w].row => v = w
    /\ \A w \in Workers : Owns(w) => rows[tick[w].row].status # "pending"

\* A completed campaign has nobody in its queue but those who are proved.
Finished == campaign.status = "completed" =>
              \A r \in Recipients : rows[r].status \in Open => r \in Proved

\* ... and a tick writes a row while it is processing; one that no longer is was
\* sent, and its tick has only failed to store the event.
InTurn ==
  ~SlowTicks =>
    /\ \A w \in Workers : Holding(w) =>
         rows[tick[w].row].status = "processing" \/ tick[w].row \in Proved
    /\ Finished

IInv == QueueTypes /\ Path!IInv /\ Linked /\ Said /\ Honoured /\ Asked /\ Alone /\ InTurn

-----------------------------------------------------------------------------
(***************************************************************************)
(* The send path of the queue.                                             *)
(***************************************************************************)

LEMMA PathAssumption == Path!SendAssumption
BY CampaignAssumption DEF CampaignAssumption, Path!SendAssumption

LEMMA SendStepIsPathStep ==
  ASSUME NEW w \in Workers, Send!SendStep(w)
  PROVE  Path!SendStep(w)
<1> USE DEF Send!Goto, Path!Goto, Send!Settle, Path!Settle, Send!Proceed, Path!Proceed
<1>1. ASSUME NEW d, Send!ResolveDispatch(w, d) PROVE Path!ResolveDispatch(w, d)
  BY <1>1 DEF Send!ResolveDispatch, Path!ResolveDispatch, Send!DispatchVerdict,
              Path!DispatchVerdict
<1>2. ASSUME NEW p, Send!CheckPolicy(w, p) PROVE Path!CheckPolicy(w, p)
  BY <1>2 DEF Send!CheckPolicy, Path!CheckPolicy, Send!TextVerdict, Path!TextVerdict,
              Send!TemplateVerdict, Path!TemplateVerdict
<1>3. Send!Reserve(w) => Path!Reserve(w)
  BY DEF Send!Reserve, Path!Reserve
<1>4. Send!ReadExisting(w) => Path!ReadExisting(w)
  BY DEF Send!ReadExisting, Path!ReadExisting, Send!Recoverable, Path!Recoverable,
         Send!SameRequest, Path!SameRequest, Send!SeenExt, Path!SeenExt
<1>5. Send!MarkDispatching(w) => Path!MarkDispatching(w)
  BY DEF Send!MarkDispatching, Path!MarkDispatching
<1>6. Send!AdapterRefuses(w) => Path!AdapterRefuses(w)
  BY DEF Send!AdapterRefuses, Path!AdapterRefuses
<1>7. Send!ProviderRejects(w) => Path!ProviderRejects(w)
  BY DEF Send!ProviderRejects, Path!ProviderRejects
<1>8. ASSUME NEW e, NEW a, Send!ProviderAccepts(w, e, a) PROVE Path!ProviderAccepts(w, e, a)
  BY <1>8 DEF Send!ProviderAccepts, Path!ProviderAccepts
<1>9. Send!FailOutbound(w) => Path!FailOutbound(w)
  BY DEF Send!FailOutbound, Path!FailOutbound
<1>10. Send!MarkProviderAccepted(w) => Path!MarkProviderAccepted(w)
  BY DEF Send!MarkProviderAccepted, Path!MarkProviderAccepted
<1>11. Send!RecordOutbound(w) => Path!RecordOutbound(w)
  BY DEF Send!RecordOutbound, Path!RecordOutbound
<1>12. QED
  BY <1>1, <1>2, <1>3, <1>4, <1>5, <1>6, <1>7, <1>8, <1>9, <1>10, <1>11
     DEF Send!SendStep, Path!SendStep, Send!Dispatch, Path!Dispatch, Send!Policy, Path!Policy

\* Every step of the queue is a step of the send path, or leaves it alone.
LEMMA QueueIsSendStep ==
  ASSUME Linked, [Next]_vars
  PROVE  [Send!Next]_(Send!sendVars)
<1> USE DEF Send!sendVars, sendVars
<1>1. CASE UNCHANGED sendVars
  BY <1>1
<1>2. ASSUME NEW w \in Workers, ResolveConversation(w) PROVE [Send!Next]_(Send!sendVars)
  <2>1. tick[w].row \in Recipients
    BY <1>2 DEF ResolveConversation, Linked
  <2>2. QED BY <1>2, <2>1 DEF ResolveConversation, Send!Next
<1>3. ASSUME NEW w \in Workers, Sending(w) PROVE [Send!Next]_(Send!sendVars)
  BY <1>3 DEF Sending, Send!Next, Send!SendStep
<1>4. ASSUME NEW w \in Workers, Crash(w) PROVE [Send!Next]_(Send!sendVars)
  BY <1>4 DEF Crash, Send!Next
<1>5. CASE Echo
  BY <1>5 DEF Echo, Send!Next
<1>6. ASSUME NEW w \in Workers, TickStep(w) PROVE [Send!Next]_(Send!sendVars)
  BY <1>1, <1>2, <1>3, <1>6
     DEF TickStep, CheckCampaign, CheckEligibility, SendReturned, Write, Event, EventFails,
         Complete
<1>7. CASE Next
  BY <1>1, <1>4, <1>5, <1>6, <1>7
     DEF Next, Claim, ClaimNothing, AdminRead, AdminWrite, CancelQueued, AdminDies, OptOut,
         BlockQueued, BlockDies, OptIn, ChangeConsent, ReceiptRead, ReceiptWrite, Age, DatePasses
<1>8. QED BY <1>1, <1>7 DEF vars

LEMMA SendNextIsPathNext == [Send!Next]_(Send!sendVars) => [Path!Next]_(Path!sendVars)
<1>1. ASSUME NEW c \in Workers, NEW k, NEW r, Send!Begin(c, k, r) PROVE Path!Begin(c, k, r)
  BY <1>1 DEF Send!Begin, Path!Begin
<1>2. ASSUME NEW c \in Workers, Send!Crash(c) PROVE Path!Crash(c)
  BY <1>2 DEF Send!Crash, Path!Crash, Send!Settle, Path!Settle
<1>3. ASSUME NEW n, Send!EchoWebhook(n) PROVE Path!EchoWebhook(n)
  BY <1>3 DEF Send!EchoWebhook, Path!EchoWebhook
<1>4. Send!sendVars = Path!sendVars /\ Send!sendVars' = Path!sendVars'
  BY DEF Send!sendVars, Path!sendVars
<1>5. Send!Next => Path!Next
  BY <1>1, <1>2, <1>3, SendStepIsPathStep DEF Send!Next, Path!Next
<1>6. QED BY <1>4, <1>5

\* What the provider took and what the inbox has is never taken back.
LEMMA NothingIsTakenBack ==
  ASSUME [Path!Next]_(Path!sendVars)
  PROVE  network \subseteq network' /\ messages \subseteq messages'
<1>1. CASE UNCHANGED Path!sendVars
  BY <1>1 DEF Path!sendVars
<1>2. ASSUME NEW c \in Workers, Path!SendStep(c)
      PROVE  network \subseteq network' /\ messages \subseteq messages'
  BY <1>2
     DEF Path!SendStep, Path!ResolveDispatch, Path!CheckPolicy, Path!Proceed, Path!Reserve,
         Path!ReadExisting, Path!MarkDispatching, Path!AdapterRefuses, Path!ProviderRejects,
         Path!ProviderAccepts, Path!FailOutbound, Path!MarkProviderAccepted, Path!RecordOutbound
<1>3. CASE Path!Next
  BY <1>2, <1>3 DEF Path!Next, Path!Begin, Path!Crash, Path!EchoWebhook
<1>4. QED BY <1>1, <1>3

\* The send path's invariant holds on, and what was proved stays so.
LEMMA PathKept ==
  ASSUME IInv, [Next]_vars
  PROVE  Path!IInv' /\ Proved \subseteq Proved'
<1>1. [Path!Next]_(Path!sendVars)
  BY QueueIsSendStep, SendNextIsPathNext DEF IInv
<1>2. Path!IInv'
  BY <1>1, PathAssumption, Path!NextKeepsIInv DEF IInv
<1>3. network \subseteq network' /\ messages \subseteq messages'
  BY <1>1, NothingIsTakenBack
<1>4. QED BY <1>2, <1>3 DEF Proved, Messaged

-----------------------------------------------------------------------------
(***************************************************************************)
(* What the steps of a tick do to the tick.                                *)
(***************************************************************************)

\* Tick w, not idle before, is at step s afterwards, with t to be written.
Moves(w, s, t) ==
  /\ tick' = [tick EXCEPT ![w].step = s, ![w].to = t]
  /\ tick[w].step # "idle"

\* The tick of w is over.
Ends(w) == tick' = [tick EXCEPT ![w] = Idle]

LEMMA GotoMoves ==
  ASSUME QueueTypes, NEW w \in Workers, NEW s \in Steps, Goto(w, s), tick[w].step # "idle"
  PROVE  Moves(w, s, tick[w].to)
BY DEF Goto, Moves, QueueTypes

LEMMA MoveEffect ==
  ASSUME QueueTypes, NEW w \in Workers, NEW s \in Steps, NEW t \in RowStatus, Moves(w, s, t)
  PROVE  /\ tick' \in [Workers -> [step : Steps, row : Recipients \cup {NoRecipient},
                                   attempts : Nat, to : RowStatus, optedOut : BOOLEAN]]
         /\ \A v \in Workers \ {w} : tick'[v] = tick[v]
         /\ tick'[w].step = s /\ tick'[w].to = t
         /\ \A v \in Workers : tick'[v].row = tick[v].row /\ tick'[v].optedOut = tick[v].optedOut
BY DEF Moves, QueueTypes

LEMMA EndEffect ==
  ASSUME QueueTypes, NEW w \in Workers, Ends(w)
  PROVE  /\ tick' \in [Workers -> [step : Steps, row : Recipients \cup {NoRecipient},
                                   attempts : Nat, to : RowStatus, optedOut : BOOLEAN]]
         /\ \A v \in Workers \ {w} : tick'[v] = tick[v]
         /\ tick'[w].step = "idle" /\ tick'[w].row = NoRecipient /\ ~tick'[w].optedOut
BY DEF Ends, Idle, QueueTypes, Steps, RowStatus, Open

\* A tick that moves on by itself: it takes on no row, and comes to write a
\* success, or to send, only when it may.
LEMMA MoveKeepsIInv ==
  ASSUME IInv, Next, NEW w \in Workers, NEW s \in Steps, NEW t \in RowStatus, Moves(w, s, t),
         UNCHANGED <<campaign, rows, old, optout, consent, blocking, admin, acks>>,
         Linked',
         s \in {"write", "event", "complete"} /\ t \in Reached => tick[w].row \in Proved',
         s \in {"conversation", "sending"} => ~tick[w].optedOut,
         Holding(w)' => Owns(w),
         Owns(w)' => Owns(w),
         Holding(w)' => Holding(w) \/ tick[w].row \in Proved
  PROVE  IInv'
<1> USE DEF IInv
<1>1. Path!IInv' /\ Proved \subseteq Proved'
  BY PathKept
<1>2. QueueTypes'
  BY MoveEffect DEF QueueTypes
<1>3. /\ \A v \in Workers \ {w} : tick'[v] = tick[v]
      /\ tick'[w].step = s /\ tick'[w].to = t
      /\ \A v \in Workers : tick'[v].row = tick[v].row /\ tick'[v].optedOut = tick[v].optedOut
  BY MoveEffect
<1>4. Said'
  BY <1>1, <1>3 DEF Said
<1>5. Honoured'
  BY <1>3 DEF Honoured
<1>6. Asked'
  BY DEF Asked
<1>7. \A v \in Workers : Owns(v)' => Owns(v)
  BY <1>3 DEF Owns, Holding
<1>8. Alone'
  BY <1>3, <1>7 DEF Alone
<1>9. \A v \in Workers : Holding(v)' => Holding(v) \/ tick[v].row \in Proved
  BY <1>3 DEF Holding
<1>10. InTurn'
  BY <1>1, <1>3, <1>9 DEF InTurn, Finished
<1>11. QED BY <1>1, <1>2, <1>4, <1>5, <1>6, <1>8, <1>10

\* A tick that is over owns nothing.
LEMMA EndKeepsIInv ==
  ASSUME IInv, Next, NEW w \in Workers, Ends(w), pc'[w] = "idle",
         \A v \in Workers \ {w} : pc'[v] = pc[v] /\ job'[v] = job[v],
         UNCHANGED <<rows, old, optout, consent, blocking, admin, acks>>,
         campaign' = campaign \/ campaign' = Completed(rows)
  PROVE  IInv'
<1> USE DEF IInv
<1>1. Path!IInv' /\ Proved \subseteq Proved'
  BY PathKept
<1>2. QueueTypes'
  BY EndEffect DEF QueueTypes, Completed, CampaignStatus
<1>3. /\ \A v \in Workers \ {w} : tick'[v] = tick[v]
      /\ tick'[w].step = "idle" /\ tick'[w].row = NoRecipient /\ ~tick'[w].optedOut
  BY EndEffect
<1>4. Linked'
  BY <1>3 DEF Linked
<1>5. Said'
  BY <1>1, <1>3 DEF Said
<1>6. Honoured' /\ Asked'
  BY <1>3 DEF Honoured, Asked
<1>7. ~Owns(w)' /\ ~Holding(w)'
  BY <1>3 DEF Owns, Holding
<1>8. \A v \in Workers \ {w} : (Owns(v)' <=> Owns(v)) /\ (Holding(v)' <=> Holding(v))
  BY <1>3 DEF Owns, Holding
<1>9. Alone'
  BY <1>3, <1>7, <1>8, CampaignAssumption DEF Alone, QueueTypes, CampaignAssumption
<1>10. InTurn'
  <2>1. campaign'.status = "completed" =>
          campaign.status = "completed" \/ \A r \in Recipients : rows[r].status \notin Open
    BY DEF Completed
  <2>2. QED BY <1>1, <1>3, <1>7, <1>8, <2>1 DEF InTurn, Finished
<1>11. QED BY <1>1, <1>2, <1>4, <1>5, <1>6, <1>9, <1>10

-----------------------------------------------------------------------------
(***************************************************************************)
(* Each step keeps IInv: first the worker's.                               *)
(***************************************************************************)

\* What a tick that gives up has to write.
LEMMA AfterFailureType ==
  ASSUME NEW w, NEW limit
  PROVE  AfterFailure(w, limit) \in {"dead_letter", "pending"}
BY DEF AfterFailure

\* A tick that decides what its row becomes moves on to write it.
LEMMA DecideKeepsIInv ==
  ASSUME IInv, Next, NEW w \in Workers, NEW t \in RowStatus, Decide(w, t), Holding(w),
         UNCHANGED <<campaign, rows, old, optout, consent, blocking, admin, acks, sendVars>>,
         pc[w] = "idle",
         t \in Reached => tick[w].row \in Proved
  PROVE  IInv'
<1> USE DEF IInv
<1>1. Moves(w, "write", t)
  BY DEF Decide, Moves, Holding
<1>2. /\ \A v \in Workers \ {w} : tick'[v] = tick[v]
      /\ tick'[w].step = "write" /\ tick'[w].to = t
      /\ \A v \in Workers : tick'[v].row = tick[v].row
  BY <1>1, MoveEffect DEF Steps
<1>3. Linked'
  BY <1>2 DEF Linked, sendVars, Holding
<1>4. Proved \subseteq Proved'
  BY PathKept
<1>5. QED
  BY <1>1, <1>3, <1>4, MoveKeepsIInv DEF Steps, Owns

\* A tick that goes on, without a send.
LEMMA GoKeepsIInv ==
  ASSUME IInv, Next, NEW w \in Workers, NEW s \in {"eligibility", "conversation"}, Goto(w, s),
         tick[w].step \in {"campaign", "eligibility"},
         UNCHANGED <<campaign, rows, old, optout, consent, blocking, admin, acks, sendVars>>,
         s = "conversation" => ~tick[w].optedOut
  PROVE  IInv'
<1> USE DEF IInv
<1>1. Moves(w, s, tick[w].to)
  BY GotoMoves DEF Steps
<1>2. /\ \A v \in Workers \ {w} : tick'[v] = tick[v]
      /\ tick'[w].step = s
      /\ \A v \in Workers : tick'[v].row = tick[v].row
  BY <1>1, MoveEffect DEF Steps, QueueTypes
<1>3. Linked'
  BY <1>2 DEF Linked, sendVars
<1>4. QED
  BY <1>1, <1>3, MoveKeepsIInv DEF Steps, Owns, Holding, QueueTypes

LEMMA CheckCampaignKeepsIInv ==
  ASSUME IInv, Next, NEW w \in Workers, CheckCampaign(w)
  PROVE  IInv'
<1>1. Holding(w) /\ pc[w] = "idle"
  BY DEF CheckCampaign, Holding, IInv, Linked
<1>2. CASE Decide(w, AfterFailure(w, MaxDeferrals))
  BY <1>1, <1>2, AfterFailureType, DecideKeepsIInv DEF CheckCampaign, RowStatus, Open, Reached
<1>3. CASE Goto(w, "eligibility")
  BY <1>3, GoKeepsIInv DEF CheckCampaign
<1>4. QED BY <1>2, <1>3 DEF CheckCampaign

\* A recipient who had opted out when claimed is found to be.
LEMMA CheckEligibilityKeepsIInv ==
  ASSUME IInv, Next, NEW w \in Workers, CheckEligibility(w)
  PROVE  IInv'
<1>1. Holding(w) /\ pc[w] = "idle"
  BY DEF CheckEligibility, Holding, IInv, Linked
<1>2. ASSUME NEW t \in {"suppressed", "unconsented"}, Decide(w, t) PROVE IInv'
  BY <1>1, <1>2, DecideKeepsIInv DEF CheckEligibility, RowStatus, Reached
<1>3. CASE tick[w].row \notin optout /\ Goto(w, "conversation")
  BY <1>3, GoKeepsIInv DEF CheckEligibility, IInv, Honoured
<1>4. QED BY <1>2, <1>3 DEF CheckEligibility

LEMMA ResolveConversationKeepsIInv ==
  ASSUME IInv, Next, NEW w \in Workers, ResolveConversation(w)
  PROVE  IInv'
<1>1. Holding(w) /\ pc[w] = "idle" /\ ~tick[w].optedOut
  BY DEF ResolveConversation, Holding, IInv, Linked, Honoured
<1>2. ASSUME NEW limit, Decide(w, AfterFailure(w, limit)), UNCHANGED sendVars PROVE IInv'
  BY <1>1, <1>2, AfterFailureType, DecideKeepsIInv
     DEF ResolveConversation, RowStatus, Open, Reached
<1>3. CASE Goto(w, "sending") /\ Send!Begin(w, tick[w].row, "body")
  <2>1. Moves(w, "sending", tick[w].to)
    BY <1>3, GotoMoves DEF ResolveConversation, Steps, IInv
  <2>2. /\ \A v \in Workers \ {w} : tick'[v] = tick[v]
        /\ tick'[w].step = "sending"
        /\ \A v \in Workers : tick'[v].row = tick[v].row
    BY <2>1, MoveEffect DEF Steps, QueueTypes, IInv
  <2>3. /\ \A v \in Workers \ {w} : pc'[v] = pc[v] /\ job'[v] = job[v]
        /\ job'[w].key = tick[w].row
    BY <1>3 DEF Send!Begin, IInv, Path!IInv, Path!TypeOK
  <2>4. Linked'
    BY <1>3, <2>2, <2>3 DEF Linked, IInv, ResolveConversation
  <2>5. QED
    BY <1>1, <2>1, <2>4, MoveKeepsIInv
       DEF ResolveConversation, Steps, Owns, Holding, QueueTypes, IInv
<1>4. QED BY <1>2, <1>3 DEF ResolveConversation

\* The statements of a send move no tick and keep the key of its job.
LEMMA SendingKeepsIInv ==
  ASSUME IInv, Next, NEW w \in Workers, Sending(w)
  PROVE  IInv'
<1> USE DEF IInv
<1>1. Path!IInv' /\ Proved \subseteq Proved'
  BY PathKept
<1>2. UNCHANGED <<campaign, rows, old, optout, consent, blocking, tick, admin, acks>>
  BY DEF Sending
<1>3. Send!SendStep(w) \/ \E p \in Send!Policy : Send!CheckPolicy(w, p)
  BY DEF Sending
<1>4. Send!SendStep(w)
  BY <1>3 DEF Send!SendStep
<1>5. \A v \in Workers : pc[v] = "idle" => pc'[v] = "idle"
  <2>1. pc[w] # "idle"
    BY DEF Sending
  <2>2. \A v \in Workers \ {w} : pc'[v] = pc[v]
    BY <1>4 DEF Path!IInv, Path!TypeOK, Send!SendStep, Send!ResolveDispatch, Send!CheckPolicy,
       Send!Proceed, Send!Reserve, Send!ReadExisting, Send!MarkDispatching, Send!AdapterRefuses,
       Send!ProviderRejects, Send!ProviderAccepts, Send!FailOutbound, Send!MarkProviderAccepted,
       Send!RecordOutbound, Send!Goto, Send!Settle
  <2>3. QED BY <2>1, <2>2
<1>6. \A v \in Workers : job'[v].key = job[v].key
  BY SMTT(30), <1>4 DEF Path!IInv, Path!TypeOK, Send!SendStep, Send!ResolveDispatch, Send!CheckPolicy,
     Send!Proceed, Send!Reserve, Send!ReadExisting, Send!MarkDispatching, Send!AdapterRefuses,
     Send!ProviderRejects, Send!ProviderAccepts, Send!FailOutbound, Send!MarkProviderAccepted,
     Send!RecordOutbound
<1>7. QueueTypes' /\ Honoured' /\ Asked'
  BY <1>2 DEF QueueTypes, Honoured, Asked
<1>8. Linked'
  BY <1>2, <1>5, <1>6 DEF Linked
<1>9. Said'
  BY <1>1, <1>2 DEF Said
<1>10. Alone' /\ InTurn'
  BY <1>1, <1>2 DEF Alone, InTurn, Owns, Holding, Finished
<1>11. QED BY <1>1, <1>7, <1>8, <1>9, <1>10

\* What a send returns to its tick is true of the tick's row.
LEMMA SendReturnedKeepsIInv ==
  ASSUME IInv, Next, NEW w \in Workers, SendReturned(w)
  PROVE  IInv'
<1> DEFINE t == Outcome(w, result[w])
<1>1. Holding(w) /\ pc[w] = "idle" /\ job[w].key = tick[w].row /\ tick[w].row \in Recipients
  BY DEF SendReturned, Holding, IInv, Linked
<1>2. t \in RowStatus
  BY AfterFailureType DEF Outcome, Confirmed, RowStatus, Open, Reached
<1>3. ASSUME t \in Reached PROVE tick[w].row \in Proved
  <2>1. result[w] \in {"sent", "duplicate"}
    BY <1>3, AfterFailureType DEF Outcome, Confirmed, Reached
  <2>2. attempt[tick[w].row].status = "accepted"
    BY <1>1, <2>1 DEF IInv, Path!IInv, Path!CallerInv, Path!Delivered
  <2>3. QED
    BY <1>1, <2>2 DEF IInv, Path!IInv, Path!KeyInv, Path!Sent, Path!Stored, Proved, Messaged
<1>4. QED BY <1>1, <1>2, <1>3, DecideKeepsIInv DEF SendReturned

\* The row is written by its owner, which owns it still only if it wrote a success.
LEMMA WriteKeepsIInv ==
  ASSUME IInv, Next, NEW w \in Workers, Write(w)
  PROVE  IInv'
<1> DEFINE r == tick[w].row
<1> USE DEF IInv
<1>1. Path!IInv' /\ Proved \subseteq Proved'
  BY PathKept
<1>2. r \in Recipients /\ Holding(w) /\ Owns(w) /\ tick[w].to \in RowStatus
      /\ (tick[w].to \in Reached => r \in Proved)
  BY DEF Write, Linked, Holding, Owns, QueueTypes, Said
<1>3. Send!SeenExt(r) \in ExtIds \cup {NoExt}
  BY <1>2, PathAssumption, Path!SeenExtType DEF Send!SeenExt, Path!SeenExt, Path!IInv
<1>4. /\ rows' \in [Recipients -> [status : RowStatus, attempts : Nat,
                                   ext : ExtIds \cup {NoExt}]]
      /\ rows'[r].status = tick[w].to
      /\ \A q \in Recipients \ {r} : rows'[q] = rows[q]
  <2> DEFINE seen == IF tick[w].to = "sent" THEN Send!SeenExt(r) ELSE NoExt
             ext == IF seen = NoExt THEN rows[r].ext ELSE seen
  <2>1. ext \in ExtIds \cup {NoExt}
    BY <1>2, <1>3 DEF QueueTypes
  <2>2. rows' = [rows EXCEPT ![r].status = tick[w].to, ![r].ext = ext]
    BY <1>2 DEF Write, QueueTypes
  <2> HIDE DEF ext
  <2>3. QED BY <1>2, <2>1, <2>2 DEF QueueTypes
<1>5. old' = old \ {r}
      /\ UNCHANGED <<campaign, optout, consent, blocking, admin, acks, sendVars>>
  BY DEF Write
<1>6. Moves(w, "event", tick[w].to)
  BY GotoMoves DEF Write, Steps
<1>7. /\ tick' \in [Workers -> [step : Steps, row : Recipients \cup {NoRecipient},
                                attempts : Nat, to : RowStatus, optedOut : BOOLEAN]]
      /\ \A v \in Workers \ {w} : tick'[v] = tick[v]
      /\ tick'[w].step = "event" /\ tick'[w].to = tick[w].to
      /\ \A v \in Workers : tick'[v].row = tick[v].row /\ tick'[v].optedOut = tick[v].optedOut
  BY <1>2, <1>6, MoveEffect DEF Steps
<1> HIDE DEF r
<1>8. QueueTypes'
  BY <1>4, <1>5, <1>7 DEF QueueTypes
<1>9. Linked' /\ Asked' /\ Honoured'
  BY <1>2, <1>5, <1>7 DEF Linked, Asked, Honoured, sendVars, Write
<1>10. Said'
  BY <1>1, <1>2, <1>4, <1>5, <1>7 DEF Said, r, Linked
<1>11. /\ \A v \in Workers \ {w} : (Owns(v)' <=> Owns(v)) /\ (Holding(v)' <=> Holding(v))
       /\ ~Holding(w)' /\ (Owns(w)' => tick[w].to = "sent")
  BY <1>7 DEF Owns, Holding
<1>12. ~SlowTicks => \A v \in Workers \ {w} : Owns(v) => tick[v].row # r
  BY <1>2 DEF Alone, r
<1>13. \A v \in Workers : Owns(v) => tick[v].row \in Recipients
  BY DEF Owns, Holding, Linked
<1>14. Alone'
  BY <1>2, <1>4, <1>5, <1>7, <1>11, <1>12, <1>13 DEF Alone, r
<1>15. InTurn'
  <2>1. SUFFICES ASSUME ~SlowTicks PROVE InTurn'
    BY DEF InTurn
  <2>2. rows[r].status = "processing" \/ r \in Proved
    BY <1>2, <2>1 DEF InTurn, r
  <2>3. \A v \in Workers : Holding(v)' =>
          rows'[tick'[v].row].status = "processing" \/ tick'[v].row \in Proved'
    BY <1>1, <1>2, <1>4, <1>7, <1>11, <1>12, <1>13, <2>1 DEF InTurn, Owns
  <2>4. Finished'
    BY <1>1, <1>4, <1>5, <2>1, <2>2 DEF InTurn, Finished, Open
  <2>5. QED BY <2>3, <2>4 DEF InTurn
<1>16. QED BY <1>1, <1>8, <1>9, <1>10, <1>14, <1>15

LEMMA CompleteKeepsIInv ==
  ASSUME IInv, Next, NEW w \in Workers, Complete(w)
  PROVE  IInv'
<1>1. pc[w] = "idle"
  BY DEF IInv, Linked, Complete
<1>2. QED BY <1>1, EndKeepsIInv DEF Complete, Ends, sendVars

LEMMA EventKeepsIInv ==
  ASSUME IInv, Next, NEW w \in Workers, Event(w)
  PROVE  IInv'
<1>1. pc[w] = "idle"
  BY DEF IInv, Linked, Event
<1>2. CASE tick[w].to = "pending"
  BY <1>1, <1>2, EndKeepsIInv DEF Event, Ends, sendVars
<1>3. CASE tick[w].to # "pending"
  <2>1. Moves(w, "complete", tick[w].to)
    BY <1>3, GotoMoves DEF Event, Steps, IInv
  <2>2. /\ \A v \in Workers \ {w} : tick'[v] = tick[v]
        /\ tick'[w].step = "complete"
        /\ \A v \in Workers : tick'[v].row = tick[v].row
    BY <2>1, MoveEffect DEF Steps, QueueTypes, IInv
  <2>3. Linked'
    BY <1>1, <2>2 DEF Linked, IInv, Event, sendVars
  <2>4. Proved \subseteq Proved'
    BY PathKept
  <2>5. ~Owns(w)' /\ ~Holding(w)'
    BY <2>2 DEF Owns, Holding
  <2>6. QED
    BY <2>1, <2>3, <2>4, <2>5, MoveKeepsIInv
       DEF Event, Steps, Said, QueueTypes, IInv
<1>4. QED BY <1>2, <1>3

\* The event of a success that is not stored: its tick gives the row up, or tries again.
LEMMA EventFailsKeepsIInv ==
  ASSUME IInv, Next, NEW w \in Workers, EventFails(w)
  PROVE  IInv'
<1>1. pc[w] = "idle"
  BY DEF IInv, Linked, EventFails
<1>2. CASE tick[w].to = "sent"
  <2> DEFINE t == AfterFailure(w, MaxAttempts)
  <2>1. t \in {"dead_letter", "pending"}
    BY AfterFailureType
  <2>2. t \in RowStatus /\ t \notin Reached
    BY <2>1 DEF RowStatus, Open, Reached
  <2>3. Moves(w, "write", t)
    BY <1>2 DEF EventFails, Decide, Moves
  <2> HIDE DEF t
  <2>4. /\ \A v \in Workers \ {w} : tick'[v] = tick[v]
        /\ tick'[w].step = "write"
        /\ \A v \in Workers : tick'[v].row = tick[v].row
    BY <2>2, <2>3, MoveEffect DEF Steps, IInv
  <2>5. Linked'
    BY <1>1, <2>4 DEF Linked, IInv, EventFails, sendVars
  <2>6. Owns(w)
    BY <1>2 DEF Owns, EventFails
  <2>7. tick[w].row \in Proved
    BY <1>2 DEF EventFails, IInv, Said, Reached
  <2>8. QED
    BY <2>2, <2>3, <2>5, <2>6, <2>7, MoveKeepsIInv DEF EventFails, Steps
<1>3. CASE tick[w].to # "sent"
  BY <1>1, <1>3, EndKeepsIInv DEF EventFails, Ends, sendVars
<1>4. QED BY <1>2, <1>3

LEMMA CrashKeepsIInv ==
  ASSUME IInv, Next, NEW w \in Workers, Crash(w)
  PROVE  IInv'
<1>1. /\ pc'[w] = "idle"
      /\ \A v \in Workers \ {w} : pc'[v] = pc[v] /\ job'[v] = job[v]
  BY DEF Crash, Send!Crash, Send!Settle, IInv, Path!IInv, Path!TypeOK, sendVars
<1>2. QED BY <1>1, EndKeepsIInv DEF Crash, Ends

-----------------------------------------------------------------------------
\* claim's recovery: it touches rows that are old and processing.
LEMMA RecoveredEffect ==
  ASSUME QueueTypes, NEW q \in Recipients
  PROVE  /\ Recovered(q) \in [status : RowStatus, attempts : Nat, ext : ExtIds \cup {NoExt}]
         /\ q \notin old \/ rows[q].status # "processing" => Recovered(q) = rows[q]
         /\ Recovered(q) # rows[q] => Recovered(q).status \in {"pending", "dead_letter"}
<1> DEFINE s == IF rows[q].attempts < MaxAttempts THEN "pending" ELSE "dead_letter"
<1>1. CASE q \in old /\ rows[q].status = "processing"
  <2>1. Recovered(q) = [rows[q] EXCEPT !.status = s]
    BY <1>1 DEF Recovered
  <2>2. s \in {"pending", "dead_letter"}
    OBVIOUS
  <2> HIDE DEF s
  <2>3. QED BY <1>1, <2>1, <2>2 DEF QueueTypes, RowStatus, Open
<1>2. CASE ~(q \in old /\ rows[q].status = "processing")
  BY <1>2 DEF Recovered, QueueTypes
<1>3. QED BY <1>1, <1>2

LEMMA StartedEffect ==
  ASSUME QueueTypes
  PROVE  /\ Started \in [status : CampaignStatus, date : {"none", "future", "past"}]
         /\ Started.status = "completed" => campaign.status = "completed"
BY DEF QueueTypes, Started, CampaignStatus

\* When no tick is slow, what a tick owns is neither recovered nor claimed.
LEMMA OwnedIsSafe ==
  ASSUME IInv, ~SlowTicks, NEW v \in Workers, Owns(v)
  PROVE  /\ tick[v].row \in Recipients
         /\ Recovered(tick[v].row) = rows[tick[v].row]
         /\ tick[v].row \notin Claimable
<1>1. tick[v].row \in Recipients
  BY DEF IInv, Linked, Owns, Holding
<1>2. Recovered(tick[v].row) = rows[tick[v].row]
  BY <1>1, RecoveredEffect DEF IInv, Alone
<1>3. QED BY <1>1, <1>2 DEF IInv, Alone, Claimable

LEMMA ClaimNothingKeepsIInv ==
  ASSUME IInv, Next, NEW w \in Workers, ClaimNothing(w)
  PROVE  IInv'
<1> USE DEF IInv
<1>1. Path!IInv' /\ Proved \subseteq Proved'
  BY PathKept
<1>2. /\ campaign' = Started /\ old' = old \ Touched
      /\ UNCHANGED <<optout, consent, blocking, tick, admin, acks, sendVars>>
      /\ rows' = [q \in Recipients |-> Recovered(q)]
  BY DEF ClaimNothing
<1>3. QueueTypes'
  BY <1>2, RecoveredEffect, StartedEffect DEF QueueTypes
<1>4. Linked' /\ Honoured' /\ Asked'
  BY <1>2 DEF Linked, Honoured, Asked, sendVars
<1>5. \A q \in Recipients :
        /\ rows'[q] # rows[q] => /\ rows'[q].status \in {"pending", "dead_letter"}
                                 /\ q \in old /\ rows[q].status = "processing"
  BY <1>2, RecoveredEffect
<1>6. Said'
  BY <1>1, <1>2, <1>5 DEF Said, Reached
<1>7. Alone'
  <2>1. SUFFICES ASSUME ~SlowTicks PROVE Alone'
    BY DEF Alone
  <2>2. \A v \in Workers : Owns(v) => rows'[tick[v].row] = rows[tick[v].row]
    BY <1>2, <2>1, OwnedIsSafe
  <2>3. \A v \in Workers : Owns(v)' <=> Owns(v)
    BY <1>2 DEF Owns, Holding
  <2>4. QED BY <1>2, <2>1, <2>2, <2>3 DEF Alone
<1>8. InTurn'
  <2>1. SUFFICES ASSUME ~SlowTicks PROVE InTurn'
    BY DEF InTurn
  <2>2. \A v \in Workers : Holding(v) => rows'[tick[v].row] = rows[tick[v].row]
    BY <1>2, <2>1, OwnedIsSafe DEF Owns
  <2>3. \A v \in Workers : Holding(v)' <=> Holding(v)
    BY <1>2 DEF Holding
  <2>4. Finished'
    BY <1>1, <1>2, <1>5, <2>1, StartedEffect DEF InTurn, Finished, Open
  <2>5. QED BY <1>1, <1>2, <2>1, <2>2, <2>3, <2>4 DEF InTurn
<1>9. QED BY <1>1, <1>3, <1>4, <1>6, <1>7, <1>8

\* A claimed row: its attempt is counted.
LEMMA ClaimedRow ==
  ASSUME NEW row \in [status : RowStatus, attempts : Nat, ext : ExtIds \cup {NoExt}]
  PROVE  LET mine == [row EXCEPT !.status = "processing", !.attempts = @ + 1] IN
         /\ mine \in [status : RowStatus, attempts : Nat, ext : ExtIds \cup {NoExt}]
         /\ mine.status = "processing"
<1> DEFINE mine == [row EXCEPT !.status = "processing", !.attempts = @ + 1]
<1>1. row.attempts + 1 \in Nat /\ "processing" \in RowStatus
  BY DEF RowStatus, Open
<1>2. mine = [x \in DOMAIN row |-> IF x = "attempts" THEN row.attempts + 1
                                   ELSE IF x = "status" THEN "processing" ELSE row[x]]
  OBVIOUS
<1> HIDE DEF mine
<1>3. QED BY <1>1, <1>2 DEF mine

\* A row that is claimed has no owner, and leaves the old ones.
LEMMA ClaimKeepsIInv ==
  ASSUME IInv, Next, NEW w \in Workers, NEW r \in Recipients, Claim(w, r)
  PROVE  IInv'
<1> USE DEF IInv
<1>1. Path!IInv' /\ Proved \subseteq Proved'
  BY PathKept
<1>2. /\ campaign' = Started /\ old' = old \ (Touched \cup {r})
      /\ UNCHANGED <<optout, consent, blocking, admin, acks, sendVars>>
      /\ rows' = [q \in Recipients |->
                    IF q = r THEN [Recovered(r) EXCEPT !.status = "processing", !.attempts = @ + 1]
                             ELSE Recovered(q)]
      /\ tick[w].step = "idle" /\ r \in Claimable
      /\ Recovered(r).status = "pending" /\ Started.status = "running"
  BY DEF Claim, Claimable
<1>3. /\ tick' \in [Workers -> [step : Steps, row : Recipients \cup {NoRecipient},
                                attempts : Nat, to : RowStatus, optedOut : BOOLEAN]]
      /\ \A v \in Workers \ {w} : tick'[v] = tick[v]
      /\ tick'[w].step = "campaign" /\ tick'[w].row = r
      /\ tick'[w].to = "pending" /\ tick'[w].optedOut = (r \in optout)
  BY DEF Claim, QueueTypes, Steps, RowStatus, Open
<1>4. /\ rows' \in [Recipients -> [status : RowStatus, attempts : Nat,
                                   ext : ExtIds \cup {NoExt}]]
      /\ rows'[r].status = "processing"
      /\ \A q \in Recipients \ {r} : rows'[q] = Recovered(q)
  <2> DEFINE mine == [Recovered(r) EXCEPT !.status = "processing", !.attempts = @ + 1]
  <2>1. /\ mine \in [status : RowStatus, attempts : Nat, ext : ExtIds \cup {NoExt}]
        /\ mine.status = "processing"
    BY RecoveredEffect, ClaimedRow DEF RowStatus, Open
  <2>2. rows' = [q \in Recipients |-> IF q = r THEN mine ELSE Recovered(q)]
    BY <1>2
  <2> HIDE DEF mine
  <2>3. QED BY <2>1, <2>2, RecoveredEffect
<1>5. QueueTypes'
  BY <1>2, <1>3, <1>4, StartedEffect DEF QueueTypes
<1>6. Linked' /\ Honoured' /\ Asked'
  BY <1>2, <1>3 DEF Linked, Honoured, Asked, sendVars
<1>7. \A q \in Recipients :
        rows'[q] # rows[q] => /\ rows'[q].status \in {"pending", "dead_letter", "processing"}
                              /\ rows[q].status \in Open
  BY <1>2, <1>4, RecoveredEffect DEF Open
<1>8. Said'
  BY <1>1, <1>2, <1>3, <1>7 DEF Said, Reached
<1>9. ~SlowTicks => \A v \in Workers : Owns(v) => tick[v].row # r /\ tick[v].row \in Recipients
                                                  /\ rows'[tick[v].row] = rows[tick[v].row]
  BY <1>2, <1>4, OwnedIsSafe
<1>10. /\ \A v \in Workers \ {w} : (Owns(v)' <=> Owns(v)) /\ (Holding(v)' <=> Holding(v))
       /\ Owns(w)' /\ Holding(w)'
  BY <1>3 DEF Owns, Holding
<1>11. Alone'
  <2>1. SUFFICES ASSUME ~SlowTicks PROVE Alone'
    BY DEF Alone
  <2>2. \A v \in Workers : tick'[v].row \notin old'
    BY <1>2, <1>3, <2>1 DEF Alone
  <2>3. ASSUME NEW u \in Workers, NEW v \in Workers, Owns(u)', Owns(v)',
               tick'[u].row = tick'[v].row
        PROVE  u = v
    BY <1>3, <1>9, <1>10, <2>1, <2>3 DEF Alone
  <2>4. ASSUME NEW v \in Workers, Owns(v)' PROVE rows'[tick'[v].row].status # "pending"
    BY <1>3, <1>4, <1>9, <1>10, <2>1, <2>4 DEF Alone
  <2>5. QED BY <2>2, <2>3, <2>4 DEF Alone
<1>12. InTurn'
  <2>1. SUFFICES ASSUME ~SlowTicks PROVE InTurn'
    BY DEF InTurn
  <2>2. ASSUME NEW v \in Workers, Holding(v)'
        PROVE  rows'[tick'[v].row].status = "processing" \/ tick'[v].row \in Proved'
    BY <1>1, <1>3, <1>4, <1>9, <1>10, <2>1, <2>2 DEF InTurn, Owns
  <2>3. campaign'.status # "completed"
    BY <1>2
  <2>4. QED BY <2>2, <2>3 DEF InTurn, Finished
<1>13. QED BY <1>1, <1>5, <1>6, <1>8, <1>11, <1>12

-----------------------------------------------------------------------------
(***************************************************************************)
(* The steps of the others.                                                *)
(***************************************************************************)

\* A step that takes rows out of the queue, or gives a settled one a new status,
\* and touches neither ticks nor sends.
LEMMA RowsKeepIInv ==
  ASSUME IInv, Next, QueueTypes', Asked',
         UNCHANGED <<tick, sendVars>>, optout \subseteq optout', old' \subseteq old,
         acks' \subseteq acks,
         \A q \in Recipients : rows'[q] # rows[q] =>
           /\ rows'[q].status \notin Open
           /\ rows[q].status = "pending" \/ \E a \in acks : a.row = q
           /\ rows'[q].status \in Reached => \E a \in acks : a.row = q,
         campaign'.status = "completed" =>
           \/ campaign.status = "completed"
           \/ \A q \in Recipients : rows'[q].status \notin Open
  PROVE  IInv'
<1> USE DEF IInv
<1>1. Path!IInv' /\ Proved \subseteq Proved'
  BY PathKept
<1>2. Linked' /\ Honoured'
  BY DEF Linked, Honoured, sendVars
<1>3. Said'
  BY <1>1 DEF Said
<1>4. \A v \in Workers : /\ (Owns(v)' <=> Owns(v)) /\ (Holding(v)' <=> Holding(v))
                         /\ Owns(v) => tick[v].row \in Recipients
  BY DEF Owns, Holding, Linked
<1>5. Alone'
  BY <1>4 DEF Alone, Open
<1>6. InTurn'
  <2>1. SUFFICES ASSUME ~SlowTicks PROVE InTurn'
    BY DEF InTurn
  <2>2. \A v \in Workers : Holding(v) =>
          rows'[tick[v].row] = rows[tick[v].row] \/ tick[v].row \in Proved
    BY <1>4, <2>1 DEF Alone, Owns, Said
  <2>3. Finished'
    BY <1>1, <2>1 DEF InTurn, Finished
  <2>4. QED BY <1>1, <1>4, <2>1, <2>2, <2>3 DEF InTurn
<1>7. QED BY <1>1, <1>2, <1>3, <1>5, <1>6

LEMMA AdminReadKeepsIInv ==
  ASSUME IInv, Next, NEW s \in Orders, AdminRead(s)
  PROVE  IInv'
<1>1. s \in CampaignStatus
  BY CampaignAssumption DEF CampaignAssumption, CampaignStatus
<1>2. QueueTypes' /\ Asked'
  BY <1>1 DEF IInv, QueueTypes, Asked, AdminRead
<1>3. QED BY <1>2, RowsKeepIInv DEF AdminRead

LEMMA AdminWriteKeepsIInv ==
  ASSUME IInv, Next, AdminWrite
  PROVE  IInv'
<1>1. admin.to \in Orders /\ admin.to \in CampaignStatus \ {"completed"}
  BY CampaignAssumption DEF CampaignAssumption, CampaignStatus, IInv, Asked, AdminWrite
<1>2. QueueTypes' /\ Asked'
  BY <1>1 DEF IInv, QueueTypes, Asked, AdminWrite, NoRequest, CampaignStatus
<1>3. campaign'.status = "completed" => campaign.status = "completed"
  BY <1>1 DEF AdminWrite, IInv, QueueTypes
<1>4. QED BY <1>2, <1>3, RowsKeepIInv DEF AdminWrite

LEMMA CancelQueuedKeepsIInv ==
  ASSUME IInv, Next, CancelQueued
  PROVE  IInv'
<1>1. \A r \in Recipients :
        IF rows[r].status = "pending"
        THEN rows'[r] = [rows[r] EXCEPT !.status = "cancelled"]
        ELSE rows'[r] = rows[r]
  BY DEF CancelQueued
<1>2. rows' \in [Recipients -> [status : RowStatus, attempts : Nat, ext : ExtIds \cup {NoExt}]]
  BY DEF CancelQueued, RowStatus, IInv, QueueTypes
<1>3. QueueTypes' /\ Asked'
  BY <1>2 DEF IInv, QueueTypes, Asked, CancelQueued, NoRequest, CampaignStatus
<1>4. \A r \in Recipients : rows[r].status = "pending" => rows'[r].status = "cancelled"
  BY <1>1 DEF IInv, QueueTypes
<1>5. QED BY <1>1, <1>3, <1>4, RowsKeepIInv DEF CancelQueued, Open, Reached

LEMMA AdminDiesKeepsIInv ==
  ASSUME IInv, Next, AdminDies
  PROVE  IInv'
<1>1. QueueTypes' /\ Asked'
  BY DEF IInv, QueueTypes, Asked, AdminDies, NoRequest, CampaignStatus
<1>2. QED BY <1>1, RowsKeepIInv DEF AdminDies

LEMMA OptOutKeepsIInv ==
  ASSUME IInv, Next, NEW r \in Recipients, NEW b \in BOOLEAN, OptOut(r, b)
  PROVE  IInv'
<1>1. QueueTypes' /\ Asked'
  BY DEF IInv, QueueTypes, Asked, OptOut
<1>2. QED BY <1>1, RowsKeepIInv DEF OptOut

LEMMA BlockQueuedKeepsIInv ==
  ASSUME IInv, Next, NEW r \in Recipients, BlockQueued(r)
  PROVE  IInv'
<1>1. QueueTypes' /\ Asked'
  BY DEF IInv, QueueTypes, Asked, BlockQueued, SetStatus, RowStatus
<1>2. \A q \in Recipients : rows'[q] # rows[q] => /\ rows[q].status = "pending"
                                                  /\ rows'[q].status = "suppressed"
  BY DEF IInv, QueueTypes, BlockQueued, SetStatus
<1>3. QED BY <1>1, <1>2, RowsKeepIInv DEF BlockQueued, SetStatus, Open, Reached

LEMMA BlockDiesKeepsIInv ==
  ASSUME IInv, Next, NEW r \in Recipients, BlockDies(r)
  PROVE  IInv'
<1>1. QueueTypes' /\ Asked'
  BY DEF IInv, QueueTypes, Asked, BlockDies
<1>2. QED BY <1>1, RowsKeepIInv DEF BlockDies

LEMMA ChangeConsentKeepsIInv ==
  ASSUME IInv, Next, NEW r \in Recipients, ChangeConsent(r)
  PROVE  IInv'
<1>1. QueueTypes' /\ Asked'
  BY DEF IInv, QueueTypes, Asked, ChangeConsent
<1>2. QED BY <1>1, RowsKeepIInv DEF ChangeConsent

LEMMA ReceiptWriteKeepsIInv ==
  ASSUME IInv, Next, NEW a \in acks, ReceiptWrite(a)
  PROVE  IInv'
<1>1. a.row \in Recipients /\ a.to \in {"delivered", "read", "failed"}
  BY DEF IInv, QueueTypes
<1>2. /\ rows' = [rows EXCEPT ![a.row].status = a.to]
      /\ campaign' = Completed(rows')
  BY DEF ReceiptWrite, SetStatus
<1>3. rows' \in [Recipients -> [status : RowStatus, attempts : Nat, ext : ExtIds \cup {NoExt}]]
  BY <1>1, <1>2 DEF IInv, QueueTypes, RowStatus, Reached
<1>4. QueueTypes' /\ Asked'
  BY <1>2, <1>3
     DEF IInv, QueueTypes, Asked, ReceiptWrite, SetStatus, Completed, CampaignStatus
<1>5. \A q \in Recipients : rows'[q] # rows[q] => q = a.row /\ rows'[q].status = a.to
  BY <1>1, <1>2 DEF IInv, QueueTypes
<1>6. campaign'.status = "completed" =>
        campaign.status = "completed" \/ \A q \in Recipients : rows'[q].status \notin Open
  BY <1>2 DEF Completed
<1>7. QED BY <1>1, <1>4, <1>5, <1>6, RowsKeepIInv DEF ReceiptWrite, SetStatus, Open

LEMMA EchoKeepsIInv ==
  ASSUME IInv, Next, Echo
  PROVE  IInv'
<1> USE DEF IInv
<1>1. Path!IInv' /\ Proved \subseteq Proved'
  BY PathKept
<1>2. /\ UNCHANGED <<campaign, rows, old, optout, consent, blocking, tick, admin, acks>>
      /\ pc' = pc /\ job' = job
  BY DEF Echo, Send!EchoWebhook
<1>3. QueueTypes' /\ Linked' /\ Honoured' /\ Asked'
  BY <1>2 DEF QueueTypes, Linked, Honoured, Asked
<1>4. Said'
  BY <1>1, <1>2 DEF Said
<1>5. Alone' /\ InTurn'
  BY <1>1, <1>2 DEF Alone, InTurn, Owns, Holding, Finished
<1>6. QED BY <1>1, <1>3, <1>4, <1>5

LEMMA DatePassesKeepsIInv ==
  ASSUME IInv, Next, DatePasses
  PROVE  IInv'
<1>1. QueueTypes' /\ Asked' /\ campaign'.status = campaign.status
  BY DEF IInv, QueueTypes, Asked, DatePasses
<1>2. QED BY <1>1, RowsKeepIInv DEF DatePasses

\* Who had opted out and opts in again counts no longer as opted out.
LEMMA OptInKeepsIInv ==
  ASSUME IInv, Next, NEW r \in Recipients, OptIn(r)
  PROVE  IInv'
<1> USE DEF IInv
<1>1. Path!IInv' /\ Proved \subseteq Proved'
  BY PathKept
<1>2. /\ UNCHANGED <<campaign, rows, old, consent, blocking, admin, acks, sendVars>>
      /\ optout' = optout \ {r}
  BY DEF OptIn
<1>3. /\ tick' \in [Workers -> [step : Steps, row : Recipients \cup {NoRecipient},
                                attempts : Nat, to : RowStatus, optedOut : BOOLEAN]]
      /\ \A v \in Workers : /\ tick'[v].step = tick[v].step
                            /\ tick'[v].row = tick[v].row
                            /\ tick'[v].to = tick[v].to
                            /\ tick'[v].optedOut => tick[v].optedOut /\ tick[v].row # r
  BY ZenonT(60) DEF OptIn, QueueTypes
<1>4. QueueTypes'
  BY <1>2, <1>3 DEF QueueTypes
<1>5. Linked' /\ Honoured' /\ Asked'
  BY <1>2, <1>3 DEF Linked, Honoured, Asked, sendVars
<1>6. Said'
  BY <1>1, <1>2, <1>3 DEF Said
<1>7. \A v \in Workers : (Owns(v)' <=> Owns(v)) /\ (Holding(v)' <=> Holding(v))
  BY <1>3 DEF Owns, Holding
<1>8. Alone' /\ InTurn'
  BY <1>1, <1>2, <1>3, <1>7 DEF Alone, InTurn, Finished
<1>9. QED BY <1>1, <1>4, <1>5, <1>6, <1>8

\* A receipt is for a row that is settled and proved.
LEMMA ReceiptReadKeepsIInv ==
  ASSUME IInv, Next, NEW r \in Recipients, NEW s \in {"delivered", "read", "failed"},
         ReceiptRead(r, s)
  PROVE  IInv'
<1> USE DEF IInv
<1>1. Path!IInv' /\ Proved \subseteq Proved'
  BY PathKept
<1>2. /\ UNCHANGED <<campaign, rows, old, optout, consent, blocking, tick, admin, sendVars>>
      /\ acks' = {[row |-> r, to |-> s]}
      /\ rows[r].status \in {"sent", "delivered"}
  BY DEF ReceiptRead
<1>3. QueueTypes' /\ Linked' /\ Honoured' /\ Asked'
  BY <1>2 DEF QueueTypes, Linked, Honoured, Asked, sendVars
<1>4. Said'
  BY <1>1, <1>2 DEF Said, Reached
<1>5. Alone' /\ InTurn'
  BY <1>1, <1>2 DEF Alone, InTurn, Owns, Holding, Finished
<1>6. QED BY <1>1, <1>3, <1>4, <1>5

\* Unless ticks are slow, the row that grows old is in nobody's hands.
LEMMA AgeKeepsIInv ==
  ASSUME IInv, Next, NEW r \in Recipients, Age(r)
  PROVE  IInv'
<1> USE DEF IInv
<1>1. Path!IInv' /\ Proved \subseteq Proved'
  BY PathKept
<1>2. /\ UNCHANGED <<campaign, rows, optout, consent, blocking, tick, admin, acks, sendVars>>
      /\ old' = old \cup {r}
      /\ SlowTicks \/ \A w \in Workers : tick[w].row # r
  BY DEF Age
<1>3. QueueTypes' /\ Linked' /\ Honoured' /\ Asked'
  BY <1>2 DEF QueueTypes, Linked, Honoured, Asked, sendVars
<1>4. Said'
  BY <1>1, <1>2 DEF Said
<1>5. Alone' /\ InTurn'
  BY <1>1, <1>2 DEF Alone, InTurn, Owns, Holding, Finished
<1>6. QED BY <1>1, <1>3, <1>4, <1>5

-----------------------------------------------------------------------------
(***************************************************************************)
(* The theorems.                                                           *)
(***************************************************************************)

LEMMA InitIInv == Init => IInv
<1> SUFFICES ASSUME Init PROVE IInv
  OBVIOUS
<1>1. Path!IInv
  BY PathAssumption, Path!InitIInv DEF Init, Send!Init, Path!Init
<1>2. tick = [w \in Workers |-> Idle] /\ pc = [w \in Workers |-> "idle"]
  BY DEF Init, Send!Init
<1>3. \A w \in Workers : tick[w] = Idle /\ pc[w] = "idle"
  BY <1>2
<1>4. \A r \in Recipients : rows[r].status \in {"pending", "suppressed"}
  BY DEF Init
<1>5. QueueTypes
  <2>1. optout \subseteq Recipients
    BY CampaignAssumption DEF CampaignAssumption, Init
  <2>2. rows \in [Recipients -> [status : RowStatus, attempts : Nat, ext : ExtIds \cup {NoExt}]]
    BY DEF Init, RowStatus, Open
  <2>3. QED
    BY <1>2, <2>1, <2>2
       DEF QueueTypes, Init, Idle, NoRequest, CampaignStatus, Steps, RowStatus, Open
<1>6. Linked /\ Honoured /\ Asked
  BY <1>3 DEF Linked, Honoured, Asked, Init, Idle, NoRequest
<1>7. Said
  BY <1>3, <1>4 DEF Said, Init, Idle, Reached
<1>8. Alone /\ InTurn
  BY <1>3 DEF Alone, InTurn, Owns, Holding, Init, Idle, Finished
<1>9. QED BY <1>1, <1>5, <1>6, <1>7, <1>8 DEF IInv

LEMMA NextKeepsIInv == IInv /\ [Next]_vars => IInv'
<1> SUFFICES ASSUME IInv, [Next]_vars PROVE IInv'
  OBVIOUS
<1>1. CASE UNCHANGED vars
  <2>1. Path!IInv'
    BY <1>1, PathKept
  <2>2. QED
    BY <1>1, <2>1
       DEF vars, sendVars, IInv, QueueTypes, Linked, Said, Proved, Messaged, Honoured, Asked,
           Alone, InTurn, Owns, Holding, Finished
<1>2. CASE Next
  <2>1. ASSUME NEW w \in Workers, TickStep(w) PROVE IInv'
    BY <1>2, <2>1, CheckCampaignKeepsIInv, CheckEligibilityKeepsIInv,
       ResolveConversationKeepsIInv, SendingKeepsIInv, SendReturnedKeepsIInv, WriteKeepsIInv,
       EventKeepsIInv, EventFailsKeepsIInv, CompleteKeepsIInv
       DEF TickStep
  <2>2. ASSUME NEW r \in Fickle, NEW b \in BOOLEAN,
               OptOut(r, b) \/ BlockQueued(r) \/ BlockDies(r) \/ OptIn(r) \/ ChangeConsent(r)
        PROVE  IInv'
    <3>1. r \in Recipients
      BY CampaignAssumption DEF CampaignAssumption
    <3>2. QED
      BY <1>2, <2>2, <3>1, OptOutKeepsIInv, BlockQueuedKeepsIInv, BlockDiesKeepsIInv,
         OptInKeepsIInv, ChangeConsentKeepsIInv
  <2>3. QED
    BY <1>2, <2>1, <2>2, ClaimKeepsIInv, ClaimNothingKeepsIInv, CrashKeepsIInv,
       AdminReadKeepsIInv, AdminWriteKeepsIInv, CancelQueuedKeepsIInv, AdminDiesKeepsIInv,
       ReceiptReadKeepsIInv, ReceiptWriteKeepsIInv, EchoKeepsIInv, AgeKeepsIInv,
       DatePassesKeepsIInv
       DEF Next
<1>3. QED BY <1>1, <1>2

\* The inductive invariant holds in every reachable state.
THEOREM CampaignInvariant == Spec => []IInv
BY InitIInv, NextKeepsIInv, PTL DEF Spec

\* The variables keep their types.
THEOREM CampaignTypes == Spec => []TypeOK
<1>1. IInv => TypeOK
  BY DEF IInv, QueueTypes, TypeOK, Path!IInv, Path!TypeOK, Send!TypeOK, Path!PCs, Send!PCs,
         Path!AttemptStatus, Send!AttemptStatus, Path!Results, Send!Results, Path!Refusals,
         Send!Refusals, Path!Delivered, Send!Delivered
<1>2. QED BY <1>1, CampaignInvariant, PTL

\* The queue runs the send path as it is specified: nothing that claims, retries
\* or crashes does to a send what CanonicalSend does not know (worker.js:43-50).
THEOREM QueueImplementsSend == Spec => Send!Spec
<1>1. Init => Send!Init
  BY DEF Init
<1>2. IInv /\ [Next]_vars => [Send!Next]_(Send!sendVars)
  BY QueueIsSendStep DEF IInv
<1>3. QED BY <1>1, <1>2, CampaignInvariant, PTL DEF Spec, Send!Spec

\* ... so the queue keeps the abstract promise of the send path: a recipient is
\* bound to one body, called at most once, and ends failed or stored for ever.
THEOREM QueueImplementsAtMostOnceSend == Spec => Path!ImplementsAtMostOnceSend
<1>1. Send!Init => Path!Init
  BY DEF Send!Init, Path!Init
<1>2. Send!Spec => Path!Spec
  BY <1>1, SendNextIsPathNext, PTL DEF Send!Spec, Path!Spec
<1>3. QED BY <1>2, QueueImplementsSend, PathAssumption, Path!ImplementsAbstract, PTL

\* A recipient counted as sent has been (worker.js:50-55, :70).
THEOREM SentIsTrue == Spec => []SentMeansAccepted
<1>1. IInv => SentMeansAccepted
  BY DEF IInv, Said, Proved, SentMeansAccepted
<1>2. QED BY <1>1, CampaignInvariant, PTL

\* However often a recipient is claimed, the provider is called once (worker.js:43).
THEOREM RecipientMessagedOnce == Spec => []MessagedAtMostOnce
<1>1. IInv => MessagedAtMostOnce
  BY DEF IInv, Path!IInv, Path!KeyInv, MessagedAtMostOnce
<1>2. QED BY <1>1, CampaignInvariant, PTL

\* No send is begun for a recipient who had opted out before the claim
\* (repository.js:68, worker.js:36).
THEOREM OptOutStopsTheTick == Spec => []OptOutIsHonoured
<1>1. IInv => OptOutIsHonoured
  BY DEF IInv, Honoured, OptOutIsHonoured
<1>2. QED BY <1>1, CampaignInvariant, PTL

\* While every tick is over within 15 minutes, a recipient has one (repository.js:53-59).
THEOREM RecipientHasOneTick == ASSUME ~SlowTicks PROVE Spec => []OneTickPerRecipient
<1>1. IInv => OneTickPerRecipient
  BY DEF IInv, Alone, Owns, OneTickPerRecipient
<1>2. QED BY <1>1, CampaignInvariant, PTL

\* ... and a completed campaign leaves nobody without a message in its queue, whatever
\* statements fail (repository.js:69, worker.js:55).
THEOREM CompletionIsTrue == ASSUME ~SlowTicks PROVE Spec => []CompletedLeavesNobody
<1>1. IInv => CompletedLeavesNobody
  BY DEF IInv, InTurn, Finished, Proved, CompletedLeavesNobody
<1>2. QED BY <1>1, CampaignInvariant, PTL

\* ... and who was settled without a message is never taken up again, nor is a campaign
\* that is over (routes.js:62-66, repository.js:45-71).
THEOREM SettledStays == ASSUME ~SlowTicks PROVE Spec => SettledIsFinal
<1> DEFINE Final == /\ \A r \in Recipients : Settled(r) => Settled(r)' \/ Messaged(r)
                    /\ campaign.status \in {"cancelled", "completed"} =>
                         campaign'.status = campaign.status
<1>1. ASSUME IInv, [Next]_vars PROVE [Final]_vars
  <2>1. campaign.status \in {"cancelled", "completed"} => campaign'.status = campaign.status
    <3>1. \/ UNCHANGED campaign \/ campaign' = Started \/ campaign' = [campaign EXCEPT !.date = "past"]
          \/ (\E rs : campaign' = Completed(rs)) \/ AdminWrite
      BY <1>1
         DEF vars, Next, TickStep, Claim, ClaimNothing, CheckCampaign, CheckEligibility,
             ResolveConversation, Sending, SendReturned, Write, Event, EventFails, Complete, Crash,
             AdminRead, CancelQueued, AdminDies, OptOut, BlockQueued, BlockDies, OptIn,
             ChangeConsent, ReceiptRead, ReceiptWrite, Echo, Age, DatePasses
    <3>2. QED
      BY <1>1, <3>1 DEF IInv, QueueTypes, Started, Completed, AdminWrite, Terminal
  <2>2. ASSUME NEW r \in Recipients, Settled(r) PROVE Settled(r)' \/ Messaged(r)
    <3>1. rows[r].status \notin Open
      BY <2>2 DEF Settled
    <3>2. CASE UNCHANGED rows
      BY <3>1, <3>2 DEF Settled
    <3>3. Recovered(r) = rows[r]
      BY <1>1, <3>1, RecoveredEffect DEF IInv, Open
    <3>4. ASSUME NEW w \in Workers, ClaimNothing(w) \/ \E q \in Recipients : Claim(w, q)
          PROVE  rows'[r] = rows[r]
      BY <3>1, <3>3, <3>4 DEF ClaimNothing, Claim, Claimable, Open
    <3>5. ASSUME NEW w \in Workers, Write(w) PROVE rows'[r] = rows[r] \/ Messaged(r)
      <4>1. tick[w].row # r \/ Messaged(r)
        BY <1>1, <3>1, <3>5 DEF IInv, InTurn, Write, Holding, Open, Proved
      <4>2. QED BY <1>1, <3>5, <4>1 DEF IInv, QueueTypes, Write
    <3>6. ASSUME CancelQueued \/ \E q \in Fickle : BlockQueued(q) PROVE rows'[r] = rows[r]
      BY <1>1, <3>1, <3>6 DEF IInv, QueueTypes, CancelQueued, BlockQueued, SetStatus, Open
    <3>7. ASSUME NEW a \in acks, ReceiptWrite(a) PROVE Settled(r)'
      <4>1. rows'[r] = rows[r] \/ rows'[r].status = a.to
        BY <1>1, <3>7 DEF IInv, QueueTypes, ReceiptWrite, SetStatus
      <4>2. a.to \notin Open
        BY <1>1 DEF IInv, QueueTypes, Open
      <4>3. QED BY <3>1, <4>1, <4>2 DEF Settled
    <3>8. UNCHANGED rows \/ rows'[r] = rows[r] \/ Settled(r)' \/ Messaged(r)
      BY <1>1, <3>4, <3>5, <3>6, <3>7
         DEF vars, Next, TickStep, CheckCampaign, CheckEligibility, ResolveConversation, Sending,
             SendReturned, Event, EventFails, Complete, Crash, AdminRead, AdminWrite, AdminDies,
             OptOut, BlockDies, OptIn, ChangeConsent, ReceiptRead, Echo, Age, DatePasses
    <3>9. QED BY <3>1, <3>2, <3>8 DEF Settled
  <2>3. QED BY <2>1, <2>2
<1>2. QED BY <1>1, CampaignInvariant, PTL DEF Spec, SettledIsFinal
================================================================================
