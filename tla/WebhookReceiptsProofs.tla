------------------------- MODULE WebhookReceiptsProofs -------------------------
(***************************************************************************)
(* Proofs about WebhookReceipts, for any workers, events and bounds.       *)
(*                                                                         *)
(* What a receipt says is kept true by who may still write it, which the   *)
(* properties do not mention.  Shape says what a worker has in hand at     *)
(* each of its steps.  Apart says that a receipt that is no call has one   *)
(* worker and one only: the claim asks for received and failed ones, and   *)
(* only calls are taken from a worker that is slow.                        *)
(***************************************************************************)
EXTENDS WebhookReceipts, TLAPS

Shape ==
  \A w \in Workers :
    /\ work[w].step = "idle" => work[w] = Idle
    /\ work[w].step = "process" => work[w].event = NoEvent
    /\ work[w].step \in {"callback", "fail"} => work[w].event \in work[w].batch
    /\ work[w].step = "callback" => /\ work[w].event.kind = "inbound"
                                    /\ receipts[work[w].event].status = "processed"

Apart ==
  /\ \A e \in old : e.kind = "call"
  /\ \A v, w \in Workers, e \in Events :
       e.kind # "call" /\ e \in work[v].batch /\ e \in work[w].batch => v = w
  /\ \A w \in Workers : \A e \in work[w].batch :
       e.kind # "call" => receipts[e].status \in {"processing", "processed"}

\* What a processed receipt says of its message.
Effective(e) ==
  /\ e.kind # "call" => stored[e.msg] # "none"
  /\ e.status \in {"delivered", "read"} => Rank(stored[e.msg]) >= Rank(e.status)

Effects == \A e \in Events : receipts[e].status = "processed" => Effective(e)

InHand ==
  \A e \in Events : receipts[e].status = "processing" =>
    crashes > 0 \/ \E w \in Workers : e \in work[w].batch

\* The handler of Meta's worker is called when the message gets its row.
CalledWhenStored ==
  Meta => \A m \in Messages : begun[m] <= 1 /\ (stored[m] = "none" => begun[m] = 0)

IInv == TypeOK /\ Shape /\ Apart /\ Effects /\ InHand /\ CalledWhenStored /\ ThrowingHandlerIsRepeated

-----------------------------------------------------------------------------
(***************************************************************************)
(* Ranks, and what an event makes of its message.                          *)
(***************************************************************************)

\* A late failure, and a status of lower rank, do not replace a delivery.
LEMMA NeverBack ==
  ASSUME NEW s \in {"delivered", "read"}, NEW t \in Reported, ShouldAdvance(s, t)
  PROVE  t \in {"delivered", "read"} /\ Rank(t) >= Rank(s)
BY DEF ShouldAdvance, Rank, Reported

\* A delivery that does not advance a message has been overtaken.
LEMMA Overtaken ==
  ASSUME NEW s \in MessageStatus, NEW t \in {"delivered", "read"}, ~ShouldAdvance(s, t)
  PROVE  Rank(s) >= Rank(t)
BY DEF ShouldAdvance, Rank, MessageStatus, Reported

\* Ranks of deliveries are those of deliveries only.
LEMMA RankOfDelivery ==
  ASSUME NEW s \in MessageStatus, NEW t \in {"delivered", "read"}, Rank(s) >= Rank(t)
  PROVE  s \in {"delivered", "read"}
BY DEF Rank, MessageStatus, Reported

\* What an event is.
LEMMA EventType ==
  ASSUME NEW e \in Events
  PROVE  /\ e.kind \in Kinds /\ e.msg \in Messages /\ e.status \in Reported \cup {"none"}
         /\ e.kind = "status" <=> e.status # "none"
         /\ e # NoEvent
BY WebhookAssumption

\* A processed event has had its effect on its message, and has undone none.
LEMMA AppliedIsEffective ==
  ASSUME TypeOK, NEW e \in Events, Ready(e)
  PROVE  /\ Applied(e) \in MessageStatus
         /\ e.kind # "call" => Applied(e) # "none"
         /\ stored[e.msg] # "none" => Applied(e) # "none"
         /\ e.status \in {"delivered", "read"} => Rank(Applied(e)) >= Rank(e.status)
         /\ stored[e.msg] \in {"delivered", "read"} =>
              Applied(e) \in {"delivered", "read"} /\ Rank(Applied(e)) >= Rank(stored[e.msg])
<1> DEFINE s == stored[e.msg]
<1>0. s \in MessageStatus
  BY EventType DEF TypeOK
<1>1. \A t \in MessageStatus : Rank(t) >= Rank(t)
  BY DEF Rank, MessageStatus, Reported
<1>2. CASE e.kind = "status" /\ ShouldAdvance(s, e.status)
  <2>1. Applied(e) = e.status /\ e.status \in Reported
    BY <1>2, EventType DEF Applied
  <2>2. Applied(e) \in MessageStatus /\ Applied(e) # "none"
    BY <2>1 DEF MessageStatus, Reported
  <2>3. s \in {"delivered", "read"} => Applied(e) \in {"delivered", "read"} /\ Rank(Applied(e)) >= Rank(s)
    BY <1>2, <2>1, NeverBack
  <2>4. QED BY <1>1, <2>1, <2>2, <2>3
<1>3. CASE e.kind = "status" /\ ~ShouldAdvance(s, e.status)
  <2>1. Applied(e) = s /\ s # "none"
    BY <1>3 DEF Applied, Ready
  <2>2. e.status \in {"delivered", "read"} => Rank(s) >= Rank(e.status)
    BY <1>0, <1>3, Overtaken
  <2>3. QED BY <1>0, <1>1, <2>1, <2>2
<1>4. CASE e.kind # "status"
  <2>1. e.status = "none"
    BY <1>4, EventType
  <2>2. /\ Applied(e) = s \/ (s = "none" /\ Applied(e) \in {"received", "sent"})
        /\ e.kind \in {"inbound", "history", "echo"} => Applied(e) # "none"
    BY <1>4 DEF Applied
  <2>3. e.kind # "call" => e.kind \in {"inbound", "history", "echo"}
    BY <1>4, EventType DEF Kinds
  <2>4. QED BY <1>0, <1>1, <2>1, <2>2, <2>3 DEF MessageStatus, Reported
<1>5. QED BY <1>2, <1>3, <1>4

-----------------------------------------------------------------------------
(***************************************************************************)
(* Each action keeps IInv.                                                 *)
(***************************************************************************)

\* A new receipt is in nobody's hands.
LEMMA AdmitKeepsIInv ==
  ASSUME IInv, NEW e \in Events, Admit(e)
  PROVE  IInv'
<1> USE DEF IInv, Admit
<1>1. TypeOK'
  BY DEF TypeOK, ReceiptStatus
<1>2. Shape'
  BY DEF Shape, TypeOK
<1>3. Apart'
  BY DEF Apart, TypeOK
<1>4. Effects' /\ InHand'
  BY DEF Effects, Effective, InHand, TypeOK
<1>5. CalledWhenStored' /\ ThrowingHandlerIsRepeated'
  BY DEF CalledWhenStored, ThrowingHandlerIsRepeated, ProcessedIsHandled, Meta, TypeOK
<1>6. QED BY <1>1, <1>2, <1>3, <1>4, <1>5

\* A message gets a row, that had none.
LEMMA RecordSentKeepsIInv ==
  ASSUME IInv, NEW m \in Messages, RecordSent(m)
  PROVE  IInv'
<1> USE DEF IInv, RecordSent
<1>1. TypeOK'
  BY DEF TypeOK, MessageStatus
<1>2. Shape' /\ Apart' /\ InHand'
  BY DEF Shape, Apart, InHand
<1>3. Effects'
  <2> SUFFICES ASSUME NEW e \in Events, receipts[e].status = "processed" PROVE Effective(e)'
    BY DEF Effects
  <2>1. Effective(e)
    BY DEF Effects
  <2>2. CASE e.msg # m
    BY <2>1, <2>2, EventType DEF Effective, TypeOK
  <2>3. CASE e.msg = m
    <3>1. e.status \notin {"delivered", "read"} /\ e.kind = "call"
      BY <2>1, <2>3, RankOfDelivery DEF Effective, MessageStatus
    <3>2. QED BY <3>1 DEF Effective
  <2>4. QED BY <2>2, <2>3
<1>4. CalledWhenStored' /\ ThrowingHandlerIsRepeated'
  BY DEF CalledWhenStored, ThrowingHandlerIsRepeated, ProcessedIsHandled, Meta, TypeOK
<1>5. QED BY <1>1, <1>2, <1>3, <1>4

\* Only calls grow old.
LEMMA AgeKeepsIInv ==
  ASSUME IInv, NEW e \in Events, Age(e)
  PROVE  IInv'
<1> USE DEF IInv, Age
<1>1. TypeOK'
  BY DEF TypeOK
<1>2. Shape' /\ Apart' /\ InHand' /\ Effects'
  BY DEF Shape, Apart, InHand, Effects, Effective
<1>3. CalledWhenStored' /\ ThrowingHandlerIsRepeated'
  BY DEF CalledWhenStored, ThrowingHandlerIsRepeated, ProcessedIsHandled, Meta
<1>4. QED BY <1>1, <1>2, <1>3

\* What claim's first UPDATE does to the receipts: calls under way are given back.
LEMMA ReleasedReceipts ==
  ASSUME IInv
  PROVE  /\ Released \in [Events -> [status : ReceiptStatus, attempts : Nat]]
         /\ \A e \in Events :
              \/ Released[e] = receipts[e]
              \/ /\ e.kind = "call" /\ receipts[e].status = "processing"
                 /\ Released[e].status = "failed"
BY DEF IInv, TypeOK, Released, Interrupted, Apart, ReceiptStatus

LEMMA ClaimNothingKeepsIInv ==
  ASSUME IInv, NEW w \in Workers, ClaimNothing(w)
  PROVE  IInv'
<1> USE DEF IInv
<1>1. /\ receipts' = Released /\ old' \subseteq old
      /\ UNCHANGED <<source, stored, work, begun, handled, crashes>>
  BY DEF ClaimNothing
<1>2. TypeOK'
  BY <1>1, ReleasedReceipts DEF TypeOK
<1>3. Shape'
  BY <1>1, ReleasedReceipts DEF Shape, TypeOK
<1>4. Apart'
  BY <1>1, ReleasedReceipts DEF Apart, TypeOK
<1>5. Effects' /\ InHand'
  BY <1>1, ReleasedReceipts DEF Effects, Effective, InHand
<1>6. CalledWhenStored' /\ ThrowingHandlerIsRepeated'
  BY <1>1, ReleasedReceipts
     DEF CalledWhenStored, ThrowingHandlerIsRepeated, ProcessedIsHandled, Meta
<1>7. QED BY <1>2, <1>3, <1>4, <1>5, <1>6

\* What is claimed, unless it is a call, is in nobody's hands.
LEMMA ClaimKeepsIInv ==
  ASSUME IInv, NEW w \in Workers, NEW S \in SUBSET Due, Claim(w, S)
  PROVE  IInv'
<1> USE DEF IInv
<1> DEFINE next == [step |-> "process", event |-> NoEvent, batch |-> S]
<1>1. /\ work[w] = Idle
      /\ receipts' = [e \in Events |-> IF e \in S
                                       THEN [status |-> "processing",
                                             attempts |-> receipts[e].attempts + 1]
                                       ELSE Released[e]]
      /\ old' \subseteq old /\ work' = [work EXCEPT ![w] = next]
      /\ UNCHANGED <<source, stored, begun, handled, crashes>>
  BY DEF Claim, Shape
<1>2. /\ next.step = "process" /\ next.event = NoEvent /\ next.batch = S
      /\ next \in [step : {"idle", "process", "callback", "fail"},
                   event : Events \cup {NoEvent}, batch : SUBSET Events]
  BY DEF Due
<1> HIDE DEF next
<1>3. /\ S \subseteq Events
      /\ \A e \in S : e.kind # "call" => /\ receipts[e].status \in {"received", "failed"}
                                        /\ \A v \in Workers : e \notin work[v].batch
  BY ReleasedReceipts DEF Due, Apart
<1>4. TypeOK'
  <2>1. receipts' \in [Events -> [status : ReceiptStatus, attempts : Nat]]
    BY <1>1, ReleasedReceipts DEF TypeOK, ReceiptStatus
  <2>2. QED BY <1>1, <1>2, <2>1 DEF TypeOK
<1>5. Shape'
  <2> SUFFICES ASSUME NEW v \in Workers, v # w
               PROVE  /\ work[v].step = "idle" => work[v] = Idle
                      /\ work[v].step = "process" => work[v].event = NoEvent
                      /\ work[v].step \in {"callback", "fail"} => work[v].event \in work[v].batch
                      /\ work[v].step = "callback" => /\ work[v].event.kind = "inbound"
                                                      /\ receipts'[work[v].event].status = "processed"
    BY <1>1, <1>2 DEF Shape, TypeOK
  <2>1. work[v].step = "callback" => work[v].event \in Events /\ work[v].event \notin S
    BY <1>3 DEF Shape, TypeOK
  <2>2. QED BY <1>1, <2>1, ReleasedReceipts DEF Shape
<1>6. Apart'
  <2>1. \A v \in Workers \ {w} : work'[v] = work[v]
    BY <1>1 DEF TypeOK
  <2>2. work'[w].batch = S
    BY <1>1, <1>2 DEF TypeOK
  <2>3. ASSUME NEW u \in Workers, NEW v \in Workers, NEW e \in Events,
               e.kind # "call", e \in work'[u].batch, e \in work'[v].batch
        PROVE  u = v
    BY <1>3, <2>1, <2>2, <2>3 DEF Apart
  <2>4. ASSUME NEW v \in Workers, NEW e \in work'[v].batch, e.kind # "call"
        PROVE  receipts'[e].status \in {"processing", "processed"}
    <3>1. e \in Events
      BY <1>4 DEF TypeOK
    <3>2. CASE v = w
      BY <1>1, <2>2, <2>4, <3>1, <3>2
    <3>3. CASE v # w
      BY <1>1, <1>3, <2>1, <2>4, <3>1, <3>3, ReleasedReceipts DEF Apart
    <3>4. QED BY <3>2, <3>3
  <2>5. QED BY <1>1, <2>3, <2>4 DEF Apart
<1>7. Effects'
  BY <1>1, ReleasedReceipts DEF Effects, Effective
<1>8. InHand'
  BY <1>1, <1>2, ReleasedReceipts DEF InHand, TypeOK, Idle
<1>9. CalledWhenStored'
  BY <1>1 DEF CalledWhenStored, Meta
<1>10. ThrowingHandlerIsRepeated'
  BY <1>1, ReleasedReceipts, EventType
     DEF ThrowingHandlerIsRepeated, ProcessedIsHandled, Meta, TypeOK, Idle
<1>11. QED BY <1>4, <1>5, <1>6, <1>7, <1>8, <1>9, <1>10

\* A worker that is done with an event has the rest of its batch.
LEMMA FinishedWork ==
  ASSUME TypeOK, NEW w \in Workers, NEW e \in Events, Finish(w, e)
  PROVE  /\ work' \in [Workers -> [step : {"idle", "process", "callback", "fail"},
                                   event : Events \cup {NoEvent}, batch : SUBSET Events]]
         /\ \A v \in Workers \ {w} : work'[v] = work[v]
         /\ work'[w].batch = work[w].batch \ {e}
         /\ work'[w].event = NoEvent
         /\ work'[w] = Idle \/ work'[w].step = "process"
<1> DEFINE rest == [step |-> "process", event |-> NoEvent, batch |-> work[w].batch \ {e}]
<1>1. work' = [work EXCEPT ![w] = IF work[w].batch = {e} THEN Idle ELSE rest]
  BY DEF Finish, TypeOK
<1>2. /\ rest.step = "process" /\ rest.event = NoEvent /\ rest.batch = work[w].batch \ {e}
      /\ rest \in [step : {"idle", "process", "callback", "fail"},
                   event : Events \cup {NoEvent}, batch : SUBSET Events]
  BY DEF TypeOK
<1>3. /\ Idle.event = NoEvent /\ Idle.batch = {}
      /\ Idle \in [step : {"idle", "process", "callback", "fail"},
                   event : Events \cup {NoEvent}, batch : SUBSET Events]
  BY DEF Idle
<1> HIDE DEF rest
<1>4. QED BY <1>1, <1>2, <1>3 DEF TypeOK

\* What a worker that leaves an event keeps of the invariant, if the receipt of that event
\* is no longer processing, and is a call or processed or failed.
LEMMA FinishKeepsHands ==
  ASSUME IInv, NEW w \in Workers, NEW e \in work[w].batch, NEW a \in ReceiptStatus,
         receipts' = [receipts EXCEPT ![e].status = a],
         a # "processing", old' = old \ {e}, Finish(w, e), UNCHANGED crashes
  PROVE  Shape' /\ Apart' /\ InHand'
<1> USE DEF IInv
<1>0. e \in Events
  BY DEF TypeOK
<1>1. /\ \A v \in Workers \ {w} : work'[v] = work[v]
      /\ work'[w].batch = work[w].batch \ {e}
      /\ work'[w].event = NoEvent
      /\ work'[w] = Idle \/ work'[w].step = "process"
  BY <1>0, FinishedWork
<1>2. \A f \in Events : f # e => receipts'[f] = receipts[f]
  BY DEF TypeOK
<1>3. receipts'[e].status = a
  BY <1>0 DEF TypeOK
<1>4. \A v \in Workers \ {w} : e.kind # "call" => e \notin work[v].batch
  BY <1>0 DEF Apart
<1>5. Shape'
  <2> SUFFICES ASSUME NEW v \in Workers
               PROVE  /\ work'[v].step = "idle" => work'[v] = Idle
                      /\ work'[v].step = "process" => work'[v].event = NoEvent
                      /\ work'[v].step \in {"callback", "fail"} => work'[v].event \in work'[v].batch
                      /\ work'[v].step = "callback" => /\ work'[v].event.kind = "inbound"
                                                       /\ receipts'[work'[v].event].status = "processed"
    BY DEF Shape
  <2>1. CASE v = w
    BY <1>1, <2>1 DEF Idle
  <2>2. CASE v # w
    <3>1. work'[v] = work[v]
      BY <1>1, <2>2
    <3>2. work[v].step = "callback" => work[v].event \in Events /\ work[v].event # e
      BY <1>4, <2>2 DEF Shape, TypeOK
    <3>3. QED BY <1>2, <3>1, <3>2 DEF Shape
  <2>3. QED BY <2>1, <2>2
<1>6. Apart'
  <2>1. \A v \in Workers : work'[v].batch \subseteq work[v].batch /\ work[v].batch \subseteq Events
    BY <1>1 DEF TypeOK
  <2>2. ASSUME NEW v \in Workers, NEW f \in work'[v].batch, f.kind # "call"
        PROVE  f # e /\ f \in Events /\ f \in work[v].batch
    BY <1>1, <1>4, <2>1, <2>2
  <2>3. QED BY <1>2, <2>1, <2>2 DEF Apart
<1>7. InHand'
  BY <1>1, <1>2, <1>3 DEF InHand
<1>8. QED BY <1>5, <1>6, <1>7

\* What processing does to the messages and to the other receipts.
LEMMA ProcessKeepsEffects ==
  ASSUME IInv, NEW w \in Workers, NEW e \in work[w].batch, Process(w, e)
  PROVE  Effects' /\ stored' \in [Messages -> MessageStatus]
<1> USE DEF IInv
<1>0. e \in Events /\ e.msg \in Messages
  BY EventType DEF TypeOK
<1>1. /\ stored' = [stored EXCEPT ![e.msg] = Applied(e)]
      /\ receipts' = [receipts EXCEPT ![e].status = "processed"]
      /\ Ready(e)
  BY DEF Process
<1>2. /\ Applied(e) \in MessageStatus
      /\ e.kind # "call" => Applied(e) # "none"
      /\ stored[e.msg] # "none" => Applied(e) # "none"
      /\ e.status \in {"delivered", "read"} => Rank(Applied(e)) >= Rank(e.status)
      /\ stored[e.msg] \in {"delivered", "read"} =>
           Applied(e) \in {"delivered", "read"} /\ Rank(Applied(e)) >= Rank(stored[e.msg])
  BY <1>0, <1>1, AppliedIsEffective
<1>3. \A s \in MessageStatus : Rank(s) \in Int
  BY DEF Rank, MessageStatus, Reported
<1>4. ASSUME NEW f \in Events, receipts'[f].status = "processed" PROVE Effective(f)'
  <2>1. CASE f = e
    BY <1>0, <1>1, <1>2, <2>1 DEF Effective, TypeOK
  <2>2. CASE f # e
    <3>1. Effective(f) /\ f.msg \in Messages
      BY <1>1, <1>4, <2>2, EventType DEF Effects, TypeOK
    <3>2. CASE f.msg # e.msg
      BY <1>1, <3>1, <3>2 DEF Effective, TypeOK
    <3>3. CASE f.msg = e.msg
      <4>1. stored'[f.msg] = Applied(e)
        BY <1>0, <1>1, <3>3 DEF TypeOK
      <4>2. f.kind # "call" => Applied(e) # "none"
        BY <1>2, <3>1, <3>3 DEF Effective
      <4>3. ASSUME f.status \in {"delivered", "read"} PROVE Rank(Applied(e)) >= Rank(f.status)
        <5>1. Rank(stored[e.msg]) >= Rank(f.status) /\ stored[e.msg] \in MessageStatus
          BY <1>0, <3>1, <3>3, <4>3 DEF Effective, TypeOK
        <5>2. stored[e.msg] \in {"delivered", "read"}
          BY <4>3, <5>1, RankOfDelivery
        <5>3. Rank(Applied(e)) >= Rank(stored[e.msg])
          BY <1>2, <5>2
        <5>4. Rank(f.status) \in Int /\ Rank(Applied(e)) \in Int /\ Rank(stored[e.msg]) \in Int
          BY <1>2, <1>3, <4>3, <5>1 DEF MessageStatus, Reported
        <5>5. QED BY <5>1, <5>3, <5>4
      <4>4. QED BY <4>1, <4>2, <4>3 DEF Effective
    <3>4. QED BY <3>2, <3>3
  <2>3. QED BY <2>1, <2>2
<1>5. QED BY <1>0, <1>1, <1>2, <1>4 DEF Effects, TypeOK

LEMMA ProcessKeepsIInv ==
  ASSUME IInv, NEW w \in Workers, NEW e \in work[w].batch, Process(w, e)
  PROVE  IInv'
<1> USE DEF IInv
<1>0. e \in Events /\ e.msg \in Messages /\ work[w].step = "process"
  BY EventType DEF TypeOK, Process
<1>1. /\ stored' = [stored EXCEPT ![e.msg] = Applied(e)]
      /\ receipts' = [receipts EXCEPT ![e].status = "processed"]
      /\ old' = old \ {e}
      /\ Ready(e)
      /\ UNCHANGED <<source, handled, crashes>>
  BY DEF Process
<1>2. Effects' /\ stored' \in [Messages -> MessageStatus]
  BY ProcessKeepsEffects
<1>3. receipts' \in [Events -> [status : ReceiptStatus, attempts : Nat]]
  BY <1>0, <1>1 DEF TypeOK, ReceiptStatus
<1>4. CASE CallbackDue(e)
  <2>1. /\ work' = [work EXCEPT ![w].step = "callback", ![w].event = e]
        /\ begun' = [begun EXCEPT ![e.msg] = @ + 1]
    BY <1>4 DEF Process
  <2>2. e.kind = "inbound" /\ (Meta => stored[e.msg] = "none")
    BY <1>4 DEF CallbackDue
  <2>3. TypeOK'
    <3>1. work' \in [Workers -> [step : {"idle", "process", "callback", "fail"},
                                 event : Events \cup {NoEvent}, batch : SUBSET Events]]
      BY <1>0, <2>1 DEF TypeOK
    <3>2. begun' \in [Messages -> Nat]
      BY <1>0, <2>1 DEF TypeOK
    <3>3. QED BY <1>1, <1>2, <1>3, <3>1, <3>2 DEF TypeOK
  <2>4. /\ \A v \in Workers : work'[v].batch = work[v].batch
        /\ \A v \in Workers \ {w} : work'[v] = work[v]
        /\ work'[w].step = "callback" /\ work'[w].event = e
    BY <2>1 DEF TypeOK
  <2>5. \A f \in Events : receipts'[f].status = IF f = e THEN "processed" ELSE receipts[f].status
    BY <1>1 DEF TypeOK
  <2>6. Shape'
    BY <1>0, <2>2, <2>4, <2>5 DEF Shape, TypeOK
  <2>7. Apart'
    BY <1>1, <2>4, <2>5 DEF Apart, TypeOK
  <2>8. InHand'
    BY <1>1, <2>4, <2>5 DEF InHand
  <2>9. CalledWhenStored'
    <3>1. stored[e.msg] = "none" => Applied(e) # "none"
      BY <2>2 DEF Applied
    <3>2. \A m \in Messages : begun'[m] = IF m = e.msg THEN begun[m] + 1 ELSE begun[m]
      BY <1>0, <2>1 DEF TypeOK
    <3>3. \A m \in Messages : stored'[m] = IF m = e.msg THEN Applied(e) ELSE stored[m]
      BY <1>0, <1>1 DEF TypeOK
    <3>4. SUFFICES ASSUME Meta, NEW m \in Messages
                   PROVE  begun'[m] <= 1 /\ (stored'[m] = "none" => begun'[m] = 0)
      BY <1>1 DEF CalledWhenStored, Meta
    <3>5. QED BY <2>2, <3>1, <3>2, <3>3, <3>4 DEF CalledWhenStored, TypeOK
  <2>10. ThrowingHandlerIsRepeated'
    <3>1. \A f \in Events, v \in Workers : work[v].event = f => f = e \/ work'[v].event = f
      BY <1>0, <2>4, EventType DEF Shape
    <3>2. QED
      BY <1>1, <2>4, <2>5, <3>1 DEF ThrowingHandlerIsRepeated, ProcessedIsHandled, Meta
  <2>11. QED BY <1>2, <2>3, <2>6, <2>7, <2>8, <2>9, <2>10
<1>5. CASE ~CallbackDue(e)
  <2>1. Finish(w, e) /\ UNCHANGED begun
    BY <1>5 DEF Process
  <2>2. TypeOK'
    BY <1>0, <1>1, <1>2, <1>3, <2>1, FinishedWork DEF TypeOK
  <2>3. Shape' /\ Apart' /\ InHand'
    BY <1>1, <2>1, FinishKeepsHands DEF ReceiptStatus
  <2>4. CalledWhenStored'
    <3>1. stored[e.msg] # "none" => Applied(e) # "none"
      BY <1>0, <1>1, AppliedIsEffective
    <3>2. QED BY <1>0, <1>1, <2>1, <3>1 DEF CalledWhenStored, Meta, TypeOK
  <2>5. ThrowingHandlerIsRepeated'
    <3>1. \A f \in Events, v \in Workers : work[v].event = f => work'[v].event = f
      BY <1>0, <2>1, FinishedWork, EventType DEF Shape
    <3>2. \A f \in Events : f # e => receipts'[f].status = receipts[f].status
      BY <1>1 DEF TypeOK
    <3>3. ~Meta => e.kind # "inbound"
      BY <1>5 DEF CallbackDue
    <3>4. QED
      BY <1>1, <3>1, <3>2, <3>3 DEF ThrowingHandlerIsRepeated, ProcessedIsHandled, Meta
  <2>6. QED BY <1>2, <2>2, <2>3, <2>4, <2>5
<1>6. QED BY <1>4, <1>5

\* An event that fails stays in its worker's hands.
LEMMA ProcessFailsKeepsIInv ==
  ASSUME IInv, NEW w \in Workers, NEW e \in work[w].batch, ProcessFails(w, e)
  PROVE  IInv'
<1> USE DEF IInv
<1>0. e \in Events /\ work[w].step = "process"
  BY DEF TypeOK, ProcessFails
<1>1. /\ work' = [work EXCEPT ![w].step = "fail", ![w].event = e]
      /\ UNCHANGED <<source, receipts, old, stored, begun, handled, crashes>>
  BY DEF ProcessFails
<1>2. TypeOK'
  BY <1>0, <1>1 DEF TypeOK
<1>3. /\ \A v \in Workers : work'[v].batch = work[v].batch
      /\ \A v \in Workers \ {w} : work'[v] = work[v]
      /\ work'[w].step = "fail" /\ work'[w].event = e
  BY <1>1 DEF TypeOK
<1>4. Shape' /\ Apart' /\ InHand'
  <2>1. Shape'
    <3>1. ASSUME NEW v \in Workers \ {w} PROVE work'[v] = work[v]
      BY <1>3
    <3>2. e \in work'[w].batch
      BY <1>3
    <3>3. QED BY <1>1, <1>3, <3>1, <3>2 DEF Shape
  <2>2. Apart'
    BY <1>1, <1>3 DEF Apart
  <2>3. InHand'
    BY <1>1, <1>3 DEF InHand
  <2>4. QED BY <2>1, <2>2, <2>3
<1>5. Effects' /\ CalledWhenStored'
  BY <1>1 DEF Effects, Effective, CalledWhenStored, Meta
<1>6. ThrowingHandlerIsRepeated'
  <2>1. \A f \in Events, v \in Workers : work[v].event = f => work'[v].event = f
    BY <1>0, <1>3, EventType DEF Shape
  <2>2. QED BY <1>1, <2>1 DEF ThrowingHandlerIsRepeated, ProcessedIsHandled, Meta
<1>7. QED BY <1>2, <1>4, <1>5, <1>6

\* The handler ran: it has been called for an event that is processed, and nobody else has it.
LEMMA CallbackKeepsIInv ==
  ASSUME IInv, NEW w \in Workers, Callback(w)
  PROVE  IInv'
<1> USE DEF IInv
<1> DEFINE e == work[w].event
<1>0. /\ e \in work[w].batch /\ e \in Events /\ e.msg \in Messages /\ e.kind = "inbound"
      /\ receipts[e].status = "processed"
  BY EventType DEF TypeOK, Callback, Shape
<1>1. /\ handled' = handled \cup {e.msg} /\ Finish(w, e)
      /\ UNCHANGED <<source, receipts, old, stored, begun, crashes>>
  BY DEF Callback
<1>2. receipts' = [receipts EXCEPT ![e].status = "processed"] /\ old' = old \ {e}
  BY <1>0, <1>1 DEF TypeOK, Apart
<1> HIDE DEF e
<1>3. TypeOK'
  BY <1>0, <1>1, FinishedWork DEF TypeOK
<1>4. Shape' /\ Apart' /\ InHand'
  BY <1>0, <1>1, <1>2, FinishKeepsHands DEF ReceiptStatus
<1>5. Effects' /\ CalledWhenStored'
  BY <1>1 DEF Effects, Effective, CalledWhenStored, Meta
<1>6. ThrowingHandlerIsRepeated'
  <2>1. \A f \in Events, v \in Workers : work[v].event = f => work'[v].event = f \/ f = e
    BY <1>0, <1>1, FinishedWork DEF e
  <2>2. QED BY <1>1, <2>1 DEF ThrowingHandlerIsRepeated, ProcessedIsHandled, Meta
<1>7. QED BY <1>3, <1>4, <1>5, <1>6

LEMMA CallbackFailsKeepsIInv ==
  ASSUME IInv, NEW w \in Workers, CallbackFails(w)
  PROVE  IInv'
<1> USE DEF IInv
<1>1. /\ work[w].step = "callback" /\ work' = [work EXCEPT ![w].step = "fail"]
      /\ UNCHANGED <<source, receipts, old, stored, begun, handled, crashes>>
  BY DEF CallbackFails
<1>2. TypeOK'
  BY <1>1 DEF TypeOK
<1>3. /\ \A v \in Workers : work'[v].batch = work[v].batch /\ work'[v].event = work[v].event
      /\ \A v \in Workers \ {w} : work'[v] = work[v]
      /\ work'[w].step = "fail"
  BY <1>1 DEF TypeOK
<1>4. Shape' /\ Apart' /\ InHand'
  <2>1. Shape'
    <3>1. work[w].event \in work[w].batch
      BY <1>1 DEF Shape
    <3>2. ASSUME NEW v \in Workers \ {w} PROVE work'[v] = work[v]
      BY <1>3
    <3>3. QED BY <1>1, <1>3, <3>1, <3>2 DEF Shape
  <2>2. Apart' /\ InHand'
    BY <1>1, <1>3 DEF Apart, InHand
  <2>3. QED BY <2>1, <2>2
<1>5. Effects' /\ CalledWhenStored'
  BY <1>1 DEF Effects, Effective, CalledWhenStored, Meta
<1>6. ThrowingHandlerIsRepeated'
  BY <1>1, <1>3 DEF ThrowingHandlerIsRepeated, ProcessedIsHandled, Meta
<1>7. QED BY <1>2, <1>4, <1>5, <1>6

\* fail overwrites the row, which is the worker's own or a call.
LEMMA FailKeepsIInv ==
  ASSUME IInv, NEW w \in Workers, Fail(w)
  PROVE  IInv'
<1> USE DEF IInv
<1> DEFINE e == work[w].event
           a == IF receipts[e].attempts >= MaxAttempts THEN "dead_letter" ELSE "failed"
<1>0. e \in work[w].batch /\ e \in Events
  BY DEF TypeOK, Fail, Shape
<1>1. /\ receipts' = [receipts EXCEPT ![e].status = a] /\ old' = old \ {e}
      /\ Finish(w, e)
      /\ UNCHANGED <<source, stored, begun, handled, crashes>>
  BY DEF Fail
<1>2. a \in {"dead_letter", "failed"}
  OBVIOUS
<1> HIDE DEF e, a
<1>3. TypeOK'
  BY <1>0, <1>1, <1>2, FinishedWork DEF TypeOK, ReceiptStatus
<1>4. Shape' /\ Apart' /\ InHand'
  BY <1>0, <1>1, <1>2, FinishKeepsHands DEF ReceiptStatus
<1>5. \A f \in Events : receipts'[f].status = IF f = e THEN a ELSE receipts[f].status
  BY <1>1 DEF TypeOK
<1>6. Effects' /\ CalledWhenStored'
  BY <1>1, <1>2, <1>5 DEF Effects, Effective, CalledWhenStored, Meta
<1>7. ThrowingHandlerIsRepeated'
  <2>1. \A f \in Events, v \in Workers : work[v].event = f => work'[v].event = f \/ f = e
    BY <1>0, <1>1, FinishedWork DEF e
  <2>2. QED BY <1>1, <1>2, <1>5, <2>1 DEF ThrowingHandlerIsRepeated, ProcessedIsHandled, Meta
<1>8. QED BY <1>3, <1>4, <1>6, <1>7

\* What a dead process had in hand, nobody has.
LEMMA CrashKeepsIInv ==
  ASSUME IInv, NEW w \in Workers, Crash(w)
  PROVE  IInv'
<1> USE DEF IInv
<1>1. /\ work' = [work EXCEPT ![w] = Idle] /\ crashes < MaxCrashes /\ crashes' = crashes + 1
      /\ UNCHANGED <<source, receipts, old, stored, begun, handled>>
  BY DEF Crash
<1>2. crashes' \in 0..MaxCrashes /\ crashes' > 0
  BY <1>1, WebhookAssumption DEF TypeOK
<1>3. Idle.step = "idle" /\ Idle.event = NoEvent /\ Idle.batch = {}
  BY DEF Idle
<1>4. TypeOK'
  BY <1>1, <1>2 DEF TypeOK, Idle
<1>5. Shape' /\ Apart'
  BY <1>1, <1>3 DEF Shape, Apart, TypeOK
<1>6. Effects' /\ InHand' /\ CalledWhenStored' /\ ThrowingHandlerIsRepeated'
  BY <1>1, <1>2
     DEF Effects, Effective, InHand, CalledWhenStored, ThrowingHandlerIsRepeated, Meta
<1>7. QED BY <1>4, <1>5, <1>6

-----------------------------------------------------------------------------
(***************************************************************************)
(* Theorems.                                                               *)
(***************************************************************************)

LEMMA InitIInv == Init => IInv
<1> SUFFICES ASSUME Init PROVE IInv
  OBVIOUS
<1> USE DEF Init, Idle
<1>1. TypeOK
  BY WebhookAssumption DEF TypeOK, ReceiptStatus, MessageStatus
<1>2. Shape /\ Apart /\ Effects /\ InHand
  BY DEF Shape, Apart, Effects, InHand
<1>3. CalledWhenStored /\ ThrowingHandlerIsRepeated
  BY DEF CalledWhenStored, ThrowingHandlerIsRepeated, ProcessedIsHandled
<1>4. QED BY <1>1, <1>2, <1>3 DEF IInv

LEMMA NextKeepsIInv == IInv /\ [Next]_vars => IInv'
<1> SUFFICES ASSUME IInv, [Next]_vars PROVE IInv'
  OBVIOUS
<1>1. CASE UNCHANGED vars
  BY <1>1 DEF vars, IInv, TypeOK, Shape, Apart, Effects, Effective, InHand, CalledWhenStored,
              ThrowingHandlerIsRepeated, ProcessedIsHandled, Meta
<1>2. ASSUME NEW w \in Workers, WorkerStep(w) PROVE IInv'
  BY <1>2, ClaimKeepsIInv, ClaimNothingKeepsIInv, ProcessKeepsIInv, ProcessFailsKeepsIInv,
     CallbackKeepsIInv, CallbackFailsKeepsIInv, FailKeepsIInv
     DEF WorkerStep
<1>3. CASE Next
  BY <1>2, <1>3, AdmitKeepsIInv, RecordSentKeepsIInv, AgeKeepsIInv, CrashKeepsIInv DEF Next
<1>4. QED BY <1>1, <1>3

\* What a worker has in hand, who may still write a receipt, what a processed one has done
\* and how often the handler was called, in every reachable state
\* (metaWebhookRepository.js:13-19, metaWebhookWorker.js:3).
THEOREM ReceiptInvariant == Spec => []IInv
BY InitIInv, NextKeepsIInv, PTL DEF Spec

\* The variables keep their types.
THEOREM TypeCorrect == Spec => []TypeOK
<1>1. IInv => TypeOK
  BY DEF IInv
<1>2. QED BY <1>1, ReceiptInvariant, PTL

\* A processed receipt has had its effect, whoever dies; and as long as nobody has died, one
\* that is processing is in some worker's batch (metaWebhookRepository.js:14-17,
\* metaWebhookWorker.js:3).
THEOREM ReceiptsStayTrue == Spec => []ReceiptsAreTrue
<1>1. IInv => ReceiptsAreTrue
  BY DEF IInv, Effects, Effective, InHand, ReceiptsAreTrue
<1>2. QED BY <1>1, ReceiptInvariant, PTL

\* Meta's worker calls the inbound handler once for a message (metaWebhookWorker.js:3).
THEOREM HandlerCalledOnce == Spec => []HandledAtMostOnce
<1>1. IInv => HandledAtMostOnce
  BY DEF IInv, CalledWhenStored, HandledAtMostOnce
<1>2. QED BY <1>1, ReceiptInvariant, PTL

\* YCloud's worker does not forget a handler that threw (ycloudWebhookWorker.js:1).
THEOREM HandlerIsRepeated == Spec => []ThrowingHandlerIsRepeated
<1>1. IInv => ThrowingHandlerIsRepeated
  BY DEF IInv
<1>2. QED BY <1>1, ReceiptInvariant, PTL

\* A delivered or read message is never shown as less (metaWebhookRepository.js:6-7).
THEOREM DeliveryIsKept == Spec => StatusNeverRegresses
<1> DEFINE Kept == \A m \in Messages : stored[m] \in {"delivered", "read"} =>
                     Rank(stored'[m]) >= Rank(stored[m])
<1>1. ASSUME TypeOK, [Next]_vars PROVE [Kept]_vars
  <2>1. ASSUME NEW w \in Workers, NEW e \in work[w].batch, Process(w, e) PROVE Kept
    <3>1. e \in Events /\ e.msg \in Messages
      BY <1>1, EventType DEF TypeOK
    <3>2. Ready(e) /\ stored' = [stored EXCEPT ![e.msg] = Applied(e)]
      BY <2>1 DEF Process
    <3>3. stored[e.msg] \in {"delivered", "read"} => Rank(Applied(e)) >= Rank(stored[e.msg])
      BY <1>1, <3>1, <3>2, AppliedIsEffective
    <3>4. QED BY <1>1, <3>1, <3>2, <3>3 DEF TypeOK, Rank
  <2>2. ASSUME NEW m \in Messages, RecordSent(m) PROVE Kept
    BY <1>1, <2>2 DEF RecordSent, TypeOK, Rank
  <2>3. ASSUME UNCHANGED stored PROVE Kept
    BY <2>3 DEF Rank
  <2>4. QED
    BY <1>1, <2>1, <2>2, <2>3
       DEF Next, WorkerStep, Admit, Age, Claim, ClaimNothing, ProcessFails, Callback,
           CallbackFails, Fail, Crash
<1>2. QED BY <1>1, TypeCorrect, PTL DEF Spec, StatusNeverRegresses
===============================================================================
