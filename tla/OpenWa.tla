-------------------------------- MODULE OpenWa --------------------------------
(***************************************************************************)
(* One number over the unofficial provider (openwa/): its webhook route,   *)
(* which works an event off while the provider waits for the answer, and   *)
(* the route that sends a file.  Each statement outside a transaction is a *)
(* step; the provider repeats what it got no answer to, at any time, and   *)
(* two requests of one process run together.                               *)
(***************************************************************************)
EXTENDS Integers

CONSTANTS OwaRequests,
          OwaEvents,     \* [kind, msg, status]: message, ack (of a value) or state
          OwaKeys,       \* idempotency keys of files
          OwaIds,        \* ids the provider gives to messages
          Outbound,      \* those of them it gives to files; the rest are of contacts
          MaxConnections, OwaAttempts,   \* 4 attempts in the code
          NoEvent, NoId

VARIABLES
  session,   \* number of provider_connections made, the last one with the session; its status
  receipts,  \* connection -> event -> status and attempt_count
  chat,      \* connection -> id -> status of the message, "none" if there is no row
  keyed,     \* keys of stored messages
  serving,   \* request -> what it does, and where it is
  taken,     \* key -> ids of the files the provider took under it (history)
  handled,   \* events whose callback ran to its end (history)
  told       \* keys whose caller was told of success (history)

vars == <<session, receipts, chat, keyed, serving, taken, handled, told>>

Connections == 1..MaxConnections
NoReceipt == [status |-> "none", attempts |-> 0]
Rest == [step |-> "rest", at |-> 0, event |-> NoEvent, key |-> "none", id |-> NoId, stored |-> FALSE]
AllTaken == UNION {taken[k] : k \in OwaKeys}

Init ==
  /\ session = [connection |-> 0, status |-> "none"]
  /\ receipts = [c \in Connections |-> [e \in OwaEvents |-> NoReceipt]]
  /\ chat = [c \in Connections |-> [i \in OwaIds |-> "none"]]
  /\ keyed = {} /\ handled = {} /\ told = {}
  /\ serving = [r \in OwaRequests |-> Rest]
  /\ taken = [k \in OwaKeys |-> {}]

-----------------------------------------------------------------------------
To(r, step) == serving' = [serving EXCEPT ![r].step = step]
Answer(r) == serving' = [serving EXCEPT ![r] = Rest]

\* enable: a new connection each time, to which the number and its session move.  The
\* webhook is registered afterwards; a failure of that is told and leaves the connection.
Enable ==
  /\ session.connection < MaxConnections   \* bound of the model
  /\ session' = [connection |-> session.connection + 1, status |-> "connecting"]
  /\ UNCHANGED <<receipts, chat, keyed, serving, taken, handled, told>>

SetReceipt(c, e, receipt) == receipts' = [receipts EXCEPT ![c][e] = receipt]

\* ingest up to its INSERT: the connection of the session as it is now.  The provider tells
\* of its own messages only after it took them.
Ingest(r, e) ==
  LET c == session.connection IN
  /\ serving[r] = Rest /\ c # 0
  /\ e.msg \in Outbound => e.msg \in AllTaken
  /\ IF receipts[c][e] = NoReceipt
     THEN SetReceipt(c, e, [status |-> "processing", attempts |-> 1])
     ELSE UNCHANGED receipts
  /\ serving' = [serving EXCEPT ![r] = [Rest EXCEPT !.at = c, !.event = e,
                   !.step = IF receipts[c][e] = NoReceipt THEN e.kind ELSE "existing"]]
  /\ UNCHANGED <<session, chat, keyed, taken, handled, told>>

\* The SELECT after a conflict.
Existing(r) ==
  LET receipt == receipts[serving[r].at][serving[r].event] IN
  /\ serving[r].step = "existing"
  /\ IF receipt.status \in {"processed", "dead_letter"} THEN Answer(r) ELSE To(r, "resume")
  /\ UNCHANGED <<session, receipts, chat, keyed, taken, handled, told>>

\* The UPDATE, whatever the receipt has become.  Attempts are compared with the limit only.
Resume(r) ==
  LET c == serving[r].at  e == serving[r].event  n == receipts[c][e].attempts IN
  /\ serving[r].step = "resume"
  /\ SetReceipt(c, e, [status |-> "processing", attempts |-> IF n < OwaAttempts THEN n + 1 ELSE n])
  /\ To(r, e.kind)
  /\ UNCHANGED <<session, chat, keyed, taken, handled, told>>

\* ingestMessage, one transaction; a message that is there stays as it is.
IngestMessage(r) ==
  LET c == serving[r].at  i == serving[r].event.msg IN
  /\ serving[r].step = "message"
  /\ chat' = [chat EXCEPT ![c][i] = IF @ # "none" THEN @ ELSE IF i \in Outbound THEN "sent" ELSE "received"]
  /\ serving' = [serving EXCEPT ![r].step = "callback", ![r].stored = (chat[c][i] = "none")]
  /\ UNCHANGED <<session, receipts, keyed, taken, handled, told>>

\* The statuses of acknowledgements; any other value is taken for "accepted".
messageStatus(value) ==
  CASE value = "3" -> "read" [] value = "2" -> "delivered" [] value = "1" -> "sent" [] value = "-1" -> "failed"
    [] OTHER -> "accepted"

\* ingestAck: the status is overwritten without a rank, where there is a message.  The
\* second of two equal status events may violate their index: see Fault.
IngestAck(r) ==
  LET c == serving[r].at  e == serving[r].event IN
  /\ serving[r].step = "ack"
  /\ chat' = [chat EXCEPT ![c][e.msg] = IF @ = "none" THEN @ ELSE messageStatus(e.status)]
  /\ To(r, "callback")
  /\ UNCHANGED <<session, receipts, keyed, taken, handled, told>>

\* setStatus; the connection may have been replaced meanwhile.
SetStatus(r) ==
  /\ serving[r].step = "state"
  /\ session' = IF serving[r].at = session.connection THEN [session EXCEPT !.status = serving[r].event.status]
                ELSE session
  /\ To(r, "callback")
  /\ UNCHANGED <<receipts, chat, keyed, taken, handled, told>>

\* Plausible bug: the handler is called for messages that were not there.
HandlerDue_NewOnly(r) == serving[r].event.kind = "message" => serving[r].stored

\* onInbound is called for a duplicate too; onCanonicalEvent is called for every event.
HandlerDue(r) == TRUE

\* They suppress a contact who opted out, and synchronise campaign rows (server.js:121).
Callback(r) ==
  /\ serving[r].step = "callback"
  /\ handled' = IF HandlerDue(r) THEN handled \cup {serving[r].event} ELSE handled
  /\ To(r, "processed")
  /\ UNCHANGED <<session, receipts, chat, keyed, taken, told>>

Processed(r) ==
  LET c == serving[r].at  e == serving[r].event IN
  /\ serving[r].step = "processed"
  /\ SetReceipt(c, e, [receipts[c][e] EXCEPT !.status = "processed"])
  /\ Answer(r)
  /\ UNCHANGED <<session, chat, keyed, taken, handled, told>>

\* Any statement or callback of the try block throws, before it has an effect.
Fault(r) ==
  /\ serving[r].step \in {"message", "ack", "state", "callback", "processed"}
  /\ To(r, "fail")
  /\ UNCHANGED <<session, receipts, chat, keyed, taken, handled, told>>

\* The catch block, also over a receipt that another delivery has processed.
Fail(r) ==
  LET c == serving[r].at  e == serving[r].event IN
  /\ serving[r].step = "fail"
  /\ SetReceipt(c, e, [receipts[c][e] EXCEPT !.status =
                         IF receipts[c][e].attempts >= OwaAttempts THEN "dead_letter" ELSE "failed"])
  /\ Answer(r)
  /\ UNCHANGED <<session, chat, keyed, taken, handled, told>>

-----------------------------------------------------------------------------
\* send-media up to the look at its key.
SendMedia(r, k) ==
  /\ serving[r] = Rest /\ session.connection # 0
  /\ IF k \in keyed THEN told' = told \cup {k} /\ UNCHANGED serving
     ELSE /\ serving' = [serving EXCEPT ![r] = [Rest EXCEPT !.step = "send", !.at = session.connection, !.key = k]]
          /\ UNCHANGED told
  /\ UNCHANGED <<session, receipts, chat, keyed, taken, handled>>

\* sendFile: the provider refuses, or takes the file; its answer may be lost.
SendFile(r) ==
  LET k == serving[r].key IN
  /\ serving[r].step = "send"
  /\ \/ Answer(r) /\ UNCHANGED taken
     \/ \E i \in Outbound \ AllTaken :
          /\ taken' = [taken EXCEPT ![k] = @ \cup {i}]
          /\ Answer(r) \/ serving' = [serving EXCEPT ![r].step = "record", ![r].id = i]
  /\ UNCHANGED <<session, receipts, chat, keyed, handled, told>>

\* recordOutbound, one transaction: no row when the echo, or a request with the same key,
\* came first, and the caller is told of it as of a stored one.
RecordOutbound(r) ==
  LET c == serving[r].at  k == serving[r].key  i == serving[r].id IN
  /\ serving[r].step = "record"
  /\ \/ /\ IF chat[c][i] = "none" /\ k \notin keyed
           THEN chat' = [chat EXCEPT ![c][i] = "accepted"] /\ keyed' = keyed \cup {k}
           ELSE UNCHANGED <<chat, keyed>>
        /\ told' = told \cup {k}
     \/ UNCHANGED <<chat, keyed, told>>
  /\ Answer(r)
  /\ UNCHANGED <<session, receipts, taken, handled>>

\* The process dies, with all of its requests.
Die ==
  /\ \E r \in OwaRequests : serving[r] # Rest
  /\ serving' = [r \in OwaRequests |-> Rest]
  /\ UNCHANGED <<session, receipts, chat, keyed, taken, handled, told>>

Work(r) ==
  \/ Existing(r) \/ Resume(r) \/ IngestMessage(r) \/ IngestAck(r) \/ SetStatus(r)
  \/ Callback(r) \/ Processed(r) \/ Fault(r) \/ Fail(r)

\* Events of one kind, for a number that is enabled again and again.
EventNext(E) ==
  \/ Enable \/ Die
  \/ \E r \in OwaRequests : Work(r) \/ \E e \in E : Ingest(r, e)

\* The files that are sent over one connection, and what the provider tells of them.
FileNext ==
  \/ (session.connection = 0 /\ Enable) \/ Die
  \/ \E r \in OwaRequests : \/ Work(r) \/ SendFile(r) \/ RecordOutbound(r)
                           \/ \E e \in {o \in OwaEvents : o.msg \in Outbound} : Ingest(r, e)
                           \/ \E k \in OwaKeys : SendMedia(r, k)

Spec == Init /\ [][EventNext(OwaEvents) \/ FileNext]_vars

-----------------------------------------------------------------------------
TypeOK ==
  /\ session \in [connection : 0..MaxConnections, status : {"none", "connecting", "active", "offline"}]
  /\ receipts \in [Connections -> [OwaEvents -> [status : {"none", "processing", "processed", "failed", "dead_letter"},
                                                 attempts : 0..OwaAttempts]]]
  /\ chat \in [Connections -> [OwaIds -> {"none", "accepted", "sent", "received", "delivered", "read", "failed"}]]
  /\ keyed \subseteq OwaKeys /\ told \subseteq OwaKeys /\ handled \subseteq OwaEvents
  /\ taken \in [OwaKeys -> SUBSET Outbound]
  /\ \A r \in OwaRequests : serving[r].at \in 0..MaxConnections

\* What is reported is true, whatever deliveries of one event cross, fail or die, and however
\* often the number is enabled: the message of a processed receipt is stored and its handler
\* has run to its end (openwa/repository.js:77-106), and a caller told of success, also of a
\* duplicate, had a file sent under the key (openwa/routes.js:28).
ReportsAreTrue ==
  /\ \A c \in Connections, e \in OwaEvents : receipts[c][e].status = "processed" =>
       e \in handled /\ (e.kind = "message" => chat[c][e.msg] # "none")
  /\ \A k \in told : taken[k] # {}
=============================================================================
