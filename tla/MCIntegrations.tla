---------------------------- MODULE MCIntegrations ----------------------------
(***************************************************************************)
(* The integrations and the store, for TLC.  These components share no     *)
(* row: a behaviour is one of the component its part names, and the others *)
(* rest.  Where a component is large, its parts are instances of it with   *)
(* the operations that meet.                                               *)
(***************************************************************************)
EXTENDS Integers, Sequences, SequencesExt, TLC

CONSTANTS
  Jobs, Workers, Hooks, Subjects, MaxAttempts, Policies, NoJob,
  Processes, Messages, ConversationOf, MediaOf, NoMedia, NoOne, NoMessage,
  TickProcesses, Events, NoTicker, NoEvent,
  StoreProcesses, Numbers, People, Owner, Guest, Plans, Reported, AuditIds, AuditCap,
  Contents, Streams, ChunkSizes, MaxBytes, MaxPartBytes, MaxHeaderBytes, MaxParts, FileMemoryBytes,
  Flows, Locations, Companies, GhlUsers, Boss, Admin, OauthStates, Installs,
  Nonces, NoState, NoFlow, NoLocation, NoUser,
  OwaRequests, OwaEvents, OwaKeys, OwaIds, Outbound, MaxConnections, OwaAttempts, NoId,
  TokenProcesses, MaxTokens,
  Parts               \* the parts a run is about

VARIABLES
  part,
  conn, outbox, work, inbox, replay, request, value, erased, lateCall, disturbed,
  intent, archive, folder, linked, lock, mediaLock, run, imported, uploaded, folders,
  delivery, sub, known, ticker, tick, accepted,
  db, copy,
  sent, rest, buffer, state, current, parts, spilled, result,
  oauth, hook, agency, installedAt, inst, workspaces, role, link, users, locked, opened, nonces, flow,
  session, receipts, chat, keyed, serving, taken, handled, told,
  ofAgency, present, stored, fresh, issued, good, rowLock, trade, lost, silent

ASSUME IntegrationsAssumption ==
  /\ NoOne \notin Processes /\ NoTicker \notin TickProcesses /\ NoEvent \notin Events
  /\ Hooks \subseteq [subject : Subjects, at : Nat] /\ "latest_wins" \in Policies
  /\ \A e \in OwaEvents : e.kind \in {"message", "ack", "state"} /\ (e.kind # "state" => e.msg \in OwaIds)
  /\ MaxConnections \in Nat
  /\ {Owner, Guest} \subseteq People
  /\ "team" \in DOMAIN Plans /\ \A p \in DOMAIN Plans : Plans[p].numbers \in Nat
  /\ NoFlow \notin Flows /\ NoUser # Admin
  /\ \A h \in Installs : h.company \in Companies /\ h.location \in Locations /\ h.user \in GhlUsers

crmVars == <<conn, outbox, work, inbox, replay, request, value, erased, lateCall, disturbed>>
syncVars == <<intent, archive, folder, linked, lock, mediaLock, run, imported, uploaded, folders>>
triggerVars == <<delivery, sub, known, ticker, tick, accepted>>
storeVars == <<db, copy>>
mediaVars == <<sent, rest, buffer, state, current, parts, spilled, result>>
installVars == <<oauth, hook, agency, installedAt, inst, workspaces, role, link, users, locked, opened, nonces, flow>>
openVars == <<session, receipts, chat, keyed, serving, taken, handled, told>>
tokenVars == <<ofAgency, present, stored, fresh, issued, good, rowLock, trade, lost, silent>>
vars == <<part, crmVars, syncVars, triggerVars, storeVars, mediaVars, installVars, openVars, tokenVars>>

Crm == INSTANCE Connectors
Sync == INSTANCE GhlMessageSync
Triggers == INSTANCE GhlTriggers
Store == INSTANCE LegacyStore
Media == INSTANCE MediaMultipart
Install == INSTANCE GhlInstall
Open == INSTANCE OpenWa
Tokens == INSTANCE GhlTokens

\* The requests are any, described by their own bytes.
ASSUME UploadAssumption == Media!UploadLimits /\ \A s \in Streams : Media!Laid(s)

-----------------------------------------------------------------------------
(* The instances.                                                          *)

MCHooks == {[subject |-> "s", at |-> 1], [subject |-> "s", at |-> 2], [subject |-> "t", at |-> 1]}

MCMessages == {"plain", "photo", "video"}
MCConversationOf == [m \in MCMessages |-> IF m = "video" THEN "other" ELSE "one"]
MCMediaOf == [m \in MCMessages |-> IF m = "plain" THEN NoMedia ELSE m]

MCPlans == [p \in {"team", "starter"} |-> IF p = "team" THEN [numbers |-> 2, users |-> 2]
                                                        ELSE [numbers |-> 1, users |-> 1]]

\* Bodies with line ends, dashes and the text of the boundary in them.
Bodies == {<<>>, <<"r", "n", "x">>, <<"x", "r">>, <<"x", "r", "n", "-">>,
           <<"x", "x", "x", "r", "n", "-", "-">>, <<"-", "-", "b">>}
Part(h, d) == [header |-> h, data |-> d]
PartLists ==
  {<<Part(h, d)>> : h \in {"field", "file"}, d \in Bodies}
  \cup {<<Part("file", d), Part("field", e)>> : d \in Bodies, e \in {<<"x">>, <<"r", "n", "-">>}}
  \cup {<<Part("field", <<"x">>), Part("file", <<"x", "r", "n">>), Part("field", <<>>)>>}

Encode(p, pad) == <<"-", "-", "b", "r", "n", p.header>> \o [i \in 1..pad |-> "h"]
                  \o <<"r", "n", "r", "n">> \o p.data \o <<"r", "n">>
Whole(ps, pad) == FlattenSeq([i \in DOMAIN ps |-> Encode(ps[i], pad)]) \o <<"-", "-", "b", "-", "-", "r", "n">>
\* Where the first n boundaries end, after a preamble.
BoundaryEnds(ps, pad, preamble, n) ==
  [i \in 1..n |-> preamble + Len(FlattenSeq([j \in 1..(i - 1) |-> Encode(ps[j], pad)])) + 3]
Stream(ps, pad, bytes, whole, at) ==
  [parts |-> SubSeq(ps, 1, Len(at) - 1), bytes |-> bytes, whole |-> whole, at |-> at, header |-> pad + 1]

\* Whole requests with short and long headers, requests that stop before their end, with a
\* header of no known kind, and with something else after a boundary.
MCStreams ==
  {Stream(ps, pad, Whole(ps, pad), TRUE, BoundaryEnds(ps, pad, 0, Len(ps) + 1)) :
     ps \in PartLists, pad \in {0, 4}}
  \cup {Stream(ps, 0, <<"x", "-">> \o SubSeq(Whole(ps, 0), 1, Len(Whole(ps, 0)) - 3), FALSE,
               BoundaryEnds(ps, 0, 2, Len(ps) + 1)) : ps \in PartLists}
  \cup {Stream(<<Part("junk", <<>>)>>, 0, Whole(<<Part("junk", <<>>)>>, 0), FALSE, <<3>>),
        Stream(<<Part("file", <<"x">>)>>, 0, Encode(Part("file", <<"x">>), 0) \o <<"-", "-", "b", "x", "x">>,
               FALSE, BoundaryEnds(<<Part("file", <<"x">>)>>, 0, 0, 2))}

MCOwaEvents == {[kind |-> "message", msg |-> "stop", status |-> "received"],
                [kind |-> "message", msg |-> "file1", status |-> "sent"],
                [kind |-> "state", msg |-> NoId, status |-> "active"],
                [kind |-> "ack", msg |-> "file1", status |-> "3"]}

MCInstalls == {[id |-> 1, company |-> "A", location |-> "l1", user |-> "g"]}

-----------------------------------------------------------------------------
\* A request is chosen where one is parsed, and the kind of a row where its tokens are traded.
Init ==
  /\ part \in Parts
  /\ Crm!Init /\ Sync!Init /\ Triggers!Init /\ Store!Init /\ Install!Init /\ Open!Init /\ Tokens!Init
  /\ Media!Init /\ (part # "media" => sent = CHOOSE s \in Streams : TRUE)
  /\ part # "tokens" => ~ofAgency

Next ==
  \/ /\ \/ part = "deliveries" /\ Crm!Deliveries
        \/ part = "deliveries" /\ (Crm!Replay \/ Crm!Requeue \/ Crm!Revoke \/ Crm!DeadLetter \/ Crm!Rotate)
        \/ part = "webhooks" /\ (Crm!Webhooks \/ Crm!Replay \/ Crm!Requeue)
        \/ part = "webhooks" /\ \E p \in Policies : Crm!UpdateSettings(p)
     /\ UNCHANGED <<part, syncVars, triggerVars, storeVars, mediaVars, installVars, openVars, tokenVars>>
  \/ /\ part = "sync" /\ Sync!Next
     /\ UNCHANGED <<part, crmVars, triggerVars, storeVars, mediaVars, installVars, openVars, tokenVars>>
  \/ /\ part = "triggers" /\ Triggers!Next
     /\ UNCHANGED <<part, crmVars, syncVars, storeVars, mediaVars, installVars, openVars, tokenVars>>
  \/ /\ \/ part = "numbers" /\ Store!NumbersNext
        \/ part = "people" /\ Store!PeopleNext
        \/ part = "billing" /\ Store!BillingNext
     /\ UNCHANGED <<part, crmVars, syncVars, triggerVars, mediaVars, installVars, openVars, tokenVars>>
  \/ /\ part = "media" /\ Media!Next
     /\ UNCHANGED <<part, crmVars, syncVars, triggerVars, storeVars, installVars, openVars, tokenVars>>
  \/ /\ \/ part = "callback" /\ Install!CallbackNext
        \/ part = "agency" /\ Install!AgencyNext
        \/ part = "team" /\ Install!TeamNext
        \/ part = "embedded" /\ Install!EmbeddedNext
     /\ UNCHANGED <<part, crmVars, syncVars, triggerVars, storeVars, mediaVars, openVars, tokenVars>>
  \/ /\ \/ part = "contacts" /\ Open!EventNext({e \in OwaEvents : e.msg = "stop"})
        \/ part = "session" /\ Open!EventNext({e \in OwaEvents : e.kind = "state"})
        \/ part = "files" /\ Open!FileNext
     /\ UNCHANGED <<part, crmVars, syncVars, triggerVars, storeVars, mediaVars, installVars, tokenVars>>
  \/ /\ part = "tokens" /\ Tokens!Next
     /\ UNCHANGED <<part, crmVars, syncVars, triggerVars, storeVars, mediaVars, installVars, openVars>>

Spec == Init /\ [][Next]_vars

\* Processes, workers, requests and flows are the same two values, which are alike in every
\* part; so are the numbers, and the events.
Symmetry == Permutations(StoreProcesses) \cup Permutations(Numbers) \cup Permutations(Events)

-----------------------------------------------------------------------------
(* The properties of the components, stated and explained in their modules. *)

\* The types of the component that runs; the others keep their initial values.
TypeOK ==
  CASE part \in {"deliveries", "webhooks"} -> Crm!TypeOK
    [] part = "sync" -> Sync!TypeOK
    [] part = "triggers" -> Triggers!TypeOK
    [] part \in {"numbers", "people", "billing"} -> Store!TypeOK
    [] part = "media" -> Media!TypeOK
    [] part \in {"contacts", "session", "files"} -> Open!TypeOK
    [] part = "tokens" -> Tokens!TypeOK
    [] OTHER -> Install!TypeOK

\* Connectors: what is claimed after a revocation never reaches the CRM (worker.js:5-6).
RevokedIsSilent == Crm!RevokedIsSilent

\* Connectors: out-of-order webhooks converge to the newest (repository.js:14-18).
NewestWins == Crm!NewestWins

\* GhlMessageSync: one import per message, one upload per medium (ghlMessageSync.js:72-107).
ImportedOnce == Sync!ImportedOnce

\* GhlTriggers: one run of a workflow per event (ghlWorkflowTriggers.js:37-69).
DeliveredOnce == Triggers!DeliveredOnce

\* GhlMessageSync: the rows are written ahead of what GHL does (ghlMessageSync.js:72-107).
ImportsByIntent == Sync!ImportsByIntent

\* GhlTriggers: the delivery is written ahead of the run (ghlWorkflowTriggers.js:37-69).
RunsByIntent == Triggers!RunsByIntent

\* LegacyStore: numbers within what the plan allows (db/numberCreationPolicy.js:31-69).
QuotaHolds == Store!QuotaHolds

\* LegacyStore: a writer overwrites only what it has read (db/legacyDelta.js:43-90).
NothingUnseenIsOverwritten == Store!NothingUnseenIsOverwritten

\* MediaMultipart: chunks do not show in what is parsed (metaMediaMultipart.js:79-150).
ChunkingIsInvisible == Media!ChunkingIsInvisible

\* GhlInstall: one workspace and one company per location (ghlAutoProvisioning.js:88-123).
TenantIsFinal == Install!TenantIsFinal

\* OpenWa: what a receipt and an answer say is so (openwa/repository.js:77-106, routes.js:28).
ReportsAreTrue == Open!ReportsAreTrue

\* GhlTokens: the refresh token of a row stays one GHL takes, or goes where GHL answered an
\* agency without a new one (ghlAgencyInstall.js:23-39).
TokenSurvives == Tokens!TokenSurvives
=============================================================================
