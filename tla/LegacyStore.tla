------------------------------ MODULE LegacyStore ------------------------------
(***************************************************************************)
(* The store of users, workspaces, numbers and invites (store.js) over     *)
(* PostgreSQL (db/postgresStore.js, db/legacyDelta.js), and the billing    *)
(* handlers that write through it, for one workspace.  A process loads the *)
(* tables, each with a query of its own, runs the operation on its copy,   *)
(* and applies the difference in one transaction; other processes commit   *)
(* in between.  Numbers are also installed by direct SQL, under the same   *)
(* policy.                                                                 *)
(***************************************************************************)
EXTENDS Integers, FiniteSets

CONSTANTS StoreProcesses,
          Numbers,      \* phone numbers; the row of a number stands for its phone
          People,       \* e-mail addresses
          Owner, Guest, \* two of them: the owner, and the one an invite may be for
          Plans,        \* plan -> limits on numbers and users
          Reported,     \* the billing statuses that webhooks report, of those they may
          AuditIds, AuditCap

VARIABLES
  db,      \* the tables, as committed
  copy     \* process -> its operation: the tables it loaded and what it makes of them

vars == <<db, copy>>

Columns == {"plan", "status", "provider", "billing", "invite"}
BillingStatuses == {"manual", "trialing", "active", "pending", "past_due", "canceled", "unpaid"}
\* The columns each query of loadLegacyState reads.
Queries == {{"numbers"}, {"members"}, {"users"}, {"invite"}, {"plan", "status", "provider", "billing"}, {"audit"}}
NoCopy == [step |-> "idle", before |-> <<>>, after |-> <<>>]

Init ==
  /\ db = [numbers |-> {}, members |-> {Owner}, users |-> {Owner}, invite |-> "none",
           plan |-> "team", status |-> "active", provider |-> "manual", billing |-> "manual",
           audit |-> {}]
  /\ copy = [p \in StoreProcesses |-> NoCopy]

-----------------------------------------------------------------------------
(* What each operation of Store makes of the tables it is given: the set of results, empty *)
(* when it throws.                                                                         *)

canAddPaidResource(status) == status \in {"manual", "trialing", "active"}

createAccount(d) ==
  {[d EXCEPT !.numbers = @ \cup {n}] : n \in
     {m \in Numbers \ d.numbers : canAddPaidResource(d.billing)
                                  /\ Cardinality(d.numbers) < Plans[d.plan].numbers}}

deleteAccount(d) == {[d EXCEPT !.numbers = @ \ {n}] : n \in d.numbers}

createClient(d) == {[d EXCEPT !.users = @ \cup {u}] : u \in People \ d.users}

addWorkspaceMember(d) ==
  {[d EXCEPT !.members = @ \cup {u}] : u \in
     {v \in d.users \ d.members : canAddPaidResource(d.billing)
                                  /\ Cardinality(d.members) < Plans[d.plan].users}}

removeWorkspaceMember(d) == {[d EXCEPT !.members = @ \ {u}] : u \in d.members \ {Owner}}

createInvite(d) == {[d EXCEPT !.invite = "pending"] : i \in
                      {j \in {Guest} : d.invite = "none" /\ canAddPaidResource(d.billing)}}

\* The password is hashed before anything is written; an expired invite throws, so that its
\* new status is lost with the copy.
acceptInvite(d) ==
  {a \in addWorkspaceMember([d EXCEPT !.users = @ \cup {Guest}, !.invite = "accepted"]) :
     d.invite = "pending" /\ Guest \notin d.users /\ Guest \in a.members}

\* addAudit shows the latest AuditCap entries and forgets the others in memory.
addAudit(d) ==
  {[d EXCEPT !.audit = {a} \cup kept] : a \in AuditIds \ d.audit,
     kept \in {k \in SUBSET d.audit :
                 IF Cardinality(d.audit) < AuditCap THEN k = d.audit ELSE Cardinality(k) = AuditCap - 1}}

updateWorkspace(d) ==
  {[d EXCEPT !.plan = plan] : plan \in DOMAIN Plans}
  \cup {[d EXCEPT !.status = s] : s \in {"active", "suspended"}}

\* What the names the provider uses become.
mapStripeStatus == Reported \cap {"active", "trialing", "pending", "past_due", "canceled", "unpaid"}
mapWhopStatus == Reported \cap {"active", "pending", "past_due", "canceled", "unpaid"}

Billed(d, provider, statuses) == {[d EXCEPT !.provider = provider, !.billing = s] : s \in statuses}

\* A checkout, after the payment page was made, and a signed webhook.  The audit entry that
\* each of them leaves afterwards is an operation of its own (addAudit), and a Swich webhook
\* leaves nothing else.
stripeCheckout(d) == Billed(d, "stripe", {"pending"})
swichCheckout(d) == Billed(d, "swich", {"pending"})
stripeWebhook(d) == Billed(d, "stripe", mapStripeStatus)
whopWebhook(d) == Billed(d, "whop", mapWhopStatus)

-----------------------------------------------------------------------------
\* _mutate, whose calls queue up in a process: the load begins.
Load(p) ==
  /\ copy[p] = NoCopy
  /\ copy' = [copy EXCEPT ![p] = [step |-> "loading", before |-> db, after |-> db]]
  /\ UNCHANGED db

\* What a load under way returns: some of its queries came before the commits of others, and
\* some after.
Loaded(p) ==
  {[c \in DOMAIN db |-> IF c \in UNION early THEN copy[p].before[c] ELSE db[c]] :
     early \in {S \in SUBSET Queries :
                  copy[p].step = "loading" /\ \A q \in S : \E c \in q : copy[p].before[c] # db[c]}}

\* The operation has one of its results on the loaded tables; when it throws, nothing has happened.
Mutate(p, before, results) ==
  /\ \E after \in results :
       copy' = [copy EXCEPT ![p] = [step |-> "busy", before |-> before, after |-> after]]
  /\ UNCHANGED db

\* Plausible bug: the limits are left to the check on the loaded copy.
MayCreateNumber_New(n) == n \notin db.numbers

\* assertNumberCreation, on the rows it locks.
MayCreateNumber(n) ==
  /\ db.status = "active"
  /\ canAddPaidResource(db.billing)
  /\ Cardinality(db.numbers) < Plans[db.plan].numbers
  /\ n \notin db.numbers

New(p, table) == copy[p].after[table] \ copy[p].before[table]
Gone(p, table) == copy[p].before[table] \ copy[p].after[table]
Changed(p) == {c \in Columns : copy[p].after[c] # copy[p].before[c]}

\* Plausible bug: the update is guarded by the keys only.
Guarded_ByKeys(p) == TRUE

\* The update of a row names, beside its keys, the old value of every column it changes.
Guarded(p) == \A c \in Changed(p) : db[c] = copy[p].before[c]

\* Audit entries are inserted and never deleted.
Kept(p) == db.audit \cup New(p, "audit")

Idle(p) == copy' = [copy EXCEPT ![p] = NoCopy]

\* applyLegacyDelta: one transaction under the lock.  Unknown rows stay, unchanged columns
\* are not written; e-mails and memberships are unique.
ApplyDelta(p) ==
  /\ copy[p].step = "busy"
  /\ Guarded(p)
  /\ \A n \in New(p, "numbers") : MayCreateNumber(n)
  /\ \A t \in {"members", "users"} : New(p, t) \cap db[t] = {}
  /\ \A t \in {"numbers", "members"} : Gone(p, t) \subseteq db[t]
  /\ db' = [f \in DOMAIN db |->
              CASE f \in Columns -> IF f \in Changed(p) THEN copy[p].after[f] ELSE db[f]
                [] f = "audit" -> Kept(p)
                [] OTHER -> (db[f] \cup New(p, f)) \ Gone(p, f)]
  /\ Idle(p)

\* A conflict, a refusal or a failure rolls all of it back, and the copy is dropped; so does
\* the death of the process, and an operation that throws leaves the copy as it was loaded.
Rollback(p) == copy[p] # NoCopy /\ Idle(p) /\ UNCHANGED db

\* MetaConnectionRepository.install, by an owner.
InstallNumber(n) ==
  /\ MayCreateNumber(n)
  /\ db' = [db EXCEPT !.numbers = @ \cup {n}]
  /\ UNCHANGED copy

Mutation(p) == Load(p) \/ ApplyDelta(p) \/ Rollback(p)

NumbersNext ==
  \/ \E p \in StoreProcesses : Mutation(p)
  \/ \E p \in StoreProcesses : \E t \in Loaded(p) :
       \/ Mutate(p, t, createAccount(t)) \/ Mutate(p, t, deleteAccount(t))
       \/ Mutate(p, t, updateWorkspace(t))
  \/ \E n \in Numbers : InstallNumber(n)

PeopleNext ==
  \/ \E p \in StoreProcesses : Mutation(p)
  \/ \E p \in StoreProcesses : \E t \in Loaded(p) :
       \/ Mutate(p, t, createClient(t)) \/ Mutate(p, t, addWorkspaceMember(t))
       \/ Mutate(p, t, removeWorkspaceMember(t)) \/ Mutate(p, t, createInvite(t))
       \/ Mutate(p, t, acceptInvite(t)) \/ Mutate(p, t, addAudit(t))

BillingNext ==
  \/ \E p \in StoreProcesses : Mutation(p)
  \/ \E p \in StoreProcesses : \E t \in Loaded(p) :
       \/ Mutate(p, t, stripeCheckout(t)) \/ Mutate(p, t, stripeWebhook(t))
       \/ Mutate(p, t, swichCheckout(t)) \/ Mutate(p, t, whopWebhook(t))
       \/ Mutate(p, t, createAccount(t))

Spec == Init /\ [][NumbersNext \/ PeopleNext \/ BillingNext]_vars

-----------------------------------------------------------------------------
Tables == [numbers : SUBSET Numbers, members : SUBSET People, users : SUBSET People,
           invite : {"none", "pending", "accepted"}, plan : DOMAIN Plans,
           status : {"active", "suspended"}, provider : {"manual", "stripe", "whop", "swich"},
           billing : BillingStatuses, audit : SUBSET AuditIds]

TypeOK ==
  /\ db \in Tables
  /\ \A p \in StoreProcesses : copy[p] = NoCopy \/ (copy[p].step \in {"loading", "busy"} /\ copy[p].before \in Tables
                                                    /\ copy[p].after \in Tables)

\* A number is added only within the limit, the status and the billing that hold when it is
\* written, whatever the process that adds it had loaded (db/numberCreationPolicy.js:31-69).
QuotaHolds ==
  [][\A n \in db'.numbers \ db.numbers :
       /\ Cardinality(db'.numbers) <= Plans[db.plan].numbers
       /\ db.status = "active" /\ canAddPaidResource(db.billing)]_vars

\* A column changes only from the value its writer had loaded, an accepted invite has made
\* its guest a user in the same transaction, and audit entries stay for ever
\* (db/legacyDelta.js:43-90).
NothingUnseenIsOverwritten ==
  [][/\ \A c \in Columns : db'[c] # db[c] =>
          \E p \in StoreProcesses : copy[p].step = "busy" /\ copy[p].before[c] = db[c] /\ copy[p].after[c] = db'[c]
     /\ db'.invite # db.invite /\ db'.invite = "accepted" => db'.users = db.users \cup {Guest}
     /\ db.audit \subseteq db'.audit]_vars
=============================================================================
