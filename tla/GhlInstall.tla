------------------------------ MODULE GhlInstall ------------------------------
(***************************************************************************)
(* Installing the GHL app: OAuth states, signed install events and the     *)
(* callback (ghlAutoProvisioning.js, ghlMarketplaceInstall.js), the agency *)
(* that installs many locations (ghlAgencyInstall.js), and the team sync   *)
(* (ghlTeam.js), and the sessions opened from inside GHL                   *)
(* (ghlEmbeddedSso.js).  Each request is a flow; a provisioning is a       *)
(* transaction under the lock of its location, a team sync one that does   *)
(* not take it.                                                            *)
(***************************************************************************)
EXTENDS Integers

CONSTANTS Flows, Locations, Companies, GhlUsers,
          Boss, Admin,    \* hub users: a client, and a platform administrator
          OauthStates,
          Installs,          \* signed install events: [id, company, location, user]
          Nonces,            \* of the contexts GHL signs for its embedded pages
          NoState, NoFlow, NoLocation, NoUser

VARIABLES
  oauth,       \* OAuth state -> its user while it is open, NoUser before, "used" after
  hook,        \* install event -> "none", "recorded" or "consumed"
  agency,      \* companies whose token is stored
  installedAt, \* locations GHL lists as installed
  inst,        \* location -> its row of ghl_installations, or NoInstall; "none" is a null company
  workspaces,  \* location -> workspaces made for it (history)
  role,        \* location -> hub user -> role in its workspace
  link,        \* location -> GHL user -> hub user
  users,       \* hub users
  locked,      \* location -> the transaction that provisions it
  opened,      \* embedded sessions: [nonce, location, user] (history)
  nonces,      \* rows of ghl_embedded_bootstrap_states
  flow         \* flow -> what it does, and where it is

tenants == <<inst, workspaces, role, link, users>>
embedded == <<opened, nonces>>
vars == <<oauth, hook, agency, installedAt, tenants, locked, embedded, flow>>

NoInstall == [company |-> "none", workspace |-> 0, active |-> FALSE]
\* A hub user made for a GHL user is known by the e-mail it is made with.
Made == {<<l, g, mail>> : l \in Locations, g \in GhlUsers, mail \in {"profile", "placeholder"}}
HubUsers == {Boss, Admin} \cup Made
Rank == [none |-> 0, viewer |-> 1, agent |-> 2, admin |-> 3, owner |-> 4]
mapGhlRole == [admin |-> "admin", user |-> "agent"]

Rest == [step |-> "rest", company |-> "none", ghlUser |-> NoUser, type |-> "user", mail |-> "profile",
         state |-> NoState, fallback |-> NoUser, correlate |-> FALSE, todo |-> {}, at |-> NoLocation,
         user |-> NoUser]

Init ==
  /\ oauth = [s \in OauthStates |-> NoUser]
  /\ hook = [h \in Installs |-> "none"]
  /\ agency = {} /\ installedAt = Locations
  /\ inst = [l \in Locations |-> NoInstall] /\ workspaces = [l \in Locations |-> 0]
  /\ role = [l \in Locations |-> [u \in HubUsers |-> "none"]]
  /\ link = [l \in Locations |-> [g \in GhlUsers |-> NoUser]]
  /\ users = {Boss, Admin}
  /\ locked = [l \in Locations |-> NoFlow]
  /\ opened = {} /\ nonces = {}
  /\ flow = [f \in Flows |-> Rest]

-----------------------------------------------------------------------------
Set(f, r) == flow' = [flow EXCEPT ![f] = r]

\* /start, by somebody who is signed in.
Start(s, u) ==
  /\ oauth[s] = NoUser
  /\ oauth' = [oauth EXCEPT ![s] = u]
  /\ UNCHANGED <<hook, agency, installedAt, tenants, locked, flow, embedded>>

\* A state is claimed once.
ClaimState(s) ==
  IF s = NoState THEN UNCHANGED oauth
  ELSE oauth[s] \in {Boss, Admin} /\ oauth' = [oauth EXCEPT ![s] = "used"]

\* /callback up to the token; without a state an install event has to be claimed later.  The code is that of a user in a location, or of an agency.
Callback(f, s, company, g, location) ==
  /\ flow[f] = Rest
  /\ ClaimState(s)
  /\ \E type \in DOMAIN mapGhlRole, mail \in {"profile", "placeholder"} :
       Set(f, [Rest EXCEPT !.company = company, !.ghlUser = g, !.state = s,
                           !.fallback = IF s = NoState THEN NoUser ELSE oauth[s],
                           !.correlate = (s = NoState),
                           !.step = IF location = NoLocation THEN "list" ELSE IF s = NoState THEN "claim" ELSE "enter",
                           !.type = IF location = NoLocation THEN "admin" ELSE type,
                           !.mail = IF location = NoLocation THEN "placeholder" ELSE mail,
                           !.at = location])
  /\ UNCHANGED <<hook, agency, installedAt, tenants, locked, embedded>>

\* record: an event is stored once.
RecordInstall(h) == hook' = [hook EXCEPT ![h] = IF @ = "none" THEN "recorded" ELSE @]

\* The signed webhook hands the event to the agency's flow each time it comes.
Webhook(f, h) ==
  /\ flow[f] = Rest
  /\ RecordInstall(h)
  /\ IF h.company \in agency
     THEN Set(f, [Rest EXCEPT !.step = "recheck", !.company = h.company, !.ghlUser = h.user,
                              !.type = "admin", !.mail = "placeholder", !.at = h.location])
     ELSE UNCHANGED flow
  /\ UNCHANGED <<oauth, agency, installedAt, tenants, locked, embedded>>

\* onInstall rechecks that the location is installed now.
Recheck(f) ==
  /\ flow[f].step = "recheck"
  /\ Set(f, IF flow[f].at \in installedAt THEN [flow[f] EXCEPT !.step = "enter"] ELSE Rest)
  /\ UNCHANGED <<oauth, hook, agency, installedAt, tenants, locked, embedded>>

\* install lists the locations, which proves the agency, and then stores its token.
ListLocations(f) ==
  /\ flow[f].step = "list"
  /\ agency' = agency \cup {flow[f].company}
  /\ Set(f, [flow[f] EXCEPT !.step = "next", !.todo = installedAt])
  /\ UNCHANGED <<oauth, hook, installedAt, tenants, locked, embedded>>

NextLocation(f) ==
  /\ flow[f].step = "next"
  /\ IF flow[f].todo = {} THEN Set(f, Rest)
     ELSE \E l \in flow[f].todo :
            Set(f, [flow[f] EXCEPT !.at = l, !.todo = @ \ {l},
                                   !.step = IF flow[f].correlate THEN "claim" ELSE "enter"])
  /\ UNCHANGED <<oauth, hook, agency, installedAt, tenants, locked, embedded>>

\* One location failed, or is done: an agency goes on with the others.
Leave(f) == Set(f, IF flow[f].todo = {} THEN Rest ELSE [flow[f] EXCEPT !.step = "next", !.user = NoUser])

\* claim: an unspent event of exactly this company, location and user, or none in time.
Claim(f) ==
  LET mine == {h \in Installs : /\ hook[h] = "recorded" /\ h.company = flow[f].company
                             /\ h.location = flow[f].at /\ h.user = flow[f].ghlUser} IN
  /\ flow[f].step = "claim"
  /\ \/ \E h \in mine : hook' = [hook EXCEPT ![h] = "consumed"] /\ Set(f, [flow[f] EXCEPT !.step = "enter"])
     \/ mine = {} /\ UNCHANGED hook /\ Leave(f)
  /\ UNCHANGED <<oauth, agency, installedAt, tenants, locked, embedded>>

\* ensureUser: the linked user, or else the signed-in one, or else a new one.  A platform
\* administrator is refused.
ensureUser(l, g, fallback, mail) ==
  IF link[l][g] # NoUser THEN link[l][g] ELSE IF fallback # NoUser THEN fallback ELSE <<l, g, mail>>

\* Plausible bug: nothing serialises the provisioning of a location.
Unlocked_Always(l) == TRUE

\* The advisory lock of the location.
Unlocked(l) == locked[l] = NoFlow

\* provision: the lock, the company, the user.  What it read is acted upon at the commit.
Enter(f) ==
  LET r == flow[f]  u == ensureUser(r.at, r.ghlUser, r.fallback, r.mail) IN
  /\ r.step = "enter" /\ Unlocked(r.at)
  /\ \/ /\ "none" \in {r.company, inst[r.at].company} \/ r.company = inst[r.at].company
        /\ u # Admin
        /\ locked' = [locked EXCEPT ![r.at] = f]
        /\ Set(f, [r EXCEPT !.step = IF inst[r.at] = NoInstall THEN "create" ELSE "join", !.user = u])
     \/ Leave(f) /\ UNCHANGED locked
  /\ UNCHANGED <<oauth, hook, agency, installedAt, tenants, embedded>>

Link(l, g, u) == link' = [link EXCEPT ![l][g] = u]
Release(l) == locked' = [locked EXCEPT ![l] = NoFlow]

\* The commit: a workspace of its own the first time, afterwards a membership that is only
\* raised from viewer; the installation, the link.  A new user whose e-mail another
\* transaction has used is refused.
Provision(f) ==
  LET r == flow[f]  l == r.at  u == r.user  mapped == mapGhlRole[r.type]
      fresh == link[l][r.ghlUser] # u /\ u \in Made IN
  /\ r.step \in {"create", "join"}
  /\ fresh => u \notin users
  /\ users' = users \cup {u}
  /\ workspaces' = [workspaces EXCEPT ![l] = @ + (IF r.step = "create" THEN 1 ELSE 0)]
  /\ inst' = [inst EXCEPT ![l] = [company |-> IF r.company = "none" THEN @.company ELSE r.company,
                                  active |-> TRUE,
                                  workspace |-> IF r.step = "create" THEN workspaces[l] + 1 ELSE @.workspace]]
  /\ role' = [role EXCEPT ![l][u] =
                IF r.step = "create" THEN "owner"
                ELSE IF @ = "none" \/ (@ = "viewer" /\ mapped = "admin") THEN mapped ELSE @]
  /\ Link(l, r.ghlUser, u) /\ Release(l) /\ Leave(f)
  /\ UNCHANGED <<oauth, hook, agency, installedAt, embedded>>

\* The transaction fails, or its process dies: the location's lock is free again.
Abort(f) ==
  /\ flow[f].step \in {"create", "join"}
  /\ Release(flow[f].at)
  /\ Leave(f) \/ Set(f, Rest)
  /\ UNCHANGED <<oauth, hook, agency, installedAt, tenants, embedded>>

\* /sync of the team: the row of the workspace is locked, not the location.
BeginSync(f, l, g) ==
  /\ flow[f] = Rest /\ inst[l].active /\ inst[l].company # "none"
  /\ \A o \in Flows : flow[o].step = "sync" => flow[o].at # l
  /\ ensureUser(l, g, NoUser, "placeholder") # Admin
  /\ Set(f, [Rest EXCEPT !.step = "sync", !.at = l, !.ghlUser = g,
                         !.user = ensureUser(l, g, NoUser, "placeholder")])
  /\ UNCHANGED <<oauth, hook, agency, installedAt, tenants, locked, embedded>>

\* Its users become viewers unless they are members, and are linked unless they are.
Sync(f) ==
  LET r == flow[f]  l == r.at  u == r.user IN
  /\ r.step = "sync"
  /\ \/ /\ u \in Made /\ link[l][r.ghlUser] # u => u \notin users
        /\ users' = users \cup {u}
        /\ role' = [role EXCEPT ![l][u] = IF @ = "none" THEN "viewer" ELSE @]
        /\ Link(l, r.ghlUser, IF link[l][r.ghlUser] = NoUser THEN u ELSE link[l][r.ghlUser])
     \/ UNCHANGED <<users, role, link>>
  /\ Set(f, Rest)
  /\ UNCHANGED <<oauth, hook, agency, installedAt, inst, workspaces, locked, embedded>>

\* Revoked in the hub; installed or uninstalled at GHL.
Revoke(l) ==
  /\ inst[l].active
  /\ inst' = [inst EXCEPT ![l].active = FALSE]
  /\ UNCHANGED <<oauth, hook, agency, installedAt, workspaces, role, link, users, locked, flow, embedded>>

GhlSide ==
  /\ \E l \in Locations : installedAt' \in {installedAt \cup {l}, installedAt \ {l}}
  /\ UNCHANGED <<oauth, hook, agency, tenants, locked, flow, embedded>>

Provisioning(f) == Enter(f) \/ Provision(f) \/ Abort(f)

\* /session, one transaction: the nonce is inserted, and rolled back with everything else
\* unless an active location knows the user as a member.  The session of the browser, made
\* after the commit, may fail.
OpenSession(n, l, g) ==
  /\ n \notin nonces
  /\ inst[l].active /\ link[l][g] # NoUser /\ role[l][link[l][g]] # "none"
  /\ nonces' = nonces \cup {n}
  /\ opened' \in {opened, opened \cup {[nonce |-> n, location |-> l, user |-> link[l][g]]}}
  /\ UNCHANGED <<oauth, hook, agency, installedAt, tenants, locked, flow>>

CallbackNext ==
  \/ \E s \in OauthStates, u \in {Boss, Admin} : Start(s, u)
  \/ \E f \in Flows : \/ \E s \in OauthStates \cup {NoState}, c \in Companies \cup {"none"}, g \in GhlUsers, l \in Locations :
                            Callback(f, s, c, g, l)
                      \/ \E h \in Installs : Webhook(f, h)
                      \/ Claim(f) \/ Provisioning(f)
  \/ \E l \in Locations : Revoke(l)

AgencyNext ==
  \/ \E s \in OauthStates : Start(s, Boss)
  \/ \E f \in Flows : \/ \E s \in OauthStates \cup {NoState}, c \in Companies, g \in GhlUsers :
                            Callback(f, s, c, g, NoLocation)
                      \/ \E h \in Installs : Webhook(f, h)
                      \/ Recheck(f) \/ ListLocations(f) \/ NextLocation(f) \/ Claim(f) \/ Provisioning(f)
  \/ GhlSide

TeamNext ==
  \/ \E s \in OauthStates : Start(s, Boss)
  \/ \E f \in Flows : \/ \E s \in OauthStates \cup {NoState}, c \in Companies, g \in GhlUsers, l \in Locations :
                            Callback(f, s, c, g, l)
                      \/ \E h \in Installs : Webhook(f, h)
                      \/ \E l \in Locations, g \in GhlUsers : BeginSync(f, l, g)
                      \/ Claim(f) \/ Provisioning(f) \/ Sync(f)

EmbeddedNext ==
  \/ \E s \in OauthStates, u \in {Boss, Admin} : Start(s, u)
  \/ \E f \in Flows : \/ \E s \in OauthStates, c \in Companies, g \in GhlUsers, l \in Locations : Callback(f, s, c, g, l)
                      \/ \E l \in Locations, g \in GhlUsers : BeginSync(f, l, g)
                      \/ Provisioning(f) \/ Sync(f)
  \/ \E l \in Locations : Revoke(l) \/ \E n \in Nonces, g \in GhlUsers : OpenSession(n, l, g)

Spec == Init /\ [][CallbackNext \/ AgencyNext \/ TeamNext \/ EmbeddedNext]_vars

-----------------------------------------------------------------------------
TypeOK ==
  /\ oauth \in [OauthStates -> {NoUser, Boss, Admin, "used"}]
  /\ hook \in [Installs -> {"none", "recorded", "consumed"}]
  /\ agency \subseteq Companies /\ installedAt \subseteq Locations
  /\ inst \in [Locations -> [company : Companies \cup {"none"}, workspace : Nat, active : BOOLEAN]]
  /\ workspaces \in [Locations -> Nat]
  /\ role \in [Locations -> [HubUsers -> DOMAIN Rank]]
  /\ link \in [Locations -> [GhlUsers -> HubUsers \cup {NoUser}]]
  /\ users \subseteq HubUsers
  /\ nonces \subseteq Nonces /\ opened \subseteq [nonce : nonces, location : Locations, user : users]
  /\ locked \in [Locations -> Flows \cup {NoFlow}]
  /\ \A f \in Flows : /\ flow[f].at \in Locations \cup {NoLocation} /\ flow[f].todo \subseteq Locations
                      /\ flow[f].user \in HubUsers \cup {NoUser}

\* A location belongs to one workspace and one company for ever, whatever installs race; a
\* re-install or a sync never lowers a member's role; no platform administrator is linked to a
\* GHL user or let in by one; and a signed context opens one session for ever, of a member of
\* that workspace (ghlAutoProvisioning.js:67-123, ghlTeam.js:23-54, ghlEmbeddedSso.js:24-42).
TenantIsFinal ==
  [][/\ \A l \in Locations :
          /\ workspaces'[l] <= 1
          /\ inst[l] # NoInstall => inst'[l].workspace = inst[l].workspace
          /\ inst[l].company # "none" => inst'[l].company = inst[l].company
          /\ \A u \in HubUsers : Rank[role'[l][u]] >= Rank[role[l][u]]
          /\ role'[l][Admin] = "none"
          /\ \A g \in GhlUsers : link'[l][g] # Admin
     /\ \A s, t \in opened' : s.nonce = t.nonce => s = t
     /\ \A s \in opened' \ opened : role[s.location][s.user] # "none" /\ s.user # Admin]_vars
=============================================================================
