------------------------------ MODULE GhlTokens ------------------------------
(***************************************************************************)
(* One row of GHL credentials, an agency's (ghlAgencyInstall.js) or a      *)
(* location's (ghlPrivatePilot.js): whoever needs an access token that has *)
(* expired trades the refresh token for a new one, under the lock of the   *)
(* row.  GHL takes a refresh token once, and answers with the next, or     *)
(* with none when the old one stays good: a location keeps the old one     *)
(* then, and an agency writes null over it.  Tokens are numbered as issued.*)
(***************************************************************************)
EXTENDS Naturals

CONSTANTS TokenProcesses,
          MaxTokens    \* a bound on the tokens GHL issues

NoToken == 0

VARIABLES
  ofAgency,   \* the row is an agency's; it never changes
  present,    \* there is a row, with credentials
  stored,     \* its refresh token, or NoToken
  fresh,      \* its access token is good for another minute
  issued,     \* the last token GHL has issued
  good,       \* the refresh tokens GHL would take
  rowLock,    \* the processes whose transaction has locked the row
  trade,      \* process -> where it is, and the token it has in hand
  lost,       \* a token was issued that its process never stored (history)
  silent      \* GHL has answered an agency without a new token (history)

vars == <<ofAgency, present, stored, fresh, issued, good, rowLock, trade, lost, silent>>

Idle == [step |-> "idle", token |-> NoToken]

Init ==
  /\ ofAgency \in BOOLEAN
  /\ present = FALSE /\ stored = NoToken /\ fresh = FALSE
  /\ issued = 0 /\ good = {}
  /\ rowLock = {}
  /\ trade = [p \in TokenProcesses |-> Idle]
  /\ lost = FALSE /\ silent = FALSE

-----------------------------------------------------------------------------
Goto(p, step, token) == trade' = [trade EXCEPT ![p] = [step |-> step, token |-> token]]
Rest(p) == trade' = [trade EXCEPT ![p] = Idle]

\* The callback exchanges its code: a token of its own.
Exchange(p) ==
  /\ trade[p] = Idle /\ issued < MaxTokens
  /\ issued' = issued + 1 /\ good' = good \cup {issued + 1}
  /\ Goto(p, "install", issued + 1)
  /\ UNCHANGED <<ofAgency, present, stored, fresh, rowLock, lost, silent>>

\* save, or provision's upsert: it waits for the lock of the row, and replaces what is there.
Install(p) ==
  /\ trade[p].step = "install" /\ rowLock = {}
  /\ present' = TRUE /\ stored' = trade[p].token /\ fresh' = TRUE
  /\ Rest(p)
  /\ UNCHANGED <<ofAgency, issued, good, rowLock, lost, silent>>

\* Plausible bug: the row is read without its lock.
Load_Unlocked(p) ==
  /\ trade[p] = Idle /\ present /\ ~fresh
  /\ ofAgency \/ stored # NoToken
  /\ rowLock' = {p}
  /\ Goto(p, "ask", stored)
  /\ UNCHANGED <<ofAgency, present, stored, fresh, issued, good, lost, silent>>

\* load and getAccessToken, when the access token has expired: SELECT ... FOR UPDATE.  Only
\* getAccessToken looks whether there is a refresh token; load asks with null.
Load(p) ==
  /\ trade[p] = Idle /\ present /\ ~fresh
  /\ ofAgency \/ stored # NoToken
  /\ rowLock = {} /\ rowLock' = {p}
  /\ Goto(p, "ask", stored)
  /\ UNCHANGED <<ofAgency, present, stored, fresh, issued, good, lost, silent>>

Rollback(p) == Rest(p) /\ rowLock' = {}

\* The trade: taken, with a new token or without one; or refused, or not asked at all.  What
\* the location keeps when there is no new one, the spread of the agency replaces with null.
Refresh(p) ==
  LET t == trade[p].token IN
  /\ trade[p].step = "ask"
  /\ \/ /\ t \in good /\ issued < MaxTokens
        /\ issued' = issued + 1 /\ good' = (good \ {t}) \cup {issued + 1}
        /\ Goto(p, "save", issued + 1) /\ UNCHANGED <<rowLock, silent>>
     \/ /\ t \in good
        /\ Goto(p, "save", IF ofAgency THEN NoToken ELSE t) /\ silent' = (silent \/ ofAgency)
        /\ UNCHANGED <<issued, good, rowLock>>
     \/ Rollback(p) /\ UNCHANGED <<issued, good, silent>>
  /\ UNCHANGED <<ofAgency, present, stored, fresh, lost>>

\* UPDATE and COMMIT.
Save(p) ==
  /\ trade[p].step = "save"
  /\ stored' = trade[p].token /\ fresh' = TRUE
  /\ Rest(p) /\ rowLock' = {}
  /\ UNCHANGED <<ofAgency, present, issued, good, lost, silent>>

\* The answer is lost, the commit fails or the process dies: GHL has traded, nobody knows.
SaveFails(p) ==
  /\ trade[p].step = "save"
  /\ Rollback(p) /\ lost' = (lost \/ trade[p].token \notin {stored, NoToken})
  /\ UNCHANGED <<ofAgency, present, stored, fresh, issued, good, silent>>

\* The process of an installation dies: its token is never stored.
InstallDies(p) ==
  /\ trade[p].step = "install"
  /\ Rest(p)
  /\ UNCHANGED <<ofAgency, present, stored, fresh, issued, good, rowLock, lost, silent>>

\* An hour passes.
AccessExpires ==
  /\ fresh /\ fresh' = FALSE
  /\ UNCHANGED <<ofAgency, present, stored, issued, good, rowLock, trade, lost, silent>>

\* revoke, of a location, waits for the lock of the row too.
RevokeTokens ==
  /\ ~ofAgency /\ rowLock = {} /\ present
  /\ present' = FALSE /\ stored' = NoToken /\ fresh' = FALSE
  /\ UNCHANGED <<ofAgency, issued, good, rowLock, trade, lost, silent>>

Next ==
  \/ \E p \in TokenProcesses : \/ Exchange(p) \/ Install(p) \/ Load(p) \/ Refresh(p)
                               \/ Save(p) \/ SaveFails(p) \/ InstallDies(p)
  \/ AccessExpires \/ RevokeTokens

Spec == Init /\ [][Next]_vars

-----------------------------------------------------------------------------
TypeOK ==
  /\ issued \in Nat /\ stored \in 0..issued /\ good \subseteq 1..issued
  /\ ofAgency \in BOOLEAN /\ present \in BOOLEAN /\ fresh \in BOOLEAN
  /\ lost \in BOOLEAN /\ silent \in BOOLEAN
  /\ rowLock \subseteq TokenProcesses
  /\ trade \in [TokenProcesses -> [step : {"idle", "install", "ask", "save"}, token : 0..issued]]

\* The connection to GHL is never cut by the hub's own races: unless an answer or a commit was
\* lost, the refresh token of a row is one GHL takes, except while the transaction that traded
\* it holds the row; and nobody asks with a token that is already spent.  The exception is the
\* row of an agency that GHL once answered without a new token, which may have none
\* (ghlAgencyInstall.js:23-39, ghlPrivatePilot.js:27).
TokenSurvives ==
  ~lost =>
    /\ present /\ stored \notin good =>
         \/ ofAgency /\ silent /\ stored = NoToken
         \/ \E p \in TokenProcesses : trade[p].step = "save" /\ rowLock = {p}
    /\ \A p \in TokenProcesses : trade[p].step = "ask" =>
         trade[p].token \in good \/ (ofAgency /\ silent /\ trade[p].token = NoToken)
=============================================================================
