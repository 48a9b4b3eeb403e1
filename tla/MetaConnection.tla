---------------------------- MODULE MetaConnection ----------------------------
(***************************************************************************)
(* The connections of a workspace to Meta, one for each phone number:      *)
(* installation, diagnostics, activation, enabling, disconnection, and     *)
(* Meta's own deauthorisation.  A row of provider_connections, its asset   *)
(* and its number are one record.  Diagnostics ask Meta between two        *)
(* statements, and enabling is one statement with two steps: it reads the  *)
(* connection in its snapshot and locks the number only, behind whoever    *)
(* holds it.  Every other operation locks what it reads and is one step.   *)
(***************************************************************************)
EXTENDS Integers, FiniteSets

CONSTANTS Phones,   \* phone numbers, each with at most one connection
          Actors,   \* requests of administrators that may be under way at once
          Limit,    \* the plan's limit of numbers
          NoPhone

ASSUME ConnectionAssumption == NoPhone \notin Phones /\ Limit \in Nat

VARIABLES
  conn,    \* phone -> its connection
  probe,   \* actor -> the phone whose diagnostics it has under way
  enabling \* phones for which a switch-on has found the connection ready, and not written yet

connectionVars == <<conn, probe, enabling>>

Connection == [status : {"absent", "connecting", "active", "degraded", "revoked", "offline"},
               keyed : BOOLEAN,        \* encrypted_credentials are there
               token : {"unverified", "valid", "invalid", "revoked"},
               subscribed : BOOLEAN,   \* webhook_subscribed
               connected : BOOLEAN,    \* account_status = 'connected'
               fresh : BOOLEAN,        \* diagnosed within the last 15 minutes
               off : BOOLEAN,          \* disconnected_at is set
               automation : BOOLEAN]   \* the number's automation_enabled

NoConnection == [status |-> "absent", keyed |-> FALSE, token |-> "unverified", subscribed |-> FALSE,
                 connected |-> FALSE, fresh |-> FALSE, off |-> FALSE, automation |-> FALSE]

ConnectionInit ==
  /\ conn = [p \in Phones |-> NoConnection]
  /\ probe = [a \in Actors |-> NoPhone]
  /\ enabling = {}

-----------------------------------------------------------------------------
Installed == {p \in Phones : conn[p].status # "absent"}

\* assertNumberCreation and the unique phone, under one advisory lock.  That the
\* workspace is active and its billing lets it grow is a free choice of the caller.
MayInstall(p) == p \notin Installed /\ Cardinality(Installed) < Limit

\* install, one transaction.
Install(p) == conn' = [conn EXCEPT ![p] = [NoConnection EXCEPT !.status = "connecting", !.keyed = TRUE]]

\* connect, with an access token typed in: verified through Meta, then installed.
ConnectCredentials(p) ==
  /\ MayInstall(p)
  /\ Install(p)
  /\ UNCHANGED <<probe, enabling>>

-----------------------------------------------------------------------------
\* diagnosticsTarget.
BeginDiagnostics(a, p) ==
  /\ probe[a] = NoPhone
  /\ conn[p].status # "absent" /\ ~conn[p].off /\ conn[p].keyed
  /\ probe' = [probe EXCEPT ![a] = p]
  /\ UNCHANGED <<conn, enabling>>

\* What run makes of Meta's answers: in order, not subscribed, token refused, no answer.
Diagnoses == {[token |-> "valid", subscribed |-> TRUE, connected |-> TRUE],
              [token |-> "valid", subscribed |-> FALSE, connected |-> TRUE],
              [token |-> "invalid", subscribed |-> FALSE, connected |-> FALSE],
              [token |-> "unverified", subscribed |-> FALSE, connected |-> FALSE]}

\* Plausible bug: a healthy diagnosis activates the connection.
Diagnosed_Activates(c, d) ==
  [c EXCEPT !.token = d.token, !.subscribed = d.subscribed, !.connected = d.connected,
            !.fresh = TRUE, !.status = IF d.subscribed THEN "active" ELSE "degraded"]

\* recordDiagnostics: the asset is overwritten whatever has become of it, the status
\* only from active to degraded.
Diagnosed(c, d) ==
  [c EXCEPT !.token = d.token, !.subscribed = d.subscribed, !.connected = d.connected,
            !.fresh = TRUE,
            !.status = IF @ = "active" /\ ~d.subscribed THEN "degraded" ELSE @]

RecordDiagnostics(a, d) ==
  /\ probe[a] # NoPhone
  /\ conn' = [conn EXCEPT ![probe[a]] = Diagnosed(@, d)]
  /\ probe' = [probe EXCEPT ![a] = NoPhone]
  /\ UNCHANGED enabling

\* The process dies, or the statement fails.
DiagnosticsLost(a) ==
  /\ probe[a] # NoPhone
  /\ probe' = [probe EXCEPT ![a] = NoPhone]
  /\ UNCHANGED <<conn, enabling>>

\* Fifteen minutes pass.
Outdate(p) ==
  /\ conn[p].fresh
  /\ conn' = [conn EXCEPT ![p].fresh = FALSE]
  /\ UNCHANGED <<probe, enabling>>

-----------------------------------------------------------------------------
Checked(c) == c.token = "valid" /\ c.subscribed /\ ~c.off /\ c.fresh

Activate(p) ==
  /\ conn[p].status \in {"connecting", "degraded"}
  /\ Checked(conn[p]) /\ conn[p].connected /\ conn[p].keyed
  /\ conn' = [conn EXCEPT ![p].status = "active", ![p].automation = FALSE]
  /\ UNCHANGED <<probe, enabling>>

\* enableMessaging, an UPDATE of the number FROM its connection and asset: their rows are
\* those of its snapshot.
BeginEnabling(p) ==
  /\ conn[p].status = "active" /\ Checked(conn[p])
  /\ enabling' = enabling \cup {p}
  /\ UNCHANGED <<conn, probe>>

\* Once it has the number, which a disconnection may have held, it looks again at the number
\* only.  Another such statement may be waiting too.
EnableMessaging(p) ==
  /\ p \in enabling
  /\ conn' = [conn EXCEPT ![p].automation = TRUE]
  /\ enabling' = enabling \/ enabling' = enabling \ {p}
  /\ UNCHANGED probe

\* The statement fails.
EnablingLost(p) ==
  /\ p \in enabling
  /\ enabling' = enabling \ {p}
  /\ UNCHANGED <<conn, probe>>

TurnedOff(c, status) == [c EXCEPT !.status = status, !.keyed = FALSE, !.token = "revoked",
                                  !.off = TRUE, !.automation = FALSE]

Disconnect(p) ==
  /\ p \in Installed
  /\ conn' = [conn EXCEPT ![p] = TurnedOff(@, "revoked")]
  /\ UNCHANGED <<probe, enabling>>

\* deauthorize and data-deletion: Meta revokes every connection of its user, here the
\* user of them all.
Deauthorize ==
  /\ conn' = [p \in Phones |-> IF p \in Installed THEN TurnedOff(conn[p], "offline") ELSE conn[p]]
  /\ UNCHANGED <<probe, enabling>>

Lifecycle ==
  \/ \E p \in Phones : \/ ConnectCredentials(p) \/ Outdate(p) \/ Activate(p)
                       \/ BeginEnabling(p) \/ EnableMessaging(p) \/ EnablingLost(p)
                       \/ Disconnect(p)
  \/ \E a \in Actors : \/ \E p \in Phones : BeginDiagnostics(a, p)
                       \/ \E d \in Diagnoses : RecordDiagnostics(a, d)
                       \/ DiagnosticsLost(a)
  \/ Deauthorize

LifecycleSpec == ConnectionInit /\ [][Lifecycle]_connectionVars

-----------------------------------------------------------------------------
ConnectionTypeOK ==
  /\ conn \in [Phones -> Connection]
  /\ probe \in [Actors -> Phones \cup {NoPhone}]
  /\ enabling \subseteq Phones

\* Once disconnected or deauthorised, a connection stays inactive and without credentials,
\* though diagnostics begun before may still declare its token valid, and a switch-on begun
\* before may leave the automation of its number on (metaConnectionLifecycleRepository.js:
\* 39-73, :103); and automation is never on for a connection that is yet to be activated,
\* nor, unless it is off, for one without credentials to send with.
OffMeansOff ==
  \A p \in Phones :
     /\ conn[p].off <=> conn[p].status \in {"revoked", "offline"}
     /\ conn[p].off => ~conn[p].keyed
     /\ conn[p].automation => /\ conn[p].status \notin {"absent", "connecting"}
                              /\ conn[p].keyed \/ conn[p].off
=============================================================================
