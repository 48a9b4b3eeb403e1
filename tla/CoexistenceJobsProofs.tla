------------------------ MODULE CoexistenceJobsProofs ------------------------
(***************************************************************************)
(* Proofs about MetaConnection, for any phones, requests and limit, and    *)
(* about CoexistenceJobs, for any phones and workers, with the life of the *)
(* connections beside them.                                                *)
(*                                                                         *)
(* OffMeansOff is not inductive: enabling looks at the status only, and    *)
(* that an active connection has credentials is a fact about all that led  *)
(* there.  OnlyKeyed adds it; and Begun, that a switch-on which has yet to *)
(* write was begun for a connection that has been activated.               *)
(*                                                                         *)
(* OneShot says what Meta has received and nothing of who may ask next.    *)
(* IInv adds that a job nobody has claimed has not been asked for (Fresh), *)
(* nor one that waits in a batch (Unasked), that a job has one worker      *)
(* (OneWorker), that acceptance is Meta's word (Accepted) and the last     *)
(* (Over), and that a job is claimed after the earlier ones were asked for *)
(* (InOrder).  Jobs are inserted once, because a connection never becomes  *)
(* absent again (None).                                                    *)
(***************************************************************************)
EXTENDS CoexistenceJobs, TLAPS

-----------------------------------------------------------------------------
(***************************************************************************)
(* The life of the connections.                                            *)
(***************************************************************************)

\* A connection that works, or is about to, has its credentials.
OnlyKeyed == \A p \in Phones : conn[p].status \in {"connecting", "active", "degraded"} => conn[p].keyed

\* What has found its connection active.
Begun == \A p \in enabling : conn[p].status \notin {"absent", "connecting"}

ConnectionInv == ConnectionTypeOK /\ OffMeansOff /\ OnlyKeyed /\ Begun

-----------------------------------------------------------------------------
\* No step makes a connection absent again.
Remains == \A p \in Phones : conn'[p].status = "absent" => conn[p].status = "absent"

\* An installation makes a connection that is not absent.
LEMMA InstallRemains ==
  ASSUME ConnectionTypeOK, NEW p \in Phones, Install(p), UNCHANGED <<probe, enabling>>
  PROVE  ConnectionTypeOK' /\ Remains /\ conn'[p].status # "absent"
BY DEF ConnectionTypeOK, Remains, Install, NoConnection, Connection

\* A connection that is there stays there: what diagnostics and disconnections write is
\* never "absent".
LEMMA LifecycleRemains ==
  ASSUME ConnectionTypeOK, Lifecycle
  PROVE  ConnectionTypeOK' /\ Remains
<1> USE DEF ConnectionTypeOK, Remains, Connection
<1>1. ASSUME NEW p \in Phones, ConnectCredentials(p) PROVE ConnectionTypeOK' /\ Remains
  BY <1>1, InstallRemains DEF ConnectCredentials
<1>2. ASSUME NEW p \in Phones, Outdate(p) PROVE ConnectionTypeOK' /\ Remains
  BY <1>2 DEF Outdate
<1>3. ASSUME NEW p \in Phones, Activate(p) PROVE ConnectionTypeOK' /\ Remains
  <2> DEFINE c == [conn[p] EXCEPT !.status = "active", !.automation = FALSE]
  <2>1. c \in Connection /\ c.status # "absent"
    OBVIOUS
  <2>2. conn' = [conn EXCEPT ![p] = c] /\ probe' = probe /\ enabling' = enabling
    BY <1>3 DEF Activate
  <2> HIDE DEF c
  <2>3. QED BY <2>1, <2>2
<1>4. ASSUME NEW p \in Phones, BeginEnabling(p) \/ EnableMessaging(p) \/ EnablingLost(p)
      PROVE  ConnectionTypeOK' /\ Remains
  <2> DEFINE c == [conn[p] EXCEPT !.automation = TRUE]
  <2>1. enabling' \subseteq Phones /\ probe' = probe
    BY <1>4 DEF BeginEnabling, EnableMessaging, EnablingLost
  <2>2. conn' = conn \/ conn' = [conn EXCEPT ![p] = c]
    BY <1>4 DEF BeginEnabling, EnableMessaging, EnablingLost
  <2>3. c \in Connection /\ c.status = conn[p].status
    OBVIOUS
  <2> HIDE DEF c
  <2>4. QED BY <2>1, <2>2, <2>3
<1>5. ASSUME NEW p \in Phones, Disconnect(p) PROVE ConnectionTypeOK' /\ Remains
  BY ZenonT(60), <1>5 DEF Disconnect, TurnedOff
<1>6. ASSUME NEW a \in Actors, NEW p \in Phones, BeginDiagnostics(a, p)
      PROVE  ConnectionTypeOK' /\ Remains
  BY <1>6 DEF BeginDiagnostics
<1>7. ASSUME NEW a \in Actors, NEW d \in Diagnoses, RecordDiagnostics(a, d)
      PROVE  ConnectionTypeOK' /\ Remains
  <2>1. probe[a] \in Phones
    BY <1>7 DEF RecordDiagnostics
  <2>2. /\ d.token \in {"unverified", "valid", "invalid", "revoked"}
        /\ d.subscribed \in BOOLEAN /\ d.connected \in BOOLEAN
    <3>1. /\ d.token \in {"unverified", "valid", "invalid", "revoked"}
          /\ d.subscribed = TRUE \/ d.subscribed = FALSE
          /\ d.connected = TRUE \/ d.connected = FALSE
      BY DEF Diagnoses
    <3>2. QED BY <3>1
  <2> DEFINE c == conn[probe[a]]
             s == IF c.status = "active" /\ ~d.subscribed THEN "degraded" ELSE c.status
             e == [c EXCEPT !.token = d.token, !.subscribed = d.subscribed,
                            !.connected = d.connected, !.fresh = TRUE, !.status = s]
  <2>3. c \in Connection /\ s \in {"absent", "connecting", "active", "degraded", "revoked", "offline"}
    BY <2>1
  <2>4. e \in Connection /\ e.status = s
    <3> HIDE DEF c, s
    <3> QED BY <2>2, <2>3
  <2>5. Diagnosed(c, d) = e
    BY <2>3 DEF Diagnosed
  <2> HIDE DEF e
  <2>6. /\ conn' = [conn EXCEPT ![probe[a]] = e] /\ probe' = [probe EXCEPT ![a] = NoPhone]
        /\ enabling' = enabling
    BY <1>7, <2>5 DEF RecordDiagnostics
  <2>7. QED BY <2>1, <2>4, <2>6
<1>8. ASSUME NEW a \in Actors, DiagnosticsLost(a) PROVE ConnectionTypeOK' /\ Remains
  BY <1>8 DEF DiagnosticsLost
<1>9. ASSUME Deauthorize PROVE ConnectionTypeOK' /\ Remains
  BY <1>9 DEF Deauthorize, TurnedOff, Installed
<1>10. QED
  BY <1>1, <1>2, <1>3, <1>4, <1>5, <1>6, <1>7, <1>8, <1>9 DEF Lifecycle

-----------------------------------------------------------------------------
\* What OffMeansOff and OnlyKeyed say of one connection.
Sound(c) == /\ c.off <=> c.status \in {"revoked", "offline"}
            /\ c.off => ~c.keyed
            /\ c.automation => c.status \notin {"absent", "connecting"} /\ (c.keyed \/ c.off)
            /\ c.status \in {"connecting", "active", "degraded"} => c.keyed

AllSound == \A p \in Phones : Sound(conn[p])

LEMMA SoundConnections == OffMeansOff /\ OnlyKeyed <=> AllSound
BY DEF OffMeansOff, OnlyKeyed, Sound, AllSound

\* Most steps write one connection.
LEMMA WriteOne ==
  ASSUME ConnectionTypeOK, AllSound, NEW p \in Phones, NEW c, Sound(c), conn' = [conn EXCEPT ![p] = c]
  PROVE  AllSound'
BY DEF ConnectionTypeOK, AllSound

\* A fresh installation is sound: it has credentials and no automation.
LEMMA InstallKeepsSound ==
  ASSUME ConnectionTypeOK, AllSound, NEW p \in Phones, Install(p)
  PROVE  AllSound'
<1>1. Sound([NoConnection EXCEPT !.status = "connecting", !.keyed = TRUE])
  BY DEF Sound, NoConnection
<1>2. QED BY <1>1, WriteOne DEF Install

\* Disconnection turns everything off.
LEMMA TurnedOffIsSound ==
  ASSUME NEW c \in Connection, NEW status \in {"revoked", "offline"}
  PROVE  Sound(TurnedOff(c, status))
BY DEF Sound, TurnedOff, Connection

\* A diagnosis changes the status from active to degraded only, and touches neither the
\* credentials nor the disconnection.
LEMMA DiagnosedIsSound ==
  ASSUME NEW c \in Connection, NEW d \in Diagnoses, Sound(c)
  PROVE  Sound(Diagnosed(c, d))
<1>1. /\ Diagnosed(c, d).off = c.off /\ Diagnosed(c, d).keyed = c.keyed
      /\ Diagnosed(c, d).automation = c.automation
      /\ \/ Diagnosed(c, d).status = c.status
         \/ c.status = "active" /\ Diagnosed(c, d).status = "degraded"
  BY DEF Diagnosed, Connection
<1>2. QED BY <1>1 DEF Sound

LEMMA LifecycleKeepsSound ==
  ASSUME ConnectionTypeOK, AllSound, Begun, Lifecycle
  PROVE  AllSound'
<1>1. ASSUME NEW p \in Phones, ConnectCredentials(p) PROVE AllSound'
  BY <1>1, InstallKeepsSound DEF ConnectCredentials
<1>2. ASSUME NEW p \in Phones, Outdate(p) PROVE AllSound'
  BY <1>2 DEF Outdate, AllSound, Sound, ConnectionTypeOK, Connection
<1>3. ASSUME NEW p \in Phones, Activate(p) PROVE AllSound'
  <2> DEFINE c == [conn[p] EXCEPT !.status = "active", !.automation = FALSE]
  <2>1. Sound(conn[p]) /\ conn[p].status \in {"connecting", "degraded"} /\ conn[p] \in Connection
    BY <1>3 DEF Activate, AllSound, ConnectionTypeOK
  <2>2. Sound(c)
    BY <2>1 DEF Sound, Connection
  <2>3. conn' = [conn EXCEPT ![p] = c]
    BY <1>3 DEF Activate, ConnectionTypeOK
  <2> HIDE DEF c
  <2>4. QED BY <2>2, <2>3, WriteOne
<1>4. ASSUME NEW p \in Phones, BeginEnabling(p) \/ EnableMessaging(p) \/ EnablingLost(p)
      PROVE  AllSound'
  <2>1. CASE conn' = conn
    BY <2>1 DEF AllSound
  <2>2. CASE EnableMessaging(p)
    <3> DEFINE c == [conn[p] EXCEPT !.automation = TRUE]
    <3>1. Sound(conn[p]) /\ conn[p] \in Connection /\ conn[p].status \notin {"absent", "connecting"}
      BY <2>2 DEF EnableMessaging, Begun, AllSound, ConnectionTypeOK
    <3>2. Sound(c)
      BY <3>1 DEF Sound, Connection
    <3>3. conn' = [conn EXCEPT ![p] = c]
      BY <2>2 DEF EnableMessaging, ConnectionTypeOK
    <3> HIDE DEF c
    <3>4. QED BY <3>2, <3>3, WriteOne
  <2>3. QED BY <1>4, <2>1, <2>2 DEF BeginEnabling, EnablingLost
<1>5. ASSUME NEW p \in Phones, Disconnect(p) PROVE AllSound'
  <2>1. Sound(TurnedOff(conn[p], "revoked"))
    BY TurnedOffIsSound DEF ConnectionTypeOK
  <2>2. QED BY <1>5, <2>1, WriteOne DEF Disconnect
<1>6. ASSUME NEW a \in Actors, NEW p \in Phones, BeginDiagnostics(a, p) PROVE AllSound'
  BY <1>6 DEF BeginDiagnostics, AllSound
<1>7. ASSUME NEW a \in Actors, NEW d \in Diagnoses, RecordDiagnostics(a, d) PROVE AllSound'
  <2>1. probe[a] \in Phones
    BY <1>7 DEF RecordDiagnostics, ConnectionTypeOK
  <2>2. Sound(Diagnosed(conn[probe[a]], d))
    BY <2>1, DiagnosedIsSound DEF AllSound, ConnectionTypeOK
  <2>3. QED BY <1>7, <2>1, <2>2, WriteOne DEF RecordDiagnostics
<1>8. ASSUME NEW a \in Actors, DiagnosticsLost(a) PROVE AllSound'
  BY <1>8 DEF DiagnosticsLost, AllSound
<1>9. ASSUME Deauthorize PROVE AllSound'
  <2> SUFFICES ASSUME NEW p \in Phones PROVE Sound(conn'[p])
    BY DEF AllSound
  <2>1. Sound(TurnedOff(conn[p], "offline")) /\ Sound(conn[p])
    BY TurnedOffIsSound DEF ConnectionTypeOK, AllSound
  <2>2. QED BY <1>9, <2>1 DEF Deauthorize
<1>10. QED
  BY <1>1, <1>2, <1>3, <1>4, <1>5, <1>6, <1>7, <1>8, <1>9 DEF Lifecycle

\* Nothing makes a connection wait for its activation again.
LEMMA LifecycleKeepsBegun ==
  ASSUME ConnectionTypeOK, Begun, Lifecycle
  PROVE  Begun'
<1> DEFINE Waiting(c) == c.status \in {"absent", "connecting"}
<1>1. \A p \in enabling' : p \in Phones /\ (p \in enabling \/ ~Waiting(conn[p]))
  BY DEF Lifecycle, ConnectCredentials, Outdate, Activate, BeginEnabling, EnableMessaging,
         EnablingLost, Disconnect, BeginDiagnostics, RecordDiagnostics, DiagnosticsLost,
         Deauthorize, ConnectionTypeOK
<1>2. \A p \in Phones : ~Waiting(conn[p]) => ~Waiting(conn'[p])
  <2> SUFFICES ASSUME NEW p \in Phones, ~Waiting(conn[p]) PROVE ~Waiting(conn'[p])
    OBVIOUS
  <2>1. ASSUME NEW q \in Phones, ConnectCredentials(q) PROVE conn'[p] = conn[p]
    BY <2>1 DEF ConnectCredentials, MayInstall, Installed, Install, ConnectionTypeOK
  <2>2. ASSUME NEW q \in Phones,
               Outdate(q) \/ BeginEnabling(q) \/ EnableMessaging(q) \/ EnablingLost(q)
        PROVE  conn'[p].status = conn[p].status
    BY <2>2 DEF Outdate, BeginEnabling, EnableMessaging, EnablingLost, ConnectionTypeOK, Connection
  <2>3. ASSUME NEW q \in Phones, Activate(q)
        PROVE  conn'[p].status = conn[p].status \/ conn'[p].status = "active"
    BY <2>3 DEF Activate, ConnectionTypeOK, Connection
  <2>4. ASSUME NEW q \in Phones, Disconnect(q)
        PROVE  conn'[p].status = conn[p].status \/ conn'[p].status = "revoked"
    BY <2>4 DEF Disconnect, TurnedOff, ConnectionTypeOK, Connection
  <2>5. ASSUME NEW a \in Actors, NEW d \in Diagnoses, RecordDiagnostics(a, d)
        PROVE  conn'[p].status = conn[p].status \/ conn'[p].status = "degraded"
    <3>1. conn' = [conn EXCEPT ![probe[a]] = Diagnosed(conn[probe[a]], d)] /\ probe[a] \in Phones
      BY <2>5 DEF RecordDiagnostics, ConnectionTypeOK
    <3>2. \/ Diagnosed(conn[p], d).status = conn[p].status
          \/ Diagnosed(conn[p], d).status = "degraded"
      BY DEF Diagnosed, ConnectionTypeOK, Connection
    <3>3. QED BY <3>1, <3>2 DEF ConnectionTypeOK
  <2>6. ASSUME Deauthorize
        PROVE  conn'[p].status = conn[p].status \/ conn'[p].status = "offline"
    BY <2>6 DEF Deauthorize, TurnedOff, ConnectionTypeOK, Connection
  <2>7. ASSUME NEW a \in Actors, NEW q \in Phones, BeginDiagnostics(a, q) \/ DiagnosticsLost(a)
        PROVE  conn' = conn
    BY <2>7 DEF BeginDiagnostics, DiagnosticsLost
  <2>8. QED BY <2>1, <2>2, <2>3, <2>4, <2>5, <2>6, <2>7 DEF Lifecycle, DiagnosticsLost
<1>3. QED BY <1>1, <1>2 DEF Begun

-----------------------------------------------------------------------------
LEMMA ConnectionInitInv == ConnectionInit => ConnectionInv
<1> SUFFICES ASSUME ConnectionInit PROVE ConnectionInv
  OBVIOUS
<1>1. ConnectionTypeOK
  BY DEF ConnectionInit, ConnectionTypeOK, NoConnection, Connection
<1>2. OffMeansOff /\ OnlyKeyed /\ Begun
  BY DEF ConnectionInit, OffMeansOff, OnlyKeyed, Begun, NoConnection
<1>3. QED BY <1>1, <1>2 DEF ConnectionInv

LEMMA ConnectionStepInv == ConnectionInv /\ [Lifecycle]_connectionVars => ConnectionInv'
<1> SUFFICES ASSUME ConnectionInv, [Lifecycle]_connectionVars PROVE ConnectionInv'
  OBVIOUS
<1>1. CASE Lifecycle
  <2>1. ConnectionTypeOK'
    BY <1>1, LifecycleRemains DEF ConnectionInv
  <2>2. AllSound
    BY SoundConnections DEF ConnectionInv
  <2>3. AllSound'
    BY <1>1, <2>2, LifecycleKeepsSound DEF ConnectionInv
  <2>4. OffMeansOff' /\ OnlyKeyed'
    BY <2>3 DEF OffMeansOff, OnlyKeyed, Sound, AllSound
  <2>5. Begun'
    BY <1>1, LifecycleKeepsBegun DEF ConnectionInv
  <2>6. QED BY <2>1, <2>4, <2>5 DEF ConnectionInv
<1>2. CASE UNCHANGED connectionVars
  BY <1>2 DEF connectionVars, ConnectionInv, ConnectionTypeOK, OffMeansOff, OnlyKeyed, Begun
<1>3. QED BY <1>1, <1>2

\* A connection that is off stays inactive and without credentials, however late the
\* diagnostics and the switch-ons that began before; and no switch-on, however late, turns
\* on what has never been activated (metaConnectionLifecycleRepository.js:39-94).
THEOREM OffStaysOff == LifecycleSpec => []OffMeansOff
<1>1. LifecycleSpec => []ConnectionInv
  BY ConnectionInitInv, ConnectionStepInv, PTL DEF LifecycleSpec
<1>2. ConnectionInv => OffMeansOff
  BY DEF ConnectionInv
<1>3. QED BY <1>1, <1>2, PTL

\* The types of the connections.
THEOREM ConnectionTypeCorrect == LifecycleSpec => []ConnectionTypeOK
<1>1. LifecycleSpec => []ConnectionInv
  BY ConnectionInitInv, ConnectionStepInv, PTL DEF LifecycleSpec
<1>2. ConnectionInv => ConnectionTypeOK
  BY DEF ConnectionInv
<1>3. QED BY <1>1, <1>2, PTL

-----------------------------------------------------------------------------
(***************************************************************************)
(* The jobs.                                                               *)
(***************************************************************************)

\* The worker has the job, in its batch or in hand.
Holds(w, t) == t \in batch[w] \/ (doing[w].task = t /\ doing[w].step # "idle")

None == \A t \in Tasks : conn[t[1]].status = "absent" => jobs[t] = "none"

Fresh ==
  \A t \in Tasks : jobs[t] \in {"none", "pending", "expired"} =>
    requested[t] = 0 /\ \A w \in Workers : ~Holds(w, t)

Unasked ==
  \A w \in Workers, t \in Tasks :
    t \in batch[w] \/ (doing[w].task = t /\ doing[w].step = "post") => requested[t] = 0

OneWorker ==
  /\ \A w, v \in Workers, t \in Tasks : Holds(w, t) /\ Holds(v, t) => w = v
  /\ \A w \in Workers : doing[w].step # "idle" => doing[w].task \in Tasks \ batch[w]

Accepted ==
  /\ \A t \in Tasks : requested[t] <= 1
  /\ \A t \in Tasks : jobs[t] = "accepted" => requested[t] = 1
  /\ \A w \in Workers : doing[w].step = "accepted" => requested[doing[w].task] = 1

\* Nobody has an accepted job any more, who would write it once again.
Over == \A t \in Tasks : jobs[t] = "accepted" => \A w \in Workers : ~Holds(w, t)

\* What a job waits for.
Earlier(t) == {e \in Tasks : /\ e[1] = t[1]
                             /\ \/ t[2] = "smb_app_state_sync" /\ e[2] = "subscribe"
                                \/ t[2] = "history" /\ e[2] \in {"subscribe", "smb_app_state_sync"}}

InOrder ==
  \A t \in Tasks : requested[t] = 1 \/ (\E w \in Workers : Holds(w, t)) =>
    \A e \in Earlier(t) : requested[e] = 1

IInv == ConnectionTypeOK /\ JobTypeOK /\ None /\ Fresh /\ Unasked /\ OneWorker /\ Accepted /\ Over /\ InOrder

-----------------------------------------------------------------------------
(***************************************************************************)
(* Each action keeps IInv.                                                 *)
(***************************************************************************)

\* What a step that leaves the jobs and their workers alone has to keep.
LEMMA LifecycleKeepsIInv ==
  ASSUME IInv, ConnectionTypeOK', Remains, UNCHANGED jobVars
  PROVE  IInv'
<1>1. JobTypeOK'
  BY DEF IInv, JobTypeOK, jobVars
<1>2. None'
  BY DEF IInv, None, Remains, jobVars, Tasks
<1>3. Fresh' /\ Unasked' /\ OneWorker' /\ Accepted' /\ Over' /\ InOrder'
  BY DEF IInv, Fresh, Unasked, OneWorker, Accepted, Over, InOrder, Holds, jobVars
<1>4. QED BY <1>1, <1>2, <1>3 DEF IInv

\* A number is installed once, so its jobs are inserted before anybody has claimed one.
LEMMA InstallKeepsIInv ==
  ASSUME IInv, NEW p \in Phones, InstallCoexistence(p)
  PROVE  IInv'
<1>1. ConnectionTypeOK' /\ Remains /\ conn'[p].status # "absent"
  BY InstallRemains DEF IInv, InstallCoexistence
<1>2. conn[p].status = "absent"
  BY DEF InstallCoexistence, MayInstall, Installed
<1>3. /\ jobs' = [t \in Tasks |-> IF t[1] = p THEN "pending" ELSE jobs[t]]
      /\ UNCHANGED <<overdue, batch, doing, requested>>
  BY DEF InstallCoexistence, InsertJobs
<1>4. \A t \in Tasks : t[1] = p => jobs[t] = "none"
  BY <1>2 DEF IInv, None
<1>5. JobTypeOK'
  BY <1>3 DEF IInv, JobTypeOK, JobState
<1>6. None'
  BY <1>1, <1>3 DEF IInv, None, Remains, Tasks
<1>7. Fresh'
  BY <1>3, <1>4 DEF IInv, Fresh, Holds
<1>8. Unasked' /\ OneWorker' /\ InOrder'
  BY <1>3 DEF IInv, Unasked, OneWorker, InOrder, Holds
<1>9. Accepted' /\ Over'
  BY <1>3 DEF IInv, Accepted, Over, Holds
<1>10. QED BY <1>1, <1>5, <1>6, <1>7, <1>8, <1>9 DEF IInv

\* Nothing is asked for, and no job changes.
LEMMA OverdueKeepsIInv ==
  ASSUME IInv, NEW t \in Tasks, Overdue(t)
  PROVE  IInv'
<1>1. JobTypeOK'
  BY DEF IInv, JobTypeOK, Overdue
<1>2. ConnectionTypeOK' /\ None'
  BY DEF IInv, ConnectionTypeOK, None, Overdue, connectionVars
<1>3. Fresh' /\ Unasked' /\ OneWorker' /\ Accepted' /\ Over' /\ InOrder'
  BY DEF IInv, Fresh, Unasked, OneWorker, Accepted, Over, InOrder, Holds, Overdue
<1>4. QED BY <1>1, <1>2, <1>3 DEF IInv

\* What is claimed was pending, so nobody has it and nobody has asked for it; what it waits
\* for has been accepted.
LEMMA ClaimKeepsIInv ==
  ASSUME IInv, NEW w \in Workers, Claim(w)
  PROVE  IInv'
<1> USE DEF IInv
<1>1. /\ doing[w] = Resting /\ batch[w] = {}
      /\ jobs' = [t \in Tasks |-> IF t \in Due THEN "sending" ELSE Swept[t]]
      /\ batch' = [batch EXCEPT ![w] = Due]
      /\ overdue' = {}
      /\ UNCHANGED <<conn, probe, enabling, doing, requested>>
  BY DEF Claim, connectionVars
<1>2. \A t \in Tasks : /\ Swept[t] \in JobState
                       /\ Swept[t] \in {"none", "pending", "accepted"} => Swept[t] = jobs[t]
                       /\ jobs[t] = "none" => Swept[t] = "none"
                       /\ Swept[t] = "expired" => jobs[t] \in {"pending", "expired"}
  BY DEF Swept, JobTypeOK, JobState
<1>3. Due \subseteq Tasks /\ \A t \in Due : Swept[t] = "pending" /\ jobs[t] = "pending"
  BY <1>2 DEF Due
<1>4. \A t \in Due : requested[t] = 0 /\ \A v \in Workers : ~Holds(v, t)
  BY <1>3 DEF Fresh
<1>5. \A t \in Tasks, v \in Workers : Holds(v, t)' <=> (v = w /\ t \in Due) \/ Holds(v, t)
  BY <1>1 DEF Holds, JobTypeOK
<1>6. JobTypeOK'
  BY <1>1, <1>2, <1>3 DEF JobTypeOK, JobState
<1>7. ConnectionTypeOK'
  BY <1>1 DEF ConnectionTypeOK
<1>8. None'
  BY <1>1, <1>2, <1>3 DEF None
<1>9. Fresh'
  BY <1>1, <1>2, <1>3, <1>5 DEF Fresh
<1>10. Unasked'
  BY <1>1, <1>4 DEF Unasked, JobTypeOK
<1>11. OneWorker'
  <2>1. \A v, u \in Workers, t \in Tasks : Holds(v, t)' /\ Holds(u, t)' => v = u
    BY <1>4, <1>5 DEF OneWorker
  <2>2. ASSUME NEW v \in Workers, doing'[v].step # "idle" PROVE doing'[v].task \in Tasks \ batch'[v]
    BY <1>1, <2>2 DEF OneWorker, JobTypeOK, Resting
  <2>3. QED BY <2>1, <2>2 DEF OneWorker
<1>12. Accepted' /\ Over'
  BY <1>1, <1>2, <1>3, <1>5 DEF Accepted, Over
<1>13. InOrder'
  <2>1. \A t \in Due : \A e \in Earlier(t) : Swept[e] = "accepted" /\ e \in Tasks
    BY <1>3 DEF Due, Earlier, Tasks, Steps
  <2>2. \A t \in Due : \A e \in Earlier(t) : requested[e] = 1
    BY <2>1, <1>2 DEF Accepted
  <2>3. QED BY <1>1, <1>5, <2>2 DEF InOrder
<1>14. QED BY <1>6, <1>7, <1>8, <1>9, <1>10, <1>11, <1>12, <1>13

\* The job stays with its worker.
LEMMA ProcessKeepsIInv ==
  ASSUME IInv, NEW w \in Workers, NEW t \in Tasks, Process(w, t)
  PROVE  IInv'
<1> USE DEF IInv
<1> DEFINE next == [task |-> t, step |-> IF Reachable(t[1]) THEN "post" ELSE "failed"]
<1>1. /\ doing[w] = Resting /\ t \in batch[w]
      /\ batch' = [batch EXCEPT ![w] = @ \ {t}]
      /\ doing' = [doing EXCEPT ![w] = next]
      /\ UNCHANGED <<conn, probe, enabling, jobs, overdue, requested>>
  BY DEF Process, connectionVars
<1>2. next.task = t /\ next.step \in {"post", "failed"}
  OBVIOUS
<1>3. next \in [task : Tasks \cup {NoTask}, step : {"idle", "post", "accepted", "uncertain", "failed"}]
  BY <1>2
<1> HIDE DEF next
<1>4. \A x \in Tasks, v \in Workers : Holds(v, x)' <=> Holds(v, x)
  BY <1>1, <1>2 DEF Holds, JobTypeOK, Resting
<1>5. JobTypeOK'
  BY <1>1, <1>3 DEF JobTypeOK
<1>6. ConnectionTypeOK' /\ None'
  BY <1>1 DEF ConnectionTypeOK, None
<1>7. Fresh'
  BY <1>1, <1>4 DEF Fresh
<1>8. Unasked'
  BY <1>1, <1>2 DEF Unasked, JobTypeOK
<1>9. OneWorker'
  <2>1. ASSUME NEW v \in Workers, doing'[v].step # "idle" PROVE doing'[v].task \in Tasks \ batch'[v]
    BY <1>1, <1>2, <2>1 DEF OneWorker, JobTypeOK
  <2>2. QED BY <1>4, <2>1 DEF OneWorker
<1>10. Accepted' /\ Over'
  BY <1>1, <1>2, <1>4 DEF Accepted, Over, JobTypeOK
<1>11. InOrder'
  BY <1>1, <1>4 DEF InOrder
<1>12. QED BY <1>5, <1>6, <1>7, <1>8, <1>9, <1>10, <1>11

\* The only step that asks: nobody has asked for this job before, and nobody else will.
LEMMA PostKeepsIInv ==
  ASSUME IInv, NEW w \in Workers, Post(w)
  PROVE  IInv'
<1> USE DEF IInv
<1>0. PICK t : t = doing[w].task
  OBVIOUS
<1>1. /\ doing[w].step = "post"
      /\ UNCHANGED <<conn, probe, enabling, jobs, overdue, batch>>
  BY DEF Post, connectionVars
<1>2. PICK end \in {"accepted", "uncertain", "failed"} :
        /\ doing' = [doing EXCEPT ![w].step = end]
        /\ \/ requested' = [requested EXCEPT ![t] = @ + 1]
           \/ end = "uncertain" /\ requested' = requested
  BY <1>0 DEF Post, To
<1>3. t \in Tasks /\ t \notin batch[w] /\ requested[t] = 0
  BY <1>0, <1>1 DEF OneWorker, Unasked
<1>4. /\ doing'[w].task = t /\ doing'[w].step = end
      /\ \A v \in Workers \ {w} : doing'[v] = doing[v]
  BY <1>0, <1>2 DEF JobTypeOK
<1>5. \A x \in Tasks, v \in Workers : Holds(v, x)' <=> Holds(v, x)
  BY <1>0, <1>1, <1>2, <1>4 DEF Holds
<1>6. Holds(w, t)
  BY <1>0, <1>1 DEF Holds
<1>7. /\ \A x \in Tasks \ {t} : requested'[x] = requested[x]
      /\ requested'[t] = 1 \/ (end = "uncertain" /\ requested'[t] = 0)
  BY <1>2, <1>3 DEF JobTypeOK
<1>8. JobTypeOK'
  BY <1>1, <1>2, <1>3 DEF JobTypeOK
<1>9. ConnectionTypeOK' /\ None'
  BY <1>1 DEF ConnectionTypeOK, None
<1>10. jobs[t] \notin {"none", "pending", "expired", "accepted"}
  BY <1>3, <1>6 DEF Fresh, Accepted
<1>11. Fresh'
  BY <1>1, <1>5, <1>7, <1>10 DEF Fresh
<1>12. Unasked'
  BY <1>1, <1>2, <1>3, <1>4, <1>5, <1>6, <1>7 DEF Unasked, OneWorker, Holds
<1>13. OneWorker'
  <2>1. ASSUME NEW v \in Workers, doing'[v].step # "idle" PROVE doing'[v].task \in Tasks \ batch'[v]
    BY <1>1, <1>3, <1>4, <2>1 DEF OneWorker
  <2>2. QED BY <1>5, <2>1 DEF OneWorker
<1>14. Accepted'
  <2>1. \A x \in Tasks : requested'[x] <= 1
    BY <1>7 DEF Accepted
  <2>2. \A x \in Tasks : jobs'[x] = "accepted" => requested'[x] = 1
    BY <1>1, <1>7, <1>10 DEF Accepted
  <2>3. ASSUME NEW v \in Workers, doing'[v].step = "accepted" PROVE requested'[doing'[v].task] = 1
    <3>1. CASE v = w
      BY <1>4, <1>7, <2>3, <3>1
    <3>2. CASE v # w
      BY <1>3, <1>4, <1>7, <2>3, <3>2 DEF Accepted, OneWorker
    <3>3. QED BY <3>1, <3>2
  <2>4. QED BY <2>1, <2>2, <2>3 DEF Accepted
<1>15. InOrder'
  <2>1. \A x \in Tasks : requested'[x] = 1 \/ (\E v \in Workers : Holds(v, x)') =>
                           requested[x] = 1 \/ (\E v \in Workers : Holds(v, x))
    BY <1>5, <1>6, <1>7
  <2>2. \A x \in Tasks : requested[x] = 1 => requested'[x] = 1
    BY <1>3, <1>7
  <2>3. \A x \in Tasks : Earlier(x) \subseteq Tasks
    BY DEF Earlier
  <2>4. QED BY <2>1, <2>2, <2>3 DEF InOrder
<1>16. Over'
  BY <1>1, <1>5 DEF Over
<1>17. QED BY <1>8, <1>9, <1>11, <1>12, <1>13, <1>14, <1>15, <1>16

\* The worker lets the job go; an acceptance is written only of a request Meta has.
LEMMA RecordKeepsIInv ==
  ASSUME IInv, NEW w \in Workers, Record(w)
  PROVE  IInv'
<1> USE DEF IInv
<1>0. PICK t : t = doing[w].task
  OBVIOUS
<1>1. /\ doing[w].step \in {"accepted", "uncertain", "failed"}
      /\ UNCHANGED <<conn, probe, enabling, batch, requested>>
      /\ overdue' \subseteq overdue
  BY DEF Record, connectionVars
<1>2. PICK next \in {Resting, [doing[w] EXCEPT !.step = "uncertain"]} :
        /\ doing' = [doing EXCEPT ![w] = next]
        /\ \/ jobs' = jobs
           \/ next = Resting /\ jobs' = [jobs EXCEPT ![t] = doing[w].step]
  BY <1>0 DEF Record, To
<1>3. t \in Tasks
  BY <1>0, <1>1 DEF OneWorker
<1>4. /\ next \in [task : Tasks \cup {NoTask}, step : {"idle", "post", "accepted", "uncertain", "failed"}]
      /\ next.step = "idle" \/ (next.step = "uncertain" /\ next.task = t)
  BY <1>0, <1>2 DEF JobTypeOK, Resting
<1>5. doing'[w] = next /\ \A v \in Workers \ {w} : doing'[v] = doing[v]
  BY <1>2 DEF JobTypeOK
<1>6. \A x \in Tasks, v \in Workers : Holds(v, x)' => Holds(v, x)
  BY <1>0, <1>1, <1>4, <1>5 DEF Holds
<1>7. \A x \in Tasks : \/ jobs'[x] = jobs[x]
                       \/ x = t /\ jobs'[x] = doing[w].step
  BY <1>2 DEF JobTypeOK
<1>8. JobTypeOK'
  BY <1>1, <1>2, <1>3, <1>4 DEF JobTypeOK, JobState
<1>9. ConnectionTypeOK'
  BY <1>1 DEF ConnectionTypeOK
<1>10. jobs[t] \notin {"none", "pending", "expired", "accepted"} /\ Holds(w, t)
  BY <1>0, <1>1, <1>3 DEF Fresh, Over, Holds
<1>11. None'
  BY <1>1, <1>7, <1>10 DEF None
<1>12. Fresh'
  BY <1>1, <1>6, <1>7 DEF Fresh
<1>13. Unasked'
  BY <1>1, <1>4, <1>5 DEF Unasked
<1>14. OneWorker'
  <2>1. ASSUME NEW v \in Workers, doing'[v].step # "idle" PROVE doing'[v].task \in Tasks \ batch'[v]
    BY <1>0, <1>1, <1>4, <1>5, <2>1 DEF OneWorker
  <2>2. QED BY <1>6, <2>1 DEF OneWorker
<1>15. Accepted'
  <2>1. \A x \in Tasks : jobs'[x] = "accepted" => requested'[x] = 1
    BY <1>0, <1>1, <1>7 DEF Accepted
  <2>2. ASSUME NEW v \in Workers, doing'[v].step = "accepted" PROVE requested'[doing'[v].task] = 1
    BY <1>1, <1>4, <1>5, <2>2 DEF Accepted
  <2>3. QED BY <1>1, <2>1, <2>2 DEF Accepted
<1>16. InOrder'
  BY <1>1, <1>6 DEF InOrder
<1>17. Over'
  <2>1. ASSUME NEW x \in Tasks, jobs'[x] = "accepted", NEW v \in Workers, Holds(v, x)' PROVE FALSE
    <3>1. Holds(v, x)
      BY <1>6, <2>1
    <3>2. jobs[x] # "accepted"
      BY <3>1 DEF Over
    <3>3. x = t /\ next = Resting
      BY <1>2, <1>3, <2>1, <3>2 DEF JobTypeOK
    <3>4. v = w
      BY <1>10, <3>1, <3>3 DEF OneWorker
    <3>5. x \notin batch[w] /\ batch'[w] = batch[w]
      BY <1>0, <1>1, <3>3 DEF OneWorker
    <3>6. doing'[w].step = "idle"
      BY <1>5, <3>3 DEF Resting
    <3>7. QED BY <2>1, <3>4, <3>5, <3>6 DEF Holds
  <2>2. QED BY <2>1 DEF Over
<1>18. QED BY <1>8, <1>9, <1>11, <1>12, <1>13, <1>14, <1>15, <1>16, <1>17

\* The jobs of a dead worker stay as they are, and are nobody's.
LEMMA DeathKeepsIInv ==
  ASSUME IInv, NEW w \in Workers, WorkerDies(w)
  PROVE  IInv'
<1> USE DEF IInv
<1>1. /\ batch' = [batch EXCEPT ![w] = {}] /\ doing' = [doing EXCEPT ![w] = Resting]
      /\ UNCHANGED <<conn, probe, enabling, jobs, overdue, requested>>
  BY DEF WorkerDies, connectionVars
<1>2. /\ batch'[w] = {} /\ doing'[w].step = "idle"
      /\ \A v \in Workers \ {w} : batch'[v] = batch[v] /\ doing'[v] = doing[v]
  BY <1>1 DEF JobTypeOK, Resting
<1>3. \A x \in Tasks, v \in Workers : Holds(v, x)' => Holds(v, x)
  BY <1>2 DEF Holds
<1>4. JobTypeOK'
  BY <1>1 DEF JobTypeOK, Resting
<1>5. ConnectionTypeOK' /\ None' /\ Fresh'
  BY <1>1, <1>3 DEF ConnectionTypeOK, None, Fresh
<1>6. Unasked'
  BY <1>1, <1>2 DEF Unasked
<1>7. OneWorker'
  <2>1. ASSUME NEW v \in Workers, doing'[v].step # "idle" PROVE doing'[v].task \in Tasks \ batch'[v]
    BY <1>2, <2>1 DEF OneWorker
  <2>2. QED BY <1>3, <2>1 DEF OneWorker
<1>8. Accepted' /\ Over'
  BY <1>1, <1>2, <1>3 DEF Accepted, Over
<1>9. InOrder'
  BY <1>1, <1>3 DEF InOrder
<1>10. QED BY <1>4, <1>5, <1>6, <1>7, <1>8, <1>9

-----------------------------------------------------------------------------
LEMMA JobInitIInv == ConnectionInit /\ JobInit => IInv
<1> SUFFICES ASSUME ConnectionInit, JobInit PROVE IInv
  OBVIOUS
<1>1. ConnectionTypeOK
  BY DEF ConnectionInit, ConnectionTypeOK, NoConnection, Connection
<1>2. JobTypeOK
  BY DEF JobInit, JobTypeOK, JobState, Resting
<1>3. None /\ Fresh /\ Unasked /\ OneWorker /\ Accepted /\ Over /\ InOrder
  BY DEF JobInit, None, Fresh, Unasked, OneWorker, Accepted, Over, InOrder, Holds, Resting
<1>4. QED BY <1>1, <1>2, <1>3 DEF IInv

LEMMA JobStepIInv == IInv /\ [JobNext \/ (Lifecycle /\ UNCHANGED jobVars)]_<<connectionVars, jobVars>> => IInv'
<1> SUFFICES ASSUME IInv, [JobNext \/ (Lifecycle /\ UNCHANGED jobVars)]_<<connectionVars, jobVars>>
             PROVE  IInv'
  OBVIOUS
<1>1. CASE UNCHANGED <<connectionVars, jobVars>>
  <2>1. ConnectionTypeOK' /\ Remains /\ UNCHANGED jobVars
    BY <1>1 DEF IInv, ConnectionTypeOK, Remains, connectionVars
  <2>2. QED BY <2>1, LifecycleKeepsIInv
<1>2. CASE Lifecycle /\ UNCHANGED jobVars
  BY <1>2, LifecycleRemains, LifecycleKeepsIInv DEF IInv
<1>3. CASE JobNext
  BY <1>3, InstallKeepsIInv, OverdueKeepsIInv, ClaimKeepsIInv, ProcessKeepsIInv, PostKeepsIInv,
     RecordKeepsIInv, DeathKeepsIInv DEF JobNext
<1>4. QED BY <1>1, <1>2, <1>3

\* Once asked for, a job stays so, and has waited for the earlier ones.
LEMMA IInvMeansOneShot == IInv => OneShot
<1> SUFFICES ASSUME IInv, NEW p \in Phones PROVE
      LET n(s) == requested[<<p, s>>] IN
      /\ \A s \in Steps : n(s) <= 1
      /\ n("history") <= n("smb_app_state_sync") /\ n("smb_app_state_sync") <= n("subscribe")
  BY DEF OneShot
<1>1. \A s \in Steps : <<p, s>> \in Tasks
  BY DEF Tasks
<1>2. \A s \in Steps : requested[<<p, s>>] \in {0, 1}
  BY <1>1 DEF IInv, JobTypeOK, Accepted
<1>3. <<p, "smb_app_state_sync">> \in Earlier(<<p, "history">>)
  BY <1>1 DEF Earlier, Steps
<1>4. <<p, "subscribe">> \in Earlier(<<p, "smb_app_state_sync">>)
  BY <1>1 DEF Earlier, Steps
<1>5. QED BY <1>1, <1>2, <1>3, <1>4 DEF IInv, InOrder, Steps

\* Coexistence endpoints are one-shot and asked in order, for any numbers, any workers,
\* any deaths and any delays (metaCoexistenceWorker.js:1-2, 12-28).
THEOREM AskedOnce == JobSpec => []OneShot
<1>1. JobSpec => []IInv
  BY JobInitIInv, JobStepIInv, PTL DEF JobSpec
<1>2. QED BY <1>1, IInvMeansOneShot, PTL

\* The types of the connections and the jobs.
THEOREM JobsTypeCorrect == JobSpec => [](ConnectionTypeOK /\ JobTypeOK)
<1>1. JobSpec => []IInv
  BY JobInitIInv, JobStepIInv, PTL DEF JobSpec
<1>2. IInv => ConnectionTypeOK /\ JobTypeOK
  BY DEF IInv
<1>3. QED BY <1>1, <1>2, PTL

\* To a connection, the jobs beside it are a way to be installed and nothing else, so what
\* is proved of its life holds here too (metaOnboardingRepository.js, metaCoexistenceWorker.js).
THEOREM JobsKeepLifecycle == JobSpec => LifecycleSpec
<1>1. ASSUME [JobNext \/ (Lifecycle /\ UNCHANGED jobVars)]_<<connectionVars, jobVars>>
      PROVE  [Lifecycle]_connectionVars
  <2>1. ASSUME NEW p \in Phones, InstallCoexistence(p) PROVE Lifecycle
    BY <2>1 DEF InstallCoexistence, Lifecycle, ConnectCredentials
  <2>2. ASSUME NEW t \in Tasks, Overdue(t) PROVE UNCHANGED connectionVars
    BY <2>2 DEF Overdue
  <2>3. ASSUME NEW w \in Workers,
               Claim(w) \/ Post(w) \/ Record(w) \/ WorkerDies(w) \/ \E t \in Tasks : Process(w, t)
        PROVE  UNCHANGED connectionVars
    BY <2>3 DEF Claim, Post, Record, WorkerDies, Process
  <2>4. QED BY <1>1, <2>1, <2>2, <2>3 DEF JobNext
<1>2. QED BY <1>1, PTL DEF JobSpec, LifecycleSpec

-----------------------------------------------------------------------------
(***************************************************************************)
(* The promise of a row that is written ahead.                             *)
(***************************************************************************)

\* No request is forgotten, none is made for a job that does not say sending, and what is
\* accepted stays so.
LEMMA JobsMoveOn ==
  ASSUME IInv, [JobNext \/ (Lifecycle /\ UNCHANGED jobVars)]_<<connectionVars, jobVars>>, NEW t \in Tasks
  PROVE  /\ requested'[t] >= requested[t]
         /\ jobs[t] \in {"none", "pending", "expired"} => requested'[t] = 0
         /\ jobs[t] = "accepted" => jobs'[t] = "accepted"
<1>1. /\ jobs \in [Tasks -> JobState] /\ requested[t] \in Nat
      /\ jobs[t] \in {"none", "pending", "expired"} => requested[t] = 0
  BY DEF IInv, JobTypeOK, Fresh
<1>2. CASE UNCHANGED <<jobs, requested>>
  BY <1>1, <1>2
<1>3. ASSUME NEW p \in Phones, InstallCoexistence(p)
      PROVE  UNCHANGED requested /\ (jobs[t] = "accepted" => jobs'[t] = "accepted")
  <2>1. conn[p].status = "absent" /\ jobs' = [x \in Tasks |-> IF x[1] = p THEN "pending" ELSE jobs[x]]
    BY <1>3 DEF InstallCoexistence, MayInstall, Installed, InsertJobs
  <2>2. QED BY <1>3, <2>1 DEF IInv, None, InstallCoexistence
<1>4. ASSUME NEW w \in Workers, Claim(w)
      PROVE  UNCHANGED requested /\ (jobs[t] = "accepted" => jobs'[t] = "accepted")
  <2>1. jobs[t] = "accepted" => Swept[t] = "accepted"
    BY DEF Swept
  <2>2. QED BY <1>4, <2>1 DEF Claim, Due
<1>5. ASSUME NEW w \in Workers, Post(w)
      PROVE  UNCHANGED jobs /\ \E x \in Tasks : /\ jobs[x] \notin {"none", "pending", "expired"}
                                              /\ requested' \in {requested, [requested EXCEPT ![x] = @ + 1]}
  <2>1. Holds(w, doing[w].task) /\ doing[w].task \in Tasks
    BY <1>5 DEF IInv, OneWorker, Holds, Post
  <2>2. QED BY <1>5, <2>1 DEF IInv, Fresh, Post
<1>6. ASSUME NEW w \in Workers, Record(w)
      PROVE  UNCHANGED requested /\ \E x \in Tasks, s \in JobState : /\ jobs[x] # "accepted"
                                                               /\ jobs' \in {jobs, [jobs EXCEPT ![x] = s]}
  <2>1. Holds(w, doing[w].task) /\ doing[w].task \in Tasks /\ doing[w].step \in JobState
    BY <1>6 DEF IInv, OneWorker, Holds, Record, JobState
  <2>2. QED BY <1>6, <2>1 DEF IInv, Over, Record
<1>7. CASE \E p \in Phones : InstallCoexistence(p)
  BY <1>1, <1>3, <1>7
<1>8. CASE \E w \in Workers : Claim(w)
  BY <1>1, <1>4, <1>8
<1>9. CASE \E w \in Workers : Post(w)
  <2>1. PICK x \in Tasks : /\ jobs[x] \notin {"none", "pending", "expired"} /\ UNCHANGED jobs
                           /\ requested' \in {requested, [requested EXCEPT ![x] = @ + 1]}
    BY <1>5, <1>9
  <2>2. requested \in [Tasks -> Nat]
    BY DEF IInv, JobTypeOK
  <2>3. QED BY <1>1, <2>1, <2>2
<1>10. CASE \E w \in Workers : Record(w)
  BY <1>1, <1>6, <1>10
<1>11. CASE (\E w \in Workers : WorkerDies(w) \/ \E x \in Tasks : Process(w, x)) \/ (\E x \in Tasks : Overdue(x))
  BY <1>2, <1>11 DEF WorkerDies, Process, Overdue
<1>12. QED
  BY <1>2, <1>7, <1>8, <1>9, <1>10, <1>11 DEF JobNext, jobVars

\* Each job takes a step of the promise, or rests.
LEMMA JobsPromise ==
  ASSUME IInv, IInv', [JobNext \/ (Lifecycle /\ UNCHANGED jobVars)]_<<connectionVars, jobVars>>
  PROVE  Promise!Next
<1> SUFFICES ASSUME NEW t \in Tasks
             PROVE  \/ Promise!Intend(t) \/ Promise!Act(t) \/ Promise!Settle(t)
                    \/ Promise!Withdraw(t) \/ Promise!Rest(t)
  BY DEF Promise!Next
<1>1. /\ requested[t] \in 0..1 /\ requested'[t] \in 0..1
      /\ jobs[t] = "accepted" => requested[t] = 1
      /\ jobs[t] \in {"none", "pending", "expired"} => requested[t] = 0
      /\ jobs'[t] = "accepted" => requested'[t] = 1
      /\ jobs'[t] \in {"none", "pending", "expired"} => requested'[t] = 0
  <2>1. requested \in [Tasks -> Nat] /\ requested' \in [Tasks -> Nat]
    BY DEF IInv, JobTypeOK
  <2>2. QED BY <2>1 DEF IInv, Accepted, Fresh
<1>2. /\ [x \in Tasks |-> Said(jobs[x])][t] = Said(jobs[t])
      /\ [x \in Tasks |-> Said(jobs'[x])][t] = Said(jobs'[t])
  OBVIOUS
<1>3. QED
  BY <1>1, <1>2, JobsMoveOn
  DEF Said, Promise!Intend, Promise!Act, Promise!Settle, Promise!Withdraw, Promise!Rest

\* The jobs implement the promise of a row that is written ahead, whatever workers are slow
\* or die and whatever is swept meanwhile, and are asked for in their order (metaCoexistenceWorker.js:1-2, 12-28).
THEOREM JobsAskByIntent == JobSpec => AsksByIntent
<1>1. ConnectionInit /\ JobInit => Promise!Init
  BY DEF JobInit, Promise!Init, Said
<1>2. IInv /\ IInv' /\ [JobNext \/ (Lifecycle /\ UNCHANGED jobVars)]_<<connectionVars, jobVars>>
        => [Promise!Next]_(Promise!vars)
  BY JobsPromise
<1>3. QED
  BY <1>1, <1>2, JobInitIInv, JobStepIInv, AskedOnce, PTL DEF JobSpec, AsksByIntent, Promise!Spec
=============================================================================
