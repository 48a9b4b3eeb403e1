--------------------------- MODULE CoexistenceJobs ---------------------------
(***************************************************************************)
(* The one-shot requests that follow the installation of a number that is  *)
(* also on the Business App (MetaCoexistenceWorker): subscribe, then the   *)
(* contacts, then the history.  Each process has a worker that claims a    *)
(* batch and processes it job by job; a worker may be slow or die.         *)
(***************************************************************************)
EXTENDS MetaConnection

CONSTANTS Workers, NoTask

Steps == {"subscribe", "smb_app_state_sync", "history"}
Tasks == Phones \X Steps

VARIABLES
  jobs,       \* task -> state of its row in meta_coexistence_jobs, or "none"
  overdue,    \* tasks that have been sending for 5 minutes or pending for 24 hours
  batch,      \* worker -> tasks claimed and not done
  doing,      \* worker -> the task under way and its step
  requested   \* task -> requests Meta has received (history)

jobVars == <<jobs, overdue, batch, doing, requested>>

JobState == {"none", "pending", "sending", "accepted", "uncertain", "failed", "expired"}
Resting == [task |-> NoTask, step |-> "idle"]

JobInit ==
  /\ jobs = [t \in Tasks |-> "none"]
  /\ overdue = {}
  /\ batch = [w \in Workers |-> {}]
  /\ doing = [w \in Workers |-> Resting]
  /\ requested = [t \in Tasks |-> 0]

-----------------------------------------------------------------------------
\* install with coexistence inserts the three jobs.
InsertJobs(p) == jobs' = [t \in Tasks |-> IF t[1] = p THEN "pending" ELSE jobs[t]]

InstallCoexistence(p) ==
  /\ MayInstall(p) /\ Install(p) /\ InsertJobs(p)
  /\ UNCHANGED <<probe, enabling, overdue, batch, doing, requested>>

Overdue(t) ==
  /\ jobs[t] \in {"pending", "sending"}
  /\ overdue' = overdue \cup {t}
  /\ UNCHANGED <<connectionVars, jobs, batch, doing, requested>>

Reachable(p) == conn[p].status \in {"connecting", "active", "degraded"} /\ ~conn[p].off

\* Plausible bug: an interrupted request is taken for one that was never made.
Swept_Expires == [t \in Tasks |-> IF t \in overdue /\ jobs[t] \in {"pending", "sending"} THEN "expired" ELSE jobs[t]]

\* The first two statements of tick.
Swept == [t \in Tasks |-> IF t \notin overdue THEN jobs[t]
                          ELSE IF jobs[t] = "sending" THEN "uncertain"
                          ELSE IF jobs[t] = "pending" THEN "expired" ELSE jobs[t]]

\* The tasks tick may pick: a later step waits for the acceptance of the earlier ones.
Due == {t \in Tasks : /\ Swept[t] = "pending" /\ Reachable(t[1])
                      /\ t[2] # "subscribe" => Swept[<<t[1], "subscribe">>] = "accepted"
                      /\ t[2] = "history" => Swept[<<t[1], "smb_app_state_sync">>] = "accepted"}

\* tick up to the claim, of at most five jobs: one for each phone at a time.
Claim(w) ==
  /\ doing[w] = Resting /\ batch[w] = {}
  /\ Due # {} \/ Swept # jobs
  /\ jobs' = [t \in Tasks |-> IF t \in Due THEN "sending" ELSE Swept[t]]
  /\ overdue' = {}
  /\ batch' = [batch EXCEPT ![w] = Due]
  /\ UNCHANGED <<connectionVars, doing, requested>>

To(w, step) == doing' = [doing EXCEPT ![w].step = step]

\* process reads the connection again.
Process(w, t) ==
  /\ doing[w] = Resting /\ t \in batch[w]
  /\ batch' = [batch EXCEPT ![w] = @ \ {t}]
  /\ doing' = [doing EXCEPT ![w] = [task |-> t, step |-> IF Reachable(t[1]) THEN "post" ELSE "failed"]]
  /\ UNCHANGED <<connectionVars, jobs, overdue, requested>>

\* The request: accepted, taken with an answer that is lost or not understood, refused.
Post(w) ==
  /\ doing[w].step = "post"
  /\ \/ /\ requested' = [requested EXCEPT ![doing[w].task] = @ + 1]
        /\ \E end \in {"accepted", "uncertain", "failed"} : To(w, end)
     \/ To(w, "uncertain") /\ UNCHANGED requested
  /\ UNCHANGED <<connectionVars, jobs, overdue, batch>>

\* The last statement of process looks at no state; an error of accepted's makes it uncertain.
Record(w) ==
  /\ doing[w].step \in {"accepted", "uncertain", "failed"}
  /\ \/ /\ jobs' = [jobs EXCEPT ![doing[w].task] = doing[w].step]
        /\ overdue' = overdue \ {doing[w].task}
        /\ doing' = [doing EXCEPT ![w] = Resting]
     \/ doing[w].step = "accepted" /\ To(w, "uncertain") /\ UNCHANGED <<jobs, overdue>>
  /\ UNCHANGED <<connectionVars, batch, requested>>

\* The process dies.
WorkerDies(w) ==
  /\ doing[w] # Resting \/ batch[w] # {}
  /\ batch' = [batch EXCEPT ![w] = {}]
  /\ doing' = [doing EXCEPT ![w] = Resting]
  /\ UNCHANGED <<connectionVars, jobs, overdue, requested>>

JobNext ==
  \/ \E p \in Phones : InstallCoexistence(p)
  \/ \E t \in Tasks : Overdue(t)
  \/ \E w \in Workers : \/ Claim(w) \/ Post(w) \/ Record(w) \/ WorkerDies(w)
                        \/ \E t \in Tasks : Process(w, t)

\* Beside them the connections live their own life.
JobSpec ==
  /\ ConnectionInit /\ JobInit
  /\ [][JobNext \/ (Lifecycle /\ UNCHANGED jobVars)]_<<connectionVars, jobVars>>

-----------------------------------------------------------------------------
JobTypeOK ==
  /\ jobs \in [Tasks -> JobState]
  /\ overdue \subseteq Tasks
  /\ batch \in [Workers -> SUBSET Tasks]
  /\ doing \in [Workers -> [task : Tasks \cup {NoTask},
                            step : {"idle", "post", "accepted", "uncertain", "failed"}]]
  /\ requested \in [Tasks -> Nat]

\* Sync endpoints are one-shot: Meta is asked at most once for each step of a phone, by
\* whichever process and however slow, and for a later step only when the earlier ones
\* have been asked for (metaCoexistenceWorker.js:1-2, 12-28).
OneShot ==
  \A p \in Phones :
     LET n(s) == requested[<<p, s>>] IN
     /\ \A s \in Steps : n(s) <= 1
     /\ n("history") <= n("smb_app_state_sync") /\ n("smb_app_state_sync") <= n("subscribe")

\* What a job says of its request.
Said(state) == IF state \in {"none", "pending", "expired"} THEN "clear"
               ELSE IF state = "accepted" THEN "done" ELSE "open"

Promise == INSTANCE WriteAhead WITH
  Acts <- Tasks, row <- [t \in Tasks |-> Said(jobs[t])], times <- requested

\* The job is written ahead of the request, though its last statement looks at no state and a
\* sweep may have passed meanwhile: a job is accepted only of what Meta has received, and none
\* that was received is pending or expired; and the requests are one-shot and in order
\* (metaCoexistenceWorker.js:1-2, 12-28).
AsksByIntent == Promise!Spec /\ []OneShot
=============================================================================
