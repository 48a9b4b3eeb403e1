------------------------ MODULE MCMetaConnectionProofs ------------------------
(***************************************************************************)
(* Proofs about all that meets in the connections of a workspace: template *)
(* syncs, signup, media and workflows, beside the jobs and the life of the *)
(* connections, of which CoexistenceJobsProofs proves.  TLC runs one       *)
(* component at a time; TogetherSpec runs them all, and what is proved of  *)
(* it holds for what TLC runs.                                             *)
(***************************************************************************)
EXTENDS MCMetaConnection, CoexistenceJobsProofs, FiniteSetTheorems

allVars == <<connectionVars, templateVars, jobVars, signupVars, mediaVars, workflowVars>>
sendVars == <<execution, bound, calls, outcome>>

\* All components at once.
TogetherInit ==
  ConnectionInit /\ TemplateInit /\ JobInit /\ SignupInit /\ MediaInit /\ WorkflowInit

TogetherNext ==
  /\ \/ Lifecycle /\ UNCHANGED <<templateVars, jobVars, signupVars, mediaVars, sendVars>>
     \/ TemplateNext /\ UNCHANGED <<jobVars, signupVars, mediaVars, sendVars>>
     \/ JobNext /\ UNCHANGED <<templateVars, signupVars, mediaVars, sendVars>>
     \/ SignupNext /\ UNCHANGED <<templateVars, mediaVars, sendVars>>
     \/ MediaNext /\ UNCHANGED <<templateVars, jobVars, signupVars, sendVars>>
     \/ WorkflowNext /\ UNCHANGED <<templateVars, jobVars, signupVars, mediaVars>>
  /\ Watch

TogetherSpec == TogetherInit /\ [][TogetherNext]_allVars

-----------------------------------------------------------------------------
(***************************************************************************)
(* To the connections and the jobs, the others are nothing new.            *)
(***************************************************************************)

LEMMA TemplatesLeaveConnections == TemplateNext => UNCHANGED connectionVars
BY DEF TemplateNext, BeginSync, CreateTemplate, ReadPage, SyncFails, Replace, RemoteChange

LEMMA MediaLeavesConnections == MediaNext => UNCHANGED connectionVars
BY DEF MediaNext, BeginCleanup, Mark, CleanerDies, Remove

\* A signup installs a number, with or without the jobs of coexistence, or does nothing
\* that they see.
LEMMA SignupInstalls ==
  ASSUME SignupNext
  PROVE  \/ \E r \in Requests : /\ completing[r].step = "install" /\ MayInstall(completing[r].phone)
                                /\ Install(completing[r].phone)
                                /\ InsertJobs(completing[r].phone) \/ UNCHANGED jobs
                                /\ UNCHANGED around
         \/ UNCHANGED <<connectionVars, jobVars>>
<1> USE DEF around, connectionVars, jobVars
<1>1. ASSUME NEW r \in Requests, InstallNumber(r)
      PROVE  \/ /\ completing[r].step = "install" /\ MayInstall(completing[r].phone)
                /\ Install(completing[r].phone)
                /\ InsertJobs(completing[r].phone) \/ UNCHANGED jobs
                /\ UNCHANGED around
             \/ UNCHANGED <<connectionVars, jobVars>>
  BY <1>1 DEF InstallNumber
<1>2. ASSUME NEW r \in Requests,
             \/ Arrive(r) \/ ClaimSignup(r) \/ Authorize(r) \/ Exchange(r)
             \/ Finalize(r) \/ ReleaseSignup(r) \/ RequestDies(r)
      PROVE  UNCHANGED <<connectionVars, jobVars>>
  BY <1>2 DEF Arrive, ClaimSignup, Authorize, Exchange, Finalize, ReleaseSignup, RequestDies
<1>3. ASSUME StartSignup \/ WindowEnds \/ CancelSignup \/ Stall \/ Expire \/ Cleanup
      PROVE  UNCHANGED <<connectionVars, jobVars>>
  BY <1>3 DEF StartSignup, WindowEnds, CancelSignup, Stall, Expire, Cleanup
<1>4. QED BY <1>1, <1>2, <1>3 DEF SignupNext

-----------------------------------------------------------------------------
(***************************************************************************)
(* Signup.                                                                 *)
(***************************************************************************)

Completion == [step : {"idle", "claim", "authorize", "exchange", "install", "finalize", "release"},
               phone : Phones \cup {NoPhone}, coexistence : BOOLEAN]

\* A success is the deletion of the row, which happens once, and whoever is about to delete
\* it has installed a number.
SignupInv ==
  /\ completing \in [Requests -> Completion]
  /\ \A r \in Requests : completing[r].step = "install" => completing[r].phone \in Phones
  /\ signup \in {"none", "pending", "processing", "gone"}
  /\ successes \in {0, 1}
  /\ successes = 1 \/ cancelled => signup = "gone"
  /\ ~(successes = 1 /\ cancelled)
  /\ successes = 1 \/ (\E r \in Requests : completing[r].step = "finalize") => Installed # {}

\* No step takes the last number away.
KeepsNumber == Installed # {} => Installed' # {}

LEMMA RemainsKeepsNumber == Remains => KeepsNumber
BY DEF Remains, KeepsNumber, Installed

LEMMA CompletionSteps ==
  ASSUME SignupInv, NEW r \in Requests
  PROVE  /\ \A step \in {"idle", "claim", "authorize", "exchange", "install", "finalize", "release"} :
              Then(r, step) => /\ completing' \in [Requests -> Completion]
                               /\ completing'[r].step = step
                               /\ completing'[r].phone = completing[r].phone
                               /\ \A q \in Requests \ {r} : completing'[q] = completing[q]
         /\ Answer(r) => /\ completing' \in [Requests -> Completion]
                         /\ completing'[r].step = "idle"
                         /\ \A q \in Requests \ {r} : completing'[q] = completing[q]
<1>1. completing \in [Requests -> Completion]
  BY DEF SignupInv
<1>2. ASSUME NEW step \in {"idle", "claim", "authorize", "exchange", "install", "finalize", "release"},
             Then(r, step)
      PROVE  /\ completing' \in [Requests -> Completion]
             /\ completing'[r].step = step
             /\ completing'[r].phone = completing[r].phone
             /\ \A q \in Requests \ {r} : completing'[q] = completing[q]
  BY <1>1, <1>2 DEF Then, Completion
<1>3. ASSUME Answer(r)
      PROVE  /\ completing' \in [Requests -> Completion]
             /\ completing'[r].step = "idle"
             /\ \A q \in Requests \ {r} : completing'[q] = completing[q]
  <2>1. NoRequest \in Completion /\ NoRequest.step = "idle"
    BY DEF NoRequest, Completion
  <2>2. QED BY <1>1, <1>3, <2>1 DEF Answer
<1>4. QED BY <1>2, <1>3

LEMMA SignupStep ==
  ASSUME SignupInv, SignupNext, KeepsNumber,
         \A r \in Requests : Install(completing[r].phone) /\ completing[r].phone \in Phones =>
           Installed' # {}
  PROVE  SignupInv'
<1> USE DEF SignupInv, KeepsNumber
<1>1. CASE StartSignup \/ WindowEnds \/ CancelSignup \/ Stall \/ Expire \/ Cleanup
  BY <1>1 DEF StartSignup, WindowEnds, CancelSignup, Stall, Expire, Cleanup
<1>2. ASSUME NEW r \in Requests, Arrive(r) \/ ClaimSignup(r) \/ Authorize(r) PROVE SignupInv'
  BY <1>2, CompletionSteps DEF Arrive, ClaimSignup, Authorize
<1>3. ASSUME NEW r \in Requests, Exchange(r) PROVE SignupInv'
  <2>1. CASE Then(r, "release")
    BY <1>3, <2>1, CompletionSteps DEF Exchange
  <2>2. ASSUME NEW p \in Phones, NEW c \in BOOLEAN,
               completing' = [completing EXCEPT ![r] = [step |-> "install", phone |-> p, coexistence |-> c]]
        PROVE  SignupInv'
    BY <1>3, <2>2 DEF Exchange, Completion
  <2>3. QED BY <1>3, <2>1, <2>2 DEF Exchange
<1>4. ASSUME NEW r \in Requests, InstallNumber(r) PROVE SignupInv'
  BY <1>4, CompletionSteps DEF InstallNumber
<1>5. ASSUME NEW r \in Requests, Finalize(r) PROVE SignupInv'
  BY <1>5, CompletionSteps DEF Finalize
<1>6. ASSUME NEW r \in Requests, ReleaseSignup(r) PROVE SignupInv'
  BY <1>6, CompletionSteps DEF ReleaseSignup
<1>7. ASSUME NEW r \in Requests, RequestDies(r) PROVE SignupInv'
  BY <1>7, CompletionSteps DEF RequestDies
<1>8. QED BY <1>1, <1>2, <1>3, <1>4, <1>5, <1>6, <1>7 DEF SignupNext

\* Whatever else runs, the jobs and the connections see steps of their own.
LEMMA OthersAreJobs ==
  ASSUME SignupInv, [TogetherNext]_allVars
  PROVE  [JobNext \/ (Lifecycle /\ UNCHANGED jobVars)]_<<connectionVars, jobVars>>
<1>1. CASE SignupNext
  <2>1. ASSUME NEW r \in Requests, completing[r].step = "install", MayInstall(completing[r].phone),
               Install(completing[r].phone), InsertJobs(completing[r].phone) \/ UNCHANGED jobs,
               UNCHANGED around
        PROVE  JobNext \/ (Lifecycle /\ UNCHANGED jobVars)
    <3>1. completing[r].phone \in Phones
      BY <2>1 DEF SignupInv
    <3>2. CASE InsertJobs(completing[r].phone)
      BY <2>1, <3>1, <3>2 DEF around, JobNext, InstallCoexistence
    <3>3. CASE UNCHANGED jobs
      BY <2>1, <3>1, <3>3 DEF around, Lifecycle, ConnectCredentials, jobVars
    <3>4. QED BY <2>1, <3>2, <3>3
  <2>2. QED BY <1>1, <2>1, SignupInstalls
<1>2. CASE TemplateNext /\ UNCHANGED jobVars
  BY <1>2, TemplatesLeaveConnections
<1>3. CASE MediaNext /\ UNCHANGED jobVars
  BY <1>3, MediaLeavesConnections
<1>4. CASE WorkflowNext /\ UNCHANGED jobVars
  BY <1>4 DEF WorkflowNext
<1>5. CASE UNCHANGED allVars
  BY <1>5 DEF allVars
<1>6. QED BY <1>1, <1>2, <1>3, <1>4, <1>5 DEF TogetherNext

LEMMA JobsAreLifecycle ==
  ASSUME [JobNext \/ (Lifecycle /\ UNCHANGED jobVars)]_<<connectionVars, jobVars>>
  PROVE  [Lifecycle]_connectionVars
<1>1. ASSUME NEW p \in Phones, InstallCoexistence(p) PROVE Lifecycle
  BY <1>1 DEF InstallCoexistence, Lifecycle, ConnectCredentials
<1>2. ASSUME NEW t \in Tasks, Overdue(t) PROVE UNCHANGED connectionVars
  BY <1>2 DEF Overdue
<1>3. ASSUME NEW w \in Workers,
             Claim(w) \/ Post(w) \/ Record(w) \/ WorkerDies(w) \/ \E t \in Tasks : Process(w, t)
      PROVE  UNCHANGED connectionVars
  BY <1>3 DEF Claim, Post, Record, WorkerDies, Process
<1>4. QED BY <1>1, <1>2, <1>3 DEF JobNext

LEMMA ConnectionsRemain ==
  ASSUME ConnectionTypeOK, [Lifecycle]_connectionVars
  PROVE  Remains
<1>1. CASE UNCHANGED connectionVars
  BY <1>1 DEF connectionVars, Remains
<1>2. QED BY <1>1, LifecycleRemains

BothInv == IInv /\ SignupInv

LEMMA BothInit == TogetherInit => BothInv
<1> SUFFICES ASSUME TogetherInit PROVE BothInv
  OBVIOUS
<1>1. IInv
  BY JobInitIInv DEF TogetherInit
<1>2. SignupInv
  BY DEF TogetherInit, SignupInit, SignupInv, Completion, NoRequest
<1>3. QED BY <1>1, <1>2 DEF BothInv

LEMMA BothStep == BothInv /\ [TogetherNext]_allVars => BothInv'
<1> SUFFICES ASSUME BothInv, [TogetherNext]_allVars PROVE BothInv'
  OBVIOUS
<1>1. [JobNext \/ (Lifecycle /\ UNCHANGED jobVars)]_<<connectionVars, jobVars>>
  BY OthersAreJobs DEF BothInv
<1>2. IInv'
  BY <1>1, JobStepIInv DEF BothInv
<1>3. KeepsNumber
  BY <1>1, JobsAreLifecycle, ConnectionsRemain, RemainsKeepsNumber DEF BothInv, IInv
<1>4. SignupInv'
  <2>1. CASE SignupNext
    <3>1. ASSUME NEW r \in Requests, Install(completing[r].phone), completing[r].phone \in Phones
          PROVE  Installed' # {}
      BY <3>1 DEF BothInv, IInv, ConnectionTypeOK, Install, Installed, NoConnection
    <3>2. QED BY <1>3, <2>1, <3>1, SignupStep DEF BothInv
  <2>2. CASE UNCHANGED signupVars
    BY <1>3, <2>2 DEF BothInv, SignupInv, signupVars, KeepsNumber
  <2>3. QED BY <2>1, <2>2 DEF TogetherNext, allVars
<1>5. QED BY <1>2, <1>4 DEF BothInv

\* To the jobs and the connections, all that runs beside them is a step of their own.
THEOREM TogetherKeepsJobs == TogetherSpec => JobSpec
<1>1. TogetherInit => ConnectionInit /\ JobInit
  BY DEF TogetherInit
<1>2. ASSUME BothInv, [TogetherNext]_allVars
      PROVE  [JobNext \/ (Lifecycle /\ UNCHANGED jobVars)]_<<connectionVars, jobVars>>
  BY <1>2, OthersAreJobs DEF BothInv
<1>3. QED BY BothInit, BothStep, <1>1, <1>2, PTL DEF TogetherSpec, JobSpec

LEMMA TogetherConnections == BothInv /\ [TogetherNext]_allVars => [Lifecycle]_connectionVars
BY OthersAreJobs, JobsAreLifecycle DEF BothInv

-----------------------------------------------------------------------------
(***************************************************************************)
(* Templates: a sync that nothing has disturbed has found what is there on *)
(* the pages it has read.                                                  *)
(***************************************************************************)

Sync == [on : Phones \cup {NoPhone}, page : 0..LastPage,
         found : [Templates -> RemoteStatus], changed : BOOLEAN]

TemplateInv ==
  /\ TemplateTypeOK
  /\ \A a \in Actors : ~sync[a].changed =>
       \A t \in Templates : PageOf[t] <= sync[a].page => sync[a].found[t] = remote[t]
  /\ CatalogueIsExact

LEMMA FreshSync ==
  /\ NoSync \in Sync /\ NoSync.page = 0 /\ NoSync.found = NotThere /\ NoSync.changed = FALSE
  /\ \A p \in Phones \cup {NoPhone} : /\ [NoSync EXCEPT !.on = p] \in Sync
                                      /\ [NoSync EXCEPT !.on = p].page = 0
<1>1. 0 \in 0..LastPage /\ NotThere \in [Templates -> RemoteStatus]
  BY TemplateAssumption DEF TemplateAssumption, NotThere, RemoteStatus
<1>2. NoSync \in Sync
  BY <1>1 DEF NoSync, Sync
<1>3. NoSync.page = 0 /\ NoSync.found = NotThere /\ NoSync.changed = FALSE
  BY DEF NoSync
<1>4. ASSUME NEW p \in Phones \cup {NoPhone}
      PROVE  [NoSync EXCEPT !.on = p] \in Sync /\ [NoSync EXCEPT !.on = p].page = 0
  BY <1>2, <1>3 DEF Sync
<1>5. QED BY <1>2, <1>3, <1>4

LEMMA TemplateInitInv == TemplateInit => TemplateInv
<1> SUFFICES ASSUME TemplateInit PROVE TemplateInv
  OBVIOUS
<1>1. TemplateTypeOK
  BY FreshSync DEF TemplateInit, TemplateTypeOK, Sync, NotThere, RemoteStatus
<1>2. CatalogueIsExact
  BY DEF TemplateInit, CatalogueIsExact, NotThere
<1>3. \A a \in Actors : sync[a].found = NotThere
  BY FreshSync DEF TemplateInit
<1>4. QED BY <1>1, <1>2, <1>3 DEF TemplateInit, TemplateInv

\* A change at Meta's disturbs every sync but the one that has just begun.
LEMMA ChangeKeepsTemplates ==
  ASSUME TemplateInv, NEW t \in Templates, NEW s \in RemoteStatus,
         Changed([remote EXCEPT ![t] = s]), UNCHANGED local,
         sync' \in [Actors -> Sync],
         \A a \in Actors : sync'[a].changed \/ sync'[a].page = 0
  PROVE  TemplateInv'
<1>1. TemplateTypeOK'
  BY DEF TemplateInv, TemplateTypeOK, Changed, Sync
<1>2. \A a \in Actors, u \in Templates : sync'[a].page = 0 => ~(PageOf[u] <= sync'[a].page)
  BY TemplateAssumption DEF TemplateAssumption
<1>3. CatalogueIsExact'
  BY DEF Changed, CatalogueIsExact
<1>4. QED BY <1>1, <1>2, <1>3 DEF TemplateInv

LEMMA TemplateStep == TemplateInv /\ TemplateNext => TemplateInv'
<1> SUFFICES ASSUME TemplateInv, TemplateNext PROVE TemplateInv'
  OBVIOUS
<1>0. sync \in [Actors -> Sync] /\ remote \in [Templates -> RemoteStatus]
  BY DEF TemplateInv, TemplateTypeOK, Sync
<1>1. ASSUME NEW t \in Templates, NEW s \in RemoteStatus, RemoteChange(t, s) PROVE TemplateInv'
  <2>1. sync' \in [Actors -> Sync] /\ \A a \in Actors : sync'[a].changed
    BY <1>0, <1>1 DEF RemoteChange, Sync
  <2>2. QED BY <1>1, <2>1, ChangeKeepsTemplates DEF RemoteChange
<1>2. ASSUME NEW a \in Actors, NEW p \in Phones, BeginSync(a, p) PROVE TemplateInv'
  <2>1. /\ sync' \in [Actors -> Sync] /\ sync'[a].page = 0
        /\ \A b \in Actors \ {a} : sync'[b] = sync[b]
    BY <1>0, <1>2, FreshSync DEF BeginSync, Started
  <2>2. \A u \in Templates : ~(PageOf[u] <= sync'[a].page)
    BY <2>1, TemplateAssumption DEF TemplateAssumption
  <2>3. QED BY <1>2, <2>1, <2>2 DEF TemplateInv, TemplateTypeOK, Sync, BeginSync, CatalogueIsExact
<1>3. ASSUME NEW a \in Actors, NEW p \in Phones, NEW t \in Templates, CreateTemplate(a, p, t)
      PROVE  TemplateInv'
  <2>1. PICK answered \in BOOLEAN :
          sync' = [b \in Actors |-> IF b # a THEN [sync[b] EXCEPT !.changed = TRUE]
                                    ELSE [NoSync EXCEPT !.on = IF answered THEN p ELSE NoPhone]]
    BY <1>3 DEF CreateTemplate
  <2>2. /\ sync' \in [Actors -> Sync] /\ sync'[a].page = 0
        /\ \A b \in Actors \ {a} : sync'[b].changed
    BY <1>0, <2>1, FreshSync DEF Sync
  <2>3. "APPROVED" \in RemoteStatus
    BY DEF RemoteStatus
  <2>4. QED BY <1>3, <2>2, <2>3, ChangeKeepsTemplates DEF CreateTemplate
<1>4. ASSUME NEW a \in Actors, ReadPage(a) PROVE TemplateInv'
  <2> DEFINE page == sync[a].page + 1
             found == [t \in Templates |-> IF PageOf[t] = page THEN remote[t] ELSE sync[a].found[t]]
             read == [sync[a] EXCEPT !.page = page, !.found = found]
  <2>1. sync' = [sync EXCEPT ![a] = read] /\ UNCHANGED <<remote, local, exact>>
    <3>1. sync' = [[sync EXCEPT ![a].page = @ + 1] EXCEPT ![a].found =
                     [t \in Templates |-> IF PageOf[t] = sync[a].page + 1 THEN remote[t] ELSE @[t]]]
      BY <1>4 DEF ReadPage
    <3>2. QED BY <1>0, <1>4, <3>1 DEF ReadPage, Sync
  <2>2. read = [on |-> sync[a].on, page |-> page, found |-> found, changed |-> sync[a].changed]
    <3>1. read = [x \in DOMAIN sync[a] |-> IF x = "found" THEN found
                                           ELSE IF x = "page" THEN page ELSE sync[a][x]]
      OBVIOUS
    <3> HIDE DEF read, found, page
    <3>2. QED BY <1>0, <3>1 DEF Sync
  <2>3. page \in 0..LastPage /\ sync[a].page \in 0..LastPage /\ page = sync[a].page + 1
    BY <1>0, <1>4, TemplateAssumption DEF ReadPage, Sync, TemplateAssumption
  <2>4. found \in [Templates -> RemoteStatus]
    BY <1>0 DEF Sync
  <2>5. ASSUME ~sync[a].changed, NEW t \in Templates, PageOf[t] <= page PROVE found[t] = remote[t]
    <3>1. PageOf[t] \in 1..LastPage
      BY TemplateAssumption DEF TemplateAssumption
    <3>2. PageOf[t] = page \/ PageOf[t] <= sync[a].page
      BY <2>3, <2>5, <3>1, TemplateAssumption DEF TemplateAssumption
    <3>3. QED BY <2>5, <3>2 DEF TemplateInv
  <2> HIDE DEF read, found, page
  <2>6. read \in Sync
    BY <1>0, <2>2, <2>3, <2>4 DEF Sync
  <2>7. TemplateTypeOK'
    BY <1>0, <2>1, <2>6 DEF TemplateInv, TemplateTypeOK, Sync
  <2>8. QED BY <1>0, <2>1, <2>2, <2>5, <2>7 DEF TemplateInv, CatalogueIsExact
<1>5. ASSUME NEW a \in Actors, SyncFails(a) PROVE TemplateInv'
  <2>1. /\ sync' \in [Actors -> Sync] /\ sync'[a].page = 0
        /\ \A b \in Actors \ {a} : sync'[b] = sync[b]
    BY <1>0, <1>5, FreshSync DEF SyncFails
  <2>2. \A u \in Templates : ~(PageOf[u] <= sync'[a].page)
    BY <2>1, TemplateAssumption DEF TemplateAssumption
  <2>3. QED BY <1>5, <2>1, <2>2 DEF TemplateInv, TemplateTypeOK, Sync, SyncFails, CatalogueIsExact
<1>6. ASSUME NEW a \in Actors, Replace(a) PROVE TemplateInv'
  <2>1. /\ sync' \in [Actors -> Sync] /\ sync'[a].page = 0
        /\ \A b \in Actors \ {a} : sync'[b] = sync[b]
    BY <1>0, <1>6, FreshSync DEF Replace
  <2>2. \A u \in Templates : ~(PageOf[u] <= sync'[a].page)
    BY <2>1, TemplateAssumption DEF TemplateAssumption
  <2>3. local' \in [Templates -> RemoteStatus \cup {"ARCHIVED"}] /\ exact' \in BOOLEAN
    BY <1>0, <1>6 DEF TemplateInv, TemplateTypeOK, Sync, Replace, Merged, RemoteStatus
  <2>4. TemplateTypeOK'
    BY <1>6, <2>1, <2>3 DEF TemplateInv, TemplateTypeOK, Sync, Replace
  <2>5. ASSUME ~sync[a].changed, NEW t \in Templates PROVE sync[a].found[t] = remote[t]
    BY <1>6, <2>5, TemplateAssumption DEF TemplateAssumption, Replace, TemplateInv
  <2>6. CatalogueIsExact'
    BY <1>0, <1>6, <2>5 DEF Replace, Merged, CatalogueIsExact, RemoteStatus, TemplateInv
  <2>7. QED BY <1>6, <2>1, <2>2, <2>4, <2>6 DEF TemplateInv, Replace
<1>7. QED BY <1>1, <1>2, <1>3, <1>4, <1>5, <1>6 DEF TemplateNext

-----------------------------------------------------------------------------
(***************************************************************************)
(* Media: an attachment in a cleaner's hands is in no list of it, and a    *)
(* deletion is written only when Meta has deleted.                         *)
(***************************************************************************)

Holders(a) == {c \in Cleaners : a \in cleaner[c].todo \/ cleaner[c].at = a}

Cleaner == [todo : SUBSET Attachments, at : Attachments \cup {NoAttachment},
            mark : {"none", "deleted", "failed"}]

MediaInv ==
  /\ MediaTypeOK
  /\ \A c \in Cleaners : cleaner[c].mark = "none" <=> cleaner[c].at = NoAttachment
  /\ \A c \in Cleaners : cleaner[c].at \notin cleaner[c].todo
  /\ \A c \in Cleaners : cleaner[c].mark = "deleted" => MediumOf[cleaner[c].at] \notin atMeta
  /\ CleanupIsTrue

LEMMA HolderCount ==
  ASSUME NEW a
  PROVE  /\ IsFiniteSet(Holders(a)) /\ Cardinality(Holders(a)) \in Nat
         /\ Cardinality(Cleaners) \in Nat /\ Cardinality(Holders(a)) <= Cardinality(Cleaners)
BY FS_Subset, FS_CardinalityType, RetentionAssumption DEF RetentionAssumption, Holders

\* Fewer cleaners hold it, or one gives it up.
LEMMA FewerHolders ==
  ASSUME NEW a, Holders(a)' \subseteq Holders(a)
  PROVE  /\ Cardinality(Holders(a)') <= Cardinality(Holders(a))
         /\ Cardinality(Holders(a)') \in Nat
         /\ Holders(a)' # Holders(a) => Cardinality(Holders(a)') + 1 <= Cardinality(Holders(a))
<1>1. IsFiniteSet(Holders(a)) /\ Cardinality(Holders(a)) \in Nat
  BY HolderCount
<1>2. IsFiniteSet(Holders(a)') /\ Cardinality(Holders(a)') \in Nat
  BY <1>1, FS_Subset, FS_CardinalityType
<1>3. /\ Cardinality(Holders(a)') <= Cardinality(Holders(a))
      /\ Cardinality(Holders(a)) = Cardinality(Holders(a)') => Holders(a) = Holders(a)'
  BY <1>1, FS_Subset
<1>4. QED BY <1>1, <1>2, <1>3

LEMMA CleanupCounts ==
  CleanupIsTrue <=>
    \A a \in Attachments :
      /\ attachment[a].deleted => MediumOf[a] \notin atMeta
      /\ attachment[a].attempts + Cardinality(Holders(a)) <= MaxDeleteAttempts - 1 + Cardinality(Cleaners)
BY DEF CleanupIsTrue, Holders

LEMMA MediaInitInv == MediaInit => MediaInv
<1> SUFFICES ASSUME MediaInit PROVE MediaInv
  OBVIOUS
<1>1. MediaTypeOK /\ \A c \in Cleaners : cleaner[c].at = NoAttachment
  BY DEF MediaInit, MediaTypeOK, Asleep
<1>2. ASSUME NEW a \in Attachments
      PROVE  /\ ~attachment[a].deleted
             /\ attachment[a].attempts + Cardinality(Holders(a)) <= MaxDeleteAttempts - 1 + Cardinality(Cleaners)
  <2>1. attachment[a].attempts = 0 /\ ~attachment[a].deleted
    BY DEF MediaInit
  <2>2. QED BY <2>1, HolderCount, RetentionAssumption DEF RetentionAssumption
<1>3. CleanupIsTrue
  BY <1>2, CleanupCounts
<1>4. QED BY <1>1, <1>3, RetentionAssumption DEF MediaInit, MediaInv, Asleep, RetentionAssumption

\* A step that gives nothing to a cleaner, takes nothing back at Meta and counts an attempt
\* only as a cleaner gives the row up.
LEMMA CleanupKept ==
  ASSUME MediaInv, MediaTypeOK', atMeta' \subseteq atMeta,
         \A a \in Attachments :
           /\ Holders(a)' \subseteq Holders(a)
           /\ attachment'[a].deleted => attachment[a].deleted \/ MediumOf[a] \notin atMeta'
           /\ \/ attachment'[a].attempts = attachment[a].attempts
              \/ /\ attachment'[a].attempts = attachment[a].attempts + 1
                 /\ Holders(a)' # Holders(a)
  PROVE  CleanupIsTrue'
<1>1. ASSUME NEW a \in Attachments
      PROVE  /\ attachment'[a].deleted => MediumOf[a] \notin atMeta'
             /\ attachment'[a].attempts + Cardinality(Holders(a)')
                  <= MaxDeleteAttempts - 1 + Cardinality(Cleaners)
  <2>1. attachment[a].attempts \in Nat /\ attachment'[a].attempts \in Nat
    BY DEF MediaInv, MediaTypeOK
  <2>2. attachment[a].attempts + Cardinality(Holders(a)) <= MaxDeleteAttempts - 1 + Cardinality(Cleaners)
    BY CleanupCounts DEF MediaInv
  <2>3. attachment[a].deleted => MediumOf[a] \notin atMeta
    BY DEF MediaInv, CleanupIsTrue
  <2>4. /\ Cardinality(Holders(a)') <= Cardinality(Holders(a))
        /\ Cardinality(Holders(a)') \in Nat /\ Cardinality(Holders(a)) \in Nat
        /\ Cardinality(Cleaners) \in Nat
        /\ Holders(a)' # Holders(a) => Cardinality(Holders(a)') + 1 <= Cardinality(Holders(a))
    BY FewerHolders, HolderCount
  <2>5. MaxDeleteAttempts \in Nat
    BY RetentionAssumption DEF RetentionAssumption
  <2>6. attachment'[a].attempts + Cardinality(Holders(a)') <= MaxDeleteAttempts - 1 + Cardinality(Cleaners)
    BY <2>1, <2>2, <2>4, <2>5
  <2>7. QED BY <2>3, <2>6
<1>2. QED BY <1>1 DEF CleanupIsTrue, Holders

LEMMA MediaStep == MediaInv /\ MediaNext => MediaInv'
<1> SUFFICES ASSUME MediaInv, NEW c \in Cleaners,
                    BeginCleanup(c) \/ Mark(c) \/ CleanerDies(c) \/ \E a \in Attachments : Remove(c, a)
             PROVE  MediaInv'
  BY DEF MediaNext
<1>0. cleaner \in [Cleaners -> Cleaner] /\ attachment \in [Attachments -> [deleted : BOOLEAN, attempts : Nat]]
  BY DEF MediaInv, MediaTypeOK, Cleaner
<1>1. CASE BeginCleanup(c)
  <2>1. PICK due \in SUBSET Candidates : cleaner' = [cleaner EXCEPT ![c].todo = due]
    BY <1>1 DEF BeginCleanup
  <2>2. /\ cleaner[c].at = NoAttachment /\ cleaner[c].mark = "none" /\ cleaner[c].todo = {}
        /\ due \subseteq Attachments
    BY <1>1, <2>1 DEF BeginCleanup, Asleep, Candidates
  <2>3. /\ cleaner' \in [Cleaners -> Cleaner]
        /\ cleaner'[c].at = NoAttachment /\ cleaner'[c].mark = "none" /\ cleaner'[c].todo = due
        /\ \A d \in Cleaners \ {c} : cleaner'[d] = cleaner[d]
    BY <1>0, <2>1, <2>2 DEF Cleaner
  <2>4. MediaTypeOK'
    BY <1>1, <2>3 DEF MediaInv, MediaTypeOK, Cleaner, BeginCleanup
  <2>5. ASSUME NEW a \in Attachments
        PROVE  attachment[a].attempts + Cardinality(Holders(a)') <= MaxDeleteAttempts - 1 + Cardinality(Cleaners)
    <3>1. CASE a \in due
      <4>1. attachment[a].attempts < MaxDeleteAttempts /\ attachment[a].attempts \in Nat
        BY <1>0, <3>1 DEF Candidates
      <4>2. Holders(a)' \subseteq Cleaners
        BY DEF Holders
      <4>3. /\ Cardinality(Holders(a)') <= Cardinality(Cleaners)
            /\ Cardinality(Holders(a)') \in Nat /\ Cardinality(Cleaners) \in Nat
        BY <4>2, FS_Subset, FS_CardinalityType, RetentionAssumption DEF RetentionAssumption
      <4>4. QED BY <4>1, <4>3, RetentionAssumption DEF RetentionAssumption
    <3>2. CASE a \notin due
      <4>1. Holders(a)' = Holders(a)
        BY <2>2, <2>3, <3>2, RetentionAssumption DEF Holders, RetentionAssumption
      <4>2. QED BY <4>1, CleanupCounts DEF MediaInv
    <3>3. QED BY <3>1, <3>2
  <2>6. CleanupIsTrue'
    BY <1>1, <2>5 DEF BeginCleanup, MediaInv, CleanupIsTrue, Holders
  <2>7. QED
    BY <1>1, <2>2, <2>3, <2>4, <2>6, RetentionAssumption
       DEF MediaInv, BeginCleanup, Candidates, RetentionAssumption
<1>2. ASSUME NEW a \in Attachments, Remove(c, a) PROVE MediaInv'
  <2>1. PICK mark \in {"deleted", "failed"} :
          /\ cleaner' = [cleaner EXCEPT ![c] = [todo |-> @.todo \ {a}, at |-> a, mark |-> mark]]
          /\ \/ MediumOf[a] \in atMeta /\ atMeta' = atMeta \ {MediumOf[a]}
             \/ mark = "failed" /\ UNCHANGED atMeta
    BY <1>2 DEF Remove
  <2>2. /\ cleaner' \in [Cleaners -> Cleaner]
        /\ cleaner'[c] = [todo |-> cleaner[c].todo \ {a}, at |-> a, mark |-> mark]
        /\ \A d \in Cleaners \ {c} : cleaner'[d] = cleaner[d]
    BY <1>0, <2>1 DEF Cleaner
  <2>3. MediaTypeOK'
    BY <1>2, <2>1, <2>2 DEF MediaInv, MediaTypeOK, Cleaner, Remove
  <2>4. \A b \in Attachments : Holders(b)' = Holders(b)
    BY <1>2, <2>2, RetentionAssumption DEF Remove, Holders, RetentionAssumption
  <2>5. atMeta' \subseteq atMeta /\ UNCHANGED attachment
    BY <1>2, <2>1 DEF Remove
  <2>6. CleanupIsTrue'
    BY <2>3, <2>4, <2>5, CleanupKept
  <2>7. a # NoAttachment
    BY RetentionAssumption DEF RetentionAssumption
  <2>8. QED BY <2>1, <2>2, <2>3, <2>5, <2>6, <2>7 DEF MediaInv
<1>3. CASE CleanerDies(c)
  <2>1. /\ cleaner' \in [Cleaners -> Cleaner] /\ cleaner'[c] = Asleep
        /\ \A d \in Cleaners \ {c} : cleaner'[d] = cleaner[d]
    BY <1>0, <1>3 DEF CleanerDies, Cleaner, Asleep
  <2>2. MediaTypeOK'
    BY <1>3, <2>1 DEF MediaInv, MediaTypeOK, Cleaner, CleanerDies
  <2>3. \A b \in Attachments : Holders(b)' \subseteq Holders(b)
    BY <2>1, RetentionAssumption DEF Holders, Asleep, RetentionAssumption
  <2>4. CleanupIsTrue'
    BY <1>3, <2>2, <2>3, CleanupKept DEF CleanerDies
  <2>5. QED BY <1>3, <2>1, <2>2, <2>4 DEF MediaInv, CleanerDies, Asleep
<1>4. CASE Mark(c)
  <2>0. cleaner[c].at \in Attachments /\ cleaner[c].mark \in {"deleted", "failed"} /\ UNCHANGED atMeta
    BY <1>0, <1>4 DEF Mark, MediaInv, Cleaner
  <2>a. PICK a \in Attachments : a = cleaner[c].at
    BY <2>0
  <2>1. /\ cleaner[c].at = a /\ a # NoAttachment /\ a \notin cleaner[c].todo
        /\ cleaner[c].mark \in {"deleted", "failed"} /\ UNCHANGED atMeta
    BY <2>0, <2>a, RetentionAssumption DEF MediaInv, RetentionAssumption
  <2> DEFINE Done(row) == /\ attachment' = [attachment EXCEPT ![a] = IF @.deleted THEN @ ELSE row]
                          /\ cleaner' = [cleaner EXCEPT ![c].at = NoAttachment, ![c].mark = "none"]
  <2>2. ASSUME NEW row \in [deleted : BOOLEAN, attempts : Nat], Done(row),
               \/ cleaner[c].mark = "deleted" /\ row.deleted /\ row.attempts = attachment[a].attempts
               \/ row.deleted = attachment[a].deleted /\ row.attempts = attachment[a].attempts + 1
        PROVE  MediaInv'
    <3>1. /\ cleaner' \in [Cleaners -> Cleaner] /\ cleaner'[c].todo = cleaner[c].todo
          /\ cleaner'[c].at = NoAttachment /\ cleaner'[c].mark = "none"
          /\ \A d \in Cleaners \ {c} : cleaner'[d] = cleaner[d]
      BY <1>0, <2>2 DEF Cleaner
    <3>2. /\ attachment' \in [Attachments -> [deleted : BOOLEAN, attempts : Nat]]
          /\ attachment'[a] = IF attachment[a].deleted THEN attachment[a] ELSE row
          /\ \A b \in Attachments \ {a} : attachment'[b] = attachment[b]
      BY <1>0, <2>1, <2>2
    <3>3. MediaTypeOK'
      BY <2>1, <3>1, <3>2 DEF MediaInv, MediaTypeOK, Cleaner
    <3>4. \A b \in Attachments : Holders(b)' \subseteq Holders(b)
      BY <3>1, RetentionAssumption DEF Holders, RetentionAssumption
    <3>5. c \in Holders(a) /\ c \notin Holders(a)'
      BY <2>1, <3>1 DEF Holders
    <3>6. CleanupIsTrue'
      <4>1. \A b \in Attachments :
              /\ attachment'[b].deleted => attachment[b].deleted \/ MediumOf[b] \notin atMeta'
              /\ \/ attachment'[b].attempts = attachment[b].attempts
                 \/ /\ attachment'[b].attempts = attachment[b].attempts + 1
                    /\ Holders(b)' # Holders(b)
        BY <2>1, <2>2, <3>2, <3>5 DEF MediaInv
      <4>2. QED BY <2>1, <3>3, <3>4, <4>1, CleanupKept
    <3>7. QED BY ZenonT(60), <2>1, <3>1, <3>3, <3>6, RetentionAssumption DEF MediaInv, MediaTypeOK, RetentionAssumption
  <2>3. ASSUME cleaner' = [cleaner EXCEPT ![c].mark = "failed"], UNCHANGED attachment,
               cleaner[c].mark = "deleted"
        PROVE  MediaInv'
    <3>1. /\ cleaner' \in [Cleaners -> Cleaner] /\ cleaner'[c].todo = cleaner[c].todo
          /\ cleaner'[c].at = a /\ cleaner'[c].mark = "failed"
          /\ \A d \in Cleaners \ {c} : cleaner'[d] = cleaner[d]
      BY <1>0, <2>1, <2>3 DEF Cleaner
    <3>2. MediaTypeOK'
      BY <2>1, <2>3, <3>1 DEF MediaInv, MediaTypeOK, Cleaner
    <3>3. \A b \in Attachments : Holders(b)' = Holders(b)
      BY <2>1, <3>1 DEF Holders
    <3>4. CleanupIsTrue'
      BY <2>1, <2>3, <3>2, <3>3, CleanupKept
    <3>5. QED BY <2>1, <2>3, <3>1, <3>2, <3>4 DEF MediaInv
  <2>4. QED
    <3>0. Mark(c)
      BY <1>4
    <3>1. attachment[a] \in [deleted : BOOLEAN, attempts : Nat]
      BY <1>0, <2>1
    <3> DEFINE gone == [attachment[a] EXCEPT !.deleted = TRUE]
               failed == [attachment[a] EXCEPT !.attempts = @ + 1]
    <3>2. /\ gone \in [deleted : BOOLEAN, attempts : Nat]
          /\ gone.deleted /\ gone.attempts = attachment[a].attempts
          /\ failed \in [deleted : BOOLEAN, attempts : Nat]
          /\ failed.deleted = attachment[a].deleted /\ failed.attempts = attachment[a].attempts + 1
      <4>1. gone \in [deleted : BOOLEAN, attempts : Nat] /\ gone.attempts = attachment[a].attempts
        BY <3>1
      <4>2. gone.deleted = TRUE
        BY <3>1
      <4>3. attachment[a].attempts + 1 \in Nat
        BY <3>1
      <4>4. failed \in [deleted : BOOLEAN, attempts : Nat] /\ failed.deleted = attachment[a].deleted
        BY <3>1, <4>3
      <4>5. failed.attempts = attachment[a].attempts + 1
        BY <3>1
      <4> HIDE DEF gone, failed
      <4>6. QED BY <4>1, <4>2, <4>4, <4>5
    <3> HIDE DEF gone, failed
    <3>3. (cleaner[c].mark = "deleted" /\ Done(gone)) \/ Done(failed) => MediaInv'
      <4> HIDE DEF Done
      <4>1. ASSUME cleaner[c].mark = "deleted", Done(gone) PROVE MediaInv'
        BY <2>2, <3>2, <4>1
      <4>2. ASSUME Done(failed) PROVE MediaInv'
        BY <2>2, <3>2, <4>2
      <4>3. QED BY <4>1, <4>2
    <3>4. CASE cleaner[c].mark = "deleted" /\ cleaner' = [cleaner EXCEPT ![c].mark = "failed"] /\ UNCHANGED attachment
      BY <2>3, <3>4
    <3>5. QED BY <2>1, <3>0, <3>3, <3>4 DEF Mark, gone, failed
<1>5. QED BY <1>1, <1>2, <1>3, <1>4

-----------------------------------------------------------------------------
(***************************************************************************)
(* Workflows: what is past the second look at the number has seen it on,   *)
(* and has the event to itself once the event is bound to the number.      *)
(***************************************************************************)

Execution == [step : Confirmed \cup {"idle", "contact"},
              event : BusinessEvents \cup {NoBusiness}, phone : Phones \cup {NoPhone}]

WorkflowInv ==
  /\ execution \in [Executions -> Execution]
  /\ bound \in [BusinessEvents -> Phones \cup {NoPhone}]
  /\ \A x \in Executions : execution[x].step # "idle" =>
       execution[x].event \in BusinessEvents /\ execution[x].phone \in Phones
  /\ \A x \in Executions : execution[x].step \in {"dispatch", "reserve", "send"} => x \in on
  /\ OnlyWhenOn

LEMMA WorkflowInitInv == WorkflowInit => WorkflowInv
BY DEF WorkflowInit, WorkflowInv, Sends!Init, NotRunning, Execution, Confirmed, OnlyWhenOn

LEMMA ExecutionSteps ==
  ASSUME WorkflowInv, NEW x \in Executions
  PROVE  /\ \A step \in Confirmed :
              Continue(x, step) => /\ execution' \in [Executions -> Execution]
                                   /\ execution'[x].step = step
                                   /\ execution'[x].event = execution[x].event
                                   /\ execution'[x].phone = execution[x].phone
                                   /\ \A y \in Executions \ {x} : execution'[y] = execution[y]
         /\ Respond(x) => /\ execution' \in [Executions -> Execution]
                          /\ execution'[x].step = "idle"
                          /\ \A y \in Executions \ {x} : execution'[y] = execution[y]
<1>1. execution \in [Executions -> Execution]
  BY DEF WorkflowInv
<1>2. ASSUME NEW step \in Confirmed, Continue(x, step)
      PROVE  /\ execution' \in [Executions -> Execution]
             /\ execution'[x].step = step
             /\ execution'[x].event = execution[x].event
             /\ execution'[x].phone = execution[x].phone
             /\ \A y \in Executions \ {x} : execution'[y] = execution[y]
  BY <1>1, <1>2 DEF Continue, Execution
<1>3. ASSUME Respond(x)
      PROVE  /\ execution' \in [Executions -> Execution]
             /\ execution'[x].step = "idle"
             /\ \A y \in Executions \ {x} : execution'[y] = execution[y]
  <2>1. NotRunning \in Execution /\ NotRunning.step = "idle"
    BY DEF NotRunning, Execution
  <2>2. QED BY <1>1, <1>3, <2>1 DEF Respond
<1>4. QED BY <1>2, <1>3

\* Who was seen on stays so while it goes on.
LEMMA StillOn ==
  ASSUME Watch, NEW x \in Executions, x \in on, execution'[x].step \in Confirmed
  PROVE  x \in on'
BY DEF Watch

LEMMA WorkflowRests == WorkflowInv /\ UNCHANGED sendVars /\ Watch => WorkflowInv'
<1> SUFFICES ASSUME WorkflowInv, UNCHANGED sendVars, Watch PROVE WorkflowInv'
  OBVIOUS
<1>1. \A x \in Executions : execution'[x].step \in {"dispatch", "reserve", "send"} => x \in on'
  BY StillOn DEF WorkflowInv, sendVars, Confirmed
<1>2. QED BY <1>1 DEF WorkflowInv, sendVars, OnlyWhenOn

\* A request that goes on, or ends, and leaves what is bound.
LEMMA WorkflowGoesOn ==
  ASSUME WorkflowInv, Watch, NEW x \in Executions, UNCHANGED bound,
         \/ Respond(x) \/ UNCHANGED execution
         \/ execution[x].step = "contact" /\ Continue(x, "resolve")
         \/ execution[x].step = "dispatch" /\ Continue(x, "reserve")
         \/ Continue(x, "dispatch") /\ execution[x].step = "resolve" /\ x \in on'
  PROVE  WorkflowInv'
<1>1. CASE Respond(x)
  BY <1>1, StillOn, ExecutionSteps DEF WorkflowInv, OnlyWhenOn, Confirmed
<1>2. CASE execution[x].step = "contact" /\ Continue(x, "resolve")
  BY <1>2, StillOn, ExecutionSteps DEF WorkflowInv, OnlyWhenOn, Confirmed
<1>3. CASE execution[x].step = "dispatch" /\ Continue(x, "reserve")
  BY <1>3, StillOn, ExecutionSteps DEF WorkflowInv, OnlyWhenOn, Confirmed
<1>4. CASE Continue(x, "dispatch") /\ execution[x].step = "resolve" /\ x \in on'
  BY <1>4, StillOn, ExecutionSteps DEF WorkflowInv, OnlyWhenOn, Confirmed
<1>5. CASE UNCHANGED execution
  BY <1>5, StillOn DEF WorkflowInv, OnlyWhenOn, Confirmed
<1>6. QED BY <1>1, <1>2, <1>3, <1>4, <1>5

LEMMA WorkflowStep == WorkflowInv /\ WorkflowNext /\ Watch => WorkflowInv'
<1> SUFFICES ASSUME WorkflowInv, WorkflowNext, Watch PROVE WorkflowInv'
  OBVIOUS
<1>0. UNCHANGED conn
  BY DEF WorkflowNext, connectionVars
<1>1. ASSUME NEW x \in Executions, NEW e \in BusinessEvents, NEW p \in Phones, BeginAction(x, e, p)
      PROVE  WorkflowInv'
  <2>1. /\ execution' \in [Executions -> Execution]
        /\ execution'[x] = [step |-> "contact", event |-> e, phone |-> p]
        /\ \A y \in Executions \ {x} : execution'[y] = execution[y]
    BY <1>1 DEF BeginAction, WorkflowInv, Execution
  <2>2. QED BY <1>1, <2>1, StillOn DEF WorkflowInv, OnlyWhenOn, BeginAction, Confirmed
<1>2. ASSUME NEW x \in Executions, Validate(x) PROVE WorkflowInv'
  BY <1>2, WorkflowGoesOn DEF Validate
<1>3. ASSUME NEW x \in Executions, ResolveConversation(x) PROVE WorkflowInv'
  <2>1. CASE On(execution[x].phone) /\ Continue(x, "dispatch")
    <3>1. execution'[x].step = "dispatch" /\ execution'[x].phone = execution[x].phone
      BY <2>1, ExecutionSteps DEF Confirmed
    <3>2. x \in on'
      BY <1>0, <2>1, <3>1 DEF Watch, On, Confirmed
    <3>3. QED BY <1>3, <2>1, <3>2, WorkflowGoesOn DEF ResolveConversation
  <2>2. QED BY <1>3, <2>1, WorkflowGoesOn DEF ResolveConversation
<1>4. ASSUME NEW x \in Executions, Dispatch(x) PROVE WorkflowInv'
  BY <1>4, WorkflowGoesOn DEF Dispatch
<1>5. ASSUME NEW x \in Executions, ReserveAction(x) PROVE WorkflowInv'
  <2>1. CASE Sends!Bind(execution[x].event, execution[x].phone) /\ Continue(x, "send")
    <3>1. /\ execution' \in [Executions -> Execution] /\ execution'[x].step = "send"
          /\ execution'[x].event = execution[x].event /\ execution'[x].phone = execution[x].phone
          /\ \A y \in Executions \ {x} : execution'[y] = execution[y]
      BY <2>1, ExecutionSteps DEF Confirmed
    <3>2. /\ execution[x].event \in BusinessEvents /\ execution[x].phone \in Phones
          /\ execution[x].step = "reserve" /\ x \in on
      BY <1>5 DEF ReserveAction, WorkflowInv
    <3>3. /\ bound[execution[x].event] = NoPhone
          /\ bound' \in [BusinessEvents -> Phones \cup {NoPhone}]
          /\ bound'[execution[x].event] = execution[x].phone
          /\ \A e \in BusinessEvents \ {execution[x].event} : bound'[e] = bound[e]
      BY <2>1, <3>2 DEF Sends!Bind, WorkflowInv
    <3>4. \A y \in Executions : execution[y].step = "send" => execution[y].event # execution[x].event
      BY <3>2, <3>3, ConnectionAssumption DEF WorkflowInv, OnlyWhenOn, ConnectionAssumption
    <3>5. \A y \in Executions : execution'[y].step \in {"dispatch", "reserve", "send"} => y \in on'
      BY <3>1, <3>2, StillOn DEF WorkflowInv, Confirmed
    <3>6. OnlyWhenOn'
      BY <3>1, <3>2, <3>3, <3>4, <3>5 DEF WorkflowInv, OnlyWhenOn
    <3>7. QED BY <3>1, <3>2, <3>3, <3>5, <3>6 DEF WorkflowInv
  <2>2. CASE Respond(x) /\ UNCHANGED bound
    BY <2>2, WorkflowGoesOn
  <2>3. QED BY <1>5, <2>1, <2>2 DEF ReserveAction, Sends!Store
<1>6. ASSUME NEW x \in Executions, SendAction(x) PROVE WorkflowInv'
  BY <1>6, WorkflowGoesOn DEF SendAction, Sends!Call, Sends!Fail, Sends!Store
<1>7. ASSUME NEW x \in Executions, ExecutionDies(x) PROVE WorkflowInv'
  BY <1>7, WorkflowGoesOn DEF ExecutionDies
<1>8. QED BY <1>1, <1>2, <1>3, <1>4, <1>5, <1>6, <1>7 DEF WorkflowNext

-----------------------------------------------------------------------------
(***************************************************************************)
(* The theorems.                                                           *)
(***************************************************************************)

TogetherInv == BothInv /\ TemplateInv /\ MediaInv /\ WorkflowInv

LEMMA TogetherInitInv == TogetherInit => TogetherInv
BY BothInit, TemplateInitInv, MediaInitInv, WorkflowInitInv DEF TogetherInit, TogetherInv

\* Nothing of a sync but its own step changes what it keeps; so with the cleaners.
LEMMA TemplatesRest == TemplateInv /\ UNCHANGED templateVars => TemplateInv'
BY DEF TemplateInv, templateVars, TemplateTypeOK, CatalogueIsExact

LEMMA MediaRests == MediaInv /\ UNCHANGED mediaVars => MediaInv'
BY DEF MediaInv, mediaVars, MediaTypeOK, CleanupIsTrue

LEMMA TogetherStep == TogetherInv /\ [TogetherNext]_allVars => TogetherInv'
<1> SUFFICES ASSUME TogetherInv, [TogetherNext]_allVars PROVE TogetherInv'
  OBVIOUS
<1>1. BothInv'
  BY BothStep DEF TogetherInv
<1>2. TemplateInv'
  <2>1. TemplateNext \/ UNCHANGED templateVars
    BY DEF TogetherNext, allVars
  <2>2. QED BY <2>1, TemplateStep, TemplatesRest DEF TogetherInv
<1>3. MediaInv'
  <2>1. MediaNext \/ UNCHANGED mediaVars
    BY DEF TogetherNext, allVars
  <2>2. QED BY <2>1, MediaStep, MediaRests DEF TogetherInv
<1>4. WorkflowInv'
  <2>1. CASE UNCHANGED allVars
    BY <2>1 DEF allVars, workflowVars, TogetherInv, WorkflowInv, OnlyWhenOn
  <2>2. CASE Watch /\ UNCHANGED sendVars
    BY <2>2, WorkflowRests DEF TogetherInv
  <2>3. CASE Watch /\ WorkflowNext
    BY <2>3, WorkflowStep DEF TogetherInv
  <2>4. QED BY <2>1, <2>2, <2>3 DEF TogetherNext
<1>5. QED BY <1>1, <1>2, <1>3, <1>4 DEF TogetherInv

\* What holds while everything that meets in the connections of a workspace runs at once.
THEOREM TogetherInvariant == TogetherSpec => []TogetherInv
<1>1. QED BY TogetherInitInv, TogetherStep, PTL DEF TogetherSpec

\* A sync that nothing disturbed leaves Meta's catalogue (metaTemplateSyncRepository.js:85-121).
THEOREM CatalogueStaysExact == TogetherSpec => []CatalogueIsExact
<1>1. TogetherInv => CatalogueIsExact
  BY DEF TogetherInv, TemplateInv
<1>2. QED BY <1>1, TogetherInvariant, PTL

\* A signup succeeds at most once, never after it was cancelled, and with a number
\* (metaSignupOrchestrator.js:13-27, metaSignupStateRepository.js:13-33).
THEOREM SignupSucceedsOnce == TogetherSpec => []SucceedsOnce
<1>1. TogetherInv => SucceedsOnce
  BY DEF TogetherInv, BothInv, SignupInv, SucceedsOnce
<1>2. QED BY <1>1, TogetherInvariant, PTL

\* A medium marked as deleted is gone, and attempts end (metaMediaRepository.js:24-55).
THEOREM CleanupStaysTrue == TogetherSpec => []CleanupIsTrue
<1>1. TogetherInv => CleanupIsTrue
  BY DEF TogetherInv, MediaInv
<1>2. QED BY <1>1, TogetherInvariant, PTL

\* A workflow sends only from a number that was on, and alone (ghlWorkflowActions.js:42-73).
THEOREM WorkflowSendsWhenOn == TogetherSpec => []OnlyWhenOn
<1>1. TogetherInv => OnlyWhenOn
  BY DEF TogetherInv, WorkflowInv
<1>2. QED BY <1>1, TogetherInvariant, PTL

-----------------------------------------------------------------------------
\* Outside the workflows' part nothing of theirs has begun.
Quiet == focus # "workflow" => on = {} /\ execution = [x \in Executions |-> NotRunning]

LEMMA ConnectivityIsLifecycle ==
  ASSUME NEW phones \in SUBSET Phones, Connectivity(phones)
  PROVE  Lifecycle
BY DEF Connectivity, Lifecycle

LEMMA QuietStep == Quiet /\ [Next]_mcVars => Quiet'
BY DEF Quiet, Next, mcVars, workflowVars

LEMMA QuietWatch ==
  ASSUME Quiet, focus # "workflow", UNCHANGED workflowVars
  PROVE  Watch
BY DEF Quiet, Watch, workflowVars, NotRunning, Confirmed

\* Each part that TLC runs is a part of all that runs together (MCMetaConnection.tla), so
\* that what is proved of the whole holds in every run.
THEOREM PartsOfTheWhole == Spec => TogetherSpec
<1>1. Init => TogetherInit /\ Quiet
  BY DEF Init, TogetherInit, WorkflowInit, Quiet
<1>2. ASSUME Quiet, [Next]_mcVars PROVE [TogetherNext]_allVars
  <2>0. {p1} \subseteq Phones /\ p1 \in Phones /\ p2 \in Phones
    BY PhonesAssumption DEF PhonesAssumption
  <2>1. CASE UNCHANGED mcVars
    BY <2>1 DEF mcVars, allVars
  <2>2. CASE Next /\ focus = "workflow"
    <3>1. CASE WorkflowNext /\ Watch /\ UNCHANGED <<templateVars, jobVars, signupVars, mediaVars>>
      BY <3>1 DEF TogetherNext
    <3>2. CASE /\ Connectivity(Phones) \/ Enabling
               /\ UNCHANGED <<execution, bound, calls, outcome>> /\ Watch
               /\ UNCHANGED <<templateVars, jobVars, signupVars, mediaVars>>
      BY <3>2, ConnectivityIsLifecycle DEF TogetherNext, sendVars, Lifecycle, Enabling
    <3>3. QED BY <2>2, <3>1, <3>2 DEF Next
  <2>3. CASE Next /\ focus # "workflow"
    <3>1. Watch /\ UNCHANGED workflowVars
      BY <1>2, <2>3, QuietWatch DEF Next
    <3>2. Connectivity({p1}) \/ Disconnect(p1) \/ ConnectCredentials(p2) => Lifecycle
      BY <2>0, ConnectivityIsLifecycle DEF Lifecycle
    <3>3. QED BY <2>3, <3>1, <3>2 DEF Next, TogetherNext, workflowVars, sendVars
  <2>4. QED BY <1>2, <2>1, <2>2, <2>3
<1>3. QED BY <1>1, <1>2, QuietStep, PTL DEF Spec, TogetherSpec

\* So every property of the run holds for any phones, requests, workers, cleaners and limits.
THEOREM EveryRun ==
  Spec => /\ [](OffMeansOff /\ CatalogueIsExact /\ SucceedsOnce /\ CleanupIsTrue /\ OnlyWhenOn)
          /\ AsksByIntent
<1>1. QED
  BY PartsOfTheWhole, TogetherKeepsJobs, JobsKeepLifecycle, OffStaysOff, JobsAskByIntent,
     CatalogueStaysExact, SignupSucceedsOnce, CleanupStaysTrue, WorkflowSendsWhenOn, PTL
=============================================================================
