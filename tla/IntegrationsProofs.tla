-------------------------- MODULE IntegrationsProofs --------------------------
(***************************************************************************)
(* Proofs about the integrations, for any processes, messages, events and  *)
(* limits.  The components of MCIntegrations share no row: to each, the    *)
(* others are stutters, so that what is proved of its own specification    *)
(* holds in every part of the run.  Each has its inductive invariant here: *)
(* message sync, workflow triggers, GHL's tokens, OpenWA, the CRM          *)
(* connectors, the store of the workspaces, and GHL's installations; the   *)
(* parser of uploads has its own in MediaMultipartProofs.                  *)
(***************************************************************************)
EXTENDS MediaMultipartProofs, FiniteSetTheorems

-----------------------------------------------------------------------------
(***************************************************************************)
(* Message sync: what must not happen twice is said in a row before it may *)
(* happen, and whoever has said it is alone with it.                       *)
(***************************************************************************)

SyncSteps == {"idle", "contact", "media", "folder", "upload", "intent", "import"}
Run == [message : Messages \cup {NoMessage}, step : SyncSteps, cut : BOOLEAN]

\* Process p is past its first look at message m.
Syncs(p, m) == run[p].message = m /\ run[p].step # "idle"
Uncut(p, m) == Syncs(p, m) /\ ~run[p].cut

SyncTypes ==
  /\ Sync!TypeOK
  /\ \A p \in Processes : run[p].step # "idle" => run[p].message \in Messages
  /\ \A p \in Processes : run[p].step \in {"media", "folder", "upload"} => MediaOf[run[p].message] # NoMedia

\* A session that is not broken has the conversation, and the media while it works on them.
SyncLocked ==
  \A p \in Processes : run[p].step # "idle" /\ ~run[p].cut =>
    /\ lock[ConversationOf[run[p].message]] = p
    /\ run[p].step \in {"folder", "upload"} => mediaLock = p

\* What a row may say of a message that has been imported.
MaySync == {"importing", "synced", "blocked", "uncertain"}

\* The row of a message says preparing until its import may be posted.
Intended ==
  /\ \A p \in Processes : run[p].step \notin {"idle", "import"} /\ ~run[p].cut =>
       intent[run[p].message] = "preparing"
  /\ \A p \in Processes : run[p].step = "import" =>
       /\ imported[run[p].message] = 0
       /\ intent[run[p].message] \in (IF run[p].cut THEN {"importing", "uncertain"} ELSE {"importing"})
  /\ \A p, q \in Processes : run[p].step = "import" /\ run[q].step = "import"
                             /\ run[p].message = run[q].message => p = q
  /\ \A m \in Messages : imported[m] # 0 => intent[m] \in MaySync

\* So with the medium, and with the folder.
Archived ==
  /\ \A p \in Processes : run[p].step = "upload" =>
       archive[MediaOf[run[p].message]] = "uploading" /\ uploaded[MediaOf[run[p].message]] = 0
  /\ \A p, q \in Processes : run[p].step = "upload" /\ run[q].step = "upload"
                             /\ MediaOf[run[p].message] = MediaOf[run[q].message] => p = q
  /\ \A f \in Sync!Media : /\ uploaded[f] # 0 => archive[f] # "none"
                           /\ archive[f] \in {"ready", "expired"} => uploaded[f] = 1

Foldered ==
  /\ \A p \in Processes : run[p].step = "folder" => folder = "creating" /\ folders = 0
  /\ \A p \in Processes : run[p].step = "folder" /\ ~run[p].cut =>
       archive[MediaOf[run[p].message]] = "none"
  /\ \A p, q \in Processes : run[p].step = "folder" /\ run[q].step = "folder" => p = q
  /\ folders # 0 => folder # "none"
  /\ folder = "ready" => folders = 1

SyncInv == SyncTypes /\ SyncLocked /\ Intended /\ Archived /\ Foldered /\ Sync!ImportedOnce

LEMMA SyncInit == Sync!Init => SyncInv
<1> SUFFICES ASSUME Sync!Init PROVE SyncInv
  OBVIOUS
<1>1. SyncTypes
  BY DEF Sync!Init, SyncTypes, Sync!TypeOK, Sync!Idle, Sync!Conversations
<1>2. SyncLocked /\ Intended /\ Archived /\ Foldered /\ Sync!ImportedOnce
  BY DEF Sync!Init, SyncLocked, Intended, Archived, Foldered, Sync!ImportedOnce, Sync!Idle
<1>3. QED BY <1>1, <1>2 DEF SyncInv

\* A process that has not lost its session is alone with its message.
LEMMA AloneWithMessage ==
  ASSUME SyncInv, NEW p \in Processes, run[p].step # "idle", ~run[p].cut,
         NEW q \in Processes, q # p, run[q].step # "idle", ~run[q].cut \/ run[q].step = "import"
  PROVE  run[q].message # run[p].message
<1>1. CASE ~run[q].cut
  BY <1>1 DEF SyncInv, SyncLocked
<1>2. CASE run[q].step = "import" /\ run[q].cut
  <2>1. SUFFICES ASSUME run[q].message = run[p].message PROVE FALSE
    OBVIOUS
  <2>2. intent[run[p].message] \in {"importing", "uncertain"}
    BY <1>2, <2>1 DEF SyncInv, Intended
  <2>3. run[p].step = "import"
    BY <2>2 DEF SyncInv, Intended
  <2>4. QED BY <1>2, <2>1, <2>3 DEF SyncInv, Intended
<1>3. QED BY <1>1, <1>2

SyncStates == {"none", "preparing", "importing", "retry"} \cup Sync!Final

\* The end of a run, with what is known of the import.
LEMMA EndKeeps ==
  ASSUME SyncInv, NEW p \in Processes, run[p].step # "idle", ~run[p].cut,
         NEW s \in Sync!Final \cup {"retry"}, Sync!End(p, s),
         imported' \in [Messages -> Nat],
         \A m \in Messages : m # run[p].message => imported'[m] = imported[m],
         imported'[run[p].message] <= 1, s = "synced" => imported'[run[p].message] = 1,
         s \in {"retry", "existing"} => imported'[run[p].message] = 0
  PROVE  /\ run' = [run EXCEPT ![p] = Sync!Idle]
         /\ intent' \in [Messages -> SyncStates]
         /\ lock' \in [Sync!Conversations -> Processes \cup {NoOne}] /\ mediaLock' \in Processes \cup {NoOne}
         /\ SyncLocked' /\ Intended'
         /\ \A m \in Messages : imported'[m] <= 1 /\ (intent'[m] = "synced" => imported'[m] = 1)
<1> DEFINE m0 == run[p].message
<1>1. m0 \in Messages /\ intent \in [Messages -> SyncStates] /\ ConversationOf[m0] \in Sync!Conversations
  BY DEF SyncInv, SyncTypes, Sync!TypeOK, Sync!Conversations, SyncStates
<1>2. /\ intent' = [intent EXCEPT ![m0] = s]
      /\ run' = [run EXCEPT ![p] = Sync!Idle]
      /\ lock' = [c \in Sync!Conversations |-> IF lock[c] = p THEN NoOne ELSE lock[c]]
      /\ mediaLock' = IF mediaLock = p THEN NoOne ELSE mediaLock
  BY DEF Sync!End, Sync!Unlocked, Sync!m_
<1>3. \A q \in Processes : run'[q] = IF q = p THEN Sync!Idle ELSE run[q]
  BY <1>2 DEF SyncInv, SyncTypes, Sync!TypeOK
<1>4. intent' \in [Messages -> SyncStates] /\ intent'[m0] = s /\ \A m \in Messages : m # m0 => intent'[m] = intent[m]
  BY <1>1, <1>2 DEF SyncStates
<1>5. /\ lock' \in [Sync!Conversations -> Processes \cup {NoOne}]
      /\ mediaLock' \in Processes \cup {NoOne}
  BY <1>2 DEF SyncInv, SyncTypes, Sync!TypeOK
<1>6. SyncLocked'
  <2>1. SUFFICES ASSUME NEW q \in Processes, q # p, run[q].step # "idle", ~run[q].cut
                 PROVE  /\ lock'[ConversationOf[run[q].message]] = q
                        /\ run[q].step \in {"folder", "upload"} => mediaLock' = q
    BY <1>3 DEF SyncLocked, Sync!Idle
  <2>2. ConversationOf[run[q].message] \in Sync!Conversations
    BY <2>1 DEF SyncInv, SyncTypes, Sync!Conversations
  <2>3. QED BY <1>2, <2>1, <2>2 DEF SyncInv, SyncLocked
<1>7. ASSUME NEW q \in Processes, run'[q].step # "idle"
      PROVE  q # p /\ run'[q] = run[q] /\ run[q].message \in Messages
  BY <1>3, <1>7 DEF Sync!Idle, SyncInv, SyncTypes
<1>8. ASSUME NEW q \in Processes, run'[q].step # "idle", ~run[q].cut \/ run[q].step = "import"
      PROVE  intent'[run[q].message] = intent[run[q].message] /\ imported'[run[q].message] = imported[run[q].message]
  BY <1>4, <1>7, <1>8, AloneWithMessage
<1>9. Intended'
  <2>1. ASSUME NEW q \in Processes, run'[q].step \notin {"idle", "import"}, ~run'[q].cut
        PROVE  intent'[run'[q].message] = "preparing"
    BY <1>7, <1>8, <2>1 DEF SyncInv, Intended
  <2>2. ASSUME NEW q \in Processes, run'[q].step = "import"
        PROVE  /\ imported'[run'[q].message] = 0
               /\ intent'[run'[q].message] \in (IF run'[q].cut THEN {"importing", "uncertain"} ELSE {"importing"})
    BY <1>7, <1>8, <2>2 DEF SyncInv, Intended
  <2>3. \A q, r \in Processes : run'[q].step = "import" /\ run'[r].step = "import"
                                  /\ run'[q].message = run'[r].message => q = r
    BY <1>7 DEF SyncInv, Intended
  <2>4. \A m \in Messages : imported'[m] # 0 => intent'[m] \in MaySync
    BY <1>4 DEF SyncInv, Intended, MaySync, Sync!Final
  <2>5. QED BY <2>1, <2>2, <2>3, <2>4 DEF Intended
<1>10. \A m \in Messages : imported'[m] <= 1 /\ (intent'[m] = "synced" => imported'[m] = 1)
  BY <1>4 DEF SyncInv, Sync!ImportedOnce
<1>11. QED BY <1>2, <1>4, <1>5, <1>6, <1>9, <1>10

\* No message moves, but on, or out of its run.
LEMMA MessagesKept ==
  ASSUME SyncInv, UNCHANGED <<intent, imported>>,
         \A q \in Processes : run'[q].step # "idle" =>
           /\ run[q].step # "idle" /\ run'[q].message = run[q].message
           /\ run'[q].step = "import" <=> run[q].step = "import"
           /\ run[q].cut => run'[q].cut
  PROVE  /\ Intended'
         /\ \A m \in Messages : imported'[m] <= 1 /\ (intent'[m] = "synced" => imported'[m] = 1)
<1>1. ASSUME NEW q \in Processes, run'[q].step \notin {"idle", "import"}, ~run'[q].cut
      PROVE  intent'[run'[q].message] = "preparing"
  BY <1>1 DEF SyncInv, Intended
<1>2. ASSUME NEW q \in Processes, run'[q].step = "import"
      PROVE  /\ imported'[run'[q].message] = 0
             /\ intent'[run'[q].message] \in (IF run'[q].cut THEN {"importing", "uncertain"} ELSE {"importing"})
  BY <1>2 DEF SyncInv, Intended
<1>3. \A q, r \in Processes : run'[q].step = "import" /\ run'[r].step = "import"
                                /\ run'[q].message = run'[r].message => q = r
  BY DEF SyncInv, Intended
<1>4. \A m \in Messages : imported'[m] # 0 => intent'[m] \in MaySync
  BY DEF SyncInv, Intended, MaySync
<1>5. QED BY <1>1, <1>2, <1>3, <1>4 DEF Intended, SyncInv, Sync!ImportedOnce

\* No medium and no folder moves, but out of its run.
LEMMA MediaKept ==
  ASSUME SyncInv, UNCHANGED <<archive, folder, uploaded, folders>>,
         \A q \in Processes : run'[q].step \in {"folder", "upload"} =>
           /\ run'[q].step = run[q].step /\ run'[q].message = run[q].message
           /\ run[q].cut => run'[q].cut
  PROVE  Archived' /\ Foldered' /\ (\A f \in Sync!Media : uploaded'[f] <= 1) /\ folders' <= 1
<1>1. Archived'
  BY DEF SyncInv, Archived
<1>2. Foldered'
  BY DEF SyncInv, Foldered
<1>3. QED BY <1>1, <1>2 DEF SyncInv, Sync!ImportedOnce

\* What a run has in hand.
LEMMA SyncInHand ==
  ASSUME SyncInv, NEW p \in Processes, run[p].step # "idle"
  PROVE  /\ run[p] \in Run /\ run[p].message \in Messages
         /\ intent[run[p].message] \in SyncStates /\ imported[run[p].message] \in 0..1
         /\ ConversationOf[run[p].message] \in Sync!Conversations
         /\ run[p].step \notin {"idle", "import"} /\ ~run[p].cut => imported[run[p].message] = 0
         /\ MediaOf[run[p].message] # NoMedia =>
              /\ MediaOf[run[p].message] \in Sync!Media
              /\ uploaded[MediaOf[run[p].message]] \in 0..1
<1>1. run[p] \in Run /\ run[p].message \in Messages
  BY DEF SyncInv, SyncTypes, Sync!TypeOK, Run, SyncSteps
<1>2. /\ intent[run[p].message] \in SyncStates /\ imported[run[p].message] \in 0..1
      /\ ConversationOf[run[p].message] \in Sync!Conversations
  <2>1. intent \in [Messages -> SyncStates] /\ imported \in [Messages -> Nat]
    BY DEF SyncInv, SyncTypes, Sync!TypeOK, SyncStates
  <2>2. imported[run[p].message] <= 1
    BY <1>1 DEF SyncInv, Sync!ImportedOnce
  <2>3. QED BY <1>1, <2>1, <2>2 DEF Sync!Conversations
<1>3. run[p].step \notin {"idle", "import"} /\ ~run[p].cut => imported[run[p].message] = 0
  BY <1>1 DEF SyncInv, Intended, Sync!Final, MaySync
<1>4. MediaOf[run[p].message] # NoMedia =>
        /\ MediaOf[run[p].message] \in Sync!Media
        /\ uploaded[MediaOf[run[p].message]] \in 0..1
  <2>1. SUFFICES ASSUME MediaOf[run[p].message] # NoMedia
                 PROVE  /\ MediaOf[run[p].message] \in Sync!Media
                        /\ uploaded[MediaOf[run[p].message]] \in 0..1
    OBVIOUS
  <2>2. MediaOf[run[p].message] \in Sync!Media
    BY <1>1, <2>1 DEF Sync!Media
  <2>3. uploaded[MediaOf[run[p].message]] \in Nat /\ uploaded[MediaOf[run[p].message]] <= 1
    BY <2>2 DEF SyncInv, SyncTypes, Sync!TypeOK, Sync!ImportedOnce
  <2>4. QED BY <2>2, <2>3
<1>5. QED BY <1>1, <1>2, <1>3, <1>4

\* The types of a step that moves at most one run.
LEMMA SyncTyped ==
  ASSUME SyncInv, NEW p \in Processes, NEW r \in Run, run' = [run EXCEPT ![p] = r],
         r.step # "idle" => r.message \in Messages,
         r.step \in {"media", "folder", "upload"} => MediaOf[r.message] # NoMedia
  PROVE  /\ run' \in [Processes -> Run]
         /\ \A q \in Processes : run'[q].step # "idle" => run'[q].message \in Messages
         /\ \A q \in Processes : run'[q].step \in {"media", "folder", "upload"} => MediaOf[run'[q].message] # NoMedia
         /\ \A q \in Processes : run'[q] = IF q = p THEN r ELSE run[q]
<1>1. run \in [Processes -> Run]
  BY DEF SyncInv, SyncTypes, Sync!TypeOK, Run, SyncSteps
<1>2. \A q \in Processes : run'[q] = IF q = p THEN r ELSE run[q]
  BY <1>1
<1>3. run' \in [Processes -> Run]
  BY <1>1
<1>4. QED BY <1>2, <1>3 DEF SyncInv, SyncTypes

LEMMA SyncIdle == Sync!Idle \in Run /\ Sync!Idle.step = "idle"
BY DEF Sync!Idle, Run, SyncSteps

\* The end of a run that has not imported its message.
LEMMA EndKeepsMessages ==
  ASSUME SyncInv, NEW p \in Processes, run[p].step \notin {"idle", "import"}, ~run[p].cut,
         NEW s \in {"existing", "blocked", "retry", "uncertain"}, Sync!End(p, s), imported' = imported
  PROVE  /\ intent' \in [Messages -> SyncStates] /\ imported' \in [Messages -> Nat]
         /\ lock' \in [Sync!Conversations -> Processes \cup {NoOne}] /\ mediaLock' \in Processes \cup {NoOne}
         /\ run' \in [Processes -> Run]
         /\ \A q \in Processes : run'[q].step # "idle" => run'[q].message \in Messages
         /\ \A q \in Processes : run'[q].step \in {"media", "folder", "upload"} => MediaOf[run'[q].message] # NoMedia
         /\ \A q \in Processes : run'[q] = IF q = p THEN Sync!Idle ELSE run[q]
         /\ SyncLocked' /\ Intended'
         /\ \A m \in Messages : imported'[m] <= 1 /\ (intent'[m] = "synced" => imported'[m] = 1)
<1>1. imported[run[p].message] = 0 /\ run[p].message \in Messages
  BY SyncInHand
<1>2. s \in Sync!Final \cup {"retry"} /\ s # "synced"
  BY DEF Sync!Final
<1>3. imported' \in [Messages -> Nat] /\ imported' = imported
  BY DEF SyncInv, SyncTypes, Sync!TypeOK
<1>4. /\ run' = [run EXCEPT ![p] = Sync!Idle]
      /\ intent' \in [Messages -> SyncStates]
      /\ lock' \in [Sync!Conversations -> Processes \cup {NoOne}] /\ mediaLock' \in Processes \cup {NoOne}
      /\ SyncLocked' /\ Intended'
      /\ \A m \in Messages : imported'[m] <= 1 /\ (intent'[m] = "synced" => imported'[m] = 1)
  BY <1>1, <1>2, <1>3, EndKeeps
<1>5. /\ run' \in [Processes -> Run]
      /\ \A q \in Processes : run'[q].step # "idle" => run'[q].message \in Messages
      /\ \A q \in Processes : run'[q].step \in {"media", "folder", "upload"} => MediaOf[run'[q].message] # NoMedia
      /\ \A q \in Processes : run'[q] = IF q = p THEN Sync!Idle ELSE run[q]
  BY <1>4, SyncIdle, SyncTyped
<1>6. QED BY <1>3, <1>4, <1>5

\* The ends of the runs that have asked GHL for nothing.
LEMMA EndKeepsSync ==
  ASSUME SyncInv, NEW p \in Processes, run[p].step \notin {"idle", "import"}, ~run[p].cut,
         NEW s \in {"existing", "blocked", "retry", "uncertain"}, Sync!End(p, s),
         linked' = linked, UNCHANGED <<archive, folder, imported, uploaded, folders>>
  PROVE  SyncInv'
<1>1. /\ intent' \in [Messages -> SyncStates] /\ imported' \in [Messages -> Nat]
      /\ lock' \in [Sync!Conversations -> Processes \cup {NoOne}] /\ mediaLock' \in Processes \cup {NoOne}
      /\ run' \in [Processes -> Run]
      /\ \A q \in Processes : run'[q].step # "idle" => run'[q].message \in Messages
      /\ \A q \in Processes : run'[q].step \in {"media", "folder", "upload"} => MediaOf[run'[q].message] # NoMedia
      /\ \A q \in Processes : run'[q] = IF q = p THEN Sync!Idle ELSE run[q]
      /\ SyncLocked' /\ Intended'
      /\ \A m \in Messages : imported'[m] <= 1 /\ (intent'[m] = "synced" => imported'[m] = 1)
  BY EndKeepsMessages
<1>2. Archived' /\ Foldered' /\ (\A f \in Sync!Media : uploaded'[f] <= 1) /\ folders' <= 1
  BY <1>1, SyncIdle, MediaKept
<1>3. Sync!TypeOK'
  BY <1>1 DEF SyncInv, SyncTypes, Sync!TypeOK, Run, SyncSteps, SyncStates
<1>4. QED BY <1>1, <1>2, <1>3 DEF SyncInv, SyncTypes, Sync!ImportedOnce

\* A step of a run, as a record.
LEMMA ToStep ==
  ASSUME SyncInv, NEW p \in Processes, NEW step \in SyncSteps, Sync!To(p, step)
  PROVE  \E r \in Run : /\ run' = [run EXCEPT ![p] = r]
                        /\ r.step = step /\ r.message = run[p].message /\ r.cut = run[p].cut
<1> DEFINE r == [run[p] EXCEPT !.step = step]
<1>1. run[p] \in Run
  BY DEF SyncInv, SyncTypes, Sync!TypeOK, Run, SyncSteps
<1>2. r \in Run /\ r.step = step /\ r.message = run[p].message /\ r.cut = run[p].cut
  BY <1>1 DEF Run
<1>3. run' = [run EXCEPT ![p] = r]
  BY DEF Sync!To
<1> HIDE DEF r
<1>4. QED BY <1>2, <1>3

\* A conversation is taken from nobody, and a row that may have been imported is not taken up.
LEMMA BeginKeepsSync ==
  ASSUME SyncInv, NEW p \in Processes, NEW m \in Messages, Sync!Begin(p, m)
  PROVE  SyncInv'
<1> DEFINE c == ConversationOf[m]
<1>1. /\ run[p] = Sync!Idle /\ lock[c] = NoOne
      /\ intent' = [intent EXCEPT ![m] = Sync!Taken(intent[m])]
      /\ UNCHANGED <<archive, folder, linked, mediaLock, imported, uploaded, folders>>
  BY DEF Sync!Begin, Sync!ghl
<1>2. c \in Sync!Conversations /\ intent \in [Messages -> SyncStates]
  BY DEF Sync!Conversations, SyncInv, SyncTypes, Sync!TypeOK, SyncStates
<1>3. /\ Sync!Taken(intent[m]) \in SyncStates
      /\ Sync!Taken(intent[m]) # "synced" \/ intent[m] = "synced"
      /\ intent[m] \in MaySync => Sync!Taken(intent[m]) \in MaySync
      /\ Sync!Taken(intent[m]) \in Sync!Final \cup {"preparing"}
      /\ intent[m] = "importing" => Sync!Taken(intent[m]) = "uncertain"
      /\ intent[m] = "uncertain" => Sync!Taken(intent[m]) = "uncertain"
      /\ intent[m] = "preparing" => Sync!Taken(intent[m]) = "preparing"
  BY <1>2 DEF Sync!Taken, Sync!Final, SyncStates, MaySync
<1>4. /\ intent' \in [Messages -> SyncStates] /\ intent'[m] = Sync!Taken(intent[m])
      /\ \A n \in Messages : n # m => intent'[n] = intent[n]
  BY <1>1, <1>2, <1>3
<1>5. \A q \in Processes : run[q].step # "idle" /\ ~run[q].cut => q # p /\ ConversationOf[run[q].message] # c
  BY <1>1, IntegrationsAssumption DEF SyncInv, SyncLocked, Sync!Idle
<1>6. PICK r \in Run : /\ run' = [run EXCEPT ![p] = r]
                       /\ r = Sync!Idle \/ (r.step = "contact" /\ r.message = m /\ ~r.cut)
                       /\ r.step # "idle" => Sync!Taken(intent[m]) = "preparing" /\ lock' = [lock EXCEPT ![c] = p]
                       /\ r = Sync!Idle => lock' = lock
  <2>1. CASE Sync!Taken(intent[m]) = "preparing"
    <3>1. /\ run' = [run EXCEPT ![p] = [message |-> m, step |-> "contact", cut |-> FALSE]]
          /\ lock' = [lock EXCEPT ![c] = p]
      BY <2>1 DEF Sync!Begin
    <3>2. [message |-> m, step |-> "contact", cut |-> FALSE] \in Run /\ [message |-> m, step |-> "contact", cut |-> FALSE] # Sync!Idle
      BY DEF Run, SyncSteps, Sync!Idle
    <3>3. QED BY <2>1, <3>1, <3>2
  <2>2. CASE Sync!Taken(intent[m]) # "preparing"
    <3>1. UNCHANGED <<run, lock>>
      BY <2>2 DEF Sync!Begin
    <3>2. run \in [Processes -> Run]
      BY DEF SyncInv, SyncTypes, Sync!TypeOK, Run, SyncSteps
    <3>3. run' = [run EXCEPT ![p] = Sync!Idle]
      BY <1>1, <3>1, <3>2
    <3>4. QED BY <3>1, <3>3, SyncIdle
  <2>3. QED BY <2>1, <2>2
<1>7. r.step \notin {"media", "folder", "upload", "import"} /\ (r.step # "idle" => r.message = m)
  BY <1>6, SyncIdle
<1>8. /\ run' \in [Processes -> Run]
      /\ \A q \in Processes : run'[q].step # "idle" => run'[q].message \in Messages
      /\ \A q \in Processes : run'[q].step \in {"media", "folder", "upload"} => MediaOf[run'[q].message] # NoMedia
      /\ \A q \in Processes : run'[q] = IF q = p THEN r ELSE run[q]
  BY <1>6, <1>7, SyncTyped
<1>9. lock' \in [Sync!Conversations -> Processes \cup {NoOne}]
      /\ (r.step # "idle" => lock'[c] = p) /\ \A d \in Sync!Conversations : d # c => lock'[d] = lock[d]
  BY <1>2, <1>6, SyncIdle DEF SyncInv, SyncTypes, Sync!TypeOK
<1>10. Sync!TypeOK'
  BY <1>1, <1>4, <1>8, <1>9 DEF SyncInv, SyncTypes, Sync!TypeOK, Run, SyncSteps, SyncStates
<1>11. SyncLocked'
  <2>1. SUFFICES ASSUME NEW q \in Processes, run'[q].step # "idle", ~run'[q].cut
                 PROVE  /\ lock'[ConversationOf[run'[q].message]] = q
                        /\ run'[q].step \in {"folder", "upload"} => mediaLock' = q
    BY DEF SyncLocked
  <2>2. CASE q = p
    BY <1>7, <1>8, <1>9, <2>1, <2>2
  <2>3. CASE q # p
    <3>1. run'[q] = run[q] /\ ConversationOf[run[q].message] # c /\ ConversationOf[run[q].message] \in Sync!Conversations
      BY <1>5, <1>8, <2>1, <2>3 DEF Sync!Conversations
    <3>2. QED BY <1>1, <1>9, <2>1, <3>1 DEF SyncInv, SyncLocked
  <2>4. QED BY <2>2, <2>3
<1>12. Intended'
  <2>1. ASSUME NEW q \in Processes, run'[q].step \notin {"idle", "import"}, ~run'[q].cut
        PROVE  intent'[run'[q].message] = "preparing"
    <3>1. CASE q = p
      BY <1>4, <1>6, <1>8, <2>1, <3>1, SyncIdle
    <3>2. CASE q # p
      BY <1>4, <1>5, <1>8, <2>1, <3>2 DEF SyncInv, Intended
    <3>3. QED BY <3>1, <3>2
  <2>2. ASSUME NEW q \in Processes, run'[q].step = "import"
        PROVE  /\ imported'[run'[q].message] = 0
               /\ intent'[run'[q].message] \in (IF run'[q].cut THEN {"importing", "uncertain"} ELSE {"importing"})
    <3>1. q # p /\ run'[q] = run[q]
      BY <1>7, <1>8, <2>2
    <3>2. imported'[run'[q].message] = 0
      BY <1>1, <2>2, <3>1 DEF SyncInv, Intended
    <3>3. run[q].message \in Messages
      BY <2>2, <3>1 DEF SyncInv, SyncTypes
    <3>4. CASE run[q].cut
      <4>1. intent[run[q].message] \in {"importing", "uncertain"}
        BY <2>2, <3>1, <3>4 DEF SyncInv, Intended
      <4>2. intent'[run[q].message] \in {"importing", "uncertain"}
        BY <1>3, <1>4, <3>3, <4>1
      <4>3. QED BY <3>1, <3>2, <3>4, <4>2
    <3>5. CASE ~run[q].cut
      <4>1. intent[run[q].message] = "importing"
        BY <2>2, <3>1, <3>5 DEF SyncInv, Intended
      <4>2. run[q].message # m
        BY <1>5, <2>2, <3>1, <3>5
      <4>3. intent'[run[q].message] = "importing"
        BY <1>4, <3>3, <4>1, <4>2
      <4>4. QED BY <3>1, <3>2, <3>5, <4>3
    <3>6. QED BY <3>4, <3>5
  <2>3. \A q, t \in Processes : run'[q].step = "import" /\ run'[t].step = "import"
                                  /\ run'[q].message = run'[t].message => q = t
    BY <1>7, <1>8 DEF SyncInv, Intended
  <2>4. \A n \in Messages : imported'[n] # 0 => intent'[n] \in MaySync
    BY <1>1, <1>3, <1>4 DEF SyncInv, Intended, MaySync
  <2>5. QED BY <2>1, <2>2, <2>3, <2>4 DEF Intended
<1>13. Archived' /\ Foldered' /\ (\A f \in Sync!Media : uploaded'[f] <= 1) /\ folders' <= 1
  BY <1>1, <1>7, <1>8, MediaKept
<1>14. \A n \in Messages : imported'[n] <= 1 /\ (intent'[n] = "synced" => imported'[n] = 1)
  BY <1>1, <1>3, <1>4 DEF SyncInv, Sync!ImportedOnce
<1>15. QED BY <1>8, <1>10, <1>11, <1>12, <1>13, <1>14 DEF SyncInv, SyncTypes, Sync!ImportedOnce

\* A run goes on before its import: its message stays its own.
LEMMA StepKeeps ==
  ASSUME SyncInv, NEW p \in Processes, run[p].step \notin {"idle", "import"}, ~run[p].cut,
         NEW step \in SyncSteps \ {"idle", "import"}, Sync!To(p, step),
         UNCHANGED <<intent, lock, imported>>,
         step \in {"media", "folder", "upload"} => MediaOf[run[p].message] # NoMedia,
         mediaLock' \in Processes \cup {NoOne}, step \in {"folder", "upload"} => mediaLock' = p,
         mediaLock' = mediaLock \/ mediaLock \in {p, NoOne}
  PROVE  /\ run' \in [Processes -> Run]
         /\ \A q \in Processes : run'[q].step # "idle" => run'[q].message \in Messages
         /\ \A q \in Processes : run'[q].step \in {"media", "folder", "upload"} => MediaOf[run'[q].message] # NoMedia
         /\ \A q \in Processes : q # p => run'[q] = run[q]
         /\ run'[p].step = step /\ run'[p].message = run[p].message /\ run'[p].cut = run[p].cut
         /\ SyncLocked' /\ Intended'
         /\ \A m \in Messages : imported'[m] <= 1 /\ (intent'[m] = "synced" => imported'[m] = 1)
<1>1. PICK r \in Run : /\ run' = [run EXCEPT ![p] = r]
                       /\ r.step = step /\ r.message = run[p].message /\ r.cut = run[p].cut
  BY ToStep
<1>2. /\ run' \in [Processes -> Run]
      /\ \A q \in Processes : run'[q].step # "idle" => run'[q].message \in Messages
      /\ \A q \in Processes : run'[q].step \in {"media", "folder", "upload"} => MediaOf[run'[q].message] # NoMedia
      /\ \A q \in Processes : run'[q] = IF q = p THEN r ELSE run[q]
  BY <1>1, SyncInHand, SyncTyped
<1>3. SyncLocked'
  <2>1. SUFFICES ASSUME NEW q \in Processes, run'[q].step # "idle", ~run'[q].cut
                 PROVE  /\ lock'[ConversationOf[run'[q].message]] = q
                        /\ run'[q].step \in {"folder", "upload"} => mediaLock' = q
    BY DEF SyncLocked
  <2>2. CASE q = p
    BY <1>1, <1>2, <2>1, <2>2 DEF SyncInv, SyncLocked
  <2>3. CASE q # p
    BY <1>2, <2>1, <2>3, IntegrationsAssumption DEF SyncInv, SyncLocked
  <2>4. QED BY <2>2, <2>3
<1>4. /\ Intended'
      /\ \A m \in Messages : imported'[m] <= 1 /\ (intent'[m] = "synced" => imported'[m] = 1)
  <2>1. \A q \in Processes : run'[q].step # "idle" =>
          /\ run[q].step # "idle" /\ run'[q].message = run[q].message
          /\ run'[q].step = "import" <=> run[q].step = "import"
          /\ run[q].cut => run'[q].cut
    BY <1>1, <1>2
  <2>2. QED BY <2>1, MessagesKept
<1>5. QED BY <1>1, <1>2, <1>3, <1>4

\* The contact, and the medium's download, write rows nothing else depends on.
LEMMA ContactKeepsSync ==
  ASSUME SyncInv, NEW p \in Processes, Sync!Contact(p) \/ Sync!Download(p) \/ Sync!Contentless(p)
  PROVE  SyncInv'
<1>1. CASE \E s \in {"existing", "blocked", "retry"} : Sync!End(p, s) /\ linked' = linked
                  /\ run[p].step \notin {"idle", "import"} /\ ~run[p].cut
                  /\ UNCHANGED <<archive, folder, imported, uploaded, folders>>
  BY <1>1, EndKeepsSync
<1>2. CASE /\ Sync!At(p, "contact") /\ linked' = linked \cup {ConversationOf[run[p].message]}
           /\ Sync!To(p, IF MediaOf[run[p].message] = NoMedia THEN "intent" ELSE "media")
           /\ UNCHANGED <<intent, lock, mediaLock, archive, folder, imported, uploaded, folders>>
  <2>1. run[p].step = "contact" /\ ~run[p].cut
    BY <1>2 DEF Sync!At
  <2> DEFINE step == IF MediaOf[run[p].message] = NoMedia THEN "intent" ELSE "media"
  <2>2. /\ step \in SyncSteps \ {"idle", "import"} /\ step \notin {"folder", "upload"}
        /\ step = "media" => MediaOf[run[p].message] # NoMedia
    BY DEF SyncSteps
  <2>3. mediaLock' \in Processes \cup {NoOne}
    BY <1>2 DEF SyncInv, SyncTypes, Sync!TypeOK
  <2>4. Sync!To(p, step)
    BY <1>2
  <2> HIDE DEF step
  <2>5. /\ run' \in [Processes -> Run]
        /\ \A q \in Processes : run'[q].step # "idle" => run'[q].message \in Messages
        /\ \A q \in Processes : run'[q].step \in {"media", "folder", "upload"} => MediaOf[run'[q].message] # NoMedia
        /\ \A q \in Processes : q # p => run'[q] = run[q]
        /\ run'[p].step = step /\ run'[p].message = run[p].message /\ run'[p].cut = run[p].cut
        /\ SyncLocked' /\ Intended'
        /\ \A m \in Messages : imported'[m] <= 1 /\ (intent'[m] = "synced" => imported'[m] = 1)
    BY <1>2, <2>1, <2>2, <2>3, <2>4, StepKeeps
  <2>6. Archived' /\ Foldered' /\ (\A f \in Sync!Media : uploaded'[f] <= 1) /\ folders' <= 1
    BY <1>2, <2>2, <2>5, MediaKept
  <2>7. Sync!TypeOK'
    <3>1. ConversationOf[run[p].message] \in Sync!Conversations
      BY <2>1, SyncInHand
    <3>2. QED BY <1>2, <2>5, <3>1 DEF SyncInv, SyncTypes, Sync!TypeOK, Run, SyncSteps
  <2>8. QED BY <2>5, <2>6, <2>7 DEF SyncInv, SyncTypes, Sync!ImportedOnce
<1>3. QED
  BY <1>1, <1>2 DEF Sync!Contact, Sync!Download, Sync!Contentless, Sync!At, Sync!locks, Sync!ghl, Sync!m_

\* Nobody else works on the media of the location.
LEMMA AloneWithMedia ==
  ASSUME SyncInv, NEW p \in Processes, mediaLock \in {p, NoOne}, NEW q \in Processes, q # p,
         run[q].step \in {"folder", "upload"}
  PROVE  run[q].cut
BY IntegrationsAssumption DEF SyncInv, SyncLocked

\* A folder is created, and a medium uploaded, after a row says so; either row is written by
\* the one that has the lock, and read under it.
LEMMA ArchiveKeepsSync ==
  ASSUME SyncInv, NEW p \in Processes, Sync!Archive(p)
  PROVE  SyncInv'
<1> DEFINE f == MediaOf[run[p].message]
<1>1. run[p].step = "media" /\ ~run[p].cut /\ mediaLock = NoOne /\ UNCHANGED <<imported, uploaded, folders>>
  BY DEF Sync!Archive, Sync!At, Sync!ghl
<1>2. f \in Sync!Media /\ run[p].message \in Messages /\ archive \in [Sync!Media -> {"none", "uploading", "ready", "uncertain", "expired"}]
  BY <1>1, SyncInHand DEF SyncInv, SyncTypes, Sync!TypeOK
<1>3. CASE Sync!End(p, "blocked") /\ UNCHANGED <<archive, folder, linked>>
  BY <1>1, <1>3, EndKeepsSync
<1>4. ASSUME NEW step \in {"intent", "folder", "upload"}, Sync!To(p, step), UNCHANGED <<intent, linked, lock>>,
             mediaLock' = IF step = "intent" THEN mediaLock ELSE p,
             step = "intent" => UNCHANGED <<archive, folder>>,
             step = "folder" => archive[f] = "none" /\ folder = "none" /\ folder' = "creating" /\ archive' = archive,
             step = "upload" => archive[f] = "none" /\ folder = "ready" /\ folder' = folder
                                /\ archive' = [archive EXCEPT ![f] = "uploading"]
      PROVE  SyncInv'
  <2>1. mediaLock' \in Processes \cup {NoOne}
    BY <1>4 DEF SyncInv, SyncTypes, Sync!TypeOK
  <2>2. /\ run' \in [Processes -> Run]
        /\ \A q \in Processes : run'[q].step # "idle" => run'[q].message \in Messages
        /\ \A q \in Processes : run'[q].step \in {"media", "folder", "upload"} => MediaOf[run'[q].message] # NoMedia
        /\ \A q \in Processes : q # p => run'[q] = run[q]
        /\ run'[p].step = step /\ run'[p].message = run[p].message /\ run'[p].cut = run[p].cut
        /\ SyncLocked' /\ Intended'
        /\ \A m \in Messages : imported'[m] <= 1 /\ (intent'[m] = "synced" => imported'[m] = 1)
    <3>1. step \in SyncSteps \ {"idle", "import"} /\ f # NoMedia
      BY <1>2 DEF SyncSteps, Sync!Media
    <3>2. QED BY <1>1, <1>4, <2>1, <3>1, StepKeeps
  <2>3. Sync!TypeOK'
    BY <1>1, <1>2, <1>4, <2>1, <2>2 DEF SyncInv, SyncTypes, Sync!TypeOK, Run, SyncSteps
  <2>4. /\ uploaded[f] \in Nat /\ (uploaded[f] # 0 => archive[f] # "none")
        /\ folders \in Nat /\ (folders # 0 => folder # "none") /\ (folder = "ready" => folders = 1)
    BY <1>2 DEF SyncInv, SyncTypes, Sync!TypeOK, Archived, Foldered
  <2>5. CASE step = "intent"
    <3>1. Archived' /\ Foldered' /\ (\A g \in Sync!Media : uploaded'[g] <= 1) /\ folders' <= 1
      BY <1>1, <1>4, <2>2, <2>5, MediaKept
    <3>2. QED BY <2>2, <2>3, <3>1 DEF SyncInv, SyncTypes, Sync!ImportedOnce
  <2>6. CASE step = "folder"
    <3>1. Archived'
      BY <1>1, <1>4, <2>2, <2>6 DEF SyncInv, Archived
    <3>2. \A q \in Processes : run[q].step # "folder"
      BY <1>4, <2>6 DEF SyncInv, Foldered
    <3>3. Foldered'
      BY <1>1, <1>4, <2>2, <2>4, <2>6, <3>2 DEF Foldered
    <3>4. QED BY <1>1, <2>2, <2>3, <3>1, <3>3 DEF SyncInv, SyncTypes, Sync!ImportedOnce
  <2>7. CASE step = "upload"
    <3>1. \A g \in Sync!Media : archive'[g] = IF g = f THEN "uploading" ELSE archive[g]
      BY <1>2, <1>4, <2>7
    <3>2. \A q \in Processes : run[q].step = "upload" => MediaOf[run[q].message] # f
      BY <1>4, <2>7 DEF SyncInv, Archived
    <3>3. \A q \in Processes : run[q].step = "upload" => MediaOf[run[q].message] \in Sync!Media
      BY SyncInHand DEF SyncInv, SyncTypes
    <3>4. Archived'
      <4>1. ASSUME NEW q \in Processes, run'[q].step = "upload"
            PROVE  archive'[MediaOf[run'[q].message]] = "uploading" /\ uploaded'[MediaOf[run'[q].message]] = 0
        <5>1. CASE q = p
          BY <1>1, <1>2, <1>4, <2>2, <2>4, <2>7, <3>1, <5>1
        <5>2. CASE q # p
          BY <1>1, <2>2, <3>1, <3>2, <3>3, <4>1, <5>2 DEF SyncInv, Archived
        <5>3. QED BY <5>1, <5>2
      <4>2. \A q, t \in Processes : run'[q].step = "upload" /\ run'[t].step = "upload"
                  /\ MediaOf[run'[q].message] = MediaOf[run'[t].message] => q = t
        BY <2>2, <3>2 DEF SyncInv, Archived
      <4>3. \A g \in Sync!Media : /\ uploaded'[g] # 0 => archive'[g] # "none"
                                  /\ archive'[g] \in {"ready", "expired"} => uploaded'[g] = 1
        BY <1>1, <3>1 DEF SyncInv, Archived
      <4>4. QED BY <4>1, <4>2, <4>3 DEF Archived
    <3>5. \A q \in Processes : run[q].step # "folder"
      BY <1>4, <2>7 DEF SyncInv, Foldered
    <3>6. Foldered'
      BY <1>1, <1>4, <2>2, <2>4, <2>7, <3>5 DEF Foldered
    <3>7. QED BY <1>1, <2>2, <2>3, <3>4, <3>6 DEF SyncInv, SyncTypes, Sync!ImportedOnce
  <2>8. QED BY <2>5, <2>6, <2>7
<1>5. QED
  <2>1. CASE archive[f] = "ready" /\ Sync!To(p, "intent") /\ UNCHANGED <<Sync!rows, Sync!locks>>
    BY <1>4, <2>1 DEF Sync!rows, Sync!locks
  <2>2. CASE Sync!End(p, "blocked") /\ UNCHANGED <<archive, folder, linked>>
    BY <1>3, <2>2
  <2>3. CASE /\ archive[f] = "none" /\ folder = "none"
             /\ folder' = "creating" /\ mediaLock' = p /\ Sync!To(p, "folder")
             /\ UNCHANGED <<intent, archive, linked, lock>>
    BY <1>4, <2>3
  <2>4. CASE /\ archive[f] = "none" /\ folder = "ready"
             /\ archive' = [archive EXCEPT ![f] = "uploading"] /\ mediaLock' = p /\ Sync!To(p, "upload")
             /\ UNCHANGED <<intent, folder, linked, lock>>
    BY <1>4, <2>4
  <2>5. QED BY <2>1, <2>2, <2>3, <2>4 DEF Sync!Archive, Sync!m_

LEMMA FolderKeepsSync ==
  ASSUME SyncInv, NEW p \in Processes, Sync!CreateFolder(p)
  PROVE  SyncInv'
<1> DEFINE f == MediaOf[run[p].message]
<1>1. run[p].step = "folder" /\ ~run[p].cut /\ UNCHANGED <<linked, imported, uploaded>>
  BY DEF Sync!CreateFolder, Sync!At
<1>2. /\ f \in Sync!Media /\ folder = "creating" /\ folders = 0 /\ archive[f] = "none" /\ mediaLock = p
      /\ uploaded[f] = 0 /\ archive \in [Sync!Media -> {"none", "uploading", "ready", "uncertain", "expired"}]
      /\ uploaded \in [Sync!Media -> Nat]
  BY <1>1, SyncInHand DEF SyncInv, SyncTypes, Sync!TypeOK, Foldered, SyncLocked, Archived
<1>3. \A q \in Processes : q # p => run[q].step # "folder"
  BY <1>1 DEF SyncInv, Foldered
<1>4. ASSUME NEW s \in {"blocked", "retry", "uncertain"}, Sync!End(p, s), archive' = archive,
             folder' \in {"none", "uncertain"}, folders' \in 0..1, folders' = 1 => folder' = "uncertain"
      PROVE  SyncInv'
  <2>1. /\ intent' \in [Messages -> SyncStates] /\ imported' \in [Messages -> Nat]
        /\ lock' \in [Sync!Conversations -> Processes \cup {NoOne}] /\ mediaLock' \in Processes \cup {NoOne}
        /\ run' \in [Processes -> Run]
        /\ \A q \in Processes : run'[q].step # "idle" => run'[q].message \in Messages
        /\ \A q \in Processes : run'[q].step \in {"media", "folder", "upload"} => MediaOf[run'[q].message] # NoMedia
        /\ \A q \in Processes : run'[q] = IF q = p THEN Sync!Idle ELSE run[q]
        /\ SyncLocked' /\ Intended'
        /\ \A m \in Messages : imported'[m] <= 1 /\ (intent'[m] = "synced" => imported'[m] = 1)
    BY <1>1, <1>4, EndKeepsMessages
  <2>2. Archived'
    BY <1>1, <1>4, <2>1, SyncIdle DEF SyncInv, Archived
  <2>3. \A q \in Processes : run'[q].step # "folder"
    BY <1>3, <2>1, SyncIdle
  <2>4. Foldered'
    BY <1>4, <2>3 DEF Foldered
  <2>5. Sync!TypeOK'
    BY <1>1, <1>2, <1>4, <2>1 DEF SyncInv, SyncTypes, Sync!TypeOK, Run, SyncSteps, SyncStates
  <2>6. (\A g \in Sync!Media : uploaded'[g] <= 1) /\ folders' <= 1
    BY <1>1, <1>4 DEF SyncInv, Sync!ImportedOnce
  <2>7. QED BY <2>1, <2>2, <2>4, <2>5, <2>6 DEF SyncInv, SyncTypes, Sync!ImportedOnce
<1>5. ASSUME Sync!To(p, "upload"), UNCHANGED <<intent, lock, mediaLock>>, folders' = folders + 1,
             folder' = "ready", archive' = [archive EXCEPT ![f] = "uploading"]
      PROVE  SyncInv'
  <2>1. mediaLock' \in Processes \cup {NoOne} /\ mediaLock' = p /\ "upload" \in SyncSteps \ {"idle", "import"} /\ f # NoMedia
    BY <1>2, <1>5 DEF SyncSteps, Sync!Media
  <2>2. /\ run' \in [Processes -> Run]
        /\ \A q \in Processes : run'[q].step # "idle" => run'[q].message \in Messages
        /\ \A q \in Processes : run'[q].step \in {"media", "folder", "upload"} => MediaOf[run'[q].message] # NoMedia
        /\ \A q \in Processes : q # p => run'[q] = run[q]
        /\ run'[p].step = "upload" /\ run'[p].message = run[p].message /\ run'[p].cut = run[p].cut
        /\ SyncLocked' /\ Intended'
        /\ \A m \in Messages : imported'[m] <= 1 /\ (intent'[m] = "synced" => imported'[m] = 1)
    BY <1>1, <1>5, <2>1, StepKeeps
  <2>3. \A g \in Sync!Media : archive'[g] = IF g = f THEN "uploading" ELSE archive[g]
    BY <1>2, <1>5
  <2>4. \A q \in Processes : run[q].step = "upload" => MediaOf[run[q].message] # f /\ MediaOf[run[q].message] \in Sync!Media
    BY <1>2, SyncInHand DEF SyncInv, Archived, SyncTypes
  <2>5. Archived'
    <3>1. ASSUME NEW q \in Processes, run'[q].step = "upload"
          PROVE  archive'[MediaOf[run'[q].message]] = "uploading" /\ uploaded'[MediaOf[run'[q].message]] = 0
      <4>1. CASE q = p
        BY <1>1, <1>2, <2>2, <2>3, <4>1
      <4>2. CASE q # p
        BY <1>1, <2>2, <2>3, <2>4, <3>1, <4>2 DEF SyncInv, Archived
      <4>3. QED BY <4>1, <4>2
    <3>2. \A q, t \in Processes : run'[q].step = "upload" /\ run'[t].step = "upload"
                /\ MediaOf[run'[q].message] = MediaOf[run'[t].message] => q = t
      BY <2>2, <2>4 DEF SyncInv, Archived
    <3>3. \A g \in Sync!Media : /\ uploaded'[g] # 0 => archive'[g] # "none"
                                /\ archive'[g] \in {"ready", "expired"} => uploaded'[g] = 1
      BY <1>1, <2>3 DEF SyncInv, Archived
    <3>4. QED BY <3>1, <3>2, <3>3 DEF Archived
  <2>6. \A q \in Processes : run'[q].step # "folder"
    BY <1>3, <2>2
  <2>7. Foldered'
    BY <1>2, <1>5, <2>6 DEF Foldered
  <2>8. Sync!TypeOK'
    BY <1>1, <1>2, <1>5, <2>1, <2>2 DEF SyncInv, SyncTypes, Sync!TypeOK, Run, SyncSteps
  <2>9. (\A g \in Sync!Media : uploaded'[g] <= 1) /\ folders' <= 1
    BY <1>1, <1>2, <1>5 DEF SyncInv, Sync!ImportedOnce
  <2>10. QED BY <2>2, <2>5, <2>7, <2>8, <2>9 DEF SyncInv, SyncTypes, Sync!ImportedOnce
<1>6. QED
  <2>1. CASE /\ folders' = folders + 1 /\ folder' = "ready" /\ archive' = [archive EXCEPT ![f] = "uploading"]
             /\ Sync!To(p, "upload") /\ UNCHANGED <<intent, Sync!locks>>
    BY <1>5, <2>1 DEF Sync!locks
  <2>2. CASE /\ folders' = folders + 1 /\ folder' = "uncertain" /\ archive' = archive
             /\ \E s \in {"blocked", "uncertain"} : Sync!End(p, s)
    BY <1>2, <1>4, <2>2
  <2>3. CASE /\ UNCHANGED <<folders, archive>> /\ folder' = "none" /\ \E s \in {"blocked", "retry"} : Sync!End(p, s)
    BY <1>2, <1>4, <2>3
  <2>4. CASE UNCHANGED <<folders, archive>> /\ folder' = "uncertain" /\ Sync!End(p, "uncertain")
    BY <1>2, <1>4, <2>4
  <2>5. QED BY <2>1, <2>2, <2>3, <2>4 DEF Sync!CreateFolder, Sync!m_

LEMMA UploadKeepsSync ==
  ASSUME SyncInv, NEW p \in Processes, Sync!Upload(p)
  PROVE  SyncInv'
<1> DEFINE f == MediaOf[run[p].message]
<1>1. run[p].step = "upload" /\ ~run[p].cut /\ UNCHANGED <<folder, linked, imported, folders>>
  BY DEF Sync!Upload, Sync!At
<1>2. /\ f \in Sync!Media /\ archive[f] = "uploading" /\ mediaLock = p
      /\ uploaded[f] = 0 /\ archive \in [Sync!Media -> {"none", "uploading", "ready", "uncertain", "expired"}]
      /\ uploaded \in [Sync!Media -> Nat]
  BY <1>1, SyncInHand DEF SyncInv, SyncTypes, Sync!TypeOK, SyncLocked, Archived
<1>3. \A q \in Processes : q # p /\ run[q].step = "upload" =>
        MediaOf[run[q].message] # f /\ MediaOf[run[q].message] \in Sync!Media
  BY <1>1, SyncInHand DEF SyncInv, Archived, SyncTypes
<1>4. \A q \in Processes : q # p /\ run[q].step = "folder" => run[q].cut
  BY <1>2, AloneWithMedia
<1>5. ASSUME NEW a \in {"none", "uncertain", "ready"}, archive' = [archive EXCEPT ![f] = a],
             NEW n \in 0..1, uploaded' = [uploaded EXCEPT ![f] = n], n = 1 => a # "none", a = "ready" => n = 1,
             \A q \in Processes : q # p => run'[q] = run[q],
             run'[p].step \notin {"folder", "upload"}
      PROVE  /\ archive' \in [Sync!Media -> {"none", "uploading", "ready", "uncertain", "expired"}]
             /\ uploaded' \in [Sync!Media -> Nat]
             /\ Archived' /\ Foldered' /\ (\A g \in Sync!Media : uploaded'[g] <= 1) /\ folders' <= 1
  <2>1. \A g \in Sync!Media : /\ archive'[g] = IF g = f THEN a ELSE archive[g]
                              /\ uploaded'[g] = IF g = f THEN n ELSE uploaded[g]
    BY <1>2, <1>5
  <2>2. Archived'
    <3>1. ASSUME NEW q \in Processes, run'[q].step = "upload"
          PROVE  archive'[MediaOf[run'[q].message]] = "uploading" /\ uploaded'[MediaOf[run'[q].message]] = 0
      BY <1>3, <1>5, <2>1, <3>1 DEF SyncInv, Archived
    <3>2. \A q, t \in Processes : run'[q].step = "upload" /\ run'[t].step = "upload"
                /\ MediaOf[run'[q].message] = MediaOf[run'[t].message] => q = t
      BY <1>5 DEF SyncInv, Archived
    <3>3. \A g \in Sync!Media : /\ uploaded'[g] # 0 => archive'[g] # "none"
                                /\ archive'[g] \in {"ready", "expired"} => uploaded'[g] = 1
      BY <1>5, <2>1 DEF SyncInv, Archived
    <3>4. QED BY <3>1, <3>2, <3>3 DEF Archived
  <2>3. Foldered'
    BY <1>1, <1>4, <1>5 DEF SyncInv, Foldered
  <2>4. archive' \in [Sync!Media -> {"none", "uploading", "ready", "uncertain", "expired"}] /\ uploaded' \in [Sync!Media -> Nat]
    BY <1>2, <1>5
  <2>5. (\A g \in Sync!Media : uploaded'[g] <= 1) /\ folders' <= 1
    BY <1>1, <2>1 DEF SyncInv, Sync!ImportedOnce
  <2>6. QED BY <2>2, <2>3, <2>4, <2>5
<1>6. ASSUME NEW s \in {"blocked", "retry", "uncertain"}, Sync!End(p, s),
             NEW a \in {"none", "uncertain"}, archive' = [archive EXCEPT ![f] = a],
             NEW n \in 0..1, uploaded' = [uploaded EXCEPT ![f] = n], n = 1 => a # "none"
      PROVE  SyncInv'
  <2>1. /\ intent' \in [Messages -> SyncStates] /\ imported' \in [Messages -> Nat]
        /\ lock' \in [Sync!Conversations -> Processes \cup {NoOne}] /\ mediaLock' \in Processes \cup {NoOne}
        /\ run' \in [Processes -> Run]
        /\ \A q \in Processes : run'[q].step # "idle" => run'[q].message \in Messages
        /\ \A q \in Processes : run'[q].step \in {"media", "folder", "upload"} => MediaOf[run'[q].message] # NoMedia
        /\ \A q \in Processes : run'[q] = IF q = p THEN Sync!Idle ELSE run[q]
        /\ SyncLocked' /\ Intended'
        /\ \A m \in Messages : imported'[m] <= 1 /\ (intent'[m] = "synced" => imported'[m] = 1)
    BY <1>1, <1>6, EndKeepsMessages
  <2>2. /\ archive' \in [Sync!Media -> {"none", "uploading", "ready", "uncertain", "expired"}]
        /\ uploaded' \in [Sync!Media -> Nat]
        /\ Archived' /\ Foldered' /\ (\A g \in Sync!Media : uploaded'[g] <= 1) /\ folders' <= 1
    BY <1>5, <1>6, <2>1, SyncIdle
  <2>3. Sync!TypeOK'
    BY <1>1, <2>1, <2>2 DEF SyncInv, SyncTypes, Sync!TypeOK, Run, SyncSteps, SyncStates
  <2>4. QED BY <2>1, <2>2, <2>3 DEF SyncInv, SyncTypes, Sync!ImportedOnce
<1>7. ASSUME Sync!To(p, "intent"), UNCHANGED <<intent, lock>>, mediaLock' = NoOne,
             archive' = [archive EXCEPT ![f] = "ready"], uploaded' = [uploaded EXCEPT ![f] = 1]
      PROVE  SyncInv'
  <2>1. "intent" \in SyncSteps \ {"idle", "import"} /\ NoOne \in Processes \cup {NoOne}
    BY DEF SyncSteps
  <2>2. /\ run' \in [Processes -> Run]
        /\ \A q \in Processes : run'[q].step # "idle" => run'[q].message \in Messages
        /\ \A q \in Processes : run'[q].step \in {"media", "folder", "upload"} => MediaOf[run'[q].message] # NoMedia
        /\ \A q \in Processes : q # p => run'[q] = run[q]
        /\ run'[p].step = "intent" /\ run'[p].message = run[p].message /\ run'[p].cut = run[p].cut
        /\ SyncLocked' /\ Intended'
        /\ \A m \in Messages : imported'[m] <= 1 /\ (intent'[m] = "synced" => imported'[m] = 1)
    BY <1>1, <1>2, <1>7, <2>1, StepKeeps
  <2>3. /\ archive' \in [Sync!Media -> {"none", "uploading", "ready", "uncertain", "expired"}]
        /\ uploaded' \in [Sync!Media -> Nat]
        /\ Archived' /\ Foldered' /\ (\A g \in Sync!Media : uploaded'[g] <= 1) /\ folders' <= 1
    BY <1>5, <1>7, <2>2
  <2>4. Sync!TypeOK'
    BY <1>1, <1>7, <2>2, <2>3 DEF SyncInv, SyncTypes, Sync!TypeOK, Run, SyncSteps
  <2>5. QED BY <2>2, <2>3, <2>4 DEF SyncInv, SyncTypes, Sync!ImportedOnce
<1>8. uploaded' = [uploaded EXCEPT ![f] = @ + 1] => uploaded' = [uploaded EXCEPT ![f] = 1]
  BY <1>2
<1>9. uploaded' = uploaded => uploaded' = [uploaded EXCEPT ![f] = 0]
  BY <1>2
<1>10. QED
  <2>1. CASE /\ uploaded' = [uploaded EXCEPT ![f] = @ + 1] /\ archive' = [archive EXCEPT ![f] = "ready"]
             /\ Sync!To(p, "intent") /\ mediaLock' = NoOne /\ UNCHANGED <<intent, lock>>
    BY <1>7, <1>8, <2>1
  <2>2. CASE /\ uploaded' = [uploaded EXCEPT ![f] = @ + 1] /\ archive' = [archive EXCEPT ![f] = "uncertain"]
             /\ \E s \in {"blocked", "uncertain"} : Sync!End(p, s)
    BY <1>6, <1>8, <2>2
  <2>3. CASE uploaded' = uploaded /\ archive' = [archive EXCEPT ![f] = "none"] /\ \E s \in {"blocked", "retry"} : Sync!End(p, s)
    BY <1>6, <1>9, <2>3
  <2>4. CASE uploaded' = uploaded /\ archive' = [archive EXCEPT ![f] = "uncertain"] /\ Sync!End(p, "uncertain")
    BY <1>6, <1>9, <2>4
  <2>5. QED BY <2>1, <2>2, <2>3, <2>4 DEF Sync!Upload, Sync!m_

\* The intent is committed by the one that is alone with the message.
LEMMA IntendKeepsSync ==
  ASSUME SyncInv, NEW p \in Processes, Sync!Intend(p)
  PROVE  SyncInv'
<1> DEFINE m0 == run[p].message
<1>1. /\ run[p].step = "intent" /\ ~run[p].cut /\ intent' = [intent EXCEPT ![m0] = "importing"]
      /\ UNCHANGED <<archive, folder, linked, lock, mediaLock, imported, uploaded, folders>>
  BY DEF Sync!Intend, Sync!At, Sync!m_, Sync!locks, Sync!ghl
<1>2. m0 \in Messages /\ imported[m0] = 0 /\ intent \in [Messages -> SyncStates]
  BY <1>1, SyncInHand DEF SyncInv, SyncTypes, Sync!TypeOK, SyncStates
<1>3. /\ intent' \in [Messages -> SyncStates] /\ intent'[m0] = "importing"
      /\ \A n \in Messages : n # m0 => intent'[n] = intent[n]
  BY <1>1, <1>2 DEF SyncStates
<1>4. PICK r \in Run : /\ run' = [run EXCEPT ![p] = r]
                       /\ r.step = "import" /\ r.message = m0 /\ r.cut = run[p].cut
  BY ToStep DEF Sync!Intend, SyncSteps
<1>5. /\ run' \in [Processes -> Run]
      /\ \A q \in Processes : run'[q].step # "idle" => run'[q].message \in Messages
      /\ \A q \in Processes : run'[q].step \in {"media", "folder", "upload"} => MediaOf[run'[q].message] # NoMedia
      /\ \A q \in Processes : run'[q] = IF q = p THEN r ELSE run[q]
  BY <1>2, <1>4, SyncTyped
<1>6. \A q \in Processes : q # p /\ run[q].step # "idle" /\ (~run[q].cut \/ run[q].step = "import") => run[q].message # m0
  BY <1>1, AloneWithMessage
<1>7. SyncLocked'
  BY <1>1, <1>4, <1>5 DEF SyncInv, SyncLocked
<1>8. Intended'
  <2>1. ASSUME NEW q \in Processes, run'[q].step \notin {"idle", "import"}, ~run'[q].cut
        PROVE  intent'[run'[q].message] = "preparing"
    BY <1>3, <1>4, <1>5, <1>6, <2>1 DEF SyncInv, Intended
  <2>2. ASSUME NEW q \in Processes, run'[q].step = "import"
        PROVE  /\ imported'[run'[q].message] = 0
               /\ intent'[run'[q].message] \in (IF run'[q].cut THEN {"importing", "uncertain"} ELSE {"importing"})
    <3>1. CASE q = p
      BY <1>1, <1>2, <1>3, <1>4, <1>5, <3>1
    <3>2. CASE q # p
      BY <1>1, <1>3, <1>5, <1>6, <2>2, <3>2 DEF SyncInv, Intended
    <3>3. QED BY <3>1, <3>2
  <2>3. \A q, t \in Processes : run'[q].step = "import" /\ run'[t].step = "import"
                                  /\ run'[q].message = run'[t].message => q = t
    BY <1>4, <1>5, <1>6 DEF SyncInv, Intended
  <2>4. \A n \in Messages : imported'[n] # 0 => intent'[n] \in MaySync
    BY <1>1, <1>3 DEF SyncInv, Intended, MaySync
  <2>5. QED BY <2>1, <2>2, <2>3, <2>4 DEF Intended
<1>9. Archived' /\ Foldered' /\ (\A f \in Sync!Media : uploaded'[f] <= 1) /\ folders' <= 1
  BY <1>1, <1>4, <1>5, MediaKept
<1>10. \A n \in Messages : imported'[n] <= 1 /\ (intent'[n] = "synced" => imported'[n] = 1)
  BY <1>1, <1>3 DEF SyncInv, Sync!ImportedOnce
<1>11. Sync!TypeOK'
  BY <1>1, <1>3, <1>5 DEF SyncInv, SyncTypes, Sync!TypeOK, Run, SyncSteps, SyncStates
<1>12. QED BY <1>5, <1>7, <1>8, <1>9, <1>10, <1>11 DEF SyncInv, SyncTypes, Sync!ImportedOnce

LEMMA ImportKeepsSync ==
  ASSUME SyncInv, NEW p \in Processes, Sync!Import(p)
  PROVE  SyncInv'
<1> DEFINE m0 == run[p].message
<1>1. run[p].step = "import" /\ ~run[p].cut /\ UNCHANGED <<archive, folder, linked, uploaded, folders>>
  BY DEF Sync!Import, Sync!At
<1>2. m0 \in Messages /\ imported[m0] = 0 /\ imported \in [Messages -> Nat]
  BY <1>1, SyncInHand DEF SyncInv, SyncTypes, Sync!TypeOK, Intended
<1>3. PICK s \in Sync!Final \cup {"retry"} :
        /\ Sync!End(p, s)
        /\ imported' \in [Messages -> Nat] /\ \A m \in Messages : m # m0 => imported'[m] = imported[m]
        /\ imported'[m0] <= 1 /\ (s = "synced" => imported'[m0] = 1)
        /\ s \in {"retry", "existing"} => imported'[m0] = 0
  BY <1>1, <1>2 DEF Sync!Import, Sync!Final, Sync!m_
<1>4. /\ run' = [run EXCEPT ![p] = Sync!Idle]
      /\ intent' \in [Messages -> SyncStates]
      /\ lock' \in [Sync!Conversations -> Processes \cup {NoOne}] /\ mediaLock' \in Processes \cup {NoOne}
      /\ SyncLocked' /\ Intended'
      /\ \A m \in Messages : imported'[m] <= 1 /\ (intent'[m] = "synced" => imported'[m] = 1)
  BY <1>1, <1>3, EndKeeps
<1>5. /\ run' \in [Processes -> Run]
      /\ \A q \in Processes : run'[q].step # "idle" => run'[q].message \in Messages
      /\ \A q \in Processes : run'[q].step \in {"media", "folder", "upload"} => MediaOf[run'[q].message] # NoMedia
      /\ \A q \in Processes : run'[q] = IF q = p THEN Sync!Idle ELSE run[q]
  BY <1>4, SyncIdle, SyncTyped
<1>6. Archived' /\ Foldered' /\ (\A f \in Sync!Media : uploaded'[f] <= 1) /\ folders' <= 1
  BY <1>1, <1>5, SyncIdle, MediaKept
<1>7. Sync!TypeOK'
  BY <1>1, <1>3, <1>4, <1>5 DEF SyncInv, SyncTypes, Sync!TypeOK, Run, SyncSteps, SyncStates
<1>8. QED BY <1>4, <1>5, <1>6, <1>7 DEF SyncInv, SyncTypes, Sync!ImportedOnce

\* A session ends: with its process, or while its process waits for GHL.
LEMMA SessionEndKeepsSync ==
  ASSUME SyncInv, NEW p \in Processes, Sync!Die(p) \/ Sync!SessionBreaks(p)
  PROVE  SyncInv'
<1>1. Sync!Unlocked(p) /\ UNCHANGED <<intent, archive, folder, linked, imported, uploaded, folders>>
  BY DEF Sync!Die, Sync!SessionBreaks, Sync!rows, Sync!ghl
<1>2. PICK r \in Run : /\ run' = [run EXCEPT ![p] = r]
                       /\ r.step # "idle" => r.step = run[p].step /\ r.message = run[p].message
                       /\ r.step # "idle" => r.cut
                       /\ r.step # "idle" => run[p].step # "idle"
  <2>1. CASE run' = [run EXCEPT ![p] = Sync!Idle]
    BY <2>1, SyncIdle
  <2>2. CASE run' = [run EXCEPT ![p].cut = TRUE] /\ run[p].step # "idle"
    <3> DEFINE r == [run[p] EXCEPT !.cut = TRUE]
    <3>1. run[p] \in Run
      BY <2>2, SyncInHand
    <3>2. r \in Run /\ r.step = run[p].step /\ r.message = run[p].message /\ r.cut = TRUE
      BY <3>1 DEF Run
    <3>3. run' = [run EXCEPT ![p] = r]
      BY <2>2
    <3> HIDE DEF r
    <3>4. QED BY <2>2, <3>2, <3>3
  <2>3. QED BY <2>1, <2>2 DEF Sync!Die, Sync!SessionBreaks, Sync!At
<1>3. r.step # "idle" => r.message \in Messages
  BY <1>2, SyncInHand
<1>4. r.step \in {"media", "folder", "upload"} => MediaOf[r.message] # NoMedia
  BY <1>2 DEF SyncInv, SyncTypes
<1>5. /\ run' \in [Processes -> Run]
      /\ \A q \in Processes : run'[q].step # "idle" => run'[q].message \in Messages
      /\ \A q \in Processes : run'[q].step \in {"media", "folder", "upload"} => MediaOf[run'[q].message] # NoMedia
      /\ \A q \in Processes : run'[q] = IF q = p THEN r ELSE run[q]
  BY <1>2, <1>3, <1>4, SyncTyped
<1>6. /\ lock' = [c \in Sync!Conversations |-> IF lock[c] = p THEN NoOne ELSE lock[c]]
      /\ mediaLock' = IF mediaLock = p THEN NoOne ELSE mediaLock
  BY <1>1 DEF Sync!Unlocked
<1>7. SyncLocked'
  <2>1. SUFFICES ASSUME NEW q \in Processes, q # p, run[q].step # "idle", ~run[q].cut
                 PROVE  /\ lock'[ConversationOf[run[q].message]] = q
                        /\ run[q].step \in {"folder", "upload"} => mediaLock' = q
    BY <1>2, <1>5 DEF SyncLocked
  <2>2. ConversationOf[run[q].message] \in Sync!Conversations
    BY <2>1, SyncInHand
  <2>3. QED BY <1>6, <2>1, <2>2 DEF SyncInv, SyncLocked
<1>8. /\ Intended'
      /\ \A m \in Messages : imported'[m] <= 1 /\ (intent'[m] = "synced" => imported'[m] = 1)
  <2>1. \A q \in Processes : run'[q].step # "idle" =>
          /\ run[q].step # "idle" /\ run'[q].message = run[q].message
          /\ run'[q].step = "import" <=> run[q].step = "import"
          /\ run[q].cut => run'[q].cut
    BY <1>2, <1>5
  <2>2. QED BY <1>1, <2>1, MessagesKept
<1>9. Archived' /\ Foldered' /\ (\A f \in Sync!Media : uploaded'[f] <= 1) /\ folders' <= 1
  <2>1. \A q \in Processes : run'[q].step \in {"folder", "upload"} =>
          /\ run'[q].step = run[q].step /\ run'[q].message = run[q].message
          /\ run[q].cut => run'[q].cut
    BY <1>2, <1>5
  <2>2. QED BY <1>1, <2>1, MediaKept
<1>10. Sync!TypeOK'
  BY <1>1, <1>5, <1>6 DEF SyncInv, SyncTypes, Sync!TypeOK, Run, SyncSteps
<1>11. QED BY <1>5, <1>7, <1>8, <1>9, <1>10 DEF SyncInv, SyncTypes, Sync!ImportedOnce

\* A request whose session broke may still be accepted: nobody else has posted it since.
LEMMA LostKeepsSync ==
  ASSUME SyncInv, NEW p \in Processes, Sync!LostRequest(p)
  PROVE  SyncInv'
<1> DEFINE m0 == run[p].message
           f == MediaOf[run[p].message]
<1>1. run[p].cut /\ run[p].step \in {"import", "upload", "folder"} /\ run' = [run EXCEPT ![p] = Sync!Idle]
      /\ UNCHANGED <<intent, archive, folder, linked, lock, mediaLock>>
  BY DEF Sync!LostRequest, Sync!rows, Sync!locks
<1>2. /\ run' \in [Processes -> Run]
      /\ \A q \in Processes : run'[q].step # "idle" => run'[q].message \in Messages
      /\ \A q \in Processes : run'[q].step \in {"media", "folder", "upload"} => MediaOf[run'[q].message] # NoMedia
      /\ \A q \in Processes : run'[q] = IF q = p THEN Sync!Idle ELSE run[q]
  BY <1>1, SyncIdle, SyncTyped
<1>3. SyncLocked'
  BY <1>1, <1>2, SyncIdle DEF SyncInv, SyncLocked
<1>4. CASE run[p].step = "import" /\ imported' = [imported EXCEPT ![m0] = @ + 1] /\ UNCHANGED <<uploaded, folders>>
  <2>1. m0 \in Messages /\ imported[m0] = 0 /\ imported \in [Messages -> Nat] /\ intent[m0] \in {"importing", "uncertain"}
    BY <1>1, <1>4, SyncInHand DEF SyncInv, SyncTypes, Sync!TypeOK, Intended
  <2>2. imported' \in [Messages -> Nat] /\ \A m \in Messages : imported'[m] = IF m = m0 THEN 1 ELSE imported[m]
    BY <1>4, <2>1
  <2>3. \A q \in Processes : run'[q].step = "import" => q # p /\ run'[q] = run[q] /\ run[q].message # m0
    BY <1>2, <1>4, SyncIdle DEF SyncInv, Intended
  <2>4. Intended'
    <3>1. ASSUME NEW q \in Processes, run'[q].step \notin {"idle", "import"}, ~run'[q].cut
          PROVE  intent'[run'[q].message] = "preparing"
      BY <1>1, <1>2, <3>1, SyncIdle DEF SyncInv, Intended
    <3>2. ASSUME NEW q \in Processes, run'[q].step = "import"
          PROVE  /\ imported'[run'[q].message] = 0
                 /\ intent'[run'[q].message] \in (IF run'[q].cut THEN {"importing", "uncertain"} ELSE {"importing"})
      <4>1. run'[q] = run[q] /\ run[q].message # m0 /\ run[q].message \in Messages
        BY <1>2, <2>3, <3>2
      <4>2. QED BY <1>1, <2>2, <3>2, <4>1 DEF SyncInv, Intended
    <3>3. \A q, t \in Processes : run'[q].step = "import" /\ run'[t].step = "import"
                                    /\ run'[q].message = run'[t].message => q = t
      BY <2>3 DEF SyncInv, Intended
    <3>4. \A n \in Messages : imported'[n] # 0 => intent'[n] \in MaySync
      BY <1>1, <2>1, <2>2 DEF SyncInv, Intended, Sync!Final, MaySync
    <3>5. QED BY <3>1, <3>2, <3>3, <3>4 DEF Intended
  <2>5. Archived' /\ Foldered' /\ (\A g \in Sync!Media : uploaded'[g] <= 1) /\ folders' <= 1
    BY <1>1, <1>2, <1>4, SyncIdle, MediaKept
  <2>6. \A n \in Messages : imported'[n] <= 1 /\ (intent'[n] = "synced" => imported'[n] = 1)
    BY <1>1, <2>1, <2>2 DEF SyncInv, Sync!ImportedOnce
  <2>7. Sync!TypeOK'
    BY <1>1, <1>2, <1>4, <2>2 DEF SyncInv, SyncTypes, Sync!TypeOK, Run, SyncSteps
  <2>8. QED BY <1>2, <1>3, <2>4, <2>5, <2>6, <2>7 DEF SyncInv, SyncTypes, Sync!ImportedOnce
<1>5. CASE run[p].step \in {"upload", "folder"} /\ imported' = imported
           /\ IF run[p].step = "upload" THEN uploaded' = [uploaded EXCEPT ![f] = @ + 1] /\ folders' = folders
                                        ELSE uploaded' = uploaded /\ folders' = folders + 1
  <2>1. /\ Intended'
        /\ \A m \in Messages : imported'[m] <= 1 /\ (intent'[m] = "synced" => imported'[m] = 1)
    <3>1. \A q \in Processes : run'[q].step # "idle" =>
            /\ run[q].step # "idle" /\ run'[q].message = run[q].message
            /\ run'[q].step = "import" <=> run[q].step = "import"
            /\ run[q].cut => run'[q].cut
      BY <1>2, SyncIdle
    <3>2. QED BY <1>1, <1>5, <3>1, MessagesKept
  <2>2. /\ f \in Sync!Media /\ uploaded \in [Sync!Media -> Nat] /\ folders \in Nat
    BY <1>1, <1>5, SyncInHand DEF SyncInv, SyncTypes, Sync!TypeOK
  <2>3. CASE run[p].step = "upload"
    <3>1. archive[f] = "uploading" /\ uploaded[f] = 0
      BY <2>3 DEF SyncInv, Archived
    <3>2. uploaded' \in [Sync!Media -> Nat] /\ \A g \in Sync!Media : uploaded'[g] = IF g = f THEN 1 ELSE uploaded[g]
      BY <1>5, <2>2, <2>3, <3>1
    <3>3. \A q \in Processes : run'[q].step = "upload" =>
            run'[q] = run[q] /\ MediaOf[run[q].message] # f /\ MediaOf[run[q].message] \in Sync!Media
      BY <1>2, <2>3, SyncIdle, SyncInHand DEF SyncInv, SyncTypes, Archived
    <3>4. Archived'
      <4>1. \A q \in Processes : run'[q].step = "upload" =>
              archive'[MediaOf[run'[q].message]] = "uploading" /\ uploaded'[MediaOf[run'[q].message]] = 0
        BY <1>1, <3>2, <3>3 DEF SyncInv, Archived
      <4>2. \A q, t \in Processes : run'[q].step = "upload" /\ run'[t].step = "upload"
                  /\ MediaOf[run'[q].message] = MediaOf[run'[t].message] => q = t
        BY <3>3 DEF SyncInv, Archived
      <4>3. \A g \in Sync!Media : /\ uploaded'[g] # 0 => archive'[g] # "none"
                                  /\ archive'[g] \in {"ready", "expired"} => uploaded'[g] = 1
        BY <1>1, <3>1, <3>2 DEF SyncInv, Archived
      <4>4. QED BY <4>1, <4>2, <4>3 DEF Archived
    <3>5. Foldered'
      BY <1>1, <1>2, <1>5, <2>3, SyncIdle DEF SyncInv, Foldered
    <3>6. (\A g \in Sync!Media : uploaded'[g] <= 1) /\ folders' <= 1
      BY <1>5, <2>3, <3>2 DEF SyncInv, Sync!ImportedOnce
    <3>7. Sync!TypeOK'
      BY <1>1, <1>2, <1>5, <2>3, <3>2 DEF SyncInv, SyncTypes, Sync!TypeOK, Run, SyncSteps
    <3>8. QED BY <1>2, <1>3, <2>1, <3>4, <3>5, <3>6, <3>7 DEF SyncInv, SyncTypes, Sync!ImportedOnce
  <2>4. CASE run[p].step = "folder"
    <3>1. folder = "creating" /\ folders = 0 /\ \A q \in Processes : run'[q].step # "folder"
      BY <1>2, <2>4, SyncIdle DEF SyncInv, Foldered
    <3>2. Foldered'
      BY <1>1, <3>1 DEF Foldered
    <3>3. Archived'
      BY <1>1, <1>2, <1>5, <2>4, SyncIdle DEF SyncInv, Archived
    <3>4. (\A g \in Sync!Media : uploaded'[g] <= 1) /\ folders' <= 1
      BY <1>5, <2>4, <3>1 DEF SyncInv, Sync!ImportedOnce
    <3>5. Sync!TypeOK'
      BY <1>1, <1>2, <1>5, <2>2, <2>4 DEF SyncInv, SyncTypes, Sync!TypeOK, Run, SyncSteps
    <3>6. QED BY <1>2, <1>3, <2>1, <3>2, <3>3, <3>4, <3>5 DEF SyncInv, SyncTypes, Sync!ImportedOnce
  <2>5. QED BY <1>5, <2>3, <2>4
<1>6. QED
  BY <1>4, <1>5 DEF Sync!LostRequest, Sync!m_

LEMMA ExpireKeepsSync ==
  ASSUME SyncInv, NEW f \in Sync!Media, Sync!Expire(f)
  PROVE  SyncInv'
<1>1. /\ archive[f] = "ready" /\ archive' = [archive EXCEPT ![f] = "expired"]
      /\ UNCHANGED <<intent, folder, linked, lock, mediaLock, run, imported, uploaded, folders>>
  BY DEF Sync!Expire, Sync!locks, Sync!ghl
<1>2. /\ archive' \in [Sync!Media -> {"none", "uploading", "ready", "uncertain", "expired"}]
      /\ \A g \in Sync!Media : archive'[g] = IF g = f THEN "expired" ELSE archive[g]
  BY <1>1 DEF SyncInv, SyncTypes, Sync!TypeOK
<1>3. Sync!TypeOK' /\ SyncLocked' /\ Intended' /\ Sync!ImportedOnce'
  BY <1>1, <1>2 DEF SyncInv, SyncTypes, Sync!TypeOK, SyncLocked, Intended, Sync!ImportedOnce
<1>4. \A q \in Processes : run[q].step \in {"folder", "upload"} => MediaOf[run[q].message] \in Sync!Media
  BY SyncInHand DEF SyncInv, SyncTypes
<1>5. Archived'
  BY <1>1, <1>2, <1>4 DEF SyncInv, Archived
<1>6. Foldered'
  BY <1>1, <1>2, <1>4 DEF SyncInv, Foldered
<1>7. QED BY <1>1, <1>3, <1>5, <1>6 DEF SyncInv, SyncTypes

LEMMA SyncStepKeeps == SyncInv /\ [Sync!Next]_(Sync!vars) => SyncInv'
<1> SUFFICES ASSUME SyncInv, [Sync!Next]_(Sync!vars) PROVE SyncInv'
  OBVIOUS
<1>1. CASE UNCHANGED Sync!vars
  BY <1>1 DEF Sync!vars, Sync!rows, Sync!locks, Sync!ghl, SyncInv, SyncTypes, Sync!TypeOK, SyncLocked, Intended,
              Archived, Foldered, Sync!ImportedOnce
<1>2. ASSUME NEW p \in Processes,
             \/ \E m \in Messages : Sync!Begin(p, m)
             \/ Sync!Contact(p) \/ Sync!Download(p) \/ Sync!Archive(p) \/ Sync!CreateFolder(p) \/ Sync!Upload(p)
             \/ Sync!Contentless(p) \/ Sync!Intend(p) \/ Sync!Import(p)
             \/ Sync!Die(p) \/ Sync!SessionBreaks(p) \/ Sync!LostRequest(p)
      PROVE  SyncInv'
  BY <1>2, BeginKeepsSync, ContactKeepsSync, ArchiveKeepsSync, FolderKeepsSync, UploadKeepsSync,
     IntendKeepsSync, ImportKeepsSync, SessionEndKeepsSync, LostKeepsSync
<1>3. CASE \E f \in Sync!Media : Sync!Expire(f)
  BY <1>3, ExpireKeepsSync
<1>4. QED BY <1>1, <1>2, <1>3 DEF Sync!Next

\* The steps of an import: a row is moved by the run that has its message, while it says
\* preparing or importing, or taken up; an import arrives for one that says so.
LEMMA ImportsMoveOn ==
  ASSUME SyncInv, [Sync!Next]_(Sync!vars), NEW m \in Messages
  PROVE  /\ imported'[m] >= imported[m]
         /\ intent[m] \notin MaySync => imported'[m] = 0
         /\ intent[m] = "synced" => intent'[m] = "synced"
<1>1. /\ intent \in [Messages -> SyncStates] /\ imported \in [Messages -> Nat]
      /\ imported[m] \in Nat /\ (intent[m] \notin MaySync => imported[m] = 0)
  BY DEF SyncInv, SyncTypes, Sync!TypeOK, SyncStates, Intended
<1>2. CASE UNCHANGED <<intent, imported>>
  BY <1>1, <1>2
<1>3. ASSUME NEW p \in Processes, NEW n \in Messages, Sync!Begin(p, n)
      PROVE  imported' = imported /\ intent' = [intent EXCEPT ![n] = Sync!Taken(intent[n])]
  BY <1>3 DEF Sync!Begin, Sync!ghl
<1>4. ASSUME NEW p \in Processes,
             Sync!Contact(p) \/ Sync!Download(p) \/ Sync!Archive(p) \/ Sync!CreateFolder(p) \/ Sync!Upload(p)
             \/ Sync!Contentless(p) \/ Sync!Intend(p)
      PROVE  /\ imported' = imported /\ intent[run[p].message] = "preparing"
             /\ intent' = intent \/ \E s \in SyncStates : intent' = [intent EXCEPT ![run[p].message] = s]
  <2>1. run[p].step \in {"contact", "media", "folder", "upload", "intent"} /\ ~run[p].cut
    BY <1>4 DEF Sync!Contact, Sync!Download, Sync!Archive, Sync!CreateFolder, Sync!Upload,
                Sync!Contentless, Sync!Intend, Sync!At
  <2>2. intent[run[p].message] = "preparing"
    BY <2>1 DEF SyncInv, Intended
  <2>3. QED
    BY <1>4, <2>2 DEF Sync!Contact, Sync!Download, Sync!Archive, Sync!CreateFolder, Sync!Upload,
       Sync!Contentless, Sync!Intend, Sync!End, Sync!m_, Sync!ghl, Sync!rows, SyncStates, Sync!Final
<1>5. ASSUME NEW p \in Processes, Sync!Import(p)
      PROVE  /\ imported' = imported \/ imported' = [imported EXCEPT ![run[p].message] = @ + 1]
             /\ intent[run[p].message] = "importing" /\ run[p].message \in Messages
             /\ \E s \in SyncStates : intent' = [intent EXCEPT ![run[p].message] = s]
  <2>1. run[p].step = "import" /\ ~run[p].cut
    BY <1>5 DEF Sync!Import, Sync!At
  <2>2. intent[run[p].message] = "importing" /\ run[p].message \in Messages
    BY <2>1 DEF SyncInv, SyncTypes, Intended
  <2>3. QED
    BY <1>5, <2>2 DEF Sync!Import, Sync!End, Sync!m_, SyncStates, Sync!Final
<1>6. ASSUME NEW p \in Processes, Sync!LostRequest(p)
      PROVE  /\ intent' = intent
             /\ \/ imported' = imported
                \/ /\ imported' = [imported EXCEPT ![run[p].message] = @ + 1]
                   /\ run[p].message \in Messages /\ intent[run[p].message] \in {"importing", "uncertain"}
  <2>1. run[p].step = "import" =>
          run[p].message \in Messages /\ intent[run[p].message] \in {"importing", "uncertain"}
    BY DEF SyncInv, SyncTypes, Intended
  <2>2. QED BY <1>6, <2>1 DEF Sync!LostRequest, Sync!m_, Sync!rows
<1>7. CASE \E p \in Processes, n \in Messages : Sync!Begin(p, n)
  BY <1>1, <1>3, <1>7 DEF Sync!Taken, Sync!Final
<1>8. CASE \E p \in Processes :
             Sync!Contact(p) \/ Sync!Download(p) \/ Sync!Archive(p) \/ Sync!CreateFolder(p) \/ Sync!Upload(p)
             \/ Sync!Contentless(p) \/ Sync!Intend(p)
  BY <1>1, <1>4, <1>8
<1>9. CASE \E p \in Processes : Sync!Import(p)
  BY <1>1, <1>5, <1>9 DEF MaySync
<1>10. CASE \E p \in Processes : Sync!LostRequest(p)
  BY <1>1, <1>6, <1>10 DEF MaySync
<1>11. (\E p \in Processes : Sync!Die(p) \/ Sync!SessionBreaks(p)) \/ (\E f \in Sync!Media : Sync!Expire(f))
       \/ UNCHANGED Sync!vars => UNCHANGED <<intent, imported>>
  BY DEF Sync!Die, Sync!SessionBreaks, Sync!Expire, Sync!vars, Sync!rows, Sync!ghl
<1>12. QED BY <1>2, <1>7, <1>8, <1>9, <1>10, <1>11 DEF Sync!Next

\* The steps of an upload, and of the folder.
LEMMA FilesMoveOn ==
  ASSUME SyncInv, [Sync!Next]_(Sync!vars)
  PROVE  /\ \A f \in Sync!Media : /\ uploaded'[f] >= uploaded[f]
                                  /\ archive[f] = "none" => uploaded'[f] = 0
                                  /\ archive[f] \in {"ready", "expired"} => archive'[f] \in {"ready", "expired"}
         /\ folders' >= folders
         /\ folder = "none" => folders' = 0
         /\ folder = "ready" => folder' = "ready"
<1> DEFINE FileStates == {"none", "uploading", "ready", "uncertain", "expired"}
<1>1. /\ archive \in [Sync!Media -> FileStates] /\ uploaded \in [Sync!Media -> Nat] /\ folders \in Nat
      /\ \A f \in Sync!Media : archive[f] = "none" => uploaded[f] = 0
      /\ folder = "none" => folders = 0
  BY DEF SyncInv, SyncTypes, Sync!TypeOK, Archived, Foldered
<1>2. CASE UNCHANGED <<archive, folder, uploaded, folders>>
  BY <1>1, <1>2
<1>3. ASSUME NEW p \in Processes, Sync!Archive(p)
      PROVE  /\ UNCHANGED <<uploaded, folders>> /\ (folder = "ready" => folder' = "ready")
             /\ \A g \in Sync!Media : archive[g] \in {"ready", "expired"} => archive'[g] = archive[g]
  <2>1. MediaOf[run[p].message] \in Sync!Media
    BY <1>3, SyncInHand DEF Sync!Archive, Sync!At, SyncInv, SyncTypes
  <2>2. QED
    BY <1>1, <1>3, <2>1 DEF Sync!Archive, Sync!m_, Sync!rows, Sync!ghl
<1>4. ASSUME NEW p \in Processes, Sync!CreateFolder(p)
      PROVE  /\ uploaded' = uploaded /\ folder = "creating" /\ folders' \in {folders, folders + 1}
             /\ \E f \in Sync!Media : archive[f] = "none" /\ archive' \in {archive, [archive EXCEPT ![f] = "uploading"]}
  <2>1. run[p].step = "folder" /\ ~run[p].cut
    BY <1>4 DEF Sync!CreateFolder, Sync!At
  <2>2. MediaOf[run[p].message] \in Sync!Media /\ folder = "creating" /\ archive[MediaOf[run[p].message]] = "none"
    BY <2>1, SyncInHand DEF SyncInv, SyncTypes, Foldered
  <2>3. QED BY <1>4, <2>2 DEF Sync!CreateFolder, Sync!m_
<1>5. ASSUME NEW p \in Processes, Sync!Upload(p)
      PROVE  /\ UNCHANGED <<folder, folders>>
             /\ \E f \in Sync!Media, s \in FileStates :
                  /\ archive[f] = "uploading" /\ archive' = [archive EXCEPT ![f] = s]
                  /\ uploaded' \in {uploaded, [uploaded EXCEPT ![f] = @ + 1]}
  <2>1. run[p].step = "upload"
    BY <1>5 DEF Sync!Upload, Sync!At
  <2>2. MediaOf[run[p].message] \in Sync!Media /\ archive[MediaOf[run[p].message]] = "uploading"
    BY <2>1, SyncInHand DEF SyncInv, SyncTypes, Archived
  <2>3. QED BY <1>5, <2>2 DEF Sync!Upload, Sync!m_
<1>6. ASSUME NEW p \in Processes, Sync!LostRequest(p)
      PROVE  /\ UNCHANGED <<archive, folder>>
             /\ \/ UNCHANGED <<uploaded, folders>>
                \/ /\ folders' = folders
                   /\ \E f \in Sync!Media : archive[f] = "uploading" /\ uploaded' = [uploaded EXCEPT ![f] = @ + 1]
                \/ uploaded' = uploaded /\ folder = "creating" /\ folders' = folders + 1
  <2>1. /\ run[p].step = "upload" =>
             MediaOf[run[p].message] \in Sync!Media /\ archive[MediaOf[run[p].message]] = "uploading"
        /\ run[p].step = "folder" => folder = "creating"
    BY SyncInHand DEF SyncInv, SyncTypes, Archived, Foldered
  <2>2. QED BY <1>6, <2>1 DEF Sync!LostRequest, Sync!m_, Sync!rows
<1>7. CASE \E p \in Processes : Sync!Archive(p)
  BY <1>1, <1>3, <1>7
<1>8. CASE \E p \in Processes : Sync!CreateFolder(p)
  BY <1>1, <1>4, <1>8
<1>9. CASE \E p \in Processes : Sync!Upload(p)
  BY <1>1, <1>5, <1>9
<1>10. CASE \E p \in Processes : Sync!LostRequest(p)
  BY <1>1, <1>6, <1>10
<1>11. CASE \E f \in Sync!Media : Sync!Expire(f)
  BY <1>1, <1>11 DEF Sync!Expire, Sync!ghl
<1>12. (\E p \in Processes : \/ \E m \in Messages : Sync!Begin(p, m)
                             \/ Sync!Contact(p) \/ Sync!Download(p) \/ Sync!Contentless(p) \/ Sync!Intend(p)
                             \/ Sync!Import(p) \/ Sync!Die(p) \/ Sync!SessionBreaks(p))
       \/ UNCHANGED Sync!vars => UNCHANGED <<archive, folder, uploaded, folders>>
  BY DEF Sync!Begin, Sync!Contact, Sync!Download, Sync!Contentless, Sync!Intend, Sync!Import, Sync!Die,
         Sync!SessionBreaks, Sync!vars, Sync!rows, Sync!ghl
<1>13. QED BY <1>2, <1>7, <1>8, <1>9, <1>10, <1>11, <1>12 DEF Sync!Next

\* Each message takes a step of the promise, or rests.
LEMMA ImportsPromise ==
  ASSUME SyncInv, SyncInv', [Sync!Next]_(Sync!vars)
  PROVE  Sync!Imports!Next
<1> SUFFICES ASSUME NEW m \in Messages
             PROVE  \/ Sync!Imports!Intend(m) \/ Sync!Imports!Act(m) \/ Sync!Imports!Settle(m)
                    \/ Sync!Imports!Withdraw(m) \/ Sync!Imports!Rest(m)
  BY DEF Sync!Imports!Next
<1>1. /\ intent[m] \in SyncStates /\ intent'[m] \in SyncStates
      /\ imported[m] \in 0..1 /\ imported'[m] \in 0..1
      /\ intent[m] = "synced" => imported[m] = 1
      /\ intent[m] \notin MaySync => imported[m] = 0
      /\ intent'[m] = "synced" => imported'[m] = 1
      /\ intent'[m] \notin MaySync => imported'[m] = 0
  <2>1. intent \in [Messages -> SyncStates] /\ imported \in [Messages -> Nat]
    BY DEF SyncInv, SyncTypes, Sync!TypeOK, SyncStates
  <2>2. intent' \in [Messages -> SyncStates] /\ imported' \in [Messages -> Nat]
    BY DEF SyncInv, SyncTypes, Sync!TypeOK, SyncStates
  <2>3. QED BY <2>1, <2>2 DEF SyncInv, Sync!ImportedOnce, Intended
<1>2. /\ [n \in Messages |-> Sync!SaidOfImport(intent[n])][m] = Sync!SaidOfImport(intent[m])
      /\ [n \in Messages |-> Sync!SaidOfImport(intent'[n])][m] = Sync!SaidOfImport(intent'[m])
  OBVIOUS
<1>3. QED
  BY <1>1, <1>2, ImportsMoveOn
  DEF SyncStates, Sync!Final, MaySync, Sync!SaidOfImport, Sync!Imports!Intend, Sync!Imports!Act,
      Sync!Imports!Settle, Sync!Imports!Withdraw, Sync!Imports!Rest

LEMMA UploadsPromise ==
  ASSUME SyncInv, SyncInv', [Sync!Next]_(Sync!vars)
  PROVE  Sync!Uploads!Next
<1> SUFFICES ASSUME NEW f \in Sync!Media
             PROVE  \/ Sync!Uploads!Intend(f) \/ Sync!Uploads!Act(f) \/ Sync!Uploads!Settle(f)
                    \/ Sync!Uploads!Withdraw(f) \/ Sync!Uploads!Rest(f)
  BY DEF Sync!Uploads!Next
<1>1. /\ uploaded[f] \in 0..1 /\ uploaded'[f] \in 0..1
      /\ archive[f] \in {"ready", "expired"} => uploaded[f] = 1
      /\ archive[f] = "none" => uploaded[f] = 0
      /\ archive'[f] \in {"ready", "expired"} => uploaded'[f] = 1
      /\ archive'[f] = "none" => uploaded'[f] = 0
  <2>1. uploaded \in [Sync!Media -> Nat] /\ uploaded' \in [Sync!Media -> Nat]
    BY DEF SyncInv, SyncTypes, Sync!TypeOK
  <2>2. QED BY <2>1 DEF SyncInv, Sync!ImportedOnce, Archived
<1>2. /\ [g \in Sync!Media |-> Sync!SaidOfFile(archive[g])][f] = Sync!SaidOfFile(archive[f])
      /\ [g \in Sync!Media |-> Sync!SaidOfFile(archive'[g])][f] = Sync!SaidOfFile(archive'[f])
  OBVIOUS
<1>3. QED
  BY <1>1, <1>2, FilesMoveOn
  DEF Sync!SaidOfFile, Sync!Uploads!Intend, Sync!Uploads!Act, Sync!Uploads!Settle, Sync!Uploads!Withdraw,
      Sync!Uploads!Rest

LEMMA FoldersPromise ==
  ASSUME SyncInv, SyncInv', [Sync!Next]_(Sync!vars)
  PROVE  Sync!Folders!Next
<1> SUFFICES ASSUME NEW f \in {NoMedia}
             PROVE  \/ Sync!Folders!Intend(f) \/ Sync!Folders!Act(f) \/ Sync!Folders!Settle(f)
                    \/ Sync!Folders!Withdraw(f) \/ Sync!Folders!Rest(f)
  BY DEF Sync!Folders!Next
<1>1. /\ folders \in 0..1 /\ folders' \in 0..1
      /\ folder \in {"none", "creating", "ready", "uncertain"} /\ folder' \in {"none", "creating", "ready", "uncertain"}
      /\ folder = "ready" => folders = 1
      /\ folder = "none" => folders = 0
      /\ folder' = "ready" => folders' = 1
      /\ folder' = "none" => folders' = 0
  BY DEF SyncInv, SyncTypes, Sync!TypeOK, Sync!ImportedOnce, Foldered
<1>2. /\ [g \in {NoMedia} |-> Sync!SaidOfFile(folder)][f] = Sync!SaidOfFile(folder)
      /\ [g \in {NoMedia} |-> Sync!SaidOfFile(folder')][f] = Sync!SaidOfFile(folder')
      /\ [g \in {NoMedia} |-> folders][f] = folders /\ [g \in {NoMedia} |-> folders'][f] = folders'
  OBVIOUS
<1>3. QED
  BY <1>1, <1>2, FilesMoveOn
  DEF Sync!SaidOfFile, Sync!Folders!Intend, Sync!Folders!Act, Sync!Folders!Settle, Sync!Folders!Withdraw,
      Sync!Folders!Rest

LEMMA SyncPromiseInit == Sync!Init => Sync!Imports!Init /\ Sync!Uploads!Init /\ Sync!Folders!Init
BY DEF Sync!Init, Sync!Imports!Init, Sync!Uploads!Init, Sync!Folders!Init, Sync!SaidOfImport, Sync!SaidOfFile


-----------------------------------------------------------------------------
(***************************************************************************)
(* Workflow triggers: an event is posted by the one tick that found it     *)
(* pending, and what a tick leaves in sending is never pending again.      *)
(***************************************************************************)

Posts(p, e) == tick[p].posting = e /\ e # NoEvent

\* A tick that works has the lock, and has not lost its session.
TickLocked ==
  \A p \in TickProcesses : /\ ticker = p => ~tick[p].cut
                           /\ tick[p].posting # NoEvent /\ ~tick[p].cut => ticker = p
                           /\ tick[p].cut => tick[p].posting # NoEvent

\* What is in flight, what a batch still holds, and what has run.
Underway ==
  /\ \A p \in TickProcesses, e \in Events : Posts(p, e) =>
       /\ accepted[e] = 0
       /\ delivery[e] \in {"sending", "uncertain"}
       /\ ~tick[p].cut => delivery[e] = "sending"
  /\ \A p, q \in TickProcesses, e \in Events : Posts(p, e) /\ Posts(q, e) => p = q
  /\ \A p \in TickProcesses, e \in Events : ticker = p /\ e \in tick[p].batch => delivery[e] = "pending"
  /\ \A e \in Events : accepted[e] # 0 => delivery[e] \in {"sending", "delivered", "uncertain"}

TriggerInv == Triggers!TypeOK /\ TickLocked /\ Underway /\ Triggers!DeliveredOnce

TriggerSubs == [wants : SUBSET Events, passes : SUBSET Events]
Tick == [batch : SUBSET Events, sub : TriggerSubs, known : BOOLEAN, posting : Events \cup {NoEvent}, cut : BOOLEAN]
DeliveryState == {"none", "pending", "sending", "delivered", "failed", "skipped", "uncertain"}

LEMMA TriggerTyped ==
  Triggers!TypeOK <=>
    /\ delivery \in [Events -> DeliveryState]
    /\ sub \in TriggerSubs /\ known \in BOOLEAN
    /\ ticker \in TickProcesses \cup {NoTicker}
    /\ tick \in [TickProcesses -> Tick]
    /\ accepted \in [Events -> Nat]
BY DEF Triggers!TypeOK, TriggerSubs, Tick, DeliveryState

LEMMA TriggerInit == Triggers!Init => TriggerInv
<1> SUFFICES ASSUME Triggers!Init PROVE TriggerInv
  OBVIOUS
<1>1. Triggers!Quiet \in Tick /\ Triggers!NoSub \in TriggerSubs
  BY DEF Triggers!Quiet, Triggers!NoSub, Tick, TriggerSubs
<1>2. Triggers!TypeOK
  BY <1>1, TriggerTyped DEF Triggers!Init, DeliveryState
<1>3. TickLocked /\ Underway /\ Triggers!DeliveredOnce
  BY IntegrationsAssumption DEF Triggers!Init, Triggers!Quiet, TickLocked, Underway, Posts, Triggers!DeliveredOnce
<1>4. QED BY <1>2, <1>3 DEF TriggerInv

\* The subscription and the contact change under a tick, which keeps what it has read.
LEMMA SettingsKeepTriggers ==
  ASSUME TriggerInv, Triggers!Subscribe \/ Triggers!Link
  PROVE  TriggerInv'
<1>1. UNCHANGED <<delivery, ticker, tick, accepted>> /\ sub' \in TriggerSubs /\ known' \in BOOLEAN
  <2>1. sub \in TriggerSubs /\ known \in BOOLEAN
    BY TriggerTyped DEF TriggerInv
  <2>2. CASE Triggers!Subscribe
    <3>1. PICK w \in SUBSET Events : \E a \in SUBSET w : sub' = [wants |-> w, passes |-> a]
      BY <2>2 DEF Triggers!Subscribe
    <3>2. PICK a \in SUBSET w : sub' = [wants |-> w, passes |-> a]
      BY <3>1
    <3>3. w \in SUBSET Events /\ a \in SUBSET Events
      OBVIOUS
    <3>4. sub' \in TriggerSubs
      BY <3>2, <3>3 DEF TriggerSubs
    <3>5. QED BY <2>1, <2>2, <3>4 DEF Triggers!Subscribe
  <2>3. CASE Triggers!Link
    BY <2>1, <2>3 DEF Triggers!Link
  <2>4. QED BY <2>2, <2>3
<1>2. Triggers!TypeOK'
  BY <1>1, TriggerTyped DEF TriggerInv, Triggers!TypeOK, TriggerSubs
<1>3. TickLocked' /\ Underway' /\ Triggers!DeliveredOnce'
  BY <1>1 DEF TriggerInv, TickLocked, Underway, Posts, Triggers!DeliveredOnce
<1>4. QED BY <1>2, <1>3 DEF TriggerInv

LEMMA TickOf ==
  ASSUME TriggerInv, NEW p \in TickProcesses
  PROVE  /\ tick[p] \in Tick /\ tick[p].batch \in SUBSET Events /\ tick[p].posting \in Events \cup {NoEvent}
         /\ tick[p].sub \in TriggerSubs /\ tick[p].known \in BOOLEAN /\ tick[p].cut \in BOOLEAN
<1>1. tick[p] \in Tick
  BY TriggerTyped DEF TriggerInv
<1>2. QED BY <1>1 DEF Tick

\* A step that moves at most one tick.
LEMMA TickTyped ==
  ASSUME TriggerInv, NEW p \in TickProcesses, NEW t \in Tick, tick' = [tick EXCEPT ![p] = t]
  PROVE  tick' \in [TickProcesses -> Tick] /\ \A q \in TickProcesses : tick'[q] = IF q = p THEN t ELSE tick[q]
<1>1. tick \in [TickProcesses -> Tick]
  BY TriggerTyped DEF TriggerInv
<1>2. QED BY <1>1

LEMMA TickQuiet ==
  Triggers!Quiet \in Tick /\ Triggers!Quiet.posting = NoEvent /\ ~Triggers!Quiet.cut /\ Triggers!Quiet.batch = {}
BY DEF Triggers!Quiet, Triggers!NoSub, Tick, TriggerSubs

\* The row of an event of which nothing is known yet.
LEMMA CaptureKeepsTriggers ==
  ASSUME TriggerInv, NEW e \in Events, Triggers!Capture(e)
  PROVE  TriggerInv'
<1>1. delivery[e] = "none" /\ delivery' = [delivery EXCEPT ![e] = "pending"] /\ UNCHANGED <<sub, known, ticker, tick, accepted>>
  BY DEF Triggers!Capture
<1>2. delivery \in [Events -> DeliveryState]
  BY TriggerTyped DEF TriggerInv
<1>3. /\ delivery' \in [Events -> DeliveryState]
      /\ \A d \in Events : delivery'[d] = IF d = e THEN "pending" ELSE delivery[d]
  BY <1>1, <1>2 DEF DeliveryState
<1>4. Triggers!TypeOK'
  BY <1>1, <1>3 DEF TriggerInv, Triggers!TypeOK, DeliveryState
<1>5. TickLocked'
  BY <1>1 DEF TriggerInv, TickLocked
<1>6. Underway'
  BY <1>1, <1>3 DEF TriggerInv, Underway, Posts
<1>7. Triggers!DeliveredOnce'
  BY <1>1, <1>3 DEF TriggerInv, Triggers!DeliveredOnce
<1>8. QED BY <1>4, <1>5, <1>6, <1>7 DEF TriggerInv

\* The sweep of a tick leaves nothing in sending, which nobody who still works posts.
LEMMA TickBeginKeepsTriggers ==
  ASSUME TriggerInv, NEW p \in TickProcesses, Triggers!Begin(p)
  PROVE  TriggerInv'
<1>1. /\ tick[p] = Triggers!Quiet /\ ticker = NoTicker /\ ticker' = p
      /\ delivery' = [e \in Events |-> Triggers!Interrupted(delivery[e])]
      /\ UNCHANGED <<sub, known, accepted>>
  BY DEF Triggers!Begin
<1>2. PICK batch \in SUBSET {e \in Events : delivery'[e] = "pending"} :
        tick' = [tick EXCEPT ![p] = [Triggers!Quiet EXCEPT !.batch = batch, !.sub = sub, !.known = known]]
  BY DEF Triggers!Begin
<1> DEFINE t == [Triggers!Quiet EXCEPT !.batch = batch, !.sub = sub, !.known = known]
<1>3. t \in Tick /\ t.batch = batch /\ t.posting = NoEvent /\ t.cut = FALSE
  <2>1. sub \in TriggerSubs /\ known \in BOOLEAN /\ batch \in SUBSET Events
    BY TriggerTyped DEF TriggerInv
  <2>2. t = [x \in DOMAIN Triggers!Quiet |-> IF x = "known" THEN known ELSE IF x = "sub" THEN sub
                                             ELSE IF x = "batch" THEN batch ELSE Triggers!Quiet[x]]
    OBVIOUS
  <2> HIDE DEF t
  <2>3. t = [batch |-> batch, sub |-> sub, known |-> known, posting |-> NoEvent, cut |-> FALSE]
    BY <2>2 DEF Triggers!Quiet
  <2>4. QED BY <2>1, <2>3 DEF Tick
<1>4. tick' = [tick EXCEPT ![p] = t]
  BY <1>2
<1> HIDE DEF t
<1>5. /\ tick' \in [TickProcesses -> Tick]
      /\ \A q \in TickProcesses : tick'[q] = IF q = p THEN t ELSE tick[q]
  BY <1>3, <1>4, TickTyped
<1>6. delivery \in [Events -> DeliveryState]
  BY TriggerTyped DEF TriggerInv
<1>7. /\ delivery' \in [Events -> DeliveryState]
      /\ \A e \in Events : delivery'[e] = IF delivery[e] = "sending" THEN "uncertain" ELSE delivery[e]
  BY <1>1, <1>6 DEF DeliveryState, Triggers!Interrupted
<1>8. Triggers!TypeOK'
  BY <1>1, <1>5, <1>7 DEF TriggerInv, Triggers!TypeOK, DeliveryState, Tick, TriggerSubs
<1>9. \A q \in TickProcesses : tick[q].posting # NoEvent => q # p /\ tick[q].cut
  BY <1>1, TickQuiet, IntegrationsAssumption DEF TriggerInv, TickLocked
<1>10. TickLocked'
  BY <1>1, <1>3, <1>5, <1>9 DEF TriggerInv, TickLocked
<1>11. Underway'
  <2>1. ASSUME NEW q \in TickProcesses, NEW e \in Events, Posts(q, e)'
        PROVE  /\ q # p /\ tick'[q] = tick[q] /\ Posts(q, e) /\ tick[q].cut
               /\ accepted'[e] = 0 /\ delivery'[e] \in {"sending", "uncertain"}
    <3>1. q # p /\ tick'[q] = tick[q] /\ Posts(q, e) /\ tick[q].cut
      BY <1>3, <1>5, <1>9, <2>1 DEF Posts
    <3>2. QED BY <1>1, <1>7, <3>1 DEF TriggerInv, Underway
  <2>2. \A q \in TickProcesses, e \in Events : ticker' = q /\ e \in tick'[q].batch => delivery'[e] = "pending"
    BY <1>1, <1>3, <1>5
  <2>3. \A e \in Events : accepted'[e] # 0 => delivery'[e] \in {"sending", "delivered", "uncertain"}
    BY <1>1, <1>7 DEF TriggerInv, Underway
  <2>4. \A q, r \in TickProcesses, e \in Events : Posts(q, e)' /\ Posts(r, e)' => q = r
    BY <2>1 DEF TriggerInv, Underway
  <2>5. QED BY <2>1, <2>2, <2>3, <2>4 DEF Underway
<1>12. Triggers!DeliveredOnce'
  BY <1>1, <1>7 DEF TriggerInv, Triggers!DeliveredOnce
<1>13. QED BY <1>8, <1>10, <1>11, <1>12 DEF TriggerInv

\* One row leaves the batch of the tick that has the lock.
LEMMA BatchKeepsTriggers ==
  ASSUME TriggerInv, NEW p \in TickProcesses, NEW e \in Events, Triggers!Pass(p, e) \/ Triggers!Post(p, e)
  PROVE  TriggerInv'
<1>1. /\ ticker = p /\ tick[p].posting = NoEvent /\ e \in tick[p].batch
      /\ UNCHANGED <<sub, known, ticker, accepted>>
  BY DEF Triggers!Pass, Triggers!Post, Triggers!InBatch
<1>2. /\ delivery[e] = "pending" /\ accepted[e] = 0 /\ ~tick[p].cut /\ delivery \in [Events -> DeliveryState]
      /\ accepted \in [Events -> Nat]
  BY <1>1, TriggerTyped DEF TriggerInv, Underway, TickLocked
<1>3. PICK s \in {"pending", "skipped", "failed", "sending"}, t \in Tick :
        /\ delivery' = [delivery EXCEPT ![e] = s] /\ tick' = [tick EXCEPT ![p] = t]
        /\ t.batch = tick[p].batch \ {e} /\ t.cut = FALSE
        /\ t.posting = IF s = "sending" THEN e ELSE NoEvent
  <2> DEFINE a == [tick[p] EXCEPT !.batch = tick[p].batch \ {e}]
             b == [a EXCEPT !.posting = e]
  <2>1. tick[p] \in Tick /\ tick[p].batch \ {e} \in SUBSET Events /\ tick[p].cut = FALSE
    BY <1>2, TickOf
  <2>2. a \in Tick /\ a.batch = tick[p].batch \ {e} /\ a.cut = FALSE /\ a.posting = NoEvent
    BY <1>1, <2>1 DEF Tick
  <2>3. Triggers!Left(p, e) = a
    BY DEF Triggers!Left
  <2> HIDE DEF a
  <2>4. b \in Tick /\ b.batch = tick[p].batch \ {e} /\ b.cut = FALSE /\ b.posting = e
    BY <2>2 DEF Tick
  <2>5. CASE Triggers!Pass(p, e)
    <3>1. tick' = [tick EXCEPT ![p] = a]
      BY <2>3, <2>5 DEF Triggers!Pass
    <3>2. PICK s \in {"pending", "skipped", "failed"} : delivery' = [delivery EXCEPT ![e] = s]
      <4>1. delivery = [delivery EXCEPT ![e] = "pending"]
        BY <1>2
      <4>2. QED BY <2>5, <4>1 DEF Triggers!Pass
    <3>3. QED BY <2>2, <3>1, <3>2
  <2>6. CASE Triggers!Post(p, e)
    <3>1. tick' = [tick EXCEPT ![p] = b] /\ delivery' = [delivery EXCEPT ![e] = "sending"]
      BY <2>3, <2>6 DEF Triggers!Post
    <3> HIDE DEF b
    <3>2. QED BY <2>4, <3>1
  <2>7. QED BY <2>5, <2>6
<1>4. /\ tick' \in [TickProcesses -> Tick]
      /\ \A q \in TickProcesses : tick'[q] = IF q = p THEN t ELSE tick[q]
  BY <1>3, TickTyped
<1>5. /\ delivery' \in [Events -> DeliveryState]
      /\ \A d \in Events : delivery'[d] = IF d = e THEN s ELSE delivery[d]
  BY <1>2, <1>3 DEF DeliveryState
<1>6. Triggers!TypeOK'
  BY <1>1, <1>4, <1>5 DEF TriggerInv, Triggers!TypeOK, DeliveryState, Tick, TriggerSubs
<1>7. TickLocked'
  BY <1>1, <1>3, <1>4 DEF TriggerInv, TickLocked
<1>8. Underway'
  <2>1. \A q \in TickProcesses, d \in Events : Posts(q, d)' =>
          \/ q = p /\ d = e /\ s = "sending"
          \/ q # p /\ Posts(q, d) /\ d # e /\ tick'[q] = tick[q]
    BY <1>1, <1>2, <1>3, <1>4 DEF Posts, TriggerInv, Underway
  <2>2. ASSUME NEW q \in TickProcesses, NEW d \in Events, Posts(q, d)'
        PROVE  /\ accepted'[d] = 0 /\ delivery'[d] \in {"sending", "uncertain"}
               /\ ~tick'[q].cut => delivery'[d] = "sending"
    <3>1. CASE q = p /\ d = e /\ s = "sending"
      BY <1>1, <1>2, <1>5, <3>1
    <3>2. CASE q # p /\ Posts(q, d) /\ d # e /\ tick'[q] = tick[q]
      BY <1>1, <1>5, <3>2 DEF TriggerInv, Underway
    <3>3. QED BY <2>1, <2>2, <3>1, <3>2
  <2>3. \A q, r \in TickProcesses, d \in Events : Posts(q, d)' /\ Posts(r, d)' => q = r
    BY <2>1 DEF TriggerInv, Underway
  <2>4. \A q \in TickProcesses, d \in Events : ticker' = q /\ d \in tick'[q].batch => delivery'[d] = "pending"
    BY <1>1, <1>3, <1>4, <1>5 DEF TriggerInv, Underway
  <2>5. \A d \in Events : accepted'[d] # 0 => delivery'[d] \in {"sending", "delivered", "uncertain"}
    BY <1>1, <1>2, <1>5 DEF TriggerInv, Underway
  <2>6. QED BY <2>2, <2>3, <2>4, <2>5 DEF Underway
<1>9. Triggers!DeliveredOnce'
  BY <1>1, <1>2, <1>5 DEF TriggerInv, Triggers!DeliveredOnce
<1>10. QED BY <1>6, <1>7, <1>8, <1>9 DEF TriggerInv

LEMMA AnswerKeepsTriggers ==
  ASSUME TriggerInv, NEW p \in TickProcesses, Triggers!Answer(p)
  PROVE  TriggerInv'
<1> DEFINE e == tick[p].posting
<1>1. /\ e # NoEvent /\ ~tick[p].cut /\ tick' = [tick EXCEPT ![p].posting = NoEvent]
      /\ UNCHANGED <<sub, known, ticker>>
  BY DEF Triggers!Answer
<1>2. e \in Events /\ ticker = p /\ accepted[e] = 0 /\ accepted \in [Events -> Nat] /\ delivery \in [Events -> DeliveryState]
      /\ delivery[e] = "sending"
  BY <1>1, TickOf, TriggerTyped DEF TriggerInv, TickLocked, Underway, Posts
<1>3. PICK s \in {"delivered", "uncertain", "pending", "failed"}, n \in 0..1 :
        /\ delivery' = [delivery EXCEPT ![e] = s] /\ accepted' = [accepted EXCEPT ![e] = n]
        /\ s = "delivered" => n = 1
        /\ s \in {"pending", "failed"} => n = 0
  <2>1. accepted = [accepted EXCEPT ![e] = 0] /\ [accepted EXCEPT ![e] = @ + 1] = [accepted EXCEPT ![e] = 1]
    BY <1>2
  <2>2. CASE accepted' = [accepted EXCEPT ![e] = @ + 1] /\ \E s \in {"delivered", "uncertain"} : delivery' = [delivery EXCEPT ![e] = s]
    <3>1. PICK s \in {"delivered", "uncertain"} : delivery' = [delivery EXCEPT ![e] = s]
      BY <2>2
    <3>2. accepted' = [accepted EXCEPT ![e] = 1] /\ 1 \in 0..1
      BY <2>1, <2>2
    <3>3. QED BY <3>1, <3>2
  <2>3. CASE accepted' = accepted /\ \E s \in {"pending", "failed", "uncertain"} : delivery' = [delivery EXCEPT ![e] = s]
    <3>1. PICK s \in {"pending", "failed", "uncertain"} : delivery' = [delivery EXCEPT ![e] = s]
      BY <2>3
    <3>2. accepted' = [accepted EXCEPT ![e] = 0] /\ 0 \in 0..1
      BY <2>1, <2>3
    <3>3. QED BY <3>1, <3>2
  <2>4. QED BY <2>2, <2>3 DEF Triggers!Answer
<1>4. /\ \A d \in Events : delivery'[d] = IF d = e THEN s ELSE delivery[d]
      /\ \A d \in Events : accepted'[d] = IF d = e THEN n ELSE accepted[d]
      /\ delivery' \in [Events -> DeliveryState] /\ accepted' \in [Events -> Nat]
  BY <1>2, <1>3 DEF DeliveryState
<1> DEFINE t == [tick[p] EXCEPT !.posting = NoEvent]
<1>5. t \in Tick /\ t.batch = tick[p].batch /\ t.posting = NoEvent /\ t.cut = FALSE
  BY <1>1, TickOf DEF Tick
<1>6. tick' = [tick EXCEPT ![p] = t]
  BY <1>1
<1> HIDE DEF t
<1>7. /\ tick' \in [TickProcesses -> Tick]
      /\ \A q \in TickProcesses : tick'[q] = IF q = p THEN t ELSE tick[q]
  BY <1>5, <1>6, TickTyped
<1>8. Triggers!TypeOK'
  BY <1>1, <1>4, <1>7 DEF TriggerInv, Triggers!TypeOK, DeliveryState, Tick, TriggerSubs
<1>9. TickLocked'
  BY <1>1, <1>5, <1>7 DEF TriggerInv, TickLocked
<1>10. Underway'
  <2>1. Posts(p, e)
    BY <1>1 DEF Posts
  <2>2. \A q \in TickProcesses, d \in Events : Posts(q, d)' => q # p /\ Posts(q, d) /\ d # e /\ tick'[q] = tick[q]
    BY <1>2, <1>5, <1>7, <2>1 DEF Posts, TriggerInv, Underway
  <2>3. ASSUME NEW q \in TickProcesses, NEW d \in Events, Posts(q, d)'
        PROVE  /\ accepted'[d] = 0 /\ delivery'[d] \in {"sending", "uncertain"}
               /\ ~tick'[q].cut => delivery'[d] = "sending"
    BY <1>4, <2>2, <2>3 DEF TriggerInv, Underway
  <2>4. \A q, r \in TickProcesses, d \in Events : Posts(q, d)' /\ Posts(r, d)' => q = r
    BY <2>2 DEF TriggerInv, Underway
  <2>5. \A q \in TickProcesses, d \in Events : ticker' = q /\ d \in tick'[q].batch => delivery'[d] = "pending"
    <3>1. e \notin tick[p].batch
      BY <1>2 DEF TriggerInv, Underway
    <3>2. QED BY <1>1, <1>2, <1>4, <1>5, <1>7, <3>1 DEF TriggerInv, Underway
  <2>6. \A d \in Events : accepted'[d] # 0 => delivery'[d] \in {"sending", "delivered", "uncertain"}
    BY <1>3, <1>4 DEF TriggerInv, Underway
  <2>7. QED BY <2>3, <2>4, <2>5, <2>6 DEF Underway
<1>11. Triggers!DeliveredOnce'
  BY <1>3, <1>4 DEF TriggerInv, Triggers!DeliveredOnce
<1>12. QED BY <1>8, <1>9, <1>10, <1>11 DEF TriggerInv

\* A tick ends, or loses its session while its post is in flight.
LEMMA TickEndKeepsTriggers ==
  ASSUME TriggerInv, NEW p \in TickProcesses, Triggers!Release(p) \/ Triggers!SessionBreaks(p)
  PROVE  TriggerInv'
<1>1. ticker = p /\ ticker' = NoTicker /\ UNCHANGED <<delivery, sub, known, accepted>>
  BY DEF Triggers!Release, Triggers!SessionBreaks
<1>2. PICK t \in Tick : /\ tick' = [tick EXCEPT ![p] = t]
                        /\ t.posting = NoEvent \/ (t.posting = tick[p].posting /\ t.cut)
                        /\ t.cut => t.posting # NoEvent
  <2>1. CASE Triggers!Release(p)
    BY <2>1, TickQuiet DEF Triggers!Release
  <2>2. CASE Triggers!SessionBreaks(p)
    <3> DEFINE t == [tick[p] EXCEPT !.cut = TRUE]
    <3>1. t \in Tick /\ t.posting = tick[p].posting /\ t.cut = TRUE
      BY TickOf DEF Tick
    <3>2. tick' = [tick EXCEPT ![p] = t] /\ tick[p].posting # NoEvent
      BY <2>2 DEF Triggers!SessionBreaks
    <3> HIDE DEF t
    <3>3. QED BY <3>1, <3>2
  <2>3. QED BY <2>1, <2>2
<1>3. /\ tick' \in [TickProcesses -> Tick]
      /\ \A q \in TickProcesses : tick'[q] = IF q = p THEN t ELSE tick[q]
  BY <1>2, TickTyped
<1>4. Triggers!TypeOK'
  BY <1>1, <1>3 DEF TriggerInv, Triggers!TypeOK, Tick, TriggerSubs
<1>5. TickLocked'
  <2>1. \A q \in TickProcesses : ticker' # q
    BY <1>1, IntegrationsAssumption
  <2>2. \A q \in TickProcesses : q # p /\ tick[q].posting # NoEvent => tick[q].cut
    BY <1>1 DEF TriggerInv, TickLocked
  <2>3. QED BY <1>2, <1>3, <2>1, <2>2 DEF TriggerInv, TickLocked
<1>6. Underway'
  <2>1. \A q \in TickProcesses, d \in Events : Posts(q, d)' => Posts(q, d) /\ (tick[q].cut => tick'[q].cut)
    BY <1>2, <1>3 DEF Posts
  <2>2. ASSUME NEW q \in TickProcesses, NEW d \in Events, Posts(q, d)'
        PROVE  /\ accepted'[d] = 0 /\ delivery'[d] \in {"sending", "uncertain"}
               /\ ~tick'[q].cut => delivery'[d] = "sending"
    BY <1>1, <2>1, <2>2 DEF TriggerInv, Underway
  <2>3. \A q, r \in TickProcesses, d \in Events : Posts(q, d)' /\ Posts(r, d)' => q = r
    BY <2>1 DEF TriggerInv, Underway
  <2>4. \A q \in TickProcesses : ticker' # q
    BY <1>1, IntegrationsAssumption
  <2>5. \A d \in Events : accepted'[d] # 0 => delivery'[d] \in {"sending", "delivered", "uncertain"}
    BY <1>1 DEF TriggerInv, Underway
  <2>6. QED BY <2>2, <2>3, <2>4, <2>5 DEF Underway
<1>7. Triggers!DeliveredOnce'
  BY <1>1 DEF TriggerInv, Triggers!DeliveredOnce
<1>8. QED BY <1>4, <1>5, <1>6, <1>7 DEF TriggerInv

\* The post of a lost session may be accepted later; its row has never left sending or uncertain.
LEMMA LostAnswerKeepsTriggers ==
  ASSUME TriggerInv, NEW p \in TickProcesses, Triggers!LostAnswer(p)
  PROVE  TriggerInv'
<1> DEFINE e == tick[p].posting
<1>1. tick[p].cut /\ tick' = [tick EXCEPT ![p] = Triggers!Quiet] /\ UNCHANGED <<delivery, sub, known, ticker>>
  BY DEF Triggers!LostAnswer
<1>2. e \in Events /\ e # NoEvent /\ ticker # p /\ accepted[e] = 0 /\ accepted \in [Events -> Nat]
      /\ delivery[e] \in {"sending", "uncertain"}
  BY <1>1, TickOf, TriggerTyped DEF TriggerInv, TickLocked, Underway, Posts
<1>3. PICK n \in 0..1 : accepted' = [accepted EXCEPT ![e] = n]
  <2>1. accepted = [accepted EXCEPT ![e] = 0] /\ [accepted EXCEPT ![e] = @ + 1] = [accepted EXCEPT ![e] = 1]
    BY <1>2
  <2>2. QED BY <2>1 DEF Triggers!LostAnswer
<1>4. /\ \A d \in Events : accepted'[d] = IF d = e THEN n ELSE accepted[d]
      /\ accepted' \in [Events -> Nat]
  BY <1>2, <1>3
<1>5. /\ tick' \in [TickProcesses -> Tick]
      /\ \A q \in TickProcesses : tick'[q] = IF q = p THEN Triggers!Quiet ELSE tick[q]
  BY <1>1, TickQuiet, TickTyped
<1>6. Triggers!TypeOK'
  BY <1>1, <1>4, <1>5 DEF TriggerInv, Triggers!TypeOK, Tick, TriggerSubs
<1>7. TickLocked'
  BY <1>1, <1>2, <1>5, TickQuiet DEF TriggerInv, TickLocked
<1>8. Underway'
  <2>1. \A q \in TickProcesses, d \in Events : Posts(q, d)' => q # p /\ Posts(q, d) /\ d # e /\ tick'[q] = tick[q]
    BY <1>2, <1>5, TickQuiet DEF Posts, TriggerInv, Underway
  <2>2. ASSUME NEW q \in TickProcesses, NEW d \in Events, Posts(q, d)'
        PROVE  /\ accepted'[d] = 0 /\ delivery'[d] \in {"sending", "uncertain"}
               /\ ~tick'[q].cut => delivery'[d] = "sending"
    BY <1>1, <1>4, <2>1, <2>2 DEF TriggerInv, Underway
  <2>3. \A q, r \in TickProcesses, d \in Events : Posts(q, d)' /\ Posts(r, d)' => q = r
    BY <2>1 DEF TriggerInv, Underway
  <2>4. \A q \in TickProcesses, d \in Events : ticker' = q /\ d \in tick'[q].batch => delivery'[d] = "pending"
    BY <1>1, <1>2, <1>5 DEF TriggerInv, Underway
  <2>5. \A d \in Events : accepted'[d] # 0 => delivery'[d] \in {"sending", "delivered", "uncertain"}
    BY <1>1, <1>2, <1>4 DEF TriggerInv, Underway
  <2>6. QED BY <2>2, <2>3, <2>4, <2>5 DEF Underway
<1>9. Triggers!DeliveredOnce'
  BY <1>1, <1>2, <1>4 DEF TriggerInv, Triggers!DeliveredOnce
<1>10. QED BY <1>6, <1>7, <1>8, <1>9 DEF TriggerInv

LEMMA TriggerStepKeeps == TriggerInv /\ [Triggers!Next]_(Triggers!vars) => TriggerInv'
<1> SUFFICES ASSUME TriggerInv, [Triggers!Next]_(Triggers!vars) PROVE TriggerInv'
  OBVIOUS
<1>1. CASE UNCHANGED Triggers!vars
  BY <1>1 DEF Triggers!vars, TriggerInv, Triggers!TypeOK, TickLocked, Underway, Posts, Triggers!DeliveredOnce
<1>2. CASE Triggers!Next
  BY <1>2, SettingsKeepTriggers, CaptureKeepsTriggers, TickBeginKeepsTriggers, BatchKeepsTriggers,
     AnswerKeepsTriggers, TickEndKeepsTriggers, LostAnswerKeepsTriggers DEF Triggers!Next
<1>3. QED BY <1>1, <1>2

\* No run is forgotten, none is added to a delivery that does not say sending, and what is
\* delivered stays so.
LEMMA TriggersMoveOn ==
  ASSUME TriggerInv, [Triggers!Next]_(Triggers!vars), NEW e \in Events
  PROVE  /\ accepted'[e] >= accepted[e]
         /\ delivery[e] \in {"none", "pending", "failed", "skipped"} => accepted'[e] = 0
         /\ delivery[e] = "delivered" => delivery'[e] = "delivered"
<1>1. /\ delivery \in [Events -> DeliveryState] /\ accepted \in [Events -> Nat]
      /\ accepted[e] \in Nat /\ (delivery[e] \in {"none", "pending", "failed", "skipped"} => accepted[e] = 0)
  BY TriggerTyped DEF TriggerInv, Triggers!DeliveredOnce
<1>2. CASE UNCHANGED <<delivery, accepted>>
  BY <1>1, <1>2
<1>3. ASSUME NEW d \in Events, Triggers!Capture(d) PROVE UNCHANGED accepted /\ delivery' = [delivery EXCEPT ![d] = "pending"] /\ delivery[d] = "none"
  BY <1>3 DEF Triggers!Capture
<1>4. ASSUME NEW p \in TickProcesses, Triggers!Begin(p)
      PROVE  UNCHANGED accepted /\ delivery' = [d \in Events |-> Triggers!Interrupted(delivery[d])]
  BY <1>4 DEF Triggers!Begin
<1>5. ASSUME NEW p \in TickProcesses, NEW d \in Events, Triggers!Pass(p, d) \/ Triggers!Post(p, d)
      PROVE  /\ UNCHANGED accepted /\ delivery[d] = "pending"
             /\ delivery' = delivery \/ \E s \in {"skipped", "failed", "sending"} : delivery' = [delivery EXCEPT ![d] = s]
  BY <1>5 DEF TriggerInv, Underway, Triggers!Pass, Triggers!Post, Triggers!InBatch
<1>6. ASSUME NEW p \in TickProcesses, Triggers!Answer(p) \/ Triggers!LostAnswer(p)
      PROVE  \E d \in Events :
               /\ delivery[d] \in {"sending", "uncertain"}
               /\ delivery' = delivery \/ \E s \in DeliveryState : delivery' = [delivery EXCEPT ![d] = s]
               /\ accepted' = accepted \/ accepted' = [accepted EXCEPT ![d] = @ + 1]
  <2> DEFINE d == tick[p].posting
  <2>1. d \in Events /\ delivery[d] \in {"sending", "uncertain"}
    <3>1. d # NoEvent
      BY <1>6 DEF Triggers!Answer, Triggers!LostAnswer, TriggerInv, TickLocked
    <3>2. QED BY <3>1, TickOf DEF TriggerInv, Underway, Posts
  <2>2. delivery' = delivery \/ \E s \in DeliveryState : delivery' = [delivery EXCEPT ![d] = s]
    BY <1>6 DEF Triggers!Answer, Triggers!LostAnswer, DeliveryState
  <2>3. accepted' = accepted \/ accepted' = [accepted EXCEPT ![d] = @ + 1]
    BY <1>6 DEF Triggers!Answer, Triggers!LostAnswer
  <2> HIDE DEF d
  <2>4. QED BY <2>1, <2>2, <2>3
<1>7. CASE \E d \in Events : Triggers!Capture(d)
  BY <1>1, <1>3, <1>7
<1>8. CASE \E p \in TickProcesses : Triggers!Begin(p)
  BY <1>1, <1>4, <1>8 DEF Triggers!Interrupted
<1>9. CASE \E p \in TickProcesses, d \in Events : Triggers!Pass(p, d) \/ Triggers!Post(p, d)
  BY <1>1, <1>5, <1>9
<1>10. CASE \E p \in TickProcesses : Triggers!Answer(p) \/ Triggers!LostAnswer(p)
  <2>1. PICK d \in Events :
               /\ delivery[d] \in {"sending", "uncertain"}
               /\ delivery' = delivery \/ \E s \in DeliveryState : delivery' = [delivery EXCEPT ![d] = s]
               /\ accepted' = accepted \/ accepted' = [accepted EXCEPT ![d] = @ + 1]
    BY <1>6, <1>10
  <2>2. QED BY <1>1, <2>1
<1>11. Triggers!Subscribe \/ Triggers!Link \/ (\E p \in TickProcesses : Triggers!Release(p) \/ Triggers!SessionBreaks(p))
       \/ UNCHANGED Triggers!vars => UNCHANGED <<delivery, accepted>>
  BY DEF Triggers!Subscribe, Triggers!Link, Triggers!Release, Triggers!SessionBreaks, Triggers!vars
<1>12. QED BY <1>2, <1>7, <1>8, <1>9, <1>10, <1>11 DEF Triggers!Next

\* Each event takes a step of the promise, or rests.
LEMMA TriggersPromise ==
  ASSUME TriggerInv, TriggerInv', [Triggers!Next]_(Triggers!vars)
  PROVE  Triggers!Promise!Next
<1> SUFFICES ASSUME NEW e \in Events
             PROVE  \/ Triggers!Promise!Intend(e) \/ Triggers!Promise!Act(e) \/ Triggers!Promise!Settle(e)
                    \/ Triggers!Promise!Withdraw(e) \/ Triggers!Promise!Rest(e)
  BY DEF Triggers!Promise!Next
<1>1. /\ delivery[e] \in DeliveryState /\ delivery'[e] \in DeliveryState
      /\ accepted[e] \in 0..1 /\ accepted'[e] \in 0..1
      /\ delivery[e] = "delivered" => accepted[e] = 1
      /\ delivery[e] \in {"none", "pending", "failed", "skipped"} => accepted[e] = 0
      /\ delivery'[e] = "delivered" => accepted'[e] = 1
      /\ delivery'[e] \in {"none", "pending", "failed", "skipped"} => accepted'[e] = 0
  <2>1. delivery \in [Events -> DeliveryState] /\ accepted \in [Events -> Nat]
    BY TriggerTyped DEF TriggerInv
  <2>2. delivery' \in [Events -> DeliveryState] /\ accepted' \in [Events -> Nat]
    BY DEF TriggerInv, Triggers!TypeOK, DeliveryState
  <2>3. QED BY <2>1, <2>2 DEF TriggerInv, Triggers!DeliveredOnce
<1>2. /\ [d \in Events |-> Triggers!Said(delivery[d])][e] = Triggers!Said(delivery[e])
      /\ [d \in Events |-> Triggers!Said(delivery'[d])][e] = Triggers!Said(delivery'[e])
  OBVIOUS
<1>3. QED
  BY <1>1, <1>2, TriggersMoveOn
  DEF DeliveryState, Triggers!Said, Triggers!Promise!Intend, Triggers!Promise!Act, Triggers!Promise!Settle,
      Triggers!Promise!Withdraw, Triggers!Promise!Rest

LEMMA TriggersPromiseInit == Triggers!Init => Triggers!Promise!Init
BY DEF Triggers!Init, Triggers!Promise!Init, Triggers!Said

-----------------------------------------------------------------------------
(***************************************************************************)
(* Tokens: that the stored token is good rests on who else may spend or    *)
(* replace it.  Only the holder of the row's lock asks or has traded       *)
(* (RowLocked), it asks with what the row holds (AskedStored), a token in  *)
(* hand is good (TokensInHand), and no two processes hold the same         *)
(* (TokensApart).                                                          *)
(***************************************************************************)

RowLocked == \A p \in TokenProcesses : trade[p].step \in {"ask", "save"} => rowLock = {p}

AskedStored ==
  \A p \in TokenProcesses : trade[p].step = "ask" => trade[p].token = stored /\ present

TokensInHand ==
  \A p \in TokenProcesses :
    /\ trade[p].step = "install" => trade[p].token \in good /\ trade[p].token # stored
    /\ trade[p].step = "save" =>
         \/ trade[p].token \in good
         \/ trade[p].token = Tokens!NoToken /\ ofAgency /\ silent /\ stored \in good

TokensApart ==
  \A p, q \in TokenProcesses :
    p # q /\ trade[p].step = "install" /\ trade[q].step \in {"install", "save"}
      => trade[p].token # trade[q].token

\* The row holds a good token, or its holder has the next one in hand; an agency's may have none.
TokenUsable ==
  ~lost /\ present =>
    \/ stored \in good
    \/ ofAgency /\ silent /\ stored = Tokens!NoToken
    \/ \E p \in TokenProcesses : trade[p].step = "save" /\ rowLock = {p}

TokenInv == Tokens!TypeOK /\ RowLocked /\ AskedStored /\ TokensInHand /\ TokensApart /\ TokenUsable

\* A callback gets a token that nobody has.
LEMMA ExchangeKeepsTokens ==
  ASSUME TokenInv, NEW p \in TokenProcesses, Tokens!Exchange(p)
  PROVE  TokenInv'
<1>1. Tokens!TypeOK'
  BY DEF TokenInv, Tokens!TypeOK, Tokens!Exchange, Tokens!Goto
<1>2. RowLocked'
  BY DEF TokenInv, RowLocked, Tokens!Exchange, Tokens!Goto
<1>3. AskedStored'
  BY DEF TokenInv, AskedStored, Tokens!Exchange, Tokens!Goto
<1>4. TokensInHand'
  BY DEF TokenInv, Tokens!TypeOK, TokensInHand, Tokens!Exchange, Tokens!Goto
<1>5. TokensApart'
  BY DEF TokenInv, Tokens!TypeOK, TokensApart, Tokens!Exchange, Tokens!Goto
<1>6. TokenUsable'
  BY DEF TokenInv, TokenUsable, Tokens!Exchange, Tokens!Goto, Tokens!Idle
<1>7. QED BY <1>1, <1>2, <1>3, <1>4, <1>5, <1>6 DEF TokenInv

\* The token of the callback replaces the row, which nobody holds.
LEMMA InstallKeepsTokens ==
  ASSUME TokenInv, NEW p \in TokenProcesses, Tokens!Install(p)
  PROVE  TokenInv'
<1>1. Tokens!TypeOK'
  BY DEF TokenInv, Tokens!TypeOK, Tokens!Install, Tokens!Rest, Tokens!Idle, Tokens!NoToken
<1>2. RowLocked'
  BY DEF TokenInv, RowLocked, Tokens!Install, Tokens!Rest, Tokens!Idle
<1>3. AskedStored'
  BY DEF TokenInv, RowLocked, AskedStored, Tokens!Install, Tokens!Rest, Tokens!Idle
<1>4. TokensInHand'
  BY DEF TokenInv, Tokens!TypeOK, RowLocked, TokensInHand, TokensApart, Tokens!Install, Tokens!Rest, Tokens!Idle
<1>5. TokensApart'
  BY DEF TokenInv, TokensApart, Tokens!Install, Tokens!Rest, Tokens!Idle
<1>6. TokenUsable'
  BY DEF TokenInv, TokensInHand, TokenUsable, Tokens!Install
<1>7. QED BY <1>1, <1>2, <1>3, <1>4, <1>5, <1>6 DEF TokenInv

\* The lock is taken: nobody else has asked or traded.
LEMMA LoadKeepsTokens ==
  ASSUME TokenInv, NEW p \in TokenProcesses, Tokens!Load(p)
  PROVE  TokenInv'
<1>1. Tokens!TypeOK'
  BY DEF TokenInv, Tokens!TypeOK, Tokens!Load, Tokens!Goto
<1>2. RowLocked'
  BY DEF TokenInv, RowLocked, Tokens!Load, Tokens!Goto
<1>3. AskedStored'
  BY DEF TokenInv, AskedStored, Tokens!Load, Tokens!Goto
<1>4. TokensInHand'
  BY DEF TokenInv, TokensInHand, Tokens!Load, Tokens!Goto
<1>5. TokensApart'
  BY DEF TokenInv, TokensApart, Tokens!Load, Tokens!Goto
<1>6. TokenUsable'
  BY DEF TokenInv, TokenUsable, Tokens!Load
<1>7. QED BY <1>1, <1>2, <1>3, <1>4, <1>5, <1>6 DEF TokenInv

\* The trade spends the token of the row, and only that.
LEMMA RefreshKeepsTokens ==
  ASSUME TokenInv, NEW p \in TokenProcesses, Tokens!Refresh(p)
  PROVE  TokenInv'
<1>1. Tokens!TypeOK'
  <2>1. issued' \in Nat /\ stored' \in 0..issued' /\ good' \subseteq 1..issued'
    <3>1. issued' \in Nat /\ issued <= issued' /\ good' \subseteq good \cup {issued'} /\ stored' = stored
      BY DEF TokenInv, Tokens!TypeOK, Tokens!Refresh
    <3>2. (issued' = issued /\ good' = good) \/ issued' = issued + 1
      BY DEF Tokens!Refresh
    <3>3. QED BY <3>1, <3>2 DEF TokenInv, Tokens!TypeOK
  <2>2. /\ ofAgency' \in BOOLEAN /\ present' \in BOOLEAN /\ fresh' \in BOOLEAN
        /\ lost' \in BOOLEAN /\ silent' \in BOOLEAN /\ rowLock' \subseteq TokenProcesses
    BY DEF TokenInv, Tokens!TypeOK, Tokens!Refresh, Tokens!Rollback
  <2>3. trade' \in [TokenProcesses -> [step : {"idle", "install", "ask", "save"}, token : 0..issued']]
    BY DEF TokenInv, Tokens!TypeOK, Tokens!Refresh, Tokens!Goto, Tokens!Rollback, Tokens!Rest, Tokens!Idle, Tokens!NoToken
  <2>4. QED BY <2>1, <2>2, <2>3 DEF Tokens!TypeOK
<1>2. RowLocked'
  BY DEF TokenInv, Tokens!TypeOK, RowLocked, Tokens!Refresh, Tokens!Goto, Tokens!Rollback, Tokens!Rest, Tokens!Idle
<1>3. AskedStored'
  BY DEF TokenInv, Tokens!TypeOK, AskedStored, Tokens!Refresh, Tokens!Goto, Tokens!Rollback, Tokens!Rest, Tokens!Idle
<1>4. TokensInHand'
  BY SMTT(30) DEF TokenInv, Tokens!TypeOK, RowLocked, AskedStored, TokensInHand, Tokens!Refresh, Tokens!Goto, Tokens!Rollback, Tokens!Rest, Tokens!Idle
<1>5. TokensApart'
  BY SMTT(30) DEF TokenInv, Tokens!TypeOK, AskedStored, TokensInHand, TokensApart, Tokens!Refresh, Tokens!Goto, Tokens!Rollback, Tokens!Rest, Tokens!Idle, Tokens!NoToken
<1>6. TokenUsable'
  BY DEF TokenInv, Tokens!TypeOK, RowLocked, AskedStored, TokenUsable, Tokens!Refresh, Tokens!Goto
<1>7. QED BY <1>1, <1>2, <1>3, <1>4, <1>5, <1>6 DEF TokenInv

\* The holder stores the token it has in hand.
LEMMA SaveKeepsTokens ==
  ASSUME TokenInv, NEW p \in TokenProcesses, Tokens!Save(p)
  PROVE  TokenInv'
<1>1. Tokens!TypeOK'
  BY DEF TokenInv, Tokens!TypeOK, Tokens!Save, Tokens!Rest, Tokens!Idle, Tokens!NoToken
<1>2. RowLocked'
  BY DEF TokenInv, Tokens!TypeOK, RowLocked, Tokens!Save, Tokens!Rest, Tokens!Idle
<1>3. AskedStored'
  BY DEF TokenInv, RowLocked, AskedStored, Tokens!Save, Tokens!Rest, Tokens!Idle
<1>4. TokensInHand'
  BY DEF TokenInv, Tokens!TypeOK, RowLocked, TokensInHand, TokensApart, Tokens!Save, Tokens!Rest, Tokens!Idle, Tokens!NoToken
<1>5. TokensApart'
  BY DEF TokenInv, TokensApart, Tokens!Save, Tokens!Rest, Tokens!Idle
<1>6. TokenUsable'
  BY DEF TokenInv, TokensInHand, TokenUsable, Tokens!Save
<1>7. QED BY <1>1, <1>2, <1>3, <1>4, <1>5, <1>6 DEF TokenInv

\* What is rolled back is lost, unless it was the token of the row, or none.
LEMMA SaveFailsKeepsTokens ==
  ASSUME TokenInv, NEW p \in TokenProcesses, Tokens!SaveFails(p)
  PROVE  TokenInv'
<1>1. Tokens!TypeOK'
  BY DEF TokenInv, Tokens!TypeOK, Tokens!SaveFails, Tokens!Rollback, Tokens!Rest, Tokens!Idle, Tokens!NoToken
<1>2. RowLocked'
  BY DEF TokenInv, Tokens!TypeOK, RowLocked, Tokens!SaveFails, Tokens!Rollback, Tokens!Rest, Tokens!Idle
<1>3. AskedStored'
  BY DEF TokenInv, AskedStored, Tokens!SaveFails, Tokens!Rollback, Tokens!Rest, Tokens!Idle
<1>4. TokensInHand'
  BY DEF TokenInv, TokensInHand, Tokens!SaveFails, Tokens!Rollback, Tokens!Rest, Tokens!Idle
<1>5. TokensApart'
  BY DEF TokenInv, TokensApart, Tokens!SaveFails, Tokens!Rollback, Tokens!Rest, Tokens!Idle
<1>6. TokenUsable'
  <2>1. stored' = stored /\ good' = good
    BY DEF Tokens!SaveFails
  <2>2. SUFFICES ASSUME ~lost' PROVE stored' \in good'
    BY DEF TokenUsable
  <2>3. trade[p].token \in {stored, Tokens!NoToken} /\ Tokens!NoToken \notin good
    <3>1. lost' = (lost \/ trade[p].token \notin {stored, Tokens!NoToken})
      BY DEF Tokens!SaveFails
    <3>2. trade[p].token \in {stored, Tokens!NoToken}
      BY Zenon, <2>2, <3>1
    <3>3. Tokens!NoToken \notin good
      BY DEF TokenInv, Tokens!TypeOK, Tokens!NoToken
    <3>4. QED BY <3>2, <3>3
  <2>4. trade[p].token \in good \/ stored \in good
    BY DEF TokenInv, TokensInHand, Tokens!SaveFails
  <2>5. QED BY <2>1, <2>3, <2>4
<1>7. QED BY <1>1, <1>2, <1>3, <1>4, <1>5, <1>6 DEF TokenInv

\* A token in hand is forgotten.
LEMMA InstallDiesKeepsTokens ==
  ASSUME TokenInv, NEW p \in TokenProcesses, Tokens!InstallDies(p)
  PROVE  TokenInv'
<1>1. Tokens!TypeOK'
  BY DEF TokenInv, Tokens!TypeOK, Tokens!InstallDies, Tokens!Rest, Tokens!Idle, Tokens!NoToken
<1>2. RowLocked'
  BY DEF TokenInv, RowLocked, Tokens!InstallDies, Tokens!Rest, Tokens!Idle
<1>3. AskedStored'
  BY DEF TokenInv, AskedStored, Tokens!InstallDies, Tokens!Rest, Tokens!Idle
<1>4. TokensInHand'
  BY DEF TokenInv, TokensInHand, Tokens!InstallDies, Tokens!Rest, Tokens!Idle
<1>5. TokensApart'
  BY DEF TokenInv, TokensApart, Tokens!InstallDies, Tokens!Rest, Tokens!Idle
<1>6. TokenUsable'
  BY DEF TokenInv, TokenUsable, Tokens!InstallDies, Tokens!Rest
<1>7. QED BY <1>1, <1>2, <1>3, <1>4, <1>5, <1>6 DEF TokenInv

\* Time passes, or the connection is revoked: nobody holds the row then.
LEMMA RowKeepsTokens ==
  ASSUME TokenInv, Tokens!AccessExpires \/ Tokens!RevokeTokens
  PROVE  TokenInv'
<1>1. CASE Tokens!AccessExpires
  BY <1>1 DEF TokenInv, Tokens!TypeOK, RowLocked, AskedStored, TokensInHand, TokensApart, TokenUsable, Tokens!AccessExpires
<1>2. CASE Tokens!RevokeTokens
  <2>1. Tokens!TypeOK'
    <3>1. stored' \in 0..issued' /\ issued' \in Nat
      BY <1>2 DEF TokenInv, Tokens!TypeOK, Tokens!RevokeTokens, Tokens!NoToken
    <3>2. QED BY <1>2, <3>1 DEF TokenInv, Tokens!TypeOK, Tokens!RevokeTokens
  <2>2. RowLocked' /\ AskedStored' /\ TokenUsable'
    BY <1>2 DEF TokenInv, RowLocked, AskedStored, TokenUsable, Tokens!RevokeTokens
  <2>3. TokensInHand'
    BY <1>2 DEF TokenInv, Tokens!TypeOK, RowLocked, TokensInHand, Tokens!RevokeTokens, Tokens!NoToken
  <2>4. TokensApart'
    BY <1>2 DEF TokenInv, TokensApart, Tokens!RevokeTokens
  <2>5. QED BY <2>1, <2>2, <2>3, <2>4 DEF TokenInv
<1>3. QED BY <1>1, <1>2

LEMMA TokenInit == Tokens!Init => TokenInv
<1> SUFFICES ASSUME Tokens!Init PROVE TokenInv
  OBVIOUS
<1>1. Tokens!TypeOK
  <2>1. Tokens!Idle \in [step : {"idle", "install", "ask", "save"}, token : 0..issued]
    BY DEF Tokens!Init, Tokens!Idle, Tokens!NoToken
  <2>2. trade \in [TokenProcesses -> [step : {"idle", "install", "ask", "save"}, token : 0..issued]]
    BY <2>1 DEF Tokens!Init
  <2>3. issued \in Nat /\ stored \in 0..issued /\ good \subseteq 1..issued
    BY DEF Tokens!Init, Tokens!NoToken
  <2>4. QED BY <2>2, <2>3 DEF Tokens!Init, Tokens!TypeOK
<1>2. RowLocked /\ AskedStored /\ TokensInHand /\ TokensApart /\ TokenUsable
  BY DEF Tokens!Init, RowLocked, AskedStored, TokensInHand, TokensApart, TokenUsable, Tokens!Idle
<1>3. QED BY <1>1, <1>2 DEF TokenInv

LEMMA TokenStepKeeps == TokenInv /\ [Tokens!Next]_(Tokens!vars) => TokenInv'
<1> SUFFICES ASSUME TokenInv, [Tokens!Next]_(Tokens!vars) PROVE TokenInv'
  OBVIOUS
<1>1. CASE UNCHANGED Tokens!vars
  BY <1>1 DEF Tokens!vars, TokenInv, Tokens!TypeOK, RowLocked, AskedStored, TokensInHand, TokensApart, TokenUsable
<1>2. CASE Tokens!Next
  <2>1. ASSUME NEW p \in TokenProcesses,
               \/ Tokens!Exchange(p) \/ Tokens!Install(p) \/ Tokens!Load(p) \/ Tokens!Refresh(p)
               \/ Tokens!Save(p) \/ Tokens!SaveFails(p) \/ Tokens!InstallDies(p)
        PROVE  TokenInv'
    BY <2>1, ExchangeKeepsTokens, InstallKeepsTokens, LoadKeepsTokens, RefreshKeepsTokens,
       SaveKeepsTokens, SaveFailsKeepsTokens, InstallDiesKeepsTokens
  <2>2. QED BY <1>2, <2>1, RowKeepsTokens DEF Tokens!Next
<1>3. QED BY <1>1, <1>2

LEMMA TokenInvSurvives == TokenInv => Tokens!TokenSurvives
<1> SUFFICES ASSUME TokenInv, ~lost PROVE Tokens!TokenSurvives
  BY DEF Tokens!TokenSurvives
<1>1. present /\ stored \notin good =>
        \/ ofAgency /\ silent /\ stored = Tokens!NoToken
        \/ \E p \in TokenProcesses : trade[p].step = "save" /\ rowLock = {p}
  BY DEF TokenInv, TokenUsable
<1>2. ASSUME NEW p \in TokenProcesses, trade[p].step = "ask"
      PROVE  trade[p].token \in good \/ (ofAgency /\ silent /\ trade[p].token = Tokens!NoToken)
  BY <1>2 DEF TokenInv, RowLocked, AskedStored, TokenUsable
<1>3. QED BY <1>1, <1>2 DEF Tokens!TokenSurvives

-----------------------------------------------------------------------------
(***************************************************************************)
(* OpenWA: a request carries, from step to step, what its report will say. *)
(***************************************************************************)

OpenReceipt == [status : {"none", "processing", "processed", "failed", "dead_letter"}, attempts : Nat]
SessionStatus == {"none", "connecting"} \cup {e.status : e \in OwaEvents}
OpenChat == {"none", "accepted", "sent", "received", "delivered", "read", "failed"}
EventSteps == {"existing", "resume", "message", "ack", "state", "callback", "processed", "fail"}
Serving == [step : EventSteps \cup {"rest", "send", "record"}, at : Nat, event : OwaEvents \cup {NoEvent},
            key : OwaKeys \cup {"none"}, id : Outbound \cup {NoId}, stored : BOOLEAN]

\* What request s may still report is so, in chats c, with handled events h and files t.
Claims(s, c, h, t) ==
  /\ s.step \in EventSteps => s.at \in Open!Connections /\ s.event \in OwaEvents
  /\ s.step = "message" => s.event.kind = "message"
  /\ s.step \in {"ack", "state"} => s.event.kind = s.step
  /\ s.step \in {"callback", "processed"} => (s.event.kind = "message" => c[s.at][s.event.msg] # "none")
  /\ s.step = "processed" => s.event \in h
  /\ s.step \in {"send", "record"} => s.at \in Open!Connections /\ s.key \in OwaKeys
  /\ s.step = "record" => s.id \in t[s.key]

OpenTypes ==
  /\ session \in [connection : 0..MaxConnections, status : SessionStatus]
  /\ receipts \in [Open!Connections -> [OwaEvents -> OpenReceipt]]
  /\ chat \in [Open!Connections -> [OwaIds -> OpenChat]]
  /\ taken \in [OwaKeys -> SUBSET Outbound]
  /\ keyed \subseteq OwaKeys /\ told \subseteq OwaKeys
  /\ serving \in [OwaRequests -> Serving]

OpenInv ==
  /\ OpenTypes
  /\ \A r \in OwaRequests : Claims(serving[r], chat, handled, taken)
  /\ \A k \in keyed : taken[k] # {}
  /\ Open!ReportsAreTrue

\* Messages are not taken back, nor handled events, nor files.
Grows ==
  /\ \A c \in Open!Connections, i \in OwaIds : chat[c][i] # "none" => chat'[c][i] # "none"
  /\ handled \subseteq handled'
  /\ \A k \in OwaKeys : taken[k] \subseteq taken'[k]

LEMMA OpenEvent ==
  ASSUME NEW e \in OwaEvents
  PROVE  e.kind \in {"message", "ack", "state"} /\ e.status \in SessionStatus /\ (e.kind # "state" => e.msg \in OwaIds)
BY IntegrationsAssumption DEF SessionStatus

LEMMA ClaimsGrow ==
  ASSUME OpenInv, Grows, NEW r \in OwaRequests
  PROVE  Claims(serving[r], chat', handled', taken')
<1>1. serving[r] \in Serving /\ Claims(serving[r], chat, handled, taken)
  BY DEF OpenInv, OpenTypes
<1>2. serving[r].step \in {"callback", "processed"} => (serving[r].event.kind = "message" => chat'[serving[r].at][serving[r].event.msg] # "none")
  <2>1. SUFFICES ASSUME serving[r].step \in {"callback", "processed"}, serving[r].event.kind = "message"
                 PROVE  chat'[serving[r].at][serving[r].event.msg] # "none"
    OBVIOUS
  <2>2. serving[r].at \in Open!Connections /\ serving[r].event \in OwaEvents /\ chat[serving[r].at][serving[r].event.msg] # "none"
    BY <1>1, <2>1 DEF Claims, EventSteps
  <2>3. serving[r].event.msg \in OwaIds
    BY <2>1, <2>2, OpenEvent
  <2>4. QED BY <2>2, <2>3 DEF Grows
<1>3. serving[r].step = "record" => serving[r].id \in taken'[serving[r].key]
  BY <1>1 DEF Claims, Grows
<1>4. QED BY <1>1, <1>2, <1>3 DEF Claims, Grows

\* A step of one request, with what is known of the rest.
LEMMA OpenMoves ==
  ASSUME OpenInv, Grows, NEW r \in OwaRequests, NEW s \in Serving,
         serving' = [serving EXCEPT ![r] = s], Claims(s, chat', handled', taken')
  PROVE  /\ serving' \in [OwaRequests -> Serving]
         /\ \A q \in OwaRequests : Claims(serving'[q], chat', handled', taken')
<1>1. serving' \in [OwaRequests -> Serving] /\ \A q \in OwaRequests : serving'[q] = IF q = r THEN s ELSE serving[q]
  BY DEF OpenInv, OpenTypes
<1>2. \A q \in OwaRequests : Claims(serving[q], chat', handled', taken')
  BY ClaimsGrow
<1>3. QED BY <1>1, <1>2

LEMMA OpenRest ==
  /\ Open!Rest \in Serving
  /\ \A c, h, t : Claims(Open!Rest, c, h, t)
<1>1. Open!Rest \in Serving /\ Open!Rest.step = "rest"
  BY DEF Open!Rest, Serving
<1>2. QED BY <1>1 DEF Claims, EventSteps

\* The record of a request that takes a step.
LEMMA OpenTo ==
  ASSUME OpenInv, NEW r \in OwaRequests, NEW step \in EventSteps, Open!To(r, step)
  PROVE  \E s \in Serving : /\ serving' = [serving EXCEPT ![r] = s]
                            /\ s.step = step /\ s.at = serving[r].at /\ s.event = serving[r].event
<1> DEFINE s == [serving[r] EXCEPT !.step = step]
<1>1. serving[r] \in Serving
  BY DEF OpenInv, OpenTypes
<1>2. s \in Serving /\ s.step = step /\ s.at = serving[r].at /\ s.event = serving[r].event
  BY <1>1 DEF Serving
<1>3. serving' = [serving EXCEPT ![r] = s]
  BY DEF Open!To
<1> HIDE DEF s
<1>4. QED BY <1>2, <1>3

\* What reports say stays so, for the receipts and callers that are not new.
LEMMA ReportsKept ==
  ASSUME OpenInv, Grows, taken' \in [OwaKeys -> SUBSET Outbound],
         \A c \in Open!Connections, e \in OwaEvents : receipts'[c][e].status = "processed" =>
           \/ receipts[c][e].status = "processed"
           \/ e \in handled' /\ (e.kind = "message" => chat'[c][e.msg] # "none"),
         \A k \in told' : k \in told \/ taken'[k] # {}
  PROVE  Open!ReportsAreTrue'
<1>1. ASSUME NEW c \in Open!Connections, NEW e \in OwaEvents, receipts'[c][e].status = "processed"
      PROVE  e \in handled' /\ (e.kind = "message" => chat'[c][e.msg] # "none")
  <2>1. CASE receipts[c][e].status = "processed"
    <3>1. e \in handled /\ (e.kind = "message" => chat[c][e.msg] # "none")
      BY <2>1 DEF OpenInv, Open!ReportsAreTrue
    <3>2. QED BY <3>1, OpenEvent DEF Grows
  <2>2. QED BY <1>1, <2>1
<1>2. ASSUME NEW k \in told' PROVE taken'[k] # {}
  BY DEF OpenInv, OpenTypes, Open!ReportsAreTrue, Grows
<1>3. QED BY <1>1, <1>2 DEF Open!ReportsAreTrue

LEMMA OpenInit == Open!Init => OpenInv
<1> SUFFICES ASSUME Open!Init PROVE OpenInv
  OBVIOUS
<1>1. session \in [connection : 0..MaxConnections, status : SessionStatus]
  <2>1. 0 \in 0..MaxConnections
    BY IntegrationsAssumption
  <2>2. QED BY <2>1 DEF Open!Init, SessionStatus
<1>2. Open!NoReceipt \in OpenReceipt /\ Open!NoReceipt.status = "none"
  BY DEF Open!NoReceipt, OpenReceipt
<1>3. OpenTypes
  BY <1>1, <1>2, OpenRest DEF OpenTypes, Open!Init, OpenChat
<1>4. \A r \in OwaRequests : Claims(serving[r], chat, handled, taken)
  BY OpenRest DEF Open!Init
<1>5. Open!ReportsAreTrue
  BY <1>2 DEF Open!Init, Open!ReportsAreTrue
<1>6. QED BY <1>3, <1>4, <1>5 DEF OpenInv, Open!Init

\* A receipt is written, of the kind it may be.
LEMMA ReceiptWritten ==
  ASSUME OpenInv, NEW c \in Open!Connections, NEW e \in OwaEvents, NEW x \in OpenReceipt,
         receipts' = [receipts EXCEPT ![c][e] = x]
  PROVE  /\ receipts' \in [Open!Connections -> [OwaEvents -> OpenReceipt]]
         /\ \A d \in Open!Connections, f \in OwaEvents :
              receipts'[d][f] = IF d = c /\ f = e THEN x ELSE receipts[d][f]
<1>1. receipts \in [Open!Connections -> [OwaEvents -> OpenReceipt]]
  BY DEF OpenInv, OpenTypes
<1>2. \A d \in Open!Connections : receipts'[d] = IF d = c THEN [receipts[c] EXCEPT ![e] = x] ELSE receipts[d]
  BY <1>1
<1>3. \A d \in Open!Connections, f \in OwaEvents :
        receipts'[d][f] = IF d = c /\ f = e THEN x ELSE receipts[d][f]
  BY <1>1, <1>2
<1>4. receipts' \in [Open!Connections -> [OwaEvents -> OpenReceipt]]
  <2>1. [receipts[c] EXCEPT ![e] = x] \in [OwaEvents -> OpenReceipt]
    BY <1>1
  <2>2. QED BY <1>1, <2>1
<1>5. QED BY <1>3, <1>4

\* A chat is written.
LEMMA ChatWritten ==
  ASSUME OpenInv, NEW c \in Open!Connections, NEW i, NEW x \in OpenChat, chat' = [chat EXCEPT ![c][i] = x]
  PROVE  /\ chat' \in [Open!Connections -> [OwaIds -> OpenChat]]
         /\ \A d \in Open!Connections, j \in OwaIds : chat'[d][j] = IF d = c /\ j = i THEN x ELSE chat[d][j]
<1>1. chat \in [Open!Connections -> [OwaIds -> OpenChat]]
  BY DEF OpenInv, OpenTypes
<1>2. \A d \in Open!Connections : chat'[d] = IF d = c THEN [chat[c] EXCEPT ![i] = x] ELSE chat[d]
  BY <1>1
<1>3. [chat[c] EXCEPT ![i] = x] \in [OwaIds -> OpenChat]
  BY <1>1
<1>4. \A d \in Open!Connections, j \in OwaIds : chat'[d][j] = IF d = c /\ j = i THEN x ELSE chat[d][j]
  BY <1>1, <1>2
<1>5. chat' \in [Open!Connections -> [OwaIds -> OpenChat]]
  BY <1>1, <1>2, <1>3
<1>6. QED BY <1>4, <1>5

\* The number is enabled, or its session told of: no request and no receipt is involved.
LEMMA EnableKeepsOpen ==
  ASSUME OpenInv, Open!Enable
  PROVE  OpenInv'
<1>1. /\ session' = [connection |-> session.connection + 1, status |-> "connecting"]
      /\ session.connection < MaxConnections
      /\ UNCHANGED <<receipts, chat, keyed, serving, taken, handled, told>>
  BY DEF Open!Enable
<1>2. session' \in [connection : 0..MaxConnections, status : SessionStatus]
  <2>1. session.connection \in 0..MaxConnections /\ MaxConnections \in Nat
    BY IntegrationsAssumption DEF OpenInv, OpenTypes
  <2>2. session.connection + 1 \in 0..MaxConnections
    BY <1>1, <2>1
  <2>3. QED BY <1>1, <2>2 DEF SessionStatus
<1>3. OpenTypes'
  BY <1>1, <1>2 DEF OpenInv, OpenTypes, Open!Connections
<1>4. QED BY <1>1, <1>3 DEF OpenInv, Claims, Open!ReportsAreTrue, Open!Connections

\* Whoever dies reports nothing.
LEMMA DieKeepsOpen ==
  ASSUME OpenInv, Open!Die
  PROVE  OpenInv'
<1>1. /\ serving' = [r \in OwaRequests |-> Open!Rest]
      /\ UNCHANGED <<session, receipts, chat, keyed, taken, handled, told>>
  BY DEF Open!Die
<1>2. OpenTypes'
  BY <1>1, OpenRest DEF OpenInv, OpenTypes
<1>3. \A r \in OwaRequests : Claims(serving[r], chat, handled, taken)'
  BY <1>1, OpenRest
<1>4. QED BY <1>1, <1>2, <1>3 DEF OpenInv, Open!ReportsAreTrue

\* The steps of an event that write nothing but its receipt.
LEMMA ReceiptKeepsOpen ==
  ASSUME OpenInv, NEW r \in OwaRequests,
         Open!Existing(r) \/ Open!Resume(r) \/ Open!Processed(r) \/ Open!Fault(r) \/ Open!Fail(r)
  PROVE  OpenInv'
<1> DEFINE c == serving[r].at
           e == serving[r].event
<1>1. UNCHANGED <<session, chat, keyed, taken, handled, told>> /\ serving[r].step \in EventSteps
  BY DEF Open!Existing, Open!Resume, Open!Processed, Open!Fault, Open!Fail, EventSteps
<1>2. c \in Open!Connections /\ e \in OwaEvents /\ Claims(serving[r], chat, handled, taken)
  BY <1>1 DEF OpenInv, Claims
<1>3. Grows
  BY <1>1 DEF Grows
<1>4. receipts[c][e] \in OpenReceipt
  BY <1>2 DEF OpenInv, OpenTypes
<1>5. ASSUME NEW s \in Serving, serving' = [serving EXCEPT ![r] = s], Claims(s, chat', handled', taken'),
             receipts' \in [Open!Connections -> [OwaEvents -> OpenReceipt]],
             \A d \in Open!Connections, f \in OwaEvents : receipts'[d][f].status = "processed" =>
               \/ receipts[d][f].status = "processed"
               \/ f \in handled' /\ (f.kind = "message" => chat'[d][f.msg] # "none")
      PROVE  OpenInv'
  <2>1. /\ serving' \in [OwaRequests -> Serving]
        /\ \A q \in OwaRequests : Claims(serving'[q], chat', handled', taken')
    BY <1>3, <1>5, OpenMoves
  <2>2. OpenTypes'
    BY <1>1, <1>5, <2>1 DEF OpenInv, OpenTypes, Open!Connections
  <2>3. Open!ReportsAreTrue'
    <3>1. taken' \in [OwaKeys -> SUBSET Outbound] /\ \A k \in told' : k \in told
      BY <1>1 DEF OpenInv, OpenTypes
    <3>2. QED BY <1>3, <1>5, <3>1, ReportsKept
  <2>4. QED BY <1>1, <2>1, <2>2, <2>3 DEF OpenInv
<1>6. receipts' = receipts =>
        /\ receipts' \in [Open!Connections -> [OwaEvents -> OpenReceipt]]
        /\ \A d \in Open!Connections, f \in OwaEvents : receipts'[d][f].status = "processed" =>
             receipts[d][f].status = "processed"
  BY DEF OpenInv, OpenTypes
<1>7. ASSUME NEW x \in OpenReceipt, receipts' = [receipts EXCEPT ![c][e] = x],
             x.status = "processed" => e \in handled' /\ (e.kind = "message" => chat'[c][e.msg] # "none")
      PROVE  /\ receipts' \in [Open!Connections -> [OwaEvents -> OpenReceipt]]
             /\ \A d \in Open!Connections, f \in OwaEvents : receipts'[d][f].status = "processed" =>
                  \/ receipts[d][f].status = "processed"
                  \/ f \in handled' /\ (f.kind = "message" => chat'[d][f.msg] # "none")
  <2>1. /\ receipts' \in [Open!Connections -> [OwaEvents -> OpenReceipt]]
        /\ \A d \in Open!Connections, f \in OwaEvents :
             receipts'[d][f] = IF d = c /\ f = e THEN x ELSE receipts[d][f]
    BY <1>2, <1>7, ReceiptWritten
  <2>2. QED BY <1>7, <2>1
<1>8. CASE Open!Existing(r)
  <2>1. receipts' = receipts
    BY <1>8 DEF Open!Existing
  <2>2. PICK s \in Serving : serving' = [serving EXCEPT ![r] = s] /\ Claims(s, chat', handled', taken')
    <3>1. CASE Open!Answer(r)
      BY <3>1, OpenRest DEF Open!Answer
    <3>2. CASE Open!To(r, "resume")
      <4>1. PICK s \in Serving : /\ serving' = [serving EXCEPT ![r] = s]
                                 /\ s.step = "resume" /\ s.at = c /\ s.event = e
        BY <3>2, OpenTo DEF EventSteps
      <4>2. Claims(s, chat', handled', taken')
        BY <1>2, <4>1 DEF Claims
      <4>3. QED BY <4>1, <4>2
    <3>3. QED BY <1>8, <3>1, <3>2 DEF Open!Existing
  <2>3. QED BY <1>5, <1>6, <2>1, <2>2
<1>9. CASE Open!Resume(r)
  <2> DEFINE n == receipts[c][e].attempts
             x == [status |-> "processing", attempts |-> IF n < OwaAttempts THEN n + 1 ELSE n]
  <2>1. x \in OpenReceipt /\ x.status # "processed"
    BY <1>4 DEF OpenReceipt
  <2>2. receipts' = [receipts EXCEPT ![c][e] = x] /\ Open!To(r, e.kind)
    BY <1>9 DEF Open!Resume, Open!SetReceipt
  <2> HIDE DEF x
  <2>3. e.kind \in {"message", "ack", "state"} /\ e.kind \in EventSteps
    BY <1>2, OpenEvent DEF EventSteps
  <2>4. PICK s \in Serving : /\ serving' = [serving EXCEPT ![r] = s]
                             /\ s.step = e.kind /\ s.at = c /\ s.event = e
    BY <2>2, <2>3, OpenTo
  <2>5. Claims(s, chat', handled', taken')
    BY <1>2, <2>3, <2>4 DEF Claims
  <2>6. QED BY <1>5, <1>7, <2>1, <2>2, <2>4, <2>5
<1>10. CASE Open!Processed(r)
  <2> DEFINE x == [receipts[c][e] EXCEPT !.status = "processed"]
  <2>1. x \in OpenReceipt
    BY <1>4 DEF OpenReceipt
  <2>2. receipts' = [receipts EXCEPT ![c][e] = x] /\ serving' = [serving EXCEPT ![r] = Open!Rest] /\ serving[r].step = "processed"
    BY <1>10 DEF Open!Processed, Open!SetReceipt, Open!Answer
  <2> HIDE DEF x
  <2>3. e \in handled' /\ (e.kind = "message" => chat'[c][e.msg] # "none")
    BY <1>1, <1>2, <2>2 DEF Claims
  <2>4. QED BY <1>5, <1>7, <2>1, <2>2, <2>3, OpenRest
<1>11. CASE Open!Fault(r)
  <2>1. receipts' = receipts /\ Open!To(r, "fail")
    BY <1>11 DEF Open!Fault
  <2>2. PICK s \in Serving : /\ serving' = [serving EXCEPT ![r] = s]
                             /\ s.step = "fail" /\ s.at = c /\ s.event = e
    BY <2>1, OpenTo DEF EventSteps
  <2>3. Claims(s, chat', handled', taken')
    BY <1>2, <2>2 DEF Claims
  <2>4. QED BY <1>5, <1>6, <2>1, <2>2, <2>3
<1>12. CASE Open!Fail(r)
  <2> DEFINE x == [receipts[c][e] EXCEPT !.status = IF receipts[c][e].attempts >= OwaAttempts THEN "dead_letter" ELSE "failed"]
  <2>1. x \in OpenReceipt /\ x.status # "processed"
    BY <1>4 DEF OpenReceipt
  <2>2. receipts' = [receipts EXCEPT ![c][e] = x] /\ serving' = [serving EXCEPT ![r] = Open!Rest]
    BY <1>12 DEF Open!Fail, Open!SetReceipt, Open!Answer
  <2> HIDE DEF x
  <2>3. QED BY <1>5, <1>7, <2>1, <2>2, OpenRest
<1>13. QED BY <1>8, <1>9, <1>10, <1>11, <1>12

\* A delivery arrives at the connection of now.
LEMMA IngestKeepsOpen ==
  ASSUME OpenInv, NEW r \in OwaRequests, NEW e \in OwaEvents, Open!Ingest(r, e)
  PROVE  OpenInv'
<1> DEFINE c == session.connection
           x == [status |-> "processing", attempts |-> 1]
           step == IF receipts[c][e] = Open!NoReceipt THEN e.kind ELSE "existing"
           s == [Open!Rest EXCEPT !.at = c, !.event = e, !.step = step]
<1>1. /\ c # 0 /\ serving' = [serving EXCEPT ![r] = s]
      /\ receipts' = receipts \/ receipts' = [receipts EXCEPT ![c][e] = x]
      /\ UNCHANGED <<session, chat, keyed, taken, handled, told>>
  BY DEF Open!Ingest, Open!SetReceipt
<1>2. c \in Open!Connections /\ c \in Nat
  <2>1. c \in 0..MaxConnections /\ MaxConnections \in Nat
    BY IntegrationsAssumption DEF OpenInv, OpenTypes
  <2>2. QED BY <1>1, <2>1 DEF Open!Connections
<1>3. step \in {"message", "ack", "state", "existing"} /\ (step # "existing" => step = e.kind)
  BY OpenEvent
<1> HIDE DEF step, c
<1>4. s \in Serving /\ s.step = step /\ s.at = c /\ s.event = e
  <2>1. s = [y \in DOMAIN Open!Rest |-> IF y = "step" THEN step ELSE IF y = "event" THEN e
                                        ELSE IF y = "at" THEN c ELSE Open!Rest[y]]
    OBVIOUS
  <2> HIDE DEF s
  <2>2. s = [step |-> step, at |-> c, event |-> e, key |-> "none", id |-> NoId, stored |-> FALSE]
    BY <2>1 DEF Open!Rest
  <2>3. QED BY <1>2, <1>3, <2>2 DEF Serving, EventSteps
<1> HIDE DEF s
<1>5. Claims(s, chat', handled', taken')
  BY <1>2, <1>3, <1>4 DEF Claims
<1>6. Grows
  BY <1>1 DEF Grows
<1>7. /\ serving' \in [OwaRequests -> Serving]
      /\ \A q \in OwaRequests : Claims(serving'[q], chat', handled', taken')
  BY <1>1, <1>4, <1>5, <1>6, OpenMoves
<1>8. /\ receipts' \in [Open!Connections -> [OwaEvents -> OpenReceipt]]
      /\ \A d \in Open!Connections, f \in OwaEvents :
           receipts'[d][f].status = "processed" => receipts[d][f].status = "processed"
  <2>1. CASE receipts' = receipts
    BY <2>1 DEF OpenInv, OpenTypes
  <2>2. CASE receipts' = [receipts EXCEPT ![c][e] = x]
    <3>1. x \in OpenReceipt /\ x.status # "processed"
      BY DEF OpenReceipt
    <3> HIDE DEF x
    <3>2. QED BY <1>2, <2>2, <3>1, ReceiptWritten
  <2>3. QED BY <1>1, <2>1, <2>2
<1>9. OpenTypes'
  BY <1>1, <1>7, <1>8 DEF OpenInv, OpenTypes, Open!Connections
<1>10. Open!ReportsAreTrue'
  <2>1. taken' \in [OwaKeys -> SUBSET Outbound] /\ \A k \in told' : k \in told
    BY <1>1 DEF OpenInv, OpenTypes
  <2>2. QED BY <1>6, <1>8, <2>1, ReportsKept
<1>11. QED BY <1>1, <1>7, <1>9, <1>10 DEF OpenInv

\* The steps of an event that have an effect: the message is there when its handler is called,
\* and the handler has ended when the receipt is settled.
LEMMA EffectKeepsOpen ==
  ASSUME OpenInv, NEW r \in OwaRequests,
         Open!IngestMessage(r) \/ Open!IngestAck(r) \/ Open!SetStatus(r) \/ Open!Callback(r)
  PROVE  OpenInv'
<1> DEFINE c == serving[r].at
           e == serving[r].event
<1>1. UNCHANGED <<receipts, keyed, taken, told>> /\ serving[r].step \in EventSteps
  BY DEF Open!IngestMessage, Open!IngestAck, Open!SetStatus, Open!Callback, EventSteps
<1>2. c \in Open!Connections /\ e \in OwaEvents /\ Claims(serving[r], chat, handled, taken) /\ serving[r] \in Serving
  BY <1>1 DEF OpenInv, OpenTypes, Claims
<1>3. ASSUME NEW s \in Serving, serving' = [serving EXCEPT ![r] = s], Claims(s, chat', handled', taken'), Grows,
             session' \in [connection : 0..MaxConnections, status : SessionStatus],
             chat' \in [Open!Connections -> [OwaIds -> OpenChat]]
      PROVE  OpenInv'
  <2>1. /\ serving' \in [OwaRequests -> Serving]
        /\ \A q \in OwaRequests : Claims(serving'[q], chat', handled', taken')
    BY <1>3, OpenMoves
  <2>2. OpenTypes'
    BY <1>1, <1>3, <2>1 DEF OpenInv, OpenTypes, Open!Connections
  <2>3. Open!ReportsAreTrue'
    <3>1. taken' \in [OwaKeys -> SUBSET Outbound] /\ \A k \in told' : k \in told
      BY <1>1 DEF OpenInv, OpenTypes
    <3>2. QED BY <1>1, <1>3, <3>1, ReportsKept
  <2>4. QED BY <1>1, <2>1, <2>2, <2>3 DEF OpenInv
<1>4. CASE Open!IngestMessage(r)
  <2> DEFINE i == e.msg
             x == IF chat[c][i] # "none" THEN chat[c][i] ELSE IF i \in Outbound THEN "sent" ELSE "received"
             s == [serving[r] EXCEPT !.step = "callback", !.stored = (chat[c][i] = "none")]
  <2>1. chat' = [chat EXCEPT ![c][i] = x] /\ serving' = [serving EXCEPT ![r] = s] /\ UNCHANGED <<session, handled>>
    BY <1>4 DEF Open!IngestMessage
  <2>2. serving[r].step = "message"
    BY <1>4 DEF Open!IngestMessage
  <2>3. e.kind = "message" /\ i \in OwaIds
    BY <1>2, <2>2, OpenEvent DEF Claims
  <2>4. x \in OpenChat /\ x # "none" /\ (chat[c][i] # "none" => x = chat[c][i])
    BY <1>2, <2>3 DEF OpenInv, OpenTypes, OpenChat
  <2> HIDE DEF x, i
  <2>5. s \in Serving /\ s.step = "callback" /\ s.at = c /\ s.event = e
    <3>1. s = [y \in DOMAIN serving[r] |-> IF y = "stored" THEN chat[c][i] = "none"
                                           ELSE IF y = "step" THEN "callback" ELSE serving[r][y]]
      OBVIOUS
    <3>2. (chat[c][i] = "none") \in BOOLEAN
      OBVIOUS
    <3> HIDE DEF s
    <3>3. QED BY <1>2, <3>1, <3>2 DEF Serving, EventSteps
  <2> HIDE DEF s
  <2>6. /\ chat' \in [Open!Connections -> [OwaIds -> OpenChat]]
        /\ \A d \in Open!Connections, j \in OwaIds : chat'[d][j] = IF d = c /\ j = i THEN x ELSE chat[d][j]
    BY <1>2, <2>1, <2>4, ChatWritten
  <2>7. Grows
    BY <1>1, <2>1, <2>4, <2>6 DEF Grows
  <2>8. Claims(s, chat', handled', taken')
    BY <1>2, <2>3, <2>4, <2>5, <2>6 DEF Claims, i
  <2>9. session' \in [connection : 0..MaxConnections, status : SessionStatus]
    BY <2>1 DEF OpenInv, OpenTypes
  <2>10. QED BY <1>3, <2>1, <2>5, <2>6, <2>7, <2>8, <2>9
<1>5. CASE Open!IngestAck(r)
  <2> DEFINE i == e.msg
             x == IF chat[c][i] = "none" THEN chat[c][i] ELSE Open!messageStatus(e.status)
  <2>1. chat' = [chat EXCEPT ![c][i] = x] /\ Open!To(r, "callback") /\ UNCHANGED <<session, handled>>
    BY <1>5 DEF Open!IngestAck
  <2>2. e.kind = "ack" /\ i \in OwaIds
    BY <1>2, <1>5, OpenEvent DEF Claims, Open!IngestAck
  <2>3. Open!messageStatus(e.status) \in OpenChat \ {"none"}
    BY DEF Open!messageStatus, OpenChat
  <2>4. x \in OpenChat /\ (chat[c][i] # "none" => x # "none")
    BY <1>2, <2>2, <2>3 DEF OpenInv, OpenTypes
  <2> HIDE DEF x, i
  <2>5. PICK s \in Serving : /\ serving' = [serving EXCEPT ![r] = s]
                             /\ s.step = "callback" /\ s.at = c /\ s.event = e
    BY <2>1, OpenTo DEF EventSteps
  <2>6. /\ chat' \in [Open!Connections -> [OwaIds -> OpenChat]]
        /\ \A d \in Open!Connections, j \in OwaIds : chat'[d][j] = IF d = c /\ j = i THEN x ELSE chat[d][j]
    BY <1>2, <2>1, <2>4, ChatWritten
  <2>7. Grows
    BY <1>1, <2>1, <2>4, <2>6 DEF Grows
  <2>8. Claims(s, chat', handled', taken')
    BY <1>2, <2>2, <2>5 DEF Claims
  <2>9. session' \in [connection : 0..MaxConnections, status : SessionStatus]
    BY <2>1 DEF OpenInv, OpenTypes
  <2>10. QED BY <1>3, <2>5, <2>6, <2>7, <2>8, <2>9
<1>6. CASE Open!SetStatus(r) \/ Open!Callback(r)
  <2>1. /\ chat' = chat /\ handled' \in {handled, handled \cup {e}}
        /\ serving[r].step = "state" \/ handled' = handled \cup {e}
    BY <1>6 DEF Open!SetStatus, Open!Callback, Open!HandlerDue
  <2>2. PICK step \in {"callback", "processed"} :
          /\ Open!To(r, step)
          /\ step = "callback" => serving[r].step = "state"
          /\ step = "processed" => serving[r].step = "callback" /\ handled' = handled \cup {e}
    BY <1>6 DEF Open!SetStatus, Open!Callback, Open!HandlerDue
  <2>3. PICK s \in Serving : /\ serving' = [serving EXCEPT ![r] = s]
                             /\ s.step = step /\ s.at = c /\ s.event = e
    BY <2>2, OpenTo DEF EventSteps
  <2>4. Grows
    BY <1>1, <2>1 DEF Grows
  <2>5. session' \in [connection : 0..MaxConnections, status : SessionStatus]
    <3>1. session \in [connection : 0..MaxConnections, status : SessionStatus] /\ e.status \in SessionStatus
      BY <1>2, OpenEvent DEF OpenInv, OpenTypes
    <3>2. session' = session \/ session' = [session EXCEPT !.status = e.status]
      BY <1>6 DEF Open!SetStatus, Open!Callback
    <3>3. QED BY <3>1, <3>2
  <2>6. serving[r].step = "callback" => (e.kind = "message" => chat'[c][e.msg] # "none")
    BY <1>2, <2>1 DEF Claims
  <2>7. serving[r].step = "state" => e.kind = "state"
    BY <1>2 DEF Claims
  <2>8. Claims(s, chat', handled', taken')
    BY <1>2, <2>2, <2>3, <2>6, <2>7 DEF Claims
  <2>9. chat' \in [Open!Connections -> [OwaIds -> OpenChat]]
    BY <2>1 DEF OpenInv, OpenTypes
  <2>10. QED BY <1>3, <2>3, <2>4, <2>5, <2>8, <2>9
<1>7. QED BY <1>4, <1>5, <1>6

\* A file: its caller is told of success when its key is stored, which is after the provider took it.
LEMMA FileKeepsOpen ==
  ASSUME OpenInv, NEW r \in OwaRequests,
         (\E k \in OwaKeys : Open!SendMedia(r, k)) \/ Open!SendFile(r) \/ Open!RecordOutbound(r)
  PROVE  OpenInv'
<1>1. UNCHANGED <<session, receipts, handled>>
  BY DEF Open!SendMedia, Open!SendFile, Open!RecordOutbound
<1>2. serving[r] \in Serving /\ Claims(serving[r], chat, handled, taken) /\ taken \in [OwaKeys -> SUBSET Outbound]
  BY DEF OpenInv, OpenTypes
<1>3. ASSUME NEW s \in Serving, serving' = [serving EXCEPT ![r] = s], Claims(s, chat', handled', taken'), Grows,
             chat' \in [Open!Connections -> [OwaIds -> OpenChat]], taken' \in [OwaKeys -> SUBSET Outbound],
             keyed' \subseteq OwaKeys, told' \subseteq OwaKeys,
             \A k \in keyed' : k \in keyed \/ taken'[k] # {},
             \A k \in told' : k \in told \/ taken'[k] # {}
      PROVE  OpenInv'
  <2>1. /\ serving' \in [OwaRequests -> Serving]
        /\ \A q \in OwaRequests : Claims(serving'[q], chat', handled', taken')
    BY <1>3, OpenMoves
  <2>2. OpenTypes'
    BY <1>1, <1>3, <2>1 DEF OpenInv, OpenTypes, Open!Connections
  <2>3. Open!ReportsAreTrue'
    BY <1>1, <1>3, ReportsKept
  <2>4. \A k \in keyed' : taken'[k] # {}
    BY <1>3 DEF OpenInv, OpenTypes, Grows
  <2>5. QED BY <2>1, <2>2, <2>3, <2>4 DEF OpenInv
<1>4. ASSUME NEW k \in OwaKeys, Open!SendMedia(r, k) PROVE OpenInv'
  <2>1. Grows /\ UNCHANGED <<chat, keyed, taken>>
    BY <1>1, <1>4 DEF Open!SendMedia, Grows
  <2>2. chat' \in [Open!Connections -> [OwaIds -> OpenChat]] /\ taken' \in [OwaKeys -> SUBSET Outbound] /\ keyed' \subseteq OwaKeys
    BY <2>1 DEF OpenInv, OpenTypes
  <2>3. CASE k \in keyed
    <3>1. told' = told \cup {k} /\ serving' = serving /\ taken'[k] # {}
      BY <1>4, <2>1, <2>3 DEF Open!SendMedia, OpenInv
    <3>2. serving' = [serving EXCEPT ![r] = serving[r]]
      BY <3>1 DEF OpenInv, OpenTypes
    <3>3. Claims(serving[r], chat', handled', taken')
      BY <1>1, <1>2, <2>1
    <3>4. told' \subseteq OwaKeys
      BY <3>1 DEF OpenInv, OpenTypes
    <3>5. QED BY <1>2, <1>3, <2>1, <2>2, <3>1, <3>2, <3>3, <3>4
  <2>4. CASE k \notin keyed
    <3> DEFINE s == [Open!Rest EXCEPT !.step = "send", !.at = session.connection, !.key = k]
    <3>1. serving' = [serving EXCEPT ![r] = s] /\ told' = told /\ session.connection # 0
      BY <1>4, <2>4 DEF Open!SendMedia
    <3>2. session.connection \in Open!Connections /\ session.connection \in Nat
      <4>1. session.connection \in 0..MaxConnections /\ MaxConnections \in Nat
        BY IntegrationsAssumption DEF OpenInv, OpenTypes
      <4>2. QED BY <3>1, <4>1 DEF Open!Connections
    <3>3. s \in Serving /\ s.step = "send" /\ s.at = session.connection /\ s.key = k
      <4>1. s = [y \in DOMAIN Open!Rest |-> IF y = "key" THEN k ELSE IF y = "at" THEN session.connection
                                            ELSE IF y = "step" THEN "send" ELSE Open!Rest[y]]
        OBVIOUS
      <4> HIDE DEF s
      <4>2. s = [step |-> "send", at |-> session.connection, event |-> NoEvent, key |-> k, id |-> NoId, stored |-> FALSE]
        BY <4>1 DEF Open!Rest
      <4>3. QED BY <3>2, <4>2 DEF Serving
    <3> HIDE DEF s
    <3>4. Claims(s, chat', handled', taken')
      BY <3>2, <3>3 DEF Claims, EventSteps
    <3>5. told' \subseteq OwaKeys
      BY <3>1 DEF OpenInv, OpenTypes
    <3>6. QED BY <1>3, <2>1, <2>2, <3>1, <3>3, <3>4, <3>5
  <2>5. QED BY <2>3, <2>4
<1>5. CASE Open!SendFile(r)
  <2> DEFINE k == serving[r].key
  <2>1. serving[r].step = "send" /\ UNCHANGED <<chat, keyed, told>>
    BY <1>5 DEF Open!SendFile
  <2>2. k \in OwaKeys /\ serving[r].at \in Open!Connections
    BY <1>2, <2>1 DEF Claims
  <2>3. ASSUME NEW x \in SUBSET Outbound, taken' = [taken EXCEPT ![k] = x], taken[k] \subseteq x,
               NEW s \in Serving, serving' = [serving EXCEPT ![r] = s],
               s = Open!Rest \/ (s.step = "record" /\ s.at = serving[r].at /\ s.key = k /\ s.id \in x)
        PROVE  OpenInv'
    <3>1. taken' \in [OwaKeys -> SUBSET Outbound] /\ \A j \in OwaKeys : taken'[j] = IF j = k THEN x ELSE taken[j]
      BY <1>2, <2>2, <2>3
    <3>2. Grows
      BY <1>1, <2>1, <2>3, <3>1 DEF Grows
    <3>3. Claims(s, chat', handled', taken')
      BY <2>2, <2>3, <3>1, OpenRest DEF Claims, EventSteps
    <3>4. /\ chat' \in [Open!Connections -> [OwaIds -> OpenChat]]
          /\ keyed' \subseteq OwaKeys /\ told' \subseteq OwaKeys
      BY <2>1 DEF OpenInv, OpenTypes
    <3>5. QED BY <1>3, <2>1, <2>3, <3>1, <3>2, <3>3, <3>4
  <2>4. CASE Open!Answer(r) /\ taken' = taken
    <3>1. taken' = [taken EXCEPT ![k] = taken[k]] /\ taken[k] \in SUBSET Outbound
      BY <1>2, <2>2, <2>4
    <3>2. QED BY <2>3, <2>4, <3>1, OpenRest DEF Open!Answer
  <2>5. ASSUME NEW i \in Outbound, taken' = [taken EXCEPT ![k] = @ \cup {i}],
               Open!Answer(r) \/ serving' = [serving EXCEPT ![r].step = "record", ![r].id = i]
        PROVE  OpenInv'
    <3> DEFINE x == taken[k] \cup {i}
               s == [serving[r] EXCEPT !.step = "record", !.id = i]
    <3>1. x \in SUBSET Outbound /\ taken' = [taken EXCEPT ![k] = x] /\ taken[k] \subseteq x /\ i \in x
      BY <1>2, <2>2, <2>5
    <3>2. CASE Open!Answer(r)
      <4> HIDE DEF x
      <4>1. QED BY <2>3, <3>1, <3>2, OpenRest DEF Open!Answer
    <3>3. CASE serving' = [serving EXCEPT ![r].step = "record", ![r].id = i]
      <4>1. serving' = [serving EXCEPT ![r] = s]
        BY <3>3
      <4>2. s = [y \in DOMAIN serving[r] |-> IF y = "id" THEN i ELSE IF y = "step" THEN "record" ELSE serving[r][y]]
        OBVIOUS
      <4> HIDE DEF s, x
      <4>3. s \in Serving /\ s.step = "record" /\ s.at = serving[r].at /\ s.key = k /\ s.id = i
        BY <1>2, <4>2 DEF Serving
      <4>4. QED BY <2>3, <3>1, <4>1, <4>3
    <3>4. QED BY <2>5, <3>2, <3>3
  <2>6. QED BY <1>5, <2>4, <2>5 DEF Open!SendFile
<1>6. CASE Open!RecordOutbound(r)
  <2> DEFINE c == serving[r].at
             k == serving[r].key
             i == serving[r].id
  <2>1. serving[r].step = "record" /\ serving' = [serving EXCEPT ![r] = Open!Rest] /\ taken' = taken
    BY <1>6 DEF Open!RecordOutbound, Open!Answer
  <2>2. k \in OwaKeys /\ c \in Open!Connections /\ taken[k] # {}
    BY <1>2, <2>1 DEF Claims
  <2>3. /\ chat' = chat \/ chat' = [chat EXCEPT ![c][i] = "accepted"]
        /\ keyed' \in {keyed, keyed \cup {k}} /\ told' \in {told, told \cup {k}}
    BY <1>6 DEF Open!RecordOutbound
  <2>4. /\ chat' \in [Open!Connections -> [OwaIds -> OpenChat]]
        /\ \A d \in Open!Connections, j \in OwaIds : chat[d][j] # "none" => chat'[d][j] # "none"
    <3>1. "accepted" \in OpenChat /\ "accepted" # "none"
      BY DEF OpenChat
    <3>2. CASE chat' = chat
      BY <3>2 DEF OpenInv, OpenTypes
    <3>3. CASE chat' = [chat EXCEPT ![c][i] = "accepted"]
      <4> HIDE DEF i, c
      <4>1. /\ chat' \in [Open!Connections -> [OwaIds -> OpenChat]]
            /\ \A d \in Open!Connections, j \in OwaIds : chat'[d][j] = IF d = c /\ j = i THEN "accepted" ELSE chat[d][j]
        BY <2>2, <3>1, <3>3, ChatWritten
      <4>2. QED BY <3>1, <4>1
    <3>4. QED BY <2>3, <3>2, <3>3
  <2>5. Grows
    BY <1>1, <2>1, <2>4 DEF Grows
  <2>6. Claims(Open!Rest, chat', handled', taken')
    BY OpenRest
  <2>7. /\ taken' \in [OwaKeys -> SUBSET Outbound] /\ keyed' \subseteq OwaKeys /\ told' \subseteq OwaKeys
        /\ \A j \in keyed' : j \in keyed \/ taken'[j] # {}
        /\ \A j \in told' : j \in told \/ taken'[j] # {}
    BY <1>2, <2>1, <2>2, <2>3 DEF OpenInv, OpenTypes
  <2>8. QED BY <1>3, <2>1, <2>4, <2>5, <2>6, <2>7, OpenRest
<1>7. QED BY <1>4, <1>5, <1>6

LEMMA OpenStepKeeps == OpenInv /\ [Open!EventNext(OwaEvents) \/ Open!FileNext]_(Open!vars) => OpenInv'
<1> SUFFICES ASSUME OpenInv, [Open!EventNext(OwaEvents) \/ Open!FileNext]_(Open!vars) PROVE OpenInv'
  OBVIOUS
<1>1. CASE UNCHANGED Open!vars
  BY <1>1 DEF Open!vars, OpenInv, OpenTypes, Open!ReportsAreTrue, Open!Connections
<1>2. ASSUME NEW r \in OwaRequests,
             Open!Work(r) \/ Open!SendFile(r) \/ Open!RecordOutbound(r)
             \/ (\E e \in OwaEvents : Open!Ingest(r, e)) \/ (\E k \in OwaKeys : Open!SendMedia(r, k))
      PROVE  OpenInv'
  BY <1>2, ReceiptKeepsOpen, EffectKeepsOpen, IngestKeepsOpen, FileKeepsOpen DEF Open!Work
<1>3. CASE Open!Enable \/ Open!Die
  BY <1>3, EnableKeepsOpen, DieKeepsOpen
<1>4. QED
  <2>1. CASE Open!EventNext(OwaEvents)
    BY <1>2, <1>3, <2>1 DEF Open!EventNext
  <2>2. CASE Open!FileNext
    BY <1>2, <1>3, <2>2 DEF Open!FileNext
  <2>3. QED BY <1>1, <2>1, <2>2

-----------------------------------------------------------------------------
(***************************************************************************)
(* Connectors: a delivery has the credentials of its claim, and there were *)
(* none when they were erased; and as long as one event is applied at a    *)
(* time, what is compared with is what has been applied.                   *)
(***************************************************************************)

Times == [Subjects -> Nat]
CrmWork == [step : {"idle", "call", "delivered", "active", "failed", "degraded"},
            job : Jobs \cup {NoJob}, keyed : BOOLEAN, late : BOOLEAN]
CrmRequest == [step : {"idle", "apply", "checkpoint", "processed", "ignored", "failed"}, seen : Times]
CrmConn == [status : {"active", "degraded", "revoked"}, keyed : BOOLEAN, policy : Policies, checkpoint : Times]

CrmTypes ==
  /\ conn \in CrmConn
  /\ work \in [Workers -> CrmWork]
  /\ inbox \in [Hooks -> [status : {"absent", "received", "processed", "ignored", "failed", "dead_letter"},
                         attempts : Nat]]
  /\ replay \in [on : BOOLEAN, rows : SUBSET Hooks, seen : Times]
  /\ request \in [Hooks -> CrmRequest]
  /\ value \in Times
  /\ erased \in BOOLEAN

\* Nobody who works has credentials that were erased when it claimed.
Keyless ==
  /\ erased => ~conn.keyed
  /\ \A w \in Workers : work[w].late => ~work[w].keyed
  /\ ~lateCall

\* One event is applied, in a replay one of its rows.
OneApplies ==
  /\ \A g, h \in Hooks : request[g].step # "idle" /\ request[h].step # "idle" => g = h
  /\ \A h \in Hooks : request[h].step # "idle" /\ replay.on => h \in replay.rows

\* It compares with what was applied last, which the checkpoint holds but for one write.
UpToDate ==
  /\ (\A h \in Hooks : request[h].step # "checkpoint") => conn.checkpoint = value
  /\ \A h \in Hooks : request[h].step # "idle" => request[h].seen = value
  /\ replay.on /\ (\A h \in Hooks : request[h].step = "idle") => replay.seen = value
  /\ \A h \in Hooks : request[h].step \in {"checkpoint", "processed", "ignored"} => value[h.subject] >= h.at
  /\ \A h \in Hooks : inbox[h].status \in {"processed", "ignored"} => value[h.subject] >= h.at

Newest == (replay.rows # {} => replay.on) /\ (~disturbed => OneApplies /\ UpToDate)

CrmInv == CrmTypes /\ Keyless /\ Newest

LEMMA CrmConstants ==
  /\ Crm!Empty \in Times /\ Crm!Free \in CrmWork /\ Crm!Quiet \in CrmRequest
  /\ Crm!Free.late = FALSE /\ Crm!Quiet.step = "idle"
  /\ Crm!NoReplay \in [on : BOOLEAN, rows : SUBSET Hooks, seen : Times]
  /\ Crm!NoReplay.on = FALSE /\ Crm!NoReplay.rows = {}
BY DEF Crm!Empty, Crm!Free, Crm!Quiet, Crm!NoReplay, Times, CrmWork, CrmRequest

LEMMA HookOf == \A h \in Hooks : h.subject \in Subjects /\ h.at \in Nat
BY IntegrationsAssumption

LEMMA CrmInit == Crm!Init => CrmInv
<1> SUFFICES ASSUME Crm!Init PROVE CrmInv
  OBVIOUS
<1>1. "latest_wins" \in Policies
  BY IntegrationsAssumption
<1>2. conn \in CrmConn
  BY <1>1, CrmConstants DEF Crm!Init, CrmConn
<1>3. CrmTypes
  BY <1>2, CrmConstants DEF Crm!Init, CrmTypes, Crm!Empty, Times
<1>4. Keyless
  BY CrmConstants DEF Crm!Init, Keyless
<1>5. Newest
  BY CrmConstants DEF Crm!Init, Newest, OneApplies, UpToDate
<1>6. QED BY <1>3, <1>4, <1>5 DEF CrmInv

\* Deliveries import nothing, and a step of one worker is told here by what it leaves it.
LEMMA WorkerKeepsCrm ==
  ASSUME CrmInv, UNCHANGED <<inbox, replay, request, value, disturbed, erased>>,
         NEW w \in Workers, NEW x \in CrmWork, work' = [work EXCEPT ![w] = x], x.late => ~x.keyed,
         conn' \in CrmConn, conn'.checkpoint = conn.checkpoint, conn'.keyed = conn.keyed, ~lateCall'
  PROVE  CrmInv'
<1>1. work' \in [Workers -> CrmWork] /\ \A v \in Workers : work'[v] = IF v = w THEN x ELSE work[v]
  BY DEF CrmInv, CrmTypes
<1>2. CrmTypes'
  BY <1>1 DEF CrmInv, CrmTypes
<1>3. Keyless'
  BY <1>1 DEF CrmInv, Keyless
<1>4. Newest'
  BY DEF CrmInv, Newest, OneApplies, UpToDate
<1>5. QED BY <1>2, <1>3, <1>4 DEF CrmInv

LEMMA GoOf ==
  ASSUME CrmInv, NEW w \in Workers, NEW step \in {"idle", "call", "delivered", "active", "failed", "degraded"}, Crm!Go(w, step)
  PROVE  \E x \in CrmWork : work' = [work EXCEPT ![w] = x] /\ (x.late => ~x.keyed)
<1> DEFINE x == [work[w] EXCEPT !.step = step]
<1>1. work[w] \in CrmWork /\ (work[w].late => ~work[w].keyed)
  BY DEF CrmInv, CrmTypes, Keyless
<1>2. x \in CrmWork /\ x.late = work[w].late /\ x.keyed = work[w].keyed
  BY <1>1 DEF CrmWork
<1>3. work' = [work EXCEPT ![w] = x]
  BY DEF Crm!Go
<1> HIDE DEF x
<1>4. QED BY <1>1, <1>2, <1>3

LEMMA DeliveriesKeepCrm ==
  ASSUME CrmInv, Crm!Deliveries \/ Crm!DeadLetter
  PROVE  CrmInv'
<1>1. conn \in CrmConn /\ ~lateCall
  BY DEF CrmInv, CrmTypes, Keyless
<1>2. CASE UNCHANGED <<conn, work, lateCall, erased, inbox, replay, request, value, disturbed>>
  BY <1>2 DEF CrmInv, CrmTypes, Keyless, Newest, OneApplies, UpToDate
<1>3. ASSUME NEW w \in Workers, NEW j \in Jobs, Crm!Claim(w, j) PROVE CrmInv'
  <2> DEFINE x == [step |-> "call", job |-> j, keyed |-> conn.keyed, late |-> erased]
  <2>1. work' = [work EXCEPT ![w] = x] /\ UNCHANGED <<conn, lateCall, erased, inbox, replay, request, value, disturbed>>
    BY <1>3 DEF Crm!Claim, Crm!imports
  <2>2. x.late => ~x.keyed
    BY DEF CrmInv, Keyless
  <2>3. x \in CrmWork /\ x.late = erased
    BY <1>1 DEF CrmWork, CrmConn, CrmInv, CrmTypes
  <2> HIDE DEF x
  <2>4. QED BY <1>1, <2>1, <2>2, <2>3, WorkerKeepsCrm
<1>4. ASSUME NEW w \in Workers, Crm!Call(w) PROVE CrmInv'
  <2>1. UNCHANGED <<conn, erased, inbox, replay, request, value, disturbed>>
    BY <1>4 DEF Crm!Call, Crm!imports
  <2>2. ~lateCall'
    BY <1>1, <1>4 DEF Crm!Call, CrmInv, Keyless
  <2>3. \E step \in {"delivered", "failed"} : Crm!Go(w, step)
    BY <1>4 DEF Crm!Call
  <2>4. PICK x \in CrmWork : work' = [work EXCEPT ![w] = x] /\ (x.late => ~x.keyed)
    BY <2>3, GoOf
  <2>5. QED BY <1>1, <2>1, <2>2, <2>4, WorkerKeepsCrm
<1>5. ASSUME NEW w \in Workers, Crm!Settle(w) \/ Crm!Crash(w) PROVE CrmInv'
  <2>1. UNCHANGED <<lateCall, erased, inbox, replay, request, value, disturbed>>
    BY <1>5 DEF Crm!Settle, Crm!Crash, Crm!imports
  <2>2. \/ UNCHANGED conn
        \/ \E s \in {"active", "degraded"} : conn' = [conn EXCEPT !.status = s]
    BY <1>5 DEF Crm!Settle, Crm!Crash
  <2>3. conn' \in CrmConn /\ conn'.checkpoint = conn.checkpoint /\ conn'.keyed = conn.keyed
    BY <1>1, <2>2 DEF CrmConn
  <2>4. \/ work' = [work EXCEPT ![w] = Crm!Free]
        \/ \E step \in {"active", "failed", "degraded"} : Crm!Go(w, step)
    BY <1>5 DEF Crm!Settle, Crm!Crash
  <2>5. PICK x \in CrmWork : work' = [work EXCEPT ![w] = x] /\ (x.late => ~x.keyed)
    BY <2>4, GoOf, CrmConstants
  <2>6. QED BY <1>1, <2>1, <2>3, <2>5, WorkerKeepsCrm
<1>6. CASE Crm!DeadLetter \/ \E j \in Jobs : Crm!Enqueue(j)
  BY <1>2, <1>6 DEF Crm!DeadLetter, Crm!Enqueue, Crm!imports
<1>7. QED
  BY <1>3, <1>4, <1>5, <1>6 DEF Crm!Deliveries, Crm!WorkerStep

\* A webhook or a replay touches neither the deliveries nor the credentials.
LEMMA ImportsKeepDeliveries ==
  ASSUME CrmInv, UNCHANGED <<work, lateCall, erased>>, conn'.keyed = conn.keyed
  PROVE  Keyless'
BY DEF CrmInv, Keyless

\* The request of one event, told here by what it becomes.
LEMMA RequestTyped ==
  ASSUME CrmInv, NEW h \in Hooks, NEW x \in CrmRequest, request' = [request EXCEPT ![h] = x]
  PROVE  /\ request' \in [Hooks -> CrmRequest]
         /\ \A g \in Hooks : request'[g] = IF g = h THEN x ELSE request[g]
BY DEF CrmInv, CrmTypes

LEMMA ReceiveKeepsCrm ==
  ASSUME CrmInv, NEW h \in Hooks, Crm!Receive(h)
  PROVE  CrmInv'
<1> DEFINE x == [step |-> "apply", seen |-> conn.checkpoint]
<1>1. /\ request' = [request EXCEPT ![h] = x] /\ request[h].step = "idle"
      /\ inbox' = [inbox EXCEPT ![h] = [status |-> "received", attempts |-> 1]]
      /\ disturbed' = (disturbed \/ Crm!Overlaps(h))
      /\ UNCHANGED <<conn, work, lateCall, replay, value, erased>>
  BY DEF Crm!Receive, Crm!crm
<1>2. x \in CrmRequest /\ x.step = "apply" /\ x.seen = conn.checkpoint
  BY DEF CrmInv, CrmTypes, CrmConn, CrmRequest
<1> HIDE DEF x
<1>3. request' \in [Hooks -> CrmRequest] /\ \A g \in Hooks : request'[g] = IF g = h THEN x ELSE request[g]
  BY <1>1, <1>2, RequestTyped
<1>4. CrmTypes'
  BY <1>1, <1>3 DEF CrmInv, CrmTypes
<1>5. Keyless'
  BY <1>1, ImportsKeepDeliveries
<1>6. ASSUME ~disturbed' PROVE OneApplies' /\ UpToDate'
  <2>1. ~disturbed /\ ~replay.on /\ \A g \in Hooks : request[g].step = "idle"
    BY <1>1, <1>6 DEF Crm!Overlaps
  <2>2. OneApplies /\ UpToDate /\ conn.checkpoint = value
    BY <2>1 DEF CrmInv, Newest, UpToDate
  <2>3. OneApplies'
    BY <1>1, <1>2, <1>3, <2>1, <2>2 DEF OneApplies
  <2>4. \A g \in Hooks : inbox'[g].status \in {"processed", "ignored"} => inbox[g].status \in {"processed", "ignored"}
    BY <1>1 DEF CrmInv, CrmTypes
  <2>5. UpToDate'
    BY <1>1, <1>2, <1>3, <2>1, <2>2, <2>4 DEF UpToDate
  <2>6. QED BY <2>3, <2>5
<1>7. QED BY <1>1, <1>4, <1>5, <1>6 DEF CrmInv, Newest

LEMMA ReplayKeepsCrm ==
  ASSUME CrmInv, Crm!Replay
  PROVE  CrmInv'
<1>1. PICK R \in SUBSET Hooks :
        /\ R = {h \in Hooks : inbox[h].status \in {"failed", "dead_letter"}}
        /\ inbox' = [h \in Hooks |-> IF h \in R THEN [status |-> "received", attempts |-> inbox[h].attempts + 1]
                                                ELSE inbox[h]]
        /\ replay' = [on |-> TRUE, rows |-> R, seen |-> conn.checkpoint]
  BY DEF Crm!Replay
<1>2. /\ disturbed' = (disturbed \/ \E h \in Hooks : request[h].step # "idle")
      /\ UNCHANGED <<conn, work, lateCall, request, value, erased>>
  BY DEF Crm!Replay, Crm!crm
<1>3. CrmTypes'
  <2>1. inbox' \in [Hooks -> [status : {"absent", "received", "processed", "ignored", "failed", "dead_letter"}, attempts : Nat]]
    BY <1>1 DEF CrmInv, CrmTypes
  <2>2. replay' \in [on : BOOLEAN, rows : SUBSET Hooks, seen : Times]
    BY <1>1 DEF CrmInv, CrmTypes, CrmConn
  <2>3. QED BY <1>2, <2>1, <2>2 DEF CrmInv, CrmTypes
<1>4. Keyless'
  BY <1>2, ImportsKeepDeliveries
<1>5. ASSUME ~disturbed' PROVE OneApplies' /\ UpToDate'
  <2>1. ~disturbed /\ \A h \in Hooks : request[h].step = "idle"
    BY <1>2, <1>5
  <2>2. OneApplies /\ UpToDate /\ conn.checkpoint = value
    BY <2>1 DEF CrmInv, Newest, UpToDate
  <2>3. replay'.seen = value /\ \A h \in Hooks : request'[h].step = "idle"
    BY <1>1, <1>2, <2>1, <2>2
  <2>4. \A h \in Hooks : inbox'[h].status \in {"processed", "ignored"} => inbox[h].status \in {"processed", "ignored"}
    BY <1>1
  <2>5. QED
    BY <1>2, <2>2, <2>3, <2>4 DEF OneApplies, UpToDate
<1>6. replay'.on = TRUE
  BY <1>1
<1>7. QED BY <1>3, <1>4, <1>5, <1>6 DEF CrmInv, Newest

LEMMA ReplayNextKeepsCrm ==
  ASSUME CrmInv, NEW h \in Hooks, Crm!ReplayNext(h)
  PROVE  CrmInv'
<1> DEFINE x == [step |-> "apply", seen |-> replay.seen]
<1>1. /\ request' = [request EXCEPT ![h] = x] /\ h \in replay.rows
      /\ \A g \in replay.rows : request[g].step = "idle"
      /\ UNCHANGED <<conn, work, lateCall, inbox, replay, value, erased, disturbed>>
  BY DEF Crm!ReplayNext, Crm!crm
<1>2. x \in CrmRequest /\ x.step = "apply" /\ x.seen = replay.seen
  BY DEF CrmInv, CrmTypes, CrmRequest
<1> HIDE DEF x
<1>3. request' \in [Hooks -> CrmRequest] /\ \A g \in Hooks : request'[g] = IF g = h THEN x ELSE request[g]
  BY <1>1, <1>2, RequestTyped
<1>4. CrmTypes'
  BY <1>1, <1>3 DEF CrmInv, CrmTypes
<1>5. Keyless'
  BY <1>1, ImportsKeepDeliveries
<1>6. ASSUME ~disturbed' PROVE OneApplies' /\ UpToDate'
  <2>1. ~disturbed /\ replay.on /\ OneApplies /\ UpToDate
    BY <1>1, <1>6 DEF CrmInv, Newest
  <2>2. \A g \in Hooks : request[g].step = "idle"
    BY <1>1, <2>1 DEF OneApplies
  <2>3. replay.seen = value /\ conn.checkpoint = value
    BY <2>1, <2>2 DEF UpToDate
  <2>4. OneApplies'
    BY <1>1, <1>2, <1>3, <2>1, <2>2 DEF OneApplies
  <2>5. UpToDate'
    BY <1>1, <1>2, <1>3, <2>1, <2>2, <2>3 DEF UpToDate
  <2>6. QED BY <2>4, <2>5
<1>7. QED BY <1>1, <1>4, <1>5, <1>6 DEF CrmInv, Newest

\* A request that gets to another step, with what it compares with.
RequestGets(h, step) == request' = [request EXCEPT ![h].step = step]

LEMMA StepOf ==
  ASSUME CrmInv, NEW h \in Hooks,
         NEW step \in {"idle", "apply", "checkpoint", "processed", "ignored", "failed"}, RequestGets(h, step)
  PROVE  /\ request' \in [Hooks -> CrmRequest]
         /\ \A g \in Hooks : request'[g].seen = request[g].seen
         /\ \A g \in Hooks : request'[g].step = IF g = h THEN step ELSE request[g].step
<1> DEFINE x == [request[h] EXCEPT !.step = step]
<1>1. request[h] \in CrmRequest
  BY DEF CrmInv, CrmTypes
<1>2. x \in CrmRequest /\ x.step = step /\ x.seen = request[h].seen
  BY <1>1 DEF CrmRequest
<1>3. request' = [request EXCEPT ![h] = x]
  BY DEF RequestGets
<1> HIDE DEF x
<1>4. QED BY <1>2, <1>3, RequestTyped

LEMMA ApplyKeepsCrm ==
  ASSUME CrmInv, NEW h \in Hooks, Crm!Apply(h)
  PROVE  CrmInv'
<1>1. request[h].step = "apply" /\ UNCHANGED <<conn, work, lateCall, inbox, replay, erased>>
  BY DEF Crm!Apply, Crm!crm
<1>2. Keyless'
  BY <1>1, ImportsKeepDeliveries
<1>3. request[h] \in CrmRequest /\ request[h].seen \in Times /\ value \in Times
      /\ h.subject \in Subjects /\ h.at \in Nat
  BY HookOf DEF CrmInv, CrmTypes, CrmRequest
<1>4. CASE \E step \in {"ignored", "failed"} :
             /\ request' = [request EXCEPT ![h].step = step] /\ UNCHANGED <<value, disturbed>>
             /\ step = "ignored" => Crm!Older(h)
  <2>1. PICK step \in {"ignored", "failed"} :
             /\ request' = [request EXCEPT ![h].step = step] /\ UNCHANGED <<value, disturbed>>
             /\ step = "ignored" => Crm!Older(h)
    BY <1>4
  <2>2. /\ request' \in [Hooks -> CrmRequest]
        /\ \A g \in Hooks : request'[g].seen = request[g].seen
        /\ \A g \in Hooks : request'[g].step = IF g = h THEN step ELSE request[g].step
    <3>1. RequestGets(h, step)
      BY <2>1 DEF RequestGets
    <3>2. step \in {"idle", "apply", "checkpoint", "processed", "ignored", "failed"}
      BY <2>1
    <3>3. QED BY <3>1, <3>2, StepOf
  <2>3. CrmTypes'
    BY <1>1, <2>1, <2>2 DEF CrmInv, CrmTypes
  <2>4. ASSUME ~disturbed' PROVE OneApplies' /\ UpToDate'
    <3>1. OneApplies /\ UpToDate
      BY <2>1, <2>4 DEF CrmInv, Newest
    <3>2. step = "ignored" => value[h.subject] >= h.at
      BY <1>1, <1>3, <2>1, <3>1 DEF UpToDate, Crm!Older, Times
    <3>3. OneApplies'
      BY <1>1, <2>2, <3>1 DEF OneApplies
    <3>4. UpToDate'
      BY <1>1, <2>1, <2>2, <3>1, <3>2 DEF UpToDate
    <3>5. QED BY <3>3, <3>4
  <2>5. QED BY <1>1, <1>2, <2>3, <2>4 DEF CrmInv, Newest
<1>5. CASE /\ value' = [value EXCEPT ![h.subject] = h.at]
           /\ request' = [request EXCEPT ![h] = [step |-> "checkpoint",
                                                 seen |-> [request[h].seen EXCEPT ![h.subject] = h.at]]]
           /\ disturbed' = (disturbed \/ Crm!Older(h))
  <2> DEFINE seen == [request[h].seen EXCEPT ![h.subject] = h.at]
             x == [step |-> "checkpoint", seen |-> seen]
  <2>1. seen \in Times /\ value' \in Times
    BY <1>3, <1>5 DEF Times
  <2>2. x \in CrmRequest /\ x.step = "checkpoint" /\ x.seen = seen
    BY <2>1 DEF CrmRequest
  <2>3. request[h].seen = value => seen = value'
    BY <1>5
  <2>4. request' = [request EXCEPT ![h] = x]
    BY <1>5
  <2>5. \A g \in Hooks : value'[g.subject] = IF g.subject = h.subject THEN h.at ELSE value[g.subject]
    BY <1>3, <1>5, HookOf DEF Times
  <2> HIDE DEF seen, x
  <2>6. request' \in [Hooks -> CrmRequest] /\ \A g \in Hooks : request'[g] = IF g = h THEN x ELSE request[g]
    BY <2>2, <2>4, RequestTyped
  <2>7. CrmTypes'
    BY <1>1, <2>1, <2>6 DEF CrmInv, CrmTypes
  <2>8. ASSUME ~disturbed' PROVE OneApplies' /\ UpToDate'
    <3>1. ~disturbed /\ ~Crm!Older(h)
      BY <1>5, <2>8
    <3>2. OneApplies /\ UpToDate
      BY <3>1 DEF CrmInv, Newest
    <3>3. request[h].seen = value
      BY <1>1, <3>2 DEF UpToDate
    <3>4. h.at > value[h.subject]
      BY <1>3, <3>1, <3>3 DEF Crm!Older, Times
    <3>5. \A g \in Hooks : value[g.subject] >= g.at => value'[g.subject] >= g.at
      BY <1>3, <2>5, <3>4, HookOf DEF Times
    <3>6. value'[h.subject] >= h.at
      BY <1>3, <2>5
    <3>7. OneApplies'
      BY <1>1, <2>2, <2>6, <3>2 DEF OneApplies
    <3>8. \A g \in Hooks : g # h => request'[g].step = "idle"
      BY <1>1, <2>6, <3>2 DEF OneApplies
    <3>9. request'[h].step = "checkpoint" /\ request'[h].seen = value'
      BY <2>2, <2>3, <2>6, <3>3
    <3>10. UpToDate'
      BY <1>1, <3>2, <3>5, <3>6, <3>8, <3>9 DEF UpToDate
    <3>11. QED BY <3>7, <3>10
  <2>9. QED BY <1>1, <1>2, <2>7, <2>8 DEF CrmInv, Newest
<1>6. QED BY <1>4, <1>5 DEF Crm!Apply

LEMMA WriteKeepsCrm ==
  ASSUME CrmInv, NEW h \in Hooks, Crm!WriteCheckpoint(h)
  PROVE  CrmInv'
<1>1. request[h].step = "checkpoint" /\ UNCHANGED <<work, lateCall, inbox, replay, value, erased>>
  BY DEF Crm!WriteCheckpoint, Crm!crm
<1>2. PICK step \in {"processed", "failed"} :
        /\ request' = [request EXCEPT ![h].step = step]
        /\ step = "processed" => conn' = [conn EXCEPT !.checkpoint = request[h].seen] /\ UNCHANGED disturbed
        /\ step = "failed" => disturbed' = TRUE /\ UNCHANGED conn
  <2> DEFINE Ends(step) == /\ request' = [request EXCEPT ![h].step = step]
                           /\ step = "processed" => conn' = [conn EXCEPT !.checkpoint = request[h].seen] /\ UNCHANGED disturbed
                           /\ step = "failed" => disturbed' = TRUE /\ UNCHANGED conn
  <2>1. Ends("processed") \/ Ends("failed")
    BY DEF Crm!WriteCheckpoint
  <2>2. QED BY <2>1
<1>3. /\ request' \in [Hooks -> CrmRequest]
      /\ \A g \in Hooks : request'[g].seen = request[g].seen
      /\ \A g \in Hooks : request'[g].step = IF g = h THEN step ELSE request[g].step
  <2>1. RequestGets(h, step)
    BY <1>2 DEF RequestGets
  <2>2. step \in {"idle", "apply", "checkpoint", "processed", "ignored", "failed"}
    BY <1>2
  <2>3. QED BY <2>1, <2>2, StepOf
<1>4. conn \in CrmConn /\ request[h].seen \in Times
  BY DEF CrmInv, CrmTypes, CrmRequest
<1>5. conn' \in CrmConn /\ conn'.keyed = conn.keyed /\ (step = "processed" => conn'.checkpoint = request[h].seen)
  BY <1>2, <1>4 DEF CrmConn
<1>6. CrmTypes'
  BY <1>1, <1>3, <1>5 DEF CrmInv, CrmTypes
<1>7. Keyless'
  BY <1>1, <1>5, ImportsKeepDeliveries
<1>8. ASSUME ~disturbed' PROVE OneApplies' /\ UpToDate'
  <2>1. step = "processed" /\ ~disturbed
    BY <1>2, <1>8
  <2>2. OneApplies /\ UpToDate
    BY <2>1 DEF CrmInv, Newest
  <2>3. conn'.checkpoint = value /\ value[h.subject] >= h.at
    BY <1>1, <1>5, <2>1, <2>2 DEF UpToDate
  <2>4. OneApplies'
    BY <1>1, <1>3, <2>2 DEF OneApplies
  <2>5. UpToDate'
    BY <1>1, <1>3, <2>1, <2>2, <2>3 DEF UpToDate
  <2>6. QED BY <2>4, <2>5
<1>9. QED BY <1>1, <1>6, <1>7, <1>8 DEF CrmInv, Newest

LEMMA FinishKeepsCrm ==
  ASSUME CrmInv, NEW h \in Hooks, Crm!Finish(h)
  PROVE  CrmInv'
<1> DEFINE status == IF request[h].step = "failed" /\ h \in replay.rows /\ inbox[h].attempts >= MaxAttempts
                     THEN "dead_letter" ELSE request[h].step
           next == [on |-> TRUE, rows |-> replay.rows \ {h},
                    seen |-> IF request[h].step = "failed" THEN request[h].seen ELSE conn.checkpoint]
<1>1. /\ request[h].step \in {"processed", "ignored", "failed"}
      /\ request' = [request EXCEPT ![h] = Crm!Quiet]
      /\ inbox' = [inbox EXCEPT ![h].status = status]
      /\ replay' = IF h \notin replay.rows THEN replay ELSE next
      /\ UNCHANGED <<conn, work, lateCall, value, erased, disturbed>>
  BY DEF Crm!Finish, Crm!crm
<1>2. PICK s \in {"processed", "ignored", "failed", "dead_letter"} :
        s = status /\ (s \in {"processed", "ignored"} => request[h].step = s)
  BY <1>1
<1>3. /\ next.on = TRUE /\ next.rows = replay.rows \ {h}
      /\ next.seen = IF request[h].step = "failed" THEN request[h].seen ELSE conn.checkpoint
  OBVIOUS
<1>4. next \in [on : BOOLEAN, rows : SUBSET Hooks, seen : Times]
  BY DEF CrmInv, CrmTypes, CrmConn, CrmRequest
<1>5. inbox' = [inbox EXCEPT ![h].status = s]
  BY <1>1, <1>2
<1> HIDE DEF status
<1>6. PICK r : r = next /\ replay' = IF h \notin replay.rows THEN replay ELSE r
  BY <1>1
<1> HIDE DEF next
<1>7. /\ inbox' \in [Hooks -> [status : {"absent", "received", "processed", "ignored", "failed", "dead_letter"}, attempts : Nat]]
      /\ \A g \in Hooks : inbox'[g].status = IF g = h THEN s ELSE inbox[g].status
  BY <1>5 DEF CrmInv, CrmTypes
<1>8. request' \in [Hooks -> CrmRequest] /\ \A g \in Hooks : request'[g] = IF g = h THEN Crm!Quiet ELSE request[g]
  BY <1>1, CrmConstants, RequestTyped
<1>9. CrmTypes'
  BY <1>1, <1>4, <1>6, <1>7, <1>8 DEF CrmInv, CrmTypes
<1>10. Keyless'
  BY <1>1, ImportsKeepDeliveries
<1>11. replay'.rows # {} => replay'.on
  BY <1>3, <1>6 DEF CrmInv, Newest
<1>12. ASSUME ~disturbed' PROVE OneApplies' /\ UpToDate'
  <2>1. OneApplies /\ UpToDate
    BY <1>1, <1>12 DEF CrmInv, Newest
  <2>2. \A g \in Hooks : request'[g].step = "idle"
    BY <1>1, <1>8, <2>1, CrmConstants DEF OneApplies
  <2>3. \A g \in Hooks : request[g].step # "checkpoint"
    BY <1>1, <2>1 DEF OneApplies
  <2>4. conn.checkpoint = value /\ request[h].seen = value
    BY <1>1, <2>1, <2>3 DEF UpToDate
  <2>5. replay'.on => replay'.seen = value
    <3>1. CASE h \in replay.rows
      BY <1>3, <1>6, <2>4, <3>1
    <3>2. CASE h \notin replay.rows
      BY <1>1, <1>6, <2>1, <3>2 DEF OneApplies
    <3>3. QED BY <3>1, <3>2
  <2>6. \A g \in Hooks : inbox'[g].status \in {"processed", "ignored"} => value[g.subject] >= g.at
    BY <1>1, <1>2, <1>7, <2>1 DEF UpToDate
  <2>7. OneApplies'
    BY <2>2 DEF OneApplies
  <2>8. UpToDate'
    BY <1>1, <2>2, <2>4, <2>5, <2>6 DEF UpToDate
  <2>9. QED BY <2>7, <2>8
<1>13. QED BY <1>9, <1>10, <1>11, <1>12 DEF CrmInv, Newest

LEMMA DieKeepsCrm ==
  ASSUME CrmInv, Crm!Die
  PROVE  CrmInv'
<1>1. /\ request' = [h \in Hooks |-> Crm!Quiet] /\ replay' = Crm!NoReplay
      /\ disturbed' = (disturbed \/ \E h \in Hooks : request[h].step = "checkpoint")
      /\ UNCHANGED <<conn, work, lateCall, inbox, value, erased>>
  BY DEF Crm!Die, Crm!crm
<1>2. CrmTypes'
  BY <1>1, CrmConstants DEF CrmInv, CrmTypes
<1>3. Keyless'
  BY <1>1, ImportsKeepDeliveries
<1>4. \A h \in Hooks : request'[h].step = "idle"
  BY <1>1, CrmConstants
<1>5. ~replay'.on /\ replay'.rows = {}
  BY <1>1, CrmConstants
<1>6. ASSUME ~disturbed' PROVE OneApplies' /\ UpToDate'
  <2>1. conn.checkpoint = value /\ UpToDate
    BY <1>1, <1>6 DEF CrmInv, Newest, UpToDate
  <2>2. QED BY <1>1, <1>4, <1>5, <2>1 DEF OneApplies, UpToDate
<1>7. QED BY <1>2, <1>3, <1>5, <1>6 DEF CrmInv, Newest

LEMMA RequeueKeepsCrm ==
  ASSUME CrmInv, Crm!Requeue
  PROVE  CrmInv'
<1>1. replay.on /\ replay.rows = {} /\ replay' = Crm!NoReplay
      /\ UNCHANGED <<conn, work, lateCall, erased, inbox, request, value, disturbed>>
  BY DEF Crm!Requeue
<1>2. CrmTypes'
  BY <1>1, CrmConstants DEF CrmInv, CrmTypes
<1>3. Keyless'
  BY <1>1, ImportsKeepDeliveries
<1>4. ~replay'.on /\ replay'.rows = {}
  BY <1>1, CrmConstants
<1>5. ASSUME ~disturbed' PROVE OneApplies' /\ UpToDate'
  BY <1>1, <1>4, <1>5 DEF CrmInv, Newest, OneApplies, UpToDate
<1>6. QED BY <1>2, <1>3, <1>4, <1>5 DEF CrmInv, Newest

\* What the administrator does to the row of the connection.
LEMMA RowKeepsCrm ==
  ASSUME CrmInv, Crm!Revoke \/ Crm!Rotate \/ \E p \in Policies : Crm!UpdateSettings(p)
  PROVE  CrmInv'
<1>1. UNCHANGED <<work, lateCall, inbox, replay, request, value>>
  BY DEF Crm!Revoke, Crm!Rotate, Crm!UpdateSettings, Crm!crm, Crm!imports
<1>2. conn \in CrmConn /\ erased \in BOOLEAN
  BY DEF CrmInv, CrmTypes
<1>3. ASSUME conn' \in CrmConn, erased' \in BOOLEAN, erased' => ~conn'.keyed,
             ~disturbed' => ~disturbed /\ conn'.checkpoint = conn.checkpoint
      PROVE  CrmInv'
  <2>1. CrmTypes'
    BY <1>1, <1>3 DEF CrmInv, CrmTypes
  <2>2. Keyless'
    BY <1>1, <1>3 DEF CrmInv, Keyless
  <2>3. Newest'
    BY <1>1, <1>3 DEF CrmInv, Newest, OneApplies, UpToDate
  <2>4. QED BY <2>1, <2>2, <2>3 DEF CrmInv
<1>4. CASE Crm!Revoke
  <2> DEFINE r == [x \in DOMAIN conn |-> IF x = "status" THEN "revoked" ELSE IF x = "keyed" THEN FALSE
                                         ELSE IF x = "checkpoint" THEN Crm!Empty ELSE conn[x]]
  <2>1. Crm!Revoked = r
    BY <1>2 DEF Crm!Revoked, CrmConn
  <2>2. r \in CrmConn /\ r.keyed = FALSE
    BY <1>2, CrmConstants DEF CrmConn
  <2> HIDE DEF r
  <2>3. QED BY <1>3, <1>4, <2>1, <2>2 DEF Crm!Revoke
<1>5. CASE Crm!Rotate
  <2> DEFINE r == [x \in DOMAIN conn |-> IF x = "status" THEN "active" ELSE IF x = "keyed" THEN TRUE ELSE conn[x]]
  <2>1. conn' = r
    BY <1>2, <1>5 DEF Crm!Rotate, CrmConn
  <2>2. r \in CrmConn /\ r.checkpoint = conn.checkpoint
    BY <1>2 DEF CrmConn
  <2> HIDE DEF r
  <2>3. QED BY <1>3, <1>5, <2>1, <2>2 DEF Crm!Rotate, Crm!imports
<1>6. ASSUME NEW p \in Policies, Crm!UpdateSettings(p) PROVE CrmInv'
  <2>1. conn' = [conn EXCEPT !.policy = p] /\ UNCHANGED <<erased, disturbed>>
    BY <1>6 DEF Crm!UpdateSettings, Crm!imports
  <2>2. conn' \in CrmConn /\ conn'.keyed = conn.keyed /\ conn'.checkpoint = conn.checkpoint
    BY <1>2, <2>1 DEF CrmConn
  <2>3. erased => ~conn.keyed
    BY DEF CrmInv, Keyless
  <2>4. QED BY <1>2, <1>3, <2>1, <2>2, <2>3
<1>7. QED BY <1>4, <1>5, <1>6

LEMMA CrmStepKeeps == CrmInv /\ [Crm!Next]_(Crm!vars) => CrmInv'
<1> SUFFICES ASSUME CrmInv, [Crm!Next]_(Crm!vars) PROVE CrmInv'
  OBVIOUS
<1>1. CASE UNCHANGED Crm!vars
  BY <1>1 DEF Crm!vars, CrmInv, CrmTypes, Keyless, Newest, OneApplies, UpToDate
<1>2. CASE Crm!Webhooks
  BY <1>2, ReceiveKeepsCrm, ReplayNextKeepsCrm, ApplyKeepsCrm, WriteKeepsCrm, FinishKeepsCrm, DieKeepsCrm
  DEF Crm!Webhooks
<1>3. CASE Crm!Administration
  BY <1>3, ReplayKeepsCrm, RequeueKeepsCrm, RowKeepsCrm, DeliveriesKeepCrm DEF Crm!Administration
<1>4. QED
  BY <1>1, <1>2, <1>3, DeliveriesKeepCrm DEF Crm!Next

LEMMA CrmInvSays == CrmInv => Crm!RevokedIsSilent /\ Crm!NewestWins
BY DEF CrmInv, Keyless, Newest, UpToDate, Crm!RevokedIsSilent, Crm!NewestWins

-----------------------------------------------------------------------------
(***************************************************************************)
(* The store: an operation adds one number, and makes a user of whom it    *)
(* has accepted; what it makes of its copy is held against the row of the  *)
(* moment when it is written.                                              *)
(***************************************************************************)

StoreBilling == {"manual", "trialing", "active", "pending", "past_due", "canceled", "unpaid"}
StoreTables == [numbers : SUBSET Numbers, members : SUBSET People, users : SUBSET People,
                invite : {"none", "pending", "accepted"}, plan : DOMAIN Plans,
                status : {"active", "suspended"}, provider : {"manual", "stripe", "whop", "swich"},
                billing : StoreBilling, audit : SUBSET AuditIds]
StoreTable(d) == d \in StoreTables /\ IsFiniteSet(d.numbers)

\* What one operation may make of the tables it is given.
Small(b, a) ==
  /\ StoreTable(b) /\ StoreTable(a)
  /\ \A m, n \in a.numbers \ b.numbers : m = n
  /\ a.invite # b.invite /\ a.invite = "accepted" => Guest \notin b.users /\ a.users = b.users \cup {Guest}

StoreInv ==
  /\ StoreTable(db)
  /\ copy \in [StoreProcesses -> {Store!NoCopy} \cup [step : {"loading", "busy"}, before : StoreTables, after : StoreTables]]
  /\ \A p \in StoreProcesses : copy[p].step = "loading" => StoreTable(copy[p].before)
  /\ \A p \in StoreProcesses : copy[p].step = "busy" => Small(copy[p].before, copy[p].after)

LEMMA StoreConstants == Owner \in People /\ Guest \in People /\ "team" \in DOMAIN Plans /\ \A p \in DOMAIN Plans : Plans[p].numbers \in Nat
BY IntegrationsAssumption

LEMMA StoreInit == Store!Init => StoreInv
<1> SUFFICES ASSUME Store!Init PROVE StoreInv
  OBVIOUS
<1>1. StoreTable(db)
  BY StoreConstants, FS_EmptySet DEF Store!Init, StoreTable, StoreTables, StoreBilling
<1>2. \A p \in StoreProcesses : copy[p] = Store!NoCopy
  BY DEF Store!Init
<1>3. Store!NoCopy.step = "idle"
  BY DEF Store!NoCopy
<1>4. QED BY <1>1, <1>2, <1>3 DEF StoreInv, Store!Init

LEMMA NumberResults ==
  ASSUME NEW d, StoreTable(d), NEW a \in Store!createAccount(d) \cup Store!deleteAccount(d)
  PROVE  Small(d, a)
<1>1. PICK n : \/ n \in Numbers /\ a = [d EXCEPT !.numbers = d.numbers \cup {n}]
               \/ n \in Numbers /\ a = [d EXCEPT !.numbers = d.numbers \ {n}]
  <2>1. CASE a \in Store!createAccount(d)
    BY <2>1 DEF Store!createAccount
  <2>2. CASE a \in Store!deleteAccount(d)
    BY <2>2 DEF Store!deleteAccount, StoreTable, StoreTables
  <2>3. QED BY <2>1, <2>2
<1>2. PICK N : (N = d.numbers \cup {n} \/ N = d.numbers \ {n}) /\ n \in Numbers /\ a = [d EXCEPT !.numbers = N]
  BY <1>1
<1>3. IsFiniteSet(N) /\ N \subseteq Numbers /\ N \ d.numbers \subseteq {n}
  BY <1>2, FS_AddElement, FS_RemoveElement DEF StoreTable, StoreTables
<1>4. a \in StoreTables /\ a.numbers = N /\ a.invite = d.invite
  BY <1>2, <1>3 DEF StoreTable, StoreTables
<1>5. QED BY <1>3, <1>4 DEF Small, StoreTable

\* An operation that leaves the numbers and accepts nobody.
LEMMA OtherResults ==
  ASSUME NEW d, StoreTable(d), NEW a,
         \/ \E U \in SUBSET People : a = [d EXCEPT !.users = U]
         \/ \E U \in SUBSET People : a = [d EXCEPT !.members = U]
         \/ a = [d EXCEPT !.invite = "pending"]
         \/ \E A \in SUBSET AuditIds : a = [d EXCEPT !.audit = A]
         \/ \E p \in DOMAIN Plans : a = [d EXCEPT !.plan = p]
         \/ \E s \in {"active", "suspended"} : a = [d EXCEPT !.status = s]
         \/ \E v \in {"stripe", "whop", "swich"}, s \in StoreBilling : a = [d EXCEPT !.provider = v, !.billing = s]
  PROVE  Small(d, a)
<1>1. a \in StoreTables /\ a.numbers = d.numbers /\ (a.invite = d.invite \/ a.invite = "pending")
  <2>1. CASE \E v \in {"stripe", "whop", "swich"}, s \in StoreBilling : a = [d EXCEPT !.provider = v, !.billing = s]
    BY <2>1 DEF StoreTable, StoreTables
  <2>2. CASE ~ \E v \in {"stripe", "whop", "swich"}, s \in StoreBilling : a = [d EXCEPT !.provider = v, !.billing = s]
    BY <2>2 DEF StoreTable, StoreTables
  <2>3. QED BY <2>1, <2>2
<1>2. QED BY <1>1 DEF Small, StoreTable

LEMMA PeopleResults ==
  ASSUME NEW d, StoreTable(d),
         NEW a \in Store!createClient(d) \cup Store!addWorkspaceMember(d) \cup Store!removeWorkspaceMember(d)
                   \cup Store!createInvite(d) \cup Store!addAudit(d)
  PROVE  Small(d, a)
<1>1. d \in StoreTables
  BY DEF StoreTable
<1>2. CASE a \in Store!createClient(d)
  <2>1. PICK u \in People : a = [d EXCEPT !.users = @ \cup {u}]
    BY <1>2 DEF Store!createClient
  <2>2. d.users \cup {u} \in SUBSET People /\ a = [d EXCEPT !.users = d.users \cup {u}]
    BY <1>1, <2>1 DEF StoreTables
  <2>3. QED BY <2>2, OtherResults
<1>3. CASE a \in Store!addWorkspaceMember(d) \cup Store!removeWorkspaceMember(d)
  <2>1. \E U \in SUBSET People : a = [d EXCEPT !.members = U]
    <3>1. CASE a \in Store!addWorkspaceMember(d)
      <4>1. PICK u \in d.users : a = [d EXCEPT !.members = d.members \cup {u}]
        BY <3>1 DEF Store!addWorkspaceMember
      <4>2. d.members \cup {u} \in SUBSET People
        BY <1>1, <4>1 DEF StoreTables
      <4>3. QED BY <4>1, <4>2
    <3>2. CASE a \in Store!removeWorkspaceMember(d)
      <4>1. PICK u \in d.members : a = [d EXCEPT !.members = d.members \ {u}]
        BY <3>2 DEF Store!removeWorkspaceMember
      <4>2. d.members \ {u} \in SUBSET People
        BY <1>1, <4>1 DEF StoreTables
      <4>3. QED BY <4>1, <4>2
    <3>3. QED BY <1>3, <3>1, <3>2
  <2>2. QED BY <2>1, OtherResults
<1>4. CASE a \in Store!createInvite(d)
  BY <1>4, OtherResults DEF Store!createInvite
<1>5. CASE a \in Store!addAudit(d)
  <2>1. PICK e \in AuditIds, kept \in SUBSET d.audit : a = [d EXCEPT !.audit = {e} \cup kept]
    BY <1>5 DEF Store!addAudit
  <2>2. {e} \cup kept \in SUBSET AuditIds
    BY <1>1, <2>1 DEF StoreTables
  <2>3. QED BY <2>1, <2>2, OtherResults
<1>6. QED BY <1>2, <1>3, <1>4, <1>5

LEMMA InviteResults ==
  ASSUME NEW d, StoreTable(d), NEW a \in Store!acceptInvite(d)
  PROVE  Small(d, a)
<1> DEFINE e == [d EXCEPT !.users = d.users \cup {Guest}, !.invite = "accepted"]
<1>1. a \in Store!addWorkspaceMember(e) /\ Guest \notin d.users
  BY DEF Store!acceptInvite
<1>2. e \in StoreTables /\ e.numbers = d.numbers /\ e.users = d.users \cup {Guest}
  BY StoreConstants DEF StoreTable, StoreTables
<1> HIDE DEF e
<1>3. PICK u : u \in e.users /\ a = [e EXCEPT !.members = e.members \cup {u}]
  BY <1>1 DEF Store!addWorkspaceMember
<1>4. a \in StoreTables /\ a.numbers = e.numbers /\ a.users = e.users
  BY <1>2, <1>3 DEF StoreTables
<1>5. QED BY <1>1, <1>2, <1>4 DEF Small, StoreTable

LEMMA RowResults ==
  ASSUME NEW d, StoreTable(d),
         NEW a \in Store!updateWorkspace(d) \cup Store!stripeCheckout(d) \cup Store!stripeWebhook(d)
                   \cup Store!swichCheckout(d) \cup Store!whopWebhook(d)
  PROVE  Small(d, a)
<1>1. CASE a \in Store!updateWorkspace(d)
  BY <1>1, OtherResults DEF Store!updateWorkspace
<1>2. CASE a \notin Store!updateWorkspace(d)
  <2>1. \E v \in {"stripe", "whop", "swich"}, s \in StoreBilling : a = [d EXCEPT !.provider = v, !.billing = s]
    BY <1>2 DEF Store!stripeCheckout, Store!stripeWebhook, Store!swichCheckout, Store!whopWebhook, Store!Billed,
                Store!mapStripeStatus, Store!mapWhopStatus, StoreBilling
  <2>2. QED BY <2>1, OtherResults
<1>3. QED BY <1>1, <1>2

LEMMA LoadedTables ==
  ASSUME StoreInv, NEW p \in StoreProcesses, NEW t \in Store!Loaded(p)
  PROVE  StoreTable(t)
<1>1. copy[p].step = "loading"
  BY DEF Store!Loaded
<1>2. StoreTable(copy[p].before) /\ StoreTable(db)
  BY <1>1 DEF StoreInv
<1>3. PICK R : t = [c \in DOMAIN db |-> IF c \in R THEN copy[p].before[c] ELSE db[c]]
  BY DEF Store!Loaded
<1>4. PICK b : b = copy[p].before
  OBVIOUS
<1>5. StoreTable(b) /\ t = [c \in DOMAIN db |-> IF c \in R THEN b[c] ELSE db[c]]
  BY <1>2, <1>3, <1>4
<1>6. t \in StoreTables /\ t.numbers \in {b.numbers, db.numbers}
  BY <1>2, <1>5 DEF StoreTable, StoreTables
<1>7. QED BY <1>2, <1>5, <1>6 DEF StoreTable

\* A process that loads, has the result of its operation, or is done.
LEMMA CopyKeepsStore ==
  ASSUME StoreInv, StoreTable(db'), NEW p \in StoreProcesses, NEW x, copy' = [copy EXCEPT ![p] = x],
         \/ x = Store!NoCopy
         \/ x \in [step : {"loading", "busy"}, before : StoreTables, after : StoreTables],
         x.step = "loading" => StoreTable(x.before),
         x.step = "busy" => Small(x.before, x.after)
  PROVE  StoreInv'
<1>1. \A q \in StoreProcesses : copy'[q] = IF q = p THEN x ELSE copy[q]
  BY DEF StoreInv
<1>2. copy' \in [StoreProcesses -> {Store!NoCopy} \cup [step : {"loading", "busy"}, before : StoreTables, after : StoreTables]]
  BY DEF StoreInv
<1>3. QED BY <1>1, <1>2 DEF StoreInv

LEMMA MutateKeepsStore ==
  ASSUME StoreInv, NEW p \in StoreProcesses, NEW t \in Store!Loaded(p), NEW results,
         \A a \in results : Small(t, a), Store!Mutate(p, t, results)
  PROVE  StoreInv'
<1>1. PICK a \in results : copy' = [copy EXCEPT ![p] = [step |-> "busy", before |-> t, after |-> a]]
  BY DEF Store!Mutate
<1>2. Small(t, a)
  BY <1>1
<1> DEFINE x == [step |-> "busy", before |-> t, after |-> a]
<1>3. x \in [step : {"loading", "busy"}, before : StoreTables, after : StoreTables]
      /\ x.step = "busy" /\ x.before = t /\ x.after = a
  BY <1>2 DEF Small, StoreTable
<1>4. copy' = [copy EXCEPT ![p] = x]
  BY <1>1
<1> HIDE DEF x
<1>5. StoreTable(db')
  BY DEF Store!Mutate, StoreInv
<1>6. QED BY <1>2, <1>3, <1>4, <1>5, CopyKeepsStore

LEMMA LoadKeepsStore ==
  ASSUME StoreInv, NEW p \in StoreProcesses, Store!Load(p) \/ Store!Rollback(p)
  PROVE  StoreInv'
<1>1. StoreTable(db) /\ StoreTable(db')
  BY DEF Store!Load, Store!Rollback, StoreInv
<1>2. CASE Store!Load(p)
  <2> DEFINE x == [step |-> "loading", before |-> db, after |-> db]
  <2>1. x \in [step : {"loading", "busy"}, before : StoreTables, after : StoreTables]
        /\ x.step = "loading" /\ x.before = db
    BY <1>1 DEF StoreTable
  <2>2. copy' = [copy EXCEPT ![p] = x]
    BY <1>2 DEF Store!Load
  <2> HIDE DEF x
  <2>3. QED BY <1>1, <2>1, <2>2, CopyKeepsStore
<1>3. CASE Store!Rollback(p)
  <2>1. copy' = [copy EXCEPT ![p] = Store!NoCopy]
    BY <1>3 DEF Store!Rollback, Store!Idle
  <2>2. Store!NoCopy.step = "idle"
    BY DEF Store!NoCopy
  <2>3. QED BY <1>1, <2>1, <2>2, CopyKeepsStore
<1>4. QED BY <1>2, <1>3

\* The tables after a delta.
LEMMA DeltaOf ==
  ASSUME StoreInv, NEW p \in StoreProcesses, Store!ApplyDelta(p)
  PROVE  /\ Small(copy[p].before, copy[p].after)
         /\ StoreTable(db')
         /\ db'.numbers = (db.numbers \cup Store!New(p, "numbers")) \ Store!Gone(p, "numbers")
         /\ db'.users = (db.users \cup Store!New(p, "users")) \ Store!Gone(p, "users")
         /\ db'.audit = db.audit \cup Store!New(p, "audit")
         /\ \A c \in Store!Columns : db'[c] = IF c \in Store!Changed(p) THEN copy[p].after[c] ELSE db[c]
<1>1. Small(copy[p].before, copy[p].after)
  BY DEF Store!ApplyDelta, StoreInv
<1>2. PICK b, a : b = copy[p].before /\ a = copy[p].after
  OBVIOUS
<1>3. /\ Store!New(p, "numbers") = a.numbers \ b.numbers /\ Store!Gone(p, "numbers") = b.numbers \ a.numbers
      /\ Store!New(p, "users") = a.users \ b.users /\ Store!Gone(p, "users") = b.users \ a.users
      /\ Store!New(p, "members") = a.members \ b.members /\ Store!Gone(p, "members") = b.members \ a.members
      /\ Store!New(p, "audit") = a.audit \ b.audit
  BY <1>2 DEF Store!New, Store!Gone
<1>4. db' = [f \in DOMAIN db |->
               CASE f \in Store!Columns -> IF f \in Store!Changed(p) THEN a[f] ELSE db[f]
                 [] f = "audit" -> db.audit \cup Store!New(p, "audit")
                 [] OTHER -> (db[f] \cup Store!New(p, f)) \ Store!Gone(p, f)]
  BY <1>2 DEF Store!ApplyDelta, Store!Kept
<1>5. DOMAIN db = {"numbers", "members", "users", "invite", "plan", "status", "provider", "billing", "audit"}
  BY DEF StoreInv, StoreTable, StoreTables
<1>6. \A c \in Store!Columns : db'[c] = IF c \in Store!Changed(p) THEN a[c] ELSE db[c]
  BY <1>4, <1>5 DEF Store!Columns
<1>7. \A f \in {"numbers", "users", "members"} : db'[f] = (db[f] \cup Store!New(p, f)) \ Store!Gone(p, f)
  BY <1>4, <1>5 DEF Store!Columns
<1>8. db'["audit"] = db.audit \cup Store!New(p, "audit")
  BY <1>4, <1>5 DEF Store!Columns
<1>9. a \in StoreTables /\ b \in StoreTables /\ db \in StoreTables
  BY <1>1, <1>2 DEF Small, StoreTable, StoreInv
<1>10. db'["numbers"] \in SUBSET Numbers /\ db'["users"] \in SUBSET People /\ db'["members"] \in SUBSET People
       /\ db'["audit"] \in SUBSET AuditIds
  BY <1>3, <1>7, <1>8, <1>9 DEF StoreTables
<1>11. /\ db'["invite"] \in {a.invite, db.invite} /\ db'["plan"] \in {a.plan, db.plan}
       /\ db'["status"] \in {a.status, db.status} /\ db'["provider"] \in {a.provider, db.provider}
       /\ db'["billing"] \in {a.billing, db.billing}
  BY <1>6 DEF Store!Columns
<1>12. db' = [f \in DOMAIN db |-> db'[f]]
  BY <1>4
<1>13. db' \in StoreTables
  <2>1. /\ db'["invite"] \in {"none", "pending", "accepted"} /\ db'["plan"] \in DOMAIN Plans
        /\ db'["status"] \in {"active", "suspended"} /\ db'["provider"] \in {"manual", "stripe", "whop", "swich"}
        /\ db'["billing"] \in StoreBilling
    BY <1>9, <1>11 DEF StoreTables
  <2>2. QED BY <1>5, <1>10, <1>12, <2>1 DEF StoreTables
<1>14. IsFiniteSet(db'.numbers)
  <2>1. PICK n : a.numbers \ b.numbers \subseteq {n}
    BY <1>1, <1>2 DEF Small
  <2>2. IsFiniteSet(db.numbers \cup {n})
    BY FS_AddElement DEF StoreInv, StoreTable
  <2>3. db'.numbers \subseteq db.numbers \cup {n}
    BY <1>3, <1>7, <2>1
  <2>4. QED BY <2>2, <2>3, FS_Subset
<1>15. QED BY <1>1, <1>2, <1>6, <1>7, <1>8, <1>13, <1>14 DEF StoreTable

LEMMA DirectKeepsStore ==
  ASSUME StoreInv, NEW n \in Numbers, Store!InstallNumber(n)
  PROVE  StoreInv' /\ db'.numbers = db.numbers \cup {n} /\ \A c \in (DOMAIN db) \ {"numbers"} : db'[c] = db[c]
<1>1. PICK N : N = db.numbers \cup {n} /\ db' = [db EXCEPT !.numbers = N] /\ UNCHANGED copy
  BY DEF Store!InstallNumber
<1>2. IsFiniteSet(N) /\ N \subseteq Numbers
  BY <1>1, FS_AddElement DEF StoreInv, StoreTable, StoreTables
<1>3. db' \in StoreTables /\ db'.numbers = N /\ \A c \in (DOMAIN db) \ {"numbers"} : db'[c] = db[c]
  BY <1>1, <1>2 DEF StoreInv, StoreTable, StoreTables
<1>4. StoreInv'
  BY <1>1, <1>2, <1>3 DEF StoreInv, StoreTable
<1>5. QED BY <1>1, <1>3, <1>4

LEMMA DeltaKeepsStore ==
  ASSUME StoreInv, NEW p \in StoreProcesses, Store!ApplyDelta(p)
  PROVE  StoreInv'
<1>1. StoreTable(db')
  BY DeltaOf
<1>2. copy' = [copy EXCEPT ![p] = Store!NoCopy]
  BY DEF Store!ApplyDelta, Store!Idle
<1>3. Store!NoCopy.step = "idle"
  BY DEF Store!NoCopy
<1>4. QED BY <1>1, <1>2, <1>3, CopyKeepsStore

\* The results of every operation are small.
LEMMA ResultsKeepStore ==
  ASSUME StoreInv, NEW p \in StoreProcesses, NEW t \in Store!Loaded(p),
         \/ Store!Mutate(p, t, Store!createAccount(t)) \/ Store!Mutate(p, t, Store!deleteAccount(t))
         \/ Store!Mutate(p, t, Store!updateWorkspace(t)) \/ Store!Mutate(p, t, Store!createClient(t))
         \/ Store!Mutate(p, t, Store!addWorkspaceMember(t)) \/ Store!Mutate(p, t, Store!removeWorkspaceMember(t))
         \/ Store!Mutate(p, t, Store!createInvite(t)) \/ Store!Mutate(p, t, Store!acceptInvite(t))
         \/ Store!Mutate(p, t, Store!addAudit(t)) \/ Store!Mutate(p, t, Store!stripeCheckout(t))
         \/ Store!Mutate(p, t, Store!stripeWebhook(t)) \/ Store!Mutate(p, t, Store!swichCheckout(t))
         \/ Store!Mutate(p, t, Store!whopWebhook(t))
  PROVE  StoreInv'
<1>1. StoreTable(t)
  BY LoadedTables
<1>2. PICK results : /\ Store!Mutate(p, t, results)
                     /\ \/ results \in {Store!createAccount(t), Store!deleteAccount(t)}
                        \/ results \in {Store!createClient(t), Store!addWorkspaceMember(t), Store!removeWorkspaceMember(t),
                                        Store!createInvite(t), Store!addAudit(t)}
                        \/ results = Store!acceptInvite(t)
                        \/ results \in {Store!updateWorkspace(t), Store!stripeCheckout(t), Store!stripeWebhook(t),
                                        Store!swichCheckout(t), Store!whopWebhook(t)}
  OBVIOUS
<1>3. ASSUME NEW a \in results PROVE Small(t, a)
  <2>1. CASE a \in Store!createAccount(t) \cup Store!deleteAccount(t)
    BY <1>1, <2>1, NumberResults
  <2>2. CASE a \in Store!createClient(t) \cup Store!addWorkspaceMember(t) \cup Store!removeWorkspaceMember(t)
                   \cup Store!createInvite(t) \cup Store!addAudit(t)
    BY <1>1, <2>2, PeopleResults
  <2>3. CASE a \in Store!acceptInvite(t)
    BY <1>1, <2>3, InviteResults
  <2>4. CASE a \in Store!updateWorkspace(t) \cup Store!stripeCheckout(t) \cup Store!stripeWebhook(t)
                   \cup Store!swichCheckout(t) \cup Store!whopWebhook(t)
    BY <1>1, <2>4, RowResults
  <2>5. QED BY <1>2, <2>1, <2>2, <2>3, <2>4
<1>4. QED BY <1>2, <1>3, MutateKeepsStore

\* A step of the store ends an operation, installs a number, or leaves the tables alone.
LEMMA StoreSteps ==
  ASSUME StoreInv, [Store!NumbersNext \/ Store!PeopleNext \/ Store!BillingNext]_(Store!vars)
  PROVE  /\ StoreInv'
         /\ \/ UNCHANGED db
            \/ \E p \in StoreProcesses : Store!ApplyDelta(p)
            \/ \E n \in Numbers : Store!InstallNumber(n)
<1>1. CASE UNCHANGED Store!vars
  BY <1>1 DEF Store!vars, StoreInv
<1>2. ASSUME NEW p \in StoreProcesses, Store!Mutation(p)
      PROVE  StoreInv' /\ (UNCHANGED db \/ Store!ApplyDelta(p))
  BY <1>2, LoadKeepsStore, DeltaKeepsStore DEF Store!Mutation, Store!Load, Store!Rollback
<1>3. ASSUME NEW n \in Numbers, Store!InstallNumber(n) PROVE StoreInv'
  BY <1>3, DirectKeepsStore
<1>4. ASSUME NEW p \in StoreProcesses, NEW t \in Store!Loaded(p), NEW results, Store!Mutate(p, t, results)
      PROVE  UNCHANGED db
  BY <1>4 DEF Store!Mutate
<1>5. CASE Store!NumbersNext
  BY <1>2, <1>3, <1>4, <1>5, ResultsKeepStore DEF Store!NumbersNext
<1>6. CASE Store!PeopleNext
  BY <1>2, <1>4, <1>6, ResultsKeepStore DEF Store!PeopleNext
<1>7. CASE Store!BillingNext
  BY <1>2, <1>4, <1>7, ResultsKeepStore DEF Store!BillingNext
<1>8. QED BY <1>1, <1>5, <1>6, <1>7

LEMMA SameCardinality == \A S : Store!Cardinality(S) = Cardinality(S)
BY Zenon DEF Cardinality, Store!Cardinality

Quota == \A n \in db'.numbers \ db.numbers :
           /\ Store!Cardinality(db'.numbers) <= Plans[db.plan].numbers
           /\ db.status = "active" /\ Store!canAddPaidResource(db.billing)

LEMMA QuotaKept ==
  ASSUME StoreInv, [Store!NumbersNext \/ Store!PeopleNext \/ Store!BillingNext]_(Store!vars)
  PROVE  Quota
<1> SUFFICES ASSUME NEW n \in db'.numbers \ db.numbers
             PROVE  /\ Store!Cardinality(db'.numbers) <= Plans[db.plan].numbers
                    /\ db.status = "active" /\ Store!canAddPaidResource(db.billing)
  BY DEF Quota
<1>1. Store!MayCreateNumber(n) /\ db'.numbers \subseteq db.numbers \cup {n}
  <2>1. ASSUME NEW p \in StoreProcesses, Store!ApplyDelta(p)
        PROVE  Store!MayCreateNumber(n) /\ db'.numbers \subseteq db.numbers \cup {n}
    <3>1. n \in Store!New(p, "numbers")
      BY <2>1, DeltaOf
    <3>2. Store!MayCreateNumber(n)
      BY <2>1, <3>1 DEF Store!ApplyDelta
    <3>3. Store!New(p, "numbers") \subseteq {n}
      BY <2>1, <3>1, DeltaOf DEF Small, Store!New
    <3>4. db'.numbers = (db.numbers \cup Store!New(p, "numbers")) \ Store!Gone(p, "numbers")
      BY <2>1, DeltaOf
    <3>5. db'.numbers \subseteq db.numbers \cup {n}
      BY <3>1, <3>3, <3>4
    <3>6. QED BY <3>2, <3>5
  <2>2. ASSUME NEW m \in Numbers, Store!InstallNumber(m)
        PROVE  Store!MayCreateNumber(n) /\ db'.numbers \subseteq db.numbers \cup {n}
    BY <2>2, DirectKeepsStore DEF Store!InstallNumber
  <2>3. QED BY <2>1, <2>2, StoreSteps
<1>2. /\ IsFiniteSet(db.numbers \cup {n}) /\ Cardinality(db.numbers) \in Nat
      /\ Cardinality(db.numbers \cup {n}) = Cardinality(db.numbers) + 1
  BY FS_AddElement, FS_CardinalityType DEF StoreInv, StoreTable
<1>3. Cardinality(db'.numbers) <= Cardinality(db.numbers \cup {n}) /\ IsFiniteSet(db'.numbers)
  BY <1>1, <1>2, FS_Subset
<1>4. Cardinality(db'.numbers) \in Nat
  BY <1>3, FS_CardinalityType
<1>5. Plans[db.plan].numbers \in Nat
  BY StoreConstants DEF StoreInv, StoreTable, StoreTables
<1>6. Cardinality(db.numbers) < Plans[db.plan].numbers /\ db.status = "active" /\ Store!canAddPaidResource(db.billing)
  BY <1>1, SameCardinality DEF Store!MayCreateNumber
<1>7. Cardinality(db'.numbers) <= Plans[db.plan].numbers
  BY <1>2, <1>3, <1>4, <1>5, <1>6
<1>8. QED BY <1>6, <1>7, SameCardinality

Seen == /\ \A c \in Store!Columns : db'[c] # db[c] =>
             \E p \in StoreProcesses : copy[p].step = "busy" /\ copy[p].before[c] = db[c] /\ copy[p].after[c] = db'[c]
        /\ db'.invite # db.invite /\ db'.invite = "accepted" => db'.users = db.users \cup {Guest}
        /\ db.audit \subseteq db'.audit

LEMMA SeenKept ==
  ASSUME StoreInv, [Store!NumbersNext \/ Store!PeopleNext \/ Store!BillingNext]_(Store!vars)
  PROVE  Seen
<1>1. CASE UNCHANGED db
  BY <1>1 DEF Seen
<1>2. ASSUME NEW p \in StoreProcesses, Store!ApplyDelta(p) PROVE Seen
  <2>1. \A c \in Store!Columns : db'[c] # db[c] =>
          copy[p].step = "busy" /\ copy[p].before[c] = db[c] /\ copy[p].after[c] = db'[c]
    BY <1>2, DeltaOf DEF Store!ApplyDelta, Store!Guarded
  <2>2. ASSUME db'.invite # db.invite, db'.invite = "accepted" PROVE db'.users = db.users \cup {Guest}
    <3>1. copy[p].before.invite = db.invite /\ copy[p].after.invite = "accepted"
      BY <2>1, <2>2 DEF Store!Columns
    <3>2. Guest \notin copy[p].before.users /\ copy[p].after.users = copy[p].before.users \cup {Guest}
      BY <1>2, <2>2, <3>1, DeltaOf DEF Small
    <3>3. Store!New(p, "users") = {Guest} /\ Store!Gone(p, "users") = {}
      BY <3>2 DEF Store!New, Store!Gone
    <3>4. db'.users = (db.users \cup Store!New(p, "users")) \ Store!Gone(p, "users")
      BY <1>2, DeltaOf
    <3>5. QED BY <3>3, <3>4
  <2>3. db.audit \subseteq db'.audit
    BY <1>2, DeltaOf
  <2>4. QED BY <2>1, <2>2, <2>3 DEF Seen
<1>3. ASSUME NEW n \in Numbers, Store!InstallNumber(n) PROVE Seen
  <2>1. \A c \in Store!Columns \cup {"users", "audit"} : db'[c] = db[c]
    BY <1>3, DirectKeepsStore DEF StoreInv, StoreTable, StoreTables, Store!Columns
  <2>2. QED BY <2>1 DEF Seen, Store!Columns
<1>4. QED BY <1>1, <1>2, <1>3, StoreSteps

-----------------------------------------------------------------------------
(***************************************************************************)
(* Installation: who provisions a location has its lock, and knows whether *)
(* it is there; and no administrator gets in.                              *)
(***************************************************************************)

Roles == {"none", "viewer", "agent", "admin", "owner"}
HubUser == Install!HubUsers
Flow == [step : {"rest", "claim", "enter", "recheck", "list", "next", "create", "join", "sync"},
         company : Companies \cup {"none"}, ghlUser : GhlUsers \cup {NoUser}, type : {"admin", "user"},
         mail : {"profile", "placeholder"}, state : OauthStates \cup {NoState}, fallback : {NoUser, Boss, Admin},
         correlate : BOOLEAN, todo : SUBSET Locations, at : Locations \cup {NoLocation}, user : HubUser \cup {NoUser}]
Inst == [company : Companies \cup {"none"}, workspace : Nat, active : BOOLEAN]

\* What a flow knows where it is.
Knows(x) ==
  /\ x \in Flow
  /\ x.step # "rest" => x.ghlUser \in GhlUsers
  /\ x.step \in {"claim", "enter", "recheck", "create", "join", "sync"} => x.at \in Locations
  /\ x.step \in {"create", "join", "sync"} => x.user \in HubUser /\ x.user # Admin

Provisions(f) == flow[f].step \in {"create", "join"}

InstallTypes ==
  /\ oauth \in [OauthStates -> {NoUser, Boss, Admin, "used"}]
  /\ inst \in [Locations -> Inst] /\ workspaces \in [Locations -> Nat]
  /\ role \in [Locations -> [HubUser -> Roles]]
  /\ link \in [Locations -> [GhlUsers -> HubUser \cup {NoUser}]]
  /\ installedAt \subseteq Locations
  /\ DOMAIN locked = Locations /\ locked = [l \in Locations |-> locked[l]]
  /\ DOMAIN flow = Flows /\ flow = [f \in Flows |-> flow[f]]
  /\ \A f \in Flows : Knows(flow[f])

\* A location that is installed has the one workspace that was made for it.
Homes ==
  \A l \in Locations : IF inst[l] = Install!NoInstall THEN workspaces[l] = 0
                       ELSE workspaces[l] = 1 /\ inst[l].workspace = 1

\* Who provisions has the lock, and what it read of the location is still so.
Locked ==
  \A f \in Flows : Provisions(f) =>
    /\ locked[flow[f].at] = f
    /\ (flow[f].step = "create") <=> (inst[flow[f].at] = Install!NoInstall)
    /\ "none" \in {flow[f].company, inst[flow[f].at].company} \/ flow[f].company = inst[flow[f].at].company

\* No administrator is a member of a workspace or linked to a user of GHL.
KeptOut == \A l \in Locations : role[l][Admin] = "none" /\ \A g \in GhlUsers : link[l][g] # Admin

OpenedOnce == (\A s \in opened : s.nonce \in nonces) /\ \A s, t \in opened : s.nonce = t.nonce => s = t

InstallInv == InstallTypes /\ Homes /\ Locked /\ KeptOut /\ OpenedOnce

LEMMA InstallConstants ==
  /\ NoFlow \notin Flows /\ NoUser # Admin
  /\ \A h \in Installs : h.company \in Companies /\ h.location \in Locations /\ h.user \in GhlUsers
BY IntegrationsAssumption

LEMMA Hub == Admin \in HubUser /\ Boss \in HubUser /\ Install!Made \subseteq HubUser
BY DEF HubUser, Install!HubUsers

LEMMA RestKnows == Knows(Install!Rest) /\ Install!Rest.step = "rest"
<1> DEFINE r == Install!Rest
<1>1. r \in Flow /\ r.step = "rest"
  BY DEF Install!Rest, Flow
<1> HIDE DEF r
<1>2. Knows(r)
  BY <1>1 DEF Knows
<1>3. QED BY <1>1, <1>2 DEF r

LEMMA InstallInit == Install!Init => InstallInv
<1> SUFFICES ASSUME Install!Init PROVE InstallInv
  OBVIOUS
<1>1. Install!NoInstall \in Inst
  BY DEF Install!NoInstall, Inst
<1>2. \A f \in Flows : flow[f] = Install!Rest
  BY DEF Install!Init
<1>3. InstallTypes
  BY <1>1, <1>2, RestKnows DEF Install!Init, InstallTypes, Roles, HubUser
<1>4. Homes
  BY DEF Install!Init, Homes
<1>5. Locked
  BY <1>2, RestKnows DEF Locked, Provisions
<1>6. KeptOut
  BY InstallConstants, Hub DEF Install!Init, KeptOut, HubUser
<1>7. OpenedOnce
  BY DEF Install!Init, OpenedOnce
<1>8. QED BY <1>3, <1>4, <1>5, <1>6, <1>7 DEF InstallInv

\* A flow that goes where it provisions nothing.
LEMMA FlowMoves ==
  ASSUME InstallInv, NEW f \in Flows, NEW x, Knows(x), x.step \notin {"create", "join"},
         flow' = [flow EXCEPT ![f] = x], oauth' \in [OauthStates -> {NoUser, Boss, Admin, "used"}],
         installedAt' \subseteq Locations,
         UNCHANGED <<inst, workspaces, role, link, locked, opened, nonces>>
  PROVE  InstallInv'
<1>1. DOMAIN flow' = Flows /\ flow' = [g \in Flows |-> flow'[g]] /\ \A g \in Flows : flow'[g] = IF g = f THEN x ELSE flow[g]
  BY DEF InstallInv, InstallTypes
<1>2. InstallTypes'
  BY <1>1 DEF InstallInv, InstallTypes
<1>3. Locked'
  BY <1>1 DEF InstallInv, Locked, Provisions
<1>4. Homes' /\ KeptOut' /\ OpenedOnce'
  BY DEF InstallInv, Homes, KeptOut, OpenedOnce
<1>5. QED BY <1>2, <1>3, <1>4 DEF InstallInv

LEMMA LeaveOf ==
  ASSUME InstallInv, NEW f \in Flows, flow[f].step # "rest", Install!Leave(f)
  PROVE  \E x : Knows(x) /\ x.step \in {"rest", "next"} /\ flow' = [flow EXCEPT ![f] = x]
<1>1. CASE flow' = [flow EXCEPT ![f] = Install!Rest]
  BY <1>1, RestKnows
<1>2. CASE flow' = [flow EXCEPT ![f] = [flow[f] EXCEPT !.step = "next", !.user = NoUser]]
  <2> DEFINE r == flow[f]
             x == [c \in DOMAIN r |-> IF c = "step" THEN "next" ELSE IF c = "user" THEN NoUser ELSE r[c]]
  <2>1. r \in Flow /\ r.ghlUser \in GhlUsers
    BY DEF InstallInv, InstallTypes, Knows
  <2>2. [flow[f] EXCEPT !.step = "next", !.user = NoUser] = x
    BY <2>1 DEF Flow
  <2>3. x \in Flow /\ x.step = "next" /\ x.ghlUser = r.ghlUser
    BY <2>1 DEF Flow
  <2> HIDE DEF x, r
  <2>4. Knows(x)
    BY <2>1, <2>3 DEF Knows
  <2>5. QED BY <1>2, <2>2, <2>3, <2>4
<1>3. QED BY <1>1, <1>2 DEF Install!Leave, Install!Set

LEMMA UserOf ==
  ASSUME InstallInv, NEW l \in Locations, NEW g \in GhlUsers, NEW fallback \in {NoUser, Boss, Admin},
         NEW mail \in {"profile", "placeholder"}
  PROVE  Install!ensureUser(l, g, fallback, mail) \in HubUser
<1>1. link[l][g] \in HubUser \cup {NoUser} /\ <<l, g, mail>> \in Install!Made
  BY DEF InstallInv, InstallTypes, Install!Made
<1>2. QED BY <1>1, Hub DEF Install!ensureUser

LEMMA StartKeepsInstall ==
  ASSUME InstallInv, NEW s \in OauthStates, NEW u \in {Boss, Admin}, Install!Start(s, u)
  PROVE  InstallInv'
<1>1. oauth' \in [OauthStates -> {NoUser, Boss, Admin, "used"}]
  BY DEF Install!Start, InstallInv, InstallTypes
<1>2. UNCHANGED <<installedAt, inst, workspaces, role, link, locked, opened, nonces, flow>>
  BY DEF Install!Start, Install!tenants, Install!embedded
<1>3. QED BY <1>1, <1>2 DEF InstallInv, InstallTypes, Homes, Locked, Provisions, KeptOut, OpenedOnce

LEMMA CallbackKeepsInstall ==
  ASSUME InstallInv, NEW f \in Flows, NEW s \in OauthStates \cup {NoState}, NEW company \in Companies \cup {"none"},
         NEW g \in GhlUsers, NEW location \in Locations \cup {NoLocation}, Install!Callback(f, s, company, g, location)
  PROVE  InstallInv'
<1>1. UNCHANGED <<installedAt, inst, workspaces, role, link, locked, opened, nonces>> /\ Install!ClaimState(s)
      /\ installedAt \subseteq Locations
  BY DEF InstallInv, InstallTypes, Install!Callback, Install!tenants, Install!embedded
<1>2. oauth \in [OauthStates -> {NoUser, Boss, Admin, "used"}]
  BY DEF InstallInv, InstallTypes
<1>3. oauth' \in [OauthStates -> {NoUser, Boss, Admin, "used"}]
  BY <1>1, <1>2 DEF Install!ClaimState
<1>4. PICK fallback \in {NoUser, Boss, Admin} : fallback = IF s = NoState THEN NoUser ELSE oauth[s]
  BY <1>1 DEF Install!ClaimState
<1>5. PICK type \in {"admin", "user"}, mail \in {"profile", "placeholder"} :
        flow' = [flow EXCEPT ![f] =
                  [Install!Rest EXCEPT !.company = company, !.ghlUser = g, !.state = s, !.fallback = fallback,
                     !.correlate = (s = NoState),
                     !.step = IF location = NoLocation THEN "list" ELSE IF s = NoState THEN "claim" ELSE "enter",
                     !.type = IF location = NoLocation THEN "admin" ELSE type,
                     !.mail = IF location = NoLocation THEN "placeholder" ELSE mail, !.at = location]]
  BY ZenonT(60), <1>4 DEF Install!Callback, Install!Set, Install!mapGhlRole
<1>6. PICK step \in {"list", "claim", "enter"}, type2 \in {"admin", "user"}, mail2 \in {"profile", "placeholder"},
           correlate \in BOOLEAN :
        /\ step # "list" => location \in Locations
        /\ flow' = [flow EXCEPT ![f] =
                     [Install!Rest EXCEPT !.company = company, !.ghlUser = g, !.state = s, !.fallback = fallback,
                        !.correlate = correlate, !.step = step, !.type = type2, !.mail = mail2, !.at = location]]
  <2> DEFINE st == IF location = NoLocation THEN "list" ELSE IF s = NoState THEN "claim" ELSE "enter"
             ty == IF location = NoLocation THEN "admin" ELSE type
             ml == IF location = NoLocation THEN "placeholder" ELSE mail
  <2>1. st \in {"list", "claim", "enter"} /\ ty \in {"admin", "user"} /\ ml \in {"profile", "placeholder"}
        /\ (s = NoState) \in BOOLEAN /\ (st # "list" => location \in Locations)
    OBVIOUS
  <2>2. flow' = [flow EXCEPT ![f] =
                     [Install!Rest EXCEPT !.company = company, !.ghlUser = g, !.state = s, !.fallback = fallback,
                        !.correlate = (s = NoState), !.step = st, !.type = ty, !.mail = ml, !.at = location]]
    BY <1>5
  <2> HIDE DEF st, ty, ml
  <2>3. QED BY ZenonT(60), <2>1, <2>2
<1> DEFINE x == [c \in DOMAIN Install!Rest |->
                   IF c = "company" THEN company ELSE IF c = "ghlUser" THEN g ELSE IF c = "state" THEN s
                   ELSE IF c = "fallback" THEN fallback ELSE IF c = "correlate" THEN correlate
                   ELSE IF c = "step" THEN step ELSE IF c = "type" THEN type2 ELSE IF c = "mail" THEN mail2
                   ELSE IF c = "at" THEN location ELSE Install!Rest[c]]
<1>7. flow' = [flow EXCEPT ![f] = x]
  BY <1>6 DEF Install!Rest
<1>8. x \in Flow /\ x.ghlUser = g /\ x.at = location /\ x.step = step
  BY DEF Install!Rest, Flow
<1> HIDE DEF x
<1>9. Knows(x)
  BY <1>6, <1>8 DEF Knows
<1>10. QED BY <1>1, <1>3, <1>6, <1>7, <1>8, <1>9, FlowMoves

\* A step of one flow, which changes where it is and nothing of a location.
LEMMA WebhookKeepsInstall ==
  ASSUME InstallInv, NEW f \in Flows, NEW h \in Installs, Install!Webhook(f, h)
  PROVE  InstallInv'
<1>1. UNCHANGED <<oauth, installedAt, inst, workspaces, role, link, locked, opened, nonces>>
      /\ oauth \in [OauthStates -> {NoUser, Boss, Admin, "used"}] /\ installedAt \subseteq Locations
  BY DEF Install!Webhook, Install!tenants, Install!embedded, InstallInv, InstallTypes
<1>2. CASE UNCHANGED flow
  BY <1>1, <1>2 DEF InstallInv, InstallTypes, Homes, Locked, Provisions, KeptOut, OpenedOnce
<1>3. CASE flow' = [flow EXCEPT ![f] = [Install!Rest EXCEPT !.step = "recheck", !.company = h.company, !.ghlUser = h.user,
                                          !.type = "admin", !.mail = "placeholder", !.at = h.location]]
  <2> DEFINE x == [c \in DOMAIN Install!Rest |->
                   IF c = "company" THEN h.company ELSE IF c = "ghlUser" THEN h.user ELSE IF c = "step" THEN "recheck"
                   ELSE IF c = "type" THEN "admin" ELSE IF c = "mail" THEN "placeholder"
                   ELSE IF c = "at" THEN h.location ELSE Install!Rest[c]]
  <2>1. flow' = [flow EXCEPT ![f] = x]
    BY <1>3 DEF Install!Rest
  <2>2. x \in Flow /\ x.ghlUser = h.user /\ x.at = h.location /\ x.step = "recheck"
    BY InstallConstants DEF Install!Rest, Flow
  <2> HIDE DEF x
  <2>3. Knows(x)
    BY <2>2, InstallConstants DEF Knows
  <2>4. QED BY <1>1, <2>1, <2>2, <2>3, FlowMoves
<1>4. QED BY <1>2, <1>3 DEF Install!Webhook, Install!Set

LEMMA FlowStepKeepsInstall ==
  ASSUME InstallInv, NEW f \in Flows,
         Install!Recheck(f) \/ Install!ListLocations(f) \/ Install!NextLocation(f) \/ Install!Claim(f)
  PROVE  InstallInv'
<1>1. UNCHANGED <<oauth, installedAt, inst, workspaces, role, link, locked, opened, nonces>>
      /\ oauth \in [OauthStates -> {NoUser, Boss, Admin, "used"}] /\ installedAt \subseteq Locations
  BY DEF Install!Recheck, Install!ListLocations, Install!NextLocation, Install!Claim, Install!tenants, Install!embedded,
         InstallInv, InstallTypes
<1>2. PICK r : r = flow[f]
  OBVIOUS
<1>3. r \in Flow /\ Knows(r)
  BY <1>2 DEF InstallInv, InstallTypes, Knows
<1>4. SUFFICES \E x : Knows(x) /\ x.step \notin {"create", "join"} /\ flow' = [flow EXCEPT ![f] = x]
  BY <1>1, FlowMoves
<1>5. CASE flow' = [flow EXCEPT ![f] = Install!Rest]
  BY <1>5, RestKnows
<1>6. CASE r.step \in {"recheck", "claim"} /\ flow' = [flow EXCEPT ![f] = [r EXCEPT !.step = "enter"]]
  <2> DEFINE x == [r EXCEPT !.step = "enter"]
  <2>1. x \in Flow /\ x.step = "enter" /\ x.ghlUser = r.ghlUser /\ x.at = r.at
    BY <1>3 DEF Flow
  <2>2. flow' = [flow EXCEPT ![f] = x]
    BY <1>6
  <2> HIDE DEF x
  <2>3. Knows(x)
    BY <1>3, <1>6, <2>1 DEF Knows
  <2>4. QED BY <2>1, <2>2, <2>3
<1>7. CASE r.step = "list" /\ \E todo \in SUBSET Locations : flow' = [flow EXCEPT ![f] = [r EXCEPT !.step = "next", !.todo = todo]]
  <2>1. PICK todo \in SUBSET Locations : flow' = [flow EXCEPT ![f] = [r EXCEPT !.step = "next", !.todo = todo]]
    BY <1>7
  <2> DEFINE x == [c \in DOMAIN r |-> IF c = "step" THEN "next" ELSE IF c = "todo" THEN todo ELSE r[c]]
  <2>2. flow' = [flow EXCEPT ![f] = x]
    BY <1>3, <2>1 DEF Flow
  <2>3. x \in Flow /\ x.step = "next" /\ x.ghlUser = r.ghlUser
    BY <1>3 DEF Flow
  <2> HIDE DEF x
  <2>4. Knows(x)
    BY <1>3, <1>7, <2>3 DEF Knows
  <2>5. QED BY <2>2, <2>3, <2>4
<1>8. CASE r.step = "next" /\ \E l \in r.todo, step \in {"claim", "enter"} :
             flow' = [flow EXCEPT ![f] = [r EXCEPT !.at = l, !.todo = r.todo \ {l}, !.step = step]]
  <2>1. PICK l \in r.todo, step \in {"claim", "enter"} :
             flow' = [flow EXCEPT ![f] = [r EXCEPT !.at = l, !.todo = r.todo \ {l}, !.step = step]]
    BY <1>8
  <2> DEFINE x == [c \in DOMAIN r |-> IF c = "at" THEN l ELSE IF c = "todo" THEN r.todo \ {l}
                                      ELSE IF c = "step" THEN step ELSE r[c]]
  <2>2. flow' = [flow EXCEPT ![f] = x]
    BY <1>3, <2>1 DEF Flow
  <2>3. x \in Flow /\ x.step = step /\ x.ghlUser = r.ghlUser /\ x.at = l /\ l \in Locations
    BY <1>3, <2>1 DEF Flow
  <2> HIDE DEF x
  <2>4. Knows(x)
    BY <1>3, <1>8, <2>1, <2>3 DEF Knows
  <2>5. QED BY <2>1, <2>2, <2>3, <2>4
<1>9. CASE Install!Recheck(f)
  BY <1>2, <1>5, <1>6, <1>9 DEF Install!Recheck, Install!Set
<1>10. CASE Install!ListLocations(f)
  <2>1. installedAt \in SUBSET Locations
    BY DEF InstallInv, InstallTypes
  <2>2. QED BY <1>2, <1>7, <1>10, <2>1 DEF Install!ListLocations, Install!Set
<1>11. CASE Install!NextLocation(f)
  BY <1>2, <1>5, <1>8, <1>11 DEF Install!NextLocation, Install!Set
<1>12. CASE Install!Claim(f)
  <2>1. CASE Install!Leave(f)
    BY <1>2, <1>12, <2>1, LeaveOf DEF Install!Claim
  <2>2. CASE ~Install!Leave(f)
    BY <1>2, <1>6, <1>12, <2>2 DEF Install!Claim, Install!Set
  <2>3. QED BY <2>1, <2>2
<1>13. QED BY <1>9, <1>10, <1>11, <1>12

LEMMA BeginSyncKeepsInstall ==
  ASSUME InstallInv, NEW f \in Flows, NEW l \in Locations, NEW g \in GhlUsers, Install!BeginSync(f, l, g)
  PROVE  InstallInv'
<1>1. UNCHANGED <<oauth, installedAt, inst, workspaces, role, link, locked, opened, nonces>>
      /\ oauth \in [OauthStates -> {NoUser, Boss, Admin, "used"}] /\ installedAt \subseteq Locations
  BY DEF Install!BeginSync, Install!tenants, Install!embedded, InstallInv, InstallTypes
<1>2. PICK u : u = Install!ensureUser(l, g, NoUser, "placeholder")
  OBVIOUS
<1>3. u \in HubUser /\ u # Admin
  BY <1>2, UserOf DEF Install!BeginSync
<1> DEFINE x == [c \in DOMAIN Install!Rest |-> IF c = "step" THEN "sync" ELSE IF c = "at" THEN l
                                               ELSE IF c = "ghlUser" THEN g ELSE IF c = "user" THEN u ELSE Install!Rest[c]]
<1>4. flow' = [flow EXCEPT ![f] = [Install!Rest EXCEPT !.step = "sync", !.at = l, !.ghlUser = g, !.user = u]]
  BY <1>2 DEF Install!BeginSync, Install!Set
<1>5. flow' = [flow EXCEPT ![f] = x]
  BY <1>4 DEF Install!Rest
<1>6. x \in Flow /\ x.step = "sync" /\ x.at = l /\ x.ghlUser = g /\ x.user = u
  BY <1>3 DEF Install!Rest, Flow
<1> HIDE DEF x
<1>7. Knows(x)
  BY <1>3, <1>6 DEF Knows
<1>8. QED BY <1>1, <1>5, <1>6, <1>7, FlowMoves

LEMMA FlowIs ==
  ASSUME InstallInv, NEW f \in Flows, NEW x, flow' = [flow EXCEPT ![f] = x]
  PROVE  DOMAIN flow' = Flows /\ flow' = [g \in Flows |-> flow'[g]] /\ \A g \in Flows : flow'[g] = IF g = f THEN x ELSE flow[g]
BY DEF InstallInv, InstallTypes

LEMMA LockIs ==
  ASSUME InstallInv, NEW l \in Locations, NEW x, locked' = [locked EXCEPT ![l] = x]
  PROVE  /\ DOMAIN locked' = Locations /\ locked' = [m \in Locations |-> locked'[m]]
         /\ \A m \in Locations : locked'[m] = IF m = l THEN x ELSE locked[m]
BY DEF InstallInv, InstallTypes

LEMMA EnterKeepsInstall ==
  ASSUME InstallInv, NEW f \in Flows, Install!Enter(f)
  PROVE  InstallInv'
<1>1. UNCHANGED <<oauth, installedAt, inst, workspaces, role, link, opened, nonces>>
      /\ oauth \in [OauthStates -> {NoUser, Boss, Admin, "used"}] /\ installedAt \subseteq Locations
  BY DEF Install!Enter, Install!tenants, Install!embedded, InstallInv, InstallTypes
<1>2. PICK r : r = flow[f]
  OBVIOUS
<1>3. r \in Flow /\ Knows(r) /\ r.step = "enter" /\ r.at \in Locations /\ r.ghlUser \in GhlUsers
  BY <1>2 DEF Install!Enter, InstallInv, InstallTypes, Knows
<1>4. CASE Install!Leave(f) /\ UNCHANGED locked
  BY <1>1, <1>2, <1>3, <1>4, LeaveOf, FlowMoves
<1>5. CASE ~ (Install!Leave(f) /\ UNCHANGED locked)
  <2>1. PICK u : u = Install!ensureUser(r.at, r.ghlUser, r.fallback, r.mail)
    OBVIOUS
  <2>2. u \in HubUser
    BY <1>3, <2>1, UserOf DEF Flow
  <2>3. /\ u # Admin /\ locked[r.at] = NoFlow
        /\ "none" \in {r.company, inst[r.at].company} \/ r.company = inst[r.at].company
        /\ locked' = [locked EXCEPT ![r.at] = f]
        /\ flow' = [flow EXCEPT ![f] = [r EXCEPT !.step = IF inst[r.at] = Install!NoInstall THEN "create" ELSE "join",
                                                 !.user = u]]
    BY <1>2, <1>5, <2>1 DEF Install!Enter, Install!Set, Install!Unlocked
  <2>4. PICK step \in {"create", "join"} :
          /\ (step = "create") <=> (inst[r.at] = Install!NoInstall)
          /\ flow' = [flow EXCEPT ![f] = [r EXCEPT !.step = step, !.user = u]]
    <3>1. CASE inst[r.at] = Install!NoInstall
      BY <2>3, <3>1
    <3>2. CASE inst[r.at] # Install!NoInstall
      BY <2>3, <3>2
    <3>3. QED BY <3>1, <3>2
  <2> DEFINE x == [c \in DOMAIN r |-> IF c = "step" THEN step ELSE IF c = "user" THEN u ELSE r[c]]
  <2>5. flow' = [flow EXCEPT ![f] = x]
    BY <1>3, <2>4 DEF Flow
  <2>6. /\ x \in Flow /\ x.step = step /\ x.ghlUser = r.ghlUser /\ x.at = r.at /\ x.user = u
        /\ x.company = r.company
    BY <1>3, <2>2 DEF Flow
  <2> HIDE DEF x
  <2>7. Knows(x)
    BY <1>3, <2>2, <2>3, <2>6 DEF Knows
  <2>8. DOMAIN flow' = Flows /\ flow' = [g \in Flows |-> flow'[g]] /\ \A g \in Flows : flow'[g] = IF g = f THEN x ELSE flow[g]
    BY <2>5, FlowIs
  <2>9. /\ DOMAIN locked' = Locations /\ locked' = [m \in Locations |-> locked'[m]]
        /\ \A m \in Locations : locked'[m] = IF m = r.at THEN f ELSE locked[m]
    BY <1>3, <2>3, LockIs
  <2>10. InstallTypes'
    BY <1>1, <2>7, <2>8, <2>9 DEF InstallInv, InstallTypes
  <2>11. Locked'
    <3> SUFFICES ASSUME NEW g \in Flows, Provisions(g)'
                 PROVE  /\ locked'[flow'[g].at] = g
                        /\ (flow'[g].step = "create") <=> (inst[flow'[g].at] = Install!NoInstall)
                        /\ "none" \in {flow'[g].company, inst[flow'[g].at].company} \/ flow'[g].company = inst[flow'[g].at].company
      BY <1>1 DEF Locked
    <3>1. CASE g = f
      BY <1>3, <2>3, <2>4, <2>6, <2>8, <2>9, <3>1
    <3>2. CASE g # f
      <4>1. flow'[g] = flow[g] /\ Provisions(g) /\ flow[g].at \in Locations
        BY <2>8, <3>2 DEF Provisions, InstallInv, InstallTypes, Knows
      <4>2. locked[flow[g].at] = g /\ flow[g].at # r.at
        BY <2>3, <4>1, InstallConstants DEF InstallInv, Locked
      <4>3. QED BY <2>9, <4>1, <4>2 DEF InstallInv, Locked
    <3>3. QED BY <3>1, <3>2
  <2>12. Homes' /\ KeptOut' /\ OpenedOnce'
    BY <1>1 DEF InstallInv, Homes, KeptOut, OpenedOnce
  <2>13. QED BY <2>10, <2>11, <2>12 DEF InstallInv
<1>6. QED BY <1>4, <1>5

\* The lock of a location is freed by the flow that had it.
LEMMA FreedKeepsLocked ==
  ASSUME InstallInv, NEW f \in Flows, Provisions(f), NEW x, Knows(x), x.step \in {"rest", "next"},
         flow' = [flow EXCEPT ![f] = x], Install!Release(flow[f].at),
         \A l \in Locations : l # flow[f].at => inst'[l] = inst[l]
  PROVE  Locked'
<1>1. flow[f].at \in Locations
  BY DEF InstallInv, InstallTypes, Knows, Provisions
<1>2. \A g \in Flows : flow'[g] = IF g = f THEN x ELSE flow[g]
  BY FlowIs
<1>3. \A m \in Locations : locked'[m] = IF m = flow[f].at THEN NoFlow ELSE locked[m]
  BY <1>1, LockIs DEF Install!Release
<1> SUFFICES ASSUME NEW g \in Flows, Provisions(g)'
             PROVE  /\ locked'[flow'[g].at] = g
                    /\ (flow'[g].step = "create") <=> (inst'[flow'[g].at] = Install!NoInstall)
                    /\ "none" \in {flow'[g].company, inst'[flow'[g].at].company} \/ flow'[g].company = inst'[flow'[g].at].company
  BY DEF Locked
<1>4. g # f /\ flow'[g] = flow[g]
  BY <1>2 DEF Provisions
<1>5. Provisions(g) /\ flow[g].at \in Locations
  BY <1>4 DEF Provisions, InstallInv, InstallTypes, Knows
<1>6. locked[flow[g].at] = g /\ flow[g].at # flow[f].at
  BY <1>4, <1>5 DEF InstallInv, Locked
<1>7. QED BY <1>3, <1>4, <1>5, <1>6 DEF InstallInv, Locked

LEMMA AbortKeepsInstall ==
  ASSUME InstallInv, NEW f \in Flows, Install!Abort(f)
  PROVE  InstallInv'
<1>1. UNCHANGED <<oauth, installedAt, inst, workspaces, role, link, opened, nonces>>
  BY DEF Install!Abort, Install!tenants, Install!embedded
<1>2. Provisions(f) /\ flow[f].at \in Locations /\ flow[f].step # "rest"
  BY DEF Install!Abort, Provisions, InstallInv, InstallTypes, Knows
<1>3. PICK x : Knows(x) /\ x.step \in {"rest", "next"} /\ flow' = [flow EXCEPT ![f] = x]
  <2>1. CASE Install!Leave(f)
    BY <1>2, <2>1, LeaveOf
  <2>2. CASE ~Install!Leave(f)
    BY <2>2, RestKnows DEF Install!Abort, Install!Set
  <2>3. QED BY <2>1, <2>2
<1>4. Install!Release(flow[f].at)
  BY DEF Install!Abort
<1>5. Locked'
  BY <1>1, <1>2, <1>3, <1>4, FreedKeepsLocked
<1>6. DOMAIN flow' = Flows /\ flow' = [g \in Flows |-> flow'[g]] /\ \A g \in Flows : flow'[g] = IF g = f THEN x ELSE flow[g]
  BY <1>3, FlowIs
<1>7. DOMAIN locked' = Locations /\ locked' = [m \in Locations |-> locked'[m]]
  BY <1>2, <1>4, LockIs DEF Install!Release
<1>8. InstallTypes'
  BY <1>1, <1>3, <1>6, <1>7 DEF InstallInv, InstallTypes
<1>9. Homes' /\ KeptOut' /\ OpenedOnce'
  BY <1>1 DEF InstallInv, Homes, KeptOut, OpenedOnce
<1>10. QED BY <1>5, <1>8, <1>9 DEF InstallInv

LEMMA RankOf ==
  /\ Install!Rank["none"] = 0 /\ Install!Rank["viewer"] = 1 /\ Install!Rank["agent"] = 2
  /\ Install!Rank["admin"] = 3 /\ Install!Rank["owner"] = 4
BY DEF Install!Rank

LEMMA RoleSet ==
  ASSUME InstallInv, NEW l \in Locations, NEW u \in HubUser, NEW new \in Roles, role' = [role EXCEPT ![l][u] = new]
  PROVE  /\ role' \in [Locations -> [HubUser -> Roles]]
         /\ \A m \in Locations, v \in HubUser : role'[m][v] = IF m = l /\ v = u THEN new ELSE role[m][v]
BY DEF InstallInv, InstallTypes

LEMMA LinkSet ==
  ASSUME InstallInv, NEW l \in Locations, NEW g \in GhlUsers, NEW u \in HubUser, link' = [link EXCEPT ![l][g] = u]
  PROVE  /\ link' \in [Locations -> [GhlUsers -> HubUser \cup {NoUser}]]
         /\ \A m \in Locations, h \in GhlUsers : link'[m][h] = IF m = l /\ h = g THEN u ELSE link[m][h]
BY DEF InstallInv, InstallTypes

\* What a step must not do to who has which workspace.
Tenants ==
  /\ \A l \in Locations :
        /\ workspaces'[l] <= 1
        /\ inst[l] # Install!NoInstall => inst'[l].workspace = inst[l].workspace
        /\ inst[l].company # "none" => inst'[l].company = inst[l].company
        /\ \A u \in Install!HubUsers : Install!Rank[role'[l][u]] >= Install!Rank[role[l][u]]
        /\ role'[l][Admin] = "none"
        /\ \A g \in GhlUsers : link'[l][g] # Admin
  /\ \A s, t \in opened' : s.nonce = t.nonce => s = t
  /\ \A s \in opened' \ opened : role[s.location][s.user] # "none" /\ s.user # Admin

LEMMA ProvisionKeepsInstall ==
  ASSUME InstallInv, NEW f \in Flows, Install!Provision(f)
  PROVE  InstallInv' /\ Tenants
<1>1. UNCHANGED <<oauth, installedAt, opened, nonces>>
  BY DEF Install!Provision, Install!embedded
<1>2. PICK r, l, u : r = flow[f] /\ l = r.at /\ u = r.user
  OBVIOUS
<1>3. /\ Provisions(f) /\ r \in Flow /\ Knows(r) /\ l \in Locations /\ u \in HubUser /\ u # Admin
      /\ r.ghlUser \in GhlUsers /\ r.step \in {"create", "join"}
  BY <1>2 DEF Install!Provision, Provisions, InstallInv, InstallTypes, Knows
<1>4. /\ (r.step = "create") <=> (inst[l] = Install!NoInstall)
      /\ "none" \in {r.company, inst[l].company} \/ r.company = inst[l].company
  BY <1>2, <1>3 DEF InstallInv, Locked
<1>5. inst[l] \in Inst /\ workspaces[l] \in Nat /\ inst \in [Locations -> Inst] /\ workspaces \in [Locations -> Nat]
  BY <1>3 DEF InstallInv, InstallTypes
<1>6. IF r.step = "create" THEN workspaces[l] = 0 ELSE workspaces[l] = 1 /\ inst[l].workspace = 1
  BY <1>3, <1>4 DEF InstallInv, Homes
<1>7. PICK company : company = IF r.company = "none" THEN inst[l].company ELSE r.company
  OBVIOUS
<1>8. company \in Companies \cup {"none"} /\ (inst[l].company # "none" => company = inst[l].company)
  BY <1>3, <1>4, <1>5, <1>7 DEF Flow, Inst
<1> DEFINE row == [company |-> company, active |-> TRUE, workspace |-> 1]
<1>9. row \in Inst /\ row.company = company /\ row.workspace = 1 /\ row # Install!NoInstall
  BY <1>8 DEF Inst, Install!NoInstall
<1>10. inst' = [inst EXCEPT ![l] = row]
  <2>1. inst' = [inst EXCEPT ![l] = [company |-> IF r.company = "none" THEN inst[l].company ELSE r.company,
                                     active |-> TRUE,
                                     workspace |-> IF r.step = "create" THEN workspaces[l] + 1 ELSE inst[l].workspace]]
    BY <1>2 DEF Install!Provision
  <2>2. (IF r.step = "create" THEN workspaces[l] + 1 ELSE inst[l].workspace) = 1
    BY <1>6
  <2>3. QED BY <1>7, <2>1, <2>2
<1> HIDE DEF row
<1>11. inst' \in [Locations -> Inst] /\ \A m \in Locations : inst'[m] = IF m = l THEN row ELSE inst[m]
  BY <1>3, <1>5, <1>9, <1>10
<1>12. workspaces' \in [Locations -> Nat] /\ \A m \in Locations : workspaces'[m] = IF m = l THEN 1 ELSE workspaces[m]
  <2>1. PICK n : n = workspaces[l] + (IF r.step = "create" THEN 1 ELSE 0)
    OBVIOUS
  <2>2. workspaces' = [workspaces EXCEPT ![l] = n]
    BY <1>2, <2>1 DEF Install!Provision
  <2>3. n = 1
    BY <1>6, <2>1
  <2>4. QED BY <1>3, <1>5, <2>2, <2>3
<1>13. PICK new \in Roles : /\ Install!Rank[new] >= Install!Rank[role[l][u]]
                            /\ role' = [role EXCEPT ![l][u] = new]
  <2>1. PICK mapped \in {"agent", "admin"} : mapped = Install!mapGhlRole[r.type]
    BY <1>3 DEF Install!mapGhlRole, Flow
  <2>2. role[l][u] \in Roles
    BY <1>3 DEF InstallInv, InstallTypes
  <2>3. PICK new : new = IF r.step = "create" THEN "owner"
                         ELSE IF role[l][u] = "none" \/ (role[l][u] = "viewer" /\ mapped = "admin") THEN mapped
                         ELSE role[l][u]
    OBVIOUS
  <2>4. role' = [role EXCEPT ![l][u] = new]
    BY <1>2, <2>1, <2>3 DEF Install!Provision
  <2>5. new \in Roles /\ Install!Rank[new] >= Install!Rank[role[l][u]]
    BY <2>1, <2>2, <2>3, RankOf DEF Roles
  <2>6. QED BY <2>4, <2>5
<1>14. /\ role' \in [Locations -> [HubUser -> Roles]]
       /\ \A m \in Locations, v \in HubUser : role'[m][v] = IF m = l /\ v = u THEN new ELSE role[m][v]
  BY <1>3, <1>13, RoleSet
<1>15. /\ link' \in [Locations -> [GhlUsers -> HubUser \cup {NoUser}]]
       /\ \A m \in Locations, h \in GhlUsers : link'[m][h] = IF m = l /\ h = r.ghlUser THEN u ELSE link[m][h]
  <2>1. link' = [link EXCEPT ![l][r.ghlUser] = u]
    BY <1>2 DEF Install!Provision, Install!Link
  <2>2. QED BY <1>3, <2>1, LinkSet
<1>16. Install!Release(flow[f].at) /\ Install!Leave(f)
  BY DEF Install!Provision
<1>17. PICK x : Knows(x) /\ x.step \in {"rest", "next"} /\ flow' = [flow EXCEPT ![f] = x]
  BY <1>2, <1>3, <1>16, LeaveOf
<1>18. DOMAIN flow' = Flows /\ flow' = [g \in Flows |-> flow'[g]] /\ \A g \in Flows : flow'[g] = IF g = f THEN x ELSE flow[g]
  BY <1>17, FlowIs
<1>19. DOMAIN locked' = Locations /\ locked' = [m \in Locations |-> locked'[m]]
  BY <1>2, <1>3, <1>16, LockIs DEF Install!Release
<1>20. InstallTypes'
  BY <1>1, <1>11, <1>12, <1>14, <1>15, <1>17, <1>18, <1>19 DEF InstallInv, InstallTypes
<1>21. Locked'
  BY <1>2, <1>3, <1>11, <1>16, <1>17, FreedKeepsLocked
<1>22. Homes'
  BY <1>9, <1>11, <1>12 DEF InstallInv, Homes
<1>23. KeptOut'
  <2>1. ASSUME NEW m \in Locations PROVE role'[m][Admin] = "none"
    BY <1>3, <1>14, Hub DEF InstallInv, KeptOut
  <2>2. ASSUME NEW m \in Locations, NEW g \in GhlUsers PROVE link'[m][g] # Admin
    BY <1>3, <1>15 DEF InstallInv, KeptOut
  <2>3. QED BY <2>1, <2>2 DEF KeptOut
<1>24. OpenedOnce'
  BY <1>1 DEF InstallInv, OpenedOnce
<1>25. Tenants
  <2> SUFFICES ASSUME NEW m \in Locations
               PROVE  /\ workspaces'[m] <= 1
                      /\ inst[m] # Install!NoInstall => inst'[m].workspace = inst[m].workspace
                      /\ inst[m].company # "none" => inst'[m].company = inst[m].company
                      /\ \A v \in HubUser : Install!Rank[role'[m][v]] >= Install!Rank[role[m][v]]
    BY <1>1, <1>23, <1>24 DEF Tenants, KeptOut, OpenedOnce, HubUser
  <2>1. workspaces'[m] <= 1
    BY <1>12 DEF InstallInv, Homes
  <2>2. inst[m] # Install!NoInstall => inst'[m].workspace = inst[m].workspace
    BY <1>9, <1>11 DEF InstallInv, Homes
  <2>3. inst[m].company # "none" => inst'[m].company = inst[m].company
    BY <1>8, <1>9, <1>11
  <2>4. ASSUME NEW v \in HubUser PROVE Install!Rank[role'[m][v]] >= Install!Rank[role[m][v]]
    <3>1. role[m][v] \in Roles
      BY DEF InstallInv, InstallTypes
    <3>2. QED BY <1>13, <1>14, <3>1, RankOf DEF Roles
  <2>5. QED BY <2>1, <2>2, <2>3, <2>4
<1>26. QED BY <1>20, <1>21, <1>22, <1>23, <1>24, <1>25 DEF InstallInv

\* Where no location changes, nobody has lost anything.
LEMMA TenantsRest ==
  ASSUME InstallInv', UNCHANGED <<inst, workspaces, role, link, opened>>
  PROVE  Tenants
<1>1. UNCHANGED <<inst, workspaces, role, link, opened>>
  OBVIOUS
<1>2. ASSUME NEW l \in Locations PROVE workspaces'[l] <= 1
  BY DEF InstallInv, Homes
<1>3. \A l \in Locations : role'[l][Admin] = "none" /\ \A g \in GhlUsers : link'[l][g] # Admin
  BY DEF InstallInv, KeptOut
<1>4. \A s, t \in opened' : s.nonce = t.nonce => s = t
  BY DEF InstallInv, OpenedOnce
<1>5. ASSUME NEW l \in Locations, NEW u \in Install!HubUsers PROVE Install!Rank[role'[l][u]] >= Install!Rank[role[l][u]]
  <2>1. role'[l][u] = role[l][u] /\ role'[l][u] \in Roles
    BY DEF InstallInv, InstallTypes, HubUser
  <2>2. QED BY <2>1, RankOf DEF Roles
<1>6. QED BY <1>1, <1>2, <1>3, <1>4, <1>5 DEF Tenants

LEMMA SyncKeepsInstall ==
  ASSUME InstallInv, NEW f \in Flows, Install!Sync(f)
  PROVE  InstallInv' /\ Tenants
<1>1. UNCHANGED <<oauth, installedAt, inst, workspaces, locked, opened, nonces>>
  BY DEF Install!Sync, Install!embedded
<1>2. PICK r, l, u : r = flow[f] /\ l = r.at /\ u = r.user
  OBVIOUS
<1>3. Knows(r) /\ r.step = "sync" /\ l \in Locations /\ u \in HubUser /\ u # Admin /\ r.ghlUser \in GhlUsers
  BY <1>2 DEF Install!Sync, InstallInv, InstallTypes, Knows
<1>4. flow' = [flow EXCEPT ![f] = Install!Rest]
  BY DEF Install!Sync, Install!Set
<1>5. CASE UNCHANGED <<users, role, link>>
  <2>1. UNCHANGED <<role, link>>
    BY <1>5
  <2>2. oauth' \in [OauthStates -> {NoUser, Boss, Admin, "used"}] /\ installedAt' \subseteq Locations
    BY <1>1 DEF InstallInv, InstallTypes
  <2>3. InstallInv'
    BY <1>1, <1>4, <2>1, <2>2, RestKnows, FlowMoves
  <2>4. QED BY <1>1, <2>1, <2>3, TenantsRest
<1>6. CASE ~ UNCHANGED <<users, role, link>>
  <2>1. PICK new \in Roles : /\ new = IF role[l][u] = "none" THEN "viewer" ELSE role[l][u]
                             /\ role' = [role EXCEPT ![l][u] = new]
    <3>1. PICK new : new = IF role[l][u] = "none" THEN "viewer" ELSE role[l][u]
      OBVIOUS
    <3>2. role' = [role EXCEPT ![l][u] = new]
      BY <1>2, <1>6, <3>1 DEF Install!Sync
    <3>3. new \in Roles
      BY <1>3, <3>1 DEF InstallInv, InstallTypes, Roles
    <3>4. QED BY <3>1, <3>2, <3>3
  <2>2. /\ role' \in [Locations -> [HubUser -> Roles]]
        /\ \A m \in Locations, v \in HubUser : role'[m][v] = IF m = l /\ v = u THEN new ELSE role[m][v]
    BY <1>3, <2>1, RoleSet
  <2>3. PICK to : to = IF link[l][r.ghlUser] = NoUser THEN u ELSE link[l][r.ghlUser]
    OBVIOUS
  <2>4. to \in HubUser /\ to # Admin
    BY <1>3, <2>3 DEF InstallInv, InstallTypes, KeptOut
  <2>5. link' = [link EXCEPT ![l][r.ghlUser] = to]
    BY <1>2, <1>6, <2>3 DEF Install!Sync, Install!Link
  <2>6. /\ link' \in [Locations -> [GhlUsers -> HubUser \cup {NoUser}]]
        /\ \A m \in Locations, h \in GhlUsers : link'[m][h] = IF m = l /\ h = r.ghlUser THEN to ELSE link[m][h]
    BY <1>3, <2>4, <2>5, LinkSet
  <2>7. /\ DOMAIN flow' = Flows /\ flow' = [g \in Flows |-> flow'[g]]
        /\ \A g \in Flows : flow'[g] = IF g = f THEN Install!Rest ELSE flow[g]
    BY <1>4, FlowIs
  <2>8. InstallTypes'
    BY <1>1, <2>2, <2>6, <2>7, RestKnows DEF InstallInv, InstallTypes
  <2>9. Locked'
    BY <1>1, <2>7, RestKnows DEF InstallInv, Locked, Provisions
  <2>10. KeptOut'
    <3>1. ASSUME NEW m \in Locations PROVE role'[m][Admin] = "none"
      BY <1>3, <2>2, Hub DEF InstallInv, KeptOut
    <3>2. ASSUME NEW m \in Locations, NEW g \in GhlUsers PROVE link'[m][g] # Admin
      BY <1>3, <2>4, <2>6 DEF InstallInv, KeptOut
    <3>3. QED BY <3>1, <3>2 DEF KeptOut
  <2>11. Homes' /\ OpenedOnce'
    BY <1>1 DEF InstallInv, Homes, OpenedOnce
  <2>12. ASSUME NEW m \in Locations, NEW v \in HubUser PROVE Install!Rank[role'[m][v]] >= Install!Rank[role[m][v]]
    <3>1. role[m][v] \in Roles
      BY DEF InstallInv, InstallTypes
    <3>2. QED BY <2>1, <2>2, <3>1, RankOf DEF Roles
  <2>13. ASSUME NEW m \in Locations PROVE workspaces'[m] <= 1
    BY <2>11 DEF Homes
  <2>14. Tenants
    BY <1>1, <2>10, <2>11, <2>12, <2>13 DEF Tenants, KeptOut, OpenedOnce, HubUser
  <2>15. QED BY <2>8, <2>9, <2>10, <2>11, <2>14 DEF InstallInv
<1>7. QED BY <1>5, <1>6

LEMMA RevokeKeepsInstall ==
  ASSUME InstallInv, NEW l \in Locations, Install!Revoke(l)
  PROVE  InstallInv' /\ Tenants
<1>1. UNCHANGED <<oauth, installedAt, workspaces, role, link, locked, flow, opened, nonces>>
  BY DEF Install!Revoke, Install!embedded
<1>2. inst[l].active /\ inst[l] \in Inst
  BY DEF Install!Revoke, InstallInv, InstallTypes
<1>3. inst[l] # Install!NoInstall
  BY <1>2 DEF Install!NoInstall
<1> DEFINE row == [inst[l] EXCEPT !.active = FALSE]
<1>4. row \in Inst /\ row.company = inst[l].company /\ row.workspace = inst[l].workspace
  BY <1>2 DEF Inst
<1>5. row.workspace = 1 /\ workspaces[l] = 1
  BY <1>3, <1>4 DEF InstallInv, Homes
<1>6. row # Install!NoInstall
  BY <1>5 DEF Install!NoInstall
<1>7. inst' = [inst EXCEPT ![l] = row]
  BY DEF Install!Revoke
<1> HIDE DEF row
<1>8. inst' \in [Locations -> Inst] /\ \A m \in Locations : inst'[m] = IF m = l THEN row ELSE inst[m]
  BY <1>4, <1>7 DEF InstallInv, InstallTypes
<1>9. InstallTypes'
  BY <1>1, <1>8 DEF InstallInv, InstallTypes
<1>10. Homes'
  BY <1>1, <1>5, <1>6, <1>8 DEF InstallInv, Homes
<1>11. Locked'
  <2> SUFFICES ASSUME NEW g \in Flows, Provisions(g)
               PROVE  /\ locked[flow[g].at] = g
                      /\ (flow[g].step = "create") <=> (inst'[flow[g].at] = Install!NoInstall)
                      /\ "none" \in {flow[g].company, inst'[flow[g].at].company} \/ flow[g].company = inst'[flow[g].at].company
    BY <1>1 DEF Locked, Provisions
  <2>1. flow[g].at \in Locations
    BY DEF InstallInv, InstallTypes, Knows, Provisions
  <2>2. QED BY <1>3, <1>4, <1>6, <1>8, <2>1 DEF InstallInv, Locked
<1>12. KeptOut' /\ OpenedOnce'
  BY <1>1 DEF InstallInv, KeptOut, OpenedOnce
<1>13. ASSUME NEW m \in Locations, NEW v \in HubUser PROVE Install!Rank[role'[m][v]] >= Install!Rank[role[m][v]]
  <2>1. role'[m][v] = role[m][v] /\ role[m][v] \in Roles
    BY <1>1 DEF InstallInv, InstallTypes
  <2>2. QED BY <2>1, RankOf DEF Roles
<1>14. ASSUME NEW m \in Locations
       PROVE  /\ workspaces'[m] <= 1
              /\ inst[m] # Install!NoInstall => inst'[m].workspace = inst[m].workspace
              /\ inst[m].company # "none" => inst'[m].company = inst[m].company
  BY <1>4, <1>8, <1>10 DEF Homes
<1>15. Tenants
  BY <1>1, <1>12, <1>13, <1>14 DEF Tenants, KeptOut, OpenedOnce, HubUser
<1>16. QED BY <1>9, <1>10, <1>11, <1>12, <1>15 DEF InstallInv

LEMMA OpenKeepsInstall ==
  ASSUME InstallInv, NEW n, NEW l \in Locations, NEW g \in GhlUsers, Install!OpenSession(n, l, g)
  PROVE  InstallInv' /\ Tenants
<1>1. UNCHANGED <<oauth, installedAt, inst, workspaces, role, link, locked, flow>>
  BY DEF Install!OpenSession, Install!tenants
<1>2. PICK u : u = link[l][g]
  OBVIOUS
<1> DEFINE x == [nonce |-> n, location |-> l, user |-> u]
<1>3. n \notin nonces /\ nonces' = nonces \cup {n} /\ opened' \in {opened, opened \cup {x}} /\ role[l][u] # "none"
  BY <1>2 DEF Install!OpenSession
<1>4. u # Admin
  BY <1>2 DEF InstallInv, KeptOut
<1>5. x.nonce = n /\ x.location = l /\ x.user = u
  OBVIOUS
<1> HIDE DEF x
<1>6. OpenedOnce'
  BY <1>3, <1>5 DEF InstallInv, OpenedOnce
<1>7. InstallTypes' /\ Homes' /\ Locked' /\ KeptOut'
  BY <1>1 DEF InstallInv, InstallTypes, Homes, Locked, Provisions, KeptOut
<1>8. \A s \in opened' \ opened : role[s.location][s.user] # "none" /\ s.user # Admin
  BY <1>3, <1>4, <1>5
<1>9. ASSUME NEW m \in Locations, NEW v \in HubUser PROVE Install!Rank[role'[m][v]] >= Install!Rank[role[m][v]]
  <2>1. role'[m][v] = role[m][v] /\ role[m][v] \in Roles
    BY <1>1 DEF InstallInv, InstallTypes
  <2>2. QED BY <2>1, RankOf DEF Roles
<1>10. ASSUME NEW m \in Locations PROVE workspaces'[m] <= 1
  BY <1>7 DEF Homes
<1>11. Tenants
  BY <1>1, <1>6, <1>7, <1>8, <1>9, <1>10 DEF Tenants, KeptOut, OpenedOnce, HubUser
<1>12. QED BY <1>6, <1>7, <1>11 DEF InstallInv

LEMMA GhlSideKeepsInstall ==
  ASSUME InstallInv, Install!GhlSide
  PROVE  InstallInv'
<1>1. UNCHANGED <<oauth, inst, workspaces, role, link, locked, flow, opened, nonces>>
  BY DEF Install!GhlSide, Install!tenants, Install!embedded
<1>2. installedAt' \subseteq Locations
  BY DEF Install!GhlSide, InstallInv, InstallTypes
<1>3. QED BY <1>1, <1>2 DEF InstallInv, InstallTypes, Homes, Locked, Provisions, KeptOut, OpenedOnce

InstallNext == Install!CallbackNext \/ Install!AgencyNext \/ Install!TeamNext \/ Install!EmbeddedNext

LEMMA InstallStepKeeps == InstallInv /\ [InstallNext]_(Install!vars) => InstallInv' /\ Tenants
<1> SUFFICES ASSUME InstallInv, [InstallNext]_(Install!vars) PROVE InstallInv' /\ Tenants
  OBVIOUS
<1>1. CASE UNCHANGED Install!vars
  <2>1. UNCHANGED <<oauth, installedAt, inst, workspaces, role, link, locked, flow, opened, nonces>>
    BY <1>1 DEF Install!vars, Install!tenants, Install!embedded
  <2>2. InstallInv'
    BY <2>1 DEF InstallInv, InstallTypes, Homes, Locked, Provisions, KeptOut, OpenedOnce
  <2>3. QED BY <2>1, <2>2, TenantsRest
<1>2. ASSUME NEW s \in OauthStates, NEW u \in {Boss, Admin}, Install!Start(s, u) PROVE InstallInv' /\ Tenants
  BY <1>2, StartKeepsInstall, TenantsRest DEF Install!Start, Install!tenants, Install!embedded
<1>3. ASSUME NEW f \in Flows, NEW s \in OauthStates \cup {NoState}, NEW c \in Companies \cup {"none"}, NEW g \in GhlUsers,
             NEW l \in Locations \cup {NoLocation}, Install!Callback(f, s, c, g, l)
      PROVE  InstallInv' /\ Tenants
  <2>1. UNCHANGED <<inst, workspaces, role, link, opened>>
    BY <1>3 DEF Install!Callback, Install!tenants, Install!embedded
  <2>2. InstallInv'
    BY <1>3, CallbackKeepsInstall
  <2>3. QED BY <2>1, <2>2, TenantsRest
<1>4. ASSUME NEW f \in Flows, NEW h \in Installs, Install!Webhook(f, h) PROVE InstallInv' /\ Tenants
  BY <1>4, WebhookKeepsInstall, TenantsRest DEF Install!Webhook, Install!tenants, Install!embedded
<1>5. ASSUME NEW f \in Flows,
             Install!Recheck(f) \/ Install!ListLocations(f) \/ Install!NextLocation(f) \/ Install!Claim(f)
      PROVE  InstallInv' /\ Tenants
  <2>1. UNCHANGED <<inst, workspaces, role, link, opened>>
    BY <1>5 DEF Install!Recheck, Install!ListLocations, Install!NextLocation, Install!Claim, Install!tenants, Install!embedded
  <2>2. QED BY <1>5, <2>1, FlowStepKeepsInstall, TenantsRest
<1>6. ASSUME NEW f \in Flows, Install!Provisioning(f) PROVE InstallInv' /\ Tenants
  <2>1. CASE Install!Enter(f)
    BY <2>1, EnterKeepsInstall, TenantsRest DEF Install!Enter, Install!tenants, Install!embedded
  <2>2. CASE Install!Abort(f)
    BY <2>2, AbortKeepsInstall, TenantsRest DEF Install!Abort, Install!tenants, Install!embedded
  <2>3. QED BY <1>6, <2>1, <2>2, ProvisionKeepsInstall DEF Install!Provisioning
<1>7. ASSUME NEW f \in Flows, NEW l \in Locations, NEW g \in GhlUsers, Install!BeginSync(f, l, g) PROVE InstallInv' /\ Tenants
  BY <1>7, BeginSyncKeepsInstall, TenantsRest DEF Install!BeginSync, Install!tenants, Install!embedded
<1>8. CASE Install!GhlSide
  BY <1>8, GhlSideKeepsInstall, TenantsRest DEF Install!GhlSide, Install!tenants, Install!embedded
<1>9. CASE Install!CallbackNext
  BY <1>2, <1>3, <1>4, <1>5, <1>6, <1>9, RevokeKeepsInstall DEF Install!CallbackNext
<1>10. CASE Install!AgencyNext
  BY <1>2, <1>3, <1>4, <1>5, <1>6, <1>8, <1>10 DEF Install!AgencyNext
<1>11. CASE Install!TeamNext
  BY <1>2, <1>3, <1>4, <1>5, <1>6, <1>7, <1>11, SyncKeepsInstall DEF Install!TeamNext
<1>12. CASE Install!EmbeddedNext
  BY <1>2, <1>3, <1>6, <1>7, <1>12, SyncKeepsInstall, RevokeKeepsInstall, OpenKeepsInstall DEF Install!EmbeddedNext
<1>13. QED BY <1>1, <1>9, <1>10, <1>11, <1>12 DEF InstallNext

-----------------------------------------------------------------------------
(***************************************************************************)
(* The whole.  A step of a part is a step of the component it runs, and to *)
(* every other component a stutter.                                        *)
(***************************************************************************)

LEMMA FewerEvents == ASSUME NEW E \in SUBSET OwaEvents PROVE Open!EventNext(E) => Open!EventNext(OwaEvents)
BY DEF Open!EventNext

LEMMA CrmParts ==
  Crm!Deliveries \/ Crm!Webhooks \/ Crm!Replay \/ Crm!Requeue \/ Crm!Revoke \/ Crm!DeadLetter
  \/ Crm!Rotate \/ (\E p \in Policies : Crm!UpdateSettings(p)) => Crm!Next
BY DEF Crm!Next, Crm!Administration

LEMMA CrmStep == [Next]_vars => [Crm!Next]_(Crm!vars)
BY CrmParts DEF Next, vars, crmVars, Crm!vars

LEMMA SyncStep == [Next]_vars => [Sync!Next]_(Sync!vars)
BY DEF Next, vars, syncVars, Sync!vars, Sync!rows, Sync!locks, Sync!ghl

LEMMA TriggerStep == [Next]_vars => [Triggers!Next]_(Triggers!vars)
BY DEF Next, vars, triggerVars, Triggers!vars

LEMMA TokenStep == [Next]_vars => [Tokens!Next]_(Tokens!vars)
BY DEF Next, vars, tokenVars, Tokens!vars

LEMMA OpenStep == [Next]_vars => [Open!EventNext(OwaEvents) \/ Open!FileNext]_(Open!vars)
<1>1. {e \in OwaEvents : e.msg = "stop"} \in SUBSET OwaEvents /\ {e \in OwaEvents : e.kind = "state"} \in SUBSET OwaEvents
  OBVIOUS
<1>2. Open!EventNext({e \in OwaEvents : e.msg = "stop"}) \/ Open!EventNext({e \in OwaEvents : e.kind = "state"})
      => Open!EventNext(OwaEvents)
  BY <1>1, FewerEvents
<1>3. QED BY <1>2 DEF Next, vars, openVars, Open!vars

LEMMA StoreStep == [Next]_vars => [Store!NumbersNext \/ Store!PeopleNext \/ Store!BillingNext]_(Store!vars)
BY DEF Next, vars, storeVars, Store!vars

LEMMA MediaStep == [Next]_vars => [Media!Next]_(Media!vars)
BY DEF Next, vars, mediaVars, Media!vars

LEMMA InstallStep ==
  [Next]_vars => [InstallNext]_(Install!vars)
BY DEF InstallNext, Next, vars, installVars, Install!vars, Install!tenants, Install!embedded

\* Whatever part runs, each component behaves as it may on its own: what its module
\* specifies and what is proved of it holds in the run that puts the eight together.
THEOREM PartsOfTheWhole ==
  Spec => Crm!Spec /\ Sync!Spec /\ Triggers!Spec /\ Tokens!Spec /\ Open!Spec /\ Store!Spec /\ Media!Spec /\ Install!Spec
<1>1. Init => /\ Crm!Init /\ Sync!Init /\ Triggers!Init /\ Tokens!Init
              /\ Open!Init /\ Store!Init /\ Media!Init /\ Install!Init
  BY DEF Init
<1>2. QED
  BY <1>1, CrmStep, SyncStep, TriggerStep, TokenStep, OpenStep, StoreStep, MediaStep, InstallStep, PTL
  DEF Spec, Crm!Spec, Sync!Spec, Triggers!Spec, Tokens!Spec, Open!Spec, Store!Spec, Media!Spec, Install!Spec, InstallNext

\* A message is imported into GHL once and a medium uploaded once, however many processes
\* sync, lose their session or their answer: the row says so before the call, and only who
\* holds its lock has said it (ghlMessageSync.js:72-107).
THEOREM MessagesAreImportedOnce == Spec => []ImportedOnce
<1>1. SyncInv => ImportedOnce
  BY DEF SyncInv, ImportedOnce
<1>2. QED BY <1>1, SyncInit, SyncStepKeeps, PartsOfTheWhole, PTL DEF Sync!Spec

\* An event runs a workflow once, whatever ticks overlap, lose an answer or their session
\* (ghlWorkflowTriggers.js:37-69).
THEOREM TriggersFireOnce == Spec => []DeliveredOnce
<1>1. TriggerInv => DeliveredOnce
  BY DEF TriggerInv, DeliveredOnce
<1>2. QED BY <1>1, TriggerInit, TriggerStepKeeps, PartsOfTheWhole, PTL DEF Triggers!Spec

\* The hub's own races never cost it its connection to GHL: the row keeps a refresh token
\* that GHL takes, unless an answer or a commit was lost, or GHL has answered an agency
\* without a new token (ghlAgencyInstall.js:23-39).
THEOREM TokensSurvive == Spec => []TokenSurvives
<1>1. TokenInv => TokenSurvives
  BY TokenInvSurvives DEF TokenSurvives
<1>2. QED BY <1>1, TokenInit, TokenStepKeeps, PartsOfTheWhole, PTL DEF Tokens!Spec

\* A token in hand was issued, a row is locked by a process that there is, and GHL takes
\* only what it has issued (ghlAgencyInstall.js:23-39, ghlPrivatePilot.js:27).
THEOREM TokensTyped == Spec => []Tokens!TypeOK
<1>1. TokenInv => Tokens!TypeOK
  BY DEF TokenInv
<1>2. QED BY <1>1, TokenInit, TokenStepKeeps, PartsOfTheWhole, PTL DEF Tokens!Spec

\* What a receipt, a connection and an answer say of an OpenWA event is so, whatever
\* deliveries cross, fail or die (openwa/repository.js:77-106, routes.js:28).
THEOREM OpenReportsAreTrue == Spec => []ReportsAreTrue
<1>1. OpenInv => ReportsAreTrue
  BY DEF OpenInv, ReportsAreTrue
<1>2. QED BY <1>1, OpenInit, OpenStepKeeps, PartsOfTheWhole, PTL DEF Open!Spec

\* What is claimed after a revocation never reaches the CRM, though a late delivery sets
\* the connection active again (worker.js:5-6, repository.js:9-11).
THEOREM RevocationIsSilent == Spec => []RevokedIsSilent
<1>1. CrmInv => RevokedIsSilent
  BY CrmInvSays DEF RevokedIsSilent
<1>2. QED BY <1>1, CrmInit, CrmStepKeeps, PartsOfTheWhole, PTL DEF Crm!Spec

\* Webhooks that arrive out of order leave each subject the newest of what was applied to
\* it, as long as no two are applied at once and no checkpoint is reset or not written
\* (repository.js:14-18).
THEOREM NewestWebhookWins == Spec => []NewestWins
<1>1. CrmInv => NewestWins
  BY CrmInvSays DEF NewestWins
<1>2. QED BY <1>1, CrmInit, CrmStepKeeps, PartsOfTheWhole, PTL DEF Crm!Spec

\* The tables of the store keep their types, and what an operation makes of its copy stays
\* within one number and one accepted invite (store.js, db/legacyDelta.js:43-90).
THEOREM StoreInvariant == Spec => []StoreInv
<1>1. StoreInv /\ [Store!NumbersNext \/ Store!PeopleNext \/ Store!BillingNext]_(Store!vars) => StoreInv'
  BY StoreSteps
<1>2. QED BY <1>1, StoreInit, PartsOfTheWhole, PTL DEF Store!Spec

\* A number is added only within the limit, the status and the billing of the moment it is
\* written, whatever its writer had loaded (db/numberCreationPolicy.js:31-69).
THEOREM PlanIsKept == Spec => QuotaHolds
<1>1. StoreInv /\ [Store!NumbersNext \/ Store!PeopleNext \/ Store!BillingNext]_(Store!vars) => [Quota]_(Store!vars)
  BY QuotaKept
<1>2. QED BY <1>1, StoreInvariant, PartsOfTheWhole, PTL DEF Store!Spec, QuotaHolds, Store!QuotaHolds, Quota

\* A column changes only from the value its writer has loaded, an accepted invite has made
\* its guest a user in the same transaction, and audit entries stay (db/legacyDelta.js:43-90).
THEOREM NothingIsOverwritten == Spec => NothingUnseenIsOverwritten
<1>1. StoreInv /\ [Store!NumbersNext \/ Store!PeopleNext \/ Store!BillingNext]_(Store!vars) => [Seen]_(Store!vars)
  BY SeenKept
<1>2. QED
  BY <1>1, StoreInvariant, PartsOfTheWhole, PTL
  DEF Store!Spec, NothingUnseenIsOverwritten, Store!NothingUnseenIsOverwritten, Seen

\* A location keeps its workspace and its company, its members their roles and the
\* administrators stay out, whatever installs, syncs and sessions race
\* (ghlAutoProvisioning.js:67-123, ghlTeam.js:23-54, ghlEmbeddedSso.js:24-42).
THEOREM TenantsAreFinal == Spec => TenantIsFinal
<1>1. InstallInv /\ [InstallNext]_(Install!vars) => InstallInv' /\ [Tenants]_(Install!vars)
  BY InstallStepKeeps
<1>2. QED
  BY <1>1, InstallInit, PartsOfTheWhole, PTL
  DEF Install!Spec, TenantIsFinal, Install!TenantIsFinal, Tenants, InstallNext

\* However a request is cut into chunks, what is parsed of it are its parts, one that is
\* complete and within the limits is parsed, and no file stays (metaMediaMultipart.js:79-150).
THEOREM ChunksStayInvisible == Spec => []ChunkingIsInvisible
<1>1. QED BY UploadInit, UploadStepKeeps, ChunksInvisible, PartsOfTheWhole, PTL DEF Media!Spec

\* The rows of messages, media and the folder implement the promise of a row that is written
\* ahead, whatever processes die and whatever sessions break (ghlMessageSync.js:72-107,
\* ghlMediaArchive.js:7-48).
THEOREM SyncImportsByIntent == Spec => ImportsByIntent
<1>1. SyncInv /\ SyncInv' /\ [Sync!Next]_(Sync!vars) =>
        /\ [Sync!Imports!Next]_(Sync!Imports!vars)
        /\ [Sync!Uploads!Next]_(Sync!Uploads!vars)
        /\ [Sync!Folders!Next]_(Sync!Folders!vars)
  BY ImportsPromise, UploadsPromise, FoldersPromise
<1>2. QED
  BY <1>1, SyncInit, SyncStepKeeps, SyncPromiseInit, PartsOfTheWhole, PTL
  DEF Sync!Spec, ImportsByIntent, Sync!ImportsByIntent, Sync!Imports!Spec, Sync!Uploads!Spec, Sync!Folders!Spec

\* The deliveries of workflow triggers implement it too, though the session of a tick may break
\* while the CRM answers (ghlWorkflowTriggers.js:37-69).
THEOREM TriggersRunByIntent == Spec => RunsByIntent
<1>1. TriggerInv /\ TriggerInv' /\ [Triggers!Next]_(Triggers!vars) => [Triggers!Promise!Next]_(Triggers!Promise!vars)
  BY TriggersPromise
<1>2. QED
  BY <1>1, TriggerInit, TriggerStepKeeps, TriggersPromiseInit, PartsOfTheWhole, PTL
  DEF Triggers!Spec, RunsByIntent, Triggers!RunsByIntent, Triggers!Promise!Spec
=============================================================================
