---------------------------- MODULE GhlMessageSync ----------------------------
(***************************************************************************)
(* The import of canonical messages into GHL (ghlMessageSync.js) and the   *)
(* archive of their media (ghlMediaArchive.js), for one installation whose *)
(* processes all poll.  What must not happen twice is preceded by a row    *)
(* that says it may have: importing, uploading, creating.  An advisory     *)
(* lock of a database session serialises a conversation; the session may   *)
(* break while its process still waits for GHL.                            *)
(***************************************************************************)
EXTENDS Integers

CONSTANTS Processes, Messages,
          ConversationOf,   \* message -> conversation
          MediaOf,          \* message -> the media it carries, or NoMedia
          NoMedia, NoOne, NoMessage

VARIABLES
  intent,     \* message -> state of its row in ghl_message_sync, or "none"
  archive,   \* media -> state of its row in ghl_media_archive, or "none"
  folder,    \* state of the row of ghl_media_folders, or "none"
  linked,    \* conversations with a row in ghl_conversation_links
  lock,      \* conversation -> the process whose session holds its lock
  mediaLock, \* the same for the media of the location
  run,       \* process -> the message it syncs, its step, and whether its session broke
  imported,  \* message -> imports GHL has accepted (history)
  uploaded,  \* media -> uploads GHL has accepted (history)
  folders    \* folders GHL has created (history)

rows == <<intent, archive, folder, linked>>
locks == <<lock, mediaLock>>
ghl == <<imported, uploaded, folders>>
vars == <<rows, locks, run, ghl>>

Conversations == {ConversationOf[m] : m \in Messages}
Media == {MediaOf[m] : m \in Messages} \ {NoMedia}
Idle == [message |-> NoMessage, step |-> "idle", cut |-> FALSE]

Final == {"synced", "existing", "blocked", "uncertain"}

Init ==
  /\ intent = [m \in Messages |-> "none"]
  /\ archive = [f \in Media |-> "none"] /\ folder = "none"
  /\ linked = {}
  /\ lock = [c \in Conversations |-> NoOne] /\ mediaLock = NoOne
  /\ run = [p \in Processes |-> Idle]
  /\ imported = [m \in Messages |-> 0] /\ uploaded = [f \in Media |-> 0] /\ folders = 0

-----------------------------------------------------------------------------
m_(p) == run[p].message
At(p, step) == run[p].step = step /\ ~run[p].cut
To(p, step) == run' = [run EXCEPT ![p].step = step]

Unlocked(p) == /\ lock' = [c \in Conversations |-> IF lock[c] = p THEN NoOne ELSE lock[c]]
               /\ mediaLock' = IF mediaLock = p THEN NoOne ELSE mediaLock

\* The end of a run: what catch or the last statement writes, and the locks.
End(p, s) ==
  /\ intent' = [intent EXCEPT ![m_(p)] = s]
  /\ run' = [run EXCEPT ![p] = Idle]
  /\ Unlocked(p)

\* Plausible bug: an interrupted import is tried again.
Taken_Resumes(s) == IF s \in Final THEN s ELSE "preparing"

\* What sync makes of the row it finds.
Taken(s) == IF s \in Final THEN s ELSE IF s = "importing" THEN "uncertain" ELSE "preparing"

\* sync up to started, for a row of a batch that may be old by now.  A mapping that is gone,
\* or a lock held by another session, ends it without a trace.
Begin(p, m) ==
  /\ run[p] = Idle
  /\ lock[ConversationOf[m]] = NoOne
  /\ intent' = [intent EXCEPT ![m] = Taken(@)]
  /\ IF Taken(intent[m]) = "preparing"
     THEN /\ run' = [run EXCEPT ![p] = [message |-> m, step |-> "contact", cut |-> FALSE]]
          /\ lock' = [lock EXCEPT ![ConversationOf[m]] = p]
     ELSE UNCHANGED <<run, lock>>
  /\ UNCHANGED <<archive, folder, linked, mediaLock, ghl>>

\* Messages of the CRM, and those already recorded there, exist; the scopes, the token, the
\* contact or its phone may be refused.  The contact is upserted unless one is linked.
Contact(p) ==
  /\ At(p, "contact")
  /\ \/ \E s \in {"existing", "blocked", "retry"} : End(p, s) /\ UNCHANGED linked
     \/ /\ linked' = linked \cup {ConversationOf[m_(p)]}
        /\ To(p, IF MediaOf[m_(p)] = NoMedia THEN "intent" ELSE "media")
        /\ UNCHANGED <<intent, locks>>
  /\ UNCHANGED <<archive, folder, ghl>>

\* The medium comes from Meta first, with the credentials of the connection: it has no source
\* there, or the download fails.
Download(p) ==
  /\ At(p, "media")
  /\ \E s \in {"blocked", "retry"} : End(p, s)
  /\ UNCHANGED <<archive, folder, linked, ghl>>

\* upload waits for the lock of the location; a medium uploaded before is used again, one
\* that may have been, or has expired, is an error, and so is a folder that may exist.
Archive(p) ==
  LET f == MediaOf[m_(p)] IN
  /\ At(p, "media") /\ mediaLock = NoOne
  /\ \/ archive[f] = "ready" /\ To(p, "intent") /\ UNCHANGED <<rows, locks>>
     \/ /\ archive[f] \notin {"none", "ready"} \/ (archive[f] = "none" /\ folder \notin {"none", "ready"})
        /\ End(p, "blocked") /\ UNCHANGED <<archive, folder, linked>>
     \/ /\ archive[f] = "none" /\ folder = "none"
        /\ folder' = "creating" /\ mediaLock' = p /\ To(p, "folder")
        /\ UNCHANGED <<intent, archive, linked, lock>>
     \/ /\ archive[f] = "none" /\ folder = "ready"
        /\ archive' = [archive EXCEPT ![f] = "uploading"] /\ mediaLock' = p /\ To(p, "upload")
        /\ UNCHANGED <<intent, folder, linked, lock>>
  /\ UNCHANGED ghl

\* The folder: created; refused, so its row goes; or nobody knows.
CreateFolder(p) ==
  /\ At(p, "folder")
  /\ \/ /\ folders' = folders + 1
        /\ \/ /\ folder' = "ready" /\ archive' = [archive EXCEPT ![MediaOf[m_(p)]] = "uploading"]
              /\ To(p, "upload") /\ UNCHANGED <<intent, locks>>
           \/ /\ folder' = "uncertain" /\ \E s \in {"blocked", "uncertain"} : End(p, s)
              /\ UNCHANGED archive
     \/ /\ UNCHANGED <<folders, archive>>
        /\ \/ folder' = "none" /\ \E s \in {"blocked", "retry"} : End(p, s)
           \/ folder' = "uncertain" /\ End(p, "uncertain")
  /\ UNCHANGED <<linked, imported, uploaded>>

Upload(p) ==
  LET f == MediaOf[m_(p)]
      Now(s) == archive' = [archive EXCEPT ![f] = s] IN
  /\ At(p, "upload")
  /\ \/ /\ uploaded' = [uploaded EXCEPT ![f] = @ + 1]
        /\ \/ Now("ready") /\ To(p, "intent") /\ mediaLock' = NoOne /\ UNCHANGED <<intent, lock>>
           \/ Now("uncertain") /\ \E s \in {"blocked", "uncertain"} : End(p, s)
     \/ /\ UNCHANGED uploaded
        /\ \/ Now("none") /\ \E s \in {"blocked", "retry"} : End(p, s)
           \/ Now("uncertain") /\ End(p, "uncertain")
  /\ UNCHANGED <<folder, linked, imported, folders>>

\* importBody: a message of a kind that has neither text nor media.
Contentless(p) ==
  /\ At(p, "intent") /\ MediaOf[m_(p)] = NoMedia
  /\ End(p, "blocked")
  /\ UNCHANGED <<archive, folder, linked, ghl>>

\* The intent is committed before the import is posted.
Intend(p) ==
  /\ At(p, "intent")
  /\ intent' = [intent EXCEPT ![m_(p)] = "importing"]
  /\ To(p, "import")
  /\ UNCHANGED <<archive, folder, linked, locks, ghl>>

\* The import: accepted, and answered or not, or its record fails; refused (429 again later);
\* or nobody knows.
Import(p) ==
  /\ At(p, "import")
  /\ \/ /\ imported' = [imported EXCEPT ![m_(p)] = @ + 1]
        /\ \E s \in {"synced", "uncertain", "blocked"} : End(p, s)
     \/ UNCHANGED imported /\ \E s \in {"retry", "blocked", "uncertain"} : End(p, s)
  /\ UNCHANGED <<archive, folder, linked, uploaded, folders>>

\* The process dies: its sessions and their locks end, its rows stay as they are.
Die(p) ==
  /\ run[p] # Idle
  /\ run' = [run EXCEPT ![p] = Idle]
  /\ Unlocked(p)
  /\ UNCHANGED <<rows, ghl>>

\* The session breaks while the process waits for GHL: the lock is free, the request may
\* still be accepted, and nothing more is written of it.
SessionBreaks(p) ==
  /\ \E step \in {"folder", "upload", "import"} : At(p, step)
  /\ Unlocked(p)
  /\ run' = [run EXCEPT ![p].cut = TRUE]
  /\ UNCHANGED <<rows, ghl>>

LostRequest(p) ==
  /\ run[p].cut
  /\ \/ /\ run[p].step = "import"
        /\ imported' = [imported EXCEPT ![m_(p)] = @ + 1] /\ UNCHANGED <<uploaded, folders>>
     \/ /\ run[p].step = "upload"
        /\ uploaded' = [uploaded EXCEPT ![MediaOf[m_(p)]] = @ + 1] /\ UNCHANGED <<imported, folders>>
     \/ /\ run[p].step = "folder"
        /\ folders' = folders + 1 /\ UNCHANGED <<imported, uploaded>>
  /\ run' = [run EXCEPT ![p] = Idle]
  /\ UNCHANGED <<rows, locks>>

\* cleanup deletes the file after three months.
Expire(f) ==
  /\ archive[f] = "ready"
  /\ archive' = [archive EXCEPT ![f] = "expired"]
  /\ UNCHANGED <<intent, folder, linked, locks, run, ghl>>

Next ==
  \/ \E p \in Processes : \/ \E m \in Messages : Begin(p, m)
                          \/ Contact(p) \/ Download(p) \/ Archive(p) \/ CreateFolder(p) \/ Upload(p)
                          \/ Contentless(p) \/ Intend(p) \/ Import(p)
                          \/ Die(p) \/ SessionBreaks(p) \/ LostRequest(p)
  \/ \E f \in Media : Expire(f)

Spec == Init /\ [][Next]_vars

-----------------------------------------------------------------------------
TypeOK ==
  /\ intent \in [Messages -> {"none", "preparing", "importing", "retry"} \cup Final]
  /\ archive \in [Media -> {"none", "uploading", "ready", "uncertain", "expired"}]
  /\ folder \in {"none", "creating", "ready", "uncertain"}
  /\ linked \subseteq Conversations
  /\ lock \in [Conversations -> Processes \cup {NoOne}] /\ mediaLock \in Processes \cup {NoOne}
  /\ run \in [Processes -> [message : Messages \cup {NoMessage},
                            step : {"idle", "contact", "media", "folder", "upload", "intent", "import"},
                            cut : BOOLEAN]]
  /\ imported \in [Messages -> Nat] /\ uploaded \in [Media -> Nat] /\ folders \in Nat

\* A message is imported into GHL at most once, its medium is uploaded at most once and the
\* folder created at most once, however often processes die, lose their lock or the answer;
\* and what is shown as synced has been imported (ghlMessageSync.js:72-107,
\* ghlMediaArchive.js:7-48).
ImportedOnce ==
  /\ \A m \in Messages : imported[m] <= 1 /\ (intent[m] = "synced" => imported[m] = 1)
  /\ \A f \in Media : uploaded[f] <= 1
  /\ folders <= 1

\* What the rows say of an import, an upload and the folder.
SaidOfImport(state) == IF state \in {"none", "preparing", "retry", "existing"} THEN "clear"
                       ELSE IF state = "synced" THEN "done" ELSE "open"
SaidOfFile(state) == IF state = "none" THEN "clear"
                     ELSE IF state \in {"ready", "expired"} THEN "done" ELSE "open"

Imports == INSTANCE WriteAhead WITH
  Acts <- Messages, row <- [m \in Messages |-> SaidOfImport(intent[m])], times <- imported
Uploads == INSTANCE WriteAhead WITH
  Acts <- Media, row <- [f \in Media |-> SaidOfFile(archive[f])], times <- uploaded
Folders == INSTANCE WriteAhead WITH
  Acts <- {NoMedia}, row <- [f \in {NoMedia} |-> SaidOfFile(folder)], times <- [f \in {NoMedia} |-> folders]

\* The three kinds of rows are written ahead of what GHL does: a refusal gives a row back only
\* when no request of a lost session can arrive any more, and what is done stays done
\* (ghlMessageSync.js:72-107, ghlMediaArchive.js:7-48).
ImportsByIntent == Imports!Spec /\ Uploads!Spec /\ Folders!Spec
=============================================================================
