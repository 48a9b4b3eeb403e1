---------------------------- MODULE MediaRetention ----------------------------
(***************************************************************************)
(* Deleting media at Meta when their retention is over.  Every process has *)
(* a cleaner; its candidates are rows locked by a statement that is no     *)
(* part of a transaction, so that another cleaner may take the same ones,  *)
(* and two attachments may be of one medium.  Meta deletes a medium once.  *)
(***************************************************************************)
EXTENDS MetaConnection

CONSTANTS Attachments, Cleaners,
          MediumOf,            \* attachment -> its medium at Meta
          PhoneOf,             \* attachment -> the number it was sent from
          MaxDeleteAttempts,   \* 5 in the code
          NoAttachment

ASSUME RetentionAssumption ==
  /\ PhoneOf \in [Attachments -> Phones] /\ NoAttachment \notin Attachments
  /\ MaxDeleteAttempts \in Nat \ {0} /\ IsFiniteSet(Cleaners)

VARIABLES
  attachment,   \* attachment -> provider_media_deleted_at is set, and failed attempts
  atMeta,       \* media Meta still has
  cleaner       \* cleaner -> candidates left, the one in hand, and what is to be written of it

mediaVars == <<attachment, atMeta, cleaner>>

Asleep == [todo |-> {}, at |-> NoAttachment, mark |-> "none"]

MediaInit ==
  /\ attachment = [a \in Attachments |-> [deleted |-> FALSE, attempts |-> 0]]
  /\ atMeta = {MediumOf[a] : a \in Attachments}
  /\ cleaner = [c \in Cleaners |-> Asleep]

-----------------------------------------------------------------------------
\* Plausible bug: attempts are counted and never compared.
Candidates_Forever ==
  {a \in Attachments : /\ ~attachment[a].deleted
                       /\ conn[PhoneOf[a]].status = "active" /\ ~conn[PhoneOf[a]].off}

\* listMediaCleanupCandidates, of those that are due.
Candidates ==
  {a \in Attachments : /\ ~attachment[a].deleted /\ attachment[a].attempts < MaxDeleteAttempts
                       /\ conn[PhoneOf[a]].status = "active" /\ ~conn[PhoneOf[a]].off}

\* Some are due; some are skipped, because another statement has them locked just now.
BeginCleanup(c) ==
  /\ cleaner[c] = Asleep
  /\ \E due \in SUBSET Candidates \ {{}} : cleaner' = [cleaner EXCEPT ![c].todo = due]
  /\ UNCHANGED <<connectionVars, attachment, atMeta>>

\* remove, with the token read at the start: deleted, and answered or not; refused, already
\* deleted or not asked; or there was no token to ask with.
Remove(c, a) ==
  /\ a \in cleaner[c].todo /\ cleaner[c].at = NoAttachment
  /\ \E mark \in {"deleted", "failed"} :
       /\ cleaner' = [cleaner EXCEPT ![c] = [todo |-> @.todo \ {a}, at |-> a, mark |-> mark]]
       /\ \/ MediumOf[a] \in atMeta /\ atMeta' = atMeta \ {MediumOf[a]}
          \/ mark = "failed" /\ UNCHANGED atMeta
  /\ UNCHANGED <<connectionVars, attachment>>

\* markMediaCleanupDeleted or, also after an error of it, markMediaCleanupFailure; neither
\* changes a row that is marked as deleted.
Mark(c) ==
  LET a == cleaner[c].at
      Done(row) == /\ attachment' = [attachment EXCEPT ![a] = IF @.deleted THEN @ ELSE row]
                   /\ cleaner' = [cleaner EXCEPT ![c].at = NoAttachment, ![c].mark = "none"]
  IN
  /\ \/ cleaner[c].mark = "deleted" /\ Done([attachment[a] EXCEPT !.deleted = TRUE])
     \/ /\ cleaner[c].mark = "deleted"
        /\ cleaner' = [cleaner EXCEPT ![c].mark = "failed"] /\ UNCHANGED attachment
     \/ cleaner[c].mark = "failed" /\ Done([attachment[a] EXCEPT !.attempts = @ + 1])
  /\ UNCHANGED <<connectionVars, atMeta>>

\* An error that is not caught, or the end of the process.
CleanerDies(c) ==
  /\ cleaner[c] # Asleep
  /\ cleaner' = [cleaner EXCEPT ![c] = Asleep]
  /\ UNCHANGED <<connectionVars, attachment, atMeta>>

MediaNext ==
  \E c \in Cleaners : \/ BeginCleanup(c) \/ Mark(c) \/ CleanerDies(c)
                      \/ \E a \in Attachments : Remove(c, a)

-----------------------------------------------------------------------------
MediaTypeOK ==
  /\ attachment \in [Attachments -> [deleted : BOOLEAN, attempts : Nat]]
  /\ atMeta \subseteq {MediumOf[a] : a \in Attachments}
  /\ cleaner \in [Cleaners -> [todo : SUBSET Attachments, at : Attachments \cup {NoAttachment},
                               mark : {"none", "deleted", "failed"}]]

\* What is marked as deleted is not at Meta any more, whichever cleaners met over it, and
\* nobody asks again without end: the attempts pass the limit by no more than one for each
\* cleaner that had the row in hand at the last (metaMediaRepository.js:24-55).
CleanupIsTrue ==
  \A a \in Attachments :
     /\ attachment[a].deleted => MediumOf[a] \notin atMeta
     /\ attachment[a].attempts
          + Cardinality({c \in Cleaners : a \in cleaner[c].todo \/ cleaner[c].at = a})
          <= MaxDeleteAttempts - 1 + Cardinality(Cleaners)
=============================================================================
