----------------------------- MODULE TemplateSync -----------------------------
(***************************************************************************)
(* The template catalogue of one connection: a sync lists Meta's catalogue *)
(* page by page, each a request of its own, and replaces the local one in  *)
(* one transaction.  The remote catalogue changes at any time, several     *)
(* syncs may overlap, and the connection may be disconnected meanwhile.    *)
(***************************************************************************)
EXTENDS MetaConnection

CONSTANTS Templates,   \* names and languages
          PageOf,      \* template -> the page of Meta's list it appears on
          LastPage,
          MaxPages     \* 20 in the code

ASSUME TemplateAssumption ==
  PageOf \in [Templates -> 1..LastPage] /\ LastPage \in Nat /\ MaxPages \in Nat

VARIABLES
  remote,   \* template -> its status in Meta's catalogue
  local,    \* template -> its status in whatsapp_message_templates
  sync,     \* actor -> its sync: phone, pages read, templates found, whether one changed
  exact     \* the last replacement saw the catalogue as it still is (history)

templateVars == <<remote, local, sync, exact>>

RemoteStatus == {"absent", "APPROVED", "PAUSED"}
NotThere == [t \in Templates |-> "absent"]
NoSync == [on |-> NoPhone, page |-> 0, found |-> NotThere, changed |-> FALSE]

TemplateInit ==
  /\ remote = NotThere /\ local = NotThere
  /\ sync = [a \in Actors |-> NoSync]
  /\ exact = TRUE

\* target: the rows an actor may work with now.
Target(p) == conn[p].status = "active" /\ ~conn[p].off /\ conn[p].keyed

Started(a, p) == sync' = [sync EXCEPT ![a] = [NoSync EXCEPT !.on = p]]

BeginSync(a, p) ==
  /\ sync[a].on = NoPhone /\ Target(p)
  /\ Started(a, p)
  /\ UNCHANGED <<connectionVars, remote, local, exact>>

Changed(r) ==
  /\ remote' = r
  /\ exact' = FALSE

\* Meta's side: a template is approved, paused or deleted.
RemoteChange(t, s) ==
  /\ remote[t] # s
  /\ Changed([remote EXCEPT ![t] = s])
  /\ sync' = [a \in Actors |-> [sync[a] EXCEPT !.changed = TRUE]]
  /\ UNCHANGED <<connectionVars, local>>

\* create: the template is posted and, when Meta's answer arrives, a sync follows.
CreateTemplate(a, p, t) ==
  /\ sync[a].on = NoPhone /\ Target(p) /\ remote[t] = "absent"
  /\ Changed([remote EXCEPT ![t] = "APPROVED"])
  /\ \E answered \in BOOLEAN :
       sync' = [b \in Actors |-> IF b # a THEN [sync[b] EXCEPT !.changed = TRUE]
                                 ELSE [NoSync EXCEPT !.on = IF answered THEN p ELSE NoPhone]]
  /\ UNCHANGED <<connectionVars, local>>

\* One request for a page, with the token read at the start.
ReadPage(a) ==
  /\ sync[a].on # NoPhone
  /\ sync[a].page < LastPage /\ sync[a].page < MaxPages
  /\ sync' = [sync EXCEPT ![a].page = @ + 1,
                          ![a].found = [t \in Templates |-> IF PageOf[t] = sync[a].page + 1
                                                            THEN remote[t] ELSE @[t]]]
  /\ UNCHANGED <<connectionVars, remote, local, exact>>

\* A request fails, a page is invalid or one too many, the process dies: nothing is written.
SyncFails(a) ==
  /\ sync[a].on # NoPhone
  /\ sync' = [sync EXCEPT ![a] = NoSync]
  /\ UNCHANGED <<connectionVars, remote, local, exact>>

\* Plausible bug: what is no longer listed is left as it is.
Merged_KeepsAbsent(found) ==
  [t \in Templates |-> IF found[t] # "absent" THEN found[t] ELSE local[t]]

\* The rows after replace: every template listed, all others archived.
Merged(found) ==
  [t \in Templates |-> IF found[t] # "absent" THEN found[t]
                       ELSE IF local[t] = "absent" THEN "absent" ELSE "ARCHIVED"]

\* lockExpectedTarget and target again: the rows are still those the sync has begun with.
StillBound(a) == Target(sync[a].on)

\* replace, once the last page has been read.
Replace(a) ==
  /\ sync[a].on # NoPhone /\ sync[a].page = LastPage
  /\ StillBound(a)
  /\ local' = Merged(sync[a].found)
  /\ exact' = ~sync[a].changed
  /\ sync' = [sync EXCEPT ![a] = NoSync]
  /\ UNCHANGED <<connectionVars, remote>>

TemplateNext ==
  \/ \E a \in Actors : \/ \E p \in Phones : \/ BeginSync(a, p)
                                            \/ \E t \in Templates : CreateTemplate(a, p, t)
                       \/ ReadPage(a) \/ SyncFails(a) \/ Replace(a)
  \/ \E t \in Templates, s \in RemoteStatus : RemoteChange(t, s)

-----------------------------------------------------------------------------
TemplateTypeOK ==
  /\ remote \in [Templates -> RemoteStatus]
  /\ local \in [Templates -> RemoteStatus \cup {"ARCHIVED"}]
  /\ sync \in [Actors -> [on : Phones \cup {NoPhone}, page : 0..LastPage,
                          found : [Templates -> RemoteStatus], changed : BOOLEAN]]
  /\ exact \in BOOLEAN

\* A sync that lists the catalogue while it does not change leaves exactly that catalogue,
\* whatever failed or partial syncs came before: listed templates with their status, and
\* none that Meta no longer has (metaTemplateSyncRepository.js:85-121).
CatalogueIsExact ==
  exact => \A t \in Templates : IF remote[t] = "absent" THEN local[t] \in {"absent", "ARCHIVED"}
                                                        ELSE local[t] = remote[t]
=============================================================================
