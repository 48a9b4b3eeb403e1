--------------------------- MODULE MCMetaConnection ---------------------------
(***************************************************************************)
(* The Meta connections of a workspace, for TLC.  Signup, jobs, template   *)
(* syncs, media, workflows and the lifecycle meet in conn; a behaviour has *)
(* the lifecycle and the one other component its focus names, because the  *)
(* components only read what the lifecycle writes, and never each other's  *)
(* rows.                                                                   *)
(***************************************************************************)
EXTENDS TemplateSync, MetaSignup, MediaRetention, GhlWorkflowActions

VARIABLE focus

mcVars == <<connectionVars, templateVars, jobVars, signupVars, mediaVars, workflowVars, focus>>

p1 == "p1"
p2 == "p2"
ASSUME PhonesAssumption == {p1, p2} \subseteq Phones

MCPhones == {p1, p2}
MCTemplates == {"welcome", "invoice"}
MCAttachments == {"photo", "copy"}
MCMediumOf == [a \in MCAttachments |-> "medium"]
MCPhoneOf == [a \in MCAttachments |-> p1]
MCPageOf == [t \in MCTemplates |-> IF t = "welcome" THEN 1 ELSE 2]

Init ==
  /\ focus \in {"lifecycle", "templates", "jobs", "signup", "media", "workflow"}
  /\ ConnectionInit /\ TemplateInit /\ JobInit /\ SignupInit /\ MediaInit /\ WorkflowInit

\* Beside the other components: phones that are connected, activated and disconnected.
Connectivity(phones) ==
  \/ \E p \in phones :
       \/ ConnectCredentials(p) \/ Activate(p) \/ Disconnect(p)
       \/ \E a \in Actors : BeginDiagnostics(a, p) /\ probe = [b \in Actors |-> NoPhone]
  \/ \E a \in Actors, d \in Diagnoses : RecordDiagnostics(a, d) /\ d.subscribed

Enabling == \E p \in Phones : BeginEnabling(p) \/ EnableMessaging(p)

Next ==
  /\ UNCHANGED focus
  /\ \/ focus = "lifecycle" /\ Lifecycle /\ UNCHANGED <<templateVars, jobVars, signupVars, mediaVars, workflowVars>>
     \/ /\ focus = "templates"
        /\ TemplateNext \/ (Connectivity({p1}) /\ UNCHANGED templateVars)
        /\ UNCHANGED <<jobVars, signupVars, mediaVars, workflowVars>>
     \/ /\ focus = "jobs"
        /\ JobNext \/ (Disconnect(p1) /\ UNCHANGED jobVars)
        /\ UNCHANGED <<templateVars, signupVars, mediaVars, workflowVars>>
     \/ /\ focus = "signup"
        /\ SignupNext \/ (ConnectCredentials(p2) /\ UNCHANGED <<jobVars, signupVars>>)
        /\ UNCHANGED <<templateVars, mediaVars, workflowVars>>
     \/ /\ focus = "media"
        /\ MediaNext \/ (Connectivity({p1}) /\ UNCHANGED mediaVars)
        /\ UNCHANGED <<templateVars, jobVars, signupVars, workflowVars>>
     \/ /\ focus = "workflow"
        /\ WorkflowNext \/ ((Connectivity(Phones) \/ Enabling)
                            /\ UNCHANGED <<execution, bound, calls, outcome>>)
        /\ Watch
        /\ UNCHANGED <<templateVars, jobVars, signupVars, mediaVars>>

Spec == Init /\ [][Next]_mcVars

TypeOK == /\ ConnectionTypeOK /\ TemplateTypeOK /\ JobTypeOK /\ SignupTypeOK
          /\ MediaTypeOK /\ WorkflowTypeOK
=============================================================================
