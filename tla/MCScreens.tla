------------------------------ MODULE MCScreens ------------------------------
(***************************************************************************)
(* What people see, for TLC: the screens of the word cloud and the pages   *)
(* of the app.  The modules share no variable, so their steps commute and  *)
(* no property speaks of two of them: each is explored on its own, from    *)
(* the initial state that chooses it.                                      *)
(***************************************************************************)
EXTENDS PresentPage, JoinPage, Editor, EditPage,
        Bell, EmailCopies, RecordingsPanel, SyncDialog, Views, Session, Consent,
        IntegrationsPage, WorkflowPage, TLC

MCAppOf == "z1" :> "zoom" @@ "z2" :> "zoom" @@ "y1" :> "youtube"

VARIABLE part

Parts == {"present", "join", "editor", "edit", "bell", "mail", "panel", "dialog", "views",
          "session", "consent", "integrations", "workflow"}
cloudVars == <<presentVars, joinVars, editorVars, editPageVars>>
siteVars == <<bellVars, mailVars, panelVars, dialogVars, viewVars,
              sessionVars, consentVars, integrationsVars, workflowVars>>
vars == <<part, cloudVars, siteVars>>

\* Parts with several initial states start from one of them in the other parts.
Init ==
  /\ part \in Parts
  /\ PresentInit /\ JoinInit /\ EditorInit /\ EditPageInit
  /\ BellInit /\ EmailInit /\ PanelInit /\ DialogInit /\ ViewsInit /\ SessionInit /\ ConsentInit
  /\ IntegrationsInit /\ WorkflowPageInit
  /\ (part # "panel" => serverHas.logs = "none") /\ (part # "views" => view = StatsOfMonths)
  /\ (part # "session" => token = Nobody /\ look = "light")

CloudNext ==
  \/ part = "present" /\ PresentNext /\ UNCHANGED <<joinVars, editorVars, editPageVars>>
  \/ part = "join" /\ JoinNext /\ UNCHANGED <<presentVars, editorVars, editPageVars>>
  \/ part = "editor" /\ EditorNext /\ UNCHANGED <<presentVars, joinVars, editPageVars>>
  \/ part = "edit" /\ EditPageNext /\ UNCHANGED <<presentVars, joinVars, editorVars>>

SiteNext ==
  \/ part = "bell" /\ BellNext
     /\ UNCHANGED <<mailVars, panelVars, dialogVars, viewVars,
                    sessionVars, consentVars, integrationsVars, workflowVars>>
  \/ part = "mail" /\ EmailNext
     /\ UNCHANGED <<bellVars, panelVars, dialogVars, viewVars,
                    sessionVars, consentVars, integrationsVars, workflowVars>>
  \/ part = "panel" /\ PanelNext
     /\ UNCHANGED <<bellVars, mailVars, dialogVars, viewVars,
                    sessionVars, consentVars, integrationsVars, workflowVars>>
  \/ part = "dialog" /\ DialogNext
     /\ UNCHANGED <<bellVars, mailVars, panelVars, viewVars,
                    sessionVars, consentVars, integrationsVars, workflowVars>>
  \/ part = "views" /\ ViewsNext
     /\ UNCHANGED <<bellVars, mailVars, panelVars, dialogVars,
                    sessionVars, consentVars, integrationsVars, workflowVars>>
  \/ part = "session" /\ SessionNext
     /\ UNCHANGED <<bellVars, mailVars, panelVars, dialogVars,
                    viewVars, consentVars, integrationsVars, workflowVars>>
  \/ part = "consent" /\ ConsentNext
     /\ UNCHANGED <<bellVars, mailVars, panelVars, dialogVars,
                    viewVars, sessionVars, integrationsVars, workflowVars>>
  \/ part = "integrations" /\ IntegrationsNext
     /\ UNCHANGED <<bellVars, mailVars, panelVars, dialogVars,
                    viewVars, sessionVars, consentVars, workflowVars>>
  \/ part = "workflow" /\ WorkflowPageNext
     /\ UNCHANGED <<bellVars, mailVars, panelVars, dialogVars,
                    viewVars, sessionVars, consentVars, integrationsVars>>

Next ==
  /\ UNCHANGED part
  /\ \/ CloudNext /\ UNCHANGED <<siteVars>>
     \/ SiteNext /\ UNCHANGED <<cloudVars>>

\* Timers fire, requests are answered and saves end, in the part that runs.
PresentFair ==
  /\ WF_presentVars(part = "present" /\ GraceEnds) /\ WF_presentVars(part = "present" /\ Poll)
  /\ WF_presentVars(part = "present" /\ \E f \in fetches : FetchRead(f))
  /\ WF_presentVars(part = "present" /\ \E f \in fetches : FetchArrives(f))

JoinFair ==
  /\ WF_joinVars(part = "join" /\ TabGraceEnds) /\ WF_joinVars(part = "join" /\ TabPolls)
  /\ WF_joinVars(part = "join" /\ SendAnswered)
  /\ WF_joinVars(part = "join" /\ \E g \in gets : GetRead(g))
  /\ WF_joinVars(part = "join" /\ \E g \in gets : GetArrives(g))

EditorFair ==
  \A c \in Cards : WF_editorVars(part = "editor" /\ SendNow(c)) /\ WF_editorVars(part = "editor" /\ SaveEnds(c))

BellFair ==
  /\ WF_bellVars(part = "bell" /\ \E mark \in marks : MarkRead(mark))
  /\ \A i \in Loads : /\ WF_bellVars(part = "bell" /\ Load(i)) /\ WF_bellVars(part = "bell" /\ LoadArrives(i))
                      /\ WF_bellVars(part = "bell" /\ ListItems(i)) /\ WF_bellVars(part = "bell" /\ ListCount(i))

PanelFair ==
  /\ WF_panelVars(part = "panel" /\ Poll15s)
  /\ \A kind \in {"logs", "drive"}, i \in Requests :
       WF_panelVars(part = "panel" /\ PanelRead(kind, i)) /\ WF_panelVars(part = "panel" /\ PanelArrives(kind, i))
  /\ \A p \in Posts : /\ WF_panelVars(part = "panel" /\ PostArrives(p))
                     /\ WF_panelVars(part = "panel" /\ PostAnswered(p))

Spec ==
  /\ Init /\ [][Next]_vars
  /\ PresentFair /\ JoinFair /\ EditorFair /\ BellFair /\ PanelFair

\* Pages whose socket stays down, a table that polls and the bell all end up showing what
\* the server has, whatever late, lost or overlapping answers had written before.
PagesCatchUp == PollingCatchesUp /\ TabCatchesUp /\ PanelCatchesUp /\ BellSettles

\* What a user does on a screen is done to the thing, with the settings, of that screen, and
\* as the account there: not for one that was shown, set up or signed in before.  What a
\* change makes of the meetings to come is asked for again.
ActsAsAsked ==
  ViewsActOnTheirOwn /\ CarriesNothingOver /\ OnlyWithConsent /\ SavesItsOwn /\ PredictsWhatIsSaved
  /\ AppliesAChange

\* Once nothing is on its way, a page shows what is stored: its email switches those of the
\* account, the tab the account of its token, its workspace and preferences, the editor the
\* questions of the topic.
ShownIsStored == SwitchesAreStored /\ ShowsItsAccount /\ ListIsStored

\* The part that runs is well typed.
TypeOK ==
  CASE part = "present" -> PresentTypeOK
    [] part = "join" -> JoinTypeOK
    [] part = "editor" -> EditorTypeOK
    [] part = "edit" -> EditPageTypeOK
    [] part = "bell" -> BellTypeOK
    [] part = "mail" -> EmailTypeOK
    [] part = "panel" -> PanelTypeOK
    [] part = "dialog" -> DialogTypeOK
    [] part = "views" -> ViewsTypeOK
    [] part = "session" -> SessionTypeOK
    [] part = "consent" -> ConsentTypeOK
    [] part = "integrations" -> IntegrationsTypeOK
    [] part = "workflow" -> WorkflowPageTypeOK
==============================================================================
