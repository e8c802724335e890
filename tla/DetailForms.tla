---------------------------- MODULE DetailForms ----------------------------
(***************************************************************************)
(* The detail screens of projects, companies and users. Each loads its     *)
(* row into the page and into a form; saves, status buttons and the        *)
(* rotation of a project's secret overlap with one another, with reloads   *)
(* and with the work of other administrators. Only projects carry          *)
(* edit_count. The answer of a write is selected after its commit.         *)
(***************************************************************************)
EXTENDS Naturals, FiniteSets, NoValue

CONSTANTS Names,      \* what the text fields of a form can hold
          MaxSaves,   \* bound on the changes of the row
          MaxErrands  \* bound on the errands under way together

ASSUME DetailAssumption == NULL \notin Names /\ {MaxSaves, MaxErrands} \subseteq Nat \ {0}

VARIABLES
    subject,  \* "project", "company" or "user": which screen this is
    item,     \* the row of the database; edit counts its changes
    view,     \* project, company or user of the page: a row, NULL before the first
    fields,   \* the form: name and status (a switch; NULL on the user's form)
    met,      \* <<name, status>> a project's form has displayed since it was last refilled
    answered, \* a write of a project's page has replaced view since then
    confirm,  \* the project the open rotation dialog was opened for, or NULL
    errands   \* under way

detailVars == <<subject, item, view, fields, met, answered, confirm, errands>>
face == <<view, fields, met, answered, confirm>>

States == CASE subject = "user" -> {"PENDING", "ACTIVE", "REJECTED", "SUSPENDED"}
            [] OTHER -> {"INACTIVE", "ACTIVE"}

Filled(r) == [name |-> r.name, status |-> IF subject = "user" THEN NULL ELSE r.status]
Errand(kind) == [kind |-> kind, edit |-> 0, name |-> NULL, status |-> NULL, held |-> NULL,
                 known |-> {}, own |-> FALSE, stage |-> "sent", answer |-> NULL]
Pending(kind) == {k \in errands : k.kind = kind}
SendErrand(k) ==
    /\ Cardinality(errands) < MaxErrands
    /\ Pending(k.kind) = {}    \* the button is busy until its call is answered
    /\ errands' = errands \cup {k}

\* Kept for the project's page alone, which is the one with edit_count
Displayed(before, f) == IF subject = "project" THEN before \cup {<<f.name, f.status>>} ELSE {}

-----------------------------------------------------------------------------
\* The form is there, and a company or user can be saved, before anything is loaded
Edit ==
    /\ \E n \in Names, s \in IF subject = "user" THEN {NULL} ELSE States :
         fields' = [name |-> n, status |-> s]
    /\ UNCHANGED <<subject, item, view, met, answered, confirm, errands>>

\* handleSubmit of the project and the company, handleEditSubmit of the user,
\* whose form has no status
SubmitForm ==
    /\ subject = "project" => view # NULL
    /\ fields.name # NULL      \* required
    /\ met' = Displayed(met, fields)
    /\ SendErrand([Errand("save") EXCEPT
                     !.edit = IF subject = "project" THEN view.edit ELSE 0,
                     !.name = fields.name, !.status = fields.status,
                     !.known = met', !.own = answered])
    /\ UNCHANGED <<subject, item, view, fields, answered, confirm>>

\* handleApprove, handleReject, handleSuspend, handleReactivate, handleBackToPending
Button(status) ==
    CASE status = "PENDING"   -> {"ACTIVE", "REJECTED"}
      [] status = "ACTIVE"    -> {"SUSPENDED"}
      [] status = "SUSPENDED" -> {"ACTIVE"}
      [] status = "REJECTED"  -> {"PENDING"}
PressButton ==
    /\ subject = "user" /\ view # NULL
    /\ \E s \in Button(view.status) :
         SendErrand([Errand("button") EXCEPT !.status = s, !.held = view.status])
    /\ UNCHANGED <<subject, item, face>>

\* handleRotateClick: the dialog, and its confirmation, keep the project it was
\* opened for
ClickRotate ==
    /\ subject = "project" /\ view # NULL /\ confirm = NULL
    /\ confirm' = view
    /\ UNCHANGED <<subject, item, view, fields, met, answered, errands>>
ConfirmRotate ==
    /\ confirm # NULL
    /\ SendErrand([Errand("rotate") EXCEPT !.edit = confirm.edit, !.held = confirm])
    /\ confirm' = NULL
    /\ UNCHANGED <<subject, item, view, fields, met, answered>>
CancelRotate ==
    /\ confirm # NULL
    /\ confirm' = NULL
    /\ UNCHANGED <<subject, item, view, fields, met, answered, errands>>

-----------------------------------------------------------------------------
\* SP_PROJECT_UPDATE, SP_COMPANY_UPDATE, SP_USER_UPDATE (a NULL keeps the value),
\* SP_PROJECT_API_SECRET_ROTATE, SP_USER_APPROVE and SP_USER_REJECT
Keep(new, old) == IF new = NULL THEN old ELSE new
Accepted(k) ==
    /\ (subject = "project") => k.edit = item.edit
    /\ (k.kind = "button" /\ k.held = "PENDING") => item.status = "PENDING"
Run(k) ==
    /\ k.stage = "sent" /\ k.kind # "load"
    /\ Accepted(k)
    /\ item.edit < MaxSaves
    /\ item' = [edit |-> item.edit + 1, name |-> Keep(k.name, item.name),
                status |-> Keep(k.status, item.status)]
    /\ errands' = (errands \ {k}) \cup {[k EXCEPT !.stage = "done"]}
    /\ UNCHANGED <<subject, face>>
Reply(k) ==
    /\ \/ /\ k.stage = IF k.kind = "load" THEN "sent" ELSE "done"
          /\ errands' = (errands \ {k}) \cup {[k EXCEPT !.stage = "row", !.answer = item]}
       \/ /\ k.stage = "sent" /\ k.kind # "load" /\ ~Accepted(k)
          /\ errands' = (errands \ {k}) \cup {[k EXCEPT !.stage = "refused"]}
    /\ UNCHANGED <<subject, item, face>>
Others ==
    /\ item.edit < MaxSaves
    /\ \E n \in Names, s \in States : item' = [edit |-> item.edit + 1, name |-> n, status |-> s]
    /\ UNCHANGED <<subject, face, errands>>

-----------------------------------------------------------------------------
\* Mutant: the reload refreshes the page and leaves the form to the administrator.
TakeLoadedKeepingForm(k) ==
    /\ k.kind = "load" /\ k.stage = "row"
    /\ errands' = errands \ {k}
    /\ view' = k.answer
    /\ answered' = FALSE
    /\ UNCHANGED <<subject, item, fields, met, confirm>>
\* load: the page and the form, in the order the answers come
TakeLoaded(k) ==
    /\ k.kind = "load" /\ k.stage = "row"
    /\ errands' = errands \ {k}
    /\ view' = k.answer
    /\ fields' = Filled(k.answer)
    /\ met' = Displayed({}, fields')
    /\ answered' = FALSE
    /\ UNCHANGED <<subject, item, confirm>>
TakeAnswer(k) ==
    /\ k.kind # "load" /\ k.stage = "row"
    /\ errands' = errands \ {k}
    /\ view' = IF k.kind = "rotate" THEN [k.held EXCEPT !.edit = k.answer.edit] ELSE k.answer
    /\ answered' = (subject = "project")
    /\ UNCHANGED <<subject, item, fields, met, confirm>>
\* After 30005 the project is loaded again; elsewhere a refusal is a message
TakeRefusal(k) ==
    /\ k.stage = "refused"
    /\ errands' = (errands \ {k}) \cup IF subject = "project" THEN {Errand("load")} ELSE {}
    /\ UNCHANGED <<subject, item, face>>
\* No answer, or an error of its own
TakeFailure(k) ==
    /\ errands' = errands \ {k}
    /\ UNCHANGED <<subject, item, face>>

DetailInit ==
    /\ subject \in {"project", "company", "user"}
    /\ item \in [edit : {0}, name : Names, status : States]
    /\ view = NULL /\ confirm = NULL /\ met = {} /\ answered = FALSE
    /\ fields = [name |-> NULL, status |-> IF subject = "user" THEN NULL ELSE "INACTIVE"]
    /\ errands = {Errand("load")}
DetailNext ==
    \/ Edit \/ SubmitForm \/ PressButton \/ ClickRotate \/ ConfirmRotate \/ CancelRotate \/ Others
    \/ \E k \in errands : \/ Run(k) \/ Reply(k) \/ TakeLoaded(k) \/ TakeAnswer(k)
                        \/ TakeRefusal(k) \/ TakeFailure(k)
DetailSpec == DetailInit /\ [][DetailNext]_detailVars

-----------------------------------------------------------------------------
(* The variables have their types, and a project page's edit_count never   *)
(* runs ahead of the row: the answer of a rotation only adds what the row  *)
(* has reached.                                                            *)
DetailTypeOK ==
    /\ item \in [edit : 0..MaxSaves, name : Names, status : States]
    /\ fields \in [name : Names \cup {NULL}, status : States \cup {NULL}]
    /\ met \subseteq Names \X (States \cup {NULL})
    /\ {view, confirm} \ {NULL} \subseteq [edit : 0..item.edit, name : Names, status : States]

(* What a save of a project replaces was on the form before: another       *)
(* administrator's change is met by the conflict and the reload, never     *)
(* overwritten unseen, unless an answer of this page's own write brought   *)
(* the newer edit_count (it is read after the commit). A save of a user's  *)
(* profile leaves the status to the buttons.                               *)
SavesAreInformed ==
    [][\A k \in errands :
         (k.kind = "save" /\ Run(k)) =>
           CASE subject = "project" -> k.own \/ <<item.name, item.status>> \in k.known
             [] subject = "user"    -> item'.status = item.status
             [] OTHER -> TRUE]_detailVars
=============================================================================
