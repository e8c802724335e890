------------------------- MODULE CampaignLifecycle --------------------------
(***************************************************************************)
(* The life of one campaign: its status, its approval and the optimistic   *)
(* lock edit_count, changed concurrently by administrators through         *)
(* SP_CAMPAIGN_UPDATE, _CHANGE_STATUS, _APPROVE and _REJECT, by the expiry *)
(* batch (SP_CAMPAIGN_EXPIRE) and by time.                                 *)
(*                                                                         *)
(* Each of the four procedures is an autocommitted conditional UPDATE,     *)
(* followed by a separate SELECT: of the row it answers with and logs      *)
(* (ReadBack), or of the reason why no row matched (Diagnose).             *)
(***************************************************************************)
EXTENDS CouponSchema, Integers

CONSTANTS
  Approvers,    \* SUPER_ADMIN, DEVELOPER and MANAGER (role_code <= 30)
  Operators,    \* OPERATOR (role_code 40)
  Contents,     \* name, period, limit, usable_qty and reward of the campaign
  MaxEdits      \* bound: how often administrators change the campaign

Admins == Approvers \cup Operators

ASSUME LifecycleAssumption ==
  /\ Approvers \cap Operators = {}
  /\ MaxEdits \in Nat

VARIABLES
  row,          \* the coupon_campaign row; over: campaign_end <= NOW()
  admin,        \* per administrator: the row last shown to it, and its call
  vetted        \* ghost: an approver has written or approved the content as it is

vars == <<row, admin, vetted>>
-----------------------------------------------------------------------------
Live == {NOT_NEEDED, APPROVED}

\* The row SP_CAMPAIGN_CREATE inserts for an administrator of this kind
Created(byApprover, content, over) ==
  [status |-> WAITING, approval |-> IF byApprover THEN NOT_NEEDED ELSE PENDING,
   edit |-> 0, content |-> content, over |-> over]

\* What an administrator keeps of the row it is shown
Shown(r) == [status |-> r.status, approval |-> r.approval, edit |-> r.edit,
             content |-> r.content]

Init ==
  /\ \E byApprover \in BOOLEAN, content \in Contents, over \in BOOLEAN :
       row = Created(byApprover, content, over) /\ vetted = byApprover
  /\ admin = [a \in Admins |-> [pc |-> "idle", action |-> "none", view |-> Shown(row),
                                result |-> OK]]

\* Mutant: updated_at, kept in whole seconds, is the token and can miss an edit
CurrentBySecond(a) == row.edit - admin[a].view.edit <= 1

Current(a) == admin[a].view.edit = row.edit

Goto(a, call) == admin' = [admin EXCEPT ![a] = call]

\* An administrator opens the campaign (SP_CAMPAIGN_GET_BY_ID)
Get(a) ==
  /\ admin[a].pc = "idle"
  /\ Goto(a, [admin[a] EXCEPT !.view = Shown(row)])
  /\ UNCHANGED <<row, vetted>>

\* The conditional UPDATE of a procedure matches: edit_count is the one the
\* administrator was shown, and the row allows the change
Apply(a, action, new) ==
  /\ admin[a].pc = "idle" /\ Current(a) /\ row.edit < MaxEdits
  /\ row' = [new EXCEPT !.edit = row.edit + 1]
  /\ Goto(a, [admin[a] EXCEPT !.pc = "written", !.action = action])

\* ... or matches no row
Refuse(a, action) ==
  /\ admin[a].pc = "idle"
  /\ Goto(a, [admin[a] EXCEPT !.pc = "refused", !.action = action])
  /\ UNCHANGED <<row, vetted>>
-----------------------------------------------------------------------------

\* An operator's edit of a decided campaign submits it for approval again
Resubmits(a) == a \in Operators /\ row.approval \in {APPROVED, REJECTED}

\* Mutant: approval_status is set before status, which then sees PENDING
UpdatedApprovalFirst(a, content, over) ==
  [row EXCEPT !.approval = IF Resubmits(a) THEN PENDING ELSE @,
              !.content = content, !.over = over]

\* SET evaluates from left to right: status is set before approval_status
Updated(a, content, over) ==
  [row EXCEPT !.status   = IF Resubmits(a) /\ @ = ACTIVE THEN PAUSED ELSE @,
              !.approval = IF Resubmits(a) THEN PENDING ELSE @,
              !.content = content, !.over = over]

\* valid: campaign_start < campaign_end and usable_qty <= generated_qty
Update(a, content, over, valid) ==
  LET allowed == row.status /= ENDED /\ valid
  IN  \/ /\ allowed
         /\ Apply(a, "update", Updated(a, content, over))
         /\ vetted' = (a \in Approvers \/ (vetted /\ content = row.content))
      \/ /\ ~(allowed /\ Current(a))
         /\ Refuse(a, IF valid THEN "update" ELSE "update invalid")

Activation == row.approval \in Live /\ ~row.over

Transition(to) ==
  \/ row.status = WAITING /\ (to = ENDED \/ (to = ACTIVE /\ Activation))
  \/ row.status = ACTIVE  /\ to \in {PAUSED, ENDED}
  \/ row.status = PAUSED  /\ (to = ENDED \/ (to = ACTIVE /\ Activation))

ChangeStatus(a, to) ==
  \/ /\ Transition(to)
     /\ Apply(a, "status", [row EXCEPT !.status = to])
     /\ UNCHANGED vetted
  \/ /\ ~(Transition(to) /\ Current(a))
     /\ Refuse(a, "status")

\* Mutant: an ended campaign can still be decided on
DecidableEver == row.approval = PENDING

Decidable == row.approval = PENDING /\ row.status /= ENDED

\* An approver vouches for the content it was shown
Approve(a) ==
  /\ a \in Approvers
  /\ \/ /\ Decidable
        /\ Apply(a, "approve", [row EXCEPT !.approval = APPROVED])
        /\ vetted' = (vetted \/ admin[a].view.content = row.content)
     \/ /\ ~(Decidable /\ Current(a))
        /\ Refuse(a, "approve")

Reject(a) ==
  /\ a \in Approvers
  /\ \/ /\ Decidable
        /\ Apply(a, "reject", [row EXCEPT !.approval = REJECTED])
        /\ UNCHANGED vetted
     \/ /\ ~(Decidable /\ Current(a))
        /\ Refuse(a, "reject")
-----------------------------------------------------------------------------
\* The SELECT after a successful UPDATE: its row is the answer, the
\* administrator's new view, and the snapshot written to log_coupon_campaign
ReadBack(a) ==
  /\ admin[a].pc = "written"
  /\ Goto(a, [admin[a] EXCEPT !.pc = "answered", !.view = Shown(row), !.result = OK])
  /\ UNCHANGED <<row, vetted>>

\* The SELECT after an UPDATE that matched no row tells a conflict from a rule
Diagnose(a) ==
  /\ admin[a].pc = "refused"
  /\ Goto(a, [admin[a] EXCEPT !.pc = "answered",
       !.result = IF ~Current(a) THEN EDIT_CONFLICT
                     ELSE IF admin[a].action = "update invalid" /\ row.status /= ENDED
                       THEN DATA_CONFLICT ELSE INVALID_TRANSITION])
  /\ UNCHANGED <<row, vetted>>

\* The handler for SQL errors: what the UPDATE committed stays committed, but
\* nothing is logged and the administrator is told that the call failed
SqlError(a) ==
  /\ admin[a].pc \in {"written", "refused"}
  /\ Goto(a, [admin[a] EXCEPT !.pc = "answered", !.result = DATABASE_ERROR])
  /\ UNCHANGED <<row, vetted>>

\* The answer reaches the administrator
Return(a) ==
  /\ admin[a].pc = "answered"
  /\ Goto(a, [admin[a] EXCEPT !.pc = "idle", !.action = "none", !.result = OK])
  /\ UNCHANGED <<row, vetted>>

\* NOW() passes campaign_end
PassEnd ==
  /\ ~row.over
  /\ row' = [row EXCEPT !.over = TRUE]
  /\ UNCHANGED <<admin, vetted>>

\* Mutant: the batch forgets campaigns that need no approval
ExpireApproved ==
  /\ row.status = ACTIVE /\ row.approval = APPROVED /\ row.over
  /\ row' = [row EXCEPT !.status = ENDED, !.edit = @ + 1]
  /\ UNCHANGED <<admin, vetted>>

\* The expiry batch selects, ends and reads the campaign in one transaction
Expire ==
  /\ row.status = ACTIVE /\ row.approval \in Live /\ row.over
  /\ row' = [row EXCEPT !.status = ENDED, !.edit = @ + 1]
  /\ UNCHANGED <<admin, vetted>>

Next ==
  \/ \E a \in Admins :
       \/ Get(a)
       \/ \E content \in Contents, over, valid \in BOOLEAN : Update(a, content, over, valid)
       \/ \E to \in CampaignStatus : ChangeStatus(a, to)
       \/ Approve(a) \/ Reject(a)
       \/ ReadBack(a) \/ Diagnose(a) \/ SqlError(a) \/ Return(a)
  \/ PassEnd \/ Expire

Spec == Init /\ [][Next]_vars

\* node-cron starts the batch again and again
ExpirySpec == Spec /\ WF_vars(Expire)
-----------------------------------------------------------------------------
Row == [status : CampaignStatus, approval : ApprovalStatus, edit : Nat,
        content : Contents, over : BOOLEAN]

View == [status : CampaignStatus, approval : ApprovalStatus, edit : Nat,
         content : Contents]

Call == [pc : {"idle", "written", "refused", "answered"},
         action : {"none", "update", "update invalid", "status", "approve", "reject"},
         view : View,
         result : {OK, EDIT_CONFLICT, INVALID_TRANSITION, DATA_CONFLICT, DATABASE_ERROR}]

\* Every variable has the shape of the columns and calls it stands for, and no
\* administrator holds a version of the campaign that does not exist yet.
TypeOK ==
  /\ row \in Row
  /\ admin \in [Admins -> Call]
  /\ vetted \in BOOLEAN
  /\ \A a \in Admins : admin[a].view.edit <= row.edit

\* coupon_campaign.sql:35-39: reserve checks the status only, because an active
\* campaign always needs no approval or has it, whoever edits, rejects or
\* reactivates it meanwhile.
ActiveIsApproved == row.status = ACTIVE => row.approval \in Live

\* What the public can redeem under an approval is what an approver wrote or
\* approved: no later edit of an operator goes live on an earlier approval
\* (docs/19 2.4, "re-approval on edit" and "protection of active campaigns").
ApprovalCoversContent ==
  row.status = ACTIVE /\ row.approval = APPROVED => vetted

\* Whatever is live was let live, in every state (SP_CAMPAIGN_UPDATE, _APPROVE,
\* _REJECT, _CHANGE_STATUS).
LiveIsApproved == TypeOK /\ ActiveIsApproved /\ ApprovalCoversContent

\* What an administrator decides on
Decision(r) == <<r.status, r.approval, r.content>>

\* coupon_campaign.sql:64-70 and docs/19 2.6: a change is applied only to the
\* campaign its administrator was shown. Whatever another administrator or the
\* batch changed since then makes the call fail; nothing is overwritten, and
\* nothing approved, unseen.
NothingOverwrittenUnseen ==
  [][\A a \in Admins :
       admin[a].pc = "idle" /\ admin'[a].pc = "written"
         => Decision(admin[a].view) = Decision(row)]_vars

\* docs/19 1.3: an ended campaign is locked for good, also against a call that
\* was prepared while it was still running.
EndedIsFrozen ==
  [][row.status = ENDED => Decision(row') = Decision(row) /\ row'.edit = row.edit]_vars

\* coupon_campaign.sql:71-76: an active campaign whose period is over is ended
\* by the batch, unless an administrator extends, pauses or ends it first.
ExpiredCampaignsEnd ==
  (row.status = ACTIVE /\ row.over) ~> (row.status /= ACTIVE \/ ~row.over)

\* docs/19_CAMPAIGN_API.md:458: editing a rejected campaign submits it again.
RejectedResubmits ==
  [][row.approval = REJECTED /\ row'.content /= row.content
       => row'.approval = PENDING]_vars

\* docs/17_SCREEN_LIST.md:265: the log has one row per action, the snapshot of
\* the campaign at that moment; the screen derives the changes from it. The
\* snapshot logged for an approval shows an approved campaign.
LogShowsAction ==
  \A a \in Admins :
    admin[a].pc = "answered" /\ admin[a].result = OK /\ admin[a].action = "approve"
      => admin[a].view.approval = APPROVED
=============================================================================
