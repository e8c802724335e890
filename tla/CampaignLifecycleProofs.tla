----------------------- MODULE CampaignLifecycleProofs ----------------------
(***************************************************************************)
(* For every team of administrators and every number of edits: an active   *)
(* campaign is approved, what an operator writes never goes live on an     *)
(* earlier approval, nothing is changed unseen, and an ended campaign is   *)
(* frozen.                                                                 *)
(***************************************************************************)
EXTENDS CampaignLifecycle, TLAPS

\* What an administrator was shown is the campaign as it is, unless edit_count
\* has moved on
ViewSound ==
  \A a \in Admins : admin[a].view.edit = row.edit
                      => Decision(admin[a].view) = Decision(row)

\* An approval covers the content whether or not the campaign is active
ApprovalSound == row.approval = APPROVED => vetted

IInv == TypeOK /\ ViewSound /\ ActiveIsApproved /\ ApprovalSound

USE LifecycleAssumption
-----------------------------------------------------------------------------
\* The state space before the numbers are compared
LEMMA InitCorrect == Init => IInv
<1> SUFFICES ASSUME Init PROVE IInv
  OBVIOUS
<1>1. PICK byApprover \in BOOLEAN, content \in Contents, over \in BOOLEAN :
        row = Created(byApprover, content, over) /\ vetted = byApprover
  BY DEF Init
<1>2. /\ row \in Row /\ row.status = WAITING /\ row.approval # APPROVED /\ row.edit = 0
      /\ Shown(row) \in View
  BY <1>1 DEF Created, Row, Shown, View, CampaignStatus, ApprovalStatus, WAITING, ACTIVE,
     PAUSED, ENDED, NOT_NEEDED, PENDING, APPROVED, REJECTED
<1>3. admin = [a \in Admins |-> [pc |-> "idle", action |-> "none", view |-> Shown(row),
                                 result |-> OK]]
  BY DEF Init
<1>4. TypeOK
  BY <1>1, <1>2, <1>3 DEF TypeOK, Call, Shown
<1>5. ViewSound
  BY <1>3 DEF ViewSound, Decision, Shown
<1> QED
  BY <1>2, <1>4, <1>5 DEF IInv, ActiveIsApproved, ApprovalSound, WAITING, ACTIVE
-----------------------------------------------------------------------------
\* What a successful UPDATE does to the rest of the state: the counter moves
\* past every view, so that every view but the current ones stays sound
LEMMA ApplyCorrect ==
  ASSUME IInv, NEW a \in Admins, NEW action \in {"update", "status", "approve", "reject"},
         NEW new \in Row, Apply(a, action, new), vetted' \in BOOLEAN
  PROVE  TypeOK' /\ ViewSound'
<1>1. row' = [new EXCEPT !.edit = row.edit + 1]
  BY DEF Apply
<1>2. row' \in Row /\ row'.edit = row.edit + 1 /\ row.edit \in Nat
  BY <1>1 DEF Row, IInv, TypeOK
<1>3. admin[a] \in Call
  BY DEF IInv, TypeOK
<1>4. admin' \in [Admins -> Call]
  BY <1>3 DEF Apply, Goto, IInv, TypeOK, Call
<1>5. \A b \in Admins : admin'[b].view = admin[b].view
  BY <1>3 DEF Apply, Goto, IInv, TypeOK, Call
<1>6. \A b \in Admins : admin[b].view.edit \in Nat /\ admin[b].view.edit <= row.edit
  BY DEF IInv, TypeOK, Call, View
<1>7. \A b \in Admins : admin'[b].view.edit <= row'.edit /\ admin'[b].view.edit # row'.edit
  BY <1>2, <1>5, <1>6
<1> QED
  BY <1>2, <1>4, <1>7 DEF TypeOK, ViewSound

\* A step that leaves the row alone and shows its caller nothing but the row
LEMMA CallCorrect ==
  ASSUME IInv, UNCHANGED <<row, vetted>>, NEW a \in Admins, NEW call \in Call,
         Goto(a, call), call.view = admin[a].view \/ call.view = Shown(row)
  PROVE  IInv'
<1>1. /\ admin' \in [Admins -> Call]
      /\ \A b \in Admins : admin'[b].view = admin[b].view \/ admin'[b].view = Shown(row)
  BY DEF Goto, IInv, TypeOK
<1>2. \A b \in Admins : admin'[b].view.edit <= row.edit
  BY <1>1 DEF IInv, TypeOK, Shown, Row
<1>3. ViewSound'
  BY <1>1 DEF IInv, ViewSound, Shown, Decision
<1> QED
  BY <1>1, <1>2, <1>3 DEF IInv, TypeOK, ActiveIsApproved, ApprovalSound
-----------------------------------------------------------------------------
LEMMA UpdateCorrect ==
  ASSUME IInv, NEW a \in Admins, NEW content \in Contents, NEW over \in BOOLEAN,
         vetted' = (a \in Approvers \/ (vetted /\ content = row.content)),
         Apply(a, "update", Updated(a, content, over))
  PROVE  IInv'
<1> DEFINE new == Updated(a, content, over)
<1>1. row \in Row
  BY DEF IInv, TypeOK
<1>2. new \in Row
  BY <1>1 DEF Updated, Row, CampaignStatus, ApprovalStatus, PAUSED, PENDING
<1>3. vetted' \in BOOLEAN
  OBVIOUS
<1>4. TypeOK' /\ ViewSound'
  BY <1>2, <1>3, ApplyCorrect
<1>5. row'.status = new.status /\ row'.approval = new.approval
  BY <1>2 DEF Apply, Row
<1>6. ActiveIsApproved'
  <2>1. CASE Resubmits(a)
    BY <1>1, <1>5, <2>1 DEF Updated, Row, Resubmits, ActiveIsApproved, IInv, ACTIVE, PAUSED
  <2>2. CASE ~Resubmits(a)
    BY <1>1, <1>5, <2>2 DEF Updated, Row, ActiveIsApproved, IInv
  <2> QED
    BY <2>1, <2>2
<1>7. ApprovalSound'
  <2>1. CASE a \in Approvers
    BY <2>1 DEF ApprovalSound
  <2>2. CASE a \notin Approvers
    <3>1. a \in Operators
      BY <2>2 DEF Admins
    <3>2. row'.approval = APPROVED => ~Resubmits(a) /\ row.approval = APPROVED
      BY <1>1, <1>5 DEF Updated, Row, PENDING, APPROVED
    <3> QED
      BY <3>1, <3>2 DEF Resubmits, ApprovalSound
  <2> QED
    BY <2>1, <2>2
<1> QED
  BY <1>4, <1>6, <1>7 DEF IInv

LEMMA StatusCorrect ==
  ASSUME IInv, NEW a \in Admins, NEW to \in CampaignStatus, Transition(to),
         Apply(a, "status", [row EXCEPT !.status = to]), UNCHANGED vetted
  PROVE  IInv'
<1>1. row \in Row /\ [row EXCEPT !.status = to] \in Row /\ vetted' \in BOOLEAN
  BY DEF IInv, TypeOK, Row
<1>2. TypeOK' /\ ViewSound'
  BY <1>1, ApplyCorrect
<1>3. row'.status = to /\ row'.approval = row.approval
  BY <1>1 DEF Apply, Row
<1>4. ActiveIsApproved'
  BY <1>3 DEF ActiveIsApproved, Transition, Activation, ACTIVE, WAITING, PAUSED, ENDED
<1>5. ApprovalSound'
  BY <1>3 DEF ApprovalSound, IInv
<1> QED
  BY <1>2, <1>4, <1>5 DEF IInv

\* The approver's view is current, hence what it vouches for is the content
LEMMA ApproveCorrect ==
  ASSUME IInv, NEW a \in Admins, Decidable,
         Apply(a, "approve", [row EXCEPT !.approval = APPROVED]),
         vetted' = (vetted \/ admin[a].view.content = row.content)
  PROVE  IInv'
<1>1. row \in Row /\ [row EXCEPT !.approval = APPROVED] \in Row /\ vetted' \in BOOLEAN
  BY DEF IInv, TypeOK, Row, ApprovalStatus
<1>2. TypeOK' /\ ViewSound'
  BY <1>1, ApplyCorrect
<1>3. row'.status = row.status /\ row'.approval = APPROVED
  BY <1>1 DEF Apply, Row
<1>4. ActiveIsApproved'
  BY <1>3 DEF ActiveIsApproved, Live
<1>5. admin[a].view.content = row.content
  BY DEF IInv, ViewSound, Decision, Apply, Current
<1> QED
  BY <1>2, <1>4, <1>5 DEF IInv, ApprovalSound

\* A pending campaign is not active, so it can be rejected without pausing it
LEMMA RejectCorrect ==
  ASSUME IInv, NEW a \in Admins, Decidable,
         Apply(a, "reject", [row EXCEPT !.approval = REJECTED]), UNCHANGED vetted
  PROVE  IInv'
<1>1. row \in Row /\ [row EXCEPT !.approval = REJECTED] \in Row /\ vetted' \in BOOLEAN
  BY DEF IInv, TypeOK, Row, ApprovalStatus
<1>2. TypeOK' /\ ViewSound'
  BY <1>1, ApplyCorrect
<1>3. row'.status = row.status /\ row'.approval = REJECTED
  BY <1>1 DEF Apply, Row
<1>4. row.status # ACTIVE
  BY DEF IInv, ActiveIsApproved, Live, Decidable, PENDING, NOT_NEEDED, APPROVED
<1> QED
  BY <1>2, <1>3, <1>4 DEF IInv, ActiveIsApproved, ApprovalSound, REJECTED, APPROVED

\* The batch moves the counter on as well
LEMMA ExpireCorrect == ASSUME IInv, Expire PROVE IInv'
<1>0. ENDED \in CampaignStatus
  BY DEF CampaignStatus
<1>1. row \in Row /\ row.edit \in Nat
  BY DEF IInv, TypeOK, Row
<1>2. /\ row' \in Row /\ row'.edit = row.edit + 1
      /\ row'.status = ENDED /\ row'.approval = row.approval
  <2>1. row' = [row EXCEPT !.status = ENDED, !.edit = row.edit + 1]
    BY DEF Expire
  <2>2. row.edit + 1 \in Nat
    BY <1>1
  <2>3. ASSUME NEW n \in Nat, NEW r, r = [row EXCEPT !.status = ENDED, !.edit = n]
        PROVE  r \in Row /\ r.edit = n /\ r.status = ENDED /\ r.approval = row.approval
    BY <1>0, <1>1, <2>3 DEF Row
  <2> QED
    BY <2>1, <2>2, <2>3
<1>3. \A b \in Admins : admin[b].view.edit \in Nat /\ admin[b].view.edit <= row.edit
  BY DEF IInv, TypeOK, Call, View
<1>4. \A b \in Admins : admin[b].view.edit <= row'.edit /\ admin[b].view.edit # row'.edit
  BY <1>1, <1>2, <1>3
<1>5. UNCHANGED <<admin, vetted>>
  BY DEF Expire
<1>6. TypeOK' /\ ViewSound'
  BY <1>2, <1>4, <1>5 DEF IInv, TypeOK, ViewSound
<1> QED
  BY <1>2, <1>5, <1>6 DEF IInv, ActiveIsApproved, ApprovalSound, ENDED, ACTIVE

LEMMA PassEndCorrect == ASSUME IInv, PassEnd PROVE IInv'
<1>1. row' \in Row /\ row'.edit = row.edit /\ Decision(row') = Decision(row)
      /\ row'.status = row.status /\ row'.approval = row.approval
  BY DEF IInv, TypeOK, PassEnd, Row, Decision
<1>2. UNCHANGED <<admin, vetted>>
  BY DEF PassEnd
<1> QED
  BY <1>1, <1>2 DEF IInv, TypeOK, ViewSound, ActiveIsApproved, ApprovalSound
-----------------------------------------------------------------------------
LEMMA RefuseCorrect ==
  ASSUME IInv, NEW a \in Admins,
         NEW action \in {"update", "update invalid", "status", "approve", "reject"},
         Refuse(a, action)
  PROVE  IInv'
<1> DEFINE call == [admin[a] EXCEPT !.pc = "refused", !.action = action]
<1>1. admin[a] \in Call
  BY DEF IInv, TypeOK
<1>2. call \in Call /\ call.view = admin[a].view
  BY <1>1 DEF Call
<1> QED
  BY <1>2, CallCorrect DEF Refuse

LEMMA ShownTyped ==
  ASSUME IInv
  PROVE  Shown(row) \in View
BY DEF IInv, TypeOK, Shown, Row, View

\* The steps of a call that do not write the row
LEMMA AnswerCorrect ==
  ASSUME IInv, NEW a \in Admins,
         Get(a) \/ ReadBack(a) \/ Diagnose(a) \/ SqlError(a) \/ Return(a)
  PROVE  IInv'
<1>1. admin[a] \in Call
  BY DEF IInv, TypeOK
<1>2. CASE Get(a)
  <2> DEFINE call == [admin[a] EXCEPT !.view = Shown(row)]
  <2>1. call \in Call /\ (call.view = Shown(row))
    BY <1>1, ShownTyped DEF Call
  <2>2. Goto(a, call)
    BY <1>2 DEF Get
  <2> QED
    BY <1>2, <2>1, <2>2, CallCorrect DEF Get
<1>3. CASE ReadBack(a)
  <2> DEFINE call == [admin[a] EXCEPT !.pc = "answered", !.view = Shown(row), !.result = OK]
  <2>1. call \in Call /\ (call.view = Shown(row))
    BY <1>1, ShownTyped DEF Call
  <2>2. Goto(a, call)
    BY <1>3 DEF ReadBack
  <2> QED
    BY <1>3, <2>1, <2>2, CallCorrect DEF ReadBack
<1>4. CASE Diagnose(a)
  <2> DEFINE call == [admin[a] EXCEPT !.pc = "answered",
                    !.result = IF ~Current(a) THEN EDIT_CONFLICT
                      ELSE IF admin[a].action = "update invalid" /\ row.status /= ENDED
                        THEN DATA_CONFLICT ELSE INVALID_TRANSITION]
  <2>1. call \in Call /\ (call.view = admin[a].view)
    BY <1>1, ShownTyped DEF Call
  <2>2. Goto(a, call)
    BY <1>4 DEF Diagnose
  <2> QED
    BY <1>4, <2>1, <2>2, CallCorrect DEF Diagnose
<1>5. CASE SqlError(a)
  <2> DEFINE call == [admin[a] EXCEPT !.pc = "answered", !.result = DATABASE_ERROR]
  <2>1. call \in Call /\ (call.view = admin[a].view)
    BY <1>1, ShownTyped DEF Call
  <2>2. Goto(a, call)
    BY <1>5 DEF SqlError
  <2> QED
    BY <1>5, <2>1, <2>2, CallCorrect DEF SqlError
<1>6. CASE Return(a)
  <2> DEFINE call == [admin[a] EXCEPT !.pc = "idle", !.action = "none", !.result = OK]
  <2>1. call \in Call /\ (call.view = admin[a].view)
    BY <1>1, ShownTyped DEF Call
  <2>2. Goto(a, call)
    BY <1>6 DEF Return
  <2> QED
    BY <1>6, <2>1, <2>2, CallCorrect DEF Return
<1> QED
  BY <1>2, <1>3, <1>4, <1>5, <1>6

LEMMA NextCorrect == IInv /\ [Next]_vars => IInv'
<1> SUFFICES ASSUME IInv, [Next]_vars PROVE IInv'
  OBVIOUS
<1>1. CASE UNCHANGED vars
  BY <1>1 DEF vars, IInv, TypeOK, ViewSound, ActiveIsApproved, ApprovalSound
<1>2. ASSUME NEW a \in Admins, NEW content \in Contents, NEW over \in BOOLEAN,
             NEW valid \in BOOLEAN, Update(a, content, over, valid)
      PROVE  IInv'
  BY <1>2, UpdateCorrect, RefuseCorrect DEF Update
<1>3. ASSUME NEW a \in Admins, NEW to \in CampaignStatus, ChangeStatus(a, to)
      PROVE  IInv'
  BY <1>3, StatusCorrect, RefuseCorrect DEF ChangeStatus
<1>4. ASSUME NEW a \in Admins, Approve(a)
      PROVE  IInv'
  BY <1>4, ApproveCorrect, RefuseCorrect DEF Approve
<1>5. ASSUME NEW a \in Admins, Reject(a)
      PROVE  IInv'
  BY <1>5, RejectCorrect, RefuseCorrect DEF Reject
<1> QED
  BY <1>1, <1>2, <1>3, <1>4, <1>5, AnswerCorrect, ExpireCorrect, PassEndCorrect DEF Next
-----------------------------------------------------------------------------
\* For every team: the types, the soundness of the views, and the two claims
\* about active campaigns hold together in every reachable state.
THEOREM LifecycleCorrect == Spec => []IInv
<1>1. Init => IInv
  BY InitCorrect
<1>2. IInv /\ [Next]_vars => IInv'
  BY NextCorrect
<1> QED
  BY <1>1, <1>2, PTL DEF Spec

\* reserve may rely on the status alone (coupon_campaign.sql:35-39), and an
\* operator's edit never goes live on an approval given before it.
THEOREM ActiveCorrect == Spec => []LiveIsApproved
<1>1. IInv => LiveIsApproved
  BY DEF IInv, ApprovalSound, ApprovalCoversContent, LiveIsApproved
<1> QED
  BY <1>1, LifecycleCorrect, PTL

\* The optimistic lock works: every accepted change was decided on the campaign
\* as it was when the change was applied.
THEOREM NoLostUpdate == Spec => NothingOverwrittenUnseen
<1> DEFINE Unseen ==
      \A a \in Admins :
        admin[a].pc = "idle" /\ admin'[a].pc = "written"
          => Decision(admin[a].view) = Decision(row)
<1>1. IInv /\ [Next]_vars => [Unseen]_vars
  <2> SUFFICES ASSUME IInv, Next, NEW a \in Admins,
                      admin[a].pc = "idle", admin'[a].pc = "written"
               PROVE  Decision(admin[a].view) = Decision(row)
    BY DEF Next
  <2>1. \A b \in Admins : \A action, new : Apply(b, action, new) /\ b # a
          => admin'[a] = admin[a]
    BY DEF Apply, Goto, IInv, TypeOK
  <2>2. \A b \in Admins : \A action : Refuse(b, action) => admin'[a].pc # "written"
    BY DEF Refuse, Goto, IInv, TypeOK, Call
  <2>3. \A b \in Admins :
          Get(b) \/ ReadBack(b) \/ Diagnose(b) \/ SqlError(b) \/ Return(b)
            => admin'[a].pc # "written"
    BY DEF Get, ReadBack, Diagnose, SqlError, Return, Goto, IInv, TypeOK, Call
  <2>4. ~PassEnd /\ ~Expire
    BY DEF PassEnd, Expire
  <2>5. Current(a)
    BY <2>1, <2>2, <2>3, <2>4 DEF Next, Update, ChangeStatus, Approve, Reject, Apply
  <2> QED
    BY <2>5 DEF IInv, ViewSound, Current
<1> QED
  BY <1>1, LifecycleCorrect, PTL DEF Spec, NothingOverwrittenUnseen

\* No call and no batch changes a campaign that has ended.
THEOREM EndedForGood == Spec => EndedIsFrozen
<1> DEFINE Frozen == row.status = ENDED => Decision(row') = Decision(row) /\ row'.edit = row.edit
<1>1. IInv /\ [Next]_vars => [Frozen]_vars
  <2> SUFFICES ASSUME IInv, Next, row.status = ENDED
               PROVE  Decision(row') = Decision(row) /\ row'.edit = row.edit
    OBVIOUS
  <2>1. \A to \in CampaignStatus : ~Transition(to)
    BY DEF Transition, WAITING, ACTIVE, PAUSED, ENDED
  <2>2. ~Decidable
    BY DEF Decidable
  <2>3. ~Expire
    BY DEF Expire, ACTIVE, ENDED
  <2>4. CASE PassEnd
    BY <2>4 DEF PassEnd, IInv, TypeOK, Row, Decision
  <2>5. ASSUME NEW a \in Admins, NEW content \in Contents, NEW over \in BOOLEAN,
               NEW valid \in BOOLEAN, Update(a, content, over, valid)
        PROVE  row' = row
    BY <2>5 DEF Update, Refuse
  <2>6. ASSUME NEW a \in Admins, (\E to \in CampaignStatus : ChangeStatus(a, to))
                                   \/ Approve(a) \/ Reject(a)
        PROVE  row' = row
    BY <2>1, <2>2, <2>6 DEF ChangeStatus, Approve, Reject, Refuse
  <2>7. \A a \in Admins : Get(a) \/ ReadBack(a) \/ Diagnose(a) \/ SqlError(a) \/ Return(a)
          => row' = row
    BY DEF Get, ReadBack, Diagnose, SqlError, Return
  <2>8. row' = row => Decision(row') = Decision(row) /\ row'.edit = row.edit
    OBVIOUS
  <2> QED
    BY <2>3, <2>4, <2>5, <2>6, <2>7, <2>8 DEF Next
<1> QED
  BY <1>1, LifecycleCorrect, PTL DEF Spec, EndedIsFrozen
=============================================================================
