--------------------------- MODULE UsageRecovery ----------------------------
(***************************************************************************)
(* CouponUsage under the fairness of the database and of a game server     *)
(* that keeps reconciling: it asks for the unconfirmed redemptions         *)
(* (SP_COUPON_UNCONFIRMED_LIST), grants what it missed, and confirms each. *)
(***************************************************************************)
EXTENDS CouponUsage

\* Mutant: the list leaves out campaigns that are not active
UnconfirmedOfActive ==
  {<<r.code, r.user>> : r \in {q \in usage :
     ~q.confirmed /\ campaign[CampaignOf[q.code]].status = ACTIVE}}

\* The list names a redemption by code and user; it has no usage id
Unconfirmed == {<<r.code, r.user>> : r \in {q \in usage : ~q.confirmed}}

\* The reconciliation batch confirms an item of the list
Reconcile(c, u) ==
  /\ <<c, u>> \in Unconfirmed
  /\ \E s \in Sessions : Call(s, "confirm", c, u)

\* A session executes the confirm of this item
Serves(s, c, u) == sess[s].op = "confirm" /\ sess[s].code = c /\ sess[s].user = u

\* A session that can move does (InnoDB's lock queues starve nobody), and an
\* answered call ends.
SessionFairness ==
  \A s \in Sessions : SF_vars(Step(s)) /\ WF_vars(Return(s))

\* The batch comes round to every item it finds listed, and database errors do
\* not hit the same statement of the confirm of one item for ever.
BatchFairness ==
  \A c \in Codes, u \in Users :
    /\ SF_vars(Reconcile(c, u))
    /\ \A s \in Sessions :
         /\ SF_vars(Serves(s, c, u) /\ Lookup(s))
         /\ SF_vars(Serves(s, c, u) /\ FindUsage(s))
         /\ SF_vars(Serves(s, c, u) /\ WriteConfirm(s))

AnsweringSpec   == Spec /\ SessionFairness
ReconcilingSpec == Spec /\ SessionFairness /\ BatchFairness

\* The lock order code, campaign, usage cannot make calls wait for each other
\* in a circle (docs/08 2.3): every call comes to an answer, without counting on
\* the lock wait timeout to break a wait.
EveryCallAnswered ==
  \A s \in Sessions : (sess[s].pc /= "idle") ~> (sess[s].pc = "idle")

\* docs/08 1.1 and 3: what was redeemed but not confirmed is found through the
\* unconfirmed list and can be settled: every redemption ends up confirmed.
EveryRedemptionConfirmed ==
  \A i \in 1..FixedQty :
    (\E r \in usage : r.id = i) ~> (\E r \in usage : r.id = i /\ r.confirmed)
=============================================================================
