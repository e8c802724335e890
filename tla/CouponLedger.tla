---------------------------- MODULE CouponLedger ----------------------------
(***************************************************************************)
(* What the platform promises about redemptions, with no sessions, locks,  *)
(* status flags or counters: a ledger to which a redemption is added in    *)
(* one atomic step, under the campaign policy in force at that moment, and *)
(* in which a redemption is confirmed.  Nothing is ever taken back.        *)
(* CouponUsage implements it.                                              *)
(***************************************************************************)
EXTENDS CouponSchema, Integers, FiniteSets

CONSTANTS Users, FoldOf, Codes, Campaigns, CampaignOf, CodeType, Qtys, Limits

VARIABLES
  ledger,       \* the redemptions: id, code, user, confirmed
  policy,       \* per campaign: status, usable, and the highest limit per user so far
  issued        \* the codes that exist

ledgerVars == <<ledger, policy, issued>>

EntriesOf(k)        == {e \in ledger : CampaignOf[e.code] = k}
EntriesOfUser(k, u) == {e \in EntriesOf(k) : FoldOf[e.user] = FoldOf[u]}

LedgerInit ==
  /\ ledger = {}
  /\ issued = {}
  /\ policy \in [Campaigns -> [status : {ACTIVE}, usable : {0}, ceiling : Limits]]

\* A user redeems a code: it exists, a RANDOM code is redeemed by nobody yet,
\* its campaign is active with quantity left, and the user is below the limit
Redeem(c, u) ==
  LET k == CampaignOf[c]
  IN  /\ c \in issued
      /\ CodeType[k] = RANDOM => \A e \in ledger : e.code /= c
      /\ policy[k].status = ACTIVE
      /\ Cardinality(EntriesOf(k)) < policy[k].usable
      /\ Cardinality(EntriesOfUser(k, u)) < policy[k].ceiling
      /\ ledger' = ledger \cup {[id |-> Cardinality(ledger) + 1, code |-> c,
                                 user |-> u, confirmed |-> FALSE]}
      /\ UNCHANGED <<policy, issued>>

\* The game server reports that it has granted the reward of a redemption
Confirm(e) ==
  /\ ledger' = (ledger \ {e}) \cup {[e EXCEPT !.confirmed = TRUE]}
  /\ UNCHANGED <<policy, issued>>

Issue(c) ==
  /\ issued' = issued \cup {c}
  /\ UNCHANGED <<ledger, policy>>

\* An administrator publishes another policy for a campaign that has not ended
Publish(k, status, usable, limit) ==
  /\ policy[k].status /= ENDED
  /\ policy' = [policy EXCEPT ![k] =
       [status |-> status, usable |-> usable,
        ceiling |-> IF limit > policy[k].ceiling THEN limit ELSE policy[k].ceiling]]
  /\ UNCHANGED <<ledger, issued>>

LedgerNext ==
  \/ \E c \in Codes, u \in Users : Redeem(c, u)
  \/ \E e \in ledger : Confirm(e)
  \/ \E c \in Codes : Issue(c)
  \/ \E k \in Campaigns, status \in CampaignStatus, usable \in Qtys \cup {0},
        limit \in Limits : Publish(k, status, usable, limit)

LedgerSpec == LedgerInit /\ [][LedgerNext]_ledgerVars
=============================================================================
