--------------------------- MODULE RewardAnswers ----------------------------
(***************************************************************************)
(* What game servers are told to hand out, while administrators edit the   *)
(* campaign: the calls that redeem one code for one user, who may redeem   *)
(* once, composed with the life of the campaign. The reward is a column of *)
(* coupon_campaign, part of its content; a redemption keeps no copy.       *)
(***************************************************************************)
EXTENDS CampaignLifecycle, NoValue

CONSTANTS Calls \* bound: calls of game servers at a time

VARIABLES
  usage,        \* the redemption: none, unconfirmed, confirmed
  call,         \* what each call is doing, and the reward it has read
  first,        \* ghost: the reward of the first successful answer
  passed        \* ghost: the contents an approver wrote or approved, or that needed
                \* no approval

rewardVars == <<usage, call, first, passed>>

Unobjectionable == {content \in {row.content} : vetted \/ row.approval = NOT_NEEDED}

AnswersInit ==
  /\ Init
  /\ usage = "none" /\ first = NULL
  /\ call = [c \in Calls |-> [pc |-> "idle", reward |-> NULL]]
  /\ passed = Unobjectionable

Step(c, pc, reward) == call' = [call EXCEPT ![c] = [pc |-> pc, reward |-> reward]]

\* The first SELECT of SP_COUPON_RESERVE, which also reads the reward
FindCode(c) ==
  /\ call[c].pc = "idle" /\ Step(c, "found", row.content)
  /\ UNCHANGED <<usage, first>>

\* The idempotent check: a redemption that exists is answered again
FindUsage(c) ==
  /\ call[c].pc = "found"
  /\ Step(c, IF usage = "none" THEN "claim" ELSE "answered", call[c].reward)
  /\ UNCHANGED <<usage, first>>

\* The transaction redeems the code, or finds it gone or the campaign closed
Redeem(c) ==
  /\ call[c].pc = "claim"
  /\ IF usage = "none" /\ row.status = ACTIVE /\ ~row.over
     THEN /\ usage' = "unconfirmed" /\ first' = call[c].reward
          /\ Step(c, "answered", call[c].reward)
     ELSE Step(c, "idle", NULL) /\ UNCHANGED <<usage, first>>

\* SP_COUPON_CONFIRM
ConfirmReward ==
  /\ usage = "unconfirmed" /\ usage' = "confirmed"
  /\ UNCHANGED <<call, first>>

\* SP_COUPON_UNCONFIRMED_LIST joins the campaign as it is
ListReward(c) ==
  /\ call[c].pc = "idle" /\ usage = "unconfirmed"
  /\ Step(c, "listed", row.content)
  /\ UNCHANGED <<usage, first>>

\* The answer arrives or is lost; a call may also fail before
EndCall(c) ==
  /\ call[c].pc # "idle" /\ Step(c, "idle", NULL)
  /\ UNCHANGED <<usage, first>>

AnswersNext ==
  /\ \/ Next /\ UNCHANGED <<usage, call, first>>
     \/ /\ \/ ConfirmReward
           \/ \E c \in Calls : FindCode(c) \/ FindUsage(c) \/ Redeem(c) \/ ListReward(c) \/ EndCall(c)
        /\ UNCHANGED vars
  /\ passed' = passed \cup Unobjectionable'

AnswersSpec == AnswersInit /\ [][AnswersNext]_<<vars, rewardVars>>
-----------------------------------------------------------------------------
\* docs/20_COUPON_USAGE_API.md:81: a retry gets the first successful answer again,
\* reward_data included.
RetryAnswersTheSame ==
  \A c \in Calls : call[c].pc = "answered" => call[c].reward = first

\* docs/19_CAMPAIGN_API.md 2.4, "protection of active campaigns": no content that
\* has been let pass reaches the public. A game server is told to hand out only
\* rewards that an approver wrote or approved, or that needed no approval.
RewardWasVetted ==
  \A c \in Calls : call[c].pc \in {"answered", "listed"} => call[c].reward \in passed
=============================================================================
