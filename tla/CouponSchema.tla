---------------------------- MODULE CouponSchema ----------------------------
(***************************************************************************)
(* The status columns and SP result codes shared by the coupon modules,    *)
(* with the numbers the DDL and the stored procedures give them.           *)
(***************************************************************************)
EXTENDS Naturals

\* coupon_campaign.code_type
RANDOM == 1
FIXED  == 2
CodeTypes == {RANDOM, FIXED}

\* coupon_campaign.status; ENDED is final
WAITING == 1
ACTIVE  == 2
PAUSED  == 3
ENDED   == 4
CampaignStatus == {WAITING, ACTIVE, PAUSED, ENDED}

\* coupon_campaign.approval_status
NOT_NEEDED == 1
PENDING    == 2
APPROVED   == 3
REJECTED   == 4
ApprovalStatus == {NOT_NEEDED, PENDING, APPROVED, REJECTED}

\* coupon_campaign.generation_status
GEN_WAITING == 1
GEN_RUNNING == 2
GEN_DONE    == 3
GEN_FAILED  == 4
GenerationStatus == {GEN_WAITING, GEN_RUNNING, GEN_DONE, GEN_FAILED}

\* coupon_code.status. No procedure writes 0 (stopped); a code that has not
\* been inserted yet is ABSENT, which is not a value of the column.
ABSENT == 9
UNUSED == 1
USED   == 2
CodeStatus == {ABSENT, UNUSED, USED}

\* The RESULT column a stored procedure returns
OK                 == 0
DATA_CONFLICT      == 30003
INVALID_TRANSITION == 30004
EDIT_CONFLICT      == 30005
CODE_NOT_FOUND     == 31005
USAGE_NOT_FOUND    == 31006
CODE_CONSUMED      == 33001
CAMPAIGN_CLOSED    == 33002
USER_LIMIT         == 33003
DATABASE_ERROR     == 50001
=============================================================================
