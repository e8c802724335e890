--------------------------- MODULE MCCouponUsage ----------------------------
(* Instances of CouponUsage for TLC. *)
EXTENDS UsageRecovery, TLC

CONSTANTS c1, c2, u1, u2, k1, s1, s2

AllRandom  == (k1 :> RANDOM)
AllFixed   == (k1 :> FIXED)
OneCampaign == [c \in {c1, c2} |-> k1]
OnlyCode    == (c1 :> k1)

\* Users whose spellings all differ, and two spellings of one user
Distinct == [u \in {u1, u2} |-> u]
Alike    == [u \in {u1, u2} |-> u1]

SessionSymmetry == Permutations({s1, s2})
=============================================================================
