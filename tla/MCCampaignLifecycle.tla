------------------------ MODULE MCCampaignLifecycle -------------------------
(* Instances of CampaignLifecycle for TLC. *)
EXTENDS CampaignLifecycle, TLC

CONSTANTS m1, m2, o1, x, y

ContentSymmetry  == Permutations({x, y})
ApproverSymmetry == Permutations({m1, m2})
=============================================================================
