-------------------------- MODULE MCCampaignScreen --------------------------
(* Instances of CampaignScreen for TLC.                                    *)
EXTENDS CampaignScreen, TLC

Symmetric == Permutations(Contents)
=============================================================================
