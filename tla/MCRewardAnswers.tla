-------------------------- MODULE MCRewardAnswers ---------------------------
(* Instance of RewardAnswers for TLC: two calls, a manager and an operator. *)
EXTENDS RewardAnswers, TLC

CONSTANTS m1, o1, x, y, g1, g2

RewardSymmetry == Permutations({g1, g2}) \cup Permutations({x, y})
=============================================================================
