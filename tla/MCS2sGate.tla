------------------------------ MODULE MCS2sGate ------------------------------
(* Instance of S2sGate for TLC: two guards, for a call that is delivered   *)
(* twice, and two requests of administrators.                              *)
EXTENDS S2sGate, TLC

Symmetric == Permutations(Procs) \cup Permutations(Clicks)
=============================================================================
