------------------------------ MODULE NoValue ------------------------------
(* The null and undefined of the program, shared by the modules that one   *)
(* run checks together.                                                    *)
CONSTANT NULL
=============================================================================
