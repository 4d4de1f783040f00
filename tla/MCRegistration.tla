--------------------------- MODULE MCRegistration ---------------------------
(* Two groups, two goroutines and one nonce: enough for two groups to redeem the nonce at once, *)
(* and for a leave of a group to meet its enrolment, its promotion and its unregistration.      *)
EXTENDS Registration, TLC

Symmetry == Permutations(Groups) \cup Permutations(Workers)
=============================================================================
