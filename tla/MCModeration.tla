---------------------------- MODULE MCModeration ----------------------------
(* A small instance of Moderation for TLC. *)
EXTENDS Moderation, TLC

FourMembers == 1..4
OneAdmin == {4}
Symmetric == Permutations(Channels) \cup Permutations(Handlers)
=============================================================================
