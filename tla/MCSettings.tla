------------------------------ MODULE MCSettings ------------------------------
(* Small instances of Settings for TLC. *)
EXTENDS Settings, TLC

Symmetric == Permutations(Groups) \cup Permutations(Editors) \cup Permutations(Mutators)
=============================================================================
