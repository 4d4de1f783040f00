--------------------------- MODULE MCPendingStore ---------------------------
(* Small instances of PendingStore for TLC. *)
EXTENDS PendingStore, TLC

\* Applicants and objects are interchangeable; NoPending is not one of them.
Symmetric == Permutations(Users) \cup Permutations(Pendings)
=============================================================================
