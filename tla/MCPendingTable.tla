--------------------------- MODULE MCPendingTable ---------------------------
(* Small instances of PendingTable for TLC. *)
EXTENDS PendingTable, TLC

\* Applicants and objects are interchangeable; NoPending is not one of them.
Symmetric == Permutations(Users) \cup Permutations(Pendings)
=============================================================================
