SPECIFICATION Spec
CONSTANTS
  Groups = {g1, g2}
  Users = {u1}
  NoUser = NoUser
  Nonces = {n1}
  Workers = {w1, w2}
  None = None
  ClaimLife = 2
  EnrollLife = 1
  PendingLife = 1
  MaxNow = 1
  MaxEvents = 2
  MaxFaults = 1
  MaxRestarts = 1
INVARIANT EnrolledGroupKept
INVARIANT NonceSpentOnce
INVARIANT PendingIsNotLeaving
INVARIANT NoLeaveForgotten
SYMMETRY Symmetry
CHECK_DEADLOCK FALSE
