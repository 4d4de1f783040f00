SPECIFICATION Spec
CONSTANTS
  Groups = {g1, g2}
  Questions = {q1, q2}
  None = none
  Workers = {w1, w2}
  Profiles <- Applicants
  KernelMaxTries = 2
  VerifyMaxFails = 2
  MaxNonce = 3
  MaxFaults = 1
  MaxCrashes = 1
SYMMETRY Symmetric
INVARIANTS
  TriesAreReplies
  StrikesAreFailures
  NoFailureForgotten
PROPERTIES
  StrikesAreEarned
CHECK_DEADLOCK FALSE
