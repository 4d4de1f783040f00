SPECIFICATION Spec
CONSTANTS
  Groups = {g1, g2}
  Questions = {q1, q2}
  None = none
  Workers = {w1}
  Profiles <- Answerers
  KernelMaxTries = 2
  VerifyMaxFails = 2
  MaxNonce = 2
  MaxFaults = 0
  MaxCrashes = 0
PROPERTIES
  AnswerElsewhereIsFree
CHECK_DEADLOCK FALSE
