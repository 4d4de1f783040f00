SPECIFICATION StoreFairSpec
CONSTANTS
  Groups = {g1}
  Users = {u1}
  Pendings = {p1}
  NoPending = none
  GroupCap = 1
  GlobalCap = 1
  MaxSettleFailures = 2
  MaxEpoch = 2
  MaxRearmed = 1
  MaxHandlers = 1
  MaxRestarts = 1
PROPERTIES
  EndsAcrossRestarts
  VerificationsLive
CHECK_DEADLOCK FALSE
