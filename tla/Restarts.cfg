SPECIFICATION StoreSpec
CONSTANTS
  Groups = {g1}
  Users = {u1}
  Pendings = {p1, p2}
  NoPending = none
  GroupCap = 1
  GlobalCap = 1
  MaxSettleFailures = 1
  MaxEpoch = 1
  MaxRearmed = 1
  MaxHandlers = 1
  MaxRestarts = 1
SYMMETRY Symmetric
INVARIANTS
  StoreTypeOK
  UnsavedOnlyAfterFailedApproval
PROPERTIES
  EndedStaysEnded
  VerificationsLive
CHECK_DEADLOCK FALSE
