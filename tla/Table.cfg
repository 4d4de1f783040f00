SPECIFICATION Spec
CONSTANTS
  Groups = {g1}
  Users = {u1, u2}
  Pendings = {p1, p2}
  NoPending = none
  GroupCap = 1
  GlobalCap = 2
  MaxSettleFailures = 1
  MaxEpoch = 2
  MaxRearmed = 1
  MaxHandlers = 1
SYMMETRY Symmetric
INVARIANTS
  SoleSettler
  NothingWedged
  NobodyForgotten
  FreshWindowHolds
  CapacityBounded
PROPERTIES
  SettlementKeepsToItsOwn
  FrozenAfterShutdown
CHECK_DEADLOCK FALSE
