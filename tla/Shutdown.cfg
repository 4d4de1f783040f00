SPECIFICATION FairSpec
CONSTANTS
  MaxUpdate = 3
  BatchSize = 2
  Buffered = 1
  MaxConcurrentUpdateHandlers = 2
INVARIANTS
  NothingConfirmedIsLost
PROPERTIES
  ShutdownEnds
  UpdatesAreHandled
CHECK_DEADLOCK FALSE
