SPECIFICATION Spec
CONSTANTS
  MaxBug = 4
  Filters <- AllOrLast
  BornAs = {"unconfirmed"}
  MaxNews = 4
  NewsWindow = 2
  FetchLimit = 2
  MaxTracked = 2
  MaxEdits = 1
  MaxMisses = 2
  MaxEditFails = 1
  MaxTries = 2
  MaxChanges = 1
  MaxDoubts = 1
  MaxFaults = 1
INVARIANT CursorCovers
INVARIANT RepeatsAreExplained
PROPERTY RoomForOpenBugs
CHECK_DEADLOCK FALSE
