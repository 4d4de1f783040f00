SPECIFICATION FileSpec
CONSTANTS
  Writers = {w1, w2}
  NoWriter = none
  Torn = torn
  Damaged = damaged
  MaxMade = 3
INVARIANTS
  AckedSurvives
PROPERTIES
  AtomicSaves
