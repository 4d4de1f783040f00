SPECIFICATION Spec
CONSTANTS
  Groups = {g1, g2}
  Global = global
  NoGroup = nogroup
  Editors = {e1, e2}
  Mutators = {m1, m2}
  None = none
  MaxEdits = 2
  MaxRegRev = 2
  MaxRestarts = 1
SYMMETRY Symmetric
INVARIANTS
  SnapshotValid
  FileIsWhatReadersSee
PROPERTIES
  NoLostEdit
  RevisionsGrow
  NoLostRegistration
CHECK_DEADLOCK FALSE
