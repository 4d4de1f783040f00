SPECIFICATION Spec
CONSTANTS
  Users = {u1}
  Groups = {g1, g2}
  ControlGroup = g1
  Global = global
  Workers = {w1, w2}
  None = none
  Tours <- Menus
  SessionCap = 1
  MaxSessions = 2
  MaxPrompts = 2
SYMMETRY Symmetric
PROPERTIES
  NothingUnseenIsOverwritten
  ReplacedPanelIsDone
CHECK_DEADLOCK FALSE
