--------------------------- MODULE MCPanelSession ---------------------------
(* One tour of the menu for each kind of screen, with the troubles that    *)
(* matter there.                                                           *)
EXTENDS PanelSession, TLC

Tour(s, n, p, c, f, o, v) ==
  [screens |-> s, groups |-> {ControlGroup}, sessions |-> n,
   prompts |-> p, commits |-> c, faults |-> f, others |-> o, verifies |-> v]

Menus ==
  {Tour({"rt"}, 2, 1, 1, 0, {}, FALSE),
   Tour({"vp"}, 1, 1, 2, 0, {ControlGroup}, TRUE),
   Tour({"vp"}, 1, 1, 1, 1, {}, TRUE),
   Tour({"md"}, 1, 1, 2, 0, {Global}, FALSE),
   Tour({"ls", "li"}, 1, 1, 2, 1, {ControlGroup}, FALSE),
   Tour({"ct", "qb", "qd"}, 1, 2, 2, 0, {ControlGroup}, FALSE),
   Tour({"ct", "fb", "fd"}, 1, 2, 2, 0, {ControlGroup}, FALSE),
   Tour({"ct", "ch"}, 1, 2, 2, 0, {ControlGroup}, FALSE),
   [Tour({"md"}, 1, 1, 1, 0, {}, FALSE) EXCEPT !.groups = Groups]}
Symmetric == Permutations(Workers)
=============================================================================
