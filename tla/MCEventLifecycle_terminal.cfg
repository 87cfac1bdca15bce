SPECIFICATION Spec
CONSTANTS
  None = None
  u1 = u1  u2 = u2  c1 = c1  c2 = c2  c3 = c3  c4 = c4
  Users = {u1, u2}
  Admins = {u2}
  Organizer = u1
  Calls = {c1, c2, c3, c4}
SYMMETRY CallSymmetry
PROPERTIES TerminalIsFinal
CHECK_DEADLOCK FALSE
