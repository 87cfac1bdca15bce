SPECIFICATION Spec
CONSTANTS
  None = None
  k1 = k1  k2 = k2  u1 = u1  u2 = u2  u3 = u3  c1 = c1  c2 = c2  c3 = c3
  TicketIds = {k1, k2}
  Issued = {k1}
  Users = {u1, u2, u3}
  Holder <- Holder1
  EventRows <- Rows1
  Horizon = 2
  Calls = {c1, c2, c3}
SYMMETRY CallSymmetry
INVARIANTS SingleAdmission
