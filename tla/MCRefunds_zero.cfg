SPECIFICATION Spec
CONSTANTS
  None = None
  OldHash = h0
  o1 = o1  t1 = t1  t2 = t2  k1 = k1  k2 = k2  k3 = k3
  c1 = c1  c2 = c2  c3 = c3  h0 = h0
  OrderIds = {o1}
  TicketTypes = {t1, t2}
  Tickets = {k1, k2, k3}
  OrderOf <- OneOrder
  TypeOf <- TwoTypes
  Total <- Total2
  Start <- Start2
  Replies = {"hash", "lost", "none"}
  Calls = {c1, c2, c3}
SYMMETRY Symmetry
INVARIANT NeverBelowZero
CHECK_DEADLOCK FALSE
