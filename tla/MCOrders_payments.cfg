SPECIFICATION Spec
CONSTANTS
  None = None
  t1 = t1  t2 = t2  o1 = o1  o2 = o2  o3 = o3  u1 = u1  u2 = u2
  c1 = c1  c2 = c2  c3 = c3  p1 = p1  p2 = p2  m1 = m1  m2 = m2
  TicketTypes <- OneType
  Total <- Total1
  Base <- Base1
  Baskets <- Baskets1
  Cost <- Cost1
  Users = {u1, u2}
  Admins = {u2}
  OrderIds = {o1, o2}
  Memos = {m1, m2}
  MemoOf <- TwoMemos2
  Payments = {p1, p2}
  TxMemo <- TxMemo12
  Amount <- Amount12
  Unreadable = {p1}
  Calls = {c1, c2}
SYMMETRY CallSymmetry
INVARIANTS TypeOK InventoryBounded NothingLeaks CountersMatch PaidIsFunded SweepAccounted IInv
PROPERTIES CountersFollowOrders
