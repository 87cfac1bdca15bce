SPECIFICATION FairSpec
CONSTANTS
  None = None
  t1 = t1  t2 = t2  o1 = o1  o2 = o2  o3 = o3  u1 = u1  u2 = u2
  c1 = c1  c2 = c2  c3 = c3  p1 = p1  p2 = p2  m1 = m1  m2 = m2
  TicketTypes <- TwoTypes
  Total <- Total2
  Base <- Base2
  Baskets <- Baskets2
  Cost <- Cost2
  Users = {u1}
  Admins = {}
  OrderIds = {o1, o2, o3}
  Memos = {m1, m2}
  MemoOf <- TwoMemos
  Payments = {}
  TxMemo <- NoMap
  Amount <- NoMap
  Unreadable = {}
  Calls = {c1, c2}
INVARIANTS MemoNamesOneOrder SomeoneCanGoOn
PROPERTIES ImplementsInventory EveryCallEnds
