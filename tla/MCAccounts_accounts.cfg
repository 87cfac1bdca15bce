CONSTANTS
  a1 = a1
  a2 = a2
  m1 = m1
  i1 = i1
  c1 = c1
  c2 = c2
  c3 = c3
  k1 = k1
  Accounts = {a1, a2}
  Emails = {m1}
  Identities = {i1}
  Calls = {c1, c2, c3}
  OldCodes = {k1}
  None = None
SPECIFICATION Spec
SYMMETRY Symmetry
INVARIANTS SessionsEnd AdminsNotSuspended CodeUsedOnce SuspensionsAreLogged IInv
CHECK_DEADLOCK FALSE
