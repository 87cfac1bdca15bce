SPECIFICATION Spec
CONSTANTS
  None = None
  u1 = u1  u2 = u2  e1 = e1  e2 = e2  e3 = e3  c1 = c1  c2 = c2  c3 = c3
  Users = {u1, u2}
  EntryIds = {e1, e2, e3}
  Counts = {1, 2}
  Calls = {c1, c2}
SYMMETRY Symmetry
CONSTRAINTS OneStays OneUnsaved
INVARIANTS FirstComeFirstServed IInv
PROPERTIES MailedOnce ImplementsQueue
