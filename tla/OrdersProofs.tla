----------------------------- MODULE OrdersProofs -----------------------------
EXTENDS Orders, FiniteSetTheorems, TLAPS

\* The requests of calls that have none, and of the expiry job between orders.
LEMMA Blank ==
  /\ NoRequest \in Request /\ NoRequest.order = None
  /\ JobRun \in Request /\ JobRun.order = None /\ JobRun.op = "expire"
BY DEF NoRequest, JobRun, Asks, Request

\* The tables and calls the server starts with satisfy the invariant.
LEMMA InitCallsInv == Init => CallsInv
<1> SUFFICES ASSUME Init PROVE CallsInv
  OBVIOUS
<1> USE QuantityAssumption, NoneAssumption
<1>1. TypeOK
  BY DEF Init, TypeOK, NoRequest, Asks, Request, Ended, Empty
<1>2. InventoryBounded
  BY DEF Init, InventoryBounded
<1>3. RequestsOK /\ LocksOK /\ DraftsOK
  BY DEF Init, RequestsOK, LocksOK, LockedOK, DraftsOK, Idle, Ended, Creating
<1>4. MemoNamesOneOrder /\ InsertsOK /\ SweepsOK /\ SweepAccounted
  BY DEF Init, MemoNamesOneOrder, InsertsOK, SweepsOK, SweepAccounted, Exists,
         Inserted
<1> QED
  BY <1>1, <1>2, <1>3, <1>4 DEF CallsInv

\* Where a call goes, and with which lines.
LEMMA GotoStep ==
  ASSUME TypeOK, NEW c \in Calls, NEW phase \in Ended \cup Phases,
         NEW ls \in SUBSET TicketTypes, Goto(c, phase, ls)
  PROVE  /\ pc' \in [Calls -> Ended \cup Phases]
         /\ left' \in [Calls -> SUBSET TicketTypes]
         /\ want' \in [Calls -> TicketTypes \cup {None}]
         /\ pc' = [pc EXCEPT ![c] = phase]
         /\ left' = [left EXCEPT ![c] = ls]
         /\ ls # {} => want'[c] \in ls
         /\ \A d \in Calls \ {c} : want'[d] = want[d]
BY DEF Goto, TypeOK

\* After a line: the next phase when it was the last one, else another line.
LEMMA LineDoneStep ==
  ASSUME TypeOK, NEW c \in Calls, NEW phase \in Ended \cup Phases,
         NEW ls \in SUBSET TicketTypes, want[c] \in left[c], LineDone(c, phase, ls)
  PROVE  /\ pc' \in [Calls -> Ended \cup Phases]
         /\ left' \in [Calls -> SUBSET TicketTypes]
         /\ want' \in [Calls -> TicketTypes \cup {None}]
         /\ \A d \in Calls \ {c} :
              pc'[d] = pc[d] /\ left'[d] = left[d] /\ want'[d] = want[d]
         /\ \/ /\ left[c] = {want[c]} /\ pc'[c] = phase /\ left'[c] = ls
               /\ ls # {} => want'[c] \in ls
            \/ /\ pc'[c] = pc[c] /\ left'[c] = left[c] \ {want[c]}
               /\ want'[c] \in left'[c]
<1> DEFINE rest == left[c] \ {want[c]}
<1>0. pc[c] \in Ended \cup Phases /\ rest \in SUBSET TicketTypes
  BY DEF TypeOK
<1>1. CASE left[c] = {want[c]}
  <2>1. Goto(c, phase, ls)
    BY <1>1 DEF LineDone
  <2> QED
    BY <1>1, <2>1, GotoStep DEF TypeOK
<1>2. CASE left[c] # {want[c]}
  <2>1. Goto(c, pc[c], rest) /\ rest # {}
    BY <1>2 DEF LineDone
  <2>2. /\ pc' = [pc EXCEPT ![c] = pc[c]] /\ left' = [left EXCEPT ![c] = rest]
        /\ want' \in [Calls -> TicketTypes \cup {None}] /\ want'[c] \in rest
        /\ pc' \in [Calls -> Ended \cup Phases] /\ left' \in [Calls -> SUBSET TicketTypes]
        /\ \A d \in Calls \ {c} : want'[d] = want[d]
    <3> HIDE DEF rest
    <3> QED
      BY <1>0, <2>1, GotoStep
  <2> QED
    BY <2>2 DEF TypeOK
<1> QED
  BY <1>1, <1>2

\* A transaction that ends without a commit leaves the invariant.
LEMMA FinishInv ==
  ASSUME CallsInv, NEW c \in Calls, NEW outcome \in Ended, Finish(c, outcome), UNCHANGED db
  PROVE  CallsInv'
<1> USE QuantityAssumption, NoneAssumption
<1>1. /\ pc' = [pc EXCEPT ![c] = outcome]
      /\ left' = [left EXCEPT ![c] = {}]
      /\ want' \in [Calls -> TicketTypes \cup {None}]
      /\ \A d \in Calls \ {c} : want'[d] = want[d]
      /\ req' = [req EXCEPT ![c] = NoRequest]
      /\ found' = [found EXCEPT ![c] = {}] /\ todo' = [todo EXCEPT ![c] = {}]
      /\ failed' = [failed EXCEPT ![c] = {}]
      /\ excl' = [t \in TicketTypes |-> excl[t] \ {c}]
      /\ share' = [t \in TicketTypes |-> share[t] \ {c}]
      /\ draft' = [draft EXCEPT ![c] = Empty]
      /\ sold' = sold /\ orders' = orders /\ due' = due /\ late' = late
  BY GotoStep DEF CallsInv, Finish, EndTransaction, db
<1>2. TypeOK'
  BY <1>1, Blank DEF CallsInv, TypeOK, Empty
<1>3. InventoryBounded' /\ MemoNamesOneOrder'
  BY <1>1 DEF CallsInv, InventoryBounded, MemoNamesOneOrder, Exists
<1>4. RequestsOK'
  BY <1>1, Blank DEF CallsInv, TypeOK, RequestsOK, Idle, Ended, Creating, Exists
<1>5. LocksOK'
  BY <1>1 DEF CallsInv, TypeOK, LocksOK, Inserted, LockedOK, Ended
<1>6. DraftsOK'
  BY <1>1 DEF CallsInv, TypeOK, DraftsOK, Creating
<1>7. InsertsOK'
  BY <1>1 DEF CallsInv, TypeOK, InsertsOK, Inserted, Exists, Ended
<1>8. SweepsOK' /\ SweepAccounted'
  BY <1>1 DEF CallsInv, TypeOK, SweepsOK, SweepAccounted, Exists, Pending
<1> QED
  BY <1>2, <1>3, <1>4, <1>5, <1>6, <1>7, <1>8 DEF CallsInv

\* The same for a call that may be the expiry job, which goes on.
LEMMA AbortInv ==
  ASSUME CallsInv, NEW c \in Calls, NEW outcome \in Ended, Abort(c, outcome), UNCHANGED db,
         pc[c] \in {"order", "items", "reserve", "release"}
  PROVE  CallsInv'
<1> USE QuantityAssumption, NoneAssumption
<1>1. CASE req[c].op # "expire"
  BY <1>1, FinishInv DEF Abort
<1>2. CASE req[c].op = "expire"
  <2>0. pc[c] = "release" /\ req[c].order \in OrderIds
    BY <1>2 DEF CallsInv, RequestsOK, Creating
  <2>1. /\ pc' = [pc EXCEPT ![c] = "pick"]
        /\ left' = [left EXCEPT ![c] = {}]
        /\ want' \in [Calls -> TicketTypes \cup {None}]
        /\ \A d \in Calls \ {c} : want'[d] = want[d]
        /\ req' = [req EXCEPT ![c] = JobRun]
        /\ failed' = [failed EXCEPT ![c] = @ \cup {req[c].order}]
        /\ found' = found /\ todo' = todo
        /\ excl' = [t \in TicketTypes |-> excl[t] \ {c}]
        /\ share' = [t \in TicketTypes |-> share[t] \ {c}]
        /\ draft' = [draft EXCEPT ![c] = Empty]
        /\ sold' = sold /\ orders' = orders /\ due' = due /\ late' = late
    <3>1. EndTransaction(c, "pick", JobRun)
      BY <1>2 DEF Abort
    <3>2. Goto(c, "pick", {}) /\ "pick" \in Ended \cup Phases
      BY <3>1 DEF EndTransaction, Phases
    <3>3. TypeOK
      BY DEF CallsInv
    <3> QED
      BY <1>2, <3>1, <3>2, <3>3, GotoStep DEF Abort, EndTransaction, db
  <2>2. TypeOK'
    BY <2>0, <2>1, Blank DEF CallsInv, TypeOK, Empty, Phases
  <2>3. InventoryBounded' /\ MemoNamesOneOrder'
    BY <2>1 DEF CallsInv, InventoryBounded, MemoNamesOneOrder, Exists
  <2>4. RequestsOK'
    BY <2>1, Blank DEF CallsInv, TypeOK, RequestsOK, Idle, Ended, Creating, Exists
  <2>5. LocksOK'
    BY <2>1 DEF CallsInv, TypeOK, LocksOK, Inserted, LockedOK
  <2>6. DraftsOK'
    BY <2>1 DEF CallsInv, TypeOK, DraftsOK, Creating
  <2>7. InsertsOK'
    BY <2>1 DEF CallsInv, TypeOK, InsertsOK, Inserted, Exists
  <2>8. SweepsOK' /\ SweepAccounted'
    BY <2>0, <2>1 DEF CallsInv, TypeOK, SweepsOK, SweepAccounted, Exists, Pending
  <2> QED
    BY <2>2, <2>3, <2>4, <2>5, <2>6, <2>7, <2>8 DEF CallsInv
<1> QED
  BY <1>1, <1>2

-------------------------------------------------------------------------------
(* One lemma per action *)

\* A create or a retry that arrives owns a fresh id and holds nothing yet.
LEMMA StartCreateInv ==
  ASSUME CallsInv, NEW c \in Calls, NEW u \in Users, NEW b \in Baskets, NEW o \in OrderIds,
         StartCreate(c, u, b, o)
  PROVE  CallsInv'
<1> USE QuantityAssumption, NoneAssumption
<1>0. Lines(b) \in SUBSET TicketTypes /\ Lines(b) # {}
  BY DEF Lines
<1>1. /\ pc' = [pc EXCEPT ![c] = "check"]
      /\ left' = [left EXCEPT ![c] = Lines(b)]
      /\ want' \in [Calls -> TicketTypes \cup {None}]
      /\ want'[c] \in Lines(b)
      /\ \A d \in Calls \ {c} : want'[d] = want[d]
      /\ req' = [req EXCEPT ![c] = Asks("create", u, o, b, None)]
      /\ found' = found /\ todo' = todo /\ failed' = failed
        /\ excl' = excl /\ share' = share /\ draft' = draft
      /\ sold' = sold /\ orders' = orders /\ due' = due /\ late' = late
      /\ pc[c] \in Ended /\ req[c] = NoRequest
  BY <1>0, GotoStep DEF CallsInv, RequestsOK, StartCreate, db, locks, sweep, Phases, Idle
<1>r. /\ req'[c].op = "create" /\ req'[c].user = u /\ req'[c].order = o
      /\ req'[c].items = b /\ req'[c].tx = None
      /\ \A d \in Calls \ {c} : req'[d] = req[d]
      /\ req' \in [Calls -> Request]
  BY <1>1 DEF CallsInv, TypeOK, Asks, Request
<1>2. TypeOK'
  BY <1>0, <1>1, <1>r DEF CallsInv, TypeOK, Phases
<1>3. InventoryBounded' /\ MemoNamesOneOrder'
  BY <1>1 DEF CallsInv, InventoryBounded, MemoNamesOneOrder, Exists
<1>4. RequestsOK'
  BY <1>1, <1>r DEF CallsInv, TypeOK, RequestsOK, Idle, Ended, Creating, Exists, StartCreate, Fresh
<1>5. LocksOK'
  BY <1>0, <1>1, <1>r DEF CallsInv, TypeOK, LocksOK, Inserted, LockedOK, Ended
<1>6. DraftsOK'
  <2>1. \A t \in TicketTypes : c \notin excl[t]
    BY <1>1 DEF CallsInv, LocksOK, LockedOK, Ended
  <2> QED
    BY <1>1, <2>1 DEF CallsInv, TypeOK, DraftsOK
<1>7. InsertsOK'
  BY <1>1, <1>r DEF CallsInv, TypeOK, InsertsOK, Inserted, Exists
<1>8. SweepsOK' /\ SweepAccounted'
  BY <1>1, Blank, <1>r DEF CallsInv, TypeOK, SweepsOK, SweepAccounted, Exists, Pending
<1> QED
  BY <1>2, <1>3, <1>4, <1>5, <1>6, <1>7, <1>8 DEF CallsInv

\* The check before the transaction goes on or refuses, and holds nothing.
LEMMA CheckAvailabilityInv ==
  ASSUME CallsInv, NEW c \in Calls, CheckAvailability(c)
  PROVE  CallsInv'
<1> USE QuantityAssumption, NoneAssumption
<1>1. CASE ~Room(want[c], req[c].items[want[c]])
  BY <1>1, FinishInv DEF CheckAvailability, Ended
<1>2. CASE Room(want[c], req[c].items[want[c]])
  <2>0. /\ TypeOK /\ pc[c] = "check" /\ want[c] \in left[c]
        /\ {} \in SUBSET TicketTypes /\ "order" \in Ended \cup Phases
    BY DEF CallsInv, CheckAvailability, LocksOK, LockedOK, Phases
  <2>1. LineDone(c, "order", {})
    BY <1>2 DEF CheckAvailability
  <2>2. /\ req' = req /\ found' = found /\ todo' = todo /\ failed' = failed
        /\ excl' = excl /\ share' = share
        /\ draft' = draft /\ sold' = sold /\ orders' = orders
        /\ due' = due /\ late' = late
    BY <1>2 DEF CheckAvailability, db, locks, sweep
  <2>3. /\ pc' \in [Calls -> Ended \cup Phases]
        /\ left' \in [Calls -> SUBSET TicketTypes]
        /\ want' \in [Calls -> TicketTypes \cup {None}]
        /\ \A d \in Calls \ {c} :
             pc'[d] = pc[d] /\ left'[d] = left[d] /\ want'[d] = want[d]
        /\ \/ pc'[c] = "order" /\ left'[c] = {}
           \/ /\ pc'[c] = "check" /\ left'[c] = left[c] \ {want[c]}
              /\ want'[c] \in left'[c]
    BY <2>0, <2>1, LineDoneStep
  <2>4. TypeOK'
    BY <2>2, <2>3 DEF CallsInv, TypeOK
  <2>5. InventoryBounded' /\ MemoNamesOneOrder'
    BY <2>0, <2>2, <2>3 DEF CallsInv, InventoryBounded, MemoNamesOneOrder, Exists
  <2>6. RequestsOK'
    BY <2>0, <2>2, <2>3 DEF CallsInv, TypeOK, RequestsOK, Idle, Ended, Creating, Exists
  <2>7. LocksOK'
    <3>1. LocksOK /\ TypeOK
      BY DEF CallsInv
    <3>2. \A t \in TicketTypes : c \notin excl[t]
      BY <2>0, <3>1 DEF LocksOK, LockedOK
    <3>3. ASSUME NEW d \in Calls, d # c
          PROVE  LockedOK(d)'
      BY <2>2, <2>3, <3>1, <3>3 DEF LocksOK, LockedOK
    <3>4. LockedOK(c)'
      BY <2>0, <2>2, <2>3, <3>1, <3>2 DEF LocksOK, LockedOK
    <3> QED
      <4>1. \A t \in TicketTypes : \A d \in share'[t] : Inserted(d)'
        BY <2>0, <2>2, <2>3, <3>1 DEF LocksOK, Inserted, TypeOK
      <4> QED
        BY <2>2, <3>1, <3>3, <3>4, <4>1 DEF LocksOK
  <2>8. DraftsOK'
    BY <2>0, <2>2, <2>3 DEF CallsInv, TypeOK, DraftsOK, Creating
  <2>9. InsertsOK'
    BY <2>0, <2>2, <2>3 DEF CallsInv, TypeOK, InsertsOK, Inserted, Exists
  <2>10. SweepsOK' /\ SweepAccounted'
    BY <2>0, <2>2, <2>3 DEF CallsInv, TypeOK, SweepsOK, SweepAccounted, Exists, Pending
  <2> QED
    BY <2>4, <2>5, <2>6, <2>7, <2>8, <2>9, <2>10 DEF CallsInv
<1> QED
  BY <1>1, <1>2

\* An inserted memo is nobody else's: the unique index made the call wait or fail.
LEMMA InsertOrderInv ==
  ASSUME CallsInv, NEW c \in Calls, InsertOrder(c)
  PROVE  CallsInv'
<1> USE QuantityAssumption, NoneAssumption
<1> DEFINE taken == \E o \in OrderIds : Exists(o) /\ MemoOf[o] = MemoOf[req[c].order]
<1>1. CASE taken
  BY <1>1, FinishInv DEF InsertOrder, Ended
<1>2. CASE ~taken
  <2>0. /\ pc[c] = "order" /\ req[c].items \in Baskets
        /\ Lines(req[c].items) \in SUBSET TicketTypes /\ Lines(req[c].items) # {}
        /\ TypeOK /\ "items" \in Ended \cup Phases
    BY DEF CallsInv, RequestsOK, InsertOrder, Creating, Lines, Phases
  <2>1. /\ pc' = [pc EXCEPT ![c] = "items"]
        /\ left' = [left EXCEPT ![c] = Lines(req[c].items)]
        /\ want' \in [Calls -> TicketTypes \cup {None}]
        /\ want'[c] \in Lines(req[c].items)
        /\ \A d \in Calls \ {c} : want'[d] = want[d]
        /\ req' = req /\ found' = found /\ todo' = todo /\ failed' = failed
        /\ excl' = excl /\ share' = share
        /\ draft' = draft /\ sold' = sold /\ orders' = orders
        /\ due' = due /\ late' = late
    BY <1>2, <2>0, GotoStep DEF InsertOrder, db, locks, sweep
  <2>2. TypeOK'
    BY <2>0, <2>1 DEF CallsInv, TypeOK, Phases
  <2>3. InventoryBounded' /\ MemoNamesOneOrder'
    BY <2>1 DEF CallsInv, InventoryBounded, MemoNamesOneOrder, Exists
  <2>4. RequestsOK'
    BY <2>0, <2>1 DEF CallsInv, TypeOK, RequestsOK, Idle, Ended, Creating, Exists
  <2>5. LocksOK'
    BY <2>0, <2>1 DEF CallsInv, TypeOK, LocksOK, Inserted, LockedOK
  <2>6. DraftsOK'
    BY <2>0, <2>1 DEF CallsInv, TypeOK, DraftsOK, Creating
  <2>7. InsertsOK'
    <3>1. \A d \in Calls \ {c} : Inserted(d) => MemoOf[req[d].order] # MemoOf[req[c].order]
      BY <2>0 DEF InsertOrder, Blockers
    <3> QED
      BY <1>2, <2>0, <2>1, <3>1 DEF CallsInv, TypeOK, InsertsOK, Inserted, Exists
  <2>8. SweepsOK' /\ SweepAccounted'
    BY <2>1 DEF CallsInv, TypeOK, SweepsOK, SweepAccounted, Exists, Pending
  <2> QED
    BY <2>2, <2>3, <2>4, <2>5, <2>6, <2>7, <2>8 DEF CallsInv
<1> QED
  BY <1>1, <1>2

\* The foreign key check shares a row that nobody has FOR UPDATE.
LEMMA InsertItemInv ==
  ASSUME CallsInv, NEW c \in Calls, InsertItem(c)
  PROVE  CallsInv'
<1> USE QuantityAssumption, NoneAssumption
<1>0. /\ TypeOK /\ pc[c] = "items" /\ want[c] \in left[c] /\ req[c].items \in Baskets
      /\ Lines(req[c].items) \in SUBSET TicketTypes /\ Lines(req[c].items) # {}
      /\ "reserve" \in Ended \cup Phases
  BY DEF CallsInv, InsertItem, LocksOK, LockedOK, RequestsOK, Creating, Lines, Phases
<1>1. LineDone(c, "reserve", Lines(req[c].items))
  BY DEF InsertItem
<1>2. /\ req' = req /\ found' = found /\ todo' = todo /\ failed' = failed
      /\ excl' = excl /\ share' = [share EXCEPT ![want[c]] = @ \cup {c}]
      /\ draft' = draft /\ sold' = sold /\ orders' = orders
      /\ due' = due /\ late' = late
  BY DEF InsertItem, db, sweep
<1>3. /\ pc' \in [Calls -> Ended \cup Phases]
      /\ left' \in [Calls -> SUBSET TicketTypes]
      /\ want' \in [Calls -> TicketTypes \cup {None}]
      /\ \A d \in Calls \ {c} :
           pc'[d] = pc[d] /\ left'[d] = left[d] /\ want'[d] = want[d]
      /\ \/ /\ pc'[c] = "reserve" /\ left'[c] = Lines(req[c].items)
            /\ want'[c] \in left'[c]
         \/ /\ pc'[c] = "items" /\ left'[c] = left[c] \ {want[c]}
            /\ want'[c] \in left'[c]
  BY <1>0, <1>1, LineDoneStep
<1>4. TypeOK'
  BY <1>0, <1>2, <1>3 DEF TypeOK
<1>5. InventoryBounded' /\ MemoNamesOneOrder'
  BY <1>2 DEF CallsInv, InventoryBounded, MemoNamesOneOrder, Exists
<1>6. RequestsOK'
  BY <1>0, <1>2, <1>3 DEF CallsInv, TypeOK, RequestsOK, Idle, Ended, Creating, Exists
<1>7. LocksOK'
  <2>1. LocksOK /\ TypeOK
    BY DEF CallsInv
  <2>2. \A t \in TicketTypes : c \notin excl[t]
    BY <1>0, <2>1 DEF LocksOK, LockedOK
  <2>3. ASSUME NEW d \in Calls, d # c
        PROVE  LockedOK(d)'
    BY <1>2, <1>3, <2>1, <2>3 DEF LocksOK, LockedOK
  <2>4. LockedOK(c)'
    BY <1>0, <1>2, <1>3, <2>1, <2>2 DEF LocksOK, LockedOK
  <2> QED
    <3>1. \A t \in TicketTypes : \A d \in share'[t] : Inserted(d)'
      BY <1>0, <1>2, <1>3, <2>1 DEF LocksOK, Inserted, TypeOK
    <3> QED
      BY <1>2, <2>1, <2>3, <2>4, <3>1 DEF LocksOK
<1>8. DraftsOK'
  BY <1>0, <1>2, <1>3 DEF CallsInv, TypeOK, DraftsOK, Creating
<1>9. InsertsOK'
  BY <1>0, <1>2, <1>3 DEF CallsInv, TypeOK, InsertsOK, Inserted, Exists
<1>10. SweepsOK' /\ SweepAccounted'
  BY <1>2 DEF CallsInv, TypeOK, SweepsOK, SweepAccounted, Exists, Pending
<1> QED
  BY <1>4, <1>5, <1>6, <1>7, <1>8, <1>9, <1>10 DEF CallsInv

\* A line reserved or released: the row was free, is locked now, and the value
\* written to it is the committed one plus or minus the quantity of the line.
LEMMA WriteInv ==
  ASSUME CallsInv, NEW c \in Calls, NEW n \in Nat, NEW phase \in {"commit", "update"},
         UNCHANGED db, Blockers(c) = {}, Write(c, n), LineDone(c, phase, {}),
         n <= Total[want[c]],
         \/ /\ pc[c] = "reserve" /\ phase = "commit"
            /\ n = sold[want[c]] + req[c].items[want[c]]
         \/ /\ pc[c] = "release" /\ phase = "update"
            /\ n = sold[want[c]] - req[c].items[want[c]]
  PROVE  CallsInv'
<1> USE QuantityAssumption, NoneAssumption
<1>0. /\ TypeOK /\ want[c] \in left[c] /\ want[c] \in TicketTypes
      /\ left[c] \subseteq Lines(req[c].items)
      /\ phase \in Ended \cup Phases /\ {} \in SUBSET TicketTypes
      /\ LockedOK(c)
  BY DEF CallsInv, LocksOK, LockedOK, Phases, TypeOK
<1>1. excl[want[c]] = {}
  BY <1>0 DEF Blockers, TypeOK, LockedOK
<1>2. /\ req' = req /\ found' = found /\ todo' = todo /\ failed' = failed
      /\ excl' = [excl EXCEPT ![want[c]] = {c}] /\ share' = share
      /\ draft' = [draft EXCEPT ![c] = [@ EXCEPT ![want[c]] = n]]
      /\ sold' = sold /\ orders' = orders /\ due' = due /\ late' = late
  BY <1>1 DEF Write, db, sweep
<1>3. /\ pc' \in [Calls -> Ended \cup Phases]
      /\ left' \in [Calls -> SUBSET TicketTypes]
      /\ want' \in [Calls -> TicketTypes \cup {None}]
      /\ \A d \in Calls \ {c} :
           pc'[d] = pc[d] /\ left'[d] = left[d] /\ want'[d] = want[d]
      /\ left'[c] = left[c] \ {want[c]}
      /\ \/ pc'[c] = phase /\ left'[c] = {}
         \/ pc'[c] = pc[c] /\ want'[c] \in left'[c]
  <2>1. \/ left[c] = {want[c]} /\ pc'[c] = phase /\ left'[c] = {}
        \/ /\ pc'[c] = pc[c] /\ left'[c] = left[c] \ {want[c]}
           /\ want'[c] \in left'[c]
    BY <1>0, LineDoneStep
  <2> QED
    BY <1>0, <2>1, LineDoneStep
<1>4. TypeOK'
  BY <1>0, <1>2, <1>3 DEF TypeOK
<1>5. InventoryBounded' /\ MemoNamesOneOrder'
  BY <1>2 DEF CallsInv, InventoryBounded, MemoNamesOneOrder, Exists
<1>6. RequestsOK'
  BY <1>0, <1>2, <1>3 DEF CallsInv, TypeOK, RequestsOK, Idle, Ended, Creating, Exists
<1>7. LocksOK'
  <2>1. LocksOK
    BY DEF CallsInv
  <2>2. ASSUME NEW d \in Calls, d # c
        PROVE  LockedOK(d)'
    BY <1>0, <1>1, <1>2, <1>3, <2>1, <2>2 DEF LocksOK, LockedOK, TypeOK
  <2>3. LockedOK(c)'
    BY <1>0, <1>2, <1>3 DEF LockedOK, TypeOK
  <2> QED
    <3>1. \A t \in TicketTypes : \A d \in share'[t] : Inserted(d)'
      BY <1>0, <1>2, <1>3, <2>1 DEF LocksOK, Inserted, TypeOK
    <3> QED
      BY <1>0, <1>2, <2>1, <2>2, <2>3, <3>1 DEF LocksOK, TypeOK
<1>8. DraftsOK'
  <2>1. ASSUME NEW t \in TicketTypes, NEW d \in excl'[t], d # c
        PROVE  /\ draft'[d][t] = IF pc'[d] \in Creating THEN sold'[t] + req'[d].items[t]
                                                        ELSE sold'[t] - req'[d].items[t]
               /\ draft'[d][t] \in 0 .. Total[t]
    <3>1. d \in excl[t] /\ d \in Calls
      BY <1>0, <1>2, <2>1 DEF TypeOK
    <3>2. draft'[d] = draft[d] /\ pc'[d] = pc[d]
      BY <1>0, <1>2, <1>3, <2>1, <3>1 DEF TypeOK
    <3> QED
      BY <1>2, <3>1, <3>2 DEF CallsInv, DraftsOK
  <2>2. ASSUME NEW t \in TicketTypes, c \in excl'[t]
        PROVE  /\ draft'[c][t] = IF pc'[c] \in Creating THEN sold'[t] + req'[c].items[t]
                                                        ELSE sold'[t] - req'[c].items[t]
               /\ draft'[c][t] \in 0 .. Total[t]
    <3>0. pc'[c] \in Creating <=> pc[c] \in Creating
      BY <1>3 DEF Creating
    <3>1. CASE t = want[c]
      BY <1>0, <1>2, <1>3, <3>0, <3>1 DEF TypeOK, Creating
    <3>2. CASE t # want[c]
      BY <1>0, <1>2, <1>3, <2>2, <3>0, <3>2 DEF CallsInv, DraftsOK, TypeOK
    <3> QED
      BY <3>1, <3>2
  <2> QED
    BY <2>1, <2>2 DEF DraftsOK
<1>9. InsertsOK'
  BY <1>0, <1>2, <1>3 DEF CallsInv, TypeOK, InsertsOK, Inserted, Exists
<1>10. SweepsOK' /\ SweepAccounted'
  BY <1>2 DEF CallsInv, TypeOK, SweepsOK, SweepAccounted, Exists, Pending
<1> QED
  BY <1>4, <1>5, <1>6, <1>7, <1>8, <1>9, <1>10 DEF CallsInv

\* What a call in a line phase knows of its line.
LEMMA LineFacts ==
  ASSUME CallsInv, NEW c \in Calls, pc[c] \in {"reserve", "release"}
  PROVE  /\ want[c] \in TicketTypes
         /\ req[c].items \in Baskets
         /\ req[c].items[want[c]] \in Nat
         /\ sold[want[c]] \in Nat /\ Total[want[c]] \in Nat
         /\ sold[want[c]] <= Total[want[c]]
<1> USE QuantityAssumption, NoneAssumption
<1>1. want[c] \in TicketTypes
  BY DEF CallsInv, LocksOK, LockedOK, TypeOK
<1>2. req[c].items \in Baskets
  <2>1. CASE pc[c] = "reserve"
    BY <2>1 DEF CallsInv, RequestsOK, Creating
  <2>2. CASE pc[c] = "release"
    <3>1. /\ req[c].order \in OrderIds /\ Exists(req[c].order)
          /\ req[c].items = orders[req[c].order].items
      BY <2>2 DEF CallsInv, RequestsOK
    <3>2. orders[req[c].order] \in Order
      BY <3>1 DEF CallsInv, TypeOK, Exists
    <3> QED
      BY <3>1, <3>2 DEF Order
  <2> QED
    BY <2>1, <2>2
<1> QED
  BY <1>1, <1>2 DEF CallsInv, TypeOK, InventoryBounded

\* reserveTickets leaves room for what it writes, or rolls back.
LEMMA ReserveInv ==
  ASSUME CallsInv, NEW c \in Calls, Reserve(c)
  PROVE  CallsInv'
<1> DEFINE t == want[c]
           n == req[c].items[t]
<1>0. /\ pc[c] = "reserve" /\ Blockers(c) = {} /\ UNCHANGED db
      /\ "refused" \in Ended
  BY DEF Reserve, Ended
<1>1. CASE Room(t, n)
  <2>1. /\ sold[t] + n \in Nat /\ sold[t] + n <= Total[t]
        /\ Write(c, sold[t] + n) /\ LineDone(c, "commit", {})
    BY <1>0, <1>1, LineFacts DEF Reserve, Room
  <2> QED
    BY <1>0, <2>1, WriteInv
<1>2. CASE ~Room(t, n)
  <2>1. Abort(c, "refused")
    BY <1>2 DEF Reserve
  <2> QED
    BY <1>0, <2>1, AbortInv
<1> QED
  BY <1>1, <1>2

\* releaseTickets takes off no more than was sold, or rolls back.
LEMMA ReleaseInv ==
  ASSUME CallsInv, NEW c \in Calls, Release(c)
  PROVE  CallsInv'
<1> DEFINE t == want[c]
           n == req[c].items[t]
<1>0. /\ pc[c] = "release" /\ Blockers(c) = {} /\ UNCHANGED db
      /\ "refused" \in Ended
  BY DEF Release, Ended
<1>1. CASE Releasable(t, n)
  <2>1. /\ sold[t] - n \in Nat /\ sold[t] - n <= Total[t]
        /\ Write(c, sold[t] - n) /\ LineDone(c, "update", {})
    BY <1>0, <1>1, LineFacts DEF Release, Releasable
  <2> QED
    BY <1>0, <2>1, WriteInv
<1>2. CASE ~Releasable(t, n)
  <2>1. Abort(c, "refused")
    BY <1>2 DEF Release
  <2> QED
    BY <1>0, <2>1, AbortInv
<1> QED
  BY <1>1, <1>2

-------------------------------------------------------------------------------
(* Commits *)

\* What a create commits: the counters plus its basket, within the capacity.
LEMMA WrittenReserved ==
  ASSUME CallsInv, NEW c \in Calls, pc[c] = "commit"
  PROVE  /\ Written(c) = [t \in TicketTypes |-> sold[t] + req[c].items[t]]
         /\ \A t \in TicketTypes : Written(c)[t] \in 0 .. Total[t]
<1> USE QuantityAssumption
<1>0. req[c].items \in Baskets /\ left[c] = {} /\ LockedOK(c)
  BY DEF CallsInv, RequestsOK, LocksOK, LockedOK, Creating
<1> SUFFICES ASSUME NEW t \in TicketTypes
             PROVE  /\ Written(c)[t] = sold[t] + req[c].items[t]
                    /\ Written(c)[t] \in 0 .. Total[t]
  BY DEF Written
<1>1. CASE c \in excl[t]
  BY <1>1 DEF CallsInv, DraftsOK, Written, Creating
<1>2. CASE c \notin excl[t]
  <2>1. req[c].items[t] = 0
    BY <1>0, <1>2 DEF LockedOK, Lines
  <2> QED
    BY <1>2, <2>1 DEF CallsInv, TypeOK, InventoryBounded, Written
<1> QED
  BY <1>1, <1>2

\* What a cancellation commits: the counters minus the basket, not below zero.
LEMMA WrittenReleased ==
  ASSUME CallsInv, NEW c \in Calls, pc[c] = "update"
  PROVE  /\ Written(c) = [t \in TicketTypes |-> sold[t] - req[c].items[t]]
         /\ \A t \in TicketTypes : Written(c)[t] \in 0 .. Total[t]
         /\ req[c].items \in Baskets
<1> USE QuantityAssumption, NoneAssumption
<1>a. req[c].order \in OrderIds /\ Exists(req[c].order)
      /\ req[c].items = orders[req[c].order].items
  BY DEF CallsInv, RequestsOK
<1>b. orders[req[c].order] \in Order
  BY <1>a DEF CallsInv, TypeOK, Exists
<1>0. req[c].items \in Baskets /\ left[c] = {} /\ LockedOK(c)
  BY <1>a, <1>b DEF CallsInv, LocksOK, LockedOK, Order
<1> SUFFICES ASSUME NEW t \in TicketTypes
             PROVE  /\ Written(c)[t] = sold[t] - req[c].items[t]
                    /\ Written(c)[t] \in 0 .. Total[t]
  BY <1>0 DEF Written
<1>1. CASE c \in excl[t]
  BY <1>1 DEF CallsInv, DraftsOK, Written, Creating
<1>2. CASE c \notin excl[t]
  <2>1. req[c].items[t] = 0
    BY <1>0, <1>2 DEF LockedOK, Lines
  <2> QED
    BY <1>2, <2>1 DEF CallsInv, TypeOK, InventoryBounded, Written
<1> QED
  BY <1>1, <1>2

\* The counters another call has locked do not move when c commits.
LEMMA OthersLocked ==
  ASSUME CallsInv, NEW c \in Calls, NEW t \in TicketTypes, NEW d \in excl[t], d # c
  PROVE  Written(c)[t] = sold[t]
BY DEF CallsInv, LocksOK, Written

\* The commit of createOrderRecord: a new row, and the counters it reserved.
LEMMA CommitCreateInv ==
  ASSUME CallsInv, NEW c \in Calls, CommitCreate(c)
  PROVE  CallsInv'
<1> USE QuantityAssumption, NoneAssumption
<1> PICK new \in OrderIds : new = req[c].order
  BY DEF CallsInv, RequestsOK, CommitCreate, Creating
<1> DEFINE row == [status |-> "PENDING", items |-> req[c].items,
                   user |-> req[c].user, reason |-> None, tx |-> None]
<1>0. /\ pc[c] = "commit" /\ TypeOK
      /\ new \in OrderIds /\ ~Exists(new) /\ req[c].items \in Baskets
      /\ req[c].user \in Users
      /\ \A d \in Calls \ {c} : req[d].order # new
  BY DEF CallsInv, CommitCreate, RequestsOK, Creating
<1>1. /\ pc' = [pc EXCEPT ![c] = "ok"]
      /\ left' = [left EXCEPT ![c] = {}]
      /\ want' \in [Calls -> TicketTypes \cup {None}]
      /\ \A d \in Calls \ {c} : want'[d] = want[d]
  <2>1. Goto(c, "ok", {}) /\ "ok" \in Ended \cup Phases
    BY DEF CommitCreate, Finish, EndTransaction, Ended
  <2> QED
    BY <1>0, <2>1, GotoStep
<1>2. /\ req' = [req EXCEPT ![c] = NoRequest]
      /\ found' = [found EXCEPT ![c] = {}] /\ todo' = [todo EXCEPT ![c] = {}]
      /\ failed' = [failed EXCEPT ![c] = {}]
      /\ excl' = [t \in TicketTypes |-> excl[t] \ {c}]
      /\ share' = [t \in TicketTypes |-> share[t] \ {c}]
      /\ draft' = [draft EXCEPT ![c] = Empty]
      /\ sold' = Written(c) /\ orders' = [orders EXCEPT ![new] = row]
      /\ due' = due /\ late' = late
  BY DEF CommitCreate, Finish, EndTransaction
<1>3. row \in Order /\ row # None
  BY <1>0 DEF Order, Statuses, Reasons
<1>4. \A o \in OrderIds : o # new => orders'[o] = orders[o]
  BY <1>0, <1>2 DEF TypeOK
<1>5. Exists(new)' /\ orders'[new] = row
  BY <1>0, <1>2, <1>3 DEF TypeOK, Exists
<1> HIDE DEF row
<1>6. TypeOK'
  <2>1. sold' \in [TicketTypes -> Nat]
    BY <1>0, <1>2, WrittenReserved DEF TypeOK
  <2> QED
    BY <1>0, <1>1, <1>2, <1>3, <2>1, Blank DEF TypeOK, Empty, Ended
<1>7. InventoryBounded'
  BY <1>0, <1>2, WrittenReserved DEF InventoryBounded
<1>8. MemoNamesOneOrder'
  BY <1>0, <1>4, <1>5 DEF CallsInv, MemoNamesOneOrder, InsertsOK, Inserted, Exists
<1>9. RequestsOK'
  <2>1. ASSUME NEW d \in Calls, d # c
        PROVE  /\ Idle(d)' = Idle(d) /\ req'[d] = req[d] /\ pc'[d] = pc[d]
               /\ req[d].order \in OrderIds => orders'[req[d].order] = orders[req[d].order]
    BY <1>0, <1>1, <1>2, <1>4, <2>1 DEF TypeOK, Idle
  <2> QED
    BY <1>0, <1>1, <1>2, <2>1
       DEF CallsInv, TypeOK, RequestsOK, Idle, Ended, Creating, Exists, NoRequest, Asks
<1>10. LocksOK'
  BY <1>1, <1>2 DEF CallsInv, TypeOK, LocksOK, Inserted, LockedOK, Ended
<1>11. DraftsOK'
  <2>1. ASSUME NEW t \in TicketTypes, NEW d \in excl'[t]
        PROVE  /\ d \in excl[t] /\ d # c /\ d \in Calls
               /\ draft'[d] = draft[d] /\ pc'[d] = pc[d] /\ req'[d] = req[d]
               /\ sold'[t] = sold[t]
    BY <1>0, <1>1, <1>2, OthersLocked DEF TypeOK
  <2> QED
    BY <2>1 DEF CallsInv, DraftsOK
<1>12. InsertsOK'
  <2>1. \A d \in Calls : Inserted(d)' => d # c /\ Inserted(d) /\ req'[d] = req[d]
    BY <1>0, <1>1, <1>2 DEF TypeOK, Inserted, Ended
  <2>2. Inserted(c)
    BY <1>0 DEF Inserted
  <2> QED
    BY <1>0, <1>4, <2>1, <2>2 DEF CallsInv, InsertsOK, Exists
<1>13. SweepsOK' /\ SweepAccounted'
  BY <1>0, <1>1, <1>2, <1>4, <1>5
     DEF CallsInv, TypeOK, SweepsOK, SweepAccounted, Exists, Pending
<1> QED
  BY <1>6, <1>7, <1>8, <1>9, <1>10, <1>11, <1>12, <1>13 DEF CallsInv

\* The commit of cancel or cancelAndRelease: a cancelled row, and the counters it
\* released.
LEMMA CommitCancelInv ==
  ASSUME CallsInv, NEW c \in Calls, CommitCancel(c)
  PROVE  CallsInv'
<1> USE QuantityAssumption, NoneAssumption
<1> PICK o \in OrderIds : o = req[c].order
  BY DEF CallsInv, RequestsOK, CommitCancel
<1> DEFINE job == req[c].op = "expire"
           reason == IF job THEN "EXPIRED"
                     ELSE IF req[c].user \in Admins THEN "ADMIN" ELSE "MANUAL"
           row == Updated(orders[o], "CANCELLED", reason, orders[o].tx)
           phase == IF job THEN "pick" ELSE "notify"
           rest == IF job THEN JobRun ELSE req[c]
<1>0. /\ pc[c] = "update" /\ TypeOK /\ o \in OrderIds /\ Exists(o)
      /\ req[c].op \in {"cancel", "expire"}
      /\ orders[o] \in Order /\ req[c].items = orders[o].items
  BY DEF CallsInv, TypeOK, CommitCancel, RequestsOK, Exists
<1>1. /\ EndTransaction(c, phase, rest) /\ phase \in Ended \cup Phases
  BY DEF CommitCancel, AfterCancel, Phases
<1>2. /\ pc' = [pc EXCEPT ![c] = phase]
      /\ left' = [left EXCEPT ![c] = {}]
      /\ want' \in [Calls -> TicketTypes \cup {None}]
      /\ \A d \in Calls \ {c} : want'[d] = want[d]
  <2> HIDE DEF phase, rest
  <2> QED
    BY <1>0, <1>1, GotoStep DEF EndTransaction
<1>3. /\ req' = [req EXCEPT ![c] = rest]
      /\ found' = found /\ todo' = todo /\ failed' = failed
      /\ excl' = [t \in TicketTypes |-> excl[t] \ {c}]
      /\ share' = [t \in TicketTypes |-> share[t] \ {c}]
      /\ draft' = [draft EXCEPT ![c] = Empty]
      /\ sold' = Written(c) /\ orders' = [orders EXCEPT ![o] = row]
      /\ due' = due /\ late' \in SUBSET OrderIds
  <2>1. late \in SUBSET OrderIds
    BY <1>0 DEF TypeOK
  <2> QED
    BY <1>1, <2>1 DEF CommitCancel, AfterCancel, CancelRow, EndTransaction, sweep
<1>4. /\ row \in Order /\ row # None /\ row.items = orders[o].items
      /\ row.status = "CANCELLED" /\ row.tx = orders[o].tx
  BY <1>0 DEF Order, Statuses, Reasons, Updated
<1>5. \A x \in OrderIds : x # o => orders'[x] = orders[x]
  BY <1>0, <1>3 DEF TypeOK
<1>6. orders'[o] = row
  BY <1>0, <1>3 DEF TypeOK
<1>7. rest \in Request /\ phase \in {"pick", "notify"}
  BY <1>0, Blank DEF TypeOK, Request
<1>8. \A x \in OrderIds : Exists(x)' = Exists(x)
  BY <1>0, <1>4, <1>5, <1>6 DEF Exists
<1>9. \A x \in OrderIds : Exists(x) => orders'[x].items = orders[x].items
  BY <1>4, <1>5, <1>6
<1>10. TypeOK'
  <2>1. sold' \in [TicketTypes -> Nat]
    BY <1>0, <1>3, WrittenReleased DEF TypeOK
  <2> HIDE DEF row, phase, rest
  <2> QED
    BY <1>0, <1>1, <1>2, <1>3, <1>4, <1>7, <2>1 DEF TypeOK, Empty
<1>11. InventoryBounded'
  BY <1>0, <1>3, WrittenReleased DEF InventoryBounded
<1>12. MemoNamesOneOrder'
  BY <1>8 DEF CallsInv, MemoNamesOneOrder
<1>13. ASSUME NEW d \in Calls, d # c
       PROVE  pc'[d] = pc[d] /\ req'[d] = req[d] /\ left'[d] = left[d] /\ want'[d] = want[d]
  BY <1>0, <1>2, <1>3, <1>13 DEF TypeOK
<1>14. RequestsOK'
  <2>1. pc'[c] = phase /\ req'[c] = rest
    BY <1>0, <1>2, <1>3 DEF TypeOK
  <2> QED
    BY <1>0, <1>8, <1>9, <1>13, <2>1, Blank DEF CallsInv, RequestsOK, Idle, Ended, Creating
<1>15. LocksOK'
  <2> HIDE DEF row, phase, rest
  <2> QED
    BY <1>2, <1>3, <1>7 DEF CallsInv, TypeOK, LocksOK, Inserted, LockedOK
<1>16. DraftsOK'
  <2>1. ASSUME NEW t \in TicketTypes, NEW d \in excl'[t]
        PROVE  /\ d \in excl[t] /\ d # c /\ d \in Calls
               /\ draft'[d] = draft[d] /\ pc'[d] = pc[d] /\ req'[d] = req[d]
               /\ sold'[t] = sold[t]
    <3>1. d \in excl[t] /\ d # c /\ d \in Calls
      BY <1>0, <1>3 DEF TypeOK
    <3> QED
      BY <1>0, <1>3, <1>13, <3>1, OthersLocked DEF TypeOK
  <2> QED
    BY <2>1 DEF CallsInv, DraftsOK
<1>17. InsertsOK'
  <2>1. ~Inserted(c)'
    BY <1>0, <1>2, <1>7 DEF TypeOK, Inserted
  <2> QED
    BY <1>8, <1>13, <2>1 DEF CallsInv, InsertsOK, Inserted
<1>18. SweepsOK' /\ SweepAccounted'
  <2>1. ~Pending(o)' /\ \A x \in OrderIds : Pending(x)' => Pending(x)
    BY <1>4, <1>5, <1>6, <1>8 DEF Pending
  <2>2. SweepAccounted'
    <3> SUFFICES ASSUME NEW d \in Calls, NEW x \in found[d], Pending(x)'
                 PROVE  x \in todo[d] \cup failed[d] \cup {req'[d].order}
      BY <1>3 DEF SweepAccounted
    <3>1. x # o /\ Pending(x)
      BY <1>0, <2>1 DEF TypeOK
    <3> QED
      BY <1>13, <3>1 DEF CallsInv, SweepAccounted
  <2> QED
    BY <1>0, <1>3, <1>8, <2>2 DEF CallsInv, TypeOK, SweepsOK
<1> QED
  BY <1>10, <1>11, <1>12, <1>14, <1>15, <1>16, <1>17, <1>18 DEF CallsInv

-------------------------------------------------------------------------------
(* The other calls, and the environment *)

\* A cancellation starts with the basket of an order that exists.
LEMMA StartCancelInv ==
  ASSUME CallsInv, NEW c \in Calls, NEW u \in Users, NEW o \in OrderIds, StartCancel(c, u, o)
  PROVE  CallsInv'
<1> USE QuantityAssumption, NoneAssumption
<1>a. orders[o] \in Order /\ pc[c] \in Ended /\ req[c] = NoRequest /\ Exists(o) /\ TypeOK
  BY DEF CallsInv, TypeOK, RequestsOK, StartCancel, Exists, Idle
<1>0. /\ Lines(orders[o].items) \in SUBSET TicketTypes /\ Lines(orders[o].items) # {}
      /\ "release" \in Ended \cup Phases
  BY <1>a DEF Lines, Order, Phases
<1>1. /\ pc' = [pc EXCEPT ![c] = "release"]
      /\ left' = [left EXCEPT ![c] = Lines(orders[o].items)]
      /\ want' \in [Calls -> TicketTypes \cup {None}]
      /\ want'[c] \in Lines(orders[o].items)
      /\ \A d \in Calls \ {c} : want'[d] = want[d]
      /\ req' = [req EXCEPT ![c] = Asks("cancel", u, o, orders[o].items, None)]
      /\ found' = found /\ todo' = todo /\ failed' = failed
      /\ excl' = excl /\ share' = share /\ draft' = draft
      /\ sold' = sold /\ orders' = orders /\ due' = due /\ late' = late
  BY <1>a, <1>0, GotoStep DEF StartCancel, db, locks, sweep
<1>r. /\ req'[c].op = "cancel" /\ req'[c].user = u /\ req'[c].order = o
      /\ req'[c].items = orders[o].items /\ req'[c].tx = None
      /\ \A d \in Calls \ {c} : req'[d] = req[d]
      /\ req' \in [Calls -> Request]
  BY <1>a, <1>1 DEF TypeOK, Asks, Request, Order
<1>2. TypeOK'
  BY <1>a, <1>0, <1>1, <1>r DEF TypeOK, Order, Phases
<1>3. InventoryBounded' /\ MemoNamesOneOrder'
  BY <1>1 DEF CallsInv, InventoryBounded, MemoNamesOneOrder, Exists
<1>4. RequestsOK'
  BY <1>a, <1>1, <1>r DEF CallsInv, TypeOK, RequestsOK, Idle, Ended, Creating, Exists
<1>5. LocksOK'
  BY <1>a, <1>0, <1>1, <1>r DEF CallsInv, TypeOK, LocksOK, Inserted, LockedOK, Ended
<1>6. DraftsOK'
  <2>1. \A t \in TicketTypes : c \notin excl[t]
    BY <1>a DEF CallsInv, LocksOK, LockedOK, Ended
  <2> QED
    BY <1>a, <1>1, <2>1 DEF CallsInv, TypeOK, DraftsOK
<1>7. InsertsOK'
  BY <1>1, <1>r DEF CallsInv, TypeOK, InsertsOK, Inserted, Exists
<1>8. SweepsOK' /\ SweepAccounted'
  BY <1>a, <1>1, Blank, <1>r DEF CallsInv, TypeOK, SweepsOK, SweepAccounted, Exists, Pending
<1> QED
  BY <1>2, <1>3, <1>4, <1>5, <1>6, <1>7, <1>8 DEF CallsInv

\* The expiry job starts with every order that is due.
LEMMA StartExpiryInv ==
  ASSUME CallsInv, NEW c \in Calls, StartExpiry(c)
  PROVE  CallsInv'
<1> USE QuantityAssumption, NoneAssumption
<1>0. pc[c] \in Ended /\ TypeOK /\ {} \in SUBSET TicketTypes /\ "pick" \in Ended \cup Phases
  BY DEF CallsInv, StartExpiry, Idle, Phases
<1>1. /\ pc' = [pc EXCEPT ![c] = "pick"]
      /\ left' = [left EXCEPT ![c] = {}]
      /\ want' \in [Calls -> TicketTypes \cup {None}]
      /\ \A d \in Calls \ {c} : want'[d] = want[d]
      /\ req' = [req EXCEPT ![c] = JobRun]
      /\ found' = [found EXCEPT ![c] = {o \in due : Pending(o)}]
      /\ todo' = [todo EXCEPT ![c] = {o \in due : Pending(o)}]
      /\ failed' = [failed EXCEPT ![c] = {}]
      /\ excl' = excl /\ share' = share /\ draft' = draft
      /\ sold' = sold /\ orders' = orders /\ due' = due /\ late' = late
  BY <1>0, GotoStep DEF StartExpiry, db, locks
<1>2. TypeOK'
  BY <1>0, <1>1, Blank DEF TypeOK, Request, Phases
<1>3. InventoryBounded' /\ MemoNamesOneOrder'
  BY <1>1 DEF CallsInv, InventoryBounded, MemoNamesOneOrder, Exists
<1>4. RequestsOK'
  BY <1>0, <1>1, Blank DEF CallsInv, TypeOK, RequestsOK, Idle, Ended, Creating, Exists
<1>5. LocksOK'
  BY <1>0, <1>1 DEF CallsInv, TypeOK, LocksOK, Inserted, LockedOK, Ended
<1>6. DraftsOK'
  <2>1. \A t \in TicketTypes : c \notin excl[t]
    BY <1>0 DEF CallsInv, LocksOK, LockedOK, Ended
  <2> QED
    BY <1>0, <1>1, <2>1 DEF CallsInv, TypeOK, DraftsOK, Creating
<1>7. InsertsOK'
  BY <1>0, <1>1 DEF CallsInv, TypeOK, InsertsOK, Inserted, Exists
<1>8. SweepsOK' /\ SweepAccounted'
  BY <1>0, <1>1 DEF CallsInv, TypeOK, SweepsOK, SweepAccounted, Exists, Pending
<1> QED
  BY <1>2, <1>3, <1>4, <1>5, <1>6, <1>7, <1>8 DEF CallsInv

\* The expiry job takes an order off its list or ends with an empty one.
LEMMA PickExpiredInv ==
  ASSUME CallsInv, NEW c \in Calls, PickExpired(c)
  PROVE  CallsInv'
<1> USE QuantityAssumption, NoneAssumption
<1>1. CASE Finish(c, "ok")
  BY <1>1, FinishInv DEF PickExpired, Ended
<1>2. ASSUME NEW o \in todo[c],
             todo' = [todo EXCEPT ![c] = @ \ {o}],
             req' = [req EXCEPT ![c] = Asks("expire", None, o, orders[o].items, None)],
             Goto(c, "release", Lines(orders[o].items)),
             UNCHANGED <<locks, found, failed>>
      PROVE  CallsInv'
  <2>a. /\ o \in OrderIds /\ Exists(o) /\ TypeOK
        /\ pc[c] = "pick" /\ req[c].order = None
    BY Blank DEF CallsInv, TypeOK, RequestsOK, SweepsOK, PickExpired
  <2>b. orders[o] \in Order
    BY <2>a DEF TypeOK, Exists
  <2>0. /\ Lines(orders[o].items) \in SUBSET TicketTypes /\ Lines(orders[o].items) # {}
        /\ "release" \in Ended \cup Phases
    BY <2>b DEF Lines, Order, Phases
  <2>1. /\ pc' = [pc EXCEPT ![c] = "release"]
        /\ left' = [left EXCEPT ![c] = Lines(orders[o].items)]
        /\ want' \in [Calls -> TicketTypes \cup {None}]
        /\ want'[c] \in Lines(orders[o].items)
        /\ \A d \in Calls \ {c} : want'[d] = want[d]
        /\ found' = found /\ failed' = failed
        /\ excl' = excl /\ share' = share /\ draft' = draft
        /\ sold' = sold /\ orders' = orders /\ due' = due /\ late' = late
    BY <1>2, <2>a, <2>0, GotoStep DEF PickExpired, db, locks
  <2>r. /\ req'[c].op = "expire" /\ req'[c].user = None /\ req'[c].order = o
        /\ req'[c].items = orders[o].items /\ req'[c].tx = None
        /\ \A d \in Calls \ {c} : req'[d] = req[d]
        /\ req' \in [Calls -> Request]
    BY <1>2, <2>a, <2>b DEF TypeOK, Asks, Request, Order
  <2>2. TypeOK'
    BY <1>2, <2>a, <2>b, <2>0, <2>1, <2>r DEF TypeOK, Order, Phases
  <2>3. InventoryBounded' /\ MemoNamesOneOrder'
    BY <2>1 DEF CallsInv, InventoryBounded, MemoNamesOneOrder, Exists
  <2>4. RequestsOK'
    BY <1>2, <2>a, <2>1, <2>r DEF CallsInv, TypeOK, RequestsOK, Idle, Ended, Creating, Exists
  <2>5. LocksOK'
    BY <1>2, <2>a, <2>0, <2>1, <2>r DEF CallsInv, TypeOK, LocksOK, Inserted, LockedOK, Ended
  <2>6. DraftsOK'
    <3>1. \A t \in TicketTypes : c \notin excl[t]
      BY <2>a DEF CallsInv, LocksOK, LockedOK
    <3> QED
      BY <1>2, <2>a, <2>1, <2>r, <3>1 DEF CallsInv, TypeOK, DraftsOK
  <2>7. InsertsOK'
    BY <1>2, <2>a, <2>1, <2>r DEF CallsInv, TypeOK, InsertsOK, Inserted, Exists
  <2>8. SweepsOK' /\ SweepAccounted'
    BY <1>2, <2>a, <2>1, <2>r DEF CallsInv, TypeOK, SweepsOK, SweepAccounted, Exists, Pending
  <2> QED
    BY <2>2, <2>3, <2>4, <2>5, <2>6, <2>7, <2>8 DEF CallsInv
<1> QED
  BY <1>1, <1>2 DEF PickExpired

\* A payment starts with an order whose memo it carries and whose total it covers.
LEMMA StartWebhookInv ==
  ASSUME CallsInv, NEW c \in Calls, NEW p \in Payments, NEW o \in OrderIds,
         StartWebhook(c, p, o)
  PROVE  CallsInv'
<1> USE QuantityAssumption, NoneAssumption
<1>0. /\ pc[c] \in Ended /\ req[c] = NoRequest /\ TypeOK
      /\ {} \in SUBSET TicketTypes /\ "compare" \in Ended \cup Phases
  BY DEF CallsInv, StartWebhook, Idle, Phases, RequestsOK
<1>1. /\ pc' = [pc EXCEPT ![c] = "compare"]
      /\ left' = [left EXCEPT ![c] = {}]
      /\ want' \in [Calls -> TicketTypes \cup {None}]
      /\ \A d \in Calls \ {c} : want'[d] = want[d]
      /\ req' = [req EXCEPT ![c] = Asks("pay", None, o, Empty, p)]
      /\ found' = found /\ todo' = todo /\ failed' = failed
      /\ excl' = excl /\ share' = share /\ draft' = draft
      /\ sold' = sold /\ orders' = orders /\ due' = due /\ late' = late
  BY <1>0, GotoStep DEF StartWebhook, db, locks, sweep
<1>r. /\ req'[c].op = "pay" /\ req'[c].user = None /\ req'[c].order = o
      /\ req'[c].items = Empty /\ req'[c].tx = p
      /\ \A d \in Calls \ {c} : req'[d] = req[d]
      /\ req' \in [Calls -> Request]
  <2>1. orders[o] \in Order
    BY <1>0 DEF TypeOK, StartWebhook, Exists
  <2> QED
    BY <1>0, <1>1, <2>1 DEF TypeOK, Asks, Request, Order
<1>2. TypeOK'
  BY <1>0, <1>1, <1>r DEF TypeOK, Phases
<1>3. InventoryBounded' /\ MemoNamesOneOrder'
  BY <1>1 DEF CallsInv, InventoryBounded, MemoNamesOneOrder, Exists
<1>4. RequestsOK'
  BY <1>0, <1>1, <1>r DEF CallsInv, TypeOK, RequestsOK, Idle, Ended, Creating, Exists, StartWebhook
<1>5. LocksOK'
  BY <1>0, <1>1, <1>r DEF CallsInv, TypeOK, LocksOK, Inserted, LockedOK, Ended
<1>6. DraftsOK'
  <2>1. \A t \in TicketTypes : c \notin excl[t]
    BY <1>0, <1>r DEF CallsInv, LocksOK, LockedOK, Ended
  <2> QED
    BY <1>0, <1>1, <2>1, <1>r DEF CallsInv, TypeOK, DraftsOK
<1>7. InsertsOK'
  BY <1>0, <1>1, <1>r DEF CallsInv, TypeOK, InsertsOK, Inserted, Exists
<1>8. SweepsOK' /\ SweepAccounted'
  BY <1>0, <1>1, Blank, <1>r DEF CallsInv, TypeOK, SweepsOK, SweepAccounted, Exists, Pending
<1> QED
  BY <1>2, <1>3, <1>4, <1>5, <1>6, <1>7, <1>8 DEF CallsInv

\* The comparison of a save changes no row.
LEMMA ComparePaymentInv ==
  ASSUME CallsInv, NEW c \in Calls, ComparePayment(c)
  PROVE  CallsInv'
<1> USE QuantityAssumption, NoneAssumption
<1> PICK columns \in SUBSET Columns :
      req' = [req EXCEPT ![c] = Writing(@, columns)]
  BY DEF ComparePayment
<1>0. /\ pc[c] = "compare" /\ TypeOK
      /\ {} \in SUBSET TicketTypes /\ "save" \in Ended \cup Phases
  BY DEF CallsInv, ComparePayment, Phases
<1>1. /\ pc' = [pc EXCEPT ![c] = "save"]
      /\ left' = [left EXCEPT ![c] = {}]
      /\ want' \in [Calls -> TicketTypes \cup {None}]
      /\ \A d \in Calls \ {c} : want'[d] = want[d]
      /\ found' = found /\ todo' = todo /\ failed' = failed
      /\ excl' = excl /\ share' = share /\ draft' = draft
      /\ sold' = sold /\ orders' = orders /\ due' = due /\ late' = late
  BY <1>0, GotoStep DEF ComparePayment, db, locks, sweep
<1>2. /\ \A d \in Calls \ {c} : req'[d] = req[d] /\ pc'[d] = pc[d]
      /\ pc'[c] = "save" /\ req'[c] = Writing(req[c], columns) /\ req[c] \in Request
  BY <1>0, <1>1 DEF TypeOK
<1>3. /\ req'[c].op = req[c].op /\ req'[c].order = req[c].order
      /\ req'[c].items = req[c].items /\ req'[c].tx = req[c].tx
      /\ req'[c].user = req[c].user /\ req'[c] \in Request
  BY <1>2 DEF Request, Writing
<1>4. TypeOK'
  <2>1. req' \in [Calls -> Request]
    BY <1>0, <1>2, <1>3 DEF TypeOK
  <2> QED
    BY <1>0, <1>1, <2>1 DEF TypeOK
<1>5. InventoryBounded' /\ MemoNamesOneOrder'
  BY <1>1 DEF CallsInv, InventoryBounded, MemoNamesOneOrder, Exists
<1>6. RequestsOK'
  BY <1>0, <1>1, <1>2, <1>3 DEF CallsInv, TypeOK, RequestsOK, Idle, Ended, Creating, Exists
<1>7. LocksOK'
  BY <1>0, <1>1, <1>2, <1>3 DEF CallsInv, TypeOK, LocksOK, Inserted, LockedOK
<1>8. DraftsOK'
  <2>1. \A t \in TicketTypes : c \notin excl[t]
    BY <1>0 DEF CallsInv, LocksOK, LockedOK
  <2> QED
    BY <1>0, <1>1, <1>2, <2>1 DEF CallsInv, TypeOK, DraftsOK
<1>9. InsertsOK'
  BY <1>0, <1>1, <1>2 DEF CallsInv, TypeOK, InsertsOK, Inserted, Exists
<1>10. SweepsOK' /\ SweepAccounted'
  BY <1>0, <1>1, <1>2, <1>3 DEF CallsInv, TypeOK, SweepsOK, SweepAccounted, Exists, Pending
<1> QED
  BY <1>4, <1>5, <1>6, <1>7, <1>8, <1>9, <1>10 DEF CallsInv

\* A saved payment keeps the basket and the memo of its order.
LEMMA SavePaymentInv ==
  ASSUME CallsInv, NEW c \in Calls, SavePayment(c)
  PROVE  CallsInv'
<1> USE QuantityAssumption, NoneAssumption
<1> PICK o \in OrderIds : o = req[c].order
  BY DEF CallsInv, RequestsOK, SavePayment
<1> DEFINE p == req[c].tx
           clash == "tx" \in req[c].columns /\ \E x \in OrderIds \ {o} : Exists(x) /\ orders[x].tx = p
           row == Saved(orders[o], req[c])
<1>0. /\ pc[c] = "save" /\ TypeOK /\ Exists(o) /\ p \in Payments /\ "ok" \in Ended
  BY DEF CallsInv, RequestsOK, SavePayment, Ended
<1>1. CASE clash
  BY <1>1, FinishInv DEF SavePayment, Ended, db
<1>2. CASE ~clash
  <2>1. /\ Finish(c, "ok") /\ sold' = sold /\ due' = due
        /\ late' \in SUBSET OrderIds
        /\ orders' = [orders EXCEPT ![o] = row]
    BY <1>0, <1>2 DEF SavePayment, TypeOK
  <2>2. /\ pc' = [pc EXCEPT ![c] = "ok"]
        /\ left' = [left EXCEPT ![c] = {}]
        /\ want' \in [Calls -> TicketTypes \cup {None}]
        /\ \A d \in Calls \ {c} : want'[d] = want[d]
    BY <1>0, <2>1, GotoStep DEF Finish, EndTransaction
  <2>3. /\ req' = [req EXCEPT ![c] = NoRequest]
        /\ found' = [found EXCEPT ![c] = {}] /\ todo' = [todo EXCEPT ![c] = {}]
        /\ failed' = [failed EXCEPT ![c] = {}]
        /\ excl' = [t \in TicketTypes |-> excl[t] \ {c}]
        /\ share' = [t \in TicketTypes |-> share[t] \ {c}]
        /\ draft' = [draft EXCEPT ![c] = Empty]
    BY <2>1 DEF Finish, EndTransaction
  <2>4. /\ row \in Order /\ row # None /\ row.items = orders[o].items
        /\ row.status \in {"PAID", orders[o].status} /\ orders'[o] = row
        /\ \A x \in OrderIds : x # o => orders'[x] = orders[x]
    <3>1. orders[o] \in Order
      BY <1>0 DEF TypeOK, Exists
    <3>2. /\ row \in Order /\ row.items = orders[o].items
          /\ row.status \in {"PAID", orders[o].status}
      BY <1>0, <3>1 DEF Order, Statuses, Saved, Updated, TypeOK, Request
    <3> HIDE DEF row
    <3> QED
      BY <1>0, <2>1, <3>2 DEF TypeOK
  <2>5. /\ \A x \in OrderIds : Exists(x)' = Exists(x)
        /\ \A x \in OrderIds : Exists(x) => orders'[x].items = orders[x].items
        /\ \A x \in OrderIds : Pending(x)' => Pending(x)
    BY <1>0, <2>4 DEF Exists, Pending
  <2> HIDE DEF row, p, clash
  <2>6. TypeOK'
    BY <1>0, <2>1, <2>2, <2>3, <2>4, Blank DEF TypeOK, Empty
  <2>7. InventoryBounded' /\ MemoNamesOneOrder'
    BY <2>1, <2>5 DEF CallsInv, InventoryBounded, MemoNamesOneOrder
  <2>8. ASSUME NEW d \in Calls, d # c
        PROVE  pc'[d] = pc[d] /\ req'[d] = req[d]
    BY <1>0, <2>2, <2>3, <2>8 DEF TypeOK
  <2>9. RequestsOK'
    <3>1. pc'[c] = "ok" /\ req'[c] = NoRequest
      BY <1>0, <2>2, <2>3 DEF TypeOK
    <3> QED
      BY <2>5, <2>8, <3>1, Blank DEF CallsInv, RequestsOK, Idle, Ended, Creating
  <2>10. LocksOK'
    BY <2>2, <2>3 DEF CallsInv, TypeOK, LocksOK, Inserted, LockedOK, Ended
  <2>11. DraftsOK'
    BY <2>1, <2>2, <2>3 DEF CallsInv, TypeOK, DraftsOK, Creating
  <2>12. InsertsOK'
    BY <1>0, <2>2, <2>5, <2>8 DEF CallsInv, TypeOK, InsertsOK, Inserted, Ended
  <2>13. SweepsOK' /\ SweepAccounted'
    BY <1>0, <2>3, <2>5, <2>8 DEF CallsInv, TypeOK, SweepsOK, SweepAccounted
  <2> QED
    BY <2>6, <2>7, <2>9, <2>10, <2>11, <2>12, <2>13 DEF CallsInv
<1> QED
  BY <1>1, <1>2

\* A deadline that passes changes nothing the invariant reads.
LEMMA DeadlinePassesInv ==
  ASSUME CallsInv, NEW o \in OrderIds, DeadlinePasses(o)
  PROVE  CallsInv'
BY DEF CallsInv, DeadlinePasses, local, locks, sweep, TypeOK, InventoryBounded, RequestsOK,
       LocksOK, LockedOK, DraftsOK, MemoNamesOneOrder, InsertsOK, SweepsOK,
       SweepAccounted, Exists, Pending, Idle, Inserted

\* The victim of a deadlock is rolled back like any transaction that throws.
LEMMA DeadlockVictimInv ==
  ASSUME CallsInv, NEW c \in Calls, DeadlockVictim(c)
  PROVE  CallsInv'
<1>1. PICK S \in SUBSET Calls : c \in S /\ Stuck(S)
  BY DEF DeadlockVictim, Cycle
<1>2. Blockers(c) # {}
  BY <1>1 DEF Stuck
<1>3. pc[c] \in {"order", "items", "reserve", "release"}
  BY <1>2 DEF Blockers
<1> QED
  BY <1>3, AbortInv DEF DeadlockVictim, Ended

\* A restart ends every call and frees every lock.
LEMMA RestartInv == CallsInv /\ Restart => CallsInv'
<1> SUFFICES ASSUME CallsInv, Restart PROVE CallsInv'
  OBVIOUS
<1> USE QuantityAssumption, NoneAssumption
<1>0. sold' = sold /\ orders' = orders /\ due' = due /\ late' = late
  BY DEF Restart, db
<1>1. \A c \in Calls : pc'[c] \in Ended
  BY DEF Restart, Idle, Ended
<1>2. TypeOK'
  BY <1>0, <1>1, Blank DEF CallsInv, Restart, TypeOK, Empty
<1>3. InventoryBounded' /\ MemoNamesOneOrder'
  BY <1>0 DEF CallsInv, InventoryBounded, MemoNamesOneOrder, Exists
<1>4. RequestsOK'
  BY <1>1 DEF Restart, RequestsOK, Idle, Ended, Creating
<1>5. LocksOK' /\ DraftsOK'
  BY <1>1 DEF Restart, LocksOK, LockedOK, DraftsOK, Ended
<1>6. InsertsOK' /\ SweepsOK' /\ SweepAccounted'
  BY <1>1 DEF Restart, InsertsOK, SweepsOK, SweepAccounted, Inserted, Ended
<1> QED
  BY <1>2, <1>3, <1>4, <1>5, <1>6 DEF CallsInv

-------------------------------------------------------------------------------
(* Every step preserves the invariant *)

\* Every step preserves the invariant, one lemma for each action.
LEMMA NextCallsInv == CallsInv /\ [Next]_vars => CallsInv'
<1> SUFFICES ASSUME CallsInv, [Next]_vars PROVE CallsInv'
  OBVIOUS
<1>1. ASSUME NEW c \in Calls, Arrive(c)
      PROVE  CallsInv'
  <2>1. ASSUME NEW u \in Users, NEW b \in Baskets, NEW o \in OrderIds,
               StartCreate(c, u, b, o)
        PROVE  CallsInv'
    BY <2>1, StartCreateInv
  <2>2. ASSUME NEW u \in Users, NEW old \in OrderIds, NEW o \in OrderIds,
               StartRetry(c, u, old, o)
        PROVE  CallsInv'
    <3>1. orders[old].items \in Baskets /\ StartCreate(c, u, orders[old].items, o)
      BY <2>2 DEF StartRetry, Exists, CallsInv, TypeOK, Order
    <3> QED
      BY <3>1, StartCreateInv
  <2>3. ASSUME NEW u \in Users, NEW o \in OrderIds, StartCancel(c, u, o)
        PROVE  CallsInv'
    BY <2>3, StartCancelInv
  <2>4. CASE StartExpiry(c)
    BY <2>4, StartExpiryInv
  <2>5. ASSUME NEW p \in Payments, NEW o \in OrderIds, StartWebhook(c, p, o)
        PROVE  CallsInv'
    BY <2>5, StartWebhookInv
  <2> QED
    BY <1>1, <2>1, <2>2, <2>3, <2>4, <2>5 DEF Arrive
<1>2. ASSUME NEW c \in Calls, LockStep(c)
      PROVE  CallsInv'
  BY <1>2, InsertOrderInv, InsertItemInv, ReserveInv, ReleaseInv DEF LockStep
<1>3. ASSUME NEW c \in Calls, FreeStep(c)
      PROVE  CallsInv'
  <2>1. CASE Notify(c)
    BY <2>1, FinishInv DEF Notify, Ended
  <2> QED
    BY <1>3, <2>1, CheckAvailabilityInv, CommitCreateInv, CommitCancelInv,
       PickExpiredInv, ComparePaymentInv, SavePaymentInv DEF FreeStep
<1>4. ASSUME NEW c \in Calls, DeadlockVictim(c)
      PROVE  CallsInv'
  BY <1>4, DeadlockVictimInv
<1>5. ASSUME NEW o \in OrderIds, DeadlinePasses(o)
      PROVE  CallsInv'
  BY <1>5, DeadlinePassesInv
<1>6. CASE Restart
  BY <1>6, RestartInv
<1>7. CASE UNCHANGED vars
  BY <1>7 DEF vars, db, locks, local, sweep, CallsInv, TypeOK, InventoryBounded,
     RequestsOK, LocksOK, LockedOK, DraftsOK, MemoNamesOneOrder, InsertsOK,
     SweepsOK, SweepAccounted, Exists, Pending, Idle, Inserted
<1> QED
  BY <1>1, <1>2, <1>3, <1>4, <1>5, <1>6, <1>7 DEF Next

\* The inductive invariant: each locked row has one holder, whose draft is the committed
\* counter plus or minus its line.
THEOREM SpecCallsInv == Spec => []CallsInv
BY InitCallsInv, NextCallsInv, PTL DEF Spec

\* Every variable of every instance keeps its type.
THEOREM SpecTypeOK == Spec => []TypeOK
<1>1. CallsInv => TypeOK
  BY DEF CallsInv
<1> QED
  BY <1>1, SpecCallsInv, PTL

\* The locks, the check under them and the rollbacks of reserveTickets and
\* releaseTickets keep soldQuantity between 0 and totalQuantity, for any number
\* of calls, ticket types and orders.
THEOREM SpecInventoryBounded == Spec => []InventoryBounded
<1>1. CallsInv => InventoryBounded
  BY DEF CallsInv
<1> QED
  BY <1>1, SpecCallsInv, PTL

\* The webhook finds at most one order by memo, whatever ids share a memo.
THEOREM SpecMemoNamesOneOrder == Spec => []MemoNamesOneOrder
<1>1. CallsInv => MemoNamesOneOrder
  BY DEF CallsInv
<1> QED
  BY <1>1, SpecCallsInv, PTL

\* The expiry job accounts for every order it found.
THEOREM SpecSweepAccounted == Spec => []SweepAccounted
<1>1. CallsInv => SweepAccounted
  BY DEF CallsInv
<1> QED
  BY <1>1, SpecCallsInv, PTL

-------------------------------------------------------------------------------
(* What the steps do to counters and orders *)

\* Only three actions write the tables.
LEMMA TableWriters ==
  ASSUME [Next]_vars
  PROVE  \/ UNCHANGED <<sold, orders, late>>
         \/ \E c \in Calls : CommitCreate(c) \/ CommitCancel(c) \/ SavePayment(c)
<1>1. CASE UNCHANGED vars
  BY <1>1 DEF vars, db
<1>2. ASSUME NEW c \in Calls, Arrive(c) \/ LockStep(c) \/ DeadlockVictim(c)
      PROVE  UNCHANGED <<sold, orders, late>>
  BY <1>2 DEF db, Arrive, LockStep, StartRetry, StartCreate, StartCancel, StartExpiry,
     StartWebhook, InsertOrder, InsertItem, Reserve, Release, DeadlockVictim
<1>3. ASSUME NEW c \in Calls, FreeStep(c)
      PROVE  UNCHANGED <<sold, orders, late>> \/ CommitCreate(c) \/ CommitCancel(c) \/ SavePayment(c)
  BY <1>3 DEF db, FreeStep, CheckAvailability, Notify, PickExpired, ComparePayment
<1>4. CASE Restart \/ \E o \in OrderIds : DeadlinePasses(o)
  BY <1>4 DEF db, Restart, DeadlinePasses
<1> QED
  BY <1>1, <1>2, <1>3, <1>4 DEF Next

\* What a commit of createOrderRecord does.
LEMMA CreateEffect ==
  ASSUME CallsInv, NEW c \in Calls, CommitCreate(c)
  PROVE  \E o \in OrderIds, b \in Baskets :
           /\ ~Exists(o) /\ Exists(o)'
           /\ orders'[o].items = b /\ orders'[o].status = "PENDING"
           /\ orders'[o].tx = None /\ orders'[o].reason = None /\ late' = late
           /\ \A x \in OrderIds \ {o} : orders'[x] = orders[x]
           /\ sold' = [t \in TicketTypes |-> sold[t] + b[t]]
           /\ \A t \in TicketTypes : sold[t] + b[t] <= Total[t]
<1> USE QuantityAssumption, NoneAssumption
<1> PICK o \in OrderIds : o = req[c].order
  BY DEF CallsInv, RequestsOK, CommitCreate, Creating
<1> DEFINE row == [status |-> "PENDING", items |-> req[c].items,
                   user |-> req[c].user, reason |-> None, tx |-> None]
<1>1. /\ pc[c] = "commit" /\ ~Exists(o) /\ req[c].items \in Baskets
      /\ req[c].user \in Users /\ orders \in [OrderIds -> Order \cup {None}]
  BY DEF CallsInv, TypeOK, CommitCreate, RequestsOK, Creating
<1>2. orders' = [orders EXCEPT ![o] = row] /\ sold' = Written(c) /\ late' = late
  BY DEF CommitCreate
<1>3. row \in Order
  BY <1>1 DEF Order, Statuses, Reasons
<1>4. /\ orders'[o] = row /\ row # None
      /\ \A x \in OrderIds \ {o} : orders'[x] = orders[x]
  BY <1>1, <1>2, <1>3
<1>5. \A t \in TicketTypes : sold[t] + req[c].items[t] <= Total[t]
  BY <1>1, WrittenReserved
<1>6. sold' = [t \in TicketTypes |-> sold[t] + req[c].items[t]]
  BY <1>1, <1>2, WrittenReserved
<1> QED
  BY <1>1, <1>2, <1>4, <1>5, <1>6 DEF Exists

\* What a commit of cancel or cancelAndRelease does.
LEMMA CancelEffect ==
  ASSUME CallsInv, NEW c \in Calls, CommitCancel(c)
  PROVE  \E o \in OrderIds, b \in Baskets :
           /\ Exists(o) /\ Exists(o)' /\ orders[o].items = b
           /\ orders'[o].items = b /\ orders'[o].status = "CANCELLED"
           /\ orders'[o].tx = orders[o].tx /\ orders'[o].reason # None
           /\ late \subseteq late' /\ (orders[o].status = "CANCELLED" => o \in late')
           /\ \A x \in OrderIds \ {o} : orders'[x] = orders[x]
           /\ sold' = [t \in TicketTypes |-> sold[t] - b[t]]
           /\ \A t \in TicketTypes : sold[t] - b[t] >= 0
<1> USE QuantityAssumption, NoneAssumption
<1> PICK o \in OrderIds : o = req[c].order
  BY DEF CallsInv, RequestsOK, CommitCancel
<1> DEFINE reason == IF req[c].op = "expire" THEN "EXPIRED"
                     ELSE IF req[c].user \in Admins THEN "ADMIN" ELSE "MANUAL"
           row == Updated(orders[o], "CANCELLED", reason, orders[o].tx)
<1>1. /\ pc[c] = "update" /\ Exists(o) /\ req[c].items = orders[o].items
      /\ orders \in [OrderIds -> Order \cup {None}]
  BY DEF CallsInv, TypeOK, CommitCancel, RequestsOK
<1>2. /\ orders' = [orders EXCEPT ![o] = row] /\ sold' = Written(c)
      /\ late' = late \cup {x \in {o} : orders[x].status = "CANCELLED"}
  BY DEF CommitCancel, CancelRow
<1>3. orders[o] \in Order
  BY <1>1 DEF Exists
<1>4. /\ row \in Order /\ row.items = orders[o].items /\ row.status = "CANCELLED"
      /\ row.tx = orders[o].tx /\ row.reason # None
  BY <1>3 DEF Order, Statuses, Reasons, Updated
<1> HIDE DEF row
<1>5. /\ orders'[o] = row /\ row # None
      /\ \A x \in OrderIds \ {o} : orders'[x] = orders[x]
  BY <1>1, <1>2, <1>4
<1>6. \A t \in TicketTypes : sold[t] - req[c].items[t] >= 0
  BY <1>1, WrittenReleased
<1>7. /\ sold' = [t \in TicketTypes |-> sold[t] - req[c].items[t]]
      /\ req[c].items \in Baskets
  BY <1>1, <1>2, WrittenReleased
<1> QED
  BY <1>1, <1>2, <1>4, <1>5, <1>6, <1>7 DEF Exists

\* What saving a payment does.
LEMMA PaymentEffect ==
  ASSUME CallsInv, NEW c \in Calls, SavePayment(c)
  PROVE  /\ sold' = sold /\ late \subseteq late'
         /\ \/ orders' = orders
            \/ \E o \in OrderIds, p \in Payments :
                 /\ Exists(o) /\ Exists(o)'
                 /\ orders'[o].items = orders[o].items
                 /\ orders'[o].status \in {"PAID", orders[o].status}
                 /\ orders'[o].tx \in {p, orders[o].tx} /\ TxMemo[p] = MemoOf[o]
                 /\ Covers(p, orders[o].items)
                 /\ orders[o].status = "CANCELLED" /\ orders'[o].status # "CANCELLED" =>
                      o \in late'
                 /\ orders'[o].reason = orders[o].reason
                 /\ \A x \in OrderIds \ {o} : orders'[x] = orders[x]
<1> USE NoneAssumption
<1> PICK o \in OrderIds, p \in Payments : o = req[c].order /\ p = req[c].tx
  BY DEF CallsInv, RequestsOK, SavePayment
<1> DEFINE row == Saved(orders[o], req[c])
<1>1. /\ Exists(o) /\ orders \in [OrderIds -> Order \cup {None}]
      /\ TxMemo[p] = MemoOf[o] /\ Covers(p, orders[o].items)
  BY DEF CallsInv, TypeOK, SavePayment, RequestsOK
<1>2. /\ sold' = sold /\ late \subseteq late' /\ pc[c] = "save"
      /\ \/ orders' = orders
         \/ /\ orders' = [orders EXCEPT ![o] = row]
            /\ late' = late \cup {x \in {o} : /\ orders[x].status = "CANCELLED"
                                            /\ "status" \in req[c].columns}
  BY DEF SavePayment
<1>3. orders[o] \in Order
  BY <1>1 DEF Exists
<1>4. /\ row \in Order /\ row.items = orders[o].items
      /\ row.status \in {"PAID", orders[o].status} /\ row.tx \in {p, orders[o].tx}
      /\ row.reason = orders[o].reason
      /\ "status" \in req[c].columns \/ row.status = orders[o].status
  BY <1>3 DEF Order, Statuses, Saved, Updated, CallsInv, TypeOK, Request
<1> HIDE DEF row
<1>5. ASSUME orders' = [orders EXCEPT ![o] = row]
      PROVE  /\ orders'[o] = row /\ row # None
             /\ \A x \in OrderIds \ {o} : orders'[x] = orders[x]
  BY <1>1, <1>4, <1>5
<1> QED
  BY <1>1, <1>2, <1>4, <1>5 DEF Exists

\* A row and the counters change together, in one commit, by the basket of the
\* row, however createOrderRecord, cancel and cancelAndRelease interleave.
THEOREM SpecCountersFollowOrders == Spec => CountersFollowOrders
<1>1. ASSUME CallsInv, [Next]_vars PROVE [CountersStep]_vars
  <2>1. CASE UNCHANGED <<sold, orders, late>>
    BY <2>1 DEF CountersStep, Exists, Pending
  <2>2. ASSUME NEW c \in Calls, CommitCreate(c) PROVE CountersStep
    <3>1. PICK o \in OrderIds, b \in Baskets :
            /\ ~Exists(o) /\ Exists(o)'
            /\ orders'[o].items = b /\ orders'[o].status = "PENDING"
            /\ \A x \in OrderIds \ {o} : orders'[x] = orders[x]
            /\ sold' = [t \in TicketTypes |-> sold[t] + b[t]]
      BY <1>1, <2>2, CreateEffect
    <3> QED
      BY <3>1 DEF CountersStep, Exists, Pending, Reserved, Released
  <2>3. ASSUME NEW c \in Calls, CommitCancel(c) PROVE CountersStep
    <3>1. PICK o \in OrderIds, b \in Baskets :
            /\ Exists(o) /\ Exists(o)'
            /\ orders'[o].items = b /\ orders'[o].status = "CANCELLED"
            /\ \A x \in OrderIds \ {o} : orders'[x] = orders[x]
            /\ sold' = [t \in TicketTypes |-> sold[t] - b[t]]
      BY <1>1, <2>3, CancelEffect
    <3> QED
      BY <3>1 DEF CountersStep, Exists, Pending, Released
  <2>4. ASSUME NEW c \in Calls, SavePayment(c) PROVE CountersStep
    <3>1. CASE orders' = orders
      BY <1>1, <2>4, <3>1, PaymentEffect DEF CountersStep, Exists, Pending
    <3>2. CASE orders' # orders
      <4>1. PICK o \in OrderIds : /\ Exists(o) /\ Exists(o)'
                                  /\ orders'[o].status \in {"PAID", orders[o].status}
                                  /\ \A x \in OrderIds \ {o} : orders'[x] = orders[x]
        BY <1>1, <2>4, <3>2, PaymentEffect
      <4> QED
        BY <1>1, <2>4, <4>1, PaymentEffect DEF CountersStep, Exists, Pending
    <3> QED
      BY <3>1, <3>2
  <2> QED
    BY <1>1, <2>1, <2>2, <2>3, <2>4, TableWriters
<1> QED
  BY <1>1, SpecCallsInv, PTL DEF Spec, CountersFollowOrders

\* Concurrent transactions on rows and locks implement the all-or-nothing
\* inventory: each commit reserves or releases one whole basket.
THEOREM SpecImplementsInventory == Spec => ImplementsInventory
<1>1. Init => INV!Init
  BY DEF Init, INV!Init
<1>2. ASSUME CallsInv, [Next]_vars PROVE [INV!Next]_sold
  <2>1. CASE UNCHANGED <<sold, orders, late>>
    BY <2>1
  <2>2. ASSUME NEW c \in Calls, CommitCreate(c) PROVE INV!Next
    <3>1. \E b \in Baskets : INV!Reserve(b)
      BY <1>2, <2>2, CreateEffect DEF INV!Reserve
    <3> QED
      BY <3>1 DEF INV!Next
  <2>3. ASSUME NEW c \in Calls, CommitCancel(c) PROVE INV!Next
    <3>1. \E b \in Baskets : INV!Release(b)
      BY <1>2, <2>3, CancelEffect DEF INV!Release
    <3> QED
      BY <3>1 DEF INV!Next
  <2>4. ASSUME NEW c \in Calls, SavePayment(c) PROVE sold' = sold
    BY <2>4 DEF SavePayment
  <2> QED
    BY <1>2, <2>1, <2>2, <2>3, <2>4, TableWriters
<1> QED
  BY <1>1, <1>2, SpecCallsInv, PTL DEF Spec, ImplementsInventory, INV!Spec

\* The hash that is stored carries the memo of its order and covers its total, or
\* has an amount that cannot be read.
THEOREM SpecPaidIsFunded == Spec => []PaidIsFunded
<1>1. Init => PaidIsFunded
  BY DEF Init, PaidIsFunded, Exists
<1>2. ASSUME CallsInv, PaidIsFunded, [Next]_vars PROVE PaidIsFunded'
  <2>1. CASE UNCHANGED <<sold, orders, late>>
    BY <1>2, <2>1 DEF PaidIsFunded, Exists
  <2>2. ASSUME NEW c \in Calls, CommitCreate(c) PROVE PaidIsFunded'
    <3>1. PICK o \in OrderIds : /\ orders'[o].tx = None
                                /\ \A x \in OrderIds \ {o} : orders'[x] = orders[x]
      BY <1>2, <2>2, CreateEffect
    <3> QED
      BY <1>2, <3>1 DEF PaidIsFunded, Exists
  <2>3. ASSUME NEW c \in Calls, CommitCancel(c) PROVE PaidIsFunded'
    <3>1. PICK o \in OrderIds : /\ Exists(o) /\ orders'[o].tx = orders[o].tx
                                /\ orders'[o].items = orders[o].items
                                /\ \A x \in OrderIds \ {o} : orders'[x] = orders[x]
      BY <1>2, <2>3, CancelEffect
    <3> QED
      BY <1>2, <3>1 DEF PaidIsFunded, Exists
  <2>4. ASSUME NEW c \in Calls, SavePayment(c), orders' # orders PROVE PaidIsFunded'
    <3>1. PICK o \in OrderIds, p \in Payments :
            /\ orders'[o].items = orders[o].items
            /\ Exists(o)
            /\ orders'[o].tx \in {p, orders[o].tx} /\ TxMemo[p] = MemoOf[o]
            /\ Covers(p, orders[o].items)
            /\ \A x \in OrderIds \ {o} : orders'[x] = orders[x]
      BY <1>2, <2>4, PaymentEffect
    <3> QED
      BY <1>2, <3>1 DEF PaidIsFunded, Exists, Covers
  <2>5. ASSUME NEW c \in Calls, SavePayment(c), orders' = orders PROVE PaidIsFunded'
    BY <1>2, <2>5 DEF PaidIsFunded, Exists
  <2> QED
    BY <1>2, <2>1, <2>2, <2>3, <2>4, <2>5, TableWriters
<1> QED
  BY <1>1, <1>2, SpecCallsInv, PTL DEF Spec

-------------------------------------------------------------------------------
(* Sums over orders *)

\* The tickets of the orders S when each order x has n[x] of them.
Places(n, S) == UNION {{x} \X (1 .. n[x]) : x \in S}

\* What each order asks for of ticket type t.
Wanted(t) == [x \in OrderIds |-> IF Exists(x) THEN orders[x].items[t] ELSE 0]

\* The sums of the invariants, before and after a step.
LEMMA SumsArePlaces ==
  \A t \in TicketTypes :
    /\ Tickets(t, Held) = Cardinality(Places(Wanted(t), Held))
    /\ Tickets(t, Held)' = Cardinality(Places(Wanted(t)', Held'))
    /\ Tickets(t, Unreasoned) = Cardinality(Places(Wanted(t), Unreasoned))
    /\ Tickets(t, Unreasoned)' = Cardinality(Places(Wanted(t)', Unreasoned'))
BY DEF Tickets, Seats, Places, Wanted, Held, Unreasoned, Exists

\* Orders have finitely many tickets.
LEMMA PlacesFinite ==
  ASSUME NEW S \in SUBSET OrderIds, NEW n \in [OrderIds -> Nat]
  PROVE  IsFiniteSet(Places(n, S)) /\ Cardinality(Places(n, S)) \in Nat
<1> DEFINE f == [x \in S |-> {x} \X (1 .. n[x])]
           F == {{x} \X (1 .. n[x]) : x \in S}
<1>1. IsFiniteSet(S)
  BY FinitenessAssumption, FS_Subset
<1>2. f \in Surjection(S, F)
  BY DEF Surjection
<1>3. IsFiniteSet(F)
  BY <1>1, <1>2, FS_Surjection
<1>4. ASSUME NEW x \in S
      PROVE  IsFiniteSet({x} \X (1 .. n[x]))
  <2>1. n[x] \in Int
    OBVIOUS
  <2>2. IsFiniteSet(1 .. n[x])
    BY <2>1, FS_Interval
  <2>3. IsFiniteSet({x})
    BY FS_Singleton
  <2> QED
    BY <2>2, <2>3, FS_Product
<1>5. IsFiniteSet(UNION F)
  BY <1>3, <1>4, FS_UNION
<1> QED
  BY <1>5, FS_CardinalityType DEF Places

\* More orders have more tickets.
LEMMA PlacesGrow ==
  ASSUME NEW T \in SUBSET OrderIds, NEW S \in SUBSET T,
         NEW n \in [OrderIds -> Nat], NEW m \in [OrderIds -> Nat],
         \A x \in S : m[x] = n[x]
  PROVE  Cardinality(Places(n, S)) <= Cardinality(Places(m, T))
<1>1. Places(n, S) \subseteq Places(m, T)
  BY DEF Places
<1> QED
  BY <1>1, PlacesFinite, FS_Subset

\* One more order adds its own tickets.
LEMMA PlacesAdd ==
  ASSUME NEW S \in SUBSET OrderIds, NEW o \in OrderIds \ S,
         NEW n \in [OrderIds -> Nat], NEW m \in [OrderIds -> Nat],
         \A x \in S : m[x] = n[x]
  PROVE  Cardinality(Places(m, S \cup {o})) = Cardinality(Places(n, S)) + m[o]
<1> DEFINE P == {o} \X (1 .. m[o])
<1>1. Places(m, S \cup {o}) = Places(n, S) \cup P
  BY DEF Places
<1>2. Places(n, S) \cap P = {}
  BY DEF Places
<1>3. IsFiniteSet(P) /\ Cardinality(P) = m[o]
  <2>1. IsFiniteSet(1 .. m[o]) /\ Cardinality(1 .. m[o]) = m[o]
    BY FS_Interval
  <2>2. IsFiniteSet({o}) /\ Cardinality({o}) = 1
    BY FS_Singleton
  <2>3. IsFiniteSet(P) /\ Cardinality(P) = 1 * m[o]
    BY <2>1, <2>2, FS_Product
  <2> QED
    BY <2>3
<1>4. Cardinality(Places(n, S) \cup P) =
        Cardinality(Places(n, S)) + Cardinality(P) - Cardinality(Places(n, S) \cap P)
  BY <1>3, PlacesFinite, FS_Union
<1>5. Cardinality(Places(n, S) \cap P) = 0 /\ Cardinality(Places(n, S)) \in Nat
  BY <1>2, PlacesFinite, FS_EmptySet
<1>6. m[o] \in Nat
  OBVIOUS
<1> HIDE DEF P
<1>7. Cardinality(Places(m, S \cup {o})) = Cardinality(Places(n, S) \cup P)
  BY <1>1
<1> DEFINE s == Cardinality(Places(n, S))
           u == Cardinality(Places(n, S) \cup P)
<1>8. u = s + m[o] - 0 /\ s \in Nat
  BY <1>3, <1>4, <1>5
<1> HIDE DEF s, u
<1>9. u = s + m[o]
  BY <1>6, <1>8
<1> QED
  BY <1>7, <1>9 DEF s, u

\* What the orders ask for are numbers.
LEMMA WantedType ==
  ASSUME CallsInv, CallsInv', NEW t \in TicketTypes
  PROVE  Wanted(t) \in [OrderIds -> Nat] /\ Wanted(t)' \in [OrderIds -> Nat]
<1>1. TypeOK /\ TypeOK'
  BY DEF CallsInv
<1>2. Wanted(t) \in [OrderIds -> Nat]
  BY <1>1, QuantityAssumption DEF TypeOK, Wanted, Exists, Order
<1>3. Wanted(t)' \in [OrderIds -> Nat]
  BY <1>1, QuantityAssumption DEF TypeOK, Wanted, Exists, Order
<1> QED
  BY <1>2, <1>3

\* A commit of createOrderRecord adds the basket of the new row to what is held.
LEMMA MatchCreate ==
  ASSUME CallsInv, CallsInv', CountersMatch, NEW c \in Calls, CommitCreate(c)
  PROVE  CountersMatch'
<1> SUFFICES ASSUME late = {}, NEW t \in TicketTypes
             PROVE  sold'[t] = Base[t] + Tickets(t, Held)'
  <2>1. late' = late
    BY DEF CommitCreate
  <2> QED
    BY <2>1 DEF CountersMatch
<1>1. PICK o \in OrderIds, b \in Baskets :
        /\ ~Exists(o) /\ Exists(o)'
        /\ orders'[o].items = b /\ orders'[o].status = "PENDING"
        /\ \A x \in OrderIds \ {o} : orders'[x] = orders[x]
        /\ sold' = [u \in TicketTypes |-> sold[u] + b[u]]
  BY CreateEffect
<1>2. Held' = Held \cup {o} /\ o \notin Held /\ Held \subseteq OrderIds
  BY <1>1 DEF Held, Exists
<1>3. Wanted(t) \in [OrderIds -> Nat] /\ Wanted(t)' \in [OrderIds -> Nat]
  BY WantedType
<1>4. Wanted(t)'[o] = b[t] /\ \A x \in Held : Wanted(t)'[x] = Wanted(t)[x]
  BY <1>1, <1>2 DEF Wanted, Exists
<1>5. Cardinality(Places(Wanted(t)', Held')) = Cardinality(Places(Wanted(t), Held)) + b[t]
  BY <1>2, <1>3, <1>4, PlacesAdd
<1>6. /\ sold[t] = Base[t] + Cardinality(Places(Wanted(t), Held))
      /\ Cardinality(Places(Wanted(t), Held)) \in Nat
      /\ Base[t] \in Nat /\ b[t] \in Nat
  BY <1>2, <1>3, SumsArePlaces, PlacesFinite, QuantityAssumption DEF CountersMatch
<1> QED
  BY <1>1, <1>5, <1>6, SumsArePlaces

\* A commit of cancel takes the basket of the row off what is held, unless the row
\* was CANCELLED already.
LEMMA MatchCancel ==
  ASSUME CallsInv, CallsInv', CountersMatch, NEW c \in Calls, CommitCancel(c)
  PROVE  CountersMatch'
<1>1. PICK o \in OrderIds, b \in Baskets :
        /\ Exists(o) /\ Exists(o)' /\ orders[o].items = b
        /\ orders'[o].items = b /\ orders'[o].status = "CANCELLED"
        /\ late \subseteq late' /\ (orders[o].status = "CANCELLED" => o \in late')
        /\ \A x \in OrderIds \ {o} : orders'[x] = orders[x]
        /\ sold' = [u \in TicketTypes |-> sold[u] - b[u]]
  BY CancelEffect
<1> SUFFICES ASSUME late' = {}, NEW t \in TicketTypes
             PROVE  sold'[t] = Base[t] + Tickets(t, Held)'
  BY DEF CountersMatch
<1>2. late = {} /\ orders[o].status # "CANCELLED"
  BY <1>1
<1>3. Held = Held' \cup {o} /\ o \notin Held' /\ Held' \subseteq OrderIds
  BY <1>1, <1>2 DEF Held, Exists
<1>4. Wanted(t) \in [OrderIds -> Nat] /\ Wanted(t)' \in [OrderIds -> Nat]
  BY WantedType
<1>5. Wanted(t)[o] = b[t] /\ \A x \in Held' : Wanted(t)[x] = Wanted(t)'[x]
  BY <1>1, <1>3 DEF Wanted, Exists
<1>6. Cardinality(Places(Wanted(t), Held)) = Cardinality(Places(Wanted(t)', Held')) + b[t]
  BY <1>3, <1>4, <1>5, PlacesAdd
<1>7. /\ sold[t] = Base[t] + Cardinality(Places(Wanted(t), Held))
      /\ Cardinality(Places(Wanted(t)', Held')) \in Nat
      /\ Base[t] \in Nat /\ b[t] \in Nat
  BY <1>2, <1>3, <1>4, SumsArePlaces, PlacesFinite, QuantityAssumption DEF CountersMatch
<1> QED
  BY <1>1, <1>6, <1>7, SumsArePlaces

\* A payment moves no counter, and no order into or out of what is held, unless
\* the row was CANCELLED.
LEMMA MatchPayment ==
  ASSUME CallsInv, CountersMatch, NEW c \in Calls, SavePayment(c)
  PROVE  CountersMatch'
<1>1. sold' = sold /\ late \subseteq late'
  BY PaymentEffect
<1> SUFFICES ASSUME late' = {}, NEW t \in TicketTypes
             PROVE  sold'[t] = Base[t] + Tickets(t, Held)'
  BY DEF CountersMatch
<1>2. Held' = Held /\ Wanted(t)' = Wanted(t)
  <2>1. CASE orders' = orders
    BY <2>1 DEF Held, Wanted, Exists
  <2>2. CASE orders' # orders
    <3>1. PICK o \in OrderIds :
            /\ Exists(o) /\ Exists(o)'
            /\ orders'[o].items = orders[o].items
            /\ orders'[o].status \in {"PAID", orders[o].status}
            /\ orders[o].status = "CANCELLED" /\ orders'[o].status # "CANCELLED" =>
                 o \in late'
            /\ \A x \in OrderIds \ {o} : orders'[x] = orders[x]
      BY <2>2, PaymentEffect
    <3>2. orders'[o].status = "CANCELLED" <=> orders[o].status = "CANCELLED"
      BY <3>1
    <3> QED
      BY <3>1, <3>2 DEF Held, Wanted, Exists
  <2> QED
    BY <2>1, <2>2
<1>3. sold[t] = Base[t] + Cardinality(Places(Wanted(t), Held))
  BY <1>1, SumsArePlaces DEF CountersMatch
<1> QED
  BY <1>1, <1>2, <1>3, SumsArePlaces

\* Every step keeps the counters exact, or marks the order as late.
LEMMA NextCountersMatch == CallsInv /\ CallsInv' /\ CountersMatch /\ [Next]_vars => CountersMatch'
<1> SUFFICES ASSUME CallsInv, CallsInv', CountersMatch, [Next]_vars PROVE CountersMatch'
  OBVIOUS
<1>1. CASE UNCHANGED <<sold, orders, late>>
  BY <1>1 DEF CountersMatch, Tickets, Seats, Held, Exists
<1> QED
  BY <1>1, TableWriters, MatchCreate, MatchCancel, MatchPayment

\* Before any order exists nothing is held.
LEMMA InitSums == Init => NothingLeaks /\ CountersMatch
<1> SUFFICES ASSUME Init PROVE NothingLeaks /\ CountersMatch
  OBVIOUS
<1>1. Held = {} /\ Unreasoned = {} /\ sold = Base
  BY DEF Init, Held, Unreasoned, Exists
<1>2. \A t \in TicketTypes : Tickets(t, {}) = 0
  BY FS_EmptySet DEF Tickets, Seats
<1> QED
  BY <1>1, <1>2, QuantityAssumption DEF NothingLeaks, CountersMatch

\* A sum that does not shrink, or shrinks by what the counter gives back.
LEMMA LeaksBound ==
  ASSUME CallsInv, CallsInv', NothingLeaks,
         NEW S \in SUBSET OrderIds, S \subseteq Unreasoned',
         \A t \in TicketTypes :
           /\ \A x \in S : Wanted(t)'[x] = Wanted(t)[x]
           /\ sold[t] <= Base[t] + Cardinality(Places(Wanted(t), Unreasoned)) =>
                sold'[t] <= Base[t] + Cardinality(Places(Wanted(t), S))
  PROVE  NothingLeaks'
<1> SUFFICES ASSUME NEW t \in TicketTypes
             PROVE  sold'[t] <= Base[t] + Tickets(t, Unreasoned)'
  BY DEF NothingLeaks
<1>1. Wanted(t) \in [OrderIds -> Nat] /\ Wanted(t)' \in [OrderIds -> Nat]
  BY WantedType
<1>2. Unreasoned' \in SUBSET OrderIds
  BY DEF Unreasoned
<1>3. Cardinality(Places(Wanted(t), S)) <= Cardinality(Places(Wanted(t)', Unreasoned'))
  BY <1>1, <1>2, PlacesGrow
<1>4. sold'[t] <= Base[t] + Cardinality(Places(Wanted(t), S))
  BY SumsArePlaces DEF NothingLeaks
<1>5. /\ sold'[t] \in Nat /\ Base[t] \in Nat
      /\ Cardinality(Places(Wanted(t), S)) \in Nat
      /\ Cardinality(Places(Wanted(t)', Unreasoned')) \in Nat
  BY <1>1, <1>2, PlacesFinite, QuantityAssumption DEF CallsInv, TypeOK
<1>6. sold'[t] <= Base[t] + Cardinality(Places(Wanted(t)', Unreasoned'))
  BY <1>3, <1>4, <1>5
<1> QED
  BY <1>6, SumsArePlaces

\* No step leaks a ticket: an order enters the sum with its tickets, and leaves it
\* in the commit that gives them back.
LEMMA NextNothingLeaks == CallsInv /\ CallsInv' /\ NothingLeaks /\ [Next]_vars => NothingLeaks'
<1> SUFFICES ASSUME CallsInv, CallsInv', NothingLeaks, [Next]_vars PROVE NothingLeaks'
  OBVIOUS
<1>0. Unreasoned \in SUBSET OrderIds
  BY DEF Unreasoned
<1>1. CASE UNCHANGED <<sold, orders, late>>
  <2>1. Unreasoned \subseteq Unreasoned'
    BY <1>1 DEF Unreasoned, Exists
  <2>2. \A t \in TicketTypes : Wanted(t)' = Wanted(t)
    BY <1>1 DEF Wanted, Exists
  <2> QED
    BY <1>0, <1>1, <2>1, <2>2, LeaksBound
<1>2. ASSUME NEW c \in Calls, SavePayment(c) PROVE NothingLeaks'
  <2>1. Unreasoned \subseteq Unreasoned' /\ \A t \in TicketTypes : Wanted(t)' = Wanted(t)
    <3>1. CASE orders' = orders
      BY <3>1 DEF Unreasoned, Exists, Wanted
    <3>2. CASE orders' # orders
      <4>1. PICK o \in OrderIds :
              /\ Exists(o) /\ Exists(o)'
              /\ orders'[o].items = orders[o].items
              /\ orders'[o].reason = orders[o].reason
              /\ \A x \in OrderIds \ {o} : orders'[x] = orders[x]
        BY <1>2, <3>2, PaymentEffect
      <4> QED
        BY <4>1 DEF Unreasoned, Exists, Wanted
    <3> QED
      BY <3>1, <3>2
  <2> QED
    BY <1>0, <1>2, <2>1, LeaksBound, PaymentEffect
<1>3. ASSUME NEW c \in Calls, CommitCancel(c) PROVE NothingLeaks'
  <2>1. PICK o \in OrderIds, b \in Baskets :
          /\ Exists(o) /\ Exists(o)' /\ orders[o].items = b
          /\ orders'[o].items = b
          /\ \A x \in OrderIds \ {o} : orders'[x] = orders[x]
          /\ sold' = [t \in TicketTypes |-> sold[t] - b[t]]
    BY <1>3, CancelEffect
  <2> DEFINE S == Unreasoned \ {o}
  <2>2. S \subseteq Unreasoned' /\ S \in SUBSET OrderIds
    BY <1>0, <2>1 DEF Unreasoned, Exists
  <2>3. \A t \in TicketTypes : \A x \in S : Wanted(t)'[x] = Wanted(t)[x]
    BY <2>1, <2>2 DEF Wanted, Exists
  <2>4. ASSUME NEW t \in TicketTypes,
               sold[t] <= Base[t] + Cardinality(Places(Wanted(t), Unreasoned))
        PROVE  sold'[t] <= Base[t] + Cardinality(Places(Wanted(t), S))
    <3>1. Wanted(t) \in [OrderIds -> Nat] /\ Wanted(t)[o] = b[t]
      BY <2>1, WantedType DEF Wanted
    <3>2. Unreasoned \subseteq S \cup {o} /\ S \cup {o} \in SUBSET OrderIds /\ o \notin S
      BY <2>2
    <3> HIDE DEF S
    <3>3. Cardinality(Places(Wanted(t), Unreasoned)) <= Cardinality(Places(Wanted(t), S \cup {o}))
      BY <3>1, <3>2, PlacesGrow
    <3>4. Cardinality(Places(Wanted(t), S \cup {o})) = Cardinality(Places(Wanted(t), S)) + b[t]
      BY <2>2, <3>1, <3>2, PlacesAdd
    <3>5. /\ Cardinality(Places(Wanted(t), S)) \in Nat
          /\ Cardinality(Places(Wanted(t), Unreasoned)) \in Nat
          /\ Base[t] \in Nat /\ b[t] \in Nat /\ sold[t] \in Nat
      BY <1>0, <2>2, <3>1, PlacesFinite, QuantityAssumption DEF CallsInv, TypeOK
    <3> QED
      BY <2>1, <2>4, <3>3, <3>4, <3>5
  <2> QED
    BY <2>2, <2>3, <2>4, LeaksBound
<1>4. ASSUME NEW c \in Calls, CommitCreate(c) PROVE NothingLeaks'
  <2>1. PICK o \in OrderIds, b \in Baskets :
          /\ ~Exists(o) /\ Exists(o)'
          /\ orders'[o].items = b /\ orders'[o].reason = None
          /\ \A x \in OrderIds \ {o} : orders'[x] = orders[x]
          /\ sold' = [t \in TicketTypes |-> sold[t] + b[t]]
    BY <1>4, CreateEffect
  <2>2. o \notin Unreasoned /\ Unreasoned \cup {o} \subseteq Unreasoned'
    BY <2>1 DEF Unreasoned, Exists
  <2> SUFFICES ASSUME NEW t \in TicketTypes
               PROVE  sold'[t] <= Base[t] + Tickets(t, Unreasoned)'
    BY DEF NothingLeaks
  <2>3. Wanted(t) \in [OrderIds -> Nat] /\ Wanted(t)' \in [OrderIds -> Nat]
    BY WantedType
  <2>4. Wanted(t)'[o] = b[t] /\ \A x \in Unreasoned : Wanted(t)'[x] = Wanted(t)[x]
    BY <1>0, <2>1, <2>2 DEF Wanted, Exists
  <2>5. Cardinality(Places(Wanted(t)', Unreasoned \cup {o}))
          = Cardinality(Places(Wanted(t), Unreasoned)) + b[t]
    BY <1>0, <2>2, <2>3, <2>4, PlacesAdd
  <2>6. Cardinality(Places(Wanted(t)', Unreasoned \cup {o}))
          <= Cardinality(Places(Wanted(t)', Unreasoned'))
    <3>1. Unreasoned' \in SUBSET OrderIds
      BY DEF Unreasoned
    <3> QED
      BY <2>2, <2>3, <3>1, PlacesGrow
  <2>7. /\ Cardinality(Places(Wanted(t), Unreasoned)) \in Nat
        /\ Cardinality(Places(Wanted(t)', Unreasoned')) \in Nat
        /\ Base[t] \in Nat /\ b[t] \in Nat /\ sold[t] \in Nat
    <3>1. Unreasoned' \in SUBSET OrderIds
      BY DEF Unreasoned
    <3> QED
      BY <1>0, <2>3, <3>1, PlacesFinite, QuantityAssumption DEF CallsInv, TypeOK
  <2>8. sold[t] <= Base[t] + Cardinality(Places(Wanted(t), Unreasoned))
    BY SumsArePlaces DEF NothingLeaks
  <2>9. sold'[t] = sold[t] + b[t]
    BY <2>1
  <2>10. sold'[t] <= Base[t] + Cardinality(Places(Wanted(t)', Unreasoned'))
    BY <2>5, <2>6, <2>7, <2>8, <2>9
  <2> QED
    BY <2>10, SumsArePlaces
<1> QED
  BY <1>1, <1>2, <1>3, <1>4, TableWriters

\* Every step preserves what the calls know and the sums over the orders.
LEMMA NextIInv == IInv /\ [Next]_vars => IInv'
BY NextCallsInv, NextNothingLeaks, NextCountersMatch DEF IInv

\* The inductive invariant: each locked row has one holder, whose draft is the committed
\* counter plus or minus its line, and the counters are covered by orders.
THEOREM SpecIInv == Spec => []IInv
<1>1. Init => IInv
  BY InitCallsInv, InitSums DEF IInv
<1> QED
  BY <1>1, NextIInv, PTL DEF Spec

\* No rollback, expiry, payment or restart leaves a ticket reserved for nobody: what
\* the counter says is covered by orders that were never cancelled.
THEOREM SpecNothingLeaks == Spec => []NothingLeaks
<1>1. IInv => NothingLeaks
  BY DEF IInv
<1> QED
  BY <1>1, SpecIInv, PTL

\* Only an order cancelled again or paid once it was CANCELLED makes a counter
\* differ from the tickets of the orders that wait for payment or are paid.
THEOREM SpecCountersMatch == Spec => []CountersMatch
<1>1. IInv => CountersMatch
  BY DEF IInv
<1> QED
  BY <1>1, SpecIInv, PTL

\* reserveTickets keeps its promise, and nothing is oversold, as long as no order
\* is cancelled again or paid once it was CANCELLED.
THEOREM SpecNoOversell == Spec => [](late = {} => HeldWithinCapacity)
<1>1. IInv => (late = {} => HeldWithinCapacity)
  BY DEF IInv, CallsInv, CountersMatch, InventoryBounded, HeldWithinCapacity
<1> QED
  BY <1>1, SpecIInv, PTL

-------------------------------------------------------------------------------
(* Waiting *)

\* A call waits only for calls that run.
LEMMA BlockersRun ==
  ASSUME CallsInv, NEW c \in Calls, NEW d \in Blockers(c)
  PROVE  d \in Calls /\ ~Idle(d)
<1>0. d \in Calls /\ TypeOK /\ LocksOK
  BY DEF CallsInv, Blockers
<1>1. CASE Inserted(d)
  BY <1>0, <1>1 DEF Inserted, Idle, Ended
<1>2. CASE ~Inserted(d)
  <2>1. want[c] \in TicketTypes
    BY <1>0, <1>2 DEF Blockers, LocksOK, LockedOK, TypeOK
  <2>2. d \in excl[want[c]]
    BY <1>0, <1>2, <2>1 DEF Blockers, LocksOK
  <2> QED
    BY <1>0, <2>1, <2>2 DEF LocksOK, LockedOK, Idle, Ended
<1> QED
  BY <1>1, <1>2

\* Calls that wait for each other hold a smallest set that does.
LEMMA CycleExists ==
  ASSUME NEW S \in SUBSET Calls, Stuck(S)
  PROVE  \E R \in SUBSET Calls : Cycle(R)
<1> DEFINE T == {R \in SUBSET Calls : Stuck(R)}
           Smaller == StrictSubsetOrdering(Calls)
<1>1. FiniteSubsetsOf(Calls) = SUBSET Calls
  BY FinitenessAssumption, FS_FiniteSubsetsOfFinite
<1>2. IsWellFoundedOn(Smaller, SUBSET Calls)
  BY <1>1, FS_StrictSubsetOrderingWellFounded
<1>3. T \subseteq SUBSET Calls /\ T # {}
  OBVIOUS
<1> HIDE DEF Smaller
<1>4. PICK R \in T : \A Q \in T : ~(<<Q, R>> \in Smaller)
  BY <1>2, <1>3, WFMin
<1>5. ASSUME NEW Q \in SUBSET R, Stuck(Q)
      PROVE  Q = R
  <2>1. Q \in T
    BY <1>5
  <2> QED
    BY <1>4, <2>1 DEF Smaller, StrictSubsetOrdering
<1> QED
  BY <1>4, <1>5 DEF Cycle

\* Some call can go on, or a deadlock is there to be broken, for any number of
\* calls: those that wait wait for calls that run, and they are finitely many.
THEOREM SpecSomeoneCanGoOn == Spec => []SomeoneCanGoOn
<1>1. ASSUME CallsInv PROVE SomeoneCanGoOn
  <2> DEFINE Running == {c \in Calls : ~Idle(c)}
  <2> SUFFICES ASSUME Running # {}, \A c \in Running : Blockers(c) # {}
               PROVE  \E S \in SUBSET Calls : Cycle(S)
    BY DEF SomeoneCanGoOn
  <2>1. \A c \in Running : Blockers(c) \cap Running # {}
    BY <1>1, BlockersRun
  <2>2. Stuck(Running) /\ Running \in SUBSET Calls
    BY <2>1 DEF Stuck
  <2> QED
    BY <2>2, CycleExists
<1> QED
  BY <1>1, SpecCallsInv, PTL


===============================================================================
