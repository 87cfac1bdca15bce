-------------------------------- MODULE Orders --------------------------------
(***************************************************************************)
(* Orders, their payment and the ticket inventory they hold: OrdersService *)
(* (create, cancel, retryPayment), OrdersScheduler (handleOrderExpiry),    *)
(* TicketTypesService (reserveTickets, releaseTickets) and                 *)
(* StellarService.processConfirmedPayment, run by concurrent calls against *)
(* one PostgreSQL database.                                                *)
(*                                                                         *)
(* An action is what one call does between two awaits.  A transaction is   *)
(* READ COMMITTED: it sees committed values, holds the row locks it took   *)
(* until it ends, and its writes become visible together when it commits.  *)
(***************************************************************************)
EXTENDS Integers, FiniteSets

CONSTANTS
  TicketTypes,  \* the ticket types of one event
  Total,        \* totalQuantity of each ticket type
  Base,         \* soldQuantity of each ticket type at the start
  Baskets,      \* what an order may ask for: a quantity of each ticket type
  Cost,         \* totalAmountXLM of an order for a basket
  Users,        \* the users who call the service
  Admins,       \* those whose role is ADMIN
  OrderIds,     \* the order ids randomUUID may draw; bounds the orders made
  Memos,        \* the memos, the first eight characters of an order id
  MemoOf,       \* the memo of each order id; two ids may share one
  Payments,     \* Stellar transactions the webhook reports, by their hash
  TxMemo,       \* the memo each payment carries
  Amount,       \* the amount each payment carries
  Unreadable,   \* the payments whose amount Number() turns into NaN
  Calls,        \* the calls the server handles at a time
  None          \* an absent row, id, hash, reason, user or line

ASSUME QuantityAssumption ==
  /\ Total \in [TicketTypes -> Nat]
  /\ Base \in [TicketTypes -> Nat]
  /\ \A t \in TicketTypes : Base[t] <= Total[t]
  /\ Baskets \subseteq [TicketTypes -> Nat]
  /\ \A b \in Baskets : \E t \in TicketTypes : b[t] > 0

ASSUME PaymentAssumption ==
  /\ Cost \in [Baskets -> Nat]
  /\ Amount \in [Payments -> Int]
  /\ Unreadable \subseteq Payments
  /\ MemoOf \in [OrderIds -> Memos]
  /\ TxMemo \in [Payments -> Memos]

\* A UUID has 128 bits, and a server has finitely many calls at a time.
ASSUME FinitenessAssumption == IsFiniteSet(OrderIds) /\ IsFiniteSet(Calls)

VARIABLES
  sold,    \* committed soldQuantity of each ticket type
  orders,  \* committed row of each order id, or None
  due,     \* ids of the orders whose expiresAt has passed
  late,    \* history: ids of the orders cancelled again, or paid, once CANCELLED
  share,   \* ticket type -> calls holding its row FOR KEY SHARE
  excl,    \* ticket type -> calls holding its row FOR UPDATE
  pc,      \* where each call is, or how it ended
  req,     \* what each call works on
  left,    \* lines of the basket the phase of a call still has to treat
  want,    \* the one of them the call treats now
  draft,   \* soldQuantity the transaction of each call has written
  found,   \* the orders each run of the expiry job found,
  todo,    \* those it still has to treat
  failed   \* and those it reports as failed

db    == <<sold, orders, due, late>>
locks == <<share, excl, draft>>
sweep == <<found, todo, failed>>
local == <<pc, req, left, want, sweep>>
vars  == <<db, locks, local>>

-------------------------------------------------------------------------------
(* Rows and requests *)

Statuses == {"PENDING", "PAID", "CANCELLED"}
Reasons  == {"ADMIN", "MANUAL", "EXPIRED", None}

Order == [status : Statuses, items : Baskets, user : Users,
          reason : Reasons, tx : Payments \cup {None}]

\* UPDATE orders: a row with another status, reason and hash.
Updated(row, status, reason, tx) ==
  [status |-> status, items |-> row.items, user |-> row.user, reason |-> reason,
   tx |-> tx]

ASSUME NoneAssumption ==
  /\ Admins \subseteq Users
  /\ None \notin TicketTypes \cup Users \cup OrderIds \cup Payments
  /\ None \notin Order \cup {"ADMIN", "MANUAL", "EXPIRED"}

Empty == [t \in TicketTypes |-> 0]

\* The columns a webhook may change in the order it saves: the entity it knows has
\* no cancelledReason.
Columns == {"status", "tx"}

Request == [op      : {"none", "create", "cancel", "expire", "pay"},
            user    : Users \cup {None},
            order   : OrderIds \cup {None},
            items   : Baskets \cup {Empty},
            tx      : Payments \cup {None},
            columns : SUBSET Columns]   \* the columns a webhook is about to write

Asks(op, user, order, items, tx) ==
  [op |-> op, user |-> user, order |-> order, items |-> items, tx |-> tx,
   columns |-> {}]

\* The request of a call that is about to write columns.
Writing(r, columns) ==
  [op |-> r.op, user |-> r.user, order |-> r.order, items |-> r.items, tx |-> r.tx,
   columns |-> columns]

NoRequest == Asks("none", None, None, Empty, None)
JobRun    == Asks("expire", None, None, Empty, None)

Ended  == {"idle", "ok", "refused", "error", "lost"}
Phases == {"check", "order", "items", "reserve", "commit",  \* create, retry
           "release", "update", "notify",                   \* cancel, expiry
           "pick",                                          \* expiry
           "compare", "save"}                               \* webhook

Idle(c) == pc[c] \in Ended

Exists(o)  == orders[o] # None
Pending(o) == Exists(o) /\ orders[o].status = "PENDING"

\* The lines of an order: one per ticket type it asks for.
Lines(b) == {t \in TicketTypes : b[t] > 0}

\* An id no row and no call uses.
Fresh(o) == ~Exists(o) /\ \A c \in Calls : req[c].order # o

\* Room for n more tickets of type t: of the availability check and, under the
\* row lock, of reserveTickets.
RoomForOne(t, n) == sold[t] + 1 <= Total[t]  \* mutant: forgets the quantity
Room(t, n) == sold[t] + n <= Total[t]

\* The guard of releaseTickets against going below zero.
AnySold(t, n) == sold[t] > 0                 \* mutant: forgets the quantity
Releasable(t, n) == sold[t] - n >= 0

\* paid < required is false when paid is NaN.
Undercharges(p, b) == Amount[p] <= Cost[b]   \* mutant: swapped comparison
Covers(p, b) == p \in Unreadable \/ Amount[p] >= Cost[b]

-------------------------------------------------------------------------------
(* Steps every call is made of *)

\* c goes to a phase that has the lines ls to treat, in any order.
Goto(c, phase, ls) ==
  /\ pc' = [pc EXCEPT ![c] = phase]
  /\ left' = [left EXCEPT ![c] = ls]
  /\ \E t \in IF ls = {} THEN {None} ELSE ls : want' = [want EXCEPT ![c] = t]

\* Mutant of LineDone: only the first line of a basket is treated.
FirstLineOnly(c, phase, ls) == Goto(c, phase, ls)

\* c has treated a line: the next line, or the next phase after the last one.
LineDone(c, phase, ls) ==
  IF left[c] = {want[c]}
  THEN Goto(c, phase, ls)
  ELSE Goto(c, pc[c], left[c] \ {want[c]})

\* Mutant of EndTransaction: FOR UPDATE locks outlive the transaction.
EndHoldingLocks(c, phase, r) ==
  /\ share' = [t \in TicketTypes |-> share[t] \ {c}]
  /\ draft' = [draft EXCEPT ![c] = Empty]
  /\ req' = [req EXCEPT ![c] = r]
  /\ Goto(c, phase, {})
  /\ UNCHANGED excl

\* The transaction of c is over and c goes on with request r.
EndTransaction(c, phase, r) ==
  /\ share' = [t \in TicketTypes |-> share[t] \ {c}]
  /\ excl' = [t \in TicketTypes |-> excl[t] \ {c}]
  /\ draft' = [draft EXCEPT ![c] = Empty]
  /\ req' = [req EXCEPT ![c] = r]
  /\ Goto(c, phase, {})

\* c answers its caller.
Finish(c, outcome) ==
  /\ EndTransaction(c, outcome, NoRequest)
  /\ found' = [found EXCEPT ![c] = {}]
  /\ todo' = [todo EXCEPT ![c] = {}]
  /\ failed' = [failed EXCEPT ![c] = {}]

\* Mutant of Abort: the job forgets the order that failed.
AbortUnnoticed(c, outcome) ==
  IF req[c].op = "expire"
  THEN EndTransaction(c, "pick", JobRun) /\ UNCHANGED sweep
  ELSE Finish(c, outcome)

\* The transaction of c throws and is rolled back: the expiry job notes the
\* order and goes on, any other call fails.
Abort(c, outcome) ==
  IF req[c].op = "expire"
  THEN /\ EndTransaction(c, "pick", JobRun)
       /\ failed' = [failed EXCEPT ![c] = @ \cup {req[c].order}]
       /\ UNCHANGED <<found, todo>>
  ELSE Finish(c, outcome)

\* soldQuantity once the transaction of c is committed.
Written(c) ==
  [t \in TicketTypes |-> IF c \in excl[t] THEN draft[c][t] ELSE sold[t]]

\* d has inserted an order and not committed it.
Inserted(d) == pc[d] \in {"items", "reserve", "commit"}

\* Mutant of Blockers: tickets are reserved and released without FOR UPDATE.
BlockersWithoutForUpdate(c) ==
  {d \in Calls \ {c} : /\ pc[c] = "order"
                       /\ Inserted(d)
                       /\ MemoOf[req[d].order] = MemoOf[req[c].order]}

\* The calls c waits for: an uncommitted row with its memo in the unique index,
\* FOR UPDATE holders of the row the foreign key check reads FOR KEY SHARE, any
\* holder of the row it selects FOR UPDATE.
Blockers(c) ==
  {d \in Calls \ {c} :
     \/ /\ pc[c] = "order"
        /\ Inserted(d)
        /\ MemoOf[req[d].order] = MemoOf[req[c].order]
     \/ pc[c] = "items" /\ d \in excl[want[c]]
     \/ pc[c] \in {"reserve", "release"} /\ d \in share[want[c]] \cup excl[want[c]]}

\* c has the wanted row FOR UPDATE and writes soldQuantity to it.
Write(c, n) ==
  /\ excl' = [excl EXCEPT ![want[c]] = @ \cup {c}]
  /\ draft' = [draft EXCEPT ![c][want[c]] = n]
  /\ UNCHANGED <<share, req, sweep>>

-------------------------------------------------------------------------------
(* OrdersService.create, retryPayment: createOrderRecord *)

\* A call of create: the basket comes from the caller.
StartCreate(c, u, b, o) ==
  /\ Idle(c)
  /\ Fresh(o)
  /\ req' = [req EXCEPT ![c] = Asks("create", u, o, b, None)]
  /\ Goto(c, "check", Lines(b))
  /\ UNCHANGED <<db, locks, sweep>>

\* retryPayment: the owner of an expired order asks for its basket again.  What
\* the guards refuse changes nothing.
StartRetry(c, u, old, o) ==
  /\ Exists(old)
  /\ orders[old].user = u
  /\ orders[old].status = "CANCELLED"
  /\ orders[old].reason = "EXPIRED"
  /\ StartCreate(c, u, orders[old].items, o)

\* The inventory check before the transaction, one read per line, no lock.
CheckAvailability(c) ==
  /\ pc[c] = "check"
  /\ IF Room(want[c], req[c].items[want[c]])
     THEN LineDone(c, "order", {}) /\ UNCHANGED <<locks, req, sweep>>
     ELSE Finish(c, "refused")
  /\ UNCHANGED db

\* Mutant of InsertOrder: no unique index on stellarMemo.
InsertAnyMemo(c) ==
  /\ pc[c] = "order"
  /\ Goto(c, "items", Lines(req[c].items))
  /\ UNCHANGED <<db, locks, req, sweep>>

\* INSERT INTO orders: waits for an uncommitted row with the same memo, fails on
\* a committed one.
InsertOrder(c) ==
  /\ pc[c] = "order"
  /\ Blockers(c) = {}
  /\ UNCHANGED db
  /\ IF \E o \in OrderIds : Exists(o) /\ MemoOf[o] = MemoOf[req[c].order]
     THEN Finish(c, "error")
     ELSE /\ Goto(c, "items", Lines(req[c].items))
          /\ UNCHANGED <<locks, req, sweep>>

\* INSERT INTO order_items: the foreign key check locks the ticket type's row.
InsertItem(c) ==
  /\ pc[c] = "items"
  /\ Blockers(c) = {}
  /\ share' = [share EXCEPT ![want[c]] = @ \cup {c}]
  /\ LineDone(c, "reserve", Lines(req[c].items))
  /\ UNCHANGED <<db, excl, draft, req, sweep>>

\* reserveTickets: lock the row, check again, add the quantity.
Reserve(c) ==
  /\ pc[c] = "reserve"
  /\ Blockers(c) = {}
  /\ LET t == want[c]
         n == req[c].items[t]
     IN IF Room(t, n)
        THEN Write(c, sold[t] + n) /\ LineDone(c, "commit", {})
        ELSE Abort(c, "refused")
  /\ UNCHANGED db

CommitCreate(c) ==
  /\ pc[c] = "commit"
  /\ sold' = Written(c)
  /\ orders' = [orders EXCEPT ![req[c].order] =
                  [status |-> "PENDING", items |-> req[c].items,
                   user |-> req[c].user, reason |-> None, tx |-> None]]
  /\ Finish(c, "ok")
  /\ UNCHANGED <<due, late>>

-------------------------------------------------------------------------------
(* OrdersService.cancel *)

\* The order is read, and its status checked, before the transaction.
StartCancel(c, u, o) ==
  /\ Idle(c)
  /\ Exists(o)
  /\ orders[o].user = u \/ u \in Admins
  /\ Pending(o)
  /\ req' = [req EXCEPT ![c] = Asks("cancel", u, o, orders[o].items, None)]
  /\ Goto(c, "release", Lines(orders[o].items))
  /\ UNCHANGED <<db, locks, sweep>>

\* Mutant of Release: one ticket goes back, whatever the quantity of the line.
ReleaseOne(c) ==
  /\ pc[c] = "release"
  /\ Blockers(c) = {}
  /\ IF Releasable(want[c], 1)
     THEN Write(c, sold[want[c]] - 1) /\ LineDone(c, "update", {})
     ELSE Abort(c, "refused")
  /\ UNCHANGED db

\* releaseTickets: lock the row, refuse to go below zero, take the quantity off.
Release(c) ==
  /\ pc[c] = "release"
  /\ Blockers(c) = {}
  /\ LET t == want[c]
         n == req[c].items[t]
     IN IF Releasable(t, n)
        THEN Write(c, sold[t] - n) /\ LineDone(c, "update", {})
        ELSE Abort(c, "refused")
  /\ UNCHANGED db

\* What follows a cancellation: the next order of the job, or the waitlist.
AfterCancel(c) ==
  /\ IF req[c].op = "expire"
     THEN EndTransaction(c, "pick", JobRun)
     ELSE EndTransaction(c, "notify", req[c])
  /\ UNCHANGED <<due, sweep>>

\* The row cancelled, with the reason of the call.
CancelRow(c) ==
  LET reason == IF req[c].op = "expire" THEN "EXPIRED"
                ELSE IF req[c].user \in Admins THEN "ADMIN" ELSE "MANUAL"
  IN orders' = [orders EXCEPT ![req[c].order] = Updated(@, "CANCELLED", reason, @.tx)]

\* Mutant of CommitCancel: a row no longer PENDING is left alone, and the tickets
\* go back all the same.
CancelPendingRow(c) ==
  /\ pc[c] = "update"
  /\ sold' = Written(c)
  /\ IF Pending(req[c].order) THEN CancelRow(c) ELSE UNCHANGED orders
  /\ UNCHANGED late
  /\ AfterCancel(c)

\* UPDATE orders by id, whatever status the row has by now, and COMMIT.
CommitCancel(c) ==
  /\ pc[c] = "update"
  /\ sold' = Written(c)
  /\ CancelRow(c)
  /\ late' = late \cup {o \in {req[c].order} : orders[o].status = "CANCELLED"}
  /\ AfterCancel(c)

\* waitlistService.notifyNext, awaited after the commit: when it throws, the
\* caller gets an error though the order is cancelled.
Notify(c) ==
  /\ pc[c] = "notify"
  /\ \E outcome \in {"ok", "error"} : Finish(c, outcome)
  /\ UNCHANGED db

-------------------------------------------------------------------------------
(* OrdersScheduler.handleOrderExpiry *)

StartExpiry(c) ==
  /\ Idle(c)
  /\ found' = [found EXCEPT ![c] = {o \in due : Pending(o)}]
  /\ todo' = [todo EXCEPT ![c] = {o \in due : Pending(o)}]
  /\ failed' = [failed EXCEPT ![c] = {}]
  /\ req' = [req EXCEPT ![c] = JobRun]
  /\ Goto(c, "pick", {})
  /\ UNCHANGED <<db, locks>>

\* The next order of the list read at the start, or the summary.
PickExpired(c) ==
  /\ pc[c] = "pick"
  /\ UNCHANGED db
  /\ \/ /\ todo[c] = {}
        /\ Finish(c, "ok")
     \/ \E o \in todo[c] :
          /\ todo' = [todo EXCEPT ![c] = @ \ {o}]
          /\ req' = [req EXCEPT ![c] = Asks("expire", None, o, orders[o].items, None)]
          /\ Goto(c, "release", Lines(orders[o].items))
          /\ UNCHANGED <<locks, found, failed>>

-------------------------------------------------------------------------------
(* StellarService.processConfirmedPayment *)

\* The order with the memo is read; a missing order, one that has a hash and an
\* underpayment are skipped.  The status is not looked at.
StartWebhook(c, p, o) ==
  /\ Idle(c)
  /\ Exists(o)
  /\ MemoOf[o] = TxMemo[p]
  /\ orders[o].tx = None
  /\ Covers(p, orders[o].items)
  /\ req' = [req EXCEPT ![c] = Asks("pay", None, o, Empty, p)]
  /\ Goto(c, "compare", {})
  /\ UNCHANGED <<db, locks, sweep>>

\* save(order) reads the row again: the columns in which the entity read above,
\* now PAID with the hash, differs from it will be written.
ComparePayment(c) ==
  /\ pc[c] = "compare"
  /\ LET row    == orders[req[c].order]
         differ == {x \in Columns : \/ x = "status" /\ row.status # "PAID"
                                    \/ x = "tx" /\ row.tx # req[c].tx}
     IN req' = [req EXCEPT ![c] = Writing(@, differ)]
  /\ Goto(c, "save", {})
  /\ UNCHANGED <<db, locks, sweep>>

\* The row with the columns that a save writes.
Saved(row, entity) ==
  Updated(row, IF "status" \in entity.columns THEN "PAID" ELSE row.status,
               row.reason,
               IF "tx" \in entity.columns THEN entity.tx ELSE row.tx)

\* The UPDATE of those columns and paidAt, whatever the row is by now;
\* stellarTxHash is unique.
SavePayment(c) ==
  /\ pc[c] = "save"
  /\ UNCHANGED <<sold, due>>
  /\ LET o == req[c].order
     IN IF /\ "tx" \in req[c].columns
           /\ \E x \in OrderIds \ {o} : Exists(x) /\ orders[x].tx = req[c].tx
        THEN Finish(c, "error") /\ UNCHANGED <<orders, late>>
        ELSE /\ orders' = [orders EXCEPT ![o] = Saved(@, req[c])]
             /\ late' = late \cup {x \in {o} : /\ orders[x].status = "CANCELLED"
                                             /\ "status" \in req[c].columns}
             /\ Finish(c, "ok")

-------------------------------------------------------------------------------
(* The environment: time, the database, the process *)

DeadlinePasses(o) ==
  /\ Pending(o)
  /\ o \notin due
  /\ due' = due \cup {o}
  /\ UNCHANGED <<sold, orders, late, locks, local>>

\* The calls of S wait for each other, and no smaller set of them does.
Stuck(S) == S # {} /\ \A c \in S : Blockers(c) \cap S # {}
Cycle(S) == Stuck(S) /\ \A R \in SUBSET S : Stuck(R) => R = S

\* PostgreSQL breaks a deadlock by failing a statement of one call of a cycle.
DeadlockVictim(c) ==
  /\ \E S \in SUBSET Calls : c \in S /\ Cycle(S)
  /\ Abort(c, "error")
  /\ UNCHANGED db

\* The process stops: its connections close, PostgreSQL rolls their transactions
\* back, and the calls get no answer.
Restart ==
  /\ \E c \in Calls : ~Idle(c)
  /\ pc' = [c \in Calls |-> IF Idle(c) THEN pc[c] ELSE "lost"]
  /\ share' = [t \in TicketTypes |-> {}]
  /\ excl' = [t \in TicketTypes |-> {}]
  /\ draft' = [c \in Calls |-> Empty]
  /\ req' = [c \in Calls |-> NoRequest]
  /\ left' = [c \in Calls |-> {}]
  /\ want' = [c \in Calls |-> None]
  /\ found' = [c \in Calls |-> {}]
  /\ todo' = [c \in Calls |-> {}]
  /\ failed' = [c \in Calls |-> {}]
  /\ UNCHANGED db

-------------------------------------------------------------------------------
Init ==
  /\ sold = Base
  /\ orders = [o \in OrderIds |-> None]
  /\ due = {}
  /\ late = {}
  /\ share = [t \in TicketTypes |-> {}]
  /\ excl = [t \in TicketTypes |-> {}]
  /\ pc = [c \in Calls |-> "idle"]
  /\ req = [c \in Calls |-> NoRequest]
  /\ left = [c \in Calls |-> {}]
  /\ want = [c \in Calls |-> None]
  /\ draft = [c \in Calls |-> Empty]
  /\ found = [c \in Calls |-> {}]
  /\ todo = [c \in Calls |-> {}]
  /\ failed = [c \in Calls |-> {}]

\* A new call arrives.
Arrive(c) ==
  \/ \E u \in Users, b \in Baskets, o \in OrderIds : StartCreate(c, u, b, o)
  \/ \E u \in Users, old, o \in OrderIds : StartRetry(c, u, old, o)
  \/ \E u \in Users, o \in OrderIds : StartCancel(c, u, o)
  \/ StartExpiry(c)
  \/ \E p \in Payments, o \in OrderIds : StartWebhook(c, p, o)

\* A statement that may wait for a row lock.
LockStep(c) == InsertOrder(c) \/ InsertItem(c) \/ Reserve(c) \/ Release(c)

\* A step that waits for nobody.
FreeStep(c) ==
  \/ CheckAvailability(c) \/ CommitCreate(c)
  \/ CommitCancel(c) \/ Notify(c)
  \/ PickExpired(c)
  \/ ComparePayment(c) \/ SavePayment(c)

Next ==
  \/ \E c \in Calls : Arrive(c) \/ LockStep(c) \/ FreeStep(c) \/ DeadlockVictim(c)
  \/ \E o \in OrderIds : DeadlinePasses(o)
  \/ Restart

Spec == Init /\ [][Next]_vars

\* The event loop goes on with every call whose statement has returned, and
\* PostgreSQL grants a row lock in the order it was asked for (SF: a call whose
\* lock is free again and again gets it) and ends every deadlock.  Nothing makes
\* a call arrive, a deadline pass or the process stop.
FairSpec ==
  /\ Spec
  /\ \A c \in Calls : /\ WF_vars(FreeStep(c))
                      /\ SF_vars(LockStep(c))
                      /\ WF_vars(DeadlockVictim(c))

-------------------------------------------------------------------------------
(* Correctness *)

\* Every variable has its type.
TypeOK ==
  /\ sold \in [TicketTypes -> Nat]
  /\ orders \in [OrderIds -> Order \cup {None}]
  /\ due \subseteq OrderIds
  /\ late \subseteq OrderIds
  /\ share \in [TicketTypes -> SUBSET Calls]
  /\ excl \in [TicketTypes -> SUBSET Calls]
  /\ pc \in [Calls -> Ended \cup Phases]
  /\ req \in [Calls -> Request]
  /\ left \in [Calls -> SUBSET TicketTypes]
  /\ want \in [Calls -> TicketTypes \cup {None}]
  /\ draft \in [Calls -> [TicketTypes -> Nat]]
  /\ found \in [Calls -> SUBSET OrderIds]
  /\ todo \in [Calls -> SUBSET OrderIds]
  /\ failed \in [Calls -> SUBSET OrderIds]

\* soldQuantity never exceeds totalQuantity and never goes below zero, however
\* the transactions of reserveTickets and releaseTickets interleave.
InventoryBounded == \A t \in TicketTypes : sold[t] \in 0 .. Total[t]

\* The counters move only with an order, by exactly its basket: a row appears
\* with its tickets reserved, and is cancelled with its tickets released, in the
\* one commit of createOrderRecord, cancel or cancelAndRelease.
Reserved(o) == sold' = [t \in TicketTypes |-> sold[t] + orders'[o].items[t]]
Released(o) == sold' = [t \in TicketTypes |-> sold[t] - orders'[o].items[t]]
CountersStep ==
  /\ \A o \in OrderIds :
       /\ ~Exists(o) /\ Exists(o)' => Reserved(o)
       /\ Pending(o) /\ orders'[o].status = "CANCELLED" => Released(o)
  /\ sold' # sold =>
       \E o \in OrderIds :
         \/ ~Exists(o) /\ Exists(o)' /\ Reserved(o)
         \/ Exists(o)' /\ orders'[o].status = "CANCELLED" /\ Released(o)
CountersFollowOrders == [][CountersStep]_vars

\* Orders implements the all-or-nothing inventory.
INV == INSTANCE Inventory WITH TicketTypes <- TicketTypes, Total <- Total, Base <- Base,
                               Baskets <- Baskets, sold <- sold
ImplementsInventory == INV!Spec

\* The tickets of ticket type t in the orders of S.
Seats(t, S)   == UNION {{o} \X (1 .. orders[o].items[t]) : o \in S}
Tickets(t, S) == Cardinality(Seats(t, S))

\* The orders never cancelled: a cancellation leaves its reason in the row, and no
\* payment takes it away.
Unreasoned == {o \in OrderIds : Exists(o) /\ orders[o].reason = None}

\* No ticket leaks: what is counted as sold was sold before or belongs to an
\* order never cancelled, so a rollback or an expiry leaves no ticket reserved for
\* nobody.
NothingLeaks == \A t \in TicketTypes : sold[t] <= Base[t] + Tickets(t, Unreasoned)

\* The orders that wait for payment or are paid.
Held == {o \in OrderIds : Exists(o) /\ orders[o].status # "CANCELLED"}

\* The counters are exact, and so nothing is oversold, unless an order that was
\* CANCELLED already has been cancelled again or paid: no other interleaving of
\* create, cancel, expiry, payment, rollback and restart loses track of a ticket.
CountersMatch ==
  late = {} => \A t \in TicketTypes : sold[t] = Base[t] + Tickets(t, Held)

\* A hash is stored only on the order whose memo the payment carries and whose
\* total it covers, also when the order was read before another call changed it.
\* An amount that cannot be read covers any total.
PaidIsFunded ==
  \A o \in OrderIds :
    Exists(o) /\ orders[o].tx # None =>
      /\ TxMemo[orders[o].tx] = MemoOf[o]
      /\ orders[o].tx \notin Unreadable =>
           Amount[orders[o].tx] >= Cost[orders[o].items]

\* As long as a call has not ended, one of them waits for nobody or PostgreSQL
\* finds a deadlock to break: locks and inserted memos never outlive the
\* transaction they belong to.
SomeoneCanGoOn ==
  (\E c \in Calls : ~Idle(c)) =>
    \/ \E c \in Calls : ~Idle(c) /\ Blockers(c) = {}
    \/ \E S \in SUBSET Calls : Cycle(S)

\* A memo leads the webhook to one order, though ids that share their first
\* eight characters are drawn and inserted at the same time.
MemoNamesOneOrder ==
  \A o, x \in OrderIds : Exists(o) /\ Exists(x) /\ MemoOf[o] = MemoOf[x] => o = x

\* The expiry job loses no order: each one it found is still on its list, being
\* treated, reported as failed, or no longer PENDING.
SweepAccounted ==
  \A c \in Calls : \A o \in found[c] :
    Pending(o) => o \in todo[c] \cup failed[c] \cup {req[c].order}

\* Every call is answered: no lock is kept by a call that ended, and every
\* deadlock is broken.
EveryCallEnds == \A c \in Calls : ~Idle(c) ~> Idle(c)

-------------------------------------------------------------------------------
(* The inductive invariant *)

Creating == {"check", "order", "items", "reserve", "commit"}

\* A call has the request its phase needs: a create owns a fresh id, the others
\* work on an order that exists and whose basket they know.
RequestsOK ==
  \A c \in Calls :
    /\ Idle(c) => req[c] = NoRequest
    /\ pc[c] = "pick" => req[c] = JobRun
    /\ pc[c] \in Creating =>
         /\ req[c].op = "create" /\ req[c].user \in Users
         /\ req[c].order \in OrderIds /\ req[c].items \in Baskets
         /\ ~Exists(req[c].order)
         /\ \A d \in Calls \ {c} : req[d].order # req[c].order
    /\ pc[c] \in {"release", "update", "notify"} =>
         /\ req[c].op \in {"cancel", "expire"}
         /\ req[c].order \in OrderIds /\ Exists(req[c].order)
         /\ req[c].items = orders[req[c].order].items
    /\ pc[c] \in {"compare", "save"} =>
         /\ req[c].op = "pay"
         /\ req[c].order \in OrderIds /\ Exists(req[c].order)
         /\ req[c].tx \in Payments /\ TxMemo[req[c].tx] = MemoOf[req[c].order]
         /\ Covers(req[c].tx, orders[req[c].order].items)

\* Each call in a transaction holds FOR UPDATE the lines it has treated, one call
\* a row at a time, and has written the sum it will commit.
LockedOK(c) ==
  /\ IF pc[c] \in {"check", "items", "reserve", "release"}
     THEN want[c] \in left[c] /\ left[c] \subseteq Lines(req[c].items)
     ELSE left[c] = {}
  /\ \A t \in TicketTypes :
       c \in excl[t] <=> /\ pc[c] \in {"reserve", "commit", "release", "update"}
                         /\ t \in Lines(req[c].items) \ left[c]
LocksOK ==
  /\ \A t \in TicketTypes : \A c, d \in excl[t] : c = d
  /\ \A t \in TicketTypes : \A c \in share[t] : Inserted(c)
  /\ \A c \in Calls : LockedOK(c)
DraftsOK ==
  \A t \in TicketTypes : \A c \in excl[t] :
    /\ draft[c][t] = IF pc[c] \in Creating THEN sold[t] + req[c].items[t]
                                           ELSE sold[t] - req[c].items[t]
    /\ draft[c][t] \in 0 .. Total[t]

\* The memo of an uncommitted order is nobody else's.
InsertsOK ==
  \A c \in Calls : Inserted(c) =>
    /\ \A o \in OrderIds : Exists(o) => MemoOf[o] # MemoOf[req[c].order]
    /\ \A d \in Calls \ {c} : Inserted(d) => MemoOf[req[d].order] # MemoOf[req[c].order]

\* The expiry job works on orders that exist.
SweepsOK ==
  \A c \in Calls : \A o \in found[c] \cup todo[c] : Exists(o)

\* Every step preserves the conjunction, which gives the bounds, the effect of a
\* commit and the uniqueness of memos; none of its parts is preserved alone.
CallsInv ==
  /\ TypeOK /\ InventoryBounded /\ RequestsOK /\ LocksOK /\ DraftsOK
  /\ MemoNamesOneOrder /\ InsertsOK /\ SweepsOK /\ SweepAccounted

\* With it, the sums over orders are preserved too.
IInv == CallsInv /\ NothingLeaks /\ CountersMatch

-------------------------------------------------------------------------------
(* What the documentation and the tests say, and the code does not do *)

\* "Atomically reserve tickets with database-level locking to prevent
\* overselling": the tickets of the orders that wait for payment or are paid fit
\* in what was on sale.
HeldWithinCapacity ==
  \A t \in TicketTypes : Base[t] + Tickets(t, Held) <= Total[t]
===============================================================================
