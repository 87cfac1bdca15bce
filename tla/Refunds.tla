-------------------------------- MODULE Refunds --------------------------------
(***************************************************************************)
(* Refunds of orders: AdminService.refundOrder and sendStellarRefund, next *)
(* to OrdersService.cancel and StellarService.processConfirmedPayment of   *)
(* the same orders and to what other orders take and give back.            *)
(* refundOrder opens no transaction: each of its statements is one of its  *)
(* own, and what it has done stays when a later one fails.  What cancel    *)
(* does (see Orders) is repeated here without its entry in the waitlist.   *)
(*                                                                         *)
(* A call is made once, so that what it did can be told afterwards.        *)
(***************************************************************************)
EXTENDS Integers, FiniteSets

CONSTANTS
  OrderIds,     \* orders that exist
  TicketTypes,  \* the ticket types of the event
  Tickets,      \* the tickets of these orders
  OrderOf,      \* the order of each ticket
  TypeOf,       \* its ticket type
  Total,        \* totalQuantity of each ticket type
  Start,        \* soldQuantity at the start
  Replies,      \* what may become of a payment handed to the Stellar network
  Calls,        \* the calls made; each names the transaction it reports or sends
  OldHash,      \* the transaction that paid an order before
  None          \* an absent hash, ticket or lock holder

ASSUME RefundAssumption ==
  /\ IsFiniteSet(Tickets)
  /\ OrderOf \in [Tickets -> OrderIds]
  /\ TypeOf \in [Tickets -> TicketTypes]
  /\ Total \in [TicketTypes -> Nat]
  /\ Start \in [TicketTypes -> Nat]
  /\ Replies \subseteq {"hash", "lost", "none"}
  /\ None \notin Tickets \cup Calls \cup {OldHash}

OfType(t) == {k \in Tickets : TypeOf[k] = t}

\* The orders that exist have their tickets counted as sold.
ASSUME SoldAssumption == \A t \in TicketTypes : Cardinality(OfType(t)) <= Start[t]

VARIABLES
  orders,     \* the row of each order
  cancelled,  \* the tickets that refunds have made CANCELLED
  sold,       \* committed soldQuantity of each ticket type
  lock,       \* the call that holds the row of a ticket type FOR UPDATE, or None
  draft,      \* the soldQuantity its transaction has written
  pc,         \* where each call is, or how it ended
  req,        \* what it was asked
  tickets,    \* the tickets a refund still has to treat,
  at,         \* and the one it treats now
  lines,      \* the ticket types a cancellation still has to lock
  returns,    \* history: who gave back which ticket
  others,     \* history: what other orders took of each ticket type, less what they gave back
  sent        \* history: the refunds whose payment the network accepted

tables  == <<orders, cancelled, sold, lock, draft>>
calls   == <<pc, req, tickets, at, lines>>
history == <<returns, others, sent>>
vars    == <<tables, calls, history>>

-------------------------------------------------------------------------------
(* Rows and requests *)

Statuses == {"PENDING", "PAID", "CANCELLED", "REFUNDED"}
Order    == [status : Statuses, tx : Calls \cup {OldHash, None},
             refundTx : Calls \cup {None}]
Updated(status, tx, refundTx) == [status |-> status, tx |-> tx, refundTx |-> refundTx]

\* The columns, besides the hash of the payment, that the save of a payment may
\* find changed.
Columns == {"status", "refundTx"}

Request   == [op : {"none", "refund", "cancel", "pay"}, order : OrderIds \cup {None},
              paid : BOOLEAN,                    \* whether it was read with a hash
              refundTx : Calls \cup {None},      \* and its refund, as it was read
              columns : SUBSET Columns]
NoRequest == [op |-> "none", order |-> None, paid |-> FALSE, refundTx |-> None, columns |-> {}]

Ended  == {"new", "done", "error"}
Phases == {"ticket", "count", "send", "mark", "store",  \* refundOrder
           "release",                                   \* cancel
           "compare", "pay"}                            \* processConfirmedPayment

OfOrder(o) == {k \in Tickets : OrderOf[k] = o}
Line(o, t) == {k \in OfOrder(o) : TypeOf[k] = t}
Lines(o)   == {t \in TicketTypes : Line(o, t) # {}}

Return        == [call : Calls, ticket : Tickets]
GivenBy(c, S) == {[call |-> c, ticket |-> k] : k \in S}
Returned(t)   == {r \in returns : TypeOf[r.ticket] = t}

Goto(c, phase) == pc' = [pc EXCEPT ![c] = phase]

\* A call about order o goes on to its first phase.
Begin(c, op, o, phase) ==
  /\ pc[c] = "new"
  /\ req' = [req EXCEPT ![c] = [op |-> op, order |-> o, paid |-> orders[o].tx # None,
                                 refundTx |-> orders[o].refundTx, columns |-> {}]]
  /\ Goto(c, phase)
  /\ UNCHANGED <<tables, at, history>>

-------------------------------------------------------------------------------
(* AdminService.refundOrder *)

\* The order is read with all of its tickets, whatever became of them, and must
\* be PAID.
StartRefund(c, o) ==
  /\ orders[o].status = "PAID"
  /\ Begin(c, "refund", o, "ticket")
  /\ tickets' = [tickets EXCEPT ![c] = OfOrder(o)]
  /\ UNCHANGED lines

\* The next ticket becomes CANCELLED, whatever it was.
CancelTicket(c, k) ==
  /\ pc[c] = "ticket"
  /\ k \in tickets[c]
  /\ cancelled' = cancelled \cup {k}
  /\ at' = [at EXCEPT ![c] = k]
  /\ Goto(c, "count")
  /\ UNCHANGED <<orders, sold, lock, draft, req, tickets, lines, history>>

\* Mutant of CountDown: the new value does not wait for who has the row locked.
CountDownAnyway(c) ==
  /\ pc[c] = "count"
  /\ sold' = [sold EXCEPT ![TypeOf[at[c]]] = @ - 1]
  /\ returns' = returns \cup GivenBy(c, {at[c]})
  /\ tickets' = [tickets EXCEPT ![c] = @ \ {at[c]}]
  /\ Goto(c, "ticket")
  /\ UNCHANGED <<orders, cancelled, lock, draft, req, at, lines, others, sent>>

\* Mutant of CountDown: the whole line of the order for each of its tickets.
CountDownLine(c) ==
  /\ pc[c] = "count"
  /\ lock[TypeOf[at[c]]] = None
  /\ sold' = [sold EXCEPT ![TypeOf[at[c]]] = @ - Cardinality(Line(req[c].order, TypeOf[at[c]]))]
  /\ returns' = returns \cup GivenBy(c, {at[c]})
  /\ tickets' = [tickets EXCEPT ![c] = @ \ {at[c]}]
  /\ Goto(c, "ticket")
  /\ UNCHANGED <<orders, cancelled, lock, draft, req, at, lines, others, sent>>

\* increment by -1: one UPDATE of the value the row has by then, below zero too.
CountDown(c) ==
  /\ pc[c] = "count"
  /\ lock[TypeOf[at[c]]] = None
  /\ sold' = [sold EXCEPT ![TypeOf[at[c]]] = @ - 1]
  /\ returns' = returns \cup GivenBy(c, {at[c]})
  /\ tickets' = [tickets EXCEPT ![c] = @ \ {at[c]}]
  /\ Goto(c, "ticket")
  /\ UNCHANGED <<orders, cancelled, lock, draft, req, at, lines, others, sent>>

\* Mutant of EndTickets: the loop ends at any ticket.
EndTicketsEarly(c) ==
  /\ pc[c] = "ticket"
  /\ Goto(c, IF req[c].paid THEN "send" ELSE "mark")
  /\ UNCHANGED <<tables, req, tickets, at, lines, history>>

\* After the tickets, the money: it goes back when the order was paid with a hash.
EndTickets(c) ==
  /\ pc[c] = "ticket"
  /\ tickets[c] = {}
  /\ Goto(c, IF req[c].paid THEN "send" ELSE "mark")
  /\ UNCHANGED <<tables, req, tickets, at, lines, history>>

\* sendStellarRefund.  hash: the network took the payment; lost: it did, and the
\* answer did not come back; none: no wallet, no key, an amount that is no number,
\* or a payment refused.  Whatever throws is caught, and stands for no hash.
Send(c, reply) ==
  /\ pc[c] = "send"
  /\ sent' = IF reply = "none" THEN sent ELSE sent \cup {c}
  /\ Goto(c, IF reply = "hash" THEN "store" ELSE "mark")
  /\ UNCHANGED <<tables, req, tickets, at, lines, returns, others>>

\* UPDATE orders by id, whatever status the row has by now.
MarkRefunded(c) ==
  /\ pc[c] \in {"mark", "store"}
  /\ orders' = [orders EXCEPT ![req[c].order] =
                  Updated("REFUNDED", @.tx, IF pc[c] = "store" THEN c ELSE None)]
  /\ Goto(c, "done")
  /\ UNCHANGED <<cancelled, sold, lock, draft, req, tickets, at, lines, history>>

-------------------------------------------------------------------------------
(* OrdersService.cancel *)

StartCancel(c, o) ==
  /\ orders[o].status = "PENDING"
  /\ Begin(c, "cancel", o, "release")
  /\ lines' = [lines EXCEPT ![c] = Lines(o)]
  /\ UNCHANGED tickets

\* Mutant of Release: no FOR UPDATE.
ReleaseUnlocked(c, t) ==
  /\ pc[c] = "release"
  /\ t \in lines[c]
  /\ LET n == Cardinality(Line(req[c].order, t)) IN
       /\ sold[t] - n >= 0
       /\ draft' = [draft EXCEPT ![t] = sold[t] - n]
  /\ lock' = [lock EXCEPT ![t] = c]
  /\ lines' = [lines EXCEPT ![c] = @ \ {t}]
  /\ UNCHANGED <<orders, cancelled, sold, pc, req, tickets, at, history>>

\* releaseTickets: lock the row, refuse to go below zero (see Fails), write.
Release(c, t) ==
  /\ pc[c] = "release"
  /\ t \in lines[c]
  /\ lock[t] = None
  /\ LET n == Cardinality(Line(req[c].order, t)) IN
       /\ sold[t] - n >= 0
       /\ draft' = [draft EXCEPT ![t] = sold[t] - n]
  /\ lock' = [lock EXCEPT ![t] = c]
  /\ lines' = [lines EXCEPT ![c] = @ \ {t}]
  /\ UNCHANGED <<orders, cancelled, sold, pc, req, tickets, at, history>>

\* The row of the order by id, and COMMIT.
CommitCancel(c) ==
  /\ pc[c] = "release"
  /\ lines[c] = {}
  /\ orders' = [orders EXCEPT ![req[c].order] = Updated("CANCELLED", @.tx, @.refundTx)]
  /\ sold' = [t \in TicketTypes |-> IF lock[t] = c THEN draft[t] ELSE sold[t]]
  /\ lock' = [t \in TicketTypes |-> IF lock[t] = c THEN None ELSE lock[t]]
  /\ returns' = returns \cup GivenBy(c, OfOrder(req[c].order))
  /\ Goto(c, "done")
  /\ UNCHANGED <<cancelled, draft, req, tickets, at, lines, others, sent>>

-------------------------------------------------------------------------------
(* StellarService.processConfirmedPayment *)

\* A payment of the order; the order must have no hash, and may have any status.
StartPay(c, o) ==
  /\ orders[o].tx = None
  /\ Begin(c, "pay", o, "compare")
  /\ UNCHANGED <<tickets, lines>>

\* save reads the row again and compares it with the order it has in hand: PAID,
\* the hash of this payment, which no row has, and the refund as it was read.
ComparePay(c) ==
  /\ pc[c] = "compare"
  /\ LET row    == orders[req[c].order]
         differ == {x \in Columns : \/ x = "status" /\ row.status # "PAID"
                                    \/ x = "refundTx" /\ row.refundTx # req[c].refundTx}
     IN req' = [req EXCEPT ![c].columns = differ]
  /\ Goto(c, "pay")
  /\ UNCHANGED <<tables, tickets, at, lines, history>>

\* The row with the columns that the save writes.
Saved(row, c) ==
  Updated(IF "status" \in req[c].columns THEN "PAID" ELSE row.status, c,
          IF "refundTx" \in req[c].columns THEN req[c].refundTx ELSE row.refundTx)

\* UPDATE of those columns, whatever the row is by now.
SavePay(c) ==
  /\ pc[c] = "pay"
  /\ orders' = [orders EXCEPT ![req[c].order] = Saved(@, c)]
  /\ Goto(c, "done")
  /\ UNCHANGED <<cancelled, sold, lock, draft, req, tickets, at, lines, history>>

-------------------------------------------------------------------------------
(* The environment *)

\* A statement fails, a lock wait ends in a deadlock or the process stops: what
\* is committed stays, a transaction is rolled back.
Fails(c) ==
  /\ pc[c] \in Phases
  /\ lock' = [t \in TicketTypes |-> IF lock[t] = c THEN None ELSE lock[t]]
  /\ Goto(c, "error")
  /\ UNCHANGED <<orders, cancelled, sold, draft, req, tickets, at, lines, history>>

\* Other orders reserve a ticket when there is one, as Inventory says.
OthersReserve(t) ==
  /\ lock[t] = None
  /\ sold[t] + 1 <= Total[t]
  /\ sold' = [sold EXCEPT ![t] = @ + 1]
  /\ others' = [others EXCEPT ![t] = @ + 1]
  /\ UNCHANGED <<orders, cancelled, lock, draft, calls, returns, sent>>

\* They give one back when the counter allows it, whether they still hold it or not:
\* an order that is cancelled twice gives its tickets back twice (see Orders).
OthersRelease(t) ==
  /\ lock[t] = None
  /\ sold[t] - 1 >= 0
  /\ sold' = [sold EXCEPT ![t] = @ - 1]
  /\ others' = [others EXCEPT ![t] = @ - 1]
  /\ UNCHANGED <<orders, cancelled, lock, draft, calls, returns, sent>>

-------------------------------------------------------------------------------
Init ==
  /\ orders \in [OrderIds -> {Updated("PENDING", None, None),
                              Updated("PAID", OldHash, None)}]
  /\ cancelled = {}
  /\ sold = Start
  /\ lock = [t \in TicketTypes |-> None]
  /\ draft = Start
  /\ pc = [c \in Calls |-> "new"]
  /\ req = [c \in Calls |-> NoRequest]
  /\ tickets = [c \in Calls |-> {}]
  /\ at = [c \in Calls |-> None]
  /\ lines = [c \in Calls |-> {}]
  /\ returns = {}
  /\ others = [t \in TicketTypes |-> 0]
  /\ sent = {}

Step(c) ==
  \/ \E o \in OrderIds : StartRefund(c, o) \/ StartCancel(c, o) \/ StartPay(c, o)
  \/ \E k \in Tickets : CancelTicket(c, k)
  \/ CountDown(c) \/ EndTickets(c)
  \/ \E reply \in Replies : Send(c, reply)
  \/ MarkRefunded(c)
  \/ \E t \in TicketTypes : Release(c, t)
  \/ CommitCancel(c)
  \/ ComparePay(c) \/ SavePay(c)
  \/ Fails(c)

Next ==
  \/ \E c \in Calls : Step(c)
  \/ \E t \in TicketTypes : OthersReserve(t) \/ OthersRelease(t)

Spec == Init /\ [][Next]_vars

-------------------------------------------------------------------------------
(* Correctness *)

\* Every variable has its type.
TypeOK ==
  /\ orders \in [OrderIds -> Order]
  /\ cancelled \subseteq Tickets
  /\ sold \in [TicketTypes -> Int]
  /\ lock \in [TicketTypes -> Calls \cup {None}]
  /\ draft \in [TicketTypes -> Int]
  /\ pc \in [Calls -> Ended \cup Phases]
  /\ req \in [Calls -> Request]
  /\ tickets \in [Calls -> SUBSET Tickets]
  /\ at \in [Calls -> Tickets \cup {None}]
  /\ lines \in [Calls -> SUBSET TicketTypes]
  /\ returns \subseteq Return /\ IsFiniteSet(returns)
  /\ others \in [TicketTypes -> Int]
  /\ sent \subseteq Calls

\* No update of soldQuantity is lost and no call gives a ticket back twice: what
\* is counted as sold is what was sold at the start or to others, less one for
\* each ticket and each call that gave it back, however the single UPDATEs of
\* refundOrder and the transactions of cancel overlap and wherever they fail.
CountersExact ==
  \A t \in TicketTypes :
    sold[t] + Cardinality(Returned(t)) = Start[t] + others[t]

\* c is a refund of order o that has cancelled and given back each of its tickets.
Settles(c, o) ==
  /\ req[c].op = "refund" /\ req[c].order = o
  /\ OfOrder(o) \subseteq cancelled
  /\ GivenBy(c, OfOrder(o)) \subseteq returns

\* An order is REFUNDED, and money leaves, only after one refund has gone through
\* all of its tickets, though refunds fail half-way and are tried again, and
\* though cancel and payments write to the order meanwhile.
RefundsSettle ==
  /\ \A o \in OrderIds : orders[o].status = "REFUNDED" => \E c \in Calls : Settles(c, o)
  /\ \A c \in sent : Settles(c, req[c].order)

\* What other orders hold of the tickets counted as sold; below zero when they
\* have given back more than they took.
OthersHold(t) == Start[t] + others[t] - Cardinality(OfType(t))

\* A counter below zero has two causes only: calls on these orders gave the same
\* ticket of the type back twice, or other orders gave back more than they held.
\* No refund that stops half-way and no cancellation it overlaps with takes the
\* counter there by itself.
BelowZeroOnlyByRepeats ==
  \A t \in TicketTypes :
    sold[t] < 0 =>
      \/ OthersHold(t) < 0
      \/ \E r, s \in Returned(t) : r.call # s.call /\ r.ticket = s.ticket

-------------------------------------------------------------------------------
(* The inductive invariant *)

\* What a call holds fits its phase: a refund has given back the tickets it has
\* treated and no other, the others nothing before they commit.
CallOK(c) ==
  /\ pc[c] = "new" => req[c] = NoRequest /\ \A r \in returns : r.call # c
  /\ pc[c] \in Phases => req[c].order \in OrderIds
  /\ pc[c] \in {"ticket", "count"} =>
       /\ req[c].op = "refund"
       /\ tickets[c] \subseteq OfOrder(req[c].order)
       /\ OfOrder(req[c].order) \ tickets[c] \subseteq cancelled
       /\ GivenBy(c, OfOrder(req[c].order) \ tickets[c]) \subseteq returns
       /\ \A r \in returns : r.call = c => r.ticket \notin tickets[c]
  /\ pc[c] \in {"compare", "pay"} => req[c].op = "pay"
  /\ pc[c] = "count" => at[c] \in tickets[c] /\ at[c] \in cancelled
  /\ pc[c] \in {"send", "mark", "store"} => Settles(c, req[c].order)
  /\ pc[c] = "release" =>
       /\ \A r \in returns : r.call # c
       /\ lines[c] \subseteq Lines(req[c].order)

\* A row is locked by a cancellation that has treated its line, and the value it
\* will commit is the one the row has, less its tickets.
LockOK(t) ==
  /\ \A c \in Calls :
       lock[t] = c <=> pc[c] = "release" /\ t \in Lines(req[c].order) \ lines[c]
  /\ lock[t] # None => draft[t] = sold[t] - Cardinality(Line(req[lock[t]].order, t))

IInv ==
  /\ TypeOK /\ CountersExact /\ RefundsSettle
  /\ \A c \in Calls : CallOK(c)
  /\ \A t \in TicketTypes : LockOK(t)

-------------------------------------------------------------------------------
(* What the code says, and does not do *)

\* "Guard against going below zero": the counter of a type is never below zero, as
\* long as other orders give back only what they hold.
NeverBelowZero == \A t \in TicketTypes : OthersHold(t) >= 0 => sold[t] >= 0
===============================================================================
