----------------------------- MODULE RefundsProofs -----------------------------
(***************************************************************************)
(* IInv is an invariant of Refunds.  The counters need to know how many    *)
(* tickets a commit gives back (ReturnsGrow), and that the value a         *)
(* cancellation writes is still the right one when it commits (LockOK).    *)
(***************************************************************************)
EXTENDS Refunds, FiniteSetTheorems, TLAPS

USE RefundAssumption DEF Ended

-------------------------------------------------------------------------------
(* Sets of tickets given back *)

\* A call gives back as many tickets as it treats.
LEMMA GivenByCardinality ==
  ASSUME NEW c \in Calls, NEW S \in SUBSET Tickets
  PROVE  /\ IsFiniteSet(GivenBy(c, S))
         /\ Cardinality(GivenBy(c, S)) = Cardinality(S)
<1> DEFINE f == [k \in S |-> [call |-> c, ticket |-> k]]
<1>1. IsFiniteSet(S)
  BY FS_Subset
<1>2. f \in Bijection(S, GivenBy(c, S))
  <2>1. f \in [S -> GivenBy(c, S)]
    BY DEF GivenBy
  <2>2. \A j, k \in S : f[j] = f[k] => j = k
    <3> TAKE j, k \in S
    <3>1. f[j].ticket = j /\ f[k].ticket = k
      OBVIOUS
    <3> QED BY <3>1
  <2>3. \A r \in GivenBy(c, S) : \E k \in S : f[k] = r
    BY DEF GivenBy
  <2> QED BY <2>1, <2>2, <2>3 DEF Bijection, Injection, Surjection, IsInjective
<1>3. ExistsBijection(S, GivenBy(c, S))
  BY <1>2 DEF ExistsBijection
<1> QED BY <1>1, <1>3, FS_Bijection

\* When c gives back the tickets S, the tickets of each type grow by those in S.
LEMMA ReturnsGrow ==
  ASSUME TypeOK, NEW c \in Calls, NEW S \in SUBSET Tickets,
         \A r \in returns : r.call = c => r.ticket \notin S,
         returns' = returns \cup GivenBy(c, S)
  PROVE  /\ returns' \subseteq Return /\ IsFiniteSet(returns')
         /\ \A t \in TicketTypes :
              /\ Cardinality(Returned(t)) \in Nat
              /\ Cardinality(Returned(t)') =
                   Cardinality(Returned(t)) + Cardinality({k \in S : TypeOf[k] = t})
<1>1. returns' \subseteq Return
  BY DEF TypeOK, GivenBy, Return
<1>2. IsFiniteSet(returns')
  BY GivenByCardinality, FS_Union DEF TypeOK
<1>3. ASSUME NEW t \in TicketTypes
      PROVE  /\ Cardinality(Returned(t)) \in Nat
             /\ Cardinality(Returned(t)') =
                  Cardinality(Returned(t)) + Cardinality({k \in S : TypeOf[k] = t})
  <2> DEFINE T == {k \in S : TypeOf[k] = t}
  <2>1. Returned(t)' = Returned(t) \cup GivenBy(c, T)
    <3>1. \A k \in S : [call |-> c, ticket |-> k].ticket = k
      OBVIOUS
    <3> QED BY <3>1 DEF Returned, GivenBy
  <2>2. Returned(t) \cap GivenBy(c, T) = {}
    BY DEF Returned, GivenBy
  <2>3. IsFiniteSet(Returned(t))
    BY FS_Subset DEF Returned, TypeOK
  <2>4. IsFiniteSet(GivenBy(c, T)) /\ Cardinality(GivenBy(c, T)) = Cardinality(T)
    BY GivenByCardinality
  <2>5. Cardinality(Returned(t) \cup GivenBy(c, T)) =
          Cardinality(Returned(t)) + Cardinality(GivenBy(c, T))
            - Cardinality(Returned(t) \cap GivenBy(c, T))
    BY <2>3, <2>4, FS_Union
  <2>6. Cardinality(Returned(t) \cap GivenBy(c, T)) = 0
    BY <2>2, FS_EmptySet
  <2>7. Cardinality(Returned(t)) \in Nat /\ Cardinality(T) \in Nat
    BY <2>3, FS_CardinalityType, FS_Subset
  <2> QED BY <2>1, <2>4, <2>5, <2>6, <2>7
<1> QED BY <1>1, <1>2, <1>3

-------------------------------------------------------------------------------
(* What a step leaves alone *)

\* A call that does not move stays all right while others cancel and give back.
LEMMA OtherCall ==
  ASSUME TypeOK, NEW d \in Calls, CallOK(d),
         pc'[d] = pc[d], req'[d] = req[d], tickets'[d] = tickets[d], at'[d] = at[d],
         lines'[d] = lines[d], cancelled \subseteq cancelled', returns \subseteq returns',
         \A r \in returns' \ returns : r.call # d
  PROVE  CallOK(d)'
<1>1. pc'[d] = "new" => req'[d] = NoRequest /\ \A r \in returns' : r.call # d
  BY DEF CallOK
<1>2. pc'[d] \in Phases => req'[d].order \in OrderIds
  BY DEF CallOK
<1>3. pc'[d] \in {"ticket", "count"} =>
        /\ req'[d].op = "refund"
        /\ tickets'[d] \subseteq OfOrder(req'[d].order)
        /\ OfOrder(req'[d].order) \ tickets'[d] \subseteq cancelled'
        /\ GivenBy(d, OfOrder(req'[d].order) \ tickets'[d]) \subseteq returns'
        /\ \A r \in returns' : r.call = d => r.ticket \notin tickets'[d]
  BY DEF CallOK
<1>4. pc'[d] = "count" => at'[d] \in tickets'[d] /\ at'[d] \in cancelled'
  BY DEF CallOK
<1>8. pc'[d] \in {"compare", "pay"} => req'[d].op = "pay"
  BY DEF CallOK
<1>5. pc'[d] \in {"send", "mark", "store"} => Settles(d, req[d].order)'
  BY DEF CallOK, Settles
<1>6. pc'[d] = "release" =>
        /\ \A r \in returns' : r.call # d
        /\ lines'[d] \subseteq Lines(req'[d].order)
  BY DEF CallOK
<1>7. \A o : Settles(d, o)' <=> /\ req'[d].op = "refund" /\ req'[d].order = o
                                /\ OfOrder(o) \subseteq cancelled'
                                /\ GivenBy(d, OfOrder(o)) \subseteq returns'
  BY DEF Settles, OfOrder, GivenBy
<1> QED BY <1>1, <1>2, <1>3, <1>4, <1>5, <1>6, <1>7, <1>8 DEF CallOK, Settles, OfOrder, GivenBy, Lines, Line

\* A refund that is through with its tickets stays so.
LEMMA SettlesKept ==
  ASSUME NEW d \in Calls, NEW o, Settles(d, o), req'[d] = req[d],
         cancelled \subseteq cancelled', returns \subseteq returns'
  PROVE  Settles(d, o)'
  BY DEF Settles, OfOrder, GivenBy

\* Only a settled refund makes an order REFUNDED or sends money.
LEMMA SettleKept ==
  ASSUME RefundsSettle, NEW c \in Calls, sent \subseteq Calls,
         \A d \in Calls : req[d].op = "refund" => req'[d] = req[d],
         cancelled \subseteq cancelled', returns \subseteq returns',
         \A o \in OrderIds : orders'[o].status = "REFUNDED" =>
           orders[o].status = "REFUNDED" \/ Settles(c, o),
         sent' \subseteq sent \cup {c},
         c \in sent' => c \in sent \/ Settles(c, req[c].order)
  PROVE  RefundsSettle'
<1>1. ASSUME NEW d \in Calls, NEW o, Settles(d, o) PROVE Settles(d, o)'
  BY <1>1, SettlesKept DEF Settles
<1>2. ASSUME NEW o \in OrderIds, orders'[o].status = "REFUNDED"
      PROVE  \E d \in Calls : Settles(d, o)'
  <2>1. PICK d \in Calls : Settles(d, o)
    BY <1>2 DEF RefundsSettle
  <2> QED BY <2>1, <1>1
<1>3. ASSUME NEW d \in sent' PROVE Settles(d, req[d].order)'
  <2>1. d \in Calls /\ Settles(d, req[d].order)
    BY <1>3 DEF RefundsSettle
  <2>2. Settles(d, req[d].order)' <=> /\ req'[d].op = "refund"
                                     /\ OfOrder(req'[d].order) \subseteq cancelled'
                                     /\ GivenBy(d, OfOrder(req'[d].order)) \subseteq returns'
    BY DEF Settles, OfOrder, GivenBy
  <2>3. req'[d] = req[d]
    BY <2>1 DEF Settles
  <2> QED BY <2>1, <2>2, <2>3 DEF Settles, OfOrder, GivenBy
<1> QED BY <1>2, <1>3 DEF RefundsSettle

\* Locks stay all right when no cancellation moves.
LEMMA LocksKept ==
  ASSUME NEW t \in TicketTypes, LockOK(t), lock[t] \in Calls \cup {None},
         lock'[t] = lock[t], draft'[t] = draft[t],
         lock[t] = None \/ sold'[t] = sold[t],
         \A d \in Calls : pc[d] = "release" \/ pc'[d] = "release" =>
           pc'[d] = pc[d] /\ req'[d] = req[d] /\ lines'[d] = lines[d]
  PROVE  LockOK(t)'
<1>1. ASSUME NEW d \in Calls
      PROVE  lock'[t] = d <=> pc'[d] = "release" /\ t \in Lines(req'[d].order) \ lines'[d]
  BY DEF LockOK
<1>2. lock'[t] # None =>
        draft'[t] = sold'[t] - Cardinality(Line(req'[lock'[t]].order, t))
  <2> SUFFICES ASSUME lock[t] # None
               PROVE  draft'[t] = sold'[t] - Cardinality(Line(req'[lock[t]].order, t))
    OBVIOUS
  <2>1. lock[t] \in Calls /\ pc[lock[t]] = "release"
    BY DEF LockOK
  <2>2. req'[lock[t]] = req[lock[t]]
    BY <2>1
  <2> QED BY <2>2 DEF LockOK
<1> QED BY <1>1, <1>2 DEF LockOK, Lines, Line, OfOrder

\* A step of a call that is in no transaction, and leaves the counters alone.
LEMMA MoveInv ==
  ASSUME IInv, NEW c \in Calls, TypeOK', CallOK(c)',
         \A d \in Calls \ {c} : /\ pc'[d] = pc[d] /\ req'[d] = req[d] /\ at'[d] = at[d]
                                /\ tickets'[d] = tickets[d] /\ lines'[d] = lines[d],
         pc[c] # "release", pc'[c] # "release",
         req[c].op = "refund" => req'[c] = req[c],
         cancelled \subseteq cancelled',
         UNCHANGED <<sold, lock, draft, returns, others>>,
         \A o \in OrderIds : orders'[o].status = "REFUNDED" =>
           orders[o].status = "REFUNDED" \/ Settles(c, o),
         sent' \subseteq sent \cup {c},
         c \in sent' => c \in sent \/ Settles(c, req[c].order)
  PROVE  IInv'
<1>1. CountersExact'
  BY DEF IInv, CountersExact, Returned
<1>2. RefundsSettle'
  BY SettleKept DEF IInv, TypeOK
<1>3. ASSUME NEW d \in Calls PROVE CallOK(d)'
  <2>1. CASE d # c
    BY <2>1, OtherCall DEF IInv
  <2> QED BY <2>1
<1>4. ASSUME NEW t \in TicketTypes PROVE LockOK(t)'
  <2>1. \A d \in Calls : pc[d] = "release" \/ pc'[d] = "release" =>
          pc'[d] = pc[d] /\ req'[d] = req[d] /\ lines'[d] = lines[d]
    OBVIOUS
  <2> QED BY <2>1, LocksKept DEF IInv, TypeOK
<1> QED BY <1>1, <1>2, <1>3, <1>4 DEF IInv

-------------------------------------------------------------------------------
(* refundOrder *)

\* What a call is asked is a request.
LEMMA BeginRequest ==
  ASSUME TypeOK, NEW c \in Calls, NEW o \in OrderIds,
         NEW op \in {"refund", "cancel", "pay"}, NEW phase, Begin(c, op, o, phase)
  PROVE  req' \in [Calls -> Request]
<1> DEFINE asked == [op |-> op, order |-> o, paid |-> orders[o].tx # None,
                     refundTx |-> orders[o].refundTx, columns |-> {}]
<1>1. orders[o].refundTx \in Calls \cup {None}
  BY DEF TypeOK, Order
<1>2. asked \in Request
  BY <1>1 DEF Request
<1>3. req' = [req EXCEPT ![c] = asked]
  BY DEF Begin
<1> HIDE DEF asked
<1> QED BY <1>2, <1>3 DEF TypeOK

LEMMA StartRefundInv ==
  ASSUME IInv, NEW c \in Calls, NEW o \in OrderIds, StartRefund(c, o)
  PROVE  IInv'
<1>1. pc[c] = "new" /\ CallOK(c)
  BY DEF IInv, StartRefund, Begin
<1>2. req[c].op = "none"
  BY <1>1 DEF CallOK, NoRequest
<1>3. TypeOK'
  <2>1. req' \in [Calls -> Request]
    <3>1. Begin(c, "refund", o, "ticket")
      BY DEF StartRefund
    <3> QED BY <3>1, BeginRequest DEF IInv
  <2> QED BY <2>1 DEF IInv, TypeOK, StartRefund, Begin, tables, history, Goto, Phases, OfOrder
<1>4. CallOK(c)'
  <2>1. /\ pc'[c] = "ticket" /\ req'[c].op = "refund" /\ req'[c].order = o
        /\ tickets'[c] = OfOrder(o) /\ returns' = returns
    BY DEF StartRefund, Begin, Goto, history, IInv, TypeOK
  <2>2. OfOrder(o) \ tickets'[c] = {} /\ \A r \in returns : r.call # c
    BY <1>1, <2>1 DEF CallOK
  <2> QED BY <2>1, <2>2 DEF CallOK, GivenBy, OfOrder
<1>5. /\ \A d \in Calls \ {c} : /\ pc'[d] = pc[d] /\ req'[d] = req[d] /\ at'[d] = at[d]
                                /\ tickets'[d] = tickets[d] /\ lines'[d] = lines[d]
      /\ pc'[c] # "release"
  BY DEF IInv, TypeOK, StartRefund, Begin, Goto
<1>6. /\ UNCHANGED <<orders, cancelled, sold, lock, draft, returns, others, sent>>
  BY DEF StartRefund, Begin, tables, history
<1> QED BY <1>1, <1>2, <1>3, <1>4, <1>5, <1>6, MoveInv

LEMMA CancelTicketInv ==
  ASSUME IInv, NEW c \in Calls, NEW k \in Tickets, CancelTicket(c, k)
  PROVE  IInv'
<1>1. TypeOK'
  BY DEF IInv, TypeOK, CancelTicket, history, Goto, Phases
<1>2. CallOK(c)'
  <2>1. /\ pc'[c] = "count" /\ at'[c] = k /\ k \in tickets[c] /\ k \in cancelled'
        /\ cancelled \subseteq cancelled'
        /\ req' = req /\ tickets' = tickets /\ returns' = returns
    BY DEF CancelTicket, Goto, history, IInv, TypeOK
  <2>2. CallOK(c) /\ pc[c] = "ticket"
    BY DEF IInv, CancelTicket
  <2> QED BY <2>1, <2>2 DEF CallOK, GivenBy, OfOrder, Phases
<1>3. /\ \A d \in Calls \ {c} : /\ pc'[d] = pc[d] /\ req'[d] = req[d] /\ at'[d] = at[d]
                                /\ tickets'[d] = tickets[d] /\ lines'[d] = lines[d]
      /\ pc[c] # "release" /\ pc'[c] # "release" /\ req' = req
  BY DEF IInv, TypeOK, CancelTicket, Goto
<1>4. /\ UNCHANGED <<orders, sold, lock, draft, returns, others, sent>>
      /\ cancelled \subseteq cancelled'
  BY DEF CancelTicket, history
<1> QED BY <1>1, <1>2, <1>3, <1>4, MoveInv

LEMMA CountDownInv ==
  ASSUME IInv, NEW c \in Calls, CountDown(c)
  PROVE  IInv'
<1> DEFINE k == at[c]
           u == TypeOf[k]
<1>1. /\ CallOK(c) /\ pc[c] = "count" /\ k \in tickets[c] /\ k \in Tickets /\ u \in TicketTypes
      /\ req[c].op = "refund" /\ req[c].order \in OrderIds
  BY DEF IInv, TypeOK, CountDown, CallOK, Phases
<1>2. /\ returns' = returns \cup GivenBy(c, {k}) /\ others' = others /\ sent' = sent
      /\ sold' = [sold EXCEPT ![u] = @ - 1] /\ lock[u] = None
      /\ UNCHANGED <<orders, cancelled, lock, draft, req, at, lines>>
      /\ tickets' = [tickets EXCEPT ![c] = @ \ {k}] /\ pc' = [pc EXCEPT ![c] = "ticket"]
  BY DEF CountDown, Goto
<1>3. \A r \in returns : r.call = c => r.ticket \notin {k}
  BY <1>1 DEF CallOK
<1>4. /\ returns' \subseteq Return /\ IsFiniteSet(returns')
      /\ \A t \in TicketTypes :
           /\ Cardinality(Returned(t)) \in Nat
           /\ Cardinality(Returned(t)') =
                Cardinality(Returned(t)) + Cardinality({j \in {k} : TypeOf[j] = t})
  BY <1>1, <1>2, <1>3, ReturnsGrow DEF IInv
<1>5. TypeOK'
  <2>1. /\ sold' \in [TicketTypes -> Int] /\ tickets' \in [Calls -> SUBSET Tickets]
        /\ pc' \in [Calls -> Ended \cup Phases]
    BY <1>1, <1>2 DEF IInv, TypeOK, Phases
  <2> QED BY <1>2, <1>4, <2>1 DEF IInv, TypeOK
<1>6. CountersExact'
  <2> SUFFICES ASSUME NEW t \in TicketTypes
               PROVE  sold'[t] + Cardinality(Returned(t)') = Start[t] + others'[t]
    BY DEF CountersExact
  <2>1. sold[t] + Cardinality(Returned(t)) = Start[t] + others[t] /\ sold[t] \in Int
    BY DEF IInv, TypeOK, CountersExact
  <2>2. CASE t = u
    <3>1. {j \in {k} : TypeOf[j] = t} = {k}
      BY <2>2
    <3>2. Cardinality({k}) = 1
      BY FS_Singleton
    <3>3. sold'[t] = sold[t] - 1
      BY <1>1, <1>2, <2>2 DEF IInv, TypeOK
    <3> QED BY <1>2, <1>4, <2>1, <3>1, <3>2, <3>3
  <2>3. CASE t # u
    <3>1. {j \in {k} : TypeOf[j] = t} = {}
      BY <2>3
    <3>2. sold'[t] = sold[t]
      BY <1>2, <2>3 DEF IInv, TypeOK
    <3> QED BY <1>2, <1>4, <2>1, <3>1, <3>2, FS_EmptySet
  <2> QED BY <2>2, <2>3
<1>7. RefundsSettle'
  BY <1>2, SettleKept DEF IInv, TypeOK
<1>8. ASSUME NEW d \in Calls PROVE CallOK(d)'
  <2>1. CASE d # c
    <3>1. \A r \in returns' \ returns : r.call # d
      BY <1>2, <2>1 DEF GivenBy
    <3>2. pc'[d] = pc[d] /\ tickets'[d] = tickets[d]
      BY <1>2, <2>1 DEF IInv, TypeOK
    <3> QED BY <1>2, <3>1, <3>2, OtherCall DEF IInv
  <2>2. CASE d = c
    <3>1. pc'[c] = "ticket" /\ tickets'[c] = tickets[c] \ {k}
      BY <1>2 DEF IInv, TypeOK
    <3>2. /\ tickets[c] \subseteq OfOrder(req[c].order)
          /\ OfOrder(req[c].order) \ tickets[c] \subseteq cancelled /\ k \in cancelled
          /\ GivenBy(c, OfOrder(req[c].order) \ tickets[c]) \subseteq returns
          /\ \A r \in returns : r.call = c => r.ticket \notin tickets[c]
      BY <1>1 DEF CallOK
    <3>3. GivenBy(c, OfOrder(req[c].order) \ tickets'[c]) \subseteq returns'
      BY <1>2, <3>1, <3>2 DEF GivenBy
    <3>4. \A r \in returns' : r.call = c => r.ticket \notin tickets'[c]
      BY <1>2, <3>1, <3>2 DEF GivenBy
    <3>5. OfOrder(req[c].order) \ tickets'[c] \subseteq cancelled'
      BY <1>2, <3>1, <3>2
    <3> QED BY <1>1, <1>2, <2>2, <3>1, <3>2, <3>3, <3>4, <3>5 DEF CallOK, GivenBy, OfOrder
  <2> QED BY <2>1, <2>2
<1>9. ASSUME NEW t \in TicketTypes PROVE LockOK(t)'
  <2>1. lock[t] = None \/ sold'[t] = sold[t]
    BY <1>2 DEF IInv, TypeOK
  <2>2. \A d \in Calls : pc[d] = "release" \/ pc'[d] = "release" =>
          pc'[d] = pc[d] /\ req'[d] = req[d] /\ lines'[d] = lines[d]
    BY <1>1, <1>2 DEF IInv, TypeOK
  <2> QED BY <1>2, <2>1, <2>2, LocksKept DEF IInv, TypeOK
<1> QED BY <1>5, <1>6, <1>7, <1>8, <1>9 DEF IInv

LEMMA EndTicketsInv ==
  ASSUME IInv, NEW c \in Calls, EndTickets(c)
  PROVE  IInv'
<1>1. TypeOK'
  BY DEF IInv, TypeOK, EndTickets, tables, history, Goto, Phases
<1>2. /\ UNCHANGED <<orders, cancelled, sold, lock, draft, returns, others, sent>>
      /\ UNCHANGED <<req, tickets, at, lines>>
  BY DEF EndTickets, tables, history
<1>3. Settles(c, req[c].order)
  <2>1. CallOK(c) /\ pc[c] = "ticket" /\ tickets[c] = {}
    BY DEF IInv, EndTickets
  <2>2. OfOrder(req[c].order) \ tickets[c] = OfOrder(req[c].order)
    BY <2>1
  <2> QED BY <2>1, <2>2 DEF CallOK, Settles
<1>4. CallOK(c)'
  <2>1. pc'[c] \in {"send", "mark"}
    BY DEF EndTickets, Goto, IInv, TypeOK
  <2>3. req[c].order \in OrderIds
    BY DEF EndTickets, IInv, CallOK, Phases
  <2>2. Settles(c, req[c].order)'
    BY <1>2, <1>3 DEF Settles, OfOrder, GivenBy
  <2> QED BY <1>2, <2>1, <2>2, <2>3 DEF CallOK
<1>5. /\ \A d \in Calls \ {c} : pc'[d] = pc[d]
      /\ pc[c] # "release" /\ pc'[c] # "release"
  BY DEF IInv, TypeOK, EndTickets, Goto
<1> QED BY <1>1, <1>2, <1>4, <1>5, MoveInv

LEMMA SendInv ==
  ASSUME IInv, NEW c \in Calls, NEW reply \in Replies, Send(c, reply)
  PROVE  IInv'
<1>1. TypeOK'
  BY DEF IInv, TypeOK, Send, tables, Goto, Phases
<1>2. /\ UNCHANGED <<orders, cancelled, sold, lock, draft, returns, others>>
      /\ UNCHANGED <<req, tickets, at, lines>>
      /\ sent' \subseteq sent \cup {c}
  BY DEF Send, tables
<1>3. Settles(c, req[c].order) /\ req[c].order \in OrderIds
  BY DEF IInv, Send, CallOK, Phases
<1>4. CallOK(c)'
  <2>1. pc'[c] \in {"store", "mark"}
    BY DEF Send, Goto, IInv, TypeOK
  <2>2. Settles(c, req[c].order)'
    BY <1>2, <1>3 DEF Settles, OfOrder, GivenBy
  <2> QED BY <1>2, <1>3, <2>1, <2>2 DEF CallOK
<1>5. /\ \A d \in Calls \ {c} : pc'[d] = pc[d]
      /\ pc[c] # "release" /\ pc'[c] # "release"
  BY DEF IInv, TypeOK, Send, Goto
<1> QED BY <1>1, <1>2, <1>3, <1>4, <1>5, MoveInv

LEMMA MarkRefundedInv ==
  ASSUME IInv, NEW c \in Calls, MarkRefunded(c)
  PROVE  IInv'
<1> DEFINE o == req[c].order
<1>1. Settles(c, o) /\ o \in OrderIds /\ pc[c] \in {"mark", "store"}
  BY DEF IInv, MarkRefunded, CallOK, Phases
<1>2. /\ UNCHANGED <<cancelled, sold, lock, draft, returns, others, sent>>
      /\ UNCHANGED <<req, tickets, at, lines>>
      /\ pc' = [pc EXCEPT ![c] = "done"]
  BY DEF MarkRefunded, history, Goto
<1>3. orders' \in [OrderIds -> Order]
  <2>1. \A s \in Statuses, x \in Calls \cup {OldHash, None}, y \in Calls \cup {None} :
          Updated(s, x, y) \in Order
    BY DEF Updated, Order
  <2>2. orders[o].tx \in Calls \cup {OldHash, None}
    BY <1>1 DEF IInv, TypeOK, Order
  <2> QED BY <1>1, <2>1, <2>2 DEF MarkRefunded, IInv, TypeOK, Statuses
<1>4. TypeOK'
  BY <1>2, <1>3 DEF IInv, TypeOK
<1>5. CallOK(c)'
  BY <1>2 DEF IInv, TypeOK, CallOK, Phases
<1>6. \A x \in OrderIds : orders'[x].status = "REFUNDED" =>
        orders[x].status = "REFUNDED" \/ Settles(c, x)
  BY <1>1 DEF MarkRefunded, IInv, TypeOK
<1>7. /\ \A d \in Calls \ {c} : pc'[d] = pc[d]
      /\ pc[c] # "release" /\ pc'[c] # "release"
  BY <1>1, <1>2 DEF IInv, TypeOK
<1> QED BY <1>2, <1>4, <1>5, <1>6, <1>7, MoveInv

-------------------------------------------------------------------------------
(* cancel *)

LEMMA StartCancelInv ==
  ASSUME IInv, NEW c \in Calls, NEW o \in OrderIds, StartCancel(c, o)
  PROVE  IInv'
<1>1. /\ CallOK(c) /\ pc[c] = "new" /\ pc' = [pc EXCEPT ![c] = "release"]
      /\ lines' = [lines EXCEPT ![c] = Lines(o)]
      /\ UNCHANGED <<orders, cancelled, sold, lock, draft, at, tickets>>
      /\ UNCHANGED <<returns, others, sent>>
      /\ req'[c].order = o
  BY DEF IInv, TypeOK, StartCancel, Begin, tables, history, Goto
<1>2. req[c].op = "none" /\ \A d \in Calls \ {c} : req'[d] = req[d]
  BY <1>1 DEF CallOK, NoRequest, StartCancel, Begin
<1>3. TypeOK'
  <2>1. req' \in [Calls -> Request]
    <3>1. Begin(c, "cancel", o, "release")
      BY DEF StartCancel
    <3> QED BY <3>1, BeginRequest DEF IInv
  <2> QED BY <2>1 DEF IInv, TypeOK, StartCancel, Begin, tables, history, Goto, Phases, Lines
<1>4. CountersExact'
  BY <1>1 DEF IInv, CountersExact, Returned
<1>5. RefundsSettle'
  <2>1. \A d \in Calls : req[d].op = "refund" => req'[d] = req[d]
    BY <1>2
  <2> QED BY <1>1, <2>1, SettleKept DEF IInv, TypeOK
<1>6. ASSUME NEW d \in Calls PROVE CallOK(d)'
  <2>1. CASE d # c
    BY <1>1, <1>2, <2>1, OtherCall DEF IInv, TypeOK
  <2>2. CASE d = c
    <3>1. pc'[c] = "release" /\ lines'[c] = Lines(o) /\ \A r \in returns' : r.call # c
      BY <1>1 DEF IInv, TypeOK, CallOK
    <3> QED BY <1>1, <2>2, <3>1 DEF CallOK, Lines, Line, OfOrder
  <2> QED BY <2>1, <2>2
<1>7. ASSUME NEW t \in TicketTypes PROVE LockOK(t)'
  <2>1. lock[t] # c /\ LockOK(t)
    BY <1>1 DEF IInv, LockOK
  <2>2. lines'[c] = Lines(o) /\ pc'[c] = "release"
    BY <1>1 DEF IInv, TypeOK
  <2>3. ASSUME NEW d \in Calls
        PROVE  lock'[t] = d <=> pc'[d] = "release" /\ t \in Lines(req'[d].order) \ lines'[d]
    <3>1. CASE d = c
      BY <1>1, <2>1, <2>2, <3>1
    <3>2. CASE d # c
      <4>1. pc'[d] = pc[d] /\ lines'[d] = lines[d]
        BY <1>1, <3>2 DEF IInv, TypeOK
      <4> QED BY <1>1, <1>2, <2>1, <3>2, <4>1 DEF LockOK
    <3> QED BY <3>1, <3>2
  <2>4. lock'[t] # None =>
          draft'[t] = sold'[t] - Cardinality(Line(req'[lock'[t]].order, t))
    <3>1. lock[t] # None => req'[lock[t]] = req[lock[t]]
      BY <1>2, <2>1 DEF IInv, TypeOK
    <3> QED BY <1>1, <2>1, <3>1 DEF LockOK
  <2> QED BY <2>3, <2>4 DEF LockOK, Lines, Line, OfOrder
<1> QED BY <1>3, <1>4, <1>5, <1>6, <1>7 DEF IInv

LEMMA ReleaseInv ==
  ASSUME IInv, NEW c \in Calls, NEW t \in TicketTypes, Release(c, t)
  PROVE  IInv'
<1> DEFINE n == Cardinality(Line(req[c].order, t))
<1>1. /\ CallOK(c) /\ pc[c] = "release" /\ t \in lines[c] /\ lock[t] = None
      /\ draft' = [draft EXCEPT ![t] = sold[t] - n]
      /\ lock' = [lock EXCEPT ![t] = c] /\ lines' = [lines EXCEPT ![c] = @ \ {t}]
      /\ UNCHANGED <<orders, cancelled, sold, pc, req, tickets, at>>
      /\ UNCHANGED <<returns, others, sent>>
  BY DEF IInv, Release, history
<1>2. n \in Nat
  <2>1. IsFiniteSet(Line(req[c].order, t))
    BY FS_Subset DEF Line, OfOrder
  <2> QED BY <2>1, FS_CardinalityType
<1>3. TypeOK'
  BY <1>1, <1>2 DEF IInv, TypeOK
<1>4. CountersExact'
  BY <1>1 DEF IInv, CountersExact, Returned
<1>5. RefundsSettle'
  BY <1>1, SettleKept DEF IInv, TypeOK
<1>6. ASSUME NEW d \in Calls PROVE CallOK(d)'
  <2>1. CASE d # c
    BY <1>1, <2>1, OtherCall DEF IInv, TypeOK
  <2>2. CASE d = c
    <3>1. lines'[c] \subseteq lines[c]
      BY <1>1 DEF IInv, TypeOK
    <3> QED BY <1>1, <2>2, <3>1 DEF CallOK, Lines, Line, OfOrder, Phases
  <2> QED BY <2>1, <2>2
<1>7. ASSUME NEW u \in TicketTypes PROVE LockOK(u)'
  <2>1. LockOK(u) /\ t \in Lines(req[c].order)
    BY <1>1 DEF IInv, CallOK
  <2>2. ASSUME NEW d \in Calls
        PROVE  lock'[u] = d <=> pc'[d] = "release" /\ u \in Lines(req'[d].order) \ lines'[d]
    <3>1. lock[u] = d <=> pc[d] = "release" /\ u \in Lines(req[d].order) \ lines[d]
      BY <2>1 DEF LockOK
    <3>2. lock'[u] = IF u = t THEN c ELSE lock[u]
      BY <1>1 DEF IInv, TypeOK
    <3>3. lines'[d] = IF d = c THEN lines[c] \ {t} ELSE lines[d]
      BY <1>1 DEF IInv, TypeOK
    <3>4. d # None
      OBVIOUS
    <3> QED BY <1>1, <2>1, <3>1, <3>2, <3>3, <3>4
  <2>3. lock'[u] # None =>
          draft'[u] = sold'[u] - Cardinality(Line(req'[lock'[u]].order, u))
    <3>1. CASE u = t
      <4>1. lock'[t] = c /\ draft'[t] = sold[t] - n
        BY <1>1 DEF IInv, TypeOK
      <4> QED BY <1>1, <3>1, <4>1
    <3>2. CASE u # t
      <4>1. lock'[u] = lock[u] /\ draft'[u] = draft[u]
        BY <1>1, <3>2 DEF IInv, TypeOK
      <4> QED BY <1>1, <2>1, <4>1 DEF LockOK
    <3> QED BY <3>1, <3>2
  <2> QED BY <2>2, <2>3 DEF LockOK, Lines, Line, OfOrder
<1> QED BY <1>3, <1>4, <1>5, <1>6, <1>7 DEF IInv

LEMMA CommitCancelInv ==
  ASSUME IInv, NEW c \in Calls, CommitCancel(c)
  PROVE  IInv'
<1> DEFINE o == req[c].order
<1>1. /\ CallOK(c) /\ pc[c] = "release" /\ lines[c] = {} /\ o \in OrderIds
      /\ sold' = [t \in TicketTypes |-> IF lock[t] = c THEN draft[t] ELSE sold[t]]
      /\ lock' = [t \in TicketTypes |-> IF lock[t] = c THEN None ELSE lock[t]]
      /\ returns' = returns \cup GivenBy(c, OfOrder(o))
      /\ pc' = [pc EXCEPT ![c] = "done"]
      /\ UNCHANGED <<cancelled, draft, req, tickets, at, lines, others, sent>>
  BY DEF IInv, CommitCancel, Goto, CallOK, Phases
<1>2. /\ returns' \subseteq Return /\ IsFiniteSet(returns')
      /\ \A t \in TicketTypes :
           /\ Cardinality(Returned(t)) \in Nat
           /\ Cardinality(Returned(t)') =
                Cardinality(Returned(t)) + Cardinality({k \in OfOrder(o) : TypeOf[k] = t})
  <2>1. OfOrder(o) \in SUBSET Tickets
    BY DEF OfOrder
  <2>2. \A r \in returns : r.call = c => r.ticket \notin OfOrder(o)
    BY <1>1 DEF CallOK
  <2> QED BY <1>1, <2>1, <2>2, ReturnsGrow DEF IInv
<1>3. orders' \in [OrderIds -> Order]
  <2>1. \A s \in Statuses, x \in Calls \cup {OldHash, None}, y \in Calls \cup {None} :
          Updated(s, x, y) \in Order
    BY DEF Updated, Order
  <2>2. orders[o].tx \in Calls \cup {OldHash, None} /\ orders[o].refundTx \in Calls \cup {None}
    BY <1>1 DEF IInv, TypeOK, Order
  <2> QED BY <1>1, <2>1, <2>2 DEF CommitCancel, IInv, TypeOK, Statuses
<1>4. TypeOK'
  <2>1. sold' \in [TicketTypes -> Int] /\ lock' \in [TicketTypes -> Calls \cup {None}]
    BY <1>1 DEF IInv, TypeOK
  <2> QED BY <1>1, <1>2, <1>3, <2>1 DEF IInv, TypeOK
<1>5. CountersExact'
  <2> SUFFICES ASSUME NEW t \in TicketTypes
               PROVE  sold'[t] + Cardinality(Returned(t)') = Start[t] + others'[t]
    BY DEF CountersExact
  <2>1. /\ sold[t] + Cardinality(Returned(t)) = Start[t] + others[t] /\ sold[t] \in Int
        /\ LockOK(t)
    BY DEF IInv, TypeOK, CountersExact
  <2>2. {k \in OfOrder(o) : TypeOf[k] = t} = Line(o, t)
    BY DEF Line
  <2>3. Cardinality(Line(o, t)) \in Nat
    BY FS_Subset, FS_CardinalityType DEF Line, OfOrder
  <2>4. lock[t] = c <=> Line(o, t) # {}
    BY <1>1, <2>1 DEF LockOK, Lines
  <2>5. CASE lock[t] = c
    BY <1>1, <1>2, <2>1, <2>2, <2>3, <2>5 DEF LockOK
  <2>6. CASE lock[t] # c
    <3>1. Cardinality(Line(o, t)) = 0
      BY <2>4, <2>6, FS_EmptySet
    <3> QED BY <1>1, <1>2, <2>1, <2>2, <2>6, <3>1
  <2> QED BY <2>5, <2>6
<1>6. RefundsSettle'
  <2>1. \A x \in OrderIds : orders'[x].status = "REFUNDED" => orders[x].status = "REFUNDED"
    BY <1>1 DEF CommitCancel, IInv, TypeOK, Updated
  <2> QED BY <1>1, <2>1, SettleKept DEF IInv, TypeOK
<1>7. ASSUME NEW d \in Calls PROVE CallOK(d)'
  <2>1. CASE d # c
    <3>1. \A r \in returns' \ returns : r.call # d
      BY <1>1, <2>1 DEF GivenBy
    <3>2. pc'[d] = pc[d]
      BY <1>1, <2>1 DEF IInv, TypeOK
    <3> QED BY <1>1, <3>1, <3>2, OtherCall DEF IInv
  <2>2. CASE d = c
    BY <1>1, <2>2 DEF IInv, TypeOK, CallOK, Phases
  <2> QED BY <2>1, <2>2
<1>8. ASSUME NEW t \in TicketTypes PROVE LockOK(t)'
  <2>1. LockOK(t) /\ lock'[t] = (IF lock[t] = c THEN None ELSE lock[t])
        /\ sold'[t] = (IF lock[t] = c THEN draft[t] ELSE sold[t])
    BY <1>1 DEF IInv
  <2>2. ASSUME NEW d \in Calls
        PROVE  lock'[t] = d <=> pc'[d] = "release" /\ t \in Lines(req'[d].order) \ lines'[d]
    <3>1. pc'[d] = IF d = c THEN "done" ELSE pc[d]
      BY <1>1 DEF IInv, TypeOK
    <3> QED BY <1>1, <2>1, <3>1 DEF LockOK
  <2>3. lock'[t] # None =>
          draft'[t] = sold'[t] - Cardinality(Line(req'[lock'[t]].order, t))
    BY <1>1, <2>1 DEF LockOK
  <2> QED BY <2>2, <2>3 DEF LockOK, Lines, Line, OfOrder
<1> QED BY <1>4, <1>5, <1>6, <1>7, <1>8 DEF IInv

-------------------------------------------------------------------------------
(* processConfirmedPayment *)

LEMMA StartPayInv ==
  ASSUME IInv, NEW c \in Calls, NEW o \in OrderIds, StartPay(c, o)
  PROVE  IInv'
<1>1. pc[c] = "new" /\ CallOK(c)
  BY DEF IInv, StartPay, Begin
<1>2. req[c].op = "none"
  BY <1>1 DEF CallOK, NoRequest
<1>3. TypeOK'
  <2>1. req' \in [Calls -> Request]
    <3>1. Begin(c, "pay", o, "compare")
      BY DEF StartPay
    <3> QED BY <3>1, BeginRequest DEF IInv
  <2> QED BY <2>1 DEF IInv, TypeOK, StartPay, Begin, tables, history, Goto, Phases
<1>4. CallOK(c)'
  <2>1. pc'[c] = "compare" /\ req'[c].order = o /\ req'[c].op = "pay"
    BY DEF StartPay, Begin, Goto, IInv, TypeOK
  <2> QED BY <2>1 DEF CallOK
<1>5. /\ \A d \in Calls \ {c} : /\ pc'[d] = pc[d] /\ req'[d] = req[d] /\ at'[d] = at[d]
                                /\ tickets'[d] = tickets[d] /\ lines'[d] = lines[d]
      /\ pc'[c] # "release"
  BY DEF IInv, TypeOK, StartPay, Begin, Goto
<1>6. /\ UNCHANGED <<orders, cancelled, sold, lock, draft, returns, others, sent>>
  BY DEF StartPay, Begin, tables, history
<1> QED BY <1>1, <1>2, <1>3, <1>4, <1>5, <1>6, MoveInv

LEMMA ComparePayInv ==
  ASSUME IInv, NEW c \in Calls, ComparePay(c)
  PROVE  IInv'
<1> DEFINE differ == {x \in Columns :
                        \/ x = "status" /\ orders[req[c].order].status # "PAID"
                        \/ x = "refundTx" /\ orders[req[c].order].refundTx # req[c].refundTx}
<1>1. /\ CallOK(c) /\ pc[c] = "compare" /\ req[c].op = "pay" /\ req[c].order \in OrderIds
      /\ req[c] \in Request
  BY DEF IInv, TypeOK, ComparePay, CallOK, Phases
<1>2. /\ UNCHANGED <<orders, cancelled, sold, lock, draft, returns, others, sent>>
      /\ UNCHANGED <<tickets, at, lines>>
      /\ pc' = [pc EXCEPT ![c] = "pay"] /\ req' = [req EXCEPT ![c].columns = differ]
  BY DEF ComparePay, tables, history, Goto
<1>3. req'[c].op = "pay" /\ req'[c].order = req[c].order /\ req' \in [Calls -> Request]
  <2>1. differ \in SUBSET Columns
    OBVIOUS
  <2> HIDE DEF differ
  <2>2. [req[c] EXCEPT !.columns = differ] \in Request
    BY <1>1, <2>1 DEF Request
  <2> QED BY <1>1, <1>2, <2>1, <2>2 DEF IInv, TypeOK, Request
<1>4. TypeOK'
  BY <1>2, <1>3 DEF IInv, TypeOK, Phases
<1>5. CallOK(c)'
  BY <1>1, <1>2, <1>3 DEF IInv, TypeOK, CallOK
<1>6. /\ \A d \in Calls \ {c} : pc'[d] = pc[d] /\ req'[d] = req[d]
      /\ pc[c] # "release" /\ pc'[c] # "release"
  BY <1>1, <1>2 DEF IInv, TypeOK
<1> QED BY <1>1, <1>2, <1>4, <1>5, <1>6, MoveInv

LEMMA SavePayInv ==
  ASSUME IInv, NEW c \in Calls, SavePay(c)
  PROVE  IInv'
<1> DEFINE o == req[c].order
<1>1. o \in OrderIds /\ pc[c] = "pay" /\ req[c].refundTx \in Calls \cup {None}
  BY DEF IInv, TypeOK, Request, SavePay, CallOK, Phases
<1>2. /\ UNCHANGED <<cancelled, sold, lock, draft, returns, others, sent>>
      /\ UNCHANGED <<req, tickets, at, lines>>
      /\ pc' = [pc EXCEPT ![c] = "done"]
  BY DEF SavePay, history, Goto
<1>3. orders' \in [OrderIds -> Order]
  <2>1. \A s \in Statuses, x \in Calls \cup {OldHash, None}, y \in Calls \cup {None} :
          Updated(s, x, y) \in Order
    BY DEF Updated, Order
  <2>2. orders[o].status \in Statuses /\ orders[o].refundTx \in Calls \cup {None}
    BY <1>1 DEF IInv, TypeOK, Order
  <2> QED BY <1>1, <2>1, <2>2 DEF SavePay, Saved, IInv, TypeOK, Statuses
<1>4. TypeOK'
  BY <1>2, <1>3 DEF IInv, TypeOK
<1>5. CallOK(c)'
  BY <1>2 DEF IInv, TypeOK, CallOK, Phases
<1>6. \A x \in OrderIds : orders'[x].status = "REFUNDED" => orders[x].status = "REFUNDED"
  BY <1>1 DEF SavePay, Saved, IInv, TypeOK, Updated
<1>7. /\ \A d \in Calls \ {c} : pc'[d] = pc[d]
      /\ pc[c] # "release" /\ pc'[c] # "release"
  BY <1>1, <1>2 DEF IInv, TypeOK
<1> QED BY <1>2, <1>4, <1>5, <1>6, <1>7, MoveInv

-------------------------------------------------------------------------------
(* The environment *)

LEMMA FailsInv ==
  ASSUME IInv, NEW c \in Calls, Fails(c)
  PROVE  IInv'
<1>1. /\ pc' = [pc EXCEPT ![c] = "error"]
      /\ lock' = [t \in TicketTypes |-> IF lock[t] = c THEN None ELSE lock[t]]
      /\ UNCHANGED <<orders, cancelled, sold, draft, req, tickets, at, lines>>
      /\ UNCHANGED <<returns, others, sent>>
  BY DEF Fails, Goto, history
<1>2. TypeOK'
  BY <1>1 DEF IInv, TypeOK
<1>3. CountersExact'
  BY <1>1 DEF IInv, CountersExact, Returned
<1>4. RefundsSettle'
  <2> QED BY <1>1, SettleKept DEF IInv, TypeOK
<1>5. ASSUME NEW d \in Calls PROVE CallOK(d)'
  <2>1. CASE d # c
    BY <1>1, <2>1, OtherCall DEF IInv, TypeOK
  <2>2. CASE d = c
    BY <1>1, <2>2 DEF IInv, TypeOK, CallOK, Phases
  <2> QED BY <2>1, <2>2
<1>6. ASSUME NEW t \in TicketTypes PROVE LockOK(t)'
  <2>1. LockOK(t) /\ lock'[t] = (IF lock[t] = c THEN None ELSE lock[t])
    BY <1>1 DEF IInv
  <2>2. ASSUME NEW d \in Calls
        PROVE  lock'[t] = d <=> pc'[d] = "release" /\ t \in Lines(req'[d].order) \ lines'[d]
    <3>1. pc'[d] = IF d = c THEN "error" ELSE pc[d]
      BY <1>1 DEF IInv, TypeOK
    <3> QED BY <1>1, <2>1, <3>1 DEF LockOK
  <2>3. lock'[t] # None =>
          draft'[t] = sold'[t] - Cardinality(Line(req'[lock'[t]].order, t))
    BY <1>1, <2>1 DEF LockOK
  <2> QED BY <2>2, <2>3 DEF LockOK, Lines, Line, OfOrder
<1> QED BY <1>2, <1>3, <1>4, <1>5, <1>6 DEF IInv

LEMMA OthersInv ==
  ASSUME IInv, NEW u \in TicketTypes, OthersReserve(u) \/ OthersRelease(u)
  PROVE  IInv'
<1>1. PICK i \in {1, -1} : /\ sold' = [sold EXCEPT ![u] = @ + i]
                           /\ others' = [others EXCEPT ![u] = @ + i]
                           /\ others[u] + i \in Int
  BY DEF OthersReserve, OthersRelease, IInv, TypeOK
<1>2. /\ lock[u] = None
      /\ UNCHANGED <<orders, cancelled, lock, draft, pc, req, tickets, at, lines>>
      /\ UNCHANGED <<returns, sent>>
  BY DEF OthersReserve, OthersRelease, calls
<1>3. TypeOK'
  BY <1>1, <1>2 DEF IInv, TypeOK
<1>4. CountersExact'
  <2> SUFFICES ASSUME NEW t \in TicketTypes
               PROVE  sold'[t] + Cardinality(Returned(t)) = Start[t] + others'[t]
    BY <1>2 DEF CountersExact, Returned
  <2>1. /\ sold[t] + Cardinality(Returned(t)) = Start[t] + others[t]
        /\ sold[t] \in Int /\ others[t] \in Int /\ Start[t] \in Nat
    BY DEF IInv, TypeOK, CountersExact
  <2>2. Cardinality(Returned(t)) \in Nat
    BY FS_Subset, FS_CardinalityType DEF Returned, IInv, TypeOK
  <2> QED BY <1>1, <2>1, <2>2 DEF IInv, TypeOK
<1>5. RefundsSettle'
  BY <1>2 DEF IInv, RefundsSettle, Settles, OfOrder, GivenBy
<1>6. ASSUME NEW d \in Calls PROVE CallOK(d)'
  BY <1>2, OtherCall DEF IInv
<1>7. ASSUME NEW t \in TicketTypes PROVE LockOK(t)'
  <2>1. lock[t] = None \/ sold'[t] = sold[t]
    BY <1>1, <1>2 DEF IInv, TypeOK
  <2> QED BY <1>2, <2>1, LocksKept DEF IInv, TypeOK
<1> QED BY <1>3, <1>4, <1>5, <1>6, <1>7 DEF IInv

LEMMA StutterInv == IInv /\ UNCHANGED vars => IInv'
<1> SUFFICES ASSUME IInv, UNCHANGED vars PROVE IInv'
  OBVIOUS
<1>1. /\ UNCHANGED <<orders, cancelled, sold, lock, draft, pc, req, tickets, at, lines>>
      /\ UNCHANGED <<returns, others, sent>>
  BY DEF vars, tables, calls, history
<1>2. TypeOK'
  BY <1>1 DEF IInv, TypeOK
<1>3. CountersExact' /\ RefundsSettle'
  BY <1>1 DEF IInv, CountersExact, Returned, RefundsSettle, Settles, OfOrder, GivenBy
<1>4. ASSUME NEW d \in Calls PROVE CallOK(d)'
  BY <1>1, OtherCall DEF IInv
<1>5. ASSUME NEW t \in TicketTypes PROVE LockOK(t)'
  BY <1>1, LocksKept DEF IInv, TypeOK
<1> QED BY <1>2, <1>3, <1>4, <1>5 DEF IInv

-------------------------------------------------------------------------------
(* The theorems *)

LEMMA InitIInv == Init => IInv
<1> SUFFICES ASSUME Init PROVE IInv
  OBVIOUS
<1>1. TypeOK
  <2>1. orders \in [OrderIds -> Order]
    BY DEF Init, Updated, Order, Statuses
  <2>2. req \in [Calls -> Request]
    BY DEF Init, NoRequest, Request
  <2>3. returns \subseteq Return /\ IsFiniteSet(returns)
    BY FS_EmptySet DEF Init
  <2> QED BY <2>1, <2>2, <2>3 DEF Init, TypeOK
<1>2. CountersExact
  <2>1. \A t \in TicketTypes : Returned(t) = {}
    BY DEF Init, Returned
  <2>2. \A t \in TicketTypes : Cardinality(Returned(t)) = 0
    BY <2>1, FS_EmptySet
  <2> QED BY <2>2 DEF Init, CountersExact
<1>3. RefundsSettle
  BY DEF Init, RefundsSettle, Updated
<1>4. \A c \in Calls : CallOK(c)
  BY DEF Init, CallOK, Phases
<1>5. \A t \in TicketTypes : LockOK(t)
  BY DEF Init, LockOK
<1> QED BY <1>1, <1>2, <1>3, <1>4, <1>5 DEF IInv

LEMMA NextIInv == IInv /\ [Next]_vars => IInv'
<1> SUFFICES ASSUME IInv, [Next]_vars PROVE IInv'
  OBVIOUS
<1>1. ASSUME NEW c \in Calls, Step(c) PROVE IInv'
  BY <1>1, StartRefundInv, CancelTicketInv, CountDownInv, EndTicketsInv, SendInv,
     MarkRefundedInv, StartCancelInv, ReleaseInv, CommitCancelInv, StartPayInv,
     ComparePayInv, SavePayInv, FailsInv DEF Step
<1>2. ASSUME NEW t \in TicketTypes, OthersReserve(t) \/ OthersRelease(t) PROVE IInv'
  BY <1>2, OthersInv
<1>3. CASE UNCHANGED vars
  BY <1>3, StutterInv
<1> QED BY <1>1, <1>2, <1>3 DEF Next

\* The inductive invariant: a refund has given back the tickets it has treated, and
\* a cancellation holds the rows of those it is about to give back.
THEOREM SpecIInv == Spec => []IInv
  BY InitIInv, NextIInv, PTL DEF Spec

\* Each ticket that a refund or a cancellation gives back lowers soldQuantity by one,
\* and nothing else that they do changes it.
THEOREM SpecCountersExact == Spec => []CountersExact
<1>1. IInv => CountersExact
  BY DEF IInv
<1> QED BY <1>1, SpecIInv, PTL

\* While other orders hold what they should, a counter below zero means that more
\* tickets of the type came back than these orders have: one of them came back twice.
THEOREM SpecBelowZeroOnlyByRepeats == Spec => []BelowZeroOnlyByRepeats
<1>1. ASSUME IInv, NEW t \in TicketTypes, sold[t] < 0, ~(OthersHold(t) < 0)
      PROVE  \E r, s \in Returned(t) : r.call # s.call /\ r.ticket = s.ticket
  <2> DEFINE f == [r \in Returned(t) |-> r.ticket]
  <2>1. IsFiniteSet(Returned(t)) /\ IsFiniteSet(OfType(t))
    BY <1>1, FS_Subset DEF IInv, TypeOK, Returned, OfType
  <2>2. /\ sold[t] + Cardinality(Returned(t)) = Start[t] + others[t]
        /\ sold[t] \in Int /\ others[t] \in Int /\ Start[t] \in Nat
    BY <1>1 DEF IInv, TypeOK, CountersExact
  <2>3. Cardinality(Returned(t)) \in Nat /\ Cardinality(OfType(t)) \in Nat
    BY <2>1, FS_CardinalityType
  <2>4. Cardinality(OfType(t)) < Cardinality(Returned(t))
    BY <1>1, <2>2, <2>3 DEF OthersHold
  <2>5. f \in [Returned(t) -> OfType(t)]
    BY <1>1 DEF IInv, TypeOK, Returned, OfType, Return
  <2>6. \E r, s \in Returned(t) : r # s /\ f[r] = f[s]
    <3> HIDE DEF f
    <3> QED BY <2>1, <2>4, <2>5, FS_PigeonHole
  <2> PICK r, s \in Returned(t) : r # s /\ f[r] = f[s]
    BY <2>6
  <2>7. r \in returns /\ s \in returns /\ r.ticket = s.ticket
    BY DEF Returned
  <2>8. r.call # s.call
    BY <1>1, <2>7 DEF IInv, TypeOK, Return
  <2> QED BY <2>7, <2>8
<1>2. IInv => BelowZeroOnlyByRepeats
  BY <1>1 DEF BelowZeroOnlyByRepeats
<1> QED BY <1>2, SpecIInv, PTL

\* REFUNDED, and money sent, mean that a refund went through all tickets of the order.
THEOREM SpecRefundsSettle == Spec => []RefundsSettle
<1>1. IInv => RefundsSettle
  BY DEF IInv
<1> QED BY <1>1, SpecIInv, PTL
===============================================================================
