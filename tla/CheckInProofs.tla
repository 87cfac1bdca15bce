----------------------------- MODULE CheckInProofs ----------------------------
EXTENDS CheckIn, TLAPS

\* The tables and calls the server starts with satisfy the invariant.
LEMMA InitCallsInv == Init => CallsInv
<1> SUFFICES ASSUME Init PROVE CallsInv
  OBVIOUS
<1> USE CheckInAssumption, NoneAssumption
<1>1. TypeOK
  BY DEF Init, TypeOK, NoRequest, Request, Ended, Statuses
<1>2. Custody
  BY DEF Init, Custody, Closed
<1>3. CallsOK /\ ChainsOK /\ UsedOK /\ RefusedAfterAdmission
  BY DEF Init, CallsOK, CallOK, ChainsOK, UsedOK, RefusedAfterAdmission, Statuses,
     Verdicts
<1> QED
  BY <1>1, <1>2, <1>3 DEF CallsInv

\* A call that begins holds the row it read, and what the request says of it.
LEMMA BeginInv ==
  ASSUME CallsInv, NEW c \in Calls, NEW t \in Issued, NEW request \in Request,
         NEW phase \in {"decide", "record", "compare"}, Begin(c, t, request, phase),
         request.ticket = t, request.op \in {"scan", "transfer", "refund"},
         phase = "decide" <=> request.op = "scan",
         phase = "record" <=> request.op = "transfer",
         phase = "record" => request.to \in Users /\ status[t] = "ACTIVE"
  PROVE  CallsInv'
<1> USE CheckInAssumption, NoneAssumption
<1>1. RowOf(t) \in Row
  BY DEF CallsInv, TypeOK, RowOf, Row
<1>2. TypeOK'
  <2>1. late' \subseteq Calls
    BY DEF CallsInv, TypeOK, Begin
  <2> QED
    BY <1>1, <2>1 DEF CallsInv, TypeOK, Begin, Phases, Ended, tables, world
<1>3. /\ \A d \in Calls \ {c} : /\ pc'[d] = pc[d] /\ req'[d] = req[d]
                                /\ seen'[d] = seen[d] /\ verdict'[d] = verdict[d]
      /\ pc'[c] = phase /\ req'[c] = request /\ seen'[c] = RowOf(t)
      /\ verdict'[c] = None /\ verdict[c] = None
  BY DEF CallsInv, TypeOK, CallsOK, CallOK, Begin, Phases, Ended
<1>4. Custody'
  BY DEF CallsInv, Custody, Closed, Begin, tables
<1>5. CallsOK'
  <2> SUFFICES ASSUME NEW d \in Calls
               PROVE  CallOK(d)'
    BY DEF CallsOK
  <2>1. CASE d = c
    BY <1>1, <1>3, <2>1 DEF CallOK, Admits, RowOf
  <2>2. CASE d # c
    BY <1>3, <2>2 DEF CallsInv, CallsOK, CallOK, Admits
  <2> QED
    BY <2>1, <2>2
<1>6. ChainsOK'
  <2> SUFFICES ASSUME NEW d \in Calls, pc'[d] \in {"record", "compare", "write"},
                      NEW S \in SUBSET Users, Closed(req[d].ticket, S)'
               PROVE  seen'[d].owner \in S /\ (pc'[d] # "record" => Owner(d)' \in S)
    BY DEF ChainsOK
  <2>1. Closed(req'[d].ticket, S)
    BY DEF Closed, Begin, tables
  <2>2. CASE d = c
    BY <1>3, <2>1, <2>2 DEF CallsInv, Custody, RowOf, Owner
  <2>3. CASE d # c
    BY <1>3, <2>1, <2>3 DEF CallsInv, ChainsOK, Owner
  <2> QED
    BY <2>2, <2>3
<1>7. \A d \in Calls, k \in Issued : Admits(d, k) => Admits(d, k)' /\ d # c
  BY <1>3 DEF Admits, Verdicts
<1>8. UsedOK'
  BY <1>3, <1>7 DEF CallsInv, UsedOK, CallsOK, CallOK, Begin, tables, RowOf
<1>9. RefusedAfterAdmission'
  <2> SUFFICES ASSUME NEW d \in Calls, verdict'[d] = "ALREADY_USED"
               PROVE  \E e \in Calls \ {d} : Admits(e, req[d].ticket)'
    BY DEF RefusedAfterAdmission
  <2>1. d # c
    BY <1>3 DEF Verdicts
  <2>2. PICK e \in Calls \ {d} : Admits(e, req[d].ticket)
    BY <1>3, <2>1 DEF CallsInv, RefusedAfterAdmission
  <2>3. e # c
    BY <1>3, <2>2 DEF Admits, Verdicts
  <2> QED
    BY <1>3, <2>1, <2>2, <2>3 DEF Admits
<1> QED
  BY <1>2, <1>4, <1>5, <1>6, <1>8, <1>9 DEF CallsInv

\* A scan of a ticket that does not exist.
LEMMA ScanUnknownInv ==
  ASSUME CallsInv, NEW c \in Calls, NEW t \in TicketIds \ Issued, NEW mark \in BOOLEAN,
         ScanUnknown(c, t, mark)
  PROVE  CallsInv'
<1> USE CheckInAssumption, NoneAssumption
<1>1. TypeOK'
  BY DEF CallsInv, TypeOK, ScanUnknown, Phases, Ended, Request, Verdicts, tables, world, history
<1>2. /\ \A d \in Calls \ {c} : /\ pc'[d] = pc[d] /\ req'[d] = req[d]
                                /\ seen'[d] = seen[d] /\ verdict'[d] = verdict[d]
      /\ pc'[c] = "log" /\ req'[c].ticket = t /\ verdict'[c] = "INVALID"
      /\ verdict[c] = None
  BY DEF CallsInv, TypeOK, CallsOK, CallOK, ScanUnknown, Phases, Ended
<1>3. Custody'
  BY DEF CallsInv, Custody, Closed, ScanUnknown, tables
<1>4. CallsOK'
  BY <1>2 DEF CallsInv, CallsOK, CallOK, Admits, Verdicts
<1>5. ChainsOK'
  BY <1>2 DEF CallsInv, ChainsOK, Closed, ScanUnknown, tables, Owner
<1>6. \A d \in Calls, k \in TicketIds : Admits(d, k) => Admits(d, k)' /\ d # c
  BY <1>2 DEF Admits, Verdicts
<1>7. UsedOK'
  BY <1>2, <1>6 DEF CallsInv, UsedOK, CallsOK, CallOK, ScanUnknown, tables
<1>8. RefusedAfterAdmission'
  <2> SUFFICES ASSUME NEW d \in Calls, verdict'[d] = "ALREADY_USED"
               PROVE  \E e \in Calls \ {d} : Admits(e, req[d].ticket)'
    BY DEF RefusedAfterAdmission
  <2>1. d # c
    BY <1>2
  <2>2. PICK e \in Calls \ {d} : Admits(e, req[d].ticket)
    BY <1>2, <2>1 DEF CallsInv, RefusedAfterAdmission
  <2>3. e # c
    BY <1>2, <2>2 DEF Admits, Verdicts
  <2> QED
    BY <1>2, <2>1, <2>2, <2>3 DEF Admits
<1> QED
  BY <1>1, <1>3, <1>4, <1>5, <1>7, <1>8 DEF CallsInv

\* What a step that only moves a call and writes tables needs to show.
LEMMA StepInv ==
  ASSUME CallsInv, NEW c \in Calls, NEW phase \in Phases \cup Ended, Goto(c, phase),
         TypeOK', Custody', UNCHANGED verdict,
         pc[c] \in Phases, phase \in {"log", "compare", "write", "done", "error"},
         phase = "log" => pc[c] = "mark",
         phase = "compare" => pc[c] = "record",
         phase = "write" => pc[c] = "compare",
         transfers \subseteq transfers',
         phase = "compare" => \A S \in SUBSET Users :
           Closed(req[c].ticket, S)' => req[c].to \in S,
         \A t \in Issued : status'[t] = "USED" =>
           status[t] = "USED" \/ \E d \in Calls : Admits(d, t)
  PROVE  CallsInv'
<1>1. /\ pc'[c] = phase
      /\ \A d \in Calls \ {c} : pc'[d] = pc[d]
      /\ req' = req /\ seen' = seen /\ verdict' = verdict
  BY DEF CallsInv, TypeOK, Goto
<1>2. \A d \in Calls, k \in TicketIds : Admits(d, k)' <=> Admits(d, k)
  BY <1>1 DEF Admits
<1>3. CallsOK'
  <2> SUFFICES ASSUME NEW d \in Calls
               PROVE  CallOK(d)'
    BY DEF CallsOK
  <2>1. CASE d = c
    BY <1>1, <2>1, CheckInAssumption DEF CallsInv, CallsOK, CallOK, Admits, Verdicts
  <2>2. CASE d # c
    BY <1>1, <2>2 DEF CallsInv, CallsOK, CallOK, Admits
  <2> QED
    BY <2>1, <2>2
<1>5. ChainsOK'
  <2> SUFFICES ASSUME NEW d \in Calls, pc'[d] \in {"record", "compare", "write"},
                      NEW S \in SUBSET Users, Closed(req[d].ticket, S)'
               PROVE  seen[d].owner \in S /\ (pc'[d] # "record" => Owner(d) \in S)
    BY <1>1 DEF ChainsOK, Owner
  <2>1. pc[d] \in {"record", "compare", "write"} /\ req[d].ticket \in Issued
    BY <1>1 DEF CallsInv, CallsOK, CallOK
  <2>2. Closed(req[d].ticket, S)
    BY <1>1 DEF Closed
  <2>3. d = c /\ phase = "compare" => req[d].op = "transfer"
    BY <1>1 DEF CallsInv, CallsOK, CallOK
  <2> QED
    BY <1>1, <2>1, <2>2, <2>3 DEF CallsInv, ChainsOK, Owner
<1>6. UsedOK'
  BY <1>1, <1>2, CheckInAssumption DEF CallsInv, UsedOK, CallsOK, CallOK
<1>7. RefusedAfterAdmission'
  BY <1>1 DEF CallsInv, RefusedAfterAdmission, Admits
<1> QED
  BY <1>3, <1>5, <1>6, <1>7 DEF CallsInv

\* The verdict is reached once, by a call that has not decided before; a ticket
\* it found used has its check-in.
LEMMA DecideInv ==
  ASSUME CallsInv, NEW c \in Calls, Decide(c)
  PROVE  CallsInv'
<1> USE CheckInAssumption, NoneAssumption
<1>1. Judge(seen[c], now) \in Verdicts
  BY DEF Judge, Verdicts
<1>2. /\ verdict[c] = None /\ verdict'[c] = Judge(seen[c], now)
      /\ pc[c] = "decide" /\ req[c].op = "scan" /\ req[c].ticket \in Issued
      /\ pc'[c] = IF verdict'[c] = "VALID" /\ req[c].mark THEN "mark" ELSE "log"
      /\ \A d \in Calls \ {c} : verdict'[d] = verdict[d] /\ pc'[d] = pc[d]
      /\ req' = req /\ seen' = seen
  BY DEF CallsInv, TypeOK, CallsOK, CallOK, Decide, Goto
<1>3. TypeOK'
  BY <1>1 DEF CallsInv, TypeOK, Decide, Goto, Phases, tables, world
<1>4. Custody'
  BY DEF CallsInv, Custody, Closed, Decide, tables
<1>5. CallsOK'
  <2> SUFFICES ASSUME NEW d \in Calls
               PROVE  CallOK(d)'
    BY DEF CallsOK
  <2>1. CASE d = c
    BY <1>1, <1>2, <2>1 DEF CallOK, Admits
  <2>2. CASE d # c
    BY <1>2, <2>2 DEF CallsInv, CallsOK, CallOK, Admits
  <2> QED
    BY <2>1, <2>2
<1>6. ChainsOK'
  BY <1>2 DEF CallsInv, ChainsOK, Closed, Decide, tables, Owner
<1>7. \A d \in Calls, k \in TicketIds : Admits(d, k) => Admits(d, k)' /\ d # c
  BY <1>2 DEF Admits, Verdicts
<1>8. UsedOK'
  <2>1. \A k \in Issued : status'[k] = "USED" => \E d \in Calls : Admits(d, k)'
    BY <1>7 DEF CallsInv, UsedOK, Decide, tables
  <2>2. ASSUME NEW d \in Calls, pc'[d] = "decide", seen[d].status = "USED"
        PROVE  \E e \in Calls \ {d} : Admits(e, req[d].ticket)'
    <3>1. d # c /\ pc[d] = "decide" /\ req[d].ticket \in TicketIds
      BY <1>2, <2>2 DEF CallsInv, CallsOK, CallOK
    <3>2. PICK e \in Calls \ {d} : Admits(e, req[d].ticket)
      BY <2>2, <3>1 DEF CallsInv, UsedOK
    <3> QED
      BY <1>2, <1>7, <3>1, <3>2 DEF Admits
  <2> QED
    BY <1>2, <2>1, <2>2 DEF UsedOK
<1>9. RefusedAfterAdmission'
  <2> SUFFICES ASSUME NEW d \in Calls, verdict'[d] = "ALREADY_USED"
               PROVE  \E e \in Calls \ {d} : Admits(e, req[d].ticket)'
    BY DEF RefusedAfterAdmission
  <2>1. PICK e \in Calls \ {d} : Admits(e, req[d].ticket)
    <3>1. CASE d = c
      BY <1>2, <3>1 DEF CallsInv, UsedOK, Judge
    <3>2. CASE d # c
      BY <1>2, <3>2 DEF CallsInv, RefusedAfterAdmission
    <3> QED
      BY <3>1, <3>2
  <2>2. e # c
    BY <1>2, <2>1 DEF Admits, Verdicts
  <2> QED
    BY <1>2, <2>1, <2>2 DEF Admits
<1> QED
  BY <1>3, <1>4, <1>5, <1>6, <1>8, <1>9 DEF CallsInv

\* A row of a transfer extends the chain from the owner that was read, which the
\* chain of transfers leads to, to the buyer.
LEMMA RecordInv ==
  ASSUME CallsInv, NEW c \in Calls, Record(c)
  PROVE  CallsInv'
<1> USE CheckInAssumption
<1>1. /\ pc[c] = "record" /\ seen[c] \in Row
      /\ req[c].ticket \in Issued /\ req[c].to \in Users
  BY DEF CallsInv, CallsOK, CallOK, Record
<1>2. TypeOK'
  BY <1>1 DEF CallsInv, TypeOK, Record, Goto, Phases, Transfer, Row, world
<1>3. transfers \subseteq transfers' /\ UNCHANGED <<owner, status, verdict>>
  BY DEF Record
<1>4. \A t \in Issued, S \in SUBSET Users : Closed(t, S)' => Closed(t, S)
  BY <1>3 DEF Closed
<1>5. Custody'
  BY <1>3, <1>4 DEF CallsInv, Custody
<1>6. ASSUME NEW S \in SUBSET Users, Closed(req[c].ticket, S)'
      PROVE  req[c].to \in S
  <2>1. seen[c].owner \in S
    BY <1>1, <1>6 DEF CallsInv, ChainsOK, Closed, Record, Goto
  <2>2. [ticket |-> req[c].ticket, from |-> seen[c].owner, to |-> req[c].to]
          \in transfers' /\ req' = req
    BY DEF Record, Goto
  <2> QED
    BY <1>6, <2>1, <2>2 DEF Closed
<1>7. pc[c] \in Phases /\ Goto(c, "compare") /\ "compare" \in Phases
  BY <1>1 DEF Record, Phases
<1> QED
  BY <1>1, <1>2, <1>3, <1>5, <1>6, <1>7, StepInv

\* The comparison of a save changes no row.
LEMMA CompareInv ==
  ASSUME CallsInv, NEW c \in Calls, Compare(c)
  PROVE  CallsInv'
<1>1. /\ pc[c] = "compare" /\ pc[c] \in Phases /\ "write" \in Phases
      /\ Goto(c, "write") /\ UNCHANGED <<transfers, verdict, owner, status>>
  BY DEF Compare, Phases, tables
<1>2. TypeOK'
  <2>1. diff' \in [Calls -> SUBSET Columns]
    BY DEF CallsInv, TypeOK, Compare
  <2> QED
    BY <1>1, <2>1 DEF CallsInv, TypeOK, Compare, Goto, tables, world
<1>3. Custody'
  BY <1>1 DEF CallsInv, Custody, Closed
<1> QED
  BY <1>1, <1>2, <1>3, StepInv

\* The owner that a save writes is on the chain: the buyer of a recorded transfer,
\* or the owner that was read.  It never writes USED.
LEMMA WriteInv ==
  ASSUME CallsInv, NEW c \in Calls, Write(c)
  PROVE  CallsInv'
<1>1. /\ pc[c] = "write" /\ req[c].ticket \in Issued
      /\ UNCHANGED <<transfers, verdict, req>>
      /\ Owner(c) \in Users /\ Status(c) \in {"ACTIVE", "REFUNDED"}
  BY DEF CallsInv, CallsOK, CallOK, Write, Goto, Row, Owner, Status
<1>2. /\ owner' \in {owner, [owner EXCEPT ![req[c].ticket] = Owner(c)]}
      /\ status' \in {status, [status EXCEPT ![req[c].ticket] = Status(c)]}
  BY DEF Write
<1>3. TypeOK'
  <2>1. status' \in [Issued -> Statuses] /\ owner' \in [Issued -> Users]
    BY <1>1, <1>2 DEF CallsInv, TypeOK, Statuses
  <2> QED
    BY <1>1, <2>1 DEF CallsInv, TypeOK, Write, Goto, Ended, world
<1>4. Custody'
  <2>1. \A S \in SUBSET Users : Closed(req[c].ticket, S) => Owner(c) \in S
    BY <1>1 DEF CallsInv, ChainsOK
  <2> QED
    BY <1>1, <1>2, <2>1 DEF CallsInv, Custody, Closed, TypeOK
<1>5. \A t \in Issued : status'[t] = "USED" => status[t] = "USED"
  BY <1>1, <1>2 DEF CallsInv, TypeOK
<1>6. pc[c] \in Phases /\ Goto(c, "done") /\ "done" \in Ended
  BY <1>1 DEF Write, Phases, Ended
<1> QED
  BY <1>1, <1>3, <1>4, <1>5, <1>6, StepInv

\* A ticket is marked by a check-in that found it valid.
LEMMA MarkInv ==
  ASSUME CallsInv, NEW c \in Calls, Mark(c)
  PROVE  CallsInv'
<1>1. /\ pc[c] = "mark" /\ req[c].ticket \in Issued /\ Admits(c, req[c].ticket)
      /\ UNCHANGED <<transfers, verdict, req, owner>>
  BY DEF CallsInv, CallsOK, CallOK, Mark, Goto
<1>2. TypeOK'
  BY <1>1 DEF CallsInv, TypeOK, Mark, Goto, Phases, Statuses, world
<1>3. Custody'
  BY <1>1 DEF CallsInv, Custody, Closed
<1>4. \A t \in Issued : status'[t] = "USED" =>
        status[t] = "USED" \/ \E d \in Calls : Admits(d, t)
  BY <1>1 DEF CallsInv, TypeOK, Mark
<1>5. pc[c] \in Phases /\ Goto(c, "log") /\ "log" \in Phases
  BY <1>1 DEF Mark, Phases
<1> QED
  BY <1>1, <1>2, <1>3, <1>4, <1>5, StepInv

\* A refund of the order uses no ticket up.
LEMMA RefundOrderInv ==
  ASSUME CallsInv, NEW c \in Calls, NEW t \in Issued, RefundOrder(c, t)
  PROVE  CallsInv'
<1>1. /\ pc[c] = "new" /\ verdict[c] = None
      /\ status' = [status EXCEPT ![t] = "CANCELLED"] /\ pc' = [pc EXCEPT ![c] = "done"]
      /\ UNCHANGED <<owner, transfers, log, event, now, seen, diff, verdict, history>>
  BY DEF RefundOrder, world, CallsInv, CallsOK, CallOK
<1>2. TypeOK'
  <2>1. req' \in [Calls -> Request]
    BY CheckInAssumption DEF CallsInv, TypeOK, RefundOrder, Request
  <2> QED
    BY <1>1, <2>1 DEF CallsInv, TypeOK, Statuses, Ended, history
<1>3. /\ \A d \in Calls \ {c} : pc'[d] = pc[d] /\ req'[d] = req[d]
      /\ pc'[c] = "done"
  BY <1>1 DEF CallsInv, TypeOK, RefundOrder
<1>4. Custody' /\ ChainsOK'
  BY <1>1, <1>3 DEF CallsInv, Custody, ChainsOK, Closed, Owner
<1>8. \A d \in Calls : \A k : Admits(d, k) => Admits(d, k)' /\ d # c
  BY <1>1, <1>3, NoneAssumption DEF Admits, Verdicts
<1>5. CallsOK' /\ RefusedAfterAdmission'
  <2>1. CallsOK'
    BY <1>1, <1>3 DEF CallsInv, CallsOK, CallOK, Admits
  <2>2. RefusedAfterAdmission'
    <3> SUFFICES ASSUME NEW d \in Calls, verdict[d] = "ALREADY_USED"
                 PROVE  \E e \in Calls \ {d} : Admits(e, req[d].ticket)'
      BY <1>1 DEF RefusedAfterAdmission
    <3>1. d # c
      BY <1>1, NoneAssumption DEF Verdicts
    <3>2. PICK e \in Calls \ {d} : Admits(e, req[d].ticket)
      BY DEF CallsInv, RefusedAfterAdmission
    <3> QED
      BY <1>3, <1>8, <3>1, <3>2 DEF Admits
  <2> QED
    BY <2>1, <2>2
<1>6. \A k \in Issued : status'[k] = "USED" => status[k] = "USED"
  BY <1>1 DEF CallsInv, TypeOK
<1>7. UsedOK'
  <2>1. \A d \in Calls : pc'[d] = "decide" => d # c
    BY <1>3
  <2> QED
    BY <1>1, <1>3, <1>6, <1>8, <2>1 DEF CallsInv, UsedOK
<1> QED
  BY <1>2, <1>4, <1>5, <1>7 DEF CallsInv

\* The entry of the log, and a call that fails, change neither ticket nor verdict.
LEMMA EndInv ==
  ASSUME CallsInv, NEW c \in Calls, Log(c) \/ Fails(c)
  PROVE  CallsInv'
<1>1. /\ pc[c] \in Phases
      /\ UNCHANGED <<transfers, verdict, req, owner, status>>
      /\ \E phase \in {"done", "error"} : Goto(c, phase)
  BY DEF Log, Fails, Phases, Goto, tables
<1>2. TypeOK'
  <2>1. log' \subseteq Entry
    BY NoneAssumption
    DEF CallsInv, TypeOK, CallsOK, CallOK, Log, Fails, tables, Entry, Request
  <2> QED
    BY <1>1, <2>1 DEF CallsInv, TypeOK, Log, Fails, Goto, Ended, world
<1>3. Custody'
  BY <1>1 DEF CallsInv, Custody, Closed
<1> QED
  BY <1>1, <1>2, <1>3, StepInv DEF Ended

-------------------------------------------------------------------------------
\* Every step preserves the invariant.
LEMMA NextCallsInv == CallsInv /\ [Next]_vars => CallsInv'
<1> SUFFICES ASSUME CallsInv, [Next]_vars PROVE CallsInv'
  OBVIOUS
<1> USE CheckInAssumption
<1>1. CASE UNCHANGED vars
  BY <1>1 DEF vars, tables, world, history, CallsInv, TypeOK, Custody, Closed, CallsOK, CallOK,
     ChainsOK, UsedOK, RefusedAfterAdmission, Admits, Owner
<1>2. ASSUME NEW c \in Calls, NEW t \in Issued, NEW mark \in BOOLEAN, Scan(c, t, mark)
      PROVE  CallsInv'
  <2> DEFINE r == [op |-> "scan", ticket |-> t, mark |-> mark, to |-> None]
  <2>1. r \in Request /\ r.op = "scan" /\ r.op # "transfer" /\ r.ticket = t /\ Begin(c, t, r, "decide")
    BY <1>2 DEF Request, Scan
  <2> HIDE DEF r
  <2> QED
    BY <2>1, BeginInv
<1>3. ASSUME NEW c \in Calls, NEW t \in Issued, NEW from \in Users, NEW to \in Users,
             StartTransfer(c, t, from, to)
      PROVE  CallsInv'
  <2> DEFINE r == [op |-> "transfer", ticket |-> t, mark |-> FALSE, to |-> to]
  <2>1. /\ r \in Request /\ r.op # "scan" /\ r.ticket = t /\ r.to \in Users
        /\ status[t] = "ACTIVE" /\ r.op = "transfer" /\ Begin(c, t, r, "record")
    BY <1>3 DEF Request, StartTransfer
  <2> HIDE DEF r
  <2> QED
    BY <2>1, BeginInv
<1>4. ASSUME NEW c \in Calls, NEW t \in Issued, StartRefund(c, t)
      PROVE  CallsInv'
  <2> DEFINE r == [op |-> "refund", ticket |-> t, mark |-> FALSE, to |-> None]
  <2>1. /\ r \in Request /\ r.op = "refund" /\ r.ticket = t
        /\ Begin(c, t, r, "compare")
    BY <1>4 DEF Request, StartRefund
  <2> HIDE DEF r
  <2> QED
    BY <2>1, BeginInv
<1>5. ASSUME NEW c \in Calls, Step(c)
      PROVE  CallsInv'
  BY <1>2, <1>3, <1>4, <1>5, RefundOrderInv, ScanUnknownInv, DecideInv, MarkInv, RecordInv, CompareInv,
     WriteInv, EndInv
  DEF Step
<1>6. CASE Tick \/ \E row \in EventRows : EventChanges(row)
  <2>1. TypeOK'
    BY <1>6 DEF CallsInv, TypeOK, Tick, EventChanges, tables, history
  <2>2. UNCHANGED <<tables, pc, req, seen, diff, verdict>>
    BY <1>6 DEF Tick, EventChanges
  <2> QED
    BY <2>1, <2>2 DEF tables, CallsInv, Custody, Closed, CallsOK, CallOK, ChainsOK, UsedOK,
       RefusedAfterAdmission, Admits, Owner
<1> QED
  BY <1>1, <1>5, <1>6 DEF Next

-------------------------------------------------------------------------------
(* Tickets that have been marked *)

\* What may have taken a ticket back stays, since a call keeps its request.
LEMMA TakenBackKept ==
  ASSUME CallsInv, crossed \subseteq crossed',
         \A e \in Calls : req'[e] = req[e] \/ pc[e] = "new"
  PROVE  \A t \in TicketIds : TakenBack(t) => TakenBack(t)'
<1> SUFFICES ASSUME NEW t \in TicketIds, TakenBack(t) PROVE TakenBack(t)'
  OBVIOUS
<1>1. PICK e \in Calls : /\ req[e].ticket = t
                         /\ req[e].op \in {"refund", "refundOrder"} \/ e \in crossed
  BY DEF TakenBack
<1>2. pc[e] # "new"
  BY <1>1, NoneAssumption DEF CallsInv, CallsOK, CallOK, NoRequest
<1> QED
  BY <1>1, <1>2 DEF TakenBack

\* A call that has not begun has no ticket.
LEMMA NewIsNotLate ==
  ASSUME CallsInv, MarksOK, NEW c \in Calls, pc[c] = "new"
  PROVE  c \notin late /\ req[c] = NoRequest /\ verdict[c] = None
BY NoneAssumption, CheckInAssumption
   DEF CallsInv, TypeOK, MarksOK, CallsOK, CallOK, NoRequest

\* What a step of a call under way that marks nothing needs to show.
LEMMA MoveMarks ==
  ASSUME CallsInv, MarksOK, UsedStaysUsed, NEW c \in Calls, pc[c] \in Phases,
         pc'[c] # "decide", \A d \in Calls \ {c} : pc'[d] = pc[d],
         UNCHANGED <<req, seen, history>>,
         \A d \in Calls : verdict'[d] = "VALID" =>
           verdict[d] = "VALID" \/ (d \in late => TakenBack(req[d].ticket)),
         \A t \in marked : status[t] = "USED" => status'[t] = "USED" \/ TakenBack(t)
  PROVE  MarksOK' /\ UsedStaysUsed'
<1>1. /\ req' = req /\ seen' = seen /\ marked' = marked /\ late' = late
      /\ \A t : TakenBack(t)' <=> TakenBack(t)
  BY DEF history, TakenBack
<1>2. \A d \in Calls : pc'[d] \in Phases => pc[d] \in Phases
  OBVIOUS
<1>3. \A d \in Calls : pc'[d] = "decide" => pc[d] = "decide"
  OBVIOUS
<1>4. MarksOK'
  BY <1>1, <1>2, <1>3 DEF MarksOK
<1>5. UsedStaysUsed'
  BY <1>1 DEF UsedStaysUsed, CallsInv, TypeOK
<1> QED
  BY <1>4, <1>5

LEMMA QuietMarks ==
  ASSUME CallsInv, MarksOK, UsedStaysUsed, NEW c \in Calls,
         Log(c) \/ Record(c) \/ Compare(c) \/ Fails(c)
  PROVE  MarksOK' /\ UsedStaysUsed'
<1>1. /\ pc[c] \in Phases /\ pc'[c] # "decide" /\ \A d \in Calls \ {c} : pc'[d] = pc[d]
      /\ UNCHANGED <<req, seen, history, verdict, status>>
  BY DEF CallsInv, TypeOK, Log, Record, Compare, Fails, Goto, Phases, tables, history
<1> QED
  BY <1>1, MoveMarks

\* A late scan was read USED, and is not valid.
LEMMA DecideMarks ==
  ASSUME CallsInv, MarksOK, UsedStaysUsed, NEW c \in Calls, Decide(c)
  PROVE  MarksOK' /\ UsedStaysUsed'
<1>1. /\ pc[c] = "decide" /\ pc[c] \in Phases /\ pc'[c] # "decide"
      /\ \A d \in Calls \ {c} : pc'[d] = pc[d] /\ verdict'[d] = verdict[d]
      /\ verdict'[c] = Judge(seen[c], now)
      /\ UNCHANGED <<req, seen, history, status>>
  BY DEF CallsInv, TypeOK, Decide, Goto, Phases, tables, history
<1>2. verdict'[c] = "VALID" => seen[c].status # "USED"
  BY <1>1 DEF Judge
<1>3. verdict'[c] = "VALID" /\ c \in late => TakenBack(req[c].ticket)
  BY <1>1, <1>2 DEF MarksOK
<1> QED
  BY <1>1, <1>3, MoveMarks

\* A save writes over the USED of a check-in only when it is a refund's, or that of
\* a transfer that the check-in crossed.
LEMMA WriteMarks ==
  ASSUME CallsInv, MarksOK, UsedStaysUsed, NEW c \in Calls, Write(c)
  PROVE  MarksOK' /\ UsedStaysUsed'
<1>1. /\ pc[c] = "write" /\ pc[c] \in Phases /\ pc'[c] # "decide"
      /\ \A d \in Calls \ {c} : pc'[d] = pc[d]
      /\ UNCHANGED <<req, seen, history, verdict>>
  BY DEF CallsInv, TypeOK, Write, Goto, Phases, history
<1>2. req[c].op \in {"transfer", "refund"}
  BY <1>1 DEF CallsInv, CallsOK, CallOK
<1>3. ASSUME NEW t \in marked, status[t] = "USED"
      PROVE  status'[t] = "USED" \/ TakenBack(t)
  <2>1. CASE t = req[c].ticket
    BY <1>1, <1>2, <2>1 DEF MarksOK, TakenBack
  <2>2. CASE t # req[c].ticket
    BY <1>3, <2>2 DEF Write, CallsInv, TypeOK
  <2> QED
    BY <2>1, <2>2
<1> QED
  BY <1>1, <1>3, MoveMarks

\* A call that reads a marked ticket finds it USED, or it may have been taken back.
LEMMA BeginMarks ==
  ASSUME CallsInv, MarksOK, UsedStaysUsed, NEW c \in Calls, NEW t \in Issued,
         NEW request, NEW phase, Begin(c, t, request, phase), request.ticket = t,
         request.op = "transfer" => status[t] = "ACTIVE"
  PROVE  MarksOK' /\ UsedStaysUsed'
<1>1. /\ pc[c] = "new" /\ c \notin late /\ verdict[c] = None
      /\ \A d \in Calls \ {c} : /\ req'[d] = req[d] /\ seen'[d] = seen[d]
                                /\ pc'[d] = pc[d] /\ (d \in late' <=> d \in late)
      /\ req'[c] = request /\ seen'[c].status = status[t]
      /\ marked' = marked /\ crossed' = crossed /\ status' = status /\ verdict' = verdict
      /\ late' \subseteq Calls /\ (c \in late' <=> t \in marked)
  BY NewIsNotLate DEF CallsInv, TypeOK, Begin, RowOf, tables
<1>2. \A k \in TicketIds : TakenBack(k) => TakenBack(k)'
  BY <1>1, TakenBackKept
<1>3. marked \subseteq TicketIds
  BY CheckInAssumption DEF CallsInv, TypeOK
<1>4. t \in marked /\ status[t] # "USED" => TakenBack(t)'
  BY <1>2, <1>3 DEF TakenBack, MarksOK
<1>5. MarksOK'
  <2>1. \A k \in marked' : status'[k] = "USED" \/ TakenBack(k)'
    BY <1>1, <1>2, <1>3 DEF TakenBack, MarksOK
  <2>2. ASSUME NEW d \in Calls, req'[d].ticket \in marked'
        PROVE  /\ d \in late' /\ pc'[d] = "decide" /\ seen'[d].status # "USED" =>
                    TakenBack(req[d].ticket)'
               /\ req'[d].op = "transfer" /\ pc'[d] \in Phases => TakenBack(req[d].ticket)'
    <3>1. CASE d = c
      BY <1>1, <1>4, <2>2, <3>1
    <3>2. CASE d # c
      BY <1>1, <1>2, <1>3, <2>2, <3>2 DEF TakenBack, MarksOK
    <3> QED
      BY <3>1, <3>2
  <2>3. \A d \in late' : req'[d].ticket \in marked'
    BY <1>1 DEF MarksOK
  <2> QED
    BY <2>1, <2>2, <2>3 DEF MarksOK, TakenBack
<1>6. UsedStaysUsed'
  <2> SUFFICES ASSUME NEW d \in late', verdict'[d] = "VALID" \/ req'[d].op = "transfer"
               PROVE  TakenBack(req[d].ticket)'
    BY DEF UsedStaysUsed, TakenBack
  <2>1. CASE d = c
    BY <1>1, <1>4, <2>1, NoneAssumption DEF Verdicts
  <2>2. CASE d # c
    <3>1. d \in late /\ d \in Calls /\ req[d].ticket \in TicketIds
      BY <1>1, <1>3, <2>2 DEF MarksOK
    <3> QED
      BY <1>1, <1>2, <2>2, <3>1 DEF TakenBack, UsedStaysUsed
  <2> QED
    BY <2>1, <2>2
<1> QED
  BY <1>5, <1>6

\* The calls that read the ticket before its first mark are not late, and the
\* transfers among them cross it.
LEMMA MarkMarks ==
  ASSUME CallsInv, MarksOK, UsedStaysUsed, NEW c \in Calls, Mark(c)
  PROVE  MarksOK' /\ UsedStaysUsed'
<1> DEFINE t == req[c].ticket
<1>1. /\ pc[c] = "mark" /\ t \in Issued /\ pc'[c] = "log"
      /\ \A d \in Calls \ {c} : pc'[d] = pc[d]
      /\ req' = req /\ seen' = seen /\ late' = late /\ verdict' = verdict
      /\ marked' = marked \cup {t} /\ crossed \subseteq crossed' /\ crossed' \subseteq Calls
      /\ status'[t] = "USED" /\ \A k \in Issued \ {t} : status'[k] = status[k]
      /\ late \subseteq Calls /\ marked \subseteq Issued
  BY DEF CallsInv, TypeOK, CallsOK, CallOK, Mark, Goto
<1>2. \A k \in TicketIds : TakenBack(k) => TakenBack(k)'
  BY <1>1, TakenBackKept
<1>3. Issued \subseteq TicketIds
  BY CheckInAssumption
<1>4. ASSUME NEW d \in Calls, req[d].op = "transfer", pc[d] \in Phases, req[d].ticket = t
      PROVE  TakenBack(t)'
  <2>1. d \in crossed'
    BY <1>4 DEF Mark
  <2> QED
    BY <1>1, <1>4, <2>1 DEF TakenBack
<1>5. \A d \in Calls : pc'[d] \in Phases => pc[d] \in Phases
  BY <1>1 DEF Phases
<1>6. MarksOK'
  <2>1. \A k \in marked' : status'[k] = "USED" \/ TakenBack(k)'
    BY <1>1, <1>2, <1>3 DEF TakenBack, MarksOK
  <2>2. ASSUME NEW d \in Calls, req[d].ticket \in marked'
        PROVE  /\ d \in late /\ pc'[d] = "decide" /\ seen[d].status # "USED" =>
                    TakenBack(req[d].ticket)'
               /\ req[d].op = "transfer" /\ pc'[d] \in Phases => TakenBack(req[d].ticket)'
    <3> HIDE DEF t
    <3>1. d \in late => req[d].ticket \in marked
      BY DEF MarksOK
    <3>2. req[d].ticket \in TicketIds
      BY <1>1, <1>3, <2>2
    <3>3. d \in late /\ pc'[d] = "decide" /\ seen[d].status # "USED" =>
            TakenBack(req[d].ticket)'
      BY <1>1, <1>2, <3>1, <3>2 DEF TakenBack, MarksOK
    <3>4. ASSUME req[d].op = "transfer", pc'[d] \in Phases
          PROVE  TakenBack(req[d].ticket)'
      <4>1. CASE req[d].ticket = t
        BY <1>1, <1>4, <1>5, <3>4, <4>1 DEF t, TakenBack
      <4>2. CASE req[d].ticket # t
        BY <1>1, <1>2, <1>5, <2>2, <3>2, <3>4, <4>2 DEF TakenBack, MarksOK
      <4> QED
        BY <4>1, <4>2
    <3> QED
      BY <3>3, <3>4
  <2>3. \A d \in late : req[d].ticket \in marked'
    BY <1>1 DEF MarksOK
  <2> QED
    BY <1>1, <2>1, <2>2, <2>3 DEF MarksOK
<1>7. UsedStaysUsed'
  <2>1. \A d \in late : req[d].ticket \in TicketIds
    BY <1>1, <1>3 DEF MarksOK
  <2> QED
    BY <1>1, <1>2, <2>1 DEF TakenBack, UsedStaysUsed
<1> QED
  BY <1>6, <1>7

\* An unknown ticket is not marked; a refund of the order takes its ticket back.
LEMMA OtherMarks ==
  ASSUME CallsInv, MarksOK, UsedStaysUsed, NEW c \in Calls,
         \/ \E t \in TicketIds \ Issued, mark \in BOOLEAN : ScanUnknown(c, t, mark)
         \/ \E t \in Issued : RefundOrder(c, t)
  PROVE  MarksOK' /\ UsedStaysUsed'
<1>1. PICK k \in TicketIds :
        /\ pc[c] = "new" /\ pc'[c] # "decide" /\ \A d \in Calls \ {c} : pc'[d] = pc[d]
        /\ req'[c].ticket = k /\ req'[c].op # "transfer"
        /\ \A d \in Calls \ {c} : /\ req'[d] = req[d] /\ verdict'[d] = verdict[d]
        /\ seen' = seen /\ UNCHANGED history
        /\ \/ status' = status /\ k \notin Issued
           \/ status' = [status EXCEPT ![k] = "CANCELLED"] /\ req'[c].op = "refundOrder"
  BY CheckInAssumption DEF ScanUnknown, RefundOrder, CallsInv, TypeOK, tables, world
<1>2. /\ marked' = marked /\ late' = late /\ crossed' = crossed
      /\ marked \subseteq Issued /\ late \subseteq Calls /\ c \notin late
      /\ marked \subseteq TicketIds
  BY <1>1, NewIsNotLate, CheckInAssumption DEF history, CallsInv, TypeOK
<1>3. \A t \in TicketIds : TakenBack(t) => TakenBack(t)'
  BY <1>1, <1>2, TakenBackKept
<1>4. ASSUME NEW t \in marked PROVE status'[t] = "USED" \/ TakenBack(t)'
  <2>1. CASE t = k
    BY <1>1, <1>2, <2>1 DEF TakenBack
  <2>2. CASE t # k
    BY <1>1, <1>2, <1>3, <2>2 DEF TakenBack, MarksOK, CallsInv, TypeOK
  <2> QED
    BY <2>1, <2>2
<1>5. MarksOK'
  <2>1. ASSUME NEW d \in Calls, req'[d].ticket \in marked
        PROVE  /\ d \in late /\ pc'[d] = "decide" /\ seen[d].status # "USED" =>
                    TakenBack(req[d].ticket)'
               /\ req'[d].op = "transfer" /\ pc'[d] \in Phases => TakenBack(req[d].ticket)'
    <3>1. CASE d = c
      BY <1>1, <1>2, <3>1
    <3>2. CASE d # c
      BY <1>1, <1>2, <1>3, <2>1, <3>2 DEF TakenBack, MarksOK
    <3> QED
      BY <3>1, <3>2
  <2>2. \A d \in late : req'[d].ticket \in marked
    BY <1>1, <1>2 DEF TakenBack, MarksOK
  <2> QED
    BY <1>1, <1>2, <1>4, <2>1, <2>2 DEF TakenBack, MarksOK
<1>6. UsedStaysUsed'
  <2>1. \A d \in late : req[d].ticket \in TicketIds /\ req'[d] = req[d] /\ verdict'[d] = verdict[d]
    BY <1>1, <1>2 DEF TakenBack, MarksOK
  <2> QED
    BY <1>2, <1>3, <2>1 DEF TakenBack, UsedStaysUsed
<1> QED
  BY <1>5, <1>6

LEMMA NextMarks ==
  ASSUME CallsInv, MarksOK, UsedStaysUsed, [Next]_vars
  PROVE  MarksOK' /\ UsedStaysUsed'
<1>1. ASSUME NEW c \in Calls,
             \/ \E t \in Issued, mark \in BOOLEAN : Scan(c, t, mark)
             \/ \E t \in Issued, from, to \in Users : StartTransfer(c, t, from, to)
             \/ \E t \in Issued : StartRefund(c, t)
      PROVE  MarksOK' /\ UsedStaysUsed'
  <2>1. PICK t \in Issued, request \in {req'[c]}, phase \in {"decide", "record", "compare"} :
          /\ Begin(c, t, request, phase) /\ request.ticket = t
          /\ request.op = "transfer" => status[t] = "ACTIVE"
    BY <1>1 DEF Scan, StartTransfer, StartRefund, Begin, CallsInv, TypeOK
  <2> QED
    BY <2>1, BeginMarks
<1>2. CASE UNCHANGED <<tables, pc, req, seen, diff, verdict, history>>
  BY <1>2 DEF tables, history, MarksOK, UsedStaysUsed, TakenBack
<1> QED
  BY <1>1, <1>2, QuietMarks, DecideMarks, WriteMarks, MarkMarks, OtherMarks
  DEF Next, Step, Tick, EventChanges, vars

-------------------------------------------------------------------------------
(* The theorems *)

LEMMA InitIInv == Init => IInv
BY InitCallsInv, NoneAssumption DEF Init, IInv, MarksOK, UsedStaysUsed

LEMMA NextIInv == IInv /\ [Next]_vars => IInv'
BY NextCallsInv, NextMarks DEF IInv

\* The inductive invariant: what calls read was true, and the owner that a save is about
\* to write is on a chain of recorded transfers.
THEOREM SpecIInv == Spec => []IInv
BY InitIInv, NextIInv, PTL DEF Spec

\* Rows, requests and verdicts have their types.
THEOREM SpecTypeOK == Spec => []TypeOK
<1>1. IInv => TypeOK
  BY DEF IInv, CallsInv
<1> QED
  BY <1>1, SpecIInv, PTL

\* A chain of recorded transfers leads from the first owner of a ticket to its
\* present owner, for any number of calls that transfer, scan and refund it.
THEOREM SpecCustody == Spec => []Custody
<1>1. IInv => Custody
  BY DEF IInv, CallsInv
<1> QED
  BY <1>1, SpecIInv, PTL

\* verifyTicket answers ALREADY_USED only when another call, a check-in, found the
\* ticket valid.
THEOREM SpecRefusedAfterAdmission == Spec => []RefusedAfterAdmission
<1>1. IInv => RefusedAfterAdmission
  BY DEF IInv, CallsInv
<1> QED
  BY <1>1, SpecIInv, PTL

\* Once a check-in has marked a ticket, later scans refuse it and later transfers do
\* not start, unless a refund or a transfer that it crossed came in.
THEOREM SpecUsedStaysUsed == Spec => []UsedStaysUsed
<1>1. IInv => UsedStaysUsed
  BY DEF IInv
<1> QED
  BY <1>1, SpecIInv, PTL
===============================================================================
