-------------------------------- MODULE CheckIn --------------------------------
(***************************************************************************)
(* The tickets of one event at the door and between users:                 *)
(* VerificationService.verifyTicket and TicketsService.transfer and        *)
(* refundTicket, as concurrent calls without transactions.  Each reads the *)
(* ticket, decides, and writes after one or more awaits.  save() is two    *)
(* statements: it reads the row again, and then writes the columns in      *)
(* which the entity differed from it.                                      *)
(*                                                                         *)
(* A call is made once, so that what it decided can be told afterwards.    *)
(***************************************************************************)
EXTENDS Integers

CONSTANTS
  TicketIds,  \* what a scanner may send as the id of a ticket
  Issued,     \* the tickets that exist
  Users,      \* the users who own tickets and take them over
  Holder,     \* the first owner of each ticket
  EventRows,  \* the rows the event may have while the calls run
  Horizon,    \* bound of the clock
  Calls,      \* the calls made
  None        \* an absent id, user, row, date or verdict

ASSUME CheckInAssumption ==
  /\ Issued \subseteq TicketIds
  /\ Holder \in [Issued -> Users]
  /\ EventRows \subseteq [cancelled : BOOLEAN, opens : Nat, closes : Nat \cup {None}]
  /\ Horizon \in Nat

VARIABLES
  status,     \* the status column of each ticket
  owner,      \* its userId column
  transfers,  \* rows of ticket_transfers
  log,        \* rows of verification_logs
  event,      \* the row of the event
  now,        \* the clock of the server
  pc,         \* where each call is, or how it ended
  req,        \* what it was asked
  seen,       \* the ticket and the event it read
  diff,       \* the columns its save is about to write
  verdict,    \* what verifyTicket decided
  marked,     \* history: the tickets that a check-in has marked
  late,       \* history: the calls that read their ticket after that
  crossed     \* history: the transfers that were under way when it was marked

tables  == <<status, owner, transfers, log>>
world   == <<event, now>>
history == <<marked, late, crossed>>
vars    == <<tables, world, pc, req, seen, diff, verdict, history>>

-------------------------------------------------------------------------------
(* Rows, requests and verdicts *)

Statuses == {"ACTIVE", "USED", "REFUNDED", "CANCELLED"}
Columns  == {"owner", "status"}
Verdicts == {"VALID", "INVALID", "ALREADY_USED", "CANCELLED", "EVENT_NOT_STARTED",
             "EVENT_ENDED"}

Request  == [op : {"none", "scan", "transfer", "refund", "refundOrder"},
             ticket : TicketIds \cup {None}, mark : BOOLEAN, to : Users \cup {None}]
Row      == [status : Statuses, owner : Users, event : EventRows]
Transfer == [ticket : Issued, from : Users, to : Users]
Entry    == [ticket : TicketIds, status : Verdicts, mark : BOOLEAN]

ASSUME NoneAssumption ==
  None \notin TicketIds \cup Users \cup Row \cup Verdicts

NoRequest == [op |-> "none", ticket |-> None, mark |-> FALSE, to |-> None]

Ended  == {"new", "done", "error"}
Phases == {"decide", "mark", "log",  \* verifyTicket
           "record",                 \* transfer
           "compare", "write"}       \* save(ticket), of transfer and refundTicket

\* findOne: the ticket and its event in one SELECT.
RowOf(t) == [status |-> status[t], owner |-> owner[t], event |-> event]

\* Mutant of Judge: a used ticket is not refused.
JudgeDates(row, time) ==
  IF row.event.cancelled THEN "CANCELLED"
  ELSE IF time < row.event.opens THEN "EVENT_NOT_STARTED"
  ELSE IF row.event.closes # None /\ time > row.event.closes THEN "EVENT_ENDED"
  ELSE "VALID"

\* The early returns of verifyTicket, in their order.
Judge(row, time) ==
  IF row.event.cancelled THEN "CANCELLED"
  ELSE IF time < row.event.opens THEN "EVENT_NOT_STARTED"
  ELSE IF row.event.closes # None /\ time > row.event.closes THEN "EVENT_ENDED"
  ELSE IF row.status = "USED" THEN "ALREADY_USED"
  ELSE "VALID"

\* A call that has read ticket t goes on to a phase with what it was asked.
Begin(c, t, request, phase) ==
  /\ pc[c] = "new"
  /\ req' = [req EXCEPT ![c] = request]
  /\ seen' = [seen EXCEPT ![c] = RowOf(t)]
  /\ pc' = [pc EXCEPT ![c] = phase]
  /\ late' = IF t \in marked THEN late \cup {c} ELSE late
  /\ UNCHANGED <<tables, world, diff, verdict, marked, crossed>>

\* A call goes on to its next phase.
Goto(c, phase) ==
  /\ pc' = [pc EXCEPT ![c] = phase]
  /\ UNCHANGED <<world, req, seen, late>>

-------------------------------------------------------------------------------
(* VerificationService.verifyTicket *)

Scan(c, t, mark) ==
  Begin(c, t, [op |-> "scan", ticket |-> t, mark |-> mark, to |-> None], "decide")

\* Mutant of ScanUnknown: logs without a verdict.
ScanUnjudged(c, t, mark) ==
  /\ pc[c] = "new"
  /\ req' = [req EXCEPT ![c] = [op |-> "scan", ticket |-> t, mark |-> mark,
                                to |-> None]]
  /\ pc' = [pc EXCEPT ![c] = "log"]
  /\ UNCHANGED <<tables, world, seen, diff, verdict, history>>

\* A ticket that does not exist is INVALID.
ScanUnknown(c, t, mark) ==
  /\ pc[c] = "new"
  /\ req' = [req EXCEPT ![c] = [op |-> "scan", ticket |-> t, mark |-> mark,
                                to |-> None]]
  /\ verdict' = [verdict EXCEPT ![c] = "INVALID"]
  /\ pc' = [pc EXCEPT ![c] = "log"]
  /\ UNCHANGED <<tables, world, seen, diff, history>>

\* Mutant of Decide: a scan that only looks marks the ticket too.
DecideToMark(c) ==
  /\ pc[c] = "decide"
  /\ verdict' = [verdict EXCEPT ![c] = Judge(seen[c], now)]
  /\ Goto(c, IF verdict'[c] = "VALID" THEN "mark" ELSE "log")
  /\ UNCHANGED <<tables, diff, marked, crossed>>

\* The verdict, by the row read and the time it is now.
Decide(c) ==
  /\ pc[c] = "decide"
  /\ verdict' = [verdict EXCEPT ![c] = Judge(seen[c], now)]
  /\ Goto(c, IF verdict'[c] = "VALID" /\ req[c].mark THEN "mark" ELSE "log")
  /\ UNCHANGED <<tables, diff, marked, crossed>>

\* update(ticketId, USED), whatever the ticket is by now; then the gateway reads
\* and emits the totals.
Mark(c) ==
  /\ pc[c] = "mark"
  /\ status' = [status EXCEPT ![req[c].ticket] = "USED"]
  /\ marked' = marked \cup {req[c].ticket}
  /\ crossed' = crossed \cup {d \in Calls : /\ req[d].op = "transfer"
                                          /\ req[d].ticket = req[c].ticket
                                          /\ pc[d] \in Phases}
  /\ Goto(c, "log")
  /\ UNCHANGED <<owner, transfers, log, diff, verdict>>

\* logVerification, and the answer.
Log(c) ==
  /\ pc[c] = "log"
  /\ log' = log \cup {[ticket |-> req[c].ticket, status |-> verdict[c],
                       mark |-> req[c].mark]}
  /\ Goto(c, "done")
  /\ UNCHANGED <<status, owner, transfers, diff, verdict, marked, crossed>>

-------------------------------------------------------------------------------
(* TicketsService.transfer, refundTicket, AdminService.refundOrder *)

\* The guards of transfer; a price above the cap is refused too, and changes
\* nothing.
StartTransfer(c, t, from, to) ==
  /\ owner[t] = from
  /\ status[t] = "ACTIVE"
  /\ Begin(c, t, [op |-> "transfer", ticket |-> t, mark |-> FALSE, to |-> to], "record")

\* Mutant of Record: the row of the transfer names the buyer twice.
RecordBuyer(c) ==
  /\ pc[c] = "record"
  /\ transfers' = transfers \cup {[ticket |-> req[c].ticket, from |-> req[c].to,
                                   to |-> req[c].to]}
  /\ Goto(c, "compare")
  /\ UNCHANGED <<status, owner, log, diff, verdict, marked, crossed>>

\* The COMPLETED row of the transfer, before the ticket changes hands.
Record(c) ==
  /\ pc[c] = "record"
  /\ transfers' = transfers \cup {[ticket |-> req[c].ticket, from |-> seen[c].owner,
                                   to |-> req[c].to]}
  /\ Goto(c, "compare")
  /\ UNCHANGED <<status, owner, log, diff, verdict, marked, crossed>>

StartRefund(c, t) ==
  /\ status[t] # "REFUNDED"
  /\ Begin(c, t, [op |-> "refund", ticket |-> t, mark |-> FALSE, to |-> None], "compare")

\* refundOrder, which Refunds models: update(ticket.id, CANCELLED), whatever the
\* ticket is.
RefundOrder(c, t) ==
  /\ pc[c] = "new"
  /\ req' = [req EXCEPT ![c] = [op |-> "refundOrder", ticket |-> t, mark |-> FALSE,
                                to |-> None]]
  /\ status' = [status EXCEPT ![t] = "CANCELLED"]
  /\ pc' = [pc EXCEPT ![c] = "done"]
  /\ UNCHANGED <<owner, transfers, log, world, seen, diff, verdict, history>>

-------------------------------------------------------------------------------
(* save(ticket) *)

\* The entity that is saved: the ticket that was read, with what the call sets.
Owner(c)  == IF req[c].op = "transfer" THEN req[c].to ELSE seen[c].owner
Status(c) == IF req[c].op = "transfer" THEN seen[c].status ELSE "REFUNDED"

\* The row is read again, and compared.
Compare(c) ==
  /\ pc[c] = "compare"
  /\ LET t == req[c].ticket IN
       diff' = [diff EXCEPT ![c] = {x \in Columns :
                                     \/ x = "owner"  /\ owner[t] # Owner(c)
                                     \/ x = "status" /\ status[t] # Status(c)}]
  /\ Goto(c, "write")
  /\ UNCHANGED <<tables, verdict, marked, crossed>>

\* The columns that differed are written, whatever they are by now.
Write(c) ==
  /\ pc[c] = "write"
  /\ LET t == req[c].ticket IN
       /\ owner' = IF "owner" \in diff[c] THEN [owner EXCEPT ![t] = Owner(c)] ELSE owner
       /\ status' = IF "status" \in diff[c] THEN [status EXCEPT ![t] = Status(c)]
                    ELSE status
  /\ Goto(c, "done")
  /\ UNCHANGED <<transfers, log, diff, verdict, marked, crossed>>

-------------------------------------------------------------------------------
(* The environment *)

\* A statement throws, the gateway throws or the process stops: the call ends
\* where it is, and what it wrote stays.
Fails(c) ==
  /\ pc[c] \in Phases
  /\ Goto(c, "error")
  /\ UNCHANGED <<tables, diff, verdict, marked, crossed>>

\* The organizer changes the dates of the event, or cancels it.
EventChanges(row) ==
  /\ event' = row
  /\ UNCHANGED <<tables, now, pc, req, seen, diff, verdict, history>>

Tick ==
  /\ now < Horizon
  /\ now' = now + 1
  /\ UNCHANGED <<tables, event, pc, req, seen, diff, verdict, history>>

-------------------------------------------------------------------------------
Init ==
  /\ status = [t \in Issued |-> "ACTIVE"]
  /\ owner = Holder
  /\ transfers = {}
  /\ log = {}
  /\ event \in EventRows
  /\ now = 0
  /\ pc = [c \in Calls |-> "new"]
  /\ req = [c \in Calls |-> NoRequest]
  /\ seen = [c \in Calls |-> None]
  /\ diff = [c \in Calls |-> {}]
  /\ verdict = [c \in Calls |-> None]
  /\ marked = {}
  /\ late = {}
  /\ crossed = {}

Step(c) ==
  \/ \E t \in Issued, mark \in BOOLEAN : Scan(c, t, mark)
  \/ \E t \in TicketIds \ Issued, mark \in BOOLEAN : ScanUnknown(c, t, mark)
  \/ Decide(c) \/ Mark(c) \/ Log(c)
  \/ \E t \in Issued, from, to \in Users : StartTransfer(c, t, from, to)
  \/ Record(c)
  \/ \E t \in Issued : StartRefund(c, t) \/ RefundOrder(c, t)
  \/ Compare(c) \/ Write(c)
  \/ Fails(c)

Next ==
  \/ \E c \in Calls : Step(c)
  \/ \E row \in EventRows : EventChanges(row)
  \/ Tick

Spec == Init /\ [][Next]_vars

-------------------------------------------------------------------------------
(* Correctness *)

\* Every variable has its type.
TypeOK ==
  /\ status \in [Issued -> Statuses]
  /\ owner \in [Issued -> Users]
  /\ transfers \subseteq Transfer
  /\ log \subseteq Entry
  /\ event \in EventRows
  /\ now \in 0 .. Horizon
  /\ pc \in [Calls -> Ended \cup Phases]
  /\ req \in [Calls -> Request]
  /\ seen \in [Calls -> Row \cup {None}]
  /\ diff \in [Calls -> SUBSET Columns]
  /\ verdict \in [Calls -> Verdicts \cup {None}]
  /\ marked \subseteq Issued
  /\ late \subseteq Calls
  /\ crossed \subseteq Calls

\* S holds the first owner of ticket t, and with an owner those it was recorded
\* to be transferred to.
Closed(t, S) ==
  /\ Holder[t] \in S
  /\ \A r \in transfers : r.ticket = t /\ r.from \in S => r.to \in S

\* From the first owner of a ticket a chain of recorded transfers leads to the
\* present one, however transfers and refunds of the same ticket overwrite each
\* other's columns and wherever they fail: each set closed under the transfers
\* has the owner.
Custody ==
  \A t \in Issued : \A S \in SUBSET Users : Closed(t, S) => owner[t] \in S

\* c is a check-in that found ticket t valid.
Admits(c, t) ==
  req[c].op = "scan" /\ req[c].ticket = t /\ req[c].mark /\ verdict[c] = "VALID"

\* Nobody is turned away with an unused ticket: ALREADY_USED is answered only
\* when another call, a check-in, found the ticket valid; a scan that only looks
\* uses nothing up.  The verdict counts though the scanner may not hear of it: what
\* fails after the mark takes nothing back.
RefusedAfterAdmission ==
  \A c \in Calls : verdict[c] = "ALREADY_USED" =>
    \E d \in Calls \ {c} : Admits(d, req[c].ticket)

\* A refund of ticket t, or a transfer that was under way at a check-in, may write
\* over the USED of the check-in.
TakenBack(t) ==
  \E e \in Calls :
    /\ req[e].ticket = t
    /\ req[e].op \in {"refund", "refundOrder"} \/ e \in crossed

\* Once a check-in has marked a ticket, no scan that begins later finds it valid and
\* no transfer that begins later gets past its guards, however they overlap and
\* fail, unless a refund of the ticket or a transfer that had begun before came in.
UsedStaysUsed ==
  \A c \in late :
    verdict[c] = "VALID" \/ req[c].op = "transfer" => TakenBack(req[c].ticket)

-------------------------------------------------------------------------------
(* The inductive invariant *)

\* What a call holds fits its phase; what it read was true, and what it is about
\* to write to owner is on a chain of recorded transfers.
CallOK(c) ==
  /\ pc[c] = "new" => req[c] = NoRequest /\ verdict[c] = None
  /\ pc[c] = "decide" => req[c].op = "scan" /\ verdict[c] = None
  /\ pc[c] = "mark" => Admits(c, req[c].ticket)
  /\ pc[c] = "log" => req[c].ticket \in TicketIds /\ verdict[c] \in Verdicts
  /\ pc[c] \in {"decide", "mark", "record", "compare", "write"} => req[c].ticket \in Issued
  /\ pc[c] \in {"decide", "record", "compare", "write"} => seen[c] \in Row
  /\ pc[c] = "record" => req[c].op = "transfer"
  /\ pc[c] \in {"compare", "write"} => req[c].op \in {"transfer", "refund"}
  /\ pc[c] \in {"record", "compare", "write"} /\ req[c].op = "transfer" =>
       req[c].to \in Users /\ seen[c].status = "ACTIVE"
CallsOK == \A c \in Calls : CallOK(c)

ChainsOK ==
  \A c \in Calls : pc[c] \in {"record", "compare", "write"} =>
    \A S \in SUBSET Users : Closed(req[c].ticket, S) =>
      seen[c].owner \in S /\ (pc[c] # "record" => Owner(c) \in S)

\* A used ticket, also one that was used when it was read, has its check-in.
UsedOK ==
  /\ \A t \in Issued : status[t] = "USED" => \E d \in Calls : Admits(d, t)
  /\ \A c \in Calls : pc[c] = "decide" /\ seen[c].status = "USED" =>
       \E d \in Calls \ {c} : Admits(d, req[c].ticket)

\* What calls have read, decided and recorded fits the tables.
CallsInv == TypeOK /\ Custody /\ CallsOK /\ ChainsOK /\ UsedOK /\ RefusedAfterAdmission

\* What a check-in has marked is USED unless it may have been taken back; a call
\* that reads it later finds it so, and a transfer that read it before has crossed.
MarksOK ==
  /\ \A t \in marked : status[t] = "USED" \/ TakenBack(t)
  /\ \A c \in Calls : req[c].ticket \in marked =>
       /\ c \in late /\ pc[c] = "decide" /\ seen[c].status # "USED" =>
            TakenBack(req[c].ticket)
       /\ req[c].op = "transfer" /\ pc[c] \in Phases => TakenBack(req[c].ticket)
  /\ \A c \in late : req[c].ticket \in marked

IInv == CallsInv /\ MarksOK /\ UsedStaysUsed

-------------------------------------------------------------------------------
(* What a test says, and the code does not do *)

\* "should reject a double-scan of the same ticket": one check-in at most admits
\* with a ticket.
SingleAdmission ==
  \A t \in Issued : \A c, d \in Calls : Admits(c, t) /\ Admits(d, t) => c = d
===============================================================================
