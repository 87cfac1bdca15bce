---------------------------- MODULE EventLifecycle ----------------------------
(***************************************************************************)
(* One event: EventsService.createEvent, update, uploadImage, changeStatus *)
(* and remove, AdminService.approveEvent and rejectEvent with their audit  *)
(* log, as concurrent calls without transactions.  Each loads the row,     *)
(* checks and changes the entity, and saves it after an await.  save()     *)
(* reads the row again and then writes the columns in which the entity     *)
(* differs from it, those that the call only read as well.                 *)
(*                                                                         *)
(* Of the columns the model has the status and isArchived; an edit is of   *)
(* the others.  A call is made once, so that what became of it can be told *)
(* afterwards.                                                             *)
(***************************************************************************)
CONSTANTS
  Users,      \* who may call the service
  Admins,     \* those whose role is ADMIN
  Organizer,  \* the one who creates the event
  Calls,      \* the calls made
  None        \* no row, operation, user or entry

VARIABLES
  event,   \* the row in the table
  been,    \* history: the rows it has been
  author,  \* history: the call that gave it the status it has
  audit,   \* what each call wrote to audit_logs
  mailed,  \* the calls whose mail to the organizer was accepted
  pc,      \* where each call is, or how it ended
  op,      \* what it was asked to do
  user,    \* who made it
  entity,  \* the row it saves
  diff,    \* the columns it is about to write
  stale    \* history: the calls whose event changed its status after they loaded it

table == <<event, been, author>>
asked == <<op, user, entity>>
vars  == <<table, audit, mailed, pc, asked, diff, stale>>

Statuses == {"DRAFT", "PUBLISHED", "POSTPONED", "CANCELLED", "COMPLETED"}
Columns  == {"status", "archived"}
Row      == [status : Statuses, archived : BOOLEAN]
Entry    == [actor : Admins, action : {"EVENT_APPROVED", "EVENT_REJECTED"}]

Operations == {"create", "edit", "move", "archive", "approve", "reject"}
Phases     == {"compare", "write", "log", "mail"}
Ended      == {"done", "error",  \* error: before the save was through
               "partial"}        \* and after it: the save stays, and is not told

ASSUME LifecycleAssumption ==
  /\ Admins \subseteq Users
  /\ Organizer \in Users
  /\ None \notin Users \cup Row \cup Operations \cup Entry

\* EVENT_TRANSITIONS
Transitions ==
  [DRAFT     |-> {"PUBLISHED", "CANCELLED"},
   PUBLISHED |-> {"CANCELLED", "POSTPONED", "COMPLETED"},
   POSTPONED |-> {"PUBLISHED", "CANCELLED"},
   CANCELLED |-> {},
   COMPLETED |-> {}]

MayChange(u) == u = Organizer \/ u \in Admins

-------------------------------------------------------------------------------
(* What every call is made of *)

\* The call of u has loaded the event and made w of it; save(w) is next.
Load(c, u, operation, w) ==
  /\ pc[c] = "new"
  /\ event # None
  /\ pc' = [pc EXCEPT ![c] = "compare"]
  /\ op' = [op EXCEPT ![c] = operation]
  /\ user' = [user EXCEPT ![c] = u]
  /\ entity' = [entity EXCEPT ![c] = w]
  /\ UNCHANGED <<table, audit, mailed, diff, stale>>

WithStatus(row, s) == [status |-> s, archived |-> row.archived]

Goto(c, phase) ==
  /\ pc' = [pc EXCEPT ![c] = phase]
  /\ UNCHANGED asked

\* What follows the save of an operation.
Following(operation) ==
  IF operation \in {"approve", "reject"} THEN "log"
  ELSE IF operation = "move" THEN "mail" ELSE "done"

-------------------------------------------------------------------------------
(* EventsService *)

\* createEvent: any status that the request names.
Create(c, s) ==
  /\ pc[c] = "new"
  /\ event = None
  /\ event' = [status |-> s, archived |-> FALSE]
  /\ been' = {event'}
  /\ author' = c
  /\ pc' = [pc EXCEPT ![c] = "done"]
  /\ op' = [op EXCEPT ![c] = "create"]
  /\ user' = [user EXCEPT ![c] = Organizer]
  /\ entity' = [entity EXCEPT ![c] = event']
  /\ UNCHANGED <<audit, mailed, diff, stale>>

\* update, and uploadImage, whose upload comes between the load and the save.
StartEdit(c, u) ==
  /\ MayChange(u)
  /\ Load(c, u, "edit", event)

\* Mutant of StartMove: the transition is not checked.
StartAnyMove(c, u, s) ==
  /\ MayChange(u)
  /\ Load(c, u, "move", WithStatus(event, s))

\* changeStatus
StartMove(c, u, s) ==
  /\ MayChange(u)
  /\ Load(c, u, "move", WithStatus(event, s))
  /\ s \in Transitions[event.status]

\* remove
StartArchive(c, u) ==
  /\ MayChange(u)
  /\ Load(c, u, "archive", [status |-> event.status, archived |-> TRUE])
  /\ event.status \in {"DRAFT", "CANCELLED"}

-------------------------------------------------------------------------------
(* AdminService *)

StartApprove(c, a) ==
  /\ Load(c, a, "approve", WithStatus(event, "PUBLISHED"))
  /\ event.status = "DRAFT"

\* rejectEvent takes an event of any status back to DRAFT.
StartReject(c, a) == Load(c, a, "reject", WithStatus(event, "DRAFT"))

-------------------------------------------------------------------------------
(* save(event), and what follows it *)

\* The row is read again, and compared.
Compare(c) ==
  /\ pc[c] = "compare"
  /\ diff' = [diff EXCEPT ![c] =
       {x \in Columns : \/ x = "status" /\ event.status # entity[c].status
                        \/ x = "archived" /\ event.archived # entity[c].archived}]
  /\ Goto(c, "write")
  /\ UNCHANGED <<table, audit, mailed, stale>>

\* The columns that differed are written, whatever they are by now.
Write(c) ==
  /\ pc[c] = "write"
  /\ event' =
       [status   |-> IF "status" \in diff[c] THEN entity[c].status ELSE event.status,
        archived |-> IF "archived" \in diff[c] THEN entity[c].archived ELSE event.archived]
  /\ been' = been \cup {event'}
  /\ author' = IF event'.status # event.status THEN c ELSE author
  /\ stale' = stale \cup {d \in Calls \ {c} : /\ event'.status # event.status
                                            /\ pc[d] \in {"compare", "write"}}
  /\ Goto(c, Following(op[c]))
  /\ UNCHANGED <<audit, mailed, diff>>

\* What an admin's call has to say in the audit log.
Verdict(c) ==
  [actor  |-> user[c],
   action |-> IF op[c] = "approve" THEN "EVENT_APPROVED" ELSE "EVENT_REJECTED"]

\* AuditLogService.log
Log(c) ==
  /\ pc[c] = "log"
  /\ audit' = [audit EXCEPT ![c] = Verdict(c)]
  /\ Goto(c, "mail")
  /\ UNCHANGED <<table, mailed, diff, stale>>

SendMail(c) ==
  /\ pc[c] = "mail"
  /\ mailed' = mailed \cup {c}
  /\ Goto(c, "done")
  /\ UNCHANGED <<table, audit, diff, stale>>

\* changeStatus sends no mail when the event has no organizer with an address.
SkipMail(c) ==
  /\ pc[c] = "mail" /\ op[c] = "move"
  /\ Goto(c, "done")
  /\ UNCHANGED <<table, audit, mailed, diff, stale>>

\* Mutant of Fails: a save that fails is not noticed.
FailsUnnoticed(c) ==
  /\ pc[c] \in Phases
  /\ Goto(c, IF pc[c] \in {"compare", "write"} THEN Following(op[c]) ELSE "partial")
  /\ UNCHANGED <<table, audit, mailed, diff, stale>>

\* A statement, the upload or the mail throws, or the process stops.
Fails(c) ==
  /\ pc[c] \in Phases
  /\ Goto(c, IF pc[c] \in {"compare", "write"} THEN "error" ELSE "partial")
  /\ UNCHANGED <<table, audit, mailed, diff, stale>>

-------------------------------------------------------------------------------
Init ==
  /\ event = None
  /\ been = {}
  /\ author = None
  /\ audit = [c \in Calls |-> None]
  /\ mailed = {}
  /\ pc = [c \in Calls |-> "new"]
  /\ op = [c \in Calls |-> None]
  /\ user = [c \in Calls |-> None]
  /\ entity = [c \in Calls |-> None]
  /\ diff = [c \in Calls |-> {}]
  /\ stale = {}

Step(c) ==
  \/ \E s \in Statuses : Create(c, s)
  \/ \E u \in Users : StartEdit(c, u)
  \/ \E u \in Users, s \in Statuses : StartMove(c, u, s)
  \/ \E u \in Users : StartArchive(c, u)
  \/ \E a \in Admins : StartApprove(c, a)
  \/ \E a \in Admins : StartReject(c, a)
  \/ Compare(c) \/ Write(c) \/ Log(c) \/ SendMail(c) \/ SkipMail(c)
  \/ Fails(c)

Next == \E c \in Calls : Step(c)

Spec == Init /\ [][Next]_vars

-------------------------------------------------------------------------------
(* Correctness *)

\* Every variable has its type.
TypeOK ==
  /\ event \in Row \cup {None}
  /\ been \subseteq Row
  /\ author \in Calls \cup {None}
  /\ audit \in [Calls -> Entry \cup {None}]
  /\ mailed \subseteq Calls
  /\ pc \in [Calls -> {"new"} \cup Phases \cup Ended]
  /\ op \in [Calls -> Operations \cup {None}]
  /\ user \in [Calls -> Users \cup {None}]
  /\ entity \in [Calls -> Row \cup {None}]
  /\ diff \in [Calls -> SUBSET Columns]
  /\ stale \subseteq Calls

\* The event has had a status of S, or was created with one.
Had(S)     == \E v \in been : v.status \in S
Created(S) == \E c \in Calls : op[c] = "create" /\ entity[c].status \in S

\* c has saved the event.
Saved(c) == pc[c] \in {"log", "mail", "partial", "done"}

\* c has written its entry to the audit log, or is about to, or was cut off first.
Logged(c) ==
  \/ audit[c] = Verdict(c)
  \/ audit[c] = None /\ pc[c] \in {"log", "partial"}

\* The status an event has was given to it by a call that asked for it and was
\* through with its save: an approval or a rejection, which the audit log names
\* unless it is cut off first, or an edit or an archiving only when the status
\* changed after it had read it.  So a published event is a draft again only by a
\* rejection or by such a stale save, and never by a transition.
StatusAccounted ==
  event # None =>
    /\ Saved(author) /\ entity[author].status = event.status
    /\ op[author] \in {"approve", "reject"} => Logged(author)
    /\ op[author] \in {"edit", "archive"} => author \in stale
    /\ event.status = "DRAFT" => op[author] \in {"create", "reject"} \/ author \in stale

\* What the audit log and the mails to the organizer say of the event, it has
\* been, though saves fail, overlap, and leave out what they find written.
NewsIsTrue ==
  \A c \in Calls :
    /\ audit[c] # None \/ c \in mailed => Had({entity[c].status})
    /\ audit[c] # None => (audit[c].action = "EVENT_APPROVED" <=> op[c] = "approve")

\* An event is COMPLETED or POSTPONED only when it was PUBLISHED before, and
\* archived only when it was a draft or cancelled, unless it was created like
\* that: stale saves bring a status back, and never make a new one.
LegalPast ==
  /\ Had({"COMPLETED", "POSTPONED"}) =>
       Had({"PUBLISHED"}) \/ Created({"COMPLETED", "POSTPONED"})
  /\ (\E v \in been : v.archived) => Had({"DRAFT", "CANCELLED"})

\* Every change of status is a transition of EVENT_TRANSITIONS or a rejection, but
\* for the saves of calls that overlapped another change: a call that found the
\* status as it is leaves no terminal status, whatever it compares and writes.
LegalStep ==
  event # None /\ event'.status # event.status =>
    \E c \in Calls :
      /\ pc[c] = "write" /\ pc'[c] = Following(op[c])
      /\ \/ event'.status \in Transitions[event.status]
         \/ op[c] = "reject"
         \/ c \in stale
LegalSteps == [][LegalStep]_vars

-------------------------------------------------------------------------------
(* The inductive invariant *)

\* The row is one of those it has been, and has an author.
TableOK == IF event = None THEN been = {} ELSE event \in been /\ author \in Calls

\* Where the columns that a call saves come from.
SourceOK(c) ==
  /\ op[c] \in {"edit", "archive"} => Had({entity[c].status})
  /\ op[c] = "move" => /\ entity[c].status # "DRAFT"
                       /\ entity[c].status \in {"COMPLETED", "POSTPONED"} => Had({"PUBLISHED"})
  /\ op[c] = "approve" => entity[c].status = "PUBLISHED"
  /\ op[c] = "reject" => entity[c].status = "DRAFT"
  /\ entity[c].archived => Had({"DRAFT", "CANCELLED"})

\* What a call has fits its phase; what it leaves out of its write, and what it is
\* to tell, the event has been.
CallOK(c) ==
  /\ pc[c] = "new" => op[c] = None
  /\ pc[c] \in {"new", "compare", "write", "error"} => audit[c] = None /\ c \notin mailed
  /\ pc[c] \in Phases =>
       /\ event # None /\ op[c] \in Operations \ {"create"}
       /\ entity[c] \in Row /\ SourceOK(c)
       /\ user[c] \in Users /\ (op[c] \in {"approve", "reject"} => user[c] \in Admins)
  /\ pc[c] = "write" /\ "status" \notin diff[c] => Had({entity[c].status})
  /\ pc[c] \in {"log", "mail"} => Had({entity[c].status})
  /\ pc[c] = "log" => op[c] \in {"approve", "reject"} /\ audit[c] = None
  /\ Saved(c) /\ op[c] \in {"approve", "reject"} => Logged(c)
CallsOK == \A c \in Calls : CallOK(c)

\* What calls have loaded and will tell fits the past of the event.
PastInv == TypeOK /\ TableOK /\ CallsOK /\ NewsIsTrue /\ LegalPast

\* A save that is not stale asks for what the status of the row allows.
FreshOK(c) ==
  pc[c] \in {"compare", "write"} /\ c \notin stale =>
    /\ op[c] \in {"edit", "archive"} => entity[c].status = event.status
    /\ op[c] = "move" => entity[c].status \in Transitions[event.status]
    /\ op[c] = "approve" => event.status = "DRAFT"

IInv == PastInv /\ (\A c \in Calls : FreshOK(c)) /\ StatusAccounted

-------------------------------------------------------------------------------
(* What the code says of itself, and does not do *)

\* "[EventStatus.CANCELLED]: []", "[EventStatus.COMPLETED]: []": only a rejection
\* takes an event out of these.
TerminalIsFinal ==
  [][event # None /\ event.status \in {"CANCELLED", "COMPLETED"} =>
       \/ event'.status = event.status
       \/ \E c \in Calls : op[c] = "reject" /\ pc[c] = "write" /\ pc'[c] = "log"]_vars
===============================================================================
