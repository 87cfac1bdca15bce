-------------------------------- MODULE Waitlist -------------------------------
(***************************************************************************)
(* The waitlist of one event: WaitlistService.addToWaitlist,               *)
(* removeFromWaitlist and notifyNext, as concurrent calls.  Each reads     *)
(* rows, decides, and writes after an await.  An INSERT is seen later than *)
(* its joinedAt, which is the time its transaction starts.                 *)
(***************************************************************************)
EXTENDS Integers, FiniteSets

CONSTANTS
  Users,     \* the users who join and leave
  EntryIds,  \* the ids of entries; bounds the entries made
  Counts,    \* how many entries a call of notifyNext asks for
  Calls,     \* the calls the server handles at a time
  None       \* an absent entry, user or id

VARIABLES
  entry,    \* what each entry was inserted with, or None
  place,    \* where each entry is
  deleted,  \* the users whose account is deleted
  clock,    \* the time, counted in insertions
  pc,       \* where each call is
  req,      \* the user or the entry it is about
  batch,    \* the entries a call of notifyNext still has to treat
  shared,   \* history: those of its entries an overlapping call had picked as well
  mailed,   \* history: the entries that have been mailed
  unsaved   \* history: those whose call failed between the mail and the save

rows  == <<entry, place, deleted, clock>>
lists == <<batch, shared>>
local == <<pc, req, lists>>
history == <<mailed, unsaved>>
vars  == <<rows, local, history>>

-------------------------------------------------------------------------------
(* Rows *)

\* An entry; ahead holds the entries that were on the list when it was made.
Entry  == [user : Users, joined : Nat, ahead : SUBSET EntryIds]
Places == {"unused", "inserting", "waiting", "notified", "gone"}
Phases == {"idle",
           "insert", "commit",  \* addToWaitlist
           "remove",            \* removeFromWaitlist
           "send",              \* notifyNext
           "compare", "update", "restore"} \* its save(entry)

ASSUME WaitlistAssumption ==
  /\ Counts \subseteq Nat \ {0}
  /\ IsFiniteSet(EntryIds)
  /\ None \notin Users \cup EntryIds \cup Entry

OnList  == {e \in EntryIds : place[e] \in {"waiting", "notified"}}
Waiting == {e \in EntryIds : place[e] = "waiting"}

Earlier(e, f) == entry[e].joined < entry[f].joined

\* The user relation of an entry, and so its address, leaves out deleted users.
Mailable(e) == entry[e].user \notin deleted

\* Mutant of Oldest: take n, in no order.
AnyOf(S, n) == {T \in SUBSET S : Cardinality(T) <= n}

\* order by joinedAt, take n: the one set of the n that joined first.
Oldest(S, n) == {{e \in S : Cardinality({f \in S : Earlier(f, e)}) < n}}

-------------------------------------------------------------------------------
(* Steps every call is made of *)

Goto(c, phase, about) ==
  /\ pc' = [pc EXCEPT ![c] = phase]
  /\ req' = [req EXCEPT ![c] = about]

Return(c) ==
  /\ Goto(c, "idle", None)
  /\ batch' = [batch EXCEPT ![c] = {}]
  /\ shared' = [shared EXCEPT ![c] = {}]

-------------------------------------------------------------------------------
(* addToWaitlist, removeFromWaitlist *)

\* A user who is on the list already gets a conflict, and nothing changes.
StartJoin(c, u) ==
  /\ pc[c] = "idle"
  /\ \A e \in OnList : entry[e].user # u
  /\ Goto(c, "insert", u)
  /\ UNCHANGED <<rows, lists, history>>

\* INSERT: the row has its joinedAt and is not seen yet.
Insert(c, e) ==
  /\ pc[c] = "insert"
  /\ place[e] = "unused"
  /\ entry' = [entry EXCEPT ![e] = [user |-> req[c], joined |-> clock, ahead |-> OnList]]
  /\ place' = [place EXCEPT ![e] = "inserting"]
  /\ clock' = clock + 1
  /\ Goto(c, "commit", e)
  /\ UNCHANGED <<deleted, lists, history>>

CommitInsert(c) ==
  /\ pc[c] = "commit"
  /\ place' = [place EXCEPT ![req[c]] = "waiting"]
  /\ Return(c)
  /\ UNCHANGED <<entry, deleted, clock, history>>

\* findOne: any entry of the user.
StartLeave(c, e) ==
  /\ pc[c] = "idle"
  /\ e \in OnList
  /\ Goto(c, "remove", e)
  /\ UNCHANGED <<rows, lists, history>>

\* DELETE by id; a row that is gone already is no error.
Remove(c) ==
  /\ pc[c] = "remove"
  /\ place' = [place EXCEPT ![req[c]] = "gone"]
  /\ Return(c)
  /\ UNCHANGED <<entry, deleted, clock, history>>

-------------------------------------------------------------------------------
(* notifyNext *)

\* The entries found; those without an address will be passed over.
StartNotify(c, n) ==
  /\ pc[c] = "idle"
  /\ \E T \in Oldest(Waiting, n) :
       batch' = [batch EXCEPT ![c] = {e \in T : Mailable(e)}]
  /\ shared' = [d \in Calls |-> shared[d] \cup
                   UNION {batch'[d] \cap batch'[x] : x \in Calls \ {d}}]
  /\ Goto(c, "send", None)
  /\ UNCHANGED <<rows, history>>

\* The next entry of the batch is e: in the order they joined.
First(c, e) == e \in batch[c] /\ \A f \in batch[c] \ {e} : Earlier(e, f)

\* Mutant of SendMail: the mails of a batch go out in no order.
SendAnyway(c, e) ==
  /\ pc[c] = "send"
  /\ e \in batch[c]
  /\ mailed' = mailed \cup {e}
  /\ Goto(c, "compare", e)
  /\ UNCHANGED <<rows, lists, unsaved>>

\* The mail is accepted; when it is not, the call fails (see Fails).
SendMail(c, e) ==
  /\ pc[c] = "send"
  /\ First(c, e)
  /\ mailed' = mailed \cup {e}
  /\ Goto(c, "compare", e)
  /\ UNCHANGED <<rows, lists, unsaved>>

\* c has mailed an entry and not saved it yet.
Saving(c) == pc[c] \in {"compare", "update", "restore"}

\* save(entry) reads the row again: one that is there is updated, one that is gone
\* is inserted.
CompareEntry(c) ==
  /\ pc[c] = "compare"
  /\ Goto(c, IF place[req[c]] = "gone" THEN "restore" ELSE "update", req[c])
  /\ UNCHANGED <<rows, lists, history>>

\* The call goes on with the next entry.
NextEntry(c) ==
  /\ Goto(c, "send", None)
  /\ batch' = [batch EXCEPT ![c] = @ \ {req[c]}]
  /\ shared' = [shared EXCEPT ![c] = @ \ {req[c]}]

\* The row gets its notifiedAt.
Notified(c) ==
  /\ place' = [place EXCEPT ![req[c]] = "notified"]
  /\ NextEntry(c)
  /\ UNCHANGED <<entry, deleted, clock, history>>

\* Mutant of UpdateEntry: notifiedAt is not saved.
UpdateForgotten(c) ==
  /\ pc[c] = "update"
  /\ place[req[c]] # "gone"
  /\ NextEntry(c)
  /\ UNCHANGED <<rows, history>>

UpdateEntry(c) ==
  /\ pc[c] = "update"
  /\ place[req[c]] # "gone"
  /\ Notified(c)

\* An UPDATE of a row that has gone meanwhile is no error.
UpdateNothing(c) ==
  /\ pc[c] = "update"
  /\ place[req[c]] = "gone"
  /\ NextEntry(c)
  /\ UNCHANGED <<rows, history>>

\* Mutant of RestoreEntry: the row comes back as it was read.
RestoreUnnotified(c) ==
  /\ pc[c] = "restore"
  /\ place[req[c]] = "gone"
  /\ place' = [place EXCEPT ![req[c]] = "waiting"]
  /\ NextEntry(c)
  /\ UNCHANGED <<entry, deleted, clock, history>>

\* An INSERT of a row that is there again fails (see Fails).
RestoreEntry(c) ==
  /\ pc[c] = "restore"
  /\ place[req[c]] = "gone"
  /\ Notified(c)

EndNotify(c) ==
  /\ pc[c] = "send"
  /\ batch[c] = {}
  /\ Return(c)
  /\ UNCHANGED <<rows, history>>

-------------------------------------------------------------------------------
(* The environment *)

\* The mail or a statement fails, or the process stops; an open INSERT is rolled
\* back.
Fails(c) ==
  /\ pc[c] # "idle"
  /\ Return(c)
  /\ place' = [e \in EntryIds |->
                 IF pc[c] = "commit" /\ e = req[c] THEN "gone" ELSE place[e]]
  /\ unsaved' = unsaved \cup (IF Saving(c) THEN {req[c]} ELSE {})
  /\ UNCHANGED <<entry, deleted, clock, mailed>>

\* AuthService.deleteAccount: the user stays as a soft-deleted row.
DeleteAccount(u) ==
  /\ u \notin deleted
  /\ deleted' = deleted \cup {u}
  /\ UNCHANGED <<entry, place, clock, local, history>>

-------------------------------------------------------------------------------
Init ==
  /\ entry = [e \in EntryIds |-> None]
  /\ place = [e \in EntryIds |-> "unused"]
  /\ deleted = {}
  /\ clock = 0
  /\ pc = [c \in Calls |-> "idle"]
  /\ req = [c \in Calls |-> None]
  /\ batch = [c \in Calls |-> {}]
  /\ shared = [c \in Calls |-> {}]
  /\ mailed = {}
  /\ unsaved = {}

Step(c) ==
  \/ \E u \in Users \ deleted : StartJoin(c, u)
  \/ \E e \in EntryIds : Insert(c, e)
  \/ CommitInsert(c)
  \/ \E e \in EntryIds : StartLeave(c, e)
  \/ Remove(c)
  \/ \E n \in Counts : StartNotify(c, n)
  \/ \E e \in EntryIds : SendMail(c, e)
  \/ CompareEntry(c) \/ UpdateEntry(c) \/ UpdateNothing(c) \/ RestoreEntry(c)
  \/ EndNotify(c)
  \/ Fails(c)

Next ==
  \/ \E c \in Calls : Step(c)
  \/ \E u \in Users : DeleteAccount(u)

Spec == Init /\ [][Next]_vars

-------------------------------------------------------------------------------
(* Correctness *)

\* Every variable has its type, and a row its user.
TypeOK ==
  /\ entry \in [EntryIds -> Entry \cup {None}]
  /\ place \in [EntryIds -> Places]
  /\ \A e \in EntryIds : place[e] # "unused" => entry[e] # None
  /\ deleted \subseteq Users
  /\ clock \in Nat
  /\ pc \in [Calls -> Phases]
  /\ req \in [Calls -> Users \cup EntryIds \cup {None}]
  /\ batch \in [Calls -> SUBSET EntryIds]
  /\ shared \in [Calls -> SUBSET EntryIds]
  /\ mailed \subseteq EntryIds /\ unsaved \subseteq EntryIds

\* First come, first served: an entry is notified only after those that were on
\* the list when it joined, unless they left or cannot be mailed, though calls of
\* notifyNext overlap, fail at any mail, and work on lists that are out of date.
FirstComeFirstServed ==
  \A e \in EntryIds : place[e] = "notified" =>
    \A f \in entry[e].ahead : place[f] = "waiting" => ~Mailable(f)

\* Call c mails entry e in this step.
Mails(c, e) == pc[c] = "send" /\ pc'[c] = "compare" /\ req'[c] = e

\* A call mails an entry that has been mailed before only when the earlier call
\* failed between the mail and the save, or overlaps it and had picked the entry as
\* well: a list read after the save, a row that was deleted or inserted again, and a
\* call that stopped before the mail bring no second mail.
MailedOnce ==
  [][\A c \in Calls, e \in mailed : Mails(c, e) => e \in unsaved \cup shared[c]]_vars

\* Calls that read, mail and save a batch entry by entry, overlap and fail
\* implement a queue that notifies one entry at a time, each in its turn.
Q == INSTANCE Queue WITH
       Users <- Users, EntryIds <- EntryIds, None <- None,
       place <- place, deleted <- deleted,
       owner <- [e \in EntryIds |-> IF entry[e] = None THEN None ELSE entry[e].user],
       ahead <- [e \in EntryIds |-> IF entry[e] = None THEN {} ELSE entry[e].ahead]
ImplementsQueue == Q!Spec

-------------------------------------------------------------------------------
(* The inductive invariant *)

\* Who was on the list when an entry was made joined earlier.
AheadOK ==
  \A e \in EntryIds : place[e] # "unused" =>
    /\ entry[e].joined < clock
    /\ \A f \in entry[e].ahead : place[f] \notin {"unused", "inserting"} /\ Earlier(f, e)

\* A row that is not committed belongs to one call.
InsertsOK ==
  \A c \in Calls :
    /\ pc[c] = "insert" => req[c] \in Users
    /\ pc[c] = "commit" => /\ req[c] \in EntryIds /\ place[req[c]] = "inserting"
                           /\ \A d \in Calls \ {c} : pc[d] = "commit" => req[d] # req[c]
    /\ pc[c] = "remove" => req[c] \in EntryIds /\ place[req[c]] \notin {"unused", "inserting"}

\* With an entry of a batch, the batch has all that must be notified before it.
BatchesOK ==
  \A c \in Calls :
    /\ \A e \in batch[c] :
         /\ place[e] \notin {"unused", "inserting"}
         /\ \A f \in entry[e].ahead : place[f] = "waiting" => f \in batch[c] \/ ~Mailable(f)
    /\ pc[c] \in {"compare", "update", "restore"} => First(c, req[c])

\* A mailed entry that still waits is being saved, or its call has failed.
MailsOK ==
  /\ \A e \in mailed : place[e] \notin {"unused", "inserting"}
  /\ \A e \in mailed \ unsaved : place[e] = "waiting" =>
       \E c \in Calls : Saving(c) /\ req[c] = e

\* What two calls have picked both know as shared, and a mailed entry a call still
\* has to treat is shared, or being saved by it, or its other call has failed.
SharedOK ==
  /\ \A c \in Calls : \A d \in Calls \ {c} : batch[c] \cap batch[d] \subseteq shared[c]
  /\ \A c \in Calls : \A e \in batch[c] \cap mailed :
       e \in unsaved \cup shared[c] \/ (Saving(c) /\ req[c] = e)

ListInv == TypeOK /\ AheadOK /\ InsertsOK /\ BatchesOK /\ FirstComeFirstServed
IInv    == ListInv /\ MailsOK /\ SharedOK
===============================================================================
